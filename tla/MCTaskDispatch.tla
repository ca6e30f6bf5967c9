--------------------------- MODULE MCTaskDispatch ---------------------------
EXTENDS TaskDispatch, TLC

\* Tasks, handles and gates are interchangeable: no definition names one.
Symmetry == Permutations(Task) \cup Permutations(Handle) \cup Permutations(Gate)

=============================================================================
