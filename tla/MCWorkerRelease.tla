-------------------------- MODULE MCWorkerRelease ---------------------------
(* WorkerRelease on small instances: dispatches are interchangeable, and so are terminals.    *)
EXTENDS WorkerRelease, TLC

Symmetry == Permutations(Dispatch) \cup Permutations(Terminal)
=============================================================================
