------------------------- MODULE MCMutationReceipts -------------------------
(* MutationReceipts on small instances: calls are interchangeable, and so are payloads.       *)
EXTENDS MutationReceipts, TLC

Symmetry == Permutations(Call) \cup Permutations(Payload)
=============================================================================
