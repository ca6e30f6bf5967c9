---------------------------- MODULE MCCloudSync -----------------------------
(* CloudSync on small instances: writes are interchangeable.                                  *)
EXTENDS CloudSync, TLC

Symmetry == Permutations(Write)
=============================================================================
