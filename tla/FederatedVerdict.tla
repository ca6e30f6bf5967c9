-------------------------- MODULE FederatedVerdict --------------------------
(***************************************************************************)
(* What a federated report promises.  The Run home alone decides how a     *)
(* dispatch ends, once; the worker server may learn of it later, and what  *)
(* it learns is what the home decided.                                     *)
(***************************************************************************)

VARIABLES
  verdict,  \* the home's: "open", then "completed" or "failed" for good
  known     \* the verdict the worker server has recorded, "open" until then

vars == <<verdict, known>>

Init == verdict = "open" /\ known = "open"

Decide ==
  /\ verdict = "open"
  /\ verdict' \in {"completed", "failed"}
  /\ UNCHANGED known

Learn ==
  /\ known = "open"
  /\ verdict # "open"
  /\ known' = verdict
  /\ UNCHANGED verdict

Next == Decide \/ Learn

Spec == Init /\ [][Next]_vars

=============================================================================
