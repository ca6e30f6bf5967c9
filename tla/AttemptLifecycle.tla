-------------------------- MODULE AttemptLifecycle --------------------------
(***************************************************************************)
(* What an attempt at a task promises, whoever starts, reports, stops or   *)
(* recovers it: it is opened once, it is closed once, and the authority to *)
(* act for it is granted at most once, ends no later than the attempt, and *)
(* never comes back.  TaskDispatch implements this.                        *)
(***************************************************************************)
CONSTANT Attempt

VARIABLES phase, authority

vars == <<phase, authority>>

Init ==
  /\ phase = [a \in Attempt |-> "none"]
  /\ authority = [a \in Attempt |-> "none"]

Open(a) ==
  /\ phase[a] = "none"
  /\ phase' = [phase EXCEPT ![a] = "open"]
  /\ \E granted \in {"none", "live"} : authority' = [authority EXCEPT ![a] = granted]

Grant(a) ==
  /\ phase[a] = "open"
  /\ authority[a] = "none"
  /\ authority' = [authority EXCEPT ![a] = "live"]
  /\ UNCHANGED phase

Revoke(a) ==
  /\ phase[a] = "open"
  /\ authority' = [authority EXCEPT ![a] = "revoked"]
  /\ UNCHANGED phase

Close(a) ==
  /\ phase[a] = "open"
  /\ phase' = [phase EXCEPT ![a] = "closed"]
  /\ authority' = [authority EXCEPT ![a] = "revoked"]

Next == \E a \in Attempt : Open(a) \/ Grant(a) \/ Revoke(a) \/ Close(a)

Spec == Init /\ [][Next]_vars

=============================================================================
