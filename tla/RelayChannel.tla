---------------------------- MODULE RelayChannel ----------------------------
(***************************************************************************)
(* What the relay of a federated dispatch promises.  What is put on it     *)
(* stands in the next place.  It is delivered once, place after place,     *)
(* with nothing left out, and a place is released only when what stands in *)
(* it has been delivered.  One thing may change on the way: a report takes *)
(* the place of a heartbeat, which may be on its way already.              *)
(***************************************************************************)
EXTENDS Naturals

CONSTANT Place

VARIABLES
  queued,     \* what stands in each place, "absent" if nothing does
  count,      \* how many places have been delivered
  delivered,  \* places with what was delivered of them
  released    \* the places let go of

vars == <<queued, count, delivered, released>>

Init ==
  /\ queued = [s \in Place |-> "absent"]
  /\ count = 0
  /\ delivered = {}
  /\ released = {}

Put(s, kind) ==
  /\ \A r \in Place : queued[r] # "absent" <=> r < s
  /\ queued' = [queued EXCEPT ![s] = kind]
  /\ UNCHANGED <<count, delivered, released>>

Replace(s) ==
  /\ queued[s] = "heartbeat"
  /\ s \notin released
  /\ queued' = [queued EXCEPT ![s] = "worker_done"]
  /\ UNCHANGED <<count, delivered, released>>

\* The next place is delivered, as it is or as the heartbeat it was.
Deliver(s, kind) ==
  /\ s = count + 1
  /\ kind = queued[s] \/ (queued[s] = "worker_done" /\ kind = "heartbeat")
  /\ count' = s
  /\ delivered' = delivered \cup {<<s, kind>>}
  /\ UNCHANGED <<queued, released>>

\* The places up to n are released together.
Release(n) ==
  /\ released' = released \cup {s \in Place : s <= n /\ queued[s] # "absent"}
  /\ \A s \in released' : <<s, queued[s]>> \in delivered
  /\ UNCHANGED <<queued, count, delivered>>

Next ==
  \E s \in Place :
    \/ \E kind \in {"status", "heartbeat", "worker_done"} : Put(s, kind) \/ Deliver(s, kind)
    \/ Replace(s)
    \/ Release(s)

Spec == Init /\ [][Next]_vars

=============================================================================
