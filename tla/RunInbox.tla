------------------------------ MODULE RunInbox ------------------------------
(***************************************************************************)
(* What the mailbox of a Run promises its coordinator.  Mail is taken off  *)
(* by whoever the Run is bound to, in batches that are offered until they  *)
(* are accepted as a whole; a batch is what is oldest.  A new coordinator  *)
(* is offered again what the one before it did not accept.                 *)
(***************************************************************************)
EXTENDS Naturals

VARIABLES
  arrived,        \* messages so far; a message is its place in the order of arrival
  done,           \* messages that are not offered any more
  offered         \* the batch on offer

vars == <<arrived, done, offered>>

Open == 1 .. arrived \ done

Init == arrived = 0 /\ done = {} /\ offered = {}

\* A message arrives: only to be kept, or to be offered, and then it may make older ones obsolete.
Arrive ==
  /\ arrived' = arrived + 1
  /\ \/ done' = done \cup {arrived + 1}
     \/ \E obsolete \in SUBSET Open : done' = done \cup obsolete
  /\ UNCHANGED offered

\* The oldest open messages are offered.
Offer ==
  /\ offered = {}
  /\ offered' \in (SUBSET Open) \ {{}}
  /\ \A m \in offered', n \in Open : n < m => n \in offered'
  /\ UNCHANGED <<arrived, done>>

Accept ==
  /\ offered # {}
  /\ done' = done \cup offered
  /\ offered' = {}
  /\ UNCHANGED arrived

\* Another consumer takes over: nothing it has not accepted is taken off.
Withdraw == offered' = {} /\ UNCHANGED <<arrived, done>>

\* One message is dealt with outside of a batch.
Retire ==
  /\ \E m \in Open : done' = done \cup {m}
  /\ UNCHANGED <<arrived, offered>>

\* A batch is accepted in the very step that offers the next one.
AcceptAndOffer ==
  /\ offered # {}
  /\ done' = done \cup offered
  /\ offered' \in (SUBSET (Open \ offered)) \ {{}}
  /\ \A m \in offered', n \in Open \ offered : n < m => n \in offered'
  /\ UNCHANGED arrived

Next == Arrive \/ Offer \/ Accept \/ AcceptAndOffer \/ Withdraw \/ Retire

Spec == Init /\ [][Next]_vars

=============================================================================
