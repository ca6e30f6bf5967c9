-------------------------- MODULE RunMailboxProofs --------------------------
(***************************************************************************)
(* Proofs about RunMailbox, for any panes, calls, dispatches, answers and  *)
(* bounds: its invariants and action property from one inductive           *)
(* invariant, and that it implements RunInbox.  The invariant has a part   *)
(* for the Delivery on offer, one for the waiters, and one for questions   *)
(* and their askers; FirstInFirstOut needs the first.                      *)
(***************************************************************************)
EXTENDS RunMailbox, FiniteSetTheorems, WellFoundedInduction, TLAPS

-----------------------------------------------------------------------------
(* The inductive invariant. *)

\* What is outstanding was made for the consumer of now, holds something, and leaves nothing
\* unread before its messages.
Offering(box, row) ==
  row.status = "outstanding" =>
    /\ row.generation = run.generation
    /\ row.messages \subseteq 1 .. sent
    /\ row.messages # {}
    /\ \A m \in row.messages, n \in 1 .. sent :
         n < m => n \in row.messages \/ box[n].read # "no"

InOrder(box) ==
  \A m, n \in 1 .. sent : n < m /\ box[m].read = "acked" => box[n].read # "no"

Waiters ==
  /\ \A k \in Call : call[k].phase # "idle" => call[k].pane \in Pane
  /\ \A k \in Call : call[k].phase = "parked" =>
       /\ call[k].pane = run.pane /\ call[k].generation = run.generation
       /\ ~Wanted(mail, call[k].filter)
  /\ \A j, k \in Call : call[j].phase = "parked" /\ call[k].phase = "parked" => j = k

Threads ==
  /\ \A m \in Message : question[m].status # "none" => m <= sent /\ mail[m].from \in Dispatch
  /\ \A m \in Message :
       /\ question[m].status = "pending" => dispatch[mail[m].from] # "settled"
       /\ question[m].status = "closed" => dispatch[mail[m].from] = "settled"
  /\ \A d \in Dispatch : asker[d].phase # "idle" =>
       /\ asker[d].message \in 1 .. sent
       /\ mail[asker[d].message].from = d
  /\ \A d \in Dispatch : asker[d].phase = "parked" =>
       question[asker[d].message].status # "answered"

IInv ==
  /\ TypeOK
  /\ Offering(mail, delivery) /\ InOrder(mail)
  /\ Waiters
  /\ Threads

-----------------------------------------------------------------------------
(* Batches. *)

\* A set of numbers that is not empty has a least one.
LEMMA Smallest ==
  ASSUME NEW S \in SUBSET Nat, S # {}
  PROVE  \E m \in S : \A n \in S : m <= n
<1>. DEFINE R == OpToRel(<, Nat)
<1>1. \E x \in S : \A y \in S : ~ (<<y, x>> \in R)
  <2>1. IsWellFoundedOn(R, Nat)
    BY NatLessThanWellFounded
  <2>. HIDE DEF R
  <2>2. QED BY <2>1, WFMin
<1>2. \A x, y \in Nat : y < x => <<y, x>> \in R
  BY DEF OpToRel
<1>. HIDE DEF R
<1>3. PICK x \in S : \A y \in S : ~ (<<y, x>> \in R)
  BY <1>1
<1>4. ASSUME NEW y \in S
      PROVE  x <= y
  <2>1. x \in Nat /\ y \in Nat /\ ~(y < x)
    BY <1>2, <1>3
  <2>2. QED BY <2>1
<1>5. QED BY <1>3, <1>4

\* A batch holds what is oldest: with a message, every unread one before it.
LEMMA BatchIsOldest ==
  ASSUME TypeOK, NEW box
  PROVE  /\ Batch(box) \subseteq Unread(box)
         /\ \A m \in Batch(box), n \in Unread(box) : n < m => n \in Batch(box)
         /\ Unread(box) # {} => Batch(box) # {}
<1>0. sent \in Nat /\ Limit \in Nat \ {0}
  BY BoundAssumption DEF TypeOK
<1>1. Unread(box) \subseteq 1 .. sent /\ Unread(box) \in SUBSET Nat
  BY <1>0 DEF Unread
<1>2. IsFiniteSet(Unread(box))
  <2>1. IsFiniteSet(1 .. sent)
    BY <1>0, FS_Interval
  <2>2. QED BY <1>1, <2>1, FS_Subset
<1>3. Batch(box) \subseteq Unread(box)
  BY DEF Batch
<1>4. ASSUME NEW m \in Batch(box), NEW n \in Unread(box), n < m
      PROVE  n \in Batch(box)
  <2>. DEFINE below(x) == {k \in Unread(box) : k < x}
  <2>1. IsFiniteSet(below(m)) /\ below(m) \subseteq Unread(box)
    BY <1>2, FS_Subset
  <2>2. below(n) \in SUBSET below(m)
    BY <1>1, <1>3, <1>4
  <2>3. Cardinality(below(n)) <= Cardinality(below(m))
    BY <2>1, <2>2, FS_Subset
  <2>4. Cardinality(below(n)) \in Nat /\ Cardinality(below(m)) \in Nat
    BY <2>1, <2>2, FS_Subset, FS_CardinalityType
  <2>5. Cardinality(below(m)) < Limit
    BY <1>4 DEF Batch
  <2>6. Cardinality(below(n)) < Limit
    BY <1>0, <2>3, <2>4, <2>5
  <2>7. QED BY <2>6 DEF Batch
<1>5. ASSUME Unread(box) # {}
      PROVE  Batch(box) # {}
  <2>1. PICK m \in Unread(box) : \A n \in Unread(box) : m <= n
    BY <1>1, <1>5, Smallest
  <2>2. {n \in Unread(box) : n < m} = {}
    BY <1>1, <2>1
  <2>3. Cardinality({n \in Unread(box) : n < m}) = 0
    BY <2>2, FS_EmptySet
  <2>4. m \in Batch(box)
    BY <1>0, <2>3 DEF Batch
  <2>5. QED BY <2>4
<1>6. QED BY <1>3, <1>4, <1>5

\* A Delivery made from a mailbox offers it.
LEMMA DeliverOffers ==
  ASSUME TypeOK, NEW box, NEW row \in DeliveryRow, Offering(box, row), NEW p \in Pane, NEW filter,
         NEW received \in BOOLEAN, Deliver(box, row, p, filter, received)
  PROVE  /\ delivery' \in DeliveryRow
         /\ Offering(box, delivery')
         /\ delivery'.status = "outstanding"
         /\ IF row.status = "outstanding" THEN delivery'.messages = row.messages
            ELSE delivery'.messages = Batch(box)
<1>1. Given(p, received) \in SUBSET Pane
  BY DEF Given
<1>2. CASE row.status = "outstanding"
  <2>1. delivery' = [row EXCEPT !.held = @ \cup Given(p, received)]
    BY <1>2 DEF Deliver
  <2>2. QED BY <1>1, <1>2, <2>1 DEF DeliveryRow, Offering
<1>3. CASE row.status # "outstanding"
  <2>1. /\ delivery' = [status |-> "outstanding", generation |-> run.generation,
                        messages |-> Batch(box), held |-> Given(p, received)]
        /\ Wanted(box, filter)
    BY <1>3 DEF Deliver
  <2>2. /\ Batch(box) \subseteq 1 .. sent /\ Batch(box) # {}
        /\ \A m \in Batch(box), n \in 1 .. sent : n < m => n \in Batch(box) \/ box[n].read # "no"
    BY <2>1, BatchIsOldest DEF Wanted, Unread
  <2>3. Batch(box) \in SUBSET Message /\ run.generation \in 0 .. MaxGeneration
    BY <2>2, BoundAssumption DEF TypeOK, Message
  <2>4. QED BY <1>1, <1>3, <2>1, <2>2, <2>3 DEF DeliveryRow, Offering
<1>4. QED BY <1>2, <1>3

-----------------------------------------------------------------------------
(* Mail that arrives, and mail that is read. *)

\* A box the mail becomes when some of it is read, by an acknowledgment or by a reply.
ReadOf(box) ==
  /\ box \in [Message -> MailRow]
  /\ \A m \in Message : /\ box[m].type = mail[m].type /\ box[m].from = mail[m].from
                        /\ (mail[m].read # "no" => box[m] = mail[m])

LEMMA MailIsRead ==
  ASSUME TypeOK
  PROVE  ReadOf(mail)
BY DEF TypeOK, ReadOf

\* A box in which nothing is acknowledged that was not before.
UnackedOf(box) == \A m \in Message : box[m].read = "acked" => mail[m].read = "acked"

LEMMA MailIsUnacked ==
  ASSUME TypeOK
  PROVE  ReadOf(mail) /\ UnackedOf(mail)
BY MailIsRead DEF UnackedOf

\* The report of a worker reads its heartbeats, and acknowledges nothing.
LEMMA HeartbeatsAreRead ==
  ASSUME TypeOK, NEW d
  PROVE  ReadOf(WithoutHeartbeats(d)) /\ UnackedOf(WithoutHeartbeats(d))
<1>. DEFINE box == WithoutHeartbeats(d)
<1>1. \A m \in Message :
        box[m] = IF m <= sent /\ mail[m].type = "heartbeat" /\ mail[m].from = d
                    /\ mail[m].read = "no"
                 THEN [mail[m] EXCEPT !.read = "other"] ELSE mail[m]
  BY DEF WithoutHeartbeats
<1>2. \A m \in Message : mail[m] \in MailRow
  BY DEF TypeOK
<1>3. \A m \in Message :
        /\ box[m] \in MailRow
        /\ box[m].type = mail[m].type /\ box[m].from = mail[m].from
        /\ (mail[m].read # "no" => box[m] = mail[m])
        /\ (box[m].read = "acked" => mail[m].read = "acked")
  BY <1>1, <1>2 DEF MailRow
<1>4. box \in [Message -> MailRow]
  BY <1>3 DEF WithoutHeartbeats
<1>5. QED BY <1>3, <1>4 DEF ReadOf, UnackedOf

LEMMA ArrivesMail ==
  ASSUME TypeOK, NEW box, ReadOf(box),
         NEW type \in MessageType, NEW read \in {"no", "other"}, NEW d \in Dispatch,
         Arrives(box, type, read, d)
  PROVE  /\ sent' = sent + 1 /\ sent' \in 0 .. MaxMail /\ sent + 1 \in Message
         /\ mail' \in [Message -> MailRow]
         /\ mail'[sent + 1] = [type |-> type, read |-> read, from |-> d]
         /\ \A m \in Message : m # sent + 1 => mail'[m] = box[m]
         /\ \A m \in 1 .. sent : mail'[m] = box[m] /\ m \in Message /\ m # sent + 1
<1>1. sent \in Nat /\ sent < MaxMail /\ MaxMail \in Nat /\ sent' = sent + 1
  BY BoundAssumption DEF TypeOK, Arrives
<1>2. sent + 1 \in Message
  BY <1>1 DEF Message
<1>3. /\ mail' = [box EXCEPT ![sent + 1] = [type |-> type, read |-> read, from |-> d]]
      /\ box \in [Message -> MailRow]
  BY DEF Arrives, ReadOf
<1>4. [type |-> type, read |-> read, from |-> d] \in MailRow
  BY DEF MailRow
<1>5. /\ mail' \in [Message -> MailRow]
      /\ mail'[sent + 1] = [type |-> type, read |-> read, from |-> d]
      /\ \A m \in Message : m # sent + 1 => mail'[m] = box[m]
  BY <1>2, <1>3, <1>4
<1>6. \A m \in 1 .. sent : m \in Message /\ m # sent + 1
  BY <1>1 DEF Message
<1>7. QED BY <1>1, <1>2, <1>5, <1>6

\* What arrives keeps the order of reading and the batch on offer.
LEMMA ArrivesInOrder ==
  ASSUME IInv, NEW box, ReadOf(box), UnackedOf(box),
         NEW type \in MessageType, NEW read \in {"no", "other"}, NEW d \in Dispatch,
         Arrives(box, type, read, d), UNCHANGED <<run, delivery>>
  PROVE  /\ InOrder(mail)' /\ Offering(mail, delivery)'
         /\ IF read = "no" THEN Unread(mail)' = Unread(box) \cup {sent + 1}
            ELSE Unread(mail)' = Unread(box)
<1>0. TypeOK /\ InOrder(mail) /\ Offering(mail, delivery)
  BY DEF IInv
<1>1. /\ sent \in Nat /\ sent' = sent + 1
      /\ mail'[sent + 1].read = read
      /\ \A m \in 1 .. sent : mail'[m] = box[m] /\ m \in Message
  <2>1. /\ sent' = sent + 1
        /\ mail'[sent + 1] = [type |-> type, read |-> read, from |-> d]
        /\ \A m \in 1 .. sent : mail'[m] = box[m] /\ m \in Message
    BY <1>0, ArrivesMail
  <2>2. sent \in Nat
    BY <1>0, BoundAssumption DEF TypeOK
  <2>3. QED BY <2>1, <2>2
<1>2. 1 .. sent' = 1 .. sent \cup {sent + 1} /\ \A m \in 1 .. sent : m < sent + 1
  BY <1>1
<1>3. \A m \in 1 .. sent : /\ (mail[m].read # "no" => mail'[m].read # "no")
                           /\ (mail'[m].read = "acked" => mail[m].read = "acked")
  BY <1>1 DEF ReadOf, UnackedOf
<1>4. InOrder(mail)'
  <2> SUFFICES ASSUME NEW m \in 1 .. sent', NEW n \in 1 .. sent', n < m, mail'[m].read = "acked"
               PROVE  mail'[n].read # "no"
    BY DEF InOrder
  <2>1. m \in 1 .. sent
    BY <1>1, <1>2
  <2>2. n \in 1 .. sent
    BY <1>1, <2>1
  <2>3. QED BY <1>0, <1>3, <2>1, <2>2 DEF InOrder
<1>5. Offering(mail, delivery)'
  <2> SUFFICES ASSUME delivery.status = "outstanding"
               PROVE  /\ delivery.generation = run.generation
                      /\ delivery.messages \subseteq 1 .. sent'
                      /\ delivery.messages # {}
                      /\ \A m \in delivery.messages, n \in 1 .. sent' :
                           n < m => n \in delivery.messages \/ mail'[n].read # "no"
    BY DEF Offering
  <2>1. /\ delivery.generation = run.generation
        /\ delivery.messages \subseteq 1 .. sent
        /\ delivery.messages # {}
        /\ \A m \in delivery.messages, n \in 1 .. sent :
             n < m => n \in delivery.messages \/ mail[n].read # "no"
    BY <1>0 DEF Offering
  <2>2. ASSUME NEW m \in delivery.messages, NEW n \in 1 .. sent', n < m
        PROVE  n \in delivery.messages \/ mail'[n].read # "no"
    <3>1. n \in 1 .. sent
      BY <1>1, <2>1, <2>2
    <3>2. QED BY <1>3, <2>1, <2>2, <3>1
  <2>3. QED BY <1>2, <2>1, <2>2
<1>6. IF read = "no" THEN Unread(mail)' = Unread(box) \cup {sent + 1}
      ELSE Unread(mail)' = Unread(box)
  BY <1>1, <1>2 DEF Unread
<1>7. QED BY <1>4, <1>5, <1>6

LEMMA ReadIsLess ==
  ASSUME TypeOK, NEW box, ReadOf(box)
  PROVE  /\ Unread(box) \subseteq Unread(mail)
         /\ \A filter : Wanted(box, filter) => Wanted(mail, filter)
<1>1. 1 .. sent \subseteq Message
  BY BoundAssumption DEF TypeOK, Message
<1>2. \A m \in 1 .. sent : box[m].read = "no" => mail[m].read = "no"
  BY <1>1 DEF ReadOf
<1>3. Unread(box) \subseteq Unread(mail)
  BY <1>2 DEF Unread
<1>4. QED BY <1>1, <1>3 DEF Wanted, Unread, ReadOf

\* The acknowledgment of what is on offer reads it, and nothing else.
LEMMA AckedIsRead ==
  ASSUME IInv, delivery.status = "outstanding"
  PROVE  /\ ReadOf(AckedMail)
         /\ InOrder(AckedMail)
         /\ \A m \in 1 .. sent : AckedMail[m].read # "no" <=>
              mail[m].read # "no" \/ m \in delivery.messages
         /\ AckedDelivery \in DeliveryRow /\ AckedDelivery.status = "acknowledged"
<1>0. TypeOK /\ InOrder(mail) /\ Offering(mail, delivery) /\ 1 .. sent \subseteq Message
  BY BoundAssumption DEF IInv, TypeOK, Message
<1>1. \A m \in Message :
        AckedMail[m] = IF m \in delivery.messages /\ mail[m].read = "no"
                       THEN [mail[m] EXCEPT !.read = "acked"] ELSE mail[m]
  BY DEF AckedMail
<1>2. \A m \in Message : mail[m] \in MailRow
  BY <1>0 DEF TypeOK
<1>3. \A m \in Message :
        /\ AckedMail[m] \in MailRow
        /\ AckedMail[m].type = mail[m].type /\ AckedMail[m].from = mail[m].from
        /\ AckedMail[m].read = IF m \in delivery.messages /\ mail[m].read = "no" THEN "acked"
                               ELSE mail[m].read
  BY <1>1, <1>2 DEF MailRow
<1>4. ReadOf(AckedMail)
  <2>1. AckedMail \in [Message -> MailRow]
    BY <1>3 DEF AckedMail
  <2>2. QED BY <1>1, <1>3, <2>1 DEF ReadOf
<1>5. \A m \in 1 .. sent : AckedMail[m].read # "no" <=>
        mail[m].read # "no" \/ m \in delivery.messages
  BY <1>0, <1>3
<1>6. InOrder(AckedMail)
  <2> SUFFICES ASSUME NEW m \in 1 .. sent, NEW n \in 1 .. sent, n < m,
                      AckedMail[m].read = "acked"
               PROVE  AckedMail[n].read # "no"
    BY DEF InOrder
  <2>1. CASE m \in delivery.messages
    BY <1>0, <1>5, <2>1 DEF Offering
  <2>2. CASE m \notin delivery.messages
    BY <1>0, <1>3, <1>5, <2>2 DEF InOrder
  <2>3. QED BY <2>1, <2>2
<1>7. AckedDelivery \in DeliveryRow /\ AckedDelivery.status = "acknowledged"
  BY <1>0 DEF TypeOK, AckedDelivery, DeliveryRow
<1>8. QED BY <1>4, <1>5, <1>6, <1>7

-----------------------------------------------------------------------------
(* Waiters. *)

LEMMA NotifiedWaiters ==
  ASSUME IInv, NEW type \in MessageType, Notify(type), UNCHANGED run,
         \A f \in Filter : Wanted(mail, f)' => Wanted(mail, f) \/ type \in f
  PROVE  call' \in [Call -> CheckCall] /\ Waiters'
<1>0. TypeOK /\ Waiters
  BY DEF IInv
<1>1. \A k \in Call :
        call'[k] = IF call[k].phase = "parked" /\ type \in call[k].filter
                   THEN [call[k] EXCEPT !.phase = "notified"] ELSE call[k]
  BY DEF Notify
<1>2. \A k \in Call : call[k] \in CheckCall
  BY <1>0 DEF TypeOK
<1>3. \A k \in Call :
        /\ call'[k] \in CheckCall /\ call'[k].pane = call[k].pane
        /\ (call'[k].phase # "idle" => call[k].phase # "idle")
        /\ (call'[k].phase = "parked" => /\ call'[k] = call[k] /\ call[k].phase = "parked"
                                         /\ type \notin call[k].filter)
  BY <1>1, <1>2 DEF CheckCall
<1>4. call' \in [Call -> CheckCall]
  BY <1>3 DEF Notify
<1>5. ASSUME NEW k \in Call, call'[k].phase = "parked"
      PROVE  ~Wanted(mail, call[k].filter)'
  BY <1>0, <1>2, <1>3, <1>5 DEF Waiters, CheckCall
<1>6. \A k \in Call : call'[k].phase # "idle" => call'[k].pane \in Pane
  BY <1>0, <1>3 DEF Waiters
<1>7. \A j, k \in Call : call'[j].phase = "parked" /\ call'[k].phase = "parked" => j = k
  BY <1>0, <1>3 DEF Waiters
<1>8. \A k \in Call : call'[k].phase = "parked" =>
        /\ call'[k].pane = run'.pane /\ call'[k].generation = run'.generation
        /\ ~Wanted(mail, call[k].filter)'
  BY <1>0, <1>3, <1>5 DEF Waiters
<1>9. QED BY <1>4, <1>6, <1>7, <1>8 DEF Waiters

\* Calls end, and no more mail is wanted than before.
LEMMA FewerWaiters ==
  ASSUME IInv, call' \in [Call -> CheckCall],
         \A k \in Call : call'[k] = call[k] \/ call'[k] = IdleCall,
         run' = run \/ (\A k \in Call : call'[k].phase # "parked"),
         \A f \in Filter : Wanted(mail, f)' => Wanted(mail, f)
  PROVE  Waiters'
<1>0. TypeOK /\ Waiters
  BY DEF IInv
<1>1. \A k \in Call : call'[k].phase # "idle" => call'[k] = call[k]
  BY DEF IdleCall
<1>2. \A k \in Call : call[k].filter \in Filter
  BY <1>0 DEF TypeOK, CheckCall
<1>3. ASSUME NEW k \in Call, call'[k].phase = "parked"
      PROVE  /\ call'[k].pane = run'.pane /\ call'[k].generation = run'.generation
             /\ ~Wanted(mail, call[k].filter)'
  <2>1. call'[k] = call[k] /\ run' = run
    BY <1>1, <1>3
  <2>2. call[k].pane = run.pane /\ call[k].generation = run.generation
        /\ ~Wanted(mail, call[k].filter)
    BY <1>0, <1>3, <2>1 DEF Waiters
  <2>3. QED BY <1>2, <2>1, <2>2
<1>4. \A k \in Call : call'[k].phase # "idle" => call'[k].pane \in Pane
  BY <1>0, <1>1 DEF Waiters
<1>5. \A j, k \in Call : call'[j].phase = "parked" /\ call'[k].phase = "parked" => j = k
  BY <1>0, <1>1 DEF Waiters
<1>6. QED BY <1>3, <1>4, <1>5 DEF Waiters

LEMMA IdleCallType == IdleCall \in CheckCall
<1>1. 0 \in 0 .. MaxGeneration
  BY BoundAssumption
<1>2. MessageType \in Filter
  BY DEF Filter
<1>3. QED BY <1>1, <1>2 DEF IdleCall, CheckCall

LEMMA CancelledWaiters ==
  ASSUME TypeOK, CancelWaiters
  PROVE  /\ call' \in [Call -> CheckCall]
         /\ \A k \in Call : call'[k] = call[k] \/ call'[k] = IdleCall
         /\ \A k \in Call : call'[k].phase # "parked"
<1>1. IdleCall \in CheckCall /\ IdleCall.phase = "idle"
  BY IdleCallType DEF IdleCall
<1>2. call' = [k \in Call |-> IF call[k].phase = "parked" THEN IdleCall ELSE call[k]]
  BY DEF CancelWaiters
<1>3. QED BY <1>1, <1>2 DEF TypeOK

-----------------------------------------------------------------------------
(* Questions and their askers. *)

LEMMA AwakeType ==
  ASSUME TypeOK
  PROVE  /\ \A d \in Dispatch :
              /\ Awake(d).message = asker[d].message /\ Awake(d).phase # "parked"
              /\ (Awake(d).phase # "idle" => asker[d].phase # "idle")
         /\ \A d : NotifyAsker(d) =>
              /\ asker' \in [Dispatch -> [phase : {"idle", "parked", "woken"},
                                          message : 0 .. MaxMail]]
              /\ \A e \in Dispatch : asker'[e] = IF e = d THEN Awake(e) ELSE asker[e]
<1>1. \A d \in Dispatch :
        /\ Awake(d) \in [phase : {"idle", "parked", "woken"}, message : 0 .. MaxMail]
        /\ Awake(d).message = asker[d].message /\ Awake(d).phase # "parked"
        /\ (Awake(d).phase # "idle" => asker[d].phase # "idle")
  BY DEF TypeOK, Awake
<1>2. ASSUME NEW d, NotifyAsker(d)
      PROVE  /\ asker' \in [Dispatch -> [phase : {"idle", "parked", "woken"},
                                         message : 0 .. MaxMail]]
             /\ \A e \in Dispatch : asker'[e] = IF e = d THEN Awake(e) ELSE asker[e]
  <2>1. asker' = [asker EXCEPT ![d] = Awake(d)]
    BY <1>2 DEF NotifyAsker
  <2>2. QED BY <1>1, <2>1 DEF TypeOK
<1>3. QED BY <1>1, <1>2

\* Questions stay, no dispatch is settled, and askers stay, wake up or end.
LEMMA ThreadsKept ==
  ASSUME TypeOK, Threads, UNCHANGED question,
         \A d \in Dispatch : dispatch'[d] = "settled" <=> dispatch[d] = "settled",
         sent' \in Nat, sent <= sent', \A m \in 1 .. sent : mail'[m].from = mail[m].from,
         \A d \in Dispatch : asker'[d] \in {asker[d], Awake(d), IdleAsker}
  PROVE  Threads'
<1>1. sent \in Nat /\ 1 .. sent \subseteq Message /\ 1 .. sent \subseteq 1 .. sent'
  BY BoundAssumption DEF TypeOK, Message
<1>2. \A m \in Message : question[m].status # "none" => m \in 1 .. sent
  BY <1>1 DEF Threads, Message
<1>3. ASSUME NEW d \in Dispatch, asker'[d].phase # "idle"
      PROVE  asker[d].phase # "idle" /\ asker'[d].message = asker[d].message
  BY <1>3, AwakeType DEF IdleAsker
<1>4. ASSUME NEW d \in Dispatch, asker'[d].phase = "parked"
      PROVE  asker'[d] = asker[d]
  BY <1>4, AwakeType DEF IdleAsker
<1>5. \A m \in Message : question'[m].status # "none" => m <= sent' /\ mail'[m].from \in Dispatch
  BY <1>1, <1>2 DEF Threads
<1>6. \A m \in Message :
        /\ question'[m].status = "pending" => dispatch'[mail'[m].from] # "settled"
        /\ question'[m].status = "closed" => dispatch'[mail'[m].from] = "settled"
  BY <1>2 DEF Threads
<1>7. \A d \in Dispatch : asker'[d].phase # "idle" =>
        asker'[d].message \in 1 .. sent' /\ mail'[asker'[d].message].from = d
  BY <1>1, <1>3 DEF Threads
<1>8. \A d \in Dispatch : asker'[d].phase = "parked" =>
        question'[asker'[d].message].status # "answered"
  BY <1>4 DEF Threads
<1>9. QED BY <1>5, <1>6, <1>7, <1>8 DEF Threads

\* Ending a dispatch closes its questions: they do not count as answered.
LEMMA ThreadsClosed ==
  ASSUME TypeOK, Threads, NEW d \in Dispatch, question' = Closed(d),
         dispatch' = [dispatch EXCEPT ![d] = "settled"],
         sent' \in Nat, sent <= sent', \A m \in 1 .. sent : mail'[m].from = mail[m].from,
         \A e \in Dispatch : asker'[e] \in {asker[e], Awake(e)}
  PROVE  /\ Threads'
         /\ question' \in [Message -> [status : {"none", "pending", "answered", "closed"},
                                       answer : Answer \cup {None}]]
<1>1. sent \in Nat /\ 1 .. sent \subseteq Message /\ 1 .. sent \subseteq 1 .. sent'
  BY BoundAssumption DEF TypeOK, Message
<1>2. \A m \in Message : question[m].status # "none" => m \in 1 .. sent
  BY <1>1 DEF Threads, Message
<1>3. \A m \in Message :
        question'[m] = IF question[m].status = "pending" /\ mail[m].from = d
                       THEN [question[m] EXCEPT !.status = "closed"] ELSE question[m]
  BY DEF Closed
<1>4. \A m \in Message :
        question[m] \in [status : {"none", "pending", "answered", "closed"},
                         answer : Answer \cup {None}]
  BY DEF TypeOK
<1>5. \A m \in Message :
        /\ question'[m] \in [status : {"none", "pending", "answered", "closed"},
                             answer : Answer \cup {None}]
        /\ (question'[m].status = "none" <=> question[m].status = "none")
        /\ (question'[m].status = "answered" <=> question[m].status = "answered")
        /\ (question'[m].status = "pending" <=>
              question[m].status = "pending" /\ mail[m].from # d)
        /\ (question'[m].status = "closed" =>
              question[m].status = "closed" \/ mail[m].from = d)
  BY <1>3, <1>4
<1>6. question' \in [Message -> [status : {"none", "pending", "answered", "closed"},
                                 answer : Answer \cup {None}]]
  BY <1>5 DEF Closed
<1>7. \A m \in Message : question'[m].status # "none" => m <= sent' /\ mail'[m].from \in Dispatch
  BY <1>1, <1>2, <1>5 DEF Threads
<1>8. \A m \in Message :
        /\ question'[m].status = "pending" => dispatch'[mail'[m].from] # "settled"
        /\ question'[m].status = "closed" => dispatch'[mail'[m].from] = "settled"
  <2>1. ASSUME NEW m \in Message, question'[m].status = "pending"
        PROVE  dispatch'[mail'[m].from] # "settled"
    <3>1. question[m].status = "pending" /\ mail[m].from # d /\ mail'[m].from = mail[m].from
      BY <1>2, <1>5, <2>1
    <3>2. mail[m].from \in Dispatch /\ dispatch[mail[m].from] # "settled"
      BY <3>1 DEF Threads
    <3>3. QED BY <3>1, <3>2 DEF TypeOK
  <2>2. ASSUME NEW m \in Message, question'[m].status = "closed"
        PROVE  dispatch'[mail'[m].from] = "settled"
    <3>1. question[m].status # "none" /\ mail'[m].from = mail[m].from
      BY <1>2, <1>5, <2>2
    <3>2. mail[m].from \in Dispatch
          /\ (mail[m].from = d \/ dispatch[mail[m].from] = "settled")
      BY <1>5, <2>2, <3>1 DEF Threads
    <3>3. QED BY <3>1, <3>2 DEF TypeOK
  <2>3. QED BY <2>1, <2>2
<1>9. \A e \in Dispatch : asker'[e].phase # "idle" =>
        asker'[e].message \in 1 .. sent' /\ mail'[asker'[e].message].from = e
  BY <1>1, AwakeType DEF Threads
<1>10. \A e \in Dispatch : asker'[e].phase = "parked" =>
         question'[asker'[e].message].status # "answered"
  <2> SUFFICES ASSUME NEW e \in Dispatch, asker'[e].phase = "parked"
               PROVE  question'[asker'[e].message].status # "answered"
    OBVIOUS
  <2>1. asker'[e] = asker[e]
    BY AwakeType
  <2>2. asker[e].message \in 1 .. sent /\ question[asker[e].message].status # "answered"
    BY <2>1 DEF Threads
  <2>3. QED BY <1>1, <1>5, <2>1, <2>2
<1>11. QED BY <1>6, <1>7, <1>8, <1>9, <1>10 DEF Threads

-----------------------------------------------------------------------------
(* The steps. *)

\* Binding, and calls that end without a look at the mail.
LEMMA BindingStep ==
  ASSUME IInv,
         \/ \E p \in Pane : RunUse(p)
         \/ RunUseAgain \/ LeaveRun \/ Restart
         \/ \E k \in Call : WaitEnds(k)
  PROVE  IInv'
<1>0. TypeOK /\ Offering(mail, delivery) /\ InOrder(mail) /\ Threads
  BY DEF IInv
<1>1. UNCHANGED <<sent, mail, dispatch, question>>
  BY DEF RunUse, RunUseAgain, LeaveRun, Restart, WaitEnds, mailVars, askVars
<1>2. /\ call' \in [Call -> CheckCall]
      /\ \A k \in Call : call'[k] = call[k] \/ call'[k] = IdleCall
      /\ run' = run \/ \A k \in Call : call'[k].phase # "parked"
  <2>1. CASE CancelWaiters
    BY <1>0, <2>1, CancelledWaiters
  <2>2. CASE Restart \/ \E k \in Call : WaitEnds(k)
    BY <1>0, <2>2, IdleCallType DEF Restart, WaitEnds, TypeOK
  <2>3. QED BY <2>1, <2>2 DEF RunUse, RunUseAgain, LeaveRun
<1>3. Waiters'
  <2>1. \A f \in Filter : Wanted(mail, f)' => Wanted(mail, f)
    BY <1>1 DEF Wanted, Unread
  <2>2. QED BY <1>2, <2>1, FewerWaiters
<1>4. /\ asker' \in [Dispatch -> [phase : {"idle", "parked", "woken"}, message : 0 .. MaxMail]]
      /\ \A d \in Dispatch : asker'[d] \in {asker[d], Awake(d), IdleAsker}
  <2>1. CASE Restart
    BY <2>1, BoundAssumption DEF Restart, IdleAsker
  <2>2. CASE UNCHANGED asker
    BY <1>0, <2>2 DEF TypeOK
  <2>3. QED BY <2>1, <2>2 DEF RunUse, RunUseAgain, LeaveRun, WaitEnds, askVars
<1>5. Threads'
  <2>1. sent' \in Nat /\ sent <= sent' /\ \A m \in 1 .. sent : mail'[m].from = mail[m].from
    BY <1>0, <1>1 DEF TypeOK
  <2>2. QED BY <1>0, <1>1, <1>4, <2>1, ThreadsKept
<1>6. /\ run' \in [pane : Pane \cup {None}, generation : 1 .. MaxGeneration]
      /\ delivery' \in DeliveryRow /\ Offering(mail, delivery)'
  <2>1. CASE UNCHANGED <<run, delivery>>
    BY <1>0, <1>1, <2>1 DEF TypeOK, Offering
  <2>2. CASE \E p \in Pane \cup {None} : Rebind(p)
    <3>1. delivery' \in DeliveryRow /\ delivery'.status # "outstanding"
      BY <1>0, <2>2 DEF Rebind, FenceOutstandingDelivery, TypeOK, DeliveryRow
    <3>2. run' \in [pane : Pane \cup {None}, generation : 1 .. MaxGeneration]
      BY <1>0, <2>2, BoundAssumption DEF Rebind, TypeOK
    <3>3. QED BY <3>1, <3>2 DEF Offering
  <2>3. QED BY <2>1, <2>2 DEF RunUse, RunUseAgain, LeaveRun, Restart, WaitEnds
<1>7. InOrder(mail)'
  BY <1>0, <1>1 DEF InOrder
<1>8. TypeOK'
  BY <1>0, <1>1, <1>2, <1>4, <1>6 DEF TypeOK
<1>9. QED BY <1>3, <1>5, <1>6, <1>7, <1>8 DEF IInv

\* Mail of a type every waiter may want, with what it does to the questions left open.
LEMMA ArrivalStep ==
  ASSUME IInv, NEW box, ReadOf(box), UnackedOf(box),
         NEW type \in MessageType, NEW d \in Dispatch, NEW read \in {"no", "other"},
         Arrives(box, type, read, d),
         IF read = "no" THEN Notify(type) ELSE UNCHANGED call,
         UNCHANGED <<run, delivery>>
  PROVE  /\ Offering(mail, delivery)' /\ InOrder(mail)' /\ Waiters'
         /\ call' \in [Call -> CheckCall]
<1>0. TypeOK /\ Unread(box) \subseteq Unread(mail)
  BY ReadIsLess DEF IInv
<1>1. /\ InOrder(mail)' /\ Offering(mail, delivery)'
      /\ IF read = "no" THEN Unread(mail)' = Unread(box) \cup {sent + 1}
         ELSE Unread(mail)' = Unread(box)
  BY ArrivesInOrder
<1>2. /\ mail'[sent + 1].type = type
      /\ \A m \in 1 .. sent : mail'[m].type = mail[m].type
      /\ Unread(mail) \subseteq 1 .. sent
  <2>1. /\ mail'[sent + 1] = [type |-> type, read |-> read, from |-> d]
        /\ \A m \in 1 .. sent : mail'[m] = box[m] /\ m \in Message
    BY <1>0, ArrivesMail
  <2>2. QED BY <2>1 DEF Unread, ReadOf
<1>3. CASE read = "no"
  <2>1. \A f \in Filter : Wanted(mail, f)' => Wanted(mail, f) \/ type \in f
    BY <1>0, <1>1, <1>2, <1>3 DEF Wanted
  <2>2. QED BY <1>1, <1>3, <2>1, NotifiedWaiters
<1>4. CASE read = "other"
  <2>1. \A f \in Filter : Wanted(mail, f)' => Wanted(mail, f)
    BY <1>0, <1>1, <1>2, <1>4 DEF Wanted
  <2>2. call' \in [Call -> CheckCall]
    BY <1>0, <1>4 DEF TypeOK
  <2>3. QED BY <1>1, <1>4, <2>1, <2>2, FewerWaiters
<1>5. QED BY <1>3, <1>4

LEMMA ReportStep ==
  ASSUME IInv, NEW d \in Dispatch, SendHeartbeat(d) \/ SendWorkerDone(d)
  PROVE  IInv'
<1>0. TypeOK /\ Threads
  BY DEF IInv
<1>1. PICK box \in {mail, WithoutHeartbeats(d)}, type \in MessageType, read \in {"no", "other"} :
        /\ Arrives(box, type, read, d)
        /\ IF read = "no" THEN Notify(type) ELSE UNCHANGED call
  BY DEF SendHeartbeat, SendWorkerDone, MessageType
<1>. ReadOf(box) /\ UnackedOf(box)
  BY <1>0, <1>1, MailIsUnacked, HeartbeatsAreRead
<1>2. UNCHANGED <<run, delivery, asker>>
  BY DEF SendHeartbeat, SendWorkerDone, askVars
<1>3. /\ Offering(mail, delivery)' /\ InOrder(mail)' /\ Waiters'
      /\ call' \in [Call -> CheckCall]
  BY <1>1, <1>2, ArrivalStep
<1>4. /\ sent' = sent + 1 /\ sent' \in 0 .. MaxMail /\ mail' \in [Message -> MailRow]
      /\ \A m \in 1 .. sent : mail'[m] = box[m] /\ m \in Message
  BY <1>0, <1>1, ArrivesMail
<1>5. sent' \in Nat /\ sent <= sent' /\ \A m \in 1 .. sent : mail'[m].from = mail[m].from
  BY <1>0, <1>4 DEF TypeOK, ReadOf
<1>6. /\ Threads'
      /\ dispatch' \in [Dispatch -> {"active", "ended", "settled"}]
      /\ question' \in [Message -> [status : {"none", "pending", "answered", "closed"},
                                    answer : Answer \cup {None}]]
  <2>1. CASE UNCHANGED <<dispatch, question>>
    <3>1. Threads'
      BY <1>0, <1>2, <1>5, <2>1, ThreadsKept
    <3>2. QED BY <1>0, <2>1, <3>1 DEF TypeOK
  <2>2. CASE question' = Closed(d) /\ dispatch' = [dispatch EXCEPT ![d] = "settled"]
    <3>1. /\ Threads'
          /\ question' \in [Message -> [status : {"none", "pending", "answered", "closed"},
                                        answer : Answer \cup {None}]]
      BY <1>0, <1>2, <1>5, <2>2, ThreadsClosed
    <3>2. QED BY <1>0, <2>2, <3>1 DEF TypeOK
  <2>3. QED BY <2>1, <2>2 DEF SendHeartbeat, SendWorkerDone, askVars
<1>7. TypeOK'
  BY <1>0, <1>2, <1>3, <1>4, <1>6 DEF TypeOK
<1>8. QED BY <1>3, <1>6, <1>7 DEF IInv

\* The question of an ask is new, open and asked for by an active dispatch.
LEMMA AskStep ==
  ASSUME IInv, NEW d \in Dispatch, Ask(d)
  PROVE  IInv'
<1>0. TypeOK /\ Threads
  BY DEF IInv
<1>1. /\ Arrives(mail, "question", "no", d) /\ Notify("question") /\ dispatch[d] = "active"
      /\ question' = [question EXCEPT ![sent + 1].status = "pending"]
      /\ asker' = [asker EXCEPT ![d] = [phase |-> "parked", message |-> sent + 1]]
      /\ UNCHANGED <<run, delivery, dispatch>>
  BY DEF Ask
<1>2. /\ Offering(mail, delivery)' /\ InOrder(mail)' /\ Waiters'
      /\ call' \in [Call -> CheckCall]
  BY <1>0, <1>1, ArrivalStep, MailIsUnacked DEF MessageType
<1>3. /\ sent' = sent + 1 /\ sent' \in 0 .. MaxMail /\ sent + 1 \in Message
      /\ mail' \in [Message -> MailRow]
      /\ mail'[sent + 1] = [type |-> "question", read |-> "no", from |-> d]
      /\ \A m \in Message : m # sent + 1 => mail'[m] = mail[m]
      /\ \A m \in 1 .. sent : mail'[m] = mail[m] /\ m \in Message /\ m # sent + 1
  BY <1>0, <1>1, ArrivesMail, MailIsRead DEF MessageType
<1>4. sent \in Nat
  BY <1>0, BoundAssumption DEF TypeOK
<1>5. /\ question'[sent + 1].status = "pending"
      /\ \A m \in Message : m # sent + 1 => question'[m] = question[m]
      /\ question' \in [Message -> [status : {"none", "pending", "answered", "closed"},
                                    answer : Answer \cup {None}]]
  <2>1. /\ sent + 1 \in Message
        /\ question' = [question EXCEPT ![sent + 1].status = "pending"]
    BY <1>1, <1>3
  <2>2. question \in [Message -> [status : {"none", "pending", "answered", "closed"},
                                 answer : Answer \cup {None}]]
    BY <1>0 DEF TypeOK
  <2>3. QED BY <2>1, <2>2
<1>6. /\ asker'[d].message = sent + 1
      /\ \A e \in Dispatch : e # d => asker'[e] = asker[e]
      /\ asker' \in [Dispatch -> [phase : {"idle", "parked", "woken"}, message : 0 .. MaxMail]]
  BY <1>0, <1>1, <1>3 DEF TypeOK
<1>7. \A m \in Message : question'[m].status # "none" => m <= sent' /\ mail'[m].from \in Dispatch
  BY <1>0, <1>3, <1>4, <1>5 DEF Threads, Message
<1>8. \A m \in Message :
        /\ question'[m].status = "pending" => dispatch'[mail'[m].from] # "settled"
        /\ question'[m].status = "closed" => dispatch'[mail'[m].from] = "settled"
  BY <1>0, <1>1, <1>3, <1>5 DEF Threads
<1>9. \A e \in Dispatch : asker'[e].phase # "idle" =>
        asker'[e].message \in 1 .. sent' /\ mail'[asker'[e].message].from = e
  <2>1. 1 .. sent \subseteq 1 .. sent' /\ sent + 1 \in 1 .. sent'
    BY <1>3, <1>4
  <2>2. QED BY <1>0, <1>3, <1>6, <2>1 DEF Threads
<1>10. \A e \in Dispatch : asker'[e].phase = "parked" =>
         question'[asker'[e].message].status # "answered"
  BY <1>0, <1>3, <1>5, <1>6 DEF Threads
<1>11. TypeOK'
  BY <1>0, <1>1, <1>2, <1>3, <1>5, <1>6 DEF TypeOK
<1>12. QED BY <1>2, <1>7, <1>8, <1>9, <1>10, <1>11 DEF IInv, Threads

LEMMA ThreadStep ==
  ASSUME IInv,
         \/ \E d \in Dispatch :
              End(d) \/ Settle(d) \/ Wake(d) \/ AskResume(d) \/ AskAgain(d) \/ AskEnds(d)
         \/ \E m \in Message, a \in Answer : AnswerQuestion(m, a)
  PROVE  IInv'
<1>0. TypeOK /\ Threads /\ Waiters /\ Offering(mail, delivery) /\ InOrder(mail)
  BY DEF IInv
<1>1. UNCHANGED <<run, sent, mail, delivery, call>>
  BY DEF End, Settle, Wake, AskResume, AskAgain, AskEnds, AnswerQuestion, mailVars
<1>2. Waiters' /\ Offering(mail, delivery)' /\ InOrder(mail)'
  BY <1>0, <1>1 DEF Waiters, Offering, InOrder, Wanted, Unread
<1>3. sent' \in Nat /\ sent <= sent' /\ \A m \in 1 .. sent : mail'[m].from = mail[m].from
  BY <1>0, <1>1 DEF TypeOK
<1>4. /\ 1 .. sent \subseteq Message /\ 1 .. sent \subseteq 0 .. MaxMail
      /\ IdleAsker \in [phase : {"idle", "parked", "woken"}, message : 0 .. MaxMail]
  BY <1>0, BoundAssumption DEF TypeOK, Message, IdleAsker
<1>. DEFINE ThreadType ==
       /\ dispatch' \in [Dispatch -> {"active", "ended", "settled"}]
       /\ question' \in [Message -> [status : {"none", "pending", "answered", "closed"},
                                     answer : Answer \cup {None}]]
       /\ asker' \in [Dispatch -> [phase : {"idle", "parked", "woken"}, message : 0 .. MaxMail]]
<1>5. ASSUME NEW d \in Dispatch, Settle(d)
      PROVE  Threads' /\ ThreadType
  <2>1. /\ dispatch' = [dispatch EXCEPT ![d] = "settled"] /\ question' = Closed(d)
        /\ NotifyAsker(d) \/ UNCHANGED asker
    BY <1>5 DEF Settle
  <2>2. /\ \A e \in Dispatch : asker'[e] \in {asker[e], Awake(e)}
        /\ asker' \in [Dispatch -> [phase : {"idle", "parked", "woken"}, message : 0 .. MaxMail]]
    <3>1. CASE NotifyAsker(d)
      BY <1>0, <3>1, AwakeType
    <3>2. CASE UNCHANGED asker
      BY <1>0, <3>2 DEF TypeOK
    <3>3. QED BY <2>1, <3>1, <3>2
  <2>3. /\ Threads'
        /\ question' \in [Message -> [status : {"none", "pending", "answered", "closed"},
                                      answer : Answer \cup {None}]]
    BY <1>0, <1>3, <2>1, <2>2, ThreadsClosed
  <2>4. dispatch' \in [Dispatch -> {"active", "ended", "settled"}]
    BY <1>0, <2>1 DEF TypeOK
  <2>5. QED BY <2>2, <2>3, <2>4
<1>6. ASSUME NEW d \in Dispatch, AskEnds(d)
      PROVE  Threads' /\ ThreadType
  <2>1. asker' = [asker EXCEPT ![d] = IdleAsker] /\ UNCHANGED <<dispatch, question>>
    BY <1>6 DEF AskEnds
  <2>2. /\ \A e \in Dispatch : asker'[e] \in {asker[e], Awake(e), IdleAsker}
        /\ asker' \in [Dispatch -> [phase : {"idle", "parked", "woken"}, message : 0 .. MaxMail]]
    BY <1>0, <1>4, <2>1 DEF TypeOK
  <2>3. Threads'
    BY <1>0, <1>3, <2>1, <2>2, ThreadsKept
  <2>4. QED BY <1>0, <2>1, <2>2, <2>3 DEF TypeOK
\* A call that waits on a question does so while it is pending.
<1>7. ASSUME NEW d \in Dispatch, NEW m \in 1 .. sent, mail[m].from = d,
             question[m].status = "pending",
             asker' = [asker EXCEPT ![d] = [phase |-> "parked", message |-> m]],
             UNCHANGED <<dispatch, question>>
      PROVE  Threads' /\ ThreadType
  <2>1. [phase |-> "parked", message |-> m] \in
          [phase : {"idle", "parked", "woken"}, message : 0 .. MaxMail]
    BY <1>4
  <2>2. /\ asker' \in [Dispatch -> [phase : {"idle", "parked", "woken"}, message : 0 .. MaxMail]]
        /\ asker'[d].message = m
        /\ \A e \in Dispatch : e # d => asker'[e] = asker[e]
    BY <1>0, <1>7, <2>1 DEF TypeOK
  <2>3. Threads'
    BY <1>0, <1>1, <1>7, <2>2 DEF Threads
  <2>4. QED BY <1>0, <1>7, <2>2, <2>3 DEF TypeOK
<1>8. ASSUME NEW d \in Dispatch, AskResume(d)
      PROVE  Threads' /\ ThreadType
  <2>1. PICK m \in Message :
          /\ mail[m].from = d /\ question[m].status = "pending"
          /\ asker' = [asker EXCEPT ![d] = [phase |-> "parked", message |-> m]]
    BY <1>8 DEF AskResume
  <2>2. m \in 1 .. sent
    BY <1>0, <2>1 DEF Threads, Message, TypeOK
  <2>3. UNCHANGED <<dispatch, question>>
    BY <1>8 DEF AskResume
  <2>4. QED BY <1>7, <2>1, <2>2, <2>3
<1>9. ASSUME NEW d \in Dispatch, AskAgain(d)
      PROVE  Threads' /\ ThreadType
  <2>1. UNCHANGED <<dispatch, question>> /\ asker[d].phase = "woken"
    BY <1>9 DEF AskAgain
  <2>2. asker[d].message \in 1 .. sent /\ mail[asker[d].message].from = d
    BY <1>0, <2>1 DEF Threads
  <2>3. CASE question[asker[d].message].status = "pending"
    <3>1. asker' = [asker EXCEPT ![d] = [asker[d] EXCEPT !.phase = "parked"]]
      BY <1>9, <2>3 DEF AskAgain
    <3>2. [asker[d] EXCEPT !.phase = "parked"] =
            [phase |-> "parked", message |-> asker[d].message]
      BY <1>0 DEF TypeOK
    <3>3. asker' = [asker EXCEPT ![d] = [phase |-> "parked", message |-> asker[d].message]]
      BY <3>1, <3>2
    <3>4. QED BY <1>7, <2>1, <2>2, <2>3, <3>3
  <2>4. CASE question[asker[d].message].status # "pending"
    <3>1. asker' = [asker EXCEPT ![d] = IdleAsker]
      BY <1>9, <2>4 DEF AskAgain
    <3>2. /\ \A e \in Dispatch : asker'[e] \in {asker[e], Awake(e), IdleAsker}
          /\ asker' \in [Dispatch -> [phase : {"idle", "parked", "woken"},
                                      message : 0 .. MaxMail]]
      BY <1>0, <1>4, <3>1 DEF TypeOK
    <3>3. Threads'
      BY <1>0, <1>3, <2>1, <3>2, ThreadsKept
    <3>4. QED BY <1>0, <2>1, <3>2, <3>3 DEF TypeOK
  <2>5. QED BY <2>3, <2>4
<1>10. ASSUME NEW m \in Message, NEW a \in Answer, AnswerQuestion(m, a)
       PROVE  Threads' /\ ThreadType
  <2>1. /\ NotifyAsker(mail[m].from) /\ UNCHANGED dispatch
        /\ question[m].status # "none"
        /\ \/ question' = [question EXCEPT ![m] = [status |-> "answered", answer |-> a]]
           \/ UNCHANGED question
    BY <1>10 DEF AnswerQuestion
  <2>2. mail[m].from \in Dispatch /\ m \in 1 .. sent
    BY <1>0, <2>1 DEF Threads, Message, TypeOK
  <2>3. /\ asker' \in [Dispatch -> [phase : {"idle", "parked", "woken"}, message : 0 .. MaxMail]]
        /\ \A e \in Dispatch : asker'[e] = IF e = mail[m].from THEN Awake(e) ELSE asker[e]
    BY <1>0, <2>1, AwakeType
  <2>4. CASE UNCHANGED question
    <3>1. Threads'
      BY <1>0, <1>3, <2>1, <2>3, <2>4, ThreadsKept
    <3>2. QED BY <1>0, <2>1, <2>3, <2>4, <3>1 DEF TypeOK
  <2>5. CASE question' = [question EXCEPT ![m] = [status |-> "answered", answer |-> a]]
    <3>1. /\ question' \in [Message -> [status : {"none", "pending", "answered", "closed"},
                                        answer : Answer \cup {None}]]
          /\ question'[m].status = "answered"
          /\ \A n \in Message : n # m => question'[n] = question[n]
      BY <1>0, <2>5 DEF TypeOK
    <3>2. \A n \in Message : question'[n].status # "none" =>
            n <= sent' /\ mail'[n].from \in Dispatch
      BY <1>0, <1>1, <2>1, <3>1 DEF Threads
    <3>3. \A n \in Message :
            /\ question'[n].status = "pending" => dispatch'[mail'[n].from] # "settled"
            /\ question'[n].status = "closed" => dispatch'[mail'[n].from] = "settled"
      BY <1>0, <1>1, <2>1, <3>1 DEF Threads
    <3>4. \A e \in Dispatch : asker'[e].phase # "idle" =>
            asker'[e].message \in 1 .. sent' /\ mail'[asker'[e].message].from = e
      BY <1>0, <1>1, <2>3, AwakeType DEF Threads
    <3>5. \A e \in Dispatch : asker'[e].phase = "parked" =>
            question'[asker'[e].message].status # "answered"
      <4> SUFFICES ASSUME NEW e \in Dispatch, asker'[e].phase = "parked"
                   PROVE  question'[asker'[e].message].status # "answered"
        OBVIOUS
      <4>1. e # mail[m].from /\ asker'[e] = asker[e]
        BY <1>0, <2>3, AwakeType
      <4>2. /\ asker[e].message \in 1 .. sent /\ mail[asker[e].message].from = e
            /\ question[asker[e].message].status # "answered"
        BY <1>0, <4>1 DEF Threads
      <4>3. asker[e].message # m /\ asker[e].message \in Message
        BY <1>4, <4>1, <4>2
      <4>4. QED BY <3>1, <4>1, <4>2, <4>3
    <3>6. QED BY <1>0, <2>1, <2>3, <3>1, <3>2, <3>3, <3>4, <3>5 DEF Threads, TypeOK
  <2>6. QED BY <2>1, <2>4, <2>5
\* An end that leaves the questions open settles nothing.
<1>11. ASSUME NEW d \in Dispatch, End(d)
       PROVE  Threads' /\ ThreadType
  <2>1. /\ dispatch' = [dispatch EXCEPT ![d] = "ended"] /\ dispatch[d] = "active"
        /\ UNCHANGED <<question, asker>>
    BY <1>11 DEF End
  <2>2. /\ dispatch' \in [Dispatch -> {"active", "ended", "settled"}]
        /\ \A e \in Dispatch : dispatch'[e] = "settled" <=> dispatch[e] = "settled"
    BY <1>0, <2>1 DEF TypeOK
  <2>3. Threads'
    BY <1>0, <1>3, <2>1, <2>2, ThreadsKept
  <2>4. QED BY <1>0, <2>1, <2>2, <2>3 DEF TypeOK
<1>12. ASSUME NEW d \in Dispatch, Wake(d)
       PROVE  Threads' /\ ThreadType
  <2>1. NotifyAsker(d) /\ UNCHANGED <<dispatch, question>>
    BY <1>12 DEF Wake
  <2>2. /\ \A e \in Dispatch : asker'[e] \in {asker[e], Awake(e), IdleAsker}
        /\ asker' \in [Dispatch -> [phase : {"idle", "parked", "woken"}, message : 0 .. MaxMail]]
    BY <1>0, <2>1, AwakeType
  <2>3. Threads'
    BY <1>0, <1>3, <2>1, <2>2, ThreadsKept
  <2>4. QED BY <1>0, <2>1, <2>2, <2>3 DEF TypeOK
<1>13. Threads' /\ ThreadType
  BY <1>5, <1>6, <1>8, <1>9, <1>10, <1>11, <1>12
<1>14. TypeOK'
  BY <1>0, <1>1, <1>13 DEF TypeOK
<1>15. QED BY <1>2, <1>13, <1>14 DEF IInv

\* A reply reads one message, whoever holds it.
LEMMA ReplyStep ==
  ASSUME IInv, NEW m \in Message, Reply(m)
  PROVE  IInv'
<1>0. TypeOK /\ Threads /\ Waiters /\ Offering(mail, delivery) /\ InOrder(mail)
  BY DEF IInv
<1>1. /\ mail' = [mail EXCEPT ![m].read = IF @ = "no" THEN "other" ELSE @]
      /\ NotifyAsker(mail[m].from)
      /\ UNCHANGED <<run, sent, delivery, call, dispatch, question>>
  BY DEF Reply
<1>2. \A n \in Message : mail[n] \in MailRow
  BY <1>0 DEF TypeOK
<1>3. \A n \in Message :
        /\ mail'[n] \in MailRow /\ mail'[n].from = mail[n].from /\ mail'[n].type = mail[n].type
        /\ (mail[n].read # "no" => mail'[n] = mail[n])
        /\ (mail[n].read = "no" => mail'[n].read \in {"no", "other"})
  BY <1>0, <1>1, <1>2 DEF MailRow, TypeOK
<1>4. mail' \in [Message -> MailRow]
  BY <1>0, <1>1, <1>3 DEF TypeOK
<1>5. 1 .. sent \subseteq Message /\ sent' \in Nat /\ sent <= sent'
  BY <1>0, <1>1, BoundAssumption DEF TypeOK, Message
<1>6. InOrder(mail)' /\ Offering(mail, delivery)'
  BY <1>0, <1>1, <1>3, <1>5 DEF InOrder, Offering
<1>7. Waiters'
  <2>1. \A f : Wanted(mail, f)' => Wanted(mail, f)
    BY <1>1, <1>3, <1>5 DEF Wanted, Unread
  <2>2. call' \in [Call -> CheckCall]
    BY <1>0, <1>1 DEF TypeOK
  <2>3. QED BY <1>1, <2>1, <2>2, FewerWaiters
<1>8. /\ asker' \in [Dispatch -> [phase : {"idle", "parked", "woken"}, message : 0 .. MaxMail]]
      /\ \A e \in Dispatch : asker'[e] \in {asker[e], Awake(e), IdleAsker}
  BY <1>0, <1>1, AwakeType
<1>9. Threads'
  BY <1>0, <1>1, <1>3, <1>5, <1>8, ThreadsKept
<1>10. TypeOK'
  BY <1>0, <1>1, <1>4, <1>8 DEF TypeOK
<1>11. QED BY <1>6, <1>7, <1>9, <1>10 DEF IInv

\* A check, from the mailbox and the Delivery the acknowledgment leaves.
LEMMA CheckStep ==
  ASSUME IInv, NEW box, ReadOf(box), InOrder(box),
         NEW row \in DeliveryRow, Offering(box, row),
         NEW k \in Call, NEW wait \in BOOLEAN, NEW types \in Filter, NEW received \in BOOLEAN,
         CheckFrom(box, row, k, wait, types, received)
  PROVE  IInv'
<1>. DEFINE filter == IF wait THEN types ELSE MessageType
<1>0. TypeOK /\ Threads /\ Waiters
  BY DEF IInv
<1>1. /\ run.pane # None /\ mail' = box /\ UNCHANGED <<run, sent, dispatch, question, asker>>
      /\ \/ Deliver(box, row, run.pane, filter, received) /\ UNCHANGED call
         \/ /\ NothingFor(box, row, filter)
            /\ delivery' = row
            /\ call' = IF wait /\ \A j \in Call : call[j].phase # "parked"
                       THEN [call EXCEPT ![k] = [phase |-> "parked", pane |-> run.pane,
                                                 generation |-> run.generation,
                                                 filter |-> filter]]
                       ELSE call
  BY DEF CheckFrom, askVars
<1>2. run.pane \in Pane /\ filter \in Filter
  BY <1>0, <1>1 DEF TypeOK, Filter
<1>3. \A f \in Filter : /\ Wanted(mail, f)' => Wanted(mail, f)
                        /\ Wanted(mail, f)' => Wanted(box, f)
  <2>1. \A f : Wanted(mail, f)' => Wanted(box, f)
    BY <1>1 DEF Wanted, Unread
  <2>2. QED BY <1>0, <2>1, ReadIsLess
<1>4. delivery' \in DeliveryRow /\ Offering(box, delivery')
  <2>1. CASE Deliver(box, row, run.pane, filter, received)
    BY <1>0, <1>2, <2>1, DeliverOffers
  <2>2. CASE delivery' = row
    BY <2>2
  <2>3. QED BY <1>1, <2>1, <2>2
<1>5. InOrder(mail)' /\ Offering(mail, delivery)'
  BY <1>1, <1>4 DEF InOrder, Offering
<1>6. call' \in [Call -> CheckCall] /\ Waiters'
  <2>1. CASE UNCHANGED call
    <3>1. call' \in [Call -> CheckCall]
      BY <1>0, <2>1 DEF TypeOK
    <3>2. QED BY <1>1, <1>3, <2>1, <3>1, FewerWaiters
  <2>2. CASE /\ \A j \in Call : call[j].phase # "parked"
             /\ ~Wanted(box, filter)
             /\ call' = [call EXCEPT ![k] = [phase |-> "parked", pane |-> run.pane,
                                             generation |-> run.generation, filter |-> filter]]
    <3>. HIDE DEF filter
    <3>1. [phase |-> "parked", pane |-> run.pane, generation |-> run.generation,
           filter |-> filter] \in CheckCall
      BY <1>0, <1>2, BoundAssumption DEF CheckCall, TypeOK
    <3>2. /\ call' \in [Call -> CheckCall]
          /\ call'[k].pane = run.pane /\ call'[k].generation = run.generation
          /\ call'[k].filter = filter
          /\ \A j \in Call : j # k => call'[j] = call[j]
      BY <1>0, <2>2, <3>1 DEF TypeOK
    <3>3. ~Wanted(mail, filter)'
      BY <1>2, <1>3, <2>2
    <3>4. \A j \in Call : call'[j].phase = "parked" => j = k
      BY <2>2, <3>2
    <3>5. \A j \in Call : call'[j].phase # "idle" => call'[j].pane \in Pane
      BY <1>0, <1>2, <3>2 DEF Waiters
    <3>6. ASSUME NEW j \in Call, call'[j].phase = "parked"
          PROVE  /\ call'[j].pane = run'.pane /\ call'[j].generation = run'.generation
                 /\ ~Wanted(mail, call[j].filter)'
      BY <1>1, <3>2, <3>3, <3>4, <3>6 DEF Wanted, Unread
    <3>7. QED BY <3>2, <3>4, <3>5, <3>6 DEF Waiters
  <2>3. QED BY <1>1, <2>1, <2>2 DEF NothingFor
<1>7. Threads'
  <2>1. sent' \in Nat /\ sent <= sent' /\ \A m \in 1 .. sent : mail'[m].from = mail[m].from
    BY <1>0, <1>1, BoundAssumption DEF TypeOK, ReadOf, Message
  <2>2. QED BY <1>0, <1>1, <2>1, ThreadsKept
<1>8. TypeOK'
  BY <1>0, <1>1, <1>4, <1>6 DEF TypeOK, ReadOf
<1>9. QED BY <1>5, <1>6, <1>7, <1>8 DEF IInv

\* The mailbox and the Delivery a check looks at.
LEMMA CheckedBoxes ==
  ASSUME IInv
  PROVE  /\ ReadOf(mail) /\ InOrder(mail) /\ delivery \in DeliveryRow
         /\ Offering(mail, delivery)
         /\ \A p : Acknowledgeable(p) =>
              /\ delivery.status = "outstanding"
              /\ ReadOf(AckedMail) /\ InOrder(AckedMail) /\ AckedDelivery \in DeliveryRow
              /\ Offering(AckedMail, AckedDelivery)
<1>1. TypeOK /\ Offering(mail, delivery) /\ InOrder(mail)
  BY DEF IInv
<1>2. ReadOf(mail) /\ delivery \in DeliveryRow
  BY <1>1, MailIsRead DEF TypeOK
<1>3. ASSUME delivery.status = "outstanding"
      PROVE  /\ ReadOf(AckedMail) /\ InOrder(AckedMail) /\ AckedDelivery \in DeliveryRow
             /\ Offering(AckedMail, AckedDelivery)
  BY <1>3, AckedIsRead DEF Offering
<1>4. QED BY <1>1, <1>2, <1>3 DEF Acknowledgeable

LEMMA ResumeStep ==
  ASSUME IInv, NEW k \in Call, NEW received \in BOOLEAN, Resume(k, received)
  PROVE  IInv'
<1>0. TypeOK /\ Threads /\ Waiters /\ Offering(mail, delivery) /\ InOrder(mail)
  BY DEF IInv
<1>1. /\ call' = [call EXCEPT ![k] = IdleCall]
      /\ UNCHANGED <<run, sent, mail, dispatch, question, asker>>
      /\ \/ Deliver(mail, delivery, call[k].pane, call[k].filter, received)
         \/ UNCHANGED delivery
  BY DEF Resume, mailVars, askVars
<1>2. call[k].pane \in Pane
  BY <1>0 DEF Waiters, Resume
<1>3. delivery' \in DeliveryRow /\ Offering(mail, delivery')
  <2>1. delivery \in DeliveryRow
    BY <1>0 DEF TypeOK
  <2>2. CASE Deliver(mail, delivery, call[k].pane, call[k].filter, received)
    BY <1>0, <1>2, <2>1, <2>2, DeliverOffers
  <2>3. QED BY <1>0, <1>1, <2>1, <2>2
<1>4. InOrder(mail)' /\ Offering(mail, delivery)'
  BY <1>0, <1>1, <1>3 DEF InOrder, Offering
<1>5. call' \in [Call -> CheckCall] /\ \A j \in Call : call'[j] = call[j] \/ call'[j] = IdleCall
  BY <1>0, <1>1, IdleCallType DEF TypeOK
<1>6. Waiters'
  <2>1. \A f \in Filter : Wanted(mail, f)' => Wanted(mail, f)
    BY <1>1 DEF Wanted, Unread
  <2>2. QED BY <1>1, <1>5, <2>1, FewerWaiters
<1>7. Threads'
  <2>1. sent' \in Nat /\ sent <= sent' /\ \A m \in 1 .. sent : mail'[m].from = mail[m].from
    BY <1>0, <1>1 DEF TypeOK
  <2>2. QED BY <1>0, <1>1, <2>1, ThreadsKept
<1>8. TypeOK'
  BY <1>0, <1>1, <1>3, <1>5 DEF TypeOK
<1>9. QED BY <1>4, <1>6, <1>7, <1>8 DEF IInv

-----------------------------------------------------------------------------
(* The invariant. *)

LEMMA InitIInv == Init => IInv
<1> SUFFICES ASSUME Init
             PROVE  IInv
  OBVIOUS
<1>1. TypeOK
  <2>1. run \in [pane : Pane \cup {None}, generation : 1 .. MaxGeneration]
    BY BoundAssumption DEF Init
  <2>2. mail \in [Message -> MailRow] /\ delivery \in DeliveryRow
    BY BoundAssumption DEF Init, NoMail, MailRow, MessageType, NoDelivery, DeliveryRow
  <2>3. call \in [Call -> CheckCall]
    BY IdleCallType DEF Init
  <2>4. QED BY <2>1, <2>2, <2>3, BoundAssumption DEF Init, TypeOK, NoQuestion, IdleAsker
<1>2. Offering(mail, delivery) /\ InOrder(mail)
  BY DEF Init, Offering, InOrder, NoDelivery
<1>3. Waiters
  BY DEF Init, Waiters, IdleCall
<1>4. Threads
  BY DEF Init, Threads, NoQuestion, IdleAsker
<1>5. QED BY <1>1, <1>2, <1>3, <1>4 DEF IInv

LEMMA StutterIInv ==
  ASSUME IInv, UNCHANGED vars
  PROVE  IInv'
<1>1. UNCHANGED <<run, sent, mail, delivery, call, dispatch, question, asker>>
  BY DEF vars
<1>2. TypeOK'
  BY <1>1 DEF IInv, TypeOK
<1>3. Offering(mail, delivery)' /\ InOrder(mail)'
  BY <1>1 DEF IInv, Offering, InOrder
<1>4. Waiters'
  BY <1>1 DEF IInv, Waiters, Wanted, Unread
<1>5. Threads'
  BY <1>1 DEF IInv, Threads
<1>6. QED BY <1>2, <1>3, <1>4, <1>5 DEF IInv

LEMMA NextIInv ==
  ASSUME IInv, [Next]_vars
  PROVE  IInv'
<1>1. ASSUME NEW k \in Call, NEW wait \in BOOLEAN, NEW types \in Filter, NEW received \in BOOLEAN,
             Check(k, wait, types, received) \/ CheckAck(k, wait, types, received)
      PROVE  IInv'
  <2>1. CASE Check(k, wait, types, received)
    BY <2>1, CheckedBoxes, CheckStep DEF Check
  <2>2. CASE CheckAck(k, wait, types, received)
    BY <2>2, CheckedBoxes, CheckStep DEF CheckAck
  <2>3. QED BY <1>1, <2>1, <2>2
<1>2. CASE UNCHANGED vars
  BY <1>2, StutterIInv
<1>3. QED BY <1>1, <1>2, BindingStep, ReportStep, AskStep, ThreadStep, ReplyStep, ResumeStep
          DEF Next

LEMMA Inductive == Spec => []IInv
BY InitIInv, NextIInv, PTL DEF Spec

-----------------------------------------------------------------------------
(* The theorems. *)

\* The variables keep their types, for any number of panes, calls, dispatches and messages.
THEOREM TypeCorrect == Spec => []TypeOK
<1>1. IInv => TypeOK
  BY DEF IInv
<1>2. QED BY <1>1, Inductive, PTL

\* run-use, waitForMessage, cancelMessageWaiters: only the consumer of now waits, and once.
THEOREM OneWaiter == Spec => []OneConsumerWaits
<1>1. IInv => OneConsumerWaits
  BY DEF IInv, Waiters, OneConsumerWaits
<1>2. QED BY <1>1, Inductive, PTL

\* notifyMessageArrived: no wakeup is lost.
THEOREM NoLostWakeup == Spec => []NothingMissed
<1>1. IInv => NothingMissed
  BY DEF IInv, Waiters, NothingMissed
<1>2. QED BY <1>1, Inductive, PTL

\* getOrCreateRunDelivery and acknowledgeRunDelivery: mail is acknowledged in the order it came.
THEOREM ReadInOrder == Spec => []FirstInFirstOut
<1>1. IInv => FirstInFirstOut
  BY DEF IInv, InOrder, FirstInFirstOut
<1>2. QED BY <1>1, Inductive, PTL

\* answerQuestion and ask: no ask waits on for an answer that is there.
THEOREM AnswersAreHeard == Spec => []AskerHears
<1>1. IInv => AskerHears
  BY DEF IInv, Threads, AskerHears
<1>2. QED BY <1>1, Inductive, PTL

\* closeQuestionsForDispatch: a dispatch whose end closes questions has no open one, and no other
\* has a closed one.
THEOREM SettledDispatchAsksNothing == Spec => []SettledIsClosed
<1>1. IInv => SettledIsClosed
  BY DEF IInv, Threads, SettledIsClosed
<1>2. QED BY <1>1, Inductive, PTL

\* answerQuestion: what a worker was told, or that nobody will tell it any more, is final.
THEOREM AnswersAreFinal == Spec => AnswerStands
<1>1. ASSUME IInv, [Next]_vars, NEW m \in Message, question[m].status \in {"answered", "closed"}
      PROVE  question'[m] = question[m]
  <2>0. TypeOK /\ Threads
    BY <1>1 DEF IInv
  <2>1. ASSUME NEW d \in Dispatch, question' = Closed(d)
        PROVE  question'[m] = question[m]
    BY <1>1, <2>1 DEF Closed
  <2>2. ASSUME NEW d \in Dispatch, Ask(d)
        PROVE  question'[m] = question[m]
    <3>1. m <= sent /\ sent \in Nat /\ m \in Nat
      BY <1>1, <2>0, BoundAssumption DEF Threads, TypeOK, Message
    <3>2. m # sent + 1
      BY <3>1
    <3>3. question' = [question EXCEPT ![sent + 1].status = "pending"]
      BY <2>2 DEF Ask
    <3>4. QED BY <2>0, <3>2, <3>3 DEF TypeOK
  <2>3. ASSUME NEW n \in Message, NEW a \in Answer, AnswerQuestion(n, a)
        PROVE  question'[m] = question[m]
    BY <1>1, <2>0, <2>3 DEF AnswerQuestion, TypeOK
  <2>4. ASSUME \/ \E p \in Pane : RunUse(p)
               \/ RunUseAgain \/ LeaveRun \/ Restart
               \/ \E d \in Dispatch :
                    \/ SendHeartbeat(d) \/ End(d) \/ Wake(d)
                    \/ AskResume(d) \/ AskAgain(d) \/ AskEnds(d)
               \/ \E n \in Message : Reply(n)
               \/ \E k \in Call :
                    \/ WaitEnds(k)
                    \/ \E received \in BOOLEAN :
                         \/ Resume(k, received)
                         \/ \E wait \in BOOLEAN, types \in Filter :
                              \/ Check(k, wait, types, received)
                              \/ CheckAck(k, wait, types, received)
               \/ UNCHANGED vars
        PROVE  UNCHANGED question
    BY <2>4 DEF RunUse, RunUseAgain, LeaveRun, Restart, SendHeartbeat, End, Wake, AskResume,
                AskAgain, AskEnds, Reply, WaitEnds, Resume, Check, CheckAck, CheckFrom, askVars,
                vars
  <2>5. ASSUME NEW d \in Dispatch, SendWorkerDone(d) \/ Settle(d)
        PROVE  question'[m] = question[m]
    BY <2>1, <2>5 DEF SendWorkerDone, Settle
  <2>6. QED BY <1>1, <2>2, <2>3, <2>4, <2>5 DEF Next
<1>2. IInv /\ [Next]_vars =>
        [\A m \in Message : question[m].status \in {"answered", "closed"} =>
           question'[m] = question[m]]_vars
  BY <1>1
<1>3. QED BY <1>2, Inductive, PTL DEF Spec, AnswerStands

-----------------------------------------------------------------------------
(* The mailbox implements the inbox. *)

Done == {m \in 1 .. sent : mail[m].read # "no"}

LEMMA OpenIsUnread ==
  ASSUME TypeOK
  PROVE  1 .. sent \ Done = Unread(mail)
BY DEF Done, Unread

\* A delivery, from a mailbox that was read before or in this very step.
LEMMA DeliverInbox ==
  ASSUME IInv, NEW p \in Pane, NEW filter, NEW received \in BOOLEAN,
         Deliver(mail, delivery, p, filter, received), UNCHANGED <<sent, mail>>
  PROVE  Inbox!Offer \/ UNCHANGED Inbox!vars
<1>0. TypeOK /\ Offering(mail, delivery) /\ delivery \in DeliveryRow
  BY DEF IInv, TypeOK
<1>1. /\ delivery'.status = "outstanding"
      /\ IF delivery.status = "outstanding" THEN delivery'.messages = delivery.messages
         ELSE delivery'.messages = Batch(mail)
      /\ Offering(mail, delivery')
  BY <1>0, DeliverOffers
<1>2. Done' = Done
  BY DEF Done
<1>3. CASE delivery.status = "outstanding"
  <2>1. Offered' = Offered
    BY <1>1, <1>3 DEF Offered
  <2>2. QED BY <1>2, <2>1 DEF Inbox!vars, Done
<1>4. CASE delivery.status # "outstanding"
  <2>1. Offered = {} /\ Offered' = Batch(mail)
    BY <1>1, <1>4 DEF Offered
  <2>2. Batch(mail) # {}
    BY <1>1, <1>4 DEF Offering
  <2>3. /\ Batch(mail) \subseteq Unread(mail)
        /\ \A m \in Batch(mail), n \in Unread(mail) : n < m => n \in Batch(mail)
    BY <1>0, BatchIsOldest
  <2>4. Inbox!Open = Unread(mail)
    BY <1>0, OpenIsUnread DEF Inbox!Open, Done
  <2>5. /\ Offered' \in (SUBSET Inbox!Open) \ {{}}
        /\ \A m \in Offered', n \in Inbox!Open : n < m => n \in Offered'
    BY <2>1, <2>2, <2>3, <2>4
  <2>6. QED BY <1>2, <2>1, <2>5 DEF Inbox!Offer, Done
<1>5. QED BY <1>3, <1>4

LEMMA AckInbox ==
  ASSUME IInv, delivery.status = "outstanding", NEW p \in Pane, NEW filter,
         NEW received \in BOOLEAN, UNCHANGED sent, mail' = AckedMail,
         \/ Deliver(AckedMail, AckedDelivery, p, filter, received)
         \/ delivery' = AckedDelivery
  PROVE  Inbox!Accept \/ Inbox!AcceptAndOffer
<1>0. /\ TypeOK /\ Offering(mail, delivery)
      /\ AckedDelivery \in DeliveryRow /\ AckedDelivery.status = "acknowledged"
      /\ Offering(AckedMail, AckedDelivery)
  BY AckedIsRead DEF IInv, Offering
<1>1. \A m \in 1 .. sent : AckedMail[m].read # "no" <=>
        mail[m].read # "no" \/ m \in delivery.messages
  BY AckedIsRead
<1>2. /\ Offered = delivery.messages /\ Offered # {} /\ Offered \subseteq 1 .. sent
  BY <1>0 DEF Offered, Offering
<1>3. Done' = Done \cup Offered
  BY <1>1, <1>2 DEF Done
<1>4. Unread(AckedMail) = (1 .. sent \ Done) \ Offered
  BY <1>1, <1>2 DEF Unread, Done
<1>5. CASE delivery' = AckedDelivery
  <2>1. Offered' = {}
    BY <1>0, <1>5 DEF Offered
  <2>2. QED BY <1>2, <1>3, <2>1 DEF Inbox!Accept, Done
<1>6. CASE Deliver(AckedMail, AckedDelivery, p, filter, received)
  <2>1. /\ delivery'.status = "outstanding" /\ delivery'.messages = Batch(AckedMail)
        /\ Offering(AckedMail, delivery')
    BY <1>0, <1>6, DeliverOffers
  <2>2. Offered' = Batch(AckedMail) /\ Batch(AckedMail) # {}
    BY <2>1 DEF Offered, Offering
  <2>3. /\ Batch(AckedMail) \subseteq Unread(AckedMail)
        /\ \A m \in Batch(AckedMail), n \in Unread(AckedMail) : n < m => n \in Batch(AckedMail)
    BY <1>0, BatchIsOldest
  <2>4. Inbox!Open \ Offered = Unread(AckedMail)
    BY <1>4 DEF Inbox!Open, Done
  <2>5. /\ Offered' \in (SUBSET (Inbox!Open \ Offered)) \ {{}}
        /\ \A m \in Offered', n \in Inbox!Open \ Offered : n < m => n \in Offered'
    BY <2>2, <2>3, <2>4
  <2>6. QED BY <1>2, <1>3, <2>5 DEF Inbox!AcceptAndOffer, Done
<1>7. QED BY <1>5, <1>6

LEMMA InboxStep ==
  ASSUME IInv, [Next]_vars
  PROVE  [Inbox!Next]_Inbox!vars
<1>0. TypeOK /\ Offering(mail, delivery) /\ Waiters
  BY DEF IInv
<1>1. ASSUME UNCHANGED <<sent, mail, delivery>>
      PROVE  UNCHANGED Inbox!vars
  BY <1>1 DEF Inbox!vars, Offered
<1>2. ASSUME NEW p \in Pane \cup {None}, Rebind(p), UNCHANGED <<sent, mail>>
      PROVE  Inbox!Withdraw
  <2>1. Offered' = {}
    BY <1>2 DEF Rebind, FenceOutstandingDelivery, Offered, TypeOK, DeliveryRow
  <2>2. QED BY <1>2, <2>1 DEF Inbox!Withdraw
<1>3. ASSUME NEW box, ReadOf(box), NEW type \in MessageType, NEW read \in {"no", "other"},
             NEW d \in Dispatch, read = "other" => box = mail,
             Arrives(box, type, read, d), UNCHANGED delivery
      PROVE  Inbox!Arrive
  <2>. DEFINE obsolete == {m \in 1 .. sent : mail[m].read = "no" /\ box[m].read # "no"}
  <2>1. /\ sent' = sent + 1 /\ mail'[sent + 1] = [type |-> type, read |-> read, from |-> d]
        /\ \A m \in 1 .. sent : mail'[m] = box[m] /\ m \in Message
    BY <1>0, <1>3, ArrivesMail
  <2>2. sent \in Nat /\ 1 .. sent' = 1 .. sent \cup {sent + 1}
    <3>1. sent \in Nat
      BY <1>0, BoundAssumption DEF TypeOK
    <3>2. QED BY <2>1, <3>1
  <2>3. mail'[sent + 1].read = read
    BY <2>1
  <2>4. \A m \in 1 .. sent :
          mail'[m].read # "no" <=> mail[m].read # "no" \/ box[m].read # "no"
    BY <1>3, <2>1 DEF ReadOf
  <2>5. CASE read = "no"
    <3>1. Done' = Done \cup obsolete
      BY <2>2, <2>3, <2>4, <2>5 DEF Done
    <3>2. obsolete \in SUBSET Inbox!Open
      BY DEF Inbox!Open
    <3>3. Offered' = Offered
      BY <1>3 DEF Offered
    <3>4. QED BY <2>1, <3>1, <3>2, <3>3 DEF Inbox!Arrive, Done
  <2>6. CASE read = "other"
    <3>1. Done' = Done \cup {sent + 1}
      BY <1>3, <2>1, <2>2, <2>3, <2>6 DEF Done
    <3>2. Offered' = Offered
      BY <1>3 DEF Offered
    <3>3. QED BY <2>1, <3>1, <3>2 DEF Inbox!Arrive, Done
  <2>7. QED BY <2>5, <2>6
<1>4. ASSUME NEW m \in Message, Reply(m)
      PROVE  Inbox!Retire \/ UNCHANGED Inbox!vars
  <2>1. /\ mail' = [mail EXCEPT ![m].read = IF @ = "no" THEN "other" ELSE @]
        /\ UNCHANGED <<sent, delivery>> /\ m <= sent
    BY <1>4 DEF Reply
  <2>2. m \in 1 .. sent /\ 1 .. sent \subseteq Message
    BY <1>0, <2>1, BoundAssumption DEF TypeOK, Message
  <2>3. Offered' = Offered
    BY <2>1 DEF Offered
  <2>4. \A n \in Message : mail[n] \in MailRow
    BY <1>0 DEF TypeOK
  <2>5. \A n \in Message : n # m => mail'[n] = mail[n]
    BY <1>0, <2>1 DEF TypeOK
  <2>6. mail'[m].read # "no"
    BY <1>0, <2>1, <2>2, <2>4 DEF TypeOK, MailRow
  <2>7. Done' = Done \cup {m}
    BY <2>1, <2>2, <2>5, <2>6 DEF Done
  <2>8. CASE m \in Done
    BY <2>1, <2>3, <2>7, <2>8 DEF Inbox!vars, Done
  <2>9. CASE m \notin Done
    BY <2>1, <2>2, <2>3, <2>7, <2>9 DEF Inbox!Retire, Inbox!Open, Done
  <2>10. QED BY <2>8, <2>9
<1>5. ASSUME NEW k \in Call, NEW received \in BOOLEAN, Resume(k, received)
      PROVE  Inbox!Offer \/ UNCHANGED Inbox!vars
  <2>1. /\ call[k].pane \in Pane /\ UNCHANGED <<sent, mail>>
        /\ \/ Deliver(mail, delivery, call[k].pane, call[k].filter, received)
           \/ UNCHANGED delivery
    BY <1>0, <1>5 DEF Resume, mailVars, Waiters
  <2>2. QED BY <1>1, <2>1, DeliverInbox
<1>6. ASSUME NEW k \in Call, NEW wait \in BOOLEAN, NEW types \in Filter, NEW received \in BOOLEAN,
             Check(k, wait, types, received)
      PROVE  Inbox!Offer \/ UNCHANGED Inbox!vars
  <2>1. PICK filter \in Filter :
          /\ run.pane \in Pane /\ UNCHANGED <<sent, mail>>
          /\ \/ Deliver(mail, delivery, run.pane, filter, received)
             \/ UNCHANGED delivery
    BY <1>0, <1>6 DEF Check, CheckFrom, TypeOK, Filter
  <2>2. QED BY <1>1, <2>1, DeliverInbox
<1>7. ASSUME NEW k \in Call, NEW wait \in BOOLEAN, NEW types \in Filter, NEW received \in BOOLEAN,
             CheckAck(k, wait, types, received)
      PROVE  Inbox!Accept \/ Inbox!AcceptAndOffer
  <2>1. PICK filter \in Filter :
          /\ run.pane \in Pane /\ UNCHANGED sent /\ mail' = AckedMail
          /\ \/ Deliver(AckedMail, AckedDelivery, run.pane, filter, received)
             \/ delivery' = AckedDelivery
    BY <1>0, <1>7 DEF CheckAck, CheckFrom, TypeOK, Filter
  <2>2. delivery.status = "outstanding"
    BY <1>7 DEF CheckAck, Acknowledgeable
  <2>3. QED BY <2>1, <2>2, AckInbox
<1>8. ASSUME \/ RunUseAgain \/ Restart
             \/ \E d \in Dispatch :
              End(d) \/ Settle(d) \/ Wake(d) \/ AskResume(d) \/ AskAgain(d) \/ AskEnds(d)
             \/ \E m \in Message, a \in Answer : AnswerQuestion(m, a)
             \/ \E k \in Call : WaitEnds(k)
             \/ UNCHANGED vars
      PROVE  UNCHANGED Inbox!vars
  <2>1. UNCHANGED <<sent, mail, delivery>>
    BY <1>8 DEF RunUseAgain, Restart, End, Settle, Wake, AskResume, AskAgain, AskEnds,
                AnswerQuestion,
                WaitEnds, mailVars, vars
  <2>2. QED BY <1>1, <2>1
<1>9. ASSUME (\E p \in Pane : RunUse(p)) \/ LeaveRun
      PROVE  Inbox!Withdraw
  BY <1>2, <1>9 DEF RunUse, LeaveRun, mailVars
<1>10. ASSUME NEW d \in Dispatch, SendHeartbeat(d) \/ SendWorkerDone(d) \/ Ask(d)
       PROVE  Inbox!Arrive
  <2>1. PICK box \in {mail, WithoutHeartbeats(d)}, type \in MessageType, read \in {"no", "other"} :
          Arrives(box, type, read, d) /\ (read = "other" => box = mail) /\ UNCHANGED delivery
    BY <1>10 DEF SendHeartbeat, SendWorkerDone, Ask, MessageType
  <2>2. ReadOf(box)
    BY <1>0, <2>1, MailIsRead, HeartbeatsAreRead
  <2>3. QED BY <1>3, <2>1, <2>2
<1>11. QED BY <1>4, <1>5, <1>6, <1>7, <1>8, <1>9, <1>10 DEF Next, Inbox!Next

\* RunInbox: nothing is taken off before the consumer of now accepted it, and mail is offered
\* oldest first, in batches that stand until they are accepted or the consumer changes.
THEOREM Implementation == Spec => ImplementsInbox
<1>1. Init => Inbox!Init
  <2> SUFFICES ASSUME Init
               PROVE  Inbox!Init
    OBVIOUS
  <2>1. sent = 0 /\ delivery.status = "absent"
    BY DEF Init, NoDelivery
  <2>2. {m \in 1 .. sent : mail[m].read # "no"} = {} /\ Offered = {}
    BY <2>1 DEF Offered
  <2>3. QED BY <2>1, <2>2 DEF Inbox!Init
<1>2. QED BY <1>1, InboxStep, Inductive, PTL DEF Spec, ImplementsInbox, Inbox!Spec

=============================================================================
