-------------------------- MODULE RelayQueueProofs --------------------------
(***************************************************************************)
(* Proofs about the queue: it brings the home one message per place, and   *)
(* with protocol 3 lets go of an item only when its message is there.      *)
(***************************************************************************)
EXTENDS FederationRelayProofs

-----------------------------------------------------------------------------
(* The queue, the page of the running sync, and what the home has of them.  *)
(* An item may be replaced by a report after it was pulled or imported, and *)
(* only then do the two servers differ on what stands in its place.         *)

Arrived(s) == <<s, relay[s].kind>> \in messages
ReportArrived(s) == <<s, "worker_done">> \in messages
ReportStands(s) == relay[s].kind = "worker_done"

\* The home has a message of every place up to the last imported, and of none
\* after it.
HomeInv ==
  /\ \A s \in Sequence : s <= imported => s \in Sent
  /\ \A m \in messages : m[1] <= imported
  /\ Settles => \A s \in Sequence : s <= imported => Arrived(s) \/ ReportStands(s)
  /\ OneMessagePerItem

\* A pulled item stands in the queue still, or was a heartbeat and is a report now.
PulledAs(s) ==
  \/ sync.items[s].kind = relay[s].kind
  \/ sync.items[s].kind = "heartbeat" /\ ReportStands(s)

\* What was pulled is queued, and the cursor of a page that is done has been
\* imported; every verdict is about a report at the home.
PageInv ==
  /\ \A s \in Pulled : s \in Sent /\ PulledAs(s)
  /\ sync.phase \in {"pulled", "import"} /\ Pulled = {} => sync.cursor <= imported
  /\ \A s \in Sequence : sync.verdicts[s] # "none" => ReportArrived(s)

AckInv ==
  /\ \A a \in acks : a.through <= imported /\ \A s \in Judged(a) : ReportArrived(s)
  /\ AckedReachedHome

QueueInv == HomeInv /\ PageInv /\ AckInv

LEMMA InitQueue == Init => QueueInv
<1> SUFFICES ASSUME Init PROVE QueueInv
  OBVIOUS
<1>1. /\ imported = 0 /\ messages = {} /\ acks = {} /\ sync = Idle
      /\ \A s \in Sequence : relay[s] = Absent /\ s > 0
  BY DEF Init, Sequence
<1>2. Pulled = {} /\ sync.phase = "idle" /\ \A s \in Sequence : sync.verdicts[s] = "none"
  BY <1>1 DEF Pulled, Idle, Absent, NoVerdicts
<1>3. HomeInv
  BY <1>1, LimitsAssumption DEF HomeInv, OneMessagePerItem, Sequence
<1>4. PageInv
  BY <1>2 DEF PageInv
<1>5. AckInv
  BY <1>1 DEF AckInv, AckedReachedHome, Absent
<1> QED
  BY <1>3, <1>4, <1>5 DEF QueueInv

\* A step that neither queues nor imports, and whose sync starts anew, or goes
\* on with the page it has.
LEMMA QueueKept ==
  ASSUME QueueInv, UNCHANGED <<protocol, relay, imported, messages>>, acks' \subseteq acks,
         \/ Pulled' = {} /\ sync'.verdicts = NoVerdicts
         \/ sync'.items = sync.items /\ sync'.verdicts = sync.verdicts,
         \/ sync'.phase \notin {"pulled", "import"}
         \/ UNCHANGED sync
  PROVE  QueueInv'
<1>1. HomeInv'
  BY DEF QueueInv, HomeInv, Sent, Arrived, ReportStands, OneMessagePerItem, Settles
<1>2. PageInv'
  <2>1. CASE Pulled' = {} /\ sync'.verdicts = NoVerdicts
    BY <2>1 DEF QueueInv, PageInv, Pulled, NoVerdicts
  <2>2. CASE sync'.items = sync.items /\ sync'.verdicts = sync.verdicts
    BY <2>2 DEF QueueInv, PageInv, Pulled, PulledAs, Sent, ReportStands, ReportArrived
  <2> QED
    BY <2>1, <2>2
<1>3. AckInv'
  BY DEF QueueInv, AckInv, Judged, ReportArrived, AckedReachedHome, Settles
<1> QED
  BY <1>1, <1>2, <1>3 DEF QueueInv

LEMMA FreshSync ==
  ASSUME TypeOK, NEW pages, NEW point, Pull(pages) \/ EndSync(point) \/ sync' = Idle
  PROVE  Pulled' = {} /\ sync'.verdicts = NoVerdicts /\ sync'.phase \notin {"pulled", "import"}
<1>1. sync'.items = Idle.items /\ sync'.phase \in {"idle", "pull"}
  <2>1. CASE Pull(pages)
    BY <2>1, IdleTyped DEF Pull, Idle, SyncState
  <2>2. CASE sync' = Idle \/ EndSync(point)
    BY <2>2 DEF EndSync, Idle
  <2> QED
    BY <2>1, <2>2
<1>2. \A s \in Sequence : Idle.items[s].kind = "absent"
  BY DEF Idle, Absent
<1> QED
  BY <1>1, <1>2, FreshVerdicts DEF Pulled

LEMMA AnswerSync ==
  ASSUME TypeOK, NEW a \in acks, NEW phase \in {"acked", "refused"}, Answer(a, phase)
  PROVE  /\ acks' \subseteq acks
         /\ sync'.items = sync.items /\ sync'.verdicts = sync.verdicts
         /\ sync'.phase \notin {"pulled", "import"} \/ UNCHANGED sync
BY DEF Answer, TypeOK, SyncState

\* A new item stands behind everything imported; one that is replaced was a
\* heartbeat not yet acknowledged, and becomes a report.
LEMMA EnqueueKeepsQueue ==
  ASSUME TypeInv, QueueInv, NEW item \in Sendable, Enqueue(item)
  PROVE  QueueInv'
<1>0. TypeOK /\ item \in Item /\ ~item.acked /\ item.kind # "absent"
  BY SendableTyped DEF TypeInv
<1>1. UNCHANGED <<protocol, imported, messages, sync, acks>>
  BY DEF Enqueue, home_vars
<1>2. PICK s \in Sequence :
        \/ UNCHANGED relay
        \/ relay' = [relay EXCEPT ![s] = item] /\ \A r \in Sequence : r \in Sent <=> r < s
        \/ /\ relay' = [relay EXCEPT ![s] = item] /\ item.kind = "worker_done"
           /\ s \in Heartbeats
  BY DEF Enqueue
<1>3. CASE UNCHANGED relay
  BY <1>1, <1>3, QueueKept
<1>4. CASE ~(UNCHANGED relay)
  <2>1. relay' = [relay EXCEPT ![s] = item]
    BY <1>2, <1>4
  <2>2. relay'[s] = item /\ \A r \in Sequence : r # s => relay'[r] = relay[r]
    BY <1>0, <2>1 DEF TypeOK
  <2>3. \/ s \notin Sent
        \/ s \in Sent /\ relay[s].kind = "heartbeat" /\ item.kind = "worker_done"
    BY <1>2, <1>4 DEF Heartbeats, Pending, Sequence
  <2>4. \A r \in Sent :
          /\ r \in Sent'
          /\ \/ relay'[r].kind = relay[r].kind
             \/ relay[r].kind = "heartbeat" /\ ReportStands(r)'
    BY <1>0, <2>2, <2>3 DEF Sent, ReportStands
  <2>5. HomeInv'
    BY <1>1, <2>4 DEF QueueInv, HomeInv, Arrived, ReportStands, OneMessagePerItem, Settles
  <2>6. PageInv'
    <3>1. Pulled' = Pulled
      BY <1>1 DEF Pulled
    <3>2. \A r \in Pulled : r \in Sent /\ PulledAs(r)
      BY DEF QueueInv, PageInv
    <3>3. \A r \in Pulled' : r \in Sent' /\ PulledAs(r)'
      BY <1>1, <2>4, <3>1, <3>2 DEF ReportStands, PulledAs
    <3> QED
      BY <1>1, <3>1, <3>3 DEF QueueInv, PageInv, ReportArrived
  <2>7. AckInv'
    <3>1. \A r \in Sequence : relay'[r].acked => relay'[r] = relay[r]
      BY <1>0, <2>2
    <3> QED
      BY <1>1, <3>1 DEF QueueInv, AckInv, AckedReachedHome, Judged, ReportArrived, Settles
  <2> QED
    BY <2>5, <2>6, <2>7 DEF QueueInv
<1> QED
  BY <1>3, <1>4

\* A page is taken from the queue as it is; an empty one leaves the cursor at
\* what is imported.
LEMMA PullKeepsQueue == ASSUME TypeInv, QueueInv, ServePull PROVE QueueInv'
<1> DEFINE items == [s \in Sequence |-> IF s \in Page THEN relay[s] ELSE Absent]
           full == Cardinality(Page) = PageSize
<1>0. TypeOK
  BY DEF TypeInv
<1>1. UNCHANGED <<protocol, relay, imported, messages, acks>>
  BY DEF ServePull, worker_vars, home_vars
<1>2. PICK c \in 0 .. MaxItems :
        /\ ExpectedAfter(c)
        /\ sync' = [sync EXCEPT !.phase = "pulled", !.epoch = epoch, !.items = items,
                                !.full = full, !.cursor = c]
  BY DEF ServePull
<1> HIDE DEF full
<1>3. sync'.items = items /\ sync'.cursor = c /\ sync'.verdicts = sync.verdicts
  <2> HIDE DEF items
  <2> QED
    BY <1>0, <1>2 DEF TypeOK, SyncState
<1>4. Page \subseteq Sent
  BY DEF Page, Pending
<1>5. Pulled' = Page
  BY <1>3, <1>4 DEF Pulled, Sent, Absent
<1>6. HomeInv' /\ AckInv'
  BY <1>1 DEF QueueInv, HomeInv, Sent, Arrived, ReportStands, OneMessagePerItem, Settles, AckInv,
    AckedReachedHome, Judged, ReportArrived
<1>7. PageInv'
  <2>1. \A s \in Pulled' : s \in Sent' /\ PulledAs(s)'
    BY <1>1, <1>3, <1>4, <1>5 DEF Sent, PulledAs
  <2>2. Pulled' = {} => sync'.cursor <= imported'
    BY <1>0, <1>1, <1>2, <1>3, <1>5 DEF ExpectedAfter, TypeOK
  <2> QED
    BY <1>1, <1>3, <2>1, <2>2 DEF QueueInv, PageInv, ReportArrived
<1> QED
  BY <1>6, <1>7 DEF QueueInv

\* An item brings its own message if its place is the next one, and none if
\* the place has one.
LEMMA ImportKeepsQueue ==
  ASSUME TypeInv, QueueInv, NEW s \in Sequence, ImportItem(s)
  PROVE  QueueInv'
<1> DEFINE item == sync.items[s]
           m == <<s, item.kind>>
           verdict == IF item.kind = "worker_done" /\ Settles THEN VerdictOn(item) ELSE "none"
<1>0. TypeOK /\ imported \in Nat /\ s \in Nat
  BY DEF TypeInv, TypeOK, Sequence
<1>1. UNCHANGED <<protocol, relay, acks>>
  BY DEF ImportItem, worker_vars
<1>2. s \in Pulled /\ (s <= imported => m \in messages) /\ s <= imported + 1
  BY DEF ImportItem, Importable
<1>3. messages' = messages \cup {m} /\ imported' = IF s <= imported THEN imported ELSE s
  BY DEF ImportItem
<1>4. imported <= imported' /\ s <= imported' /\ imported' \in Nat
  BY <1>0, <1>3
<1>5. /\ sync'.items = [sync.items EXCEPT ![s] = Absent] /\ sync'.cursor = s
      /\ sync'.verdicts = [sync.verdicts EXCEPT ![s] = verdict]
  <2> HIDE DEF verdict
  <2> QED
    BY <1>0 DEF ImportItem, TypeOK, SyncState, verdict
<1>6. s \in Sent /\ (item.kind = relay[s].kind \/ ReportStands(s))
  BY <1>2 DEF QueueInv, PageInv, PulledAs
<1>7. HomeInv'
  <2>1. CASE s <= imported
    <3>1. messages' = messages /\ imported' = imported
      BY <1>2, <1>3, <2>1
    <3> QED
      BY <1>1, <3>1 DEF QueueInv, HomeInv, Sent, Arrived, ReportStands, OneMessagePerItem, Settles
  <2>2. CASE ~(s <= imported)
    <3>1. imported' = s /\ imported' = imported + 1
      BY <1>0, <1>2, <1>3, <2>2
    <3>2. \A r \in Sequence : r <= imported' => r <= imported \/ r = s
      BY <1>0, <3>1 DEF Sequence
    <3>3. \A n \in messages' : n \in messages \/ n = m
      BY <1>3
    <3>4. \A n \in messages : n[1] \in Nat /\ n[1] <= imported /\ n[1] # s
      BY <1>0, <3>1 DEF QueueInv, HomeInv, TypeOK, Sequence
    <3>5. \A n \in messages' : n[1] <= imported'
      BY <1>0, <3>1, <3>3, <3>4
    <3>6. OneMessagePerItem'
      BY <3>3, <3>4 DEF QueueInv, HomeInv, OneMessagePerItem
    <3>7. \A r \in Sequence : r <= imported' => r \in Sent'
      BY <1>1, <1>6, <3>2 DEF QueueInv, HomeInv, Sent
    <3>8. Settles' => \A r \in Sequence : r <= imported' => Arrived(r)' \/ ReportStands(r)'
      BY <1>1, <1>3, <1>6, <3>2 DEF QueueInv, HomeInv, Settles, Arrived, ReportStands
    <3> QED
      BY <3>5, <3>6, <3>7, <3>8 DEF HomeInv
  <2> QED
    BY <2>1, <2>2
<1>8. PageInv'
  <2>1. \A r \in Pulled' : r \in Pulled /\ sync'.items[r] = sync.items[r]
    BY <1>0, <1>5 DEF Pulled, TypeOK, SyncState, Absent
  <2>2. \A r \in Pulled' : r \in Sent' /\ PulledAs(r)'
    BY <1>1, <2>1 DEF QueueInv, PageInv, Sent, ReportStands, PulledAs
  <2>3. verdict # "none" => m = <<s, "worker_done">>
    OBVIOUS
  <2>4. \A r \in Sequence : sync'.verdicts[r] # "none" => ReportArrived(r)'
    <3>1. sync.verdicts \in [Sequence -> Action]
      BY <1>0 DEF TypeOK, SyncState, Verdicts
    <3> HIDE DEF verdict
    <3> QED
      BY <1>3, <1>5, <2>3, <3>1 DEF QueueInv, PageInv, ReportArrived
  <2> QED
    BY <1>4, <1>5, <2>2, <2>4 DEF PageInv
<1>9. AckInv'
  <2>1. \A a \in acks : a.through <= imported'
    BY <1>0, <1>4 DEF QueueInv, AckInv, TypeOK, AckRequest, Sequence
  <2> QED
    BY <1>1, <1>3, <2>1 DEF QueueInv, AckInv, AckedReachedHome, Judged, ReportArrived, Settles
<1> QED
  BY <1>7, <1>8, <1>9 DEF QueueInv

LEMMA SendKeepsQueue == ASSUME TypeInv, QueueInv, SendAck PROVE QueueInv'
<1> DEFINE request == [through |-> sync.cursor, verdicts |-> sync.verdicts]
<1>0. TypeOK
  BY DEF TypeInv
<1>1. UNCHANGED <<protocol, relay, imported, messages>> /\ acks' = acks \cup {request}
  BY DEF SendAck, worker_vars, home_vars
<1>2. sync'.items = sync.items /\ sync'.verdicts = sync.verdicts /\ sync'.phase = "ack"
  BY <1>0 DEF SendAck, TypeOK, SyncState
<1>3. request.through <= imported /\ \A s \in Judged(request) : ReportArrived(s)
  BY DEF SendAck, QueueInv, PageInv, Judged
<1>4. HomeInv'
  BY <1>1 DEF QueueInv, HomeInv, Sent, Arrived, ReportStands, OneMessagePerItem, Settles
<1>5. PageInv'
  BY <1>1, <1>2 DEF QueueInv, PageInv, Pulled, PulledAs, Sent, ReportStands, ReportArrived
<1>6. AckInv'
  BY <1>1, <1>3 DEF QueueInv, AckInv, AckedReachedHome, Judged, ReportArrived, Settles
<1> QED
  BY <1>4, <1>5, <1>6 DEF QueueInv

\* What an acknowledgment lets go of is imported; a report among it is judged,
\* and so has come to the home as a report.
LEMMA ApplyKeepsQueue ==
  ASSUME TypeInv, QueueInv, NEW a \in acks, AckValid(a), ApplyAck(a),
         NEW phase \in {"acked", "refused"}, Answer(a, phase),
         UNCHANGED <<protocol, imported, messages>>
  PROVE  QueueInv'
<1>0. TypeOK
  BY DEF TypeInv
<1>1. \A s \in Sequence : relay'[s].kind = relay[s].kind
  BY <1>0 DEF ApplyAck, TypeOK, Item
<1>2. \A s \in Sequence : relay'[s].acked => relay[s].acked \/ (s \in Sent /\ s <= a.through)
  BY <1>0 DEF ApplyAck, TypeOK, Item
<1>3. /\ acks' \subseteq acks /\ sync'.items = sync.items /\ sync'.verdicts = sync.verdicts
      /\ sync'.phase \notin {"pulled", "import"} \/ UNCHANGED sync
  BY <1>0, AnswerSync
<1>4. HomeInv'
  BY <1>1 DEF QueueInv, HomeInv, Sent, Arrived, ReportStands, OneMessagePerItem, Settles
<1>5. PageInv'
  BY <1>1, <1>3 DEF QueueInv, PageInv, Pulled, PulledAs, Sent, ReportStands, ReportArrived
<1>6. ASSUME Settles, NEW s \in Sequence, s \in Sent, s <= a.through PROVE Arrived(s)
  <2>1. s <= imported
    BY <1>0, <1>6 DEF QueueInv, AckInv, TypeOK, AckRequest, Sequence
  <2>2. CASE ReportStands(s) /\ ~relay[s].acked
    BY <1>6, <2>2 DEF AckValid, Pending, ReportStands, QueueInv, AckInv, ReportArrived, Arrived
  <2>3. CASE relay[s].acked
    BY <1>6, <2>3 DEF QueueInv, AckInv, AckedReachedHome, Arrived
  <2>4. CASE ~ReportStands(s)
    BY <1>6, <2>1, <2>4 DEF QueueInv, HomeInv
  <2> QED
    BY <2>2, <2>3, <2>4
<1>7. AckInv'
  BY <1>1, <1>2, <1>3, <1>6
  DEF QueueInv, AckInv, AckedReachedHome, Judged, ReportArrived, Arrived, Settles
<1> QED
  BY <1>4, <1>5, <1>7 DEF QueueInv

LEMMA StepQueue == TypeInv /\ QueueInv /\ [Next]_vars => QueueInv'
<1> SUFFICES ASSUME TypeInv, QueueInv, [Next]_vars PROVE QueueInv'
  OBVIOUS
<1>0. TypeOK
  BY DEF TypeInv
<1>1. ASSUME NEW item \in Sendable, Enqueue(item) PROVE QueueInv'
  BY <1>1, EnqueueKeepsQueue
<1>2. CASE ServePull
  BY <1>2, PullKeepsQueue
<1>3. ASSUME NEW s \in Sequence, ImportItem(s) PROVE QueueInv'
  BY <1>3, ImportKeepsQueue
<1>4. CASE SendAck
  BY <1>4, SendKeepsQueue
<1>5. CASE BeginSync \/ SyncReported \/ ImportFails \/ SkipAck \/ AckReturns \/ AckRefused
           \/ SyncTimesOut \/ HomeRestart
  <2>1. UNCHANGED <<protocol, relay, imported, messages, acks>>
    BY <1>5 DEF BeginSync, SyncReported, Sync, ImportFails, SkipAck, AckReturns, AckRefused,
      SyncTimesOut, HomeRestart, worker_vars
  <2>2. Pulled' = {} /\ sync'.verdicts = NoVerdicts /\ sync'.phase \notin {"pulled", "import"}
    BY <1>0, <1>5, FreshSync DEF BeginSync, SyncReported, Sync, ImportFails, SkipAck, AckReturns,
      AckRefused, SyncTimesOut, HomeRestart, NextPage
  <2> QED
    BY <2>1, <2>2, QueueKept
<1>6. ASSUME NEW a \in acks, ExecuteAck(a) PROVE QueueInv'
  BY <1>6, ApplyKeepsQueue DEF ExecuteAck, home_vars
<1>7. ASSUME NEW a \in acks, ReplayAck(a) \/ RefuseAck(a) PROVE QueueInv'
  <2>1. UNCHANGED <<protocol, relay, imported, messages>>
    BY <1>7 DEF ReplayAck, RefuseAck, worker_vars, home_vars
  <2>2. /\ acks' \subseteq acks /\ sync'.items = sync.items /\ sync'.verdicts = sync.verdicts
        /\ sync'.phase \notin {"pulled", "import"} \/ UNCHANGED sync
    BY <1>0, <1>7, AnswerSync DEF ReplayAck, RefuseAck
  <2> QED
    BY <2>1, <2>2, QueueKept
<1>8. ASSUME NEW a \in acks, TornAck(a) PROVE QueueInv'
  <2>1. UNCHANGED <<protocol, imported, messages>> /\ Answer(a, "refused")
    BY <1>8 DEF TornAck, home_vars
  <2>2. CASE UNCHANGED relay
    <3>1. /\ acks' \subseteq acks /\ sync'.items = sync.items /\ sync'.verdicts = sync.verdicts
          /\ sync'.phase \notin {"pulled", "import"} \/ UNCHANGED sync
      BY <1>0, <2>1, AnswerSync
    <3> QED
      BY <2>1, <2>2, <3>1, QueueKept
  <2>3. CASE AckValid(a) /\ ApplyAck(a)
    BY <2>1, <2>3, ApplyKeepsQueue
  <2> QED
    BY <1>8, <2>2, <2>3 DEF TornAck
<1>9. ASSUME NEW s \in Sequence, GiveUpWaiting(s) PROVE QueueInv'
  BY <1>9, QueueKept DEF GiveUpWaiting, home_vars
<1>10. CASE WorkerRestart \/ ServeStop \/ CloseReturns \/ BeginStop \/ StopReturns \/ StopTimesOut
            \/ ShowWorker \/ Abandon \/ UNCHANGED vars
  <2>1. UNCHANGED <<protocol, relay, imported, messages, acks, sync>>
    BY <1>10 DEF WorkerRestart, ServeStop, CloseReturns, BeginStop, StopReturns, StopTimesOut,
      ShowWorker, Abandon, vars, worker_vars, home_vars
  <2> QED
    BY <2>1, QueueKept
<1>11. ASSUME NEW status \in Update, UpdateTask(status) PROVE QueueInv'
  BY <1>11, QueueKept DEF UpdateTask, worker_vars
<1> QED
  BY <1>1, <1>2, <1>3, <1>4, <1>5, <1>6, <1>7, <1>8, <1>9, <1>10, <1>11
  DEF Next, OrderlyNext, WorkerNext, SyncNext, ServeAck, StopNext, CoordinatorNext, FaultNext

LEMMA QueueCorrect == Spec => []QueueInv
<1>1. Init => TypeInv /\ QueueInv
  BY InitTyped, InitQueue
<1>2. TypeInv /\ QueueInv /\ [Next]_vars => (TypeInv /\ QueueInv)'
  BY StepTyped, StepQueue
<1> QED
  BY <1>1, <1>2, PTL DEF Spec

\* The home takes at most one message for each place in the queue.
THEOREM OneMessageEach == Spec => []OneMessagePerItem
<1>1. QueueInv => OneMessagePerItem
  BY DEF QueueInv, HomeInv
<1> QED
  BY <1>1, QueueCorrect, PTL

\* An item leaves the queue only once its own message is at the home (protocol 3).
THEOREM NothingLost == Spec => []AckedReachedHome
<1>1. QueueInv => AckedReachedHome
  BY DEF QueueInv, AckInv
<1> QED
  BY <1>1, QueueCorrect, PTL

-----------------------------------------------------------------------------
(* The queue is a RelayChannel.                                               *)

\* What a step does to the channel that is not seen by it.
LEMMA ChannelUntouched ==
  ASSUME UNCHANGED <<protocol, relay, imported, messages>>
  PROVE  UNCHANGED Channel!vars
BY DEF Channel!vars, Settles

\* A queued item is put on the channel, replaces a heartbeat, or is there already.
LEMMA EnqueueRefines ==
  ASSUME TypeInv, QueueInv, NEW item \in Sendable, Enqueue(item)
  PROVE  [Channel!Next]_(Channel!vars)
<1> DEFINE queued == [r \in Sequence |-> relay[r].kind]
           released == {r \in Sequence : Settles /\ relay[r].acked}
<1>0. TypeOK /\ item \in Item /\ ~item.acked /\ item.kind # "absent"
  BY SendableTyped DEF TypeInv
<1>1. UNCHANGED <<protocol, imported, messages>>
  BY DEF Enqueue, home_vars
<1>2. PICK s \in Sequence :
        \/ UNCHANGED relay
        \/ relay' = [relay EXCEPT ![s] = item] /\ \A r \in Sequence : r \in Sent <=> r < s
        \/ /\ relay' = [relay EXCEPT ![s] = item] /\ item.kind = "worker_done"
           /\ s \in Heartbeats
  BY DEF Enqueue
<1>3. item.kind \in {"status", "heartbeat", "worker_done"}
  BY <1>0 DEF Item
<1>4. ASSUME relay' = [relay EXCEPT ![s] = item]
      PROVE  queued' = [queued EXCEPT ![s] = item.kind]
  BY <1>0, <1>4 DEF TypeOK
<1>5. ASSUME relay' = [relay EXCEPT ![s] = item], Settles => ~relay[s].acked
      PROVE  released' = released
  <2>1. relay'[s] = item /\ \A r \in Sequence : r # s => relay'[r] = relay[r]
    BY <1>0, <1>5 DEF TypeOK
  <2> QED
    BY <1>0, <1>1, <1>5, <2>1 DEF Settles
<1>6. CASE UNCHANGED relay
  BY <1>1, <1>6, ChannelUntouched
<1>7. CASE relay' = [relay EXCEPT ![s] = item] /\ \A r \in Sequence : r \in Sent <=> r < s
  <2>1. relay[s].kind = "absent"
    BY <1>7 DEF Sent, Sequence
  <2>2. Settles => ~relay[s].acked
    BY <1>0, <2>1 DEF QueueInv, AckInv, AckedReachedHome, TypeOK
  <2>3. \A r \in Sequence : queued[r] # "absent" <=> r < s
    BY <1>7 DEF Sent
  <2>4. Channel!Put(s, item.kind)
    BY <1>1, <1>4, <1>5, <1>7, <2>2, <2>3 DEF Channel!Put
  <2> QED
    BY <1>3, <2>4 DEF Channel!Next
<1>8. CASE /\ relay' = [relay EXCEPT ![s] = item] /\ item.kind = "worker_done"
           /\ s \in Heartbeats
  <2>1. ~relay[s].acked /\ queued[s] = "heartbeat"
    BY <1>8 DEF Heartbeats, Pending
  <2>2. s \notin released
    BY <2>1
  <2>3. Channel!Replace(s)
    BY <1>1, <1>4, <1>5, <1>8, <2>1, <2>2 DEF Channel!Replace
  <2> QED
    BY <2>3 DEF Channel!Next
<1> QED
  BY <1>2, <1>6, <1>7, <1>8

\* An import delivers the next place, or brings nothing new.
LEMMA ImportRefines ==
  ASSUME TypeInv, QueueInv, NEW s \in Sequence, ImportItem(s)
  PROVE  [Channel!Next]_(Channel!vars)
<1> DEFINE kind == sync.items[s].kind
           m == <<s, kind>>
           queued == [r \in Sequence |-> relay[r].kind]
<1>0. TypeOK /\ imported \in Nat /\ s \in Nat
  BY DEF TypeInv, TypeOK, Sequence
<1>1. UNCHANGED <<protocol, relay>>
  BY DEF ImportItem, worker_vars
<1>2. s \in Pulled /\ (s <= imported => m \in messages) /\ s <= imported + 1
  BY DEF ImportItem, Importable
<1>3. messages' = messages \cup {m} /\ imported' = IF s <= imported THEN imported ELSE s
  BY DEF ImportItem
<1>4. CASE s <= imported
  BY <1>1, <1>2, <1>3, <1>4, ChannelUntouched
<1>5. CASE ~(s <= imported)
  <2>1. s = imported + 1 /\ imported' = s
    BY <1>0, <1>2, <1>3, <1>5
  <2>2. kind = queued[s] \/ (queued[s] = "worker_done" /\ kind = "heartbeat")
    BY <1>2 DEF QueueInv, PageInv, PulledAs, ReportStands
  <2>3. kind \in {"status", "heartbeat", "worker_done"}
    BY <1>0, <1>2 DEF Pulled, TypeOK, SyncState, Item
  <2>4. Channel!Deliver(s, kind)
    BY <1>1, <1>3, <2>1, <2>2 DEF Channel!Deliver, Settles
  <2> QED
    BY <2>3, <2>4 DEF Channel!Next
<1> QED
  BY <1>4, <1>5

\* An acknowledgment releases the places it covers, once they are at the home.
LEMMA AckRefines ==
  ASSUME TypeInv, QueueInv, QueueInv', NEW a \in acks, ApplyAck(a),
         UNCHANGED <<protocol, imported, messages>>
  PROVE  [Channel!Next]_(Channel!vars)
<1> DEFINE queued == [r \in Sequence |-> relay[r].kind]
           released == {r \in Sequence : Settles /\ relay[r].acked}
<1>0. TypeOK /\ a.through \in Sequence
  BY DEF TypeInv, TypeOK, AckRequest
<1>1. \A r \in Sequence :
        /\ relay'[r].kind = relay[r].kind
        /\ relay'[r].acked <=> relay[r].acked \/ (r \in Sent /\ r <= a.through)
  BY <1>0 DEF ApplyAck, TypeOK, Item
<1>2. queued' = queued
  BY <1>1
<1>3. CASE Settles
  <2>1. released' = released \cup {r \in Sequence : r <= a.through /\ queued[r] # "absent"}
    BY <1>1, <1>3 DEF Sent, Settles
  <2>2. \A r \in released' : <<r, queued[r]>> \in messages
    BY <1>1 DEF QueueInv, AckInv, AckedReachedHome
  <2>3. Channel!Release(a.through)
    BY <1>2, <2>1, <2>2 DEF Channel!Release
  <2> QED
    BY <1>0, <2>3 DEF Channel!Next
<1>4. CASE ~Settles
  BY <1>2, <1>4 DEF Channel!vars, Settles
<1> QED
  BY <1>3, <1>4

LEMMA StepChannel ==
  ASSUME TypeInv, QueueInv, QueueInv', [Next]_vars
  PROVE  [Channel!Next]_(Channel!vars)
<1>1. ASSUME NEW item \in Sendable, Enqueue(item) PROVE [Channel!Next]_(Channel!vars)
  BY <1>1, EnqueueRefines
<1>2. ASSUME NEW s \in Sequence, ImportItem(s) PROVE [Channel!Next]_(Channel!vars)
  BY <1>2, ImportRefines
<1>3. ASSUME NEW a \in acks, ExecuteAck(a) PROVE [Channel!Next]_(Channel!vars)
  BY <1>3, AckRefines DEF ExecuteAck, home_vars
<1>4. ASSUME NEW a \in acks, TornAck(a) PROVE [Channel!Next]_(Channel!vars)
  BY <1>4, AckRefines, ChannelUntouched DEF TornAck, home_vars
<1>5. CASE ServePull \/ SendAck \/ BeginSync \/ SyncReported \/ ImportFails \/ SkipAck \/ AckReturns
           \/ AckRefused \/ SyncTimesOut \/ HomeRestart
  BY <1>5, ChannelUntouched
  DEF ServePull, SendAck, BeginSync, SyncReported, Sync, ImportFails, SkipAck, AckReturns,
      AckRefused, SyncTimesOut, HomeRestart, worker_vars, home_vars
<1>6. ASSUME NEW a \in acks, ReplayAck(a) \/ RefuseAck(a) PROVE [Channel!Next]_(Channel!vars)
  BY <1>6, ChannelUntouched DEF ReplayAck, RefuseAck, worker_vars, home_vars
<1>7. ASSUME NEW s \in Sequence, GiveUpWaiting(s) PROVE [Channel!Next]_(Channel!vars)
  BY <1>7, ChannelUntouched DEF GiveUpWaiting, home_vars
<1>8. CASE WorkerRestart \/ ServeStop \/ CloseReturns \/ BeginStop \/ StopReturns \/ StopTimesOut
           \/ ShowWorker \/ Abandon \/ UNCHANGED vars
  BY <1>8, ChannelUntouched
  DEF WorkerRestart, ServeStop, CloseReturns, BeginStop, StopReturns, StopTimesOut, ShowWorker,
      Abandon, vars, worker_vars, home_vars
<1>9. ASSUME NEW status \in Update, UpdateTask(status) PROVE [Channel!Next]_(Channel!vars)
  BY <1>9, ChannelUntouched DEF UpdateTask, worker_vars
<1> QED
  BY <1>1, <1>2, <1>3, <1>4, <1>5, <1>6, <1>7, <1>8, <1>9
  DEF Next, OrderlyNext, WorkerNext, SyncNext, ServeAck, StopNext, CoordinatorNext, FaultNext

\* For queues and pages of any length, any number of time-outs and restarts, and
\* acknowledgments that are lost, late or repeated: the relay delivers in order,
\* once, with nothing left out, and (protocol 3) forgets nothing undelivered.
THEOREM RelayImplementsChannel == Spec => ImplementsChannel
<1>1. Init => Channel!Init
  <2> SUFFICES ASSUME Init PROVE Channel!Init
    OBVIOUS
  <2>1. \A s \in Sequence : relay[s].kind = "absent" /\ ~relay[s].acked
    BY DEF Init, Absent
  <2> QED
    BY <2>1 DEF Init, Channel!Init
<1>2. TypeInv /\ QueueInv /\ QueueInv' /\ [Next]_vars => [Channel!Next]_(Channel!vars)
  BY StepChannel
<1>3. TypeInv /\ QueueInv /\ [Next]_vars => (TypeInv /\ QueueInv)'
  BY StepTyped, StepQueue
<1>4. Init => TypeInv /\ QueueInv
  BY InitTyped, InitQueue
<1> QED
  BY <1>1, <1>2, <1>3, <1>4, PTL DEF Spec, ImplementsChannel, Channel!Spec

=============================================================================
