----------------------- MODULE FederationRelayProofs -----------------------
(***************************************************************************)
(* Proofs about the relay, for queues of any length, any number of losses  *)
(* and restarts, and every status task-update may set.                     *)
(***************************************************************************)
EXTENDS FederationRelay, TLAPS

-----------------------------------------------------------------------------
(* Types. *)

\* TypeOK, made inductive: the places in the queue stay in its bounds, and an
\* acknowledgment is only sent for something.
TypeInv ==
  /\ TypeOK
  /\ imported <= MaxItems
  /\ sync.cursor <= MaxItems
  /\ sync.phase \in {"ack", "acked"} => sync.cursor > 0

LEMMA IdleTyped == Idle \in SyncState
BY LimitsAssumption DEF Idle, SyncState, NoPoint, Point, NoVerdicts, Verdicts, Action, Absent,
  Item, Outcome

LEMMA InitTyped == Init => TypeInv
<1> SUFFICES ASSUME Init PROVE TypeInv
  OBVIOUS
<1>1. NoVerdicts \in Verdicts /\ Absent \in Item
  BY DEF NoVerdicts, Verdicts, Action, Absent, Item
<1>2. relay \in [Sequence -> Item] /\ receipts \in [Sequence -> ReceiptRow]
  BY <1>1 DEF Init, ReceiptRow
<1>3. home \in HomeRow /\ acked \in Point /\ checkpoint \in Point
  BY DEF Init, HomeRow, TaskStatus, Point, NoPoint
<1>4. sync \in SyncState /\ sync.cursor = 0 /\ sync.phase = "idle"
  BY IdleTyped DEF Init, Idle
<1>5. /\ acks \in SUBSET AckRequest
      /\ stopCall \in {"none", "request", "closing", "stopped", "stop_unknown", "error"} \cup Outcome
      /\ attachment \in {"ready", "stopping", "stopped", "stop_unknown"} \cup Outcome
      /\ stopWait \in BOOLEAN
  BY Zenon DEF Init
<1>6. /\ protocol \in Protocol /\ epoch \in Nat /\ imported \in Nat /\ faults \in Nat
      /\ waiting \in SUBSET Sequence /\ told \in SUBSET (Sequence \X Action)
      /\ messages \in SUBSET (Sequence \X {"status", "heartbeat", "worker_done"})
      /\ imported <= MaxItems
  BY LimitsAssumption DEF Init
<1>7. TypeOK
  BY <1>2, <1>3, <1>4, <1>5, <1>6 DEF TypeOK
<1> QED
  BY <1>4, <1>6, <1>7, LimitsAssumption DEF TypeInv

\* A sync that ends, or that pulls again.
LEMMA EndSyncTyped ==
  ASSUME NEW point \in Point, EndSync(point)
  PROVE  /\ sync' \in SyncState /\ checkpoint' \in Point
         /\ sync'.cursor = 0 /\ sync'.phase = "idle"
<1>1. NoPoint \in Point
  BY DEF NoPoint, Point
<1> QED
  BY <1>1, IdleTyped DEF EndSync, Idle

LEMMA PullTyped ==
  ASSUME NEW pages \in Nat, acked' \in Point, Pull(pages)
  PROVE  sync' \in SyncState /\ sync'.cursor = 0 /\ sync'.phase = "pull"
BY IdleTyped DEF Pull, Idle, SyncState

LEMMA NextPageTyped ==
  ASSUME TypeOK, NEW point \in Point, acked' \in Point, NextPage(point)
  PROVE  /\ sync' \in SyncState /\ checkpoint' \in Point
         /\ sync'.cursor = 0 /\ sync'.phase \in {"idle", "pull"}
<1>1. CASE sync.full /\ sync.pages > 1
  <2>1. sync.pages - 1 \in Nat
    BY <1>1 DEF TypeOK, SyncState
  <2> QED
    BY <1>1, <2>1, PullTyped DEF NextPage
<1>2. CASE ~(sync.full /\ sync.pages > 1)
  BY <1>2, EndSyncTyped DEF NextPage
<1> QED
  BY <1>1, <1>2

\* What the worker server changes when it executes an acknowledgment.
LEMMA AppliedTyped ==
  ASSUME TypeOK, NEW a \in acks, ApplyAck(a)
  PROVE  /\ relay' \in [Sequence -> Item]
         /\ attachment' \in {"ready", "stopping", "stopped", "stop_unknown"} \cup Outcome
<1>1. \A s \in Sequence : [relay[s] EXCEPT !.acked = TRUE] \in Item
  BY DEF TypeOK, Item
<1> QED
  BY <1>1 DEF ApplyAck, TypeOK, Outcome

LEMMA ReceiptTyped ==
  ASSUME TypeOK, NEW a \in acks, NEW state \in {"pending", "completed"}, Receipt(a, state)
  PROVE  receipts' \in [Sequence -> ReceiptRow]
BY DEF Receipt, TypeOK, AckRequest, ReceiptRow

LEMMA AnswerTyped ==
  ASSUME TypeInv, NEW a \in acks, NEW phase \in {"acked", "refused"}, Answer(a, phase)
  PROVE  /\ acks' \in SUBSET AckRequest /\ sync' \in SyncState
         /\ sync'.cursor = sync.cursor
         /\ sync'.phase \in {"ack", "acked"} => sync.phase \in {"ack", "acked"}
BY DEF Answer, TypeInv, TypeOK, SyncState

LEMMA SendableTyped ==
  ASSUME NEW item \in Sendable
  PROVE  /\ item \in Item /\ ~item.acked /\ item.kind # "absent"
         /\ item.kind = "worker_done" => item.outcome \in Outcome
<1>1. CASE item \in {Message(kind) : kind \in {"status", "heartbeat"}}
  <2>1. PICK kind \in {"status", "heartbeat"} : item = Message(kind)
    BY <1>1
  <2> QED
    BY <2>1 DEF Message, Item
<1>2. CASE item \in {Report(outcome, fits) : outcome \in Outcome, fits \in BOOLEAN}
  <2>1. PICK outcome \in Outcome, fits \in BOOLEAN : item = Report(outcome, fits)
    BY <1>2
  <2> QED
    BY <2>1 DEF Report, Item
<1> QED
  BY <1>1, <1>2 DEF Sendable

\* Every step keeps the types.
LEMMA StepTyped == TypeInv /\ [Next]_vars => TypeInv'
<1> SUFFICES ASSUME TypeInv, [Next]_vars PROVE TypeInv'
  OBVIOUS
<1> USE LimitsAssumption
<1>0. TypeOK
  BY DEF TypeInv
<1>1. ASSUME NEW item \in Sendable, Enqueue(item) PROVE TypeInv'
  <2>1. item \in Item
    BY SendableTyped
  <2>2. relay' \in [Sequence -> Item]
    BY <1>0, <1>1, <2>1 DEF Enqueue, TypeOK
  <2>3. /\ attachment' \in {"ready", "stopping", "stopped", "stop_unknown"} \cup Outcome
        /\ waiting' \in SUBSET Sequence
    <3>1. item.kind = "worker_done" => item.outcome \in Outcome
      BY SendableTyped
    <3> QED
      BY <1>0, <1>1, <3>1 DEF Enqueue, Reported, TypeOK
  <2> QED
    BY <1>1, <2>2, <2>3 DEF Enqueue, TypeInv, TypeOK, home_vars
<1>2. ASSUME NEW s \in Sequence, GiveUpWaiting(s) PROVE TypeInv'
  BY <1>2 DEF GiveUpWaiting, TypeInv, TypeOK, home_vars
<1>3. CASE BeginSync \/ SyncReported
  <2>1. Sync
    BY <1>3 DEF BeginSync, SyncReported
  <2>2. sync' \in SyncState /\ sync'.cursor = 0 /\ sync'.phase = "pull"
    BY <1>0, <2>1, PullTyped DEF Sync, TypeOK
  <2> QED
    BY <2>1, <2>2 DEF Sync, TypeInv, TypeOK, worker_vars
<1>4. CASE ServePull
  <2> DEFINE items == [s \in Sequence |-> IF s \in Page THEN relay[s] ELSE Absent]
             full == Cardinality(Page) = PageSize
  <2>1. items \in [Sequence -> Item]
    <3>1. \A s \in Sequence : (IF s \in Page THEN relay[s] ELSE Absent) \in Item
      BY <1>0 DEF TypeOK, Absent, Item
    <3> QED
      BY <3>1
  <2>2. full \in BOOLEAN
    OBVIOUS
  <2>3. PICK c \in 0 .. MaxItems :
          sync' = [sync EXCEPT !.phase = "pulled", !.epoch = epoch, !.items = items,
                               !.full = full, !.cursor = c]
    BY <1>4 DEF ServePull
  <2> HIDE DEF items, full
  <2>4. c \in Nat /\ c <= MaxItems
    OBVIOUS
  <2>5. sync' \in SyncState /\ sync'.cursor <= MaxItems /\ sync'.phase = "pulled"
    BY <1>0, <2>1, <2>2, <2>3, <2>4 DEF TypeOK, SyncState
  <2> QED
    BY <1>4, <2>5 DEF ServePull, TypeInv, TypeOK, worker_vars, home_vars
<1>5. ASSUME NEW s \in Sequence, ImportItem(s) PROVE TypeInv'
  <2> DEFINE item == sync.items[s]
  <2>1. item \in Item /\ item.kind # "absent"
    BY <1>0, <1>5 DEF ImportItem, Importable, Pulled, TypeOK, SyncState
  <2>2. messages' \in SUBSET (Sequence \X {"status", "heartbeat", "worker_done"})
    <3>1. item.kind \in {"status", "heartbeat", "worker_done"}
      BY <2>1 DEF Item
    <3> QED
      BY <1>0, <1>5, <3>1 DEF ImportItem, TypeOK
  <2>3. imported' \in Nat /\ imported' <= MaxItems
    BY <1>0, <1>5 DEF ImportItem, TypeInv, TypeOK, Sequence
  <2>4. home' \in HomeRow
    <3>1. CASE item.kind = "worker_done" /\ Settleable(item)
      <4>1. Status(item.outcome) \in {"completed", "failed"}
        BY DEF Status
      <4>2. item.outcome \in Outcome
        BY <2>1, <3>1 DEF Item
      <4>3. home' = [task |-> Status(item.outcome), dispatch |-> Status(item.outcome),
                     worker |-> IF home.worker = "ready" THEN item.outcome ELSE home.worker]
        BY <1>5, <3>1 DEF ImportItem
      <4> QED
        BY <1>0, <4>1, <4>2, <4>3 DEF TypeOK, HomeRow, TaskStatus
    <3> QED
      BY <1>0, <1>5, <3>1 DEF ImportItem, TypeOK
  <2>5. sync' \in SyncState /\ sync'.cursor = s /\ sync'.phase = "import"
    <3>1. (IF item.kind = "worker_done" /\ Settles THEN VerdictOn(item) ELSE "none") \in Action
      BY DEF VerdictOn, Status, Action
    <3>2. [sync.verdicts EXCEPT ![s] = IF item.kind = "worker_done" /\ Settles
                                       THEN VerdictOn(item) ELSE "none"] \in Verdicts
      BY <1>0, <3>1 DEF TypeOK, SyncState, Verdicts
    <3>3. [sync.items EXCEPT ![s] = Absent] \in [Sequence -> Item]
      BY <1>0 DEF TypeOK, SyncState, Absent, Item
    <3>4. sync' = [sync EXCEPT
            !.phase = "import",
            !.cursor = s,
            !.items = [sync.items EXCEPT ![s] = Absent],
            !.verdicts = [sync.verdicts EXCEPT ![s] =
                            IF item.kind = "worker_done" /\ Settles
                            THEN VerdictOn(item) ELSE "none"]]
      BY <1>0, <1>5 DEF ImportItem, TypeOK, SyncState
    <3>5. s \in Nat
      BY DEF Sequence
    <3> HIDE DEF item
    <3> QED
      BY <1>0, <3>2, <3>3, <3>4, <3>5 DEF TypeOK, SyncState
  <2> QED
    BY <1>5, <2>2, <2>3, <2>4, <2>5 DEF ImportItem, TypeInv, TypeOK, worker_vars, Sequence
<1>6. CASE ImportFails \/ AckRefused \/ SyncTimesOut
  <2>1. sync' \in SyncState /\ checkpoint' \in Point /\ sync'.cursor = 0 /\ sync'.phase = "idle"
    BY <1>0, <1>6, EndSyncTyped DEF ImportFails, AckRefused, SyncTimesOut, TypeOK
  <2> QED
    BY <1>6, <2>1 DEF ImportFails, AckRefused, SyncTimesOut, TypeInv, TypeOK, worker_vars
<1>7. CASE SendAck
  <2>1. sync.cursor \in Sequence
    BY <1>7 DEF SendAck, AckDue, TypeInv, TypeOK, SyncState, Sequence
  <2>2. [through |-> sync.cursor, verdicts |-> sync.verdicts] \in AckRequest
    BY <1>0, <2>1 DEF TypeOK, SyncState, AckRequest
  <2>3. sync' \in SyncState /\ sync'.cursor = sync.cursor
    BY <1>0, <1>7 DEF SendAck, TypeOK, SyncState
  <2> QED
    BY <1>7, <2>1, <2>2, <2>3 DEF SendAck, TypeInv, TypeOK, worker_vars, home_vars, Sequence
<1>8. CASE SkipAck
  <2>1. /\ sync' \in SyncState /\ checkpoint' \in Point
        /\ sync'.cursor = 0 /\ sync'.phase \in {"idle", "pull"}
    BY <1>0, <1>8, NextPageTyped DEF SkipAck, TypeOK
  <2> QED
    BY <1>8, <2>1 DEF SkipAck, TypeInv, TypeOK, worker_vars
<1>9. CASE AckReturns
  <2> DEFINE through == IF sync.full /\ sync.pages = 1 THEN sync.cursor - 1 ELSE sync.cursor
             point == IF checkpoint.epoch = sync.epoch /\ checkpoint.through >= through
                      THEN checkpoint ELSE [epoch |-> sync.epoch, through |-> through]
  <2>1. through \in Nat
    BY <1>9 DEF AckReturns, TypeInv, TypeOK, SyncState
  <2>2. NextPage(point)
    BY <1>9 DEF AckReturns
  <2> HIDE DEF through
  <2>3. point \in Point
    BY <1>0, <2>1 DEF TypeOK, SyncState, Point
  <2>4. acked' \in Point
    BY <1>0, <1>9, <2>1 DEF AckReturns, TypeOK, SyncState, Point, LaterOf, through
  <2>5. /\ sync' \in SyncState /\ checkpoint' \in Point
        /\ sync'.cursor = 0 /\ sync'.phase \in {"idle", "pull"}
    BY <1>0, <2>2, <2>3, <2>4, NextPageTyped
  <2> QED
    BY <1>9, <2>4, <2>5 DEF AckReturns, TypeInv, TypeOK, worker_vars
<1>10. ASSUME NEW a \in acks, ExecuteAck(a) PROVE TypeInv'
  <2>1. /\ relay' \in [Sequence -> Item]
        /\ attachment' \in {"ready", "stopping", "stopped", "stop_unknown"} \cup Outcome
    BY <1>0, <1>10, AppliedTyped DEF ExecuteAck
  <2>2. receipts' \in [Sequence -> ReceiptRow]
    BY <1>0, <1>10, ReceiptTyped DEF ExecuteAck
  <2>3. told' \in SUBSET (Sequence \X Action) /\ waiting' \in SUBSET Sequence
    <3>1. \A s \in Sequence : a.verdicts[s] \in Action
      BY <1>0 DEF TypeOK, AckRequest, Verdicts
    <3> QED
      BY <1>0, <1>10, <3>1 DEF ExecuteAck, TypeOK, Judged
  <2>4. /\ acks' \in SUBSET AckRequest /\ sync' \in SyncState
        /\ sync'.cursor = sync.cursor
        /\ sync'.phase \in {"ack", "acked"} => sync.phase \in {"ack", "acked"}
    BY <1>10, AnswerTyped DEF ExecuteAck
  <2> QED
    BY <1>10, <2>1, <2>2, <2>3, <2>4 DEF ExecuteAck, TypeInv, TypeOK, home_vars
<1>11. ASSUME NEW a \in acks, ReplayAck(a) \/ RefuseAck(a) PROVE TypeInv'
  <2>1. /\ acks' \in SUBSET AckRequest /\ sync' \in SyncState
        /\ sync'.cursor = sync.cursor
        /\ sync'.phase \in {"ack", "acked"} => sync.phase \in {"ack", "acked"}
    BY <1>11, AnswerTyped DEF ReplayAck, RefuseAck
  <2> QED
    BY <1>11, <2>1 DEF ReplayAck, RefuseAck, TypeInv, TypeOK, worker_vars, home_vars
<1>12. CASE WorkerRestart
  <2>1. /\ stopCall' \in {"none", "request", "closing", "stopped", "stop_unknown", "error"}
                           \cup Outcome
        /\ epoch' \in Nat /\ faults' \in Nat /\ waiting' \in SUBSET Sequence
    BY <1>0, <1>12 DEF WorkerRestart, WorkerReboot, TypeOK
  <2> QED
    BY <1>12, <2>1 DEF WorkerRestart, TypeInv, TypeOK, home_vars
<1>13. ASSUME NEW a \in acks, TornAck(a) PROVE TypeInv'
  <2>1. /\ relay' \in [Sequence -> Item]
        /\ attachment' \in {"ready", "stopping", "stopped", "stop_unknown"} \cup Outcome
    BY <1>0, <1>13, AppliedTyped DEF TornAck, TypeOK
  <2>2. receipts' \in [Sequence -> ReceiptRow]
    BY <1>0, <1>13, ReceiptTyped DEF TornAck
  <2>3. /\ acks' \in SUBSET AckRequest /\ sync' \in SyncState
        /\ sync'.cursor = sync.cursor
        /\ sync'.phase \in {"ack", "acked"} => sync.phase \in {"ack", "acked"}
    BY <1>13, AnswerTyped DEF TornAck
  <2>4. /\ stopCall' \in {"none", "request", "closing", "stopped", "stop_unknown", "error"}
                           \cup Outcome
        /\ epoch' \in Nat /\ faults' \in Nat /\ waiting' \in SUBSET Sequence
    BY <1>0, <1>13 DEF TornAck, WorkerReboot, TypeOK
  <2> QED
    BY <1>13, <2>1, <2>2, <2>3, <2>4 DEF TornAck, TypeInv, TypeOK, home_vars
<1>14. CASE HomeRestart
  <2>1. /\ sync' \in SyncState /\ sync'.cursor = 0 /\ sync'.phase = "idle"
        /\ checkpoint' \in Point /\ stopWait' \in BOOLEAN
    BY <1>14, IdleTyped DEF HomeRestart, NoPoint, Point, Idle
  <2>2. /\ stopCall' \in {"none", "request", "closing", "stopped", "stop_unknown", "error"}
                           \cup Outcome
        /\ faults' \in Nat
    BY <1>0, <1>14 DEF HomeRestart, TypeOK
  <2> QED
    BY <1>14, <2>1, <2>2 DEF HomeRestart, TypeInv, TypeOK, worker_vars
<1>15. CASE BeginStop
  <2>1. home' \in HomeRow
    BY <1>0, <1>15 DEF BeginStop, TypeOK, HomeRow, TaskStatus
  <2> QED
    BY <1>15, <2>1 DEF BeginStop, TypeInv, TypeOK, worker_vars
<1>16. CASE ServeStop \/ CloseReturns
  <2>1. /\ attachment' \in {"ready", "stopping", "stopped", "stop_unknown"} \cup Outcome
        /\ stopCall' \in {"none", "request", "closing", "stopped", "stop_unknown", "error"}
                           \cup Outcome
    BY <1>0, <1>16 DEF ServeStop, CloseReturns, StopReply, TypeOK, Outcome
  <2> QED
    BY <1>16, <2>1 DEF ServeStop, CloseReturns, TypeInv, TypeOK, home_vars
<1>17. CASE StopReturns \/ StopTimesOut
  <2>1. home' \in HomeRow
    BY <1>0, <1>17 DEF StopReturns, StopTimesOut, Stopped, StopUnknown, TypeOK, HomeRow, TaskStatus
  <2>2. /\ stopCall' \in {"none", "request", "closing", "stopped", "stop_unknown", "error"}
                           \cup Outcome
        /\ faults' \in Nat
    BY <1>0, <1>17 DEF StopReturns, StopTimesOut, TypeOK
  <2> QED
    BY <1>17, <2>1, <2>2 DEF StopReturns, StopTimesOut, TypeInv, TypeOK, worker_vars
<1>18. CASE ShowWorker
  <2>1. home' \in HomeRow /\ acked' \in Point
    <3>1. CASE Stopped /\ UNCHANGED acked
      BY <1>0, <3>1 DEF Stopped, TypeOK, HomeRow
    <3>2. ASSUME NEW e \in 1 .. epoch, acked' = [acked EXCEPT !.epoch = e], UNCHANGED home
          PROVE  home' \in HomeRow /\ acked' \in Point
      BY <1>0, <3>2 DEF TypeOK, Point
    <3> QED
      BY <1>18, <3>1, <3>2 DEF ShowWorker
  <2> QED
    BY <1>18, <2>1 DEF ShowWorker, TypeInv, TypeOK, worker_vars
<1>19. CASE Abandon
  <2>1. home' \in HomeRow
    BY <1>0, <1>19 DEF Abandon, TypeOK, HomeRow, TaskStatus
  <2> QED
    BY <1>19, <2>1 DEF Abandon, TypeInv, TypeOK, worker_vars
<1>20. ASSUME NEW status \in Update, UpdateTask(status) PROVE TypeInv'
  <2>1. home' \in HomeRow
    BY <1>0, <1>20 DEF UpdateTask, TypeOK, HomeRow
  <2> QED
    BY <1>20, <2>1 DEF UpdateTask, TypeInv, TypeOK, worker_vars
<1>21. CASE UNCHANGED vars
  BY <1>21 DEF vars, worker_vars, home_vars, TypeInv, TypeOK
<1> QED
  BY <1>1, <1>2, <1>3, <1>4, <1>5, <1>6, <1>7, <1>8, <1>9, <1>10, <1>11, <1>12, <1>13, <1>14,
     <1>15, <1>16, <1>17, <1>18, <1>19, <1>20, <1>21
  DEF Next, OrderlyNext, WorkerNext, SyncNext, ServeAck, StopNext, CoordinatorNext, FaultNext

\* No step puts a row or the running sync out of its declared shape.
THEOREM TypeCorrect == Spec => []TypeOK
<1>1. Init => TypeInv
  BY InitTyped
<1>2. TypeInv /\ [Next]_vars => TypeInv'
  BY StepTyped
<1>3. TypeInv => TypeOK
  BY DEF TypeInv
<1> QED
  BY <1>1, <1>2, <1>3, PTL DEF Spec

-----------------------------------------------------------------------------
(* Verdicts. *)

Verdicted == {"completed", "failed"}

\* Whatever says how the dispatch ended says what the home says: an
\* acknowledgment on its way, the running sync, what a sender was told, and the
\* settled attachment of the worker server.
VerdictInv ==
  /\ \A a \in acks, s \in Sequence :
       a.verdicts[s] \in Verdicted => home.dispatch = a.verdicts[s]
  /\ \A s \in Sequence :
       sync.verdicts[s] \in Verdicted => home.dispatch = sync.verdicts[s]
  /\ ToldAgreement
  /\ Settles /\ attachment \in Outcome => home.dispatch = Status(attachment)

\* What no step does: reopen a dispatch or a settled attachment, or decide the
\* dispatch and settle the attachment at once.
Settled ==
  /\ protocol' = protocol
  /\ home.dispatch # "dispatched" => home'.dispatch = home.dispatch
  /\ home'.dispatch = home.dispatch \/ attachment' = attachment
  /\ attachment \in Outcome => attachment' \in Outcome

\* A step that leaves the dispatch alone, or one that leaves the attachment alone.
LEMMA WorkerSide ==
  ASSUME UNCHANGED <<protocol, home>>, attachment \in Outcome => attachment' \in Outcome
  PROVE  Settled
BY DEF Settled

LEMMA HomeSide ==
  ASSUME UNCHANGED <<protocol, attachment>>,
         home.dispatch # "dispatched" => home'.dispatch = home.dispatch
  PROVE  Settled
BY DEF Settled

LEMMA StepSettled == TypeOK /\ [Next]_vars => Settled
<1> SUFFICES ASSUME TypeOK, [Next]_vars PROVE Settled
  OBVIOUS
<1>1. ASSUME NEW item \in Sendable, Enqueue(item) PROVE Settled
  <2>1. attachment \notin Outcome
    BY <1>1 DEF Enqueue, Outcome
  <2> QED
    BY <1>1, <2>1, WorkerSide DEF Enqueue, home_vars
<1>2. ASSUME NEW s \in Sequence, GiveUpWaiting(s) PROVE Settled
  BY <1>2, WorkerSide DEF GiveUpWaiting, home_vars
<1>3. CASE BeginSync \/ SyncReported \/ ServePull \/ ImportFails \/ SendAck \/ SkipAck
           \/ AckReturns \/ AckRefused \/ SyncTimesOut \/ WorkerRestart \/ HomeRestart
  BY <1>3, WorkerSide DEF BeginSync, SyncReported, Sync, ServePull, ImportFails, SendAck,
    SkipAck, AckReturns, AckRefused, SyncTimesOut, WorkerRestart, HomeRestart, worker_vars,
    home_vars
<1>4. ASSUME NEW s \in Sequence, ImportItem(s) PROVE Settled
  <2>1. home.dispatch # "dispatched" => home' = home
    BY <1>4 DEF ImportItem, Settleable
  <2> QED
    BY <1>4, <2>1, HomeSide DEF ImportItem, worker_vars
<1>5. ASSUME NEW a \in acks, ApplyAck(a) PROVE attachment \in Outcome => attachment' \in Outcome
  BY <1>5 DEF ApplyAck, Outcome
<1>6. ASSUME NEW a \in acks, ServeAck(a) PROVE Settled
  BY <1>5, <1>6, WorkerSide DEF ServeAck, ExecuteAck, ReplayAck, RefuseAck, worker_vars, home_vars
<1>7. ASSUME NEW a \in acks, TornAck(a) PROVE Settled
  BY <1>5, <1>7, WorkerSide DEF TornAck, home_vars
<1>8. CASE ServeStop \/ CloseReturns
  BY <1>8, WorkerSide DEF ServeStop, CloseReturns, home_vars, Outcome
<1>9. CASE BeginStop \/ StopReturns \/ StopTimesOut \/ ShowWorker \/ Abandon
  <2>1. home.dispatch # "dispatched" => home'.dispatch = home.dispatch
    <3>1. Stopped \/ StopUnknown => (home.dispatch # "dispatched" => home'.dispatch = home.dispatch)
      <4>1. CASE Stopped
        BY <4>1 DEF Stopped, TypeOK, HomeRow
      <4>2. CASE StopUnknown
        BY <4>2 DEF StopUnknown, TypeOK, HomeRow
      <4> QED
        BY <4>1, <4>2
    <3>2. CASE BeginStop
      BY <3>2 DEF BeginStop, TypeOK, HomeRow
    <3>5. CASE Abandon
      BY <3>5 DEF Abandon
    <3>3. CASE StopReturns
      BY <3>1, <3>3 DEF StopReturns, TypeOK, HomeRow
    <3>4. CASE StopTimesOut \/ ShowWorker
      BY <3>1, <3>4 DEF StopTimesOut, ShowWorker
    <3> QED
      BY <1>9, <3>2, <3>3, <3>4, <3>5
  <2> QED
    BY <1>9, <2>1, HomeSide DEF BeginStop, StopReturns, StopTimesOut, ShowWorker, Abandon,
      worker_vars
<1>10. ASSUME NEW status \in Update, UpdateTask(status) PROVE Settled
  <2>1. home.dispatch # "dispatched" => home'.dispatch = home.dispatch
    BY <1>10 DEF UpdateTask, TypeOK, HomeRow
  <2> QED
    BY <1>10, <2>1, HomeSide DEF UpdateTask, worker_vars
<1>11. CASE UNCHANGED vars
  BY <1>11, WorkerSide DEF vars, worker_vars, home_vars
<1> QED
  BY <1>1, <1>2, <1>3, <1>4, <1>6, <1>7, <1>8, <1>9, <1>10, <1>11
  DEF Next, OrderlyNext, WorkerNext, SyncNext, StopNext, CoordinatorNext, FaultNext

\* A step that brings no verdict anywhere keeps those there are.
LEMMA VerdictKept ==
  ASSUME VerdictInv, Settled,
         acks' \subseteq acks, told' = told,
         sync'.verdicts = sync.verdicts \/ sync'.verdicts = NoVerdicts,
         attachment' = attachment \/ attachment' \notin Outcome \/ protocol # 3
  PROVE  VerdictInv'
<1>1. \A x \in Verdicted : home.dispatch = x => home'.dispatch = x
  BY DEF Settled, Verdicted
<1>2. \A a \in acks', s \in Sequence :
        a.verdicts[s] \in Verdicted => home'.dispatch = a.verdicts[s]
  BY <1>1 DEF VerdictInv
<1>3. \A s \in Sequence : sync'.verdicts[s] \in Verdicted => home'.dispatch = sync'.verdicts[s]
  BY <1>1 DEF VerdictInv, NoVerdicts, Verdicted
<1>4. ToldAgreement'
  BY <1>1 DEF VerdictInv, ToldAgreement, Verdicted
<1>5. Settles' /\ attachment' \in Outcome => home'.dispatch = Status(attachment')
  <2>1. \A x : Status(x) \in Verdicted
    BY DEF Status, Verdicted
  <2> QED
    BY <1>1, <2>1 DEF VerdictInv, Settled, Settles
<1> QED
  BY <1>2, <1>3, <1>4, <1>5 DEF VerdictInv

\* The running sync holds a verdict of the home, or none, once it starts anew.
LEMMA FreshVerdicts ==
  ASSUME NEW pages, NEW point, Pull(pages) \/ EndSync(point) \/ sync' = Idle
  PROVE  sync'.verdicts = NoVerdicts
<1>1. CASE Pull(pages)
  BY <1>1, IdleTyped DEF Pull, Idle, SyncState
<1>2. CASE sync' = Idle \/ EndSync(point)
  BY <1>2 DEF EndSync, Idle
<1> QED
  BY <1>1, <1>2

\* An acknowledgment settles the attachment as the home settled the dispatch.
LEMMA AppliedVerdict ==
  ASSUME TypeOK, VerdictInv, NEW a \in acks, AckValid(a), ApplyAck(a),
         Settles, attachment' \in Outcome
  PROVE  home.dispatch = Status(attachment')
<1>1. \A x \in Terminal(a) : x \in Verdicted /\ home.dispatch = x
  BY DEF Terminal, Judged, VerdictInv, TypeOK, AckRequest, Verdicts, Action, Verdicted
<1>2. CASE "completed" \in Terminal(a)
  BY <1>1, <1>2 DEF ApplyAck, Status
<1>3. CASE "completed" \notin Terminal(a) /\ "failed" \in Terminal(a)
  BY <1>1, <1>3 DEF ApplyAck, Status
<1>4. CASE "completed" \notin Terminal(a) /\ "failed" \notin Terminal(a)
  BY <1>4 DEF ApplyAck, VerdictInv
<1> QED
  BY <1>2, <1>3, <1>4

LEMMA AnswerVerdicts ==
  ASSUME TypeOK, NEW a \in acks, NEW phase, Answer(a, phase)
  PROVE  acks' \subseteq acks /\ sync'.verdicts = sync.verdicts
BY DEF Answer, TypeOK, SyncState

LEMMA StepVerdicts == TypeInv /\ VerdictInv /\ [Next]_vars => VerdictInv'
<1> SUFFICES ASSUME TypeInv, VerdictInv, [Next]_vars PROVE VerdictInv'
  OBVIOUS
<1>0. TypeOK /\ Settled
  BY StepSettled DEF TypeInv
<1>1. ASSUME NEW item \in Sendable, Enqueue(item) PROVE VerdictInv'
  <2>1. attachment' = attachment \/ protocol # 3
    BY <1>1 DEF Enqueue, Reported, Settles
  <2> QED
    BY <1>0, <1>1, <2>1, VerdictKept DEF Enqueue
<1>2. ASSUME NEW s \in Sequence, GiveUpWaiting(s) PROVE VerdictInv'
  BY <1>0, <1>2, VerdictKept DEF GiveUpWaiting
<1>3. CASE BeginSync \/ SyncReported \/ ImportFails \/ SkipAck \/ AckReturns \/ AckRefused
           \/ SyncTimesOut \/ HomeRestart
  <2>1. /\ acks' = acks /\ told' = told /\ attachment' = attachment
    BY <1>3 DEF BeginSync, SyncReported, Sync, ImportFails, SkipAck, AckReturns, AckRefused,
      SyncTimesOut, HomeRestart, worker_vars
  <2>2. sync'.verdicts = NoVerdicts
    BY <1>3, FreshVerdicts DEF BeginSync, SyncReported, Sync, ImportFails, SkipAck, AckReturns,
      AckRefused, SyncTimesOut, HomeRestart, NextPage
  <2> QED
    BY <1>0, <2>1, <2>2, VerdictKept
<1>4. CASE ServePull
  <2>1. sync'.verdicts = sync.verdicts
    BY <1>0, <1>4 DEF ServePull, TypeOK, SyncState
  <2> QED
    BY <1>0, <1>4, <2>1, VerdictKept DEF ServePull, worker_vars
<1>5. ASSUME NEW s \in Sequence, ImportItem(s) PROVE VerdictInv'
  <2> DEFINE item == sync.items[s]
             verdict == IF item.kind = "worker_done" /\ Settles THEN VerdictOn(item) ELSE "none"
  <2>1. sync'.verdicts = [sync.verdicts EXCEPT ![s] = verdict]
    BY <1>0, <1>5 DEF ImportItem, TypeOK, SyncState
  <2>2. verdict \in Verdicted => home'.dispatch = verdict
    <3>1. CASE item.kind = "worker_done" /\ Settleable(item)
      <4>1. home' = [task |-> Status(item.outcome), dispatch |-> Status(item.outcome),
                     worker |-> IF home.worker = "ready" THEN item.outcome ELSE home.worker]
        BY <1>5, <3>1 DEF ImportItem
      <4>2. home'.dispatch = Status(item.outcome)
        BY <4>1
      <4>3. VerdictOn(item) = Status(item.outcome)
        BY <3>1 DEF VerdictOn
      <4>4. verdict = "none" \/ verdict = VerdictOn(item)
        OBVIOUS
      <4> QED
        BY <4>2, <4>3, <4>4 DEF Verdicted
    <3>2. CASE ~(item.kind = "worker_done" /\ Settleable(item))
      <4>1. home' = home
        BY <1>5, <3>2 DEF ImportItem
      <4> QED
        BY <3>2, <4>1 DEF VerdictOn, Verdicted
    <3> QED
      BY <3>1, <3>2
  <2>3. \A x \in Verdicted : home.dispatch = x => home'.dispatch = x
    BY <1>0 DEF Settled, Verdicted
  <2>4. \A r \in Sequence : sync'.verdicts[r] \in Verdicted => home'.dispatch = sync'.verdicts[r]
    <3>1. sync.verdicts \in [Sequence -> Action]
      BY <1>0 DEF TypeOK, SyncState, Verdicts
    <3> HIDE DEF verdict
    <3> QED
      BY <2>1, <2>2, <2>3, <3>1 DEF VerdictInv
  <2>5. UNCHANGED <<acks, told, attachment, protocol>>
    BY <1>5 DEF ImportItem, worker_vars
  <2>6. Settles' /\ attachment' \in Outcome => home'.dispatch = Status(attachment')
    BY <2>3, <2>5 DEF VerdictInv, Settles, Status, Verdicted
  <2> QED
    BY <2>3, <2>4, <2>5, <2>6 DEF VerdictInv, ToldAgreement, Verdicted
<1>6. CASE SendAck
  <2>1. sync'.verdicts = sync.verdicts
    BY <1>0, <1>6 DEF SendAck, TypeOK, SyncState
  <2>2. UNCHANGED <<home, told, attachment, protocol>>
    BY <1>6 DEF SendAck, worker_vars, home_vars
  <2>3. \A a \in acks', s \in Sequence :
          a.verdicts[s] \in Verdicted => home'.dispatch = a.verdicts[s]
    BY <1>6, <2>2 DEF SendAck, VerdictInv
  <2> QED
    BY <2>1, <2>2, <2>3 DEF VerdictInv, ToldAgreement, Settles
<1>7. ASSUME NEW a \in acks, AckValid(a), ApplyAck(a), UNCHANGED <<protocol, home>>,
             NEW phase, Answer(a, phase), ToldAgreement'
      PROVE  VerdictInv'
  <2>1. acks' \subseteq acks /\ sync'.verdicts = sync.verdicts
    BY <1>0, <1>7, AnswerVerdicts
  <2>2. Settles' /\ attachment' \in Outcome => home'.dispatch = Status(attachment')
    BY <1>0, <1>7, AppliedVerdict DEF Settles
  <2> QED
    BY <1>7, <2>1, <2>2 DEF VerdictInv
<1>8. ASSUME NEW a \in acks, ExecuteAck(a) PROVE VerdictInv'
  <2>1. ToldAgreement'
    BY <1>0, <1>8 DEF ExecuteAck, home_vars, ToldAgreement, VerdictInv, Verdicted
  <2> QED
    BY <1>7, <1>8, <2>1 DEF ExecuteAck, home_vars
<1>9. ASSUME NEW a \in acks, ReplayAck(a) \/ RefuseAck(a) PROVE VerdictInv'
  <2>1. acks' \subseteq acks /\ sync'.verdicts = sync.verdicts
    BY <1>0, <1>9, AnswerVerdicts DEF ReplayAck, RefuseAck
  <2> QED
    BY <1>0, <1>9, <2>1, VerdictKept DEF ReplayAck, RefuseAck, worker_vars
<1>10. ASSUME NEW a \in acks, TornAck(a) PROVE VerdictInv'
  <2>1. CASE UNCHANGED <<relay, attachment>>
    <3>1. acks' \subseteq acks /\ sync'.verdicts = sync.verdicts
      BY <1>0, <1>10, AnswerVerdicts DEF TornAck
    <3> QED
      BY <1>0, <1>10, <2>1, <3>1, VerdictKept DEF TornAck
  <2>2. CASE AckValid(a) /\ ApplyAck(a)
    <3>1. ToldAgreement'
      BY <1>10 DEF TornAck, home_vars, ToldAgreement, VerdictInv
    <3> QED
      BY <1>7, <1>10, <2>2, <3>1 DEF TornAck, home_vars
  <2> QED
    BY <1>10, <2>1, <2>2 DEF TornAck
<1>11. CASE ServeStop \/ CloseReturns
  <2>1. attachment' = attachment \/ attachment' \notin Outcome
    BY <1>11 DEF ServeStop, CloseReturns, Outcome
  <2> QED
    BY <1>0, <1>11, <2>1, VerdictKept DEF ServeStop, CloseReturns
<1>12. CASE WorkerRestart \/ BeginStop \/ StopReturns \/ StopTimesOut \/ ShowWorker \/ Abandon
            \/ UNCHANGED vars
  <2>1. acks' = acks /\ told' = told /\ attachment' = attachment /\ sync' = sync
    BY <1>12 DEF WorkerRestart, BeginStop, StopReturns, StopTimesOut, ShowWorker, Abandon, vars,
      worker_vars
  <2> QED
    BY <1>0, <2>1, VerdictKept
<1>13. ASSUME NEW status \in Update, UpdateTask(status) PROVE VerdictInv'
  BY <1>0, <1>13, VerdictKept DEF UpdateTask, worker_vars
<1> QED
  BY <1>1, <1>2, <1>3, <1>4, <1>5, <1>6, <1>8, <1>9, <1>10, <1>11, <1>12, <1>13
  DEF Next, OrderlyNext, WorkerNext, SyncNext, ServeAck, StopNext, CoordinatorNext, FaultNext

LEMMA InitVerdicts == Init => VerdictInv
BY DEF Init, VerdictInv, ToldAgreement, Idle, NoVerdicts, Verdicted, Outcome

LEMMA VerdictCorrect == Spec => [](TypeInv /\ VerdictInv)
<1>1. Init => TypeInv /\ VerdictInv
  BY InitTyped, InitVerdicts
<1>2. TypeInv /\ VerdictInv /\ [Next]_vars => (TypeInv /\ VerdictInv)'
  BY StepTyped, StepVerdicts
<1> QED
  BY <1>1, <1>2, PTL DEF Spec

\* A sender is told "completed" or "failed" only if the dispatch ended so.
THEOREM ToldTheVerdict == Spec => []ToldAgreement
<1>1. VerdictInv => ToldAgreement
  BY DEF VerdictInv
<1> QED
  BY <1>1, VerdictCorrect, PTL

-----------------------------------------------------------------------------
(* The relay implements the abstract verdict. *)

\* A step decides the dispatch, or lets the worker server learn of it, or does
\* nothing of the kind.
LEMMA StepRefines ==
  ASSUME TypeInv, VerdictInv, VerdictInv', [Next]_vars
  PROVE  [Verdict!Next]_(Verdict!vars)
<1> DEFINE verdict == IF home.dispatch = "dispatched" THEN "open" ELSE home.dispatch
           known == IF Settles /\ attachment \in Outcome THEN Status(attachment) ELSE "open"
<1>1. Settled /\ TypeOK
  BY StepSettled DEF TypeInv
<1>2. home.dispatch \in {"dispatched", "completed", "failed"}
  BY <1>1 DEF TypeOK, HomeRow
<1>3. home'.dispatch \in {"dispatched", "completed", "failed"}
  BY StepTyped DEF TypeInv, TypeOK, HomeRow
<1>4. CASE home'.dispatch # home.dispatch
  <2>1. verdict = "open" /\ verdict' \in {"completed", "failed"} /\ known' = known
    BY <1>1, <1>2, <1>3, <1>4 DEF Settled, Settles
  <2> QED
    BY <2>1 DEF Verdict!Next, Verdict!Decide
<1>5. CASE home'.dispatch = home.dispatch
  <2>1. verdict' = verdict
    BY <1>5
  <2>2. CASE Settles /\ attachment \in Outcome
    <3>1. attachment' \in Outcome /\ Settles'
      BY <1>1, <2>2 DEF Settled, Settles
    <3>2. known' = known
      BY <1>5, <2>2, <3>1 DEF VerdictInv
    <3> QED
      BY <2>1, <3>2 DEF Verdict!vars
  <2>3. CASE ~(Settles /\ attachment \in Outcome) /\ Settles' /\ attachment' \in Outcome
    <3>1. known = "open" /\ known' = home'.dispatch
      BY <2>3 DEF VerdictInv
    <3>2. home'.dispatch \in {"completed", "failed"}
      BY <2>3 DEF VerdictInv, Status
    <3> QED
      BY <1>5, <2>1, <3>1, <3>2 DEF Verdict!Next, Verdict!Learn
  <2>4. CASE ~(Settles /\ attachment \in Outcome) /\ ~(Settles' /\ attachment' \in Outcome)
    <3>1. known' = known
      BY <2>4
    <3> QED
      BY <2>1, <3>1 DEF Verdict!vars
  <2> QED
    BY <2>2, <2>3, <2>4
<1> QED
  BY <1>4, <1>5

\* The worker server settles its attachment only as the home settled the
\* dispatch, and neither is undone.
THEOREM RelayImplementsVerdict == Spec => ImplementsVerdict
<1>1. Init => Verdict!Init
  BY DEF Init, Verdict!Init, Outcome
<1>2. TypeInv /\ VerdictInv /\ VerdictInv' /\ [Next]_vars => [Verdict!Next]_(Verdict!vars)
  BY StepRefines
<1> QED
  BY <1>1, <1>2, VerdictCorrect, PTL DEF Spec, ImplementsVerdict, Verdict!Spec

=============================================================================
