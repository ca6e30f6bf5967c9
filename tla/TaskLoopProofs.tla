--------------------------- MODULE TaskLoopProofs ---------------------------
(***************************************************************************)
(* Proofs about coordinators that keep to one way of working (the          *)
(* supervised loop never runs two attempts of a task, dispatch never gives *)
(* a terminal two attempts), and about the way tasks go on: what can keep  *)
(* a child from being offered, that a start or a stop is never forgotten,  *)
(* and what can undo reported work.                                        *)
(***************************************************************************)
EXTENDS TaskDispatchProofs

-----------------------------------------------------------------------------
(* The supervised loop. *)

Offered == {"absent", "pending", "ready"}

\* OneActiveAttempt, made inductive: besides "ready", a running task is not in
\* the states a report or a creation can turn into "ready".
TaskInv ==
  \A d \in DispatchId :
    Active(d) => Latest(d) /\ task[dispatch[d].task].status \notin Offered

\* No attempt is opened or moved to another task.
NoneOpened ==
  \A e \in DispatchId :
    /\ dispatch'[e].task = dispatch[e].task
    /\ dispatch'[e].status \in ActiveStatus => dispatch[e].status \in ActiveStatus

\* A task on offer was on offer, or nothing runs for it any more.
OfferIsFree ==
  \A t \in Task :
    task'[t].status \in Offered =>
      \/ task[t].status \in Offered
      \/ \A e \in DispatchId : dispatch[e].task = t => dispatch'[e].status \notin ActiveStatus

\* Writing a status changes that task and no other.
LEMMA WithStatusAt ==
  ASSUME task \in [Task -> TaskRow], NEW t \in Task, NEW status
  PROVE  /\ WithStatus(t, status)[t].status = status
         /\ \A u \in Task \ {t} : WithStatus(t, status)[u] = task[u]
BY DEF WithStatus, TaskRow

\* A step that opens nothing and offers no running task keeps TaskInv.
LEMMA TaskInvKept ==
  ASSUME TypeOK, AttemptInv, TaskInv, NoneOpened, OfferIsFree
  PROVE  TaskInv'
<1> SUFFICES ASSUME NEW d \in DispatchId, dispatch'[d].status \in ActiveStatus
             PROVE  /\ \A e \in DispatchId : dispatch'[e].task = dispatch'[d].task => e <= d
                    /\ task'[dispatch'[d].task].status \notin Offered
  BY DEF TaskInv, Active, Latest
<1>1. Active(d) /\ dispatch'[d].task = dispatch[d].task
  BY DEF NoneOpened, Active
<1>2. Latest(d) /\ task[dispatch[d].task].status \notin Offered
  BY <1>1 DEF TaskInv
<1>3. dispatch[d].task \in Task
  BY <1>1 DEF AttemptInv, RowInv, Active, ActiveStatus
<1>4. \A e \in DispatchId : dispatch'[e].task = dispatch'[d].task => e <= d
  BY <1>1, <1>2 DEF Latest, NoneOpened
<1>5. task'[dispatch[d].task].status \notin Offered
  BY <1>2, <1>3 DEF OfferIsFree
<1> QED
  BY <1>1, <1>4, <1>5

\* Two attempts of a task are not both active.
LEMMA OnlyOneActive ==
  ASSUME TaskInv, NEW d \in DispatchId, NEW e \in DispatchId,
         Active(d), Active(e), dispatch[d].task = dispatch[e].task
  PROVE  d = e
BY DEF TaskInv, Latest, DispatchId

\* Failing an active attempt puts its task on offer with nothing running for it.
LEMMA FailingFrees ==
  ASSUME TypeOK, AttemptInv, TaskInv, NEW d \in DispatchId, Active(d),
         NEW next \in DispatchRow,
         dispatch' = [dispatch EXCEPT ![d] = next],
         next.status \in ClosedStatus,
         next.task = dispatch[d].task,
         task' \in [Task -> TaskRow],
         \A t \in Task \ {dispatch[d].task} : task'[t] = task[t]
  PROVE  NoneOpened /\ OfferIsFree
<1>1. dispatch'[d] = next /\ \A e \in DispatchId \ {d} : dispatch'[e] = dispatch[e]
  BY DEF TypeOK
<1>2. next.status \notin ActiveStatus
  BY DEF ActiveStatus, ClosedStatus
<1>3. NoneOpened
  BY <1>1, <1>2 DEF NoneOpened
<1>4. ASSUME NEW e \in DispatchId, dispatch[e].task = dispatch[d].task
      PROVE  dispatch'[e].status \notin ActiveStatus
  BY <1>1, <1>2, <1>4, OnlyOneActive DEF Active
<1> QED
  BY <1>3, <1>4 DEF OfferIsFree

\* Rewriting one row without opening it opens nothing.
LEMMA QuietRow ==
  ASSUME TypeOK, NEW d \in DispatchId, NEW next,
         dispatch' = [dispatch EXCEPT ![d] = next],
         next.task = dispatch[d].task,
         next.status \in ActiveStatus => dispatch[d].status \in ActiveStatus
  PROVE  NoneOpened
BY DEF NoneOpened, TypeOK

\* Writing a status that is not on offer offers nothing.
LEMMA QuietTask ==
  ASSUME TypeOK, NEW t \in Task, NEW status \in TaskStatus \ Offered,
         task' = task \/ task' = WithStatus(t, status)
  PROVE  OfferIsFree
BY WithStatusAt DEF OfferIsFree, TypeOK

\* Promotion offers only tasks that were pending.
LEMMA PromotionOffers ==
  ASSUME TypeOK, NEW t \in Task, NEW status \in TaskStatus \ Offered,
         task' = Promote(WithStatus(t, status), t)
  PROVE  OfferIsFree
<1> SUFFICES ASSUME NEW u \in Task, task'[u].status \in Offered
             PROVE  task[u].status \in Offered
  BY DEF OfferIsFree
<1> DEFINE table == WithStatus(t, status)
<1>1. table \in [Task -> TaskRow]
  BY WithStatusType DEF TypeOK
<1>2. table[u].status \in Offered
  BY <1>1 DEF Promote, Offered, TaskRow
<1> QED
  BY <1>2, WithStatusAt DEF TypeOK

\* Opening an attempt of a task nothing runs for keeps TaskInv.
LEMMA TaskInvOpen ==
  ASSUME TypeOK, AttemptInv, TaskInv, NoneAssumption, NEW d \in DispatchId, NEW t \in Task,
         NEW next \in DispatchRow,
         Fresh(d), next.task = t,
         dispatch' = [dispatch EXCEPT ![d] = next],
         task' = WithStatus(t, "dispatched"),
         \A e \in DispatchId : dispatch[e].task = t => ~Active(e)
  PROVE  TaskInv'
<1> SUFFICES ASSUME NEW e \in DispatchId, dispatch'[e].status \in ActiveStatus
             PROVE  /\ \A f \in DispatchId : dispatch'[f].task = dispatch'[e].task => f <= e
                    /\ task'[dispatch'[e].task].status \notin Offered
  BY DEF TaskInv, Active, Latest
<1>1. dispatch'[d] = next /\ \A f \in DispatchId \ {d} : dispatch'[f] = dispatch[f]
  BY DEF TypeOK
<1>2. \A f \in DispatchId : f > d => dispatch[f].status = "absent"
  BY DEF Fresh, DispatchId
<1>3. \A f \in DispatchId : f > d => dispatch[f].task = None
  BY <1>2 DEF AttemptInv, RowInv
<1>4. None \notin Task
  BY NoneAssumption
<1>5. CASE e = d
  <2>1. \A f \in DispatchId : dispatch'[f].task = t => f <= d
    BY <1>1, <1>3, <1>4 DEF DispatchId
  <2>2. task'[t].status = "dispatched"
    BY WithStatusAt DEF TypeOK
  <2> QED
    BY <1>1, <1>5, <2>1, <2>2 DEF Offered
<1>6. CASE e # d
  <2>1. Active(e) /\ dispatch'[e].task = dispatch[e].task
    BY <1>1, <1>6 DEF Active
  <2>2. dispatch[e].task \in Task \ {t}
    BY <2>1 DEF AttemptInv, RowInv, Active, ActiveStatus
  <2>3. \A f \in DispatchId : dispatch'[f].task = dispatch[e].task => f <= e
    BY <1>1, <2>1, <2>2 DEF TaskInv, Latest
  <2>4. task'[dispatch[e].task] = task[dispatch[e].task]
    BY <2>2, WithStatusAt DEF TypeOK
  <2> QED
    BY <2>1, <2>3, <2>4 DEF TaskInv
<1> QED
  BY <1>5, <1>6

\* Failing the row keeps TaskInv whether or not the task's row is written too.
LEMMA FailedKeeps ==
  ASSUME TypeOK, AttemptInv, TaskInv, NEW d \in DispatchId,
         dispatch' = [dispatch EXCEPT ![d] = Failed(dispatch[d])],
         UNCHANGED task \/ (Active(d) /\ FailDispatch(d))
  PROVE  TaskInv'
<1>1. dispatch[d] \in DispatchRow
  BY DEF TypeOK
<1>2. /\ Failed(dispatch[d]) \in DispatchRow
      /\ Failed(dispatch[d]).status \in ClosedStatus
      /\ Failed(dispatch[d]).task = dispatch[d].task
      /\ AfterFailure(dispatch[d]) \in TaskStatus
  BY <1>1, FailedRow DEF TaskStatus
<1>3. CASE UNCHANGED task
  <2>1. NoneOpened
    BY <1>2, QuietRow DEF ActiveStatus, ClosedStatus
  <2> QED
    BY <1>3, <2>1, TaskInvKept DEF OfferIsFree
<1>4. CASE Active(d) /\ FailDispatch(d)
  <2>1. dispatch[d].task \in Task
    BY <1>4 DEF AttemptInv, RowInv, Active, ActiveStatus
  <2>2. /\ task' \in [Task -> TaskRow]
        /\ \A t \in Task \ {dispatch[d].task} : task'[t] = task[t]
    BY <1>2, <1>4, <2>1, WithStatusAt, WithStatusType DEF FailDispatch, TypeOK
  <2>3. NoneOpened /\ OfferIsFree
    BY <1>2, <1>4, <2>2, FailingFrees
  <2> QED
    BY <2>3, TaskInvKept
<1> QED
  BY <1>3, <1>4

\* Rewriting a row without opening it, and writing no status that is on offer.
LEMMA QuietStep ==
  ASSUME TypeOK, AttemptInv, TaskInv, NEW d \in DispatchId, NEW next,
         dispatch' = [dispatch EXCEPT ![d] = next],
         next.task = dispatch[d].task,
         next.status \in ActiveStatus => dispatch[d].status \in ActiveStatus,
         \/ UNCHANGED task
         \/ /\ dispatch[d].status # "absent"
            /\ \E status \in TaskStatus \ Offered : task' = WithStatus(dispatch[d].task, status)
  PROVE  TaskInv'
<1>1. NoneOpened
  BY QuietRow
<1>2. OfferIsFree
  <2>1. CASE UNCHANGED task
    BY <2>1 DEF OfferIsFree
  <2>2. CASE dispatch[d].status # "absent"
             /\ \E status \in TaskStatus \ Offered : task' = WithStatus(dispatch[d].task, status)
    <3>1. dispatch[d].task \in Task
      BY <2>2 DEF AttemptInv, RowInv
    <3> QED
      BY <2>2, <3>1, QuietTask
  <2> QED
    BY <2>1, <2>2
<1> QED
  BY <1>1, <1>2, TaskInvKept

\* A task worker-start accepts has nothing running for it.
LEMMA StartableIsFree ==
  ASSUME TypeOK, AttemptInv, TaskInv, NEW t \in Task, StartWorker(t)
  PROVE  \A e \in DispatchId : dispatch[e].task = t => ~Active(e)
<1>1. CASE task[t].status = "ready"
  BY <1>1 DEF TaskInv, Offered
<1>2. ASSUME NEW p \in DispatchId, dispatch[p].task = t, Latest(p),
             dispatch[p].worker \in {"failed", "stopped", "abandoned"}
      PROVE  \A e \in DispatchId : dispatch[e].task = t => ~Active(e)
  <2>1. ~Active(p)
    BY <1>2 DEF AttemptInv, RowInv, Active, SettledState
  <2>2. ASSUME NEW e \in DispatchId, dispatch[e].task = t, Active(e)
        PROVE  e = p
    BY <1>2, <2>2 DEF TaskInv, Latest, DispatchId
  <2> QED
    BY <2>1, <2>2
<1> QED
  BY <1>1, <1>2 DEF StartWorker

\* TaskInv is inductive for a coordinator that keeps to the supervised loop.
LEMMA TaskInvStep ==
  ASSUME TypeOK, AttemptInv, TaskInv, [SharedNext \/ SupervisedNext]_vars
  PROVE  TaskInv'
<1>1. \A e \in DispatchId : dispatch[e] \in DispatchRow /\ RowInv(dispatch[e], calls[e])
  BY DEF TypeOK, AttemptInv
<1>2. \A status \in {"failed", "blocked", "completed"} : status \in TaskStatus \ Offered
  BY DEF TaskStatus, Offered
<1>3. ASSUME NEW t \in Task, NEW deps \in SUBSET Task, CreateTask(t, deps)
      PROVE  TaskInv'
  <2>1. NoneOpened
    BY <1>3 DEF CreateTask, NoneOpened
  <2>2. OfferIsFree
    BY <1>3 DEF CreateTask, Created, OfferIsFree, Offered, TypeOK
  <2> QED
    BY <2>1, <2>2, TaskInvKept
<1>4. ASSUME NEW d \in DispatchId, NEW outcome \in {"succeeded", "failed"},
             WorkerReport(d, outcome)
      PROVE  TaskInv'
  <2> DEFINE status == IF outcome = "succeeded" THEN "completed" ELSE "failed"
             worker == IF dispatch[d].worker = "ready" THEN outcome ELSE dispatch[d].worker
             row == Settled(dispatch[d], status)
             next == WithWorker(row, worker)
  <2>1. worker \in WorkerState \cup {"none"}
    BY <1>1 DEF DispatchRow, WorkerState, SettledState
  <2>2. row \in DispatchRow /\ row.task = dispatch[d].task /\ row.status = status
    BY <1>1, SettledRow DEF ClosedStatus
  <2>3. next.task = dispatch[d].task /\ next.status = status
    BY <2>1, <2>2, WithWorkerRow
  <2>4. dispatch' = [dispatch EXCEPT ![d] = next]
    BY <1>4 DEF WorkerReport, TypeOK
  <2>5. dispatch[d].task \in Task
    BY <1>1, <1>4 DEF WorkerReport, RowInv
  <2>6. NoneOpened
    BY <2>3, <2>4, QuietRow DEF ActiveStatus
  <2>7. OfferIsFree
    BY <1>2, <1>4, <2>5, QuietTask, PromotionOffers DEF WorkerReport
  <2> QED
    BY <2>6, <2>7, TaskInvKept
<1>5. ASSUME NEW h \in Handle, TerminalExit(h)
      PROVE  TaskInv'
  BY <1>5, FailedKeeps DEF TerminalExit, FailDispatch
<1>6. ASSUME NEW d \in DispatchId, FailDispatchTorn(d)
      PROVE  TaskInv'
  BY <1>6, FailedKeeps DEF FailDispatchTorn
<1>7. ASSUME UNCHANGED <<task, dispatch>>
      PROVE  TaskInv'
  BY <1>7 DEF TaskInv, Active, Latest
<1>8. ASSUME NEW t \in Task, StartWorker(t)
      PROVE  TaskInv'
  <2> DEFINE next == [task |-> t, status |-> "pending", assignee |-> None, failures |-> 0,
                      capability |-> "none", worker |-> "starting"]
  <2>1. PICK d \in DispatchId : Fresh(d) /\ dispatch' = [dispatch EXCEPT ![d] = next]
    BY <1>8 DEF StartWorker
  <2>2. next \in DispatchRow /\ next.task = t
    BY DEF DispatchRow, ActiveStatus, WorkerState
  <2>3. task' = WithStatus(t, "dispatched")
    BY <1>8 DEF StartWorker
  <2> QED
    BY <1>8, <2>1, <2>2, <2>3, StartableIsFree, TaskInvOpen, NoneAssumption
<1>9. ASSUME NEW d \in DispatchId, NEW h \in Handle, PrepareWorker(d, h)
      PROVE  TaskInv'
  <2> DEFINE next == [dispatch[d] EXCEPT !.assignee = h, !.capability = "live"]
  <2>1. next.task = dispatch[d].task /\ next.status = dispatch[d].status
    BY <1>1 DEF DispatchRow
  <2>2. dispatch' = [dispatch EXCEPT ![d] = next]
    BY <1>9 DEF PrepareWorker, TypeOK
  <2> QED
    BY <1>9, <2>1, <2>2, QuietStep DEF PrepareWorker
<1>10. ASSUME NEW d \in DispatchId, WorkerReady(d)
       PROVE  TaskInv'
  <2> DEFINE next == [dispatch[d] EXCEPT !.status = "dispatched", !.worker = "ready"]
  <2>1. next.task = dispatch[d].task /\ dispatch[d].status \in ActiveStatus
    BY <1>1, <1>10 DEF DispatchRow, WorkerReady, ActiveStatus
  <2>2. dispatch' = [dispatch EXCEPT ![d] = next]
    BY <1>10 DEF WorkerReady, TypeOK
  <2> QED
    BY <1>10, <2>1, <2>2, QuietStep DEF WorkerReady
<1>11. ASSUME NEW d \in DispatchId, FailStart(d)
       PROVE  TaskInv'
  <2>1. CASE dispatch[d].worker = "starting"
    <3> DEFINE row == Settled(dispatch[d], "failed")
               next == WithWorker(row, "failed")
    <3>1. row \in DispatchRow /\ row.task = dispatch[d].task /\ row.status = "failed"
      BY <1>1, SettledRow DEF ClosedStatus
    <3>2. next.task = dispatch[d].task /\ next.status = "failed"
      BY <3>1, WithWorkerRow DEF WorkerState, SettledState
    <3>3. dispatch' = [dispatch EXCEPT ![d] = next]
      BY <1>11, <2>1 DEF FailStart, TypeOK
    <3>4. dispatch[d].status # "absent"
      BY <1>1, <2>1 DEF RowInv
    <3> QED
      BY <1>2, <1>11, <2>1, <3>2, <3>3, <3>4, QuietStep DEF FailStart, ActiveStatus
  <2>2. CASE dispatch[d].worker # "starting"
    BY <1>7, <1>11, <2>2 DEF FailStart
  <2> QED
    BY <2>1, <2>2
<1>12. ASSUME NEW d \in DispatchId, MarkStartUnknown(d)
       PROVE  TaskInv'
  <2> DEFINE next == [dispatch[d] EXCEPT !.worker = "start_unknown", !.capability = "revoked"]
  <2>1. next.task = dispatch[d].task /\ next.status = dispatch[d].status
    BY <1>1 DEF DispatchRow
  <2>2. dispatch' = [dispatch EXCEPT ![d] = next]
    BY <1>12 DEF MarkStartUnknown, TypeOK
  <2>3. dispatch[d].status # "absent"
    BY <1>1, <1>12 DEF MarkStartUnknown, RowInv
  <2> QED
    BY <1>2, <1>12, <2>1, <2>2, <2>3, QuietStep DEF MarkStartUnknown
<1>13. ASSUME NEW d \in DispatchId, BeginStop(d)
       PROVE  TaskInv'
  <2> DEFINE next == [dispatch[d] EXCEPT !.worker = "stopping", !.capability = "revoked"]
  <2>1. next.task = dispatch[d].task /\ next.status = dispatch[d].status
    BY <1>1 DEF DispatchRow
  <2>2. dispatch' = [dispatch EXCEPT ![d] = next]
    BY <1>13 DEF BeginStop, TypeOK
  <2>3. dispatch[d].status # "absent"
    BY <1>1, <1>13 DEF BeginStop, RowInv
  <2> QED
    BY <1>2, <1>13, <2>1, <2>2, <2>3, QuietStep DEF BeginStop
<1>14. ASSUME NEW d \in DispatchId, SettleStop(d)
       PROVE  TaskInv'
  <2> DEFINE next == [dispatch[d] EXCEPT
                        !.worker = "stopped",
                        !.status = IF @ \in ActiveStatus THEN "failed" ELSE @]
  <2>1. next.task = dispatch[d].task /\ next.status \notin ActiveStatus
    BY <1>1 DEF DispatchRow, ActiveStatus
  <2>2. dispatch' = [dispatch EXCEPT ![d] = next]
    BY <1>14 DEF SettleStop, TypeOK
  <2>3. UNCHANGED task
    BY <1>14 DEF SettleStop
  <2> HIDE DEF next
  <2> QED
    BY <2>1, <2>2, <2>3, QuietStep
<1>15. ASSUME NEW d \in DispatchId, MarkStopUnknown(d), UNCHANGED task
       PROVE  TaskInv'
  <2> DEFINE worker == IF dispatch[d].worker = "stopping" THEN "stop_unknown"
                       ELSE dispatch[d].worker
             next == WithWorker(dispatch[d], worker)
  <2>1. worker \in WorkerState \cup {"none"}
    BY <1>1 DEF DispatchRow, WorkerState
  <2>2. next.task = dispatch[d].task /\ next.status = dispatch[d].status
    BY <1>1, <2>1, WithWorkerRow
  <2>3. dispatch' = [dispatch EXCEPT ![d] = next]
    BY <1>15 DEF MarkStopUnknown, TypeOK
  <2> QED
    BY <1>15, <2>2, <2>3, QuietStep
<1>16. ASSUME NEW d \in DispatchId, Abandon(d)
       PROVE  TaskInv'
  <2> DEFINE status == IF Active(d) THEN "failed" ELSE dispatch[d].status
             row == Settled(dispatch[d], status)
             next == WithWorker(row, "abandoned")
  <2>1. status \in ActiveStatus \cup ClosedStatus \cup {"absent"} /\ status \notin ActiveStatus
    BY <1>1 DEF DispatchRow, ClosedStatus, ActiveStatus, Active
  <2>2. row \in DispatchRow /\ row.task = dispatch[d].task /\ row.status = status
    BY <1>1, <2>1, SettledRow
  <2>3. next.task = dispatch[d].task /\ next.status = status
    BY <2>2, WithWorkerRow DEF WorkerState, SettledState
  <2>4. dispatch' = [dispatch EXCEPT ![d] = next]
    BY <1>16 DEF Abandon, TypeOK
  <2>5. dispatch[d].status # "absent"
    BY <1>1, <1>16 DEF Abandon, RowInv
  <2> QED
    BY <1>2, <1>16, <2>1, <2>3, <2>4, <2>5, QuietStep DEF Abandon
<1>17. ASSUME NEW d \in DispatchId, ReconcileMissing(d)
       PROVE  TaskInv'
  <2>1. CASE dispatch[d].worker \in SettledState
    BY <1>7, <1>17, <2>1 DEF ReconcileMissing
  <2>2. CASE dispatch[d].worker \notin SettledState
    <3> DEFINE gone == IF dispatch[d].worker \in {"stopping", "stop_unknown"}
                       THEN "stopped" ELSE "abandoned"
               row == IF Active(d) THEN Failed(dispatch[d]) ELSE dispatch[d]
               next == WithWorker(row, gone)
    <3>1. dispatch[d].status # "absent"
      BY <1>1, <1>17 DEF ReconcileMissing, AttemptInv, RowInv
    <3>2. /\ row \in DispatchRow /\ row.status \in ClosedStatus
          /\ row.task = dispatch[d].task
      <4>1. CASE Active(d)
        BY <1>1, <4>1, FailedRow
      <4>2. CASE ~Active(d)
        BY <1>1, <3>1, <4>2 DEF Active, DispatchRow
      <4> QED
        BY <4>1, <4>2
    <3>3. gone \in WorkerState \cup {"none"}
      BY DEF WorkerState, SettledState
    <3>4. /\ next \in DispatchRow /\ next.status \in ClosedStatus
          /\ next.task = dispatch[d].task
      BY <3>2, <3>3, WithWorkerRow
    <3>5. dispatch' = [dispatch EXCEPT ![d] = next]
      BY <1>17, <2>2 DEF ReconcileMissing
    <3>6. dispatch[d].task \in Task /\ AfterFailure(dispatch[d]) \in TaskStatus
      BY <1>1, <3>1, FailedRow DEF RowInv, TaskStatus
    <3>7. CASE Active(d) /\ task' = WithStatus(dispatch[d].task, AfterFailure(dispatch[d]))
      <4>1. /\ task' \in [Task -> TaskRow]
            /\ \A t \in Task \ {dispatch[d].task} : task'[t] = task[t]
        BY <3>6, <3>7, WithStatusAt, WithStatusType DEF TypeOK
      <4>2. NoneOpened /\ OfferIsFree
        BY <3>4, <3>5, <3>7, <4>1, FailingFrees
      <4> QED
        BY <4>2, TaskInvKept
    <3>8. CASE UNCHANGED task
      BY <3>4, <3>5, <3>8, QuietStep DEF ActiveStatus, ClosedStatus
    <3> QED
      BY <1>17, <3>7, <3>8 DEF ReconcileMissing
  <2> QED
    BY <2>1, <2>2
<1> QED
  BY <1>3, <1>4, <1>5, <1>6, <1>7, <1>8, <1>9, <1>10, <1>11, <1>12, <1>13, <1>14, <1>15,
     <1>16, <1>17
  DEF SharedNext, SupervisedNext, StartStep, StopStep, Restart, StartUnknown, StopUnknown,
      ShowWorker, vars

\* The supervised loop is one of the ways the system may behave.
LEMMA SupervisedIsSpec == SupervisedSpec => Spec
<1>1. [SharedNext \/ SupervisedNext]_vars => [Next]_vars
  BY DEF Next
<1> QED
  BY <1>1, PTL DEF SupervisedSpec, Spec

\* For any number of tasks, terminals, retries and restarts: a coordinator that
\* keeps to the supervised loop never has two attempts of one task running, nor
\* one of a task it is offered.
THEOREM SupervisedOneActive == SupervisedSpec => []OneActiveAttempt
<1>1. Init => TaskInv
  BY DEF Init, TaskInv, Active, ActiveStatus
<1>2. TypeOK /\ AttemptInv /\ TaskInv /\ [SharedNext \/ SupervisedNext]_vars => TaskInv'
  BY TaskInvStep
<1>3. TaskInv => OneActiveAttempt
  BY DEF TaskInv, OneActiveAttempt, Offered
<1> QED
  BY <1>1, <1>2, <1>3, SupervisedIsSpec, AttemptInvariant, PTL DEF SupervisedSpec

-----------------------------------------------------------------------------
(* The manual loop. *)

\* No attempt is opened or given another terminal.
NoneAssigned ==
  \A e \in DispatchId :
    dispatch'[e].status \in ActiveStatus =>
      dispatch[e].status \in ActiveStatus /\ dispatch'[e].assignee = dispatch[e].assignee

\* Closing attempts frees terminals and assigns none.
LEMMA AssigneeKept ==
  ASSUME AssigneeExclusive, NoneAssigned
  PROVE  AssigneeExclusive'
BY DEF AssigneeExclusive, NoneAssigned, Active

\* Closing one row.
LEMMA ClosedKeeps ==
  ASSUME TypeOK, NEW d \in DispatchId, NEW next,
         dispatch' = [dispatch EXCEPT ![d] = next],
         next.status \in ClosedStatus
  PROVE  NoneAssigned
BY DEF TypeOK, NoneAssigned, ActiveStatus, ClosedStatus

\* failDispatch closes its row whatever the row's status was.
LEMMA FailedAssigns ==
  ASSUME TypeOK, NEW d \in DispatchId,
         dispatch' = [dispatch EXCEPT ![d] = Failed(dispatch[d])]
  PROVE  NoneAssigned
<1>1. dispatch[d] \in DispatchRow
  BY DEF TypeOK
<1>2. Failed(dispatch[d]).status \in ClosedStatus
  BY <1>1, FailedRow
<1> QED
  BY <1>2, ClosedKeeps

\* So do a gate and an override that completes the task's attempt.
LEMMA CompleteAssigns ==
  ASSUME TypeOK, NEW t, dispatch' = CompleteActive(t) \/ dispatch' = dispatch
  PROVE  NoneAssigned
<1>1. \A d \in DispatchId : Settled(dispatch[d], "completed").status = "completed"
  BY SettledRow DEF TypeOK, ClosedStatus
<1>2. \A d \in DispatchId :
        dispatch'[d] = dispatch[d] \/ dispatch'[d] = Settled(dispatch[d], "completed")
  BY CompleteActiveRows DEF TypeOK
<1> QED
  BY <1>1, <1>2 DEF NoneAssigned, ActiveStatus

\* Giving a terminal that has no active attempt one attempt.
LEMMA AssignFree ==
  ASSUME TypeOK, AssigneeExclusive, NEW d \in DispatchId, NEW h \in Handle, NEW next,
         next.assignee = h,
         dispatch' = [dispatch EXCEPT ![d] = next],
         \A e \in DispatchId : Active(e) => dispatch[e].assignee # h
  PROVE  AssigneeExclusive'
<1>1. dispatch'[d] = next /\ \A e \in DispatchId \ {d} : dispatch'[e] = dispatch[e]
  BY DEF TypeOK
<1> QED
  BY <1>1 DEF AssigneeExclusive, Active

\* AssigneeExclusive is inductive for a coordinator that never runs worker-start.
LEMMA AssigneeStep ==
  ASSUME TypeOK, AssigneeExclusive, [SharedNext \/ ManualNext \/ OverrideNext]_vars
  PROVE  AssigneeExclusive'
<1>1. \A e \in DispatchId : dispatch[e] \in DispatchRow
  BY DEF TypeOK
<1>2. ASSUME UNCHANGED dispatch
      PROVE  AssigneeExclusive'
  BY <1>2, AssigneeKept DEF NoneAssigned
<1>3. ASSUME NEW d \in DispatchId, NEW outcome \in {"succeeded", "failed"},
             WorkerReport(d, outcome)
      PROVE  AssigneeExclusive'
  <2> DEFINE status == IF outcome = "succeeded" THEN "completed" ELSE "failed"
             worker == IF dispatch[d].worker = "ready" THEN outcome ELSE dispatch[d].worker
             row == Settled(dispatch[d], status)
             next == WithWorker(row, worker)
  <2>1. status \in ClosedStatus
    BY DEF ClosedStatus
  <2>2. worker \in WorkerState \cup {"none"}
    BY <1>1 DEF DispatchRow, WorkerState, SettledState
  <2>3. next.status \in ClosedStatus
    BY <1>1, <2>1, <2>2, SettledRow, WithWorkerRow
  <2>4. dispatch' = [dispatch EXCEPT ![d] = next]
    BY <1>3 DEF WorkerReport, TypeOK
  <2> HIDE DEF next
  <2> QED
    BY <2>3, <2>4, ClosedKeeps, AssigneeKept
<1>4. ASSUME NEW d \in DispatchId, FailDispatch(d) \/ FailDispatchTorn(d)
      PROVE  AssigneeExclusive'
  BY <1>4, FailedAssigns, AssigneeKept DEF FailDispatch, FailDispatchTorn
<1>5. ASSUME NEW t \in Task, NEW h \in Handle, NEW inject \in BOOLEAN, DispatchTask(t, h, inject)
      PROVE  AssigneeExclusive'
  BY <1>5, AssignFree DEF DispatchTask
<1>6. ASSUME NEW t \in Task, NEW h \in Handle, DispatchTaskTorn(t, h)
      PROVE  AssigneeExclusive'
  BY <1>6, AssignFree DEF DispatchTaskTorn
<1>7. ASSUME NEW d \in DispatchId, ReleaseContextOnly(d)
      PROVE  AssigneeExclusive'
  <2>1. Settled(dispatch[d], "failed").status \in ClosedStatus
    BY <1>1, SettledRow DEF ClosedStatus
  <2> QED
    BY <1>7, <2>1, ClosedKeeps, AssigneeKept DEF ReleaseContextOnly
<1>8. ASSUME NEW t \in Task, dispatch' = CompleteActive(t) \/ dispatch' = dispatch
      PROVE  AssigneeExclusive'
  BY <1>8, CompleteAssigns, AssigneeKept
<1>9. ASSUME OverrideNext
      PROVE  AssigneeExclusive'
  BY <1>2, <1>8, <1>9
  DEF OverrideNext, UpdateTask, UpdateTaskTorn, CreateGate, CreateGateTorn, ResolveGate,
      ResolveGateTorn
<1>10. ASSUME SharedNext \/ ManualNext
       PROVE  AssigneeExclusive'
  BY <1>2, <1>3, <1>4, <1>5, <1>6, <1>7, <1>10
  DEF SharedNext, ManualNext, CreateTask, TerminalExit, Restart, PromptAccepted, PromptRejected
<1> QED
  BY <1>2, <1>9, <1>10 DEF vars

\* For any number of tasks and terminals, and whatever exits, gates, overrides
\* and restarts do: dispatch never gives a terminal a second active attempt.
THEOREM ManualAssignee == ManualSpec => []AssigneeExclusive
<1>1. Init => TypeOK /\ AssigneeExclusive
  BY DEF Init, TypeOK, TaskRow, DispatchRow, AssigneeExclusive, Active, ActiveStatus
<1>2. [SharedNext \/ ManualNext \/ OverrideNext]_vars => [Next]_vars
  BY DEF Next
<1>3. TypeOK /\ AssigneeExclusive /\ [SharedNext \/ ManualNext \/ OverrideNext]_vars
        => TypeOK' /\ AssigneeExclusive'
  BY <1>2, TypeStep, AssigneeStep
<1> QED
  BY <1>1, <1>3, PTL DEF ManualSpec

-----------------------------------------------------------------------------
(* Promotion of the tasks that waited.                                        *)

\* The step PromotionIsAtomic asks of every behaviour.
PromotesAll ==
  \A t \in Task :
    LET open == {u \in task[t].deps : task[u].status # "completed"} IN
    /\ task[t].status = "pending"
    /\ open # {}
    /\ \A u \in open : task[u].status' = "completed"
    => task[t].status' # "pending"

\* No task becomes completed.
CompletesNothing ==
  \A t \in Task : task'[t].status = "completed" => task[t].status = "completed"

\* A step that completes nothing closes no task's last open dependency.
LEMMA NothingToPromote ==
  ASSUME TypeOK, CompletesNothing
  PROVE  PromotesAll
BY DEF TypeOK, TaskRow, CompletesNothing, PromotesAll

\* Writing any other status completes nothing, even where there is no task.
LEMMA WritingCompletesNothing ==
  ASSUME TypeOK, NEW t, NEW status, status # "completed",
         task' = task \/ task' = WithStatus(t, status)
  PROVE  CompletesNothing
BY DEF TypeOK, TaskRow, WithStatus, CompletesNothing

\* Completing a task and promoting in one step leaves no ready child behind.
LEMMA CompletingPromotes ==
  ASSUME TypeOK, NEW t \in Task, task' = Promote(WithStatus(t, "completed"), t)
  PROVE  PromotesAll
<1> DEFINE table == WithStatus(t, "completed")
<1> SUFFICES ASSUME NEW u \in Task,
                    task[u].status = "pending",
                    {v \in task[u].deps : task[v].status # "completed"} # {},
                    \A v \in {w \in task[u].deps : task[w].status # "completed"} :
                      task'[v].status = "completed"
             PROVE  task'[u].status # "pending"
  BY DEF PromotesAll
<1>1. table \in [Task -> TaskRow]
  BY WithStatusType DEF TypeOK, TaskStatus
<1>2. \A v \in Task : task'[v].status = "completed" => table[v].status = "completed"
  BY <1>1 DEF Promote, TaskRow
<1>3. table[t].status = "completed" /\ \A v \in Task \ {t} : table[v] = task[v]
  BY WithStatusAt DEF TypeOK
<1>4. task[u].deps \subseteq Task
  BY DEF TypeOK, TaskRow
<1>5. CASE u = t
  BY <1>1, <1>3, <1>5 DEF Promote
<1>6. CASE u # t
  <2>1. table[u].status = "pending" /\ table[u].deps = task[u].deps
    BY <1>3, <1>6
  <2>2. \A v \in task[u].deps : table[v].status = "completed"
    BY <1>2, <1>3, <1>4
  <2>3. t \in task[u].deps
    BY <1>2, <1>3, <1>4
  <2>4. task'[u] = [table[u] EXCEPT !.status = "ready"]
    BY <2>1, <2>2, <2>3 DEF Promote
  <2> QED
    BY <1>1, <2>4 DEF TaskRow
<1> QED
  BY <1>5, <1>6

\* Only a task-update the process dies in can leave a ready child pending.
LEMMA PromotesUnlessTorn ==
  ASSUME TypeOK, AttemptInv, [Next]_vars
  PROVE  PromotesAll \/ \E t \in Task : UpdateTaskTorn(t)
<1>1. \A d \in DispatchId : /\ dispatch[d] \in DispatchRow
                            /\ dispatch[d].status # "absent" => dispatch[d].task \in Task
                            /\ AfterFailure(dispatch[d]) # "completed"
  BY FailedRow DEF TypeOK, AttemptInv, RowInv, AfterFailure
<1>2. ASSUME UNCHANGED task
      PROVE  PromotesAll
  BY <1>2, NothingToPromote DEF CompletesNothing
<1>3. ASSUME NEW t, NEW status, status # "completed",
             task' = task \/ task' = WithStatus(t, status)
      PROVE  PromotesAll
  BY <1>3, WritingCompletesNothing, NothingToPromote
<1>4. ASSUME SharedNext
      PROVE  PromotesAll
  <2>1. ASSUME NEW t \in Task, NEW deps \in SUBSET Task, CreateTask(t, deps)
        PROVE  CompletesNothing
    BY <2>1 DEF CreateTask, Created, CompletesNothing, TypeOK
  <2>2. ASSUME NEW d \in DispatchId, NEW outcome \in {"succeeded", "failed"},
               WorkerReport(d, outcome)
        PROVE  PromotesAll
    <3>1. dispatch[d].task \in Task
      BY <1>1, <2>2 DEF WorkerReport
    <3> QED
      BY <1>3, <2>2, <3>1, CompletingPromotes DEF WorkerReport
  <2>3. ASSUME NEW d \in DispatchId, FailDispatch(d)
        PROVE  PromotesAll
    BY <1>1, <1>3, <2>3 DEF FailDispatch
  <2> QED
    BY <1>2, <1>4, <2>1, <2>2, <2>3, NothingToPromote
    DEF SharedNext, TerminalExit, FailDispatchTorn, Restart
<1>5. ASSUME ManualNext
      PROVE  PromotesAll
  BY <1>1, <1>2, <1>3, <1>5
  DEF ManualNext, DispatchTask, DispatchTaskTorn, PromptAccepted, PromptRejected, FailDispatch,
      ReleaseContextOnly
<1>6. ASSUME SupervisedNext
      PROVE  PromotesAll
  BY <1>1, <1>2, <1>3, <1>6
  DEF SupervisedNext, StartWorker, StartStep, PrepareWorker, WorkerReady, FailStart, StartUnknown,
      MarkStartUnknown, BeginStop, StopStep, SettleStop, StopUnknown, Abandon, ShowWorker,
      ReconcileMissing
<1>7. ASSUME OverrideNext
      PROVE  PromotesAll \/ \E t \in Task : UpdateTaskTorn(t)
  <2>1. ASSUME NEW t \in Task, NEW status \in TaskStatus, UpdateTask(t, status)
        PROVE  PromotesAll
    BY <1>3, <2>1, CompletingPromotes DEF UpdateTask
  <2> QED
    BY <1>2, <1>3, <1>7, <2>1
    DEF OverrideNext, CreateGate, CreateGateTorn, ResolveGate, ResolveGateTorn
<1> QED
  BY <1>2, <1>4, <1>5, <1>6, <1>7 DEF Next, vars

\* Whatever reports, gates, overrides, exits and recovery do, and wherever the
\* process dies, the one step that can complete the last open dependency of a
\* pending task and leave it pending is a task-update the process dies in.
THEOREM OnlyTornUpdateSkipsPromotion ==
  Spec => [][PromotesAll \/ \E t \in Task : UpdateTaskTorn(t)]_vars
<1>1. TypeOK /\ AttemptInv /\ [Next]_vars => [PromotesAll \/ \E t \in Task : UpdateTaskTorn(t)]_vars
  BY PromotesUnlessTorn
<1> QED
  BY <1>1, AttemptInvariant, PTL DEF Spec

\* While the process does not die, every step that completes the last open
\* dependency of a pending task puts that task on offer, on the report path and
\* on the override path, for any tasks and any dependencies among them.
THEOREM PromotionWhileUp ==
  ASSUME MaxRestart = 0
  PROVE  Spec => PromotionIsAtomic
<1>1. TypeOK /\ AttemptInv /\ [Next]_vars => [PromotesAll]_vars
  <2>1. TypeOK => ~\E t \in Task : UpdateTaskTorn(t)
    BY DEF TypeOK, UpdateTaskTorn, Reboot
  <2> QED
    BY <2>1, PromotesUnlessTorn
<1>2. Spec => [][PromotesAll]_vars
  BY <1>1, AttemptInvariant, PTL DEF Spec
<1> QED
  BY <1>2 DEF PromotionIsAtomic, PromotesAll

-----------------------------------------------------------------------------
(* Who still answers for a start or a stop.                                   *)

\* A start or a stop that is under way has a handler parked at it, or predates a
\* restart, in which case worker-show resolves it.
Attended ==
  \A d \in DispatchId :
    /\ dispatch[d].worker = "starting" => calls[d] \in {"start", "prompt"} \/ d \in orphans
    /\ dispatch[d].worker = "stopping" => calls[d] = "stop" \/ d \in orphans

\* No worker enters "starting" or "stopping".
NoneBegun ==
  \A e \in DispatchId :
    \/ dispatch'[e].worker = dispatch[e].worker
    \/ dispatch'[e].worker \notin {"starting", "stopping"}

\* A step that begins nothing and returns from no await leaves nobody forgotten.
LEMMA AttendedKept ==
  ASSUME Attended, NoneBegun, UNCHANGED <<calls, orphans>>
  PROVE  Attended'
BY DEF Attended, NoneBegun

\* A step of one attempt's handler is right if it is right for that attempt.
LEMMA AttendedAt ==
  ASSUME TypeOK, Attended, NEW d \in DispatchId, NEW next, NEW call,
         \/ dispatch' = [dispatch EXCEPT ![d] = next]
         \/ dispatch' = dispatch /\ next = dispatch[d],
         calls' = [calls EXCEPT ![d] = call],
         orphans' = orphans,
         next.worker = "starting" => call \in {"start", "prompt"} \/ d \in orphans,
         next.worker = "stopping" => call = "stop" \/ d \in orphans
  PROVE  Attended'
<1>1. /\ dispatch'[d] = next /\ calls'[d] = call
      /\ \A e \in DispatchId \ {d} : dispatch'[e] = dispatch[e] /\ calls'[e] = calls[e]
  BY DEF TypeOK
<1> QED
  BY <1>1 DEF Attended

\* After a restart every attempt that has a worker row is an orphan.
LEMMA RebootAttends ==
  ASSUME Reboot
  PROVE  Attended'
BY DEF Reboot, Attended

\* Rewriting one row.
LEMMA RowBeginsNothing ==
  ASSUME TypeOK, NEW d \in DispatchId, NEW next,
         dispatch' = [dispatch EXCEPT ![d] = next],
         next.worker = dispatch[d].worker \/ next.worker \notin {"starting", "stopping"}
  PROVE  NoneBegun
BY DEF TypeOK, NoneBegun

\* Completing the task's attempt leaves every worker row alone.
LEMMA CompletingBeginsNothing ==
  ASSUME TypeOK, NEW t, dispatch' = CompleteActive(t) \/ dispatch' = dispatch
  PROVE  NoneBegun
<1>1. \A d \in DispatchId : Settled(dispatch[d], "completed").worker = dispatch[d].worker
  BY SettledRow DEF TypeOK, ClosedStatus
<1> QED
  BY <1>1, CompleteActiveRows DEF TypeOK, NoneBegun

\* Attended is inductive.
LEMMA AttendedStep ==
  ASSUME TypeOK, Attended, [Next]_vars
  PROVE  Attended'
<1>1. \A e \in DispatchId : dispatch[e] \in DispatchRow
  BY DEF TypeOK
<1>2. ASSUME NEW d \in DispatchId, dispatch' = [dispatch EXCEPT ![d] = Failed(dispatch[d])]
      PROVE  NoneBegun
  BY <1>1, <1>2, FailedRow, RowBeginsNothing
<1>3. ASSUME SharedNext
      PROVE  Attended'
  <2>1. ASSUME NEW d \in DispatchId, NEW outcome \in {"succeeded", "failed"},
               WorkerReport(d, outcome)
        PROVE  Attended'
    <3> DEFINE status == IF outcome = "succeeded" THEN "completed" ELSE "failed"
               worker == IF dispatch[d].worker = "ready" THEN outcome ELSE dispatch[d].worker
               row == Settled(dispatch[d], status)
               next == WithWorker(row, worker)
    <3>1. row \in DispatchRow
      BY <1>1, SettledRow DEF ClosedStatus
    <3>2. worker \in WorkerState \cup {"none"}
      BY <1>1 DEF DispatchRow, WorkerState, SettledState
    <3>3. next.worker = worker
      BY <3>1, <3>2, WithWorkerRow
    <3>4. dispatch' = [dispatch EXCEPT ![d] = next]
      BY <2>1 DEF WorkerReport, TypeOK
    <3>5. NoneBegun
      BY <3>3, <3>4, RowBeginsNothing
    <3> QED
      BY <2>1, <3>5, AttendedKept DEF WorkerReport
  <2>2. ASSUME NEW h \in Handle, TerminalExit(h)
        PROVE  Attended'
    BY <1>2, <2>2, AttendedKept DEF TerminalExit, FailDispatch
  <2>3. ASSUME NEW t \in Task, NEW deps \in SUBSET Task, CreateTask(t, deps)
        PROVE  Attended'
    BY <2>3, AttendedKept DEF CreateTask, NoneBegun
  <2> QED
    BY <1>3, <2>1, <2>2, <2>3, RebootAttends DEF SharedNext, FailDispatchTorn, Restart
<1>4. ASSUME ManualNext
      PROVE  Attended'
  <2>1. ASSUME NEW t \in Task, NEW h \in Handle, NEW inject \in BOOLEAN,
               DispatchTask(t, h, inject)
        PROVE  Attended'
    <3>1. PICK d \in DispatchId, failures \in {0} \cup {dispatch[e].failures : e \in DispatchId} :
            /\ dispatch' = [dispatch EXCEPT ![d] =
                 [task |-> t, status |-> "dispatched", assignee |-> h, failures |-> failures,
                  capability |-> IF inject THEN "live" ELSE "none", worker |-> "none"]]
            /\ calls' = [calls EXCEPT ![d] = IF inject THEN "inject" ELSE "none"]
      BY <2>1 DEF DispatchTask
    <3>2. orphans' = orphans
      BY <2>1 DEF DispatchTask
    <3> QED
      BY <3>1, <3>2, AttendedAt
  <2>2. ASSUME NEW d \in DispatchId, PromptAccepted(d)
        PROVE  Attended'
    BY <2>2, AttendedAt DEF PromptAccepted, Return, Attended
  <2>3. ASSUME NEW d \in DispatchId, PromptRejected(d)
        PROVE  Attended'
    <3>1. Failed(dispatch[d]).worker = dispatch[d].worker
      BY <1>1, FailedRow
    <3> QED
      BY <2>3, <3>1, AttendedAt DEF PromptRejected, FailDispatch, Return, Attended
  <2>4. ASSUME NEW d \in DispatchId, ReleaseContextOnly(d)
        PROVE  Attended'
    <3>1. Settled(dispatch[d], "failed").worker = dispatch[d].worker
      BY <1>1, SettledRow DEF ClosedStatus
    <3> QED
      BY <2>4, <3>1, RowBeginsNothing, AttendedKept DEF ReleaseContextOnly
  <2> QED
    BY <1>4, <2>1, <2>2, <2>3, <2>4, RebootAttends DEF ManualNext, DispatchTaskTorn
<1>5. ASSUME NEW t \in Task, StartWorker(t)
      PROVE  Attended'
  <2>1. PICK d \in DispatchId :
          /\ dispatch' = [dispatch EXCEPT ![d] =
               [task |-> t, status |-> "pending", assignee |-> None, failures |-> 0,
                capability |-> "none", worker |-> "starting"]]
          /\ calls' = [calls EXCEPT ![d] = "start"]
    BY <1>5 DEF StartWorker
  <2>2. orphans' = orphans
    BY <1>5 DEF StartWorker
  <2> QED
    BY <2>1, <2>2, AttendedAt
<1>6. ASSUME NEW d \in DispatchId, StartStep(d)
      PROVE  Attended'
  <2>1. ASSUME NEW h \in Handle, PrepareWorker(d, h)
        PROVE  Attended'
    <3> DEFINE next == [dispatch[d] EXCEPT !.assignee = h, !.capability = "live"]
    <3>1. dispatch' = [dispatch EXCEPT ![d] = next] /\ next.worker = "starting"
      BY <1>1, <2>1 DEF PrepareWorker, DispatchRow
    <3> QED
      BY <2>1, <3>1, AttendedAt DEF PrepareWorker
  <2>2. ASSUME WorkerReady(d)
        PROVE  Attended'
    <3> DEFINE next == [dispatch[d] EXCEPT !.status = "dispatched", !.worker = "ready"]
    <3>1. dispatch' = [dispatch EXCEPT ![d] = next] /\ next.worker = "ready"
      BY <1>1, <2>2 DEF WorkerReady, DispatchRow
    <3> QED
      BY <2>2, <3>1, AttendedAt DEF WorkerReady, Return
  <2>3. ASSUME FailStart(d), dispatch[d].worker = "starting"
        PROVE  Attended'
    <3> DEFINE row == Settled(dispatch[d], "failed")
               next == WithWorker(row, "failed")
    <3>1. next.worker = "failed"
      BY <1>1, SettledRow, WithWorkerRow DEF ClosedStatus, WorkerState, SettledState
    <3>2. dispatch' = [dispatch EXCEPT ![d] = next]
      BY <2>3 DEF FailStart
    <3> QED
      BY <2>3, <3>1, <3>2, AttendedAt DEF FailStart, Return
  <2>4. ASSUME FailStart(d), dispatch[d].worker # "starting"
        PROVE  Attended'
    BY <2>4, AttendedAt DEF FailStart, Return, Attended
  <2>5. ASSUME StartUnknown(d)
        PROVE  Attended'
    <3> DEFINE next == [dispatch[d] EXCEPT !.worker = "start_unknown", !.capability = "revoked"]
    <3>1. dispatch' = [dispatch EXCEPT ![d] = next] /\ next.worker = "start_unknown"
      BY <1>1, <2>5 DEF StartUnknown, MarkStartUnknown, DispatchRow
    <3> QED
      BY <2>5, <3>1, AttendedAt DEF StartUnknown, Return
  <2> QED
    BY <1>6, <2>1, <2>2, <2>3, <2>4, <2>5 DEF StartStep
<1>7. ASSUME NEW d \in DispatchId, BeginStop(d)
      PROVE  Attended'
  <2> DEFINE next == [dispatch[d] EXCEPT !.worker = "stopping", !.capability = "revoked"]
  <2>1. dispatch' = [dispatch EXCEPT ![d] = next] /\ next.worker = "stopping"
    BY <1>1, <1>7 DEF BeginStop, DispatchRow
  <2> QED
    BY <1>7, <2>1, AttendedAt DEF BeginStop
<1>8. ASSUME NEW d \in DispatchId, MarkStopUnknown(d)
      PROVE  \E next : /\ dispatch' = [dispatch EXCEPT ![d] = next]
                       /\ next.worker # "stopping"
                       /\ next.worker = dispatch[d].worker \/ next.worker = "stop_unknown"
  <2> DEFINE worker == IF dispatch[d].worker = "stopping" THEN "stop_unknown"
                       ELSE dispatch[d].worker
             next == WithWorker(dispatch[d], worker)
  <2>1. worker \in WorkerState \cup {"none"}
    BY <1>1 DEF DispatchRow, WorkerState
  <2>2. next.worker = worker
    BY <1>1, <2>1, WithWorkerRow
  <2>3. dispatch' = [dispatch EXCEPT ![d] = next]
    BY <1>8 DEF MarkStopUnknown
  <2> QED
    BY <2>2, <2>3
<1>9. ASSUME NEW d \in DispatchId, StopStep(d)
      PROVE  Attended'
  <2>1. ASSUME SettleStop(d)
        PROVE  Attended'
    <3> DEFINE next == [dispatch[d] EXCEPT
                          !.worker = "stopped",
                          !.status = IF @ \in ActiveStatus THEN "failed" ELSE @]
    <3>1. dispatch' = [dispatch EXCEPT ![d] = next] /\ next.worker = "stopped"
      BY <1>1, <2>1 DEF SettleStop, DispatchRow
    <3> HIDE DEF next
    <3> QED
      BY <2>1, <3>1, AttendedAt DEF SettleStop, Return
  <2>2. ASSUME StopUnknown(d)
        PROVE  Attended'
    <3>1. PICK next : /\ dispatch' = [dispatch EXCEPT ![d] = next]
                      /\ next.worker # "stopping"
                      /\ next.worker = dispatch[d].worker \/ next.worker = "stop_unknown"
      BY <1>8, <2>2 DEF StopUnknown
    <3>2. next.worker = "starting" => d \in orphans
      BY <2>2, <3>1 DEF StopUnknown, Attended
    <3> QED
      BY <2>2, <3>1, <3>2, AttendedAt DEF StopUnknown, Return
  <2> QED
    BY <1>9, <2>1, <2>2 DEF StopStep
<1>10. ASSUME NEW d \in DispatchId, Abandon(d)
       PROVE  Attended'
  <2> DEFINE status == IF Active(d) THEN "failed" ELSE dispatch[d].status
             row == Settled(dispatch[d], status)
             next == WithWorker(row, "abandoned")
  <2>1. status \in ActiveStatus \cup ClosedStatus \cup {"absent"}
    BY <1>1 DEF DispatchRow, ClosedStatus
  <2>2. next.worker = "abandoned"
    BY <1>1, <2>1, SettledRow, WithWorkerRow DEF WorkerState, SettledState
  <2>3. dispatch' = [dispatch EXCEPT ![d] = next]
    BY <1>10 DEF Abandon, TypeOK
  <2>4. NoneBegun
    BY <2>2, <2>3, RowBeginsNothing
  <2> QED
    BY <1>10, <2>4, AttendedKept DEF Abandon
<1>11. ASSUME NEW d \in DispatchId, ShowWorker(d)
       PROVE  Attended'
  <2>1. CASE MarkStartUnknown(d)
    <3> DEFINE next == [dispatch[d] EXCEPT !.worker = "start_unknown", !.capability = "revoked"]
    <3>1. dispatch' = [dispatch EXCEPT ![d] = next] /\ next.worker = "start_unknown"
      BY <1>1, <2>1 DEF MarkStartUnknown, DispatchRow
    <3>2. NoneBegun
      BY <3>1, RowBeginsNothing
    <3> QED
      BY <1>11, <3>2, AttendedKept DEF ShowWorker
  <2>2. CASE MarkStopUnknown(d)
    <3>1. NoneBegun
      BY <1>8, <2>2, RowBeginsNothing
    <3> QED
      BY <1>11, <3>1, AttendedKept DEF ShowWorker
  <2> QED
    BY <1>11, <2>1, <2>2 DEF ShowWorker
<1>12. ASSUME NEW d \in DispatchId, ReconcileMissing(d)
       PROVE  Attended'
  <2> DEFINE gone == IF dispatch[d].worker \in {"stopping", "stop_unknown"}
                     THEN "stopped" ELSE "abandoned"
             row == IF Active(d) THEN Failed(dispatch[d]) ELSE dispatch[d]
             next == WithWorker(row, gone)
  <2>1. row \in DispatchRow
    BY <1>1, FailedRow
  <2>2. gone \in WorkerState \cup {"none"}
    BY DEF WorkerState, SettledState
  <2>3. next.worker = gone
    BY <2>1, <2>2, WithWorkerRow
  <2>4. UNCHANGED dispatch \/ dispatch' = [dispatch EXCEPT ![d] = next]
    BY <1>12 DEF ReconcileMissing
  <2>5. NoneBegun
    BY <2>3, <2>4, RowBeginsNothing DEF NoneBegun
  <2> QED
    BY <1>12, <2>5, AttendedKept DEF ReconcileMissing
<1>13. ASSUME OverrideNext
       PROVE  Attended'
  <2>1. ASSUME NEW t, dispatch' = CompleteActive(t) \/ dispatch' = dispatch,
               UNCHANGED <<calls, orphans>>
        PROVE  Attended'
    BY <2>1, CompletingBeginsNothing, AttendedKept
  <2> QED
    BY <1>13, <2>1, RebootAttends
    DEF OverrideNext, UpdateTask, UpdateTaskTorn, CreateGate, CreateGateTorn, ResolveGate,
        ResolveGateTorn
<1>14. CASE UNCHANGED vars
  BY <1>14 DEF vars, Attended
<1> QED
  BY <1>3, <1>4, <1>5, <1>6, <1>7, <1>9, <1>10, <1>11, <1>12, <1>13, <1>14
  DEF Next, SupervisedNext

\* However starts, stops, exits, overrides and restarts interleave, no attempt is
\* left "starting" or "stopping" with nobody to resolve it: its handler is still
\* parked at the await, or it was caught by a restart and worker-show resolves it.
THEOREM NobodyForgotten == Spec => []Attended
<1>1. Init => Attended
  BY DEF Init, Attended
<1>2. TypeOK /\ Attended /\ [Next]_vars => Attended'
  BY AttendedStep
<1> QED
  BY <1>1, <1>2, TypeCorrect, PTL DEF Spec

-----------------------------------------------------------------------------
(* Reported work.                                                             *)

\* Only its own dispatch or start call takes attempt d out of "completed".
UndoneByOwnCall(d) ==
  \/ PromptRejected(d)
  \/ FailDispatchTorn(d) /\ calls[d] = "inject"
  \/ FailStart(d) /\ dispatch[d].worker = "starting"

\* What is completed stays completed, save for attempt d's own call.
CompletedStay ==
  \A d \in DispatchId :
    dispatch[d].status = "completed" =>
      dispatch'[d].status = "completed" \/ UndoneByOwnCall(d)

\* Rewriting a row that is not completed, or leaving it so.
LEMMA StayOneRow ==
  ASSUME TypeOK, NEW d \in DispatchId, NEW next,
         dispatch' = [dispatch EXCEPT ![d] = next],
         \/ dispatch[d].status # "completed"
         \/ next.status = "completed"
         \/ UndoneByOwnCall(d)
  PROVE  CompletedStay
<1>1. dispatch'[d] = next /\ \A e \in DispatchId \ {d} : dispatch'[e] = dispatch[e]
  BY DEF TypeOK
<1> QED
  BY <1>1 DEF CompletedStay

\* Completing a task's attempt undoes none.
LEMMA StayCompleting ==
  ASSUME TypeOK, NEW t, dispatch' = CompleteActive(t) \/ dispatch' = dispatch
  PROVE  CompletedStay
<1>1. \A d \in DispatchId : Settled(dispatch[d], "completed").status = "completed"
  BY SettledRow DEF TypeOK, ClosedStatus
<1> QED
  BY <1>1, CompleteActiveRows DEF TypeOK, CompletedStay

\* Every step leaves completed attempts alone, but for their own calls.
LEMMA CompletedStayStep ==
  ASSUME TypeOK, [Next]_vars
  PROVE  CompletedStay
<1>1. \A e \in DispatchId : dispatch[e] \in DispatchRow
  BY DEF TypeOK
<1>2. \A d \in DispatchId : Active(d) => dispatch[d].status # "completed"
  BY DEF Active, ActiveStatus
<1>3. ASSUME UNCHANGED dispatch
      PROVE  CompletedStay
  BY <1>3 DEF CompletedStay
<1>4. ASSUME SharedNext
      PROVE  CompletedStay
  <2>1. ASSUME NEW d \in DispatchId, NEW outcome \in {"succeeded", "failed"},
               WorkerReport(d, outcome)
        PROVE  CompletedStay
    BY <2>1, StayOneRow DEF WorkerReport
  <2>2. ASSUME NEW h \in Handle, TerminalExit(h)
        PROVE  CompletedStay
    BY <1>2, <2>2, StayOneRow DEF TerminalExit, FailDispatch
  <2>3. ASSUME NEW d \in DispatchId, FailDispatchTorn(d)
        PROVE  CompletedStay
    BY <1>2, <2>3, StayOneRow DEF FailDispatchTorn, UndoneByOwnCall
  <2> QED
    BY <1>3, <1>4, <2>1, <2>2, <2>3 DEF SharedNext, CreateTask, Restart
<1>5. \A d \in DispatchId : Fresh(d) => dispatch[d].status # "completed"
  BY DEF Fresh, DispatchId
<1>6. ASSUME ManualNext
      PROVE  CompletedStay
  <2>1. ASSUME NEW t \in Task, NEW h \in Handle, NEW inject \in BOOLEAN,
               DispatchTask(t, h, inject)
        PROVE  CompletedStay
    BY <1>5, <2>1, StayOneRow DEF DispatchTask
  <2>2. ASSUME NEW t \in Task, NEW h \in Handle, DispatchTaskTorn(t, h)
        PROVE  CompletedStay
    BY <1>5, <2>2, StayOneRow DEF DispatchTaskTorn
  <2>3. ASSUME NEW d \in DispatchId, PromptRejected(d)
        PROVE  CompletedStay
    <3>1. UndoneByOwnCall(d)
      BY <2>3 DEF UndoneByOwnCall
    <3> QED
      BY <2>3, <3>1, StayOneRow DEF PromptRejected, FailDispatch
  <2>4. ASSUME NEW d \in DispatchId, ReleaseContextOnly(d)
        PROVE  CompletedStay
    BY <1>2, <2>4, StayOneRow DEF ReleaseContextOnly
  <2> QED
    BY <1>3, <1>6, <2>1, <2>2, <2>3, <2>4 DEF ManualNext, PromptAccepted
<1>7. ASSUME NEW t \in Task, StartWorker(t)
      PROVE  CompletedStay
  <2>1. PICK d \in DispatchId :
          /\ Fresh(d)
          /\ dispatch' = [dispatch EXCEPT ![d] =
               [task |-> t, status |-> "pending", assignee |-> None, failures |-> 0,
                capability |-> "none", worker |-> "starting"]]
    BY <1>7 DEF StartWorker
  <2> QED
    BY <1>5, <2>1, StayOneRow
<1>8. ASSUME NEW d \in DispatchId, StartStep(d)
      PROVE  CompletedStay
  <2>1. ASSUME NEW h \in Handle, PrepareWorker(d, h)
        PROVE  CompletedStay
    <3> DEFINE next == [dispatch[d] EXCEPT !.assignee = h, !.capability = "live"]
    <3>1. dispatch' = [dispatch EXCEPT ![d] = next] /\ dispatch[d].status # "completed"
      BY <1>1, <2>1 DEF PrepareWorker
    <3> QED
      BY <3>1, StayOneRow
  <2>2. ASSUME WorkerReady(d)
        PROVE  CompletedStay
    <3> DEFINE next == [dispatch[d] EXCEPT !.status = "dispatched", !.worker = "ready"]
    <3>1. dispatch' = [dispatch EXCEPT ![d] = next] /\ dispatch[d].status # "completed"
      BY <1>1, <2>2 DEF WorkerReady
    <3> QED
      BY <3>1, StayOneRow
  <2>3. ASSUME FailStart(d), dispatch[d].worker = "starting"
        PROVE  CompletedStay
    <3>1. UndoneByOwnCall(d)
      BY <2>3 DEF UndoneByOwnCall
    <3> QED
      BY <2>3, <3>1, StayOneRow DEF FailStart
  <2>4. ASSUME FailStart(d), dispatch[d].worker # "starting"
        PROVE  CompletedStay
    BY <1>3, <2>4 DEF FailStart
  <2>5. ASSUME MarkStartUnknown(d)
        PROVE  CompletedStay
    BY <1>1, <2>5 DEF MarkStartUnknown, CompletedStay, TypeOK, DispatchRow
  <2> QED
    BY <1>8, <2>1, <2>2, <2>3, <2>4, <2>5 DEF StartStep, StartUnknown
<1>9. ASSUME NEW d \in DispatchId, MarkStartUnknown(d) \/ BeginStop(d)
      PROVE  CompletedStay
  <2>1. PICK state \in {"start_unknown", "stopping"} :
          dispatch' = [dispatch EXCEPT ![d].worker = state, ![d].capability = "revoked"]
    BY <1>9 DEF MarkStartUnknown, BeginStop
  <2> DEFINE next == [dispatch[d] EXCEPT !.worker = state, !.capability = "revoked"]
  <2>2. dispatch' = [dispatch EXCEPT ![d] = next]
    BY <2>1 DEF TypeOK
  <2>3. next.status = dispatch[d].status
    BY <1>1 DEF DispatchRow
  <2> HIDE DEF next
  <2> QED
    BY <2>2, <2>3, StayOneRow
<1>10. ASSUME NEW d \in DispatchId, MarkStopUnknown(d)
       PROVE  CompletedStay
  <2> DEFINE worker == IF dispatch[d].worker = "stopping" THEN "stop_unknown"
                       ELSE dispatch[d].worker
             next == WithWorker(dispatch[d], worker)
  <2>1. worker \in WorkerState \cup {"none"}
    BY <1>1 DEF DispatchRow, WorkerState
  <2>2. next.status = dispatch[d].status
    BY <1>1, <2>1, WithWorkerRow
  <2>3. dispatch' = [dispatch EXCEPT ![d] = next]
    BY <1>10 DEF MarkStopUnknown
  <2> QED
    BY <2>2, <2>3, StayOneRow
<1>11. ASSUME NEW d \in DispatchId, SettleStop(d)
       PROVE  CompletedStay
  BY <1>1, <1>11 DEF SettleStop, CompletedStay, TypeOK, DispatchRow, ActiveStatus
<1>12. ASSUME NEW d \in DispatchId, Abandon(d)
       PROVE  CompletedStay
  <2> DEFINE status == IF Active(d) THEN "failed" ELSE dispatch[d].status
             row == Settled(dispatch[d], status)
             next == WithWorker(row, "abandoned")
  <2>1. status \in ActiveStatus \cup ClosedStatus \cup {"absent"}
    BY <1>1 DEF DispatchRow, ClosedStatus
  <2>2. next.status = status
    BY <1>1, <2>1, SettledRow, WithWorkerRow DEF WorkerState, SettledState
  <2>3. dispatch' = [dispatch EXCEPT ![d] = next]
    BY <1>12 DEF Abandon, TypeOK
  <2>4. dispatch[d].status # "completed" \/ next.status = "completed"
    BY <1>2, <2>2
  <2> QED
    BY <2>3, <2>4, StayOneRow
<1>13. ASSUME NEW d \in DispatchId, ReconcileMissing(d)
       PROVE  CompletedStay
  <2> DEFINE gone == IF dispatch[d].worker \in {"stopping", "stop_unknown"}
                     THEN "stopped" ELSE "abandoned"
             row == IF Active(d) THEN Failed(dispatch[d]) ELSE dispatch[d]
             next == WithWorker(row, gone)
  <2>1. row \in DispatchRow
    BY <1>1, FailedRow
  <2>2. gone \in WorkerState \cup {"none"}
    BY DEF WorkerState, SettledState
  <2>3. next.status = row.status
    BY <2>1, <2>2, WithWorkerRow
  <2>4. UNCHANGED dispatch \/ dispatch' = [dispatch EXCEPT ![d] = next]
    BY <1>13 DEF ReconcileMissing
  <2>5. dispatch[d].status # "completed" \/ next.status = "completed"
    BY <1>2, <2>3
  <2> QED
    BY <1>3, <2>4, <2>5, StayOneRow
<1>14. ASSUME OverrideNext
       PROVE  CompletedStay
  BY <1>14, StayCompleting
  DEF OverrideNext, UpdateTask, UpdateTaskTorn, CreateGate, CreateGateTorn, ResolveGate,
      ResolveGateTorn
<1>15. CASE UNCHANGED vars
  BY <1>3, <1>15 DEF vars
<1> QED
  BY <1>3, <1>4, <1>6, <1>7, <1>8, <1>9, <1>10, <1>11, <1>12, <1>13, <1>14, <1>15
  DEF Next, SupervisedNext, StopStep, StopUnknown, ShowWorker

\* The extent of what run report_stands finds: the only steps that take a
\* completed attempt out of "completed" are those of the attempt's own call, a
\* prompt that is rejected after the work was reported, or a start that fails
\* after the task was completed under it.
THEOREM OnlyOwnCallUndoes == Spec => [][CompletedStay]_vars
<1>1. TypeOK /\ [Next]_vars => [CompletedStay]_vars
  BY CompletedStayStep
<1> QED
  BY <1>1, TypeCorrect, PTL DEF Spec

\* In the supervised loop no call is a dispatch --inject, and what a start is
\* still waiting for has not been completed.
ReportInv ==
  \A d \in DispatchId :
    /\ calls[d] # "inject"
    /\ dispatch[d].worker = "starting" => dispatch[d].status # "completed"

\* A step that rewrites one row and parks no prompt.
LEMMA ReportInvAt ==
  ASSUME TypeOK, ReportInv, NEW d \in DispatchId, NEW next,
         NEW call \in {"none", "start", "prompt", "stop"},
         \/ dispatch' = [dispatch EXCEPT ![d] = next]
         \/ dispatch' = dispatch /\ next = dispatch[d],
         calls' = calls \/ calls' = [calls EXCEPT ![d] = call],
         next.worker = "starting" => next.status # "completed"
  PROVE  ReportInv'
<1>1. /\ dispatch'[d] = next
      /\ \A e \in DispatchId \ {d} : dispatch'[e] = dispatch[e]
      /\ \A e \in DispatchId : calls'[e] \in {calls[e], call}
  BY DEF TypeOK
<1> QED
  BY <1>1 DEF ReportInv

\* ReportInv is inductive for a coordinator that keeps to the supervised loop.
LEMMA ReportInvStep ==
  ASSUME TypeOK, AttemptInv, ReportInv, [SharedNext \/ SupervisedNext]_vars
  PROVE  ReportInv'
<1>1. \A e \in DispatchId : dispatch[e] \in DispatchRow /\ RowInv(dispatch[e], calls[e])
  BY DEF TypeOK, AttemptInv
<1>2. ASSUME UNCHANGED dispatch, \A e \in DispatchId : calls'[e] \in {calls[e], "none"}
      PROVE  ReportInv'
  BY <1>2 DEF ReportInv
<1>3. ASSUME NEW d \in DispatchId, NEW outcome \in {"succeeded", "failed"},
             WorkerReport(d, outcome)
      PROVE  ReportInv'
  <2> DEFINE status == IF outcome = "succeeded" THEN "completed" ELSE "failed"
             worker == IF dispatch[d].worker = "ready" THEN outcome ELSE dispatch[d].worker
             row == Settled(dispatch[d], status)
             next == WithWorker(row, worker)
  <2>1. row \in DispatchRow
    BY <1>1, SettledRow DEF ClosedStatus
  <2>2. worker \in WorkerState \cup {"none"} /\ worker # "starting"
    BY <1>1, <1>3 DEF WorkerReport, RowInv, DispatchRow, WorkerState, SettledState
  <2>3. next.worker # "starting"
    BY <2>1, <2>2, WithWorkerRow
  <2>4. dispatch' = [dispatch EXCEPT ![d] = next] /\ calls' = calls
    BY <1>3 DEF WorkerReport
  <2> HIDE DEF next
  <2> QED
    BY <2>3, <2>4, ReportInvAt
<1>4. ASSUME NEW d \in DispatchId, dispatch' = [dispatch EXCEPT ![d] = Failed(dispatch[d])],
             \A e \in DispatchId : calls'[e] \in {calls[e], "none"}
      PROVE  ReportInv'
  <2>1. Failed(dispatch[d]).status # "completed"
    BY <1>1 DEF Failed, Settled, DispatchRow
  <2>2. /\ dispatch'[d] = Failed(dispatch[d])
        /\ \A e \in DispatchId \ {d} : dispatch'[e] = dispatch[e]
    BY <1>4 DEF TypeOK
  <2> QED
    BY <1>4, <2>1, <2>2 DEF ReportInv
<1>5. ASSUME Reboot
      PROVE  \A e \in DispatchId : calls'[e] \in {calls[e], "none"}
  BY <1>5 DEF Reboot
<1>6. ASSUME SharedNext
      PROVE  ReportInv'
  BY <1>2, <1>3, <1>4, <1>5, <1>6
  DEF SharedNext, CreateTask, TerminalExit, FailDispatch, FailDispatchTorn, Restart
<1>7. ASSUME NEW t \in Task, StartWorker(t)
      PROVE  ReportInv'
  <2> DEFINE next == [task |-> t, status |-> "pending", assignee |-> None, failures |-> 0,
                      capability |-> "none", worker |-> "starting"]
  <2>1. PICK d \in DispatchId : /\ dispatch' = [dispatch EXCEPT ![d] = next]
                               /\ calls' = [calls EXCEPT ![d] = "start"]
    BY <1>7 DEF StartWorker
  <2>2. next.status # "completed"
    OBVIOUS
  <2> HIDE DEF next
  <2> QED
    BY <2>1, <2>2, ReportInvAt
<1>8. ASSUME NEW d \in DispatchId, NEW h \in Handle, PrepareWorker(d, h)
      PROVE  ReportInv'
  <2> DEFINE next == [dispatch[d] EXCEPT !.assignee = h, !.capability = "live"]
  <2>1. dispatch' = [dispatch EXCEPT ![d] = next] /\ next.status # "completed"
    BY <1>1, <1>8 DEF PrepareWorker, DispatchRow
  <2> HIDE DEF next
  <2> QED
    BY <1>8, <2>1, ReportInvAt DEF PrepareWorker
<1>9. ASSUME NEW d \in DispatchId, WorkerReady(d)
      PROVE  ReportInv'
  <2> DEFINE next == [dispatch[d] EXCEPT !.status = "dispatched", !.worker = "ready"]
  <2>1. dispatch' = [dispatch EXCEPT ![d] = next] /\ next.worker # "starting"
    BY <1>1, <1>9 DEF WorkerReady, DispatchRow
  <2> HIDE DEF next
  <2> QED
    BY <1>9, <2>1, ReportInvAt DEF WorkerReady, Return
<1>10. ASSUME NEW d \in DispatchId, FailStart(d)
       PROVE  ReportInv'
  <2>1. CASE dispatch[d].worker = "starting"
    <3> DEFINE row == Settled(dispatch[d], "failed")
               next == WithWorker(row, "failed")
    <3>1. next.worker # "starting"
      BY <1>1, SettledRow, WithWorkerRow DEF ClosedStatus, WorkerState, SettledState
    <3>2. dispatch' = [dispatch EXCEPT ![d] = next]
      BY <1>10, <2>1 DEF FailStart
    <3> QED
      BY <1>10, <3>1, <3>2, ReportInvAt DEF FailStart, Return
  <2>2. CASE dispatch[d].worker # "starting"
    BY <1>10, <2>2, ReportInvAt DEF FailStart, Return
  <2> QED
    BY <2>1, <2>2
<1>11. ASSUME NEW d \in DispatchId, NEW call \in {"none", "start", "prompt", "stop"},
              MarkStartUnknown(d), calls' = calls \/ calls' = [calls EXCEPT ![d] = call]
       PROVE  ReportInv'
  <2> DEFINE next == [dispatch[d] EXCEPT !.worker = "start_unknown", !.capability = "revoked"]
  <2>1. dispatch' = [dispatch EXCEPT ![d] = next] /\ next.worker # "starting"
    BY <1>1, <1>11 DEF MarkStartUnknown, DispatchRow
  <2> QED
    BY <1>11, <2>1, ReportInvAt
<1>12. ASSUME NEW d \in DispatchId, BeginStop(d)
       PROVE  ReportInv'
  <2> DEFINE next == [dispatch[d] EXCEPT !.worker = "stopping", !.capability = "revoked"]
  <2>1. dispatch' = [dispatch EXCEPT ![d] = next] /\ next.worker # "starting"
    BY <1>1, <1>12 DEF BeginStop, DispatchRow
  <2> QED
    BY <1>12, <2>1, ReportInvAt DEF BeginStop
<1>13. ASSUME NEW d \in DispatchId, SettleStop(d)
       PROVE  ReportInv'
  <2> DEFINE next == [dispatch[d] EXCEPT
                        !.worker = "stopped",
                        !.status = IF @ \in ActiveStatus THEN "failed" ELSE @]
  <2>1. dispatch' = [dispatch EXCEPT ![d] = next] /\ next.worker # "starting"
    BY <1>1, <1>13 DEF SettleStop, DispatchRow
  <2> HIDE DEF next
  <2> QED
    BY <1>13, <2>1, ReportInvAt DEF SettleStop, Return
<1>14. ASSUME NEW d \in DispatchId, NEW call \in {"none", "start", "prompt", "stop"},
              MarkStopUnknown(d), calls' = calls \/ calls' = [calls EXCEPT ![d] = call]
       PROVE  ReportInv'
  <2> DEFINE worker == IF dispatch[d].worker = "stopping" THEN "stop_unknown"
                       ELSE dispatch[d].worker
             next == WithWorker(dispatch[d], worker)
  <2>1. worker \in WorkerState \cup {"none"}
    BY <1>1 DEF DispatchRow, WorkerState
  <2>2. next.status = dispatch[d].status /\ next.worker = worker
    BY <1>1, <2>1, WithWorkerRow
  <2>3. dispatch' = [dispatch EXCEPT ![d] = next]
    BY <1>14 DEF MarkStopUnknown
  <2>4. next.worker = "starting" => next.status # "completed"
    BY <2>2 DEF ReportInv
  <2> QED
    BY <1>14, <2>3, <2>4, ReportInvAt
<1>15. ASSUME NEW d \in DispatchId, Abandon(d)
       PROVE  ReportInv'
  <2> DEFINE status == IF Active(d) THEN "failed" ELSE dispatch[d].status
             row == Settled(dispatch[d], status)
             next == WithWorker(row, "abandoned")
  <2>1. status \in ActiveStatus \cup ClosedStatus \cup {"absent"}
    BY <1>1 DEF DispatchRow, ClosedStatus
  <2>2. next.worker # "starting"
    BY <1>1, <2>1, SettledRow, WithWorkerRow DEF WorkerState, SettledState
  <2>3. dispatch' = [dispatch EXCEPT ![d] = next] /\ calls' = calls
    BY <1>15 DEF Abandon, TypeOK
  <2> QED
    BY <2>2, <2>3, ReportInvAt
<1>16. ASSUME NEW d \in DispatchId, ReconcileMissing(d)
       PROVE  ReportInv'
  <2> DEFINE gone == IF dispatch[d].worker \in {"stopping", "stop_unknown"}
                     THEN "stopped" ELSE "abandoned"
             row == IF Active(d) THEN Failed(dispatch[d]) ELSE dispatch[d]
             next == WithWorker(row, gone)
  <2>1. row \in DispatchRow
    BY <1>1, FailedRow
  <2>2. gone \in WorkerState \cup {"none"}
    BY DEF WorkerState, SettledState
  <2>3. next.worker # "starting"
    BY <2>1, <2>2, WithWorkerRow
  <2>4. dispatch' = dispatch \/ dispatch' = [dispatch EXCEPT ![d] = next]
    BY <1>16 DEF ReconcileMissing
  <2>5. calls' = calls
    BY <1>16 DEF ReconcileMissing
  <2> HIDE DEF next
  <2> QED
    BY <1>2, <2>3, <2>4, <2>5, ReportInvAt
<1>17. CASE UNCHANGED vars
  BY <1>2, <1>17 DEF vars
<1> QED
  BY <1>6, <1>7, <1>8, <1>9, <1>10, <1>11, <1>12, <1>13, <1>14, <1>15, <1>16, <1>17
  DEF SupervisedNext, StartStep, StopStep, StartUnknown, StopUnknown, ShowWorker, Return

\* In the supervised loop reported work stands: run report_stands can refute
\* ReportStands only because its coordinator uses dispatch --inject.
THEOREM SupervisedReportsStand == SupervisedSpec => ReportStands
<1> DEFINE Stands == \A d \in DispatchId :
                       dispatch[d].status = "completed" => dispatch'[d].status = "completed"
<1>1. Init => ReportInv
  BY DEF Init, ReportInv
<1>2. TypeOK /\ AttemptInv /\ ReportInv /\ [SharedNext \/ SupervisedNext]_vars => ReportInv'
  BY ReportInvStep
<1>3. TypeOK /\ ReportInv /\ [SharedNext \/ SupervisedNext]_vars => [Stands]_vars
  <2> SUFFICES ASSUME TypeOK, ReportInv, SharedNext \/ SupervisedNext
               PROVE  Stands
    BY DEF Stands
  <2>1. CompletedStay
    BY CompletedStayStep DEF Next
  <2>2. \A d \in DispatchId : dispatch[d].status = "completed" => ~UndoneByOwnCall(d)
    BY DEF ReportInv, UndoneByOwnCall, PromptRejected
  <2> QED
    BY <2>1, <2>2 DEF CompletedStay
<1>4. SupervisedSpec => [][Stands]_vars
  BY <1>1, <1>2, <1>3, SupervisedIsSpec, AttemptInvariant, PTL DEF SupervisedSpec
<1> QED
  BY <1>4 DEF ReportStands

=============================================================================
