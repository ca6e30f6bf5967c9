------------------------- MODULE TaskDispatchProofs -------------------------
(***************************************************************************)
(* Proofs about TaskDispatch, for any sets of tasks, handles and gates and *)
(* any bounds.                                                             *)
(***************************************************************************)
EXTENDS TaskDispatch, TLAPS

-----------------------------------------------------------------------------
(* What the row updates return. *)

\* Writing a status keeps the shape of the task table, whatever row is written.
LEMMA WithStatusType ==
  ASSUME task \in [Task -> TaskRow], NEW t, NEW status \in TaskStatus
  PROVE  WithStatus(t, status) \in [Task -> TaskRow]
<1>1. ASSUME t \in Task
      PROVE  [task[t] EXCEPT !.status = status] \in TaskRow
  <2>1. task[t] \in TaskRow
    BY <1>1
  <2> QED
    BY <2>1 DEF TaskRow
<1>2. WithStatus(t, status)
        = [u \in Task |-> IF u = t THEN [task[t] EXCEPT !.status = status] ELSE task[u]]
  BY DEF WithStatus
<1> HIDE DEF WithStatus, TaskRow
<1> QED
  BY <1>1, <1>2

\* So does promoting the children of a completed task.
LEMMA PromoteType ==
  ASSUME NEW table \in [Task -> TaskRow], NEW done
  PROVE  Promote(table, done) \in [Task -> TaskRow]
<1> SUFFICES ASSUME NEW t \in Task
             PROVE  [table[t] EXCEPT !.status = "ready"] \in TaskRow
  BY DEF Promote
<1> QED
  BY DEF TaskRow, TaskStatus

\* Writing the worker's state touches nothing else.
LEMMA WithWorkerRow ==
  ASSUME NEW row \in DispatchRow, NEW state \in WorkerState \cup {"none"}
  PROVE  /\ WithWorker(row, state) \in DispatchRow
         /\ WithWorker(row, state).worker = state
         /\ WithWorker(row, state).status = row.status
         /\ WithWorker(row, state).capability = row.capability
         /\ WithWorker(row, state).task = row.task
         /\ WithWorker(row, state).assignee = row.assignee
         /\ WithWorker(row, state).failures = row.failures
BY DEF WithWorker, DispatchRow

\* Settling a row writes its status and revokes, and touches nothing else.
LEMMA SettledRow ==
  ASSUME NEW row \in DispatchRow,
         NEW status \in ActiveStatus \cup ClosedStatus \cup {"absent"}
  PROVE  /\ Settled(row, status) \in DispatchRow
         /\ Settled(row, status).status = status
         /\ Settled(row, status).capability = "revoked"
         /\ Settled(row, status).worker = row.worker
         /\ Settled(row, status).task = row.task
         /\ Settled(row, status).assignee = row.assignee
         /\ Settled(row, status).failures = row.failures
BY DEF Settled, DispatchRow

\* Failing a row closes and revokes it, and leaves its task and worker alone.
LEMMA FailedRow ==
  ASSUME NEW row \in DispatchRow
  PROVE  /\ Failed(row) \in DispatchRow
         /\ Failed(row).status \in ClosedStatus
         /\ Failed(row).capability = "revoked"
         /\ Failed(row).worker = row.worker
         /\ Failed(row).task = row.task
         /\ Failed(row).assignee = row.assignee
         /\ AfterFailure(row) \in {"ready", "failed"}
<1> DEFINE status == IF row.failures + 1 >= FailureLimit THEN "circuit_broken" ELSE "failed"
<1>1. status \in ClosedStatus
  BY DEF ClosedStatus
<1>2. Settled(row, status) \in DispatchRow
  BY <1>1, SettledRow
<1>3. row.failures + 1 \in Nat
  BY DEF DispatchRow
<1>4. Failed(row) = [Settled(row, status) EXCEPT !.failures = row.failures + 1]
  BY DEF Failed
<1> HIDE DEF status
<1> QED
  BY <1>1, <1>2, <1>3, <1>4, SettledRow DEF DispatchRow, AfterFailure

\* Completing a task's active attempt changes that row or none.
LEMMA CompleteActiveRows ==
  ASSUME dispatch \in [DispatchId -> DispatchRow], NEW t
  PROVE  /\ CompleteActive(t) \in [DispatchId -> DispatchRow]
         /\ \A d \in DispatchId :
              \/ CompleteActive(t)[d] = dispatch[d]
              \/ /\ Active(d)
                 /\ CompleteActive(t)[d] = Settled(dispatch[d], "completed")
                 /\ \A e \in DispatchId \ {d} : CompleteActive(t)[e] = dispatch[e]
<1>1. \A d \in DispatchId : Settled(dispatch[d], "completed") \in DispatchRow
  BY SettledRow DEF ClosedStatus
<1>2. ASSUME NEW d \in DispatchId, NEW e \in DispatchId,
             CompleteActive(t)[d] # dispatch[d], CompleteActive(t)[e] # dispatch[e]
      PROVE  d = e
  BY <1>2 DEF CompleteActive, DispatchId
<1> QED
  BY <1>1, <1>2 DEF CompleteActive

-----------------------------------------------------------------------------
(* Type correctness. *)

\* The bookkeeping of a restart keeps its shape.
LEMMA RebootType ==
  ASSUME TypeOK, Reboot
  PROVE  /\ calls' \in [DispatchId -> {"none", "inject", "start", "prompt", "stop"}]
         /\ orphans' \in SUBSET DispatchId
         /\ recovery' \in SUBSET DispatchId
         /\ restarts' \in Nat
BY DEF TypeOK, Reboot

\* A table in which one row was replaced by a row keeps its shape.
LEMMA RowUpdateType ==
  ASSUME dispatch \in [DispatchId -> DispatchRow], NEW d, NEW row \in DispatchRow
  PROVE  [dispatch EXCEPT ![d] = row] \in [DispatchId -> DispatchRow]
OBVIOUS

\* failDispatch keeps both tables' shape.
LEMMA FailDispatchType ==
  ASSUME TypeOK, NEW d \in DispatchId, FailDispatch(d)
  PROVE  /\ task' \in [Task -> TaskRow]
         /\ dispatch' \in [DispatchId -> DispatchRow]
<1>1. dispatch[d] \in DispatchRow
  BY DEF TypeOK
<1>2. Failed(dispatch[d]) \in DispatchRow /\ AfterFailure(dispatch[d]) \in TaskStatus
  BY <1>1, FailedRow DEF TaskStatus
<1> QED
  BY <1>2, WithStatusType, RowUpdateType DEF TypeOK, FailDispatch

\* markWorkerStartUnknown keeps both tables' shape.
LEMMA MarkStartUnknownType ==
  ASSUME TypeOK, NEW d \in DispatchId, MarkStartUnknown(d)
  PROVE  /\ task' \in [Task -> TaskRow]
         /\ dispatch' \in [DispatchId -> DispatchRow]
<1>1. "blocked" \in TaskStatus
  BY DEF TaskStatus
<1>2. \A row \in DispatchRow :
        [row EXCEPT !.worker = "start_unknown", !.capability = "revoked"] \in DispatchRow
  BY DEF DispatchRow, WorkerState
<1>3. dispatch' \in [DispatchId -> DispatchRow]
  BY <1>2 DEF TypeOK, MarkStartUnknown
<1> QED
  BY <1>1, <1>3, WithStatusType DEF TypeOK, MarkStartUnknown

\* markWorkerStopUnknown keeps the table's shape.
LEMMA MarkStopUnknownType ==
  ASSUME dispatch \in [DispatchId -> DispatchRow], NEW d \in DispatchId, MarkStopUnknown(d)
  PROVE  dispatch' \in [DispatchId -> DispatchRow]
<1> DEFINE worker == IF dispatch[d].worker = "stopping" THEN "stop_unknown" ELSE dispatch[d].worker
<1>1. worker \in WorkerState \cup {"none"}
  BY DEF DispatchRow, WorkerState
<1>2. WithWorker(dispatch[d], worker) \in DispatchRow
  BY <1>1, WithWorkerRow
<1> QED
  BY <1>2 DEF MarkStopUnknown

\* Every step keeps the shape of all tables.
LEMMA TypeStep ==
  ASSUME TypeOK, [Next]_vars
  PROVE  TypeOK'
<1> DEFINE Calls == {"none", "inject", "start", "prompt", "stop"}
<1> USE DEF DispatchId
<1>1. ASSUME NEW t \in Task, NEW deps \in SUBSET Task, CreateTask(t, deps)
      PROVE  TypeOK'
  BY <1>1 DEF CreateTask, TypeOK, TaskRow, TaskStatus
<1>2. ASSUME NEW d \in DispatchId, NEW outcome \in {"succeeded", "failed"},
             WorkerReport(d, outcome)
      PROVE  TypeOK'
  <2> DEFINE status == IF outcome = "succeeded" THEN "completed" ELSE "failed"
             worker == IF dispatch[d].worker = "ready" THEN outcome ELSE dispatch[d].worker
             next == WithWorker(Settled(dispatch[d], status), worker)
  <2>1. status \in ClosedStatus /\ status \in TaskStatus
    BY DEF ClosedStatus, TaskStatus
  <2>2. worker \in WorkerState \cup {"none"}
    BY DEF TypeOK, DispatchRow, WorkerState, SettledState
  <2>3. next \in DispatchRow
    BY <2>1, <2>2, SettledRow, WithWorkerRow DEF TypeOK
  <2>4. dispatch' = [dispatch EXCEPT ![d] = next]
    BY <1>2 DEF WorkerReport, TypeOK
  <2>5. WithStatus(dispatch[d].task, status) \in [Task -> TaskRow]
    BY <2>1, WithStatusType DEF TypeOK
  <2>6. task' \in [Task -> TaskRow]
    BY <1>2, <2>5, PromoteType DEF WorkerReport
  <2>7. dispatch' \in [DispatchId -> DispatchRow]
    BY <2>3, <2>4 DEF TypeOK
  <2> QED
    BY <1>2, <2>6, <2>7 DEF WorkerReport, TypeOK
<1>3. ASSUME NEW h \in Handle, TerminalExit(h)
      PROVE  TypeOK'
  BY <1>3, FailDispatchType DEF TerminalExit, TypeOK
<1>4. ASSUME NEW d \in DispatchId, FailDispatchTorn(d)
      PROVE  TypeOK'
  <2>1. Failed(dispatch[d]) \in DispatchRow
    BY FailedRow DEF TypeOK
  <2> QED
    BY <1>4, <2>1, RebootType DEF FailDispatchTorn, TypeOK
<1>5. CASE Restart
  BY <1>5, RebootType DEF Restart, TypeOK
<1>6. ASSUME NEW t \in Task, NEW h \in Handle, NEW inject \in BOOLEAN, DispatchTask(t, h, inject)
      PROVE  TypeOK'
  <2>1. PICK d \in DispatchId, failures \in {0} \cup {dispatch[e].failures : e \in DispatchId} :
          /\ dispatch' = [dispatch EXCEPT ![d] =
               [task |-> t, status |-> "dispatched", assignee |-> h, failures |-> failures,
                capability |-> IF inject THEN "live" ELSE "none", worker |-> "none"]]
          /\ calls' = [calls EXCEPT ![d] = IF inject THEN "inject" ELSE "none"]
    BY <1>6 DEF DispatchTask
  <2>2. failures \in Nat
    BY DEF TypeOK, DispatchRow
  <2>3. dispatch' \in [DispatchId -> DispatchRow]
    BY <2>1, <2>2 DEF TypeOK, DispatchRow, ActiveStatus
  <2>4. task' \in [Task -> TaskRow]
    BY <1>6, WithStatusType DEF DispatchTask, TypeOK, TaskStatus
  <2> QED
    BY <1>6, <2>1, <2>3, <2>4 DEF DispatchTask, TypeOK
<1>7. ASSUME NEW t \in Task, NEW h \in Handle, DispatchTaskTorn(t, h)
      PROVE  TypeOK'
  <2>1. PICK d \in DispatchId, failures \in {0} \cup {dispatch[e].failures : e \in DispatchId} :
          dispatch' = [dispatch EXCEPT ![d] =
            [task |-> t, status |-> "dispatched", assignee |-> h, failures |-> failures,
             capability |-> "none", worker |-> "none"]]
    BY <1>7 DEF DispatchTaskTorn
  <2>2. failures \in Nat
    BY DEF TypeOK, DispatchRow
  <2>3. dispatch' \in [DispatchId -> DispatchRow]
    BY <2>1, <2>2 DEF TypeOK, DispatchRow, ActiveStatus
  <2> QED
    BY <1>7, <2>3, RebootType DEF DispatchTaskTorn, TypeOK
<1>8. ASSUME NEW d \in DispatchId, PromptAccepted(d)
      PROVE  TypeOK'
  BY <1>8 DEF PromptAccepted, Return, TypeOK
<1>9. ASSUME NEW d \in DispatchId, PromptRejected(d)
      PROVE  TypeOK'
  BY <1>9, FailDispatchType DEF PromptRejected, Return, TypeOK
<1>10. ASSUME NEW d \in DispatchId, ReleaseContextOnly(d)
       PROVE  TypeOK'
  <2>1. Settled(dispatch[d], "failed") \in DispatchRow
    BY SettledRow DEF TypeOK, ClosedStatus
  <2>2. dispatch' \in [DispatchId -> DispatchRow]
    BY <1>10, <2>1 DEF ReleaseContextOnly, TypeOK
  <2>3. task' \in [Task -> TaskRow]
    BY <1>10, WithStatusType DEF ReleaseContextOnly, TypeOK, TaskStatus
  <2> QED
    BY <1>10, <2>2, <2>3 DEF ReleaseContextOnly, TypeOK
<1>11. ASSUME NEW t \in Task, StartWorker(t)
       PROVE  TypeOK'
  <2>1. PICK d \in DispatchId :
          /\ dispatch' = [dispatch EXCEPT ![d] =
               [task |-> t, status |-> "pending", assignee |-> None, failures |-> 0,
                capability |-> "none", worker |-> "starting"]]
          /\ calls' = [calls EXCEPT ![d] = "start"]
    BY <1>11 DEF StartWorker
  <2>2. dispatch' \in [DispatchId -> DispatchRow]
    BY <2>1 DEF TypeOK, DispatchRow, ActiveStatus, WorkerState
  <2>3. task' \in [Task -> TaskRow]
    BY <1>11, WithStatusType DEF StartWorker, TypeOK, TaskStatus
  <2> QED
    BY <1>11, <2>1, <2>2, <2>3 DEF StartWorker, TypeOK
<1>12. ASSUME NEW d \in DispatchId, NEW h \in Handle, PrepareWorker(d, h)
       PROVE  TypeOK'
  <2>1. \A row \in DispatchRow :
          [row EXCEPT !.assignee = h, !.capability = "live"] \in DispatchRow
    BY DEF DispatchRow
  <2>2. dispatch' \in [DispatchId -> DispatchRow]
    BY <1>12, <2>1 DEF PrepareWorker, TypeOK
  <2> QED
    BY <1>12, <2>2 DEF PrepareWorker, TypeOK
<1>13. ASSUME NEW d \in DispatchId, WorkerReady(d)
       PROVE  TypeOK'
  <2>1. \A row \in DispatchRow :
          [row EXCEPT !.status = "dispatched", !.worker = "ready"] \in DispatchRow
    BY DEF DispatchRow, ActiveStatus, WorkerState
  <2>2. dispatch' \in [DispatchId -> DispatchRow]
    BY <1>13, <2>1 DEF WorkerReady, TypeOK
  <2> QED
    BY <1>13, <2>2 DEF WorkerReady, Return, TypeOK
<1>14. ASSUME NEW d \in DispatchId, FailStart(d)
       PROVE  TypeOK'
  <2> DEFINE row == Settled(dispatch[d], "failed")
  <2>1. row \in DispatchRow
    BY SettledRow DEF TypeOK, ClosedStatus
  <2>2. WithWorker(row, "failed") \in DispatchRow
    BY <2>1, WithWorkerRow DEF WorkerState, SettledState
  <2>3. dispatch' \in [DispatchId -> DispatchRow]
    BY <1>14, <2>2 DEF FailStart, TypeOK
  <2>4. task' \in [Task -> TaskRow]
    BY <1>14, WithStatusType DEF FailStart, TypeOK, TaskStatus
  <2> QED
    BY <1>14, <2>3, <2>4 DEF FailStart, Return, TypeOK
<1>15. ASSUME NEW d \in DispatchId, StartUnknown(d)
       PROVE  TypeOK'
  BY <1>15, MarkStartUnknownType DEF StartUnknown, Return, TypeOK
<1>16. ASSUME NEW d \in DispatchId, BeginStop(d)
       PROVE  TypeOK'
  <2>1. \A row \in DispatchRow :
          [row EXCEPT !.worker = "stopping", !.capability = "revoked"] \in DispatchRow
    BY DEF DispatchRow, WorkerState
  <2>2. dispatch' \in [DispatchId -> DispatchRow]
    BY <1>16, <2>1 DEF BeginStop, TypeOK
  <2>3. task' \in [Task -> TaskRow]
    BY <1>16, WithStatusType DEF BeginStop, TypeOK, TaskStatus
  <2> QED
    BY <1>16, <2>2, <2>3 DEF BeginStop, TypeOK
<1>17. ASSUME NEW d \in DispatchId, SettleStop(d)
       PROVE  TypeOK'
  <2>1. \A row \in DispatchRow :
          [row EXCEPT !.worker = "stopped",
                      !.status = IF @ \in ActiveStatus THEN "failed" ELSE @] \in DispatchRow
    <3>1. ASSUME NEW row \in DispatchRow,
                 NEW end \in ActiveStatus \cup ClosedStatus \cup {"absent"}
          PROVE  [row EXCEPT !.worker = "stopped", !.status = end] \in DispatchRow
      BY DEF DispatchRow, WorkerState, SettledState
    <3>2. \A row \in DispatchRow :
            (IF row.status \in ActiveStatus THEN "failed" ELSE row.status)
              \in ActiveStatus \cup ClosedStatus \cup {"absent"}
      BY DEF DispatchRow, ClosedStatus
    <3> QED
      BY <3>1, <3>2
  <2>2. dispatch' \in [DispatchId -> DispatchRow]
    BY <1>17, <2>1 DEF SettleStop, TypeOK
  <2> QED
    BY <1>17, <2>2 DEF SettleStop, Return, TypeOK
<1>18. ASSUME NEW d \in DispatchId, StopUnknown(d)
       PROVE  TypeOK'
  BY <1>18, MarkStopUnknownType DEF StopUnknown, Return, TypeOK
<1>19. ASSUME NEW d \in DispatchId, Abandon(d)
       PROVE  TypeOK'
  <2> DEFINE status == IF Active(d) THEN "failed" ELSE dispatch[d].status
             row == Settled(dispatch[d], status)
  <2>1. status \in ActiveStatus \cup ClosedStatus \cup {"absent"}
    BY DEF TypeOK, DispatchRow, ClosedStatus
  <2>2. row \in DispatchRow
    BY <2>1, SettledRow DEF TypeOK
  <2>3. WithWorker(row, "abandoned") \in DispatchRow
    BY <2>2, WithWorkerRow DEF WorkerState, SettledState
  <2>4. dispatch' \in [DispatchId -> DispatchRow]
    BY <1>19, <2>3 DEF Abandon, TypeOK
  <2>5. task' \in [Task -> TaskRow]
    BY <1>19, WithStatusType DEF Abandon, TypeOK, TaskStatus
  <2> QED
    BY <1>19, <2>4, <2>5 DEF Abandon, TypeOK
<1>20. ASSUME NEW d \in DispatchId, ShowWorker(d)
       PROVE  TypeOK'
  <2>1. CASE MarkStartUnknown(d)
    BY <1>20, <2>1, MarkStartUnknownType DEF ShowWorker, TypeOK
  <2>2. CASE MarkStopUnknown(d) /\ UNCHANGED task
    BY <1>20, <2>2, MarkStopUnknownType DEF ShowWorker, TypeOK
  <2> QED
    BY <1>20, <2>1, <2>2 DEF ShowWorker
<1>21. ASSUME NEW d \in DispatchId, ReconcileMissing(d)
       PROVE  TypeOK'
  <2> DEFINE row == IF Active(d) THEN Failed(dispatch[d]) ELSE dispatch[d]
  <2>1. row \in DispatchRow
    BY FailedRow DEF TypeOK
  <2>2. \A gone \in {"stopped", "abandoned"} : WithWorker(row, gone) \in DispatchRow
    BY <2>1, WithWorkerRow DEF WorkerState, SettledState
  <2>3. dispatch' \in [DispatchId -> DispatchRow]
    BY <1>21, <2>2 DEF ReconcileMissing, TypeOK
  <2>4. AfterFailure(dispatch[d]) \in TaskStatus
    BY FailedRow DEF TypeOK, TaskStatus
  <2>5. task' \in [Task -> TaskRow]
    BY <1>21, <2>4, WithStatusType DEF ReconcileMissing, TypeOK
  <2> QED
    BY <1>21, <2>3, <2>5 DEF ReconcileMissing, TypeOK
<1>22. ASSUME NEW t \in Task, NEW status \in TaskStatus, UpdateTask(t, status)
       PROVE  TypeOK'
  <2>1. WithStatus(t, status) \in [Task -> TaskRow]
    BY WithStatusType DEF TypeOK
  <2>2. task' \in [Task -> TaskRow]
    BY <1>22, <2>1, PromoteType DEF UpdateTask
  <2>3. dispatch' \in [DispatchId -> DispatchRow]
    BY <1>22, CompleteActiveRows DEF UpdateTask, TypeOK
  <2> QED
    BY <1>22, <2>2, <2>3 DEF UpdateTask, TypeOK
<1>23. ASSUME NEW t \in Task, UpdateTaskTorn(t)
       PROVE  TypeOK'
  <2>1. Promote(WithStatus(t, "completed"), t) \in [Task -> TaskRow]
    BY WithStatusType, PromoteType DEF TypeOK, TaskStatus
  <2>2. task' \in [Task -> TaskRow]
    BY <1>23, <2>1 DEF UpdateTaskTorn, TypeOK
  <2> QED
    BY <1>23, <2>2, RebootType DEF UpdateTaskTorn, TypeOK
<1>24. ASSUME NEW g \in Gate, NEW t \in Task, CreateGate(g, t)
       PROVE  TypeOK'
  <2>1. task' \in [Task -> TaskRow]
    BY <1>24, WithStatusType DEF CreateGate, TypeOK, TaskStatus
  <2>2. dispatch' \in [DispatchId -> DispatchRow]
    BY <1>24, CompleteActiveRows DEF CreateGate, TypeOK
  <2> QED
    BY <1>24, <2>1, <2>2 DEF CreateGate, TypeOK
<1>25. ASSUME NEW g \in Gate, NEW t \in Task, CreateGateTorn(g, t)
       PROVE  TypeOK'
  <2>1. dispatch' \in [DispatchId -> DispatchRow]
    BY <1>25, CompleteActiveRows DEF CreateGateTorn, TypeOK
  <2> QED
    BY <1>25, <2>1, RebootType DEF CreateGateTorn, TypeOK
<1>26. ASSUME NEW g \in Gate, ResolveGate(g)
       PROVE  TypeOK'
  <2>1. task' \in [Task -> TaskRow]
    BY <1>26, WithStatusType DEF ResolveGate, TypeOK, TaskStatus
  <2> QED
    BY <1>26, <2>1 DEF ResolveGate, TypeOK
<1>27. ASSUME NEW g \in Gate, ResolveGateTorn(g)
       PROVE  TypeOK'
  BY <1>27, RebootType DEF ResolveGateTorn, TypeOK
<1>28. CASE UNCHANGED vars
  BY <1>28 DEF vars, TypeOK
<1> QED
  BY <1>1, <1>2, <1>3, <1>4, <1>5, <1>6, <1>7, <1>8, <1>9, <1>10, <1>11, <1>12, <1>13,
     <1>14, <1>15, <1>16, <1>17, <1>18, <1>19, <1>20, <1>21, <1>22, <1>23, <1>24, <1>25,
     <1>26, <1>27, <1>28
  DEF Next, SharedNext, ManualNext, SupervisedNext, OverrideNext, StartStep, StopStep

\* Whatever the coordinator, the agents and the process do, the tables keep the
\* shape their schema declares.
THEOREM TypeCorrect == Spec => []TypeOK
<1>1. Init => TypeOK
  BY DEF Init, TypeOK, TaskRow, DispatchRow
<1>2. TypeOK /\ [Next]_vars => TypeOK'
  BY TypeStep
<1> QED
  BY <1>1, <1>2, PTL DEF Spec

-----------------------------------------------------------------------------
(* The life of an attempt.  AttemptInv is what makes the properties of one    *)
(* attempt inductive: it adds to them which rows and calls can exist at all.  *)

RowInv(row, call) ==
  /\ row.status = "absent" =>
       /\ row.task = None /\ row.worker = "none" /\ row.capability = "none"
       /\ call = "none"
  /\ row.status # "absent" => row.task \in Task
  /\ call = "start" /\ row.status = "pending" /\ row.worker = "starting"
       => row.capability = "none"
  /\ \/ row.status \in ClosedStatus
     \/ row.worker \in WorkerState \ {"starting", "ready"}
     => row.capability = "revoked"
  /\ row.worker \in SettledState => row.status \notin ActiveStatus
  /\ row.worker = "starting" => row.status # "dispatched"
  /\ row.worker = "ready" => row.status # "pending"

AttemptInv ==
  /\ \A d \in DispatchId : RowInv(dispatch[d], calls[d])
  /\ \A d \in recovery : dispatch[d].worker # "none"

\* The changes of a row AttemptLifecycle has a step for, or none.
RowStep(row, next) ==
  \/ Phase(next) = Phase(row) /\ next.capability = row.capability
  \/ Phase(row) = "none" /\ Phase(next) = "open" /\ next.capability \in {"none", "live"}
  \/ /\ Phase(row) = "open" /\ Phase(next) = "open"
     /\ row.capability = "none" /\ next.capability = "live"
  \/ Phase(row) = "open" /\ Phase(next) = "open" /\ next.capability = "revoked"
  \/ Phase(row) = "open" /\ Phase(next) = "closed" /\ next.capability = "revoked"

\* What a step does to attempt d, when d is the only one it touches.
OnlyAttempt(d) ==
  /\ RowStep(dispatch[d], dispatch'[d])
  /\ RowInv(dispatch'[d], calls'[d])
  /\ dispatch[d].worker # "none" => dispatch'[d].worker # "none"
  /\ \A e \in DispatchId \ {d} : dispatch'[e] = dispatch[e] /\ calls'[e] \in {calls[e], "none"}

\* A closed and revoked row of a task satisfies RowInv whatever is parked on it.
LEMMA ClosedRow ==
  ASSUME NEW row \in DispatchRow, NEW call,
         row.status \in ClosedStatus, row.capability = "revoked", row.task \in Task
  PROVE  RowInv(row, call)
BY DEF RowInv, ClosedStatus, ActiveStatus

\* Nothing parked on a row asks less of it than something parked.
LEMMA NothingParked ==
  ASSUME NEW row, NEW call, RowInv(row, call)
  PROVE  RowInv(row, "none")
BY DEF RowInv

\* Closing an open row, or changing a closed one that was revoked, is a RowStep.
LEMMA ClosingStep ==
  ASSUME NEW row \in DispatchRow, NEW next \in DispatchRow,
         row.status # "absent",
         row.status \in ClosedStatus => row.capability = "revoked",
         next.status \in ClosedStatus, next.capability = "revoked"
  PROVE  RowStep(row, next)
BY DEF RowStep, Phase, DispatchRow, ActiveStatus, ClosedStatus

\* Every way to close an attempt, or to rewrite one that is closed.
LEMMA CloseAttempt ==
  ASSUME TypeOK, AttemptInv, NEW d \in DispatchId, NEW next \in DispatchRow,
         dispatch[d].status # "absent",
         next.status \in ClosedStatus,
         next.capability = "revoked",
         next.task = dispatch[d].task,
         dispatch[d].worker # "none" => next.worker # "none",
         dispatch'[d] = next,
         \A e \in DispatchId \ {d} : dispatch'[e] = dispatch[e],
         \A e \in DispatchId : calls'[e] \in {calls[e], "none"}
  PROVE  OnlyAttempt(d)
<1>1. RowInv(dispatch[d], calls[d]) /\ dispatch[d] \in DispatchRow
  BY DEF AttemptInv, TypeOK
<1>2. next.task \in Task
  BY <1>1 DEF RowInv
<1>3. RowInv(next, calls'[d])
  BY <1>2, ClosedRow
<1>4. dispatch[d].status \in ClosedStatus => dispatch[d].capability = "revoked"
  BY <1>1 DEF RowInv
<1>5. RowStep(dispatch[d], next)
  BY <1>1, <1>4, ClosingStep
<1> QED
  BY <1>3, <1>5 DEF OnlyAttempt

\* Failing an existing attempt, with or without its task, closes it.
LEMMA FailAttempt ==
  ASSUME TypeOK, AttemptInv, NEW d \in DispatchId,
         dispatch[d].status # "absent",
         dispatch' = [dispatch EXCEPT ![d] = Failed(dispatch[d])],
         \A e \in DispatchId : calls'[e] \in {calls[e], "none"}
  PROVE  OnlyAttempt(d)
<1>1. dispatch[d] \in DispatchRow
  BY DEF TypeOK
<1>2. /\ Failed(dispatch[d]) \in DispatchRow
      /\ Failed(dispatch[d]).status \in ClosedStatus
      /\ Failed(dispatch[d]).capability = "revoked"
      /\ Failed(dispatch[d]).worker = dispatch[d].worker
      /\ Failed(dispatch[d]).task = dispatch[d].task
  BY <1>1, FailedRow
<1>3. dispatch'[d] = Failed(dispatch[d])
  BY DEF TypeOK
<1>4. \A e \in DispatchId \ {d} : dispatch'[e] = dispatch[e]
  BY DEF TypeOK
<1> QED
  BY <1>2, <1>3, <1>4, CloseAttempt

\* Completing a task's active attempt closes that attempt, or changes nothing.
LEMMA CompleteAttempt ==
  ASSUME TypeOK, AttemptInv, NEW t,
         dispatch' = CompleteActive(t),
         \A e \in DispatchId : calls'[e] \in {calls[e], "none"}
  PROVE  dispatch' = dispatch \/ \E d \in DispatchId : OnlyAttempt(d)
<1>1. CASE \A d \in DispatchId : CompleteActive(t)[d] = dispatch[d]
  BY <1>1, CompleteActiveRows DEF TypeOK
<1>2. ASSUME NEW d \in DispatchId, CompleteActive(t)[d] # dispatch[d]
      PROVE  OnlyAttempt(d)
  <2> DEFINE next == Settled(dispatch[d], "completed")
  <2>1. dispatch[d] \in DispatchRow
    BY DEF TypeOK
  <2>2. /\ Active(d)
        /\ dispatch'[d] = next
        /\ \A e \in DispatchId \ {d} : dispatch'[e] = dispatch[e]
    BY <1>2, CompleteActiveRows DEF TypeOK
  <2>3. "completed" \in ClosedStatus /\ dispatch[d].status # "absent"
    BY <2>2 DEF ClosedStatus, Active, ActiveStatus
  <2>4. /\ next \in DispatchRow /\ next.status = "completed" /\ next.capability = "revoked"
        /\ next.worker = dispatch[d].worker /\ next.task = dispatch[d].task
    BY <2>1, <2>3, SettledRow
  <2> QED
    BY <2>2, <2>3, <2>4, CloseAttempt
<1> QED
  BY <1>1, <1>2

\* A step leaves the attempts alone or touches one, as AttemptLifecycle allows.
AttemptsStep ==
  /\ \/ dispatch' = dispatch /\ \A e \in DispatchId : calls'[e] \in {calls[e], "none"}
     \/ \E d \in DispatchId : OnlyAttempt(d)
  /\ \A e \in recovery' : e \in recovery \/ dispatch'[e].worker # "none"

LEMMA RebootAttempts ==
  ASSUME TypeOK, Reboot
  PROVE  /\ \A e \in DispatchId : calls'[e] \in {calls[e], "none"}
         /\ \A e \in recovery' : dispatch'[e].worker # "none"
BY DEF Reboot, WorkerState, SettledState

\* A fresh row is absent, and the new row opens it.
LEMMA OpenAttempt ==
  ASSUME TypeOK, AttemptInv, NEW d \in DispatchId, NEW next \in DispatchRow,
         Fresh(d),
         next.status \in ActiveStatus,
         next.capability \in {"none", "live"},
         next.task \in Task,
         \/ next.worker = "none"
         \/ next.worker = "starting" /\ next.status = "pending" /\ next.capability = "none",
         dispatch'[d] = next,
         \A e \in DispatchId \ {d} : dispatch'[e] = dispatch[e] /\ calls'[e] \in {calls[e], "none"}
  PROVE  OnlyAttempt(d)
<1>1. dispatch[d].status = "absent"
  BY DEF Fresh, DispatchId
<1>2. dispatch[d].worker = "none"
  BY <1>1 DEF AttemptInv, RowInv
<1>3. RowInv(next, calls'[d])
  BY DEF RowInv, ActiveStatus, ClosedStatus, WorkerState, SettledState
<1>4. RowStep(dispatch[d], next)
  BY <1>1 DEF RowStep, Phase, ActiveStatus
<1> QED
  BY <1>2, <1>3, <1>4 DEF OnlyAttempt

\* What every step does to the attempts, from AttemptInv.
LEMMA AttemptsNext ==
  ASSUME TypeOK, AttemptInv, [Next]_vars
  PROVE  AttemptsStep
<1>1. \A d \in DispatchId : dispatch[d] \in DispatchRow /\ RowInv(dispatch[d], calls[d])
  BY DEF TypeOK, AttemptInv
<1>2. ASSUME NEW t \in Task, NEW deps \in SUBSET Task, CreateTask(t, deps)
      PROVE  AttemptsStep
  BY <1>2 DEF CreateTask, AttemptsStep
<1>3. ASSUME NEW d \in DispatchId, NEW outcome \in {"succeeded", "failed"},
             WorkerReport(d, outcome)
      PROVE  AttemptsStep
  <2> DEFINE status == IF outcome = "succeeded" THEN "completed" ELSE "failed"
             worker == IF dispatch[d].worker = "ready" THEN outcome ELSE dispatch[d].worker
             row == Settled(dispatch[d], status)
             next == WithWorker(row, worker)
  <2>1. status \in ClosedStatus /\ dispatch[d].status # "absent"
    BY <1>3 DEF ClosedStatus, WorkerReport
  <2>2. worker \in WorkerState \cup {"none"}
    BY <1>1 DEF DispatchRow, WorkerState, SettledState
  <2>3. row \in DispatchRow /\ row.status = status /\ row.capability = "revoked"
        /\ row.task = dispatch[d].task
    BY <1>1, <2>1, SettledRow
  <2>4. /\ next \in DispatchRow /\ next.status = status /\ next.capability = "revoked"
        /\ next.task = dispatch[d].task /\ next.worker = worker
    BY <2>2, <2>3, WithWorkerRow
  <2>5. dispatch'[d] = next /\ \A e \in DispatchId \ {d} : dispatch'[e] = dispatch[e]
    BY <1>3 DEF WorkerReport, TypeOK
  <2>6. OnlyAttempt(d)
    BY <1>3, <2>1, <2>4, <2>5, CloseAttempt DEF WorkerReport
  <2> QED
    BY <1>3, <2>6 DEF AttemptsStep, WorkerReport
<1>4. ASSUME NEW h \in Handle, TerminalExit(h)
      PROVE  AttemptsStep
  <2>1. PICK d \in DispatchId : Active(d) /\ FailDispatch(d)
    BY <1>4 DEF TerminalExit
  <2>2. OnlyAttempt(d)
    BY <1>4, <2>1, FailAttempt DEF TerminalExit, FailDispatch, Active, ActiveStatus
  <2> QED
    BY <1>4, <2>2 DEF AttemptsStep, TerminalExit
<1>5. ASSUME NEW d \in DispatchId, FailDispatchTorn(d)
      PROVE  AttemptsStep
  <2>1. dispatch[d].status # "absent"
    BY <1>1, <1>5 DEF FailDispatchTorn, Active, ActiveStatus, RowInv
  <2>2. OnlyAttempt(d)
    BY <1>5, <2>1, FailAttempt, RebootAttempts DEF FailDispatchTorn
  <2> QED
    BY <1>5, <2>2, RebootAttempts DEF AttemptsStep, FailDispatchTorn
<1>6. CASE Restart
  BY <1>6, RebootAttempts DEF AttemptsStep, Restart
<1>7. ASSUME NEW t \in Task, NEW h \in Handle, NEW inject \in BOOLEAN, DispatchTask(t, h, inject)
      PROVE  AttemptsStep
  <2>1. PICK d \in DispatchId, failures \in {0} \cup {dispatch[e].failures : e \in DispatchId} :
          /\ Fresh(d)
          /\ dispatch' = [dispatch EXCEPT ![d] =
               [task |-> t, status |-> "dispatched", assignee |-> h, failures |-> failures,
                capability |-> IF inject THEN "live" ELSE "none", worker |-> "none"]]
          /\ calls' = [calls EXCEPT ![d] = IF inject THEN "inject" ELSE "none"]
    BY <1>7 DEF DispatchTask
  <2> DEFINE next == [task |-> t, status |-> "dispatched", assignee |-> h, failures |-> failures,
                      capability |-> IF inject THEN "live" ELSE "none", worker |-> "none"]
  <2>2. failures \in Nat
    BY <1>1 DEF DispatchRow
  <2>3. next \in DispatchRow /\ next.status \in ActiveStatus
    BY <2>2 DEF DispatchRow, ActiveStatus
  <2>4. dispatch'[d] = next /\ \A e \in DispatchId \ {d} : dispatch'[e] = dispatch[e]
    BY <2>1 DEF TypeOK
  <2>5. \A e \in DispatchId \ {d} : calls'[e] = calls[e]
    BY <2>1 DEF TypeOK
  <2>6. OnlyAttempt(d)
    BY <2>1, <2>3, <2>4, <2>5, OpenAttempt
  <2> QED
    BY <1>7, <2>6 DEF AttemptsStep, DispatchTask
<1>8. ASSUME NEW t \in Task, NEW h \in Handle, DispatchTaskTorn(t, h)
      PROVE  AttemptsStep
  <2>1. PICK d \in DispatchId, failures \in {0} \cup {dispatch[e].failures : e \in DispatchId} :
          /\ Fresh(d)
          /\ dispatch' = [dispatch EXCEPT ![d] =
               [task |-> t, status |-> "dispatched", assignee |-> h, failures |-> failures,
                capability |-> "none", worker |-> "none"]]
    BY <1>8 DEF DispatchTaskTorn
  <2> DEFINE next == [task |-> t, status |-> "dispatched", assignee |-> h, failures |-> failures,
                      capability |-> "none", worker |-> "none"]
  <2>2. failures \in Nat
    BY <1>1 DEF DispatchRow
  <2>3. next \in DispatchRow /\ next.status \in ActiveStatus
    BY <2>2 DEF DispatchRow, ActiveStatus
  <2>4. dispatch'[d] = next /\ \A e \in DispatchId \ {d} : dispatch'[e] = dispatch[e]
    BY <2>1 DEF TypeOK
  <2>5. OnlyAttempt(d)
    BY <1>8, <2>1, <2>3, <2>4, OpenAttempt, RebootAttempts DEF DispatchTaskTorn
  <2> QED
    BY <1>8, <2>5, RebootAttempts DEF AttemptsStep, DispatchTaskTorn
<1>9. ASSUME NEW d \in DispatchId, PromptAccepted(d)
      PROVE  AttemptsStep
  BY <1>9 DEF PromptAccepted, Return, AttemptsStep, TypeOK
<1>10. ASSUME NEW d \in DispatchId, PromptRejected(d)
       PROVE  AttemptsStep
  <2>1. dispatch[d].status # "absent"
    BY <1>1, <1>10 DEF PromptRejected, RowInv
  <2>2. \A e \in DispatchId : calls'[e] \in {calls[e], "none"}
    BY <1>10 DEF PromptRejected, Return, TypeOK
  <2>3. OnlyAttempt(d)
    BY <1>10, <2>1, <2>2, FailAttempt DEF PromptRejected, FailDispatch
  <2> QED
    BY <1>10, <2>3 DEF AttemptsStep, PromptRejected
<1>11. ASSUME NEW d \in DispatchId, ReleaseContextOnly(d)
       PROVE  AttemptsStep
  <2> DEFINE next == Settled(dispatch[d], "failed")
  <2>1. "failed" \in ClosedStatus /\ dispatch[d].status # "absent"
    BY <1>11 DEF ClosedStatus, ReleaseContextOnly, Active, ActiveStatus
  <2>2. /\ next \in DispatchRow /\ next.status = "failed" /\ next.capability = "revoked"
        /\ next.task = dispatch[d].task /\ next.worker = dispatch[d].worker
    BY <1>1, <2>1, SettledRow
  <2>3. dispatch'[d] = next /\ \A e \in DispatchId \ {d} : dispatch'[e] = dispatch[e]
    BY <1>11 DEF ReleaseContextOnly, TypeOK
  <2>4. OnlyAttempt(d)
    BY <1>11, <2>1, <2>2, <2>3, CloseAttempt DEF ReleaseContextOnly
  <2> QED
    BY <1>11, <2>4 DEF AttemptsStep, ReleaseContextOnly
<1>12. ASSUME NEW t \in Task, StartWorker(t)
       PROVE  AttemptsStep
  <2> DEFINE next == [task |-> t, status |-> "pending", assignee |-> None, failures |-> 0,
                      capability |-> "none", worker |-> "starting"]
  <2>1. PICK d \in DispatchId : /\ Fresh(d)
                                /\ dispatch' = [dispatch EXCEPT ![d] = next]
                                /\ calls' = [calls EXCEPT ![d] = "start"]
    BY <1>12 DEF StartWorker
  <2>2. next \in DispatchRow /\ next.status \in ActiveStatus
    BY DEF DispatchRow, ActiveStatus, WorkerState
  <2>3. dispatch'[d] = next /\ \A e \in DispatchId \ {d} : dispatch'[e] = dispatch[e]
    BY <2>1 DEF TypeOK
  <2>4. \A e \in DispatchId \ {d} : calls'[e] = calls[e]
    BY <2>1 DEF TypeOK
  <2>5. OnlyAttempt(d)
    BY <2>1, <2>2, <2>3, <2>4, OpenAttempt
  <2> QED
    BY <1>12, <2>5 DEF AttemptsStep, StartWorker
<1>13. ASSUME NEW d \in DispatchId, NEW h \in Handle, PrepareWorker(d, h)
       PROVE  AttemptsStep
  <2> DEFINE next == [dispatch[d] EXCEPT !.assignee = h, !.capability = "live"]
  <2>1. /\ next.status = dispatch[d].status /\ next.capability = "live"
        /\ next.worker = dispatch[d].worker /\ next.task = dispatch[d].task
    BY <1>1 DEF DispatchRow
  <2>2. /\ dispatch'[d] = next /\ \A e \in DispatchId \ {d} : dispatch'[e] = dispatch[e]
        /\ calls'[d] = "prompt" /\ \A e \in DispatchId \ {d} : calls'[e] = calls[e]
    BY <1>13 DEF PrepareWorker, TypeOK
  <2>3. dispatch[d].capability = "none"
    BY <1>1, <1>13 DEF PrepareWorker, RowInv
  <2>4. RowInv(next, "prompt")
    BY <1>1, <1>13, <2>1
    DEF PrepareWorker, RowInv, ActiveStatus, ClosedStatus, SettledState
  <2>5. RowStep(dispatch[d], next)
    BY <1>13, <2>1, <2>3 DEF PrepareWorker, RowStep, Phase, ActiveStatus
  <2>6. OnlyAttempt(d)
    BY <2>1, <2>2, <2>4, <2>5 DEF OnlyAttempt
  <2> QED
    BY <1>13, <2>6 DEF AttemptsStep, PrepareWorker
<1>14. ASSUME NEW d \in DispatchId, WorkerReady(d)
       PROVE  AttemptsStep
  <2> DEFINE next == [dispatch[d] EXCEPT !.status = "dispatched", !.worker = "ready"]
  <2>1. /\ next.status = "dispatched" /\ next.capability = dispatch[d].capability
        /\ next.worker = "ready" /\ next.task = dispatch[d].task
    BY <1>1 DEF DispatchRow
  <2>2. /\ dispatch'[d] = next /\ \A e \in DispatchId \ {d} : dispatch'[e] = dispatch[e]
        /\ calls'[d] = "none" /\ \A e \in DispatchId \ {d} : calls'[e] = calls[e]
    BY <1>14 DEF WorkerReady, Return, TypeOK
  <2>3. RowInv(next, "none")
    BY <1>1, <1>14, <2>1
    DEF WorkerReady, RowInv, ActiveStatus, ClosedStatus, SettledState
  <2>4. RowStep(dispatch[d], next)
    BY <1>14, <2>1 DEF WorkerReady, RowStep, Phase, ActiveStatus
  <2>5. OnlyAttempt(d)
    BY <2>1, <2>2, <2>3, <2>4 DEF OnlyAttempt
  <2> QED
    BY <1>14, <2>5 DEF AttemptsStep, WorkerReady
<1>15. ASSUME NEW d \in DispatchId, FailStart(d)
       PROVE  AttemptsStep
  <2> DEFINE row == Settled(dispatch[d], "failed")
             next == WithWorker(row, "failed")
  <2>1. \A e \in DispatchId : calls'[e] \in {calls[e], "none"}
    BY <1>15 DEF FailStart, Return, TypeOK
  <2>2. CASE dispatch[d].worker = "starting"
    <3>1. /\ "failed" \in ClosedStatus
          /\ "failed" \in WorkerState \cup {"none"}
          /\ dispatch[d].status # "absent"
      BY <1>1, <1>15 DEF ClosedStatus, WorkerState, SettledState, FailStart, RowInv
    <3>2. /\ row \in DispatchRow /\ row.status = "failed" /\ row.capability = "revoked"
          /\ row.task = dispatch[d].task
      BY <1>1, <3>1, SettledRow
    <3>3. /\ next \in DispatchRow /\ next.status = "failed" /\ next.capability = "revoked"
          /\ next.task = dispatch[d].task /\ next.worker = "failed"
      BY <3>1, <3>2, WithWorkerRow
    <3>4. dispatch'[d] = next /\ \A e \in DispatchId \ {d} : dispatch'[e] = dispatch[e]
      BY <1>15, <2>2 DEF FailStart, TypeOK
    <3>5. OnlyAttempt(d)
      BY <2>1, <3>1, <3>3, <3>4, CloseAttempt
    <3> QED
      BY <1>15, <3>5 DEF AttemptsStep, FailStart
  <2>3. CASE dispatch[d].worker # "starting"
    BY <1>15, <2>1, <2>3 DEF AttemptsStep, FailStart
  <2> QED
    BY <2>2, <2>3
<1>16. ASSUME NEW d \in DispatchId, MarkStartUnknown(d),
              \A e \in DispatchId : calls'[e] \in {calls[e], "none"}
       PROVE  OnlyAttempt(d)
  <2> DEFINE next == [dispatch[d] EXCEPT !.worker = "start_unknown", !.capability = "revoked"]
  <2>1. /\ next.status = dispatch[d].status /\ next.capability = "revoked"
        /\ next.worker = "start_unknown" /\ next.task = dispatch[d].task
    BY <1>1 DEF DispatchRow
  <2>2. dispatch'[d] = next /\ \A e \in DispatchId \ {d} : dispatch'[e] = dispatch[e]
    BY <1>16 DEF MarkStartUnknown, TypeOK
  <2>3. RowInv(next, calls'[d])
    BY <1>1, <1>16, <2>1 DEF MarkStartUnknown, RowInv, SettledState
  <2>4. RowStep(dispatch[d], next)
    BY <1>1, <1>16, <2>1
    DEF MarkStartUnknown, RowInv, RowStep, Phase, DispatchRow, ActiveStatus, ClosedStatus
  <2> QED
    BY <1>16, <2>1, <2>2, <2>3, <2>4 DEF OnlyAttempt
<1>17. ASSUME NEW d \in DispatchId, StartUnknown(d)
       PROVE  AttemptsStep
  <2>1. \A e \in DispatchId : calls'[e] \in {calls[e], "none"}
    BY <1>17 DEF StartUnknown, Return, TypeOK
  <2>2. OnlyAttempt(d)
    BY <1>16, <1>17, <2>1 DEF StartUnknown
  <2> QED
    BY <1>17, <2>2 DEF AttemptsStep, StartUnknown
<1>18. ASSUME NEW d \in DispatchId, BeginStop(d)
       PROVE  AttemptsStep
  <2> DEFINE next == [dispatch[d] EXCEPT !.worker = "stopping", !.capability = "revoked"]
  <2>1. /\ next.status = dispatch[d].status /\ next.capability = "revoked"
        /\ next.worker = "stopping" /\ next.task = dispatch[d].task
    BY <1>1 DEF DispatchRow
  <2>2. /\ dispatch'[d] = next /\ \A e \in DispatchId \ {d} : dispatch'[e] = dispatch[e]
        /\ calls'[d] = "stop" /\ \A e \in DispatchId \ {d} : calls'[e] = calls[e]
    BY <1>18 DEF BeginStop, TypeOK
  <2>3. RowInv(next, "stop")
    BY <1>1, <1>18, <2>1 DEF BeginStop, RowInv, SettledState
  <2>4. RowStep(dispatch[d], next)
    BY <1>1, <1>18, <2>1
    DEF BeginStop, RowInv, RowStep, Phase, DispatchRow, ActiveStatus, ClosedStatus
  <2>5. OnlyAttempt(d)
    BY <2>1, <2>2, <2>3, <2>4 DEF OnlyAttempt
  <2> QED
    BY <1>18, <2>5 DEF AttemptsStep, BeginStop
<1>19. ASSUME NEW d \in DispatchId, SettleStop(d)
       PROVE  AttemptsStep
  <2> DEFINE next == [dispatch[d] EXCEPT
                        !.worker = "stopped",
                        !.status = IF @ \in ActiveStatus THEN "failed" ELSE @]
  <2>1. /\ next.capability = dispatch[d].capability /\ next.task = dispatch[d].task
        /\ next.worker = "stopped" /\ next \in DispatchRow
    BY <1>1 DEF DispatchRow, ClosedStatus, WorkerState, SettledState
  <2>2. dispatch[d].capability = "revoked" /\ dispatch[d].status # "absent"
    BY <1>1, <1>19 DEF SettleStop, RowInv, WorkerState, SettledState
  <2>3. next.status \in ClosedStatus
    BY <1>1, <2>2 DEF DispatchRow, ClosedStatus
  <2>4. dispatch'[d] = next /\ \A e \in DispatchId \ {d} : dispatch'[e] = dispatch[e]
    BY <1>19 DEF SettleStop, TypeOK
  <2>5. \A e \in DispatchId : calls'[e] \in {calls[e], "none"}
    BY <1>19 DEF SettleStop, Return, TypeOK
  <2>6. OnlyAttempt(d)
    BY <2>1, <2>2, <2>3, <2>4, <2>5, CloseAttempt
  <2> QED
    BY <1>19, <2>6 DEF AttemptsStep, SettleStop
<1>20. ASSUME NEW d \in DispatchId, MarkStopUnknown(d),
              \A e \in DispatchId : calls'[e] \in {calls[e], "none"}
       PROVE  OnlyAttempt(d)
  <2> DEFINE worker == IF dispatch[d].worker = "stopping" THEN "stop_unknown"
                       ELSE dispatch[d].worker
             next == WithWorker(dispatch[d], worker)
  <2>1. worker \in WorkerState \cup {"none"}
    BY <1>1 DEF DispatchRow, WorkerState
  <2>2. /\ next.status = dispatch[d].status /\ next.capability = dispatch[d].capability
        /\ next.worker = worker /\ next.task = dispatch[d].task
    BY <1>1, <2>1, WithWorkerRow
  <2>3. dispatch'[d] = next /\ \A e \in DispatchId \ {d} : dispatch'[e] = dispatch[e]
    BY <1>20 DEF MarkStopUnknown, TypeOK
  <2>4. RowInv(next, calls'[d])
    BY <1>1, <1>20, <2>2 DEF RowInv, WorkerState, SettledState
  <2>5. RowStep(dispatch[d], next)
    BY <2>2 DEF RowStep, Phase
  <2> QED
    BY <1>20, <2>2, <2>3, <2>4, <2>5 DEF OnlyAttempt
<1>21. ASSUME NEW d \in DispatchId, StopUnknown(d)
       PROVE  AttemptsStep
  <2>1. \A e \in DispatchId : calls'[e] \in {calls[e], "none"}
    BY <1>21 DEF StopUnknown, Return, TypeOK
  <2>2. OnlyAttempt(d)
    BY <1>20, <1>21, <2>1 DEF StopUnknown
  <2> QED
    BY <1>21, <2>2 DEF AttemptsStep, StopUnknown
<1>22. ASSUME NEW d \in DispatchId, Abandon(d)
       PROVE  AttemptsStep
  <2> DEFINE status == IF Active(d) THEN "failed" ELSE dispatch[d].status
             row == Settled(dispatch[d], status)
             next == WithWorker(row, "abandoned")
  <2>1. dispatch[d].status # "absent"
    BY <1>1, <1>22 DEF Abandon, RowInv
  <2>2. status \in ClosedStatus
    BY <1>1, <2>1 DEF DispatchRow, ClosedStatus, Active
  <2>3. /\ row \in DispatchRow /\ row.status = status /\ row.capability = "revoked"
        /\ row.task = dispatch[d].task
    BY <1>1, <2>2, SettledRow
  <2>4. /\ next \in DispatchRow /\ next.status = status /\ next.capability = "revoked"
        /\ next.task = dispatch[d].task /\ next.worker = "abandoned"
    BY <2>3, WithWorkerRow DEF WorkerState, SettledState
  <2>5. dispatch'[d] = next /\ \A e \in DispatchId \ {d} : dispatch'[e] = dispatch[e]
    BY <1>22 DEF Abandon, TypeOK
  <2>6. OnlyAttempt(d)
    BY <1>22, <2>1, <2>2, <2>4, <2>5, CloseAttempt DEF Abandon
  <2> QED
    BY <1>22, <2>6 DEF AttemptsStep, Abandon
<1>23. ASSUME NEW d \in DispatchId, ShowWorker(d)
       PROVE  AttemptsStep
  <2>1. OnlyAttempt(d)
    BY <1>16, <1>20, <1>23 DEF ShowWorker
  <2> QED
    BY <1>23, <2>1 DEF AttemptsStep, ShowWorker
<1>24. ASSUME NEW d \in DispatchId, ReconcileMissing(d)
       PROVE  AttemptsStep
  <2>1. CASE dispatch[d].worker \in SettledState
    BY <1>24, <2>1 DEF ReconcileMissing, AttemptsStep
  <2>2. CASE dispatch[d].worker \notin SettledState
    <3> DEFINE gone == IF dispatch[d].worker \in {"stopping", "stop_unknown"}
                       THEN "stopped" ELSE "abandoned"
               row == IF Active(d) THEN Failed(dispatch[d]) ELSE dispatch[d]
               next == WithWorker(row, gone)
    <3>1. dispatch[d].worker # "none"
      BY <1>24 DEF ReconcileMissing, AttemptInv
    <3>2. dispatch[d].status # "absent"
      BY <1>1, <3>1 DEF RowInv
    <3>3. /\ row \in DispatchRow /\ row.status \in ClosedStatus
          /\ row.capability = "revoked" /\ row.task = dispatch[d].task
      <4>1. CASE Active(d)
        BY <1>1, <4>1, FailedRow
      <4>2. CASE ~Active(d)
        BY <1>1, <3>2, <4>2 DEF Active, RowInv, DispatchRow
      <4> QED
        BY <4>1, <4>2
    <3>4. gone \in WorkerState \cup {"none"} /\ gone # "none"
      BY DEF WorkerState, SettledState
    <3>5. /\ next \in DispatchRow /\ next.status \in ClosedStatus
          /\ next.capability = "revoked" /\ next.task = dispatch[d].task /\ next.worker # "none"
      BY <3>3, <3>4, WithWorkerRow
    <3>6. dispatch'[d] = next /\ \A e \in DispatchId \ {d} : dispatch'[e] = dispatch[e]
      BY <1>24, <2>2 DEF ReconcileMissing, TypeOK
    <3>7. OnlyAttempt(d)
      BY <1>24, <3>2, <3>5, <3>6, CloseAttempt DEF ReconcileMissing
    <3> QED
      BY <1>24, <3>7 DEF AttemptsStep, ReconcileMissing
  <2> QED
    BY <2>1, <2>2
<1>25. ASSUME NEW t \in Task, NEW status \in TaskStatus, UpdateTask(t, status)
       PROVE  AttemptsStep
  <2>1. CASE status = "completed"
    BY <1>25, <2>1, CompleteAttempt DEF UpdateTask, AttemptsStep
  <2>2. CASE status # "completed"
    BY <1>25, <2>2 DEF UpdateTask, AttemptsStep
  <2> QED
    BY <2>1, <2>2
<1>26. ASSUME NEW t \in Task, UpdateTaskTorn(t)
       PROVE  AttemptsStep
  BY <1>26, RebootAttempts DEF UpdateTaskTorn, AttemptsStep
<1>27. ASSUME NEW g \in Gate, NEW t \in Task, CreateGate(g, t)
       PROVE  AttemptsStep
  BY <1>27, CompleteAttempt DEF CreateGate, AttemptsStep
<1>28. ASSUME NEW g \in Gate, NEW t \in Task, CreateGateTorn(g, t)
       PROVE  AttemptsStep
  BY <1>28, RebootAttempts, CompleteAttempt DEF CreateGateTorn, AttemptsStep
<1>29. ASSUME NEW g \in Gate, ResolveGate(g) \/ ResolveGateTorn(g)
       PROVE  AttemptsStep
  BY <1>29, RebootAttempts DEF ResolveGate, ResolveGateTorn, AttemptsStep
<1>30. CASE UNCHANGED vars
  BY <1>30 DEF vars, AttemptsStep
<1> QED
  BY <1>2, <1>3, <1>4, <1>5, <1>6, <1>7, <1>8, <1>9, <1>10, <1>11, <1>12, <1>13, <1>14,
     <1>15, <1>17, <1>18, <1>19, <1>21, <1>22, <1>23, <1>24, <1>25, <1>26, <1>27, <1>28,
     <1>29, <1>30
  DEF Next, SharedNext, ManualNext, SupervisedNext, OverrideNext, StartStep, StopStep

\* AttemptInv is inductive.
LEMMA AttemptInvStep ==
  ASSUME TypeOK, AttemptInv, [Next]_vars
  PROVE  AttemptInv'
<1>1. AttemptsStep
  BY AttemptsNext
<1>2. \A d \in DispatchId : RowInv(dispatch[d], calls[d])
  BY DEF AttemptInv
<1>3. ASSUME NEW e \in DispatchId,
             dispatch'[e] = dispatch[e], calls'[e] \in {calls[e], "none"}
      PROVE  RowInv(dispatch'[e], calls'[e])
  BY <1>2, <1>3, NothingParked
<1>4. /\ \A e \in DispatchId : RowInv(dispatch'[e], calls'[e])
      /\ \A e \in DispatchId : dispatch[e].worker # "none" => dispatch'[e].worker # "none"
  <2>1. CASE dispatch' = dispatch /\ \A e \in DispatchId : calls'[e] \in {calls[e], "none"}
    BY <1>3, <2>1
  <2>2. CASE \E d \in DispatchId : OnlyAttempt(d)
    BY <1>3, <2>2 DEF OnlyAttempt
  <2> QED
    BY <1>1, <2>1, <2>2 DEF AttemptsStep
<1>5. \A e \in recovery' : dispatch'[e].worker # "none"
  BY <1>1, <1>4 DEF AttemptsStep, AttemptInv, TypeOK
<1> QED
  BY <1>4, <1>5 DEF AttemptInv

\* Both invariants hold in every behaviour.
THEOREM AttemptInvariant == Spec => [](TypeOK /\ AttemptInv)
<1>1. Init => TypeOK /\ AttemptInv
  BY DEF Init, TypeOK, TaskRow, DispatchRow, AttemptInv, RowInv, ActiveStatus, ClosedStatus,
         WorkerState, SettledState
<1>2. TypeOK /\ AttemptInv /\ [Next]_vars => TypeOK' /\ AttemptInv'
  BY TypeStep, AttemptInvStep
<1> QED
  BY <1>1, <1>2, PTL DEF Spec

\* The capability of an attempt is revoked by every path that closes the attempt
\* or puts its worker beyond "ready".
THEOREM AuthorityEnds == Spec => []AuthorityEndsWithAttempt
<1>1. AttemptInv => AuthorityEndsWithAttempt
  BY DEF AttemptInv, RowInv, AuthorityEndsWithAttempt
<1> QED
  BY <1>1, AttemptInvariant, PTL

\* dispatch_contexts and worker_dispatches agree on which attempts are over,
\* though exits, gates and overrides write only the first.
THEOREM TablesAgree == Spec => []SettledWorkerIsInactive
<1>1. AttemptInv => SettledWorkerIsInactive
  BY DEF AttemptInv, RowInv, SettledWorkerIsInactive, Active
<1> QED
  BY <1>1, AttemptInvariant, PTL

-----------------------------------------------------------------------------
(* TaskDispatch implements AttemptLifecycle. *)

\* A step that touches one attempt is a step of that attempt's life, or none.
LEMMA OnlyAttemptRefines ==
  ASSUME TypeOK, NEW d \in DispatchId, OnlyAttempt(d)
  PROVE  [Lifecycle!Next]_(Lifecycle!vars)
<1> DEFINE phase == [e \in DispatchId |-> Phase(dispatch[e])]
           nextPhase == [e \in DispatchId |-> Phase(dispatch'[e])]
           authority == [e \in DispatchId |-> dispatch[e].capability]
           nextAuthority == [e \in DispatchId |-> dispatch'[e].capability]
<1>1. \A e \in DispatchId \ {d} : dispatch'[e] = dispatch[e]
  BY DEF OnlyAttempt
<1>2. nextPhase = [phase EXCEPT ![d] = Phase(dispatch'[d])]
  BY <1>1
<1>3. nextAuthority = [authority EXCEPT ![d] = dispatch'[d].capability]
  BY <1>1
<1>4. CASE Phase(dispatch'[d]) = Phase(dispatch[d])
           /\ dispatch'[d].capability = dispatch[d].capability
  <2>1. nextPhase = phase /\ nextAuthority = authority
    BY <1>2, <1>3, <1>4
  <2> QED
    BY <2>1 DEF Lifecycle!vars
<1>5. CASE Phase(dispatch[d]) = "none" /\ Phase(dispatch'[d]) = "open"
           /\ dispatch'[d].capability \in {"none", "live"}
  <2>1. Lifecycle!Open(d)
    BY <1>2, <1>3, <1>5 DEF Lifecycle!Open
  <2> QED
    BY <2>1 DEF Lifecycle!Next
<1>6. CASE Phase(dispatch[d]) = "open" /\ Phase(dispatch'[d]) = "open"
           /\ dispatch[d].capability = "none" /\ dispatch'[d].capability = "live"
  <2>1. nextPhase = phase
    BY <1>2, <1>6
  <2>2. Lifecycle!Grant(d)
    BY <1>3, <1>6, <2>1 DEF Lifecycle!Grant
  <2> QED
    BY <2>2 DEF Lifecycle!Next
<1>7. CASE Phase(dispatch[d]) = "open" /\ Phase(dispatch'[d]) = "open"
           /\ dispatch'[d].capability = "revoked"
  <2>1. nextPhase = phase
    BY <1>2, <1>7
  <2>2. Lifecycle!Revoke(d)
    BY <1>3, <1>7, <2>1 DEF Lifecycle!Revoke
  <2> QED
    BY <2>2 DEF Lifecycle!Next
<1>8. CASE Phase(dispatch[d]) = "open" /\ Phase(dispatch'[d]) = "closed"
           /\ dispatch'[d].capability = "revoked"
  <2>1. Lifecycle!Close(d)
    BY <1>2, <1>3, <1>8 DEF Lifecycle!Close
  <2> QED
    BY <2>1 DEF Lifecycle!Next
<1> QED
  BY <1>4, <1>5, <1>6, <1>7, <1>8 DEF OnlyAttempt, RowStep

\* Initial states map to initial states, and every step maps to a step of one
\* attempt's life or to a stutter.
THEOREM LifecycleRefinement == Spec => ImplementsLifecycle
<1>1. Init => Lifecycle!Init
  BY DEF Init, Lifecycle!Init, Phase
<1>2. TypeOK /\ AttemptInv /\ [Next]_vars => [Lifecycle!Next]_(Lifecycle!vars)
  <2> SUFFICES ASSUME TypeOK, AttemptInv, [Next]_vars
               PROVE  [Lifecycle!Next]_(Lifecycle!vars)
    OBVIOUS
  <2>1. AttemptsStep
    BY AttemptsNext
  <2>2. CASE dispatch' = dispatch
    BY <2>2 DEF Lifecycle!vars
  <2> QED
    BY <2>1, <2>2, OnlyAttemptRefines DEF AttemptsStep
<1> QED
  BY <1>1, <1>2, AttemptInvariant, PTL DEF Spec, ImplementsLifecycle, Lifecycle!Spec

=============================================================================
