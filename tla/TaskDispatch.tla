---------------------------- MODULE TaskDispatch ----------------------------
(***************************************************************************)
(* Task and Dispatch state of TeamRun orchestration.                       *)
(*                                                                         *)
(* OrchestrationDb (src/main/runtime/orchestration/db.ts) keeps tasks,     *)
(* dispatch_contexts, worker_dispatches and decision_gates in SQLite.  Its *)
(* methods are synchronous, so each is one step unless the process dies in *)
(* the middle of it; those that open no transaction then leave the rows    *)
(* written so far (the Torn actions).  The RPC handlers that call them     *)
(* await terminals and prompts in between, and it is there that other      *)
(* handlers, process exits and restarts interleave.  calls[d] is the await *)
(* at which the handler that owns attempt d is parked.                     *)
(*                                                                         *)
(* One Run is modelled.  A terminal handle stands for the pane behind it.  *)
(***************************************************************************)
EXTENDS Naturals, FiniteSets

CONSTANTS
  Task,         \* the tasks a coordinator may create in the Run
  Handle,       \* terminal handles
  Gate,         \* the decision gates that may be created
  None,         \* the SQL NULL
  MaxDispatch,  \* bound: attempts created, numbered in rowid order
  MaxRestart    \* bound: restarts of the runtime process

ASSUME NoneAssumption == None \notin Task \cup Handle
ASSUME BoundsAssumption == MaxDispatch \in Nat /\ MaxRestart \in Nat

VARIABLES
  task,      \* tasks: status and deps
  dispatch,  \* dispatch_contexts joined with worker_dispatches
  gate,      \* decision_gates
  calls,     \* the await each attempt's RPC handler is parked at
  orphans,   \* attempts whose worker row carries an earlier runtime_epoch
  recovery,  \* attempts the startup recovery plan still has to look at
  restarts   \* restarts so far

vars == <<task, dispatch, gate, calls, orphans, recovery, restarts>>

DispatchId == 1 .. MaxDispatch

TaskStatus == {"pending", "ready", "dispatched", "completed", "failed", "blocked"}
ActiveStatus == {"pending", "dispatched"}
ClosedStatus == {"completed", "failed", "circuit_broken"}
SettledState == {"succeeded", "failed", "stopped", "abandoned"}
WorkerState == {"starting", "ready", "start_unknown", "stopping", "stop_unknown"}
                  \cup SettledState

\* failDispatch trips the circuit breaker at this failure_count.
FailureLimit == 3

TaskRow == [status : TaskStatus \cup {"absent"}, deps : SUBSET Task]

DispatchRow ==
  [task : Task \cup {None},
   status : ActiveStatus \cup ClosedStatus \cup {"absent"},
   assignee : Handle \cup {None},
   failures : Nat,
   capability : {"none", "live", "revoked"},
   worker : WorkerState \cup {"none"}]

\* The rows keep their declared shape (schema of db.ts and types.ts).
TypeOK ==
  /\ task \in [Task -> TaskRow]
  /\ dispatch \in [DispatchId -> DispatchRow]
  /\ gate \in [Gate -> [task : Task \cup {None}, status : {"absent", "pending", "resolved"}]]
  /\ calls \in [DispatchId -> {"none", "inject", "start", "prompt", "stop"}]
  /\ orphans \in SUBSET DispatchId
  /\ recovery \in SUBSET DispatchId
  /\ restarts \in Nat

Init ==
  /\ task = [t \in Task |-> [status |-> "absent", deps |-> {}]]
  /\ dispatch = [d \in DispatchId |->
       [task |-> None, status |-> "absent", assignee |-> None, failures |-> 0,
        capability |-> "none", worker |-> "none"]]
  /\ gate = [g \in Gate |-> [task |-> None, status |-> "absent"]]
  /\ calls = [d \in DispatchId |-> "none"]
  /\ orphans = {}
  /\ recovery = {}
  /\ restarts = 0

-----------------------------------------------------------------------------
(* Queries and row updates shared by the operations. *)

Created == {t \in Task : task[t].status # "absent"}

Active(d) == dispatch[d].status \in ActiveStatus

\* getDispatchContext: the row with the greatest rowid of its task.
Latest(d) == \A e \in DispatchId : dispatch[e].task = dispatch[d].task => e <= d

\* The id the next INSERT receives.
Fresh(d) == \A e \in DispatchId : dispatch[e].status # "absent" <=> e < d

WithStatus(t, status) == [task EXCEPT ![t].status = status]

WithWorker(row, state) == [row EXCEPT !.worker = state]

\* Leaving the active states always revokes the lifecycle capability.
Settled(row, status) == [row EXCEPT !.status = status, !.capability = "revoked"]

Promote(table, done) ==
  [t \in Task |->
     IF /\ table[t].status = "pending"
        /\ done \in table[t].deps
        /\ \A u \in table[t].deps : table[u].status = "completed"
     THEN [table[t] EXCEPT !.status = "ready"]
     ELSE table[t]]

\* Mutant: completing through the override path forgets the capability.
CompleteActiveKeepingCapability(t) ==
  [d \in DispatchId |->
     IF dispatch[d].task = t /\ Active(d)
     THEN [dispatch[d] EXCEPT !.status = "completed"]
     ELSE dispatch[d]]

CompleteActive(t) ==
  [d \in DispatchId |->
     IF /\ dispatch[d].task = t
        /\ Active(d)
        /\ \A e \in DispatchId : dispatch[e].task = t /\ Active(e) => e <= d
     THEN Settled(dispatch[d], "completed")
     ELSE dispatch[d]]

Failed(row) ==
  [Settled(row, IF row.failures + 1 >= FailureLimit THEN "circuit_broken" ELSE "failed")
     EXCEPT !.failures = row.failures + 1]

\* The status a task is left in after one more failure of the attempt.
AfterFailure(row) == IF row.failures + 1 >= FailureLimit THEN "failed" ELSE "ready"

\* failDispatch looks at neither the dispatch's nor the task's current status.
FailDispatch(d) ==
  /\ dispatch' = [dispatch EXCEPT ![d] = Failed(dispatch[d])]
  /\ task' = WithStatus(dispatch[d].task, AfterFailure(dispatch[d]))

\* The greatest failure_count of the task's attempts, 0 if it has none.
CarriedForward(t, failures) ==
  LET counts == {0} \cup {dispatch[e].failures : e \in {f \in DispatchId : dispatch[f].task = t}} IN
  failures \in counts /\ \A n \in counts : n <= failures

Return(d) == calls' = [calls EXCEPT ![d] = "none"]

-----------------------------------------------------------------------------
(* Steps every way of working shares. *)

CreateTask(t, deps) ==
  /\ t \notin Created
  /\ deps \subseteq Created
  /\ LET done == \A u \in deps : task[u].status = "completed" IN
     task' = [task EXCEPT ![t] =
                [status |-> IF done THEN "ready" ELSE "pending", deps |-> deps]]
  /\ UNCHANGED <<dispatch, gate, calls, orphans, recovery, restarts>>

\* Mutant: a report completes its task without promoting the children.
WorkerReportWithoutPromotion(d, outcome) ==
  LET status == IF outcome = "succeeded" THEN "completed" ELSE "failed" IN
  /\ dispatch[d].status = "dispatched"
  /\ dispatch[d].capability # "revoked"
  /\ task[dispatch[d].task].status = "dispatched"
  /\ Latest(d)
  /\ dispatch' = [dispatch EXCEPT ![d] =
       WithWorker(Settled(@, status), IF @.worker = "ready" THEN outcome ELSE @.worker)]
  /\ task' = WithStatus(dispatch[d].task, status)
  /\ UNCHANGED <<gate, calls, orphans, recovery, restarts>>

\* An accepted worker_done.  Reports that fail a check change no row here.
WorkerReport(d, outcome) ==
  LET t == dispatch[d].task
      status == IF outcome = "succeeded" THEN "completed" ELSE "failed" IN
  /\ dispatch[d].status = "dispatched"
  /\ dispatch[d].capability # "revoked"
  /\ task[t].status = "dispatched"
  /\ Latest(d)
  /\ dispatch' = [dispatch EXCEPT ![d] =
       WithWorker(Settled(@, status), IF @.worker = "ready" THEN outcome ELSE @.worker)]
  /\ task' = IF outcome = "succeeded" THEN Promote(WithStatus(t, status), t)
                                      ELSE WithStatus(t, status)
  /\ UNCHANGED <<gate, calls, orphans, recovery, restarts>>

\* The agent process behind the handle exits.  The worker row is not touched.
TerminalExit(h) ==
  /\ \E d \in DispatchId : Active(d) /\ dispatch[d].assignee = h /\ FailDispatch(d)
  /\ UNCHANGED <<gate, calls, orphans, recovery, restarts>>

\* Tables survive a restart; parked handlers do not.  Startup recovery plans
\* over the active supervised attempts whose terminal it can tell apart.
Reboot ==
  LET unsettled == {d \in DispatchId : /\ dispatch'[d].worker \in WorkerState \ SettledState
                                       /\ dispatch'[d].assignee # None} IN
  /\ restarts < MaxRestart
  /\ restarts' = restarts + 1
  /\ calls' = [d \in DispatchId |-> "none"]
  /\ orphans' = {d \in DispatchId : dispatch'[d].worker # "none"}
  /\ recovery' = {d \in unsettled :
       /\ dispatch'[d].status \in ActiveStatus
       /\ \A e \in unsettled \ {d} : dispatch'[e].assignee # dispatch'[d].assignee}

Restart == UNCHANGED <<task, dispatch, gate>> /\ Reboot

\* The process dies between the two statements of failDispatch.
FailDispatchTorn(d) ==
  /\ \/ Active(d) /\ dispatch[d].assignee # None
     \/ calls[d] = "inject"
  /\ dispatch' = [dispatch EXCEPT ![d] = Failed(dispatch[d])]
  /\ UNCHANGED <<task, gate>>
  /\ Reboot

-----------------------------------------------------------------------------
(* The manual loop: dispatch --inject to a terminal that already exists. *)

\* Mutant: dispatch does not look for an active attempt of the assignee.
DispatchTaskUnlocked(t, h, inject) ==
  /\ task[t].status = "ready"
  /\ \E d \in DispatchId :
       /\ Fresh(d)
       /\ dispatch' = [dispatch EXCEPT ![d] =
            [task |-> t, status |-> "dispatched", assignee |-> h, failures |-> 0,
             capability |-> IF inject THEN "live" ELSE "none", worker |-> "none"]]
       /\ calls' = [calls EXCEPT ![d] = IF inject THEN "inject" ELSE "none"]
  /\ task' = WithStatus(t, "dispatched")
  /\ UNCHANGED <<gate, orphans, recovery, restarts>>

DispatchTask(t, h, inject) ==
  /\ task[t].status = "ready"
  /\ \A d \in DispatchId : Active(d) => dispatch[d].assignee # h
  /\ \E d \in DispatchId, failures \in {0} \cup {dispatch[e].failures : e \in DispatchId} :
       /\ Fresh(d)
       /\ CarriedForward(t, failures)
       /\ dispatch' = [dispatch EXCEPT ![d] =
            [task |-> t, status |-> "dispatched", assignee |-> h, failures |-> failures,
             capability |-> IF inject THEN "live" ELSE "none", worker |-> "none"]]
       /\ calls' = [calls EXCEPT ![d] = IF inject THEN "inject" ELSE "none"]
  /\ task' = WithStatus(t, "dispatched")
  /\ UNCHANGED <<gate, orphans, recovery, restarts>>

\* The process dies after the attempt is inserted, the task still on offer.
DispatchTaskTorn(t, h) ==
  /\ task[t].status = "ready"
  /\ \A d \in DispatchId : Active(d) => dispatch[d].assignee # h
  /\ \E d \in DispatchId, failures \in {0} \cup {dispatch[e].failures : e \in DispatchId} :
       /\ Fresh(d)
       /\ CarriedForward(t, failures)
       /\ dispatch' = [dispatch EXCEPT ![d] =
            [task |-> t, status |-> "dispatched", assignee |-> h, failures |-> failures,
             capability |-> "none", worker |-> "none"]]
  /\ UNCHANGED <<task, gate>>
  /\ Reboot

PromptAccepted(d) ==
  /\ calls[d] = "inject"
  /\ Return(d)
  /\ UNCHANGED <<task, dispatch, gate, orphans, recovery, restarts>>

\* The catch block after the await fails the attempt whatever became of it.
PromptRejected(d) ==
  /\ calls[d] = "inject"
  /\ FailDispatch(d)
  /\ Return(d)
  /\ UNCHANGED <<gate, orphans, recovery, restarts>>

\* worker-stop and worker-abandon of an attempt that has no worker row.
ReleaseContextOnly(d) ==
  /\ Active(d)
  /\ dispatch[d].worker = "none"
  /\ dispatch' = [dispatch EXCEPT ![d] = Settled(@, "failed")]
  /\ task' = IF Latest(d) THEN WithStatus(dispatch[d].task, "blocked") ELSE task
  /\ UNCHANGED <<gate, calls, orphans, recovery, restarts>>

-----------------------------------------------------------------------------
(* The supervised loop: worker-start, -show, -stop and -abandon. *)

\* Mutant: a retry does not wait for the earlier worker to settle.
StartWorkerUnsettled(t) ==
  /\ task[t].status \in {"ready", "failed", "blocked"}
  /\ \E d \in DispatchId :
       /\ Fresh(d)
       /\ dispatch' = [dispatch EXCEPT ![d] =
            [task |-> t, status |-> "pending", assignee |-> None, failures |-> 0,
             capability |-> "none", worker |-> "starting"]]
       /\ calls' = [calls EXCEPT ![d] = "start"]
  /\ task' = WithStatus(t, "dispatched")
  /\ UNCHANGED <<gate, orphans, recovery, restarts>>

StartWorker(t) ==
  /\ \/ task[t].status = "ready"
     \/ \* --retry-of the latest attempt, once its worker has settled
        /\ task[t].status \in {"failed", "blocked"}
        /\ \E p \in DispatchId : /\ dispatch[p].task = t
                                 /\ Latest(p)
                                 /\ dispatch[p].worker \in {"failed", "stopped", "abandoned"}
  /\ \E d \in DispatchId :
       /\ Fresh(d)
       /\ dispatch' = [dispatch EXCEPT ![d] =
            [task |-> t, status |-> "pending", assignee |-> None, failures |-> 0,
             capability |-> "none", worker |-> "starting"]]
       /\ calls' = [calls EXCEPT ![d] = "start"]
  /\ task' = WithStatus(t, "dispatched")
  /\ UNCHANGED <<gate, orphans, recovery, restarts>>

\* Mutant: attaching the terminal does not look at the attempt again.
PrepareWorkerUnchecked(d, h) ==
  /\ calls[d] = "start"
  /\ dispatch' = [dispatch EXCEPT ![d].assignee = h, ![d].capability = "live"]
  /\ calls' = [calls EXCEPT ![d] = "prompt"]
  /\ UNCHANGED <<task, gate, orphans, recovery, restarts>>

\* The terminal is up: attach it, and commit the capability, before prompting.
PrepareWorker(d, h) ==
  /\ calls[d] = "start"
  /\ dispatch[d].status = "pending" /\ dispatch[d].worker = "starting"
  /\ dispatch' = [dispatch EXCEPT ![d].assignee = h, ![d].capability = "live"]
  /\ calls' = [calls EXCEPT ![d] = "prompt"]
  /\ UNCHANGED <<task, gate, orphans, recovery, restarts>>

WorkerReady(d) ==
  /\ calls[d] = "prompt"
  /\ dispatch[d].status = "pending" /\ dispatch[d].worker = "starting"
  /\ dispatch' = [dispatch EXCEPT ![d].status = "dispatched", ![d].worker = "ready"]
  /\ Return(d)
  /\ UNCHANGED <<task, gate, orphans, recovery, restarts>>

\* failWorkerStart: refused once the worker has left "starting".
FailStart(d) ==
  /\ calls[d] \in {"start", "prompt"}
  /\ Return(d)
  /\ IF dispatch[d].worker = "starting"
     THEN /\ dispatch' = [dispatch EXCEPT ![d] = WithWorker(Settled(@, "failed"), "failed")]
          /\ task' = WithStatus(dispatch[d].task, "failed")
     ELSE UNCHANGED <<task, dispatch>>
  /\ UNCHANGED <<gate, orphans, recovery, restarts>>

MarkStartUnknown(d) ==
  /\ dispatch[d].worker = "starting"
  /\ dispatch' = [dispatch EXCEPT ![d].worker = "start_unknown", ![d].capability = "revoked"]
  /\ task' = WithStatus(dispatch[d].task, "blocked")

\* Creating the worktree may end in an unknown outcome instead of a failure.
StartUnknown(d) ==
  /\ calls[d] = "start"
  /\ MarkStartUnknown(d)
  /\ Return(d)
  /\ UNCHANGED <<gate, orphans, recovery, restarts>>

BeginStop(d) ==
  /\ dispatch[d].worker \in {"ready", "start_unknown"}
  /\ dispatch' = [dispatch EXCEPT ![d].worker = "stopping", ![d].capability = "revoked"]
  /\ task' = WithStatus(dispatch[d].task, "blocked")
  /\ calls' = [calls EXCEPT ![d] = "stop"]
  /\ UNCHANGED <<gate, orphans, recovery, restarts>>

\* Mutant: settling a stop leaves the dispatch row alone.
SettleStopWorkerOnly(d) ==
  /\ calls[d] = "stop"
  /\ dispatch[d].worker = "stopping"
  /\ dispatch[d].assignee # None
  /\ dispatch' = [dispatch EXCEPT ![d].worker = "stopped"]
  /\ Return(d)
  /\ UNCHANGED <<task, gate, orphans, recovery, restarts>>

\* Mutant: settling a stop writes the worker's state into the dispatch row.
SettleStopWrongTable(d) ==
  /\ calls[d] = "stop"
  /\ dispatch[d].worker = "stopping"
  /\ dispatch[d].assignee # None
  /\ dispatch' = [dispatch EXCEPT ![d].worker = "stopped", ![d].status = "stopped"]
  /\ Return(d)
  /\ UNCHANGED <<task, gate, orphans, recovery, restarts>>

\* closeTerminal returned; settleWorkerStop insists on "stopping".
SettleStop(d) ==
  /\ calls[d] = "stop"
  /\ dispatch[d].worker = "stopping"
  /\ dispatch[d].assignee # None
  /\ dispatch' = [dispatch EXCEPT
       ![d].worker = "stopped",
       ![d].status = IF @ \in ActiveStatus THEN "failed" ELSE @]
  /\ Return(d)
  /\ UNCHANGED <<task, gate, orphans, recovery, restarts>>

MarkStopUnknown(d) ==
  dispatch' = [dispatch EXCEPT ![d] =
    WithWorker(@, IF @.worker = "stopping" THEN "stop_unknown" ELSE @.worker)]

\* The process was not the exact one, or closing it failed.
StopUnknown(d) ==
  /\ calls[d] = "stop"
  /\ MarkStopUnknown(d)
  /\ Return(d)
  /\ UNCHANGED <<task, gate, orphans, recovery, restarts>>

Abandon(d) ==
  /\ dispatch[d].worker \notin {"none", "abandoned", "succeeded"}
  /\ Latest(d)
  /\ dispatch' = [dispatch EXCEPT ![d] =
       WithWorker(Settled(@, IF Active(d) THEN "failed" ELSE @.status), "abandoned")]
  /\ task' = WithStatus(dispatch[d].task, "blocked")
  /\ UNCHANGED <<gate, calls, orphans, recovery, restarts>>

\* Mutant: worker-show resolves interrupted stops only.
ShowWorkerStopsOnly(d) ==
  /\ d \in orphans
  /\ dispatch[d].worker = "stopping" /\ MarkStopUnknown(d) /\ UNCHANGED task
  /\ UNCHANGED <<gate, calls, orphans, recovery, restarts>>

\* Mutant: worker-show resolves interrupted starts only.
ShowWorkerStartsOnly(d) ==
  /\ d \in orphans
  /\ MarkStartUnknown(d)
  /\ UNCHANGED <<gate, calls, orphans, recovery, restarts>>

\* worker-show after a restart gives interrupted starts and stops an outcome.
ShowWorker(d) ==
  /\ d \in orphans
  /\ \/ MarkStartUnknown(d)
     \/ dispatch[d].worker = "stopping" /\ MarkStopUnknown(d) /\ UNCHANGED task
  /\ UNCHANGED <<gate, calls, orphans, recovery, restarts>>

\* Startup recovery finds that the planned attempt's terminal is gone.
ReconcileMissing(d) ==
  LET row == dispatch[d]
      stopWasPending == row.worker \in {"stopping", "stop_unknown"}
      gone == IF stopWasPending THEN "stopped" ELSE "abandoned" IN
  /\ d \in recovery
  /\ recovery' = recovery \ {d}
  /\ IF row.worker \in SettledState THEN UNCHANGED dispatch
     ELSE dispatch' = [dispatch EXCEPT ![d] =
            WithWorker(IF Active(d) THEN Failed(row) ELSE row, gone)]
  /\ task' = IF /\ row.worker \notin SettledState
                /\ Active(d) /\ ~stopWasPending
                /\ task[row.task].status \in {"dispatched", "blocked"}
             THEN WithStatus(row.task, AfterFailure(row))
             ELSE task
  /\ UNCHANGED <<gate, calls, orphans, restarts>>

-----------------------------------------------------------------------------
(* Coordinator overrides: task-update and decision gates. *)

UpdateTask(t, status) ==
  /\ t \in Created
  /\ task' = IF status = "completed" THEN Promote(WithStatus(t, status), t)
                                     ELSE WithStatus(t, status)
  /\ dispatch' = IF status = "completed" THEN CompleteActive(t) ELSE dispatch
  /\ UNCHANGED <<gate, calls, orphans, recovery, restarts>>

\* The process dies inside updateTaskStatus: some children are not promoted, or
\* all are and the attempt is not completed.
UpdateTaskTorn(t) ==
  /\ t \in Created
  /\ \E unpromoted \in SUBSET Task :
       task' = [u \in Task |->
                  IF u \in unpromoted \ {t} THEN task[u]
                  ELSE Promote(WithStatus(t, "completed"), t)[u]]
  /\ UNCHANGED <<dispatch, gate>>
  /\ Reboot

CreateGate(g, t) ==
  /\ gate[g].status = "absent"
  /\ t \in Created
  /\ gate' = [gate EXCEPT ![g] = [task |-> t, status |-> "pending"]]
  /\ dispatch' = CompleteActive(t)
  /\ task' = WithStatus(t, "blocked")
  /\ UNCHANGED <<calls, orphans, recovery, restarts>>

\* The process dies inside createGate: the gate exists, the task is not blocked.
CreateGateTorn(g, t) ==
  /\ gate[g].status = "absent"
  /\ t \in Created
  /\ gate' = [gate EXCEPT ![g] = [task |-> t, status |-> "pending"]]
  /\ dispatch' = dispatch \/ dispatch' = CompleteActive(t)
  /\ UNCHANGED task
  /\ Reboot

\* A resolved gate may be resolved again; the task becomes ready either way.
ResolveGate(g) ==
  /\ gate[g].status # "absent"
  /\ gate' = [gate EXCEPT ![g].status = "resolved"]
  /\ task' = WithStatus(gate[g].task, "ready")
  /\ UNCHANGED <<dispatch, calls, orphans, recovery, restarts>>

ResolveGateTorn(g) ==
  /\ gate[g].status # "absent"
  /\ gate' = [gate EXCEPT ![g].status = "resolved"]
  /\ UNCHANGED <<task, dispatch>>
  /\ Reboot

-----------------------------------------------------------------------------

SharedNext ==
  \/ \E t \in Task, deps \in SUBSET Task : CreateTask(t, deps)
  \/ \E d \in DispatchId, outcome \in {"succeeded", "failed"} : WorkerReport(d, outcome)
  \/ \E h \in Handle : TerminalExit(h)
  \/ \E d \in DispatchId : FailDispatchTorn(d)
  \/ Restart

ManualNext ==
  \/ \E t \in Task, h \in Handle, inject \in BOOLEAN : DispatchTask(t, h, inject)
  \/ \E t \in Task, h \in Handle : DispatchTaskTorn(t, h)
  \/ \E d \in DispatchId : PromptAccepted(d) \/ PromptRejected(d) \/ ReleaseContextOnly(d)

StartStep(d) ==
  (\E h \in Handle : PrepareWorker(d, h)) \/ WorkerReady(d) \/ FailStart(d) \/ StartUnknown(d)

StopStep(d) == SettleStop(d) \/ StopUnknown(d)

SupervisedNext ==
  \/ \E t \in Task : StartWorker(t)
  \/ \E d \in DispatchId :
       \/ StartStep(d) \/ BeginStop(d) \/ StopStep(d) \/ Abandon(d)
       \/ ShowWorker(d) \/ ReconcileMissing(d)

OverrideNext ==
  \/ \E t \in Task, status \in TaskStatus : UpdateTask(t, status)
  \/ \E t \in Task : UpdateTaskTorn(t)
  \/ \E g \in Gate, t \in Task : CreateGate(g, t) \/ CreateGateTorn(g, t)
  \/ \E g \in Gate : ResolveGate(g) \/ ResolveGateTorn(g)

Next == SharedNext \/ ManualNext \/ SupervisedNext \/ OverrideNext

Spec == Init /\ [][Next]_vars

\* A coordinator that never runs worker-start.
ManualSpec == Init /\ [][SharedNext \/ ManualNext \/ OverrideNext]_vars

\* A coordinator that keeps to the supervised loop, without gates or overrides.
SupervisedSpec == Init /\ [][SharedNext \/ SupervisedNext]_vars

-----------------------------------------------------------------------------
(* Properties of every behaviour. *)

\* Lifecycle authority ends with the attempt: once an attempt is closed, or its
\* supervised worker is being stopped or is of unknown fate, the capability that
\* lets it heartbeat and report is revoked, whichever of the many paths (report,
\* exit, gate, override, stop, abandon, recovery) took it there.
AuthorityEndsWithAttempt ==
  \A d \in DispatchId :
    \/ dispatch[d].status \in ClosedStatus
    \/ dispatch[d].worker \in WorkerState \ {"starting", "ready"}
    => dispatch[d].capability = "revoked"

\* A worker that is settled no longer holds its assignee: worker-start --retry-of
\* and the assignee lock of dispatch both rely on the two tables agreeing, though
\* only one of them is written by the exit and override paths.
SettledWorkerIsInactive ==
  \A d \in DispatchId :
    /\ dispatch[d].worker \in SettledState => ~Active(d)
    /\ dispatch[d].worker = "starting" => dispatch[d].status # "dispatched"
    /\ dispatch[d].worker = "ready" => dispatch[d].status # "pending"

\* "runs in the status-update transaction, so a completed task never leaves its
\* ready children unpromoted" (promoteReadyTasks, db.ts:3963): no step that
\* completes the last open dependency of a pending task leaves that task pending,
\* on the report path and on the override path alike.
PromotionIsAtomic ==
  [][\A t \in Task :
       LET open == {u \in task[t].deps : task[u].status # "completed"} IN
       /\ task[t].status = "pending"
       /\ open # {}
       /\ \A u \in open : task[u].status' = "completed"
       => task[t].status' # "pending"]_vars

\* The phase of AttemptLifecycle a row of dispatch_contexts stands for.
Phase(row) ==
  IF row.status = "absent" THEN "none"
  ELSE IF row.status \in ActiveStatus THEN "open" ELSE "closed"

Lifecycle ==
  INSTANCE AttemptLifecycle WITH
    Attempt <- DispatchId,
    phase <- [d \in DispatchId |-> Phase(dispatch[d])],
    authority <- [d \in DispatchId |-> dispatch[d].capability]

\* Every attempt is an AttemptLifecycle: no interleaving of handlers, exits and
\* recovery reopens an attempt or grants its capability a second time.
ImplementsLifecycle == Lifecycle!Spec

-----------------------------------------------------------------------------
(* Properties of a coordinator that keeps to one loop. *)

\* The supervised loop never runs two attempts of one task, across retries,
\* exits during a start, restarts and recovery; and a task on offer has none.
OneActiveAttempt ==
  \A d \in DispatchId :
    Active(d) => /\ Latest(d)
                 /\ task[dispatch[d].task].status # "ready"

\* No terminal is assigned two active attempts (findActiveDispatchForAssignee).
AssigneeExclusive ==
  \A d, e \in DispatchId :
    Active(d) /\ Active(e) /\ dispatch[d].assignee = dispatch[e].assignee
    => d = e \/ dispatch[d].assignee = None

-----------------------------------------------------------------------------
(* Progress of the supervised loop. *)

\* The awaits of a start (terminal, readiness, prompt) and of a stop are bounded
\* by timeouts, so a parked handler returns unless the runtime restarts; after a
\* restart the coordinator runs worker-show on what it was told is unresolved.
Fairness ==
  \A d \in DispatchId :
    WF_vars(StartStep(d)) /\ WF_vars(StopStep(d)) /\ WF_vars(ShowWorker(d))

SupervisedLiveSpec == SupervisedSpec /\ Fairness

\* An accepted worker-start reaches a receipt (ready, failed or unknown) even if
\* the process exits, the attempt is abandoned, or the runtime restarts under it.
StartResolves ==
  \A d \in DispatchId :
    dispatch[d].worker = "starting" ~> dispatch[d].worker # "starting"

\* A requested stop ends stopped or unknown; it is never left "stopping".
StopResolves ==
  \A d \in DispatchId :
    dispatch[d].worker = "stopping" ~> dispatch[d].worker # "stopping"

-----------------------------------------------------------------------------
(* What the repository says of the program and the code does not keep: it is *)
(* refuted by a run of its own; README.md explains the behaviour.            *)

\* Reported work is "marked completed automatically" (skill-guides/
\* orchestration.md): a report that settled an attempt is not undone by the
\* attempt's own dispatch call.
ReportStands ==
  [][\A d \in DispatchId :
       dispatch[d].status = "completed" => dispatch'[d].status = "completed"]_vars

=============================================================================
