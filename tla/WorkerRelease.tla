--------------------------- MODULE WorkerRelease ----------------------------
(***************************************************************************)
(* Ownership and release of worker terminals: worker_terminal_resources    *)
(* and worker_terminal_archives of OrchestrationDb, worker-release,        *)
(* worker-retain, user takeover, the transfer of a terminal to a follow-up *)
(* Dispatch, and the reconciler that finishes requested releases after a   *)
(* restart.                                                                *)
(*                                                                         *)
(* A release is not one step.  It inspects the terminal, captures its      *)
(* output, closes it and settles, with an await between each two, and      *)
(* other calls, the user, an exit or a restart may come in between.  From  *)
(* the commit of the archive to the kill there is no await, so those are   *)
(* one step here; a restart between them leaves the state a close that     *)
(* finds the endpoint unavailable leaves.                                  *)
(***************************************************************************)
EXTENDS Naturals

CONSTANTS
  Dispatch,       \* dispatches, each with at most one resource row of its own making
  Terminal,       \* terminal handles, each with its pane
  None,
  MaxProcess,     \* bound: processes that may follow each other behind one handle
  MaxRestart      \* bound: restarts of the runtime

ASSUME NoneAssumption == None \notin Dispatch \cup Terminal
ASSUME BoundAssumption == MaxProcess \in Nat \ {0} /\ MaxRestart \in Nat

VARIABLES
  worker,         \* the worker of a dispatch: its state and the process it was attached to
  resource,       \* worker_terminal_resources, by the dispatch that created the row
  archive,        \* dispatches with a row in worker_terminal_archives
  process,        \* the process behind each handle; survives a restart of the runtime
  discovered,     \* handles the runtime resolves since its last start
  release,        \* activeReleaseByRuntime: the release in flight for a resource
  probe,          \* worker-release calls waiting for the liveness of a retained process
  pass,           \* the reconciler: rows it listed, and the release it waits for
  restarts,
  closed,         \* history: the owner whose release killed the process of a row
  input           \* history: what became of the user's first keystrokes in an owned terminal

vars == <<worker, resource, archive, process, discovered, release, probe, pass, restarts,
          closed, input>>

ProcessId == 0 .. MaxProcess
\* "succeeded" stands for succeeded or failed, "stopped" for stopped or abandoned, "active"
\* for every state that is not settled.
WorkerRow == [state : {"absent", "active", "succeeded", "stopped"},
              terminal : Terminal \cup {None}, process : ProcessId]
ReleaseState == {"not_requested", "retained", "requested", "releasing", "released", "unknown"}
ResourceRow ==
  [ownership : {"absent", "owned", "external", "user_owned", "released"},
   release : ReleaseState,
   kept : BOOLEAN,                      \* retained_reason is user_requested
   owner : Dispatch \cup {None},
   prior : SUBSET Dispatch,
   terminal : Terminal \cup {None},
   process : ProcessId]
Call == [phase : {"idle", "inspect", "capture", "closing"},
         dispatch : Dispatch \cup {None}, recovery : BOOLEAN]

TypeOK ==
  /\ worker \in [Dispatch -> WorkerRow]
  /\ resource \in [Dispatch -> ResourceRow]
  /\ archive \in SUBSET Dispatch
  /\ process \in [Terminal -> [id : ProcessId, alive : BOOLEAN]]
  /\ discovered \in SUBSET Terminal
  /\ release \in [Dispatch -> Call]
  /\ probe \in [Dispatch -> Dispatch \cup {None}]
  /\ pass \in [todo : SUBSET (Dispatch \X Dispatch), waiting : Dispatch \cup {None}]
  /\ restarts \in 0 .. MaxRestart
  /\ closed \in [Dispatch -> Dispatch \cup {None}]
  /\ input \in [Dispatch -> {"none", "recorded", "missed"}]

NoWorker == [state |-> "absent", terminal |-> None, process |-> 0]
NoResource == [ownership |-> "absent", release |-> "not_requested", kept |-> FALSE,
               owner |-> None, prior |-> {}, terminal |-> None, process |-> 0]
Idle == [phase |-> "idle", dispatch |-> None, recovery |-> FALSE]
NoPass == [todo |-> {}, waiting |-> None]

Init ==
  /\ worker = [d \in Dispatch |-> NoWorker]
  /\ resource = [d \in Dispatch |-> NoResource]
  /\ archive = {}
  /\ process = [t \in Terminal |-> [id |-> 0, alive |-> FALSE]]
  /\ discovered = {}
  /\ release = [d \in Dispatch |-> Idle]
  /\ probe = [d \in Dispatch |-> None]
  /\ pass = NoPass
  /\ restarts = 0
  /\ closed = [d \in Dispatch |-> None]
  /\ input = [d \in Dispatch |-> "none"]

-----------------------------------------------------------------------------
(* What the handlers read. *)

Exists(r) == resource[r].ownership # "absent"
Owned(d) == {r \in Dispatch : Exists(r) /\ resource[r].owner = d}
FormerlyOwned(d) == {r \in Dispatch : d \in resource[r].prior}
Settled(d) == worker[d].state \in {"succeeded", "stopped"}

\* Rows, not yet released, that name the process running behind a handle.
RowsOf(t) == {r \in Dispatch : /\ resource[r].ownership \notin {"absent", "released"}
                               /\ resource[r].terminal = t
                               /\ resource[r].process = process[t].id}

IsRunning(t, id) == t \in Terminal /\ process[t].alive /\ process[t].id = id

\* Mutant: another row of the process is not looked for.
NoIdentityConflict(r) == FALSE

IdentityConflict(r) ==
  \E s \in Dispatch \ {r} : /\ resource[s].ownership \notin {"absent", "released"}
                            /\ resource[s].terminal = resource[r].terminal
                            /\ resource[s].process = resource[r].process

\* Dispatch d may close the terminal of row r: the process it was attached to runs behind the
\* handle, is connected, and no other row claims it.
LeaseIsCurrent(r, d) ==
  /\ resource[r].terminal \in discovered
  /\ worker[d].terminal = resource[r].terminal
  /\ IsRunning(worker[d].terminal, worker[d].process)
  /\ ~IdentityConflict(r)

-----------------------------------------------------------------------------
(* The updates of one row. *)

Transferred(row, d) ==
  [row EXCEPT !.owner = d, !.prior = @ \cup {row.owner}, !.release = "not_requested",
              !.kept = FALSE]
Requested(row) ==
  [row EXCEPT !.release = IF @ = "releasing" THEN "releasing" ELSE "requested", !.kept = FALSE]
\* Mutant: the state of the release is written as the ownership.
MarkOwnershipUnknown(row) ==
  IF row.release \in {"requested", "releasing"} THEN [row EXCEPT !.ownership = "unknown"] ELSE row
MarkUnknown(row) ==
  IF row.release \in {"requested", "releasing"} THEN [row EXCEPT !.release = "unknown"] ELSE row
Reverted(row) ==
  IF row.release \in {"requested", "releasing"}
  THEN [row EXCEPT !.release = "retained", !.kept = FALSE] ELSE row
Released(row) ==
  IF row.release \in {"requested", "releasing", "unknown"}
  THEN [row EXCEPT !.release = "released", !.ownership = "released"] ELSE row
Retained(row) ==
  IF row.release \in {"not_requested", "retained", "requested"}
  THEN [row EXCEPT !.release = "retained", !.kept = TRUE] ELSE row
\* Mutant: a takeover withdraws the request and leaves the ownership.
TakenOverForNow(row) == [row EXCEPT !.release = "retained", !.kept = FALSE]
TakenOver(row) ==
  [row EXCEPT !.ownership = "user_owned", !.release = "retained", !.kept = FALSE]

MayTakeOver(row) ==
  row.ownership = "owned" /\ row.release \in {"not_requested", "retained", "requested"}
MaySettleDead(row) ==
  row.ownership # "released" /\ row.release \in {"not_requested", "retained", "unknown"}
\* Mutant: the request may have been withdrawn.
MayCommitWithdrawn(row, d) == row.owner = d /\ row.ownership = "owned"
MayCommit(row, d) ==
  row.owner = d /\ row.ownership = "owned" /\ row.release = "requested"
\* Mutant: a request that repeats one in progress captures the output again, too.
DropsArchiveAlways(row) == row.release # "not_requested"

\* A request after a failed or withdrawn release captures the output again.
DropsArchive(row) == row.release = "unknown" \/ (row.release = "retained" /\ row.kept)

-----------------------------------------------------------------------------
(* Workers, processes and the user. *)

NewRow(d, t, id, ownership) ==
  [NoResource EXCEPT !.ownership = ownership, !.owner = d, !.terminal = t, !.process = id]
Attached(t, id) == [state |-> "active", terminal |-> t, process |-> id]

\* worker-start in a terminal of its own.
StartFresh(d, t) ==
  /\ worker[d].state = "absent"
  /\ process[t].id = 0
  /\ process' = [process EXCEPT ![t] = [id |-> 1, alive |-> TRUE]]
  /\ discovered' = discovered \cup {t}
  /\ worker' = [worker EXCEPT ![d] = Attached(t, 1)]
  /\ resource' = [resource EXCEPT ![d] = NewRow(d, t, 1, "owned")]
  /\ UNCHANGED <<archive, release, probe, pass, restarts, closed, input>>

\* worker-start --terminal on a running terminal.  It is refused while a release of the exact
\* process is in progress; a settled owner's row is transferred, else the terminal is external.
Transferable(t) ==
  {r \in RowsOf(t) : /\ resource[r].ownership = "owned"
                     /\ resource[r].release \in {"not_requested", "retained"}
                     /\ Settled(resource[r].owner)}
StartReusing(d, t) ==
  /\ worker[d].state = "absent"
  /\ t \in discovered /\ process[t].alive
  /\ \A r \in RowsOf(t) : resource[r].release \notin {"requested", "releasing", "unknown"}
  /\ worker' = [worker EXCEPT ![d] = Attached(t, process[t].id)]
  /\ \/ \E r \in Transferable(t) :
          resource' = [resource EXCEPT ![r] = Transferred(@, d)]
     \/ /\ Transferable(t) = {}
        /\ resource' = [resource EXCEPT ![d] = NewRow(d, t, process[t].id, "external")]
  /\ UNCHANGED <<archive, process, discovered, release, probe, pass, restarts, closed, input>>

\* The worker settles: it reported, or it was stopped or abandoned.
Settle(d) ==
  /\ worker[d].state = "active"
  /\ \E s \in {"succeeded", "stopped"} : worker' = [worker EXCEPT ![d].state = s]
  /\ UNCHANGED <<resource, archive, process, discovered, release, probe, pass, restarts,
                 closed, input>>

Exit(t) ==
  /\ process[t].alive
  /\ process' = [process EXCEPT ![t].alive = FALSE]
  /\ UNCHANGED <<worker, resource, archive, discovered, release, probe, pass, restarts,
                 closed, input>>

\* A new process behind the same handle: opened by the user, or a pane restarted.
Spawn(t) ==
  /\ ~process[t].alive /\ process[t].id < MaxProcess
  /\ process' = [process EXCEPT ![t] = [id |-> @.id + 1, alive |-> TRUE]]
  /\ discovered' = discovered \cup {t}
  /\ UNCHANGED <<worker, resource, archive, release, probe, pass, restarts, closed, input>>

\* The user types into a terminal: markWorkerTerminalUserOwned for every owned row of the pane.
UserInput(t) ==
  LET rows == {r \in Dispatch : resource[r].terminal = t /\ MayTakeOver(resource[r])}
      owned == {r \in RowsOf(t) : resource[r].ownership = "owned"} IN
  /\ process[t].alive
  /\ owned # {}
  /\ resource' = [r \in Dispatch |-> IF r \in rows THEN TakenOver(resource[r]) ELSE resource[r]]
  /\ archive' = archive \ {resource[r].owner : r \in rows}
  /\ input' = [r \in Dispatch |-> IF input[r] # "none" \/ r \notin owned THEN input[r]
                                  ELSE IF r \in rows THEN "recorded" ELSE "missed"]
  /\ UNCHANGED <<worker, process, discovered, release, probe, pass, restarts, closed>>

-----------------------------------------------------------------------------
(* worker-release and worker-retain. *)

Write(r, row) == resource' = [resource EXCEPT ![r] = row]

\* completeWorkerTerminalRelease joins the release in flight for the resource, if there is one.
Begin(r, d, recovery) ==
  release' = IF release[r].phase = "idle"
             THEN [release EXCEPT ![r] = [phase |-> "inspect", dispatch |-> d,
                                          recovery |-> recovery]]
             ELSE release

\* The promise of the release settles: its callers go on, the reconciler among them.
End(r) ==
  /\ release' = [release EXCEPT ![r] = Idle]
  /\ pass' = IF pass.waiting = r THEN [pass EXCEPT !.waiting = None] ELSE pass

\* requestWorkerTerminalRelease grants the request, and the release starts.
Request(d) ==
  \E r \in Owned(d) :
    /\ worker[d].state = "succeeded"
    /\ resource[r].ownership = "owned"
    /\ archive' = IF DropsArchive(resource[r]) THEN archive \ {d} ELSE archive
    /\ Write(r, Requested(resource[r]))
    /\ Begin(r, d, FALSE)
    /\ UNCHANGED <<worker, process, discovered, probe, pass, restarts, closed, input>>

\* It retains the terminal instead: the call goes on to ask whether the process is dead.
RequestRetained(d) ==
  /\ Settled(d)
  /\ probe[d] = None
  /\ \E r \in Dispatch :
       /\ \/ /\ r \in Owned(d)
             /\ resource[r].ownership # "released"
             /\ worker[d].state = "stopped" \/ resource[r].ownership # "owned"
          \/ Owned(d) = {} /\ r \in FormerlyOwned(d)
       /\ probe' = [probe EXCEPT ![d] = r]
  /\ UNCHANGED <<worker, resource, archive, process, discovered, release, pass, restarts,
                 closed, input>>

\* Mutant: the answer is not read.
ProbedAnyway(d) ==
  LET r == probe[d] IN
  /\ r # None
  /\ probe' = [probe EXCEPT ![d] = None]
  /\ Settled(d) /\ Settled(resource[r].owner) /\ MaySettleDead(resource[r])
  /\ Write(r, [resource[r] EXCEPT !.release = "released", !.ownership = "released", !.kept = FALSE])
  /\ UNCHANGED <<worker, archive, process, discovered, release, pass, restarts, closed, input>>

\* The answer arrives: settleDeadWorkerTerminalRelease if the process is dead.
Probed(d) ==
  LET r == probe[d] IN
  /\ r # None
  /\ probe' = [probe EXCEPT ![d] = None]
  /\ \/ UNCHANGED resource              \* live, or the inventory could not be read
     \/ /\ ~IsRunning(resource[r].terminal, resource[r].process)
        /\ IF /\ d = resource[r].owner \/ d \in resource[r].prior
              /\ Settled(d) /\ Settled(resource[r].owner)
              /\ MaySettleDead(resource[r])
           THEN Write(r, [resource[r] EXCEPT !.release = "released", !.ownership = "released",
                                             !.kept = FALSE])
           ELSE UNCHANGED resource
  /\ UNCHANGED <<worker, archive, process, discovered, release, pass, restarts, closed, input>>

Retain(d) ==
  \E r \in Owned(d) :
    /\ resource[r].release \in {"not_requested", "retained", "requested"}
    /\ Write(r, Retained(resource[r]))
    /\ archive' = archive \ {d}
    /\ UNCHANGED <<worker, process, discovered, release, probe, pass, restarts, closed, input>>

-----------------------------------------------------------------------------
(* completeWorkerTerminalReleaseOnce. *)

\* The terminal cannot be shown, while the window reloads its panes, and yet the lease is current:
\* recovery defers, and a caller is told that nothing is known.
InspectMissing(r) ==
  /\ release[r].phase = "inspect"
  /\ LeaseIsCurrent(r, release[r].dispatch)
  /\ Write(r, IF release[r].recovery THEN resource[r] ELSE MarkUnknown(resource[r]))
  /\ End(r)
  /\ UNCHANGED <<worker, archive, process, discovered, probe, restarts, closed, input>>

\* The handle does not resolve, or not to the process, or the process is disconnected or claimed
\* twice.
InspectUnproven(r) ==
  /\ release[r].phase = "inspect"
  /\ ~LeaseIsCurrent(r, release[r].dispatch)
  /\ Write(r, Reverted(resource[r]))
  /\ End(r)
  /\ UNCHANGED <<worker, archive, process, discovered, probe, restarts, closed, input>>

\* The exact process runs and no archive exists yet: wait for the capture of its output.
InspectRunning(r) ==
  /\ release[r].phase = "inspect"
  /\ LeaseIsCurrent(r, release[r].dispatch)
  /\ release[r].dispatch \notin archive
  /\ release' = [release EXCEPT ![r].phase = "capture"]
  /\ UNCHANGED <<worker, resource, archive, process, discovered, probe, pass, restarts,
                 closed, input>>

CaptureFails(r) ==
  /\ release[r].phase = "capture"
  /\ End(r)
  /\ UNCHANGED <<worker, resource, archive, process, discovered, probe, restarts, closed, input>>

\* The output is at hand: commit the archive with the intent to close, check the lease again
\* and close, without an await in between.
AtCommit(r) ==
  \/ release[r].phase = "capture"
  \/ /\ release[r].phase = "inspect"
     /\ LeaseIsCurrent(r, release[r].dispatch)
     /\ release[r].dispatch \in archive

Committed(r) ==
  IF MayCommit(resource[r], release[r].dispatch)
  THEN [resource[r] EXCEPT !.release = "releasing"] ELSE resource[r]
CommittedArchive(r) ==
  IF MayCommit(resource[r], release[r].dispatch) THEN archive \cup {release[r].dispatch}
  ELSE archive
MayClose(r) == Committed(r).ownership = "owned" /\ Committed(r).release = "releasing"

\* The release was withdrawn during the capture, or the process changed.
CloseRefused(r) ==
  /\ AtCommit(r)
  /\ archive' = CommittedArchive(r)
  /\ \/ ~MayClose(r) /\ Write(r, Committed(r))
     \/ /\ MayClose(r) /\ ~LeaseIsCurrent(r, release[r].dispatch)
        /\ Write(r, Reverted(Committed(r)))
  /\ End(r)
  /\ UNCHANGED <<worker, process, discovered, probe, restarts, closed, input>>

\* closeTerminal kills the process, then awaits the rest of the close.
Close(r) ==
  /\ AtCommit(r) /\ MayClose(r) /\ LeaseIsCurrent(r, release[r].dispatch)
  /\ archive' = CommittedArchive(r)
  /\ Write(r, Committed(r))
  /\ process' = [process EXCEPT ![resource[r].terminal].alive = FALSE]
  /\ closed' = [closed EXCEPT ![r] = resource[r].owner]
  /\ release' = [release EXCEPT ![r].phase = "closing"]
  /\ UNCHANGED <<worker, discovered, probe, pass, restarts, input>>

\* closeTerminal throws: the endpoint is unreachable, and recovery retries; or another error.
CloseFails(r) ==
  /\ \/ /\ AtCommit(r) /\ MayClose(r) /\ LeaseIsCurrent(r, release[r].dispatch)
        /\ archive' = CommittedArchive(r)
        /\ Write(r, Committed(r)) \/ Write(r, MarkUnknown(Committed(r)))
     \/ /\ release[r].phase = "closing"
        /\ UNCHANGED resource \/ Write(r, MarkUnknown(resource[r]))
        /\ UNCHANGED archive
  /\ End(r)
  /\ UNCHANGED <<worker, process, discovered, probe, restarts, closed, input>>

Closed(r) ==
  /\ release[r].phase = "closing"
  /\ Write(r, Released(resource[r]))
  /\ End(r)
  /\ UNCHANGED <<worker, archive, process, discovered, probe, restarts, closed, input>>

-----------------------------------------------------------------------------
(* Restart and reconciliation. *)

\* The runtime restarts: what is in memory is lost, the processes and the tables stay.
Restart ==
  /\ restarts < MaxRestart
  /\ restarts' = restarts + 1
  /\ release' = [r \in Dispatch |-> Idle]
  /\ probe' = [d \in Dispatch |-> None]
  /\ pass' = NoPass
  /\ discovered' = {}
  /\ UNCHANGED <<worker, resource, archive, process, closed, input>>

Rediscover(t) ==
  /\ t \notin discovered /\ process[t].id > 0
  /\ discovered' = discovered \cup {t}
  /\ UNCHANGED <<worker, resource, archive, process, release, probe, pass, restarts, closed,
                 input>>

\* A pass lists the backlog with the owners of that moment ...
StartPass ==
  /\ pass = NoPass
  /\ \E r \in Dispatch : resource[r].release \in {"requested", "releasing"}
  /\ pass' = [pass EXCEPT !.todo = {<<r, resource[r].owner>> : r \in
                {s \in Dispatch : resource[s].release \in {"requested", "releasing"}}}]
  /\ UNCHANGED <<worker, resource, archive, process, discovered, release, probe, restarts,
                 closed, input>>

\* ... and completes its rows one by one, each with the owner it listed.
PassStep ==
  /\ pass.waiting = None
  /\ \E r \in Dispatch, d \in Dispatch :
       /\ <<r, d>> \in pass.todo
       /\ Begin(r, d, TRUE)
       /\ pass' = [todo |-> pass.todo \ {<<r, d>>}, waiting |-> r]
  /\ UNCHANGED <<worker, resource, archive, process, discovered, probe, restarts, closed, input>>

-----------------------------------------------------------------------------
Complete(r) ==
  \/ InspectMissing(r) \/ InspectUnproven(r) \/ InspectRunning(r) \/ CaptureFails(r)
  \/ CloseRefused(r) \/ Close(r) \/ CloseFails(r) \/ Closed(r)

Next ==
  \/ \E d \in Dispatch, t \in Terminal : StartFresh(d, t) \/ StartReusing(d, t)
  \/ \E d \in Dispatch :
       Settle(d) \/ Request(d) \/ RequestRetained(d) \/ Probed(d) \/ Retain(d) \/ Complete(d)
  \/ \E t \in Terminal : Exit(t) \/ Spawn(t) \/ UserInput(t) \/ Rediscover(t)
  \/ Restart \/ StartPass \/ PassStep

Spec == Init /\ [][Next]_vars

-----------------------------------------------------------------------------
(* What the release promises. *)

\* The intent to close is durable only together with the archive of the owner's output, and
\* only for an owner that reported: a restart between the commit and the kill finds it in the
\* tables whatever the user, the coordinator and the reconciler did in between
\* (commitWorkerTerminalArchiveForRelease).
ReleasingIsArchived ==
  \A r \in Dispatch : resource[r].release = "releasing" =>
    /\ resource[r].ownership = "owned"
    /\ resource[r].owner \in archive
    /\ worker[resource[r].owner].state = "succeeded"

\* A row is released only when the process it names is gone, so the accounting of worker-list
\* never hides a process that runs.
ReleasedIsGone ==
  \A r \in Dispatch :
    resource[r].ownership = "released" => ~IsRunning(resource[r].terminal, resource[r].process)

\* Once a takeover by the user is recorded, no release in flight, queued, joined or requested
\* later closes that terminal (markWorkerTerminalUserOwned).
RecordedTakeoverKept ==
  \A r \in Dispatch : input[r] = "recorded" => closed[r] = None

\* A release never closes the process of a worker that is still active: not one the terminal
\* was handed to, nor one that shares the terminal with the owner.
ActiveWorkerKept ==
  [][\A r, d \in Dispatch :
       closed'[r] # closed[r] /\ worker[d].state = "active" =>
         \/ worker[d].terminal # resource[r].terminal
         \/ worker[d].process # resource[r].process]_vars

\* After worker-retain nothing closes the terminal until a later request.
RetainedIsKept ==
  [][\A r \in Dispatch : closed'[r] # closed[r] =>
       /\ resource[r].release \in {"requested", "releasing"}
       /\ IsRunning(resource[r].terminal, resource[r].process)]_vars

-----------------------------------------------------------------------------
(* What the documentation says and the code does not keep. *)

\* worker-terminal-release-reconciliation.ts: the reconciler finishes requested releases, and an
\* unresolved identity defers.  It withdraws a request only when the process is gone or claimed
\* twice.
WithdrawnForCause ==
  [][\A r \in Dispatch :
       /\ release[r].recovery /\ resource[r].release \in {"requested", "releasing"}
       /\ resource'[r].release = "retained" /\ ~resource'[r].kept
       /\ resource'[r].ownership = "owned"
       => IdentityConflict(r) \/ ~IsRunning(resource[r].terminal, resource[r].process)]_vars

=============================================================================
