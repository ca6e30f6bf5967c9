# TLA+ verification of TeamRun orchestration

TeamRun (an Electron application with a CLI, a mobile app and a cloud service) lets a
coordinating agent hand tasks to worker agents that run in terminals. This directory
models the part of it whose correctness rests on *protocol state*: which attempt of which
task runs where, who may report for it, and what is left after a process exits, a handler is
cut short, or the runtime restarts. The modules are checked with TLC on small instances
(`MC*.cfg`) and proved with TLAPS for all instances (`*Proofs.tla`).

Paths are relative to the repository root; `db.ts` is
`src/main/runtime/orchestration/db.ts` and `methods/` is `src/main/runtime/rpc/methods/`.

## 1. Inventory

| Part | State | Operations | Interaction |
|---|---|---|---|
| **Task and Dispatch tables** (`OrchestrationDb`, `db.ts`) | SQLite tables `tasks`, `dispatch_contexts`, `worker_dispatches`, `decision_gates` | create/update task, dispatch, start, prepare, ready, fail, stop, abandon, settle a report, gates, recovery | synchronous methods; each is one JavaScript turn. Some open a transaction, some write several autocommitted statements |
| **Manual dispatch RPC** (`methods/orchestration.ts`) | the handler parked at `sendTerminalAgentPrompt` | `taskCreate`, `taskUpdate`, `dispatch`, `send` (worker_done) | reads the tables, awaits a terminal, writes the tables again |
| **Worker supervision RPC** (`methods/orchestration-workers.ts`, `-worker-control.ts`, `-worker-stop.ts`) | the handler parked at terminal creation, at the prompt, or at the close | `worker-start`, `-show`, `-stop`, `-abandon` | as above; a row per attempt records how far the handler got and in which `runtime_epoch` |
| **Lifecycle reconciliation** (`lifecycle-reconciliation.ts`) | none of its own | a `worker_done` message is accepted, duplicated or rejected | called from `send` |
| **Exit detection, startup recovery** (`orca-runtime.ts`) | the recovery plan | fails the active dispatch of a terminal whose process exits; after a restart settles attempts whose terminal is gone | callbacks from the PTY layer, and startup |
| **Run mailbox** (`db.ts`, `methods/orchestration.ts`, `-runs.ts`) | tables `runs` (binding, consumer generation), `messages`, `deliveries`, `question_threads`; in memory the waiters of `check` and `ask` | bind a Run, take and acknowledge a Delivery, wait, send, ask, answer | coordinators poll and wait, workers report and ask; a message wakes the waiter that wants it |
| **Federation relay** (`federation-sync.ts`, `federation-*.ts`) | relay items, import and acknowledgment cursors, remote runtime epoch | pull, import, settle, acknowledge, enqueue | RPC between the Run home and a worker server, with lost replies and restarts on either side |
| **Mutation receipts** (`rpc/orchestration-mutation-executor.ts`) | `mutation_receipts`, in-flight map | run a request at most once per request id | wraps every mutating RPC |
| **Worker terminal ownership** (`worker-terminal-*.ts`, `methods/orchestration-worker-release*.ts`) | `worker_terminal_resources`, `worker_terminal_archives`; in memory the releases in flight | request, retain, inspect, capture and archive, close, settle; hand over to a follow-up dispatch or to the user | release RPC, keystrokes of the user, startup reconciliation |
| **Cloud API** (`src/services/teamrun-api`) | agent runs, publications, team events, idempotency records (PostgreSQL) | run transitions, prepare/finalize a publication, read events after a cursor | HTTP, transactions with row locks |
| **Cloud client** (`src/main/teamrun`, `src/renderer/src/components/team-space`) | offline mutation outbox, event cursor, copies of the agent runs | request, queue, flush, report a run, stream | HTTP and server-sent events |
| Everything else | UI, git and repository integrations, PTY daemon, SSH relay, pairing, automations, drivers, telemetry | – | clients of the above, or plumbing below it |

### What is hard here

*Awaits.* Every RPC handler reads rows, awaits a terminal or a prompt, and writes rows again.
Between the two, the agent can exit (a callback), report, or be overridden, abandoned or
stopped by another handler. *Two tables, many writers.* One attempt is described by a dispatch
row, a worker row, a capability and its task's status, and each of about a dozen paths writes a
different subset. *Missing transactions.* `failDispatch`, `createDispatchContext`,
`updateTaskStatus`, `createGate` and `resolveGate` each write several rows without one.
*Restarts.* Tables survive, parked handlers do not, and what they had already done is only known
from the rows. *Retries.* An attempt that ended is replaced while its own handler may still be
parked. The full list, with the line where each hazard bites and the property that covers it, is
`hazards` in `PROJECT.json`.

### What makes each part correct

* Task and Dispatch: an attempt closes once and its authority ends with it; the two tables agree
  on whether it is over; one active attempt per task (supervised loop) and per terminal (manual
  loop); completing a dependency offers its children; accepted starts and stops get an outcome.
* Mailbox: a message is delivered until it is acknowledged by the current consumer; a fenced
  consumer acknowledges nothing.
* Federation: each relay item is imported once, in order; the settlement the worker server is
  told is the one the home committed.
* Receipts: one execution per request id; a retry returns the first outcome or "unknown".
* Worker terminals: never closed before the archive is committed; a user-owned one never closed.
* Cloud: what a caller is told of a report is so; events of a run follow its reports; a reader with cursor *c* has seen every committed
  event up to *c*; queued mutations take effect once, in the order they were made.

## 2. Plan

Done, in this order, each with its checks (section 4):

1. `TaskDispatch` with the abstract `AttemptLifecycle`.
2. `FederationRelay` with the abstract `FederatedVerdict`: home and worker server, cursors and
   settlements, lost replies, restarts.
3. `WorkerRelease`: who owns a worker's terminal and when it may be closed.
4. `RunMailbox` with the abstract `RunInbox`: Deliveries, consumer generations, waiters, questions.
5. `CloudSync`: the outbox of the client, the idempotent API, agent runs, the event stream.
6. `MutationReceipts`: the executor around every mutating method, with its map of requests in flight.

What the plan has left, the most useful first:

* The composition of `RunMailbox` with `TaskDispatch`: today `dispatch` in `RunMailbox` is the one
  bit of the tables the mailbox reads, and messages are no part of `TaskDispatch`.
* The queue from the Run home to a worker server (questions, answers, control mail) and federated
  start, next to `FederationRelay`.
* Publications (prepare, finalize) with the agent run they complete.

## 3. Modules

* `AttemptLifecycle.tla` — what an attempt promises, abstractly: phase `none → open → closed`,
  authority `none → live → revoked`, revoked no later than closed. Nothing else may happen.
* `TaskDispatch.tla` — the code. `MCTaskDispatch.tla` adds the symmetry sets for TLC.
* `TaskDispatchProofs.tla`, `TaskLoopProofs.tla` — theorems.
* `FederatedVerdict.tla` — what a federated report promises: the Run home decides once how a
  dispatch ends; the worker server may learn it, later and unchanged.
* `RelayChannel.tla` — what the queue between them promises: places delivered in order, once, with
  nothing left out, and released only when delivered; a report may take a heartbeat's place.
* `FederationRelay.tla` — the code on both servers; `MCFederationRelay.tla` for TLC,
  `FederationRelayProofs.tla` and `RelayQueueProofs.tla` the theorems.
* `WorkerRelease.tla` — terminals of workers: ownership, release, reconciliation;
  `MCWorkerRelease.tla`, `WorkerReleaseProofs.tla`.
* `RunInbox.tla` — what the mailbox of a Run promises: batches of what is oldest, offered until
  they are accepted as a whole.
* `RunMailbox.tla` — the mailbox of a Run with its waiters and questions; `MCRunMailbox.tla`,
  `RunMailboxProofs.tla`.
* `ReportLog.tla` — what the cloud synchronisation promises of a report: taken once, after those it
  was saved behind, moving its run along the allowed transitions; callers are told what is so.
* `CloudSync.tla` — the desktop client and the cloud API; `MCCloudSync.tla`, `CloudSyncProofs.tla`.
* `MutationReceipts.tla` — one mutating request, sent again and again; `MCMutationReceipts.tla`,
  `MutationReceiptsProofs.tla`.

### State of `TaskDispatch`

| Variable | Code |
|---|---|
| `task[t]` | row of `tasks`: status, deps. `"absent"` before `createTask` |
| `dispatch[d]` | row of `dispatch_contexts` (status, assignee, failure_count, capability) joined with its row of `worker_dispatches` (`worker`; `"none"` when there is none). `d` counts in rowid order |
| `gate[g]` | row of `decision_gates` |
| `calls[d]` | the await at which the handler that owns attempt `d` is parked: `inject` (dispatch, prompt), `start` (worker-start, terminal or worktree), `prompt` (worker-start, prompt), `stop` (worker-stop, close) |
| `orphans` | attempts whose worker row carries an earlier `runtime_epoch` |
| `recovery` | attempts the startup plan still has to look at |

The capability is `none` (no hash), `live`, or `revoked` (`capability_revoked_at` set).

### Actions

A method of `OrchestrationDb` is one action, because it is synchronous. A handler that awaits is
several actions, split exactly at its awaits. A method that writes several rows without a
transaction has a second, `…Torn` action: the process dies between the writes, and the action is
followed by a restart in the same step. `PROJECT.json` maps each definition to its lines.

| Actions | Code |
|---|---|
| `CreateTask`, `UpdateTask` | `createTask`, `updateTaskStatus` with `promoteReadyTasks` and `completeActiveDispatchForTask` |
| `WorkerReport` | `reconcileWorkerDoneMessage` → `settleWorkerReport`, the accepted case |
| `DispatchTask`, `PromptAccepted`, `PromptRejected` | `orchestration.dispatch` before and after the prompt |
| `ReleaseContextOnly` | worker-stop and worker-abandon of an attempt without a worker row |
| `StartWorker`, `PrepareWorker`, `WorkerReady`, `FailStart`, `StartUnknown` | `worker-start` |
| `BeginStop`, `SettleStop`, `StopUnknown`; `Abandon`; `ShowWorker` | `worker-stop`, `worker-abandon`, `worker-show` after a restart |
| `TerminalExit` | `failActiveDispatchOnExit` |
| `Restart`, `ReconcileMissing` | process restart; the missing-terminal branch of startup recovery |
| `CreateGate`, `ResolveGate` | `createGate`, `resolveGate` |

`Spec` allows everything. `ManualSpec` is a coordinator that never runs worker-start;
`SupervisedSpec` one that uses worker-start and its siblings and neither overrides nor gates (the
two loops of `skill-guides/orchestration.md`). `SupervisedLiveSpec` adds fairness.

### Abstractions

* One Run. A handle stands for the pane behind it, so the pane comparison of
  `findActiveDispatchForAssignee` is equality of handles.
* Local workers only; the `server` branches belong to `FederationRelay`.
* Messages and questions are in `RunMailbox`, terminal resources in `WorkerRelease`; resets and
  receipts are left out; heartbeats write only a timestamp.
* `DispatchTask` is one step although the handler awaits agent detection first:
  `createDispatchContext` reads status and assignee again, after the await, and only that read
  guards the write.
* `PrepareWorker` may attach any handle: `worker-start --terminal` reuses an existing one.
* `UpdateTask` may write any of the six statuses, as the RPC allows.
* A crash in `promoteReadyTasks` leaves any subset of the children unpromoted; the order of rows
  is not modelled.
* `Reboot` forms the recovery plan over the rows as they are then. Attempts that share a
  terminal are left out of it, as `planLegacyWorkerTerminalRecovery` blocks their pane.
* The runtime epoch of a worker row is not refreshed by a stop (nor by the code), so
  `ShowWorker` after a restart may mark a stop of the current runtime as unknown.

### State of `FederationRelay`

One federated dispatch, from the moment both sides have it `ready`.

| Variable | Code |
|---|---|
| `relay[s]` | worker server: row `s` of `federation_relay_items`, direction `to_home` |
| `attachment` | worker server: `remote_dispatch_attachments.state` |
| `receipts[n]` | worker server: `mutation_receipts` row of `relay_ack_<dispatch>_<n>` |
| `epoch`, `waiting`, `told` | worker server: runtime id, `worker_done` senders parked in `waitForFederatedLifecycleSettlement`, settlements published to them |
| `home` | home: status of the task, status of its dispatch, state of its worker row |
| `imported`, `acked` | home: `to_home_imported_sequence`; `remote_runtime_epoch` with `to_home_acknowledged_sequence` |
| `messages` | home: message ids the relay brought, as ⟨sequence, kind⟩ |
| `checkpoint` | home, in memory: `federation-ack-checkpoints.ts` |
| `sync` | home, in memory: the sync that runs — what it read, the page, the cursor, the settlements so far |
| `acks`, `stopCall`, `stopWait` | requests on their way: `federationAck`, `federationStop`, and whether worker-stop still waits |

| Actions | Code |
|---|---|
| `Enqueue`, `GiveUpWaiting` | `orchestration.send` of a remote worker: `enqueueFederationRelay`, the 30 s wait |
| `BeginSync`, `SyncReported` | the 1 s timer (and the recovery of settled dispatches); the sync forced by worker-show and worker-stop |
| `ServePull`, `ImportItem`, `ImportFails` | `federationPull`; one turn of the import loop, `importFederatedRelayItem` with `settleWorkerReportInTransaction` |
| `SendAck`, `SkipAck`, `AckReturns`, `AckRefused` | the second half of `syncFederatedDispatchPages` |
| `ExecuteAck`, `ReplayAck`, `RefuseAck`, `TornAck` | `federationAck` inside `OrchestrationMutationExecutor.run`: executed, answered from the receipt, refused, or cut by a crash |
| `BeginStop`, `ServeStop`, `CloseReturns`, `StopReturns`, `ShowWorker`, `Abandon`, `UpdateTask` | worker-stop, -show and -abandon of a remote worker, task-update |
| `SyncTimesOut`, `StopTimesOut`, `WorkerRestart`, `HomeRestart` | time-outs, after which the request may still be served; the end of either process |

*Turns.* The import loop has no `await`: while `sync.phase` is `import` no other handler of the
home runs (`HomeTurn`), only the other server and the end of the process. Each import is a
transaction of its own, so it is a step of its own. Everything else at the home may happen between
the pull and the import, and while the acknowledgment is out.

*Abstractions.* A message is its place in the queue and its kind: the id changes only when a report
takes the place of a heartbeat (db.ts:5089), which changes the kind as well. Of a report the model
keeps the outcome and whether it names the dispatch's task (`fits`); reports with the same outcome
may differ in their words, so a second one need not count as identical. The byte quota is left to
the item quota. `Sync` reads its row when it begins a page, as the code does; the imported sequence
cannot change under it because syncs of a dispatch are joined (`orca-runtime.ts:4753`). The
attachment's authority check is `attachment = "ready"`. `UpdateTask` also stands for what a later
attempt does to the shared task. Gates, `failActiveDispatchOnExit` (a remote worker has no terminal
at the home), questions and control mail are left out.

### `WorkerRelease`

| Variable | Code |
|---|---|
| `worker[d]` | row of `worker_dispatches`: settled or not, and how; the handle and process incarnation it was attached to |
| `resource[r]` | row of `worker_terminal_resources` that the start of dispatch `r` created: ownership state, release state, owner dispatch, earlier owners, whether `retained_reason` is `user_requested` |
| `archive` | dispatches with a row of `worker_terminal_archives` |
| `process`, `discovered` | the PTY daemon: process behind each handle; the handles the runtime resolves since its start |
| `release[r]` | `activeReleaseByRuntime`: the await at which the release of `r` is, for which dispatch, and whether recovery began it |
| `probe[d]` | a `worker-release` that was answered `retained` and now asks whether the process is dead |
| `pass` | the reconciler: what it listed and has not reached, and the release it waits for |

| Actions | Code |
|---|---|
| `StartFresh`, `StartReusing`, `Settle` | the resource part of `prepareStartingWorkerAuthority`; the settlement of the worker |
| `Request`, `RequestRetained`, `Probed`, `Retain` | `worker-release` up to its first await, its liveness probe with `settleDeadWorkerTerminalRelease`, `worker-retain` |
| `InspectMissing`, `InspectUnproven`, `InspectRunning`, `CaptureFails`, `CloseRefused`, `Close`, `CloseFails`, `Closed` | `completeWorkerTerminalReleaseOnce`, cut at its awaits: inspect, capture, close |
| `UserInput` | `markWorkerTerminalUserOwned` on the first keystroke |
| `Exit`, `Spawn`, `Rediscover` | the process ends, another one takes the handle, the runtime finds a terminal again |
| `Restart`, `StartPass`, `PassStep` | the runtime restarts; `reconcileRequestedWorkerTerminalReleases` |

`closed` and `input` are history. From the commit of the archive to the kill the code does not
await, so `Close` is one step; `CloseFails` leaves what a crash between the two leaves. A row is
named by the dispatch that made it, since a start makes at most one. The content of an archive,
worktree removal, the legacy backfill and federated workers (always retained) are left out.

### `RunMailbox`

| Variable | Code |
|---|---|
| `run` | row of `runs`: bound pane, `consumer_generation` |
| `sent`, `mail[m]` | rows of `messages` addressed to `run:<id>` by `sequence`: type, sender, and whether it was read by an acknowledgment or otherwise |
| `delivery` | the latest row of `deliveries`, and the panes whose agent got its id (`held`) |
| `call[k]` | a `check --wait`: parked in `messageWaitersByHandle`, or resolved and not yet gone on |
| `dispatch[d]` | `active`; `ended` by a path that leaves its questions open; `settled` by one that closes them |
| `question[m]`, `asker[d]` | row of `question_threads`; the `ask` that waits on `dispatch:<id>` |

| Actions | Code |
|---|---|
| `RunUse`, `RunUseAgain`, `LeaveRun` | `bindRun` by another terminal, by the same one, and by a coordinator that turns to another Run |
| `SendHeartbeat`, `SendWorkerDone` | `orchestration.send` to the Run, with the lifecycle reconciliation that reads a heartbeat at once or the earlier heartbeats of an accepted or repeated report |
| `End` | the ends without `closeQuestionsForDispatch`: `failDispatch` of an exit or a rejected prompt, `completeDispatch` of task-update and gate-create |
| `Settle` | the ends with it: a start that failed or is unknown, the recovery, worker-stop, worker-abandon; the last two also close the questions of a worker whose dispatch has ended already |
| `Wake` | the wakeup of worker-stop once the terminal is closed, and of worker-release |
| `Ask`, `AskResume`, `AskAgain`, `AskEnds` | `orchestration.ask` before, between and after its waits |
| `AnswerQuestion`, `Reply` | `orchestration.reply` to a question and to other mail |
| `Check`, `CheckAck`, `Resume`, `WaitEnds` | `orchestration.check` without and with `--ack` up to its result or its wait, and after it |
| `Restart` | waiters are lost, tables stay |

Handlers give way only where they wait, so everything between two waits is one step. `received`
says whether the result of a check reaches the agent: an id that was lost on the way cannot be
acknowledged, and the Delivery stays outstanding and is returned again. A notified `check` is a
state of its own because the promise resolves in a later turn. Escalations behave like a rejected
`worker_done`. Older Deliveries are not kept: their ids read nothing. `--peek` and `--all` reads,
mail to terminals and groups, the pointers pushed into an idle pane, the other message types,
federated questions and the legacy contract are left out.

`RunInbox` is the abstract specification: `arrived` is `sent`, `done` what is read, `offered` the
outstanding Delivery. It has no consumers, generations, filters or waiters.

### `CloudSync`

| Variable | Code |
|---|---|
| `write[w]` | a status report: its idempotency key (`w`), the run, status and sequence it carries, where its call is, and what its caller was told |
| `launch[r]`, `seen[r]` | the launcher of a run (`TeamAgentLauncher`); the copy of the run the panels number their reports from |
| `outbox`, `place`, `clock` | `mutation_outbox`, with `created_at` in milliseconds and a random id |
| `flush` | `#flushPromise` and the rows it listed |
| `net` | requests, transactions at work, and answers, each made by a call, by a flush, or for nobody any more |
| `record`, `run[r]` | `idempotency_records`; `agent_runs` |
| `cursor[w]`, `drawn` | the cursor of the event of a write, drawn from a sequence before the commit |
| `stream`, `wire`, `durable` | one event stream: the server's cursor, the client's, the events on the way; `event_cursors` |

| Actions | Code |
|---|---|
| `LinkAgentRun`, `ReportStatus`, `Refresh` | the launcher's two reports, a panel's report, a reload of the runs |
| `Proceed`, `Answered`, `BodyFails`, `CallFails` | `request` after the flush it waits for; its answers and failures; `deferMutation` |
| `StartFlush`, `FlushSend`, `FlushAnswered`, `FlushFails` | `flushPending` |
| `Replay`, `IgnoreStale`, `Refuse`, `Apply`, `Commit`, `Abort` | `runIdempotentMutation` around the status route: answered from the record, stale, refused, executed under the row lock, committed or rolled back |
| `Connect`, `Drain`, `ReadEvent`, `Disconnect` | the event route and the stream loop |
| `Tick`, `ClientRestart` | milliseconds; the end of the desktop process |

PostgreSQL is modelled by the locks the code takes: the advisory lock of a key, then the row of the
run; `Apply` and `Commit` are separate, so another transaction commits between. Writes of other
kinds are accepted and ordered like reports. One stream is enough because streams share nothing
but the stored cursor, which only grows. Left out: reads from the cache, writes that may not be
queued (they rethrow), the page of 200 events, the statuses around `needs_input`, publications,
accounts and sign-out, and the turn between the end of a flush and the request that waits for it.
`flushPending` lists its rows again after the authorization header is awaited; the model lists them
once, when the flush starts, so a row queued in between is sent by the next flush instead.

### `MutationReceipts`

| Variable | Code |
|---|---|
| `kind` | how `OrchestrationMutationExecutor.run` treats the method: `plain`; `early` (ask, check `--ack`: the receipt is recorded before a wait); `reply` (`orchestration.reply`, federationImport: may throw with the effect committed); `release` (worker-release: a pending receipt is resumed); `start` (worker-start, federated start: the receipt is written with the accepted worker) |
| `receipt` | row of `mutation_receipts`: state, payload hash, and who made the result or is the accepted worker |
| `inFlight` | the entry of the map: the call whose promise later ones join |
| `call[k]` | one sending of the request: how far it is, its input, whom it joined, what its caller was told and whose result that is |
| `stands` | calls whose handler committed its effect and did not take it back |

| Actions | Code |
|---|---|
| `Begin`, `Mismatch`, `Join`, `Replay`, `Resume`, `LeftPending` | what `run` does with a request, by the receipt it finds: invoke, refuse, wait with the call in flight, answer from the receipt, do a release again, `operation_unknown` |
| `Act`, `Accept`, `Record` | the handler: its effect, `createStartingWorkerDispatch`, `recordReceipt` |
| `Return`, `ThrowError`, `ThrowUnknown` | the promise settles: complete, discard or keep the receipt, answer everyone who waits |
| `Restart` | calls and map are lost, the table stays |

Requests of other ids or callers share nothing with this one but the capacity of the table (30 days,
10,000 rows), which is left out. What a handler does is one effect. A `plain` one that throws has
had none or has taken it back, as `dispatch` fails the attempt whose prompt is rejected. Three kinds
of handler may throw an error with their effect committed, so `ThrowError` keeps or drops it:
`reply` to a federated question commits the answer (db.ts:3750) before `enqueueFederationRelay` can
refuse it as over the quota (db.ts:5006, 5114); federationImport commits item by item;
worker-release commits its request before it captures the output. Called again they find what they
did, and do not do it twice: an effect found there counts as that of the repetition too, and
`OnceOnly` is about the other kinds. What handlers do in their midst is in the other modules. `run`
reads the receipt and enters the map in one turn, except that worker-start writes its receipt only
when the worker is accepted.

## 4. Checks

`tlc -config <cfg> <MC module>`. Deadlock is not checked: attempts, relay items, messages, writes,
faults and restarts are bounded, and a coordinator, relay or client with nothing left to do stops.

| Run | Instance | Properties | Shows |
|---|---|---|---|
| `authority` | `Spec`, 1 task, 2 handles, 1 gate, 2 attempts, 1 restart | `TypeOK`, `AuthorityEndsWithAttempt`, `SettledWorkerIsInactive`, `ImplementsLifecycle` | whatever mixture of operations, the life of an attempt is an `AttemptLifecycle` |
| `manual` | `ManualSpec`, 3 tasks, 2 handles, 2 attempts, no restart | `AssigneeExclusive`, `PromotionIsAtomic` | terminals are exclusive; completing the last dependency offers the child |
| `supervised` | `SupervisedLiveSpec`, 1 task, 2 handles, 3 attempts, 1 restart | `OneActiveAttempt`, `StartResolves`, `StopResolves` | one attempt at a time across retries; starts and stops get an outcome |
| `relay` | `Spec` of the relay, both protocols, 2 items, quota 2, 1 item per page, 2 pages per sync, 1 fault | `TypeOK`, `ToldAgreement`, `AckedReachedHome`, `ImplementsVerdict`, `ImplementsChannel` | the worker server learns the one verdict of the home, its senders nothing else; the queue is a `RelayChannel`, and no item leaves it before its message is at the home |
| `relay_live` | `OrderlySpec`, both protocols, 2 items, quota 3, 1 fault | `ReportReachesHome`, `VerdictReachesWorker` | reports get through, and completions come back |
| `release` | 3 dispatches, 1 terminal, 2 processes behind its handle, 1 restart | `TypeOK`, `ReleasingIsArchived`, `ReleasedIsGone`, `RecordedTakeoverKept`, `ActiveWorkerKept`, `RetainedIsKept` | no terminal is closed without an archive, under an active worker, after a recorded takeover or a retain; nothing that runs counts as released |
| `mailbox` | `FairSpec`, 2 panes, 2 checks, 1 dispatch, 2 answers, batches of 1, 2 messages, 3 generations, any number of restarts | `TypeOK`, `OneConsumerWaits`, `NothingMissed`, `FirstInFirstOut`, `AskerHears`, `SettledIsClosed`, `AnswerStands`, `ImplementsInbox`, `ActionableIsRead` | the mailbox is a `RunInbox`; no wakeup is lost; answers are final; where an end closes questions, none can be answered any more, and nowhere else is one closed; reports and questions are read |
| `cloud_sync` | 2 writes, 2 runs, 2 milliseconds, 2 faults | `TypeOK`, `ToldIsTrue`, `EventsFollowReports`, `OnlyLateEventsSkipped`, `ImplementsLog` | what callers are told is so; events of a run follow its reports; reconnecting skips nothing; client and API are a `ReportLog`, in which nothing overtakes the outbox |
| `receipts` | 4 calls, 2 inputs, 2 restarts, every kind of method | `TypeOK`, `OnceOnly`, `OneAnswer`, `ErrorHidesNothing` | a request has its effect once at most, everyone told a result is told the same, and an error never stands for the effect of a call that was cut short or is told a result |
| three `violation` runs | see section 6 | one each | what a document, comment or test says and the code does not keep |

*Why these bounds.* Attempts interact only through their task (latest attempt, status, retries)
and their handle (assignee lock, exits). Two attempts are the fewest with "latest" and "earlier"
apart; `supervised` has three so that an earlier attempt can be wrong about a retry of a retry
and the breaker limit of 3 is reachable. Two handles distinguish shared and separate assignees.
Three tasks with arbitrary acyclic dependencies give a child with two parents and a chain. One
restart interrupts any parked handler and any multi-statement write; the next restart starts from
rows of the same shapes, which the proofs confirm without the bound. `manual` has no restart
because `PromotionIsAtomic` is false across a crash (`OnlyTornUpdateSkipsPromotion`, section 6); `AssigneeExclusive` is
proved with crashes included. Symmetry is used for safety only, never in `supervised`.

For the relay two items are the fewest that have an order, conflicting reports, a gap, and an item
acknowledged while the next is pending. One item per page with two pages per sync makes every page
full and the page limit reachable by the second item; a quota of 2 is used up by a heartbeat and
one other item, so that a report replaces a heartbeat. `MaxFaults` counts time-outs and restarts
of either process together: one is enough to lose a reply, leave a request behind, tear a receipt
or change the runtime id, and the safety proofs hold for any number. `task-update` sets
`completed`, the status that closes the dispatch with the task; the proofs cover all six.

For `release` one terminal is enough for every property, since a row interacts with others only
through the handle and process they share; three dispatches make a chain of hand-overs, or a
transferred row with a second claim on its process; two processes tell the process a row names from
its successor. In `mailbox` batches of one message make every Delivery full; two messages are the
fewest with an order, three generations let a coordinator return; two check calls are one waiter
and one that races it. `cloud_sync` has two writes, one that can be behind the other, of the same
run or of two; two milliseconds, so that rows are queued at the same time or not; and two faults,
so that a lost answer and a restart, or two lost answers, combine. `receipts` has four calls: one at
work, one that joins it, one that comes later and one with other input; a second restart interrupts
what was resumed after the first. The proofs of `WorkerRelease`, `RunMailbox`, `CloudSync` and
`MutationReceipts` hold for all bounds. Symmetry is not used in `mailbox`, which checks liveness.

*Fairness.* `Fairness` is weak fairness of the parked handler of each attempt (`StartStep`,
`StopStep`): terminal creation, readiness waits, prompts and closes are bounded by timeouts, and
both outcomes of the await stay possible. `ShowWorker` is weakly fair because an unresolved
receipt tells the coordinator to run `worker-show` (`orchestration-worker-start-receipt.ts:35`).
Nothing else is fair: not reports, exits, retries or restarts.
For the relay `Fairness` is weak fairness of `SyncNext` — a sync starts every second while the
dispatch is eligible (`orca-runtime.ts:4815`), its calls end or time out after 15 s, and the other
server answers what reaches it — and of `StopNext`. `OrderlySpec` leaves out task-update and torn
receipts: an override or a receipt torn by a crash makes an acknowledgment unacceptable for good
(section 6), so that a verdict never arrives. `relay_live` never uses up the quota either, because
a report that takes the place of a heartbeat already imported does not reach the home (section 6);
the safety run `relay` does use it up. Workers, coordinators and faults are not fair.
For the mailbox `FairSpec` is weak fairness of `Supervise`, the loop the guide prescribes for the
coordinator (`skill-guides/orchestration.md:239`: acknowledge the Delivery in the next
`check --wait --types worker_done,escalation,question`), and of a notified check that goes on
(`Resume`), which is a resolved promise. Both say that results reach the agent again and again: a
coordinator whose every result is lost acknowledges nothing. Rebinds are bounded by
`MaxGeneration`, so the last coordinator stays, and `ActionableIsRead` excuses a Run that was left.
Restarts, workers and replies are not fair.

## 5. Proofs

Checked by `tlapm`, for any sets of tasks, handles and gates, any `MaxDispatch` and
`MaxRestart`. The assumptions of `TaskDispatch` are `NoneAssumption` (NULL is no task or handle)
and `BoundsAssumption` (the bounds are naturals).

| Theorem | States |
|---|---|
| `TypeCorrect` | `Spec => []TypeOK` |
| `AttemptInvariant` | `Spec => [](TypeOK /\ AttemptInv)` |
| `AuthorityEnds` | `Spec => []AuthorityEndsWithAttempt` |
| `TablesAgree` | `Spec => []SettledWorkerIsInactive` |
| `LifecycleRefinement` | `Spec => ImplementsLifecycle` |
| `SupervisedOneActive` | `SupervisedSpec => []OneActiveAttempt` |
| `ManualAssignee` | `ManualSpec => []AssigneeExclusive` |
| `PromotionWhileUp` | `Spec => PromotionIsAtomic`, if `MaxRestart = 0` |
| `OnlyTornUpdateSkipsPromotion` | `Spec => [][PromotesAll \/ \E t \in Task : UpdateTaskTorn(t)]_vars` |
| `NobodyForgotten` | `Spec => []Attended` |
| `OnlyOwnCallUndoes` | `Spec => [][CompletedStay]_vars` |
| `SupervisedReportsStand` | `SupervisedSpec => ReportStands` |
| `TypeCorrect` (relay) | `Spec => []TypeOK` |
| `ToldTheVerdict` | `Spec => []ToldAgreement` |
| `RelayImplementsVerdict` | `Spec => ImplementsVerdict` |
| `NothingLost` | `Spec => []AckedReachedHome` |
| `OneMessageEach` | `Spec => []OneMessagePerItem` |
| `RelayImplementsChannel` | `Spec => ImplementsChannel` |
| `TypeCorrect` (release) | `Spec => []TypeOK` |
| `IntentHasArchive` | `Spec => []ReleasingIsArchived` |
| `ReleasedProcessGone` | `Spec => []ReleasedIsGone` |
| `TakeoverIsFinal` | `Spec => []RecordedTakeoverKept` |
| `ActiveWorkersSurvive` | `Spec => ActiveWorkerKept` |
| `RetainWithholdsClose` | `Spec => RetainedIsKept` |
| `OnlyHiddenWithdrawn` | `Spec => [][WithdrawnUnlessHidden]_vars` |
| `WithdrawnForCauseWhileUp` | `Spec => WithdrawnForCause`, if `MaxRestart = 0` |
| `TypeCorrect` (mailbox) | `Spec => []TypeOK` |
| `OneWaiter` | `Spec => []OneConsumerWaits` |
| `NoLostWakeup` | `Spec => []NothingMissed` |
| `ReadInOrder` | `Spec => []FirstInFirstOut` |
| `AnswersAreHeard` | `Spec => []AskerHears` |
| `SettledDispatchAsksNothing` | `Spec => []SettledIsClosed` |
| `AnswersAreFinal` | `Spec => AnswerStands` |
| `Implementation` | `Spec => ImplementsInbox` |
| `TypeCorrect` (cloud) | `Spec => []TypeOK` |
| `ToldTheTruth` | `Spec => []ToldIsTrue` |
| `OutboxInOrder` | `Spec => []QueuedInOrder` |
| `EventsInOrder` | `Spec => []EventsFollowReports` |
| `NoEventSkippedButLate` | `Spec => []OnlyLateEventsSkipped` |
| `SyncImplementsLog` | `Spec => ImplementsLog` |
| `TypeCorrect` (receipts) | `Spec => []TypeOK` |
| `OneEffect` | `Spec => []OnceOnly` |
| `AnswersAgree` | `Spec => []OneAnswer` |
| `ErrorsHideNothing` | `Spec => ErrorHidesNothing` |

The relay's theorems hold for queues, pages and quotas of any size, any number of faults and every
status task-update may set (`ProtocolAssumption`, `LimitsAssumption`). Those of the release hold for
any dispatches, terminals, processes and restarts, those of the mailbox for any panes, calls,
dispatches, batch sizes, messages and generations, those of the receipts for any calls, inputs and
restarts; they assume that NULL is none of the others (`NoneAssumption`) and that the bounds are
naturals (`BoundAssumption`). Those of the cloud hold for any finite set of writes, any runs (at
least one: `SetsAssumption`), milliseconds and faults.

**The attempt invariant.** The two safety properties are not inductive: whether a handler that
comes back from its await may write depends on which states the row can be in *while that handler
is parked*. `AttemptInv` therefore says, row by row (`RowInv`), which combinations of dispatch
status, worker state, capability and parked call occur: a row without an attempt has nothing
parked on it; a closed row, or one whose worker is beyond `ready`, is revoked; a handler parked at
`start` on a row that is still `pending` and `starting` has granted nothing yet; a settled worker
is not active, a `starting` one not `dispatched`, a `ready` one not `pending`. An attempt in the
recovery plan has a worker row. Each action touches one attempt (an override: the latest
active one of its task) or restarts; one lemma per shape (`CloseAttempt`, `FailAttempt`,
`CompleteAttempt`, `OpenAttempt`, `RebootAttempts`) proves both `RowInv` and the step
condition `RowStep`, and `AttemptsNext` applies them action by action. `RowStep` is the refinement
argument: every change of a row is an `AttemptLifecycle` step or invisible to it. Because
every action changes the *phase or authority* of at most one attempt in the refinement, each
step of `Spec` maps to one abstract step or a stutter (`OnlyAttemptRefines`).

**The task invariant.** `OneActiveAttempt` speaks of `ready` only, but a pending task can be
promoted to `ready` and an absent one created as such, so `TaskInv` says that the task of an
active attempt is not absent, pending or ready. A step keeps it if it opens nothing and puts no
task on offer under an active attempt (`TaskInvKept`); the interesting case is `StartWorker` with
`--retry-of`, where the settled state of the latest worker together with `AttemptInv` shows that
no attempt of the task is active (`StartableIsFree`).

**Promotion, starts and stops, reported work.** A step that completes a task is a report, a
task-update, or the update the process dies in; the first two end in `promoteReadyTasks`, which leaves
no pending task with every dependency completed (`PromotesAll`). So `PromotionIsAtomic` holds without
crashes, and the theorem for every instance names the one step that breaks it: section 6 says why
nothing repairs it later. `Attended` says of every attempt that is starting or stopping that its
handler is parked, or that a restart caught it and `worker-show` will resolve it. It is what the
fairness in `StartResolves` and `StopResolves` is applied to: with it, some fair action is always
there to move the attempt on. `CompletedStay` bounds finding 1 of section 6: `PromptRejected` and a
start that fails late, both of the attempt's own call, are all that takes a completed attempt back.
In the supervised loop nothing does: no call is a `dispatch --inject`, and what a start still waits
for has not been completed (`ReportInv`).

**The verdict invariant.** A settlement exists in four places after the home committed it: in the
sync that computed it, in requests on their way, in what senders were told, and in the attachment.
`VerdictInv` says that in each of them `completed` or `failed` is the status of the home's
dispatch, which never leaves that status (`Settled`, `StepSettled`). `VerdictOn` is where it is
established: a report is answered `completed` only if it settles the dispatch now or finds it so.
An attachment then settles only as `ApplyAck` says, from a request, so it agrees (`StepVerdicts`),
and each step decides, learns, or is invisible to `FederatedVerdict` (`StepRefines`).

**The queue invariant.** That an acknowledged item has its message at the home is not inductive: an
item may be pulled as a heartbeat, replaced by a report while the page is on its way, imported as
the heartbeat, and acknowledged. `QueueInv` therefore follows an item from the queue through the
page to the messages and back. `HomeInv`: the home has a message of every place up to the last
imported and of none after it, and the kind differs from the queue's only where a report now
stands. `PageInv`: the same of what was pulled; the cursor of a page that is done is imported; a
verdict is only ever about a report whose message is there. `AckInv`: so is every verdict on its
way. An acknowledgment may then let go of a replaced item only if it judges the report
(`ApplyKeepsQueue`, from the check that `acknowledgeFederationRelay` makes for an omitted
settlement), and a judged report has come to the home as one. The refinement of `RelayChannel` maps
the kinds in the queue, the last imported place, the messages, and the acknowledged places.
`PulledAs` says what of a page may still differ from the queue when it is imported: a heartbeat that
has become a report. With protocol 2 an acknowledgment may let go of a report that came to the home as
a heartbeat (section 6), so releases are mapped for protocol 3 only.

**The release invariant.** `IInv` in `WorkerReleaseProofs` is `TypeOK`, `Structure`, `Calls` and
`Progress`. That a closed terminal was rightly closed depends on what a *parked* release may find
when it goes on. `Structure` says what a row is: an absent one is blank, the dispatches that own or
owned a row have workers attached to its terminal and process, no dispatch has two rows, and every
worker has one. `Calls` says what a release in flight may rely on: its dispatch owns or owned the
row, and one that is closing has killed the process. `Progress` ties the states to each other: an
intent to close has its archive and an owner that reported; the process of a released row, or of a
closed one, is gone; a row taken over by the user is never owned again. The takeover, the retain and
the active worker then follow because `Close` reads row and lease in the step that kills the process.
A request is withdrawn only by a release that finds its lease not current (`OnlyUnprovenWithdraws`), and
then, by `Calls` and `Structure`, the process is gone, another row names it, or the runtime has not
found the terminal again: the last is all of finding 3 in section 6, and takes a restart (`Known`).

**The mailbox invariant.** `IInv` in `RunMailboxProofs` is `TypeOK`, `Offering`, `InOrder`,
`Waiters` and `Threads`. `Offering`: an outstanding Delivery is of the current generation and holds
an initial part of what is unread — a later message cannot get in front of it, and what a report
makes obsolete was unread too. `InOrder` is first in, first out. `Waiters` is one consumer and no
lost wakeup together: neither is inductive without the other, because the step that parks a check
must know that no other parked check sees the same mail. `Threads` says whose questions are pending
or closed (pending only if no end closed them, closed only if one did) and what an asker waits for. Refinement (`Implementation`) takes one lemma per kind of step: a
message arrives, a batch is offered, accepted, accepted and followed by the next, withdrawn, or a
single message is dealt with.

**The synchronisation invariant.** `IInv` in `CloudSyncProofs` has one part for each hazard, and the
parts need each other. `Serving`: a key and the row of a run have one transaction at work, whoever
still waits for it, and a cursor belongs to a record or to such a transaction. `Advancing`: a
transaction at work has a number and a cursor beyond all its run has committed; with the row lock
this makes the events of a run follow its reports. `Calling`: the attempt of a call is the only one
of its write until the client gives up on it, so that an error it is told of is final; a flush has one
attempt, of a row it listed. `Ordered`: what a write was saved behind has an older `created_at` and
is in every flush the write is in, so the first row of a flush has nothing unsent before it
(`FlushSendKeeps`, from `FirstOfRows`: a strict order of rows has a first one). `Streaming`: events
below the server's cursor were emitted, are on the wire, or committed late; the wire lies beyond what
was read; every cursor kept is an event's. `Bounds` counts reports and cursors for the types. Steps
that apply nothing (`QuietStep`) keep `Serving` and `Advancing` by one lemma each, so each operation
of the client has only the outbox and its own attempts to argue about. The refinement
(`SyncImplementsLog`) needs one fact more, `Allowed`: between the check of `runTransitions` and the
commit the row lock keeps the status the check was made against. A transaction takes effect at its
commit, or when its report is found stale; every other step of network, flush and API is a stutter of
`ReportLog`, as are all retries.

**The receipt invariant.** `IInv` in `MutationReceiptsProofs` is `TypeOK`, `Results`, `Single`,
`Once` and `Kept`. That an effect is had once is not inductive, for a second call is kept from its
handler by the receipt of the first, or by the map. `Single` says that a call at work, of any method
but worker-start, is the one in the map and the receipt is its own; `Once` that what stands has its
receipt with the same input, and leaves no other call at work; `Results`, which holds for
worker-start too, that results are told of what stands and of calls that are not at work any more.
`AfterSettling` is what every end of a promise has in common. `Kept` holds for handlers that leave
an effect behind when they throw as well: what stands has a receipt with the same input, or its
caller was told of an error; and of anything else nothing stands when a handler begins. An error is
told in three places (`ErrorStep`): a mismatch has other input than the receipt, so than what stands
with a receipt; a handler that throws was the only one, and everything that stands but its own
effect was left by others that threw; the third place is reached by worker-start only.

**Only model-checked.** `StartResolves`, `StopResolves`, `ReportReachesHome`,
`VerdictReachesWorker` and `ActionableIsRead`: liveness under fairness needs `ENABLED`, which is out of
the prover's reach. `NobodyForgotten` is the safety half of the first two, and `NoLostWakeup` of the
last. The properties of the violation runs are false of the specification they are checked against;
`SupervisedReportsStand` and `WithdrawnForCauseWhileUp` say under which condition two of them hold.

## 6. Where the code and what is said of it differ

Each of the first three is a run TLC finds violated, listed under `findings`.

1. `report_stands` — `orchestration.dispatch` calls `failDispatch` when the prompt call throws
   (`methods/orchestration.ts:1350`), without looking at the attempt again. An attempt the agent
   already completed becomes failed and its finished task is put back on offer.
2. `lost_ack` — an acknowledgment has the request id `relay_ack_<dispatch>_<cursor>`
   (federation-sync.ts:157) whatever settlements it carries. If the reply to one with a settlement
   is lost, the items are acknowledged at the worker server, the next pull is empty, and the retry
   has the same id without settlements: `request_mismatch`, once a second, for ever.
3. `intent_kept` — a recovery pass that reaches a terminal of a scope not rediscovered yet finds no
   lease and withdraws the release (`orchestration-worker-release-completion.ts:130`), where the
   reconciler says it defers.

Met while modelling, without a run of their own.

Tasks and attempts:

* The comment above `promoteReadyTasks` (db.ts:3963) says it runs in the status-update transaction.
  `updateTaskStatus` opens none: a crash between its statements leaves a completed task with a
  pending child that nothing promotes later.
* The agent exits while its worker-start is still waiting; a replacement is started; the first
  handler then fails and writes the *task* failed (db.ts:4365). The replacement runs with a live
  capability and its report is refused.
* worker-stop closes the terminal, the exit handler fails the dispatch first and sets the task
  `ready`, and `--retry-of`, which the guide prescribes, accepts only a failed or blocked task
  (db.ts:4047).
* `createStartingWorkerDispatch` inserts attempts with `failure_count` 0 (db.ts:4076), so three
  exits in a row under supervision never break the circuit; `createDispatchContext` carries the
  count forward (db.ts:6481).
* Two gates of one task: resolving the first makes the task ready while the second is pending
  (`coordinator.ts:352`, in the retired loop, expects otherwise).
* An exit and the rejected prompt of the same attempt are counted as two failures.
* `worker-start --terminal` takes no assignee lock, unlike `dispatch` (db.ts:6472), so
  `AssigneeExclusive` holds for the manual loop only.
* The comment at `orca-runtime.ts:15607` says a task goes back to `pending`; it goes to `ready`.
* `hasAnyDispatchContextsCache` (db.ts:320) is said to be flipped by `createDispatchContext`
  only; `createStartingWorkerDispatch` inserts rows as well.

Relay:

* Protocol 2: worker-stop blocks the task while a sync imports the report, which is rejected; the
  other server then answers `succeeded`, and the worker is put back to `ready` at stage
  `remote_report_pending` (db.ts:5734) to wait for a report that was already imported.
* A crash of the worker server between `acknowledgeFederationRelay` and `completeMutationReceipt`
  leaves the receipt pending; every retry of that id answers `operation_unknown`.
* A report that takes the place of a heartbeat the home already imported changes its message id.
  With protocol 3 every replay then fails with "committed without its message" and the queue stays
  blocked; with protocol 2 the place is behind the cursor and the report is never pulled.
* A heartbeat that joins a pending one the home already imported is never recorded at the home.
* A task-update between two replays of a report changes the settlement the replay computes, so the
  retried acknowledgment no longer matches its receipt.

Mailbox:

* `failActiveDispatchOnExit` (`orca-runtime.ts:15603`) escalates only to the retired coordinator
  runs: the coordinator of a Run learns of an exit from no message.
* An exit, a rejected prompt, task-update and gate-create end a dispatch and leave its question
  pending (db.ts:6854, 6699, 6901): `reply` still accepts an answer (db.ts:3693), which a worker
  that is gone will not read. worker-stop and worker-abandon of the same worker close it later; for
  a manual dispatch nothing does. `SettledIsClosed` is therefore about the other ends.
* An asker whose question is closed by a start that failed, by the recovery or by a report is not
  woken, and waits until its time-out.
* A plain `reply` by a coordinator that was replaced still marks the mail read.

Worker terminals:

* A keystroke while a release is `releasing` is not recorded as a takeover (db.ts:6342), and the
  close goes on; the guide (`skill-guides/orchestration.md:244`) names no such window.
* An owned terminal whose process exited by itself cannot be released any more: the request finds
  no lease and is withdrawn.
* A release that ended unknown may have closed the terminal. Its repetition, which the guide calls
  safe, deletes the archive to capture the output again (db.ts:6098), finds no process, and the output
  is lost.
* A request that joins the release in flight of an earlier owner stays `requested` when that one
  ends, until the next pass.

Receipts:

* worker-start has no receipt until its worker is accepted, so two calls with one id may both be at
  work (`orchestration-mutation-executor.ts:42`); the other methods join, as the ledger's test
  "joins concurrent identical mutations" (:122) says. If the second then fails for another reason
  than `operation_unknown`, it deletes the receipt of the worker accepted for the first (:105): the
  first ends with `request_mismatch`, and a retry starts a second worker, where the test at :247
  has it told of the accepted Dispatch. `OnceOnly` is therefore about the other methods.
* A `reply` to a federated question whose relay is over its quota tells an error, its receipt is
  discarded, and the answer stands (`orchestration.ts:1064-1081`): another body is refused with
  `answer_conflict`, and only a repetition of the same one puts the answer on its way. In the same
  way federationImport keeps the items before the one that failed, and skips them when repeated.
  `ErrorHidesNothing` says what an error still excludes.
* A release that is resumed after a restart and fails discards its receipt although the effect of the
  interrupted one stands.

Cloud:

* Event cursors are drawn before the commit, and the stream reads beyond its cursor
  (`event-routes.ts:76`): an event that commits late is skipped for good, though the notifier calls
  the durable catch-up authoritative. `OnlyLateEventsSkipped` says that nothing else is.
* Two panels that number a report from the same copy of a run both get 200, and the second report is
  ignored (`TeamAgentRunPanel.tsx:101`, `agent-run-routes.ts:159`).
* A connection that breaks in the body of an answer makes `request` throw the error of the parser:
  the write is neither saved nor known to have happened (`teamrun-api-client.ts:109`).
* Rows queued in one millisecond are ordered by a random id (`teamrun-local-cache.ts:112`). If the
  launcher's second report goes first, the API refuses it with 409, and it stays at the head of the
  outbox; `docs/TeamRun_prd/MVP_IMPLEMENTATION.md:115` says writes are replayed in order.
* A write queued while the stream stays connected is sent at the next request only.
* Finalizing a publication writes its agent run as completed without looking at the run's status
  (`publication-routes.ts:235`; not modelled).

## 7. Not modelled

What section 2 lists as left, and what each module of section 3 names as left out. In the orchestration
code: schema migration and resets, the legacy contract, group messages and the pointers pushed into
idle panes. The retired coordinator loop (`coordinator.ts`) cannot be started:
`rpc/orchestration-contract-fence.ts` refuses it. Prompt, transcript and output formatting hold no
protocol state. The parts of the last inventory row — user interface, mobile app and CLI, git,
daemon, SSH, drivers, telemetry — are most of the repository's lines; they are clients of the
protocols modelled here or plumbing below them, and `PROJECT.json` lists them one by one.
