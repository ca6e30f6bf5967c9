--------------------------- MODULE FederationRelay ---------------------------
(***************************************************************************)
(* The relay of one federated dispatch.  The Run home owns the Task and    *)
(* Dispatch; the worker runs on another server, which queues what the      *)
(* worker sends in federation_relay_items.  The home pulls the queue,      *)
(* imports each item, settles the worker's report and acknowledges what it *)
(* imported; with protocol 3 the acknowledgment carries the home's verdict *)
(* and only then does the worker server settle its own attachment.         *)
(*                                                                         *)
(* Either process may restart, replies may be lost, and a request the home *)
(* gave up on may still arrive.  The dispatch starts out ready on both     *)
(* sides; federated start and the queue in the other direction are left    *)
(* out.  A message id is unique to the item, and an item changes its id    *)
(* only together with its kind, so <<sequence, kind>> stands for it.       *)
(***************************************************************************)
EXTENDS Naturals, FiniteSets

CONSTANTS
  Protocol,    \* the protocol versions the two servers may have agreed on
  MaxItems,    \* bound: relay items
  Quota,       \* unacknowledged items a dispatch may have (256 in the code)
  PageSize,    \* items per pull (FEDERATION_PULL_PAGE_SIZE, 50)
  MaxPages,    \* pulls per sync (MAX_FEDERATION_PULL_PAGES_PER_SYNC, 6)
  MaxFaults,   \* bound: time-outs and restarts, of either process, together
  Update       \* bound: the statuses task-update sets

TaskStatus == {"dispatched", "completed", "failed", "blocked", "ready", "pending"}

ASSUME ProtocolAssumption == Protocol \subseteq {2, 3}
ASSUME LimitsAssumption ==
  /\ MaxItems \in Nat /\ Quota \in Nat /\ MaxFaults \in Nat
  /\ Update \subseteq TaskStatus
  /\ PageSize \in Nat \ {0} /\ MaxPages \in Nat \ {0}

VARIABLES
  protocol,    \* remote_dispatch_attachments.protocol_version
  relay,       \* worker server: federation_relay_items, direction to_home
  attachment,  \* worker server: remote_dispatch_attachments.state
  receipts,    \* worker server: mutation_receipts of relay_ack_<dispatch>_<through>
  epoch,       \* worker server: runtime id of the running process
  waiting,     \* worker server: reports whose sender waits for the settlement
  told,        \* worker server: settlements published to waiting senders
  home,        \* home: the Task, its Dispatch and the worker row
  imported,    \* home: to_home_imported_sequence
  messages,    \* home: ids of the messages the relay brought
  acked,       \* home: remote_runtime_epoch, to_home_acknowledged_sequence
  checkpoint,  \* home: acknowledgment checkpoint, in memory
  sync,        \* home: the running sync
  stopWait,    \* home: worker-stop awaits federationStop
  acks,        \* federationAck requests not yet served
  stopCall,    \* federationStop: where it is, or its reply
  faults

worker_vars == <<relay, attachment, receipts, epoch, waiting, told>>
home_vars == <<home, imported, messages, acked, checkpoint, stopWait>>
vars == <<protocol, worker_vars, home_vars, sync, acks, stopCall, faults>>

Sequence == 1 .. MaxItems
Outcome == {"succeeded", "failed"}
Action == {"none", "completed", "failed", "rejected"}
Verdicts == [Sequence -> Action]
NoVerdicts == [s \in Sequence |-> "none"]

\* A report names an outcome; fits says that it names this dispatch's task.
Item ==
  [kind : {"absent", "status", "heartbeat"}, outcome : {"none"}, fits : {FALSE}, acked : BOOLEAN]
  \cup [kind : {"worker_done"}, outcome : Outcome, fits : BOOLEAN, acked : BOOLEAN]

Absent == [kind |-> "absent", outcome |-> "none", fits |-> FALSE, acked |-> FALSE]
Message(kind) == [kind |-> kind, outcome |-> "none", fits |-> FALSE, acked |-> FALSE]
Report(outcome, fits) ==
  [kind |-> "worker_done", outcome |-> outcome, fits |-> fits, acked |-> FALSE]

Point == [epoch : Nat, through : Nat]
NoPoint == [epoch |-> 0, through |-> 0]

AckRequest == [through : Sequence, verdicts : Verdicts]

Idle == [phase |-> "idle", pages |-> 0, acked |-> NoPoint, epoch |-> 0,
         items |-> [s \in Sequence |-> Absent], full |-> FALSE, cursor |-> 0,
         verdicts |-> NoVerdicts]

ReceiptRow == [state : {"none", "pending", "completed"}, verdicts : Verdicts]

HomeRow ==
  [task : TaskStatus,
   dispatch : {"dispatched", "completed", "failed"},
   worker : {"ready", "stopping", "stopped", "stop_unknown", "abandoned"} \cup Outcome]

SyncState ==
  [phase : {"idle", "pull", "pulled", "import", "ack", "acked", "refused"},
   pages : Nat, acked : Point, epoch : Nat, items : [Sequence -> Item],
   full : BOOLEAN, cursor : Nat, verdicts : Verdicts]

\* The rows and the running sync keep their declared shape.
TypeOK ==
  /\ protocol \in Protocol
  /\ relay \in [Sequence -> Item]
  /\ attachment \in {"ready", "stopping", "stopped", "stop_unknown"} \cup Outcome
  /\ receipts \in [Sequence -> ReceiptRow]
  /\ epoch \in Nat
  /\ waiting \in SUBSET Sequence
  /\ told \in SUBSET (Sequence \X Action)
  /\ home \in HomeRow
  /\ imported \in Nat
  /\ messages \in SUBSET (Sequence \X {"status", "heartbeat", "worker_done"})
  /\ acked \in Point
  /\ checkpoint \in Point
  /\ sync \in SyncState
  /\ stopWait \in BOOLEAN
  /\ acks \in SUBSET AckRequest
  /\ stopCall \in {"none", "request", "closing", "stopped", "stop_unknown", "error"} \cup Outcome
  /\ faults \in Nat

Init ==
  /\ protocol \in Protocol
  /\ relay = [s \in Sequence |-> Absent]
  /\ attachment = "ready"
  /\ receipts = [s \in Sequence |-> [state |-> "none", verdicts |-> NoVerdicts]]
  /\ epoch = 1
  /\ waiting = {} /\ told = {}
  /\ home = [task |-> "dispatched", dispatch |-> "dispatched", worker |-> "ready"]
  /\ imported = 0 /\ messages = {}
  /\ acked = [epoch |-> 1, through |-> 0]
  /\ checkpoint = NoPoint
  /\ sync = Idle
  /\ stopWait = FALSE
  /\ acks = {}
  /\ stopCall = "none"
  /\ faults = 0

Settles == protocol = 3

-----------------------------------------------------------------------------
(* Worker server: what the worker sends. *)

Sent == {s \in Sequence : relay[s].kind # "absent"}
Pending == {s \in Sent : ~relay[s].acked}
Heartbeats == {s \in Pending : relay[s].kind = "heartbeat"}

\* The sender of a report waits for the home with protocol 3; with protocol 2
\* queueing the report settles the attachment at once.
Reported(s, item) ==
  IF item.kind # "worker_done" THEN UNCHANGED <<attachment, waiting>>
  ELSE IF Settles THEN waiting' = waiting \cup {s} /\ UNCHANGED attachment
  ELSE attachment' = item.outcome /\ UNCHANGED waiting

Sendable == {Message(kind) : kind \in {"status", "heartbeat"}}
              \cup {Report(outcome, fits) : outcome \in Outcome, fits \in BOOLEAN}

\* A heartbeat joins a pending one; a report equal to a pending one is that one.
\* Reports in different words are told apart even if the outcome is the same.
Enqueue(item) ==
  /\ attachment = "ready"
  /\ \E s \in Sequence :
       /\ \/ /\ item.kind = "heartbeat" => Heartbeats = {}
             /\ Cardinality(Pending) < Quota
             /\ \A r \in Sequence : r \in Sent <=> r < s
             /\ relay' = [relay EXCEPT ![s] = item]
          \/ /\ s \in Pending /\ relay[s] = item /\ item.kind = "worker_done"
             /\ UNCHANGED relay
          \/ \* the quota is used up: the report takes a heartbeat's place
             /\ item.kind = "worker_done"
             /\ Cardinality(Pending) >= Quota
             /\ s \in Heartbeats /\ \A r \in Heartbeats : s <= r
             /\ relay' = [relay EXCEPT ![s] = item]
       /\ Reported(s, item)
  /\ UNCHANGED <<protocol, receipts, epoch, told, home_vars, sync, acks, stopCall, faults>>

\* After 30 s the sender is told that the outcome is unknown.
GiveUpWaiting(s) ==
  /\ s \in waiting
  /\ waiting' = waiting \ {s}
  /\ UNCHANGED <<protocol, relay, attachment, receipts, epoch, told, home_vars, sync, acks,
                 stopCall, faults>>

-----------------------------------------------------------------------------
(* Home: pull and import. *)

\* The import loop is one turn of the home's event loop; it may only be cut
\* short by the end of the process.
HomeTurn == sync.phase # "import"

Active(state) == state \in {"ready", "stopping", "stop_unknown"}

\* Mutant: a settled dispatch is no longer relayed.
EligibleWhileActive == Active(home.worker)

\* isFederatedDispatchRelayEligible
Eligible == Active(home.worker) \/ acked.through < imported

Pull(pages) == sync' = [Idle EXCEPT !.phase = "pull", !.pages = pages, !.acked = acked']

\* The sync is over; a dispatch no longer relayed gives up its checkpoint.
EndSync(point) ==
  /\ sync' = Idle
  /\ checkpoint' = IF Eligible' THEN point ELSE NoPoint

Sync ==
  /\ sync.phase = "idle"
  /\ UNCHANGED acked /\ Pull(MaxPages)
  /\ UNCHANGED <<protocol, worker_vars, home, imported, messages, checkpoint, stopWait, acks,
                 stopCall, faults>>

\* Every second; a sync that still runs is joined instead.
BeginSync == Eligible /\ Sync

\* worker-show and worker-stop sync once more when they find a report settled,
\* even if the relay was over.
SyncReported == attachment \in Outcome /\ Sync

\* Protocol 3 pulls what is unacknowledged, protocol 2 what follows the cursor.
Page ==
  LET due == IF Settles THEN Pending ELSE {s \in Sent : s > imported} IN
  {s \in due : Cardinality({r \in due : r < s}) < PageSize}

\* Mutant: what is pulled again is not expected.
ExpectedAfterImported(c) == c = imported

\* The first item is expected after the place before it with protocol 3, else
\* after what is imported.
ExpectedAfter(c) ==
  IF Settles /\ Page # {} THEN c + 1 \in Page /\ \A s \in Page : c < s
  ELSE c = imported

ServePull ==
  /\ sync.phase = "pull"
  /\ \E c \in 0 .. MaxItems :
       /\ ExpectedAfter(c)
       /\ sync' = [sync EXCEPT
            !.phase = "pulled",
            !.epoch = epoch,
            !.items = [s \in Sequence |-> IF s \in Page THEN relay[s] ELSE Absent],
            !.full = (Cardinality(Page) = PageSize),
            !.cursor = c]
  /\ UNCHANGED <<protocol, worker_vars, home_vars, acks, stopCall, faults>>

Pulled == {s \in Sequence : sync.items[s].kind # "absent"}

\* The item after the cursor is there; one imported before still has its message.
Importable(s) ==
  /\ sync.phase \in {"pulled", "import"}
  /\ s \in Pulled /\ s = sync.cursor + 1
  /\ s <= imported => <<s, sync.items[s].kind>> \in messages
  /\ s <= imported + 1

\* Mutant: the outcome of a report is stored as it is.
StatusIsOutcome(outcome) == outcome

Status(outcome) == IF outcome = "succeeded" THEN "completed" ELSE "failed"

\* settleWorkerReport accepts a report of the running attempt.
Settleable(item) == item.fits /\ home.dispatch = "dispatched" /\ home.task = "dispatched"

\* Mutant: the state of the attempt is not looked at.
VerdictAsReported(item) == IF item.fits THEN Status(item.outcome) ELSE "rejected"

\* Mutant: only the task is compared with an earlier settlement.
VerdictByTask(item) ==
  IF Settleable(item) \/ (item.fits /\ home.task = Status(item.outcome))
  THEN Status(item.outcome)
  ELSE "rejected"

\* A report is completed or failed if it settles the attempt or finds it so.
VerdictOn(item) ==
  IF \/ Settleable(item)
     \/ item.fits /\ home.dispatch = Status(item.outcome) /\ home.task = Status(item.outcome)
  THEN Status(item.outcome)
  ELSE "rejected"

\* Mutant: the message is not looked for before an item counts as imported.
ImportItemUnchecked(s) ==
  /\ sync.phase \in {"pulled", "import"} /\ s \in Pulled /\ s = sync.cursor + 1
  /\ messages' = messages \cup {<<s, sync.items[s].kind>>}
  /\ imported' = IF s <= imported THEN imported ELSE s
  /\ UNCHANGED home
  /\ sync' = [sync EXCEPT !.phase = "import", !.cursor = s, !.items[s] = Absent]
  /\ UNCHANGED <<protocol, worker_vars, acked, checkpoint, stopWait, acks, stopCall, faults>>

ImportItem(s) ==
  LET item == sync.items[s]
      report == item.kind = "worker_done" IN
  /\ Importable(s)
  /\ messages' = messages \cup {<<s, item.kind>>}
  /\ imported' = IF s <= imported THEN imported ELSE s
  /\ home' = IF report /\ Settleable(item)
             THEN [task |-> Status(item.outcome), dispatch |-> Status(item.outcome),
                   worker |-> IF home.worker = "ready" THEN item.outcome ELSE home.worker]
             ELSE home
  /\ sync' = [sync EXCEPT
       !.phase = "import",
       !.cursor = s,
       !.items[s] = Absent,
       !.verdicts[s] = IF report /\ Settles THEN VerdictOn(item) ELSE "none"]
  /\ UNCHANGED <<protocol, worker_vars, acked, checkpoint, stopWait, acks, stopCall, faults>>

\* A gap, or an item that was imported under another message id.
ImportFails ==
  /\ sync.phase \in {"pulled", "import"}
  /\ Pulled # {} /\ \A s \in Sequence : ~Importable(s)
  /\ UNCHANGED <<home, acked, imported>> /\ EndSync(checkpoint)
  /\ UNCHANGED <<protocol, worker_vars, messages, stopWait, acks, stopCall, faults>>

-----------------------------------------------------------------------------
(* Acknowledgment. *)

\* The page is done: pull the next one if it was full, else the sync is over.
NextPage(point) ==
  IF sync.full /\ sync.pages > 1
  THEN Pull(sync.pages - 1) /\ checkpoint' = point
  ELSE EndSync(point)

\* Something was imported beyond what this process, or the row as it was when
\* the page was pulled, has acknowledged to this incarnation of the server.
AckDue ==
  /\ checkpoint.epoch = sync.epoch => sync.cursor > checkpoint.through
  /\ sync.acked.epoch = sync.epoch => sync.cursor > sync.acked.through
  /\ sync.cursor > 0

SendAck ==
  /\ sync.phase \in {"pulled", "import"}
  /\ Pulled = {} /\ AckDue
  /\ acks' = acks \cup {[through |-> sync.cursor, verdicts |-> sync.verdicts]}
  /\ sync' = [sync EXCEPT !.phase = "ack"]
  /\ UNCHANGED <<protocol, worker_vars, home_vars, stopCall, faults>>

SkipAck ==
  /\ sync.phase \in {"pulled", "import"}
  /\ Pulled = {} /\ ~AckDue
  /\ UNCHANGED <<home, imported, acked>>
  /\ NextPage(checkpoint)
  /\ UNCHANGED <<protocol, worker_vars, messages, stopWait, acks, stopCall, faults>>

Judged(a) == {s \in Sequence : a.verdicts[s] # "none"}
Terminal(a) == {a.verdicts[s] : s \in Judged(a)} \ {"rejected"}
SettledAs(action) == IF action = "completed" THEN "succeeded" ELSE "failed"

\* Mutant: an acknowledgment may leave out a pending report.
AckValidOmitting(a) ==
  /\ \A s \in Judged(a) :
       /\ relay[s].kind = "worker_done"
       /\ a.verdicts[s] \in {"rejected", Status(relay[s].outcome)}
  /\ \A x, y \in Terminal(a) : x = y
  /\ \A x \in Terminal(a) : attachment \in {"ready", SettledAs(x)}

\* acknowledgeFederationRelay: each verdict is about a queued report with that
\* outcome, verdicts do not conflict, with protocol 3 no pending report is left
\* out, and the attachment can still settle.
AckValid(a) ==
  /\ \A s \in Judged(a) :
       /\ relay[s].kind = "worker_done"
       /\ a.verdicts[s] \in {"rejected", Status(relay[s].outcome)}
  /\ Settles => \A s \in Pending :
       s <= a.through /\ relay[s].kind = "worker_done" => s \in Judged(a)
  /\ \A x, y \in Terminal(a) : x = y
  /\ \A x \in Terminal(a) : attachment \in {"ready", SettledAs(x)}

ApplyAck(a) ==
  /\ relay' = [s \in Sequence |->
       IF s \in Sent /\ s <= a.through THEN [relay[s] EXCEPT !.acked = TRUE] ELSE relay[s]]
  /\ attachment' = IF "completed" \in Terminal(a) THEN "succeeded"
                   ELSE IF "failed" \in Terminal(a) THEN "failed" ELSE attachment

\* The receipt of the request: a retry has the same id, and must be the same.
Receipt(a, state) == receipts' = [receipts EXCEPT
                       ![a.through] = [state |-> state, verdicts |-> a.verdicts]]

\* The reply reaches the home if its sync still waits for it.
Answer(a, phase) ==
  /\ acks' = acks \ {a}
  /\ sync' = IF sync.phase = "ack" /\ sync.cursor = a.through /\ sync.verdicts = a.verdicts
             THEN [sync EXCEPT !.phase = phase]
             ELSE sync

ExecuteAck(a) ==
  /\ receipts[a.through].state = "none"
  /\ AckValid(a)
  /\ ApplyAck(a)
  /\ Receipt(a, "completed")
  /\ told' = told \cup {<<s, a.verdicts[s]>> : s \in waiting \cap Judged(a)}
  /\ waiting' = waiting \ Judged(a)
  /\ Answer(a, "acked")
  /\ UNCHANGED <<protocol, epoch, home_vars, stopCall, faults>>

ReplayAck(a) ==
  /\ receipts[a.through] = [state |-> "completed", verdicts |-> a.verdicts]
  /\ Answer(a, "acked")
  /\ UNCHANGED <<protocol, worker_vars, home_vars, stopCall, faults>>

\* request_mismatch, or operation_unknown for a request an earlier process began.
RefuseAck(a) ==
  /\ IF receipts[a.through].state = "none"
     THEN ~AckValid(a)
     ELSE receipts[a.through] # [state |-> "completed", verdicts |-> a.verdicts]
  /\ Answer(a, "refused")
  /\ UNCHANGED <<protocol, worker_vars, home_vars, stopCall, faults>>

WorkerReboot ==
  /\ faults < MaxFaults
  /\ faults' = faults + 1
  /\ epoch' = epoch + 1
  /\ waiting' = {}
  /\ stopCall' = IF stopCall # "closing" THEN stopCall ELSE IF stopWait THEN "error" ELSE "none"

WorkerRestart ==
  /\ WorkerReboot
  /\ UNCHANGED <<protocol, relay, attachment, receipts, told, home_vars, sync, acks>>

\* The worker server dies between beginning the receipt and completing it.
TornAck(a) ==
  /\ receipts[a.through].state = "none"
  /\ Receipt(a, "pending")
  /\ \/ UNCHANGED <<relay, attachment>>
     \/ AckValid(a) /\ ApplyAck(a)
  /\ Answer(a, "refused")
  /\ WorkerReboot
  /\ UNCHANGED <<protocol, told, home_vars>>

LaterOf(m, n) == IF m > n THEN m ELSE n

\* After the last page of a sync, if that was full, the last item counts as
\* unacknowledged, so that the relay stays eligible.
AckReturns ==
  LET through == IF sync.full /\ sync.pages = 1 THEN sync.cursor - 1 ELSE sync.cursor IN
  /\ sync.phase = "acked"
  /\ UNCHANGED <<home, imported>>
  /\ acked' = [epoch |-> sync.epoch,
               through |-> IF acked.epoch = sync.epoch THEN LaterOf(acked.through, through)
                                                       ELSE through]
  /\ NextPage(IF checkpoint.epoch = sync.epoch /\ checkpoint.through >= through
              THEN checkpoint ELSE [epoch |-> sync.epoch, through |-> through])
  /\ UNCHANGED <<protocol, worker_vars, messages, stopWait, acks, stopCall, faults>>

\* The reply was an error.
AckRefused ==
  /\ sync.phase = "refused"
  /\ UNCHANGED <<home, imported, acked>> /\ EndSync(checkpoint)
  /\ UNCHANGED <<protocol, worker_vars, messages, stopWait, acks, stopCall, faults>>

\* No reply within 15 s.  The request may still be on its way.
SyncTimesOut ==
  /\ sync.phase \in {"pull", "pulled", "ack", "acked", "refused"}
  /\ faults < MaxFaults /\ faults' = faults + 1
  /\ UNCHANGED <<home, imported, acked>> /\ EndSync(checkpoint)
  /\ UNCHANGED <<protocol, worker_vars, messages, stopWait, acks, stopCall>>

HomeRestart ==
  /\ faults < MaxFaults /\ faults' = faults + 1
  /\ sync' = Idle
  /\ checkpoint' = NoPoint
  /\ stopWait' = FALSE
  /\ stopCall' = IF stopCall \in {"request", "closing"} THEN stopCall ELSE "none"
  /\ UNCHANGED <<protocol, worker_vars, home, imported, messages, acked, acks>>

-----------------------------------------------------------------------------
(* worker-stop, worker-show, worker-abandon and task-update at the home. *)

BeginStop ==
  /\ HomeTurn
  /\ home.worker = "ready" /\ ~stopWait /\ stopCall = "none"
  /\ home' = [home EXCEPT !.worker = "stopping", !.task = "blocked"]
  /\ stopWait' = TRUE
  /\ stopCall' = "request"
  /\ UNCHANGED <<protocol, worker_vars, imported, messages, acked, checkpoint, sync, acks,
                 faults>>

StopReply(state) == stopCall' = IF stopWait THEN state ELSE "none"

\* federationStop: an attachment that has ended is reported as it is; a ready
\* one is fenced before its terminal is closed.
ServeStop ==
  /\ stopCall = "request"
  /\ CASE attachment = "ready" -> attachment' = "stopping" /\ stopCall' = "closing"
       [] attachment \in {"stopping", "stop_unknown"} ->
            UNCHANGED attachment /\ StopReply("error")
       [] OTHER -> UNCHANGED attachment /\ StopReply(attachment)
  /\ UNCHANGED <<protocol, relay, receipts, epoch, waiting, told, home_vars, sync, acks,
                 faults>>

CloseReturns ==
  /\ stopCall = "closing"
  /\ \E state \in {"stopped", "stop_unknown"} :
       /\ attachment' = IF attachment = "stopping" THEN state ELSE attachment
       /\ StopReply(state)
  /\ UNCHANGED <<protocol, relay, receipts, epoch, waiting, told, home_vars, sync, acks,
                 faults>>

StopUnknown == home' = [home EXCEPT !.worker = IF @ = "stopping" THEN "stop_unknown" ELSE @]

Stopped == home' = [home EXCEPT !.worker = "stopped",
                                !.dispatch = IF @ = "dispatched" THEN "failed" ELSE @]

\* A stopped worker is settled; one that had reported is put back to be settled
\* by the report; any other reply leaves the outcome unknown.
StopReturns ==
  /\ HomeTurn
  /\ stopWait /\ stopCall \notin {"none", "request", "closing"}
  /\ stopWait' = FALSE /\ stopCall' = "none"
  /\ CASE stopCall = "stopped" /\ home.worker \in {"stopping", "stop_unknown"} -> Stopped
       [] stopCall \in Outcome /\ home.worker = "stopping" ->
            home' = [home EXCEPT !.worker = "ready",
                                 !.task = IF @ = "blocked" THEN "dispatched" ELSE @]
       [] OTHER -> StopUnknown
  /\ UNCHANGED <<protocol, worker_vars, imported, messages, acked, checkpoint, sync, acks,
                 faults>>

StopTimesOut ==
  /\ HomeTurn
  /\ stopWait
  /\ faults < MaxFaults /\ faults' = faults + 1
  /\ StopUnknown
  /\ stopWait' = FALSE
  /\ stopCall' = IF stopCall \in {"request", "closing"} THEN stopCall ELSE "none"
  /\ UNCHANGED <<protocol, worker_vars, imported, messages, acked, checkpoint, sync, acks>>

\* worker-show: a stopped attachment settles a stop of unknown outcome; a ready
\* one refreshes the recorded runtime id, maybe with that of an earlier process
\* whose answer was on its way.
ShowWorker ==
  /\ HomeTurn
  /\ \/ /\ attachment = "stopped" /\ home.worker \in {"stopping", "stop_unknown"}
        /\ Stopped /\ UNCHANGED acked
     \/ /\ \E e \in 1 .. epoch :
             /\ (attachment = "ready") \/ (e < epoch)
             /\ acked' = [acked EXCEPT !.epoch = e]
        /\ UNCHANGED home
  /\ UNCHANGED <<protocol, worker_vars, imported, messages, checkpoint, stopWait, sync, acks,
                 stopCall, faults>>

Abandon ==
  /\ HomeTurn
  /\ home.worker \notin {"abandoned", "succeeded"}
  /\ home' = [task |-> "blocked", worker |-> "abandoned",
              dispatch |-> IF home.dispatch = "dispatched" THEN "failed" ELSE home.dispatch]
  /\ UNCHANGED <<protocol, worker_vars, imported, messages, acked, checkpoint, stopWait, sync,
                 acks, stopCall, faults>>

\* task-update, and the effect of a later attempt on the task it shares.
UpdateTask(status) ==
  /\ HomeTurn
  /\ home' = [home EXCEPT
       !.task = status,
       !.dispatch = IF status = "completed" /\ @ = "dispatched" THEN "completed" ELSE @]
  /\ UNCHANGED <<protocol, worker_vars, imported, messages, acked, checkpoint, stopWait, sync,
                 acks, stopCall, faults>>

-----------------------------------------------------------------------------

WorkerNext ==
  \/ \E item \in Sendable : Enqueue(item)
  \/ \E s \in Sequence : GiveUpWaiting(s)

ServeAck(a) == ExecuteAck(a) \/ ReplayAck(a) \/ RefuseAck(a)

SyncNext ==
  \/ BeginSync \/ ServePull
  \/ (\E s \in Sequence : ImportItem(s)) \/ ImportFails
  \/ SendAck \/ SkipAck \/ AckReturns \/ AckRefused
  \/ \E a \in acks : ServeAck(a)

StopNext == ServeStop \/ CloseReturns \/ StopReturns

CoordinatorNext == BeginStop \/ ShowWorker \/ SyncReported \/ Abandon

FaultNext == SyncTimesOut \/ StopTimesOut \/ WorkerRestart \/ HomeRestart

OrderlyNext == WorkerNext \/ SyncNext \/ StopNext \/ CoordinatorNext \/ FaultNext

Next ==
  \/ OrderlyNext
  \/ \E a \in acks : TornAck(a)
  \/ \E status \in Update : UpdateTask(status)

Spec == Init /\ [][Next]_vars

-----------------------------------------------------------------------------
(* Safety. *)

Verdict ==
  INSTANCE FederatedVerdict WITH
    verdict <- IF home.dispatch = "dispatched" THEN "open" ELSE home.dispatch,
    known <- IF Settles /\ attachment \in Outcome THEN Status(attachment) ELSE "open"

\* The worker server settles its attachment only as the home settled the
\* dispatch, and neither is undone, whatever is lost, retried or delivered late
\* and whatever the coordinator does meanwhile (protocol 3).
ImplementsVerdict == Verdict!Spec

\* A sender is told that its report completed or failed the dispatch only if
\* the home's dispatch ended that way.
ToldAgreement ==
  \A s \in Sequence, action \in {"completed", "failed"} :
    <<s, action>> \in told => home.dispatch = action

\* An item leaves the queue only once its own message is at the home: not one
\* it replaced, and not one of which the home has yet to hear (protocol 3).
AckedReachedHome ==
  Settles => \A s \in Sequence : relay[s].acked => <<s, relay[s].kind>> \in messages

\* The home takes at most one message for each place in the queue.
OneMessagePerItem ==
  \A m, n \in messages : m[1] = n[1] => m = n

Channel ==
  INSTANCE RelayChannel WITH
    Place <- Sequence,
    queued <- [s \in Sequence |-> relay[s].kind],
    count <- imported,
    delivered <- messages,
    released <- {s \in Sequence : Settles /\ relay[s].acked}

\* The queue, its pages, retries and acknowledgments are a channel that delivers
\* in order, once, and leaves nothing out, through time-outs, restarts of either
\* server and late or repeated acknowledgments; with protocol 3 it also forgets
\* nothing of which the home has yet to hear.
ImplementsChannel == Channel!Spec

-----------------------------------------------------------------------------
(* Progress, while nobody overrides the task and no acknowledgment is torn. *)

\* The home syncs an eligible dispatch every second and each call answers or
\* times out; the handler of federationStop waits for a terminal to close.
Fairness == WF_vars(SyncNext) /\ WF_vars(StopNext)

OrderlySpec == Init /\ [][OrderlyNext]_vars /\ Fairness

\* A queued report reaches the home as long as the home relays the dispatch.
ReportReachesHome ==
  \A s \in Sequence :
    relay[s].kind = "worker_done"
      ~> <<s, "worker_done">> \in messages \/ ~Active(home.worker)

\* The worker server learns of a report that completed the dispatch (protocol 3).
VerdictReachesWorker ==
  Settles /\ home.dispatch = "completed" ~> attachment = "succeeded"

-----------------------------------------------------------------------------
(* What a test of the repository says and the code does not keep. *)

\* "retries a lost relay acknowledgment" (orchestration-federation.test.ts:495):
\* what the home imported is acknowledged in the end.
LostAckIsRetried == acked.through < imported ~> acked.through = imported

=============================================================================
