----------------------------- MODULE CloudSync ------------------------------
(***************************************************************************)
(* TeamRun's cloud synchronisation: the desktop client's offline outbox    *)
(* and flush, the idempotent mutations of the API, the status of agent     *)
(* runs, and the team event log with its stream.                           *)
(*                                                                         *)
(* The writes are status reports of agent runs, whose order the API looks  *)
(* at; every other write in the outbox behaves like a report the API       *)
(* accepts.  The client numbers a report from the copy of the run it last  *)
(* read.  A request that the client gave up on may still be on its way, or *)
(* at work in a transaction.                                               *)
(***************************************************************************)
EXTENDS Naturals, FiniteSets

CONSTANTS
  Write,          \* writes, each with its idempotency key
  Run,            \* agent runs
  MaxClock,       \* bound: milliseconds in which writes are queued
  MaxFault        \* bound: lost requests and responses, aborts, dropped streams, restarts

ASSUME SetsAssumption == IsFiniteSet(Write) /\ Run # {}
ASSUME BoundAssumption == MaxClock \in Nat /\ MaxFault \in Nat

VARIABLES
  write,          \* the writes: what they say, how far their call is, what the caller was told
  launch,         \* the next of the two reports the launcher of a run makes; 3 when it is over
  seen,           \* the client's copy of agent_runs
  clock,
  outbox,         \* mutation_outbox: the writes with a row in it
  place,          \* created_at and id of a row
  flush,          \* the running flush and the rows it listed
  net,            \* requests and responses
  record,         \* idempotency_records
  run,            \* agent_runs
  cursor,         \* the cursor of the team event of a write, from when its transaction drew it
  drawn,          \* the last cursor drawn from the sequence of team_events
  stream,         \* the event stream: connected, where from, the server's cursor, the last read
  wire,           \* events written to the stream and not read
  durable,        \* event_cursors
  faults,
  behind,         \* history: rows with an older created_at when a write was saved unsent
  shown,          \* history: events the client emitted
  late            \* history: events committed below a cursor the stream had passed

client == <<write, launch, seen, clock, outbox, place, flush, behind>>
server == <<record, run, cursor, drawn, late>>
streamVars == <<stream, wire, durable, shown>>
vars == <<client, net, server, streamVars, faults>>

Status == {"queued", "starting", "working", "review"}
\* runTransitions between these.
Follows(from, to) ==
  <<from, to>> \in {<<"queued", "starting">>, <<"starting", "working">>, <<"starting", "review">>,
                    <<"working", "review">>, <<"review", "working">>}

Row == [status : Status, sequence : 0 .. 2 + Cardinality(Write)]
Queued == [status |-> "queued", sequence |-> 0]
Launched == [status |-> "working", sequence |-> 2]
Cursor == 0 .. Cardinality(Write) + MaxFault
Rank == 1 .. Cardinality(Write)

TypeOK ==
  /\ write \in [Write -> [call : {"new", "waiting", "sent", "over"}, run : Run, status : Status,
                          sequence : 0 .. 2 + Cardinality(Write),
                          told : {"nothing", "done", "failed", "queued", "broken"}]]
  /\ launch \in [Run -> 1 .. 3]
  /\ seen \in [Run -> Row]
  /\ clock \in 0 .. MaxClock
  /\ outbox \in SUBSET Write
  /\ place \in [Write -> [created : 0 .. MaxClock, id : Rank]]
  /\ flush \in [on : BOOLEAN, todo : SUBSET Write]
  /\ net \in SUBSET [write : Write, by : {"call", "flush", "nobody"},
                     state : {"request", "running", "ok", "error"}]
  /\ record \in SUBSET Write
  /\ run \in [Run -> Row]
  /\ cursor \in [Write -> Cursor]
  /\ drawn \in Cursor
  /\ stream \in [on : BOOLEAN, from : Cursor, at : Cursor, read : Cursor]
  /\ wire \in SUBSET Cursor
  /\ durable \in Cursor
  /\ faults \in 0 .. MaxFault
  /\ behind \in [Write -> SUBSET Write]
  /\ shown \in SUBSET Cursor
  /\ late \in SUBSET Cursor

NoFlush == [on |-> FALSE, todo |-> {}]
Closed(from) == [on |-> FALSE, from |-> from, at |-> from, read |-> from]

Init ==
  /\ write = [w \in Write |-> [call |-> "new", run |-> CHOOSE r \in Run : TRUE,
                               status |-> "queued", sequence |-> 0, told |-> "nothing"]]
  /\ run \in [Run -> {Queued, Launched}]
  /\ launch = [r \in Run |-> IF run[r] = Queued THEN 1 ELSE 3]
  /\ seen = run
  /\ clock = 0
  /\ outbox = {}
  /\ place = [w \in Write |-> [created |-> 0, id |-> 1]]
  /\ flush = NoFlush
  /\ net = {}
  /\ record = {}
  /\ cursor = [w \in Write |-> 0]
  /\ drawn = 0
  /\ stream = Closed(0)
  /\ wire = {} /\ durable = 0
  /\ faults = 0
  /\ behind = [w \in Write |-> {}]
  /\ shown = {} /\ late = {}

Fault == faults < MaxFault /\ faults' = faults + 1

Attempt(w, by, state) == [write |-> w, by |-> by, state |-> state]
Least(S) == CHOOSE x \in S : \A y \in S : x <= y
Greatest(S) == CHOOSE x \in S : \A y \in S : y <= x

-----------------------------------------------------------------------------
(* The desktop client. *)

\* flushPending joins the running flush, or lists the outbox and starts one.
FlushPending ==
  flush' = IF flush.on \/ outbox = {} THEN flush ELSE [on |-> TRUE, todo |-> outbox]

\* request: a report of run r is made, and waits for a flush first.
Request(w, r, sequence, status) ==
  /\ write[w].call = "new"
  /\ write' = [write EXCEPT ![w] = [call |-> "waiting", run |-> r, status |-> status,
                                    sequence |-> sequence, told |-> "nothing"]]
  /\ FlushPending
  /\ UNCHANGED <<seen, clock, outbox, place, behind, net, server, streamVars, faults>>

\* linkAgentRun: the launcher of a run reports it starting, then working; an error ends it,
\* unless the report was saved for later.
LinkAgentRun(w, r) ==
  /\ launch[r] < 3
  /\ launch[r] = 2 => \E x \in Write : /\ write[x].run = r /\ write[x].sequence = 1
                                       /\ write[x].told \in {"done", "queued"}
  /\ launch' = [launch EXCEPT ![r] = @ + 1]
  /\ Request(w, r, launch[r], IF launch[r] = 1 THEN "starting" ELSE "working")

\* The run panels (of every window and paired client) report what the agent does, and the
\* user that it is ready; they number the report from their copy of the run.
ReportStatus(w, r, status) ==
  /\ seen[r].status # "queued"
  /\ status # seen[r].status
  /\ Request(w, r, seen[r].sequence + 1, status)
  /\ UNCHANGED launch

\* onRefresh: the runs are read again.
Refresh(r) ==
  /\ seen[r] # run[r]
  /\ seen' = [seen EXCEPT ![r] = run[r]]
  /\ UNCHANGED <<write, launch, clock, outbox, place, flush, behind, net, server, streamVars,
                 faults>>

Before(x, y) ==
  \/ place[x].created < place[y].created
  \/ place[x].created = place[y].created /\ place[x].id < place[y].id

\* Mutant: the caller is told in a word it does not know.
DeferMutationMistold(w) ==
  /\ \E id \in Rank :
       /\ \A x \in outbox : place[x].id # id
       /\ place' = [place EXCEPT ![w] = [created |-> clock, id |-> id]]
  /\ outbox' = outbox \cup {w}
  /\ write' = [write EXCEPT ![w].call = "over", ![w].told = "saved"]

\* deferMutation: a row at the present time with a random id.
DeferMutation(w) ==
  /\ \E id \in Rank :
       /\ \A x \in outbox : place[x].id # id
       /\ place' = [place EXCEPT ![w] = [created |-> clock, id |-> id]]
  /\ outbox' = outbox \cup {w}
  /\ write' = [write EXCEPT ![w].call = "over", ![w].told = "queued"]

\* The flush it waited for is over.  The write is sent only if nothing is left in the outbox.
Proceed(w) ==
  /\ write[w].call = "waiting"
  /\ ~flush.on
  /\ \/ /\ outbox # {}
        /\ DeferMutation(w)
        /\ behind' = [behind EXCEPT ![w] = {x \in outbox : place[x].created < clock}]
        /\ UNCHANGED net
     \/ /\ outbox = {}
        /\ write' = [write EXCEPT ![w].call = "sent"]
        /\ net' = net \cup {Attempt(w, "call", "request")}
        /\ UNCHANGED <<outbox, place, behind>>
  /\ UNCHANGED <<launch, seen, clock, flush, server, streamVars, faults>>

\* The response arrives; an error of the API is not deferred.
Answered(w) ==
  /\ \/ /\ Attempt(w, "call", "ok") \in net
        /\ write' = [write EXCEPT ![w].call = "over", ![w].told = "done"]
        /\ net' = net \ {Attempt(w, "call", "ok")}
     \/ /\ Attempt(w, "call", "error") \in net
        /\ write' = [write EXCEPT ![w].call = "over", ![w].told = "failed"]
        /\ net' = net \ {Attempt(w, "call", "error")}
  /\ UNCHANGED <<launch, seen, clock, outbox, place, flush, behind, server, streamVars, faults>>

\* The connection breaks in the body of the answer: the caller gets the error of json(), and the
\* write is not saved.
BodyFails(w) ==
  /\ Fault
  /\ \E state \in {"ok", "error"} :
       /\ Attempt(w, "call", state) \in net
       /\ net' = net \ {Attempt(w, "call", state)}
  /\ write' = [write EXCEPT ![w].call = "over", ![w].told = "broken"]
  /\ UNCHANGED <<launch, seen, clock, outbox, place, flush, behind, server, streamVars>>

\* What the network, or an abandoned connection, makes of an attempt the client gave up on.
Abandoned(w, by) ==
  LET mine == {a \in net : a.write = w /\ a.by = by}
      going == {Attempt(w, "nobody", a.state) : a \in
                  {b \in mine : b.state \in {"request", "running"}}} IN
  \/ net' = (net \ mine) \cup going
  \/ net' = (net \ mine) \cup {a \in going : a.state = "running"}

\* fetch fails or times out, whether or not the API has got the request.
CallFails(w) ==
  /\ write[w].call = "sent"
  /\ Fault
  /\ Abandoned(w, "call")
  /\ DeferMutation(w)
  /\ UNCHANGED <<launch, seen, clock, flush, behind, server, streamVars>>

\* A flush without a request: the event stream connects.
StartFlush ==
  /\ ~flush.on /\ outbox # {}
  /\ FlushPending
  /\ UNCHANGED <<write, launch, seen, clock, outbox, place, behind, net, server, streamVars, faults>>

First(S) == CHOOSE w \in S : \A x \in S \ {w} : Before(w, x)

FlushSend ==
  /\ flush.on /\ flush.todo # {}
  /\ \A a \in net : a.by # "flush"
  /\ net' = net \cup {Attempt(First(flush.todo), "flush", "request")}
  /\ UNCHANGED <<client, server, streamVars, faults>>

\* Mutants: a refused row is deleted; a refused row is passed over.
FlushAnsweredDropping(w) ==
  /\ \E state \in {"ok", "error"} :
       /\ Attempt(w, "flush", state) \in net
       /\ net' = net \ {Attempt(w, "flush", state)}
  /\ outbox' = outbox \ {w}
  /\ flush' = IF flush.todo = {w} THEN NoFlush ELSE [flush EXCEPT !.todo = @ \ {w}]
  /\ UNCHANGED <<write, launch, seen, clock, place, behind, server, streamVars, faults>>
FlushAnsweredPassing(w) ==
  /\ \E state \in {"ok", "error"} :
       /\ Attempt(w, "flush", state) \in net
       /\ net' = net \ {Attempt(w, "flush", state)}
       /\ outbox' = IF state = "ok" THEN outbox \ {w} ELSE outbox
  /\ flush' = IF flush.todo = {w} THEN NoFlush ELSE [flush EXCEPT !.todo = @ \ {w}]
  /\ UNCHANGED <<write, launch, seen, clock, place, behind, server, streamVars, faults>>

\* A row is deleted when the API has said yes; an error stops the flush, and the row stays.
FlushAnswered(w) ==
  /\ \/ /\ Attempt(w, "flush", "ok") \in net
        /\ outbox' = outbox \ {w}
        /\ flush' = IF flush.todo = {w} THEN NoFlush ELSE [flush EXCEPT !.todo = @ \ {w}]
        /\ net' = net \ {Attempt(w, "flush", "ok")}
     \/ /\ Attempt(w, "flush", "error") \in net
        /\ flush' = NoFlush
        /\ net' = net \ {Attempt(w, "flush", "error")}
        /\ UNCHANGED outbox
  /\ UNCHANGED <<write, launch, seen, clock, place, behind, server, streamVars, faults>>

FlushFails(w) ==
  /\ \E a \in net : a.write = w /\ a.by = "flush"
  /\ Fault
  /\ Abandoned(w, "flush")
  /\ flush' = NoFlush
  /\ UNCHANGED <<write, launch, seen, clock, outbox, place, behind, server, streamVars>>

Tick ==
  /\ clock < MaxClock
  /\ clock' = clock + 1
  /\ UNCHANGED <<write, launch, seen, outbox, place, flush, behind, net, server, streamVars, faults>>

\* The client stops and starts again: the calls and the flush are lost, the outbox and the
\* cursor stay.
ClientRestart ==
  /\ Fault
  /\ write' = [w \in Write |-> IF write[w].call \in {"waiting", "sent"}
                               THEN [write[w] EXCEPT !.call = "over"] ELSE write[w]]
  /\ flush' = NoFlush
  /\ net' = {Attempt(a.write, "nobody", a.state) : a \in
               {b \in net : b.state \in {"request", "running"}}}
  /\ launch' = [r \in Run |-> 3]
  /\ stream' = Closed(durable)
  /\ wire' = {}
  /\ UNCHANGED <<seen, clock, outbox, place, behind, server, durable, shown>>

-----------------------------------------------------------------------------
(* The API. *)

Respond(a, state) == net' = (net \ {a}) \cup
                            (IF a.by = "nobody" THEN {} ELSE {[a EXCEPT !.state = state]})

Running(a) == a \in net /\ a.state = "running"

\* The transactions that hold the lock of a key, and those that hold the row of a run.
Locks(w) == {a \in net : Running(a) /\ a.write = w}
RowLocks(r) == {a \in net : Running(a) /\ write[a.write].run = r}

\* runIdempotentMutation takes the lock of the key and looks for its record.
Receive(a) == a \in net /\ a.state = "request" /\ Locks(a.write) = {}

Replay(a) ==
  /\ Receive(a)
  /\ a.write \in record
  /\ Respond(a, "ok")
  /\ UNCHANGED <<client, server, streamVars, faults>>

\* The report is executed under the lock of the run's row.
Execute(a) ==
  /\ Receive(a)
  /\ a.write \notin record
  /\ RowLocks(write[a.write].run) = {}

\* Mutant: the sequence of the last report is not looked at.
NeverStale(w) == FALSE

Stale(w) == write[w].sequence <= run[write[w].run].sequence
Valid(w) ==
  write[w].status = run[write[w].run].status \/ Follows(run[write[w].run].status, write[w].status)

\* A newer report was applied already: the answer is yes, and nothing changes.
IgnoreStale(a) ==
  /\ Execute(a)
  /\ Stale(a.write)
  /\ record' = record \cup {a.write}
  /\ Respond(a, "ok")
  /\ UNCHANGED <<client, run, cursor, drawn, late, streamVars, faults>>

Refuse(a) ==
  /\ Execute(a)
  /\ ~Stale(a.write) /\ ~Valid(a.write)
  /\ Respond(a, "error")
  /\ UNCHANGED <<client, server, streamVars, faults>>

\* appendTeamEvent draws the cursor of the event before the transaction commits.
Apply(a) ==
  /\ Execute(a)
  /\ ~Stale(a.write) /\ Valid(a.write)
  /\ drawn' = drawn + 1
  /\ cursor' = [cursor EXCEPT ![a.write] = drawn + 1]
  /\ net' = (net \ {a}) \cup {[a EXCEPT !.state = "running"]}
  /\ UNCHANGED <<client, record, run, late, streamVars, faults>>

Commit(a) ==
  LET w == a.write IN
  /\ Running(a)
  /\ record' = record \cup {w}
  /\ run' = [run EXCEPT ![write[w].run] = [status |-> write[w].status,
                                           sequence |-> write[w].sequence]]
  /\ late' = IF cursor[w] < Greatest({stream.at, durable}) THEN late \cup {cursor[w]} ELSE late
  /\ Respond(a, "ok")
  /\ UNCHANGED <<client, cursor, drawn, streamVars, faults>>

\* The transaction is rolled back; the cursor it drew is not used again.
Abort(a) ==
  /\ Running(a)
  /\ Fault
  /\ cursor' = [cursor EXCEPT ![a.write] = 0]
  /\ Respond(a, "error")
  /\ UNCHANGED <<client, record, run, drawn, late, streamVars>>

-----------------------------------------------------------------------------
(* The event stream. *)

\* The committed team events.
events == {cursor[w] : w \in record} \ {0}

Connect ==
  /\ ~stream.on
  /\ stream' = [stream EXCEPT !.on = TRUE]
  /\ UNCHANGED <<client, net, server, wire, durable, shown, faults>>

\* drain: every committed event beyond the server's cursor is written.
Drain ==
  LET new == {e \in events : e > stream.at} IN
  /\ stream.on
  /\ new # {}
  /\ wire' = wire \cup new
  /\ stream' = [stream EXCEPT !.at = Greatest(new)]
  /\ UNCHANGED <<client, net, server, durable, shown, faults>>

\* The client stores the cursor, which never goes back, and emits the event.
ReadEvent ==
  LET e == Least(wire) IN
  /\ wire # {}
  /\ wire' = wire \ {e}
  /\ stream' = [stream EXCEPT !.read = e]
  /\ durable' = Greatest({durable, e})
  /\ shown' = shown \cup {e}
  /\ UNCHANGED <<client, net, server, faults>>

\* Mutant: the loop connects again from the cursor the server had reached.
DisconnectAhead ==
  /\ stream.on
  /\ Fault
  /\ wire' = {}
  /\ stream' = Closed(stream.at)
  /\ UNCHANGED <<client, net, server, durable, shown>>

\* The stream ends: the loop connects again from the last event it read, or, if the body failed,
\* from where it had connected before.
Disconnect ==
  /\ stream.on
  /\ Fault
  /\ wire' = {}
  /\ \E from \in {stream.from, stream.read} : stream' = Closed(from)
  /\ UNCHANGED <<client, net, server, durable, shown>>

-----------------------------------------------------------------------------
Client ==
  \/ \E w \in Write :
       \/ \E r \in Run : LinkAgentRun(w, r)
       \/ \E r \in Run, status \in {"working", "review"} : ReportStatus(w, r, status)
       \/ Proceed(w) \/ Answered(w) \/ BodyFails(w) \/ CallFails(w)
       \/ FlushAnswered(w) \/ FlushFails(w)
  \/ \E r \in Run : Refresh(r)
  \/ StartFlush \/ FlushSend \/ Tick \/ ClientRestart
Server ==
  \E a \in net :
    Replay(a) \/ IgnoreStale(a) \/ Refuse(a) \/ Apply(a) \/ Commit(a) \/ Abort(a)
Stream == Connect \/ Drain \/ ReadEvent \/ Disconnect

Next == Client \/ Server \/ Stream

Spec == Init /\ [][Next]_vars

-----------------------------------------------------------------------------
(* What the synchronisation promises. *)

\* What the caller was told is so: a write reported done has its record, one reported as failed
\* was not applied and never will be, and one saved for later is in the outbox until the API has
\* taken it, whatever was lost, repeated or late.
ToldIsTrue ==
  \A w \in Write :
    /\ write[w].told = "done" => w \in record
    /\ write[w].told = "failed" => w \notin record
    /\ write[w].told = "queued" => w \in outbox \cup record

\* A write saved behind others, without having been sent, is not applied before them: neither
\* another flush, nor a refused row, nor a later request overtakes the outbox.
QueuedInOrder == \A w \in Write : w \in record => behind[w] \subseteq record

\* The team events of one agent run come in the order of its reports' numbers, one for each
\* number, and the run shows the report of the last: neither a late request, a repeated one, nor
\* two reports numbered from the same copy of the run make it go back or tell a step twice.
EventsFollowReports ==
  \A x \in {w \in record : cursor[w] > 0} :
    LET later == {w \in record : write[w].run = write[x].run /\ cursor[w] > cursor[x]} IN
    /\ \A y \in later : write[x].sequence < write[y].sequence
    /\ later = {} => run[write[x].run] = [status |-> write[x].status,
                                         sequence |-> write[x].sequence]

\* Lost connections and restarts skip no event: below the stored cursor every event was emitted,
\* but for those committed after a later one was already written.
OnlyLateEventsSkipped == \A e \in events : e <= durable => e \in shown \cup late

-----------------------------------------------------------------------------
(* The promise as a specification of its own. *)

made == {w \in Write : write[w].call # "new"}
said == [w \in Write |-> [run |-> write[w].run, status |-> write[w].status,
                          sequence |-> write[w].sequence]]
answers == [w \in Write |-> write[w].told]
stamps == [w \in Write |-> IF w \in record THEN cursor[w] ELSE 0]

Log == INSTANCE ReportLog WITH
  Number  <- 0 .. 2 + Cardinality(Write),
  Stamp   <- Cursor \ {0},
  Move    <- {m \in Status \X Status : Follows(m[1], m[2])},
  report  <- said,
  told    <- answers,
  owed    <- outbox,
  taken   <- record,
  stamp   <- stamps,
  emitted <- shown

\* Whatever is lost, repeated, late or started again, a report is taken once, after those it was
\* saved behind, moves its run only along runTransitions and beyond what the run has reached, and
\* its caller, the outbox and the stream of events say so.
ImplementsLog == Log!Spec

=============================================================================
