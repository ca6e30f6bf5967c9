----------------------------- MODULE RunMailbox -----------------------------
(***************************************************************************)
(* The mailbox of one Run: messages, Deliveries and consumer generations   *)
(* of OrchestrationDb, the check --wait / --ack handler with its waiters,  *)
(* run-use and run-create, send, and the questions workers ask with ask    *)
(* and the coordinator answers with reply.                                 *)
(*                                                                         *)
(* Handlers run on one thread; they give way only where they wait for a    *)
(* message.  So a check is one step up to its wait and one after it, and   *)
(* everything else is one step.                                            *)
(***************************************************************************)
EXTENDS Naturals, FiniteSets

CONSTANTS
  Pane,           \* panes a coordinator runs in
  Call,           \* check calls that may be open at the same time
  Dispatch,       \* dispatches of the Run
  Answer,         \* bodies of answers
  None,
  Limit,          \* messages of a Delivery (50 in the code)
  MaxMail,        \* bound: messages
  MaxGeneration   \* bound: consumer generations

ASSUME NoneAssumption == None \notin Pane \cup Answer
ASSUME BoundAssumption == MaxMail \in Nat /\ MaxGeneration \in Nat \ {0} /\ Limit \in Nat \ {0}

VARIABLES
  run,            \* the row of the Run: its pane and consumer_generation
  sent,           \* the sequence of the last message
  mail,           \* messages to run:<id>, by sequence
  delivery,       \* the Delivery made last, and the panes whose agent was given it
  call,           \* check calls; a parked one is a waiter in messageWaitersByHandle
  dispatch,       \* active; ended with its questions left open; settled with its questions closed
  question,       \* question_threads, by the sequence of the question
  asker           \* ask calls, by dispatch

mailVars == <<sent, mail>>
askVars == <<dispatch, question, asker>>
vars == <<run, sent, mail, delivery, call, dispatch, question, asker>>

\* A rejected worker_done stands for escalations as well; the types nothing treats in a way of
\* its own (status, dispatch, handoff, ...) are left out.
MessageType == {"worker_done", "question", "heartbeat"}
\* The types of the documented supervision loop.
Actionable == {"worker_done", "question"}
Filter == {MessageType, Actionable}

Message == 1 .. MaxMail
MailRow == [type : MessageType, read : {"no", "acked", "other"}, from : Dispatch \cup {None}]
DeliveryRow == [status : {"absent", "outstanding", "acknowledged", "fenced"},
                generation : 0 .. MaxGeneration, messages : SUBSET Message, held : SUBSET Pane]
CheckCall == [phase : {"idle", "parked", "notified"}, pane : Pane \cup {None},
              generation : 0 .. MaxGeneration, filter : Filter]

TypeOK ==
  /\ run \in [pane : Pane \cup {None}, generation : 1 .. MaxGeneration]
  /\ sent \in 0 .. MaxMail
  /\ mail \in [Message -> MailRow]
  /\ delivery \in DeliveryRow
  /\ call \in [Call -> CheckCall]
  /\ dispatch \in [Dispatch -> {"active", "ended", "settled"}]
  /\ question \in [Message -> [status : {"none", "pending", "answered", "closed"},
                               answer : Answer \cup {None}]]
  /\ asker \in [Dispatch -> [phase : {"idle", "parked", "woken"}, message : 0 .. MaxMail]]

NoMail == [type |-> "heartbeat", read |-> "no", from |-> None]
NoDelivery == [status |-> "absent", generation |-> 0, messages |-> {}, held |-> {}]
NoQuestion == [status |-> "none", answer |-> None]
IdleCall == [phase |-> "idle", pane |-> None, generation |-> 0, filter |-> MessageType]
IdleAsker == [phase |-> "idle", message |-> 0]

Init ==
  /\ run \in [pane : Pane, generation : {1}]
  /\ sent = 0
  /\ mail = [m \in Message |-> NoMail]
  /\ delivery = NoDelivery
  /\ call = [k \in Call |-> IdleCall]
  /\ dispatch = [d \in Dispatch |-> "active"]
  /\ question = [m \in Message |-> NoQuestion]
  /\ asker = [d \in Dispatch |-> IdleAsker]

-----------------------------------------------------------------------------
(* Waiters. *)

\* Mutant: only a waiter without a filter is resolved.
NotifyUnfiltered(type) ==
  call' = [k \in Call |-> IF call[k].phase = "parked" /\ call[k].filter = MessageType
                          THEN [call[k] EXCEPT !.phase = "notified"] ELSE call[k]]

\* notifyMessageArrived on run:<id>: the waiter is resolved unless it filters the type out.
Notify(type) ==
  call' = [k \in Call |-> IF call[k].phase = "parked" /\ type \in call[k].filter
                          THEN [call[k] EXCEPT !.phase = "notified"] ELSE call[k]]

\* Mutant: a rebind leaves the waiters alone.
KeepWaiters == UNCHANGED call

\* cancelMessageWaiters: a cancelled check returns empty-handed or as fenced.
CancelWaiters ==
  call' = [k \in Call |-> IF call[k].phase = "parked" THEN IdleCall ELSE call[k]]

\* notifyMessageArrived on dispatch:<id>: every ask of the dispatch looks at its question again.
Awake(d) == IF asker[d].phase = "parked" THEN [asker[d] EXCEPT !.phase = "woken"] ELSE asker[d]
NotifyAsker(d) == asker' = [asker EXCEPT ![d] = Awake(d)]

-----------------------------------------------------------------------------
(* Binding. *)

\* Mutant: a Delivery is fenced with the status of a question.
FenceWithWrongStatus ==
  delivery' = IF delivery.status = "outstanding" THEN [delivery EXCEPT !.status = "closed"]
              ELSE delivery

FenceOutstandingDelivery ==
  delivery' = IF delivery.status = "outstanding" THEN [delivery EXCEPT !.status = "fenced"]
              ELSE delivery

\* Mutant: the Delivery of the old consumer stays outstanding.
RebindUnfenced(pane) ==
  /\ run.generation < MaxGeneration
  /\ run' = [pane |-> pane, generation |-> run.generation + 1]
  /\ UNCHANGED delivery

\* The consumer changes: a new generation, and what the old one held is fenced.
Rebind(pane) ==
  /\ run.generation < MaxGeneration
  /\ run' = [pane |-> pane, generation |-> run.generation + 1]
  /\ FenceOutstandingDelivery

\* run-use of this Run, by another pane or by another terminal of its pane.
RunUse(p) ==
  /\ Rebind(p)
  /\ CancelWaiters
  /\ UNCHANGED <<mailVars, askVars>>

\* run-use by the terminal the Run is bound to already.
RunUseAgain ==
  /\ run.pane # None
  /\ CancelWaiters
  /\ UNCHANGED <<run, mailVars, delivery, askVars>>

\* The coordinator creates or binds another Run: this one is left unbound.
LeaveRun ==
  /\ run.pane # None
  /\ Rebind(None)
  /\ CancelWaiters
  /\ UNCHANGED <<mailVars, askVars>>

-----------------------------------------------------------------------------
(* Mail to the Run, questions and answers. *)

\* A message is added to the mailbox, as its handler leaves the older messages.
Arrives(box, type, read, d) ==
  /\ sent < MaxMail
  /\ sent' = sent + 1
  /\ mail' = [box EXCEPT ![sent + 1] = [type |-> type, read |-> read, from |-> d]]

\* suppressEarlierHeartbeats: the report of a worker makes its unread heartbeats obsolete.
WithoutHeartbeats(d) ==
  [m \in Message |->
     IF m <= sent /\ mail[m].type = "heartbeat" /\ mail[m].from = d /\ mail[m].read = "no"
     THEN [mail[m] EXCEPT !.read = "other"] ELSE mail[m]]

\* Mutant: questions outlive a dispatch that closes them.
LeftOpen(d) == question

\* closeQuestionsForDispatch.
Closed(d) ==
  [m \in Message |-> IF question[m].status = "pending" /\ mail[m].from = d
                     THEN [question[m] EXCEPT !.status = "closed"] ELSE question[m]]

\* A heartbeat of an inactive dispatch is read at once, and wakes nobody.
SendHeartbeat(d) ==
  /\ \/ /\ dispatch[d] = "active"
        /\ Arrives(mail, "heartbeat", "no", d)
        /\ Notify("heartbeat")
     \/ /\ dispatch[d] # "active"
        /\ Arrives(mail, "heartbeat", "other", d)
        /\ UNCHANGED call
  /\ UNCHANGED <<run, delivery, askVars>>

\* An accepted worker_done settles the dispatch, closes its questions and reads its heartbeats.  A
\* rejected one is mail all the same; one that repeats how the dispatch ended only reads heartbeats.
SendWorkerDone(d) ==
  /\ Notify("worker_done")
  /\ \/ /\ Arrives(mail, "worker_done", "no", d)
        /\ UNCHANGED <<dispatch, question>>
     \/ /\ dispatch[d] = "active"
        /\ Arrives(WithoutHeartbeats(d), "worker_done", "no", d)
        /\ dispatch' = [dispatch EXCEPT ![d] = "settled"]
        /\ question' = Closed(d)
     \/ /\ dispatch[d] # "active"
        /\ Arrives(WithoutHeartbeats(d), "worker_done", "no", d)
        /\ UNCHANGED <<dispatch, question>>
  /\ UNCHANGED <<run, delivery, asker>>

\* failDispatch, of an exit or a rejected prompt, and completeDispatch, of task-update and
\* gate-create, close no question: it stays open, and may still be answered.
End(d) ==
  /\ dispatch[d] = "active"
  /\ dispatch' = [dispatch EXCEPT ![d] = "ended"]
  /\ UNCHANGED <<run, mailVars, delivery, call, question, asker>>

\* A start that failed or is unknown, a recovery, worker-stop and worker-abandon close them, the
\* last two for a dispatch that has ended as well.  worker-abandon, and worker-stop of a manual
\* dispatch, wake the asker at once.
Settle(d) ==
  /\ dispatch[d] # "settled"
  /\ dispatch' = [dispatch EXCEPT ![d] = "settled"]
  /\ question' = Closed(d)
  /\ NotifyAsker(d) \/ UNCHANGED asker
  /\ UNCHANGED <<run, mailVars, delivery, call>>

\* worker-stop when the terminal is closed, and worker-release.
Wake(d) ==
  /\ dispatch[d] # "active"
  /\ NotifyAsker(d)
  /\ UNCHANGED <<run, mailVars, delivery, call, dispatch, question>>

\* ask: createQuestion, wake the coordinator, wait on dispatch:<id>.
Ask(d) ==
  /\ asker[d].phase = "idle"
  /\ dispatch[d] = "active"
  /\ Arrives(mail, "question", "no", d)
  /\ question' = [question EXCEPT ![sent + 1].status = "pending"]
  /\ Notify("question")
  /\ asker' = [asker EXCEPT ![d] = [phase |-> "parked", message |-> sent + 1]]
  /\ UNCHANGED <<run, delivery, dispatch>>

\* ask --resume of a question that is still pending; any other is answered on the spot.
AskResume(d) ==
  /\ asker[d].phase = "idle"
  /\ dispatch[d] = "active"
  /\ \E m \in Message :
       /\ mail[m].from = d /\ question[m].status = "pending"
       /\ asker' = [asker EXCEPT ![d] = [phase |-> "parked", message |-> m]]
  /\ UNCHANGED <<run, mailVars, delivery, call, dispatch, question>>

\* The loop of ask reads its question again: it waits on while the question is pending.
AskAgain(d) ==
  /\ asker[d].phase = "woken"
  /\ asker' = [asker EXCEPT ![d] =
                 IF question[@.message].status = "pending" THEN [@ EXCEPT !.phase = "parked"]
                 ELSE IdleAsker]
  /\ UNCHANGED <<run, mailVars, delivery, call, dispatch, question>>

\* The ask times out, or its client goes away.
AskEnds(d) ==
  /\ asker[d].phase = "parked"
  /\ asker' = [asker EXCEPT ![d] = IdleAsker]
  /\ UNCHANGED <<run, mailVars, delivery, call, dispatch, question>>

\* Mutants: the asker is not woken; an earlier end of the question is not looked at.
AnswerQuestionSilently(m, a) ==
  /\ run.pane # None
  /\ question[m].status = "pending"
  /\ question' = [question EXCEPT ![m] = [status |-> "answered", answer |-> a]]
  /\ UNCHANGED <<run, mailVars, delivery, call, dispatch, asker>>
AnswerQuestionAgain(m, a) ==
  /\ run.pane # None
  /\ question[m].status # "none"
  /\ question' = [question EXCEPT ![m] = [status |-> "answered", answer |-> a]]
  /\ NotifyAsker(mail[m].from)
  /\ UNCHANGED <<run, mailVars, delivery, call, dispatch>>

\* reply to a question, from the terminal the Run is bound to; the same answer may be repeated,
\* another one is refused.
AnswerQuestion(m, a) ==
  /\ run.pane # None
  /\ \/ /\ question[m].status = "pending"
        /\ question' = [question EXCEPT ![m] = [status |-> "answered", answer |-> a]]
     \/ /\ question[m] = [status |-> "answered", answer |-> a]
        /\ UNCHANGED question
  /\ NotifyAsker(mail[m].from)
  /\ UNCHANGED <<run, mailVars, delivery, call, dispatch>>

\* reply to any other message, by any terminal, marks it read.
Reply(m) ==
  /\ m <= sent /\ mail[m].type # "question"
  /\ mail' = [mail EXCEPT ![m].read = IF @ = "no" THEN "other" ELSE @]
  /\ NotifyAsker(mail[m].from)
  /\ UNCHANGED <<run, sent, delivery, call, dispatch, question>>

-----------------------------------------------------------------------------
(* check. *)

Unread(box) == {m \in 1 .. sent : box[m].read = "no"}
\* Mutant: a Delivery holds actionable messages only.
BatchOfActionable(box) == {m \in Unread(box) : box[m].type \in Actionable}
\* The oldest unread messages, whatever their type.
Batch(box) == {m \in Unread(box) : Cardinality({n \in Unread(box) : n < m}) < Limit}
Wanted(box, filter) == \E m \in Unread(box) : box[m].type \in filter

\* acknowledgeRunDelivery: the Delivery is the outstanding one, of this generation, and the agent
\* was given it.  The id of an older one reads nothing: it is a duplicate, or refused as fenced.
Acknowledgeable(p) ==
  delivery.status = "outstanding" /\ delivery.generation = run.generation /\ p \in delivery.held
\* Mutant: an acknowledgment reads whatever has arrived by now.
AckedMailOfRun ==
  [m \in Message |-> IF m <= sent /\ mail[m].read = "no"
                     THEN [mail[m] EXCEPT !.read = "acked"] ELSE mail[m]]
AckedMail ==
  [m \in Message |-> IF m \in delivery.messages /\ mail[m].read = "no"
                     THEN [mail[m] EXCEPT !.read = "acked"] ELSE mail[m]]
AckedDelivery == [delivery EXCEPT !.status = "acknowledged"]

\* getOrCreateRunDelivery returns the outstanding Delivery, or makes one if a wanted message is
\* unread.  The agent of pane p is given it, unless the result is lost on its way.
Given(p, received) == IF received THEN {p} ELSE {}
Deliver(box, row, p, filter, received) ==
  \/ /\ row.status = "outstanding" /\ row.generation = run.generation
     /\ delivery' = [row EXCEPT !.held = @ \cup Given(p, received)]
  \/ /\ row.status # "outstanding" /\ Wanted(box, filter)
     /\ delivery' = [status |-> "outstanding", generation |-> run.generation,
                     messages |-> Batch(box), held |-> Given(p, received)]
NothingFor(box, row, filter) == row.status # "outstanding" /\ ~Wanted(box, filter)

\* check from the bound pane, from its mailbox as the acknowledgment leaves it, up to its result
\* or its wait.  With --wait there is one waiter at most; a second check returns waiter_exists.
CheckFrom(box, row, k, wait, types, received) ==
  LET filter == IF wait THEN types ELSE MessageType IN
  /\ call[k].phase = "idle"
  /\ run.pane # None
  /\ mail' = box
  /\ \/ Deliver(box, row, run.pane, filter, received) /\ UNCHANGED call
     \/ /\ NothingFor(box, row, filter)
        /\ delivery' = row
        /\ call' = IF wait /\ \A j \in Call : call[j].phase # "parked"
                   THEN [call EXCEPT ![k] = [phase |-> "parked", pane |-> run.pane,
                                             generation |-> run.generation, filter |-> filter]]
                   ELSE call
  /\ UNCHANGED <<run, sent, askVars>>

Check(k, wait, types, received) == CheckFrom(mail, delivery, k, wait, types, received)
CheckAck(k, wait, types, received) ==
  /\ Acknowledgeable(run.pane)
  /\ CheckFrom(AckedMail, AckedDelivery, k, wait, types, received)

\* The notified check goes on: it is refused if the consumer changed, else it reads again.
Resume(k, received) ==
  /\ call[k].phase = "notified"
  /\ call' = [call EXCEPT ![k] = IdleCall]
  /\ \/ /\ call[k].generation = run.generation
        /\ Deliver(mail, delivery, call[k].pane, call[k].filter, received)
     \/ /\ \/ call[k].generation # run.generation
           \/ NothingFor(mail, delivery, call[k].filter)
        /\ UNCHANGED delivery
  /\ UNCHANGED <<run, mailVars, askVars>>

\* The wait times out, or the client's connection is lost.
WaitEnds(k) ==
  /\ call[k].phase = "parked"
  /\ call' = [call EXCEPT ![k] = IdleCall]
  /\ UNCHANGED <<run, mailVars, delivery, askVars>>

\* The runtime restarts: the calls are gone, the tables and the agents stay.
Restart ==
  /\ call' = [k \in Call |-> IdleCall]
  /\ asker' = [d \in Dispatch |-> IdleAsker]
  /\ UNCHANGED <<run, mailVars, delivery, dispatch, question>>

-----------------------------------------------------------------------------
Next ==
  \/ \E p \in Pane : RunUse(p)
  \/ RunUseAgain \/ LeaveRun
  \/ \E d \in Dispatch :
       \/ SendHeartbeat(d) \/ SendWorkerDone(d) \/ End(d) \/ Settle(d) \/ Wake(d)
       \/ Ask(d) \/ AskResume(d) \/ AskAgain(d) \/ AskEnds(d)
  \/ \E m \in Message : Reply(m) \/ \E a \in Answer : AnswerQuestion(m, a)
  \/ \E k \in Call :
       \/ WaitEnds(k)
       \/ \E received \in BOOLEAN :
            \/ Resume(k, received)
            \/ \E wait \in BOOLEAN, types \in Filter :
                 Check(k, wait, types, received) \/ CheckAck(k, wait, types, received)
  \/ Restart

Spec == Init /\ [][Next]_vars

\* The coordinator of the documented loop: it acknowledges what it holds and waits again for
\* actionable mail, and the results of its checks are not lost for ever.
Supervise(k) ==
  \/ CheckAck(k, TRUE, Actionable, TRUE)
  \/ ~Acknowledgeable(run.pane) /\ Check(k, TRUE, Actionable, TRUE)

FairSpec ==
  /\ Spec
  /\ WF_vars(\E k \in Call : Supervise(k))
  /\ \A k \in Call : WF_vars(Resume(k, TRUE))

-----------------------------------------------------------------------------
(* What the mailbox promises. *)

\* A check that waits belongs to the consumer the Run is bound to, and it is the only one: a
\* rebind cancels the waiter of the consumer it replaces, and the exclusive wait admits no
\* second one.
OneConsumerWaits ==
  \A j, k \in Call : call[k].phase = "parked" =>
    /\ call[k].pane = run.pane /\ call[k].generation = run.generation
    /\ call[j].phase = "parked" => j = k

\* No wakeup is lost: while a check waits, no unread message is of a type it waits for,
\* whatever filters, suppressed heartbeats, fenced Deliveries and other checks were in between.
NothingMissed ==
  \A k \in Call : call[k].phase = "parked" => ~Wanted(mail, call[k].filter)

\* Mail is read in the order it came, across Deliveries, filters and coordinators: when a message
\* was acknowledged, no older one is still unread.
FirstInFirstOut ==
  \A m, n \in 1 .. sent : n < m /\ mail[m].read = "acked" => mail[n].read # "no"

\* An ask never waits for an answer that is there, whether its dispatch is active, or has ended with
\* the question left open.
AskerHears ==
  \A d \in Dispatch : asker[d].phase = "parked" => question[asker[d].message].status # "answered"

\* A dispatch whose end closes its questions is never found with one that could still be answered,
\* not even when it had ended by an exit before and was stopped later; and a reply is refused
\* because the question is closed only if there was such an end.
SettledIsClosed ==
  \A m \in Message :
    /\ question[m].status = "pending" => dispatch[mail[m].from] # "settled"
    /\ question[m].status = "closed" => dispatch[mail[m].from] = "settled"

\* The answer a worker may already have acted on never changes, and no question ends twice.
AnswerStands ==
  [][\A m \in Message : question[m].status \in {"answered", "closed"} =>
       question'[m] = question[m]]_vars

\* The mailbox is a RunInbox.
Offered == IF delivery.status = "outstanding" THEN delivery.messages ELSE {}
Inbox == INSTANCE RunInbox WITH arrived <- sent,
           done <- {m \in 1 .. sent : mail[m].read # "no"}, offered <- Offered
ImplementsInbox == Inbox!Spec

\* Every worker_done and every question is read in the end, or the Run is left without a
\* coordinator.
ActionableIsRead ==
  \A m \in Message :
    (m <= sent /\ mail[m].type \in Actionable) ~> (mail[m].read # "no" \/ run.pane = None)

=============================================================================
