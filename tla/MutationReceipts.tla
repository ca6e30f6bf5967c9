-------------------------- MODULE MutationReceipts --------------------------
(***************************************************************************)
(* The execution of one mutating orchestration request, by its request id: *)
(* OrchestrationMutationExecutor.run with its table mutation_receipts and  *)
(* its map of requests in flight.  A caller that has lost an answer sends  *)
(* the request again, while the first is still at work, after it ended, or *)
(* after a restart.                                                        *)
(*                                                                         *)
(* Requests of different ids, or of different callers, share nothing but   *)
(* the capacity of the table, so there is one request here.  What its      *)
(* handler does is one effect.  A handler that throws has had none, or has *)
(* taken it back, as dispatch fails the attempt whose prompt is rejected;  *)
(* but a few throw with their effect committed, and find it there when     *)
(* they are called again.                                                  *)
(***************************************************************************)
EXTENDS Naturals

CONSTANTS
  Call,           \* sendings of the request
  Payload,        \* methods with their parameters, as the payload hash tells them apart
  None,
  MaxRestart      \* bound: restarts of the runtime

ASSUME NoneAssumption == None \notin Call \cup Payload
ASSUME BoundAssumption == MaxRestart \in Nat

VARIABLES
  kind,           \* how the method is treated; fixed
  receipt,        \* the row of mutation_receipts
  inFlight,       \* the map: the call whose promise is joined
  call,           \* how far each sending is and what its caller was told
  stands,         \* the calls whose effect was committed and not taken back
  restarts

vars == <<kind, receipt, inFlight, call, stands, restarts>>

\* "start" is worker-start, whose receipt is written in the transaction that accepts the worker;
\* "release" is worker-release, which may be repeated; "early" are ask and check --ack, which
\* record a receipt before they wait; "reply" are those that may throw with their effect committed:
\* the reply to a federated question, and federationImport; "plain" are the others.
Kind == {"plain", "early", "reply", "release", "start"}
\* In a pending receipt, answer is the accepted worker; in a completed one, who made the result.
Receipt == [state : {"none", "pending", "completed"}, payload : Payload \cup {None},
            answer : Call \cup {None}]
CallRow == [phase : {"new", "run", "acted", "joined", "over"}, payload : Payload \cup {None},
            on : Call \cup {None},
            told : {"nothing", "result", "error", "unknown"}, of : Call \cup {None}]

TypeOK ==
  /\ kind \in Kind
  /\ receipt \in Receipt
  /\ inFlight \in Call \cup {None}
  /\ call \in [Call -> CallRow]
  /\ stands \in SUBSET Call
  /\ restarts \in 0 .. MaxRestart

NoReceipt == [state |-> "none", payload |-> None, answer |-> None]
NewCall == [phase |-> "new", payload |-> None, on |-> None, told |-> "nothing", of |-> None]

Init ==
  /\ kind \in Kind
  /\ receipt = NoReceipt
  /\ inFlight = None
  /\ call = [k \in Call |-> NewCall]
  /\ stands = {}
  /\ restarts = 0

-----------------------------------------------------------------------------
(* A call arrives. *)

Entered(k, p, phase) == [call EXCEPT ![k].phase = phase, ![k].payload = p]
Answered(k, p, told, of) ==
  [call EXCEPT ![k] = [@ EXCEPT !.phase = "over", !.payload = p, !.told = told, !.of = of]]

\* The handler is invoked.
Invoke(k, p) ==
  /\ call' = Entered(k, p, "run")
  /\ inFlight' = k

\* There is no receipt: beginMutationReceipt writes one, but for worker-start.
Begin(k, p) ==
  /\ call[k].phase = "new"
  /\ receipt.state = "none"
  /\ receipt' = IF kind = "start" THEN receipt
                ELSE [state |-> "pending", payload |-> p, answer |-> None]
  /\ Invoke(k, p)
  /\ UNCHANGED <<kind, stands, restarts>>

\* request_mismatch: the id was used with other input.
Mismatch(k, p) ==
  /\ call[k].phase = "new"
  /\ receipt.state # "none" /\ receipt.payload # p
  /\ call' = Answered(k, p, "error", None)
  /\ UNCHANGED <<kind, receipt, inFlight, stands, restarts>>

Known(k, p) == call[k].phase = "new" /\ receipt.state # "none" /\ receipt.payload = p

\* The request is at work: wait for its outcome.
Join(k, p) ==
  /\ Known(k, p)
  /\ inFlight # None
  /\ call' = [Entered(k, p, "joined") EXCEPT ![k].on = inFlight]
  /\ UNCHANGED <<kind, receipt, inFlight, stands, restarts>>

Replay(k, p) ==
  /\ Known(k, p)
  /\ inFlight = None /\ receipt.state = "completed"
  /\ call' = Answered(k, p, "result", receipt.answer)
  /\ UNCHANGED <<kind, receipt, inFlight, stands, restarts>>

\* Mutant: a release is resumed whether or not it is at work.
ResumeAnyway(k, p) ==
  /\ Known(k, p)
  /\ receipt.state = "pending"
  /\ kind = "release"
  /\ Invoke(k, p)
  /\ UNCHANGED <<kind, receipt, stands, restarts>>

\* The receipt was left pending by an earlier process: a release is done again ...
Resume(k, p) ==
  /\ Known(k, p)
  /\ inFlight = None /\ receipt.state = "pending"
  /\ kind = "release"
  /\ Invoke(k, p)
  /\ UNCHANGED <<kind, receipt, stands, restarts>>

\* Mutants: the caller is told in a word it does not know; the caller is told of an error.
LeftPendingMistold(k, p) ==
  /\ Known(k, p)
  /\ inFlight = None /\ receipt.state = "pending"
  /\ kind # "release"
  /\ call' = Answered(k, p, "pending", None)
  /\ UNCHANGED <<kind, receipt, inFlight, stands, restarts>>
LeftPendingAsError(k, p) ==
  /\ Known(k, p)
  /\ inFlight = None /\ receipt.state = "pending"
  /\ kind # "release"
  /\ call' = Answered(k, p, "error", None)
  /\ UNCHANGED <<kind, receipt, inFlight, stands, restarts>>

\* ... and of anything else the outcome is unknown.
LeftPending(k, p) ==
  /\ Known(k, p)
  /\ inFlight = None /\ receipt.state = "pending"
  /\ kind # "release"
  /\ call' = Answered(k, p, "unknown", None)
  /\ UNCHANGED <<kind, receipt, inFlight, stands, restarts>>

-----------------------------------------------------------------------------
(* The handler. *)

\* The effect of the handler.
Act(k) ==
  /\ call[k].phase = "run"
  /\ kind # "start"
  /\ call' = [call EXCEPT ![k].phase = "acted"]
  /\ stands' = stands \cup {k}
  /\ UNCHANGED <<kind, receipt, inFlight, restarts>>

\* createStartingWorkerDispatch: the effect and the receipt in one transaction.
Accept(k) ==
  /\ call[k].phase = "run"
  /\ kind = "start"
  /\ receipt.state = "none"
  /\ receipt' = [state |-> "pending", payload |-> call[k].payload, answer |-> k]
  /\ call' = [call EXCEPT ![k].phase = "acted"]
  /\ stands' = stands \cup {k}
  /\ UNCHANGED <<kind, inFlight, restarts>>

\* recordReceipt: a result to fall back on, before the wait.
Record(k) ==
  /\ call[k].phase = "acted"
  /\ kind = "early"
  /\ receipt.state # "none" /\ receipt.payload = call[k].payload
  /\ receipt' = [receipt EXCEPT !.state = "completed", !.answer = k]
  /\ UNCHANGED <<kind, inFlight, call, stands, restarts>>

\* The promise of call k settles, and the entry of the map goes, whosever it is.
Settle(k, own, joined, of) ==
  /\ inFlight' = None
  /\ call' = [j \in Call |->
       IF j = k THEN [call[j] EXCEPT !.phase = "over", !.told = own,
                                     !.of = IF own = "result" THEN of ELSE None]
       ELSE IF call[j].phase = "joined" /\ call[j].on = k
       THEN [call[j] EXCEPT !.phase = "over", !.told = joined,
                            !.of = IF joined = "result" THEN of ELSE None]
       ELSE call[j]]

\* Mutant: the receipt is deleted whatever its state.
DiscardAny == NoReceipt

\* discardPendingMutationReceipt.
DiscardPending == IF receipt.state = "pending" THEN NoReceipt ELSE receipt

\* The handler returns, and completeMutationReceipt keeps its result; if the receipt is gone, or
\* is of other input, the caller is told so, and those that joined have the result all the same.
Return(k) ==
  /\ call[k].phase = "acted"
  /\ \/ /\ receipt.state # "none" /\ receipt.payload = call[k].payload
        /\ receipt' = [receipt EXCEPT !.state = "completed", !.answer = k]
        /\ Settle(k, "result", "result", k)
     \/ /\ receipt.state = "none" \/ receipt.payload # call[k].payload
        /\ receipt' = DiscardPending
        /\ Settle(k, "error", "result", k)
  /\ UNCHANGED <<kind, stands, restarts>>

Recorded(k) == receipt.state = "completed" /\ receipt.answer = k

\* The handler throws.  What ask and check --ack have recorded stands all the same, and so may an
\* answer whose relay is over its quota, the items imported before a bad one, and the request of a
\* release whose archive fails.
ThrowError(k) ==
  /\ call[k].phase \in {"run", "acted"}
  /\ receipt' = DiscardPending
  /\ \/ /\ Recorded(k) \/ kind \in {"reply", "release"}
        /\ UNCHANGED stands
     \/ ~Recorded(k) /\ stands' = stands \ {k}
  /\ Settle(k, "error", "error", None)
  /\ UNCHANGED <<kind, restarts>>

\* It throws operation_unknown: after its effect, or because another call of the same id was
\* accepted as a worker before it.
ThrowUnknown(k) ==
  /\ \/ call[k].phase = "acted"
     \/ call[k].phase = "run" /\ kind = "start" /\ receipt.state # "none"
  /\ Settle(k, "unknown", "unknown", None)
  /\ UNCHANGED <<kind, receipt, stands, restarts>>

\* The runtime restarts: the calls and the map are lost, the tables stay.
Restart ==
  /\ restarts < MaxRestart
  /\ restarts' = restarts + 1
  /\ inFlight' = None
  /\ call' = [k \in Call |-> IF call[k].phase \in {"run", "acted", "joined"}
                             THEN [call[k] EXCEPT !.phase = "over"] ELSE call[k]]
  /\ UNCHANGED <<kind, receipt, stands>>

-----------------------------------------------------------------------------
Next ==
  \/ \E k \in Call, p \in Payload :
       \/ Begin(k, p) \/ Mismatch(k, p) \/ Join(k, p) \/ Replay(k, p) \/ Resume(k, p)
       \/ LeftPending(k, p)
  \/ \E k \in Call :
       Act(k) \/ Accept(k) \/ Record(k) \/ Return(k) \/ ThrowError(k) \/ ThrowUnknown(k)
  \/ Restart

Spec == Init /\ [][Next]_vars

-----------------------------------------------------------------------------
(* What the receipts promise.  Calls of one worker-start may be at work together before one is    *)
(* accepted, and if the other then fails it deletes the receipt of the first; so most of this is  *)
(* about the other kinds.                                                                         *)

\* However often a request is sent, before, while and after it runs and across restarts, its
\* effect is had once at most, and with one input.  (A release may be repeated, and a reply that
\* threw is; both find what they did.)
OnceOnly == kind \in {"plain", "early"} => \A j, k \in stands : j = k

\* Everyone who is told a result is told that of the same execution, joined, replayed from the
\* receipt, or its own; and its effect stands, for worker-start too.
OneAnswer ==
  \A k \in Call : call[k].told = "result" =>
    /\ call[k].of \in stands
    /\ kind # "start" =>
         \A j \in Call : call[j].told = "result" => call[j].of = call[k].of

\* Told of an error, and not that the outcome is unknown, a caller need not fear that the request
\* was done by somebody who was cut short, or is told it was: what stands of it, if anything, was
\* left by handlers that threw, and their callers were told so.
ErrorHidesNothing ==
  [][\A k \in Call :
       kind \in {"plain", "early", "reply"} /\ call'[k].told = "error" /\ call[k].told # "error" =>
         \A j \in stands' : call'[j].payload = call'[k].payload => call'[j].told = "error"]_vars

=============================================================================
