----------------------- MODULE MutationReceiptsProofs -----------------------
(***************************************************************************)
(* Proofs about MutationReceipts, for any calls, inputs and number of      *)
(* restarts.  The inductive invariant has a part for every kind of method, *)
(* one for those whose receipt is there before the handler is invoked, one *)
(* for those whose handler must not run twice, and one for those whose     *)
(* errors must hide nothing.                                               *)
(***************************************************************************)
EXTENDS MutationReceipts, TLAPS

-----------------------------------------------------------------------------
(* The inductive invariant. *)

Active(k) == call[k].phase \in {"run", "acted"}

\* Results are told, and kept, of effects that stand, and of calls that have returned; only an
\* early receipt names a call still at work.
Results ==
  /\ \A k \in Call : call[k].phase = "acted" => k \in stands
  /\ \A k \in stands : call[k].phase \in {"acted", "over"}
  /\ receipt.state = "completed" => receipt.answer \in stands
  /\ \A k \in Call : receipt.state = "completed" /\ receipt.answer = k /\ Active(k)
                       => kind = "early"
  /\ \A k \in Call : call[k].told = "result" => call[k].of \in stands
  /\ \A j, k \in Call : call[j].told = "result" /\ call[j].of = k => ~Active(k)

\* A call at work is the one in the map, and the receipt is its own; what was told is what the
\* receipt says.
Single ==
  kind # "start" =>
    /\ \A k \in Call : Active(k) =>
         /\ inFlight = k
         /\ receipt.payload = call[k].payload
         /\ \/ receipt.state = "pending"
            \/ receipt.state = "completed" /\ receipt.answer = k
    /\ \A k \in Call : call[k].told = "result" =>
         receipt.state = "completed" /\ receipt.answer = call[k].of

\* What stands has a receipt, and leaves room for nothing else.
Once ==
  kind \in {"plain", "early"} =>
    /\ \A k \in stands : receipt.state # "none" /\ receipt.payload = call[k].payload
    /\ \A j \in stands, k \in Call : Active(k) => j = k
    /\ \A j, k \in stands : j = k

\* What stands was left by a handler that threw, or has a receipt; and the former only is there
\* before a handler runs.
Kept ==
  kind \in {"plain", "early", "reply"} =>
    /\ \A j \in stands :
         call[j].told = "error" \/ (receipt.state # "none" /\ receipt.payload = call[j].payload)
    /\ \A j \in stands, k \in Call : Active(k) => j = k \/ call[j].told = "error"

IInv == TypeOK /\ Results /\ Single /\ Once /\ Kept

-----------------------------------------------------------------------------
(* The calls after a step. *)

\* A call enters a phase: nothing else of it changes, but for its input.
LEMMA EnteredCall ==
  ASSUME TypeOK, NEW k \in Call, NEW p \in Payload,
         NEW phase \in {"run", "joined"}
  PROVE  /\ Entered(k, p, phase) \in [Call -> CallRow]
         /\ Entered(k, p, phase)[k].phase = phase
         /\ Entered(k, p, phase)[k].payload = p
         /\ Entered(k, p, phase)[k].told = call[k].told
         /\ Entered(k, p, phase)[k].of = call[k].of
         /\ \A j \in Call \ {k} : Entered(k, p, phase)[j] = call[j]
BY DEF TypeOK, Entered, CallRow

\* A call is answered on the spot.
LEMMA AnsweredCall ==
  ASSUME TypeOK, NEW k \in Call, NEW p \in Payload,
         NEW told \in {"result", "error", "unknown"}, NEW of \in Call \cup {None}
  PROVE  /\ Answered(k, p, told, of) \in [Call -> CallRow]
         /\ Answered(k, p, told, of)[k].phase = "over"
         /\ Answered(k, p, told, of)[k].told = told
         /\ Answered(k, p, told, of)[k].of = of
         /\ Answered(k, p, told, of)[k].payload = p
         /\ \A j \in Call \ {k} : Answered(k, p, told, of)[j] = call[j]
BY DEF TypeOK, Answered, CallRow

\* A promise settles: its call and those that joined it are over, and a result is of that call.
LEMMA SettledCalls ==
  ASSUME TypeOK, NEW k \in Call, Active(k),
         NEW own \in {"result", "error", "unknown"},
         NEW joined \in {"result", "error", "unknown"},
         NEW of \in Call \cup {None},
         Settle(k, own, joined, of)
  PROVE  /\ call' \in [Call -> CallRow]
         /\ inFlight' = None
         /\ call'[k].phase = "over" /\ call'[k].told = own
         /\ \A j \in Call :
              /\ call'[j].payload = call[j].payload
              /\ \/ call'[j] = call[j] /\ j # k
                 \/ /\ j = k \/ call[j].phase = "joined"
                    /\ call'[j].phase = "over"
                    /\ call'[j].told = IF j = k THEN own ELSE joined
                    /\ call'[j].told = "result" => call'[j].of = of
<1>. DEFINE Own == [call[k] EXCEPT !.phase = "over", !.told = own,
                                  !.of = IF own = "result" THEN of ELSE None]
            Other(j) == [call[j] EXCEPT !.phase = "over", !.told = joined,
                                        !.of = IF joined = "result" THEN of ELSE None]
<1>1. /\ Own \in CallRow
      /\ Own.phase = "over" /\ Own.told = own /\ Own.payload = call[k].payload
      /\ own = "result" => Own.of = of
  BY DEF TypeOK, CallRow
<1>2. \A j \in Call : /\ Other(j) \in CallRow
                      /\ Other(j).phase = "over" /\ Other(j).told = joined
                      /\ Other(j).payload = call[j].payload
                      /\ joined = "result" => Other(j).of = of
  BY DEF TypeOK, CallRow
<1>3. call' = [j \in Call |-> IF j = k THEN Own
                              ELSE IF call[j].phase = "joined" /\ call[j].on = k THEN Other(j)
                              ELSE call[j]]
  BY DEF Settle
<1>4. call \in [Call -> CallRow]
  BY DEF TypeOK
<1>. HIDE DEF Own, Other
<1>5. call' \in [Call -> CallRow]
  BY <1>1, <1>2, <1>3, <1>4
<1>6. call'[k] = Own
  BY <1>3
<1>7. ASSUME NEW j \in Call, j # k, call[j].phase = "joined", call[j].on = k
      PROVE  call'[j] = Other(j)
  BY <1>3, <1>7
<1>8. ASSUME NEW j \in Call, j # k, ~(call[j].phase = "joined" /\ call[j].on = k)
      PROVE  call'[j] = call[j]
  BY <1>3, <1>8
<1>9. ASSUME NEW j \in Call
      PROVE  /\ call'[j].payload = call[j].payload
             /\ \/ call'[j] = call[j] /\ j # k
                \/ /\ j = k \/ call[j].phase = "joined"
                   /\ call'[j].phase = "over"
                   /\ call'[j].told = IF j = k THEN own ELSE joined
                   /\ call'[j].told = "result" => call'[j].of = of
  <2>1. CASE j = k
    BY <1>1, <1>6, <2>1 DEF Active
  <2>2. CASE j # k /\ call[j].phase = "joined" /\ call[j].on = k
    BY <1>2, <1>7, <2>2 DEF Active
  <2>3. CASE j # k /\ ~(call[j].phase = "joined" /\ call[j].on = k)
    BY <1>8, <2>3
  <2>. QED
    BY <2>1, <2>2, <2>3
<1>10. inFlight' = None
  BY DEF Settle
<1>. QED
  BY <1>1, <1>5, <1>6, <1>9, <1>10

-----------------------------------------------------------------------------
(* Every step keeps the invariant. *)

LEMMA InitInvariant == Init => IInv
<1>. SUFFICES ASSUME Init PROVE IInv
  OBVIOUS
<1>1. TypeOK
  BY BoundAssumption DEF Init, TypeOK, Receipt, CallRow, NoReceipt, NewCall
<1>2. /\ \A k \in Call : call[k].phase = "new" /\ call[k].told = "nothing"
      /\ receipt.state = "none" /\ stands = {}
  BY DEF Init, NoReceipt, NewCall
<1>3. Results /\ Single /\ Once /\ Kept
  BY <1>2 DEF Results, Single, Once, Kept, Active
<1>. QED
  BY <1>1, <1>3 DEF IInv

LEMMA BeginKeeps ==
  ASSUME IInv, NEW k \in Call, NEW p \in Payload, Begin(k, p) \/ Resume(k, p)
  PROVE  IInv'
<1>1. /\ call' = Entered(k, p, "run") /\ inFlight' = k
      /\ call[k].phase = "new"
      /\ UNCHANGED <<kind, stands, restarts>>
  BY DEF Begin, Resume, Invoke, Known
<1>2. /\ call' \in [Call -> CallRow]
      /\ call'[k].phase = "run" /\ call'[k].payload = p /\ call'[k].told = call[k].told
      /\ call'[k].of = call[k].of
      /\ \A j \in Call \ {k} : call'[j] = call[j]
  <2>1. TypeOK
    BY DEF IInv
  <2>2. /\ Entered(k, p, "run") \in [Call -> CallRow]
        /\ Entered(k, p, "run")[k].phase = "run" /\ Entered(k, p, "run")[k].payload = p
        /\ Entered(k, p, "run")[k].told = call[k].told
        /\ Entered(k, p, "run")[k].of = call[k].of
        /\ \A j \in Call \ {k} : Entered(k, p, "run")[j] = call[j]
    BY <2>1, EnteredCall
  <2>. QED
    BY <1>1, <2>2
<1>4. \/ receipt.state = "none" /\ kind # "start" /\ receipt'.state = "pending"
            /\ receipt'.payload = p
      \/ receipt.state = "none" /\ kind = "start" /\ receipt' = receipt
      \/ /\ receipt.state = "pending" /\ receipt.payload = p /\ kind = "release"
         /\ inFlight = None /\ receipt' = receipt
  BY DEF Begin, Resume, Known
<1>5. receipt' \in Receipt
  BY DEF Begin, Resume, IInv, TypeOK, Receipt
<1>6. k \notin stands
  BY <1>1 DEF IInv, Results
<1>7. TypeOK'
  BY <1>1, <1>2, <1>5 DEF IInv, TypeOK
<1>8. Results'
  BY <1>1, <1>2, <1>4, <1>6 DEF IInv, Results, TypeOK, Active
<1>9. kind # "start" => \A j \in Call : ~Active(j)
  BY <1>4, NoneAssumption DEF IInv, Single
<1>10. kind # "start" => \A j \in Call : call[j].told # "result"
  BY <1>4 DEF IInv, Single
<1>11. Single'
  BY <1>1, <1>2, <1>4, <1>9, <1>10 DEF Single, Active
<1>12. Once'
  BY <1>1, <1>2, <1>4, <1>6 DEF IInv, Once, Active
<1>13. Kept'
  <2>. SUFFICES ASSUME kind \in {"plain", "early", "reply"}, NEW j \in stands
               PROVE  call'[j].told = "error"
    BY <1>1 DEF Kept
  <2>1. receipt.state = "none" /\ j \in Call /\ j # k
    BY <1>4, <1>6 DEF IInv, TypeOK
  <2>. QED
    BY <1>2, <2>1 DEF IInv, Kept
<1>. QED
  BY <1>7, <1>8, <1>11, <1>12, <1>13 DEF IInv

LEMMA AnswerKeeps ==
  ASSUME IInv, NEW k \in Call, NEW p \in Payload,
         Mismatch(k, p) \/ Replay(k, p) \/ LeftPending(k, p)
  PROVE  IInv'
<1>1. /\ call[k].phase = "new"
      /\ UNCHANGED <<kind, receipt, inFlight, stands, restarts>>
  BY DEF Mismatch, Replay, LeftPending, Known
<1>2. PICK told \in {"result", "error", "unknown"}, of \in Call \cup {None} :
        /\ call' = Answered(k, p, told, of)
        /\ told = "result" => /\ inFlight = None /\ receipt.state = "completed"
                              /\ of = receipt.answer
  BY DEF Mismatch, Replay, LeftPending, IInv, TypeOK, Receipt
<1>3. /\ call' \in [Call -> CallRow]
      /\ call'[k].phase = "over" /\ call'[k].told = told /\ call'[k].of = of
      /\ \A j \in Call \ {k} : call'[j] = call[j]
  <2>1. TypeOK
    BY DEF IInv
  <2>2. /\ Answered(k, p, told, of) \in [Call -> CallRow]
        /\ Answered(k, p, told, of)[k].phase = "over"
        /\ Answered(k, p, told, of)[k].told = told
        /\ Answered(k, p, told, of)[k].of = of
        /\ \A j \in Call \ {k} : Answered(k, p, told, of)[j] = call[j]
    BY <2>1, AnsweredCall
  <2>. QED
    BY <1>2, <2>2
<1>5. k \notin stands
  BY <1>1 DEF IInv, Results
<1>6. TypeOK'
  BY <1>1, <1>3 DEF IInv, TypeOK
<1>7. told = "result" => \A j \in Call : of = j => ~Active(j)
  BY <1>2, NoneAssumption DEF IInv, Results, Single
<1>8. Results'
  BY <1>1, <1>2, <1>3, <1>5, <1>7 DEF IInv, Results, TypeOK, Active
<1>9. Single'
  BY <1>1, <1>2, <1>3 DEF IInv, Single, Active
<1>10. Once'
  BY <1>1, <1>3, <1>5 DEF IInv, Once, TypeOK, Active
<1>11. Kept'
  BY <1>1, <1>3, <1>5 DEF IInv, Kept, TypeOK, Active
<1>. QED
  BY <1>6, <1>8, <1>9, <1>10, <1>11 DEF IInv

LEMMA JoinKeeps ==
  ASSUME IInv, NEW k \in Call, NEW p \in Payload, Join(k, p)
  PROVE  IInv'
<1>1. /\ call[k].phase = "new" /\ inFlight \in Call
      /\ UNCHANGED <<kind, receipt, inFlight, stands, restarts>>
      /\ call' = [Entered(k, p, "joined") EXCEPT ![k].on = inFlight]
  BY DEF Join, Known, IInv, TypeOK
<1>2. /\ Entered(k, p, "joined") \in [Call -> CallRow]
      /\ Entered(k, p, "joined")[k].phase = "joined"
      /\ Entered(k, p, "joined")[k].told = call[k].told
      /\ Entered(k, p, "joined")[k].of = call[k].of
      /\ \A j \in Call \ {k} : Entered(k, p, "joined")[j] = call[j]
  BY EnteredCall DEF IInv
<1>3. call' \in [Call -> CallRow] /\ \A j \in Call \ {k} : call'[j] = call[j]
  BY <1>1, <1>2 DEF CallRow
<1>4. /\ call'[k].phase = "joined" /\ call'[k].told = call[k].told
      /\ call'[k].of = call[k].of
  BY <1>1, <1>2 DEF IInv, TypeOK, CallRow
<1>5. k \notin stands
  BY <1>1 DEF IInv, Results
<1>6. TypeOK'
  BY <1>1, <1>3 DEF IInv, TypeOK
<1>7. Results'
  BY <1>1, <1>3, <1>4, <1>5 DEF IInv, Results, TypeOK, Active
<1>8. Single'
  BY <1>1, <1>3, <1>4 DEF IInv, Single, Active
<1>9. Once'
  BY <1>1, <1>3, <1>4, <1>5 DEF IInv, Once, TypeOK, Active
<1>10. Kept'
  BY <1>1, <1>3, <1>4, <1>5 DEF IInv, Kept, TypeOK, Active
<1>. QED
  BY <1>6, <1>7, <1>8, <1>9, <1>10 DEF IInv

\* While a call other than a worker-start is at work, nobody has been told a result.
LEMMA NoResultYet ==
  ASSUME IInv, kind # "start", NEW k \in Call, Active(k)
  PROVE  \A j \in Call : call[j].told # "result"
BY DEF IInv, Results, Single

LEMMA ActKeeps ==
  ASSUME IInv, NEW k \in Call, Act(k) \/ Accept(k)
  PROVE  IInv'
<1>1. /\ call[k].phase = "run"
      /\ call' = [call EXCEPT ![k].phase = "acted"]
      /\ stands' = stands \cup {k}
      /\ UNCHANGED <<kind, inFlight, restarts>>
  BY DEF Act, Accept
<1>2. \/ kind # "start" /\ receipt' = receipt
      \/ kind = "start" /\ receipt'.state = "pending" /\ receipt' \in Receipt
  BY DEF Act, Accept, IInv, TypeOK, Receipt, CallRow
<1>3. call \in [Call -> CallRow]
  BY DEF IInv, TypeOK
<1>4. /\ call' \in [Call -> CallRow]
      /\ call'[k].phase = "acted"
      /\ \A j \in Call : /\ call'[j].payload = call[j].payload /\ call'[j].told = call[j].told
                         /\ call'[j].of = call[j].of
      /\ \A j \in Call \ {k} : call'[j] = call[j]
  BY <1>1, <1>3 DEF CallRow
<1>5. \A j \in Call : Active(j)' <=> Active(j)
  BY <1>1, <1>4 DEF Active
<1>6. TypeOK'
  BY <1>1, <1>2, <1>4 DEF IInv, TypeOK
<1>7. Results'
  BY <1>1, <1>2, <1>4, <1>5 DEF IInv, Results, TypeOK
<1>8. Single'
  BY <1>1, <1>2, <1>4, <1>5 DEF IInv, Single
<1>9. ASSUME kind \in {"plain", "early"}
      PROVE  stands \subseteq {k} /\ \A j \in Call : Active(j) => j = k
  <2>1. Active(k)
    BY <1>1 DEF Active
  <2>. QED
    BY <1>9, <2>1 DEF IInv, Once, Single
<1>10. Once'
  <2>. SUFFICES ASSUME kind \in {"plain", "early"}
               PROVE  /\ \A j \in stands' : receipt'.state # "none"
                                            /\ receipt'.payload = call'[j].payload
                      /\ \A j \in stands', m \in Call : Active(m)' => j = m
                      /\ \A j, m \in stands' : j = m
    BY <1>1 DEF Once
  <2>1. stands' = {k} /\ receipt' = receipt
    BY <1>1, <1>2, <1>9
  <2>2. receipt.state # "none" /\ receipt.payload = call[k].payload
    BY <1>1 DEF IInv, Single, Active
  <2>. QED
    BY <1>4, <1>5, <1>9, <2>1, <2>2
<1>11. Kept'
  <2>. SUFFICES ASSUME kind \in {"plain", "early", "reply"}
               PROVE  /\ \A j \in stands' :
                           \/ call'[j].told = "error"
                           \/ receipt'.state # "none" /\ receipt'.payload = call'[j].payload
                      /\ \A j \in stands', m \in Call :
                           Active(m)' => j = m \/ call'[j].told = "error"
    BY <1>1 DEF Kept
  <2>1. Active(k) /\ receipt' = receipt
    BY <1>1, <1>2 DEF Active
  <2>2. /\ receipt.state # "none" /\ receipt.payload = call[k].payload
        /\ \A m \in Call : Active(m) => m = k
    BY <2>1 DEF IInv, Single
  <2>. QED
    BY <1>1, <1>4, <1>5, <2>1, <2>2 DEF IInv, TypeOK, Kept
<1>. QED
  BY <1>6, <1>7, <1>8, <1>10, <1>11 DEF IInv

LEMMA RecordKeeps ==
  ASSUME IInv, NEW k \in Call, Record(k)
  PROVE  IInv'
<1>1. /\ call[k].phase = "acted" /\ kind = "early" /\ Active(k) /\ k \in stands
      /\ UNCHANGED <<kind, inFlight, call, stands, restarts>>
  BY DEF Record, IInv, Results, Active
<1>2. /\ receipt' \in Receipt
      /\ receipt'.state = "completed" /\ receipt'.answer = k
      /\ receipt'.payload = receipt.payload
  BY DEF Record, IInv, TypeOK, Receipt
<1>3. \A j \in Call : call[j].told # "result"
  BY <1>1, NoResultYet
<1>4. \A j \in Call : Active(j)' <=> Active(j)
  BY <1>1 DEF Active
<1>5. TypeOK'
  BY <1>1, <1>2 DEF IInv, TypeOK
<1>6. Results'
  BY <1>1, <1>2, <1>3, <1>4 DEF IInv, Results
<1>7. Single'
  BY <1>1, <1>2, <1>3, <1>4 DEF IInv, Single
<1>8. Once'
  BY <1>1, <1>2, <1>4 DEF IInv, Once
<1>9. Kept'
  <2>1. receipt.state # "none"
    BY DEF Record
  <2>. QED
    BY <1>1, <1>2, <1>4, <2>1 DEF IInv, Kept
<1>. QED
  BY <1>5, <1>6, <1>7, <1>8, <1>9 DEF IInv

\* After the promise of a call has settled, that call is not at work, and no other has begun;
\* where only one can be at work, none is.
LEMMA AfterSettling ==
  ASSUME IInv, NEW k \in Call, Active(k),
         NEW own \in {"result", "error", "unknown"},
         NEW joined \in {"result", "error", "unknown"},
         NEW of \in Call \cup {None},
         Settle(k, own, joined, of), UNCHANGED kind
  PROVE  /\ call' \in [Call -> CallRow] /\ inFlight' = None
         /\ ~Active(k)'
         /\ call'[k].phase = "over"
         /\ \A j \in Call : Active(j)' => Active(j) /\ call'[j] = call[j] /\ j # k
         /\ kind # "start" => \A j \in Call : ~Active(j)'
         /\ \A j \in Call : /\ call'[j].payload = call[j].payload
                            /\ call[j].phase \in {"acted", "over"} =>
                                 call'[j].phase \in {"acted", "over"}
                            /\ call'[j].phase = "acted" => call[j].phase = "acted"
         /\ \A j \in Call : call'[j].told = "result" =>
              \/ call[j].told = "result" /\ call'[j].of = call[j].of
              \/ call'[j].of = of /\ (own = "result" \/ joined = "result")
         /\ call'[k].told = own
         /\ \A j \in stands : j = k \/ call'[j] = call[j]
<1>1. TypeOK
  BY DEF IInv
<1>2. /\ call' \in [Call -> CallRow]
      /\ inFlight' = None
      /\ call'[k].phase = "over" /\ call'[k].told = own
      /\ \A j \in Call :
           /\ call'[j].payload = call[j].payload
           /\ \/ call'[j] = call[j] /\ j # k
              \/ /\ j = k \/ call[j].phase = "joined"
                 /\ call'[j].phase = "over"
                 /\ call'[j].told = IF j = k THEN own ELSE joined
                 /\ call'[j].told = "result" => call'[j].of = of
  BY <1>1, SettledCalls
<1>3. \A j \in Call : Active(j)' => Active(j) /\ call'[j] = call[j] /\ j # k
  BY <1>2 DEF Active
<1>4. kind # "start" => \A j \in Call : ~Active(j)'
  BY <1>3 DEF IInv, Single
<1>5. ~Active(k)'
  BY <1>2 DEF Active
<1>6. \A j \in stands : j = k \/ call'[j] = call[j]
  BY <1>2 DEF IInv, TypeOK, Results
<1>. QED
  BY <1>2, <1>3, <1>4, <1>5, <1>6

LEMMA ReturnKeeps ==
  ASSUME IInv, NEW k \in Call, Return(k)
  PROVE  IInv'
<1>1. /\ call[k].phase = "acted" /\ Active(k) /\ k \in stands
      /\ UNCHANGED <<kind, stands, restarts>>
  BY DEF Return, Active, IInv, Results
<1>2. CASE /\ receipt' = [receipt EXCEPT !.state = "completed", !.answer = k]
           /\ Settle(k, "result", "result", k)
  <2>1. /\ receipt' \in Receipt
        /\ receipt'.state = "completed" /\ receipt'.answer = k
        /\ receipt'.payload = receipt.payload
    BY <1>2 DEF IInv, TypeOK, Receipt
  <2>2. /\ call' \in [Call -> CallRow] /\ inFlight' = None
        /\ ~Active(k)'
        /\ \A j \in Call : Active(j)' => Active(j) /\ call'[j] = call[j] /\ j # k
        /\ kind # "start" => \A j \in Call : ~Active(j)'
        /\ \A j \in Call : /\ call'[j].payload = call[j].payload
                           /\ call[j].phase \in {"acted", "over"} =>
                                call'[j].phase \in {"acted", "over"}
                           /\ call'[j].phase = "acted" => call[j].phase = "acted"
        /\ \A j \in Call : call'[j].told = "result" =>
             (call[j].told = "result" /\ call'[j].of = call[j].of) \/ call'[j].of = k
        /\ \A j \in stands : j = k \/ call'[j] = call[j]
    BY <1>1, <1>2, AfterSettling
  <2>3. kind # "start" => \A j \in Call : call'[j].told = "result" => call'[j].of = k
    BY <1>1, <2>2, NoResultYet
  <2>4. TypeOK'
    BY <1>1, <2>1, <2>2 DEF IInv, TypeOK
  <2>5. Results'
    BY <1>1, <2>1, <2>2 DEF IInv, TypeOK, Results
  <2>6. Single'
    BY <1>1, <2>1, <2>2, <2>3 DEF Single
  <2>7. Once'
    BY <1>1, <2>1, <2>2 DEF IInv, TypeOK, Once
  <2>8. Kept'
    <3>. SUFFICES ASSUME kind \in {"plain", "early", "reply"}, NEW j \in stands
                 PROVE  \/ call'[j].told = "error"
                        \/ receipt'.state # "none" /\ receipt'.payload = call'[j].payload
      BY <1>1, <2>2 DEF Kept
    <3>1. receipt.payload = call[k].payload
      BY <1>1 DEF IInv, Single
    <3>. QED
      BY <2>1, <2>2, <3>1 DEF IInv, TypeOK, Kept
  <2>. QED
    BY <2>4, <2>5, <2>6, <2>7, <2>8 DEF IInv
<1>3. CASE /\ receipt.state = "none" \/ receipt.payload # call[k].payload
           /\ receipt' = DiscardPending
           /\ Settle(k, "error", "result", k)
  <2>1. kind = "start"
    BY <1>1, <1>3 DEF IInv, Single
  <2>2. receipt' \in Receipt /\ (receipt' = receipt \/ receipt'.state = "none")
    BY <1>3 DEF IInv, TypeOK, DiscardPending, NoReceipt, Receipt
  <2>3. /\ call' \in [Call -> CallRow] /\ inFlight' = None
        /\ ~Active(k)'
        /\ \A j \in Call : Active(j)' => Active(j) /\ call'[j] = call[j] /\ j # k
        /\ \A j \in Call : /\ call[j].phase \in {"acted", "over"} =>
                                call'[j].phase \in {"acted", "over"}
                           /\ call'[j].phase = "acted" => call[j].phase = "acted"
        /\ \A j \in Call : call'[j].told = "result" =>
             (call[j].told = "result" /\ call'[j].of = call[j].of) \/ call'[j].of = k
    BY <1>1, <1>3, AfterSettling
  <2>4. TypeOK'
    BY <1>1, <2>2, <2>3 DEF IInv, TypeOK
  <2>5. Results'
    BY <1>1, <2>2, <2>3 DEF IInv, TypeOK, Results
  <2>6. Single' /\ Once' /\ Kept'
    BY <1>1, <2>1 DEF Single, Once, Kept
  <2>. QED
    BY <2>4, <2>5, <2>6 DEF IInv
<1>. QED
  BY <1>2, <1>3 DEF Return

\* A handler that throws takes its effect with it, unless its receipt says it is done or it is of a
\* kind that may leave it; in that case its caller is told.
LEMMA ThrowErrorKeeps ==
  ASSUME IInv, NEW k \in Call, ThrowError(k)
  PROVE  IInv'
<1>1. /\ Active(k)
      /\ UNCHANGED <<kind, restarts>>
      /\ receipt' = DiscardPending
      /\ Settle(k, "error", "error", None)
  BY DEF ThrowError, Active
<1>2. /\ receipt' \in Receipt
      /\ (receipt' = receipt /\ receipt.state # "pending") \/ receipt'.state = "none"
      /\ receipt'.state = "completed" <=> receipt.state = "completed"
      /\ receipt.state = "completed" => receipt' = receipt
  BY <1>1 DEF IInv, TypeOK, DiscardPending, NoReceipt, Receipt
<1>3. /\ call' \in [Call -> CallRow] /\ inFlight' = None
      /\ ~Active(k)'
      /\ call'[k].phase = "over"
      /\ \A j \in Call : Active(j)' => Active(j) /\ call'[j] = call[j] /\ j # k
      /\ kind # "start" => \A j \in Call : ~Active(j)'
      /\ \A j \in Call : /\ call'[j].payload = call[j].payload
                         /\ call[j].phase \in {"acted", "over"} =>
                              call'[j].phase \in {"acted", "over"}
                         /\ call'[j].phase = "acted" => call[j].phase = "acted"
      /\ \A j \in Call : call'[j].told = "result" =>
           call[j].told = "result" /\ call'[j].of = call[j].of
      /\ call'[k].told = "error"
      /\ \A j \in stands : j = k \/ call'[j] = call[j]
  BY <1>1, AfterSettling
<1>4. /\ stands' \subseteq stands /\ stands \ {k} \subseteq stands'
      /\ k \in stands' => \/ receipt.state = "completed" /\ receipt.answer = k
                          \/ kind \in {"reply", "release"}
      /\ receipt.state = "completed" /\ receipt.answer = k => stands' = stands
  BY DEF ThrowError, Recorded
<1>5. TypeOK'
  BY <1>1, <1>2, <1>3, <1>4 DEF IInv, TypeOK
<1>6. Results'
  <2>1. \A j \in Call : call'[j].phase = "acted" => j \in stands'
    BY <1>3, <1>4 DEF IInv, Results
  <2>2. \A j \in stands' : call'[j].phase \in {"acted", "over"}
    BY <1>3, <1>4 DEF IInv, TypeOK, Results
  <2>3. receipt'.state = "completed" => receipt'.answer \in stands'
    BY <1>2, <1>4 DEF IInv, Results
  <2>4. \A j \in Call : receipt'.state = "completed" /\ receipt'.answer = j /\ Active(j)'
                         => kind' = "early"
    BY <1>1, <1>2, <1>3 DEF IInv, Results
  <2>5. \A j \in Call : call'[j].told = "result" => call'[j].of \in stands'
    BY <1>1, <1>3, <1>4 DEF IInv, TypeOK, Results
  <2>6. \A j, m \in Call : call'[j].told = "result" /\ call'[j].of = m => ~Active(m)'
    BY <1>3 DEF IInv, Results
  <2>. QED
    BY <2>1, <2>2, <2>3, <2>4, <2>5, <2>6 DEF Results
<1>7. Single'
  BY <1>1, <1>3, NoResultYet DEF Single
<1>8. Once'
  <2>. SUFFICES ASSUME kind \in {"plain", "early"}
               PROVE  /\ \A j \in stands' : receipt'.state # "none"
                                            /\ receipt'.payload = call'[j].payload
                      /\ \A j \in stands', m \in Call : Active(m)' => j = m
                      /\ \A j, m \in stands' : j = m
    BY <1>1 DEF Once
  <2>1. \A j \in stands : j = k
    BY <1>1 DEF IInv, Once
  <2>2. \A j \in stands' : /\ j = k /\ receipt' = receipt /\ receipt.state = "completed"
                           /\ receipt.payload = call[k].payload
    BY <1>2, <1>4, <2>1 DEF IInv, Once
  <2>. QED
    BY <1>1, <1>3, <2>2
<1>9. Kept'
  <2>. SUFFICES ASSUME kind \in {"plain", "early", "reply"}, NEW j \in stands'
               PROVE  call'[j].told = "error"
    BY <1>1 DEF Kept
  <2>1. j = k \/ call[j].told = "error"
    BY <1>1, <1>4 DEF IInv, Kept
  <2>. QED
    BY <1>3, <1>4, <2>1
<1>. QED
  BY <1>5, <1>6, <1>7, <1>8, <1>9 DEF IInv

LEMMA ThrowUnknownKeeps ==
  ASSUME IInv, NEW k \in Call, ThrowUnknown(k)
  PROVE  IInv'
<1>1. /\ Active(k)
      /\ UNCHANGED <<kind, receipt, stands, restarts>>
      /\ Settle(k, "unknown", "unknown", None)
  BY DEF ThrowUnknown, Active
<1>2. /\ call' \in [Call -> CallRow] /\ inFlight' = None
      /\ \A j \in Call : Active(j)' => Active(j) /\ call'[j] = call[j] /\ j # k
      /\ kind # "start" => \A j \in Call : ~Active(j)'
      /\ \A j \in Call : /\ call'[j].payload = call[j].payload
                         /\ call[j].phase \in {"acted", "over"} =>
                              call'[j].phase \in {"acted", "over"}
                         /\ call'[j].phase = "acted" => call[j].phase = "acted"
      /\ \A j \in Call : call'[j].told = "result" =>
           call[j].told = "result" /\ call'[j].of = call[j].of
      /\ \A j \in stands : j = k \/ call'[j] = call[j]
  BY <1>1, AfterSettling
<1>3. TypeOK'
  BY <1>1, <1>2 DEF IInv, TypeOK
<1>4. Results'
  BY <1>1, <1>2 DEF IInv, TypeOK, Results
<1>5. Single'
  BY <1>1, <1>2, NoResultYet DEF Single
<1>6. Once'
  BY <1>1, <1>2 DEF IInv, TypeOK, Once
<1>7. Kept'
  <2>. SUFFICES ASSUME kind \in {"plain", "early", "reply"}, NEW j \in stands
               PROVE  \/ call'[j].told = "error"
                      \/ receipt.state # "none" /\ receipt.payload = call'[j].payload
    BY <1>1, <1>2 DEF Kept
  <2>1. receipt.state # "none" /\ receipt.payload = call[k].payload
    BY <1>1 DEF IInv, Single
  <2>. QED
    BY <1>2, <2>1 DEF IInv, TypeOK, Kept
<1>. QED
  BY <1>3, <1>4, <1>5, <1>6, <1>7 DEF IInv

LEMMA RestartKeeps ==
  ASSUME IInv, Restart
  PROVE  IInv'
<1>1. /\ inFlight' = None
      /\ UNCHANGED <<kind, receipt, stands>>
      /\ restarts' \in 0 .. MaxRestart
  BY BoundAssumption DEF Restart, IInv, TypeOK
<1>2. call \in [Call -> CallRow]
  BY DEF IInv, TypeOK
<1>3. \A j \in Call :
        /\ call'[j] \in CallRow
        /\ call'[j].payload = call[j].payload
        /\ call'[j].told = call[j].told /\ call'[j].of = call[j].of
        /\ call'[j].phase \notin {"run", "acted"}
        /\ call[j].phase \in {"acted", "over"} => call'[j].phase = "over"
  BY <1>2 DEF Restart, CallRow
<1>4. call' \in [Call -> CallRow]
  BY <1>3 DEF Restart
<1>5. \A j \in Call : ~Active(j)'
  BY <1>3 DEF Active
<1>6. TypeOK'
  BY <1>1, <1>4 DEF IInv, TypeOK
<1>7. Results'
  BY <1>1, <1>3, <1>5 DEF IInv, TypeOK, Results
<1>8. Single'
  BY <1>1, <1>3, <1>5 DEF IInv, Single
<1>9. Once'
  BY <1>1, <1>3, <1>5 DEF IInv, TypeOK, Once
<1>10. Kept'
  BY <1>1, <1>3, <1>5 DEF IInv, TypeOK, Kept
<1>. QED
  BY <1>6, <1>7, <1>8, <1>9, <1>10 DEF IInv

LEMMA NextKeeps == IInv /\ [Next]_vars => IInv'
<1>. SUFFICES ASSUME IInv, [Next]_vars PROVE IInv'
  OBVIOUS
<1>1. CASE Next
  <2>1. ASSUME NEW k \in Call, NEW p \in Payload,
               Begin(k, p) \/ Resume(k, p)
        PROVE  IInv'
    BY <2>1, BeginKeeps
  <2>2. ASSUME NEW k \in Call, NEW p \in Payload,
               Mismatch(k, p) \/ Replay(k, p) \/ LeftPending(k, p)
        PROVE  IInv'
    BY <2>2, AnswerKeeps
  <2>3. ASSUME NEW k \in Call, NEW p \in Payload, Join(k, p) PROVE IInv'
    BY <2>3, JoinKeeps
  <2>4. ASSUME NEW k \in Call, Act(k) \/ Accept(k) PROVE IInv'
    BY <2>4, ActKeeps
  <2>5. ASSUME NEW k \in Call, Record(k) PROVE IInv'
    BY <2>5, RecordKeeps
  <2>6. ASSUME NEW k \in Call, Return(k) PROVE IInv'
    BY <2>6, ReturnKeeps
  <2>7. ASSUME NEW k \in Call, ThrowError(k) PROVE IInv'
    BY <2>7, ThrowErrorKeeps
  <2>8. ASSUME NEW k \in Call, ThrowUnknown(k) PROVE IInv'
    BY <2>8, ThrowUnknownKeeps
  <2>9. CASE Restart
    BY <2>9, RestartKeeps
  <2>. QED
    BY <1>1, <2>1, <2>2, <2>3, <2>4, <2>5, <2>6, <2>7, <2>8, <2>9 DEF Next
<1>2. CASE UNCHANGED vars
  <2>1. UNCHANGED kind /\ UNCHANGED receipt /\ UNCHANGED inFlight /\ UNCHANGED call
        /\ UNCHANGED stands /\ UNCHANGED restarts
    BY <1>2 DEF vars
  <2>2. \A j \in Call : Active(j)' <=> Active(j)
    BY <2>1 DEF Active
  <2>3. TypeOK'
    BY <2>1 DEF IInv, TypeOK
  <2>4. Results'
    BY <2>1, <2>2 DEF IInv, Results
  <2>5. Single' /\ Once' /\ Kept'
    BY <2>1, <2>2 DEF IInv, Single, Once, Kept
  <2>. QED
    BY <2>3, <2>4, <2>5 DEF IInv
<1>. QED
  BY <1>1, <1>2

LEMMA Invariance == Spec => []IInv
<1>. QED
  BY InitInvariant, NextKeeps, PTL DEF Spec

-----------------------------------------------------------------------------
(* The theorems. *)

\* The receipt, the map of requests in flight and the calls keep their types
\* (orchestration-mutation-executor.ts:22, mutation_receipts).
THEOREM TypeCorrect == Spec => []TypeOK
<1>1. IInv => TypeOK
  BY DEF IInv
<1>. QED
  BY <1>1, Invariance, PTL

\* However often a request is sent, at whatever time and across any number of restarts, its effect
\* is had once at most (OnceOnly; OrchestrationMutationExecutor.run).
THEOREM OneEffect == Spec => []OnceOnly
<1>1. IInv => OnceOnly
  BY DEF IInv, Once, OnceOnly
<1>. QED
  BY <1>1, Invariance, PTL

\* Whoever is told a result is told that of one and the same execution, and of one whose effect
\* stands (OneAnswer; joined, replayed, and own results of OrchestrationMutationExecutor.run).
THEOREM AnswersAgree == Spec => []OneAnswer
<1>1. IInv => OneAnswer
  BY DEF IInv, Results, Single, OneAnswer
<1>. QED
  BY <1>1, Invariance, PTL

\* What stands of a request when one step tells an error was left by a call told so.
LEMMA ErrorStep ==
  ASSUME IInv, Next, kind \in {"plain", "early", "reply"},
         NEW k \in Call, call'[k].told = "error", call[k].told # "error",
         NEW j \in stands', call'[j].payload = call'[k].payload
  PROVE  call'[j].told = "error"
<1>0. TypeOK
  BY DEF IInv
<1>1. ASSUME NEW m \in Call, NEW p \in Payload, Mismatch(m, p)
      PROVE  call'[j].told = "error"
  <2>1. /\ call[m].phase = "new" /\ receipt.payload # p
        /\ call' = Answered(m, p, "error", None)
        /\ stands' = stands
    BY <1>1 DEF Mismatch
  <2>2. /\ call'[m].payload = p
        /\ \A i \in Call \ {m} : call'[i] = call[i]
    BY <1>0, <2>1, AnsweredCall
  <2>3. k = m /\ j # m /\ j \in Call
    BY <1>0, <2>1, <2>2 DEF IInv, Results, TypeOK
  <2>4. call[j].told = "error" \/ receipt.payload = call[j].payload
    BY <2>1 DEF IInv, Kept
  <2>. QED
    BY <2>1, <2>2, <2>3, <2>4
<1>2. ASSUME NEW m \in Call, ThrowError(m)
      PROVE  call'[j].told = "error"
  <2>1. /\ Active(m) /\ Settle(m, "error", "error", None) /\ UNCHANGED kind
        /\ stands' \subseteq stands
    BY <1>2 DEF ThrowError, Active
  <2>2. /\ call'[m].told = "error"
        /\ \A i \in stands : i = m \/ call'[i] = call[i]
    BY <2>1, AfterSettling
  <2>3. j = m \/ call[j].told = "error"
    BY <2>1 DEF IInv, Kept
  <2>. QED
    BY <2>1, <2>2, <2>3
<1>3. ASSUME NEW m \in Call, NEW p \in Payload, Begin(m, p) \/ Resume(m, p) PROVE FALSE
  <2>1. call' = Entered(m, p, "run")
    BY <1>3 DEF Begin, Resume, Invoke
  <2>2. /\ Entered(m, p, "run")[m].told = call[m].told
        /\ \A i \in Call \ {m} : Entered(m, p, "run")[i] = call[i]
    BY <1>0, EnteredCall
  <2>. QED
    BY <2>1, <2>2
<1>4. ASSUME NEW m \in Call, NEW p \in Payload, Replay(m, p) \/ LeftPending(m, p) PROVE FALSE
  <2>1. PICK told \in {"result", "unknown"}, of \in Call \cup {None} :
          call' = Answered(m, p, told, of)
    BY <1>0, <1>4 DEF Replay, LeftPending, TypeOK, Receipt
  <2>2. /\ Answered(m, p, told, of)[m].told = told
        /\ \A i \in Call \ {m} : Answered(m, p, told, of)[i] = call[i]
    BY <1>0, AnsweredCall
  <2>. QED
    BY <2>1, <2>2
<1>5. ASSUME NEW m \in Call, NEW p \in Payload, Join(m, p) PROVE FALSE
  <2>1. call' = [Entered(m, p, "joined") EXCEPT ![m].on = inFlight]
    BY <1>5 DEF Join
  <2>2. /\ Entered(m, p, "joined") \in [Call -> CallRow]
        /\ Entered(m, p, "joined")[m].told = call[m].told
        /\ \A i \in Call \ {m} : Entered(m, p, "joined")[i] = call[i]
    BY <1>0, EnteredCall
  <2>3. \A i \in Call : call'[i].told = call[i].told
    BY <2>1, <2>2 DEF CallRow
  <2>. QED
    BY <2>3
<1>6. ASSUME NEW m \in Call, Act(m) \/ Accept(m) \/ Record(m) PROVE FALSE
  <2>1. \A i \in Call : call'[i].told = call[i].told
    BY <1>0, <1>6 DEF Act, Accept, Record, TypeOK, CallRow
  <2>. QED
    BY <2>1
<1>7. ASSUME NEW m \in Call, Return(m) \/ ThrowUnknown(m) PROVE FALSE
  <2>1. Active(m)
    BY <1>7 DEF Return, ThrowUnknown, Active
  <2>2. Settle(m, "result", "result", m) \/ Settle(m, "unknown", "unknown", None)
    BY <1>7, <2>1 DEF Return, ThrowUnknown, IInv, Single
  <2>3. CASE Settle(m, "result", "result", m)
    <3>1. call'[k] = call[k] \/ call'[k].told = "result"
      BY <1>0, <2>1, <2>3, SettledCalls
    <3>. QED
      BY <3>1
  <2>4. CASE Settle(m, "unknown", "unknown", None)
    <3>1. call'[k] = call[k] \/ call'[k].told = "unknown"
      BY <1>0, <2>1, <2>4, SettledCalls
    <3>. QED
      BY <3>1
  <2>. QED
    BY <2>2, <2>3, <2>4
<1>8. CASE Restart
  <2>1. \A i \in Call : call'[i].told = call[i].told
    BY <1>0, <1>8 DEF Restart, TypeOK, CallRow
  <2>. QED
    BY <2>1
<1>. QED
  BY <1>1, <1>2, <1>3, <1>4, <1>5, <1>6, <1>7, <1>8 DEF Next

\* An error never hides the effect of a call that was cut short or is told a result: what stands of
\* the request was left by calls told of an error themselves (ErrorHidesNothing; the errors and
\* operation_unknown of OrchestrationMutationExecutor.run).
THEOREM ErrorsHideNothing == Spec => ErrorHidesNothing
<1>1. ASSUME IInv, [Next]_vars
      PROVE  [\A k \in Call :
                kind \in {"plain", "early", "reply"}
                /\ call'[k].told = "error" /\ call[k].told # "error" =>
                  \A j \in stands' :
                    call'[j].payload = call'[k].payload => call'[j].told = "error"]_vars
  BY <1>1, ErrorStep
<1>. QED
  BY <1>1, Invariance, PTL DEF Spec, ErrorHidesNothing

=============================================================================
