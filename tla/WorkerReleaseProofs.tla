------------------------ MODULE WorkerReleaseProofs -------------------------
(***************************************************************************)
(* Proofs about WorkerRelease, for any dispatches, terminals and bounds.   *)
(* All of its properties follow from one inductive invariant, in three     *)
(* parts: Structure says how rows, workers and processes refer to each     *)
(* other, Calls what the open calls hold, Progress what the state of a     *)
(* release says about the worker, the archive and the process.             *)
(***************************************************************************)
EXTENDS WorkerRelease, TLAPS

-----------------------------------------------------------------------------
(* The inductive invariant. *)

\* The dispatches that have, or had, the terminal of row r.
Claims(r) == resource[r].prior \cup {resource[r].owner}

Attachment ==
  \A r \in Dispatch : Exists(r) =>
    /\ resource[r].owner \in Dispatch
    /\ resource[r].terminal \in Terminal
    /\ resource[r].process <= process[resource[r].terminal].id
    /\ worker[r].state # "absent"
    /\ \A d \in Claims(r) : /\ worker[d].state # "absent"
                            /\ worker[d].terminal = resource[r].terminal
                            /\ worker[d].process = resource[r].process
    /\ \A d \in resource[r].prior : Settled(d)
Blank == \A r \in Dispatch : ~Exists(r) => resource[r] = NoResource
OneRowEach ==
  \A r, s \in Dispatch :
    Exists(r) /\ Exists(s) /\ resource[r].owner = resource[s].owner => r = s
Covered ==
  \A d \in Dispatch : worker[d].state # "absent" =>
    \E s \in Dispatch : Exists(s) /\ d \in Claims(s)
Structure == Attachment /\ Blank /\ OneRowEach /\ Covered

Calls ==
  /\ \A r \in Dispatch : release[r].phase # "idle" =>
       Exists(r) /\ release[r].dispatch \in Claims(r)
  /\ \A r \in Dispatch : release[r].phase = "closing" => closed[r] # None
  /\ \A r, d \in Dispatch : <<r, d>> \in pass.todo => Exists(r) /\ d \in Claims(r)
  /\ \A d \in Dispatch : probe[d] # None => Exists(probe[d])

ProgressOf(r) ==
  /\ resource[r].release \in {"requested", "releasing", "unknown"} =>
       resource[r].ownership = "owned" /\ worker[resource[r].owner].state = "succeeded"
  /\ resource[r].release = "releasing" => resource[r].owner \in archive
  /\ resource[r].ownership = "released" => ~IsRunning(resource[r].terminal, resource[r].process)
  /\ closed[r] # None => Exists(r) /\ ~IsRunning(resource[r].terminal, resource[r].process)
  /\ input[r] = "recorded" => /\ resource[r].ownership \in {"user_owned", "released"}
                              /\ closed[r] = None
Progress == \A r \in Dispatch : ProgressOf(r)

IInv == TypeOK /\ Structure /\ Calls /\ Progress
-----------------------------------------------------------------------------
(* Types. *)

\* Every update of a row yields a row, and leaves its owner, its earlier owners, its terminal
\* and its process as they are.
SameClaims(row, old) ==
  /\ row.owner = old.owner /\ row.prior = old.prior
  /\ row.terminal = old.terminal /\ row.process = old.process

RowKept(row, old) ==
  /\ row \in ResourceRow
  /\ SameClaims(row, old)
  /\ (old.ownership # "absent" => row.ownership # "absent")

LEMMA RowUpdates ==
  ASSUME NEW row \in ResourceRow
  PROVE  /\ RowKept(Requested(row), row)
         /\ RowKept(MarkUnknown(row), row)
         /\ RowKept(Reverted(row), row)
         /\ RowKept(Released(row), row)
         /\ RowKept(Retained(row), row)
         /\ RowKept(TakenOver(row), row)
<1>1. RowKept(Requested(row), row)
  BY DEF ResourceRow, ReleaseState, RowKept, SameClaims, Requested
<1>2. RowKept(MarkUnknown(row), row)
  BY DEF ResourceRow, ReleaseState, RowKept, SameClaims, MarkUnknown
<1>3. RowKept(Reverted(row), row)
  BY DEF ResourceRow, ReleaseState, RowKept, SameClaims, Reverted
<1>4. RowKept(Released(row), row)
  BY DEF ResourceRow, ReleaseState, RowKept, SameClaims, Released
<1>5. RowKept(Retained(row), row)
  BY DEF ResourceRow, ReleaseState, RowKept, SameClaims, Retained
<1>6. RowKept(TakenOver(row), row)
  BY DEF ResourceRow, ReleaseState, RowKept, SameClaims, TakenOver
<1>7. QED BY <1>1, <1>2, <1>3, <1>4, <1>5, <1>6

\* What the commit of the archive leaves of the row.
LEMMA CommittedRow ==
  ASSUME TypeOK, NEW r \in Dispatch
  PROVE  RowKept(Committed(r), resource[r])
<1>1. resource[r] \in ResourceRow
  BY DEF TypeOK
<1>2. QED BY <1>1 DEF Committed, ResourceRow, ReleaseState, RowKept, SameClaims

\* Two updates one after the other.
LEMMA RowKeptTwice ==
  ASSUME NEW row, NEW mid, NEW old, RowKept(row, mid), RowKept(mid, old)
  PROVE  RowKept(row, old)
BY DEF RowKept, SameClaims

\* A release in flight is for a row that exists, and for a dispatch.
LEMMA InFlight ==
  ASSUME TypeOK, Attachment, Calls, NEW r \in Dispatch, release[r].phase # "idle"
  PROVE  Exists(r) /\ release[r].dispatch \in Dispatch
BY DEF Calls, Attachment, Claims, TypeOK, ResourceRow

LEMMA CommittedArchiveType ==
  ASSUME TypeOK, Attachment, Calls, NEW r \in Dispatch, release[r].phase # "idle"
  PROVE  CommittedArchive(r) \in SUBSET Dispatch
<1>1. release[r].dispatch \in Dispatch
  BY InFlight
<1>2. QED BY <1>1 DEF CommittedArchive, TypeOK

-----------------------------------------------------------------------------
(* Rows keep their claims in every step but the start of a worker. *)

KeepsClaims ==
  /\ resource' \in [Dispatch -> ResourceRow]
  /\ \A r \in Dispatch : /\ SameClaims(resource'[r], resource[r])
                         /\ Exists(r)' <=> Exists(r)
                         /\ ~Exists(r) => resource'[r] = resource[r]
KeepsWorkers ==
  \A d \in Dispatch :
    /\ worker'[d].terminal = worker[d].terminal
    /\ worker'[d].process = worker[d].process
    /\ (worker'[d].state = "absent" <=> worker[d].state = "absent")
    /\ (Settled(d) => Settled(d)')
IdsGrow == \A t \in Terminal : process[t].id <= process'[t].id

\* Writing one row that exists, with what it claims.
LEMMA WriteKeeps ==
  ASSUME TypeOK, NEW r \in Dispatch, Exists(r), NEW row, RowKept(row, resource[r]),
         Write(r, row)
  PROVE  KeepsClaims
<1>1. /\ resource' = [resource EXCEPT ![r] = row]
      /\ row \in ResourceRow /\ SameClaims(row, resource[r]) /\ row.ownership # "absent"
  BY DEF Write, RowKept, Exists
<1>2. resource' \in [Dispatch -> ResourceRow]
  BY <1>1 DEF TypeOK
<1>3. ASSUME NEW s \in Dispatch
      PROVE  /\ SameClaims(resource'[s], resource[s])
             /\ Exists(s)' <=> Exists(s)
             /\ ~Exists(s) => resource'[s] = resource[s]
  <2>1. CASE s = r
    BY <1>1, <2>1 DEF TypeOK, Exists
  <2>2. CASE s # r
    BY <1>1, <2>2 DEF TypeOK, Exists, SameClaims
  <2>3. QED BY <2>1, <2>2
<1>4. QED BY <1>2, <1>3 DEF KeepsClaims

LEMMA NoWriteKeeps ==
  ASSUME TypeOK, UNCHANGED resource
  PROVE  KeepsClaims
BY DEF TypeOK, KeepsClaims, SameClaims, Exists

\* Keeping claims keeps Structure and every claim a call holds.
LEMMA StructureKept ==
  ASSUME TypeOK, Structure, KeepsClaims, KeepsWorkers, IdsGrow, TypeOK'
  PROVE  Structure' /\ \A r \in Dispatch : Claims(r)' = Claims(r)
<1>1. ASSUME NEW r \in Dispatch
      PROVE  /\ Claims(r)' = Claims(r)
             /\ Exists(r)' <=> Exists(r)
             /\ resource'[r].owner = resource[r].owner
             /\ resource'[r].prior = resource[r].prior
             /\ resource'[r].terminal = resource[r].terminal
             /\ resource'[r].process = resource[r].process
  BY DEF KeepsClaims, SameClaims, Claims
<1>2. Attachment'
  <2> SUFFICES ASSUME NEW r \in Dispatch, Exists(r)'
               PROVE  /\ resource'[r].owner \in Dispatch
                      /\ resource'[r].terminal \in Terminal
                      /\ resource'[r].process <= process'[resource'[r].terminal].id
                      /\ worker'[r].state # "absent"
                      /\ \A d \in Claims(r)' :
                           /\ worker'[d].state # "absent"
                           /\ worker'[d].terminal = resource'[r].terminal
                           /\ worker'[d].process = resource'[r].process
                      /\ \A d \in resource'[r].prior : Settled(d)'
    BY DEF Attachment
  <2>1. /\ resource[r].owner \in Dispatch
        /\ resource[r].terminal \in Terminal
        /\ resource[r].process <= process[resource[r].terminal].id
        /\ worker[r].state # "absent"
        /\ \A d \in Claims(r) : /\ worker[d].state # "absent"
                                /\ worker[d].terminal = resource[r].terminal
                                /\ worker[d].process = resource[r].process
        /\ \A d \in resource[r].prior : Settled(d)
    BY <1>1 DEF Structure, Attachment
  <2>2. Claims(r) \subseteq Dispatch /\ resource[r].prior \subseteq Dispatch
    BY <2>1 DEF Claims, TypeOK, ResourceRow
  <2>3. resource'[r].process <= process'[resource'[r].terminal].id
    BY <1>1, <2>1 DEF IdsGrow, TypeOK, ResourceRow, ProcessId
  <2>4. \A d \in resource'[r].prior : Settled(d)'
    BY <1>1, <2>1, <2>2 DEF KeepsWorkers
  <2>5. \A d \in Claims(r)' :
          /\ worker'[d].state # "absent"
          /\ worker'[d].terminal = resource'[r].terminal
          /\ worker'[d].process = resource'[r].process
    BY <1>1, <2>1, <2>2 DEF KeepsWorkers
  <2>6. QED BY <1>1, <2>1, <2>3, <2>4, <2>5 DEF KeepsWorkers
<1>3. Blank'
  BY <1>1 DEF Structure, Blank, KeepsClaims, NoResource
<1>4. OneRowEach'
  BY <1>1 DEF Structure, OneRowEach
<1>5. Covered'
  BY <1>1 DEF Structure, Covered, KeepsWorkers
<1>6. QED BY <1>1, <1>2, <1>3, <1>4, <1>5 DEF Structure

-----------------------------------------------------------------------------
(* Every step but the start of a worker keeps the claims. *)

Start == \E d \in Dispatch, t \in Terminal : StartFresh(d, t) \/ StartReusing(d, t)

\* A release that ends, or goes on, writes at most its own row.
LEMMA CompleteKeeps ==
  ASSUME TypeOK, Structure, Calls, NEW r \in Dispatch, Complete(r)
  PROVE  KeepsClaims
<1>. DEFINE row == resource[r]
            mid == Committed(r)
<1>1. row \in ResourceRow /\ mid \in ResourceRow /\ RowKept(mid, row)
  BY CommittedRow DEF TypeOK, RowKept
<1>2. /\ RowKept(MarkUnknown(row), row) /\ RowKept(Reverted(row), row)
      /\ RowKept(Released(row), row) /\ RowKept(row, row)
  BY <1>1, RowUpdates DEF RowKept, SameClaims
<1>3. RowKept(MarkUnknown(mid), row) /\ RowKept(Reverted(mid), row)
  BY <1>1, RowUpdates, RowKeptTwice
<1>4. ASSUME release[r].phase # "idle", NEW new, RowKept(new, row), Write(r, new)
      PROVE  KeepsClaims
  BY <1>4, InFlight, WriteKeeps DEF Structure
<1>5. ASSUME UNCHANGED resource
      PROVE  KeepsClaims
  BY <1>5, NoWriteKeeps
<1>6. CASE InspectMissing(r)
  BY <1>6, <1>2, <1>4 DEF InspectMissing
<1>7. CASE InspectUnproven(r)
  BY <1>7, <1>2, <1>4 DEF InspectUnproven
<1>8. CASE InspectRunning(r) \/ CaptureFails(r)
  BY <1>8, <1>5 DEF InspectRunning, CaptureFails
<1>9. CASE CloseRefused(r)
  BY <1>9, <1>1, <1>3, <1>4 DEF CloseRefused, AtCommit
<1>10. CASE Close(r)
  BY <1>10, <1>1, <1>4 DEF Close, AtCommit
<1>11. CASE CloseFails(r)
  BY <1>11, <1>1, <1>2, <1>3, <1>4, <1>5 DEF CloseFails, AtCommit
<1>12. CASE Closed(r)
  BY <1>12, <1>2, <1>4 DEF Closed
<1>13. QED BY <1>6, <1>7, <1>8, <1>9, <1>10, <1>11, <1>12 DEF Complete

\* worker-release, worker-retain and the user's input.
LEMMA CallKeeps ==
  ASSUME TypeOK, Structure, Calls, NEW d \in Dispatch,
         Request(d) \/ RequestRetained(d) \/ Probed(d) \/ Retain(d)
  PROVE  KeepsClaims
<1>1. CASE Request(d)
  BY <1>1, RowUpdates, WriteKeeps DEF Request, Owned, TypeOK
<1>2. CASE RequestRetained(d)
  BY <1>2, NoWriteKeeps DEF RequestRetained
<1>3. CASE Probed(d)
  <2>. DEFINE r == probe[d]
              new == [resource[r] EXCEPT !.release = "released", !.ownership = "released",
                                         !.kept = FALSE]
  <2>1. r \in Dispatch /\ Exists(r)
    BY <1>3 DEF Probed, Calls, TypeOK
  <2>2. RowKept(new, resource[r])
    <3>1. resource[r] \in ResourceRow
      BY <2>1 DEF TypeOK
    <3>2. QED BY <3>1 DEF RowKept, SameClaims, ResourceRow, ReleaseState
  <2>3. UNCHANGED resource \/ Write(r, new)
    BY <1>3 DEF Probed
  <2>4. QED BY <2>1, <2>2, <2>3, NoWriteKeeps, WriteKeeps
<1>4. CASE Retain(d)
  BY <1>4, RowUpdates, WriteKeeps DEF Retain, Owned, TypeOK
<1>5. QED BY <1>1, <1>2, <1>3, <1>4

LEMMA InputKeeps ==
  ASSUME TypeOK, NEW t \in Terminal, UserInput(t)
  PROVE  KeepsClaims
<1>. DEFINE rows == {r \in Dispatch : resource[r].terminal = t /\ MayTakeOver(resource[r])}
<1>1. resource' = [r \in Dispatch |-> IF r \in rows THEN TakenOver(resource[r]) ELSE resource[r]]
  BY DEF UserInput
<1>2. ASSUME NEW r \in Dispatch
      PROVE  /\ RowKept(resource'[r], resource[r])
             /\ (~Exists(r) => resource'[r] = resource[r])
  <2>1. CASE r \in rows
    BY <1>1, <2>1, RowUpdates DEF TypeOK, Exists, MayTakeOver
  <2>2. CASE r \notin rows
    BY <1>1, <2>2 DEF TypeOK, RowKept, SameClaims
  <2>3. QED BY <2>1, <2>2
<1>3. resource' \in [Dispatch -> ResourceRow]
  BY <1>1, <1>2 DEF RowKept
<1>4. QED BY <1>2, <1>3 DEF KeepsClaims, RowKept, Exists

LEMMA QuietStep ==
  ASSUME TypeOK, Structure, Calls, [Next]_vars, ~Start
  PROVE  KeepsClaims /\ KeepsWorkers /\ IdsGrow
<1>1. ASSUME UNCHANGED process
      PROVE  IdsGrow
  BY <1>1 DEF IdsGrow, TypeOK, ProcessId
<1>2. ASSUME UNCHANGED worker
      PROVE  KeepsWorkers
  BY <1>2 DEF KeepsWorkers, Settled
<1>3. ASSUME NEW d \in Dispatch, Settle(d)
      PROVE  KeepsClaims /\ KeepsWorkers /\ IdsGrow
  <2>1. KeepsWorkers
    BY <1>3 DEF Settle, KeepsWorkers, Settled, TypeOK, WorkerRow
  <2>2. QED BY <1>1, <1>3, <2>1, NoWriteKeeps DEF Settle
<1>4. ASSUME NEW d \in Dispatch, Request(d) \/ RequestRetained(d) \/ Probed(d) \/ Retain(d)
      PROVE  KeepsClaims /\ KeepsWorkers /\ IdsGrow
  BY <1>1, <1>2, <1>4, CallKeeps DEF Request, RequestRetained, Probed, Retain
<1>5. ASSUME NEW r \in Dispatch, Complete(r)
      PROVE  KeepsClaims /\ KeepsWorkers /\ IdsGrow
  <2>1. UNCHANGED worker
    BY <1>5 DEF Complete, InspectMissing, InspectUnproven, InspectRunning, CaptureFails,
                CloseRefused, Close, CloseFails, Closed
  <2>2. ASSUME Close(r)
        PROVE  IdsGrow
    <3>1. process' = [process EXCEPT ![resource[r].terminal].alive = FALSE]
      BY <2>2 DEF Close
    <3>2. QED BY <3>1 DEF IdsGrow, TypeOK, ProcessId
  <2>3. ASSUME ~Close(r)
        PROVE  IdsGrow
    BY <1>1, <1>5, <2>3 DEF Complete, InspectMissing, InspectUnproven, InspectRunning,
                            CaptureFails, CloseRefused, CloseFails, Closed
  <2>4. QED BY <1>2, <1>5, <2>1, <2>2, <2>3, CompleteKeeps
<1>6. ASSUME NEW t \in Terminal, Exit(t) \/ Spawn(t) \/ UserInput(t) \/ Rediscover(t)
      PROVE  KeepsClaims /\ KeepsWorkers /\ IdsGrow
  <2>1. CASE Exit(t)
    BY <1>2, <2>1, NoWriteKeeps DEF Exit, IdsGrow, TypeOK, ProcessId
  <2>2. CASE Spawn(t)
    BY <1>2, <2>2, NoWriteKeeps, BoundAssumption DEF Spawn, IdsGrow, TypeOK, ProcessId
  <2>3. CASE UserInput(t)
    BY <1>1, <1>2, <2>3, InputKeeps DEF UserInput
  <2>4. CASE Rediscover(t)
    BY <1>1, <1>2, <2>4, NoWriteKeeps DEF Rediscover
  <2>5. QED BY <1>6, <2>1, <2>2, <2>3, <2>4
<1>7. CASE Restart \/ StartPass \/ PassStep
  BY <1>1, <1>2, <1>7, NoWriteKeeps DEF Restart, StartPass, PassStep
<1>8. CASE UNCHANGED vars
  BY <1>1, <1>2, <1>8, NoWriteKeeps DEF vars
<1>9. QED BY <1>3, <1>4, <1>5, <1>6, <1>7, <1>8 DEF Next, Start

-----------------------------------------------------------------------------
(* Types. *)

LEMMA EndType ==
  ASSUME TypeOK, NEW r \in Dispatch, End(r)
  PROVE  /\ release' \in [Dispatch -> Call]
         /\ pass' \in [todo : SUBSET (Dispatch \X Dispatch), waiting : Dispatch \cup {None}]
<1>1. release' \in [Dispatch -> Call]
  BY DEF End, TypeOK, Idle, Call
<1>2. pass' \in [todo : SUBSET (Dispatch \X Dispatch), waiting : Dispatch \cup {None}]
  BY DEF End, TypeOK
<1>3. QED BY <1>1, <1>2

LEMMA BeginType ==
  ASSUME TypeOK, NEW r \in Dispatch, NEW d \in Dispatch, NEW recovery \in BOOLEAN,
         Begin(r, d, recovery)
  PROVE  release' \in [Dispatch -> Call]
BY DEF Begin, TypeOK, Call

LEMMA StartType ==
  ASSUME IInv, NEW d \in Dispatch, NEW t \in Terminal, StartFresh(d, t) \/ StartReusing(d, t)
  PROVE  TypeOK'
<1>0. TypeOK
  BY DEF IInv
<1>1. \A id \in ProcessId : Attached(t, id) \in WorkerRow
  BY DEF Attached, WorkerRow
<1>2. \A id \in ProcessId :
        NewRow(d, t, id, "owned") \in ResourceRow /\ NewRow(d, t, id, "external") \in ResourceRow
  BY DEF NewRow, NoResource, ResourceRow, ReleaseState
<1>3. CASE StartFresh(d, t)
  <2>1. 1 \in ProcessId
    BY BoundAssumption DEF ProcessId
  <2>2. worker' \in [Dispatch -> WorkerRow] /\ resource' \in [Dispatch -> ResourceRow]
    BY <1>0, <1>1, <1>2, <1>3, <2>1 DEF StartFresh, TypeOK
  <2>3. process' \in [Terminal -> [id : ProcessId, alive : BOOLEAN]]
    BY <1>0, <1>3, <2>1 DEF StartFresh, TypeOK
  <2>4. QED BY <1>0, <1>3, <2>2, <2>3 DEF StartFresh, TypeOK
<1>4. CASE StartReusing(d, t)
  <2>1. process[t].id \in ProcessId
    BY <1>0 DEF TypeOK
  <2>2. worker' \in [Dispatch -> WorkerRow]
    BY <1>0, <1>1, <1>4, <2>1 DEF StartReusing, TypeOK
  <2>3. \A r \in Transferable(t) : Transferred(resource[r], d) \in ResourceRow
    <3>1. ASSUME NEW r \in Transferable(t)
          PROVE  Transferred(resource[r], d) \in ResourceRow
      <4>1. r \in Dispatch /\ resource[r] \in ResourceRow /\ resource[r].owner \in Dispatch
        BY <1>0, <3>1 DEF Transferable, RowsOf, TypeOK, IInv, Structure, Attachment, Exists
      <4>2. QED BY <4>1 DEF Transferred, ResourceRow, ReleaseState
    <3>2. QED BY <3>1
  <2>4. resource' \in [Dispatch -> ResourceRow]
    <3>1. CASE \E r \in Transferable(t) : resource' = [resource EXCEPT ![r] = Transferred(@, d)]
      BY <1>0, <2>3, <3>1 DEF TypeOK, Transferable, RowsOf
    <3>2. CASE resource' = [resource EXCEPT ![d] = NewRow(d, t, process[t].id, "external")]
      BY <1>0, <1>2, <2>1, <3>2 DEF TypeOK
    <3>3. QED BY <1>4, <3>1, <3>2 DEF StartReusing
  <2>5. QED BY <1>0, <1>4, <2>2, <2>4 DEF StartReusing, TypeOK
<1>5. QED BY <1>3, <1>4

LEMMA CompleteType ==
  ASSUME IInv, NEW r \in Dispatch, Complete(r), resource' \in [Dispatch -> ResourceRow]
  PROVE  TypeOK'
<1>0. TypeOK /\ Attachment /\ Calls
  BY DEF IInv, Structure
<1>1. CASE InspectMissing(r) \/ InspectUnproven(r)
  BY <1>0, <1>1, EndType DEF InspectMissing, InspectUnproven, TypeOK
<1>2. CASE InspectRunning(r)
  <2>1. release' \in [Dispatch -> Call]
    BY <1>0, <1>2 DEF InspectRunning, TypeOK, Call
  <2>2. QED BY <1>0, <1>2, <2>1 DEF InspectRunning, TypeOK
<1>3. CASE CaptureFails(r) \/ Closed(r)
  BY <1>0, <1>3, EndType DEF CaptureFails, Closed, TypeOK
<1>4. CASE CloseRefused(r)
  <2>1. archive' \in SUBSET Dispatch
    BY <1>0, <1>4, CommittedArchiveType DEF CloseRefused, AtCommit
  <2>2. QED BY <1>0, <1>4, <2>1, EndType DEF CloseRefused, TypeOK
<1>5. CASE Close(r)
  <2>1. archive' \in SUBSET Dispatch
    BY <1>0, <1>5, CommittedArchiveType DEF Close, AtCommit
  <2>2. release' \in [Dispatch -> Call]
    BY <1>0, <1>5 DEF Close, TypeOK, Call
  <2>3. process' \in [Terminal -> [id : ProcessId, alive : BOOLEAN]]
    <3>1. process' = [process EXCEPT ![resource[r].terminal].alive = FALSE]
      BY <1>5 DEF Close
    <3>2. QED BY <1>0, <3>1 DEF TypeOK
  <2>4. closed' \in [Dispatch -> Dispatch \cup {None}]
    BY <1>0, <1>5 DEF Close, TypeOK, ResourceRow
  <2>5. QED BY <1>0, <1>5, <2>1, <2>2, <2>3, <2>4 DEF Close, TypeOK
<1>6. CASE CloseFails(r)
  <2>1. archive' \in SUBSET Dispatch
    BY <1>0, <1>6, CommittedArchiveType DEF CloseFails, AtCommit, TypeOK
  <2>2. QED BY <1>0, <1>6, <2>1, EndType DEF CloseFails, TypeOK
<1>7. QED BY <1>1, <1>2, <1>3, <1>4, <1>5, <1>6 DEF Complete

LEMMA TypeStep ==
  ASSUME IInv, [Next]_vars
  PROVE  TypeOK'
<1>0. TypeOK /\ Structure /\ Calls
  BY DEF IInv
<1>1. CASE Start
  BY <1>1, StartType DEF Start
<1>2. CASE ~Start
  <2>0. resource' \in [Dispatch -> ResourceRow]
    BY <1>0, <1>2, QuietStep DEF KeepsClaims
  <2>1. ASSUME NEW d \in Dispatch, Settle(d)
        PROVE  TypeOK'
    <3>1. worker' \in [Dispatch -> WorkerRow]
      <4>1. PICK s \in {"succeeded", "stopped"} : worker' = [worker EXCEPT ![d].state = s]
        BY <2>1 DEF Settle
      <4>2. [worker[d] EXCEPT !.state = s] \in WorkerRow
        BY <1>0 DEF TypeOK, WorkerRow
      <4>3. QED BY <1>0, <4>1, <4>2 DEF TypeOK
    <3>2. QED BY <1>0, <2>0, <2>1, <3>1 DEF Settle, TypeOK
  <2>2. ASSUME NEW d \in Dispatch, Request(d)
        PROVE  TypeOK'
    BY <1>0, <2>0, <2>2, BeginType DEF Request, Owned, TypeOK
  <2>3. ASSUME NEW d \in Dispatch, RequestRetained(d) \/ Probed(d) \/ Retain(d)
        PROVE  TypeOK'
    BY <1>0, <2>0, <2>3 DEF RequestRetained, Probed, Retain, TypeOK
  <2>4. ASSUME NEW r \in Dispatch, Complete(r)
        PROVE  TypeOK'
    BY <2>0, <2>4, CompleteType
  <2>5. ASSUME NEW t \in Terminal, Exit(t) \/ Spawn(t)
        PROVE  TypeOK'
    <3>1. process' \in [Terminal -> [id : ProcessId, alive : BOOLEAN]]
      <4>1. CASE Exit(t)
        BY <1>0, <4>1 DEF Exit, TypeOK
      <4>2. CASE Spawn(t)
        <5>1. process[t].id + 1 \in ProcessId
          BY <1>0, <4>2, BoundAssumption DEF Spawn, TypeOK, ProcessId
        <5>2. QED BY <1>0, <4>2, <5>1 DEF Spawn, TypeOK
      <4>3. QED BY <2>5, <4>1, <4>2
    <3>2. QED BY <1>0, <2>0, <2>5, <3>1 DEF Exit, Spawn, TypeOK
  <2>6. ASSUME NEW t \in Terminal, UserInput(t) \/ Rediscover(t)
        PROVE  TypeOK'
    BY <1>0, <2>0, <2>6 DEF UserInput, Rediscover, TypeOK
  <2>7. CASE Restart
    BY <1>0, <2>0, <2>7, BoundAssumption DEF Restart, TypeOK, Idle, Call, NoPass
  <2>8. CASE StartPass
    <3>1. \A r \in Dispatch : resource[r].release \in {"requested", "releasing"} =>
            resource[r].owner \in Dispatch
      BY <1>0 DEF Structure, Attachment, Blank, Exists, NoResource
    <3>2. pass' \in [todo : SUBSET (Dispatch \X Dispatch), waiting : Dispatch \cup {None}]
      BY <1>0, <2>8, <3>1 DEF StartPass, TypeOK
    <3>3. QED BY <1>0, <2>0, <2>8, <3>2 DEF StartPass, TypeOK
  <2>9. CASE PassStep
    <3>1. PICK r \in Dispatch, d \in Dispatch :
            /\ Begin(r, d, TRUE)
            /\ pass' = [todo |-> pass.todo \ {<<r, d>>}, waiting |-> r]
      BY <2>9 DEF PassStep
    <3>2. release' \in [Dispatch -> Call]
      BY <1>0, <3>1, BeginType
    <3>3. pass' \in [todo : SUBSET (Dispatch \X Dispatch), waiting : Dispatch \cup {None}]
      BY <1>0, <3>1 DEF TypeOK
    <3>4. QED BY <1>0, <2>0, <2>9, <3>2, <3>3 DEF PassStep, TypeOK
  <2>10. CASE UNCHANGED vars
    BY <1>0, <2>10 DEF vars, TypeOK
  <2>11. QED BY <1>2, <2>1, <2>2, <2>3, <2>4, <2>5, <2>6, <2>7, <2>8, <2>9, <2>10
             DEF Next, Start
<1>3. QED BY <1>1, <1>2

-----------------------------------------------------------------------------
(* Structure. *)

ClaimsGrow == \A r \in Dispatch : Exists(r) => Exists(r)' /\ Claims(r) \subseteq Claims(r)'

\* A worker that starts with a row of its own: nothing referred to it before.
LEMMA NewRowStructure ==
  ASSUME IInv, NEW d \in Dispatch, NEW t \in Terminal, NEW id \in ProcessId,
         NEW ownership \in {"owned", "external"},
         worker[d].state = "absent",
         worker' = [worker EXCEPT ![d] = Attached(t, id)],
         resource' = [resource EXCEPT ![d] = NewRow(d, t, id, ownership)],
         process' \in [Terminal -> [id : ProcessId, alive : BOOLEAN]],
         IdsGrow, id <= process'[t].id
  PROVE  Structure' /\ ClaimsGrow
<1>0. TypeOK /\ Attachment /\ Blank /\ OneRowEach /\ Covered
  BY DEF IInv, Structure
<1>1. /\ resource'[d].ownership = ownership /\ resource'[d].owner = d
      /\ resource'[d].prior = {} /\ resource'[d].terminal = t /\ resource'[d].process = id
  BY <1>0 DEF TypeOK, NewRow, NoResource
<1>2. worker'[d] = [state |-> "active", terminal |-> t, process |-> id]
  BY <1>0 DEF TypeOK, Attached
<1>3. \A s \in Dispatch \ {d} : resource'[s] = resource[s] /\ worker'[s] = worker[s]
  BY <1>0 DEF TypeOK
<1>4. ~Exists(d) /\ Exists(d)'
  BY <1>0, <1>1 DEF Attachment, Exists
<1>5. \A s \in Dispatch : Exists(s) => d \notin Claims(s) /\ Claims(s) \subseteq Dispatch
  BY <1>0 DEF Attachment, Claims, TypeOK, ResourceRow
<1>6. \A s \in Dispatch \ {d} : (Exists(s)' <=> Exists(s)) /\ Claims(s)' = Claims(s)
  BY <1>3 DEF Exists, Claims
<1>7. Claims(d)' = {d}
  BY <1>1 DEF Claims
<1>8. Attachment'
  <2> SUFFICES ASSUME NEW r \in Dispatch, Exists(r)'
               PROVE  /\ resource'[r].owner \in Dispatch
                      /\ resource'[r].terminal \in Terminal
                      /\ resource'[r].process <= process'[resource'[r].terminal].id
                      /\ worker'[r].state # "absent"
                      /\ \A e \in Claims(r)' :
                           /\ worker'[e].state # "absent"
                           /\ worker'[e].terminal = resource'[r].terminal
                           /\ worker'[e].process = resource'[r].process
                      /\ \A e \in resource'[r].prior : Settled(e)'
    BY DEF Attachment
  <2>1. CASE r = d
    BY <1>1, <1>2, <1>7, <2>1
  <2>2. CASE r # d
    <3>1. Exists(r) /\ d \notin Claims(r) /\ Claims(r) \subseteq Dispatch
      BY <1>5, <1>6, <2>2
    <3>2. /\ resource[r].owner \in Dispatch
          /\ resource[r].terminal \in Terminal
          /\ resource[r].process <= process[resource[r].terminal].id
          /\ worker[r].state # "absent"
          /\ \A e \in Claims(r) : /\ worker[e].state # "absent"
                                  /\ worker[e].terminal = resource[r].terminal
                                  /\ worker[e].process = resource[r].process
          /\ \A e \in resource[r].prior : Settled(e)
      BY <1>0, <3>1 DEF Attachment
    <3>3. resource[r].process <= process'[resource[r].terminal].id
      BY <1>0, <3>2 DEF IdsGrow, TypeOK, ResourceRow, ProcessId
    <3>4. \A e \in Claims(r) : e \in Dispatch \ {d} /\ worker'[e] = worker[e]
      BY <1>3, <3>1
    <3>5. \A e \in resource[r].prior : Settled(e)'
      BY <3>2, <3>4 DEF Claims, Settled
    <3>6. QED BY <1>3, <1>6, <2>2, <3>2, <3>3, <3>4, <3>5
  <2>3. QED BY <2>1, <2>2
<1>9. Blank'
  BY <1>0, <1>3, <1>4, <1>6 DEF Blank, NoResource
<1>10. OneRowEach'
  <2>1. \A s \in Dispatch : Exists(s) => resource[s].owner # d
    BY <1>5 DEF Claims
  <2>2. QED BY <1>0, <1>1, <1>3, <1>4, <1>6, <2>1 DEF OneRowEach
<1>11. Covered'
  BY <1>0, <1>3, <1>4, <1>6, <1>7 DEF Covered
<1>12. ClaimsGrow
  BY <1>4, <1>6 DEF ClaimsGrow
<1>13. QED BY <1>8, <1>9, <1>10, <1>11, <1>12 DEF Structure

\* A worker that takes a terminal over from a settled one.
LEMMA TransferStructure ==
  ASSUME IInv, NEW d \in Dispatch, NEW t \in Terminal, NEW r \in Transferable(t),
         worker[d].state = "absent",
         worker' = [worker EXCEPT ![d] = Attached(t, process[t].id)],
         resource' = [resource EXCEPT ![r] = Transferred(@, d)],
         UNCHANGED process
  PROVE  Structure' /\ ClaimsGrow
<1>0. TypeOK /\ Attachment /\ Blank /\ OneRowEach /\ Covered
  BY DEF IInv, Structure
<1>1. /\ r \in Dispatch /\ Exists(r) /\ Settled(resource[r].owner)
      /\ resource[r].terminal = t /\ resource[r].process = process[t].id
      /\ resource[r] \in ResourceRow
  BY <1>0 DEF Transferable, RowsOf, Exists, TypeOK
<1>2. /\ resource'[r].owner = d /\ resource'[r].prior = Claims(r)
      /\ resource'[r].terminal = t /\ resource'[r].process = process[t].id
      /\ resource'[r].ownership = resource[r].ownership
  BY <1>0, <1>1 DEF TypeOK, Transferred, ResourceRow, Claims
<1>3. worker'[d] = [state |-> "active", terminal |-> t, process |-> process[t].id]
  BY <1>0 DEF TypeOK, Attached
<1>4. /\ \A s \in Dispatch \ {r} : resource'[s] = resource[s]
      /\ \A e \in Dispatch \ {d} : worker'[e] = worker[e]
  BY <1>0 DEF TypeOK
<1>5. \A s \in Dispatch : Exists(s) => d \notin Claims(s) /\ Claims(s) \subseteq Dispatch
  BY <1>0 DEF Attachment, Claims, TypeOK, ResourceRow
<1>6. \A s \in Dispatch : Exists(s)' <=> Exists(s)
  BY <1>2, <1>4 DEF Exists
<1>7. /\ Claims(r)' = Claims(r) \cup {d}
      /\ \A s \in Dispatch \ {r} : Claims(s)' = Claims(s)
  BY <1>2, <1>4 DEF Claims
<1>8. Attachment'
  <2> SUFFICES ASSUME NEW s \in Dispatch, Exists(s)'
               PROVE  /\ resource'[s].owner \in Dispatch
                      /\ resource'[s].terminal \in Terminal
                      /\ resource'[s].process <= process'[resource'[s].terminal].id
                      /\ worker'[s].state # "absent"
                      /\ \A e \in Claims(s)' :
                           /\ worker'[e].state # "absent"
                           /\ worker'[e].terminal = resource'[s].terminal
                           /\ worker'[e].process = resource'[s].process
                      /\ \A e \in resource'[s].prior : Settled(e)'
    BY DEF Attachment
  <2>1. /\ Exists(s)
        /\ resource[s].owner \in Dispatch
        /\ resource[s].terminal \in Terminal
        /\ resource[s].process <= process[resource[s].terminal].id
        /\ worker[s].state # "absent"
        /\ \A e \in Claims(s) : /\ worker[e].state # "absent"
                                /\ worker[e].terminal = resource[s].terminal
                                /\ worker[e].process = resource[s].process
        /\ \A e \in resource[s].prior : Settled(e)
    BY <1>0, <1>6 DEF Attachment
  <2>2. \A e \in Claims(s) : e \in Dispatch \ {d} /\ worker'[e] = worker[e]
    BY <1>4, <1>5, <2>1
  <2>3. worker'[s].state # "absent"
    BY <1>3, <1>4, <2>1
  <2>4. CASE s = r
    <3>1. \A e \in Claims(r) : Settled(e)'
      BY <1>1, <2>1, <2>2, <2>4 DEF Claims, Settled
    <3>2. \A e \in Claims(r)' : /\ worker'[e].state # "absent"
                                /\ worker'[e].terminal = t
                                /\ worker'[e].process = process[t].id
      BY <1>1, <1>3, <1>7, <2>1, <2>2, <2>4
    <3>3. process[t].id <= process'[t].id
      BY <1>0 DEF TypeOK, ProcessId
    <3>4. QED BY <1>2, <2>3, <2>4, <3>1, <3>2, <3>3
  <2>5. CASE s # r
    <3>1. \A e \in resource[s].prior : Settled(e)'
      BY <2>1, <2>2 DEF Claims, Settled
    <3>2. QED BY <1>4, <1>7, <2>1, <2>2, <2>3, <2>5, <3>1
  <2>6. QED BY <2>4, <2>5
<1>9. Blank'
  BY <1>0, <1>1, <1>4, <1>6 DEF Blank, NoResource
<1>10. OneRowEach'
  <2>1. \A s \in Dispatch : Exists(s) => resource[s].owner # d
    BY <1>5 DEF Claims
  <2>2. QED BY <1>0, <1>2, <1>4, <1>6, <2>1 DEF OneRowEach
<1>11. ClaimsGrow
  BY <1>6, <1>7 DEF ClaimsGrow
<1>12. Covered'
  <2> SUFFICES ASSUME NEW e \in Dispatch, worker'[e].state # "absent"
               PROVE  \E s \in Dispatch : Exists(s)' /\ e \in Claims(s)'
    BY DEF Covered
  <2>1. CASE e = d
    BY <1>1, <1>6, <1>7, <2>1
  <2>2. CASE e # d
    BY <1>0, <1>4, <1>11, <2>2 DEF Covered, ClaimsGrow
  <2>3. QED BY <2>1, <2>2
<1>13. QED BY <1>8, <1>9, <1>10, <1>11, <1>12 DEF Structure

LEMMA StructureStep ==
  ASSUME IInv, [Next]_vars
  PROVE  Structure' /\ ClaimsGrow
<1>0. TypeOK /\ Structure /\ Calls /\ TypeOK'
  BY TypeStep DEF IInv
<1>1. CASE ~Start
  <2>1. KeepsClaims /\ KeepsWorkers /\ IdsGrow
    BY <1>0, <1>1, QuietStep
  <2>2. Structure' /\ \A r \in Dispatch : Claims(r)' = Claims(r)
    BY <1>0, <2>1, StructureKept
  <2>3. QED BY <2>1, <2>2 DEF ClaimsGrow, KeepsClaims
<1>2. ASSUME NEW d \in Dispatch, NEW t \in Terminal, StartFresh(d, t)
      PROVE  Structure' /\ ClaimsGrow
  <2>1. 1 \in ProcessId
    BY BoundAssumption DEF ProcessId
  <2>2. /\ worker' = [worker EXCEPT ![d] = Attached(t, 1)]
        /\ resource' = [resource EXCEPT ![d] = NewRow(d, t, 1, "owned")]
        /\ process' = [process EXCEPT ![t] = [id |-> 1, alive |-> TRUE]]
        /\ worker[d].state = "absent" /\ process[t].id = 0
    BY <1>2 DEF StartFresh
  <2>3. IdsGrow /\ 1 <= process'[t].id
    BY <1>0, <2>2 DEF IdsGrow, TypeOK, ProcessId
  <2>4. process' \in [Terminal -> [id : ProcessId, alive : BOOLEAN]]
    BY <1>0 DEF TypeOK
  <2>5. QED BY <2>1, <2>2, <2>3, <2>4, NewRowStructure
<1>3. ASSUME NEW d \in Dispatch, NEW t \in Terminal, StartReusing(d, t)
      PROVE  Structure' /\ ClaimsGrow
  <2>1. /\ worker' = [worker EXCEPT ![d] = Attached(t, process[t].id)]
        /\ worker[d].state = "absent" /\ process' = process
    BY <1>3 DEF StartReusing
  <2>2. CASE \E r \in Transferable(t) : resource' = [resource EXCEPT ![r] = Transferred(@, d)]
    BY <2>1, <2>2, TransferStructure
  <2>3. CASE resource' = [resource EXCEPT ![d] = NewRow(d, t, process[t].id, "external")]
    <3>1. process[t].id \in ProcessId
      BY <1>0 DEF TypeOK
    <3>2. IdsGrow /\ process[t].id <= process'[t].id
      BY <1>0, <2>1 DEF IdsGrow, TypeOK, ProcessId
    <3>3. process' \in [Terminal -> [id : ProcessId, alive : BOOLEAN]]
      BY <1>0 DEF TypeOK
    <3>4. QED BY <2>1, <2>3, <3>1, <3>2, <3>3, NewRowStructure
  <2>4. QED BY <1>3, <2>2, <2>3 DEF StartReusing
<1>4. QED BY <1>1, <1>2, <1>3 DEF Start

-----------------------------------------------------------------------------
(* Calls. *)

\* What is new in the calls of a step: a release begins for a dispatch that has the row, the
\* reconciler lists owners, a probe is for a row that exists, and a close leaves its trace.
NewCalls ==
  /\ \A r \in Dispatch : release'[r].phase # "idle" =>
       \/ release[r].phase # "idle" /\ release'[r].dispatch = release[r].dispatch
       \/ Exists(r) /\ release'[r].dispatch \in Claims(r)
  /\ \A r \in Dispatch : release'[r].phase = "closing" =>
       release[r].phase = "closing" \/ closed'[r] # None
  /\ \A r \in Dispatch : closed'[r] = closed[r] \/ closed'[r] # None
  /\ \A r, d \in Dispatch : <<r, d>> \in pass'.todo =>
       <<r, d>> \in pass.todo \/ (Exists(r) /\ d \in Claims(r))
  /\ \A d \in Dispatch : probe'[d] # None => probe'[d] = probe[d] \/ Exists(probe'[d])

LEMMA NewCallsSuffice ==
  ASSUME TypeOK, TypeOK', Calls, ClaimsGrow, NewCalls
  PROVE  Calls'
<1>1. \A r \in Dispatch : release'[r].phase # "idle" =>
        Exists(r)' /\ release'[r].dispatch \in Claims(r)'
  BY DEF Calls, ClaimsGrow, NewCalls
<1>2. \A r \in Dispatch : release'[r].phase = "closing" => closed'[r] # None
  BY DEF Calls, NewCalls
<1>3. \A r, d \in Dispatch : <<r, d>> \in pass'.todo => Exists(r)' /\ d \in Claims(r)'
  BY DEF Calls, ClaimsGrow, NewCalls
<1>4. \A d \in Dispatch : probe'[d] # None => Exists(probe[d])'
  BY DEF Calls, ClaimsGrow, NewCalls, TypeOK, Exists
<1>5. QED BY <1>1, <1>2, <1>3, <1>4 DEF Calls

LEMMA EndNewCalls ==
  ASSUME TypeOK, Calls, NEW r \in Dispatch, End(r), UNCHANGED <<closed, probe>>
  PROVE  NewCalls
<1>1. \A s \in Dispatch : release'[s].phase # "idle" => release'[s] = release[s]
  BY DEF End, TypeOK, Idle
<1>2. pass'.todo = pass.todo
  BY DEF End, TypeOK
<1>3. QED BY <1>1, <1>2 DEF NewCalls

LEMMA CompleteNewCalls ==
  ASSUME IInv, NEW r \in Dispatch, Complete(r)
  PROVE  NewCalls
<1>0. TypeOK /\ Attachment /\ Calls
  BY DEF IInv, Structure
<1>1. CASE InspectRunning(r)
  <2>1. \A s \in Dispatch : release'[s].phase # "idle" =>
          release[s].phase # "idle" /\ release'[s].dispatch = release[s].dispatch
    BY <1>0, <1>1 DEF InspectRunning, TypeOK, Call
  <2>2. \A s \in Dispatch : release'[s].phase = "closing" => release[s].phase = "closing"
    BY <1>0, <1>1 DEF InspectRunning, TypeOK, Call
  <2>3. QED BY <1>1, <2>1, <2>2 DEF InspectRunning, NewCalls
<1>2. CASE Close(r)
  <2>1. Exists(r) /\ resource[r].owner \in Dispatch
    BY <1>0, <1>2, InFlight DEF Close, AtCommit, Attachment
  <2>2. \A s \in Dispatch : release'[s].phase # "idle" =>
          release[s].phase # "idle" /\ release'[s].dispatch = release[s].dispatch
    BY <1>0, <1>2 DEF Close, AtCommit, TypeOK, Call
  <2>3. closed'[r] # None /\ \A s \in Dispatch : s # r => closed'[s] = closed[s]
    BY <1>0, <1>2, <2>1, NoneAssumption DEF Close, TypeOK
  <2>4. \A s \in Dispatch : release'[s].phase = "closing" =>
          release[s].phase = "closing" \/ closed'[s] # None
    BY <1>0, <1>2, <2>3 DEF Close, TypeOK, Call
  <2>5. QED BY <1>2, <2>2, <2>3, <2>4 DEF Close, NewCalls
<1>3. CASE ~InspectRunning(r) /\ ~Close(r)
  <2>1. End(r) /\ UNCHANGED <<closed, probe>>
    BY <1>3 DEF Complete, InspectMissing, InspectUnproven, CaptureFails, CloseRefused,
                CloseFails, Closed
  <2>2. QED BY <1>0, <2>1, EndNewCalls
<1>4. QED BY <1>1, <1>2, <1>3

LEMMA BeginNewCalls ==
  ASSUME TypeOK, NEW r \in Dispatch, NEW d \in Dispatch, NEW recovery \in BOOLEAN,
         Begin(r, d, recovery), Exists(r), d \in Claims(r)
  PROVE  /\ \A s \in Dispatch : release'[s].phase # "idle" =>
              \/ release[s].phase # "idle" /\ release'[s].dispatch = release[s].dispatch
              \/ Exists(s) /\ release'[s].dispatch \in Claims(s)
         /\ \A s \in Dispatch : release'[s].phase = "closing" => release[s].phase = "closing"
<1>1. CASE release[r].phase = "idle"
  <2>1. release' = [release EXCEPT ![r] = [phase |-> "inspect", dispatch |-> d,
                                           recovery |-> recovery]]
    BY <1>1 DEF Begin
  <2>2. release'[r].phase = "inspect" /\ release'[r].dispatch = d
    BY <2>1 DEF TypeOK
  <2>3. \A s \in Dispatch : s # r => release'[s] = release[s]
    BY <2>1 DEF TypeOK
  <2>4. QED BY <2>2, <2>3
<1>2. CASE release[r].phase # "idle"
  BY <1>2 DEF Begin
<1>3. QED BY <1>1, <1>2

LEMMA CallsStep ==
  ASSUME IInv, [Next]_vars
  PROVE  Calls'
<1>0. TypeOK /\ Attachment /\ Blank /\ Calls
  BY DEF IInv, Structure
<1>1. ASSUME UNCHANGED <<release, probe, pass, closed>>
      PROVE  NewCalls
  BY <1>1 DEF NewCalls
<1>2. ASSUME NEW d \in Dispatch, NEW t \in Terminal, StartFresh(d, t) \/ StartReusing(d, t)
      PROVE  NewCalls
  BY <1>1, <1>2 DEF StartFresh, StartReusing
<1>3. ASSUME NEW d \in Dispatch, Settle(d) \/ Retain(d)
      PROVE  NewCalls
  BY <1>1, <1>3 DEF Settle, Retain
<1>4. ASSUME NEW t \in Terminal, Exit(t) \/ Spawn(t) \/ UserInput(t) \/ Rediscover(t)
      PROVE  NewCalls
  BY <1>1, <1>4 DEF Exit, Spawn, UserInput, Rediscover
<1>5. ASSUME NEW d \in Dispatch, Request(d)
      PROVE  NewCalls
  <2>1. PICK r \in Owned(d) : Begin(r, d, FALSE)
    BY <1>5 DEF Request
  <2>2. r \in Dispatch /\ Exists(r) /\ d \in Claims(r)
    BY <2>1 DEF Owned, Claims
  <2>3. UNCHANGED <<probe, pass, closed>>
    BY <1>5 DEF Request
  <2>4. QED BY <1>0, <2>1, <2>2, <2>3, BeginNewCalls DEF NewCalls
<1>6. ASSUME NEW d \in Dispatch, RequestRetained(d)
      PROVE  NewCalls
  <2>1. PICK r \in Dispatch : /\ r \in Owned(d) \/ r \in FormerlyOwned(d)
                              /\ probe' = [probe EXCEPT ![d] = r]
    BY <1>6 DEF RequestRetained
  <2>2. Exists(r)
    BY <1>0, <2>1 DEF Owned, FormerlyOwned, Blank, NoResource
  <2>3. \A e \in Dispatch : probe'[e] = probe[e] \/ probe'[e] = r
    BY <1>0, <2>1 DEF TypeOK
  <2>4. QED BY <1>6, <2>2, <2>3 DEF RequestRetained, NewCalls
<1>7. ASSUME NEW d \in Dispatch, Probed(d)
      PROVE  NewCalls
  <2>1. \A e \in Dispatch : probe'[e] # None => probe'[e] = probe[e]
    BY <1>0, <1>7 DEF Probed, TypeOK
  <2>2. QED BY <1>7, <2>1 DEF Probed, NewCalls
<1>8. ASSUME Restart
      PROVE  NewCalls
  BY <1>8 DEF Restart, NewCalls, Idle, NoPass
<1>9. ASSUME StartPass
      PROVE  NewCalls
  <2>1. \A r, d \in Dispatch : <<r, d>> \in pass'.todo => Exists(r) /\ d \in Claims(r)
    <3>1. pass'.todo = {<<r, resource[r].owner>> : r \in
             {s \in Dispatch : resource[s].release \in {"requested", "releasing"}}}
      BY <1>0, <1>9 DEF StartPass, TypeOK
    <3>2. \A r \in Dispatch : resource[r].release \in {"requested", "releasing"} => Exists(r)
      BY <1>0 DEF Blank, NoResource
    <3>3. QED BY <3>1, <3>2 DEF Claims
  <2>2. QED BY <1>9, <2>1 DEF StartPass, NewCalls
<1>10. ASSUME PassStep
       PROVE  NewCalls
  <2>1. PICK r \in Dispatch, d \in Dispatch :
          /\ <<r, d>> \in pass.todo
          /\ Begin(r, d, TRUE)
          /\ pass' = [todo |-> pass.todo \ {<<r, d>>}, waiting |-> r]
    BY <1>10 DEF PassStep
  <2>2. Exists(r) /\ d \in Claims(r)
    BY <1>0, <2>1 DEF Calls
  <2>3. pass'.todo \subseteq pass.todo
    BY <2>1
  <2>4. UNCHANGED <<probe, closed>>
    BY <1>10 DEF PassStep
  <2>5. QED BY <1>0, <2>1, <2>2, <2>3, <2>4, BeginNewCalls DEF NewCalls
<1>11. ASSUME UNCHANGED vars
       PROVE  NewCalls
  BY <1>1, <1>11 DEF vars
<1>12. NewCalls
  BY <1>2, <1>3, <1>4, <1>5, <1>6, <1>7, <1>8, <1>9, <1>10, <1>11, CompleteNewCalls DEF Next
<1>13. QED BY <1>0, <1>12, TypeStep, StructureStep, NewCallsSuffice

-----------------------------------------------------------------------------
(* Progress. *)

\* A process that is gone stays gone: the ids behind a handle only grow.
LEMMA GoneStaysGone ==
  ASSUME TypeOK, [Next]_vars, NEW t \in Terminal, NEW id \in Nat, id <= process[t].id,
         ~IsRunning(t, id)
  PROVE  ~(process'[t].alive /\ process'[t].id = id)
<1>0. ~(process[t].alive /\ process[t].id = id)
  BY DEF IsRunning
<1>1. ASSUME UNCHANGED process
      PROVE  ~(process'[t].alive /\ process'[t].id = id)
  BY <1>0, <1>1
<1>2. ASSUME NEW d \in Dispatch, NEW u \in Terminal, StartFresh(d, u)
      PROVE  ~(process'[t].alive /\ process'[t].id = id)
  BY <1>0, <1>2 DEF StartFresh, TypeOK
<1>3. ASSUME NEW u \in Terminal, Exit(u)
      PROVE  ~(process'[t].alive /\ process'[t].id = id)
  BY <1>0, <1>3 DEF Exit, TypeOK
<1>4. ASSUME NEW u \in Terminal, Spawn(u)
      PROVE  ~(process'[t].alive /\ process'[t].id = id)
  BY <1>0, <1>4 DEF Spawn, TypeOK, ProcessId
<1>5. ASSUME NEW r \in Dispatch, Close(r)
      PROVE  ~(process'[t].alive /\ process'[t].id = id)
  <2>1. process' = [process EXCEPT ![resource[r].terminal].alive = FALSE]
    BY <1>5 DEF Close
  <2>2. QED BY <1>0, <2>1 DEF TypeOK
<1>6. ASSUME NEW r \in Dispatch, Complete(r), ~Close(r)
      PROVE  UNCHANGED process
  BY <1>6 DEF Complete, InspectMissing, InspectUnproven, InspectRunning, CaptureFails,
              CloseRefused, CloseFails, Closed
<1>7. ASSUME NEW d \in Dispatch, NEW u \in Terminal, StartReusing(d, u)
      PROVE  UNCHANGED process
  BY <1>7 DEF StartReusing
<1>8. ASSUME NEW d \in Dispatch,
             Settle(d) \/ Request(d) \/ RequestRetained(d) \/ Probed(d) \/ Retain(d)
      PROVE  UNCHANGED process
  BY <1>8 DEF Settle, Request, RequestRetained, Probed, Retain
<1>9. ASSUME NEW u \in Terminal, UserInput(u) \/ Rediscover(u)
      PROVE  UNCHANGED process
  BY <1>9 DEF UserInput, Rediscover
<1>10. ASSUME Restart \/ StartPass \/ PassStep \/ UNCHANGED vars
       PROVE  UNCHANGED process
  BY <1>10 DEF Restart, StartPass, PassStep, vars
<1>11. QED BY <1>1, <1>2, <1>3, <1>4, <1>5, <1>6, <1>7, <1>8, <1>9, <1>10 DEF Next

\* The process a row names, if it is gone, stays gone.
LEMMA RowGone ==
  ASSUME IInv, [Next]_vars, NEW r \in Dispatch, Exists(r),
         ~IsRunning(resource[r].terminal, resource[r].process),
         resource'[r].terminal = resource[r].terminal, resource'[r].process = resource[r].process
  PROVE  ~IsRunning(resource[r].terminal, resource[r].process)'
<1>1. /\ TypeOK /\ resource[r].terminal \in Terminal /\ resource[r].process \in Nat
      /\ resource[r].process <= process[resource[r].terminal].id
  BY DEF IInv, Structure, Attachment, TypeOK, ResourceRow, ProcessId
<1>2. ~(process'[resource[r].terminal].alive
          /\ process'[resource[r].terminal].id = resource[r].process)
  BY <1>1, GoneStaysGone
<1>3. QED BY <1>2 DEF IsRunning

\* A row a step leaves alone, with its archive, its owner and its history.
Untouched(r) ==
  /\ resource'[r] = resource[r] /\ closed'[r] = closed[r]
  /\ (input'[r] = "recorded" => input[r] = "recorded")
  /\ (Exists(r) /\ worker[resource[r].owner].state = "succeeded" =>
        worker'[resource[r].owner].state = "succeeded")
  /\ (resource[r].release = "releasing" /\ resource[r].owner \in archive =>
        resource[r].owner \in archive')

LEMMA UntouchedProgress ==
  ASSUME IInv, [Next]_vars, NEW r \in Dispatch, Untouched(r)
  PROVE  ProgressOf(r)'
<1>0. ProgressOf(r)
  BY DEF IInv, Progress
<1>1. ASSUME Exists(r), ~IsRunning(resource[r].terminal, resource[r].process)
      PROVE  ~IsRunning(resource[r].terminal, resource[r].process)'
  BY <1>1, RowGone DEF Untouched
<1>2. /\ (resource'[r].release \in {"requested", "releasing", "unknown"} =>
            resource'[r].ownership = "owned" /\ worker'[resource'[r].owner].state = "succeeded")
      /\ (resource'[r].release = "releasing" => resource'[r].owner \in archive')
  BY <1>0 DEF ProgressOf, Untouched, Exists
<1>3. resource'[r].ownership = "released" =>
        ~IsRunning(resource[r].terminal, resource[r].process)'
  BY <1>0, <1>1 DEF ProgressOf, Untouched, Exists
<1>4. closed'[r] # None => Exists(r)' /\ ~IsRunning(resource[r].terminal, resource[r].process)'
  BY <1>0, <1>1 DEF ProgressOf, Untouched, Exists
<1>5. input'[r] = "recorded" =>
        resource'[r].ownership \in {"user_owned", "released"} /\ closed'[r] = None
  BY <1>0 DEF ProgressOf, Untouched
<1>6. QED BY <1>2, <1>3, <1>4, <1>5 DEF ProgressOf

\* A row that keeps its claims, whose owner is as before, and that may have progressed.
LEMMA RowProgress ==
  ASSUME IInv, [Next]_vars, NEW r \in Dispatch, Exists(r),
         RowKept(resource'[r], resource[r]),
         worker'[resource[r].owner] = worker[resource[r].owner],
         closed'[r] = closed[r], input'[r] = input[r],
         resource'[r].release \in {"requested", "releasing", "unknown"} =>
           resource'[r].ownership = "owned" /\ worker[resource[r].owner].state = "succeeded",
         resource'[r].release = "releasing" => resource[r].owner \in archive',
         resource'[r].ownership \in {resource[r].ownership, "released"},
         resource'[r].ownership = "released" =>
           ~IsRunning(resource[r].terminal, resource[r].process)
  PROVE  ProgressOf(r)'
<1>0. ProgressOf(r)
  BY DEF IInv, Progress
<1>1. SameClaims(resource'[r], resource[r]) /\ Exists(r)'
  BY DEF RowKept, Exists
<1>2. ASSUME ~IsRunning(resource[r].terminal, resource[r].process)
      PROVE  ~IsRunning(resource[r].terminal, resource[r].process)'
  BY <1>1, <1>2, RowGone DEF SameClaims
<1>3. /\ (resource'[r].release \in {"requested", "releasing", "unknown"} =>
            resource'[r].ownership = "owned" /\ worker'[resource'[r].owner].state = "succeeded")
      /\ (resource'[r].release = "releasing" => resource'[r].owner \in archive')
  BY <1>1 DEF SameClaims
<1>4. resource'[r].ownership = "released" =>
        ~IsRunning(resource[r].terminal, resource[r].process)'
  BY <1>2
<1>5. closed'[r] # None => Exists(r)' /\ ~IsRunning(resource[r].terminal, resource[r].process)'
  BY <1>0, <1>1, <1>2 DEF ProgressOf
<1>6. input'[r] = "recorded" =>
        resource'[r].ownership \in {"user_owned", "released"} /\ closed'[r] = None
  BY <1>0 DEF ProgressOf
<1>7. QED BY <1>3, <1>4, <1>5, <1>6 DEF ProgressOf

LEMMA StartProgress ==
  ASSUME IInv, [Next]_vars, NEW d \in Dispatch, NEW t \in Terminal,
         StartFresh(d, t) \/ StartReusing(d, t)
  PROVE  Progress'
<1>0. TypeOK /\ Attachment /\ Blank /\ Progress
  BY DEF IInv, Structure
<1>1. worker[d].state = "absent" /\ UNCHANGED <<archive, closed, input>>
  BY DEF StartFresh, StartReusing
<1>2. \A e \in Dispatch \ {d} : worker'[e] = worker[e]
  BY <1>0 DEF StartFresh, StartReusing, TypeOK
<1>3. \A r \in Dispatch : Exists(r) => resource[r].owner \in Dispatch \ {d}
  BY <1>0, <1>1 DEF Attachment, Claims
<1>4. ~Exists(d) /\ closed[d] = None /\ input[d] # "recorded"
  BY <1>0, <1>1 DEF Attachment, Progress, ProgressOf, Exists
<1>5. \A r \in Dispatch : resource'[r] = resource[r] => ProgressOf(r)'
  BY <1>1, <1>2, <1>3, UntouchedProgress DEF Untouched
<1>6. ASSUME NEW id, NEW ownership \in {"owned", "external"},
             resource' = [resource EXCEPT ![d] = NewRow(d, t, id, ownership)]
      PROVE  Progress'
  <2>1. resource'[d].ownership = ownership /\ resource'[d].release = "not_requested"
    BY <1>0, <1>6 DEF NewRow, NoResource, TypeOK
  <2>2. ProgressOf(d)'
    BY <1>1, <1>4, <2>1 DEF ProgressOf
  <2>3. \A r \in Dispatch \ {d} : resource'[r] = resource[r]
    BY <1>0, <1>6 DEF TypeOK
  <2>4. QED BY <1>5, <2>2, <2>3 DEF Progress
<1>7. ASSUME NEW r \in Transferable(t), resource' = [resource EXCEPT ![r] = Transferred(@, d)],
             UNCHANGED process
      PROVE  Progress'
  <2>1. r \in Dispatch /\ resource[r] \in ResourceRow /\ resource[r].ownership = "owned"
    BY <1>0 DEF Transferable, RowsOf, TypeOK
  <2>2. /\ resource'[r].ownership = "owned" /\ resource'[r].release = "not_requested"
        /\ resource'[r].terminal = resource[r].terminal
        /\ resource'[r].process = resource[r].process
    BY <1>0, <1>7, <2>1 DEF TypeOK, Transferred, ResourceRow
  <2>3. closed[r] # None => ~IsRunning(resource[r].terminal, resource[r].process)'
    BY <1>0, <1>7, <2>1, <2>2 DEF Progress, ProgressOf, IsRunning
  <2>4. input[r] # "recorded"
    BY <1>0, <2>1 DEF Progress, ProgressOf
  <2>5. ProgressOf(r)'
    BY <1>1, <2>2, <2>3, <2>4 DEF ProgressOf, Exists
  <2>6. \A s \in Dispatch \ {r} : resource'[s] = resource[s]
    BY <1>0, <1>7 DEF TypeOK
  <2>7. QED BY <1>5, <2>5, <2>6 DEF Progress
<1>8. CASE StartFresh(d, t)
  BY <1>6, <1>8 DEF StartFresh
<1>9. CASE StartReusing(d, t)
  BY <1>6, <1>7, <1>9 DEF StartReusing
<1>10. QED BY <1>8, <1>9

\* One row written, the others left alone.
LEMMA WriteProgress ==
  ASSUME IInv, [Next]_vars, UNCHANGED <<worker, closed, input>>,
         NEW r \in Dispatch, Exists(r), NEW row, Write(r, row), RowKept(row, resource[r]),
         row.release \in {"requested", "releasing", "unknown"} =>
           row.ownership = "owned" /\ worker[resource[r].owner].state = "succeeded",
         row.release = "releasing" => resource[r].owner \in archive',
         row.ownership \in {resource[r].ownership, "released"},
         row.ownership = "released" => ~IsRunning(resource[r].terminal, resource[r].process),
         \A s \in Dispatch : s # r /\ Exists(s) /\ resource[s].owner \in archive =>
           resource[s].owner \in archive'
  PROVE  Progress'
<1>0. TypeOK /\ Progress
  BY DEF IInv
<1>1. resource'[r] = row /\ \A s \in Dispatch \ {r} : resource'[s] = resource[s]
  BY <1>0 DEF Write, TypeOK
<1>2. ProgressOf(r)'
  BY <1>1, RowProgress
<1>3. ASSUME NEW s \in Dispatch \ {r}
      PROVE  ProgressOf(s)'
  <2>1. resource[s].release = "releasing" => Exists(s)
    BY <1>0 DEF Progress, ProgressOf, Exists
  <2>2. Untouched(s)
    BY <1>1, <2>1 DEF Untouched
  <2>3. QED BY <2>2, UntouchedProgress
<1>4. QED BY <1>2, <1>3 DEF Progress

\* worker-release and worker-retain: the archives of the other rows stay.
LEMMA CallProgress ==
  ASSUME IInv, [Next]_vars, NEW d \in Dispatch, Request(d) \/ Probed(d) \/ Retain(d)
  PROVE  Progress'
<1>0. TypeOK /\ Attachment /\ OneRowEach /\ Calls /\ Progress
  BY DEF IInv, Structure
<1>1. UNCHANGED <<worker, closed, input, process>>
  BY DEF Request, Probed, Retain
<1>2. ASSUME NEW r \in Owned(d)
      PROVE  \A s \in Dispatch : s # r /\ Exists(s) /\ resource[s].owner \in archive =>
               resource[s].owner \in archive \ {d}
  BY <1>0, <1>2 DEF Owned, OneRowEach
<1>3. CASE Request(d)
  <2>1. PICK r \in Owned(d) :
          /\ worker[d].state = "succeeded" /\ resource[r].ownership = "owned"
          /\ archive' = IF DropsArchive(resource[r]) THEN archive \ {d} ELSE archive
          /\ Write(r, Requested(resource[r]))
    BY <1>3 DEF Request
  <2>2. r \in Dispatch /\ Exists(r) /\ resource[r].owner = d /\ resource[r] \in ResourceRow
    BY <1>0, <2>1 DEF Owned, TypeOK
  <2>3. RowKept(Requested(resource[r]), resource[r])
    BY <2>2, RowUpdates
  <2>4. /\ Requested(resource[r]).ownership = "owned"
        /\ (Requested(resource[r]).release = "releasing" => resource[r].release = "releasing")
    BY <2>1, <2>2 DEF Requested, ResourceRow
  <2>5. Requested(resource[r]).release = "releasing" => resource[r].owner \in archive'
    BY <1>0, <2>1, <2>2, <2>4 DEF DropsArchive, Progress, ProgressOf
  <2>6. \A s \in Dispatch : s # r /\ Exists(s) /\ resource[s].owner \in archive =>
          resource[s].owner \in archive'
    BY <1>2, <2>1
  <2>7. QED BY <1>1, <2>1, <2>2, <2>3, <2>4, <2>5, <2>6, WriteProgress
<1>4. CASE Probed(d)
  <2>. DEFINE r == probe[d]
              row == [resource[r] EXCEPT !.release = "released", !.ownership = "released",
                                         !.kept = FALSE]
  <2>1. r \in Dispatch /\ Exists(r) /\ resource[r] \in ResourceRow
    BY <1>0, <1>4 DEF Probed, Calls, TypeOK
  <2>2. UNCHANGED archive
    BY <1>4 DEF Probed
  <2>3. CASE UNCHANGED resource
    BY <1>1, <2>2, <2>3, UntouchedProgress DEF Untouched, Progress
  <2>4. CASE Write(r, row) /\ ~IsRunning(resource[r].terminal, resource[r].process)
    <3>1. RowKept(row, resource[r]) /\ row.release = "released" /\ row.ownership = "released"
      BY <2>1 DEF RowKept, SameClaims, ResourceRow, ReleaseState
    <3>2. QED BY <1>1, <2>1, <2>2, <2>4, <3>1, WriteProgress
  <2>5. QED BY <1>4, <2>3, <2>4 DEF Probed
<1>5. CASE Retain(d)
  <2>1. PICK r \in Owned(d) :
          /\ resource[r].release \in {"not_requested", "retained", "requested"}
          /\ Write(r, Retained(resource[r]))
          /\ archive' = archive \ {d}
    BY <1>5 DEF Retain
  <2>2. r \in Dispatch /\ Exists(r) /\ resource[r] \in ResourceRow
    BY <1>0, <2>1 DEF Owned, TypeOK
  <2>3. RowKept(Retained(resource[r]), resource[r])
    BY <2>2, RowUpdates
  <2>4. /\ Retained(resource[r]).ownership = resource[r].ownership
        /\ Retained(resource[r]).release = "retained"
    BY <2>1, <2>2 DEF Retained, ResourceRow
  <2>5. resource[r].ownership = "released" =>
          ~IsRunning(resource[r].terminal, resource[r].process)
    BY <1>0, <2>2 DEF Progress, ProgressOf
  <2>6. \A s \in Dispatch : s # r /\ Exists(s) /\ resource[s].owner \in archive =>
          resource[s].owner \in archive'
    BY <1>2, <2>1
  <2>7. QED BY <1>1, <2>1, <2>2, <2>3, <2>4, <2>5, <2>6, WriteProgress
<1>6. QED BY <1>3, <1>4, <1>5

\* What a release may write: the row as it is, or as the commit leaves it, marked or reverted.
LEMMA ReleaseRow ==
  ASSUME IInv, NEW r \in Dispatch,
         NEW base \in {resource[r], Committed(r)},
         NEW row \in {base, MarkUnknown(base), Reverted(base)}
  PROVE  /\ RowKept(row, resource[r])
         /\ row.ownership = resource[r].ownership
         /\ (row.release \in {"requested", "releasing", "unknown"} =>
               row.ownership = "owned" /\ worker[resource[r].owner].state = "succeeded")
         /\ (row.release = "releasing" =>
               IF base = resource[r] THEN resource[r].owner \in archive
               ELSE resource[r].owner \in CommittedArchive(r))
<1>0. TypeOK /\ ProgressOf(r) /\ resource[r] \in ResourceRow
  BY DEF IInv, Progress, TypeOK
<1>1. RowKept(resource[r], resource[r]) /\ RowKept(Committed(r), resource[r])
  BY <1>0, CommittedRow DEF RowKept, SameClaims
<1>2. base \in ResourceRow /\ RowKept(base, resource[r])
  BY <1>1 DEF RowKept
<1>3. RowKept(row, resource[r])
  BY <1>2, RowUpdates, RowKeptTwice
<1>4. /\ base.ownership = resource[r].ownership
      /\ (base.release \in {"requested", "releasing", "unknown"} =>
            base.ownership = "owned" /\ worker[resource[r].owner].state = "succeeded")
      /\ (base.release = "releasing" =>
            IF base = resource[r] THEN resource[r].owner \in archive
            ELSE resource[r].owner \in CommittedArchive(r))
  <2>1. CASE base = resource[r]
    BY <1>0, <2>1 DEF ProgressOf
  <2>2. CASE base = Committed(r)
    <3>1. CASE MayCommit(resource[r], release[r].dispatch)
      <4>1. /\ base = [resource[r] EXCEPT !.release = "releasing"]
            /\ CommittedArchive(r) = archive \cup {resource[r].owner}
            /\ resource[r].release = "requested" /\ resource[r].ownership = "owned"
        BY <2>2, <3>1 DEF Committed, CommittedArchive, MayCommit
      <4>2. base.release = "releasing" /\ base.ownership = "owned" /\ base # resource[r]
        BY <1>0, <4>1 DEF ResourceRow
      <4>3. QED BY <1>0, <4>1, <4>2 DEF ProgressOf
    <3>2. CASE ~MayCommit(resource[r], release[r].dispatch)
      BY <2>1, <2>2, <3>2 DEF Committed
    <3>3. QED BY <3>1, <3>2
  <2>3. QED BY <2>1, <2>2
<1>5. /\ row.ownership = base.ownership
      /\ (row.release \in {"requested", "releasing", "unknown"} =>
            base.release \in {"requested", "releasing", "unknown"})
      /\ (row.release = "releasing" => base.release = "releasing")
  BY <1>2 DEF MarkUnknown, Reverted, ResourceRow, ReleaseState
<1>6. QED BY <1>3, <1>4, <1>5

LEMMA CompleteProgress ==
  ASSUME IInv, [Next]_vars, NEW r \in Dispatch, Complete(r)
  PROVE  Progress'
<1>0. TypeOK /\ Attachment /\ Calls /\ Progress /\ resource[r] \in ResourceRow
  BY DEF IInv, Structure, TypeOK
<1>1. release[r].phase # "idle"
  BY DEF Complete, InspectMissing, InspectUnproven, InspectRunning, CaptureFails, CloseRefused,
         Close, CloseFails, Closed, AtCommit
<1>2. Exists(r) /\ release[r].dispatch \in Dispatch
  BY <1>0, <1>1, InFlight
<1>3. archive \subseteq CommittedArchive(r)
  BY DEF CommittedArchive
<1>4. resource[r].ownership = "released" =>
        ~IsRunning(resource[r].terminal, resource[r].process)
  BY <1>0 DEF Progress, ProgressOf
<1>5. ASSUME UNCHANGED <<worker, resource, archive, closed, input>>
      PROVE  Progress'
  BY <1>5, UntouchedProgress DEF Untouched, Progress
<1>6. ASSUME UNCHANGED <<worker, closed, input, archive>>,
             NEW row \in {resource[r], MarkUnknown(resource[r]), Reverted(resource[r])},
             Write(r, row)
      PROVE  Progress'
  <2>1. /\ RowKept(row, resource[r])
        /\ row.ownership = resource[r].ownership
        /\ (row.release \in {"requested", "releasing", "unknown"} =>
              row.ownership = "owned" /\ worker[resource[r].owner].state = "succeeded")
        /\ (row.release = "releasing" => resource[r].owner \in archive)
    BY <1>6, ReleaseRow
  <2>2. QED BY <1>2, <1>4, <1>6, <2>1, WriteProgress
<1>7. ASSUME UNCHANGED <<worker, closed, input>>, archive' = CommittedArchive(r),
             NEW row \in {Committed(r), MarkUnknown(Committed(r)), Reverted(Committed(r))},
             Write(r, row)
      PROVE  Progress'
  <2>1. /\ RowKept(row, resource[r])
        /\ row.ownership = resource[r].ownership
        /\ (row.release \in {"requested", "releasing", "unknown"} =>
              row.ownership = "owned" /\ worker[resource[r].owner].state = "succeeded")
        /\ (row.release = "releasing" => resource[r].owner \in archive')
    BY <1>3, <1>7, ReleaseRow
  <2>2. QED BY <1>2, <1>3, <1>4, <1>7, <2>1, WriteProgress
<1>8. CASE InspectMissing(r) \/ InspectUnproven(r)
  BY <1>6, <1>8 DEF InspectMissing, InspectUnproven
<1>9. CASE InspectRunning(r) \/ CaptureFails(r)
  BY <1>5, <1>9 DEF InspectRunning, CaptureFails
<1>10. CASE CloseRefused(r)
  BY <1>7, <1>10 DEF CloseRefused
<1>11. CASE Close(r)
  <2>1. /\ archive' = CommittedArchive(r) /\ Write(r, Committed(r)) /\ MayClose(r)
        /\ process' = [process EXCEPT ![resource[r].terminal].alive = FALSE]
        /\ closed' = [closed EXCEPT ![r] = resource[r].owner]
        /\ UNCHANGED <<worker, input>>
    BY <1>11 DEF Close
  <2>2. /\ resource'[r] = Committed(r)
        /\ \A s \in Dispatch \ {r} : resource'[s] = resource[s] /\ closed'[s] = closed[s]
    BY <1>0, <2>1 DEF Write, TypeOK
  <2>3. /\ RowKept(Committed(r), resource[r])
        /\ Committed(r).ownership = "owned" /\ resource[r].ownership = "owned"
        /\ worker[resource[r].owner].state = "succeeded"
        /\ resource[r].owner \in archive'
    BY <1>3, <2>1, ReleaseRow DEF MayClose
  <2>4. SameClaims(resource'[r], resource[r]) /\ Exists(r)'
    BY <1>2, <2>2, <2>3 DEF RowKept, Exists
  <2>5. ~IsRunning(resource[r].terminal, resource[r].process)'
    <3>1. resource[r].terminal \in Terminal
      BY <1>0, <1>2 DEF Attachment
    <3>2. ~process'[resource[r].terminal].alive
      BY <1>0, <2>1, <3>1 DEF TypeOK
    <3>3. QED BY <2>4, <3>2 DEF IsRunning, SameClaims
  <2>6. input'[r] # "recorded"
    BY <1>0, <2>1, <2>3 DEF Progress, ProgressOf
  <2>7. ProgressOf(r)'
    BY <2>1, <2>2, <2>3, <2>4, <2>5, <2>6 DEF ProgressOf, SameClaims
  <2>8. ASSUME NEW s \in Dispatch \ {r}
        PROVE  ProgressOf(s)'
    BY <1>3, <2>1, <2>2, UntouchedProgress DEF Untouched
  <2>9. QED BY <2>7, <2>8 DEF Progress
<1>12. CASE CloseFails(r)
  BY <1>5, <1>6, <1>7, <1>12 DEF CloseFails
<1>13. CASE Closed(r)
  <2>1. UNCHANGED <<worker, archive, closed, input>> /\ Write(r, Released(resource[r]))
    BY <1>13 DEF Closed
  <2>2. ~IsRunning(resource[r].terminal, resource[r].process)
    BY <1>0, <1>13 DEF Closed, Calls, Progress, ProgressOf
  <2>3. /\ RowKept(Released(resource[r]), resource[r])
        /\ Released(resource[r]).ownership \in {resource[r].ownership, "released"}
        /\ Released(resource[r]).release \notin {"requested", "releasing", "unknown"}
    BY <1>0, RowUpdates DEF Released, ResourceRow, ReleaseState
  <2>4. QED BY <1>2, <2>1, <2>2, <2>3, WriteProgress
<1>14. QED BY <1>8, <1>9, <1>10, <1>11, <1>12, <1>13 DEF Complete

\* The user types: takeovers are recorded where the row allows it, for processes that run.
LEMMA InputProgress ==
  ASSUME IInv, [Next]_vars, NEW t \in Terminal, UserInput(t)
  PROVE  Progress'
<1>. DEFINE rows == {r \in Dispatch : resource[r].terminal = t /\ MayTakeOver(resource[r])}
            owned == {r \in RowsOf(t) : resource[r].ownership = "owned"}
<1>0. TypeOK /\ OneRowEach /\ Progress
  BY DEF IInv, Structure
<1>1. /\ resource' = [r \in Dispatch |-> IF r \in rows THEN TakenOver(resource[r])
                                         ELSE resource[r]]
      /\ archive' = archive \ {resource[r].owner : r \in rows}
      /\ input' = [r \in Dispatch |-> IF input[r] # "none" \/ r \notin owned THEN input[r]
                                      ELSE IF r \in rows THEN "recorded" ELSE "missed"]
      /\ process[t].alive /\ UNCHANGED <<worker, process, closed>>
  BY DEF UserInput
<1>2. ASSUME NEW r \in rows
      PROVE  ProgressOf(r)'
  <2>1. /\ r \in Dispatch /\ resource[r] \in ResourceRow /\ resource[r].ownership = "owned"
        /\ ProgressOf(r) /\ resource'[r] = TakenOver(resource[r])
    BY <1>0, <1>1, <1>2 DEF TypeOK, Progress, MayTakeOver
  <2>2. /\ resource'[r].ownership = "user_owned" /\ resource'[r].release = "retained"
        /\ resource'[r].terminal = resource[r].terminal
        /\ resource'[r].process = resource[r].process
    BY <2>1 DEF TakenOver, ResourceRow
  <2>3. closed'[r] # None => ~IsRunning(resource[r].terminal, resource[r].process)'
    BY <1>1, <2>1, <2>2 DEF ProgressOf, IsRunning
  <2>4. input'[r] = "recorded" => closed'[r] = None
    <3>1. input[r] # "recorded"
      BY <2>1 DEF ProgressOf
    <3>2. r \in owned => IsRunning(resource[r].terminal, resource[r].process)
      BY <1>1 DEF RowsOf, IsRunning
    <3>3. QED BY <1>1, <2>1, <3>1, <3>2 DEF ProgressOf
  <2>5. QED BY <2>2, <2>3, <2>4 DEF ProgressOf, Exists
<1>3. ASSUME NEW r \in Dispatch, r \notin rows
      PROVE  ProgressOf(r)'
  <2>1. resource'[r] = resource[r] /\ (input'[r] = "recorded" => input[r] = "recorded")
    BY <1>1, <1>3
  <2>2. ASSUME resource[r].release = "releasing", resource[r].owner \in archive
        PROVE  resource[r].owner \in archive'
    <3>1. Exists(r)
      BY <1>0, <2>2 DEF Progress, ProgressOf, Exists
    <3>2. ASSUME NEW s \in rows
          PROVE  resource[s].owner # resource[r].owner
      BY <1>0, <1>3, <3>1, <3>2 DEF OneRowEach, MayTakeOver, Exists
    <3>3. QED BY <1>1, <2>2, <3>2
  <2>3. QED BY <1>1, <2>1, <2>2, UntouchedProgress DEF Untouched
<1>4. QED BY <1>2, <1>3 DEF Progress

LEMMA ProgressStep ==
  ASSUME IInv, [Next]_vars
  PROVE  Progress'
<1>0. TypeOK
  BY DEF IInv
<1>1. ASSUME UNCHANGED <<worker, resource, archive, closed, input>>
      PROVE  Progress'
  BY <1>1, UntouchedProgress DEF Untouched, Progress
<1>2. ASSUME NEW d \in Dispatch, Settle(d)
      PROVE  Progress'
  <2>1. \A e \in Dispatch : worker[e].state = "succeeded" => worker'[e].state = "succeeded"
    BY <1>0, <1>2 DEF Settle, TypeOK, WorkerRow
  <2>2. \A r \in Dispatch : Exists(r) => resource[r].owner \in Dispatch
    BY DEF IInv, Structure, Attachment
  <2>3. QED BY <1>2, <2>1, <2>2, UntouchedProgress DEF Settle, Untouched, Progress
<1>3. ASSUME NEW d \in Dispatch, RequestRetained(d)
      PROVE  Progress'
  BY <1>1, <1>3 DEF RequestRetained
<1>4. ASSUME NEW t \in Terminal, Exit(t) \/ Spawn(t) \/ Rediscover(t)
      PROVE  Progress'
  BY <1>1, <1>4 DEF Exit, Spawn, Rediscover
<1>5. ASSUME Restart \/ StartPass \/ PassStep \/ UNCHANGED vars
      PROVE  Progress'
  BY <1>1, <1>5 DEF Restart, StartPass, PassStep, vars
<1>6. QED BY <1>2, <1>3, <1>4, <1>5, StartProgress, CallProgress, CompleteProgress,
             InputProgress DEF Next

-----------------------------------------------------------------------------
(* The theorems. *)

LEMMA InitIInv == Init => IInv
<1> SUFFICES ASSUME Init
             PROVE  IInv
  OBVIOUS
<1>1. TypeOK
  BY BoundAssumption DEF Init, TypeOK, NoWorker, NoResource, Idle, NoPass, WorkerRow,
                         ResourceRow, ReleaseState, Call, ProcessId
<1>2. Structure
  BY DEF Init, Structure, Attachment, Blank, OneRowEach, Covered, Exists, NoResource, NoWorker
<1>3. Calls
  BY DEF Init, Calls, Idle, NoPass
<1>4. Progress
  BY DEF Init, Progress, ProgressOf, NoResource
<1>5. QED BY <1>1, <1>2, <1>3, <1>4 DEF IInv

LEMMA NextIInv == IInv /\ [Next]_vars => IInv'
BY TypeStep, StructureStep, CallsStep, ProgressStep DEF IInv

LEMMA Inductive == Spec => []IInv
BY InitIInv, NextIInv, PTL DEF Spec

\* The variables keep their types, for any number of dispatches, terminals, processes and
\* restarts.
THEOREM TypeCorrect == Spec => []TypeOK
<1>1. IInv => TypeOK
  BY DEF IInv
<1>2. QED BY <1>1, Inductive, PTL

\* commitWorkerTerminalArchiveForRelease: a row that is releasing is owned by a worker that
\* reported, and its output is archived.
THEOREM IntentHasArchive == Spec => []ReleasingIsArchived
<1>1. IInv => ReleasingIsArchived
  BY DEF IInv, Progress, ProgressOf, ReleasingIsArchived
<1>2. QED BY <1>1, Inductive, PTL

\* settleWorkerTerminalRelease and settleDeadWorkerTerminalRelease: no released row hides a
\* process that runs.
THEOREM ReleasedProcessGone == Spec => []ReleasedIsGone
<1>1. IInv => ReleasedIsGone
  BY DEF IInv, Progress, ProgressOf, ReleasedIsGone
<1>2. QED BY <1>1, Inductive, PTL

\* markWorkerTerminalUserOwned: a recorded takeover is final.
THEOREM TakeoverIsFinal == Spec => []RecordedTakeoverKept
<1>1. IInv => RecordedTakeoverKept
  BY DEF IInv, Progress, ProgressOf, RecordedTakeoverKept
<1>2. QED BY <1>1, Inductive, PTL

\* Only Close records a close.
LEMMA OnlyCloseCloses ==
  ASSUME IInv, [Next]_vars, NEW r \in Dispatch, closed'[r] # closed[r]
  PROVE  Close(r)
<1>0. TypeOK
  BY DEF IInv
<1>1. ASSUME NEW s \in Dispatch, Complete(s), ~Close(s)
      PROVE  UNCHANGED closed
  BY <1>1 DEF Complete, InspectMissing, InspectUnproven, InspectRunning, CaptureFails,
              CloseRefused, CloseFails, Closed
<1>2. ASSUME NEW s \in Dispatch, Close(s)
      PROVE  s = r
  BY <1>0, <1>2 DEF Close, TypeOK
<1>3. ASSUME NEW d \in Dispatch, NEW t \in Terminal, StartFresh(d, t) \/ StartReusing(d, t)
      PROVE  UNCHANGED closed
  BY <1>3 DEF StartFresh, StartReusing
<1>4. ASSUME NEW d \in Dispatch,
             Settle(d) \/ Request(d) \/ RequestRetained(d) \/ Probed(d) \/ Retain(d)
      PROVE  UNCHANGED closed
  BY <1>4 DEF Settle, Request, RequestRetained, Probed, Retain
<1>5. ASSUME NEW t \in Terminal, Exit(t) \/ Spawn(t) \/ UserInput(t) \/ Rediscover(t)
      PROVE  UNCHANGED closed
  BY <1>5 DEF Exit, Spawn, UserInput, Rediscover
<1>6. ASSUME Restart \/ StartPass \/ PassStep \/ UNCHANGED vars
      PROVE  UNCHANGED closed
  BY <1>6 DEF Restart, StartPass, PassStep, vars
<1>7. QED BY <1>1, <1>2, <1>3, <1>4, <1>5, <1>6 DEF Next

\* A close finds a granted request and the exact process.
LEMMA CloseIsGranted ==
  ASSUME IInv, NEW r \in Dispatch, Close(r)
  PROVE  /\ resource[r].release \in {"requested", "releasing"}
         /\ resource[r].ownership = "owned"
         /\ IsRunning(resource[r].terminal, resource[r].process)
         /\ ~IdentityConflict(r)
<1>1. TypeOK /\ Attachment /\ Calls /\ resource[r] \in ResourceRow
  BY DEF IInv, Structure, TypeOK
<1>2. release[r].phase # "idle"
  BY DEF Close, AtCommit
<1>3. /\ worker[release[r].dispatch].terminal = resource[r].terminal
      /\ worker[release[r].dispatch].process = resource[r].process
  BY <1>1, <1>2 DEF Attachment, Calls
<1>4. resource[r].release \in {"requested", "releasing"} /\ resource[r].ownership = "owned"
  BY <1>1 DEF Close, MayClose, Committed, MayCommit, ResourceRow
<1>5. QED BY <1>3, <1>4 DEF Close, LeaseIsCurrent

\* worker-retain: nothing closes a terminal without a request that still stands.
THEOREM RetainWithholdsClose == Spec => RetainedIsKept
<1>1. IInv /\ [Next]_vars =>
        [\A r \in Dispatch : closed'[r] # closed[r] =>
           /\ resource[r].release \in {"requested", "releasing"}
           /\ IsRunning(resource[r].terminal, resource[r].process)]_vars
  BY OnlyCloseCloses, CloseIsGranted
<1>2. QED BY <1>1, Inductive, PTL DEF Spec, RetainedIsKept

\* findWorkerTerminalReleaseIdentityConflict: a release never closes the process of a worker
\* that is still active, its own successor or one that shares the terminal.
THEOREM ActiveWorkersSurvive == Spec => ActiveWorkerKept
<1>1. ASSUME IInv, [Next]_vars, NEW r \in Dispatch, NEW d \in Dispatch,
             closed'[r] # closed[r], worker[d].state = "active"
      PROVE  \/ worker[d].terminal # resource[r].terminal
             \/ worker[d].process # resource[r].process
  <2>1. Close(r)
    BY <1>1, OnlyCloseCloses
  <2>2. /\ resource[r].ownership = "owned" /\ resource[r].release \in {"requested", "releasing"}
        /\ IsRunning(resource[r].terminal, resource[r].process)
        /\ ~IdentityConflict(r)
    BY <1>1, <2>1, CloseIsGranted
  <2>3. PICK s \in Dispatch : Exists(s) /\ d \in Claims(s)
    BY <1>1 DEF IInv, Structure, Covered
  <2>4. worker[d].terminal = resource[s].terminal /\ worker[d].process = resource[s].process
    BY <1>1, <2>3 DEF IInv, Structure, Attachment
  <2>5. CASE s = r
    <3>1. Settled(d)
      BY <1>1, <2>2, <2>3, <2>5
      DEF IInv, Structure, Attachment, Progress, ProgressOf, Claims, Settled
    <3>2. QED BY <1>1, <3>1 DEF Settled
  <2>6. CASE s # r
    <3>1. CASE resource[s].ownership = "released"
      BY <1>1, <2>2, <2>4, <3>1 DEF IInv, Progress, ProgressOf
    <3>2. CASE resource[s].ownership # "released"
      BY <2>2, <2>3, <2>4, <2>6, <3>2 DEF IdentityConflict, Exists
    <3>3. QED BY <3>1, <3>2
  <2>7. QED BY <2>5, <2>6
<1>2. IInv /\ [Next]_vars =>
        [\A r, d \in Dispatch :
           closed'[r] # closed[r] /\ worker[d].state = "active" =>
             \/ worker[d].terminal # resource[r].terminal
             \/ worker[d].process # resource[r].process]_vars
  BY <1>1
<1>3. QED BY <1>2, Inductive, PTL DEF Spec, ActiveWorkerKept

-----------------------------------------------------------------------------
(* What a recovery pass withdraws.                                         *)

\* The release of a row is withdrawn: by nobody who asked for it, and by no takeover.
Withdrawn(r) ==
  /\ resource[r].release \in {"requested", "releasing"}
  /\ resource'[r].release = "retained" /\ ~resource'[r].kept
  /\ resource'[r].ownership = "owned"

\* Only a release in flight that finds its lease not current does that.
LEMMA OnlyUnprovenWithdraws ==
  ASSUME IInv, [Next]_vars, NEW r \in Dispatch, Withdrawn(r)
  PROVE  release[r].phase # "idle" /\ ~LeaseIsCurrent(r, release[r].dispatch)
<1>0. TypeOK /\ resource[r] \in ResourceRow /\ resource'[r] # resource[r]
  BY DEF IInv, TypeOK, Withdrawn
<1>1. ASSUME NEW s \in Dispatch, NEW row, Write(s, row)
      PROVE  s = r /\ resource'[r] = row
  BY <1>0, <1>1 DEF Write, TypeOK
<1>2. ASSUME NEW s \in Dispatch, Complete(s)
      PROVE  release[r].phase # "idle" /\ ~LeaseIsCurrent(r, release[r].dispatch)
  <2>1. CASE InspectMissing(s)
    BY <1>0, <1>1, <2>1 DEF InspectMissing, MarkUnknown, Withdrawn, ResourceRow
  <2>2. CASE InspectUnproven(s)
    BY <1>1, <2>2 DEF InspectUnproven
  <2>3. CASE InspectRunning(s) \/ CaptureFails(s)
    BY <1>0, <2>3 DEF InspectRunning, CaptureFails
  <2>4. CASE CloseRefused(s)
    BY <1>0, <1>1, <2>4 DEF CloseRefused, AtCommit, Committed, Withdrawn, ResourceRow
  <2>5. CASE Close(s)
    BY <1>0, <1>1, <2>5 DEF Close, Committed, Withdrawn, ResourceRow
  <2>6. CASE CloseFails(s)
    BY <1>0, <1>1, <2>6 DEF CloseFails, Committed, MarkUnknown, Withdrawn, ResourceRow
  <2>7. CASE Closed(s)
    BY <1>0, <1>1, <2>7 DEF Closed, Released, Withdrawn, ResourceRow
  <2>8. QED
    BY <1>2, <2>1, <2>2, <2>3, <2>4, <2>5, <2>6, <2>7 DEF Complete
<1>3. ASSUME NEW d \in Dispatch, NEW t \in Terminal, StartFresh(d, t)
      PROVE  FALSE
  BY <1>0, <1>3 DEF StartFresh, NewRow, NoResource, Withdrawn, TypeOK
<1>4. ASSUME NEW d \in Dispatch, NEW t \in Terminal, StartReusing(d, t)
      PROVE  FALSE
  <2>1. ASSUME NEW s \in Dispatch, NEW row, row.release = "not_requested",
               resource' = [resource EXCEPT ![s] = row]
        PROVE  FALSE
    BY <1>0, <2>1 DEF Withdrawn, TypeOK
  <2>2. ASSUME NEW s \in Dispatch PROVE Transferred(resource[s], d).release = "not_requested"
    BY <1>0 DEF TypeOK, ResourceRow, Transferred
  <2>3. NewRow(d, t, process[t].id, "external").release = "not_requested"
    BY DEF NewRow, NoResource
  <2>4. QED
    BY <1>4, <2>1, <2>2, <2>3 DEF StartReusing, Transferable, RowsOf
<1>5. ASSUME NEW d \in Dispatch, Settle(d) \/ RequestRetained(d)
      PROVE  FALSE
  BY <1>0, <1>5 DEF Settle, RequestRetained
<1>6. ASSUME NEW d \in Dispatch, Request(d)
      PROVE  FALSE
  <2>1. PICK s \in Dispatch : Write(s, Requested(resource[s]))
    BY <1>6 DEF Request, Owned
  <2>2. resource'[r] = Requested(resource[r])
    BY <1>1, <2>1
  <2>3. QED
    BY <1>0, <2>2 DEF Requested, Withdrawn, ResourceRow
<1>7. ASSUME NEW d \in Dispatch, Probed(d)
      PROVE  FALSE
  <2>1. probe[d] \in Dispatch
    BY <1>0, <1>7 DEF Probed, TypeOK
  <2>2. QED
    BY <1>0, <1>1, <1>7, <2>1 DEF Probed, Withdrawn, ResourceRow
<1>8. ASSUME NEW d \in Dispatch, Retain(d)
      PROVE  FALSE
  <2>1. PICK s \in Dispatch : Write(s, Retained(resource[s]))
    BY <1>8 DEF Retain, Owned
  <2>2. resource'[r] = Retained(resource[r])
    BY <1>1, <2>1
  <2>3. QED
    BY <1>0, <2>2 DEF Retained, Withdrawn, ResourceRow
<1>9. ASSUME NEW t \in Terminal, UserInput(t)
      PROVE  FALSE
  <2>1. resource'[r] = TakenOver(resource[r])
    BY <1>0, <1>9 DEF UserInput
  <2>2. QED
    BY <1>0, <2>1 DEF TakenOver, Withdrawn, ResourceRow
<1>10. ASSUME NEW t \in Terminal, Exit(t) \/ Spawn(t) \/ Rediscover(t)
       PROVE  FALSE
  BY <1>0, <1>10 DEF Exit, Spawn, Rediscover
<1>11. ASSUME Restart \/ StartPass \/ PassStep \/ UNCHANGED vars
       PROVE  FALSE
  BY <1>0, <1>11 DEF Restart, StartPass, PassStep, vars
<1>12. QED
  BY <1>2, <1>3, <1>4, <1>5, <1>6, <1>7, <1>8, <1>9, <1>10, <1>11 DEF Next

\* Then another row names the process, or it is gone, or the runtime has not found it again.
LEMMA WithdrawnWhy ==
  ASSUME IInv, [Next]_vars, NEW r \in Dispatch, Withdrawn(r)
  PROVE  \/ IdentityConflict(r)
         \/ ~IsRunning(resource[r].terminal, resource[r].process)
         \/ resource[r].terminal \notin discovered
<1>1. release[r].phase # "idle" /\ ~LeaseIsCurrent(r, release[r].dispatch)
  BY OnlyUnprovenWithdraws
<1>2. /\ worker[release[r].dispatch].terminal = resource[r].terminal
      /\ worker[release[r].dispatch].process = resource[r].process
  BY <1>1 DEF IInv, Structure, Attachment, Calls
<1>3. QED
  BY <1>1, <1>2 DEF LeaseIsCurrent

\* The extent of what run intent_kept finds: whoever began the release, recovery or a caller, a
\* request is withdrawn under a process that runs, and that no other row names, only while the
\* runtime has not found its terminal again.
WithdrawnUnlessHidden ==
  \A r \in Dispatch : Withdrawn(r) =>
    \/ IdentityConflict(r)
    \/ ~IsRunning(resource[r].terminal, resource[r].process)
    \/ resource[r].terminal \notin discovered

THEOREM OnlyHiddenWithdrawn == Spec => [][WithdrawnUnlessHidden]_vars
<1>1. IInv /\ [Next]_vars => [WithdrawnUnlessHidden]_vars
  BY WithdrawnWhy DEF WithdrawnUnlessHidden
<1>2. QED BY <1>1, Inductive, PTL DEF Spec

\* Until the runtime restarts it knows every terminal in which something runs.
Known == restarts = 0 => \A t \in Terminal : process[t].alive => t \in discovered

LEMMA StepKnown ==
  ASSUME TypeOK, TypeOK', Known, [Next]_vars
  PROVE  Known'
<1>0. restarts \in Nat /\ process \in [Terminal -> [id : ProcessId, alive : BOOLEAN]]
  BY BoundAssumption DEF TypeOK
<1>1. CASE restarts' = 0 /\ restarts = 0
  <2>1. ASSUME NEW t \in Terminal, process'[t].alive, t \notin discovered'
        PROVE  FALSE
    <3>1. ASSUME process'[t] = process[t], discovered' = discovered PROVE FALSE
      BY <1>1, <2>1, <3>1 DEF Known
    <3>2. ASSUME NEW s \in Terminal, ~process'[s].alive, discovered' = discovered,
                 \A u \in Terminal \ {s} : process'[u] = process[u]
          PROVE  FALSE
      BY <1>1, <2>1, <3>2 DEF Known
    <3>3. ASSUME NEW s \in Terminal, discovered' = discovered \cup {s},
                 \A u \in Terminal \ {s} : process'[u] = process[u]
          PROVE  FALSE
      BY <1>1, <2>1, <3>3 DEF Known
    <3>4. ASSUME NEW d \in Dispatch, NEW s \in Terminal, StartFresh(d, s) \/ StartReusing(d, s)
          PROVE  FALSE
      BY <1>0, <3>1, <3>3, <3>4 DEF StartFresh, StartReusing
    <3>5. ASSUME NEW s \in Terminal, Exit(s) \/ Spawn(s) \/ UserInput(s) \/ Rediscover(s)
          PROVE  FALSE
      BY <1>0, <3>1, <3>2, <3>3, <3>5 DEF Exit, Spawn, UserInput, Rediscover
    <3>6. ASSUME NEW d \in Dispatch,
                 Settle(d) \/ Request(d) \/ RequestRetained(d) \/ Probed(d) \/ Retain(d)
          PROVE  FALSE
      BY <3>1, <3>6 DEF Settle, Request, RequestRetained, Probed, Retain
    <3>7. ASSUME NEW r \in Dispatch, Complete(r), ~Close(r)
          PROVE  FALSE
      BY <3>1, <3>7 DEF Complete, InspectMissing, InspectUnproven, InspectRunning, CaptureFails,
                        CloseRefused, CloseFails, Closed
    <3>8. ASSUME NEW r \in Dispatch, Close(r)
          PROVE  FALSE
      <4>1. /\ process' = [process EXCEPT ![resource[r].terminal].alive = FALSE]
            /\ discovered' = discovered
        BY <3>8 DEF Close
      <4>2. resource[r].terminal \in Terminal \/ process' = process
        BY <1>0, <4>1
      <4>3. QED
        BY <1>0, <3>1, <3>2, <4>1, <4>2
    <3>9. ASSUME Restart
          PROVE  FALSE
      BY <1>0, <1>1, <3>9 DEF Restart
    <3>10. ASSUME StartPass \/ PassStep \/ UNCHANGED vars
           PROVE  FALSE
      BY <3>1, <3>10 DEF StartPass, PassStep, vars
    <3>11. QED
      BY <3>4, <3>5, <3>6, <3>7, <3>8, <3>9, <3>10 DEF Next
  <2>2. QED
    BY <2>1 DEF Known
<1>2. CASE restarts' # 0
  BY <1>2 DEF Known
<1>3. CASE restarts' = 0 /\ restarts # 0
  <2>1. ASSUME NEW d \in Dispatch,
               Settle(d) \/ Request(d) \/ RequestRetained(d) \/ Probed(d) \/ Retain(d)
        PROVE  FALSE
    BY <1>3, <2>1 DEF Settle, Request, RequestRetained, Probed, Retain
  <2>2. ASSUME NEW r \in Dispatch, Complete(r)
        PROVE  FALSE
    BY <1>3, <2>2
    DEF Complete, InspectMissing, InspectUnproven, InspectRunning, CaptureFails, CloseRefused,
        Close, CloseFails, Closed
  <2>3. ASSUME NEW t \in Terminal, Exit(t) \/ Spawn(t) \/ UserInput(t) \/ Rediscover(t)
        PROVE  FALSE
    BY <1>3, <2>3 DEF Exit, Spawn, UserInput, Rediscover
  <2>4. ASSUME Restart \/ StartPass \/ PassStep \/ UNCHANGED vars
        PROVE  FALSE
    <3>1. restarts' = restarts \/ restarts' = restarts + 1
      BY <2>4 DEF Restart, StartPass, PassStep, vars
    <3>2. QED
      BY <1>0, <1>3, <3>1
  <2>5. ASSUME NEW d \in Dispatch, NEW t \in Terminal, StartFresh(d, t) \/ StartReusing(d, t)
        PROVE  FALSE
    BY <1>3, <2>5 DEF StartFresh, StartReusing
  <2>6. QED
    BY <2>1, <2>2, <2>3, <2>4, <2>5 DEF Next
<1>4. QED
  BY <1>1, <1>2, <1>3

\* A runtime that is not restarted withdraws a release only for cause, for any dispatches and
\* terminals: what run intent_kept finds needs a restart.
THEOREM WithdrawnForCauseWhileUp ==
  ASSUME MaxRestart = 0
  PROVE  Spec => WithdrawnForCause
<1>1. Init => Known
  BY DEF Init, Known
<1>2. IInv /\ IInv' /\ Known /\ [Next]_vars => Known'
  BY StepKnown DEF IInv
<1>3. IInv /\ Known => \A t \in Terminal : process[t].alive => t \in discovered
  BY DEF IInv, TypeOK, Known
<1>4. ASSUME IInv, Known, [Next]_vars, NEW r \in Dispatch, Withdrawn(r)
      PROVE  IdentityConflict(r) \/ ~IsRunning(resource[r].terminal, resource[r].process)
  BY <1>3, <1>4, WithdrawnWhy DEF IsRunning
<1>5. IInv /\ Known /\ [Next]_vars =>
        [\A r \in Dispatch :
           /\ release[r].recovery /\ resource[r].release \in {"requested", "releasing"}
           /\ resource'[r].release = "retained" /\ ~resource'[r].kept
           /\ resource'[r].ownership = "owned"
           => IdentityConflict(r) \/ ~IsRunning(resource[r].terminal, resource[r].process)]_vars
  BY <1>4 DEF Withdrawn
<1>6. QED BY <1>1, <1>2, <1>5, Inductive, PTL DEF Spec, WithdrawnForCause

=============================================================================
