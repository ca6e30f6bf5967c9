--------------------------- MODULE CloudSyncProofs ---------------------------
(***************************************************************************)
(* Proofs about CloudSync, for any finite set of writes, any runs, any     *)
(* number of milliseconds and faults.                                      *)
(***************************************************************************)
EXTENDS CloudSync, FiniteSetTheorems, WellFoundedInduction, TLAPS

-----------------------------------------------------------------------------
(* The least and the greatest of some numbers, and the first of some rows. *)

Smaller == {ss \in Nat \X Nat : ss[1] < ss[2]}

LEMMA SmallerWellFounded == IsWellFoundedOn(Smaller, Nat)
BY NatLessThanWellFounded DEF OpToRel, Smaller

\* Some numbers have a least one.
LEMMA LeastExists ==
  ASSUME NEW S \in SUBSET Nat, S # {}
  PROVE  \E x \in S : \A y \in S : x <= y
<1>1. PICK x \in S : \A y \in S : ~(<<y, x>> \in Smaller)
  BY SmallerWellFounded, WFMin
<1>2. ASSUME NEW y \in S PROVE x <= y
  <2>1. <<y, x>> \notin Smaller
    BY <1>1
  <2>2. x \in Nat /\ y \in Nat /\ <<y, x>> \in Nat \X Nat
    OBVIOUS
  <2>3. ~(y < x)
    BY <2>1, <2>2 DEF Smaller
  <2>. QED
    BY <2>2, <2>3
<1>. QED
  BY <1>2

LEMMA LeastOfNaturals ==
  ASSUME NEW S \in SUBSET Nat, S # {}
  PROVE  Least(S) \in S /\ \A y \in S : Least(S) <= y
BY LeastExists DEF Least

\* Some numbers below a bound have a greatest one.
LEMMA GreatestOfNaturals ==
  ASSUME NEW n \in Nat, NEW S \in SUBSET (0 .. n), S # {}
  PROVE  Greatest(S) \in S /\ \A y \in S : y <= Greatest(S)
<1>. DEFINE T == {k \in Nat : k <= n /\ n - k \in S}
<1>1. T # {}
  <2>1. PICK x \in S : TRUE
    OBVIOUS
  <2>2. n - x \in T
    BY <2>1
  <2>. QED
    BY <2>2
<1>2. PICK k \in T : \A j \in T : k <= j
  BY <1>1, LeastExists
<1>3. n - k \in S /\ \A y \in S : y <= n - k
  <2>1. ASSUME NEW y \in S PROVE y <= n - k
    <3>1. y \in 0 .. n /\ n - y \in Nat /\ n - (n - y) = y
      OBVIOUS
    <3>2. n - y \in T
      BY <3>1
    <3>. QED
      BY <1>2, <3>1, <3>2
  <2>. QED
    BY <1>2, <2>1
<1>. QED
  BY <1>3 DEF Greatest

LEMMA GreatestOfTwo ==
  ASSUME NEW a \in Nat, NEW b \in Nat
  PROVE  Greatest({a, b}) = IF a < b THEN b ELSE a
<1>. DEFINE m == IF a < b THEN b ELSE a
<1>1. m \in {a, b} /\ \A y \in {a, b} : y <= m
  OBVIOUS
<1>2. \A x \in {a, b} : (\A y \in {a, b} : y <= x) => x = m
  OBVIOUS
<1>. QED
  BY <1>1, <1>2 DEF Greatest

\* Rows with different ids have a first one, and none of them is older.
LEMMA FirstOfRows ==
  ASSUME NEW S \in SUBSET Write, S # {},
         \A x \in Write : place[x].created \in Nat /\ place[x].id \in Nat,
         \A x, y \in S : place[x].id = place[y].id => x = y
  PROVE  First(S) \in S /\ \A x \in S : place[First(S)].created <= place[x].created
<1>1. PICK c \in {place[x].created : x \in S} : \A d \in {place[x].created : x \in S} : c <= d
  <2>1. {place[x].created : x \in S} \in SUBSET Nat /\ {place[x].created : x \in S} # {}
    OBVIOUS
  <2>. QED
    BY <2>1, LeastExists
<1>2. PICK i \in {place[x].id : x \in {y \in S : place[y].created = c}} :
        \A j \in {place[x].id : x \in {y \in S : place[y].created = c}} : i <= j
  <2>1. /\ {place[x].id : x \in {y \in S : place[y].created = c}} \in SUBSET Nat
        /\ {place[x].id : x \in {y \in S : place[y].created = c}} # {}
    BY <1>1
  <2>. QED
    BY <2>1, LeastExists
<1>3. PICK w \in S : place[w].created = c /\ place[w].id = i
  BY <1>2
<1>4. \A x \in S \ {w} : Before(w, x)
  <2>1. ASSUME NEW x \in S \ {w} PROVE Before(w, x)
    <3>1. c <= place[x].created /\ place[x].id # i
      BY <1>1, <1>3
    <3>2. place[x].created = c => i <= place[x].id
      BY <1>2
    <3>. QED
      BY <1>1, <1>3, <3>1, <3>2 DEF Before
  <2>. QED
    BY <2>1
<1>5. First(S) \in S /\ \A x \in S \ {First(S)} : Before(First(S), x)
  BY <1>4 DEF First
<1>. QED
  BY <1>5 DEF Before

-----------------------------------------------------------------------------
(* The inductive invariant. *)

WriteRow == [call : {"new", "waiting", "sent", "over"}, run : Run, status : Status,
             sequence : 0 .. 2 + Cardinality(Write),
             told : {"nothing", "done", "failed", "queued", "broken"}]
AttemptRow == [write : Write, by : {"call", "flush", "nobody"},
               state : {"request", "running", "ok", "error"}]

\* Reports are numbered no higher than there were reports, and cursors than there were events
\* and aborted transactions.
Made == {w \in Write : write[w].call # "new"}
Marked == {w \in Write : cursor[w] > 0}
Bounds ==
  /\ \A w \in Write : write[w].sequence <= 2 + Cardinality(Made)
  /\ \A r \in Run : /\ seen[r].sequence <= 2 + Cardinality(Made)
                    /\ run[r].sequence <= 2 + Cardinality(Made)
  /\ drawn <= Cardinality(Marked) + faults

\* One transaction at a time has a key, and one the row of a run; an answer of yes has a record;
\* a cursor belongs to a transaction at work or to a record.
Serving ==
  /\ \A a \in net : write[a.write].call # "new" /\ (a.state = "ok" => a.write \in record)
  /\ \A w \in record : write[w].call # "new"
  /\ \A a \in net : a.state = "running" => a.write \notin record /\ cursor[a.write] > 0
  /\ \A a, b \in net : a.state = "running" /\ b.state = "running"
                       /\ write[a.write].run = write[b.write].run => a = b
  /\ \A w \in Write : cursor[w] > 0 /\ w \notin record =>
       \E a \in net : a.write = w /\ a.state = "running"
  /\ \A w, x \in Write : cursor[w] > 0 /\ cursor[w] = cursor[x] => w = x
  /\ \A w \in Write : cursor[w] <= drawn

\* A transaction at work is about to go beyond everything its run has committed, which is in
\* order and ends in what the run shows.
Advancing ==
  /\ \A a \in net : a.state = "running" =>
       /\ run[write[a.write].run].sequence < write[a.write].sequence
       /\ \A x \in record : write[x].run = write[a.write].run => cursor[x] < cursor[a.write]
  /\ \A x \in record : cursor[x] > 0 =>
       /\ write[x].sequence <= run[write[x].run].sequence
       /\ \/ run[write[x].run] = [status |-> write[x].status, sequence |-> write[x].sequence]
          \/ \E y \in record : write[y].run = write[x].run /\ cursor[y] > cursor[x]
  /\ \A x, y \in record : cursor[x] > 0 /\ cursor[y] > cursor[x] /\ write[x].run = write[y].run
                          => write[x].sequence < write[y].sequence

\* The attempt of a call is the only one of its write; a flush has one attempt, of a row it listed;
\* the outbox holds what was saved for later.
Calling ==
  /\ \A w \in Write : write[w].call \in {"new", "waiting"} =>
       w \notin outbox \cup record /\ \A a \in net : a.write # w
  /\ \A w \in Write : write[w].call # "over" => write[w].told = "nothing"
  /\ \A w \in outbox : write[w].told = "queued"
  /\ \A a \in net : a.by = "call" =>
       /\ write[a.write].call = "sent"
       /\ \A b \in net : b.write = a.write => b = a
       /\ a.state = "ok" \/ a.write \notin record
  /\ \A w \in Write : write[w].told = "failed" => \A a \in net : a.write # w
  /\ ToldIsTrue
  /\ \A a \in net : a.by = "flush" =>
       /\ flush.on /\ a.write \in flush.todo
       /\ \A b \in net : b.by = "flush" => b = a
  /\ flush.todo \subseteq outbox

\* What a write was saved behind is older, and with it in every flush; so it is sent after it.
Ordered ==
  /\ \A w \in Write : behind[w] # {} => write[w].told = "queued"
  /\ \A w \in Write : \A x \in behind[w] :
       /\ x \in outbox \cup record /\ write[x].told = "queued"
       /\ x \in outbox => place[x].created < place[w].created
       /\ w \in flush.todo /\ x \in outbox => x \in flush.todo
  /\ \A a \in net : behind[a.write] \subseteq record
  /\ QueuedInOrder
  /\ \A x, y \in outbox : place[x].id = place[y].id => x = y

\* Events the server has passed were emitted, are on the wire, or were late; the wire is beyond
\* what was read.
Streaming ==
  /\ \A e \in events : e <= stream.at => e \in shown \cup late \cup wire
  /\ OnlyLateEventsSkipped
  /\ wire \subseteq events
  /\ \A e \in wire : stream.read < e /\ e <= stream.at
  /\ stream.from <= stream.read /\ stream.read <= stream.at
  /\ stream.at \in events \cup {0} /\ durable \in events \cup {0}
  /\ stream.from \in events \cup {0} /\ stream.read \in events \cup {0}

IInv == TypeOK /\ Bounds /\ Serving /\ Advancing /\ Calling /\ Ordered /\ Streaming

-----------------------------------------------------------------------------
(* Types, and what follows from them. *)

LEMMA Typed ==
  ASSUME TypeOK
  PROVE  /\ write \in [Write -> WriteRow]
         /\ net \in SUBSET AttemptRow
         /\ Cardinality(Write) \in Nat
         /\ \A w \in Write : /\ write[w].run \in Run /\ write[w].status \in Status
                             /\ write[w].sequence \in Nat /\ cursor[w] \in Nat
                             /\ place[w].created \in Nat /\ place[w].id \in Nat
         /\ \A r \in Run : /\ seen[r] \in Row /\ run[r] \in Row
                           /\ run[r].sequence \in Nat /\ seen[r].sequence \in Nat
         /\ \A a \in net : /\ a.write \in Write /\ a.by \in {"call", "flush", "nobody"}
                           /\ a.state \in {"request", "running", "ok", "error"}
         /\ \A w \in record \cup outbox \cup flush.todo : w \in Write
         /\ drawn \in Nat /\ durable \in Nat /\ faults \in Nat
         /\ stream.from \in Nat /\ stream.read \in Nat /\ stream.at \in Nat
<1>1. Cardinality(Write) \in Nat
  BY SetsAssumption, FS_CardinalityType
<1>2. write \in [Write -> WriteRow] /\ net \in SUBSET AttemptRow
  BY DEF TypeOK, WriteRow, AttemptRow
<1>3. \A w \in Write : /\ write[w].run \in Run /\ write[w].status \in Status
                       /\ write[w].sequence \in Nat
  BY <1>1, <1>2 DEF WriteRow
<1>4. \A w \in Write : cursor[w] \in Nat /\ place[w].created \in Nat /\ place[w].id \in Nat
  BY <1>1, BoundAssumption DEF TypeOK, Cursor, Rank
<1>5. \A r \in Run : /\ seen[r] \in Row /\ run[r] \in Row
                     /\ run[r].sequence \in Nat /\ seen[r].sequence \in Nat
  BY <1>1 DEF TypeOK, Row
<1>6. \A a \in net : /\ a.write \in Write /\ a.by \in {"call", "flush", "nobody"}
                     /\ a.state \in {"request", "running", "ok", "error"}
  BY <1>2 DEF AttemptRow
<1>7. \A w \in record \cup outbox \cup flush.todo : w \in Write
  BY DEF TypeOK
<1>8. drawn \in Nat /\ durable \in Nat /\ faults \in Nat
      /\ stream.from \in Nat /\ stream.read \in Nat /\ stream.at \in Nat
  BY <1>1, BoundAssumption DEF TypeOK, Cursor
<1>. QED
  BY <1>1, <1>2, <1>3, <1>4, <1>5, <1>6, <1>7, <1>8

\* Cursors are those of records, and of no other write.
LEMMA Events ==
  ASSUME TypeOK
  PROVE  /\ \A e : e \in events <=> \E w \in record : cursor[w] = e /\ e # 0
         /\ events \subseteq 0 .. Cardinality(Write) + MaxFault
         /\ \A e \in events : e \in Nat /\ e > 0
<1>1. \A w \in record : cursor[w] \in Nat /\ cursor[w] \in 0 .. Cardinality(Write) + MaxFault
  BY Typed DEF TypeOK, Cursor
<1>. QED
  BY <1>1 DEF events

-----------------------------------------------------------------------------
(* Steps that apply nothing. *)

Runs(a) == a.state = "running"

\* Reports that were made stay what they are, transactions at work go on, whoever waits for them,
\* and what gets a record has no event.
QuietStep ==
  /\ UNCHANGED <<run, cursor, drawn>>
  /\ record \subseteq record'
  /\ \A w \in record' \ record : /\ cursor[w] = 0 /\ write[w].call # "new"
                                 /\ \A a \in net : Runs(a) => a.write # w
  /\ \A w \in Write : write[w].call # "new" =>
       /\ write'[w].run = write[w].run /\ write'[w].status = write[w].status
       /\ write'[w].sequence = write[w].sequence /\ write'[w].call # "new"
  /\ \A a \in net' : /\ write'[a.write].call # "new"
                     /\ a.state = "ok" => a.write \in record'
                     /\ Runs(a) => \E b \in net : Runs(b) /\ b.write = a.write
  /\ \A b \in net : Runs(b) => \E a \in net' : Runs(a) /\ a.write = b.write
  /\ \A a, b \in net' : Runs(a) /\ Runs(b) /\ a.write = b.write => a = b

LEMMA QuietServing ==
  ASSUME TypeOK, Serving, TypeOK', QuietStep
  PROVE  Serving'
<1>1. \A a \in net' : write'[a.write].call # "new" /\ (a.state = "ok" => a.write \in record')
  BY DEF QuietStep
<1>2. \A w \in record' : write'[w].call # "new" /\ w \in Write
  <2>1. \A w \in record' : w \in Write
    BY DEF TypeOK
  <2>. QED
    BY <2>1 DEF QuietStep, Serving
<1>3. \A a \in net' : a.write \in Write
  BY DEF TypeOK
<1>4. \A b \in net : b.write \in Write /\ write[b.write].call # "new"
  BY DEF TypeOK, Serving
<1>5. \A a \in net' : Runs(a) =>
        /\ a.write \notin record' /\ cursor'[a.write] > 0
        /\ write'[a.write].run = write[a.write].run
  <2>. SUFFICES ASSUME NEW a \in net', Runs(a)
               PROVE  /\ a.write \notin record' /\ cursor'[a.write] > 0
                      /\ write'[a.write].run = write[a.write].run
    OBVIOUS
  <2>1. PICK b \in net : Runs(b) /\ b.write = a.write
    BY DEF QuietStep
  <2>2. b.write \notin record /\ cursor[b.write] > 0
    BY <2>1 DEF Serving, Runs
  <2>. QED
    BY <1>4, <2>1, <2>2 DEF QuietStep
<1>6. \A a, b \in net' : Runs(a) /\ Runs(b) /\ write'[a.write].run = write'[b.write].run => a = b
  <2>. SUFFICES ASSUME NEW a \in net', NEW b \in net', Runs(a), Runs(b),
                      write'[a.write].run = write'[b.write].run
               PROVE  a = b
    OBVIOUS
  <2>1. PICK c \in net, d \in net : /\ Runs(c) /\ c.write = a.write
                                    /\ Runs(d) /\ d.write = b.write
    BY DEF QuietStep
  <2>2. c = d
    BY <1>5, <2>1 DEF Serving, Runs
  <2>. QED
    BY <2>1, <2>2 DEF QuietStep
<1>7. \A w \in Write : cursor'[w] > 0 /\ w \notin record' => \E a \in net' : a.write = w /\ Runs(a)
  BY DEF QuietStep, Serving, Runs
<1>8. /\ \A w, x \in Write : cursor'[w] > 0 /\ cursor'[w] = cursor'[x] => w = x
      /\ \A w \in Write : cursor'[w] <= drawn'
  BY DEF QuietStep, Serving
<1>. QED
  BY <1>1, <1>2, <1>5, <1>6, <1>7, <1>8 DEF Serving, Runs

LEMMA QuietAdvancing ==
  ASSUME TypeOK, Serving, Advancing, TypeOK', QuietStep
  PROVE  Advancing'
<1>1. \A b \in net : b.write \in Write /\ write[b.write].call # "new"
  BY DEF TypeOK, Serving
<1>2. \A x \in record : x \in Write /\ write[x].call # "new"
  BY DEF TypeOK, Serving
<1>3. \A x \in record' : x \in Write /\ write[x].call # "new"
                        /\ (x \notin record => cursor'[x] = 0)
  BY <1>2 DEF QuietStep, TypeOK
<1>4. \A x \in record' : /\ write'[x].run = write[x].run
                         /\ write'[x].status = write[x].status
                         /\ write'[x].sequence = write[x].sequence
  BY <1>3 DEF QuietStep
<1>5. run' = run /\ cursor' = cursor /\ \A x \in record : x \in record'
  BY DEF QuietStep
<1>6. \A a \in net' : Runs(a) =>
       /\ run'[write'[a.write].run].sequence < write'[a.write].sequence
       /\ \A x \in record' : write'[x].run = write'[a.write].run => cursor'[x] < cursor'[a.write]
  <2>. SUFFICES ASSUME NEW a \in net', Runs(a)
               PROVE  /\ run'[write'[a.write].run].sequence < write'[a.write].sequence
                      /\ \A x \in record' : write'[x].run = write'[a.write].run
                                            => cursor'[x] < cursor'[a.write]
    OBVIOUS
  <2>1. PICK b \in net : Runs(b) /\ b.write = a.write
    BY DEF QuietStep
  <2>2. /\ write'[a.write].run = write[a.write].run
        /\ write'[a.write].sequence = write[a.write].sequence
    BY <1>1, <2>1 DEF QuietStep
  <2>3. /\ run[write[a.write].run].sequence < write[a.write].sequence
        /\ \A x \in record : write[x].run = write[a.write].run => cursor[x] < cursor[a.write]
        /\ cursor[a.write] > 0
    BY <2>1 DEF Advancing, Serving, Runs
  <2>. QED
    BY <1>3, <1>4, <1>5, <2>2, <2>3
<1>7. ASSUME NEW x \in record', cursor'[x] > 0
      PROVE  /\ write'[x].sequence <= run'[write'[x].run].sequence
             /\ \/ run'[write'[x].run] = [status |-> write'[x].status,
                                         sequence |-> write'[x].sequence]
                \/ \E y \in record' : write'[y].run = write'[x].run /\ cursor'[y] > cursor'[x]
  <2>1. x \in record /\ cursor[x] > 0
    BY <1>3, <1>5, <1>7
  <2>2. /\ write[x].sequence <= run[write[x].run].sequence
        /\ \/ run[write[x].run] = [status |-> write[x].status, sequence |-> write[x].sequence]
           \/ \E y \in record : write[y].run = write[x].run /\ cursor[y] > cursor[x]
    BY <2>1 DEF Advancing
  <2>. QED
    BY <1>4, <1>5, <2>2
<1>8. ASSUME NEW x \in record', NEW y \in record', cursor'[x] > 0, cursor'[y] > cursor'[x],
             write'[x].run = write'[y].run
      PROVE  write'[x].sequence < write'[y].sequence
  <2>1. cursor[x] \in Nat /\ cursor[y] \in Nat
    BY <1>3, Typed
  <2>2. x \in record /\ y \in record
    BY <1>3, <1>5, <1>8, <2>1
  <2>. QED
    BY <1>4, <1>5, <1>8, <2>2 DEF Advancing
<1>. QED
  BY <1>6, <1>7, <1>8 DEF Advancing, Runs

\* The bounds, where no report is made and no event drawn.
LEMMA SameBounds ==
  ASSUME Bounds, TypeOK, TypeOK', faults <= faults',
         UNCHANGED <<seen, run, cursor, drawn>>,
         \A w \in Write : /\ write'[w].sequence = write[w].sequence
                          /\ (write'[w].call = "new") <=> (write[w].call = "new")
  PROVE  Bounds'
<1>1. Made' = Made
  <2>1. \A w : w \in Made' <=> w \in Made
    BY DEF Made
  <2>. QED
    BY <2>1
<1>2. Marked' = Marked
  BY DEF Marked
<1>3. Marked \in SUBSET Write
  BY DEF Marked
<1>4. Cardinality(Marked) \in Nat
  BY <1>3, SetsAssumption, FS_Subset, FS_CardinalityType
<1>5. faults \in Nat /\ faults' \in Nat /\ drawn \in Nat
  BY Typed, BoundAssumption DEF TypeOK
<1>6. drawn' <= Cardinality(Marked') + faults'
  BY <1>2, <1>4, <1>5 DEF Bounds
<1>7. /\ \A w \in Write : write'[w].sequence <= 2 + Cardinality(Made')
      /\ \A r \in Run : /\ seen'[r].sequence <= 2 + Cardinality(Made')
                        /\ run'[r].sequence <= 2 + Cardinality(Made')
  <2>1. Cardinality(Made') = Cardinality(Made)
    BY <1>1
  <2>2. /\ \A w \in Write : write'[w].sequence <= 2 + Cardinality(Made)
        /\ \A r \in Run : /\ seen'[r].sequence <= 2 + Cardinality(Made)
                          /\ run'[r].sequence <= 2 + Cardinality(Made)
    BY DEF Bounds
  <2>. QED
    BY <2>1, <2>2
<1>. QED
  BY <1>6, <1>7 DEF Bounds

\* The stream, where no event is committed and it does not move.
LEMMA SameStream ==
  ASSUME Streaming, events' = events, UNCHANGED <<stream, wire, durable, shown, late>>
  PROVE  Streaming'
BY DEF Streaming, OnlyLateEventsSkipped

LEMMA SameEvents == ASSUME UNCHANGED <<record, cursor>> PROVE events' = events
BY DEF events

\* A flush starts, or goes on, while the outbox stays as it is.
LEMMA FlushPendingKeeps ==
  ASSUME TypeOK, Calling, Ordered, FlushPending, TypeOK',
         UNCHANGED <<outbox, place, net, record, behind>>,
         \A w \in Write : /\ write'[w].told = write[w].told
                          /\ \/ write'[w].call = write[w].call
                             \/ write[w].call = "new" /\ write'[w].call = "waiting"
  PROVE  Calling' /\ Ordered'
<1>1. \/ flush' = flush
      \/ flush'.on /\ flush'.todo = outbox /\ ~flush.on
  BY DEF FlushPending
<1>2. \A a \in net : a.write \in Write
  BY Typed
<1>3. Calling'
  <2>1. \A w \in Write : write'[w].call \in {"new", "waiting"} =>
          w \notin outbox' \cup record' /\ \A a \in net' : a.write # w
    BY DEF Calling
  <2>2. /\ \A w \in Write : write'[w].call # "over" => write'[w].told = "nothing"
        /\ \A w \in outbox' : write'[w].told = "queued"
        /\ \A w \in Write : write'[w].told = "failed" => \A a \in net' : a.write # w
        /\ ToldIsTrue'
    BY DEF Calling, ToldIsTrue, TypeOK
  <2>3. \A a \in net' : a.by = "call" =>
          /\ write'[a.write].call = "sent"
          /\ \A b \in net' : b.write = a.write => b = a
          /\ a.state = "ok" \/ a.write \notin record'
    BY <1>2 DEF Calling
  <2>4. /\ \A a \in net' : a.by = "flush" =>
             /\ flush'.on /\ a.write \in flush'.todo
             /\ \A b \in net' : b.by = "flush" => b = a
        /\ flush'.todo \subseteq outbox'
    BY <1>1 DEF Calling
  <2>. QED
    BY <2>1, <2>2, <2>3, <2>4 DEF Calling
<1>4. Ordered'
  <2>1. \A w \in Write : \A x \in behind[w] : x \in Write
    BY Typed DEF Ordered
  <2>. QED
    BY <1>1, <2>1 DEF Ordered, QueuedInOrder
<1>. QED
  BY <1>3, <1>4

\* A report is made.
LEMMA RequestKeeps ==
  ASSUME IInv, NEW w \in Write, NEW r \in Run, NEW n \in Nat, NEW status \in Status,
         n <= 3 + Cardinality(Made), Request(w, r, n, status), launch' \in [Run -> 1 .. 3]
  PROVE  IInv'
<1>. DEFINE new == [call |-> "waiting", run |-> r, status |-> status, sequence |-> n,
                    told |-> "nothing"]
<1>1. /\ TypeOK /\ write[w].call = "new" /\ write' = [write EXCEPT ![w] = new] /\ FlushPending
      /\ UNCHANGED <<seen, clock, outbox, place, behind, net, server, streamVars, faults>>
  BY DEF IInv, Request
<1>2. UNCHANGED <<record, run, cursor, drawn, late, stream, wire, durable, shown>>
  BY <1>1 DEF server, streamVars
<1>3. write'[w] = new /\ \A x \in Write \ {w} : write'[x] = write[x]
  BY <1>1, Typed
<1>4. /\ Made' = Made \cup {w} /\ w \notin Made /\ Made \in SUBSET Write
      /\ Made' \in SUBSET Write
  BY <1>1, <1>3 DEF Made
<1>5. /\ Cardinality(Made) \in Nat /\ Cardinality(Made') = Cardinality(Made) + 1
      /\ Cardinality(Made') <= Cardinality(Write)
  <2>1. IsFiniteSet(Made) /\ IsFiniteSet(Made') /\ Cardinality(Made') <= Cardinality(Write)
    BY <1>4, SetsAssumption, FS_Subset
  <2>. QED
    BY <1>4, <2>1, FS_AddElement, FS_CardinalityType
<1>6. n \in 0 .. 2 + Cardinality(Write)
  BY <1>1, <1>5, Typed
<1>7. TypeOK'
  <2>1. new \in WriteRow
    BY <1>6 DEF WriteRow
  <2>2. write' \in [Write -> WriteRow]
    BY <1>1, <2>1, Typed
  <2>3. flush' \in [on : BOOLEAN, todo : SUBSET Write]
    BY <1>1 DEF FlushPending, TypeOK
  <2>. QED
    BY <1>1, <1>2, <2>2, <2>3 DEF TypeOK, WriteRow
<1>8. Bounds'
  <2>1. Marked' = Marked
    BY <1>2 DEF Marked
  <2>2. \A x \in Write : write'[x].sequence <= 2 + Cardinality(Made')
    BY <1>3, <1>5, <1>1, Typed DEF IInv, Bounds
  <2>3. \A q \in Run : /\ seen'[q].sequence <= 2 + Cardinality(Made')
                       /\ run'[q].sequence <= 2 + Cardinality(Made')
    BY <1>1, <1>2, <1>5, Typed DEF IInv, Bounds
  <2>. QED
    BY <1>1, <1>2, <2>1, <2>2, <2>3 DEF IInv, Bounds
<1>9. QuietStep
  <2>1. \A a \in net : a.write \in Write /\ a.write # w
    BY <1>1, Typed DEF IInv, Calling
  <2>2. \A a \in net : write'[a.write].call # "new" /\ (a.state = "ok" => a.write \in record)
    BY <1>3, <2>1 DEF IInv, Serving
  <2>3. \A a, b \in net : Runs(a) /\ Runs(b) /\ a.write = b.write => a = b
    BY DEF IInv, Serving, Runs
  <2>. QED
    BY <1>1, <1>2, <1>3, <2>2, <2>3 DEF QuietStep
<1>10. Calling' /\ Ordered'
  <2>1. write[w].told = "nothing"
    BY <1>1 DEF IInv, Calling
  <2>. QED
    BY <1>1, <1>2, <1>3, <1>7, <2>1, FlushPendingKeeps DEF IInv
<1>. QED
  BY <1>2, <1>7, <1>8, <1>9, <1>10, QuietServing, QuietAdvancing, SameStream, SameEvents DEF IInv

LEMMA ReportKeeps ==
  ASSUME IInv, NEW w \in Write, NEW r \in Run,
         \/ LinkAgentRun(w, r)
         \/ \E status \in {"working", "review"} : ReportStatus(w, r, status)
  PROVE  IInv'
<1>1. Cardinality(Made) \in Nat
  <2>1. Made \in SUBSET Write
    BY DEF Made
  <2>. QED
    BY <2>1, SetsAssumption, FS_Subset, FS_CardinalityType
<1>2. CASE LinkAgentRun(w, r)
  <2>1. launch[r] \in 1 .. 3 /\ launch[r] < 3 /\ launch \in [Run -> 1 .. 3]
    BY <1>2 DEF LinkAgentRun, IInv, TypeOK
  <2>2. launch' \in [Run -> 1 .. 3]
    BY <1>2, <2>1 DEF LinkAgentRun
  <2>3. launch[r] \in Nat /\ launch[r] <= 3 + Cardinality(Made)
    BY <1>1, <2>1
  <2>4. (IF launch[r] = 1 THEN "starting" ELSE "working") \in Status
    BY DEF Status
  <2>5. Request(w, r, launch[r], IF launch[r] = 1 THEN "starting" ELSE "working")
    BY <1>2 DEF LinkAgentRun
  <2>. QED
    BY <2>2, <2>3, <2>4, <2>5, RequestKeeps
<1>3. ASSUME NEW status \in {"working", "review"}, ReportStatus(w, r, status) PROVE IInv'
  <2>1. seen[r].sequence \in Nat /\ seen[r].sequence <= 2 + Cardinality(Made)
    BY Typed DEF IInv, Bounds
  <2>2. /\ seen[r].sequence + 1 \in Nat /\ seen[r].sequence + 1 <= 3 + Cardinality(Made)
        /\ status \in Status
    BY <1>1, <2>1 DEF Status
  <2>3. launch' \in [Run -> 1 .. 3] /\ Request(w, r, seen[r].sequence + 1, status)
    BY <1>3 DEF ReportStatus, IInv, TypeOK
  <2>. QED
    BY <2>2, <2>3, RequestKeeps
<1>. QED
  BY <1>2, <1>3

\* Parts of the state that a step leaves alone.
LEMMA SameServer ==
  ASSUME Serving, Advancing, UNCHANGED <<write, net, record, run, cursor, drawn>>
  PROVE  Serving' /\ Advancing'
BY DEF Serving, Advancing

LEMMA SameCalls ==
  ASSUME Calling, UNCHANGED <<write, net, outbox, record, flush>>
  PROVE  Calling'
BY DEF Calling, ToldIsTrue

LEMMA SameOrder ==
  ASSUME Ordered, UNCHANGED <<write, net, outbox, record, flush, place, behind>>
  PROVE  Ordered'
BY DEF Ordered, QueuedInOrder

LEMMA RefreshKeeps ==
  ASSUME IInv, NEW r \in Run, Refresh(r)
  PROVE  IInv'
<1>1. /\ TypeOK /\ seen' = [seen EXCEPT ![r] = run[r]]
      /\ UNCHANGED <<write, launch, clock, outbox, place, flush, behind, net, server, streamVars,
                     faults>>
  BY DEF Refresh, IInv
<1>2. UNCHANGED <<record, run, cursor, drawn, late, stream, wire, durable, shown>>
  BY <1>1 DEF server, streamVars
<1>3. TypeOK'
  BY <1>1, <1>2 DEF TypeOK
<1>4. Bounds'
  <2>1. Made' = Made /\ Marked' = Marked
    BY <1>1, <1>2 DEF Made, Marked
  <2>2. \A q \in Run : seen'[q] = seen[q] \/ seen'[q] = run[q]
    BY <1>1 DEF TypeOK
  <2>. QED
    BY <1>1, <1>2, <2>1, <2>2 DEF IInv, Bounds
<1>. QED
  BY <1>1, <1>2, <1>3, <1>4, SameServer, SameCalls, SameOrder, SameStream, SameEvents DEF IInv

LEMMA TickKeeps ==
  ASSUME IInv, Tick
  PROVE  IInv'
<1>1. /\ TypeOK /\ clock' = clock + 1 /\ clock < MaxClock
      /\ UNCHANGED <<write, launch, seen, outbox, place, flush, behind, net, server, streamVars,
                     faults>>
  BY DEF Tick, IInv
<1>2. UNCHANGED <<record, run, cursor, drawn, late, stream, wire, durable, shown>>
  BY <1>1 DEF server, streamVars
<1>3. TypeOK'
  BY <1>1, <1>2, BoundAssumption DEF TypeOK
<1>4. Bounds'
  BY <1>1, <1>2, <1>3, SameBounds, Typed DEF IInv
<1>. QED
  BY <1>1, <1>2, <1>3, <1>4, SameServer, SameCalls, SameOrder, SameStream, SameEvents DEF IInv

LEMMA StartFlushKeeps ==
  ASSUME IInv, StartFlush
  PROVE  IInv'
<1>1. /\ TypeOK /\ FlushPending
      /\ UNCHANGED <<write, launch, seen, clock, outbox, place, behind, net, server, streamVars,
                     faults>>
  BY DEF StartFlush, IInv
<1>2. UNCHANGED <<record, run, cursor, drawn, late, stream, wire, durable, shown>>
  BY <1>1 DEF server, streamVars
<1>3. TypeOK'
  <2>1. flush' \in [on : BOOLEAN, todo : SUBSET Write]
    BY <1>1 DEF FlushPending, TypeOK
  <2>. QED
    BY <1>1, <1>2, <2>1 DEF TypeOK
<1>4. Bounds'
  BY <1>1, <1>2, <1>3, SameBounds, Typed DEF IInv
<1>5. Calling' /\ Ordered'
  BY <1>1, <1>2, <1>3, FlushPendingKeeps DEF IInv
<1>. QED
  BY <1>1, <1>2, <1>3, <1>4, <1>5, SameServer, SameStream, SameEvents DEF IInv

-----------------------------------------------------------------------------
(* The answer to a call. *)

\* A call ends: what was reported stays.
LEMMA Ended ==
  ASSUME TypeOK, NEW w \in Write, NEW told \in {"done", "failed", "queued", "broken"},
         write' = [write EXCEPT ![w].call = "over", ![w].told = told]
  PROVE  /\ write' \in [Write -> WriteRow]
         /\ write'[w].call = "over" /\ write'[w].told = told
         /\ \A x \in Write \ {w} : write'[x] = write[x]
         /\ \A x \in Write : /\ write'[x].run = write[x].run
                             /\ write'[x].status = write[x].status
                             /\ write'[x].sequence = write[x].sequence
<1>1. write \in [Write -> WriteRow]
  BY Typed
<1>. QED
  BY <1>1 DEF WriteRow

LEMMA CallEnds ==
  ASSUME IInv, NEW w \in Write, NEW state \in {"ok", "error"}, Attempt(w, "call", state) \in net,
         NEW told \in {"done", "failed", "broken"},
         told = "done" => state = "ok", told = "failed" => state = "error",
         write' = [write EXCEPT ![w].call = "over", ![w].told = told],
         net' = net \ {Attempt(w, "call", state)},
         faults <= faults', faults' \in 0 .. MaxFault,
         UNCHANGED <<launch, seen, clock, outbox, place, flush, behind, server, streamVars>>
  PROVE  IInv'
<1>. DEFINE a == Attempt(w, "call", state)
<1>1. /\ TypeOK
      /\ UNCHANGED <<record, run, cursor, drawn, late, stream, wire, durable, shown>>
  BY DEF server, streamVars, IInv
<1>2. /\ write' \in [Write -> WriteRow]
      /\ write'[w].call = "over" /\ write'[w].told = told
      /\ \A x \in Write \ {w} : write'[x] = write[x]
      /\ \A x \in Write : /\ write'[x].run = write[x].run
                          /\ write'[x].status = write[x].status
                          /\ write'[x].sequence = write[x].sequence
  BY <1>1, Ended
<1>3. a \in net /\ a.write = w /\ a.by = "call" /\ a.state = state
  BY DEF Attempt
<1>4. /\ write[w].call = "sent" /\ write[w].told = "nothing"
      /\ \A b \in net : b.write = w => b = a
      /\ state = "ok" \/ w \notin record
      /\ state = "ok" => w \in record
  BY <1>3 DEF IInv, Calling, Serving
<1>5. net' = net \ {a} /\ \A b \in net' : b \in net /\ b.write \in Write /\ b.write # w
  BY <1>1, <1>4, Typed
<1>6. TypeOK'
  BY <1>1, <1>2, <1>5 DEF TypeOK, WriteRow
<1>7. Bounds'
  <2>1. \A x \in Write : (write'[x].call = "new") <=> (write[x].call = "new")
    BY <1>2, <1>4
  <2>. QED
    BY <1>1, <1>2, <1>6, <2>1, SameBounds DEF IInv
<1>8. QuietStep
  <2>1. \A x \in Write : write[x].call # "new" => write'[x].call # "new"
    BY <1>2
  <2>2. \A b \in net' : /\ write'[b.write].call # "new"
                        /\ b.state = "ok" => b.write \in record
    BY <1>2, <1>5 DEF IInv, Serving
  <2>3. \A b \in net : Runs(b) => b \in net'
    BY <1>3, <1>5 DEF Runs
  <2>4. \A b, c \in net' : Runs(b) /\ Runs(c) /\ b.write = c.write => b = c
    BY <1>5 DEF IInv, Serving, Runs
  <2>. QED
    BY <1>1, <1>2, <1>5, <2>1, <2>2, <2>3, <2>4 DEF QuietStep
<1>9. Calling'
  <2>1. \A x \in Write : write'[x].call \in {"new", "waiting"} =>
          x \notin outbox' \cup record' /\ \A b \in net' : b.write # x
    BY <1>1, <1>2, <1>5 DEF IInv, Calling
  <2>2. /\ \A x \in Write : write'[x].call # "over" => write'[x].told = "nothing"
        /\ \A x \in outbox' : write'[x].told = "queued"
        /\ \A x \in Write : write'[x].told = "failed" => \A b \in net' : b.write # x
    BY <1>1, <1>2, <1>4, <1>5, Typed DEF IInv, Calling
  <2>3. ToldIsTrue'
    BY <1>1, <1>2, <1>4 DEF IInv, Calling, ToldIsTrue
  <2>4. \A b \in net' : b.by = "call" =>
          /\ write'[b.write].call = "sent"
          /\ \A c \in net' : c.write = b.write => c = b
          /\ b.state = "ok" \/ b.write \notin record'
    BY <1>1, <1>2, <1>5 DEF IInv, Calling
  <2>5. /\ \A b \in net' : b.by = "flush" =>
             /\ flush'.on /\ b.write \in flush'.todo
             /\ \A c \in net' : c.by = "flush" => c = b
        /\ flush'.todo \subseteq outbox'
    BY <1>5 DEF IInv, Calling
  <2>. QED
    BY <2>1, <2>2, <2>3, <2>4, <2>5 DEF Calling
<1>10. Ordered'
  <2>1. behind[w] = {}
    BY <1>4 DEF IInv, Ordered
  <2>2. \A x \in Write : write[x].told = "queued" => write'[x].told = "queued"
    BY <1>2, <1>4
  <2>3. \A x \in Write : \A y \in behind[x] : y \in Write
    BY <1>1, Typed DEF IInv, Ordered
  <2>. QED
    BY <1>1, <1>5, <2>1, <2>2, <2>3 DEF IInv, Ordered, QueuedInOrder
<1>. QED
  BY <1>1, <1>6, <1>7, <1>8, <1>9, <1>10, QuietServing, QuietAdvancing, SameStream, SameEvents
     DEF IInv

LEMMA AnswerKeeps ==
  ASSUME IInv, NEW w \in Write, Answered(w) \/ BodyFails(w)
  PROVE  IInv'
<1>1. faults \in 0 .. MaxFault /\ MaxFault \in Nat
  BY BoundAssumption DEF IInv, TypeOK
<1>2. CASE Answered(w)
  <2>1. faults' = faults
    BY <1>2 DEF Answered
  <2>2. faults <= faults' /\ faults' \in 0 .. MaxFault
    BY <1>1, <2>1
  <2>. QED
    BY <1>2, <2>2, CallEnds DEF Answered
<1>3. CASE BodyFails(w)
  <2>1. faults' = faults + 1 /\ faults < MaxFault
    BY <1>3 DEF BodyFails, Fault
  <2>2. faults <= faults' /\ faults' \in 0 .. MaxFault
    BY <1>1, <2>1
  <2>. QED
    BY <1>3, <2>2, CallEnds DEF BodyFails
<1>. QED
  BY <1>2, <1>3

-----------------------------------------------------------------------------
(* A write goes to the outbox, and attempts are given up on. *)

\* What was on its way or at work goes on for nobody, or does not arrive.
LEMMA AbandonedNet ==
  ASSUME IInv, NEW w \in Write, NEW by \in {"call", "flush"}, Abandoned(w, by)
  PROVE  /\ net' \in SUBSET AttemptRow
         /\ \A a \in net' : \/ a \in net /\ ~(a.write = w /\ a.by = by)
                            \/ /\ a.write = w /\ a.by = "nobody"
                               /\ a.state \in {"request", "running"}
                               /\ \E b \in net : b.write = w /\ b.by = by /\ b.state = a.state
         /\ \A b \in net : Runs(b) => \E a \in net' : Runs(a) /\ a.write = b.write
         /\ \A a, b \in net' : Runs(a) /\ Runs(b) /\ a.write = b.write => a = b
<1>. DEFINE mine == {a \in net : a.write = w /\ a.by = by}
            going == {Attempt(w, "nobody", a.state) : a \in
                        {b \in mine : b.state \in {"request", "running"}}}
<1>1. \/ net' = (net \ mine) \cup going
      \/ net' = (net \ mine) \cup {a \in going : a.state = "running"}
  BY DEF Abandoned
<1>2. \A a \in going : /\ a.write = w /\ a.by = "nobody" /\ a.state \in {"request", "running"}
                       /\ a = Attempt(w, "nobody", a.state)
                       /\ \E b \in net : b.write = w /\ b.by = by /\ b.state = a.state
  BY DEF Attempt
<1>3. \A st \in {"request", "running"} :
        Attempt(w, "nobody", st) \in AttemptRow
  BY DEF Attempt, AttemptRow
<1>4. net \in SUBSET AttemptRow
  BY Typed DEF IInv
<1>5. net' \in SUBSET AttemptRow
  <2>1. going \in SUBSET AttemptRow
    BY <1>2, <1>3
  <2>. QED
    BY <1>1, <1>4, <2>1
<1>6. \A a \in net' : a \in net \ mine \/ a \in going
  BY <1>1
<1>7. \A b \in net : Runs(b) => \E a \in net' : Runs(a) /\ a.write = b.write
  <2>. SUFFICES ASSUME NEW b \in net, Runs(b)
               PROVE  \E a \in net' : Runs(a) /\ a.write = b.write
    OBVIOUS
  <2>1. CASE b \notin mine
    BY <1>1, <2>1
  <2>2. CASE b \in mine
    <3>1. Attempt(w, "nobody", "running") \in going
      BY <2>2 DEF Runs
    <3>2. Attempt(w, "nobody", "running").state = "running"
          /\ Attempt(w, "nobody", "running").write = w
      BY DEF Attempt
    <3>. QED
      BY <1>1, <2>2, <3>1, <3>2 DEF Runs
  <2>. QED
    BY <2>1, <2>2
<1>8. \A a, b \in net' : Runs(a) /\ Runs(b) /\ a.write = b.write => a = b
  <2>. SUFFICES ASSUME NEW a \in net', NEW b \in net', Runs(a), Runs(b), a.write = b.write
               PROVE  a = b
    OBVIOUS
  <2>1. \A c, d \in net : Runs(c) /\ Runs(d) /\ c.write = d.write => c = d
    BY DEF IInv, Serving, Runs
  <2>2. CASE a \in net \ mine /\ b \in net \ mine
    BY <2>1, <2>2
  <2>3. CASE a \in going /\ b \in going
    BY <1>2, <2>3 DEF Runs
  <2>4. ASSUME NEW c \in net \ mine, NEW d \in going, Runs(c), Runs(d), c.write = d.write
        PROVE  FALSE
    <3>1. PICK e \in net : e.write = w /\ e.by = by /\ e.state = d.state
      BY <1>2
    <3>2. e = c
      BY <1>2, <2>1, <2>4, <3>1 DEF Runs
    <3>. QED
      BY <3>1, <3>2
  <2>. QED
    BY <1>6, <2>2, <2>3, <2>4
<1>9. \A a \in net' : \/ a \in net /\ ~(a.write = w /\ a.by = by)
                      \/ /\ a.write = w /\ a.by = "nobody"
                         /\ a.state \in {"request", "running"}
                         /\ \E b \in net : b.write = w /\ b.by = by /\ b.state = a.state
  BY <1>2, <1>6
<1>. QED
  BY <1>5, <1>7, <1>8, <1>9

\* A write with no row yet gets one, with an id of its own.
LEMMA Deferred ==
  ASSUME TypeOK, NEW w \in Write, DeferMutation(w), w \notin outbox
  PROVE  /\ outbox' = outbox \cup {w}
         /\ write' = [write EXCEPT ![w].call = "over", ![w].told = "queued"]
         /\ place' \in [Write -> [created : 0 .. MaxClock, id : Rank]]
         /\ place'[w].created = clock
         /\ \A x \in Write \ {w} : place'[x] = place[x]
         /\ \A x \in outbox : place'[x].id # place'[w].id
<1>1. PICK id \in Rank : /\ \A x \in outbox : place[x].id # id
                         /\ place' = [place EXCEPT ![w] = [created |-> clock, id |-> id]]
  BY DEF DeferMutation
<1>2. place \in [Write -> [created : 0 .. MaxClock, id : Rank]] /\ clock \in 0 .. MaxClock
      /\ outbox \in SUBSET Write
  BY DEF TypeOK
<1>3. place'[w] = [created |-> clock, id |-> id] /\ \A x \in Write \ {w} : place'[x] = place[x]
  BY <1>1, <1>2
<1>. QED
  BY <1>1, <1>2, <1>3 DEF DeferMutation

\* A call that waited, or that failed, saves its write for later.
LEMMA CallDefers ==
  ASSUME IInv, NEW w \in Write, TypeOK', DeferMutation(w),
         faults <= faults', UNCHANGED <<launch, seen, clock, flush, server, streamVars>>,
         \/ /\ write[w].call = "waiting" /\ ~flush.on
            /\ net' = net
            /\ behind' = [behind EXCEPT ![w] = {x \in outbox : place[x].created < clock}]
         \/ /\ write[w].call = "sent" /\ Abandoned(w, "call")
            /\ behind' = behind
  PROVE  IInv'
<1>1. /\ TypeOK /\ write[w].call # "over" /\ write[w].call # "new" /\ write[w].told = "nothing"
      /\ UNCHANGED <<record, run, cursor, drawn, late, stream, wire, durable, shown>>
  BY DEF server, streamVars, IInv, Calling
<1>2. w \notin outbox /\ behind[w] = {}
  BY <1>1 DEF IInv, Calling, Ordered
<1>3. /\ outbox' = outbox \cup {w}
      /\ write' = [write EXCEPT ![w].call = "over", ![w].told = "queued"]
      /\ place'[w].created = clock
      /\ \A x \in Write \ {w} : place'[x] = place[x]
      /\ \A x \in outbox : place'[x].id # place'[w].id
  BY <1>1, <1>2, Deferred
<1>4. /\ write'[w].call = "over" /\ write'[w].told = "queued"
      /\ \A x \in Write \ {w} : write'[x] = write[x]
      /\ \A x \in Write : /\ write'[x].run = write[x].run
                          /\ write'[x].status = write[x].status
                          /\ write'[x].sequence = write[x].sequence
  BY <1>1, <1>3, Ended
\* The attempts that are left.
<1>5. /\ \A a \in net' : \/ a \in net /\ ~(a.write = w /\ a.by = "call")
                         \/ /\ a.write = w /\ a.by = "nobody" /\ write[w].call = "sent"
                            /\ a.state \in {"request", "running"}
                            /\ \E b \in net : b.write = w /\ b.state = a.state
      /\ \A b \in net : Runs(b) => \E a \in net' : Runs(a) /\ a.write = b.write
      /\ \A a, b \in net' : Runs(a) /\ Runs(b) /\ a.write = b.write => a = b
  <2>1. CASE net' = net /\ write[w].call = "waiting"
    <3>1. \A a, b \in net : Runs(a) /\ Runs(b) /\ a.write = b.write => a = b
      BY DEF IInv, Serving, Runs
    <3>2. \A a \in net : a.write # w
      BY <2>1 DEF IInv, Calling
    <3>. QED
      BY <2>1, <3>1, <3>2
  <2>2. CASE Abandoned(w, "call") /\ write[w].call = "sent"
    BY <2>2, AbandonedNet
  <2>. QED
    BY <2>1, <2>2
<1>6. \A a \in net' : a.write \in Write /\ (a.write # w \/ a.by # "nobody" => a \in net)
  BY <1>1, <1>5, Typed
<1>7. Bounds'
  <2>1. \A x \in Write : (write'[x].call = "new") <=> (write[x].call = "new")
    BY <1>1, <1>4
  <2>. QED
    BY <1>1, <1>4, <2>1, SameBounds DEF IInv
<1>8. QuietStep
  <2>1. \A x \in Write : write[x].call # "new" => write'[x].call # "new"
    BY <1>4
  <2>2. \A a \in net' : /\ write'[a.write].call # "new"
                        /\ a.state = "ok" => a.write \in record
    BY <1>4, <1>5, <1>6 DEF IInv, Serving
  <2>3. \A a \in net' : Runs(a) => \E b \in net : Runs(b) /\ b.write = a.write
    BY <1>5 DEF Runs
  <2>. QED
    BY <1>1, <1>4, <1>5, <2>1, <2>2, <2>3 DEF QuietStep
<1>9. Calling'
  <2>1. \A x \in Write : write'[x].call \in {"new", "waiting"} =>
          x \notin outbox' \cup record' /\ \A a \in net' : a.write # x
    <3>. SUFFICES ASSUME NEW x \in Write, write'[x].call \in {"new", "waiting"}
                 PROVE  x \notin outbox' \cup record' /\ \A a \in net' : a.write # x
      OBVIOUS
    <3>1. x # w /\ write[x].call \in {"new", "waiting"}
      BY <1>4
    <3>2. x \notin outbox \cup record /\ \A a \in net : a.write # x
      BY <3>1 DEF IInv, Calling
    <3>. QED
      BY <1>1, <1>3, <1>6, <3>1, <3>2
  <2>2. /\ \A x \in Write : write'[x].call # "over" => write'[x].told = "nothing"
        /\ \A x \in outbox' : write'[x].told = "queued"
        /\ \A x \in Write : write'[x].told = "failed" => \A a \in net' : a.write # x
    BY <1>1, <1>3, <1>4, <1>6, Typed DEF IInv, Calling
  <2>3. ToldIsTrue'
    <3>1. \A x \in Write : /\ write[x].told = "done" => x \in record
                           /\ write[x].told = "failed" => x \notin record
                           /\ write[x].told = "queued" => x \in outbox \cup record
      BY DEF IInv, Calling, ToldIsTrue
    <3>2. \A x \in Write : /\ write'[x].told = "done" => x \in record
                           /\ write'[x].told = "failed" => x \notin record
                           /\ write'[x].told = "queued" => x \in outbox' \cup record
      BY <1>3, <1>4, <3>1
    <3>. QED
      BY <1>1, <3>2 DEF ToldIsTrue
  <2>4. \A a \in net' : a.by = "call" =>
          /\ write'[a.write].call = "sent"
          /\ \A b \in net' : b.write = a.write => b = a
          /\ a.state = "ok" \/ a.write \notin record'
    <3>. SUFFICES ASSUME NEW a \in net', a.by = "call"
                 PROVE  /\ write'[a.write].call = "sent"
                        /\ \A b \in net' : b.write = a.write => b = a
                        /\ a.state = "ok" \/ a.write \notin record'
      OBVIOUS
    <3>1. a \in net
      BY <1>6
    <3>2. a.write # w
      <4>1. CASE write[w].call = "waiting"
        BY <3>1, <4>1 DEF IInv, Calling
      <4>2. CASE write[w].call = "sent"
        BY <1>5
      <4>. QED
        BY <4>1, <4>2
    <3>. QED
      BY <1>1, <1>4, <1>6, <3>1, <3>2 DEF IInv, Calling
  <2>5. /\ \A a \in net' : a.by = "flush" =>
             /\ flush'.on /\ a.write \in flush'.todo
             /\ \A b \in net' : b.by = "flush" => b = a
        /\ flush'.todo \subseteq outbox'
    BY <1>3, <1>6 DEF IInv, Calling
  <2>. QED
    BY <2>1, <2>2, <2>3, <2>4, <2>5 DEF Calling
<1>10. Ordered'
  <2>1. \A x \in Write : write[x].told = "queued" => write'[x].told = "queued" /\ x # w
    BY <1>1, <1>4
  <2>2. \A x \in Write \ {w} : behind'[x] = behind[x]
    BY <1>1 DEF TypeOK
  <2>3. behind'[w] = {}
        \/ (write[w].call = "waiting" /\ behind'[w] = {x \in outbox : place[x].created < clock})
    BY <1>1, <1>2 DEF TypeOK
  <2>4. \A x \in Write : behind'[x] # {} => write'[x].told = "queued"
    BY <1>4, <2>1, <2>2 DEF IInv, Ordered
  <2>5. w \notin flush.todo
    BY <1>2 DEF IInv, Calling
  <2>6. \A y \in behind'[w] :
          /\ y \in outbox' \cup record' /\ write'[y].told = "queued"
          /\ y \in outbox' => place'[y].created < place'[w].created
          /\ w \in flush'.todo /\ y \in outbox' => y \in flush'.todo
    <3>1. \A y \in behind'[w] : y \in outbox /\ y \in Write /\ y # w /\ place[y].created < clock
      BY <1>1, <1>2, <2>3, Typed
    <3>2. \A y \in outbox : write'[y].told = "queued"
      BY <1>1, <2>1, Typed DEF IInv, Calling
    <3>. QED
      BY <1>3, <2>5, <3>1, <3>2
  <2>7. \A x \in Write \ {w} : \A y \in behind'[x] :
          /\ y \in outbox' \cup record' /\ write'[y].told = "queued"
          /\ y \in outbox' => place'[y].created < place'[x].created
          /\ x \in flush'.todo /\ y \in outbox' => y \in flush'.todo
    <3>. SUFFICES ASSUME NEW x \in Write \ {w}, NEW y \in behind[x]
                 PROVE  /\ y \in outbox' \cup record' /\ write'[y].told = "queued"
                        /\ y \in outbox' => place'[y].created < place'[x].created
                        /\ x \in flush'.todo /\ y \in outbox' => y \in flush'.todo
      BY <2>2
    <3>1. /\ y \in outbox \cup record /\ write[y].told = "queued"
          /\ y \in outbox => place[y].created < place[x].created
          /\ x \in flush.todo /\ y \in outbox => y \in flush.todo
      BY DEF IInv, Ordered
    <3>2. y \in Write /\ y # w
      BY <1>1, <2>1, <3>1, Typed
    <3>. QED
      BY <1>1, <1>3, <2>1, <3>1, <3>2
  <2>8. \A a \in net' : behind'[a.write] \subseteq record'
    <3>. SUFFICES ASSUME NEW a \in net' PROVE behind'[a.write] \subseteq record'
      OBVIOUS
    <3>1. CASE a.write # w
      BY <1>1, <1>6, <2>2, <3>1 DEF IInv, Ordered
    <3>2. CASE a.write = w
      <4>1. write[w].call # "waiting"
        BY <1>5, <3>2 DEF IInv, Calling
      <4>. QED
        BY <2>3, <3>2, <4>1
    <3>. QED
      BY <3>1, <3>2
  <2>9. QueuedInOrder'
    <3>1. w \in record => write[w].call # "waiting"
      BY DEF IInv, Calling
    <3>. QED
      BY <1>1, <2>2, <2>3, <3>1 DEF IInv, Ordered, QueuedInOrder
  <2>10. \A x, y \in outbox' : place'[x].id = place'[y].id => x = y
    <3>1. \A x \in outbox : place'[x] = place[x]
      BY <1>1, <1>2, <1>3, Typed
    <3>. QED
      BY <1>3, <3>1 DEF IInv, Ordered
  <2>. QED
    BY <2>4, <2>6, <2>7, <2>8, <2>9, <2>10 DEF Ordered
<1>. QED
  BY <1>1, <1>7, <1>8, <1>9, <1>10, QuietServing, QuietAdvancing, SameStream, SameEvents DEF IInv

LEMMA CallFailsKeeps ==
  ASSUME IInv, NEW w \in Write, CallFails(w)
  PROVE  IInv'
<1>1. /\ TypeOK /\ write[w].call = "sent" /\ faults < MaxFault /\ faults' = faults + 1
      /\ Abandoned(w, "call") /\ DeferMutation(w) /\ behind' = behind
      /\ UNCHANGED <<launch, seen, clock, flush, server, streamVars>>
  BY DEF CallFails, Fault, IInv
<1>2. faults' \in 0 .. MaxFault /\ faults <= faults'
  BY <1>1, BoundAssumption DEF TypeOK
<1>3. w \notin outbox
  BY <1>1 DEF IInv, Calling
<1>4. net' \in SUBSET AttemptRow
  BY <1>1, AbandonedNet
<1>5. /\ outbox' = outbox \cup {w}
      /\ write' = [write EXCEPT ![w].call = "over", ![w].told = "queued"]
      /\ place' \in [Write -> [created : 0 .. MaxClock, id : Rank]]
  BY <1>1, <1>3, Deferred
<1>6. write' \in [Write -> WriteRow]
  BY <1>1, <1>5, Ended
<1>7. TypeOK'
  BY <1>1, <1>2, <1>4, <1>5, <1>6 DEF TypeOK, WriteRow, AttemptRow, server, streamVars
<1>. QED
  BY <1>1, <1>2, <1>7, CallDefers

LEMMA ProceedKeeps ==
  ASSUME IInv, NEW w \in Write, Proceed(w)
  PROVE  IInv'
<1>1. /\ TypeOK /\ write[w].call = "waiting" /\ ~flush.on
      /\ UNCHANGED <<launch, seen, clock, flush, server, streamVars, faults>>
      /\ w \notin outbox /\ faults \in Nat
  BY Typed DEF Proceed, IInv, Calling
<1>2. CASE /\ DeferMutation(w) /\ net' = net
           /\ behind' = [behind EXCEPT ![w] = {x \in outbox : place[x].created < clock}]
  <2>1. /\ outbox' = outbox \cup {w}
        /\ write' = [write EXCEPT ![w].call = "over", ![w].told = "queued"]
        /\ place' \in [Write -> [created : 0 .. MaxClock, id : Rank]]
    BY <1>1, <1>2, Deferred
  <2>2. write' \in [Write -> WriteRow]
    BY <1>1, <2>1, Ended
  <2>3. behind' \in [Write -> SUBSET Write]
    BY <1>1, <1>2 DEF TypeOK
  <2>4. TypeOK'
    BY <1>1, <1>2, <2>1, <2>2, <2>3 DEF TypeOK, WriteRow, server, streamVars
  <2>5. faults <= faults'
    BY <1>1
  <2>. QED
    BY <1>1, <1>2, <2>4, <2>5, CallDefers
<1>3. CASE /\ outbox = {} /\ write' = [write EXCEPT ![w].call = "sent"]
           /\ net' = net \cup {Attempt(w, "call", "request")}
           /\ UNCHANGED <<outbox, place, behind>>
  <2>. DEFINE new == Attempt(w, "call", "request")
  <2>1. new \in AttemptRow /\ new.write = w /\ new.by = "call" /\ new.state = "request"
    BY DEF Attempt, AttemptRow
  <2>2. /\ write' \in [Write -> WriteRow]
        /\ write'[w].call = "sent" /\ write'[w].told = write[w].told
        /\ \A x \in Write \ {w} : write'[x] = write[x]
        /\ \A x \in Write : /\ write'[x].run = write[x].run
                            /\ write'[x].status = write[x].status
                            /\ write'[x].sequence = write[x].sequence
                            /\ write'[x].told = write[x].told
    BY <1>1, <1>3, Typed DEF WriteRow
  <2>3. UNCHANGED <<record, run, cursor, drawn, late, stream, wire, durable, shown>>
    BY <1>1 DEF server, streamVars
  <2>4. TypeOK'
    <3>1. net' \in SUBSET AttemptRow
      BY <1>1, <1>3, <2>1, Typed
    <3>. QED
      BY <1>1, <1>3, <2>2, <2>3, <3>1 DEF TypeOK, WriteRow, AttemptRow
  <2>5. Bounds'
    <3>1. \A x \in Write : (write'[x].call = "new") <=> (write[x].call = "new")
      BY <1>1, <2>2
    <3>2. faults <= faults'
      BY <1>1
    <3>. QED
      BY <1>1, <2>2, <2>3, <2>4, <3>1, <3>2, SameBounds DEF IInv
  <2>6. /\ w \notin record /\ behind[w] = {} /\ write[w].told = "nothing"
        /\ \A a \in net : a.write # w /\ a.write \in Write
    BY <1>1, Typed DEF IInv, Calling, Ordered
  <2>7. \A a \in net' : a = new \/ (a \in net /\ a.write # w /\ a.write \in Write)
    BY <1>3, <2>6
  <2>8. QuietStep
    <3>1. \A x \in Write : write[x].call # "new" => write'[x].call # "new"
      BY <2>2
    <3>2. \A a \in net' : /\ write'[a.write].call # "new"
                          /\ a.state = "ok" => a.write \in record
                          /\ Runs(a) => a \in net
      BY <2>1, <2>2, <2>7 DEF IInv, Serving, Runs
    <3>3. \A a, b \in net' : Runs(a) /\ Runs(b) /\ a.write = b.write => a = b
      BY <3>2 DEF IInv, Serving, Runs
    <3>4. \A b \in net : b \in net'
      BY <1>3
    <3>. QED
      BY <1>1, <2>2, <2>3, <3>1, <3>2, <3>3, <3>4 DEF QuietStep
  <2>9. Calling'
    <3>1. \A x \in Write : write'[x].call \in {"new", "waiting"} =>
            x \notin outbox' \cup record' /\ \A a \in net' : a.write # x
      BY <1>3, <2>1, <2>2, <2>3, <2>7 DEF IInv, Calling
    <3>2. /\ \A x \in Write : write'[x].call # "over" => write'[x].told = "nothing"
          /\ \A x \in outbox' : write'[x].told = "queued"
          /\ \A x \in Write : write'[x].told = "failed" => \A a \in net' : a.write # x
      BY <1>3, <2>1, <2>2, <2>6, <2>7 DEF IInv, Calling
    <3>3. ToldIsTrue'
      BY <1>3, <2>2, <2>3 DEF IInv, Calling, ToldIsTrue
    <3>4. \A a \in net' : a.by = "call" =>
            /\ write'[a.write].call = "sent"
            /\ \A b \in net' : b.write = a.write => b = a
            /\ a.state = "ok" \/ a.write \notin record'
      BY <2>1, <2>2, <2>3, <2>6, <2>7 DEF IInv, Calling
    <3>5. /\ \A a \in net' : a.by = "flush" =>
               /\ flush'.on /\ a.write \in flush'.todo
               /\ \A b \in net' : b.by = "flush" => b = a
          /\ flush'.todo \subseteq outbox'
      BY <1>1, <1>3, <2>1, <2>7 DEF IInv, Calling
    <3>. QED
      BY <3>1, <3>2, <3>3, <3>4, <3>5 DEF Calling
  <2>10. Ordered'
    <3>1. \A x \in Write : \A y \in behind[x] : y \in Write
      BY <1>1 DEF TypeOK
    <3>2. \A a \in net' : behind'[a.write] \subseteq record'
      BY <1>3, <2>1, <2>3, <2>6, <2>7 DEF IInv, Ordered
    <3>. QED
      BY <1>1, <1>3, <2>2, <2>3, <3>1, <3>2 DEF IInv, Ordered, QueuedInOrder
  <2>. QED
    BY <1>1, <2>3, <2>4, <2>5, <2>8, <2>9, <2>10, QuietServing, QuietAdvancing, SameStream,
       SameEvents DEF IInv
<1>. QED
  BY <1>2, <1>3 DEF Proceed

-----------------------------------------------------------------------------
(* The flush. *)

LEMMA FlushSendKeeps ==
  ASSUME IInv, FlushSend
  PROVE  IInv'
<1>. DEFINE w == First(flush.todo)
            new == Attempt(w, "flush", "request")
<1>1. /\ TypeOK /\ flush.on /\ flush.todo # {} /\ flush.todo \subseteq outbox
      /\ \A a \in net : a.by # "flush"
      /\ net' = net \cup {new}
      /\ UNCHANGED <<client, server, streamVars, faults>>
  BY DEF FlushSend, IInv, Calling
<1>2. UNCHANGED <<write, launch, seen, clock, outbox, place, flush, behind,
                  record, run, cursor, drawn, late, stream, wire, durable, shown>>
  BY <1>1 DEF client, server, streamVars
<1>3. /\ w \in flush.todo /\ w \in Write
      /\ \A x \in flush.todo : place[w].created <= place[x].created
  <2>1. flush.todo \in SUBSET Write
    BY <1>1, Typed
  <2>2. \A x, y \in flush.todo : place[x].id = place[y].id => x = y
    BY <1>1 DEF IInv, Ordered
  <2>. QED
    BY <1>1, <2>1, <2>2, Typed, FirstOfRows
<1>4. write[w].told = "queued" /\ write[w].call = "over"
  BY <1>1, <1>3 DEF IInv, Calling
<1>. HIDE DEF w
<1>5. new \in AttemptRow /\ new.write = w /\ new.by = "flush" /\ new.state = "request"
  BY <1>3 DEF Attempt, AttemptRow
<1>6. \A a \in net' : a = new \/ (a \in net /\ a.by # "flush")
  BY <1>1
<1>7. TypeOK'
  <2>1. net' \in SUBSET AttemptRow
    BY <1>1, <1>5, Typed
  <2>. QED
    BY <1>1, <1>2, <2>1 DEF TypeOK, AttemptRow
<1>8. Bounds'
  BY <1>1, <1>2, <1>7, SameBounds, Typed DEF IInv
<1>9. QuietStep
  <2>1. \A a \in net' : /\ write[a.write].call # "new"
                        /\ a.state = "ok" => a.write \in record
                        /\ Runs(a) => a \in net
    BY <1>4, <1>5, <1>6 DEF IInv, Serving, Runs
  <2>2. \A a, b \in net' : Runs(a) /\ Runs(b) /\ a.write = b.write => a = b
    BY <2>1 DEF IInv, Serving, Runs
  <2>3. \A b \in net : b \in net'
    BY <1>1
  <2>. QED
    BY <1>2, <2>1, <2>2, <2>3 DEF QuietStep
<1>10. Calling'
  <2>1. \A x \in Write : write'[x].call \in {"new", "waiting"} =>
          x \notin outbox' \cup record' /\ \A a \in net' : a.write # x
    BY <1>2, <1>4, <1>5, <1>6 DEF IInv, Calling
  <2>2. /\ \A x \in Write : write'[x].call # "over" => write'[x].told = "nothing"
        /\ \A x \in outbox' : write'[x].told = "queued"
        /\ \A x \in Write : write'[x].told = "failed" => \A a \in net' : a.write # x
        /\ ToldIsTrue'
    BY <1>2, <1>4, <1>5, <1>6 DEF IInv, Calling, ToldIsTrue
  <2>3. \A a \in net' : a.by = "call" =>
          /\ write'[a.write].call = "sent"
          /\ \A b \in net' : b.write = a.write => b = a
          /\ a.state = "ok" \/ a.write \notin record'
    BY <1>2, <1>4, <1>5, <1>6 DEF IInv, Calling
  <2>4. /\ \A a \in net' : a.by = "flush" =>
             /\ flush'.on /\ a.write \in flush'.todo
             /\ \A b \in net' : b.by = "flush" => b = a
        /\ flush'.todo \subseteq outbox'
    BY <1>1, <1>2, <1>3, <1>5, <1>6
  <2>. QED
    BY <2>1, <2>2, <2>3, <2>4 DEF Calling
<1>11. Ordered'
  <2>1. behind[w] \subseteq record
    <3>. SUFFICES ASSUME NEW x \in behind[w], x \notin record PROVE FALSE
      OBVIOUS
    <3>1. /\ x \in outbox /\ x \in Write
          /\ place[x].created < place[w].created /\ x \in flush.todo
      BY <1>1, <1>3, Typed DEF IInv, Ordered
    <3>2. place[w].created <= place[x].created
      BY <1>3, <3>1
    <3>. QED
      BY <1>1, <1>3, <3>1, <3>2, Typed
  <2>2. \A a \in net' : behind[a.write] \subseteq record
    BY <1>5, <1>6, <2>1 DEF IInv, Ordered
  <2>. QED
    BY <1>2, <2>2 DEF IInv, Ordered, QueuedInOrder
<1>. QED
  BY <1>1, <1>2, <1>7, <1>8, <1>9, <1>10, <1>11, QuietServing, QuietAdvancing, SameStream,
     SameEvents DEF IInv

\* The attempt of a flush is answered or given up on: a row goes if it has its record, and the
\* flush is over or goes on with the others.
LEMMA FlushMoves ==
  ASSUME IInv, TypeOK', faults <= faults',
         UNCHANGED <<write, launch, seen, clock, place, behind, server, streamVars>>,
         outbox' \subseteq outbox, \A x \in outbox : x \in outbox' \/ x \in record,
         flush'.todo \subseteq flush.todo \cap outbox',
         flush'.todo = {} \/ \A x \in flush.todo : x \in outbox' => x \in flush'.todo,
         \A a \in net' : \/ a \in net /\ a.by # "flush"
                         \/ /\ a.by = "nobody" /\ a.state # "ok"
                            /\ \E b \in net : b.by = "flush" /\ b.write = a.write
                                            /\ b.state = a.state,
         \A b \in net : Runs(b) => \E a \in net' : Runs(a) /\ a.write = b.write,
         \A a, b \in net' : Runs(a) /\ Runs(b) /\ a.write = b.write => a = b
  PROVE  IInv'
<1>1. /\ TypeOK
      /\ UNCHANGED <<record, run, cursor, drawn, late, stream, wire, durable, shown>>
  BY DEF server, streamVars, IInv
<1>2. \A a \in net' : /\ a.write \in Write
                      /\ \E b \in net : b.write = a.write /\ (a.state = b.state)
                                      /\ (a.by # "nobody" => a = b)
                      /\ a.state = "ok" => a \in net
                      /\ a.by # "nobody" => a \in net
                      /\ a.by # "flush"
  BY <1>1, Typed
<1>3. Bounds'
  BY <1>1, SameBounds DEF IInv
<1>4. QuietStep
  <2>1. \A a \in net' : /\ write[a.write].call # "new"
                        /\ a.state = "ok" => a.write \in record
                        /\ Runs(a) => \E b \in net : Runs(b) /\ b.write = a.write
    BY <1>2 DEF IInv, Serving, Runs
  <2>. QED
    BY <1>1, <2>1 DEF QuietStep
<1>5. Calling'
  <2>1. \A x \in Write : write'[x].call \in {"new", "waiting"} =>
          x \notin outbox' \cup record' /\ \A a \in net' : a.write # x
    <3>. SUFFICES ASSUME NEW x \in Write, write[x].call \in {"new", "waiting"}
                 PROVE  x \notin outbox' \cup record' /\ \A a \in net' : a.write # x
      OBVIOUS
    <3>1. x \notin outbox \cup record /\ \A a \in net : a.write # x
      BY DEF IInv, Calling
    <3>. QED
      BY <1>1, <1>2, <3>1
  <2>2. /\ \A x \in Write : write'[x].call # "over" => write'[x].told = "nothing"
        /\ \A x \in outbox' : write'[x].told = "queued"
    BY DEF IInv, Calling
  <2>3. \A x \in Write : write'[x].told = "failed" => \A a \in net' : a.write # x
    BY <1>2 DEF IInv, Calling
  <2>4. ToldIsTrue'
    BY <1>1 DEF IInv, Calling, ToldIsTrue
  <2>5. \A a \in net' : a.by = "call" =>
          /\ write'[a.write].call = "sent"
          /\ \A b \in net' : b.write = a.write => b = a
          /\ a.state = "ok" \/ a.write \notin record'
    <3>. SUFFICES ASSUME NEW a \in net', a.by = "call"
                 PROVE  /\ write[a.write].call = "sent"
                        /\ \A b \in net' : b.write = a.write => b = a
                        /\ a.state = "ok" \/ a.write \notin record
      BY <1>1
    <3>1. a \in net
      BY <1>2
    <3>2. /\ write[a.write].call = "sent"
          /\ \A b \in net : b.write = a.write => b = a
          /\ a.state = "ok" \/ a.write \notin record
      BY <3>1 DEF IInv, Calling
    <3>3. ASSUME NEW b \in net', b.write = a.write PROVE b = a
      <4>1. CASE b \in net
        BY <3>2, <3>3, <4>1
      <4>2. CASE \E c \in net : c.by = "flush" /\ c.write = b.write
        BY <3>2, <3>3, <4>2
      <4>. QED
        BY <4>1, <4>2
    <3>. QED
      BY <3>2, <3>3
  <2>6. flush'.todo \subseteq outbox' /\ \A a \in net' : a.by # "flush"
    BY <1>2
  <2>. QED
    BY <2>1, <2>2, <2>3, <2>4, <2>5, <2>6 DEF Calling
<1>6. Ordered'
  <2>1. \A x \in Write : \A y \in behind[x] :
          /\ y \in outbox' \cup record /\ write[y].told = "queued"
          /\ y \in outbox' => place[y].created < place[x].created
          /\ x \in flush'.todo /\ y \in outbox' => y \in flush'.todo
    <3>. SUFFICES ASSUME NEW x \in Write, NEW y \in behind[x]
                 PROVE  /\ y \in outbox' \cup record /\ write[y].told = "queued"
                        /\ y \in outbox' => place[y].created < place[x].created
                        /\ x \in flush'.todo /\ y \in outbox' => y \in flush'.todo
      OBVIOUS
    <3>1. /\ y \in outbox \cup record /\ write[y].told = "queued"
          /\ y \in outbox => place[y].created < place[x].created
          /\ x \in flush.todo /\ y \in outbox => y \in flush.todo
      BY DEF IInv, Ordered
    <3>. QED
      BY <3>1
  <2>2. \A a \in net' : behind[a.write] \subseteq record
    BY <1>2 DEF IInv, Ordered
  <2>3. \A x, y \in outbox' : place[x].id = place[y].id => x = y
    BY DEF IInv, Ordered
  <2>. QED
    BY <1>1, <2>1, <2>2, <2>3 DEF IInv, Ordered, QueuedInOrder
<1>. QED
  BY <1>1, <1>3, <1>4, <1>5, <1>6, QuietServing, QuietAdvancing, SameStream, SameEvents DEF IInv

LEMMA FlushAnsweredKeeps ==
  ASSUME IInv, NEW w \in Write, FlushAnswered(w)
  PROVE  IInv'
<1>1. /\ TypeOK
      /\ UNCHANGED <<write, launch, seen, clock, place, behind, server, streamVars, faults>>
      /\ UNCHANGED <<record, run, cursor, drawn, late, stream, wire, durable, shown>>
      /\ faults \in Nat
  BY Typed DEF FlushAnswered, server, streamVars, IInv
<1>2. PICK state \in {"ok", "error"} :
        /\ Attempt(w, "flush", state) \in net
        /\ net' = net \ {Attempt(w, "flush", state)}
        /\ outbox' = IF state = "ok" THEN outbox \ {w} ELSE outbox
        /\ flush' = IF state = "ok" /\ flush.todo # {w} THEN [flush EXCEPT !.todo = @ \ {w}]
                    ELSE NoFlush
  BY DEF FlushAnswered
<1>. DEFINE a == Attempt(w, "flush", state)
<1>3. a \in net /\ a.write = w /\ a.by = "flush" /\ a.state = state
  BY <1>2 DEF Attempt
<1>4. /\ w \in flush.todo /\ flush.todo \subseteq outbox /\ \A b \in net : b.by = "flush" => b = a
      /\ state = "ok" => w \in record
  BY <1>3 DEF IInv, Calling, Serving
<1>5. net' = net \ {a} /\ \A b \in net' : b \in net /\ b.by # "flush"
  BY <1>2, <1>4
<1>6. /\ flush' \in [on : BOOLEAN, todo : SUBSET Write]
      /\ \/ flush'.todo = {}
         \/ flush'.todo = flush.todo \ {w} /\ state = "ok"
  BY <1>1, <1>2 DEF TypeOK, NoFlush
<1>7. outbox' \subseteq outbox /\ outbox \ {w} \subseteq outbox' /\ (w \in outbox' \/ w \in record)
      /\ (state = "ok" => w \notin outbox')
  BY <1>2, <1>4
<1>8. TypeOK'
  BY <1>1, <1>5, <1>6, <1>7 DEF TypeOK
<1>9. /\ flush'.todo \subseteq flush.todo \cap outbox'
      /\ flush'.todo = {} \/ \A x \in flush.todo : x \in outbox' => x \in flush'.todo
  BY <1>4, <1>6, <1>7
<1>10. /\ \A b \in net : Runs(b) => \E c \in net' : Runs(c) /\ c.write = b.write
       /\ \A b, c \in net' : Runs(b) /\ Runs(c) /\ b.write = c.write => b = c
  <2>1. \A b \in net : Runs(b) => b \in net'
    BY <1>3, <1>5 DEF Runs
  <2>2. \A b, c \in net : Runs(b) /\ Runs(c) /\ b.write = c.write => b = c
    BY DEF IInv, Serving, Runs
  <2>. QED
    BY <1>5, <2>1, <2>2
<1>11. faults <= faults' /\ \A x \in outbox : x \in outbox' \/ x \in record
  BY <1>1, <1>7
<1>. QED
  BY <1>1, <1>5, <1>7, <1>8, <1>9, <1>10, <1>11, FlushMoves

LEMMA FlushFailsKeeps ==
  ASSUME IInv, NEW w \in Write, FlushFails(w)
  PROVE  IInv'
<1>1. /\ TypeOK /\ faults < MaxFault /\ faults' = faults + 1 /\ flush' = NoFlush
      /\ Abandoned(w, "flush")
      /\ UNCHANGED <<write, launch, seen, clock, outbox, place, behind, server, streamVars>>
      /\ UNCHANGED <<record, run, cursor, drawn, late, stream, wire, durable, shown>>
  BY DEF FlushFails, Fault, server, streamVars, IInv
<1>2. \A b \in net : b.by = "flush" => b.write = w
  <2>1. PICK a \in net : a.write = w /\ a.by = "flush"
    BY DEF FlushFails
  <2>. QED
    BY <2>1 DEF IInv, Calling
<1>3. /\ net' \in SUBSET AttemptRow
      /\ \A a \in net' : \/ a \in net /\ ~(a.write = w /\ a.by = "flush")
                         \/ /\ a.write = w /\ a.by = "nobody"
                            /\ a.state \in {"request", "running"}
                            /\ \E b \in net : b.write = w /\ b.by = "flush" /\ b.state = a.state
      /\ \A b \in net : Runs(b) => \E a \in net' : Runs(a) /\ a.write = b.write
      /\ \A a, b \in net' : Runs(a) /\ Runs(b) /\ a.write = b.write => a = b
  BY <1>1, AbandonedNet
<1>4. \A a \in net' : \/ a \in net /\ a.by # "flush"
                      \/ /\ a.by = "nobody" /\ a.state # "ok"
                         /\ \E b \in net : b.by = "flush" /\ b.write = a.write
                                         /\ b.state = a.state
  BY <1>2, <1>3
<1>5. faults <= faults' /\ faults' \in 0 .. MaxFault
  BY <1>1, BoundAssumption DEF TypeOK
<1>6. flush'.todo = {} /\ flush' \in [on : BOOLEAN, todo : SUBSET Write]
  BY <1>1 DEF NoFlush
<1>7. TypeOK'
  BY <1>1, <1>3, <1>5, <1>6 DEF TypeOK, AttemptRow
<1>8. /\ outbox' \subseteq outbox /\ \A x \in outbox : x \in outbox' \/ x \in record
      /\ flush'.todo \subseteq flush.todo \cap outbox'
  BY <1>1, <1>6
<1>. QED
  BY <1>1, <1>3, <1>4, <1>5, <1>6, <1>7, <1>8, FlushMoves

LEMMA ClientRestartKeeps ==
  ASSUME IInv, ClientRestart
  PROVE  IInv'
<1>1. /\ TypeOK /\ faults < MaxFault /\ faults' = faults + 1 /\ flush' = NoFlush
      /\ write' = [w \in Write |-> IF write[w].call \in {"waiting", "sent"}
                                  THEN [write[w] EXCEPT !.call = "over"] ELSE write[w]]
      /\ launch' = [r \in Run |-> 3] /\ stream' = Closed(durable) /\ wire' = {}
      /\ UNCHANGED <<seen, clock, outbox, place, behind, durable, shown, record, run, cursor, drawn,
                     late>>
  BY DEF ClientRestart, Fault, server, IInv
<1>2. faults <= faults' /\ faults' \in 0 .. MaxFault
  BY <1>1, BoundAssumption DEF TypeOK
<1>3. /\ write' \in [Write -> WriteRow]
      /\ \A x \in Write : /\ write'[x].run = write[x].run
                          /\ write'[x].status = write[x].status
                          /\ write'[x].sequence = write[x].sequence
                          /\ write'[x].told = write[x].told
                          /\ write'[x].call = IF write[x].call \in {"waiting", "sent"} THEN "over"
                                             ELSE write[x].call
  <2>1. write \in [Write -> WriteRow]
    BY <1>1, Typed
  <2>2. \A x \in Write : [write[x] EXCEPT !.call = "over"] \in WriteRow
    BY <2>1 DEF WriteRow
  <2>3. write' \in [Write -> WriteRow]
    BY <1>1, <2>1, <2>2
  <2>. QED
    BY <1>1, <2>1, <2>3 DEF WriteRow
<1>4. net' = {Attempt(a.write, "nobody", a.state) : a \in
                {b \in net : b.state \in {"request", "running"}}}
  BY DEF ClientRestart
<1>5. /\ net' \in SUBSET AttemptRow
      /\ \A a \in net' : /\ a.write \in Write /\ a.by = "nobody" /\ a.state # "ok"
                         /\ a = Attempt(a.write, "nobody", a.state)
                         /\ \E b \in net : b.write = a.write /\ b.state = a.state
  <2>1. \A b \in net : /\ Attempt(b.write, "nobody", b.state) \in AttemptRow
                       /\ Attempt(b.write, "nobody", b.state).write = b.write
                       /\ Attempt(b.write, "nobody", b.state).by = "nobody"
                       /\ Attempt(b.write, "nobody", b.state).state = b.state
                       /\ b.write \in Write
    BY <1>1, Typed DEF Attempt, AttemptRow
  <2>. QED
    BY <1>4, <2>1
<1>6. TypeOK'
  <2>1. flush' \in [on : BOOLEAN, todo : SUBSET Write]
    BY <1>1 DEF NoFlush
  <2>2. launch' \in [Run -> 1 .. 3]
    BY <1>1
  <2>3. stream' \in [on : BOOLEAN, from : Cursor, at : Cursor, read : Cursor]
    BY <1>1 DEF Closed, TypeOK
  <2>. QED
    BY <1>1, <1>2, <1>3, <1>5, <2>1, <2>2, <2>3 DEF TypeOK, WriteRow, AttemptRow
<1>7. Bounds'
  <2>1. \A x \in Write : (write'[x].call = "new") <=> (write[x].call = "new")
    BY <1>3
  <2>. QED
    BY <1>1, <1>2, <1>3, <1>6, <2>1, SameBounds DEF IInv
<1>8. QuietStep
  <2>1. \A x \in Write : write[x].call # "new" => write'[x].call # "new"
    BY <1>3
  <2>2. \A a \in net' : /\ write'[a.write].call # "new" /\ a.state # "ok"
                        /\ Runs(a) => \E b \in net : Runs(b) /\ b.write = a.write
    BY <1>5, <2>1 DEF IInv, Serving, Runs
  <2>3. ASSUME NEW b \in net, Runs(b) PROVE \E a \in net' : Runs(a) /\ a.write = b.write
    <3>1. Attempt(b.write, "nobody", b.state) \in net'
      BY <1>4, <2>3 DEF Runs
    <3>2. /\ Runs(Attempt(b.write, "nobody", b.state))
          /\ Attempt(b.write, "nobody", b.state).write = b.write
      BY <2>3 DEF Runs, Attempt
    <3>. QED
      BY <3>1, <3>2
  <2>4. \A a, b \in net' : Runs(a) /\ Runs(b) /\ a.write = b.write => a = b
    BY <1>5 DEF Runs
  <2>. QED
    BY <1>1, <1>3, <2>1, <2>2, <2>3, <2>4 DEF QuietStep
<1>9. Calling'
  <2>1. \A x \in Write : write'[x].call \in {"new", "waiting"} =>
          x \notin outbox' \cup record' /\ \A a \in net' : a.write # x
    <3>. SUFFICES ASSUME NEW x \in Write, write'[x].call \in {"new", "waiting"}
                 PROVE  x \notin outbox \cup record /\ \A a \in net' : a.write # x
      BY <1>1
    <3>1. write[x].call \in {"new", "waiting"}
      BY <1>3
    <3>2. x \notin outbox \cup record /\ \A a \in net : a.write # x
      BY <3>1 DEF IInv, Calling
    <3>. QED
      BY <1>5, <3>2
  <2>2. /\ \A x \in Write : write'[x].call # "over" => write'[x].told = "nothing"
        /\ \A x \in outbox' : write'[x].told = "queued"
        /\ \A x \in Write : write'[x].told = "failed" => \A a \in net' : a.write # x
    BY <1>1, <1>3, <1>5, Typed DEF IInv, Calling
  <2>3. ToldIsTrue'
    BY <1>1, <1>3 DEF IInv, Calling, ToldIsTrue
  <2>4. (\A a \in net' : a.by = "nobody") /\ flush'.todo \subseteq outbox'
    BY <1>1, <1>5 DEF NoFlush
  <2>. QED
    BY <2>1, <2>2, <2>3, <2>4 DEF Calling
<1>10. Ordered'
  <2>1. \A x \in Write : \A y \in behind[x] : y \in Write
    BY <1>1, Typed DEF IInv, Ordered
  <2>2. flush'.todo = {}
    BY <1>1 DEF NoFlush
  <2>3. \A a \in net' : behind[a.write] \subseteq record
    BY <1>5 DEF IInv, Ordered
  <2>. QED
    BY <1>1, <1>3, <2>1, <2>2, <2>3 DEF IInv, Ordered, QueuedInOrder
<1>11. Streaming'
  <2>1. events' = events
    BY <1>1, SameEvents
  <2>2. stream'.from = durable /\ stream'.at = durable /\ stream'.read = durable
    BY <1>1 DEF Closed
  <2>3. durable \in Nat
    BY <1>1, Typed
  <2>. QED
    BY <1>1, <2>1, <2>2, <2>3 DEF IInv, Streaming, OnlyLateEventsSkipped
<1>. QED
  BY <1>6, <1>7, <1>8, <1>9, <1>10, <1>11, QuietServing, QuietAdvancing DEF IInv

-----------------------------------------------------------------------------
(* The API. *)

\* A request is answered, or taken up: the others stay.
LEMMA Responded ==
  ASSUME TypeOK, NEW a \in net, NEW state \in {"ok", "error"}, Respond(a, state)
  PROVE  /\ net' \in SUBSET AttemptRow
         /\ \A b \in net' : (b \in net /\ b # a) \/ b = [a EXCEPT !.state = state]
         /\ \A b \in net : b # a => b \in net'
<1>1. net \in SUBSET AttemptRow /\ [a EXCEPT !.state = state] \in AttemptRow
  BY Typed DEF AttemptRow
<1>. QED
  BY <1>1 DEF Respond

\* What the client may count on, when an attempt goes on.
LEMMA ServedCalls ==
  ASSUME IInv, TypeOK', NEW a \in net, NEW state \in {"running", "ok", "error"},
         \A b \in net' : (b \in net /\ b # a) \/ b = [a EXCEPT !.state = state],
         UNCHANGED <<write, outbox, flush, place, behind>>,
         record' = record \/ record' = record \cup {a.write},
         state # "ok" => record' = record /\ a.write \notin record
  PROVE  Calling' /\ Ordered'
<1>. DEFINE new == [a EXCEPT !.state = state]
<1>1. TypeOK /\ a.write \in Write /\ new.write = a.write /\ new.by = a.by /\ new.state = state
  BY Typed DEF IInv, AttemptRow
<1>2. /\ write[a.write].call \notin {"new", "waiting"} /\ write[a.write].told # "failed"
      /\ behind[a.write] \subseteq record
  BY <1>1 DEF IInv, Calling, Ordered
<1>3. \A b \in net' : b = new \/ (b \in net /\ b # a)
  OBVIOUS
<1>. HIDE DEF new
<1>4. Calling'
  <2>1. \A x \in Write : write'[x].call \in {"new", "waiting"} =>
          x \notin outbox' \cup record' /\ \A b \in net' : b.write # x
    BY <1>1, <1>2, <1>3 DEF IInv, Calling
  <2>2. /\ \A x \in Write : write'[x].call # "over" => write'[x].told = "nothing"
        /\ \A x \in outbox' : write'[x].told = "queued"
    BY DEF IInv, Calling
  <2>3. \A x \in Write : write'[x].told = "failed" => \A b \in net' : b.write # x
    BY <1>1, <1>2, <1>3 DEF IInv, Calling
  <2>4. ToldIsTrue'
    BY <1>1, <1>2 DEF IInv, Calling, ToldIsTrue
  <2>5. \A b \in net' : b.by = "call" =>
          /\ write'[b.write].call = "sent"
          /\ \A c \in net' : c.write = b.write => c = b
          /\ b.state = "ok" \/ b.write \notin record'
    <3>. SUFFICES ASSUME NEW b \in net', b.by = "call"
                 PROVE  /\ write[b.write].call = "sent"
                        /\ \A c \in net' : c.write = b.write => c = b
                        /\ b.state = "ok" \/ b.write \notin record'
      OBVIOUS
    <3>1. CASE b = new
      BY <1>1, <1>3, <3>1 DEF IInv, Calling
    <3>2. CASE b \in net /\ b # a
      <4>1. b.write # a.write
        BY <3>2 DEF IInv, Calling
      <4>. QED
        BY <1>1, <1>3, <3>2, <4>1 DEF IInv, Calling
    <3>. QED
      BY <1>3, <3>1, <3>2
  <2>6. \A b \in net' : b.by = "flush" =>
             /\ flush'.on /\ b.write \in flush'.todo
             /\ \A c \in net' : c.by = "flush" => c = b
    <3>. SUFFICES ASSUME NEW b \in net', b.by = "flush"
                 PROVE  /\ flush.on /\ b.write \in flush.todo
                        /\ \A c \in net' : c.by = "flush" => c = b
      OBVIOUS
    <3>1. CASE b = new
      BY <1>1, <1>3, <3>1 DEF IInv, Calling
    <3>2. CASE b \in net /\ b # a
      <4>1. a.by # "flush"
        BY <3>2 DEF IInv, Calling
      <4>. QED
        BY <1>1, <1>3, <3>2, <4>1 DEF IInv, Calling
    <3>. QED
      BY <1>3, <3>1, <3>2
  <2>7. flush'.todo \subseteq outbox'
    BY DEF IInv, Calling
  <2>. QED
    BY <2>1, <2>2, <2>3, <2>4, <2>5, <2>6, <2>7 DEF Calling
<1>5. Ordered'
  <2>1. \A b \in net' : behind[b.write] \subseteq record
    BY <1>1, <1>2, <1>3 DEF IInv, Ordered
  <2>2. QueuedInOrder'
    BY <1>1, <1>2 DEF IInv, Ordered, QueuedInOrder
  <2>3. \A x \in Write : \A y \in behind[x] :
          /\ y \in outbox \cup record' /\ write[y].told = "queued"
          /\ y \in outbox => place[y].created < place[x].created
          /\ x \in flush.todo /\ y \in outbox => y \in flush.todo
    BY DEF IInv, Ordered
  <2>. QED
    BY <2>1, <2>2, <2>3 DEF IInv, Ordered
<1>. QED
  BY <1>4, <1>5

\* An attempt is answered without applying anything.
LEMMA AnswersKeep ==
  ASSUME IInv, NEW a \in net, Replay(a) \/ IgnoreStale(a) \/ Refuse(a)
  PROVE  IInv'
<1>1. /\ TypeOK /\ a.state = "request" /\ Locks(a.write) = {} /\ a.write \in Write
      /\ UNCHANGED <<client, run, cursor, drawn, late, streamVars, faults>>
      /\ UNCHANGED <<write, launch, seen, clock, outbox, place, flush, behind,
                     stream, wire, durable, shown>>
  BY Typed DEF Replay, IgnoreStale, Refuse, Execute, Receive, server, client, streamVars, IInv
<1>2. PICK state \in {"ok", "error"} :
        /\ Respond(a, state)
        /\ record' = IF state = "ok" THEN record \cup {a.write} ELSE record
        /\ state = "error" => a.write \notin record
  BY DEF Replay, IgnoreStale, Refuse, Execute, server
<1>3. /\ net' \in SUBSET AttemptRow
      /\ \A b \in net' : (b \in net /\ b # a) \/ b = [a EXCEPT !.state = state]
      /\ \A b \in net : b # a => b \in net'
  BY <1>1, <1>2, Responded
<1>4. /\ [a EXCEPT !.state = state].state = state
      /\ [a EXCEPT !.state = state].write = a.write
  BY <1>1, Typed DEF AttemptRow
<1>5. a.write \notin record => cursor[a.write] = 0
  <2>1. \A b \in net : Runs(b) => b.write # a.write
    BY <1>1 DEF Locks, Running, Runs
  <2>. QED
    BY <1>1, <2>1, Typed DEF IInv, Serving, Runs
<1>6. TypeOK'
  BY <1>1, <1>2, <1>3 DEF TypeOK, AttemptRow
<1>7. Bounds'
  BY <1>1, <1>6, SameBounds, Typed DEF IInv
<1>8. QuietStep
  <2>1. /\ write[a.write].call # "new" /\ \A b \in net : Runs(b) => b.write # a.write
    BY <1>1 DEF IInv, Serving, Locks, Running, Runs
  <2>2. \A b \in net' : /\ write[b.write].call # "new"
                        /\ b.state = "ok" => b.write \in record'
                        /\ Runs(b) => b \in net
    BY <1>2, <1>3, <1>4, <2>1 DEF IInv, Serving, Runs
  <2>3. \A b \in net : Runs(b) => b \in net'
    BY <1>1, <1>3 DEF Runs
  <2>4. \A b, c \in net' : Runs(b) /\ Runs(c) /\ b.write = c.write => b = c
    BY <2>2 DEF IInv, Serving, Runs
  <2>. QED
    BY <1>1, <1>2, <1>5, <2>1, <2>2, <2>3, <2>4 DEF QuietStep
<1>9. Calling' /\ Ordered'
  BY <1>1, <1>2, <1>3, <1>6, ServedCalls
<1>10. Streaming'
  <2>1. events' = events
    BY <1>1, <1>2, <1>5 DEF events
  <2>. QED
    BY <1>1, <2>1, SameStream DEF IInv
<1>. QED
  BY <1>6, <1>7, <1>8, <1>9, <1>10, QuietServing, QuietAdvancing DEF IInv

\* A transaction draws the cursor of its event: it is beyond all others, and its run is its own.
LEMMA ApplyKeeps ==
  ASSUME IInv, NEW a \in net, Apply(a)
  PROVE  IInv'
<1>. DEFINE w == a.write
            new == [a EXCEPT !.state = "running"]
<1>1. /\ TypeOK /\ a.state = "request" /\ w \in Write /\ w \notin record
      /\ drawn' = drawn + 1 /\ cursor' = [cursor EXCEPT ![w] = drawn + 1]
      /\ net' = (net \ {a}) \cup {new}
      /\ write[w].sequence > run[write[w].run].sequence
      /\ UNCHANGED <<write, launch, seen, clock, outbox, place, flush, behind, record, run, late,
                     stream, wire, durable, shown, faults>>
  BY Typed DEF Apply, Execute, Receive, Stale, client, streamVars, IInv
<1>2. new \in AttemptRow /\ new.write = w /\ Runs(new)
  BY <1>1, Typed DEF AttemptRow, Runs
<1>3. /\ \A b \in net' : (b \in net /\ b # a) \/ b = new
      /\ \A b \in net : Runs(b) => b \in net'
  BY <1>1 DEF Runs
<1>4. \A b \in net : Runs(b) => b.write # w /\ write[b.write].run # write[w].run
  BY DEF Apply, Execute, RowLocks, Running, Runs
<1>5. cursor[w] = 0
  BY <1>1, <1>4, Typed DEF IInv, Serving, Runs
<1>6. /\ cursor'[w] = drawn + 1 /\ drawn \in Nat
      /\ \A x \in Write \ {w} : cursor'[x] = cursor[x]
      /\ \A x \in Write : cursor[x] \in Nat /\ cursor[x] <= drawn
      /\ \A x \in record : x \in Write \ {w}
  BY <1>1, Typed DEF TypeOK, IInv, Serving
<1>. HIDE DEF new
<1>7. Bounds' /\ drawn + 1 \in Cursor
  <2>1. Marked' = Marked \cup {w} /\ w \notin Marked /\ Marked \in SUBSET Write
    <3>1. \A x \in Write : cursor'[x] > 0 <=> (cursor[x] > 0 \/ x = w)
      BY <1>6
    <3>. QED
      BY <1>1, <1>5, <3>1 DEF Marked
  <2>2. Marked' \in SUBSET Write
    BY <1>1, <2>1
  <2>3. /\ Cardinality(Marked) \in Nat /\ Cardinality(Marked') = Cardinality(Marked) + 1
        /\ Cardinality(Marked') <= Cardinality(Write)
    <3>1. IsFiniteSet(Marked) /\ Cardinality(Marked') <= Cardinality(Write)
      BY <2>1, <2>2, SetsAssumption, FS_Subset
    <3>. QED
      BY <2>1, <3>1, FS_AddElement, FS_CardinalityType
  <2>4. drawn' <= Cardinality(Marked') + faults'
    BY <1>1, <1>6, <2>3, Typed DEF IInv, Bounds
  <2>5. Made' = Made
    BY <1>1 DEF Made
  <2>6. Bounds'
    BY <1>1, <2>4, <2>5 DEF IInv, Bounds
  <2>7. drawn + 1 \in Cursor
    BY <1>1, <1>6, <2>3, <2>4, Typed, BoundAssumption DEF Cursor, TypeOK
  <2>. QED
    BY <2>6, <2>7
<1>8. TypeOK'
  <2>1. net' \in SUBSET AttemptRow
    BY <1>1, <1>2, Typed
  <2>2. cursor' \in [Write -> Cursor]
    BY <1>1, <1>7 DEF TypeOK
  <2>. QED
    BY <1>1, <1>7, <2>1, <2>2 DEF TypeOK, AttemptRow
<1>9. Serving'
  <2>1. \A b \in net' : write'[b.write].call # "new" /\ (b.state = "ok" => b.write \in record')
    BY <1>1, <1>2, <1>3 DEF IInv, Serving, Runs
  <2>2. \A b \in net' : Runs(b) => b.write \notin record' /\ cursor'[b.write] > 0
    BY <1>1, <1>2, <1>3, <1>4, <1>6, Typed DEF IInv, Serving, Runs
  <2>3. \A b, c \in net' : Runs(b) /\ Runs(c) /\ write'[b.write].run = write'[c.write].run => b = c
    BY <1>1, <1>2, <1>3, <1>4 DEF IInv, Serving, Runs
  <2>4. \A x \in Write : cursor'[x] > 0 /\ x \notin record' =>
          \E b \in net' : b.write = x /\ Runs(b)
    <3>. SUFFICES ASSUME NEW x \in Write, cursor'[x] > 0, x \notin record
                 PROVE  \E b \in net' : b.write = x /\ Runs(b)
      BY <1>1
    <3>1. CASE x = w
      BY <1>1, <1>2, <3>1
    <3>2. CASE x # w
      BY <1>3, <1>6, <3>2 DEF IInv, Serving, Runs
    <3>. QED
      BY <3>1, <3>2
  <2>5. \A x, y \in Write : cursor'[x] > 0 /\ cursor'[x] = cursor'[y] => x = y
    <3>. SUFFICES ASSUME NEW x \in Write, NEW y \in Write, cursor'[x] > 0, cursor'[x] = cursor'[y]
                 PROVE  x = y
      OBVIOUS
    <3>1. CASE x # w /\ y # w
      BY <1>6, <3>1 DEF IInv, Serving
    <3>2. CASE x = w \/ y = w
      BY <1>6, <3>2
    <3>. QED
      BY <3>1, <3>2
  <2>6. \A x \in Write : cursor'[x] <= drawn'
    BY <1>1, <1>6
  <2>7. \A x \in record' : write'[x].call # "new"
    BY <1>1 DEF IInv, Serving
  <2>. QED
    BY <2>1, <2>2, <2>3, <2>4, <2>5, <2>6, <2>7 DEF Serving, Runs
<1>10. Advancing'
  <2>1. ASSUME NEW b \in net', Runs(b)
        PROVE  /\ run'[write'[b.write].run].sequence < write'[b.write].sequence
               /\ \A x \in record' : write'[x].run = write'[b.write].run
                                     => cursor'[x] < cursor'[b.write]
    <3>1. CASE b = new
      BY <1>1, <1>2, <1>6, <3>1, Typed
    <3>2. CASE b \in net
      <4>1. b.write \in Write \ {w}
        BY <1>1, <1>4, <2>1, <3>2, Typed
      <4>. QED
        BY <1>1, <1>6, <2>1, <3>2, <4>1 DEF IInv, Advancing, Runs
    <3>. QED
      BY <1>3, <2>1, <3>1, <3>2
  <2>2. \A x \in record' : cursor'[x] = cursor[x] /\ x \in record
    BY <1>1, <1>6
  <2>. QED
    BY <1>1, <2>1, <2>2 DEF IInv, Advancing, Runs
<1>11. Calling' /\ Ordered'
  BY <1>1, <1>3, <1>8, ServedCalls DEF new
<1>12. Streaming'
  <2>1. events' = events
    BY <1>1, <1>6 DEF events
  <2>. QED
    BY <1>1, <2>1, SameStream DEF IInv
<1>. QED
  BY <1>7, <1>8, <1>9, <1>10, <1>11, <1>12 DEF IInv

\* A transaction commits: its event is the last of its run, and its report what the run shows.
LEMMA CommitKeeps ==
  ASSUME IInv, NEW a \in net, Commit(a)
  PROVE  IInv'
<1>. DEFINE w == a.write
            r == write[w].run
            row == [status |-> write[w].status, sequence |-> write[w].sequence]
<1>1. /\ TypeOK /\ Runs(a) /\ w \in Write /\ record' = record \cup {w}
      /\ run' = [run EXCEPT ![r] = row] /\ Respond(a, "ok")
      /\ late' = IF cursor[w] < Greatest({stream.at, durable}) THEN late \cup {cursor[w]} ELSE late
      /\ UNCHANGED <<write, launch, seen, clock, outbox, place, flush, behind, cursor, drawn,
                     stream, wire, durable, shown, faults>>
  BY Typed DEF Commit, Running, Runs, client, streamVars, IInv
<1>2. /\ net' \in SUBSET AttemptRow
      /\ \A b \in net' : (b \in net /\ b # a) \/ b = [a EXCEPT !.state = "ok"]
      /\ \A b \in net : b # a => b \in net'
  BY <1>1, Responded
<1>3. /\ w \notin record /\ cursor[w] > 0 /\ run[r].sequence < write[w].sequence
      /\ \A x \in record : write[x].run = r => cursor[x] < cursor[w]
      /\ write[w].call # "new"
  BY <1>1 DEF IInv, Serving, Advancing, Runs
<1>4. \A b \in net : Runs(b) /\ b # a => write[b.write].run # r /\ b.write # w
  BY <1>1 DEF IInv, Serving, Runs
<1>5. /\ [a EXCEPT !.state = "ok"].state = "ok" /\ [a EXCEPT !.state = "ok"].write = w
      /\ \A b \in net' : Runs(b) => b \in net /\ b # a
  BY <1>1, <1>2, Typed DEF AttemptRow, Runs
<1>6. /\ r \in Run /\ row \in Row /\ run'[r] = row
      /\ \A q \in Run \ {r} : run'[q] = run[q]
      /\ \A x \in Write : write[x].run \in Run
      /\ \A x \in record : x \in Write
  BY <1>1, Typed DEF TypeOK, Row
<1>7. cursor[w] \in Cursor /\ \A x \in Write : cursor[x] \in Nat
  BY <1>1, Typed DEF TypeOK
<1>8. TypeOK'
  <2>1. run' \in [Run -> Row]
    BY <1>1, <1>6 DEF TypeOK
  <2>2. late' \in SUBSET Cursor
    BY <1>1, <1>7 DEF TypeOK
  <2>3. record' \in SUBSET Write
    BY <1>1 DEF TypeOK
  <2>. QED
    BY <1>1, <1>2, <2>1, <2>2, <2>3 DEF TypeOK, AttemptRow
<1>9. Bounds'
  <2>1. Made' = Made /\ Marked' = Marked
    BY <1>1 DEF Made, Marked
  <2>2. \A q \in Run : run'[q].sequence <= 2 + Cardinality(Made')
    <3>1. row.sequence <= 2 + Cardinality(Made)
      BY <1>1 DEF IInv, Bounds
    <3>2. \A q \in Run : run[q].sequence <= 2 + Cardinality(Made)
      BY DEF IInv, Bounds
    <3>. QED
      BY <1>6, <2>1, <3>1, <3>2
  <2>. QED
    BY <1>1, <2>1, <2>2 DEF IInv, Bounds
<1>10. Serving'
  <2>1. \A b \in net' : write'[b.write].call # "new" /\ (b.state = "ok" => b.write \in record')
    BY <1>1, <1>2, <1>3, <1>5 DEF IInv, Serving
  <2>2. \A b \in net' : Runs(b) => b.write \notin record' /\ cursor'[b.write] > 0
    BY <1>1, <1>4, <1>5 DEF IInv, Serving, Runs
  <2>3. \A b, c \in net' : Runs(b) /\ Runs(c) /\ write'[b.write].run = write'[c.write].run => b = c
    BY <1>1, <1>5 DEF IInv, Serving, Runs
  <2>4. ASSUME NEW x \in Write, cursor'[x] > 0, x \notin record'
        PROVE  \E b \in net' : b.write = x /\ Runs(b)
    BY <1>1, <1>2, <2>4 DEF IInv, Serving, Runs
  <2>5. /\ \A x, y \in Write : cursor'[x] > 0 /\ cursor'[x] = cursor'[y] => x = y
        /\ \A x \in Write : cursor'[x] <= drawn'
        /\ \A x \in record' : write'[x].call # "new"
    BY <1>1, <1>3 DEF IInv, Serving
  <2>. QED
    BY <2>1, <2>2, <2>3, <2>4, <2>5 DEF Serving, Runs
<1>11. Advancing'
  <2>1. ASSUME NEW b \in net', Runs(b)
        PROVE  /\ run'[write'[b.write].run].sequence < write'[b.write].sequence
               /\ \A x \in record' : write'[x].run = write'[b.write].run
                                     => cursor'[x] < cursor'[b.write]
    <3>1. b \in net /\ write[b.write].run # r /\ write[b.write].run \in Run
      BY <1>1, <1>4, <1>5, <1>6, <2>1, Typed
    <3>2. run'[write[b.write].run] = run[write[b.write].run]
      BY <1>6, <3>1
    <3>. QED
      BY <1>1, <2>1, <3>1, <3>2 DEF IInv, Advancing, Runs
  <2>2. ASSUME NEW x \in record', cursor[x] > 0
        PROVE  /\ write[x].sequence <= run'[write[x].run].sequence
               /\ \/ run'[write[x].run] = [status |-> write[x].status,
                                          sequence |-> write[x].sequence]
                  \/ \E y \in record' : write[y].run = write[x].run /\ cursor[y] > cursor[x]
    <3>1. CASE x = w
      BY <1>1, <1>6, <3>1, Typed
    <3>2. CASE x \in record /\ write[x].run # r
      <4>1. run'[write[x].run] = run[write[x].run]
        BY <1>6, <3>2
      <4>2. /\ write[x].sequence <= run[write[x].run].sequence
            /\ \/ run[write[x].run] = [status |-> write[x].status, sequence |-> write[x].sequence]
               \/ \E y \in record : write[y].run = write[x].run /\ cursor[y] > cursor[x]
        BY <2>2, <3>2 DEF IInv, Advancing
      <4>. QED
        BY <1>1, <4>1, <4>2
    <3>3. CASE x \in record /\ write[x].run = r
      <4>1. write[x].sequence <= run[r].sequence
        BY <2>2, <3>3 DEF IInv, Advancing
      <4>2. write[x].sequence \in Nat /\ run[r].sequence \in Nat /\ write[w].sequence \in Nat
        BY <1>1, <1>6, <3>3, Typed
      <4>3. write[x].sequence <= run'[r].sequence
        BY <1>3, <1>6, <4>1, <4>2
      <4>4. w \in record' /\ cursor[w] > cursor[x]
        BY <1>1, <1>3, <1>6, <1>7, <3>3
      <4>. QED
        BY <3>3, <4>3, <4>4
    <3>. QED
      BY <1>1, <3>1, <3>2, <3>3
  <2>3. ASSUME NEW x \in record', NEW y \in record', cursor[x] > 0, cursor[y] > cursor[x],
               write[x].run = write[y].run
        PROVE  write[x].sequence < write[y].sequence
    <3>1. CASE x \in record /\ y \in record
      BY <2>3, <3>1 DEF IInv, Advancing
    <3>2. CASE y = w /\ x \in record
      <4>1. write[x].sequence <= run[r].sequence
        BY <2>3, <3>2 DEF IInv, Advancing
      <4>2. write[x].sequence \in Nat /\ run[r].sequence \in Nat /\ write[w].sequence \in Nat
        BY <1>1, <1>6, <3>2, Typed
      <4>. QED
        BY <1>3, <3>2, <4>1, <4>2
    <3>3. CASE x = w
      <4>1. y \in record \cup {w} /\ (y \in record => cursor[y] < cursor[w])
        BY <1>1, <1>3, <2>3, <3>3
      <4>2. cursor[y] \in Nat /\ cursor[w] \in Nat
        BY <1>1, <1>6, <1>7, <4>1
      <4>. QED
        BY <2>3, <3>3, <4>1, <4>2
    <3>. QED
      BY <1>1, <3>1, <3>2, <3>3
  <2>. QED
    BY <1>1, <2>1, <2>2, <2>3 DEF Advancing, Runs
<1>12. Calling' /\ Ordered'
  BY <1>1, <1>2, <1>8, ServedCalls
<1>13. Streaming'
  <2>1. /\ \A e : e \in events' <=> (e \in events \/ e = cursor[w])
        /\ cursor[w] \notin events
    <3>1. cursor[w] # 0 /\ \A x \in record : cursor[x] # cursor[w]
      BY <1>1, <1>3, <1>6, <1>7 DEF IInv, Serving
    <3>. QED
      BY <1>1, <3>1 DEF events
  <2>2. stream.at \in Nat /\ durable \in Nat /\ cursor[w] \in Nat
    BY <1>1, <1>7, Typed
  <2>3. cursor[w] <= stream.at \/ cursor[w] <= durable => cursor[w] \in late'
    <3>1. cursor[w] # stream.at /\ cursor[w] # durable
      BY <1>3, <2>1, <2>2 DEF IInv, Streaming
    <3>2. Greatest({stream.at, durable}) = IF stream.at < durable THEN durable ELSE stream.at
      BY <2>2, GreatestOfTwo
    <3>. QED
      BY <1>1, <2>2, <3>1, <3>2
  <2>4. late \subseteq late'
    BY <1>1
  <2>5. \A e \in events' : e <= stream'.at => e \in shown' \cup late' \cup wire'
    BY <1>1, <2>1, <2>3, <2>4 DEF IInv, Streaming
  <2>6. OnlyLateEventsSkipped'
    BY <1>1, <2>1, <2>3, <2>4 DEF IInv, Streaming, OnlyLateEventsSkipped
  <2>. QED
    BY <1>1, <2>1, <2>5, <2>6 DEF IInv, Streaming
<1>. QED
  BY <1>8, <1>9, <1>10, <1>11, <1>12, <1>13 DEF IInv

\* A transaction is rolled back: its cursor is no event's.
LEMMA AbortKeeps ==
  ASSUME IInv, NEW a \in net, Abort(a)
  PROVE  IInv'
<1>. DEFINE w == a.write
<1>1. /\ TypeOK /\ Runs(a) /\ w \in Write /\ faults < MaxFault /\ faults' = faults + 1
      /\ cursor' = [cursor EXCEPT ![w] = 0] /\ Respond(a, "error")
      /\ UNCHANGED <<write, launch, seen, clock, outbox, place, flush, behind, record, run, drawn,
                     late, stream, wire, durable, shown>>
  BY Typed DEF Abort, Fault, Running, Runs, client, streamVars, IInv
<1>2. /\ net' \in SUBSET AttemptRow
      /\ \A b \in net' : (b \in net /\ b # a) \/ b = [a EXCEPT !.state = "error"]
      /\ \A b \in net : b # a => b \in net'
  BY <1>1, Responded
<1>3. w \notin record /\ cursor[w] > 0 /\ write[w].call # "new"
  BY <1>1 DEF IInv, Serving, Runs
<1>4. \A b \in net : Runs(b) /\ b # a => write[b.write].run # write[w].run /\ b.write # w
  BY <1>1 DEF IInv, Serving, Runs
<1>5. /\ [a EXCEPT !.state = "error"].state = "error" /\ [a EXCEPT !.state = "error"].write = w
      /\ \A b \in net' : Runs(b) => b \in net /\ b # a
  BY <1>1, <1>2, Typed DEF AttemptRow, Runs
<1>6. /\ cursor'[w] = 0 /\ \A x \in Write \ {w} : cursor'[x] = cursor[x]
      /\ \A x \in record : x \in Write \ {w}
  BY <1>1, <1>3 DEF TypeOK
<1>7. /\ faults \in Nat /\ faults' \in 0 .. MaxFault /\ drawn \in Nat
      /\ \A x \in Write : cursor[x] \in Nat /\ cursor'[x] \in Nat
  BY <1>1, <1>6, Typed, BoundAssumption DEF TypeOK
<1>8. TypeOK'
  <2>1. 0 \in Cursor
    BY <1>1, Typed, BoundAssumption DEF Cursor
  <2>2. cursor' \in [Write -> Cursor]
    BY <1>1, <2>1 DEF TypeOK
  <2>. QED
    BY <1>1, <1>2, <1>7, <2>2 DEF TypeOK, AttemptRow
<1>9. Bounds'
  <2>1. Marked' = Marked \ {w} /\ w \in Marked /\ Marked \in SUBSET Write
    <3>1. \A x \in Write : cursor'[x] > 0 <=> (cursor[x] > 0 /\ x # w)
      BY <1>6
    <3>. QED
      BY <1>1, <1>3, <3>1 DEF Marked
  <2>2. /\ Cardinality(Marked) \in Nat /\ Cardinality(Marked') = Cardinality(Marked) - 1
    <3>1. IsFiniteSet(Marked)
      BY <2>1, SetsAssumption, FS_Subset
    <3>. QED
      BY <2>1, <3>1, FS_RemoveElement, FS_CardinalityType
  <2>3. drawn' <= Cardinality(Marked') + faults'
    BY <1>1, <1>7, <2>2 DEF IInv, Bounds
  <2>4. Made' = Made
    BY <1>1 DEF Made
  <2>. QED
    BY <1>1, <2>3, <2>4 DEF IInv, Bounds
<1>10. Serving'
  <2>1. \A b \in net' : write'[b.write].call # "new" /\ (b.state = "ok" => b.write \in record')
    BY <1>1, <1>2, <1>3, <1>5 DEF IInv, Serving
  <2>2. \A b \in net' : Runs(b) => b.write \notin record' /\ cursor'[b.write] > 0
    BY <1>1, <1>4, <1>5, <1>6, Typed DEF IInv, Serving, Runs
  <2>3. \A b, c \in net' : Runs(b) /\ Runs(c) /\ write'[b.write].run = write'[c.write].run => b = c
    BY <1>1, <1>5 DEF IInv, Serving, Runs
  <2>4. ASSUME NEW x \in Write, cursor'[x] > 0, x \notin record'
        PROVE  \E b \in net' : b.write = x /\ Runs(b)
    <3>1. x # w /\ cursor[x] > 0
      BY <1>6, <2>4
    <3>. QED
      BY <1>1, <1>2, <2>4, <3>1 DEF IInv, Serving, Runs
  <2>5. /\ \A x, y \in Write : cursor'[x] > 0 /\ cursor'[x] = cursor'[y] => x = y
        /\ \A x \in Write : cursor'[x] <= drawn'
        /\ \A x \in record' : write'[x].call # "new"
    BY <1>1, <1>6, <1>7 DEF IInv, Serving
  <2>. QED
    BY <2>1, <2>2, <2>3, <2>4, <2>5 DEF Serving, Runs
<1>11. Advancing'
  <2>1. \A b \in net' : Runs(b) => b \in net /\ cursor'[b.write] = cursor[b.write]
    BY <1>1, <1>4, <1>5, <1>6, Typed
  <2>2. \A x \in record : cursor'[x] = cursor[x]
    BY <1>6
  <2>. QED
    BY <1>1, <2>1, <2>2 DEF IInv, Advancing, Runs
<1>12. Calling' /\ Ordered'
  BY <1>1, <1>2, <1>3, <1>8, ServedCalls
<1>13. Streaming'
  <2>1. events' = events
    BY <1>1, <1>6 DEF events
  <2>. QED
    BY <1>1, <2>1, SameStream DEF IInv
<1>. QED
  BY <1>8, <1>9, <1>10, <1>11, <1>12, <1>13 DEF IInv

-----------------------------------------------------------------------------
(* The event stream. *)

\* A step of the stream leaves the client and the API as they are.
LEMMA StreamKeeps ==
  ASSUME IInv, UNCHANGED <<client, net, server>>, TypeOK', Streaming', faults <= faults'
  PROVE  IInv'
<1>1. UNCHANGED <<write, launch, seen, clock, outbox, place, flush, behind, net, record, run,
                  cursor, drawn, late>>
  BY DEF client, server
<1>2. Bounds'
  BY <1>1, SameBounds DEF IInv
<1>. QED
  BY <1>1, <1>2, SameServer, SameCalls, SameOrder DEF IInv

LEMMA ConnectKeeps ==
  ASSUME IInv, Connect
  PROVE  IInv'
<1>1. /\ TypeOK /\ stream' = [stream EXCEPT !.on = TRUE]
      /\ UNCHANGED <<client, net, server, wire, durable, shown, faults>>
  BY DEF Connect, IInv
<1>2. UNCHANGED <<write, launch, seen, clock, outbox, place, flush, behind, record, run, cursor,
                  drawn, late>>
  BY <1>1 DEF client, server
<1>3. TypeOK'
  BY <1>1, <1>2 DEF TypeOK
<1>4. /\ stream'.from = stream.from /\ stream'.read = stream.read /\ stream'.at = stream.at
      /\ faults \in Nat
  BY <1>1, Typed DEF TypeOK
<1>5. Streaming'
  BY <1>1, <1>2, <1>4, SameEvents DEF IInv, Streaming, OnlyLateEventsSkipped
<1>. QED
  BY <1>1, <1>3, <1>4, <1>5, StreamKeeps

LEMMA DrainKeeps ==
  ASSUME IInv, Drain
  PROVE  IInv'
<1>. DEFINE new == {e \in events : e > stream.at}
<1>1. /\ TypeOK /\ new # {} /\ wire' = wire \cup new
      /\ stream' = [stream EXCEPT !.at = Greatest(new)]
      /\ UNCHANGED <<client, net, server, durable, shown, faults>>
  BY DEF Drain, IInv
<1>2. UNCHANGED <<write, launch, seen, clock, outbox, place, flush, behind, record, run, cursor,
                  drawn, late>>
  BY <1>1 DEF client, server
<1>3. /\ events \subseteq Cursor /\ \A e \in events : e \in Nat
      /\ Cardinality(Write) + MaxFault \in Nat
  BY <1>1, Events, Typed, BoundAssumption DEF Cursor
<1>4. Greatest(new) \in new /\ \A e \in new : e <= Greatest(new)
  BY <1>1, <1>3, GreatestOfNaturals DEF Cursor
<1>5. /\ stream'.from = stream.from /\ stream'.read = stream.read /\ stream'.at = Greatest(new)
      /\ stream.from \in Nat /\ stream.read \in Nat /\ stream.at \in Nat /\ faults \in Nat
  BY <1>1, Typed DEF TypeOK
<1>6. Greatest(new) \in events /\ Greatest(new) \in Cursor /\ Greatest(new) > stream.at
  BY <1>3, <1>4
<1>7. TypeOK'
  <2>1. wire' \in SUBSET Cursor
    BY <1>1, <1>3 DEF TypeOK
  <2>2. stream' \in [on : BOOLEAN, from : Cursor, at : Cursor, read : Cursor]
    BY <1>1, <1>6 DEF TypeOK
  <2>. QED
    BY <1>1, <1>2, <2>1, <2>2 DEF TypeOK
<1>8. Streaming'
  <2>1. events' = events
    BY <1>2, SameEvents
  <2>2. \A e \in events : e <= stream'.at => e \in shown \cup late \cup wire'
    <3>. SUFFICES ASSUME NEW e \in events PROVE e <= stream.at \/ e \in new
      BY <1>1 DEF IInv, Streaming
    <3>. QED
      BY <1>3, <1>5
  <2>3. \A e \in wire' : stream'.read < e /\ e <= stream'.at /\ e \in events
    <3>. SUFFICES ASSUME NEW e \in wire' PROVE stream.read < e /\ e <= Greatest(new) /\ e \in events
      BY <1>5
    <3>1. CASE e \in wire
      <4>1. stream.read < e /\ e <= stream.at /\ e \in events
        BY <3>1 DEF IInv, Streaming
      <4>. QED
        BY <1>3, <1>5, <1>6, <4>1
    <3>2. CASE e \in new
      BY <1>3, <1>4, <1>5, <3>2 DEF IInv, Streaming
    <3>. QED
      BY <1>1, <3>1, <3>2
  <2>4. stream'.from <= stream'.read /\ stream'.read <= stream'.at
    BY <1>3, <1>5, <1>6 DEF IInv, Streaming
  <2>5. OnlyLateEventsSkipped'
    BY <1>1, <1>2, <2>1 DEF IInv, Streaming, OnlyLateEventsSkipped
  <2>. QED
    BY <1>1, <1>2, <1>5, <1>6, <2>1, <2>2, <2>3, <2>4, <2>5 DEF IInv, Streaming
<1>. QED
  BY <1>1, <1>5, <1>7, <1>8, StreamKeeps

LEMMA ReadEventKeeps ==
  ASSUME IInv, ReadEvent
  PROVE  IInv'
<1>. DEFINE e == Least(wire)
<1>1. /\ TypeOK /\ wire # {} /\ wire' = wire \ {e} /\ stream' = [stream EXCEPT !.read = e]
      /\ durable' = Greatest({durable, e}) /\ shown' = shown \cup {e}
      /\ UNCHANGED <<client, net, server, faults>>
  BY DEF ReadEvent, IInv
<1>2. UNCHANGED <<write, launch, seen, clock, outbox, place, flush, behind, record, run, cursor,
                  drawn, late>>
  BY <1>1 DEF client, server
<1>3. wire \subseteq events /\ events \subseteq Cursor /\ \A x \in events : x \in Nat
  BY <1>1, Events DEF Cursor, IInv, Streaming
<1>4. e \in wire /\ \A x \in wire : e <= x
  BY <1>1, <1>3, LeastOfNaturals
<1>5. /\ stream'.from = stream.from /\ stream'.read = e /\ stream'.at = stream.at
      /\ stream.from \in Nat /\ stream.read \in Nat /\ stream.at \in Nat
      /\ durable \in Nat /\ faults \in Nat
  BY <1>1, Typed DEF TypeOK
<1>6. e \in events /\ e \in Nat /\ e \in Cursor /\ stream.read < e /\ e <= stream.at
  BY <1>3, <1>4 DEF IInv, Streaming
<1>7. durable' = IF durable < e THEN e ELSE durable
  BY <1>1, <1>5, <1>6, GreatestOfTwo
<1>8. TypeOK'
  <2>1. stream' \in [on : BOOLEAN, from : Cursor, at : Cursor, read : Cursor]
    BY <1>1, <1>6 DEF TypeOK
  <2>2. durable' \in Cursor /\ shown' \in SUBSET Cursor /\ wire' \in SUBSET Cursor
    BY <1>1, <1>6, <1>7 DEF TypeOK
  <2>. QED
    BY <1>1, <1>2, <2>1, <2>2 DEF TypeOK
<1>9. Streaming'
  <2>1. events' = events
    BY <1>2, SameEvents
  <2>2. \A x \in events : x <= stream.at => x \in shown' \cup late \cup wire'
    BY <1>1 DEF IInv, Streaming
  <2>3. OnlyLateEventsSkipped'
    <3>. SUFFICES ASSUME NEW x \in events, x <= durable' PROVE x \in shown' \cup late
      BY <1>2, <2>1 DEF OnlyLateEventsSkipped
    <3>1. CASE x <= durable
      BY <1>1, <3>1 DEF IInv, Streaming, OnlyLateEventsSkipped
    <3>2. CASE ~(x <= durable)
      <4>1. x \in Nat /\ x <= e /\ x <= stream.at
        BY <1>3, <1>5, <1>6, <1>7, <3>2
      <4>2. x \in wire => x = e
        BY <1>4, <1>6, <4>1
      <4>. QED
        BY <1>1, <2>2, <4>1, <4>2
    <3>. QED
      BY <3>1, <3>2
  <2>4. \A x \in wire' : stream'.read < x /\ x <= stream'.at /\ x \in events
    <3>. SUFFICES ASSUME NEW x \in wire, x # e PROVE e < x /\ x <= stream.at /\ x \in events
      BY <1>1, <1>5
    <3>. QED
      BY <1>3, <1>4, <1>6 DEF IInv, Streaming
  <2>5. stream'.from <= stream'.read /\ stream'.read <= stream'.at
    BY <1>5, <1>6 DEF IInv, Streaming
  <2>. QED
    BY <1>1, <1>2, <1>5, <1>6, <1>7, <2>1, <2>2, <2>3, <2>4, <2>5 DEF IInv, Streaming
<1>. QED
  BY <1>1, <1>5, <1>8, <1>9, StreamKeeps

LEMMA DisconnectKeeps ==
  ASSUME IInv, Disconnect
  PROVE  IInv'
<1>1. /\ TypeOK /\ faults < MaxFault /\ faults' = faults + 1 /\ wire' = {}
      /\ UNCHANGED <<client, net, server, durable, shown>>
  BY DEF Disconnect, Fault, IInv
<1>2. PICK from \in {stream.from, stream.read} : stream' = Closed(from)
  BY DEF Disconnect
<1>3. UNCHANGED <<write, launch, seen, clock, outbox, place, flush, behind, record, run, cursor,
                  drawn, late>>
  BY <1>1 DEF client, server
<1>4. /\ faults <= faults' /\ faults' \in 0 .. MaxFault
      /\ stream.from \in Nat /\ stream.read \in Nat /\ stream.at \in Nat
  BY <1>1, Typed, BoundAssumption DEF TypeOK
<1>5. from \in Cursor /\ stream' = [on |-> FALSE, from |-> from, at |-> from, read |-> from]
  BY <1>1, <1>2 DEF Closed, TypeOK
<1>6. TypeOK'
  <2>1. stream' \in [on : BOOLEAN, from : Cursor, at : Cursor, read : Cursor]
    BY <1>5
  <2>. QED
    BY <1>1, <1>3, <1>4, <2>1 DEF TypeOK
<1>7. Streaming'
  <2>1. events' = events /\ \A x \in events : x \in Nat
    BY <1>1, <1>3, SameEvents, Events
  <2>2. from \in Nat /\ from <= stream.read /\ from <= stream.at /\ from \in events \cup {0}
    BY <1>2, <1>4 DEF IInv, Streaming
  <2>3. \A x \in events : x <= from => x \in shown \cup late
    BY <1>4, <2>1, <2>2 DEF IInv, Streaming
  <2>4. OnlyLateEventsSkipped'
    BY <1>1, <1>3, <2>1 DEF IInv, Streaming, OnlyLateEventsSkipped
  <2>. QED
    BY <1>1, <1>3, <1>5, <2>1, <2>2, <2>3, <2>4 DEF IInv, Streaming
<1>. QED
  BY <1>1, <1>4, <1>6, <1>7, StreamKeeps

-----------------------------------------------------------------------------
(* The invariant. *)

LEMMA InitInvariant == ASSUME Init PROVE IInv
<1>1. Cardinality(Write) \in Nat /\ MaxFault \in Nat /\ MaxClock \in Nat
  BY SetsAssumption, BoundAssumption, FS_CardinalityType
<1>2. \A w \in Write : 1 \in Rank
  <2>1. ASSUME NEW w \in Write PROVE 1 \in Rank
    <3>1. Cardinality(Write) # 0
      BY SetsAssumption, FS_EmptySet
    <3>. QED
      BY <1>1, <3>1 DEF Rank
  <2>. QED
    BY <2>1
<1>3. (CHOOSE r \in Run : TRUE) \in Run
  BY SetsAssumption
<1>4. Queued \in Row /\ Launched \in Row
  BY <1>1 DEF Queued, Launched, Row, Status
<1>5. /\ \A w \in Write : /\ write[w].call = "new" /\ write[w].told = "nothing"
                          /\ write[w].sequence = 0 /\ cursor[w] = 0 /\ behind[w] = {}
      /\ net = {} /\ record = {} /\ outbox = {} /\ flush = NoFlush /\ wire = {}
      /\ drawn = 0 /\ durable = 0 /\ stream = Closed(0)
  BY DEF Init
<1>6. events = {}
  BY <1>5 DEF events
<1>7. \A r \in Run : /\ run[r] \in Row /\ seen[r] \in Row
                     /\ run[r].sequence <= 2 /\ seen[r].sequence <= 2
  <2>1. \A r \in Run : run[r] \in {Queued, Launched} /\ seen[r] = run[r]
    BY DEF Init
  <2>. QED
    BY <1>4, <2>1 DEF Queued, Launched
<1>8. TypeOK
  <2>1. write \in [Write -> WriteRow]
    <3>1. [call |-> "new", run |-> CHOOSE r \in Run : TRUE, status |-> "queued", sequence |-> 0,
           told |-> "nothing"] \in WriteRow
      BY <1>1, <1>3 DEF WriteRow, Status
    <3>. QED
      BY <3>1 DEF Init
  <2>2. run \in [Run -> Row] /\ seen \in [Run -> Row]
    BY <1>4 DEF Init
  <2>3. launch \in [Run -> 1 .. 3]
    BY DEF Init
  <2>4. place \in [Write -> [created : 0 .. MaxClock, id : Rank]]
    BY <1>1, <1>2 DEF Init
  <2>5. 0 \in Cursor
    BY <1>1 DEF Cursor
  <2>6. /\ cursor \in [Write -> Cursor] /\ drawn \in Cursor /\ durable \in Cursor
        /\ stream \in [on : BOOLEAN, from : Cursor, at : Cursor, read : Cursor]
    BY <2>5 DEF Init, Closed
  <2>7. flush \in [on : BOOLEAN, todo : SUBSET Write]
    BY <1>5 DEF NoFlush
  <2>8. clock \in 0 .. MaxClock /\ faults \in 0 .. MaxFault /\ behind \in [Write -> SUBSET Write]
        /\ shown = {} /\ late = {}
    BY <1>1 DEF Init
  <2>. QED
    BY <1>5, <2>1, <2>2, <2>3, <2>4, <2>6, <2>7, <2>8 DEF TypeOK, WriteRow
<1>9. Bounds
  <2>1. Made \in SUBSET Write /\ Marked \in SUBSET Write
    BY DEF Made, Marked
  <2>2. Cardinality(Made) \in Nat /\ Cardinality(Marked) \in Nat
    BY <2>1, SetsAssumption, FS_Subset, FS_CardinalityType
  <2>3. \A r \in Run : run[r].sequence \in Nat /\ seen[r].sequence \in Nat
    BY <1>8, Typed
  <2>. QED
    BY <1>5, <1>7, <1>8, <2>2, <2>3, Typed DEF Bounds
<1>10. Serving /\ Advancing
  BY <1>5 DEF Serving, Advancing
<1>11. Calling /\ Ordered
  BY <1>5 DEF Calling, Ordered, NoFlush, ToldIsTrue, QueuedInOrder
<1>12. Streaming
  BY <1>5, <1>6 DEF Streaming, OnlyLateEventsSkipped, Closed
<1>. QED
  BY <1>8, <1>9, <1>10, <1>11, <1>12 DEF IInv

LEMMA StutterKeeps ==
  ASSUME IInv, UNCHANGED vars
  PROVE  IInv'
<1>1. UNCHANGED <<write, launch, seen, clock, outbox, place, flush, behind, net, record, run,
                  cursor, drawn, late, stream, wire, durable, shown, faults>>
  BY DEF vars, client, server, streamVars
<1>2. TypeOK' /\ Bounds'
  BY <1>1 DEF IInv, TypeOK, Bounds, Made, Marked
<1>. QED
  BY <1>1, <1>2, SameServer, SameCalls, SameOrder, SameStream, SameEvents DEF IInv

LEMMA NextKeeps ==
  ASSUME IInv, [Next]_vars
  PROVE  IInv'
<1>1. CASE Client
  <2>1. ASSUME NEW w \in Write, NEW r \in Run,
               \/ LinkAgentRun(w, r)
               \/ \E status \in {"working", "review"} : ReportStatus(w, r, status)
        PROVE  IInv'
    BY <2>1, ReportKeeps
  <2>2. ASSUME NEW w \in Write, Proceed(w) PROVE IInv'
    BY <2>2, ProceedKeeps
  <2>3. ASSUME NEW w \in Write, Answered(w) \/ BodyFails(w) PROVE IInv'
    BY <2>3, AnswerKeeps
  <2>4. ASSUME NEW w \in Write, CallFails(w) PROVE IInv'
    BY <2>4, CallFailsKeeps
  <2>5. ASSUME NEW w \in Write, FlushAnswered(w) PROVE IInv'
    BY <2>5, FlushAnsweredKeeps
  <2>6. ASSUME NEW w \in Write, FlushFails(w) PROVE IInv'
    BY <2>6, FlushFailsKeeps
  <2>7. ASSUME NEW r \in Run, Refresh(r) PROVE IInv'
    BY <2>7, RefreshKeeps
  <2>8. CASE StartFlush
    BY <2>8, StartFlushKeeps
  <2>9. CASE FlushSend
    BY <2>9, FlushSendKeeps
  <2>10. CASE Tick
    BY <2>10, TickKeeps
  <2>11. CASE ClientRestart
    BY <2>11, ClientRestartKeeps
  <2>. QED
    BY <1>1, <2>1, <2>2, <2>3, <2>4, <2>5, <2>6, <2>7, <2>8, <2>9, <2>10, <2>11 DEF Client
<1>2. CASE Server
  <2>1. PICK a \in net : \/ Replay(a) \/ IgnoreStale(a) \/ Refuse(a)
                        \/ Apply(a) \/ Commit(a) \/ Abort(a)
    BY <1>2 DEF Server
  <2>2. CASE Replay(a) \/ IgnoreStale(a) \/ Refuse(a)
    BY <2>2, AnswersKeep
  <2>3. CASE Apply(a)
    BY <2>3, ApplyKeeps
  <2>4. CASE Commit(a)
    BY <2>4, CommitKeeps
  <2>5. CASE Abort(a)
    BY <2>5, AbortKeeps
  <2>. QED
    BY <2>1, <2>2, <2>3, <2>4, <2>5
<1>3. CASE Stream
  BY <1>3, ConnectKeeps, DrainKeeps, ReadEventKeeps, DisconnectKeeps DEF Stream
<1>4. CASE UNCHANGED vars
  BY <1>4, StutterKeeps
<1>. QED
  BY <1>1, <1>2, <1>3, <1>4 DEF Next

LEMMA Invariance == Spec => []IInv
BY InitInvariant, NextKeeps, PTL DEF Spec

-----------------------------------------------------------------------------
(* What is proved of every instance. *)

\* The types are kept: reports are numbered no higher than there are writes, and the sequence of
\* team_events draws no more cursors than there are writes and faults.
THEOREM TypeCorrect == Spec => []TypeOK
<1>1. IInv => TypeOK
  BY DEF IInv
<1>. QED
  BY <1>1, Invariance, PTL

\* ApiClient.request never tells its caller something untrue: done is recorded, failed is not
\* applied and never will be, and saved for later stays in the outbox until the API has taken it.
THEOREM ToldTheTruth == Spec => []ToldIsTrue
<1>1. IInv => ToldIsTrue
  BY DEF IInv, Calling
<1>. QED
  BY <1>1, Invariance, PTL

\* flushPending sends the rows of the outbox oldest first and stops at the first that is not taken:
\* no write is applied before those it was saved behind.
THEOREM OutboxInOrder == Spec => []QueuedInOrder
<1>1. IInv => QueuedInOrder
  BY DEF IInv, Ordered
<1>. QED
  BY <1>1, Invariance, PTL

\* The lock of the run's row and the comparison of sequences keep the events of a run in the order
\* of its reports, one for each number, and the run at the last of them.
THEOREM EventsInOrder == Spec => []EventsFollowReports
<1>1. ASSUME IInv PROVE EventsFollowReports
  <2>. SUFFICES ASSUME NEW x \in {w \in record : cursor[w] > 0}
               PROVE  LET later == {w \in record : /\ write[w].run = write[x].run
                                                   /\ cursor[w] > cursor[x]} IN
                      /\ \A y \in later : write[x].sequence < write[y].sequence
                      /\ later = {} => run[write[x].run] = [status |-> write[x].status,
                                                           sequence |-> write[x].sequence]
    BY DEF EventsFollowReports
  <2>. QED
    BY <1>1 DEF IInv, Advancing
<1>. QED
  BY <1>1, Invariance, PTL

\* The cursor that the client stores and goes on from skips no event but those committed after a
\* later one had been written to the stream.
THEOREM NoEventSkippedButLate == Spec => []OnlyLateEventsSkipped
<1>1. IInv => OnlyLateEventsSkipped
  BY DEF IInv, Streaming
<1>. QED
  BY <1>1, Invariance, PTL

-----------------------------------------------------------------------------
(* The synchronisation is a ReportLog.                                     *)

\* A transaction at work applies a report whose status its run may take: the row is locked.
Allowed == \A a \in net : Runs(a) => Valid(a.write)

\* What a report says stays, once it is made, and so does what its caller was told.
LEMMA ReportsStay ==
  ASSUME IInv, [Next]_vars, NEW w \in Write, write[w].call # "new"
  PROVE  /\ write'[w].call # "new"
         /\ write'[w].run = write[w].run /\ write'[w].status = write[w].status
         /\ write'[w].sequence = write[w].sequence
<1>. DEFINE Stays == /\ write'[w].call # "new"
                     /\ write'[w].run = write[w].run /\ write'[w].status = write[w].status
                     /\ write'[w].sequence = write[w].sequence
<1>1. write \in [Write -> WriteRow]
  BY Typed DEF IInv
<1>2. ASSUME write' = write PROVE Stays
  BY <1>2
<1>3. ASSUME NEW x \in Write, NEW call \in {"over", "sent"}, NEW answer,
             write' = [write EXCEPT ![x].call = call, ![x].told = answer]
      PROVE  Stays
  BY <1>1, <1>3 DEF WriteRow
<1>4. ASSUME NEW x \in Write, write' = [write EXCEPT ![x].call = "sent"] PROVE Stays
  BY <1>1, <1>4 DEF WriteRow
<1>5. ASSUME NEW x \in Write, NEW r \in Run, NEW n, NEW status, Request(x, r, n, status)
      PROVE  Stays
  BY <1>1, <1>5 DEF Request
<1>6. ASSUME ClientRestart PROVE Stays
  BY <1>1, <1>6 DEF ClientRestart, WriteRow
<1>. HIDE DEF Stays
<1>7. ASSUME Client PROVE Stays
  <2>1. ASSUME NEW x \in Write, NEW r \in Run, LinkAgentRun(x, r) PROVE Stays
    <3>1. Request(x, r, launch[r], IF launch[r] = 1 THEN "starting" ELSE "working")
      BY <2>1 DEF LinkAgentRun
    <3>. QED
      BY <1>5, <3>1
  <2>2. ASSUME NEW x \in Write, NEW r \in Run, NEW status \in {"working", "review"},
               ReportStatus(x, r, status)
        PROVE  Stays
    BY <1>5, <2>2 DEF ReportStatus
  <2>3. ASSUME NEW x \in Write, Proceed(x) PROVE Stays
    BY <1>3, <1>4, <2>3 DEF Proceed, DeferMutation
  <2>4. ASSUME NEW x \in Write, Answered(x) \/ BodyFails(x) \/ CallFails(x) PROVE Stays
    BY <1>3, <2>4 DEF Answered, BodyFails, CallFails, DeferMutation
  <2>5. ASSUME NEW x \in Write, FlushAnswered(x) \/ FlushFails(x) PROVE Stays
    BY <1>2, <2>5 DEF FlushAnswered, FlushFails, Stays
  <2>6. ASSUME NEW r \in Run, Refresh(r) PROVE Stays
    BY <1>2, <2>6 DEF Refresh, Stays
  <2>7. ASSUME StartFlush \/ FlushSend \/ Tick PROVE Stays
    BY <1>2, <2>7 DEF StartFlush, FlushSend, Tick, client, Stays
  <2>8. ASSUME NEW x \in Write,
               \/ \E r \in Run : LinkAgentRun(x, r)
               \/ \E r \in Run, status \in {"working", "review"} : ReportStatus(x, r, status)
               \/ Proceed(x) \/ Answered(x) \/ BodyFails(x) \/ CallFails(x)
               \/ FlushAnswered(x) \/ FlushFails(x)
        PROVE  Stays
    BY <2>1, <2>2, <2>3, <2>4, <2>5, <2>8
  <2>. QED
    BY <1>6, <1>7, <2>6, <2>7, <2>8 DEF Client
<1>8. ASSUME Server PROVE Stays
  BY <1>2, <1>8 DEF Server, Replay, IgnoreStale, Refuse, Apply, Commit, Abort, client, Stays
<1>9. ASSUME Stream \/ UNCHANGED vars PROVE Stays
  BY <1>2, <1>9 DEF Stream, Connect, Drain, ReadEvent, Disconnect, client, vars, Stays
<1>. QED
  BY <1>7, <1>8, <1>9 DEF Next, Stays

\* The client and the stream put no transaction to work.
LEMMA ClientRunsNothing ==
  ASSUME IInv, Client \/ Stream \/ UNCHANGED vars, NEW a \in net', Runs(a)
  PROVE  run' = run /\ \E b \in net : Runs(b) /\ b.write = a.write
<1>. DEFINE Ran == run' = run /\ \E b \in net : Runs(b) /\ b.write = a.write
<1>1. ASSUME net' \subseteq net \cup {Attempt(x, by, "request") : x \in Write,
                                                              by \in {"call", "flush"}},
             run' = run
      PROVE  Ran
  BY <1>1 DEF Attempt, Runs
<1>2. ASSUME NEW x \in Write, NEW by \in {"call", "flush"}, Abandoned(x, by), run' = run
      PROVE  Ran
  BY <1>2, AbandonedNet DEF Runs
<1>3. ASSUME ClientRestart PROVE Ran
  BY <1>3 DEF ClientRestart, Attempt, Runs, server
<1>. HIDE DEF Ran
<1>4. ASSUME NEW x \in Write,
             \/ \E r \in Run : LinkAgentRun(x, r)
             \/ \E r \in Run, status \in {"working", "review"} : ReportStatus(x, r, status)
      PROVE  Ran
  BY <1>1, <1>4 DEF LinkAgentRun, ReportStatus, Request, server
<1>5. ASSUME NEW x \in Write, Proceed(x) \/ Answered(x) \/ BodyFails(x) \/ FlushAnswered(x)
      PROVE  Ran
  BY <1>1, <1>5 DEF Proceed, Answered, BodyFails, FlushAnswered, server
<1>6. ASSUME NEW x \in Write, CallFails(x) \/ FlushFails(x) PROVE Ran
  BY <1>2, <1>6 DEF CallFails, FlushFails, server
<1>7. ASSUME FlushSend PROVE Ran
  <2>1. TypeOK /\ flush.todo \subseteq outbox /\ flush.todo # {}
        /\ net' = net \cup {Attempt(First(flush.todo), "flush", "request")} /\ run' = run
    BY <1>7 DEF FlushSend, IInv, Calling, server
  <2>2. /\ flush.todo \in SUBSET Write
        /\ \A x \in Write : place[x].created \in Nat /\ place[x].id \in Nat
    BY <2>1, Typed
  <2>3. \A x, y \in flush.todo : place[x].id = place[y].id => x = y
    BY <2>1 DEF IInv, Ordered
  <2>4. First(flush.todo) \in Write
    BY <2>1, <2>2, <2>3, FirstOfRows
  <2>. QED
    BY <1>1, <2>1, <2>4
<1>8. ASSUME \/ \E r \in Run : Refresh(r)
             \/ StartFlush \/ Tick \/ Stream \/ UNCHANGED vars
      PROVE  Ran
  BY <1>1, <1>8
  DEF Refresh, StartFlush, Tick, Stream, Connect, Drain, ReadEvent, Disconnect, server, vars
<1>9. ASSUME Client PROVE Ran
  <2>1. ASSUME NEW x \in Write,
               \/ \E r \in Run : LinkAgentRun(x, r)
               \/ \E r \in Run, status \in {"working", "review"} : ReportStatus(x, r, status)
               \/ Proceed(x) \/ Answered(x) \/ BodyFails(x) \/ CallFails(x)
               \/ FlushAnswered(x) \/ FlushFails(x)
        PROVE  Ran
    BY <1>4, <1>5, <1>6, <2>1
  <2>. QED
    BY <1>3, <1>7, <1>8, <1>9, <2>1 DEF Client
<1>. QED
  BY <1>8, <1>9 DEF Ran

\* While a transaction is at work the row of its run does not change under it.
LEMMA StepAllowed ==
  ASSUME IInv, Allowed, [Next]_vars, IInv'
  PROVE  Allowed'
<1>1. \A b \in net : b.write \in Write /\ write[b.write].call # "new"
  BY Typed DEF IInv, Serving
<1>2. SUFFICES ASSUME NEW a \in net', Runs(a) PROVE Valid(a.write)'
  BY DEF Allowed
<1>3. ASSUME NEW b \in net, Runs(b), b.write = a.write,
             run'[write[a.write].run] = run[write[a.write].run]
      PROVE  Valid(a.write)'
  <2>1. /\ write'[a.write].run = write[a.write].run
        /\ write'[a.write].status = write[a.write].status
    BY <1>1, <1>3, ReportsStay
  <2>2. Valid(a.write)
    BY <1>3 DEF Allowed
  <2>. QED
    BY <1>3, <2>1, <2>2 DEF Valid
<1>4. CASE Client \/ Stream \/ UNCHANGED vars
  BY <1>2, <1>3, <1>4, ClientRunsNothing
<1>5. CASE Server
  <2>1. PICK c \in net : \/ Replay(c) \/ IgnoreStale(c) \/ Refuse(c)
                        \/ Apply(c) \/ Commit(c) \/ Abort(c)
    BY <1>5 DEF Server
  <2>2. ASSUME NEW state \in {"ok", "error"}, Respond(c, state)
        PROVE  a \in net /\ a # c
    <3>1. (a \in net /\ a # c) \/ a = [c EXCEPT !.state = state]
      BY <1>2, <2>2, Responded DEF IInv
    <3>2. c \in AttemptRow
      BY Typed DEF IInv
    <3>3. a = [c EXCEPT !.state = state] => a.state = state
      BY <3>2 DEF AttemptRow
    <3>. QED
      BY <1>2, <3>1, <3>3 DEF Runs
  <2>3. CASE Replay(c) \/ IgnoreStale(c) \/ Refuse(c) \/ Abort(c)
    <3>1. run' = run /\ \E state \in {"ok", "error"} : Respond(c, state)
      BY <2>3 DEF Replay, IgnoreStale, Refuse, Abort, server
    <3>. QED
      BY <1>2, <1>3, <2>2, <3>1
  <2>4. CASE Apply(c)
    <3>1. /\ run' = run /\ write' = write /\ Valid(c.write)
          /\ net' = (net \ {c}) \cup {[c EXCEPT !.state = "running"]}
      BY <2>4 DEF Apply, client
    <3>2. c \in AttemptRow
      BY Typed DEF IInv
    <3>3. a \in net \/ a.write = c.write
      BY <1>2, <3>1, <3>2 DEF AttemptRow
    <3>4. a.write = c.write => Valid(a.write)'
      BY <3>1 DEF Valid
    <3>. QED
      BY <1>2, <1>3, <3>1, <3>3, <3>4
  <2>5. CASE Commit(c)
    <3>1. /\ Runs(c) /\ Respond(c, "ok")
          /\ run' = [run EXCEPT ![write[c.write].run] = [status |-> write[c.write].status,
                                                         sequence |-> write[c.write].sequence]]
      BY <2>5 DEF Commit, Running, Runs
    <3>2. a \in net /\ a # c
      BY <2>2, <3>1
    <3>3. write[a.write].run # write[c.write].run
      BY <1>2, <3>1, <3>2 DEF IInv, Serving, Runs
    <3>4. run \in [Run -> Row] /\ write[a.write].run \in Run
      BY <1>1, <3>2, Typed DEF IInv, TypeOK
    <3>. QED
      BY <1>2, <1>3, <3>1, <3>2, <3>3, <3>4
  <2>. QED
    BY <2>1, <2>3, <2>4, <2>5
<1>. QED
  BY <1>4, <1>5 DEF Next

LEMMA LogUntouched ==
  ASSUME UNCHANGED <<write, outbox, behind, record, cursor, run, shown>>
  PROVE  UNCHANGED Log!vars
BY DEF Log!vars, made, said, answers, stamps

LEMMA ToldMapped ==
  ASSUME NEW w \in Write, NEW answer, write'[w].told = answer,
         \A x \in Write \ {w} : write'[x] = write[x]
  PROVE  answers' = [answers EXCEPT ![w] = answer]
BY DEF answers

\* A call goes on: a caller is told something, or nothing yet.
LEMMA CallMapped ==
  ASSUME IInv, NEW w \in Write, write[w].call # "new",
         NEW call \in {"sent", "over"}, NEW answer,
         write' = [write EXCEPT ![w].call = call, ![w].told = answer]
  PROVE  /\ UNCHANGED <<made, said>> /\ w \in made
         /\ answers' = [answers EXCEPT ![w] = answer]
<1>1. write \in [Write -> WriteRow]
  BY Typed DEF IInv
<1>2. /\ write'[w].call = call /\ write'[w].told = answer /\ write'[w].run = write[w].run
      /\ write'[w].status = write[w].status /\ write'[w].sequence = write[w].sequence
      /\ \A x \in Write \ {w} : write'[x] = write[x]
  BY <1>1 DEF WriteRow
<1>3. \A x \in Write : (write'[x].call # "new") <=> (write[x].call # "new")
  BY <1>2
<1>4. made' = made /\ w \in made
  BY <1>3 DEF made
<1>5. said' = said
  BY <1>2 DEF said
<1>6. answers' = [answers EXCEPT ![w] = answer]
  BY <1>2, ToldMapped
<1>. QED
  BY <1>4, <1>5, <1>6

LEMMA MakeRefines ==
  ASSUME IInv, IInv', NEW w \in Write, NEW r \in Run, NEW n, NEW status,
         Request(w, r, n, status)
  PROVE  Log!Next
<1>1. /\ write[w].call = "new" /\ write[w].told = "nothing"
      /\ write' = [write EXCEPT ![w] = [call |-> "waiting", run |-> r, status |-> status,
                                        sequence |-> n, told |-> "nothing"]]
      /\ UNCHANGED <<outbox, behind, record, run, cursor, shown>>
  BY DEF Request, IInv, Calling, server, streamVars
<1>2. write \in [Write -> WriteRow] /\ write' \in [Write -> WriteRow]
  BY Typed DEF IInv, TypeOK, WriteRow
<1>3. /\ write'[w].call = "waiting" /\ write'[w].told = "nothing"
      /\ \A x \in Write \ {w} : write'[x] = write[x]
  BY <1>1, <1>2
<1>4. w \notin made /\ made' = made \cup {w}
  BY <1>1, <1>3 DEF made
<1>5. answers' = answers /\ stamps' = stamps
  BY <1>1, <1>3 DEF answers, stamps
<1>6. PICK row : row = [run |-> write'[w].run, status |-> write'[w].status,
                       sequence |-> write'[w].sequence]
  OBVIOUS
<1>7. row \in Log!Report
  BY <1>2, <1>6 DEF Log!Report, WriteRow
<1>8. said' = [said EXCEPT ![w] = row]
  BY <1>3, <1>6 DEF said
<1>9. Log!Make(w)
  BY <1>1, <1>4, <1>5, <1>7, <1>8 DEF Log!Make
<1>. QED
  BY <1>9 DEF Log!Next

LEMMA TellRefines ==
  ASSUME IInv, NEW w \in Write, Answered(w) \/ BodyFails(w)
  PROVE  Log!Next
<1>1. UNCHANGED <<outbox, behind, record, run, cursor, shown>>
  BY DEF Answered, BodyFails, server, streamVars
<1>2. PICK state \in {"ok", "error"}, answer \in {"done", "failed", "broken"} :
        /\ Attempt(w, "call", state) \in net
        /\ write' = [write EXCEPT ![w].call = "over", ![w].told = answer]
        /\ answer = "done" => state = "ok"
        /\ answer = "failed" => state = "error"
  <2>1. CASE Answered(w)
    BY <2>1 DEF Answered
  <2>2. CASE BodyFails(w)
    BY <2>2 DEF BodyFails
  <2>. QED
    BY <2>1, <2>2
<1>3. PICK a \in net : a.write = w /\ a.by = "call" /\ a.state = state
  BY <1>2 DEF Attempt
<1>4. /\ write[w].call = "sent" /\ write[w].told = "nothing"
      /\ answer = "done" => w \in record
      /\ answer = "failed" => w \notin record
  BY <1>2, <1>3 DEF IInv, Calling, Serving
<1>5. UNCHANGED <<made, said>> /\ w \in made /\ answers' = [answers EXCEPT ![w] = answer]
  BY <1>2, <1>4, CallMapped
<1>6. stamps' = stamps /\ answers[w] = "nothing"
  BY <1>1, <1>4 DEF stamps, answers
<1>7. Log!Tell(w, answer)
  BY <1>1, <1>2, <1>4, <1>5, <1>6 DEF Log!Tell
<1>. QED
  BY <1>7 DEF Log!Next

\* Proceed and CallFails end in deferMutation.
LEMMA SaveRefines ==
  ASSUME IInv, NEW w \in Write, DeferMutation(w), write[w].call \in {"waiting", "sent"},
         NEW before \in SUBSET outbox, before # {} => w \notin record,
         behind' = [behind EXCEPT ![w] = before],
         UNCHANGED <<record, run, cursor, shown>>
  PROVE  Log!Next
<1>1. /\ outbox' = outbox \cup {w}
      /\ write' = [write EXCEPT ![w].call = "over", ![w].told = "queued"]
  BY DEF DeferMutation
<1>2. UNCHANGED <<made, said>> /\ w \in made /\ answers' = [answers EXCEPT ![w] = "queued"]
  BY <1>1, CallMapped
<1>3. stamps' = stamps /\ answers[w] = "nothing"
  BY DEF stamps, answers, IInv, Calling
<1>4. Log!Save(w)
  BY <1>1, <1>2, <1>3 DEF Log!Save
<1>. QED
  BY <1>4 DEF Log!Next

LEMMA ProceedRefines ==
  ASSUME IInv, NEW w \in Write, Proceed(w)
  PROVE  [Log!Next]_(Log!vars)
<1>1. write[w].call = "waiting" /\ UNCHANGED <<record, run, cursor, shown>>
  BY DEF Proceed, server, streamVars
<1>2. w \notin record /\ write[w].told = "nothing"
  BY <1>1 DEF IInv, Calling
<1>3. CASE DeferMutation(w)
           /\ behind' = [behind EXCEPT ![w] = {x \in outbox : place[x].created < clock}]
  BY <1>1, <1>2, <1>3, SaveRefines
<1>4. CASE write' = [write EXCEPT ![w].call = "sent"] /\ UNCHANGED <<outbox, place, behind>>
  <2>1. write \in [Write -> WriteRow]
    BY Typed DEF IInv
  <2>2. write' = [write EXCEPT ![w].call = "sent", ![w].told = "nothing"]
    BY <1>2, <1>4, <2>1 DEF WriteRow
  <2>3. UNCHANGED <<made, said>> /\ answers' = [answers EXCEPT ![w] = "nothing"]
    BY <1>1, <2>2, CallMapped
  <2>4. answers' = answers
    BY <1>2, <2>3 DEF answers
  <2>. QED
    BY <1>1, <1>4, <2>3, <2>4 DEF Log!vars, stamps
<1>. QED
  BY <1>3, <1>4 DEF Proceed

LEMMA CallFailsRefines ==
  ASSUME IInv, NEW w \in Write, CallFails(w)
  PROVE  Log!Next
<1>1. /\ write[w].call = "sent" /\ DeferMutation(w)
      /\ UNCHANGED <<behind, record, run, cursor, shown>>
  BY DEF CallFails, server, streamVars
<1>2. behind[w] = {} /\ behind \in [Write -> SUBSET Write]
  BY <1>1 DEF IInv, TypeOK, Calling, Ordered
<1>3. behind' = [behind EXCEPT ![w] = {}] /\ {} \in SUBSET outbox
  BY <1>1, <1>2
<1>. QED
  BY <1>1, <1>3, SaveRefines

LEMMA SettleRefines ==
  ASSUME IInv, NEW w \in Write, FlushAnswered(w)
  PROVE  [Log!Next]_(Log!vars)
<1>1. UNCHANGED <<write, behind, record, run, cursor, shown>>
  BY DEF FlushAnswered, server, streamVars
<1>2. CASE Attempt(w, "flush", "ok") \in net /\ outbox' = outbox \ {w}
  <2>1. PICK a \in net : a.write = w /\ a.by = "flush" /\ a.state = "ok"
    BY <1>2 DEF Attempt
  <2>2. w \in outbox \cap record
    BY <2>1 DEF IInv, Calling, Serving
  <2>3. Log!Settle(w)
    BY <1>1, <1>2, <2>2 DEF Log!Settle, made, said, answers, stamps
  <2>. QED
    BY <2>3 DEF Log!Next
<1>3. CASE UNCHANGED outbox
  BY <1>1, <1>3, LogUntouched
<1>. QED
  BY <1>2, <1>3 DEF FlushAnswered

\* A report that comes too late is answered yes and changes nothing.
LEMMA IgnoreRefines ==
  ASSUME IInv, NEW a \in net, IgnoreStale(a)
  PROVE  Log!Next
<1>. DEFINE w == a.write
<1>1. /\ w \in Write /\ w \notin record /\ record' = record \cup {w} /\ Stale(w)
      /\ Locks(w) = {}
      /\ UNCHANGED <<write, outbox, behind, run, cursor, shown>>
  BY Typed DEF IgnoreStale, Execute, Receive, client, streamVars, IInv
<1>2. /\ write[w].call # "new" /\ write[w].told # "failed" /\ behind[w] \subseteq record
  BY <1>1 DEF IInv, Serving, Calling, Ordered
<1>3. cursor[w] = 0
  <2>1. \A b \in net : ~(b.write = w /\ b.state = "running")
    BY <1>1 DEF Locks, Running
  <2>2. cursor[w] \in Nat /\ ~(cursor[w] > 0)
    BY <1>1, <2>1, Typed DEF IInv, Serving
  <2>. QED
    BY <2>2
<1>4. UNCHANGED <<made, said, answers>>
  BY <1>1 DEF made, said, answers
<1>5. stamps' = stamps
  BY <1>1, <1>3 DEF stamps
<1>6. w \in made /\ answers[w] # "failed" /\ said[w].sequence <= run[said[w].run].sequence
  BY <1>1, <1>2 DEF made, said, answers, Stale
<1>7. Log!Ignore(w)
  BY <1>1, <1>2, <1>4, <1>5, <1>6 DEF Log!Ignore, Log!Takeable
<1>. QED
  BY <1>1, <1>7 DEF Log!Next

\* A transaction commits what it may do.
LEMMA CommitRefines ==
  ASSUME IInv, Allowed, NEW a \in net, Commit(a)
  PROVE  Log!Next
<1>. DEFINE w == a.write
            r == write[w].run
            s == cursor[w]
<1>1. /\ w \in Write /\ Runs(a) /\ record' = record \cup {w}
      /\ run' = [run EXCEPT ![r] = [status |-> write[w].status, sequence |-> write[w].sequence]]
      /\ UNCHANGED <<write, outbox, behind, cursor, shown>>
  BY Typed DEF Commit, Running, Runs, client, streamVars, IInv
<1>2. /\ write[w].call # "new" /\ write[w].told # "failed" /\ behind[w] \subseteq record
      /\ w \notin record /\ s > 0
  BY <1>1 DEF IInv, Serving, Calling, Ordered, Runs
<1>3. s \in Cursor \ {0} /\ s \in Nat
  BY <1>1, <1>2, Typed DEF IInv, TypeOK
<1>4. /\ run[r].sequence < write[w].sequence
      /\ \A x \in record : write[x].run = r => cursor[x] < s
      /\ \A x \in record : cursor[x] # s
  BY <1>1, <1>2, Typed DEF IInv, Advancing, Serving, Runs
<1>5. /\ said[w] = [run |-> r, status |-> write[w].status, sequence |-> write[w].sequence]
      /\ \A x \in record : said[x].run = write[x].run /\ stamps[x] = cursor[x]
      /\ w \in made /\ answers[w] # "failed"
  BY <1>1, <1>2, Typed DEF said, stamps, made, answers, IInv
<1>6. said[w].run = r /\ said[w].status = write[w].status /\ said[w].sequence = write[w].sequence
  BY <1>5
<1>7. /\ write[w].sequence \in Nat /\ run[r].sequence \in Nat
      /\ write[w].status \in Status /\ run[r].status \in Status
  BY <1>1, Typed DEF IInv, Row
<1>8. \/ said[w].status = run[said[w].run].status
      \/ <<run[said[w].run].status, said[w].status>> \in
           {m \in Status \X Status : Follows(m[1], m[2])}
  <2>1. Valid(w)
    BY <1>1 DEF Allowed
  <2>. QED
    BY <1>6, <1>7, <2>1 DEF Valid
<1>9. UNCHANGED <<made, said, answers>>
  BY <1>1 DEF made, said, answers
<1>10. stamps' = [stamps EXCEPT ![w] = s]
  BY <1>1 DEF stamps
<1>11. Log!Takeable(w)
  BY <1>2, <1>5 DEF Log!Takeable
<1>12. Log!Apply(w, s)
  BY <1>1, <1>4, <1>5, <1>6, <1>7, <1>8, <1>9, <1>10, <1>11 DEF Log!Apply
<1>. QED
  BY <1>1, <1>3, <1>12 DEF Log!Next

\* What is read from the stream is the event of a report that moved its run.
LEMMA EmitRefines ==
  ASSUME IInv, ReadEvent
  PROVE  Log!Next
<1>. DEFINE e == Least(wire)
<1>1. /\ TypeOK /\ wire # {} /\ shown' = shown \cup {e}
      /\ UNCHANGED <<write, outbox, behind, record, run, cursor>>
  BY DEF ReadEvent, IInv, client, server
<1>2. wire \subseteq events /\ \A x \in events : x \in Nat
  BY <1>1, Events DEF IInv, Streaming
<1>3. e \in events
  BY <1>1, <1>2, LeastOfNaturals
<1>4. PICK w \in record : cursor[w] = e /\ e # 0
  BY <1>1, <1>3, Events
<1>5. w \in Write /\ e \in Cursor \ {0}
  BY <1>1, <1>4, Typed DEF TypeOK
<1>6. stamps[w] = e
  BY <1>4, <1>5 DEF stamps
<1>7. UNCHANGED <<made, said, answers, stamps>>
  BY <1>1 DEF made, said, answers, stamps
<1>8. Log!Emit(w)
  BY <1>1, <1>4, <1>5, <1>6, <1>7 DEF Log!Emit
<1>. QED
  BY <1>5, <1>8 DEF Log!Next

\* The other steps of the API, and those of the stream, change nothing that was promised.
LEMMA ServerStutters ==
  ASSUME IInv, NEW a \in net, Replay(a) \/ Refuse(a) \/ Apply(a) \/ Abort(a)
  PROVE  UNCHANGED Log!vars
<1>1. /\ UNCHANGED <<write, outbox, behind, run, shown>>
      /\ record' = record \/ record' = record \cup {}
      /\ \A x \in record : cursor'[x] = cursor[x]
  <2>1. CASE Replay(a) \/ Refuse(a)
    BY <2>1 DEF Replay, Refuse, client, server, streamVars
  <2>2. CASE Apply(a)
    <3>1. a.write \notin record /\ cursor' = [cursor EXCEPT ![a.write] = drawn + 1]
      BY <2>2 DEF Apply, Execute
    <3>2. \A x \in record : cursor'[x] = cursor[x]
      BY <3>1, Typed DEF IInv, TypeOK
    <3>. QED
      BY <2>2, <3>2 DEF Apply, client, streamVars
  <2>3. CASE Abort(a)
    <3>1. a.write \notin record /\ cursor' = [cursor EXCEPT ![a.write] = 0]
      BY <2>3 DEF Abort, Running, IInv, Serving
    <3>2. \A x \in record : cursor'[x] = cursor[x]
      BY <3>1, Typed DEF IInv, TypeOK
    <3>. QED
      BY <2>3, <3>2 DEF Abort, client, streamVars
  <2>. QED
    BY <2>1, <2>2, <2>3
<1>2. record' = record
  BY <1>1
<1>3. UNCHANGED <<made, said, answers>>
  BY <1>1 DEF made, said, answers
<1>4. stamps' = stamps
  BY <1>1, <1>2 DEF stamps
<1>. QED
  BY <1>1, <1>2, <1>3, <1>4 DEF Log!vars

LEMMA StepLog ==
  ASSUME IInv, IInv', Allowed, [Next]_vars
  PROVE  [Log!Next]_(Log!vars)
<1>. DEFINE Logged == [Log!Next]_(Log!vars)
<1>1. ASSUME NEW w \in Write, NEW r \in Run,
             \/ LinkAgentRun(w, r)
             \/ \E status \in {"working", "review"} : ReportStatus(w, r, status)
      PROVE  Logged
  <2>1. \E n, status : Request(w, r, n, status)
    BY <1>1 DEF LinkAgentRun, ReportStatus
  <2>. QED
    BY <2>1, MakeRefines
<1>2. ASSUME NEW w \in Write, Proceed(w) \/ FlushAnswered(w) PROVE Logged
  BY <1>2, ProceedRefines, SettleRefines
<1>3. ASSUME NEW w \in Write, Answered(w) \/ BodyFails(w) \/ CallFails(w) PROVE Logged
  BY <1>3, TellRefines, CallFailsRefines
<1>4. ASSUME NEW w \in Write, FlushFails(w) PROVE Logged
  BY <1>4, LogUntouched DEF FlushFails, server, streamVars
<1>5. ASSUME NEW r \in Run, Refresh(r) PROVE Logged
  BY <1>5, LogUntouched DEF Refresh, server, streamVars
<1>6. ASSUME StartFlush \/ FlushSend \/ Tick \/ Connect \/ Drain \/ Disconnect \/ UNCHANGED vars
      PROVE  Logged
  BY <1>6, LogUntouched
  DEF StartFlush, FlushSend, Tick, Connect, Drain, Disconnect, vars, client, server, streamVars
<1>7. ASSUME ClientRestart PROVE Logged
  <2>1. write \in [Write -> WriteRow] /\ UNCHANGED <<outbox, behind, record, run, cursor, shown>>
    BY <1>7, Typed DEF ClientRestart, IInv, server
  <2>2. \A w \in Write : /\ write'[w].run = write[w].run /\ write'[w].status = write[w].status
                         /\ write'[w].sequence = write[w].sequence
                         /\ write'[w].told = write[w].told
                         /\ (write'[w].call # "new") <=> (write[w].call # "new")
    BY <1>7, <2>1 DEF ClientRestart, WriteRow
  <2>3. made' = made /\ said' = said /\ answers' = answers
    BY <2>2 DEF made, said, answers
  <2>. QED
    BY <2>1, <2>3 DEF Log!vars, stamps
<1>8. ASSUME NEW a \in net, \/ Replay(a) \/ IgnoreStale(a) \/ Refuse(a)
                           \/ Apply(a) \/ Commit(a) \/ Abort(a)
      PROVE  Logged
  BY <1>8, IgnoreRefines, CommitRefines, ServerStutters
<1>9. ASSUME ReadEvent PROVE Logged
  BY <1>9, EmitRefines
<1>. HIDE DEF Logged
<1>10. ASSUME Client PROVE Logged
  <2>1. ASSUME NEW w \in Write,
               \/ \E r \in Run : LinkAgentRun(w, r)
               \/ \E r \in Run, status \in {"working", "review"} : ReportStatus(w, r, status)
               \/ Proceed(w) \/ Answered(w) \/ BodyFails(w) \/ CallFails(w)
               \/ FlushAnswered(w) \/ FlushFails(w)
        PROVE  Logged
    BY <1>1, <1>2, <1>3, <1>4, <2>1
  <2>. QED
    BY <1>5, <1>6, <1>7, <1>10, <2>1 DEF Client
<1>11. ASSUME Server PROVE Logged
  BY <1>8, <1>11 DEF Server
<1>12. ASSUME Stream PROVE Logged
  BY <1>6, <1>9, <1>12 DEF Stream
<1>. QED
  BY <1>6, <1>10, <1>11, <1>12 DEF Next, Logged

\* For any number of reports, runs, windows and faults: a report is taken once, after those it was
\* saved behind, moves its run only along runTransitions and beyond what the run has reached, and
\* what the caller was told, the outbox and the emitted events agree with it.
THEOREM SyncImplementsLog == Spec => ImplementsLog
<1>1. ASSUME Init PROVE Log!Init
  <2>1. IInv
    BY <1>1, InitInvariant
  <2>2. /\ \A w \in Write : /\ write[w].call = "new" /\ write[w].told = "nothing"
                            /\ write[w].run \in Run /\ write[w].status \in Status
                            /\ write[w].sequence \in 0 .. 2 + Cardinality(Write)
        /\ outbox = {} /\ record = {} /\ shown = {}
        /\ behind = [w \in Write |-> {}]
        /\ run \in [Run -> Row]
    BY <1>1, <2>1 DEF Init, IInv, TypeOK
  <2>3. made = {}
    BY <2>2 DEF made
  <2>4. said \in [Write -> Log!Report]
    BY <2>2 DEF said, Log!Report
  <2>5. answers = [w \in Write |-> "nothing"] /\ stamps = [w \in Write |-> 0]
    BY <2>2 DEF answers, stamps
  <2>6. run \in [Run -> Log!Row]
    BY <2>2 DEF Row, Log!Row
  <2>. QED
    BY <2>2, <2>3, <2>4, <2>5, <2>6 DEF Log!Init
<1>2. Init => IInv /\ Allowed
  BY InitInvariant DEF Init, Allowed
<1>3. IInv /\ Allowed /\ [Next]_vars => IInv' /\ Allowed'
  BY NextKeeps, StepAllowed
<1>4. IInv /\ IInv' /\ Allowed /\ [Next]_vars => [Log!Next]_(Log!vars)
  BY StepLog
<1>. QED
  BY <1>1, <1>2, <1>3, <1>4, PTL DEF Spec, ImplementsLog, Log!Spec

=============================================================================
