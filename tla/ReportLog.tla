----------------------------- MODULE ReportLog ------------------------------
(***************************************************************************)
(* What the cloud synchronisation promises of the reports it is given.     *)
(* Each is taken at most once, after those it was saved behind, and then   *)
(* either moves its run on, with an event of its own, or comes too late    *)
(* and changes nothing.  The caller is told what is so, and what it was    *)
(* told is queued is owed until it is taken.  No event is emitted but that *)
(* of a report that moved its run.                                         *)
(***************************************************************************)
EXTENDS Naturals

CONSTANTS
  Write,     \* the reports
  Run,
  Status,
  Number,    \* what reports are numbered with
  Stamp,     \* the positive numbers of events
  Move       \* <<from, to>>: the changes of status a run may make

VARIABLES
  made,      \* the reports that were made
  report,    \* what they say
  told,      \* what their callers were told
  owed,      \* the saved reports not yet off the hands of the client
  behind,    \* the owed reports that a report was saved behind
  taken,     \* the reports that were answered for good
  stamp,     \* the event of a taken report, 0 if it has none
  run,       \* what the runs show
  emitted    \* the events emitted

vars == <<made, report, told, owed, behind, taken, stamp, run, emitted>>

Row == [status : Status, sequence : Number]
Report == [run : Run, status : Status, sequence : Number]

Init ==
  /\ made = {} /\ owed = {} /\ taken = {} /\ emitted = {}
  /\ report \in [Write -> Report]
  /\ told = [w \in Write |-> "nothing"]
  /\ behind = [w \in Write |-> {}]
  /\ stamp = [w \in Write |-> 0]
  /\ run \in [Run -> Row]

Make(w) ==
  /\ w \notin made
  /\ made' = made \cup {w}
  /\ \E says \in Report : report' = [report EXCEPT ![w] = says]
  /\ UNCHANGED <<told, owed, behind, taken, stamp, run, emitted>>

\* The caller is told once: that it is done, that it failed, or that nobody knows.
Tell(w, answer) ==
  /\ w \in made /\ told[w] = "nothing"
  /\ \/ answer = "done" /\ w \in taken
     \/ answer = "failed" /\ w \notin taken
     \/ answer = "broken"
  /\ told' = [told EXCEPT ![w] = answer]
  /\ UNCHANGED <<made, report, owed, behind, taken, stamp, run, emitted>>

\* Or that it is saved; then it may have to wait for others, unless it was taken already.
Save(w) ==
  /\ w \in made /\ told[w] = "nothing"
  /\ told' = [told EXCEPT ![w] = "queued"]
  /\ owed' = owed \cup {w}
  /\ \E before \in SUBSET owed :
       /\ before # {} => w \notin taken
       /\ behind' = [behind EXCEPT ![w] = before]
  /\ UNCHANGED <<made, report, taken, stamp, run, emitted>>

Settle(w) ==
  /\ w \in owed \cap taken
  /\ owed' = owed \ {w}
  /\ UNCHANGED <<made, report, told, behind, taken, stamp, run, emitted>>

Takeable(w) ==
  /\ w \in made \ taken
  /\ told[w] # "failed"
  /\ behind[w] \subseteq taken

\* A report with a new number moves its run, with an event after the others of the run.
Apply(w, s) ==
  LET new == report[w] IN
  /\ Takeable(w)
  /\ new.sequence > run[new.run].sequence
  /\ new.status = run[new.run].status \/ <<run[new.run].status, new.status>> \in Move
  /\ \A x \in taken : stamp[x] # s /\ (report[x].run = new.run => stamp[x] < s)
  /\ taken' = taken \cup {w}
  /\ stamp' = [stamp EXCEPT ![w] = s]
  /\ run' = [run EXCEPT ![new.run] = [status |-> new.status, sequence |-> new.sequence]]
  /\ UNCHANGED <<made, report, told, owed, behind, emitted>>

Ignore(w) ==
  /\ Takeable(w)
  /\ report[w].sequence <= run[report[w].run].sequence
  /\ taken' = taken \cup {w}
  /\ UNCHANGED <<made, report, told, owed, behind, stamp, run, emitted>>

Emit(w) ==
  /\ w \in taken /\ stamp[w] \in Stamp
  /\ emitted' = emitted \cup {stamp[w]}
  /\ UNCHANGED <<made, report, told, owed, behind, taken, stamp, run>>

Next ==
  \E w \in Write :
    \/ Make(w) \/ Save(w) \/ Settle(w) \/ Ignore(w) \/ Emit(w)
    \/ \E answer \in {"done", "failed", "broken"} : Tell(w, answer)
    \/ \E s \in Stamp : Apply(w, s)

Spec == Init /\ [][Next]_vars

=============================================================================
