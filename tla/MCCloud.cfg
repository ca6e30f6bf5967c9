CONSTANTS
  Write = {w1, w2}
  Run = {r1, r2}
  MaxClock = 1
  MaxFault = 2
SPECIFICATION Spec
SYMMETRY Symmetry
INVARIANTS TypeOK ToldIsTrue EventsFollowReports OnlyLateEventsSkipped
PROPERTIES ImplementsLog
CHECK_DEADLOCK FALSE
