CONSTANTS
  Dispatch = {d1, d2, d3}
  Terminal = {term}
  None = None
  MaxProcess = 2
  MaxRestart = 1
SPECIFICATION Spec
SYMMETRY Symmetry
INVARIANTS TypeOK ReleasingIsArchived ReleasedIsGone RecordedTakeoverKept
PROPERTIES ActiveWorkerKept RetainedIsKept
CHECK_DEADLOCK FALSE
