CONSTANTS
  Dispatch = {d1, d2}
  Terminal = {term}
  None = None
  MaxProcess = 2
  MaxRestart = 1
SPECIFICATION Spec
SYMMETRY Symmetry
PROPERTY WithdrawnForCause
CHECK_DEADLOCK FALSE
