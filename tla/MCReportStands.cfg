CONSTANTS
  Task = {t1}
  Handle = {h1}
  Gate = {}
  None = None
  MaxDispatch = 1
  MaxRestart = 0
SPECIFICATION ManualSpec
SYMMETRY Symmetry
PROPERTY ReportStands
CHECK_DEADLOCK FALSE
