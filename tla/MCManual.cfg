CONSTANTS
  Task = {t1, t2, t3}
  Handle = {h1, h2}
  Gate = {}
  None = None
  MaxDispatch = 2
  MaxRestart = 0
SPECIFICATION ManualSpec
SYMMETRY Symmetry
INVARIANT AssigneeExclusive
PROPERTY PromotionIsAtomic
CHECK_DEADLOCK FALSE
