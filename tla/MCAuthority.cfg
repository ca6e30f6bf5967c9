CONSTANTS
  Task = {t1}
  Handle = {h1, h2}
  Gate = {g1}
  None = None
  MaxDispatch = 2
  MaxRestart = 1
SPECIFICATION Spec
SYMMETRY Symmetry
INVARIANTS TypeOK AuthorityEndsWithAttempt SettledWorkerIsInactive
PROPERTY ImplementsLifecycle
CHECK_DEADLOCK FALSE
