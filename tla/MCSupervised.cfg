CONSTANTS
  Task = {t1}
  Handle = {h1, h2}
  Gate = {}
  None = None
  MaxDispatch = 3
  MaxRestart = 1
SPECIFICATION SupervisedLiveSpec
INVARIANT OneActiveAttempt
PROPERTIES StartResolves StopResolves
CHECK_DEADLOCK FALSE
