CONSTANTS
  Pane = {p1, p2}
  Call = {k1, k2}
  Dispatch = {d1}
  Answer = {a1, a2}
  None = None
  Limit = 1
  MaxMail = 2
  MaxGeneration = 3
SPECIFICATION FairSpec
INVARIANTS TypeOK OneConsumerWaits NothingMissed FirstInFirstOut AskerHears
           SettledIsClosed
PROPERTIES AnswerStands ImplementsInbox ActionableIsRead
CHECK_DEADLOCK FALSE
