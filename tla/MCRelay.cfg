CONSTANTS
  Protocol = {2, 3}
  MaxItems = 2
  Quota = 2
  PageSize = 1
  MaxPages = 2
  MaxFaults = 1
  Update = {"completed"}
SPECIFICATION Spec
INVARIANTS TypeOK ToldAgreement AckedReachedHome
PROPERTIES ImplementsVerdict ImplementsChannel
CHECK_DEADLOCK FALSE
