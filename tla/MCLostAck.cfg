CONSTANTS
  Protocol = {3}
  MaxItems = 1
  Quota = 2
  PageSize = 1
  MaxPages = 2
  MaxFaults = 1
  Update = {}
SPECIFICATION OrderlySpec
PROPERTY LostAckIsRetried
CHECK_DEADLOCK FALSE
