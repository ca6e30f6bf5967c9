CONSTANTS
  Protocol = {2, 3}
  MaxItems = 2
  Quota = 3
  PageSize = 1
  MaxPages = 2
  MaxFaults = 1
  Update = {}
SPECIFICATION OrderlySpec
PROPERTIES ReportReachesHome VerdictReachesWorker
CHECK_DEADLOCK FALSE
