SPECIFICATION Spec
CONSTANTS
  s1 = s1
  s2 = s2
  s3 = s3
  NoJob = NoJob
  Servers <- ThreeServers
  Users = 4
  DailyPool = 5
  MinPlayers = 2
  PodSize = 2
  Slow = FALSE
  MaxCrashes = 1
  MaxDeliveries = 2
INVARIANTS JobsExclude OneMaster  PoolGivenOnce
SYMMETRY Symmetry
CHECK_DEADLOCK FALSE
