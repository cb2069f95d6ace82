SPECIFICATION ArchiveSpec
CONSTANTS
  NumHands = 4
  Number <- OneTable
  Servers = {s1, s2}
  PageSize = 2
  BatchSize = 2
  MaxFaults = 2
  None = None
INVARIANTS PrunedIsStored HandsReadable
CHECK_DEADLOCK FALSE
