SPECIFICATION FairSpec
CONSTANTS
  t1 = t1
  t2 = t2
  t3 = t3
  Tables <- ThreeTables
  GamesFail = TRUE
  BreaksAtBarrier = TRUE
  RecoveryThrows = TRUE
INVARIANTS HeldOnlyOnBubble SomebodyReleases
PROPERTIES InStep WaitersGoOn
CHECK_DEADLOCK FALSE
