SPECIFICATION Spec
CONSTANTS
  NumBots = 3
  FindAttempts = 2
  MaxHand = 2
  MaxCrashes = 1
  MaxFailures = 1
INVARIANTS  StatsNeverOvercount NoDeadlock
CHECK_DEADLOCK FALSE
