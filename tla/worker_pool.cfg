SPECIFICATION FairSpec
CONSTANTS
  a = a
  b = b
  c = c
  NoTask = NoTask
  Tasks <- ThreeTasks
  Size = 2
  MaxIncidents = 1
INVARIANTS NobodyIdles ShutdownSettlesAll
PROPERTY TasksSettle
CHECK_DEADLOCK FALSE
