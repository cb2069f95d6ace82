SPECIFICATION LifecycleFairSpec
CONSTANTS
  a1 = a1
  y1 = y1
  NoBot = NoBot
  Bots <- TwoBots
  System <- OneSystem
  Owner <- Owners
  MinPlayers = 2
  MaxPlayers = 2
  Parallel = 2
  MaxRequests = 2
  MaxRestarts = 1
INVARIANTS CapacityKept 
PROPERTY DueTournamentStarts
CHECK_DEADLOCK FALSE
