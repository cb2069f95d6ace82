SPECIFICATION FairSpec
CONSTANTS
  b1 = b1
  b2 = b2
  b3 = b3
  b4 = b4
  b5 = b5
  b6 = b6
  Bots <- FiveBots
  Seating <- TwoAndThree
  StartingChips = 1
  SeatsPerTable = 3
  Interleaved = FALSE
  HandSizes = {2, 3, 4, 5}
  MaxHands = 9
  MaxQuietHands = 1
INVARIANTS SeatsRespected TournamentChips WinnerIsFirst
PROPERTIES EliminatedOnlyAtZero TournamentEnds
CHECK_DEADLOCK FALSE
