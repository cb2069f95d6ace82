SPECIFICATION InterleavedSpec
CONSTANTS
  b1 = b1
  b2 = b2
  b3 = b3
  b4 = b4
  b5 = b5
  b6 = b6
  Bots <- SixBots
  Seating <- TwoAndFour
  StartingChips = 1
  SeatsPerTable = 4
  Interleaved = TRUE
  HandSizes = {2, 3}
  MaxHands = 2
  MaxQuietHands = 1
INVARIANTS OneTable
SYMMETRY SeatsAlike
CHECK_DEADLOCK FALSE
