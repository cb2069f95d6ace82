SPECIFICATION Spec
CONSTANTS
  b1 = b1
  b2 = b2
  b3 = b3
  Bots <- ThreeBots
  SmallBlind = 1
  BigBlind = 2
  Ante = 0
  BuyIns = {3}
  MaxStrikes = 1
  Live = FALSE
  HandForHand = TRUE
  MaxPending = 0
INVARIANTS HandNeverThrows PotsCoverBets SidePotCap
PROPERTIES ButtonStaysWithBot LedgerSpec ActsOnlyWhenOwed
SYMMETRY Symmetry
CHECK_DEADLOCK FALSE
