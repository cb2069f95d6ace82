SPECIFICATION LiveSpec
CONSTANTS
  b1 = b1
  b2 = b2
  b3 = b3
  Bots <- ThreeBots
  SmallBlind = 1
  BigBlind = 2
  Ante = 0
  BuyIns = {2}
  MaxStrikes = 1
  Live = TRUE
  HandForHand = FALSE
  MaxPending = 1
INVARIANTS TypeOK ChipConservation
PROPERTIES SeatingFrozenMidHand
SYMMETRY Symmetry
CHECK_DEADLOCK FALSE
