SPECIFICATION LiveSpec
CONSTANTS
  b1 = b1
  b2 = b2
  b3 = b3
  Bots <- TwoBots
  SmallBlind = 1
  BigBlind = 2
  Ante = 0
  BuyIns = {3}
  MaxStrikes = 1
  Live = TRUE
  HandForHand = FALSE
  MaxPending = 1
PROPERTIES HandEnds MutationsDrained
CHECK_DEADLOCK FALSE
