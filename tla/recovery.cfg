SPECIFICATION FairSpec
CONSTANTS
  a = a  b = b  None = None
  Bots = {a, b}
  GameIds = {g1, g2}
  Loops = {l1, l2}
  BuyIn <- TwoAndOne
  MaxStake = 1
  MaxWire = 1
  MaxFaults = 1
INVARIANTS RunningIsRegistered ChipsSurvive
PROPERTIES  ErroredGameRecovers
CHECK_DEADLOCK FALSE
