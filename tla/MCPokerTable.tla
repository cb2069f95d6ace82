---------------------------- MODULE MCPokerTable ----------------------------
EXTENDS PokerTable, TLC

CONSTANTS b1, b2, b3

TwoBots   == {b1, b2}
ThreeBots == {b1, b2, b3}
Symmetry  == Permutations(ThreeBots)
=============================================================================
