--------------------------- MODULE MCHandForHand ---------------------------
EXTENDS HandForHand, TLC

CONSTANTS t1, t2, t3

ThreeTables == {t1, t2, t3}
=============================================================================
