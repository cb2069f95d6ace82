--------------------------- MODULE MCGameRecovery ---------------------------
\* Two bots, one of them with a chip to spare: a snapshot can be taken with
\* every bot still having chips behind, and with one all in.
EXTENDS GameRecovery
CONSTANTS a, b
TwoAndOne == [x \in Bots |-> IF x = a THEN 2 ELSE 1]
=============================================================================
