------------------------ MODULE MCTournamentDirector ------------------------
(* Instances of TournamentDirector for TLC. *)
EXTENDS TournamentDirector, TLC
CONSTANTS b1, b2, b3, b4, b5, b6
FiveBots == {b1, b2, b3, b4, b5}
SixBots  == FiveBots \union {b6}

TwoAndThree == <<{b1, b2}, {b3, b4, b5}>>
TwoAndFour  == <<{b1, b2}, {b3, b4, b5, b6}>>

\* The bots of a table are interchangeable.
SeatsAlike == {p \in Permutations(SixBots) :
                 \A t \in DOMAIN TwoAndFour : {p[b] : b \in TwoAndFour[t]} = TwoAndFour[t]}
=============================================================================
