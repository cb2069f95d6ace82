------------------------ MODULE MCTournamentLifecycle ------------------------
(* Instances of TournamentLifecycle for TLC. *)
EXTENDS TournamentLifecycle, TLC
CONSTANTS a1, y1
\* A bot of a user and a system bot.
TwoBots   == {a1, y1}
OneSystem == {y1}
Owners    == [b \in TwoBots |-> IF b = y1 THEN "system" ELSE "user"]
=============================================================================
