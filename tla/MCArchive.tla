------------------------------ MODULE MCArchive ------------------------------
(* An instance of Archive for TLC: the hands of a tournament of one table. *)
EXTENDS Archive
OneTable == [h \in AllHands |-> h]
==============================================================================
