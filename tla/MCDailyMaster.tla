---------------------------- MODULE MCDailyMaster ----------------------------
(* Instances of DailyMaster for TLC. *)
EXTENDS DailyMaster, TLC
CONSTANTS s1, s2, s3
TwoServers   == {s1, s2}
ThreeServers == {s1, s2, s3}
Symmetry     == Permutations(ThreeServers)
=============================================================================
