---------------------------- MODULE MCHelperGame ----------------------------
(* Small instances of HelperGame for TLC. *)
EXTENDS HelperGame
CONSTANTS g1, g2, probe, none, small, large

TwoGames == {g1, g2}
OneGame == {g1}
OneGameAndProbe == {g1, probe}
TwoSizes == {small, large}
OneSize == {small}
=============================================================================
