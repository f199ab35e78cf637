--------------------------- MODULE MCLeaderboard ---------------------------
(* Leaderboard with names in an order, and the symmetry of its windows.     *)
EXTENDS Leaderboard, TLC

CONSTANTS ann, bob, guest

InOrder == <<ann, bob, guest>>
WindowSymmetry == Permutations(Instances)
=============================================================================
