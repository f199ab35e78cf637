------------------------------- MODULE MCGame -------------------------------
(* Game with two levels whose rounds have one question, worth one point and *)
(* two, and the options of the longest menu and next to it.                 *)
EXTENDS Game, Integers

TwoLevels == 2
OneQuestion == <<1, 1>>
OneAndTwo == <<1, 2>>
TypedOptions == -1..6
NarrowUInt == 65536
=============================================================================
