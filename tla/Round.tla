------------------------------- MODULE Round -------------------------------
(***************************************************************************)
(* What the rest of the program sees of a quiz: rounds, at a level chosen  *)
(* first and then rising one by one, each worth some number of right       *)
(* answers out of all its questions.  Clock, questions and answers are     *)
(* left to Quiz, which implements this (ImplementsRound there).            *)
(***************************************************************************)
EXTENDS Naturals

CONSTANTS
    Top,    \* the highest level
    Size,   \* per level, the questions of a round
    Worth   \* per level, the points of a right answer

VARIABLES
    stage,  \* idle, round, settled or over
    level,
    paid    \* what the round just settled was worth

Levels == 1..Top

Init == stage = "idle" /\ level = 1 /\ paid = 0

\* The program starts runQuiz.
Begin ==
    /\ stage = "idle"
    /\ stage' = "round"
    /\ level' \in Levels
    /\ UNCHANGED paid

\* updatePlayerPoints is called with the round's points.
Settle ==
    /\ stage = "round"
    /\ stage' = "settled"
    /\ \E right \in 0..Size[level] : paid' = right * Worth[level]
    /\ UNCHANGED level

\* One more round, at the next level if there is one.
Again ==
    /\ stage = "settled"
    /\ stage' = "round"
    /\ level' = IF level < Top THEN level + 1 ELSE level
    /\ paid' = 0

\* Nothing is left of a quiz whose rounds are over: the next asks for a level.
NoRound == level' = 1 /\ paid' = 0

\* runQuiz returns.
Leave == stage = "settled" /\ stage' = "idle" /\ NoRound

\* The process ends within a round, or while its points are being written.
Stop ==
    /\ stage \in {"round", "settled"}
    /\ stage' = "over"
    /\ NoRound

Next == Begin \/ Settle \/ Again \/ Leave \/ Stop

Spec == Init /\ [][Next]_<<stage, level, paid>>
=============================================================================
