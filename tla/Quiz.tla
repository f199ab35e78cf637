-------------------------------- MODULE Quiz --------------------------------
(***************************************************************************)
(* core::runQuiz: rounds of questions against a deadline.                  *)
(*                                                                         *)
(* timerEnd is kept as left, the whole seconds from now to it, so that the *)
(* passage of time lowers left and moving timerEnd raises it.  A question  *)
(* is reduced to how many options it has and which one is right.           *)
(***************************************************************************)
EXTENDS Integers

CONSTANTS
    RowCounts,      \* rows the question query may return (none if it fails)
    DatabaseThrows, \* whether opening a database file may throw
    MaxOverrun,     \* bound: seconds the two-second sleeps of a round overrun in all
    MaxLate         \* bound: seconds past the deadline a player may still think

ASSUME RowsAssumption == RowCounts \subseteq Nat
ASSUME ThrowsAssumption == DatabaseThrows \in BOOLEAN
ASSUME TimeAssumption == MaxOverrun \in Nat /\ MaxLate \in Nat

Easy == 1
Medium == 2
Hard == 3
Difficulties == Easy..Hard

\* Indexed by difficulty: questions asked, seconds given, points per answer.
Wanted     == <<10, 20, 30>>
TimeLimit  == <<60, 35, 15>>
Multiplier == <<1, 3, 7>>

TrueOrFalse    == [options : {2}, right : 1..2]
MultipleChoice == [options : {5}, right : 1..5]
Questions      == TrueOrFalse \union MultipleChoice
Choices        == 0..6   \* what a player may type: the options and beyond

VARIABLES
    pc,          \* where the code is
    difficulty,
    size,        \* questions in the shuffled set
    number,      \* currentQuestionNumber
    correct,     \* numberOfCorrectQuestions
    left,        \* timerEnd - now
    feedback,    \* the message shown after an answer
    thinking,    \* history: seconds questions of this round have been on screen
    overrun,     \* history: seconds its pauses have lasted beyond their two
    uncredited   \* history: points of right answers not yet credited

vars == <<pc, difficulty, size, number, correct, left, feedback, thinking, overrun, uncredited>>

Steps == {"idle", "loading", "question", "pause", "summary", "nextMenu",
          "crashed", "thrown"}

TypeOK ==
    /\ pc \in Steps
    /\ difficulty \in Difficulties
    /\ size \in Nat /\ number \in Nat /\ correct \in Nat
    /\ left \in Int
    /\ feedback \in {"none", "right", "wrong", "invalid"}
    /\ thinking \in Nat /\ overrun \in Nat /\ uncredited \in Int

Init ==
    /\ pc = "idle"
    /\ difficulty = Easy
    /\ size = 0 /\ number = 0 /\ correct = 0 /\ left = 0
    /\ feedback = "none"
    /\ thinking = 0 /\ overrun = 0 /\ uncredited = 0

-----------------------------------------------------------------------------

\* A mode menu calls runQuiz with one of its three difficulties.
Start ==
    /\ pc = "idle"
    /\ difficulty' \in Difficulties
    /\ pc' = "loading"
    /\ UNCHANGED <<size, number, correct, left, feedback, thinking, overrun, uncredited>>

\* The top of the loop body takes question n of a set of s, before any test.
Put(n, s) == pc' = IF n \in 1..s THEN "question" ELSE "crashed"

\* Mutant: the score is not reset between rounds.
LoadKeepsScore ==
    /\ pc = "loading"
    /\ \E rows \in RowCounts :
         /\ size' = IF rows >= Wanted[difficulty] THEN Wanted[difficulty] ELSE 0
         /\ Put(1, size')
    /\ number' = 1
    /\ left' = TimeLimit[difficulty]
    /\ feedback' = "none"
    /\ thinking' = 0 /\ overrun' = 0
    /\ UNCHANGED <<difficulty, correct, uncredited>>

\* getQuestionSet draws as many rows as the level asks for, and gives an empty
\* set when the table has fewer.
Load ==
    /\ pc = "loading"
    /\ \E rows \in RowCounts :
         /\ size' = IF rows >= Wanted[difficulty] THEN Wanted[difficulty] ELSE 0
         /\ Put(1, size')
    /\ number' = 1
    /\ correct' = 0
    /\ left' = TimeLimit[difficulty]
    /\ feedback' = "none"
    /\ thinking' = 0 /\ overrun' = 0
    /\ UNCHANGED <<difficulty, uncredited>>

\* A second passes while the program waits in getValidInput.
Think ==
    /\ pc = "question"
    /\ left > -MaxLate
    /\ left' = left - 1
    /\ thinking' = thinking + 1
    /\ UNCHANGED <<pc, difficulty, size, number, correct, feedback, overrun, uncredited>>

ValidChoice(q, c) == 1 <= c /\ c <= 5 /\ ~(q.options = 2 /\ c >= 3)

\* Reading the choice and scoring it; the clock is not consulted here.
Answer ==
    /\ pc = "question"
    /\ \E q \in Questions, c \in Choices :
         feedback' = IF ~ValidChoice(q, c) THEN "invalid"
                     ELSE IF c = q.right THEN "right" ELSE "wrong"
    /\ correct' = correct + (IF feedback' = "right" THEN 1 ELSE 0)
    /\ uncredited' = uncredited + (IF feedback' = "right" THEN Multiplier[difficulty] ELSE 0)
    /\ pc' = "pause"
    /\ UNCHANGED <<difficulty, size, number, left, thinking, overrun>>

\* Mutant: one question too many.
MoreQuestionsByOne(timeLeft, next) == timeLeft > 0 /\ next # size + 2

\* Mutant: the last second is cut off.
MoreQuestionsShort(timeLeft, next) == timeLeft > 1 /\ next # size + 1

\* Mutant: the deadline is not tested.
MoreQuestionsUntimed(timeLeft, next) == next # size + 1

MoreQuestions(timeLeft, next) == timeLeft > 0 /\ next # size + 1

\* The feedback's two seconds, by more if the sleep overruns; then timerEnd is
\* moved by the given seconds.
Sleep(extra) ==
    \E over \in 0..(MaxOverrun - overrun) :
        /\ left' = left - (2 + over) + extra
        /\ overrun' = overrun + over

\* Mutant: timerEnd is moved by three seconds.
PauseGenerous ==
    /\ pc = "pause"
    /\ Sleep(3)
    /\ number' = number + 1
    /\ IF MoreQuestions(left', number') THEN Put(number', size) ELSE pc' = "summary"
    /\ UNCHANGED <<difficulty, size, correct, feedback, thinking, uncredited>>

\* Mutant: currentQuestionNumber is not increased.
PauseSameQuestion ==
    /\ pc = "pause"
    /\ Sleep(2)
    /\ IF MoreQuestions(left', number) THEN Put(number, size) ELSE pc' = "summary"
    /\ UNCHANGED <<difficulty, size, number, correct, feedback, thinking, uncredited>>

\* The feedback stays for two seconds, by which timerEnd is moved too, and the
\* loop's condition is tested.
Pause ==
    /\ pc = "pause"
    /\ Sleep(2)
    /\ number' = number + 1
    /\ IF MoreQuestions(left', number') THEN Put(number', size) ELSE pc' = "summary"
    /\ UNCHANGED <<difficulty, size, correct, feedback, thinking, uncredited>>

\* A key is pressed, and updatePlayerPoints is called with the round's points.
Credit ==
    /\ pc = "summary"
    /\ uncredited' = uncredited - correct * Multiplier[difficulty]
    /\ pc' = "nextMenu"
    /\ UNCHANGED <<difficulty, size, number, correct, left, feedback, thinking, overrun>>

\* Mutant: after the highest level comes the lowest.
PlayAgainWraps ==
    /\ pc = "nextMenu"
    /\ difficulty' = IF difficulty < Hard THEN difficulty + 1 ELSE Easy
    /\ pc' = "loading"
    /\ UNCHANGED <<size, number, correct, left, feedback, thinking, overrun, uncredited>>

\* Option 0 of the summary's menu: one more round, a level up unless at the top.
PlayAgain ==
    /\ pc = "nextMenu"
    /\ difficulty' = IF difficulty < Hard THEN difficulty + 1 ELSE difficulty
    /\ pc' = "loading"
    /\ UNCHANGED <<size, number, correct, left, feedback, thinking, overrun, uncredited>>

\* Options 1 and 2: runQuiz returns a frame to show.
Leave ==
    /\ pc = "nextMenu"
    /\ pc' = "idle"
    /\ UNCHANGED <<difficulty, size, number, correct, left, feedback, thinking, overrun, uncredited>>

\* The question database or the leaderboard does not open.
Throw ==
    /\ DatabaseThrows
    /\ pc \in {"loading", "summary"}
    /\ pc' = "thrown"
    /\ UNCHANGED <<difficulty, size, number, correct, left, feedback, thinking, overrun, uncredited>>

\* The process has ended.
Ended == pc \in {"crashed", "thrown"} /\ UNCHANGED vars

Next ==
    \/ Start \/ Load \/ Think \/ Answer \/ Pause \/ Credit \/ PlayAgain \/ Leave
    \/ Throw \/ Ended

Spec == Init /\ [][Next]_vars

\* The program runs on, and the player answers sooner or later; the thinking
\* time of a question is left open.
FairSpec == Spec /\ WF_vars(Load) /\ WF_vars(Answer) /\ WF_vars(Pause)

-----------------------------------------------------------------------------
(* Properties.                                                             *)

\* The loop indexes its set of questions out of range in one case only, the first
\* question of an empty set: its condition, an inequality tested after the
\* increment, never lets the index run past the end of a set that has questions.
QuestionInRange ==
    /\ pc \in {"question", "pause"} => number \in 1..size
    /\ pc = "crashed" => size = 0 /\ number = 1

\* The time a player has left is the limit less the time spent thinking: moving
\* timerEnd by two seconds makes up for the pauses, except where they overran, in
\* every round and at every level.
DeadlineIsFair ==
    pc \in {"question", "pause", "summary"} =>
        left = TimeLimit[difficulty] - thinking - overrun

\* No question but the first is put once the player has used up the time limit.
OnTimeQuestions ==
    [][pc # "question" /\ pc' = "question" /\ number' > 1
         => thinking' < TimeLimit[difficulty]]_vars

\* The summary says "Your time is up" only to a player whose time is up, the
\* overrun of the pauses included, and "all questions" only after all.
SummaryIsRight ==
    pc = "summary" => IF number > size THEN number = size + 1 ELSE left <= 0

\* Each right answer of any round is credited once, at its level's worth: no
\* round carries points over into the next, and no points are left behind
\* unless the program ends before the summary.
EachAnswerCreditedOnce ==
    pc # "thrown" =>
        uncredited = IF pc \in {"question", "pause", "summary"}
                     THEN correct * Multiplier[difficulty] ELSE 0

\* A round comes to its summary, however the answers go, unless the program ends
\* before its first question.
RoundEnds == pc = "loading" ~> pc \in {"summary", "crashed", "thrown"}

\* tutorialScreen: an option that does not exist loses the player points.
InvalidOptionCosts ==
    [][pc = "question" /\ pc' = "pause" /\ feedback' = "invalid" /\ correct > 0
         => correct' < correct]_vars

-----------------------------------------------------------------------------
(* What runQuiz is to its caller.                                          *)

QuizStage ==
    CASE pc = "idle"                       -> "idle"
      [] pc = "nextMenu"                   -> "settled"
      [] pc \in {"crashed", "thrown"}      -> "over"
      [] OTHER                             -> "round"

\* The difficulty is runQuiz's own: it means nothing before the call or after it.
QuizLevel == IF QuizStage \in {"round", "settled"} THEN difficulty ELSE Easy

QuizPaid == IF pc = "nextMenu" THEN correct * Multiplier[difficulty] ELSE 0

R == INSTANCE Round WITH
        Top <- Hard, Size <- Wanted, Worth <- Multiplier,
        stage <- QuizStage, level <- QuizLevel, paid <- QuizPaid

\* Seen from outside, a quiz is a series of rounds at rising levels, none worth
\* more than all its questions: neither the clock, the order of questions nor
\* the counters that rounds share show through.
ImplementsRound == R!Spec
=============================================================================
