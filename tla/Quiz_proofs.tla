---------------------------- MODULE Quiz_proofs ----------------------------
(***************************************************************************)
(* Theorems about Quiz, for any number of rows the question query may       *)
(* return, any overrun of the pauses and any patience of the player.        *)
(***************************************************************************)
EXTENDS Quiz, TLAPS

InRound == {"question", "pause", "summary"}

\* What the loop keeps: a question is put only from the set, the number is past the
\* end only at the summary, and only the index of an empty set ends the program.
LoopInv ==
    /\ pc \in {"question", "pause"} => number \in 1..size
    /\ pc = "crashed" => size = 0 /\ number = 1
    /\ pc = "summary" => number \in 1..(size + 1) /\ (number <= size => left <= 0)

QuizInv == TypeOK /\ LoopInv /\ DeadlineIsFair /\ EachAnswerCreditedOnce

\* The level's numbers are positive; one more right answer is worth one multiplier.
LEMMA Levels ==
  ASSUME NEW d \in Difficulties
  PROVE  /\ Wanted[d] \in Nat \ {0}
         /\ TimeLimit[d] \in Nat \ {0}
         /\ Multiplier[d] \in Nat
         /\ \A c \in Nat : /\ (c + 1) * Multiplier[d] = c * Multiplier[d] + Multiplier[d]
                           /\ c * Multiplier[d] \in Nat
         /\ 0 * Multiplier[d] = 0
<1>1. d = 1 \/ d = 2 \/ d = 3
  BY DEF Difficulties, Easy, Hard
<1>2. Multiplier[d] \in {1, 3, 7}
  BY <1>1 DEF Multiplier
<1>3. Wanted[d] \in Nat \ {0} /\ TimeLimit[d] \in Nat \ {0}
  BY <1>1 DEF Wanted, TimeLimit
<1>4. ASSUME NEW k \in {1, 3, 7}, NEW c \in Nat
      PROVE  (c + 1) * k = c * k + k /\ c * k \in Nat /\ 0 * k = 0
  <2>1. CASE k = 1
    BY <2>1
  <2>2. CASE k = 3
    BY <2>2
  <2>3. CASE k = 7
    BY <2>3
  <2>4. QED
    BY <2>1, <2>2, <2>3
<1>5. Multiplier[d] \in Nat
  BY <1>2
<1>6. 0 * Multiplier[d] = 0
  BY <1>2, <1>4
<1>7. QED
  BY <1>2, <1>3, <1>4, <1>5, <1>6

LEMMA QuizInit == Init => QuizInv
  BY DEF Init, QuizInv, TypeOK, LoopInv, DeadlineIsFair, EachAnswerCreditedOnce,
         Steps, Difficulties, Easy, Hard

\* A new round begins with its first question, or ends the program at once.
LEMMA LoadStep == ASSUME QuizInv, Load PROVE QuizInv'
<1>1. PICK rows \in RowCounts :
         /\ size' = IF rows >= Wanted[difficulty] THEN Wanted[difficulty] ELSE 0
         /\ pc' = IF 1 \in 1..size' THEN "question" ELSE "crashed"
  BY DEF Load, Put
<1>2. difficulty \in Difficulties /\ uncredited = 0
  BY DEF QuizInv, TypeOK, EachAnswerCreditedOnce, Load
<1>3. /\ size' \in Nat
      /\ pc' = "question" => 1 \in 1..size'
      /\ pc' = "crashed" => size' = 0
  BY <1>1, <1>2, Levels
<1>4. pc' \in {"crashed", "question"}
  BY <1>1
<1>5. TypeOK'
  BY <1>2, <1>3, <1>4, Levels DEF Load, QuizInv, TypeOK, Steps
<1>6. LoopInv'
  BY <1>3, <1>4 DEF Load, LoopInv
<1>7. DeadlineIsFair'
  BY <1>2, <1>4, Levels DEF Load, DeadlineIsFair
<1>8. EachAnswerCreditedOnce'
  BY <1>2, <1>4, Levels DEF Load, EachAnswerCreditedOnce
<1>9. QED
  BY <1>5, <1>6, <1>7, <1>8 DEF QuizInv

LEMMA AnswerStep == ASSUME QuizInv, Answer PROVE QuizInv'
<1> DEFINE right == feedback' = "right"
<1>1. feedback' \in {"right", "wrong", "invalid"}
  BY DEF Answer
<1>2. difficulty \in Difficulties /\ correct \in Nat /\ uncredited \in Int
  BY DEF QuizInv, TypeOK
<1>3. uncredited = correct * Multiplier[difficulty]
  BY DEF QuizInv, EachAnswerCreditedOnce, Answer
<1>4. /\ correct' \in Nat
      /\ uncredited' \in Int
      /\ uncredited' = correct' * Multiplier[difficulty]
  <2>1. CASE right
    <3>1. correct' = correct + 1 /\ uncredited' = uncredited + Multiplier[difficulty]
      BY <2>1 DEF Answer
    <3>2. QED
      BY <3>1, <1>2, <1>3, Levels
  <2>2. CASE ~right
    <3>1. correct' = correct + 0 /\ uncredited' = uncredited + 0
      BY <2>2 DEF Answer
    <3>2. QED
      BY <3>1, <1>2, <1>3
  <2>3. QED
    BY <2>1, <2>2
<1>5. TypeOK'
  BY <1>1, <1>4 DEF Answer, QuizInv, TypeOK, Steps
<1>6. LoopInv' /\ DeadlineIsFair'
  BY DEF Answer, QuizInv, LoopInv, DeadlineIsFair
<1>7. EachAnswerCreditedOnce'
  BY <1>4 DEF Answer, EachAnswerCreditedOnce
<1>8. QED
  BY <1>5, <1>6, <1>7 DEF QuizInv

\* A pause never ends the program: the number is in the set or one past its end.
LEMMA PauseTarget == ASSUME QuizInv, Pause PROVE pc' \in {"question", "summary"}
<1>1. number \in 1..size /\ size \in Nat /\ number' = number + 1
  BY DEF Pause, QuizInv, TypeOK, LoopInv
<1>2. number' # size + 1 => number' \in 1..size
  BY <1>1
<1>3. QED
  BY <1>2 DEF Pause, MoreQuestions, Put

\* The loop's condition, after the number has been increased.
LEMMA PauseStep == ASSUME QuizInv, Pause PROVE QuizInv'
<1>1. PICK over \in 0..(MaxOverrun - overrun) :
         left' = left - (2 + over) + 2 /\ overrun' = overrun + over
  BY DEF Pause, Sleep
<1>2. /\ difficulty \in Difficulties /\ size \in Nat /\ left \in Int
      /\ overrun \in Nat /\ thinking \in Nat /\ number \in 1..size
      /\ TimeLimit[difficulty] \in Nat
      /\ left = TimeLimit[difficulty] - thinking - overrun
  BY Levels DEF Pause, QuizInv, TypeOK, LoopInv, DeadlineIsFair
<1>3. over \in Nat
  BY <1>1, <1>2, TimeAssumption
<1>4. /\ left' \in Int /\ overrun' \in Nat /\ number' = number + 1
      /\ left' = TimeLimit[difficulty] - thinking - overrun'
  BY <1>1, <1>2, <1>3 DEF Pause
<1>5. pc' = IF left' > 0 /\ number' # size + 1 THEN "question" ELSE "summary"
  BY PauseTarget DEF Pause, MoreQuestions, Put
<1>6. TypeOK'
  BY <1>2, <1>4, <1>5 DEF Pause, QuizInv, TypeOK, Steps
<1>7. LoopInv'
  BY <1>2, <1>4, <1>5 DEF Pause, LoopInv
<1>8. DeadlineIsFair'
  BY <1>4 DEF Pause, DeadlineIsFair
<1>9. EachAnswerCreditedOnce'
  BY <1>5 DEF Pause, QuizInv, EachAnswerCreditedOnce
<1>10. QED
  BY <1>6, <1>7, <1>8, <1>9 DEF QuizInv

LEMMA ThinkStep == ASSUME QuizInv, Think PROVE QuizInv'
<1>1. /\ left \in Int /\ thinking \in Nat /\ overrun \in Nat
      /\ TimeLimit[difficulty] \in Nat
      /\ left = TimeLimit[difficulty] - thinking - overrun
  BY Levels DEF Think, QuizInv, TypeOK, DeadlineIsFair
<1>2. TypeOK' /\ LoopInv' /\ EachAnswerCreditedOnce'
  BY <1>1 DEF Think, QuizInv, TypeOK, LoopInv, EachAnswerCreditedOnce
<1>3. DeadlineIsFair'
  BY <1>1 DEF Think, DeadlineIsFair
<1>4. QED
  BY <1>2, <1>3 DEF QuizInv

LEMMA CreditStep == ASSUME QuizInv, Credit PROVE QuizInv'
<1>1. /\ uncredited = correct * Multiplier[difficulty]
      /\ correct * Multiplier[difficulty] \in Nat
  BY Levels DEF Credit, QuizInv, TypeOK, EachAnswerCreditedOnce
<1>2. uncredited' = 0
  BY <1>1 DEF Credit
<1>3. QED
  BY <1>2 DEF Credit, QuizInv, TypeOK, LoopInv, DeadlineIsFair,
              EachAnswerCreditedOnce, Steps

\* The steps between rounds, and those that end the program.
LEMMA OtherSteps ==
  ASSUME QuizInv, Start \/ PlayAgain \/ Leave \/ Throw \/ Ended \/ UNCHANGED vars
  PROVE  QuizInv'
<1>1. CASE Start
  BY <1>1 DEF Start, QuizInv, TypeOK, LoopInv, DeadlineIsFair,
              EachAnswerCreditedOnce, Steps
<1>2. CASE PlayAgain
  BY <1>2 DEF PlayAgain, QuizInv, TypeOK, LoopInv, DeadlineIsFair,
              EachAnswerCreditedOnce, Steps, Difficulties, Easy, Hard
<1>3. CASE Leave
  BY <1>3 DEF Leave, QuizInv, TypeOK, LoopInv, DeadlineIsFair,
              EachAnswerCreditedOnce, Steps
<1>4. CASE Throw
  BY <1>4 DEF Throw, QuizInv, TypeOK, LoopInv, DeadlineIsFair,
              EachAnswerCreditedOnce, Steps
<1>5. CASE Ended \/ UNCHANGED vars
  BY <1>5 DEF Ended, vars, QuizInv, TypeOK, LoopInv, DeadlineIsFair,
              EachAnswerCreditedOnce
<1>6. QED
  BY <1>1, <1>2, <1>3, <1>4, <1>5

LEMMA QuizStep == QuizInv /\ [Next]_vars => QuizInv'
<1> SUFFICES ASSUME QuizInv, [Next]_vars PROVE QuizInv'
  OBVIOUS
<1>1. CASE Load
  BY <1>1, LoadStep
<1>2. CASE Answer
  BY <1>2, AnswerStep
<1>3. CASE Pause
  BY <1>3, PauseStep
<1>4. CASE Think
  BY <1>4, ThinkStep
<1>5. CASE Credit
  BY <1>5, CreditStep
<1>6. CASE Start \/ PlayAgain \/ Leave \/ Throw \/ Ended \/ UNCHANGED vars
  BY <1>6, OtherSteps
<1>7. QED
  BY <1>1, <1>2, <1>3, <1>4, <1>5, <1>6 DEF Next

LEMMA QuizAlways == Spec => []QuizInv
  BY QuizInit, QuizStep, PTL DEF Spec

\* However many rows the query returns, runQuiz indexes its set of questions out of
\* range only at the first question of an empty set.
THEOREM QuizQuestionInRange == Spec => []QuestionInRange
<1>1. QuizInv => QuestionInRange
  BY DEF QuizInv, LoopInv, QuestionInRange
<1>2. QED
  BY <1>1, QuizAlways, PTL

\* The summary tells the player what happened.
THEOREM QuizSummaryIsRight == Spec => []SummaryIsRight
<1>1. QuizInv => SummaryIsRight
  BY DEF QuizInv, TypeOK, LoopInv, SummaryIsRight
<1>2. QED
  BY <1>1, QuizAlways, PTL

\* timerEnd takes from the limit what the player thinks, and what pauses overrun.
THEOREM QuizDeadlineIsFair == Spec => []DeadlineIsFair
  BY QuizAlways, PTL DEF QuizInv

\* Points are credited once each, at the worth of their level.
THEOREM QuizEachAnswerCreditedOnce == Spec => []EachAnswerCreditedOnce
  BY QuizAlways, PTL DEF QuizInv

\* No question after the first is put to a player whose time is used up.
THEOREM QuizOnTimeQuestions == Spec => OnTimeQuestions
<1> DEFINE OnTime == pc # "question" /\ pc' = "question" /\ number' > 1
                       => thinking' < TimeLimit[difficulty]
<1>1. ASSUME QuizInv, QuizInv', [Next]_vars PROVE [OnTime]_vars
  <2> SUFFICES ASSUME pc # "question", pc' = "question", number' > 1
               PROVE  thinking' < TimeLimit[difficulty]
    OBVIOUS
  <2>1. ~Load
    BY DEF Load
  <2>2. Pause
    BY <2>1, <1>1 DEF Next, vars, Start, Think, Answer, Credit, PlayAgain, Leave,
                      Throw, Ended
  <2>3. left' > 0 /\ difficulty' = difficulty
    BY <2>2 DEF Pause, MoreQuestions
  <2>4. /\ left' = TimeLimit[difficulty] - thinking' - overrun'
        /\ thinking' \in Nat /\ overrun' \in Nat /\ TimeLimit[difficulty] \in Nat
    BY <1>1, <2>3, Levels DEF QuizInv, TypeOK, DeadlineIsFair
  <2>5. QED
    BY <2>3, <2>4
<1>2. QED
  BY <1>1, QuizAlways, PTL DEF Spec, OnTimeQuestions

-----------------------------------------------------------------------------
(* Seen from outside, runQuiz is a series of rounds.                        *)

\* A round has the questions its level asks for, and no more right answers than
\* questions that have been answered.
ScoreInv ==
    /\ pc \in InRound => size = Wanted[difficulty]
    /\ pc = "pause" => correct <= number
    /\ pc \in {"question", "summary"} => correct + 1 <= number

LEMMA ScoreStep == QuizInv /\ ScoreInv /\ [Next]_vars => ScoreInv'
<1> SUFFICES ASSUME QuizInv, ScoreInv, [Next]_vars PROVE ScoreInv'
  OBVIOUS
<1> USE DEF InRound
<1>1. CASE Load
  BY <1>1 DEF Load, Put, ScoreInv
<1>2. CASE Answer
  <2>1. number \in Nat /\ correct \in Nat /\ correct' \in {correct, correct + 1}
    BY <1>2 DEF Answer, QuizInv, TypeOK
  <2>2. pc = "question" /\ pc' = "pause" /\ UNCHANGED <<number, size, difficulty>>
    BY <1>2 DEF Answer
  <2>3. correct' <= number
    BY <2>1, <2>2 DEF ScoreInv
  <2>4. QED
    BY <2>2, <2>3 DEF ScoreInv
<1>3. CASE Pause
  <2>1. /\ number \in Nat /\ correct \in Nat /\ number' = number + 1 /\ correct' = correct
        /\ pc = "pause" /\ UNCHANGED <<size, difficulty>>
        /\ pc' \in {"question", "summary"}
    BY <1>3, PauseTarget DEF Pause, QuizInv, TypeOK
  <2>2. QED
    BY <2>1 DEF ScoreInv
<1>4. CASE Think
  BY <1>4 DEF Think, ScoreInv
<1>5. CASE Start \/ Credit \/ PlayAgain \/ Leave \/ Throw
  BY <1>5 DEF Start, Credit, PlayAgain, Leave, Throw, ScoreInv
<1>6. CASE Ended \/ UNCHANGED vars
  BY <1>6 DEF Ended, vars, ScoreInv
<1>7. QED
  BY <1>1, <1>2, <1>3, <1>4, <1>5, <1>6 DEF Next

LEMMA RoundInit == Init => R!Init /\ ScoreInv
  BY DEF Init, R!Init, QuizStage, QuizLevel, QuizPaid, ScoreInv, InRound, Easy

\* Settling is the call of updatePlayerPoints, with the round's right answers.
LEMMA SettleStep == ASSUME QuizInv, ScoreInv, Credit PROVE R!Settle
<1>1. /\ pc = "summary" /\ pc' = "nextMenu" /\ UNCHANGED <<difficulty, correct>>
      /\ correct \in Nat /\ number \in 1..(size + 1) /\ size \in Nat
      /\ size = Wanted[difficulty] /\ correct + 1 <= number
  BY DEF Credit, QuizInv, TypeOK, LoopInv, ScoreInv, InRound
<1>2. correct \in 0..Wanted[difficulty]
  BY <1>1
<1>3. QED
  BY <1>1, <1>2 DEF R!Settle, QuizStage, QuizLevel, QuizPaid

LEMMA RoundStep ==
  QuizInv /\ ScoreInv /\ [Next]_vars =>
     [R!Next]_<<QuizStage, QuizLevel, QuizPaid>>
<1> SUFFICES ASSUME QuizInv, ScoreInv, [Next]_vars
             PROVE  [R!Next]_<<QuizStage, QuizLevel, QuizPaid>>
  OBVIOUS
<1>1. CASE Start
  BY <1>1 DEF Start, R!Next, R!Begin, R!Levels, QuizStage, QuizLevel, QuizPaid,
                Difficulties, Easy
<1>2. CASE Load
  <2>1. CASE pc' = "crashed"
    BY <1>2, <2>1 DEF Load, R!Next, R!Stop, R!NoRound, QuizStage, QuizLevel, QuizPaid, Easy
  <2>2. CASE pc' = "question"
    BY <1>2, <2>2 DEF Load, QuizStage, QuizLevel, QuizPaid
  <2>3. QED
    BY <1>2, <2>1, <2>2 DEF Load, Put
<1>3. CASE Think \/ Answer
  BY <1>3 DEF Think, Answer, QuizStage, QuizLevel, QuizPaid
<1>4. CASE Pause
  <2>1. pc = "pause" /\ pc' \in {"question", "summary"} /\ UNCHANGED difficulty
    BY <1>4, PauseTarget DEF Pause
  <2>2. QED
    BY <2>1 DEF QuizStage, QuizLevel, QuizPaid
<1>5. CASE Credit
  BY <1>5, SettleStep DEF R!Next
<1>6. CASE PlayAgain
  BY <1>6 DEF PlayAgain, R!Next, R!Again, QuizStage, QuizLevel, QuizPaid
<1>7. CASE Leave
  BY <1>7 DEF Leave, R!Next, R!Leave, R!NoRound, QuizStage, QuizLevel, QuizPaid, Easy
<1>8. CASE Throw
  BY <1>8 DEF Throw, R!Next, R!Stop, R!NoRound, QuizStage, QuizLevel, QuizPaid, Easy
<1>9. CASE Ended \/ UNCHANGED vars
  BY <1>9 DEF Ended, vars, QuizStage, QuizLevel, QuizPaid
<1>10. QED
  BY <1>1, <1>2, <1>3, <1>4, <1>5, <1>6, <1>7, <1>8, <1>9 DEF Next

\* A quiz is a series of rounds at rising levels, none of them worth more than all
\* its questions, for any clock and any player.
THEOREM QuizImplementsRound == Spec => ImplementsRound
  BY QuizAlways, RoundInit, ScoreStep, RoundStep, PTL DEF Spec, ImplementsRound, R!Spec
=============================================================================
