SPECIFICATION FairSpec

CONSTANTS
    RowCounts <- RowsOrFailure
    DatabaseThrows = TRUE
    MaxOverrun = 2
    MaxLate = 1

INVARIANT QuestionInRange
INVARIANT SummaryIsRight
INVARIANT DeadlineIsFair
INVARIANT EachAnswerCreditedOnce
PROPERTY OnTimeQuestions
PROPERTY RoundEnds
PROPERTY ImplementsRound
