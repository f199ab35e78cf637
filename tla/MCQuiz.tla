------------------------------- MODULE MCQuiz -------------------------------
(* Quiz with the row counts of the shipped question databases.              *)
EXTENDS Quiz

FrogsAndFliesRows == 62
MathTriviaRows == 59
ShippedRows == {FrogsAndFliesRows, MathTriviaRows}
RowsOrFailure == ShippedRows \union {0}
=============================================================================
