--------------------------- MODULE MCQuestionSet ---------------------------
(* QuestionSet with small tables: none, one or several rows, fewer than, as *)
(* many as, and more than the questions wanted.                             *)
EXTENDS QuestionSet

AskedFor == 1..3
TableSizes == {0, 1, 3, 4}
=============================================================================
