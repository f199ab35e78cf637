---------------------------- MODULE QuestionSet ----------------------------
(***************************************************************************)
(* How runQuiz comes by its questions: getQuestionSet draws the numbers of *)
(* the rows it wants, walks a query's rows up to each of them, and the     *)
(* Shuffler puts what it kept in another order.                            *)
(*                                                                         *)
(* It is a client of SqliteWrapper: every use of the handle is a step of   *)
(* that module.  A question is the number of its row.                      *)
(***************************************************************************)
EXTENDS Naturals, Sequences, FiniteSets, FiniteSetsExt

CONSTANTS
    Wanteds,   \* numbers of questions runQuiz asks for
    Tables,    \* numbers of distinct rows a question database may have
    Database,  \* a question database
    Missing,   \* the name of one that does not open
    None       \* the null pointer

ASSUME WantedsAssumption == Wanteds \subseteq Nat \ {0} /\ Tables \subseteq Nat
ASSUME NamesDiffer == Database # Missing /\ None \notin {Database, Missing}

VARIABLES
    handle, flaky, db, statement, row, hasRow, counted, called, steps,  \* SqliteWrapper's
    at,        \* where the code is
    wanted,    \* numberOfQuestions
    table,     \* the rows the query finds
    returned,  \* numberOfQuestionsReturned
    drawn,     \* alreadyGeneratedNumbers, kept as a history
    queue,     \* rowsToObtain, which pops its least number first
    count,     \* the execution of the walk that comes next
    set,       \* questionAnswerVec, later the Shuffler's vectorContainer
    place      \* the place std::shuffle fills next

handleVars == <<handle, flaky, db, statement, row, hasRow, counted, called, steps>>
vars == <<handleVars, at, wanted, table, returned, drawn, queue, count, set, place>>

Query(rows) == [on |-> Database, rows |-> rows]

\* A statement is not the null pointer.
ASSUME NoneIsNoStatement == \A rows \in Tables : Query(rows) # None

H == INSTANCE SqliteWrapper WITH
        pc <- handle,
        Files <- {Database, Missing},
        Openable <- {Database},
        Statements <- {Query(rows) : rows \in Tables}

Places == {"construct", "set", "execute", "count", "draw", "walk", "take",
           "destroy", "shuffle", "done", "stopped"}

TypeOK ==
    /\ H!TypeOK
    /\ at \in Places
    /\ wanted \in Wanteds /\ table \in Tables
    /\ returned \in 0..table
    /\ drawn \subseteq 1..returned /\ queue \subseteq drawn
    /\ count \in Nat
    /\ set \in Seq(0..table)
    /\ place \in Nat

\* Mutant: the walk counts from zero.
InitCountsFromZero ==
    /\ H!Init
    /\ at = "construct"
    /\ wanted \in Wanteds /\ table \in Tables
    /\ returned = 0
    /\ drawn = {} /\ queue = {} /\ count = 0 /\ set = <<>> /\ place = 1

Init ==
    /\ H!Init
    /\ at = "construct"
    /\ wanted \in Wanteds /\ table \in Tables
    /\ returned = 0
    /\ drawn = {} /\ queue = {} /\ count = 1 /\ set = <<>> /\ place = 1

-----------------------------------------------------------------------------
(* The query.                                                              *)

Construct ==
    /\ at = "construct"
    /\ H!Construct
    /\ at' = IF handle' = "open" THEN "set" ELSE "stopped"
    /\ UNCHANGED <<wanted, table, returned, drawn, queue, count, set, place>>

\* The answers of these two calls are not looked at.
SetStatement ==
    /\ at = "set"
    /\ H!SetExecutionStatement
    /\ statement' \in {Query(table), None}
    /\ at' = "execute"
    /\ UNCHANGED <<wanted, table, returned, drawn, queue, count, set, place>>

FirstExecution ==
    /\ at = "execute"
    /\ H!ExecuteStatement
    /\ at' = "count"
    /\ UNCHANGED <<wanted, table, returned, drawn, queue, count, set, place>>

\* Mutant: the numbers wanted are not compared with those there are.
WantedFitsAnyhow(n) == wanted > 0 /\ n >= 1

\* getSortedRandomNumberQueue's test, for the range from 1 to n.
WantedFits(n) == wanted > 0 /\ n >= 1 /\ wanted <= n

\* Counting goes through the rows.  With fewer rows than wanted there is no queue,
\* and the set stays empty.
Count ==
    /\ at = "count"
    /\ H!GetNumberOfReturnedRows \/ H!CountRow
    /\ \/ handle' = "counting" /\ UNCHANGED <<at, returned>>
       \/ /\ handle' # "counting"
          /\ returned' = called'.value
          /\ at' = IF WantedFits(returned') THEN "draw" ELSE "destroy"
    /\ UNCHANGED <<wanted, table, drawn, queue, count, set, place>>

-----------------------------------------------------------------------------
(* The draw and the walk.                                                  *)

\* Mutant: the range ends one number too far.
DrawPast ==
    /\ at = "draw"
    /\ \E n \in 1..(returned + 1) : drawn' = drawn \union {n} /\ queue' = queue \union {n}
    /\ at' = IF Cardinality(queue') = wanted THEN "walk" ELSE "draw"
    /\ UNCHANGED <<handleVars, wanted, table, returned, count, set, place>>

\* A number that came up before is drawn again.
Draw ==
    /\ at = "draw"
    /\ \E n \in 1..returned : drawn' = drawn \union {n} /\ queue' = queue \union {n}
    /\ at' = IF Cardinality(queue') = wanted THEN "walk" ELSE "draw"
    /\ UNCHANGED <<handleVars, wanted, table, returned, count, set, place>>

\* Mutant: the walk moves on only when it keeps no row.
WalkLate ==
    /\ at = "walk"
    /\ IF count = Min(queue) THEN H!ExecuteStatement /\ at' = "take" /\ UNCHANGED count
       ELSE UNCHANGED handleVars /\ count' = count + 1 /\ UNCHANGED at
    /\ UNCHANGED <<wanted, table, returned, drawn, queue, set, place>>

\* One execution per row; the row is kept if its number is the next in the queue.
Walk ==
    /\ at = "walk"
    /\ H!ExecuteStatement
    /\ IF count = Min(queue) THEN at' = "take" /\ UNCHANGED count
                             ELSE count' = count + 1 /\ UNCHANGED at
    /\ UNCHANGED <<wanted, table, returned, drawn, queue, set, place>>

Obtained == handle' = "open" /\ called'.value = H!True

\* The row is kept and its number popped.  If no row was obtained, the first
\* column of none is read, which ends the process.
Take ==
    /\ at = "take"
    /\ H!ObtainStatementResultRow
    /\ \/ /\ Obtained
          /\ set' = Append(set, row)
          /\ queue' = queue \ {Min(queue)}
          /\ count' = count + 1
          /\ at' = IF queue' = {} THEN "destroy" ELSE "walk"
       \/ /\ ~Obtained
          /\ at' = "stopped"
          /\ UNCHANGED <<set, queue, count>>
    /\ UNCHANGED <<wanted, table, returned, drawn, place>>

Destroy ==
    /\ at = "destroy"
    /\ H!Destroy
    /\ at' = "shuffle"
    /\ UNCHANGED <<wanted, table, returned, drawn, queue, count, set, place>>

-----------------------------------------------------------------------------
(* Shuffler::shuffle, with std::shuffle as swaps of a place with one up to it. *)

Swap(i, j) == [set EXCEPT ![i] = set[j], ![j] = set[i]]

Shuffle ==
    /\ at = "shuffle"
    /\ \/ /\ place <= Len(set)
          /\ \E j \in 1..place : set' = Swap(place, j)
          /\ place' = place + 1
          /\ UNCHANGED at
       \/ /\ place > Len(set)
          /\ at' = "done"
          /\ UNCHANGED <<set, place>>
    /\ UNCHANGED <<handleVars, wanted, table, returned, drawn, queue, count>>

\* runQuiz has its questions, or the process has ended.
Finished == at \in {"done", "stopped"} /\ UNCHANGED vars

Program ==
    \/ Construct \/ SetStatement \/ FirstExecution \/ Count
    \/ Draw \/ Walk \/ Take \/ Destroy \/ Shuffle

Next == Program \/ Finished

Spec == Init /\ [][Next]_vars

\* The program waits for nobody.  A step of Draw that changes nothing is no step:
\* fairness asks that a number not drawn before comes up in the end, as a uniform
\* distribution over all of them lets it, with probability one.
FairSpec == Spec /\ WF_vars(Program)

-----------------------------------------------------------------------------
(* Properties.                                                             *)

\* runQuiz gets as many questions as it asked for or none, even if the query
\* fails half way; and, if nothing fails, none only from too small a table.
WholeOrEmpty ==
    at = "done" =>
        /\ Len(set) \in {0, wanted}
        /\ ~flaky => Len(set) = IF table >= wanted THEN wanted ELSE 0

\* The questions of a round are the rows drawn, each once: the walk from one
\* number of the queue to the next, on a cursor that counting had moved, loses
\* no step, and the shuffle loses no question.
QuestionsAreTheDrawn ==
    ~flaky /\ at \in {"shuffle", "done"} =>
        {set[k] : k \in DOMAIN set} = drawn /\ Len(set) = Cardinality(drawn)

\* A database that opens and a query that does not fail never end the process:
\* every row the code takes is one the cursor is on.
ReliableNeverStops == ~flaky /\ at = "stopped" => handle = "thrown"

\* The questions arrive, however often a number comes up again.
SetArrives == at = "construct" ~> at \in {"done", "stopped"}
=============================================================================
