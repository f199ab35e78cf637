--------------------------- MODULE SqliteWrapper ---------------------------
(***************************************************************************)
(* sqlitewrapper::SqliteDatabaseEngine: one handle, called in any order.    *)
(*                                                                         *)
(* A statement is reduced to the file it parses on and the rows it         *)
(* returns; a write returns none.  Each sqlite3_step moves to the next row, *)
(* the step after the last row ends the execution, and a step after the    *)
(* end starts over.                                                        *)
(*                                                                         *)
(* A call is one step, except getNumberOfReturnedRows, whose loop executes  *)
(* the statement to its end, one row per step.                             *)
(***************************************************************************)
EXTENDS Naturals

CONSTANTS
    Files,       \* file names a client passes
    Openable,    \* the files that are databases
    Statements,  \* statements a client passes: [on : Files, rows : Nat]
    None         \* the null pointer

ASSUME FilesAssumption == Openable \subseteq Files /\ None \notin Files
ASSUME StatementsAssumption ==
    Statements \subseteq [on : Files, rows : Nat] /\ None \notin Statements

VARIABLES
    pc,        \* none, open, counting, destroyed, thrown, crashed
    flaky,     \* whether a valid call into SQLite may fail, in this behaviour
    db,        \* the connection: its file, or None when the file did not open
    statement, \* currentStatement
    row,       \* the row its cursor is on; 0 before the first, and at the end
    hasRow,    \* statementType is RETURNS_ROW_DATA
    counted,   \* getNumberOfReturnedRows's count; 0 outside its loop
    called,    \* history: the last call and what it returned
    steps      \* history: executions since the cursor was last before the first row

vars == <<pc, flaky, db, statement, row, hasRow, counted, called, steps>>

NoCall == [call |-> "none", value |-> 0]
False == 0
True == 1

TypeOK ==
    /\ pc \in {"none", "open", "counting", "destroyed", "thrown", "crashed"}
    /\ flaky \in BOOLEAN
    /\ db \in Openable \union {None}
    /\ statement \in Statements \union {None}
    /\ row \in Nat /\ counted \in Nat /\ steps \in Nat
    /\ hasRow \in BOOLEAN
    /\ called \in [call : {"none", "construct", "change", "set", "execute", "count", "obtain"},
                   value : Nat]

Init ==
    /\ pc = "none"
    /\ flaky \in BOOLEAN
    /\ db = None /\ statement = None /\ row = 0 /\ hasRow = FALSE
    /\ counted = 0 /\ called = NoCall /\ steps = 0

-----------------------------------------------------------------------------

Return(c, v) == called' = [call |-> c, value |-> v]

\* checkConnectionToDatabase, on a connection of its own.
CanOpen(f) == f \in Openable

\* checkStatement: the statement parses on the current connection.
Parses(s) == db # None /\ s.on = db

\* The second open, after the check's: it may still fail.
Opened(f) == {f} \union (IF flaky THEN {None} ELSE {})

\* Mutant: statementType is not reset.
NoStatementKeepsType == statement' = None /\ row' = 0 /\ UNCHANGED hasRow

NoStatement == statement' = None /\ row' = 0 /\ hasRow' = FALSE

\* The constructor throws when its check fails, as it may for any file.
Construct ==
    /\ pc = "none"
    /\ \E f \in Files :
         \/ /\ CanOpen(f)
            /\ pc' = "open"
            /\ db' \in Opened(f)
         \/ /\ ~CanOpen(f) \/ flaky
            /\ pc' = "thrown"
            /\ UNCHANGED db
    /\ NoStatement
    /\ Return("construct", True)
    /\ UNCHANGED <<flaky, counted, steps>>

ChangeDatabaseConnection ==
    /\ pc = "open"
    /\ \E f \in Files :
         \/ /\ CanOpen(f)
            /\ db' \in Opened(f)
            /\ NoStatement
            /\ steps' = 0
            /\ Return("change", True)
         \/ /\ ~CanOpen(f) \/ flaky
            /\ Return("change", False)
            /\ UNCHANGED <<db, statement, row, hasRow, steps>>
    /\ UNCHANGED <<pc, flaky, counted>>

\* The statement is prepared twice: once to see whether it is valid, and again,
\* after the old one is gone, without looking at the result.
SetExecutionStatement ==
    /\ pc = "open"
    /\ \E s \in Statements :
         \/ /\ Parses(s)
            /\ statement' \in {s} \union (IF flaky THEN {None} ELSE {})
            /\ row' = 0
            /\ hasRow' = FALSE
            /\ steps' = 0
            /\ Return("set", True)
         \/ /\ ~Parses(s) \/ flaky
            /\ Return("set", False)
            /\ UNCHANGED <<statement, row, hasRow, steps>>
    /\ UNCHANGED <<pc, flaky, db, counted>>

\* sqlite3_step; 0 stands for the end of the execution and for a failure.
NextRow == IF row < statement.rows THEN row + 1 ELSE 0

\* Mutant: the statement is reset before each step.
ExecuteFromStart ==
    /\ pc = "open"
    /\ \/ /\ statement # None
          /\ row' = IF statement.rows > 0 THEN 1 ELSE 0
          /\ hasRow' = (row' # 0)
          /\ Return("execute", True)
       \/ /\ statement = None
          /\ Return("execute", False)
          /\ UNCHANGED <<row, hasRow>>
    /\ steps' = IF statement # None /\ steps <= statement.rows THEN steps + 1 ELSE steps
    /\ UNCHANGED <<pc, flaky, db, statement, counted>>

\* Mutant: statementType is set on a row and never taken back.
ExecuteKeepsType ==
    /\ pc = "open"
    /\ \/ /\ statement # None
          /\ row' \in {NextRow} \union (IF flaky THEN {0} ELSE {})
          /\ hasRow' = (hasRow \/ row' # 0)
          /\ Return("execute", True)
       \/ /\ statement = None
          /\ Return("execute", False)
          /\ UNCHANGED <<row, hasRow>>
    /\ steps' = IF statement # None /\ steps <= statement.rows THEN steps + 1 ELSE steps
    /\ UNCHANGED <<pc, flaky, db, statement, counted>>

ExecuteStatement ==
    /\ pc = "open"
    /\ \/ /\ statement # None
          /\ row' \in {NextRow} \union (IF flaky THEN {0} ELSE {})
          /\ hasRow' = (row' # 0)
          /\ Return("execute", True)
       \/ /\ statement = None
          /\ Return("execute", False)
          /\ UNCHANGED <<row, hasRow>>
    \* past the last row of the statement the history has nothing to tell
    /\ steps' = IF statement # None /\ steps <= statement.rows THEN steps + 1 ELSE steps
    /\ UNCHANGED <<pc, flaky, db, statement, counted>>

\* Mutant: counts what is left instead of starting over.
CountRemaining ==
    /\ pc = "open"
    /\ \/ /\ hasRow /\ statement # None
          /\ pc' = "counting"
          /\ steps' = 0
          /\ UNCHANGED <<row, called>>
       \/ /\ ~(hasRow /\ statement # None)
          /\ Return("count", 0)
          /\ UNCHANGED <<pc, row, steps>>
    /\ UNCHANGED <<flaky, db, statement, hasRow, counted>>

\* The call, up to the first sqlite3_reset, which statementType survives.
GetNumberOfReturnedRows ==
    /\ pc = "open"
    /\ \/ /\ hasRow /\ statement # None
          /\ pc' = "counting"
          /\ row' = 0
          /\ steps' = 0
          /\ UNCHANGED called
       \/ /\ ~(hasRow /\ statement # None)
          /\ Return("count", 0)
          /\ UNCHANGED <<pc, row, steps>>
    /\ UNCHANGED <<flaky, db, statement, hasRow, counted>>

\* One test of its loop.  A step that gives no row, the end or a failure, ends
\* the loop, and the second reset leaves the cursor before the first row.
CountRow ==
    /\ pc = "counting"
    /\ row' \in {NextRow} \union (IF flaky THEN {0} ELSE {})
    /\ \/ /\ row' # 0
          /\ counted' = counted + 1
          /\ UNCHANGED <<pc, called>>
       \/ /\ row' = 0
          /\ counted' = 0
          /\ pc' = "open"
          /\ Return("count", counted)
    /\ UNCHANGED <<flaky, db, statement, hasRow, steps>>

\* The columns of the row the cursor is on.  Without one, sqlite3_column_text
\* gives a null pointer, from which a std::string is constructed.
ObtainStatementResultRow ==
    /\ pc = "open"
    /\ \/ /\ hasRow /\ row # 0
          /\ Return("obtain", True)
          /\ UNCHANGED pc
       \/ /\ hasRow /\ row = 0
          /\ pc' = "crashed"
          /\ UNCHANGED called
       \/ /\ ~hasRow
          /\ Return("obtain", False)
          /\ UNCHANGED pc
    /\ UNCHANGED <<flaky, db, statement, row, hasRow, counted, steps>>

Destroy ==
    /\ pc = "open"
    /\ pc' = "destroyed"
    /\ db' = None
    /\ NoStatement
    /\ UNCHANGED <<flaky, counted, called, steps>>

Gone == pc \in {"destroyed", "thrown", "crashed"} /\ UNCHANGED vars

Next ==
    \/ Construct \/ ChangeDatabaseConnection \/ SetExecutionStatement
    \/ ExecuteStatement \/ GetNumberOfReturnedRows \/ CountRow
    \/ ObtainStatementResultRow \/ Destroy \/ Gone

Spec == Init /\ [][Next]_vars

-----------------------------------------------------------------------------
(* Properties.                                                             *)

\* RETURNS_ROW_DATA is said only of a statement of the current connection, as
\* the comment on obtainStatementResultRow has it: no sequence of calls leaves
\* the type behind when the statement or the connection goes.
RowNeedsStatement ==
    hasRow => /\ statement # None
              /\ db # None
              /\ statement.on = db

\* What the counting loop returns is the number of rows of the statement, on
\* whichever row the executions before had left its cursor, as long as SQLite
\* does not fail.
CountIsComplete ==
    ~flaky /\ called.call = "count" /\ hasRow => called.value = statement.rows

\* What the leaderboards and getQuestionSet rely on: after counting n rows, the
\* next n executions visit rows 1 to n in order, as long as SQLite does not fail.
CountThenIterate ==
    ~flaky /\ statement # None /\ steps \in 1..statement.rows => hasRow /\ row = steps

\* Once a statement has been executed since it was set or its rows were counted,
\* RETURNS_ROW_DATA means that the cursor holds a row, whatever fails: count is
\* the only call that moves the cursor off its row and leaves the type.
RowIsHeld == hasRow /\ steps > 0 => row # 0
=============================================================================
