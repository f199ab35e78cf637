------------------------ MODULE SqliteWrapper_proofs ------------------------
(***************************************************************************)
(* Theorems about the wrapper's handle, for any files and statements, and   *)
(* whether or not SQLite fails.                                             *)
(***************************************************************************)
EXTENDS SqliteWrapper, TLAPS

\* A statement is one of the connection the handle holds.
StatementInv ==
    statement # None => db # None /\ statement.on = db

\* Until a statement has run past its last row, the executions since it was set,
\* or counted, are the position of its cursor.
CursorInv ==
    ~flaky /\ pc # "counting" /\ statement # None /\ steps <= statement.rows =>
        row = steps /\ (steps > 0 => hasRow)

\* While rows are counted, the cursor is on the last row counted.
CountingInv ==
    pc = "counting" =>
        /\ statement # None /\ hasRow /\ steps = 0
        /\ row = counted /\ row <= statement.rows

\* The count is a local of the loop.
CountedInv == pc # "counting" => counted = 0

WrapperInv ==
    /\ TypeOK
    /\ StatementInv
    /\ RowNeedsStatement
    /\ CursorInv
    /\ CountingInv
    /\ CountedInv
    /\ CountIsComplete
    /\ RowIsHeld

LEMMA StatementType ==
  ASSUME NEW s \in Statements
  PROVE  s # None /\ s.on \in Files /\ s.rows \in Nat
  BY StatementsAssumption

Calls == {"none", "construct", "change", "set", "execute", "count", "obtain"}

LEMMA CalledType ==
  ASSUME NEW c \in Calls, NEW v \in Nat, Return(c, v)
  PROVE  called' \in [call : Calls, value : Nat]
  BY DEF Return

LEMMA WrapperInit == Init => WrapperInv
<1> SUFFICES ASSUME Init PROVE WrapperInv
  OBVIOUS
<1>1. TypeOK
  BY DEF Init, TypeOK, NoCall
<1>2. statement = None /\ hasRow = FALSE /\ pc = "none" /\ counted = 0
  BY DEF Init
<1>3. QED
  BY <1>1, <1>2 DEF WrapperInv, StatementInv, RowNeedsStatement, CursorInv,
                    CountingInv, CountedInv, CountIsComplete, RowIsHeld

\* With no statement and no row data, all but the types is vacuous.
LEMMA Blank ==
  ASSUME TypeOK', statement' = None, hasRow' = FALSE, pc' # "counting",
         counted' = 0
  PROVE  WrapperInv'
  BY DEF WrapperInv, StatementInv, RowNeedsStatement, CursorInv, CountingInv,
         CountedInv, CountIsComplete, RowIsHeld

\* A handle on which no call but one that counts is made, and whose statement,
\* cursor and connection stay, keeps what it has.
LEMMA Kept ==
  ASSUME WrapperInv, TypeOK', pc # "counting", pc' # "counting",
         UNCHANGED <<flaky, db, statement, row, hasRow, counted, steps>>,
         called'.call # "count" \/ called' = called
  PROVE  WrapperInv'
  BY DEF WrapperInv, StatementInv, RowNeedsStatement, CursorInv, CountingInv,
         CountedInv, CountIsComplete, RowIsHeld

LEMMA ConstructStep == ASSUME WrapperInv, Construct PROVE WrapperInv'
<1>1. statement' = None /\ hasRow' = FALSE /\ pc' # "counting" /\ counted' = 0
  BY DEF Construct, NoStatement, WrapperInv, CountedInv
<1>2. TypeOK'
  BY DEF Construct, NoStatement, Return, CanOpen, Opened, True, WrapperInv, TypeOK
<1>3. QED
  BY <1>1, <1>2, Blank

LEMMA ChangeStep == ASSUME WrapperInv, ChangeDatabaseConnection PROVE WrapperInv'
<1>0. pc = "open" /\ counted = 0 /\ UNCHANGED <<pc, flaky, counted>>
  BY DEF ChangeDatabaseConnection, WrapperInv, CountedInv
<1>1. TypeOK'
  <2>1. called' \in [call : Calls, value : Nat]
    <3>1. \E v \in Nat : Return("change", v)
      BY DEF ChangeDatabaseConnection, True, False
    <3>2. QED
      BY <3>1, CalledType DEF Calls
  <2>2. PICK f \in Files :
           \/ /\ CanOpen(f)
              /\ db' \in Opened(f)
              /\ NoStatement
              /\ steps' = 0
           \/ UNCHANGED <<db, statement, row, hasRow, steps>>
    BY DEF ChangeDatabaseConnection
  <2>3. CASE CanOpen(f) /\ db' \in Opened(f) /\ NoStatement /\ steps' = 0
    <3>1. /\ db' \in Openable \union {None}
          /\ statement' = None /\ row' = 0 /\ hasRow' = FALSE /\ steps' = 0
      BY <2>3 DEF CanOpen, Opened, NoStatement
    <3>2. QED
      BY <1>0, <2>1, <3>1 DEF WrapperInv, TypeOK, Calls
  <2>4. CASE UNCHANGED <<db, statement, row, hasRow, steps>>
    BY <1>0, <2>1, <2>4 DEF WrapperInv, TypeOK, Calls
  <2>5. QED
    BY <2>2, <2>3, <2>4
<1>2. CASE called'.value = True
  <2>1. statement' = None /\ hasRow' = FALSE
    BY <1>2 DEF ChangeDatabaseConnection, NoStatement, Return, True, False
  <2>2. QED
    BY <1>0, <1>1, <2>1, Blank
<1>3. CASE called'.value # True
  <2>1. /\ UNCHANGED <<flaky, db, statement, row, hasRow, steps>>
        /\ called'.call # "count"
    BY <1>3 DEF ChangeDatabaseConnection, Return, True, False
  <2>2. QED
    BY <1>0, <1>1, <2>1, Kept
<1>4. QED
  BY <1>2, <1>3

LEMMA SetStep == ASSUME WrapperInv, SetExecutionStatement PROVE WrapperInv'
<1>1. PICK s \in Statements :
         \/ /\ Parses(s)
            /\ statement' \in {s, None}
            /\ row' = 0 /\ hasRow' = FALSE /\ steps' = 0
            /\ Return("set", True)
         \/ /\ Return("set", False)
            /\ UNCHANGED <<statement, row, hasRow, steps>>
  BY DEF SetExecutionStatement
<1>2. pc = "open" /\ UNCHANGED <<pc, flaky, db, counted>>
  BY DEF SetExecutionStatement
<1>3. TypeOK'
  <2>1. called' \in [call : Calls, value : Nat]
    <3>1. \E v \in Nat : Return("set", v)
      BY <1>1 DEF True, False
    <3>2. QED
      BY <3>1, CalledType DEF Calls
  <2>2. /\ statement' \in Statements \union {None}
        /\ row' \in Nat /\ steps' \in Nat
    BY <1>1 DEF WrapperInv, TypeOK
  <2>3. hasRow' \in BOOLEAN
    BY <1>1 DEF WrapperInv, TypeOK
  <2>4. QED
    BY <1>2, <2>1, <2>2, <2>3 DEF WrapperInv, TypeOK, Calls
<1>4. CASE Parses(s) /\ statement' \in {s, None} /\ row' = 0 /\ hasRow' = FALSE
           /\ steps' = 0 /\ Return("set", True)
  BY <1>2, <1>3, <1>4, StatementType
     DEF Parses, Return, WrapperInv, StatementInv, RowNeedsStatement, CursorInv,
         CountingInv, CountedInv, CountIsComplete, RowIsHeld
<1>5. CASE Return("set", False) /\ UNCHANGED <<statement, row, hasRow, steps>>
  <2>1. called'.call # "count"
    BY <1>5 DEF Return
  <2>2. QED
    BY <1>2, <1>3, <1>5, <2>1, Kept
<1>6. QED
  BY <1>1, <1>4, <1>5

LEMMA ExecuteStep == ASSUME WrapperInv, ExecuteStatement PROVE WrapperInv'
<1>0. pc = "open" /\ pc' = "open" /\ counted' = counted
  BY DEF ExecuteStatement
<1>1. CASE statement # None
  <2>1. /\ statement \in Statements /\ row \in Nat /\ steps \in Nat
        /\ statement.rows \in Nat
    BY <1>1, StatementType DEF WrapperInv, TypeOK
  <2>2. /\ row' \in {NextRow} \union (IF flaky THEN {0} ELSE {})
        /\ hasRow' = (row' # 0)
        /\ called' = [call |-> "execute", value |-> True]
        /\ steps' = IF steps <= statement.rows THEN steps + 1 ELSE steps
        /\ UNCHANGED <<pc, flaky, db, statement>>
    BY <1>1 DEF ExecuteStatement, Return
  <2>3. row' \in Nat /\ (~flaky => row' = NextRow) /\ steps' \in Nat
    BY <2>1, <2>2 DEF NextRow
  <2>4. TypeOK'
    BY <1>0, <2>2, <2>3 DEF WrapperInv, TypeOK, True
  <2>5. StatementInv' /\ RowNeedsStatement'
    BY <1>1, <2>2 DEF WrapperInv, StatementInv, RowNeedsStatement
  <2>6. CursorInv'
    <3> SUFFICES ASSUME ~flaky, steps' <= statement.rows
                 PROVE  row' = steps' /\ hasRow'
      BY <1>1, <2>2 DEF CursorInv
    <3>1. steps < statement.rows /\ steps' = steps + 1
      BY <2>1, <2>2
    <3>2. row = steps
      BY <1>0, <1>1, <2>1, <3>1 DEF WrapperInv, CursorInv
    <3>3. row' = steps + 1
      BY <2>3, <3>1, <3>2 DEF NextRow
    <3>4. row' # 0
      BY <2>1, <3>3
    <3>5. hasRow'
      BY <2>2, <3>4, Zenon
    <3>6. QED
      BY <3>1, <3>3, <3>5
  <2>7. CountIsComplete' /\ RowIsHeld' /\ CountingInv' /\ CountedInv'
    BY <1>0, <2>2 DEF CountIsComplete, RowIsHeld, CountingInv, CountedInv, WrapperInv
  <2>8. QED
    BY <2>4, <2>5, <2>6, <2>7 DEF WrapperInv
<1>2. CASE statement = None
  <2>1. /\ UNCHANGED <<flaky, db, statement, row, hasRow, steps>>
        /\ called'.call # "count"
    BY <1>2 DEF ExecuteStatement, Return
  <2>2. TypeOK'
    BY <1>0, <1>2, <2>1 DEF ExecuteStatement, Return, False, WrapperInv, TypeOK
  <2>3. QED
    BY <1>0, <2>1, <2>2, Kept
<1>3. QED
  BY <1>1, <1>2

LEMMA CountStep == ASSUME WrapperInv, GetNumberOfReturnedRows PROVE WrapperInv'
<1>1. CASE hasRow /\ statement # None
  <2>1. statement \in Statements /\ statement.rows \in Nat
    BY <1>1, StatementType DEF WrapperInv, TypeOK
  <2>2. /\ pc' = "counting" /\ row' = 0 /\ steps' = 0
        /\ UNCHANGED <<flaky, db, statement, hasRow, counted, called>>
    BY <1>1 DEF GetNumberOfReturnedRows
  <2>3. counted = 0
    BY DEF GetNumberOfReturnedRows, WrapperInv, CountedInv
  <2>4. TypeOK'
    BY <2>2 DEF WrapperInv, TypeOK
  <2>5. QED
    BY <1>1, <2>1, <2>2, <2>3, <2>4
       DEF WrapperInv, StatementInv, RowNeedsStatement, CursorInv, CountingInv,
           CountedInv, CountIsComplete, RowIsHeld
<1>2. CASE ~(hasRow /\ statement # None)
  <2>1. /\ pc = "open" /\ called' = [call |-> "count", value |-> 0]
        /\ UNCHANGED <<pc, flaky, db, statement, row, hasRow, counted, steps>>
    BY <1>2 DEF GetNumberOfReturnedRows, Return
  <2>2. hasRow' = FALSE
    BY <1>2, <2>1 DEF WrapperInv, RowNeedsStatement, TypeOK
  <2>3. TypeOK'
    BY <2>1 DEF WrapperInv, TypeOK
  <2>4. QED
    BY <2>1, <2>2, <2>3 DEF WrapperInv, StatementInv, RowNeedsStatement, CursorInv,
                            CountingInv, CountedInv, CountIsComplete, RowIsHeld
<1>3. QED
  BY <1>1, <1>2

\* The loop ends, if nothing fails, with the last row counted.
LEMMA CountRowStep == ASSUME WrapperInv, CountRow PROVE WrapperInv'
<1>1. /\ statement # None /\ hasRow /\ steps = 0
      /\ row = counted /\ row <= statement.rows
      /\ UNCHANGED <<flaky, db, statement, hasRow, steps>>
      /\ pc = "counting"
  BY DEF CountRow, WrapperInv, CountingInv
<1>2. statement.rows \in Nat /\ row \in Nat /\ counted \in Nat
  BY <1>1, StatementType DEF WrapperInv, TypeOK
<1>3. row' \in {NextRow, 0} /\ (~flaky => row' = NextRow)
  BY DEF CountRow
<1>4. CASE row' # 0
  <2>1. pc' = "counting" /\ called' = called /\ counted' = counted + 1
    BY <1>1, <1>4 DEF CountRow
  <2>2. row' = row + 1 /\ row < statement.rows
    BY <1>3, <1>4 DEF NextRow
  <2>3. TypeOK'
    BY <1>1, <1>2, <2>1, <2>2 DEF WrapperInv, TypeOK
  <2>4. QED
    BY <1>1, <1>2, <2>1, <2>2, <2>3
       DEF WrapperInv, StatementInv, RowNeedsStatement, CursorInv, CountingInv,
           CountedInv, CountIsComplete, RowIsHeld
<1>5. CASE row' = 0
  <2>1. /\ pc' = "open" /\ counted' = 0
        /\ called' = [call |-> "count", value |-> counted]
    BY <1>5 DEF CountRow, Return
  <2>2. ~flaky => counted = statement.rows
    BY <1>1, <1>2, <1>3, <1>5 DEF NextRow
  <2>3. TypeOK'
    BY <1>1, <1>2, <1>5, <2>1 DEF WrapperInv, TypeOK
  <2>4. QED
    BY <1>1, <1>2, <1>5, <2>1, <2>2, <2>3
       DEF WrapperInv, StatementInv, RowNeedsStatement, CursorInv, CountingInv,
           CountedInv, CountIsComplete, RowIsHeld
<1>6. QED
  BY <1>4, <1>5

LEMMA ObtainStep == ASSUME WrapperInv, ObtainStatementResultRow PROVE WrapperInv'
<1>1. /\ UNCHANGED <<flaky, db, statement, row, hasRow, counted, steps>>
      /\ called'.call # "count" \/ called' = called
      /\ pc = "open" /\ pc' \in {"open", "crashed"}
  BY DEF ObtainStatementResultRow, Return
<1>2. TypeOK'
  BY DEF ObtainStatementResultRow, Return, True, False, WrapperInv, TypeOK
<1>3. QED
  BY <1>1, <1>2, Kept

LEMMA WrapperStep == WrapperInv /\ [Next]_vars => WrapperInv'
<1> SUFFICES ASSUME WrapperInv, [Next]_vars PROVE WrapperInv'
  OBVIOUS
<1>1. CASE Destroy
  <2>1. /\ TypeOK' /\ statement' = None /\ hasRow' = FALSE
        /\ pc' = "destroyed" /\ counted' = 0
    BY <1>1 DEF Destroy, NoStatement, WrapperInv, TypeOK, CountedInv
  <2>2. QED
    BY <2>1, Blank
<1>2. CASE Gone \/ UNCHANGED vars
  BY <1>2 DEF Gone, vars, WrapperInv, TypeOK, StatementInv, RowNeedsStatement, CursorInv,
              CountingInv, CountedInv, CountIsComplete, RowIsHeld
<1>3. QED
  BY <1>1, <1>2, ConstructStep, ChangeStep, SetStep, ExecuteStep, CountStep,
     CountRowStep, ObtainStep DEF Next

LEMMA WrapperAlways == Spec => []WrapperInv
  BY WrapperInit, WrapperStep, PTL DEF Spec

\* The statement type never outlives its statement or its connection.
THEOREM WrapperRowNeedsStatement == Spec => []RowNeedsStatement
  BY WrapperAlways, PTL DEF WrapperInv

\* Counting ends with the number of rows of the statement.
THEOREM WrapperCountIsComplete == Spec => []CountIsComplete
  BY WrapperAlways, PTL DEF WrapperInv

\* Counting and then executing visits the rows from the first on.
THEOREM WrapperCountThenIterate == Spec => []CountThenIterate
<1>1. WrapperInv => CountThenIterate
  <2> SUFFICES ASSUME WrapperInv, ~flaky, statement # None, steps \in 1..statement.rows
               PROVE  hasRow /\ row = steps
    BY DEF CountThenIterate
  <2>1. steps \in Nat /\ statement.rows \in Nat
    BY StatementType DEF WrapperInv, TypeOK
  <2>2. QED
    BY <2>1 DEF WrapperInv, CursorInv, CountingInv
<1>2. QED
  BY <1>1, WrapperAlways, PTL

\* After an execution, row data means that there is a row, whatever fails.
THEOREM WrapperRowIsHeld == Spec => []RowIsHeld
  BY WrapperAlways, PTL DEF WrapperInv
=============================================================================
