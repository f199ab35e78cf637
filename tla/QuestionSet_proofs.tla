------------------------ MODULE QuestionSet_proofs ------------------------
(***************************************************************************)
(* Theorems about the draw, the walk and the shuffle, for any numbers of    *)
(* questions wanted and of rows in the table, and whether or not SQLite     *)
(* fails.                                                                  *)
(***************************************************************************)
EXTENDS QuestionSet, FiniteSetTheorems, SequenceTheorems, NaturalsInduction,
        WellFoundedInduction, TLAPS

HP == INSTANCE SqliteWrapper_proofs WITH
        pc <- handle,
        Files <- {Database, Missing},
        Openable <- {Database},
        Statements <- {Query(rows) : rows \in Tables}

-----------------------------------------------------------------------------
(* Every use of the handle is a step of the wrapper, so that what is proved *)
(* of the wrapper holds here.                                              *)

LEMMA WrapperAssumptions == HP!FilesAssumption /\ HP!StatementsAssumption
  BY NamesDiffer, WantedsAssumption, NoneIsNoStatement
     DEF HP!FilesAssumption, HP!StatementsAssumption, Query

\* QuestionSet's copy of the wrapper and this module's are the same.
LEMMA SameInit == H!Init <=> HP!Init
  BY DEF H!Init, HP!Init, H!NoCall, HP!NoCall

LEMMA SameNext == H!Next => HP!Next
<1>1. H!Construct => HP!Construct
  BY DEF H!Construct, HP!Construct, H!CanOpen, HP!CanOpen, H!Opened, HP!Opened,
         H!NoStatement, HP!NoStatement, H!Return, HP!Return, H!True, HP!True
<1>2. H!ChangeDatabaseConnection => HP!ChangeDatabaseConnection
  BY DEF H!ChangeDatabaseConnection, HP!ChangeDatabaseConnection, H!CanOpen, HP!CanOpen,
         H!Opened, HP!Opened, H!NoStatement, HP!NoStatement, H!Return, HP!Return,
         H!True, HP!True, H!False, HP!False
<1>3. H!SetExecutionStatement => HP!SetExecutionStatement
  BY DEF H!SetExecutionStatement, HP!SetExecutionStatement, H!Parses, HP!Parses,
         H!Return, HP!Return, H!True, HP!True, H!False, HP!False
<1>4. H!ExecuteStatement => HP!ExecuteStatement
  BY DEF H!ExecuteStatement, HP!ExecuteStatement, H!NextRow, HP!NextRow,
         H!Return, HP!Return, H!True, HP!True, H!False, HP!False
<1>5. H!GetNumberOfReturnedRows => HP!GetNumberOfReturnedRows
  BY DEF H!GetNumberOfReturnedRows, HP!GetNumberOfReturnedRows, H!Return, HP!Return
<1>6. H!ObtainStatementResultRow => HP!ObtainStatementResultRow
  BY DEF H!ObtainStatementResultRow, HP!ObtainStatementResultRow, H!Return, HP!Return,
         H!True, HP!True, H!False, HP!False
<1>7. H!Destroy => HP!Destroy
  BY DEF H!Destroy, HP!Destroy, H!NoStatement, HP!NoStatement
<1>8. H!Gone => HP!Gone
  BY DEF H!Gone, HP!Gone, H!vars, HP!vars
<1>9. H!CountRow => HP!CountRow
  BY DEF H!CountRow, HP!CountRow, H!NextRow, HP!NextRow, H!Return, HP!Return
<1>10. QED
  BY <1>1, <1>2, <1>3, <1>4, <1>5, <1>6, <1>7, <1>8, <1>9 DEF H!Next, HP!Next

LEMMA WrapperStepIsProgram == [Next]_vars => [H!Next]_H!vars
<1> SUFFICES ASSUME [Next]_vars PROVE H!Next \/ UNCHANGED handleVars
  BY DEF handleVars, H!vars
<1>1. QED
  BY DEF Next, Program, Finished, vars, H!Next, Construct, SetStatement, FirstExecution,
         Count, Draw, Walk, Take, Destroy, Shuffle

\* The wrapper's calls are used as the wrapper allows.
THEOREM QuestionsUseWrapper == Spec => H!Spec
<1>1. Init => H!Init
  BY DEF Init
<1>2. QED
  BY <1>1, WrapperStepIsProgram, PTL DEF Spec, H!Spec

\* What holds of the wrapper with any client holds with this one.
LEMMA WrapperHolds == Spec => []HP!WrapperInv
<1>1. Init => HP!WrapperInv
  BY WrapperAssumptions, HP!WrapperInit, SameInit DEF Init
<1>2. HP!WrapperInv /\ [Next]_vars => HP!WrapperInv'
  <2> SUFFICES ASSUME HP!WrapperInv, [Next]_vars PROVE HP!WrapperInv'
    OBVIOUS
  <2>1. HP!Next \/ UNCHANGED HP!vars
    BY WrapperStepIsProgram, SameNext DEF H!vars, HP!vars
  <2>2. QED
    BY <2>1, WrapperAssumptions, HP!WrapperStep
<1>3. QED
  BY <1>1, <1>2, PTL DEF Spec

-----------------------------------------------------------------------------
(* The inductive invariant.                                                *)

Early == {"construct", "set", "execute", "count"}
Late == {"destroy", "shuffle", "done"}

\* The handle as this client leaves it.
HandleInv ==
    /\ statement \in {Query(table), None}
    /\ row \in 0..table
    /\ statement = None => ~hasRow /\ row = 0
    /\ at \in {"construct", "set"} => statement = None

Kept(s) == {s[k] : k \in DOMAIN s}

\* The rows kept and the numbers left to walk to are together as many as were
\* drawn, and, if nothing fails, they are the numbers drawn.
KeptInv ==
    /\ Len(set) + Cardinality(queue) = Cardinality(drawn)
    /\ ~flaky => Kept(set) \union queue = drawn

\* Where the code is says how far the draw and the walk have come.
StageInv ==
    /\ at \in Early \union {"draw"} => set = <<>> /\ drawn = queue /\ count = 1
    /\ at \in Early => drawn = {}
    /\ at = "draw" => Cardinality(drawn) < wanted /\ wanted <= returned
    /\ at \in {"walk", "take"} => Cardinality(drawn) = wanted /\ queue # {}
    /\ at \in Late => queue = {} /\ Cardinality(drawn) \in {0, wanted}
    /\ at = "take" => count = Min(queue)

\* If nothing fails, all rows of the table are there to be drawn.
EnoughInv ==
    ~flaky =>
        /\ at \in {"draw", "walk", "take"} => wanted <= table
        /\ at \in Late => Cardinality(drawn) = IF table >= wanted THEN wanted ELSE 0

\* If nothing fails, the cursor is on the row before the one the walk comes to
\* next, and no number of the queue has been passed.
CursorInv ==
    ~flaky =>
        /\ at = "set" => db = Database
        /\ at \in {"execute", "count", "draw", "walk", "take"} => statement = Query(table)
        /\ at \in {"execute", "draw"} => row = 0
        /\ at = "count" /\ handle # "counting" =>
              hasRow = (row # 0) /\ (row = 0 => table = 0)
        /\ at = "walk" => row + 1 = count /\ \A q \in queue : count <= q
        /\ at = "take" => row = count /\ hasRow
        /\ at = "stopped" => handle = "thrown"

QuestionInv == TypeOK /\ HandleInv /\ KeptInv /\ StageInv /\ EnoughInv /\ CursorInv

-----------------------------------------------------------------------------
(* Numbers, sequences, and the handle.                                     *)

\* A set of naturals has a least element, and Min is it.
LEMMA MinIsLeast ==
  ASSUME NEW S \in SUBSET Nat, S # {}
  PROVE  Min(S) \in S /\ \A x \in S : Min(S) <= x
<1>1. PICK m \in S : \A x \in S : ~ (<<x, m>> \in OpToRel(<, Nat))
  BY NatLessThanWellFounded, WFMin
<1>2. ASSUME NEW x \in S PROVE m <= x
  <2>1. ~ (<<x, m>> \in {p \in Nat \X Nat : p[1] < p[2]})
    BY <1>1, Zenon DEF OpToRel
  <2>2. QED
    BY <2>1
<1>3. QED
  BY <1>2 DEF Min

LEMMA KeptNone == Kept(<<>>) = {} /\ Len(<<>>) = 0
  BY DEF Kept

LEMMA KeptOneMore ==
  ASSUME NEW S, NEW s \in Seq(S), NEW e \in S
  PROVE  /\ Append(s, e) \in Seq(S)
         /\ Len(Append(s, e)) = Len(s) + 1
         /\ Kept(Append(s, e)) = Kept(s) \union {e}
<1>1. /\ Append(s, e) \in Seq(S)
      /\ Len(Append(s, e)) = Len(s) + 1
      /\ \A k \in 1..Len(s) : Append(s, e)[k] = s[k]
      /\ Append(s, e)[Len(s) + 1] = e
  BY AppendProperties
<1>2. /\ Len(s) \in Nat
      /\ DOMAIN s = 1..Len(s)
      /\ DOMAIN Append(s, e) = 1..(Len(s) + 1)
  BY <1>1, LenProperties
<1>3. ASSUME NEW x \in Kept(Append(s, e)) PROVE x \in Kept(s) \union {e}
  <2>1. PICK k \in 1..(Len(s) + 1) : x = Append(s, e)[k]
    BY <1>2 DEF Kept
  <2>2. CASE k = Len(s) + 1
    BY <1>1, <2>1, <2>2
  <2>3. CASE k # Len(s) + 1
    <3>1. k \in 1..Len(s)
      BY <1>2, <2>3
    <3>2. x = s[k]
      BY <1>1, <2>1, <3>1
    <3>3. QED
      BY <1>2, <3>1, <3>2 DEF Kept
  <2>4. QED
    BY <2>2, <2>3
<1>4. ASSUME NEW x \in Kept(s) PROVE x \in Kept(Append(s, e))
  <2>1. PICK k \in 1..Len(s) : x = s[k]
    BY <1>2 DEF Kept
  <2>2. x = Append(s, e)[k] /\ k \in 1..(Len(s) + 1)
    BY <1>1, <1>2, <2>1
  <2>3. QED
    BY <1>2, <2>2 DEF Kept
<1>5. e \in Kept(Append(s, e))
  <2>1. Len(s) + 1 \in 1..(Len(s) + 1)
    BY <1>2
  <2>2. QED
    BY <1>1, <1>2, <2>1 DEF Kept
<1>6. QED
  BY <1>1, <1>3, <1>4, <1>5

Exchanged(s, i, j) == [s EXCEPT ![i] = s[j], ![j] = s[i]]

\* An exchange of two questions loses none.
LEMMA SwapKeeps ==
  ASSUME NEW S, NEW s \in Seq(S), NEW i \in DOMAIN s, NEW j \in DOMAIN s,
         NEW t, t = Exchanged(s, i, j)
  PROVE  t \in Seq(S) /\ Len(t) = Len(s) /\ Kept(t) = Kept(s)
<1>1. Len(s) \in Nat /\ s \in [1..Len(s) -> S] /\ DOMAIN s = 1..Len(s)
  BY LenProperties
<1>2. t \in [1..Len(s) -> S] /\ i \in 1..Len(s) /\ j \in 1..Len(s)
  BY <1>1 DEF Exchanged
<1>3. t \in Seq(S) /\ Len(t) = Len(s) /\ DOMAIN t = 1..Len(s)
  BY <1>1, <1>2, IsASeq, LenProperties
<1>4. /\ t[j] = s[i]
      /\ t[i] = s[j]
      /\ \A k \in 1..Len(s) : k # i /\ k # j => t[k] = s[k]
  BY <1>1, <1>2 DEF Exchanged
<1>5. ASSUME NEW x \in Kept(t) PROVE x \in Kept(s)
  <2>1. PICK k \in 1..Len(s) : x = t[k]
    BY <1>3 DEF Kept
  <2>2. \E l \in 1..Len(s) : x = s[l]
    BY <1>2, <1>4, <2>1
  <2>3. QED
    BY <1>1, <2>2 DEF Kept
<1>6. ASSUME NEW x \in Kept(s) PROVE x \in Kept(t)
  <2>1. PICK k \in 1..Len(s) : x = s[k]
    BY <1>1 DEF Kept
  <2>2. \E l \in 1..Len(s) : x = t[l]
    BY <1>2, <1>4, <2>1
  <2>3. QED
    BY <1>3, <2>2 DEF Kept
<1>7. QED
  BY <1>3, <1>5, <1>6

LEMMA HandleType ==
  /\ HP!WrapperInv => H!TypeOK
  /\ (HP!WrapperInv => H!TypeOK)'
  BY DEF HP!WrapperInv, HP!TypeOK, H!TypeOK

\* The query of this table is a statement of its own.
LEMMA QueryIs ==
  ASSUME table \in Tables
  PROVE  /\ Query(table) # None
         /\ Query(table).rows = table
         /\ Query(table).on = Database
         /\ table \in Nat
  BY NoneIsNoStatement, WantedsAssumption DEF Query

\* What is drawn can be counted.
LEMMA DrawnCounts ==
  ASSUME TypeOK
  PROVE  /\ wanted \in Nat /\ wanted >= 1 /\ table \in Nat /\ returned \in Nat
         /\ drawn \subseteq Nat /\ queue \subseteq Nat
         /\ IsFiniteSet(drawn) /\ Cardinality(drawn) \in Nat
         /\ IsFiniteSet(queue) /\ Cardinality(queue) \in Nat
<1>1. wanted \in Nat /\ wanted >= 1 /\ table \in Nat /\ returned \in Nat
  BY WantedsAssumption DEF TypeOK
<1>2. IsFiniteSet(1..returned)
  BY <1>1, FS_Interval
<1>3. drawn \subseteq 1..returned /\ queue \subseteq drawn
  BY DEF TypeOK
<1>4. IsFiniteSet(drawn) /\ IsFiniteSet(queue)
  BY <1>2, <1>3, FS_Subset
<1>5. QED
  BY <1>1, <1>3, <1>4, FS_CardinalityType

LEMMA FlakyStays == ASSUME H!Next PROVE flaky' = flaky
  BY DEF H!Next, H!Construct, H!ChangeDatabaseConnection, H!SetExecutionStatement,
         H!ExecuteStatement, H!GetNumberOfReturnedRows, H!CountRow,
         H!ObtainStatementResultRow, H!Destroy, H!Gone, H!vars

\* An execution moves the cursor, and nothing else.
LEMMA Executed ==
  ASSUME TypeOK, HandleInv, H!ExecuteStatement
  PROVE  /\ UNCHANGED <<handle, flaky, db, statement>>
         /\ row' \in 0..table
         /\ statement = None => ~hasRow' /\ row' = 0
         /\ ~flaky /\ statement = Query(table) =>
               row' = (IF row < table THEN row + 1 ELSE 0) /\ hasRow' = (row' # 0)
<1>1. /\ Query(table) # None /\ Query(table).rows = table /\ table \in Nat
      /\ row \in 0..table /\ statement \in {Query(table), None}
  BY QueryIs DEF TypeOK, HandleInv
<1>2. UNCHANGED <<handle, flaky, db, statement>>
  BY DEF H!ExecuteStatement
<1>3. CASE statement = Query(table)
  <2>1. /\ row' \in {H!NextRow} \union (IF flaky THEN {0} ELSE {})
        /\ hasRow' = (row' # 0)
    BY <1>1, <1>3 DEF H!ExecuteStatement
  <2>2. H!NextRow = IF row < table THEN row + 1 ELSE 0
    BY <1>1, <1>3 DEF H!NextRow
  <2>3. H!NextRow \in 0..table
    BY <1>1, <2>2
  <2>4. row' \in 0..table /\ (~flaky => row' = H!NextRow)
    BY <1>1, <2>1, <2>3
  <2>5. QED
    BY <1>1, <1>2, <1>3, <2>1, <2>2, <2>4, Zenon
<1>4. CASE statement = None
  <2>1. UNCHANGED <<row, hasRow>>
    BY <1>4 DEF H!ExecuteStatement
  <2>2. ~hasRow /\ row = 0
    BY <1>4 DEF HandleInv
  <2>3. QED
    BY <1>1, <1>2, <1>4, <2>1, <2>2
<1>5. QED
  BY <1>1, <1>3, <1>4

-----------------------------------------------------------------------------
(* One lemma per action.                                                   *)

\* What a step that draws and keeps nothing leaves as it was.
LEMMA KeptStays ==
  ASSUME KeptInv, UNCHANGED <<flaky, set, queue, drawn>>
  PROVE  KeptInv'
  BY DEF KeptInv, Kept

LEMMA InitHolds == ASSUME Init, HP!WrapperInv PROVE QuestionInv
<1>1. H!TypeOK /\ statement = None /\ row = 0 /\ hasRow = FALSE
  BY HandleType DEF Init, H!Init
<1>2. /\ at = "construct" /\ wanted \in Wanteds /\ table \in Tables /\ returned = 0
      /\ drawn = {} /\ queue = {} /\ count = 1 /\ set = <<>> /\ place = 1
  BY DEF Init
<1>3. table \in Nat
  BY <1>2, WantedsAssumption
<1>4. TypeOK
  BY <1>1, <1>2, <1>3 DEF TypeOK, Places
<1>5. HandleInv
  BY <1>1, <1>2, <1>3 DEF HandleInv
<1>6. KeptInv
  BY <1>2, KeptNone, FS_EmptySet DEF KeptInv
<1>7. StageInv /\ EnoughInv /\ CursorInv
  BY <1>2 DEF StageInv, EnoughInv, CursorInv, Early, Late
<1>8. QED
  BY <1>4, <1>5, <1>6, <1>7 DEF QuestionInv

LEMMA ConstructKeeps ==
  ASSUME QuestionInv, HP!WrapperInv', Construct
  PROVE  QuestionInv'
<1>1. /\ UNCHANGED <<flaky, wanted, table, returned, drawn, queue, count, set, place>>
      /\ statement' = None /\ row' = 0 /\ hasRow' = FALSE
  BY DEF Construct, H!Construct, H!NoStatement
<1>2. /\ at = "construct"
      /\ at' = IF handle' = "open" THEN "set" ELSE "stopped"
  BY DEF Construct
<1>3. handle' = "open" /\ ~flaky => db' = Database
  BY DEF Construct, H!Construct, H!CanOpen, H!Opened
<1>4. handle' # "open" => handle' = "thrown"
  BY DEF Construct, H!Construct
<1>5. H!TypeOK'
  BY HandleType
<1>6. table \in Nat
  BY DrawnCounts DEF QuestionInv
<1>7. TypeOK'
  BY <1>1, <1>2, <1>5 DEF QuestionInv, TypeOK, Places
<1>8. HandleInv'
  BY <1>1, <1>6 DEF HandleInv
<1>9. KeptInv'
  BY <1>1, KeptStays DEF QuestionInv
<1>10. StageInv' /\ EnoughInv'
  BY <1>1, <1>2 DEF QuestionInv, StageInv, EnoughInv, Early, Late
<1>11. CursorInv'
  BY <1>1, <1>2, <1>3, <1>4 DEF CursorInv
<1>12. QED
  BY <1>7, <1>8, <1>9, <1>10, <1>11 DEF QuestionInv

LEMMA SetStatementKeeps ==
  ASSUME QuestionInv, HP!WrapperInv', SetStatement
  PROVE  QuestionInv'
<1>1. /\ UNCHANGED <<flaky, db, wanted, table, returned, drawn, queue, count, set, place>>
      /\ at = "set" /\ at' = "execute"
      /\ statement' \in {Query(table), None}
  BY DEF SetStatement, H!SetExecutionStatement
<1>2. /\ table \in Tables /\ table \in Nat
      /\ statement = None /\ ~hasRow /\ row = 0
  BY <1>1, DrawnCounts DEF QuestionInv, TypeOK, HandleInv
<1>3. row' = 0 /\ ~hasRow'
  BY <1>2 DEF SetStatement, H!SetExecutionStatement
<1>4. ~flaky => statement' = Query(table)
  <2> SUFFICES ASSUME ~flaky PROVE statement' # None
    BY <1>1
  <2>1. db # None /\ db = Database
    BY <1>1, NamesDiffer DEF QuestionInv, CursorInv
  <2>2. PICK s \in {Query(rows) : rows \in Tables} : ~H!Parses(s) \/ statement' \in {s}
    BY DEF SetStatement, H!SetExecutionStatement
  <2>3. s # None /\ s.on = Database
    BY <2>2, NoneIsNoStatement DEF Query
  <2>4. QED
    BY <2>1, <2>2, <2>3 DEF H!Parses
<1>5. TypeOK'
  BY <1>1, HandleType DEF QuestionInv, TypeOK, Places
<1>6. HandleInv'
  BY <1>1, <1>2, <1>3 DEF HandleInv
<1>7. KeptInv'
  BY <1>1, KeptStays DEF QuestionInv
<1>8. StageInv' /\ EnoughInv'
  BY <1>1 DEF QuestionInv, StageInv, EnoughInv, Early, Late
<1>9. CursorInv'
  BY <1>1, <1>3, <1>4 DEF CursorInv
<1>10. QED
  BY <1>5, <1>6, <1>7, <1>8, <1>9 DEF QuestionInv

LEMMA FirstExecutionKeeps ==
  ASSUME QuestionInv, HP!WrapperInv', FirstExecution
  PROVE  QuestionInv'
<1>1. /\ H!ExecuteStatement
      /\ UNCHANGED <<wanted, table, returned, drawn, queue, count, set, place>>
      /\ at = "execute" /\ at' = "count"
  BY DEF FirstExecution
<1>2. /\ UNCHANGED <<handle, flaky, db, statement>>
      /\ row' \in 0..table
      /\ statement = None => ~hasRow' /\ row' = 0
      /\ ~flaky /\ statement = Query(table) =>
            row' = (IF row < table THEN row + 1 ELSE 0) /\ hasRow' = (row' # 0)
  BY <1>1, Executed DEF QuestionInv
<1>3. TypeOK'
  BY <1>1, HandleType DEF QuestionInv, TypeOK, Places
<1>4. HandleInv'
  BY <1>1, <1>2 DEF QuestionInv, HandleInv
<1>5. KeptInv'
  BY <1>1, <1>2, KeptStays DEF QuestionInv
<1>6. StageInv' /\ EnoughInv'
  BY <1>1 DEF QuestionInv, StageInv, EnoughInv, Early, Late
<1>7. CursorInv'
  <2> SUFFICES ASSUME ~flaky
               PROVE  /\ statement' = Query(table')
                      /\ hasRow' = (row' # 0)
                      /\ row' = 0 => table' = 0
    BY <1>1, <1>2 DEF CursorInv
  <2>1. statement = Query(table) /\ row = 0 /\ table \in Nat
    BY <1>1, DrawnCounts DEF QuestionInv, CursorInv
  <2>2. row' = (IF 0 < table THEN 1 ELSE 0)
    BY <1>2, <2>1
  <2>3. row' = 0 => table = 0
    BY <2>1, <2>2
  <2>4. QED
    BY <1>1, <1>2, <2>1, <2>3, Zenon
<1>8. QED
  BY <1>3, <1>4, <1>5, <1>6, <1>7 DEF QuestionInv

\* What counting leaves alone, and where it leaves the cursor.
LEMMA Counting ==
  ASSUME QuestionInv, HP!WrapperInv, Count
  PROVE  /\ UNCHANGED <<flaky, db, statement, hasRow>>
         /\ row' \in 0..table
         /\ handle' # "counting" =>
               /\ called'.value \in 0..table
               /\ ~flaky => row' = 0 /\ called'.value = table
<1>1. /\ table \in Tables /\ table \in Nat /\ row \in 0..table
      /\ statement \in {Query(table), None} /\ hasRow \in BOOLEAN
  BY DrawnCounts, HandleType DEF QuestionInv, TypeOK, HandleInv, H!TypeOK
<1>2. CASE H!GetNumberOfReturnedRows /\ hasRow /\ statement # None
  <2>1. /\ UNCHANGED <<flaky, db, statement, hasRow>>
        /\ row' = 0 /\ handle' = "counting"
    BY <1>2 DEF H!GetNumberOfReturnedRows
  <2>2. QED
    BY <1>1, <2>1
<1>3. CASE H!GetNumberOfReturnedRows /\ ~(hasRow /\ statement # None)
  <2>1. /\ UNCHANGED <<handle, flaky, db, statement, row, hasRow>>
        /\ called' = [call |-> "count", value |-> 0]
        /\ handle # "counting"
    BY <1>3 DEF H!GetNumberOfReturnedRows, H!Return
  <2>2. ASSUME ~flaky PROVE row = 0 /\ table = 0
    <3>1. /\ statement = Query(table) /\ hasRow = (row # 0)
          /\ row = 0 => table = 0
      BY <2>1, <2>2 DEF Count, QuestionInv, CursorInv
    <3>2. ~hasRow
      BY <1>1, <1>3, <3>1, QueryIs
    <3>3. QED
      BY <3>1, <3>2
  <2>3. QED
    BY <1>1, <2>1, <2>2
<1>4. CASE H!CountRow
  <2>1. /\ UNCHANGED <<flaky, db, statement, hasRow>>
        /\ handle = "counting"
        /\ row' \in {H!NextRow, 0} /\ (~flaky => row' = H!NextRow)
        /\ handle' # "counting" => row' = 0 /\ called' = [call |-> "count", value |-> counted]
    BY <1>4 DEF H!CountRow, H!Return
  <2>2. statement # None /\ row = counted /\ row <= statement.rows
    BY <2>1 DEF HP!WrapperInv, HP!CountingInv
  <2>3. statement.rows = table
    BY <1>1, <2>2, QueryIs
  <2>4. H!NextRow = IF row < table THEN row + 1 ELSE 0
    BY <2>3 DEF H!NextRow
  <2>5. row' \in 0..table /\ counted \in 0..table
    BY <1>1, <2>1, <2>2, <2>4
  <2>6. ~flaky /\ row' = 0 => counted = table
    BY <1>1, <2>1, <2>2, <2>4
  <2>7. QED
    BY <2>1, <2>5, <2>6
<1>5. QED
  BY <1>2, <1>3, <1>4 DEF Count

LEMMA CountKeeps ==
  ASSUME QuestionInv, HP!WrapperInv, HP!WrapperInv', Count
  PROVE  QuestionInv'
<1>1. /\ at = "count"
      /\ UNCHANGED <<wanted, table, drawn, queue, count, set, place>>
      /\ \/ handle' = "counting" /\ UNCHANGED <<at, returned>>
         \/ /\ handle' # "counting"
            /\ returned' = called'.value
            /\ at' = IF WantedFits(returned') THEN "draw" ELSE "destroy"
  BY DEF Count
<1>2. /\ UNCHANGED <<flaky, db, statement, hasRow>>
      /\ row' \in 0..table
      /\ handle' # "counting" =>
            /\ called'.value \in 0..table
            /\ ~flaky => row' = 0 /\ called'.value = table
  BY Counting
<1>3. /\ table \in Nat /\ wanted \in Nat /\ wanted >= 1
      /\ drawn = {} /\ queue = {} /\ count = 1 /\ set = <<>>
      /\ Cardinality(drawn) = 0
  BY <1>1, DrawnCounts, FS_EmptySet DEF QuestionInv, StageInv, Early
<1>4. HandleInv'
  <2>1. statement = None => row' = 0
    <3> SUFFICES ASSUME statement = None PROVE row' = 0
      OBVIOUS
    <3>1. row = 0 /\ ~hasRow /\ ~H!CountRow
      BY DEF QuestionInv, HandleInv, H!CountRow, HP!WrapperInv, HP!CountingInv
    <3>2. QED
      BY <3>1 DEF Count, H!GetNumberOfReturnedRows
  <2>2. QED
    BY <1>1, <1>2, <2>1 DEF QuestionInv, HandleInv
<1>5. KeptInv'
  BY <1>1, <1>2, KeptStays DEF QuestionInv
<1>6. CASE handle' = "counting"
  <2>1. at' = "count" /\ returned' = returned
    BY <1>1, <1>6
  <2>2. TypeOK'
    BY <1>1, <2>1, HandleType DEF QuestionInv, TypeOK
  <2>3. StageInv' /\ EnoughInv'
    BY <1>1, <1>2, <2>1 DEF QuestionInv, StageInv, EnoughInv, Early, Late
  <2>4. CursorInv'
    BY <1>1, <1>2, <1>6, <2>1 DEF QuestionInv, CursorInv
  <2>5. QED
    BY <1>4, <1>5, <2>2, <2>3, <2>4 DEF QuestionInv
<1>7. CASE handle' # "counting"
  <2>1. /\ returned' \in 0..table /\ (~flaky => returned' = table /\ row' = 0)
        /\ at' = IF WantedFits(returned') THEN "draw" ELSE "destroy"
    BY <1>1, <1>2, <1>7
  <2>2. TypeOK'
    BY <1>1, <1>3, <2>1, HandleType DEF QuestionInv, TypeOK, Places
  <2>3. StageInv'
    BY <1>1, <1>3, <2>1 DEF StageInv, Early, Late, WantedFits
  <2>4. EnoughInv'
    BY <1>1, <1>2, <1>3, <2>1 DEF EnoughInv, Late, WantedFits
  <2>5. CursorInv'
    BY <1>1, <1>2, <2>1 DEF QuestionInv, CursorInv
  <2>6. QED
    BY <1>4, <1>5, <2>2, <2>3, <2>4, <2>5 DEF QuestionInv
<1>8. QED
  BY <1>6, <1>7

LEMMA DrawKeeps ==
  ASSUME QuestionInv, HP!WrapperInv', Draw
  PROVE  QuestionInv'
<1>1. PICK n \in 1..returned : drawn' = drawn \union {n} /\ queue' = queue \union {n}
  BY DEF Draw
<1>2. /\ at = "draw"
      /\ at' = IF Cardinality(queue') = wanted THEN "walk" ELSE "draw"
      /\ UNCHANGED <<handle, flaky, db, statement, row, hasRow>>
      /\ UNCHANGED <<wanted, table, returned, count, set, place>>
  BY DEF Draw, handleVars
<1>3. /\ set = <<>> /\ drawn = queue /\ count = 1
      /\ Cardinality(drawn) < wanted /\ wanted <= returned
  BY <1>2 DEF QuestionInv, StageInv, Early
<1>4. /\ wanted \in Nat /\ returned \in Nat /\ table \in Nat /\ returned <= table
      /\ IsFiniteSet(drawn) /\ Cardinality(drawn) \in Nat
  BY DrawnCounts DEF QuestionInv, TypeOK
<1>5. /\ drawn' = queue'
      /\ Cardinality(drawn') = IF n \in drawn THEN Cardinality(drawn)
                                              ELSE Cardinality(drawn) + 1
  BY <1>1, <1>3, <1>4, FS_AddElement
<1>6. /\ Cardinality(drawn') \in Nat /\ Cardinality(drawn') <= wanted
  BY <1>3, <1>4, <1>5
<1>7. TypeOK'
  BY <1>1, <1>2, <1>5, HandleType DEF QuestionInv, TypeOK, Places
<1>8. HandleInv'
  BY <1>2 DEF QuestionInv, HandleInv
<1>9. KeptInv'
  BY <1>2, <1>3, <1>5, <1>6, KeptNone DEF KeptInv
<1>10. StageInv'
  <2>1. at' = "walk" => Cardinality(drawn') = wanted /\ queue' # {}
    BY <1>1, <1>2, <1>5
  <2>2. at' = "draw" => Cardinality(drawn') < wanted
    BY <1>2, <1>4, <1>5, <1>6
  <2>3. QED
    BY <1>2, <1>3, <1>5, <2>1, <2>2 DEF StageInv, Early, Late
<1>11. EnoughInv'
  BY <1>2, <1>3, <1>4 DEF EnoughInv, Late
<1>12. CursorInv'
  <2> SUFFICES ASSUME ~flaky
               PROVE  /\ statement' = Query(table')
                      /\ row' = 0
                      /\ row' + 1 = count'
                      /\ \A q \in queue' : count' <= q
    BY <1>2 DEF CursorInv
  <2>1. statement = Query(table) /\ row = 0
    BY <1>2 DEF QuestionInv, CursorInv
  <2>2. queue' \subseteq 1..returned
    BY <1>1, <1>3, <1>7, <1>2 DEF TypeOK
  <2>3. \A q \in queue' : 1 <= q
    BY <2>2
  <2>4. QED
    BY <1>2, <1>3, <2>1, <2>3
<1>13. QED
  BY <1>7, <1>8, <1>9, <1>10, <1>11, <1>12 DEF QuestionInv

LEMMA WalkKeeps ==
  ASSUME QuestionInv, HP!WrapperInv', Walk
  PROVE  QuestionInv'
<1>1. /\ H!ExecuteStatement
      /\ at = "walk"
      /\ UNCHANGED <<wanted, table, returned, drawn, queue, set, place>>
      /\ \/ count = Min(queue) /\ at' = "take" /\ count' = count
         \/ count # Min(queue) /\ at' = "walk" /\ count' = count + 1
  BY DEF Walk
<1>2. /\ UNCHANGED <<handle, flaky, db, statement>>
      /\ row' \in 0..table
      /\ statement = None => ~hasRow' /\ row' = 0
      /\ ~flaky /\ statement = Query(table) =>
            row' = (IF row < table THEN row + 1 ELSE 0) /\ hasRow' = (row' # 0)
  BY <1>1, Executed DEF QuestionInv
<1>3. /\ count \in Nat /\ queue # {} /\ Cardinality(drawn) = wanted
      /\ queue \subseteq 1..returned /\ queue \subseteq Nat
      /\ returned \in Nat /\ table \in Nat /\ returned <= table
  BY <1>1, DrawnCounts DEF QuestionInv, StageInv, TypeOK
<1>4. Min(queue) \in queue /\ \A q \in queue : Min(queue) <= q
  BY <1>3, MinIsLeast
<1>5. TypeOK'
  <2>1. count' \in Nat
    BY <1>1, <1>3
  <2>2. QED
    BY <1>1, <2>1, HandleType DEF QuestionInv, TypeOK, Places
<1>6. HandleInv'
  BY <1>1, <1>2 DEF QuestionInv, HandleInv
<1>7. KeptInv'
  BY <1>1, <1>2, KeptStays DEF QuestionInv
<1>8. StageInv'
  BY <1>1, <1>3 DEF StageInv, Early, Late
<1>9. EnoughInv'
  BY <1>1, <1>2 DEF QuestionInv, EnoughInv, Late
<1>10. CursorInv'
  <2> SUFFICES ASSUME ~flaky
               PROVE  /\ statement' = Query(table')
                      /\ at' = "walk" => row' + 1 = count' /\ \A q \in queue' : count' <= q
                      /\ at' = "take" => row' = count' /\ hasRow'
    BY <1>1, <1>2 DEF CursorInv
  <2>1. /\ statement = Query(table) /\ row + 1 = count /\ row \in Nat
        /\ \A q \in queue : count <= q
    <3>1. row \in Nat
      BY <1>3 DEF QuestionInv, HandleInv
    <3>2. QED
      BY <1>1, <3>1 DEF QuestionInv, CursorInv
  \* a number not yet reached is that of a row, so the cursor has one to go to
  <2>2. row < table
    <3>1. Min(queue) \in Nat /\ Min(queue) <= table /\ count <= Min(queue)
      <4>1. Min(queue) \in 1..returned
        BY <1>3, <1>4
      <4>2. count <= Min(queue)
        BY <1>4, <2>1
      <4>3. QED
        BY <1>3, <4>1, <4>2
    <3>2. QED
      BY <1>3, <2>1, <3>1
  <2>3. row' = count /\ hasRow' = (row' # 0)
    BY <1>2, <2>1, <2>2
  <2>4. row' # 0
    BY <2>1, <2>3
  <2>5. hasRow'
    BY <2>3, <2>4, Zenon
  <2>6. count # Min(queue) => \A q \in queue : count + 1 <= q
    <3> SUFFICES ASSUME NEW q \in queue, count # Min(queue) PROVE count + 1 <= q
      OBVIOUS
    <3>1. count <= Min(queue) /\ Min(queue) <= q /\ Min(queue) \in Nat /\ q \in Nat
      BY <1>3, <1>4, <2>1
    <3>2. QED
      BY <1>3, <3>1
  <2>7. QED
    BY <1>1, <1>2, <2>1, <2>3, <2>5, <2>6
<1>11. QED
  BY <1>5, <1>6, <1>7, <1>8, <1>9, <1>10 DEF QuestionInv

LEMMA TakeKeeps ==
  ASSUME QuestionInv, HP!WrapperInv', Take
  PROVE  QuestionInv'
<1>1. /\ H!ObtainStatementResultRow
      /\ at = "take"
      /\ UNCHANGED <<wanted, table, returned, drawn, place>>
      /\ UNCHANGED <<flaky, db, statement, row, hasRow>>
  BY DEF Take, H!ObtainStatementResultRow
<1>2. /\ count \in Nat /\ count = Min(queue)
      /\ queue # {} /\ Cardinality(drawn) = wanted
      /\ queue \subseteq Nat /\ queue \subseteq 1..returned
      /\ IsFiniteSet(queue) /\ Cardinality(queue) \in Nat
      /\ set \in Seq(0..table) /\ row \in 0..table /\ row \in Nat
  BY <1>1, DrawnCounts DEF QuestionInv, StageInv, TypeOK, HandleInv
<1>3. Min(queue) \in queue /\ \A q \in queue : Min(queue) <= q
  BY <1>2, MinIsLeast
<1>4. HandleInv'
  <2>1. at' \in {"destroy", "walk", "stopped"}
    BY DEF Take
  <2>2. QED
    BY <1>1, <2>1 DEF QuestionInv, HandleInv
<1>5. CASE Obtained
  <2>1. /\ set' = Append(set, row)
        /\ queue' = queue \ {Min(queue)}
        /\ count' = count + 1
        /\ at' = IF queue' = {} THEN "destroy" ELSE "walk"
    BY <1>5 DEF Take
  <2>2. /\ Append(set, row) \in Seq(0..table)
        /\ Len(Append(set, row)) = Len(set) + 1
        /\ Kept(Append(set, row)) = Kept(set) \union {row}
    <3> DEFINE Rows == 0..table
    <3>1. set \in Seq(Rows) /\ row \in Rows
      BY <1>2
    <3> HIDE DEF Rows
    <3>2. /\ Append(set, row) \in Seq(Rows)
          /\ Len(Append(set, row)) = Len(set) + 1
          /\ Kept(Append(set, row)) = Kept(set) \union {row}
      BY <3>1, KeptOneMore
    <3>3. QED
      BY <3>2 DEF Rows
  <2>3. /\ Len(set) \in Nat /\ Cardinality(drawn) \in Nat
        /\ Len(set) + Cardinality(queue) = Cardinality(drawn)
    BY <1>2, DrawnCounts, LenProperties DEF QuestionInv, KeptInv
  <2>4. Cardinality(queue') + 1 = Cardinality(queue)
    <3>1. Cardinality(queue \ {Min(queue)}) = Cardinality(queue) - 1
      BY <1>2, <1>3, FS_RemoveElement, Zenon
    <3>2. QED
      BY <1>2, <2>1, <3>1
  <2>5. TypeOK'
    <3>1. count' \in Nat /\ at' \in Places
      BY <1>2, <2>1 DEF Places
    <3>2. queue' \subseteq drawn'
      BY <1>1, <2>1 DEF QuestionInv, TypeOK
    <3>3. set' \in Seq(0..table')
      BY <1>1, <2>1, <2>2, Zenon
    <3>4. QED
      BY <1>1, <3>1, <3>2, <3>3, HandleType DEF QuestionInv, TypeOK
  <2>6. KeptInv'
    <3>1. Len(set') + Cardinality(queue') = Cardinality(drawn')
      <4>1. Cardinality(queue') \in Nat
        <5>1. IsFiniteSet(queue')
          BY <1>2, <2>1, FS_RemoveElement
        <5>2. QED
          BY <5>1, FS_CardinalityType
      <4>2. QED
        BY <1>1, <2>1, <2>2, <2>3, <2>4, <4>1
    <3>2. ASSUME ~flaky PROVE Kept(set') \union queue' = drawn'
      <4>1. row = Min(queue)
        BY <1>1, <1>2, <3>2 DEF QuestionInv, CursorInv
      <4>2. Kept(set) \union queue = drawn
        BY <3>2 DEF QuestionInv, KeptInv
      <4>3. Kept(set') = Kept(set) \union {Min(queue)}
        BY <2>1, <2>2, <4>1
      <4>4. QED
        BY <1>1, <1>3, <2>1, <4>2, <4>3
    <3>3. QED
      BY <1>1, <3>1, <3>2 DEF KeptInv
  <2>7. StageInv'
    BY <1>1, <1>2, <2>1 DEF StageInv, Early, Late
  <2>8. EnoughInv'
    <3> SUFFICES ASSUME ~flaky PROVE EnoughInv'
      BY <1>1 DEF EnoughInv
    <3>1. wanted <= table
      BY <1>1 DEF QuestionInv, EnoughInv
    <3>2. QED
      BY <1>1, <1>2, <2>1, <3>1, DrawnCounts DEF QuestionInv, EnoughInv, Late
  <2>9. CursorInv'
    <3> SUFFICES ASSUME ~flaky
                 PROVE  /\ statement' = Query(table')
                        /\ row' + 1 = count'
                        /\ \A q \in queue' : count' <= q
      BY <1>1, <2>1 DEF CursorInv
    <3>1. statement = Query(table) /\ row = count
      BY <1>1 DEF QuestionInv, CursorInv
    <3>2. ASSUME NEW q \in queue' PROVE count + 1 <= q
      <4>1. q \in Nat /\ count <= q /\ q # count
        BY <1>2, <1>3, <2>1
      <4>2. QED
        BY <1>2, <4>1
    <3>3. QED
      BY <1>1, <2>1, <3>1, <3>2
  <2>10. QED
    BY <1>4, <2>5, <2>6, <2>7, <2>8, <2>9 DEF QuestionInv
<1>6. CASE ~Obtained
  <2>1. at' = "stopped" /\ UNCHANGED <<set, queue, count>>
    BY <1>6 DEF Take
  <2>2. TypeOK'
    BY <1>1, <2>1, HandleType DEF QuestionInv, TypeOK, Places
  <2>3. KeptInv'
    BY <1>1, <2>1, KeptStays DEF QuestionInv
  <2>4. StageInv' /\ EnoughInv'
    BY <2>1 DEF StageInv, EnoughInv, Early, Late
  \* a row the code takes is one the cursor is on, unless something fails
  <2>5. flaky
    <3> SUFFICES ASSUME ~flaky PROVE Obtained
      BY <1>6
    <3>1. hasRow /\ row # 0
      BY <1>1, <1>2, <1>3 DEF QuestionInv, CursorInv
    <3>2. handle' = "open" /\ called' = [call |-> "obtain", value |-> H!True]
      BY <1>1, <3>1 DEF H!ObtainStatementResultRow, H!Return
    <3>3. QED
      BY <3>2 DEF Obtained
  <2>6. CursorInv'
    BY <1>1, <2>5, HandleType DEF CursorInv
  <2>7. QED
    BY <1>4, <2>2, <2>3, <2>4, <2>6 DEF QuestionInv
<1>7. QED
  BY <1>5, <1>6

LEMMA DestroyKeeps ==
  ASSUME QuestionInv, HP!WrapperInv', Destroy
  PROVE  QuestionInv'
<1>1. /\ UNCHANGED <<flaky, wanted, table, returned, drawn, queue, count, set, place>>
      /\ statement' = None /\ row' = 0 /\ hasRow' = FALSE
      /\ at = "destroy" /\ at' = "shuffle"
  BY DEF Destroy, H!Destroy, H!NoStatement
<1>2. table \in Nat
  BY DrawnCounts DEF QuestionInv
<1>3. TypeOK'
  BY <1>1, HandleType DEF QuestionInv, TypeOK, Places
<1>4. HandleInv'
  BY <1>1, <1>2 DEF HandleInv
<1>5. KeptInv'
  BY <1>1, KeptStays DEF QuestionInv
<1>6. StageInv' /\ EnoughInv' /\ CursorInv'
  BY <1>1 DEF QuestionInv, StageInv, EnoughInv, CursorInv, Early, Late
<1>7. QED
  BY <1>3, <1>4, <1>5, <1>6 DEF QuestionInv

LEMMA ShuffleKeeps ==
  ASSUME QuestionInv, HP!WrapperInv', Shuffle
  PROVE  QuestionInv'
<1>1. /\ at = "shuffle" /\ at' \in {"shuffle", "done"}
      /\ UNCHANGED <<handle, flaky, db, statement, row, hasRow>>
      /\ UNCHANGED <<wanted, table, returned, drawn, queue, count>>
  BY DEF Shuffle, handleVars
<1>2. set \in Seq(0..table) /\ place \in Nat /\ Len(set) \in Nat
  BY LenProperties DEF QuestionInv, TypeOK
<1>3. /\ set' \in Seq(0..table) /\ Len(set') = Len(set) /\ Kept(set') = Kept(set)
      /\ place' \in Nat
  <2>1. CASE UNCHANGED <<set, place>>
    BY <1>2, <2>1
  <2>2. CASE place <= Len(set) /\ \E j \in 1..place : set' = Swap(place, j)
    <3>1. PICK j \in 1..place : set' = Exchanged(set, place, j)
      BY <2>2 DEF Swap, Exchanged
    <3>2. place \in DOMAIN set /\ j \in DOMAIN set
      <4>1. place \in 1..Len(set) /\ j \in 1..Len(set)
        BY <1>2, <2>2, <3>1
      <4>2. DOMAIN set = 1..Len(set)
        BY <1>2, LenProperties
      <4>3. QED
        BY <4>1, <4>2
    <3>3. place' \in Nat
      BY <1>2 DEF Shuffle
    <3>4. set' \in Seq(0..table) /\ Len(set') = Len(set) /\ Kept(set') = Kept(set)
      <4> DEFINE Rows == 0..table
      <4>1. set \in Seq(Rows)
        BY <1>2
      <4> HIDE DEF Rows
      <4>2. set' \in Seq(Rows) /\ Len(set') = Len(set) /\ Kept(set') = Kept(set)
        BY <3>1, <3>2, <4>1, SwapKeeps
      <4>3. QED
        BY <4>2 DEF Rows
    <3>5. QED
      BY <3>3, <3>4
  <2>3. QED
    BY <2>1, <2>2 DEF Shuffle
<1>4. TypeOK'
  BY <1>1, <1>3, HandleType DEF QuestionInv, TypeOK, Places
<1>5. HandleInv'
  BY <1>1 DEF QuestionInv, HandleInv
<1>6. KeptInv'
  BY <1>1, <1>3 DEF QuestionInv, KeptInv
<1>7. StageInv' /\ EnoughInv' /\ CursorInv'
  BY <1>1 DEF QuestionInv, StageInv, EnoughInv, CursorInv, Early, Late
<1>8. QED
  BY <1>4, <1>5, <1>6, <1>7 DEF QuestionInv

LEMMA StepHolds ==
  QuestionInv /\ HP!WrapperInv /\ HP!WrapperInv' /\ [Next]_vars => QuestionInv'
<1> SUFFICES ASSUME QuestionInv, HP!WrapperInv, HP!WrapperInv', [Next]_vars
             PROVE  QuestionInv'
  OBVIOUS
<1>1. CASE UNCHANGED vars
  <2>1. /\ UNCHANGED <<handle, flaky, db, statement, row, hasRow>>
        /\ UNCHANGED <<at, wanted, table, returned, drawn, queue, count, set, place>>
    BY <1>1 DEF vars, handleVars
  <2>2. TypeOK'
    BY <2>1, HandleType DEF QuestionInv, TypeOK
  <2>3. HandleInv' /\ KeptInv'
    BY <2>1, KeptStays DEF QuestionInv, HandleInv
  <2>4. StageInv' /\ EnoughInv' /\ CursorInv'
    BY <2>1 DEF QuestionInv, StageInv, EnoughInv, CursorInv
  <2>5. QED
    BY <2>2, <2>3, <2>4 DEF QuestionInv
<1>2. QED
  BY <1>1, ConstructKeeps, SetStatementKeeps, FirstExecutionKeeps, CountKeeps, DrawKeeps,
     WalkKeeps, TakeKeeps, DestroyKeeps, ShuffleKeeps DEF Next, Program, Finished

LEMMA QuestionsHold == Spec => []QuestionInv
<1>1. Init /\ HP!WrapperInv => QuestionInv
  BY InitHolds
<1>2. QED
  BY <1>1, StepHolds, WrapperHolds, PTL DEF Spec

-----------------------------------------------------------------------------
(* The theorems.                                                           *)

\* The draw, the walk and the shuffle keep to their types: above all, no number
\* is drawn past the rows counted, and a row kept is one of the table.
THEOREM QuestionsTypeOK == Spec => []TypeOK
  BY QuestionsHold, PTL DEF QuestionInv

\* A round has all its questions or none, whatever fails; and, if nothing does,
\* none only from a table with too few rows.
THEOREM QuestionsWholeOrEmpty == Spec => []WholeOrEmpty
<1>1. QuestionInv => WholeOrEmpty
  <2> SUFFICES ASSUME QuestionInv, at = "done" PROVE Len(set) = Cardinality(drawn)
    BY DEF QuestionInv, StageInv, EnoughInv, WholeOrEmpty, Late
  <2>1. queue = {} /\ Cardinality(queue) = 0 /\ Len(set) \in Nat
    BY FS_EmptySet, LenProperties DEF QuestionInv, StageInv, Late, TypeOK
  <2>2. QED
    BY <2>1 DEF QuestionInv, KeptInv
<1>2. QED
  BY <1>1, QuestionsHold, PTL

\* The questions of a round are the rows drawn, each once.
THEOREM QuestionsAreDrawn == Spec => []QuestionsAreTheDrawn
<1>1. QuestionInv => QuestionsAreTheDrawn
  <2> SUFFICES ASSUME QuestionInv, ~flaky, at \in {"shuffle", "done"}
               PROVE  Kept(set) = drawn /\ Len(set) = Cardinality(drawn)
    BY DEF QuestionsAreTheDrawn, Kept
  <2>1. queue = {} /\ Cardinality(queue) = 0 /\ Len(set) \in Nat
    BY FS_EmptySet, LenProperties DEF QuestionInv, StageInv, Late, TypeOK
  <2>2. QED
    BY <2>1 DEF QuestionInv, KeptInv
<1>2. QED
  BY <1>1, QuestionsHold, PTL

\* If nothing fails, only a database that does not open ends the process.
THEOREM QuestionsReliable == Spec => []ReliableNeverStops
<1>1. QuestionInv => ReliableNeverStops
  BY DEF QuestionInv, CursorInv, ReliableNeverStops
<1>2. QED
  BY <1>1, QuestionsHold, PTL
=============================================================================
