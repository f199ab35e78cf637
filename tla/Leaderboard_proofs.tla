------------------------- MODULE Leaderboard_proofs -------------------------
(***************************************************************************)
(* Proofs about Leaderboard, for any number of windows, any names, any     *)
(* LIMIT and any faults.                                                   *)
(*                                                                         *)
(* The rows of the board stay finitely many, so that the query is a        *)
(* sequence; OwnStep and BoardSteps say how far a step of PlayerStore      *)
(* reaches.  LinesInv then holds because a display with lines on the       *)
(* console holds a lock, AloneInv because it notices whoever comes near.   *)
(***************************************************************************)
EXTENDS Leaderboard, PlayerStore_proofs, FiniteSetTheorems

-----------------------------------------------------------------------------
(* The query: each row has a place of its own, and no place is left out.    *)

Above(m, r) == {q \in Rows : Before(m, q, r)}

LEMMA RowTypes ==
  ASSUME TypeOK, NEW m \in Modes, NEW r \in Rows
  PROVE  /\ r.name \in Names /\ r.nth \in Nat /\ r.nth \in DOMAIN board[r.name]
         /\ r = [name |-> r.name, nth |-> r.nth]
         /\ board[r.name][r.nth][m] \in Nat
         /\ [name |-> r.name, points |-> board[r.name][r.nth][m]] \in Lines
<1>1. PICK u \in Names : \E k \in DOMAIN board[u] : r = [name |-> u, nth |-> k]
  BY DEF Rows
<1> PICK k \in DOMAIN board[u] : r = [name |-> u, nth |-> k]
  BY <1>1
<1>2. board[u] \in Seq([Modes -> Nat])
  BY DEF TypeOK
<1>3. k \in Nat /\ board[u][k] \in [Modes -> Nat]
  BY <1>2
<1>4. QED
  BY <1>3 DEF Lines

\* Names that share a place in the alphabet are one.
LEMMA PlaceType ==
  ASSUME NEW u \in Names
  PROVE  Place(u) \in Nat /\ Place(u) \in DOMAIN Alphabet /\ Alphabet[Place(u)] = u
  BY AlphabetAssumption DEF Place

\* What Before compares.
LEMMA Comparable ==
  ASSUME TypeOK, NEW m \in Modes, NEW r \in Rows
  PROVE  /\ board[r.name][r.nth][m] \in Int
         /\ Place(r.name) \in Int
         /\ r.nth \in Int
<1>1. r.name \in Names /\ r.nth \in Nat /\ board[r.name][r.nth][m] \in Nat
  BY RowTypes
<1>2. Place(r.name) \in Nat
  BY <1>1, PlaceType
<1>3. QED
  BY <1>1, <1>2

LEMMA OrderIsTotal ==
  ASSUME TypeOK, NEW m \in Modes, NEW r \in Rows, NEW q \in Rows, r # q
  PROVE  Before(m, r, q) \/ Before(m, q, r)
<1>1. Place(r.name) = Place(q.name) => r.name = q.name
  BY RowTypes, PlaceType
<1>2. r.name = q.name => r.nth # q.nth
  BY RowTypes
<1>3. QED
  BY <1>1, <1>2, Comparable DEF Before

LEMMA OrderIsStrict ==
  ASSUME TypeOK, NEW m \in Modes, NEW r \in Rows
  PROVE  ~Before(m, r, r)
  BY Comparable DEF Before

LEMMA OrderIsTransitive ==
  ASSUME TypeOK, NEW m \in Modes, NEW r \in Rows, NEW q \in Rows, NEW s \in Rows,
         Before(m, r, q), Before(m, q, s)
  PROVE  Before(m, r, s)
  BY Comparable DEF Before

LEMMA EachPlaceIsTaken ==
  ASSUME TypeOK, IsFiniteSet(Rows), NEW m \in Modes, NEW n \in 1..Cardinality(Rows)
  PROVE  \E r \in Rows : Cardinality(Above(m, r)) = n - 1
<1> DEFINE C == Cardinality(Rows)
           rank == [r \in Rows |-> Cardinality(Above(m, r))]
<1>1. C \in Nat
  BY FS_CardinalityType
<1>2. ASSUME NEW r \in Rows
      PROVE  IsFiniteSet(Above(m, r)) /\ rank[r] \in 0..C-1
  <2>1. Above(m, r) \in SUBSET Rows /\ r \notin Above(m, r)
    BY OrderIsStrict DEF Above
  <2>2. /\ IsFiniteSet(Above(m, r)) /\ Cardinality(Above(m, r)) <= C
        /\ Cardinality(Above(m, r)) # C
    BY <2>1, FS_Subset
  <2>3. Cardinality(Above(m, r)) \in Nat
    BY <2>2, FS_CardinalityType
  <2>4. QED
    BY <1>1, <2>2, <2>3
<1>3. ASSUME NEW r \in Rows, NEW q \in Rows, Before(m, r, q)
      PROVE  rank[r] # rank[q]
  <2>1. Above(m, r) \in SUBSET Above(m, q)
    BY <1>3, OrderIsTransitive DEF Above
  <2>2. Above(m, r) # Above(m, q)
    BY <1>3, OrderIsStrict DEF Above
  <2>3. QED
    BY <1>2, <2>1, <2>2, FS_Subset
<1>4. rank \in Injection(Rows, 0..C-1)
  BY <1>2, <1>3, OrderIsTotal DEF Injection, IsInjective
<1>5. IsFiniteSet(0..C-1) /\ Cardinality(0..C-1) = C
  <2>1. 0 \in Int /\ C - 1 \in Int
    BY <1>1
  <2>2. IsFiniteSet(0..C-1) /\ Cardinality(0..C-1) = IF 0 > C-1 THEN 0 ELSE C-1-0+1
    BY <2>1, FS_Interval
  <2>3. QED
    BY <1>1, <2>2
<1>6. rank \in Surjection(Rows, 0..C-1)
  BY <1>4, <1>5, FS_Injection
<1>7. n - 1 \in 0..C-1
  BY <1>1
<1>8. QED
  BY <1>6, <1>7 DEF Surjection

LEMMA ListedType ==
  ASSUME TypeOK, IsFiniteSet(Rows), NEW m \in Modes
  PROVE  Listed(m) \in Seq(Lines) /\ Len(Listed(m)) \in 0..Limit
<1> DEFINE N == Min({Limit, Cardinality(Rows)})
<1>1. Cardinality(Rows) \in Nat
  BY FS_CardinalityType
<1>2. N \in 0..Limit /\ N <= Cardinality(Rows)
  BY <1>1, LimitAssumption DEF Min
<1>3. ASSUME NEW k \in 1..N PROVE Listed(m)[k] \in Lines
  <2> DEFINE r == CHOOSE r \in Rows : Cardinality({q \in Rows : Before(m, q, r)}) = k - 1
  <2>1. r \in Rows
    <3>1. k \in 1..Cardinality(Rows)
      BY <1>1, <1>2, LimitAssumption
    <3>2. \E q \in Rows : Cardinality(Above(m, q)) = k - 1
      BY <3>1, EachPlaceIsTaken
    <3>3. QED
      BY <3>2 DEF Above
  <2>2. Listed(m)[k] = [name |-> r.name, points |-> board[r.name][r.nth][m]]
    BY DEF Listed
  <2>3. QED
    BY <2>1, <2>2, RowTypes
<1>4. Listed(m) = [k \in 1..N |-> Listed(m)[k]]
  BY DEF Listed
<1>5. Limit \in Nat
  BY LimitAssumption
<1> HIDE DEF N
<1>6. QED
  BY <1>2, <1>3, <1>4, <1>5

-----------------------------------------------------------------------------
(* The first lines of a list.                                              *)

FirstOf(s, n) == [k \in 1..n |-> s[k]]

LEMMA FirstIsPrefix ==
  ASSUME NEW S, NEW s \in Seq(S), NEW n \in 0..Len(s)
  PROVE  IsPrefix(FirstOf(s, n), s)
<1>1. FirstOf(s, n) \in Seq(S) /\ Len(FirstOf(s, n)) = n
  BY DEF FirstOf
<1>2. SubSeq(FirstOf(s, n), 1, n) = FirstOf(s, n)
  BY <1>1, SubSeqFull
<1>3. SubSeq(s, 1, n) = FirstOf(s, n)
  BY SubSeqRestrict DEF FirstOf, Restrict
<1>4. QED
  BY <1>1, <1>2, <1>3 DEF IsPrefix

LEMMA NextLine ==
  ASSUME NEW S, NEW s \in Seq(S), NEW n \in Nat, n + 1 \in DOMAIN s
  PROVE  Append(FirstOf(s, n), s[n + 1]) = FirstOf(s, n + 1) /\ n + 1 \in 0..Len(s)
  BY DEF FirstOf

LEMMA FirstLen ==
  ASSUME NEW S, NEW s \in Seq(S), NEW n \in 0..Len(s)
  PROVE  Len(FirstOf(s, n)) = n /\ FirstOf(s, n) \in Seq(S)
  BY DEF FirstOf

-----------------------------------------------------------------------------
(* The invariant.                                                          *)

Views == [step : {"none", "rewind", "count", "fetch"}, mode : Modes \union {None}, count : 0..Limit,
          printed : Seq(Lines), alone : BOOLEAN]

\* What a display has printed is the beginning of what its query would give now,
\* as far as it holds the lock, ...
LinesInv ==
    \A i \in Instances :
        \/ view[i].printed = <<>>
        \/ /\ view[i].step = "fetch"
           /\ \E n \in 0..Len(Listed(view[i].mode)) :
                  view[i].printed = FirstOf(Listed(view[i].mode), n)

\* ... and a display that has the board to itself has counted what is there.
AloneInv ==
    \A i \in Instances :
        Viewing(i) /\ view[i].alone =>
            /\ ~Disturbed(i)
            /\ view[i].step = "fetch" => view[i].count = Len(Listed(view[i].mode))

ViewInv == LinesInv /\ AloneInv

LbInv == TypeInv /\ LbTypeOK /\ IsFiniteSet(Rows) /\ ViewInv

LEMMA LbInvInit == LbInit => LbInv
<1> SUFFICES ASSUME LbInit PROVE LbInv
  OBVIOUS
<1>1. TypeInv
  <2>1. PICK p \in Passwords :
            players = [u \in Names |-> IF u \in Enrolled THEN <<p>> ELSE <<>>]
    BY DEF LbInit
  <2>2. players \in [Names -> Seq(Passwords)] /\ board \in [Names -> Seq([Modes -> Nat])]
    <3>1. <<p>> \in Seq(Passwords) /\ <<FreshRow>> \in Seq([Modes -> Nat])
      BY FreshRowType
    <3>2. <<>> \in Seq(Passwords) /\ <<>> \in Seq([Modes -> Nat])
      OBVIOUS
    <3>3. QED
      BY <2>1, <3>1, <3>2 DEF LbInit
  <2>3. QED
    BY <2>2, NamesAssumption, FreshRowType
       DEF LbInit, TypeInv, TypeOK, Filled, NoForm, NoCredit, Running, Stopped,
           InSignUp, Crediting
<1>2. LbTypeOK
  BY <1>1, LimitAssumption DEF LbInit, LbTypeOK, TypeInv, NoView, Viewing
<1>3. IsFiniteSet(Rows)
  <2>1. Rows \subseteq {[name |-> u, nth |-> 1] : u \in Enrolled}
    BY DEF Rows, LbInit
  <2>2. IsFiniteSet({[name |-> u, nth |-> 1] : u \in Enrolled})
    <3> DEFINE f == [u \in Enrolled |-> [name |-> u, nth |-> 1]]
               T == {[name |-> u, nth |-> 1] : u \in Enrolled}
    <3>1. f \in Surjection(Enrolled, T)
      BY DEF Surjection
    <3>2. QED
      BY <3>1, EnrolledAssumption, FS_Surjection
  <2>3. QED
    BY <2>1, <2>2, FS_Subset
<1>4. ViewInv
  BY DEF LbInit, ViewInv, LinesInv, AloneInv, NoView, Viewing
<1>5. QED
  BY <1>1, <1>2, <1>3, <1>4 DEF LbInv

-----------------------------------------------------------------------------
(* What a step of PlayerStore does to the board and to other windows.       *)

Program(i) == ProgramStep(i) \/ PlayerStep(i) \/ FaultStep(i)

LEMMA ProgramTypes ==
  ASSUME TypeInv, NEW i \in Instances, Program(i)
  PROVE  TypeInv'
  BY TypeStep DEF Program, Next

LEMMA OwnStep ==
  ASSUME TypeInv, NEW i \in Instances, Program(i)
  PROVE  \A j \in Instances \ {i} : pc'[j] = pc[j]
<1> USE DEF Goto, BeginSession, CallUpdatePlayerPoints, TypeInv, TypeOK, vars
<1>1. ASSUME ProgramStep(i) PROVE \A j \in Instances \ {i} : pc'[j] = pc[j]
  BY <1>1 DEF ProgramStep, AddCheck, InsertPlayer, InsertBoard, ReadPoints, WritePoints
<1>2. ASSUME PlayerStep(i) PROVE \A j \in Instances \ {i} : pc'[j] = pc[j]
  BY <1>2 DEF PlayerStep, Start, ChooseForm, LogIn, SignUpName, SignUpPassword, Refuse,
              FinishRound, LogOut, Exit
<1>3. ASSUME FaultStep(i) PROVE \A j \in Instances \ {i} : pc'[j] = pc[j]
  BY <1>3 DEF FaultStep, LogInFaults, OpenThrows, Close
<1>4. QED
  BY <1>1, <1>2, <1>3 DEF Program

LEMMA BoardSteps ==
  ASSUME NEW i \in Instances, Program(i)
  PROVE  UNCHANGED board \/ InsertBoard(i) \/ WritePoints(i)
<1> USE DEF Tables, vars
<1>1. ASSUME ProgramStep(i) PROVE UNCHANGED board \/ InsertBoard(i) \/ WritePoints(i)
  BY <1>1 DEF ProgramStep, AddCheck, InsertPlayer, ReadPoints
<1>2. ASSUME PlayerStep(i) PROVE UNCHANGED board
  BY <1>2 DEF PlayerStep, Start, ChooseForm, LogIn, SignUpName, SignUpPassword, Refuse,
              FinishRound, CallUpdatePlayerPoints, LogOut, Exit
<1>3. ASSUME FaultStep(i) PROVE UNCHANGED board
  BY <1>3 DEF FaultStep, LogInFaults, OpenThrows, Close
<1>4. QED
  BY <1>1, <1>2, <1>3 DEF Program

LEMMA QuietBoard ==
  ASSUME NEW i \in Instances, Program(i), pc[i] \notin UsingBoard
  PROVE  UNCHANGED board
  BY BoardSteps DEF InsertBoard, WritePoints, UsingBoard

LEMMA RowsStayFinite ==
  ASSUME TypeInv, IsFiniteSet(Rows), NEW i \in Instances, Program(i)
  PROVE  IsFiniteSet(Rows)'
<1>1. CASE UNCHANGED board
  BY <1>1 DEF Rows
<1>2. CASE InsertBoard(i) /\ board' # board
  <2> DEFINE u == form[i].name
             x == [name |-> u, nth |-> Len(board[u]) + 1]
  <2>1. u \in Names /\ board[u] \in Seq([Modes -> Nat]) /\ DOMAIN board = Names
    BY <1>2 DEF InsertBoard, TypeInv, TypeOK, Filled, InSignUp
  <2>2. board' = [board EXCEPT ![u] = Append(@, FreshRow)]
    BY <1>2 DEF InsertBoard
  <2>3. DOMAIN board'[u] = DOMAIN board[u] \union {Len(board[u]) + 1}
    BY <2>1, <2>2
  <2>4. \A v \in Names \ {u} : board'[v] = board[v]
    BY <2>1, <2>2
  <2>5. Rows' \subseteq Rows \union {x}
    BY <2>1, <2>3, <2>4 DEF Rows
  <2>6. IsFiniteSet(Rows \union {x})
    BY FS_AddElement
  <2>7. QED
    BY <2>5, <2>6, FS_Subset
<1>3. CASE WritePoints(i) /\ board' # board
  <2>1. user[i] \in Names /\ DOMAIN board = Names
    BY DEF TypeInv, TypeOK
  <2>2. \A v \in Names : DOMAIN board'[v] = DOMAIN board[v]
    BY <1>3, <2>1 DEF WritePoints
  <2>3. Rows' = Rows
    BY <2>2 DEF Rows
  <2>4. QED
    BY <2>3
<1>4. QED
  BY <1>1, <1>2, <1>3, BoardSteps

LEMMA ListedStays ==
  ASSUME UNCHANGED board, NEW m
  PROVE  Listed(m)' = Listed(m)
  BY DEF Listed, Rows, Before

-----------------------------------------------------------------------------
(* The steps of a display leave the files and the other windows alone.      *)

LEMMA ShowStep ==
  ASSUME LbInv, NEW i \in Instances, Show(i)
  PROVE  LbInv'
<1>1. PICK m \in Modes, step \in {"rewind", "fetch"} :
         /\ IF step = "rewind" THEN Listed(m) # <<>> ELSE Listed(m) = <<>> \/ Disturbed(i)
         /\ view' = [j \in Instances |->
                       IF j = i
                         THEN [NoView EXCEPT !.step = step, !.mode = m, !.alone = ~Disturbed(i)]
                         ELSE NotAlone(j)]
  BY DEF Show
<1>2. /\ view'[i].step = step /\ view'[i].mode = m /\ view'[i].count = 0
      /\ view'[i].printed = <<>> /\ view'[i].alone = ~Disturbed(i)
  BY <1>1 DEF NoView
<1>3. ASSUME NEW j \in Instances \ {i}
      PROVE  /\ view'[j].step = view[j].step /\ view'[j].mode = view[j].mode
             /\ view'[j].printed = view[j].printed /\ view'[j].count = view[j].count
             /\ Viewing(j) => ~view'[j].alone
  BY <1>1 DEF NotAlone, LbInv, LbTypeOK
<1>4. UNCHANGED vars /\ pc[i] = "playing"
  BY DEF Show
<1>5. TypeInv' /\ IsFiniteSet(Rows)'
  BY <1>4 DEF LbInv, TypeInv, TypeOK, Filled, Rows, vars
<1>6. LbTypeOK'
  <2>1. view' \in [Instances -> Views]
    <3>1. ASSUME NEW j \in Instances \ {i} PROVE view'[j] \in Views
      <4>1. view[j] \in Views /\ view'[j] = NotAlone(j)
        BY <1>1 DEF LbInv, LbTypeOK, Views
      <4>2. QED
        BY <4>1 DEF NotAlone, Views
    <3>2. view'[i] \in Views
      <4>1. view'[i] = [step |-> step, mode |-> m, count |-> 0, printed |-> <<>>,
                        alone |-> ~Disturbed(i)]
        BY <1>1 DEF NoView
      <4>2. (~Disturbed(i)) \in BOOLEAN
        BY DEF Disturbed
      <4>3. 0 \in 0..Limit /\ <<>> \in Seq(Lines)
        BY LimitAssumption
      <4>4. QED
        BY <4>1, <4>2, <4>3 DEF Views
    <3>3. QED
      BY <1>1, <3>1, <3>2
  <2>2. \A j \in Instances : Viewing(j)' => pc'[j] = "playing" /\ view'[j].mode \in Modes
    BY <1>2, <1>3, <1>4 DEF LbInv, LbTypeOK, Viewing, vars
  <2>3. QED
    BY <1>5, <2>1, <2>2 DEF LbTypeOK, TypeInv, Views
<1>7. \A k : Listed(k)' = Listed(k)
  BY <1>4, ListedStays DEF vars
<1>8. LinesInv'
  BY <1>2, <1>3, <1>7 DEF LbInv, ViewInv, LinesInv
<1>9. AloneInv'
  <2>1. ~Disturbed(i) => ~Disturbed(i)'
    BY <1>3, <1>4 DEF Disturbed, Using, Viewing, vars
  <2>2. ~Disturbed(i) /\ step = "fetch" => Len(Listed(m)) = 0
    BY <1>1
  <2>3. QED
    BY <1>2, <1>3, <1>7, <2>1, <2>2 DEF AloneInv, Viewing
<1>10. QED
  BY <1>5, <1>6, <1>8, <1>9 DEF LbInv, ViewInv

\* A step on one window's view only.
LEMMA OwnView ==
  ASSUME LbInv, UNCHANGED vars, NEW i \in Instances, NEW v \in Views,
         view' = [view EXCEPT ![i] = v],
         v.step # "none" => pc[i] = "playing" /\ v.mode \in Modes,
         \/ v.printed = <<>>
         \/ /\ v.step = "fetch"
            /\ \E n \in 0..Len(Listed(v.mode)) : v.printed = FirstOf(Listed(v.mode), n),
         v.step # "none" /\ v.alone =>
           ~Disturbed(i) /\ (v.step = "fetch" => v.count = Len(Listed(v.mode))),
         v.step # "none" => Viewing(i)
  PROVE  LbInv'
<1>1. TypeInv' /\ IsFiniteSet(Rows)'
  BY DEF LbInv, TypeInv, TypeOK, Filled, Rows, vars
<1>2. view \in [Instances -> Views]
  BY DEF LbInv, LbTypeOK, Views
<1>3. view'[i] = v /\ \A j \in Instances \ {i} : view'[j] = view[j]
  BY <1>2
<1>4. LbTypeOK'
  <2>1. view' \in [Instances -> Views]
    BY <1>2
  <2>2. \A j \in Instances : Viewing(j)' => pc'[j] = "playing" /\ view'[j].mode \in Modes
    BY <1>3 DEF LbInv, LbTypeOK, Viewing, vars
  <2>3. QED
    BY <1>1, <2>1, <2>2 DEF LbTypeOK, TypeInv, Views
<1>5. \A k : Listed(k)' = Listed(k)
  BY ListedStays DEF vars
<1>6. LinesInv'
  BY <1>3, <1>5 DEF LbInv, ViewInv, LinesInv
<1>7. AloneInv'
  <2>1. \A j \in Instances : ~Disturbed(j) => ~Disturbed(j)'
    BY <1>3 DEF Disturbed, Using, Viewing, vars
  <2>2. QED
    BY <1>3, <1>5, <2>1 DEF LbInv, ViewInv, AloneInv, Viewing
<1>8. QED
  BY <1>1, <1>4, <1>6, <1>7 DEF LbInv, ViewInv

\* Without a row left there is nothing after the lines printed.
LEMMA MoreLines ==
  ASSUME LbInv, NEW i \in Instances, view[i].step = "fetch"
  PROVE  /\ view[i] \in Views /\ view[i].mode \in Modes
         /\ Listed(view[i].mode) \in Seq(Lines)
         /\ Len(view[i].printed) \in 0..Len(Listed(view[i].mode))
         /\ view[i].printed = FirstOf(Listed(view[i].mode), Len(view[i].printed))
<1>1. view[i] \in Views /\ view[i].mode \in Modes
  BY DEF LbInv, LbTypeOK, Viewing, Views
<1>2. Listed(view[i].mode) \in Seq(Lines)
  BY <1>1, ListedType DEF LbInv, TypeInv
<1>3. PICK n \in 0..Len(Listed(view[i].mode)) :
        view[i].printed = FirstOf(Listed(view[i].mode), n)
  <2>1. 0 \in 0..Len(Listed(view[i].mode)) /\ FirstOf(Listed(view[i].mode), 0) = <<>>
    BY <1>2 DEF FirstOf
  <2>2. QED
    BY <2>1 DEF LbInv, ViewInv, LinesInv
<1>4. QED
  BY <1>1, <1>2, <1>3, FirstLen

LEMMA DisplaySteps ==
  ASSUME LbInv, NEW i \in Instances, Rewind(i) \/ Count(i) \/ Fetch(i) \/ EndView(i)
  PROVE  LbInv'
<1>1. view[i] \in Views /\ view \in [Instances -> Views]
  BY DEF LbInv, LbTypeOK, Views
<1>2. CASE Count(i)
  <2>1. PICK n \in {Len(Listed(view[i].mode))} \union (IF Disturbed(i) THEN {0} ELSE {}) :
          view' = [view EXCEPT ![i].step = "fetch", ![i].count = n]
    BY <1>2 DEF Count
  <2> DEFINE v == [view[i] EXCEPT !.step = "fetch", !.count = n]
  <2>2. Viewing(i) /\ pc[i] = "playing" /\ view[i].mode \in Modes /\ view[i].printed = <<>>
    BY <1>2 DEF Count, Viewing, LbInv, LbTypeOK, ViewInv, LinesInv
  <2>3. Listed(view[i].mode) \in Seq(Lines) /\ Len(Listed(view[i].mode)) \in 0..Limit
    BY <2>2, ListedType DEF LbInv, TypeInv
  <2>4. n \in 0..Limit /\ (~Disturbed(i) => n = Len(Listed(view[i].mode)))
    BY <2>3, LimitAssumption
  <2>5. v \in Views /\ view' = [view EXCEPT ![i] = v]
    BY <1>1, <2>1, <2>4 DEF Views
  <2>6. /\ v.step = "fetch" /\ v.mode = view[i].mode /\ v.printed = <<>> /\ v.count = n
        /\ v.alone = view[i].alone
    BY <1>1, <2>2 DEF Views
  <2>7. v.alone => ~Disturbed(i)
    BY <2>2, <2>6 DEF LbInv, ViewInv, AloneInv
  <2> HIDE DEF v
  <2>8. QED
    BY <1>2, <2>2, <2>4, <2>5, <2>6, <2>7, OwnView DEF Count
<1>3. CASE Fetch(i)
  <2> DEFINE k == Len(view[i].printed) + 1
             rows == Listed(view[i].mode)
             v == [view[i] EXCEPT !.printed = Append(@, rows[k])]
  <2>1. view[i].step = "fetch" /\ k \in DOMAIN rows
    BY <1>3 DEF Fetch, ToPrint
  <2>2. Viewing(i) /\ pc[i] = "playing" /\ view[i].mode \in Modes
    BY <2>1 DEF Viewing, LbInv, LbTypeOK
  <2>3. /\ rows \in Seq(Lines) /\ view[i].printed \in Seq(Lines)
        /\ Len(view[i].printed) \in 0..Len(rows)
        /\ view[i].printed = FirstOf(rows, Len(view[i].printed))
    BY <1>1, <2>1, MoreLines DEF Views
  <2>4. rows[k] \in Lines /\ Append(view[i].printed, rows[k]) \in Seq(Lines)
    BY <2>1, <2>3
  <2>5. v \in Views /\ view' = [view EXCEPT ![i] = v]
    BY <1>1, <1>3, <2>4 DEF Fetch, Views
  <2>6. /\ v.step = "fetch" /\ v.mode = view[i].mode /\ v.count = view[i].count
        /\ v.printed = Append(view[i].printed, rows[k]) /\ v.alone = view[i].alone
    BY <1>1, <2>1 DEF Views
  <2>7. v.printed = FirstOf(rows, k) /\ k \in 0..Len(rows)
    <3> DEFINE n == Len(view[i].printed)
    <3>1. n \in Nat /\ n + 1 \in DOMAIN rows
      BY <2>1, <2>3
    <3>2. Append(FirstOf(rows, n), rows[n + 1]) = FirstOf(rows, n + 1) /\ n + 1 \in 0..Len(rows)
      BY <2>3, <3>1, NextLine
    <3>3. QED
      BY <2>3, <2>6, <3>2
  <2>8. \E l \in 0..Len(Listed(v.mode)) : v.printed = FirstOf(Listed(v.mode), l)
    BY <2>6, <2>7
  <2>9. v.alone => ~Disturbed(i) /\ v.count = Len(Listed(v.mode))
    BY <2>1, <2>2, <2>6 DEF LbInv, ViewInv, AloneInv
  <2>10. UNCHANGED vars /\ v.step # "none" /\ v.mode \in Modes
    BY <1>3, <2>2, <2>6 DEF Fetch
  <2> HIDE DEF v, k, rows
  <2>11. QED
    BY <2>2, <2>5, <2>6, <2>8, <2>9, <2>10, OwnView
<1>4. CASE EndView(i)
  <2>1. NoView \in Views /\ NoView.step = "none" /\ NoView.printed = <<>>
    BY LimitAssumption DEF NoView, Views
  <2>2. QED
    BY <1>4, <2>1, OwnView DEF EndView
<1>5. CASE Rewind(i)
  <2> DEFINE v == [view[i] EXCEPT !.step = "count"]
  <2>1. Viewing(i) /\ pc[i] = "playing" /\ view[i].mode \in Modes /\ view[i].printed = <<>>
    BY <1>5 DEF Rewind, Viewing, LbInv, LbTypeOK, ViewInv, LinesInv
  <2>2. v \in Views /\ view' = [view EXCEPT ![i] = v] /\ UNCHANGED vars
    BY <1>1, <1>5 DEF Rewind, Views
  <2>3. /\ v.step = "count" /\ v.mode = view[i].mode /\ v.printed = <<>>
        /\ v.alone = view[i].alone
    BY <1>1, <2>1 DEF Views
  <2>4. v.alone => ~Disturbed(i)
    BY <2>1, <2>3 DEF LbInv, ViewInv, AloneInv
  <2> HIDE DEF v
  <2>5. QED
    BY <2>1, <2>2, <2>3, <2>4, OwnView
<1>6. QED
  BY <1>2, <1>3, <1>4, <1>5

-----------------------------------------------------------------------------
(* The other steps.                                                        *)

\* A window ends, and its display with it.
LEMMA ViewVanishes ==
  ASSUME LbInv, TypeInv', UNCHANGED board, NEW i \in Instances, NEW step \in Stopped,
         Goto(i, step), view' = [view EXCEPT ![i] = NoView]
  PROVE  LbInv'
<1>1. view \in [Instances -> Views] /\ pc \in [Instances -> Running \union Stopped]
  BY DEF LbInv, LbTypeOK, Views, TypeInv, TypeOK
<1>2. NoView \in Views /\ NoView.step = "none" /\ NoView.printed = <<>>
  BY LimitAssumption DEF NoView, Views
<1>3. view'[i] = NoView /\ pc'[i] = step
  BY <1>1 DEF Goto
<1>4. \A j \in Instances \ {i} : view'[j] = view[j] /\ pc'[j] = pc[j]
  BY <1>1 DEF Goto
<1>5. IsFiniteSet(Rows)'
  BY DEF LbInv, Rows
<1>6. \A k : Listed(k)' = Listed(k)
  BY ListedStays
<1>7. LbTypeOK'
  <2>1. view' \in [Instances -> Views]
    BY <1>1, <1>2
  <2>2. \A j \in Instances : Viewing(j)' => pc'[j] = "playing" /\ view'[j].mode \in Modes
    BY <1>2, <1>3, <1>4 DEF LbInv, LbTypeOK, Viewing
  <2>3. QED
    BY <2>1, <2>2 DEF LbTypeOK, TypeInv, Views
<1>8. LinesInv'
  BY <1>2, <1>3, <1>4, <1>6 DEF LbInv, ViewInv, LinesInv
<1>9. AloneInv'
  <2>1. ~Using(i)'
    BY <1>2, <1>3 DEF Using, Viewing, UsingBoard, Stopped
  <2>2. \A j \in Instances : ~Disturbed(j) => ~Disturbed(j)'
    BY <1>4, <2>1 DEF Disturbed, Using, Viewing
  <2>3. QED
    BY <1>2, <1>3, <1>4, <1>6, <2>2 DEF LbInv, ViewInv, AloneInv, Viewing
<1>10. QED
  BY <1>5, <1>7, <1>8, <1>9 DEF LbInv, ViewInv

LEMMA CloseViewStep ==
  ASSUME LbInv, NEW i \in Instances, CloseView(i)
  PROVE  LbInv'
<1>1. TypeInv'
  BY ProgramTypes DEF CloseView, Program, FaultStep, LbInv
<1>2. "closed" \in Stopped
  BY DEF Stopped
<1>3. QED
  BY <1>1, <1>2, ViewVanishes DEF CloseView, Close, Tables

LEMMA FetchFaultsStep ==
  ASSUME LbInv, NEW i \in Instances, FetchFaults(i)
  PROVE  LbInv'
<1>1. Goto(i, "crashed") /\ Forget(i) /\ UNCHANGED Tables /\ "crashed" \in Stopped
  BY DEF FetchFaults, Stopped
<1>2. TypeInv'
  <2>1. TypeOK'
    BY <1>1, ForgetType DEF Goto, Tables, LbInv, TypeInv, TypeOK
  <2>2. Filled'
    BY <1>1 DEF Goto, Forget, NoForm, NoCredit, InSignUp, Crediting,
                LbInv, TypeInv, TypeOK, Filled
  <2>3. QED
    BY <2>1, <2>2 DEF TypeInv
<1>3. QED
  BY <1>1, <1>2, ViewVanishes DEF FetchFaults, Tables

\* A step outside the displays: a display that has lines to keep holds the lock, and
\* one that is alone has nobody near the board.
LEMMA ElsewhereStep ==
  ASSUME LbInv, NEW i \in Instances, Elsewhere(i)
  PROVE  LbInv'
<1>1. Program(i) /\ ~Viewing(i)
  BY DEF Elsewhere, Program
<1>2. TypeInv' /\ IsFiniteSet(Rows)'
  BY <1>1, ProgramTypes, RowsStayFinite DEF LbInv
<1>3. view \in [Instances -> Views]
  BY DEF LbInv, LbTypeOK, Views
<1>4. \A j \in Instances \ {i} : pc'[j] = pc[j]
  BY <1>1, OwnStep DEF LbInv
<1>5. view' = [j \in Instances |-> IF pc'[i] \in UsingBoard THEN NotAlone(j) ELSE view[j]]
  BY DEF Elsewhere
<1>6. ASSUME NEW j \in Instances
      PROVE  /\ view'[j] \in Views
             /\ view'[j].step = view[j].step /\ view'[j].mode = view[j].mode
             /\ view'[j].printed = view[j].printed /\ view'[j].count = view[j].count
             /\ view'[j].alone /\ Viewing(j) => view[j].alone /\ pc'[i] \notin UsingBoard
  <2>1. view[j] \in Views
    BY <1>3
  <2>2. view'[j] = IF pc'[i] \in UsingBoard THEN NotAlone(j) ELSE view[j]
    BY <1>5
  <2>3. NotAlone(j) = IF Viewing(j) THEN [view[j] EXCEPT !.alone = FALSE] ELSE view[j]
    BY DEF NotAlone
  <2>4. CASE pc'[i] \in UsingBoard /\ Viewing(j)
    <3>1. view'[j] = [view[j] EXCEPT !.alone = FALSE]
      BY <2>2, <2>3, <2>4
    <3>2. ~view'[j].alone
      BY <2>1, <3>1 DEF Views
    <3>3. /\ view'[j] \in Views
          /\ view'[j].step = view[j].step /\ view'[j].mode = view[j].mode
          /\ view'[j].printed = view[j].printed /\ view'[j].count = view[j].count
      BY <2>1, <3>1 DEF Views
    <3>4. QED
      BY <3>2, <3>3
  <2>5. CASE pc'[i] \notin UsingBoard \/ ~Viewing(j)
    BY <2>1, <2>2, <2>3, <2>5
  <2>6. QED
    BY <2>4, <2>5
<1>7. LbTypeOK'
  <2>1. view' \in [Instances -> Views]
    BY <1>5, <1>6
  <2>2. \A j \in Instances : Viewing(j)' => pc'[j] = "playing" /\ view'[j].mode \in Modes
    BY <1>1, <1>4, <1>6 DEF LbInv, LbTypeOK, Viewing
  <2>3. QED
    BY <1>2, <2>1, <2>2 DEF LbTypeOK, TypeInv, Views
<1>8. LinesInv'
  <2>1. ASSUME NEW j \in Instances, view[j].printed # <<>>, view[j].step = "fetch"
        PROVE  \A k : Listed(k)' = Listed(k)
    <3>1. j # i /\ Holds(j)
      BY <1>1, <2>1 DEF Viewing, Holds
    <3>2. UNCHANGED board
      BY <3>1 DEF Elsewhere
    <3>3. QED
      BY <3>2, ListedStays
  <2>2. QED
    BY <1>6, <2>1 DEF LbInv, ViewInv, LinesInv
<1>9. AloneInv'
  <2>1. ASSUME NEW j \in Instances, Viewing(j), view'[j].alone
        PROVE  /\ ~Disturbed(j)'
               /\ view[j].step = "fetch" => view[j].count = Len(Listed(view[j].mode))
               /\ \A k : Listed(k)' = Listed(k)
    <3>1. view[j].alone /\ j # i /\ pc'[i] \notin UsingBoard
      BY <1>1, <1>6, <2>1
    <3>2. ~Disturbed(j) /\ (view[j].step = "fetch" => view[j].count = Len(Listed(view[j].mode)))
      BY <2>1, <3>1 DEF LbInv, ViewInv, AloneInv
    <3>3. pc[i] \notin UsingBoard
      BY <3>1, <3>2 DEF Disturbed, Using
    <3>4. UNCHANGED board
      BY <1>1, <3>3, QuietBoard
    <3>5. ~Disturbed(j)'
      BY <1>1, <1>4, <1>6, <3>1, <3>2 DEF Disturbed, Using, Viewing
    <3>6. QED
      BY <3>2, <3>4, <3>5, ListedStays
  <2>2. QED
    BY <1>6, <2>1 DEF AloneInv, Viewing
<1>10. QED
  BY <1>2, <1>7, <1>8, <1>9 DEF LbInv, ViewInv

LEMMA LbInvStep == LbInv /\ [LbNext]_lbVars => LbInv'
<1> SUFFICES ASSUME LbInv, [LbNext]_lbVars PROVE LbInv'
  OBVIOUS
<1>1. ASSUME NEW i \in Instances, Show(i) \/ DisplayStep(i) \/ Elsewhere(i) \/ CloseView(i)
      PROVE  LbInv'
  BY <1>1, ShowStep, DisplaySteps, FetchFaultsStep, ElsewhereStep, CloseViewStep DEF DisplayStep
<1>2. CASE UNCHANGED lbVars
  <2>1. \A k : Listed(k)' = Listed(k)
    BY <1>2, ListedStays DEF lbVars, vars
  <2>2. TypeInv' /\ IsFiniteSet(Rows)' /\ LbTypeOK'
    BY <1>2 DEF lbVars, vars, LbInv, TypeInv, TypeOK, Filled, Rows, LbTypeOK, Viewing
  <2>3. ViewInv'
    BY <1>2, <2>1 DEF lbVars, vars, LbInv, ViewInv, LinesInv, AloneInv, Viewing,
                      Disturbed, Using
  <2>4. QED
    BY <2>2, <2>3 DEF LbInv
<1>3. QED
  BY <1>1, <1>2 DEF LbNext

LEMMA LbInvariance == LbSpec => []LbInv
<1>1. QED
  BY LbInvInit, LbInvStep, PTL DEF LbSpec

-----------------------------------------------------------------------------
(* The properties.                                                         *)

\* The types, of the files, the windows and what they display.
THEOREM BoardTypeCorrect == LbSpec => []LbTypeOK
<1>1. LbInv => LbTypeOK
  BY DEF LbInv
<1>2. QED
  BY <1>1, LbInvariance, PTL

\* What a display has printed were the first lines of the board at one moment, in
\* their order, whatever other windows did meanwhile.
THEOREM BoardLinesAreOneMoment == LbSpec => []LinesAreOneMoment
<1>1. LbInv => LinesAreOneMoment
  <2> SUFFICES ASSUME LbInv, NEW i \in Instances, view[i].step = "fetch"
               PROVE  IsPrefix(view[i].printed, Listed(view[i].mode))
    BY DEF LinesAreOneMoment
  <2>1. /\ Listed(view[i].mode) \in Seq(Lines)
        /\ Len(view[i].printed) \in 0..Len(Listed(view[i].mode))
        /\ view[i].printed = FirstOf(Listed(view[i].mode), Len(view[i].printed))
    BY MoreLines
  <2>2. IsPrefix(FirstOf(Listed(view[i].mode), Len(view[i].printed)), Listed(view[i].mode))
    BY <2>1, FirstIsPrefix
  <2>3. QED
    BY <2>1, <2>2
<1>2. QED
  BY <1>1, LbInvariance, PTL

\* A display that had the board to itself ends with all the rows of its query.
THEOREM BoardDisplayIsComplete == LbSpec => []DisplayIsComplete
<1>1. LbInv => DisplayIsComplete
  <2> SUFFICES ASSUME LbInv, NEW i \in Instances,
                      view[i].step = "fetch", ~ToPrint(i), view[i].alone
               PROVE  Len(view[i].printed) = Len(Listed(view[i].mode))
    BY DEF DisplayIsComplete
  <2>1. view[i].count = Len(Listed(view[i].mode))
    BY DEF LbInv, ViewInv, AloneInv, Viewing
  <2>2. /\ Listed(view[i].mode) \in Seq(Lines)
        /\ Len(view[i].printed) \in 0..Len(Listed(view[i].mode))
    BY MoreLines
  <2>3. QED
    BY <2>1, <2>2 DEF ToPrint
<1>2. QED
  BY <1>1, LbInvariance, PTL

\* Only a display that shared the board ends the process by fetching a row that is
\* not there.
THEOREM BoardDisplayStopsForOthers == LbSpec => DisplayStopsForOthers
<1> DEFINE A == \A i \in Instances : Viewing(i) /\ pc'[i] = "crashed" => ~view[i].alone
<1>1. LbInv /\ [LbNext]_lbVars => [A]_lbVars
  <2> SUFFICES ASSUME LbInv, LbNext, NEW i \in Instances, Viewing(i), pc'[i] = "crashed"
               PROVE  ~view[i].alone
    OBVIOUS
  <2>1. pc[i] = "playing"
    BY DEF LbInv, LbTypeOK
  <2>2. PICK j \in Instances : Show(j) \/ DisplayStep(j) \/ Elsewhere(j) \/ CloseView(j)
    BY DEF LbNext
  <2>3. CASE FetchFaults(j)
    <3>1. pc \in [Instances -> Running \union Stopped]
      BY DEF LbInv, TypeInv, TypeOK
    <3>2. i = j
      BY <2>1, <2>3, <3>1 DEF FetchFaults, Goto
    <3>3. /\ view[i].step = "fetch" /\ Len(view[i].printed) < view[i].count
          /\ Len(view[i].printed) + 1 \notin DOMAIN Listed(view[i].mode) \/ Disturbed(i)
      BY <2>3, <3>2 DEF FetchFaults, ToPrint
    <3>4. /\ Listed(view[i].mode) \in Seq(Lines)
          /\ Len(view[i].printed) \in 0..Len(Listed(view[i].mode))
      BY <3>3, MoreLines
    <3>5. view[i].alone => ~Disturbed(i) /\ view[i].count = Len(Listed(view[i].mode))
      BY <3>3 DEF LbInv, ViewInv, AloneInv
    <3>6. QED
      BY <3>3, <3>4, <3>5
  <2>4. CASE Show(j) \/ Rewind(j) \/ Count(j) \/ Fetch(j) \/ EndView(j)
    BY <2>1, <2>4 DEF Show, Rewind, Count, Fetch, EndView, vars
  <2>5. CASE Elsewhere(j)
    <3>1. i # j /\ Program(j)
      BY <2>5 DEF Elsewhere, Program
    <3>2. pc'[i] = pc[i]
      BY <3>1, OwnStep DEF LbInv
    <3>3. QED
      BY <2>1, <3>2
  <2>6. CASE CloseView(j)
    BY <2>1, <2>6 DEF CloseView, Close, Goto, LbInv, TypeInv, TypeOK
  <2>7. QED
    BY <2>2, <2>3, <2>4, <2>5, <2>6 DEF DisplayStep
<1>2. QED
  BY <1>1, LbInvariance, PTL DEF LbSpec, DisplayStopsForOthers

-----------------------------------------------------------------------------
(* The points, beside the displays.                                        *)

LEMMA BoardCredits == LbInv' /\ LbNext /\ CreditsInv => CreditsInv'
<1> SUFFICES ASSUME LbInv', LbNext, CreditsInv PROVE CreditsInv'
  OBVIOUS
<1>1. PICK i \in Instances : Show(i) \/ DisplayStep(i) \/ Elsewhere(i) \/ CloseView(i)
  BY DEF LbNext
<1>2. CASE FetchFaults(i)
  <2>1. TypeInv /\ TypeOK
    BY DEF CreditsInv, TypeInv
  <2>2. /\ pc' = [pc EXCEPT ![i] = "crashed"]
        /\ user' = [user EXCEPT ![i] = Guest]
        /\ form' = [form EXCEPT ![i] = NoForm]
        /\ credit' = [credit EXCEPT ![i] = NoCredit]
        /\ UNCHANGED <<players, board, earned>>
    BY <1>2 DEF FetchFaults, Goto, Forget, Tables
  <2>3. Idle(i)
    BY <2>1, <2>2 DEF Idle, Others, Crediting, TypeOK
  <2>4. TypeInv'
    BY DEF LbInv
  <2>5. QED
    BY <2>3, <2>4, IdleStep DEF CreditsInv
<1>3. CASE ~FetchFaults(i)
  <2>1. [Next]_vars
    BY <1>1, <1>3
       DEF DisplayStep, Show, Rewind, Count, Fetch, EndView, Elsewhere, CloseView, Next, FaultStep
  <2>2. QED
    BY <2>1, CreditsStep
<1>4. QED
  BY <1>2, <1>3

LEMMA BoardCreditsInit == LbInit => CreditsInv
<1> SUFFICES ASSUME LbInit PROVE CreditsInv
  OBVIOUS
<1>1. TypeInv
  BY LbInvInit DEF LbInv
<1>2. \A u, m : Owed(u, m) = 0
  BY NothingOwed DEF LbInit, Crediting
<1>3. AwardInv
  BY DEF LbInit, AwardInv, Crediting
<1>4. OwedInv
  <2> SUFFICES ASSUME NEW u \in Names, NEW m \in Modes
               PROVE  /\ Owed(u, m) <= earned[u][m]
                      /\ \A k \in DOMAIN board[u] :
                            board[u][k][m] + Owed(u, m) <= earned[u][m]
    BY DEF LbInit, OwedInv
  <2>1. earned[u][m] = 0
    BY DEF LbInit, FreshRow
  <2>2. ASSUME NEW k \in DOMAIN board[u] PROVE board[u][k] = FreshRow
    BY DEF LbInit
  <2>3. QED
    BY <1>2, <2>1, <2>2 DEF FreshRow
<1>5. QED
  BY <1>1, <1>3, <1>4 DEF CreditsInv

\* No line of a leaderboard boasts: with several windows, displays and faults, no row
\* of the board ever shows more than its player earned.
THEOREM BoardNeverOverCredited == LbSpec => []NeverOverCredited
<1>1. CreditsInv /\ UNCHANGED lbVars => CreditsInv'
  <2>1. UNCHANGED lbVars => [Next]_vars
    BY DEF lbVars, vars
  <2>2. QED
    BY <2>1, CreditsStep
<1>2. QED
  BY <1>1, BoardCredits, BoardCreditsInit, LbInvariance, OwedBounds, PTL DEF LbSpec
=============================================================================
