------------------------- MODULE PlayerStore_proofs -------------------------
(* Theorems about PlayerStore, for every value of its constants.            *)
EXTENDS PlayerStore, FiniteSetTheorems, SequenceTheorems, TLAPS

-----------------------------------------------------------------------------
(* The type invariant, for any windows and any faults.                      *)

\* TypeOK leaves room for None in a form and in a credit; the steps that use
\* them find them filled in.
Filled ==
    \A i \in Instances :
        /\ pc[i] \in {"signUpPassword"} \union InSignUp => form[i].name \in Names
        /\ pc[i] \in InSignUp => form[i].password \in Passwords
        /\ pc[i] \in Crediting => credit[i].mode \in Modes

TypeInv == TypeOK /\ Filled

LEMMA TypeInit == Init => TypeInv
  BY NamesAssumption
     DEF Init, TypeInv, TypeOK, Filled, FreshRow, NoForm, NoCredit, Running, Stopped,
         InSignUp, Crediting

\* Ending a session puts the window's three locals back to values of their types.
LEMMA ForgetType ==
  ASSUME NEW i \in Instances, TypeOK, Forget(i)
  PROVE  /\ user' \in [Instances -> Names]
         /\ form' \in [Instances -> [name : Names \union {None},
                                     password : Passwords \union {None}]]
         /\ credit' \in [Instances -> [mode : Modes \union {None},
                                       points : Nat, total : Nat]]
  BY NamesAssumption DEF Forget, TypeOK, NoForm, NoCredit

\* Typing a name or a password leaves a form of its type.
LEMMA FormType ==
  ASSUME NEW i \in Instances, TypeOK, NEW f,
         \/ \E u \in Names : f = [form EXCEPT ![i].name = u]
         \/ \E p \in Passwords : f = [form EXCEPT ![i].password = p]
  PROVE  f \in [Instances -> [name : Names \union {None},
                             password : Passwords \union {None}]]
<1> DEFINE Forms == [name : Names \union {None}, password : Passwords \union {None}]
<1>1. form \in [Instances -> Forms]
  BY DEF TypeOK
<1>2. PICK new \in Forms : f = [form EXCEPT ![i] = new]
  <2>1. CASE \E u \in Names : f = [form EXCEPT ![i].name = u]
    <3>1. PICK u \in Names : f = [form EXCEPT ![i].name = u]
      BY <2>1
    <3>2. [form[i] EXCEPT !.name = u] \in Forms
      BY <1>1
    <3>3. QED
      BY <3>1, <3>2
  <2>2. CASE \E p \in Passwords : f = [form EXCEPT ![i].password = p]
    <3>1. PICK p \in Passwords : f = [form EXCEPT ![i].password = p]
      BY <2>2
    <3>2. [form[i] EXCEPT !.password = p] \in Forms
      BY <1>1
    <3>3. QED
      BY <3>1, <3>2
  <2>3. QED
    BY <2>1, <2>2
<1> HIDE DEF Forms
<1>3. f \in [Instances -> Forms]
  BY <1>1, <1>2
<1>4. QED
  BY <1>3 DEF Forms

\* A new row at the end of one name's table is a table of the same type.
LEMMA AppendRow ==
  ASSUME NEW S, NEW f \in [Names -> Seq(S)], NEW u \in Names, NEW row \in S
  PROVE  [f EXCEPT ![u] = Append(@, row)] \in [Names -> Seq(S)]
<1>1. Append(f[u], row) \in Seq(S)
  OBVIOUS
<1>2. QED
  BY <1>1

LEMMA FreshRowType == FreshRow \in [Modes -> Nat]
  BY DEF FreshRow

LEMMA AppendPlayerType ==
  ASSUME NEW i \in Instances, TypeInv, pc[i] \in InSignUp, AppendPlayer(i)
  PROVE  players' \in [Names -> Seq(Passwords)]
  BY AppendRow DEF AppendPlayer, TypeInv, TypeOK, Filled, InSignUp

LEMMA TypeStep == TypeInv /\ [Next]_vars => TypeInv'
<1> SUFFICES ASSUME TypeInv, [Next]_vars PROVE TypeInv'
  OBVIOUS
<1> USE DEF Goto, Tables, Running, Stopped, InForm, InSignUp, InSession, Crediting
<1>1. ASSUME NEW i \in Instances, ProgramStep(i) PROVE TypeInv'
  <2>1. CASE AddCheck(i)
    <3>1. TypeOK'
      BY <2>1 DEF AddCheck, BeginSession, TypeInv, TypeOK, Filled
    <3>2. Filled'
      BY <2>1 DEF AddCheck, BeginSession, TypeInv, TypeOK, Filled
    <3>3. QED
      BY <3>1, <3>2 DEF TypeInv
  <2>2. CASE InsertPlayer(i)
    <3>1. TypeOK'
      BY <2>2, AppendPlayerType DEF InsertPlayer, TypeInv, TypeOK
    <3>2. Filled'
      BY <2>2 DEF InsertPlayer, AppendPlayer, TypeInv, TypeOK, Filled
    <3>3. QED
      BY <3>1, <3>2 DEF TypeInv
  <2>3. CASE InsertBoard(i)
    <3>1. TypeOK'
      <4>1. players' \in [Names -> Seq(Passwords)]
        BY <2>3, AppendPlayerType DEF InsertBoard, TypeInv, TypeOK
      <4>2. board' \in [Names -> Seq([Modes -> Nat])]
        <5>1. form[i].name \in Names
          BY <2>3 DEF InsertBoard, TypeInv, Filled
        <5>2. [board EXCEPT ![form[i].name] = Append(@, FreshRow)]
                 \in [Names -> Seq([Modes -> Nat])]
          BY <5>1, AppendRow, FreshRowType DEF TypeInv, TypeOK
        <5>3. QED
          BY <2>3, <5>2 DEF InsertBoard, TypeInv, TypeOK
      <4>3. QED
        BY <2>3, <4>1, <4>2 DEF InsertBoard, BeginSession, TypeInv, TypeOK, Filled
    <3>2. Filled'
      BY <2>3 DEF InsertBoard, AppendPlayer, BeginSession, FreshRow, TypeInv, TypeOK, Filled
    <3>3. QED
      BY <3>1, <3>2 DEF TypeInv
  <2>4. CASE ReadPoints(i)
    <3>1. TypeOK'
      <4> DEFINE rows == board[user[i]]
                 m == credit[i].mode
      <4>1. rows \in Seq([Modes -> Nat]) /\ m \in Modes /\ credit[i].points \in Nat
        BY <2>4 DEF ReadPoints, TypeInv, TypeOK, Filled
      <4>2. CASE rows # <<>> /\ rows[1][m] <= IntMax
                 /\ Goto(i, "writePoints") /\ UNCHANGED <<user, form>>
                 /\ credit' = [credit EXCEPT ![i].total = rows[1][m] + credit[i].points]
        <5>1. rows[1][m] + credit[i].points \in Nat
          BY <4>1, <4>2, SMTT(30)
        <5> DEFINE Credits == [mode : Modes \union {None}, points : Nat, total : Nat]
                   total == rows[1][m] + credit[i].points
        <5>2. credit' \in [Instances -> Credits]
          <6>1. credit \in [Instances -> Credits] /\ total \in Nat
            BY <5>1 DEF TypeInv, TypeOK
          <6>2. [credit[i] EXCEPT !.total = total] \in Credits
            BY <6>1
          <6>3. credit' = [credit EXCEPT ![i] = [@ EXCEPT !.total = total]]
            BY <4>2
          <6> HIDE DEF Credits, total
          <6>4. QED
            BY <6>1, <6>2, <6>3
        <5>3. UNCHANGED <<players, board, earned, user, form>>
          BY <2>4, <4>2 DEF ReadPoints, Tables
        <5>4. pc' \in [Instances -> Running \union Stopped]
          BY <4>2 DEF TypeInv, TypeOK, Goto, Running, InSession, Crediting
        <5>5. QED
          BY <5>2, <5>3, <5>4 DEF TypeInv, TypeOK
      <4>3. CASE Forget(i) /\ Goto(i, "thrown")
        BY <2>4, <4>3, ForgetType DEF ReadPoints, TypeInv, TypeOK
      <4>4. CASE Forget(i) /\ Goto(i, "crashed")
        BY <2>4, <4>4, ForgetType DEF ReadPoints, TypeInv, TypeOK
      <4>5. QED
        BY <2>4, <4>2, <4>3, <4>4 DEF ReadPoints
    <3>2. Filled'
      <4>1. CASE /\ Goto(i, "writePoints") /\ UNCHANGED <<user, form>>
                 /\ \E t : credit' = [credit EXCEPT ![i].total = t]
        BY <2>4, <4>1 DEF ReadPoints, TypeInv, TypeOK, Filled
      <4>2. CASE Forget(i) /\ (Goto(i, "thrown") \/ Goto(i, "crashed"))
        BY <4>2 DEF Forget, NoForm, NoCredit, TypeInv, TypeOK, Filled
      <4>3. QED
        BY <2>4, <4>1, <4>2 DEF ReadPoints
    <3>3. QED
      BY <3>1, <3>2 DEF TypeInv
  <2>5. CASE WritePoints(i)
    <3>1. TypeOK'
      <4> DEFINE m == credit[i].mode
                 newRows == [k \in DOMAIN board[user[i]] |->
                               [board[user[i]][k] EXCEPT ![m] = credit[i].total]]
      <4>1. newRows \in Seq([Modes -> Nat])
        <5>1. board[user[i]] \in Seq([Modes -> Nat]) /\ credit[i].total \in Nat
          BY DEF TypeInv, TypeOK
        <5>2. PICK n \in Nat : DOMAIN board[user[i]] = 1..n
          BY <5>1
        <5>3. ASSUME NEW k \in 1..n PROVE newRows[k] \in [Modes -> Nat]
          <6>1. board[user[i]][k] \in [Modes -> Nat]
            BY <5>1, <5>2
          <6>2. newRows[k] = [board[user[i]][k] EXCEPT ![m] = credit[i].total]
            BY <5>2
          <6>3. QED
            BY <5>1, <6>1, <6>2
        <5>4. QED
          BY <5>2, <5>3
      <4>2. board' = [board EXCEPT ![user[i]] = newRows] \/ UNCHANGED board
        BY <2>5 DEF WritePoints
      <4>3. board' \in [Names -> Seq([Modes -> Nat])]
        BY <4>1, <4>2 DEF TypeInv, TypeOK
      <4>4. QED
        BY <2>5, <4>3, NoneAssumption DEF WritePoints, NoCredit, TypeInv, TypeOK
    <3>2. Filled'
      BY <2>5 DEF WritePoints, NoCredit, TypeInv, TypeOK, Filled
    <3>3. QED
      BY <3>1, <3>2 DEF TypeInv
  <2>6. QED
    BY <1>1, <2>1, <2>2, <2>3, <2>4, <2>5 DEF ProgramStep
<1>2. ASSUME NEW i \in Instances, PlayerStep(i) PROVE TypeInv'
  <2>1. CASE Start(i)
    <3>1. TypeOK'
      BY <2>1 DEF Start, TypeInv, TypeOK, Filled
    <3>2. Filled'
      BY <2>1 DEF Start, TypeInv, TypeOK, Filled
    <3>3. QED
      BY <3>1, <3>2 DEF TypeInv
  <2>2. CASE ChooseForm(i)
    <3>1. TypeOK'
      BY <2>2 DEF ChooseForm, TypeInv, TypeOK, Filled
    <3>2. Filled'
      BY <2>2 DEF ChooseForm, TypeInv, TypeOK, Filled
    <3>3. QED
      BY <3>1, <3>2 DEF TypeInv
  <2>3. CASE LogIn(i)
    <3>1. TypeOK'
      BY <2>3 DEF LogIn, BeginSession, TypeInv, TypeOK, Filled
    <3>2. Filled'
      BY <2>3 DEF LogIn, BeginSession, TypeInv, TypeOK, Filled
    <3>3. QED
      BY <3>1, <3>2 DEF TypeInv
  <2>4. CASE SignUpName(i)
    <3>1. TypeOK'
      <4>1. /\ \E u \in Names : form' = [form EXCEPT ![i].name = u]
            /\ pc' = [pc EXCEPT ![i] = "signUpPassword"]
            /\ UNCHANGED <<players, board, earned, user, credit>>
        BY <2>4 DEF SignUpName
      <4>2. form' \in [Instances -> [name : Names \union {None},
                                    password : Passwords \union {None}]]
        BY <4>1, FormType DEF TypeInv
      <4>3. pc' \in [Instances -> Running \union Stopped]
        BY <4>1 DEF TypeInv, TypeOK
      <4>4. QED
        BY <4>1, <4>2, <4>3 DEF TypeInv, TypeOK
    <3>2. Filled'
      BY <2>4 DEF SignUpName, TypeInv, TypeOK, Filled
    <3>3. QED
      BY <3>1, <3>2 DEF TypeInv
  <2>5. CASE SignUpPassword(i)
    <3>1. TypeOK'
      <4>1. /\ \E p \in Passwords : form' = [form EXCEPT ![i].password = p]
            /\ pc' = [pc EXCEPT ![i] = "addCheck"]
            /\ UNCHANGED <<players, board, earned, user, credit>>
        BY <2>5 DEF SignUpPassword
      <4>2. form' \in [Instances -> [name : Names \union {None},
                                    password : Passwords \union {None}]]
        BY <4>1, FormType DEF TypeInv
      <4>3. pc' \in [Instances -> Running \union Stopped]
        BY <4>1 DEF TypeInv, TypeOK
      <4>4. QED
        BY <4>1, <4>2, <4>3 DEF TypeInv, TypeOK
    <3>2. Filled'
      BY <2>5 DEF SignUpPassword, TypeInv, TypeOK, Filled
    <3>3. QED
      BY <3>1, <3>2 DEF TypeInv
  <2>6. CASE Refuse(i)
    <3>1. TypeOK'
      BY <2>6 DEF Refuse, vars, TypeInv, TypeOK, Filled
    <3>2. Filled'
      BY <2>6 DEF Refuse, vars, TypeInv, TypeOK, Filled
    <3>3. QED
      BY <3>1, <3>2 DEF TypeInv
  <2>7. CASE FinishRound(i)
    <3>1. PICK m \in Modes, p \in Awards :
              /\ earned' = IF AccountSession(i) THEN [earned EXCEPT ![user[i]][m] = @ + p]
                                                ELSE earned
              /\ \/ /\ Goto(i, "readPoints")
                    /\ credit' = [credit EXCEPT ![i] =
                                    [mode |-> m, points |-> p, total |-> 0]]
                 \/ UNCHANGED <<pc, credit>>
      BY <2>7 DEF FinishRound, CallUpdatePlayerPoints
    <3>2. p \in Nat /\ user[i] \in Names
      BY AwardsAssumption DEF TypeInv, TypeOK
    <3>3. earned' \in [Names -> [Modes -> Nat]]
      <4>1. earned[user[i]][m] + p \in Nat
        BY <3>2 DEF TypeInv, TypeOK
      <4>2. QED
        BY <3>1, <3>2, <4>1 DEF TypeInv, TypeOK
    <3>4. TypeOK'
      <4>1. UNCHANGED <<players, board, user, form>>
        BY <2>7 DEF FinishRound, CallUpdatePlayerPoints
      <4>2. pc' \in [Instances -> Running \union Stopped]
        BY <3>1 DEF TypeInv, TypeOK
      <4>3. credit' \in [Instances -> [mode : Modes \union {None},
                                       points : Nat, total : Nat]]
        <5> DEFINE new == [mode |-> m, points |-> p, total |-> 0]
        <5>1. new \in [mode : Modes \union {None}, points : Nat, total : Nat]
          BY <3>2
        <5>2. credit' = [credit EXCEPT ![i] = new] \/ credit' = credit
          BY <3>1
        <5>3. QED
          BY <5>1, <5>2 DEF TypeInv, TypeOK
      <4>4. QED
        BY <3>3, <4>1, <4>2, <4>3 DEF TypeInv, TypeOK
    <3>5. Filled'
      BY <2>7, <3>1 DEF FinishRound, CallUpdatePlayerPoints, TypeInv, TypeOK, Filled
    <3>6. QED
      BY <3>4, <3>5 DEF TypeInv
  <2>8. CASE LogOut(i)
    <3>1. TypeOK'
      BY <2>8, ForgetType DEF LogOut, TypeInv, TypeOK, Filled
    <3>2. Filled'
      BY <2>8 DEF LogOut, Forget, NoForm, NoCredit, TypeInv, TypeOK, Filled
    <3>3. QED
      BY <3>1, <3>2 DEF TypeInv
  <2>9. CASE Exit(i)
    <3>1. TypeOK'
      BY <2>9 DEF Exit, TypeInv, TypeOK, Filled
    <3>2. Filled'
      BY <2>9 DEF Exit, TypeInv, TypeOK, Filled
    <3>3. QED
      BY <3>1, <3>2 DEF TypeInv
  <2>10. QED
    BY <1>2, <2>1, <2>2, <2>3, <2>4, <2>5, <2>6, <2>7, <2>8, <2>9 DEF PlayerStep
<1>3. ASSUME NEW i \in Instances, FaultStep(i) PROVE TypeInv'
  <2>1. CASE LogInFaults(i)
    <3>1. TypeOK'
      BY <2>1, ForgetType DEF LogInFaults, TypeInv, TypeOK, Filled
    <3>2. Filled'
      BY <2>1 DEF LogInFaults, Forget, NoForm, NoCredit, TypeInv, TypeOK, Filled
    <3>3. QED
      BY <3>1, <3>2 DEF TypeInv
  <2>2. CASE OpenThrows(i)
    <3>1. TypeOK'
      BY <2>2, ForgetType DEF OpenThrows, TypeInv, TypeOK, Filled
    <3>2. Filled'
      BY <2>2 DEF OpenThrows, Forget, NoForm, NoCredit, TypeInv, TypeOK, Filled
    <3>3. QED
      BY <3>1, <3>2 DEF TypeInv
  <2>3. CASE Close(i)
    <3>1. TypeOK'
      BY <2>3, ForgetType DEF Close, TypeInv, TypeOK, Filled
    <3>2. Filled'
      BY <2>3 DEF Close, Forget, NoForm, NoCredit, TypeInv, TypeOK, Filled
    <3>3. QED
      BY <3>1, <3>2 DEF TypeInv
  <2>4. QED
    BY <1>3, <2>1, <2>2, <2>3 DEF FaultStep
<1>4. CASE UNCHANGED vars
  BY <1>4 DEF vars, TypeInv, TypeOK, Filled
<1>5. QED
  BY <1>1, <1>2, <1>3, <1>4 DEF Next

\* Every state of the store and of the windows has the type the module gives it,
\* for any number of windows and any of the faults.
THEOREM TypeCorrect == Spec => []TypeOK
  BY TypeInit, TypeStep, PTL DEF Spec, TypeInv

-----------------------------------------------------------------------------
(* Rows and points.                                                         *)

LEMMA LenZero == ASSUME NEW S, NEW s \in Seq(S)
                 PROVE  Len(s) \in Nat /\ (Len(s) = 0 <=> s = <<>>)
  BY EmptySeq

LEMMA FirstPoints ==
  ASSUME NEW rows \in Seq([Modes -> Nat]), NEW m \in Modes
  PROVE  (IF rows = <<>> THEN 0 ELSE rows[1][m]) \in Nat
<1>1. CASE rows = <<>>
  BY <1>1
<1>2. CASE rows # <<>>
  <2>1. 1 \in 1..Len(rows)
    BY <1>2, EmptySeq
  <2>2. rows[1] \in [Modes -> Nat]
    BY <2>1
  <2>3. QED
    BY <1>2, <2>2
<1>3. QED
  BY <1>1, <1>2

\* What a new row changes in a table's column of rows, and what it does not.
LEMMA AppendFacts ==
  ASSUME NEW S, NEW s \in Seq(S), NEW e \in S
  PROVE  /\ Append(s, e) # <<>>
         /\ Append(s, e)[1] = IF s = <<>> THEN e ELSE s[1]
         /\ DOMAIN Append(s, e) = DOMAIN s \union {Len(s) + 1}
         /\ \A k \in DOMAIN s : Append(s, e)[k] = s[k]
         /\ Append(s, e)[Len(s) + 1] = e
<1>1. Len(s) \in Nat /\ DOMAIN s = 1..Len(s)
  OBVIOUS
<1>2. DOMAIN Append(s, e) = 1..(Len(s) + 1)
  OBVIOUS
<1>3. \A k \in 1..Len(s) : Append(s, e)[k] = s[k]
  OBVIOUS
<1>4. Append(s, e)[Len(s) + 1] = e
  OBVIOUS
<1>5. 1..(Len(s) + 1) = (1..Len(s)) \union {Len(s) + 1}
  BY <1>1
<1>6. Append(s, e) # <<>>
  BY <1>1, <1>2
<1>7. s = <<>> => Len(s) = 0
  OBVIOUS
<1>8. s # <<>> => 1 \in 1..Len(s)
  BY EmptySeq
<1>9. QED
  BY <1>1, <1>2, <1>3, <1>4, <1>5, <1>6, <1>7, <1>8

LEMMA AwardType == \A p \in Awards : p \in Nat
  BY AwardsAssumption

LEMMA PointsType ==
  ASSUME TypeOK, NEW u \in Names, NEW m \in Modes
  PROVE  /\ BoardPoints(u, m) \in Nat
         /\ board[u] \in Seq([Modes -> Nat])
         /\ \A k \in DOMAIN board[u] : board[u][k] \in [Modes -> Nat] /\ board[u][k][m] \in Nat
<1>1. board[u] \in Seq([Modes -> Nat])
  BY DEF TypeOK
<1>2. \A k \in DOMAIN board[u] : board[u][k] \in [Modes -> Nat]
  BY <1>1
<1>3. QED
  BY <1>1, <1>2, FirstPoints DEF BoardPoints

-----------------------------------------------------------------------------
(* No row shows more than was earned, for any windows and any faults.       *)

\* The points of the rounds that windows are crediting to column m of name u: a
\* window with p of them stands for p elements, so that the cardinality of the set
\* is their sum.
PendingPoints(u, m) ==
    {x \in Instances \X (1..IntMax) :
        CreditPending(x[1], u, m) /\ x[2] <= credit[x[1]].points}

Owed(u, m) == Cardinality(PendingPoints(u, m))

\* What is being credited is an award, of a session with an account.
AwardInv ==
    \A i \in Instances :
        /\ user[i] # Guest => AccountSession(i)
        /\ pc[i] \in Crediting => user[i] # Guest /\ credit[i].points \in Awards

\* Whatever a row shows, the pending points have been earned beside it; and beside
\* the total a window is about to write, the points of the others.
OwedInv ==
    \A u \in Names, m \in Modes :
        /\ Owed(u, m) <= earned[u][m]
        /\ \A k \in DOMAIN board[u] : board[u][k][m] + Owed(u, m) <= earned[u][m]
        /\ \A i \in Instances :
               pc[i] = "writePoints" /\ CreditPending(i, u, m) =>
                   credit[i].total + Owed(u, m) <= earned[u][m] + credit[i].points

CreditsInv == TypeInv /\ AwardInv /\ OwedInv

\* The steps that leave the leaderboard alone and end, or are no part of, an update.
Others(i) ==
    \A j \in Instances \ {i} :
        pc'[j] = pc[j] /\ user'[j] = user[j] /\ form'[j] = form[j] /\ credit'[j] = credit[j]

Idle(i) ==
    /\ UNCHANGED <<board, earned>>
    /\ Others(i)
    /\ pc'[i] \notin Crediting
    /\ user'[i] # Guest => AccountSession(i)'

ReadsOn(i) == ReadPoints(i) /\ pc'[i] = "writePoints"

LEMMA PendingFinite ==
  ASSUME NEW u, NEW m
  PROVE  IsFiniteSet(PendingPoints(u, m)) /\ Owed(u, m) \in Nat
<1>1. IsFiniteSet(1..IntMax)
  BY FS_Interval, AwardsAssumption
<1>2. IsFiniteSet(Instances \X (1..IntMax))
  BY <1>1, FS_Product, InstancesAssumption
<1>3. PendingPoints(u, m) \in SUBSET (Instances \X (1..IntMax))
  BY DEF PendingPoints
<1>4. IsFiniteSet(PendingPoints(u, m))
  BY <1>2, <1>3, FS_Subset
<1>5. QED
  BY <1>4, FS_CardinalityType DEF Owed

\* p pending points of one window.
LEMMA Share ==
  ASSUME NEW i, NEW p \in Nat
  PROVE  IsFiniteSet({i} \X (1..p)) /\ Cardinality({i} \X (1..p)) = p
<1>1. IsFiniteSet({i}) /\ Cardinality({i}) = 1
  BY FS_Singleton
<1>2. IsFiniteSet(1..p) /\ Cardinality(1..p) = p
  BY FS_Interval
<1>3. /\ IsFiniteSet({i} \X (1..p))
      /\ Cardinality({i} \X (1..p)) = Cardinality({i}) * Cardinality(1..p)
  BY <1>1, <1>2, FS_Product
<1>4. QED
  BY <1>1, <1>2, <1>3

\* Which fields the steps of a window can change, and how.
LEMMA StepKinds ==
  ASSUME TypeInv, AwardInv, NEW i \in Instances, ProgramStep(i) \/ PlayerStep(i) \/ FaultStep(i)
  PROVE  \/ Idle(i) \/ UNCHANGED vars
         \/ InsertBoard(i) \/ FinishRound(i) \/ ReadsOn(i) \/ WritePoints(i)
<1> USE DEF Goto, Tables, Crediting, Idle, Others, TypeInv, TypeOK
<1>1. CASE AddCheck(i) \/ InsertPlayer(i)
  <2>1. form[i].name \in Names /\ form'[i] = form[i]
    BY <1>1 DEF AddCheck, InsertPlayer, Filled, InSignUp
  <2>2. AccountSession(i)'
    BY <2>1, NoneAssumption DEF AccountSession, NoForm
  <2>3. QED
    BY <1>1, <2>2 DEF AddCheck, InsertPlayer, BeginSession, AppendPlayer
<1>2. CASE ReadPoints(i)
  <2>1. CASE Forget(i) /\ pc' = [pc EXCEPT ![i] = "thrown"]
    BY <1>2, <2>1 DEF ReadPoints, Forget
  <2>2. CASE Forget(i) /\ pc' = [pc EXCEPT ![i] = "crashed"]
    BY <1>2, <2>2 DEF ReadPoints, Forget
  <2>3. CASE pc' = [pc EXCEPT ![i] = "writePoints"]
    BY <1>2, <2>3 DEF ReadsOn
  <2>4. QED
    BY <1>2, <2>1, <2>2, <2>3 DEF ReadPoints
<1>3. CASE Start(i) \/ ChooseForm(i) \/ Exit(i)
  BY <1>3 DEF Start, ChooseForm, Exit, AwardInv, AccountSession
<1>4. CASE LogIn(i)
  BY <1>4, NoneAssumption DEF LogIn, BeginSession, AccountSession, NoForm
<1>5. CASE SignUpName(i)
  BY <1>5, NoneAssumption DEF SignUpName, AccountSession, NoForm
<1>6. CASE SignUpPassword(i)
  BY <1>6, NoneAssumption DEF SignUpPassword, AccountSession, NoForm
<1>7. CASE LogOut(i) \/ LogInFaults(i) \/ OpenThrows(i) \/ Close(i)
  BY <1>7 DEF LogOut, LogInFaults, OpenThrows, Close, Forget
<1>8. QED
  BY <1>1, <1>2, <1>3, <1>4, <1>5, <1>6, <1>7
     DEF ProgramStep, PlayerStep, FaultStep, Refuse

LEMMA LowerSum ==
  \A a, b, c, d, e \in Nat : c <= b /\ a + b <= d + e => a + c <= d + e
  OBVIOUS

LEMMA LowerLeft ==
  \A a, b, c, d \in Nat : c <= b /\ a + b <= d => a + c <= d
  OBVIOUS

LEMMA GrowSum ==
  \A a, b, c, d, e, f \in Nat : c + d <= b + f /\ a + b <= d + e => a + c <= f + e
  OBVIOUS

LEMMA SubsetBound ==
  ASSUME NEW S, NEW T, IsFiniteSet(S), T \subseteq S
  PROVE  IsFiniteSet(T) /\ Cardinality(T) \in Nat /\ Cardinality(T) <= Cardinality(S)
  BY FS_Subset, FS_CardinalityType

LEMMA UnionBound ==
  ASSUME NEW S, NEW T, IsFiniteSet(S), IsFiniteSet(T)
  PROVE  /\ IsFiniteSet(S \union T)
         /\ Cardinality(S \union T) \in Nat
         /\ Cardinality(S \union T) <= Cardinality(S) + Cardinality(T)
<1>1. /\ IsFiniteSet(S \union T)
      /\ Cardinality(S \union T) = Cardinality(S) + Cardinality(T) - Cardinality(S \cap T)
  BY FS_Union
<1>2. IsFiniteSet(S \cap T)
  BY FS_Intersection
<1>3. /\ Cardinality(S) \in Nat /\ Cardinality(T) \in Nat
      /\ Cardinality(S \cap T) \in Nat /\ Cardinality(S \union T) \in Nat
  BY <1>1, <1>2, FS_CardinalityType
<1>4. QED
  BY <1>1, <1>3

LEMMA IdleStep ==
  ASSUME CreditsInv, NEW i \in Instances, Idle(i)
  PROVE  AwardInv' /\ OwedInv'
<1> USE DEF CreditsInv, TypeInv, TypeOK, Idle, Others
<1>1. \A j \in Instances, u \in Names, m \in Modes :
         CreditPending(j, u, m)' => j # i /\ CreditPending(j, u, m)
  BY DEF CreditPending
<1>2. AwardInv'
  BY DEF AwardInv, AccountSession
<1>3. ASSUME NEW u \in Names, NEW m \in Modes
      PROVE  Owed(u, m) \in Nat /\ Owed(u, m)' \in Nat /\ Owed(u, m)' <= Owed(u, m)
  <2>1. PendingPoints(u, m)' \subseteq PendingPoints(u, m)
    BY <1>1 DEF PendingPoints
  <2>2. IsFiniteSet(PendingPoints(u, m)) /\ Owed(u, m) \in Nat
    BY PendingFinite
  <2>3. QED
    BY <2>1, <2>2, FS_Subset, FS_CardinalityType DEF Owed
<1>4. OwedInv'
  <2> SUFFICES ASSUME NEW u \in Names, NEW m \in Modes
               PROVE  /\ Owed(u, m)' <= earned[u][m]
                      /\ \A k \in DOMAIN board[u] :
                            board[u][k][m] + Owed(u, m)' <= earned[u][m]
                      /\ \A j \in Instances :
                            (pc[j] = "writePoints" /\ CreditPending(j, u, m))' =>
                               credit'[j].total + Owed(u, m)'
                                  <= earned[u][m] + credit'[j].points
    BY DEF OwedInv
  <2>1. earned[u][m] \in Nat /\ board[u] \in Seq([Modes -> Nat])
    OBVIOUS
  <2>2. \A k \in DOMAIN board[u] : board[u][k][m] \in Nat
    BY <2>1
  <2>3. ASSUME NEW j \in Instances, (pc[j] = "writePoints" /\ CreditPending(j, u, m))'
        PROVE  credit'[j].total + Owed(u, m)' <= earned[u][m] + credit'[j].points
    <3>1. /\ pc[j] = "writePoints" /\ CreditPending(j, u, m)
          /\ credit'[j] = credit[j]
      BY <1>1, <2>3
    <3>2. credit[j].total + Owed(u, m) <= earned[u][m] + credit[j].points
      BY <3>1 DEF OwedInv
    <3>3. credit[j].total \in Nat /\ credit[j].points \in Nat
      OBVIOUS
    <3>4. credit[j].total + Owed(u, m)' <= earned[u][m] + credit[j].points
      BY <1>3, <2>1, <3>2, <3>3, LowerSum
    <3>5. QED
      BY <3>1, <3>4
  <2>4. Owed(u, m)' <= earned[u][m]
    <3>1. Owed(u, m) <= earned[u][m]
      BY DEF OwedInv
    <3>2. QED
      BY <1>3, <2>1, <3>1
  <2>5. ASSUME NEW k \in DOMAIN board[u]
        PROVE  board[u][k][m] + Owed(u, m)' <= earned[u][m]
    <3>1. board[u][k][m] + Owed(u, m) <= earned[u][m]
      BY DEF OwedInv
    <3>2. QED
      BY <1>3, <2>1, <2>2, <3>1, LowerLeft
  <2>6. QED
    BY <2>3, <2>4, <2>5
<1>5. QED
  BY <1>2, <1>4

\* The second INSERT adds, if anything, a row of zeros.
LEMMA InsertBoardOwed ==
  ASSUME CreditsInv, NEW i \in Instances, InsertBoard(i)
  PROVE  AwardInv' /\ OwedInv'
<1> DEFINE n == form[i].name
<1> USE DEF CreditsInv, TypeInv, TypeOK
<1>1. n \in Names /\ n # None
  BY NoneAssumption DEF InsertBoard, Filled, InSignUp
<1>2. /\ UNCHANGED <<earned, form, credit>>
      /\ pc' = [pc EXCEPT ![i] = "playing"] /\ user' = [user EXCEPT ![i] = n]
      /\ pc[i] = "insertBoard"
  BY DEF InsertBoard, BeginSession, Goto
<1>3. AwardInv'
  BY <1>1, <1>2 DEF AwardInv, AccountSession, NoForm, Crediting
<1>4. ASSUME NEW u \in Names, NEW m \in Modes
      PROVE  /\ Owed(u, m)' = Owed(u, m)
             /\ \A j \in Instances : CreditPending(j, u, m)' <=> CreditPending(j, u, m)
  <2>1. \A j \in Instances : CreditPending(j, u, m)' <=> CreditPending(j, u, m)
    BY <1>2 DEF CreditPending, Crediting
  <2>2. PendingPoints(u, m)' = PendingPoints(u, m)
    BY <1>2, <2>1 DEF PendingPoints
  <2>3. QED
    BY <2>1, <2>2 DEF Owed
<1>5. ASSUME NEW u \in Names, NEW m \in Modes, NEW k \in DOMAIN board'[u]
      PROVE  board'[u][k][m] + Owed(u, m) <= earned[u][m]
  <2>1. Owed(u, m) \in Nat /\ Owed(u, m) <= earned[u][m] /\ earned[u][m] \in Nat
    BY PendingFinite DEF OwedInv
  <2>2. \/ k \in DOMAIN board[u] /\ board'[u][k] = board[u][k]
        \/ board'[u][k] = FreshRow
    <3>1. CASE board' = [board EXCEPT ![n] = Append(@, FreshRow)]
      <4>1. CASE u = n
        <5>1. board'[u] = Append(board[u], FreshRow) /\ board[u] \in Seq([Modes -> Nat])
          BY <3>1, <4>1
        <5>2. QED
          BY <5>1
      <4>2. CASE u # n
        BY <3>1, <4>2
      <4>3. QED
        BY <4>1, <4>2
    <3>2. CASE UNCHANGED board
      BY <3>2
    <3>3. QED
      BY <3>1, <3>2 DEF InsertBoard
  <2>3. CASE board'[u][k] = FreshRow
    BY <2>1, <2>3 DEF FreshRow
  <2>4. QED
    BY <2>2, <2>3 DEF OwedInv
<1>6. OwedInv'
  BY <1>2, <1>4, <1>5 DEF OwedInv
<1>7. QED
  BY <1>3, <1>6

\* The round's points are earned, and become pending at most once.
LEMMA FinishRoundOwed ==
  ASSUME CreditsInv, NEW i \in Instances, FinishRound(i)
  PROVE  AwardInv' /\ OwedInv'
<1>0. TypeOK /\ AwardInv /\ OwedInv
  BY DEF CreditsInv, TypeInv
<1>1. PICK n \in Modes, p \in Awards : CallUpdatePlayerPoints(i, n, p)
  BY DEF FinishRound
<1> DEFINE v == user[i]
           new == [mode |-> n, points |-> p, total |-> 0]
<1>2. p \in Nat /\ v \in Names /\ p <= IntMax /\ pc[i] = "playing"
  BY <1>0, AwardsAssumption DEF FinishRound, TypeOK
<1>3. earned' = IF AccountSession(i) THEN [earned EXCEPT ![v][n] = @ + p] ELSE earned
  BY <1>1 DEF CallUpdatePlayerPoints
<1>4. UNCHANGED <<board, user, form>>
  BY <1>1 DEF CallUpdatePlayerPoints
<1>5. \/ /\ v # Guest
         /\ pc' = [pc EXCEPT ![i] = "readPoints"] /\ credit' = [credit EXCEPT ![i] = new]
      \/ UNCHANGED <<pc, credit>>
  BY <1>1 DEF CallUpdatePlayerPoints, Goto
<1>6. AwardInv'
  <2>1. \A j \in Instances : pc'[j] \in Crediting =>
           \/ pc[j] \in Crediting /\ credit'[j] = credit[j]
           \/ j = i /\ v # Guest /\ credit'[j].points = p
    BY <1>0, <1>5 DEF TypeOK, Crediting
  <2>2. QED
    BY <1>0, <1>4, <2>1 DEF AwardInv, AccountSession
<1>7. ASSUME NEW u \in Names, NEW m \in Modes
      PROVE  /\ earned[u][m] \in Nat /\ earned'[u][m] \in Nat
             /\ Owed(u, m) \in Nat /\ Owed(u, m)' \in Nat
             /\ Owed(u, m)' + earned[u][m] <= Owed(u, m) + earned'[u][m]
  <2>1. Owed(u, m) \in Nat /\ IsFiniteSet(PendingPoints(u, m)) /\ earned[u][m] \in Nat
    BY <1>0, PendingFinite DEF TypeOK
  <2>2. /\ earned'[u][m] \in Nat /\ earned'[u][m] >= earned[u][m]
        /\ u = v /\ m = n /\ AccountSession(i) => earned'[u][m] = earned[u][m] + p
    BY <1>0, <1>2, <1>3, <2>1 DEF TypeOK
  <2>3. CASE u = v /\ m = n /\ ~UNCHANGED <<pc, credit>>
    <3>1. AccountSession(i)
      BY <1>0, <1>5, <2>3 DEF AwardInv
    <3>2. PendingPoints(u, m)' \subseteq PendingPoints(u, m) \union ({i} \X (1..p))
      BY <1>0, <1>4, <1>5, <2>3 DEF TypeOK, PendingPoints, CreditPending, Crediting
    <3>3. /\ IsFiniteSet({i} \X (1..p)) /\ Cardinality({i} \X (1..p)) = p
      BY <1>2, Share
    <3>4. /\ IsFiniteSet(PendingPoints(u, m) \union ({i} \X (1..p)))
          /\ Cardinality(PendingPoints(u, m) \union ({i} \X (1..p))) <= Owed(u, m) + p
      BY <1>2, <2>1, <3>3, UnionBound DEF Owed
    <3>5. Owed(u, m)' \in Nat /\ Owed(u, m)' <= Owed(u, m) + p
      BY <1>2, <2>1, <3>2, <3>4, SubsetBound DEF Owed
    <3>6. QED
      BY <1>2, <2>1, <2>2, <2>3, <3>1, <3>5
  <2>4. CASE ~(u = v /\ m = n) \/ UNCHANGED <<pc, credit>>
    <3>1. \A j \in Instances : CreditPending(j, u, m)' =>
                                 CreditPending(j, u, m) /\ credit'[j] = credit[j]
      <4>1. CASE UNCHANGED <<pc, credit>>
        BY <1>4, <4>1 DEF CreditPending
      <4>2. CASE ~(u = v /\ m = n)
        BY <1>0, <1>4, <1>5, <2>4, <4>2 DEF TypeOK, CreditPending, Crediting
      <4>3. QED
        BY <2>4, <4>1, <4>2
    <3>1a. PendingPoints(u, m)' \subseteq PendingPoints(u, m)
      BY <3>1 DEF PendingPoints
    <3>2. Owed(u, m)' \in Nat /\ Owed(u, m)' <= Owed(u, m)
      BY <2>1, <3>1a, SubsetBound DEF Owed
    <3>3. QED
      BY <2>1, <2>2, <3>2
  <2>5. QED
    BY <2>3, <2>4
<1>8. OwedInv'
  <2> SUFFICES ASSUME NEW u \in Names, NEW m \in Modes
               PROVE  /\ Owed(u, m)' <= earned'[u][m]
                      /\ \A k \in DOMAIN board[u] :
                            board[u][k][m] + Owed(u, m)' <= earned'[u][m]
                      /\ \A j \in Instances :
                            (pc[j] = "writePoints" /\ CreditPending(j, u, m))' =>
                               credit'[j].total + Owed(u, m)'
                                  <= earned'[u][m] + credit'[j].points
    BY <1>4 DEF OwedInv
  <2>1. Owed(u, m)' <= earned'[u][m]
    <3>1. Owed(u, m) <= earned[u][m]
      BY <1>0 DEF OwedInv
    <3>2. QED
      BY <1>7, <3>1
  <2>2. ASSUME NEW k \in DOMAIN board[u] PROVE board[u][k][m] + Owed(u, m)' <= earned'[u][m]
    <3>1. board[u][k][m] \in Nat
      <4>1. board[u] \in Seq([Modes -> Nat])
        BY <1>0 DEF TypeOK
      <4>2. QED
        BY <4>1
    <3>2. board[u][k][m] + Owed(u, m) <= earned[u][m]
      BY <1>0 DEF OwedInv
    <3>3. board[u][k][m] + Owed(u, m)' <= earned'[u][m] + 0
      BY <1>7, <3>1, <3>2, GrowSum
    <3>4. QED
      BY <1>7, <3>3
  <2>3. ASSUME NEW j \in Instances, (pc[j] = "writePoints" /\ CreditPending(j, u, m))'
        PROVE  credit'[j].total + Owed(u, m)' <= earned'[u][m] + credit'[j].points
    <3>1. /\ pc[j] = "writePoints" /\ CreditPending(j, u, m)
          /\ credit'[j] = credit[j]
      BY <1>0, <1>2, <1>4, <1>5, <2>3 DEF TypeOK, CreditPending, Crediting
    <3>2. credit[j].total + Owed(u, m) <= earned[u][m] + credit[j].points
      BY <1>0, <3>1 DEF OwedInv
    <3>3. credit[j].total \in Nat /\ credit[j].points \in Nat
      BY <1>0 DEF TypeOK
    <3>4. credit[j].total + Owed(u, m)' <= earned'[u][m] + credit[j].points
      BY <1>7, <3>2, <3>3, GrowSum
    <3>5. QED
      BY <3>1, <3>4
  <2>4. QED
    BY <2>1, <2>2, <2>3
<1>9. QED
  BY <1>6, <1>8

\* The total is computed from what the first row shows.
LEMMA ReadsOnOwed ==
  ASSUME CreditsInv, NEW i \in Instances, ReadsOn(i)
  PROVE  AwardInv' /\ OwedInv'
<1> DEFINE v == user[i]
           n == credit[i].mode
           t == board[v][1][n] + credit[i].points
<1>0. TypeOK /\ Filled /\ AwardInv /\ OwedInv
  BY DEF CreditsInv, TypeInv
<1>1. /\ pc[i] = "readPoints" /\ board[v] # <<>>
      /\ pc' = [pc EXCEPT ![i] = "writePoints"] /\ credit' = [credit EXCEPT ![i].total = t]
      /\ UNCHANGED <<players, board, earned, user, form>>
  BY <1>0 DEF ReadsOn, ReadPoints, Goto, Tables, TypeOK
<1>2. /\ credit'[i] = [credit[i] EXCEPT !.total = t] /\ pc'[i] = "writePoints"
      /\ \A j \in Instances \ {i} : pc'[j] = pc[j] /\ credit'[j] = credit[j]
  BY <1>0, <1>1 DEF TypeOK
<1>3. /\ credit'[i].mode = credit[i].mode /\ credit'[i].points = credit[i].points
      /\ credit'[i].total = t
  <2>1. credit[i] \in [mode : Modes \union {None}, points : Nat, total : Nat]
    BY <1>0 DEF TypeOK
  <2>2. QED
    BY <1>2, <2>1
<1>4. \A j \in Instances : credit'[j].mode = credit[j].mode
  BY <1>2, <1>3
<1>5. \A j \in Instances : credit'[j].points = credit[j].points
  BY <1>2, <1>3
<1>6. \A j \in Instances : (pc'[j] \in Crediting) <=> (pc[j] \in Crediting)
  BY <1>1, <1>2 DEF Crediting
<1>7. AwardInv'
  BY <1>0, <1>1, <1>5, <1>6 DEF AwardInv, AccountSession
<1>8. ASSUME NEW u \in Names, NEW m \in Modes
      PROVE  /\ Owed(u, m)' = Owed(u, m)
             /\ \A j \in Instances : CreditPending(j, u, m)' <=> CreditPending(j, u, m)
  <2>1. \A j \in Instances : CreditPending(j, u, m)' <=> CreditPending(j, u, m)
    BY <1>1, <1>4, <1>6 DEF CreditPending
  <2>2. PendingPoints(u, m)' = PendingPoints(u, m)
    <3>1. \A j \in Instances, k \in 1..IntMax :
             (CreditPending(j, u, m) /\ k <= credit[j].points)'
                <=> (CreditPending(j, u, m) /\ k <= credit[j].points)
      BY <1>5, <2>1
    <3>2. QED
      BY <3>1 DEF PendingPoints
  <2>3. QED
    BY <2>1, <2>2 DEF Owed
<1>9. ASSUME NEW u \in Names, NEW m \in Modes, NEW j \in Instances,
             (pc[j] = "writePoints" /\ CreditPending(j, u, m))'
      PROVE  credit'[j].total + Owed(u, m) <= earned[u][m] + credit'[j].points
  <2>1. CASE j = i
    <3>1. u = v /\ m = n
      BY <1>8, <1>9, <2>1 DEF CreditPending
    <3>2. board[v] \in Seq([Modes -> Nat]) /\ 1 \in DOMAIN board[v]
      BY <1>0, <1>1, EmptySeq, SMTT(30) DEF TypeOK
    <3>3. board[v][1][n] + Owed(u, m) <= earned[u][m]
      BY <1>0, <3>1, <3>2 DEF OwedInv
    <3>4. /\ board[v][1][n] \in Nat /\ credit[i].points \in Nat
          /\ Owed(u, m) \in Nat /\ earned[u][m] \in Nat
      BY <1>0, <3>1, <3>2, PendingFinite DEF TypeOK
    <3>5. t + Owed(u, m) <= earned[u][m] + credit[i].points
      BY <3>3, <3>4
    <3>6. credit'[i].total = t /\ credit'[i].points = credit[i].points
      BY <1>3
    <3>7. QED
      BY <2>1, <3>5, <3>6
  <2>2. CASE j # i
    BY <1>0, <1>2, <1>8, <1>9, <2>2 DEF OwedInv
  <2>3. QED
    BY <2>1, <2>2
<1>10. OwedInv'
  BY <1>0, <1>1, <1>8, <1>9 DEF OwedInv
<1>11. QED
  BY <1>7, <1>10

\* The update stores a total that leaves room for what the others have pending.
LEMMA WritePointsOwed ==
  ASSUME CreditsInv, NEW i \in Instances, WritePoints(i)
  PROVE  AwardInv' /\ OwedInv'
<1> DEFINE v == user[i]
           n == credit[i].mode
           t == credit[i].total
           p == credit[i].points
<1>0. TypeOK /\ Filled /\ AwardInv /\ OwedInv
  BY DEF CreditsInv, TypeInv
<1>1. /\ pc[i] = "writePoints"
      /\ pc' = [pc EXCEPT ![i] = "playing"] /\ credit' = [credit EXCEPT ![i] = NoCredit]
      /\ UNCHANGED <<players, earned, user, form>>
      /\ \/ board' = [board EXCEPT ![v] = [k \in DOMAIN @ |-> [@[k] EXCEPT ![n] = t]]]
         \/ UNCHANGED board
  BY DEF WritePoints, Goto
<1>2. /\ pc'[i] = "playing"
      /\ \A j \in Instances \ {i} : pc'[j] = pc[j] /\ credit'[j] = credit[j]
  BY <1>0, <1>1 DEF TypeOK
<1>3. AwardInv'
  BY <1>0, <1>1, <1>2 DEF AwardInv, AccountSession, Crediting
<1>4. \A u \in Names, m \in Modes, j \in Instances :
         CreditPending(j, u, m)' <=> j # i /\ CreditPending(j, u, m)
  BY <1>1, <1>2 DEF CreditPending, Crediting
<1>5. v \in Names /\ n \in Modes /\ t \in Nat /\ p \in Nat /\ p <= IntMax
  BY <1>0, <1>1, AwardsAssumption DEF TypeOK, Filled, AwardInv, Crediting
<1>6. ASSUME NEW u \in Names, NEW m \in Modes
      PROVE  /\ Owed(u, m) \in Nat /\ Owed(u, m)' \in Nat /\ Owed(u, m)' <= Owed(u, m)
             /\ u = v /\ m = n => Owed(u, m)' + p = Owed(u, m)
  <2>1. Owed(u, m) \in Nat /\ IsFiniteSet(PendingPoints(u, m))
    BY PendingFinite
  <2>2. PendingPoints(u, m)' \subseteq PendingPoints(u, m)
    BY <1>2, <1>4 DEF PendingPoints
  <2>3. Owed(u, m)' \in Nat /\ Owed(u, m)' <= Owed(u, m)
    BY <2>1, <2>2, SubsetBound DEF Owed
  <2>4. ASSUME u = v, m = n PROVE Owed(u, m)' + p = Owed(u, m)
    <3>1. CreditPending(i, u, m)
      BY <1>1, <2>4 DEF CreditPending, Crediting
    <3>2. {i} \X (1..p) \subseteq PendingPoints(u, m)
      BY <1>5, <3>1, AwardsAssumption DEF PendingPoints
    <3>3. PendingPoints(u, m)' = PendingPoints(u, m) \ ({i} \X (1..p))
      BY <1>2, <1>4, <1>5 DEF PendingPoints
    <3>4. IsFiniteSet({i} \X (1..p)) /\ Cardinality({i} \X (1..p)) = p
      BY <1>5, Share
    <3>5. PendingPoints(u, m) \cap ({i} \X (1..p)) = {i} \X (1..p)
      BY <3>2
    <3>6. Cardinality(PendingPoints(u, m) \ ({i} \X (1..p))) = Owed(u, m) - p
      <4>1. Cardinality(PendingPoints(u, m) \ ({i} \X (1..p)))
              = Cardinality(PendingPoints(u, m))
                  - Cardinality(PendingPoints(u, m) \cap ({i} \X (1..p)))
        BY <2>1, FS_Difference
      <4>2. QED
        BY <3>4, <3>5, <4>1 DEF Owed
    <3>7. Owed(u, m)' = Owed(u, m) - p
      BY <3>3, <3>6 DEF Owed
    <3>8. QED
      BY <1>5, <2>1, <2>3, <3>7
  <2>5. QED
    BY <2>1, <2>3, <2>4
<1>7. ASSUME NEW u \in Names, NEW m \in Modes, NEW k \in DOMAIN board'[u]
      PROVE  board'[u][k][m] + Owed(u, m)' <= earned[u][m]
  <2>1. board[u] \in Seq([Modes -> Nat]) /\ earned[u][m] \in Nat
    BY <1>0 DEF TypeOK
  <2>2. /\ k \in DOMAIN board[u] /\ board[u][k] \in [Modes -> Nat]
        /\ board'[u][k] = IF u = v /\ ~UNCHANGED board
                            THEN [board[u][k] EXCEPT ![n] = t] ELSE board[u][k]
    <3>1. CASE u = v /\ ~UNCHANGED board
      <4>0. /\ board' = [board EXCEPT ![v] = [q \in DOMAIN @ |-> [@[q] EXCEPT ![n] = t]]]
            /\ v \in DOMAIN board
        BY <1>0, <1>1, <1>5, <3>1 DEF TypeOK
      <4>1. board'[u] = [q \in DOMAIN board[u] |-> [board[u][q] EXCEPT ![n] = t]]
        BY <3>1, <4>0
      <4>2. QED
        BY <2>1, <3>1, <4>1
    <3>2. CASE ~(u = v /\ ~UNCHANGED board)
      <4>1. board'[u] = board[u]
        BY <1>0, <1>1, <3>2 DEF TypeOK
      <4>2. QED
        BY <2>1, <3>2, <4>1
    <3>3. QED
      BY <3>1, <3>2
  <2>3. CASE u = v /\ m = n /\ ~UNCHANGED board
    <3>1. board'[u][k][m] = t
      BY <1>5, <2>2, <2>3
    <3>2. t + Owed(u, m) <= earned[u][m] + p
      BY <1>0, <1>1, <2>3 DEF OwedInv, CreditPending, Crediting
    <3>3. QED
      BY <1>5, <1>6, <2>1, <2>3, <3>1, <3>2, SMTT(30)
  <2>4. CASE ~(u = v /\ m = n) \/ UNCHANGED board
    <3>1. board'[u][k][m] = board[u][k][m]
      BY <1>5, <2>2, <2>4
    <3>2. board[u][k][m] + Owed(u, m) <= earned[u][m] /\ board[u][k][m] \in Nat
      BY <1>0, <2>2 DEF OwedInv
    <3>3. Owed(u, m) \in Nat /\ Owed(u, m)' \in Nat /\ Owed(u, m)' <= Owed(u, m)
      BY <1>6
    <3>4. board[u][k][m] + Owed(u, m)' <= earned[u][m]
      BY <2>1, <3>2, <3>3, LowerLeft
    <3>5. QED
      BY <3>1, <3>4
  <2>5. QED
    BY <2>3, <2>4
<1>8. ASSUME NEW u \in Names, NEW m \in Modes, NEW j \in Instances,
             (pc[j] = "writePoints" /\ CreditPending(j, u, m))'
      PROVE  credit'[j].total + Owed(u, m)' <= earned[u][m] + credit'[j].points
  <2>1. pc[j] = "writePoints" /\ CreditPending(j, u, m) /\ credit'[j] = credit[j]
    BY <1>2, <1>4, <1>8
  <2>2. credit[j].total + Owed(u, m) <= earned[u][m] + credit[j].points
    BY <1>0, <2>1 DEF OwedInv
  <2>3. credit[j].total \in Nat /\ credit[j].points \in Nat /\ earned[u][m] \in Nat
    BY <1>0 DEF TypeOK
  <2>4. credit[j].total + Owed(u, m)' <= earned[u][m] + credit[j].points
    BY <1>6, <2>2, <2>3, LowerSum
  <2>5. QED
    BY <2>1, <2>4
<1>9. ASSUME NEW u \in Names, NEW m \in Modes PROVE Owed(u, m)' <= earned[u][m]
  <2>1. Owed(u, m) <= earned[u][m] /\ earned[u][m] \in Nat
    BY <1>0 DEF OwedInv, TypeOK
  <2>2. QED
    BY <1>6, <2>1
<1>10. OwedInv'
  BY <1>1, <1>7, <1>8, <1>9 DEF OwedInv
<1>11. QED
  BY <1>3, <1>10

LEMMA NothingOwed ==
  ASSUME NEW u, NEW m, \A i \in Instances : pc[i] \notin Crediting
  PROVE  Owed(u, m) = 0
<1>1. PendingPoints(u, m) = {}
  BY DEF PendingPoints, CreditPending
<1>2. QED
  BY <1>1, FS_EmptySet DEF Owed

LEMMA CreditsInit == Init => CreditsInv
<1> SUFFICES ASSUME Init PROVE CreditsInv
  OBVIOUS
<1>1. TypeInv
  BY TypeInit
<1>2. \A u, m : Owed(u, m) = 0
  BY NothingOwed DEF Init, Crediting
<1>3. AwardInv
  BY DEF Init, AwardInv, Crediting
<1>4. OwedInv
  BY <1>2 DEF Init, OwedInv, FreshRow
<1>5. QED
  BY <1>1, <1>3, <1>4 DEF CreditsInv

LEMMA CreditsStep == CreditsInv /\ [Next]_vars => CreditsInv'
<1> SUFFICES ASSUME CreditsInv, [Next]_vars PROVE CreditsInv'
  OBVIOUS
<1>1. TypeInv'
  BY TypeStep DEF CreditsInv
<1>2. CASE UNCHANGED vars
  <2>1. AwardInv'
    BY <1>2 DEF CreditsInv, vars, AwardInv, AccountSession
  <2>2. \A u, m : /\ Owed(u, m)' = Owed(u, m)
                  /\ \A j : CreditPending(j, u, m)' <=> CreditPending(j, u, m)
    BY <1>2 DEF vars, Owed, PendingPoints, CreditPending
  <2>3. OwedInv'
    BY <1>2, <2>2 DEF CreditsInv, vars, OwedInv
  <2>4. QED
    BY <1>1, <2>1, <2>3 DEF CreditsInv
<1>3. ASSUME NEW i \in Instances, ProgramStep(i) \/ PlayerStep(i) \/ FaultStep(i)
      PROVE  CreditsInv'
  <2>1. \/ Idle(i) \/ UNCHANGED vars
        \/ InsertBoard(i) \/ FinishRound(i) \/ ReadsOn(i) \/ WritePoints(i)
    BY <1>3, StepKinds DEF CreditsInv
  <2>2. QED
    BY <1>1, <1>2, <2>1, IdleStep, InsertBoardOwed, FinishRoundOwed, ReadsOnOwed,
       WritePointsOwed DEF CreditsInv
<1>4. QED
  BY <1>2, <1>3 DEF Next

LEMMA CreditsInvariance == Spec => []CreditsInv
  BY CreditsInit, CreditsStep, PTL DEF Spec

LEMMA OwedBounds ==
  ASSUME CreditsInv PROVE NeverOverCredited
<1> SUFFICES ASSUME NEW u \in Names, NEW m \in Modes, NEW k \in DOMAIN board[u]
             PROVE  board[u][k][m] <= earned[u][m]
  BY DEF NeverOverCredited
<1>1. board[u] \in Seq([Modes -> Nat]) /\ earned[u][m] \in Nat
  BY DEF CreditsInv, TypeInv, TypeOK
<1>2. board[u][k][m] \in Nat
  BY <1>1
<1>3. board[u][k][m] + Owed(u, m) <= earned[u][m] /\ Owed(u, m) \in Nat
  BY PendingFinite DEF CreditsInv, OwedInv
<1>4. QED
  BY <1>1, <1>2, <1>3

\* No row ever shows more points than its player earned, for any number of windows,
\* whatever fails, stops or interleaves.
THEOREM RowsNeverOverCredited == Spec => []NeverOverCredited
  BY CreditsInvariance, OwedBounds, PTL

-----------------------------------------------------------------------------
(* One window, and any faults: it implements the ledger.                    *)

\* w is the only window.
Lone(w) == Instances = {w}

\* The first row of a name, the one that is read, has the most of every column: the
\* rows a name gains later start at 0, and an UPDATE writes all of them alike.
FirstRowLeads ==
    \A u \in Names, m \in Modes : \A k \in DOMAIN board[u] :
        board[u][k][m] <= BoardPoints(u, m)

\* An update is under way for a registered name, and with its total the window holds
\* what the row still shows, plus the award.
UpdateInv(w) ==
    /\ pc[w] \in Crediting => Registered(user[w])
    /\ pc[w] = "writePoints" =>
         /\ board[user[w]] # <<>>
         /\ BoardPoints(user[w], credit[w].mode) <= IntMax
         /\ credit[w].total = BoardPoints(user[w], credit[w].mode) + credit[w].points

LoneInv(w) == CreditsInv /\ FirstRowLeads /\ UpdateInv(w)

\* The two INSERTs.
AddsRow(n) == board' = [board EXCEPT ![n] = Append(@, FreshRow)] /\ UNCHANGED players
AddsAccount(n, p) ==
    players' = [players EXCEPT ![n] = Append(@, p)] /\ UNCHANGED board

\* A new leaderboard row changes no points a player sees.
LEMMA NewRow ==
  ASSUME TypeOK, NEW n \in Names, AddsRow(n),
         NEW u \in Names, NEW m \in Modes
  PROVE  /\ BoardPoints(u, m)' = BoardPoints(u, m)
         /\ \A k \in DOMAIN board[u] : k \in DOMAIN board'[u] /\ board'[u][k] = board[u][k]
         /\ \A k \in DOMAIN board'[u] :
               board'[u][k][m] = IF k \in DOMAIN board[u] THEN board[u][k][m] ELSE 0
         /\ u # n => board'[u] = board[u]
<1>1. n \in DOMAIN board /\ board'[n] = Append(board[n], FreshRow)
      /\ (u # n => board'[u] = board[u])
  BY DEF TypeOK, AddsRow
<1>2. board[n] \in Seq([Modes -> Nat]) /\ FreshRow \in [Modes -> Nat] /\ FreshRow[m] = 0
  BY FreshRowType DEF TypeOK, FreshRow
<1>3. /\ board'[n] # <<>>
      /\ board'[n][1] = IF board[n] = <<>> THEN FreshRow ELSE board[n][1]
      /\ DOMAIN board'[n] = DOMAIN board[n] \union {Len(board[n]) + 1}
      /\ \A k \in DOMAIN board[n] : board'[n][k] = board[n][k]
      /\ board'[n][Len(board[n]) + 1] = FreshRow
  BY <1>1, <1>2, AppendFacts
<1>4. CASE u = n
  <2>1. BoardPoints(u, m)' = BoardPoints(u, m)
    BY <1>2, <1>3, <1>4 DEF BoardPoints
  <2>2. QED
    BY <1>1, <1>2, <1>3, <1>4, <2>1
<1>5. CASE u # n
  BY <1>1, <1>3, <1>5 DEF BoardPoints
<1>6. QED
  BY <1>4, <1>5

\* The UPDATE adds the award to the column the window read, in every row.
LEMMA StoredTotal ==
  ASSUME NEW w, Lone(w), LoneInv(w), WritePoints(w)
  PROVE  /\ user[w] \in Names /\ credit[w].mode \in Modes /\ credit[w].points \in Awards
         /\ Registered(user[w]) /\ UNCHANGED players
         /\ BoardPoints(user[w], credit[w].mode) <= IntMax
         /\ \/ UNCHANGED board
            \/ \A u \in Names, m \in Modes :
                  LET new == BoardPoints(user[w], credit[w].mode) + credit[w].points
                      hit == u = user[w] /\ m = credit[w].mode
                  IN /\ DOMAIN board'[u] = DOMAIN board[u]
                     /\ (board'[u] = <<>>) <=> (board[u] = <<>>)
                     /\ \A k \in DOMAIN board[u] :
                           board'[u][k][m] = IF hit THEN new ELSE board[u][k][m]
                     /\ BoardPoints(u, m)' = IF hit THEN new ELSE BoardPoints(u, m)
<1> DEFINE v == user[w]
           n == credit[w].mode
           t == credit[w].total
<1>1. w \in Instances /\ TypeOK /\ Filled /\ AwardInv /\ UpdateInv(w) /\ pc[w] = "writePoints"
  BY DEF Lone, LoneInv, CreditsInv, TypeInv, WritePoints
<1>2. /\ v \in Names /\ n \in Modes /\ t \in Nat /\ credit[w].points \in Awards
      /\ Registered(v) /\ board[v] # <<>>
      /\ BoardPoints(v, n) <= IntMax
      /\ t = BoardPoints(v, n) + credit[w].points
  BY <1>1 DEF TypeOK, Filled, AwardInv, UpdateInv, Crediting
<1>3. UNCHANGED players
  BY DEF WritePoints
<1>4. ASSUME ~UNCHANGED board, NEW u \in Names, NEW m \in Modes
      PROVE  /\ DOMAIN board'[u] = DOMAIN board[u]
             /\ (board'[u] = <<>>) <=> (board[u] = <<>>)
             /\ \A k \in DOMAIN board[u] :
                   board'[u][k][m] = IF u = v /\ m = n THEN t ELSE board[u][k][m]
             /\ BoardPoints(u, m)' = IF u = v /\ m = n THEN t ELSE BoardPoints(u, m)
  <2>1. /\ board' = [board EXCEPT ![v] = [k \in DOMAIN @ |-> [@[k] EXCEPT ![n] = t]]]
        /\ v \in DOMAIN board
    BY <1>1, <1>2, <1>4 DEF WritePoints, TypeOK
  <2>2. CASE u # v
    BY <2>1, <2>2 DEF BoardPoints
  <2>3. CASE u = v
    <3>1. board'[u] = [k \in DOMAIN board[u] |-> [board[u][k] EXCEPT ![n] = t]]
      BY <2>1, <2>3
    <3>2. DOMAIN board'[u] = DOMAIN board[u]
      BY <3>1
    <3>3. /\ board[u] \in Seq([Modes -> Nat])
          /\ \A k \in DOMAIN board[u] : board[u][k] \in [Modes -> Nat]
      BY <1>1, PointsType
    <3>4. ASSUME NEW k \in DOMAIN board[u]
          PROVE  board'[u][k][m] = IF m = n THEN t ELSE board[u][k][m]
      BY <1>2, <3>1, <3>3
    <3>5. 1 \in DOMAIN board[u] /\ board'[u] # <<>>
      <4>1. 1 \in DOMAIN board[u]
        BY <1>2, <2>3, <3>3, EmptySeq
      <4>2. QED
        BY <3>2, <4>1
    <3>6. BoardPoints(u, m)' = board'[u][1][m] /\ BoardPoints(u, m) = board[u][1][m]
      BY <1>2, <2>3, <3>5 DEF BoardPoints
    <3>7. QED
      BY <1>2, <2>3, <3>2, <3>4, <3>5, <3>6
  <2>4. QED
    BY <2>2, <2>3
<1>5. QED
  BY <1>2, <1>3, <1>4

LEMMA LoneInit == ASSUME NEW w, Lone(w), Init PROVE LoneInv(w)
  BY CreditsInit
     DEF Init, Lone, LoneInv, FirstRowLeads, UpdateInv, Crediting

LEMMA LoneStep ==
  ASSUME NEW w, Lone(w), LoneInv(w), [Next]_vars
  PROVE  LoneInv(w)'
<1>0. /\ w \in Instances /\ CreditsInv /\ TypeOK /\ Filled /\ AwardInv
      /\ FirstRowLeads /\ UpdateInv(w)
  BY DEF Lone, LoneInv, CreditsInv, TypeInv
<1>1. CreditsInv'
  BY <1>0, CreditsStep
<1>2. CASE UNCHANGED vars
  BY <1>0, <1>1, <1>2
     DEF vars, LoneInv, FirstRowLeads, UpdateInv, BoardPoints, Registered
<1>3. CASE Idle(w)
  BY <1>0, <1>1, <1>3
     DEF Idle, LoneInv, FirstRowLeads, UpdateInv, BoardPoints, Crediting
<1>4. CASE InsertBoard(w)
  <2>1. pc'[w] = "playing" /\ form[w].name \in Names
    BY <1>0, <1>4 DEF InsertBoard, BeginSession, Goto, TypeOK, Filled, InSignUp
  <2>2. CASE UNCHANGED board
    BY <1>0, <1>1, <2>1, <2>2 DEF LoneInv, FirstRowLeads, UpdateInv, BoardPoints, Crediting
  <2>3. CASE AddsRow(form[w].name)
    <3>1. ASSUME NEW u \in Names, NEW m \in Modes, NEW k \in DOMAIN board'[u]
          PROVE  board'[u][k][m] <= BoardPoints(u, m)'
      <4>0. /\ BoardPoints(u, m)' = BoardPoints(u, m)
            /\ \A q \in DOMAIN board'[u] :
                  board'[u][q][m] = IF q \in DOMAIN board[u] THEN board[u][q][m] ELSE 0
        <5>1. TypeOK /\ form[w].name \in Names
          BY <1>0, <2>1
        <5>2. QED
          BY <2>3, <5>1, NewRow
      <4>1. /\ BoardPoints(u, m)' = BoardPoints(u, m)
            /\ board'[u][k][m] = IF k \in DOMAIN board[u] THEN board[u][k][m] ELSE 0
        BY <4>0
      <4>2. BoardPoints(u, m) \in Nat
        BY <1>0, PointsType
      <4>3. QED
        BY <1>0, <4>1, <4>2 DEF FirstRowLeads
    <3>2. QED
      BY <1>1, <2>1, <3>1 DEF LoneInv, FirstRowLeads, UpdateInv, Crediting
  <2>4. QED
    BY <1>4, <2>2, <2>3 DEF InsertBoard, AddsRow
<1>5. CASE FinishRound(w)
  <2>1. UNCHANGED <<players, board, user>>
    BY <1>5 DEF FinishRound, CallUpdatePlayerPoints
  <2>2. pc'[w] # "writePoints"
    BY <1>0, <1>5 DEF FinishRound, CallUpdatePlayerPoints, Goto, TypeOK
  <2>3. pc'[w] \in Crediting => Registered(user[w])
    <3>1. pc'[w] \in Crediting => TRUE \in ExistsAnswers(w, user[w])
      BY <1>5 DEF FinishRound, CallUpdatePlayerPoints, Crediting
    <3>2. TRUE \in ExistsAnswers(w, user[w]) => Registered(user[w])
      BY DEF ExistsAnswers
    <3>3. QED
      BY <3>1, <3>2
  <2>4. QED
    BY <1>0, <1>1, <2>1, <2>2, <2>3
       DEF LoneInv, FirstRowLeads, UpdateInv, BoardPoints, Registered
<1>6. CASE ReadsOn(w)
  <2>1. /\ pc[w] = "readPoints" /\ board[user[w]] # <<>>
        /\ board[user[w]][1][credit[w].mode] <= IntMax
        /\ credit' = [credit EXCEPT ![w].total =
                          board[user[w]][1][credit[w].mode] + credit[w].points]
        /\ UNCHANGED <<players, board, user>>
    BY <1>0, <1>6 DEF ReadsOn, ReadPoints, Goto, Tables, TypeOK
  <2>2. /\ credit'[w].total = board[user[w]][1][credit[w].mode] + credit[w].points
        /\ credit'[w].mode = credit[w].mode /\ credit'[w].points = credit[w].points
    BY <1>0, <2>1 DEF TypeOK
  <2>3. Registered(user[w])
    BY <1>0, <2>1 DEF UpdateInv, Crediting
  <2>4. QED
    BY <1>0, <1>1, <2>1, <2>2, <2>3
       DEF LoneInv, FirstRowLeads, UpdateInv, BoardPoints, Registered
<1>7. CASE WritePoints(w)
  <2>1. pc'[w] = "playing"
    BY <1>0, <1>7 DEF WritePoints, Goto, TypeOK
  <2>2. CASE UNCHANGED board
    BY <1>0, <1>1, <2>1, <2>2 DEF LoneInv, FirstRowLeads, UpdateInv, BoardPoints, Crediting
  <2>3. CASE ~UNCHANGED board
    <3>1. ASSUME NEW u \in Names, NEW m \in Modes, NEW k \in DOMAIN board'[u]
          PROVE  board'[u][k][m] <= BoardPoints(u, m)'
      <4> DEFINE new == BoardPoints(user[w], credit[w].mode) + credit[w].points
                 hit == u = user[w] /\ m = credit[w].mode
      <4>1. /\ k \in DOMAIN board[u]
            /\ board'[u][k][m] = IF hit THEN new ELSE board[u][k][m]
            /\ BoardPoints(u, m)' = IF hit THEN new ELSE BoardPoints(u, m)
        BY <1>7, <2>3, StoredTotal
      <4>2. new \in Nat
        <5>1. user[w] \in Names /\ credit[w].mode \in Modes /\ credit[w].points \in Awards
          BY <1>0, <1>7, StoredTotal
        <5>2. credit[w].points \in Nat
          BY <5>1, AwardType
        <5>3. BoardPoints(user[w], credit[w].mode) \in Nat
          BY <1>0, <5>1, PointsType
        <5>4. QED
          BY <5>2, <5>3
      <4>3. board[u][k][m] <= BoardPoints(u, m)
        BY <1>0, <4>1 DEF FirstRowLeads
      <4> HIDE DEF new, hit
      <4>4. QED
        BY <4>1, <4>2, <4>3
    <3>2. QED
      BY <1>1, <2>1, <3>1 DEF LoneInv, FirstRowLeads, UpdateInv, Crediting
  <2>4. QED
    BY <2>2, <2>3
<1>8. QED
  <2>1. CASE Next
    <3>1. ProgramStep(w) \/ PlayerStep(w) \/ FaultStep(w)
      BY <2>1 DEF Next, Lone
    <3>2. \/ Idle(w) \/ UNCHANGED vars
          \/ InsertBoard(w) \/ FinishRound(w) \/ ReadsOn(w) \/ WritePoints(w)
      BY <1>0, <3>1, StepKinds DEF CreditsInv
    <3>3. QED
      BY <1>2, <1>3, <1>4, <1>5, <1>6, <1>7, <3>2
  <2>2. QED
    BY <1>2, <2>1

LEMMA LoneInvariance ==
  ASSUME NEW CONSTANT w, Lone(w) PROVE Spec => []LoneInv(w)
  BY LoneInit, LoneStep, PTL DEF Spec

-----------------------------------------------------------------------------
(* Its steps, seen by the ledger: Register is the INSERT that completes a   *)
(* name's two rows, Award is the UPDATE, every other step changes nothing.  *)

ledgerVars == <<LedgerAccount, LedgerPoints>>

LEMMA SameTables ==
  ASSUME UNCHANGED <<players, board>> PROVE UNCHANGED ledgerVars
  BY DEF ledgerVars, LedgerAccount, LedgerPoints, BoardPoints

LEMMA NewAccount ==
  ASSUME TypeOK, NEW n \in Names, NEW p \in Passwords, AddsAccount(n, p)
  PROVE  [L!Next]_ledgerVars
<1>1. /\ players'[n] = Append(players[n], p) /\ players[n] \in Seq(Passwords)
      /\ \A u \in Names \ {n} : players'[u] = players[u]
      /\ UNCHANGED board
  BY DEF TypeOK, AddsAccount
<1>2. /\ players'[n] # <<>>
      /\ players'[n][1] = IF players[n] = <<>> THEN p ELSE players[n][1]
  BY <1>1, AppendFacts
<1>3. LedgerPoints' = LedgerPoints
  BY <1>1 DEF LedgerPoints, BoardPoints
<1>4. CASE players[n] # <<>> \/ board[n] = <<>>
  <2>1. LedgerAccount' = LedgerAccount
    BY <1>1, <1>2, <1>4 DEF LedgerAccount
  <2>2. QED
    BY <1>3, <2>1 DEF ledgerVars
<1>5. CASE players[n] = <<>> /\ board[n] # <<>>
  <2>1. LedgerAccount[n] = None
    BY <1>5 DEF LedgerAccount
  <2>2. \A u \in Names : LedgerAccount'[u] = IF u = n THEN p ELSE LedgerAccount[u]
    BY <1>1, <1>2, <1>5 DEF LedgerAccount
  <2>3. LedgerAccount' = [LedgerAccount EXCEPT ![n] = p]
    <3>1. /\ LedgerAccount = [u \in Names |-> LedgerAccount[u]]
          /\ LedgerAccount' = [u \in Names |-> LedgerAccount'[u]]
      BY DEF LedgerAccount
    <3>2. QED
      BY <2>2, <3>1
  <2>4. L!Register(n, p)
    BY <1>3, <2>1, <2>3 DEF L!Register
  <2>5. QED
    BY <2>4 DEF L!Next
<1>6. QED
  BY <1>4, <1>5

LEMMA NewBoardRow ==
  ASSUME TypeOK, NEW n \in Names, AddsRow(n)
  PROVE  [L!Next]_ledgerVars
<1>1. LedgerPoints' = LedgerPoints
  <2>1. ASSUME NEW u \in Names, NEW m \in Modes
        PROVE  BoardPoints(u, m)' = BoardPoints(u, m)
    BY NewRow
  <2>2. QED
    BY <2>1 DEF LedgerPoints
<1>2. /\ board'[n] # <<>> /\ UNCHANGED players
      /\ \A u \in Names \ {n} : board'[u] = board[u]
  <2>1. board'[n] = Append(board[n], FreshRow) /\ board[n] \in Seq([Modes -> Nat])
    BY DEF AddsRow, TypeOK
  <2>2. board'[n] # <<>>
    BY <2>1, FreshRowType, AppendFacts
  <2>3. QED
    BY <2>2 DEF AddsRow, TypeOK
<1>3. CASE board[n] # <<>> \/ players[n] = <<>>
  <2>1. LedgerAccount' = LedgerAccount
    BY <1>2, <1>3 DEF LedgerAccount
  <2>2. QED
    BY <1>1, <2>1 DEF ledgerVars
<1>4. CASE board[n] = <<>> /\ players[n] # <<>>
  <2>1. players[n][1] \in Passwords
    <3>1. players[n] \in Seq(Passwords)
      BY DEF TypeOK
    <3>2. QED
      BY <1>4, <3>1, EmptySeq
  <2>2. LedgerAccount[n] = None
    BY <1>4 DEF LedgerAccount
  <2>3. LedgerAccount' = [LedgerAccount EXCEPT ![n] = players[n][1]]
    BY <1>2, <1>4 DEF LedgerAccount
  <2>4. L!Register(n, players[n][1])
    BY <1>1, <2>2, <2>3 DEF L!Register
  <2>5. QED
    BY <2>1, <2>4 DEF L!Next
<1>5. QED
  BY <1>3, <1>4

LEMMA WritePointsLedger ==
  ASSUME NEW w, Lone(w), LoneInv(w), WritePoints(w)
  PROVE  [L!Next]_ledgerVars
<1> DEFINE v == user[w]
           n == credit[w].mode
           p == credit[w].points
<1>1. /\ TypeOK /\ v \in Names /\ n \in Modes /\ p \in Awards
      /\ Registered(v) /\ UNCHANGED players /\ board[v] # <<>>
  BY StoredTotal DEF LoneInv, CreditsInv, TypeInv, UpdateInv, WritePoints
<1>2. CASE UNCHANGED board
  BY <1>1, <1>2, SameTables
<1>3. CASE ~UNCHANGED board
  <2>1. ASSUME NEW u \in Names, NEW m \in Modes
        PROVE  BoardPoints(u, m)' = IF u = v /\ m = n THEN BoardPoints(v, n) + p
                                                     ELSE BoardPoints(u, m)
    BY <1>3, StoredTotal
  <2>2. LedgerPoints' = [LedgerPoints EXCEPT ![v][n] = @ + p]
    BY <1>1, <2>1 DEF LedgerPoints
  <2>3. \A u \in Names : (board'[u] = <<>>) <=> (board[u] = <<>>)
    BY <1>1, <1>3, StoredTotal
  <2>4. LedgerAccount' = LedgerAccount
    BY <1>1, <2>3 DEF LedgerAccount
  <2>5. LedgerAccount[v] # None
    <3>1. players[v] \in Seq(Passwords) /\ players[v] # <<>>
      BY <1>1 DEF TypeOK, Registered
    <3>2. players[v][1] \in Passwords
      BY <3>1, EmptySeq
    <3>3. QED
      BY <1>1, <3>1, <3>2, NoneAssumption DEF LedgerAccount
  <2>6. L!Award(v, n, p)
    BY <2>2, <2>4, <2>5 DEF L!Award
  <2>7. QED
    BY <1>1, <2>6 DEF L!Next
<1>4. QED
  BY <1>2, <1>3

\* What a step of a window does to the two tables, if anything.
LEMMA TableSteps ==
  ASSUME TypeInv, NEW i \in Instances, ProgramStep(i) \/ PlayerStep(i) \/ FaultStep(i)
  PROVE  \/ UNCHANGED <<players, board>>
         \/ WritePoints(i)
         \/ \E n \in Names, p \in Passwords : AddsAccount(n, p)
         \/ \E n \in Names : AddsRow(n)
<1>1. CASE InsertPlayer(i) \/ InsertBoard(i)
  <2>1. form[i].name \in Names /\ form[i].password \in Passwords
    BY <1>1 DEF InsertPlayer, InsertBoard, TypeInv, Filled, InSignUp
  <2>2. QED
    BY <1>1, <2>1 DEF InsertPlayer, InsertBoard, AppendPlayer, AddsRow, AddsAccount
<1>2. CASE PlayerStep(i)
  BY <1>2 DEF PlayerStep, Start, ChooseForm, LogIn, SignUpName, SignUpPassword, Refuse,
              FinishRound, CallUpdatePlayerPoints, LogOut, Exit, Tables, vars
<1>3. CASE FaultStep(i)
  BY <1>3 DEF FaultStep, LogInFaults, OpenThrows, Close, Tables
<1>4. CASE AddCheck(i) \/ ReadPoints(i)
  BY <1>4 DEF AddCheck, ReadPoints, Tables
<1>5. QED
  BY <1>1, <1>2, <1>3, <1>4 DEF ProgramStep

\* The same for one window, as its next-state relation.
LEMMA LoneTableSteps ==
  ASSUME NEW w, Lone(w), LoneInv(w), [Next]_vars
  PROVE  \/ UNCHANGED <<players, board>>
         \/ WritePoints(w)
         \/ \E n \in Names, p \in Passwords : AddsAccount(n, p)
         \/ \E n \in Names : AddsRow(n)
<1>1. CASE UNCHANGED vars
  BY <1>1 DEF vars
<1>2. CASE Next
  <2>1. w \in Instances /\ (ProgramStep(w) \/ PlayerStep(w) \/ FaultStep(w))
    BY <1>2 DEF Next, Lone
  <2>2. QED
    BY <2>1, TableSteps DEF LoneInv, CreditsInv
<1>3. QED
  BY <1>1, <1>2

LEMMA LedgerStep ==
  ASSUME NEW w, Lone(w), LoneInv(w), [Next]_vars
  PROVE  [L!Next]_ledgerVars
<1>1. TypeOK
  BY DEF LoneInv, CreditsInv, TypeInv
<1>2. QED
  BY <1>1, LoneTableSteps, SameTables, NewAccount, NewBoardRow, WritePointsLedger

LEMMA LedgerInit == Init => L!Init
  BY DEF Init, L!Init, LedgerAccount, LedgerPoints, BoardPoints

\* A window alone with its files implements the ledger, whatever fails and wherever
\* it is closed: each name is registered once and for all, and each UPDATE adds one
\* award to one column of one registered name.
THEOREM LoneImplementsLedger ==
  ASSUME NEW CONSTANT w, Lone(w) PROVE Spec => ImplementsLedger
<1>1. LoneInv(w) /\ [Next]_vars => [L!Next]_ledgerVars
  BY LedgerStep
<1>2. QED
  BY <1>1, LoneInvariance, LedgerInit, PTL DEF Spec, ImplementsLedger, L!Spec, ledgerVars

LEMMA NeverFall ==
  ASSUME NEW w, Lone(w), LoneInv(w), [Next]_vars,
         NEW u \in Names, NEW m \in Modes, NEW k \in DOMAIN board[u]
  PROVE  k \in DOMAIN board'[u] /\ board[u][k][m] <= board'[u][k][m]
<1>1. TypeOK /\ FirstRowLeads
  BY DEF LoneInv, CreditsInv, TypeInv
<1>2. board[u][k][m] \in Nat
  BY <1>1, PointsType
<1>3. CASE UNCHANGED board
  BY <1>2, <1>3
<1>4. CASE \E n \in Names : AddsRow(n)
  <2>1. k \in DOMAIN board'[u] /\ board'[u][k] = board[u][k]
    BY <1>1, <1>4, NewRow
  <2>2. QED
    BY <1>2, <2>1
<1>5. CASE WritePoints(w) /\ ~UNCHANGED board
  <2> DEFINE new == BoardPoints(user[w], credit[w].mode) + credit[w].points
             hit == u = user[w] /\ m = credit[w].mode
  <2>1. DOMAIN board'[u] = DOMAIN board[u]
        /\ board'[u][k][m] = IF hit THEN new ELSE board[u][k][m]
    BY <1>5, StoredTotal
  <2>2. credit[w].points \in Nat
    <3>1. credit[w].points \in Awards
      BY <1>5, StoredTotal
    <3>2. QED
      BY <3>1, AwardType
  <2>3. CASE hit
    <3>1. board[u][k][m] <= BoardPoints(u, m) /\ BoardPoints(u, m) \in Nat
      BY <1>1, PointsType DEF FirstRowLeads
    <3>2. new = BoardPoints(u, m) + credit[w].points
      BY <2>3
    <3>3. board[u][k][m] <= new
      BY <1>2, <2>2, <3>1, <3>2
    <3>4. QED
      BY <2>1, <2>3, <3>3
  <2>4. CASE ~hit
    BY <1>2, <2>1, <2>4
  <2>5. QED
    BY <2>3, <2>4
<1>6. QED
  BY <1>3, <1>4, <1>5, LoneTableSteps DEF AddsAccount

\* No row disappears and no row's points fall: an UPDATE writes the first row's total,
\* which is no less than any other row's.
THEOREM LonePointsNeverFall ==
  ASSUME NEW CONSTANT w, Lone(w) PROVE Spec => PointsNeverFall
<1>1. LoneInv(w) /\ [Next]_vars =>
        \A u \in Names, m \in Modes : \A k \in DOMAIN board[u] :
          k \in DOMAIN board'[u] /\ board[u][k][m] <= board'[u][k][m]
  BY NeverFall
<1>2. QED
  BY <1>1, LoneInvariance, PTL DEF Spec, PointsNeverFall

LEMMA StayPastIntMax ==
  ASSUME NEW w, Lone(w), LoneInv(w), [Next]_vars,
         NEW u \in Names, NEW m \in Modes, BoardPoints(u, m) > IntMax
  PROVE  BoardPoints(u, m)' = BoardPoints(u, m)
<1>1. TypeOK
  BY DEF LoneInv, CreditsInv, TypeInv
<1>2. BoardPoints(u, m) \in Nat /\ IntMax \in Nat
  BY <1>1, PointsType, AwardsAssumption
<1>3. CASE UNCHANGED board
  BY <1>3 DEF BoardPoints
<1>4. CASE \E n \in Names : AddsRow(n)
  BY <1>1, <1>4, NewRow
<1>5. CASE WritePoints(w) /\ ~UNCHANGED board
  <2>1. BoardPoints(user[w], credit[w].mode) <= IntMax
    BY <1>5, StoredTotal
  <2>2. ~(u = user[w] /\ m = credit[w].mode)
    BY <1>2, <2>1
  <2>3. QED
    BY <1>5, <2>2, StoredTotal
<1>6. QED
  BY <1>3, <1>4, <1>5, LoneTableSteps DEF AddsAccount

\* Once a total is past what std::stoi converts, it stands: the program ends at the
\* next round instead of storing a wrapped sum.
THEOREM LoneNoCreditPastIntMax ==
  ASSUME NEW CONSTANT w, Lone(w) PROVE Spec => NoCreditPastIntMax
<1>1. LoneInv(w) /\ [Next]_vars =>
        \A u \in Names, m \in Modes :
          BoardPoints(u, m) > IntMax => BoardPoints(u, m)' = BoardPoints(u, m)
  BY StayPastIntMax
<1>2. QED
  BY <1>1, LoneInvariance, PTL DEF Spec, NoCreditPastIntMax

-----------------------------------------------------------------------------
(* One window whose statements succeed, and which may be closed anywhere.   *)

Steady(w) == Lone(w) /\ Faults \subseteq {"close"}

\* The form holds the password of the first row of its name.
OnRecord(w) ==
    /\ Registered(form[w].name)
    /\ players[form[w].name][1] = form[w].password

\* Closing between the two INSERTs leaves a name without its leaderboard row, never
\* with a second one; a sign-up under way holds a name nobody else has taken.
NamesInv(w) ==
    /\ \A u \in Names :
         /\ Len(players[u]) <= 1 /\ Len(board[u]) <= Len(players[u])
         /\ ~Quotable(u) => ~Registered(u)
    /\ pc[w] \in {"signUpPassword", "addCheck", "insertPlayer"} => ~Registered(form[w].name)
    /\ pc[w] = "insertBoard" => board[form[w].name] = <<>>

\* From the first INSERT on, and after a login, the form is on record.
RecordInv(w) ==
    /\ pc[w] \in {"profile", "logIn", "signUpName"} \union Stopped => form[w] = NoForm
    /\ pc[w] = "insertBoard" /\ Quotable(form[w].name) => OnRecord(w)
    /\ pc[w] \in InSession /\ AccountSession(w) =>
         user[w] = form[w].name /\ (Quotable(form[w].name) => OnRecord(w))

SteadyInv(w) == LoneInv(w) /\ NamesInv(w) /\ RecordInv(w)

LEMMA SteadyStatements ==
  ASSUME NEW w, Steady(w)
  PROVE  /\ Lone(w) /\ w \in Instances /\ "open" \notin Faults
         /\ \A steps : ~MayFail(w, steps)
         /\ \A u : TRUE \in ExistsAnswers(w, u) <=> Registered(u) /\ Quotable(u)
         /\ \A u : FALSE \in ExistsAnswers(w, u) <=> ~(Registered(u) /\ Quotable(u))
<1>1. /\ Lone(w) /\ w \in Instances /\ Instances \ {w} = {}
      /\ "io" \notin Faults /\ "open" \notin Faults
  BY DEF Steady, Lone
<1>2. \A steps : ~MayFail(w, steps)
  BY <1>1 DEF MayFail, Contended
<1>3. ASSUME NEW u
      PROVE  /\ TRUE \in ExistsAnswers(w, u) <=> Registered(u) /\ Quotable(u)
             /\ FALSE \in ExistsAnswers(w, u) <=> ~(Registered(u) /\ Quotable(u))
  <2>1. ExistsAnswers(w, u) = {Registered(u) /\ Quotable(u)}
    BY <1>2, Zenon DEF ExistsAnswers
  <2>2. CASE Registered(u) /\ Quotable(u)
    <3>1. (Registered(u) /\ Quotable(u)) = TRUE
      BY <2>2
    <3>2. QED
      BY <2>1, <2>2, <3>1
  <2>3. CASE ~(Registered(u) /\ Quotable(u))
    <3>1. (Registered(u) /\ Quotable(u)) = FALSE
      BY <2>3
    <3>2. QED
      BY <2>1, <2>3, <3>1
  <2>4. QED
    BY <2>2, <2>3
<1>4. QED
  BY <1>1, <1>2, <1>3

LEMMA SteadyInit == ASSUME NEW w, Steady(w), Init PROVE SteadyInv(w)
<1>1. LoneInv(w) /\ w \in Instances
  BY LoneInit, SteadyStatements
<1>2. NamesInv(w)
  BY <1>1 DEF Init, NamesInv, Registered
<1>3. RecordInv(w)
  BY <1>1 DEF Init, RecordInv, Stopped, InSession, Crediting
<1>4. QED
  BY <1>1, <1>2, <1>3 DEF SteadyInv

\* A step that leaves the tables alone can disturb only what is said of the form.
LEMMA SteadyForms ==
  ASSUME NEW w, Steady(w), SteadyInv(w),
         \/ AddCheck(w) \/ ReadPoints(w) \/ Start(w) \/ ChooseForm(w) \/ LogIn(w)
         \/ SignUpName(w) \/ SignUpPassword(w) \/ FinishRound(w) \/ LogOut(w) \/ Exit(w)
         \/ FaultStep(w)
  PROVE  NamesInv(w)' /\ RecordInv(w)'
<1> USE DEF Goto, Tables, Stopped, InSession, Crediting, Registered, OnRecord, AccountSession
<1>0. /\ w \in Instances /\ TypeOK /\ NamesInv(w) /\ RecordInv(w)
      /\ \A u \in Names : Quotable(u)' = Quotable(u)
  BY SteadyStatements DEF SteadyInv, LoneInv, CreditsInv, TypeInv, Quotable
<1>1. CASE AddCheck(w)
  <2>1. form[w].name \in Names
    BY <1>0, <1>1 DEF SteadyInv, LoneInv, CreditsInv, TypeInv, Filled, InSignUp, AddCheck
  <2>2. ~Registered(form[w].name)
    BY <1>0, <1>1 DEF AddCheck, NamesInv
  <2>3. TRUE \notin ExistsAnswers(w, form[w].name)
    BY <2>2, SteadyStatements
  <2>4. QED
    BY <1>0, <1>1, <2>1, <2>2, <2>3 DEF AddCheck, TypeOK, NamesInv, RecordInv
<1>2. CASE ReadPoints(w)
  <2>1. UNCHANGED <<players, board>>
    BY <1>2 DEF ReadPoints
  <2>2. CASE pc' = [pc EXCEPT ![w] = "writePoints"] /\ UNCHANGED <<user, form>>
    BY <1>0, <1>2, <2>1, <2>2 DEF ReadPoints, TypeOK, NamesInv, RecordInv
  <2>3. CASE Forget(w) /\ pc'[w] \in {"thrown", "crashed"}
    BY <1>0, <2>1, <2>3 DEF Forget, TypeOK, NamesInv, RecordInv
  <2>4. QED
    BY <1>0, <1>2, <2>2, <2>3 DEF ReadPoints, TypeOK
<1>3. CASE Start(w) \/ ChooseForm(w) \/ Exit(w)
  BY <1>0, <1>3 DEF Start, ChooseForm, Exit, TypeOK, NamesInv, RecordInv
<1>4. CASE LogIn(w)
  <2>1. PICK u \in Names, p \in Passwords :
           /\ TRUE \in ExistsAnswers(w, u)
           /\ players[u][1] = p
           /\ BeginSession(w, u)
           /\ form' = [form EXCEPT ![w] = [name |-> u, password |-> p]]
    BY <1>4 DEF LogIn
  <2>2. Registered(u) /\ UNCHANGED <<players, board>>
    BY <1>4, <2>1, SteadyStatements DEF LogIn
  <2>3. QED
    BY <1>0, <2>1, <2>2 DEF BeginSession, TypeOK, NamesInv, RecordInv
<1>5. CASE SignUpName(w)
  <2>1. PICK u \in Names :
           FALSE \in ExistsAnswers(w, u) /\ form' = [form EXCEPT ![w].name = u]
    BY <1>5 DEF SignUpName
  <2>2. ~Registered(u)
    BY <1>0, <2>1, SteadyStatements DEF NamesInv
  <2>3. form'[w].name = u /\ pc'[w] = "signUpPassword" /\ UNCHANGED <<players, board>>
    BY <1>0, <1>5, <2>1 DEF SignUpName, TypeOK
  <2>4. QED
    BY <1>0, <2>2, <2>3 DEF NamesInv, RecordInv
<1>6. CASE SignUpPassword(w)
  BY <1>0, <1>6 DEF SignUpPassword, TypeOK, NamesInv, RecordInv
<1>7. CASE FinishRound(w)
  BY <1>0, <1>7 DEF FinishRound, CallUpdatePlayerPoints, TypeOK, NamesInv, RecordInv
<1>8. CASE LogOut(w) \/ FaultStep(w)
  BY <1>0, <1>8
     DEF LogOut, FaultStep, LogInFaults, OpenThrows, Close, Forget, TypeOK,
         NamesInv, RecordInv
<1>9. QED
  BY <1>1, <1>2, <1>3, <1>4, <1>5, <1>6, <1>7, <1>8

LEMMA SteadyInserts ==
  ASSUME NEW w, Steady(w), SteadyInv(w), InsertPlayer(w) \/ InsertBoard(w)
  PROVE  NamesInv(w)' /\ RecordInv(w)'
<1> DEFINE n == form[w].name
           p == form[w].password
<1>0. /\ w \in Instances /\ TypeOK /\ NamesInv(w) /\ RecordInv(w)
      /\ n \in Names /\ p \in Passwords
      /\ \A u \in Names : Quotable(u)' = Quotable(u)
  BY SteadyStatements
     DEF SteadyInv, LoneInv, CreditsInv, TypeInv, Quotable, Filled, InSignUp,
         InsertPlayer, InsertBoard
<1>1. /\ \A u \in Names : players[u] \in Seq(Passwords) /\ board[u] \in Seq([Modes -> Nat])
      /\ players[n] \in Seq(Passwords) /\ board[n] \in Seq([Modes -> Nat])
  BY <1>0 DEF TypeOK
<1>2. CASE InsertPlayer(w)
  <2>1. /\ pc[w] = "insertPlayer" /\ pc'[w] = "insertBoard" /\ ~Registered(n)
        /\ UNCHANGED <<board, user, form>>
    BY <1>0, <1>2 DEF InsertPlayer, Goto, TypeOK, NamesInv
  <2>2. players[n] = <<>> /\ board[n] = <<>>
    <3>1. players[n] = <<>>
      BY <2>1 DEF Registered
    <3>2. Len(board[n]) <= Len(players[n]) /\ Len(players[n]) = 0 /\ Len(board[n]) \in Nat
      BY <1>0, <1>1, <3>1, LenZero DEF NamesInv
    <3>3. QED
      BY <1>1, <3>1, <3>2, LenZero
  <2>3. CASE ~Quotable(n)
    <3>1. UNCHANGED players
      BY <1>2, <2>3, SteadyStatements DEF InsertPlayer, AppendPlayer
    <3>2. QED
      BY <1>0, <2>1, <2>2, <2>3, <3>1
         DEF NamesInv, RecordInv, Registered, InSession, Crediting, Stopped
  <2>4. CASE Quotable(n)
    <3>1. players' = [players EXCEPT ![n] = Append(@, p)]
      BY <1>2, <2>4, SteadyStatements DEF InsertPlayer, AppendPlayer
    <3>2. /\ players'[n] = <<p>>
          /\ \A u \in Names \ {n} : players'[u] = players[u]
      BY <1>0, <2>2, <3>1 DEF TypeOK
    <3>3. Len(players'[n]) = 1 /\ players'[n] # <<>> /\ players'[n][1] = p
          /\ Len(board[n]) = 0
      BY <2>2, <3>2
    <3>4. ASSUME NEW u \in Names
          PROVE  /\ Len(players'[u]) <= 1 /\ Len(board[u]) <= Len(players'[u])
                 /\ ~Quotable(u) => players'[u] = <<>>
      <4>1. CASE u = n
        <5>1. 1 <= 1 /\ 0 <= 1
          OBVIOUS
        <5>2. QED
          BY <2>4, <3>3, <4>1, <5>1, Zenon
      <4>2. CASE u # n
        BY <1>0, <3>2, <4>2 DEF NamesInv, Registered
      <4>3. QED
        BY <4>1, <4>2
    <3>5. NamesInv(w)'
      BY <1>0, <2>1, <2>2, <3>4 DEF NamesInv, Registered
    <3>6. RecordInv(w)'
      BY <2>1, <3>3 DEF RecordInv, Registered, OnRecord, InSession, Crediting, Stopped
    <3>7. QED
      BY <3>5, <3>6
  <2>5. QED
    BY <2>3, <2>4
<1>3. CASE InsertBoard(w)
  <2>1. /\ pc[w] = "insertBoard" /\ pc'[w] = "playing" /\ user'[w] = n
        /\ UNCHANGED <<players, form>>
        /\ IF Quotable(n) THEN board' = [board EXCEPT ![n] = Append(@, FreshRow)]
                          ELSE UNCHANGED board
    BY <1>0, <1>3, SteadyStatements DEF InsertBoard, BeginSession, Goto, TypeOK
  <2>2. board[n] = <<>> /\ (Quotable(n) => OnRecord(w))
    BY <1>0, <2>1 DEF NamesInv, RecordInv
  <2>3. RecordInv(w)'
    BY <1>0, <2>1, <2>2
       DEF RecordInv, Registered, OnRecord, InSession, Crediting, Stopped
  <2>4. CASE ~Quotable(n)
    BY <1>0, <2>1, <2>3, <2>4 DEF NamesInv, Registered
  <2>5. CASE Quotable(n)
    <3>1. /\ board'[n] = <<FreshRow>>
          /\ \A u \in Names \ {n} : board'[u] = board[u]
      BY <1>0, <2>1, <2>2, <2>5 DEF TypeOK
    <3>2. Len(board'[n]) = 1
      BY <3>1
    <3>3. Len(players[n]) \in Nat /\ Len(players[n]) # 0
      BY <1>1, <2>2, <2>5, LenZero DEF OnRecord, Registered
    <3>4. ASSUME NEW u \in Names
          PROVE  Len(board'[u]) <= 1 /\ Len(board'[u]) <= Len(players[u])
      <4>1. CASE u = n
        <5>1. 1 <= 1 /\ 1 <= Len(players[n])
          BY <3>3
        <5>2. QED
          BY <3>2, <4>1, <5>1, Zenon
      <4>2. CASE u # n
        <5>1. /\ board'[u] = board[u] /\ Len(players[u]) <= 1
              /\ Len(board[u]) <= Len(players[u])
          BY <1>0, <3>1, <4>2 DEF NamesInv
        <5>2. Len(players[u]) \in Nat /\ Len(board[u]) \in Nat
          BY <1>1, LenZero
        <5>3. QED
          BY <5>1, <5>2
      <4>3. QED
        BY <4>1, <4>2
    <3>5. QED
      BY <1>0, <2>1, <2>3, <3>4 DEF NamesInv, Registered
  <2>6. QED
    BY <2>4, <2>5
<1>4. QED
  BY <1>2, <1>3

LEMMA SteadyWrite ==
  ASSUME NEW w, Steady(w), SteadyInv(w), WritePoints(w), TypeOK'
  PROVE  NamesInv(w)' /\ RecordInv(w)'
<1>0. /\ w \in Instances /\ Lone(w) /\ LoneInv(w) /\ TypeOK /\ NamesInv(w) /\ RecordInv(w)
      /\ \A u \in Names : Quotable(u)' = Quotable(u)
  BY SteadyStatements DEF SteadyInv, LoneInv, CreditsInv, TypeInv, Quotable
<1>1. /\ pc[w] = "writePoints" /\ pc'[w] = "playing" /\ UNCHANGED <<players, user, form>>
  BY <1>0 DEF WritePoints, Goto, TypeOK
<1>2. ASSUME NEW u \in Names PROVE Len(board'[u]) = Len(board[u])
  <2>1. board[u] \in Seq([Modes -> Nat]) /\ board'[u] \in Seq([Modes -> Nat])
    BY <1>0 DEF TypeOK
  <2>2. DOMAIN board'[u] = DOMAIN board[u]
    <3>1. CASE UNCHANGED board
      BY <3>1
    <3>2. CASE board' = [board EXCEPT ![user[w]] =
                           [k \in DOMAIN @ |->
                              [@[k] EXCEPT ![credit[w].mode] = credit[w].total]]]
      BY <1>0, <3>2 DEF TypeOK
    <3>3. QED
      BY <3>1, <3>2 DEF WritePoints
  <2>3. QED
    BY <2>1, <2>2
<1>3. QED
  BY <1>0, <1>1, <1>2
     DEF NamesInv, RecordInv, Registered, OnRecord, InSession, Crediting, Stopped,
         AccountSession

LEMMA SteadyStep ==
  ASSUME NEW w, Steady(w), SteadyInv(w), [Next]_vars
  PROVE  SteadyInv(w)'
<1>1. LoneInv(w)' /\ TypeOK'
  BY LoneStep, SteadyStatements DEF SteadyInv, LoneInv, CreditsInv, TypeInv
<1>2. CASE UNCHANGED vars
  BY <1>1, <1>2
     DEF vars, SteadyInv, NamesInv, RecordInv, Registered, Quotable, OnRecord,
         AccountSession
<1>3. CASE ProgramStep(w) \/ PlayerStep(w) \/ FaultStep(w)
  BY <1>1, <1>2, <1>3, SteadyForms, SteadyInserts, SteadyWrite
     DEF SteadyInv, ProgramStep, PlayerStep, Refuse
<1>4. QED
  BY <1>2, <1>3 DEF Next, Steady, Lone

LEMMA SteadyInvariance ==
  ASSUME NEW CONSTANT w, Steady(w) PROVE Spec => []SteadyInv(w)
  BY SteadyInit, SteadyStep, PTL DEF Spec

LEMMA SteadyUnique ==
  ASSUME NEW w, Steady(w), SteadyInv(w) PROVE UniqueUsernames
<1> SUFFICES ASSUME NEW u \in Names PROVE Len(players[u]) <= 1 /\ Len(board[u]) <= 1
  BY DEF UniqueUsernames
<1>1. Len(players[u]) <= 1 /\ Len(board[u]) <= Len(players[u])
  BY DEF SteadyInv, NamesInv
<1>2. players[u] \in Seq(Passwords) /\ board[u] \in Seq([Modes -> Nat])
  BY DEF SteadyInv, LoneInv, CreditsInv, TypeInv, TypeOK
<1>3. Len(players[u]) \in Nat /\ Len(board[u]) \in Nat
  BY <1>2, LenZero
<1>4. QED
  BY <1>1, <1>3

\* A name never gets a second account or a second leaderboard row, wherever the window
\* is closed: the two existence checks of the sign-up suffice when no other window
\* runs and no statement fails, for names with an apostrophe too.
THEOREM SteadyUniqueUsernames ==
  ASSUME NEW CONSTANT w, Steady(w) PROVE Spec => []UniqueUsernames
<1>1. SteadyInv(w) => UniqueUsernames
  BY SteadyUnique
<1>2. QED
  BY <1>1, SteadyInvariance, PTL

\* Every session under a name typed the password on record, through login and sign-up
\* alike, wherever earlier sessions were closed.
THEOREM SteadySessionOnRecord ==
  ASSUME NEW CONSTANT w, Steady(w), Unquotable = {} PROVE Spec => []SessionOnRecord
<1>1. SteadyInv(w) => SessionOnRecord
  BY DEF Steady, Lone, SteadyInv, RecordInv, SessionOnRecord, OnRecord, Registered, Quotable
<1>2. QED
  BY <1>1, SteadyInvariance, PTL

-----------------------------------------------------------------------------
(* One window that meets no fault: its store is exact.                      *)

\* w is the only window, nothing fails, every name can be quoted, and no total
\* is too large for std::stoi.
Sole(w) ==
    /\ Instances = {w}
    /\ Faults = {}
    /\ Unquotable = {}
    /\ MaxEarned <= IntMax

Inv(w) == TypeInv /\ AccountsInv(w) /\ FormInv(w) /\ CreditInv(w)

LEMMA AtMostOne == ASSUME NEW k \in Nat, k # 0, k <= 1 PROVE k = 1
  OBVIOUS

\* Statements succeed and the existence check tells the truth.
LEMMA NothingFails ==
  ASSUME NEW w, Sole(w)
  PROVE  /\ w \in Instances
         /\ \A steps : ~MayFail(w, steps)
         /\ \A u : Quotable(u)
         /\ \A u : TRUE \in ExistsAnswers(w, u) <=> Registered(u)
         /\ \A u : FALSE \in ExistsAnswers(w, u) <=> ~Registered(u)
<1>1. Steady(w)
  BY DEF Sole, Steady, Lone
<1>2. \A u : Quotable(u)
  BY DEF Sole, Quotable
<1>3. QED
  BY <1>1, <1>2, SteadyStatements

\* A step that leaves the tables alone, away from the second INSERT and from
\* crediting, disturbs only the form.
LEMMA QuietStep ==
  ASSUME NEW w, Inv(w), UNCHANGED Tables,
         pc[w] \notin {"insertBoard"} \union Crediting,
         pc'[w] \notin {"insertBoard"} \union Crediting
  PROVE  AccountsInv(w)' /\ CreditInv(w)'
  BY DEF Inv, Tables, AccountsInv, CreditInv, InFlight, CreditPending, Crediting,
         BoardPoints

LEMMA AwaySteps ==
  ASSUME NEW w, Sole(w), Inv(w),
         Start(w) \/ ChooseForm(w) \/ SignUpPassword(w) \/ LogOut(w) \/ Exit(w)
  PROVE  AccountsInv(w)' /\ FormInv(w)' /\ CreditInv(w)'
<1> USE DEF Goto, Tables, Stopped, InSession, Crediting
<1>0. w \in Instances /\ TypeOK
  BY NothingFails DEF Inv, TypeInv
<1>1. CASE Start(w)
  BY <1>0, <1>1, QuietStep DEF Start, Inv, TypeOK, FormInv, Registered, AccountSession
<1>2. CASE ChooseForm(w)
  BY <1>0, <1>2, QuietStep DEF ChooseForm, Inv, TypeOK, FormInv, Registered, AccountSession
<1>3. CASE SignUpPassword(w)
  BY <1>0, <1>3, QuietStep
     DEF SignUpPassword, Inv, TypeOK, FormInv, Registered, AccountSession
<1>4. CASE LogOut(w)
  BY <1>0, <1>4, QuietStep DEF LogOut, Forget, Inv, TypeOK, FormInv, Registered, AccountSession
<1>5. CASE Exit(w)
  BY <1>0, <1>5, QuietStep DEF Exit, Inv, TypeOK, FormInv, Registered, AccountSession
<1>6. QED
  BY <1>1, <1>2, <1>3, <1>4, <1>5

LEMMA LogInStep ==
  ASSUME NEW w, Sole(w), Inv(w), LogIn(w)
  PROVE  AccountsInv(w)' /\ FormInv(w)' /\ CreditInv(w)'
<1> USE DEF Goto, Tables, Stopped, InSession, Crediting
<1>1. w \in Instances /\ TypeOK
  BY NothingFails DEF Inv, TypeInv
<1>2. PICK u \in Names, p \in Passwords :
         /\ Registered(u) /\ players[u][1] = p
         /\ BeginSession(w, u)
         /\ form' = [form EXCEPT ![w] = [name |-> u, password |-> p]]
  BY NothingFails DEF LogIn
<1>3. AccountSession(w)'
  BY <1>1, <1>2, NoneAssumption DEF AccountSession, NoForm, TypeOK
<1>4. FormInv(w)'
  BY <1>1, <1>2, <1>3 DEF LogIn, BeginSession, FormInv, Registered, TypeOK
<1>5. QED
  BY <1>1, <1>2, <1>4, QuietStep DEF LogIn, BeginSession, TypeOK

LEMMA SignUpNameStep ==
  ASSUME NEW w, Sole(w), Inv(w), SignUpName(w)
  PROVE  AccountsInv(w)' /\ FormInv(w)' /\ CreditInv(w)'
<1> USE DEF Goto, Tables, Stopped, InSession, Crediting
<1>1. w \in Instances /\ TypeOK
  BY NothingFails DEF Inv, TypeInv
<1>2. PICK u \in Names : ~Registered(u) /\ form' = [form EXCEPT ![w].name = u]
  BY NothingFails DEF SignUpName
<1>3. form'[w].name = u
  BY <1>1, <1>2 DEF TypeOK
<1>4. FormInv(w)'
  BY <1>1, <1>2, <1>3 DEF SignUpName, Inv, FormInv, Registered, TypeOK
<1>5. QED
  BY <1>1, <1>4, QuietStep DEF SignUpName, TypeOK

LEMMA AddCheckStep ==
  ASSUME NEW w, Sole(w), Inv(w), AddCheck(w)
  PROVE  AccountsInv(w)' /\ FormInv(w)' /\ CreditInv(w)'
<1> USE DEF Goto, Tables, Stopped, InSession, Crediting
<1>1. w \in Instances /\ TypeOK
  BY NothingFails DEF Inv, TypeInv
<1>2. ~Registered(form[w].name)
  BY DEF AddCheck, Inv, FormInv
<1>3. Goto(w, "insertPlayer") /\ UNCHANGED user
  BY <1>2, NothingFails DEF AddCheck
<1>4. FormInv(w)'
  BY <1>1, <1>2, <1>3 DEF AddCheck, Inv, FormInv, Registered, TypeOK
<1>5. QED
  BY <1>1, <1>3, <1>4, QuietStep DEF AddCheck, TypeOK

LEMMA InsertPlayerStep ==
  ASSUME NEW w, Sole(w), Inv(w), InsertPlayer(w)
  PROVE  AccountsInv(w)' /\ FormInv(w)' /\ CreditInv(w)'
<1> DEFINE n == form[w].name
<1> USE DEF Goto, Stopped, InSession, Crediting
<1>1. w \in Instances /\ TypeOK /\ n \in Names /\ pc[w] = "insertPlayer"
  BY NothingFails DEF InsertPlayer, Inv, TypeInv, Filled, InSignUp
<1>2. /\ players' = [players EXCEPT ![n] = Append(@, form[w].password)]
      /\ UNCHANGED <<board, earned, user, form, credit>>
      /\ pc' = [pc EXCEPT ![w] = "insertBoard"]
  BY NothingFails DEF InsertPlayer, AppendPlayer
<1>3. pc'[w] = "insertBoard" /\ ~Registered(n)
  BY <1>1, <1>2 DEF Inv, FormInv, TypeOK
<1>4. players[n] = <<>> /\ Len(board[n]) = 0
  BY <1>1, <1>3 DEF Inv, AccountsInv, InFlight, Registered
<1>5. /\ players'[n] = <<form[w].password>>
      /\ \A u \in Names \ {n} : players'[u] = players[u]
  BY <1>1, <1>2, <1>4 DEF TypeOK
<1>6. AccountsInv(w)'
  <2> SUFFICES ASSUME NEW u \in Names
               PROVE  /\ Len(players'[u]) <= 1
                      /\ Len(board'[u]) = IF InFlight(w, u)' THEN 0 ELSE Len(players'[u])
                      /\ InFlight(w, u)' =>
                            players'[u] # <<>> /\ players'[u][1] = form'[w].password
    BY DEF AccountsInv
  <2>1. CASE u = n
    BY <1>2, <1>3, <1>4, <1>5, <2>1, SMTT(30) DEF InFlight
  <2>2. CASE u # n
    BY <1>1, <1>2, <1>3, <1>5, <2>2, SMTT(30) DEF Inv, AccountsInv, InFlight
  <2>3. QED
    BY <2>1, <2>2
<1>7. FormInv(w)'
  BY <1>1, <1>2, <1>3 DEF Inv, FormInv
<1>8. CreditInv(w)'
  BY <1>1, <1>2, <1>3 DEF Inv, CreditInv, BoardPoints, CreditPending
<1>9. QED
  BY <1>6, <1>7, <1>8

LEMMA InsertBoardStep ==
  ASSUME NEW w, Sole(w), Inv(w), InsertBoard(w)
  PROVE  AccountsInv(w)' /\ FormInv(w)' /\ CreditInv(w)'
<1> DEFINE n == form[w].name
<1> USE DEF Goto, Stopped, InSession, Crediting
<1>1. /\ w \in Instances /\ TypeOK
      /\ n \in Names /\ form[w].password \in Passwords /\ pc[w] = "insertBoard"
  BY NothingFails DEF InsertBoard, Inv, TypeInv, Filled, InSignUp
<1>2. /\ board' = [board EXCEPT ![n] = Append(@, FreshRow)]
      /\ UNCHANGED <<players, earned, form, credit>>
      /\ pc' = [pc EXCEPT ![w] = "playing"]
      /\ user' = [user EXCEPT ![w] = n]
  BY NothingFails DEF InsertBoard, BeginSession, Sole
<1>3. pc'[w] = "playing" /\ user'[w] = n
  BY <1>1, <1>2 DEF TypeOK
<1>4. /\ Len(board[n]) = 0
      /\ Len(players[n]) <= 1
      /\ players[n] # <<>>
      /\ players[n][1] = form[w].password
  BY <1>1 DEF Inv, AccountsInv, InFlight
<1>5. board[n] = <<>> /\ Len(players[n]) = 1
  <2>1. board[n] \in Seq([Modes -> Nat]) /\ players[n] \in Seq(Passwords)
    BY <1>1 DEF TypeOK
  <2>2. Len(players[n]) \in Nat /\ Len(players[n]) # 0
    BY <1>4, <2>1, LenZero
  <2>3. board[n] = <<>>
    BY <1>4, <2>1, LenZero
  <2>4. QED
    BY <1>4, <2>2, <2>3, AtMostOne
<1>6. /\ board'[n] = <<FreshRow>>
      /\ \A u \in Names \ {n} : board'[u] = board[u]
  BY <1>1, <1>2, <1>5 DEF TypeOK
<1>7. AccountsInv(w)'
  BY <1>1, <1>2, <1>3, <1>5, <1>6, SMTT(30) DEF Inv, AccountsInv, InFlight
<1>8. FormInv(w)'
  <2>1. AccountSession(w)'
    BY <1>1, <1>2, NoneAssumption DEF AccountSession, NoForm
  <2>2. QED
    BY <1>1, <1>2, <1>3, <1>4, <2>1 DEF FormInv, Registered
<1>9. CreditInv(w)'
  <2>1. \A u \in Names, m \in Modes : BoardPoints(u, m)' = BoardPoints(u, m)
    BY <1>1, <1>5, <1>6 DEF BoardPoints, FreshRow
  <2>2. QED
    BY <1>1, <1>2, <1>3, <2>1 DEF Inv, CreditInv, CreditPending
<1>10. QED
  BY <1>7, <1>8, <1>9

LEMMA FinishRoundStep ==
  ASSUME NEW w, Sole(w), Inv(w), FinishRound(w)
  PROVE  AccountsInv(w)' /\ FormInv(w)' /\ CreditInv(w)'
<1> DEFINE u == user[w]
<1> USE DEF Goto, Stopped, InSession, Crediting
<1>1. w \in Instances /\ TypeOK /\ u \in Names /\ pc[w] = "playing"
  BY NothingFails DEF FinishRound, CallUpdatePlayerPoints, Inv, TypeInv, TypeOK
<1>2. PICK m \in Modes, p \in Awards :
         /\ earned[u][m] + p <= MaxEarned
         /\ earned' = IF AccountSession(w) THEN [earned EXCEPT ![u][m] = @ + p]
                                           ELSE earned
         /\ \/ /\ u # Guest /\ Registered(u)
               /\ pc' = [pc EXCEPT ![w] = "readPoints"]
               /\ credit' = [credit EXCEPT ![w] =
                               [mode |-> m, points |-> p, total |-> 0]]
            \/ /\ u = Guest \/ ~Registered(u)
               /\ UNCHANGED <<pc, credit>>
  BY NothingFails DEF FinishRound, CallUpdatePlayerPoints
<1>3. UNCHANGED <<players, board, user, form>> /\ p \in Nat
  BY AwardsAssumption DEF FinishRound, CallUpdatePlayerPoints
<1>4. AccountSession(w) => Registered(u)
  BY <1>1 DEF Inv, FormInv
<1>5. ~AccountSession(w) => u = Guest
  BY <1>1 DEF Inv, FormInv
<1>6. AccountsInv(w)'
  BY <1>1, <1>2, <1>3 DEF Inv, AccountsInv, InFlight, TypeOK
<1>7. FormInv(w)'
  BY <1>1, <1>2, <1>3 DEF Inv, FormInv, Registered, AccountSession, TypeOK
<1>8. \A v \in Names, k \in Modes :
         earned'[v][k] = IF AccountSession(w) /\ v = u /\ k = m THEN earned[v][k] + p
                                                              ELSE earned[v][k]
  BY <1>1, <1>2 DEF TypeOK
<1>9. CreditInv(w)'
  <2>1. CASE u = Guest
    <3>1. UNCHANGED <<pc, credit>>
      BY <1>2, <2>1
    <3>2. QED
      BY <1>1, <1>2, <1>3, <1>8, <2>1, <3>1 DEF Inv, CreditInv, CreditPending, BoardPoints
  <2>2. CASE u # Guest
    <3>1. /\ AccountSession(w)
          /\ pc'[w] = "readPoints"
          /\ credit'[w] = [mode |-> m, points |-> p, total |-> 0]
      BY <1>1, <1>2, <1>4, <1>5, <2>2 DEF TypeOK
    <3>2. \A v \in Names, k \in Modes :
             CreditPending(w, v, k)' <=> v = u /\ k = m
      BY <1>3, <3>1 DEF CreditPending
    <3>3. \A v \in Names, k \in Modes : BoardPoints(v, k)' = BoardPoints(v, k)
      BY <1>3 DEF BoardPoints
    <3>4. \A v \in Names, k \in Modes :
             ~CreditPending(w, v, k) /\ earned[v][k] \in Nat
      BY <1>1 DEF CreditPending, TypeOK
    <3>5. \A v \in Names \ {Guest}, k \in Modes : earned[v][k] = BoardPoints(v, k) + 0
      BY <3>4 DEF Inv, CreditInv
    <3>6. \A v \in Names \ {Guest}, k \in Modes : BoardPoints(v, k) \in Nat
      BY <1>1 DEF BoardPoints, TypeOK
    <3>7. \A v \in Names, k \in Modes : earned'[v][k] <= MaxEarned
      BY <1>2, <1>8 DEF Inv, CreditInv
    <3>8. \A v \in Names \ {Guest}, k \in Modes :
             earned'[v][k] = BoardPoints(v, k)' + (IF CreditPending(w, v, k)'
                                                   THEN credit'[w].points ELSE 0)
      BY <1>3, <1>8, <3>1, <3>2, <3>3, <3>5, <3>6
    <3>9. QED
      BY <1>3, <2>2, <3>1, <3>7, <3>8 DEF CreditInv
  <2>3. QED
    BY <2>1, <2>2
<1>10. QED
  BY <1>6, <1>7, <1>9
\* The row read exists and holds a number std::stoi converts.
LEMMA ReadPointsStep ==
  ASSUME NEW w, Sole(w), Inv(w), ReadPoints(w)
  PROVE  AccountsInv(w)' /\ FormInv(w)' /\ CreditInv(w)'
<1> DEFINE u == user[w]
           m == credit[w].mode
           v == board[u][1][m]
<1> USE DEF Goto, Stopped, InSession, Crediting, Tables
<1>1. w \in Instances /\ TypeOK /\ u \in Names /\ m \in Modes /\ pc[w] = "readPoints"
  BY NothingFails DEF ReadPoints, Inv, TypeInv, TypeOK, Filled
<1>2. u # Guest /\ Registered(u)
  BY <1>1 DEF Inv, FormInv, CreditInv
<1>3. board[u] # <<>>
  <2>1. Len(board[u]) = Len(players[u])
    BY <1>1 DEF Inv, AccountsInv, InFlight
  <2>2. board[u] \in Seq([Modes -> Nat]) /\ players[u] \in Seq(Passwords)
    BY <1>1 DEF TypeOK
  <2>3. QED
    BY <1>2, <2>1, <2>2, LenZero DEF Registered
<1>4. v = BoardPoints(u, m) /\ v \in Nat /\ credit[w].points \in Nat
  <2>1. board[u] \in Seq([Modes -> Nat]) /\ credit[w].points \in Nat
    BY <1>1 DEF TypeOK
  <2>2. Len(board[u]) \in Nat /\ Len(board[u]) # 0
    BY <1>3, <2>1, LenZero
  <2>3. board[u][1] \in [Modes -> Nat]
    BY <2>1, <2>2
  <2>4. QED
    BY <1>1, <1>3, <2>1, <2>3 DEF BoardPoints
<1>5. v <= IntMax
  <2>1. earned[u][m] = v + credit[w].points /\ earned[u][m] <= MaxEarned
    BY <1>1, <1>2, <1>4 DEF Inv, CreditInv, CreditPending
  <2>2. MaxEarned \in Nat /\ IntMax \in Nat /\ MaxEarned <= IntMax
    BY BoundsAssumption, AwardsAssumption DEF Sole
  <2>3. QED
    BY <1>4, <2>1, <2>2
<1>6. /\ pc' = [pc EXCEPT ![w] = "writePoints"]
      /\ credit' = [credit EXCEPT ![w].total = v + credit[w].points]
      /\ UNCHANGED <<players, board, earned, user, form>>
  <2>1. ~(v > IntMax)
    BY <1>4, <1>5, AwardsAssumption
  <2>2. QED
    BY <1>3, <2>1, NothingFails DEF ReadPoints
<1>7. /\ pc'[w] = "writePoints"
      /\ credit'[w].total = v + credit[w].points
      /\ credit'[w].mode = m /\ credit'[w].points = credit[w].points
  BY <1>1, <1>6 DEF TypeOK
<1>8. AccountsInv(w)'
  BY <1>1, <1>6, <1>7 DEF Inv, AccountsInv, InFlight
<1>9. FormInv(w)'
  BY <1>1, <1>6, <1>7 DEF Inv, FormInv, Registered, AccountSession
<1>10. CreditInv(w)'
  BY <1>1, <1>4, <1>6, <1>7 DEF Inv, CreditInv, CreditPending, BoardPoints
<1>11. QED
  BY <1>8, <1>9, <1>10

LEMMA WritePointsStep ==
  ASSUME NEW w, Sole(w), Inv(w), WritePoints(w)
  PROVE  AccountsInv(w)' /\ FormInv(w)' /\ CreditInv(w)'
<1> DEFINE u == user[w]
           m == credit[w].mode
           t == credit[w].total
           newRows == [k \in DOMAIN board[u] |-> [board[u][k] EXCEPT ![m] = t]]
<1> USE DEF Goto, Stopped, InSession, Crediting
<1>1. w \in Instances /\ TypeOK /\ u \in Names /\ m \in Modes /\ pc[w] = "writePoints"
  BY NothingFails DEF WritePoints, Inv, TypeInv, TypeOK, Filled
<1>2. /\ board' = [board EXCEPT ![u] = newRows]
      /\ pc' = [pc EXCEPT ![w] = "playing"]
      /\ UNCHANGED <<players, earned, user, form>>
  BY NothingFails DEF WritePoints
<1>3. pc'[w] = "playing" /\ board'[u] = newRows
      /\ \A n \in Names \ {u} : board'[n] = board[n]
  BY <1>1, <1>2 DEF TypeOK
<1>4. u # Guest /\ Registered(u)
  BY <1>1 DEF Inv, FormInv, CreditInv
<1>5. board[u] \in Seq([Modes -> Nat]) /\ players[u] \in Seq(Passwords)
  BY <1>1 DEF TypeOK
<1>6. Len(board[u]) = Len(players[u]) /\ Len(players[u]) <= 1
  BY <1>1 DEF Inv, AccountsInv, InFlight
<1>7. Len(board[u]) = 1
  <2>1. Len(players[u]) \in Nat /\ Len(players[u]) # 0
    BY <1>4, <1>5, LenZero DEF Registered
  <2>2. \A n \in Nat : n <= 1 /\ n # 0 => n = 1
    OBVIOUS
  <2>3. Len(players[u]) = 1
    BY <1>6, <2>1, <2>2, Zenon
  <2>4. QED
    BY <1>6, <2>3, Zenon
<1>8. DOMAIN newRows = 1..1 /\ newRows[1] = [board[u][1] EXCEPT ![m] = t]
  BY <1>5, <1>7
<1>9. board[u][1] \in [Modes -> Nat] /\ board[u] # <<>>
  BY <1>5, <1>7, LenZero
<1>10. newRows \in Seq([Modes -> Nat]) /\ Len(newRows) = 1 /\ newRows # <<>>
  <2>1. t \in Nat
    BY <1>1 DEF TypeOK
  <2>2. newRows \in Seq([Modes -> Nat])
    BY <1>8, <1>9, <2>1, SMTT(30)
  <2>3. Len(newRows) = 1
    BY <1>8, <2>2
  <2>4. QED
    BY <2>2, <2>3
<1>11. AccountsInv(w)'
  BY <1>1, <1>2, <1>3, <1>7, <1>10 DEF Inv, AccountsInv, InFlight
<1>12. FormInv(w)'
  BY <1>1, <1>2, <1>3 DEF Inv, FormInv, Registered, AccountSession
<1>13. CreditInv(w)'
  <2>1. ASSUME NEW n \in Names, NEW k \in Modes
        PROVE  BoardPoints(n, k)' = IF n = u /\ k = m THEN t ELSE BoardPoints(n, k)
    <3>1. newRows[1][m] = t /\ \A j \in Modes \ {m} : newRows[1][j] = board[u][1][j]
      BY <1>1, <1>8, <1>9
    <3> HIDE DEF newRows
    <3>2. board'[u] = newRows /\ newRows # <<>> /\ board[u] # <<>>
      BY <1>3, <1>9, <1>10
    <3>3. CASE n = u
      BY <3>1, <3>2, <3>3, Zenon DEF BoardPoints
    <3>4. CASE n # u
      BY <1>3, <3>4, Zenon DEF BoardPoints
    <3>5. QED
      BY <3>3, <3>4, Zenon
  <2>2. t = BoardPoints(u, m) + credit[w].points
    BY <1>1 DEF Inv, CreditInv
  <2>3. \A n \in Names, k \in Modes : CreditPending(w, n, k) <=> n = u /\ k = m
    BY <1>1 DEF CreditPending
  <2>4. \A n \in Names, k \in Modes : ~CreditPending(w, n, k)'
    BY <1>3 DEF CreditPending
  <2>5. \A n \in Names, k \in Modes : earned[n][k] \in Nat
    BY <1>1 DEF TypeOK
  <2>6. ASSUME NEW n \in Names \ {Guest}, NEW k \in Modes
        PROVE  earned[n][k] = BoardPoints(n, k)' + 0
    <3>1. earned[n][k] = BoardPoints(n, k) + (IF CreditPending(w, n, k)
                                              THEN credit[w].points ELSE 0)
      BY DEF Inv, CreditInv
    <3>2. CASE n = u /\ k = m
      <4>1. earned[n][k] = BoardPoints(n, k)'
        BY <2>1, <2>2, <2>3, <3>1, <3>2
      <4>2. QED
        BY <2>5, <4>1
    <3>3. CASE ~(n = u /\ k = m)
      BY <2>1, <2>3, <3>1, <3>3
    <3>4. QED
      BY <3>2, <3>3
  <2>7. QED
    BY <1>2, <1>3, <2>4, <2>6 DEF Inv, CreditInv
<1>14. QED
  BY <1>11, <1>12, <1>13

LEMMA InvInit == ASSUME NEW w, Sole(w), Init PROVE Inv(w)
<1>1. w \in Instances /\ TypeInv
  BY TypeInit, NothingFails
<1>2. AccountsInv(w)
  BY <1>1 DEF Init, AccountsInv, InFlight
<1>3. FormInv(w)
  BY <1>1 DEF Init, FormInv, Stopped, InSession, Crediting
<1>4. CreditInv(w)
  BY <1>1, BoundsAssumption
     DEF Init, CreditInv, CreditPending, Crediting, BoardPoints, FreshRow
<1>5. QED
  BY <1>1, <1>2, <1>3, <1>4 DEF Inv

LEMMA InvStep == ASSUME NEW w, Sole(w), Inv(w), [Next]_vars PROVE Inv(w)'
<1>1. TypeInv'
  BY TypeStep DEF Inv
<1>2. CASE UNCHANGED vars
  BY <1>1, <1>2
     DEF vars, Inv, AccountsInv, FormInv, CreditInv, InFlight, Registered, AccountSession,
         CreditPending, BoardPoints
<1>3. CASE ProgramStep(w)
  BY <1>1, <1>3, AddCheckStep, InsertPlayerStep, InsertBoardStep, ReadPointsStep,
     WritePointsStep DEF ProgramStep, Inv
<1>4. CASE PlayerStep(w)
  <2>1. CASE Refuse(w)
    BY <1>2, <2>1 DEF Refuse
  <2>2. CASE ~Refuse(w)
    BY <1>1, <1>4, <2>2, AwaySteps, LogInStep, SignUpNameStep, FinishRoundStep
       DEF PlayerStep, Inv
  <2>3. QED
    BY <2>1, <2>2
<1>5. ~FaultStep(w)
  BY NothingFails DEF FaultStep, LogInFaults, OpenThrows, Close, Sole
<1>6. QED
  BY <1>2, <1>3, <1>4, <1>5 DEF Next, Sole

\* What Inv says in the terms of the properties.
LEMMA InvImplies ==
  ASSUME NEW w, Sole(w), Inv(w)
  PROVE  OneWindowInv /\ ExactCredit /\ NoCrash
<1>1. Instances = {w} /\ TypeOK
  BY DEF Sole, Inv, TypeInv
<1>2. ExactCredit
  <2> SUFFICES ASSUME NEW u \in Names \ {Guest}, NEW m \in Modes, ~CreditPending(w, u, m)
               PROVE  BoardPoints(u, m) = earned[u][m]
    BY <1>1 DEF ExactCredit, AllCredited
  <2>1. earned[u][m] = BoardPoints(u, m) + 0
    BY DEF Inv, CreditInv
  <2>2. BoardPoints(u, m) \in Nat
    <3>1. board[u] \in Seq([Modes -> Nat])
      BY <1>1 DEF TypeOK
    <3>2. QED
      BY <3>1, EmptySeq DEF BoardPoints
  <2>3. QED
    BY <2>1, <2>2
<1>3. NoCrash
  BY <1>1 DEF Inv, FormInv, NoCrash
<1>4. QED
  BY <1>1, <1>2, <1>3 DEF Inv, OneWindowInv

LEMMA SoleInv == ASSUME NEW CONSTANT w, Sole(w) PROVE Spec => []Inv(w)
  BY InvInit, InvStep, PTL DEF Spec

\* Outside updatePlayerPoints the leaderboard holds exactly the points earned.
THEOREM SoleExactCredit ==
  ASSUME NEW CONSTANT w, Sole(w) PROVE Spec => []ExactCredit
  BY SoleInv, InvImplies, PTL

\* The program never reads a row that is not there and never overflows std::stoi.
THEOREM SoleNoCrash ==
  ASSUME NEW CONSTANT w, Sole(w) PROVE Spec => []NoCrash
  BY SoleInv, InvImplies, PTL

\* The inductive invariant the two theorems above rest on.
THEOREM SoleOneWindowInv ==
  ASSUME NEW CONSTANT w, Sole(w) PROVE Spec => []OneWindowInv
  BY SoleInv, InvImplies, PTL
=============================================================================
