---------------------------- MODULE Leaderboard ----------------------------
(***************************************************************************)
(* displayFrogsandFliesLeaderboard and displayMathTriviaLeaderboard, among *)
(* the windows of PlayerStore: one query that is executed three times, once *)
(* to see whether it has rows, once to count them, and once to print them.  *)
(*                                                                         *)
(* The two functions differ in the points column alone, a parameter here.  *)
(* A query that has given a row and has not ended keeps a shared lock on    *)
(* leaderboard.db.  No other window can commit to the file until the query  *)
(* ends, is reset for the count, or its handle is deleted.                  *)
(***************************************************************************)
EXTENDS PlayerStore, FiniteSetsExt, SequencesExt

CONSTANTS
    Alphabet,  \* the names in ascending order
    Limit,     \* the query's LIMIT
    Enrolled   \* names with an account in the files the windows find

ASSUME AlphabetAssumption ==
    /\ Alphabet \in Seq(Names)
    /\ \A u \in Names : \E k \in DOMAIN Alphabet : Alphabet[k] = u
    /\ \A j, k \in DOMAIN Alphabet : Alphabet[j] = Alphabet[k] => j = k
ASSUME LimitAssumption == Limit \in Nat \ {0}
ASSUME EnrolledAssumption ==
    Enrolled \subseteq Names /\ IsFiniteSet(Enrolled) /\ Passwords # {}

VARIABLE
    view  \* per window: the display under way

lbVars == <<vars, view>>

\* step: where the display is; mode: the column; count: numberOfPlayerScores;
\* printed: the lines on the console; alone: history, no other window has used
\* the board since the display began.
NoView == [step |-> "none", mode |-> None, count |-> 0, printed |-> <<>>, alone |-> TRUE]

Viewing(i) == view[i].step # "none"

Lines == [name : Names, points : Nat]

LbTypeOK ==
    /\ TypeOK
    /\ view \in [Instances -> [step : {"none", "rewind", "count", "fetch"},
                               mode : Modes \union {None}, count : 0..Limit,
                               printed : Seq(Lines), alone : BOOLEAN]]
    /\ \A i \in Instances : Viewing(i) => pc[i] = "playing" /\ view[i].mode \in Modes

\* No window is open yet; the files are what earlier windows left.
LbInit ==
    /\ \E p \in Passwords :
         players = [u \in Names |-> IF u \in Enrolled THEN <<p>> ELSE <<>>]
    /\ board = [u \in Names |-> IF u \in Enrolled THEN <<FreshRow>> ELSE <<>>]
    /\ earned = [u \in Names |-> FreshRow]
    /\ pc = [i \in Instances |-> "closed"]
    /\ user = [i \in Instances |-> Guest]
    /\ form = [i \in Instances |-> NoForm]
    /\ credit = [i \in Instances |-> NoCredit]
    /\ view = [i \in Instances |-> NoView]

-----------------------------------------------------------------------------
(* The query.                                                              *)

Place(u) == CHOOSE k \in DOMAIN Alphabet : Alphabet[k] = u

\* ORDER BY the column DESC, Username ASC; rows alike in both keep their order.
Before(m, r, q) ==
    LET p == board[r.name][r.nth][m]
        o == board[q.name][q.nth][m]
    IN \/ p > o
       \/ p = o /\ Place(r.name) < Place(q.name)
       \/ p = o /\ r.name = q.name /\ r.nth < q.nth

Rows == UNION {{[name |-> u, nth |-> k] : k \in DOMAIN board[u]} : u \in Names}

\* The rows the query finds on the board as it stands.
Listed(m) ==
    LET nth(k)  == CHOOSE r \in Rows : Cardinality({q \in Rows : Before(m, q, r)}) = k - 1
        line(r) == [name |-> r.name, points |-> board[r.name][r.nth][m]]
    IN [k \in 1..Min({Limit, Cardinality(Rows)}) |-> line(nth(k))]

-----------------------------------------------------------------------------
(* The display.                                                            *)

\* Mutant: each line comes from a query of its own.
HoldsOneRow(i) == view[i].step = "rewind"

\* The window's query has given a row and has not ended.
Holds(i) ==
    \/ view[i].step = "rewind"
    \/ view[i].step = "fetch" /\ view[i].printed # <<>>

\* The window has a statement on the board under way or to come at once.
UsingBoard == {"insertBoard", "readPoints", "writePoints"}
Using(i) == Viewing(i) \/ pc[i] \in UsingBoard

Disturbed(i) == "io" \in Faults \/ \E j \in Instances \ {i} : Using(j)

\* The display of a window that is no longer the only one to use the board.
NotAlone(i) == IF Viewing(i) THEN [view[i] EXCEPT !.alone = FALSE] ELSE view[i]

\* The statement is set and executed for the first time.  Without a row, or when
\* it fails, the count will be zero, of which the display knows no more.
Show(i) ==
    /\ pc[i] = "playing" /\ ~Viewing(i)
    /\ \E m \in Modes, step \in {"rewind", "fetch"} :
         /\ IF step = "rewind" THEN Listed(m) # <<>> ELSE Listed(m) = <<>> \/ Disturbed(i)
         /\ view' = [j \in Instances |->
                       IF j = i
                         THEN [NoView EXCEPT !.step = step, !.mode = m, !.alone = ~Disturbed(i)]
                         ELSE NotAlone(j)]
    /\ UNCHANGED vars

\* getNumberOfReturnedRows resets the query, which gives up the lock, ...
Rewind(i) ==
    /\ view[i].step = "rewind"
    /\ view' = [view EXCEPT ![i].step = "count"]
    /\ UNCHANGED vars

\* Mutant: the row of the first execution is not counted.
CountRest(i) ==
    /\ view[i].step = "count"
    /\ view' = [view EXCEPT ![i].step = "fetch", ![i].count = Len(Listed(view[i].mode)) - 1]
    /\ UNCHANGED vars

\* ... then executes it to its end and resets it once more, on whatever the board
\* has become; if it fails to get the lock back there is no row.
Count(i) ==
    /\ view[i].step = "count"
    /\ \E n \in {Len(Listed(view[i].mode))} \union (IF Disturbed(i) THEN {0} ELSE {}) :
         view' = [view EXCEPT ![i].step = "fetch", ![i].count = n]
    /\ UNCHANGED vars

\* Mutant: the loop takes one row more.
ToPrintOneMore(i) == view[i].step = "fetch" /\ Len(view[i].printed) <= view[i].count

ToPrint(i) == view[i].step = "fetch" /\ Len(view[i].printed) < view[i].count

\* One execution, one line: the next row of the query.
Fetch(i) ==
    LET k == Len(view[i].printed) + 1
        rows == Listed(view[i].mode)
    IN /\ ToPrint(i)
       /\ k \in DOMAIN rows
       /\ view' = [view EXCEPT ![i].printed = Append(@, rows[k])]
       /\ UNCHANGED vars

\* There is no row: the code prints the first two columns of none.  The first
\* execution of the loop is the only one that needs the lock anew.
FetchFaults(i) ==
    LET k == Len(view[i].printed) + 1
    IN /\ ToPrint(i)
       /\ \/ k \notin DOMAIN Listed(view[i].mode)
          \/ k = 1 /\ Disturbed(i)
       /\ Goto(i, "crashed")
       /\ Forget(i)
       /\ view' = [view EXCEPT ![i] = NoView]
       /\ UNCHANGED Tables

\* The handle is deleted, which ends its query, and the menu is printed.
EndView(i) ==
    /\ view[i].step = "fetch" /\ ~ToPrint(i)
    /\ view' = [view EXCEPT ![i] = NoView]
    /\ UNCHANGED vars

DisplayStep(i) == Rewind(i) \/ Count(i) \/ Fetch(i) \/ FetchFaults(i) \/ EndView(i)

-----------------------------------------------------------------------------
(* The rest of the game.                                                   *)

\* A step of another part of the program, which finds the board locked while
\* another window holds a row of it.
Elsewhere(i) ==
    /\ ~Viewing(i)
    /\ ProgramStep(i) \/ PlayerStep(i) \/ FaultStep(i)
    /\ (\E j \in Instances \ {i} : Holds(j)) => UNCHANGED board
    /\ view' = [j \in Instances |-> IF pc'[i] \in UsingBoard
                                    THEN NotAlone(j) ELSE view[j]]

CloseView(i) ==
    /\ Viewing(i)
    /\ Close(i)
    /\ view' = [view EXCEPT ![i] = NoView]

LbNext ==
    \E i \in Instances : Show(i) \/ DisplayStep(i) \/ Elsewhere(i) \/ CloseView(i)

LbSpec == LbInit /\ [][LbNext]_lbVars

-----------------------------------------------------------------------------
(* Properties.                                                             *)

\* The lines of a display were all on the board at one moment, highest first, with
\* the rows that belong to its menu, whatever other windows do between them: no
\* points are shown twice or out of order because they moved during the printing.
LinesAreOneMoment ==
    \A i \in Instances :
        view[i].step = "fetch" => IsPrefix(view[i].printed, Listed(view[i].mode))

\* A display ends with every row of the query, as long as no other window used
\* the board meanwhile: only then may counting and fetching differ.
DisplayIsComplete ==
    \A i \in Instances :
        view[i].step = "fetch" /\ ~ToPrint(i) /\ view[i].alone =>
            Len(view[i].printed) = Len(Listed(view[i].mode))

\* A display fetches no row that is not there, and so does not end the process,
\* unless another window used the board: rows are counted in one execution and
\* fetched in the next.
DisplayStopsForOthers ==
    [][\A i \in Instances :
          Viewing(i) /\ pc'[i] = "crashed" => ~view[i].alone]_lbVars
=============================================================================
