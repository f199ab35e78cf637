---------------------------- MODULE PlayerStore ----------------------------
(***************************************************************************)
(* Accounts and points of A.N.D: the sign-up, login and crediting code of  *)
(* game_core.cpp, run by one or more game windows over the same two SQLite *)
(* files, players.db (table player) and leaderboard.db (table              *)
(* playerleaderboard).                                                     *)
(*                                                                         *)
(* A step is what one window does between two uses of a shared file: each  *)
(* statement runs in its own implicit transaction, and the code opens no   *)
(* larger one, so nothing else is atomic.  A statement that fails returns  *)
(* no row and changes nothing, and the program cannot tell: executeStatement *)
(* answers TRUE either way.                                                *)
(***************************************************************************)
EXTENDS Naturals, Sequences, FiniteSets

CONSTANTS
    Instances,   \* game windows (processes) over the same database files
    Names,       \* usernames a player may type
    Guest,       \* the name "guest", playerUsername's value without an account
    Unquotable,  \* names with an apostrophe: no statement built from one parses
    Passwords,   \* passwords; a stored hash is the password it validates
    Modes,       \* game modes, one points column each
    Awards,      \* points a finished round can be worth
    IntMax,      \* the largest value std::stoi converts
    Faults,      \* which of AllFaults can happen
    None,        \* no value
    MaxEarned,   \* bound: points earned by one name in one mode
    MaxRows      \* bound: a name with this many rows is not signed up again

\* open: a database file cannot be opened; io: a statement fails;
\* close: a window is closed, or its process killed, at any point.
AllFaults == {"open", "io", "close"}

ASSUME NamesAssumption == Guest \in Names /\ Unquotable \subseteq Names \ {Guest}
ASSUME InstancesAssumption == IsFiniteSet(Instances)
ASSUME NoneAssumption == None \notin Names \union Passwords \union Modes
ASSUME FaultsAssumption == Faults \subseteq AllFaults
ASSUME AwardsAssumption == IntMax \in Nat /\ Awards \subseteq 0..IntMax
ASSUME BoundsAssumption == MaxEarned \in Nat /\ MaxRows \in Nat \ {0}

VARIABLES
    players,  \* table player: per name, the passwords of its rows in row order
    board,    \* table playerleaderboard: per name, its rows in row order
    earned,   \* history: points earned per name and mode by account sessions
    pc,       \* per window: the next step of its code
    user,     \* per window: GameModel::playerUsername
    form,     \* per window: the login or sign-up data the session rests on
    credit    \* per window: the round being credited, and its new total

vars == <<players, board, earned, pc, user, form, credit>>

FreshRow == [m \in Modes |-> 0]
NoForm   == [name |-> None, password |-> None]
NoCredit == [mode |-> None, points |-> 0, total |-> 0]

InForm    == {"logIn", "signUpName", "signUpPassword"}
InSignUp  == {"addCheck", "insertPlayer", "insertBoard"}
Crediting == {"readPoints", "writePoints"}
InSession == {"playing"} \union Crediting
Running   == {"profile"} \union InForm \union InSignUp \union InSession
Stopped   == {"closed", "thrown", "crashed"}

TypeOK ==
    /\ players \in [Names -> Seq(Passwords)]
    /\ board \in [Names -> Seq([Modes -> Nat])]
    /\ earned \in [Names -> [Modes -> Nat]]
    /\ pc \in [Instances -> Running \union Stopped]
    /\ user \in [Instances -> Names]
    /\ form \in [Instances -> [name : Names \union {None},
                               password : Passwords \union {None}]]
    /\ credit \in [Instances -> [mode : Modes \union {None},
                                 points : Nat, total : Nat]]

Init ==
    /\ players = [u \in Names |-> <<>>]
    /\ board = [u \in Names |-> <<>>]
    /\ earned = [u \in Names |-> FreshRow]
    /\ pc = [i \in Instances |-> "closed"]
    /\ user = [i \in Instances |-> Guest]
    /\ form = [i \in Instances |-> NoForm]
    /\ credit = [i \in Instances |-> NoCredit]

-----------------------------------------------------------------------------
(* The databases, seen through the wrapper.                                *)

Registered(u) == players[u] # <<>>

\* The steps at which a window uses each file.  In a session it reads both, for
\* the existence check and the leaderboards.
UsesPlayers ==
    {"logIn", "signUpName", "addCheck", "insertPlayer", "playing"}
        \union (IF "open" \in Faults THEN {"insertBoard"} ELSE {})
UsesBoard == {"insertBoard", "playing", "readPoints", "writePoints"}

\* The code sets no busy timeout: a statement that meets another window's lock
\* fails at once with SQLITE_BUSY.  A write meets one while another window uses
\* the file at all, as an open SELECT cursor holds its lock until the statement
\* is replaced; a SELECT while another window writes the file, but also, however
\* rarely, while it is just taking a read lock or rolls back what a closed window
\* has left (FileLocks).
Contended(i, steps) == \E j \in Instances \ {i} : pc[j] \in steps

MayFail(i, steps) == "io" \in Faults \/ Contended(i, steps)

Quotable(u) == u \notin Unquotable

\* Mutant: the number of rows is not looked at.
ExistsAnswersBlind(i, u) == {FALSE}

\* The answers doesUsernameExist may give.  No row, a failed statement and a
\* statement that does not parse all read as "no such user".
ExistsAnswers(i, u) ==
    {Registered(u) /\ Quotable(u)}
        \union (IF MayFail(i, UsesPlayers) THEN {FALSE} ELSE {})

-----------------------------------------------------------------------------
(* The program.                                                            *)

Goto(i, step) == pc' = [pc EXCEPT ![i] = step]

\* Mutant: playerUsername is cleared instead of reset.
ForgetName(i) ==
    /\ user' = [user EXCEPT ![i] = None]
    /\ form' = [form EXCEPT ![i] = NoForm]
    /\ credit' = [credit EXCEPT ![i] = NoCredit]

\* The window's session and locals are gone.
Forget(i) ==
    /\ user' = [user EXCEPT ![i] = Guest]
    /\ form' = [form EXCEPT ![i] = NoForm]
    /\ credit' = [credit EXCEPT ![i] = NoCredit]

Tables == <<players, board, earned>>

Start(i) ==
    /\ pc[i] \in Stopped
    /\ Goto(i, "profile")
    /\ UNCHANGED <<Tables, user, form, credit>>

\* The first two options of the profile screen, and the third: play as guest.
ChooseForm(i) ==
    /\ pc[i] = "profile"
    /\ \E step \in {"logIn", "signUpName", "playing"} : Goto(i, step)
    /\ UNCHANGED <<Tables, user, form, credit>>

BeginSession(i, u) ==
    /\ Goto(i, "playing")
    /\ user' = [user EXCEPT ![i] = u]

\* A login the code accepts: both existence checks answer TRUE, the row's hash
\* is read, and the password validates against the first row of the name.
LogIn(i) ==
    /\ pc[i] = "logIn"
    /\ \E u \in Names, p \in Passwords :
         /\ TRUE \in ExistsAnswers(i, u)
         /\ players[u][1] = p
         /\ BeginSession(i, u)
         /\ form' = [form EXCEPT ![i] = [name |-> u, password |-> p]]
    /\ UNCHANGED <<Tables, credit>>

\* verifyPassword takes the first element of the result without asking whether
\* there is one: when that third read fails, the vector is empty.
LogInFaults(i) ==
    /\ pc[i] = "logIn"
    /\ MayFail(i, UsesPlayers)
    /\ \E u \in Names : TRUE \in ExistsAnswers(i, u)
    /\ Goto(i, "crashed")
    /\ Forget(i)
    /\ UNCHANGED Tables

\* Mutant: the first prompt takes any name.
SignUpAnyName(i) ==
    /\ pc[i] = "signUpName"
    /\ \E u \in Names :
         /\ Len(players[u]) < MaxRows /\ Len(board[u]) < MaxRows
         /\ form' = [form EXCEPT ![i].name = u]
    /\ Goto(i, "signUpPassword")
    /\ UNCHANGED <<Tables, user, credit>>

\* A name the first existence check lets through.
SignUpName(i) ==
    /\ pc[i] = "signUpName"
    /\ \E u \in Names :
         /\ Len(players[u]) < MaxRows /\ Len(board[u]) < MaxRows
         /\ FALSE \in ExistsAnswers(i, u)
         /\ form' = [form EXCEPT ![i].name = u]
    /\ Goto(i, "signUpPassword")
    /\ UNCHANGED <<Tables, user, credit>>

\* The login form refuses a wrong name or password, the sign-up form a taken
\* name; both ask again, and neither has another way out.
Refuse(i) ==
    /\ \/ /\ pc[i] = "logIn"
          /\ \E u \in Names, p \in Passwords :
               \/ FALSE \in ExistsAnswers(i, u)
               \/ Registered(u) /\ players[u][1] # p
       \/ /\ pc[i] = "signUpName"
          /\ \E u \in Names : TRUE \in ExistsAnswers(i, u)
    /\ UNCHANGED vars

\* Two equal entries of the password; unequal ones are asked for again.
SignUpPassword(i) ==
    /\ pc[i] = "signUpPassword"
    /\ \E p \in Passwords : form' = [form EXCEPT ![i].password = p]
    /\ Goto(i, "addCheck")
    /\ UNCHANGED <<Tables, user, credit>>

\* addNewPlayer checks the name once more.  If it is taken by now it inserts
\* nothing, and runSignUpProcedure starts the session all the same.
AddCheck(i) ==
    /\ pc[i] = "addCheck"
    /\ \/ /\ TRUE \in ExistsAnswers(i, form[i].name)
          /\ BeginSession(i, form[i].name)
       \/ /\ FALSE \in ExistsAnswers(i, form[i].name)
          /\ Goto(i, "insertPlayer")
          /\ UNCHANGED user
    /\ UNCHANGED <<Tables, form, credit>>

AppendPlayer(i) ==
    /\ Quotable(form[i].name)
    /\ players' = [players EXCEPT ![form[i].name] = Append(@, form[i].password)]

InsertPlayer(i) ==
    /\ pc[i] = "insertPlayer"
    /\ \/ AppendPlayer(i)
       \/ /\ ~Quotable(form[i].name) \/ MayFail(i, UsesPlayers)
          /\ UNCHANGED players
    /\ Goto(i, "insertBoard")
    /\ UNCHANGED <<board, earned, user, form, credit>>

\* Mutant: the handle is not moved to leaderboard.db.
InsertBoardSameFile(i) ==
    /\ pc[i] = "insertBoard"
    /\ AppendPlayer(i)
    /\ BeginSession(i, form[i].name)
    /\ UNCHANGED <<board, earned, form, credit>>

\* Mutant: the name's rows are replaced.
InsertBoardReplaces(i) ==
    /\ pc[i] = "insertBoard"
    /\ board' = [board EXCEPT ![form[i].name] = <<FreshRow>>]
    /\ BeginSession(i, form[i].name)
    /\ UNCHANGED <<players, earned, form, credit>>

\* The second INSERT, on the handle moved to leaderboard.db.  If that file does
\* not open, the handle stays on players.db, where the new statement does not
\* parse (there is no such table): the statement executed is then the INSERT
\* the handle still holds, unless that one was never prepared or fails.  If only
\* the second of the two opens fails, the handle is left with no statement.
InsertBoard(i) ==
    /\ pc[i] = "insertBoard"
    /\ \/ /\ Quotable(form[i].name)
          /\ board' = [board EXCEPT ![form[i].name] = Append(@, FreshRow)]
          /\ UNCHANGED players
       \/ /\ ~Quotable(form[i].name) \/ MayFail(i, UsesBoard)
          /\ UNCHANGED <<players, board>>
       \/ /\ "open" \in Faults
          /\ AppendPlayer(i) \/ UNCHANGED players
          /\ UNCHANGED board
    /\ BeginSession(i, form[i].name)
    /\ UNCHANGED <<earned, form, credit>>

AccountSession(i) == form[i] # NoForm

\* A round of mode m ends and updatePlayerPoints is called with its p points.  It
\* returns at once for the name "guest", and also when the existence check
\* answers FALSE.
CallUpdatePlayerPoints(i, m, p) ==
    LET u == user[i] IN
    /\ earned[u][m] + p <= MaxEarned
    /\ earned' = IF AccountSession(i) THEN [earned EXCEPT ![u][m] = @ + p] ELSE earned
    /\ \/ /\ u # Guest
          /\ TRUE \in ExistsAnswers(i, u)
          /\ Goto(i, "readPoints")
          /\ credit' = [credit EXCEPT ![i] = [mode |-> m, points |-> p, total |-> 0]]
       \/ /\ u = Guest \/ FALSE \in ExistsAnswers(i, u)
          /\ UNCHANGED <<pc, credit>>
    /\ UNCHANGED <<players, board, user, form>>

FinishRound(i) ==
    /\ pc[i] = "playing"
    /\ \E m \in Modes, p \in Awards : CallUpdatePlayerPoints(i, m, p)

\* Mutant: the award replaces the total instead of adding to it.
ReadPointsOverwrites(i) ==
    /\ pc[i] = "readPoints"
    /\ board[user[i]] # <<>>
    /\ Goto(i, "writePoints")
    /\ credit' = [credit EXCEPT ![i].total = credit[i].points]
    /\ UNCHANGED <<Tables, user, form>>

\* Mutant: a conversion that never overflows.
ReadPointsUnlimited(i) ==
    /\ pc[i] = "readPoints"
    /\ board[user[i]] # <<>>
    /\ Goto(i, "writePoints")
    /\ credit' = [credit EXCEPT ![i].total =
                     board[user[i]][1][credit[i].mode] + credit[i].points]
    /\ UNCHANGED <<Tables, user, form>>

\* SELECT the mode's column and add the award.  The program takes the first
\* element of an empty result when there is no row, or the SELECT failed; and
\* std::stoi throws, out of the program, on a value no int holds.  The sum of
\* an int and an award is an unsigned int that cannot wrap.
ReadPoints(i) ==
    /\ pc[i] = "readPoints"
    /\ LET rows == board[user[i]]
           m    == credit[i].mode
       IN \/ /\ rows # <<>>
             /\ rows[1][m] <= IntMax
             /\ Goto(i, "writePoints")
             /\ credit' = [credit EXCEPT ![i].total = rows[1][m] + credit[i].points]
             /\ UNCHANGED <<user, form>>
          \/ /\ rows # <<>>
             /\ rows[1][m] > IntMax
             /\ Goto(i, "thrown")
             /\ Forget(i)
          \/ /\ rows = <<>> \/ MayFail(i, UsesBoard)
             /\ Goto(i, "crashed")
             /\ Forget(i)
    /\ UNCHANGED Tables

\* Mutant: UPDATE without its WHERE.
WritePointsEveryone(i) ==
    /\ pc[i] = "writePoints"
    /\ board' = [u \in Names |-> [k \in DOMAIN board[u] |->
                   [board[u][k] EXCEPT ![credit[i].mode] = credit[i].total]]]
    /\ Goto(i, "playing")
    /\ credit' = [credit EXCEPT ![i] = NoCredit]
    /\ UNCHANGED <<players, earned, user, form>>

\* UPDATE sets the column in every row of the name.
WritePoints(i) ==
    /\ pc[i] = "writePoints"
    /\ \/ board' = [board EXCEPT ![user[i]] =
                      [k \in DOMAIN @ |->
                         [@[k] EXCEPT ![credit[i].mode] = credit[i].total]]]
       \/ /\ MayFail(i, UsesBoard)
          /\ UNCHANGED board
    /\ Goto(i, "playing")
    /\ credit' = [credit EXCEPT ![i] = NoCredit]
    /\ UNCHANGED <<players, earned, user, form>>

\* Back to the profile screen, whose display resets playerUsername.
LogOut(i) ==
    /\ pc[i] = "playing"
    /\ Goto(i, "profile")
    /\ Forget(i)
    /\ UNCHANGED Tables

\* Profile screen, main menu, Exit.
Exit(i) ==
    /\ pc[i] = "profile"
    /\ Goto(i, "closed")
    /\ UNCHANGED <<Tables, user, form, credit>>

\* The wrapper's constructor throws when the file does not open; main catches
\* the exception, prints it and ends the process.
OpenThrows(i) ==
    /\ "open" \in Faults
    /\ pc[i] \in {"logIn", "signUpName", "addCheck", "insertPlayer", "playing"}
    /\ Goto(i, "thrown")
    /\ Forget(i)
    /\ UNCHANGED Tables

Close(i) ==
    /\ "close" \in Faults
    /\ pc[i] \in Running
    /\ Goto(i, "closed")
    /\ Forget(i)
    /\ UNCHANGED Tables

\* What the program does by itself; the rest waits for the player.
ProgramStep(i) ==
    AddCheck(i) \/ InsertPlayer(i) \/ InsertBoard(i) \/ ReadPoints(i) \/ WritePoints(i)

PlayerStep(i) ==
    \/ Start(i) \/ ChooseForm(i) \/ LogIn(i) \/ SignUpName(i) \/ SignUpPassword(i)
    \/ Refuse(i) \/ FinishRound(i) \/ LogOut(i) \/ Exit(i)

FaultStep(i) == LogInFaults(i) \/ OpenThrows(i) \/ Close(i)

Next == \E i \in Instances : ProgramStep(i) \/ PlayerStep(i) \/ FaultStep(i)

Spec == Init /\ [][Next]_vars

FairSpec == Spec /\ \A i \in Instances : WF_vars(ProgramStep(i))

-----------------------------------------------------------------------------
(* Properties.                                                             *)

\* A username belongs to one account: runSignUpProcedure refuses a taken name.
\* The refusal rests on a check made before the password is typed and on a
\* second one made before two separate INSERTs.
UniqueUsernames == \A u \in Names : Len(players[u]) <= 1 /\ Len(board[u]) <= 1

\* A session under a name goes with the password on record for that name, be it
\* reached through login or through sign-up.
SessionOnRecord ==
    \A i \in Instances :
        pc[i] \in InSession /\ AccountSession(i) =>
            /\ user[i] = form[i].name
            /\ players[user[i]] # <<>>
            /\ players[user[i]][1] = form[i].password

BoardPoints(u, m) == IF board[u] = <<>> THEN 0 ELSE board[u][1][m]

\* The window is between the end of a round worth points in column m of name u
\* and the UPDATE that stores them.
CreditPending(i, u, m) ==
    pc[i] \in Crediting /\ user[i] = u /\ credit[i].mode = m

AllCredited(names) ==
    \A u \in names, m \in Modes :
        (\A i \in Instances : ~CreditPending(i, u, m)) => BoardPoints(u, m) = earned[u][m]

\* Once no update is under way, the leaderboard shows exactly what a player
\* earned: the read-add-write of updatePlayerPoints loses and invents nothing.
ExactCredit == AllCredited(Names \ {Guest})

\* What aboutAND says of the leaderboards, that players best others by scoring
\* the most points, for every account the sign-up accepts.
EveryAccountCredited == AllCredited(Names)

\* No row ever shows more points than its player earned, whatever fails, stops
\* or interleaves: each update is computed from a value the column held.
NeverOverCredited ==
    \A u \in Names, m \in Modes : \A k \in DOMAIN board[u] :
        board[u][k][m] <= earned[u][m]

\* The program never takes the first element of an empty result, and no
\* exception ends it.
NoCrash == \A i \in Instances : pc[i] \notin {"crashed", "thrown"}

\* A leaderboard row never disappears and its points never fall.
PointsNeverFall ==
    [][\A u \in Names, m \in Modes : \A k \in DOMAIN board[u] :
          k \in DOMAIN board'[u] /\ board[u][k][m] <= board'[u][k][m]]_vars

\* Points at or past the limit of std::stoi stay what they are: the next update
\* ends the program instead of storing a wrapped total.
NoCreditPastIntMax ==
    [][\A u \in Names, m \in Modes :
          BoardPoints(u, m) > IntMax => BoardPoints(u, m)' = BoardPoints(u, m)]_vars

\* Points a player has earned reach the leaderboard, once the program, which
\* never waits for anyone between a round and its update, runs on.
AwardReachesBoard ==
    \A u \in Names \ {Guest}, m \in Modes, n \in 1..MaxEarned :
        earned[u][m] >= n ~> BoardPoints(u, m) >= n
-----------------------------------------------------------------------------
(* The promise kept.  A name is on the ledger once both its rows exist.     *)

LedgerAccount == [u \in Names |-> IF board[u] = <<>> \/ players[u] = <<>>
                                 THEN None ELSE players[u][1]]
LedgerPoints  == [u \in Names |-> [m \in Modes |-> BoardPoints(u, m)]]

L == INSTANCE Ledger WITH account <- LedgerAccount, points <- LedgerPoints

\* One window implements the ledger even when it may be closed between any two
\* statements: registering and crediting look atomic from outside.
ImplementsLedger == L!Spec

-----------------------------------------------------------------------------
(* The inductive invariant behind ExactCredit and NoCrash, for a window i    *)
(* that has the files to itself and meets no fault.  PlayerStore_proofs      *)
(* proves it.                                                                *)

InFlight(i, u) == pc[i] = "insertBoard" /\ form[i].name = u

\* One account row at most, and its leaderboard row with it, but for a sign-up
\* between its two INSERTs.
AccountsInv(i) ==
    \A u \in Names :
        /\ Len(players[u]) <= 1
        /\ Len(board[u]) = IF InFlight(i, u) THEN 0 ELSE Len(players[u])
        /\ InFlight(i, u) => players[u] # <<>> /\ players[u][1] = form[i].password

\* What the form and playerUsername hold at each step.
FormInv(i) ==
    /\ pc[i] \in {"signUpPassword", "addCheck", "insertPlayer"} =>
           ~Registered(form[i].name)
    /\ pc[i] \in {"profile", "logIn", "signUpName"} \union Stopped => form[i] = NoForm
    /\ pc[i] \notin InSession => user[i] = Guest
    /\ pc[i] \in InSession =>
           IF AccountSession(i) THEN /\ user[i] = form[i].name
                                     /\ Registered(user[i])
                                     /\ players[user[i]][1] = form[i].password
                                ELSE user[i] = Guest
    /\ pc[i] \notin {"crashed", "thrown"}

\* What is earned is on the board or being added to it.
CreditInv(i) ==
    /\ pc[i] \in Crediting => user[i] # Guest /\ credit[i].points \in Awards
    /\ pc[i] = "writePoints" =>
           credit[i].total = BoardPoints(user[i], credit[i].mode) + credit[i].points
    /\ \A u \in Names, m \in Modes : earned[u][m] <= MaxEarned
    /\ \A u \in Names \ {Guest}, m \in Modes :
           earned[u][m] = BoardPoints(u, m)
               + (IF CreditPending(i, u, m) THEN credit[i].points ELSE 0)

OneWindowInv == \A i \in Instances : AccountsInv(i) /\ FormInv(i) /\ CreditInv(i)
=============================================================================
