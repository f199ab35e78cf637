-------------------------------- MODULE Game --------------------------------
(***************************************************************************)
(* One window of A.N.D as a whole: the event loop with its frames          *)
(* (EventLoop), the accounts and points behind its login, sign-up and quiz *)
(* callbacks (PlayerStore), and the rounds of a quiz (Round, which Quiz    *)
(* implements).                                                            *)
(*                                                                         *)
(* Each component keeps variables of its own, playerUsername among them,   *)
(* which the loop and the store both have: what one sets in a callback and *)
(* the other resets in dispatchFrame has to agree.  A step is one of one   *)
(* component, or one that several take together because one call of the    *)
(* program is in both.                                                     *)
(***************************************************************************)
EXTENDS PlayerStore, Integers

CONSTANTS
    Window,          \* the one window
    FrogsAndFlies, MathTrivia,
    Options, UIntSize,  \* EventLoop's
    Top, Size, Worth    \* Round's

ASSUME OneWindow == Instances = {Window}
ASSUME OptionsAssumption == UIntSize \in Nat \ {0} /\ Options \subseteq Int
ASSUME RoundsAssumption ==
    /\ Top \in Nat \ {0}
    /\ \A l \in 1..Top : \A right \in 0..Size[l] : right * Worth[l] \in Awards
ASSUME TwoModes == Modes = {FrogsAndFlies, MathTrivia} /\ FrogsAndFlies # MathTrivia

VARIABLES
    frame, code, loop, name, musicToggle, playing,  \* EventLoop's
    stage, level, paid                                     \* Round's

storeVars == vars
loopVars  == <<frame, code, loop, name, musicToggle, playing>>
roundVars == <<stage, level, paid>>
gameVars  == <<storeVars, loopVars, roundVars>>

E == INSTANCE EventLoop WITH
        Accounts <- Names \ {Guest}, DatabaseThrows <- TRUE, pc <- loop, user <- name

R == INSTANCE Round

GameTypeOK ==
    /\ TypeOK
    /\ E!TypeOK
    /\ stage \in {"idle", "round", "settled", "over"}
    /\ level \in R!Levels /\ paid \in Nat

\* No process: nothing of a window's memory is left.
GameInit ==
    /\ Init
    /\ frame = E!ANDMainMenu /\ code = E!CONTINUE /\ loop = "ended" /\ name = Guest
    /\ musicToggle = TRUE /\ playing = TRUE
    /\ R!Init

\* The memory of a new process, or of none.
NewMemory(step) ==
    /\ frame' = E!ANDMainMenu /\ code' = E!CONTINUE /\ loop' = step /\ name' = Guest
    /\ musicToggle' = TRUE /\ playing' = TRUE
    /\ stage' = "idle" /\ level' = 1 /\ paid' = 0

-----------------------------------------------------------------------------
(* The loop and the store.                                                 *)

SessionFrame(f) == f \notin {E!ANDMainMenu, E!PlayerProfileScreen}

StartProcess == Start(Window) /\ NewMemory("listening")

MenuStep == loop = "listening" /\ \E option \in Options : E!Turn(option)

\* Options that keep to one side of the login, and never reach the databases.
Browse ==
    /\ MenuStep
    /\ loop' = "listening"
    /\ SessionFrame(frame') = SessionFrame(frame)
    /\ UNCHANGED <<storeVars, roundVars>>

\* The profile screen's first three options.
LeaveProfile ==
    /\ ChooseForm(Window)
    /\ MenuStep
    /\ \/ loop' = "logIn" /\ pc'[Window] = "logIn"
       \/ loop' = "signUp" /\ pc'[Window] = "signUpName"
       \/ /\ loop' = "listening" /\ SessionFrame(frame') /\ pc'[Window] = "playing"
    /\ UNCHANGED roundVars

\* The forms ask for what they need, and a sign-up makes its first INSERT.
FillForm ==
    /\ SignUpName(Window) \/ SignUpPassword(Window) \/ AddCheck(Window) \/ InsertPlayer(Window)
    /\ pc'[Window] # "playing"
    /\ UNCHANGED <<loopVars, roundVars>>

\* A login or sign-up sets playerUsername and returns the selection menu.
EnterSession ==
    /\ LogIn(Window) \/ AddCheck(Window) \/ InsertBoard(Window)
    /\ pc'[Window] = "playing"
    /\ E!SessionBegins
    /\ name' = user'[Window]
    /\ UNCHANGED roundVars

ReturnToProfile ==
    /\ SessionFrame(frame)
    /\ MenuStep
    /\ loop' = "listening" /\ ~SessionFrame(frame')
    /\ LogOut(Window)
    /\ UNCHANGED roundVars

LeaveGame == Exit(Window) /\ MenuStep /\ loop' = "ended" /\ UNCHANGED roundVars

-----------------------------------------------------------------------------
(* The quiz.                                                               *)

StartQuiz == MenuStep /\ loop' = "quiz" /\ R!Begin /\ UNCHANGED storeVars

\* Mutant: both menus pass one game mode.
ModeOfSame(f) == FrogsAndFlies

\* The game mode a mode menu passes to runQuiz.
ModeOf(f) == IF f = E!FrogsAndFliesMenu THEN FrogsAndFlies ELSE MathTrivia

\* A round is over and updatePlayerPoints is called with its points.
Settle ==
    /\ loop = "quiz" /\ pc[Window] = "playing"
    /\ R!Settle
    /\ CallUpdatePlayerPoints(Window, ModeOf(frame), paid')
    /\ UNCHANGED loopVars

StorePoints ==
    /\ ReadPoints(Window) \/ WritePoints(Window)
    /\ pc'[Window] \notin Stopped
    /\ UNCHANGED <<loopVars, roundVars>>

\* updatePlayerPoints has returned, and the quiz's last menu is left or played on.
PlayOn ==
    /\ loop = "quiz" /\ pc[Window] = "playing"
    /\ R!Again
    /\ UNCHANGED <<storeVars, loopVars>>

LeaveQuiz ==
    /\ pc[Window] = "playing"
    /\ R!Leave
    /\ E!QuizEnds
    /\ loop' = "listening"
    /\ UNCHANGED storeVars

-----------------------------------------------------------------------------
(* The ways a process ends early.                                          *)

\* An exception or an empty result in a callback; the round it was in is lost.
CallbackEnds ==
    /\ E!CallbackThrows
    /\ OpenThrows(Window) \/ LogInFaults(Window) \/ ReadPoints(Window)
    /\ pc'[Window] \in {"thrown", "crashed"}
    /\ IF loop = "quiz"
         THEN R!Stop /\ (stage = "round" \/ pc[Window] = "readPoints")
         ELSE UNCHANGED roundVars

\* A leaderboard's database does not open while dispatchFrame shows it.
DisplayEnds ==
    /\ OpenThrows(Window)
    /\ \/ MenuStep /\ UNCHANGED roundVars
       \/ E!QuizEnds /\ R!Leave
    /\ loop' = "thrown"

CloseWindow == Close(Window) /\ NewMemory("ended")

GameNext ==
    \/ StartProcess \/ Browse \/ LeaveProfile \/ FillForm \/ EnterSession
    \/ ReturnToProfile \/ LeaveGame \/ StartQuiz \/ Settle \/ StorePoints
    \/ PlayOn \/ LeaveQuiz \/ CallbackEnds \/ DisplayEnds \/ CloseWindow

GameSpec == GameInit /\ [][GameNext]_gameVars

-----------------------------------------------------------------------------
(* Properties.                                                             *)

\* The loop waits in the callback whose procedure is at work, and listens only
\* when none is: no step of a procedure is left over when its callback has
\* returned, and nobody is in a session whose frames do not show one.
StepsMatch ==
    CASE loop = "listening" ->
             pc[Window] = IF SessionFrame(frame) THEN "playing" ELSE "profile"
      [] loop = "logIn"  -> pc[Window] = "logIn"
      [] loop = "signUp" -> pc[Window] \in {"signUpName", "signUpPassword"} \union InSignUp
      [] loop = "quiz"   -> pc[Window] \in {"playing"} \union Crediting
      [] OTHER           -> pc[Window] \in Stopped

\* The name dispatchFrame resets is the name the login set and the credit goes by.
SamePlayer == loop \in {"listening", "quiz"} => name = user[Window]

\* Points appear on a leaderboard only while a quiz runs, in the row of the player
\* who is logged in, in the column of the menu the quiz was started from, and as
\* many as the round was worth.
PointsFromOwnRound ==
    [][\A u \in Names, m \in Modes :
          BoardPoints(u, m)' # BoardPoints(u, m) =>
              /\ loop = "quiz" /\ stage = "settled"
              /\ u = name
              /\ (m = FrogsAndFlies) = (frame = E!FrogsAndFliesMenu)
              /\ BoardPoints(u, m)' = BoardPoints(u, m) + paid]_gameVars
=============================================================================
