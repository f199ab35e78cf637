----------------------------- MODULE EventLoop -----------------------------
(***************************************************************************)
(* GameModel::listen, the frames it shows and the callbacks behind their   *)
(* options: the program as a loop that reads a number, runs the callback   *)
(* of the current frame with that number, and dispatches on the code the   *)
(* callback returned.                                                      *)
(*                                                                         *)
(* The login, sign-up and quiz callbacks wait for the player themselves,   *)
(* so calling one and its return are separate steps; every other callback  *)
(* returns within the step that calls it.                                  *)
(***************************************************************************)
EXTENDS Integers, Sequences

CONSTANTS
    Accounts,       \* names a login or a sign-up may end with
    Guest,          \* "guest", playerUsername's first value
    Options,        \* numbers a player may type
    UIntSize,       \* 2^32: an option, an int, reaches the frame as an unsigned int
    DatabaseThrows  \* whether opening a database file may throw

ASSUME AccountsAssumption == Guest \notin Accounts
ASSUME OptionsAssumption ==
    /\ UIntSize \in Nat /\ UIntSize >= 12   \* twice the longest menu's length
    /\ Options \subseteq -(UIntSize \div 2)..(UIntSize \div 2 - 1)
ASSUME ThrowsAssumption == DatabaseThrows \in BOOLEAN

\* Frame identifiers are the return codes that ask for the frame.
ANDMainMenu == 1
PlayerProfileScreen == 2
GameSelectionMenu == 3
FrogsAndFliesLeaderboardScreen == 4
MathTriviaLeaderboardScreen == 5
FrogsAndFliesMenu == 6
MathTriviaMenu == 7
TutorialScreen == 8
Frames == ANDMainMenu..TutorialScreen
CONTINUE == 0
TERMINATE == 2147483647

VARIABLES
    frame,    \* currentGameFrame, by its identifier
    code,     \* the returnCode of that frame's FrameControlHandler
    pc,       \* listening, the callback waiting for the player, or how it ended
    user,     \* GameModel::playerUsername
    musicToggle,
    playing   \* the background music is playing

vars == <<frame, code, pc, user, musicToggle, playing>>

TypeOK ==
    /\ frame \in Frames
    /\ code \in Frames \union {CONTINUE, TERMINATE}
    /\ pc \in {"listening", "logIn", "signUp", "quiz", "ended", "thrown"}
    /\ user \in Accounts \union {Guest}
    /\ musicToggle \in BOOLEAN /\ playing \in BOOLEAN

\* runAND up to listen: the main menu, its fresh handler's code, and the music
\* started by the intro.
Init ==
    /\ frame = ANDMainMenu
    /\ code = CONTINUE
    /\ pc = "listening"
    /\ user = Guest
    /\ musicToggle = TRUE
    /\ playing = TRUE

-----------------------------------------------------------------------------
(* The frames.  A control is what its option does: the code it returns, or a *)
(* procedure named by a string.                                             *)

Returns(c) == [does |-> "return", returns |-> c]
Does(what) == [does |-> what, returns |-> CONTINUE]

MainMenuControls ==
    << Returns(PlayerProfileScreen), Does("about"), Does("about"), Does("music"),
       Returns(TERMINATE) >>
ProfileControls ==
    << Does("logIn"), Does("signUp"), Returns(GameSelectionMenu), Does("music"),
       Returns(ANDMainMenu) >>
SelectionControls ==
    << Returns(FrogsAndFliesMenu), Returns(MathTriviaMenu),
       Returns(FrogsAndFliesLeaderboardScreen), Does("music"),
       Returns(TutorialScreen), Returns(PlayerProfileScreen) >>
FrogsAndFliesLeaderboardControls ==
    << Returns(MathTriviaLeaderboardScreen), Returns(GameSelectionMenu) >>
MathTriviaLeaderboardControls ==
    << Returns(FrogsAndFliesLeaderboardScreen), Returns(GameSelectionMenu) >>
ModeMenuControls ==
    << Does("quiz"), Does("quiz"), Does("quiz"), Does("music"),
       Returns(GameSelectionMenu) >>
TutorialControls ==
    << Does("video"), Does("video"), Returns(GameSelectionMenu) >>

Controls(f) ==
    CASE f = ANDMainMenu                    -> MainMenuControls
      [] f = PlayerProfileScreen            -> ProfileControls
      [] f = GameSelectionMenu              -> SelectionControls
      [] f = FrogsAndFliesLeaderboardScreen -> FrogsAndFliesLeaderboardControls
      [] f = MathTriviaLeaderboardScreen    -> MathTriviaLeaderboardControls
      [] f \in {FrogsAndFliesMenu, MathTriviaMenu} -> ModeMenuControls
      [] f = TutorialScreen                 -> TutorialControls

\* Mutant: a negative option stands for the first control.
IndexClamped(option) == IF option < 0 THEN 0 ELSE option

\* The int read is passed on as a controlID, an unsigned int.
Index(option) == option % UIntSize

\* callControlCallback's test, and the control it calls.
Accepts(f, option) == Index(option) < Len(Controls(f))
Control(f, option) == Controls(f)[Index(option) + 1]

-----------------------------------------------------------------------------
(* dispatchFrame on a code c, with playerUsername u.                        *)

\* Mutant: the new frame keeps the old handler.
ShowFrameSameHandler(c, u) ==
    /\ c \in Frames
    /\ frame' = c /\ code' = c
    /\ user' = IF c = PlayerProfileScreen THEN Guest ELSE u
    /\ pc' = "listening"

\* Mutant: the profile screen does not reset playerUsername.
ShowFrameKeepsName(c, u) ==
    /\ c \in Frames
    /\ frame' = c /\ code' = CONTINUE
    /\ user' = u
    /\ pc' = "listening"

\* A frame's code replaces the frame, whose new handler starts with CONTINUE.
\* A leaderboard is read from the database once its frame is the current one, so
\* that showing it may throw.
ShowFrame(c, u) ==
    /\ c \in Frames
    /\ frame' = c
    /\ code' = CONTINUE
    /\ user' = IF c = PlayerProfileScreen THEN Guest ELSE u
    /\ pc' = "listening"

DispatchThrows(c) ==
    /\ DatabaseThrows
    /\ c \in {FrogsAndFliesLeaderboardScreen, MathTriviaLeaderboardScreen}
    /\ frame' = c
    /\ code' = CONTINUE
    /\ pc' = "thrown"

\* Any other code but TERMINATE: the current frame is printed again.
PrintAgain(c, u) ==
    /\ c \notin Frames \union {TERMINATE}
    /\ frame' = frame
    /\ code' = c
    /\ user' = u
    /\ pc' = "listening"

\* TERMINATE ends listen, and with it the program; the frame stays.
StopListening(c, u) ==
    /\ c = TERMINATE
    /\ frame' = frame
    /\ code' = c
    /\ user' = u
    /\ pc' = "ended"

DispatchFrame(c, u) ==
    \/ ShowFrame(c, u) \/ PrintAgain(c, u)
    \/ DispatchThrows(c) /\ user' = u

\* What listen does with the code of a callback that has run.
Dispatch(c, u) == DispatchFrame(c, u) \/ StopListening(c, u)

-----------------------------------------------------------------------------
(* One turn of the loop.                                                    *)

\* toggleMusic sets the flag and starts or stops the sound.
ToggleMusic == musicToggle' = ~musicToggle /\ playing' = ~musicToggle

\* Mutant: the flag is cleared, the sound goes on.
MusicOffFlagOnly == musicToggle' = FALSE /\ UNCHANGED playing

\* A tutorial video turns the music off.
MusicOff == musicToggle' = FALSE /\ playing' = IF musicToggle THEN FALSE ELSE playing

\* A control's callback runs and listen dispatches on what it returned.
Option(option) ==
    /\ pc = "listening"
    /\ Accepts(frame, option)
    /\ LET control == Control(frame, option) IN
       \/ /\ control.does \in {"return", "about"}
          /\ Dispatch(control.returns, user)
          /\ UNCHANGED <<musicToggle, playing>>
       \/ /\ control.does = "music"
          /\ ToggleMusic
          /\ Dispatch(CONTINUE, user)
       \/ /\ control.does = "video"
          /\ MusicOff
          /\ Dispatch(CONTINUE, user)
       \/ /\ control.does \in {"logIn", "signUp", "quiz"}
          /\ pc' = control.does
          /\ UNCHANGED <<frame, code, user, musicToggle, playing>>

\* The option names no control: the code of the last callback is looked at
\* again, and the option is asked for again.  That code is not TERMINATE, whose
\* callback's own turn was the last.
InvalidOption(option) ==
    /\ pc = "listening"
    /\ ~Accepts(frame, option)
    /\ DispatchFrame(code, user)
    /\ UNCHANGED <<musicToggle, playing>>

\* One turn of listen, with the option typed.
Turn(option) == Option(option) \/ InvalidOption(option)

\* Mutant: the procedure returns no frame.
SessionBeginsUnseen ==
    /\ pc \in {"logIn", "signUp"}
    /\ \E u \in Accounts \union {Guest} : Dispatch(CONTINUE, u)
    /\ UNCHANGED <<musicToggle, playing>>

\* runLogInProcedure and runSignUpProcedure set playerUsername; a registered
\* player may also be called "guest".
SessionBegins ==
    /\ pc \in {"logIn", "signUp"}
    /\ \E u \in Accounts \union {Guest} : Dispatch(GameSelectionMenu, u)
    /\ UNCHANGED <<musicToggle, playing>>

\* runQuiz returns the frame chosen in its last menu, in either game mode.
QuizEnds ==
    /\ pc = "quiz"
    /\ \/ Dispatch(FrogsAndFliesLeaderboardScreen, user)
       \/ Dispatch(GameSelectionMenu, user)
    /\ UNCHANGED <<musicToggle, playing>>

\* A database the callback opens does not open, and main catches the exception;
\* or the callback indexes an empty result.  Either way the process ends.
CallbackThrows ==
    /\ DatabaseThrows
    /\ pc \in {"logIn", "signUp", "quiz"}
    /\ pc' = "thrown"
    /\ UNCHANGED <<frame, code, user, musicToggle, playing>>

\* The process has ended.
Ended == pc \in {"ended", "thrown"} /\ UNCHANGED vars

Next ==
    \/ \E option \in Options : Turn(option)
    \/ SessionBegins \/ QuizEnds \/ CallbackThrows \/ Ended

Spec == Init /\ [][Next]_vars

-----------------------------------------------------------------------------
(* Properties.                                                             *)

\* The code listen looks at after an invalid option is the last callback's.  It
\* never makes an invalid option leave the frame or end the program: whatever
\* sequence of options came before, the code at hand asks for nothing.
StaleCodeIsHarmless == pc = "listening" => code = CONTINUE

\* A player's name does not outlive the session: the screens before a login are
\* shown to the guest, whatever way led back to them.
NoSessionBeforeLogIn ==
    pc = "listening" /\ frame \in {ANDMainMenu, PlayerProfileScreen} => user = Guest

\* A number the menu on the screen does not have, negative ones included, neither
\* calls a callback nor asks for a frame: the number is converted to unsigned
\* before it is compared with the size of the menu, and what listen looks at
\* instead of a new return code is the code some earlier callback left behind.
OffMenuChangesNothing ==
    [][\A option \in Options :
          option \notin 0..(Len(Controls(frame)) - 1) => ~Turn(option)]_vars

\* The flag the music option toggles tells whether music is playing, also after
\* the tutorial's videos, which turn it off themselves.
MusicFlagIsTrue == musicToggle = playing

\* playerUsername changes only on the way into or out of the profile screen: the
\* points of a quiz go to the player who started it.
NameChangesAtProfile ==
    [][user' # user => frame = PlayerProfileScreen \/ frame' = PlayerProfileScreen]_vars
=============================================================================
