-------------------------- MODULE EventLoop_proofs --------------------------
(***************************************************************************)
(* Theorems about the event loop, for any accounts, any options typed, and  *)
(* whether or not databases open.                                           *)
(***************************************************************************)
EXTENDS EventLoop, TLAPS

\* Each waiting callback belongs to a control of the frame that is current.
WaitingInv ==
    /\ pc \in {"logIn", "signUp"} => frame = PlayerProfileScreen /\ user = Guest
    /\ pc = "quiz" => frame \in {FrogsAndFliesMenu, MathTriviaMenu}

LoopInv ==
    /\ TypeOK
    /\ StaleCodeIsHarmless
    /\ NoSessionBeforeLogIn
    /\ MusicFlagIsTrue
    /\ WaitingInv

LEMMA FrameIds ==
  /\ ANDMainMenu = 1 /\ PlayerProfileScreen = 2 /\ GameSelectionMenu = 3
  /\ FrogsAndFliesLeaderboardScreen = 4 /\ MathTriviaLeaderboardScreen = 5
  /\ FrogsAndFliesMenu = 6 /\ MathTriviaMenu = 7 /\ TutorialScreen = 8
  /\ Frames = 1..8 /\ CONTINUE = 0 /\ TERMINATE = 2147483647
  BY DEF ANDMainMenu, PlayerProfileScreen, GameSelectionMenu,
         FrogsAndFliesLeaderboardScreen, MathTriviaLeaderboardScreen,
         FrogsAndFliesMenu, MathTriviaMenu, TutorialScreen, Frames, CONTINUE, TERMINATE

\* An option that a frame accepts is the index of one of its controls.
LEMMA OptionIndex ==
  ASSUME NEW option \in Options
  PROVE  Index(option) \in Nat
<1>1. UIntSize \in Nat /\ option \in Int /\ UIntSize > 0
  BY OptionsAssumption
<1>2. QED
  BY <1>1 DEF Index

\* What a control may do, by frame.
May(f) ==
    CASE f = 1 -> {Returns(2), Returns(2147483647), Does("about"), Does("music")}
      [] f = 2 -> {Returns(3), Returns(1), Does("logIn"), Does("signUp"), Does("music")}
      [] f = 3 -> {Returns(6), Returns(7), Returns(4), Returns(8), Returns(2), Does("music")}
      [] f = 4 -> {Returns(5), Returns(3)}
      [] f = 5 -> {Returns(4), Returns(3)}
      [] f = 6 -> {Returns(3), Does("quiz"), Does("music")}
      [] f = 7 -> {Returns(3), Does("quiz"), Does("music")}
      [] f = 8 -> {Returns(3), Does("video")}

LEMMA ControlOf ==
  ASSUME NEW f \in Frames, NEW option \in Options, Accepts(f, option)
  PROVE  Control(f, option) \in May(f)
<1> DEFINE k == Index(option)
<1>1. k \in Nat /\ k < Len(Controls(f))
  BY OptionIndex DEF Accepts
<1> HIDE DEF k
<1>2. Control(f, option) = Controls(f)[k + 1]
  BY DEF Control, k
<1>3. CASE f = 1
  <2>1. Controls(f) = MainMenuControls
    BY <1>3, FrameIds DEF Controls
  <2>2. k \in 0..4
    BY <1>1, <2>1 DEF MainMenuControls
  <2>3. QED
    BY <1>2, <1>3, <2>1, <2>2, FrameIds DEF MainMenuControls, May
<1>4. CASE f = 2
  <2>1. Controls(f) = ProfileControls
    BY <1>4, FrameIds DEF Controls
  <2>2. k \in 0..4
    BY <1>1, <2>1 DEF ProfileControls
  <2>3. QED
    BY <1>2, <1>4, <2>1, <2>2, FrameIds DEF ProfileControls, May
<1>5. CASE f = 3
  <2>1. Controls(f) = SelectionControls
    BY <1>5, FrameIds DEF Controls
  <2>2. k \in 0..5
    BY <1>1, <2>1 DEF SelectionControls
  <2>3. QED
    BY <1>2, <1>5, <2>1, <2>2, FrameIds DEF SelectionControls, May
<1>6. CASE f = 4
  <2>1. Controls(f) = FrogsAndFliesLeaderboardControls
    BY <1>6, FrameIds DEF Controls
  <2>2. k \in 0..1
    BY <1>1, <2>1 DEF FrogsAndFliesLeaderboardControls
  <2>3. QED
    BY <1>2, <1>6, <2>1, <2>2, FrameIds DEF FrogsAndFliesLeaderboardControls, May
<1>7. CASE f = 5
  <2>1. Controls(f) = MathTriviaLeaderboardControls
    BY <1>7, FrameIds DEF Controls
  <2>2. k \in 0..1
    BY <1>1, <2>1 DEF MathTriviaLeaderboardControls
  <2>3. QED
    BY <1>2, <1>7, <2>1, <2>2, FrameIds DEF MathTriviaLeaderboardControls, May
<1>8. CASE f \in {6, 7}
  <2>1. Controls(f) = ModeMenuControls
    BY <1>8, FrameIds DEF Controls
  <2>2. k \in 0..4
    BY <1>1, <2>1 DEF ModeMenuControls
  <2>3. QED
    BY <1>2, <1>8, <2>1, <2>2, FrameIds DEF ModeMenuControls, May
<1>9. CASE f = 8
  <2>1. Controls(f) = TutorialControls
    BY <1>9, FrameIds DEF Controls
  <2>2. k \in 0..2
    BY <1>1, <2>1 DEF TutorialControls
  <2>3. QED
    BY <1>2, <1>9, <2>1, <2>2, FrameIds DEF TutorialControls, May
<1>10. QED
  BY <1>3, <1>4, <1>5, <1>6, <1>7, <1>8, <1>9, FrameIds

LEMMA MayDo ==
  ASSUME NEW f \in Frames, NEW c \in May(f)
  PROVE  /\ c.returns \in Frames \union {CONTINUE, TERMINATE}
         /\ c.returns = ANDMainMenu => f = PlayerProfileScreen
         /\ c.does \in {"logIn", "signUp"} => f = PlayerProfileScreen
         /\ c.does = "quiz" => f \in {FrogsAndFliesMenu, MathTriviaMenu}
<1> USE FrameIds
<1>1. CASE f = 1
  BY <1>1 DEF May, Returns, Does
<1>2. CASE f = 2
  BY <1>2 DEF May, Returns, Does
<1>3. CASE f = 3
  BY <1>3 DEF May, Returns, Does
<1>4. CASE f = 4
  BY <1>4 DEF May, Returns, Does
<1>5. CASE f = 5
  BY <1>5 DEF May, Returns, Does
<1>6. CASE f = 6
  BY <1>6 DEF May, Returns, Does
<1>7. CASE f = 7
  BY <1>7 DEF May, Returns, Does
<1>8. CASE f = 8
  BY <1>8 DEF May, Returns, Does
<1>9. QED
  BY <1>1, <1>2, <1>3, <1>4, <1>5, <1>6, <1>7, <1>8

-----------------------------------------------------------------------------
(* The invariant.                                                           *)

MusicInv == musicToggle \in BOOLEAN /\ playing \in BOOLEAN /\ MusicFlagIsTrue

Users == Accounts \union {Guest}

LEMMA LoopInit == Init => LoopInv
  BY FrameIds DEF Init, LoopInv, TypeOK, StaleCodeIsHarmless, NoSessionBeforeLogIn,
                  MusicFlagIsTrue, WaitingInv

\* dispatchFrame keeps the invariant for every code and name it is called with.
LEMMA DispatchStep ==
  ASSUME LoopInv, MusicInv',
         NEW c \in Frames \union {CONTINUE, TERMINATE}, NEW u \in Users,
         c = ANDMainMenu => u = Guest,
         c = CONTINUE => (frame \in {ANDMainMenu, PlayerProfileScreen} => u = Guest),
         Dispatch(c, u)
  PROVE  LoopInv'
<1> USE FrameIds
<1>1. frame \in Frames
  BY DEF LoopInv, TypeOK
<1>2. CASE ShowFrame(c, u)
  <2>1. /\ frame' = c /\ c \in Frames /\ code' = CONTINUE
        /\ pc' = "listening" /\ user' \in Users
        /\ c \in {ANDMainMenu, PlayerProfileScreen} => user' = Guest
    BY <1>2 DEF ShowFrame, Users
  <2>2. QED
    BY <2>1 DEF LoopInv, TypeOK, StaleCodeIsHarmless, NoSessionBeforeLogIn,
                MusicInv, WaitingInv, Users
<1>3. CASE PrintAgain(c, u)
  <2>1. /\ frame' = frame /\ c = CONTINUE /\ code' = CONTINUE
        /\ pc' = "listening" /\ user' = u
    BY <1>3 DEF PrintAgain
  <2>2. QED
    BY <1>1, <2>1 DEF LoopInv, TypeOK, StaleCodeIsHarmless, NoSessionBeforeLogIn,
                MusicInv, WaitingInv, Users
<1>4. CASE StopListening(c, u)
  <2>1. /\ frame' = frame /\ code' = TERMINATE
        /\ pc' = "ended" /\ user' = u
    BY <1>4 DEF StopListening
  <2>2. QED
    BY <1>1, <2>1 DEF LoopInv, TypeOK, StaleCodeIsHarmless, NoSessionBeforeLogIn,
                MusicInv, WaitingInv, Users
<1>5. CASE DispatchThrows(c) /\ user' = u
  <2>1. /\ frame' = c /\ c \in Frames /\ code' = CONTINUE
        /\ pc' = "thrown" /\ user' = u
    BY <1>5 DEF DispatchThrows
  <2>2. QED
    BY <2>1 DEF LoopInv, TypeOK, StaleCodeIsHarmless, NoSessionBeforeLogIn,
                MusicInv, WaitingInv, Users
<1>6. QED
  BY <1>2, <1>3, <1>4, <1>5 DEF Dispatch, DispatchFrame

\* The music's flag and its sound change together.
LEMMA MusicSteps ==
  ASSUME MusicInv, ToggleMusic \/ MusicOff \/ UNCHANGED <<musicToggle, playing>>
  PROVE  MusicInv'
<1>1. CASE ToggleMusic
  BY <1>1 DEF ToggleMusic, MusicInv, MusicFlagIsTrue
<1>2. CASE MusicOff
  BY <1>2 DEF MusicOff, MusicInv, MusicFlagIsTrue
<1>3. CASE UNCHANGED <<musicToggle, playing>>
  BY <1>3 DEF MusicInv, MusicFlagIsTrue
<1>4. QED
  BY <1>1, <1>2, <1>3

LEMMA MusicHolds == LoopInv => MusicInv
  BY DEF LoopInv, TypeOK, MusicInv

LEMMA InvalidOptionStep ==
  ASSUME LoopInv, NEW option \in Options, InvalidOption(option)
  PROVE  LoopInv'
<1>1. code = CONTINUE /\ user \in Users /\ Dispatch(code, user)
  BY DEF InvalidOption, LoopInv, TypeOK, StaleCodeIsHarmless, Users, Dispatch
<1>2. frame \in {ANDMainMenu, PlayerProfileScreen} => user = Guest
  BY DEF InvalidOption, LoopInv, NoSessionBeforeLogIn
<1>3. MusicInv'
  BY MusicHolds, MusicSteps DEF InvalidOption
<1>4. QED
  BY <1>1, <1>2, <1>3, DispatchStep, FrameIds

LEMMA OptionStep ==
  ASSUME LoopInv, NEW option \in Options, Option(option)
  PROVE  LoopInv'
<1> DEFINE control == Control(frame, option)
<1>1. /\ Accepts(frame, option)
      /\ \/ /\ control.does \in {"return", "about"}
            /\ Dispatch(control.returns, user)
            /\ UNCHANGED <<musicToggle, playing>>
         \/ /\ control.does = "music"
            /\ ToggleMusic
            /\ Dispatch(CONTINUE, user)
         \/ /\ control.does = "video"
            /\ MusicOff
            /\ Dispatch(CONTINUE, user)
         \/ /\ control.does \in {"logIn", "signUp", "quiz"}
            /\ pc' = control.does
            /\ UNCHANGED <<frame, code, user, musicToggle, playing>>
  BY DEF Option
<1>2. /\ frame \in Frames /\ user \in Users
      /\ frame \in {ANDMainMenu, PlayerProfileScreen} => user = Guest
  BY DEF Option, LoopInv, TypeOK, NoSessionBeforeLogIn, Users
<1>3. control \in May(frame)
  BY <1>1, <1>2, ControlOf
<1>4. /\ control.returns \in Frames \union {CONTINUE, TERMINATE}
      /\ control.returns = ANDMainMenu => frame = PlayerProfileScreen
      /\ control.does \in {"logIn", "signUp"} => frame = PlayerProfileScreen
      /\ control.does = "quiz" => frame \in {FrogsAndFliesMenu, MathTriviaMenu}
  BY <1>2, <1>3, MayDo
<1> HIDE DEF control
<1>5. CASE Dispatch(control.returns, user) /\ UNCHANGED <<musicToggle, playing>>
  <2>1. MusicInv'
    BY <1>5, MusicHolds, MusicSteps
  <2>2. QED
    BY <1>2, <1>4, <1>5, <2>1, DispatchStep
<1>6. CASE (ToggleMusic \/ MusicOff) /\ Dispatch(CONTINUE, user)
  <2>1. MusicInv'
    BY <1>6, MusicHolds, MusicSteps
  <2>2. QED
    BY <1>2, <1>6, <2>1, DispatchStep, FrameIds
<1>7. CASE /\ control.does \in {"logIn", "signUp", "quiz"}
           /\ pc' = control.does
           /\ UNCHANGED <<frame, code, user, musicToggle, playing>>
  <2>1. TypeOK'
    BY <1>7 DEF LoopInv, TypeOK
  <2>2. /\ pc' \in {"logIn", "signUp"} => frame = PlayerProfileScreen
        /\ pc' = "quiz" => frame \in {FrogsAndFliesMenu, MathTriviaMenu}
        /\ pc' # "listening"
    BY <1>4, <1>7
  <2>3. QED
    BY <1>2, <1>7, <2>1, <2>2 DEF LoopInv, StaleCodeIsHarmless, NoSessionBeforeLogIn,
                MusicFlagIsTrue, WaitingInv
<1>8. QED
  BY <1>1, <1>5, <1>6, <1>7

LEMMA LoopStep == LoopInv /\ [Next]_vars => LoopInv'
<1> SUFFICES ASSUME LoopInv, [Next]_vars PROVE LoopInv'
  OBVIOUS
<1>1. CASE SessionBegins
  <2>1. PICK u \in Users : Dispatch(GameSelectionMenu, u)
    BY <1>1 DEF SessionBegins, Users
  <2>2. MusicInv'
    BY <1>1, MusicHolds, MusicSteps DEF SessionBegins
  <2>3. QED
    BY <2>1, <2>2, DispatchStep, FrameIds
<1>2. CASE QuizEnds
  <2>1. PICK c \in {FrogsAndFliesLeaderboardScreen, GameSelectionMenu} : Dispatch(c, user)
    BY <1>2 DEF QuizEnds
  <2>2. MusicInv'
    BY <1>2, MusicHolds, MusicSteps DEF QuizEnds
  <2>3. user \in Users
    BY DEF LoopInv, TypeOK, Users
  <2>4. QED
    BY <2>1, <2>2, <2>3, DispatchStep, FrameIds
<1>3. CASE CallbackThrows
  BY <1>3 DEF CallbackThrows, LoopInv, TypeOK, StaleCodeIsHarmless,
              NoSessionBeforeLogIn, MusicFlagIsTrue, WaitingInv
<1>4. CASE Ended \/ UNCHANGED vars
  BY <1>4 DEF Ended, vars, LoopInv, TypeOK, StaleCodeIsHarmless,
              NoSessionBeforeLogIn, MusicFlagIsTrue, WaitingInv
<1>5. QED
  BY <1>1, <1>2, <1>3, <1>4, InvalidOptionStep, OptionStep DEF Next, Turn

LEMMA LoopAlways == Spec => []LoopInv
  BY LoopInit, LoopStep, PTL DEF Spec

\* Looking again at the last callback's code asks for nothing.
THEOREM LoopStaleCodeIsHarmless == Spec => []StaleCodeIsHarmless
  BY LoopAlways, PTL DEF LoopInv

\* Before a login the player is the guest.
THEOREM LoopNoSessionBeforeLogIn == Spec => []NoSessionBeforeLogIn
  BY LoopAlways, PTL DEF LoopInv

\* A menu has at most six controls.
LEMMA MenuLength ==
  ASSUME NEW f \in Frames
  PROVE  Len(Controls(f)) \in 2..6
<1> USE FrameIds
<1>1. CASE f = 1
  BY <1>1 DEF Controls, MainMenuControls
<1>2. CASE f = 2
  BY <1>2 DEF Controls, ProfileControls
<1>3. CASE f = 3
  BY <1>3 DEF Controls, SelectionControls
<1>4. CASE f = 4
  BY <1>4 DEF Controls, FrogsAndFliesLeaderboardControls
<1>5. CASE f = 5
  BY <1>5 DEF Controls, MathTriviaLeaderboardControls
<1>6. CASE f \in {6, 7}
  BY <1>6 DEF Controls, ModeMenuControls
<1>7. CASE f = 8
  BY <1>7 DEF Controls, TutorialControls
<1>8. QED
  BY <1>1, <1>2, <1>3, <1>4, <1>5, <1>6, <1>7

\* Converted to unsigned, an option outside a menu is still outside it.
LEMMA OffMenuIndex ==
  ASSUME NEW f \in Frames, NEW option \in Options,
         option \notin 0..(Len(Controls(f)) - 1)
  PROVE  ~Accepts(f, option)
<1> DEFINE half == UIntSize \div 2
<1>1. /\ UIntSize \in Nat /\ UIntSize >= 12
      /\ half \in Nat /\ half >= 6 /\ 2 * half <= UIntSize
      /\ option \in Int /\ -half <= option /\ option < half
  BY OptionsAssumption
<1> HIDE DEF half
<1>2. Len(Controls(f)) \in 2..6
  BY MenuLength
<1>3. CASE option >= 0
  <2>1. option % UIntSize = option
    BY <1>1, <1>3
  <2>2. QED
    BY <1>1, <1>2, <1>3, <2>1 DEF Accepts, Index
<1>4. CASE option < 0
  <2>1. option % UIntSize = option + UIntSize
    BY <1>1, <1>4
  <2>2. option + UIntSize >= 6
    BY <1>1
  <2>3. Index(option) >= 6 /\ Index(option) \in Int
    BY <1>1, <2>1, <2>2 DEF Index
  <2>4. ASSUME NEW n \in 2..6, NEW k \in Int, k >= 6
        PROVE  ~(k < n)
    BY <2>4
  <2>5. QED
    BY <1>2, <2>3, <2>4 DEF Accepts
<1>5. QED
  BY <1>1, <1>3, <1>4

\* An option outside the menu changes nothing.
THEOREM LoopOffMenuChangesNothing == Spec => OffMenuChangesNothing
<1>1. ASSUME LoopInv, NEW option \in Options, Turn(option),
             option \notin 0..(Len(Controls(frame)) - 1)
      PROVE  UNCHANGED vars
  <2>1. ~Accepts(frame, option)
    BY <1>1, OffMenuIndex DEF LoopInv, TypeOK
  <2>2. /\ InvalidOption(option)
        /\ code = CONTINUE /\ pc = "listening"
    BY <1>1, <2>1 DEF Turn, Option, InvalidOption, LoopInv, StaleCodeIsHarmless
  <2>3. PrintAgain(CONTINUE, user)
    BY <2>2, FrameIds DEF InvalidOption, DispatchFrame, ShowFrame, DispatchThrows
  <2>4. QED
    BY <2>2, <2>3 DEF PrintAgain, InvalidOption, vars
<1>2. LoopInv => [\A option \in Options :
                     option \notin 0..(Len(Controls(frame)) - 1) => ~Turn(option)]_vars
  BY <1>1
<1>3. QED
  BY <1>2, LoopAlways, PTL DEF OffMenuChangesNothing

\* The music flag is right about the music.
THEOREM LoopMusicFlagIsTrue == Spec => []MusicFlagIsTrue
  BY LoopAlways, PTL DEF LoopInv

\* A player's name changes only at the profile screen.
THEOREM LoopNameChangesAtProfile == Spec => NameChangesAtProfile
<1>1. ASSUME LoopInv, [Next]_vars, user' # user
      PROVE  frame = PlayerProfileScreen \/ frame' = PlayerProfileScreen
  <2>1. ASSUME NEW c, Dispatch(c, user)
        PROVE  frame' = PlayerProfileScreen
    BY <1>1, <2>1 DEF Dispatch, DispatchFrame, ShowFrame, PrintAgain, StopListening
  <2>2. CASE SessionBegins
    BY <2>2, <1>1 DEF SessionBegins, LoopInv, WaitingInv
  <2>3. CASE QuizEnds
    BY <2>1, <2>3 DEF QuizEnds
  <2>4. ASSUME NEW option \in Options, InvalidOption(option)
        PROVE  frame' = PlayerProfileScreen
    BY <2>1, <2>4 DEF InvalidOption, Dispatch
  <2>5. ASSUME NEW option \in Options, Option(option)
        PROVE  frame' = PlayerProfileScreen
    BY <1>1, <2>1, <2>5 DEF Option
  <2>6. QED
    BY <1>1, <2>2, <2>3, <2>4, <2>5 DEF Next, Turn, CallbackThrows, Ended, vars
<1>2. QED
  BY <1>1, LoopAlways, PTL DEF Spec, NameChangesAtProfile
=============================================================================
