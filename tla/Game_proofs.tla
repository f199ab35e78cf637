---------------------------- MODULE Game_proofs ----------------------------
(***************************************************************************)
(* Proofs about Game, for any names, options and rounds, and any faults.   *)
(***************************************************************************)
EXTENDS Game, PlayerStore_proofs

-----------------------------------------------------------------------------
(* The frames and their controls.                                          *)

LEMMA FrameIds ==
  /\ E!ANDMainMenu = 1 /\ E!PlayerProfileScreen = 2 /\ E!GameSelectionMenu = 3
  /\ E!FrogsAndFliesLeaderboardScreen = 4 /\ E!MathTriviaLeaderboardScreen = 5
  /\ E!FrogsAndFliesMenu = 6 /\ E!MathTriviaMenu = 7 /\ E!TutorialScreen = 8
  /\ E!Frames = 1..8 /\ E!CONTINUE = 0 /\ E!TERMINATE = 2147483647
  BY DEF E!ANDMainMenu, E!PlayerProfileScreen, E!GameSelectionMenu,
         E!FrogsAndFliesLeaderboardScreen, E!MathTriviaLeaderboardScreen,
         E!FrogsAndFliesMenu, E!MathTriviaMenu, E!TutorialScreen, E!Frames,
          E!CONTINUE, E!TERMINATE

\* An option that a frame accepts is the index of one of its controls.
LEMMA OptionIndex ==
  ASSUME NEW option \in Options
  PROVE  E!Index(option) \in Nat
<1>1. UIntSize \in Nat /\ option \in Int /\ UIntSize > 0
  BY OptionsAssumption
<1>2. QED
  BY <1>1 DEF E!Index

\* What a control may do, by frame.
May(f) ==
    CASE f = 1 -> {E!Returns(2), E!Returns(2147483647), E!Does("about"), E!Does("music")}
      [] f = 2 -> {E!Returns(3), E!Returns(1), E!Does("logIn"), E!Does("signUp"),
                   E!Does("music")}
      [] f = 3 -> {E!Returns(6), E!Returns(7), E!Returns(4), E!Returns(8), E!Returns(2),
                   E!Does("music")}
      [] f = 4 -> {E!Returns(5), E!Returns(3)}
      [] f = 5 -> {E!Returns(4), E!Returns(3)}
      [] f = 6 -> {E!Returns(3), E!Does("quiz"), E!Does("music")}
      [] f = 7 -> {E!Returns(3), E!Does("quiz"), E!Does("music")}
      [] f = 8 -> {E!Returns(3), E!Does("video")}

LEMMA ControlOf ==
  ASSUME NEW f \in E!Frames, NEW option \in Options, E!Accepts(f, option)
  PROVE  E!Control(f, option) \in May(f)
<1> DEFINE k == E!Index(option)
<1>1. k \in Nat /\ k < Len(E!Controls(f))
  BY OptionIndex DEF E!Accepts
<1> HIDE DEF k
<1>2. E!Control(f, option) = E!Controls(f)[k + 1]
  BY DEF E!Control, k
<1>3. CASE f = 1
  <2>1. E!Controls(f) = E!MainMenuControls
    BY <1>3, FrameIds DEF E!Controls
  <2>2. k \in 0..4
    BY <1>1, <2>1 DEF E!MainMenuControls
  <2>3. QED
    BY <1>2, <1>3, <2>1, <2>2, FrameIds DEF E!MainMenuControls, May
<1>4. CASE f = 2
  <2>1. E!Controls(f) = E!ProfileControls
    BY <1>4, FrameIds DEF E!Controls
  <2>2. k \in 0..4
    BY <1>1, <2>1 DEF E!ProfileControls
  <2>3. QED
    BY <1>2, <1>4, <2>1, <2>2, FrameIds DEF E!ProfileControls, May
<1>5. CASE f = 3
  <2>1. E!Controls(f) = E!SelectionControls
    BY <1>5, FrameIds DEF E!Controls
  <2>2. k \in 0..5
    BY <1>1, <2>1 DEF E!SelectionControls
  <2>3. QED
    BY <1>2, <1>5, <2>1, <2>2, FrameIds DEF E!SelectionControls, May
<1>6. CASE f = 4
  <2>1. E!Controls(f) = E!FrogsAndFliesLeaderboardControls
    BY <1>6, FrameIds DEF E!Controls
  <2>2. k \in 0..1
    BY <1>1, <2>1 DEF E!FrogsAndFliesLeaderboardControls
  <2>3. QED
    BY <1>2, <1>6, <2>1, <2>2, FrameIds DEF E!FrogsAndFliesLeaderboardControls, May
<1>7. CASE f = 5
  <2>1. E!Controls(f) = E!MathTriviaLeaderboardControls
    BY <1>7, FrameIds DEF E!Controls
  <2>2. k \in 0..1
    BY <1>1, <2>1 DEF E!MathTriviaLeaderboardControls
  <2>3. QED
    BY <1>2, <1>7, <2>1, <2>2, FrameIds DEF E!MathTriviaLeaderboardControls, May
<1>8. CASE f \in {6, 7}
  <2>1. E!Controls(f) = E!ModeMenuControls
    BY <1>8, FrameIds DEF E!Controls
  <2>2. k \in 0..4
    BY <1>1, <2>1 DEF E!ModeMenuControls
  <2>3. QED
    BY <1>2, <1>8, <2>1, <2>2, FrameIds DEF E!ModeMenuControls, May
<1>9. CASE f = 8
  <2>1. E!Controls(f) = E!TutorialControls
    BY <1>9, FrameIds DEF E!Controls
  <2>2. k \in 0..2
    BY <1>1, <2>1 DEF E!TutorialControls
  <2>3. QED
    BY <1>2, <1>9, <2>1, <2>2, FrameIds DEF E!TutorialControls, May
<1>10. QED
  BY <1>3, <1>4, <1>5, <1>6, <1>7, <1>8, <1>9, FrameIds

LEMMA MayDo ==
  ASSUME NEW f \in E!Frames, NEW c \in May(f)
  PROVE  /\ c.returns \in E!Frames \union {E!CONTINUE, E!TERMINATE}
         /\ c.returns = E!ANDMainMenu => f = E!PlayerProfileScreen
         /\ c.does \in {"logIn", "signUp"} => f = E!PlayerProfileScreen
         /\ c.does = "quiz" => f \in {E!FrogsAndFliesMenu, E!MathTriviaMenu}
<1> USE FrameIds
<1>1. CASE f = 1
  BY <1>1 DEF May, E!Returns, E!Does
<1>2. CASE f = 2
  BY <1>2 DEF May, E!Returns, E!Does
<1>3. CASE f = 3
  BY <1>3 DEF May, E!Returns, E!Does
<1>4. CASE f = 4
  BY <1>4 DEF May, E!Returns, E!Does
<1>5. CASE f = 5
  BY <1>5 DEF May, E!Returns, E!Does
<1>6. CASE f = 6
  BY <1>6 DEF May, E!Returns, E!Does
<1>7. CASE f = 7
  BY <1>7 DEF May, E!Returns, E!Does
<1>8. CASE f = 8
  BY <1>8 DEF May, E!Returns, E!Does
<1>9. QED
  BY <1>1, <1>2, <1>3, <1>4, <1>5, <1>6, <1>7, <1>8

-----------------------------------------------------------------------------
(* The invariant.                                                          *)

\* EventLoop's part: no callback's code is left over, the screens before a login are
\* the guest's, and a callback at work was called from its own frame.
LoopInv ==
    /\ E!TypeOK
    /\ loop = "listening" => code = E!CONTINUE
    /\ loop = "listening" /\ ~SessionFrame(frame) => name = Guest
    /\ loop \in {"logIn", "signUp"} => frame = E!PlayerProfileScreen
    /\ loop = "quiz" => frame \in {E!FrogsAndFliesMenu, E!MathTriviaMenu}

\* What is being credited is the round that was settled, and once the points have
\* been read the new total is theirs and the round's.
CreditedRound ==
    /\ pc[Window] \in Crediting =>
         /\ stage = "settled"
         /\ credit[Window].mode = ModeOf(frame) /\ credit[Window].points = paid
    /\ pc[Window] = "writePoints" =>
         /\ board[user[Window]] # <<>>
         /\ credit[Window].total = BoardPoints(user[Window], ModeOf(frame)) + paid

\* A process that has ended left no name behind for the next.
EndedIsGuest == pc[Window] \in Stopped => user[Window] = Guest

RoundTypes ==
    /\ stage \in {"idle", "round", "settled", "over"}
    /\ level \in R!Levels /\ paid \in Nat

GameInv ==
    /\ TypeInv /\ RoundTypes /\ LoopInv
    /\ StepsMatch /\ SamePlayer /\ CreditedRound /\ EndedIsGuest

LEMMA GameInvInit == GameInit => GameInv
<1> SUFFICES ASSUME GameInit PROVE GameInv
  OBVIOUS
<1>1. TypeInv /\ pc[Window] = "closed"
  BY TypeInit, OneWindow DEF GameInit, Init
<1>2. RoundTypes
  BY RoundsAssumption DEF GameInit, R!Init, RoundTypes, R!Levels
<1>3. LoopInv /\ loop = "ended"
  BY FrameIds, NamesAssumption DEF GameInit, LoopInv, E!TypeOK
<1>4. StepsMatch /\ SamePlayer /\ CreditedRound
  BY <1>1, <1>3 DEF StepsMatch, SamePlayer, CreditedRound, Stopped, Crediting
<1>5. EndedIsGuest
  BY OneWindow DEF GameInit, Init, EndedIsGuest
<1>6. QED
  BY <1>1, <1>2, <1>3, <1>4, <1>5 DEF GameInv

-----------------------------------------------------------------------------
(* Where a dispatch leaves the loop.                                       *)

MusicTypes == musicToggle \in BOOLEAN /\ playing \in BOOLEAN

\* What the dispatch on c for player u leads to.
Reached(c, u) ==
    /\ LoopInv' /\ loop' \in {"listening", "ended", "thrown"}
    /\ loop' = "listening" =>
         \/ /\ c \in E!Frames /\ frame' = c
            /\ name' = IF c = E!PlayerProfileScreen THEN Guest ELSE u
         \/ c = E!CONTINUE /\ frame' = frame /\ name' = u

LEMMA DispatchReaches ==
  ASSUME E!TypeOK, MusicTypes',
         NEW c \in E!Frames \union {E!CONTINUE, E!TERMINATE}, NEW u \in Names,
         c = E!ANDMainMenu => u = Guest,
         c = E!CONTINUE /\ ~SessionFrame(frame) => u = Guest,
         E!Dispatch(c, u)
  PROVE  Reached(c, u)
<1> USE FrameIds, NamesAssumption
<1>1. frame \in E!Frames
  BY DEF E!TypeOK
<1>2. CASE E!ShowFrame(c, u)
  <2>1. /\ frame' = c /\ c \in E!Frames /\ code' = E!CONTINUE
        /\ loop' = "listening" /\ name' \in Names
        /\ name' = IF c = E!PlayerProfileScreen THEN Guest ELSE u
    BY <1>2 DEF E!ShowFrame
  <2>2. QED
    BY <2>1 DEF Reached, LoopInv, E!TypeOK, MusicTypes, SessionFrame
<1>3. CASE E!PrintAgain(c, u)
  <2>1. /\ frame' = frame /\ c = E!CONTINUE /\ code' = E!CONTINUE
        /\ loop' = "listening" /\ name' = u
    BY <1>3 DEF E!PrintAgain
  <2>2. QED
    BY <1>1, <2>1 DEF Reached, LoopInv, E!TypeOK, MusicTypes, SessionFrame
<1>4. CASE E!StopListening(c, u)
  <2>1. /\ frame' = frame /\ code' = E!TERMINATE
        /\ loop' = "ended" /\ name' = u
    BY <1>4 DEF E!StopListening
  <2>2. QED
    BY <1>1, <2>1 DEF Reached, LoopInv, E!TypeOK, MusicTypes, SessionFrame
<1>5. CASE E!DispatchThrows(c) /\ name' = u
  <2>1. /\ frame' = c /\ c \in E!Frames /\ code' = E!CONTINUE
        /\ loop' = "thrown" /\ name' = u
    BY <1>5 DEF E!DispatchThrows
  <2>2. QED
    BY <2>1 DEF Reached, LoopInv, E!TypeOK, MusicTypes, SessionFrame
<1>6. QED
  BY <1>2, <1>3, <1>4, <1>5 DEF E!Dispatch, E!DispatchFrame

\* What an option, accepted or not, leads to.
MenuReached ==
    /\ LoopInv' /\ loop' \in {"listening", "ended", "thrown", "logIn", "signUp", "quiz"}
    /\ loop' = "listening" =>
         /\ name' = name \/ (frame' = E!PlayerProfileScreen /\ name' = Guest)
         /\ ~SessionFrame(frame') => name' = Guest
    /\ loop' = "quiz" => SessionFrame(frame) /\ name' = name

LEMMA MenuReaches == ASSUME LoopInv, MenuStep PROVE MenuReached
<1>1. /\ loop = "listening" /\ frame \in E!Frames /\ code = E!CONTINUE /\ name \in Names
      /\ ~SessionFrame(frame) => name = Guest
  BY NamesAssumption DEF MenuStep, E!Turn, E!Option, E!InvalidOption, LoopInv, E!TypeOK
<1>2. ASSUME NEW c \in E!Frames \union {E!CONTINUE, E!TERMINATE}, E!Dispatch(c, name),
             c = E!ANDMainMenu => frame = E!PlayerProfileScreen, MusicTypes'
      PROVE  MenuReached
  <2>1. c = E!ANDMainMenu => name = Guest
    BY <1>1, <1>2 DEF SessionFrame
  <2>2. Reached(c, name)
    BY <1>1, <1>2, <2>1, DispatchReaches DEF LoopInv
  <2>3. QED
    BY <1>1, <2>1, <2>2, FrameIds DEF Reached, MenuReached, SessionFrame
<1>3. ASSUME NEW option \in Options, E!InvalidOption(option)
      PROVE  MenuReached
  <2>1. E!Dispatch(code, name) /\ MusicTypes'
    BY <1>3 DEF E!InvalidOption, E!Dispatch, LoopInv, E!TypeOK, MusicTypes
  <2>2. QED
    BY <1>1, <1>2, <2>1, FrameIds
<1>4. ASSUME NEW option \in Options, E!Option(option)
      PROVE  MenuReached
  <2> DEFINE control == E!Control(frame, option)
  <2>1. /\ E!Accepts(frame, option)
        /\ \/ /\ control.does \in {"return", "about"}
              /\ E!Dispatch(control.returns, name)
              /\ UNCHANGED <<musicToggle, playing>>
           \/ /\ control.does = "music"
              /\ E!ToggleMusic
              /\ E!Dispatch(E!CONTINUE, name)
           \/ /\ control.does = "video"
              /\ E!MusicOff
              /\ E!Dispatch(E!CONTINUE, name)
           \/ /\ control.does \in {"logIn", "signUp", "quiz"}
              /\ loop' = control.does
              /\ UNCHANGED <<frame, code, name, musicToggle, playing>>
    BY <1>4 DEF E!Option
  <2>2. control \in May(frame)
    BY <1>1, <2>1, ControlOf
  <2>3. /\ control.returns \in E!Frames \union {E!CONTINUE, E!TERMINATE}
        /\ control.returns = E!ANDMainMenu => frame = E!PlayerProfileScreen
        /\ control.does \in {"logIn", "signUp"} => frame = E!PlayerProfileScreen
        /\ control.does = "quiz" => frame \in {E!FrogsAndFliesMenu, E!MathTriviaMenu}
    BY <1>1, <2>2, MayDo
  <2> HIDE DEF control
  <2>4. musicToggle \in BOOLEAN /\ playing \in BOOLEAN
    BY DEF LoopInv, E!TypeOK
  <2>5. CASE E!Dispatch(control.returns, name) /\ UNCHANGED <<musicToggle, playing>>
    BY <1>2, <2>3, <2>4, <2>5 DEF MusicTypes
  <2>6. CASE (E!ToggleMusic \/ E!MusicOff) /\ E!Dispatch(E!CONTINUE, name)
    <3>1. MusicTypes'
      BY <2>4, <2>6 DEF E!ToggleMusic, E!MusicOff, MusicTypes
    <3>2. QED
      BY <1>2, <2>6, <3>1, FrameIds
  <2>7. CASE /\ control.does \in {"logIn", "signUp", "quiz"}
             /\ loop' = control.does
             /\ UNCHANGED <<frame, code, name, musicToggle, playing>>
    <3>1. E!TypeOK'
      BY <2>7 DEF LoopInv, E!TypeOK
    <3>2. LoopInv' /\ loop' \in {"logIn", "signUp", "quiz"}
      BY <2>3, <2>7, <3>1 DEF LoopInv
    <3>3. loop' = "quiz" => SessionFrame(frame) /\ name' = name
      BY <2>3, <2>7, FrameIds DEF SessionFrame
    <3>4. QED
      BY <3>2, <3>3 DEF MenuReached
  <2>8. QED
    BY <2>1, <2>5, <2>6, <2>7
<1>5. QED
  BY <1>3, <1>4 DEF MenuStep, E!Turn

-----------------------------------------------------------------------------
(* The steps.                                                              *)

LEMMA WindowTypes ==
  ASSUME TypeInv
  PROVE  /\ Window \in Instances /\ pc[Window] \in Running \union Stopped
         /\ pc \in [Instances -> Running \union Stopped]
         /\ user \in [Instances -> Names] /\ user[Window] \in Names
         /\ credit \in [Instances -> [mode : Modes \union {None}, points : Nat, total : Nat]]
  BY OneWindow DEF TypeInv, TypeOK

LEMMA SettledAward ==
  ASSUME RoundTypes, R!Settle
  PROVE  paid' \in Awards /\ paid' \in Nat
<1>1. PICK right \in 0..Size[level] : paid' = right * Worth[level]
  BY DEF R!Settle
<1>2. paid' \in Awards
  BY <1>1, RoundsAssumption DEF RoundTypes, R!Levels
<1>3. QED
  BY <1>2, AwardsAssumption

LEMMA ModeType == ModeOf(frame) \in Modes
  BY TwoModes DEF ModeOf

\* Every step of the game is one of PlayerStore's, or leaves what that models alone.
LEMMA StoreStep == GameInv /\ [GameNext]_gameVars => [Next]_vars
<1> SUFFICES ASSUME GameInv, GameNext PROVE [Next]_vars
  BY DEF gameVars, storeVars
<1> USE DEF storeVars
<1>1. Window \in Instances
  BY OneWindow
<1>2. CASE StartProcess \/ LeaveProfile \/ ReturnToProfile \/ LeaveGame \/ CloseWindow
  BY <1>1, <1>2 DEF StartProcess, LeaveProfile, ReturnToProfile, LeaveGame, CloseWindow,
                    Next, PlayerStep, FaultStep
<1>3. CASE FillForm \/ EnterSession \/ StorePoints
  BY <1>1, <1>3 DEF FillForm, EnterSession, StorePoints, Next, PlayerStep, ProgramStep
<1>4. CASE CallbackEnds \/ DisplayEnds
  BY <1>1, <1>4 DEF CallbackEnds, DisplayEnds, Next, FaultStep, ProgramStep
<1>5. CASE Settle
  <2>1. paid' \in Awards
    BY <1>5, SettledAward DEF Settle, GameInv
  <2>2. FinishRound(Window)
    BY <1>5, <2>1, ModeType DEF Settle, FinishRound
  <2>3. QED
    BY <1>1, <2>2 DEF Next, PlayerStep
<1>6. CASE Browse \/ StartQuiz \/ PlayOn \/ LeaveQuiz
  BY <1>6 DEF Browse, StartQuiz, PlayOn, LeaveQuiz
<1>7. QED
  BY <1>2, <1>3, <1>4, <1>5, <1>6 DEF GameNext

LEMMA RoundStep == ASSUME GameInv, GameNext PROVE RoundTypes'
<1>1. CASE Settle
  BY <1>1, SettledAward DEF Settle, R!Settle, GameInv, RoundTypes, R!Levels
<1>2. CASE StartQuiz
  BY <1>2 DEF StartQuiz, R!Begin, GameInv, RoundTypes
<1>3. CASE PlayOn
  BY <1>3, RoundsAssumption DEF PlayOn, R!Again, GameInv, RoundTypes, R!Levels
<1>4. CASE StartProcess \/ CloseWindow
  BY <1>4, RoundsAssumption DEF StartProcess, CloseWindow, NewMemory, RoundTypes, R!Levels
<1>5. CASE LeaveQuiz \/ DisplayEnds
  BY <1>5, RoundsAssumption DEF LeaveQuiz, DisplayEnds, R!Leave, R!NoRound, roundVars,
                                GameInv, RoundTypes, R!Levels
<1>6. CASE CallbackEnds
  BY <1>6, RoundsAssumption DEF CallbackEnds, R!Stop, R!NoRound, roundVars,
                                GameInv, RoundTypes, R!Levels
<1>7. CASE \/ Browse \/ LeaveProfile \/ FillForm \/ EnterSession \/ ReturnToProfile
           \/ LeaveGame \/ StorePoints
  BY <1>7 DEF Browse, LeaveProfile, FillForm, EnterSession, ReturnToProfile, LeaveGame,
              StorePoints, roundVars, GameInv, RoundTypes, R!Levels
<1>8. QED
  BY <1>1, <1>2, <1>3, <1>4, <1>5, <1>6, <1>7 DEF GameNext

\* The steps that go through a menu.
LEMMA MenuKeeps ==
  ASSUME GameInv, MenuStep,
         Browse \/ LeaveProfile \/ ReturnToProfile \/ LeaveGame \/ StartQuiz \/ DisplayEnds
  PROVE  LoopInv' /\ StepsMatch' /\ SamePlayer' /\ CreditedRound'
<1> USE WindowTypes DEF GameInv, storeVars, vars, Crediting, Stopped
<1>1. LoopInv /\ MenuReached /\ loop = "listening"
  BY MenuReaches DEF MenuStep, E!Turn, E!Option, E!InvalidOption
<1>2. /\ pc[Window] = IF SessionFrame(frame) THEN "playing" ELSE "profile"
      /\ name = user[Window]
  BY <1>1 DEF StepsMatch, SamePlayer
<1>3. CASE Browse
  <2>1. /\ loop' = "listening" /\ pc' = pc /\ user' = user
        /\ SessionFrame(frame') = SessionFrame(frame)
    BY <1>3 DEF Browse
  <2>2. SamePlayer'
    BY <1>1, <1>2, <2>1 DEF MenuReached, SamePlayer, SessionFrame, LoopInv
  <2>3. StepsMatch' /\ CreditedRound'
    BY <1>2, <2>1 DEF StepsMatch, CreditedRound, SessionFrame
  <2>4. QED
    BY <1>1, <2>2, <2>3 DEF MenuReached
<1>4. CASE LeaveProfile
  <2>1. /\ user' = user
        /\ \/ loop' = "logIn" /\ pc'[Window] = "logIn"
           \/ loop' = "signUp" /\ pc'[Window] = "signUpName"
           \/ loop' = "listening" /\ SessionFrame(frame') /\ pc'[Window] = "playing"
    BY <1>4 DEF LeaveProfile, ChooseForm
  <2>2. SamePlayer'
    BY <1>1, <1>2, <2>1, FrameIds DEF MenuReached, SamePlayer, SessionFrame
  <2>3. StepsMatch' /\ CreditedRound'
    BY <2>1 DEF StepsMatch, CreditedRound, SessionFrame
  <2>4. QED
    BY <1>1, <2>2, <2>3 DEF MenuReached
<1>5. CASE ReturnToProfile
  <2>1. /\ loop' = "listening" /\ ~SessionFrame(frame')
        /\ pc'[Window] = "profile" /\ user'[Window] = Guest
    BY <1>5 DEF ReturnToProfile, LogOut, Goto, Forget
  <2>2. SamePlayer'
    BY <1>1, <2>1 DEF MenuReached, SamePlayer
  <2>3. StepsMatch' /\ CreditedRound'
    BY <2>1 DEF StepsMatch, CreditedRound, SessionFrame
  <2>4. QED
    BY <1>1, <2>2, <2>3 DEF MenuReached
<1>6. CASE LeaveGame
  <2>1. loop' = "ended" /\ pc'[Window] = "closed"
    BY <1>6 DEF LeaveGame, Exit, Goto
  <2>2. SamePlayer' /\ StepsMatch' /\ CreditedRound'
    BY <2>1 DEF SamePlayer, StepsMatch, CreditedRound
  <2>3. QED
    BY <1>1, <2>2 DEF MenuReached
<1>7. CASE StartQuiz
  <2>1. loop' = "quiz" /\ pc' = pc /\ user' = user
    BY <1>7 DEF StartQuiz
  <2>2. pc'[Window] = "playing" /\ name' = user'[Window]
    BY <1>1, <1>2, <2>1 DEF MenuReached
  <2>3. SamePlayer' /\ StepsMatch' /\ CreditedRound'
    BY <2>1, <2>2 DEF SamePlayer, StepsMatch, CreditedRound
  <2>4. QED
    BY <1>1, <2>3 DEF MenuReached
<1>8. CASE DisplayEnds
  <2>1. loop' = "thrown" /\ pc'[Window] = "thrown"
    BY <1>8 DEF DisplayEnds, OpenThrows, Goto
  <2>2. SamePlayer' /\ StepsMatch' /\ CreditedRound'
    BY <2>1 DEF SamePlayer, StepsMatch, CreditedRound
  <2>3. QED
    BY <1>1, <2>2 DEF MenuReached
<1>9. QED
  BY <1>3, <1>4, <1>5, <1>6, <1>7, <1>8

\* A new process, or none: what a window kept in memory is gone.
LEMMA ProcessSteps ==
  ASSUME GameInv, StartProcess \/ CloseWindow
  PROVE  LoopInv' /\ StepsMatch' /\ SamePlayer' /\ CreditedRound'
<1> USE WindowTypes, FrameIds, NamesAssumption DEF GameInv, Crediting, Stopped
<1>1. CASE StartProcess
  <2>1. /\ loop' = "listening" /\ pc'[Window] = "profile"
        /\ frame' = E!ANDMainMenu /\ name' = Guest
    BY <1>1 DEF StartProcess, Start, Goto, NewMemory
  <2>2. LoopInv'
    BY <1>1, <2>1 DEF StartProcess, NewMemory, LoopInv, E!TypeOK
  <2>3. user'[Window] = Guest
    BY <1>1 DEF StartProcess, Start, EndedIsGuest
  <2>4. StepsMatch' /\ SamePlayer' /\ CreditedRound'
    BY <2>1, <2>3 DEF StepsMatch, SamePlayer, CreditedRound, SessionFrame
  <2>5. QED
    BY <2>2, <2>4
<1>2. CASE CloseWindow
  <2>1. loop' = "ended" /\ pc'[Window] = "closed"
    BY <1>2 DEF CloseWindow, Close, Goto, NewMemory
  <2>2. LoopInv'
    BY <1>2, <2>1 DEF CloseWindow, NewMemory, LoopInv, E!TypeOK
  <2>3. StepsMatch' /\ SamePlayer' /\ CreditedRound'
    BY <2>1 DEF StepsMatch, SamePlayer, CreditedRound
  <2>4. QED
    BY <2>2, <2>3
<1>3. QED
  BY <1>1, <1>2

\* A form goes on; the callback it belongs to waits.
LEMMA FormSteps ==
  ASSUME GameInv, FillForm
  PROVE  LoopInv' /\ StepsMatch' /\ SamePlayer' /\ CreditedRound'
<1> USE WindowTypes DEF GameInv, Crediting, Stopped, InSignUp
<1>1. LoopInv' /\ loop' = loop /\ name' = name /\ frame' = frame
  BY DEF FillForm, loopVars, LoopInv, E!TypeOK
<1>2. /\ pc[Window] \in {"signUpName", "signUpPassword"} \union InSignUp
      /\ pc'[Window] \in {"signUpPassword"} \union InSignUp
  BY DEF FillForm, SignUpName, SignUpPassword, AddCheck, InsertPlayer, BeginSession, Goto
<1>3. loop = "signUp"
  BY <1>2 DEF StepsMatch
<1>4. StepsMatch' /\ SamePlayer' /\ CreditedRound'
  BY <1>1, <1>2, <1>3 DEF StepsMatch, SamePlayer, CreditedRound
<1>5. QED
  BY <1>1, <1>4

\* Both variables of the player's name are set in one callback.
LEMMA SessionSteps ==
  ASSUME GameInv, EnterSession
  PROVE  LoopInv' /\ StepsMatch' /\ SamePlayer' /\ CreditedRound'
<1> USE WindowTypes, FrameIds DEF GameInv, Crediting, Stopped
<1>1. PICK u \in Names : E!Dispatch(E!GameSelectionMenu, u)
  BY NamesAssumption DEF EnterSession, E!SessionBegins
<1>2. MusicTypes'
  BY DEF EnterSession, E!SessionBegins, LoopInv, E!TypeOK, MusicTypes
<1>3. Reached(E!GameSelectionMenu, u)
  BY <1>1, <1>2, DispatchReaches DEF LoopInv
<1>4. loop' = "listening" /\ frame' = E!GameSelectionMenu
  BY <1>1, <1>3 DEF Reached, E!Dispatch, E!DispatchFrame, E!ShowFrame, E!PrintAgain,
                    E!StopListening, E!DispatchThrows
<1>5. pc'[Window] = "playing" /\ name' = user'[Window]
  BY DEF EnterSession
<1>6. StepsMatch' /\ SamePlayer' /\ CreditedRound'
  BY <1>4, <1>5 DEF StepsMatch, SamePlayer, CreditedRound, SessionFrame
<1>7. QED
  BY <1>3, <1>6 DEF Reached

\* The quiz and its credit; the loop waits in the callback.
LEMMA QuizSteps ==
  ASSUME GameInv, Settle \/ StorePoints \/ PlayOn
  PROVE  LoopInv' /\ StepsMatch' /\ SamePlayer' /\ CreditedRound'
<1> USE WindowTypes DEF GameInv, Crediting, Stopped
<1>1. LoopInv' /\ loop' = loop /\ name' = name /\ frame' = frame
  BY DEF Settle, StorePoints, PlayOn, loopVars, LoopInv, E!TypeOK
<1>2. CASE Settle
  <2>1. loop = "quiz" /\ user' = user /\ stage' = "settled"
    BY <1>2 DEF Settle, CallUpdatePlayerPoints, R!Settle
  <2>2. \/ pc'[Window] = "playing"
        \/ /\ pc'[Window] = "readPoints"
           /\ credit'[Window].mode = ModeOf(frame) /\ credit'[Window].points = paid'
    <3>1. CallUpdatePlayerPoints(Window, ModeOf(frame), paid') /\ pc[Window] = "playing"
      BY <1>2 DEF Settle
    <3>2. PICK m \in Modes : m = ModeOf(frame)
      BY TwoModes DEF ModeOf
    <3>3. CASE UNCHANGED pc
      BY <3>1, <3>3
    <3>4. CASE ~(UNCHANGED pc)
      <4>1. pc' = [pc EXCEPT ![Window] = "readPoints"]
        BY <3>1, <3>4 DEF CallUpdatePlayerPoints, Goto
      <4>2. CallUpdatePlayerPoints(Window, m, paid')
        BY <3>1, <3>2
      <4>. HIDE DEF GameInv
      <4>3. credit' = [credit EXCEPT ![Window] = [mode |-> m, points |-> paid', total |-> 0]]
        BY <4>2, <3>4 DEF CallUpdatePlayerPoints
      <4>4. /\ Window \in DOMAIN pc /\ Window \in DOMAIN credit
        BY WindowTypes DEF GameInv
      <4>5. QED
        BY <4>1, <4>3, <4>4, <3>2
    <3>5. QED
      BY <3>3, <3>4
  <2>3. ModeOf(frame)' = ModeOf(frame)
    BY <1>1 DEF ModeOf
  <2>4. QED
    BY <1>1, <2>1, <2>2, <2>3 DEF StepsMatch, SamePlayer, CreditedRound
<1>3. CASE StorePoints
  <2>1. pc[Window] \in Crediting /\ pc'[Window] \in {"writePoints", "playing"}
    BY <1>3 DEF StorePoints, ReadPoints, WritePoints, Goto
  <2>2. loop = "quiz"
    BY <2>1 DEF StepsMatch, InSignUp
  <2>3. /\ stage' = stage /\ paid' = paid /\ ModeOf(frame)' = ModeOf(frame)
    BY <1>1, <1>3 DEF StorePoints, roundVars, ModeOf
  <2>4. /\ pc'[Window] = "writePoints" =>
             /\ pc[Window] = "readPoints" /\ board' = board
             /\ board[user[Window]] # <<>>
             /\ credit'[Window].mode = credit[Window].mode
             /\ credit'[Window].points = credit[Window].points
             /\ credit'[Window].total =
                  board[user[Window]][1][credit[Window].mode] + credit[Window].points
        /\ user' = user
    <3>1. CASE ReadPoints(Window)
      <4>1. pc'[Window] = "writePoints" /\ UNCHANGED <<Tables, user>>
        BY <1>3, <3>1 DEF StorePoints, ReadPoints, Goto
      <4>2. PICK x : /\ credit' = [credit EXCEPT ![Window].total = x]
                     /\ x = board[user[Window]][1][credit[Window].mode] + credit[Window].points
                     /\ board[user[Window]] # <<>>
        BY <3>1, <4>1 DEF ReadPoints, Goto
      <4>3. QED
        BY <3>1, <4>1, <4>2 DEF ReadPoints, Tables
    <3>2. CASE WritePoints(Window)
      BY <3>2 DEF WritePoints, Goto
    <3>3. QED
      BY <1>3, <3>1, <3>2 DEF StorePoints
  <2>5. CreditedRound'
    <3>1. CASE pc'[Window] = "writePoints"
      <4>1. /\ credit[Window].mode = ModeOf(frame) /\ credit[Window].points = paid
            /\ stage = "settled"
        BY <2>1 DEF CreditedRound
      <4>2. board'[user'[Window]] # <<>> /\ user'[Window] = user[Window]
        BY <2>4, <3>1
      <4>3. BoardPoints(user[Window], ModeOf(frame))' = board[user[Window]][1][ModeOf(frame)]
        BY <2>3, <2>4, <3>1 DEF BoardPoints
      <4>4. QED
        BY <2>3, <2>4, <3>1, <4>1, <4>2, <4>3 DEF CreditedRound
    <3>2. CASE pc'[Window] = "playing"
      BY <3>2 DEF CreditedRound
    <3>3. QED
      BY <2>1, <3>1, <3>2
  <2>6. QED
    BY <1>1, <2>1, <2>2, <2>4, <2>5 DEF StepsMatch, SamePlayer
<1>4. CASE PlayOn
  <2>1. loop = "quiz" /\ pc'[Window] = "playing" /\ user' = user
    BY <1>4 DEF PlayOn, storeVars, vars
  <2>2. QED
    BY <1>1, <2>1 DEF StepsMatch, SamePlayer, CreditedRound
<1>5. QED
  BY <1>2, <1>3, <1>4

\* The callback returns, or ends the process.
LEMMA ReturnSteps ==
  ASSUME GameInv, LeaveQuiz \/ CallbackEnds \/ (DisplayEnds /\ E!QuizEnds)
  PROVE  LoopInv' /\ StepsMatch' /\ SamePlayer' /\ CreditedRound'
<1> USE WindowTypes, FrameIds DEF GameInv, Crediting, Stopped
<1>1. CASE E!QuizEnds
  <2>1. PICK c \in {E!FrogsAndFliesLeaderboardScreen, E!GameSelectionMenu} : E!Dispatch(c, name)
    BY <1>1 DEF E!QuizEnds
  <2>2. MusicTypes' /\ loop = "quiz"
    BY <1>1 DEF E!QuizEnds, LoopInv, E!TypeOK, MusicTypes
  <2>3. name = user[Window] /\ name \in Names
    BY <2>2 DEF SamePlayer
  <2>4. Reached(c, name)
    BY <2>1, <2>2, <2>3, DispatchReaches DEF LoopInv
  <2>5. CASE LeaveQuiz
    <3>1. loop' = "listening" /\ pc'[Window] = "playing" /\ user' = user
      BY <2>5 DEF LeaveQuiz, storeVars, vars
    <3>2. frame' = c /\ name' = name
      BY <2>4, <3>1 DEF Reached
    <3>3. StepsMatch' /\ SamePlayer' /\ CreditedRound'
      BY <2>3, <3>1, <3>2 DEF StepsMatch, SamePlayer, CreditedRound, SessionFrame
    <3>4. QED
      BY <2>4, <3>3 DEF Reached
  <2>6. CASE DisplayEnds
    <3>1. loop' = "thrown" /\ pc'[Window] = "thrown"
      BY <2>6 DEF DisplayEnds, OpenThrows, Goto
    <3>2. StepsMatch' /\ SamePlayer' /\ CreditedRound'
      BY <3>1 DEF StepsMatch, SamePlayer, CreditedRound
    <3>3. QED
      BY <2>4, <3>2 DEF Reached
  <2>7. CASE CallbackEnds
    <3>1. loop' = "thrown"
      BY <2>7 DEF CallbackEnds, E!CallbackThrows
    <3>2. pc'[Window] \in {"thrown", "crashed"}
      BY <2>7 DEF CallbackEnds
    <3>3. StepsMatch' /\ SamePlayer' /\ CreditedRound'
      BY <3>1, <3>2 DEF StepsMatch, SamePlayer, CreditedRound
    <3>4. QED
      BY <2>4, <3>3 DEF Reached
  <2>8. QED
    BY <2>5, <2>6, <2>7
<1>2. CASE CallbackEnds
  <2>1. loop' = "thrown" /\ pc'[Window] \in {"thrown", "crashed"}
    BY <1>2 DEF CallbackEnds, E!CallbackThrows
  <2>2. LoopInv'
    BY <1>2 DEF CallbackEnds, E!CallbackThrows, LoopInv, E!TypeOK
  <2>3. StepsMatch' /\ SamePlayer' /\ CreditedRound'
    BY <2>1 DEF StepsMatch, SamePlayer, CreditedRound
  <2>4. QED
    BY <2>2, <2>3
<1>3. QED
  BY <1>1, <1>2 DEF LeaveQuiz

LEMMA EndedStep == ASSUME GameInv, GameNext PROVE EndedIsGuest'
<1> USE WindowTypes DEF Stopped, GameInv
<1>1. CASE CloseWindow \/ CallbackEnds \/ DisplayEnds
  <2>1. Close(Window) \/ OpenThrows(Window) \/ LogInFaults(Window)
           \/ (ReadPoints(Window) /\ pc'[Window] # "writePoints")
    BY <1>1 DEF CloseWindow, CallbackEnds, DisplayEnds
  <2>2. Forget(Window)
    BY <2>1 DEF Close, OpenThrows, LogInFaults, ReadPoints, Goto
  <2>3. QED
    BY <2>2 DEF Forget, EndedIsGuest
<1>2. CASE LeaveGame
  <2>1. loop = "listening" /\ pc[Window] = "profile" /\ user' = user
    BY <1>2 DEF LeaveGame, MenuStep, E!Turn, E!Option, E!InvalidOption, Exit
  <2>2. user[Window] = Guest
    BY <2>1 DEF StepsMatch, SamePlayer, LoopInv
  <2>3. QED
    BY <2>1, <2>2 DEF EndedIsGuest
<1>3. CASE Browse \/ StartQuiz \/ PlayOn \/ LeaveQuiz
  BY <1>3 DEF Browse, StartQuiz, PlayOn, LeaveQuiz, storeVars, vars, EndedIsGuest
<1>4. CASE StartProcess \/ LeaveProfile \/ ReturnToProfile
  BY <1>4 DEF StartProcess, LeaveProfile, ReturnToProfile, Start, ChooseForm, LogOut, Goto,
              EndedIsGuest
<1>5. CASE FillForm \/ EnterSession
  <2>1. pc'[Window] \in {"playing", "signUpPassword"} \union InSignUp
    BY <1>5 DEF FillForm, EnterSession, SignUpName, SignUpPassword, AddCheck, InsertPlayer,
                LogIn, InsertBoard, BeginSession, Goto, InSignUp
  <2>2. QED
    BY <2>1 DEF EndedIsGuest, InSignUp
<1>6. CASE Settle \/ StorePoints
  <2>1. pc'[Window] \in {"playing"} \union Crediting
    BY <1>6 DEF Settle, StorePoints, CallUpdatePlayerPoints, ReadPoints, WritePoints, Goto,
                Crediting
  <2>2. QED
    BY <2>1 DEF EndedIsGuest, Crediting
<1>7. QED
  BY <1>1, <1>2, <1>3, <1>4, <1>5, <1>6 DEF GameNext

LEMMA GameInvStep == GameInv /\ [GameNext]_gameVars => GameInv'
<1> SUFFICES ASSUME GameInv, [GameNext]_gameVars PROVE GameInv'
  OBVIOUS
<1>1. TypeInv'
  BY StoreStep, TypeStep DEF GameInv
<1>2. CASE GameNext
  <2>1. LoopInv' /\ StepsMatch' /\ SamePlayer' /\ CreditedRound'
    <3>1. CASE StartProcess \/ CloseWindow
      BY <3>1, ProcessSteps
    <3>2. CASE FillForm
      BY <3>2, FormSteps
    <3>3. CASE EnterSession
      BY <3>3, SessionSteps
    <3>4. CASE Settle \/ StorePoints \/ PlayOn
      BY <3>4, QuizSteps
    <3>5. CASE LeaveQuiz \/ CallbackEnds
      BY <3>5, ReturnSteps
    <3>6. CASE DisplayEnds
      BY <3>6, ReturnSteps, MenuKeeps DEF DisplayEnds
    <3>7. CASE Browse \/ LeaveProfile \/ ReturnToProfile \/ LeaveGame \/ StartQuiz
      BY <3>7, MenuKeeps DEF Browse, LeaveProfile, ReturnToProfile, LeaveGame, StartQuiz
    <3>8. QED
      BY <1>2, <3>1, <3>2, <3>3, <3>4, <3>5, <3>6, <3>7 DEF GameNext
  <2>2. QED
    BY <1>1, <1>2, <2>1, RoundStep, EndedStep DEF GameInv
<1>3. CASE UNCHANGED gameVars
  <2> USE <1>3 DEF gameVars, storeVars, loopVars, roundVars, vars, GameInv
  <2>1. LoopInv' /\ RoundTypes'
    BY DEF LoopInv, E!TypeOK, RoundTypes, R!Levels
  <2>2. StepsMatch' /\ SamePlayer' /\ EndedIsGuest'
    BY DEF StepsMatch, SamePlayer, SessionFrame, EndedIsGuest
  <2>3. CreditedRound'
    BY DEF CreditedRound, BoardPoints, ModeOf
  <2>4. QED
    BY <1>1, <2>1, <2>2, <2>3
<1>4. QED
  BY <1>2, <1>3

LEMMA GameInvariance == GameSpec => []GameInv
  BY GameInvInit, GameInvStep, PTL DEF GameSpec

-----------------------------------------------------------------------------
(* The properties.                                                         *)

\* The types of all components' variables, for any faults.
THEOREM GameTypeCorrect == GameSpec => []GameTypeOK
<1>1. GameInv => GameTypeOK
  BY DEF GameInv, TypeInv, LoopInv, RoundTypes, GameTypeOK
<1>2. QED
  BY <1>1, GameInvariance, PTL

\* The loop waits in the callback whose procedure is at work, and in no other.
THEOREM GameStepsMatch == GameSpec => []StepsMatch
  BY GameInvariance, PTL DEF GameInv

\* The name dispatchFrame resets is the name the login set and the credit goes by.
THEOREM GameSamePlayer == GameSpec => []SamePlayer
  BY GameInvariance, PTL DEF GameInv

\* An INSERT adds a row of zeros, so that no points change with it.
LEMMA InsertKeepsPoints ==
  ASSUME GameInv, NEW u \in Names, NEW m \in Modes, NEW f \in Names,
         board' = [board EXCEPT ![f] = Append(@, FreshRow)]
  PROVE  BoardPoints(u, m)' = BoardPoints(u, m)
<1>1. board \in [Names -> Seq([Modes -> Nat])] /\ FreshRow \in [Modes -> Nat]
  BY DEF GameInv, TypeInv, TypeOK, FreshRow
<1>2. CASE u = f
  <2>1. board'[u] = Append(board[u], FreshRow)
    BY <1>1, <1>2
  <2>2. board[u] # <<>> => board'[u][1] = board[u][1]
    BY <1>1, <2>1
  <2>3. board[u] = <<>> => board'[u][1] = FreshRow
    BY <1>1, <2>1
  <2>4. board'[u] # <<>> /\ FreshRow[m] = 0
    BY <1>1, <2>1 DEF FreshRow
  <2>5. QED
    BY <2>2, <2>3, <2>4 DEF BoardPoints
<1>3. CASE u # f
  BY <1>1, <1>3 DEF BoardPoints
<1>4. QED
  BY <1>2, <1>3

\* The UPDATE changes the points of one player in one column.
LEMMA UpdateChangesOne ==
  ASSUME GameInv, NEW u \in Names, NEW m \in Modes, WritePoints(Window),
         BoardPoints(u, m)' # BoardPoints(u, m)
  PROVE  /\ u = user[Window] /\ m = credit[Window].mode
         /\ BoardPoints(u, m)' = credit[Window].total
<1> USE WindowTypes DEF GameInv
<1>1. board \in [Names -> Seq([Modes -> Nat])]
  BY DEF TypeInv, TypeOK
<1>2. board' = [board EXCEPT ![user[Window]] =
                  [k \in DOMAIN @ |->
                     [@[k] EXCEPT ![credit[Window].mode] = credit[Window].total]]]
  BY DEF WritePoints, BoardPoints
<1>3. u = user[Window]
  BY <1>1, <1>2 DEF BoardPoints
<1>4. board'[u] = [k \in DOMAIN board[u] |->
                     [board[u][k] EXCEPT ![credit[Window].mode] = credit[Window].total]]
  BY <1>1, <1>2, <1>3
<1>5. PICK k \in Nat : DOMAIN board[u] = 1..k
  BY <1>1
<1>6. CASE board[u] = <<>>
  <2>1. board'[u] = <<>>
    BY <1>4, <1>6
  <2>2. QED
    BY <1>6, <2>1 DEF BoardPoints
<1>7. CASE board[u] # <<>>
  <2>1. 1 \in DOMAIN board[u] /\ board[u][1] \in [Modes -> Nat]
    BY <1>1, <1>7
  <2>2. board'[u][1] = [board[u][1] EXCEPT ![credit[Window].mode] = credit[Window].total]
    BY <1>4, <2>1
  <2>3. board'[u] # <<>>
    BY <1>4, <2>1
  <2>4. QED
    BY <1>3, <1>7, <2>1, <2>2, <2>3 DEF BoardPoints
<1>8. QED
  BY <1>6, <1>7

\* Points appear on a leaderboard only while a quiz runs, for the player logged in,
\* in the column of the quiz's menu, and as many as the round was worth.
THEOREM GamePointsFromOwnRound == GameSpec => PointsFromOwnRound
<1> DEFINE OwnRound(u, m) ==
             /\ loop = "quiz" /\ stage = "settled"
             /\ u = name
             /\ (m = FrogsAndFlies) = (frame = E!FrogsAndFliesMenu)
             /\ BoardPoints(u, m)' = BoardPoints(u, m) + paid
<1>1. ASSUME GameInv, GameNext, NEW u \in Names, NEW m \in Modes,
             BoardPoints(u, m)' # BoardPoints(u, m)
      PROVE  OwnRound(u, m)
  <2> USE <1>1, WindowTypes DEF GameInv
  <2>1. board' # board
    BY DEF BoardPoints
  <2>2. InsertBoard(Window) \/ (StorePoints /\ WritePoints(Window))
    BY <2>1 DEF GameNext, StartProcess, Browse, LeaveProfile, FillForm, EnterSession,
                ReturnToProfile, LeaveGame, StartQuiz, Settle, StorePoints, PlayOn, LeaveQuiz,
                CallbackEnds, DisplayEnds, CloseWindow, Start, ChooseForm, SignUpName,
                SignUpPassword, AddCheck, InsertPlayer, LogIn, LogOut, Exit,
                CallUpdatePlayerPoints, ReadPoints, OpenThrows, LogInFaults, Close,
                Tables, storeVars, vars
  <2>3. ~InsertBoard(Window)
    <3>1. SUFFICES ASSUME InsertBoard(Window) PROVE FALSE
      OBVIOUS
    <3>2. board' = [board EXCEPT ![form[Window].name] = Append(@, FreshRow)]
      BY <2>1, <3>1 DEF InsertBoard
    <3>3. form[Window].name \in Names
      BY <2>1, <3>2 DEF TypeInv, TypeOK
    <3>4. QED
      BY <3>2, <3>3, InsertKeepsPoints
  <2>4. /\ pc[Window] = "writePoints"
        /\ u = user[Window] /\ m = credit[Window].mode
        /\ BoardPoints(u, m)' = credit[Window].total
    BY <2>2, <2>3, UpdateChangesOne DEF WritePoints
  <2>5. loop = "quiz"
    BY <2>4 DEF StepsMatch, InSignUp, Stopped
  <2>6. /\ stage = "settled" /\ m = ModeOf(frame)
        /\ credit[Window].total = BoardPoints(u, m) + paid
    BY <2>4 DEF CreditedRound, Crediting
  <2>7. u = name
    BY <2>4, <2>5 DEF SamePlayer
  <2>8. (m = FrogsAndFlies) = (frame = E!FrogsAndFliesMenu)
    BY <2>6, TwoModes DEF ModeOf
  <2>9. QED
    BY <2>4, <2>5, <2>6, <2>7, <2>8
<1>2. GameInv /\ [GameNext]_gameVars =>
        [\A u \in Names, m \in Modes :
            BoardPoints(u, m)' # BoardPoints(u, m) => OwnRound(u, m)]_gameVars
  <2> HIDE DEF OwnRound
  <2> QED
    BY <1>1
<1>3. QED
  BY <1>2, GameInvariance, PTL DEF GameSpec, PointsFromOwnRound

\* The window as a whole is a window of PlayerStore: the loop and the quiz call the
\* store's procedures in no order that its own specification lacks.
THEOREM GameIsStore == GameSpec => Spec
<1>1. GameInit => Init
  BY DEF GameInit
<1>2. QED
  BY <1>1, GameInvariance, StoreStep, PTL DEF GameSpec, Spec

\* Whatever fails and wherever the window is closed, the game as a whole keeps the
\* ledger: names are registered once, and totals grow by whole awards of their own.
THEOREM GameImplementsLedger == GameSpec => ImplementsLedger
<1>1. Lone(Window)
  BY OneWindow DEF Lone
<1>2. Spec => ImplementsLedger
  BY <1>1, LoneImplementsLedger
<1>3. QED
  BY <1>2, GameIsStore, PTL
=============================================================================
