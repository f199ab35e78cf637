# A.N.D in TLA+

A.N.D is a Windows console game in C++: a player logs in or signs up, answers
quizzes in two modes (Frogs and Flies, Math Trivia) at three levels against a
clock, and collects points on two leaderboards. This directory models its logic,
and the part of the vendored SQLite that several windows on one file rest on, in
TLA+, checks it with TLC on small instances, and proves many of its safety
properties for every instance with TLAPS.

## The system

Paths are relative to `src/`; `game_core.cpp` is `src/game_core.cpp`.

| Part | Where | State | Operations |
| --- | --- | --- | --- |
| Accounts and points | `game_core.cpp` 78-185, 386-462, 937-968 | tables `player` (players.db) and `playerleaderboard` (leaderboard.db); per window `GameModel::playerUsername` and the locals of the procedure that runs | `runLogInProcedure`, `runSignUpProcedure`, `doesUsernameExist`, `addNewPlayer`, `verifyPassword`, `updatePlayerPoints` |
| Quiz | `game_core.cpp` 187-366 | locals of `runQuiz`: difficulty, question set, question number, right answers, `timerEnd` | load, ask, score, pause, summary, credit, next level |
| Event loop, frames, menus | `game_model.cpp`, `game_frame.cpp`, `frame_control.cpp`, `game_core.cpp` 464-767 | current frame, its handler's return code, `continueEventListenLoop` | `listen`, `callControlCallback`, `dispatchFrame`, the controls of eight frames |
| Music | `game_core.cpp` 662-691, 1177-1189, `game_core.h` 168-174 | `GameModel::musicToggle`, the sound | `toggleMusic`, the tutorial's videos |
| SQLite wrapper | `sqlitewrapper.cpp`, `sqlitewrapper.h` | connection, current statement, statement type | construct, change connection, set, execute, count, obtain, destroy |
| Question selection | `game_core.cpp` 970-1056, `shuffler.cpp` | none between calls | `getSortedRandomNumberQueue`, `getQuestionSet`, `Shuffler::shuffle` |
| Leaderboard display | `game_core.cpp` 769-822 | none between calls | top five of a column |
| Entry and exit | `main.cpp`, `game_core.cpp` 368-384, 913-935, 1116-1175 | none | start, catch the exception, end |
| Console utilities | `game_core.cpp` 22-76, 824-911, `game_strings.h` | none | output |
| SQLite | `sqlite3.c` (vendored) | database file, rollback journal, byte locks; per connection its lock and page cache | shared lock with recovery, transaction, commit, unlock |
| bcrypt | `bcrypt.c`, `crypt_*.c`, `wrapper.c` | - | third-party |

`main` runs `runAND`, which builds a `GameModel` with the main menu and calls
`listen`. `listen` reads a number, calls the current frame's callback for it, and
passes the code the callback returned to `dispatchFrame`, which replaces the
frame. Three callbacks are programs of their own, which read further input
themselves: login, sign-up and quiz. They, and the leaderboards, open the
database files through the wrapper. One process has one thread; several game
windows, each a process, may use the same database files.

What is hard:

- Several windows share two files, and the code opens no transaction: a sign-up
  is a check, an input, another check and two INSERTs into two files, and an
  update of points a SELECT, a sum in the program and an UPDATE. The tables of the
  shipped files have no uniqueness constraint. There is no busy timeout, so a
  statement that meets a lock fails at once.
- A failed statement is silent: `executeStatement` answers TRUE, and "no rows" is
  taken for an answer. A file that cannot be opened throws an exception that ends
  the program.
- A window may be closed anywhere, also between two statements.
- The quiz races a clock that is looked at between questions only, and moves its
  deadline to make up for its own pauses.
- `listen` looks at a return code that may be that of an earlier callback.
- The wrapper's handle has a mode of its own (cursor, statement type) that its
  callers must drive in the right order.

`PROJECT.json` lists these as hazards, each with its line and the properties that
watch it.

## The modules

| Module | Models |
| --- | --- |
| `Ledger` | abstract specification of accounts and points: a free name is registered, an award is added |
| `PlayerStore` | accounts and points in full, for any number of windows; implements `Ledger` |
| `Round` | abstract specification of a quiz: rounds at rising levels, each worth some right answers |
| `Quiz` | `runQuiz`; implements `Round` |
| `EventLoop` | `listen`, `dispatchFrame`, all frames and controls, the music |
| `Game` | one window as a whole: `PlayerStore`, `EventLoop` and `Round` together; implements `Ledger` |
| `SqliteWrapper` | the wrapper's handle under every sequence of calls |
| `QuestionSet` | `getQuestionSet` and `Shuffler`, as a client of `SqliteWrapper` |
| `Leaderboard` | the two leaderboard displays, among the windows of `PlayerStore` |
| `AtomicFile` | abstract specification of a database file: a statement is one step |
| `FileLocks` | SQLite's locks, rollback journal, recovery and commit; implements `AtomicFile` |
| `..._proofs` | the theorems about the module before the underscore |
| `MC...` | the values and the symmetry the runs need |

Some definitions are marked *Mutant*: each is a variant of the definition after
it, with a bug that code of this kind could have. They belong to no
specification; a property is kept only if substituting its mutant makes TLC
report it.

### PlayerStore

A step is what one window does between two uses of a shared file. `players[u]`
and `board[u]` are the rows of name `u` in row order, a sequence because nothing
in the schema keeps a name to one row. `pc[i]` is where window `i` is:
`signUpName`, `signUpPassword`, `addCheck`, `insertPlayer`, `insertBoard` are
`runSignUpProcedure` with `addNewPlayer`; `readPoints` and `writePoints` are
`updatePlayerPoints`. `form` holds the name and password the session rests on,
`credit` the round being credited. `earned` is a history variable: the points of
the rounds finished by sessions that began with a login or sign-up.

- A stored hash is the password it validates.
- `MayFail` says when a statement may fail: the fault `io` is switched on, or
  another window uses the same file. A write fails wherever another window holds
  any lock on it. A SELECT fails while another window writes and also, which
  `FileLocks` showed, while another one is in the few instructions of taking its
  read lock, or recovers from a killed process. A failed statement returns no rows
  and changes nothing. A name with an apostrophe (`Unquotable`) makes every
  statement with it fail to parse.
- `InsertBoard` includes `changeDatabaseConnection`. If leaderboard.db does not
  open, the handle stays on players.db with its INSERT, the new statement does
  not parse there, and `executeStatement` runs the old one again.
- `ReadPoints` ends in `crashed` when the result is empty (the first element of an
  empty vector) and in `thrown` when the value is larger than `std::stoi`
  converts.
- `Close` is a closed window or a killed process at any step.

Bounds: `MaxEarned` on the points one name earns in one mode, `MaxRows` on the
rows of a name that may still be signed up.

### Quiz

`left` is `timerEnd - now` in whole seconds: thinking lowers it, the pause lowers
it by its length and raises it by two. A question is the number of its options
and the right one, chosen freely when it is answered. Limits, sizes and
multipliers are the code's own numbers. `thinking`, `overrun` and `uncredited` are
history variables. `Put` is the index at the top of the loop body, which comes
before any test: out of the set it ends in `crashed`. An empty question set leads
there, as it does in the code, and `QuestionInRange` says that nothing else does.
Bounds: `MaxLate`, how long past the deadline a player still thinks, and
`MaxOverrun`, by how much the pauses of a round overrun in all. What other parts
see of it is `Round`: `ImplementsRound` maps every step of `Quiz` to a step of
`Round` or to none.

### EventLoop

A frame is its list of controls, a control the code it returns or the procedure
it runs; `Controls` is the eight `create...` functions. An option is an int of
`UIntSize` values that is converted to unsigned before it is compared (`Index`), as
`callControlCallback` does; `OffMenuChangesNothing` is about what becomes of one
that no menu has. What is printed is left out. Login, sign-up
and quiz are two steps, call and return, with the outcomes the other two modules
give them; a failing database ends in `thrown`.

### SqliteWrapper

One handle whose client makes any call at any time. A statement is the file it
parses on and its number of rows; `row` is the cursor, which each `sqlite3_step`
moves to the next row, and from the end back to before the first. A call is one
step but for `getNumberOfReturnedRows`: `GetNumberOfReturnedRows` is its tests and
its first reset, and `CountRow`, with the count so far in `counted`, one test of its
loop and at the end the second reset. `flaky`, chosen at the start and never changed, says whether
a valid call into SQLite may fail: what no caller can count on then, such as a
complete count, is stated for handles that are not flaky.

### Game

`Game` extends `PlayerStore` with the variables of `EventLoop` and of `Round`,
for one window. `playerUsername` is there twice, as the loop's `name`, which
`dispatchFrame` resets, and as the store's `user`, which the procedures set and
`updatePlayerPoints` reads: that they never differ is a property (`SamePlayer`)
and not built in. One action stands for one call, so that most are a conjunction
of a step of each component that takes part: `EnterSession` is the step of
`PlayerStore` that sets the name and the one of `EventLoop` that returns from
the callback, `Settle` the end of a round and the call of `updatePlayerPoints`
with its points, in the column of the menu that is on. `CallbackEnds` and
`DisplayEnds` are the exceptions and the empty result that end a process, with
the round it was in, and `CloseWindow` the closed window.

### QuestionSet

Every use of the handle is a step of `SqliteWrapper`, through INSTANCE; the
module adds what `getQuestionSet` keeps itself, the drawn numbers, its counter and
the rows taken. `returned` and `set` are its results, `drawn` a history of the
queue. `Shuffle` swaps each place with one up to it, which is what
`std::shuffle` does; every order can come out, so that no property may rely on
one. If the walk finds no row, the code reads the columns of none; that ends in
`stopped`.

### Leaderboard

The display executes one query three times: to see whether it has rows, to count
them, to print them. `Rewind` is the reset before the count, which gives up the
lock, so that other windows may commit before `Count` and after it. `Listed` is the query's result as the board stands, `Holds`
says when the display has a row and therefore a shared lock, while which no other
window can commit; `Elsewhere` is a step of `PlayerStore` by another window, with
that restriction. `alone`, a history variable, says whether any other window used
the board during the display. `FetchFaults` is the print of a row that is not
there.

### FileLocks

One step is one call of the operating system or one access to the journal or to
a page, so that other connections come in between any two. `held` are the byte
ranges locked: `winLock` takes the pending byte, a byte of the shared range or all
of it, and the reserved byte, and never waits. `Access`, `CheckReserved`,
`Probed` and `Peek` are `hasHotJournal`; `HotPending` to `Discard` the recovery;
`Reserve` to `Rollback` a writing statement; `ToShared` to `Lower` are
`winUnlock`. A page is the number of updates applied to it, which is all that
atomicity is about. `Crash` is a killed process: the operating system frees its
locks, the files stay as they are. `Committed` is what the next reader finds,
the journal's pages if it is hot and else the file, and with it `content`, each
statement is one step of `AtomicFile`.

This is what justifies one step per statement in `PlayerStore` and `Leaderboard`.
It also corrected them: that a read may fail against a mere reader, see
`MayFail`, came out of it.

## The runs

| Run | Instance | States | Shows |
| --- | --- | --- | --- |
| `Store_one_window` | 1 window, 2 names, 2 passwords, 2 modes, awards 1 and 2, no faults | 4 123 | unique names, session and password, exact credit, no crash, every award reaches the board |
| `Store_one_window_faults` | 1 window, all faults, a name with an apostrophe, `IntMax` 1 | 246 928 | no points lost from the board, nothing stored past the limit |
| `Quiz_rounds` | shipped question counts and an empty set, exceptions, 2 s of overrun | 661 035 | index in range but for an empty set, right summary, fair deadline, no late question, each answer credited once, rounds end; implements `Round` |
| `EventLoop_frames` | 3 accounts, options -1 to 6 and the extreme ints, 16-bit ints | 108 | stale code harmless, an option off the menu changes nothing, the music's flag tells |
| `Game_one_window` | 1 window, 2 names, 2 modes, 2 levels, awards 0 to 2, files that do not open, closed anywhere | 212 680 | types, loop and store in step, one player, points only from the player's own round; implements `Ledger` |
| `Wrapper_calls` | 2 databases, a missing file, 0, 1 and 3 rows, reliable and flaky | 632 | statement type, counts and iteration |
| `QuestionSet_draw` | 1 to 3 questions from tables of 0, 1, 3 and 4 rows, reliable and flaky | 1 594 | types, all questions or none, the drawn rows each once, no end on a reliable handle, the set arrives |
| `Leaderboard_windows` | 2 windows, symmetric, 3 names, closed anywhere, a LIMIT of 2 | 867 600 | lines of one moment, complete and without a crash when alone, no points invented |
| `FileLocks` | 3 connections, symmetric, 2 pages, 2 writing statements, killed anywhere | 231 498 | types, reads of committed pages only, read lock regained, one owner of the journal; implements `AtomicFile` |

The bounds are enough for the cases the properties tell apart. Two passwords and
two modes make a wrong password and a wrong column visible; awards of 1 and 2, up
to 2 points, make a replaced total differ from a sum; two rows are what a
duplicated name needs; `IntMax` 1 with 3 points crosses the limit. A second name
that is no guest is needed only where one player's rows could be mixed up with
another's. The wrapper's rows 0, 1 and 3 are a write or an empty result, a single
result, and one with a row that is neither first nor last. Two seconds of overrun
make a deadline passed in a pause differ from one passed in thought, once and
twice in a round. The event loop's ints are
16 bits wide because TLC's own have 32, sign included; `Game_one_window` has ints of
the same width and the options next to the longest menu. Its two levels are one that is raised and
the last one, and their worths, 1 and 2, tell the level a round was played at. A
table of 4 rows and a draw of 3 leave a gap in the walk, tables of 3 and of 1 are
exactly full and too small. A LIMIT of 2 with up to 3 names makes the query leave a
row out, and awards of 1 reorder the two that were there at the start. Two pages
are the least a file of mixed pages needs. Three connections are a process that
was killed, or reads, a writer, and one more that comes between the two; two
writing statements make a journal that is met by the next one. A killed
connection's slot is used again by its next statement, so that a process that comes
after a crash needs no fourth.

Some of what the code does is in the models without a property that refutes it:
an answer given after the deadline still scores, a name with an apostrophe begins
a session without an account, `setExecutionStatement` may answer TRUE and leave no
statement. An empty question set is indexed, an account may be left with one of its
two rows. With two windows a session may begin under another player's name, and a
total be overwritten by a smaller one: `SessionOnRecord`, `ExactCredit`,
`PointsNeverFall` and `NoCrash` hold of one window only, and nothing in the
repository says more. The hazards name the properties that hold nevertheless, and
those that have none say so.

Runs that are expected to be violated show where the code and what it says of
itself differ (`findings` in `PROJECT.json` quotes the lines):

| Run | Shows |
| --- | --- |
| `Store_race` | two windows register one name |
| `Store_guest_account` | an account named guest is never credited |
| `Quiz_invalid_option` | an option that does not exist costs no points |

## Fairness

`PlayerStore` assumes weak fairness of the program's own steps of each window
(`ProgramStep`: the second check, the two INSERTs, the SELECT and the UPDATE):
between two statements the code waits for nobody. What a player does is never
assumed. `Quiz` assumes the same of loading and of the pause, and that the player
answers a question in the end (`Answer`), without which no round ends; how long
the player thinks is left open. `QuestionSet` assumes weak fairness of the program;
a draw that repeats a number changes nothing and is no step, so this includes that
a fresh number comes up in the end, which a uniform draw among finitely many does
with probability one. All others state safety only: in `FileLocks` a statement that
meets a lock fails, nothing waits.

No run switches off the deadlock check: a stopped window can be started again,
and where a process has ended for good the module says so with a step that
changes nothing.

## What is proved

`PlayerStore_proofs`, for all values of the constants that meet their assumptions.
Each property is proved for as many windows and faults as it is true for, and the
theorems are grouped by that:

| Hypothesis | Theorems |
| --- | --- |
| none: any windows, any faults | `TypeCorrect`, `RowsNeverOverCredited` |
| `Lone`: one window, any faults | `LoneImplementsLedger`, `LonePointsNeverFall`, `LoneNoCreditPastIntMax` |
| `Steady`: one window, closed anywhere, statements succeed | `SteadyUniqueUsernames`, `SteadySessionOnRecord` |
| `Sole`: one window, no faults, no apostrophes, totals within `IntMax` | `SoleExactCredit`, `SoleNoCrash`, `SoleOneWindowInv` |

Each hypothesis excludes what refutes the property. A second window
registers a name twice (`Store_race`), overwrites a total with a smaller one and
replaces one that no longer can be read. A statement that fails makes a taken
name look free; a window closed between a round and its UPDATE, or between the two
INSERTs, loses the points or crashes at the first credit. `SteadySessionOnRecord`
also asks that every name can be quoted: a name with an apostrophe begins a session
without an account. The one assumption on the number of windows is
`InstancesAssumption`, that there are finitely many, which is what processes on a
machine are.

None of these is inductive.

- `RowsNeverOverCredited` has to show, for windows that read and write the same row
  in any order, that a total computed from an old value still is no more than what
  was earned. `PendingPoints(u, m)` holds, for each window that is crediting a round,
  as many elements as the round has points, so that its cardinality, `Owed`, is the
  sum over all windows without a recursive definition. `OwedInv` says that no row
  plus what is owed exceeds `earned`, and that the total a window is about to
  write, plus what the others owe, does not either; every step that starts,
  ends or drops an update has a lemma about `Owed`. `AwardInv` says that what is
  credited is an award, of a session with an account.
- `LoneInv` adds `FirstRowLeads`, that the row a SELECT finds first has the most
  of every column, which is what makes an update right for a name with several
  rows, and `UpdateInv`, that the total in hand was computed from the value it
  replaces. For the refinement, `LedgerStep` shows of each step which of
  `Register`, `Award` or nothing it is.
- `SteadyInv` adds `NamesInv`, that the name in a sign-up form is free from the
  first check to the INSERT, and `RecordInv`, that a form or a session has the
  password of its name's row.
- `Inv`, under `Sole`, adds `AccountsInv` (an account and its board row go together,
  but for a sign-up between its INSERTs), `FormInv` (what the form and
  `playerUsername` hold at each step) and `CreditInv` (what is earned is on the
  board or in `credit`). `NothingFails` shows that the existence check tells the
  truth, each action has a lemma, and `InvImplies` draws the properties from `Inv`.

`Quiz_proofs`, for any number of rows the query returns, any overrun and any
patience: `QuizQuestionInRange`, `QuizSummaryIsRight`, `QuizDeadlineIsFair`,
`QuizEachAnswerCreditedOnce`, `QuizOnTimeQuestions`, and `QuizImplementsRound`, that
a quiz is a series of `Round`'s rounds. The two about the deadline and the credit
are inductive together with the types; the other three rest on `LoopInv`: a
question's number is inside the set, only an empty set ends the program, and the
summary is reached only past the last question or the deadline. The refinement needs `ScoreInv`: a round has the questions its level
asks for, and at each point of the loop no more right answers than questions that
have been answered. The multipliers are the code's three numbers, so `Levels` gives
the arithmetic by cases.

`QuestionSet_proofs`, for any numbers of questions wanted, any tables, and whether
or not SQLite fails: `QuestionsUseWrapper`, that every use of the handle is a step
of `SqliteWrapper`, so that `WrapperInv` holds here too (`WrapperHolds`), and
`QuestionsTypeOK`, `QuestionsWholeOrEmpty`, `QuestionsAreDrawn` and
`QuestionsReliable`. The assumptions are those of `SqliteWrapper` in this
client's terms; `NoneIsNoStatement` says that a statement is not the null pointer.
`QuestionInv` has five parts besides the types. `KeptInv` is the heart of it: the
rows kept and the numbers left in the queue are together the numbers drawn, none
twice, which `Take` and every exchange of the shuffle keep (`KeptOneMore`,
`SwapKeeps`). `StageInv` says how far the draw and the walk are at each place of the
code, `EnoughInv` that a reliable handle had enough rows, and `CursorInv` that the
cursor is on the row before the one the walk comes to next while no number of the
queue has been passed, which is why each number is met. That the queue's least
number exists (`MinIsLeast`) is the well-foundedness of the naturals.

`SqliteWrapper_proofs`, for any files and statements, reliable or flaky:
`WrapperRowNeedsStatement`, `WrapperCountIsComplete`, `WrapperCountThenIterate`,
`WrapperRowIsHeld`. `WrapperInv` adds `StatementInv`, that a statement belongs to
the connection the handle holds, and two parts about a reliable handle:
`CountingInv`, that the counting loop has counted the rows up to the one its cursor
is on, and `CursorInv`, that the executions since a statement was set or counted
are the position of the cursor.

`EventLoop_proofs`, for any accounts and any options: `LoopStaleCodeIsHarmless`,
`LoopNoSessionBeforeLogIn`, `LoopOffMenuChangesNothing`, `LoopMusicFlagIsTrue`,
`LoopNameChangesAtProfile`. `LoopInv` adds `WaitingInv`, which frame each callback
was called from; `ControlOf` shows that an option the frame accepts, also one
converted from a negative number, is one of its controls, and `DispatchStep` that
a dispatch with any of their codes keeps the invariant. `OffMenuIndex` is why an
option off the menu is refused: converted to unsigned, a negative int is at least
half of `UIntSize`, which the assumption makes no less than the longest menu, whose
length is `MenuLength`.

`FileLocks_proofs`, for any number of connections, of pages and of writing
statements, with processes that stop at any step: `FileTypeOK`,
`FileReadLockIsRegained`, `FileJournalHasOneOwner`, `FileReadsTheCommitted`, and
`FileImplementsAtomicFile`, that only the deletion of the journal at a commit
changes what `AtomicFile` sees, and only a complete read gives an answer. The
assumptions: there is at least one page, and the bound on statements is a number.
None of the properties is inductive. That the shared lock is always regained, for
instance, rests on the pending byte the writer holds until then, and that a
statement reads what was committed rests on every step that a writer or a
recovery took before it. `Inv` has two halves. `ControlInv` is about the locks: it
sees the lock table as four sets of holders, with one lemma for each operation on
it (`TakePending`, `TakeExclusiveLock`, `DropLocks` and so on), and says which of
them a connection is in at each place in the code. From it follows `Exclusion`:
who changes the file is alone, and a journal has one owner. `DataParts` says what the file, the journal and the
caches hold at each place: whether a journal still has to be played back
(`JournalInv`), how far the loops over the pages are (`PageInv`), that no record
mixes two commits (`UniformInv`), and that a cache has the file's content as far as
it was read, and one update more once it was written to (`DataInv`).

`Leaderboard_proofs`, for any number of windows, any names, any `LIMIT` and any
faults: `BoardTypeCorrect`, `BoardLinesAreOneMoment`, `BoardDisplayIsComplete`,
`BoardDisplayStopsForOthers`, and `BoardNeverOverCredited`, which carries the
store's over: a display changes nothing the store knows of, and what other windows
do is a step of `PlayerStore`. The assumptions are that finitely many names are
enrolled and that the alphabet lists every name, so that the order is total. The
query gives each row the place that as many rows come before, so that it is a
sequence only if every place is taken once: `EachPlaceIsTaken` shows it, by
counting, for any finite set of rows (`RowsStayFinite`). `LinesInv` says that a
display with a line on the console holds the shared lock and has printed a prefix
of what the query finds now; no window can change the board under it (`ListedStays`,
`QuietBoard`). `AloneInv` says the same of a display without lines that nobody came
near, which makes its count right.

`Game_proofs`, for any names, options, rounds and faults: `GameTypeCorrect`,
`GameStepsMatch`, `GameSamePlayer`, `GamePointsFromOwnRound`. `LoopInv` says where
the loop can be for each frame, `CreditedRound` that what `updatePlayerPoints` has
in hand is the round just settled, in its menu's mode, and `EndedIsGuest` that a
process leaves no name to the next. `DispatchReaches` and `MenuReaches` work out
where a dispatch can end, and each kind of step has a lemma. `GameIsStore` then
shows that the composed window is a window of `PlayerStore`, so that what is proved
of that module carries over; `GameImplementsLedger` is such a consequence, whatever
fails and wherever the window is closed. The assumptions tie the components together: the window is the only one, the modes are
the two games, and what a round can be worth is among the store's awards.

Only model-checked: the liveness properties `AwardReachesBoard`, `RoundEnds` and
`SetArrives`, which are out of the prover's reach because they rest on fairness.
Every other property of the passing runs is stated by a theorem. The three findings
are counterexamples of TLC; what is true in their place is the hypotheses above.
The type invariants that theorems rest on and no run lists under its own name are
parts of those that are checked: `GameTypeOK` holds those of `PlayerStore` and
`EventLoop`, `QuestionSet`'s `TypeOK` that of `SqliteWrapper`. `Leaderboard`'s
`LbTypeOK` is proved and not listed.

## Not modelled

- Most of the lines in `src/` are vendored or generated: `sqlite3.c` and
  `sqlite3.h`, bcrypt, and the files CMake leaves behind. Of SQLite, the parser,
  code generator, virtual machine and b-trees are left out, and of the pager the
  other journal modes, savepoints and write-ahead logging, which the game never
  switches on. bcrypt is a pure function; a stored hash is the password it
  validates.
- `FileLocks` leaves out loss of power, and with it the syncs and the journal's
  checksums; that Windows refuses to delete a journal another process has open, or
  frees a killed process's locks with a delay; and statements that fail halfway
  for want of space.
- Console output and animations keep no state. `getValidInput` repeats until the
  input has the right type; the models take typed input as given.
- The text of questions and answers: a question is its row.
- Object lifetimes (frames deleted by the callback's own dispatch, the parameters
  allocated with `new`) are left out.

## Plan

Done: all modules that were planned, with proofs for every module but the two
abstract specifications and `AtomicFile`, which are what others are shown to
implement.

What could come next: that one statement of `PlayerStore` is one commit of
`AtomicFile`, as a refinement rather than by the argument above; that a round of
`Quiz` is loaded by `QuestionSet`; the game with several windows.
