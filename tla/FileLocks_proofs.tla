-------------------------- MODULE FileLocks_proofs --------------------------
(***************************************************************************)
(* Proofs about FileLocks, for any number of connections, of pages and of  *)
(* statements.                                                             *)
(*                                                                         *)
(* The invariant has two halves.  ControlInv says which lock is held at    *)
(* which place; it sees the lock table only as four sets of holders, and a *)
(* lemma for each operation says what it does to them.  Exclusion, which   *)
(* follows from it, is all that the other half needs of the locks: when    *)
(* there is a journal to roll back (JournalInv), where the loops over pages*)
(* are (PageInv), that no record mixes two commits (UniformInv), and what  *)
(* file, journal and memory have in common (DataInv).                      *)
(***************************************************************************)
EXTENDS FileLocks, SequenceTheorems, TLAPS

-----------------------------------------------------------------------------
(* Who holds what, as sets of connections.                                 *)

HoldsPending   == {c \in Connections : [by |-> c, range |-> "pending",  exclusive |-> TRUE] \in held}
HoldsReserved  == {c \in Connections : [by |-> c, range |-> "reserved", exclusive |-> TRUE] \in held}
HoldsShared    == {c \in Connections : [by |-> c, range |-> "shared",   exclusive |-> FALSE] \in held}
HoldsExclusive == {c \in Connections : [by |-> c, range |-> "shared",   exclusive |-> TRUE] \in held}

\* Places by what the connection may rely on there.
Alone == {"recover", "replay", "discard", "sync", "write", "commit", "toShared"}

Waiting == Alone \union
    {"shared", "dropPending", "exchange", "exclusive", "regain", "sharedAgain"}

Reading ==
    {"dropPending", "access", "checkReserved", "probed", "peek", "hotPending", "exchange",
     "validate", "reserve", "read", "openJournal", "commitPending", "rollback",
     "release", "lower", "lowerToRead", "done"}

Raising == {"exchange", "exclusive", "regain"}

\* With a journal of its own, ...
Changed == {"commitPending", "sync", "write", "commit", "rollback"}

\* ... and while it may still need its reserved lock.
Writing == Changed \union Raising \union {"read", "openJournal", "toShared", "sharedAgain", "release"}

\* Behind the look for a journal left behind.
Checked ==
    {"validate", "reserve", "read", "openJournal", "commitPending", "sync", "rollback",
     "toShared", "sharedAgain", "release", "lower", "lowerToRead", "done"}

\* A lock is raised for a commit, not for a recovery.
Commits(c) == at[c] \in Raising /\ lock[c] = RESERVED_LOCK

\* The operating system keeps exclusive locks apart from all others.
LockInv ==
    /\ \A c, d \in HoldsPending : c = d
    /\ \A c, d \in HoldsReserved : c = d
    /\ \A c, d \in HoldsExclusive : c = d
    /\ HoldsExclusive = {} \/ HoldsShared = {}

\* What is held at each place.
PlaceInv ==
    /\ HoldsExclusive = {c \in Connections : at[c] \in Alone}
    /\ \A c \in Connections :
         /\ at[c] \in Waiting => c \in HoldsPending
         /\ at[c] \in Reading => c \in HoldsShared
         /\ at[c] \in Changed \union {"openJournal"} => c \in HoldsReserved
         /\ at[c] = "read" /\ writes[c] => c \in HoldsReserved

\* locktype agrees with the reserved lock where the code decides by it.
TypeInv ==
    \A c \in Connections :
        /\ c \in HoldsReserved =>
              /\ at[c] \in Writing /\ writes[c]
              /\ at[c] \in Raising => lock[c] = RESERVED_LOCK
        /\ Commits(c) => c \in HoldsReserved
        /\ at[c] \in {"access", "checkReserved", "probed", "peek", "hotPending",
                      "validate", "reserve"} => lock[c] = SHARED_LOCK
        /\ at[c] \in {"openJournal", "commitPending"} => lock[c] = RESERVED_LOCK
        /\ at[c] = "read" /\ writes[c] => lock[c] = RESERVED_LOCK
        /\ at[c] \in {"reserve", "lower"} => writes[c]

\* No connection is past its look for a journal while one is needed.
JournalInv ==
    \A c \in Connections :
        /\ at[c] \in Checked \/ Commits(c) => journal # "hot"
        /\ at[c] \in {"replay", "write", "commit"} => journal = "hot"

\* Where the loops over the pages are.
PagesAt(c) ==
    /\ at[c] \notin {"read", "replay", "write"} => page[c] = 1
    /\ at[c] = "read" => \A k \in Pages : k < page[c] => k \in DOMAIN cache[c]
    /\ at[c] \in Changed \union {"openJournal"} \/ Commits(c) => DOMAIN cache[c] = Pages
    /\ at[c] = "done" /\ ~writes[c] => DOMAIN cache[c] = Pages

PageInv == \A c \in Connections : PagesAt(c)

\* What is recorded and cached is of one commit each, ...
UniformInv ==
    /\ \A j, k \in Pages : saved[j] = saved[k] /\ Committed[j] = Committed[k]
    /\ \A c \in Connections : \A j, k \in DOMAIN cache[c] : cache[c][j] = cache[c][k]

\* ... and agrees with the file as far as the statement has come.
DataAt(c) ==
    /\ at[c] \in {"reserve", "read", "openJournal"} \/ (at[c] = "done" /\ ~writes[c]) =>
           \A k \in DOMAIN cache[c] : cache[c][k] = file[k]
    /\ at[c] \in {"commitPending", "sync"} \/ Commits(c) => saved = file
    /\ at[c] \in {"commitPending", "sync", "write", "commit"} \/ Commits(c) =>
           \A k \in Pages : cache[c][k] = saved[k] + 1
    /\ at[c] = "write" => \A k \in Pages : k < page[c] => file[k] = cache[c][k]
    /\ at[c] = "commit" => \A k \in Pages : file[k] = cache[c][k]
    /\ at[c] = "replay" => \A k \in Pages : k < page[c] => file[k] = saved[k]
    /\ at[c] = "discard" /\ journal = "hot" => file = saved

DataInv == \A c \in Connections : DataAt(c)

ControlInv == LockInv /\ PlaceInv /\ TypeInv

DataParts == JournalInv /\ PageInv /\ UniformInv /\ DataInv

Inv == TypeOK /\ ControlInv /\ DataParts

\* A step of one connection.
Acts(c) == Begin(c) \/ SharedLock(c) \/ Transaction(c) \/ Unlock(c) \/ Crash(c)

-----------------------------------------------------------------------------
(* What the operations on locks do to the four sets of holders.            *)

SameHolders ==
    /\ HoldsPending' = HoldsPending /\ HoldsReserved' = HoldsReserved
    /\ HoldsShared' = HoldsShared /\ HoldsExclusive' = HoldsExclusive

PendingGot(c) ==
    /\ HoldsPending = {} /\ HoldsPending' = {c} /\ HoldsReserved' = HoldsReserved
    /\ HoldsShared' = HoldsShared /\ HoldsExclusive' = HoldsExclusive

ReservedGot(c) ==
    /\ HoldsReserved = {} /\ HoldsReserved' = {c} /\ HoldsPending' = HoldsPending
    /\ HoldsShared' = HoldsShared /\ HoldsExclusive' = HoldsExclusive

SharedGot(c) ==
    /\ HoldsExclusive = {} /\ HoldsExclusive' = {} /\ HoldsShared' = HoldsShared \union {c}
    /\ HoldsPending' = HoldsPending /\ HoldsReserved' = HoldsReserved

ExclusiveGot(c) ==
    /\ HoldsExclusive = {} /\ HoldsExclusive' = {c} /\ HoldsShared = {} /\ HoldsShared' = {}
    /\ HoldsPending' = HoldsPending /\ HoldsReserved' = HoldsReserved

LEMMA KeepLocks == ASSUME UNCHANGED held PROVE SameHolders
BY DEF SameHolders, HoldsPending, HoldsReserved, HoldsShared, HoldsExclusive

LEMMA TakePending ==
    ASSUME NEW c \in Connections, NEW from, NEW got, NEW refused,
           Take(c, from, "pending", TRUE, got, refused)
    PROVE  \/ Step(c, from, got) /\ PendingGot(c)
           \/ Step(c, from, refused) /\ SameHolders
<1>1. CASE Free("pending", TRUE)
  <2>1. PendingGot(c)
    BY <1>1 DEF Take, Free, PendingGot, HoldsPending, HoldsReserved, HoldsShared, HoldsExclusive
  <2>2. QED  BY <1>1, <2>1 DEF Take
<1>2. QED  BY <1>1, KeepLocks DEF Take

LEMMA TakeReserved ==
    ASSUME NEW c \in Connections, NEW from, NEW got, NEW refused,
           Take(c, from, "reserved", TRUE, got, refused)
    PROVE  \/ Step(c, from, got) /\ ReservedGot(c)
           \/ Step(c, from, refused) /\ SameHolders
<1>1. CASE Free("reserved", TRUE)
  <2>1. ReservedGot(c)
    BY <1>1 DEF Take, Free, ReservedGot, HoldsPending, HoldsReserved, HoldsShared, HoldsExclusive
  <2>2. QED  BY <1>1, <2>1 DEF Take
<1>2. QED  BY <1>1, KeepLocks DEF Take

\* A lock refused is held by some connection.
LEMMA TakeSharedLock ==
    ASSUME TypeOK, NEW c \in Connections, NEW from, NEW got, NEW refused,
           Take(c, from, "shared", FALSE, got, refused)
    PROVE  \/ Step(c, from, got) /\ SharedGot(c)
           \/ Step(c, from, refused) /\ SameHolders /\ HoldsExclusive # {}
<1>1. CASE Free("shared", FALSE)
  <2>1. SharedGot(c)
    BY <1>1 DEF Take, Free, SharedGot, HoldsPending, HoldsReserved, HoldsShared, HoldsExclusive
  <2>2. QED  BY <1>1, <2>1 DEF Take
<1>2. CASE ~Free("shared", FALSE)
  <2>1. PICK h \in held : h.range = "shared" /\ h.exclusive
    BY <1>2 DEF Free
  <2>2. h = [by |-> h.by, range |-> "shared", exclusive |-> TRUE] /\ h.by \in Connections
    BY <2>1 DEF TypeOK, Locks
  <2>3. HoldsExclusive # {}
    BY <2>2 DEF HoldsExclusive
  <2>4. QED  BY <1>2, <2>3, KeepLocks DEF Take
<1>3. QED  BY <1>1, <1>2

LEMMA TakeExclusiveLock ==
    ASSUME NEW c \in Connections, NEW from, NEW got, NEW refused,
           Take(c, from, "shared", TRUE, got, refused)
    PROVE  \/ Step(c, from, got) /\ ExclusiveGot(c)
           \/ Step(c, from, refused) /\ SameHolders
<1>1. CASE Free("shared", TRUE)
  <2>1. ExclusiveGot(c)
    BY <1>1 DEF Take, Free, ExclusiveGot, HoldsPending, HoldsReserved, HoldsShared, HoldsExclusive
  <2>2. QED  BY <1>1, <2>1 DEF Take
<1>2. QED  BY <1>1, KeepLocks DEF Take

\* winCheckReservedLock leaves the locks that matter as they are.
LEMMA ProbeReserved ==
    ASSUME TypeOK, NEW c \in Connections, NEW from, NEW got, NEW refused,
           Take(c, from, "reserved", FALSE, got, refused)
    PROVE  /\ SameHolders
           /\ Step(c, from, got) \/ (Step(c, from, refused) /\ HoldsReserved # {})
<1>1. CASE Free("reserved", FALSE)
  <2>1. SameHolders
    BY <1>1 DEF Take, SameHolders, HoldsPending, HoldsReserved, HoldsShared, HoldsExclusive
  <2>2. QED  BY <1>1, <2>1 DEF Take
<1>2. CASE ~Free("reserved", FALSE)
  <2>1. PICK h \in held : h.range = "reserved" /\ h.exclusive
    BY <1>2 DEF Free
  <2>2. h = [by |-> h.by, range |-> "reserved", exclusive |-> TRUE] /\ h.by \in Connections
    BY <2>1 DEF TypeOK, Locks
  <2>3. HoldsReserved # {}
    BY <2>2 DEF HoldsReserved
  <2>4. QED  BY <1>2, <2>3, KeepLocks DEF Take
<1>3. QED  BY <1>1, <1>2

LEMMA DropLocks ==
    ASSUME NEW c \in Connections, NEW ranges, Drop(c, ranges)
    PROVE  /\ HoldsPending' = IF "pending" \in ranges THEN HoldsPending \ {c} ELSE HoldsPending
           /\ HoldsReserved' = IF "reserved" \in ranges THEN HoldsReserved \ {c} ELSE HoldsReserved
           /\ HoldsShared' = IF "shared" \in ranges THEN HoldsShared \ {c} ELSE HoldsShared
           /\ HoldsExclusive' = IF "shared" \in ranges THEN HoldsExclusive \ {c} ELSE HoldsExclusive
BY DEF Drop, HoldsPending, HoldsReserved, HoldsShared, HoldsExclusive

-----------------------------------------------------------------------------
(* Control.                                                                *)

LEMMA ControlStep ==
    ASSUME TypeOK, ControlInv, NEW c \in Connections, Acts(c)
    PROVE  ControlInv'
<1>1. at \in [Connections -> Places] /\ lock \in [Connections -> NO_LOCK..EXCLUSIVE_LOCK]
      /\ writes \in [Connections -> BOOLEAN]
  BY DEF TypeOK
<1>2. CASE Begin(c)
  <2>1. SameHolders
    BY <1>2, KeepLocks DEF Begin
  <2>2. QED
    BY <1>1, <1>2, <2>1 DEF SameHolders, Begin, Step, SetLock, ControlInv, LockInv,
       PlaceInv, TypeInv, Alone, Waiting, Reading, Raising, Changed, Writing,
       Commits, NO_LOCK, SHARED_LOCK, RESERVED_LOCK, PENDING_LOCK, EXCLUSIVE_LOCK
<1>3. CASE TakePendingForShared(c)
  <2>1. Take(c, "pendingForShared", "pending", TRUE, "shared", "failed")
    BY <1>3 DEF TakePendingForShared
  <2>2. \/ Step(c, "pendingForShared", "shared") /\ PendingGot(c)
        \/ Step(c, "pendingForShared", "failed") /\ SameHolders
    BY <2>1, TakePending
  <2>3. QED
    BY <1>1, <1>3, <2>2 DEF SameHolders, PendingGot, TakePendingForShared, Step,
       SetLock, ControlInv, LockInv, PlaceInv, TypeInv, Alone, Waiting, Reading,
       Raising, Changed, Writing, Commits, NO_LOCK, SHARED_LOCK, RESERVED_LOCK,
       PENDING_LOCK, EXCLUSIVE_LOCK
<1>4. CASE TakeShared(c)
  <2>1. Take(c, "shared", "shared", FALSE, "dropPending", "failed")
    BY <1>4 DEF TakeShared
  <2>2. \/ Step(c, "shared", "dropPending") /\ SharedGot(c)
        \/ Step(c, "shared", "failed") /\ SameHolders /\ HoldsExclusive # {}
    BY <2>1, TakeSharedLock
  <2>3. QED
    BY <1>1, <1>4, <2>2 DEF SameHolders, SharedGot, TakeShared, Step, SetLock,
       ControlInv, LockInv, PlaceInv, TypeInv, Alone, Waiting, Reading, Raising,
       Changed, Writing, Commits, NO_LOCK, SHARED_LOCK, RESERVED_LOCK, PENDING_LOCK,
       EXCLUSIVE_LOCK
<1>5. CASE DropPending(c)
  <2>1. Drop(c, {"pending"})
    BY <1>5 DEF DropPending
  <2>2. QED
    BY <1>1, <1>5, <2>1, DropLocks DEF DropPending, Step, SetLock, ControlInv,
       LockInv, PlaceInv, TypeInv, Alone, Waiting, Reading, Raising, Changed,
       Writing, Commits, NO_LOCK, SHARED_LOCK, RESERVED_LOCK, PENDING_LOCK,
       EXCLUSIVE_LOCK
<1>6. CASE Access(c)
  <2>1. SameHolders
    BY <1>6, KeepLocks DEF Access
  <2>2. QED
    BY <1>1, <1>6, <2>1 DEF SameHolders, Access, Step, SetLock, ControlInv, LockInv,
       PlaceInv, TypeInv, Alone, Waiting, Reading, Raising, Changed, Writing,
       Commits, NO_LOCK, SHARED_LOCK, RESERVED_LOCK, PENDING_LOCK, EXCLUSIVE_LOCK
<1>7. CASE CheckReserved(c)
  <2>1. Take(c, "checkReserved", "reserved", FALSE, "probed", "validate")
    BY <1>7 DEF CheckReserved
  <2>2. /\ SameHolders
        /\ Step(c, "checkReserved", "probed") \/ (Step(c, "checkReserved", "validate") /\ HoldsReserved # {})
    BY <2>1, ProbeReserved
  <2>3. QED
    BY <1>1, <1>7, <2>2 DEF SameHolders, CheckReserved, Step, SetLock, ControlInv,
       LockInv, PlaceInv, TypeInv, Alone, Waiting, Reading, Raising, Changed,
       Writing, Commits, NO_LOCK, SHARED_LOCK, RESERVED_LOCK, PENDING_LOCK,
       EXCLUSIVE_LOCK
<1>8. CASE Probed(c)
  <2>1. Drop(c, {"reserved"})
    BY <1>8 DEF Probed
  <2>2. QED
    BY <1>1, <1>8, <2>1, DropLocks DEF Probed, Step, SetLock, ControlInv, LockInv,
       PlaceInv, TypeInv, Alone, Waiting, Reading, Raising, Changed, Writing,
       Commits, NO_LOCK, SHARED_LOCK, RESERVED_LOCK, PENDING_LOCK, EXCLUSIVE_LOCK
<1>9. CASE Peek(c)
  <2>1. SameHolders
    BY <1>9, KeepLocks DEF Peek
  <2>2. QED
    BY <1>1, <1>9, <2>1 DEF SameHolders, Peek, Step, SetLock, ControlInv, LockInv,
       PlaceInv, TypeInv, Alone, Waiting, Reading, Raising, Changed, Writing,
       Commits, NO_LOCK, SHARED_LOCK, RESERVED_LOCK, PENDING_LOCK, EXCLUSIVE_LOCK
<1>10. CASE HotPending(c)
  <2>1. Take(c, "hotPending", "pending", TRUE, "exchange", "failed")
    BY <1>10 DEF HotPending
  <2>2. \/ Step(c, "hotPending", "exchange") /\ PendingGot(c)
        \/ Step(c, "hotPending", "failed") /\ SameHolders
    BY <2>1, TakePending
  <2>3. QED
    BY <1>1, <1>10, <2>2 DEF SameHolders, PendingGot, HotPending, Step, SetLock,
       ControlInv, LockInv, PlaceInv, TypeInv, Alone, Waiting, Reading, Raising,
       Changed, Writing, Commits, NO_LOCK, SHARED_LOCK, RESERVED_LOCK, PENDING_LOCK,
       EXCLUSIVE_LOCK
<1>11. CASE Recover(c)
  <2>1. SameHolders
    BY <1>11, KeepLocks DEF Recover
  <2>2. QED
    BY <1>1, <1>11, <2>1 DEF SameHolders, Recover, Step, SetLock, ControlInv,
       LockInv, PlaceInv, TypeInv, Alone, Waiting, Reading, Raising, Changed,
       Writing, Commits, NO_LOCK, SHARED_LOCK, RESERVED_LOCK, PENDING_LOCK,
       EXCLUSIVE_LOCK
<1>12. CASE Replay(c)
  <2>1. SameHolders
    BY <1>12, KeepLocks DEF Replay
  <2>2. QED
    BY <1>1, <1>12, <2>1 DEF SameHolders, Replay, Step, SetLock, ControlInv,
       LockInv, PlaceInv, TypeInv, Alone, Waiting, Reading, Raising, Changed,
       Writing, Commits, NO_LOCK, SHARED_LOCK, RESERVED_LOCK, PENDING_LOCK,
       EXCLUSIVE_LOCK
<1>13. CASE Discard(c)
  <2>1. SameHolders
    BY <1>13, KeepLocks DEF Discard
  <2>2. QED
    BY <1>1, <1>13, <2>1 DEF SameHolders, Discard, Step, SetLock, ControlInv,
       LockInv, PlaceInv, TypeInv, Alone, Waiting, Reading, Raising, Changed,
       Writing, Commits, NO_LOCK, SHARED_LOCK, RESERVED_LOCK, PENDING_LOCK,
       EXCLUSIVE_LOCK
<1>14. CASE Validate(c)
  <2>1. SameHolders
    BY <1>14, KeepLocks DEF Validate
  <2>2. QED
    BY <1>1, <1>14, <2>1 DEF SameHolders, Validate, Step, SetLock, ControlInv,
       LockInv, PlaceInv, TypeInv, Alone, Waiting, Reading, Raising, Changed,
       Writing, Commits, NO_LOCK, SHARED_LOCK, RESERVED_LOCK, PENDING_LOCK,
       EXCLUSIVE_LOCK
<1>15. CASE Reserve(c)
  <2>1. Take(c, "reserve", "reserved", TRUE, "read", "failed")
    BY <1>15 DEF Reserve
  <2>2. \/ Step(c, "reserve", "read") /\ ReservedGot(c)
        \/ Step(c, "reserve", "failed") /\ SameHolders
    BY <2>1, TakeReserved
  <2>3. QED
    BY <1>1, <1>15, <2>2 DEF SameHolders, ReservedGot, Reserve, Step, SetLock,
       ControlInv, LockInv, PlaceInv, TypeInv, Alone, Waiting, Reading, Raising,
       Changed, Writing, Commits, NO_LOCK, SHARED_LOCK, RESERVED_LOCK, PENDING_LOCK,
       EXCLUSIVE_LOCK
<1>16. CASE Read(c)
  <2>1. SameHolders
    BY <1>16, KeepLocks DEF Read
  <2>2. QED
    BY <1>1, <1>16, <2>1 DEF SameHolders, Read, Step, SetLock, ControlInv, LockInv,
       PlaceInv, TypeInv, Alone, Waiting, Reading, Raising, Changed, Writing,
       Commits, NO_LOCK, SHARED_LOCK, RESERVED_LOCK, PENDING_LOCK, EXCLUSIVE_LOCK
<1>17. CASE OpenJournal(c)
  <2>1. SameHolders
    BY <1>17, KeepLocks DEF OpenJournal
  <2>2. QED
    BY <1>1, <1>17, <2>1 DEF SameHolders, OpenJournal, Step, SetLock, ControlInv,
       LockInv, PlaceInv, TypeInv, Alone, Waiting, Reading, Raising, Changed,
       Writing, Commits, NO_LOCK, SHARED_LOCK, RESERVED_LOCK, PENDING_LOCK,
       EXCLUSIVE_LOCK
<1>18. CASE CommitPending(c)
  <2>1. Take(c, "commitPending", "pending", TRUE, "exchange", "rollback")
    BY <1>18 DEF CommitPending
  <2>2. \/ Step(c, "commitPending", "exchange") /\ PendingGot(c)
        \/ Step(c, "commitPending", "rollback") /\ SameHolders
    BY <2>1, TakePending
  <2>3. QED
    BY <1>1, <1>18, <2>2 DEF SameHolders, PendingGot, CommitPending, Step, SetLock,
       ControlInv, LockInv, PlaceInv, TypeInv, Alone, Waiting, Reading, Raising,
       Changed, Writing, Commits, NO_LOCK, SHARED_LOCK, RESERVED_LOCK, PENDING_LOCK,
       EXCLUSIVE_LOCK
<1>19. CASE Exchange(c)
  <2>1. Drop(c, {"shared"})
    BY <1>19 DEF Exchange
  <2>2. QED
    BY <1>1, <1>19, <2>1, DropLocks DEF Exchange, Step, SetLock, ControlInv,
       LockInv, PlaceInv, TypeInv, Alone, Waiting, Reading, Raising, Changed,
       Writing, Commits, NO_LOCK, SHARED_LOCK, RESERVED_LOCK, PENDING_LOCK,
       EXCLUSIVE_LOCK
<1>20. CASE TakeExclusive(c)
  <2>1. Take(c, "exclusive", "shared", TRUE,
             IF lock[c] = RESERVED_LOCK THEN "sync" ELSE "recover", "regain")
    BY <1>20 DEF TakeExclusive
  <2>2. \/ Step(c, "exclusive", IF lock[c] = RESERVED_LOCK THEN "sync" ELSE "recover") /\ ExclusiveGot(c)
        \/ Step(c, "exclusive", "regain") /\ SameHolders
    BY <2>1, TakeExclusiveLock
  <2>3. QED
    BY <1>1, <1>20, <2>2 DEF SameHolders, ExclusiveGot, TakeExclusive, Step,
       SetLock, ControlInv, LockInv, PlaceInv, TypeInv, Alone, Waiting, Reading,
       Raising, Changed, Writing, Commits, NO_LOCK, SHARED_LOCK, RESERVED_LOCK,
       PENDING_LOCK, EXCLUSIVE_LOCK
<1>21. CASE Regain(c)
  <2>1. Take(c, "regain", "shared", FALSE,
             IF lock[c] = RESERVED_LOCK THEN "rollback" ELSE "failed",
             IF lock[c] = RESERVED_LOCK THEN "rollback" ELSE "failed")
    BY <1>21 DEF Regain
  <2>2. \/ Step(c, "regain", IF lock[c] = RESERVED_LOCK THEN "rollback" ELSE "failed") /\ SharedGot(c)
        \/ Step(c, "regain", IF lock[c] = RESERVED_LOCK THEN "rollback" ELSE "failed") /\ SameHolders /\ HoldsExclusive # {}
    BY <2>1, TakeSharedLock
  <2>3. QED
    BY <1>1, <1>21, <2>2 DEF SameHolders, SharedGot, Regain, Step, SetLock,
       ControlInv, LockInv, PlaceInv, TypeInv, Alone, Waiting, Reading, Raising,
       Changed, Writing, Commits, NO_LOCK, SHARED_LOCK, RESERVED_LOCK, PENDING_LOCK,
       EXCLUSIVE_LOCK
<1>22. CASE Sync(c)
  <2>1. SameHolders
    BY <1>22, KeepLocks DEF Sync
  <2>2. QED
    BY <1>1, <1>22, <2>1 DEF SameHolders, Sync, Step, SetLock, ControlInv, LockInv,
       PlaceInv, TypeInv, Alone, Waiting, Reading, Raising, Changed, Writing,
       Commits, NO_LOCK, SHARED_LOCK, RESERVED_LOCK, PENDING_LOCK, EXCLUSIVE_LOCK
<1>23. CASE Write(c)
  <2>1. SameHolders
    BY <1>23, KeepLocks DEF Write
  <2>2. QED
    BY <1>1, <1>23, <2>1 DEF SameHolders, Write, Step, SetLock, ControlInv, LockInv,
       PlaceInv, TypeInv, Alone, Waiting, Reading, Raising, Changed, Writing,
       Commits, NO_LOCK, SHARED_LOCK, RESERVED_LOCK, PENDING_LOCK, EXCLUSIVE_LOCK
<1>24. CASE Commit(c)
  <2>1. SameHolders
    BY <1>24, KeepLocks DEF Commit
  <2>2. QED
    BY <1>1, <1>24, <2>1 DEF SameHolders, Commit, Step, SetLock, ControlInv,
       LockInv, PlaceInv, TypeInv, Alone, Waiting, Reading, Raising, Changed,
       Writing, Commits, NO_LOCK, SHARED_LOCK, RESERVED_LOCK, PENDING_LOCK,
       EXCLUSIVE_LOCK
<1>25. CASE Rollback(c)
  <2>1. SameHolders
    BY <1>25, KeepLocks DEF Rollback
  <2>2. QED
    BY <1>1, <1>25, <2>1 DEF SameHolders, Rollback, Step, SetLock, ControlInv,
       LockInv, PlaceInv, TypeInv, Alone, Waiting, Reading, Raising, Changed,
       Writing, Commits, NO_LOCK, SHARED_LOCK, RESERVED_LOCK, PENDING_LOCK,
       EXCLUSIVE_LOCK
<1>26. CASE ToShared(c)
  <2>1. Drop(c, {"shared"})
    BY <1>26 DEF ToShared
  <2>2. QED
    BY <1>1, <1>26, <2>1, DropLocks DEF ToShared, Step, SetLock, ControlInv,
       LockInv, PlaceInv, TypeInv, Alone, Waiting, Reading, Raising, Changed,
       Writing, Commits, NO_LOCK, SHARED_LOCK, RESERVED_LOCK, PENDING_LOCK,
       EXCLUSIVE_LOCK
<1>27. CASE SharedAgain(c)
  <2>1. Take(c, "sharedAgain", "shared", FALSE, "release", "failed")
    BY <1>27 DEF SharedAgain
  <2>2. \/ Step(c, "sharedAgain", "release") /\ SharedGot(c)
        \/ Step(c, "sharedAgain", "failed") /\ SameHolders /\ HoldsExclusive # {}
    BY <2>1, TakeSharedLock
  <2>3. QED
    BY <1>1, <1>27, <2>2 DEF SameHolders, SharedGot, SharedAgain, Step, SetLock,
       ControlInv, LockInv, PlaceInv, TypeInv, Alone, Waiting, Reading, Raising,
       Changed, Writing, Commits, NO_LOCK, SHARED_LOCK, RESERVED_LOCK, PENDING_LOCK,
       EXCLUSIVE_LOCK
<1>28. CASE Release(c)
  <2>1. Drop(c, {"reserved"})
    BY <1>28 DEF Release
  <2>2. at'[c] = "lower" => c \in HoldsReserved
    BY <1>1, <1>28 DEF Release, Step, HoldsReserved
  <2>3. QED
    BY <1>1, <1>28, <2>1, <2>2, DropLocks DEF Release, Step, SetLock, ControlInv,
       LockInv, PlaceInv, TypeInv, Alone, Waiting, Reading, Raising, Changed,
       Writing, Commits, NO_LOCK, SHARED_LOCK, RESERVED_LOCK, PENDING_LOCK,
       EXCLUSIVE_LOCK
<1>29. CASE Lower(c)
  <2>1. Drop(c, {"pending"})
    BY <1>29 DEF Lower
  <2>2. QED
    BY <1>1, <1>29, <2>1, DropLocks DEF Lower, Step, SetLock, ControlInv, LockInv,
       PlaceInv, TypeInv, Alone, Waiting, Reading, Raising, Changed, Writing,
       Commits, NO_LOCK, SHARED_LOCK, RESERVED_LOCK, PENDING_LOCK, EXCLUSIVE_LOCK
<1>30. CASE End(c)
  <2>1. Drop(c, Ranges)
    BY <1>30 DEF End
  <2>2. QED
    BY <1>1, <1>30, <2>1, DropLocks DEF Ranges, End, Step, SetLock, ControlInv,
       LockInv, PlaceInv, TypeInv, Alone, Waiting, Reading, Raising, Changed,
       Writing, Commits, NO_LOCK, SHARED_LOCK, RESERVED_LOCK, PENDING_LOCK,
       EXCLUSIVE_LOCK
<1>31. CASE Crash(c)
  <2>1. Drop(c, Ranges)
    BY <1>31 DEF Crash
  <2>2. QED
    BY <1>1, <1>31, <2>1, DropLocks DEF Ranges, Crash, Step, SetLock, ControlInv,
       LockInv, PlaceInv, TypeInv, Alone, Waiting, Reading, Raising, Changed,
       Writing, Commits, NO_LOCK, SHARED_LOCK, RESERVED_LOCK, PENDING_LOCK,
       EXCLUSIVE_LOCK
<1>32. QED
  BY <1>2, <1>3, <1>4, <1>5, <1>6, <1>7, <1>8, <1>9, <1>10, <1>11, <1>12, <1>13, <1>14,
     <1>15, <1>16, <1>17, <1>18, <1>19, <1>20, <1>21, <1>22, <1>23, <1>24, <1>25,
     <1>26, <1>27, <1>28, <1>29, <1>30, <1>31 DEF Acts, SharedLock, Transaction, Unlock

-----------------------------------------------------------------------------
(* The journal and the pages.                                              *)

\* A connection that is alone is so, and a journal belongs to one.
LEMMA Exclusion ==
    ASSUME ControlInv, NEW c \in Connections, NEW d \in Connections, c # d
    PROVE  /\ at[c] \in Alone => at[d] \notin Reading \union Waiting
           /\ at[c] \in Reading => at[d] \notin Alone
           /\ at[c] \in Changed \union {"openJournal"} \/ Commits(c) =>
                 at[d] \notin Changed \union {"openJournal"} /\ ~Commits(d)
BY DEF ControlInv, LockInv, PlaceInv, TypeInv, Alone, Waiting

\* A journal whose writer holds the reserved lock is not one left behind.
LEMMA WriterAtWork ==
    ASSUME Inv, NEW c \in Connections, at[c] = "checkReserved", HoldsReserved # {}
    PROVE  journal # "hot"
<1>1. PICK d \in Connections : d \in HoldsReserved
  BY DEF HoldsReserved
<1>2. at[d] \in Writing /\ (at[d] \in Raising => Commits(d))
  BY <1>1 DEF Inv, ControlInv, TypeInv, Commits
<1>3. at[d] \notin {"write", "commit"}
  BY Exclusion DEF Inv, Alone, Reading
<1>4. QED
  BY <1>2, <1>3 DEF Inv, DataParts, JournalInv, Writing, Changed, Raising, Checked

LEMMA JournalStep ==
    ASSUME Inv, NEW c \in Connections, Acts(c)
    PROVE  JournalInv'
<1>1. at \in [Connections -> Places] /\ lock \in [Connections -> NO_LOCK..EXCLUSIVE_LOCK]
      /\ TypeOK /\ ControlInv /\ TypeInv /\ JournalInv
  BY DEF Inv, TypeOK, ControlInv, DataParts
<1>2. CASE Begin(c)
  BY <1>1, <1>2, Exclusion DEF Begin, Step, disk, SetLock, JournalInv, TypeInv, Alone,
     Waiting, Reading, Raising, Changed, Writing, Checked, Commits, NO_LOCK,
     SHARED_LOCK, RESERVED_LOCK, PENDING_LOCK, EXCLUSIVE_LOCK
<1>3. CASE TakePendingForShared(c)
  <2>1. Step(c, "pendingForShared", "shared") \/ Step(c, "pendingForShared", "failed")
    BY <1>3 DEF TakePendingForShared, Take
  <2>2. QED
    BY <1>1, <1>3, <2>1, Exclusion DEF TakePendingForShared, Step, disk, SetLock,
       JournalInv, TypeInv, Alone, Waiting, Reading, Raising, Changed, Writing,
       Checked, Commits, NO_LOCK, SHARED_LOCK, RESERVED_LOCK, PENDING_LOCK,
       EXCLUSIVE_LOCK
<1>4. CASE TakeShared(c)
  <2>1. Step(c, "shared", "dropPending") \/ Step(c, "shared", "failed")
    BY <1>4 DEF TakeShared, Take
  <2>2. QED
    BY <1>1, <1>4, <2>1, Exclusion DEF TakeShared, Step, disk, SetLock, JournalInv,
       TypeInv, Alone, Waiting, Reading, Raising, Changed, Writing, Checked,
       Commits, NO_LOCK, SHARED_LOCK, RESERVED_LOCK, PENDING_LOCK, EXCLUSIVE_LOCK
<1>5. CASE DropPending(c)
  BY <1>1, <1>5, Exclusion DEF DropPending, Step, disk, SetLock, JournalInv, TypeInv,
     Alone, Waiting, Reading, Raising, Changed, Writing, Checked, Commits, NO_LOCK,
     SHARED_LOCK, RESERVED_LOCK, PENDING_LOCK, EXCLUSIVE_LOCK
<1>6. CASE Access(c)
  BY <1>1, <1>6, Exclusion DEF Access, Step, disk, SetLock, JournalInv, TypeInv,
     Alone, Waiting, Reading, Raising, Changed, Writing, Checked, Commits, NO_LOCK,
     SHARED_LOCK, RESERVED_LOCK, PENDING_LOCK, EXCLUSIVE_LOCK
<1>7. CASE CheckReserved(c)
  <2>1. Step(c, "checkReserved", "probed")
        \/ (Step(c, "checkReserved", "validate") /\ HoldsReserved # {})
    BY <1>1, <1>7, ProbeReserved DEF CheckReserved
  <2>2. at'[c] = "validate" => journal # "hot"
    BY <1>1, <2>1, WriterAtWork DEF Step
  <2>3. QED
    BY <1>1, <1>7, <2>1, <2>2, Exclusion DEF CheckReserved, Step, disk, SetLock,
       JournalInv, TypeInv, Alone, Waiting, Reading, Raising, Changed, Writing,
       Checked, Commits, NO_LOCK, SHARED_LOCK, RESERVED_LOCK, PENDING_LOCK,
       EXCLUSIVE_LOCK
<1>8. CASE Probed(c)
  BY <1>1, <1>8, Exclusion DEF Probed, Step, disk, SetLock, JournalInv, TypeInv,
     Alone, Waiting, Reading, Raising, Changed, Writing, Checked, Commits, NO_LOCK,
     SHARED_LOCK, RESERVED_LOCK, PENDING_LOCK, EXCLUSIVE_LOCK
<1>9. CASE Peek(c)
  BY <1>1, <1>9, Exclusion DEF Peek, Step, disk, SetLock, JournalInv, TypeInv, Alone,
     Waiting, Reading, Raising, Changed, Writing, Checked, Commits, NO_LOCK,
     SHARED_LOCK, RESERVED_LOCK, PENDING_LOCK, EXCLUSIVE_LOCK
<1>10. CASE HotPending(c)
  <2>1. Step(c, "hotPending", "exchange") \/ Step(c, "hotPending", "failed")
    BY <1>10 DEF HotPending, Take
  <2>2. QED
    BY <1>1, <1>10, <2>1, Exclusion DEF HotPending, Step, disk, SetLock, JournalInv,
       TypeInv, Alone, Waiting, Reading, Raising, Changed, Writing, Checked,
       Commits, NO_LOCK, SHARED_LOCK, RESERVED_LOCK, PENDING_LOCK, EXCLUSIVE_LOCK
<1>11. CASE Recover(c)
  BY <1>1, <1>11, Exclusion DEF Recover, Step, disk, SetLock, JournalInv, TypeInv,
     Alone, Waiting, Reading, Raising, Changed, Writing, Checked, Commits, NO_LOCK,
     SHARED_LOCK, RESERVED_LOCK, PENDING_LOCK, EXCLUSIVE_LOCK
<1>12. CASE Replay(c)
  BY <1>1, <1>12, Exclusion DEF Replay, Step, disk, SetLock, JournalInv, TypeInv,
     Alone, Waiting, Reading, Raising, Changed, Writing, Checked, Commits, NO_LOCK,
     SHARED_LOCK, RESERVED_LOCK, PENDING_LOCK, EXCLUSIVE_LOCK
<1>13. CASE Discard(c)
  BY <1>1, <1>13, Exclusion DEF Discard, Step, disk, SetLock, JournalInv, TypeInv,
     Alone, Waiting, Reading, Raising, Changed, Writing, Checked, Commits, NO_LOCK,
     SHARED_LOCK, RESERVED_LOCK, PENDING_LOCK, EXCLUSIVE_LOCK
<1>14. CASE Validate(c)
  BY <1>1, <1>14, Exclusion DEF Validate, Step, disk, SetLock, JournalInv, TypeInv,
     Alone, Waiting, Reading, Raising, Changed, Writing, Checked, Commits, NO_LOCK,
     SHARED_LOCK, RESERVED_LOCK, PENDING_LOCK, EXCLUSIVE_LOCK
<1>15. CASE Reserve(c)
  <2>1. Step(c, "reserve", "read") \/ Step(c, "reserve", "failed")
    BY <1>15 DEF Reserve, Take
  <2>2. QED
    BY <1>1, <1>15, <2>1, Exclusion DEF Reserve, Step, disk, SetLock, JournalInv,
       TypeInv, Alone, Waiting, Reading, Raising, Changed, Writing, Checked,
       Commits, NO_LOCK, SHARED_LOCK, RESERVED_LOCK, PENDING_LOCK, EXCLUSIVE_LOCK
<1>16. CASE Read(c)
  BY <1>1, <1>16, Exclusion DEF Read, Step, disk, SetLock, JournalInv, TypeInv, Alone,
     Waiting, Reading, Raising, Changed, Writing, Checked, Commits, NO_LOCK,
     SHARED_LOCK, RESERVED_LOCK, PENDING_LOCK, EXCLUSIVE_LOCK
<1>17. CASE OpenJournal(c)
  BY <1>1, <1>17, Exclusion DEF OpenJournal, Step, disk, SetLock, JournalInv, TypeInv,
     Alone, Waiting, Reading, Raising, Changed, Writing, Checked, Commits, NO_LOCK,
     SHARED_LOCK, RESERVED_LOCK, PENDING_LOCK, EXCLUSIVE_LOCK
<1>18. CASE CommitPending(c)
  <2>1. Step(c, "commitPending", "exchange") \/ Step(c, "commitPending", "rollback")
    BY <1>18 DEF CommitPending, Take
  <2>2. QED
    BY <1>1, <1>18, <2>1, Exclusion DEF CommitPending, Step, disk, SetLock,
       JournalInv, TypeInv, Alone, Waiting, Reading, Raising, Changed, Writing,
       Checked, Commits, NO_LOCK, SHARED_LOCK, RESERVED_LOCK, PENDING_LOCK,
       EXCLUSIVE_LOCK
<1>19. CASE Exchange(c)
  BY <1>1, <1>19, Exclusion DEF Exchange, Step, disk, SetLock, JournalInv, TypeInv,
     Alone, Waiting, Reading, Raising, Changed, Writing, Checked, Commits, NO_LOCK,
     SHARED_LOCK, RESERVED_LOCK, PENDING_LOCK, EXCLUSIVE_LOCK
<1>20. CASE TakeExclusive(c)
  <2>1. Step(c, "exclusive", IF lock[c] = RESERVED_LOCK THEN "sync" ELSE "recover")
        \/ Step(c, "exclusive", "regain")
    BY <1>20 DEF TakeExclusive, Take
  <2>2. QED
    BY <1>1, <1>20, <2>1, Exclusion DEF TakeExclusive, Step, disk, SetLock,
       JournalInv, TypeInv, Alone, Waiting, Reading, Raising, Changed, Writing,
       Checked, Commits, NO_LOCK, SHARED_LOCK, RESERVED_LOCK, PENDING_LOCK,
       EXCLUSIVE_LOCK
<1>21. CASE Regain(c)
  <2>1. Step(c, "regain", IF lock[c] = RESERVED_LOCK THEN "rollback" ELSE "failed")
    BY <1>21 DEF Regain, Take
  <2>2. QED
    BY <1>1, <1>21, <2>1, Exclusion DEF Regain, Step, disk, SetLock, JournalInv,
       TypeInv, Alone, Waiting, Reading, Raising, Changed, Writing, Checked,
       Commits, NO_LOCK, SHARED_LOCK, RESERVED_LOCK, PENDING_LOCK, EXCLUSIVE_LOCK
<1>22. CASE Sync(c)
  BY <1>1, <1>22, Exclusion DEF Sync, Step, disk, SetLock, JournalInv, TypeInv, Alone,
     Waiting, Reading, Raising, Changed, Writing, Checked, Commits, NO_LOCK,
     SHARED_LOCK, RESERVED_LOCK, PENDING_LOCK, EXCLUSIVE_LOCK
<1>23. CASE Write(c)
  BY <1>1, <1>23, Exclusion DEF Write, Step, disk, SetLock, JournalInv, TypeInv,
     Alone, Waiting, Reading, Raising, Changed, Writing, Checked, Commits, NO_LOCK,
     SHARED_LOCK, RESERVED_LOCK, PENDING_LOCK, EXCLUSIVE_LOCK
<1>24. CASE Commit(c)
  BY <1>1, <1>24, Exclusion DEF Commit, Step, disk, SetLock, JournalInv, TypeInv,
     Alone, Waiting, Reading, Raising, Changed, Writing, Checked, Commits, NO_LOCK,
     SHARED_LOCK, RESERVED_LOCK, PENDING_LOCK, EXCLUSIVE_LOCK
<1>25. CASE Rollback(c)
  BY <1>1, <1>25, Exclusion DEF Rollback, Step, disk, SetLock, JournalInv, TypeInv,
     Alone, Waiting, Reading, Raising, Changed, Writing, Checked, Commits, NO_LOCK,
     SHARED_LOCK, RESERVED_LOCK, PENDING_LOCK, EXCLUSIVE_LOCK
<1>26. CASE ToShared(c)
  BY <1>1, <1>26, Exclusion DEF ToShared, Step, disk, SetLock, JournalInv, TypeInv,
     Alone, Waiting, Reading, Raising, Changed, Writing, Checked, Commits, NO_LOCK,
     SHARED_LOCK, RESERVED_LOCK, PENDING_LOCK, EXCLUSIVE_LOCK
<1>27. CASE SharedAgain(c)
  <2>1. Step(c, "sharedAgain", "release") \/ Step(c, "sharedAgain", "failed")
    BY <1>27 DEF SharedAgain, Take
  <2>2. QED
    BY <1>1, <1>27, <2>1, Exclusion DEF SharedAgain, Step, disk, SetLock,
       JournalInv, TypeInv, Alone, Waiting, Reading, Raising, Changed, Writing,
       Checked, Commits, NO_LOCK, SHARED_LOCK, RESERVED_LOCK, PENDING_LOCK,
       EXCLUSIVE_LOCK
<1>28. CASE Release(c)
  BY <1>1, <1>28, Exclusion DEF Release, Step, disk, SetLock, JournalInv, TypeInv,
     Alone, Waiting, Reading, Raising, Changed, Writing, Checked, Commits, NO_LOCK,
     SHARED_LOCK, RESERVED_LOCK, PENDING_LOCK, EXCLUSIVE_LOCK
<1>29. CASE Lower(c)
  BY <1>1, <1>29, Exclusion DEF Lower, Step, disk, SetLock, JournalInv, TypeInv,
     Alone, Waiting, Reading, Raising, Changed, Writing, Checked, Commits, NO_LOCK,
     SHARED_LOCK, RESERVED_LOCK, PENDING_LOCK, EXCLUSIVE_LOCK
<1>30. CASE End(c)
  BY <1>1, <1>30, Exclusion DEF End, Step, disk, SetLock, JournalInv, TypeInv, Alone,
     Waiting, Reading, Raising, Changed, Writing, Checked, Commits, NO_LOCK,
     SHARED_LOCK, RESERVED_LOCK, PENDING_LOCK, EXCLUSIVE_LOCK
<1>31. CASE Crash(c)
  BY <1>1, <1>31, Exclusion DEF Crash, Step, disk, SetLock, JournalInv, TypeInv,
     Alone, Waiting, Reading, Raising, Changed, Writing, Checked, Commits, NO_LOCK,
     SHARED_LOCK, RESERVED_LOCK, PENDING_LOCK, EXCLUSIVE_LOCK
<1>32. QED
  BY <1>2, <1>3, <1>4, <1>5, <1>6, <1>7, <1>8, <1>9, <1>10, <1>11, <1>12, <1>13, <1>14,
     <1>15, <1>16, <1>17, <1>18, <1>19, <1>20, <1>21, <1>22, <1>23, <1>24, <1>25,
     <1>26, <1>27, <1>28, <1>29, <1>30, <1>31 DEF Acts, SharedLock, Transaction, Unlock

-----------------------------------------------------------------------------
(* Types.                                                                  *)

CacheOK == cache \in [Connections -> Seq(Nat)] /\ \A c \in Connections : Len(cache[c]) <= NumPages

LEMMA TakeHeld ==
    ASSUME TypeOK, NEW c \in Connections, NEW from, NEW got, NEW refused,
           NEW range \in Ranges, NEW exclusive \in BOOLEAN,
           Take(c, from, range, exclusive, got, refused)
    PROVE  held' \subseteq Locks
<1>1. [by |-> c, range |-> range, exclusive |-> exclusive] \in Locks
  BY DEF Locks
<1>2. QED  BY <1>1 DEF Take, TypeOK

LEMMA DropHeld ==
    ASSUME TypeOK, NEW c \in Connections, NEW ranges, Drop(c, ranges)
    PROVE  held' \subseteq Locks
BY DEF Drop, TypeOK

LEMMA StepPlaces ==
    ASSUME TypeOK, NEW c \in Connections, NEW from, NEW to \in Places, Step(c, from, to)
    PROVE  at' \in [Connections -> Places]
BY DEF Step, TypeOK

LEMMA TakePlaces ==
    ASSUME TypeOK, NEW c \in Connections, NEW from, NEW got \in Places, NEW refused \in Places,
           NEW range, NEW exclusive, Take(c, from, range, exclusive, got, refused)
    PROVE  at' \in [Connections -> Places]
BY StepPlaces DEF Take

LEMMA CacheSet ==
    ASSUME TypeOK, NEW c \in Connections, NEW s \in Seq(Nat), Len(s) <= NumPages,
           cache' = [cache EXCEPT ![c] = s]
    PROVE  CacheOK'
BY DEF TypeOK, CacheOK

LEMMA LockSet ==
    ASSUME TypeOK, NEW c \in Connections, NEW type \in NO_LOCK..EXCLUSIVE_LOCK, SetLock(c, type)
    PROVE  lock' \in [Connections -> NO_LOCK..EXCLUSIVE_LOCK]
BY DEF SetLock, TypeOK

LEMMA TypeStep ==
    ASSUME Inv, NEW c \in Connections, Acts(c)
    PROVE  TypeOK'
<1>1. TypeOK /\ PageInv /\ NumPages \in Nat \ {0} /\ MaxWrites \in Nat
  BY PagesAssumption, BoundAssumption DEF Inv, DataParts
<1>2. CASE Begin(c)
  <2>1. held' \subseteq Locks
    BY <1>1, <1>2 DEF Begin, TypeOK
  <2>2. PICK kept \in {cache[c], <<>>} : cache' = [cache EXCEPT ![c] = kept]
    BY <1>2 DEF Begin
  <2>3. kept \in Seq(Nat) /\ Len(kept) <= NumPages
    <3>1. CASE kept = cache[c]
      BY <1>1, <3>1 DEF TypeOK
    <3>2. CASE kept = <<>>
      BY <1>1, <3>2, EmptySeq
    <3>3. QED  BY <2>2, <3>1, <3>2
  <2>4. CacheOK'
    BY <1>1, <2>2, <2>3, CacheSet
  <2>5. at' \in [Connections -> Places]
    BY <1>1, <1>2 DEF Begin, Step, TypeOK, Places
  <2>6. lock' \in [Connections -> NO_LOCK..EXCLUSIVE_LOCK]
    BY <1>1, <1>2 DEF Begin, TypeOK
  <2>7. begun' \in 0..MaxWrites /\ writes' \in [Connections -> BOOLEAN]
    <3>1. writes \in [Connections -> BOOLEAN] /\ begun \in 0..MaxWrites
      BY <1>1 DEF TypeOK
    <3>2. CASE writes' = [writes EXCEPT ![c] = FALSE] /\ UNCHANGED begun
      BY <3>1, <3>2
    <3>3. CASE /\ begun < MaxWrites /\ begun' = begun + 1
               /\ writes' = [writes EXCEPT ![c] = TRUE]
      BY <1>1, <3>1, <3>3
    <3>4. QED  BY <1>2, <3>2, <3>3 DEF Begin
  <2>8. page' \in [Connections -> Pages]
    BY <1>1, <1>2 DEF Begin, TypeOK, Pages
  <2>9. file' \in [Pages -> Nat] /\ saved' \in [Pages -> Nat]
        /\ journal' \in {"none", "cold", "hot"}
    BY <1>1, <1>2  DEF Begin, TypeOK, CacheOK, disk
  <2>10. QED
    BY <1>1, <1>2, <2>1, <2>4, <2>5, <2>8, <2>9, <2>6, <2>7 DEF Begin, CacheOK,
       TypeOK
<1>3. CASE TakePendingForShared(c)
  <2>1. held' \subseteq Locks
    BY <1>1, <1>3, TakeHeld DEF TakePendingForShared, Ranges
  <2>2. CacheOK'
    BY <1>1, <1>3 DEF TakePendingForShared, TypeOK, CacheOK
  <2>3. at' \in [Connections -> Places]
    <3>1. Take(c, "pendingForShared", "pending", TRUE, "shared", "failed")
      BY <1>3 DEF TakePendingForShared
    <3>2. "shared" \in Places /\ "failed" \in Places
      BY DEF Places
    <3>3. QED  BY <1>1, <3>1, <3>2, TakePlaces
  <2>4. lock' \in [Connections -> NO_LOCK..EXCLUSIVE_LOCK]
    BY <1>1, <1>3 DEF TakePendingForShared, TypeOK
  <2>5. page' \in [Connections -> Pages]
    BY <1>1, <1>3 DEF TakePendingForShared, TypeOK, Pages
  <2>6. file' \in [Pages -> Nat] /\ saved' \in [Pages -> Nat]
        /\ journal' \in {"none", "cold", "hot"}
    BY <1>1, <1>3  DEF TakePendingForShared, TypeOK, CacheOK, disk
  <2>7. QED
    BY <1>1, <1>3, <2>1, <2>2, <2>3, <2>5, <2>6, <2>4 DEF TakePendingForShared,
       CacheOK, TypeOK
<1>4. CASE TakeShared(c)
  <2>1. held' \subseteq Locks
    BY <1>1, <1>4, TakeHeld DEF TakeShared, Ranges
  <2>2. CacheOK'
    BY <1>1, <1>4 DEF TakeShared, TypeOK, CacheOK
  <2>3. at' \in [Connections -> Places]
    <3>1. Take(c, "shared", "shared", FALSE, "dropPending", "failed")
      BY <1>4 DEF TakeShared
    <3>2. "dropPending" \in Places /\ "failed" \in Places
      BY DEF Places
    <3>3. QED  BY <1>1, <3>1, <3>2, TakePlaces
  <2>4. lock' \in [Connections -> NO_LOCK..EXCLUSIVE_LOCK]
    BY <1>1, <1>4 DEF TakeShared, TypeOK
  <2>5. page' \in [Connections -> Pages]
    BY <1>1, <1>4 DEF TakeShared, TypeOK, Pages
  <2>6. file' \in [Pages -> Nat] /\ saved' \in [Pages -> Nat]
        /\ journal' \in {"none", "cold", "hot"}
    BY <1>1, <1>4  DEF TakeShared, TypeOK, CacheOK, disk
  <2>7. QED
    BY <1>1, <1>4, <2>1, <2>2, <2>3, <2>5, <2>6, <2>4 DEF TakeShared, CacheOK,
       TypeOK
<1>5. CASE DropPending(c)
  <2>1. held' \subseteq Locks
    BY <1>1, <1>5, DropHeld DEF DropPending, Ranges
  <2>2. CacheOK'
    BY <1>1, <1>5 DEF DropPending, TypeOK, CacheOK
  <2>3. at' \in [Connections -> Places]
    BY <1>1, <1>5 DEF DropPending, Step, TypeOK, Places
  <2>4. lock' \in [Connections -> NO_LOCK..EXCLUSIVE_LOCK]
    <3>1. SetLock(c, SHARED_LOCK)
      BY <1>5 DEF DropPending
    <3>2. SHARED_LOCK \in NO_LOCK..EXCLUSIVE_LOCK
      BY <1>1 DEF TypeOK, NO_LOCK, SHARED_LOCK, RESERVED_LOCK, PENDING_LOCK,
         EXCLUSIVE_LOCK
    <3>3. QED  BY <1>1, <3>1, <3>2, LockSet
  <2>5. page' \in [Connections -> Pages]
    BY <1>1, <1>5 DEF DropPending, TypeOK, Pages
  <2>6. file' \in [Pages -> Nat] /\ saved' \in [Pages -> Nat]
        /\ journal' \in {"none", "cold", "hot"}
    BY <1>1, <1>5  DEF DropPending, TypeOK, CacheOK, disk
  <2>7. QED
    BY <1>1, <1>5, <2>1, <2>2, <2>3, <2>5, <2>6, <2>4 DEF DropPending, CacheOK,
       TypeOK
<1>6. CASE Access(c)
  <2>1. held' \subseteq Locks
    BY <1>1, <1>6 DEF Access, TypeOK
  <2>2. CacheOK'
    BY <1>1, <1>6 DEF Access, TypeOK, CacheOK
  <2>3. at' \in [Connections -> Places]
    BY <1>1, <1>6 DEF Access, Step, TypeOK, Places
  <2>4. lock' \in [Connections -> NO_LOCK..EXCLUSIVE_LOCK]
    BY <1>1, <1>6 DEF Access, TypeOK
  <2>5. page' \in [Connections -> Pages]
    BY <1>1, <1>6 DEF Access, TypeOK, Pages
  <2>6. file' \in [Pages -> Nat] /\ saved' \in [Pages -> Nat]
        /\ journal' \in {"none", "cold", "hot"}
    BY <1>1, <1>6  DEF Access, TypeOK, CacheOK, disk
  <2>7. QED
    BY <1>1, <1>6, <2>1, <2>2, <2>3, <2>5, <2>6, <2>4 DEF Access, CacheOK, TypeOK
<1>7. CASE CheckReserved(c)
  <2>1. held' \subseteq Locks
    BY <1>1, <1>7, TakeHeld DEF CheckReserved, Ranges
  <2>2. CacheOK'
    BY <1>1, <1>7 DEF CheckReserved, TypeOK, CacheOK
  <2>3. at' \in [Connections -> Places]
    <3>1. Take(c, "checkReserved", "reserved", FALSE, "probed", "validate")
      BY <1>7 DEF CheckReserved
    <3>2. "probed" \in Places /\ "validate" \in Places
      BY DEF Places
    <3>3. QED  BY <1>1, <3>1, <3>2, TakePlaces
  <2>4. lock' \in [Connections -> NO_LOCK..EXCLUSIVE_LOCK]
    BY <1>1, <1>7 DEF CheckReserved, TypeOK
  <2>5. page' \in [Connections -> Pages]
    BY <1>1, <1>7 DEF CheckReserved, TypeOK, Pages
  <2>6. file' \in [Pages -> Nat] /\ saved' \in [Pages -> Nat]
        /\ journal' \in {"none", "cold", "hot"}
    BY <1>1, <1>7  DEF CheckReserved, TypeOK, CacheOK, disk
  <2>7. QED
    BY <1>1, <1>7, <2>1, <2>2, <2>3, <2>5, <2>6, <2>4 DEF CheckReserved, CacheOK,
       TypeOK
<1>8. CASE Probed(c)
  <2>1. held' \subseteq Locks
    BY <1>1, <1>8, DropHeld DEF Probed, Ranges
  <2>2. CacheOK'
    BY <1>1, <1>8 DEF Probed, TypeOK, CacheOK
  <2>3. at' \in [Connections -> Places]
    BY <1>1, <1>8 DEF Probed, Step, TypeOK, Places
  <2>4. lock' \in [Connections -> NO_LOCK..EXCLUSIVE_LOCK]
    BY <1>1, <1>8 DEF Probed, TypeOK
  <2>5. page' \in [Connections -> Pages]
    BY <1>1, <1>8 DEF Probed, TypeOK, Pages
  <2>6. file' \in [Pages -> Nat] /\ saved' \in [Pages -> Nat]
        /\ journal' \in {"none", "cold", "hot"}
    BY <1>1, <1>8  DEF Probed, TypeOK, CacheOK, disk
  <2>7. QED
    BY <1>1, <1>8, <2>1, <2>2, <2>3, <2>5, <2>6, <2>4 DEF Probed, CacheOK, TypeOK
<1>9. CASE Peek(c)
  <2>1. held' \subseteq Locks
    BY <1>1, <1>9 DEF Peek, TypeOK
  <2>2. CacheOK'
    BY <1>1, <1>9 DEF Peek, TypeOK, CacheOK
  <2>3. at' \in [Connections -> Places]
    BY <1>1, <1>9 DEF Peek, Step, TypeOK, Places
  <2>4. lock' \in [Connections -> NO_LOCK..EXCLUSIVE_LOCK]
    BY <1>1, <1>9 DEF Peek, TypeOK
  <2>5. page' \in [Connections -> Pages]
    BY <1>1, <1>9 DEF Peek, TypeOK, Pages
  <2>6. file' \in [Pages -> Nat] /\ saved' \in [Pages -> Nat]
        /\ journal' \in {"none", "cold", "hot"}
    BY <1>1, <1>9  DEF Peek, TypeOK, CacheOK, disk
  <2>7. QED
    BY <1>1, <1>9, <2>1, <2>2, <2>3, <2>5, <2>6, <2>4 DEF Peek, CacheOK, TypeOK
<1>10. CASE HotPending(c)
  <2>1. held' \subseteq Locks
    BY <1>1, <1>10, TakeHeld DEF HotPending, Ranges
  <2>2. CacheOK'
    BY <1>1, <1>10 DEF HotPending, TypeOK, CacheOK
  <2>3. at' \in [Connections -> Places]
    <3>1. Take(c, "hotPending", "pending", TRUE, "exchange", "failed")
      BY <1>10 DEF HotPending
    <3>2. "exchange" \in Places /\ "failed" \in Places
      BY DEF Places
    <3>3. QED  BY <1>1, <3>1, <3>2, TakePlaces
  <2>4. lock' \in [Connections -> NO_LOCK..EXCLUSIVE_LOCK]
    BY <1>1, <1>10 DEF HotPending, TypeOK
  <2>5. page' \in [Connections -> Pages]
    BY <1>1, <1>10 DEF HotPending, TypeOK, Pages
  <2>6. file' \in [Pages -> Nat] /\ saved' \in [Pages -> Nat]
        /\ journal' \in {"none", "cold", "hot"}
    BY <1>1, <1>10  DEF HotPending, TypeOK, CacheOK, disk
  <2>7. QED
    BY <1>1, <1>10, <2>1, <2>2, <2>3, <2>5, <2>6, <2>4 DEF HotPending, CacheOK,
       TypeOK
<1>11. CASE Recover(c)
  <2>1. held' \subseteq Locks
    BY <1>1, <1>11 DEF Recover, TypeOK
  <2>2. CacheOK'
    BY <1>1, <1>11 DEF Recover, TypeOK, CacheOK
  <2>3. at' \in [Connections -> Places]
    BY <1>1, <1>11 DEF Recover, Step, TypeOK, Places
  <2>4. lock' \in [Connections -> NO_LOCK..EXCLUSIVE_LOCK]
    BY <1>1, <1>11 DEF Recover, TypeOK
  <2>5. page' \in [Connections -> Pages]
    BY <1>1, <1>11 DEF Recover, TypeOK, Pages
  <2>6. file' \in [Pages -> Nat] /\ saved' \in [Pages -> Nat]
        /\ journal' \in {"none", "cold", "hot"}
    BY <1>1, <1>11  DEF Recover, TypeOK, CacheOK, disk
  <2>7. QED
    BY <1>1, <1>11, <2>1, <2>2, <2>3, <2>5, <2>6, <2>4 DEF Recover, CacheOK, TypeOK
<1>12. CASE Replay(c)
  <2>1. held' \subseteq Locks
    BY <1>1, <1>12 DEF Replay, TypeOK
  <2>2. <<>> \in Seq(Nat) /\ Len(<<>>) <= NumPages
    BY <1>1, EmptySeq
  <2>3. cache' = [cache EXCEPT ![c] = <<>>]
    BY <1>12 DEF Replay
  <2>4. CacheOK'
    BY <1>1, <2>2, <2>3, CacheSet
  <2>5. at' \in [Connections -> Places]
    BY <1>1, <1>12 DEF Replay, Step, TypeOK, Places
  <2>6. lock' \in [Connections -> NO_LOCK..EXCLUSIVE_LOCK]
    BY <1>1, <1>12 DEF Replay, TypeOK
  <2>7. page' \in [Connections -> Pages]
    BY <1>1, <1>12 DEF Replay, TypeOK, Pages
  <2>8. file' \in [Pages -> Nat] /\ saved' \in [Pages -> Nat]
        /\ journal' \in {"none", "cold", "hot"}
    BY <1>1, <1>12  DEF Replay, TypeOK, CacheOK, disk
  <2>9. QED
    BY <1>1, <1>12, <2>1, <2>4, <2>5, <2>7, <2>8, <2>6 DEF Replay, CacheOK, TypeOK
<1>13. CASE Discard(c)
  <2>1. held' \subseteq Locks
    BY <1>1, <1>13 DEF Discard, TypeOK
  <2>2. CacheOK'
    BY <1>1, <1>13 DEF Discard, TypeOK, CacheOK
  <2>3. at' \in [Connections -> Places]
    BY <1>1, <1>13 DEF Discard, Step, TypeOK, Places
  <2>4. lock' \in [Connections -> NO_LOCK..EXCLUSIVE_LOCK]
    BY <1>1, <1>13 DEF Discard, TypeOK
  <2>5. page' \in [Connections -> Pages]
    BY <1>1, <1>13 DEF Discard, TypeOK, Pages
  <2>6. file' \in [Pages -> Nat] /\ saved' \in [Pages -> Nat]
        /\ journal' \in {"none", "cold", "hot"}
    BY <1>1, <1>13  DEF Discard, TypeOK, CacheOK, disk
  <2>7. QED
    BY <1>1, <1>13, <2>1, <2>2, <2>3, <2>5, <2>6, <2>4 DEF Discard, CacheOK, TypeOK
<1>14. CASE Validate(c)
  <2>1. held' \subseteq Locks
    BY <1>1, <1>14 DEF Validate, TypeOK
  <2> DEFINE kept == IF cache[c] # <<>> /\ cache[c][1] # file[1] THEN <<>> ELSE cache[c]
  <2>2. kept \in Seq(Nat) /\ Len(kept) <= NumPages
    BY <1>1 DEF TypeOK
  <2>3. cache' = [cache EXCEPT ![c] = kept]
    BY <1>14 DEF Validate
  <2>4. CacheOK'
    BY <1>1, <2>2, <2>3, CacheSet
  <2>5. at' \in [Connections -> Places]
    BY <1>1, <1>14 DEF Validate, Step, TypeOK, Places
  <2>6. lock' \in [Connections -> NO_LOCK..EXCLUSIVE_LOCK]
    BY <1>1, <1>14 DEF Validate, TypeOK
  <2>7. page' \in [Connections -> Pages]
    BY <1>1, <1>14 DEF Validate, TypeOK, Pages
  <2>8. file' \in [Pages -> Nat] /\ saved' \in [Pages -> Nat]
        /\ journal' \in {"none", "cold", "hot"}
    BY <1>1, <1>14  DEF Validate, TypeOK, CacheOK, disk
  <2>9. QED
    BY <1>1, <1>14, <2>1, <2>4, <2>5, <2>7, <2>8, <2>6 DEF Validate, CacheOK, TypeOK
<1>15. CASE Reserve(c)
  <2>1. held' \subseteq Locks
    BY <1>1, <1>15, TakeHeld DEF Reserve, Ranges
  <2>2. CacheOK'
    BY <1>1, <1>15 DEF Reserve, TypeOK, CacheOK
  <2>3. at' \in [Connections -> Places]
    <3>1. Take(c, "reserve", "reserved", TRUE, "read", "failed")
      BY <1>15 DEF Reserve
    <3>2. "read" \in Places /\ "failed" \in Places
      BY DEF Places
    <3>3. QED  BY <1>1, <3>1, <3>2, TakePlaces
  <2>4. lock' \in [Connections -> NO_LOCK..EXCLUSIVE_LOCK]
    <3>1. SetLock(c, (IF at'[c] = "read" THEN RESERVED_LOCK ELSE lock[c]))
      BY <1>15 DEF Reserve
    <3>2. (IF at'[c] = "read" THEN RESERVED_LOCK ELSE lock[c]) \in NO_LOCK..EXCLUSIVE_LOCK
      BY <1>1 DEF TypeOK, NO_LOCK, SHARED_LOCK, RESERVED_LOCK, PENDING_LOCK,
         EXCLUSIVE_LOCK
    <3>3. QED  BY <1>1, <3>1, <3>2, LockSet
  <2>5. page' \in [Connections -> Pages]
    BY <1>1, <1>15 DEF Reserve, TypeOK, Pages
  <2>6. file' \in [Pages -> Nat] /\ saved' \in [Pages -> Nat]
        /\ journal' \in {"none", "cold", "hot"}
    BY <1>1, <1>15  DEF Reserve, TypeOK, CacheOK, disk
  <2>7. QED
    BY <1>1, <1>15, <2>1, <2>2, <2>3, <2>5, <2>6, <2>4 DEF Reserve, CacheOK, TypeOK
<1>16. CASE Read(c)
  <2>1. held' \subseteq Locks
    BY <1>1, <1>16 DEF Read, TypeOK
  <2> DEFINE k == page[c]
             kept == IF k \in DOMAIN cache[c] THEN cache[c] ELSE Append(cache[c], file[k])
  <2>2. /\ k \in 1..NumPages /\ file[k] \in Nat
        /\ cache[c] \in Seq(Nat) /\ Len(cache[c]) <= NumPages
        /\ DOMAIN cache[c] = 1..Len(cache[c]) /\ Len(cache[c]) \in Nat
    BY <1>1 DEF TypeOK, Pages
  <2>3. kept \in Seq(Nat) /\ Len(kept) <= NumPages
    <3>1. CASE k \in DOMAIN cache[c]
      BY <2>2, <3>1
    <3>2. CASE k \notin DOMAIN cache[c]
      <4>1. Append(cache[c], file[k]) \in Seq(Nat)
            /\ Len(Append(cache[c], file[k])) = Len(cache[c]) + 1
        BY <2>2, AppendProperties
      <4>2. Len(cache[c]) < k
        BY <2>2, <3>2
      <4>3. QED  BY <1>1, <2>2, <3>2, <4>1, <4>2
    <3>3. QED  BY <3>1, <3>2
  <2>4. cache' = [cache EXCEPT ![c] = kept]
    BY <1>1, <1>16 DEF Read, TypeOK
  <2>5. CacheOK'
    BY <1>1, <2>3, <2>4, CacheSet
  <2>6. at' \in [Connections -> Places]
    BY <1>1, <1>16 DEF Read, Step, TypeOK, Places
  <2>7. lock' \in [Connections -> NO_LOCK..EXCLUSIVE_LOCK]
    BY <1>1, <1>16 DEF Read, TypeOK
  <2>8. page \in [Connections -> Pages] /\ (IF k = NumPages THEN 1 ELSE k + 1) \in Pages
    BY <1>1, <2>2, SMTT(30) DEF TypeOK, Pages
  <2>9. page' \in [Connections -> Pages]
    BY <1>16, <2>8 DEF Read
  <2>10. file' \in [Pages -> Nat] /\ saved' \in [Pages -> Nat]
         /\ journal' \in {"none", "cold", "hot"}
    BY <1>1, <1>16  DEF Read, TypeOK, CacheOK, disk
  <2>11. QED
    BY <1>1, <1>16, <2>1, <2>5, <2>6, <2>9, <2>10, <2>7 DEF Read, CacheOK, TypeOK
<1>17. CASE OpenJournal(c)
  <2>1. held' \subseteq Locks
    BY <1>1, <1>17 DEF OpenJournal, TypeOK
  <2> DEFINE changed == [k \in Pages |-> cache[c][k] + 1]
  <2>2. /\ cache[c] \in Seq(Nat) /\ DOMAIN cache[c] = Pages
        /\ Len(cache[c]) <= NumPages
    BY <1>1, <1>17 DEF OpenJournal, Step, TypeOK, PageInv, PagesAt, Changed
  <2>3. cache[c] \in [Pages -> Nat]
    BY <2>2
  <2>4. changed \in Seq(Nat) /\ Len(changed) <= NumPages
    BY <1>1, <2>3 DEF Pages
  <2>5. CacheOK'
    <3>1. cache' = [cache EXCEPT ![c] = changed]
      BY <1>1, <1>17 DEF OpenJournal, TypeOK
    <3>2. QED  BY <1>1, <2>4, <3>1, CacheSet
  <2>6. saved' \in [Pages -> Nat]
    BY <1>17, <2>3 DEF OpenJournal
  <2>7. at' \in [Connections -> Places]
    BY <1>1, <1>17 DEF OpenJournal, Step, TypeOK, Places
  <2>8. lock' \in [Connections -> NO_LOCK..EXCLUSIVE_LOCK]
    BY <1>1, <1>17 DEF OpenJournal, TypeOK
  <2>9. page' \in [Connections -> Pages]
    BY <1>1, <1>17 DEF OpenJournal, TypeOK, Pages
  <2>10. file' \in [Pages -> Nat] /\ saved' \in [Pages -> Nat]
         /\ journal' \in {"none", "cold", "hot"}
    BY <1>1, <1>17, <2>6  DEF OpenJournal, TypeOK, CacheOK, disk
  <2>11. QED
    BY <1>1, <1>17, <2>1, <2>5, <2>7, <2>9, <2>10, <2>8 DEF OpenJournal, CacheOK,
       TypeOK
<1>18. CASE CommitPending(c)
  <2>1. held' \subseteq Locks
    BY <1>1, <1>18, TakeHeld DEF CommitPending, Ranges
  <2>2. CacheOK'
    BY <1>1, <1>18 DEF CommitPending, TypeOK, CacheOK
  <2>3. at' \in [Connections -> Places]
    <3>1. Take(c, "commitPending", "pending", TRUE, "exchange", "rollback")
      BY <1>18 DEF CommitPending
    <3>2. "exchange" \in Places /\ "rollback" \in Places
      BY DEF Places
    <3>3. QED  BY <1>1, <3>1, <3>2, TakePlaces
  <2>4. lock' \in [Connections -> NO_LOCK..EXCLUSIVE_LOCK]
    BY <1>1, <1>18 DEF CommitPending, TypeOK
  <2>5. page' \in [Connections -> Pages]
    BY <1>1, <1>18 DEF CommitPending, TypeOK, Pages
  <2>6. file' \in [Pages -> Nat] /\ saved' \in [Pages -> Nat]
        /\ journal' \in {"none", "cold", "hot"}
    BY <1>1, <1>18  DEF CommitPending, TypeOK, CacheOK, disk
  <2>7. QED
    BY <1>1, <1>18, <2>1, <2>2, <2>3, <2>5, <2>6, <2>4 DEF CommitPending, CacheOK,
       TypeOK
<1>19. CASE Exchange(c)
  <2>1. held' \subseteq Locks
    BY <1>1, <1>19, DropHeld DEF Exchange, Ranges
  <2>2. CacheOK'
    BY <1>1, <1>19 DEF Exchange, TypeOK, CacheOK
  <2>3. at' \in [Connections -> Places]
    BY <1>1, <1>19 DEF Exchange, Step, TypeOK, Places
  <2>4. lock' \in [Connections -> NO_LOCK..EXCLUSIVE_LOCK]
    BY <1>1, <1>19 DEF Exchange, TypeOK
  <2>5. page' \in [Connections -> Pages]
    BY <1>1, <1>19 DEF Exchange, TypeOK, Pages
  <2>6. file' \in [Pages -> Nat] /\ saved' \in [Pages -> Nat]
        /\ journal' \in {"none", "cold", "hot"}
    BY <1>1, <1>19  DEF Exchange, TypeOK, CacheOK, disk
  <2>7. QED
    BY <1>1, <1>19, <2>1, <2>2, <2>3, <2>5, <2>6, <2>4 DEF Exchange, CacheOK, TypeOK
<1>20. CASE TakeExclusive(c)
  <2>1. held' \subseteq Locks
    BY <1>1, <1>20, TakeHeld DEF TakeExclusive, Ranges
  <2>2. CacheOK'
    BY <1>1, <1>20 DEF TakeExclusive, TypeOK, CacheOK
  <2>3. at' \in [Connections -> Places]
    <3>1. Take(c, "exclusive", "shared", TRUE,
               IF lock[c] = RESERVED_LOCK THEN "sync" ELSE "recover", "regain")
      BY <1>20 DEF TakeExclusive
    <3>2. (IF lock[c] = RESERVED_LOCK THEN "sync" ELSE "recover") \in Places /\ "regain" \in Places
      BY DEF Places
    <3>3. QED  BY <1>1, <3>1, <3>2, TakePlaces
  <2>4. lock' \in [Connections -> NO_LOCK..EXCLUSIVE_LOCK]
    <3>1. SetLock(c, (IF at'[c] = "regain" THEN lock[c] ELSE EXCLUSIVE_LOCK))
      BY <1>20 DEF TakeExclusive
    <3>2. (IF at'[c] = "regain" THEN lock[c] ELSE EXCLUSIVE_LOCK) \in NO_LOCK..EXCLUSIVE_LOCK
      BY <1>1 DEF TypeOK, NO_LOCK, SHARED_LOCK, RESERVED_LOCK, PENDING_LOCK,
         EXCLUSIVE_LOCK
    <3>3. QED  BY <1>1, <3>1, <3>2, LockSet
  <2>5. page' \in [Connections -> Pages]
    BY <1>1, <1>20 DEF TakeExclusive, TypeOK, Pages
  <2>6. file' \in [Pages -> Nat] /\ saved' \in [Pages -> Nat]
        /\ journal' \in {"none", "cold", "hot"}
    BY <1>1, <1>20  DEF TakeExclusive, TypeOK, CacheOK, disk
  <2>7. QED
    BY <1>1, <1>20, <2>1, <2>2, <2>3, <2>5, <2>6, <2>4 DEF TakeExclusive, CacheOK,
       TypeOK
<1>21. CASE Regain(c)
  <2>1. held' \subseteq Locks
    BY <1>1, <1>21, TakeHeld DEF Regain, Ranges
  <2>2. CacheOK'
    BY <1>1, <1>21 DEF Regain, TypeOK, CacheOK
  <2>3. at' \in [Connections -> Places]
    <3>1. Take(c, "regain", "shared", FALSE,
               IF lock[c] = RESERVED_LOCK THEN "rollback" ELSE "failed",
               IF lock[c] = RESERVED_LOCK THEN "rollback" ELSE "failed")
      BY <1>21 DEF Regain
    <3>2. (IF lock[c] = RESERVED_LOCK THEN "rollback" ELSE "failed") \in Places
      BY DEF Places
    <3>3. QED  BY <1>1, <3>1, <3>2, TakePlaces
  <2>4. lock' \in [Connections -> NO_LOCK..EXCLUSIVE_LOCK]
    <3>1. SetLock(c, PENDING_LOCK)
      BY <1>21 DEF Regain
    <3>2. PENDING_LOCK \in NO_LOCK..EXCLUSIVE_LOCK
      BY <1>1 DEF TypeOK, NO_LOCK, SHARED_LOCK, RESERVED_LOCK, PENDING_LOCK,
         EXCLUSIVE_LOCK
    <3>3. QED  BY <1>1, <3>1, <3>2, LockSet
  <2>5. page' \in [Connections -> Pages]
    BY <1>1, <1>21 DEF Regain, TypeOK, Pages
  <2>6. file' \in [Pages -> Nat] /\ saved' \in [Pages -> Nat]
        /\ journal' \in {"none", "cold", "hot"}
    BY <1>1, <1>21  DEF Regain, TypeOK, CacheOK, disk
  <2>7. QED
    BY <1>1, <1>21, <2>1, <2>2, <2>3, <2>5, <2>6, <2>4 DEF Regain, CacheOK, TypeOK
<1>22. CASE Sync(c)
  <2>1. held' \subseteq Locks
    BY <1>1, <1>22 DEF Sync, TypeOK
  <2>2. CacheOK'
    BY <1>1, <1>22 DEF Sync, TypeOK, CacheOK
  <2>3. at' \in [Connections -> Places]
    BY <1>1, <1>22 DEF Sync, Step, TypeOK, Places
  <2>4. lock' \in [Connections -> NO_LOCK..EXCLUSIVE_LOCK]
    BY <1>1, <1>22 DEF Sync, TypeOK
  <2>5. page' \in [Connections -> Pages]
    BY <1>1, <1>22 DEF Sync, TypeOK, Pages
  <2>6. file' \in [Pages -> Nat] /\ saved' \in [Pages -> Nat]
        /\ journal' \in {"none", "cold", "hot"}
    BY <1>1, <1>22  DEF Sync, TypeOK, CacheOK, disk
  <2>7. QED
    BY <1>1, <1>22, <2>1, <2>2, <2>3, <2>5, <2>6, <2>4 DEF Sync, CacheOK, TypeOK
<1>23. CASE Write(c)
  <2>1. held' \subseteq Locks
    BY <1>1, <1>23 DEF Write, TypeOK
  <2>2. CacheOK'
    BY <1>1, <1>23 DEF Write, TypeOK, CacheOK
  <2>3. at' \in [Connections -> Places]
    BY <1>1, <1>23 DEF Write, Step, TypeOK, Places
  <2>4. lock' \in [Connections -> NO_LOCK..EXCLUSIVE_LOCK]
    BY <1>1, <1>23 DEF Write, TypeOK
  <2>5. cache[c][page[c]] \in Nat /\ page[c] \in Pages
    BY <1>1, <1>23 DEF Write, Step, Changed, PageInv, PagesAt, TypeOK
  <2>6. page' \in [Connections -> Pages]
    BY <1>1, <1>23, SMTT(30) DEF Write, TypeOK, Pages
  <2>7. file' \in [Pages -> Nat] /\ saved' \in [Pages -> Nat]
        /\ journal' \in {"none", "cold", "hot"}
    BY <1>1, <1>23 , <2>5 DEF Write, TypeOK, CacheOK, disk
  <2>8. QED
    BY <1>1, <1>23, <2>1, <2>2, <2>3, <2>6, <2>7, <2>4 DEF Write, CacheOK, TypeOK
<1>24. CASE Commit(c)
  <2>1. held' \subseteq Locks
    BY <1>1, <1>24 DEF Commit, TypeOK
  <2>2. CacheOK'
    BY <1>1, <1>24 DEF Commit, TypeOK, CacheOK
  <2>3. at' \in [Connections -> Places]
    BY <1>1, <1>24 DEF Commit, Step, TypeOK, Places
  <2>4. lock' \in [Connections -> NO_LOCK..EXCLUSIVE_LOCK]
    BY <1>1, <1>24 DEF Commit, TypeOK
  <2>5. page' \in [Connections -> Pages]
    BY <1>1, <1>24 DEF Commit, TypeOK, Pages
  <2>6. file' \in [Pages -> Nat] /\ saved' \in [Pages -> Nat]
        /\ journal' \in {"none", "cold", "hot"}
    BY <1>1, <1>24  DEF Commit, TypeOK, CacheOK, disk
  <2>7. QED
    BY <1>1, <1>24, <2>1, <2>2, <2>3, <2>5, <2>6, <2>4 DEF Commit, CacheOK, TypeOK
<1>25. CASE Rollback(c)
  <2>1. held' \subseteq Locks
    BY <1>1, <1>25 DEF Rollback, TypeOK
  <2>2. saved \in Seq(Nat) /\ Len(saved) <= NumPages
    <3>1. saved \in Seq(Nat) /\ Len(saved) = NumPages
      BY <1>1 DEF TypeOK, Pages
    <3>2. QED  BY <1>1, <3>1
  <2>3. cache' = [cache EXCEPT ![c] = saved]
    BY <1>25 DEF Rollback
  <2>4. CacheOK'
    BY <1>1, <2>2, <2>3, CacheSet
  <2>5. at' \in [Connections -> Places]
    BY <1>1, <1>25 DEF Rollback, Step, TypeOK, Places
  <2>6. lock' \in [Connections -> NO_LOCK..EXCLUSIVE_LOCK]
    BY <1>1, <1>25 DEF Rollback, TypeOK
  <2>7. page' \in [Connections -> Pages]
    BY <1>1, <1>25 DEF Rollback, TypeOK, Pages
  <2>8. file' \in [Pages -> Nat] /\ saved' \in [Pages -> Nat]
        /\ journal' \in {"none", "cold", "hot"}
    BY <1>1, <1>25  DEF Rollback, TypeOK, CacheOK, disk
  <2>9. QED
    BY <1>1, <1>25, <2>1, <2>4, <2>5, <2>7, <2>8, <2>6 DEF Rollback, CacheOK, TypeOK
<1>26. CASE ToShared(c)
  <2>1. held' \subseteq Locks
    BY <1>1, <1>26, DropHeld DEF ToShared, Ranges
  <2>2. CacheOK'
    BY <1>1, <1>26 DEF ToShared, TypeOK, CacheOK
  <2>3. at' \in [Connections -> Places]
    BY <1>1, <1>26 DEF ToShared, Step, TypeOK, Places
  <2>4. lock' \in [Connections -> NO_LOCK..EXCLUSIVE_LOCK]
    BY <1>1, <1>26 DEF ToShared, TypeOK
  <2>5. page' \in [Connections -> Pages]
    BY <1>1, <1>26 DEF ToShared, TypeOK, Pages
  <2>6. file' \in [Pages -> Nat] /\ saved' \in [Pages -> Nat]
        /\ journal' \in {"none", "cold", "hot"}
    BY <1>1, <1>26  DEF ToShared, TypeOK, CacheOK, disk
  <2>7. QED
    BY <1>1, <1>26, <2>1, <2>2, <2>3, <2>5, <2>6, <2>4 DEF ToShared, CacheOK, TypeOK
<1>27. CASE SharedAgain(c)
  <2>1. held' \subseteq Locks
    BY <1>1, <1>27, TakeHeld DEF SharedAgain, Ranges
  <2>2. CacheOK'
    BY <1>1, <1>27 DEF SharedAgain, TypeOK, CacheOK
  <2>3. at' \in [Connections -> Places]
    <3>1. Take(c, "sharedAgain", "shared", FALSE, "release", "failed")
      BY <1>27 DEF SharedAgain
    <3>2. "release" \in Places /\ "failed" \in Places
      BY DEF Places
    <3>3. QED  BY <1>1, <3>1, <3>2, TakePlaces
  <2>4. lock' \in [Connections -> NO_LOCK..EXCLUSIVE_LOCK]
    BY <1>1, <1>27 DEF SharedAgain, TypeOK
  <2>5. page' \in [Connections -> Pages]
    BY <1>1, <1>27 DEF SharedAgain, TypeOK, Pages
  <2>6. file' \in [Pages -> Nat] /\ saved' \in [Pages -> Nat]
        /\ journal' \in {"none", "cold", "hot"}
    BY <1>1, <1>27  DEF SharedAgain, TypeOK, CacheOK, disk
  <2>7. QED
    BY <1>1, <1>27, <2>1, <2>2, <2>3, <2>5, <2>6, <2>4 DEF SharedAgain, CacheOK,
       TypeOK
<1>28. CASE Release(c)
  <2>1. held' \subseteq Locks
    BY <1>1, <1>28, DropHeld DEF Release, Ranges
  <2>2. CacheOK'
    BY <1>1, <1>28 DEF Release, TypeOK, CacheOK
  <2>3. at' \in [Connections -> Places]
    BY <1>1, <1>28 DEF Release, Step, TypeOK, Places
  <2>4. lock' \in [Connections -> NO_LOCK..EXCLUSIVE_LOCK]
    BY <1>1, <1>28 DEF Release, TypeOK
  <2>5. page' \in [Connections -> Pages]
    BY <1>1, <1>28 DEF Release, TypeOK, Pages
  <2>6. file' \in [Pages -> Nat] /\ saved' \in [Pages -> Nat]
        /\ journal' \in {"none", "cold", "hot"}
    BY <1>1, <1>28  DEF Release, TypeOK, CacheOK, disk
  <2>7. QED
    BY <1>1, <1>28, <2>1, <2>2, <2>3, <2>5, <2>6, <2>4 DEF Release, CacheOK, TypeOK
<1>29. CASE Lower(c)
  <2>1. held' \subseteq Locks
    BY <1>1, <1>29, DropHeld DEF Lower, Ranges
  <2>2. CacheOK'
    BY <1>1, <1>29 DEF Lower, TypeOK, CacheOK
  <2>3. at' \in [Connections -> Places]
    BY <1>1, <1>29, StepPlaces DEF Lower, Places
  <2>4. lock' \in [Connections -> NO_LOCK..EXCLUSIVE_LOCK]
    <3>1. SetLock(c, SHARED_LOCK)
      BY <1>29 DEF Lower
    <3>2. SHARED_LOCK \in NO_LOCK..EXCLUSIVE_LOCK
      BY <1>1 DEF TypeOK, NO_LOCK, SHARED_LOCK, RESERVED_LOCK, PENDING_LOCK,
         EXCLUSIVE_LOCK
    <3>3. QED  BY <1>1, <3>1, <3>2, LockSet
  <2>5. page' \in [Connections -> Pages]
    BY <1>1, <1>29 DEF Lower, TypeOK, Pages
  <2>6. file' \in [Pages -> Nat] /\ saved' \in [Pages -> Nat]
        /\ journal' \in {"none", "cold", "hot"}
    BY <1>1, <1>29  DEF Lower, TypeOK, CacheOK, disk
  <2>7. QED
    BY <1>1, <1>29, <2>1, <2>2, <2>3, <2>5, <2>6, <2>4 DEF Lower, CacheOK, TypeOK
<1>30. CASE End(c)
  <2>1. held' \subseteq Locks
    BY <1>1, <1>30, DropHeld DEF End, Ranges
  <2>2. CacheOK'
    BY <1>1, <1>30 DEF End, TypeOK, CacheOK
  <2>3. at' \in [Connections -> Places]
    BY <1>1, <1>30, StepPlaces DEF End, Places
  <2>4. lock' \in [Connections -> NO_LOCK..EXCLUSIVE_LOCK]
    <3>1. SetLock(c, NO_LOCK)
      BY <1>30 DEF End
    <3>2. NO_LOCK \in NO_LOCK..EXCLUSIVE_LOCK
      BY <1>1 DEF TypeOK, NO_LOCK, SHARED_LOCK, RESERVED_LOCK, PENDING_LOCK,
         EXCLUSIVE_LOCK
    <3>3. QED  BY <1>1, <3>1, <3>2, LockSet
  <2>5. page' \in [Connections -> Pages]
    BY <1>1, <1>30 DEF End, TypeOK, Pages
  <2>6. file' \in [Pages -> Nat] /\ saved' \in [Pages -> Nat]
        /\ journal' \in {"none", "cold", "hot"}
    BY <1>1, <1>30  DEF End, TypeOK, CacheOK, disk
  <2>7. QED
    BY <1>1, <1>30, <2>1, <2>2, <2>3, <2>5, <2>6, <2>4 DEF End, CacheOK, TypeOK
<1>31. CASE Crash(c)
  <2>1. held' \subseteq Locks
    BY <1>1, <1>31, DropHeld DEF Crash, Ranges
  <2>2. <<>> \in Seq(Nat) /\ Len(<<>>) <= NumPages
    BY <1>1, EmptySeq
  <2>3. cache' = [cache EXCEPT ![c] = <<>>]
    BY <1>31 DEF Crash
  <2>4. CacheOK'
    BY <1>1, <2>2, <2>3, CacheSet
  <2>5. at' \in [Connections -> Places]
    BY <1>1, <1>31 DEF Crash, Step, TypeOK, Places
  <2>6. lock' \in [Connections -> NO_LOCK..EXCLUSIVE_LOCK]
    <3>1. SetLock(c, NO_LOCK)
      BY <1>31 DEF Crash
    <3>2. NO_LOCK \in NO_LOCK..EXCLUSIVE_LOCK
      BY <1>1 DEF TypeOK, NO_LOCK, SHARED_LOCK, RESERVED_LOCK, PENDING_LOCK,
         EXCLUSIVE_LOCK
    <3>3. QED  BY <1>1, <3>1, <3>2, LockSet
  <2>7. page' \in [Connections -> Pages]
    BY <1>1, <1>31 DEF Crash, TypeOK, Pages
  <2>8. file' \in [Pages -> Nat] /\ saved' \in [Pages -> Nat]
        /\ journal' \in {"none", "cold", "hot"}
    BY <1>1, <1>31  DEF Crash, TypeOK, CacheOK, disk
  <2>9. QED
    BY <1>1, <1>31, <2>1, <2>4, <2>5, <2>7, <2>8, <2>6 DEF Crash, CacheOK, TypeOK
<1>32. QED
  BY <1>2, <1>3, <1>4, <1>5, <1>6, <1>7, <1>8, <1>9, <1>10, <1>11, <1>12, <1>13, <1>14,
     <1>15, <1>16, <1>17, <1>18, <1>19, <1>20, <1>21, <1>22, <1>23, <1>24, <1>25,
     <1>26, <1>27, <1>28, <1>29, <1>30, <1>31 DEF Acts, SharedLock, Transaction, Unlock

-----------------------------------------------------------------------------
(* The pages.                                                              *)

\* Read adds the page it is at, if the cache lacks it.
LEMMA ReadCache ==
    ASSUME Inv, NEW c \in Connections, Read(c)
    PROVE  /\ cache[c] \in Seq(Nat) /\ DOMAIN cache'[c] = DOMAIN cache[c] \union {page[c]}
           /\ \A j \in DOMAIN cache[c] : cache'[c][j] = cache[c][j]
           /\ page[c] \notin DOMAIN cache[c] => cache'[c][page[c]] = file[page[c]]
           /\ \A d \in Connections \ {c} : cache'[d] = cache[d]
<1>1. /\ page[c] \in 1..NumPages /\ file[page[c]] \in Nat /\ NumPages \in Nat
      /\ cache[c] \in Seq(Nat) /\ DOMAIN cache[c] = 1..Len(cache[c]) /\ Len(cache[c]) \in Nat
      /\ cache \in [Connections -> Seq(Nat)]
      /\ \A j \in 1..NumPages : j < page[c] => j \in DOMAIN cache[c]
  BY PagesAssumption DEF Inv, DataParts, TypeOK, PageInv, PagesAt, Pages, Read, Step
<1>2. \A d \in Connections \ {c} : cache'[d] = cache[d]
  BY <1>1 DEF Read
<1>3. CASE page[c] \in DOMAIN cache[c]
  BY <1>1, <1>2, <1>3 DEF Read
<1>4. CASE page[c] \notin DOMAIN cache[c]
  <2>1. cache'[c] = Append(cache[c], file[page[c]])
    BY <1>1, <1>4 DEF Read
  <2>2. page[c] = Len(cache[c]) + 1
    <3>1. page[c] > Len(cache[c])
      BY <1>1, <1>4
    <3>2. CASE page[c] > Len(cache[c]) + 1
      BY <1>1, <3>2
    <3>3. QED  BY <1>1, <3>1, <3>2
  <2>3. QED  BY <1>1, <1>2, <1>4, <2>1, <2>2, AppendProperties
<1>5. QED  BY <1>3, <1>4

LEMMA PageStep ==
    ASSUME Inv, NEW c \in Connections, Acts(c)
    PROVE  PageInv'
<1>1. /\ at \in [Connections -> Places] /\ lock \in [Connections -> NO_LOCK..EXCLUSIVE_LOCK]
      /\ writes \in [Connections -> BOOLEAN] /\ page \in [Connections -> Pages]
      /\ cache \in [Connections -> Seq(Nat)] /\ Pages = 1..NumPages /\ NumPages \in Nat \ {0}
      /\ TypeInv /\ PageInv
  BY PagesAssumption DEF Inv, TypeOK, ControlInv, DataParts, Pages
<1>2. CASE Begin(c)
  BY <1>1, <1>2 DEF Begin, Step, disk, SetLock, PageInv, PagesAt, TypeInv, Alone,
     Waiting, Reading, Raising, Changed, Writing, Checked, Commits, NO_LOCK,
     SHARED_LOCK, RESERVED_LOCK, PENDING_LOCK, EXCLUSIVE_LOCK
<1>3. CASE TakePendingForShared(c)
  <2>1. Step(c, "pendingForShared", "shared") \/ Step(c, "pendingForShared", "failed")
    BY <1>3 DEF TakePendingForShared, Take
  <2>2. UNCHANGED <<page, cache, writes, lock>>
    BY <1>3 DEF TakePendingForShared
  <2>3. /\ at[c] = "pendingForShared" /\ at'[c] \in {"shared", "failed"}
        /\ PagesAt(c) /\ lock'[c] = lock[c]
        /\ page'[c] = page[c] /\ cache'[c] = cache[c]
    BY <1>1, <2>1, <2>2 DEF Step, PageInv
  <2>4. PagesAt(c)'
    BY <2>3 DEF PagesAt, Raising, Changed, Commits
  <2>5. \A d \in Connections \ {c} : PagesAt(d)'
    BY <1>1, <2>1, <2>2 DEF Step, PageInv, PagesAt, Commits
  <2>6. QED  BY <2>4, <2>5 DEF PageInv
<1>4. CASE TakeShared(c)
  <2>1. Step(c, "shared", "dropPending") \/ Step(c, "shared", "failed")
    BY <1>4 DEF TakeShared, Take
  <2>2. UNCHANGED <<page, cache, writes, lock>>
    BY <1>4 DEF TakeShared
  <2>3. /\ at[c] = "shared" /\ at'[c] \in {"dropPending", "failed"}
        /\ PagesAt(c) /\ lock'[c] = lock[c]
        /\ page'[c] = page[c] /\ cache'[c] = cache[c]
    BY <1>1, <2>1, <2>2 DEF Step, PageInv
  <2>4. PagesAt(c)'
    BY <2>3 DEF PagesAt, Raising, Changed, Commits
  <2>5. \A d \in Connections \ {c} : PagesAt(d)'
    BY <1>1, <2>1, <2>2 DEF Step, PageInv, PagesAt, Commits
  <2>6. QED  BY <2>4, <2>5 DEF PageInv
<1>5. CASE DropPending(c)
  BY <1>1, <1>5 DEF DropPending, Step, disk, SetLock, PageInv, PagesAt, TypeInv,
     Alone, Waiting, Reading, Raising, Changed, Writing, Checked, Commits, NO_LOCK,
     SHARED_LOCK, RESERVED_LOCK, PENDING_LOCK, EXCLUSIVE_LOCK
<1>6. CASE Access(c)
  BY <1>1, <1>6 DEF Access, Step, disk, SetLock, PageInv, PagesAt, TypeInv, Alone,
     Waiting, Reading, Raising, Changed, Writing, Checked, Commits, NO_LOCK,
     SHARED_LOCK, RESERVED_LOCK, PENDING_LOCK, EXCLUSIVE_LOCK
<1>7. CASE CheckReserved(c)
  <2>1. Step(c, "checkReserved", "probed") \/ Step(c, "checkReserved", "validate")
    BY <1>7 DEF CheckReserved, Take
  <2>2. UNCHANGED <<page, cache, writes, lock>>
    BY <1>7 DEF CheckReserved
  <2>3. /\ at[c] = "checkReserved" /\ at'[c] \in {"probed", "validate"}
        /\ PagesAt(c) /\ lock'[c] = lock[c]
        /\ page'[c] = page[c] /\ cache'[c] = cache[c]
    BY <1>1, <2>1, <2>2 DEF Step, PageInv
  <2>4. PagesAt(c)'
    BY <2>3 DEF PagesAt, Raising, Changed, Commits
  <2>5. \A d \in Connections \ {c} : PagesAt(d)'
    BY <1>1, <2>1, <2>2 DEF Step, PageInv, PagesAt, Commits
  <2>6. QED  BY <2>4, <2>5 DEF PageInv
<1>8. CASE Probed(c)
  BY <1>1, <1>8 DEF Probed, Step, disk, SetLock, PageInv, PagesAt, TypeInv, Alone,
     Waiting, Reading, Raising, Changed, Writing, Checked, Commits, NO_LOCK,
     SHARED_LOCK, RESERVED_LOCK, PENDING_LOCK, EXCLUSIVE_LOCK
<1>9. CASE Peek(c)
  BY <1>1, <1>9 DEF Peek, Step, disk, SetLock, PageInv, PagesAt, TypeInv, Alone,
     Waiting, Reading, Raising, Changed, Writing, Checked, Commits, NO_LOCK,
     SHARED_LOCK, RESERVED_LOCK, PENDING_LOCK, EXCLUSIVE_LOCK
<1>10. CASE HotPending(c)
  <2>1. Step(c, "hotPending", "exchange") \/ Step(c, "hotPending", "failed")
    BY <1>10 DEF HotPending, Take
  <2>2. UNCHANGED <<page, cache, writes, lock>>
    BY <1>10 DEF HotPending
  <2>3. /\ at[c] = "hotPending" /\ at'[c] \in {"exchange", "failed"}
        /\ PagesAt(c) /\ lock'[c] = lock[c]
        /\ page'[c] = page[c] /\ cache'[c] = cache[c]
    BY <1>1, <2>1, <2>2 DEF Step, PageInv
  <2>4. ~Commits(c)'
    BY <1>1, <2>3 DEF TypeInv, Commits, SHARED_LOCK, RESERVED_LOCK
  <2>5. PagesAt(c)'
    BY <2>3, <2>4 DEF PagesAt, Raising, Changed, Commits
  <2>6. \A d \in Connections \ {c} : PagesAt(d)'
    BY <1>1, <2>1, <2>2 DEF Step, PageInv, PagesAt, Commits
  <2>7. QED  BY <2>5, <2>6 DEF PageInv
<1>11. CASE Recover(c)
  BY <1>1, <1>11 DEF Recover, Step, disk, SetLock, PageInv, PagesAt, TypeInv, Alone,
     Waiting, Reading, Raising, Changed, Writing, Checked, Commits, NO_LOCK,
     SHARED_LOCK, RESERVED_LOCK, PENDING_LOCK, EXCLUSIVE_LOCK
<1>12. CASE Replay(c)
  BY <1>1, <1>12 DEF Replay, Step, disk, SetLock, PageInv, PagesAt, TypeInv, Alone,
     Waiting, Reading, Raising, Changed, Writing, Checked, Commits, NO_LOCK,
     SHARED_LOCK, RESERVED_LOCK, PENDING_LOCK, EXCLUSIVE_LOCK
<1>13. CASE Discard(c)
  BY <1>1, <1>13 DEF Discard, Step, disk, SetLock, PageInv, PagesAt, TypeInv, Alone,
     Waiting, Reading, Raising, Changed, Writing, Checked, Commits, NO_LOCK,
     SHARED_LOCK, RESERVED_LOCK, PENDING_LOCK, EXCLUSIVE_LOCK
<1>14. CASE Validate(c)
  BY <1>1, <1>14 DEF Validate, Step, disk, SetLock, PageInv, PagesAt, TypeInv, Alone,
     Waiting, Reading, Raising, Changed, Writing, Checked, Commits, NO_LOCK,
     SHARED_LOCK, RESERVED_LOCK, PENDING_LOCK, EXCLUSIVE_LOCK
<1>15. CASE Reserve(c)
  <2>1. Step(c, "reserve", "read") \/ Step(c, "reserve", "failed")
    BY <1>15 DEF Reserve, Take
  <2>2. QED
    BY <1>1, <1>15, <2>1 DEF Reserve, Step, disk, SetLock, PageInv, PagesAt,
       TypeInv, Alone, Waiting, Reading, Raising, Changed, Writing, Checked,
       Commits, NO_LOCK, SHARED_LOCK, RESERVED_LOCK, PENDING_LOCK, EXCLUSIVE_LOCK
<1>16. CASE Read(c)
  <2>1. \A j \in Pages : j < page[c] => j \in DOMAIN cache[c]
    BY <1>1, <1>16 DEF Read, Step, PageInv, PagesAt
  <2>2. DOMAIN cache'[c] \subseteq Pages
    <3>1. TypeOK'
      BY TypeStep
    <3>2. cache'[c] \in Seq(Nat) /\ Len(cache'[c]) <= NumPages
      BY <3>1 DEF TypeOK
    <3>3. DOMAIN cache'[c] = 1..Len(cache'[c]) /\ Len(cache'[c]) \in Nat
      BY <3>2
    <3>4. QED  BY <1>1, <3>2, <3>3
  <2>3. DOMAIN cache'[c] = DOMAIN cache[c] \union {page[c]} /\ page[c] \in Pages
        /\ \A d \in Connections \ {c} : cache'[d] = cache[d]
    BY <1>1, <1>16, ReadCache
  <2>4. page[c] = NumPages => DOMAIN cache'[c] = Pages
    BY <1>1, <2>1, <2>2, <2>3
  <2>5. page'[c] \in Pages /\ page[c] # NumPages => page'[c] = page[c] + 1
    BY <1>1, <1>16 DEF Read
  <2>6. QED
    BY <1>1, <1>16, <2>1, <2>3, <2>5, <2>4 DEF Read, Step, disk, SetLock, PageInv,
       PagesAt, TypeInv, Alone, Waiting, Reading, Raising, Changed, Writing,
       Checked, Commits, NO_LOCK, SHARED_LOCK, RESERVED_LOCK, PENDING_LOCK,
       EXCLUSIVE_LOCK
<1>17. CASE OpenJournal(c)
  BY <1>1, <1>17 DEF OpenJournal, Step, disk, SetLock, PageInv, PagesAt, TypeInv,
     Alone, Waiting, Reading, Raising, Changed, Writing, Checked, Commits, NO_LOCK,
     SHARED_LOCK, RESERVED_LOCK, PENDING_LOCK, EXCLUSIVE_LOCK
<1>18. CASE CommitPending(c)
  <2>1. Step(c, "commitPending", "exchange") \/ Step(c, "commitPending", "rollback")
    BY <1>18 DEF CommitPending, Take
  <2>2. UNCHANGED <<page, cache, writes, lock>>
    BY <1>18 DEF CommitPending
  <2>3. /\ at[c] = "commitPending" /\ at'[c] \in {"exchange", "rollback"}
        /\ PagesAt(c) /\ lock'[c] = lock[c]
        /\ page'[c] = page[c] /\ cache'[c] = cache[c]
    BY <1>1, <2>1, <2>2 DEF Step, PageInv
  <2>4. PagesAt(c)'
    BY <2>3 DEF PagesAt, Raising, Changed, Commits
  <2>5. \A d \in Connections \ {c} : PagesAt(d)'
    BY <1>1, <2>1, <2>2 DEF Step, PageInv, PagesAt, Commits
  <2>6. QED  BY <2>4, <2>5 DEF PageInv
<1>19. CASE Exchange(c)
  BY <1>1, <1>19 DEF Exchange, Step, disk, SetLock, PageInv, PagesAt, TypeInv, Alone,
     Waiting, Reading, Raising, Changed, Writing, Checked, Commits, NO_LOCK,
     SHARED_LOCK, RESERVED_LOCK, PENDING_LOCK, EXCLUSIVE_LOCK
<1>20. CASE TakeExclusive(c)
  <2>1. Step(c, "exclusive", IF lock[c] = RESERVED_LOCK THEN "sync" ELSE "recover")
        \/ Step(c, "exclusive", "regain")
    BY <1>20 DEF TakeExclusive, Take
  <2>2. QED
    BY <1>1, <1>20, <2>1 DEF TakeExclusive, Step, disk, SetLock, PageInv, PagesAt,
       TypeInv, Alone, Waiting, Reading, Raising, Changed, Writing, Checked,
       Commits, NO_LOCK, SHARED_LOCK, RESERVED_LOCK, PENDING_LOCK, EXCLUSIVE_LOCK
<1>21. CASE Regain(c)
  <2>1. Step(c, "regain", IF lock[c] = RESERVED_LOCK THEN "rollback" ELSE "failed")
    BY <1>21 DEF Regain, Take
  <2>2. QED
    BY <1>1, <1>21, <2>1 DEF Regain, Step, disk, SetLock, PageInv, PagesAt, TypeInv,
       Alone, Waiting, Reading, Raising, Changed, Writing, Checked, Commits,
       NO_LOCK, SHARED_LOCK, RESERVED_LOCK, PENDING_LOCK, EXCLUSIVE_LOCK
<1>22. CASE Sync(c)
  BY <1>1, <1>22 DEF Sync, Step, disk, SetLock, PageInv, PagesAt, TypeInv, Alone,
     Waiting, Reading, Raising, Changed, Writing, Checked, Commits, NO_LOCK,
     SHARED_LOCK, RESERVED_LOCK, PENDING_LOCK, EXCLUSIVE_LOCK
<1>23. CASE Write(c)
  BY <1>1, <1>23 DEF Write, Step, disk, SetLock, PageInv, PagesAt, TypeInv, Alone,
     Waiting, Reading, Raising, Changed, Writing, Checked, Commits, NO_LOCK,
     SHARED_LOCK, RESERVED_LOCK, PENDING_LOCK, EXCLUSIVE_LOCK
<1>24. CASE Commit(c)
  BY <1>1, <1>24 DEF Commit, Step, disk, SetLock, PageInv, PagesAt, TypeInv, Alone,
     Waiting, Reading, Raising, Changed, Writing, Checked, Commits, NO_LOCK,
     SHARED_LOCK, RESERVED_LOCK, PENDING_LOCK, EXCLUSIVE_LOCK
<1>25. CASE Rollback(c)
  BY <1>1, <1>25 DEF Rollback, Step, disk, SetLock, PageInv, PagesAt, TypeInv, Alone,
     Waiting, Reading, Raising, Changed, Writing, Checked, Commits, NO_LOCK,
     SHARED_LOCK, RESERVED_LOCK, PENDING_LOCK, EXCLUSIVE_LOCK
<1>26. CASE ToShared(c)
  BY <1>1, <1>26 DEF ToShared, Step, disk, SetLock, PageInv, PagesAt, TypeInv, Alone,
     Waiting, Reading, Raising, Changed, Writing, Checked, Commits, NO_LOCK,
     SHARED_LOCK, RESERVED_LOCK, PENDING_LOCK, EXCLUSIVE_LOCK
<1>27. CASE SharedAgain(c)
  <2>1. Step(c, "sharedAgain", "release") \/ Step(c, "sharedAgain", "failed")
    BY <1>27 DEF SharedAgain, Take
  <2>2. UNCHANGED <<page, cache, writes, lock>>
    BY <1>27 DEF SharedAgain
  <2>3. /\ at[c] = "sharedAgain" /\ at'[c] \in {"release", "failed"}
        /\ PagesAt(c) /\ lock'[c] = lock[c]
        /\ page'[c] = page[c] /\ cache'[c] = cache[c]
    BY <1>1, <2>1, <2>2 DEF Step, PageInv
  <2>4. PagesAt(c)'
    BY <2>3 DEF PagesAt, Raising, Changed, Commits
  <2>5. \A d \in Connections \ {c} : PagesAt(d)'
    BY <1>1, <2>1, <2>2 DEF Step, PageInv, PagesAt, Commits
  <2>6. QED  BY <2>4, <2>5 DEF PageInv
<1>28. CASE Release(c)
  BY <1>1, <1>28 DEF Release, Step, disk, SetLock, PageInv, PagesAt, TypeInv, Alone,
     Waiting, Reading, Raising, Changed, Writing, Checked, Commits, NO_LOCK,
     SHARED_LOCK, RESERVED_LOCK, PENDING_LOCK, EXCLUSIVE_LOCK
<1>29. CASE Lower(c)
  BY <1>1, <1>29 DEF Lower, Step, disk, SetLock, PageInv, PagesAt, TypeInv, Alone,
     Waiting, Reading, Raising, Changed, Writing, Checked, Commits, NO_LOCK,
     SHARED_LOCK, RESERVED_LOCK, PENDING_LOCK, EXCLUSIVE_LOCK
<1>30. CASE End(c)
  BY <1>1, <1>30 DEF End, Step, disk, SetLock, PageInv, PagesAt, TypeInv, Alone,
     Waiting, Reading, Raising, Changed, Writing, Checked, Commits, NO_LOCK,
     SHARED_LOCK, RESERVED_LOCK, PENDING_LOCK, EXCLUSIVE_LOCK
<1>31. CASE Crash(c)
  BY <1>1, <1>31 DEF Crash, Step, disk, SetLock, PageInv, PagesAt, TypeInv, Alone,
     Waiting, Reading, Raising, Changed, Writing, Checked, Commits, NO_LOCK,
     SHARED_LOCK, RESERVED_LOCK, PENDING_LOCK, EXCLUSIVE_LOCK
<1>32. QED
  BY <1>2, <1>3, <1>4, <1>5, <1>6, <1>7, <1>8, <1>9, <1>10, <1>11, <1>12, <1>13, <1>14,
     <1>15, <1>16, <1>17, <1>18, <1>19, <1>20, <1>21, <1>22, <1>23, <1>24, <1>25,
     <1>26, <1>27, <1>28, <1>29, <1>30, <1>31 DEF Acts, SharedLock, Transaction, Unlock

LEMMA UniformOthers ==
    ASSUME UniformInv, NEW c \in Connections,
           \A d \in Connections \ {c} : cache'[d] = cache[d],
           \A j, k \in DOMAIN cache'[c] : cache'[c][j] = cache'[c][k]
    PROVE  \A d \in Connections : \A j, k \in DOMAIN cache'[d] : cache'[d][j] = cache'[d][k]
<1>1. SUFFICES ASSUME NEW d \in Connections,
                      NEW j \in DOMAIN cache'[d], NEW k \in DOMAIN cache'[d]
               PROVE  cache'[d][j] = cache'[d][k]
  OBVIOUS
<1>2. CASE d = c
  BY <1>2
<1>3. CASE d # c
  <2>1. cache'[d] = cache[d]
    BY <1>3
  <2>2. QED  BY <2>1 DEF UniformInv
<1>4. QED  BY <1>2, <1>3

LEMMA UniformKept ==
    ASSUME UniformInv, NEW c \in Connections, cache \in [Connections -> Seq(Nat)],
           UNCHANGED disk, NEW kept \in {cache[c], <<>>}, cache' = [cache EXCEPT ![c] = kept]
    PROVE  UniformInv'
<1>1. \A d \in Connections \ {c} : cache'[d] = cache[d]
  OBVIOUS
<1>2. cache'[c] = cache[c] \/ cache'[c] = <<>>
  OBVIOUS
<1>3. \A j, k \in DOMAIN cache'[c] : cache'[c][j] = cache'[c][k]
  BY <1>2 DEF UniformInv
<1>4. \A d \in Connections : \A j, k \in DOMAIN cache'[d] : cache'[d][j] = cache'[d][k]
  BY <1>1, <1>3, UniformOthers
<1>5. QED  BY <1>4 DEF UniformInv, Committed, disk

\* The pages recorded, those of the last commit and those in one memory are of
\* one statement each.
LEMMA UniformStep ==
    ASSUME Inv, NEW c \in Connections, Acts(c)
    PROVE  UniformInv'
<1>1. /\ file \in [Pages -> Nat] /\ saved \in [Pages -> Nat]
      /\ cache \in [Connections -> Seq(Nat)] /\ page \in [Connections -> Pages]
      /\ Pages = 1..NumPages /\ NumPages \in Nat \ {0}
      /\ JournalInv /\ PageInv /\ UniformInv /\ DataInv
  BY PagesAssumption DEF Inv, TypeOK, DataParts, Pages
<1>2. CASE Begin(c)
  <2>1. PICK kept \in {cache[c], <<>>} : cache' = [cache EXCEPT ![c] = kept]
    BY <1>2 DEF Begin
  <2>2. UNCHANGED disk
    BY <1>2 DEF Begin
  <2>3. QED
    BY <1>1, <2>1, <2>2, UniformKept
<1>3. CASE TakePendingForShared(c)
  <2>1. UNCHANGED <<disk, cache>>
    BY <1>3 DEF TakePendingForShared
  <2>2. QED
    BY <1>1, <2>1 DEF UniformInv, Committed, disk
<1>4. CASE TakeShared(c)
  <2>1. UNCHANGED <<disk, cache>>
    BY <1>4 DEF TakeShared
  <2>2. QED
    BY <1>1, <2>1 DEF UniformInv, Committed, disk
<1>5. CASE DropPending(c)
  <2>1. UNCHANGED <<disk, cache>>
    BY <1>5 DEF DropPending
  <2>2. QED
    BY <1>1, <2>1 DEF UniformInv, Committed, disk
<1>6. CASE Access(c)
  <2>1. UNCHANGED <<disk, cache>>
    BY <1>6 DEF Access
  <2>2. QED
    BY <1>1, <2>1 DEF UniformInv, Committed, disk
<1>7. CASE CheckReserved(c)
  <2>1. UNCHANGED <<disk, cache>>
    BY <1>7 DEF CheckReserved
  <2>2. QED
    BY <1>1, <2>1 DEF UniformInv, Committed, disk
<1>8. CASE Probed(c)
  <2>1. UNCHANGED <<disk, cache>>
    BY <1>8 DEF Probed
  <2>2. QED
    BY <1>1, <2>1 DEF UniformInv, Committed, disk
<1>9. CASE Peek(c)
  <2>1. UNCHANGED <<disk, cache>>
    BY <1>9 DEF Peek
  <2>2. QED
    BY <1>1, <2>1 DEF UniformInv, Committed, disk
<1>10. CASE HotPending(c)
  <2>1. UNCHANGED <<disk, cache>>
    BY <1>10 DEF HotPending
  <2>2. QED
    BY <1>1, <2>1 DEF UniformInv, Committed, disk
<1>11. CASE Recover(c)
  <2>1. UNCHANGED <<disk, cache>>
    BY <1>11 DEF Recover
  <2>2. QED
    BY <1>1, <2>1 DEF UniformInv, Committed, disk
<1>12. CASE Replay(c)
  <2>1. journal = "hot" /\ UNCHANGED <<journal, saved>> /\ cache' = [cache EXCEPT ![c] = <<>>]
    BY <1>1, <1>12 DEF Replay, Step, JournalInv
  <2>2. \A d \in Connections \ {c} : cache'[d] = cache[d]
    BY <1>1, <2>1
  <2>3. \A j, k \in DOMAIN cache'[c] : cache'[c][j] = cache'[c][k]
    BY <1>1, <2>1
  <2>4. \A d \in Connections : \A j, k \in DOMAIN cache'[d] : cache'[d][j] = cache'[d][k]
    BY <1>1, <2>2, <2>3, UniformOthers
  <2>5. QED
    BY <1>1, <2>1, <2>4 DEF UniformInv, Committed
<1>13. CASE Discard(c)
  <2>1. Committed' = Committed /\ UNCHANGED <<saved, cache>>
    BY <1>1, <1>13 DEF Discard, Step, DataInv, DataAt, Committed
  <2>2. QED
    BY <1>1, <2>1 DEF UniformInv
<1>14. CASE Validate(c)
  <2>1. UNCHANGED disk /\ \E kept \in {cache[c], <<>>} : cache' = [cache EXCEPT ![c] = kept]
    BY <1>14 DEF Validate
  <2>2. QED
    BY <1>1, <2>1, UniformKept
<1>15. CASE Reserve(c)
  <2>1. UNCHANGED <<disk, cache>>
    BY <1>15 DEF Reserve
  <2>2. QED
    BY <1>1, <2>1 DEF UniformInv, Committed, disk
<1>16. CASE Read(c)
  <2>1. UNCHANGED disk /\ journal # "hot"
    BY <1>1, <1>16 DEF Read, Step, JournalInv, Checked
  <2>2. /\ \A j \in DOMAIN cache[c] : cache'[c][j] = file[j]
        /\ DOMAIN cache'[c] = DOMAIN cache[c] \union {page[c]} /\ DOMAIN cache[c] \subseteq Pages
    <3>1. DOMAIN cache[c] = 1..Len(cache[c]) /\ Len(cache[c]) <= NumPages /\ Len(cache[c]) \in Nat
      BY <1>1 DEF Inv, TypeOK
    <3>2. \A j \in DOMAIN cache[c] : cache[c][j] = file[j]
      BY <1>1, <1>16 DEF Read, Step, DataInv, DataAt
    <3>3. /\ \A j \in DOMAIN cache[c] : cache'[c][j] = cache[c][j]
          /\ DOMAIN cache'[c] = DOMAIN cache[c] \union {page[c]}
      BY <1>16, ReadCache
    <3>4. DOMAIN cache[c] \subseteq Pages
      BY <1>1, <3>1
    <3>5. QED
      BY <3>2, <3>3, <3>4
  <2>3. page[c] \notin DOMAIN cache[c] => cache'[c][page[c]] = file[page[c]]
    BY <1>16, ReadCache
  <2>4. \A j \in DOMAIN cache'[c] : j \in Pages /\ cache'[c][j] = file[j]
    BY <1>1, <2>2, <2>3
  <2>5. \A j, k \in Pages : file[j] = file[k]
    BY <2>1 DEF UniformInv, Committed, Inv, DataParts
  <2>6. \A d \in Connections \ {c} : cache'[d] = cache[d]
    BY <1>16, ReadCache
  <2>7. \A d \in Connections : \A j, k \in DOMAIN cache'[d] : cache'[d][j] = cache'[d][k]
    <3>1. \A j, k \in DOMAIN cache'[c] : cache'[c][j] = cache'[c][k]
      BY <2>4, <2>5
    <3>2. QED  BY <1>1, <2>6, <3>1, UniformOthers
  <2>8. QED
    BY <1>1, <2>1, <2>7 DEF UniformInv, Committed, disk
<1>17. CASE OpenJournal(c)
  <2>1. /\ DOMAIN cache[c] = Pages /\ saved' = cache[c] /\ journal' = "cold" /\ UNCHANGED file
        /\ journal # "hot"
    BY <1>1, <1>17 DEF OpenJournal, Step, PageInv, PagesAt, JournalInv, Checked
  <2>2. cache' = [cache EXCEPT ![c] = [k \in Pages |-> cache[c][k] + 1]]
    BY <1>1, <1>17 DEF OpenJournal
  <2>3. \A j, k \in Pages : cache[c][j] = cache[c][k] /\ file[j] = file[k]
    BY <1>1, <2>1 DEF UniformInv, Committed
  <2>4. \A j, k \in DOMAIN cache'[c] : cache'[c][j] = cache'[c][k]
    BY <1>1, <2>2, <2>3, SMTT(30)
  <2>5. \A d \in Connections \ {c} : cache'[d] = cache[d]
    BY <1>1, <2>2
  <2>6. \A d \in Connections : \A j, k \in DOMAIN cache'[d] : cache'[d][j] = cache'[d][k]
    BY <1>1, <2>4, <2>5, UniformOthers
  <2>7. QED
    BY <1>1, <2>1, <2>3, <2>6 DEF UniformInv, Committed
<1>18. CASE CommitPending(c)
  <2>1. UNCHANGED <<disk, cache>>
    BY <1>18 DEF CommitPending
  <2>2. QED
    BY <1>1, <2>1 DEF UniformInv, Committed, disk
<1>19. CASE Exchange(c)
  <2>1. UNCHANGED <<disk, cache>>
    BY <1>19 DEF Exchange
  <2>2. QED
    BY <1>1, <2>1 DEF UniformInv, Committed, disk
<1>20. CASE TakeExclusive(c)
  <2>1. UNCHANGED <<disk, cache>>
    BY <1>20 DEF TakeExclusive
  <2>2. QED
    BY <1>1, <2>1 DEF UniformInv, Committed, disk
<1>21. CASE Regain(c)
  <2>1. UNCHANGED <<disk, cache>>
    BY <1>21 DEF Regain
  <2>2. QED
    BY <1>1, <2>1 DEF UniformInv, Committed, disk
<1>22. CASE Sync(c)
  <2>1. Committed' = saved /\ UNCHANGED <<saved, cache>>
    BY <1>22 DEF Sync, Committed
  <2>2. QED
    BY <1>1, <2>1 DEF UniformInv
<1>23. CASE Write(c)
  <2>1. journal = "hot" /\ UNCHANGED <<journal, saved, cache>>
    BY <1>1, <1>23 DEF Write, Step, JournalInv
  <2>2. QED
    BY <1>1, <2>1 DEF UniformInv, Committed
<1>24. CASE Commit(c)
  <2>1. Committed' = file /\ UNCHANGED <<saved, cache>>
    BY <1>24 DEF Commit, Committed
  <2>2. DOMAIN cache[c] = Pages /\ \A k \in Pages : file[k] = cache[c][k]
    BY <1>1, <1>24 DEF Commit, Step, PageInv, PagesAt, DataInv, DataAt, Changed
  <2>3. \A j, k \in Pages : file[j] = file[k]
    BY <2>2 DEF Inv, DataParts, UniformInv
  <2>4. QED
    BY <1>1, <2>1, <2>3 DEF UniformInv
<1>25. CASE Rollback(c)
  <2>1. Committed' = Committed /\ UNCHANGED saved /\ cache' = [cache EXCEPT ![c] = saved]
    BY <1>1, <1>25 DEF Rollback, Step, JournalInv, Checked, Committed
  <2>2. /\ \A d \in Connections \ {c} : cache'[d] = cache[d]
        /\ cache'[c] = saved
    BY <1>1, <2>1
  <2>3. \A j, k \in DOMAIN cache'[c] : cache'[c][j] = cache'[c][k]
    BY <1>1, <2>2 DEF UniformInv
  <2>4. \A d \in Connections : \A j, k \in DOMAIN cache'[d] : cache'[d][j] = cache'[d][k]
    BY <1>1, <2>2, <2>3, UniformOthers
  <2>5. QED
    BY <1>1, <2>1, <2>4, SMTT(30) DEF UniformInv
<1>26. CASE ToShared(c)
  <2>1. UNCHANGED <<disk, cache>>
    BY <1>26 DEF ToShared
  <2>2. QED
    BY <1>1, <2>1 DEF UniformInv, Committed, disk
<1>27. CASE SharedAgain(c)
  <2>1. UNCHANGED <<disk, cache>>
    BY <1>27 DEF SharedAgain
  <2>2. QED
    BY <1>1, <2>1 DEF UniformInv, Committed, disk
<1>28. CASE Release(c)
  <2>1. UNCHANGED <<disk, cache>>
    BY <1>28 DEF Release
  <2>2. QED
    BY <1>1, <2>1 DEF UniformInv, Committed, disk
<1>29. CASE Lower(c)
  <2>1. UNCHANGED <<disk, cache>>
    BY <1>29 DEF Lower
  <2>2. QED
    BY <1>1, <2>1 DEF UniformInv, Committed, disk
<1>30. CASE End(c)
  <2>1. UNCHANGED <<disk, cache>>
    BY <1>30 DEF End
  <2>2. QED
    BY <1>1, <2>1 DEF UniformInv, Committed, disk
<1>31. CASE Crash(c)
  <2>1. UNCHANGED disk /\ cache' = [cache EXCEPT ![c] = <<>>]
    BY <1>31 DEF Crash
  <2>2. QED
    BY <1>1, <2>1, UniformKept
<1>32. QED
  BY <1>2, <1>3, <1>4, <1>5, <1>6, <1>7, <1>8, <1>9, <1>10, <1>11, <1>12, <1>13, <1>14,
     <1>15, <1>16, <1>17, <1>18, <1>19, <1>20, <1>21, <1>22, <1>23, <1>24, <1>25,
     <1>26, <1>27, <1>28, <1>29, <1>30, <1>31 DEF Acts, SharedLock, Transaction, Unlock

\* A step leaves the other connections where they are.
LEMMA OthersStay ==
    ASSUME Inv, NEW c \in Connections, Acts(c),
           NEW d \in Connections \ {c}
    PROVE  /\ at'[d] = at[d] /\ lock'[d] = lock[d] /\ writes'[d] = writes[d]
           /\ page'[d] = page[d] /\ cache'[d] = cache[d]
<1>1. /\ at \in [Connections -> Places] /\ lock \in [Connections -> NO_LOCK..EXCLUSIVE_LOCK]
      /\ writes \in [Connections -> BOOLEAN] /\ page \in [Connections -> Pages]
      /\ cache \in [Connections -> Seq(Nat)]
  BY DEF Inv, TypeOK
<1>2. CASE Begin(c)
  BY <1>1, <1>2 DEF Begin, Step, SetLock
<1>3. CASE TakePendingForShared(c)
  BY <1>1, <1>3 DEF TakePendingForShared, Take, Step, SetLock
<1>4. CASE TakeShared(c)
  BY <1>1, <1>4 DEF TakeShared, Take, Step, SetLock
<1>5. CASE DropPending(c)
  BY <1>1, <1>5 DEF DropPending, Step, SetLock
<1>6. CASE Access(c)
  BY <1>1, <1>6 DEF Access, Step, SetLock
<1>7. CASE CheckReserved(c)
  BY <1>1, <1>7 DEF CheckReserved, Take, Step, SetLock
<1>8. CASE Probed(c)
  BY <1>1, <1>8 DEF Probed, Step, SetLock
<1>9. CASE Peek(c)
  BY <1>1, <1>9 DEF Peek, Step, SetLock
<1>10. CASE HotPending(c)
  BY <1>1, <1>10 DEF HotPending, Take, Step, SetLock
<1>11. CASE Recover(c)
  BY <1>1, <1>11 DEF Recover, Step, SetLock
<1>12. CASE Replay(c)
  BY <1>1, <1>12 DEF Replay, Step, SetLock
<1>13. CASE Discard(c)
  BY <1>1, <1>13 DEF Discard, Step, SetLock
<1>14. CASE Validate(c)
  BY <1>1, <1>14 DEF Validate, Step, SetLock
<1>15. CASE Reserve(c)
  BY <1>1, <1>15 DEF Reserve, Take, Step, SetLock
<1>16. CASE Read(c)
  BY <1>1, <1>16 DEF Read, Step, SetLock
<1>17. CASE OpenJournal(c)
  BY <1>1, <1>17 DEF OpenJournal, Step, SetLock
<1>18. CASE CommitPending(c)
  BY <1>1, <1>18 DEF CommitPending, Take, Step, SetLock
<1>19. CASE Exchange(c)
  BY <1>1, <1>19 DEF Exchange, Step, SetLock
<1>20. CASE TakeExclusive(c)
  BY <1>1, <1>20 DEF TakeExclusive, Take, Step, SetLock
<1>21. CASE Regain(c)
  BY <1>1, <1>21 DEF Regain, Take, Step, SetLock
<1>22. CASE Sync(c)
  BY <1>1, <1>22 DEF Sync, Step, SetLock
<1>23. CASE Write(c)
  BY <1>1, <1>23 DEF Write, Step, SetLock
<1>24. CASE Commit(c)
  BY <1>1, <1>24 DEF Commit, Step, SetLock
<1>25. CASE Rollback(c)
  BY <1>1, <1>25 DEF Rollback, Step, SetLock
<1>26. CASE ToShared(c)
  BY <1>1, <1>26 DEF ToShared, Step, SetLock
<1>27. CASE SharedAgain(c)
  BY <1>1, <1>27 DEF SharedAgain, Take, Step, SetLock
<1>28. CASE Release(c)
  BY <1>1, <1>28 DEF Release, Step, SetLock
<1>29. CASE Lower(c)
  BY <1>1, <1>29 DEF Lower, Step, SetLock
<1>30. CASE End(c)
  BY <1>1, <1>30 DEF End, Step, SetLock
<1>31. CASE Crash(c)
  BY <1>1, <1>31 DEF Crash, Step, SetLock
<1>32. QED
  BY <1>2, <1>3, <1>4, <1>5, <1>6, <1>7, <1>8, <1>9, <1>10, <1>11, <1>12, <1>13, <1>14,
     <1>15, <1>16, <1>17, <1>18, <1>19, <1>20, <1>21, <1>22, <1>23, <1>24, <1>25,
     <1>26, <1>27, <1>28, <1>29, <1>30, <1>31 DEF Acts, SharedLock, Transaction, Unlock

\* Nor does it touch what they rely on.
LEMMA DataOthers ==
    ASSUME Inv, NEW c \in Connections, Acts(c),
           NEW d \in Connections \ {c}
    PROVE  DataAt(d)'
<1>1. DataAt(d) /\ ControlInv
  BY DEF Inv, DataParts, DataInv
<1>2. /\ at'[d] = at[d] /\ lock'[d] = lock[d] /\ writes'[d] = writes[d]
      /\ page'[d] = page[d] /\ cache'[d] = cache[d]
  BY OthersStay
<1>3. CASE UNCHANGED disk
  BY <1>1, <1>2, <1>3 DEF DataAt, Commits, disk
<1>4. CASE UNCHANGED <<file, saved>> /\ journal' # "hot"
  BY <1>1, <1>2, <1>4 DEF DataAt, Commits
<1>5. CASE Replay(c)
  <2>1. at[d] \notin Reading \union Waiting
    BY <1>1, <1>5, Exclusion DEF Replay, Step, Alone
  <2>2. QED
    BY <1>1, <1>5, <1>2, <2>1 DEF Replay, DataAt, Commits, Reading, Waiting, Alone, Raising
<1>6. CASE Write(c)
  <2>1. at[d] \notin Reading \union Waiting
    BY <1>1, <1>6, Exclusion DEF Write, Step, Alone
  <2>2. QED
    BY <1>1, <1>6, <1>2, <2>1 DEF Write, DataAt, Commits, Reading, Waiting, Alone, Raising
<1>7. CASE Sync(c)
  <2>1. at[d] \notin Reading \union Waiting
    BY <1>1, <1>7, Exclusion DEF Sync, Step, Alone
  <2>2. QED
    BY <1>1, <1>7, <1>2, <2>1 DEF Sync, DataAt, Commits, Reading, Waiting, Alone, Raising
<1>8. CASE OpenJournal(c)
  <2>1. at[d] \notin Alone /\ at[d] \notin Changed \union {"openJournal"} /\ ~Commits(d)
    BY <1>1, <1>8, Exclusion DEF OpenJournal, Step, Reading
  <2>2. QED
    BY <1>1, <1>8, <1>2, <2>1 DEF OpenJournal, DataAt, Commits, Alone, Changed
<1>9. CASE Discard(c) \/ Commit(c) \/ Rollback(c)
  BY <1>4, <1>9 DEF Discard, Commit, Rollback
<1>10. CASE Begin(c)
  BY <1>3, <1>10 DEF Begin
<1>11. CASE TakePendingForShared(c) \/ TakeShared(c) \/ DropPending(c) \/ Access(c)
             \/ CheckReserved(c) \/ Probed(c) \/ Peek(c) \/ HotPending(c)
             \/ Recover(c) \/ Validate(c)
  BY <1>3, <1>11 DEF TakePendingForShared, TakeShared, DropPending, Access,
     CheckReserved, Probed, Peek, HotPending, Recover, Validate
<1>12. CASE Reserve(c) \/ Read(c) \/ CommitPending(c) \/ Exchange(c)
             \/ TakeExclusive(c) \/ Regain(c)
  BY <1>3, <1>12 DEF Reserve, Read, CommitPending, Exchange, TakeExclusive, Regain
<1>13. CASE ToShared(c) \/ SharedAgain(c) \/ Release(c) \/ Lower(c)
             \/ End(c) \/ Crash(c)
  BY <1>3, <1>13 DEF ToShared, SharedAgain, Release, Lower, End, Crash
<1>14. QED
  BY <1>5, <1>6, <1>7, <1>8, <1>9, <1>10, <1>11, <1>12, <1>13 DEF Acts, SharedLock, Transaction,
     Unlock

LEMMA DataOwn ==
    ASSUME Inv, NEW c \in Connections, Acts(c)
    PROVE  DataAt(c)'
<1>1. /\ at \in [Connections -> Places] /\ lock \in [Connections -> NO_LOCK..EXCLUSIVE_LOCK]
      /\ writes \in [Connections -> BOOLEAN]
      /\ file \in [Pages -> Nat] /\ saved \in [Pages -> Nat]
      /\ cache \in [Connections -> Seq(Nat)] /\ page \in [Connections -> Pages]
      /\ Pages = 1..NumPages /\ NumPages \in Nat \ {0}
      /\ TypeInv /\ JournalInv /\ PagesAt(c) /\ UniformInv /\ DataAt(c)
  BY PagesAssumption DEF Inv, TypeOK, ControlInv, DataParts, PageInv, DataInv, Pages
<1>2. CASE Begin(c)
  <2>1. at'[c] \in {"pendingForShared"}
    BY <1>1, <1>2 DEF Begin, Step
  <2>2. QED  BY <2>1 DEF DataAt, Commits, Raising
<1>3. CASE TakePendingForShared(c)
  <2>1. Step(c, "pendingForShared", "shared") \/ Step(c, "pendingForShared", "failed")
    BY <1>3 DEF TakePendingForShared, Take
  <2>2. UNCHANGED <<disk, page, cache, writes, lock>>
    BY <1>3 DEF TakePendingForShared
  <2>3. at[c] = "pendingForShared" /\ at'[c] \in {"shared", "failed"}
    BY <1>1, <2>1 DEF Step
  <2>4. QED  BY <1>1, <2>2, <2>3 DEF DataAt, Commits, Raising, disk
<1>4. CASE TakeShared(c)
  <2>1. Step(c, "shared", "dropPending") \/ Step(c, "shared", "failed")
    BY <1>4 DEF TakeShared, Take
  <2>2. UNCHANGED <<disk, page, cache, writes, lock>>
    BY <1>4 DEF TakeShared
  <2>3. at[c] = "shared" /\ at'[c] \in {"dropPending", "failed"}
    BY <1>1, <2>1 DEF Step
  <2>4. QED  BY <1>1, <2>2, <2>3 DEF DataAt, Commits, Raising, disk
<1>5. CASE DropPending(c)
  <2>1. at'[c] \in {"access"}
    BY <1>1, <1>5 DEF DropPending, Step
  <2>2. QED  BY <2>1 DEF DataAt, Commits, Raising
<1>6. CASE Access(c)
  <2>1. at'[c] \in {"validate", "checkReserved"}
    BY <1>1, <1>6 DEF Access, Step
  <2>2. QED  BY <2>1 DEF DataAt, Commits, Raising
<1>7. CASE CheckReserved(c)
  <2>1. Step(c, "checkReserved", "probed") \/ Step(c, "checkReserved", "validate")
    BY <1>7 DEF CheckReserved, Take
  <2>2. UNCHANGED <<disk, page, cache, writes, lock>>
    BY <1>7 DEF CheckReserved
  <2>3. at[c] = "checkReserved" /\ at'[c] \in {"probed", "validate"}
    BY <1>1, <2>1 DEF Step
  <2>4. QED  BY <1>1, <2>2, <2>3 DEF DataAt, Commits, Raising, disk
<1>8. CASE Probed(c)
  <2>1. at'[c] \in {"peek"}
    BY <1>1, <1>8 DEF Probed, Step
  <2>2. QED  BY <2>1 DEF DataAt, Commits, Raising
<1>9. CASE Peek(c)
  <2>1. at'[c] \in {"validate", "hotPending"}
    BY <1>1, <1>9 DEF Peek, Step
  <2>2. QED  BY <2>1 DEF DataAt, Commits, Raising
<1>10. CASE HotPending(c)
  <2>1. Step(c, "hotPending", "exchange") \/ Step(c, "hotPending", "failed")
    BY <1>10 DEF HotPending, Take
  <2>2. UNCHANGED <<disk, page, cache, writes, lock>>
    BY <1>10 DEF HotPending
  <2>3. ~Commits(c)'
    BY <1>1, <2>1, <2>2 DEF Step, TypeInv, Commits, SHARED_LOCK, RESERVED_LOCK
  <2>4. QED
    BY <1>1, <2>1, <2>2, <2>3 DEF Step, DataAt, disk
<1>11. CASE Recover(c)
  BY <1>1, <1>11 DEF Recover, Step, disk, SetLock, DataAt, Commits, TypeInv, Raising,
     NO_LOCK, SHARED_LOCK, RESERVED_LOCK, PENDING_LOCK, EXCLUSIVE_LOCK
<1>12. CASE Replay(c)
  <2>1. /\ file' = [file EXCEPT ![page[c]] = saved[page[c]]] /\ UNCHANGED saved
        /\ page[c] \in Pages
    BY <1>1, <1>12 DEF Replay
  <2>2. \A k \in Pages : k <= page[c] => file'[k] = saved'[k]
    BY <1>1, <1>12, <2>1 DEF Replay, Step, DataAt
  <2>3. CASE page[c] = NumPages
    <3>1. file' = saved'
      BY <1>1, <2>1, <2>2, <2>3
    <3>2. QED
      BY <1>1, <1>12, <2>3, <3>1 DEF Replay, Step, DataAt, Commits, Raising
  <2>4. CASE page[c] # NumPages
    BY <1>1, <1>12, <2>2, <2>4 DEF Replay, Step, DataAt, Commits, Raising
  <2>5. QED  BY <2>3, <2>4
<1>13. CASE Discard(c)
  BY <1>1, <1>13 DEF Discard, Step, disk, SetLock, DataAt, Commits, TypeInv, Raising,
     NO_LOCK, SHARED_LOCK, RESERVED_LOCK, PENDING_LOCK, EXCLUSIVE_LOCK
<1>14. CASE Validate(c)
  <2>1. UNCHANGED <<disk, page>> /\ journal # "hot" /\ at'[c] \in {"reserve", "read"}
    BY <1>1, <1>14 DEF Validate, Step, JournalInv, Checked, disk
  <2>2. cache'[c] = <<>> \/ (cache'[c] = cache[c] /\ (cache[c] # <<>> => cache[c][1] = file[1]))
    BY <1>1, <1>14 DEF Validate
  <2>3. DOMAIN cache[c] = 1..Len(cache[c]) /\ Len(cache[c]) \in Nat /\ Len(cache[c]) <= NumPages
    BY <1>1 DEF Inv, TypeOK
  <2>4. \A k \in DOMAIN cache'[c] : cache'[c][k] = file[k]
    <3>1. CASE cache'[c] = <<>>
      BY <3>1
    <3>2. CASE cache'[c] # <<>>
      <4>1. SUFFICES ASSUME NEW k \in DOMAIN cache[c] PROVE cache[c][k] = file[k]
        BY <2>2, <3>2
      <4>2. 1 \in DOMAIN cache[c] /\ k \in Pages /\ 1 \in Pages
        <5>1. k \in 1..Len(cache[c])
          BY <2>3
        <5>2. 1 \in 1..Len(cache[c])
          BY <2>3, <5>1
        <5>3. k \in 1..NumPages /\ 1 \in 1..NumPages
          BY <1>1, <2>3, <5>1
        <5>4. QED  BY <1>1, <2>3, <5>2, <5>3
      <4>3. cache[c][k] = cache[c][1] /\ file[k] = file[1]
        BY <1>1, <2>1, <4>2 DEF UniformInv, Committed
      <4>4. QED  BY <2>2, <3>2, <4>3
    <3>3. QED  BY <3>1, <3>2
  <2>5. QED
    BY <2>1, <2>4 DEF DataAt, Commits, Raising, disk
<1>15. CASE Reserve(c)
  <2>1. Step(c, "reserve", "read") \/ Step(c, "reserve", "failed")
    BY <1>15 DEF Reserve, Take
  <2>2. at[c] = "reserve" /\ at'[c] \in {"read", "failed"} /\ UNCHANGED <<disk, cache>>
    BY <1>1, <1>15, <2>1 DEF Reserve, Step
  <2>3. QED  BY <1>1, <2>2 DEF DataAt, Commits, Raising, disk
<1>16. CASE Read(c)
  <2>1. UNCHANGED disk /\ at'[c] \in {"read", "openJournal", "done"}
    BY <1>1, <1>16 DEF Read, Step
  <2>2. \A k \in DOMAIN cache[c] : cache[c][k] = file[k]
    BY <1>1, <1>16 DEF Read, Step, DataAt
  <2>3. \A k \in DOMAIN cache'[c] : cache'[c][k] = file[k]
    <3>1. /\ \A j \in DOMAIN cache[c] : cache'[c][j] = cache[c][j]
          /\ DOMAIN cache'[c] = DOMAIN cache[c] \union {page[c]}
          /\ page[c] \notin DOMAIN cache[c] => cache'[c][page[c]] = file[page[c]]
      BY <1>16, ReadCache
    <3>2. QED  BY <2>2, <3>1
  <2>4. QED
    BY <2>1, <2>3 DEF DataAt, Commits, Raising, disk
<1>17. CASE OpenJournal(c)
  <2>1. /\ DOMAIN cache[c] = Pages /\ cache[c] \in Seq(Nat)
        /\ \A k \in Pages : cache[c][k] = file[k]
    BY <1>1, <1>17 DEF OpenJournal, Step, PagesAt, DataAt
  <2>2. cache[c] = file
    BY <1>1, <2>1
  <2>3. UNCHANGED file /\ saved' = file /\ at'[c] = "commitPending"
    BY <1>1, <1>17, <2>2 DEF OpenJournal, Step
  <2>4. \A k \in Pages : cache'[c][k] = saved'[k] + 1
    BY <1>1, <1>17, <2>2, <2>3 DEF OpenJournal
  <2>5. QED
    BY <2>3, <2>4 DEF DataAt, Commits, Raising
<1>18. CASE CommitPending(c)
  <2>1. Step(c, "commitPending", "exchange") \/ Step(c, "commitPending", "rollback")
    BY <1>18 DEF CommitPending, Take
  <2>2. UNCHANGED <<disk, page, cache, writes, lock>>
    BY <1>18 DEF CommitPending
  <2>3. at[c] = "commitPending" /\ at'[c] \in {"exchange", "rollback"}
    BY <1>1, <2>1 DEF Step
  <2>4. QED  BY <1>1, <2>2, <2>3 DEF DataAt, Commits, Raising, disk
<1>19. CASE Exchange(c)
  BY <1>1, <1>19 DEF Exchange, Step, disk, SetLock, DataAt, Commits, TypeInv, Raising,
     NO_LOCK, SHARED_LOCK, RESERVED_LOCK, PENDING_LOCK, EXCLUSIVE_LOCK
<1>20. CASE TakeExclusive(c)
  <2>1. Step(c, "exclusive", IF lock[c] = RESERVED_LOCK THEN "sync" ELSE "recover")
        \/ Step(c, "exclusive", "regain")
    BY <1>20 DEF TakeExclusive, Take
  <2>2. UNCHANGED <<disk, page, cache, writes>> /\ at[c] = "exclusive"
    BY <1>20, <2>1 DEF TakeExclusive, Step
  <2>3. lock[c] = RESERVED_LOCK => saved = file /\ \A k \in Pages : cache[c][k] = saved[k] + 1
    BY <1>1, <2>2 DEF DataAt, Commits, Raising
  <2>4. at'[c] = "regain" => lock'[c] = lock[c]
    BY <1>1, <1>20 DEF TakeExclusive, SetLock
  <2>5. at'[c] \in {"sync", "recover", "regain"} /\ (at'[c] = "sync" => lock[c] = RESERVED_LOCK)
    BY <1>1, <2>1 DEF Step
  <2>6. QED
    BY <2>2, <2>3, <2>4, <2>5 DEF DataAt, Commits, Raising, disk
<1>21. CASE Regain(c)
  <2>1. Step(c, "regain", IF lock[c] = RESERVED_LOCK THEN "rollback" ELSE "failed")
    BY <1>21 DEF Regain, Take
  <2>2. at[c] = "regain" /\ at'[c] \in {"rollback", "failed"} /\ UNCHANGED <<disk, cache>>
    BY <1>1, <1>21, <2>1 DEF Regain, Step
  <2>3. QED  BY <1>1, <2>2 DEF DataAt, Commits, Raising, disk
<1>22. CASE Sync(c)
  <2>1. UNCHANGED <<file, saved, page, cache>> /\ at'[c] = "write" /\ page[c] = 1
    BY <1>1, <1>22 DEF Sync, Step, PagesAt
  <2>2. \A k \in Pages : cache[c][k] = saved[k] + 1
    BY <1>1, <1>22 DEF Sync, Step, DataAt
  <2>3. QED
    BY <1>1, <2>1, <2>2 DEF DataAt, Commits, Raising
<1>23. CASE Write(c)
  <2>1. /\ file' = [file EXCEPT ![page[c]] = cache[c][page[c]]] /\ UNCHANGED <<saved, cache>>
        /\ page[c] \in Pages
    BY <1>1, <1>23 DEF Write
  <2>2. \A k \in Pages : k <= page[c] => file'[k] = cache'[c][k]
    <3>1. \A k \in Pages : k < page[c] => file[k] = cache[c][k]
      BY <1>1, <1>23 DEF Write, Step, DataAt
    <3>2. file'[page[c]] = cache[c][page[c]] /\ \A k \in Pages \ {page[c]} : file'[k] = file[k]
      BY <1>1, <2>1
    <3>3. UNCHANGED cache /\ page[c] \in Nat
      BY <1>1, <2>1
    <3>4. SUFFICES ASSUME NEW k \in Pages, k <= page[c] PROVE file'[k] = cache[c][k]
      BY <3>3
    <3>5. k < page[c] \/ k = page[c]
      BY <1>1, <3>3, <3>4
    <3>6. QED  BY <3>1, <3>2, <3>4, <3>5
  <2>3. \A k \in Pages : cache'[c][k] = saved'[k] + 1
    BY <1>1, <1>23, <2>1 DEF Write, Step, DataAt
  <2>4. QED
    BY <1>1, <1>23, <2>2, <2>3, SMTT(30) DEF Write, Step, DataAt, Commits, Raising
<1>24. CASE Commit(c)
  BY <1>1, <1>24 DEF Commit, Step, disk, SetLock, DataAt, Commits, TypeInv, Raising,
     NO_LOCK, SHARED_LOCK, RESERVED_LOCK, PENDING_LOCK, EXCLUSIVE_LOCK
<1>25. CASE Rollback(c)
  BY <1>1, <1>25 DEF Rollback, Step, disk, SetLock, DataAt, Commits, TypeInv, Raising,
     NO_LOCK, SHARED_LOCK, RESERVED_LOCK, PENDING_LOCK, EXCLUSIVE_LOCK
<1>26. CASE ToShared(c)
  <2>1. at'[c] \in {"sharedAgain"}
    BY <1>1, <1>26 DEF ToShared, Step
  <2>2. QED  BY <2>1 DEF DataAt, Commits, Raising
<1>27. CASE SharedAgain(c)
  <2>1. Step(c, "sharedAgain", "release") \/ Step(c, "sharedAgain", "failed")
    BY <1>27 DEF SharedAgain, Take
  <2>2. UNCHANGED <<disk, page, cache, writes, lock>>
    BY <1>27 DEF SharedAgain
  <2>3. at[c] = "sharedAgain" /\ at'[c] \in {"release", "failed"}
    BY <1>1, <2>1 DEF Step
  <2>4. QED  BY <1>1, <2>2, <2>3 DEF DataAt, Commits, Raising, disk
<1>28. CASE Release(c)
  <2>1. at'[c] \in {"lower", "lowerToRead"}
    BY <1>1, <1>28 DEF Release, Step
  <2>2. QED  BY <2>1 DEF DataAt, Commits, Raising
<1>29. CASE Lower(c)
  <2>1. at'[c] \in {"validate", "done"} /\ (at'[c] = "done" => writes'[c])
    BY <1>1, <1>29 DEF Lower, Step, TypeInv
  <2>2. QED  BY <2>1 DEF DataAt, Commits, Raising
<1>30. CASE End(c)
  <2>1. at'[c] \in {"idle"}
    BY <1>1, <1>30 DEF End, Step
  <2>2. QED  BY <2>1 DEF DataAt, Commits, Raising
<1>31. CASE Crash(c)
  <2>1. at'[c] \in {"idle"}
    BY <1>1, <1>31 DEF Crash, Step
  <2>2. QED  BY <2>1 DEF DataAt, Commits, Raising
<1>32. QED
  BY <1>2, <1>3, <1>4, <1>5, <1>6, <1>7, <1>8, <1>9, <1>10, <1>11, <1>12, <1>13, <1>14,
     <1>15, <1>16, <1>17, <1>18, <1>19, <1>20, <1>21, <1>22, <1>23, <1>24, <1>25,
     <1>26, <1>27, <1>28, <1>29, <1>30, <1>31 DEF Acts, SharedLock, Transaction, Unlock

-----------------------------------------------------------------------------
(* The theorems.                                                           *)

LEMMA InvInit == Init => Inv
<1>1. SUFFICES ASSUME Init PROVE Inv
  OBVIOUS
<1>2. HoldsPending = {} /\ HoldsReserved = {} /\ HoldsShared = {} /\ HoldsExclusive = {}
  BY <1>1 DEF Init, HoldsPending, HoldsReserved, HoldsShared, HoldsExclusive
<1>3. TypeOK
  <2>1. <<>> \in Seq(Nat) /\ Len(<<>>) <= NumPages
    BY PagesAssumption, EmptySeq
  <2>2. 1 \in Pages
    BY PagesAssumption DEF Pages
  <2>3. QED
    BY <1>1, <2>1, <2>2, BoundAssumption DEF Init, TypeOK, Places, NO_LOCK, EXCLUSIVE_LOCK
<1>4. ControlInv
  BY <1>1, <1>2 DEF Init, ControlInv, LockInv, PlaceInv, TypeInv, Alone, Waiting, Reading,
     Raising, Changed, Commits
<1>5. JournalInv
  BY <1>1 DEF Init, JournalInv, Checked, Commits, Raising
<1>6. PageInv
  BY <1>1 DEF Init, PageInv, PagesAt, Changed, Commits, Raising
<1>7. UniformInv
  BY <1>1 DEF Init, UniformInv, Committed
<1>8. DataInv
  BY <1>1 DEF Init, DataInv, DataAt, Commits, Raising
<1>9. QED
  BY <1>3, <1>4, <1>5, <1>6, <1>7, <1>8 DEF Inv, DataParts

LEMMA InvStep == Inv /\ [Next]_vars => Inv'
<1>1. SUFFICES ASSUME Inv, [Next]_vars PROVE Inv'
  OBVIOUS
<1>2. CASE Next
  <2>1. PICK c \in Connections : Acts(c)
    BY <1>2 DEF Next, Acts
  <2>2. ControlInv'
    BY <1>1, <2>1, ControlStep DEF Inv
  <2>3. TypeOK' /\ JournalInv' /\ PageInv' /\ UniformInv'
    BY <1>1, <2>1, TypeStep, JournalStep, PageStep, UniformStep
  <2>4. DataInv'
    BY <1>1, <2>1, DataOthers, DataOwn DEF DataInv
  <2>5. QED  BY <2>2, <2>3, <2>4 DEF Inv, DataParts
<1>3. CASE UNCHANGED vars
  <2>1. SameHolders
    BY <1>3, KeepLocks DEF vars
  <2>2. TypeOK'
    BY <1>1, <1>3 DEF Inv, TypeOK, vars, disk
  <2>3. ControlInv'
    BY <1>1, <1>3, <2>1 DEF Inv, ControlInv, LockInv, PlaceInv, TypeInv, SameHolders,
       vars, Commits
  <2>4. DataParts'
    BY <1>1, <1>3 DEF Inv, DataParts, JournalInv, PageInv, PagesAt, UniformInv, DataInv,
       DataAt, Committed, Commits, vars, disk
  <2>5. QED  BY <2>2, <2>3, <2>4 DEF Inv
<1>4. QED  BY <1>1, <1>2, <1>3

LEMMA Invariance == Spec => []Inv
BY InvInit, InvStep, PTL DEF Spec

\* Every variable keeps to its type, so that the pages held in memory are as many
\* as the file has at most, and begin with the first (sqlite3.c, the pager).
THEOREM FileTypeOK == Spec => []TypeOK
<1>1. Inv => TypeOK
  BY DEF Inv
<1>2. QED  BY <1>1, Invariance, PTL

\* winUnlock and winLock get their read lock back, which one takes for granted and
\* the other does not check: whoever lowers a lock holds the pending byte, and with
\* it nobody else has the shared bytes for itself.
THEOREM FileReadLockIsRegained == Spec => []ReadLockIsRegained
<1>1. Inv => ReadLockIsRegained
  <2>1. SUFFICES ASSUME Inv, NEW c \in Connections, at[c] \in {"regain", "sharedAgain"},
                        ~Free("shared", FALSE)
                 PROVE  FALSE
    BY DEF ReadLockIsRegained
  <2>2. PICK h \in held : h.range = "shared" /\ h.exclusive
    BY <2>1 DEF Free
  <2>3. h = [by |-> h.by, range |-> "shared", exclusive |-> TRUE] /\ h.by \in Connections
    BY <2>1, <2>2 DEF Inv, TypeOK, Locks
  <2>4. h.by \in HoldsExclusive
    BY <2>2, <2>3 DEF HoldsExclusive
  <2>5. at[h.by] \in Alone
    BY <2>1, <2>4 DEF Inv, ControlInv, PlaceInv
  <2>6. h.by # c /\ at[c] \in Waiting
    BY <2>1, <2>5 DEF Alone, Waiting
  <2>7. QED  BY <2>1, <2>3, <2>5, <2>6, Exclusion DEF Inv
<1>2. QED  BY <1>1, Invariance, PTL

\* At most one connection at a time creates, completes, plays back or deletes the
\* journal, and one that is still needed is never written over
\* (pager_open_journal, hasHotJournal).
THEOREM FileJournalHasOneOwner == Spec => []JournalHasOneOwner
<1>1. Inv => JournalHasOneOwner
  <2>1. SUFFICES ASSUME Inv PROVE JournalHasOneOwner
    OBVIOUS
  <2>2. ASSUME NEW c \in Connections, at[c] = "openJournal"
        PROVE  journal # "hot"
    BY <2>1, <2>2 DEF Inv, DataParts, JournalInv, Checked
  <2>3. ASSUME NEW b \in Connections, NEW c \in Connections, b # c,
               OwnsJournal(b), OwnsJournal(c)
        PROVE  FALSE
    <3>1. ASSUME NEW d \in Connections, OwnsJournal(d)
          PROVE  \/ at[d] \in {"replay", "discard"}
                 \/ at[d] \in Changed \union {"openJournal"} \/ Commits(d)
      BY <3>1 DEF OwnsJournal, Commits, Changed, Raising
    <3>2. ASSUME NEW d \in Connections, OwnsJournal(d)
          PROVE  at[d] \in Reading \union Waiting
      BY <3>2 DEF OwnsJournal, Reading, Waiting, Alone
    <3>3. at[b] \notin {"replay", "discard"} /\ at[c] \notin {"replay", "discard"}
      BY <2>1, <2>3, <3>2, Exclusion DEF Inv, Alone
    <3>4. QED
      BY <2>1, <2>3, <3>1, <3>3, Exclusion DEF Inv
  <2>4. QED  BY <2>2, <2>3 DEF JournalHasOneOwner
<1>2. QED  BY <1>1, Invariance, PTL

\* A transaction reads pages of the last commit and of no other state of the file,
\* whoever writes or is killed meanwhile (sqlite3PagerSharedLock).
THEOREM FileReadsTheCommitted == Spec => []ReadsTheCommitted
<1>1. Inv => ReadsTheCommitted
  <2>1. SUFFICES ASSUME Inv, NEW c \in Connections,
                        at[c] \in {"read", "openJournal"} \/ (at[c] = "done" /\ ~writes[c])
                 PROVE  \A k \in DOMAIN cache[c] : cache[c][k] = Committed[k]
    BY DEF ReadsTheCommitted
  <2>2. Committed = file
    BY <2>1 DEF Inv, DataParts, JournalInv, Checked, Committed
  <2>3. QED
    BY <2>1, <2>2 DEF Inv, DataParts, DataInv, DataAt
<1>2. QED  BY <1>1, Invariance, PTL

-----------------------------------------------------------------------------
(* A statement is one step of AtomicFile.                                  *)

Answers == [c \in Connections |-> IF at[c] = "done" /\ ~writes[c] THEN cache[c] ELSE None]

\* Only the commit changes what the next reader finds.
LEMMA ContentStays ==
    ASSUME Inv, NEW c \in Connections, Acts(c), ~Commit(c)
    PROVE  Committed' = Committed
<1>1. /\ file \in [Pages -> Nat] /\ saved \in [Pages -> Nat]
      /\ JournalInv /\ DataInv
  BY DEF Inv, TypeOK, DataParts
<1>2. CASE UNCHANGED disk
  BY <1>2 DEF Committed, disk
<1>3. CASE Replay(c) \/ Write(c)
  BY <1>1, <1>3 DEF Replay, Write, Step, JournalInv, Committed
<1>4. CASE Discard(c)
  BY <1>1, <1>4 DEF Discard, Step, DataInv, DataAt, Committed
<1>5. CASE Sync(c)
  BY <1>1, <1>5 DEF Sync, Step, JournalInv, Checked, DataInv, DataAt, Committed
<1>6. CASE OpenJournal(c) \/ Rollback(c)
  BY <1>1, <1>6 DEF OpenJournal, Rollback, Step, JournalInv, Checked, Committed
<1>7. CASE Begin(c)
  BY <1>2, <1>7 DEF Begin
<1>8. CASE TakePendingForShared(c) \/ TakeShared(c) \/ DropPending(c) \/ Access(c)
             \/ CheckReserved(c) \/ Probed(c) \/ Peek(c) \/ HotPending(c)
             \/ Recover(c) \/ Validate(c)
  BY <1>2, <1>8 DEF TakePendingForShared, TakeShared, DropPending, Access,
     CheckReserved, Probed, Peek, HotPending, Recover, Validate
<1>9. CASE Reserve(c) \/ Read(c) \/ CommitPending(c) \/ Exchange(c)
             \/ TakeExclusive(c) \/ Regain(c)
  BY <1>2, <1>9 DEF Reserve, Read, CommitPending, Exchange, TakeExclusive, Regain
<1>10. CASE ToShared(c) \/ SharedAgain(c) \/ Release(c) \/ Lower(c)
             \/ End(c) \/ Crash(c)
  BY <1>2, <1>10 DEF ToShared, SharedAgain, Release, Lower, End, Crash
<1>11. QED
  BY <1>2, <1>3, <1>4, <1>5, <1>6, <1>7, <1>8, <1>9, <1>10 DEF Acts, SharedLock, Transaction,
     Unlock

\* Only a SELECT that has read its last page comes to have an answer.
LEMMA AnswerForgotten ==
    ASSUME Inv, NEW c \in Connections, Acts(c), ~Read(c)
    PROVE  Answers' = [Answers EXCEPT ![c] = None]
<1>1. /\ at \in [Connections -> Places] /\ writes \in [Connections -> BOOLEAN] /\ TypeInv
  BY DEF Inv, TypeOK, ControlInv
<1>2. \A d \in Connections \ {c} :
        at'[d] = at[d] /\ writes'[d] = writes[d] /\ cache'[d] = cache[d]
  BY OthersStay
<1>3. SUFFICES at'[c] = "done" => writes'[c]
  BY <1>2 DEF Answers
<1>4. CASE Begin(c)
  BY <1>1, <1>4 DEF Begin, Step
<1>5. CASE TakePendingForShared(c)
  <2>1. Step(c, "pendingForShared", "shared") \/ Step(c, "pendingForShared", "failed")
    BY <1>5 DEF TakePendingForShared, Take
  <2>2. QED
    BY <1>1, <2>1 DEF Step
<1>6. CASE TakeShared(c)
  <2>1. Step(c, "shared", "dropPending") \/ Step(c, "shared", "failed")
    BY <1>6 DEF TakeShared, Take
  <2>2. QED
    BY <1>1, <2>1 DEF Step
<1>7. CASE DropPending(c)
  BY <1>1, <1>7 DEF DropPending, Step
<1>8. CASE Access(c)
  BY <1>1, <1>8 DEF Access, Step
<1>9. CASE CheckReserved(c)
  <2>1. Step(c, "checkReserved", "probed") \/ Step(c, "checkReserved", "validate")
    BY <1>9 DEF CheckReserved, Take
  <2>2. QED
    BY <1>1, <2>1 DEF Step
<1>10. CASE Probed(c)
  BY <1>1, <1>10 DEF Probed, Step
<1>11. CASE Peek(c)
  BY <1>1, <1>11 DEF Peek, Step
<1>12. CASE HotPending(c)
  <2>1. Step(c, "hotPending", "exchange") \/ Step(c, "hotPending", "failed")
    BY <1>12 DEF HotPending, Take
  <2>2. QED
    BY <1>1, <2>1 DEF Step
<1>13. CASE Recover(c)
  BY <1>1, <1>13 DEF Recover, Step
<1>14. CASE Replay(c)
  BY <1>1, <1>14 DEF Replay, Step
<1>15. CASE Discard(c)
  BY <1>1, <1>15 DEF Discard, Step
<1>16. CASE Validate(c)
  BY <1>1, <1>16 DEF Validate, Step
<1>17. CASE Reserve(c)
  <2>1. Step(c, "reserve", "read") \/ Step(c, "reserve", "failed")
    BY <1>17 DEF Reserve, Take
  <2>2. QED
    BY <1>1, <2>1 DEF Step
<1>18. CASE OpenJournal(c)
  BY <1>1, <1>18 DEF OpenJournal, Step
<1>19. CASE CommitPending(c)
  <2>1. Step(c, "commitPending", "exchange") \/ Step(c, "commitPending", "rollback")
    BY <1>19 DEF CommitPending, Take
  <2>2. QED
    BY <1>1, <2>1 DEF Step
<1>20. CASE Exchange(c)
  BY <1>1, <1>20 DEF Exchange, Step
<1>21. CASE TakeExclusive(c)
  <2>1. Step(c, "exclusive", IF lock[c] = RESERVED_LOCK THEN "sync" ELSE "recover")
        \/ Step(c, "exclusive", "regain")
    BY <1>21 DEF TakeExclusive, Take
  <2>2. QED
    BY <1>1, <2>1 DEF Step
<1>22. CASE Regain(c)
  <2>1. Step(c, "regain", IF lock[c] = RESERVED_LOCK THEN "rollback" ELSE "failed")
    BY <1>22 DEF Regain, Take
  <2>2. QED
    BY <1>1, <2>1 DEF Step
<1>23. CASE Sync(c)
  BY <1>1, <1>23 DEF Sync, Step
<1>24. CASE Write(c)
  BY <1>1, <1>24 DEF Write, Step
<1>25. CASE Commit(c)
  BY <1>1, <1>25 DEF Commit, Step
<1>26. CASE Rollback(c)
  BY <1>1, <1>26 DEF Rollback, Step
<1>27. CASE ToShared(c)
  BY <1>1, <1>27 DEF ToShared, Step
<1>28. CASE SharedAgain(c)
  <2>1. Step(c, "sharedAgain", "release") \/ Step(c, "sharedAgain", "failed")
    BY <1>28 DEF SharedAgain, Take
  <2>2. QED
    BY <1>1, <2>1 DEF Step
<1>29. CASE Release(c)
  BY <1>1, <1>29 DEF Release, Step
<1>30. CASE Lower(c)
  BY <1>1, <1>30 DEF Lower, Step, TypeInv
<1>31. CASE End(c)
  BY <1>1, <1>31 DEF End, Step
<1>32. CASE Crash(c)
  BY <1>1, <1>32 DEF Crash, Step
<1>33. QED
  BY <1>4, <1>5, <1>6, <1>7, <1>8, <1>9, <1>10, <1>11, <1>12, <1>13, <1>14, <1>15, <1>16,
     <1>17, <1>18, <1>19, <1>20, <1>21, <1>22, <1>23, <1>24, <1>25, <1>26, <1>27,
     <1>28, <1>29, <1>30, <1>31, <1>32 DEF Acts, SharedLock, Transaction, Unlock

\* The last page read, the answer is the whole file as committed.
LEMMA AnswerRead ==
    ASSUME Inv, NEW c \in Connections, Read(c)
    PROVE  Answers' = [Answers EXCEPT ![c] = Committed] \/ Answers' = [Answers EXCEPT ![c] = None]
<1>1. /\ Acts(c)
      /\ \A d \in Connections \ {c} :
           at'[d] = at[d] /\ writes'[d] = writes[d] /\ cache'[d] = cache[d]
  <2>1. Acts(c)
    BY DEF Acts, Transaction
  <2>2. QED  BY <2>1, OthersStay
<1>2. CASE at'[c] = "done" /\ ~writes'[c]
  <2>1. TypeOK' /\ PageInv' /\ DataInv' /\ JournalInv'
    BY <1>1, TypeStep, PageStep, JournalStep, DataOthers, DataOwn DEF DataInv
  <2>2. /\ DOMAIN cache'[c] = Pages /\ cache'[c] \in Seq(Nat)
        /\ \A k \in Pages : cache'[c][k] = file'[k]
    BY <1>2, <2>1 DEF TypeOK, PageInv, PagesAt, DataInv, DataAt
  <2>3. cache'[c] = file' /\ Committed' = file'
    BY <1>2, <2>1, <2>2 DEF TypeOK, JournalInv, Checked, Committed
  <2>4. Committed' = Committed
    BY DEF Read, disk, Committed
  <2>5. QED  BY <1>1, <1>2, <2>3, <2>4 DEF Answers
<1>3. CASE ~(at'[c] = "done" /\ ~writes'[c])
  BY <1>1, <1>3 DEF Answers
<1>4. QED  BY <1>2, <1>3

LEMMA CommitUpdates ==
    ASSUME Inv, NEW c \in Connections, Commit(c)
    PROVE  Committed' = [k \in Pages |-> Committed[k] + 1] /\ Answers' = Answers
<1>1. /\ file \in [Pages -> Nat] /\ saved \in [Pages -> Nat] /\ journal = "hot"
      /\ \A k \in Pages : cache[c][k] = saved[k] + 1 /\ file[k] = cache[c][k]
  BY DEF Inv, TypeOK, DataParts, JournalInv, DataInv, DataAt, Commit, Step
<1>2. Committed = saved /\ Committed' = file
  BY <1>1 DEF Committed, Commit
<1>3. Answers' = Answers
  <2>1. at \in [Connections -> Places]
    BY DEF Inv, TypeOK
  <2>2. at[c] = "commit" /\ at' = [at EXCEPT ![c] = "toShared"] /\ UNCHANGED <<writes, cache>>
    BY DEF Commit, Step
  <2>3. QED  BY <2>1, <2>2 DEF Answers
<1>4. QED  BY <1>1, <1>2, <1>3

\* Each statement on a database file is atomic, among those of other processes and
\* when a process is killed (sqlite3.c, the pager): every step is one of AtomicFile,
\* or changes nothing there.
THEOREM FileImplementsAtomicFile == Spec => ImplementsFile
<1>1. Init => F!Init
  BY DEF Init, F!Init, Committed
<1>2. Inv /\ [Next]_vars => [F!Next]_<<Committed, Answers>>
  <2>1. SUFFICES ASSUME Inv, [Next]_vars PROVE [F!Next]_<<Committed, Answers>>
    OBVIOUS
  <2>2. CASE Next
    <3>1. PICK c \in Connections :
            Acts(c)
      BY <2>2 DEF Next, Acts
    <3>2. CASE Commit(c)
      BY <2>1, <3>2, CommitUpdates DEF F!Next, F!Update, Answers
    <3>3. CASE Read(c)
      <4>1. Committed' = Committed
        BY <3>3 DEF Read, disk, Committed
      <4>2. QED
        BY <2>1, <3>3, <4>1, AnswerRead DEF F!Next, F!Select, F!Forget, Answers
    <3>4. CASE ~Commit(c) /\ ~Read(c)
      BY <2>1, <3>1, <3>4, ContentStays, AnswerForgotten DEF F!Next, F!Forget, Answers
    <3>5. QED  BY <3>2, <3>3, <3>4
  <2>3. CASE UNCHANGED vars
    BY <2>3 DEF vars, disk, Committed, Answers
  <2>4. QED  BY <2>1, <2>2, <2>3
<1>3. QED
  BY <1>1, <1>2, Invariance, PTL DEF Spec, ImplementsFile, F!Spec, Answers
=============================================================================
