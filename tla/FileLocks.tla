----------------------------- MODULE FileLocks -----------------------------
(***************************************************************************)
(* The part of SQLite that the game leans on when several windows share a  *)
(* database file, or one of them is closed within a statement: the locks    *)
(* of the Windows VFS (winLock, winUnlock, winCheckReservedLock), and the   *)
(* pager's shared lock, rollback journal and commit.                       *)
(*                                                                         *)
(* The files are in the journal mode DELETE, no busy handler is set, and    *)
(* each statement is a transaction of its own.  A page is reduced to the    *)
(* number of updates applied to it; an update adds one to every page.  A    *)
(* killed process leaves the files as they are and loses its locks; loss    *)
(* of power, against which SQLite syncs its writes, is left out.            *)
(***************************************************************************)
EXTENDS Naturals, Sequences

CONSTANTS
    Connections,  \* handles on the file, of one process each
    NumPages,     \* pages of the file
    None,         \* no value
    MaxWrites     \* bound: writing statements begun

ASSUME PagesAssumption == NumPages \in Nat \ {0}
ASSUME BoundAssumption == MaxWrites \in Nat

Pages == 1..NumPages

\* locktype.
NO_LOCK == 0
SHARED_LOCK == 1
RESERVED_LOCK == 2
PENDING_LOCK == 3
EXCLUSIVE_LOCK == 4

VARIABLES
    file,     \* per page, its content on disk
    journal,  \* none; cold, its first byte 0; or hot, its header complete
    saved,    \* the pages recorded in the journal
    held,     \* the byte ranges locked in the operating system
    at,       \* per connection: where its statement is
    lock,     \* per connection: locktype
    writes,   \* per connection: the statement is an INSERT or UPDATE
    page,     \* per connection: the page its loop is at
    cache,    \* per connection: the pages in memory
    begun     \* writing statements begun

disk == <<file, journal, saved>>
vars == <<disk, held, at, lock, writes, page, cache, begun>>

Ranges == {"pending", "reserved", "shared"}
Locks == [by : Connections, range : Ranges, exclusive : BOOLEAN]

Places == {"idle", "pendingForShared", "shared", "dropPending", "access", "checkReserved",
           "probed", "peek", "hotPending", "exchange", "exclusive", "regain",
           "recover", "replay", "discard", "toShared", "sharedAgain", "release",
           "lower", "lowerToRead", "validate", "reserve", "read", "openJournal",
           "commitPending", "sync", "write", "commit", "rollback", "done", "failed"}

TypeOK ==
    /\ file \in [Pages -> Nat] /\ saved \in [Pages -> Nat]
    /\ journal \in {"none", "cold", "hot"}
    /\ held \subseteq Locks
    /\ at \in [Connections -> Places]
    /\ lock \in [Connections -> NO_LOCK..EXCLUSIVE_LOCK]
    /\ writes \in [Connections -> BOOLEAN]
    /\ page \in [Connections -> Pages]
    /\ cache \in [Connections -> Seq(Nat)]
    /\ \A c \in Connections : Len(cache[c]) <= NumPages
    /\ begun \in 0..MaxWrites

Init ==
    /\ file = [k \in Pages |-> 0] /\ journal = "none" /\ saved = [k \in Pages |-> 0]
    /\ held = {}
    /\ at = [c \in Connections |-> "idle"]
    /\ lock = [c \in Connections |-> NO_LOCK]
    /\ writes = [c \in Connections |-> FALSE]
    /\ page = [c \in Connections |-> 1]
    /\ cache = [c \in Connections |-> <<>>]
    /\ begun = 0

-----------------------------------------------------------------------------
(* Steps, and the locks of the operating system.                           *)

Step(c, from, to) == at[c] = from /\ at' = [at EXCEPT ![c] = to]

Free(range, exclusive) ==
    \A h \in held : h.range = range => ~h.exclusive /\ ~exclusive

\* winLockFile, which does not wait: one place if it succeeds, another if not.
Take(c, from, range, exclusive, got, refused) ==
    IF Free(range, exclusive)
      THEN /\ Step(c, from, got)
           /\ held' = held \union {[by |-> c, range |-> range, exclusive |-> exclusive]}
      ELSE Step(c, from, refused) /\ UNCHANGED held

\* winUnlockFile.
Drop(c, ranges) == held' = {h \in held : ~(h.by = c /\ h.range \in ranges)}

SetLock(c, type) == lock' = [lock EXCEPT ![c] = type]

-----------------------------------------------------------------------------
(* sqlite3PagerSharedLock.                                                 *)

\* A statement begins, on the handle of the one before or on a new one.
Begin(c) ==
    /\ Step(c, "idle", "pendingForShared")
    /\ \/ writes' = [writes EXCEPT ![c] = FALSE] /\ UNCHANGED begun
       \/ /\ begun < MaxWrites
          /\ begun' = begun + 1
          /\ writes' = [writes EXCEPT ![c] = TRUE]
    /\ \E kept \in {cache[c], <<>>} : cache' = [cache EXCEPT ![c] = kept]
    /\ UNCHANGED <<disk, held, lock, page>>

\* winLock(SHARED_LOCK): the pending byte, tried three times, keeps readers out
\* while a writer waits for them; it is given back once the lock is taken.
TakePendingForShared(c) ==
    /\ Take(c, "pendingForShared", "pending", TRUE, "shared", "failed")
    /\ UNCHANGED <<disk, lock, writes, page, cache, begun>>

TakeShared(c) ==
    /\ Take(c, "shared", "shared", FALSE, "dropPending", "failed")
    /\ UNCHANGED <<disk, lock, writes, page, cache, begun>>

DropPending(c) ==
    /\ Step(c, "dropPending", "access")
    /\ Drop(c, {"pending"})
    /\ SetLock(c, SHARED_LOCK)
    /\ UNCHANGED <<disk, writes, page, cache, begun>>

\* hasHotJournal: is there a journal, ...
Access(c) ==
    /\ Step(c, "access", IF journal = "none" THEN "validate" ELSE "checkReserved")
    /\ UNCHANGED <<disk, held, lock, writes, page, cache, begun>>

\* ... is it that of a writer at work (winCheckReservedLock), ...
CheckReserved(c) ==
    /\ Take(c, "checkReserved", "reserved", FALSE, "probed", "validate")
    /\ UNCHANGED <<disk, lock, writes, page, cache, begun>>

Probed(c) ==
    /\ Step(c, "probed", "peek")
    /\ Drop(c, {"reserved"})
    /\ UNCHANGED <<disk, lock, writes, page, cache, begun>>

\* Mutant: the journal is rolled back under the read lock.
PeekAndRecover(c) ==
    /\ Step(c, "peek", IF journal = "cold" THEN "validate" ELSE "recover")
    /\ UNCHANGED <<disk, held, lock, writes, page, cache, begun>>

\* ... and does it start with a byte other than 0.  A journal gone since cannot
\* be opened, which reads as hot.
Peek(c) ==
    /\ Step(c, "peek", IF journal = "cold" THEN "validate" ELSE "hotPending")
    /\ UNCHANGED <<disk, held, lock, writes, page, cache, begun>>

\* winLock(EXCLUSIVE_LOCK), without a reserved lock.
HotPending(c) ==
    /\ Take(c, "hotPending", "pending", TRUE, "exchange", "failed")
    /\ UNCHANGED <<disk, lock, writes, page, cache, begun>>

\* The journal is looked for again: it may be gone.
Recover(c) ==
    /\ Step(c, "recover", CASE journal = "hot"  -> "replay"
                            [] journal = "cold" -> "discard"
                            [] OTHER            -> "toShared")
    /\ page' = [page EXCEPT ![c] = 1]
    /\ UNCHANGED <<disk, held, lock, writes, cache, begun>>

\* pager_playback, page by page.
Replay(c) ==
    LET k == page[c] IN
    /\ Step(c, "replay", IF k = NumPages THEN "discard" ELSE "replay")
    /\ file' = [file EXCEPT ![k] = saved[k]]
    /\ page' = [page EXCEPT ![c] = IF k = NumPages THEN 1 ELSE k + 1]
    /\ cache' = [cache EXCEPT ![c] = <<>>]
    /\ UNCHANGED <<journal, saved, held, lock, writes, begun>>

Discard(c) ==
    /\ Step(c, "discard", "toShared")
    /\ journal' = "none"
    /\ UNCHANGED <<file, saved, held, lock, writes, page, cache, begun>>

\* Mutant: the cache of an earlier statement is kept as it is.
ValidateNever(c) ==
    /\ Step(c, "validate", IF writes[c] THEN "reserve" ELSE "read")
    /\ UNCHANGED <<disk, held, lock, writes, page, cache, begun>>

\* The cache is emptied if the change counter, on the first page, has moved.
Validate(c) ==
    /\ Step(c, "validate", IF writes[c] THEN "reserve" ELSE "read")
    /\ cache' = [cache EXCEPT ![c] = IF cache[c] # <<>> /\ cache[c][1] # file[1]
                                     THEN <<>> ELSE cache[c]]
    /\ UNCHANGED <<disk, held, lock, writes, page, begun>>

-----------------------------------------------------------------------------
(* The statement.                                                          *)

\* sqlite3PagerBegin.
Reserve(c) ==
    /\ Take(c, "reserve", "reserved", TRUE, "read", "failed")
    /\ SetLock(c, IF at'[c] = "read" THEN RESERVED_LOCK ELSE lock[c])
    /\ UNCHANGED <<disk, writes, page, cache, begun>>

\* A page from the cache or the file, in order.
Read(c) ==
    LET k == page[c]
        last == IF writes[c] THEN "openJournal" ELSE "done"
    IN /\ Step(c, "read", IF k = NumPages THEN last ELSE "read")
       /\ cache' = [cache EXCEPT ![c] = IF k \in DOMAIN @ THEN @ ELSE Append(@, file[k])]
       /\ page' = [page EXCEPT ![c] = IF k = NumPages THEN 1 ELSE k + 1]
       /\ UNCHANGED <<disk, held, lock, writes, begun>>

\* The journal is created with a header of zeros, the pages are recorded in it
\* and then changed in memory.
OpenJournal(c) ==
    /\ Step(c, "openJournal", "commitPending")
    /\ journal' = "cold"
    /\ saved' = cache[c]
    /\ cache' = [cache EXCEPT ![c] = [k \in Pages |-> @[k] + 1]]
    /\ UNCHANGED <<file, held, lock, writes, page, begun>>

-----------------------------------------------------------------------------
(* sqlite3PagerCommitPhaseOne and Two.                                     *)

\* winLock(EXCLUSIVE_LOCK), from a reserved lock.
CommitPending(c) ==
    /\ Take(c, "commitPending", "pending", TRUE, "exchange", "rollback")
    /\ UNCHANGED <<disk, lock, writes, page, cache, begun>>

\* The read lock is given up for an exclusive one on the same bytes, ...
Exchange(c) ==
    /\ Step(c, "exchange", "exclusive")
    /\ Drop(c, {"shared"})
    /\ UNCHANGED <<disk, lock, writes, page, cache, begun>>

TakeExclusive(c) ==
    /\ Take(c, "exclusive", "shared", TRUE,
            IF lock[c] = RESERVED_LOCK THEN "sync" ELSE "recover", "regain")
    /\ SetLock(c, IF at'[c] = "regain" THEN lock[c] ELSE EXCLUSIVE_LOCK)
    /\ UNCHANGED <<disk, writes, page, cache, begun>>

\* ... and taken back, without asking whether it was got, if there are readers.
Regain(c) ==
    LET busy == IF lock[c] = RESERVED_LOCK THEN "rollback" ELSE "failed" IN
    /\ Take(c, "regain", "shared", FALSE, busy, busy)
    /\ SetLock(c, PENDING_LOCK)
    /\ UNCHANGED <<disk, writes, page, cache, begun>>

\* Mutant: the header is completed after the pages are written.
SyncLate(c) ==
    /\ Step(c, "sync", "write")
    /\ UNCHANGED <<disk, held, lock, writes, page, cache, begun>>

\* syncJournal, once the lock is exclusive, completes the header.
Sync(c) ==
    /\ Step(c, "sync", "write")
    /\ journal' = "hot"
    /\ UNCHANGED <<file, saved, held, lock, writes, page, cache, begun>>

\* Mutant: one page too many.
WritePast(c) ==
    LET k == page[c] IN
    /\ Step(c, "write", IF k > NumPages THEN "commit" ELSE "write")
    /\ file' = [file EXCEPT ![k] = cache[c][k]]
    /\ page' = [page EXCEPT ![c] = k + 1]
    /\ UNCHANGED <<journal, saved, held, lock, writes, cache, begun>>

\* pager_write_pagelist, page by page.
Write(c) ==
    LET k == page[c] IN
    /\ Step(c, "write", IF k = NumPages THEN "commit" ELSE "write")
    /\ file' = [file EXCEPT ![k] = cache[c][k]]
    /\ page' = [page EXCEPT ![c] = IF k = NumPages THEN 1 ELSE k + 1]
    /\ UNCHANGED <<journal, saved, held, lock, writes, cache, begun>>

\* Deleting the journal commits.
Commit(c) ==
    /\ Step(c, "commit", "toShared")
    /\ journal' = "none"
    /\ UNCHANGED <<file, saved, held, lock, writes, page, cache, begun>>

\* A commit that finds readers restores the pages in memory.
Rollback(c) ==
    /\ Step(c, "rollback", "release")
    /\ journal' = "none"
    /\ cache' = [cache EXCEPT ![c] = saved]
    /\ UNCHANGED <<file, saved, held, lock, writes, page, begun>>

-----------------------------------------------------------------------------
(* winUnlock.                                                              *)

\* Mutant: the pending byte goes first.
ToSharedAtOnce(c) ==
    /\ Step(c, "toShared", "sharedAgain")
    /\ Drop(c, {"shared", "pending"})
    /\ UNCHANGED <<disk, lock, writes, page, cache, begun>>

ToShared(c) ==
    /\ Step(c, "toShared", "sharedAgain")
    /\ Drop(c, {"shared"})
    /\ UNCHANGED <<disk, lock, writes, page, cache, begun>>

SharedAgain(c) ==
    /\ Take(c, "sharedAgain", "shared", FALSE, "release", "failed")
    /\ UNCHANGED <<disk, lock, writes, page, cache, begun>>

\* A transaction gives up its write locks, the reserved one first, after a
\* recovery, which has none, to go on reading.
Release(c) ==
    /\ Step(c, "release",
            IF [by |-> c, range |-> "reserved", exclusive |-> TRUE] \in held
            THEN "lower" ELSE "lowerToRead")
    /\ Drop(c, {"reserved"})
    /\ UNCHANGED <<disk, lock, writes, page, cache, begun>>

Lower(c) ==
    /\ \/ Step(c, "lower", "done")
       \/ Step(c, "lowerToRead", "validate")
    /\ Drop(c, {"pending"})
    /\ SetLock(c, SHARED_LOCK)
    /\ UNCHANGED <<disk, writes, page, cache, begun>>

\* The statement is reset, or has failed with SQLITE_BUSY.
End(c) ==
    /\ \/ Step(c, "done", "idle")
       \/ Step(c, "failed", "idle")
    /\ Drop(c, Ranges)
    /\ SetLock(c, NO_LOCK)
    /\ page' = [page EXCEPT ![c] = 1]
    /\ UNCHANGED <<disk, writes, cache, begun>>

\* The process is killed: its window is closed.
Crash(c) ==
    /\ at[c] # "idle"
    /\ at' = [at EXCEPT ![c] = "idle"]
    /\ Drop(c, Ranges)
    /\ SetLock(c, NO_LOCK)
    /\ page' = [page EXCEPT ![c] = 1]
    /\ cache' = [cache EXCEPT ![c] = <<>>]
    /\ UNCHANGED <<disk, writes, begun>>

SharedLock(c) ==
    \/ TakePendingForShared(c) \/ TakeShared(c) \/ DropPending(c) \/ Access(c)
    \/ CheckReserved(c) \/ Probed(c) \/ Peek(c) \/ HotPending(c) \/ Recover(c)
    \/ Replay(c) \/ Discard(c) \/ Validate(c)

Transaction(c) ==
    \/ Reserve(c) \/ Read(c) \/ OpenJournal(c) \/ CommitPending(c) \/ Exchange(c)
    \/ TakeExclusive(c) \/ Regain(c) \/ Sync(c) \/ Write(c) \/ Commit(c) \/ Rollback(c)

Unlock(c) == ToShared(c) \/ SharedAgain(c) \/ Release(c) \/ Lower(c) \/ End(c)

Next ==
    \E c \in Connections :
        Begin(c) \/ SharedLock(c) \/ Transaction(c) \/ Unlock(c) \/ Crash(c)

Spec == Init /\ [][Next]_vars

-----------------------------------------------------------------------------
(* Properties.                                                             *)

\* What a reader finds, after rolling back what it has to.
Committed == IF journal = "hot" THEN saved ELSE file

\* A transaction never sees a page of another that has not committed, or pages
\* of two different states, even after a crash: every page it has at hand is that
\* of the last commit, as long as it reads.
ReadsTheCommitted ==
    \A c \in Connections :
        at[c] \in {"read", "openJournal"} \/ (at[c] = "done" /\ ~writes[c]) =>
            \A k \in DOMAIN cache[c] : cache[c][k] = Committed[k]

\* "We should always be able to reacquire the read lock", says winUnlock, and
\* winLock does not even ask: the bytes are free when a lock is lowered to shared
\* or not raised to exclusive.
ReadLockIsRegained ==
    \A c \in Connections : at[c] \in {"regain", "sharedAgain"} => Free("shared", FALSE)

\* From the creation of its journal to the deletion, also where the locks are raised
\* for the commit, or while it plays back and deletes one left behind.
OwnsJournal(c) ==
    \/ at[c] \in {"openJournal", "commitPending", "sync", "write", "commit", "rollback",
                  "replay", "discard"}
    \/ at[c] \in {"exchange", "exclusive", "regain"} /\ lock[c] = RESERVED_LOCK

\* The journal has one owner at a time: no two writers, no two connections that roll
\* back, and no reader takes the journal of a writer at work for one left behind.
\* Nor does a writer start a journal over one that is still needed to roll back.
JournalHasOneOwner ==
    /\ \A b, c \in Connections : OwnsJournal(b) /\ OwnsJournal(c) => b = c
    /\ \A c \in Connections : at[c] = "openJournal" => journal # "hot"

\* Each statement is atomic, among the others and in a crash.
F == INSTANCE AtomicFile WITH
        content <- Committed,
        answer <- [c \in Connections |->
                     IF at[c] = "done" /\ ~writes[c] THEN cache[c] ELSE None]

ImplementsFile == F!Spec
=============================================================================
