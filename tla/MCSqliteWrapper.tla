-------------------------- MODULE MCSqliteWrapper --------------------------
(* SqliteWrapper with the program's two writable files, a file that is not  *)
(* there, and statements of every shape the program uses: an INSERT on each *)
(* file, a SELECT that finds nothing, one row, or several.                  *)
EXTENDS SqliteWrapper

CONSTANTS playersDb, leaderboardDb, missingDb

AllFiles == {playersDb, leaderboardDb, missingDb}
Databases == {playersDb, leaderboardDb}
ClientStatements ==
    {[on |-> f, rows |-> n] : f \in Databases, n \in {0, 1, 3}}
        \union {[on |-> missingDb, rows |-> 1]}
=============================================================================
