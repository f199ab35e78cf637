------------------------------- MODULE Ledger -------------------------------
(***************************************************************************)
(* What the accounts and leaderboards of A.N.D promise their players,      *)
(* without windows, files or statements: a name is registered once, keeps  *)
(* its password, and its points grow by the rounds its player finishes.    *)
(* PlayerStore implements it (ImplementsLedger there).                     *)
(***************************************************************************)
EXTENDS Naturals

CONSTANTS Names, Passwords, Modes, Awards, None

VARIABLES
    account,   \* per name: its password, or None before it is registered
    points     \* per name and mode: the points on the leaderboard

Init ==
    /\ account = [u \in Names |-> None]
    /\ points = [u \in Names |-> [m \in Modes |-> 0]]

\* addNewPlayer as a player sees it: one step, on a free name.
Register(u, p) ==
    /\ account[u] = None
    /\ account' = [account EXCEPT ![u] = p]
    /\ UNCHANGED points

\* updatePlayerPoints as a player sees it: one addition to one column.
Award(u, m, p) ==
    /\ account[u] # None
    /\ points' = [points EXCEPT ![u][m] = @ + p]
    /\ UNCHANGED account

Next ==
    \/ \E u \in Names, p \in Passwords : Register(u, p)
    \/ \E u \in Names, m \in Modes, p \in Awards : Award(u, m, p)

Spec == Init /\ [][Next]_<<account, points>>
=============================================================================
