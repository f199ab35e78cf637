----------------------------- MODULE AtomicFile -----------------------------
(***************************************************************************)
(* What PlayerStore takes a database file to be: each statement sees or    *)
(* changes the whole of it at one moment, or nothing.  FileLocks, which     *)
(* models how SQLite does it, implements this (ImplementsFile there).       *)
(***************************************************************************)
EXTENDS Naturals

CONSTANTS Connections, Pages, None

VARIABLES
    content,  \* per page, how many updates have been applied to it
    answer    \* per connection, what the SELECT that has just read it saw

Init ==
    /\ content = [k \in Pages |-> 0]
    /\ answer = [c \in Connections |-> None]

Update == content' = [k \in Pages |-> content[k] + 1] /\ UNCHANGED answer

Select(c) == answer' = [answer EXCEPT ![c] = content] /\ UNCHANGED content

Forget(c) == answer' = [answer EXCEPT ![c] = None] /\ UNCHANGED content

Next == Update \/ \E c \in Connections : Select(c) \/ Forget(c)

Spec == Init /\ [][Next]_<<content, answer>>
=============================================================================
