------------------------------- MODULE Mutex -------------------------------
(***************************************************************************)
(* What a cross-process lock of this code base promises, with no files in  *)
(* it: at most one client owns the lock, an owner keeps it until it has    *)
(* finished its critical section, and the lock is taken away from a client *)
(* only once that client's process has died.                               *)
(***************************************************************************)
CONSTANTS
    Client,   \* who may own the lock
    Free      \* the owner of a free lock, not a client

VARIABLES
    owner,     \* the client that owns the lock, or Free
    working,   \* the clients that are in their critical section
    crashed    \* the clients whose process has died

vars == <<owner, working, crashed>>

\* The lock may have been left behind by an earlier run.
Init ==
    /\ owner \in Client \cup {Free}
    /\ crashed \in SUBSET Client
    /\ working = (Client \cap {owner}) \ crashed

Acquire(c) ==
    /\ c \notin crashed
    /\ owner = Free
    /\ owner' = c
    /\ working' = working \cup {c}
    /\ UNCHANGED crashed

Finish(c) ==
    /\ c \in working
    /\ working' = working \ {c}
    /\ UNCHANGED <<owner, crashed>>

\* The owner gives the lock up after its critical section.
Release ==
    /\ owner \in Client \ (working \cup crashed)
    /\ owner' = Free
    /\ UNCHANGED <<working, crashed>>

\* The stale lock of a dead owner is recovered, by anybody.
Reclaim ==
    /\ owner \in crashed
    /\ owner' = Free
    /\ UNCHANGED <<working, crashed>>

\* A process dies, and every client it runs with it.
Crash ==
    /\ crashed' \in SUBSET Client
    /\ crashed \subseteq crashed'
    /\ working' = working \ crashed'
    /\ UNCHANGED owner

Next ==
    \/ \E c \in Client : Acquire(c) \/ Finish(c)
    \/ Release
    \/ Reclaim
    \/ Crash

Spec == Init /\ [][Next]_vars
=============================================================================
