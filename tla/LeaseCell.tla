----------------------------- MODULE LeaseCell -----------------------------
(***************************************************************************)
(* What the session lease of the harness control plane promises, with no   *)
(* lock file and no read-modify-write in it: one cell that names the owner *)
(* of a session, changed in one step by a live owner for itself, or taken  *)
(* from an owner whose process has died.                                   *)
(***************************************************************************)
EXTENDS Naturals

CONSTANTS
    Owner,     \* the owner ids, each of one process
    NoLease    \* the content of the cell when there is no lease file

VARIABLES
    lease,   \* NoLease, or the owner, its epoch, and whether the ttl has run out
    dead     \* the owners whose process has died

vars == <<lease, dead>>

Lease(o, e, x) == [owner |-> o, epoch |-> e, expired |-> x]

Init == lease = NoLease /\ dead = {}

\* A free lease is taken with epoch 1, one's own is refreshed with its epoch,
\* and a dead owner's is taken over with the next epoch.
Acquire(o) ==
    /\ o \notin dead
    /\ \/ lease = NoLease /\ lease' = Lease(o, 1, FALSE)
       \/ /\ lease # NoLease /\ lease.owner = o
          /\ lease' = Lease(o, lease.epoch, FALSE)
       \/ /\ lease # NoLease /\ lease.owner # o /\ lease.owner \in dead
          /\ lease' = Lease(o, lease.epoch + 1, FALSE)
    /\ UNCHANGED dead

Heartbeat(o) ==
    /\ o \notin dead
    /\ lease # NoLease /\ lease.owner = o
    /\ lease' = Lease(o, lease.epoch, FALSE)
    /\ UNCHANGED dead

Release(o) ==
    /\ o \notin dead
    /\ lease # NoLease /\ lease.owner = o
    /\ lease' = NoLease
    /\ UNCHANGED dead

\* Garbage collection removes what a dead owner left.
Reap ==
    /\ lease # NoLease /\ lease.owner \in dead
    /\ lease' = NoLease
    /\ UNCHANGED dead

\* The ttl runs out before the next heartbeat.
Expire ==
    /\ lease # NoLease
    /\ lease' = Lease(lease.owner, lease.epoch, TRUE)
    /\ UNCHANGED dead

Die(o) ==
    /\ dead' = dead \cup {o}
    /\ UNCHANGED lease

Next ==
    \/ \E o \in Owner : Acquire(o) \/ Heartbeat(o) \/ Release(o) \/ Die(o)
    \/ Reap
    \/ Expire

Spec == Init /\ [][Next]_vars
=============================================================================
