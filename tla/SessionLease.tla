---------------------------- MODULE SessionLease ----------------------------
(***************************************************************************)
(* The operations of harness-control-plane/session-lease.ts on lease.json: *)
(* acquireLease, heartbeat, releaseLease and reapDeadOwnerArtifacts.  Each *)
(* reads the file, decides, and writes or removes it, in separate steps,   *)
(* inside withLeaseMutationLock; the lock is used as module Mutex promises *)
(* it, which LeaseLock implements.                                         *)
(*                                                                         *)
(* A caller is one place from which an operation may be called: the owner  *)
(* loop, its heartbeat timer, the collector.  It runs in the process of    *)
(* one owner id, and that process may die between any two steps.           *)
(***************************************************************************)
EXTENDS Naturals

CONSTANTS
    Owner,      \* the owner ids, each of one process
    Caller,     \* the concurrent callers of lease operations
    OwnerOf,    \* the owner id each caller acts for
    Calls,      \* the operations each caller may call
    NoLease,    \* there is no lease.json
    Nobody      \* nobody holds the mutation lock

ASSUME OwnerOfAssumption == OwnerOf \in [Caller -> Owner]
ASSUME CallsAssumption ==
    Calls \in [Caller -> SUBSET {"acquire", "heartbeat", "release", "reap"}]
ASSUME NobodyAssumption == Nobody \notin Caller
ASSUME NoLeaseAssumption ==
    NoLease \notin [owner : Owner, epoch : Nat \ {0}, expired : BOOLEAN]

VARIABLES
    lease,       \* the content of lease.json
    dead,        \* the owners whose process has died
    lockOwner,   \* the caller that holds the mutation lock
    pc,          \* where each caller is
    op,          \* the operation it is in, "none" while it is idle
    seen,        \* what it read from lease.json
    answer       \* how its operation ends, "none" before that is settled

vars == <<lease, dead, lockOwner, pc, op, seen, answer>>

Operations == {"none", "acquire", "heartbeat", "release", "reap"}
Inside     == {"reading", "rereading", "writing"}
Places     == {"idle", "waiting", "leaving", "gone"} \cup Inside
Answers    == {"none", "done", "lease_held", "not_lease_holder", "no_lease",
               "not_reaped"}
Leases     == [owner : Owner, epoch : Nat \ {0}, expired : BOOLEAN] \cup {NoLease}

TypeOK ==
    /\ lease \in Leases
    /\ dead \subseteq Owner
    /\ lockOwner \in Caller \cup {Nobody}
    /\ pc \in [Caller -> Places]
    /\ op \in [Caller -> Operations]
    /\ seen \in [Caller -> Leases]
    /\ answer \in [Caller -> Answers]

Init ==
    /\ lease = NoLease
    /\ dead = {}
    /\ lockOwner = Nobody
    /\ pc = [c \in Caller |-> "idle"]
    /\ op = [c \in Caller |-> "none"]
    /\ seen = [c \in Caller |-> NoLease]
    /\ answer = [c \in Caller |-> "none"]

-----------------------------------------------------------------------------

Move(c, from, to) == pc[c] = from /\ pc' = [pc EXCEPT ![c] = to]

HeldBy(l, o)   == l # NoLease /\ l.owner = o
HeldByDead(l)  == l # NoLease /\ l.owner \in dead
Lease(o, e, x) == [owner |-> o, epoch |-> e, expired |-> x]

\* The operation is called; a reap is called for the lease its caller saw last.
Begin(c, kind) ==
    /\ kind \in Calls[c]
    /\ Move(c, "idle", "waiting")
    /\ op' = [op EXCEPT ![c] = kind]
    /\ seen' = [seen EXCEPT ![c] = IF kind = "reap" THEN lease ELSE NoLease]
    /\ UNCHANGED <<lease, dead, lockOwner, answer>>

\* Mutant: the caller does not wait for the mutation lock.
EnterUnlocked(c) ==
    /\ lockOwner' = c
    /\ Move(c, "waiting", "reading")
    /\ UNCHANGED <<lease, dead, op, seen, answer>>

Enter(c) ==
    /\ lockOwner = Nobody
    /\ lockOwner' = c
    /\ Move(c, "waiting", "reading")
    /\ UNCHANGED <<lease, dead, op, seen, answer>>

\* The caller is back where it was, and remembers nothing.
Return(c, from) ==
    /\ Move(c, from, "idle")
    /\ op' = [op EXCEPT ![c] = "none"]
    /\ seen' = [seen EXCEPT ![c] = NoLease]
    /\ answer' = [answer EXCEPT ![c] = "none"]

\* lease_lock_timeout is thrown.
LockTimeout(c) ==
    /\ Return(c, "waiting")
    /\ UNCHANGED <<lease, dead, lockOwner>>

\* The critical section ends with an answer, whatever it did.
Answer(c, from, a) ==
    /\ Move(c, from, "leaving")
    /\ answer' = [answer EXCEPT ![c] = a]

\* acquireLease reads the lease and classifies a foreign one: only that of a
\* dead process may be taken over, an expired one of a live process may not.
ReadForAcquire(c) ==
    /\ op[c] = "acquire"
    /\ \/ /\ lease = NoLease \/ HeldBy(lease, OwnerOf[c])
          /\ Move(c, "reading", "writing")
          /\ UNCHANGED answer
       \/ /\ lease # NoLease /\ ~HeldBy(lease, OwnerOf[c]) /\ HeldByDead(lease)
          /\ Move(c, "reading", "rereading")
          /\ UNCHANGED answer
       \/ /\ lease # NoLease /\ ~HeldBy(lease, OwnerOf[c]) /\ ~HeldByDead(lease)
          /\ Answer(c, "reading", "lease_held")
    /\ seen' = [seen EXCEPT ![c] = lease]
    /\ UNCHANGED <<lease, dead, lockOwner, op>>

\* The lease is still that of the owner and epoch the caller looked at.
SameLease(c) ==
    /\ lease # NoLease /\ seen[c] # NoLease
    /\ lease.owner = seen[c].owner /\ lease.epoch = seen[c].epoch

\* The lease classified as a dead owner's is read once more before it is
\* overwritten.
Reread(c) ==
    /\ \/ SameLease(c) /\ Move(c, "rereading", "writing") /\ UNCHANGED answer
       \/ ~SameLease(c) /\ Answer(c, "rereading", "lease_held")
    /\ UNCHANGED <<lease, dead, lockOwner, op, seen>>

\* heartbeat and releaseLease: only the recorded owner may.  Releasing a
\* missing lease is no error.
ReadAsHolder(c) ==
    /\ op[c] \in {"heartbeat", "release"}
    /\ \/ /\ HeldBy(lease, OwnerOf[c])
          /\ Move(c, "reading", "writing")
          /\ UNCHANGED answer
       \/ /\ lease = NoLease
          /\ Answer(c, "reading", IF op[c] = "heartbeat" THEN "no_lease" ELSE "done")
       \/ /\ lease # NoLease /\ ~HeldBy(lease, OwnerOf[c])
          /\ Answer(c, "reading", "not_lease_holder")
    /\ seen' = [seen EXCEPT ![c] = lease]
    /\ UNCHANGED <<lease, dead, lockOwner, op>>

\* Mutant: the collector trusts the probe it made before it took the lock.
ReapTrustsProbe(c) ==
    /\ op[c] = "reap"
    /\ \/ SameLease(c) /\ Move(c, "reading", "writing") /\ UNCHANGED answer
       \/ ~SameLease(c) /\ Answer(c, "reading", "not_reaped")
    /\ UNCHANGED <<lease, dead, lockOwner, op, seen>>

\* reapDeadOwnerArtifacts: only the very lease the collector examined, and
\* only if its process is dead.
ReadForReap(c) ==
    LET stale == SameLease(c) /\ HeldByDead(lease)
    IN  /\ op[c] = "reap"
        /\ \/ stale /\ Move(c, "reading", "writing") /\ UNCHANGED answer
           \/ ~stale /\ Answer(c, "reading", "not_reaped")
        /\ UNCHANGED <<lease, dead, lockOwner, op, seen>>

Read(c) == ReadForAcquire(c) \/ ReadAsHolder(c) \/ ReadForReap(c)

\* Mutant: a takeover keeps the epoch of the dead owner.
WrittenKeepsEpoch(c) ==
    CASE op[c] = "acquire"   -> Lease(OwnerOf[c],
                                      IF seen[c] = NoLease THEN 1 ELSE seen[c].epoch,
                                      FALSE)
      [] op[c] = "heartbeat" -> [seen[c] EXCEPT !.expired = FALSE]
      [] OTHER               -> NoLease

\* The new content is renamed into place, or the file removed, computed from
\* what was read.
Written(c) ==
    CASE op[c] = "acquire"   -> LET prior == IF seen[c] = NoLease THEN 0 ELSE seen[c].epoch
                                IN  Lease(OwnerOf[c],
                                          IF HeldBy(seen[c], OwnerOf[c]) THEN prior ELSE prior + 1,
                                          FALSE)
      [] op[c] = "heartbeat" -> [seen[c] EXCEPT !.expired = FALSE]
      [] OTHER               -> NoLease

Write(c) ==
    /\ Answer(c, "writing", "done")
    /\ lease' = Written(c)
    /\ UNCHANGED <<dead, lockOwner, op, seen>>

Leave(c) ==
    /\ Return(c, "leaving")
    /\ lockOwner' = Nobody
    /\ UNCHANGED <<lease, dead>>

\* The mutation lock of a dead caller is recovered by somebody (LeaseLock).
Reclaim ==
    /\ lockOwner # Nobody /\ pc[lockOwner] = "gone"
    /\ lockOwner' = Nobody
    /\ UNCHANGED <<lease, dead, pc, op, seen, answer>>

\* The ttl runs out before the next heartbeat.
Expire ==
    /\ lease # NoLease /\ ~lease.expired
    /\ lease' = [lease EXCEPT !.expired = TRUE]
    /\ UNCHANGED <<dead, lockOwner, pc, op, seen, answer>>

Die(o) ==
    /\ o \notin dead
    /\ dead' = dead \cup {o}
    /\ pc' = [c \in Caller |-> IF OwnerOf[c] = o THEN "gone" ELSE pc[c]]
    /\ op' = [c \in Caller |-> IF OwnerOf[c] = o THEN "none" ELSE op[c]]
    /\ seen' = [c \in Caller |-> IF OwnerOf[c] = o THEN NoLease ELSE seen[c]]
    /\ answer' = [c \in Caller |-> IF OwnerOf[c] = o THEN "none" ELSE answer[c]]
    /\ UNCHANGED <<lease, lockOwner>>

Step(c) ==
    \/ Enter(c) \/ LockTimeout(c) \/ Read(c) \/ Reread(c) \/ Write(c) \/ Leave(c)

Next ==
    \/ \E c \in Caller : Step(c) \/ \E kind \in Operations : Begin(c, kind)
    \/ \E o \in Owner : Die(o)
    \/ Reclaim
    \/ Expire

Spec == Init /\ [][Next]_vars

-----------------------------------------------------------------------------

(***************************************************************************)
(* A lease leaves a live owner's hands only by that owner's own release:   *)
(* neither a takeover nor a collector, whatever it read and however long   *)
(* it was delayed, removes or replaces the lease of a live process, not    *)
(* even one that has expired.                                              *)
(***************************************************************************)
ReleasedByOwner ==
    \E c \in Caller : pc[c] = "writing" /\ op[c] = "release" /\ HeldBy(lease, OwnerOf[c])

LeaseLeavesOwner == lease # NoLease /\ ~HeldBy(lease', lease.owner)

OwnerKept == LeaseLeavesOwner => HeldByDead(lease) \/ ReleasedByOwner

LiveOwnerKeepsLease == [][OwnerKept]_vars

(***************************************************************************)
(* The lock discipline: a caller holds the mutation lock from its first    *)
(* read to its answer, and a lock is taken from a dead caller only.        *)
(***************************************************************************)
Lock ==
    INSTANCE Mutex WITH
        Client <- Caller, Free <- Nobody, owner <- lockOwner,
        working <- {c \in Caller : pc[c] \in Inside},
        crashed <- {c \in Caller : OwnerOf[c] \in dead}

UsesLock == Lock!Spec

(***************************************************************************)
(* The four operations behave like the atomic cell of module LeaseCell:    *)
(* the write of each is its one visible step.                              *)
(***************************************************************************)
Cell == INSTANCE LeaseCell

ImplementsCell == Cell!Spec

(***************************************************************************)
(* The comment above acquireLease: it fails with lease_held when a live,   *)
(* unexpired lease is held by a different owner, and the header of the     *)
(* file says that an expired lease may be taken over.                      *)
(***************************************************************************)
HeldMeansUnexpired ==
    \A c \in Caller :
        pc[c] = "leaving" /\ answer[c] = "lease_held" => ~seen[c].expired
=============================================================================
