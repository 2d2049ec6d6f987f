------------------------------ MODULE FileLock ------------------------------
(***************************************************************************)
(* config/file-lock.ts: the lock directory <file>.lock with which processes *)
(* serialise what they do to one file (settings, workflow state, the spool  *)
(* of receipts), and the garbage collection of such directories.           *)
(*                                                                         *)
(* Every file operation is one step.  A recursive rm is two: it unlinks    *)
(* the info file, and removes the directory unless there is an info again. *)
(* Process ids are not reused, and a process that lives writes its info,   *)
(* or removes its directory, within staleMs.                               *)
(***************************************************************************)
EXTENDS Naturals, FiniteSets

CONSTANTS
    Proc,       \* the processes that use the file
    Retries,    \* retries of the options
    MaxCrash,   \* bounds the processes that die
    NoInfo      \* no info file

ASSUME RetriesAssumption == Retries \in Nat \ {0}
ASSUME NoInfoAssumption == NoInfo \notin Proc

VARIABLES
    lock,     \* the directory: is it there, who is in its info, is it past staleMs
    pc,       \* where each process is
    attempt,  \* the attempts of its acquireLock so far
    seen,     \* the owner it has read
    dead,     \* the processes that died
    gc        \* the garbage collection, and the owner that it found dead

vars == <<lock, pc, attempt, seen, dead, gc>>

Absent == [dir |-> FALSE, info |-> NoInfo, aged |-> FALSE]
Present(i) == [dir |-> TRUE, info |-> i, aged |-> FALSE]

Owning    == {"write", "in", "release", "releaseDir"}
Acquiring == {"mkdir", "exists", "read", "age", "probe", "reap", "reapDir", "sleep"}

TypeOK ==
    /\ lock \in [dir : BOOLEAN, info : Proc \cup {NoInfo}, aged : BOOLEAN]
    /\ ~lock.dir => lock = Absent
    /\ pc \in [Proc -> Owning \cup Acquiring \cup {"idle", "dead"}]
    /\ attempt \in [Proc -> 0 .. Retries - 1]
    /\ seen \in [Proc -> Proc \cup {NoInfo}]
    /\ dead \subseteq Proc
    /\ gc \in [at : {"idle", "found", "rm", "rmdir"}, owner : Proc \cup {NoInfo}]

Init ==
    /\ lock = Absent
    /\ pc = [p \in Proc |-> "idle"]
    /\ attempt = [p \in Proc |-> 0]
    /\ seen = [p \in Proc |-> NoInfo]
    /\ dead = {}
    /\ gc = [at |-> "idle", owner |-> NoInfo]

-----------------------------------------------------------------------------

Goto(p, l) == pc' = [pc EXCEPT ![p] = l]

\* The next attempt of the loop; after the last one acquireLock throws.
NextAttempt(p) ==
    \/ /\ attempt[p] + 1 < Retries
       /\ attempt' = [attempt EXCEPT ![p] = @ + 1]
       /\ Goto(p, "mkdir")
    \/ /\ attempt[p] + 1 = Retries
       /\ attempt' = [attempt EXCEPT ![p] = 0]
       /\ Goto(p, "idle")

Call(p) ==
    /\ pc[p] = "idle"
    /\ attempt' = [attempt EXCEPT ![p] = 0]
    /\ Goto(p, "mkdir")
    /\ UNCHANGED <<lock, seen, dead, gc>>

\* tryAcquireLock: one process creates the directory ...
Mkdir(p) ==
    /\ pc[p] = "mkdir"
    /\ IF lock.dir THEN Goto(p, "exists") /\ UNCHANGED lock
                   ELSE Goto(p, "write") /\ lock' = Present(NoInfo)
    /\ UNCHANGED <<attempt, seen, dead, gc>>

\* ... and writes who it is, to that path, which Bun.write creates.
WriteInfo(p) ==
    /\ pc[p] = "write"
    /\ lock' = Present(p)
    /\ Goto(p, "in")
    /\ UNCHANGED <<attempt, seen, dead, gc>>

LockExists(p) ==
    /\ pc[p] = "exists"
    /\ Goto(p, IF lock.dir THEN "read" ELSE "sleep")
    /\ UNCHANGED <<lock, attempt, seen, dead, gc>>

ReadInfo(p) ==
    /\ pc[p] = "read"
    /\ seen' = [seen EXCEPT ![p] = lock.info]
    /\ Goto(p, IF lock.info = NoInfo THEN "age" ELSE "probe")
    /\ UNCHANGED <<lock, attempt, dead, gc>>

\* Mutant: a directory without info is stale.
CheckAgeNot(p) ==
    /\ pc[p] = "age"
    /\ Goto(p, IF lock.dir THEN "reap" ELSE "sleep")
    /\ UNCHANGED <<lock, attempt, seen, dead, gc>>

\* A directory without info is stale when it is old.
CheckAge(p) ==
    /\ pc[p] = "age"
    /\ Goto(p, IF lock.aged THEN "reap" ELSE "sleep")
    /\ UNCHANGED <<lock, attempt, seen, dead, gc>>

\* Mutant: the liveness of an owner is never known.
ProbeNever(p) ==
    /\ pc[p] = "probe"
    /\ Goto(p, "sleep")
    /\ UNCHANGED <<lock, attempt, seen, dead, gc>>

\* ownerLiveness of the owner that was read.
Probe(p) ==
    /\ pc[p] = "probe"
    /\ Goto(p, IF seen[p] \in dead THEN "reap" ELSE "sleep")
    /\ UNCHANGED <<lock, attempt, seen, dead, gc>>

\* releaseLock removes whatever is at the path: that of a stale lock ...
ReapInfo(p) ==
    /\ pc[p] = "reap"
    /\ lock' = IF lock.dir THEN Present(NoInfo) ELSE lock
    /\ Goto(p, "reapDir")
    /\ UNCHANGED <<attempt, seen, dead, gc>>

ReapDir(p) ==
    /\ pc[p] = "reapDir"
    /\ \/ /\ lock.info # NoInfo
          /\ Goto(p, "reap")
          /\ UNCHANGED <<lock, attempt>>
       \/ /\ lock.info = NoInfo
          /\ lock' = Absent
          /\ NextAttempt(p)
    /\ UNCHANGED <<seen, dead, gc>>

Sleep(p) ==
    /\ pc[p] = "sleep"
    /\ NextAttempt(p)
    /\ UNCHANGED <<lock, seen, dead, gc>>

Leave(p) ==
    /\ pc[p] = "in"
    /\ Goto(p, "release")
    /\ UNCHANGED <<lock, attempt, seen, dead, gc>>

\* ... and the process's own.
ReleaseInfo(p) ==
    /\ pc[p] = "release"
    /\ lock' = IF lock.dir THEN Present(NoInfo) ELSE lock
    /\ Goto(p, "releaseDir")
    /\ UNCHANGED <<attempt, seen, dead, gc>>

ReleaseDir(p) ==
    /\ pc[p] = "releaseDir"
    /\ \/ /\ lock.info # NoInfo
          /\ Goto(p, "release")
          /\ UNCHANGED lock
       \/ /\ lock.info = NoInfo
          /\ lock' = Absent
          /\ Goto(p, "idle")
    /\ UNCHANGED <<attempt, seen, dead, gc>>

-----------------------------------------------------------------------------

Gc(at, owner) == gc' = [at |-> at, owner |-> owner]

\* The collection lists a lock whose owner is dead ...
GcFind ==
    /\ gc.at = "idle" /\ lock.info \in dead
    /\ Gc("found", lock.info)
    /\ UNCHANGED <<lock, pc, attempt, seen, dead>>

\* ... and removes it if the same owner is still in it when it looks again.
GcCheck ==
    /\ gc.at = "found"
    /\ IF lock.info = gc.owner THEN Gc("rm", gc.owner) ELSE Gc("idle", NoInfo)
    /\ UNCHANGED <<lock, pc, attempt, seen, dead>>

GcInfo ==
    /\ gc.at = "rm"
    /\ lock' = IF lock.dir THEN Present(NoInfo) ELSE lock
    /\ Gc("rmdir", gc.owner)
    /\ UNCHANGED <<pc, attempt, seen, dead>>

GcDir ==
    /\ gc.at = "rmdir"
    /\ \/ /\ lock.info # NoInfo
          /\ Gc("rm", gc.owner)
          /\ UNCHANGED lock
       \/ /\ lock.info = NoInfo
          /\ lock' = Absent
          /\ Gc("idle", NoInfo)
    /\ UNCHANGED <<pc, attempt, seen, dead>>

\* staleMs pass.
Age ==
    /\ lock.dir /\ lock.info = NoInfo /\ ~lock.aged
    /\ \A p \in Proc : pc[p] \notin {"write", "reapDir", "releaseDir"}
    /\ lock' = [lock EXCEPT !.aged = TRUE]
    /\ UNCHANGED <<pc, attempt, seen, dead, gc>>

Crash(p) ==
    /\ pc[p] \notin {"idle", "dead"}
    /\ Cardinality(dead) < MaxCrash
    /\ dead' = dead \cup {p}
    /\ Goto(p, "dead")
    /\ UNCHANGED <<lock, attempt, seen, gc>>

Acquire(p) ==
    \/ Mkdir(p) \/ WriteInfo(p) \/ LockExists(p) \/ ReadInfo(p) \/ CheckAge(p)
    \/ Probe(p) \/ ReapInfo(p) \/ ReapDir(p) \/ Sleep(p)

Release(p) == Leave(p) \/ ReleaseInfo(p) \/ ReleaseDir(p)

Collect == GcFind \/ GcCheck \/ GcInfo \/ GcDir

Next ==
    \/ \E p \in Proc : Call(p) \/ Acquire(p) \/ Release(p) \/ Crash(p)
    \/ Collect \/ Age

Spec == Init /\ [][Next]_vars

\* A process that lives takes its steps, critical sections end, time passes;
\* nothing depends on the collection.
FairSpec ==
    /\ Spec /\ WF_vars(Age)
    /\ \A p \in Proc : WF_vars(Acquire(p) \/ Release(p))

-----------------------------------------------------------------------------

(***************************************************************************)
(* Two processes are never in the critical section together.               *)
(***************************************************************************)
Exclusive == \A p, q \in Proc : pc[p] = "in" /\ pc[q] = "in" => p = q

(***************************************************************************)
(* As long as no process has died in it, the lock excludes, however long   *)
(* its critical sections are and however the two steps in which it is made *)
(* and removed fall between the steps of those who wait.                   *)
(***************************************************************************)
ExclusiveWhileAllLive == dead = {} => Exclusive

(***************************************************************************)
(* A lock is only ever judged by what it was: who removes one that is not  *)
(* its own has found the owner dead, or found an old directory without an  *)
(* owner, and the latter only when some process died in it.                *)
(***************************************************************************)
ReapsTheDead ==
    \A p \in Proc :
        pc[p] \in {"reap", "reapDir"} =>
            dead # {} /\ seen[p] \in dead \cup {NoInfo}

(***************************************************************************)
(* The directory a dead process leaves behind does not stay in the way of  *)
(* those who keep trying.                                                  *)
(***************************************************************************)
Orphaned == lock.dir /\ \A p \in Proc : pc[p] \notin Owning

OrphanReclaimed ==
    []<>(\E p \in Proc : pc[p] = "mkdir") => (Orphaned ~> ~Orphaned)
=============================================================================
