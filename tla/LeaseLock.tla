----------------------------- MODULE LeaseLock -----------------------------
(***************************************************************************)
(* The lease mutation lock of harness-control-plane/session-lease.ts: the  *)
(* cross-process lock under which every read-modify-write of lease.json    *)
(* runs (withLeaseMutationLock).  The lock is a directory; it is taken by  *)
(* renaming a private directory, which already holds the taker's token     *)
(* file, onto the lock path, and a lock left by a dead process is taken    *)
(* apart by whoever finds it, one file operation at a time.                *)
(*                                                                         *)
(* A contender is one call of withLeaseMutationLock; several contenders    *)
(* may run in one process.  Every await of a file operation is a step of   *)
(* its own, so all interleavings of those operations are explored.  The    *)
(* fresh random token of an attempt is represented by the contender: the   *)
(* token of an earlier attempt of the same contender is never in the lock  *)
(* directory when a later attempt starts.                                  *)
(***************************************************************************)
EXTENDS Naturals

CONSTANTS
    Contender,   \* the callers of withLeaseMutationLock
    Process,     \* the operating-system processes they run in
    ProcOf,      \* the process of each contender
    LegacyPid,   \* the process named in a lock file of the older format
    Retries      \* LEASE_LOCK_RETRIES

ASSUME ProcOfAssumption == ProcOf \in [Contender -> Process]
ASSUME LegacyAssumption == LegacyPid \in Process
ASSUME RetriesAssumption == Retries \in Nat \ {0}

VARIABLES
    kind,      \* what is at the lock path: "absent", "file" (legacy), "dir"
    entries,   \* the token files in the lock directory
    pc,        \* where each contender is
    found,     \* the token file a contender is recovering, itself if none
    tries,     \* failed attempts of the current acquisition, 0 outside one
    dead       \* the processes that have died

vars == <<kind, entries, pc, found, tries, dead>>

Recovering == {"readdir", "readLegacy", "probeLegacy", "unlinkLegacy",
               "readInfo", "probe", "rmFile", "rmEmpty"}
Releasing  == {"rmToken", "rmDir"}
Places     == {"idle", "create", "held", "gone"} \cup Recovering \cup Releasing

TypeOK ==
    /\ kind \in {"absent", "file", "dir"}
    /\ entries \subseteq Contender
    /\ pc \in [Contender -> Places]
    /\ found \in [Contender -> Contender]
    /\ tries \in [Contender -> 0 .. Retries - 1]
    /\ dead \subseteq Process

Init ==
    /\ kind \in {"absent", "file"}
    /\ entries = {}
    /\ pc = [c \in Contender |-> "idle"]
    /\ found = [c \in Contender |-> c]
    /\ tries = [c \in Contender |-> 0]
    /\ dead = {}

-----------------------------------------------------------------------------

IsDead(c) == ProcOf[c] \in dead

Move(c, from, to) == pc[c] = from /\ pc' = [pc EXCEPT ![c] = to]

\* The recovery is over: sleep and try again, or give up with
\* lease_lock_timeout after the last attempt.
TryAgain(c, from) ==
    LET last == tries[c] + 1 = Retries
    IN  /\ Move(c, from, IF last THEN "idle" ELSE "create")
        /\ tries' = [tries EXCEPT ![c] = IF last THEN 0 ELSE @ + 1]
        /\ found' = [found EXCEPT ![c] = c]

Start(c) ==
    /\ Move(c, "idle", "create")
    /\ UNCHANGED <<kind, entries, found, tries, dead>>

\* createLeaseMutationLock: rename(2) of the prepared directory onto the lock
\* path replaces an absent or an empty directory, and fails on a file or on a
\* directory with a token in it.
Create(c) ==
    /\ \/ /\ kind = "absent" \/ (kind = "dir" /\ entries = {})
          /\ Move(c, "create", "held")
          /\ kind' = "dir"
          /\ entries' = {c}
          /\ tries' = [tries EXCEPT ![c] = 0]
       \/ /\ kind = "file" \/ entries # {}
          /\ Move(c, "create", "readdir")
          /\ UNCHANGED <<kind, entries, tries>>
    /\ UNCHANGED <<found, dead>>

\* recoverStaleLeaseMutationLock: what is at the lock path decides.
ReadDir(c) ==
    /\ \/ kind = "absent" /\ TryAgain(c, "readdir")
       \/ kind = "file" /\ Move(c, "readdir", "readLegacy") /\ UNCHANGED <<found, tries>>
       \/ /\ kind = "dir" /\ entries = {}
          /\ Move(c, "readdir", "rmEmpty")
          /\ UNCHANGED <<found, tries>>
       \/ \E t \in entries :
             /\ entries = {t}
             /\ Move(c, "readdir", "readInfo")
             /\ found' = [found EXCEPT ![c] = t]
             /\ UNCHANGED tries
       \/ /\ \A t \in entries : entries # {t}
          /\ entries # {}
          /\ TryAgain(c, "readdir")
    /\ UNCHANGED <<kind, entries, dead>>

\* The token file is read; a missing file ends the recovery.
ReadInfo(c) ==
    /\ \/ found[c] \in entries /\ Move(c, "readInfo", "probe") /\ UNCHANGED <<found, tries>>
       \/ found[c] \notin entries /\ TryAgain(c, "readInfo")
    /\ UNCHANGED <<kind, entries, dead>>

\* Mutant: any lock that is found is taken for stale.
ProbeIgnoresLiveness(c) ==
    /\ Move(c, "probe", "rmFile")
    /\ UNCHANGED <<kind, entries, found, tries, dead>>

\* Mutant: the result of the probe is turned round for a dead process.
ProbeNeverDead(c) ==
    /\ TryAgain(c, "probe")
    /\ UNCHANGED <<kind, entries, dead>>

\* Signal 0 to the pid in the file: only a dead owner's lock is recovered.
Probe(c) ==
    /\ \/ IsDead(found[c]) /\ Move(c, "probe", "rmFile") /\ UNCHANGED <<found, tries>>
       \/ ~IsDead(found[c]) /\ TryAgain(c, "probe")
    /\ UNCHANGED <<kind, entries, dead>>

\* Mutant: the recovery empties the lock directory, whoever's token is in it.
RmFileByPath(c) ==
    /\ Move(c, "rmFile", "rmEmpty")
    /\ entries' = {}
    /\ UNCHANGED <<kind, found, tries, dead>>

\* Only the stale owner's file is deleted, by its name ...
RmFile(c) ==
    /\ Move(c, "rmFile", "rmEmpty")
    /\ entries' = entries \ {found[c]}
    /\ UNCHANGED <<kind, found, tries, dead>>

\* rmdir(2) removes the lock directory only if it is empty; ENOENT and
\* ENOTEMPTY are ignored.
RmdirIfEmpty == kind' = IF kind = "dir" /\ entries = {} THEN "absent" ELSE kind

\* ... and then the directory.
RmEmpty(c) ==
    /\ TryAgain(c, "rmEmpty")
    /\ RmdirIfEmpty
    /\ UNCHANGED <<entries, dead>>

\* recoverLegacyStaleLeaseLock: read, probe and unlink a lock of the older
\* format.  unlink(2) of a directory that has replaced the file fails, and
\* that failure is ignored.
ReadLegacy(c) ==
    /\ \/ kind = "file" /\ Move(c, "readLegacy", "probeLegacy") /\ UNCHANGED <<found, tries>>
       \/ kind # "file" /\ TryAgain(c, "readLegacy")
    /\ UNCHANGED <<kind, entries, dead>>

ProbeLegacy(c) ==
    /\ \/ LegacyPid \in dead /\ Move(c, "probeLegacy", "unlinkLegacy") /\ UNCHANGED <<found, tries>>
       \/ LegacyPid \notin dead /\ TryAgain(c, "probeLegacy")
    /\ UNCHANGED <<kind, entries, dead>>

\* Mutant: the legacy lock is removed recursively, a new directory with it.
UnlinkLegacyRecursive(c) ==
    /\ TryAgain(c, "unlinkLegacy")
    /\ kind' = "absent"
    /\ entries' = {}
    /\ UNCHANGED dead

UnlinkLegacy(c) ==
    /\ TryAgain(c, "unlinkLegacy")
    /\ kind' = IF kind = "file" THEN "absent" ELSE kind
    /\ UNCHANGED <<entries, dead>>

\* releaseLeaseMutationLock, run when the critical section returns or throws:
\* the holder's own token file first, then the directory if it is empty.
EndSection(c) ==
    /\ Move(c, "held", "rmToken")
    /\ UNCHANGED <<kind, entries, found, tries, dead>>

RmToken(c) ==
    /\ Move(c, "rmToken", "rmDir")
    /\ entries' = entries \ {c}
    /\ UNCHANGED <<kind, found, tries, dead>>

RmDir(c) ==
    /\ Move(c, "rmDir", "idle")
    /\ RmdirIfEmpty
    /\ UNCHANGED <<entries, found, tries, dead>>

\* A process dies between any two file operations of its contenders.
Crash(p) ==
    /\ p \notin dead
    /\ dead' = dead \cup {p}
    /\ pc' = [c \in Contender |-> IF ProcOf[c] = p THEN "gone" ELSE pc[c]]
    /\ found' = [c \in Contender |-> IF ProcOf[c] = p THEN c ELSE found[c]]
    /\ tries' = [c \in Contender |-> IF ProcOf[c] = p THEN 0 ELSE tries[c]]
    /\ UNCHANGED <<kind, entries>>

Step(c) ==
    \/ Create(c) \/ ReadDir(c) \/ ReadInfo(c) \/ Probe(c) \/ RmFile(c) \/ RmEmpty(c)
    \/ ReadLegacy(c) \/ ProbeLegacy(c) \/ UnlinkLegacy(c)
    \/ EndSection(c) \/ RmToken(c) \/ RmDir(c)

Next ==
    \/ \E c \in Contender : Start(c) \/ Step(c)
    \/ \E p \in Process : Crash(p)

\* A contender that is running is scheduled, and the operations under the lock
\* are file operations that end; nobody has to start, and nobody has to crash.
Fairness == \A c \in Contender : WF_vars(Step(c))

Spec == Init /\ [][Next]_vars
FairSpec == Spec /\ Fairness

-----------------------------------------------------------------------------

\* From the rename that takes the lock to the removal of the token.
InSection(c) == pc[c] \in {"held", "rmToken"}

(***************************************************************************)
(* Two live contenders never run their critical sections at the same time, *)
(* whatever crashed owners left behind and however many recoveries race.   *)
(***************************************************************************)
MutualExclusion ==
    \A c, d \in Contender : InSection(c) /\ InSection(d) => c = d

(***************************************************************************)
(* A token leaves the lock directory only by its owner's own release or    *)
(* after its owner's process has died: no recovery, however stale what it  *)
(* read, unlocks under a live holder.                                      *)
(***************************************************************************)
OwnOrDeadRemoved ==
    \A c \in Contender :
        c \in entries /\ c \notin entries' => pc[c] = "rmToken" \/ IsDead(c)

TokenRemoval == [][OwnOrDeadRemoved]_vars

(***************************************************************************)
(* A lock left by a crashed process does not survive a contender that has  *)
(* found it: the contender removes it, someone else does, or the contender *)
(* dies too.                                                               *)
(***************************************************************************)
StaleLockRecovered ==
    \A c, d \in Contender :
        (IsDead(d) /\ entries = {d} /\ pc[c] = "readdir")
            ~> (entries # {d} \/ pc[c] = "gone")

(***************************************************************************)
(* The lock as clients see it: owned by the contender whose token is in    *)
(* the directory, by the legacy process while its file is there, and free  *)
(* otherwise.                                                              *)
(***************************************************************************)
Legacy == "legacy"
Nobody == "nobody"

ASSUME NamesAssumption == Legacy \notin Contender /\ Nobody \notin Contender

Owner ==
    IF kind = "file" THEN Legacy
    ELSE IF entries = {} THEN Nobody ELSE CHOOSE t \in entries : TRUE

Crashed == {c \in Contender : IsDead(c)} \cup (IF LegacyPid \in dead THEN {Legacy} ELSE {})

Working ==
    {c \in Contender : pc[c] = "held"}
        \cup (IF kind = "file" /\ LegacyPid \notin dead THEN {Legacy} ELSE {})

AbstractLock ==
    INSTANCE Mutex WITH Client <- Contender \cup {Legacy}, Free <- Nobody,
                        owner <- Owner, working <- Working, crashed <- Crashed

(***************************************************************************)
(* The directory protocol implements the lock of module Mutex.             *)
(***************************************************************************)
ImplementsMutex == AbstractLock!Spec
=============================================================================
