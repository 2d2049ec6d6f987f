--------------------------- MODULE FileLock_proofs ---------------------------
(***************************************************************************)
(* Proofs about the file lock, for every set of processes, every number of *)
(* retries and of deaths.                                                  *)
(***************************************************************************)
EXTENDS FileLock, TLAPS

(***************************************************************************)
(* While nobody has died, the directory is there exactly while one process *)
(* owns it, it has its owner's info in the critical section, and nobody    *)
(* removes the directory of another one.                                   *)
(***************************************************************************)
OneOwner == \A p, q \in Proc : pc[p] \in Owning /\ pc[q] \in Owning => p = q

DirHasOwner == lock.dir => \E p \in Proc : pc[p] \in Owning

OwnerHasDir == \A p \in Proc : pc[p] \in Owning => lock.dir

\* The directory is without info only while it is made or removed.
HolderHasInfo ==
    \A p \in Proc :
        /\ pc[p] \in {"in", "release"} => lock.info = p
        /\ pc[p] \in {"write", "releaseDir"} => lock.info = NoInfo

NobodyReaps ==
    /\ \A p \in Proc : pc[p] \notin {"reap", "reapDir"}
    /\ ~lock.aged /\ gc.at = "idle"

AllLive == OneOwner /\ DirHasOwner /\ OwnerHasDir /\ HolderHasInfo /\ NobodyReaps

\* What a process knows of the lock that it is about to remove.
SeenInv ==
    \A p \in Proc :
        /\ pc[p] = "age" => seen[p] = NoInfo
        /\ pc[p] \in {"reap", "reapDir"} => seen[p] \in dead \cup {NoInfo}

IInv == TypeOK /\ SeenInv /\ (dead = {} => AllLive)

-----------------------------------------------------------------------------

(***************************************************************************)
(* The initial states satisfy the invariant.                               *)
(***************************************************************************)
LEMMA InitIInv == Init => IInv
  BY RetriesAssumption DEF Init, IInv, TypeOK, SeenInv, AllLive, OneOwner, DirHasOwner,
     OwnerHasDir, HolderHasInfo, NobodyReaps, Absent, Owning, Acquiring

(***************************************************************************)
(* An attempt that is not the last one is followed by another.             *)
(***************************************************************************)
LEMMA Attempts ==
    /\ 0 \in 0 .. Retries - 1
    /\ \A n \in 0 .. Retries - 1 : n + 1 < Retries => n + 1 \in 0 .. Retries - 1
  BY RetriesAssumption

(***************************************************************************)
(* What the actions make of the lock directory is one.                     *)
(***************************************************************************)
LEMMA Locks ==
    LET Lock == {l \in [dir : BOOLEAN, info : Proc \cup {NoInfo}, aged : BOOLEAN] :
                     ~l.dir => l = Absent}
    IN  /\ Absent \in Lock
        /\ \A i \in Proc \cup {NoInfo} : Present(i) \in Lock
  BY DEF Absent, Present

(***************************************************************************)
(* The type invariant and what processes know, one action at a time.       *)
(***************************************************************************)
LEMMA StepType == TypeOK /\ SeenInv /\ [Next]_vars => TypeOK' /\ SeenInv'
<1> SUFFICES ASSUME TypeOK, SeenInv, [Next]_vars PROVE TypeOK' /\ SeenInv'
  OBVIOUS
<1> USE Attempts, Locks, NoInfoAssumption
    DEF TypeOK, SeenInv, Owning, Acquiring, Goto, NextAttempt, Gc
<1>1. ASSUME NEW p \in Proc, Call(p) PROVE TypeOK' /\ SeenInv'
  BY <1>1 DEF Call
<1>2. ASSUME NEW p \in Proc, Mkdir(p) PROVE TypeOK' /\ SeenInv'
  BY <1>2 DEF Mkdir
<1>3. ASSUME NEW p \in Proc, WriteInfo(p) PROVE TypeOK' /\ SeenInv'
  BY <1>3 DEF WriteInfo
<1>4. ASSUME NEW p \in Proc, LockExists(p) PROVE TypeOK' /\ SeenInv'
  BY <1>4 DEF LockExists
<1>5. ASSUME NEW p \in Proc, ReadInfo(p) PROVE TypeOK' /\ SeenInv'
  BY <1>5 DEF ReadInfo
<1>6. ASSUME NEW p \in Proc, CheckAge(p) PROVE TypeOK' /\ SeenInv'
  BY <1>6 DEF CheckAge
<1>7. ASSUME NEW p \in Proc, Probe(p) PROVE TypeOK' /\ SeenInv'
  BY <1>7 DEF Probe
<1>8. ASSUME NEW p \in Proc, ReapInfo(p) PROVE TypeOK' /\ SeenInv'
  BY <1>8 DEF ReapInfo
<1>9. ASSUME NEW p \in Proc, ReapDir(p) PROVE TypeOK' /\ SeenInv'
  BY <1>9 DEF ReapDir
<1>10. ASSUME NEW p \in Proc, Sleep(p) PROVE TypeOK' /\ SeenInv'
  BY <1>10 DEF Sleep
<1>11. ASSUME NEW p \in Proc, Leave(p) PROVE TypeOK' /\ SeenInv'
  BY <1>11 DEF Leave
<1>12. ASSUME NEW p \in Proc, ReleaseInfo(p) PROVE TypeOK' /\ SeenInv'
  BY <1>12 DEF ReleaseInfo
<1>13. ASSUME NEW p \in Proc, ReleaseDir(p) PROVE TypeOK' /\ SeenInv'
  BY <1>13 DEF ReleaseDir
<1>14. ASSUME NEW p \in Proc, Crash(p) PROVE TypeOK' /\ SeenInv'
  BY <1>14 DEF Crash
<1>15. ASSUME GcFind PROVE TypeOK' /\ SeenInv'
  BY <1>15 DEF GcFind
<1>16. ASSUME GcCheck PROVE TypeOK' /\ SeenInv'
  BY <1>16 DEF GcCheck
<1>17. ASSUME GcInfo PROVE TypeOK' /\ SeenInv'
  BY <1>17 DEF GcInfo
<1>18. ASSUME GcDir PROVE TypeOK' /\ SeenInv'
  BY <1>18 DEF GcDir
<1>19. ASSUME Age PROVE TypeOK' /\ SeenInv'
  BY <1>19 DEF Age
<1>20. ASSUME UNCHANGED vars PROVE TypeOK' /\ SeenInv'
  BY <1>20 DEF vars
<1> QED
  BY ONLY [Next]_vars, <1>1, <1>2, <1>3, <1>4, <1>5, <1>6, <1>7, <1>8, <1>9, <1>10, <1>11, <1>12, <1>13, <1>14, <1>15, <1>16, <1>17, <1>18, <1>19, <1>20 DEF Next, Acquire, Release, Collect

(***************************************************************************)
(* While everybody lives, every step keeps one owner.                      *)
(***************************************************************************)
LEMMA StepLive ==
  IInv /\ [Next]_vars /\ dead' = {} => AllLive'
<1> SUFFICES ASSUME IInv, [Next]_vars, dead' = {} PROVE AllLive'
  OBVIOUS
<1> USE NoInfoAssumption DEF Absent, Present, Owning, Goto, NextAttempt, Gc
<1>0. dead = {} /\ TypeOK /\ SeenInv /\ AllLive
  <2>1. dead \subseteq dead'
    BY DEF Next, Acquire, Release, Collect, vars, Call, Mkdir, WriteInfo, LockExists, ReadInfo,
       CheckAge, Probe, ReapInfo, ReapDir, Sleep, Leave, ReleaseInfo, ReleaseDir, Crash,
       GcFind, GcCheck, GcInfo, GcDir, Age
  <2> QED
    BY <2>1 DEF IInv
<1> USE <1>0 DEF TypeOK, SeenInv, AllLive, OneOwner, DirHasOwner, OwnerHasDir, HolderHasInfo,
        NobodyReaps
<1>1. ASSUME NEW p \in Proc, Call(p) PROVE AllLive'
  BY <1>1 DEF Call
<1>2. ASSUME NEW p \in Proc, Mkdir(p) PROVE AllLive'
  BY <1>2 DEF Mkdir
<1>3. ASSUME NEW p \in Proc, WriteInfo(p) PROVE AllLive'
  BY <1>3 DEF WriteInfo
<1>4. ASSUME NEW p \in Proc, LockExists(p) PROVE AllLive'
  BY <1>4 DEF LockExists
<1>5. ASSUME NEW p \in Proc, ReadInfo(p) PROVE AllLive'
  BY <1>5 DEF ReadInfo
<1>6. ASSUME NEW p \in Proc, CheckAge(p) PROVE AllLive'
  BY <1>6 DEF CheckAge
<1>7. ASSUME NEW p \in Proc, Probe(p) PROVE AllLive'
  BY <1>7 DEF Probe
<1>8. ASSUME NEW p \in Proc, ReapInfo(p) PROVE AllLive'
  BY <1>8 DEF ReapInfo
<1>9. ASSUME NEW p \in Proc, ReapDir(p) PROVE AllLive'
  BY <1>9 DEF ReapDir
<1>10. ASSUME NEW p \in Proc, Sleep(p) PROVE AllLive'
  BY <1>10 DEF Sleep
<1>11. ASSUME NEW p \in Proc, Leave(p) PROVE AllLive'
  BY <1>11 DEF Leave
<1>12. ASSUME NEW p \in Proc, ReleaseInfo(p) PROVE AllLive'
  BY <1>12 DEF ReleaseInfo
<1>13. ASSUME NEW p \in Proc, ReleaseDir(p) PROVE AllLive'
  BY <1>13 DEF ReleaseDir
<1>14. ASSUME NEW p \in Proc, Crash(p) PROVE AllLive'
  BY <1>14 DEF Crash
<1>15. ASSUME GcFind PROVE AllLive'
  BY <1>15 DEF GcFind
<1>16. ASSUME GcCheck PROVE AllLive'
  BY <1>16 DEF GcCheck
<1>17. ASSUME GcInfo PROVE AllLive'
  BY <1>17 DEF GcInfo
<1>18. ASSUME GcDir PROVE AllLive'
  BY <1>18 DEF GcDir
<1>19. ASSUME Age PROVE AllLive'
  BY <1>19 DEF Age
<1>20. ASSUME UNCHANGED vars PROVE AllLive'
  BY <1>20 DEF vars
<1> QED
  BY ONLY [Next]_vars, <1>1, <1>2, <1>3, <1>4, <1>5, <1>6, <1>7, <1>8, <1>9, <1>10, <1>11, <1>12, <1>13, <1>14, <1>15, <1>16, <1>17, <1>18, <1>19, <1>20 DEF Next, Acquire, Release, Collect

(***************************************************************************)
(* The inductive invariant holds in every reachable state.                 *)
(***************************************************************************)
THEOREM Invariance == Spec => []IInv
<1>1. IInv /\ [Next]_vars => IInv'
  BY StepType, StepLive DEF IInv
<1> QED
  BY InitIInv, <1>1, PTL DEF Spec

(***************************************************************************)
(* Type correctness of the file lock.                                      *)
(***************************************************************************)
THEOREM TypeCorrect == Spec => []TypeOK
<1>1. IInv => TypeOK
  BY DEF IInv
<1> QED
  BY Invariance, <1>1, PTL

(***************************************************************************)
(* While no process has died in it, the lock excludes.                     *)
(***************************************************************************)
THEOREM Exclusion == Spec => []ExclusiveWhileAllLive
<1>1. IInv => ExclusiveWhileAllLive
  BY DEF IInv, AllLive, OneOwner, Owning, ExclusiveWhileAllLive, Exclusive
<1> QED
  BY Invariance, <1>1, PTL

(***************************************************************************)
(* Who removes a lock that is not its own has found its owner dead, or has *)
(* found an old directory without owner after a death.                     *)
(***************************************************************************)
THEOREM OnlyTheDeadReaped == Spec => []ReapsTheDead
<1>1. IInv => ReapsTheDead
  BY DEF IInv, SeenInv, AllLive, NobodyReaps, ReapsTheDead
<1> QED
  BY Invariance, <1>1, PTL
=============================================================================
