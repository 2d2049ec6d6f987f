------------------------ MODULE SessionLease_proofs ------------------------
(***************************************************************************)
(* Proofs about the session lease, for any owners, callers and processes:  *)
(* given the lock of module Mutex, the read-modify-write operations on     *)
(* lease.json behave like an atomic cell.                                  *)
(***************************************************************************)
EXTENDS SessionLease, TLAPS

USE DEF Operations, Inside, Places, Answers, Leases, Move, HeldBy, HeldByDead, Lease

(***************************************************************************)
(* A write is safe because what the caller read is still true when it      *)
(* writes: it holds the lock, so nobody else has written in between, the   *)
(* dead stay dead, and only the ttl may have run out.                      *)
(***************************************************************************)
DeadAreGone == \A c \in Caller : OwnerOf[c] \in dead <=> pc[c] = "gone"

InsideHoldsLock == \A c \in Caller : pc[c] \in Inside \cup {"leaving"} => lockOwner = c

BusyHasOperation ==
    \A c \in Caller : pc[c] \in Inside \cup {"waiting"} => op[c] \in Operations \ {"none"}

SeenIsCurrent(c) == SameLease(c) \/ (lease = NoLease /\ seen[c] = NoLease)

MayOverwrite(c) ==
    /\ op[c] = "acquire" =>
          /\ SeenIsCurrent(c)
          /\ seen[c] = NoLease \/ HeldBy(seen[c], OwnerOf[c]) \/ HeldByDead(seen[c])
    /\ op[c] = "heartbeat" => SameLease(c) /\ HeldBy(lease, OwnerOf[c])
    /\ op[c] = "release"   => HeldBy(lease, OwnerOf[c])
    /\ op[c] = "reap"      => HeldByDead(lease)

WritesWhatItMay == \A c \in Caller : pc[c] = "writing" => MayOverwrite(c)

RereadsDead ==
    \A c \in Caller :
        pc[c] = "rereading" => op[c] = "acquire" /\ HeldByDead(seen[c])

IInv ==
    /\ TypeOK
    /\ DeadAreGone
    /\ InsideHoldsLock
    /\ BusyHasOperation
    /\ WritesWhatItMay
    /\ RereadsDead

-----------------------------------------------------------------------------

LEMMA InitIInv == Init => IInv
  BY DEF Init, IInv, TypeOK, DeadAreGone, InsideHoldsLock, BusyHasOperation,
     WritesWhatItMay, RereadsDead

(***************************************************************************)
(* What a caller writes: a lease of its own owner, or nothing.             *)
(***************************************************************************)
LEMMA WrittenAcquire ==
  ASSUME IInv, NEW c \in Caller, pc[c] = "writing", op[c] = "acquire"
  PROVE  /\ lease = NoLease => Written(c) = Lease(OwnerOf[c], 1, FALSE)
         /\ HeldBy(lease, OwnerOf[c]) => Written(c) = Lease(OwnerOf[c], lease.epoch, FALSE)
         /\ lease # NoLease /\ ~HeldBy(lease, OwnerOf[c])
               => HeldByDead(lease) /\ Written(c) = Lease(OwnerOf[c], lease.epoch + 1, FALSE)
<1>1. SeenIsCurrent(c) /\ (seen[c] = NoLease \/ HeldBy(seen[c], OwnerOf[c]) \/ HeldByDead(seen[c]))
  BY DEF IInv, WritesWhatItMay, MayOverwrite
<1>2. CASE lease = NoLease
  <2>1. seen[c] = NoLease
    BY <1>1, <1>2 DEF SeenIsCurrent, SameLease
  <2>2. Written(c) = Lease(OwnerOf[c], 0 + 1, FALSE)
    BY <2>1, Zenon DEF Written
  <2> QED
    BY <1>2, <2>2
<1>3. CASE lease # NoLease
  <2>1. /\ seen[c] # NoLease /\ lease.owner = seen[c].owner /\ lease.epoch = seen[c].epoch
        /\ lease.epoch \in Nat
    BY <1>1, <1>3 DEF SeenIsCurrent, SameLease, IInv, TypeOK
  <2> QED
    BY <1>1, <1>3, <2>1 DEF Written
<1> QED
  BY <1>2, <1>3

LEMMA WrittenHeartbeat ==
  ASSUME IInv, NEW c \in Caller, pc[c] = "writing", op[c] = "heartbeat"
  PROVE  HeldBy(lease, OwnerOf[c]) /\ Written(c) = Lease(OwnerOf[c], lease.epoch, FALSE)
<1>1. SameLease(c) /\ HeldBy(lease, OwnerOf[c])
  BY DEF IInv, WritesWhatItMay, MayOverwrite
<1>2. seen[c] \in [owner : Owner, epoch : Nat \ {0}, expired : BOOLEAN]
  BY <1>1 DEF SameLease, IInv, TypeOK
<1> QED
  BY <1>1, <1>2 DEF Written, SameLease

LEMMA WrittenRemoval ==
  ASSUME IInv, NEW c \in Caller, pc[c] = "writing", op[c] \in {"release", "reap"}
  PROVE  Written(c) = NoLease
  BY DEF Written

LEMMA WritingOperation ==
  ASSUME IInv, NEW c \in Caller, pc[c] = "writing"
  PROVE  op[c] \in {"acquire", "heartbeat", "release", "reap"}
  BY DEF IInv, BusyHasOperation

LEMMA WrittenType ==
  ASSUME IInv, NEW c \in Caller, pc[c] = "writing"
  PROVE  Written(c) \in Leases
<1>1. OwnerOf[c] \in Owner
  BY OwnerOfAssumption
<1>a. lease # NoLease => lease.epoch \in Nat \ {0}
  BY DEF IInv, TypeOK
<1>b. \A e \in Nat \ {0} : Lease(OwnerOf[c], e, FALSE) \in Leases
  BY <1>1
<1>2. CASE op[c] = "acquire"
  <2>1. \E e \in Nat \ {0} : Written(c) = Lease(OwnerOf[c], e, FALSE)
    <3>1. CASE lease = NoLease
      BY <1>2, <3>1, WrittenAcquire
    <3>2. CASE HeldBy(lease, OwnerOf[c])
      BY <1>a, <1>2, <3>2, WrittenAcquire
    <3>3. CASE lease # NoLease /\ ~HeldBy(lease, OwnerOf[c])
      <4>1. lease.epoch + 1 \in Nat \ {0}
        BY <1>a, <3>3
      <4> QED
        BY <1>2, <3>3, <4>1, WrittenAcquire
    <3> QED
      BY <3>1, <3>2, <3>3
  <2> QED
    BY <1>b, <2>1
<1>3. CASE op[c] = "heartbeat"
  BY <1>a, <1>b, <1>3, WrittenHeartbeat
<1>4. CASE op[c] \in {"release", "reap"}
  BY <1>4, WrittenRemoval
<1> QED
  BY <1>2, <1>3, <1>4, WritingOperation

(***************************************************************************)
(* Every step preserves the invariant.                                     *)
(***************************************************************************)
LEMMA StepIInv == IInv /\ [Next]_vars => IInv'
<1> SUFFICES ASSUME IInv, [Next]_vars PROVE IInv'
  OBVIOUS
<1> USE OwnerOfAssumption, CallsAssumption, NobodyAssumption, NoLeaseAssumption
<1> USE DEF IInv
<1>1. ASSUME NEW c \in Caller, NEW kind \in Operations, Begin(c, kind) PROVE IInv'
  <2>1. TypeOK'
    BY <1>1 DEF Begin, TypeOK
  <2>2. DeadAreGone' /\ InsideHoldsLock' /\ BusyHasOperation'
    BY <1>1 DEF Begin, TypeOK, DeadAreGone, InsideHoldsLock, BusyHasOperation
  <2>3. RereadsDead'
    BY <1>1 DEF Begin, TypeOK, RereadsDead
  <2>4. WritesWhatItMay'
    BY <1>1, <2>2 DEF Begin, TypeOK, InsideHoldsLock, RereadsDead, WritesWhatItMay, MayOverwrite, SeenIsCurrent, SameLease
  <2> QED
    BY <2>1, <2>2, <2>3, <2>4
<1>2. ASSUME NEW c \in Caller, Enter(c) PROVE IInv'
  <2>1. TypeOK'
    BY <1>2 DEF Enter, TypeOK
  <2>2. DeadAreGone' /\ InsideHoldsLock' /\ BusyHasOperation'
    BY <1>2 DEF Enter, TypeOK, DeadAreGone, InsideHoldsLock, BusyHasOperation
  <2>3. RereadsDead'
    BY <1>2 DEF Enter, TypeOK, RereadsDead
  <2>4. WritesWhatItMay'
    BY <1>2, <2>2 DEF Enter, TypeOK, InsideHoldsLock, RereadsDead, WritesWhatItMay, MayOverwrite, SeenIsCurrent, SameLease
  <2> QED
    BY <2>1, <2>2, <2>3, <2>4
<1>3. ASSUME NEW c \in Caller, LockTimeout(c) PROVE IInv'
  <2>1. TypeOK'
    BY <1>3 DEF LockTimeout, Return, TypeOK
  <2>2. DeadAreGone' /\ InsideHoldsLock' /\ BusyHasOperation'
    BY <1>3 DEF LockTimeout, Return, TypeOK, DeadAreGone, InsideHoldsLock, BusyHasOperation
  <2>3. RereadsDead'
    BY <1>3 DEF LockTimeout, Return, TypeOK, RereadsDead
  <2>4. WritesWhatItMay'
    BY <1>3, <2>2 DEF LockTimeout, Return, TypeOK, InsideHoldsLock, RereadsDead, WritesWhatItMay, MayOverwrite, SeenIsCurrent, SameLease
  <2> QED
    BY <2>1, <2>2, <2>3, <2>4
<1>4. ASSUME NEW c \in Caller, ReadForAcquire(c) PROVE IInv'
  <2>1. TypeOK'
    BY <1>4 DEF ReadForAcquire, Answer, TypeOK
  <2>2. DeadAreGone' /\ InsideHoldsLock' /\ BusyHasOperation'
    BY <1>4 DEF ReadForAcquire, Answer, TypeOK, DeadAreGone, InsideHoldsLock, BusyHasOperation
  <2>3. RereadsDead'
    BY <1>4 DEF ReadForAcquire, Answer, TypeOK, RereadsDead
  <2>4. WritesWhatItMay'
    BY <1>4, <2>2 DEF ReadForAcquire, Answer, TypeOK, InsideHoldsLock, RereadsDead, WritesWhatItMay, MayOverwrite, SeenIsCurrent, SameLease
  <2> QED
    BY <2>1, <2>2, <2>3, <2>4
<1>5. ASSUME NEW c \in Caller, ReadAsHolder(c) PROVE IInv'
  <2>1. TypeOK'
    BY <1>5 DEF ReadAsHolder, Answer, TypeOK
  <2>2. DeadAreGone' /\ InsideHoldsLock' /\ BusyHasOperation'
    BY <1>5 DEF ReadAsHolder, Answer, TypeOK, DeadAreGone, InsideHoldsLock, BusyHasOperation
  <2>3. RereadsDead'
    BY <1>5 DEF ReadAsHolder, Answer, TypeOK, RereadsDead
  <2>4. WritesWhatItMay'
    BY <1>5, <2>2 DEF ReadAsHolder, Answer, TypeOK, InsideHoldsLock, RereadsDead, WritesWhatItMay, MayOverwrite, SeenIsCurrent, SameLease
  <2> QED
    BY <2>1, <2>2, <2>3, <2>4
<1>6. ASSUME NEW c \in Caller, ReadForReap(c) PROVE IInv'
  <2>1. TypeOK'
    BY <1>6 DEF ReadForReap, Answer, TypeOK
  <2>2. DeadAreGone' /\ InsideHoldsLock' /\ BusyHasOperation'
    BY <1>6 DEF ReadForReap, Answer, TypeOK, DeadAreGone, InsideHoldsLock, BusyHasOperation
  <2>3. RereadsDead'
    BY <1>6 DEF ReadForReap, Answer, TypeOK, RereadsDead
  <2>4. WritesWhatItMay'
    BY <1>6, <2>2 DEF ReadForReap, Answer, TypeOK, InsideHoldsLock, RereadsDead, WritesWhatItMay, MayOverwrite, SeenIsCurrent, SameLease
  <2> QED
    BY <2>1, <2>2, <2>3, <2>4
<1>7. ASSUME NEW c \in Caller, Reread(c) PROVE IInv'
  <2>1. TypeOK'
    BY <1>7 DEF Reread, Answer, TypeOK
  <2>2. DeadAreGone' /\ InsideHoldsLock' /\ BusyHasOperation'
    BY <1>7 DEF Reread, Answer, TypeOK, DeadAreGone, InsideHoldsLock, BusyHasOperation
  <2>3. RereadsDead'
    BY <1>7 DEF Reread, Answer, TypeOK, RereadsDead
  <2>4. WritesWhatItMay'
    BY <1>7, <2>2 DEF Reread, Answer, TypeOK, InsideHoldsLock, RereadsDead, WritesWhatItMay, MayOverwrite, SeenIsCurrent, SameLease
  <2> QED
    BY <2>1, <2>2, <2>3, <2>4
<1>8. ASSUME NEW c \in Caller, Write(c) PROVE IInv'
  <2>1. TypeOK'
    BY <1>8, WrittenType DEF Write, Answer, TypeOK
  <2>2. DeadAreGone' /\ InsideHoldsLock' /\ BusyHasOperation'
    BY <1>8 DEF Write, Answer, TypeOK, DeadAreGone, InsideHoldsLock, BusyHasOperation
  <2>3. RereadsDead'
    BY <1>8 DEF Write, Answer, TypeOK, RereadsDead
  <2>4. WritesWhatItMay'
    BY <1>8, <2>2 DEF Write, Written, Answer, TypeOK, InsideHoldsLock, RereadsDead, WritesWhatItMay, MayOverwrite, SeenIsCurrent, SameLease
  <2> QED
    BY <2>1, <2>2, <2>3, <2>4
<1>9. ASSUME NEW c \in Caller, Leave(c) PROVE IInv'
  <2>1. TypeOK'
    BY <1>9 DEF Leave, Return, TypeOK
  <2>2. DeadAreGone' /\ InsideHoldsLock' /\ BusyHasOperation'
    BY <1>9 DEF Leave, Return, TypeOK, DeadAreGone, InsideHoldsLock, BusyHasOperation
  <2>3. RereadsDead'
    BY <1>9 DEF Leave, Return, TypeOK, RereadsDead
  <2>4. WritesWhatItMay'
    BY <1>9, <2>2 DEF Leave, Return, TypeOK, InsideHoldsLock, RereadsDead, WritesWhatItMay, MayOverwrite, SeenIsCurrent, SameLease
  <2> QED
    BY <2>1, <2>2, <2>3, <2>4
<1>10. ASSUME Reclaim PROVE IInv'
  <2>1. TypeOK'
    BY <1>10 DEF Reclaim, TypeOK
  <2>2. DeadAreGone' /\ InsideHoldsLock' /\ BusyHasOperation'
    BY <1>10 DEF Reclaim, TypeOK, DeadAreGone, InsideHoldsLock, BusyHasOperation
  <2>3. RereadsDead'
    BY <1>10 DEF Reclaim, TypeOK, RereadsDead
  <2>4. WritesWhatItMay'
    BY <1>10, <2>2 DEF Reclaim, TypeOK, InsideHoldsLock, RereadsDead, WritesWhatItMay, MayOverwrite, SeenIsCurrent, SameLease
  <2> QED
    BY <2>1, <2>2, <2>3, <2>4
<1>11. ASSUME Expire PROVE IInv'
  <2>1. TypeOK'
    BY <1>11 DEF Expire, TypeOK
  <2>2. DeadAreGone' /\ InsideHoldsLock' /\ BusyHasOperation'
    BY <1>11 DEF Expire, TypeOK, DeadAreGone, InsideHoldsLock, BusyHasOperation
  <2>3. RereadsDead'
    BY <1>11 DEF Expire, TypeOK, RereadsDead
  <2>4. WritesWhatItMay'
    BY <1>11, <2>2, ZenonT(60) DEF Expire, TypeOK, InsideHoldsLock, RereadsDead, WritesWhatItMay, MayOverwrite, SeenIsCurrent, SameLease
  <2> QED
    BY <2>1, <2>2, <2>3, <2>4
<1>12. ASSUME NEW o \in Owner, Die(o) PROVE IInv'
  <2>1. TypeOK'
    BY <1>12 DEF Die, TypeOK
  <2>2. DeadAreGone' /\ InsideHoldsLock' /\ BusyHasOperation'
    BY <1>12 DEF Die, TypeOK, DeadAreGone, InsideHoldsLock, BusyHasOperation
  <2>3. RereadsDead'
    BY <1>12 DEF Die, TypeOK, RereadsDead
  <2>4. WritesWhatItMay'
    BY <1>12, <2>2 DEF Die, TypeOK, InsideHoldsLock, RereadsDead, WritesWhatItMay, MayOverwrite, SeenIsCurrent, SameLease
  <2> QED
    BY <2>1, <2>2, <2>3, <2>4
<1>13. ASSUME UNCHANGED vars PROVE IInv'
  <2>1. TypeOK'
    BY <1>13 DEF vars, TypeOK
  <2>2. DeadAreGone' /\ InsideHoldsLock' /\ BusyHasOperation'
    BY <1>13 DEF vars, TypeOK, DeadAreGone, InsideHoldsLock, BusyHasOperation
  <2>3. RereadsDead'
    BY <1>13 DEF vars, TypeOK, RereadsDead
  <2>4. WritesWhatItMay'
    BY <1>13, <2>2 DEF vars, TypeOK, InsideHoldsLock, RereadsDead, WritesWhatItMay, MayOverwrite, SeenIsCurrent, SameLease
  <2> QED
    BY <2>1, <2>2, <2>3, <2>4
<1> QED
  BY <1>1, <1>2, <1>3, <1>4, <1>5, <1>6, <1>7, <1>8, <1>9, <1>10, <1>11, <1>12, <1>13
     DEF Next, Step, Read

(***************************************************************************)
(* Every reachable state satisfies the invariant.                          *)
(***************************************************************************)
THEOREM Invariance == Spec => []IInv
  BY InitIInv, StepIInv, PTL DEF Spec

(***************************************************************************)
(* The lease operations are type-correct.                                  *)
(***************************************************************************)
THEOREM TypeCorrect == Spec => []TypeOK
<1>1. IInv => TypeOK
  BY DEF IInv
<1> QED
  BY Invariance, <1>1, PTL

(***************************************************************************)
(* A live owner keeps its lease until it releases it itself.               *)
(***************************************************************************)
THEOREM LiveOwnerKeeps == Spec => LiveOwnerKeepsLease
<1>1. IInv /\ [Next]_vars => [OwnerKept]_vars
  <2> SUFFICES ASSUME IInv, [Next]_vars, LeaseLeavesOwner
               PROVE  HeldByDead(lease) \/ ReleasedByOwner
    BY DEF OwnerKept
  <2>1. ASSUME NEW c \in Caller, Write(c) PROVE HeldByDead(lease) \/ ReleasedByOwner
    <3>a. ASSUME NEW e \in Nat \ {0} PROVE HeldBy(Lease(OwnerOf[c], e, FALSE), OwnerOf[c])
      <4>1. Lease(OwnerOf[c], e, FALSE) \in [owner : Owner, epoch : Nat \ {0}, expired : BOOLEAN]
        BY OwnerOfAssumption
      <4> QED
        BY <4>1, NoLeaseAssumption
    <3>b. lease # NoLease /\ lease.epoch \in Nat \ {0} /\ ~HeldBy(lease', lease.owner)
      BY DEF LeaseLeavesOwner, IInv, TypeOK
    <3>1. CASE op[c] = "acquire"
      <4>1. lease.owner # OwnerOf[c]
        BY <2>1, <3>1, <3>a, <3>b, WrittenAcquire DEF Write, Answer
      <4> QED
        BY <2>1, <3>1, <3>b, <4>1, WrittenAcquire DEF Write, Answer
    <3>2. CASE op[c] = "heartbeat"
      BY <2>1, <3>2, <3>a, <3>b, WrittenHeartbeat DEF Write, Answer
    <3>3. CASE op[c] = "release"
      BY <2>1, <3>3 DEF Write, Answer, ReleasedByOwner, IInv, WritesWhatItMay, MayOverwrite
    <3>4. CASE op[c] = "reap"
      BY <2>1, <3>4 DEF Write, Answer, IInv, WritesWhatItMay, MayOverwrite
    <3> QED
      BY <2>1, <3>1, <3>2, <3>3, <3>4, WritingOperation DEF Write, Answer
  <2>2. ASSUME Expire PROVE FALSE
    BY <2>2, NoLeaseAssumption DEF Expire, LeaseLeavesOwner, IInv, TypeOK
  <2>3. ASSUME UNCHANGED lease PROVE FALSE
    BY <2>3 DEF LeaseLeavesOwner
  <2> QED
    BY <2>1, <2>2, <2>3 DEF Next, Step, vars, Begin, Enter, LockTimeout, Read, ReadForAcquire,
       ReadAsHolder, ReadForReap, Reread, Leave, Die, Reclaim
<1> QED
  BY Invariance, <1>1, PTL DEF Spec, LiveOwnerKeepsLease

-----------------------------------------------------------------------------

(***************************************************************************)
(* The write of each operation is one step of the atomic cell; every other *)
(* step but a death and the running out of the ttl is invisible to it.     *)
(***************************************************************************)
LEMMA WriteSimulated ==
  ASSUME IInv, NEW c \in Caller, Write(c)
  PROVE  Cell!Next
<1> DEFINE o == OwnerOf[c]
<1>1. o \in Owner /\ o \notin dead
  BY OwnerOfAssumption DEF Write, Answer, IInv, DeadAreGone
<1>2. lease' = Written(c) /\ UNCHANGED dead /\ pc[c] = "writing"
  BY DEF Write, Answer
<1>3. CASE op[c] = "acquire"
  BY <1>1, <1>2, <1>3, WrittenAcquire DEF Cell!Next, Cell!Acquire, Cell!Lease
<1>4. CASE op[c] = "heartbeat"
  BY <1>1, <1>2, <1>4, WrittenHeartbeat DEF Cell!Next, Cell!Heartbeat, Cell!Lease
<1>5. CASE op[c] = "release"
  BY <1>1, <1>2, <1>5, WrittenRemoval
     DEF Cell!Next, Cell!Release, IInv, WritesWhatItMay, MayOverwrite
<1>6. CASE op[c] = "reap"
  BY <1>1, <1>2, <1>6, WrittenRemoval
     DEF Cell!Next, Cell!Reap, IInv, WritesWhatItMay, MayOverwrite
<1> QED
  BY <1>2, <1>3, <1>4, <1>5, <1>6, WritingOperation

(***************************************************************************)
(* The operations of session-lease.ts implement the atomic lease cell.     *)
(***************************************************************************)
THEOREM CellRefinement == Spec => ImplementsCell
<1>1. Init => Cell!Init
  BY DEF Init, Cell!Init
<1>2. IInv /\ [Next]_vars => [Cell!Next]_(Cell!vars)
  <2> SUFFICES ASSUME IInv, [Next]_vars
               PROVE  Cell!Next \/ UNCHANGED <<lease, dead>>
    BY DEF Cell!vars
  <2>1. ASSUME Expire PROVE Cell!Next
    BY <2>1 DEF Expire, Cell!Next, Cell!Expire, Cell!Lease, IInv, TypeOK
  <2>2. ASSUME NEW o \in Owner, Die(o) PROVE Cell!Next
    BY <2>2 DEF Die, Cell!Next, Cell!Die
  <2> QED
    BY <2>1, <2>2, WriteSimulated DEF Next, Step, vars, Begin, Enter, LockTimeout, Read,
       ReadForAcquire, ReadAsHolder, ReadForReap, Reread, Leave, Reclaim
<1> QED
  BY Invariance, <1>1, <1>2, PTL DEF Spec, ImplementsCell, Cell!Spec

(***************************************************************************)
(* The callers use the mutation lock as module Mutex allows: the holder    *)
(* leaves it after its critical section, and a dead caller's is reclaimed. *)
(***************************************************************************)
THEOREM LockDiscipline == Spec => UsesLock
<1> DEFINE working == {c \in Caller : pc[c] \in Inside}
           crashed == {c \in Caller : OwnerOf[c] \in dead}
<1>1. Init => Lock!Init
  BY NobodyAssumption DEF Init, Lock!Init
<1>2. IInv /\ [Next]_vars => [Lock!Next]_(Lock!vars)
  <2> SUFFICES ASSUME IInv, [Next]_vars
               PROVE  Lock!Next \/ UNCHANGED <<lockOwner, working, crashed>>
    BY DEF Lock!vars
  <2>1. ASSUME NEW c \in Caller, Enter(c) PROVE Lock!Acquire(c)
    BY <2>1 DEF Enter, Lock!Acquire, IInv, TypeOK, DeadAreGone
  <2>2. ASSUME NEW c \in Caller, pc[c] \in Inside, pc'[c] = "leaving",
               UNCHANGED <<dead, lockOwner>>, pc' = [pc EXCEPT ![c] = "leaving"]
        PROVE  Lock!Finish(c)
    BY <2>2 DEF Lock!Finish, IInv, TypeOK
  <2>3. ASSUME NEW c \in Caller, NEW to \in Inside, pc[c] \in Inside,
               UNCHANGED <<dead, lockOwner>>, pc' = [pc EXCEPT ![c] = to]
        PROVE  UNCHANGED <<lockOwner, working, crashed>>
    BY <2>3 DEF IInv, TypeOK
  <2>4. ASSUME NEW c \in Caller, Read(c) \/ Reread(c) \/ Write(c)
        PROVE  Lock!Next \/ UNCHANGED <<lockOwner, working, crashed>>
    <3>1. pc[c] \in Inside /\ UNCHANGED <<dead, lockOwner>>
      BY <2>4 DEF Read, ReadForAcquire, ReadAsHolder, ReadForReap, Reread, Write, Answer
    <3>2. \E to \in Inside \cup {"leaving"} : pc' = [pc EXCEPT ![c] = to]
      BY <2>4 DEF Read, ReadForAcquire, ReadAsHolder, ReadForReap, Reread, Write, Answer
    <3> QED
      BY <2>2, <2>3, <3>1, <3>2 DEF Lock!Next, IInv, TypeOK
  <2>5. ASSUME NEW c \in Caller, Leave(c) PROVE Lock!Release /\ UNCHANGED <<working, crashed>>
    BY <2>5 DEF Leave, Return, Lock!Release, IInv, TypeOK, DeadAreGone, InsideHoldsLock
  <2>6. ASSUME Reclaim PROVE Lock!Reclaim
    BY <2>6 DEF Reclaim, Lock!Reclaim, IInv, TypeOK, DeadAreGone
  <2>7. ASSUME NEW o \in Owner, Die(o) PROVE Lock!Crash
    BY <2>7 DEF Die, Lock!Crash, IInv, TypeOK, DeadAreGone
  <2>8. ASSUME NEW c \in Caller, LockTimeout(c) \/ \E kind \in Operations : Begin(c, kind)
        PROVE  UNCHANGED <<lockOwner, working, crashed>>
    BY <2>8 DEF LockTimeout, Return, Begin, IInv, TypeOK
  <2>9. ASSUME Expire \/ UNCHANGED vars PROVE UNCHANGED <<lockOwner, working, crashed>>
    BY <2>9 DEF Expire, vars
  <2> QED
    BY <2>1, <2>4, <2>5, <2>6, <2>7, <2>8, <2>9 DEF Next, Step, Lock!Next
<1> QED
  BY Invariance, <1>1, <1>2, PTL DEF Spec, UsesLock, Lock!Spec
=============================================================================
