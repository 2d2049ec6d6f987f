-------------------------- MODULE LeaseLock_proofs --------------------------
(***************************************************************************)
(* Proofs about the lease mutation lock, for every set of contenders and   *)
(* processes and every number of retries.                                  *)
(***************************************************************************)
EXTENDS LeaseLock, TLAPS

(***************************************************************************)
(* Mutual exclusion is not inductive by itself: that nobody removes the    *)
(* token of a live holder rests on what a recovering contender knows about *)
(* the token it is about to delete.                                        *)
(***************************************************************************)
\* A contender of a dead process does nothing any more.
DeadAreGone == \A c \in Contender : IsDead(c) <=> pc[c] = "gone"

\* Tokens exist in a directory only, and a directory has one at most.
OneToken ==
    /\ entries # {} => kind = "dir"
    /\ \A c, d \in entries : c = d

\* The token of a contender in its critical section is in the directory.
HolderHasToken == \A c \in Contender : InSection(c) => c \in entries

\* A token in the directory is a live holder's or a dead process's.
TokenHasHolder == \A c \in entries : InSection(c) \/ IsDead(c)

\* Whoever is about to delete a token found its owner dead.
RemovesDeadOnly == \A c \in Contender : pc[c] = "rmFile" => IsDead(found[c])

\* Whoever is about to unlink the legacy file found its process dead.
UnlinksDeadOnly == \A c \in Contender : pc[c] = "unlinkLegacy" => LegacyPid \in dead

IInv ==
    /\ TypeOK
    /\ DeadAreGone
    /\ OneToken
    /\ HolderHasToken
    /\ TokenHasHolder
    /\ RemovesDeadOnly
    /\ UnlinksDeadOnly

USE DEF Places, Recovering, Releasing, InSection, IsDead, Move

-----------------------------------------------------------------------------

(***************************************************************************)
(* The initial states satisfy the invariant.                               *)
(***************************************************************************)
LEMMA InitIInv == Init => IInv
<1> SUFFICES ASSUME Init PROVE IInv
  OBVIOUS
<1> USE DEF Init
<1>1. TypeOK
  BY RetriesAssumption DEF TypeOK
<1>2. DeadAreGone
  BY DEF DeadAreGone
<1>3. OneToken /\ HolderHasToken /\ TokenHasHolder /\ RemovesDeadOnly /\ UnlinksDeadOnly
  BY DEF OneToken, HolderHasToken, TokenHasHolder, RemovesDeadOnly, UnlinksDeadOnly
<1> QED
  BY <1>1, <1>2, <1>3 DEF IInv

(***************************************************************************)
(* Every step preserves the invariant.                                     *)
(***************************************************************************)
LEMMA StepIInv == IInv /\ [Next]_vars => IInv'
<1> SUFFICES ASSUME IInv, [Next]_vars PROVE IInv'
  OBVIOUS
<1> USE RetriesAssumption DEF IInv, TypeOK, DeadAreGone, OneToken, HolderHasToken,
        TokenHasHolder, RemovesDeadOnly, UnlinksDeadOnly
<1>1. ASSUME NEW c \in Contender, Start(c) PROVE IInv'
  BY <1>1 DEF Start
<1>2. ASSUME NEW c \in Contender, Create(c) PROVE IInv'
  BY <1>2 DEF Create
<1>3. ASSUME NEW c \in Contender, ReadDir(c) PROVE IInv'
  BY <1>3 DEF ReadDir, TryAgain
<1>4. ASSUME NEW c \in Contender, ReadInfo(c) PROVE IInv'
  BY <1>4 DEF ReadInfo, TryAgain
<1>5. ASSUME NEW c \in Contender, Probe(c) PROVE IInv'
  BY <1>5 DEF Probe, TryAgain
<1>6. ASSUME NEW c \in Contender, RmFile(c) PROVE IInv'
  BY <1>6 DEF RmFile
<1>7. ASSUME NEW c \in Contender, RmEmpty(c) PROVE IInv'
  BY <1>7 DEF RmEmpty, TryAgain, RmdirIfEmpty
<1>8. ASSUME NEW c \in Contender, ReadLegacy(c) PROVE IInv'
  BY <1>8 DEF ReadLegacy, TryAgain
<1>9. ASSUME NEW c \in Contender, ProbeLegacy(c) PROVE IInv'
  BY <1>9 DEF ProbeLegacy, TryAgain
<1>10. ASSUME NEW c \in Contender, UnlinkLegacy(c) PROVE IInv'
  BY <1>10 DEF UnlinkLegacy, TryAgain
<1>11. ASSUME NEW c \in Contender, EndSection(c) PROVE IInv'
  BY <1>11 DEF EndSection
<1>12. ASSUME NEW c \in Contender, RmToken(c) PROVE IInv'
  BY <1>12 DEF RmToken
<1>13. ASSUME NEW c \in Contender, RmDir(c) PROVE IInv'
  BY <1>13 DEF RmDir, RmdirIfEmpty
<1>14. ASSUME NEW p \in Process, Crash(p) PROVE IInv'
  BY <1>14, ProcOfAssumption DEF Crash
<1>15. CASE UNCHANGED vars
  BY <1>15 DEF vars
<1> QED
  BY <1>1, <1>2, <1>3, <1>4, <1>5, <1>6, <1>7, <1>8, <1>9,
     <1>10, <1>11, <1>12, <1>13, <1>14, <1>15 DEF Next, Step

(***************************************************************************)
(* Every reachable state satisfies the invariant.                          *)
(***************************************************************************)
THEOREM Invariance == Spec => []IInv
  BY InitIInv, StepIInv, PTL DEF Spec

(***************************************************************************)
(* The protocol is type-correct.                                           *)
(***************************************************************************)
THEOREM TypeCorrect == Spec => []TypeOK
<1>1. IInv => TypeOK
  BY DEF IInv
<1> QED
  BY Invariance, <1>1, PTL

(***************************************************************************)
(* Mutual exclusion: withLeaseMutationLock never runs two critical         *)
(* sections of live processes at once.                                     *)
(***************************************************************************)
THEOREM Exclusion == Spec => []MutualExclusion
<1>1. IInv => MutualExclusion
  BY DEF IInv, HolderHasToken, OneToken, MutualExclusion
<1> QED
  BY Invariance, <1>1, PTL

(***************************************************************************)
(* No recovery deletes the token of a live process.                        *)
(***************************************************************************)
THEOREM OnlyOwnOrDeadTokenRemoved == Spec => TokenRemoval
<1>1. IInv /\ [Next]_vars => [OwnOrDeadRemoved]_vars
  <2> SUFFICES ASSUME IInv, [Next]_vars, NEW d \in Contender, d \in entries, d \notin entries'
               PROVE  pc[d] = "rmToken" \/ IsDead(d)
    BY DEF OwnOrDeadRemoved
  <2>1. ASSUME NEW c \in Contender, Create(c) PROVE FALSE
    BY <2>1 DEF Create, IInv, OneToken
  <2>2. ASSUME NEW c \in Contender, RmFile(c) PROVE IsDead(d)
    BY <2>2 DEF RmFile, IInv, RemovesDeadOnly
  <2>3. ASSUME NEW c \in Contender, RmToken(c) PROVE pc[d] = "rmToken"
    BY <2>3 DEF RmToken
  <2> QED
    BY <2>1, <2>2, <2>3 DEF Next, Step, vars, Start, ReadDir, ReadInfo, Probe, RmEmpty,
       ReadLegacy, ProbeLegacy, UnlinkLegacy, EndSection, RmDir, Crash
<1> QED
  BY Invariance, <1>1, PTL DEF Spec, TokenRemoval

-----------------------------------------------------------------------------

(***************************************************************************)
(* The directory protocol implements the abstract lock.  While a token is  *)
(* in the directory the abstract owner is its contender; the legacy file   *)
(* stands for an owner outside the protocol.                               *)
(***************************************************************************)
LEMMA OwnerOfToken ==
  ASSUME IInv, NEW c \in entries
  PROVE  Owner = c
<1>1. kind # "file"
  BY DEF IInv, OneToken
<1>2. (CHOOSE t \in entries : TRUE) \in entries
  OBVIOUS
<1> QED
  BY <1>1, <1>2 DEF IInv, OneToken, Owner

\* The abstract owner depends on the lock path alone.
LEMMA OwnerUnchanged ==
  ASSUME UNCHANGED <<kind, entries>>
  PROVE  UNCHANGED Owner
  BY DEF Owner

LEMMA CrashedUnchanged ==
  ASSUME UNCHANGED dead
  PROVE  UNCHANGED Crashed
  BY DEF Crashed

\* Removing the token of a contender frees the abstract lock.
LEMMA TokenRemoved ==
  ASSUME IInv, IInv', UNCHANGED kind, NEW c \in entries, entries' = entries \ {c}
  PROVE  Owner = c /\ Owner' = Nobody
<1>1. Owner = c
  BY OwnerOfToken
<1>2. entries' = {} /\ kind' # "file"
  BY DEF IInv, OneToken
<1> QED
  BY <1>1, <1>2 DEF Owner

\* rmdir of an empty directory, or of nothing, is invisible to clients.
LEMMA RmdirInvisible ==
  ASSUME RmdirIfEmpty, UNCHANGED entries
  PROVE  UNCHANGED Owner
  BY DEF RmdirIfEmpty, Owner

\* Who works depends on the places, the legacy file and the legacy process.
LEMMA WorkingUnchanged ==
  ASSUME UNCHANGED <<kind, dead>>,
         \A c \in Contender : pc'[c] = "held" <=> pc[c] = "held"
  PROVE  UNCHANGED Working
  BY DEF Working

\* A contender's move outside its critical section is invisible in Working.
LEMMA MoveInvisible ==
  ASSUME TypeOK, UNCHANGED <<kind, dead>>, NEW c \in Contender, NEW from, NEW to,
         Move(c, from, to), from # "held", to # "held"
  PROVE  UNCHANGED Working
<1>1. \A d \in Contender : pc'[d] = "held" <=> pc[d] = "held"
  BY DEF TypeOK
<1> QED
  BY <1>1, WorkingUnchanged

(***************************************************************************)
(* The steps of the protocol that clients of the abstract lock see.        *)
(***************************************************************************)
Visible == <<Owner, Working, Crashed>>
Simulated == AbstractLock!Next \/ UNCHANGED Visible

LEMMA CreateSimulated ==
  ASSUME IInv, NEW c \in Contender, Create(c)
  PROVE  Simulated
<1>1. UNCHANGED Crashed
  BY CrashedUnchanged DEF Create
<1>2. CASE Move(c, "create", "readdir") /\ UNCHANGED <<kind, entries>>
  BY <1>1, <1>2, OwnerUnchanged, MoveInvisible DEF Create, IInv, Simulated, Visible
<1>3. CASE Move(c, "create", "held") /\ kind' = "dir" /\ entries' = {c}
           /\ (kind = "absent" \/ (kind = "dir" /\ entries = {}))
  <2>1. Owner = Nobody /\ Owner' = c
    BY <1>3 DEF Owner, IInv, OneToken
  <2>2. c \notin Crashed
    BY <1>3, NamesAssumption DEF Crashed, IInv, DeadAreGone, Legacy
  <2>3. Working' = Working \cup {c}
    BY <1>3 DEF Create, Working, IInv, TypeOK
  <2> QED
    BY <1>1, <2>1, <2>2, <2>3 DEF Simulated, AbstractLock!Next, AbstractLock!Acquire
<1> QED
  BY <1>2, <1>3 DEF Create

LEMMA RmFileSimulated ==
  ASSUME IInv, IInv', NEW c \in Contender, RmFile(c)
  PROVE  Simulated
<1>1. UNCHANGED <<Working, Crashed>>
  BY CrashedUnchanged, MoveInvisible DEF RmFile, IInv
<1>2. CASE found[c] \in entries
  <2>1. Owner = found[c] /\ Owner' = Nobody
    BY <1>2, TokenRemoved DEF RmFile
  <2>2. found[c] \in Crashed
    BY <1>2 DEF RmFile, Crashed, IInv, RemovesDeadOnly, TypeOK
  <2> QED
    BY <1>1, <2>1, <2>2 DEF Simulated, AbstractLock!Next, AbstractLock!Reclaim
<1>3. CASE found[c] \notin entries
  BY <1>1, <1>3, OwnerUnchanged DEF RmFile, Simulated, Visible
<1> QED
  BY <1>2, <1>3

LEMMA RmTokenSimulated ==
  ASSUME IInv, IInv', NEW c \in Contender, RmToken(c)
  PROVE  Simulated
<1>1. UNCHANGED <<Working, Crashed>>
  BY CrashedUnchanged, MoveInvisible DEF RmToken, IInv
<1>2. Owner = c /\ Owner' = Nobody
  BY TokenRemoved DEF RmToken, IInv, HolderHasToken
<1>3. c \notin Crashed /\ c \notin Working
  BY NamesAssumption DEF RmToken, Crashed, Working, IInv, DeadAreGone, Legacy
<1> QED
  BY <1>1, <1>2, <1>3 DEF Simulated, AbstractLock!Next, AbstractLock!Release

LEMMA EndSectionSimulated ==
  ASSUME IInv, NEW c \in Contender, EndSection(c)
  PROVE  Simulated
<1>1. UNCHANGED <<Owner, Crashed>>
  BY CrashedUnchanged, OwnerUnchanged DEF EndSection
<1>2. c \in Working
  BY DEF EndSection, Working
<1>3. Working' = Working \ {c}
  BY NamesAssumption DEF EndSection, Working, IInv, TypeOK, Legacy
<1> QED
  BY <1>1, <1>2, <1>3 DEF Simulated, AbstractLock!Next, AbstractLock!Finish

LEMMA RmdirSimulated ==
  ASSUME IInv, NEW c \in Contender, RmEmpty(c) \/ RmDir(c)
  PROVE  Simulated
<1>1. UNCHANGED <<Owner, Crashed>>
  BY RmdirInvisible, CrashedUnchanged DEF RmEmpty, RmDir
<1>2. \A d \in Contender : pc'[d] = "held" <=> pc[d] = "held"
  BY DEF RmEmpty, RmDir, TryAgain, IInv, TypeOK
<1>3. UNCHANGED dead /\ (kind = "file" <=> kind' = "file")
  BY DEF RmEmpty, RmDir, RmdirIfEmpty
<1>4. UNCHANGED Working
  BY <1>2, <1>3 DEF Working
<1> QED
  BY <1>1, <1>4 DEF Simulated, Visible

LEMMA UnlinkLegacySimulated ==
  ASSUME IInv, NEW c \in Contender, UnlinkLegacy(c)
  PROVE  Simulated
<1>1. UNCHANGED Crashed
  BY CrashedUnchanged DEF UnlinkLegacy
<1>2. LegacyPid \in dead
  BY DEF UnlinkLegacy, TryAgain, IInv, UnlinksDeadOnly
<1>3. UNCHANGED Working
  <2>1. \A d \in Contender : pc'[d] = "held" <=> pc[d] = "held"
    BY DEF UnlinkLegacy, TryAgain, IInv, TypeOK
  <2> QED
    BY <1>2, <2>1 DEF Working, UnlinkLegacy
<1>4. CASE kind # "file"
  BY <1>1, <1>3, <1>4, OwnerUnchanged DEF UnlinkLegacy, Simulated, Visible
<1>5. CASE kind = "file"
  <2>1. Owner = Legacy /\ Owner' = Nobody
    BY <1>5 DEF UnlinkLegacy, Owner, IInv, OneToken
  <2>2. Legacy \in Crashed
    BY <1>2 DEF Crashed
  <2> QED
    BY <1>1, <1>3, <2>1, <2>2 DEF Simulated, AbstractLock!Next, AbstractLock!Reclaim
<1> QED
  BY <1>4, <1>5

LEMMA CrashSimulated ==
  ASSUME IInv, NEW p \in Process, Crash(p)
  PROVE  Simulated
<1>1. UNCHANGED Owner
  BY OwnerUnchanged DEF Crash
<1>2. Crashed \subseteq Crashed' /\ Crashed' \in SUBSET (Contender \cup {Legacy})
  BY DEF Crash, Crashed
<1>3. Working' = Working \ Crashed'
  BY NamesAssumption DEF Crash, Crashed, Working, IInv, DeadAreGone, Legacy
<1> QED
  BY <1>1, <1>2, <1>3 DEF Simulated, AbstractLock!Next, AbstractLock!Crash

\* The steps that only look at the lock path change nothing a client sees.
LEMMA LookingSimulated ==
  ASSUME IInv, NEW c \in Contender,
         Start(c) \/ ReadDir(c) \/ ReadInfo(c) \/ Probe(c) \/ ReadLegacy(c) \/ ProbeLegacy(c)
  PROVE  Simulated
<1>1. UNCHANGED <<kind, entries, dead>>
  BY DEF Start, ReadDir, ReadInfo, Probe, ReadLegacy, ProbeLegacy
<1>2. \A d \in Contender : pc'[d] = "held" <=> pc[d] = "held"
  BY DEF Start, ReadDir, ReadInfo, Probe, ReadLegacy, ProbeLegacy, TryAgain, IInv, TypeOK
<1> QED
  BY <1>1, <1>2, OwnerUnchanged, CrashedUnchanged, WorkingUnchanged DEF Simulated, Visible

(***************************************************************************)
(* The directory protocol of session-lease.ts implements the lock of       *)
(* module Mutex, for any contenders, processes and number of retries.      *)
(***************************************************************************)
THEOREM Refinement == Spec => ImplementsMutex
<1>1. Init => AbstractLock!Init
  <2> SUFFICES ASSUME Init PROVE AbstractLock!Init
    OBVIOUS
  <2>1. Owner = IF kind = "file" THEN Legacy ELSE Nobody
    BY DEF Init, Owner
  <2>2. Crashed = {} /\ Working = IF kind = "file" THEN {Legacy} ELSE {}
    BY DEF Init, Crashed, Working
  <2> QED
    BY <2>1, <2>2, NamesAssumption DEF AbstractLock!Init, Legacy, Nobody
<1>2. IInv /\ IInv' /\ [Next]_vars => [AbstractLock!Next]_(AbstractLock!vars)
  <2> SUFFICES ASSUME IInv, IInv', [Next]_vars PROVE Simulated
    BY DEF Simulated, Visible, AbstractLock!vars
  <2>1. CASE UNCHANGED vars
    BY <2>1, OwnerUnchanged, CrashedUnchanged, WorkingUnchanged DEF vars, Simulated, Visible
  <2>2. CASE Next
    BY <2>2, CreateSimulated, RmFileSimulated, RmTokenSimulated, EndSectionSimulated,
       RmdirSimulated, UnlinkLegacySimulated, CrashSimulated, LookingSimulated
       DEF Next, Step
  <2> QED
    BY <2>1, <2>2
<1> QED
  BY Invariance, <1>1, <1>2, PTL DEF Spec, ImplementsMutex, AbstractLock!Spec
=============================================================================
