---------------------------- MODULE RoboPool_proofs ----------------------------
(***************************************************************************)
(* Proofs about the worker pool of robogjc, for every number of events,    *)
(* all issues they may belong to, all slots, and any number of crashes,    *)
(* stops, cancellations and replays.                                       *)
(***************************************************************************)
EXTENDS RoboPool, NaturalsInduction, WellFoundedInduction, TLAPS

Working == {"slot", "prep", "thread"}

(***************************************************************************)
(* None of the properties is inductive.  That one event of a key is at     *)
(* work rests on the set of keys in flight: that of an event with a task   *)
(* is in it, so that a new task finds nobody engaged, and a worker thread  *)
(* without a task exists only after stop() has ended the dispatch for      *)
(* good.  A process that no reap has seen belongs to an event that holds a *)
(* slot or has such a thread, and runs under the uid it was given, until   *)
(* the service is down.                                                    *)
(***************************************************************************)

\* A service that is down remembers nothing, and only one that is up dispatches.
DownIsEmpty ==
    /\ pool = "down" => taken = 0 /\ \A e \in Event : ~Engaged(e)
    /\ pool # "up" => disp = "off"
    /\ pool \in {"down", "up", "drain"} => shut = {}

\* What the dispatcher has claimed, no task works on.
TakenIsIdle ==
    taken # 0 => disp \in {"got", "putback"} /\ task[taken] \notin Working

\* A task has a thread when it waits for one; a thread keeps its slot, and outlives
\* its task only when stop() has cancelled that.
ThreadsFit ==
    \A e \in Event :
        /\ task[e] \in {"slot", "prep", "finally"} => thread[e] = "none"
        /\ task[e] = "thread" => thread[e] # "none"
        /\ task[e] \in {"prep", "thread", "finally"} \/ thread[e] # "none" => slot[e] \in Slot
        /\ task[e] \in {"none", "slot", "releasing"} /\ thread[e] = "none" => slot[e] = NoSlot
        /\ pool \in {"up", "drain"} => /\ task[e] # "unwinding"
                                       /\ thread[e] # "none" => task[e] = "thread"

\* A slot is held by one task.
SlotsDistinct ==
    \A e, f \in Event : Holds(e) /\ Holds(f) /\ slot[e] = slot[f] => e = f

TasksInFlight == \A e \in Tasks : Issue[e] \in inflight

ProcsAreEngaged ==
    pool # "down" =>
        \A p \in procs : /\ thread[p[1]] # "none" \/ Holds(p[1])
                         /\ slot[p[1]] = p[2]

IInv ==
    /\ TypeOK
    /\ DownIsEmpty
    /\ TakenIsIdle
    /\ ThreadsFit
    /\ SlotsDistinct
    /\ TasksInFlight
    /\ OneRunPerKey
    /\ ProcsAreEngaged
    /\ RowOwned

-----------------------------------------------------------------------------

(***************************************************************************)
(* The oldest of the queued events is one of them: a non-empty set of      *)
(* natural numbers has a least element.                                    *)
(***************************************************************************)
LEMMA LeastElement ==
  ASSUME NEW S, S \subseteq Event, S # {}
  PROVE  First(S) \in S
<1>1. S \subseteq Nat
  BY EventsAssumption DEF Event
<1>2. \E e \in S : \A f \in S : ~ (<<f, e>> \in OpToRel(<, Nat))
  BY <1>1, NatLessThanWellFounded, WFMin, Zenon
<1>3. \E e \in S : \A f \in S : e <= f
  <2>1. PICK e \in S : \A f \in S : ~ (<<f, e>> \in OpToRel(<, Nat))
    BY <1>2
  <2>2. ASSUME NEW f \in S PROVE ~(f < e)
    BY <2>1, <1>1, Zenon DEF OpToRel
  <2> QED
    BY <1>1, <2>2
<1> QED
  BY <1>3 DEF First

(***************************************************************************)
(* No event has the number that stands for none.                           *)
(***************************************************************************)
LEMMA Numbers == 0 \notin Event
  BY EventsAssumption DEF Event

(***************************************************************************)
(* The initial states satisfy the invariant.                               *)
(***************************************************************************)
LEMMA InitIInv == Init => IInv
<1> SUFFICES ASSUME Init PROVE IInv
  OBVIOUS
<1>1. TypeOK
  <2>1. /\ row \in [Event -> {"none", "queued", "running", "done", "failed"}]
        /\ task \in [Event -> {"none", "slot", "prep", "thread",
                               "unwinding", "finally", "releasing"}]
        /\ slot \in [Event -> Slot \cup {NoSlot}]
        /\ thread \in [Event -> {"none", "spawn", "arming", "turn", "ok", "error"}]
    BY DEF Init
  <2>2. wakeup \in BOOLEAN /\ taken \in Event \cup {0} /\ incidents \in Nat
    BY DEF Init
  <2>3. procs = {} /\ strays = {} /\ tools = {} /\ inflight \subseteq {Issue[e] : e \in Event}
    BY DEF Init
  <2> QED
    BY <2>1, <2>2, <2>3 DEF Init, TypeOK
<1>2. DownIsEmpty /\ TakenIsIdle /\ ThreadsFit /\ SlotsDistinct /\ TasksInFlight
  BY DEF Init, DownIsEmpty, TakenIsIdle, ThreadsFit, SlotsDistinct, TasksInFlight, Engaged, Tasks, Holds
<1>3. OneRunPerKey /\ ProcsAreEngaged /\ RowOwned
  BY DEF Init, OneRunPerKey, ProcsAreEngaged, RowOwned, Engaged
<1> QED
  BY <1>1, <1>2, <1>3 DEF IInv

(***************************************************************************)
(* The bound counts up.                                                    *)
(***************************************************************************)
LEMMA Counts == ASSUME incidents \in Nat, Incident PROVE incidents' \in Nat
  BY DEF Incident

(***************************************************************************)
(* A reap takes every process under its uids from those it has not seen,   *)
(* and what it has missed was one of them.                                 *)
(***************************************************************************)
LEMMA ReapSees ==
  ASSUME TypeOK, NEW U, Reap(U)
  PROVE  /\ procs' = {p \in procs : p[2] \notin U}
         /\ strays' \subseteq Event \X Slot
         /\ incidents' \in Nat
<1>1. PICK left \in SUBSET {p \in procs \cup strays : p[2] \in U} :
         /\ procs' = {p \in procs : p[2] \notin U}
         /\ strays' = {p \in strays : p[2] \notin U} \cup left
         /\ left # {} => Incident
         /\ left = {} => UNCHANGED incidents
  BY DEF Reap
<1>2. incidents' \in Nat
  BY <1>1, Counts DEF TypeOK
<1> QED
  BY <1>1, <1>2 DEF TypeOK

(***************************************************************************)
(* Killing agents starts nothing.                                          *)
(***************************************************************************)
LEMMA KillsOnly == ASSUME NEW E, KillAgents(E) PROVE procs' \subseteq procs
  BY DEF KillAgents

(***************************************************************************)
(* A task that leaves its finally clause keeps a slot only for a thread    *)
(* that outlives it.                                                       *)
(***************************************************************************)
LEMMA FinishFits ==
  ASSUME TypeOK, ThreadsFit, NEW e \in Event, Finish(e)
  PROVE  ThreadsFit'
<1>1. /\ task' = [task EXCEPT ![e] = "releasing"]
      /\ slot' = [slot EXCEPT ![e] = IF thread[e] = "none" THEN NoSlot ELSE @]
      /\ UNCHANGED <<thread, pool>>
      /\ task[e] \in {"finally", "unwinding"}
  BY DEF Finish, poolVars
<1>2. /\ task'[e] = "releasing"
      /\ slot'[e] = IF thread[e] = "none" THEN NoSlot ELSE slot[e]
      /\ \A f \in Event \ {e} : task'[f] = task[f] /\ slot'[f] = slot[f]
  BY <1>1 DEF TypeOK
<1>3. /\ task[e] = "finally" => thread[e] = "none"
      /\ thread[e] # "none" => slot[e] \in Slot
      /\ pool \in {"up", "drain"} => thread[e] = "none"
  BY <1>1 DEF ThreadsFit
<1> QED
  BY ONLY <1>1, <1>2, <1>3, ThreadsFit DEF ThreadsFit

(***************************************************************************)
(* Every step preserves the invariant.                                     *)
(***************************************************************************)
LEMMA StepIInv == IInv /\ [Next]_vars => IInv'
<1> SUFFICES ASSUME IInv, [Next]_vars PROVE IInv'
  OBVIOUS
<1> USE Numbers, SlotAssumption
    DEF IInv, TypeOK, DownIsEmpty, TakenIsIdle, ThreadsFit, SlotsDistinct, TasksInFlight,
        OneRunPerKey, ProcsAreEngaged, RowOwned, Engaged, Tasks, Working, Holds,
        rowVars, dispVars, taskVars, procVars, threadVars, cancelVars, poolVars
<1>1. ASSUME Start PROVE IInv'
  <2>1. TypeOK'
    BY <1>1, ReapSees DEF Start
  <2>2. DownIsEmpty'
    BY <1>1, ReapSees DEF Start
  <2>3. TakenIsIdle'
    BY <1>1, ReapSees DEF Start
  <2>4. ThreadsFit'
    BY <1>1, ReapSees DEF Start
  <2>5. SlotsDistinct'
    BY <1>1, ReapSees DEF Start
  <2>6. TasksInFlight'
    BY <1>1, ReapSees DEF Start
  <2>7. OneRunPerKey'
    BY <1>1, ReapSees DEF Start
  <2>8. ProcsAreEngaged'
    BY <1>1, ReapSees DEF Start
  <2>9. RowOwned'
    BY <1>1, ReapSees DEF Start
  <2> QED
    BY <2>1, <2>2, <2>3, <2>4, <2>5, <2>6, <2>7, <2>8, <2>9
<1>2. ASSUME Crash PROVE IInv'
  <2>1. TypeOK'
    BY <1>2, Counts DEF Crash, Forget
  <2>2. DownIsEmpty'
    BY <1>2, Counts DEF Crash, Forget
  <2>3. TakenIsIdle'
    BY <1>2, Counts DEF Crash, Forget
  <2>4. ThreadsFit'
    BY <1>2, Counts DEF Crash, Forget
  <2>5. SlotsDistinct'
    BY <1>2, Counts DEF Crash, Forget
  <2>6. TasksInFlight'
    BY <1>2, Counts DEF Crash, Forget
  <2>7. OneRunPerKey'
    BY <1>2, Counts DEF Crash, Forget
  <2>8. ProcsAreEngaged'
    BY <1>2, Counts DEF Crash, Forget
  <2>9. RowOwned'
    BY <1>2, Counts DEF Crash, Forget
  <2> QED
    BY <2>1, <2>2, <2>3, <2>4, <2>5, <2>6, <2>7, <2>8, <2>9
<1>3. ASSUME Claim PROVE IInv'
  <2>1. TypeOK'
    BY <1>3, LeastElement DEF Claim, Queued
  <2>2. DownIsEmpty'
    BY <1>3, LeastElement DEF Claim, Queued
  <2>3. TakenIsIdle'
    BY <1>3, LeastElement DEF Claim, Queued
  <2>4. ThreadsFit'
    BY <1>3, LeastElement DEF Claim, Queued
  <2>5. SlotsDistinct'
    BY <1>3, LeastElement DEF Claim, Queued
  <2>6. TasksInFlight'
    BY <1>3, LeastElement DEF Claim, Queued
  <2>7. OneRunPerKey'
    BY <1>3, LeastElement DEF Claim, Queued
  <2>8. ProcsAreEngaged'
    BY <1>3, LeastElement DEF Claim, Queued
  <2>9. RowOwned'
    BY <1>3, LeastElement DEF Claim, Queued
  <2> QED
    BY <2>1, <2>2, <2>3, <2>4, <2>5, <2>6, <2>7, <2>8, <2>9
<1>4. ASSUME GoWait PROVE IInv'
  <2>1. TypeOK'
    BY <1>4 DEF GoWait
  <2>2. DownIsEmpty'
    BY <1>4 DEF GoWait
  <2>3. TakenIsIdle'
    BY <1>4 DEF GoWait
  <2>4. ThreadsFit'
    BY <1>4 DEF GoWait
  <2>5. SlotsDistinct'
    BY <1>4 DEF GoWait
  <2>6. TasksInFlight'
    BY <1>4 DEF GoWait
  <2>7. OneRunPerKey'
    BY <1>4 DEF GoWait
  <2>8. ProcsAreEngaged'
    BY <1>4 DEF GoWait
  <2>9. RowOwned'
    BY <1>4 DEF GoWait
  <2> QED
    BY <2>1, <2>2, <2>3, <2>4, <2>5, <2>6, <2>7, <2>8, <2>9
<1>5. ASSUME Judge PROVE IInv'
  <2>1. TypeOK'
    BY <1>5 DEF Judge
  <2>2. DownIsEmpty'
    BY <1>5 DEF Judge
  <2>3. TakenIsIdle'
    BY <1>5 DEF Judge
  <2>4. ThreadsFit'
    BY <1>5 DEF Judge
  <2>5. SlotsDistinct'
    BY <1>5 DEF Judge
  <2>6. TasksInFlight'
    BY <1>5 DEF Judge
  <2>7. OneRunPerKey'
    BY <1>5 DEF Judge
  <2>8. ProcsAreEngaged'
    BY <1>5 DEF Judge
  <2>9. RowOwned'
    BY <1>5 DEF Judge
  <2> QED
    BY <2>1, <2>2, <2>3, <2>4, <2>5, <2>6, <2>7, <2>8, <2>9
<1>6. ASSUME PutBack PROVE IInv'
  <2>1. TypeOK'
    BY <1>6 DEF PutBack
  <2>2. DownIsEmpty'
    BY <1>6 DEF PutBack
  <2>3. TakenIsIdle'
    BY <1>6 DEF PutBack
  <2>4. ThreadsFit'
    BY <1>6 DEF PutBack
  <2>5. SlotsDistinct'
    BY <1>6 DEF PutBack
  <2>6. TasksInFlight'
    BY <1>6 DEF PutBack
  <2>7. OneRunPerKey'
    BY <1>6 DEF PutBack
  <2>8. ProcsAreEngaged'
    BY <1>6 DEF PutBack
  <2>9. RowOwned'
    BY <1>6 DEF PutBack
  <2> QED
    BY <2>1, <2>2, <2>3, <2>4, <2>5, <2>6, <2>7, <2>8, <2>9
<1>7. ASSUME PollAgain PROVE IInv'
  <2>1. TypeOK'
    BY <1>7 DEF PollAgain
  <2>2. DownIsEmpty'
    BY <1>7 DEF PollAgain
  <2>3. TakenIsIdle'
    BY <1>7 DEF PollAgain
  <2>4. ThreadsFit'
    BY <1>7 DEF PollAgain
  <2>5. SlotsDistinct'
    BY <1>7 DEF PollAgain
  <2>6. TasksInFlight'
    BY <1>7 DEF PollAgain
  <2>7. OneRunPerKey'
    BY <1>7 DEF PollAgain
  <2>8. ProcsAreEngaged'
    BY <1>7 DEF PollAgain
  <2>9. RowOwned'
    BY <1>7 DEF PollAgain
  <2> QED
    BY <2>1, <2>2, <2>3, <2>4, <2>5, <2>6, <2>7, <2>8, <2>9
<1>8. ASSUME DispatcherFails PROVE IInv'
  <2>1. TypeOK'
    BY <1>8, Counts DEF DispatcherFails
  <2>2. DownIsEmpty'
    BY <1>8, Counts DEF DispatcherFails
  <2>3. TakenIsIdle'
    BY <1>8, Counts DEF DispatcherFails
  <2>4. ThreadsFit'
    BY <1>8, Counts DEF DispatcherFails
  <2>5. SlotsDistinct'
    BY <1>8, Counts DEF DispatcherFails
  <2>6. TasksInFlight'
    BY <1>8, Counts DEF DispatcherFails
  <2>7. OneRunPerKey'
    BY <1>8, Counts DEF DispatcherFails
  <2>8. ProcsAreEngaged'
    BY <1>8, Counts DEF DispatcherFails
  <2>9. RowOwned'
    BY <1>8, Counts DEF DispatcherFails
  <2> QED
    BY <2>1, <2>2, <2>3, <2>4, <2>5, <2>6, <2>7, <2>8, <2>9
<1>9. ASSUME StopBegins PROVE IInv'
  <2>1. TypeOK'
    BY <1>9, Counts, LeastElement DEF StopBegins, Queued
  <2>2. DownIsEmpty'
    BY <1>9, Counts, LeastElement DEF StopBegins, Queued
  <2>3. TakenIsIdle'
    BY <1>9, Counts, LeastElement DEF StopBegins, Queued
  <2>4. ThreadsFit'
    BY <1>9, Counts, LeastElement DEF StopBegins, Queued
  <2>5. SlotsDistinct'
    BY <1>9, Counts, LeastElement DEF StopBegins, Queued
  <2>6. TasksInFlight'
    BY <1>9, Counts, LeastElement DEF StopBegins, Queued
  <2>7. OneRunPerKey'
    BY <1>9, Counts, LeastElement DEF StopBegins, Queued
  <2>8. ProcsAreEngaged'
    BY <1>9, Counts, LeastElement DEF StopBegins, Queued
  <2>9. RowOwned'
    BY <1>9, Counts, LeastElement DEF StopBegins, Queued
  <2> QED
    BY <2>1, <2>2, <2>3, <2>4, <2>5, <2>6, <2>7, <2>8, <2>9
<1>10. ASSUME DrainEnds PROVE IInv'
  <2>1. TypeOK'
    BY <1>10 DEF DrainEnds
  <2>2. DownIsEmpty'
    BY <1>10 DEF DrainEnds
  <2>3. TakenIsIdle'
    BY <1>10 DEF DrainEnds
  <2>4. ThreadsFit'
    BY <1>10 DEF DrainEnds
  <2>5. SlotsDistinct'
    BY <1>10 DEF DrainEnds
  <2>6. TasksInFlight'
    BY <1>10 DEF DrainEnds
  <2>7. OneRunPerKey'
    BY <1>10 DEF DrainEnds
  <2>8. ProcsAreEngaged'
    BY <1>10 DEF DrainEnds
  <2>9. RowOwned'
    BY <1>10 DEF DrainEnds
  <2> QED
    BY <2>1, <2>2, <2>3, <2>4, <2>5, <2>6, <2>7, <2>8, <2>9
<1>11. ASSUME Interrupt PROVE IInv'
  <2>1. TypeOK'
    BY <1>11, KillsOnly DEF Interrupt
  <2>2. DownIsEmpty'
    BY <1>11, KillsOnly DEF Interrupt
  <2>3. TakenIsIdle'
    BY <1>11, KillsOnly DEF Interrupt
  <2>4. ThreadsFit'
    BY <1>11, KillsOnly DEF Interrupt
  <2>5. SlotsDistinct'
    BY <1>11, KillsOnly DEF Interrupt
  <2>6. TasksInFlight'
    BY <1>11, KillsOnly DEF Interrupt
  <2>7. OneRunPerKey'
    BY <1>11, KillsOnly DEF Interrupt
  <2>8. ProcsAreEngaged'
    BY <1>11, KillsOnly DEF Interrupt
  <2>9. RowOwned'
    BY <1>11, KillsOnly DEF Interrupt
  <2> QED
    BY <2>1, <2>2, <2>3, <2>4, <2>5, <2>6, <2>7, <2>8, <2>9
<1>12. ASSUME StopReturns PROVE IInv'
  <2>1. TypeOK'
    BY <1>12 DEF StopReturns
  <2>2. DownIsEmpty'
    BY <1>12 DEF StopReturns
  <2>3. TakenIsIdle'
    BY <1>12 DEF StopReturns
  <2>4. ThreadsFit'
    BY <1>12 DEF StopReturns
  <2>5. SlotsDistinct'
    BY <1>12 DEF StopReturns
  <2>6. TasksInFlight'
    BY <1>12 DEF StopReturns
  <2>7. OneRunPerKey'
    BY <1>12 DEF StopReturns
  <2>8. ProcsAreEngaged'
    BY <1>12 DEF StopReturns
  <2>9. RowOwned'
    BY <1>12 DEF StopReturns
  <2> QED
    BY <2>1, <2>2, <2>3, <2>4, <2>5, <2>6, <2>7, <2>8, <2>9
<1>13. ASSUME Exit PROVE IInv'
  <2>1. TypeOK'
    BY <1>13 DEF Exit, Forget
  <2>2. DownIsEmpty'
    BY <1>13 DEF Exit, Forget
  <2>3. TakenIsIdle'
    BY <1>13 DEF Exit, Forget
  <2>4. ThreadsFit'
    BY <1>13 DEF Exit, Forget
  <2>5. SlotsDistinct'
    BY <1>13 DEF Exit, Forget
  <2>6. TasksInFlight'
    BY <1>13 DEF Exit, Forget
  <2>7. OneRunPerKey'
    BY <1>13 DEF Exit, Forget
  <2>8. ProcsAreEngaged'
    BY <1>13 DEF Exit, Forget
  <2>9. RowOwned'
    BY <1>13 DEF Exit, Forget
  <2> QED
    BY <2>1, <2>2, <2>3, <2>4, <2>5, <2>6, <2>7, <2>8, <2>9
<1>14. ASSUME NEW e \in Event, Webhook(e) PROVE IInv'
  <2>1. TypeOK'
    BY <1>14 DEF Webhook
  <2>2. DownIsEmpty'
    BY <1>14 DEF Webhook
  <2>3. TakenIsIdle'
    BY <1>14 DEF Webhook
  <2>4. ThreadsFit'
    BY <1>14 DEF Webhook
  <2>5. SlotsDistinct'
    BY <1>14 DEF Webhook
  <2>6. TasksInFlight'
    BY <1>14 DEF Webhook
  <2>7. OneRunPerKey'
    BY <1>14 DEF Webhook
  <2>8. ProcsAreEngaged'
    BY <1>14 DEF Webhook
  <2>9. RowOwned'
    BY <1>14 DEF Webhook
  <2> QED
    BY <2>1, <2>2, <2>3, <2>4, <2>5, <2>6, <2>7, <2>8, <2>9
<1>15. ASSUME NEW e \in Event, Replay(e) PROVE IInv'
  <2>1. TypeOK'
    BY <1>15, Counts DEF Replay
  <2>2. DownIsEmpty'
    BY <1>15, Counts DEF Replay
  <2>3. TakenIsIdle'
    BY <1>15, Counts DEF Replay
  <2>4. ThreadsFit'
    BY <1>15, Counts DEF Replay
  <2>5. SlotsDistinct'
    BY <1>15, Counts DEF Replay
  <2>6. TasksInFlight'
    BY <1>15, Counts DEF Replay
  <2>7. OneRunPerKey'
    BY <1>15, Counts DEF Replay
  <2>8. ProcsAreEngaged'
    BY <1>15, Counts DEF Replay
  <2>9. RowOwned'
    BY <1>15, Counts DEF Replay
  <2> QED
    BY <2>1, <2>2, <2>3, <2>4, <2>5, <2>6, <2>7, <2>8, <2>9
<1>16. ASSUME NEW e \in Event, CancelEvent(e) PROVE IInv'
  <2>1. TypeOK'
    BY <1>16, Counts, KillsOnly DEF CancelEvent
  <2>2. DownIsEmpty'
    BY <1>16, Counts, KillsOnly DEF CancelEvent
  <2>3. TakenIsIdle'
    BY <1>16, Counts, KillsOnly DEF CancelEvent
  <2>4. ThreadsFit'
    BY <1>16, Counts, KillsOnly DEF CancelEvent
  <2>5. SlotsDistinct'
    BY <1>16, Counts, KillsOnly DEF CancelEvent
  <2>6. TasksInFlight'
    BY <1>16, Counts, KillsOnly DEF CancelEvent
  <2>7. OneRunPerKey'
    BY <1>16, Counts, KillsOnly DEF CancelEvent
  <2>8. ProcsAreEngaged'
    BY <1>16, Counts, KillsOnly DEF CancelEvent
  <2>9. RowOwned'
    BY <1>16, Counts, KillsOnly DEF CancelEvent
  <2> QED
    BY <2>1, <2>2, <2>3, <2>4, <2>5, <2>6, <2>7, <2>8, <2>9
<1>17. ASSUME NEW e \in Event, Acquire(e) PROVE IInv'
  <2>1. TypeOK'
    BY <1>17 DEF Acquire, Free
  <2>2. DownIsEmpty'
    BY <1>17 DEF Acquire, Free
  <2>3. TakenIsIdle'
    BY <1>17 DEF Acquire, Free
  <2>4. ThreadsFit'
    BY <1>17 DEF Acquire, Free
  <2>5. SlotsDistinct'
    BY <1>17 DEF Acquire, Free
  <2>6. TasksInFlight'
    BY <1>17 DEF Acquire, Free
  <2>7. OneRunPerKey'
    BY <1>17 DEF Acquire, Free
  <2>8. ProcsAreEngaged'
    BY <1>17 DEF Acquire, Free
  <2>9. RowOwned'
    BY <1>17 DEF Acquire, Free
  <2> QED
    BY <2>1, <2>2, <2>3, <2>4, <2>5, <2>6, <2>7, <2>8, <2>9
<1>18. ASSUME NEW e \in Event, ToThread(e) PROVE IInv'
  <2>1. TypeOK'
    BY <1>18 DEF ToThread
  <2>2. DownIsEmpty'
    BY <1>18 DEF ToThread
  <2>3. TakenIsIdle'
    BY <1>18 DEF ToThread
  <2>4. ThreadsFit'
    BY <1>18 DEF ToThread
  <2>5. SlotsDistinct'
    BY <1>18 DEF ToThread
  <2>6. TasksInFlight'
    BY <1>18 DEF ToThread
  <2>7. OneRunPerKey'
    BY <1>18 DEF ToThread
  <2>8. ProcsAreEngaged'
    BY <1>18 DEF ToThread
  <2>9. RowOwned'
    BY <1>18 DEF ToThread
  <2> QED
    BY <2>1, <2>2, <2>3, <2>4, <2>5, <2>6, <2>7, <2>8, <2>9
<1>19. ASSUME NEW e \in Event, Conclude(e) PROVE IInv'
  <2>1. TypeOK'
    BY <1>19 DEF Conclude, Mark
  <2>2. DownIsEmpty'
    BY <1>19 DEF Conclude, Mark
  <2>3. TakenIsIdle'
    BY <1>19 DEF Conclude, Mark
  <2>4. ThreadsFit'
    BY <1>19 DEF Conclude, Mark
  <2>5. SlotsDistinct'
    BY <1>19 DEF Conclude, Mark
  <2>6. TasksInFlight'
    BY <1>19 DEF Conclude, Mark
  <2>7. OneRunPerKey'
    BY <1>19 DEF Conclude, Mark
  <2>8. ProcsAreEngaged'
    BY <1>19 DEF Conclude, Mark
  <2>9. RowOwned'
    BY <1>19 DEF Conclude, Mark
  <2> QED
    BY <2>1, <2>2, <2>3, <2>4, <2>5, <2>6, <2>7, <2>8, <2>9
<1>20. ASSUME NEW e \in Event, Finish(e) PROVE IInv'
  <2>1. TypeOK'
    BY <1>20, ReapSees DEF Finish
  <2>2. DownIsEmpty'
    BY <1>20, ReapSees DEF Finish
  <2>3. TakenIsIdle'
    BY <1>20, ReapSees DEF Finish
  <2>4. ThreadsFit'
    BY <1>20, FinishFits
  <2>5. SlotsDistinct'
    BY <1>20, ReapSees DEF Finish
  <2>6. TasksInFlight'
    BY <1>20, ReapSees DEF Finish
  <2>7. OneRunPerKey'
    BY <1>20, ReapSees DEF Finish
  <2>8. ProcsAreEngaged'
    BY <1>20, ReapSees DEF Finish
  <2>9. RowOwned'
    BY <1>20, ReapSees DEF Finish
  <2> QED
    BY <2>1, <2>2, <2>3, <2>4, <2>5, <2>6, <2>7, <2>8, <2>9
<1>21. ASSUME NEW e \in Event, Spawn(e) PROVE IInv'
  <2>1. TypeOK'
    BY <1>21 DEF Spawn
  <2>2. DownIsEmpty'
    BY <1>21 DEF Spawn
  <2>3. TakenIsIdle'
    BY <1>21 DEF Spawn
  <2>4. ThreadsFit'
    BY <1>21 DEF Spawn
  <2>5. SlotsDistinct'
    BY <1>21 DEF Spawn
  <2>6. TasksInFlight'
    BY <1>21 DEF Spawn
  <2>7. OneRunPerKey'
    BY <1>21 DEF Spawn
  <2>8. ProcsAreEngaged'
    BY <1>21 DEF Spawn
  <2>9. RowOwned'
    BY <1>21 DEF Spawn
  <2> QED
    BY <2>1, <2>2, <2>3, <2>4, <2>5, <2>6, <2>7, <2>8, <2>9
<1>22. ASSUME NEW e \in Event, Arm(e) PROVE IInv'
  <2>1. TypeOK'
    BY <1>22 DEF Arm
  <2>2. DownIsEmpty'
    BY <1>22 DEF Arm
  <2>3. TakenIsIdle'
    BY <1>22 DEF Arm
  <2>4. ThreadsFit'
    BY <1>22 DEF Arm
  <2>5. SlotsDistinct'
    BY <1>22 DEF Arm
  <2>6. TasksInFlight'
    BY <1>22 DEF Arm
  <2>7. OneRunPerKey'
    BY <1>22 DEF Arm
  <2>8. ProcsAreEngaged'
    BY <1>22 DEF Arm
  <2>9. RowOwned'
    BY <1>22 DEF Arm
  <2> QED
    BY <2>1, <2>2, <2>3, <2>4, <2>5, <2>6, <2>7, <2>8, <2>9
<1>23. ASSUME NEW e \in Event, EndTurn(e) PROVE IInv'
  <2>1. TypeOK'
    BY <1>23, Counts, KillsOnly DEF EndTurn
  <2>2. DownIsEmpty'
    BY <1>23, Counts, KillsOnly DEF EndTurn
  <2>3. TakenIsIdle'
    BY <1>23, Counts, KillsOnly DEF EndTurn
  <2>4. ThreadsFit'
    BY <1>23, Counts, KillsOnly DEF EndTurn
  <2>5. SlotsDistinct'
    BY <1>23, Counts, KillsOnly DEF EndTurn
  <2>6. TasksInFlight'
    BY <1>23, Counts, KillsOnly DEF EndTurn
  <2>7. OneRunPerKey'
    BY <1>23, Counts, KillsOnly DEF EndTurn
  <2>8. ProcsAreEngaged'
    BY <1>23, Counts, KillsOnly DEF EndTurn
  <2>9. RowOwned'
    BY <1>23, Counts, KillsOnly DEF EndTurn
  <2> QED
    BY <2>1, <2>2, <2>3, <2>4, <2>5, <2>6, <2>7, <2>8, <2>9
<1>24. ASSUME NEW e \in Event, Release(e) PROVE IInv'
  <2>1. TypeOK'
    BY <1>24 DEF Release, LockFree
  <2>2. DownIsEmpty'
    BY <1>24 DEF Release, LockFree
  <2>3. TakenIsIdle'
    BY <1>24 DEF Release, LockFree
  <2>4. ThreadsFit'
    BY <1>24 DEF Release, LockFree
  <2>5. SlotsDistinct'
    BY <1>24 DEF Release, LockFree
  <2>6. TasksInFlight'
    BY <1>24 DEF Release, LockFree
  <2>7. OneRunPerKey'
    BY <1>24 DEF Release, LockFree
  <2>8. ProcsAreEngaged'
    BY <1>24 DEF Release, LockFree
  <2>9. RowOwned'
    BY <1>24 DEF Release, LockFree
  <2> QED
    BY <2>1, <2>2, <2>3, <2>4, <2>5, <2>6, <2>7, <2>8, <2>9
<1>25. ASSUME NEW e \in Event, NEW s \in Slot, Command(e, s) PROVE IInv'
  <2>1. TypeOK'
    BY <1>25 DEF Command
  <2>2. DownIsEmpty'
    BY <1>25 DEF Command
  <2>3. TakenIsIdle'
    BY <1>25 DEF Command
  <2>4. ThreadsFit'
    BY <1>25 DEF Command
  <2>5. SlotsDistinct'
    BY <1>25 DEF Command
  <2>6. TasksInFlight'
    BY <1>25 DEF Command
  <2>7. OneRunPerKey'
    BY <1>25 DEF Command
  <2>8. ProcsAreEngaged'
    BY <1>25 DEF Command
  <2>9. RowOwned'
    BY <1>25 DEF Command
  <2> QED
    BY <2>1, <2>2, <2>3, <2>4, <2>5, <2>6, <2>7, <2>8, <2>9
<1>26. ASSUME UNCHANGED vars PROVE IInv'
  BY <1>26 DEF vars
<1> QED
  BY ONLY [Next]_vars, <1>1, <1>2, <1>3, <1>4, <1>5, <1>6, <1>7, <1>8, <1>9, <1>10, <1>11, <1>12, <1>13, <1>14, <1>15, <1>16, <1>17, <1>18, <1>19, <1>20, <1>21, <1>22, <1>23, <1>24, <1>25, <1>26
  DEF Next, Dispatch, Stopping, RunEvent, Thread

(***************************************************************************)
(* The inductive invariant holds in every reachable state.                 *)
(***************************************************************************)
THEOREM Invariance == Spec => []IInv
  BY InitIInv, StepIInv, PTL DEF Spec

(***************************************************************************)
(* Type correctness of the pool.                                           *)
(***************************************************************************)
THEOREM TypeCorrect == Spec => []TypeOK
<1>1. IInv => TypeOK
  BY DEF IInv
<1> QED
  BY Invariance, <1>1, PTL

(***************************************************************************)
(* Two events of one key are never at work at once, neither with tasks nor *)
(* with worker threads that outlive them (queue.py: _claim_next_unique,    *)
(* _release, stop).                                                        *)
(***************************************************************************)
THEOREM KeysApart == Spec => []OneRunPerKey
<1>1. IInv => OneRunPerKey
  BY DEF IInv
<1> QED
  BY Invariance, <1>1, PTL

(***************************************************************************)
(* While the service is up, every process that no reap has seen runs under *)
(* the uid of the slot its event holds, and no other event holds that      *)
(* slot: a slot changes hands only when a reap has had every process of    *)
(* the last task before it (queue.py: _run_event, start).                  *)
(***************************************************************************)
THEOREM Isolation == Spec => []SlotIsolation
<1>1. IInv => SlotIsolation
  <2> SUFFICES ASSUME IInv, pool = "up", NEW p \in procs
               PROVE  Holds(p[1]) /\ slot[p[1]] = p[2]
    BY DEF IInv, SlotIsolation, SlotsDistinct
  <2>1. p[1] \in Event
    BY DEF IInv, TypeOK
  <2>2. /\ thread[p[1]] # "none" \/ Holds(p[1])
        /\ slot[p[1]] = p[2]
    BY DEF IInv, ProcsAreEngaged
  <2> QED
    BY <2>1, <2>2, SlotAssumption DEF IInv, ThreadsFit, Holds
<1> QED
  BY Invariance, <1>1, PTL

(***************************************************************************)
(* No row is stranded as running, and no task works on a row that another  *)
(* may claim, while the service is up and dispatches.                      *)
(***************************************************************************)
THEOREM RowsOwned == Spec => []RowOwned
<1>1. IInv => RowOwned
  BY DEF IInv
<1> QED
  BY Invariance, <1>1, PTL

(***************************************************************************)
(* A row is marked truly: what was cancelled is failed, and what stop()    *)
(* interrupted is not failed for that.                                     *)
(***************************************************************************)
RowStep ==
    \A e \in Event :
        row[e] = "running" /\ row'[e] \in {"done", "failed"} =>
            /\ e \in cancelled => row'[e] = "failed"
            /\ e \in shut /\ row'[e] = "failed" => e \in cancelled

(* Only the end of its own run ends a running row. *)
LEMMA StepRow == TypeOK /\ [Next]_vars => RowStep
<1> SUFFICES ASSUME TypeOK, [Next]_vars, NEW e \in Event,
                    row[e] = "running", row'[e] \in {"done", "failed"}
             PROVE  /\ e \in cancelled => row'[e] = "failed"
                    /\ e \in shut /\ row'[e] = "failed" => e \in cancelled
  BY DEF RowStep
<1> USE DEF TypeOK
<1>1. Conclude(e)
  <2>1. row' # row
    OBVIOUS
  <2>2. \A f \in Event : Webhook(f) \/ Replay(f) => row'[e] \notin {"done", "failed"}
    BY DEF Webhook, Replay
  <2>3. Start \/ Claim \/ PutBack \/ StopBegins => row'[e] \notin {"done", "failed"}
    BY DEF Start, Claim, PutBack, StopBegins
  <2>4. \A f \in Event : Conclude(f) => e = f
    BY DEF Conclude
  <2>5. CASE UNCHANGED vars
    BY <2>1, <2>5 DEF vars, rowVars
  <2>6. ASSUME Crash \/ GoWait \/ Judge \/ PollAgain \/ DispatcherFails \/ DrainEnds \/ Interrupt
                 \/ StopReturns \/ Exit
        PROVE  FALSE
    BY <2>1, <2>6 DEF Crash, GoWait, Judge, PollAgain, DispatcherFails, DrainEnds, Interrupt,
                     StopReturns, Exit, rowVars
  <2>7. ASSUME NEW f \in Event, \/ CancelEvent(f) \/ Acquire(f) \/ ToThread(f) \/ Finish(f)
                                \/ Spawn(f) \/ Arm(f) \/ EndTurn(f) \/ Release(f)
                                \/ \E s \in Slot : Command(f, s)
        PROVE  FALSE
    BY <2>1, <2>7 DEF CancelEvent, Acquire, ToThread, Finish, Spawn, Arm, EndTurn, Release,
                     Command, rowVars
  <2> QED
    BY <2>2, <2>3, <2>4, <2>5, <2>6, <2>7 DEF Next, Dispatch, Stopping, RunEvent, Thread
<1> QED
  BY <1>1 DEF Conclude, Mark

(***************************************************************************)
(* MarkedByItsRun: a row that ends as done or failed is failed if its      *)
(* event was cancelled by then, and not because stop() interrupted it      *)
(* (queue.py: _dispatch_and_mark, _run_event).                             *)
(***************************************************************************)
THEOREM MarksAreOwn == Spec => MarkedByItsRun
<1>1. TypeOK /\ [Next]_vars => [RowStep]_vars
  BY StepRow
<1>2. Spec => [][RowStep]_vars
  BY TypeCorrect, <1>1, PTL DEF Spec
<1> QED
  BY <1>2 DEF RowStep, MarkedByItsRun
=============================================================================
