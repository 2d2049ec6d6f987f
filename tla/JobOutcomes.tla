---------------------------- MODULE JobOutcomes ----------------------------
(***************************************************************************)
(* The job manager of a top-level session together with the yield queue of *)
(* that session (sdk.ts): onJobComplete posts an outcome to the queue, and *)
(* the queue asks the manager which of its entries are stale.  So this is  *)
(* the way of an outcome from the end of its job to the agent.             *)
(*                                                                         *)
(* The two are objects of one process.  A step of the manager leaves the   *)
(* session alone and the other way round, but for the step that posts.     *)
(***************************************************************************)
EXTENDS JobDeliveries

VARIABLES
    entries,           \* of the yield queue, as in module YieldQueue
    idleFlushPending,
    scheduled,
    run,
    shown,
    closing            \* how far dispose of the session has come

sessionVars == <<entries, idleFlushPending, scheduled, run, shown, closing>>
outcomeVars == <<managerVars, sessionVars>>

Posted == {j \in Job : posted[j] > 0}

HeldBack == {j \in Job : Quiet(j)}

Session ==
    INSTANCE YieldQueue WITH
        Outcome <- Job, posted <- Posted, stale <- HeldBack, disposal <- closing

OutcomeInit ==
    /\ DeliveryInit
    /\ Session!Init

-----------------------------------------------------------------------------

\* onJobComplete, in its last turn, unless it has found the delivery suppressed.
Post(j) ==
    /\ Succeed(j)
    /\ posted' # posted
    /\ Session!Enqueue(j)

\* Everything else the manager does.  The session disposes of its manager when
\* it has cancelled its own tasks.
ManagerStep ==
    /\ DeliveryNext
    /\ posted' = posted
    /\ UNCHANGED sessionVars
    /\ Disposed' => Disposed \/ closing = "cancelled"

SessionStep ==
    /\ UNCHANGED managerVars
    /\ \/ Session!Prompt \/ Session!RunStep \/ Session!IdleFlush \/ Session!Abort
       \/ Session!DisposeClear \/ Session!DisposeCancel

OutcomeNext ==
    /\ disposal.at # "spinning"
    /\ ManagerStep \/ SessionStep \/ \E j \in Job : Post(j)

OutcomeSpec == OutcomeInit /\ [][OutcomeNext]_outcomeVars

\* Runs of the agent end, and timers of the session fire; see YieldQueue.
OutcomeFairSpec ==
    /\ OutcomeSpec
    /\ WF_outcomeVars(Turn(UNCHANGED managerVars /\ Session!RunStep))
    /\ WF_outcomeVars(Turn(UNCHANGED managerVars /\ Session!IdleFlush))

-----------------------------------------------------------------------------

(***************************************************************************)
(* From the end of a job to its agent, an outcome is told once: a message  *)
(* with it follows no other message with it, and no tool result that has   *)
(* returned it, as long as the manager has the job in its table.  Retries, *)
(* the drain, the two checks of onJobComplete and the check at the flush   *)
(* must all agree on that.                                                 *)
(***************************************************************************)
LearnsOnce ==
    [][\A j \in Job :
           shown'[j] # shown[j] =>
               /\ shown[j] = 0
               /\ j \in told => jobs[j] = "evicted" \/ disposal.at = "over"]_outcomeVars

(***************************************************************************)
(* Until the session is disposed of, the outcome of a finished job is      *)
(* somewhere: with the manager, in the yield queue, or with the agent, from*)
(* a message or from a tool; or it was given up.                           *)
(***************************************************************************)
NothingLost ==
    closing = "no" =>
        \A j \in Finished :
            \/ j \in ToSet(deliveries) \cup calls \cup dead \cup entries \cup told
            \/ shown[j] > 0
            \/ \E t \in Tool : j \in awaited[t].all

(***************************************************************************)
(* The manager is what the yield queue takes it for: it posts an outcome   *)
(* at most once, and none that it holds back for a tool.                   *)
(***************************************************************************)
KeepsToQueue == Session!Spec

(***************************************************************************)
(* While the agent keeps coming to a yield, no outcome stays in the queue, *)
(* whatever became of the flag and of the scheduled flushes.               *)
(***************************************************************************)
QueueServed == Session!YieldsServe

(***************************************************************************)
(* isStale is there to "Drop entries already delivered through another     *)
(* path", "per-entry at flush time": a message never repeats what a tool   *)
(* has returned.                                                           *)
(***************************************************************************)
NeverRepeated == [][\A j \in told : shown'[j] = shown[j]]_outcomeVars
=============================================================================
