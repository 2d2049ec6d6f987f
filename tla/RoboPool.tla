------------------------------ MODULE RoboPool ------------------------------
(***************************************************************************)
(* The worker pool of the robogjc service (python/robogjc): webhook events *)
(* in a durable table, a dispatcher that claims them, one task per event   *)
(* that takes a slot (a uid), prepares, and has a worker thread spawn an   *)
(* agent process and drive its turn; the commands that host tools run      *)
(* under the same uid; cancellation by an operator, graceful shutdown, and *)
(* recovery when the service starts again.                                 *)
(*                                                                         *)
(* The event loop is single-threaded and an action of a task or of the     *)
(* dispatcher is one turn of it, but for the end of a task: its row is     *)
(* marked, and then its slot reaped, in one turn that takes two actions,   *)
(* for the worker threads, other processes and the death of the service    *)
(* may come between.  The worker threads run beside the loop, and their    *)
(* steps are actions of their own.  A process that ends by itself is left  *)
(* out: nothing looks at it.  Events are numbered in the order they were   *)
(* received, which is the order they are claimed in.                       *)
(***************************************************************************)
EXTENDS Naturals, FiniteSets

CONSTANTS
    Events,         \* how many webhook events arrive
    Issue,          \* the key each event is kept apart by
    Slot,           \* the uids that agents run as
    NoSlot,         \* a task without a slot
    MaxIncidents    \* bound: how many replays, cancellations, crashes, stops,
                    \* database errors, reaps that miss a process and tool calls
                    \* that outlive their turn there are in all

Event == 1 .. Events

ASSUME EventsAssumption == Events \in Nat \ {0}
ASSUME IssueAssumption  == DOMAIN Issue = Event
ASSUME SlotAssumption   == NoSlot \notin Slot
ASSUME BoundAssumption  == MaxIncidents \in Nat

VARIABLES
    row,        \* the state column of each event, "none" before it arrives
    pool,       \* how far the service is up, or down
    disp,       \* where the dispatch loop is
    taken,      \* the event the dispatcher has just claimed, 0 for none
    wakeup,     \* the asyncio event that ends the dispatcher's wait
    inflight,   \* the keys an event is in flight for
    task,       \* how far the task of each event is
    slot,       \* the slot it was given, kept while its thread lives
    thread,     \* how far the worker thread of each event is
    procs,      \* the processes no reap has seen: whose event, under which uid
    strays,     \* those that a reap has missed, or that came after it
    tools,      \* the tool calls that outlive their turn: whose, under which uid
    hooks,      \* the events whose cancel hook is installed
    cancelled,  \* the events whose cancellation was requested
    shut,       \* the events that stop() interrupted
    victims,    \* the tasks that stop() has yet to interrupt
    incidents   \* how many of them there were

rowVars    == <<row, incidents>>
dispVars   == <<disp, taken, wakeup, inflight>>
taskVars   == <<task, slot>>
procVars   == <<procs, strays, tools>>
threadVars == <<thread, procVars>>
cancelVars == <<hooks, cancelled, shut>>
poolVars   == <<pool, victims>>
vars == <<rowVars, dispVars, taskVars, threadVars, cancelVars, poolVars>>

TypeOK ==
    /\ row \in [Event -> {"none", "queued", "running", "done", "failed"}]
    /\ pool \in {"down", "up", "drain", "interrupt", "stopped"}
    /\ disp \in {"off", "claim", "got", "putback", "wait", "dead"}
    /\ taken \in Event \cup {0} /\ wakeup \in BOOLEAN
    /\ inflight \subseteq {Issue[e] : e \in Event}
    /\ task \in [Event -> {"none", "slot", "prep", "thread",
                           "unwinding", "finally", "releasing"}]
    /\ slot \in [Event -> Slot \cup {NoSlot}]
    /\ thread \in [Event -> {"none", "spawn", "arming", "turn", "ok", "error"}]
    /\ procs \subseteq Event \X Slot /\ strays \subseteq Event \X Slot
    /\ tools \subseteq Event \X Slot
    /\ hooks \subseteq Event /\ cancelled \subseteq Event
    /\ shut \subseteq Event /\ victims \subseteq Event
    /\ incidents \in Nat

Queued == {e \in Event : row[e] = "queued"}
First(S) == CHOOSE e \in S : \A f \in S : e <= f

Holds(e) == task[e] \in {"prep", "thread", "unwinding", "finally"} /\ slot[e] # NoSlot
Free     == Slot \ {slot[e] : e \in {f \in Event : Holds(f)}}

Tasks == {e \in Event : task[e] # "none"}

\* _inflight_lock is held from a claim to the return of _claim_next_unique.
LockFree == disp \in {"wait", "dead", "off"}

\* No task is in its finally clause: the event loop takes its next turn.
LoopTurn == \A e \in Event : task[e] # "finally"

\* One more of the things the bound counts.
Incident == incidents < MaxIncidents /\ incidents' = incidents + 1

\* _reap_slot: SIGKILL to the processes that one scan of /proc finds under these
\* uids.  Some may be left: the scan fails, a kill fails, or one of them has
\* forked behind the scan.
Reap(U) ==
    \E left \in SUBSET {p \in procs \cup strays : p[2] \in U} :
        /\ procs' = {p \in procs : p[2] \notin U}
        /\ strays' = {p \in strays : p[2] \notin U} \cup left
        /\ left # {} => Incident
        /\ left = {} => UNCHANGED incidents

\* RpcClient.stop(): the agents of these events are killed; what an agent or a
\* tool call has spawned may stay behind.
KillAgents(E) ==
    \E stray \in SUBSET {p \in procs : p[1] \in E} :
        procs' = {p \in procs : p[1] \notin E} \cup stray

\* What the memory of a process that has just started holds.
Forget ==
    /\ taken' = 0 /\ wakeup' = FALSE /\ inflight' = {}
    /\ task' = [e \in Event |-> "none"] /\ slot' = [e \in Event |-> NoSlot]
    /\ thread' = [e \in Event |-> "none"]
    /\ hooks' = {} /\ cancelled' = {} /\ shut' = {} /\ victims' = {}
    /\ tools' = {}

Init ==
    /\ row = [e \in Event |-> "none"]
    /\ pool = "down" /\ disp = "off"
    /\ taken = 0 /\ wakeup = FALSE /\ inflight = {}
    /\ task = [e \in Event |-> "none"] /\ slot = [e \in Event |-> NoSlot]
    /\ thread = [e \in Event |-> "none"]
    /\ procs = {} /\ strays = {} /\ tools = {}
    /\ hooks = {} /\ cancelled = {} /\ shut = {} /\ victims = {}
    /\ incidents = 0

-----------------------------------------------------------------------------
(* The service and its front ends.                                         *)

\* Mutant: the service starts without resetting the rows left running.
StartWithoutReset ==
    /\ pool = "down"
    /\ Reap(Slot)
    /\ pool' = "up" /\ disp' = "claim"
    /\ UNCHANGED <<row, taken, wakeup, inflight, taskVars, thread, tools,
                   cancelVars, victims>>

\* start(): every slot is reaped, then the rows left running are queued again.
Start ==
    /\ pool = "down"
    /\ Reap(Slot)
    /\ row' = [e \in Event |-> IF row[e] = "running" THEN "queued" ELSE row[e]]
    /\ pool' = "up" /\ disp' = "claim"
    /\ UNCHANGED <<taken, wakeup, inflight, taskVars, thread, tools, cancelVars,
                   victims>>

\* A webhook is recorded and the dispatcher is woken.
Webhook(e) ==
    /\ pool = "up" /\ LoopTurn /\ row[e] = "none"
    /\ \A f \in Event : f < e => row[f] # "none"
    /\ row' = [row EXCEPT ![e] = "queued"]
    /\ wakeup' = TRUE
    /\ UNCHANGED <<incidents, disp, taken, inflight, taskVars, threadVars, cancelVars,
                   poolVars>>

\* An event that is over is queued again: over HTTP, which wakes the
\* dispatcher, or from the command line, which only writes the table.
Replay(e) ==
    /\ row[e] \in {"done", "failed"}
    /\ row' = [row EXCEPT ![e] = "queued"]
    /\ \/ pool = "up" /\ LoopTurn /\ wakeup' = TRUE
       \/ UNCHANGED wakeup
    /\ Incident
    /\ UNCHANGED <<disp, taken, inflight, taskVars, threadVars, cancelVars,
                   poolVars>>

\* cancel_event: the request is noted, and the hook, if it is installed, is
\* taken and kills the agent.
CancelEvent(e) ==
    /\ pool = "up" /\ LoopTurn
    /\ row[e] # "none"
    /\ cancelled' = cancelled \cup {e}
    /\ hooks' = hooks \ {e}
    /\ KillAgents({e} \cap hooks)
    /\ Incident
    /\ UNCHANGED <<row, dispVars, taskVars, thread, strays, tools, shut, poolVars>>

\* The process of the service dies, and its threads with it; its agents, and the
\* commands of its tools, may outlive it.
Crash ==
    /\ pool # "down"
    /\ pool' = "down" /\ disp' = "off"
    /\ Incident
    /\ Forget
    /\ UNCHANGED <<row, procs, strays>>

-----------------------------------------------------------------------------
(* The dispatch loop.                                                      *)

\* Mutant: a claimed event is not held back by the one in flight.
JudgeAnyway ==
    /\ disp = "got" /\ taken # 0 /\ LoopTurn
    /\ inflight' = inflight \cup {Issue[taken]}
    /\ task' = [task EXCEPT ![taken] = "slot"]
    /\ disp' = "claim" /\ taken' = 0
    /\ UNCHANGED <<rowVars, wakeup, slot, threadVars, cancelVars, poolVars>>

\* claim_next_event, in a thread: the oldest queued event becomes running.
Claim ==
    /\ disp = "claim"
    /\ IF Queued = {} THEN UNCHANGED <<row, taken>>
       ELSE /\ row' = [row EXCEPT ![First(Queued)] = "running"]
            /\ taken' = First(Queued)
    /\ disp' = "got"
    /\ UNCHANGED <<incidents, wakeup, inflight, taskVars, threadVars, cancelVars, poolVars>>

\* Nothing is queued: the wakeup is cleared, whenever it was set, and the
\* dispatcher waits.
GoWait ==
    /\ disp = "got" /\ taken = 0 /\ LoopTurn
    /\ disp' = "wait" /\ wakeup' = FALSE
    /\ UNCHANGED <<rowVars, taken, inflight, taskVars, threadVars, cancelVars, poolVars>>

\* An event whose key is in flight goes back; any other gets a task.
Judge ==
    /\ disp = "got" /\ taken # 0 /\ LoopTurn
    /\ IF Issue[taken] \in inflight
       THEN /\ disp' = "putback"
            /\ UNCHANGED <<inflight, task, taken>>
       ELSE /\ inflight' = inflight \cup {Issue[taken]}
            /\ task' = [task EXCEPT ![taken] = "slot"]
            /\ disp' = "claim" /\ taken' = 0
    /\ UNCHANGED <<rowVars, wakeup, slot, threadVars, cancelVars, poolVars>>

\* requeue_event(from running), in a thread; then half a second of sleep under
\* the lock, after which the dispatcher clears the wakeup and waits.
PutBack ==
    /\ disp = "putback"
    /\ row' = [row EXCEPT ![taken] = "queued"]
    /\ disp' = "wait" /\ taken' = 0 /\ wakeup' = FALSE
    /\ UNCHANGED <<incidents, inflight, taskVars, threadVars, cancelVars, poolVars>>

\* Mutant: the wait has no timeout.
WakeOnly ==
    /\ disp = "wait" /\ wakeup /\ LoopTurn
    /\ disp' = "claim"
    /\ UNCHANGED <<rowVars, taken, wakeup, inflight, taskVars, threadVars,
                   cancelVars, poolVars>>

\* The wait ends when the dispatcher is woken or after ten seconds.
PollAgain ==
    /\ disp = "wait" /\ LoopTurn
    /\ disp' = "claim"
    /\ UNCHANGED <<rowVars, taken, wakeup, inflight, taskVars, threadVars,
                   cancelVars, poolVars>>

\* A database error in the claim or in the put-back ends the loop for good.
DispatcherFails ==
    /\ disp \in {"claim", "putback"} /\ LoopTurn
    /\ disp' = "dead" /\ taken' = 0
    /\ Incident
    /\ UNCHANGED <<row, wakeup, inflight, taskVars, threadVars,
                   cancelVars, poolVars>>

-----------------------------------------------------------------------------
(* _run_event and the worker thread.                                       *)

Acquire(e) ==
    /\ task[e] = "slot" /\ LoopTurn
    /\ \E s \in Free : slot' = [slot EXCEPT ![e] = s]
    /\ task' = [task EXCEPT ![e] = "prep"]
    /\ UNCHANGED <<rowVars, dispVars, threadVars, cancelVars, poolVars>>

\* The handler has read the issue and prepared the workspace: run_task hands
\* the turn to a worker thread.
ToThread(e) ==
    /\ task[e] = "prep" /\ LoopTurn
    /\ task' = [task EXCEPT ![e] = "thread"]
    /\ thread' = [thread EXCEPT ![e] = "spawn"]
    /\ UNCHANGED <<rowVars, dispVars, slot, procVars, cancelVars, poolVars>>

\* RpcClient.__enter__ spawns the agent, or fails; then _arm_cancel looks for
\* a cancellation that came first, and fires it.
Spawn(e) ==
    /\ thread[e] = "spawn"
    /\ \/ /\ thread' = [thread EXCEPT ![e] = "error"]
          /\ UNCHANGED procs
       \/ /\ e \in cancelled
          /\ thread' = [thread EXCEPT ![e] = "turn"]
          /\ UNCHANGED procs
       \/ /\ e \notin cancelled
          /\ thread' = [thread EXCEPT ![e] = "arming"]
          /\ procs' = procs \cup {<<e, slot[e]>>}
    /\ UNCHANGED <<rowVars, dispVars, taskVars, strays, tools, cancelVars, poolVars>>

\* The second step of _arm_cancel installs the hook.
Arm(e) ==
    /\ thread[e] = "arming"
    /\ thread' = [thread EXCEPT ![e] = "turn"]
    /\ hooks' = hooks \cup {e}
    /\ UNCHANGED <<rowVars, dispVars, taskVars, procVars, cancelled, shut, poolVars>>

\* A host tool runs a command under the uid of its event: while the agent's turn
\* lasts, or in a call that outlives it, which may come when the slot has been
\* given back.  A call that has ended is one that starts nothing more.
Command(e, s) ==
    /\ \/ /\ thread[e] = "turn" /\ slot[e] = s
          /\ procs' = procs \cup {<<e, s>>} /\ UNCHANGED strays
       \/ /\ <<e, s>> \in tools
          /\ IF Holds(e) /\ slot[e] = s
             THEN procs' = procs \cup {<<e, s>>} /\ UNCHANGED strays
             ELSE strays' = strays \cup {<<e, s>>} /\ UNCHANGED procs
    /\ UNCHANGED <<rowVars, dispVars, taskVars, thread, tools, cancelVars, poolVars>>

\* The turn ends, well or with an error (its own, a killed agent, the hard
\* timeout): an agent that a tool aborted or that is killed after its last word
\* has ended well.  The hook is removed and the client stopped, which waits for
\* no tool call.
EndTurn(e) ==
    /\ thread[e] = "turn"
    /\ \E o \in {"ok", "error"} : thread' = [thread EXCEPT ![e] = o]
    /\ hooks' = hooks \ {e}
    /\ KillAgents({e})
    /\ \/ UNCHANGED <<tools, incidents>>
       \/ tools' = tools \cup {<<e, slot[e]>>} /\ Incident
    /\ UNCHANGED <<row, dispVars, taskVars, strays, cancelled, shut, poolVars>>

\* Mutant: the result is marked done without a look at the cancellations.
MarkDoneAnyway(e, o) ==
    IF o = "ok" THEN "done" ELSE IF e \in shut THEN row[e] ELSE "failed"

\* _dispatch_and_mark after a result, the except clause after an error.
Mark(e, o) ==
    IF o = "ok"
    THEN IF e \in cancelled THEN "failed" ELSE "done"
    ELSE IF e \in shut THEN row[e] ELSE "failed"

\* The handler is over and the row marked: without an agent (a closed issue, an
\* event nobody handles, a failed preparation), or with the thread's outcome.
Conclude(e) ==
    /\ LoopTurn
    /\ \E o \in {"ok", "error"} :
          /\ \/ task[e] = "prep"
             \/ task[e] = "thread" /\ thread[e] = o
          /\ row' = [row EXCEPT ![e] = Mark(e, o)]
    /\ task' = [task EXCEPT ![e] = "finally"]
    /\ thread' = [thread EXCEPT ![e] = "none"]
    /\ UNCHANGED <<incidents, dispVars, slot, procVars, cancelVars, poolVars>>

\* Mutant: the slot is given back without a look at what still runs in it.
FinishUnreaped(e) ==
    /\ \/ task[e] = "finally"
       \/ task[e] = "unwinding" /\ LoopTurn
    /\ hooks' = hooks \ {e} /\ cancelled' = cancelled \ {e} /\ shut' = shut \ {e}
    /\ slot' = [slot EXCEPT ![e] = IF thread[e] = "none" THEN NoSlot ELSE @]
    /\ task' = [task EXCEPT ![e] = "releasing"]
    /\ UNCHANGED <<rowVars, dispVars, threadVars, poolVars>>

\* The finally clause of _run_event, up to its await: in the turn that marked the
\* row, or in the one that a cancelled task is given.  A worker thread that
\* outlives its task goes on under the uid it was given.
Finish(e) ==
    /\ \/ task[e] = "finally"
       \/ task[e] = "unwinding" /\ LoopTurn
    /\ Reap({slot[e]})
    /\ hooks' = hooks \ {e} /\ cancelled' = cancelled \ {e} /\ shut' = shut \ {e}
    /\ slot' = [slot EXCEPT ![e] = IF thread[e] = "none" THEN NoSlot ELSE @]
    /\ task' = [task EXCEPT ![e] = "releasing"]
    /\ UNCHANGED <<row, dispVars, thread, tools, poolVars>>

\* _release: under the lock of the dispatcher.
Release(e) ==
    /\ task[e] = "releasing" /\ LockFree /\ LoopTurn
    /\ inflight' = inflight \ {Issue[e]}
    /\ task' = [task EXCEPT ![e] = "none"]
    /\ UNCHANGED <<rowVars, disp, taken, wakeup, slot, threadVars, cancelVars, poolVars>>

-----------------------------------------------------------------------------
(* stop().                                                                 *)

\* The dispatcher is cancelled wherever it waits; a claim or a put-back that
\* a thread has begun may still be carried out.
StopBegins ==
    /\ pool = "up" /\ LoopTurn
    /\ pool' = "drain" /\ disp' = "off" /\ taken' = 0 /\ wakeup' = TRUE
    /\ row' = row \/ (disp = "claim" /\ Queued # {} /\
                        row' = [row EXCEPT ![First(Queued)] = "running"])
                  \/ (disp = "putback" /\ row' = [row EXCEPT ![taken] = "queued"])
    /\ Incident
    /\ UNCHANGED <<inflight, taskVars, threadVars, cancelVars, victims>>

\* All tasks have ended, or the drain timeout has passed.
DrainEnds ==
    /\ pool = "drain" /\ LoopTurn
    /\ pool' = IF Tasks = {} THEN "stopped" ELSE "interrupt"
    /\ victims' = Tasks
    /\ UNCHANGED <<rowVars, dispVars, taskVars, threadVars, cancelVars>>

\* Tasks without a hook are cancelled, until one with a hook makes stop() wait for
\* the hook to kill its agent.  A cancelled task is given a turn to run its finally
\* clause, or ends if it was there; the worker thread it waited for goes on.
Interrupt ==
    /\ pool = "interrupt" /\ victims # {} /\ LoopTurn
    /\ \E C \in SUBSET (victims \ hooks), K \in SUBSET (victims \cap hooks) :
          /\ Cardinality(K) <= 1
          /\ K = {} => C = victims
          /\ victims' = victims \ (C \cup K)
          /\ shut' = shut \cup ((C \cup K) \cap Tasks)
          /\ hooks' = hooks \ (K \cap Tasks)
          /\ KillAgents(K \cap Tasks)
          /\ task' = [e \in Event |->
                         IF e \in C /\ task[e] \in {"slot", "prep", "thread"} THEN "unwinding"
                         ELSE IF e \in C /\ task[e] = "releasing" THEN "none"
                         ELSE task[e]]
    /\ UNCHANGED <<rowVars, dispVars, slot, thread, strays, tools, cancelled, pool>>

\* The kill timeout has passed, or everything has settled.
StopReturns ==
    /\ pool = "interrupt" /\ victims = {} /\ LoopTurn
    /\ pool' = "stopped"
    /\ UNCHANGED <<rowVars, dispVars, taskVars, threadVars, cancelVars, victims>>

\* The process ends after stop().
Exit ==
    /\ pool = "stopped" /\ LoopTurn
    /\ pool' = "down" /\ disp' = "off"
    /\ Forget
    /\ UNCHANGED <<rowVars, procs, strays>>

-----------------------------------------------------------------------------

Dispatch == Claim \/ GoWait \/ Judge \/ PutBack \/ PollAgain
Stopping == StopBegins \/ DrainEnds \/ Interrupt \/ StopReturns \/ Exit
RunEvent(e) == Acquire(e) \/ ToThread(e) \/ Conclude(e) \/ Finish(e)
Thread(e)   == Spawn(e) \/ Arm(e) \/ EndTurn(e)

Next ==
    \/ Start \/ Crash \/ Dispatch \/ DispatcherFails \/ Stopping
    \/ \E e \in Event :
          \/ Webhook(e) \/ Replay(e) \/ CancelEvent(e)
          \/ RunEvent(e) \/ Thread(e) \/ Release(e)
          \/ \E s \in Slot : Command(e, s)

Spec == Init /\ [][Next]_vars

\* The service is started again when it has ended; the dispatcher, stop() and
\* the work of the events go on; a turn ends at the latest at its hard timeout;
\* asyncio's lock serves its waiters in turn.
Fairness ==
    /\ WF_vars(Start) /\ WF_vars(Dispatch)
    /\ WF_vars(DrainEnds \/ Interrupt \/ StopReturns \/ Exit)
    /\ WF_vars(\E e \in Event : RunEvent(e) \/ Thread(e))
    /\ SF_vars(\E e \in Event : Release(e))

FairSpec == Spec /\ Fairness

-----------------------------------------------------------------------------
(* Properties.                                                             *)

\* At most one event of a key is at work, with a task or with a worker thread that
\* outlives its task: through put-backs, replays, stops and new lives.  It is the
\* key that is kept apart: two keys may still share a workspace.
Engaged(e) == task[e] # "none" \/ thread[e] # "none"

OneRunPerKey ==
    \A e, f \in Event : Engaged(e) /\ Engaged(f) /\ Issue[e] = Issue[f] => e = f

\* While the service is up, a process that no reap has seen runs under the uid of
\* the slot that its event holds, and no slot is held twice: between two tasks of a
\* slot every process of the first has been there for a reap to kill, also when the
\* life before this one has left it.  What the reap misses, and what a tool call
\* starts after it, is set apart in strays.
SlotIsolation ==
    pool = "up" =>
        /\ \A p \in procs : Holds(p[1]) /\ slot[p[1]] = p[2]
        /\ \A e, f \in Event : Holds(e) /\ Holds(f) /\ slot[e] = slot[f] => e = f

\* While the service is up and dispatches, a row says running exactly when the
\* dispatcher has just claimed it or a task is at work on it: no row is stranded
\* (a replay refuses it), and no task works on a row that another may claim.
RowOwned ==
    pool = "up" /\ disp # "dead" =>
        \A e \in Event : row[e] = "running" <=>
                            (taken = e \/ task[e] \in {"slot", "prep", "thread"})

\* A row is marked truly: a cancelled event is failed whatever its agent has
\* answered, and one that stop() interrupted is not failed for that.
MarkedByItsRun ==
    [][\A e \in Event :
          row[e] = "running" /\ row'[e] \in {"done", "failed"} =>
             /\ e \in cancelled => row'[e] = "failed"
             /\ e \in shut /\ row'[e] = "failed" => e \in cancelled]_vars

\* What is queued ends done or failed, and all of it, also when the wakeup was
\* lost, when the service has crashed or was stopped; unless a database error
\* has ended the dispatch loop.
Over == \A e \in Event : row[e] \in {"none", "done", "failed"}

EventsServed == Queued # {} ~> Over \/ disp = "dead"

\* queue.py:24: the dispatcher is long-lived and drains the queued events.
DispatcherLives == Queued # {} ~> Over

\* queue.py:236: a cancellation that comes before the hook is armed fires it
\* at once, "so we don't lose the signal".
CancelHeard == cancelled \cap hooks = {}

\* queue.py:134: a worker without a hook "cannot proceed to spawn a fresh
\* subprocess after stop() returns".
StopIsFinal == [][pool = "stopped" => procs' \cup strays' \subseteq procs \cup strays]_vars

\* server.py:638: the row of a cancelled event lands in failed.
CancelSurvives ==
    \A e \in Event : e \in cancelled /\ task[e] = "thread" ~> row[e] = "failed"

\* sandbox.py:373: a previous task's straggler process "must not survive long
\* enough to observe or interfere with the next task assigned to that UID".
NoStraggler ==
    pool = "up" =>
        \A p \in strays, e \in Event : Holds(e) /\ slot[e] = p[2] => p[1] = e

=============================================================================
