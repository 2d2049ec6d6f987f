----------------------------- MODULE YieldQueue -----------------------------
(***************************************************************************)
(* session/yield-queue.ts in its session: outcomes of background jobs that *)
(* were posted to the session wait until the agent yields, and then become *)
(* one follow-up message; if the agent is idle a flush is scheduled that   *)
(* starts a turn with them.                                                *)
(*                                                                         *)
(* A run of the agent streams, and at the end of each chain of turns it    *)
(* yields: onBeforeYield, then the poll for follow-up messages.  Between   *)
(* its last yield and the end of the prompt the session still counts as    *)
(* streaming; so it does after a run that ends in an error or an abort,    *)
(* which does not yield.                                                   *)
(*                                                                         *)
(* What the job manager does is left open here: it posts each outcome at   *)
(* most once, and none that it holds back, since a tool has returned it or *)
(* waits for it.  Module JobOutcomes shows that it keeps to that.          *)
(***************************************************************************)
EXTENDS Naturals, FiniteSets

CONSTANT Outcome   \* the outcomes of jobs, each posted at most once

VARIABLES
    entries,           \* the outcomes that wait in the queue
    idleFlushPending,  \* #idleFlushPending
    scheduled,         \* the idle flushes among the post-prompt tasks
    run,               \* what the agent does
    posted,            \* the outcomes that were posted
    stale,             \* the outcomes of which isStale says that they are stale
    shown,             \* how often a message with the outcome was given to the agent
    disposal           \* how far dispose of the session has come

vars == <<entries, idleFlushPending, scheduled, run, posted, stale, shown, disposal>>

TypeOK ==
    /\ entries \subseteq posted /\ posted \subseteq Outcome /\ stale \subseteq Outcome
    /\ idleFlushPending \in BOOLEAN
    /\ scheduled \in 0 .. 2
    /\ run \in {"idle", "streaming", "wrapping"}
    /\ shown \in [Outcome -> Nat]
    /\ disposal \in {"no", "cleared", "cancelled"}

Init ==
    /\ entries = {} /\ posted = {} /\ stale = {}
    /\ idleFlushPending = FALSE /\ scheduled = 0
    /\ run = "idle"
    /\ shown = [o \in Outcome |-> 0]
    /\ disposal = "no"

-----------------------------------------------------------------------------

IsStreaming == run # "idle"

\* Mutant: what was reported in the meantime is not dropped.
AllEntries == entries

\* isStale asks the job manager at the time of the flush.
Survivors == entries \ stale

Show(S) == shown' = [o \in Outcome |-> IF o \in S THEN shown[o] + 1 ELSE shown[o]]

\* onJobComplete posts an outcome: enqueue, and if the agent is idle,
\* scheduleIdleFlush.
Enqueue(o) ==
    LET schedule == ~IsStreaming /\ ~idleFlushPending
    IN  /\ posted' = posted \cup {o}
        /\ entries' = entries \cup {o}
        /\ idleFlushPending' = (idleFlushPending \/ schedule)
        /\ scheduled' = IF schedule THEN scheduled + 1 ELSE scheduled
        /\ UNCHANGED <<run, stale, shown, disposal>>

\* The job manager holds back the outcomes of S from now on: tool calls, of this
\* agent or of a subagent, wait for jobs and return outcomes, and the manager
\* forgets that when it evicts a job or is disposed of.
HoldBack(S) ==
    /\ stale' = S
    /\ UNCHANGED <<entries, idleFlushPending, scheduled, run, posted, shown, disposal>>

\* The user prompts the idle agent.
Prompt ==
    /\ run = "idle" /\ disposal = "no"
    /\ run' = "streaming"
    /\ UNCHANGED <<entries, idleFlushPending, scheduled, posted, stale, shown, disposal>>

\* Mutant: the streaming flush leaves the entries to a pending idle flush.
YieldUnlessPending ==
    /\ run = "streaming"
    /\ \/ /\ disposal = "no" /\ ~idleFlushPending
          /\ entries' = {}
          /\ Show(Survivors)
          /\ run' \in IF Survivors = {} THEN {"streaming", "wrapping"} ELSE {"streaming"}
       \/ /\ disposal # "no" \/ idleFlushPending
          /\ run' \in {"streaming", "wrapping"}
          /\ UNCHANGED <<entries, shown>>
    /\ UNCHANGED <<idleFlushPending, scheduled, posted, stale, disposal>>

\* The agent would stop: flush("streaming"), and the run goes on if there are
\* follow-up messages, this one or the user's.  A disposed session has no
\* onBeforeYield.
Yield ==
    /\ run = "streaming"
    /\ \/ /\ disposal = "no"
          /\ entries' = {}
          /\ Show(Survivors)
          /\ run' \in IF Survivors = {} THEN {"streaming", "wrapping"} ELSE {"streaming"}
       \/ /\ disposal # "no"
          /\ run' \in {"streaming", "wrapping"}
          /\ UNCHANGED <<entries, shown>>
    /\ UNCHANGED <<idleFlushPending, scheduled, posted, stale, disposal>>

\* The run ends in an error.
Fail ==
    /\ run = "streaming"
    /\ run' = "wrapping"
    /\ UNCHANGED <<entries, idleFlushPending, scheduled, posted, stale, shown, disposal>>

\* The prompt returns, and the session is idle.
Finish ==
    /\ run = "wrapping"
    /\ run' = "idle"
    /\ UNCHANGED <<entries, idleFlushPending, scheduled, posted, stale, shown, disposal>>

\* Mutant: the flush forgets that the agent may have become busy.
IdleFlushUnchecked ==
    /\ scheduled > 0
    /\ scheduled' = scheduled - 1
    /\ idleFlushPending' = FALSE
    /\ entries' = {}
    /\ Show(IF IsStreaming THEN {} ELSE Survivors)
    /\ run' = IF ~IsStreaming /\ Survivors # {} THEN "streaming" ELSE run
    /\ UNCHANGED <<posted, stale, disposal>>

\* The scheduled flush runs: if the agent is still idle, it is prompted with
\* what has survived.
IdleFlush ==
    /\ scheduled > 0
    /\ scheduled' = scheduled - 1
    /\ idleFlushPending' = FALSE
    /\ \/ IsStreaming /\ UNCHANGED <<entries, run, shown>>
       \/ /\ ~IsStreaming
          /\ entries' = {}
          /\ Show(Survivors)
          /\ run' = IF Survivors = {} THEN "idle" ELSE "streaming"
    /\ UNCHANGED <<posted, stale, disposal>>

\* abort of the session: the post-prompt tasks are cancelled before they have
\* run, and the run ends.
Abort ==
    /\ disposal = "no"
    /\ scheduled' = 0
    /\ run' = IF run = "streaming" THEN "wrapping" ELSE run
    /\ UNCHANGED <<entries, idleFlushPending, posted, stale, shown, disposal>>

\* dispose of the session: clear the queue, and after the shutdown handlers
\* cancel the post-prompt tasks; the job manager is disposed of later.
DisposeClear ==
    /\ disposal = "no"
    /\ disposal' = "cleared"
    /\ entries' = {}
    /\ idleFlushPending' = FALSE
    /\ UNCHANGED <<scheduled, run, posted, stale, shown>>

DisposeCancel ==
    /\ disposal = "cleared"
    /\ disposal' = "cancelled"
    /\ scheduled' = 0
    /\ UNCHANGED <<entries, idleFlushPending, run, posted, stale, shown>>

RunStep == Yield \/ Fail \/ Finish

Next ==
    \/ \E o \in Outcome \ (posted \cup stale) : Enqueue(o)
    \/ \E S \in SUBSET Outcome : HoldBack(S)
    \/ Prompt \/ RunStep \/ IdleFlush \/ Abort
    \/ DisposeClear \/ DisposeCancel

Spec == Init /\ [][Next]_vars

\* Runs end, one way or another, and timers fire unless they are cancelled.
FairSpec == Spec /\ WF_vars(RunStep) /\ WF_vars(IdleFlush)

-----------------------------------------------------------------------------

(***************************************************************************)
(* The agent learns of an outcome once: no message with it follows another *)
(* one, or a tool result that the job manager still holds it back for.     *)
(***************************************************************************)
TellOnce == \A o \in Outcome : shown'[o] # shown[o] => shown[o] = 0 /\ o \notin stale

ToldOnce == [][TellOnce]_vars

(***************************************************************************)
(* An outcome leaves the queue of a live session only when the agent is    *)
(* given a message with it, or the job manager holds it back for a tool.   *)
(***************************************************************************)
DropNone == \A o \in entries \ entries' : disposal' = "no" => o \in stale \/ shown'[o] > shown[o]

NoneDropped == [][DropNone]_vars

(***************************************************************************)
(* While the agent keeps coming to a yield, no outcome stays in the queue, *)
(* whatever became of the flag and of the scheduled flushes.               *)
(***************************************************************************)
YieldsServe ==
    []<><<Yield>>_vars => \A o \in Outcome : (o \in entries) ~> (o \notin entries)

(***************************************************************************)
(* The results of background jobs are "delivered automatically when        *)
(* complete": as long as the session lives, an outcome in the queue is     *)
(* given to the agent without another prompt.                              *)
(***************************************************************************)
DeliveredAutomatically ==
    \A o \in Outcome :
        (o \in Survivors /\ disposal = "no") ~> (o \notin Survivors \/ disposal # "no")

(***************************************************************************)
(* A result that is posted while the agent is idle schedules a flush: the  *)
(* flag that keeps a second flush from being scheduled stands for a flush  *)
(* that is scheduled.                                                      *)
(***************************************************************************)
FlagMeansScheduled == idleFlushPending => scheduled > 0

(***************************************************************************)
(* A session that is disposed of is done: the agent starts no turn in it.  *)
(***************************************************************************)
QuietAfterDispose == [][disposal # "no" /\ run = "idle" => run' = "idle"]_vars
=============================================================================
