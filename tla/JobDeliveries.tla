--------------------------- MODULE JobDeliveries ---------------------------
(***************************************************************************)
(* How the outcome of a background job reaches its agent                   *)
(* (async/job-manager.ts): the queue of deliveries with its retries, the   *)
(* delivery loop that works it off, the drain of one agent's deliveries    *)
(* (drainDeliveries with an owner filter), the tools that wait for jobs    *)
(* and report their outcome themselves, eviction, and dispose.             *)
(*                                                                         *)
(* A delivery is named by its job.  Code between two awaits is one action, *)
(* so that everything that happens while a delivery is awaited or a timer  *)
(* is set is explored.  onJobComplete may fail.                            *)
(***************************************************************************)
EXTENDS Naturals, FiniteSets, Sequences, SequencesExt, Queues

CONSTANTS
    Job,           \* the jobs; each is registered once
    Draining,      \* the jobs of the agent that drains its own deliveries
    Tool,          \* the tool calls that poll or await jobs
    MaxQueue,      \* DEFAULT_MAX_DELIVERY_QUEUE
    MaxAttempts,   \* DELIVERY_MAX_ATTEMPTS
    NoJob          \* not a job

ASSUME DrainingAssumption == Draining \subseteq Job /\ NoJob \notin Job
ASSUME LimitsAssumption == MaxQueue \in Nat \ {0} /\ MaxAttempts \in Nat \ {0}

VARIABLES
    jobs,         \* the status of each job
    deliveries,   \* #deliveries, the queue
    calls,        \* the deliveries whose onJobComplete is running
    inFlight,     \* #inFlightDeliveries
    attempts,     \* failed attempts of each delivery
    due,          \* the deliveries whose nextAttemptAt has come
    loop,         \* where the delivery loop is, and with which delivery
    drain,        \* the same of the drain
    disposal,     \* the same of dispose
    dead,         \* #deadLetteredDeliveries
    suppressed,   \* #suppressedDeliveries
    watched,      \* #watchedJobs
    awaited,      \* the jobs each tool call asks for, and those it watches
    posted,       \* how often the outcome was posted to the agent's session
    told          \* the jobs whose outcome a tool has returned

deliveryVars == <<deliveries, calls, inFlight, attempts, due, dead>>
toolVars     == <<suppressed, watched, awaited, told>>
managerVars  == <<jobs, deliveryVars, loop, drain, disposal, toolVars, posted>>

At(where, j) == [at |-> where, job |-> j]

Nothing == [all |-> {}, live |-> {}]

LoopPlace  == [at : {"none", "sleeping", "waking", "awaiting", "ready", "ending"},
               job : Job \cup {NoJob}]
DrainPlace == [at : {"none", "sleeping", "awaiting", "ready"}, job : Job \cup {NoJob}]
DisposalPlace ==
    [at : {"none", "settling", "ready", "onLoop", "awaiting", "spinning", "over"},
     job : Job \cup {NoJob}]

DeliveryTypeOK ==
    /\ jobs \in [Job -> {"running", "done", "evicted", "cancelled"}]
    /\ deliveries \in Seq(Job)
    /\ calls \subseteq Job /\ inFlight \subseteq Job /\ due \subseteq Job
    /\ dead \subseteq Job /\ suppressed \subseteq Job /\ watched \subseteq Job
    /\ told \subseteq Job
    /\ attempts \in [Job -> 0 .. MaxAttempts]
    /\ loop \in LoopPlace /\ drain \in DrainPlace /\ disposal \in DisposalPlace
    /\ awaited \in [Tool -> [all : SUBSET Job, live : SUBSET Job]]
    /\ posted \in [Job -> Nat]

DeliveryInit ==
    /\ jobs = [j \in Job |-> "running"]
    /\ deliveries = <<>> /\ calls = {} /\ inFlight = {}
    /\ attempts = [j \in Job |-> 0]
    /\ due = Job /\ dead = {}
    /\ loop = At("none", NoJob)
    /\ drain = At("none", NoJob)
    /\ disposal = At("none", NoJob)
    /\ suppressed = {} /\ watched = {} /\ told = {}
    /\ awaited = [t \in Tool |-> Nothing]
    /\ posted = [j \in Job |-> 0]

-----------------------------------------------------------------------------

Quiet(j)   == j \in suppressed \cup watched          \* isDeliverySuppressed
Audible(j) == ~Quiet(j)
Disposed   == disposal.at # "none"
Finished   == {j \in Job : jobs[j] \in {"done", "evicted"}}

\* One iteration of runDeliveryLoop over the queue q, up to its next await:
\* suppressed heads are dropped, and the first other delivery is sent to
\* onJobComplete if its time has come.  c and f are the calls and in-flight
\* deliveries and d the due ones as the turn has left them so far.
Iterate(q, c, f, d) ==
    \/ /\ \A i \in 1 .. Len(q) : Quiet(q[i])
       /\ deliveries' = <<>> /\ calls' = c /\ inFlight' = f
       /\ loop' = At("ending", NoJob)
    \/ \E k \in 1 .. Len(q) :
          /\ Audible(q[k]) /\ \A i \in 1 .. k - 1 : Quiet(q[i])
          /\ \/ /\ q[k] \in d
                /\ deliveries' = SubSeq(q, k + 1, Len(q))
                /\ calls' = c \cup {q[k]} /\ inFlight' = f \cup {q[k]}
                /\ loop' = At("awaiting", q[k])
             \/ /\ q[k] \notin d
                /\ deliveries' = SubSeq(q, k, Len(q)) /\ calls' = c /\ inFlight' = f
                /\ loop' = At("sleeping", q[k])

\* ensureDeliveryLoop at the end of a turn.
EnsureLoop(q, c, f, d) ==
    \/ /\ loop.at = "none" /\ ~Disposed /\ q # <<>>
       /\ Iterate(q, c, f, d)
    \/ /\ loop.at # "none" \/ Disposed \/ q = <<>>
       /\ deliveries' = q /\ calls' = c /\ inFlight' = f
       /\ UNCHANGED loop

\* A job completes or fails: enqueueDelivery, unless a tool reports it.  The
\* oldest deliveries make room in a full queue; put back after a failure,
\* there may be more than MaxQueue of them.
Complete(j) ==
    LET q   == Append(deliveries, j)
        cut == IF Len(q) > MaxQueue THEN Len(q) - MaxQueue ELSE 0
    IN  /\ jobs[j] = "running"
        /\ jobs' = [jobs EXCEPT ![j] = "done"]
        /\ \/ Quiet(j) /\ UNCHANGED <<deliveryVars, loop>>
           \/ /\ Audible(j)
              /\ dead' = dead \cup {q[i] : i \in 1 .. cut}
              /\ EnsureLoop(SubSeq(q, cut + 1, Len(q)), calls, inFlight, due)
              /\ UNCHANGED <<attempts, due>>
        /\ UNCHANGED <<drain, disposal, toolVars, posted>>

\* The time of the next attempt comes, and with it the timers set for it.
Tick(j) ==
    /\ j \notin due
    /\ due' = due \cup {j}
    /\ loop' = IF loop = At("sleeping", j) THEN At("waking", j) ELSE loop
    /\ drain' = IF drain = At("sleeping", j) THEN At("ready", NoJob) ELSE drain
    /\ UNCHANGED <<jobs, deliveries, calls, inFlight, attempts, dead, disposal, toolVars, posted>>

\* The end of an attempt at delivery j, which leaves the queue q: whoever
\* awaits it goes on.
EndAttempt(j, q, d) ==
    LET Resumed(r) == IF r = At("awaiting", j) THEN At("ready", NoJob) ELSE r
    IN  /\ drain' = Resumed(drain)
        /\ disposal' = Resumed(disposal)
        /\ \/ /\ loop = At("awaiting", j)
              /\ loop' = At("ready", NoJob)
              /\ deliveries' = q /\ calls' = calls \ {j} /\ inFlight' = inFlight \ {j}
           \/ /\ loop # At("awaiting", j)
              /\ EnsureLoop(q, calls \ {j}, inFlight \ {j}, d)

\* Mutant: the outcome is posted without the second check.
SucceedUnchecked(j) ==
    /\ j \in calls
    /\ posted' = [posted EXCEPT ![j] = @ + 1]
    /\ EndAttempt(j, deliveries, due)
    /\ UNCHANGED <<jobs, attempts, due, dead, toolVars>>

\* onJobComplete returns.  It checks for suppression once more after it has
\* formatted the outcome, and then posts it to the session.
Succeed(j) ==
    /\ j \in calls
    /\ posted' = IF Quiet(j) THEN posted ELSE [posted EXCEPT ![j] = @ + 1]
    /\ EndAttempt(j, deliveries, due)
    /\ UNCHANGED <<jobs, attempts, due, dead, toolVars>>

\* onJobComplete throws: try again later, but not for ever.
Fail(j) ==
    LET n == attempts[j] + 1
    IN  /\ j \in calls
        /\ attempts' = [attempts EXCEPT ![j] = n]
        /\ \/ /\ n >= MaxAttempts
              /\ dead' = dead \cup {j}
              /\ EndAttempt(j, deliveries, due)
              /\ UNCHANGED due
           \/ /\ n < MaxAttempts
              /\ due' = due \ {j}
              /\ EndAttempt(j, IF Quiet(j) THEN deliveries ELSE Append(deliveries, j), due \ {j})
              /\ UNCHANGED dead
        /\ UNCHANGED <<jobs, toolVars, posted>>

-----------------------------------------------------------------------------

\* The loop's timer has expired.  It goes on with the delivery it slept for,
\* if that is still the head of the queue.
Wake ==
    LET j == loop.job
    IN  /\ loop.at = "waking"
        /\ IF deliveries # <<>> /\ Head(deliveries) = j
           THEN Iterate(deliveries, calls, inFlight, due \cup {j})
           ELSE Iterate(deliveries, calls, inFlight, due)
        /\ UNCHANGED <<jobs, attempts, due, dead, drain, disposal, toolVars, posted>>

Continue ==
    /\ loop.at = "ready"
    /\ Iterate(deliveries, calls, inFlight, due)
    /\ UNCHANGED <<jobs, attempts, due, dead, drain, disposal, toolVars, posted>>

\* Mutant: the queue is not looked at when the loop has ended.
EndLoopForGood ==
    /\ loop.at = "ending"
    /\ disposal' = IF disposal.at = "onLoop" THEN At("ready", NoJob) ELSE disposal
    /\ loop' = At("none", NoJob)
    /\ UNCHANGED <<jobs, deliveryVars, drain, toolVars, posted>>

\* The promise of the loop settles; a delivery that came meanwhile starts
\* another one.
EndLoop ==
    /\ loop.at = "ending"
    /\ disposal' = IF disposal.at = "onLoop" THEN At("ready", NoJob) ELSE disposal
    /\ \/ /\ deliveries # <<>> /\ ~Disposed
          /\ Iterate(deliveries, calls, inFlight, due)
       \/ /\ deliveries = <<>> \/ Disposed
          /\ loop' = At("none", NoJob)
          /\ UNCHANGED <<deliveries, calls, inFlight>>
    /\ UNCHANGED <<jobs, attempts, due, dead, drain, toolVars, posted>>

LoopStep == Wake \/ Continue \/ EndLoop

-----------------------------------------------------------------------------

Mine(S) == {j \in S \cap Draining : Audible(j)}

\* Mutant: the drain sends a delivery and leaves it to the loop as well.
SendKept(i) ==
    /\ calls' = calls \cup {deliveries[i]}
    /\ inFlight' = inFlight \cup {deliveries[i]}
    /\ drain' = At("awaiting", deliveries[i])
    /\ UNCHANGED deliveries

\* The drain sends the delivery at place i of the queue, and awaits it.
Send(i) ==
    /\ deliveries' = RemoveAt(deliveries, i)
    /\ calls' = calls \cup {deliveries[i]}
    /\ inFlight' = inFlight \cup {deliveries[i]}
    /\ drain' = At("awaiting", deliveries[i])

\* drainDeliveries for one agent, at its call and after each await: nothing is
\* left, or it sends the agent's earliest delivery itself, or waits for it, or
\* for an attempt that is under way.  It returns false when the deadline is
\* too near.
DrainStep ==
    LET waiting == Mine(ToSet(deliveries))
    IN  /\ drain.at \in {"none", "ready"}
        /\ drain.at = "none" => waiting \cup Mine(inFlight) # {}
        /\ \/ /\ waiting \cup Mine(inFlight) = {}
              /\ drain' = At("none", NoJob)
              /\ UNCHANGED <<deliveries, calls, inFlight>>
           \/ \E i \in 1 .. Len(deliveries) : deliveries[i] \in waiting \cap due /\ Send(i)
           \/ \E j \in waiting :
                 /\ waiting \cap due = {}
                 /\ drain' = At("sleeping", j)
                 /\ UNCHANGED <<deliveries, calls, inFlight>>
           \/ \E j \in Mine(inFlight) :
                 /\ waiting = {}
                 /\ drain' = At("awaiting", j)
                 /\ UNCHANGED <<deliveries, calls, inFlight>>
        /\ UNCHANGED <<jobs, attempts, due, dead, loop, disposal, toolVars, posted>>

DrainTimeout ==
    /\ drain.at \in {"sleeping", "awaiting"}
    /\ drain' = At("none", NoJob)
    /\ UNCHANGED <<jobs, deliveryVars, loop, disposal, toolVars, posted>>

-----------------------------------------------------------------------------

\* Mutant: the tool acknowledges every job it was asked for.
ReportAcksAll(S, w) ==
    LET s == suppressed \cup S
    IN  /\ told' = told \cup (S \cap Finished)
        /\ suppressed' = s
        /\ watched' = w
        /\ deliveries' = Without(deliveries, s \cup w)
        /\ UNCHANGED <<jobs, calls, inFlight, attempts, due, dead, loop, drain, disposal, posted>>

\* What a tool call does when it returns: the finished jobs among S are
\* reported and acknowledged, w stay watched.
Report(S, w) ==
    LET s == suppressed \cup (S \cap Finished)
    IN  /\ told' = told \cup (S \cap Finished)
        /\ suppressed' = s
        /\ watched' = w
        /\ deliveries' = IF S \cap Finished = {} THEN deliveries
                         ELSE Without(deliveries, s \cup w)
        /\ UNCHANGED <<jobs, calls, inFlight, attempts, due, dead, loop, drain, disposal, posted>>

\* A tool call asks for the jobs of S that are still listed, and waits if any
\* of them is running.
Await(t, S) ==
    LET running == {j \in S : jobs[j] = "running"}
    IN  /\ S # {} /\ awaited[t] = Nothing /\ ~Disposed
        /\ \A j \in S : jobs[j] \in {"running", "done"}
        /\ \/ /\ running # {}
              /\ awaited' = [awaited EXCEPT ![t] = [all |-> S, live |-> running]]
              /\ watched' = watched \cup running
              /\ UNCHANGED <<jobs, deliveryVars, loop, drain, disposal, suppressed, told, posted>>
           \/ /\ running = {}
              /\ S \ told # {}
              /\ Report(S, watched)
              /\ UNCHANGED awaited

\* A job it waits for has finished, the wait has timed out or was aborted.
Return(t) ==
    /\ awaited[t] # Nothing
    /\ awaited' = [awaited EXCEPT ![t] = Nothing]
    /\ Report(awaited[t].all, watched \ awaited[t].live)

\* The retention of five minutes runs out.  The attempts at a delivery take
\* less than that.
EvictJob(j) ==
    /\ jobs[j] = "done" /\ ~Disposed
    /\ j \notin calls /\ j \notin ToSet(deliveries)
    /\ jobs' = [jobs EXCEPT ![j] = "evicted"]
    /\ suppressed' = suppressed \ {j}
    /\ watched' = watched \ {j}
    /\ UNCHANGED <<deliveryVars, loop, drain, disposal, awaited, told, posted>>

-----------------------------------------------------------------------------

\* dispose cancels what is running and waits for the jobs.  It is called from
\* a new turn, when the promise of a loop that has returned has settled ...
Dispose ==
    /\ disposal.at = "none" /\ loop.at # "ending"
    /\ disposal' = At("settling", NoJob)
    /\ jobs' = [j \in Job |-> IF jobs[j] = "running" THEN "cancelled" ELSE jobs[j]]
    /\ UNCHANGED <<deliveryVars, loop, drain, toolVars, posted>>

\* ... and at the end it forgets everything.
Clear ==
    /\ disposal' = At("over", NoJob)
    /\ deliveries' = <<>> /\ inFlight' = {} /\ dead' = {}
    /\ suppressed' = {} /\ watched' = {}
    /\ UNCHANGED <<jobs, calls, attempts, due, loop, drain, awaited, told, posted>>

JobsSettled ==
    /\ disposal.at = "settling"
    /\ disposal' = At("ready", NoJob)
    /\ UNCHANGED <<jobs, deliveryVars, loop, drain, toolVars, posted>>

\* In between it drains what is left: it waits for an attempt under way or for
\* the loop.  Without a loop it asks for one and looks again, at once.
DrainRest ==
    LET waiting == {j \in ToSet(deliveries) : Audible(j)}
        flying  == {j \in inFlight : Audible(j)}
    IN  /\ disposal.at = "ready"
        /\ \/ waiting \cup flying = {} /\ Clear
           \/ /\ \/ \E j \in flying : waiting = {} /\ disposal' = At("awaiting", j)
                 \/ waiting # {} /\ loop.at # "none" /\ disposal' = At("onLoop", NoJob)
                 \/ waiting # {} /\ loop.at = "none" /\ disposal' = At("spinning", NoJob)
              /\ UNCHANGED <<jobs, deliveryVars, loop, drain, toolVars, posted>>

DisposeTimeout == disposal.at \in {"settling", "onLoop", "awaiting"} /\ Clear

DisposeStep == JobsSettled \/ DrainRest \/ DisposeTimeout

\* A loop without an await never gives the event loop back.
DeliveryNext ==
    /\ disposal.at # "spinning"
    /\ \/ \E j \in Job : Complete(j) \/ Tick(j) \/ Succeed(j) \/ Fail(j) \/ EvictJob(j)
       \/ LoopStep
       \/ DrainStep \/ DrainTimeout
       \/ \E t \in Tool : Return(t) \/ \E S \in SUBSET Job : Await(t, S)
       \/ Dispose \/ DisposeStep

DeliverySpec == DeliveryInit /\ [][DeliveryNext]_managerVars

\* Timers fire, promises settle, and onJobComplete ends somehow.
Turn(A) == disposal.at # "spinning" /\ A

DeliveryFairSpec ==
    /\ DeliverySpec
    /\ WF_managerVars(Turn(LoopStep)) /\ WF_managerVars(Turn(DisposeStep))
    /\ \A j \in Job : WF_managerVars(Turn(Tick(j))) /\ WF_managerVars(Turn(Succeed(j) \/ Fail(j)))
-----------------------------------------------------------------------------

(***************************************************************************)
(* A delivery is never queued twice, nor queued again while an attempt at  *)
(* it is under way, although the loop and the drain take deliveries from   *)
(* the same queue and both act on what they saw before an await.           *)
(***************************************************************************)
OneEntry ==
    /\ \A i, k \in 1 .. Len(deliveries) : deliveries[i] = deliveries[k] => i = k
    /\ ToSet(deliveries) \cap calls = {}

(***************************************************************************)
(* No outcome is lost: until dispose has ended, that of a finished job is  *)
(* still to be delivered, has been posted or given up, has been returned   *)
(* by a tool, or is what a tool call waits for.                            *)
(***************************************************************************)
NoneLost ==
    disposal.at # "over" =>
        \A j \in Finished :
            \/ j \in calls \cup dead \cup told \cup ToSet(deliveries)
            \/ posted[j] > 0
            \/ \E t \in Tool : j \in awaited[t].all

(***************************************************************************)
(* An outcome is posted at most once, and not after a tool has returned it *)
(* while the manager still remembers that.                                 *)
(***************************************************************************)
PostOnce ==
    \A j \in Job :
        posted'[j] # posted[j] =>
            /\ posted[j] = 0
            /\ disposal.at # "over" => j \notin told

PostedOnce == [][PostOnce]_managerVars

(***************************************************************************)
(* A delivery that is pending is settled: posted, given up after its last  *)
(* attempt, or dropped because a tool reported it, unless the manager is   *)
(* disposed of first.                                                      *)
(***************************************************************************)
Pending(j) == j \in calls \cup ToSet(deliveries)

DeliveriesSettle == \A j \in Job : Pending(j) ~> (~Pending(j) \/ Disposed)

(***************************************************************************)
(* dispose comes to its end, at the latest at its deadline, whatever jobs  *)
(* and deliveries do.                                                      *)
(***************************************************************************)
DisposeEnds == Disposed ~> (disposal.at = "over")

(***************************************************************************)
(* A failed delivery is attempted again only when its backoff is over.     *)
(***************************************************************************)
RetriesBackOff == [][\A j \in calls' \ calls : j \in due]_managerVars
=============================================================================
