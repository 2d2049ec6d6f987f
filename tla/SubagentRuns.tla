---------------------------- MODULE SubagentRuns ----------------------------
(***************************************************************************)
(* Background subagents of async/job-manager.ts: the job of each run, the  *)
(* canonical record of each subagent, pause, resume and cancel, the queue  *)
(* of resumes that wait for a free slot, eviction, and the teardown of the *)
(* agent that owns them (task/index.ts, task/executor.ts and               *)
(* AgentSession.#cancelOwnAsyncJobs).                                      *)
(*                                                                         *)
(* The manager is one object of a single-threaded process, shared by the   *)
(* main agent and by subagents that spawn subagents of their own; each     *)
(* action is one turn of the event loop.  A run is the n-th job of a       *)
(* subagent; its promise settles some turns after its work has ended.      *)
(***************************************************************************)
EXTENDS Naturals, FiniteSets, Sequences, Queues

CONSTANTS
    Main,         \* the top-level agent
    Subagent,     \* the ids of the subagents that may be spawned
    Spawner,      \* the agent that spawns each subagent
    MaxRunning,   \* async.maxJobs: how many jobs may have status running
    MaxRuns       \* bound: how many runs of each subagent are explored

ASSUME SubagentAssumption == IsFiniteSet(Subagent)
ASSUME SpawnerAssumption ==
    Main \notin Subagent /\ Spawner \in [Subagent -> Subagent \cup {Main}]
ASSUME MaxRunningAssumption == MaxRunning \in Nat \ {0}
ASSUME MaxRunsAssumption == MaxRuns \in [Subagent -> Nat \ {0}]

Agent == Subagent \cup {Main}
Run   == UNION {{s} \X (1 .. MaxRuns[s]) : s \in Subagent}

VARIABLES
    status,       \* the status of each job, "none" before it is registered
    owner,        \* the ownerId the job was registered with
    phase,        \* how far the work of the run has come
    listed,       \* the jobs in the manager's table, until they are evicted
    timers,       \* the jobs with an eviction timer
    recStatus,    \* the status in each subagent's record, "none" without one
    current,      \* currentJobId: the latest run of each subagent, 0 if none
    pausing,      \* the runs asked to pause at their next safe boundary
    queue,        \* the resumes waiting for a slot
    runner        \* whose session installed the resume runner, or "none"

jobVars == <<status, owner, phase, listed, timers, pausing>>
recVars == <<recStatus, current, queue>>
vars    == <<jobVars, recVars, runner>>

JobStatus == {"none", "running", "completed", "failed", "cancelled", "paused"}
Lifecycle == {"none", "running", "paused", "queued", "completed", "failed", "cancelled"}
Phase     == {"none", "starting", "live", "closing", "closed", "settled"}

TypeOK ==
    /\ status \in [Run -> JobStatus]
    /\ owner \in [Run -> Agent]
    /\ phase \in [Run -> Phase]
    /\ listed \subseteq Run /\ timers \subseteq Run /\ pausing \subseteq Run
    /\ recStatus \in [Subagent -> Lifecycle]
    /\ current \in [Subagent -> Nat]
    /\ queue \in Seq(Subagent)
    /\ runner \in Agent \cup {"none"}

Init ==
    /\ status = [r \in Run |-> "none"]
    /\ owner = [r \in Run |-> Main]
    /\ phase = [r \in Run |-> "none"]
    /\ listed = {} /\ timers = {} /\ pausing = {}
    /\ recStatus = [s \in Subagent |-> "none"]
    /\ current = [s \in Subagent |-> 0]
    /\ queue = <<>>
    /\ runner = "none"

-----------------------------------------------------------------------------

\* getRunningJobs; the arguments are the values it is asked for, so that it
\* can be asked of a state in the middle of a turn.
Running(l, st) == {r \in l : st[r] = "running"}

Unsettled == {r \in Run : phase[r] \in {"starting", "live", "closing", "closed"}}

\* The record that names r as its current job.
IsCurrent(r) == recStatus[r[1]] # "none" /\ current[r[1]] = r[2]

\* A live handle lets a run be paused; the executor holds it while the
\* session of the run exists.
Handle(s) == LET r == <<s, current[s]>> IN r \in listed /\ phase[r] = "live"

\* An agent can act while its session exists.
Alive(a) == a # Main => \E n \in 1 .. MaxRuns[a] : phase[<<a, n>>] = "live"

\* Of the first k entries of the queue q, those whose record is still queued.
Started(k, rs, q) == {s \in Subagent : rs[s] = "queued" /\ \E i \in 1 .. k : q[i] = s}

\* drainResumeQueue takes entries from the head while a slot is free, and
\* starts those whose record is still queued.
Popped(l, st, rs, q) ==
    LET Taken(k) == Cardinality(Running(l, st)) + Cardinality(Started(k, rs, q))
    IN  CHOOSE k \in 0 .. Len(q) :
            /\ k = Len(q) \/ Taken(k) >= MaxRunning
            /\ \A j \in 0 .. k - 1 : Taken(j) < MaxRunning

\* The turn leaves the table l, the statuses st, the records rs and the queue
\* q, and the subagents in S each get a new run: the runner registers its job
\* for the agent whose session installed it.
Start(S, l, st, rs, q) ==
    LET new == {<<s, current[s] + 1>> : s \in S}
    IN  /\ status' = [r \in Run |-> IF r \in new THEN "running" ELSE st[r]]
        /\ owner' = [r \in Run |-> IF r \in new THEN runner ELSE owner[r]]
        /\ listed' = l \cup new
        /\ recStatus' = [s \in Subagent |-> IF s \in S THEN "running" ELSE rs[s]]
        /\ current' = [s \in Subagent |-> IF s \in S THEN current[s] + 1 ELSE current[s]]
        /\ queue' = q

\* The runs of S begin, and the run in R, if there is one, has come to phase p.
Advance(S, R, p) ==
    phase' = [r \in Run |->
                 IF r \in R THEN p
                 ELSE IF r[1] \in S /\ r[2] = current[r[1]] + 1 THEN "starting"
                 ELSE phase[r]]

Drain(l, st, rs, R, p) ==
    LET k == Popped(l, st, rs, queue)
        S == Started(k, rs, queue)
    IN  /\ Start(S, l, st, rs, SubSeq(queue, k + 1, Len(queue)))
        /\ Advance(S, R, p)

-----------------------------------------------------------------------------

\* The task tool of an agent schedules a subagent: it installs the resume
\* runner of its own session, and registers the job if a slot is free.
Spawn(s) ==
    /\ phase[<<s, 1>>] = "none"
    /\ Alive(Spawner[s])
    /\ runner' = Spawner[s]
    /\ \/ /\ Cardinality(Running(listed, status)) < MaxRunning
          /\ status' = [status EXCEPT ![<<s, 1>>] = "running"]
          /\ owner' = [owner EXCEPT ![<<s, 1>>] = Spawner[s]]
          /\ phase' = [phase EXCEPT ![<<s, 1>>] = "starting"]
          /\ listed' = listed \cup {<<s, 1>>}
          /\ recStatus' = [recStatus EXCEPT ![s] = "running"]
          /\ current' = [current EXCEPT ![s] = 1]
          /\ UNCHANGED <<timers, pausing, queue>>
       \/ /\ Cardinality(Running(listed, status)) >= MaxRunning
          /\ UNCHANGED <<jobVars, recVars>>

\* The session of the run exists and its handle is registered; a run that was
\* cancelled while it waited for its turn ends at once.
Begin(r) ==
    /\ phase[r] = "starting"
    /\ phase' = [phase EXCEPT ![r] = IF status[r] = "cancelled" THEN "closed" ELSE "live"]
    /\ UNCHANGED <<status, owner, listed, timers, pausing, recVars, runner>>

\* pauseSubagent.  A request to a cancelled run changes nothing any more, and
\* is not recorded.
Pause(s) ==
    /\ recStatus[s] = "running" /\ status[<<s, current[s]>>] = "running"
    /\ Handle(s)
    /\ pausing' = pausing \cup {<<s, current[s]>>}
    /\ UNCHANGED <<status, owner, phase, listed, timers, recVars, runner>>

\* The work of the run is over: completed, failed, aborted or paused.
End(r) ==
    /\ phase[r] = "live"
    /\ phase' = [phase EXCEPT ![r] = "closing"]
    /\ UNCHANGED <<status, owner, listed, timers, pausing, recVars, runner>>

\* #cancelOwnAsyncJobs of agent a: runOwnerCleanups purges its subagents'
\* records and queued resumes, cancelAll cancels the jobs it owns.
CancelOwn(a) ==
    LET mine   == {r \in Running(listed, status) : owner[r] = a}
        own    == {s \in Subagent : Spawner[s] = a}
    IN  /\ status' = [r \in Run |-> IF r \in mine THEN "cancelled" ELSE status[r]]
        /\ timers' = timers \cup mine
        /\ pausing' = pausing \ mine
        /\ recStatus' = [s \in Subagent |-> IF s \in own THEN "none" ELSE recStatus[s]]
        /\ queue' = Without(queue, own)
        /\ UNCHANGED <<owner, listed, current, runner>>

\* The session of the run is disposed of, and its agent's work with it.
Teardown(r) ==
    /\ phase[r] = "closing"
    /\ CancelOwn(r[1])
    /\ phase' = [phase EXCEPT ![r] = "closed"]

\* The main agent starts another session (newSession, switchSession, handoff).
NewSession ==
    /\ CancelOwn(Main)
    /\ UNCHANGED phase

\* Mutant: a settlement drains the queue unless the run was cancelled.
SettleWithoutDrain(r, outcome) ==
    LET to == IF status[r] = "cancelled" THEN "cancelled" ELSE outcome
        st == [status EXCEPT ![r] = to]
        rs == IF IsCurrent(r) THEN [recStatus EXCEPT ![r[1]] = to] ELSE recStatus
    IN  /\ phase[r] = "closed"
        /\ outcome = "paused" => r \in pausing
        /\ timers' = IF to = "paused" THEN timers ELSE timers \cup {r}
        /\ pausing' = pausing \ {r}
        /\ \/ to # "cancelled" /\ Drain(listed, st, rs, {r}, "settled")
           \/ /\ to = "cancelled"
              /\ Start({}, listed, st, rs, queue) /\ Advance({}, {r}, "settled")
        /\ UNCHANGED runner

\* Mutant: the record of a cancelled run says how its work ended.
SettleAsReturned(r, outcome) ==
    LET to == IF status[r] = "cancelled" THEN "cancelled" ELSE outcome
        st == [status EXCEPT ![r] = to]
        rs == IF IsCurrent(r) THEN [recStatus EXCEPT ![r[1]] = outcome] ELSE recStatus
    IN  /\ phase[r] = "closed"
        /\ outcome = "paused" => r \in pausing
        /\ timers' = IF to = "paused" THEN timers ELSE timers \cup {r}
        /\ pausing' = pausing \ {r}
        /\ Drain(listed, st, rs, {r}, "settled")
        /\ UNCHANGED runner

\* The run's promise settles.  A cancelled job stays cancelled whatever the
\* run returned; a job asked to pause may have completed all the same.
Settle(r, outcome) ==
    LET to == IF status[r] = "cancelled" THEN "cancelled" ELSE outcome
        st == [status EXCEPT ![r] = to]
        rs == IF IsCurrent(r) THEN [recStatus EXCEPT ![r[1]] = to] ELSE recStatus
    IN  /\ phase[r] = "closed"
        /\ outcome = "paused" => r \in pausing
        /\ timers' = IF to = "paused" THEN timers ELSE timers \cup {r}
        /\ pausing' = pausing \ {r}
        /\ Drain(listed, st, rs, {r}, "settled")
        /\ UNCHANGED runner

\* Mutant: a resume does not look whether a slot is free.
ResumeOverLimit(s) ==
    /\ recStatus[s] \in {"paused", "completed", "failed", "cancelled"} /\ Alive(Spawner[s])
    /\ current[s] < MaxRuns[s]
    /\ runner # "none"
    /\ Start({s}, listed, status, recStatus, queue)
    /\ Advance({s}, {}, "none")
    /\ UNCHANGED <<timers, pausing, runner>>

\* resumeSubagent, by the agent whose record it is.
Resume(s) ==
    /\ recStatus[s] \in {"paused", "completed", "failed", "cancelled"} /\ Alive(Spawner[s])
    /\ current[s] < MaxRuns[s]
    /\ runner # "none"
    /\ \/ /\ Cardinality(Running(listed, status)) >= MaxRunning
          /\ recStatus' = [recStatus EXCEPT ![s] = "queued"]
          /\ queue' = Append(queue, s)
          /\ UNCHANGED <<jobVars, current>>
       \/ /\ Cardinality(Running(listed, status)) < MaxRunning
          /\ Start({s}, listed, status, recStatus, queue)
          /\ Advance({s}, {}, "none")
          /\ UNCHANGED <<timers, pausing>>
    /\ UNCHANGED runner

\* Mutant: the record is cancelled with the job, before the run has settled.
CancelRecordToo(r, a) ==
    /\ r \in Running(listed, status) /\ owner[r] = a /\ Alive(a)
    /\ status' = [status EXCEPT ![r] = "cancelled"]
    /\ pausing' = pausing \ {r}
    /\ recStatus' = IF IsCurrent(r) THEN [recStatus EXCEPT ![r[1]] = "cancelled"] ELSE recStatus
    /\ UNCHANGED <<owner, phase, listed, timers, current, queue, runner>>

\* cancel of a running job by agent a, and cancelSubagent of a running one:
\* the job must be a's own.
CancelRunning(r, a) ==
    /\ r \in Running(listed, status) /\ owner[r] = a /\ Alive(a)
    /\ status' = [status EXCEPT ![r] = "cancelled"]
    /\ pausing' = pausing \ {r}
    /\ UNCHANGED <<owner, phase, listed, timers, recVars, runner>>

\* The subagent tool cancels once more a subagent whose resume it cancelled
\* while it was queued: cancelSubagent refuses, cancel finds its paused job.
CancelPausedJob(s) ==
    LET r == <<s, current[s]>>
    IN  /\ recStatus[s] = "cancelled" /\ Alive(Spawner[s])
        /\ r \in listed /\ status[r] = "paused" /\ owner[r] = Spawner[s]
        /\ timers' = timers \cup {r}
        /\ Drain(listed, [status EXCEPT ![r] = "cancelled"], recStatus, {}, "none")
        /\ UNCHANGED <<pausing, runner>>

\* cancelSubagent of a paused subagent, by the agent whose record it is.
CancelPaused(s) ==
    LET r  == <<s, current[s]>>
        st == [status EXCEPT ![r] = "cancelled"]
    IN  /\ recStatus[s] = "paused" /\ Alive(Spawner[s])
        /\ timers' = timers \cup {r}
        /\ Drain(listed, st, [recStatus EXCEPT ![s] = "cancelled"], {}, "none")
        /\ UNCHANGED <<pausing, runner>>

\* Mutant: the entry stays in the queue.
CancelQueuedRecord(s) ==
    /\ recStatus[s] = "queued" /\ Alive(Spawner[s])
    /\ recStatus' = [recStatus EXCEPT ![s] = "cancelled"]
    /\ UNCHANGED <<jobVars, current, queue, runner>>

\* cancelSubagent of a queued one: the entry leaves the queue.
CancelQueued(s) ==
    /\ recStatus[s] = "queued" /\ Alive(Spawner[s])
    /\ recStatus' = [recStatus EXCEPT ![s] = "cancelled"]
    /\ queue' = Without(queue, {s})
    /\ UNCHANGED <<jobVars, current, runner>>

\* The retention of a finished job runs out.
Evict(r) ==
    /\ r \in timers
    /\ timers' = timers \ {r}
    /\ listed' = listed \ {r}
    /\ UNCHANGED <<status, owner, phase, pausing, recVars, runner>>

-----------------------------------------------------------------------------

RunStep(r) ==
    \/ Begin(r) \/ End(r) \/ Teardown(r)
    \/ \E outcome \in {"completed", "failed", "paused"} : Settle(r, outcome)

Next ==
    \/ \E s \in Subagent : Spawn(s) \/ Pause(s) \/ Resume(s)
    \/ \E s \in Subagent : CancelPaused(s) \/ CancelQueued(s) \/ CancelPausedJob(s)
    \/ \E r \in Run : RunStep(r) \/ Evict(r) \/ \E a \in Agent : CancelRunning(r, a)
    \/ NewSession

Spec == Init /\ [][Next]_vars

\* Every run comes to its end, and its promise settles.
FairSpec == Spec /\ \A r \in Run : WF_vars(RunStep(r))

-----------------------------------------------------------------------------

(***************************************************************************)
(* No more jobs run at a time than the limit allows, however the slots are *)
(* taken: by a new subagent, by a resume, or by a drain of the queue that  *)
(* starts several resumes in one turn.                                     *)
(***************************************************************************)
RunningLimit == Cardinality(Running(listed, status)) <= MaxRunning

(***************************************************************************)
(* A subagent has at most one run whose promise is pending: two of them    *)
(* would write to the same session file.                                   *)
(***************************************************************************)
OneRunAtATime ==
    \A q, r \in Unsettled : q[1] = r[1] => q = r

(***************************************************************************)
(* A subagent whose record says queued has exactly one entry in the queue, *)
(* and no other has one: a resume is neither forgotten nor started after   *)
(* it was cancelled, nor started twice.                                    *)
(***************************************************************************)
QueueIsExact ==
    /\ \A i, j \in 1 .. Len(queue) : queue[i] = queue[j] => i = j
    /\ \A s \in Subagent : recStatus[s] = "queued" <=> \E i \in 1 .. Len(queue) : queue[i] = s

(***************************************************************************)
(* The record is the source of truth: it says running exactly while the    *)
(* current run is pending, and otherwise what became of that run, unless a *)
(* resume of it was cancelled; a paused subagent's job cannot be evicted.  *)
(***************************************************************************)
RecordFollowsRun ==
    \A s \in Subagent :
        LET r == <<s, current[s]>>
        IN  /\ recStatus[s] = "running" <=> recStatus[s] # "none" /\ r \in Unsettled
            /\ recStatus[s] \in {"paused", "completed", "failed"} => recStatus[s] = status[r]
            /\ recStatus[s] = "paused" => r \in listed \ timers

(***************************************************************************)
(* While a resume waits, every slot is taken, but for those of cancelled   *)
(* runs that have not settled yet: the drain at each settlement leaves no  *)
(* slot idle.                                                              *)
(***************************************************************************)
CancelledUnsettled == {r \in Unsettled : status[r] = "cancelled"}

NoIdleSlot ==
    queue # <<>> =>
        Cardinality(Running(listed, status)) + Cardinality(CancelledUnsettled) >= MaxRunning

(***************************************************************************)
(* A queued resume does not stay queued for ever, if every run settles.    *)
(***************************************************************************)
QueuedIsServed ==
    \A s \in Subagent : (recStatus[s] = "queued") ~> (recStatus[s] # "queued")

(***************************************************************************)
(* The ownerId of a job is there "so a subagent's teardown does not cancel *)
(* its parent's jobs": a teardown cancels only runs of the subagents that  *)
(* the torn down agent spawned.                                            *)
(***************************************************************************)
CancelledByTeardown(q, r) ==
    /\ phase[q] = "closing" /\ phase'[q] = "closed"
    /\ status[r] = "running" /\ status'[r] = "cancelled"

TeardownSparesOthers ==
    [][\A q, r \in Run : CancelledByTeardown(q, r) => Spawner[r[1]] = q[1]]_vars
=============================================================================
