# Formal models of the gajae-code coding agent

TLA+ models, TLC configurations and TLAPS proofs for the coordination core of
this repository: the locks and leases that processes share on disk, the process
that owns a harness session, the agent loop, the background jobs and subagents of
a process and how their outcomes reach an agent, the gates at which an unattended
run waits for a decision, and the worker pool of the robogjc service. Paths without
a package are under `packages/coding-agent/src/`; those of robogjc are under
`python/robogjc/src/`.

Check a model with `tlc -workers 2 -config X.cfg MCModule`, a proof module with
`tlapm Module_proofs.tla`. `PROJECT.json` lists every run with its properties,
the source lines of every definition, a plausible bug (mutant) that breaks each
property, the hazards found in the code, and the theorems.

## 1. The system and its parts

One executable runs a conversation with a model, its tools and its subagents
(`session/`, `task/`, `tools/`, `packages/agent`, `packages/ai`). Around it:
a harness that keeps an agent running as an owned session on disk
(`harness-control-plane/`), workflow commands that keep their state in JSON
files (`gjc-runtime/`), wire protocols for clients (`modes/`), a notification
daemon, a coordinator MCP server, a Python service that drives agents from
GitHub events (`python/robogjc`), and native and vendored crates.

| part | state | operations | how it interacts | what is hard |
| --- | --- | --- | --- | --- |
| lease mutation lock (`harness-control-plane/session-lease.ts:63-202`) | a directory with one token file; an older format is a plain file | create by rename, recover a stale lock, release | every change of `lease.json` is inside it; contenders in several processes | death between any two file operations; two that recover the same lock |
| session lease (`session-lease.ts:204-388`) | `lease.json`: owner, epoch, expiry | acquire, heartbeat, release, reap | the harness owner and the garbage collector | decisions on what was read before another wrote; death in the section |
| file lock (`config/file-lock.ts`, `file-lock-gc.ts`) | a directory with an info file | acquire with retries, judge stale, release, collect | settings, workflow state, receipt spool | removal by path; the window between mkdir and info |
| background jobs and subagents (`async/job-manager.ts:338-870`) | table of jobs, a record for each subagent, queue of resumes, one resume runner | register, settle, pause, resume, cancel, evict, owner teardown | task tool, subagent tool, executor, session dispose | settling after cancel, slots freed in many ways, nested owners |
| deliveries (`job-manager.ts:1046-1492`) | delivery queue, attempts under way, dead letters, suppressed and watched sets | deliver, retry, drain, watch, acknowledge, dispose | job tool, session event loop | a loop and a drain on one queue; report racing delivery |
| yield queue (`session/yield-queue.ts`) | entries, one flag | enqueue, flush at a yield or when idle, clear | deliveries post to it; the agent loop yields; abort and dispose cancel its flush | a flush cancelled, a run that ends without a yield |
| gate broker (`modes/shared/agent-wire/workflow-gate-broker.ts`) | file of gates and counters | open, resolve, recover | a client answers, a hook advances the workflow | crashes between steps; answers twice, with and without keys |
| unattended session (`unattended-session.ts`, `unattended-run-controller.ts`) | controller, broker, promises, early answers | negotiate, emitGate, resolveGate, abort, recover | RPC client, agent tools, budget | answers that come before the wait; abort while waiting |
| harness owner (`harness-control-plane/owner.ts`) | lease, `state.json`, event log with cursor, frame pump | start, heartbeat, submit, validate, finalize, retire, emit, stop | uses lease, adapter, spool; a client at its socket | several writers of the log in one process; reads acted upon after awaits; handlers that outlive the stop |
| agent adapter (`rpc-adapter.ts`) | frame cursor, starts seen, pending answers | get_state, prompt, wait for agent_start, close | a `gjc --mode rpc` child | one start for two waiting submits; a child that dies while it is asked |
| receipts, spool, state machine (`receipt*.ts`, `state-machine.ts`, `storage.ts`) | spool with cursor, receipts | append, drain, transitions | owner, hooks | crash between an entry and its cursor |
| workflow state (`gjc-runtime/`) | JSON files | many commands | file lock | unlocked writers, partial sequences |
| ui requests, registry, bridges (`agent-wire/`) | pending maps, registry files | ask, answer, prune | clients | answers after cancellation; prune racing rewrite |
| agent loop (`packages/agent/src`) | history, steering and follow-up queues, active run, tool calls | prompt, continue, steer, follow up, abort, forced abort | the session feeds the queues and aborts; models and tools answer | messages that interrupt concurrent tools; runs given up that go on in the background |
| agent session (`session/`) | transcript, compaction | prompt, abort, dispose | everything above | size: 10,000 lines of event handling |
| providers and credentials (`packages/ai`) | tokens, models | stream, refresh | agent loop | refresh shared by processes |
| notifications, coordinator, daemon | topics, rates, sessions | send, poll, route | agents, network | I/O and rate limits |
| robogjc (`queue.py`, `db.py`, `slot_pool.py`, `worker.py`, `sandbox.py`, `host_tools.py`) | event table, keys in flight, slots, cancel hooks, agent and tool processes | webhook, replay, claim, run, cancel, stop, restart | GitHub, agents in worker threads, operators | threads and tool calls that outlive their task, reaps that miss a process, cancellation racing completion, crash with agents alive |
| tools, editors, terminal UI, natives, vendored code | mostly none | transform and render | agent | reached by unit tests |

The properties that make each of the modelled parts correct are in section 3.
`PROJECT.json` lists all parts under `components`, and where each is exposed to
an order of events that tests hardly reach under `hazards`.

## 2. Modules

| module | models | builds on |
| --- | --- | --- |
| `Mutex` | abstract: a mutex whose holder may die and be reclaimed | |
| `LeaseLock` | the lease mutation lock, one file operation a step | implements `Mutex` |
| `LeaseCell` | abstract: a lease changed in single steps | |
| `SessionLease` | operations on `lease.json` as read, decide, write | uses `Mutex`, implements `LeaseCell` |
| `FileLock` | `withFileLock` and its garbage collector | |
| `SubagentRuns` | jobs, records, resumes, owners | |
| `Queues` | an operator on queues | used by `SubagentRuns` and `JobDeliveries` |
| `JobDeliveries` | deliveries, tools that wait, dispose | |
| `YieldQueue` | a session's queue of outcomes | |
| `JobOutcomes` | the way of an outcome from the end of its job to the agent | composes `JobDeliveries` and `YieldQueue` |
| `GateBroker` | gates over the store file | |
| `UnattendedSession` | the session over the broker | extends `GateBroker` |
| `RuntimeOwner` | the owner of a harness session, its requests, its gjc subprocess | uses `LeaseCell` |
| `RoboPool` | the worker pool of robogjc | |
| `AgentLoop` | the agent, its loop and its tools | |
| `*_proofs` | theorems about the module they extend | those about `GateBroker` are in `UnattendedSession_proofs`, those about the four modules of jobs in `JobManager_proofs` |
| `MC*` | constants for TLC | |

Granularity. TypeScript code between two awaits is one action, since nothing
else of its process runs meanwhile; a file operation is an action of its own
where other processes share the file. A recursive `rm` of a lock directory is two steps
(unlink, rmdir). Timers are actions that may happen at any moment their code
allows; durations are not modelled.

**LeaseLock.** `kind` and `entries` are what is at the lock path. `pc[c]` is the
place of a contender in `acquireLeaseMutationLock`, in a recovery, in its
section or in the release. `Create` is the rename of the private directory,
which fails if something is there; `ReadDir` to `RmEmpty` are
`recoverStaleLeaseMutationLock`; `ReadLegacy` to `UnlinkLegacy` the recovery of
a legacy file; `RmToken`, `RmDir` the release. `Crash(p)` ends all contenders of
a process. The random token of an attempt is represented by its contender.

**SessionLease.** A caller waits for the lock (`Enter`), reads, for a take-over
reads again (`Reread`), writes what `Written` says and leaves. `Expire` lets a
ttl run out, `Die` ends an owner anywhere, and `Reclaim` is what `LeaseLock`
provides when the holder of the lock died. The answer of the operation (acquired,
held, lost) is part of the state.

**FileLock.** `lock` is the directory with its info and whether it is past
`staleMs`. `Acquire` is the retry loop, `Probe` the judgement by pid, `CheckAge`
that of a lock without info, `ReapInfo`/`ReapDir` and `ReleaseInfo`/`ReleaseDir`
the removals by path, `Collect` the garbage collector.

**SubagentRuns.** A run is the n-th job of a subagent. `phase` follows the work
(`starting`, `live`, `closing`, `closed`, `settled`), `status` is the job's status,
which a cancel sets long before the promise settles. `Settle` is the whole tail
of `register`, drain of the resume queue included. `Spawn` installs the resume
runner of the spawning session, which owns what is resumed later.
`CancelOwn` is `#cancelOwnAsyncJobs`: run by `Teardown` when the executor
disposes of a subagent's session, and by `NewSession` for the main agent.

**JobDeliveries.** `loop`, `drain` and `disposal` are program counters of the
three pieces of code that work the queue; `Iterate` is what the loop does until its next
await. `Await`, `Return` and `Report` are the job tool. `calls` are attempts of
`onJobComplete` that run, `inFlight` what the manager remembers of them: dispose
forgets them while they run.

**YieldQueue.** `run` says whether the agent is idle, streaming, or past its last
yield (`wrapping`), which still counts as streaming. `IdleFlush` is the scheduled
callback; `Abort` cancels it with the other post-prompt tasks. `stale` are the
outcomes of which `isStale` says so: those that the job manager holds back for a tool
when the message is built (`Survivors`). It changes as the manager likes (`HoldBack`).

**JobOutcomes.** The variables of both modules, with `posted` and `stale` of the queue
read off the manager: what it has posted, and what `isDeliverySuppressed` says. A step
is one of the manager (`ManagerStep`), one of the session (`SessionStep`), or
`onJobComplete` posting an outcome, which is one of both (`Post`). The session
disposes of its manager after it has cancelled its own tasks.

**GateBroker.** `Busy` marks code between awaits, which only a crash interrupts;
openGate has two flushes of the store and the emission as three steps. `call`
and `recovery` are calls of `resolve` and `recover` that await the hook.
`advanced`, `told`, `emitted` and `times` are history.

**UnattendedSession.** Adds the promises of emitGate, early answers, the abort and
the restart. `AnswerEarly` is an answer given while emitGate is on the stack.

**RuntimeOwner.** Owners are numbered in the order they start; `lease` is changed
only by actions of `LeaseCell`, which `SessionLease` implements. A writer is the pump of an
owner or the handler of a request; `pc` is where it awaits. `CheckLease`,
`TakeCursor`, `AppendEvent` are `#emit` between its awaits; `NextFrame`,
`ReadState`, `MarkFinalizing` the pump; `Arrive` to `Save` a request, whose
`state.json` is read on arrival and written at its end. `GetState` to `Timeout` are
`singleFlightAccept`; the acknowledgement of a prompt is part of `Send`. The
subprocess starts, drops and ends prompts (`Begin`, `Drop`, `Complete`), and each
`Frame` counts whether or not the owner listens. `Close`, `Shut` and `Release` follow
`stop`: the frames are logged, the heartbeat ends and the endpoint takes no more
connections; the server is closed when the last connection has ended, with the answer
or because its client hung up (`HangUp`), while the handler of one that hung up goes on;
the subprocess is killed and the lease released. A second call of `stop` finds no server
to wait for (`Stopped`). A client with the verb `nothing` connects and sends nothing.

**RoboPool.** `row` is the events table, and the processes are the operating system's;
everything else is memory of the service, which `Crash` and `Exit` forget. `disp` is
where the dispatch loop awaits, `task` how far `_run_event` is, `thread` how far the
worker thread of its turn is: a cancelled task leaves its thread behind. A task ends in
two steps of one turn of the event loop, `Conclude`, which marks the row, and `Finish`,
its finally clause; threads, the command line and a crash may come between (`LoopTurn`
keeps other turns out). `Interrupt` is the kill phase of `stop()` up to the next hook it
awaits; a task it cancels is given a turn of its own to run its finally clause. `procs`
are the processes no reap has seen yet, with the event and the uid they run as;
`strays` those that a reap has missed (`Reap` scans `/proc` once and may leave any of
them) and those that a tool call starts when its event's slot has been given back
(`Command`, `tools`). `Issue` is the key that the dispatcher keeps events apart by.

**AgentLoop.** `pc`, `pend`, `tool` belong to the loop of a run, `cons` to the
agent's consumer of its events, `buf` to the stream between them. `StartRun` is
`#runLoop` up to its first wait; `CheckSteering` and `EndCheck` the shared check
after a tool; `Started` the schedule of shared and exclusive tools; `Consume` one
turn of the `for await`, `Finally` its finally clause. `GiveUp` is what a forced
abort forgets; the loop of that run goes on unheard.

## 3. Runs

Each run has the constants of its cfg. Deadlock is not checked (each cfg says
`CHECK_DEADLOCK FALSE`): the systems stop by design, when every process has died, every run
is over, a bound is reached or dispose has ended; where something must go on,
a liveness property says so.

| run | states | what it shows |
| --- | --- | --- |
| `lease_lock` | 15,259 | `MutualExclusion` of live contenders, `TokenRemoval` (who removes a token owns it or its owner is dead), `StaleLockRecovered` (a dead holder's lock is recovered while someone tries), `ImplementsMutex` |
| `session_lease` | 9,726 | `LiveOwnerKeepsLease`, `UsesLock`, `ImplementsCell` |
| `subagents` | 253,190 | `RunningLimit`, `OneRunAtATime`, `QueueIsExact`, `NoIdleSlot`, `RecordFollowsRun`, with nested owners; `QueuedIsServed` (liveness) |
| `job_deliveries` | 537,372 | `OneEntry`, `NoneLost`, `DeliveriesSettle` (liveness) |
| `job_outcomes` | 676,175 | `NothingLost` and `LearnsOnce`, from the end of a job to its agent; `KeepsToQueue` (the manager does what the queue assumes of it); `QueueServed` (liveness) |
| `file_lock` | 669,789 | `ExclusiveWhileAllLive`, `OrphanReclaimed` (liveness) |
| `gate_broker` | 158,960 | `OneAnswer`, `CommitFollowsAdvance` |
| `unattended_session` | 172,654 | `OwnAnswer`, `AnswerReachesCaller`, `AbortReleases` (liveness) |
| `runtime_owner` | 1,240,016 | `FramesLogged` (each frame once and in order, through a stop), `OwnCursors`, `RetireReleases` (liveness) |
| `robogjc_pool` | 1,153,704 | `OneRunPerKey`, `SlotIsolation` (a slot changes hands only after a reap), `RowOwned`, `MarkedByItsRun`, `EventsServed` (liveness) |
| `agent_loop` | 448,133 | `DeliveredOnce`, `Paired`, `OneActiveRun`, `RunsEnd` and `WaitersResume` (liveness) |
| `file_lock_steal` | violated | `Exclusive`: after a death, a lock is removed by its path when it is a live process's already |

Every module of a part defines a type invariant `TypeOK` (`BrokerTypeOK` in
`GateBroker`, `DeliveryTypeOK` in `JobDeliveries`); all of them are proved.

### Bounds

* `lease_lock`: three contenders, two of them in one process, and two tries.
  The known failure of such locks needs one dead holder, one that recovers
  slowly and one that takes the lock; two tries let a contender recover and
  take. Any process may die, at any step.
* `session_lease`: two owners, one with acquire and heartbeat at the same time,
  and a reaper. An unbounded number of operations; the epoch is bounded because
  a take-over needs a death.
* `subagents`: one slot; a subagent with a subagent of its own, and one of the
  main agent that runs twice, so that a settling run, a cancelled run and a queued
  resume coexist and agents end while jobs they own run. `MCSubagentRuns.cfg` has
  three subagents of the main agent, two of which run twice, so that resumes follow
  resumes (1,739,876 states). A drain that starts several resumes in one turn needs
  more slots and a fourth subagent and is not reached; `Popped` covers it.
* `job_deliveries`: two jobs, one owned by the agent that drains, two tool calls
  that may wait for the same jobs, queue of length one (the cap is hit), two
  attempts (a retry and the last one). It was also checked with three jobs and no
  tool calls (156,765 states), where deliveries put back after a failure exceed the cap
  and the next job that ends drops several.
* `job_outcomes`: as `job_deliveries`, with one tool call, which may wait for both
  jobs, again and again; the yield queue is not bounded. `MCYieldQueue.cfg` checks the
  queue alone with three outcomes, before, during and after any flush, posted and held
  back at any moment (`ToldOnce`, `NoneDropped`, `YieldsServe`; 10,104 states).
* `file_lock`: three processes, two attempts, one death, and the collector.
* `gate_broker`: two gates, two answers, one key and none, two calls of
  resolve and two of recover at a time, two restarts. Symmetric in answers,
  calls and recoveries; no liveness is checked under symmetry.
* `unattended_session`: the same with one restart and no recovery, since the
  code's call of recover finds no broker.

* `runtime_owner`: two owners in turn, one client that sends a prompt or nothing and
  one that sends a finalize or retire, so that two handlers and the pump write at once
  and stop() meets a handler under way or a silent connection; one incident, which is enough to
  lapse a lease, stop an owner, or kill it or its subprocess at any step.
* `robogjc_pool`: two events of one key and one of another, two slots, and two
  incidents: a cancellation in a shutdown, a crash after a replay, a crash in the
  life after a crash, a reap that misses what a crash has left.
* `agent_loop`: two runs, so that a run meets its successor; two messages; one
  answer with calls, two shared tools before an exclusive one. It was also checked
  with queues that are emptied at once, with `interruptMode` wait, and without
  exclusive tools (up to 1,439,973 states).

`MaxRuns`, `MaxCrash`, `MaxGate`, `MaxIncidents`, `MaxMessages` and `MaxCalls` are bounds of exploration; the other numbers are
parameters of the code (`MaxRunning`, `MaxQueue`, `MaxAttempts`, `Retries`).
`times` counts to two.

### Fairness

* `LeaseLock`, `FileLock`: a process that lives takes its steps (the operating
  system schedules it), sections end, and time passes (`Age`). Nothing is assumed
  of new calls or of the collector.
* `SubagentRuns`: the work of a run goes on and its promise settles (`RunStep`):
  runs end by themselves or by the abort signal. Users need not do anything.
* `JobDeliveries`: timers fire, awaited calls of `onJobComplete` end, loop, drain
  and dispose go on when what they await has settled; all of it is the event
  loop. It stops if dispose spins (`Turn`).
* `YieldQueue`, `JobOutcomes`: a run of the agent goes on to its end, and a scheduled
  flush is called. `QueueServed` assumes in its statement that yields keep coming.
* `UnattendedSession`: code that has started goes on and abort hooks run (event
  loop); the client negotiates, sends commands and, for `CrashesRecovered` and
  `EmitGateEnds`, keeps trying to answer (strong fairness, since a command may be
  sent only while no other code runs). A more helpful client makes these two
  refutations stronger.

* `RuntimeOwner`: an owner that has begun something goes on with it while its
  process lives, and so does its subprocess with its prompts (`Progress`). A client
  hangs up in the end when an owner waits for it: `callEndpoint`, the repository's own
  client, does after five seconds (`control-endpoint.ts:101`). `stop()` does depend on
  that: with a foreign client that connects, sends nothing and stays, `RetireReleases`
  would not hold. Signals and heartbeats owe nothing.
* `RoboPool`: the service is started again after it ended (a supervisor), the
  dispatcher, `stop()` and the tasks go on, a turn ends (hard timeout); strong
  fairness for `Release`, since asyncio's lock serves its waiters in turn while
  the dispatcher takes it again and again.
* `AgentLoop`: models answer or fail, tools end, events are consumed. `RunsEnd`
  says that no run waits on itself; how many messages a user sends is bounded.

### Further configurations

These configurations are kept beside the runs. TLC finds each violated; the
findings in `PROJECT.json` say what the code does and what the quoted text says. A
configuration with several properties names one, and the others in comments.

| cfg (module) | property | the disagreement |
| --- | --- | --- |
| `MCSessionLeaseDoc` (`MCSessionLease`) | `HeldMeansUnexpired` | the header says an expired lease may be taken over; the code asks the pid only |
| `MCJobDeliveriesDoc` (`MCJobDeliveries`) | `DisposeEnds` | dispose may loop without an await |
| | `RetriesBackOff` | the loop wakes for a delivery that a drain has meanwhile tried and put back, and retries it early |
| `MCYieldQueueDoc` (`MCYieldQueue`) | `DeliveredAutomatically` | outcomes posted after the last yield wait for a prompt |
| | `FlagMeansScheduled` | an abort cancels the flush and leaves the flag |
| | `QuietAfterDispose` | a flush scheduled during dispose starts a turn |
| `MCJobOutcomes`, with a comment | `NeverRepeated` | eviction forgets that a tool returned the outcome that still waits in the queue, and a message repeats it |
| `MCGateTwice` (`MCGateBroker`) | `AdvanceOnce` | recover during resolve advances a gate twice |
| `MCUnattendedSessionDoc` (`MCUnattendedSession`) | `EmitGateEnds` | a gate emitted after the abort waits for ever |
| | `CrashesRecovered` | recover finds no broker, and the gate left by a crash stays |
| `MCSubagentTeardown` (`MCSubagentRuns`) | `TeardownSparesOthers` | a nested agent's teardown cancels its parent's resumed job |
| `MCRuntimeOwnerDoc` (`MCRuntimeOwner`) | `SingleWriter` | a handler that has passed the check, and whose client has hung up, appends after the next owner |
| | `CursorsIncrease` | cursors are taken and appended in different orders |
| | `AcceptedIsRun` | one agent_start accepts two submits |
| | `RetiredStays` | a finalize or a submit overwrites retired |
| | `RequestsAnswered` | a subprocess that dies leaves get_state unanswered |
| `MCRoboPoolDoc` (`MCRoboPool`) | `CancelHeard` | a cancellation between the two steps of `_arm_cancel` fires nothing |
| | `StopIsFinal` | a worker thread spawns its agent after `stop()` returned |
| | `CancelSurvives` | a shutdown or crash forgets a cancellation |
| | `DispatcherLives` | a database error ends the dispatch loop for good |
| | `NoStraggler` | a process that a reap missed, or that a tool call starts late, runs beside the next task of its slot |
| `MCAgentLoopDoc` (`MCAgentLoop`) | `NoMessageLost` | a forced abort loses what the run had dequeued |
| | `AlwaysPaired` | a forced abort leaves calls without results |
| | `AllWaitersResume` | a prompt before the last run's finally clause orphans its waiters |

## 4. Proofs

Proved with TLAPS for all values of the constants under the named assumptions
of each module (retries are positive, values that stand for "none" are not
values, every contender has a process). The bounds on crashes and gates are
constants there, too, so that the theorems hold for every bound.

* **`LeaseLock_proofs`**: `TypeCorrect`, `Exclusion`, `OnlyOwnOrDeadTokenRemoved`,
  `Refinement`. Exclusion is not inductive: that a removed token is a dead
  process's depends on what was read steps earlier. `IInv` adds that a directory
  has at most one token, that holders have theirs, that a token's contender is in
  its section or dead, and that whoever is about to delete has seen the
  owner dead, which stays true. For the refinement the abstract owner is the
  contender of the token (or the legacy file); each action is shown to be a step
  of the mutex or a stutter.
* **`SessionLease_proofs`**: `TypeCorrect`, `LiveOwnerKeeps`, `CellRefinement`,
  `LockDiscipline`. `IInv` says that callers inside hold the lock and that what
  they are about to write is still justified by the file: nobody else has
  written, the dead stay dead, and only the ttl may have run out.
* **`FileLock_proofs`**: `TypeCorrect`, `Exclusion` (while nobody has died),
  `OnlyTheDeadReaped`. `IInv` describes the lock while all live (one owner, its
  directory, its info) and, after deaths, what those who reap have seen.
* **`UnattendedSession_proofs`**: of the broker alone, with any number of recoverers,
  `TypeCorrect`, `EmittedSurvives`, `AnsweredOnce`, `CommitIsLate`, `AcceptedForGood`.
  `IInv` adds that numbers above the counter are unused (so that a gate never becomes
  pending again), that accepted gates have answers, and that calls and recoveries under
  way are for accepted gates. Of the session, `SessionUsesBroker`: each of its steps is a
  step of the broker or leaves it alone, so that all of this holds in the session too;
  then `OwnAnswers` and `AnswersReach`, from `SInv`, which ties a promise to the
  gate being opened, an early answer to the store, and what the hook did to both.
* **`JobManager_proofs`, subagents** (finitely many): `SubagentTypes`, `OneRun`,
  `RecordsFollow`, `QueueExact`, `SlotsUsed`, `LimitKept`. `OneRunAtATime` follows from
  `SubagentInv`, which says that a run under way is its subagent's current one, that a
  record has its run and a queued one a run to come. `NoIdleSlot` is what the drain at
  the end of each settlement guarantees: `DrainEffect` shows of the loop (a recursive
  function) that it starts resumes until the limit is reached or none waits, skips
  what was cancelled, and leaves the queue exact.
* **`JobManager_proofs`, deliveries**: `DeliveryTypes`, `EntriesAreSingle`, `OutcomesKept`,
  and the action property `PostsOnce`. `OneEntry` is not inductive: a job that ends is
  queued, and only its never having been queued keeps that from being a second time.
  `Placed` adds that what is pending is the outcome of a finished job, not posted, with
  an attempt left; `ToolsKnown` that what is suppressed was returned by a tool, until
  eviction or dispose forget it, and that what is watched has its tool call and nothing
  on its way. Every action of the loop, the drain and of attempts is shown to move
  deliveries only (`Moved`: each goes on waiting, is posted, given up, or is held back),
  and the invariant is shown once for such a step; tool calls, eviction and the end
  of dispose have lemmas of their own.
* **`JobManager_proofs`, yield queue and the whole**: of the queue, `MessagesOnce` and
  `EntriesReachAgent`, whatever the manager does within the queue's assumptions
  (`QueueInv`). Of the composition, `ManagerInComposition` and `ManagerKeepsToQueue`:
  each step is one of the manager's and one of the queue's, so that all that is proved
  of either holds of both together. From that and `OutcomeInv` (what was posted waits, was
  shown or was returned), `AgentLearnsOnce` and `NothingIsLost`.
* **`RuntimeOwner_proofs`**: `TypeCorrect`, `FramesKept`, `CursorsDistinct`. The log is
  written by the pump and by the handlers of requests, each with awaits between the
  check, the cursor and the append. `IInv` says that a cursor in a writer's hands is in
  no other's and not in the log, that all are below the owner's counter, that an owner
  whose lease did not lapse may write from its start until it is shut, and that frames
  wait in the pump in the order they came, with the log exactly those before them.
* **`RoboPool_proofs`**: `TypeCorrect`, `KeysApart`, `Isolation`, `RowsOwned`, and the
  action property `MarksAreOwn`. A worker thread outlives the task that stop() has
  interrupted, so that "has a task" is not enough: `IInv` speaks of the events engaged
  with a key (a task or a thread), allows a thread without task only once the
  dispatch has ended for good, and gives each process that no reap has seen to an event
  that holds a slot or has such a thread, under the uid it was given. Nothing is
  assumed of what a reap kills (`ReapSees`): `Isolation` says that a reap comes between
  two tasks of a slot, not that the slot is empty then.
* **`AgentLoop_proofs`**: `TypeCorrect`, `OneActive`, `Delivered`, `CallsPaired`.
  `Spread` says that the messages sent are the disjoint union of both queues, what the
  active run has found, its events, the history, and what is gone. `CallsAnswered`
  reads the history and what is still to come of the active run as one transcript in
  which every call has its results, or is the call at work with exactly the
  results of its finished tools; `Consume` moves an entry without changing that transcript.
  `LoopEffect` sums up each of the loop's actions by what it pushes and moves, and both
  invariants are shown once for such an effect. That the results at the end of the tools are
  complete uses a bijection of the results with the tools.

| proofs | assumptions on constants |
| --- | --- |
| `UnattendedSession_proofs` | `MaxGate` is a number; "none" is neither answer nor key; the words for the state of a promise are no answers |
| `JobManager_proofs` | subagents are finitely many, each spawned by an agent; the limits and the runs of each are positive; the agent that drains has jobs of the manager; "no job" is no job |
| `RuntimeOwner_proofs` | owners are numbers and no requests; "no lease" is no lease; each request asks for verbs of the protocol |
| `RoboPool_proofs` | at least one event, each with an issue; "no slot" is no slot |
| `AgentLoop_proofs` | at least one tool call in a message, exclusive ones among them; modes are flags |

Each inductive invariant was first checked by TLC under the constants of the run, as an
invariant of the module of its proofs.

Some of these theorems state properties that no run lists any more because the proof
says more (`EmittedIsStored`, `StoreIsForGood`, `ReapsTheDead` and the type invariants), or
that the theorems about `JobOutcomes` rest on (`PostedOnce`, `ToldOnce`, `NoneDropped`).

Recursive definitions of the modules that are proved about (`Without`, `Popped`,
`Results`) are recursive functions. The induction theorems of the library cannot be
instantiated here; what is needed of these functions is proved by a set of
numbers that contains 0 and with each number the next, or by the least number at which a
claim would fail.

Every safety invariant and action property that a run checks is proved. Only
model-checked is liveness (`StaleLockRecovered`, `OrphanReclaimed`, `QueuedIsServed`,
`DeliveriesSettle`, `QueueServed`, `AbortReleases`, `RetireReleases`, `EventsServed`,
`RunsEnd`, `WaitersResume`), which the prover does not reach: it needs ENABLED.

## 5. What is not modelled

* Everywhere: durations (the five seconds of retries of the file lock against the
  ten of staleness, the five of a client against the owner's acceptance timeout),
  reuse of process ids and job ids, schema validation, output buffers and texts.
* `SubagentRuns`: messages to running subagents; a runner that refuses a resume
  (descriptors live as long as records). `GateBroker`: two processes on one store.
  `UnattendedSession`: the arithmetic of budgets.
* `RuntimeOwner`: recover, operate, validate, observe and ping; receipts; the
  coalescing of progress frames; the reconciliation of a blocked startup; a request
  that comes between the lease and `owner_started`; clients that try again, and foreign
  clients that stay for ever.
* `RoboPool`: the semaphore used when the service does not run as root, garbage
  collection, GitHub's side, rows that are skipped; the end of a process by itself,
  which nobody looks at. Workspaces: `OneRunPerKey` is about the key an event was
  recorded with. A pull request event that finds no issue has a key of its own
  (`github_events.py:141-157`), and when `tasks.py:174-194` then finds the issue by its
  branch, it works in that issue's workspace, perhaps beside an event of the issue. The put-back of an event whose
  key is in flight also holds up every event behind it; `EventsServed` shows that
  it ends.
* `AgentLoop`: a provider whose event stream ends without `done` or `error`
  (`agent-loop.ts:867-869`), whose answer is used but never emitted; splitting of Cursor tool results, retries after a protocol leak,
  snapshot, restore and reset of the queues, telemetry.
* The components listed as `not_modelled`, with their reasons. Hazards that follow
  from these are listed with a note.

## 6. Plan

Done: locks and lease with both refinements; jobs, deliveries, yield queue, and the
last two composed; gates and the unattended session over them; the runtime owner over
the lease, the robogjc pool, the agent loop; the safety of all of these proved.

1. **`ReceiptSpool`** and the locked update of `state-writer.ts` as clients of
   `FileLock`, with a crash between an entry and its cursor.
2. **`JobOutcomes` + `AgentLoop`** composed, from the message to the history; id reuse.
3. **`UiRequests`**, **`ToolChoiceQueue`**, **`SessionRegistry`**: small modules.

Violation runs and narrower runs give way to runs of new components; their
configurations stay.
