---------------------------- MODULE RuntimeOwner ----------------------------
(***************************************************************************)
(* The owner of a harness session (harness-control-plane/owner.ts): a      *)
(* process that holds the session lease, serves the requests that come to  *)
(* its endpoint, drives a gjc subprocess through rpc-adapter.ts, and       *)
(* writes the session's lifecycle and its log of events.                   *)
(*                                                                         *)
(* The lease is used as module LeaseCell promises it, which SessionLease   *)
(* implements.  A writer is what runs on its own in an owner: the pump     *)
(* that logs the frames of the subprocess, and the handler of each         *)
(* request.  Every action is one step from an await to the next.           *)
(***************************************************************************)
EXTENDS Naturals, Sequences

CONSTANTS
    Owner,        \* the owners, each one process, numbered in the order they start
    Request,      \* the requests that come to an endpoint
    Nobody,       \* no owner, no request
    NoLease,      \* there is no lease.json
    Asks,         \* bound: what each request may ask for
    MaxIncidents  \* bound: lost heartbeats, signals and deaths of processes

ASSUME OwnerAssumption   == Owner \subseteq Nat /\ Owner \cap Request = {} /\ Nobody \notin Owner \cup Request
ASSUME NoLeaseAssumption ==
    NoLease \notin [owner : Owner, epoch : Nat \ {0}, expired : BOOLEAN]
ASSUME AsksAssumption == Asks \in [Request -> SUBSET {"submit", "finalize", "retire", "nothing"}]
ASSUME IncidentsAssumption == MaxIncidents \in Nat

VARIABLES
    lease, dead,    \* lease.json, and the owners whose process is gone
    lapsed,         \* the living owners whose lease has run out
    incidents,      \* what has befallen them so far
    life,           \* the lifecycle in state.json
    log,            \* events.jsonl
    up,             \* how far each owner is from start to stop
    cursor,         \* its #cursor
    pump,           \* its frames not yet logged, #framePump
    heard,          \* the frames it has been told of
    verb, to,       \* what each request asks for, and of which owner
    gone,           \* the requests whose client has hung up
    pc,             \* where each writer is
    num,            \* the cursor it has taken for its event
    pre,            \* the adapter's cursor before a submit
    accepted,       \* the frame that made it accepted, 0 for none
    alive,          \* the owners whose subprocess lives
    frames,         \* how many frames it has sent, the adapter's #cursor
    inbox,          \* the prompts it has and has not yet run
    running,        \* the prompt it runs
    starts          \* its agent_start frames, each with its prompt

faults    == <<lapsed, incidents>>
leaseVars == <<lease, dead, faults>>
fileVars  == <<life, log>>
ownerVars == <<up, cursor, pump, heard>>
askVars   == <<verb, to, gone>>
jobVars   == <<askVars, pc, num, pre, accepted>>
childVars == <<alive, frames, inbox, running, starts>>
vars == <<leaseVars, fileVars, ownerVars, jobVars, childVars>>

Cell == INSTANCE LeaseCell

Writer     == Owner \cup Request
Lifecycles == {"started", "observing", "finalizing", "completed",
               "blocked", "retired"}
Verbs      == {"submit", "finalize", "retire", "nothing"}
Places     == {"none", "state", "send", "wait", "save", "lease", "view", "append",
               "idle", "read", "mark", "over", "unsent"}
Phases     == {"off", "starting", "listening", "serving", "stopping", "hurried",
               "closing", "rushed", "closed", "released", "gone"}

TypeOK ==
    /\ lease \in [owner : Owner, epoch : Nat \ {0}, expired : BOOLEAN] \cup {NoLease}
    /\ dead \cup lapsed \cup alive \subseteq Owner /\ incidents \in 0 .. MaxIncidents
    /\ life \in Lifecycles
    /\ log \in Seq([by : Owner, cursor : Nat, frame : Nat])
    /\ up \in [Owner -> Phases] /\ cursor \in [Owner -> Nat]
    /\ pump \in [Owner -> Seq(Nat \X BOOLEAN)] /\ heard \in [Owner -> Seq(Nat)]
    /\ verb \in [Request -> Verbs \cup {"none"}] /\ to \in [Request -> Owner \cup {Nobody}]
    /\ gone \subseteq Request
    /\ pc \in [Writer -> Places]
    /\ num \in [Writer -> Nat]
    /\ {pre, accepted} \subseteq [Request -> Nat]
    /\ frames \in [Owner -> Nat] /\ inbox \in [Owner -> SUBSET Request]
    /\ running \in [Owner -> Request \cup {Nobody}]
    /\ starts \in [Owner -> Seq(Nat \X Request)]

\* A session as `start` leaves it, its owner seen to live.
Init ==
    /\ Cell!Init /\ lapsed = {} /\ incidents = 0
    /\ life = "started" /\ log = <<>>
    /\ up = [o \in Owner |-> "off"] /\ cursor = [o \in Owner |-> 0]
    /\ pump = [o \in Owner |-> <<>>] /\ heard = pump
    /\ verb = [r \in Request |-> "none"] /\ to = [r \in Request |-> Nobody]
    /\ gone = {}
    /\ pc = [w \in Writer |-> "none"]
    /\ num = [w \in Writer |-> 0]
    /\ pre = [r \in Request |-> 0] /\ accepted = pre
    /\ alive = {} /\ frames = [o \in Owner |-> 0]
    /\ inbox = [o \in Owner |-> {}] /\ running = [o \in Owner |-> Nobody]
    /\ starts = [o \in Owner |-> <<>>]

Of(w)      == IF w \in Owner THEN w ELSE to[w]
At(w, p)   == pc[w] = p /\ Of(w) \notin dead
Goto(w, p) == pc' = [pc EXCEPT ![w] = p]

\* The step from p to q of a writer that changes nothing else of its own.
Step(w, p, q) == At(w, p) /\ Goto(w, q)
               /\ UNCHANGED <<askVars, num, pre, accepted>>

CanWrite(o) == lease # NoLease /\ lease.owner = o /\ ~lease.expired

Incident == incidents < MaxIncidents /\ incidents' = incidents + 1

-----------------------------------------------------------------------------
(* The lease and the process of an owner.                                  *)

\* start reads the log for its last cursor, before it has the lease; the
\* subprocess is there already.
ReadLog(o) ==
    LET Cursors == {0} \cup {log[i].cursor : i \in DOMAIN log} IN
    /\ up[o] = "off" /\ \A p \in Owner : p < o => up[p] # "off"
    /\ up' = [up EXCEPT ![o] = "starting"]
    /\ \E last \in Cursors :
          /\ \A c \in Cursors : c <= last
          /\ cursor' = [cursor EXCEPT ![o] = last]
    /\ alive' = alive \cup {o}
    /\ UNCHANGED <<leaseVars, fileVars, pump, heard, jobVars, frames, inbox, running, starts>>

\* With the lease it listens, and emits owner_started.
Acquire(o) ==
    /\ up[o] = "starting"
    /\ Cell!Acquire(o)
    /\ up' = [up EXCEPT ![o] = "listening"]
    /\ Goto(o, "lease")
    /\ UNCHANGED <<faults, fileVars, cursor, pump, heard, askVars, num, pre, accepted,
                   childVars>>

\* A heartbeat that comes after the lease ran out renews it.
Heartbeat(o) ==
    /\ up[o] \in {"serving", "stopping", "hurried"}
    /\ Cell!Heartbeat(o) /\ lease.expired
    /\ UNCHANGED <<faults, fileVars, ownerVars, jobVars, childVars>>

\* The owner is paused for longer than the ttl, or waits for a client that long
\* when its heartbeat has ended.
Expire ==
    /\ Incident
    /\ Cell!Expire /\ ~lease.expired
    /\ lapsed' = lapsed \cup {lease.owner}
    /\ UNCHANGED <<fileVars, ownerVars, jobVars, childVars>>

Reap == Cell!Reap /\ UNCHANGED <<faults, fileVars, ownerVars, jobVars, childVars>>

\* The subprocess is gone with what it had to do.
KillChild(o) ==
    /\ alive' = alive \ {o}
    /\ inbox' = [inbox EXCEPT ![o] = {}]
    /\ running' = [running EXCEPT ![o] = Nobody]

\* The process ends, and its subprocess with it: what either had in memory is gone.
Die(o) ==
    LET forget(f, S, v) == [x \in DOMAIN f |-> IF x \in S THEN v ELSE f[x]]
        mine == {r \in Request : to[r] = o}
    IN  /\ Cell!Die(o)
        /\ KillChild(o)
        /\ up' = forget(up, {o}, "gone") /\ cursor' = forget(cursor, {o}, 0)
        /\ pump' = forget(pump, {o}, <<>>) /\ heard' = forget(heard, {o}, <<>>)
        /\ pc' = forget(pc, mine \cup {o}, "over") /\ num' = forget(num, mine \cup {o}, 0)
        /\ pre' = forget(pre, mine, 0) /\ accepted' = forget(accepted, mine, 0)
        /\ frames' = forget(frames, {o}, 0) /\ starts' = forget(starts, {o}, <<>>)
        /\ lapsed' = lapsed \ {o}
        /\ UNCHANGED <<fileVars, askVars>>

Crash(o) == up[o] \notin {"off", "gone"} /\ Incident /\ Die(o)

\* What a call of stop() makes of the owner's phase.  A second call, of a signal
\* after a retire or the other way round, finds no server to close.
StopCalled == [serving |-> "stopping", stopping |-> "hurried", closing |-> "rushed"]
Stopped(p) == IF p \in DOMAIN StopCalled THEN StopCalled[p] ELSE p

\* stop() on a signal: the owner is told of no more frames.
StopBegins(o) ==
    /\ up[o] \in DOMAIN StopCalled /\ Incident
    /\ up' = [up EXCEPT ![o] = Stopped(@)]
    /\ UNCHANGED <<lease, dead, lapsed, fileVars, cursor, pump, heard, jobVars, childVars>>

\* Mutant: stop does not wait for the frames that are still to be logged.
CloseAtOnce(o) ==
    /\ up[o] \in {"stopping", "hurried"}
    /\ up' = [up EXCEPT ![o] = IF @ = "stopping" THEN "closing" ELSE "rushed"]
    /\ UNCHANGED <<leaseVars, fileVars, cursor, pump, heard, jobVars, childVars>>

\* When the pump has run dry the heartbeat ends and the endpoint takes no more
\* connections.
Close(o) ==
    /\ up[o] \in {"stopping", "hurried"}
    /\ pc[o] = "idle" /\ pump[o] = <<>>
    /\ up' = [up EXCEPT ![o] = IF @ = "stopping" THEN "closing" ELSE "rushed"]
    /\ UNCHANGED <<leaseVars, fileVars, cursor, pump, heard, jobVars, childVars>>

\* A connection ends when its request is answered or its client hangs up.
Connected(r) == verb[r] # "none" /\ pc[r] # "over" /\ r \notin gone

\* A client leaves: callEndpoint does five seconds after it has connected.  The
\* handler of its request goes on.  (When it leaves earlier makes no difference:
\* only an owner that is closing looks.)
HangUp(r) ==
    /\ Connected(r) /\ up[to[r]] = "closing"
    /\ gone' = gone \cup {r}
    /\ UNCHANGED <<leaseVars, fileVars, ownerVars, verb, to, pc, num, pre, accepted, childVars>>

\* When the last connection has ended the server is closed, and the subprocess
\* with it: handlers whose client has left are not waited for.
Shut(o) ==
    /\ \/ up[o] = "rushed"
       \/ up[o] = "closing" /\ \A r \in Request : to[r] = o => ~Connected(r)
    /\ up' = [up EXCEPT ![o] = "closed"]
    /\ KillChild(o)
    /\ UNCHANGED <<leaseVars, fileVars, cursor, pump, heard, jobVars, frames, starts>>

Release(o) ==
    /\ up[o] = "closed"
    /\ IF lease # NoLease /\ lease.owner = o THEN Cell!Release(o) ELSE UNCHANGED <<lease, dead>>
    /\ up' = [up EXCEPT ![o] = "released"]
    /\ UNCHANGED <<faults, fileVars, cursor, pump, heard, jobVars, childVars>>

\* The process ends, and its handlers with it.
Exit(o) == up[o] = "released" /\ Die(o) /\ UNCHANGED incidents

-----------------------------------------------------------------------------
(* The requests.                                                           *)

\* A request comes, until the endpoint is closed, and its handler reads the
\* state.  A submit goes on only from a lifecycle that is ready for one, and asks
\* the subprocess for its state, which fails without one; nothing else is refused
\* for its lifecycle.  A client may connect and send nothing.
Arrive(r, v, o) ==
    /\ verb[r] = "none" /\ up[o] \in {"serving", "stopping", "hurried"}
    /\ verb' = [verb EXCEPT ![r] = v] /\ to' = [to EXCEPT ![r] = o]
    /\ Goto(r, CASE v = "nothing" -> "unsent"
                 [] v \in {"finalize", "retire"} -> "save"
                 [] life \in {"started", "observing"} /\ o \in alive -> "state"
                 [] OTHER -> "over")
    /\ UNCHANGED <<leaseVars, fileVars, ownerVars, gone, num, pre, accepted, childVars>>

\* The lifecycle the request makes of the one it read before its checks or its
\* prompt, whatever it is by now.
Save(r) ==
    /\ Step(r, "save", "lease")
    /\ \/ verb[r] = "submit"   /\ life' = "observing"
       \/ verb[r] = "retire"   /\ life' = "retired"
       \/ verb[r] = "finalize" /\ life' \in {"completed", "blocked"}
    /\ UNCHANGED <<leaseVars, log, ownerVars, childVars>>

-----------------------------------------------------------------------------
(* singleFlightAccept.                                                     *)

\* The answer to get_state: a busy session refuses the prompt.  A subprocess that
\* has died meanwhile does not answer, and nobody notices.
GetState(r) ==
    /\ At(r, "state") /\ to[r] \in alive
    /\ pre' = [pre EXCEPT ![r] = frames[to[r]]]
    /\ Goto(r, IF running[to[r]] = Nobody THEN "send" ELSE "lease")
    /\ UNCHANGED <<leaseVars, fileVars, ownerVars, askVars, num, accepted, childVars>>

\* The prompt is written and acknowledged; without a subprocess the write fails.
Send(r) ==
    /\ At(r, "send")
    /\ IF to[r] \in alive
       THEN /\ Step(r, "send", "wait")
            /\ inbox' = [inbox EXCEPT ![to[r]] = @ \cup {r}]
       ELSE /\ Step(r, "send", "over")
            /\ UNCHANGED inbox
    /\ UNCHANGED <<leaseVars, fileVars, ownerVars, alive, frames, running, starts>>

Later(r) == {i \in DOMAIN starts[to[r]] : starts[to[r]][i][1] > pre[r]}

\* The first agent_start after the cursor of the submit makes it accepted.
Accept(r) ==
    /\ At(r, "wait")
    /\ \E i \in Later(r) :
          /\ \A j \in Later(r) : i <= j
          /\ accepted' = [accepted EXCEPT ![r] = starts[to[r]][i][1]]
    /\ Goto(r, "save")
    /\ UNCHANGED <<leaseVars, fileVars, ownerVars, askVars, num, pre, childVars>>

\* There was none in time: prompt_not_accepted.
Timeout(r) ==
    /\ Step(r, "wait", "lease") /\ Later(r) = {}
    /\ UNCHANGED <<leaseVars, fileVars, ownerVars, childVars>>

-----------------------------------------------------------------------------
(* #emit, of the pump and of the handlers.                                 *)

\* A writer that is done with its event, or was refused, has nothing in memory.
Forget(w) ==
    /\ num' = [num EXCEPT ![w] = 0]
    /\ IF w \in Owner THEN UNCHANGED <<pre, accepted>>
       ELSE pre' = [pre EXCEPT ![w] = 0] /\ accepted' = [accepted EXCEPT ![w] = 0]

\* Mutant: a retire is answered and the owner goes on.
ReturnOnly(w) ==
    /\ Forget(w)
    /\ Goto(w, IF w \in Owner THEN "idle" ELSE "over")
    /\ IF w \in Owner
       THEN /\ up' = [up EXCEPT ![w] = IF @ = "listening" THEN "serving" ELSE @]
            /\ pump' = [pump EXCEPT ![w] = IF @ = <<>> THEN @ ELSE Tail(@)]
       ELSE UNCHANGED <<up, pump>>

\* A writer that has emitted, or was not let: the pump takes its next frame, a
\* request is answered, and one to retire stops its owner.
Return(w) ==
    /\ Forget(w)
    /\ Goto(w, IF w \in Owner THEN "idle" ELSE "over")
    /\ IF w \in Owner
       THEN /\ up' = [up EXCEPT ![w] = IF @ = "listening" THEN "serving" ELSE @]
            /\ pump' = [pump EXCEPT ![w] = IF @ = <<>> THEN @ ELSE Tail(@)]
       ELSE /\ up' = [up EXCEPT ![to[w]] =
                        IF verb[w] = "retire" THEN Stopped(@) ELSE @]
            /\ UNCHANGED pump

CheckLease(w) ==
    /\ At(w, "lease")
    /\ IF CanWrite(Of(w))
       THEN Goto(w, "view") /\ UNCHANGED <<up, pump, num, pre, accepted>>
       ELSE Return(w)
    /\ UNCHANGED <<leaseVars, fileVars, cursor, heard, askVars, childVars>>

\* Mutant: the next cursor is counted once the event is in the file.
TakeLate(w) ==
    /\ At(w, "view") /\ Goto(w, "append")
    /\ num' = [num EXCEPT ![w] = Len(SelectSeq(log, LAMBDA e : e.by = Of(w))) + 1]
    /\ UNCHANGED <<leaseVars, fileVars, ownerVars, askVars, pre, accepted, childVars>>

\* With the state read for its view, the event takes the next cursor.
TakeCursor(w) ==
    /\ At(w, "view") /\ Goto(w, "append")
    /\ cursor' = [cursor EXCEPT ![Of(w)] = @ + 1]
    /\ num' = [num EXCEPT ![w] = cursor[Of(w)] + 1]
    /\ UNCHANGED <<leaseVars, fileVars, up, pump, heard, askVars, pre, accepted,
                   childVars>>

AppendEvent(w) ==
    /\ At(w, "append")
    /\ log' = Append(log, [by |-> Of(w), cursor |-> num[w],
                           frame |-> IF w \in Owner /\ pump[w] # <<>> THEN pump[w][1][1] ELSE 0])
    /\ Return(w)
    /\ UNCHANGED <<leaseVars, life, cursor, heard, askVars, childVars>>

-----------------------------------------------------------------------------
(* The pump.                                                               *)

\* The next frame: one that says the agent has completed changes the lifecycle.
NextFrame(o) ==
    /\ pump[o] # <<>>
    /\ Step(o, "idle", IF pump[o][1][2] THEN "read" ELSE "lease")
    /\ UNCHANGED <<leaseVars, fileVars, ownerVars, childVars>>

ReadState(o) ==
    /\ Step(o, "read", IF life \in {"completed", "retired", "finalizing"} THEN "lease" ELSE "mark")
    /\ UNCHANGED <<leaseVars, fileVars, ownerVars, childVars>>

MarkFinalizing(o) ==
    /\ Step(o, "mark", "lease")
    /\ life' = "finalizing"
    /\ UNCHANGED <<leaseVars, log, ownerVars, childVars>>

-----------------------------------------------------------------------------
(* The subprocess of o: gjc in rpc mode, and the adapter's reader.         *)

\* A frame counts, and is for the pump while the owner listens to frames.
Frame(o, done) ==
    LET n == frames[o] + 1
    IN  /\ frames' = [frames EXCEPT ![o] = n]
        /\ IF up[o] = "serving"
           THEN /\ pump' = [pump EXCEPT ![o] = Append(@, <<n, done>>)]
                /\ heard' = [heard EXCEPT ![o] = Append(@, n)]
           ELSE UNCHANGED <<pump, heard>>

\* A prompt starts the agent when it is idle.
Begin(o, r) ==
    /\ o \in alive /\ r \in inbox[o] /\ running[o] = Nobody
    /\ inbox' = [inbox EXCEPT ![o] = @ \ {r}]
    /\ running' = [running EXCEPT ![o] = r]
    /\ starts' = [starts EXCEPT ![o] = Append(@, <<frames[o] + 1, r>>)]
    /\ Frame(o, FALSE)
    /\ UNCHANGED <<leaseVars, fileVars, up, cursor, jobVars, alive>>

\* A prompt comes to nothing: the agent is busy, or it fails before it starts.
Drop(o, r) ==
    /\ o \in alive /\ r \in inbox[o]
    /\ inbox' = [inbox EXCEPT ![o] = @ \ {r}]
    /\ UNCHANGED <<leaseVars, fileVars, ownerVars, jobVars, alive, frames, running, starts>>

Complete(o) ==
    /\ o \in alive /\ running[o] # Nobody
    /\ running' = [running EXCEPT ![o] = Nobody]
    /\ Frame(o, TRUE)
    /\ UNCHANGED <<leaseVars, fileVars, up, cursor, jobVars, alive, inbox, starts>>

\* The subprocess ends by itself: the owner and its lease stay.
ChildDies(o) ==
    /\ o \in alive /\ Incident
    /\ KillChild(o)
    /\ UNCHANGED <<lease, dead, lapsed, fileVars, ownerVars, jobVars, frames, starts>>

-----------------------------------------------------------------------------

Handle(r) ==
    Save(r) \/ GetState(r) \/ Send(r) \/ Accept(r) \/ Timeout(r)

Emit(w) == CheckLease(w) \/ TakeCursor(w) \/ AppendEvent(w)

Pump(o) == NextFrame(o) \/ ReadState(o) \/ MarkFinalizing(o)

Child(o) == Complete(o) \/ \E r \in Request : Begin(o, r) \/ Drop(o, r)

Next ==
    \/ Expire \/ Reap
    \/ \E o \in Owner :
          \/ ReadLog(o) \/ Acquire(o) \/ Heartbeat(o) \/ Crash(o) \/ StopBegins(o)
          \/ Close(o) \/ Shut(o) \/ Release(o) \/ Exit(o)
          \/ Pump(o) \/ Child(o) \/ ChildDies(o)
    \/ \E r \in Request :
          \/ Handle(r) \/ HangUp(r)
          \/ \E v \in Asks[r], o \in Owner : Arrive(r, v, o)
    \/ \E w \in Writer : Emit(w)

Spec == Init /\ [][Next]_vars

\* What an owner has begun goes on while its process lives.
Progress ==
    \/ \E o \in Owner : Close(o) \/ Shut(o) \/ Release(o) \/ Exit(o) \/ Pump(o) \/ Child(o)
    \/ \E r \in Request : Handle(r)
    \/ \E w \in Writer : Emit(w)

\* Clients do not stay for ever: those of the CLI wait five seconds.
Fairness == WF_vars(Progress) /\ WF_vars(\E r \in Request : HangUp(r))

FairSpec == Spec /\ Fairness

-----------------------------------------------------------------------------
(* Properties.                                                             *)

\* What an owner was told by its subprocess is in the log in the order it came,
\* each frame once, up to those still in the pump: also when it stops, and with
\* requests that write events in between, as long as its lease never ran out.
Logged(o) == {i \in DOMAIN log : log[i].by = o /\ log[i].frame # 0}

FramesLogged ==
    \A o \in Owner \ (lapsed \cup dead) :
        /\ \A i, j \in DOMAIN heard[o] : i < j => heard[o][i] < heard[o][j]
        /\ \A i, j \in Logged(o) : i < j => log[i].frame < log[j].frame
        /\ {log[i].frame : i \in Logged(o)} =
               {heard[o][i] : i \in 1 .. Len(heard[o]) - Len(pump[o])}

\* No two events of an owner have the same cursor, though its pump and its
\* handlers await the lease and the state before they take one.
OwnCursors ==
    \A i, j \in DOMAIN log :
        i # j /\ log[i].by = log[j].by => log[i].cursor # log[j].cursor

Retiring ==
    \E r \in Request : verb[r] = "retire" /\ pc[r] = "over" /\ lease # NoLease
                       /\ lease.owner = to[r] /\ to[r] \notin dead

\* An owner that has answered a retire gives its lease back, as long as its clients
\* hang up in the end, which those of the CLI do: neither its pump, nor a handler
\* that is never answered, nor a client that sends nothing keeps it from that.
RetireReleases == Retiring ~> ~Retiring

\* owner-frames.test.ts:123: "cursors strictly increasing", over the whole log.
CursorsIncrease ==
    \A i, j \in DOMAIN log : i < j => log[i].cursor < log[j].cursor

\* owner.ts:253, "Single-writer guard: only emit while we still hold a live lease":
\* once an owner has taken the session over, its predecessor writes no event.
SingleWriter ==
    \A i, j, k \in DOMAIN log :
        i < j /\ j < k /\ log[i].by = log[k].by => log[j].by = log[i].by

\* state-machine.ts:25: nothing follows the lifecycle retired.
RetiredStays == [][life = "retired" => life' = "retired"]_life

\* rpc-adapter.ts:5: a prompt is accepted by the agent_start that follows it; so
\* that one agent_start accepts one prompt, the one it runs.
AcceptedIsRun ==
    \A r \in Request : accepted[r] # 0 =>
        \E i \in DOMAIN starts[to[r]] : starts[to[r]][i] = <<accepted[r], r>>

\* rpc-adapter.ts:25: getState is a promise for the state: a request is answered,
\* or its owner is gone.
RequestsAnswered ==
    \A r \in Request : verb[r] # "none" ~> pc[r] = "over" \/ to[r] \in dead

=============================================================================
