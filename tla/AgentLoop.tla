----------------------------- MODULE AgentLoop ------------------------------
(***************************************************************************)
(* The agent of packages/agent: prompts, messages that steer it or follow  *)
(* up while it runs, the loop that calls the model and executes its tool   *)
(* calls, abort and forced abort (agent.ts, agent-loop.ts).                *)
(*                                                                         *)
(* A run has two halves that proceed on their own: the loop, which pushes  *)
(* events into a stream, and the agent, which takes them from it and keeps *)
(* the history.  Each action is one turn of the event loop, up to the next *)
(* await.  The loop of a run that was abandoned goes on in the background. *)
(***************************************************************************)
EXTENDS Naturals, Sequences, FiniteSets, SequencesExt

CONSTANTS
    Tools,          \* how many tool calls a message with calls has
    Exclusive,      \* those whose tool admits no other beside it
    OneAtATime,     \* steeringMode and followUpMode one-at-a-time, or all
    Interrupts,     \* interruptMode immediate, or wait
    MaxRuns,        \* bound: how often the loop is started
    MaxMessages,    \* bound: how many messages the user sends
    MaxCalls        \* bound: how many answers have calls

Tool == 1 .. Tools
Run  == 1 .. MaxRuns

ASSUME ToolAssumption  == Tools \in Nat \ {0} /\ Exclusive \subseteq Tool
ASSUME ModeAssumption  == OneAtATime \in BOOLEAN /\ Interrupts \in BOOLEAN
ASSUME BoundAssumption == {MaxRuns, MaxMessages, MaxCalls} \subseteq Nat

VARIABLES
    steering, follow,   \* the queues of the agent
    gone,               \* the messages the user took back from them
    lost,               \* those a run had dequeued when it was given up
    sent,               \* how many messages the user has sent
    history,            \* state.messages
    streaming,          \* state.isStreaming
    active,             \* the active run id, 0 for none
    promised,           \* the run whose promise is #runningPrompt, 0 for none
    settled,            \* the runs whose promise has been settled
    seq,                \* the last run id given
    pc,                 \* where the loop of each run is
    pend,               \* the messages that have interrupted its tools
    tool,               \* how far each tool call of the current message is
    calls,              \* how many answers with calls there have been
    buf,                \* the events pushed and not yet consumed
    cons,               \* how far the agent is with the events of each run
    aborted, forced     \* the runs that were aborted, by force or not

queueVars == <<steering, follow, gone, lost, sent>>
agentVars == <<history, streaming, active, promised, settled, seq>>
loopVars  == <<pc, pend, tool, calls, buf>>
runVars   == <<cons, aborted, forced>>
vars == <<queueVars, agentVars, loopVars, runVars>>

Message == 1 .. MaxMessages
Entry == {"user", "text", "stopped", "call", "result", "end", "fail"} \X Nat

TypeOK ==
    /\ steering \in Seq(Message) /\ follow \in Seq(Message)
    /\ gone \cup lost \subseteq Message /\ sent \in 0 .. MaxMessages
    /\ history \in Seq(Entry)
    /\ streaming \in BOOLEAN
    /\ active \in Run \cup {0} /\ promised \in Run \cup {0}
    /\ settled \subseteq Run /\ seq \in 0 .. MaxRuns
    /\ pc \in [Run -> {"none", "model", "tools", "turnend", "yield", "over"}]
    /\ pend \in [Run -> Seq(Message)]
    /\ tool \in [Run -> [Tool -> {"none", "wait", "run", "join", "over", "skipped"}]]
    /\ calls \in 0 .. MaxCalls
    /\ buf \in [Run -> Seq(Entry)]
    /\ cons \in [Run -> {"none", "loop", "ended", "over"}]
    /\ aborted \subseteq Run /\ forced \subseteq Run

User(ms) == [i \in DOMAIN ms |-> <<"user", ms[i]>>]
Text     == <<"text", 0>>
Stopped  == <<"stopped", 0>>
Call     == <<"call", 0>>
End      == <<"end", 0>>
Failure  == <<"fail", 0>>
Result(i) == <<"result", i>>

\* The results of the calls in S, in the order of the calls.
Results(S) ==
    LET upTo[n \in 0 .. Tools] ==
            IF n = 0 THEN <<>>
            ELSE IF n \in S THEN Append(upTo[n - 1], Result(n)) ELSE upTo[n - 1]
    IN  upTo[Tools]

NoTools == [i \in Tool |-> "none"]

Init ==
    /\ steering = <<>> /\ follow = <<>> /\ gone = {} /\ lost = {} /\ sent = 0
    /\ history = <<>> /\ streaming = FALSE
    /\ active = 0 /\ promised = 0 /\ settled = {} /\ seq = 0
    /\ pc = [r \in Run |-> "none"] /\ pend = [r \in Run |-> <<>>]
    /\ tool = [r \in Run |-> NoTools] /\ calls = 0
    /\ buf = [r \in Run |-> <<>>] /\ cons = [r \in Run |-> "none"]
    /\ aborted = {} /\ forced = {}

-----------------------------------------------------------------------------
(* The queues.                                                             *)

\* What one dequeue takes from a queue, and what it leaves.
Taken(q) == IF OneAtATime THEN SubSeq(q, 1, IF q = <<>> THEN 0 ELSE 1) ELSE q
Left(q)  == SubSeq(q, Len(Taken(q)) + 1, Len(q))

Send == sent < MaxMessages /\ sent' = sent + 1

Steer ==
    /\ Send
    /\ steering' = Append(steering, sent + 1)
    /\ UNCHANGED <<follow, gone, lost, agentVars, loopVars, runVars>>

FollowUp ==
    /\ Send
    /\ follow' = Append(follow, sent + 1)
    /\ UNCHANGED <<steering, gone, lost, agentVars, loopVars, runVars>>

\* popLastSteer, popLastFollowUp: the user takes the latest message back.
TakeBack ==
    /\ \/ /\ steering # <<>>
          /\ steering' = Front(steering)
          /\ gone' = gone \cup {Last(steering)}
          /\ UNCHANGED follow
       \/ /\ follow # <<>>
          /\ follow' = Front(follow)
          /\ gone' = gone \cup {Last(follow)}
          /\ UNCHANGED steering
    /\ UNCHANGED <<lost, sent, agentVars, loopVars, runVars>>

-----------------------------------------------------------------------------
(* prompt, continue, abort.                                                *)

\* #runLoop up to its first wait: the loop has pushed the prompts, polled the
\* steering queue q, unless it is told to skip that, and injected what it found.
StartRun(prompts, skip, q) ==
    LET r  == seq + 1
        ms == IF skip THEN <<>> ELSE Taken(q)
    IN  /\ seq < MaxRuns
        /\ seq' = r /\ active' = r /\ promised' = r
        /\ streaming' = TRUE
        /\ steering' = IF skip THEN q ELSE Left(q)
        /\ buf' = [buf EXCEPT ![r] = User(prompts \o ms)]
        /\ pc' = [pc EXCEPT ![r] = "model"]
        /\ cons' = [cons EXCEPT ![r] = "loop"]
        /\ UNCHANGED <<gone, lost, history, settled, pend, tool, calls, aborted, forced>>

Prompt ==
    /\ ~streaming
    /\ Send
    /\ StartRun(<<sent + 1>>, FALSE, steering)
    /\ UNCHANGED follow

FromAssistant == history # <<>> /\ Last(history)[1] \in {"text", "stopped", "call"}

\* continue(): after an assistant message with what is queued, steering first;
\* after any other message with the context as it is.
Continue ==
    /\ ~streaming /\ history # <<>>
    /\ \/ /\ FromAssistant /\ steering # <<>>
          /\ StartRun(Taken(steering), TRUE, Left(steering))
          /\ UNCHANGED follow
       \/ /\ FromAssistant /\ steering = <<>> /\ follow # <<>>
          /\ StartRun(Taken(follow), FALSE, steering)
          /\ follow' = Left(follow)
       \/ /\ ~FromAssistant
          /\ StartRun(<<>>, FALSE, steering)
          /\ UNCHANGED follow
    /\ UNCHANGED sent

\* abort() reaches the run whose controller the agent still has.
Abort ==
    /\ promised # 0 /\ promised \notin aborted
    /\ aborted' = aborted \cup {promised}
    /\ UNCHANGED <<queueVars, agentVars, loopVars, cons, forced>>

At(m, q) == {i \in DOMAIN q : q[i] = m}

\* Where m is in what run r has dequeued, or pushed and not yet delivered.
InRun(m, r) ==
    ({"pend"} \X {r} \X At(m, pend[r])) \cup ({"buf"} \X {r} \X At(<<"user", m>>, buf[r]))

\* The active run is given up with the messages it has dequeued.
GiveUp ==
    /\ forced' = forced \cup ({active} \cap Run)
    /\ lost' = lost \cup {m \in Message : \E r \in {active} \cap Run : InRun(m, r) # {}}
    /\ active' = 0 /\ streaming' = FALSE /\ promised' = 0

\* Mutant: the forced abort does not settle the promise of the run.
ForceAbortUnresolved ==
    /\ promised # 0 \/ streaming
    /\ aborted' = aborted \cup ({promised} \cap Run)
    /\ GiveUp
    /\ UNCHANGED <<steering, follow, gone, sent, history, settled, seq, loopVars, cons>>

\* forceAbort() also gives the run up: its events count for nothing from here.
ForceAbort ==
    /\ promised # 0 \/ streaming
    /\ aborted' = aborted \cup ({promised} \cap Run)
    /\ GiveUp
    /\ settled' = settled \cup ({promised} \cap Run)
    /\ UNCHANGED <<steering, follow, gone, sent, history, seq, loopVars, cons>>

-----------------------------------------------------------------------------
(* The loop of run r.                                                      *)

\* Nobody takes the further events of a run that is not the active one.
Push(r, es) == buf' = [buf EXCEPT ![r] = IF active = r THEN @ \o es ELSE @]
Goto(r, l)  == pc' = [pc EXCEPT ![r] = l]

\* getSteeringMessages, getFollowUpMessages: a run that is not the active one
\* finds nothing.
Polled(r, q)  == IF active = r THEN Taken(q) ELSE <<>>
Unpolled(r, q) == IF active = r THEN Left(q) ELSE q

Done(t, i) == t[i] \in {"over", "skipped"}

\* An exclusive tool runs alone; after an interruption no more are started.
Started(t, stop) ==
    LET may(i) == \A j \in 1 .. i - 1 : i \in Exclusive \/ j \in Exclusive => Done(t, j)
    IN  [i \in Tool |-> IF t[i] # "wait" THEN t[i] ELSE IF stop THEN "skipped"
                       ELSE IF may(i) THEN "run" ELSE "wait"]

\* A steering check is under way; one has found messages.
Checking(r)    == \E i \in Tool : tool[r][i] = "join"
Interrupted(r) == pend[r] # <<>> /\ ~Checking(r)

\* An aborted or failed message may already have calls: each gets a result.
CutShort(r) ==
    \E es \in {<<Stopped>>, <<Call>> \o Results(Tool)} : Push(r, es \o <<End>>)

\* Mutant: what the loop throws is lost.
ThrowLost(r) == UNCHANGED buf

\* What the loop throws fails the stream.
Throw(r) == Push(r, <<Failure>>)

\* The model answers, with calls or without; it is aborted, or fails; or the
\* call throws.  An abort wins over any answer.  Before it asks the model the loop
\* gives way to the listeners, and so to the agent's side of the run.
Model(r) ==
    /\ pc[r] = "model" /\ buf[r] = <<>>
    /\ \/ /\ r \notin aborted /\ calls < MaxCalls
          /\ Push(r, <<Call>>)
          /\ tool' = [tool EXCEPT ![r] = Started([i \in Tool |-> "wait"], FALSE)]
          /\ calls' = calls + 1
          /\ Goto(r, "tools")
       \/ /\ r \notin aborted
          /\ Push(r, <<Text>>)
          /\ Goto(r, "turnend")
          /\ UNCHANGED <<tool, calls>>
       \/ /\ CutShort(r)
          /\ Goto(r, "over")
          /\ UNCHANGED <<tool, calls>>
       \/ /\ Throw(r)
          /\ Goto(r, "over")
          /\ UNCHANGED <<tool, calls>>
    /\ UNCHANGED <<queueVars, agentVars, pend, runVars>>

Poll(r) ==
    /\ pend' = [pend EXCEPT ![r] = Polled(r, steering)]
    /\ steering' = Unpolled(r, steering)

\* Mutant: each tool that ends polls the queue for itself.
CheckAlone(r, i) ==
    IF Interrupts
    THEN /\ Poll(r)
         /\ tool' = [tool EXCEPT ![r][i] = "join"]
    ELSE /\ tool' = [tool EXCEPT ![r] = Started([@ EXCEPT ![i] = "over"], FALSE)]
         /\ UNCHANGED <<pend, steering>>

\* checkSteering: the tools that end while a check is under way share it.
CheckSteering(r, i) ==
    IF ~Interrupts \/ Interrupted(r)
    THEN /\ tool' = [tool EXCEPT ![r] = Started([@ EXCEPT ![i] = "over"], Interrupted(r))]
         /\ UNCHANGED <<pend, steering>>
    ELSE /\ tool' = [tool EXCEPT ![r][i] = "join"]
         /\ IF Checking(r) THEN UNCHANGED <<pend, steering>> ELSE Poll(r)

\* A tool ends, well, with an error or skipped, and its result is emitted.
EndTool(r, i) ==
    /\ pc[r] = "tools" /\ tool[r][i] = "run"
    /\ Push(r, <<Result(i)>>)
    /\ CheckSteering(r, i)
    /\ UNCHANGED <<follow, gone, lost, sent, agentVars, pc, calls, runVars>>

\* The answer of a steering check arrives: messages stop the tools yet to start.
EndCheck(r) ==
    /\ Checking(r)
    /\ tool' = [tool EXCEPT ![r] =
          Started([i \in Tool |-> IF @[i] = "join" THEN "over" ELSE @[i]], pend[r] # <<>>)]
    /\ UNCHANGED <<queueVars, agentVars, pc, pend, calls, buf, runVars>>

\* The messages found, if there are any, go in before the next answer.
Inject(r, es, ms) == Push(r, es \o User(ms)) /\ Goto(r, "model")

\* The run ends: the host pauses it (a run that is not the active one is never
\* paused), or there is nothing left to do.
Pause(r, es, ms) == ms = <<>> /\ active = r /\ Push(r, Append(es, End)) /\ Goto(r, "over")

\* Mutant: what was skipped gets no result.
ToolsEndUnpaired(r) ==
    /\ pc[r] = "tools" /\ \A i \in Tool : Done(tool[r], i)
    /\ LET ms == IF Interrupted(r) THEN pend[r] ELSE Polled(r, steering)
       IN  Inject(r, <<>>, ms) \/ Pause(r, <<>>, ms)
    /\ steering' = IF Interrupted(r) THEN steering ELSE Unpolled(r, steering)
    /\ pend' = [pend EXCEPT ![r] = <<>>]
    /\ tool' = [tool EXCEPT ![r] = NoTools]
    /\ UNCHANGED <<follow, gone, lost, sent, agentVars, calls, runVars>>

\* All tools are over; those that were skipped get a result, and the loop
\* goes on with the messages that interrupted it or polls for others.
ToolsEnd(r) ==
    /\ pc[r] = "tools" /\ \A i \in Tool : Done(tool[r], i)
    /\ LET skipped == Results({i \in Tool : tool[r][i] = "skipped"})
           ms == IF Interrupted(r) THEN pend[r] ELSE Polled(r, steering)
       IN  Inject(r, skipped, ms) \/ Pause(r, skipped, ms)
    /\ steering' = IF Interrupted(r) THEN steering ELSE Unpolled(r, steering)
    /\ pend' = [pend EXCEPT ![r] = <<>>]
    /\ tool' = [tool EXCEPT ![r] = NoTools]
    /\ UNCHANGED <<follow, gone, lost, sent, agentVars, calls, runVars>>

\* After an answer without calls the loop polls as well; without a message it
\* comes to onBeforeYield.
TurnEnd(r) ==
    /\ pc[r] = "turnend"
    /\ LET ms == Polled(r, steering)
       IN  \/ ms # <<>> /\ Inject(r, <<>>, ms)
           \/ Pause(r, <<>>, ms)
           \/ ms = <<>> /\ Goto(r, "yield") /\ UNCHANGED buf
    /\ steering' = Unpolled(r, steering)
    /\ UNCHANGED <<follow, gone, lost, sent, agentVars, pend, tool, calls, runVars>>

\* After onBeforeYield: the host pauses the run, or follow-ups start the loop
\* over, or the run ends; unless the hook itself fails the stream.
Yield(r) ==
    /\ pc[r] = "yield"
    /\ \/ Pause(r, <<>>, <<>>) /\ UNCHANGED follow
       \/ Throw(r) /\ Goto(r, "over") /\ UNCHANGED follow
       \/ LET ms == Polled(r, follow)
          IN  /\ IF ms # <<>> THEN Inject(r, <<>>, ms)
                              ELSE Push(r, <<End>>) /\ Goto(r, "over")
              /\ follow' = Unpolled(r, follow)
    /\ UNCHANGED <<steering, gone, lost, sent, agentVars, pend, tool, calls, runVars>>

-----------------------------------------------------------------------------
(* The agent's side of run r.                                              *)

\* The next event: messages go into the history, the end of the run makes the
\* agent idle (its promise settles later), a failure is a message of its own.
Consume(r) ==
    /\ cons[r] = "loop" /\ buf[r] # <<>>
    /\ LET e == Head(buf[r])
       IN  IF active # r
           THEN /\ cons' = [cons EXCEPT ![r] = "over"]
                /\ buf' = [buf EXCEPT ![r] = <<>>]
                /\ UNCHANGED <<history, streaming>>
           ELSE /\ buf' = [buf EXCEPT ![r] = Tail(@)]
                /\ history' = IF e = End THEN history
                              ELSE Append(history, IF e = Failure THEN Stopped ELSE e)
                /\ streaming' = (streaming /\ e # End)
                /\ cons' = [cons EXCEPT ![r] = IF e \in {End, Failure} THEN "ended" ELSE @]
    /\ UNCHANGED <<queueVars, active, promised, settled, seq, pc, pend, tool,
                   calls, aborted, forced>>

\* Mutant: the finally clause does not look whether its run is the active one.
FinallyAlways(r) ==
    /\ cons[r] = "ended"
    /\ cons' = [cons EXCEPT ![r] = "over"]
    /\ streaming' = FALSE /\ active' = 0 /\ promised' = 0
    /\ settled' = settled \cup ({promised} \cap Run)
    /\ UNCHANGED <<queueVars, history, seq, loopVars, aborted, forced>>

\* The finally clause settles the promise, if the run is still the active one.
Finally(r) ==
    /\ cons[r] = "ended"
    /\ cons' = [cons EXCEPT ![r] = "over"]
    /\ IF active = r
       THEN /\ streaming' = FALSE /\ active' = 0 /\ promised' = 0
            /\ settled' = settled \cup ({promised} \cap Run)
       ELSE UNCHANGED <<streaming, active, promised, settled>>
    /\ UNCHANGED <<queueVars, history, seq, loopVars, aborted, forced>>

-----------------------------------------------------------------------------

Loop(r) ==
    \/ Model(r) \/ EndCheck(r) \/ ToolsEnd(r) \/ TurnEnd(r) \/ Yield(r)
    \/ \E i \in Tool : EndTool(r, i)

Next ==
    \/ Steer \/ FollowUp \/ TakeBack \/ Prompt \/ Continue
    \/ Abort \/ ForceAbort
    \/ \E r \in Run : Loop(r) \/ Consume(r) \/ Finally(r)

Spec == Init /\ [][Next]_vars

\* The event loop goes on: models answer or give up, tools end.
Fairness == WF_vars(\E r \in Run : Loop(r) \/ Consume(r) \/ Finally(r))

FairSpec == Spec /\ Fairness

-----------------------------------------------------------------------------
(* Properties.                                                             *)

Places(m) ==
    ({"steering"} \X {0} \X At(m, steering)) \cup ({"follow"} \X {0} \X At(m, follow))
    \cup ({"history"} \X {0} \X At(<<"user", m>>, history))
    \cup UNION {InRun(m, r) : r \in Run \ forced}

\* Every message the user sent and did not take back is in one place, once: in
\* a queue, in a run that goes on, or in the history; only what a run had dequeued
\* when it was given up by force is in none of them.  No end of a run, interruption
\* of its tools or late answer to an abort loses a message or delivers it twice.
DeliveredOnce ==
    /\ \A m \in 1 .. sent :
          /\ Places(m) = {} <=> m \in gone \cup lost
          /\ \A x, y \in Places(m) : x = y
    /\ \A m \in 1 .. sent, r \in Run \ forced :
          cons[r] = "over" => InRun(m, r) = {}

PairedFrom(i) ==
    LET rest == {j \in DOMAIN history : i < j /\ j <= i + Tools}
    IN  /\ \A j \in rest : history[j][1] = "result"
        /\ \A j, k \in rest : history[j] = history[k] => j = k
        /\ ~streaming => i + Tools <= Len(history)

\* The results of the calls of a message follow it directly, each once, and
\* none is missing when the agent is idle: however its tools were interrupted,
\* and when it was aborted or failed itself.  A forced abort may break this.
Paired ==
    forced = {} => \A i \in DOMAIN history : history[i] = Call => PairedFrom(i)

\* A run that goes on is the active one and the agent says it is streaming;
\* also when the next prompt came before the last run had cleaned up.
OneActiveRun ==
    \A r \in Run : cons[r] = "loop" /\ r \notin forced => active = r /\ streaming

\* A run ends, however it is steered, followed up or aborted.
RunsEnd == streaming ~> ~streaming

\* The promise that waitForIdle hands out for a run settles, unless a next run has
\* begun first: a forced abort settles it, and so does the run's own end.
WaitersResume == seq \notin settled \cup {0} ~> seq \in settled

\* agent-session.ts:5634: abort "wait[s] for agent to become idle", and so
\* comes back: every waiter goes on.
AllWaitersResume == \A r \in Run : seq >= r ~> r \in settled

\* agent.ts:859: a steering message is "delivered after current tool execution".
NoMessageLost == lost = {}

\* agent-loop.ts:537: the placeholders maintain "the tool_use/tool_result
\* pairing that the API requires".
AlwaysPaired ==
    ~streaming => \A i \in DOMAIN history : history[i] = Call => PairedFrom(i)

=============================================================================
