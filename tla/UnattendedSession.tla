------------------------- MODULE UnattendedSession -------------------------
(***************************************************************************)
(* modes/shared/agent-wire/unattended-session.ts in RPC mode: tool calls   *)
(* of the agent emit gates and wait, the controller answers them, the      *)
(* broker's advance hook hands the answer over, and the run is aborted     *)
(* when it exceeds its budget.                                             *)
(*                                                                         *)
(* The hook is synchronous and does not fail.  A listener may answer a     *)
(* gate while emitGate is still on the stack.  recover is called once,     *)
(* when the process starts; the broker is made when unattended mode is     *)
(* negotiated, and so that call finds none.                                *)
(***************************************************************************)
EXTENDS GateBroker

\* What becomes of a promise without an answer is not an answer.
ASSUME PromiseAssumption == Answer \cap {"none", "waiting", "rejected", "lost"} = {}

VARIABLES
    negotiated,  \* #broker and #controller are there
    expired,     \* the wall time of the declaration is over
    abort,       \* the abort of the controller
    current,     \* the gate whose emitGate is on the stack
    promise,     \* the promise that each emitGate returned, or its answer
    early        \* #earlyAnswers

sessionVars == <<negotiated, expired, abort, current, promise, early>>
vars == <<brokerVars, sessionVars>>

NoGate == 0

TypeOK ==
    /\ BrokerTypeOK
    /\ negotiated \in BOOLEAN /\ expired \in BOOLEAN
    /\ abort \in {"no", "hooks", "settled"}
    /\ current \in 0 .. MaxGate
    /\ promise \in [Gate -> {"none", "waiting", "rejected", "lost"} \cup Answer]
    /\ early \subseteq Gate

Init ==
    /\ BrokerInit
    /\ negotiated = FALSE /\ expired = FALSE /\ abort = "no"
    /\ current = NoGate
    /\ promise = [g \in Gate |-> "none"]
    /\ early = {}

-----------------------------------------------------------------------------

OnStack == current # NoGate

Quiescent == ~Busy /\ ~OnStack

\* negotiate, and negotiate again: another controller starts from zero.
Negotiate ==
    /\ Quiescent /\ abort # "hooks"
    /\ negotiated' = TRUE /\ expired' = FALSE /\ abort' = "no"
    /\ UNCHANGED <<brokerVars, current, promise, early>>

\* emitGate runs openGate of the broker ...
OpenGate ==
    /\ negotiated /\ ~OnStack
    /\ NextSeq \/ PutPending
    /\ UNCHANGED sessionVars

EmitGate ==
    /\ Emit
    /\ current' = counter
    /\ UNCHANGED <<negotiated, expired, abort, promise, early>>

\* Mutant: emitGate does not look for an answer that came early.
AwaitLate ==
    /\ OnStack /\ ~Busy
    /\ promise' = [promise EXCEPT ![current] = "waiting"]
    /\ current' = NoGate
    /\ UNCHANGED <<brokerVars, negotiated, expired, abort, early>>

\* ... and returns the early answer or a promise.
Await ==
    /\ OnStack /\ ~Busy
    /\ promise' = [promise EXCEPT ![current] =
           IF current \in early THEN store[current].answer ELSE "waiting"]
    /\ early' = early \ {current}
    /\ current' = NoGate
    /\ UNCHANGED <<brokerVars, negotiated, expired, abort>>

\* A listener answers the gate that is being emitted.
AnswerEarly(c, a) ==
    /\ OnStack
    /\ Resolve(c, current, a, None)
    /\ UNCHANGED sessionVars

\* The controller answers a gate over RPC, before the wall time is over.
AnswerGate(c, g, a, k) ==
    /\ Quiescent /\ negotiated /\ ~expired
    /\ Resolve(c, g, a, k)
    /\ UNCHANGED sessionVars

ReplayAnswer(g, a, k) ==
    /\ Quiescent /\ negotiated /\ ~expired
    /\ Replay(g, a, k)
    /\ UNCHANGED sessionVars

\* Mutant: the hook resolves whoever waits.
AdvanceAny(c) ==
    LET g == call[c].gate
    IN  /\ Advance(c)
        /\ \/ \E h \in Gate :
                /\ promise[h] = "waiting"
                /\ promise' = [promise EXCEPT ![h] = store[g].answer]
                /\ UNCHANGED early
           \/ /\ \A h \in Gate : promise[h] # "waiting"
              /\ early' = early \cup {g}
              /\ UNCHANGED promise
        /\ UNCHANGED <<negotiated, expired, abort, current>>

\* The hook resolves the promise of the gate, or keeps the answer for it.
AdvanceGate(c) ==
    LET g == call[c].gate
    IN  /\ Advance(c)
        /\ \/ /\ promise[g] = "waiting"
              /\ promise' = [promise EXCEPT ![g] = store[g].answer]
              /\ UNCHANGED early
           \/ /\ promise[g] # "waiting"
              /\ early' = early \cup {g}
              /\ UNCHANGED promise
        /\ UNCHANGED <<negotiated, expired, abort, current>>

CommitGate(c) ==
    /\ Quiescent
    /\ Commit(c)
    /\ UNCHANGED sessionVars

-----------------------------------------------------------------------------

Expire ==
    /\ negotiated /\ ~expired
    /\ expired' = TRUE
    /\ UNCHANGED <<brokerVars, negotiated, abort, current, promise, early>>

\* A command or the reconciliation after one exceeds a budget: the abort hooks
\* run, once.  When the wall time is over every command does, and is refused.
Breach ==
    /\ Quiescent /\ negotiated
    /\ abort = "no"
    /\ abort' = "hooks"
    /\ UNCHANGED <<brokerVars, negotiated, expired, current, promise, early>>

\* Mutant: only the promises that are answered are forgotten.
RejectNone ==
    /\ Quiescent /\ abort = "hooks"
    /\ abort' = "settled"
    /\ early' = {}
    /\ UNCHANGED <<brokerVars, negotiated, expired, current, promise>>

\* stopWorkflow: #rejectAllPending.
RejectAllPending ==
    /\ Quiescent /\ abort = "hooks"
    /\ abort' = "settled"
    /\ early' = {}
    /\ promise' = [g \in Gate |-> IF promise[g] = "waiting" THEN "rejected" ELSE promise[g]]
    /\ UNCHANGED <<brokerVars, negotiated, expired, current>>

\* The process dies; the next one calls recover, which finds no broker.
Crash ==
    /\ Restart
    /\ negotiated' = FALSE /\ expired' = FALSE /\ abort' = "no"
    /\ current' = NoGate /\ early' = {}
    /\ promise' = [g \in Gate |-> IF promise[g] = "waiting" THEN "lost" ELSE promise[g]]

EmitStep == (OpenGate /\ opening # "no") \/ EmitGate \/ Await

ResolveStep(c) == AdvanceGate(c) \/ CommitGate(c)

Next ==
    \/ Negotiate \/ OpenGate \/ EmitGate \/ Await
    \/ \E c \in Call, a \in Answer :
           \/ AnswerEarly(c, a)
           \/ \E g \in Gate, k \in Key \cup {None} : AnswerGate(c, g, a, k)
    \/ \E g \in Gate, a \in Answer, k \in Key : ReplayAnswer(g, a, k)
    \/ \E c \in Call : ResolveStep(c)
    \/ Expire \/ Breach \/ RejectAllPending
    \/ Crash

Spec == Init /\ [][Next]_vars

Answers(g) ==
    \E c \in Call, a \in Answer, k \in Key \cup {None} : AnswerGate(c, g, a, k)

\* Code that has started goes on, hooks run, a client negotiates, keeps trying to
\* answer the gates that are pending, and sends commands.
FairSpec ==
    /\ Spec
    /\ WF_vars(EmitStep) /\ WF_vars(RejectAllPending)
    /\ WF_vars(~negotiated /\ Negotiate)
    /\ WF_vars(expired /\ Breach)
    /\ \A c \in Call : WF_vars(ResolveStep(c))
    /\ \A g \in Gate : SF_vars(Answers(g))

-----------------------------------------------------------------------------

(***************************************************************************)
(* What emitGate returns for a gate is the answer that was accepted for    *)
(* that gate, and no other: not one for another gate that was answered     *)
(* meanwhile, or while emitGate was still on the stack.                    *)
(***************************************************************************)
OwnAnswer ==
    \A g \in Gate :
        promise[g] \in Answer => store[g].status = "accepted" /\ store[g].answer = promise[g]

(***************************************************************************)
(* No answer falls between emitGate and the hook: nobody waits for a gate  *)
(* whose workflow was advanced in the life of this process.                *)
(***************************************************************************)
AnswerReachesCaller == \A g \in Gate : times[g] > 0 => promise[g] # "waiting"

(***************************************************************************)
(* emitGate does not hang over an abort: who waits when the hooks run gets *)
(* an answer or an error.                                                  *)
(***************************************************************************)
AbortReleases ==
    \A g \in Gate :
        (abort = "hooks" /\ promise[g] = "waiting") ~> (promise[g] # "waiting")

(***************************************************************************)
(* "On abort (e.g. wall-time / budget breach) reject any gate still        *)
(* awaiting an answer, so emitGate cannot hang forever": once the run has  *)
(* been aborted, nobody waits for ever, whatever the client tries.         *)
(***************************************************************************)
EmitGateEnds ==
    \A g \in Gate :
        (abort = "settled" /\ promise[g] = "waiting") ~> (promise[g] # "waiting")

(***************************************************************************)
(* recover: a gate that was left accepted but not advanced by a crash is   *)
(* advanced by a later process.                                            *)
(***************************************************************************)
CrashesRecovered == \A g \in Gate : (g \in LeftBehind) ~> (g \notin LeftBehind)
=============================================================================
