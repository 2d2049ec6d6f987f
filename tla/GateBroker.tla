----------------------------- MODULE GateBroker -----------------------------
(***************************************************************************)
(* modes/shared/agent-wire/workflow-gate-broker.ts over its file store:    *)
(* gates are opened, answered once, and the workflow is advanced with the  *)
(* answer; recover replays the advance of what a crash left behind.        *)
(*                                                                         *)
(* A flush of the store is atomic.  Code between two awaits is not         *)
(* interrupted by anything but a crash: Busy says that such a piece of     *)
(* code is under way.  The only await is that of the advance hook.         *)
(***************************************************************************)
EXTENDS Naturals, FiniteSets

CONSTANTS
    MaxGate,    \* bounds the gates of the run
    Answer,     \* the valid answers
    Key,        \* idempotency keys
    Call,       \* concurrent calls of resolve
    Recoverer,  \* concurrent calls of recover
    MaxCrash,   \* bounds the crashes
    None        \* no answer, no key

ASSUME MaxGateAssumption == MaxGate \in Nat
ASSUME NoneAssumption == None \notin Answer \cup Key

VARIABLES
    counter,   \* the counter in the store
    store,     \* the gates in the store
    opening,   \* how far openGate has come with gate number counter
    call,      \* the calls of resolve
    recovery,  \* the calls of recover
    emitted,   \* the gates that were emitted
    told,      \* the answers that resolve reported as accepted
    advanced,  \* the answers with which each gate was advanced
    times,     \* how often without failing, in the life of this process (up to two)
    crashes    \* the crashes so far

storeVars == <<counter, store>>
brokerVars == <<storeVars, opening, call, recovery, emitted, told, advanced, times, crashes>>

Gate == 1 .. MaxGate

Record == [status : {"none", "pending", "accepted"}, answer : Answer \cup {None},
           key : Key \cup {None}, advanced : BOOLEAN]
Unused  == [status |-> "none", answer |-> None, key |-> None, advanced |-> FALSE]
Pending == [Unused EXCEPT !.status = "pending"]

NoCall     == [at |-> "idle", gate |-> 0]
NoRecovery == [at |-> "idle", gate |-> 0, todo |-> {}]

BrokerTypeOK ==
    /\ counter \in 0 .. MaxGate
    /\ store \in [Gate -> Record]
    /\ opening \in {"no", "numbered", "pending"}
    /\ call \in [Call -> [at : {"idle", "accepted", "advancing"}, gate : 0 .. MaxGate]]
    /\ recovery \in [Recoverer -> [at : {"idle", "looping", "advancing"}, gate : 0 .. MaxGate,
                                   todo : SUBSET Gate]]
    /\ emitted \subseteq Gate
    /\ told \subseteq Gate \X Answer
    /\ advanced \in [Gate -> SUBSET Answer]
    /\ times \in [Gate -> 0 .. 2]
    /\ crashes \in Nat

BrokerInit ==
    /\ counter = 0 /\ store = [g \in Gate |-> Unused]
    /\ opening = "no"
    /\ call = [c \in Call |-> NoCall]
    /\ recovery = [r \in Recoverer |-> NoRecovery]
    /\ emitted = {} /\ told = {}
    /\ advanced = [g \in Gate |-> {}]
    /\ times = [g \in Gate |-> 0]
    /\ crashes = 0

-----------------------------------------------------------------------------

Busy ==
    \/ opening # "no"
    \/ \E c \in Call : call[c].at = "accepted"
    \/ \E r \in Recoverer : recovery[r].at = "looping"

\* openGate takes the next number ...
NextSeq ==
    /\ ~Busy /\ counter < MaxGate
    /\ counter' = counter + 1
    /\ opening' = "numbered"
    /\ UNCHANGED <<store, call, recovery, emitted, told, advanced, times, crashes>>

\* ... persists the pending gate ...
PutPending ==
    /\ opening = "numbered"
    /\ store' = [store EXCEPT ![counter] = Pending]
    /\ opening' = "pending"
    /\ UNCHANGED <<counter, call, recovery, emitted, told, advanced, times, crashes>>

\* ... and emits it.
Emit ==
    /\ opening = "pending"
    /\ emitted' = emitted \cup {counter}
    /\ opening' = "no"
    /\ UNCHANGED <<storeVars, call, recovery, told, advanced, times, crashes>>

-----------------------------------------------------------------------------

\* The advance hook is called.
Hook(g, a) ==
    /\ advanced' = [advanced EXCEPT ![g] = @ \cup {a}]
    /\ times' = [times EXCEPT ![g] = IF @ < 2 THEN @ + 1 ELSE @]

\* The hook that was called has failed.
Unhook(g) == times' = [times EXCEPT ![g] = IF @ > 0 THEN @ - 1 ELSE @]

\* Mutant: the gate is marked as advanced at once.
AcceptAdvanced(c, g, a, k) ==
    /\ call[c].at = "idle" /\ store[g].status = "pending"
    /\ store' = [store EXCEPT ![g] =
           [status |-> "accepted", answer |-> a, key |-> k, advanced |-> TRUE]]
    /\ call' = [call EXCEPT ![c] = [at |-> "accepted", gate |-> g]]
    /\ UNCHANGED <<counter, opening, recovery, emitted, told, advanced, times, crashes>>

\* Mutant: the workflow is advanced before the answer is persisted.
AcceptInMemory(c, g, a, k) ==
    /\ call[c].at = "idle" /\ store[g].status = "pending"
    /\ Hook(g, a)
    /\ call' = [call EXCEPT ![c] = [at |-> "accepted", gate |-> g]]
    /\ UNCHANGED <<storeVars, opening, recovery, emitted, told, crashes>>

\* resolve persists a valid answer to a pending gate; other answers and other
\* gates change nothing.
Accept(c, g, a, k) ==
    /\ call[c].at = "idle" /\ store[g].status = "pending"
    /\ store' = [store EXCEPT ![g] =
           [status |-> "accepted", answer |-> a, key |-> k, advanced |-> FALSE]]
    /\ call' = [call EXCEPT ![c] = [at |-> "accepted", gate |-> g]]
    /\ UNCHANGED <<counter, opening, recovery, emitted, told, advanced, times, crashes>>

Resolve(c, g, a, k) == ~Busy /\ Accept(c, g, a, k)

\* The same answer with the same key gets the same resolution again.
Replay(g, a, k) ==
    /\ ~Busy
    /\ store[g].status = "accepted" /\ k # None
    /\ store[g].key = k /\ store[g].answer = a
    /\ told' = told \cup {<<g, a>>}
    /\ UNCHANGED <<storeVars, opening, call, recovery, emitted, advanced, times, crashes>>

\* The call advances the workflow, and awaits that.
Advance(c) ==
    /\ call[c].at = "accepted"
    /\ Hook(call[c].gate, store[call[c].gate].answer)
    /\ call' = [call EXCEPT ![c].at = "advancing"]
    /\ UNCHANGED <<storeVars, opening, recovery, emitted, told, crashes>>

Commit(c) ==
    /\ ~Busy /\ call[c].at = "advancing"
    /\ store' = [store EXCEPT ![call[c].gate].advanced = TRUE]
    /\ told' = told \cup {<<call[c].gate, store[call[c].gate].answer>>}
    /\ call' = [call EXCEPT ![c] = NoCall]
    /\ UNCHANGED <<counter, opening, recovery, emitted, advanced, times, crashes>>

\* The hook fails: so does resolve, and the gate stays accepted.
AdvanceFails(c) ==
    /\ ~Busy /\ call[c].at = "advancing"
    /\ call' = [call EXCEPT ![c] = NoCall]
    /\ Unhook(call[c].gate)
    /\ UNCHANGED <<storeVars, opening, recovery, emitted, told, advanced, crashes>>

-----------------------------------------------------------------------------

\* Accepted but not advanced.
LeftBehind == {g \in Gate : store[g].status = "accepted" /\ ~store[g].advanced}

Recover(r) ==
    /\ ~Busy /\ recovery[r].at = "idle"
    /\ recovery' = [recovery EXCEPT ![r] = [at |-> "looping", gate |-> 0, todo |-> LeftBehind]]
    /\ UNCHANGED <<storeVars, opening, call, emitted, told, advanced, times, crashes>>

\* The next of the listed gates that is still left behind is advanced.
RecoverNext(r) ==
    LET left == recovery[r].todo \cap LeftBehind
    IN  /\ recovery[r].at = "looping"
        /\ \/ /\ left = {}
              /\ recovery' = [recovery EXCEPT ![r] = NoRecovery]
              /\ UNCHANGED <<advanced, times>>
           \/ \E g \in left :
              /\ \A h \in left : g <= h
              /\ Hook(g, store[g].answer)
              /\ recovery' = [recovery EXCEPT ![r] =
                     [at |-> "advancing", gate |-> g, todo |-> left \ {g}]]
        /\ UNCHANGED <<storeVars, opening, call, emitted, told, crashes>>

RecoverCommit(r) ==
    /\ ~Busy /\ recovery[r].at = "advancing"
    /\ store' = [store EXCEPT ![recovery[r].gate].advanced = TRUE]
    /\ recovery' = [recovery EXCEPT ![r].at = "looping"]
    /\ UNCHANGED <<counter, opening, call, emitted, told, advanced, times, crashes>>

RecoverFails(r) ==
    /\ ~Busy /\ recovery[r].at = "advancing"
    /\ recovery' = [recovery EXCEPT ![r] = NoRecovery]
    /\ Unhook(recovery[r].gate)
    /\ UNCHANGED <<storeVars, opening, call, emitted, told, advanced, crashes>>

\* The process dies anywhere, and another one loads the store.
Restart ==
    /\ crashes < MaxCrash
    /\ crashes' = crashes + 1
    /\ opening' = "no"
    /\ call' = [c \in Call |-> NoCall]
    /\ recovery' = [r \in Recoverer |-> NoRecovery]
    /\ times' = [g \in Gate |-> 0]
    /\ UNCHANGED <<storeVars, emitted, told, advanced>>

Open == NextSeq \/ PutPending \/ Emit

BrokerNext ==
    \/ Open
    \/ \E g \in Gate, a \in Answer, k \in Key \cup {None} :
           Replay(g, a, k) \/ \E c \in Call : Resolve(c, g, a, k)
    \/ \E c \in Call : Advance(c) \/ Commit(c) \/ AdvanceFails(c)
    \/ \E r \in Recoverer : Recover(r) \/ RecoverNext(r) \/ RecoverCommit(r) \/ RecoverFails(r)
    \/ Restart

BrokerSpec == BrokerInit /\ [][BrokerNext]_brokerVars

-----------------------------------------------------------------------------

(***************************************************************************)
(* No gate that was emitted is lost in a crash: it is in the store.        *)
(***************************************************************************)
EmittedIsStored == \A g \in emitted : store[g].status # "none"

(***************************************************************************)
(* A gate has one answer, whoever answers, dies, replays or recovers: the  *)
(* workflow is advanced with the answer in the store and no other, and no  *)
(* client was told that another one was accepted.                          *)
(***************************************************************************)
OneAnswer ==
    \A g \in Gate, a \in Answer :
        a \in advanced[g] \/ <<g, a>> \in told =>
            store[g].status = "accepted" /\ store[g].answer = a

(***************************************************************************)
(* What the store says stays: no gate number is used again, and an         *)
(* accepted gate, its answer and its key are never overwritten, also not   *)
(* by a call that goes on after its await with the record it read before.  *)
(***************************************************************************)
StoreIsForGood ==
    [][\A g \in Gate :
           LET old == store[g]  new == store'[g]
           IN  /\ old.status = "pending" => new.status \in {"pending", "accepted"}
               /\ old.status = "accepted" =>
                      new = old \/ new = [old EXCEPT !.advanced = TRUE]]_brokerVars

(***************************************************************************)
(* A gate counts as advanced only when the workflow was advanced.          *)
(***************************************************************************)
CommitFollowsAdvance ==
    \A g \in Gate : store[g].advanced => store[g].answer \in advanced[g]

(***************************************************************************)
(* recover "replays advance exactly once per gate", and a concurrent       *)
(* recoverer "cannot double-advance": in the life of one process, in which *)
(* the hook does not fail, no gate is advanced twice.                      *)
(***************************************************************************)
AdvanceOnce == \A g \in Gate : times[g] <= 1
=============================================================================
