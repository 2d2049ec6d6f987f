---------------------- MODULE UnattendedSession_proofs ----------------------
(***************************************************************************)
(* Proofs about the gate broker and the unattended session that uses it,   *)
(* for every number of gates, of calls and of crashes, and all answers and *)
(* keys.  First the broker by itself, with any number of recoverers; then  *)
(* the session, each of whose steps is a step of the broker or leaves it   *)
(* alone.                                                                  *)
(***************************************************************************)
EXTENDS UnattendedSession, TLAPS

(***************************************************************************)
(* That no gate gets two answers rests on what is known of the calls that  *)
(* are under way: their gate is accepted, and it cannot become pending     *)
(* again because its number is not used again.                             *)
(***************************************************************************)
\* Numbers above the counter are unused, and so is the one just taken.
NumbersFresh ==
    /\ \A g \in Gate : g > counter => store[g] = Unused
    /\ opening = "numbered" => counter \in Gate /\ store[counter] = Unused
    /\ opening = "pending" => counter \in Gate /\ store[counter].status # "none"

\* An accepted gate has its answer.
AcceptedHasAnswer == \A g \in Gate : store[g].status = "accepted" => store[g].answer \in Answer

\* The gate of a call is accepted, and advanced before the call commits.
Doing(r) ==
    /\ r.at \in {"accepted", "advancing"} => r.gate \in Gate /\ store[r.gate].status = "accepted"
    /\ r.at = "advancing" => store[r.gate].answer \in advanced[r.gate]

CallsAreSound == \A c \in Call : Doing(call[c])

RecoveriesAreSound == \A r \in Recoverer : Doing(recovery[r])

IInv ==
    /\ BrokerTypeOK
    /\ NumbersFresh
    /\ AcceptedHasAnswer
    /\ CallsAreSound
    /\ RecoveriesAreSound
    /\ EmittedIsStored
    /\ OneAnswer
    /\ CommitFollowsAdvance

StoreStep ==
    \A g \in Gate :
        LET old == store[g]  new == store'[g]
        IN  /\ old.status = "pending" => new.status \in {"pending", "accepted"}
            /\ old.status = "accepted" => new = old \/ new = [old EXCEPT !.advanced = TRUE]

-----------------------------------------------------------------------------

(***************************************************************************)
(* Gates are natural numbers, and a number taken is a gate.                *)
(***************************************************************************)
LEMMA Numbers ==
    /\ \A g \in Gate : g \in 0 .. MaxGate /\ g > 0
    /\ 0 \in 0 .. MaxGate
    /\ \A n \in 0 .. MaxGate : n < MaxGate => n + 1 \in Gate /\ n + 1 \in 0 .. MaxGate /\ n + 1 > n
    /\ \A n \in 0 .. MaxGate, g \in Gate : g > n + 1 => g > n
  BY MaxGateAssumption DEF Gate

(***************************************************************************)
(* What the actions put in the store are records of it.                    *)
(***************************************************************************)
LEMMA Records ==
    /\ Unused \in Record /\ Pending \in Record
    /\ Unused.status = "none" /\ ~Unused.advanced
    /\ Pending.status = "pending" /\ ~Pending.advanced
    /\ \A r \in Record :
          /\ [r EXCEPT !.advanced = TRUE] \in Record
          /\ [r EXCEPT !.advanced = TRUE].status = r.status
          /\ [r EXCEPT !.advanced = TRUE].answer = r.answer
    /\ \A a \in Answer, k \in Key \cup {None} :
          [status |-> "accepted", answer |-> a, key |-> k, advanced |-> FALSE] \in Record
  BY DEF Record, Unused, Pending

(***************************************************************************)
(* What the actions make of a call of recover is one again.                *)
(***************************************************************************)
LEMMA Recoveries ==
    LET RecoveryCall == [at : {"idle", "looping", "advancing"}, gate : 0 .. MaxGate,
                         todo : SUBSET Gate]
    IN  /\ NoRecovery \in RecoveryCall /\ NoRecovery.at = "idle"
        /\ \A g \in Gate, left \in SUBSET Gate :
              [at |-> "advancing", gate |-> g, todo |-> left] \in RecoveryCall
        /\ \A q \in RecoveryCall :
              /\ [q EXCEPT !.at = "looping"] \in RecoveryCall
              /\ [q EXCEPT !.at = "looping"].at = "looping"
  BY Numbers DEF NoRecovery

(***************************************************************************)
(* The initial states satisfy the invariant.                               *)
(***************************************************************************)
LEMMA InitIInv == BrokerInit => IInv
  BY Numbers, Records, SMTT(30) DEF BrokerInit, IInv, BrokerTypeOK, NumbersFresh, AcceptedHasAnswer, CallsAreSound,
     RecoveriesAreSound, Doing, EmittedIsStored, OneAnswer, CommitFollowsAdvance, NoCall, NoRecovery

(***************************************************************************)
(* Every step preserves the invariant.                                     *)
(***************************************************************************)
LEMMA StepIInv == IInv /\ [BrokerNext]_brokerVars => IInv'
<1> SUFFICES ASSUME IInv, [BrokerNext]_brokerVars PROVE IInv'
  OBVIOUS
<1> USE Numbers, Records DEF IInv, BrokerTypeOK, NumbersFresh, AcceptedHasAnswer, CallsAreSound,
        RecoveriesAreSound, Doing, EmittedIsStored, OneAnswer, CommitFollowsAdvance,
        NoCall, NoRecovery
<1>1. ASSUME NextSeq PROVE IInv'
  BY <1>1 DEF NextSeq, storeVars
<1>2. ASSUME PutPending PROVE IInv'
  BY <1>2 DEF PutPending, storeVars
<1>3. ASSUME Emit PROVE IInv'
  BY <1>3 DEF Emit, storeVars
<1>4. ASSUME NEW c \in Call, NEW g \in Gate, NEW a \in Answer, NEW k \in Key \cup {None}, Resolve(c, g, a, k) PROVE IInv'
  BY <1>4 DEF Resolve, Accept, storeVars
<1>5. ASSUME NEW g \in Gate, NEW a \in Answer, NEW k \in Key \cup {None}, Replay(g, a, k) PROVE IInv'
  BY <1>5 DEF Replay, storeVars
<1>6. ASSUME NEW c \in Call, Advance(c) PROVE IInv'
  BY <1>6 DEF Advance, storeVars, Hook
<1>7. ASSUME NEW c \in Call, Commit(c) PROVE IInv'
  BY <1>7 DEF Commit, storeVars
<1>8. ASSUME NEW c \in Call, AdvanceFails(c) PROVE IInv'
  BY <1>8 DEF AdvanceFails, storeVars, Unhook
<1>9. ASSUME NEW r \in Recoverer, Recover(r) PROVE IInv'
  BY <1>9 DEF Recover, storeVars, LeftBehind
<1>10. ASSUME NEW r \in Recoverer, RecoverNext(r) PROVE IInv'
  <2>1. CASE recovery' = [recovery EXCEPT ![r] = NoRecovery] /\ UNCHANGED <<advanced, times>>
    BY <1>10, <2>1 DEF RecoverNext, storeVars
  <2>2. ASSUME NEW g \in recovery[r].todo \cap LeftBehind,
               Hook(g, store[g].answer),
               recovery' = [recovery EXCEPT ![r] =
                   [at |-> "advancing", gate |-> g,
                    todo |-> (recovery[r].todo \cap LeftBehind) \ {g}]]
        PROVE  IInv'
    <3>1. g \in Gate /\ store[g].status = "accepted"
      BY <2>2 DEF LeftBehind
    <3>2. UNCHANGED <<counter, store, opening, call, emitted, told, crashes>>
      BY <1>10 DEF RecoverNext, storeVars
    <3>3. (recovery[r].todo \cap LeftBehind) \ {g} \in SUBSET Gate
      BY DEF LeftBehind
    <3>4. BrokerTypeOK'
      <4>1. recovery' \in [Recoverer -> [at : {"idle", "looping", "advancing"},
                                         gate : 0 .. MaxGate, todo : SUBSET Gate]]
        BY ONLY BrokerTypeOK, <2>2, <3>1, <3>3, Recoveries DEF BrokerTypeOK
      <4>2. advanced' \in [Gate -> SUBSET Answer] /\ times' \in [Gate -> 0 .. 2]
        BY <2>2, <3>1 DEF Hook
      <4> QED
        BY <3>2, <4>1, <4>2
    <3>5. RecoveriesAreSound'
      <4> SUFFICES ASSUME NEW q \in Recoverer PROVE Doing(recovery[q])'
        BY DEF RecoveriesAreSound
      <4>1. CASE q = r
        BY <4>1, <2>2, <3>1, <3>2 DEF Hook
      <4>2. CASE q # r
        BY <4>2, <2>2, <3>1, <3>2 DEF Hook
      <4> QED
        BY <4>1, <4>2
    <3>6. (/\ NumbersFresh /\ AcceptedHasAnswer /\ CallsAreSound
           /\ EmittedIsStored /\ OneAnswer /\ CommitFollowsAdvance)'
      BY <2>2, <3>1, <3>2 DEF Hook
    <3> QED
      BY <3>4, <3>5, <3>6
  <2> QED
    BY ONLY <1>10, <2>1, <2>2 DEF RecoverNext
<1>11. ASSUME NEW r \in Recoverer, RecoverCommit(r) PROVE IInv'
  <2>1. recovery' = [recovery EXCEPT ![r].at = "looping"]
    BY <1>11 DEF RecoverCommit
  <2>2. recovery' \in [Recoverer -> [at : {"idle", "looping", "advancing"},
                                     gate : 0 .. MaxGate, todo : SUBSET Gate]]
    BY ONLY BrokerTypeOK, <2>1, Recoveries DEF BrokerTypeOK
  <2>3. /\ recovery[r].at = "advancing"
        /\ store' = [store EXCEPT ![recovery[r].gate].advanced = TRUE]
        /\ UNCHANGED <<counter, opening, call, emitted, told, advanced, times, crashes>>
    BY <1>11 DEF RecoverCommit
  <2>4. RecoveriesAreSound'
    <3> SUFFICES ASSUME NEW q \in Recoverer PROVE Doing(recovery[q])'
      BY DEF RecoveriesAreSound
    <3>1. recovery'[r].at = "looping" /\ (q # r => recovery'[q] = recovery[q])
      BY <2>1, Recoveries
    <3> QED
      BY <2>3, <3>1
  <2>5. store' \in [Gate -> Record]
    BY <2>3
  <2>6. BrokerTypeOK'
    BY ONLY BrokerTypeOK, <2>2, <2>3, <2>5 DEF BrokerTypeOK
  <2>7. (/\ NumbersFresh /\ AcceptedHasAnswer /\ CallsAreSound
         /\ EmittedIsStored /\ OneAnswer /\ CommitFollowsAdvance)'
    BY <2>3
  <2> QED
    BY <2>4, <2>6, <2>7
<1>12. ASSUME NEW r \in Recoverer, RecoverFails(r) PROVE IInv'
  BY <1>12 DEF RecoverFails, storeVars, Unhook
<1>13. ASSUME Restart PROVE IInv'
  BY <1>13 DEF Restart, storeVars
<1>14. ASSUME UNCHANGED brokerVars PROVE IInv'
  BY <1>14 DEF brokerVars, storeVars
<1> QED
  BY ONLY [BrokerNext]_brokerVars, <1>1, <1>2, <1>3, <1>4, <1>5, <1>6, <1>7, <1>8, <1>9, <1>10, <1>11, <1>12, <1>13, <1>14 DEF BrokerNext, Open

(***************************************************************************)
(* Every step leaves what the store says.                                  *)
(***************************************************************************)
LEMMA StepStore == IInv /\ [BrokerNext]_brokerVars => StoreStep
<1> SUFFICES ASSUME IInv, [BrokerNext]_brokerVars PROVE StoreStep
  OBVIOUS
<1> USE Numbers, Records DEF IInv, BrokerTypeOK, NumbersFresh, CallsAreSound, RecoveriesAreSound, Doing, StoreStep
<1>1. ASSUME NextSeq PROVE StoreStep
  BY <1>1 DEF NextSeq, storeVars
<1>2. ASSUME PutPending PROVE StoreStep
  BY <1>2 DEF PutPending, storeVars
<1>3. ASSUME Emit PROVE StoreStep
  BY <1>3 DEF Emit, storeVars
<1>4. ASSUME NEW c \in Call, NEW g \in Gate, NEW a \in Answer, NEW k \in Key \cup {None}, Resolve(c, g, a, k) PROVE StoreStep
  BY <1>4 DEF Resolve, Accept, storeVars
<1>5. ASSUME NEW g \in Gate, NEW a \in Answer, NEW k \in Key \cup {None}, Replay(g, a, k) PROVE StoreStep
  BY <1>5 DEF Replay, storeVars
<1>6. ASSUME NEW c \in Call, Advance(c) PROVE StoreStep
  BY <1>6 DEF Advance, storeVars, Hook
<1>7. ASSUME NEW c \in Call, Commit(c) PROVE StoreStep
  BY <1>7 DEF Commit, storeVars
<1>8. ASSUME NEW c \in Call, AdvanceFails(c) PROVE StoreStep
  BY <1>8 DEF AdvanceFails, storeVars, Unhook
<1>9. ASSUME NEW r \in Recoverer, Recover(r) PROVE StoreStep
  BY <1>9 DEF Recover, storeVars, LeftBehind
<1>10. ASSUME NEW r \in Recoverer, RecoverNext(r) PROVE StoreStep
  BY <1>10 DEF RecoverNext, storeVars, Hook, LeftBehind
<1>11. ASSUME NEW r \in Recoverer, RecoverCommit(r) PROVE StoreStep
  BY <1>11 DEF RecoverCommit, storeVars
<1>12. ASSUME NEW r \in Recoverer, RecoverFails(r) PROVE StoreStep
  BY <1>12 DEF RecoverFails, storeVars, Unhook
<1>13. ASSUME Restart PROVE StoreStep
  BY <1>13 DEF Restart, storeVars
<1>14. ASSUME UNCHANGED brokerVars PROVE StoreStep
  BY <1>14 DEF brokerVars, storeVars
<1> QED
  BY ONLY [BrokerNext]_brokerVars, <1>1, <1>2, <1>3, <1>4, <1>5, <1>6, <1>7, <1>8, <1>9, <1>10, <1>11, <1>12, <1>13, <1>14 DEF BrokerNext, Open

(***************************************************************************)
(* The inductive invariant holds in every reachable state.                 *)
(***************************************************************************)
THEOREM Invariance == BrokerSpec => []IInv
  BY InitIInv, StepIInv, PTL DEF BrokerSpec

(***************************************************************************)
(* Type correctness of the broker.                                         *)
(***************************************************************************)
THEOREM TypeCorrect == BrokerSpec => []BrokerTypeOK
<1>1. IInv => BrokerTypeOK
  BY DEF IInv
<1> QED
  BY Invariance, <1>1, PTL

(***************************************************************************)
(* The workflow is advanced with one answer, which clients are told.       *)
(***************************************************************************)
THEOREM AnsweredOnce == BrokerSpec => []OneAnswer
<1>1. IInv => OneAnswer
  BY DEF IInv
<1> QED
  BY Invariance, <1>1, PTL

(***************************************************************************)
(* An emitted gate is in the store, whenever the process dies.             *)
(***************************************************************************)
THEOREM EmittedSurvives == BrokerSpec => []EmittedIsStored
<1>1. IInv => EmittedIsStored
  BY DEF IInv
<1> QED
  BY Invariance, <1>1, PTL

(***************************************************************************)
(* A gate counts as advanced only when the workflow was advanced.          *)
(***************************************************************************)
THEOREM CommitIsLate == BrokerSpec => []CommitFollowsAdvance
<1>1. IInv => CommitFollowsAdvance
  BY DEF IInv
<1> QED
  BY Invariance, <1>1, PTL

(***************************************************************************)
(* No number is used again, and nothing that was accepted is overwritten.  *)
(***************************************************************************)
THEOREM AcceptedForGood == BrokerSpec => StoreIsForGood
<1>1. IInv /\ [BrokerNext]_brokerVars => [StoreStep]_brokerVars
  BY StepStore
<1>2. BrokerSpec => [][StoreStep]_brokerVars
  BY Invariance, <1>1, PTL DEF BrokerSpec
<1> QED
  BY <1>2 DEF StoreStep, StoreIsForGood

-----------------------------------------------------------------------------
(* The session.                                                            *)


(***************************************************************************)
(* That no answer is lost between emitGate and the hook rests on what is   *)
(* known of the gate whose emitGate is on the stack: it was pending when   *)
(* it was emitted, nobody waits for it yet, and if its workflow has been   *)
(* advanced since, the answer is kept among the early ones.                *)
(***************************************************************************)
OpeningIsPending == opening = "pending" => store[counter].status = "pending"

AdvancedIsAccepted ==
    \A g \in Gate : times[g] > 0 \/ g \in early => store[g].status = "accepted"

EarlyIsKept == OnStack /\ times[current] > 0 => current \in early

PromisedOnce ==
    /\ OnStack => current <= counter
    /\ \A g \in Gate : promise[g] # "none" =>
          g <= counter /\ g # current /\ (opening # "no" => g # counter)

SInv ==
    /\ IInv
    /\ TypeOK
    /\ OpeningIsPending
    /\ AdvancedIsAccepted
    /\ EarlyIsKept
    /\ PromisedOnce
    /\ OwnAnswer
    /\ AnswerReachesCaller

(* A session that has just begun satisfies the invariant. *)
LEMMA InitSInv == Init => SInv
<1> SUFFICES ASSUME Init PROVE SInv
  OBVIOUS
<1>1. IInv
  BY InitIInv DEF Init
<1>2. TypeOK
  BY <1>1, Numbers DEF Init, TypeOK, IInv, NoGate
<1>3. OpeningIsPending /\ AdvancedIsAccepted /\ EarlyIsKept /\ PromisedOnce /\ OwnAnswer /\ AnswerReachesCaller
  BY PromiseAssumption DEF Init, BrokerInit, OpeningIsPending, AdvancedIsAccepted, EarlyIsKept, PromisedOnce, OwnAnswer,
     AnswerReachesCaller, OnStack
<1> QED
  BY <1>1, <1>2, <1>3 DEF SInv

(***************************************************************************)
(* A step of the session is one of the broker, or leaves it alone.         *)
(***************************************************************************)
LEMMA StepBroker == SInv /\ [Next]_vars => [BrokerNext]_brokerVars
<1> SUFFICES ASSUME SInv, [Next]_vars PROVE [BrokerNext]_brokerVars
  OBVIOUS
<1>1. ASSUME Negotiate \/ Await \/ Expire \/ Breach \/ RejectAllPending \/ UNCHANGED vars
      PROVE  UNCHANGED brokerVars
  BY <1>1 DEF Negotiate, Await, Expire, Breach, RejectAllPending, vars
<1>2. ASSUME OpenGate \/ EmitGate PROVE BrokerNext
  BY <1>2 DEF OpenGate, EmitGate, BrokerNext, Open
<1>3. ASSUME NEW c \in Call, NEW a \in Answer, AnswerEarly(c, a) PROVE BrokerNext
  <2>1. current \in Gate
    BY <1>3, MaxGateAssumption DEF AnswerEarly, OnStack, NoGate, SInv, TypeOK, Gate
  <2> QED
    BY <1>3, <2>1 DEF AnswerEarly, BrokerNext
<1>4. ASSUME NEW c \in Call, NEW g \in Gate, NEW a \in Answer, NEW k \in Key \cup {None}, AnswerGate(c, g, a, k)
      PROVE  BrokerNext
  BY <1>4 DEF AnswerGate, BrokerNext
<1>5. ASSUME NEW g \in Gate, NEW a \in Answer, NEW k \in Key, ReplayAnswer(g, a, k) PROVE BrokerNext
  BY <1>5 DEF ReplayAnswer, BrokerNext
<1>6. ASSUME NEW c \in Call, AdvanceGate(c) \/ CommitGate(c) PROVE BrokerNext
  BY <1>6 DEF AdvanceGate, CommitGate, BrokerNext
<1>7. ASSUME Crash PROVE BrokerNext
  BY <1>7 DEF Crash, BrokerNext
<1> QED
  BY <1>1, <1>2, <1>3, <1>4, <1>5, <1>6, <1>7 DEF Next, ResolveStep

(***************************************************************************)
(* Every step preserves the invariant of the session.                      *)
(***************************************************************************)
LEMMA StepSInv == SInv /\ [Next]_vars => SInv'
<1> SUFFICES ASSUME SInv, [Next]_vars PROVE SInv'
  OBVIOUS
<1>1. IInv'
  BY StepBroker, StepIInv DEF SInv
<1>2. \A g \in Gate : store[g].status = "accepted" =>
                        store'[g].status = "accepted" /\ store'[g].answer = store[g].answer
  BY StepBroker, StepStore, Records DEF SInv, IInv, BrokerTypeOK, StoreStep
<1> DEFINE Rest == TypeOK /\ OpeningIsPending /\ AdvancedIsAccepted /\ EarlyIsKept
                     /\ PromisedOnce /\ OwnAnswer /\ AnswerReachesCaller
<1> USE <1>1, <1>2, PromiseAssumption, Numbers
    DEF SInv, TypeOK, OpeningIsPending, AdvancedIsAccepted, EarlyIsKept, PromisedOnce, OwnAnswer, AnswerReachesCaller,
        OnStack, NoGate, brokerVars, storeVars, sessionVars, IInv, BrokerTypeOK
<1>3. ASSUME Negotiate PROVE Rest'
  BY <1>3 DEF Negotiate
<1>4. ASSUME OpenGate PROVE Rest'
  BY <1>4, Records DEF OpenGate, NextSeq, PutPending, NumbersFresh
<1>5. ASSUME EmitGate PROVE Rest'
  BY <1>5 DEF EmitGate, Emit, NumbersFresh
<1>6. ASSUME Await PROVE Rest'
  <2>1. current \in Gate /\ current # 0 /\ counter \in 0 .. MaxGate
    BY <1>6, MaxGateAssumption DEF Await, Gate
  <2>2. store' = store /\ times' = times /\ opening' = opening /\ counter' = counter
        /\ early' = early \ {current} /\ current' = 0
    BY <1>6 DEF Await
  <2>3. \A g \in Gate : promise'[g] = IF g # current THEN promise[g]
                                     ELSE IF g \in early THEN store[g].answer ELSE "waiting"
    BY <1>6, <2>1 DEF Await
  <2>4. current \in early => store[current].status = "accepted" /\ store[current].answer \in Answer
    BY <2>1 DEF AcceptedHasAnswer
  <2>5. opening # "no" => FALSE
    BY <1>6 DEF Await, Busy
  <2>6. TypeOK'
    BY <1>6, <2>1, <2>4 DEF Await
  <2>7. (OpeningIsPending /\ AdvancedIsAccepted /\ EarlyIsKept)'
    BY <2>2, <2>5
  <2>8. PromisedOnce'
    BY <2>1, <2>2, <2>3, <2>5, <2>6
  <2>9. OwnAnswer' /\ AnswerReachesCaller'
    BY <2>1, <2>2, <2>3, <2>4
  <2> QED
    BY <2>6, <2>7, <2>8, <2>9
<1>7. ASSUME NEW c \in Call, NEW a \in Answer, AnswerEarly(c, a) PROVE Rest'
  BY <1>7 DEF AnswerEarly, Resolve, Accept, Busy
<1>8. ASSUME NEW c \in Call, NEW g \in Gate, NEW a \in Answer, NEW k \in Key \cup {None}, AnswerGate(c, g, a, k)
      PROVE  Rest'
  BY <1>8 DEF AnswerGate, Resolve, Accept, Busy
<1>9. ASSUME NEW g \in Gate, NEW a \in Answer, NEW k \in Key, ReplayAnswer(g, a, k) PROVE Rest'
  BY <1>9 DEF ReplayAnswer, Replay
<1>10. ASSUME NEW c \in Call, AdvanceGate(c) PROVE Rest'
  <2> DEFINE g == call[c].gate
  <2>1. /\ call[c].at = "accepted"
        /\ times' = [times EXCEPT ![g] = IF @ < 2 THEN @ + 1 ELSE @]
        /\ UNCHANGED <<counter, store, opening, negotiated, expired, abort, current>>
    BY <1>10 DEF AdvanceGate, Advance, Hook
  <2>2. g \in Gate /\ store[g].status = "accepted" /\ store[g].answer \in Answer
    BY <2>1 DEF CallsAreSound, Doing, AcceptedHasAnswer
  <2>3. BrokerTypeOK' /\ OpeningIsPending'
    BY <2>1
  <2> HIDE DEF g
  <2>4. CASE promise[g] = "waiting" /\ promise' = [promise EXCEPT ![g] = store[g].answer] /\ UNCHANGED early
    BY <2>1, <2>2, <2>3, <2>4
  <2>5. CASE promise[g] # "waiting" /\ early' = early \cup {g} /\ UNCHANGED promise
    BY <2>1, <2>2, <2>3, <2>5
  <2> QED
    BY <1>10, <2>4, <2>5 DEF AdvanceGate, g
<1>11. ASSUME NEW c \in Call, CommitGate(c) PROVE Rest'
  BY <1>11 DEF CommitGate, Commit, Busy
<1>12. ASSUME Expire \/ Breach PROVE Rest'
  <2>1. UNCHANGED <<brokerVars, current, promise, early>> /\ expired' \in BOOLEAN /\ abort' \in {"no", "hooks", "settled"}
    BY <1>12 DEF Expire, Breach
  <2>2. negotiated' = negotiated
    BY <1>12 DEF Expire, Breach
  <2>3. TypeOK'
    BY <2>1, <2>2
  <2>4. (OpeningIsPending /\ AdvancedIsAccepted /\ EarlyIsKept /\ PromisedOnce)'
    BY <2>1
  <2>5. OwnAnswer' /\ AnswerReachesCaller'
    BY <2>1
  <2> QED
    BY <2>3, <2>4, <2>5
<1>13. ASSUME RejectAllPending PROVE Rest'
  BY <1>13 DEF RejectAllPending, Quiescent
<1>14. ASSUME Crash PROVE Rest'
  <2>1. TypeOK'
    BY <1>14 DEF Crash, Restart
  <2>2. (OpeningIsPending /\ AdvancedIsAccepted /\ EarlyIsKept /\ PromisedOnce /\ OwnAnswer /\ AnswerReachesCaller)'
    BY <1>14 DEF Crash, Restart
  <2> QED
    BY <2>1, <2>2
<1>15. ASSUME UNCHANGED vars PROVE Rest'
  BY <1>15 DEF vars
<1> QED
  BY ONLY <1>1, [Next]_vars, <1>3, <1>4, <1>5, <1>6, <1>7, <1>8, <1>9, <1>10, <1>11, <1>12, <1>13, <1>14, <1>15
     DEF SInv, Next, ResolveStep

(* The inductive invariant of the session, over that of its broker. *)
THEOREM SessionInvariance == Spec => []SInv
  BY InitSInv, StepSInv, PTL DEF Spec

(***************************************************************************)
(* The session uses the broker as its specification allows: whatever is    *)
(* proved of the broker holds in the session.                              *)
(***************************************************************************)
THEOREM SessionUsesBroker == Spec => BrokerSpec
<1>1. Init => BrokerInit
  BY DEF Init
<1>2. SInv /\ [Next]_vars => [BrokerNext]_brokerVars
  BY StepBroker
<1> QED
  BY SessionInvariance, <1>1, <1>2, PTL DEF Spec, BrokerSpec

(***************************************************************************)
(* emitGate returns the answer that was accepted for its gate.             *)
(***************************************************************************)
THEOREM OwnAnswers == Spec => []OwnAnswer
<1>1. SInv => OwnAnswer
  BY DEF SInv
<1> QED
  BY SessionInvariance, <1>1, PTL

(***************************************************************************)
(* Nobody waits for a gate whose workflow was advanced.                    *)
(***************************************************************************)
THEOREM AnswersReach == Spec => []AnswerReachesCaller
<1>1. SInv => AnswerReachesCaller
  BY DEF SInv
<1> QED
  BY SessionInvariance, <1>1, PTL
=============================================================================
