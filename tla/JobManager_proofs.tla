------------------------- MODULE JobManager_proofs -------------------------
(***************************************************************************)
(* Proofs about the job manager (async/job-manager.ts), of both models of  *)
(* it, which share their lemmas about queues, and of the yield queue that  *)
(* it serves.                                                              *)
(*                                                                         *)
(* Background subagents (module SubagentRuns), for any tree of subagents,  *)
(* any limit of running jobs and any number of runs: one run of a subagent *)
(* at a time, records that follow the runs, a queue that is exact, the     *)
(* limit, and no idle slot while a resume waits.                           *)
(*                                                                         *)
(* Deliveries (module JobDeliveries), for any jobs, tool calls and limits: *)
(* no delivery is doubled, no outcome is lost, none is posted twice.       *)
(*                                                                         *)
(* The yield queue, as module JobOutcomes has it, and the two together: the*)
(* manager keeps to what the queue assumes of it, and from the end of its  *)
(* job to its agent an outcome is neither told twice nor lost.             *)
(***************************************************************************)
EXTENDS SubagentRuns, JobOutcomes, SequenceTheorems, FiniteSetTheorems, TLAPS

-----------------------------------------------------------------------------
(* Background subagents: the invariant. *)

(***************************************************************************)
(* The runs of a subagent follow one another: those up to the current one  *)
(* have begun, and of the later ones nothing is known.                     *)
(***************************************************************************)
RunsInOrder ==
    \A r \in Run :
        /\ phase[r] = "none" <=> r[2] > current[r[1]]
        /\ phase[r] = "none" => status[r] = "none" /\ r \notin timers

(***************************************************************************)
(* A pending run is its subagent's current one, and is in the table without*)
(* a timer unless it was cancelled; only a pending run is running.         *)
(***************************************************************************)
PendingIsCurrent ==
    \A r \in Run :
        /\ r \in Unsettled => r[2] = current[r[1]]
        /\ r \in Unsettled /\ status[r] # "cancelled" =>
              status[r] = "running" /\ r \in listed \ timers
        /\ status[r] = "running" => r \in Unsettled

(***************************************************************************)
(* A record names a run, a resume that waits has one more to come, and     *)
(* there is a runner to start it.                                          *)
(***************************************************************************)
RecordHasRun ==
    \A s \in Subagent :
        /\ current[s] \in 0 .. MaxRuns[s]
        /\ recStatus[s] # "none" => current[s] > 0 /\ runner \in Agent
        /\ recStatus[s] = "queued" => current[s] < MaxRuns[s]

SubagentInv ==
    /\ TypeOK
    /\ RunsInOrder
    /\ PendingIsCurrent
    /\ RecordHasRun
    /\ RecordFollowsRun
    /\ QueueIsExact
    /\ RunningLimit
    /\ NoIdleSlot

-----------------------------------------------------------------------------
(* Numbers, sequences and runs.                                            *)

(***************************************************************************)
(* A set of natural numbers that has one has a least one.                  *)
(***************************************************************************)
LEMMA LeastElement ==
  ASSUME NEW D, D \subseteq Nat, D # {}
  PROVE  \E k \in D : \A j \in D : k <= j
<1>1. PICK k \in D : \A j \in D : ~ (<<j, k>> \in OpToRel(<, Nat))
  BY NatLessThanWellFounded, WFMin, Zenon
<1>2. ASSUME NEW j \in D PROVE ~(j < k)
  BY <1>1, Zenon DEF OpToRel
<1> QED
  BY <1>2

(***************************************************************************)
(* Induction up to m: a set that has 0, and with each number below m the   *)
(* next one, has the numbers up to m.                                      *)
(***************************************************************************)
LEMMA SetInduction ==
  ASSUME NEW m \in Nat, NEW D, 0 \in D, \A n \in 0 .. m - 1 : n \in D => n + 1 \in D
  PROVE  \A n \in 0 .. m : n \in D
<1> DEFINE T == (0 .. m) \ D
<1> SUFFICES ASSUME T # {} PROVE FALSE
  OBVIOUS
<1>1. PICK k \in T : \A j \in T : k <= j
  <2>1. T \subseteq Nat
    OBVIOUS
  <2> HIDE DEF T
  <2> QED
    BY <2>1, LeastElement
<1>2. k - 1 \in 0 .. m - 1 /\ k - 1 \notin T
  BY <1>1
<1> QED
  BY <1>1, <1>2

(***************************************************************************)
(* A run is known by its subagent and its number.                          *)
(***************************************************************************)
LEMMA Runs ==
  /\ \A r \in Run : r[1] \in Subagent /\ r[2] \in 1 .. MaxRuns[r[1]] /\ r = <<r[1], r[2]>>
  /\ \A s \in Subagent : \A n \in 1 .. MaxRuns[s] : <<s, n>> \in Run
  BY DEF Run

(* There are finitely many runs. *)
LEMMA RunsFinite == IsFiniteSet(Run)
<1> DEFINE f == [s \in Subagent |-> {s} \X (1 .. MaxRuns[s])]
           T == {f[s] : s \in Subagent}
<1>1. f \in Surjection(Subagent, T)
  BY DEF Surjection
<1>2. IsFiniteSet(T)
  BY ONLY <1>1, SubagentAssumption, FS_Surjection
<1>3. ASSUME NEW s \in Subagent PROVE IsFiniteSet(f[s])
  <2>1. MaxRuns[s] \in Int /\ 1 \in Int
    BY MaxRunsAssumption
  <2>2. IsFiniteSet({s}) /\ IsFiniteSet(1 .. MaxRuns[s])
    BY ONLY <2>1, FS_Singleton, FS_Interval
  <2> QED
    BY <2>2, FS_Product
<1>4. IsFiniteSet(UNION T)
  BY <1>2, <1>3, FS_UNION
<1> QED
  BY <1>4 DEF Run
(***************************************************************************)
(* Without takes the entries of S out of the queue and leaves the others   *)
(* as they were: no entry is doubled.                                      *)
(***************************************************************************)
LEMMA WithoutFacts ==
  ASSUME NEW T, NEW q \in Seq(T), NEW S
  PROVE  /\ Without(q, S) \in Seq(T)
         /\ \A x : (\E i \in 1 .. Len(Without(q, S)) : Without(q, S)[i] = x)
                   <=> (x \notin S /\ \E i \in 1 .. Len(q) : q[i] = x)
         /\ (\A i, j \in 1 .. Len(q) : q[i] = q[j] => i = j) =>
               \A i, j \in 1 .. Len(Without(q, S)) :
                   Without(q, S)[i] = Without(q, S)[j] => i = j
<1> DEFINE Rule(g, i) == IF i = 0 THEN <<>>
                         ELSE IF q[i] \in S THEN g[i - 1] ELSE Append(g[i - 1], q[i])
           Has(n) == \E g : g = [i \in 0 .. n |-> Rule(g, i)]
<1>1. Len(q) \in Nat /\ \A i \in 1 .. Len(q) : q[i] \in T
  BY LenProperties, ElementOfSeq
<1>2. Has(Len(q))
  <2>1. Has(0)
    <3>1. [i \in 0 .. 0 |-> <<>>] = [i \in 0 .. 0 |-> Rule([h \in 0 .. 0 |-> <<>>], i)]
      OBVIOUS
    <3> QED
      BY <3>1
  <2>2. ASSUME NEW n \in 0 .. Len(q) - 1, Has(n) PROVE Has(n + 1)
    <3>1. PICK g : g = [i \in 0 .. n |-> Rule(g, i)]
      BY <2>2
    <3> DEFINE h == [i \in 0 .. n + 1 |-> IF i <= n THEN g[i] ELSE Rule(g, i)]
    <3>2. \A i \in 0 .. n + 1 : i # 0 => i - 1 \in 0 .. n /\ h[i - 1] = g[i - 1]
      BY <1>1
    <3>3. \A i \in 0 .. n + 1 : Rule(h, i) = Rule(g, i)
      BY <3>2
    <3> HIDE DEF Rule
    <3>4. \A i \in 0 .. n : g[i] = Rule(g, i)
      BY <3>1
    <3>5. \A i \in 0 .. n + 1 : h[i] = Rule(g, i)
      BY <1>1, <3>4
    <3>6. h = [i \in 0 .. n + 1 |-> Rule(h, i)]
      BY <3>3, <3>5
    <3> QED
      BY <3>6
  <2> HIDE DEF Has
  <2> DEFINE D == {n \in 0 .. Len(q) : Has(n)}
  <2>3. 0 \in D /\ \A n \in 0 .. Len(q) - 1 : n \in D => n + 1 \in D
    BY <1>1, <2>1, <2>2
  <2> HIDE DEF D
  <2>4. \A n \in 0 .. Len(q) : n \in D
    BY <1>1, <2>3, SetInduction
  <2> QED
    BY <1>1, <2>4 DEF D
<1> DEFINE kept == CHOOSE g : g = [i \in 0 .. Len(q) |-> Rule(g, i)]
<1>3. kept = [i \in 0 .. Len(q) |-> Rule(kept, i)]
  BY <1>2
<1>4. Without(q, S) = kept[Len(q)]
  BY DEF Without
<1> HIDE DEF kept
<1> DEFINE Fits(n) ==
        /\ kept[n] \in Seq(T)
        /\ \A x : (\E i \in 1 .. Len(kept[n]) : kept[n][i] = x) <=> (x \notin S /\ \E i \in 1 .. n : q[i] = x)
        /\ (\A i, j \in 1 .. n : q[i] = q[j] => i = j) =>
               \A i, j \in 1 .. Len(kept[n]) : kept[n][i] = kept[n][j] => i = j
<1>5. Fits(0)
  <2>1. kept[0] = <<>>
    BY <1>1, <1>3
  <2> QED
    BY <2>1, EmptySeq
<1>6. ASSUME NEW n \in 0 .. Len(q) - 1, Fits(n) PROVE Fits(n + 1)
  <2>1. kept[n + 1] = IF q[n + 1] \in S THEN kept[n] ELSE Append(kept[n], q[n + 1])
    <3>1. n + 1 \in 0 .. Len(q) /\ n + 1 # 0 /\ (n + 1) - 1 = n
      BY <1>1
    <3>2. kept[n + 1] = Rule(kept, n + 1)
      BY <1>3, <3>1
    <3> QED
      BY <3>1, <3>2
  <2>2. q[n + 1] \in T /\ n \in 0 .. Len(q) /\ Len(kept[n]) \in Nat
    BY <1>1, <1>6, LenProperties
  <2> DEFINE k == kept[n]
             m == kept[n + 1]
             e == q[n + 1]
  <2>3. k \in Seq(T)
    BY <1>6
  <2>4. \A x : (\E i \in 1 .. n + 1 : q[i] = x) <=> (x = e \/ \E i \in 1 .. n : q[i] = x)
    OBVIOUS
  <2>5. CASE e \in S
    <3>1. m = k
      BY <2>1, <2>5
    <3> HIDE DEF m, k, e
    <3>2. \A x : (x \notin S /\ \E i \in 1 .. n + 1 : q[i] = x) <=> (x \notin S /\ \E i \in 1 .. n : q[i] = x)
      BY <2>4, <2>5
    <3>3. k \in Seq(T) /\ \A x : (\E i \in 1 .. Len(k) : k[i] = x) <=> (x \notin S /\ \E i \in 1 .. n : q[i] = x)
      BY <1>6 DEF k
    <3>4. (\A i, j \in 1 .. n + 1 : q[i] = q[j] => i = j) => \A i, j \in 1 .. Len(k) : k[i] = k[j] => i = j
      BY <1>6, <2>2, SMTT(30) DEF k
    <3> QED
      BY <3>1, <3>2, <3>3, <3>4 DEF m
  <2>6. CASE e \notin S
    <3>1. m = Append(k, e)
      BY <2>1, <2>6
    <3> HIDE DEF m, k
    <3>2. /\ m \in Seq(T) /\ Len(m) = Len(k) + 1 /\ Len(k) \in Nat
          /\ m[Len(k) + 1] = e
          /\ \A i \in 1 .. Len(k) : m[i] = k[i]
      BY <2>2, <2>3, <3>1, AppendProperties DEF k
    <3>3. \A x : (\E i \in 1 .. Len(m) : m[i] = x) <=> (x = e \/ \E i \in 1 .. Len(k) : k[i] = x)
      BY <3>2
    <3>4. \A x : (\E i \in 1 .. Len(k) : k[i] = x) <=> (x \notin S /\ \E i \in 1 .. n : q[i] = x)
      BY <1>6 DEF k
    <3>5. \A x : (\E i \in 1 .. Len(m) : m[i] = x) <=> (x \notin S /\ \E i \in 1 .. n + 1 : q[i] = x)
      BY <2>4, <2>6, <3>3, <3>4
    <3>6. ASSUME \A i, j \in 1 .. n + 1 : q[i] = q[j] => i = j, NEW i \in 1 .. Len(m), NEW j \in 1 .. Len(m), m[i] = m[j]
          PROVE  i = j
      <4>1. \A h \in 1 .. n : q[h] # e
        BY <3>6, <2>2
      <4>2. \A h \in 1 .. Len(k) : k[h] # e
        BY <3>4, <4>1
      <4>3. \A f, h \in 1 .. Len(k) : k[f] = k[h] => f = h
        BY <1>6, <3>6, <2>2 DEF k
      <4> QED
        BY <3>2, <3>6, <4>2, <4>3
    <3> QED
      BY <3>2, <3>5, <3>6 DEF m
  <2> QED
    BY <2>5, <2>6
<1>7. Fits(Len(q))
  <2> HIDE DEF Fits
  <2> DEFINE D == {n \in 0 .. Len(q) : Fits(n)}
  <2>1. 0 \in D /\ \A n \in 0 .. Len(q) - 1 : n \in D => n + 1 \in D
    BY <1>1, <1>5, <1>6
  <2> HIDE DEF D
  <2>2. \A n \in 0 .. Len(q) : n \in D
    BY <1>1, <2>1, SetInduction
  <2> QED
    BY <1>1, <2>2 DEF D
<1> QED
  BY <1>4, <1>7

(***************************************************************************)
(* The drain of the queue takes as many entries as it can: the free slots  *)
(* are not exceeded, and none is left while an entry waits.                *)
(***************************************************************************)
LEMMA PoppedFacts ==
  ASSUME NEW l, NEW st, NEW rs, NEW q \in Seq(Subagent), l \subseteq Run
  PROVE  LET k == Popped(l, st, rs, q)
             taken == Cardinality(Running(l, st)) + Cardinality(Started(k, rs, q))
         IN  /\ k \in 0 .. Len(q)
             /\ Cardinality(Running(l, st)) <= MaxRunning => taken <= MaxRunning
             /\ k = Len(q) \/ taken >= MaxRunning
<1> DEFINE began == Cardinality(Running(l, st))
           Taken(k) == began + Cardinality(Started(k, rs, q))
           Fit(k) == /\ k = Len(q) \/ Taken(k) >= MaxRunning
                     /\ \A j \in 0 .. k - 1 : Taken(j) < MaxRunning
           D == {k \in 0 .. Len(q) : k = Len(q) \/ Taken(k) >= MaxRunning}
           p == Popped(l, st, rs, q)
<1>1. Len(q) \in Nat /\ MaxRunning \in Nat
  BY LenProperties, MaxRunningAssumption
<1>2. began \in Nat
  BY RunsFinite, FS_Subset, FS_CardinalityType DEF Running
<1>3. \A k : IsFiniteSet(Started(k, rs, q)) /\ Cardinality(Started(k, rs, q)) \in Nat
  BY SubagentAssumption, FS_Subset, FS_CardinalityType DEF Started
<1>4. p = CHOOSE k \in 0 .. Len(q) : Fit(k)
  BY DEF Popped
<1> HIDE DEF began, p
<1>5. \E k \in 0 .. Len(q) : Fit(k)
  <2>1. Len(q) \in D /\ D \subseteq Nat
    BY <1>1
  <2>2. PICK k \in D : \A j \in D : k <= j
    <3> HIDE DEF D
    <3> QED
      BY <2>1, LeastElement
  <2>3. \A j \in 0 .. k - 1 : j \in 0 .. Len(q) /\ j # Len(q) /\ j \notin D
    BY <1>1, <2>2
  <2> HIDE DEF Started
  <2>4. \A j \in 0 .. k - 1 : Taken(j) < MaxRunning
    BY <1>1, <1>2, <1>3, <2>3
  <2> QED
    BY <2>2, <2>4
<1>6. p \in 0 .. Len(q) /\ Fit(p)
  <2> HIDE DEF Fit
  <2> QED
    BY <1>4, <1>5
<1>7. ASSUME began <= MaxRunning PROVE Taken(p) <= MaxRunning
  <2>1. CASE p = 0
    <3>1. Started(p, rs, q) = {}
      BY <2>1 DEF Started
    <3> QED
      BY <1>1, <1>2, <1>7, <3>1, FS_EmptySet
  <2>2. CASE p # 0
    <3>1. p - 1 \in 0 .. p - 1 /\ p \in Nat
      BY <1>1, <1>6, <2>2
    <3>2. Taken(p - 1) < MaxRunning
      BY <1>6, <3>1
    <3>3. Started(p, rs, q) \subseteq Started(p - 1, rs, q) \cup {q[p]}
      BY <3>1 DEF Started
    <3>4. Cardinality(Started(p - 1, rs, q) \cup {q[p]}) <= Cardinality(Started(p - 1, rs, q)) + 1
          /\ IsFiniteSet(Started(p - 1, rs, q) \cup {q[p]})
          /\ Cardinality(Started(p - 1, rs, q) \cup {q[p]}) \in Nat
      <4> HIDE DEF Started
      <4>1. /\ IsFiniteSet(Started(p - 1, rs, q)) /\ Cardinality(Started(p - 1, rs, q)) \in Nat
        BY <1>3
      <4>2. /\ IsFiniteSet(Started(p - 1, rs, q) \cup {q[p]})
            /\ Cardinality(Started(p - 1, rs, q) \cup {q[p]}) = IF q[p] \in Started(p - 1, rs, q)
                   THEN Cardinality(Started(p - 1, rs, q)) ELSE Cardinality(Started(p - 1, rs, q)) + 1
        BY <4>1, FS_AddElement
      <4> QED
        BY <4>1, <4>2
    <3>5. Cardinality(Started(p, rs, q)) <= Cardinality(Started(p - 1, rs, q) \cup {q[p]})
      BY <3>3, <3>4, FS_Subset
    <3> HIDE DEF Started
    <3> QED
      BY <1>1, <1>2, <1>3, <3>2, <3>4, <3>5
  <2> QED
    BY <2>1, <2>2
<1> QED
  BY <1>6, <1>7 DEF p, began

(***************************************************************************)
(* The runs that begin in one turn, one for each subagent of S.            *)
(***************************************************************************)
New(S) == {r \in Run : r[1] \in S /\ r[2] = current[r[1]] + 1}

(* The next runs of some subagents: as many as there are subagents. *)
LEMMA NewRuns ==
  ASSUME NEW S, S \subseteq Subagent, current \in [Subagent -> Nat],
         \A s \in S : current[s] < MaxRuns[s]
  PROVE  /\ New(S) = {<<s, current[s] + 1>> : s \in S}
         /\ IsFiniteSet(New(S)) /\ IsFiniteSet(S) /\ Cardinality(New(S)) = Cardinality(S)
<1> DEFINE f == [s \in S |-> <<s, current[s] + 1>>]
<1>1. \A s \in S : <<s, current[s] + 1>> \in Run
  BY Runs, MaxRunsAssumption
<1>2. New(S) = {<<s, current[s] + 1>> : s \in S}
  <2>1. ASSUME NEW r \in New(S) PROVE r[1] \in S /\ r = <<r[1], current[r[1]] + 1>>
    BY Runs DEF New
  <2>2. ASSUME NEW s \in S PROVE <<s, current[s] + 1>> \in New(S)
    BY <1>1 DEF New
  <2> QED
    BY <2>1, <2>2
<1>3. f \in Bijection(S, New(S))
  <2>1. f \in [S -> New(S)]
    BY <1>2
  <2>2. \A x, y \in S : f[x] = f[y] => x = y
    OBVIOUS
  <2>3. \A r \in New(S) : \E x \in S : f[x] = r
    BY <1>2
  <2> HIDE DEF f
  <2>4. f \in Injection(S, New(S))
    BY <2>1, <2>2 DEF Injection, IsInjective
  <2>5. f \in Surjection(S, New(S))
    BY <2>1, <2>3 DEF Surjection
  <2> QED
    BY <2>4, <2>5 DEF Bijection
<1>4. IsFiniteSet(S)
  BY SubagentAssumption, FS_Subset
<1>5. ExistsBijection(S, New(S))
  BY <1>3 DEF ExistsBijection
<1> QED
  BY ONLY <1>2, <1>4, <1>5, FS_Bijection

(***************************************************************************)
(* When the runs of S begin, as many more run.                             *)
(***************************************************************************)
LEMMA StartCount ==
  ASSUME NEW S, S \subseteq Subagent, current \in [Subagent -> Nat],
         \A s \in S : current[s] < MaxRuns[s],
         NEW l, NEW st, NEW rs, NEW q, l \subseteq Run,
         \A r \in New(S) : st[r] # "running",
         Start(S, l, st, rs, q)
  PROVE  /\ Running(listed, status)' = Running(l, st) \cup New(S)
         /\ Cardinality(Running(listed, status)') = Cardinality(Running(l, st)) + Cardinality(S)
         /\ Cardinality(Running(l, st)) \in Nat /\ Cardinality(S) \in Nat
<1>1. /\ listed' = l \cup New(S)
      /\ status' = [r \in Run |-> IF r \in New(S) THEN "running" ELSE st[r]]
      /\ New(S) \subseteq Run
  BY NewRuns DEF Start, New
<1>2. Running(listed, status)' = Running(l, st) \cup New(S)
  BY <1>1 DEF Running
<1>3. Running(l, st) \cap New(S) = {}
  BY DEF Running
<1>4. IsFiniteSet(Running(l, st)) /\ IsFiniteSet(New(S)) /\ IsFiniteSet(S) /\ Cardinality(New(S)) = Cardinality(S)
  BY NewRuns, RunsFinite, FS_Subset DEF Running
<1>5. /\ Cardinality(Running(l, st) \cup New(S)) = Cardinality(Running(l, st)) + Cardinality(New(S)) - 0
      /\ Cardinality(Running(l, st)) \in Nat /\ Cardinality(S) \in Nat
  BY ONLY <1>3, <1>4, FS_Union, FS_EmptySet, FS_CardinalityType
<1> QED
  BY <1>2, <1>4, <1>5

(***************************************************************************)
(* What the drain does: the runs of some subagents begin whose resumes     *)
(* waited, the queue stays exact, the limit is kept, and every slot is     *)
(* taken if a resume still waits.                                          *)
(***************************************************************************)
Drained(S, st, rs, R, p) ==
    /\ S \subseteq Subagent /\ \A s \in S : rs[s] = "queued"
    /\ status' = [r \in Run |-> IF r \in New(S) THEN "running" ELSE st[r]]
    /\ owner' = [r \in Run |-> IF r \in New(S) THEN runner ELSE owner[r]]
    /\ listed' = listed \cup New(S)
    /\ recStatus' = [s \in Subagent |-> IF s \in S THEN "running" ELSE rs[s]]
    /\ current' = [s \in Subagent |-> IF s \in S THEN current[s] + 1 ELSE current[s]]
    /\ phase' = [r \in Run |-> IF r \in R THEN p ELSE IF r \in New(S) THEN "starting" ELSE phase[r]]
    /\ queue' \in Seq(Subagent)

(* What draining the resume queue does, and that it leaves no slot idle. *)
LEMMA DrainEffect ==
  ASSUME SubagentInv, NEW st, NEW rs, NEW R, NEW p,
         \A s \in Subagent : rs[s] = "queued" <=> recStatus[s] = "queued",
         \A r \in Run : st[r] = "running" => status[r] = "running",
         Drain(listed, st, rs, R, p)
  PROVE  /\ \E S : Drained(S, st, rs, R, p)
         /\ QueueIsExact' /\ RunningLimit' /\ NoIdleSlot'
<1> DEFINE k == Popped(listed, st, rs, queue)
           S == Started(k, rs, queue)
<1>1. /\ queue \in Seq(Subagent) /\ listed \subseteq Run /\ MaxRunning \in Nat
      /\ Len(queue) \in Nat /\ \A i \in 1 .. Len(queue) : queue[i] \in Subagent
      /\ current \in [Subagent -> Nat]
  BY LenProperties, ElementOfSeq, MaxRunningAssumption DEF SubagentInv, TypeOK
<1>2. /\ Start(S, listed, st, rs, SubSeq(queue, k + 1, Len(queue)))
      /\ Advance(S, R, p)
  BY DEF Drain
<1>3. Cardinality(Running(listed, st)) <= MaxRunning
  <2>1. Running(listed, st) \subseteq Running(listed, status) /\ IsFiniteSet(Running(listed, status))
    BY <1>1, RunsFinite, FS_Subset DEF Running
  <2>2. /\ Cardinality(Running(listed, st)) <= Cardinality(Running(listed, status))
        /\ Cardinality(Running(listed, st)) \in Nat /\ Cardinality(Running(listed, status)) \in Nat
    BY ONLY <2>1, FS_Subset, FS_CardinalityType
  <2> QED
    BY <1>1, <2>2 DEF SubagentInv, RunningLimit
<1>4. /\ k \in 0 .. Len(queue)
      /\ Cardinality(Running(listed, st)) + Cardinality(S) <= MaxRunning
      /\ k = Len(queue) \/ Cardinality(Running(listed, st)) + Cardinality(S) >= MaxRunning
  BY <1>1, <1>3, PoppedFacts
<1>5. /\ S \subseteq Subagent /\ \A s \in S : rs[s] = "queued" /\ recStatus[s] = "queued"
      /\ \A s \in Subagent : s \in S <=> rs[s] = "queued" /\ \E i \in 1 .. k : queue[i] = s
  BY DEF Started
<1> HIDE DEF k, S
<1>6. \A s \in S : current[s] < MaxRuns[s]
  BY <1>5 DEF SubagentInv, RecordHasRun
<1>7. \A r \in New(S) : st[r] # "running"
  BY Runs, <1>1, <1>5, SMTT(30) DEF New, SubagentInv, RunsInOrder
<1>8. /\ Cardinality(Running(listed, status)') = Cardinality(Running(listed, st)) + Cardinality(S)
  BY <1>1, <1>2, <1>5, <1>6, <1>7, StartCount
<1>9. /\ queue' \in Seq(Subagent) /\ Len(queue') = Len(queue) - k
      /\ \A i \in 1 .. Len(queue) - k : queue'[i] = queue[k + i]
  <2>1. queue' = SubSeq(queue, k + 1, Len(queue))
    BY <1>2 DEF Start
  <2>2. /\ SubSeq(queue, k + 1, Len(queue)) \in Seq(Subagent)
        /\ Len(SubSeq(queue, k + 1, Len(queue))) = IF k + 1 <= Len(queue) THEN Len(queue) - (k + 1) + 1 ELSE 0
        /\ \A i \in 1 .. Len(queue) - (k + 1) + 1 : SubSeq(queue, k + 1, Len(queue))[i] = queue[k + 1 + i - 1]
    <3>1. k + 1 \in Int /\ Len(queue) \in Int /\ \A i \in k + 1 .. Len(queue) : queue[i] \in Subagent
      BY <1>1, <1>4
    <3> QED
      BY ONLY <3>1, SubSeqProperties
  <2> QED
    BY <1>1, <1>4, <2>1, <2>2
<1>10. Drained(S, st, rs, R, p)
  BY <1>1, <1>2, <1>5, <1>6, <1>9, NewRuns, ZenonT(60) DEF Start, Advance, Drained, New
<1>11. QueueIsExact'
  <2>1. \A i, j \in 1 .. Len(queue) : queue[i] = queue[j] => i = j
    BY DEF SubagentInv, QueueIsExact
  <2>2. \A i, j \in 1 .. Len(queue') : queue'[i] = queue'[j] => i = j
    <3> SUFFICES ASSUME NEW i \in 1 .. Len(queue'), NEW j \in 1 .. Len(queue'), queue'[i] = queue'[j]
                 PROVE  i = j
      OBVIOUS
    <3>1. /\ k + i \in 1 .. Len(queue) /\ k + j \in 1 .. Len(queue)
          /\ queue[k + i] = queue'[i] /\ queue[k + j] = queue'[j]
      <4>1. i \in 1 .. Len(queue) - k /\ j \in 1 .. Len(queue) - k
        BY <1>9
      <4>2. queue[k + i] = queue'[i] /\ queue[k + j] = queue'[j]
        BY <1>9, <4>1
      <4>3. k + i \in 1 .. Len(queue) /\ k + j \in 1 .. Len(queue)
        BY <1>1, <1>4, <4>1
      <4> QED
        BY <4>2, <4>3
    <3>2. k + i = k + j
      BY <2>1, <3>1
    <3> QED
      BY <1>1, <1>4, <3>2
  <2>3. \A s \in Subagent : rs[s] = "queued" <=> \E i \in 1 .. Len(queue) : queue[i] = s
    BY DEF SubagentInv, QueueIsExact
  <2>4. ASSUME NEW s \in Subagent PROVE recStatus'[s] = "queued" <=> \E i \in 1 .. Len(queue') : queue'[i] = s
    <3>1. recStatus'[s] = "queued" <=> s \notin S /\ rs[s] = "queued"
      BY <1>10 DEF Drained
    <3>2. ASSUME rs[s] = "queued", s \notin S PROVE \E i \in 1 .. Len(queue') : queue'[i] = s
      <4>1. PICK j \in 1 .. Len(queue) : queue[j] = s
        BY <2>3, <3>2
      <4>2. ~(j <= k)
        BY <1>4, <1>5, <3>2, <4>1
      <4>3. /\ j - k \in 1 .. Len(queue') /\ j - k \in 1 .. Len(queue) - k
            /\ k + (j - k) = j
        BY <1>1, <1>4, <1>9, <4>1, <4>2, SMTT(30)
      <4>4. queue'[j - k] = s
        BY <1>9, <4>1, <4>3
      <4> QED
        BY <4>3, <4>4
    <3>3. ASSUME NEW i \in 1 .. Len(queue'), queue'[i] = s PROVE rs[s] = "queued" /\ s \notin S
      <4>1. k + i \in 1 .. Len(queue) /\ queue[k + i] = s
        BY <1>1, <1>4, <1>9, <3>3, SMTT(30)
      <4>2. \A j \in 1 .. k : queue[j] # s
        BY <1>1, <1>4, <2>1, <4>1, SMTT(30)
      <4> QED
        BY <1>5, <2>3, <4>1, <4>2
    <3> QED
      BY <3>1, <3>2, <3>3
  <2> QED
    BY <2>2, <2>4 DEF QueueIsExact
<1>12. RunningLimit'
  BY <1>4, <1>8 DEF RunningLimit
<1>13. NoIdleSlot'
  <2>1. queue' # <<>> => Cardinality(Running(listed, status)') >= MaxRunning
    <3>1. CASE k = Len(queue)
      <4>1. Len(queue') = 0
        BY <1>1, <1>9, <3>1
      <4> QED
        BY <1>9, <4>1, EmptySeq
    <3>2. CASE k # Len(queue)
      BY <1>4, <1>8, <3>2
    <3> QED
      BY <3>1, <3>2
  <2>2. Cardinality(CancelledUnsettled') \in Nat
    <3>1. CancelledUnsettled' \subseteq Run
      BY DEF CancelledUnsettled, Unsettled
    <3> QED
      BY <3>1, RunsFinite, FS_Subset, FS_CardinalityType
  <2>3. Cardinality(Running(listed, status)') \in Nat
    BY <1>1, <1>2, <1>5, <1>6, <1>7, <1>8, StartCount
  <2> QED
    BY <1>1, <2>1, <2>2, <2>3 DEF NoIdleSlot
<1> QED
  BY <1>10, <1>11, <1>12, <1>13

(***************************************************************************)
(* The slots: a step that lets no run begin and forgets no run that was    *)
(* cancelled and is pending keeps the limit and leaves no slot idle ...    *)
(***************************************************************************)
LEMMA SlotsKept ==
  ASSUME SubagentInv,
         Running(listed, status)' \subseteq Running(listed, status),
         CancelledUnsettled \cup (Running(listed, status) \ Running(listed, status)')
             \subseteq CancelledUnsettled',
         queue' # <<>> => queue # <<>>
  PROVE  RunningLimit' /\ NoIdleSlot'
<1> DEFINE A == Running(listed, status)
           B == Running(listed, status)'
           C == CancelledUnsettled
           D == CancelledUnsettled'
<1>1. /\ IsFiniteSet(A) /\ IsFiniteSet(B) /\ IsFiniteSet(C) /\ IsFiniteSet(D)
      /\ C \cap (A \ B) = {} /\ MaxRunning \in Nat /\ B \subseteq A /\ C \cup (A \ B) \subseteq D
  <2>1. A \subseteq Run /\ C \subseteq Run /\ D \subseteq Run
    BY DEF Running, CancelledUnsettled, Unsettled, SubagentInv, TypeOK
  <2>2. C \cap A = {}
    BY DEF Running, CancelledUnsettled
  <2> HIDE DEF A, B, C, D
  <2> QED
    BY <2>1, <2>2, RunsFinite, FS_Subset, MaxRunningAssumption DEF A, B, C, D
<1>2. /\ Cardinality(A) <= MaxRunning
      /\ queue # <<>> => Cardinality(A) + Cardinality(C) >= MaxRunning
  BY DEF SubagentInv, RunningLimit, NoIdleSlot
<1> HIDE DEF A, B, C, D
<1>3. /\ Cardinality(A) \in Nat /\ Cardinality(B) \in Nat /\ Cardinality(C) \in Nat /\ Cardinality(D) \in Nat
      /\ Cardinality(B) <= Cardinality(A)
  BY <1>1, FS_CardinalityType, FS_Subset
<1>4. IsFiniteSet(A \ B) /\ Cardinality(A \ B) = Cardinality(A) - Cardinality(B)
  <2>1. A \cap B = B
    BY <1>1
  <2> QED
    BY ONLY <1>1, <2>1, FS_Difference
<1>5. Cardinality(C \cup (A \ B)) = Cardinality(C) + Cardinality(A \ B) - 0 /\ IsFiniteSet(C \cup (A \ B))
  BY ONLY <1>1, <1>4, FS_Union, FS_EmptySet, SMTT(30)
<1>6. Cardinality(C \cup (A \ B)) <= Cardinality(D)
  BY <1>1, FS_Subset
<1>7. Cardinality(B) <= MaxRunning
  BY <1>1, <1>2, <1>3
<1>8. queue' # <<>> => Cardinality(B) + Cardinality(D) >= MaxRunning
  BY <1>1, <1>2, <1>3, <1>4, <1>5, <1>6
<1> QED
  BY <1>7, <1>8 DEF B, D, RunningLimit, NoIdleSlot

(***************************************************************************)
(* ... and so does a step that lets one run begin in a free slot.          *)
(***************************************************************************)
LEMMA SlotTaken ==
  ASSUME SubagentInv, NEW r \in Run, r \notin Running(listed, status),
         Running(listed, status)' = Running(listed, status) \cup {r},
         CancelledUnsettled \subseteq CancelledUnsettled',
         Cardinality(Running(listed, status)) < MaxRunning,
         queue' = queue
  PROVE  RunningLimit' /\ NoIdleSlot'
<1> DEFINE A == Running(listed, status)
           B == Running(listed, status)'
           C == CancelledUnsettled
           D == CancelledUnsettled'
<1>1. IsFiniteSet(A) /\ IsFiniteSet(D) /\ IsFiniteSet(C) /\ MaxRunning \in Nat
  <2>1. A \subseteq Run /\ C \subseteq Run /\ D \subseteq Run
    BY DEF Running, CancelledUnsettled, Unsettled, SubagentInv, TypeOK
  <2> HIDE DEF A, B, C, D
  <2> QED
    BY <2>1, RunsFinite, FS_Subset, MaxRunningAssumption
<1>2. queue # <<>> => Cardinality(A) + Cardinality(C) >= MaxRunning
  BY DEF SubagentInv, NoIdleSlot
<1>3. B = A \cup {r} /\ r \notin A /\ C \subseteq D /\ Cardinality(A) < MaxRunning
  OBVIOUS
<1> HIDE DEF A, B, C, D
<1>4. Cardinality(B) = Cardinality(A) + 1
  BY ONLY <1>1, <1>3, FS_AddElement
<1>5. Cardinality(A) \in Nat /\ Cardinality(C) \in Nat /\ Cardinality(D) \in Nat /\ Cardinality(C) <= Cardinality(D)
  BY ONLY <1>1, <1>3, FS_CardinalityType, FS_Subset
<1>6. Cardinality(B) <= MaxRunning
  BY <1>1, <1>3, <1>4, <1>5
<1>7. queue' # <<>> => Cardinality(B) + Cardinality(D) >= MaxRunning
  BY <1>1, <1>2, <1>4, <1>5
<1> QED
  BY <1>6, <1>7 DEF B, D, RunningLimit, NoIdleSlot

-----------------------------------------------------------------------------
(* The invariant.                                                          *)

(* A new manager satisfies the invariant. *)
LEMMA InitSubagentInv == Init => SubagentInv
<1> SUFFICES ASSUME Init PROVE SubagentInv
  OBVIOUS
<1>1. TypeOK
  BY DEF Init, TypeOK, Agent, JobStatus, Lifecycle, Phase
<1>2. RunsInOrder /\ PendingIsCurrent /\ RecordHasRun /\ RecordFollowsRun
  BY Runs, MaxRunsAssumption DEF Init, RunsInOrder, PendingIsCurrent, RecordHasRun, RecordFollowsRun, Unsettled
<1>3. QueueIsExact
  BY DEF Init, QueueIsExact
<1>4. RunningLimit /\ NoIdleSlot
  <2>1. Running(listed, status) = {} /\ queue = <<>>
    BY DEF Init, Running
  <2> QED
    BY <2>1, FS_EmptySet, MaxRunningAssumption DEF RunningLimit, NoIdleSlot
<1> QED
  BY <1>1, <1>2, <1>3, <1>4 DEF SubagentInv

(***************************************************************************)
(* A drain of the queue, after the turn has set the statuses to st, the    *)
(* records to rs and settled the runs in R, preserves what the invariant   *)
(* says of each run and each subagent, if st and rs do.                    *)
(***************************************************************************)
LEMMA DrainKeeps ==
  ASSUME SubagentInv,
         NEW S, NEW st \in [Run -> JobStatus], NEW rs \in [Subagent -> Lifecycle], NEW R \in SUBSET Run,
         NEW p \in Phase, R # {} => p = "settled",
         Drained(S, st, rs, R, p),
         UNCHANGED runner, timers' \in SUBSET Run, pausing' \subseteq Run,
         \A r \in Run : /\ st[r] # status[r] => r[2] <= current[r[1]]
                        /\ r \in timers' => r \in timers \/ r[2] <= current[r[1]],
         \A r \in R : r \in Unsettled /\ st[r] # "running",
         \A r \in Run \ R : /\ st[r] = "running" <=> status[r] = "running"
                            /\ r \in Unsettled => st[r] = status[r] /\ (r \in timers' <=> r \in timers),
         \A s \in Subagent : /\ rs[s] = "none" <=> recStatus[s] = "none"
                             /\ rs[s] = "queued" <=> recStatus[s] = "queued"
                             /\ rs[s] = "running" <=> recStatus[s] = "running" /\ <<s, current[s]>> \notin R,
         \A s \in Subagent :
             /\ rs[s] \in {"paused", "completed", "failed"} => rs[s] = st[<<s, current[s]>>]
             /\ rs[s] = "paused" => <<s, current[s]>> \in listed \ timers'
  PROVE  (TypeOK /\ RunsInOrder /\ PendingIsCurrent /\ RecordHasRun /\ RecordFollowsRun)'
<1> USE Runs, MaxRunsAssumption DEF SubagentInv
<1>1. /\ S \subseteq Subagent /\ \A s \in S : rs[s] = "queued" /\ recStatus[s] = "queued"
      /\ \A s \in Subagent : current[s] \in Nat /\ current'[s] = IF s \in S THEN current[s] + 1 ELSE current[s]
      /\ \A s \in Subagent : recStatus'[s] = IF s \in S THEN "running" ELSE rs[s]
      /\ \A r \in New(S) : r \in Run /\ r[1] \in S /\ r[2] = current[r[1]] + 1 /\ phase[r] = "none"
                           /\ status[r] = "none" /\ r \notin timers
  <2>1. S \subseteq Subagent /\ \A s \in S : rs[s] = "queued" /\ recStatus[s] = "queued"
    BY DEF Drained
  <2>2. /\ \A s \in Subagent : current[s] \in Nat /\ current'[s] = IF s \in S THEN current[s] + 1 ELSE current[s]
        /\ \A s \in Subagent : recStatus'[s] = IF s \in S THEN "running" ELSE rs[s]
    BY DEF Drained, TypeOK
  <2>3. ASSUME NEW r \in New(S)
        PROVE  /\ r \in Run /\ r[1] \in S /\ r[2] = current[r[1]] + 1
               /\ phase[r] = "none" /\ status[r] = "none" /\ r \notin timers
    <3>1. r \in Run /\ r[1] \in S /\ r[2] = current[r[1]] + 1 /\ r[1] \in Subagent
      BY DEF New
    <3>2. r[2] > current[r[1]]
      BY <3>1, <2>2
    <3> QED
      BY <3>1, <3>2 DEF RunsInOrder
  <2> QED
    BY <2>1, <2>2, <2>3
<1>2. \A r \in Run : r \in New(S) <=> r[1] \in S /\ r[2] = current[r[1]] + 1
  BY DEF New
<1>3. \A r \in Run : /\ status'[r] = IF r \in New(S) THEN "running" ELSE st[r]
                     /\ phase'[r] = IF r \in R THEN p ELSE IF r \in New(S) THEN "starting" ELSE phase[r]
                     /\ r \in listed' <=> r \in listed \/ r \in New(S)
                     /\ r \in Unsettled <=> phase[r] \in {"starting", "live", "closing", "closed"}
                     /\ r \in Unsettled' <=> phase'[r] \in {"starting", "live", "closing", "closed"}
  BY DEF Drained, Unsettled
<1>4. \A r \in R : r \notin New(S) /\ phase[r] # "none"
  BY <1>1, <1>3
<1>5. TypeOK'
  <2>1. \A s \in S : runner \in Agent
    BY <1>1 DEF RecordHasRun
  <2>2. owner' \in [Run -> Agent]
    BY <2>1, <1>1, <1>2 DEF Drained, TypeOK
  <2>3. status' \in [Run -> JobStatus] /\ phase' \in [Run -> Phase] /\ listed' \subseteq Run
    BY <1>1 DEF Drained, TypeOK, JobStatus, Phase
  <2>4. recStatus' \in [Subagent -> Lifecycle] /\ current' \in [Subagent -> Nat]
    BY <1>1 DEF Drained, TypeOK, Lifecycle
  <2> QED
    BY <2>2, <2>3, <2>4 DEF Drained, TypeOK
<1>6. RunsInOrder'
  <2> SUFFICES ASSUME NEW r \in Run
               PROVE  /\ phase'[r] = "none" <=> r[2] > current'[r[1]]
                      /\ phase'[r] = "none" => status'[r] = "none" /\ r \notin timers'
    BY DEF RunsInOrder
  <2>1. /\ phase[r] = "none" <=> r[2] > current[r[1]]
        /\ phase[r] = "none" => status[r] = "none" /\ r \notin timers
    BY DEF RunsInOrder
  <2>2. r[1] \in Subagent /\ r[2] \in Nat
    OBVIOUS
  <2>3. phase'[r] = "none" <=> phase[r] = "none" /\ r \notin New(S)
    BY <1>3, <1>4
  <2>4. phase'[r] = "none" <=> r[2] > current'[r[1]]
    <3>1. /\ current[r[1]] \in Nat
          /\ current'[r[1]] = IF r[1] \in S THEN current[r[1]] + 1 ELSE current[r[1]]
      BY <1>1, <2>2
    <3>2. r \in New(S) <=> r[1] \in S /\ r[2] = current[r[1]] + 1
      BY <1>2
    <3>3. S \subseteq Subagent
      BY <1>1 DEF Drained
    <3> QED
      BY ONLY <2>1, <2>2, <2>3, <3>1, <3>2, <3>3
  <2>5. phase'[r] = "none" => status'[r] = "none" /\ r \notin timers'
    BY <1>1, <1>3, <2>1, <2>2, <2>3
  <2> QED
    BY <2>4, <2>5
<1>7. PendingIsCurrent'
  <2> SUFFICES ASSUME NEW r \in Run
               PROVE  /\ r \in Unsettled' => r[2] = current'[r[1]]
                      /\ r \in Unsettled' /\ status'[r] # "cancelled" =>
                            status'[r] = "running" /\ r \in listed' \ timers'
                      /\ status'[r] = "running" => r \in Unsettled'
    BY DEF PendingIsCurrent
  <2>1. /\ r \in Unsettled => r[2] = current[r[1]]
        /\ r \in Unsettled /\ status[r] # "cancelled" => status[r] = "running" /\ r \in listed \ timers
        /\ status[r] = "running" => r \in Unsettled
    BY DEF PendingIsCurrent
  <2>2. r[1] \in Subagent /\ r[2] \in Nat
    OBVIOUS
  <2>3. r \in Unsettled /\ r \notin R => r[1] \notin S
    <3>1. r[1] \in S => recStatus[r[1]] = "queued"
      BY <1>1
    <3>2. r \in Unsettled /\ recStatus[r[1]] # "none" => recStatus[r[1]] = "running"
      BY <2>1, <2>2 DEF RecordFollowsRun
    <3> QED
      BY <3>1, <3>2
  <2>4. CASE r \in New(S)
    BY <1>1, <1>2, <1>3, <1>4, <2>2, <2>4
  <2>5. CASE r \in R
    BY <1>3, <1>4, <2>5
  <2>6. CASE r \notin New(S) /\ r \notin R
    BY <1>1, <1>3, <2>1, <2>2, <2>3, <2>6
  <2> QED
    BY <2>4, <2>5, <2>6
<1>8. RecordHasRun'
  <2> SUFFICES ASSUME NEW s \in Subagent
               PROVE  /\ current'[s] \in 0 .. MaxRuns[s]
                      /\ recStatus'[s] # "none" => current'[s] > 0 /\ runner' \in Agent
                      /\ recStatus'[s] = "queued" => current'[s] < MaxRuns[s]
    BY DEF RecordHasRun
  <2>1. /\ current[s] \in 0 .. MaxRuns[s]
        /\ recStatus[s] # "none" => current[s] > 0 /\ runner \in Agent
        /\ recStatus[s] = "queued" => current[s] < MaxRuns[s]
    BY DEF RecordHasRun
  <2>2. MaxRuns[s] \in Nat /\ runner' = runner
    OBVIOUS
  <2>3. CASE s \in S
    <3>1. recStatus[s] = "queued" /\ recStatus'[s] = "running" /\ current'[s] = current[s] + 1
      BY <1>1, <2>3
    <3> QED
      BY <2>1, <2>2, <3>1
  <2>4. CASE s \notin S
    <3>1. /\ current'[s] = current[s] /\ recStatus'[s] = rs[s]
          /\ rs[s] = "none" <=> recStatus[s] = "none"
          /\ rs[s] = "queued" <=> recStatus[s] = "queued"
      BY <1>1, <2>4, ZenonT(60)
    <3> QED
      BY <2>1, <2>2, <3>1
  <2> QED
    BY <2>3, <2>4
<1>9. RecordFollowsRun'
  <2> SUFFICES ASSUME NEW s \in Subagent
               PROVE  LET r == <<s, current'[s]>>
                      IN  /\ recStatus'[s] = "running" <=> recStatus'[s] # "none" /\ r \in Unsettled'
                          /\ recStatus'[s] \in {"paused", "completed", "failed"} => recStatus'[s] = status'[r]
                          /\ recStatus'[s] = "paused" => r \in listed' \ timers'
    BY DEF RecordFollowsRun
  <2> DEFINE r == <<s, current[s]>>
  <2>1. CASE s \in S
    <3>1. <<s, current[s] + 1>> \in Run /\ <<s, current[s] + 1>> \in New(S)
      BY <1>1, <1>2, <2>1 DEF RecordHasRun
    <3>2. <<s, current[s] + 1>> \in Unsettled'
      BY <1>3, <1>4, <3>1
    <3> QED
      BY <1>1, <2>1, <3>2
  <2>2. CASE s \notin S
    <3>1. recStatus'[s] = rs[s] /\ current'[s] = current[s]
      BY <1>1, <2>2
    <3>2. CASE rs[s] = "none"
      BY <3>1, <3>2
    <3>3. CASE rs[s] # "none"
      <4>1. r \in Run /\ r \notin New(S)
        BY <1>1, <1>2, <2>2, <3>3 DEF RecordHasRun
      <4>2. recStatus[s] = "running" <=> r \in Unsettled
        BY <3>3 DEF RecordFollowsRun
      <4>3. r \in Unsettled' <=> r \in Unsettled /\ r \notin R
        BY <1>3, <4>1
      <4>4. r \in listed => r \in listed'
        BY <1>3, <4>1
      <4>5. status'[r] = st[r]
        BY <1>3, <4>1
      <4> QED
        BY <3>1, <3>3, <4>1, <4>2, <4>3, <4>4, <4>5
    <3> QED
      BY <3>2, <3>3
  <2> QED
    BY <2>1, <2>2
<1> QED
  BY <1>5, <1>6, <1>7, <1>8, <1>9

(***************************************************************************)
(* Every step preserves the invariant.                                     *)
(***************************************************************************)
LEMMA StepSubagentInv == SubagentInv /\ [Next]_vars => SubagentInv'
<1> SUFFICES ASSUME SubagentInv, [Next]_vars PROVE SubagentInv'
  OBVIOUS
<1> DEFINE Rest == TypeOK /\ RunsInOrder /\ PendingIsCurrent /\ RecordHasRun /\ RecordFollowsRun
<1>a. QueueIsExact /\ queue \in Seq(Subagent) /\ listed \subseteq Run
  BY DEF SubagentInv, TypeOK
<1>b. UNCHANGED <<queue, recStatus>> => QueueIsExact'
  BY <1>a DEF QueueIsExact
<1>c. /\ \A i, j \in 1 .. Len(queue) : queue[i] = queue[j] => i = j
      /\ \A t \in Subagent : recStatus[t] = "queued" <=> \E i \in 1 .. Len(queue) : queue[i] = t
  BY <1>a DEF QueueIsExact
<1> USE SpawnerAssumption, MaxRunsAssumption, Runs
    DEF jobVars, recVars, SubagentInv, TypeOK, RunsInOrder, PendingIsCurrent, RecordHasRun, RecordFollowsRun, Unsettled,
        Agent, JobStatus, Lifecycle, Phase
<1>1. ASSUME NEW s \in Subagent, Spawn(s) PROVE SubagentInv'
  <2> DEFINE r == <<s, 1>>
  <2>1. r \in Run /\ phase[r] = "none" /\ runner' = Spawner[s] /\ Spawner[s] \in Agent
    <3>1. phase[r] = "none" /\ runner' = Spawner[s]
      BY <1>1 DEF Spawn
    <3>2. r \in Run /\ Spawner[s] \in Agent
      BY ONLY Runs, SpawnerAssumption, MaxRunsAssumption DEF Agent
    <3> QED
      BY <3>1, <3>2
  <2>2. CASE UNCHANGED <<jobVars, recVars>>
    <3>1. Rest'
      BY <2>1, <2>2
    <3>2. RunningLimit' /\ NoIdleSlot'
      BY <2>2, SlotsKept DEF Running, CancelledUnsettled
    <3> QED
      BY <1>b, <2>2, <3>1, <3>2
  <2>3. CASE /\ Cardinality(Running(listed, status)) < MaxRunning
             /\ status' = [status EXCEPT ![r] = "running"]
             /\ owner' = [owner EXCEPT ![r] = Spawner[s]]
             /\ phase' = [phase EXCEPT ![r] = "starting"]
             /\ listed' = listed \cup {r}
             /\ recStatus' = [recStatus EXCEPT ![s] = "running"]
             /\ current' = [current EXCEPT ![s] = 1]
             /\ UNCHANGED <<timers, pausing, queue>>
    <3>1. current[s] = 0 /\ recStatus[s] = "none" /\ status[r] = "none" /\ r \notin timers
      BY <2>1
    <3>2. TypeOK'
      BY <2>1, <2>3
    <3>3. RunsInOrder'
      BY <2>1, <2>3, <3>1
    <3>4. PendingIsCurrent'
      BY <2>1, <2>3, <3>1
    <3>5. RecordHasRun'
      BY <2>1, <2>3, <3>1
    <3>6. RecordFollowsRun'
      BY <2>1, <2>3, <3>1
    <3>7. QueueIsExact'
      BY <1>a, <2>3, <3>1 DEF QueueIsExact
    <3>8. RunningLimit' /\ NoIdleSlot'
      <4>1. Running(listed, status)' = Running(listed, status) \cup {r} /\ r \notin Running(listed, status)
        BY <2>1, <2>3, <3>1 DEF Running
      <4>2. CancelledUnsettled \subseteq CancelledUnsettled'
        BY <2>1, <2>3, <3>1 DEF CancelledUnsettled
      <4> QED
        BY <2>1, <2>3, <4>1, <4>2, SlotTaken
    <3> QED
      BY <3>2, <3>3, <3>4, <3>5, <3>6, <3>7, <3>8
  <2> QED
    BY <1>1, <2>2, <2>3 DEF Spawn
<1>2. ASSUME NEW s \in Subagent, Pause(s) PROVE SubagentInv'
  <2>1. Rest'
    BY <1>2 DEF Pause, Handle
  <2>2. UNCHANGED <<queue, listed, status, recStatus, phase>>
    BY <1>2 DEF Pause
  <2>3. RunningLimit' /\ NoIdleSlot'
    BY <2>2, SlotsKept DEF Running, CancelledUnsettled
  <2> QED
    BY <1>b, <2>1, <2>2, <2>3
<1>3. ASSUME NEW s \in Subagent, Resume(s) PROVE SubagentInv'
  <2> DEFINE r == <<s, current[s] + 1>>
  <2>1. /\ recStatus[s] \in {"paused", "completed", "failed", "cancelled"}
        /\ current[s] < MaxRuns[s] /\ runner' = runner /\ runner \in Agent
        /\ r \in Run /\ current[s] \in Nat /\ current[s] > 0
    <3>1. /\ recStatus[s] \in {"paused", "completed", "failed", "cancelled"}
          /\ current[s] < MaxRuns[s] /\ runner' = runner
      BY <1>3 DEF Resume
    <3>2. current[s] \in Nat /\ current[s] > 0 /\ runner \in Agent
      BY <3>1
    <3>3. current[s] + 1 \in 1 .. MaxRuns[s]
      BY <3>1, <3>2
    <3> QED
      BY <3>1, <3>2, <3>3
  <2>2. CASE /\ Cardinality(Running(listed, status)) >= MaxRunning
             /\ recStatus' = [recStatus EXCEPT ![s] = "queued"]
             /\ queue' = Append(queue, s)
             /\ UNCHANGED <<jobVars, current>>
    <3>1. TypeOK'
      BY <1>a, <2>1, <2>2, AppendProperties
    <3>2. RunsInOrder' /\ PendingIsCurrent' /\ RecordHasRun'
      BY <2>1, <2>2
    <3>3. RecordFollowsRun'
      BY <2>1, <2>2
    <3>4. QueueIsExact'
      <4>1. /\ Len(queue') = Len(queue) + 1 /\ Len(queue) \in Nat
            /\ queue'[Len(queue) + 1] = s
            /\ \A i \in 1 .. Len(queue) : queue'[i] = queue[i]
        BY <1>a, <2>2, AppendProperties, LenProperties
      <4>2. \A i \in 1 .. Len(queue) : queue[i] # s
        BY ONLY <1>c, <2>1
      <4>3. \A i, j \in 1 .. Len(queue') : queue'[i] = queue'[j] => i = j
        BY ONLY <1>c, <4>1, <4>2
      <4>4. \A t : (\E i \in 1 .. Len(queue') : queue'[i] = t) <=> (t = s \/ \E i \in 1 .. Len(queue) : queue[i] = t)
        BY ONLY <4>1
      <4>5. \A t \in Subagent : recStatus'[t] = "queued" <=> t = s \/ recStatus[t] = "queued"
        BY <2>2
      <4>6. \A t \in Subagent : recStatus'[t] = "queued" <=> \E i \in 1 .. Len(queue') : queue'[i] = t
        BY ONLY <1>c, <4>4, <4>5
      <4> QED
        BY ONLY <4>3, <4>6 DEF QueueIsExact
    <3>5. RunningLimit'
      BY <2>2 DEF RunningLimit, Running
    <3>6. NoIdleSlot'
      <4>1. Running(listed, status)' = Running(listed, status) /\ Running(listed, status) \subseteq Run
            /\ CancelledUnsettled' \subseteq Run
        BY <1>a, <2>2 DEF Running, CancelledUnsettled
      <4>2. Cardinality(Running(listed, status)) \in Nat /\ Cardinality(CancelledUnsettled') \in Nat
        BY <4>1, RunsFinite, FS_Subset, FS_CardinalityType
      <4> QED
        BY <2>2, <4>1, <4>2, MaxRunningAssumption DEF NoIdleSlot
    <3> QED
      BY <3>1, <3>2, <3>3, <3>4, <3>5, <3>6
  <2>3. CASE /\ Cardinality(Running(listed, status)) < MaxRunning
             /\ Start({s}, listed, status, recStatus, queue)
             /\ Advance({s}, {}, "none")
             /\ UNCHANGED <<timers, pausing>>
    <3>1. /\ listed' = listed \cup {r}
          /\ \A q \in Run : q \in {<<t, current[t] + 1>> : t \in {s}} <=> q = r
          /\ queue' = queue
      BY <2>3 DEF Start
    <3>2. /\ status' = [q \in Run |-> IF q = r THEN "running" ELSE status[q]]
          /\ owner' = [q \in Run |-> IF q = r THEN runner ELSE owner[q]]
          /\ recStatus' = [t \in Subagent |-> IF t = s THEN "running" ELSE recStatus[t]]
          /\ current' = [t \in Subagent |-> IF t = s THEN current[t] + 1 ELSE current[t]]
      BY <2>3, <3>1 DEF Start
    <3>3. phase' = [q \in Run |-> IF q = r THEN "starting" ELSE phase[q]]
      BY <2>3 DEF Advance
    <3>4. phase[r] = "none" /\ status[r] = "none" /\ r \notin timers
      BY <2>1
    <3>5. <<s, current[s]>> \in Run /\ <<s, current[s]>> \notin Unsettled
      BY <2>1
    <3>6. TypeOK'
      BY <2>1, <2>3, <3>1, <3>2, <3>3
    <3>7. RunsInOrder'
      BY <2>1, <2>3, <3>2, <3>3, <3>4
    <3>8. PendingIsCurrent'
      BY <2>1, <2>3, <3>1, <3>2, <3>3, <3>4, <3>5
    <3>9. RecordHasRun'
      BY <2>1, <3>2
    <3>10. RecordFollowsRun'
      BY <2>1, <2>3, <3>1, <3>2, <3>3, <3>4
    <3>11. QueueIsExact'
      <4>1. \A t \in Subagent : recStatus'[t] = "queued" <=> recStatus[t] = "queued"
        BY <2>1, <3>2
      <4> QED
        BY ONLY <1>c, <3>1, <4>1 DEF QueueIsExact
    <3>12. RunningLimit' /\ NoIdleSlot'
      <4>1. Running(listed, status)' = Running(listed, status) \cup {r} /\ r \notin Running(listed, status)
        BY <2>1, <3>1, <3>2, <3>4 DEF Running
      <4>2. CancelledUnsettled \subseteq CancelledUnsettled'
        BY <2>1, <3>2, <3>3, <3>4 DEF CancelledUnsettled
      <4> QED
        BY <2>1, <2>3, <3>1, <4>1, <4>2, SlotTaken
    <3> QED
      BY <3>6, <3>7, <3>8, <3>9, <3>10, <3>11, <3>12
  <2> QED
    BY <1>3, <2>2, <2>3 DEF Resume
<1>4. ASSUME NEW r \in Run, Begin(r) \/ End(r) PROVE SubagentInv'
  <2>1. /\ UNCHANGED <<status, owner, listed, timers, pausing, recStatus, current, queue, runner>>
        /\ \E p \in {"live", "closing", "closed"} : phase' = [phase EXCEPT ![r] = p]
        /\ phase[r] \in {"starting", "live"}
    BY <1>4 DEF Begin, End
  <2>2. Unsettled' = Unsettled
    BY <2>1
  <2>3. TypeOK' /\ RunsInOrder' /\ PendingIsCurrent' /\ RecordHasRun' /\ RecordFollowsRun'
    BY <2>1, <2>2
  <2>4. RunningLimit' /\ NoIdleSlot'
    BY ONLY SubagentInv, <2>1, <2>2, SlotsKept DEF Running, CancelledUnsettled
  <2> QED
    BY <1>b, <2>1, <2>3, <2>4
<1>5. ASSUME NEW a \in Agent, CancelOwn(a), \/ UNCHANGED phase
                                           \/ \E r \in Run : /\ phase[r] = "closing"
                                                             /\ phase' = [phase EXCEPT ![r] = "closed"]
      PROVE  SubagentInv'
  <2> DEFINE mine == {r \in Running(listed, status) : owner[r] = a}
             own  == {s \in Subagent : Spawner[s] = a}
  <2>1. /\ status' = [r \in Run |-> IF r \in mine THEN "cancelled" ELSE status[r]]
        /\ timers' = timers \cup mine /\ pausing' = pausing \ mine
        /\ recStatus' = [s \in Subagent |-> IF s \in own THEN "none" ELSE recStatus[s]]
        /\ queue' = Without(queue, own)
        /\ UNCHANGED <<owner, listed, current, runner>>
    BY <1>5 DEF CancelOwn
  <2>2. /\ mine \subseteq Run /\ \A r \in mine : status[r] = "running" /\ r \in Unsettled
    BY <1>a DEF Running
  <2>3. /\ Unsettled' = Unsettled /\ phase' \in [Run -> Phase]
        /\ \A r \in Run : phase'[r] = "none" <=> phase[r] = "none"
    BY <1>5, SMTT(30)
  <2> HIDE DEF mine, own
  <2>4. TypeOK'
    BY <1>a, <2>1, <2>2, <2>3, WithoutFacts
  <2>5. RunsInOrder'
    BY <2>1, <2>2, <2>3
  <2>6. PendingIsCurrent'
    BY <2>1, <2>2, <2>3
  <2>7. RecordHasRun'
    BY <2>1
  <2>8. RecordFollowsRun'
    <3>1. ASSUME NEW s \in Subagent
          PROVE  LET r == <<s, current[s]>>
                 IN  /\ recStatus'[s] = "running" <=> recStatus'[s] # "none" /\ r \in Unsettled'
                     /\ recStatus'[s] \in {"paused", "completed", "failed"} => recStatus'[s] = status'[r]
                     /\ recStatus'[s] = "paused" => r \in listed' \ timers'
      <4> DEFINE r == <<s, current[s]>>
      <4>1. CASE recStatus'[s] = "none"
        BY <4>1
      <4>2. CASE recStatus'[s] = recStatus[s] /\ recStatus[s] # "none"
        <5>1. r \in Run
          BY <4>2
        <5>2. /\ recStatus[s] = "running" <=> r \in Unsettled
              /\ recStatus[s] \in {"paused", "completed", "failed"} => recStatus[s] = status[r]
              /\ recStatus[s] = "paused" => r \in listed \ timers
          BY <4>2 DEF RecordFollowsRun
        <5>3. recStatus[s] # "running" => status'[r] = status[r] /\ (r \in timers' <=> r \in timers)
          BY <2>1, <2>2, <5>1, <5>2
        <5> QED
          BY ONLY <2>1, <2>3, <4>2, <5>2, <5>3
      <4> QED
        BY <2>1, <4>1, <4>2
    <3> QED
      BY ONLY <2>1, <3>1 DEF RecordFollowsRun
  <2>9. QueueIsExact'
    <3>1. \A i, j \in 1 .. Len(queue') : queue'[i] = queue'[j] => i = j
      BY ONLY <1>a, <1>c, <2>1, WithoutFacts
    <3>2. \A s : (\E i \in 1 .. Len(queue') : queue'[i] = s) <=> (s \notin own /\ \E i \in 1 .. Len(queue) : queue[i] = s)
      <4>1. \A s : (\E i \in 1 .. Len(Without(queue, own)) : Without(queue, own)[i] = s)
                     <=> (s \notin own /\ \E i \in 1 .. Len(queue) : queue[i] = s)
        BY ONLY <1>a, WithoutFacts
      <4>2. queue' = Without(queue, own)
        BY ONLY <2>1
      <4> QED
        BY ONLY <4>1, <4>2
    <3>3. \A s \in Subagent : recStatus'[s] = "queued" <=> s \notin own /\ recStatus[s] = "queued"
      BY <2>1
    <3>4. \A s \in Subagent : recStatus'[s] = "queued" <=> \E i \in 1 .. Len(queue') : queue'[i] = s
      BY ONLY <1>c, <3>2, <3>3
    <3> QED
      BY ONLY <3>1, <3>4 DEF QueueIsExact
  <2>10. RunningLimit' /\ NoIdleSlot'
    <3>1. Running(listed, status)' = Running(listed, status) \ mine
      BY <1>a, <2>1, <2>2 DEF Running
    <3>2. CancelledUnsettled \cup mine \subseteq CancelledUnsettled'
      BY <2>1, <2>2, <2>3 DEF CancelledUnsettled
    <3>3. queue' # <<>> => queue # <<>>
      <4>1. \A s : (\E i \in 1 .. Len(queue') : queue'[i] = s) <=> (s \notin own /\ \E i \in 1 .. Len(queue) : queue[i] = s)
        BY ONLY <1>a, <2>1, WithoutFacts
      <4>2. queue' # <<>> => Len(queue') \in Nat \ {0}
        BY <2>4, EmptySeq
      <4>3. queue = <<>> => Len(queue) = 0
        BY EmptySeq
      <4>4. queue' # <<>> => \E i \in 1 .. Len(queue') : queue'[i] = queue'[1]
        BY ONLY <4>2
      <4>5. queue' # <<>> => \E i \in 1 .. Len(queue) : queue[i] = queue'[1]
        BY ONLY <4>1, <4>4
      <4> QED
        BY ONLY <4>3, <4>5
    <3> QED
      BY ONLY SubagentInv, <3>1, <3>2, <3>3, SlotsKept
  <2> QED
    BY <2>4, <2>5, <2>6, <2>7, <2>8, <2>9, <2>10
<1>6. ASSUME NEW r \in Run, NEW outcome \in {"completed", "failed", "paused"}, Settle(r, outcome) PROVE SubagentInv'
  <2> DEFINE to == IF status[r] = "cancelled" THEN "cancelled" ELSE outcome
             st == [status EXCEPT ![r] = to]
             rs == IF IsCurrent(r) THEN [recStatus EXCEPT ![r[1]] = to] ELSE recStatus
  <2>1. /\ phase[r] = "closed" /\ r \in Unsettled
        /\ timers' = IF to = "paused" THEN timers ELSE timers \cup {r}
        /\ pausing' = pausing \ {r}
        /\ Drain(listed, st, rs, {r}, "settled")
        /\ runner' = runner
    BY <1>6 DEF Settle
  <2>2. /\ to \in {"cancelled", "completed", "failed", "paused"}
        /\ to # "cancelled" => status[r] = "running" /\ r \in listed \ timers
        /\ r[2] = current[r[1]] /\ r = <<r[1], current[r[1]]>> /\ r[1] \in Subagent
    BY <1>6, <2>1
  <2>3. /\ recStatus[r[1]] # "none" => recStatus[r[1]] = "running" /\ rs = [recStatus EXCEPT ![r[1]] = to]
        /\ recStatus[r[1]] = "none" => rs = recStatus
    BY <2>1, <2>2 DEF IsCurrent
  <2>4. /\ st \in [Run -> JobStatus] /\ rs \in [Subagent -> Lifecycle]
        /\ \A q \in Run : st[q] = IF q = r THEN to ELSE status[q]
        /\ \A s \in Subagent : rs[s] = IF s = r[1] /\ recStatus[s] # "none" THEN to ELSE recStatus[s]
    BY <2>2, <2>3
  <2> HIDE DEF to, st, rs
  <2>5. \A s \in Subagent : /\ rs[s] = "none" <=> recStatus[s] = "none"
                            /\ rs[s] = "queued" <=> recStatus[s] = "queued"
    BY <2>2, <2>3, <2>4
  <2>6. \A q \in Run : st[q] = "running" => status[q] = "running"
    BY <2>2, <2>4
  <2>7. /\ \E S : Drained(S, st, rs, {r}, "settled")
        /\ QueueIsExact' /\ RunningLimit' /\ NoIdleSlot'
    BY ONLY SubagentInv, <2>1, <2>5, <2>6, DrainEffect
  <2>8. PICK S : Drained(S, st, rs, {r}, "settled")
    BY <2>7
  <2>9. \A q \in Run : /\ st[q] # status[q] => q[2] <= current[q[1]]
                       /\ q \in timers' => q \in timers \/ q[2] <= current[q[1]]
    BY <2>1, <2>2, <2>4
  <2>10. \A q \in Run \ {r} : /\ st[q] = "running" <=> status[q] = "running"
                              /\ q \in Unsettled => st[q] = status[q] /\ (q \in timers' <=> q \in timers)
    BY <2>1, <2>4
  <2>11. \A s \in Subagent : rs[s] = "running" <=> recStatus[s] = "running" /\ <<s, current[s]>> \notin {r}
    BY <2>2, <2>3, <2>4
  <2>12. \A s \in Subagent :
             /\ rs[s] \in {"paused", "completed", "failed"} => rs[s] = st[<<s, current[s]>>]
             /\ rs[s] = "paused" => <<s, current[s]>> \in listed \ timers'
    <3> SUFFICES ASSUME NEW s \in Subagent, rs[s] \in {"paused", "completed", "failed"}
                 PROVE  /\ rs[s] = st[<<s, current[s]>>]
                        /\ rs[s] = "paused" => <<s, current[s]>> \in listed \ timers'
      OBVIOUS
    <3>1. recStatus[s] # "none" /\ <<s, current[s]>> \in Run
      BY <2>5
    <3>2. CASE s = r[1]
      <4>1. rs[s] = to /\ st[r] = to /\ r = <<s, current[s]>>
        BY <2>2, <2>4, <3>1, <3>2
      <4>2. to = "paused" => r \in listed \ timers'
        BY <2>1, <2>2
      <4> QED
        BY ONLY <4>1, <4>2
    <3>3. CASE s # r[1]
      BY <2>1, <2>2, <2>4, <3>1, <3>3
    <3> QED
      BY <3>2, <3>3
  <2>13. /\ timers' \in SUBSET Run /\ pausing' \subseteq Run /\ {r} \in SUBSET Run /\ "settled" \in Phase
    BY <2>1
  <2>14. \A q \in {r} : q \in Unsettled /\ st[q] # "running"
    BY <2>1, <2>2, <2>4
  <2> HIDE DEF SubagentInv, TypeOK, RunsInOrder, PendingIsCurrent, RecordHasRun, RecordFollowsRun, Unsettled,
               JobStatus, Lifecycle, Phase
  <2>15. (TypeOK /\ RunsInOrder /\ PendingIsCurrent /\ RecordHasRun /\ RecordFollowsRun)'
    BY ONLY SubagentInv, <2>1, <2>4, <2>5, <2>8, <2>9, <2>10, <2>11, <2>12, <2>13, <2>14, DrainKeeps
  <2> QED
    BY ONLY <2>7, <2>15 DEF SubagentInv
<1>7. ASSUME NEW s \in Subagent, NEW st, NEW rs, NEW R, R = {}, Drain(listed, st, rs, R, "none"),
             st = [status EXCEPT ![<<s, current[s]>>] = "cancelled"],
             timers' = timers \cup {<<s, current[s]>>}, UNCHANGED <<pausing, runner>>,
             \/ recStatus[s] = "cancelled" /\ rs = recStatus
             \/ recStatus[s] = "paused" /\ rs = [recStatus EXCEPT ![s] = "cancelled"]
      PROVE  SubagentInv'
  <2> DEFINE r == <<s, current[s]>>
  <2>1. r \in Run /\ r \notin Unsettled /\ status[r] # "running" /\ r[1] = s /\ r[2] = current[s]
    <3>1. recStatus[s] # "none" /\ recStatus[s] # "running"
      BY <1>7
    <3>2. current[s] \in 1 .. MaxRuns[s]
      BY <3>1
    <3>3. r \in Run
      BY <3>2
    <3>4. r \notin Unsettled
      BY <3>1, <3>3 DEF RecordFollowsRun
    <3> QED
      BY <3>3, <3>4
  <2>2. /\ st \in [Run -> JobStatus] /\ rs \in [Subagent -> Lifecycle]
        /\ \A q \in Run : st[q] = IF q = r THEN "cancelled" ELSE status[q]
        /\ \A t \in Subagent : rs[t] = IF t = s THEN "cancelled" ELSE recStatus[t]
        /\ recStatus[s] \in {"paused", "cancelled"}
    <3>1. st \in [Run -> JobStatus] /\ \A q \in Run : st[q] = IF q = r THEN "cancelled" ELSE status[q]
      BY <1>7, <2>1
    <3>2. /\ rs \in [Subagent -> Lifecycle] /\ recStatus[s] \in {"paused", "cancelled"}
          /\ \A t \in Subagent : rs[t] = IF t = s THEN "cancelled" ELSE recStatus[t]
      <4>1. recStatus \in [Subagent -> Lifecycle]
        OBVIOUS
      <4>2. CASE recStatus[s] = "cancelled" /\ rs = recStatus
        BY ONLY <4>1, <4>2
      <4>3. CASE recStatus[s] = "paused" /\ rs = [recStatus EXCEPT ![s] = "cancelled"]
        BY ONLY <4>1, <4>3
      <4> QED
        BY ONLY <1>7, <4>2, <4>3
    <3> QED
      BY <3>1, <3>2
  <2> HIDE DEF r
  <2>3. \A t \in Subagent : /\ rs[t] = "none" <=> recStatus[t] = "none"
                            /\ rs[t] = "queued" <=> recStatus[t] = "queued"
                            /\ rs[t] = "running" <=> recStatus[t] = "running" /\ <<t, current[t]>> \notin R
    BY <1>7, <2>2
  <2>4. \A q \in Run : st[q] = "running" => status[q] = "running"
    BY <2>2
  <2>5. \A q \in Run \ R : /\ st[q] = "running" <=> status[q] = "running"
                           /\ q \in Unsettled => st[q] = status[q] /\ (q \in timers' <=> q \in timers)
    BY <1>7, <2>1, <2>2 DEF r
  <2>6. \A q \in Run : /\ st[q] # status[q] => q[2] <= current[q[1]]
                       /\ q \in timers' => q \in timers \/ q[2] <= current[q[1]]
    <3>1. r[2] <= current[r[1]]
      BY <2>1
    <3> QED
      BY <1>7, <2>2, <3>1 DEF r
  <2>7. \A t \in Subagent :
            /\ rs[t] \in {"paused", "completed", "failed"} => rs[t] = st[<<t, current[t]>>]
            /\ rs[t] = "paused" => <<t, current[t]>> \in listed \ timers'
    <3> SUFFICES ASSUME NEW t \in Subagent, rs[t] \in {"paused", "completed", "failed"}
                 PROVE  /\ rs[t] = st[<<t, current[t]>>]
                        /\ rs[t] = "paused" => <<t, current[t]>> \in listed \ timers'
      OBVIOUS
    <3>1. t # s /\ rs[t] = recStatus[t] /\ recStatus[t] # "none"
      BY <2>2
    <3>2. <<t, current[t]>> \in Run /\ <<t, current[t]>> # r
      BY <3>1 DEF r
    <3> QED
      BY <1>7, <2>2, <3>1, <3>2 DEF r
  <2>8. timers' \in SUBSET Run /\ pausing' \subseteq Run /\ R \in SUBSET Run /\ "none" \in Phase
    BY <1>7, <2>1 DEF r
  <2>9. \A q \in R : q \in Unsettled /\ st[q] # "running"
    BY <1>7
  <2>10. (R # {} => "none" = "settled") /\ runner' = runner
    BY <1>7
  <2> HIDE DEF SubagentInv, TypeOK, RunsInOrder, PendingIsCurrent, RecordHasRun, RecordFollowsRun, Unsettled,
               JobStatus, Lifecycle, Phase
  <2>11. /\ \E S : Drained(S, st, rs, R, "none")
         /\ QueueIsExact' /\ RunningLimit' /\ NoIdleSlot'
    BY ONLY SubagentInv, <1>7, <2>3, <2>4, DrainEffect
  <2>12. PICK S : Drained(S, st, rs, R, "none")
    BY <2>11
  <2>13. (TypeOK /\ RunsInOrder /\ PendingIsCurrent /\ RecordHasRun /\ RecordFollowsRun)'
    BY ONLY SubagentInv, <2>2, <2>3, <2>5, <2>6, <2>7, <2>8, <2>9, <2>10, <2>12, DrainKeeps
  <2> QED
    BY ONLY <2>11, <2>13 DEF SubagentInv
<1>8. ASSUME NEW s \in Subagent, CancelQueued(s) PROVE SubagentInv'
  <2>1. /\ recStatus[s] = "queued" /\ recStatus' = [recStatus EXCEPT ![s] = "cancelled"]
        /\ queue' = Without(queue, {s}) /\ UNCHANGED <<jobVars, current, runner>>
    BY <1>8 DEF CancelQueued
  <2>a. PICK S : S = {s} /\ queue' = Without(queue, S)
    BY <2>1
  <2>2. queue' \in Seq(Subagent)
    BY ONLY <1>a, <2>a, WithoutFacts
  <2>3. Rest'
    BY <2>1, <2>2
  <2>4. \A i, j \in 1 .. Len(queue') : queue'[i] = queue'[j] => i = j
    BY ONLY <1>a, <1>c, <2>a, WithoutFacts
  <2>5. \A t : (\E i \in 1 .. Len(queue') : queue'[i] = t) <=> (t \notin S /\ \E i \in 1 .. Len(queue) : queue[i] = t)
    <3>1. \A t : (\E i \in 1 .. Len(Without(queue, S)) : Without(queue, S)[i] = t)
                   <=> (t \notin S /\ \E i \in 1 .. Len(queue) : queue[i] = t)
      BY ONLY <1>a, WithoutFacts
    <3> QED
      BY ONLY <2>a, <3>1
  <2>6. \A t \in Subagent : recStatus'[t] = "queued" <=> t # s /\ recStatus[t] = "queued"
    BY <2>1
  <2>7. \A t \in Subagent : recStatus'[t] = "queued" <=> \E i \in 1 .. Len(queue') : queue'[i] = t
    BY ONLY <1>c, <2>a, <2>5, <2>6
  <2>8. QueueIsExact'
    BY ONLY <2>4, <2>7 DEF QueueIsExact
  <2>9. queue # <<>>
    <3>1. \E i \in 1 .. Len(queue) : queue[i] = s
      BY ONLY <1>c, <2>1
    <3>2. queue = <<>> => Len(queue) = 0
      BY EmptySeq
    <3> QED
      BY ONLY <3>1, <3>2
  <2>10. RunningLimit' /\ NoIdleSlot'
    BY <2>1, <2>9, SlotsKept DEF Running, CancelledUnsettled
  <2> QED
    BY <2>3, <2>8, <2>10
<1>9. ASSUME NEW r \in Run, NEW a \in Agent, CancelRunning(r, a) PROVE SubagentInv'
  <2>1. /\ r \in Running(listed, status) /\ status' = [status EXCEPT ![r] = "cancelled"]
        /\ pausing' = pausing \ {r}
        /\ UNCHANGED <<owner, phase, listed, timers, recStatus, current, queue, runner>>
    BY <1>9 DEF CancelRunning
  <2>2. status[r] = "running" /\ r \in Unsettled
    BY <2>1 DEF Running
  <2>3. TypeOK' /\ RunsInOrder' /\ PendingIsCurrent' /\ RecordHasRun'
    BY <2>1, <2>2
  <2>4. RecordFollowsRun'
    <3>1. ASSUME NEW s \in Subagent
          PROVE  LET q == <<s, current[s]>>
                 IN  /\ recStatus[s] = "running" <=> recStatus[s] # "none" /\ q \in Unsettled
                     /\ recStatus[s] \in {"paused", "completed", "failed"} => recStatus[s] = status'[q]
                     /\ recStatus[s] = "paused" => q \in listed \ timers
      <4>1. CASE recStatus[s] = "none"
        BY <4>1
      <4>2. CASE recStatus[s] # "none"
        <5>1. <<s, current[s]>> \in Run
          BY <4>2
        <5> QED
          BY <2>1, <2>2, <4>2, <5>1
      <4> QED
        BY <4>1, <4>2
    <3>2. Unsettled' = Unsettled
      BY <2>1
    <3> QED
      BY ONLY <2>1, <3>1, <3>2 DEF RecordFollowsRun
  <2>5. RunningLimit' /\ NoIdleSlot'
    <3>1. Running(listed, status)' = Running(listed, status) \ {r}
      BY <1>a, <2>1 DEF Running
    <3>2. CancelledUnsettled \cup {r} \subseteq CancelledUnsettled'
      BY <2>1, <2>2 DEF CancelledUnsettled
    <3> QED
      BY ONLY SubagentInv, <2>1, <3>1, <3>2, SlotsKept
  <2> QED
    BY <1>b, <2>1, <2>3, <2>4, <2>5
<1>10. ASSUME NEW r \in Run, Evict(r) PROVE SubagentInv'
  <2>1. /\ r \in timers /\ timers' = timers \ {r} /\ listed' = listed \ {r}
        /\ UNCHANGED <<status, owner, phase, pausing, recVars, runner>>
    BY <1>10 DEF Evict
  <2>2. status[r] # "running"
    BY <2>1
  <2>3. Rest'
    BY <2>1, <2>2
  <2>4. Running(listed, status)' = Running(listed, status) /\ CancelledUnsettled' = CancelledUnsettled
    BY <1>a, <2>1, <2>2 DEF Running, CancelledUnsettled
  <2>5. RunningLimit' /\ NoIdleSlot'
    BY ONLY SubagentInv, <2>1, <2>4, SlotsKept DEF recVars
  <2> QED
    BY <1>b, <2>1, <2>3, <2>5
<1>11. ASSUME UNCHANGED vars PROVE SubagentInv'
  <2>1. Rest' /\ QueueIsExact'
    BY <1>b, <1>11 DEF vars
  <2>2. Running(listed, status)' = Running(listed, status) /\ CancelledUnsettled' = CancelledUnsettled /\ queue' = queue
    BY <1>11 DEF vars, Running, CancelledUnsettled
  <2>3. RunningLimit' /\ NoIdleSlot'
    BY ONLY SubagentInv, <2>2, SlotsKept
  <2> QED
    BY <2>1, <2>3
<1> HIDE DEF SubagentInv, TypeOK
<1>12. ASSUME NEW s \in Subagent, CancelPaused(s) \/ CancelPausedJob(s) PROVE SubagentInv'
  BY <1>7, <1>12 DEF CancelPaused, CancelPausedJob
<1>13. ASSUME NEW r \in Run, Teardown(r) PROVE SubagentInv'
  <2>1. r[1] \in Agent
    BY Runs DEF Agent
  <2>2. CancelOwn(r[1]) /\ phase[r] = "closing" /\ phase' = [phase EXCEPT ![r] = "closed"]
    BY <1>13 DEF Teardown
  <2> QED
    BY <1>5, <2>1, <2>2
<1>14. ASSUME NewSession PROVE SubagentInv'
  BY <1>5, <1>14 DEF NewSession, Agent
<1> QED
  BY ONLY [Next]_vars, <1>1, <1>2, <1>3, <1>4, <1>6, <1>8, <1>9, <1>10, <1>11, <1>12, <1>13, <1>14
     DEF Next, RunStep

(* The inductive invariant. *)
THEOREM SubagentInvariance == Spec => []SubagentInv
  BY InitSubagentInv, StepSubagentInv, PTL DEF Spec

(***************************************************************************)
(* The variables have their types.                                         *)
(***************************************************************************)
THEOREM SubagentTypes == Spec => []TypeOK
<1>1. SubagentInv => TypeOK
  BY DEF SubagentInv
<1> QED
  BY SubagentInvariance, <1>1, PTL

(***************************************************************************)
(* A subagent has at most one run whose promise is pending.                *)
(***************************************************************************)
THEOREM OneRun == Spec => []OneRunAtATime
<1>1. SubagentInv => OneRunAtATime
  BY Runs DEF SubagentInv, PendingIsCurrent, OneRunAtATime, Unsettled
<1> QED
  BY SubagentInvariance, <1>1, PTL

(***************************************************************************)
(* The record of a subagent says what its current run does.                *)
(***************************************************************************)
THEOREM RecordsFollow == Spec => []RecordFollowsRun
<1>1. SubagentInv => RecordFollowsRun
  BY DEF SubagentInv
<1> QED
  BY SubagentInvariance, <1>1, PTL

(***************************************************************************)
(* A resume that waits is in the queue once, and nothing else is there.    *)
(***************************************************************************)
THEOREM QueueExact == Spec => []QueueIsExact
<1>1. SubagentInv => QueueIsExact
  BY DEF SubagentInv
<1> QED
  BY SubagentInvariance, <1>1, PTL

(***************************************************************************)
(* No slot for a running job is idle while a resume waits.                 *)
(***************************************************************************)
THEOREM SlotsUsed == Spec => []NoIdleSlot
<1>1. SubagentInv => NoIdleSlot
  BY DEF SubagentInv
<1> QED
  BY SubagentInvariance, <1>1, PTL

(***************************************************************************)
(* No more jobs run than maxRunningJobs, although a resume that waits is   *)
(* started outside the check that register makes.                          *)
(***************************************************************************)
THEOREM LimitKept == Spec => []RunningLimit
<1>1. SubagentInv => RunningLimit
  BY DEF SubagentInv
<1> QED
  BY <1>1, SubagentInvariance, PTL

-----------------------------------------------------------------------------
(* Deliveries, the yield queue and the two together: the invariants. *)

(***************************************************************************)
(* Where deliveries are: each is in the queue once or in one attempt, and  *)
(* only those of finished jobs are, whose outcome has not been posted and  *)
(* which have an attempt left.                                             *)
(***************************************************************************)
Placed ==
    /\ OneEntry
    /\ \A j \in Job : Pending(j) => jobs[j] = "done" /\ posted[j] = 0
    /\ \A j \in Job : jobs[j] = "running" => posted[j] = 0
    /\ \A j \in Job : Pending(j) \/ jobs[j] = "running" => attempts[j] < MaxAttempts

(***************************************************************************)
(* What the manager knows of tool results: it suppresses only what a tool  *)
(* has returned, all of that until it evicts the job or is disposed of;    *)
(* a job is watched for a tool call that waits for it, and then nothing is *)
(* on its way.                                                             *)
(***************************************************************************)
ToolsKnown ==
    /\ suppressed \subseteq told /\ told \subseteq Finished
    /\ disposal.at # "over" => \A j \in told : jobs[j] = "done" => j \in suppressed
    /\ \A j \in watched : \E t \in Tool : j \in awaited[t].live
    /\ \A j \in watched : ~Pending(j) /\ posted[j] = 0
    /\ \A t \in Tool : awaited[t].live \subseteq awaited[t].all

DeliveryInv ==
    /\ DeliveryTypeOK
    /\ Placed
    /\ ToolsKnown
    /\ NoneLost

(***************************************************************************)
(* An entry of the yield queue was posted and not shown, and what was not  *)
(* posted was not shown; an idle flush is scheduled once, or twice if      *)
(* clear has reset the flag.                                               *)
(***************************************************************************)
QueueInv ==
    /\ Session!TypeOK
    /\ \A j \in Job : j \in entries \/ j \notin Posted => shown[j] = 0
    /\ scheduled <= (IF idleFlushPending THEN 1 ELSE 0) + (IF closing = "no" THEN 0 ELSE 1)

(***************************************************************************)
(* What was posted has come to the queue, the agent, or to a tool; the     *)
(* manager is disposed of at the end of the session.                       *)
(***************************************************************************)
OutcomeInv ==
    /\ DeliveryInv
    /\ QueueInv
    /\ closing = "no" => \A j \in Job : posted[j] > 0 => j \in entries \cup told \/ shown[j] > 0
    /\ Disposed => closing = "cancelled"

-----------------------------------------------------------------------------
(* Queues of deliveries. *)

(***************************************************************************)
(* A queue without doubles, and attempts at none of its entries.           *)
(***************************************************************************)
Distinct(q) == \A i, k \in 1 .. Len(q) : q[i] = q[k] => i = k

Sound(q, c) == q \in Seq(Job) /\ c \subseteq Job /\ Distinct(q) /\ ToSet(q) \cap c = {}

(***************************************************************************)
(* The members of a queue.                                                 *)
(***************************************************************************)
LEMMA Members ==
  ASSUME NEW T, NEW q \in Seq(T)
  PROVE  /\ Len(q) \in Nat /\ \A i \in 1 .. Len(q) : q[i] \in T /\ q[i] \in ToSet(q)
         /\ \A x : x \in ToSet(q) <=> \E i \in 1 .. Len(q) : q[i] = x
         /\ ToSet(q) \subseteq T
<1>1. DOMAIN q = 1 .. Len(q) /\ Len(q) \in Nat /\ \A i \in 1 .. Len(q) : q[i] \in T
  BY LenProperties, ElementOfSeq
<1> QED
  BY <1>1 DEF ToSet

(***************************************************************************)
(* The rest of a queue from place k on.                                    *)
(***************************************************************************)
LEMMA SuffixFacts ==
  ASSUME NEW T, NEW q \in Seq(T), NEW k \in 1 .. Len(q) + 1
  PROVE  LET s == SubSeq(q, k, Len(q))
         IN  /\ s \in Seq(T) /\ ToSet(s) \subseteq ToSet(q)
             /\ Distinct(q) => Distinct(s) /\ \A i \in 1 .. k - 1 : q[i] \notin ToSet(s)
             /\ \A x \in ToSet(q) \ ToSet(s) : \E i \in 1 .. k - 1 : q[i] = x
<1> DEFINE s == SubSeq(q, k, Len(q))
           n == Len(q)
<1>1. n \in Nat /\ \A i \in 1 .. n : q[i] \in T /\ q[i] \in ToSet(q)
  BY Members
<1>2. k \in Int /\ n \in Int /\ \A i \in k .. n : q[i] \in T
  BY <1>1
<1>3. /\ s \in Seq(T) /\ Len(s) = (IF k <= n THEN n - k + 1 ELSE 0)
      /\ \A i \in 1 .. n - k + 1 : s[i] = q[k + i - 1]
  BY ONLY <1>2, SubSeqProperties
<1>4. Len(s) = n - k + 1
  BY <1>1, <1>3
<1>5. \A i \in 1 .. n - k + 1 : k + i - 1 \in 1 .. n /\ s[i] = q[k + i - 1]
  BY <1>1, <1>3
<1> HIDE DEF s
<1>6. \A x : x \in ToSet(s) <=> \E i \in 1 .. n - k + 1 : s[i] = x
  BY <1>3, <1>4, Members
<1>7. ToSet(s) \subseteq ToSet(q)
  BY <1>1, <1>5, <1>6
<1>8. ASSUME Distinct(q) PROVE Distinct(s) /\ \A i \in 1 .. k - 1 : q[i] \notin ToSet(s)
  <2>1. ASSUME NEW i \in 1 .. n - k + 1, NEW h \in 1 .. n - k + 1, s[i] = s[h] PROVE i = h
    <3>1. k + i - 1 \in 1 .. n /\ k + h - 1 \in 1 .. n /\ q[k + i - 1] = q[k + h - 1]
      BY <1>5, <2>1
    <3>2. k + i - 1 = k + h - 1
      BY <1>8, <3>1 DEF Distinct
    <3> QED
      BY <3>2
  <2>2. ASSUME NEW i \in 1 .. k - 1, NEW h \in 1 .. n - k + 1, s[h] = q[i] PROVE FALSE
    <3>1. i \in 1 .. n /\ k + h - 1 \in 1 .. n /\ q[k + h - 1] = q[i] /\ i # k + h - 1
      BY <1>1, <1>5, <2>2
    <3> QED
      BY <1>8, <3>1 DEF Distinct
  <2> QED
    BY <1>4, <1>6, <2>1, <2>2 DEF Distinct
<1>9. ASSUME NEW x \in ToSet(q) \ ToSet(s) PROVE \E i \in 1 .. k - 1 : q[i] = x
  <2>1. PICK i \in 1 .. n : q[i] = x
    BY Members
  <2>2. ASSUME i >= k PROVE FALSE
    <3>1. i - k + 1 \in 1 .. n - k + 1 /\ k + (i - k + 1) - 1 = i
      BY <1>1, <2>2
    <3> QED
      BY <1>5, <1>6, <2>1, <3>1
  <2> QED
    BY <1>1, <2>1, <2>2
<1> QED
  BY <1>3, <1>7, <1>8, <1>9 DEF s

(***************************************************************************)
(* An entry is taken out of the queue, from place k.                       *)
(***************************************************************************)
LEMMA RemoveAtFacts ==
  ASSUME NEW T, NEW q \in Seq(T), NEW k \in 1 .. Len(q)
  PROVE  LET s == RemoveAt(q, k)
         IN  /\ s \in Seq(T) /\ ToSet(s) \subseteq ToSet(q)
             /\ Distinct(q) => Distinct(s) /\ q[k] \notin ToSet(s)
             /\ \A x \in ToSet(q) \ ToSet(s) : x = q[k]
<1> DEFINE n == Len(q)
           a == SubSeq(q, 1, k - 1)
           b == SubSeq(q, k + 1, n)
           s == RemoveAt(q, k)
<1>1. n \in Nat /\ \A i \in 1 .. n : q[i] \in T /\ q[i] \in ToSet(q)
  BY Members
<1>2. /\ 1 \in Int /\ k - 1 \in Int /\ k + 1 \in Int /\ n \in Int
      /\ \A i \in 1 .. k - 1 : q[i] \in T
      /\ \A i \in k + 1 .. n : q[i] \in T
  BY <1>1
<1>3. a \in Seq(T) /\ Len(a) = k - 1 /\ \A i \in 1 .. k - 1 : a[i] = q[i]
  <2>1. /\ a \in Seq(T) /\ Len(a) = (IF 1 <= k - 1 THEN k - 1 - 1 + 1 ELSE 0)
        /\ \A i \in 1 .. k - 1 - 1 + 1 : a[i] = q[1 + i - 1]
    BY ONLY <1>2, SubSeqProperties
  <2> QED
    BY <2>1, <1>1
<1>4. b \in Seq(T) /\ Len(b) = n - k /\ \A i \in 1 .. n - k : b[i] = q[k + i]
  <2>1. /\ b \in Seq(T) /\ Len(b) = (IF k + 1 <= n THEN n - (k + 1) + 1 ELSE 0)
        /\ \A i \in 1 .. n - (k + 1) + 1 : b[i] = q[k + 1 + i - 1]
    BY ONLY <1>2, SubSeqProperties
  <2> QED
    BY <2>1, <1>1
<1>5. s = a \o b
  BY DEF RemoveAt
<1> HIDE DEF a, b, s
<1>6. /\ s \in Seq(T) /\ Len(s) = n - 1
      /\ \A i \in 1 .. n - 1 : s[i] = IF i < k THEN q[i] ELSE q[i + 1]
  <2>1. /\ s \in Seq(T) /\ Len(s) = Len(a) + Len(b)
        /\ \A i \in 1 .. Len(a) + Len(b) : s[i] = IF i <= Len(a) THEN a[i] ELSE b[i - Len(a)]
    BY <1>3, <1>4, <1>5, ConcatProperties
  <2>2. Len(s) = n - 1
    BY <1>1, <1>3, <1>4, <2>1
  <2>3. ASSUME NEW i \in 1 .. n - 1 PROVE s[i] = IF i < k THEN q[i] ELSE q[i + 1]
    <3>1. s[i] = IF i <= k - 1 THEN a[i] ELSE b[i - (k - 1)]
      BY <1>1, <1>3, <1>4, <2>1
    <3>2. CASE i < k
      BY <1>1, <1>3, <3>1, <3>2
    <3>3. CASE i >= k
      <4>1. /\ ~(i <= k - 1) /\ i - (k - 1) \in 1 .. n - k
            /\ k + (i - (k - 1)) = i + 1
        BY <1>1, <3>3
      <4> QED
        BY <1>4, <3>1, <3>3, <4>1
    <3> QED
      BY <3>2, <3>3
  <2> QED
    BY <2>1, <2>2, <2>3
<1>7. \A x : x \in ToSet(s) <=> \E i \in 1 .. n : i # k /\ q[i] = x
  <2>1. \A x : x \in ToSet(s) <=> \E i \in 1 .. n - 1 : s[i] = x
    BY <1>6, Members
  <2>2. ASSUME NEW x, NEW i \in 1 .. n, i # k, q[i] = x PROVE \E h \in 1 .. n - 1 : s[h] = x
    <3>1. CASE i < k
      BY <1>1, <1>6, <2>2, <3>1
    <3>2. CASE i > k
      <4>1. i - 1 \in 1 .. n - 1 /\ s[i - 1] = q[(i - 1) + 1] /\ (i - 1) + 1 = i
        BY <1>1, <1>6, <3>2
      <4> QED
        BY <2>2, <4>1
    <3> QED
      BY <2>2, <3>1, <3>2
  <2>3. ASSUME NEW x, NEW h \in 1 .. n - 1, s[h] = x PROVE \E i \in 1 .. n : i # k /\ q[i] = x
    BY <1>1, <1>6, <2>3
  <2> QED
    BY <2>1, <2>2, <2>3
<1>8. ToSet(s) \subseteq ToSet(q)
  BY <1>1, <1>7
<1>9. ASSUME Distinct(q) PROVE Distinct(s) /\ q[k] \notin ToSet(s)
  BY <1>1, <1>6, <1>7, <1>9 DEF Distinct
<1>10. \A x \in ToSet(q) \ ToSet(s) : x = q[k]
  BY <1>7, Members
<1> QED
  BY <1>6, <1>8, <1>9, <1>10 DEF s

(***************************************************************************)
(* An entry is added to the queue.                                         *)
(***************************************************************************)
LEMMA AppendFacts ==
  ASSUME NEW T, NEW q \in Seq(T), NEW x \in T
  PROVE  /\ Append(q, x) \in Seq(T) /\ ToSet(Append(q, x)) = ToSet(q) \cup {x}
         /\ Distinct(q) /\ x \notin ToSet(q) => Distinct(Append(q, x))
<1>1. /\ Append(q, x) \in Seq(T) /\ Len(Append(q, x)) = Len(q) + 1
      /\ \A i \in 1 .. Len(q) : Append(q, x)[i] = q[i]
      /\ Append(q, x)[Len(q) + 1] = x
  BY AppendProperties
<1>2. Len(q) \in Nat
  BY Members
<1> DEFINE s == Append(q, x)
<1> HIDE DEF s
<1>3. /\ s \in Seq(T) /\ Len(s) = Len(q) + 1 /\ s[Len(q) + 1] = x
      /\ \A i \in 1 .. Len(q) : s[i] = q[i]
  BY <1>1 DEF s
<1>4. \A y : y \in ToSet(s) <=> \E i \in 1 .. Len(q) + 1 : s[i] = y
  BY <1>3, Members
<1>5. \A y : y \in ToSet(q) <=> \E i \in 1 .. Len(q) : q[i] = y
  BY Members
<1>6. ToSet(s) = ToSet(q) \cup {x}
  BY <1>2, <1>3, <1>4, <1>5
<1>7. Distinct(q) /\ x \notin ToSet(q) => Distinct(s)
  BY <1>2, <1>3, <1>5 DEF Distinct
<1> QED
  BY <1>3, <1>6, <1>7 DEF s

(***************************************************************************)
(* The entries of S are taken out of the queue.                            *)
(***************************************************************************)
LEMMA WithoutMembers ==
  ASSUME NEW T, NEW q \in Seq(T), NEW S
  PROVE  /\ Without(q, S) \in Seq(T) /\ ToSet(Without(q, S)) = ToSet(q) \ S
         /\ Distinct(q) => Distinct(Without(q, S))
<1> DEFINE s == Without(q, S)
<1>1. s \in Seq(T)
  BY WithoutFacts
<1>2. \A x : (\E i \in 1 .. Len(s) : s[i] = x) <=> (x \notin S /\ \E i \in 1 .. Len(q) : q[i] = x)
  BY WithoutFacts
<1>3. Distinct(q) => Distinct(s)
  <2>1. (\A i, j \in 1 .. Len(q) : q[i] = q[j] => i = j) =>
           \A i, j \in 1 .. Len(s) : s[i] = s[j] => i = j
    BY WithoutFacts
  <2> QED
    BY <2>1 DEF Distinct
<1> HIDE DEF s
<1>4. \A x : x \in ToSet(s) <=> \E i \in 1 .. Len(s) : s[i] = x
  BY <1>1, Members
<1>5. \A x : x \in ToSet(q) <=> \E i \in 1 .. Len(q) : q[i] = x
  BY Members
<1>6. ToSet(s) = ToSet(q) \ S
  BY <1>2, <1>4, <1>5
<1> QED
  BY <1>1, <1>3, <1>6 DEF s

-----------------------------------------------------------------------------
(* The delivery loop. *)

(***************************************************************************)
(* A step has only moved deliveries between the queue q and the attempts c,*)
(* or dropped those that are suppressed.                                   *)
(***************************************************************************)
Kept(q, c) ==
    /\ Sound(deliveries', calls') /\ inFlight' \subseteq Job /\ loop' \in LoopPlace
    /\ ToSet(deliveries') \cup calls' \subseteq ToSet(q) \cup c
    /\ \A j \in ToSet(q) \cup c : j \in ToSet(deliveries') \cup calls' \/ Quiet(j)

(***************************************************************************)
(* An iteration of the loop only moves deliveries.                         *)
(***************************************************************************)
LEMMA IterateKeeps ==
  ASSUME NEW q, NEW c, Sound(q, c), NEW f \in SUBSET Job, NEW d, Iterate(q, c, f, d)
  PROVE  Kept(q, c)
<1>1. q \in Seq(Job) /\ c \subseteq Job /\ Distinct(q) /\ ToSet(q) \cap c = {}
  BY DEF Sound
<1>2. /\ Len(q) \in Nat /\ ToSet(q) \subseteq Job
      /\ \A i \in 1 .. Len(q) : q[i] \in Job /\ q[i] \in ToSet(q)
      /\ \A x : x \in ToSet(q) <=> \E i \in 1 .. Len(q) : q[i] = x
  BY <1>1, Members
<1>3. CASE /\ \A i \in 1 .. Len(q) : Quiet(q[i])
           /\ deliveries' = <<>> /\ calls' = c /\ inFlight' = f
           /\ loop' = At("ending", NoJob)
  <2>1. ToSet(<<>>) = {} /\ <<>> \in Seq(Job) /\ Distinct(<<>>)
    BY DEF ToSet, Distinct
  <2>2. At("ending", NoJob) \in LoopPlace
    BY DEF At, LoopPlace
  <2> QED
    BY <1>1, <1>2, <1>3, <2>1, <2>2 DEF Kept, Sound
<1>4. ASSUME NEW k \in 1 .. Len(q), \A i \in 1 .. k - 1 : Quiet(q[i]), q[k] \in d,
             deliveries' = SubSeq(q, k + 1, Len(q)), calls' = c \cup {q[k]},
             inFlight' = f \cup {q[k]}, loop' = At("awaiting", q[k]),
             Audible(q[k])
      PROVE  Kept(q, c)
  <2> DEFINE s == SubSeq(q, k + 1, Len(q))
  <2>1. k + 1 \in 1 .. Len(q) + 1
    BY <1>2
  <2>2. /\ s \in Seq(Job) /\ ToSet(s) \subseteq ToSet(q)
        /\ Distinct(s) /\ \A i \in 1 .. (k + 1) - 1 : q[i] \notin ToSet(s)
        /\ \A x \in ToSet(q) \ ToSet(s) : \E i \in 1 .. (k + 1) - 1 : q[i] = x
    BY <1>1, <2>1, SuffixFacts
  <2> HIDE DEF s
  <2>3. /\ q[k] \notin ToSet(s)
        /\ \A x \in ToSet(q) \ ToSet(s) : x = q[k] \/ Quiet(x)
    <3>1. ASSUME NEW x \in ToSet(q) \ ToSet(s) PROVE x = q[k] \/ Quiet(x)
      <4>1. PICK i \in 1 .. (k + 1) - 1 : q[i] = x
        BY <2>2
      <4>2. i = k \/ i \in 1 .. k - 1
        BY <1>2
      <4> QED
        BY <1>4, <4>1, <4>2
    <3>2. k \in 1 .. (k + 1) - 1
      BY <1>2
    <3> QED
      BY <2>2, <3>1, <3>2
  <2>4. At("awaiting", q[k]) \in LoopPlace
    BY <1>2 DEF At, LoopPlace
  <2>5. deliveries' = s
    BY <1>4 DEF s
  <2> QED
    BY <1>1, <1>2, <1>4, <2>2, <2>3, <2>4, <2>5 DEF Kept, Sound
<1>5. ASSUME NEW k \in 1 .. Len(q), \A i \in 1 .. k - 1 : Quiet(q[i]),
             deliveries' = SubSeq(q, k, Len(q)), calls' = c, inFlight' = f,
             loop' = At("sleeping", q[k])
      PROVE  Kept(q, c)
  <2> DEFINE s == SubSeq(q, k, Len(q))
  <2>1. k \in 1 .. Len(q) + 1
    BY <1>2
  <2>2. /\ s \in Seq(Job) /\ ToSet(s) \subseteq ToSet(q) /\ Distinct(s)
        /\ \A x \in ToSet(q) \ ToSet(s) : \E i \in 1 .. k - 1 : q[i] = x
    BY <1>1, <2>1, SuffixFacts
  <2> HIDE DEF s
  <2>3. \A x \in ToSet(q) \ ToSet(s) : Quiet(x)
    BY <1>5, <2>2
  <2>4. At("sleeping", q[k]) \in LoopPlace
    BY <1>2 DEF At, LoopPlace
  <2>5. deliveries' = s
    BY <1>5 DEF s
  <2> QED
    BY <1>1, <1>2, <1>5, <2>2, <2>3, <2>4, <2>5 DEF Kept, Sound
<1> QED
  BY <1>3, <1>4, <1>5 DEF Iterate

(***************************************************************************)
(* So does starting the loop.                                              *)
(***************************************************************************)
LEMMA EnsureLoopKeeps ==
  ASSUME NEW q, NEW c, Sound(q, c), NEW f \in SUBSET Job, NEW d, loop \in LoopPlace,
         EnsureLoop(q, c, f, d)
  PROVE  Kept(q, c)
<1>1. CASE Iterate(q, c, f, d)
  BY <1>1, IterateKeeps
<1>2. CASE deliveries' = q /\ calls' = c /\ inFlight' = f /\ UNCHANGED loop
  BY <1>2 DEF Kept, Sound
<1> QED
  BY <1>1, <1>2 DEF EnsureLoop

(* So does the end of an attempt, which settles it, and it does not end dispose. *)
LEMMA EndAttemptKeeps ==
  ASSUME DeliveryTypeOK, NEW j \in Job, NEW q, NEW d, Sound(q, calls \ {j}),
         EndAttempt(j, q, d)
  PROVE  /\ Kept(q, calls \ {j})
         /\ drain' \in DrainPlace /\ disposal' \in DisposalPlace
         /\ disposal'.at = "over" <=> disposal.at = "over"
         /\ Disposed' <=> Disposed
<1>1. /\ loop \in LoopPlace /\ drain \in DrainPlace /\ disposal \in DisposalPlace
      /\ inFlight \ {j} \in SUBSET Job
  BY DEF DeliveryTypeOK
<1>2. Kept(q, calls \ {j})
  <2>1. CASE /\ loop' = At("ready", NoJob)
             /\ deliveries' = q /\ calls' = calls \ {j} /\ inFlight' = inFlight \ {j}
    <3>1. At("ready", NoJob) \in LoopPlace
      BY DEF At, LoopPlace
    <3> QED
      BY <1>1, <2>1, <3>1 DEF Kept, Sound
  <2>2. CASE EnsureLoop(q, calls \ {j}, inFlight \ {j}, d)
    BY <1>1, <2>2, EnsureLoopKeeps
  <2> QED
    BY <2>1, <2>2 DEF EndAttempt
<1>3. /\ drain' \in DrainPlace /\ disposal' \in DisposalPlace
      /\ disposal' = disposal \/ (disposal = At("awaiting", j) /\ disposal' = At("ready", NoJob))
  <2>1. At("ready", NoJob) \in DrainPlace /\ At("ready", NoJob) \in DisposalPlace
    BY DEF At, DrainPlace, DisposalPlace
  <2>2. /\ drain' = (IF drain = At("awaiting", j) THEN At("ready", NoJob) ELSE drain)
        /\ disposal' = (IF disposal = At("awaiting", j) THEN At("ready", NoJob) ELSE disposal)
    BY DEF EndAttempt
  <2>3. drain' \in DrainPlace
    BY <1>1, <2>1, <2>2
  <2>4. disposal' \in DisposalPlace
    BY <1>1, <2>1, <2>2
  <2>5. disposal' = disposal \/ (disposal = At("awaiting", j) /\ disposal' = At("ready", NoJob))
    BY <2>2
  <2> QED
    BY <2>3, <2>4, <2>5
<1>4. /\ disposal'.at = "over" <=> disposal.at = "over"
      /\ Disposed' <=> Disposed
  BY <1>3 DEF At, Disposed
<1> QED
  BY <1>2, <1>3, <1>4

-----------------------------------------------------------------------------
(* Steps that move deliveries along. *)

(***************************************************************************)
(* What most steps do: a job may end; an outcome that waits goes on        *)
(* waiting, is posted or given up, or is dropped because it is suppressed; *)
(* and none that does not wait comes back.                                 *)
(***************************************************************************)
Advanced(j) ==
    /\ jobs'[j] = jobs[j] \/ (jobs[j] = "running" /\ jobs'[j] \in {"done", "cancelled"})
    /\ posted'[j] >= posted[j]
    /\ Pending(j)' \/ jobs[j] = "running" => posted'[j] = posted[j]
    /\ Pending(j)' => Pending(j) \/ (jobs[j] = "running" /\ jobs'[j] = "done" /\ Audible(j))
    /\ posted'[j] # posted[j] => Audible(j)
    /\ Pending(j)' \/ jobs'[j] = "running" => attempts'[j] < MaxAttempts
    /\ Pending(j) \/ (jobs[j] = "running" /\ jobs'[j] = "done") =>
          Pending(j)' \/ j \in dead' \/ posted'[j] > 0 \/ Quiet(j)

Moved ==
    /\ DeliveryTypeOK' /\ OneEntry'
    /\ UNCHANGED toolVars
    /\ dead \subseteq dead' /\ (disposal.at = "over" => disposal'.at = "over")
    /\ \A j \in Job : Advanced(j)

(***************************************************************************)
(* A delivery that is suppressed has been returned by a tool, or is waited *)
(* for by a tool call.                                                     *)
(***************************************************************************)
LEMMA QuietKnown ==
  ASSUME ToolsKnown, NEW j, Quiet(j)
  PROVE  j \in told \/ \E t \in Tool : j \in awaited[t].all
BY DEF Quiet, ToolsKnown

(***************************************************************************)
(* Such steps preserve the invariant.                                      *)
(***************************************************************************)
LEMMA MovedKeepsInv ==
  ASSUME DeliveryInv, Moved
  PROVE  DeliveryInv'
<1>1. /\ jobs \in [Job -> {"running", "done", "evicted", "cancelled"}]
      /\ jobs' \in [Job -> {"running", "done", "evicted", "cancelled"}]
      /\ posted \in [Job -> Nat] /\ posted' \in [Job -> Nat]
      /\ told \subseteq Job
  BY DEF DeliveryInv, DeliveryTypeOK, Moved
<1>2. /\ suppressed' = suppressed /\ watched' = watched /\ awaited' = awaited /\ told' = told
      /\ dead \subseteq dead' /\ (disposal.at = "over" => disposal'.at = "over")
      /\ \A j \in Job : Advanced(j)
  BY DEF Moved, toolVars
<1>3. ASSUME NEW j \in Job
      PROVE  /\ j \in Finished => jobs'[j] = jobs[j]
             /\ j \in Finished' => j \in Finished \/ (jobs[j] = "running" /\ jobs'[j] = "done")
             /\ j \in Finished => j \in Finished'
  BY <1>1, <1>2 DEF Advanced, Finished
<1>4. Placed'
  <2>1. ASSUME NEW j \in Job, Pending(j)' PROVE jobs'[j] = "done" /\ posted'[j] = 0
    BY <1>1, <1>2, <2>1 DEF Advanced, DeliveryInv, Placed
  <2>2. ASSUME NEW j \in Job, jobs'[j] = "running" PROVE posted'[j] = 0
    BY <1>1, <1>2, <2>2 DEF Advanced, DeliveryInv, Placed
  <2>3. ASSUME NEW j \in Job, Pending(j)' \/ jobs'[j] = "running" PROVE attempts'[j] < MaxAttempts
    BY <1>2, <2>3 DEF Advanced
  <2> QED
    BY <2>1, <2>2, <2>3 DEF Moved, Placed
<1>5. ToolsKnown'
  <2>1. told \subseteq Finished'
    BY <1>1, <1>3 DEF DeliveryInv, ToolsKnown
  <2>2. ASSUME disposal'.at # "over", NEW j \in told, jobs'[j] = "done" PROVE j \in suppressed
    BY <1>1, <1>2, <1>3, <2>2 DEF DeliveryInv, ToolsKnown
  <2>3. ASSUME NEW j \in watched PROVE ~Pending(j)' /\ posted'[j] = 0
    <3>1. j \in Job /\ ~Audible(j) /\ ~Pending(j) /\ posted[j] = 0
      BY DEF DeliveryInv, DeliveryTypeOK, ToolsKnown, Audible, Quiet
    <3> QED
      BY <1>2, <3>1 DEF Advanced
  <2> QED
    BY <1>2, <2>1, <2>2, <2>3 DEF DeliveryInv, ToolsKnown
<1>6. NoneLost'
  <2> SUFFICES ASSUME disposal'.at # "over", NEW j \in Finished'
               PROVE  \/ j \in dead' \cup told' \/ Pending(j)'
                      \/ posted'[j] > 0
                      \/ \E t \in Tool : j \in awaited'[t].all
    BY DEF NoneLost, Pending
  <2>0. j \in Job
    BY DEF Finished
  <2>1. CASE Pending(j) \/ (jobs[j] = "running" /\ jobs'[j] = "done")
    <3>1. Pending(j)' \/ j \in dead' \/ posted'[j] > 0 \/ Quiet(j)
      BY <1>2, <2>0, <2>1 DEF Advanced
    <3>2. CASE Quiet(j)
      <4>1. j \in told \/ \E t \in Tool : j \in awaited[t].all
        BY <3>2, QuietKnown DEF DeliveryInv
      <4> QED
        BY <1>2, <4>1
    <3> QED
      BY <3>1, <3>2
  <2>2. CASE ~Pending(j) /\ j \in Finished
    <3>1. \/ j \in dead \cup told \/ posted[j] > 0
          \/ \E t \in Tool : j \in awaited[t].all
      BY <1>2, <2>2 DEF DeliveryInv, NoneLost, Pending
    <3>2. posted[j] > 0 => posted'[j] > 0
      BY <1>1, <1>2, <2>0 DEF Advanced
    <3> QED
      BY <1>2, <3>1, <3>2
  <2> QED
    BY <1>3, <2>0, <2>1, <2>2
<1> QED
  BY <1>4, <1>5, <1>6 DEF DeliveryInv, Moved

(***************************************************************************)
(* A step of the loop or of the drain is one.                              *)
(***************************************************************************)
LEMMA KeptMoves ==
  ASSUME DeliveryInv, Kept(deliveries, calls),
         UNCHANGED <<jobs, attempts, dead, toolVars, posted>>, due' \subseteq Job,
         drain' \in DrainPlace, disposal' \in DisposalPlace,
         disposal.at = "over" => disposal'.at = "over"
  PROVE  Moved
<1>1. /\ Sound(deliveries', calls') /\ inFlight' \subseteq Job /\ loop' \in LoopPlace
      /\ \A j : Pending(j)' => Pending(j)
      /\ \A j : Pending(j) => Pending(j)' \/ Quiet(j)
  BY DEF Kept, Pending
<1>2. DeliveryTypeOK'
  BY <1>1 DEF DeliveryInv, DeliveryTypeOK, Sound, toolVars
<1>3. OneEntry'
  BY <1>1 DEF Sound, Distinct, OneEntry
<1>4. ASSUME NEW j \in Job PROVE Advanced(j)
  <2>1. posted[j] \in Nat
    BY DEF DeliveryInv, DeliveryTypeOK
  <2> QED
    BY <1>1, <2>1 DEF Advanced, DeliveryInv, Placed
<1> QED
  BY <1>2, <1>3, <1>4 DEF Moved

(* The invariant has the queue sound. *)
LEMMA SoundNow ==
  ASSUME DeliveryInv
  PROVE  Sound(deliveries, calls)
BY DEF DeliveryInv, DeliveryTypeOK, Placed, OneEntry, Sound, Distinct

(* A step of the delivery loop moves deliveries. *)
LEMMA LoopMoves ==
  ASSUME DeliveryInv, LoopStep
  PROVE  Moved
<1>1. /\ inFlight \in SUBSET Job /\ due \subseteq Job /\ drain \in DrainPlace
      /\ disposal \in DisposalPlace
  BY DEF DeliveryInv, DeliveryTypeOK
<1>2. Sound(deliveries, calls)
  BY SoundNow
<1>3. ASSUME NEW d, Iterate(deliveries, calls, inFlight, d) PROVE Kept(deliveries, calls)
  BY <1>1, <1>2, <1>3, IterateKeeps
<1>4. CASE Wake
  <2>1. Kept(deliveries, calls)
    BY <1>3, <1>4 DEF Wake
  <2> QED
    BY <1>1, <1>4, <2>1, KeptMoves DEF Wake
<1>5. CASE Continue
  <2>1. Kept(deliveries, calls)
    BY <1>3, <1>5 DEF Continue
  <2> QED
    BY <1>1, <1>5, <2>1, KeptMoves DEF Continue
<1>6. CASE EndLoop
  <2>1. Kept(deliveries, calls)
    <3>1. CASE Iterate(deliveries, calls, inFlight, due)
      BY <1>3, <3>1
    <3>2. CASE loop' = At("none", NoJob) /\ UNCHANGED <<deliveries, calls, inFlight>>
      <4>1. At("none", NoJob) \in LoopPlace
        BY DEF At, LoopPlace
      <4> QED
        BY <1>1, <1>2, <3>2, <4>1 DEF Kept, Sound
    <3> QED
      BY <1>6, <3>1, <3>2 DEF EndLoop
  <2>2. At("ready", NoJob) \in DisposalPlace /\ At("ready", NoJob).at = "ready"
    BY DEF At, DisposalPlace
  <2>3. /\ disposal' = (IF disposal.at = "onLoop" THEN At("ready", NoJob) ELSE disposal)
        /\ UNCHANGED <<jobs, attempts, due, dead, drain, toolVars, posted>>
    BY <1>6 DEF EndLoop
  <2>4. disposal' \in DisposalPlace /\ (disposal.at = "over" => disposal'.at = "over")
    BY <1>1, <2>2, <2>3
  <2> QED
    BY <1>1, <2>1, <2>3, <2>4, KeptMoves
<1> QED
  BY <1>4, <1>5, <1>6 DEF LoopStep

(***************************************************************************)
(* Nothing moves when the queue and the attempts stay as they are.         *)
(***************************************************************************)
LEMMA SameKept ==
  ASSUME DeliveryInv, UNCHANGED <<deliveries, calls, inFlight>>, loop' \in LoopPlace
  PROVE  Kept(deliveries, calls)
<1>1. Sound(deliveries, calls) /\ inFlight \subseteq Job
  BY SoundNow DEF DeliveryInv, DeliveryTypeOK
<1> QED
  BY <1>1 DEF Kept, Sound

(***************************************************************************)
(* The places where a loop waits for a delivery.                           *)
(***************************************************************************)
LEMMA Places ==
  ASSUME NEW j \in Job \cup {NoJob}
  PROVE  /\ \A p \in {"none", "sleeping", "waking", "awaiting", "ready", "ending"} :
               At(p, j) \in LoopPlace
         /\ \A p \in {"none", "sleeping", "awaiting", "ready"} : At(p, j) \in DrainPlace
         /\ \A p \in {"none", "settling", "ready", "onLoop", "awaiting", "spinning", "over"} :
               At(p, j) \in DisposalPlace
         /\ \A p : At(p, j).at = p
BY DEF At, LoopPlace, DrainPlace, DisposalPlace

(* A timer leaves the deliveries where they are. *)
LEMMA TickMoves ==
  ASSUME DeliveryInv, NEW j \in Job, Tick(j)
  PROVE  Moved
<1>1. /\ loop \in LoopPlace /\ drain \in DrainPlace /\ disposal \in DisposalPlace
      /\ due \subseteq Job
  BY DEF DeliveryInv, DeliveryTypeOK
<1>2. /\ UNCHANGED <<jobs, deliveries, calls, inFlight, attempts, dead, toolVars, posted>>
      /\ due' \subseteq Job /\ disposal' = disposal
      /\ loop' = (IF loop = At("sleeping", j) THEN At("waking", j) ELSE loop)
      /\ drain' = (IF drain = At("sleeping", j) THEN At("ready", NoJob) ELSE drain)
  BY <1>1 DEF Tick
<1>3. loop' \in LoopPlace
  BY <1>1, <1>2, Places
<1>4. drain' \in DrainPlace
  BY <1>1, <1>2, Places
<1>5. Kept(deliveries, calls)
  BY <1>2, <1>3, SameKept
<1> QED
  BY <1>1, <1>2, <1>4, <1>5, KeptMoves

(* The drain moves a delivery, from the queue to an attempt, or none. *)
LEMMA DrainMoves ==
  ASSUME DeliveryInv, DrainStep \/ DrainTimeout
  PROVE  Moved
<1>1. /\ loop \in LoopPlace /\ disposal \in DisposalPlace /\ due \subseteq Job
      /\ inFlight \subseteq Job
  BY DEF DeliveryInv, DeliveryTypeOK
<1>2. UNCHANGED <<jobs, attempts, due, dead, loop, disposal, toolVars, posted>>
  BY DEF DrainStep, DrainTimeout, deliveryVars
<1>3. Sound(deliveries, calls)
  BY SoundNow
<1>4. CASE UNCHANGED <<deliveries, calls, inFlight>> /\ drain' \in DrainPlace
  <2>1. Kept(deliveries, calls)
    BY <1>1, <1>2, <1>4, SameKept
  <2> QED
    BY <1>1, <1>2, <1>4, <2>1, KeptMoves
<1>5. ASSUME NEW i \in 1 .. Len(deliveries), Send(i)
      PROVE  Moved
  <2> DEFINE j == deliveries[i]
             s == RemoveAt(deliveries, i)
  <2>1. deliveries \in Seq(Job) /\ Distinct(deliveries) /\ ToSet(deliveries) \cap calls = {}
        /\ calls \subseteq Job
    BY <1>3 DEF Sound
  <2>2. j \in Job /\ j \in ToSet(deliveries)
    BY <2>1, Members
  <2>3. /\ s \in Seq(Job) /\ ToSet(s) \subseteq ToSet(deliveries)
        /\ Distinct(s) /\ j \notin ToSet(s)
        /\ \A x \in ToSet(deliveries) \ ToSet(s) : x = j
    BY <2>1, RemoveAtFacts
  <2>4. /\ deliveries' = s /\ calls' = calls \cup {j} /\ inFlight' = inFlight \cup {j}
        /\ drain' = At("awaiting", j)
    BY <1>5 DEF Send
  <2> HIDE DEF j, s
  <2>5. Kept(deliveries, calls)
    BY <1>1, <1>2, <2>1, <2>2, <2>3, <2>4 DEF Kept, Sound
  <2>6. drain' \in DrainPlace
    BY <2>2, <2>4, Places
  <2> QED
    BY <1>1, <1>2, <2>5, <2>6, KeptMoves
<1>6. CASE DrainStep
  <2>1. CASE drain' = At("none", NoJob) /\ UNCHANGED <<deliveries, calls, inFlight>>
    BY <1>4, <2>1, Places
  <2>2. ASSUME NEW j \in Job, drain' = At("sleeping", j) \/ drain' = At("awaiting", j),
               UNCHANGED <<deliveries, calls, inFlight>>
        PROVE  Moved
    BY <1>4, <2>2, Places
  <2>3. Mine(ToSet(deliveries)) \subseteq Job /\ Mine(inFlight) \subseteq Job
    BY DrainingAssumption DEF Mine
  <2> QED
    BY <1>5, <1>6, <2>1, <2>2, <2>3 DEF DrainStep
<1>7. CASE DrainTimeout
  BY <1>4, <1>7, Places DEF DrainTimeout, deliveryVars
<1> QED
  BY <1>6, <1>7

(***************************************************************************)
(* So is the end of a job, which adds a delivery, and may push out another.*)
(***************************************************************************)
LEMMA CompleteMoves ==
  ASSUME DeliveryInv, NEW j \in Job, Complete(j)
  PROVE  Moved
<1> DEFINE q == Append(deliveries, j)
           cut == IF Len(q) > MaxQueue THEN Len(q) - MaxQueue ELSE 0
           r == SubSeq(q, cut + 1, Len(q))
<1>1. /\ jobs \in [Job -> {"running", "done", "evicted", "cancelled"}]
      /\ loop \in LoopPlace /\ drain \in DrainPlace /\ disposal \in DisposalPlace
      /\ inFlight \subseteq Job /\ due \subseteq Job /\ dead \subseteq Job
      /\ posted \in [Job -> Nat]
  BY DEF DeliveryInv, DeliveryTypeOK
<1>2. Sound(deliveries, calls) /\ deliveries \in Seq(Job)
  BY SoundNow DEF Sound
<1>3. /\ jobs[j] = "running" /\ jobs' = [jobs EXCEPT ![j] = "done"]
      /\ UNCHANGED <<attempts, due, drain, disposal, toolVars, posted>>
  BY DEF Complete, deliveryVars
<1>4. ~Pending(j) /\ posted[j] = 0
  BY <1>3 DEF DeliveryInv, Placed
<1>5. jobs' \in [Job -> {"running", "done", "evicted", "cancelled"}]
  BY <1>1, <1>3
<1>6. \A h \in Job : jobs'[h] = IF h = j THEN "done" ELSE jobs[h]
  BY <1>1, <1>3
<1>7. CASE Quiet(j) /\ UNCHANGED <<deliveryVars, loop>>
  <2>1. UNCHANGED <<deliveries, calls, inFlight, attempts, due, dead, loop>>
    BY <1>7 DEF deliveryVars
  <2>2. DeliveryTypeOK'
    BY <1>3, <1>5, <2>1 DEF DeliveryInv, DeliveryTypeOK, toolVars
  <2>3. OneEntry'
    BY <2>1 DEF DeliveryInv, Placed, OneEntry
  <2>4. ASSUME NEW h \in Job PROVE Advanced(h)
    <3>1. Pending(h)' <=> Pending(h)
      BY <2>1 DEF Pending
    <3>2. posted[h] \in Nat /\ posted' = posted /\ attempts' = attempts
      BY <1>1, <1>3
    <3> QED
      BY <1>3, <1>4, <1>6, <1>7, <3>1, <3>2 DEF Advanced, DeliveryInv, Placed
  <2> QED
    BY <1>3, <2>1, <2>2, <2>3, <2>4 DEF Moved
<1>8. CASE /\ dead' = dead \cup {q[i] : i \in 1 .. cut}
           /\ EnsureLoop(r, calls, inFlight, due)
           /\ Audible(j)
  <2>1. /\ q \in Seq(Job) /\ ToSet(q) = ToSet(deliveries) \cup {j} /\ Distinct(q)
    BY <1>2, <1>4, AppendFacts DEF Sound, Pending
  <2>2. Len(q) = Len(deliveries) + 1 /\ Len(deliveries) \in Nat
    BY <1>2, AppendProperties, LenProperties
  <2>3. /\ r \in Seq(Job) /\ Distinct(r) /\ ToSet(r) \subseteq ToSet(q)
        /\ dead \subseteq dead' /\ dead' \subseteq Job
        /\ \A h \in ToSet(q) \ ToSet(r) : h \in dead'
    <3> HIDE DEF q
    <3>1. cut + 1 \in 1 .. Len(q) + 1 /\ cut \in 0 .. Len(q)
      BY <2>1, <2>2, LimitsAssumption
    <3>2. /\ r \in Seq(Job) /\ Distinct(r) /\ ToSet(r) \subseteq ToSet(q)
          /\ \A h \in ToSet(q) \ ToSet(r) : \E i \in 1 .. (cut + 1) - 1 : q[i] = h
      BY <2>1, <3>1, SuffixFacts
    <3>3. \A i \in 1 .. cut : i \in 1 .. Len(q) /\ q[i] \in Job
      BY <2>1, <2>2, <3>1, Members
    <3> HIDE DEF r, cut
    <3> QED
      BY <1>1, <1>8, <3>1, <3>2, <3>3
  <2> HIDE DEF q, r, cut
  <2>4. Sound(r, calls)
    BY <1>2, <1>4, <2>1, <2>3 DEF Sound, Pending
  <2>5. Kept(r, calls)
    BY <1>1, <1>8, <2>4, EnsureLoopKeeps
  <2>6. DeliveryTypeOK'
    BY <1>3, <1>5, <2>3, <2>5 DEF DeliveryInv, DeliveryTypeOK, Kept, Sound, toolVars
  <2>7. OneEntry'
    BY <2>5 DEF Kept, Sound, Distinct, OneEntry
  <2>8. ASSUME NEW h \in Job PROVE Advanced(h)
    <3>1. /\ Pending(h)' => Pending(h) \/ h = j
          /\ Pending(h) \/ h = j => Pending(h)' \/ h \in dead' \/ Quiet(h)
      BY <2>1, <2>3, <2>5 DEF Kept, Pending
    <3>2. posted[h] \in Nat /\ posted' = posted /\ attempts' = attempts
      BY <1>1, <1>3
    <3> QED
      BY <1>3, <1>4, <1>6, <1>8, <3>1, <3>2 DEF Advanced, DeliveryInv, Placed
  <2> QED
    BY <1>3, <2>3, <2>6, <2>7, <2>8 DEF Moved
<1> QED
  BY <1>7, <1>8 DEF Complete

(***************************************************************************)
(* The end of an attempt: the outcome was posted, or dropped, or is to be  *)
(* tried again, or is given up.                                            *)
(***************************************************************************)
LEMMA SucceedMoves ==
  ASSUME DeliveryInv, NEW j \in Job, Succeed(j)
  PROVE  Moved
<1>1. /\ jobs \in [Job -> {"running", "done", "evicted", "cancelled"}]
      /\ posted \in [Job -> Nat] /\ due \subseteq Job
  BY DEF DeliveryInv, DeliveryTypeOK
<1>2. /\ deliveries \in Seq(Job) /\ calls \subseteq Job /\ Distinct(deliveries)
      /\ ToSet(deliveries) \cap calls = {}
  BY SoundNow DEF Sound
<1>3. /\ j \in calls /\ EndAttempt(j, deliveries, due)
      /\ posted' = (IF Quiet(j) THEN posted ELSE [posted EXCEPT ![j] = @ + 1])
      /\ UNCHANGED <<jobs, attempts, due, dead, toolVars>>
  BY DEF Succeed
<1>4. Sound(deliveries, calls \ {j})
  BY <1>2 DEF Sound
<1>5. /\ Kept(deliveries, calls \ {j})
      /\ drain' \in DrainPlace /\ disposal' \in DisposalPlace
      /\ disposal'.at = "over" <=> disposal.at = "over"
  BY <1>3, <1>4, EndAttemptKeeps DEF DeliveryInv
<1>6. /\ posted' \in [Job -> Nat]
      /\ \A h \in Job : posted'[h] = IF h = j /\ ~Quiet(j) THEN posted[h] + 1 ELSE posted[h]
  BY <1>1, <1>3
<1>7. DeliveryTypeOK'
  BY <1>3, <1>5, <1>6 DEF DeliveryInv, DeliveryTypeOK, Kept, Sound, toolVars
<1>8. OneEntry'
  BY <1>5 DEF Kept, Sound, Distinct, OneEntry
<1>9. ASSUME NEW h \in Job PROVE Advanced(h)
  <2>1. /\ Pending(h)' => Pending(h) /\ h # j
        /\ Pending(h) /\ h # j => Pending(h)' \/ Quiet(h)
    BY <1>2, <1>3, <1>5 DEF Kept, Pending
  <2>2. /\ posted[h] \in Nat /\ jobs' = jobs /\ attempts' = attempts
        /\ posted'[h] = IF h = j /\ ~Quiet(j) THEN posted[h] + 1 ELSE posted[h]
    BY <1>1, <1>3, <1>6
  <2>3. jobs[j] = "done"
    BY <1>3 DEF DeliveryInv, Placed, Pending
  <2>4. Pending(h) \/ jobs[h] = "running" => attempts[h] < MaxAttempts
    BY DEF DeliveryInv, Placed
  <2>5. Pending(h) => jobs[h] = "done"
    BY DEF DeliveryInv, Placed
  <2> QED
    BY <2>1, <2>2, <2>3, <2>4, <2>5 DEF Advanced, Audible
<1> QED
  BY <1>3, <1>5, <1>7, <1>8, <1>9 DEF Moved

(* An attempt that fails puts its delivery back, or gives it up. *)
LEMMA FailMoves ==
  ASSUME DeliveryInv, NEW j \in Job, Fail(j)
  PROVE  Moved
<1> DEFINE n == attempts[j] + 1
           q == IF Quiet(j) THEN deliveries ELSE Append(deliveries, j)
<1>1. /\ jobs \in [Job -> {"running", "done", "evicted", "cancelled"}]
      /\ posted \in [Job -> Nat] /\ due \subseteq Job /\ dead \subseteq Job
      /\ attempts \in [Job -> 0 .. MaxAttempts] /\ MaxAttempts \in Nat
  BY LimitsAssumption DEF DeliveryInv, DeliveryTypeOK
<1>2. /\ deliveries \in Seq(Job) /\ calls \subseteq Job /\ Distinct(deliveries)
      /\ ToSet(deliveries) \cap calls = {}
  BY SoundNow DEF Sound
<1>3. /\ j \in calls /\ attempts' = [attempts EXCEPT ![j] = n]
      /\ UNCHANGED <<jobs, toolVars, posted>>
  BY DEF Fail
<1>4. Pending(j) /\ j \notin ToSet(deliveries) /\ attempts[j] < MaxAttempts /\ jobs[j] = "done"
  BY <1>2, <1>3 DEF DeliveryInv, Placed, Pending
<1>5. /\ attempts' \in [Job -> 0 .. MaxAttempts]
      /\ \A h \in Job : attempts'[h] = IF h = j THEN n ELSE attempts[h]
  BY <1>1, <1>3, <1>4
<1>6. ASSUME NEW p, Sound(p, calls \ {j}), NEW d, EndAttempt(j, p, d), ToSet(p) \cap calls \subseteq {j},
             ToSet(deliveries) \subseteq ToSet(p), ToSet(p) \subseteq ToSet(deliveries) \cup {j},
             j \in ToSet(p) => n < MaxAttempts,
             j \in ToSet(p) \cup dead' \/ Quiet(j),
             due' \subseteq Job, dead \subseteq dead', dead' \subseteq Job
      PROVE  Moved
  <2>1. /\ Kept(p, calls \ {j})
        /\ drain' \in DrainPlace /\ disposal' \in DisposalPlace
        /\ disposal'.at = "over" <=> disposal.at = "over"
    BY <1>6, EndAttemptKeeps DEF DeliveryInv
  <2>2. DeliveryTypeOK'
    BY <1>3, <1>5, <1>6, <2>1 DEF DeliveryInv, DeliveryTypeOK, Kept, Sound, toolVars
  <2>3. OneEntry'
    BY <2>1 DEF Kept, Sound, Distinct, OneEntry
  <2>4. ASSUME NEW h \in Job PROVE Advanced(h)
    <3>1. /\ Pending(h)' => Pending(h) /\ (h = j => n < MaxAttempts)
          /\ Pending(h) => Pending(h)' \/ h \in dead' \/ Quiet(h)
      BY <1>2, <1>3, <1>4, <1>6, <2>1 DEF Kept, Pending
    <3>2. /\ posted[h] \in Nat /\ jobs' = jobs /\ posted' = posted
          /\ attempts'[h] = IF h = j THEN n ELSE attempts[h]
      BY <1>1, <1>3, <1>5
    <3>3. Pending(h) \/ jobs[h] = "running" => attempts[h] < MaxAttempts
      BY DEF DeliveryInv, Placed
    <3>4. Pending(h) => jobs[h] = "done"
      BY DEF DeliveryInv, Placed
    <3> HIDE DEF n
    <3> QED
      BY <1>4, <3>1, <3>2, <3>3, <3>4 DEF Advanced
  <2> QED
    BY <1>3, <1>6, <2>1, <2>2, <2>3, <2>4 DEF Moved
<1>7. CASE n >= MaxAttempts /\ dead' = dead \cup {j} /\ EndAttempt(j, deliveries, due) /\ UNCHANGED due
  <2>1. Sound(deliveries, calls \ {j})
    BY <1>2 DEF Sound
  <2> QED
    BY <1>1, <1>2, <1>3, <1>4, <1>6, <1>7, <2>1
<1>8. CASE n < MaxAttempts /\ due' = due \ {j} /\ EndAttempt(j, q, due \ {j}) /\ UNCHANGED dead
  <2>1. /\ q \in Seq(Job) /\ Distinct(q)
        /\ ToSet(q) = IF Quiet(j) THEN ToSet(deliveries) ELSE ToSet(deliveries) \cup {j}
    BY <1>2, <1>4, AppendFacts
  <2> HIDE DEF q
  <2>2. Sound(q, calls \ {j})
    BY <1>2, <2>1 DEF Sound
  <2>3. due' \subseteq Job /\ dead' = dead
    BY <1>1, <1>8
  <2> QED
    BY <1>1, <1>2, <1>6, <1>8, <2>1, <2>2, <2>3
<1> QED
  BY <1>7, <1>8 DEF Fail

(***************************************************************************)
(* dispose only cancels jobs, until it clears everything.                  *)
(***************************************************************************)
LEMMA DisposeMoves ==
  ASSUME DeliveryInv, UNCHANGED <<deliveryVars, loop, drain, toolVars, posted>>,
         \/ jobs' = jobs
         \/ jobs' = [j \in Job |-> IF jobs[j] = "running" THEN "cancelled" ELSE jobs[j]],
         disposal' \in DisposalPlace, disposal.at = "over" => disposal'.at = "over"
  PROVE  Moved
<1>1. /\ jobs \in [Job -> {"running", "done", "evicted", "cancelled"}]
      /\ posted \in [Job -> Nat]
  BY DEF DeliveryInv, DeliveryTypeOK
<1>2. /\ jobs' \in [Job -> {"running", "done", "evicted", "cancelled"}]
      /\ \A j \in Job : jobs'[j] = jobs[j] \/ (jobs[j] = "running" /\ jobs'[j] = "cancelled")
  BY <1>1
<1>3. DeliveryTypeOK'
  BY <1>2 DEF DeliveryInv, DeliveryTypeOK, deliveryVars, toolVars
<1>4. OneEntry'
  BY DEF DeliveryInv, Placed, OneEntry, deliveryVars
<1>5. ASSUME NEW j \in Job PROVE Advanced(j)
  <2>1. (Pending(j)' <=> Pending(j)) /\ posted' = posted /\ posted[j] \in Nat /\ attempts' = attempts
    BY <1>1 DEF Pending, deliveryVars
  <2> QED
    BY <1>2, <2>1 DEF Advanced, DeliveryInv, Placed
<1> QED
  BY <1>3, <1>4, <1>5 DEF Moved, deliveryVars

-----------------------------------------------------------------------------
(* Tool calls, eviction and the end of dispose. *)

(***************************************************************************)
(* A tool call that returns has the finished jobs it was asked for as its  *)
(* result; the others it waited for are looked after again.                *)
(***************************************************************************)
LEMMA ReportKeepsInv ==
  ASSUME DeliveryInv, NEW S \in SUBSET Job, NEW w \in SUBSET watched, Report(S, w),
         awaited' \in [Tool -> [all : SUBSET Job, live : SUBSET Job]],
         \A j \in w : \E t \in Tool : j \in awaited'[t].live,
         \A t \in Tool : awaited'[t].live \subseteq awaited'[t].all,
         \A t \in Tool : awaited[t].all \subseteq awaited'[t].all \cup S
  PROVE  DeliveryInv'
<1> DEFINE R == S \cap Finished
           s == suppressed \cup R
           q == Without(deliveries, s \cup w)
<1>1. /\ told' = told \cup R /\ suppressed' = s /\ watched' = w
      /\ deliveries' = (IF R = {} THEN deliveries ELSE q)
      /\ UNCHANGED <<jobs, calls, inFlight, attempts, due, dead, loop, drain, disposal, posted>>
  BY DEF Report
<1>2. /\ deliveries \in Seq(Job) /\ watched \subseteq Job /\ suppressed \subseteq Job
      /\ told \subseteq Job /\ Distinct(deliveries) /\ ToSet(deliveries) \cap calls = {}
  BY SoundNow DEF Sound, DeliveryInv, DeliveryTypeOK
<1>3. /\ q \in Seq(Job) /\ Distinct(q) /\ ToSet(q) = ToSet(deliveries) \ (s \cup w)
  BY <1>2, WithoutMembers
<1> HIDE DEF q
<1>4. /\ deliveries' \in Seq(Job) /\ Distinct(deliveries') /\ ToSet(deliveries') \subseteq ToSet(deliveries)
      /\ \A j \in ToSet(deliveries) \ ToSet(deliveries') : j \in s \cup w
  BY <1>1, <1>2, <1>3
<1>5. DeliveryTypeOK'
  BY <1>1, <1>2, <1>4 DEF DeliveryInv, DeliveryTypeOK, Finished
<1>6. OneEntry'
  BY <1>1, <1>2, <1>4 DEF OneEntry, Distinct
<1>7. \A j : Pending(j)' => Pending(j)
  BY <1>1, <1>4 DEF Pending
<1>8. Placed'
  BY <1>1, <1>6, <1>7 DEF DeliveryInv, Placed
<1>9. Finished' = Finished
  BY <1>1 DEF Finished
<1>10. ToolsKnown'
  BY <1>1, <1>7, <1>9 DEF DeliveryInv, ToolsKnown
<1>11. NoneLost'
  <2> SUFFICES ASSUME disposal.at # "over", NEW j \in Finished
               PROVE  \/ j \in calls \cup dead \cup told' \cup ToSet(deliveries')
                      \/ posted[j] > 0
                      \/ \E t \in Tool : j \in awaited'[t].all
    BY <1>1, <1>9 DEF NoneLost
  <2>1. CASE j \in S
    BY <1>1, <2>1
  <2>2. CASE j \in ToSet(deliveries) \ ToSet(deliveries')
    BY <1>1, <1>4, <2>2 DEF DeliveryInv, ToolsKnown
  <2>3. CASE \E t \in Tool : j \in awaited[t].all
    BY <2>1, <2>3
  <2>4. \/ j \in calls \cup dead \cup told \cup ToSet(deliveries)
        \/ posted[j] > 0
        \/ \E t \in Tool : j \in awaited[t].all
    BY DEF DeliveryInv, NoneLost
  <2> QED
    BY <1>1, <2>2, <2>3, <2>4
<1> QED
  BY <1>5, <1>8, <1>10, <1>11 DEF DeliveryInv

(* A tool call that asks for jobs waits for them, or reports them at once. *)
LEMMA AwaitKeepsInv ==
  ASSUME DeliveryInv, NEW t \in Tool, NEW S \in SUBSET Job, Await(t, S)
  PROVE  DeliveryInv'
<1> DEFINE running == {j \in S : jobs[j] = "running"}
<1>1. /\ awaited \in [Tool -> [all : SUBSET Job, live : SUBSET Job]]
      /\ watched \subseteq Job
  BY DEF DeliveryInv, DeliveryTypeOK
<1>2. awaited[t] = Nothing
  BY DEF Await
<1>3. CASE /\ awaited' = [awaited EXCEPT ![t] = [all |-> S, live |-> running]]
           /\ watched' = watched \cup running
           /\ UNCHANGED <<jobs, deliveryVars, loop, drain, disposal, suppressed, told, posted>>
  <2>1. /\ awaited' \in [Tool -> [all : SUBSET Job, live : SUBSET Job]]
        /\ awaited'[t].all = S /\ awaited'[t].live = running
        /\ \A u \in Tool : u # t => awaited'[u] = awaited[u]
    BY <1>1, <1>3
  <2>2. awaited[t].live = {} /\ awaited[t].all = {}
    BY <1>2 DEF Nothing
  <2>3. UNCHANGED <<jobs, deliveries, calls, inFlight, attempts, due, dead, loop, drain, disposal,
                    suppressed, told, posted>>
    BY <1>3 DEF deliveryVars
  <2>4. DeliveryTypeOK'
    BY <1>1, <1>3, <2>1, <2>3 DEF DeliveryInv, DeliveryTypeOK
  <2>5. Placed'
    BY <2>3 DEF DeliveryInv, Placed, OneEntry, Pending
  <2>6. ToolsKnown'
    <3>1. Finished' = Finished
      BY <2>3 DEF Finished
    <3>2. \A j \in watched' : \E u \in Tool : j \in awaited'[u].live
      BY <1>3, <2>1, <2>2 DEF DeliveryInv, ToolsKnown
    <3>3. \A u \in Tool : awaited'[u].live \subseteq awaited'[u].all
      BY <2>1 DEF DeliveryInv, ToolsKnown
    <3>4. ASSUME NEW j \in watched' PROVE ~Pending(j)' /\ posted'[j] = 0
      BY <1>3, <2>3 DEF DeliveryInv, Placed, ToolsKnown, Pending
    <3> QED
      BY <2>3, <3>1, <3>2, <3>3, <3>4 DEF DeliveryInv, ToolsKnown
  <2>7. NoneLost'
    <3>1. Finished' = Finished
      BY <2>3 DEF Finished
    <3>2. \A j : (\E u \in Tool : j \in awaited[u].all) => \E u \in Tool : j \in awaited'[u].all
      BY <2>1, <2>2
    <3> QED
      BY <2>3, <3>1, <3>2 DEF DeliveryInv, NoneLost
  <2> QED
    BY <2>4, <2>5, <2>6, <2>7 DEF DeliveryInv
<1>4. CASE Report(S, watched) /\ UNCHANGED awaited
  <2>1. \A j \in watched : \E u \in Tool : j \in awaited[u].live
    BY DEF DeliveryInv, ToolsKnown
  <2>2. \A u \in Tool : awaited[u].live \subseteq awaited[u].all
    BY DEF DeliveryInv, ToolsKnown
  <2> QED
    BY <1>1, <1>4, <2>1, <2>2, ReportKeepsInv
<1> QED
  BY <1>3, <1>4 DEF Await

(* A tool call that has waited reports what has finished. *)
LEMMA ReturnKeepsInv ==
  ASSUME DeliveryInv, NEW t \in Tool, Return(t)
  PROVE  DeliveryInv'
<1> DEFINE S == awaited[t].all
           w == watched \ awaited[t].live
<1>1. /\ awaited \in [Tool -> [all : SUBSET Job, live : SUBSET Job]]
      /\ awaited' = [awaited EXCEPT ![t] = Nothing] /\ Report(S, w)
  BY DEF Return, DeliveryInv, DeliveryTypeOK
<1>2. Nothing \in [all : SUBSET Job, live : SUBSET Job] /\ Nothing.all = {} /\ Nothing.live = {}
  BY DEF Nothing
<1>3. /\ awaited' \in [Tool -> [all : SUBSET Job, live : SUBSET Job]]
      /\ awaited'[t] = Nothing /\ \A u \in Tool : u # t => awaited'[u] = awaited[u]
  BY <1>1, <1>2
<1>4. S \in SUBSET Job /\ w \in SUBSET watched
  BY <1>1
<1>5. \A j \in w : \E u \in Tool : j \in awaited'[u].live
  <2> SUFFICES ASSUME NEW j \in w PROVE \E u \in Tool : j \in awaited'[u].live
    OBVIOUS
  <2>1. PICK u \in Tool : j \in awaited[u].live
    BY DEF DeliveryInv, ToolsKnown
  <2> QED
    BY <1>3, <2>1
<1>6. \A u \in Tool : awaited'[u].live \subseteq awaited'[u].all
  BY <1>2, <1>3 DEF DeliveryInv, ToolsKnown
<1>7. \A u \in Tool : awaited[u].all \subseteq awaited'[u].all \cup S
  BY <1>3
<1> HIDE DEF S, w
<1> QED
  BY <1>1, <1>3, <1>4, <1>5, <1>6, <1>7, ReportKeepsInv

(***************************************************************************)
(* A job that is evicted has no delivery any more; the manager forgets that*)
(* its outcome was returned.                                               *)
(***************************************************************************)
LEMMA EvictKeepsInv ==
  ASSUME DeliveryInv, NEW j \in Job, EvictJob(j)
  PROVE  DeliveryInv'
<1>1. /\ jobs \in [Job -> {"running", "done", "evicted", "cancelled"}]
      /\ suppressed \subseteq Job /\ watched \subseteq Job
  BY DEF DeliveryInv, DeliveryTypeOK
<1>2. /\ jobs[j] = "done" /\ ~Pending(j)
      /\ jobs' = [jobs EXCEPT ![j] = "evicted"]
      /\ suppressed' = suppressed \ {j} /\ watched' = watched \ {j}
      /\ UNCHANGED <<deliveries, calls, inFlight, attempts, due, dead, loop, drain, disposal,
                     awaited, told, posted>>
  BY DEF EvictJob, deliveryVars, Pending
<1>3. /\ jobs' \in [Job -> {"running", "done", "evicted", "cancelled"}]
      /\ jobs'[j] = "evicted" /\ \A h \in Job : h # j => jobs'[h] = jobs[h]
  BY <1>1, <1>2
<1>4. Finished' = Finished
  BY <1>2, <1>3 DEF Finished
<1>5. DeliveryTypeOK'
  BY <1>1, <1>2, <1>3 DEF DeliveryInv, DeliveryTypeOK
<1>6. \A h : Pending(h)' <=> Pending(h)
  BY <1>2 DEF Pending
<1>7. OneEntry'
  BY <1>2 DEF DeliveryInv, Placed, OneEntry
<1>8. Placed'
  BY <1>2, <1>3, <1>6, <1>7 DEF DeliveryInv, Placed
<1>9. ToolsKnown'
  <2>1. \A h \in told : h \in Job
    BY DEF DeliveryInv, DeliveryTypeOK
  <2> QED
    BY <1>2, <1>3, <1>4, <1>6, <2>1 DEF DeliveryInv, ToolsKnown
<1>10. NoneLost'
  BY <1>2, <1>4 DEF DeliveryInv, NoneLost
<1> QED
  BY <1>5, <1>8, <1>9, <1>10 DEF DeliveryInv

(* The end of dispose forgets everything. *)
LEMMA ClearKeepsInv ==
  ASSUME DeliveryInv, Clear
  PROVE  DeliveryInv'
<1>1. /\ disposal' = At("over", NoJob)
      /\ deliveries' = <<>> /\ inFlight' = {} /\ dead' = {}
      /\ suppressed' = {} /\ watched' = {}
      /\ UNCHANGED <<jobs, calls, attempts, due, loop, drain, awaited, told, posted>>
  BY DEF Clear
<1>2. /\ ToSet(<<>>) = {} /\ <<>> \in Seq(Job) /\ Len(<<>>) = 0
      /\ disposal' \in DisposalPlace /\ disposal'.at = "over"
  BY <1>1, Places DEF ToSet
<1>3. DeliveryTypeOK'
  BY <1>1, <1>2 DEF DeliveryInv, DeliveryTypeOK
<1>4. OneEntry'
  BY <1>1, <1>2 DEF OneEntry
<1>5. \A h : Pending(h)' => Pending(h)
  BY <1>1, <1>2 DEF Pending
<1>6. Placed'
  BY <1>1, <1>4, <1>5 DEF DeliveryInv, Placed
<1>7. Finished' = Finished
  BY <1>1 DEF Finished
<1>8. ToolsKnown'
  BY <1>1, <1>2, <1>7 DEF DeliveryInv, ToolsKnown
<1>9. NoneLost'
  BY <1>2 DEF NoneLost
<1> QED
  BY <1>3, <1>6, <1>8, <1>9 DEF DeliveryInv

-----------------------------------------------------------------------------
(* The job manager's theorems. *)

(***************************************************************************)
(* The invariant holds at the start.                                       *)
(***************************************************************************)
LEMMA InitDeliveryInv == DeliveryInit => DeliveryInv
<1> SUFFICES ASSUME DeliveryInit PROVE DeliveryInv
  OBVIOUS
<1> USE DEF DeliveryInit
<1>1. ToSet(<<>>) = {} /\ <<>> \in Seq(Job) /\ Len(<<>>) = 0 /\ MaxAttempts \in Nat \ {0}
  BY LimitsAssumption DEF ToSet
<1>2. Nothing \in [all : SUBSET Job, live : SUBSET Job] /\ Nothing.all = {} /\ Nothing.live = {}
  BY DEF Nothing
<1>3. DeliveryTypeOK
  <2>1. loop \in LoopPlace /\ drain \in DrainPlace /\ disposal \in DisposalPlace
    BY Places
  <2>2. awaited \in [Tool -> [all : SUBSET Job, live : SUBSET Job]]
    BY <1>2
  <2> QED
    BY <1>1, <2>1, <2>2 DEF DeliveryTypeOK
<1>4. OneEntry
  BY <1>1 DEF OneEntry
<1>5. Placed
  BY <1>1, <1>4 DEF Placed, Pending
<1>6. Finished = {}
  BY DEF Finished
<1>7. ToolsKnown
  BY <1>2, <1>6 DEF ToolsKnown
<1>8. NoneLost
  BY <1>6 DEF NoneLost
<1> QED
  BY <1>3, <1>5, <1>7, <1>8 DEF DeliveryInv

(* Every step preserves it. *)
LEMMA StepDeliveryInv == DeliveryInv /\ [DeliveryNext]_managerVars => DeliveryInv'
<1> SUFFICES ASSUME DeliveryInv, [DeliveryNext]_managerVars PROVE DeliveryInv'
  OBVIOUS
<1>1. ASSUME NEW j \in Job, Complete(j) PROVE DeliveryInv'
  BY <1>1, CompleteMoves, MovedKeepsInv
<1>2. ASSUME NEW j \in Job, Tick(j) PROVE DeliveryInv'
  BY <1>2, TickMoves, MovedKeepsInv
<1>3. ASSUME NEW j \in Job, Succeed(j) PROVE DeliveryInv'
  BY <1>3, SucceedMoves, MovedKeepsInv
<1>4. ASSUME NEW j \in Job, Fail(j) PROVE DeliveryInv'
  BY <1>4, FailMoves, MovedKeepsInv
<1>5. ASSUME NEW j \in Job, EvictJob(j) PROVE DeliveryInv'
  BY <1>5, EvictKeepsInv
<1>6. CASE LoopStep
  BY <1>6, LoopMoves, MovedKeepsInv
<1>7. CASE DrainStep \/ DrainTimeout
  BY <1>7, DrainMoves, MovedKeepsInv
<1>8. ASSUME NEW t \in Tool, Return(t) PROVE DeliveryInv'
  BY <1>8, ReturnKeepsInv
<1>9. ASSUME NEW t \in Tool, NEW S \in SUBSET Job, Await(t, S) PROVE DeliveryInv'
  BY <1>9, AwaitKeepsInv
<1>10. CASE Dispose
  <2>1. disposal.at = "none" /\ disposal' \in DisposalPlace
    BY <1>10, Places DEF Dispose
  <2>2. Moved
    BY <1>10, <2>1, DisposeMoves DEF Dispose
  <2> QED
    BY <2>2, MovedKeepsInv
<1>11. CASE DisposeStep
  <2>1. CASE Clear
    BY <2>1, ClearKeepsInv
  <2>2. CASE JobsSettled
    <3>1. disposal.at = "settling" /\ disposal' \in DisposalPlace
      BY <2>2, Places DEF JobsSettled
    <3>2. Moved
      BY <2>2, <3>1, DisposeMoves DEF JobsSettled
    <3> QED
      BY <3>2, MovedKeepsInv
  <2>3. ASSUME DrainRest, ~Clear PROVE DeliveryInv'
    <3>1. disposal.at = "ready" /\ UNCHANGED <<jobs, deliveryVars, loop, drain, toolVars, posted>>
      BY <2>3 DEF DrainRest
    <3>2. disposal' \in DisposalPlace
      <4>1. inFlight \subseteq Job
        BY DEF DeliveryInv, DeliveryTypeOK
      <4>2. ASSUME NEW j \in Job, disposal' = At("awaiting", j) PROVE disposal' \in DisposalPlace
        BY <4>2, Places
      <4>3. CASE disposal' = At("onLoop", NoJob) \/ disposal' = At("spinning", NoJob)
        BY <4>3, Places
      <4> QED
        BY <2>3, <4>1, <4>2, <4>3 DEF DrainRest
    <3>3. Moved
      BY <3>1, <3>2, DisposeMoves
    <3> QED
      BY <3>3, MovedKeepsInv
  <2> QED
    BY <1>11, <2>1, <2>2, <2>3 DEF DisposeStep, DisposeTimeout
<1>12. CASE UNCHANGED managerVars
  <2>1. UNCHANGED <<deliveryVars, loop, drain, toolVars, posted>> /\ jobs' = jobs /\ disposal' = disposal
    BY <1>12 DEF managerVars
  <2>2. disposal \in DisposalPlace
    BY DEF DeliveryInv, DeliveryTypeOK
  <2>3. Moved
    BY <2>1, <2>2, DisposeMoves
  <2> QED
    BY <2>3, MovedKeepsInv
<1> QED
  BY <1>1, <1>2, <1>3, <1>4, <1>5, <1>6, <1>7, <1>8, <1>9, <1>10, <1>11, <1>12 DEF DeliveryNext

(***************************************************************************)
(* The state of the job manager always satisfies the invariant.            *)
(***************************************************************************)
THEOREM DeliveryInvariance == DeliverySpec => []DeliveryInv
BY InitDeliveryInv, StepDeliveryInv, PTL DEF DeliverySpec

(***************************************************************************)
(* The state of the job manager has its type; in particular, the attempts  *)
(* at a delivery never exceed DELIVERY_MAX_ATTEMPTS.                       *)
(***************************************************************************)
THEOREM DeliveryTypes == DeliverySpec => []DeliveryTypeOK
<1>1. DeliveryInv => DeliveryTypeOK
  BY DEF DeliveryInv
<1> QED
  BY <1>1, DeliveryInvariance, PTL

(***************************************************************************)
(* A delivery is queued once at most, and not while it is attempted.       *)
(***************************************************************************)
THEOREM EntriesAreSingle == DeliverySpec => []OneEntry
<1>1. DeliveryInv => OneEntry
  BY DEF DeliveryInv, Placed
<1> QED
  BY <1>1, DeliveryInvariance, PTL

(***************************************************************************)
(* No outcome of a finished job is lost before dispose has ended.          *)
(***************************************************************************)
THEOREM OutcomesKept == DeliverySpec => []NoneLost
<1>1. DeliveryInv => NoneLost
  BY DEF DeliveryInv
<1> QED
  BY <1>1, DeliveryInvariance, PTL

(***************************************************************************)
(* A step that posts is the end of an attempt at a delivery that is not    *)
(* suppressed, and no outcome is posted twice.                             *)
(***************************************************************************)
LEMMA PostingStep ==
  ASSUME DeliveryInv, [DeliveryNext]_managerVars, posted' # posted
  PROVE  \E j \in Job : Succeed(j) /\ Audible(j) /\ posted[j] = 0
<1>1. PICK j \in Job : Succeed(j)
  BY DEF DeliveryNext, Complete, Tick, Fail, EvictJob, LoopStep, Wake, Continue, EndLoop,
         DrainStep, DrainTimeout, Return, Await, Report, Dispose, DisposeStep, JobsSettled,
         DrainRest, DisposeTimeout, Clear, managerVars
<1>2. Audible(j) /\ j \in calls
  BY <1>1 DEF Succeed, Audible
<1>3. posted[j] = 0
  BY <1>2 DEF DeliveryInv, Placed, Pending
<1> QED
  BY <1>1, <1>2, <1>3

(***************************************************************************)
(* An outcome is posted at most once, and not when a tool has returned it. *)
(***************************************************************************)
THEOREM PostsOnce == DeliverySpec => PostedOnce
<1>1. DeliveryInv /\ [DeliveryNext]_managerVars => [PostOnce]_managerVars
  <2> SUFFICES ASSUME DeliveryInv, [DeliveryNext]_managerVars, NEW h \in Job, posted'[h] # posted[h]
               PROVE  posted[h] = 0 /\ (disposal.at # "over" => h \notin told)
    BY DEF PostOnce
  <2>1. PICK j \in Job : Succeed(j) /\ Audible(j) /\ posted[j] = 0
    BY PostingStep
  <2>2. posted \in [Job -> Nat]
    BY DEF DeliveryInv, DeliveryTypeOK
  <2>3. h = j /\ j \in calls
    BY <2>1, <2>2 DEF Succeed
  <2>4. jobs[j] = "done"
    BY <2>3 DEF DeliveryInv, Placed, Pending
  <2>5. ASSUME disposal.at # "over", j \in told PROVE FALSE
    BY <2>1, <2>4, <2>5 DEF DeliveryInv, ToolsKnown, Audible, Quiet
  <2> QED
    BY <2>1, <2>3, <2>5
<1> QED
  BY <1>1, DeliveryInvariance, PTL DEF DeliverySpec, PostedOnce

-----------------------------------------------------------------------------
(* The yield queue, whatever the job manager does that it lives with.      *)

(***************************************************************************)
(* A message shows each outcome in it once more.                           *)
(***************************************************************************)
LEMMA ShowFacts ==
  ASSUME shown \in [Job -> Nat], NEW S, Session!Show(S)
  PROVE  /\ shown' \in [Job -> Nat]
         /\ \A j \in Job : shown'[j] = IF j \in S THEN shown[j] + 1 ELSE shown[j]
BY DEF Session!Show

(***************************************************************************)
(* A flush empties the queue, and all that it shows was in it.             *)
(***************************************************************************)
LEMMA FlushKeepsInv ==
  ASSUME QueueInv, entries' = {}, Session!Show(Session!Survivors),
         UNCHANGED <<HeldBack, Posted, closing>>,
         run' \in {"idle", "streaming", "wrapping"}, idleFlushPending' \in BOOLEAN,
         scheduled' \in 0 .. 2,
         scheduled' <= (IF idleFlushPending' THEN 1 ELSE 0) + (IF closing = "no" THEN 0 ELSE 1)
  PROVE  QueueInv'
<1>1. /\ shown \in [Job -> Nat] /\ entries \subseteq Posted
      /\ Posted \subseteq Job /\ HeldBack \subseteq Job
      /\ closing \in {"no", "cleared", "cancelled"}
  BY DEF QueueInv, Session!TypeOK
<1>2. /\ shown' \in [Job -> Nat]
      /\ \A j \in Job : shown'[j] = IF j \in Session!Survivors THEN shown[j] + 1 ELSE shown[j]
  BY <1>1, ShowFacts
<1>3. Session!TypeOK'
  BY <1>1, <1>2 DEF Session!TypeOK
<1>4. ASSUME NEW j \in Job, j \notin Posted' PROVE shown'[j] = 0
  BY <1>1, <1>2, <1>4 DEF QueueInv, Session!Survivors
<1> QED
  BY <1>3, <1>4 DEF QueueInv

(* The yield queue is empty at first. *)
LEMMA InitQueueInv == Session!Init => QueueInv
<1> SUFFICES ASSUME Session!Init PROVE QueueInv
  OBVIOUS
<1>1. Session!TypeOK
  <2>1. entries \subseteq Posted /\ Posted \subseteq Job /\ HeldBack \subseteq Job
    BY DEF Session!Init
  <2>2. idleFlushPending \in BOOLEAN
    BY DEF Session!Init
  <2>3. scheduled \in 0 .. 2 /\ run \in {"idle", "streaming", "wrapping"}
        /\ closing \in {"no", "cleared", "cancelled"}
    BY DEF Session!Init
  <2>4. shown \in [Job -> Nat]
    BY DEF Session!Init
  <2> QED
    BY <2>1, <2>2, <2>3, <2>4 DEF Session!TypeOK
<1>2. scheduled = 0 /\ idleFlushPending = FALSE /\ closing = "no" /\ \A j \in Job : shown[j] = 0
  BY DEF Session!Init
<1>3. scheduled <= (IF idleFlushPending THEN 1 ELSE 0) + (IF closing = "no" THEN 0 ELSE 1)
  BY <1>2
<1> QED
  BY <1>1, <1>2, <1>3 DEF QueueInv

(* Every step of the queue preserves its invariant. *)
LEMMA StepQueueInv == QueueInv /\ [Session!Next]_Session!vars => QueueInv'
<1> SUFFICES ASSUME QueueInv, [Session!Next]_Session!vars PROVE QueueInv'
  OBVIOUS
<1> DEFINE bound == (IF idleFlushPending THEN 1 ELSE 0) + (IF closing = "no" THEN 0 ELSE 1)
<1>1. /\ entries \subseteq Posted /\ Posted \subseteq Job /\ HeldBack \subseteq Job
      /\ idleFlushPending \in BOOLEAN /\ scheduled \in 0 .. 2
      /\ run \in {"idle", "streaming", "wrapping"} /\ shown \in [Job -> Nat]
      /\ closing \in {"no", "cleared", "cancelled"}
      /\ scheduled <= bound
      /\ \A j \in Job : j \in entries \/ j \notin Posted => shown[j] = 0
  BY DEF QueueInv, Session!TypeOK
<1>2. ASSUME NEW o \in Job \ (Posted \cup HeldBack), Session!Enqueue(o) PROVE QueueInv'
  <2>1. /\ Posted' = Posted \cup {o} /\ entries' = entries \cup {o}
        /\ UNCHANGED <<run, HeldBack, shown, closing>>
    BY <1>2 DEF Session!Enqueue
  <2>2. \/ UNCHANGED <<idleFlushPending, scheduled>>
        \/ ~idleFlushPending /\ idleFlushPending' = TRUE /\ scheduled' = scheduled + 1
    BY <1>1, <1>2 DEF Session!Enqueue
  <2>3. /\ idleFlushPending' \in BOOLEAN /\ scheduled' \in 0 .. 2 /\ scheduled' <= bound'
    <3>1. CASE UNCHANGED <<idleFlushPending, scheduled>>
      BY <1>1, <2>1, <3>1
    <3>2. CASE ~idleFlushPending /\ idleFlushPending' = TRUE /\ scheduled' = scheduled + 1
      BY <1>1, <2>1, <3>2
    <3> QED
      BY <2>2, <3>1, <3>2
  <2>4. Session!TypeOK'
    BY <1>1, <1>2, <2>1, <2>3 DEF Session!TypeOK
  <2>5. \A j \in Job : j \in entries' \/ j \notin Posted' => shown'[j] = 0
    BY <1>1, <1>2, <2>1
  <2> QED
    BY <2>3, <2>4, <2>5 DEF QueueInv
<1>3. ASSUME NEW S \in SUBSET Job, Session!HoldBack(S) PROVE QueueInv'
  <2>1. HeldBack' \subseteq Job
        /\ UNCHANGED <<entries, idleFlushPending, scheduled, run, Posted, shown, closing>>
    BY <1>1, <1>3 DEF Session!HoldBack
  <2> QED
    BY <1>1, <2>1 DEF QueueInv, Session!TypeOK
<1>4. CASE \/ UNCHANGED <<entries, idleFlushPending, scheduled, Posted, HeldBack, shown, closing>>
              /\ run' \in {"idle", "streaming", "wrapping"}
  BY <1>1, <1>4 DEF QueueInv, Session!TypeOK
<1>5. CASE Session!Prompt
  BY <1>4, <1>5 DEF Session!Prompt
<1>6. CASE Session!Yield
  <2>1. CASE entries' = {} /\ Session!Show(Session!Survivors)
    <3>1. UNCHANGED <<idleFlushPending, scheduled, Posted, HeldBack, closing>>
      BY <1>6 DEF Session!Yield
    <3>2. run' \in {"idle", "streaming", "wrapping"}
      BY <1>6 DEF Session!Yield
    <3> QED
      BY <1>1, <2>1, <3>1, <3>2, FlushKeepsInv
  <2>2. CASE run' \in {"streaming", "wrapping"} /\ UNCHANGED <<entries, shown>>
    BY <1>4, <1>6, <2>2 DEF Session!Yield
  <2> QED
    BY <1>6, <2>1, <2>2 DEF Session!Yield
<1>7. CASE Session!Fail \/ Session!Finish
  BY <1>4, <1>7 DEF Session!Fail, Session!Finish
<1>8. CASE Session!IdleFlush
  <2>1. /\ scheduled > 0 /\ scheduled' = scheduled - 1 /\ idleFlushPending' = FALSE
        /\ UNCHANGED <<Posted, HeldBack, closing>>
    BY <1>8 DEF Session!IdleFlush
  <2>2. scheduled' \in 0 .. 2 /\ scheduled' <= bound'
    BY <1>1, <2>1
  <2>3. CASE UNCHANGED <<entries, run, shown>>
    BY <1>1, <2>1, <2>2, <2>3 DEF QueueInv, Session!TypeOK
  <2>4. CASE /\ entries' = {} /\ Session!Show(Session!Survivors)
             /\ run' = IF Session!Survivors = {} THEN "idle" ELSE "streaming"
    <3>1. run' \in {"idle", "streaming", "wrapping"}
      BY <2>4
    <3> QED
      BY <2>1, <2>2, <2>4, <3>1, FlushKeepsInv
  <2> QED
    BY <1>8, <2>3, <2>4 DEF Session!IdleFlush
<1>9. CASE Session!Abort
  <2>1. /\ scheduled' = 0 /\ run' \in {"idle", "streaming", "wrapping"}
        /\ UNCHANGED <<entries, idleFlushPending, Posted, HeldBack, shown, closing>>
    BY <1>1, <1>9 DEF Session!Abort
  <2> QED
    BY <1>1, <2>1 DEF QueueInv, Session!TypeOK
<1>10. CASE Session!DisposeClear
  <2>1. /\ closing = "no" /\ closing' = "cleared" /\ entries' = {} /\ idleFlushPending' = FALSE
        /\ UNCHANGED <<scheduled, run, Posted, HeldBack, shown>>
    BY <1>10 DEF Session!DisposeClear
  <2>2. scheduled' <= bound'
    BY <1>1, <2>1
  <2> QED
    BY <1>1, <2>1, <2>2 DEF QueueInv, Session!TypeOK
<1>11. CASE Session!DisposeCancel
  <2>1. /\ closing' = "cancelled" /\ scheduled' = 0
        /\ UNCHANGED <<entries, idleFlushPending, run, Posted, HeldBack, shown>>
    BY <1>11 DEF Session!DisposeCancel
  <2> QED
    BY <1>1, <2>1 DEF QueueInv, Session!TypeOK
<1>12. CASE UNCHANGED Session!vars
  BY <1>1, <1>4, <1>12 DEF Session!vars
<1> QED
  BY <1>2, <1>3, <1>5, <1>6, <1>7, <1>8, <1>9, <1>10, <1>11, <1>12
     DEF Session!Next, Session!RunStep

(***************************************************************************)
(* The state of the yield queue always satisfies its invariant.            *)
(***************************************************************************)
THEOREM QueueInvariance == Session!Spec => []QueueInv
BY InitQueueInv, StepQueueInv, PTL DEF Session!Spec

(***************************************************************************)
(* What a step of the queue shows was in it, and was not stale.            *)
(***************************************************************************)
LEMMA ShownStep ==
  ASSUME QueueInv, [Session!Next]_Session!vars, NEW j \in Job, shown'[j] # shown[j]
  PROVE  j \in entries \ HeldBack
<1>1. shown' # shown
  OBVIOUS
<1>2. Session!Show(Session!Survivors)
  BY <1>1 DEF Session!Next, Session!Enqueue, Session!HoldBack, Session!Prompt,
     Session!RunStep, Session!Yield, Session!Fail, Session!Finish, Session!IdleFlush, Session!Abort,
     Session!DisposeClear, Session!DisposeCancel, Session!vars
<1>3. shown \in [Job -> Nat]
  BY DEF QueueInv, Session!TypeOK
<1> QED
  BY <1>2, <1>3, ShowFacts DEF Session!Survivors

(***************************************************************************)
(* The agent learns of an outcome from a message once, and not after a tool*)
(* result the manager remembers.                                           *)
(***************************************************************************)
THEOREM MessagesOnce == Session!Spec => Session!ToldOnce
<1>1. QueueInv /\ [Session!Next]_Session!vars =>
         [Session!TellOnce]_Session!vars
  BY ShownStep DEF QueueInv, Session!TellOnce
<1> QED
  BY <1>1, QueueInvariance, PTL DEF Session!Spec, Session!ToldOnce

(***************************************************************************)
(* What leaves the queue of a live session is shown, or was stale.         *)
(***************************************************************************)
LEMMA LeavingStep ==
  ASSUME QueueInv, [Session!Next]_Session!vars, NEW j \in entries \ entries', closing' = "no"
  PROVE  j \in HeldBack \/ shown'[j] > shown[j]
<1>1. entries' = {} /\ Session!Show(Session!Survivors)
  BY DEF Session!Next, Session!Enqueue, Session!HoldBack, Session!Prompt,
     Session!RunStep, Session!Yield, Session!Fail, Session!Finish, Session!IdleFlush,
     Session!Abort, Session!DisposeClear, Session!DisposeCancel, Session!vars
<1>2. shown \in [Job -> Nat] /\ j \in Job
  BY DEF QueueInv, Session!TypeOK
<1>3. j \in Session!Survivors => shown'[j] = shown[j] + 1
  BY <1>1, <1>2, ShowFacts
<1> QED
  BY <1>2, <1>3 DEF Session!Survivors

(***************************************************************************)
(* No outcome leaves the queue of a live session unseen.                   *)
(***************************************************************************)
THEOREM EntriesReachAgent == Session!Spec => Session!NoneDropped
<1>1. QueueInv /\ [Session!Next]_Session!vars => [Session!DropNone]_Session!vars
  BY LeavingStep DEF Session!DropNone
<1> QED
  BY <1>1, QueueInvariance, PTL DEF Session!Spec, Session!NoneDropped

-----------------------------------------------------------------------------
(* From the end of a job to its agent. *)

(***************************************************************************)
(* What a tool has returned stays returned.                                *)
(***************************************************************************)
LEMMA ToldStays ==
  ASSUME DeliveryNext
  PROVE  told \subseteq told'
<1>1. told' = told \/ \E S, w : Report(S, w)
  BY DEF DeliveryNext, Complete, Tick, Succeed, Fail, EvictJob, LoopStep, Wake, Continue, EndLoop,
         DrainStep, DrainTimeout, Return, Await, Dispose, DisposeStep, JobsSettled, DrainRest,
         DisposeTimeout, Clear, toolVars
<1> QED
  BY <1>1 DEF Report

(***************************************************************************)
(* A step of the whole is one of the manager's, and one of the queue's.    *)
(***************************************************************************)
LEMMA StepOfBoth ==
  ASSUME DeliveryInv, [OutcomeNext]_outcomeVars
  PROVE  [DeliveryNext]_managerVars /\ [Session!Next]_Session!vars
<1>1. CASE ManagerStep
  <2>1. DeliveryNext /\ UNCHANGED <<entries, idleFlushPending, scheduled, run, Posted, shown, closing>>
    BY <1>1 DEF ManagerStep, sessionVars, Posted
  <2>2. HeldBack' \in SUBSET Job
    BY DEF HeldBack
  <2>3. Session!HoldBack(HeldBack')
    BY <2>1 DEF Session!HoldBack
  <2> QED
    BY <2>1, <2>2, <2>3 DEF Session!Next
<1>2. CASE SessionStep
  BY <1>2 DEF SessionStep, Session!Next
<1>3. ASSUME NEW j \in Job, Post(j), disposal.at # "spinning"
      PROVE  DeliveryNext /\ Session!Next
  <2>1. Succeed(j) /\ posted' # posted /\ Session!Enqueue(j)
    BY <1>3 DEF Post
  <2>2. j \in calls /\ Audible(j)
    BY <2>1 DEF Succeed, Audible
  <2>3. j \notin Posted \cup HeldBack
    BY <2>2 DEF DeliveryInv, Placed, Pending, Posted, HeldBack, Audible
  <2> QED
    BY <1>3, <2>1, <2>3 DEF DeliveryNext, Session!Next
<1>4. CASE UNCHANGED outcomeVars
  BY <1>4 DEF outcomeVars, managerVars, toolVars, sessionVars, Session!vars, Posted, HeldBack, Quiet
<1> QED
  BY <1>1, <1>2, <1>3, <1>4 DEF OutcomeNext

(* At first there is no outcome. *)
LEMMA InitOutcomeInv == OutcomeInit => OutcomeInv
<1> SUFFICES ASSUME OutcomeInit PROVE OutcomeInv
  OBVIOUS
<1>1. DeliveryInv /\ QueueInv
  BY InitDeliveryInv, InitQueueInv DEF OutcomeInit
<1>2. (\A j \in Job : posted[j] = 0) /\ ~Disposed
  BY DEF OutcomeInit, DeliveryInit, Disposed, At
<1> QED
  BY <1>1, <1>2 DEF OutcomeInv

(* A step of the manager, of the session or of both preserves the invariant. *)
LEMMA StepOutcomeInv == OutcomeInv /\ [OutcomeNext]_outcomeVars => OutcomeInv'
<1> SUFFICES ASSUME OutcomeInv, [OutcomeNext]_outcomeVars PROVE OutcomeInv'
  OBVIOUS
<1>1. /\ DeliveryInv /\ QueueInv
      /\ closing = "no" =>
            \A j \in Job : posted[j] > 0 => j \in entries \cup told \/ shown[j] > 0
      /\ Disposed => closing = "cancelled"
  BY DEF OutcomeInv
<1>2. [DeliveryNext]_managerVars /\ [Session!Next]_Session!vars
  BY <1>1, StepOfBoth
<1>3. DeliveryInv' /\ QueueInv'
  BY <1>1, <1>2, StepDeliveryInv, StepQueueInv
<1>4. /\ posted \in [Job -> Nat] /\ shown \in [Job -> Nat] /\ suppressed \subseteq told
  BY <1>1 DEF DeliveryInv, DeliveryTypeOK, ToolsKnown, QueueInv, Session!TypeOK
<1>5. CASE ManagerStep
  <2>1. /\ posted' = posted /\ entries' = entries /\ shown' = shown /\ closing' = closing
        /\ told \subseteq told' /\ (Disposed' => Disposed \/ closing = "cancelled")
    BY <1>1, <1>5, ToldStays DEF ManagerStep, sessionVars
  <2> QED
    BY <1>1, <1>3, <2>1 DEF OutcomeInv
<1>6. CASE SessionStep
  <2>1. posted' = posted /\ told' = told /\ (Disposed' <=> Disposed)
    BY <1>6 DEF SessionStep, managerVars, toolVars, Disposed
  <2>2. \/ closing' = closing
        \/ closing = "no" /\ closing' = "cleared"
        \/ closing = "cleared" /\ closing' = "cancelled"
    BY <1>6 DEF SessionStep, Session!Prompt, Session!RunStep, Session!Yield, Session!Fail,
       Session!Finish, Session!IdleFlush, Session!Abort, Session!DisposeClear, Session!DisposeCancel
  <2>3. \A j \in Job : shown'[j] >= shown[j]
    <3>1. shown' = shown \/ Session!Show(Session!Survivors)
      BY <1>6 DEF SessionStep, Session!Prompt, Session!RunStep, Session!Yield, Session!Fail,
         Session!Finish, Session!IdleFlush, Session!Abort, Session!DisposeClear, Session!DisposeCancel
    <3>2. CASE shown' = shown
      BY <1>4, <3>2
    <3>3. CASE Session!Show(Session!Survivors)
      <4>1. \A j \in Job : shown'[j] = IF j \in Session!Survivors THEN shown[j] + 1 ELSE shown[j]
        BY <1>4, <3>3, ShowFacts
      <4> QED
        BY <1>4, <4>1
    <3> QED
      BY <3>1, <3>2, <3>3
  <2>4. ASSUME closing' = "no", NEW j \in Job, posted[j] > 0
        PROVE  j \in entries' \cup told \/ shown'[j] > 0
    <3>1. closing = "no"
      BY <2>2, <2>4
    <3>2. j \in entries \cup told \/ shown[j] > 0
      BY <1>1, <2>4, <3>1
    <3>3. CASE j \in entries \ entries'
      <4>1. j \in HeldBack \/ shown'[j] > shown[j]
        BY <1>1, <1>2, <2>4, <3>3, LeavingStep
      <4>2. j \in HeldBack => j \in suppressed
        BY <1>1, <2>4 DEF HeldBack, Quiet, DeliveryInv, ToolsKnown
      <4>3. shown[j] \in Nat /\ shown'[j] \in Nat
        BY <1>3, <1>4 DEF QueueInv, Session!TypeOK
      <4> QED
        BY <1>4, <4>1, <4>2, <4>3
    <3>4. CASE shown[j] > 0
      <4>1. shown[j] \in Nat /\ shown'[j] \in Nat /\ shown'[j] >= shown[j]
        BY <1>3, <1>4, <2>3 DEF QueueInv, Session!TypeOK
      <4> QED
        BY <3>4, <4>1
    <3> QED
      BY <3>2, <3>3, <3>4
  <2>5. Disposed => closing' = "cancelled"
    BY <1>1, <2>2
  <2> QED
    BY <1>3, <2>1, <2>4, <2>5 DEF OutcomeInv
<1>7. ASSUME NEW j \in Job, Post(j) PROVE OutcomeInv'
  <2>1. /\ Succeed(j) /\ entries' = entries \cup {j} /\ UNCHANGED <<shown, closing>>
    BY <1>7 DEF Post, Session!Enqueue
  <2>2. /\ \A h \in Job : h # j => posted'[h] = posted[h]
        /\ told' = told
    BY <1>4, <2>1 DEF Succeed, toolVars
  <2>3. Disposed' <=> Disposed
    <3>1. Sound(deliveries, calls \ {j})
      BY <1>1, SoundNow DEF Sound
    <3>2. EndAttempt(j, deliveries, due) /\ DeliveryTypeOK
      BY <1>1, <2>1 DEF Succeed, DeliveryInv
    <3> QED
      BY <3>1, <3>2, EndAttemptKeeps
  <2> QED
    BY <1>1, <1>3, <2>1, <2>2, <2>3 DEF OutcomeInv
<1>8. CASE UNCHANGED outcomeVars
  <2>1. /\ UNCHANGED <<posted, entries, told, shown, closing>> /\ (Disposed' <=> Disposed)
    BY <1>8 DEF outcomeVars, managerVars, toolVars, sessionVars, Disposed
  <2> QED
    BY <1>1, <1>3, <2>1 DEF OutcomeInv
<1> QED
  BY <1>5, <1>6, <1>7, <1>8 DEF OutcomeNext

(***************************************************************************)
(* The manager and the session together always satisfy their invariant.    *)
(***************************************************************************)
THEOREM OutcomeInvariance == OutcomeSpec => []OutcomeInv
BY InitOutcomeInv, StepOutcomeInv, PTL DEF OutcomeSpec

(***************************************************************************)
(* Composed with its session, the job manager still runs as it does alone, *)
(* so that all that is proved of it holds here.                            *)
(***************************************************************************)
THEOREM ManagerInComposition == OutcomeSpec => DeliverySpec
<1>1. OutcomeInit => DeliveryInit
  BY DEF OutcomeInit
<1>2. OutcomeInv /\ [OutcomeNext]_outcomeVars => [DeliveryNext]_managerVars
  BY StepOfBoth DEF OutcomeInv
<1> QED
  BY <1>1, <1>2, OutcomeInvariance, PTL DEF OutcomeSpec, DeliverySpec

(***************************************************************************)
(* The manager is what the yield queue takes it for: the composition       *)
(* implements the queue with its assumptions about the poster.             *)
(***************************************************************************)
THEOREM ManagerKeepsToQueue == OutcomeSpec => KeepsToQueue
<1>1. OutcomeInit => Session!Init
  BY DEF OutcomeInit
<1>2. OutcomeInv /\ [OutcomeNext]_outcomeVars => [Session!Next]_Session!vars
  BY StepOfBoth DEF OutcomeInv
<1> QED
  BY <1>1, <1>2, OutcomeInvariance, PTL DEF OutcomeSpec, KeepsToQueue, Session!Spec

(***************************************************************************)
(* An outcome is told once on its way from the job to the agent, while the *)
(* manager has the job in its table.                                       *)
(***************************************************************************)
THEOREM AgentLearnsOnce == OutcomeSpec => LearnsOnce
<1> DEFINE Learn == \A j \in Job :
                       shown'[j] # shown[j] =>
                           /\ shown[j] = 0
                           /\ j \in told => jobs[j] = "evicted" \/ disposal.at = "over"
<1>1. ASSUME OutcomeInv, [OutcomeNext]_outcomeVars PROVE [Learn]_outcomeVars
  <2> SUFFICES ASSUME NEW j \in Job, shown'[j] # shown[j]
               PROVE  /\ shown[j] = 0
                      /\ j \in told => jobs[j] = "evicted" \/ disposal.at = "over"
    OBVIOUS
  <2>1. DeliveryInv /\ QueueInv
    BY <1>1 DEF OutcomeInv
  <2>2. j \in entries /\ j \notin suppressed
    <3>1. j \in entries \ HeldBack
      BY <1>1, <2>1, StepOfBoth, ShownStep
    <3> QED
      BY <3>1 DEF HeldBack, Quiet
  <2>3. shown[j] = 0
    BY <2>1, <2>2 DEF QueueInv
  <2>4. ASSUME j \in told PROVE jobs[j] = "evicted" \/ disposal.at = "over"
    BY <2>1, <2>2, <2>4 DEF DeliveryInv, ToolsKnown, Finished
  <2> QED
    BY <2>3, <2>4
<1> QED
  BY <1>1, OutcomeInvariance, PTL DEF OutcomeSpec, LearnsOnce

(***************************************************************************)
(* Until the session is disposed of, no outcome of a finished job is lost  *)
(* anywhere between the job and the agent.                                 *)
(***************************************************************************)
THEOREM NothingIsLost == OutcomeSpec => []NothingLost
<1>1. OutcomeInv => NothingLost
  <2> SUFFICES ASSUME OutcomeInv, closing = "no", NEW j \in Finished
               PROVE  \/ j \in ToSet(deliveries) \cup calls \cup dead \cup entries \cup told
                      \/ shown[j] > 0
                      \/ \E t \in Tool : j \in awaited[t].all
    BY DEF NothingLost
  <2>1. disposal.at # "over" /\ j \in Job
    BY DEF OutcomeInv, Disposed, Finished
  <2>2. \/ j \in calls \cup dead \cup told \cup ToSet(deliveries)
        \/ posted[j] > 0
        \/ \E t \in Tool : j \in awaited[t].all
    BY <2>1 DEF OutcomeInv, DeliveryInv, NoneLost
  <2>3. posted[j] > 0 => j \in entries \cup told \/ shown[j] > 0
    BY <2>1 DEF OutcomeInv
  <2> QED
    BY <2>2, <2>3
<1> QED
  BY <1>1, OutcomeInvariance, PTL
=============================================================================
