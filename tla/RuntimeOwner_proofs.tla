------------------------- MODULE RuntimeOwner_proofs -------------------------
(***************************************************************************)
(* Proofs about the owner of a harness session, for any number of owners,  *)
(* requests and incidents: what the subprocess said is in the log in the   *)
(* order it came, and no cursor is given twice.                            *)
(***************************************************************************)
EXTENDS RuntimeOwner, SequenceTheorems, TLAPS

(***************************************************************************)
(* An owner whose lease never ran out holds it from the time it listens    *)
(* until it closes.                                                        *)
(***************************************************************************)
LeaseHeld ==
    \A o \in Owner \ (lapsed \cup dead) :
        up[o] \in {"listening", "serving", "stopping", "hurried"} => CanWrite(o)

(***************************************************************************)
(* Where the pump can be at each stage of its owner; frames are in it only *)
(* while the owner serves or stops.                                        *)
(***************************************************************************)
Stages ==
    \A o \in Owner :
        /\ o \in dead <=> up[o] = "gone"
        /\ up[o] \in {"off", "starting"} => pc[o] = "none"
        /\ up[o] = "listening" => pc[o] \in {"lease", "view", "append"}
        /\ up[o] \in {"serving", "stopping", "hurried"} => pc[o] \in {"idle", "read", "mark", "lease", "view", "append"}
        /\ up[o] \in {"closing", "rushed", "closed", "released"} => pc[o] = "idle"
        /\ up[o] = "gone" => pc[o] = "over"
        /\ up[o] \notin {"serving", "stopping", "hurried"} => pump[o] = <<>>

(***************************************************************************)
(* A request that has come has an owner, one that had served it; with it   *)
(* the handler ends.                                                       *)
(***************************************************************************)
RequestsServed ==
    \A r \in Request :
        /\ verb[r] = "none" => pc[r] = "none" /\ to[r] = Nobody
        /\ verb[r] # "none" => to[r] \in Owner /\ up[to[r]] \notin {"off", "starting", "listening"}
        /\ to[r] \in dead => pc[r] = "over"

(***************************************************************************)
(* The pump holds the latest of the frames the owner was told of, n of     *)
(* which have been sent; those before them have been logged.               *)
(***************************************************************************)
Rising(h) == \A i, j \in DOMAIN h : i < j => h[i] < h[j]

Waiting(h, p, n) ==
    /\ Rising(h)
    /\ \A i \in DOMAIN h : h[i] > 0 /\ h[i] <= n
    /\ Len(p) <= Len(h)
    /\ \A i \in 1 .. Len(p) : p[i][1] = h[Len(h) - Len(p) + i]

Passed(h, p) == {h[i] : i \in 1 .. Len(h) - Len(p)}

FramesHeard == \A o \in Owner : Waiting(heard[o], pump[o], frames[o])

(***************************************************************************)
(* No cursor in the log is ahead of its owner's, and the one a writer has  *)
(* taken is neither in the log nor in another writer's hands.              *)
(***************************************************************************)
CursorAhead ==
    \A i \in DOMAIN log :
        /\ up[log[i].by] # "off"
        /\ log[i].by \notin dead => log[i].cursor <= cursor[log[i].by]

TakenOnce ==
    \A w \in Writer : pc[w] = "append" =>
        /\ Of(w) \in Owner /\ num[w] <= cursor[Of(w)]
        /\ \A i \in DOMAIN log : log[i].by = Of(w) => log[i].cursor # num[w]
        /\ \A v \in Writer \ {w} : pc[v] = "append" /\ Of(v) = Of(w) => num[v] # num[w]

SInv ==
    /\ LeaseHeld
    /\ Stages
    /\ RequestsServed
    /\ FramesHeard
    /\ FramesLogged
    /\ CursorAhead
    /\ TakenOnce
    /\ OwnCursors

IInv == TypeOK /\ SInv

-----------------------------------------------------------------------------

(* The frames in the pump.                                                 *)

(* A frame that arrives waits last; what has passed stays. *)
LEMMA FrameArrives ==
  ASSUME NEW h \in Seq(Nat), NEW p \in Seq(Nat \X BOOLEAN), NEW n \in Nat, NEW d \in BOOLEAN,
         Waiting(h, p, n)
  PROVE  /\ Waiting(Append(h, n + 1), Append(p, <<n + 1, d>>), n + 1)
         /\ Passed(Append(h, n + 1), Append(p, <<n + 1, d>>)) = Passed(h, p)
<1> DEFINE h1 == Append(h, n + 1) p1 == Append(p, <<n + 1, d>>) H == Len(h) P == Len(p)
<1>1. /\ H \in Nat /\ P \in Nat /\ DOMAIN h = 1 .. H
      /\ Len(h1) = H + 1 /\ Len(p1) = P + 1 /\ DOMAIN h1 = 1 .. H + 1
      /\ \A i \in 1 .. H : h1[i] = h[i] /\ h[i] \in Nat
      /\ \A i \in 1 .. P : p1[i] = p[i]
      /\ h1[H + 1] = n + 1 /\ p1[P + 1] = <<n + 1, d>>
  OBVIOUS
<1>2. /\ \A i, j \in 1 .. H : i < j => h[i] < h[j]
      /\ \A i \in 1 .. H : h[i] > 0 /\ h[i] <= n
      /\ P <= H /\ \A i \in 1 .. P : p[i][1] = h[H - P + i]
  BY <1>1 DEF Waiting, Rising
<1>n. n \in Nat
  OBVIOUS
<1> HIDE DEF h1, p1, H, P
<1>ranges. /\ 1 .. H + 1 = 1 .. H \cup {H + 1} /\ 1 .. P + 1 = 1 .. P \cup {P + 1}
      /\ (H + 1) - (P + 1) = H - P /\ H - P + (P + 1) = H + 1
  <2>1. H \in Nat /\ P \in Nat /\ P <= H
    BY ONLY <1>1, <1>2
  <2>2. 1 .. H + 1 = 1 .. H \cup {H + 1}
    BY ONLY <2>1
  <2>3. 1 .. P + 1 = 1 .. P \cup {P + 1}
    BY ONLY <2>1, SMTT(30)
  <2>4. (H + 1) - (P + 1) = H - P /\ H - P + (P + 1) = H + 1
    BY ONLY <2>1
  <2> QED
    BY ONLY <2>2, <2>3, <2>4
<1>inside. /\ \A i \in 1 .. P : H - P + i \in 1 .. H
      /\ \A i \in 1 .. H - P : i \in 1 .. H
  BY ONLY <1>1, <1>2
<1>3. \A i \in 1 .. H + 1 : h1[i] > 0 /\ h1[i] <= n + 1 /\ h1[i] \in Nat
  <2>1. \A i \in 1 .. H : h1[i] > 0 /\ h1[i] <= n + 1 /\ h1[i] \in Nat
    <3> SUFFICES ASSUME NEW i \in 1 .. H PROVE h1[i] > 0 /\ h1[i] <= n + 1 /\ h1[i] \in Nat
      OBVIOUS
    <3>1. h1[i] = h[i] /\ h[i] \in Nat /\ h[i] > 0 /\ h[i] <= n
      BY <1>1, <1>2
    <3> QED
      BY ONLY <3>1, <1>n
  <2> QED
    BY ONLY <1>1, <1>n, <1>ranges, <2>1
<1>4. \A i, j \in 1 .. H + 1 : i < j => h1[i] < h1[j]
  <2>1. \A i, j \in 1 .. H : i < j => h1[i] < h1[j]
    BY ONLY <1>1, <1>2
  <2>2. \A i \in 1 .. H : h1[i] < h1[H + 1]
    BY ONLY <1>1, <1>2, <1>n
  <2>3. (\A i \in 1 .. H : ~(H + 1 < i)) /\ ~(H + 1 < H + 1)
    BY ONLY <1>1
  <2>4. 1 .. H + 1 = 1 .. H \cup {H + 1}
    BY <1>ranges
  <2> QED
    BY ONLY <2>1, <2>2, <2>3, <2>4
<1>5. P + 1 <= H + 1 /\ \A i \in 1 .. P + 1 : p1[i][1] = h1[(H + 1) - (P + 1) + i]
  <2>1. \A i \in 1 .. P : p1[i][1] = h1[H - P + i]
    BY ONLY <1>1, <1>2, <1>inside
  <2>2. p1[P + 1][1] = h1[H - P + (P + 1)]
    BY ONLY <1>1, <1>ranges, SMTT(30)
  <2> QED
    <3>1. \A i \in 1 .. P \cup {P + 1} : p1[i][1] = h1[H - P + i]
      BY ONLY <2>1, <2>2
    <3>2. P + 1 <= H + 1
      BY ONLY <1>1, <1>2
    <3> QED
      BY ONLY <1>ranges, <3>1, <3>2
<1>6. Waiting(h1, p1, n + 1)
  BY ONLY <1>1, <1>3, <1>4, <1>5 DEF Waiting, Rising
<1>7. {h1[i] : i \in 1 .. (H + 1) - (P + 1)} = {h[i] : i \in 1 .. H - P}
  <2>1. \A i \in 1 .. H - P : h1[i] = h[i]
    BY ONLY <1>1, <1>inside
  <2> QED
    BY ONLY <1>ranges, <2>1
<1>8. Passed(h1, p1) = Passed(h, p)
  BY ONLY <1>1, <1>7 DEF Passed, H, P
<1> QED
  BY <1>6, <1>8 DEF h1, p1

(* The frame that leaves the pump is later than all that have passed. *)
LEMMA FrameLeaves ==
  ASSUME NEW h \in Seq(Nat), NEW p \in Seq(Nat \X BOOLEAN), NEW n \in Nat, Waiting(h, p, n),
         p # <<>>
  PROVE  /\ Waiting(h, Tail(p), n)
         /\ p[1][1] \in Nat /\ p[1][1] > 0
         /\ Passed(h, Tail(p)) = Passed(h, p) \cup {p[1][1]}
         /\ \A f \in Passed(h, p) : f < p[1][1]
<1> DEFINE t == Tail(p) H == Len(h) P == Len(p) k == H - P + 1
<1>1. /\ H \in Nat /\ P \in Nat \ {0} /\ DOMAIN h = 1 .. H
      /\ Len(t) = P - 1 /\ \A i \in 1 .. P - 1 : t[i] = p[i + 1]
      /\ \A i \in 1 .. H : h[i] \in Nat
  OBVIOUS
<1>2. /\ \A i, j \in 1 .. H : i < j => h[i] < h[j]
      /\ \A i \in 1 .. H : h[i] > 0
      /\ P <= H /\ \A i \in 1 .. P : p[i][1] = h[H - P + i]
  BY <1>1 DEF Waiting, Rising
<1> HIDE DEF t, H, P
<1>3. k \in 1 .. H /\ p[1][1] = h[k]
  BY ONLY <1>1, <1>2
<1>4. P - 1 <= H /\ \A i \in 1 .. P - 1 : t[i][1] = h[H - (P - 1) + i]
  <2>1. ASSUME NEW i, i \in 1 .. P - 1
        PROVE  t[i][1] = h[H - (P - 1) + i]
    <3>1. i + 1 \in 1 .. P /\ H - P + (i + 1) = H - (P - 1) + i
      BY ONLY <1>1, <2>1
    <3>2. t[i] = p[i + 1] /\ p[i + 1][1] = h[H - P + (i + 1)]
      BY ONLY <1>1, <1>2, <2>1, <3>1
    <3> QED
      BY ONLY <3>1, <3>2
  <2>2. P - 1 <= H
    BY ONLY <1>1, <1>2
  <2> QED
    BY ONLY <2>1, <2>2
<1>5. Waiting(h, t, n)
  BY <1>1, <1>4 DEF Waiting, H
<1>6. 1 .. H - (P - 1) = 1 .. H - P \cup {k}
  <2>1. H \in Nat /\ P \in Nat \ {0} /\ k = H - P + 1 /\ k \in 1 .. H
    BY ONLY <1>1, <1>3
  <2>2. H - (P - 1) = k /\ H - P = k - 1 /\ k \in Int
    BY ONLY <2>1
  <2>3. \A m \in Nat \ {0} : 1 .. m = 1 .. m - 1 \cup {m}
    BY ONLY TRUE
  <2>4. 1 .. k = 1 .. k - 1 \cup {k}
    BY ONLY <2>1, <2>3
  <2> QED
    BY ONLY <2>2, <2>4
<1>7. Passed(h, t) = Passed(h, p) \cup {h[k]}
  BY ONLY <1>1, <1>6 DEF Passed, H, P
<1>8. \A f \in Passed(h, p) : f < h[k]
  <2>1. \A i \in 1 .. H - P : h[i] < h[k]
    BY ONLY <1>1, <1>2, <1>3
  <2> QED
    BY ONLY <2>1 DEF Passed, H, P
<1>9. h[k] \in Nat /\ h[k] > 0
  BY ONLY <1>1, <1>2, <1>3
<1> QED
  BY <1>3, <1>5, <1>7, <1>8, <1>9 DEF t

(* Frames are numbered. *)
LEMMA FramesTyped ==
  ASSUME TypeOK, NEW o \in Owner
  PROVE  heard[o] \in Seq(Nat) /\ pump[o] \in Seq(Nat \X BOOLEAN) /\ frames[o] \in Nat
BY DEF TypeOK

(***************************************************************************)
(* FramesLogged, of one owner.                                             *)
(***************************************************************************)
FramesOf(g, o) == {i \in DOMAIN g : g[i].by = o /\ g[i].frame # 0}

InOrder(g, o, h, p) ==
    /\ Rising(h)
    /\ \A i, j \in FramesOf(g, o) : i < j => g[i].frame < g[j].frame
    /\ {g[i].frame : i \in FramesOf(g, o)} = Passed(h, p)

(* FramesLogged is a statement about each owner alone. *)
LEMMA InOrderOfEach ==
  /\ FramesLogged <=> \A o \in Owner \ (lapsed \cup dead) : InOrder(log, o, heard[o], pump[o])
  /\ FramesLogged' <=>
         \A o \in Owner \ (lapsed' \cup dead') : InOrder(log', o, heard'[o], pump'[o])
BY Zenon DEF FramesLogged, Logged, InOrder, FramesOf, Rising, Passed

-----------------------------------------------------------------------------

(* It holds before any owner starts. *)
LEMMA InitIInv == Init => IInv
<1> SUFFICES ASSUME Init PROVE IInv
  OBVIOUS
<1> USE OwnerAssumption, NoLeaseAssumption, IncidentsAssumption DEF Init, Cell!Init, Writer
<1>1. TypeOK
  BY DEF TypeOK, Lifecycles, Phases, Places
<1>2. LeaseHeld /\ Stages /\ RequestsServed
  BY DEF LeaseHeld, Stages, RequestsServed
<1>3. /\ \A o \in Owner : /\ Len(pump[o]) = 0 /\ Len(heard[o]) = 0 /\ DOMAIN heard[o] = {}
                           /\ 1 .. Len(pump[o]) = {} /\ 1 .. Len(heard[o]) - Len(pump[o]) = {}
      /\ DOMAIN log = {}
  OBVIOUS
<1>4. FramesHeard
  <2> SUFFICES ASSUME NEW o \in Owner PROVE Waiting(heard[o], pump[o], frames[o])
    BY DEF FramesHeard
  <2>1. /\ Len(pump[o]) = 0 /\ Len(heard[o]) = 0 /\ DOMAIN heard[o] = {}
        /\ 1 .. Len(pump[o]) = {}
    BY <1>3
  <2> QED
    BY ONLY <2>1 DEF Waiting, Rising
<1>5. FramesLogged
  BY ONLY <1>3 DEF FramesLogged, Logged
<1>6. CursorAhead /\ TakenOnce /\ OwnCursors
  BY DEF CursorAhead, TakenOnce, OwnCursors
<1> QED
  BY <1>1, <1>2, <1>4, <1>5, <1>6 DEF IInv, SInv

-----------------------------------------------------------------------------
(* The types, by the actions.                                              *)

(* Incidents stay below their bound. *)
LEMMA IncidentTypes ==
  ASSUME incidents \in 0 .. MaxIncidents, Incident
  PROVE  incidents' \in 0 .. MaxIncidents
BY IncidentsAssumption DEF Incident

(* A call of stop() moves an owner that serves or stops, and no other. *)
LEMMA StopCalls ==
  /\ DOMAIN StopCalled = {"serving", "stopping", "closing"}
  /\ \A p : Stopped(p) = CASE p = "serving"  -> "stopping"
                          [] p = "stopping" -> "hurried"
                          [] p = "closing"  -> "rushed"
                          [] OTHER          -> p
BY DEF StopCalled, Stopped

(* A writer's return shuts no owner down. *)
LEMMA ReturnShutsNone ==
  ASSUME TypeOK, NEW w \in Writer, Return(w), NEW x \in Owner, up'[x] = "off"
  PROVE  up[x] = "off"
<1>1. CASE w \in Owner
  BY <1>1 DEF Return, TypeOK
<1>2. CASE w \notin Owner
  <2>1. \E p : /\ p # "off" \/ p = up[to[w]]
              /\ up' = [up EXCEPT ![to[w]] = p]
    BY <1>2, StopCalls DEF Return
  <2> QED
    BY <2>1 DEF TypeOK
<1> QED
  BY <1>1, <1>2

(* The steps on the lease and on the life of an owner. *)
LEMMA LeaseTypes ==
  ASSUME TypeOK, NEW o \in Owner,
         Expire \/ Reap \/ ReadLog(o) \/ Acquire(o) \/ Heartbeat(o) \/ StopBegins(o)
         \/ Close(o) \/ Shut(o) \/ Release(o)
  PROVE  TypeOK'
<1> USE OwnerAssumption, NoLeaseAssumption, IncidentsAssumption
    DEF TypeOK, faults, leaseVars, fileVars, ownerVars, askVars, jobVars, childVars, Writer, Cell!Lease,
        KillChild
<1>1. CASE Expire
  <2>1. incidents' \in 0 .. MaxIncidents
    BY <1>1, IncidentTypes DEF Expire
  <2>2. lease' \in [owner : Owner, epoch : Nat \ {0}, expired : BOOLEAN]
        /\ (dead \cup lapsed \cup alive \subseteq Owner)'
    BY <1>1 DEF Expire, Cell!Expire
  <2> QED
    BY <1>1, <2>1, <2>2 DEF Expire
<1>2. CASE Reap
  BY <1>2 DEF Reap, Cell!Reap
<1>3. CASE ReadLog(o)
  <2>1. \A i \in DOMAIN log : log[i].cursor \in Nat
    <3>1. log \in Seq([by : Owner, cursor : Nat, frame : Nat])
      OBVIOUS
    <3>2. \A i \in 1 .. Len(log) : log[i] \in [by : Owner, cursor : Nat, frame : Nat]
      BY ONLY <3>1, ElementOfSeq
    <3> QED
      BY ONLY <3>1, <3>2
  <2>2. cursor' \in [Owner -> Nat]
    BY <1>3, <2>1 DEF ReadLog
  <2>3. up' \in [Owner -> Phases] /\ (dead \cup lapsed \cup alive \subseteq Owner)'
    BY <1>3 DEF ReadLog, Phases
  <2> QED
    BY <1>3, <2>2, <2>3 DEF ReadLog
<1>4. CASE Acquire(o)
  <2>1. \E e \in Nat \ {0} : lease' = [owner |-> o, epoch |-> e, expired |-> FALSE]
    <3>1. lease \in [owner : Owner, epoch : Nat \ {0}, expired : BOOLEAN] \cup {NoLease} /\ Cell!Acquire(o)
      BY <1>4 DEF Acquire
    <3> QED
      BY ONLY <3>1 DEF Cell!Acquire, Cell!Lease
  <2>2. up' \in [Owner -> Phases] /\ pc' \in [Writer -> Places]
    BY <1>4 DEF Acquire, Goto, Phases, Places
  <2>3. UNCHANGED <<dead, lapsed, alive, incidents, life, log, cursor, pump, heard>>
    BY <1>4 DEF Acquire, Cell!Acquire
  <2>4. UNCHANGED <<verb, to, gone, num, pre, accepted, frames, inbox, running, starts>>
    BY <1>4 DEF Acquire
  <2>5. lease' \in [owner : Owner, epoch : Nat \ {0}, expired : BOOLEAN] \cup {NoLease}
    BY ONLY <2>1
  <2> QED
    BY <2>2, <2>3, <2>4, <2>5
<1>5. CASE Heartbeat(o)
  BY <1>5 DEF Heartbeat, Cell!Heartbeat
<1>6. CASE StopBegins(o)
  <2>1. incidents' \in 0 .. MaxIncidents
    BY <1>6, IncidentTypes DEF StopBegins
  <2>2. up' \in [Owner -> Phases]
    BY <1>6, StopCalls DEF StopBegins, Phases
  <2> QED
    BY <1>6, <2>1, <2>2 DEF StopBegins
<1>7. CASE Close(o)
  BY <1>7 DEF Close, Phases
<1>9. CASE Shut(o)
  BY <1>9 DEF Shut, Phases
<1>8. CASE Release(o)
  BY <1>8 DEF Release, Cell!Release, Phases
<1> QED
  BY <1>1, <1>2, <1>3, <1>4, <1>5, <1>6, <1>7, <1>8, <1>9

(* The death of an owner. *)
LEMMA DieTypes ==
  ASSUME TypeOK, NEW o \in Owner, Die(o), incidents' \in 0 .. MaxIncidents
  PROVE  TypeOK'
<1> USE OwnerAssumption
    DEF TypeOK, fileVars, askVars, Writer, Die, Cell!Die, KillChild
<1>1. (dead \cup lapsed \cup alive \subseteq Owner)' /\ UNCHANGED <<lease, fileVars, verb, to, gone>>
  OBVIOUS
<1>2. /\ up' \in [Owner -> Phases]
      /\ cursor' \in [Owner -> Nat] /\ frames' \in [Owner -> Nat]
  BY DEF Phases
<1>3. pump' \in [Owner -> Seq(Nat \X BOOLEAN)] /\ heard' \in [Owner -> Seq(Nat)]
      /\ starts' \in [Owner -> Seq(Nat \X Request)]
  BY SMTT(30)
<1>4. pc' \in [Writer -> Places] /\ num' \in [Writer -> Nat]
  BY DEF Places
<1>5. {pre, accepted}' \subseteq [Request -> Nat]
  OBVIOUS
<1>6. inbox' \in [Owner -> SUBSET Request] /\ running' \in [Owner -> Request \cup {Nobody}]
  OBVIOUS
<1>7. incidents' \in 0 .. MaxIncidents /\ life' \in Lifecycles
      /\ log' \in Seq([by : Owner, cursor : Nat, frame : Nat])
  BY <1>1
<1>8. lease' \in [owner : Owner, epoch : Nat \ {0}, expired : BOOLEAN] \cup {NoLease}
      /\ verb' \in [Request -> Verbs \cup {"none"}] /\ to' \in [Request -> Owner \cup {Nobody}]
      /\ gone' \subseteq Request
  BY <1>1
<1> QED
  BY ONLY <1>1, <1>2, <1>3, <1>4, <1>5, <1>6, <1>7, <1>8, Zenon DEF TypeOK

(* The steps of a writer in #emit and of the pump. *)
LEMMA WriterTypes ==
  ASSUME IInv, NEW w \in Writer, Emit(w) \/ (w \in Owner /\ Pump(w))
  PROVE  TypeOK'
<1> USE OwnerAssumption
    DEF fileVars, leaseVars, faults, ownerVars, askVars, jobVars, childVars, Writer
<1>1. TypeOK /\ (pc[w] # "none" => Of(w) \in Owner)
  BY DEF IInv, SInv, RequestsServed, Of, Verbs, TypeOK
<1> USE <1>1 DEF TypeOK
<1>2. ASSUME Return(w)
      PROVE  /\ {pre, accepted}' \subseteq [Request -> Nat] /\ num' \in [Writer -> Nat]
             /\ pc' \in [Writer -> Places] /\ up' \in [Owner -> Phases]
             /\ pump' \in [Owner -> Seq(Nat \X BOOLEAN)]
  <2>1. num' \in [Writer -> Nat]
    BY <1>2 DEF Return, Forget
  <2>2. {pre, accepted}' \subseteq [Request -> Nat]
    <3>1. \/ UNCHANGED <<pre, accepted>>
          \/ pre' = [pre EXCEPT ![w] = 0] /\ accepted' = [accepted EXCEPT ![w] = 0]
      BY <1>2 DEF Return, Forget
    <3>2. {pre, accepted} \subseteq [Request -> Nat]
      OBVIOUS
    <3> QED
      BY ONLY <3>1, <3>2
  <2>3. pc' \in [Writer -> Places]
    BY <1>2 DEF Return, Goto, Places
  <2>4. up' \in [Owner -> Phases]
    <3>1. \E x, p : /\ p \in {up[x], "serving", "stopping", "hurried", "rushed"}
                    /\ up' = [up EXCEPT ![x] = p]
      BY <1>2, StopCalls DEF Return
    <3>2. up \in [Owner -> Phases]
      OBVIOUS
    <3> QED
      BY ONLY <3>1, <3>2 DEF Phases
  <2>5. pump' \in [Owner -> Seq(Nat \X BOOLEAN)]
    <3>1. w \in Owner /\ pump[w] # <<>> => Tail(pump[w]) \in Seq(Nat \X BOOLEAN)
      OBVIOUS
    <3>2. \/ UNCHANGED pump
          \/ w \in Owner /\ pump[w] = <<>> /\ pump' = [pump EXCEPT ![w] = pump[w]]
          \/ w \in Owner /\ pump[w] # <<>> /\ pump' = [pump EXCEPT ![w] = Tail(pump[w])]
      BY <1>2 DEF Return
    <3>3. pump \in [Owner -> Seq(Nat \X BOOLEAN)]
      OBVIOUS
    <3> QED
      BY ONLY <3>1, <3>2, <3>3
  <2> QED
    BY <2>1, <2>2, <2>3, <2>4, <2>5
<1>3. CASE CheckLease(w)
  BY <1>2, <1>3, ZenonT(60) DEF CheckLease, Goto, At, Places
<1>4. CASE TakeCursor(w)
  <2>1. cursor[Of(w)] + 1 \in Nat
    <3>1. Of(w) \in Owner
      BY <1>4 DEF TakeCursor, At
    <3>2. cursor \in [Owner -> Nat]
      BY ONLY <1>1 DEF TypeOK
    <3> QED
      BY ONLY <3>1, <3>2
  <2>2. cursor' \in [Owner -> Nat] /\ num' \in [Writer -> Nat]
    BY <1>4, <2>1 DEF TakeCursor
  <2>3. pc' \in [Writer -> Places]
    BY <1>4 DEF TakeCursor, Goto, Places
  <2> QED
    BY <1>4, <2>2, <2>3 DEF TakeCursor
<1>5. CASE AppendEvent(w)
  <2>1. Of(w) \in Owner /\ num[w] \in Nat
    BY <1>5 DEF AppendEvent, At
  <2>2. w \in Owner /\ pump[w] # <<>> => pump[w][1][1] \in Nat
    OBVIOUS
  <2>3. log' \in Seq([by : Owner, cursor : Nat, frame : Nat])
    BY <2>1, <2>2, <1>5 DEF AppendEvent
  <2> QED
    BY <1>2, <1>5, <2>3 DEF AppendEvent
<1>6. CASE w \in Owner /\ Pump(w)
  <2>1. pc' \in [Writer -> Places] /\ life' \in Lifecycles
    BY <1>6, ZenonT(60) DEF Pump, NextFrame, ReadState, MarkFinalizing, Step, Goto, Places, Lifecycles
  <2> QED
    BY <1>6, <2>1 DEF Pump, NextFrame, ReadState, MarkFinalizing, Step
<1> QED
  BY <1>3, <1>4, <1>5, <1>6 DEF Emit

(* The steps of the handler of a request. *)
LEMMA RequestTypes ==
  ASSUME IInv, NEW r \in Request,
         Handle(r) \/ \E v \in Asks[r], o \in Owner : Arrive(r, v, o)
  PROVE  TypeOK'
<1> USE OwnerAssumption
    DEF fileVars, leaseVars, faults, ownerVars, askVars, jobVars, childVars, Writer
<1>1. TypeOK /\ (pc[r] # "none" => to[r] \in Owner)
  BY DEF IInv, SInv, RequestsServed, Verbs, TypeOK
<1> USE <1>1 DEF TypeOK
<1>2. CASE Save(r)
  <2>1. pc' \in [Writer -> Places] /\ life' \in Lifecycles
    BY <1>2 DEF Save, Step, Goto, Places, Lifecycles
  <2> QED
    BY <1>2, <2>1 DEF Save, Step
<1>3. CASE GetState(r)
  BY <1>3, ZenonT(60) DEF GetState, At, Goto, Places
<1>4. CASE Send(r)
  <2>1. inbox' \in [Owner -> SUBSET Request]
    <3>1. UNCHANGED inbox \/ inbox' = [inbox EXCEPT ![to[r]] = inbox[to[r]] \cup {r}]
      BY <1>4 DEF Send
    <3>2. to[r] \in Owner
      BY <1>4 DEF Send, At
    <3>3. r \in Request
      OBVIOUS
    <3>4. inbox \in [Owner -> SUBSET Request]
      OBVIOUS
    <3>5. inbox[to[r]] \cup {r} \in SUBSET Request
      BY ONLY <3>2, <3>3, <3>4
    <3> QED
      BY ONLY <3>1, <3>2, <3>4, <3>5
  <2>2. pc' \in [Writer -> Places]
    BY <1>4, ZenonT(60) DEF Send, Step, Goto, Places
  <2> QED
    BY <1>4, <2>1, <2>2 DEF Send, Step
<1>5. CASE Accept(r)
  <2>1. PICK i \in Later(r) : accepted' = [accepted EXCEPT ![r] = starts[to[r]][i][1]]
    BY <1>5 DEF Accept
  <2>2. to[r] \in Owner
    BY <1>5 DEF Accept, At
  <2>3. starts[to[r]] \in Seq(Nat \X Request) /\ i \in DOMAIN starts[to[r]]
    BY <2>1, <2>2 DEF Later
  <2>4. starts[to[r]][i] \in Nat \X Request
    BY ONLY <2>3
  <2>5. accepted' \in [Request -> Nat] /\ pc' \in [Writer -> Places]
    BY <1>5, <2>1, <2>4 DEF Accept, Goto, Places
  <2> QED
    BY <1>5, <2>5 DEF Accept
<1>6. CASE Timeout(r)
  BY <1>6 DEF Timeout, Step, At, Goto, Places
<1>7. ASSUME NEW v \in Asks[r], NEW o \in Owner, Arrive(r, v, o)
      PROVE  TypeOK'
  BY <1>7, AsksAssumption DEF Arrive, Goto, Places, Verbs
<1> QED
  BY <1>2, <1>3, <1>4, <1>5, <1>6, <1>7 DEF Handle

(* The steps of the subprocess. *)
LEMMA ChildTypes ==
  ASSUME TypeOK, NEW o \in Owner, Child(o) \/ ChildDies(o)
  PROVE  TypeOK'
<1> USE OwnerAssumption, IncidentsAssumption
    DEF TypeOK, fileVars, leaseVars, faults, ownerVars, askVars, jobVars, childVars, Writer
<1>1. ASSUME NEW done \in BOOLEAN, Frame(o, done)
      PROVE  frames' \in [Owner -> Nat] /\ heard' \in [Owner -> Seq(Nat)]
             /\ pump' \in [Owner -> Seq(Nat \X BOOLEAN)]
  <2>1. frames' \in [Owner -> Nat] /\ frames[o] + 1 \in Nat
    <3>1. frames' = [frames EXCEPT ![o] = frames[o] + 1]
      BY <1>1, Zenon DEF Frame
    <3> QED
      BY <3>1
  <2>2. CASE up[o] = "serving"
    <3>1. pump' = [pump EXCEPT ![o] = Append(pump[o], <<frames[o] + 1, done>>)]
          /\ heard' = [heard EXCEPT ![o] = Append(heard[o], frames[o] + 1)]
      BY <1>1, <2>2 DEF Frame
    <3>2. Append(pump[o], <<frames[o] + 1, done>>) \in Seq(Nat \X BOOLEAN)
          /\ Append(heard[o], frames[o] + 1) \in Seq(Nat)
      BY <2>1
    <3> QED
      BY <2>1, <3>1, <3>2
  <2>3. CASE up[o] # "serving"
    BY <1>1, <2>1, <2>3 DEF Frame
  <2> QED
    BY <2>2, <2>3
<1>2. CASE Complete(o)
  BY <1>1, <1>2 DEF Complete
<1>3. ASSUME NEW r \in Request, Begin(o, r)
      PROVE  TypeOK'
  <2>1. starts' \in [Owner -> Seq(Nat \X Request)]
    <3>1. frames[o] + 1 \in Nat /\ Append(starts[o], <<frames[o] + 1, r>>) \in Seq(Nat \X Request)
      <4>1. frames[o] \in Nat /\ starts[o] \in Seq(Nat \X Request)
        OBVIOUS
      <4>2. <<frames[o] + 1, r>> \in Nat \X Request
        BY ONLY <4>1, r \in Request
      <4> QED
        BY ONLY <4>1, <4>2, AppendProperties
    <3> QED
      BY <1>3, <3>1 DEF Begin
  <2> QED
    BY <1>1, <1>3, <2>1 DEF Begin
<1>4. ASSUME NEW r \in Request, Drop(o, r)
      PROVE  TypeOK'
  BY <1>4 DEF Drop
<1>5. CASE ChildDies(o)
  <2>1. incidents' \in 0 .. MaxIncidents
    BY <1>5, IncidentTypes DEF ChildDies
  <2> QED
    BY <1>5, <2>1 DEF ChildDies, KillChild
<1> QED
  BY <1>2, <1>3, <1>4, <1>5 DEF Child

(* Every step keeps the types. *)
LEMMA TypeStep == IInv /\ [Next]_vars => TypeOK'
<1> SUFFICES ASSUME IInv, [Next]_vars PROVE TypeOK'
  OBVIOUS
<1>1. TypeOK
  BY DEF IInv
<1>2. CASE Expire \/ Reap
  <2>1. CASE Owner = {}
    BY <1>1, <1>2, <2>1 DEF TypeOK, Expire, Reap, Cell!Expire, Cell!Reap
  <2>2. CASE Owner # {}
    BY <1>1, <1>2, <2>2, LeaseTypes
  <2> QED
    BY <2>1, <2>2
<1>3. ASSUME NEW o \in Owner,
             \/ ReadLog(o) \/ Acquire(o) \/ Heartbeat(o) \/ StopBegins(o)
             \/ Close(o) \/ Shut(o) \/ Release(o)
      PROVE  TypeOK'
  BY <1>1, <1>3, LeaseTypes
<1>4. ASSUME NEW o \in Owner, Crash(o) \/ Exit(o)
      PROVE  TypeOK'
  <2>1. incidents' \in 0 .. MaxIncidents
    BY <1>1, <1>4, IncidentTypes DEF Crash, Exit, TypeOK
  <2> QED
    BY <1>1, <1>4, <2>1, DieTypes DEF Crash, Exit
<1>5. ASSUME NEW o \in Owner, Child(o) \/ ChildDies(o)
      PROVE  TypeOK'
  BY <1>1, <1>5, ChildTypes
<1>6. ASSUME NEW w \in Writer, Emit(w) \/ (w \in Owner /\ Pump(w))
      PROVE  TypeOK'
  BY <1>6, WriterTypes
<1>7. ASSUME NEW r \in Request, Handle(r) \/ \E v \in Asks[r], o \in Owner : Arrive(r, v, o)
      PROVE  TypeOK'
  BY <1>7, RequestTypes
<1>9. ASSUME NEW r \in Request, HangUp(r)
      PROVE  TypeOK'
  BY <1>1, <1>9 DEF HangUp, TypeOK, faults, leaseVars, fileVars, ownerVars, childVars
<1>8. CASE UNCHANGED vars
  BY <1>1, <1>8 DEF TypeOK, vars, faults, leaseVars, fileVars, ownerVars, askVars, jobVars, childVars
<1> QED
  BY <1>2, <1>3, <1>4, <1>5, <1>6, <1>7, <1>8, <1>9 DEF Next, Writer

(* A writer that has begun belongs to an owner that has started. *)
LEMMA WhoWrites ==
  ASSUME IInv
  PROVE  /\ Nobody \notin Owner
         /\ \A r \in Request : r \notin Owner /\ r \in Writer /\ Of(r) = to[r]
         /\ \A o \in Owner : o \in Writer /\ Of(o) = o
         /\ \A w \in Writer : pc[w] # "none" =>
               Of(w) \in Owner /\ up[Of(w)] \notin {"off", "starting"}
<1>1. Nobody \notin Owner /\ Owner \cap Request = {}
  BY OwnerAssumption
<1>2. \A r \in Request : pc[r] # "none" => to[r] \in Owner /\ up[to[r]] \notin {"off", "starting"}
  BY DEF IInv, SInv, RequestsServed
<1>3. \A o \in Owner : pc[o] # "none" => up[o] \notin {"off", "starting"}
  BY DEF IInv, SInv, Stages
<1> QED
  BY ONLY <1>1, <1>2, <1>3 DEF Writer, Of

(* The entries of the log have a writer, a cursor and a frame. *)
LEMMA LogTyped ==
  ASSUME TypeOK
  PROVE  \A i \in DOMAIN log : /\ log[i] \in [by : Owner, cursor : Nat, frame : Nat]
                            /\ log[i].by \in Owner /\ log[i].cursor \in Nat
                            /\ log[i].frame \in Nat
<1>1. log \in Seq([by : Owner, cursor : Nat, frame : Nat])
  BY DEF TypeOK
<1>2. DOMAIN log = 1 .. Len(log)
  BY <1>1
<1>3. \A i \in 1 .. Len(log) : log[i] \in [by : Owner, cursor : Nat, frame : Nat]
  BY ONLY <1>1, ElementOfSeq
<1> QED
  BY ONLY <1>2, <1>3

-----------------------------------------------------------------------------
(* The kinds of step.                                                      *)

\* A writer goes to a place where it has no cursor in hand.
LEMMA MoveKeeps ==
  ASSUME IInv, NEW w \in Writer, NEW q \in Places \ {"none", "append"},
         Goto(w, q), pc[w] # "none", Of(w) \notin dead,
         w \in Owner => \/ up[w] \in {"serving", "stopping", "hurried"} /\ q \in {"read", "mark", "lease"}
                        \/ pc[w] = "lease" /\ q = "view",
         UNCHANGED <<lease, dead, lapsed, log, up, cursor, pump, heard, verb, to, num, frames>>
  PROVE  SInv'
<1>1. \A v \in Writer : pc'[v] = IF v = w THEN q ELSE pc[v]
  BY DEF IInv, TypeOK, Goto
<1>2. LeaseHeld' /\ FramesHeard'
  BY DEF IInv, SInv, LeaseHeld, CanWrite, FramesHeard
<1>3. FramesLogged' /\ CursorAhead' /\ OwnCursors'
  <2>1. FramesLogged'
    BY InOrderOfEach DEF IInv, SInv
  <2>2. CursorAhead' /\ OwnCursors'
    BY DEF IInv, SInv, CursorAhead, OwnCursors
  <2> QED
    BY <2>1, <2>2
<1>4. Stages'
  BY <1>1 DEF IInv, SInv, Stages, Writer, Of
<1>5. RequestsServed'
  BY <1>1, OwnerAssumption DEF IInv, SInv, RequestsServed, Writer, Of
<1>6. TakenOnce'
  <2>1. \A v \in Writer : pc'[v] = "append" => pc[v] = "append"
    BY <1>1
  <2> QED
    BY <2>1 DEF IInv, SInv, TakenOnce, Of
<1> QED
  BY <1>2, <1>3, <1>4, <1>5, <1>6 DEF SInv

\* The owner goes from one phase to another; when it begins to listen, the
\* event of its start is the first that its pump emits.
LEMMA PhaseKeeps ==
  ASSUME IInv, NEW o \in Owner, NEW p \in Phases, NEW q \in Places,
         up' = [up EXCEPT ![o] = p], Goto(o, q),
         \/ up[o] = "starting" /\ p = "listening" /\ q = "lease" /\ CanWrite(o)'
            /\ \A x \in Owner \ {o} : CanWrite(x) => x \in dead
         \/ /\ q = pc[o] /\ lease' = lease
            /\ \/ up[o] = "off" /\ p = "starting"
               \/ up[o] = "serving" /\ p = "stopping"
               \/ up[o] = "stopping" /\ p = "hurried"
               \/ up[o] = "closing" /\ p = "rushed"
               \/ up[o] \in {"stopping", "hurried"} /\ p \in {"closing", "rushed"}
                  /\ pc[o] = "idle" /\ pump[o] = <<>>
               \/ up[o] \in {"closing", "rushed"} /\ p = "closed",
         cursor' = IF p = "starting" THEN [cursor EXCEPT ![o] = cursor'[o]] ELSE cursor,
         UNCHANGED <<dead, lapsed, log, pump, heard, verb, to, num, frames>>
  PROVE  SInv'
<1>1. /\ up'[o] = p /\ \A x \in Owner \ {o} : up'[x] = up[x]
      /\ pc'[o] = q /\ \A v \in Writer \ {o} : pc'[v] = pc[v]
  BY DEF IInv, TypeOK, Goto, Writer
<1>2. LeaseHeld'
  BY <1>1 DEF IInv, SInv, LeaseHeld, CanWrite
<1>3. FramesHeard' /\ FramesLogged' /\ OwnCursors'
  BY InOrderOfEach DEF IInv, SInv, FramesHeard, OwnCursors
<1>4. Stages'
  BY <1>1 DEF IInv, SInv, Stages, Writer
<1>5. RequestsServed'
  <2>1. \A r \in Request : pc'[r] = pc[r]
    BY <1>1, WhoWrites
  <2>2. p \in {"starting", "listening"} => up[o] \in {"off", "starting"}
    OBVIOUS
  <2>3. p \notin {"starting", "listening"} => p \notin {"off", "starting", "listening"}
    OBVIOUS
  <2>4. UNCHANGED <<verb, to, dead>> /\ RequestsServed
    BY DEF IInv, SInv
  <2> QED
    BY ONLY <1>1, <2>1, <2>2, <2>3, <2>4 DEF RequestsServed
<1>6. CursorAhead'
  <2>1. ASSUME NEW i \in DOMAIN log
        PROVE  /\ up'[log[i].by] # "off" /\ log[i].by \in Owner /\ up[log[i].by] # "off"
               /\ p = "starting" => log[i].by # o
    BY <1>1, LogTyped DEF IInv, SInv, CursorAhead
  <2>2. \A x \in Owner : p # "starting" \/ x # o => cursor'[x] = cursor[x]
    BY DEF IInv, TypeOK
  <2>3. UNCHANGED <<log, dead>> /\ CursorAhead
    BY DEF IInv, SInv
  <2> QED
    BY ONLY <2>1, <2>2, <2>3 DEF CursorAhead
<1>7. TakenOnce'
  <2>1. \A w \in Writer : pc'[w] = "append" => pc[w] = "append"
    BY <1>1
  <2>2. ASSUME NEW w \in Writer, pc[w] = "append"
        PROVE  Of(w) \in Owner /\ cursor'[Of(w)] = cursor[Of(w)]
    <3>1. Of(w) \in Owner /\ up[Of(w)] # "off"
      BY <2>2, WhoWrites
    <3>2. p = "starting" => Of(w) # o
      BY <3>1
    <3> QED
      BY <3>1, <3>2 DEF IInv, TypeOK
  <2>3. UNCHANGED <<log, num, to>> /\ TakenOnce
    BY DEF IInv, SInv
  <2>4. \A w \in Writer : Of(w)' = Of(w)
    BY <2>3 DEF Of
  <2> QED
    BY ONLY <2>1, <2>2, <2>3, <2>4 DEF TakenOnce
<1> QED
  BY <1>2, <1>3, <1>4, <1>5, <1>6, <1>7 DEF SInv

\* The process ends.
LEMMA DieKeeps ==
  ASSUME IInv, NEW o \in Owner, Die(o)
  PROVE  SInv'
<1> DEFINE mine == {r \in Request : to[r] = o}
<1>1. /\ dead' = dead \cup {o} /\ lapsed' = lapsed \ {o}
      /\ UNCHANGED <<lease, log, verb, to>>
  BY DEF Die, Cell!Die, fileVars, askVars
<1>2. /\ up'[o] = "gone" /\ pump'[o] = <<>> /\ heard'[o] = <<>> /\ frames'[o] = 0
      /\ \A x \in Owner \ {o} :
            UNCHANGED <<up[x], cursor[x], pump[x], heard[x], frames[x]>>
  BY DEF Die, IInv, TypeOK
<1>3. /\ \A v \in mine \cup {o} : pc'[v] = "over"
      /\ \A v \in Writer \ (mine \cup {o}) : UNCHANGED <<pc[v], num[v]>>
  BY DEF Die, IInv, TypeOK, Writer
<1>4. LeaseHeld'
  BY <1>1, <1>2 DEF IInv, SInv, LeaseHeld, CanWrite
<1>5. Stages'
  BY <1>1, <1>2, <1>3, OwnerAssumption DEF IInv, SInv, Stages, Writer
<1>6. RequestsServed'
  <2>1. \A r \in Request : /\ to[r] = o => pc'[r] = "over"
                           /\ to[r] # o => pc'[r] = pc[r]
    BY <1>3, WhoWrites
  <2>2. \A x \in Owner : up'[x] \in {"off", "starting", "listening"} => up'[x] = up[x]
    BY <1>2
  <2>3. RequestsServed /\ Nobody # o
    BY WhoWrites DEF IInv, SInv
  <2> QED
    BY ONLY <1>1, <2>1, <2>2, <2>3 DEF RequestsServed
<1>7. FramesHeard'
  <2>1. Waiting(<<>>, <<>>, 0)
    BY DEF Waiting, Rising
  <2> QED
    BY <1>2, <2>1 DEF IInv, SInv, FramesHeard
<1>8. FramesLogged'
  BY <1>1, <1>2, InOrderOfEach DEF IInv, SInv
<1>9. CursorAhead' /\ OwnCursors'
  <2>1. \A i \in DOMAIN log : log[i].by \in Owner
    BY LogTyped DEF IInv
  <2>2. CursorAhead /\ OwnCursors
    BY DEF IInv, SInv
  <2> QED
    BY ONLY <1>1, <1>2, <2>1, <2>2 DEF CursorAhead, OwnCursors
<1>10. TakenOnce'
  <2>1. ASSUME NEW w \in Writer, pc'[w] = "append"
        PROVE  /\ pc[w] = "append" /\ UNCHANGED num[w] /\ Of(w)' = Of(w)
               /\ Of(w) \in Owner \ {o} /\ UNCHANGED cursor[Of(w)]
    <3>1. w \notin mine \cup {o}
      BY <1>3, <2>1
    <3>2. pc[w] = "append" /\ UNCHANGED num[w] /\ Of(w)' = Of(w)
      BY <1>1, <1>3, <2>1, <3>1 DEF Of
    <3>3. Of(w) \in Owner \ {o}
      BY <3>1, <3>2, WhoWrites DEF Writer
    <3> QED
      BY <1>2, <3>2, <3>3
  <2>2. log' = log /\ TakenOnce
    BY <1>1 DEF IInv, SInv
  <2> QED
    BY ONLY <2>1, <2>2 DEF TakenOnce
<1> QED
  BY <1>4, <1>5, <1>6, <1>7, <1>8, <1>9, <1>10 DEF SInv

\* A writer is done with its event: what this does to all but the log.
LEMMA ReturnKeeps ==
  ASSUME IInv, NEW w \in Writer, Return(w), Of(w) \notin dead,
         pc[w] \in {"lease", "append"},
         UNCHANGED <<lease, dead, lapsed, cursor, heard, frames, verb, to>>
  PROVE  LeaseHeld' /\ Stages' /\ RequestsServed' /\ FramesHeard'
<1>1. /\ pc'[w] = IF w \in Owner THEN "idle" ELSE "over"
      /\ \A v \in Writer \ {w} : pc'[v] = pc[v]
  BY DEF Return, Goto, IInv, TypeOK
<1>2. CASE w \in Owner
  <2>1. /\ up'[w] = IF up[w] = "listening" THEN "serving" ELSE up[w]
        /\ pump'[w] = IF pump[w] = <<>> THEN pump[w] ELSE Tail(pump[w])
        /\ \A x \in Owner \ {w} : UNCHANGED <<up[x], pump[x]>>
    BY <1>2 DEF Return, IInv, TypeOK
  <2>2. LeaseHeld'
    BY <1>2, <2>1 DEF IInv, SInv, LeaseHeld, CanWrite
  <2>3. Stages'
    BY <1>1, <1>2, <2>1 DEF IInv, SInv, Stages, Writer, Of
  <2>4. RequestsServed'
    <3>1. \A r \in Request : pc'[r] = pc[r]
      BY <1>1, <1>2, WhoWrites
    <3>2. \A x \in Owner : up'[x] \in {"off", "starting", "listening"} => up'[x] = up[x]
      BY <2>1
    <3>3. RequestsServed /\ UNCHANGED <<verb, to, dead>>
      BY DEF IInv, SInv
    <3> QED
      BY ONLY <3>1, <3>2, <3>3 DEF RequestsServed
  <2>5. Waiting(heard[w], pump'[w], frames[w])
    <3>1. /\ heard[w] \in Seq(Nat) /\ pump[w] \in Seq(Nat \X BOOLEAN) /\ frames[w] \in Nat
          /\ Waiting(heard[w], pump[w], frames[w])
      BY <1>2, FramesTyped DEF IInv, SInv, FramesHeard
    <3> QED
      BY ONLY <2>1, <3>1, FrameLeaves
  <2>6. FramesHeard'
    BY <1>2, <2>1, <2>5 DEF IInv, SInv, FramesHeard
  <2> QED
    BY <2>2, <2>3, <2>4, <2>6
<1>3. CASE w \notin Owner
  <2>1. w \in Request /\ to[w] \in Owner /\ to[w] \notin dead
    BY <1>3 DEF Of, Writer, IInv, SInv, RequestsServed
  <2>2. /\ \/ up'[to[w]] = up[to[w]]
           \/ up[to[w]] = "serving" /\ up'[to[w]] = "stopping"
           \/ up[to[w]] = "stopping" /\ up'[to[w]] = "hurried"
           \/ up[to[w]] = "closing" /\ up'[to[w]] = "rushed"
        /\ \A x \in Owner \ {to[w]} : UNCHANGED up[x]
        /\ UNCHANGED pump
    BY <1>3, <2>1, StopCalls DEF Return, IInv, TypeOK
  <2>3. LeaseHeld'
    BY <2>1, <2>2 DEF IInv, SInv, LeaseHeld, CanWrite
  <2>4. Stages'
    BY <1>1, <1>3, <2>1, <2>2 DEF IInv, SInv, Stages, Writer
  <2>5. RequestsServed'
    BY <1>1, <1>3, <2>1, <2>2, OwnerAssumption, ZenonT(60) DEF IInv, SInv, RequestsServed, Writer
  <2>6. FramesHeard'
    BY <2>2 DEF IInv, SInv, FramesHeard
  <2> QED
    BY <2>3, <2>4, <2>5, <2>6
<1> QED
  BY <1>2, <1>3

\* The subprocess sends a frame.
LEMMA FrameKeeps ==
  ASSUME IInv, NEW o \in Owner, NEW done \in BOOLEAN, Frame(o, done),
         UNCHANGED <<lease, dead, lapsed, log, up, cursor, verb, to, pc, num>>
  PROVE  SInv'
<1>1. LeaseHeld' /\ RequestsServed'
  BY DEF IInv, SInv, LeaseHeld, CanWrite, RequestsServed
<1>2. CursorAhead' /\ OwnCursors'
  BY DEF IInv, SInv, CursorAhead, OwnCursors
<1>3. TakenOnce'
  BY DEF IInv, SInv, TakenOnce, Of
<1> DEFINE h1 == Append(heard[o], frames[o] + 1) p1 == Append(pump[o], <<frames[o] + 1, done>>)
<1>4. TypeOK /\ FramesHeard /\ FramesLogged /\ Stages
  BY DEF IInv, SInv
<1>5. /\ pump \in [Owner -> Seq(Nat \X BOOLEAN)] /\ heard \in [Owner -> Seq(Nat)]
      /\ frames \in [Owner -> Nat]
  BY <1>4 DEF TypeOK
<1>6. Waiting(heard[o], pump[o], frames[o])
  BY <1>4 DEF FramesHeard
<1>7. Waiting(h1, p1, frames[o] + 1) /\ Passed(h1, p1) = Passed(heard[o], pump[o])
  <2> HIDE DEF h1, p1
  <2>1. heard[o] \in Seq(Nat) /\ pump[o] \in Seq(Nat \X BOOLEAN) /\ frames[o] \in Nat
    BY <1>5
  <2> QED
    BY <1>6, <2>1, FrameArrives DEF h1, p1
<1>8. /\ frames' = [frames EXCEPT ![o] = frames[o] + 1]
      /\ \/ up[o] = "serving" /\ heard' = [heard EXCEPT ![o] = h1] /\ pump' = [pump EXCEPT ![o] = p1]
         \/ UNCHANGED <<pump, heard>>
  BY Zenon DEF Frame
<1> HIDE DEF h1, p1
<1>9. \A x \in Owner \ {o} : UNCHANGED <<heard[x], pump[x], frames[x]>>
  BY <1>5, <1>8
<1>10. frames'[o] = frames[o] + 1 /\ frames[o] \in Nat
  BY <1>5, <1>8
<1>11. CASE up[o] = "serving" /\ heard' = [heard EXCEPT ![o] = h1] /\ pump' = [pump EXCEPT ![o] = p1]
  <2>1. heard'[o] = h1 /\ pump'[o] = p1
    BY <1>5, <1>11
  <2>2. FramesHeard'
    BY <1>4, <1>7, <1>9, <1>10, <2>1 DEF FramesHeard
  <2>3. \A x \in Owner : Passed(heard[x], pump[x])' = Passed(heard[x], pump[x])
    BY <1>7, <1>9, <2>1
  <2>4. FramesLogged'
    <3>1. ASSUME NEW x \in Owner \ (lapsed \cup dead)
          PROVE  InOrder(log, x, heard'[x], pump'[x])
      <4>1. InOrder(log, x, heard[x], pump[x])
        BY <1>4, InOrderOfEach
      <4>2. Rising(heard'[x])
        BY <2>2 DEF FramesHeard, Waiting
      <4> QED
        BY <2>3, <4>1, <4>2 DEF InOrder
    <3> QED
      BY <3>1, InOrderOfEach
  <2>5. Stages'
    BY <1>4, <1>9, <1>11 DEF Stages
  <2> QED
    BY <1>1, <1>2, <1>3, <2>2, <2>4, <2>5 DEF SInv
<1>12. CASE UNCHANGED <<pump, heard>>
  <2>1. Waiting(heard[o], pump[o], frames[o] + 1)
    <3>1. heard[o] \in Seq(Nat) /\ frames[o] \in Nat
      BY <1>5
    <3>2. \A i \in DOMAIN heard[o] : heard[o][i] \in Nat
      BY ONLY <3>1
    <3>3. \A i \in DOMAIN heard[o] : heard[o][i] > 0 /\ heard[o][i] <= frames[o] + 1
      BY ONLY <1>6, <3>1, <3>2 DEF Waiting
    <3> QED
      BY ONLY <1>6, <3>3 DEF Waiting
  <2>2. FramesHeard'
    BY <1>4, <1>9, <1>10, <1>12, <2>1 DEF FramesHeard
  <2>3. FramesLogged'
    BY <1>4, <1>12, InOrderOfEach
  <2>4. Stages'
    BY <1>4, <1>12 DEF Stages
  <2> QED
    BY <1>1, <1>2, <1>3, <2>2, <2>3, <2>4 DEF SInv
<1> QED
  BY <1>8, <1>11, <1>12
-----------------------------------------------------------------------------
(* The actions.                                                            *)

(* Time, the reaper, heartbeats and releases keep the invariant. *)
LEMMA LeaseSteps ==
  ASSUME IInv, NEW o \in Owner,
         Expire \/ Reap \/ Heartbeat(o) \/ Release(o)
  PROVE  SInv'
<1> USE DEF faults, leaseVars, fileVars, ownerVars, askVars, jobVars, childVars
<1>1. UNCHANGED <<dead, log, cursor, pump, heard, verb, to, pc, num, frames>>
  BY DEF Expire, Reap, Heartbeat, Release,
         Cell!Expire, Cell!Reap, Cell!Heartbeat, Cell!Release
<1>2. /\ lapsed \subseteq lapsed'
      /\ \/ UNCHANGED up
         \/ up[o] = "closed" /\ up' = [up EXCEPT ![o] = "released"]
  BY DEF Expire, Reap, Heartbeat, Release
<1>3. \A x \in Owner \ (lapsed' \cup dead) :
         CanWrite(x) /\ up[x] \in {"listening", "serving", "stopping", "hurried"} => CanWrite(x)'
  <2>1. CASE Expire
    BY <2>1 DEF Expire, Cell!Expire, CanWrite
  <2>2. CASE Reap
    BY <2>2 DEF Reap, Cell!Reap, CanWrite
  <2>3. CASE Heartbeat(o)
    BY <2>3, NoLeaseAssumption DEF Heartbeat, Cell!Heartbeat, Cell!Lease, CanWrite, IInv, TypeOK
  <2>4. CASE Release(o)
    BY <2>4 DEF Release, Cell!Release, CanWrite
  <2> QED
    BY <2>1, <2>2, <2>3, <2>4
<1>4. /\ \A x \in Owner \ {o} : up'[x] = up[x]
      /\ up'[o] = up[o] \/ (up[o] = "closed" /\ up'[o] = "released")
  BY <1>2 DEF IInv, TypeOK
<1>5. LeaseHeld'
  BY <1>1, <1>2, <1>3, <1>4 DEF IInv, SInv, LeaseHeld
<1>6. Stages' /\ RequestsServed'
  BY <1>1, <1>4 DEF IInv, SInv, Stages, RequestsServed
<1>7. FramesHeard' /\ FramesLogged'
  BY <1>1, <1>2, InOrderOfEach DEF IInv, SInv, FramesHeard
<1>8. CursorAhead' /\ OwnCursors'
  <2>1. \A i \in DOMAIN log : log[i].by \in Owner
    BY LogTyped DEF IInv
  <2> QED
    BY <1>1, <1>4, <2>1 DEF IInv, SInv, CursorAhead, OwnCursors
<1>9. TakenOnce'
  BY <1>1 DEF IInv, SInv, TakenOnce, Of
<1> QED
  BY <1>5, <1>6, <1>7, <1>8, <1>9 DEF SInv

(* So do start and stop. *)
LEMMA OwnerSteps ==
  ASSUME IInv, NEW o \in Owner,
         ReadLog(o) \/ Acquire(o) \/ StopBegins(o) \/ Close(o) \/ Shut(o)
  PROVE  SInv'
<1> USE DEF faults, leaseVars, fileVars, askVars, jobVars, childVars, Goto
<1>1. TypeOK /\ Stages /\ LeaseHeld
  BY DEF IInv, SInv
<1>2. ASSUME UNCHANGED pc
      PROVE  Goto(o, pc[o]) /\ pc[o] \in Places
  BY <1>1, <1>2 DEF TypeOK, Writer
<1>3. CASE ReadLog(o)
  <2>1. cursor' = [cursor EXCEPT ![o] = cursor'[o]]
    BY <1>1, <1>3 DEF ReadLog, TypeOK
  <2>2. /\ up' = [up EXCEPT ![o] = "starting"] /\ up[o] = "off" /\ "starting" \in Phases
        /\ UNCHANGED <<lease, dead, lapsed, log, pump, heard, verb, to, pc, num, frames>>
    BY <1>3 DEF ReadLog, Phases
  <2> QED
    BY <1>2, <2>1, <2>2, PhaseKeeps
<1>4. CASE Acquire(o)
  <2>1. CanWrite(o)' /\ \A x \in Owner \ {o} : CanWrite(x) => x \in dead
    <3>1. Cell!Acquire(o)
      BY <1>4 DEF Acquire
    <3>2. lease \in [owner : Owner, epoch : Nat \ {0}, expired : BOOLEAN] \cup {NoLease}
      BY <1>1 DEF TypeOK
    <3>3. PICK e \in Nat \ {0} : lease' = [owner |-> o, epoch |-> e, expired |-> FALSE]
      BY ONLY <3>1, <3>2 DEF Cell!Acquire, Cell!Lease
    <3>4. lease' # NoLease /\ lease'.owner = o /\ lease'.expired = FALSE
      <4>1. lease' \in [owner : Owner, epoch : Nat \ {0}, expired : BOOLEAN]
        BY <3>3
      <4>2. lease' # NoLease
        BY ONLY <4>1, NoLeaseAssumption
      <4> QED
        BY ONLY <3>3, <4>2
    <3>5. \A x \in Owner \ {o} : lease # NoLease /\ lease.owner = x => x \in dead
      BY ONLY <3>1 DEF Cell!Acquire
    <3> QED
      BY <3>4, <3>5 DEF CanWrite
  <2>2. /\ up' = [up EXCEPT ![o] = "listening"] /\ up[o] = "starting"
        /\ Goto(o, "lease") /\ "listening" \in Phases /\ "lease" \in Places
        /\ UNCHANGED <<dead, lapsed, log, cursor, pump, heard, verb, to, num, frames>>
    BY <1>4 DEF Acquire, Cell!Acquire, Phases, Places
  <2> QED
    BY <2>1, <2>2, PhaseKeeps
<1>5. CASE StopBegins(o)
  <2>1. UNCHANGED <<lease, dead, lapsed, log, cursor, pump, heard, verb, to, pc, num, frames>>
    BY <1>5 DEF StopBegins
  <2>2. PICK p \in Phases :
           /\ up' = [up EXCEPT ![o] = p]
           /\ \/ up[o] = "serving" /\ p = "stopping"
              \/ up[o] = "stopping" /\ p = "hurried"
              \/ up[o] = "closing" /\ p = "rushed"
    BY <1>5, StopCalls DEF StopBegins, Phases
  <2> QED
    BY <1>2, <2>1, <2>2, PhaseKeeps
<1>6. CASE Close(o)
  <2>1. pc[o] = "idle" /\ pump[o] = <<>> /\ UNCHANGED <<lease, dead, lapsed, log, cursor, pump, heard, verb, to, pc, num, frames>>
    BY <1>6 DEF Close
  <2>2. PICK p \in Phases : /\ up' = [up EXCEPT ![o] = p]
                            /\ up[o] \in {"stopping", "hurried"} /\ p \in {"closing", "rushed"}
    BY <1>6 DEF Close, Phases
  <2> QED
    BY <1>2, <2>1, <2>2, PhaseKeeps
<1>7. CASE Shut(o)
  <2>1. /\ up' = [up EXCEPT ![o] = "closed"] /\ up[o] \in {"closing", "rushed"}
        /\ "closed" \in Phases
        /\ UNCHANGED <<lease, dead, lapsed, log, cursor, pump, heard, verb, to, pc, num, frames>>
    BY <1>7 DEF Shut, Phases
  <2> QED
    BY <1>2, <2>1, PhaseKeeps
<1> QED
  BY <1>3, <1>4, <1>5, <1>6, <1>7

(* So does a request that arrives. *)
LEMMA ArriveKeeps ==
  ASSUME IInv, NEW r \in Request, NEW v \in Verbs, NEW o \in Owner, Arrive(r, v, o)
  PROVE  SInv'
<1> USE DEF faults, leaseVars, fileVars, ownerVars, askVars, childVars
<1>1. /\ verb[r] = "none" /\ pc[r] = "none" /\ o \notin dead
      /\ up[o] \in {"serving", "stopping", "hurried"}
      /\ UNCHANGED <<lease, dead, lapsed, log, up, cursor, pump, heard, num, frames>>
  BY DEF Arrive, IInv, SInv, Stages, RequestsServed
<1>2. /\ verb'[r] = v /\ to'[r] = o /\ pc'[r] \in {"save", "state", "over", "unsent"}
      /\ \A q \in Request \ {r} : UNCHANGED <<verb[q], to[q], pc[q]>>
      /\ \A x \in Writer \ {r} : pc'[x] = pc[x]
  <2>1. r \in Writer /\ r \notin Owner
    BY WhoWrites
  <2>2. pc'[r] \in {"save", "state", "over", "unsent"} /\ \A x \in Writer \ {r} : pc'[x] = pc[x]
    BY <2>1 DEF Arrive, Goto, IInv, TypeOK
  <2>3. verb' = [verb EXCEPT ![r] = v] /\ to' = [to EXCEPT ![r] = o]
    BY DEF Arrive
  <2>4. verb \in [Request -> Verbs \cup {"none"}] /\ to \in [Request -> Owner \cup {Nobody}]
    BY DEF IInv, TypeOK
  <2>5. \A q \in Request : q \in Writer
    BY WhoWrites
  <2> QED
    BY <2>2, <2>3, <2>4, <2>5
<1>3. LeaseHeld' /\ FramesHeard' /\ FramesLogged' /\ CursorAhead' /\ OwnCursors'
  BY <1>1, InOrderOfEach DEF IInv, SInv, LeaseHeld, CanWrite, FramesHeard, CursorAhead, OwnCursors
<1>4. Stages'
  BY <1>1, <1>2, WhoWrites DEF IInv, SInv, Stages
<1>5. RequestsServed'
  BY <1>1, <1>2 DEF IInv, SInv, RequestsServed, Verbs
<1>6. TakenOnce'
  <2>1. ASSUME NEW w \in Writer, pc'[w] = "append"
        PROVE  pc[w] = "append" /\ Of(w)' = Of(w)
    BY <1>2, <2>1, WhoWrites DEF Of, Writer
  <2>2. TakenOnce
    BY DEF IInv, SInv
  <2> QED
    BY ONLY <1>1, <2>1, <2>2 DEF TakenOnce
<1> QED
  BY <1>3, <1>4, <1>5, <1>6 DEF SInv

(* So does a handler outside of #emit. *)
LEMMA HandlerKeeps ==
  ASSUME IInv, NEW r \in Request, Handle(r)
  PROVE  SInv'
<1> USE DEF faults, leaseVars, fileVars, ownerVars, askVars, childVars
<1>1. r \in Writer /\ r \notin Owner /\ Of(r) = to[r]
  BY WhoWrites
<1>2. PICK q \in Places \ {"none", "append"} : Goto(r, q)
  <2>1. {"lease", "send", "wait", "save", "over"} \subseteq Places \ {"none", "append"}
    BY DEF Places
  <2> QED
    BY <2>1 DEF Handle, Save, GetState, Send, Accept, Timeout, Step
<1>3. pc[r] # "none" /\ Of(r) \notin dead
  BY DEF Handle, Save, GetState, Send, Accept, Timeout, Step, At
<1>4. UNCHANGED <<lease, dead, lapsed, log, up, cursor, pump, heard, verb, to, num>>
  BY DEF Handle, Save, GetState, Send, Accept, Timeout, Step
<1>5. UNCHANGED frames
  BY DEF Handle, Save, GetState, Send, Accept, Timeout
<1> QED
  BY <1>1, <1>2, <1>3, <1>4, <1>5, MoveKeeps

(* So does the pump outside of #emit. *)
LEMMA PumpKeeps ==
  ASSUME IInv, NEW o \in Owner, Pump(o)
  PROVE  SInv'
<1> USE DEF faults, leaseVars, fileVars, ownerVars, askVars, childVars
<1>1. o \in Writer /\ Of(o) = o /\ Stages
  BY WhoWrites DEF IInv, SInv
<1>2. \E q \in {"read", "mark", "lease"} : Goto(o, q)
  BY DEF Pump, NextFrame, ReadState, MarkFinalizing, Step
<1>3. pc[o] # "none" /\ o \notin dead /\ up[o] \in {"serving", "stopping", "hurried"}
  <2>1. CASE NextFrame(o)
    BY <1>1, <2>1 DEF NextFrame, Step, At, Stages
  <2>2. CASE ReadState(o) \/ MarkFinalizing(o)
    <3>1. pc[o] \in {"read", "mark"} /\ o \notin dead
      BY <1>1, <2>2 DEF ReadState, MarkFinalizing, Step, At
    <3>2. up[o] \in Phases
      BY DEF IInv, TypeOK
    <3> QED
      BY <1>1, <3>1, <3>2 DEF Stages, Phases
  <2> QED
    BY <2>1, <2>2 DEF Pump
<1>4. UNCHANGED <<lease, dead, lapsed, log, up, cursor, pump, heard, verb, to, num, frames>>
  BY DEF Pump, NextFrame, ReadState, MarkFinalizing, Step
<1>5. {"read", "mark", "lease"} \subseteq Places \ {"none", "append"}
  BY DEF Places
<1> QED
  BY <1>1, <1>2, <1>3, <1>4, <1>5, MoveKeeps

(* So does the subprocess, whose frames are heard in order. *)
LEMMA ChildKeeps ==
  ASSUME IInv, NEW o \in Owner, Child(o) \/ ChildDies(o)
  PROVE  SInv'
<1> USE DEF faults, leaseVars, fileVars, ownerVars, askVars, jobVars, childVars
<1>1. CASE Complete(o)
  BY <1>1, FrameKeeps DEF Complete
<1>2. ASSUME NEW r \in Request, Begin(o, r)
      PROVE  SInv'
  BY <1>2, FrameKeeps DEF Begin
<1>3. ASSUME UNCHANGED <<lease, dead, lapsed, log, up, cursor, pump, heard, verb, to, pc, num, frames>>
      PROVE  SInv'
  <2>1. LeaseHeld' /\ FramesHeard' /\ FramesLogged' /\ CursorAhead' /\ OwnCursors'
    BY <1>3, InOrderOfEach DEF IInv, SInv, LeaseHeld, CanWrite, FramesHeard, CursorAhead, OwnCursors
  <2>2. Stages' /\ RequestsServed' /\ TakenOnce'
    BY <1>3 DEF IInv, SInv, Stages, RequestsServed, TakenOnce, Of
  <2> QED
    BY <2>1, <2>2 DEF SInv
<1>4. ASSUME NEW r \in Request, Drop(o, r)
      PROVE  SInv'
  BY <1>3, <1>4 DEF Drop
<1>5. CASE ChildDies(o)
  BY <1>3, <1>5 DEF ChildDies
<1> QED
  BY <1>1, <1>2, <1>4, <1>5 DEF Child

(* So does #emit up to the check of the lease, *)
LEMMA CheckLeaseKeeps ==
  ASSUME IInv, NEW w \in Writer, CheckLease(w)
  PROVE  SInv'
<1> USE DEF leaseVars, faults, fileVars, askVars, childVars
<1>1. /\ pc[w] = "lease" /\ Of(w) \notin dead /\ Of(w) \in Owner
      /\ up[Of(w)] \notin {"off", "starting"}
      /\ UNCHANGED <<lease, dead, lapsed, log, cursor, heard, frames, verb, to>>
  BY WhoWrites DEF CheckLease, At
<1>2. CASE CanWrite(Of(w))
  <2>1. "view" \in Places \ {"none", "append"}
    BY DEF Places
  <2>2. Goto(w, "view") /\ UNCHANGED <<up, pump, num>>
    BY <1>2 DEF CheckLease
  <2> QED
    BY <1>1, <2>1, <2>2, MoveKeeps
<1>3. CASE ~CanWrite(Of(w))
  <2>1. Return(w)
    BY <1>3 DEF CheckLease
  <2>2. LeaseHeld' /\ Stages' /\ RequestsServed' /\ FramesHeard'
    BY <1>1, <2>1, ReturnKeeps
  <2>3. \A x \in Owner : x # w => pump'[x] = pump[x]
    BY <2>1 DEF Return, IInv, TypeOK
  <2>4. w \in Owner => w \in lapsed \/ pump[w] = <<>>
    <3> SUFFICES ASSUME w \in Owner, w \notin lapsed, pump[w] # <<>>
                 PROVE  FALSE
      OBVIOUS
    <3>1. Of(w) = w /\ up[w] \in {"serving", "stopping", "hurried"}
      BY WhoWrites DEF IInv, SInv, Stages
    <3> QED
      BY <1>1, <1>3, <3>1 DEF IInv, SInv, LeaseHeld
  <2>5. FramesLogged'
    <3>1. w \in Owner /\ pump[w] = <<>> => pump'[w] = pump[w]
      BY <2>1 DEF Return, IInv, TypeOK
    <3>2. \A x \in Owner \ (lapsed \cup dead) : UNCHANGED <<heard[x], pump[x]>>
      BY <1>1, <2>3, <2>4, <3>1
    <3>3. FramesLogged
      BY DEF IInv, SInv
    <3> QED
      BY ONLY <1>1, <3>2, <3>3, InOrderOfEach
  <2>6. CursorAhead'
    <3>1. \A x \in Owner : up'[x] = "off" => up[x] = "off"
      BY <2>1, ReturnShutsNone DEF IInv
    <3>2. \A i \in DOMAIN log : log[i].by \in Owner
      BY LogTyped DEF IInv
    <3>3. CursorAhead
      BY DEF IInv, SInv
    <3> QED
      BY ONLY <1>1, <3>1, <3>2, <3>3 DEF CursorAhead
  <2>7. TakenOnce'
    <3>1. \A v \in Writer : pc'[v] = "append" => pc[v] = "append" /\ num'[v] = num[v]
      BY <1>1, <2>1 DEF Return, Forget, Goto, IInv, TypeOK
    <3>2. TakenOnce /\ \A v \in Writer : Of(v)' = Of(v)
      BY <1>1 DEF IInv, SInv, Of
    <3> QED
      BY ONLY <1>1, <3>1, <3>2 DEF TakenOnce
  <2>8. OwnCursors'
    BY <1>1 DEF IInv, SInv, OwnCursors
  <2> QED
    BY <2>2, <2>5, <2>6, <2>7, <2>8 DEF SInv
<1> QED
  BY <1>2, <1>3

(* where it takes a cursor, *)
LEMMA TakeCursorKeeps ==
  ASSUME IInv, NEW w \in Writer, TakeCursor(w)
  PROVE  SInv'
<1> USE DEF leaseVars, faults, fileVars, askVars, childVars
<1> DEFINE o == Of(w)
<1>1. /\ pc[w] = "view" /\ o \notin dead /\ o \in Owner
      /\ UNCHANGED <<lease, dead, lapsed, log, up, pump, heard, frames, verb, to>>
  BY WhoWrites DEF TakeCursor, At
<1> HIDE DEF o
<1>2. /\ cursor[o] \in Nat /\ cursor'[o] = cursor[o] + 1 /\ num'[w] = cursor[o] + 1
      /\ \A x \in Owner \ {o} : cursor'[x] = cursor[x] /\ cursor[x] \in Nat
      /\ \A v \in Writer \ {w} : num'[v] = num[v] /\ num[v] \in Nat /\ pc'[v] = pc[v]
      /\ pc'[w] = "append"
  BY <1>1 DEF TakeCursor, Goto, IInv, TypeOK, o
<1>3. LeaseHeld' /\ FramesHeard' /\ FramesLogged' /\ OwnCursors'
  BY <1>1, InOrderOfEach DEF IInv, SInv, LeaseHeld, CanWrite, FramesHeard, OwnCursors
<1>4. Stages'
  BY <1>1, <1>2 DEF IInv, SInv, Stages, Writer
<1>5. RequestsServed'
  BY <1>1, <1>2 DEF IInv, SInv, RequestsServed, Writer, Of, o
<1>6. CursorAhead'
  <2>1. \A i \in DOMAIN log : log[i].by \in Owner /\ log[i].cursor \in Nat
    BY LogTyped DEF IInv
  <2>2. CursorAhead
    BY DEF IInv, SInv
  <2> QED
    BY ONLY <1>1, <1>2, <2>1, <2>2 DEF CursorAhead
<1>7. TakenOnce'
  <2>1. /\ TakenOnce /\ CursorAhead
        /\ \A v \in Writer : Of(v)' = Of(v)
    BY <1>1 DEF IInv, SInv, Of
  <2>2. \A i \in DOMAIN log : log[i].by \in Owner /\ log[i].cursor \in Nat
    BY LogTyped DEF IInv
  <2>3. \A i \in DOMAIN log : log[i].by = o => log[i].cursor # cursor[o] + 1
    BY ONLY <1>1, <1>2, <2>1, <2>2 DEF CursorAhead
  <2>4. \A v \in Writer \ {w} : pc'[v] = "append" /\ Of(v) = o => num[v] # cursor[o] + 1
    BY ONLY <1>1, <1>2, <2>1 DEF TakenOnce
  <2>5. ASSUME NEW v \in Writer, pc'[v] = "append"
        PROVE  /\ Of(v) \in Owner /\ num'[v] <= cursor'[Of(v)]
               /\ \A i \in DOMAIN log : log[i].by = Of(v) => log[i].cursor # num'[v]
               /\ \A u \in Writer \ {v} : pc'[u] = "append" /\ Of(u) = Of(v) => num'[u] # num'[v]
    <3>1. CASE v = w
      BY <1>1, <1>2, <2>3, <2>4, <3>1 DEF o
    <3>2. CASE v # w
      <4>1. /\ pc[v] = "append" /\ num'[v] = num[v] /\ Of(v) \in Owner
            /\ num[v] \in Nat /\ num[v] <= cursor[Of(v)]
            /\ \A i \in DOMAIN log : log[i].by = Of(v) => log[i].cursor # num[v]
            /\ \A u \in Writer \ {v} : pc[u] = "append" /\ Of(u) = Of(v) => num[u] # num[v]
        BY <1>2, <2>1, <2>5, <3>2 DEF TakenOnce
      <4>2. num[v] <= cursor'[Of(v)]
        BY <1>2, <4>1
      <4>3. Of(v) = o => cursor[o] + 1 # num[v]
        BY <2>4, <2>5, <3>2
      <4> QED
        BY <1>2, <4>1, <4>2, <4>3 DEF o
    <3> QED
      BY <3>1, <3>2
  <2> QED
    BY <1>1, <2>1, <2>5 DEF TakenOnce
<1> QED
  BY <1>3, <1>4, <1>5, <1>6, <1>7 DEF SInv

(* and where it appends its event. *)
LEMMA AppendEventKeeps ==
  ASSUME IInv, NEW w \in Writer, AppendEvent(w)
  PROVE  SInv'
<1> USE DEF leaseVars, askVars, childVars
<1> DEFINE o == Of(w)
           f == IF w \in Owner /\ pump[w] # <<>> THEN pump[w][1][1] ELSE 0
           e == [by |-> o, cursor |-> num[w], frame |-> f]
           n == Len(log) + 1
<1>1. /\ pc[w] = "append" /\ o \notin dead /\ o \in Owner /\ up[o] # "off"
      /\ UNCHANGED <<lease, dead, lapsed, cursor, heard, frames, verb, to>>
      /\ log' = Append(log, e) /\ Return(w)
  <2>1. pc[w] = "append" /\ o \notin dead /\ Return(w)
        /\ UNCHANGED <<lease, dead, lapsed, cursor, heard, frames, verb, to>>
    BY DEF AppendEvent, At, faults
  <2>2. log' = Append(log, e)
    BY Zenon DEF AppendEvent
  <2>3. o \in Owner /\ up[o] # "off"
    BY <2>1, WhoWrites
  <2> QED
    BY <2>1, <2>2, <2>3
<1>2. LeaseHeld' /\ Stages' /\ RequestsServed' /\ FramesHeard'
  BY <1>1, ReturnKeeps
<1>3. /\ n \in Nat /\ DOMAIN log' = DOMAIN log \cup {n} /\ n \notin DOMAIN log
      /\ log'[n] = e /\ \A i \in DOMAIN log : log'[i] = log[i] /\ i \in Nat /\ i < n
  <2>1. log \in Seq([by : Owner, cursor : Nat, frame : Nat])
    BY DEF IInv, TypeOK
  <2> HIDE DEF e
  <2>2. /\ Len(log) \in Nat /\ DOMAIN log = 1 .. Len(log)
        /\ DOMAIN log' = 1 .. n /\ log'[n] = e
        /\ \A i \in 1 .. Len(log) : log'[i] = log[i]
    BY <1>1, <2>1
  <2> QED
    BY <2>2
<1>4. e.by = o /\ e.cursor = num[w] /\ e.frame = f
  OBVIOUS
<1> HIDE DEF e, n
<1>5. \A i \in DOMAIN log : log[i].by \in Owner /\ log[i].cursor \in Nat /\ log[i].frame \in Nat
  BY LogTyped DEF IInv
<1>6. /\ TakenOnce /\ CursorAhead /\ OwnCursors /\ FramesLogged /\ FramesHeard
      /\ \A v \in Writer : Of(v)' = Of(v)
  BY <1>1 DEF IInv, SInv, Of
<1>7. /\ pc'[w] # "append" /\ \A v \in Writer \ {w} : pc'[v] = pc[v] /\ num'[v] = num[v]
      /\ \A x \in Owner : up'[x] = "off" => up[x] = "off"
      /\ \A x \in Owner \ {w} : pump'[x] = pump[x]
  <2>1. \A x \in Owner : up'[x] = "off" => up[x] = "off"
    BY <1>1, ReturnShutsNone DEF IInv
  <2>2. \A x \in Owner \ {w} : pump'[x] = pump[x]
    BY <1>1 DEF Return, IInv, TypeOK
  <2>3. pc'[w] # "append" /\ \A v \in Writer \ {w} : pc'[v] = pc[v] /\ num'[v] = num[v]
    BY <1>1, ZenonT(60) DEF Return, Forget, Goto, IInv, TypeOK
  <2> QED
    BY <2>1, <2>2, <2>3
<1>8. /\ num[w] <= cursor[o]
      /\ \A i \in DOMAIN log : log[i].by = o => log[i].cursor # num[w]
      /\ \A v \in Writer \ {w} : pc[v] = "append" /\ Of(v) = o => num[v] # num[w]
  BY <1>1, <1>6 DEF TakenOnce
<1> HIDE DEF o
<1>9. OwnCursors'
  BY ONLY <1>3, <1>4, <1>6, <1>8 DEF OwnCursors
<1>10. CursorAhead'
  BY ONLY <1>1, <1>3, <1>4, <1>5, <1>6, <1>7, <1>8 DEF CursorAhead
<1>11. TakenOnce'
  <2>1. ASSUME NEW v \in Writer, pc'[v] = "append"
        PROVE  /\ Of(v) \in Owner /\ num'[v] <= cursor'[Of(v)]
               /\ \A i \in DOMAIN log' : log'[i].by = Of(v) => log'[i].cursor # num'[v]
               /\ \A u \in Writer \ {v} : pc'[u] = "append" /\ Of(u) = Of(v) => num'[u] # num'[v]
    <3>1. v # w /\ pc[v] = "append" /\ num'[v] = num[v]
      BY <1>7, <2>1
    <3>2. /\ Of(v) \in Owner /\ num[v] <= cursor[Of(v)]
          /\ \A i \in DOMAIN log : log[i].by = Of(v) => log[i].cursor # num[v]
          /\ \A u \in Writer \ {v} : pc[u] = "append" /\ Of(u) = Of(v) => num[u] # num[v]
      BY <1>6, <3>1 DEF TakenOnce
    <3>3. Of(v) = o => num[w] # num[v]
      BY <1>8, <3>1
    <3> QED
      BY <1>1, <1>3, <1>4, <1>7, <3>1, <3>2, <3>3
  <2> QED
    BY <1>6, <2>1 DEF TakenOnce
<1>12. FramesLogged'
  <2> SUFFICES ASSUME NEW x \in Owner \ (lapsed \cup dead)
               PROVE  InOrder(log', x, heard[x], pump'[x])
    BY <1>1, InOrderOfEach
  <2>1. InOrder(log, x, heard[x], pump[x])
    BY <1>6, InOrderOfEach
  <2>2. CASE x = w /\ pump[w] # <<>>
    <3>1. /\ heard[x] \in Seq(Nat) /\ pump[x] \in Seq(Nat \X BOOLEAN) /\ frames[x] \in Nat
          /\ Waiting(heard[x], pump[x], frames[x])
      BY <1>6, FramesTyped DEF IInv, FramesHeard
    <3>2. x = o /\ f = pump[x][1][1] /\ pump'[x] = Tail(pump[x])
      <4>1. x = o
        BY <2>2, WhoWrites DEF o
      <4>2. pump'[x] = Tail(pump[x])
        BY <1>1, <2>2 DEF Return, IInv, TypeOK
      <4> QED
        BY <2>2, <4>1, <4>2
    <3> HIDE DEF f
    <3>3. /\ f \in Nat /\ f > 0 /\ Passed(heard[x], pump'[x]) = Passed(heard[x], pump[x]) \cup {f}
          /\ \A g \in Passed(heard[x], pump[x]) : g < f
      BY ONLY <2>2, <3>1, <3>2, FrameLeaves
    <3>4. FramesOf(log', x) = FramesOf(log, x) \cup {n}
      BY ONLY <1>3, <1>4, <3>2, <3>3 DEF FramesOf
    <3>5. /\ FramesOf(log, x) \subseteq DOMAIN log
          /\ \A i \in FramesOf(log, x) : log'[i].frame = log[i].frame /\ i < n
          /\ log'[n].frame = f
      BY ONLY <1>3, <1>4 DEF FramesOf
    <3>6. \A i \in FramesOf(log, x) : log[i].frame < f
      BY ONLY <2>1, <3>3 DEF InOrder
    <3>7. \A i, j \in FramesOf(log', x) : i < j => log'[i].frame < log'[j].frame
      <4>1. \A i \in FramesOf(log, x) : i \in Nat /\ i < n /\ n \in Nat
        BY ONLY <1>3, <3>5
      <4>2. ~(n < n) /\ \A i \in FramesOf(log, x) : ~(n < i)
        BY ONLY <1>3, <4>1
      <4>3. \A i, j \in FramesOf(log, x) : i < j => log'[i].frame < log'[j].frame
        BY ONLY <2>1, <3>5 DEF InOrder
      <4>4. \A i \in FramesOf(log, x) : log'[i].frame < log'[n].frame
        BY ONLY <3>5, <3>6
      <4> SUFFICES ASSUME NEW i \in FramesOf(log, x) \cup {n}, NEW j \in FramesOf(log, x) \cup {n},
                          i < j
                   PROVE  log'[i].frame < log'[j].frame
        BY <3>4
      <4>5. CASE i \in FramesOf(log, x) /\ j \in FramesOf(log, x)
        BY <4>3, <4>5
      <4>6. CASE i \in FramesOf(log, x) /\ j = n
        BY <4>4, <4>6
      <4>7. i # n
        <5>1. j \in FramesOf(log, x) \cup {n} /\ i < j
          OBVIOUS
        <5> QED
          BY ONLY <4>2, <5>1, Zenon
      <4> QED
        BY <4>5, <4>6, <4>7
    <3>8. {log'[i].frame : i \in FramesOf(log', x)} = Passed(heard[x], pump'[x])
      BY ONLY <2>1, <3>3, <3>4, <3>5 DEF InOrder
    <3> QED
      BY ONLY <2>1, <3>7, <3>8 DEF InOrder
  <2>3. CASE ~(x = w /\ pump[w] # <<>>)
    <3>1. pump'[x] = pump[x]
      BY <1>1, <1>7, <2>3 DEF Return, IInv, TypeOK
    <3>2. x = o => f = 0
      BY <2>3, WhoWrites DEF o, Writer
    <3>3. FramesOf(log', x) = FramesOf(log, x)
      BY ONLY <1>3, <1>4, <3>2 DEF FramesOf
    <3>4. \A i \in FramesOf(log, x) : log'[i].frame = log[i].frame
      BY ONLY <1>3 DEF FramesOf
    <3> QED
      BY ONLY <2>1, <3>1, <3>3, <3>4 DEF InOrder
  <2> QED
    BY <2>2, <2>3
<1> QED
  BY <1>2, <1>9, <1>10, <1>11, <1>12 DEF SInv

-----------------------------------------------------------------------------

(* Every step keeps the invariant. *)
LEMMA StepIInv == IInv /\ [Next]_vars => IInv'
<1> SUFFICES ASSUME IInv, [Next]_vars PROVE SInv'
  BY TypeStep DEF IInv
<1>1. CASE Expire \/ Reap
  <2>1. CASE Owner = {}
    <3>1. lease = NoLease
      BY <2>1 DEF IInv, TypeOK
    <3> QED
      BY <1>1, <3>1 DEF Expire, Reap, Cell!Expire, Cell!Reap
  <2>2. CASE Owner # {}
    BY <1>1, <2>2, LeaseSteps
  <2> QED
    BY <2>1, <2>2
<1>2. ASSUME NEW o \in Owner, Heartbeat(o) \/ Release(o)
      PROVE  SInv'
  BY <1>2, LeaseSteps
<1>3. ASSUME NEW o \in Owner, ReadLog(o) \/ Acquire(o) \/ StopBegins(o) \/ Close(o) \/ Shut(o)
      PROVE  SInv'
  BY <1>3, OwnerSteps
<1>4. ASSUME NEW o \in Owner, Crash(o) \/ Exit(o)
      PROVE  SInv'
  BY <1>4, DieKeeps DEF Crash, Exit
<1>5. ASSUME NEW o \in Owner, Pump(o)
      PROVE  SInv'
  BY <1>5, PumpKeeps
<1>6. ASSUME NEW o \in Owner, Child(o) \/ ChildDies(o)
      PROVE  SInv'
  BY <1>6, ChildKeeps
<1>7. ASSUME NEW r \in Request, Handle(r)
      PROVE  SInv'
  BY <1>7, HandlerKeeps
<1>8. ASSUME NEW r \in Request, NEW v \in Asks[r], NEW o \in Owner, Arrive(r, v, o)
      PROVE  SInv'
  BY <1>8, ArriveKeeps, AsksAssumption DEF Verbs
<1>9. ASSUME NEW w \in Writer, Emit(w)
      PROVE  SInv'
  BY <1>9, CheckLeaseKeeps, TakeCursorKeeps, AppendEventKeeps DEF Emit
<1>10. ASSUME UNCHANGED vars \/ \E r \in Request : HangUp(r)
       PROVE  SInv'
  <2>1. UNCHANGED <<lease, dead, lapsed, log, up, cursor, pump, heard, verb, to, pc, num, frames>>
    BY <1>10 DEF HangUp, vars, faults, leaseVars, fileVars, ownerVars, askVars, jobVars, childVars
  <2>2. LeaseHeld' /\ FramesHeard' /\ FramesLogged' /\ CursorAhead' /\ OwnCursors'
    BY <2>1, InOrderOfEach DEF IInv, SInv, LeaseHeld, CanWrite, FramesHeard, CursorAhead, OwnCursors
  <2>3. Stages' /\ RequestsServed' /\ TakenOnce'
    BY <2>1 DEF IInv, SInv, Stages, RequestsServed, TakenOnce, Of
  <2> QED
    BY <2>2, <2>3 DEF SInv
<1> QED
  BY <1>1, <1>2, <1>3, <1>4, <1>5, <1>6, <1>7, <1>8, <1>9, <1>10 DEF Next

(***************************************************************************)
(* The inductive invariant holds.                                          *)
(***************************************************************************)
THEOREM Invariance == Spec => []IInv
BY InitIInv, StepIInv, PTL DEF Spec

(***************************************************************************)
(* The variables keep their types.                                         *)
(***************************************************************************)
THEOREM TypeCorrect == Spec => []TypeOK
<1>1. IInv => TypeOK
  BY DEF IInv
<1> QED
  BY <1>1, Invariance, PTL

(***************************************************************************)
(* FramesLogged holds: whatever its handlers write in between, an owner    *)
(* that never lost its lease has logged each frame it was told of, once    *)
(* and in the order they came, but for those its pump still holds.         *)
(***************************************************************************)
THEOREM FramesKept == Spec => []FramesLogged
<1>1. IInv => FramesLogged
  BY DEF IInv, SInv
<1> QED
  BY <1>1, Invariance, PTL

(***************************************************************************)
(* OwnCursors holds: an owner numbers no two of its events alike.          *)
(***************************************************************************)
THEOREM CursorsDistinct == Spec => []OwnCursors
<1>1. IInv => OwnCursors
  BY DEF IInv, SInv
<1> QED
  BY <1>1, Invariance, PTL
=============================================================================
