-------------------------- MODULE AgentLoop_proofs --------------------------
(***************************************************************************)
(* Proofs about the agent and its loop, for any number of tool calls to a  *)
(* message, any modes of the queues and any number of runs and messages:   *)
(* one active run, every message delivered once, and every call answered.  *)
(***************************************************************************)
EXTENDS AgentLoop, SequenceTheorems, FiniteSetTheorems, TLAPS

\* The messages in a queue, and those among the events of a stream.
Held(q)  == {q[i] : i \in 1 .. Len(q)}
Users(q) == {m \in Message : \E i \in 1 .. Len(q) : q[i] = <<"user", m>>}

\* Nothing is in the queue twice; no message of the user is in the stream twice.
Once(q) == \A i, j \in 1 .. Len(q) : q[i] = q[j] => i = j
UsersOnce(q) ==
    \A m \in Message : \A i, j \in 1 .. Len(q) :
        q[i] = <<"user", m>> /\ q[j] = <<"user", m>> => i = j

-----------------------------------------------------------------------------
(* Queues of messages.                                                     *)

(***************************************************************************)
(* What one Append does to a queue.                                        *)
(***************************************************************************)
LEMMA AppendQueue ==
  ASSUME NEW q \in Seq(Message), NEW m \in Message
  PROVE  /\ Append(q, m) \in Seq(Message)
         /\ Held(Append(q, m)) = Held(q) \cup {m}
         /\ Once(q) /\ m \notin Held(q) => Once(Append(q, m))
<1>1. Len(q) \in Nat
  BY LenProperties
<1> DEFINE p == Append(q, m)
<1>2. /\ p \in Seq(Message) /\ Len(p) = Len(q) + 1
      /\ \A i \in 1 .. Len(q) : p[i] = q[i]
      /\ p[Len(q) + 1] = m
  BY AppendProperties
<1> HIDE DEF p
<1>3. \A i \in 1 .. Len(p) : i \in 1 .. Len(q) \/ i = Len(q) + 1
  BY <1>1, <1>2
<1>4. \A i \in 1 .. Len(q) : i \in 1 .. Len(p)
  BY <1>1, <1>2
<1>5. Len(q) + 1 \in 1 .. Len(p)
  BY <1>1, <1>2
<1>6. Held(p) = Held(q) \cup {m}
  BY <1>2, <1>3, <1>4, <1>5 DEF Held
<1>7. Once(q) /\ m \notin Held(q) => Once(p)
  BY <1>2, <1>3 DEF Once, Held
<1> QED
  BY <1>2, <1>6, <1>7 DEF p

(***************************************************************************)
(* Two queues with nothing in common, one after the other.                 *)
(***************************************************************************)
LEMMA JoinQueues ==
  ASSUME NEW p \in Seq(Message), NEW q \in Seq(Message)
  PROVE  /\ p \o q \in Seq(Message)
         /\ Held(p \o q) = Held(p) \cup Held(q)
         /\ Once(p) /\ Once(q) /\ Held(p) \cap Held(q) = {} => Once(p \o q)
<1>1. Len(p) \in Nat /\ Len(q) \in Nat
  BY LenProperties
<1> DEFINE c == p \o q
<1>2. /\ c \in Seq(Message) /\ Len(c) = Len(p) + Len(q)
      /\ \A i \in 1 .. Len(p) + Len(q) : c[i] = IF i <= Len(p) THEN p[i] ELSE q[i - Len(p)]
  BY ConcatProperties
<1> HIDE DEF c
<1>3. \A i \in 1 .. Len(c) : \/ i \in 1 .. Len(p) /\ c[i] = p[i]
                             \/ i - Len(p) \in 1 .. Len(q) /\ c[i] = q[i - Len(p)]
  BY <1>1, <1>2
<1>4. \A i \in 1 .. Len(p) : i \in 1 .. Len(c) /\ c[i] = p[i]
  BY <1>1, <1>2
<1>5. \A i \in 1 .. Len(q) : i + Len(p) \in 1 .. Len(c) /\ c[i + Len(p)] = q[i]
  BY <1>1, <1>2
<1>6. Held(c) = Held(p) \cup Held(q)
  <2>1. Held(c) \subseteq Held(p) \cup Held(q)
    BY <1>3 DEF Held
  <2>2. Held(p) \subseteq Held(c)
    BY <1>4 DEF Held
  <2>3. Held(q) \subseteq Held(c)
    BY <1>5 DEF Held
  <2> QED
    BY <2>1, <2>2, <2>3
<1>7. ASSUME Once(p), Once(q), Held(p) \cap Held(q) = {} PROVE Once(c)
  <2>1. \A i \in 1 .. Len(p), j \in 1 .. Len(q) : p[i] # q[j]
    BY <1>7 DEF Held
  <2>2. ASSUME NEW i \in 1 .. Len(c), NEW j \in 1 .. Len(c), c[i] = c[j] PROVE i = j
    <3>1. i \in Int /\ j \in Int
      BY <1>1, <1>2
    <3>2. CASE i \in 1 .. Len(p) /\ c[i] = p[i]
      BY <1>3, <1>7, <2>1, <2>2, <3>2 DEF Once
    <3>3. CASE i - Len(p) \in 1 .. Len(q) /\ c[i] = q[i - Len(p)]
      <4>1. j - Len(p) \in 1 .. Len(q) /\ c[j] = q[j - Len(p)]
        BY <1>3, <2>1, <2>2, <3>3
      <4>2. i - Len(p) = j - Len(p)
        BY <1>7, <2>2, <3>3, <4>1 DEF Once
      <4> QED
        BY <1>1, <3>1, <4>2
    <3> QED
      BY <1>3, <3>2, <3>3
  <2> QED
    BY <2>2 DEF Once
<1> QED
  BY <1>2, <1>6, <1>7 DEF c

(***************************************************************************)
(* The queue without its last message.                                     *)
(***************************************************************************)
LEMMA FrontOfQueue ==
  ASSUME NEW q \in Seq(Message), q # <<>>
  PROVE  /\ Front(q) \in Seq(Message) /\ Last(q) \in Held(q)
         /\ Held(q) = Held(Front(q)) \cup {Last(q)}
         /\ Once(q) => Once(Front(q)) /\ Last(q) \notin Held(Front(q))
<1>1. Len(q) \in Nat /\ Len(q) > 0
  BY EmptySeq
<1>2. \A i \in 1 .. Len(q) - 1 : q[i] \in Message
  BY <1>1, ElementOfSeq
<1> DEFINE p == Front(q)
<1>3. p \in Seq(Message) /\ Len(p) = Len(q) - 1 /\ \A i \in 1 .. Len(q) - 1 : p[i] = q[i]
  <2>1. p = SubSeq(q, 1, Len(q) - 1)
    BY DEF Front
  <2>2. 1 \in Int /\ Len(q) - 1 \in Int
    BY <1>1
  <2> DEFINE s == SubSeq(q, 1, Len(q) - 1)
  <2>3. /\ s \in Seq(Message)
        /\ Len(s) = IF 1 <= Len(q) - 1 THEN (Len(q) - 1) - 1 + 1 ELSE 0
        /\ \A i \in 1 .. (Len(q) - 1) - 1 + 1 : s[i] = q[1 + i - 1]
    BY ONLY <1>2, <2>2, SubSeqProperties
  <2> HIDE DEF s, p
  <2>4. Len(s) = Len(q) - 1
    <3>1. CASE 1 <= Len(q) - 1
      BY <1>1, <2>3, <3>1
    <3>2. CASE Len(q) = 1
      BY <2>3, <3>2
    <3>3. \A n \in Nat : n > 0 => n = 1 \/ 1 <= n - 1
      OBVIOUS
    <3>4. Len(q) = 1 \/ 1 <= Len(q) - 1
      BY ONLY <1>1, <3>3
    <3> QED
      BY <3>1, <3>2, <3>4
  <2>5. \A i \in 1 .. Len(q) - 1 : i \in 1 .. (Len(q) - 1) - 1 + 1 /\ 1 + i - 1 = i
    BY <1>1
  <2>6. \A i \in 1 .. Len(q) - 1 : s[i] = q[i]
    BY ONLY <2>3, <2>5
  <2> QED
    BY <2>1, <2>3, <2>4, <2>6 DEF s
<1> HIDE DEF p
<1>4. Last(q) = q[Len(q)] /\ Len(q) \in 1 .. Len(q)
  BY <1>1 DEF Last
<1>5. \A i \in 1 .. Len(q) : i \in 1 .. Len(p) \/ i = Len(q)
  BY <1>1, <1>3
<1>6. \A i \in 1 .. Len(p) : i \in 1 .. Len(q) /\ i # Len(q) /\ p[i] = q[i]
  BY <1>1, <1>3
<1>7. Held(q) = Held(p) \cup {Last(q)}
  BY <1>4, <1>5, <1>6 DEF Held
<1>8. Once(q) => Once(p) /\ Last(q) \notin Held(p)
  BY <1>4, <1>6 DEF Held, Once
<1> QED
  BY <1>3, <1>7, <1>8 DEF p

(***************************************************************************)
(* What one dequeue takes and what it leaves.                              *)
(***************************************************************************)
LEMMA TakenAndLeft ==
  ASSUME NEW q \in Seq(Message)
  PROVE  /\ Taken(q) \in Seq(Message) /\ Left(q) \in Seq(Message)
         /\ Held(q) = Held(Taken(q)) \cup Held(Left(q))
         /\ Once(q) => /\ Once(Taken(q)) /\ Once(Left(q))
                       /\ Held(Taken(q)) \cap Held(Left(q)) = {}
<1>1. Len(q) \in Nat
  BY LenProperties
<1>2. PICK n \in 0 .. Len(q) : Taken(q) = SubSeq(q, 1, n)
  <2>1. q = SubSeq(q, 1, Len(q))
    BY SubSeqFull
  <2>2. q # <<>> => 1 <= Len(q)
    BY <1>1, EmptySeq
  <2>3. CASE ~OneAtATime
    <3>1. Taken(q) = q
      BY <2>3 DEF Taken
    <3>2. Taken(q) = SubSeq(q, 1, Len(q))
      BY ONLY <2>1, <3>1
    <3>3. Len(q) \in 0 .. Len(q)
      BY <1>1
    <3> QED
      BY <3>2, <3>3
  <2>4. CASE OneAtATime /\ q = <<>>
    <3>1. Taken(q) = SubSeq(q, 1, 0)
      BY <2>4 DEF Taken
    <3> QED
      BY <1>1, <3>1
  <2>5. CASE OneAtATime /\ q # <<>>
    <3>1. Taken(q) = SubSeq(q, 1, 1)
      BY <2>5 DEF Taken
    <3> QED
      BY <1>1, <2>2, <2>5, <3>1
  <2> QED
    BY <2>3, <2>4, <2>5
<1> DEFINE t == SubSeq(q, 1, n)
           l == SubSeq(q, n + 1, Len(q))
<1>3. \A i \in 1 .. Len(q) : q[i] \in Message
  BY ElementOfSeq
<1>4. t \in Seq(Message) /\ Len(t) = n /\ \A i \in 1 .. n : t[i] = q[i]
  <2>1. 1 \in Int /\ n \in Int /\ \A i \in 1 .. n : q[i] \in Message
    BY <1>1, <1>3
  <2>2. /\ t \in Seq(Message)
        /\ Len(t) = IF 1 <= n THEN n - 1 + 1 ELSE 0
        /\ \A i \in 1 .. n - 1 + 1 : t[i] = q[1 + i - 1]
    BY ONLY <2>1, SubSeqProperties
  <2> HIDE DEF t
  <2> QED
    BY <1>1, <2>1, <2>2
<1>5. /\ l \in Seq(Message) /\ Len(l) = Len(q) - n
      /\ \A i \in 1 .. Len(q) - n : l[i] = q[i + n]
  <2>1. n + 1 \in Int /\ Len(q) \in Int /\ \A i \in n + 1 .. Len(q) : q[i] \in Message
    BY <1>1, <1>3
  <2>2. /\ l \in Seq(Message)
        /\ Len(l) = IF n + 1 <= Len(q) THEN Len(q) - (n + 1) + 1 ELSE 0
        /\ \A i \in 1 .. Len(q) - (n + 1) + 1 : l[i] = q[(n + 1) + i - 1]
    BY ONLY <2>1, SubSeqProperties
  <2> HIDE DEF l
  <2>3. Len(l) = Len(q) - n /\ Len(q) - (n + 1) + 1 = Len(q) - n
    BY <1>1, <2>2
  <2>4. \A i \in 1 .. Len(q) - n : (n + 1) + i - 1 = i + n
    BY <1>1
  <2> QED
    BY <2>2, <2>3, <2>4
<1>6. Left(q) = l
  BY <1>2, <1>4 DEF Left
<1>7. Taken(q) = t
  BY <1>2
<1> HIDE DEF t, l
<1>8. \A i \in 1 .. Len(t) : i \in 1 .. Len(q) /\ t[i] = q[i] /\ i <= n
  BY <1>1, <1>4
<1>9. \A i \in 1 .. Len(l) : i + n \in 1 .. Len(q) /\ l[i] = q[i + n] /\ i + n > n
  BY <1>1, <1>5
<1>10. \A i \in 1 .. Len(q) : i \in 1 .. Len(t) \/ (i - n \in 1 .. Len(l) /\ i = (i - n) + n)
  BY <1>1, <1>4, <1>5
<1>11. Held(q) = Held(t) \cup Held(l)
  <2>1. Held(t) \cup Held(l) \subseteq Held(q)
    BY <1>8, <1>9 DEF Held
  <2>2. ASSUME NEW i \in 1 .. Len(q) PROVE q[i] \in Held(t) \cup Held(l)
    BY <1>8, <1>9, <1>10 DEF Held
  <2> QED
    BY <2>1, <2>2 DEF Held
<1>12. ASSUME Once(q) PROVE Once(t) /\ Once(l) /\ Held(t) \cap Held(l) = {}
  <2>1. Once(t)
    BY <1>8, <1>12 DEF Once
  <2>2. Once(l)
    <3>1. ASSUME NEW i \in 1 .. Len(l), NEW j \in 1 .. Len(l), l[i] = l[j] PROVE i = j
      <4>1. i + n = j + n
        BY <1>9, <1>12, <3>1 DEF Once
      <4>2. i \in Int /\ j \in Int /\ n \in Int
        BY <1>1
      <4> QED
        BY <4>1, <4>2
    <3> QED
      BY <3>1 DEF Once
  <2>3. \A i \in 1 .. Len(t), j \in 1 .. Len(l) : t[i] # l[j]
    <3> SUFFICES ASSUME NEW i \in 1 .. Len(t), NEW j \in 1 .. Len(l), t[i] = l[j] PROVE FALSE
      OBVIOUS
    <3>1. i = j + n
      BY <1>8, <1>9, <1>12 DEF Once
    <3>2. i <= n /\ j + n > n
      BY <1>8, <1>9
    <3>3. i \in Int /\ j \in Int /\ n \in Int
      BY <1>1
    <3> QED
      BY <3>1, <3>2, <3>3
  <2> QED
    BY <2>1, <2>2, <2>3 DEF Held
<1> QED
  BY <1>4, <1>5, <1>6, <1>7, <1>11, <1>12

-----------------------------------------------------------------------------
(* Streams of events.                                                      *)

(***************************************************************************)
(* The constants of the events are events, and only End and Failure end a  *)
(* run.                                                                    *)
(***************************************************************************)
LEMMA Entries ==
  /\ \A m \in Message : <<"user", m>> \in Entry /\ <<"user", m>> \notin {End, Failure, Call}
  /\ {Text, Stopped, Call, End, Failure} \subseteq Entry
  /\ \A i \in Tool : Result(i) \in Entry /\ Result(i) \notin {End, Failure, Call}
  /\ \A m \in Message : <<"user", m>> \notin {Text, Stopped, Call, End, Failure}
  /\ \A m \in Message, i \in Tool : <<"user", m>> # Result(i)
  /\ \A e \in {Text, Stopped, Call} : e # End /\ e # Failure
  /\ Call # Text /\ Call # Stopped /\ Call # End /\ Call # Failure
<1>1. Message \subseteq Nat /\ Tool \subseteq Nat /\ 0 \in Nat
  BY BoundAssumption, ToolAssumption DEF Message, Tool
<1> HIDE DEF Message, Tool
<1> QED
  BY <1>1 DEF Entry, End, Failure, Call, Text, Stopped, Result

(***************************************************************************)
(* The entries of a sequence that is given entry by entry.                 *)
(***************************************************************************)
LEMMA SeqOfFunction ==
  ASSUME NEW T, NEW n \in Nat, NEW f \in [1 .. n -> T]
  PROVE  f \in Seq(T) /\ Len(f) = n
<1>1. f \in Seq(T)
  BY SeqDef
<1>2. DOMAIN f = 1 .. Len(f) /\ Len(f) \in Nat /\ DOMAIN f = 1 .. n
  BY <1>1, LenProperties
<1> DEFINE k == Len(f)
<1>3. k \in Nat /\ 1 .. k = 1 .. n
  BY <1>2
<1> HIDE DEF k
<1>4. k = n
  BY <1>3
<1> QED
  BY <1>1, <1>4 DEF k

(***************************************************************************)
(* A sequence of one event.                                                *)
(***************************************************************************)
LEMMA OneEvent ==
  ASSUME NEW e \in Entry
  PROVE  <<e>> \in Seq(Entry) /\ Len(<<e>>) = 1 /\ <<e>>[1] = e
  OBVIOUS

(***************************************************************************)
(* The messages that go into a run, as events.                             *)
(***************************************************************************)
LEMMA UserEvents ==
  ASSUME NEW ms \in Seq(Message)
  PROVE  /\ User(ms) \in Seq(Entry) /\ Len(User(ms)) = Len(ms)
         /\ \A i \in 1 .. Len(ms) : User(ms)[i] = <<"user", ms[i]>>
         /\ Users(User(ms)) = Held(ms)
         /\ Once(ms) => UsersOnce(User(ms))
<1>1. Len(ms) \in Nat /\ DOMAIN ms = 1 .. Len(ms) /\ \A i \in 1 .. Len(ms) : ms[i] \in Message
  BY LenProperties, ElementOfSeq
<1> DEFINE u == User(ms)
<1>2. u = [i \in 1 .. Len(ms) |-> <<"user", ms[i]>>]
  BY <1>1 DEF User
<1>3. u \in [1 .. Len(ms) -> Entry]
  BY <1>1, <1>2, Entries
<1> HIDE DEF u
<1>4. u \in Seq(Entry) /\ Len(u) = Len(ms)
  BY <1>1, <1>3, SeqOfFunction
<1>5. \A i \in 1 .. Len(ms) : u[i] = <<"user", ms[i]>>
  BY <1>2
<1>6. Users(u) = Held(ms)
  <2>1. ASSUME NEW i \in 1 .. Len(ms) PROVE ms[i] \in Users(u)
    BY <1>1, <1>4, <1>5 DEF Users
  <2>2. ASSUME NEW m \in Users(u) PROVE m \in Held(ms)
    BY <1>4, <1>5 DEF Users, Held
  <2> QED
    BY <2>1, <2>2 DEF Held
<1>7. Once(ms) => UsersOnce(u)
  BY <1>4, <1>5 DEF Once, UsersOnce
<1> QED
  BY <1>4, <1>5, <1>6, <1>7 DEF u

(***************************************************************************)
(* The places of two streams, one after the other.                         *)
(***************************************************************************)
LEMMA JoinStreams ==
  ASSUME NEW p \in Seq(Entry), NEW q \in Seq(Entry)
  PROVE  /\ p \o q \in Seq(Entry) /\ Len(p \o q) = Len(p) + Len(q)
         /\ Len(p) \in Nat /\ Len(q) \in Nat
         /\ \A i \in 1 .. Len(p) : i \in 1 .. Len(p \o q) /\ (p \o q)[i] = p[i]
         /\ \A i \in 1 .. Len(q) : i + Len(p) \in 1 .. Len(p \o q) /\ (p \o q)[i + Len(p)] = q[i]
         /\ \A i \in 1 .. Len(p \o q) :
               \/ i \in 1 .. Len(p) /\ (p \o q)[i] = p[i]
               \/ i - Len(p) \in 1 .. Len(q) /\ (p \o q)[i] = q[i - Len(p)]
<1>1. Len(p) \in Nat /\ Len(q) \in Nat
  BY LenProperties
<1> DEFINE c == p \o q
<1>2. /\ c \in Seq(Entry) /\ Len(c) = Len(p) + Len(q)
      /\ \A i \in 1 .. Len(p) + Len(q) : c[i] = IF i <= Len(p) THEN p[i] ELSE q[i - Len(p)]
  BY ConcatProperties
<1> HIDE DEF c
<1>3. \A i \in 1 .. Len(c) : \/ i \in 1 .. Len(p) /\ c[i] = p[i]
                             \/ i - Len(p) \in 1 .. Len(q) /\ c[i] = q[i - Len(p)]
  BY <1>1, <1>2
<1>4. \A i \in 1 .. Len(p) : i \in 1 .. Len(c) /\ c[i] = p[i]
  BY <1>1, <1>2
<1>5. \A i \in 1 .. Len(q) : i + Len(p) \in 1 .. Len(c) /\ c[i + Len(p)] = q[i]
  BY <1>1, <1>2
<1> QED
  BY <1>1, <1>2, <1>3, <1>4, <1>5 DEF c

(* The messages of a joined sequence are those of its parts. *)
LEMMA JoinedUsers ==
  ASSUME NEW p \in Seq(Entry), NEW q \in Seq(Entry)
  PROVE  /\ Users(p \o q) = Users(p) \cup Users(q)
         /\ UsersOnce(p) /\ UsersOnce(q) /\ Users(p) \cap Users(q) = {} => UsersOnce(p \o q)
<1> DEFINE c == p \o q
<1>1. /\ Len(p) \in Nat /\ Len(q) \in Nat /\ Len(c) \in Nat
      /\ \A i \in 1 .. Len(p) : i \in 1 .. Len(c) /\ c[i] = p[i]
      /\ \A i \in 1 .. Len(q) : i + Len(p) \in 1 .. Len(c) /\ c[i + Len(p)] = q[i]
      /\ \A i \in 1 .. Len(c) : \/ i \in 1 .. Len(p) /\ c[i] = p[i]
                                \/ i - Len(p) \in 1 .. Len(q) /\ c[i] = q[i - Len(p)]
  BY JoinStreams
<1> HIDE DEF c
<1>2. Users(c) = Users(p) \cup Users(q)
  <2>1. Users(c) \subseteq Users(p) \cup Users(q)
    BY <1>1 DEF Users
  <2>2. Users(p) \subseteq Users(c)
    BY <1>1 DEF Users
  <2>3. Users(q) \subseteq Users(c)
    BY <1>1 DEF Users
  <2> QED
    BY <2>1, <2>2, <2>3
<1>3. ASSUME UsersOnce(p), UsersOnce(q), Users(p) \cap Users(q) = {} PROVE UsersOnce(c)
  <2> SUFFICES ASSUME NEW m \in Message, NEW i \in 1 .. Len(c), NEW j \in 1 .. Len(c),
                      c[i] = <<"user", m>>, c[j] = <<"user", m>>
               PROVE  i = j
    BY DEF UsersOnce
  <2>1. \A h \in 1 .. Len(p), k \in 1 .. Len(q) : ~(p[h] = <<"user", m>> /\ q[k] = <<"user", m>>)
    BY <1>3 DEF Users
  <2>2. CASE i \in 1 .. Len(p) /\ c[i] = p[i]
    BY <1>1, <1>3, <2>1, <2>2, ZenonT(60) DEF UsersOnce
  <2>3. CASE i - Len(p) \in 1 .. Len(q) /\ c[i] = q[i - Len(p)]
    <3>1. j - Len(p) \in 1 .. Len(q) /\ c[j] = q[j - Len(p)]
      BY <1>1, <2>1, <2>3
    <3>2. i - Len(p) = j - Len(p)
      BY <1>3, <2>3, <3>1 DEF UsersOnce
    <3>3. i \in Int /\ j \in Int
      BY <1>1
    <3> QED
      BY <1>1, <3>2, <3>3
  <2> QED
    BY <1>1, <2>2, <2>3
<1> QED
  BY <1>2, <1>3 DEF c

(***************************************************************************)
(* Without its first event a stream has the others, one place earlier.     *)
(***************************************************************************)
LEMMA TailOfStream ==
  ASSUME NEW b \in Seq(Entry), b # <<>>
  PROVE  /\ Head(b) \in Entry /\ Tail(b) \in Seq(Entry) /\ Len(b) \in Nat
         /\ Len(Tail(b)) = Len(b) - 1 /\ Len(Tail(b)) \in Nat /\ Head(b) = b[1]
         /\ \A i \in 1 .. Len(Tail(b)) : Tail(b)[i] = b[i + 1] /\ i + 1 \in 1 .. Len(b)
         /\ \A i \in 1 .. Len(b) : i = 1 \/ (i - 1 \in 1 .. Len(Tail(b)) /\ b[i] = Tail(b)[i - 1])
         /\ 1 \in 1 .. Len(b)
<1>1. Len(b) \in Nat /\ Len(b) # 0
  BY EmptySeq
<1> DEFINE t == Tail(b)
<1>2. /\ Head(b) \in Entry /\ t \in Seq(Entry) /\ Len(t) = Len(b) - 1
      /\ \A i \in 1 .. Len(t) : t[i] = b[i + 1]
  BY HeadTailProperties
<1>3. Head(b) = b[1]
  OBVIOUS
<1> HIDE DEF t
<1>4. \A i \in 1 .. Len(t) : i + 1 \in 1 .. Len(b)
  BY <1>1, <1>2
<1>5. \A i \in 1 .. Len(b) : i = 1 \/ (i - 1 \in 1 .. Len(t) /\ (i - 1) + 1 = i)
  BY <1>1, <1>2
<1>6. \A i \in 1 .. Len(b) : i = 1 \/ (i - 1 \in 1 .. Len(t) /\ b[i] = t[i - 1])
  BY <1>2, <1>5
<1>7. Len(t) \in Nat /\ 1 \in 1 .. Len(b)
  BY <1>1, <1>2
<1> QED
  BY <1>1, <1>2, <1>3, <1>4, <1>6, <1>7 DEF t

(* Taking an entry off a sequence takes its messages. *)
LEMMA TailUsers ==
  ASSUME NEW b \in Seq(Entry), b # <<>>
  PROVE  /\ Users(b) = Users(<<Head(b)>>) \cup Users(Tail(b))
         /\ UsersOnce(b) => UsersOnce(Tail(b)) /\ Users(<<Head(b)>>) \cap Users(Tail(b)) = {}
<1> DEFINE t == Tail(b)
           e == Head(b)
<1>1. /\ Len(b) \in Nat /\ Len(t) \in Nat /\ e = b[1] /\ 1 \in 1 .. Len(b)
      /\ \A i \in 1 .. Len(t) : t[i] = b[i + 1] /\ i + 1 \in 1 .. Len(b)
      /\ \A i \in 1 .. Len(b) : i = 1 \/ (i - 1 \in 1 .. Len(t) /\ b[i] = t[i - 1])
  BY TailOfStream
<1> HIDE DEF t, e
<1>2. Users(<<e>>) = {m \in Message : e = <<"user", m>>}
  <2> DEFINE s == <<e>>
  <2>1. Len(s) = 1 /\ s[1] = e
    OBVIOUS
  <2> HIDE DEF s
  <2>2. \A m : (\E i \in 1 .. Len(s) : s[i] = <<"user", m>>) <=> e = <<"user", m>>
    <3>1. 1 .. Len(s) = {1}
      BY <2>1
    <3> QED
      BY ONLY <2>1, <3>1, Zenon
  <2>3. Users(s) = {m \in Message : e = <<"user", m>>}
    BY <2>2, Zenon DEF Users
  <2> QED
    BY <2>3 DEF s
<1>3. Users(b) = Users(<<e>>) \cup Users(t)
  <2>1. Users(b) \subseteq Users(<<e>>) \cup Users(t)
    BY <1>1, <1>2 DEF Users
  <2>2. Users(<<e>>) \subseteq Users(b)
    BY <1>1, <1>2 DEF Users
  <2>3. Users(t) \subseteq Users(b)
    BY <1>1 DEF Users
  <2> QED
    BY <2>1, <2>2, <2>3
<1>4. ASSUME UsersOnce(b) PROVE UsersOnce(t) /\ Users(<<e>>) \cap Users(t) = {}
  <2>1. ASSUME NEW m \in Message, NEW i \in 1 .. Len(t), NEW j \in 1 .. Len(t),
               t[i] = <<"user", m>>, t[j] = <<"user", m>>
        PROVE  i = j
    <3>1. i + 1 = j + 1
      BY <1>1, <1>4, <2>1, SMTT(30) DEF UsersOnce
    <3>2. i \in Int /\ j \in Int
      OBVIOUS
    <3> QED
      BY <3>1, <3>2
  <2>2. ASSUME NEW m \in Message, NEW i \in 1 .. Len(t), t[i] = <<"user", m>>, e = <<"user", m>>
        PROVE  FALSE
    <3>1. i + 1 = 1
      BY <1>1, <1>4, <2>2 DEF UsersOnce
    <3>2. i \in Nat /\ i > 0
      OBVIOUS
    <3> QED
      BY <3>1, <3>2
  <2> QED
    BY <1>2, <2>1, <2>2 DEF Users, UsersOnce
<1> QED
  BY <1>3, <1>4 DEF t, e

(***************************************************************************)
(* Events of the loop itself carry no message.                             *)
(***************************************************************************)
LEMMA NoUsers ==
  ASSUME NEW p \in Seq(Entry), \A i \in 1 .. Len(p) : \A m \in Message : p[i] # <<"user", m>>
  PROVE  Users(p) = {} /\ UsersOnce(p)
  BY DEF Users, UsersOnce

(***************************************************************************)
(* A set of natural numbers that has one has a least one.                  *)
(***************************************************************************)
LEMMA LeastElement ==
  ASSUME NEW D, D \subseteq Nat, D # {}
  PROVE  \E k \in D : \A j \in D : k <= j
<1>1. PICK k \in D : \A j \in D : ~ (<<j, k>> \in OpToRel(<, Nat))
  BY NatLessThanWellFounded, WFMin, Zenon
<1>2. ASSUME NEW j \in D PROVE ~(j < k)
  BY <1>1, Zenon DEF OpToRel
<1> QED
  BY <1>2

(***************************************************************************)
(* Induction up to m: a set that has 0, and with each number below m the   *)
(* next one, has the numbers up to m.                                      *)
(***************************************************************************)
LEMMA SetInduction ==
  ASSUME NEW m \in Nat, NEW D, 0 \in D, \A n \in 0 .. m - 1 : n \in D => n + 1 \in D
  PROVE  \A n \in 0 .. m : n \in D
<1> DEFINE T == (0 .. m) \ D
<1> SUFFICES ASSUME T # {} PROVE FALSE
  OBVIOUS
<1>1. PICK k \in T : \A j \in T : k <= j
  <2>1. T \subseteq Nat
    OBVIOUS
  <2> HIDE DEF T
  <2> QED
    BY <2>1, LeastElement
<1>2. k - 1 \in 0 .. m - 1 /\ k - 1 \notin T
  BY <1>1
<1> QED
  BY <1>1, <1>2

(***************************************************************************)
(* Results(S) has a result for each call in S, once, and nothing else.     *)
(***************************************************************************)
LEMMA ResultsFacts ==
  ASSUME NEW S \in SUBSET Tool
  PROVE  /\ Results(S) \in Seq(Entry)
         /\ \A i \in 1 .. Len(Results(S)) : \E k \in S : Results(S)[i] = Result(k)
         /\ \A k \in S : \E i \in 1 .. Len(Results(S)) : Results(S)[i] = Result(k)
         /\ Once(Results(S))
<1> DEFINE Rule(g, i) == IF i = 0 THEN <<>>
                         ELSE IF i \in S THEN Append(g[i - 1], Result(i)) ELSE g[i - 1]
           Has(n) == \E g : g = [i \in 0 .. n |-> Rule(g, i)]
<1>1. Tools \in Nat /\ Tool = 1 .. Tools
  BY ToolAssumption DEF Tool
<1>2. Has(Tools)
  <2>1. Has(0)
    <3>1. [i \in 0 .. 0 |-> <<>>] = [i \in 0 .. 0 |-> Rule([h \in 0 .. 0 |-> <<>>], i)]
      OBVIOUS
    <3> QED
      BY <3>1
  <2>2. ASSUME NEW n \in 0 .. Tools - 1, Has(n) PROVE Has(n + 1)
    <3>1. PICK g : g = [i \in 0 .. n |-> Rule(g, i)]
      BY <2>2
    <3> DEFINE h == [i \in 0 .. n + 1 |-> IF i <= n THEN g[i] ELSE Rule(g, i)]
    <3>2. \A i \in 0 .. n + 1 : i # 0 => i - 1 \in 0 .. n /\ h[i - 1] = g[i - 1]
      BY <1>1
    <3>3. \A i \in 0 .. n + 1 : Rule(h, i) = Rule(g, i)
      BY <3>2
    <3> HIDE DEF Rule
    <3>4. \A i \in 0 .. n : g[i] = Rule(g, i)
      BY <3>1
    <3>5. \A i \in 0 .. n + 1 : h[i] = Rule(g, i)
      BY <1>1, <3>4
    <3>6. h = [i \in 0 .. n + 1 |-> Rule(h, i)]
      BY <3>3, <3>5
    <3> QED
      BY <3>6
  <2> HIDE DEF Has
  <2> DEFINE D == {n \in 0 .. Tools : Has(n)}
  <2>3. 0 \in D /\ \A n \in 0 .. Tools - 1 : n \in D => n + 1 \in D
    BY <1>1, <2>1, <2>2
  <2> HIDE DEF D
  <2>4. \A n \in 0 .. Tools : n \in D
    BY <1>1, <2>3, SetInduction
  <2> QED
    BY <1>1, <2>4 DEF D
<1> DEFINE upTo == CHOOSE g : g = [i \in 0 .. Tools |-> Rule(g, i)]
<1>3. upTo = [i \in 0 .. Tools |-> Rule(upTo, i)]
  BY <1>2
<1>4. Results(S) = upTo[Tools]
  BY DEF Results
<1> HIDE DEF upTo
<1> DEFINE Fits(n) ==
        /\ upTo[n] \in Seq(Entry)
        /\ \A i \in 1 .. Len(upTo[n]) : \E k \in S : k <= n /\ upTo[n][i] = Result(k)
        /\ \A k \in S : k <= n => \E i \in 1 .. Len(upTo[n]) : upTo[n][i] = Result(k)
        /\ Once(upTo[n])
<1>5. Fits(0)
  <2>1. upTo[0] = <<>>
    BY <1>1, <1>3
  <2>2. \A k \in S : ~(k <= 0)
    BY <1>1
  <2>3. Len(<<>>) = 0 /\ <<>> \in Seq(Entry)
    BY EmptySeq
  <2> QED
    BY <2>1, <2>2, <2>3 DEF Once
<1>6. ASSUME NEW n \in 0 .. Tools - 1, Fits(n) PROVE Fits(n + 1)
  <2>0. n \in Nat /\ n + 1 \in 1 .. Tools
    BY <1>1
  <2>1. upTo[n + 1] = IF n + 1 \in S THEN Append(upTo[n], Result(n + 1)) ELSE upTo[n]
    <3>1. n + 1 \in 0 .. Tools /\ n + 1 # 0 /\ (n + 1) - 1 = n
      BY <1>1
    <3>2. upTo[n + 1] = Rule(upTo, n + 1)
      BY <1>3, <3>1
    <3> QED
      BY <3>1, <3>2
  <2> DEFINE p == upTo[n]
             q == upTo[n + 1]
             e == Result(n + 1)
  <2>2. /\ p \in Seq(Entry) /\ Once(p) /\ Len(p) \in Nat
        /\ \A i \in 1 .. Len(p) : \E k \in S : k <= n /\ p[i] = Result(k)
        /\ \A k \in S : k <= n => \E i \in 1 .. Len(p) : p[i] = Result(k)
    BY <1>6, LenProperties
  <2>3. e \in Entry
    BY <1>1, <2>0, Entries
  <2>4. \A k \in S : k <= n + 1 <=> k <= n \/ k = n + 1
    BY <1>1, <2>0
  <2>5. \A k \in S : k <= n => Result(k) # e
    BY <1>1, <2>0 DEF Result
  <2>6. CASE n + 1 \notin S
    <3>1. q = p
      BY <2>1, <2>6
    <3>2. \A k \in S : k <= n + 1 <=> k <= n
      BY <2>4, <2>6
    <3> HIDE DEF p, q, e
    <3> SUFFICES /\ q \in Seq(Entry)
                 /\ \A i \in 1 .. Len(q) : \E k \in S : k <= n + 1 /\ q[i] = Result(k)
                 /\ \A k \in S : k <= n + 1 => \E i \in 1 .. Len(q) : q[i] = Result(k)
                 /\ Once(q)
      BY DEF q
    <3> QED
      BY <2>2, <3>1, <3>2
  <2>7. CASE n + 1 \in S
    <3>1. q = Append(p, e)
      BY <2>1, <2>7
    <3>2. e = Result(n + 1)
      OBVIOUS
    <3> HIDE DEF p, q, e
    <3> SUFFICES /\ q \in Seq(Entry)
                 /\ \A i \in 1 .. Len(q) : \E k \in S : k <= n + 1 /\ q[i] = Result(k)
                 /\ \A k \in S : k <= n + 1 => \E i \in 1 .. Len(q) : q[i] = Result(k)
                 /\ Once(q)
      BY DEF q
    <3>3. /\ q \in Seq(Entry) /\ Len(q) = Len(p) + 1
          /\ \A i \in 1 .. Len(p) : q[i] = p[i]
          /\ q[Len(p) + 1] = e
      BY <2>2, <2>3, <3>1, AppendProperties
    <3>4. \A i \in 1 .. Len(q) : i \in 1 .. Len(p) \/ i = Len(p) + 1
      BY <2>2, <3>3
    <3>5. \A i \in 1 .. Len(p) : i \in 1 .. Len(q)
      BY <2>2, <3>3
    <3>6. Len(p) + 1 \in 1 .. Len(q)
      BY <2>2, <3>3
    <3>7. \A i \in 1 .. Len(q) : \E k \in S : k <= n + 1 /\ q[i] = Result(k)
      <4>1. n + 1 <= n + 1
        BY <2>0
      <4> QED
        BY <2>2, <2>4, <2>7, <3>2, <3>3, <3>4, <4>1
    <3>8. \A k \in S : k <= n + 1 => \E i \in 1 .. Len(q) : q[i] = Result(k)
      BY <2>2, <2>4, <3>2, <3>3, <3>5, <3>6
    <3>9. Once(q)
      <4>1. \A i \in 1 .. Len(p) : p[i] # e
        BY <2>2, <2>5
      <4>2. Once(p) /\ Len(p) \in Nat
        BY <2>2
      <4>3. ASSUME NEW i \in 1 .. Len(q), NEW j \in 1 .. Len(q), q[i] = q[j] PROVE i = j
        <5>1. CASE i \in 1 .. Len(p) /\ j \in 1 .. Len(p)
          BY ONLY <3>3, <4>2, <4>3, <5>1 DEF Once
        <5>2. CASE i = Len(p) + 1 /\ j = Len(p) + 1
          BY ONLY <5>2
        <5>3. CASE i = Len(p) + 1 /\ j \in 1 .. Len(p)
          BY ONLY <3>3, <4>1, <4>3, <5>3
        <5>4. CASE j = Len(p) + 1 /\ i \in 1 .. Len(p)
          BY ONLY <3>3, <4>1, <4>3, <5>4
        <5> QED
          BY ONLY <3>4, <5>1, <5>2, <5>3, <5>4
      <4> QED
        BY ONLY <4>3 DEF Once
    <3> QED
      BY <3>3, <3>7, <3>8, <3>9
  <2> QED
    BY <2>6, <2>7
<1> HIDE DEF Fits
<1>7. Fits(Tools)
  <2> DEFINE D == {n \in 0 .. Tools : Fits(n)}
  <2>1. 0 \in D /\ \A n \in 0 .. Tools - 1 : n \in D => n + 1 \in D
    BY <1>1, <1>5, <1>6
  <2> HIDE DEF D
  <2>2. \A n \in 0 .. Tools : n \in D
    BY <1>1, <2>1, SetInduction
  <2> QED
    BY <1>1, <2>2 DEF D
<1>8. \A k \in S : k <= Tools
  BY <1>1
<1> QED
  BY <1>4, <1>7, <1>8 DEF Fits

(***************************************************************************)
(* A stream that has the result of every call, once, and nothing else, is  *)
(* as long as the message has calls.                                       *)
(***************************************************************************)
LEMMA AllResults ==
  ASSUME NEW n \in Nat, NEW f \in [1 .. n -> Entry],
         \A i \in 1 .. n : \E k \in Tool : f[i] = Result(k),
         \A k \in Tool : \E i \in 1 .. n : f[i] = Result(k),
         \A i, j \in 1 .. n : f[i] = f[j] => i = j
  PROVE  n = Tools
<1>1. Tools \in Nat /\ Tool = 1 .. Tools
  BY ToolAssumption DEF Tool
<1> DEFINE g == [i \in 1 .. n |-> f[i][2]]
<1>2. \A i \in 1 .. n : g[i] \in Tool /\ f[i] = Result(g[i])
  BY DEF Result
<1>3. \A k \in Tool : \E i \in 1 .. n : g[i] = k
  BY DEF Result
<1>4. g \in [1 .. n -> Tool]
  BY <1>2
<1>5. \A i, j \in 1 .. n : g[i] = g[j] => i = j
  BY <1>2
<1> HIDE DEF g
<1>6. g \in Bijection(1 .. n, Tool)
  <2>1. g \in Injection(1 .. n, Tool)
    BY <1>4, <1>5, Zenon DEF Injection, IsInjective
  <2>2. g \in Surjection(1 .. n, Tool)
    BY <1>3, <1>4, Zenon DEF Surjection
  <2> QED
    BY <2>1, <2>2, Zenon DEF Bijection
<1>7. ExistsBijection(1 .. n, Tool)
  BY <1>6 DEF ExistsBijection
<1>8. 1 \in Int /\ n \in Int /\ Tools \in Int
  BY <1>1
<1>9. /\ IsFiniteSet(1 .. n) /\ Cardinality(1 .. n) = IF 1 > n THEN 0 ELSE n - 1 + 1
      /\ Cardinality(1 .. Tools) = IF 1 > Tools THEN 0 ELSE Tools - 1 + 1
  BY ONLY <1>8, FS_Interval
<1>10. Cardinality(1 .. n) = n /\ Cardinality(1 .. Tools) = Tools
  BY <1>1, <1>9
<1>11. Cardinality(Tool) = Cardinality(1 .. n)
  BY ONLY <1>7, <1>9, FS_Bijection
<1> QED
  BY ONLY <1>1, <1>10, <1>11

-----------------------------------------------------------------------------
(* The inductive invariant.                                                *)

(***************************************************************************)
(* The runs begin one after the other, and the active one is the last.     *)
(***************************************************************************)
RunsInOrder ==
    /\ promised = active
    /\ streaming => active # 0
    /\ active # 0 => active = seq /\ active \notin forced /\ cons[active] \in {"loop", "ended"}
    /\ \A r \in Run : cons[r] = "none" <=> seq < r
    /\ \A r \in Run : seq < r => r \notin forced /\ pc[r] = "none"

(***************************************************************************)
(* Only a run at its tools has tools, or messages that interrupted them.   *)
(***************************************************************************)
ToolsOnly == \A r \in Run : pc[r] # "tools" => pend[r] = <<>> /\ tool[r] = NoTools

(***************************************************************************)
(* When the agent has heard the end of a run, its loop is over and all it  *)
(* pushed is in the history.                                               *)
(***************************************************************************)
HeardOut ==
    \A r \in Run \ forced : cons[r] # "loop" => pc[r] \in {"none", "over"} /\ buf[r] = <<>>

(***************************************************************************)
(* The event that ends a run is the last one its loop pushes.              *)
(***************************************************************************)
EndIsLast ==
    \A r \in Run \ forced : \A i \in 1 .. Len(buf[r]) :
        buf[r][i] \in {End, Failure} => i = Len(buf[r]) /\ pc[r] = "over"

\* What the active run has pushed and the agent has not yet seen, and the messages
\* that it has found and not yet pushed.
Coming  == IF active = 0 THEN <<>> ELSE buf[active]
Pending == IF active = 0 THEN <<>> ELSE pend[active]

\* No message is in two of them.
Apart(A, B, C, D, E, F) ==
    /\ A \cap (B \cup C \cup D \cup E \cup F) = {}
    /\ B \cap (C \cup D \cup E \cup F) = {}
    /\ C \cap (D \cup E \cup F) = {}
    /\ D \cap (E \cup F) = {}
    /\ E \cap F = {}

(***************************************************************************)
(* The messages sent are spread over the queues, the active run, the       *)
(* history and those that are gone, each in one place and there once.      *)
(***************************************************************************)
Spread ==
    /\ 1 .. sent = Held(steering) \cup Held(follow) \cup (gone \cup lost)
                   \cup Users(history) \cup Held(Pending) \cup Users(Coming)
    /\ Apart(Held(steering), Held(follow), gone \cup lost,
             Users(history), Held(Pending), Users(Coming))
    /\ Once(steering) /\ Once(follow) /\ Once(Pending)
    /\ UsersOnce(history) /\ UsersOnce(Coming)

\* The history as it will be when the agent has seen what is coming.
Stream == history \o Coming

\* The results of the call at place i of the stream T follow it, each once.
Closed(T, i) ==
    /\ i + Tools <= Len(T)
    /\ \A j \in i + 1 .. i + Tools : T[j][1] = "result"
    /\ \A j, k \in i + 1 .. i + Tools : T[j] = T[k] => j = k

\* After place i the stream T has the results of the tools in S, each once, and
\* nothing else.
Open(T, i, S) ==
    /\ \A j \in i + 1 .. Len(T) : \E k \in S : T[j] = Result(k)
    /\ \A k \in S : \E j \in i + 1 .. Len(T) : T[j] = Result(k)
    /\ \A j, k \in i + 1 .. Len(T) : T[j] = T[k] => j = k

\* Every call in T has its results, but for one at most whose tools are at work:
\* of it there are those in the only member of O.
Answered(T, O) ==
    \A i \in 1 .. Len(T) : T[i] = Call => Closed(T, i) \/ \E S \in O : Open(T, i, S)

\* The tools of run r that have ended, if it is at its tools.
Ended(r)  == {k \in Tool : tool[r][k] \in {"join", "over"}}
AtTools(r) == IF pc[r] = "tools" THEN {Ended(r)} ELSE {}

(***************************************************************************)
(* As long as nothing was given up by force, every call of the stream has  *)
(* its results, or is the one the active run is at.                        *)
(***************************************************************************)
CallsAnswered ==
    forced = {} => Answered(Stream, IF active = 0 THEN {} ELSE AtTools(active))

IInv ==
    /\ TypeOK
    /\ RunsInOrder
    /\ OneActiveRun
    /\ ToolsOnly
    /\ HeardOut
    /\ EndIsLast
    /\ Spread
    /\ CallsAnswered

-----------------------------------------------------------------------------
(* Calls and their results.                                                *)

(***************************************************************************)
(* What follows a call and its results does not part them.                 *)
(***************************************************************************)
LEMMA ClosedStays ==
  ASSUME NEW T \in Seq(Entry), NEW p \in Seq(Entry), NEW i \in 1 .. Len(T), Closed(T, i)
  PROVE  Closed(T \o p, i)
<1> DEFINE U == T \o p
<1>1. /\ Len(T) \in Nat /\ Len(p) \in Nat /\ Len(U) = Len(T) + Len(p)
      /\ \A j \in 1 .. Len(T) : U[j] = T[j]
  BY JoinStreams
<1> HIDE DEF U
<1>2. Tools \in Nat
  BY ToolAssumption
<1>3. \A j \in i + 1 .. i + Tools : j \in 1 .. Len(T)
  BY <1>1, <1>2 DEF Closed
<1>4. i + Tools <= Len(U)
  BY <1>1, <1>2 DEF Closed
<1> QED
  BY <1>1, <1>3, <1>4 DEF Closed, U

(***************************************************************************)
(* Further results go on with those of the call that is open.              *)
(***************************************************************************)
LEMMA OpenGrows ==
  ASSUME NEW T \in Seq(Entry), NEW p \in Seq(Entry), NEW i \in 1 .. Len(T),
         NEW S \in SUBSET Tool, NEW R \in SUBSET Tool, S \cap R = {}, Open(T, i, S),
         \A j \in 1 .. Len(p) : \E k \in R : p[j] = Result(k),
         \A k \in R : \E j \in 1 .. Len(p) : p[j] = Result(k),
         Once(p)
  PROVE  Open(T \o p, i, S \cup R)
<1> DEFINE U == T \o p
<1>1. /\ Len(T) \in Nat /\ Len(p) \in Nat /\ Len(U) = Len(T) + Len(p)
      /\ \A j \in 1 .. Len(T) : U[j] = T[j]
      /\ \A j \in 1 .. Len(p) : j + Len(T) \in 1 .. Len(U) /\ U[j + Len(T)] = p[j]
      /\ \A j \in 1 .. Len(U) : \/ j \in 1 .. Len(T) /\ U[j] = T[j]
                                \/ j - Len(T) \in 1 .. Len(p) /\ U[j] = p[j - Len(T)]
  BY JoinStreams
<1> HIDE DEF U
<1>2. \A j \in i + 1 .. Len(U) :
         \/ j \in i + 1 .. Len(T) /\ U[j] = T[j]
         \/ j - Len(T) \in 1 .. Len(p) /\ U[j] = p[j - Len(T)]
  BY <1>1
<1>3. \A j \in i + 1 .. Len(T) : j \in i + 1 .. Len(U) /\ U[j] = T[j]
  BY <1>1
<1>4. \A j \in 1 .. Len(p) : j + Len(T) \in i + 1 .. Len(U) /\ U[j + Len(T)] = p[j]
  BY <1>1
<1>5. \A j \in i + 1 .. Len(U) : \E k \in S \cup R : U[j] = Result(k)
  <2>1. \A j \in i + 1 .. Len(T) : \E k \in S \cup R : T[j] = Result(k)
    BY DEF Open
  <2>2. \A j \in 1 .. Len(p) : \E k \in S \cup R : p[j] = Result(k)
    OBVIOUS
  <2> QED
    BY <1>2, <2>1, <2>2, ZenonT(60)
<1>6. \A k \in S \cup R : \E j \in i + 1 .. Len(U) : U[j] = Result(k)
  <2>1. \A k \in S : \E j \in i + 1 .. Len(U) : U[j] = Result(k)
    BY <1>3 DEF Open
  <2>2. \A k \in R : \E j \in i + 1 .. Len(U) : U[j] = Result(k)
    BY <1>4
  <2> QED
    BY <2>1, <2>2
<1>7. \A j \in i + 1 .. Len(T), k \in 1 .. Len(p) : T[j] # p[k]
  <2>1. \A j \in i + 1 .. Len(T) : \E k \in S : T[j] = Result(k)
    BY DEF Open
  <2>2. \A k \in S, n \in R : Result(k) # Result(n)
    BY DEF Result
  <2> QED
    BY <2>1, <2>2
<1>8. ASSUME NEW j \in i + 1 .. Len(U), NEW k \in i + 1 .. Len(U), U[j] = U[k] PROVE j = k
  <2>1. CASE j \in i + 1 .. Len(T) /\ U[j] = T[j]
    <3>1. k \in i + 1 .. Len(T) /\ U[k] = T[k]
      BY <1>2, <1>7, <1>8, <2>1
    <3> QED
      BY <1>8, <2>1, <3>1 DEF Open
  <2>2. CASE j - Len(T) \in 1 .. Len(p) /\ U[j] = p[j - Len(T)]
    <3>1. k - Len(T) \in 1 .. Len(p) /\ U[k] = p[k - Len(T)]
      BY <1>2, <1>7, <1>8, <2>2
    <3>2. j - Len(T) = k - Len(T)
      BY <1>8, <2>2, <3>1 DEF Once
    <3>3. j \in Int /\ k \in Int
      OBVIOUS
    <3> QED
      BY <1>1, <3>2, <3>3
  <2> QED
    BY <1>2, <2>1, <2>2
<1>9. Open(U, i, S \cup R)
  BY <1>5, <1>6, <1>8 DEF Open
<1> QED
  BY <1>9 DEF U

(***************************************************************************)
(* With the results of all calls the message is answered.                  *)
(***************************************************************************)
LEMMA OpenCloses ==
  ASSUME NEW T \in Seq(Entry), NEW i \in 1 .. Len(T), Open(T, i, Tool)
  PROVE  Closed(T, i)
<1>1. Len(T) \in Nat /\ Tools \in Nat /\ i \in Nat /\ i <= Len(T) /\ i > 0
  BY LenProperties, ToolAssumption
<1>2. \A j \in 1 .. Len(T) : T[j] \in Entry
  BY ElementOfSeq
<1> DEFINE n == Len(T) - i
           f == [j \in 1 .. n |-> T[j + i]]
<1>3. n \in Nat /\ n + i = Len(T)
  BY <1>1
<1> HIDE DEF n
<1>4. \A j \in 1 .. n : j + i \in i + 1 .. Len(T) /\ j + i \in 1 .. Len(T)
  BY <1>1, <1>3
<1>5. \A j \in i + 1 .. Len(T) : j - i \in 1 .. n /\ (j - i) + i = j
  BY <1>1, <1>3
<1>6. \A j \in 1 .. n : f[j] = T[j + i]
  OBVIOUS
<1>7. f \in [1 .. n -> Entry]
  BY <1>2, <1>4
<1> HIDE DEF f
<1>8. \A j \in 1 .. n : \E k \in Tool : f[j] = Result(k)
  BY <1>4, <1>6, SMTT(30) DEF Open
<1>9. \A k \in Tool : \E j \in 1 .. n : f[j] = Result(k)
  <2> TAKE k \in Tool
  <2>1. PICK j \in i + 1 .. Len(T) : T[j] = Result(k)
    BY DEF Open
  <2>2. j - i \in 1 .. n /\ f[j - i] = T[j]
    BY <1>5, <1>6
  <2> QED
    BY <2>1, <2>2
<1>10. ASSUME NEW j \in 1 .. n, NEW k \in 1 .. n, f[j] = f[k] PROVE j = k
  <2>1. j + i = k + i
    BY <1>4, <1>6, <1>10 DEF Open
  <2> QED
    BY <1>1, <1>3, <2>1
<1>11. n = Tools
  BY <1>3, <1>7, <1>8, <1>9, <1>10, AllResults
<1>12. i + Tools = Len(T)
  BY <1>1, <1>3, <1>11
<1>13. \A k \in Tool : Result(k)[1] = "result"
  BY DEF Result
<1> QED
  BY <1>1, <1>12, <1>13 DEF Open, Closed

(***************************************************************************)
(* With no call at work: what carries no call changes nothing.             *)
(***************************************************************************)
LEMMA OthersFollow ==
  ASSUME NEW T \in Seq(Entry), NEW p \in Seq(Entry), Answered(T, {}),
         \A j \in 1 .. Len(p) : p[j] # Call
  PROVE  Answered(T \o p, {})
<1> DEFINE U == T \o p
<1>1. \A j \in 1 .. Len(U) : \/ j \in 1 .. Len(T) /\ U[j] = T[j]
                             \/ j - Len(T) \in 1 .. Len(p) /\ U[j] = p[j - Len(T)]
  BY JoinStreams
<1>2. \A i \in 1 .. Len(T) : Closed(T, i) => Closed(U, i)
  BY ClosedStays
<1> HIDE DEF U
<1>3. \A i \in 1 .. Len(U) : U[i] = Call => Closed(U, i)
  BY <1>1, <1>2 DEF Answered
<1> QED
  BY <1>3 DEF Answered, U

(***************************************************************************)
(* The end of a run is no result: without it every call is still answered. *)
(***************************************************************************)
LEMMA EndUnsaid ==
  ASSUME NEW T \in Seq(Entry), NEW e \in {End, Failure}, Answered(T \o <<e>>, {})
  PROVE  Answered(T, {})
<1> DEFINE p == <<e>>
           U == T \o p
<1>1. p \in Seq(Entry) /\ Len(p) = 1 /\ p[1] = e
  BY Entries
<1> HIDE DEF p
<1>2. /\ Len(T) \in Nat /\ Len(U) = Len(T) + Len(p)
      /\ \A j \in 1 .. Len(T) : j \in 1 .. Len(U) /\ U[j] = T[j]
      /\ \A j \in 1 .. Len(p) : j + Len(T) \in 1 .. Len(U) /\ U[j + Len(T)] = p[j]
  BY <1>1, JoinStreams
<1>3. \A i \in 1 .. Len(U) : U[i] = Call => Closed(U, i)
  BY DEF Answered, p
<1> HIDE DEF U
<1>4. U[Len(T) + 1] = e /\ Len(U) = Len(T) + 1
  <2>1. 1 \in 1 .. Len(p) /\ 1 + Len(T) = Len(T) + 1
    BY <1>1, <1>2
  <2> QED
    BY <1>1, <1>2, <2>1
<1>5. e[1] # "result"
  BY DEF End, Failure
<1>6. Tools \in Nat \ {0}
  BY ToolAssumption
<1>7. ASSUME NEW i \in 1 .. Len(T), T[i] = Call PROVE Closed(T, i)
  <2>1. Closed(U, i)
    BY <1>2, <1>3, <1>7
  <2>2. i + Tools <= Len(T)
    <3>0. i + Tools <= Len(T) + 1 /\ i + Tools \in Nat
      BY <1>2, <1>4, <1>6, <2>1 DEF Closed
    <3> SUFFICES ASSUME i + Tools = Len(T) + 1 PROVE FALSE
      BY <1>2, <3>0, SMTT(30)
    <3>1. i + Tools \in i + 1 .. i + Tools
      BY <1>2, <1>6
    <3>2. U[i + Tools][1] = "result"
      BY <2>1, <3>1 DEF Closed
    <3> QED
      BY <1>4, <1>5, <3>2
  <2>3. \A j \in i + 1 .. i + Tools : j \in 1 .. Len(T) /\ U[j] = T[j]
    BY <1>2, <1>6, <2>2
  <2> QED
    BY <2>1, <2>2, <2>3 DEF Closed
<1> QED
  BY <1>7 DEF Answered

(***************************************************************************)
(* A new call is at work, with no result yet.                              *)
(***************************************************************************)
LEMMA CallOpens ==
  ASSUME NEW T \in Seq(Entry), Answered(T, {})
  PROVE  Answered(T \o <<Call>>, {{}})
<1> DEFINE p == <<Call>>
           U == T \o p
<1>1. p \in Seq(Entry) /\ Len(p) = 1
  BY Entries
<1> HIDE DEF p
<1>2. /\ Len(T) \in Nat /\ Len(U) = Len(T) + 1
      /\ \A j \in 1 .. Len(U) : \/ j \in 1 .. Len(T) /\ U[j] = T[j]
                                \/ j - Len(T) \in 1 .. Len(p) /\ U[j] = p[j - Len(T)]
  <2> HIDE DEF U
  <2>1. /\ Len(T) \in Nat /\ Len(T \o p) = Len(T) + Len(p)
        /\ \A j \in 1 .. Len(T \o p) :
              \/ j \in 1 .. Len(T) /\ (T \o p)[j] = T[j]
              \/ j - Len(T) \in 1 .. Len(p) /\ (T \o p)[j] = p[j - Len(T)]
    BY <1>1, JoinStreams
  <2> QED
    BY ONLY <1>1, <2>1 DEF U
<1>3. \A i \in 1 .. Len(T) : Closed(T, i) => Closed(U, i)
  BY <1>1, ClosedStays
<1> HIDE DEF U
<1>4. \A i \in 1 .. Len(U) : (i \in 1 .. Len(T) /\ U[i] = T[i]) \/ i = Len(U)
  BY <1>1, <1>2
<1>5. Open(U, Len(U), {})
  BY <1>2 DEF Open
<1>6. \A i \in 1 .. Len(U) : U[i] = Call => Closed(U, i) \/ Open(U, i, {})
  BY <1>3, <1>4, <1>5 DEF Answered
<1> QED
  BY <1>6 DEF Answered, U, p

(***************************************************************************)
(* Results of tools that had none go to the call at work.                  *)
(***************************************************************************)
LEMMA ResultsFollow ==
  ASSUME NEW T \in Seq(Entry), NEW p \in Seq(Entry),
         NEW S \in SUBSET Tool, NEW R \in SUBSET Tool, S \cap R = {}, Answered(T, {S}),
         \A j \in 1 .. Len(p) : \E k \in R : p[j] = Result(k),
         \A k \in R : \E j \in 1 .. Len(p) : p[j] = Result(k),
         Once(p)
  PROVE  Answered(T \o p, {S \cup R})
<1> DEFINE U == T \o p
<1>1. \A j \in 1 .. Len(U) : \/ j \in 1 .. Len(T) /\ U[j] = T[j]
                             \/ j - Len(T) \in 1 .. Len(p) /\ U[j] = p[j - Len(T)]
  BY JoinStreams
<1>2. \A i \in 1 .. Len(T) : Closed(T, i) => Closed(U, i)
  BY ClosedStays
<1>3. \A i \in 1 .. Len(T) : Open(T, i, S) => Open(U, i, S \cup R)
  BY OpenGrows
<1>4. \A k \in R : Result(k) # Call
  BY Entries
<1> HIDE DEF U
<1>5. \A i \in 1 .. Len(U) : U[i] = Call => i \in 1 .. Len(T) /\ T[i] = Call
  BY <1>1, <1>4, ZenonT(60)
<1>6. \A i \in 1 .. Len(U) : U[i] = Call => Closed(U, i) \/ Open(U, i, S \cup R)
  BY <1>2, <1>3, <1>5 DEF Answered
<1> QED
  BY <1>6 DEF Answered, U

(***************************************************************************)
(* When all its tools have a result nothing is at work.                    *)
(***************************************************************************)
LEMMA AllFollowed ==
  ASSUME NEW T \in Seq(Entry), Answered(T, {Tool})
  PROVE  Answered(T, {})
  BY OpenCloses DEF Answered

-----------------------------------------------------------------------------
(* What a turn of the loop does.                                           *)

ToolState == {"none", "wait", "run", "join", "over", "skipped"}
Stage == {"none", "model", "tools", "turnend", "yield", "over"}

\* The messages in the two queues and those that run r has found go back to the
\* queues, stay with the run or are pushed with es.
Moved(r, es) ==
    /\ Once(steering) /\ Once(follow) /\ Once(pend[r])
    /\ Held(steering) \cap (Held(follow) \cup Held(pend[r])) = {}
    /\ Held(follow) \cap Held(pend[r]) = {}
    =>
    /\ Held(steering) \cup Held(follow) \cup Held(pend[r]) =
          Held(steering)' \cup Held(follow)' \cup Held(pend[r])' \cup Users(es)
    /\ Once(steering)' /\ Once(follow)' /\ Once(pend[r])' /\ UsersOnce(es)
    /\ Held(steering)' \cap (Held(follow)' \cup Held(pend[r])' \cup Users(es)) = {}
    /\ Held(follow)' \cap (Held(pend[r])' \cup Users(es)) = {}
    /\ Held(pend[r])' \cap Users(es) = {}

\* The loop of run r pushes es and goes on at l.
Effect(r, es, l) ==
    /\ Push(r, es)
    /\ pc[r] \in {"model", "tools", "turnend", "yield"}
    /\ l \in Stage \ {"none"} /\ Goto(r, l)
    /\ \A i \in 1 .. Len(es) : es[i] \in {End, Failure} => i = Len(es) /\ l = "over"
    /\ UNCHANGED <<gone, lost, sent, agentVars, runVars>>
    /\ steering' \in Seq(Message) /\ follow' \in Seq(Message)
    /\ pend' \in [Run -> Seq(Message)] /\ tool' \in [Run -> [Tool -> ToolState]]
    /\ calls' \in 0 .. MaxCalls
    /\ active # r => UNCHANGED <<steering, follow>>
    /\ \A s \in Run \ {r} : pend'[s] = pend[s] /\ tool'[s] = tool[s]
    /\ l # "tools" => pend'[r] = <<>> /\ tool'[r] = NoTools
    /\ active = r => Moved(r, es)
    /\ active = r => \A T \in Seq(Entry) :
          Answered(T, AtTools(r)) => Answered(T \o es, AtTools(r)')

(***************************************************************************)
(* A poll finds messages for the active run alone.                         *)
(***************************************************************************)
LEMMA PollFacts ==
  ASSUME NEW q \in Seq(Message), NEW r \in Run
  PROVE  /\ Polled(r, q) \in Seq(Message) /\ Unpolled(r, q) \in Seq(Message)
         /\ active # r => Polled(r, q) = <<>> /\ Unpolled(r, q) = q
         /\ Held(q) = Held(Polled(r, q)) \cup Held(Unpolled(r, q))
         /\ Once(q) => /\ Once(Polled(r, q)) /\ Once(Unpolled(r, q))
                       /\ Held(Polled(r, q)) \cap Held(Unpolled(r, q)) = {}
<1>1. CASE active = r
  BY <1>1, TakenAndLeft DEF Polled, Unpolled
<1>2. CASE active # r
  <2>1. Polled(r, q) = <<>> /\ Unpolled(r, q) = q
    BY <1>2 DEF Polled, Unpolled
  <2>2. Held(<<>>) = {} /\ Once(<<>>) /\ <<>> \in Seq(Message)
    <3>1. 1 .. Len(<<>>) = {} /\ <<>> \in Seq(Message)
      BY EmptySeq
    <3> QED
      BY <3>1 DEF Held, Once
  <2> QED
    BY <1>2, <2>1, <2>2
<1> QED
  BY <1>1, <1>2

(* The empty sequence holds no message. *)
LEMMA Nothing ==
  /\ Held(<<>>) = {} /\ Once(<<>>) /\ Users(<<>>) = {} /\ UsersOnce(<<>>)
  /\ <<>> \in Seq(Message) /\ <<>> \in Seq(Entry) /\ 1 .. Len(<<>>) = {}
<1>1. 1 .. Len(<<>>) = {} /\ <<>> \in Seq(Message) /\ <<>> \in Seq(Entry)
  BY EmptySeq
<1> QED
  BY <1>1 DEF Held, Once, Users, UsersOnce

(***************************************************************************)
(* To start tools, or to skip them, ends none.                             *)
(***************************************************************************)
LEMMA StartedFacts ==
  ASSUME NEW t \in [Tool -> ToolState], NEW stop \in BOOLEAN
  PROVE  /\ Started(t, stop) \in [Tool -> ToolState]
         /\ \A k \in Tool : Started(t, stop)[k] \in {"join", "over"} <=> t[k] \in {"join", "over"}
  BY DEF Started, ToolState

(***************************************************************************)
(* The events of the loop itself.                                          *)
(***************************************************************************)
LEMMA LoopEvents ==
  /\ \A e \in {Text, Stopped, Call, End, Failure} :
        <<e>> \in Seq(Entry) /\ Users(<<e>>) = {} /\ UsersOnce(<<e>>)
  /\ \A i \in Tool :
        <<Result(i)>> \in Seq(Entry) /\ Users(<<Result(i)>>) = {} /\ UsersOnce(<<Result(i)>>)
  /\ \A S \in SUBSET Tool : Users(Results(S)) = {} /\ UsersOnce(Results(S))
<1>1. ASSUME NEW e \in Entry, \A m \in Message : e # <<"user", m>>
      PROVE  <<e>> \in Seq(Entry) /\ Users(<<e>>) = {} /\ UsersOnce(<<e>>)
  <2> DEFINE p == <<e>>
  <2>1. p \in Seq(Entry) /\ Len(p) = 1 /\ p[1] = e
    OBVIOUS
  <2> HIDE DEF p
  <2>2. \A i \in 1 .. Len(p) : p[i] = e
    BY <2>1
  <2>3. Users(p) = {} /\ UsersOnce(p)
    BY <1>1, <2>1, <2>2, NoUsers
  <2> QED
    BY <2>1, <2>3 DEF p
<1>2. ASSUME NEW S \in SUBSET Tool PROVE Users(Results(S)) = {} /\ UsersOnce(Results(S))
  <2>1. /\ Results(S) \in Seq(Entry)
        /\ \A i \in 1 .. Len(Results(S)) : \E k \in S : Results(S)[i] = Result(k)
    BY ResultsFacts
  <2>2. \A i \in 1 .. Len(Results(S)) : \A m \in Message : Results(S)[i] # <<"user", m>>
    BY <2>1, Entries
  <2> QED
    BY <2>1, <2>2, NoUsers
<1>3. \A e \in {Text, Stopped, Call, End, Failure} : e \in Entry /\ \A m \in Message : e # <<"user", m>>
  BY Entries
<1>4. \A i \in Tool : Result(i) \in Entry /\ \A m \in Message : Result(i) # <<"user", m>>
  BY Entries
<1> QED
  BY <1>1, <1>2, <1>3, <1>4

(***************************************************************************)
(* The loop pushes events of its own and leaves the messages where they    *)
(* are.                                                                    *)
(***************************************************************************)
LEMMA StaysPut ==
  ASSUME NEW r \in Run, NEW es, UNCHANGED <<steering, follow>>, pend'[r] = pend[r],
         Users(es) = {}, UsersOnce(es)
  PROVE  Moved(r, es)
<1>1. /\ Held(steering)' = Held(steering) /\ Once(steering)' = Once(steering)
      /\ Held(follow)' = Held(follow) /\ Once(follow)' = Once(follow)
  BY DEF Held, Once
<1>2. Held(pend[r])' = Held(pend[r]) /\ Once(pend[r])' = Once(pend[r])
  BY DEF Held, Once
<1> QED
  BY <1>1, <1>2 DEF Moved

(***************************************************************************)
(* An event of its own at the end of a stream without ends.                *)
(***************************************************************************)
LEMMA LastEvent ==
  ASSUME NEW p \in Seq(Entry), NEW e \in {Text, Stopped, Call, End, Failure},
         \A i \in 1 .. Len(p) : p[i] \notin {End, Failure}, Users(p) = {}
  PROVE  /\ p \o <<e>> \in Seq(Entry)
         /\ \A i \in 1 .. Len(p \o <<e>>) :
               (p \o <<e>>)[i] \in {End, Failure} => i = Len(p \o <<e>>) /\ e \in {End, Failure}
         /\ Users(p \o <<e>>) = {} /\ UsersOnce(p \o <<e>>)
<1> DEFINE q == <<e>>
           c == p \o q
<1>1. q \in Seq(Entry) /\ Len(q) = 1 /\ q[1] = e /\ Users(q) = {} /\ UsersOnce(q)
  BY LoopEvents
<1> HIDE DEF q
<1>2. /\ c \in Seq(Entry) /\ Len(p) \in Nat /\ Len(c) = Len(p) + Len(q)
      /\ \A i \in 1 .. Len(c) : \/ i \in 1 .. Len(p) /\ c[i] = p[i]
                                \/ i - Len(p) \in 1 .. Len(q) /\ c[i] = q[i - Len(p)]
  BY <1>1, JoinStreams
<1>3. Users(c) = {} /\ UsersOnce(p)
  <2>1. Users(c) = Users(p) \cup Users(q)
    BY <1>1, JoinedUsers
  <2>2. UsersOnce(p)
    BY DEF Users, UsersOnce
  <2> QED
    BY <1>1, <2>1, <2>2
<1>4. UsersOnce(c)
  BY <1>3 DEF Users, UsersOnce
<1> HIDE DEF c
<1>5. \A i \in 1 .. Len(c) : c[i] \in {End, Failure} => i = Len(c) /\ e \in {End, Failure}
  <2> SUFFICES ASSUME NEW i \in 1 .. Len(c), c[i] \in {End, Failure}
               PROVE  i = Len(c) /\ e \in {End, Failure}
    OBVIOUS
  <2>1. i - Len(p) \in 1 .. Len(q) /\ c[i] = q[i - Len(p)]
    BY <1>2
  <2>2. i - Len(p) = 1
    BY <1>1, <2>1
  <2> QED
    BY <1>1, <1>2, <2>1, <2>2
<1> QED
  BY <1>2, <1>3, <1>4, <1>5 DEF c, q

(***************************************************************************)
(* A message cut short: what is pushed for it ends the run, and any call   *)
(* in it has its results.                                                  *)
(***************************************************************************)
LEMMA CutShortEvents ==
  ASSUME NEW p \in {<<Stopped>>, <<Call>> \o Results(Tool)}
  PROVE  /\ p \o <<End>> \in Seq(Entry)
         /\ \A i \in 1 .. Len(p \o <<End>>) :
               (p \o <<End>>)[i] \in {End, Failure} => i = Len(p \o <<End>>)
         /\ Users(p \o <<End>>) = {} /\ UsersOnce(p \o <<End>>)
         /\ \A T \in Seq(Entry) : Answered(T, {}) => Answered(T \o (p \o <<End>>), {})
<1> DEFINE e == <<End>>
           R == Results(Tool)
           c == <<Call>>
<1>1. /\ e \in Seq(Entry) /\ Len(e) = 1 /\ e[1] = End /\ End # Call
      /\ c \in Seq(Entry) /\ Len(c) = 1 /\ c[1] = Call /\ Users(c) = {}
  BY LoopEvents, Entries
<1>2. /\ R \in Seq(Entry) /\ Users(R) = {} /\ Once(R)
      /\ \A i \in 1 .. Len(R) : \E k \in Tool : R[i] = Result(k)
      /\ \A k \in Tool : \E i \in 1 .. Len(R) : R[i] = Result(k)
  BY ResultsFacts, LoopEvents
<1>3. CASE p = <<Stopped>>
  <2>1. p \in Seq(Entry) /\ Len(p) = 1 /\ p[1] = Stopped /\ Users(p) = {}
    BY <1>3, LoopEvents
  <2>2. \A i \in 1 .. Len(p) : p[i] \notin {End, Failure} /\ p[i] # Call
    BY <2>1, Entries
  <2>3. \A i \in 1 .. Len(p \o e) : (p \o e)[i] # Call
    <3> DEFINE q == p \o e
    <3>1. \A i \in 1 .. Len(q) : \/ i \in 1 .. Len(p) /\ q[i] = p[i]
                                 \/ i - Len(p) \in 1 .. Len(e) /\ q[i] = e[i - Len(p)]
      BY <1>1, <2>1, JoinStreams
    <3> HIDE DEF q, e
    <3> QED
      BY <1>1, <2>2, <3>1 DEF q
  <2>4. p \o e \in Seq(Entry)
    BY <2>1, <2>2, LastEvent
  <2>5. \A T \in Seq(Entry) : Answered(T, {}) => Answered(T \o (p \o e), {})
    BY <2>3, <2>4, OthersFollow
  <2> QED
    BY <2>1, <2>2, <2>5, LastEvent
<1>4. CASE p = c \o R
  <2>1. /\ p \in Seq(Entry)
        /\ \A i \in 1 .. Len(p) : \/ i \in 1 .. Len(c) /\ p[i] = c[i]
                                  \/ i - Len(c) \in 1 .. Len(R) /\ p[i] = R[i - Len(c)]
    BY <1>1, <1>2, <1>4, JoinStreams
  <2>2. Users(p) = {}
    BY <1>1, <1>2, <1>4, JoinedUsers
  <2>3. \A i \in 1 .. Len(p) : p[i] \notin {End, Failure}
    <3> HIDE DEF c, R
    <3>1. \A i \in 1 .. Len(c) : c[i] \notin {End, Failure}
      BY <1>1, Entries
    <3>2. \A i \in 1 .. Len(R) : R[i] \notin {End, Failure}
      BY <1>2, Entries
    <3> QED
      BY <2>1, <3>1, <3>2
  <2>4. ASSUME NEW T \in Seq(Entry), Answered(T, {}) PROVE Answered(T \o (p \o e), {})
    <3>1. T \o c \in Seq(Entry) /\ (T \o c) \o R \in Seq(Entry)
      BY <1>1, <1>2, ConcatProperties
    <3>2. Answered(T \o c, {{}})
      BY <2>4, CallOpens
    <3>3. Answered((T \o c) \o R, {Tool})
      <4> HIDE DEF c, R
      <4>1. {} \in SUBSET Tool /\ Tool \in SUBSET Tool /\ {} \cap Tool = {} /\ {} \cup Tool = Tool
        OBVIOUS
      <4>2. Answered((T \o c) \o R, {{} \cup Tool})
        BY <1>2, <3>1, <3>2, <4>1, ResultsFollow
      <4> QED
        BY <4>1, <4>2
    <3>4. Answered((T \o c) \o R, {})
      BY <3>1, <3>3, AllFollowed
    <3>5. \A i \in 1 .. Len(e) : e[i] # Call
      <4> HIDE DEF e
      <4> QED
        BY <1>1
    <3>6. Answered(((T \o c) \o R) \o e, {})
      BY <1>1, <3>1, <3>4, <3>5, OthersFollow
    <3>7. ((T \o c) \o R) \o e = T \o (p \o e)
      <4>1. (T \o c) \o R = T \o p
        BY <1>1, <1>2, <1>4, ConcatAssociative
      <4>2. (T \o p) \o e = T \o (p \o e)
        BY <1>1, <2>1, ConcatAssociative
      <4> QED
        BY <4>1, <4>2
    <3> QED
      BY <3>6, <3>7
  <2> QED
    BY <2>1, <2>2, <2>3, <2>4, LastEvent
<1> QED
  BY <1>3, <1>4

(***************************************************************************)
(* The model answers, is cut short, or throws.                             *)
(***************************************************************************)
LEMMA ModelEffect ==
  ASSUME TypeOK, ToolsOnly, NEW r \in Run, Model(r)
  PROVE  \E es \in Seq(Entry), l \in Stage : Effect(r, es, l)
<1>0. /\ steering \in Seq(Message) /\ follow \in Seq(Message)
      /\ pend \in [Run -> Seq(Message)] /\ tool \in [Run -> [Tool -> ToolState]]
      /\ calls \in 0 .. MaxCalls /\ pc[r] = "model" /\ pc \in [Run -> Stage]
      /\ pend[r] = <<>> /\ tool[r] = NoTools
  BY DEF TypeOK, ToolState, Stage, ToolsOnly, Model
<1>1. UNCHANGED <<steering, follow, gone, lost, sent, agentVars, runVars, pend>>
  BY DEF Model, queueVars
<1>2. AtTools(r) = {}
  BY <1>0 DEF AtTools
<1>3. ASSUME NEW es \in Seq(Entry), NEW l \in {"turnend", "over"}, Push(r, es), Goto(r, l),
             UNCHANGED <<tool, calls>>,
             \A i \in 1 .. Len(es) : es[i] \in {End, Failure} => i = Len(es) /\ l = "over",
             Users(es) = {}, UsersOnce(es),
             \A T \in Seq(Entry) : Answered(T, {}) => Answered(T \o es, {})
      PROVE  Effect(r, es, l)
  <2>1. Moved(r, es)
    BY <1>1, <1>3, StaysPut
  <2>2. AtTools(r)' = {}
    BY <1>0, <1>3 DEF AtTools, Goto
  <2>3. pend' = pend /\ tool' = tool /\ calls' = calls /\ steering' = steering /\ follow' = follow
    BY <1>1, <1>3
  <2> QED
    BY <1>0, <1>1, <1>2, <1>3, <2>1, <2>2, <2>3 DEF Effect, Stage
<1>4. CASE /\ Push(r, <<Call>>)
           /\ tool' = [tool EXCEPT ![r] = Started([i \in Tool |-> "wait"], FALSE)]
           /\ r \notin aborted /\ calls < MaxCalls /\ calls' = calls + 1
           /\ Goto(r, "tools")
  <2> DEFINE es == <<Call>>
             t == Started([i \in Tool |-> "wait"], FALSE)
  <2>1. es \in Seq(Entry) /\ Len(es) = 1 /\ es[1] = Call /\ Users(es) = {} /\ UsersOnce(es)
    BY LoopEvents
  <2>2. t \in [Tool -> ToolState] /\ \A k \in Tool : t[k] \notin {"join", "over"}
    <3>1. [i \in Tool |-> "wait"] \in [Tool -> ToolState]
      BY DEF ToolState
    <3>2. \A k \in Tool : [i \in Tool |-> "wait"][k] \notin {"join", "over"}
      OBVIOUS
    <3> HIDE DEF t
    <3> QED
      BY <3>1, <3>2, StartedFacts DEF t
  <2>3. tool' = [tool EXCEPT ![r] = t]
    BY <1>4
  <2> HIDE DEF es, t
  <2>4. Moved(r, es)
    BY <1>1, <2>1, StaysPut
  <2>5. tool'[r] = t /\ \A s \in Run \ {r} : tool'[s] = tool[s]
    BY <1>0, <2>3
  <2>6. AtTools(r)' = {{}}
    <3>1. pc'[r] = "tools"
      BY <1>0, <1>4 DEF Goto
    <3>2. Ended(r)' = {}
      BY <2>2, <2>5 DEF Ended
    <3> QED
      BY <3>1, <3>2 DEF AtTools
  <2>7. \A T \in Seq(Entry) : Answered(T, AtTools(r)) => Answered(T \o es, AtTools(r)')
    BY <1>2, <2>6, CallOpens DEF es
  <2>8. \A i \in 1 .. Len(es) : es[i] \notin {End, Failure}
    BY <2>1, Entries
  <2>9. tool' \in [Run -> [Tool -> ToolState]] /\ calls' \in 0 .. MaxCalls
    <3>1. MaxCalls \in Nat
      BY BoundAssumption
    <3>2. calls' \in 0 .. MaxCalls
      BY <1>0, <1>4, <3>1
    <3> QED
      BY <1>0, <2>2, <2>3, <3>2
  <2>10. Push(r, es)
    BY <1>4 DEF es
  <2>11. Effect(r, es, "tools")
    BY <1>0, <1>1, <1>4, <2>4, <2>5, <2>7, <2>8, <2>9, <2>10 DEF Effect, Stage
  <2> QED
    BY <2>1, <2>11 DEF Stage
<1>5. CASE Push(r, <<Text>>) /\ Goto(r, "turnend") /\ UNCHANGED <<tool, calls>>
  <2> DEFINE es == <<Text>>
  <2>1. es \in Seq(Entry) /\ Len(es) = 1 /\ es[1] = Text /\ Users(es) = {} /\ UsersOnce(es)
    BY LoopEvents
  <2> HIDE DEF es
  <2>2. \A i \in 1 .. Len(es) : es[i] \notin {End, Failure} /\ es[i] # Call
    BY <2>1, Entries
  <2>3. \A T \in Seq(Entry) : Answered(T, {}) => Answered(T \o es, {})
    BY <2>1, <2>2, OthersFollow
  <2>4. Effect(r, es, "turnend")
    BY <1>3, <1>5, <2>1, <2>2, <2>3 DEF es
  <2> QED
    BY <2>1, <2>4 DEF Stage
<1>6. CASE CutShort(r) /\ Goto(r, "over") /\ UNCHANGED <<tool, calls>>
  <2>1. PICK p \in {<<Stopped>>, <<Call>> \o Results(Tool)} : Push(r, p \o <<End>>)
    BY <1>6 DEF CutShort
  <2> DEFINE es == p \o <<End>>
  <2>2. /\ es \in Seq(Entry)
        /\ \A i \in 1 .. Len(es) : es[i] \in {End, Failure} => i = Len(es)
        /\ Users(es) = {} /\ UsersOnce(es)
        /\ \A T \in Seq(Entry) : Answered(T, {}) => Answered(T \o es, {})
    BY CutShortEvents
  <2>3. Push(r, es)
    BY <2>1
  <2> HIDE DEF es
  <2>4. Effect(r, es, "over")
    BY <1>3, <1>6, <2>2, <2>3
  <2> QED
    BY <2>2, <2>4 DEF Stage
<1>7. CASE Throw(r) /\ Goto(r, "over") /\ UNCHANGED <<tool, calls>>
  <2> DEFINE es == <<Failure>>
  <2>1. es \in Seq(Entry) /\ Len(es) = 1 /\ es[1] = Failure /\ Users(es) = {} /\ UsersOnce(es)
    BY LoopEvents
  <2>2. Push(r, es)
    BY <1>7 DEF Throw
  <2> HIDE DEF es
  <2>3. \A i \in 1 .. Len(es) : i = Len(es) /\ es[i] # Call
    BY <2>1 DEF Failure, Call
  <2>4. \A T \in Seq(Entry) : Answered(T, {}) => Answered(T \o es, {})
    BY <2>1, <2>3, OthersFollow
  <2>5. Effect(r, es, "over")
    BY <1>3, <1>7, <2>1, <2>2, <2>3, <2>4
  <2> QED
    BY <2>1, <2>5 DEF Stage
<1> QED
  BY <1>4, <1>5, <1>6, <1>7 DEF Model

(***************************************************************************)
(* What a poll found is pushed, or stays with the run; what had            *)
(* interrupted the tools is pushed.                                        *)
(***************************************************************************)
LEMMA MovesOut ==
  ASSUME NEW r \in Run, NEW es, steering \in Seq(Message), follow \in Seq(Message)
  PROVE  /\ /\ pend[r] = <<>> /\ pend'[r] = <<>> /\ follow' = follow
            /\ steering' = Unpolled(r, steering)
            /\ Users(es) = Held(Polled(r, steering))
            /\ Once(Polled(r, steering)) => UsersOnce(es)
            => Moved(r, es)
         /\ /\ pend[r] = <<>> /\ pend'[r] = <<>> /\ steering' = steering
            /\ follow' = Unpolled(r, follow)
            /\ Users(es) = Held(Polled(r, follow))
            /\ Once(Polled(r, follow)) => UsersOnce(es)
            => Moved(r, es)
         /\ /\ pend[r] = <<>> /\ follow' = follow
            /\ steering' = Unpolled(r, steering)
            /\ pend'[r] = Polled(r, steering)
            /\ Users(es) = {} /\ UsersOnce(es)
            => Moved(r, es)
         /\ /\ pend'[r] = <<>> /\ UNCHANGED <<steering, follow>>
            /\ Users(es) = Held(pend[r])
            /\ Once(pend[r]) => UsersOnce(es)
            => Moved(r, es)
<1>1. /\ Held(steering)' = Held(steering') /\ Once(steering)' = Once(steering')
      /\ Held(follow)' = Held(follow') /\ Once(follow)' = Once(follow')
      /\ Held(pend[r])' = Held(pend'[r]) /\ Once(pend[r])' = Once(pend'[r])
  BY DEF Held, Once
<1>2. \A q \in {steering, follow} :
         /\ Held(q) = Held(Polled(r, q)) \cup Held(Unpolled(r, q))
         /\ Once(q) => /\ Once(Polled(r, q)) /\ Once(Unpolled(r, q))
                       /\ Held(Polled(r, q)) \cap Held(Unpolled(r, q)) = {}
  <2> TAKE q \in {steering, follow}
  <2>1. q \in Seq(Message)
    OBVIOUS
  <2> QED
    BY <2>1, PollFacts
<1>3. Held(<<>>) = {} /\ Once(<<>>)
  BY Nothing
<1>4. ASSUME pend[r] = <<>>, pend'[r] = <<>>, follow' = follow, steering' = Unpolled(r, steering),
             Users(es) = Held(Polled(r, steering)), Once(Polled(r, steering)) => UsersOnce(es)
      PROVE  Moved(r, es)
  BY <1>1, <1>2, <1>3, <1>4 DEF Moved
<1>5. ASSUME pend[r] = <<>>, pend'[r] = <<>>, steering' = steering, follow' = Unpolled(r, follow),
             Users(es) = Held(Polled(r, follow)), Once(Polled(r, follow)) => UsersOnce(es)
      PROVE  Moved(r, es)
  BY <1>1, <1>2, <1>3, <1>5 DEF Moved
<1>6. ASSUME pend[r] = <<>>, follow' = follow, steering' = Unpolled(r, steering),
             pend'[r] = Polled(r, steering), Users(es) = {}, UsersOnce(es)
      PROVE  Moved(r, es)
  BY <1>1, <1>2, <1>3, <1>6 DEF Moved
<1>7. ASSUME pend'[r] = <<>>, UNCHANGED <<steering, follow>>,
             Users(es) = Held(pend[r]), Once(pend[r]) => UsersOnce(es)
      PROVE  Moved(r, es)
  BY <1>1, <1>3, <1>7 DEF Moved
<1> QED
  BY <1>4, <1>5, <1>6, <1>7

(***************************************************************************)
(* A tool ends: its result joins those of the call at work.                *)
(***************************************************************************)
LEMMA EndToolEffect ==
  ASSUME TypeOK, NEW r \in Run, NEW i \in Tool, EndTool(r, i)
  PROVE  \E es \in Seq(Entry), l \in Stage : Effect(r, es, l)
<1> DEFINE es == <<Result(i)>>
<1>0. /\ steering \in Seq(Message) /\ follow \in Seq(Message)
      /\ pend \in [Run -> Seq(Message)] /\ tool \in [Run -> [Tool -> ToolState]]
      /\ calls \in 0 .. MaxCalls /\ pc[r] = "tools" /\ pc \in [Run -> Stage]
      /\ tool[r][i] = "run"
  BY DEF TypeOK, ToolState, Stage, EndTool
<1>1. UNCHANGED <<follow, gone, lost, sent, agentVars, runVars, pc, calls>> /\ Push(r, es)
  BY DEF EndTool
<1>2. /\ es \in Seq(Entry) /\ Len(es) = 1 /\ es[1] = Result(i)
      /\ Users(es) = {} /\ UsersOnce(es)
  BY LoopEvents
<1> HIDE DEF es
<1>3. Goto(r, "tools")
  BY <1>0, <1>1 DEF Goto
<1>4. ASSUME NEW t \in [Tool -> ToolState], tool' = [tool EXCEPT ![r] = t],
             \A k \in Tool : t[k] \in {"join", "over"} <=> k = i \/ tool[r][k] \in {"join", "over"}
      PROVE  /\ tool' \in [Run -> [Tool -> ToolState]]
             /\ \A s \in Run \ {r} : tool'[s] = tool[s]
             /\ \A T \in Seq(Entry) : Answered(T, AtTools(r)) => Answered(T \o es, AtTools(r)')
  <2>1. tool' \in [Run -> [Tool -> ToolState]] /\ tool'[r] = t /\ \A s \in Run \ {r} : tool'[s] = tool[s]
    BY <1>0, <1>4
  <2>2. /\ Ended(r)' = Ended(r) \cup {i} /\ i \notin Ended(r)
        /\ Ended(r) \in SUBSET Tool /\ {i} \in SUBSET Tool /\ Ended(r) \cap {i} = {}
    BY <1>0, <1>4, <2>1 DEF Ended
  <2>3. AtTools(r) = {Ended(r)} /\ AtTools(r)' = {Ended(r) \cup {i}}
    BY <1>0, <1>1, <2>2 DEF AtTools
  <2>4. /\ \A j \in 1 .. Len(es) : \E k \in {i} : es[j] = Result(k)
        /\ \A k \in {i} : \E j \in 1 .. Len(es) : es[j] = Result(k)
        /\ Once(es)
    BY <1>2 DEF Once
  <2>5. \A T \in Seq(Entry) : Answered(T, {Ended(r)}) => Answered(T \o es, {Ended(r) \cup {i}})
    BY <1>2, <2>2, <2>4, ResultsFollow
  <2> QED
    BY <2>1, <2>3, <2>5
<1>5. /\ tool' \in [Run -> [Tool -> ToolState]]
      /\ \A s \in Run \ {r} : tool'[s] = tool[s]
      /\ \A T \in Seq(Entry) : Answered(T, AtTools(r)) => Answered(T \o es, AtTools(r)')
  <2>1. CASE ~Interrupts \/ Interrupted(r)
    <3> DEFINE u == [tool[r] EXCEPT ![i] = "over"]
               t == Started(u, Interrupted(r))
    <3>1. tool' = [tool EXCEPT ![r] = t]
      BY <1>0, <2>1 DEF EndTool, CheckSteering
    <3>2. /\ u \in [Tool -> ToolState]
          /\ \A k \in Tool : u[k] \in {"join", "over"} <=> k = i \/ tool[r][k] \in {"join", "over"}
      <4>1. tool[r] \in [Tool -> ToolState] /\ "over" \in ToolState
        BY <1>0 DEF ToolState
      <4> HIDE DEF ToolState
      <4> QED
        BY <4>1
    <3>3. Interrupted(r) \in BOOLEAN
      BY DEF Interrupted
    <3> HIDE DEF u
    <3>4. /\ t \in [Tool -> ToolState]
          /\ \A k \in Tool : t[k] \in {"join", "over"} <=> u[k] \in {"join", "over"}
      BY <3>2, <3>3, StartedFacts
    <3> HIDE DEF t
    <3> QED
      BY <1>4, <3>1, <3>2, <3>4
  <2>2. CASE ~(~Interrupts \/ Interrupted(r))
    <3> DEFINE t == [tool[r] EXCEPT ![i] = "join"]
    <3>1. tool' = [tool EXCEPT ![r] = t]
      BY <1>0, <2>2 DEF EndTool, CheckSteering
    <3>2. /\ t \in [Tool -> ToolState]
          /\ \A k \in Tool : t[k] \in {"join", "over"} <=> k = i \/ tool[r][k] \in {"join", "over"}
      <4>1. tool[r] \in [Tool -> ToolState] /\ "join" \in ToolState
        BY <1>0 DEF ToolState
      <4> HIDE DEF ToolState
      <4> QED
        BY <4>1
    <3> HIDE DEF t
    <3> QED
      BY <1>4, <3>1, <3>2
  <2> QED
    BY <2>1, <2>2
<1>6. /\ steering' \in Seq(Message) /\ pend' \in [Run -> Seq(Message)]
      /\ active # r => steering' = steering
      /\ \A s \in Run \ {r} : pend'[s] = pend[s]
      /\ Moved(r, es)
  <2>1. CASE UNCHANGED <<pend, steering>>
    BY <1>0, <1>1, <1>2, <2>1, StaysPut
  <2>2. CASE Poll(r) /\ ~Interrupted(r) /\ ~Checking(r)
    <3>1. pend[r] = <<>>
      BY <2>2 DEF Interrupted
    <3>2. /\ Polled(r, steering) \in Seq(Message) /\ Unpolled(r, steering) \in Seq(Message)
          /\ active # r => Unpolled(r, steering) = steering
      BY <1>0, PollFacts
    <3>3. steering' = Unpolled(r, steering) /\ pend' = [pend EXCEPT ![r] = Polled(r, steering)]
      BY <2>2 DEF Poll
    <3>4. pend'[r] = Polled(r, steering) /\ \A s \in Run \ {r} : pend'[s] = pend[s]
      BY <1>0, <3>3
    <3>5. pend' \in [Run -> Seq(Message)]
      BY <1>0, <3>2, <3>3
    <3>6. Moved(r, es)
      BY <1>0, <1>1, <1>2, <3>1, <3>3, <3>4, MovesOut
    <3> QED
      BY <3>2, <3>3, <3>4, <3>5, <3>6
  <2> QED
    BY <2>1, <2>2 DEF EndTool, CheckSteering
<1>7. \A j \in 1 .. Len(es) : es[j] \notin {End, Failure}
  BY <1>2, Entries
<1>8. Effect(r, es, "tools")
  BY <1>0, <1>1, <1>3, <1>5, <1>6, <1>7 DEF Effect, Stage
<1> QED
  BY <1>2, <1>8 DEF Stage

(***************************************************************************)
(* The answer of a steering check: no tool gets or loses a result by it.   *)
(***************************************************************************)
LEMMA EndCheckEffect ==
  ASSUME TypeOK, ToolsOnly, NEW r \in Run, EndCheck(r)
  PROVE  \E es \in Seq(Entry), l \in Stage : Effect(r, es, l)
<1>0. /\ steering \in Seq(Message) /\ follow \in Seq(Message)
      /\ pend \in [Run -> Seq(Message)] /\ tool \in [Run -> [Tool -> ToolState]]
      /\ calls \in 0 .. MaxCalls /\ pc \in [Run -> Stage] /\ buf \in [Run -> Seq(Entry)]
  BY DEF TypeOK, ToolState, Stage
<1>1. UNCHANGED <<steering, follow, gone, lost, sent, agentVars, runVars, pc, pend, calls, buf>>
  BY DEF EndCheck, queueVars
<1>2. pc[r] = "tools"
  <2>1. PICK i \in Tool : tool[r][i] = "join"
    BY DEF EndCheck, Checking
  <2>2. tool[r] # NoTools
    BY <2>1 DEF NoTools
  <2> QED
    BY <2>2 DEF ToolsOnly
<1>3. Push(r, <<>>) /\ Goto(r, "tools")
  <2>1. buf[r] \o <<>> = buf[r]
    BY <1>0, ConcatEmptySeq
  <2> QED
    BY <1>0, <1>1, <1>2, <2>1 DEF Push, Goto
<1> DEFINE u == [i \in Tool |-> IF tool[r][i] = "join" THEN "over" ELSE tool[r][i]]
           t == Started(u, pend[r] # <<>>)
<1>4. tool' = [tool EXCEPT ![r] = t]
  BY <1>0 DEF EndCheck
<1>5. /\ u \in [Tool -> ToolState]
      /\ \A k \in Tool : u[k] \in {"join", "over"} <=> tool[r][k] \in {"join", "over"}
  BY <1>0 DEF ToolState
<1> HIDE DEF u
<1>6. /\ t \in [Tool -> ToolState]
      /\ \A k \in Tool : t[k] \in {"join", "over"} <=> u[k] \in {"join", "over"}
  BY <1>5, StartedFacts
<1> HIDE DEF t
<1>7. tool' \in [Run -> [Tool -> ToolState]] /\ tool'[r] = t /\ \A s \in Run \ {r} : tool'[s] = tool[s]
  BY <1>0, <1>4, <1>6
<1>8. AtTools(r)' = AtTools(r)
  <2>1. Ended(r)' = Ended(r)
    BY <1>5, <1>6, <1>7 DEF Ended
  <2> QED
    BY <1>1, <1>2, <2>1 DEF AtTools
<1>9. Moved(r, <<>>)
  BY <1>1, Nothing, StaysPut
<1>10. \A T \in Seq(Entry) : T \o <<>> = T
  BY ConcatEmptySeq
<1>11. Effect(r, <<>>, "tools")
  BY <1>0, <1>1, <1>2, <1>3, <1>7, <1>8, <1>9, <1>10, Nothing DEF Effect, Stage
<1> QED
  BY <1>11, Nothing DEF Stage

(***************************************************************************)
(* The messages that go in behind p, and the end of a paused run.          *)
(***************************************************************************)
LEMMA InjectEvents ==
  ASSUME NEW p \in Seq(Entry), \A i \in 1 .. Len(p) : p[i] \notin {End, Failure}, Users(p) = {},
         NEW ms \in Seq(Message)
  PROVE  /\ p \o User(ms) \in Seq(Entry)
         /\ \A i \in 1 .. Len(p \o User(ms)) : (p \o User(ms))[i] \notin {End, Failure}
         /\ Users(p \o User(ms)) = Held(ms)
         /\ Once(ms) => UsersOnce(p \o User(ms))
         /\ \A T \in Seq(Entry) : Answered(T \o p, {}) => Answered(T \o (p \o User(ms)), {})
<1> DEFINE u == User(ms)
           c == p \o u
<1>1. /\ u \in Seq(Entry) /\ Len(u) = Len(ms) /\ \A i \in 1 .. Len(ms) : u[i] = <<"user", ms[i]>>
      /\ Users(u) = Held(ms) /\ (Once(ms) => UsersOnce(u))
      /\ \A i \in 1 .. Len(ms) : ms[i] \in Message
  BY UserEvents, ElementOfSeq
<1> HIDE DEF u
<1>2. \A i \in 1 .. Len(u) : u[i] \notin {End, Failure} /\ u[i] # Call
  BY <1>1, Entries
<1>3. /\ c \in Seq(Entry)
      /\ \A i \in 1 .. Len(c) : \/ i \in 1 .. Len(p) /\ c[i] = p[i]
                                \/ i - Len(p) \in 1 .. Len(u) /\ c[i] = u[i - Len(p)]
  BY <1>1, JoinStreams
<1>4. UsersOnce(p)
  BY DEF Users, UsersOnce
<1>5. Users(c) = Held(ms) /\ (Once(ms) => UsersOnce(c))
  <2>1. /\ Users(c) = Users(p) \cup Users(u)
        /\ UsersOnce(p) /\ UsersOnce(u) /\ Users(p) \cap Users(u) = {} => UsersOnce(c)
    BY <1>1, JoinedUsers
  <2> HIDE DEF c
  <2> QED
    BY <1>1, <1>4, <2>1
<1>6. ASSUME NEW T \in Seq(Entry), Answered(T \o p, {}) PROVE Answered(T \o c, {})
  <2>1. T \o p \in Seq(Entry)
    BY ConcatProperties
  <2>2. Answered((T \o p) \o u, {})
    BY <1>1, <1>2, <1>6, <2>1, OthersFollow
  <2>3. (T \o p) \o u = T \o (p \o u)
    BY <1>1, ConcatAssociative
  <2> QED
    BY <2>2, <2>3
<1> HIDE DEF c
<1>7. \A i \in 1 .. Len(c) : c[i] \notin {End, Failure}
  BY <1>2, <1>3
<1> QED
  BY <1>3, <1>5, <1>6, <1>7 DEF c, u

(* To append the end of a run adds neither message nor call. *)
LEMMA PauseEvents ==
  ASSUME NEW p \in Seq(Entry), \A i \in 1 .. Len(p) : p[i] \notin {End, Failure}, Users(p) = {}
  PROVE  /\ Append(p, End) \in Seq(Entry)
         /\ \A i \in 1 .. Len(Append(p, End)) :
               Append(p, End)[i] \in {End, Failure} => i = Len(Append(p, End))
         /\ Users(Append(p, End)) = {} /\ UsersOnce(Append(p, End))
         /\ \A T \in Seq(Entry) : Answered(T \o p, {}) => Answered(T \o Append(p, End), {})
<1> DEFINE e == <<End>>
<1>1. e \in Seq(Entry) /\ Len(e) = 1 /\ e[1] = End /\ End # Call
  BY LoopEvents, Entries
<1>2. Append(p, End) = p \o e
  BY Entries, AppendIsConcat
<1>3. ASSUME NEW T \in Seq(Entry), Answered(T \o p, {}) PROVE Answered(T \o (p \o e), {})
  <2>1. T \o p \in Seq(Entry)
    BY ConcatProperties
  <2>2. \A i \in 1 .. Len(e) : e[i] # Call
    <3> HIDE DEF e
    <3> QED
      BY <1>1
  <2>3. Answered((T \o p) \o e, {})
    BY <1>1, <1>3, <2>1, <2>2, OthersFollow
  <2>4. (T \o p) \o e = T \o (p \o e)
    BY <1>1, ConcatAssociative
  <2> QED
    BY <2>3, <2>4
<1> QED
  BY <1>2, <1>3, LastEvent

(***************************************************************************)
(* When the tools are over each has its result, and the messages that      *)
(* interrupted them, or that a poll finds, are pushed behind them.         *)
(***************************************************************************)
LEMMA ToolsEndEffect ==
  ASSUME TypeOK, NEW r \in Run, ToolsEnd(r)
  PROVE  \E es \in Seq(Entry), l \in Stage : Effect(r, es, l)
<1> DEFINE S == {i \in Tool : tool[r][i] = "skipped"}
           p == Results(S)
           ms == IF Interrupted(r) THEN pend[r] ELSE Polled(r, steering)
<1>0. /\ steering \in Seq(Message) /\ follow \in Seq(Message)
      /\ pend \in [Run -> Seq(Message)] /\ tool \in [Run -> [Tool -> ToolState]]
      /\ calls \in 0 .. MaxCalls /\ pc \in [Run -> Stage] /\ pc[r] = "tools"
  BY DEF TypeOK, ToolState, Stage, ToolsEnd
<1>1. /\ UNCHANGED <<follow, gone, lost, sent, agentVars, calls, runVars>>
      /\ pend' = [pend EXCEPT ![r] = <<>>] /\ tool' = [tool EXCEPT ![r] = NoTools]
      /\ steering' = IF Interrupted(r) THEN steering ELSE Unpolled(r, steering)
      /\ \A i \in Tool : tool[r][i] \in {"over", "skipped"}
      /\ Inject(r, p, ms) \/ Pause(r, p, ms)
  BY DEF ToolsEnd, Done
<1>2. Interrupted(r) <=> pend[r] # <<>>
  BY <1>1 DEF Interrupted, Checking
<1>3. /\ Polled(r, steering) \in Seq(Message) /\ Unpolled(r, steering) \in Seq(Message)
      /\ active # r => Unpolled(r, steering) = steering
  BY <1>0, PollFacts
<1>4. /\ p \in Seq(Entry) /\ Users(p) = {} /\ Once(p)
      /\ \A i \in 1 .. Len(p) : \E k \in S : p[i] = Result(k)
      /\ \A k \in S : \E i \in 1 .. Len(p) : p[i] = Result(k)
  BY ResultsFacts, LoopEvents
<1>5. /\ S \in SUBSET Tool /\ Ended(r) \in SUBSET Tool /\ S \cap Ended(r) = {}
      /\ Ended(r) \cup S = Tool
  BY <1>1 DEF Ended
<1>6. ms \in Seq(Message)
  BY <1>0, <1>3
<1> HIDE DEF S, p, ms
<1>7. \A T \in Seq(Entry) : Answered(T, AtTools(r)) => Answered(T \o p, {})
  <2>1. AtTools(r) = {Ended(r)}
    BY <1>0 DEF AtTools
  <2> SUFFICES ASSUME NEW T \in Seq(Entry), Answered(T, {Ended(r)}) PROVE Answered(T \o p, {})
    BY <2>1
  <2>2. Answered(T \o p, {Ended(r) \cup S})
    BY <1>4, <1>5, ResultsFollow
  <2>3. Answered(T \o p, {Tool})
    BY <1>5, <2>2
  <2>4. T \o p \in Seq(Entry)
    BY <1>4, ConcatProperties
  <2> QED
    BY <2>3, <2>4, AllFollowed
<1>8. \A i \in 1 .. Len(p) : p[i] \notin {End, Failure}
  BY <1>4, <1>5, Entries
<1>9. /\ NoTools \in [Tool -> ToolState]
      /\ <<>> \in Seq(Message)
  BY Nothing DEF NoTools, ToolState
<1>10. /\ pend' \in [Run -> Seq(Message)] /\ tool' \in [Run -> [Tool -> ToolState]]
       /\ pend'[r] = <<>> /\ tool'[r] = NoTools
       /\ \A s \in Run \ {r} : pend'[s] = pend[s] /\ tool'[s] = tool[s]
       /\ steering' \in Seq(Message)
       /\ active # r => steering' = steering
  BY <1>0, <1>1, <1>3, <1>9
<1>11. ASSUME NEW es \in Seq(Entry), NEW l \in {"model", "over"}, Push(r, es), Goto(r, l),
              \A i \in 1 .. Len(es) : es[i] \in {End, Failure} => i = Len(es) /\ l = "over",
              Users(es) = Held(ms), Once(ms) => UsersOnce(es),
              \A T \in Seq(Entry) : Answered(T \o p, {}) => Answered(T \o es, {})
       PROVE  Effect(r, es, l)
  <2>1. Moved(r, es)
    <3>1. CASE Interrupted(r)
      BY <1>0, <1>1, <1>10, <1>11, <3>1, MovesOut DEF ms
    <3>2. CASE ~Interrupted(r)
      BY <1>0, <1>1, <1>2, <1>10, <1>11, <3>2, MovesOut DEF ms
    <3> QED
      BY <3>1, <3>2
  <2>2. AtTools(r)' = {}
    BY <1>0, <1>11 DEF AtTools, Goto
  <2>3. \A T \in Seq(Entry) : Answered(T, AtTools(r)) => Answered(T \o es, AtTools(r)')
    BY <1>7, <1>11, <2>2
  <2>4. follow' \in Seq(Message) /\ calls' \in 0 .. MaxCalls
    BY <1>0, <1>1
  <2> QED
    BY <1>0, <1>1, <1>10, <1>11, <2>1, <2>3, <2>4 DEF Effect, Stage
<1>12. CASE Inject(r, p, ms)
  <2> DEFINE es == p \o User(ms)
  <2>1. /\ es \in Seq(Entry) /\ \A i \in 1 .. Len(es) : es[i] \notin {End, Failure}
        /\ Users(es) = Held(ms) /\ (Once(ms) => UsersOnce(es))
        /\ \A T \in Seq(Entry) : Answered(T \o p, {}) => Answered(T \o es, {})
    BY <1>4, <1>6, <1>8, InjectEvents
  <2>2. Push(r, es) /\ Goto(r, "model")
    BY <1>12 DEF Inject
  <2> HIDE DEF es
  <2>3. Effect(r, es, "model")
    BY <1>11, <2>1, <2>2
  <2> QED
    BY <2>1, <2>3 DEF Stage
<1>13. CASE Pause(r, p, ms)
  <2> DEFINE es == Append(p, End)
  <2>1. /\ es \in Seq(Entry) /\ \A i \in 1 .. Len(es) : es[i] \in {End, Failure} => i = Len(es)
        /\ Users(es) = {} /\ UsersOnce(es)
        /\ \A T \in Seq(Entry) : Answered(T \o p, {}) => Answered(T \o es, {})
    BY <1>4, <1>8, PauseEvents
  <2>2. Push(r, es) /\ Goto(r, "over") /\ ms = <<>>
    BY <1>13 DEF Pause
  <2>3. Held(ms) = {}
    BY <2>2, Nothing
  <2> HIDE DEF es
  <2>4. Effect(r, es, "over")
    BY <1>11, <2>1, <2>2, <2>3
  <2> QED
    BY <2>1, <2>4 DEF Stage
<1> QED
  BY <1>1, <1>12, <1>13

(***************************************************************************)
(* A turn that only pushes messages, ends the run or goes on.              *)
(***************************************************************************)
LEMMA QuietTurn ==
  ASSUME TypeOK, ToolsOnly, NEW r \in Run, pc[r] \in {"turnend", "yield"},
         UNCHANGED <<gone, lost, sent, agentVars, runVars, pend, tool, calls>>,
         steering' \in Seq(Message), follow' \in Seq(Message),
         active # r => UNCHANGED <<steering, follow>>,
         NEW es \in Seq(Entry), NEW l \in {"model", "yield", "over"}, Push(r, es), Goto(r, l),
         \A i \in 1 .. Len(es) : es[i] \in {End, Failure} => i = Len(es) /\ l = "over",
         Moved(r, es),
         \A T \in Seq(Entry) : Answered(T, {}) => Answered(T \o es, {})
  PROVE  Effect(r, es, l)
<1>0. /\ pend \in [Run -> Seq(Message)] /\ tool \in [Run -> [Tool -> ToolState]]
      /\ calls \in 0 .. MaxCalls /\ pc \in [Run -> Stage]
      /\ pend[r] = <<>> /\ tool[r] = NoTools
  BY DEF TypeOK, ToolState, Stage, ToolsOnly
<1>1. pend' = pend /\ tool' = tool /\ calls' = calls
  OBVIOUS
<1>2. AtTools(r) = {} /\ AtTools(r)' = {}
  BY <1>0 DEF AtTools, Goto
<1> QED
  BY <1>0, <1>1, <1>2 DEF Effect, Stage

\* What is pushed behind nothing.
LEMMA NothingBefore ==
  ASSUME NEW ms \in Seq(Message)
  PROVE  /\ <<>> \o User(ms) \in Seq(Entry)
         /\ \A i \in 1 .. Len(<<>> \o User(ms)) : (<<>> \o User(ms))[i] \notin {End, Failure}
         /\ Users(<<>> \o User(ms)) = Held(ms)
         /\ Once(ms) => UsersOnce(<<>> \o User(ms))
         /\ \A T \in Seq(Entry) : Answered(T, {}) => Answered(T \o (<<>> \o User(ms)), {})
         /\ Append(<<>>, End) \in Seq(Entry)
         /\ \A i \in 1 .. Len(Append(<<>>, End)) :
               Append(<<>>, End)[i] \in {End, Failure} => i = Len(Append(<<>>, End))
         /\ Users(Append(<<>>, End)) = {} /\ UsersOnce(Append(<<>>, End))
         /\ \A T \in Seq(Entry) : Answered(T, {}) => Answered(T \o Append(<<>>, End), {})
<1> DEFINE p == <<>>
<1>1. p \in Seq(Entry) /\ Users(p) = {} /\ \A i \in 1 .. Len(p) : p[i] \notin {End, Failure}
  BY Nothing
<1>2. \A T \in Seq(Entry) : T \o p = T
  BY ConcatEmptySeq
<1> HIDE DEF p
<1>3. /\ p \o User(ms) \in Seq(Entry)
      /\ \A i \in 1 .. Len(p \o User(ms)) : (p \o User(ms))[i] \notin {End, Failure}
      /\ Users(p \o User(ms)) = Held(ms)
      /\ Once(ms) => UsersOnce(p \o User(ms))
      /\ \A T \in Seq(Entry) : Answered(T \o p, {}) => Answered(T \o (p \o User(ms)), {})
  BY <1>1, InjectEvents
<1>4. /\ Append(p, End) \in Seq(Entry)
      /\ \A i \in 1 .. Len(Append(p, End)) :
            Append(p, End)[i] \in {End, Failure} => i = Len(Append(p, End))
      /\ Users(Append(p, End)) = {} /\ UsersOnce(Append(p, End))
      /\ \A T \in Seq(Entry) : Answered(T \o p, {}) => Answered(T \o Append(p, End), {})
  BY <1>1, PauseEvents
<1> QED
  BY <1>2, <1>3, <1>4 DEF p

(***************************************************************************)
(* After an answer without calls: the loop polls, pauses or goes on.       *)
(***************************************************************************)
LEMMA TurnEndEffect ==
  ASSUME TypeOK, ToolsOnly, NEW r \in Run, TurnEnd(r)
  PROVE  \E es \in Seq(Entry), l \in Stage : Effect(r, es, l)
<1> DEFINE ms == Polled(r, steering)
<1>0. /\ steering \in Seq(Message) /\ follow \in Seq(Message) /\ buf \in [Run -> Seq(Entry)]
      /\ pc[r] = "turnend" /\ pend[r] = <<>>
  BY DEF TypeOK, ToolsOnly, TurnEnd
<1>1. /\ UNCHANGED <<follow, gone, lost, sent, agentVars, pend, tool, calls, runVars>>
      /\ steering' = Unpolled(r, steering)
      /\ \/ Inject(r, <<>>, ms)
         \/ Pause(r, <<>>, ms)
         \/ ms = <<>> /\ Goto(r, "yield") /\ UNCHANGED buf
  BY DEF TurnEnd
<1>2. /\ ms \in Seq(Message) /\ Unpolled(r, steering) \in Seq(Message)
      /\ active # r => Unpolled(r, steering) = steering
  BY <1>0, PollFacts
<1> HIDE DEF ms
<1>3. ASSUME NEW es \in Seq(Entry), NEW l \in {"model", "yield", "over"}, Push(r, es), Goto(r, l),
             \A i \in 1 .. Len(es) : es[i] \in {End, Failure} => i = Len(es) /\ l = "over",
             Users(es) = Held(ms), Once(ms) => UsersOnce(es),
             \A T \in Seq(Entry) : Answered(T, {}) => Answered(T \o es, {})
      PROVE  Effect(r, es, l)
  <2>1. Moved(r, es)
    BY <1>0, <1>1, <1>3, MovesOut DEF ms
  <2>2. steering' \in Seq(Message) /\ follow' \in Seq(Message)
        /\ (active # r => UNCHANGED <<steering, follow>>)
    BY <1>0, <1>1, <1>2
  <2>3. pc[r] \in {"turnend", "yield"} /\ UNCHANGED <<gone, lost, sent, agentVars, runVars, pend, tool, calls>>
    BY <1>0, <1>1
  <2> QED
    BY <1>3, <2>1, <2>2, <2>3, QuietTurn
<1>4. CASE Inject(r, <<>>, ms)
  <2> DEFINE es == <<>> \o User(ms)
  <2>1. /\ es \in Seq(Entry) /\ \A i \in 1 .. Len(es) : es[i] \notin {End, Failure}
        /\ Users(es) = Held(ms) /\ (Once(ms) => UsersOnce(es))
        /\ \A T \in Seq(Entry) : Answered(T, {}) => Answered(T \o es, {})
    BY <1>2, NothingBefore
  <2>2. Push(r, es) /\ Goto(r, "model")
    BY <1>4 DEF Inject
  <2> HIDE DEF es
  <2>3. Effect(r, es, "model")
    BY <1>3, <2>1, <2>2
  <2> QED
    BY <2>1, <2>3 DEF Stage
<1>5. CASE Pause(r, <<>>, ms)
  <2> DEFINE es == Append(<<>>, End)
  <2>1. /\ es \in Seq(Entry) /\ \A i \in 1 .. Len(es) : es[i] \in {End, Failure} => i = Len(es)
        /\ Users(es) = {} /\ UsersOnce(es)
        /\ \A T \in Seq(Entry) : Answered(T, {}) => Answered(T \o es, {})
    BY <1>2, NothingBefore
  <2>2. Push(r, es) /\ Goto(r, "over") /\ ms = <<>>
    BY <1>5 DEF Pause
  <2>3. Held(ms) = {}
    BY <2>2, Nothing
  <2> HIDE DEF es
  <2>4. Effect(r, es, "over")
    BY <1>3, <2>1, <2>2, <2>3
  <2> QED
    BY <2>1, <2>4 DEF Stage
<1>6. CASE ms = <<>> /\ Goto(r, "yield") /\ UNCHANGED buf
  <2>1. Push(r, <<>>)
    <3>1. buf[r] \o <<>> = buf[r]
      BY <1>0, ConcatEmptySeq
    <3> QED
      BY <1>0, <1>6, <3>1 DEF Push
  <2>2. \A T \in Seq(Entry) : T \o <<>> = T
    BY ConcatEmptySeq
  <2>3. Held(ms) = {}
    BY <1>6, Nothing
  <2>4. Effect(r, <<>>, "yield")
    BY <1>3, <1>6, <2>1, <2>2, <2>3, Nothing
  <2> QED
    BY <2>4, Nothing DEF Stage
<1> QED
  BY <1>1, <1>4, <1>5, <1>6

(***************************************************************************)
(* After onBeforeYield: the run pauses, ends or goes on with follow-ups.   *)
(***************************************************************************)
LEMMA YieldEffect ==
  ASSUME TypeOK, ToolsOnly, NEW r \in Run, Yield(r)
  PROVE  \E es \in Seq(Entry), l \in Stage : Effect(r, es, l)
<1> DEFINE ms == Polled(r, follow)
<1>0. /\ steering \in Seq(Message) /\ follow \in Seq(Message)
      /\ pc[r] = "yield" /\ pend[r] = <<>>
  BY DEF TypeOK, ToolsOnly, Yield
<1>1. /\ UNCHANGED <<steering, gone, lost, sent, agentVars, pend, tool, calls, runVars>>
      /\ \/ Pause(r, <<>>, <<>>) /\ UNCHANGED follow
         \/ Throw(r) /\ Goto(r, "over") /\ UNCHANGED follow
         \/ Inject(r, <<>>, ms) /\ follow' = Unpolled(r, follow)
         \/ ms = <<>> /\ Push(r, <<End>>) /\ Goto(r, "over") /\ follow' = Unpolled(r, follow)
  BY DEF Yield
<1>2. /\ ms \in Seq(Message) /\ Unpolled(r, follow) \in Seq(Message)
      /\ active # r => Unpolled(r, follow) = follow
  BY <1>0, PollFacts
<1> HIDE DEF ms
<1>3. ASSUME NEW es \in Seq(Entry), NEW l \in {"model", "yield", "over"}, Push(r, es), Goto(r, l),
             follow' \in {follow, Unpolled(r, follow)}, Moved(r, es),
             \A i \in 1 .. Len(es) : es[i] \in {End, Failure} => i = Len(es) /\ l = "over",
             \A T \in Seq(Entry) : Answered(T, {}) => Answered(T \o es, {})
      PROVE  Effect(r, es, l)
  <2>1. steering' \in Seq(Message) /\ follow' \in Seq(Message)
        /\ (active # r => UNCHANGED <<steering, follow>>)
    BY <1>0, <1>1, <1>2, <1>3
  <2>2. pc[r] \in {"turnend", "yield"} /\ UNCHANGED <<gone, lost, sent, agentVars, runVars, pend, tool, calls>>
    BY <1>0, <1>1
  <2> QED
    BY <1>3, <2>1, <2>2, QuietTurn
<1>4. CASE Pause(r, <<>>, <<>>) /\ UNCHANGED follow
  <2> DEFINE es == Append(<<>>, End)
  <2>1. /\ es \in Seq(Entry) /\ \A i \in 1 .. Len(es) : es[i] \in {End, Failure} => i = Len(es)
        /\ Users(es) = {} /\ UsersOnce(es)
        /\ \A T \in Seq(Entry) : Answered(T, {}) => Answered(T \o es, {})
    BY <1>2, NothingBefore
  <2>2. Push(r, es) /\ Goto(r, "over")
    BY <1>4 DEF Pause
  <2> HIDE DEF es
  <2>3. Moved(r, es)
    BY <1>1, <1>4, <2>1, StaysPut
  <2>4. Effect(r, es, "over")
    BY <1>3, <1>4, <2>1, <2>2, <2>3
  <2> QED
    BY <2>1, <2>4 DEF Stage
<1>5. CASE Inject(r, <<>>, ms) /\ follow' = Unpolled(r, follow)
  <2> DEFINE es == <<>> \o User(ms)
  <2>1. /\ es \in Seq(Entry) /\ \A i \in 1 .. Len(es) : es[i] \notin {End, Failure}
        /\ Users(es) = Held(ms) /\ (Once(ms) => UsersOnce(es))
        /\ \A T \in Seq(Entry) : Answered(T, {}) => Answered(T \o es, {})
    BY <1>2, NothingBefore
  <2>2. Push(r, es) /\ Goto(r, "model")
    BY <1>5 DEF Inject
  <2> HIDE DEF es
  <2>3. Moved(r, es)
    BY <1>0, <1>1, <1>5, <2>1, MovesOut DEF ms
  <2>4. Effect(r, es, "model")
    BY <1>3, <1>5, <2>1, <2>2, <2>3
  <2> QED
    BY <2>1, <2>4 DEF Stage
<1>6. CASE ms = <<>> /\ Push(r, <<End>>) /\ Goto(r, "over") /\ follow' = Unpolled(r, follow)
  <2> DEFINE es == <<End>>
  <2>1. /\ es \in Seq(Entry) /\ Len(es) = 1 /\ es[1] = End /\ Users(es) = {} /\ UsersOnce(es)
    BY LoopEvents
  <2>2. Push(r, es)
    BY <1>6
  <2> HIDE DEF es
  <2>3. \A i \in 1 .. Len(es) : i = Len(es) /\ es[i] # Call
    BY <2>1, Entries
  <2>4. Held(ms) = {}
    BY <1>6, Nothing
  <2>5. Moved(r, es)
    BY <1>0, <1>1, <1>6, <2>1, <2>4, MovesOut DEF ms
  <2>6. \A T \in Seq(Entry) : Answered(T, {}) => Answered(T \o es, {})
    BY <2>1, <2>3, OthersFollow
  <2>7. Effect(r, es, "over")
    BY <1>3, <1>6, <2>1, <2>2, <2>3, <2>5, <2>6
  <2> QED
    BY <2>1, <2>7 DEF Stage
<1>7. CASE Throw(r) /\ Goto(r, "over") /\ UNCHANGED follow
  <2> DEFINE es == <<Failure>>
  <2>1. es \in Seq(Entry) /\ Len(es) = 1 /\ es[1] = Failure /\ Users(es) = {} /\ UsersOnce(es)
    BY LoopEvents
  <2>2. Push(r, es)
    BY <1>7 DEF Throw
  <2> HIDE DEF es
  <2>3. \A i \in 1 .. Len(es) : i = Len(es) /\ es[i] # Call
    BY <2>1 DEF Failure, Call
  <2>4. \A T \in Seq(Entry) : Answered(T, {}) => Answered(T \o es, {})
    BY <2>1, <2>3, OthersFollow
  <2>5. Moved(r, es)
    BY <1>1, <1>7, <2>1, StaysPut
  <2>6. Effect(r, es, "over")
    BY <1>3, <1>7, <2>1, <2>2, <2>3, <2>4, <2>5
  <2> QED
    BY <2>1, <2>6 DEF Stage
<1> QED
  BY <1>1, <1>4, <1>5, <1>6, <1>7

(* Every turn of the loop has an effect of the kind above. *)
LEMMA LoopEffect ==
  ASSUME TypeOK, ToolsOnly, NEW r \in Run, Loop(r)
  PROVE  \E es \in Seq(Entry), l \in Stage : Effect(r, es, l)
  BY ModelEffect, EndToolEffect, EndCheckEffect, ToolsEndEffect, TurnEndEffect, YieldEffect
     DEF Loop

-----------------------------------------------------------------------------
(* The invariant is kept.                                                  *)

(***************************************************************************)
(* What does not reach the stream leaves its calls answered, and what does *)
(* not reach a place where messages are leaves them spread as they were.   *)
(***************************************************************************)
LEMMA SameStream ==
  ASSUME CallsAnswered, UNCHANGED <<history, active, forced>>, Coming' = Coming,
         active # 0 => pc'[active] = pc[active] /\ tool'[active] = tool[active]
  PROVE  CallsAnswered'
<1>1. Stream' = Stream
  BY DEF Stream
<1>2. active # 0 => AtTools(active)' = AtTools(active)
  <2>1. active # 0 => Ended(active)' = Ended(active)
    BY DEF Ended
  <2> QED
    BY <2>1 DEF AtTools
<1>3. (IF active = 0 THEN {} ELSE AtTools(active))' = IF active = 0 THEN {} ELSE AtTools(active)
  BY <1>2
<1> DEFINE O == IF active = 0 THEN {} ELSE AtTools(active)
<1>4. O' = O
  BY <1>3
<1>5. Answered(Stream, O)' <=> Answered(Stream', O')
  BY DEF Answered, Open, Closed
<1>6. CallsAnswered <=> (forced = {} => Answered(Stream, O))
  BY DEF CallsAnswered
<1>7. CallsAnswered' <=> (forced' = {} => Answered(Stream, O)')
  BY DEF CallsAnswered
<1> HIDE DEF O
<1> QED
  BY <1>1, <1>4, <1>5, <1>6, <1>7

(* What moves no message keeps them apart. *)
LEMMA SameSpread ==
  ASSUME Spread, UNCHANGED <<queueVars, history>>, Coming' = Coming, Pending' = Pending
  PROVE  Spread'
<1>1. /\ Held(steering)' = Held(steering) /\ Once(steering)' = Once(steering)
      /\ Held(follow)' = Held(follow) /\ Once(follow)' = Once(follow)
      /\ Users(history)' = Users(history) /\ UsersOnce(history)' = UsersOnce(history)
  BY DEF Held, Once, Users, UsersOnce, queueVars
<1>2. /\ Held(Pending)' = Held(Pending) /\ Once(Pending)' = Once(Pending)
      /\ Users(Coming)' = Users(Coming) /\ UsersOnce(Coming)' = UsersOnce(Coming)
  BY DEF Held, Once, Users, UsersOnce
<1> QED
  BY <1>1, <1>2 DEF Spread, Apart, queueVars

(* What a run has said and will say are sequences of entries. *)
LEMMA StreamTyped ==
  ASSUME TypeOK
  PROVE  Coming \in Seq(Entry) /\ Pending \in Seq(Message) /\ Stream \in Seq(Entry)
<1>1. Coming \in Seq(Entry) /\ Pending \in Seq(Message)
  BY Nothing DEF TypeOK, Coming, Pending
<1>2. history \in Seq(Entry)
  BY DEF TypeOK
<1> QED
  BY <1>1, <1>2, ConcatProperties DEF Stream

(***************************************************************************)
(* A turn of the loop of run r.                                            *)
(***************************************************************************)
LEMMA LoopKeeps ==
  ASSUME IInv, NEW r \in Run, NEW es \in Seq(Entry), NEW l \in Stage, Effect(r, es, l)
  PROVE  IInv'
<1>0. /\ buf \in [Run -> Seq(Entry)] /\ pc \in [Run -> Stage] /\ history \in Seq(Entry)
      /\ active \in Run \cup {0} /\ 0 \notin Run
      /\ pend \in [Run -> Seq(Message)] /\ tool \in [Run -> [Tool -> ToolState]]
  BY DEF IInv, TypeOK, Stage, ToolState, Run
<1>1. /\ UNCHANGED <<gone, lost, sent, history, streaming, active, promised, settled, seq,
                     cons, aborted, forced>>
      /\ buf' = [buf EXCEPT ![r] = IF active = r THEN @ \o es ELSE @]
      /\ pc' = [pc EXCEPT ![r] = l]
      /\ pc[r] \notin {"none", "over"} /\ l # "none"
  BY DEF Effect, Push, Goto, agentVars, runVars
<1>2. /\ pc'[r] = l /\ \A s \in Run \ {r} : pc'[s] = pc[s] /\ buf'[s] = buf[s]
      /\ active = r => buf'[r] = buf[r] \o es
      /\ active # r => buf' = buf
  BY <1>0, <1>1
<1>3. /\ \A s \in Run \ {r} : pend'[s] = pend[s] /\ tool'[s] = tool[s]
      /\ l # "tools" => pend'[r] = <<>> /\ tool'[r] = NoTools
  BY DEF Effect
<1>4. r \notin forced => active = r /\ cons[r] = "loop"
  BY <1>1 DEF IInv, HeardOut, OneActiveRun
<1>5. TypeOK'
  <2>1. buf' \in [Run -> Seq(Entry)]
    <3>1. buf[r] \o es \in Seq(Entry)
      BY <1>0, ConcatProperties
    <3> QED
      BY <1>0, <1>1, <3>1
  <2>2. pc' \in [Run -> Stage]
    BY <1>0, <1>1
  <2>3. /\ steering' \in Seq(Message) /\ follow' \in Seq(Message)
        /\ pend' \in [Run -> Seq(Message)] /\ tool' \in [Run -> [Tool -> ToolState]]
        /\ calls' \in 0 .. MaxCalls
    BY DEF Effect
  <2> QED
    BY <1>1, <2>1, <2>2, <2>3 DEF IInv, TypeOK, Stage, ToolState
<1>6. RunsInOrder'
  <2>1. \A s \in Run : seq < s => s # r
    BY <1>1 DEF IInv, RunsInOrder
  <2> QED
    BY <1>1, <1>2, <2>1 DEF IInv, RunsInOrder
<1>7. OneActiveRun'
  BY <1>1 DEF IInv, OneActiveRun
<1>8. ToolsOnly'
  BY <1>2, <1>3 DEF IInv, ToolsOnly
<1>9. HeardOut'
  BY <1>1, <1>2, <1>4 DEF IInv, HeardOut
<1>10. EndIsLast'
  <2>1. ASSUME NEW s \in Run \ forced, NEW i \in 1 .. Len(buf'[s]), buf'[s][i] \in {End, Failure}
        PROVE  i = Len(buf'[s]) /\ pc'[s] = "over"
    <3>1. CASE s # r
      BY <1>2, <2>1, <3>1 DEF IInv, EndIsLast
    <3>2. CASE s = r
      <4> DEFINE b == buf[r]
                 c == b \o es
      <4>1. b \in Seq(Entry) /\ buf'[s] = c
        BY <1>0, <1>2, <1>4, <2>1, <3>2
      <4>2. /\ Len(c) = Len(b) + Len(es) /\ Len(b) \in Nat /\ Len(es) \in Nat
            /\ \A j \in 1 .. Len(c) : \/ j \in 1 .. Len(b) /\ c[j] = b[j]
                                      \/ j - Len(b) \in 1 .. Len(es) /\ c[j] = es[j - Len(b)]
        BY <4>1, JoinStreams
      <4>3. \A j \in 1 .. Len(b) : b[j] \notin {End, Failure}
        BY <1>1, <2>1, <3>2 DEF IInv, EndIsLast
      <4>4. \A j \in 1 .. Len(es) : es[j] \in {End, Failure} => j = Len(es) /\ l = "over"
        BY DEF Effect
      <4> HIDE DEF b, c
      <4>5. i - Len(b) \in 1 .. Len(es) /\ c[i] = es[i - Len(b)]
        BY <2>1, <4>1, <4>2, <4>3
      <4>6. i - Len(b) = Len(es) /\ l = "over"
        BY <2>1, <4>1, <4>4, <4>5
      <4>7. i \in Int
        BY <2>1, <4>1
      <4> QED
        BY <1>2, <3>2, <4>1, <4>2, <4>6, <4>7
    <3> QED
      BY <3>1, <3>2
  <2> QED
    BY <1>1, <2>1 DEF EndIsLast
<1>11. CASE active # r
  <2>1. UNCHANGED <<steering, follow>>
    BY <1>11 DEF Effect
  <2>2. active # 0 => active \in Run \ {r}
    BY <1>0, <1>11
  <2>3. Coming' = Coming /\ Pending' = Pending
    BY <1>1, <1>2, <1>3, <2>2 DEF Coming, Pending
  <2>4. active # 0 => pc'[active] = pc[active] /\ tool'[active] = tool[active]
    BY <1>2, <1>3, <2>2
  <2>5. CallsAnswered'
    BY <1>1, <2>3, <2>4, SameStream DEF IInv
  <2>6. Spread'
    BY <1>1, <2>1, <2>3, SameSpread DEF IInv, queueVars
  <2> QED
    BY <1>5, <1>6, <1>7, <1>8, <1>9, <1>10, <2>5, <2>6 DEF IInv
<1>12. CASE active = r
  <2>1. /\ active # 0 /\ Coming = buf[r] /\ Pending = pend[r]
        /\ Coming' = Coming \o es /\ Pending' = pend'[r]
    BY <1>0, <1>1, <1>2, <1>12 DEF Coming, Pending
  <2>2. Coming \in Seq(Entry)
    BY <1>0, <2>1
  <2>3. CallsAnswered'
    <3>1. Stream' = Stream \o es
      <4>1. (history \o Coming) \o es = history \o (Coming \o es)
        <5>1. \A h, c, e \in Seq(Entry) : (h \o c) \o e = h \o (c \o e)
          BY ONLY ConcatAssociative
        <5>2. history \in Seq(Entry) /\ es \in Seq(Entry)
          BY <1>0
        <5> QED
          BY ONLY <2>2, <5>1, <5>2
      <4>2. Stream' = history' \o Coming'
        BY DEF Stream
      <4> QED
        BY <1>1, <2>1, <4>1, <4>2 DEF Stream
    <3>2. Stream \in Seq(Entry)
      BY StreamTyped DEF IInv
    <3>3. ASSUME forced = {} PROVE Answered(Stream \o es, AtTools(r)')
      <4>1. Answered(Stream, AtTools(r))
        BY <1>12, <2>1, <3>3 DEF IInv, CallsAnswered
      <4> QED
        BY <1>12, <3>2, <4>1 DEF Effect
    <3>4. Answered(Stream, AtTools(active))' <=> Answered(Stream', AtTools(active)')
      BY DEF Answered, Open, Closed
    <3>5. AtTools(active)' = AtTools(r)'
      BY <1>1, <1>12 DEF AtTools, Ended
    <3> QED
      BY <1>1, <2>1, <3>1, <3>3, <3>4, <3>5 DEF CallsAnswered
  <2>4. Spread'
    <3>1. Moved(r, es)
      BY <1>12 DEF Effect
    <3>2. /\ Users(history)' = Users(history) /\ UsersOnce(history)' = UsersOnce(history)
          /\ Held(Pending)' = Held(pend[r])' /\ Once(Pending)' = Once(pend[r])'
          /\ Users(Coming)' = Users(Coming \o es) /\ UsersOnce(Coming)' = UsersOnce(Coming \o es)
      BY <1>1, <2>1 DEF Users, UsersOnce, Held, Once
    <3>3. /\ Users(Coming \o es) = Users(Coming) \cup Users(es)
          /\ UsersOnce(Coming) /\ UsersOnce(es) /\ Users(Coming) \cap Users(es) = {}
             => UsersOnce(Coming \o es)
      BY <2>2, JoinedUsers
    <3>4. Held(pend[r]) = Held(Pending) /\ Once(pend[r]) = Once(Pending)
      BY <2>1
    <3>5. UNCHANGED <<gone, lost, sent>>
      BY <1>1
    <3>6. Spread
      BY DEF IInv
    <3>7. /\ Once(steering)' /\ Once(follow)' /\ Once(Pending)' /\ UsersOnce(es)
          /\ Held(steering) \cup Held(follow) \cup Held(Pending) =
                Held(steering)' \cup Held(follow)' \cup Held(Pending)' \cup Users(es)
          /\ Held(steering)' \cap (Held(follow)' \cup Held(Pending)' \cup Users(es)) = {}
          /\ Held(follow)' \cap (Held(Pending)' \cup Users(es)) = {}
          /\ Held(Pending)' \cap Users(es) = {}
      BY <3>1, <3>2, <3>4, <3>6 DEF Moved, Spread, Apart
    <3>8. UsersOnce(Coming)' /\ Users(Coming)' = Users(Coming) \cup Users(es)
      BY <3>2, <3>3, <3>6, <3>7 DEF Spread, Apart
    <3>9. (1 .. sent)' = Held(steering)' \cup Held(follow)' \cup (gone \cup lost)'
                   \cup Users(history)' \cup Held(Pending)' \cup Users(Coming)'
      BY <3>2, <3>5, <3>6, <3>7, <3>8 DEF Spread
    <3>10. Apart(Held(steering), Held(follow), gone \cup lost,
                 Users(history), Held(Pending), Users(Coming))'
      BY <3>2, <3>5, <3>6, <3>7, <3>8 DEF Spread, Apart
    <3>11. UsersOnce(history)'
      BY <3>2, <3>6 DEF Spread
    <3> QED
      BY <3>7, <3>8, <3>9, <3>10, <3>11 DEF Spread
  <2> QED
    BY <1>5, <1>6, <1>7, <1>8, <1>9, <1>10, <2>3, <2>4 DEF IInv
<1> QED
  BY <1>11, <1>12

(***************************************************************************)
(* The user's messages and an abort concern no run.                        *)
(***************************************************************************)
LEMMA RunsKept ==
  ASSUME IInv, UNCHANGED <<agentVars, loopVars, cons, forced>>, TypeOK', Spread'
  PROVE  IInv'
<1>1. /\ UNCHANGED <<history, streaming, active, promised, settled, seq,
                     pc, pend, tool, calls, buf, cons, forced>>
  BY DEF agentVars, loopVars
<1>2. Coming' = Coming
  BY <1>1 DEF Coming
<1>3. CallsAnswered'
  BY <1>1, <1>2, SameStream DEF IInv
<1>4. RunsInOrder' /\ OneActiveRun' /\ ToolsOnly'
  BY <1>1 DEF IInv, RunsInOrder, OneActiveRun, ToolsOnly
<1>5. HeardOut' /\ EndIsLast'
  BY <1>1 DEF IInv, HeardOut, EndIsLast
<1> QED
  BY <1>3, <1>4, <1>5 DEF IInv

(***************************************************************************)
(* The user's turns: a message is queued or taken back.                    *)
(***************************************************************************)
LEMMA QueuesKeep ==
  ASSUME IInv, Steer \/ FollowUp \/ TakeBack
  PROVE  IInv'
<1>0. /\ steering \in Seq(Message) /\ follow \in Seq(Message)
      /\ gone \cup lost \subseteq Message /\ sent \in 0 .. MaxMessages
  BY DEF IInv, TypeOK
<1>1. UNCHANGED <<lost, history, agentVars, loopVars, runVars>>
  BY DEF Steer, FollowUp, TakeBack, agentVars
<1>2. /\ Coming' = Coming /\ Pending' = Pending
      /\ Users(history)' = Users(history) /\ UsersOnce(history)' = UsersOnce(history)
      /\ Held(Pending)' = Held(Pending) /\ Once(Pending)' = Once(Pending)
      /\ Users(Coming)' = Users(Coming) /\ UsersOnce(Coming)' = UsersOnce(Coming)
  BY <1>1 DEF Coming, Pending, Users, UsersOnce, Held, Once, agentVars, loopVars
<1>3. /\ Held(steering)' = Held(steering') /\ Once(steering)' = Once(steering')
      /\ Held(follow)' = Held(follow') /\ Once(follow)' = Once(follow')
  BY DEF Held, Once
<1>4. ASSUME sent < MaxMessages
      PROVE  /\ sent + 1 \in Message /\ sent + 1 \in 0 .. MaxMessages
             /\ 1 .. sent + 1 = (1 .. sent) \cup {sent + 1} /\ sent + 1 \notin 1 .. sent
  <2>1. MaxMessages \in Nat
    BY BoundAssumption
  <2>2. sent \in Nat
    BY <1>0
  <2>3. 1 .. sent + 1 = (1 .. sent) \cup {sent + 1}
    BY <2>2
  <2> QED
    BY <1>4, <2>1, <2>2, <2>3 DEF Message
<1>5. Spread
  BY DEF IInv
<1>6. /\ steering' \in Seq(Message) /\ follow' \in Seq(Message)
      /\ gone' \subseteq Message /\ sent' \in 0 .. MaxMessages
      /\ Spread'
  <2>1. CASE Steer
    <3>1. /\ steering' = Append(steering, sent + 1) /\ sent' = sent + 1
          /\ UNCHANGED <<follow, gone, lost>> /\ sent < MaxMessages
      BY <2>1 DEF Steer, Send
    <3>2. sent + 1 \notin Held(steering) \cup Held(follow) \cup (gone \cup lost)
                   \cup Users(history) \cup Held(Pending) \cup Users(Coming)
      BY <1>4, <1>5, <3>1 DEF Spread
    <3>3. /\ steering' \in Seq(Message) /\ Held(steering') = Held(steering) \cup {sent + 1}
          /\ Once(steering')
      BY <1>0, <1>4, <1>5, <3>1, <3>2, AppendQueue DEF Spread
    <3>4. (1 .. sent)' = (1 .. sent) \cup {sent + 1}
      BY <1>4, <3>1
    <3>5. Spread'
      BY <1>2, <1>3, <1>5, <3>1, <3>2, <3>3, <3>4 DEF Spread, Apart
    <3> QED
      BY <1>0, <1>4, <3>1, <3>3, <3>5
  <2>2. CASE FollowUp
    <3>1. /\ follow' = Append(follow, sent + 1) /\ sent' = sent + 1
          /\ UNCHANGED <<steering, gone, lost>> /\ sent < MaxMessages
      BY <2>2 DEF FollowUp, Send
    <3>2. sent + 1 \notin Held(steering) \cup Held(follow) \cup (gone \cup lost)
                   \cup Users(history) \cup Held(Pending) \cup Users(Coming)
      BY <1>4, <1>5, <3>1 DEF Spread
    <3>3. /\ follow' \in Seq(Message) /\ Held(follow') = Held(follow) \cup {sent + 1}
          /\ Once(follow')
      BY <1>0, <1>4, <1>5, <3>1, <3>2, AppendQueue DEF Spread
    <3>4. (1 .. sent)' = (1 .. sent) \cup {sent + 1}
      BY <1>4, <3>1
    <3>5. Spread'
      BY <1>2, <1>3, <1>5, <3>1, <3>2, <3>3, <3>4 DEF Spread, Apart
    <3> QED
      BY <1>0, <1>4, <3>1, <3>3, <3>5
  <2>3. CASE /\ TakeBack /\ steering # <<>> /\ steering' = Front(steering)
             /\ gone' = gone \cup {Last(steering)} /\ UNCHANGED follow
    <3>1. UNCHANGED <<lost, sent>>
      BY <2>3 DEF TakeBack
    <3>2. /\ steering' \in Seq(Message) /\ Last(steering) \in Held(steering)
          /\ Held(steering) = Held(steering') \cup {Last(steering)}
          /\ Once(steering) => Once(steering') /\ Last(steering) \notin Held(steering')
      BY <1>0, <2>3, FrontOfQueue
    <3>3. Last(steering) \in Message
      BY <1>0, <3>2, ElementOfSeq DEF Held
    <3>4. Spread'
      BY <1>2, <1>3, <1>5, <2>3, <3>1, <3>2 DEF Spread, Apart
    <3> QED
      BY <1>0, <2>3, <3>1, <3>2, <3>3, <3>4
  <2>4. CASE /\ TakeBack /\ follow # <<>> /\ follow' = Front(follow)
             /\ gone' = gone \cup {Last(follow)} /\ UNCHANGED steering
    <3>1. UNCHANGED <<lost, sent>>
      BY <2>4 DEF TakeBack
    <3>2. /\ follow' \in Seq(Message) /\ Last(follow) \in Held(follow)
          /\ Held(follow) = Held(follow') \cup {Last(follow)}
          /\ Once(follow) => Once(follow') /\ Last(follow) \notin Held(follow')
      BY <1>0, <2>4, FrontOfQueue
    <3>3. Last(follow) \in Message
      BY <1>0, <3>2, ElementOfSeq DEF Held
    <3>4. Spread'
      BY <1>2, <1>3, <1>5, <2>4, <3>1, <3>2 DEF Spread, Apart
    <3> QED
      BY <1>0, <2>4, <3>1, <3>2, <3>3, <3>4
  <2> QED
    BY <2>1, <2>2, <2>3, <2>4 DEF TakeBack
<1>7. TypeOK'
  BY <1>0, <1>1, <1>6 DEF IInv, TypeOK, agentVars, loopVars, runVars
<1> QED
  BY <1>1, <1>6, <1>7, RunsKept DEF runVars

(* Agent.abort keeps the invariant: it only marks the run. *)
LEMMA AbortKeeps ==
  ASSUME IInv, Abort
  PROVE  IInv'
<1>1. UNCHANGED <<queueVars, agentVars, loopVars, cons, forced>>
      /\ aborted' = aborted \cup {promised} /\ promised # 0
  BY DEF Abort
<1>2. TypeOK'
  BY <1>1 DEF IInv, TypeOK, queueVars, agentVars, loopVars
<1>3. Coming' = Coming /\ Pending' = Pending
  BY <1>1 DEF Coming, Pending, agentVars, loopVars
<1>4. Spread'
  BY <1>1, <1>3, SameSpread DEF IInv, agentVars
<1> QED
  BY <1>1, <1>2, <1>4, RunsKept

(***************************************************************************)
(* Between two runs nothing is on its way.                                 *)
(***************************************************************************)
LEMMA IdleFacts ==
  ASSUME IInv, active = 0 \/ cons[active] = "ended"
  PROVE  /\ Coming = <<>> /\ Pending = <<>> /\ Stream = history
         /\ (IF active = 0 THEN {} ELSE AtTools(active)) = {}
<1>1. active # 0 => /\ active \in Run \ forced
                    /\ pc[active] \in {"none", "over"} /\ buf[active] = <<>> /\ pend[active] = <<>>
  <2>1. active # 0 => active \in Run \ forced
    BY DEF IInv, TypeOK, RunsInOrder
  <2> QED
    BY <2>1 DEF IInv, HeardOut, ToolsOnly
<1>2. Coming = <<>> /\ Pending = <<>>
  BY <1>1 DEF Coming, Pending
<1>3. Stream = history
  BY <1>2, ConcatEmptySeq DEF Stream, IInv, TypeOK
<1>4. (IF active = 0 THEN {} ELSE AtTools(active)) = {}
  BY <1>1 DEF AtTools
<1> QED
  BY <1>2, <1>3, <1>4

(***************************************************************************)
(* A run begins: the messages it starts with are on their way, and the     *)
(* others stay in the queues.                                              *)
(***************************************************************************)
LEMMA StartKeeps ==
  ASSUME IInv, ~streaming, NEW ps \in Seq(Message), NEW skip \in BOOLEAN, NEW q \in Seq(Message),
         StartRun(ps, skip, q), follow' \in Seq(Message), sent' \in 0 .. MaxMessages,
         1 .. sent' = Held(q) \cup Held(follow') \cup (gone \cup lost)
                      \cup Users(history) \cup Held(ps),
         Apart(Held(q), Held(follow'), gone \cup lost, Users(history), Held(ps), {}),
         Once(q), Once(follow'), Once(ps)
  PROVE  IInv'
<1> DEFINE ms == IF skip THEN <<>> ELSE Taken(q)
           r == seq + 1
           u == User(ps \o ms)
<1>0. /\ history \in Seq(Entry) /\ pc \in [Run -> Stage] /\ buf \in [Run -> Seq(Entry)]
      /\ cons \in [Run -> {"none", "loop", "ended", "over"}] /\ seq \in 0 .. MaxRuns
      /\ active \in Run \cup {0} /\ Run = 1 .. MaxRuns /\ MaxRuns \in Nat
  BY BoundAssumption DEF IInv, TypeOK, Stage, Run
<1>1. /\ seq < MaxRuns /\ seq' = r /\ active' = r /\ promised' = r /\ streaming' = TRUE
      /\ steering' = IF skip THEN q ELSE Left(q)
      /\ buf' = [buf EXCEPT ![r] = u]
      /\ pc' = [pc EXCEPT ![r] = "model"] /\ cons' = [cons EXCEPT ![r] = "loop"]
      /\ UNCHANGED <<gone, lost, history, settled, pend, tool, calls, aborted, forced>>
  BY DEF StartRun
<1>2. /\ ms \in Seq(Message) /\ steering' \in Seq(Message)
      /\ Held(q) = Held(ms) \cup Held(steering')
      /\ Once(ms) /\ Once(steering') /\ Held(ms) \cap Held(steering') = {}
  BY <1>1, Nothing, TakenAndLeft
<1> HIDE DEF ms
<1>3. /\ ps \o ms \in Seq(Message) /\ Held(ps \o ms) = Held(ps) \cup Held(ms) /\ Once(ps \o ms)
  <2>1. Held(ps) \cap Held(ms) = {}
    BY <1>2 DEF Apart
  <2> QED
    BY <1>2, <2>1, JoinQueues
<1>4. /\ u \in Seq(Entry) /\ Users(u) = Held(ps) \cup Held(ms) /\ UsersOnce(u)
      /\ \A i \in 1 .. Len(u) : u[i] \notin {End, Failure} /\ u[i] # Call
  <2> DEFINE v == ps \o ms
  <2>1. v \in Seq(Message) /\ Once(v) /\ Held(v) = Held(ps) \cup Held(ms)
    BY <1>3
  <2> HIDE DEF v
  <2>2. /\ User(v) \in Seq(Entry) /\ Len(User(v)) = Len(v)
        /\ \A i \in 1 .. Len(v) : User(v)[i] = <<"user", v[i]>> /\ v[i] \in Message
        /\ Users(User(v)) = Held(v) /\ UsersOnce(User(v))
    BY <2>1, UserEvents, ElementOfSeq
  <2>3. \A i \in 1 .. Len(User(v)) : User(v)[i] \notin {End, Failure} /\ User(v)[i] # Call
    BY <2>2, Entries
  <2> QED
    BY <2>1, <2>2, <2>3 DEF v
<1> HIDE DEF u
<1>5. r \in Run /\ r # 0 /\ seq < r /\ \A s \in Run : seq < s <=> r < s \/ s = r
  BY <1>0, <1>1
<1>6. r \notin forced /\ pc[r] = "none" /\ pend[r] = <<>>
  BY <1>5 DEF IInv, RunsInOrder, ToolsOnly
<1>7. /\ pc'[r] = "model" /\ cons'[r] = "loop" /\ buf'[r] = u
      /\ \A s \in Run \ {r} : pc'[s] = pc[s] /\ cons'[s] = cons[s] /\ buf'[s] = buf[s]
  BY <1>0, <1>1, <1>5
<1> HIDE DEF r
<1>8. active = 0 \/ cons[active] = "ended"
  BY <1>0 DEF IInv, RunsInOrder, OneActiveRun
<1>9. TypeOK'
  <2>1. /\ buf' \in [Run -> Seq(Entry)] /\ pc' \in [Run -> Stage]
        /\ cons' \in [Run -> {"none", "loop", "ended", "over"}]
    BY <1>0, <1>1, <1>4 DEF Stage
  <2>2. seq' \in 0 .. MaxRuns
    BY <1>0, <1>1, <1>5
  <2> QED
    BY <1>1, <1>2, <1>5, <2>1, <2>2 DEF IInv, TypeOK, Stage
<1>10. RunsInOrder'
  <2>1. \A s \in Run : r < s => s # r
    BY <1>0, <1>5
  <2>2. \A s \in Run : cons'[s] = "none" <=> r < s
    BY <1>5, <1>7, <2>1 DEF IInv, RunsInOrder
  <2>3. \A s \in Run : r < s => s \notin forced /\ pc'[s] = "none"
    BY <1>5, <1>7, <2>1 DEF IInv, RunsInOrder
  <2> QED
    BY <1>1, <1>5, <1>6, <1>7, <2>2, <2>3 DEF RunsInOrder
<1>11. OneActiveRun'
  BY <1>1, <1>7 DEF IInv, OneActiveRun
<1>12. ToolsOnly'
  BY <1>1, <1>6, <1>7 DEF IInv, ToolsOnly
<1>13. HeardOut'
  BY <1>1, <1>7 DEF IInv, HeardOut
<1>14. EndIsLast'
  BY <1>1, <1>4, <1>7 DEF IInv, EndIsLast
<1>15. Coming' = u /\ Pending' = <<>>
  BY <1>1, <1>5, <1>6, <1>7 DEF Coming, Pending
<1>16. Spread'
  <2>1. /\ Held(steering)' = Held(steering') /\ Once(steering)' = Once(steering')
        /\ Held(follow)' = Held(follow') /\ Once(follow)' = Once(follow')
        /\ Users(history)' = Users(history) /\ UsersOnce(history)' = UsersOnce(history)
        /\ Held(Pending)' = {} /\ Once(Pending)'
        /\ Users(Coming)' = Held(ps) \cup Held(ms) /\ UsersOnce(Coming)'
    <3>1. /\ Held(steering)' = Held(steering') /\ Once(steering)' = Once(steering')
          /\ Held(follow)' = Held(follow') /\ Once(follow)' = Once(follow')
          /\ Users(history)' = Users(history) /\ UsersOnce(history)' = UsersOnce(history)
      BY <1>1 DEF Held, Once, Users, UsersOnce
    <3>2. Held(Pending)' = Held(<<>>) /\ Once(Pending)' = Once(<<>>)
      BY <1>15 DEF Held, Once
    <3>3. Users(Coming)' = Users(u) /\ UsersOnce(Coming)' = UsersOnce(u)
      BY <1>15 DEF Users, UsersOnce
    <3> QED
      BY <1>4, <3>1, <3>2, <3>3, Nothing
  <2>2. UsersOnce(history)
    BY DEF IInv, Spread
  <2>3. (gone \cup lost)' = gone \cup lost
    BY <1>1
  <2>4. (1 .. sent)' = 1 .. sent'
    OBVIOUS
  <2>5. (1 .. sent)' = Held(steering)' \cup Held(follow)' \cup (gone \cup lost)'
                   \cup Users(history)' \cup Held(Pending)' \cup Users(Coming)'
    BY <1>2, <2>1, <2>3, <2>4
  <2>6. Apart(Held(steering), Held(follow), gone \cup lost,
              Users(history), Held(Pending), Users(Coming))'
    BY <1>2, <2>1, <2>3 DEF Apart
  <2> QED
    BY <1>2, <2>1, <2>2, <2>5, <2>6 DEF Spread
<1>17. CallsAnswered'
  <2>1. ASSUME forced' = {} PROVE Answered(Stream', {})
    <3>1. Answered(history, {})
      BY <1>1, <1>8, <2>1, IdleFacts DEF IInv, CallsAnswered
    <3>2. Stream' = history \o u
      BY <1>1, <1>15 DEF Stream
    <3> QED
      BY <1>0, <1>4, <3>1, <3>2, OthersFollow
  <2>2. (IF active = 0 THEN {} ELSE AtTools(active))' = {}
    BY <1>1, <1>7 DEF AtTools
  <2> DEFINE O == IF active = 0 THEN {} ELSE AtTools(active)
  <2>3. Answered(Stream, O)' <=> Answered(Stream', O')
    BY DEF Answered, Open, Closed
  <2>4. CallsAnswered' <=> (forced' = {} => Answered(Stream, O)')
    BY DEF CallsAnswered
  <2>5. O' = {}
    BY <2>2
  <2> HIDE DEF O
  <2> QED
    BY <2>1, <2>3, <2>4, <2>5
<1> QED
  BY <1>9, <1>10, <1>11, <1>12, <1>13, <1>14, <1>16, <1>17 DEF IInv

(***************************************************************************)
(* The idle agent is prompted, or goes on with what is queued.             *)
(***************************************************************************)
LEMMA PromptKeeps ==
  ASSUME IInv, Prompt
  PROVE  IInv'
<1> DEFINE ps == <<sent + 1>>
<1>0. /\ steering \in Seq(Message) /\ follow \in Seq(Message) /\ sent \in 0 .. MaxMessages
      /\ active \in Run \cup {0} /\ 0 \notin Run
  BY DEF IInv, TypeOK, Run
<1>1. /\ ~streaming /\ sent < MaxMessages /\ sent' = sent + 1 /\ follow' = follow
      /\ StartRun(ps, FALSE, steering)
  BY DEF Prompt, Send
<1>2. active = 0 \/ cons[active] = "ended"
  BY <1>0, <1>1 DEF IInv, RunsInOrder, OneActiveRun
<1>3. Coming = <<>> /\ Pending = <<>>
  BY <1>2, IdleFacts
<1>4. /\ sent + 1 \in Message /\ sent + 1 \in 0 .. MaxMessages
      /\ 1 .. sent + 1 = (1 .. sent) \cup {sent + 1} /\ sent + 1 \notin 1 .. sent
  <2>1. MaxMessages \in Nat
    BY BoundAssumption
  <2>2. sent \in Nat
    BY <1>0
  <2>3. 1 .. sent + 1 = (1 .. sent) \cup {sent + 1}
    BY <2>2
  <2> QED
    BY <1>1, <2>1, <2>2, <2>3 DEF Message
<1>5. ps \in Seq(Message) /\ Held(ps) = {sent + 1} /\ Once(ps)
  <2>1. ps \in Seq(Message) /\ Len(ps) = 1 /\ ps[1] = sent + 1
    BY <1>4
  <2> HIDE DEF ps
  <2>2. 1 .. Len(ps) = {1}
    BY <2>1
  <2> QED
    BY <2>1, <2>2 DEF Held, Once
<1> HIDE DEF ps
<1>6. /\ 1 .. sent = Held(steering) \cup Held(follow) \cup (gone \cup lost) \cup Users(history)
      /\ Apart(Held(steering), Held(follow), gone \cup lost, Users(history), {}, {})
      /\ Once(steering) /\ Once(follow)
  BY <1>3, Nothing DEF IInv, Spread
<1>7. /\ 1 .. sent' = Held(steering) \cup Held(follow') \cup (gone \cup lost)
                      \cup Users(history) \cup Held(ps)
      /\ Apart(Held(steering), Held(follow'), gone \cup lost, Users(history), Held(ps), {})
  BY <1>1, <1>4, <1>5, <1>6 DEF Apart
<1>8. follow' \in Seq(Message) /\ sent' \in 0 .. MaxMessages /\ Once(follow')
  BY <1>0, <1>1, <1>4, <1>6
<1> QED
  BY <1>0, <1>1, <1>5, <1>6, <1>7, <1>8, StartKeeps

(* Agent.continue keeps it: what it takes from a queue starts a run. *)
LEMMA ContinueKeeps ==
  ASSUME IInv, Continue
  PROVE  IInv'
<1>0. /\ steering \in Seq(Message) /\ follow \in Seq(Message) /\ sent \in 0 .. MaxMessages
      /\ active \in Run \cup {0} /\ 0 \notin Run
  BY DEF IInv, TypeOK, Run
<1>1. ~streaming /\ sent' = sent
  BY DEF Continue
<1>2. active = 0 \/ cons[active] = "ended"
  BY <1>0, <1>1 DEF IInv, RunsInOrder, OneActiveRun
<1>3. Coming = <<>> /\ Pending = <<>>
  BY <1>2, IdleFacts
<1>4. /\ 1 .. sent = Held(steering) \cup Held(follow) \cup (gone \cup lost) \cup Users(history)
      /\ Apart(Held(steering), Held(follow), gone \cup lost, Users(history), {}, {})
      /\ Once(steering) /\ Once(follow)
  BY <1>3, Nothing DEF IInv, Spread
<1>5. 1 .. sent' = 1 .. sent /\ sent' \in 0 .. MaxMessages
  BY <1>0, <1>1
<1>6. CASE StartRun(Taken(steering), TRUE, Left(steering)) /\ UNCHANGED follow
  <2>1. /\ Taken(steering) \in Seq(Message) /\ Left(steering) \in Seq(Message)
        /\ Held(steering) = Held(Taken(steering)) \cup Held(Left(steering))
        /\ Once(Taken(steering)) /\ Once(Left(steering))
        /\ Held(Taken(steering)) \cap Held(Left(steering)) = {}
    BY <1>0, <1>4, TakenAndLeft
  <2>2. /\ 1 .. sent' = Held(Left(steering)) \cup Held(follow') \cup (gone \cup lost)
                        \cup Users(history) \cup Held(Taken(steering))
        /\ Apart(Held(Left(steering)), Held(follow'), gone \cup lost, Users(history),
                 Held(Taken(steering)), {})
    BY <1>4, <1>5, <1>6, <2>1 DEF Apart
  <2>3. follow' \in Seq(Message) /\ Once(follow')
    BY <1>0, <1>4, <1>6
  <2>4. StartRun(Taken(steering), TRUE, Left(steering)) /\ TRUE \in BOOLEAN
    BY <1>6
  <2> DEFINE ps == Taken(steering)
             q == Left(steering)
  <2>5. /\ ps \in Seq(Message) /\ q \in Seq(Message) /\ Once(ps) /\ Once(q)
        /\ StartRun(ps, TRUE, q)
        /\ 1 .. sent' = Held(q) \cup Held(follow') \cup (gone \cup lost)
                        \cup Users(history) \cup Held(ps)
        /\ Apart(Held(q), Held(follow'), gone \cup lost, Users(history), Held(ps), {})
    BY <2>1, <2>2, <2>4
  <2> HIDE DEF ps, q
  <2> QED
    BY <1>1, <1>5, <2>3, <2>5, StartKeeps
<1>7. CASE StartRun(Taken(follow), FALSE, steering) /\ follow' = Left(follow)
  <2> DEFINE ps == Taken(follow)
  <2>1. /\ ps \in Seq(Message) /\ follow' \in Seq(Message)
        /\ Held(follow) = Held(ps) \cup Held(follow')
        /\ Once(ps) /\ Once(follow')
        /\ Held(ps) \cap Held(follow') = {}
    BY <1>0, <1>4, <1>7, TakenAndLeft
  <2>2. StartRun(ps, FALSE, steering) /\ FALSE \in BOOLEAN
    BY <1>7
  <2> HIDE DEF ps
  <2>3. /\ 1 .. sent' = Held(steering) \cup Held(follow') \cup (gone \cup lost)
                        \cup Users(history) \cup Held(ps)
        /\ Apart(Held(steering), Held(follow'), gone \cup lost, Users(history), Held(ps), {})
    BY <1>4, <1>5, <2>1 DEF Apart
  <2> QED
    BY <1>0, <1>1, <1>4, <1>5, <2>1, <2>2, <2>3, StartKeeps
<1>8. CASE StartRun(<<>>, FALSE, steering) /\ UNCHANGED follow
  <2> DEFINE ps == <<>>
  <2>1. ps \in Seq(Message) /\ Held(ps) = {} /\ Once(ps)
    BY Nothing
  <2>2. StartRun(ps, FALSE, steering) /\ FALSE \in BOOLEAN
    BY <1>8
  <2>3. follow' = follow
    BY <1>8
  <2> HIDE DEF ps
  <2>4. /\ 1 .. sent' = Held(steering) \cup Held(follow') \cup (gone \cup lost)
                        \cup Users(history) \cup Held(ps)
        /\ Apart(Held(steering), Held(follow'), gone \cup lost, Users(history), Held(ps), {})
    BY <1>4, <1>5, <2>1, <2>3 DEF Apart
  <2>5. follow' \in Seq(Message) /\ Once(follow')
    BY <1>0, <1>4, <2>3
  <2> QED
    BY <1>0, <1>1, <1>4, <1>5, <2>1, <2>2, <2>4, <2>5, StartKeeps
<1> QED
  BY <1>6, <1>7, <1>8 DEF Continue

(***************************************************************************)
(* The places of a message in a run.                                       *)
(***************************************************************************)
LEMMA InRunPlaces ==
  ASSUME NEW m, NEW r
  PROVE  /\ InRun(m, r) # {} <=> At(m, pend[r]) # {} \/ At(<<"user", m>>, buf[r]) # {}
         /\ \A x \in InRun(m, r) :
               \/ \E i \in At(m, pend[r]) : x = <<"pend", r, i>>
               \/ \E i \in At(<<"user", m>>, buf[r]) : x = <<"buf", r, i>>
<1> DEFINE A == At(m, pend[r])
           B == At(<<"user", m>>, buf[r])
<1>1. InRun(m, r) = ({"pend"} \X {r} \X A) \cup ({"buf"} \X {r} \X B)
  BY DEF InRun
<1> HIDE DEF A, B
<1>2. /\ \A i \in A : <<"pend", r, i>> \in InRun(m, r)
      /\ \A i \in B : <<"buf", r, i>> \in InRun(m, r)
  BY <1>1
<1>3. \A x \in InRun(m, r) : (\E i \in A : x = <<"pend", r, i>>) \/ (\E i \in B : x = <<"buf", r, i>>)
  BY <1>1
<1> QED
  BY <1>2, <1>3 DEF A, B

(***************************************************************************)
(* A forced abort: what the active run has found or pushed is lost.        *)
(***************************************************************************)
LEMMA ForceAbortKeeps ==
  ASSUME IInv, ForceAbort
  PROVE  IInv'
<1>0. /\ active \in Run \cup {0} /\ 0 \notin Run /\ pend \in [Run -> Seq(Message)]
      /\ buf \in [Run -> Seq(Entry)] /\ lost \subseteq Message /\ promised \in Run \cup {0}
  BY DEF IInv, TypeOK, Run
<1>1. /\ UNCHANGED <<steering, follow, gone, sent, history, seq, pc, pend, tool, calls, buf, cons>>
      /\ promised # 0 \/ streaming
      /\ aborted' = aborted \cup ({promised} \cap Run)
      /\ settled' = settled \cup ({promised} \cap Run)
      /\ forced' = forced \cup ({active} \cap Run)
      /\ lost' = lost \cup {m \in Message : \E s \in {active} \cap Run : InRun(m, s) # {}}
      /\ active' = 0 /\ streaming' = FALSE /\ promised' = 0
  BY DEF ForceAbort, GiveUp, loopVars
<1>2. active \in Run /\ active # 0 /\ {active} \cap Run = {active}
  BY <1>0, <1>1 DEF IInv, RunsInOrder
<1>3. Coming = buf[active] /\ Pending = pend[active] /\ Coming' = <<>> /\ Pending' = <<>>
  BY <1>1, <1>2 DEF Coming, Pending
<1>4. lost' = lost \cup Held(Pending) \cup Users(Coming)
  <2>1. pend[active] \in Seq(Message) /\ buf[active] \in Seq(Entry)
    BY <1>0, <1>2
  <2>2. /\ DOMAIN pend[active] = 1 .. Len(pend[active]) /\ DOMAIN buf[active] = 1 .. Len(buf[active])
        /\ \A i \in 1 .. Len(pend[active]) : pend[active][i] \in Message
    BY <2>1, LenProperties, ElementOfSeq
  <2>3. ASSUME NEW m \in Message
        PROVE  InRun(m, active) # {} <=> m \in Held(pend[active]) \cup Users(buf[active])
    <3>1. At(m, pend[active]) # {} <=> m \in Held(pend[active])
      BY <2>2 DEF At, Held
    <3>2. At(<<"user", m>>, buf[active]) # {} <=> m \in Users(buf[active])
      BY <2>2, <2>3 DEF At, Users
    <3>3. InRun(m, active) # {} <=> At(m, pend[active]) # {} \/ At(<<"user", m>>, buf[active]) # {}
      BY InRunPlaces
    <3> QED
      BY <3>1, <3>2, <3>3
  <2>4. Held(pend[active]) \cup Users(buf[active]) \subseteq Message
    BY <2>2 DEF Held, Users
  <2>5. {m \in Message : \E s \in {active} \cap Run : InRun(m, s) # {}}
           = {m \in Message : InRun(m, active) # {}}
    BY <1>2
  <2>6. {m \in Message : InRun(m, active) # {}} = Held(pend[active]) \cup Users(buf[active])
    BY <2>3, <2>4
  <2> QED
    BY <1>1, <1>3, <2>5, <2>6
<1>5. forced' = forced \cup {active}
  BY <1>1, <1>2
<1>6. TypeOK'
  <2>1. lost' \subseteq Message
    BY <1>0, <1>1
  <2> QED
    BY <1>0, <1>1, <2>1 DEF IInv, TypeOK
<1>7. RunsInOrder'
  <2>1. active = seq
    BY <1>2 DEF IInv, RunsInOrder
  <2>2. ~(seq < active)
    BY <1>2, <2>1 DEF Run
  <2> QED
    BY <1>1, <1>5, <2>2 DEF IInv, RunsInOrder
<1>8. OneActiveRun'
  BY <1>1, <1>5 DEF IInv, OneActiveRun
<1>9. ToolsOnly'
  BY <1>1 DEF IInv, ToolsOnly
<1>10. HeardOut' /\ EndIsLast'
  BY <1>1, <1>5 DEF IInv, HeardOut, EndIsLast
<1>11. Spread'
  <2>1. /\ Held(steering)' = Held(steering) /\ Once(steering)' = Once(steering)
        /\ Held(follow)' = Held(follow) /\ Once(follow)' = Once(follow)
        /\ Users(history)' = Users(history) /\ UsersOnce(history)' = UsersOnce(history)
    BY <1>1 DEF Held, Once, Users, UsersOnce
  <2>2. Held(Pending)' = {} /\ Once(Pending)' /\ Users(Coming)' = {} /\ UsersOnce(Coming)'
    <3>1. Held(Pending)' = Held(<<>>) /\ Once(Pending)' = Once(<<>>)
      BY <1>3 DEF Held, Once
    <3>2. Users(Coming)' = Users(<<>>) /\ UsersOnce(Coming)' = UsersOnce(<<>>)
      BY <1>3 DEF Users, UsersOnce
    <3> QED
      BY <3>1, <3>2, Nothing
  <2>3. (gone \cup lost)' = (gone \cup lost) \cup Held(Pending) \cup Users(Coming)
        /\ (1 .. sent)' = 1 .. sent
    BY <1>1, <1>4
  <2>4. Spread
    BY DEF IInv
  <2> QED
    BY <2>1, <2>2, <2>3, <2>4 DEF Spread, Apart
<1>12. CallsAnswered'
  BY <1>5 DEF CallsAnswered
<1> QED
  BY <1>6, <1>7, <1>8, <1>9, <1>10, <1>11, <1>12 DEF IInv

(***************************************************************************)
(* The agent leaves a run: it has heard its end, or no longer listens.     *)
(***************************************************************************)
LEMMA FinallyKeeps ==
  ASSUME IInv, NEW r \in Run, Finally(r)
  PROVE  IInv'
<1>0. /\ active \in Run \cup {0} /\ 0 \notin Run /\ promised \in Run \cup {0}
      /\ cons \in [Run -> {"none", "loop", "ended", "over"}]
  BY DEF IInv, TypeOK, Run
<1>1. /\ UNCHANGED <<queueVars, history, seq, pc, pend, tool, calls, buf, aborted, forced>>
      /\ cons[r] = "ended" /\ cons' = [cons EXCEPT ![r] = "over"]
      /\ IF active = r
         THEN /\ streaming' = FALSE /\ active' = 0 /\ promised' = 0
              /\ settled' = settled \cup ({promised} \cap Run)
         ELSE UNCHANGED <<streaming, active, promised, settled>>
  BY DEF Finally, loopVars
<1>2. cons'[r] = "over" /\ \A s \in Run \ {r} : cons'[s] = cons[s]
  BY <1>0, <1>1
<1>3. TypeOK'
  <2>1. cons' \in [Run -> {"none", "loop", "ended", "over"}]
    BY <1>0, <1>1
  <2> QED
    BY <1>0, <1>1, <2>1 DEF IInv, TypeOK, queueVars
<1>4. RunsInOrder'
  BY <1>0, <1>1, <1>2 DEF IInv, RunsInOrder
<1>5. OneActiveRun'
  BY <1>1, <1>2 DEF IInv, OneActiveRun
<1>6. ToolsOnly'
  BY <1>1 DEF IInv, ToolsOnly
<1>7. HeardOut' /\ EndIsLast'
  BY <1>1, <1>2 DEF IInv, HeardOut, EndIsLast
<1>8. CASE active = r
  <2>1. /\ Coming = <<>> /\ Pending = <<>> /\ Stream = history
        /\ (IF active = 0 THEN {} ELSE AtTools(active)) = {}
    BY <1>1, <1>8, IdleFacts
  <2>2. Coming' = Coming /\ Pending' = Pending
    BY <1>1, <1>8, <2>1 DEF Coming, Pending
  <2>3. Spread'
    BY <1>1, <2>2, SameSpread DEF IInv
  <2>4. CallsAnswered'
    <3> DEFINE O == IF active = 0 THEN {} ELSE AtTools(active)
    <3>1. O = {} /\ O' = {}
      BY <1>1, <1>8, <2>1
    <3>2. Stream' = Stream
      BY <1>1, <2>2 DEF Stream
    <3>3. Answered(Stream, O)' <=> Answered(Stream', O')
      BY DEF Answered, Open, Closed
    <3>4. /\ CallsAnswered' <=> (forced' = {} => Answered(Stream, O)')
          /\ CallsAnswered <=> (forced = {} => Answered(Stream, O))
      BY DEF CallsAnswered
    <3> HIDE DEF O
    <3> QED
      BY <1>1, <3>1, <3>2, <3>3, <3>4 DEF IInv
  <2> QED
    BY <1>3, <1>4, <1>5, <1>6, <1>7, <2>3, <2>4 DEF IInv
<1>9. CASE active # r
  <2>1. UNCHANGED <<active, history, forced, pc, tool>>
    BY <1>1, <1>9
  <2>2. Coming' = Coming /\ Pending' = Pending
    BY <1>1, <1>9 DEF Coming, Pending
  <2>3. Spread'
    BY <1>1, <2>2, SameSpread DEF IInv
  <2>4. CallsAnswered'
    BY <2>1, <2>2, SameStream DEF IInv
  <2> QED
    BY <1>3, <1>4, <1>5, <1>6, <1>7, <2>3, <2>4 DEF IInv
<1> QED
  BY <1>8, <1>9

(***************************************************************************)
(* The agent takes an event of run r.                                      *)
(***************************************************************************)
LEMMA ConsumeKeeps ==
  ASSUME IInv, NEW r \in Run, Consume(r)
  PROVE  IInv'
<1> DEFINE e == Head(buf[r])
           t == Tail(buf[r])
           x == IF e = Failure THEN Stopped ELSE e
<1>0. /\ active \in Run \cup {0} /\ 0 \notin Run /\ history \in Seq(Entry)
      /\ cons \in [Run -> {"none", "loop", "ended", "over"}] /\ buf \in [Run -> Seq(Entry)]
      /\ streaming \in BOOLEAN
  BY DEF IInv, TypeOK, Run
<1>1. /\ UNCHANGED <<queueVars, active, promised, settled, seq, pc, pend, tool, calls,
                     aborted, forced>>
      /\ cons[r] = "loop" /\ buf[r] # <<>>
      /\ IF active # r
         THEN /\ cons' = [cons EXCEPT ![r] = "over"]
              /\ buf' = [buf EXCEPT ![r] = <<>>]
              /\ UNCHANGED <<history, streaming>>
         ELSE /\ buf' = [buf EXCEPT ![r] = t]
              /\ history' = IF e = End THEN history ELSE Append(history, x)
              /\ streaming' = (streaming /\ e # End)
              /\ cons' = [cons EXCEPT ![r] = IF e \in {End, Failure} THEN "ended" ELSE @]
  BY DEF Consume
<1>2. /\ e \in Entry /\ t \in Seq(Entry) /\ Len(buf[r]) \in Nat /\ Len(t) \in Nat
      /\ Len(t) = Len(buf[r]) - 1 /\ e = buf[r][1] /\ 1 \in 1 .. Len(buf[r])
      /\ \A i \in 1 .. Len(t) : t[i] = buf[r][i + 1] /\ i + 1 \in 1 .. Len(buf[r])
  BY <1>0, <1>1, TailOfStream
<1>3. /\ Users(buf[r]) = Users(<<e>>) \cup Users(t)
      /\ UsersOnce(buf[r]) => UsersOnce(t) /\ Users(<<e>>) \cap Users(t) = {}
  BY <1>0, <1>1, TailUsers
<1>4. <<e>> \o t = buf[r] /\ <<e>> \in Seq(Entry)
  <2> DEFINE p == <<e>>
             c == p \o t
  <2>1. p \in Seq(Entry) /\ Len(p) = 1 /\ p[1] = e
    BY <1>2
  <2> HIDE DEF p
  <2>2. /\ c \in Seq(Entry) /\ Len(c) = Len(p) + Len(t)
        /\ \A i \in 1 .. Len(c) : \/ i \in 1 .. Len(p) /\ c[i] = p[i]
                                  \/ i - Len(p) \in 1 .. Len(t) /\ c[i] = t[i - Len(p)]
    BY <1>2, <2>1, JoinStreams
  <2> HIDE DEF c, e, t
  <2>3. Len(c) = Len(buf[r])
    BY <1>2, <2>1, <2>2
  <2>4. \A i \in 1 .. Len(c) : c[i] = buf[r][i]
    <3> TAKE i \in 1 .. Len(c)
    <3>1. CASE i \in 1 .. Len(p) /\ c[i] = p[i]
      BY <1>2, <2>1, <3>1
    <3>2. CASE i - Len(p) \in 1 .. Len(t) /\ c[i] = t[i - Len(p)]
      <4>1. (i - 1) + 1 = i
        BY <2>2
      <4> QED
        BY <1>2, <2>1, <3>2, <4>1
    <3> QED
      BY <2>2, <3>1, <3>2
  <2>5. c = buf[r]
    BY <1>0, <2>2, <2>3, <2>4, SeqEqual
  <2> QED
    BY <2>1, <2>5 DEF c, p
<1>5. x \in Entry
  BY <1>2, Entries
<1>6. e \in {End, Failure} /\ r \notin forced => pc[r] = "over" /\ t = <<>>
  <2> SUFFICES ASSUME e \in {End, Failure}, r \notin forced PROVE pc[r] = "over" /\ t = <<>>
    OBVIOUS
  <2> HIDE DEF e, t
  <2>1. 1 = Len(buf[r]) /\ pc[r] = "over"
    BY <1>2 DEF IInv, EndIsLast
  <2>2. Len(t) = 0
    BY <1>2, <2>1
  <2> QED
    BY <1>2, <2>1, <2>2, EmptySeq
<1> HIDE DEF e, t, x
<1>7. TypeOK'
  <2>1. /\ buf' \in [Run -> Seq(Entry)]
        /\ cons' \in [Run -> {"none", "loop", "ended", "over"}]
    BY <1>0, <1>1, <1>2, Nothing
  <2>2. history' \in Seq(Entry) /\ streaming' \in BOOLEAN
    <3>1. Append(history, x) \in Seq(Entry)
      BY <1>0, <1>5, AppendProperties
    <3>2. history' \in {history, Append(history, x)}
      BY <1>1
    <3>3. streaming' \in {streaming, streaming /\ e # End}
      BY <1>1
    <3> QED
      BY <1>0, <3>1, <3>2, <3>3
  <2> QED
    BY <1>1, <2>1, <2>2 DEF IInv, TypeOK, queueVars
<1>8. \A s \in Run \ {r} : cons'[s] = cons[s] /\ buf'[s] = buf[s]
  BY <1>0, <1>1
<1>9. ToolsOnly'
  BY <1>1 DEF IInv, ToolsOnly
<1>10. CASE active # r
  <2>1. r \in forced
    BY <1>1, <1>10 DEF IInv, OneActiveRun
  <2>2. UNCHANGED <<history, streaming>> /\ cons'[r] = "over"
    BY <1>0, <1>1, <1>10
  <2>3. active # 0 => active \in Run \ {r}
    BY <1>0, <1>10
  <2>4. Coming' = Coming /\ Pending' = Pending
    BY <1>1, <1>8, <2>3 DEF Coming, Pending
  <2>5. Spread'
    BY <1>1, <2>2, <2>4, SameSpread DEF IInv
  <2>6. CallsAnswered'
    BY <1>1, <2>2, <2>4, SameStream DEF IInv
  <2>7. RunsInOrder'
    BY <1>1, <1>8, <2>2, <2>3 DEF IInv, RunsInOrder
  <2>8. OneActiveRun' /\ HeardOut' /\ EndIsLast'
    BY <1>1, <1>8, <2>1, <2>2 DEF IInv, OneActiveRun, HeardOut, EndIsLast
  <2> QED
    BY <1>7, <1>9, <2>5, <2>6, <2>7, <2>8 DEF IInv
<1>11. CASE active = r
  <2>1. r \notin forced /\ r # 0 /\ streaming
    BY <1>0, <1>1, <1>11 DEF IInv, RunsInOrder, OneActiveRun
  <2>2. /\ Coming = buf[r] /\ Pending = pend[r] /\ Coming' = t /\ Pending' = Pending
        /\ buf'[r] = t
    BY <1>0, <1>1, <1>11, <2>1 DEF Coming, Pending
  <2>3. /\ history' = IF e = End THEN history ELSE Append(history, x)
        /\ streaming' = (e # End)
        /\ cons'[r] = IF e \in {End, Failure} THEN "ended" ELSE "loop"
    BY <1>0, <1>1, <1>11, <2>1
  <2>4. RunsInOrder'
    BY <1>1, <1>8, <1>11, <2>1, <2>3 DEF IInv, RunsInOrder
  <2>5. OneActiveRun'
    BY <1>1, <1>8, <1>11, <2>3 DEF IInv, OneActiveRun
  <2>6. HeardOut'
    BY <1>1, <1>6, <1>8, <2>1, <2>2, <2>3 DEF IInv, HeardOut
  <2>7. EndIsLast'
    <3>1. ASSUME NEW i \in 1 .. Len(t), t[i] \in {End, Failure} PROVE i = Len(t) /\ pc[r] = "over"
      <4>1. i + 1 = Len(buf[r]) /\ pc[r] = "over"
        BY <1>2, <2>1, <3>1 DEF IInv, EndIsLast
      <4> QED
        BY <1>2, <4>1
    <3> QED
      BY <1>1, <1>8, <2>2, <3>1 DEF IInv, EndIsLast
  <2>8. Spread'
    <3>1. /\ Users(history') = Users(history) \cup Users(<<e>>)
          /\ UsersOnce(history')
      <4>0. UsersOnce(history) /\ Users(history) \cap Users(<<e>>) = {} /\ UsersOnce(<<e>>)
        <5>1. UsersOnce(history) /\ Users(history) \cap Users(Coming) = {}
          BY DEF IInv, Spread, Apart
        <5>2. UsersOnce(<<e>>)
          <6> DEFINE p == <<e>>
          <6>1. Len(p) = 1
            OBVIOUS
          <6> HIDE DEF p
          <6>2. \A i, j \in 1 .. Len(p) : i = j
            BY <6>1
          <6>3. UsersOnce(p)
            BY <6>2 DEF UsersOnce
          <6> QED
            BY <6>3 DEF p
        <5> QED
          BY <1>3, <2>2, <5>1, <5>2
      <4>1. CASE e = End
        <5>1. Users(<<End>>) = {}
          BY LoopEvents
        <5>2. Users(<<e>>) = {}
          BY ONLY <4>1, <5>1
        <5> QED
          BY <2>3, <4>0, <4>1, <5>2
      <4>2. CASE e # End
        <5>1. history' = history \o <<x>>
          BY <1>0, <1>5, <2>3, <4>2, AppendIsConcat
        <5>2. Users(<<x>>) = Users(<<e>>) /\ UsersOnce(<<x>>)
          <6>1. CASE e = Failure
            <7>1. x = Stopped
              BY <6>1 DEF x
            <7>2. Users(<<Failure>>) = {} /\ Users(<<Stopped>>) = {} /\ UsersOnce(<<Stopped>>)
              BY LoopEvents
            <7> QED
              BY ONLY <6>1, <7>1, <7>2
          <6>2. CASE e # Failure
            <7>1. x = e
              BY <6>2 DEF x
            <7> QED
              BY ONLY <4>0, <7>1
          <6> QED
            BY <6>1, <6>2
        <5>3. <<x>> \in Seq(Entry)
          BY <1>5
        <5>4. /\ Users(history \o <<x>>) = Users(history) \cup Users(<<x>>)
              /\ UsersOnce(history) /\ UsersOnce(<<x>>) /\ Users(history) \cap Users(<<x>>) = {}
                 => UsersOnce(history \o <<x>>)
          BY <1>0, <5>3, JoinedUsers
        <5> QED
          BY ONLY <4>0, <5>1, <5>2, <5>4
      <4> QED
        BY <4>1, <4>2
    <3>2. /\ Held(steering)' = Held(steering) /\ Once(steering)' = Once(steering)
          /\ Held(follow)' = Held(follow) /\ Once(follow)' = Once(follow)
          /\ Users(history)' = Users(history') /\ UsersOnce(history)' = UsersOnce(history')
          /\ (gone \cup lost)' = gone \cup lost /\ (1 .. sent)' = 1 .. sent
      BY <1>1 DEF Held, Once, Users, UsersOnce, queueVars
    <3>3. /\ Held(Pending)' = Held(Pending) /\ Once(Pending)' = Once(Pending)
          /\ Users(Coming)' = Users(t) /\ UsersOnce(Coming)' = UsersOnce(t)
      BY <2>2 DEF Held, Once, Users, UsersOnce
    <3>4. Spread
      BY DEF IInv
    <3>5. Users(Coming) = Users(<<e>>) \cup Users(t)
          /\ UsersOnce(t) /\ Users(<<e>>) \cap Users(t) = {}
      BY <1>3, <2>2, <3>4 DEF Spread
    <3>6. UsersOnce(history)' /\ UsersOnce(Coming)' /\ Once(Pending)'
          /\ Once(steering)' /\ Once(follow)'
      BY <3>1, <3>2, <3>3, <3>4, <3>5 DEF Spread
    <3>7. (1 .. sent)' = Held(steering)' \cup Held(follow)' \cup (gone \cup lost)'
                   \cup Users(history)' \cup Held(Pending)' \cup Users(Coming)'
      BY <3>1, <3>2, <3>3, <3>4, <3>5 DEF Spread
    <3>8. Apart(Held(steering), Held(follow), gone \cup lost,
                Users(history), Held(Pending), Users(Coming))'
      BY <3>1, <3>2, <3>3, <3>4, <3>5 DEF Spread, Apart
    <3> QED
      BY <3>6, <3>7, <3>8 DEF Spread
  <2>9. CallsAnswered'
    <3>1. CASE e \notin {End, Failure}
      <4>1. history' = history \o <<e>>
        <5>1. history' = Append(history, e)
          BY <2>3, <3>1 DEF x
        <5> QED
          BY <1>0, <1>2, <5>1, AppendIsConcat
      <4>2. (history \o <<e>>) \o t = history \o (<<e>> \o t)
        BY <1>0, <1>2, <1>4, ConcatAssociative, SMTT(30)
      <4>3. Stream' = Stream
        <5>1. Stream' = history' \o Coming'
          BY DEF Stream
        <5>2. Stream' = (history \o <<e>>) \o t
          BY ONLY <2>2, <4>1, <5>1
        <5>3. Stream = history \o buf[r]
          BY ONLY <2>2 DEF Stream
        <5> QED
          BY ONLY <1>4, <4>2, <5>2, <5>3
      <4> DEFINE O == IF active = 0 THEN {} ELSE AtTools(active)
      <4>4. O' = O
        BY <1>1 DEF AtTools, Ended
      <4>5. Answered(Stream, O)' <=> Answered(Stream', O')
        BY DEF Answered, Open, Closed
      <4>6. /\ CallsAnswered' <=> (forced' = {} => Answered(Stream, O)')
            /\ CallsAnswered <=> (forced = {} => Answered(Stream, O))
        BY DEF CallsAnswered
      <4> HIDE DEF O
      <4> QED
        BY <1>1, <4>3, <4>4, <4>5, <4>6 DEF IInv
    <3>2. CASE e \in {End, Failure}
      <4>1. pc[r] = "over" /\ t = <<>>
        BY <1>6, <2>1, <3>2
      <4> DEFINE O == IF active = 0 THEN {} ELSE AtTools(active)
      <4>2. O = {} /\ O' = {}
        BY <1>1, <1>11, <2>1, <4>1 DEF AtTools
      <4>3. buf[r] = <<e>>
        BY <1>2, <1>4, <4>1, ConcatEmptySeq
      <4>4. Stream = history \o <<e>> /\ Stream \in Seq(Entry)
        BY <2>2, <4>3, StreamTyped DEF Stream, IInv
      <4>5. Stream' = history'
        <5>1. history' \in Seq(Entry)
          BY <1>7 DEF TypeOK
        <5>2. Stream' = history' \o <<>>
          BY <2>2, <4>1 DEF Stream
        <5> QED
          BY <5>1, <5>2, ConcatEmptySeq
      <4>6. Answered(history \o <<e>>, {}) => Answered(history, {})
        BY <1>0, <3>2, EndUnsaid
      <4>7. Answered(history, {}) => Answered(history', {})
        <5>1. CASE e = End
          BY <2>3, <5>1
        <5>2. CASE e # End
          <6>1. x = Stopped /\ history' = Append(history, x)
            BY <2>3, <3>2, <5>2 DEF x
          <6>2. history' = history \o <<Stopped>>
            BY <1>0, <1>5, <6>1, AppendIsConcat
          <6> DEFINE p == <<Stopped>>
          <6>3. p \in Seq(Entry) /\ \A j \in 1 .. Len(p) : p[j] # Call
            <7>1. p \in Seq(Entry) /\ Len(p) = 1 /\ p[1] = Stopped
              BY LoopEvents
            <7> HIDE DEF p
            <7>2. \A j \in 1 .. Len(p) : p[j] = Stopped
              BY <7>1
            <7> QED
              BY <7>1, <7>2, Entries
          <6> HIDE DEF p
          <6>4. Answered(history, {}) => Answered(history \o p, {})
            BY <1>0, <6>3, OthersFollow
          <6> QED
            BY <6>2, <6>4 DEF p
        <5> QED
          BY <5>1, <5>2
      <4>8. Answered(Stream, O)' <=> Answered(Stream', O')
        BY DEF Answered, Open, Closed
      <4>9. /\ CallsAnswered' <=> (forced' = {} => Answered(Stream, O)')
            /\ CallsAnswered <=> (forced = {} => Answered(Stream, O))
        BY DEF CallsAnswered
      <4>10. CallsAnswered /\ forced' = forced
        BY <1>1 DEF IInv
      <4> HIDE DEF O
      <4> QED
        BY <4>2, <4>4, <4>5, <4>6, <4>7, <4>8, <4>9, <4>10
    <3> QED
      BY <3>1, <3>2
  <2> QED
    BY <1>7, <1>9, <2>4, <2>5, <2>6, <2>7, <2>8, <2>9 DEF IInv
<1> QED
  BY <1>10, <1>11

-----------------------------------------------------------------------------
(* The theorems.                                                           *)

(* A new agent, with no run and empty queues, satisfies it. *)
LEMMA InitIInv ==
  ASSUME Init
  PROVE  IInv
<1>1. TypeOK
  <2>1. 0 \in 0 .. MaxMessages /\ 0 \in 0 .. MaxRuns /\ 0 \in 0 .. MaxCalls
    BY BoundAssumption
  <2>2. <<>> \in Seq(Message) /\ <<>> \in Seq(Entry)
    BY Nothing
  <2> QED
    BY <2>1, <2>2 DEF Init, TypeOK, NoTools
<1>2. /\ Coming = <<>> /\ Pending = <<>> /\ active = 0
  BY DEF Init, Coming, Pending
<1>3. Spread
  <2>1. sent = 0 /\ 1 .. 0 = {}
    BY DEF Init
  <2> QED
    BY <1>2, <2>1, Nothing DEF Init, Spread, Apart
<1>4. CallsAnswered
  <2>1. Stream = <<>>
    <3>1. <<>> \o <<>> = <<>>
      BY Nothing, ConcatEmptySeq
    <3> QED
      BY <1>2, <3>1 DEF Init, Stream
  <2> QED
    BY <1>2, <2>1, Nothing DEF CallsAnswered, Answered
<1>5. RunsInOrder
  <2>1. \A r \in Run : 0 < r
    BY BoundAssumption DEF Run
  <2> QED
    BY <2>1 DEF Init, RunsInOrder
<1>6. OneActiveRun /\ ToolsOnly
  BY DEF Init, OneActiveRun, ToolsOnly
<1>7. HeardOut /\ EndIsLast
  BY Nothing DEF Init, HeardOut, EndIsLast
<1> QED
  BY <1>1, <1>3, <1>4, <1>5, <1>6, <1>7 DEF IInv

(* A step that changes nothing keeps it. *)
LEMMA StutterIInv ==
  ASSUME IInv, UNCHANGED vars
  PROVE  IInv'
<1>1. UNCHANGED <<queueVars, agentVars, loopVars, cons, aborted, forced>>
  BY DEF vars, runVars
<1>2. TypeOK'
  BY <1>1 DEF IInv, TypeOK, queueVars, agentVars, loopVars
<1>3. Coming' = Coming /\ Pending' = Pending
  BY <1>1 DEF Coming, Pending, agentVars, loopVars
<1>4. Spread'
  BY <1>1, <1>3, SameSpread DEF IInv, agentVars
<1> QED
  BY <1>1, <1>2, <1>4, RunsKept

(***************************************************************************)
(* The invariant holds in every state of every behaviour.                  *)
(***************************************************************************)
THEOREM Invariance == Spec => []IInv
<1>1. Init => IInv
  BY InitIInv
<1>2. IInv /\ [Next]_vars => IInv'
  <2> SUFFICES ASSUME IInv, [Next]_vars PROVE IInv'
    OBVIOUS
  <2>1. CASE Steer \/ FollowUp \/ TakeBack
    BY <2>1, QueuesKeep
  <2>2. CASE Prompt
    BY <2>2, PromptKeeps
  <2>3. CASE Continue
    BY <2>3, ContinueKeeps
  <2>4. CASE Abort
    BY <2>4, AbortKeeps
  <2>5. CASE ForceAbort
    BY <2>5, ForceAbortKeeps
  <2>6. ASSUME NEW r \in Run, Loop(r) PROVE IInv'
    <3>1. PICK es \in Seq(Entry), l \in Stage : Effect(r, es, l)
      BY <2>6, LoopEffect DEF IInv
    <3> QED
      BY <3>1, LoopKeeps
  <2>7. ASSUME NEW r \in Run, Consume(r) PROVE IInv'
    BY <2>7, ConsumeKeeps
  <2>8. ASSUME NEW r \in Run, Finally(r) PROVE IInv'
    BY <2>8, FinallyKeeps
  <2>9. CASE UNCHANGED vars
    BY <2>9, StutterIInv
  <2> QED
    BY <2>1, <2>2, <2>3, <2>4, <2>5, <2>6, <2>7, <2>8, <2>9 DEF Next
<1> QED
  BY <1>1, <1>2, PTL DEF Spec

(***************************************************************************)
(* The variables keep their types.                                         *)
(***************************************************************************)
THEOREM TypeCorrect == Spec => []TypeOK
<1>1. IInv => TypeOK
  BY DEF IInv
<1> QED
  BY <1>1, Invariance, PTL

(***************************************************************************)
(* A run that goes on is the active one, and the agent says it is          *)
(* streaming: also when a prompt came before the last run had cleaned up.  *)
(***************************************************************************)
THEOREM OneActive == Spec => []OneActiveRun
<1>1. IInv => OneActiveRun
  BY DEF IInv
<1> QED
  BY <1>1, Invariance, PTL

(***************************************************************************)
(* Every message sent and not taken back is in one place, once, unless a   *)
(* run had dequeued it when it was given up by force.                      *)
(***************************************************************************)
THEOREM Delivered == Spec => []DeliveredOnce
<1>1. IInv => DeliveredOnce
  <2> SUFFICES ASSUME IInv PROVE DeliveredOnce
    OBVIOUS
  <2>0. /\ steering \in Seq(Message) /\ follow \in Seq(Message) /\ history \in Seq(Entry)
        /\ pend \in [Run -> Seq(Message)] /\ buf \in [Run -> Seq(Entry)]
        /\ active \in Run \cup {0} /\ 0 \notin Run /\ sent \in 0 .. MaxMessages
        /\ cons \in [Run -> {"none", "loop", "ended", "over"}]
    BY DEF IInv, TypeOK, Run
  <2>1. /\ DOMAIN steering = 1 .. Len(steering) /\ DOMAIN follow = 1 .. Len(follow)
        /\ DOMAIN history = 1 .. Len(history)
        /\ \A r \in Run : DOMAIN pend[r] = 1 .. Len(pend[r]) /\ DOMAIN buf[r] = 1 .. Len(buf[r])
    BY <2>0, LenProperties
  <2>2. /\ 1 .. sent = Held(steering) \cup Held(follow) \cup (gone \cup lost)
                       \cup Users(history) \cup Held(Pending) \cup Users(Coming)
        /\ Apart(Held(steering), Held(follow), gone \cup lost,
                 Users(history), Held(Pending), Users(Coming))
        /\ Once(steering) /\ Once(follow) /\ Once(Pending)
        /\ UsersOnce(history) /\ UsersOnce(Coming)
    BY DEF IInv, Spread
  <2>3. active # 0 => Pending = pend[active] /\ Coming = buf[active]
    BY DEF Pending, Coming
  <2>4. \A r \in Run \ forced : r # active => pend[r] = <<>> /\ buf[r] = <<>>
    BY DEF IInv, OneActiveRun, HeardOut, ToolsOnly
  <2>5. active # 0 => active \in Run \ forced
    BY <2>0 DEF IInv, RunsInOrder
  <2>6. ASSUME NEW m \in 1 .. sent
        PROVE  /\ Places(m) = {} <=> m \in gone \cup lost
               /\ \A x, y \in Places(m) : x = y
    <3>0. m \in Message
      BY <2>0, <2>6, BoundAssumption DEF Message
    <3> DEFINE S == At(m, steering)
               F == At(m, follow)
               H == At(<<"user", m>>, history)
               P(r) == At(m, pend[r])
               B(r) == At(<<"user", m>>, buf[r])
    <3>1. /\ S # {} <=> m \in Held(steering)
          /\ F # {} <=> m \in Held(follow)
          /\ H # {} <=> m \in Users(history)
          /\ (\A i, j \in S : i = j) /\ (\A i, j \in F : i = j) /\ (\A i, j \in H : i = j)
      <4>1. (S # {} <=> m \in Held(steering)) /\ (\A i, j \in S : i = j)
        BY <2>1, <2>2 DEF At, Held, Once
      <4>2. (F # {} <=> m \in Held(follow)) /\ (\A i, j \in F : i = j)
        BY <2>1, <2>2 DEF At, Held, Once
      <4>3. (H # {} <=> m \in Users(history)) /\ (\A i, j \in H : i = j)
        BY <2>1, <2>2, <3>0 DEF At, Users, UsersOnce
      <4> QED
        BY <4>1, <4>2, <4>3
    <3>2. \A r \in Run \ forced : r # active => P(r) = {} /\ B(r) = {}
      <4>1. 1 .. Len(<<>>) = {} /\ DOMAIN <<>> = {}
        BY Nothing
      <4> QED
        BY <2>4, <4>1 DEF At
    <3>3. active # 0 => /\ P(active) # {} <=> m \in Held(Pending)
                        /\ B(active) # {} <=> m \in Users(Coming)
                        /\ (\A i, j \in P(active) : i = j) /\ (\A i, j \in B(active) : i = j)
      <4> SUFFICES ASSUME active # 0
                   PROVE  /\ P(active) # {} <=> m \in Held(Pending)
                          /\ B(active) # {} <=> m \in Users(Coming)
                          /\ (\A i, j \in P(active) : i = j) /\ (\A i, j \in B(active) : i = j)
        OBVIOUS
      <4>1. /\ DOMAIN Pending = 1 .. Len(Pending) /\ DOMAIN Coming = 1 .. Len(Coming)
            /\ P(active) = At(m, Pending) /\ B(active) = At(<<"user", m>>, Coming)
        BY <2>1, <2>3, <2>5
      <4>2. (At(m, Pending) # {} <=> m \in Held(Pending)) /\ (\A i, j \in At(m, Pending) : i = j)
        BY <2>2, <4>1 DEF At, Held, Once
      <4>3. /\ At(<<"user", m>>, Coming) # {} <=> m \in Users(Coming)
            /\ \A i, j \in At(<<"user", m>>, Coming) : i = j
        BY <2>2, <3>0, <4>1 DEF At, Users, UsersOnce
      <4> QED
        BY <4>1, <4>2, <4>3
    <3>4. active = 0 => Held(Pending) = {} /\ Users(Coming) = {}
      BY Nothing DEF Pending, Coming
    <3>5. \A r : /\ InRun(m, r) # {} <=> P(r) # {} \/ B(r) # {}
                 /\ \A x \in InRun(m, r) :
                       \/ \E i \in P(r) : x = <<"pend", r, i>>
                       \/ \E i \in B(r) : x = <<"buf", r, i>>
      BY InRunPlaces
    <3>6. Places(m) = ({"steering"} \X {0} \X S) \cup ({"follow"} \X {0} \X F)
                      \cup ({"history"} \X {0} \X H) \cup UNION {InRun(m, r) : r \in Run \ forced}
      BY DEF Places
    <3>7. /\ S # {} => F = {} /\ H = {} /\ ~(active # 0 /\ (P(active) # {} \/ B(active) # {}))
          /\ F # {} => H = {} /\ ~(active # 0 /\ (P(active) # {} \/ B(active) # {}))
          /\ H # {} => ~(active # 0 /\ (P(active) # {} \/ B(active) # {}))
          /\ ~(active # 0 /\ P(active) # {} /\ B(active) # {})
      BY <2>2, <3>1, <3>3 DEF Apart
    <3>8. m \in gone \cup lost <=>
            /\ S = {} /\ F = {} /\ H = {}
            /\ ~(active # 0 /\ (P(active) # {} \/ B(active) # {}))
      <4>1. m \in gone \cup lost <=>
              /\ m \notin Held(steering) /\ m \notin Held(follow) /\ m \notin Users(history)
              /\ m \notin Held(Pending) /\ m \notin Users(Coming)
        BY <2>2, <2>6 DEF Apart
      <4> QED
        BY <3>1, <3>3, <3>4, <4>1
    <3>9. \A x \in Places(m) :
             \/ \E i \in S : x = <<"steering", 0, i>>
             \/ \E i \in F : x = <<"follow", 0, i>>
             \/ \E i \in H : x = <<"history", 0, i>>
             \/ active # 0 /\ \E i \in P(active) : x = <<"pend", active, i>>
             \/ active # 0 /\ \E i \in B(active) : x = <<"buf", active, i>>
      <4> TAKE x \in Places(m)
      <4> HIDE DEF S, F, H, P, B
      <4>1. CASE x \in UNION {InRun(m, r) : r \in Run \ forced}
        <5>1. PICK r \in Run \ forced : x \in InRun(m, r)
          BY <4>1
        <5>2. r = active /\ active # 0
          BY <2>0, <3>2, <3>5, <5>1
        <5> QED
          BY <3>5, <5>1, <5>2
      <4>2. CASE x \notin UNION {InRun(m, r) : r \in Run \ forced}
        BY <3>6, <4>2
      <4> QED
        BY <4>1, <4>2
    <3>10. /\ \A i \in S : <<"steering", 0, i>> \in Places(m)
           /\ \A i \in F : <<"follow", 0, i>> \in Places(m)
           /\ \A i \in H : <<"history", 0, i>> \in Places(m)
      <4> HIDE DEF S, F, H, P, B
      <4> QED
        BY <3>6
    <3>11. active # 0 => InRun(m, active) \subseteq Places(m)
      BY <2>5, <3>6
    <3> HIDE DEF S, F, H, P, B
    <3>12. Places(m) = {} <=> m \in gone \cup lost
      <4>1. ASSUME Places(m) = {} PROVE m \in gone \cup lost
        BY <3>5, <3>8, <3>10, <3>11, <4>1
      <4>2. ASSUME m \in gone \cup lost PROVE Places(m) = {}
        BY <3>8, <3>9, <4>2
      <4> QED
        BY <4>1, <4>2
    <3>13. ASSUME NEW x \in Places(m), NEW y \in Places(m) PROVE x = y
      <4>1. CASE S # {}
        BY <3>1, <3>7, <3>9, <4>1
      <4>2. CASE F # {}
        BY <3>1, <3>7, <3>9, <4>2
      <4>3. CASE H # {}
        BY <3>1, <3>7, <3>9, <4>3
      <4>4. CASE S = {} /\ F = {} /\ H = {}
        BY <3>3, <3>7, <3>9, <4>4
      <4> QED
        BY <4>1, <4>2, <4>3, <4>4
    <3> QED
      BY <3>12, <3>13
  <2>7. ASSUME NEW m \in 1 .. sent, NEW r \in Run \ forced, cons[r] = "over" PROVE InRun(m, r) = {}
    <3>1. pend[r] = <<>> /\ buf[r] = <<>>
      BY <2>7 DEF IInv, HeardOut, ToolsOnly
    <3>2. At(m, <<>>) = {} /\ At(<<"user", m>>, <<>>) = {}
      BY DEF At
    <3> QED
      BY <3>1, <3>2, InRunPlaces
  <2> QED
    BY <2>6, <2>7 DEF DeliveredOnce
<1> QED
  BY <1>1, Invariance, PTL

(***************************************************************************)
(* The results of the calls of a message follow it directly, each once,    *)
(* and none is missing when the agent is idle, unless a run was given up   *)
(* by force.                                                               *)
(***************************************************************************)
THEOREM CallsPaired == Spec => []Paired
<1>1. IInv => Paired
  <2> SUFFICES ASSUME IInv PROVE Paired
    OBVIOUS
  <2> SUFFICES ASSUME forced = {}, NEW i \in DOMAIN history, history[i] = Call
               PROVE  PairedFrom(i)
    BY DEF Paired
  <2>0. /\ history \in Seq(Entry) /\ Coming \in Seq(Entry) /\ Tools \in Nat \ {0}
        /\ active \in Run \cup {0} /\ 0 \notin Run
        /\ cons \in [Run -> {"none", "loop", "ended", "over"}]
    BY StreamTyped, ToolAssumption DEF IInv, TypeOK, Run
  <2>1. /\ Len(history) \in Nat /\ DOMAIN history = 1 .. Len(history)
    BY <2>0, LenProperties
  <2>2. /\ Len(Stream) = Len(history) + Len(Coming) /\ Len(Coming) \in Nat
        /\ \A j \in 1 .. Len(history) : j \in 1 .. Len(Stream) /\ Stream[j] = history[j]
    BY <2>0, JoinStreams DEF Stream
  <2> DEFINE O == IF active = 0 THEN {} ELSE AtTools(active)
  <2>3. Closed(Stream, i) \/ \E S \in O : Open(Stream, i, S)
    <3>1. Answered(Stream, O)
      BY DEF IInv, CallsAnswered
    <3> HIDE DEF O
    <3> QED
      BY <2>1, <2>2, <3>1 DEF Answered
  <2>4. ~streaming => O = {} /\ Stream = history
    <3>1. ~streaming => active = 0 \/ cons[active] = "ended"
      BY <2>0 DEF IInv, RunsInOrder, OneActiveRun
    <3> QED
      BY <3>1, IdleFacts
  <2>5. \A k \in Tool : Result(k)[1] = "result"
    BY DEF Result
  <2>6. \A S \in O : S \subseteq Tool
    BY DEF AtTools, Ended
  <2> HIDE DEF O
  <2> DEFINE rest == {j \in DOMAIN history : i < j /\ j <= i + Tools}
  <2>7. /\ \A j \in rest : history[j][1] = "result"
        /\ \A j, k \in rest : history[j] = history[k] => j = k
    <3>1. CASE Closed(Stream, i)
      <4>1. \A j \in rest : j \in i + 1 .. i + Tools /\ history[j] = Stream[j]
        BY <2>0, <2>1, <2>2
      <4> QED
        BY <3>1, <4>1 DEF Closed
    <3>2. CASE \E S \in O : Open(Stream, i, S)
      <4>1. PICK S \in O : Open(Stream, i, S)
        BY <3>2
      <4>2. \A j \in rest : j \in i + 1 .. Len(Stream) /\ history[j] = Stream[j]
        BY <2>0, <2>1, <2>2
      <4> QED
        BY <2>5, <2>6, <4>1, <4>2 DEF Open
    <3> QED
      BY <2>3, <3>1, <3>2
  <2>8. ~streaming => i + Tools <= Len(history)
    BY <2>3, <2>4 DEF Closed
  <2> QED
    BY <2>7, <2>8 DEF PairedFrom
<1> QED
  BY <1>1, Invariance, PTL

=============================================================================
