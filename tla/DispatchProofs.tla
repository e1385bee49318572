--------------------------- MODULE DispatchProofs ---------------------------
(***************************************************************************)
(* Proofs about module Dispatch, for any number of servers, threads,       *)
(* clients and services and any size of the queue, with and without        *)
(* crashes and withdrawn services.                                         *)
(***************************************************************************)
EXTENDS Dispatch, FiniteSetTheorems, SequenceTheorems, WellFoundedInduction, TLAPS

\* What a .stop message names is a server, what a request names a client.
Sound(m) == /\ m \in Message
            /\ IF m.svc = ".stop" THEN m.who \in Servers ELSE m.who \in Clients

QueueShape == \A i \in 1..Len(queue) : Sound(queue[i])
HandShape == \A t \in Threads :
  /\ pc[t] \in InHand => Sound(req[t])
  /\ pc[t] = "putback" => req[t].svc = ".stop"
  /\ pc[t] = "serve" => req[t].svc # ".stop"

TypeShape == TypeOK /\ QueueShape /\ HandShape

-----------------------------------------------------------------------------
(* The queue *)

LEMMA SmallestExists ==
  ASSUME NEW S \in SUBSET Nat, S # {}
  PROVE  \E c \in S : \A d \in S : c <= d
  <1> DEFINE R == OpToRel(<, Nat)
  <1>1. PICK c \in S : \A d \in S : ~ (<<d, c>> \in R)
    <2>1. IsWellFoundedOn(R, Nat)
      BY NatLessThanWellFounded
    <2>2. S \subseteq Nat /\ S # {}
      OBVIOUS
    <2> HIDE DEF R
    <2>3. QED
      BY <2>1, <2>2, WFMin
  <1>2. \A d \in S : ~ (d < c)
    BY <1>1 DEF OpToRel
  <1>3. QED
    BY <1>2

\* msgrcv finds a message when one is admitted.
LEMMA BestAdmitted ==
  ASSUME TypeOK, NEW n \in 0..MaxType, Admitted(n) # {}
  PROVE  Best(n) \in Admitted(n)
  <1> DEFINE A == Admitted(n)
             Fits(i) == \A j \in A : IF n = 0 THEN i <= j
                          ELSE \/ queue[i].mtype < queue[j].mtype
                               \/ queue[i].mtype = queue[j].mtype /\ i <= j
  <1>1. A \subseteq Nat /\ A # {} /\ \A i \in A : queue[i].mtype \in Nat
    <2>1. \A i \in 1..Len(queue) : queue[i] \in Message
      BY DEF TypeOK
    <2> QED
      BY SMTT(40), <2>1, DispatchAssumption DEF TypeOK, Admitted, Message
  <1>2. \E i \in A : Fits(i)
    <2> HIDE DEF A
    <2>1. CASE n = 0
      BY <1>1, <2>1, SmallestExists
    <2>2. CASE n # 0
      <3> DEFINE T == {queue[i].mtype : i \in A}
      <3>1. T \subseteq Nat /\ T # {}
        BY <1>1
      <3>2. PICK m \in T : \A k \in T : m <= k
        <4> HIDE DEF T
        <4> QED
          BY <3>1, SmallestExists
      <3> DEFINE I == {i \in A : queue[i].mtype = m}
      <3>3. I \subseteq Nat /\ I # {}
        BY <1>1, <3>2
      <3>4. PICK i \in I : \A j \in I : i <= j
        <4> HIDE DEF I
        <4> QED
          BY <3>3, SmallestExists
      <3>5. m \in Nat
        BY <3>1, <3>2
      <3>6. \A j \in A : m < queue[j].mtype \/ (m = queue[j].mtype /\ i <= j)
        BY <1>1, <3>2, <3>4, <3>5
      <3> QED
        BY <2>2, <3>4, <3>6
    <2> QED
      BY <2>1, <2>2
  <1>3. Best(n) = CHOOSE i \in A : Fits(i)
    BY DEF Best
  <1> HIDE DEF A, Fits
  <1>4. Best(n) \in A
    BY <1>2, <1>3
  <1> QED
    BY <1>4 DEF A

LEMMA Appended ==
  ASSUME TypeOK, NEW m \in Message, qsend(m)
  PROVE  /\ queue' \in Seq(Message) /\ Len(queue') <= QueueCap
         /\ Len(queue') = Len(queue) + 1
         /\ queue'[Len(queue) + 1] = m
         /\ \A i \in 1..Len(queue) : queue'[i] = queue[i]
  BY DispatchAssumption DEF TypeOK, qsend

LEMMA Removed ==
  ASSUME TypeOK, NEW i \in 1..Len(queue), queue' = RemoveAt(queue, i)
  PROVE  /\ queue' \in Seq(Message)
         /\ Len(queue') = Len(queue) - 1
         /\ \A j \in 1..Len(queue') :
              queue'[j] = queue[IF j < i THEN j ELSE j + 1]
  <1> DEFINE a == SubSeq(queue, 1, i - 1)
             b == SubSeq(queue, i + 1, Len(queue))
  <1>0. queue \in Seq(Message) /\ Len(queue) \in Nat /\ i \in Nat
    BY DEF TypeOK
  <1>1. /\ a \in Seq(Message) /\ Len(a) = i - 1
        /\ \A j \in 1..(i - 1) : a[j] = queue[j]
    BY <1>0, SubSeqProperties
  <1>2. /\ b \in Seq(Message) /\ Len(b) = Len(queue) - i
        /\ \A j \in 1..(Len(queue) - i) : b[j] = queue[i + j]
    <2>1. CASE i = Len(queue)
      BY <1>0, <2>1, SubSeqProperties
    <2>2. CASE i < Len(queue)
      BY <1>0, <2>2, SubSeqProperties
    <2> QED
      BY <1>0, <2>1, <2>2
  <1>3. queue' = a \o b
    BY DEF RemoveAt
  <1> HIDE DEF a, b
  <1>4. /\ queue' \in Seq(Message)
        /\ Len(queue') = Len(a) + Len(b)
        /\ \A j \in 1..Len(queue') :
             queue'[j] = IF j <= Len(a) THEN a[j] ELSE b[j - Len(a)]
    <2>1. a \in Seq(Message) /\ b \in Seq(Message)
      BY <1>1, <1>2
    <2> QED
      BY <2>1, <1>3, ConcatProperties
  <1>5. Len(a) = i - 1 /\ Len(b) = Len(queue) - i
    BY <1>1, <1>2
  <1>6. Len(queue') = Len(queue) - 1
    BY <1>0, <1>4, <1>5
  <1>7. ASSUME NEW j \in 1..Len(queue')
        PROVE  queue'[j] = queue[IF j < i THEN j ELSE j + 1]
    <2>1. CASE j < i
      BY <1>0, <1>1, <1>4, <1>5, <1>6, <2>1
    <2>2. CASE ~(j < i)
      <3>1. queue'[j] = b[j - (i - 1)] /\ j - (i - 1) \in 1..(Len(queue) - i)
        BY <1>0, <1>4, <1>5, <1>6, <2>2
      <3>2. b[j - (i - 1)] = queue[i + (j - (i - 1))]
        BY <1>2, <3>1
      <3>3. i + (j - (i - 1)) = j + 1
        BY <1>0
      <3> QED
        BY <2>2, <3>1, <3>2, <3>3
    <2> QED
      BY <2>1, <2>2
  <1> QED
    BY <1>4, <1>6, <1>7
-----------------------------------------------------------------------------
(* Types *)

LEMMA InitTypeShape == Init => TypeShape
  <1> SUFFICES ASSUME Init PROVE TypeShape
    OBVIOUS
  <1>1. TypeOK
    BY DispatchAssumption DEF Init, TypeOK
  <1>2. QueueShape /\ HandShape
    BY DEF Init, QueueShape, HandShape, InHand
  <1> QED
    BY <1>1, <1>2 DEF TypeShape

\* A message at the end of the queue keeps its shape.
LEMMA SendShape ==
  ASSUME TypeShape, NEW m, Sound(m), qsend(m)
  PROVE  queue' \in Seq(Message) /\ Len(queue') <= QueueCap /\ QueueShape'
  <1>1. m \in Message
    BY DEF Sound
  <1>2. /\ queue' \in Seq(Message) /\ Len(queue') <= QueueCap
        /\ Len(queue') = Len(queue) + 1
        /\ queue'[Len(queue) + 1] = m
        /\ \A i \in 1..Len(queue) : queue'[i] = queue[i]
    BY <1>1, Appended DEF TypeShape
  <1>3. Len(queue) \in Nat
    BY DEF TypeShape, TypeOK
  <1>4. ASSUME NEW i \in 1..Len(queue') PROVE Sound(queue'[i])
    <2>1. CASE i \in 1..Len(queue)
      BY <1>2, <2>1 DEF TypeShape, QueueShape
    <2>2. CASE i = Len(queue) + 1
      BY <1>2, <2>2
    <2> QED
      BY <1>2, <1>3, <2>1, <2>2
  <1>5. QueueShape'
    BY <1>4 DEF QueueShape, Sound
  <1> QED
    BY <1>2, <1>5

\* A process that ends leaves the others as they were.
LEMMA GoneShape ==
  ASSUME TypeShape, NEW v \in Servers, NEW as \in {"inactive", "dead"}, Gone(v, as)
  PROVE  /\ state' \in [Servers -> {"active", "inactive", "dead"}]
         /\ mutex' \in [Servers -> Threads \cup {none}]
         /\ pc' \in [Threads -> {"top", "lock", "recv", "done"} \cup InHand]
         /\ req' \in [Threads -> Message \cup {NoMsg}]
         /\ HandShape'
         /\ \A t \in Threads :
              IF SrvOf[t] = v THEN pc'[t] = "done"
              ELSE pc'[t] = pc[t] /\ req'[t] = req[t]
  <1>1. /\ state' \in [Servers -> {"active", "inactive", "dead"}]
        /\ mutex' \in [Servers -> Threads \cup {none}]
        /\ pc' \in [Threads -> {"top", "lock", "recv", "done"} \cup InHand]
        /\ req' \in [Threads -> Message \cup {NoMsg}]
    BY DEF TypeShape, TypeOK, Gone
  <1>2. \A t \in Threads :
          IF SrvOf[t] = v THEN pc'[t] = "done"
          ELSE pc'[t] = pc[t] /\ req'[t] = req[t]
    BY DEF Gone
  <1>3. HandShape'
    BY <1>2 DEF TypeShape, HandShape, InHand, Sound
  <1> QED
    BY <1>1, <1>2, <1>3

-----------------------------------------------------------------------------
(* One place for every request *)

InQ(c, i) == i \in 1..Len(queue) /\ queue[i].who = c /\ queue[i].cd # 0
InT(c, t) == t \in Threads /\ pc[t] \in InHand /\ req[t].who = c /\ req[t].cd # 0

\* The request of c is in at most one place, and in one exactly when c waits
\* for an answer that can still come.
Unique(c) ==
  /\ \A i, j \in 1..Len(queue) : InQ(c, i) /\ InQ(c, j) => i = j
  /\ \A t, u \in Threads : InT(c, t) /\ InT(c, u) => t = u
  /\ \A i \in 1..Len(queue), t \in Threads : ~(InQ(c, i) /\ InT(c, t))
  /\ c \in waiting \ lost <=> \/ \E i \in 1..Len(queue) : InQ(c, i)
                              \/ \E t \in Threads : InT(c, t)

AnswerInv == TypeShape /\ \A c \in Clients : Unique(c)

LEMMA InitAnswerInv == Init => AnswerInv
  <1> SUFFICES ASSUME Init PROVE AnswerInv
    OBVIOUS
  <1>1. \A c \in Clients : Unique(c)
    BY DEF Init, Unique, InQ, InT, InHand
  <1> QED
    BY <1>1, InitTypeShape DEF AnswerInv

\* The part of a step that takes no message from or to the queue or a thread.
LEMMA KeptUnique ==
  ASSUME NEW c, Unique(c), queue' = queue,
         \A t \in Threads : InT(c, t)' <=> InT(c, t),
         c \in waiting' \ lost' <=> c \in waiting \ lost
  PROVE  Unique(c)'
  BY DEF Unique, InQ

\* A message that is not a request of c is added to the queue.
LEMMA OtherSent ==
  ASSUME TypeOK, NEW m \in Message, qsend(m), NEW c, Unique(c),
         m.who # c \/ m.cd = 0,
         \A t \in Threads : InT(c, t)' <=> InT(c, t),
         c \in waiting' \ lost' <=> c \in waiting \ lost
  PROVE  Unique(c)'
  <1>1. /\ Len(queue') = Len(queue) + 1 /\ Len(queue) \in Nat
        /\ queue'[Len(queue) + 1] = m
        /\ \A i \in 1..Len(queue) : queue'[i] = queue[i]
    BY Appended DEF TypeOK
  <1>2. \A i \in 1..Len(queue') : i \in 1..Len(queue) \/ i = Len(queue) + 1
    BY <1>1
  <1>3. 1..Len(queue) \subseteq 1..Len(queue')
    BY <1>1
  <1>4. \A i \in 1..Len(queue') : InQ(c, i)' <=> InQ(c, i)
    BY <1>1, <1>2, <1>3 DEF InQ
  <1> QED
    BY <1>2, <1>3, <1>4 DEF Unique, InQ

\* The request of c goes from nowhere, or from the hands of a thread, to the
\* queue.
LEMMA MineSent ==
  ASSUME TypeOK, NEW m \in Message, qsend(m), NEW c,
         m.who = c, m.cd # 0,
         \A i \in 1..Len(queue) : ~InQ(c, i),
         \A t \in Threads : ~InT(c, t)',
         c \in waiting' \ lost'
  PROVE  Unique(c)'
  <1>1. /\ Len(queue') = Len(queue) + 1 /\ Len(queue) \in Nat
        /\ queue'[Len(queue) + 1] = m
        /\ \A i \in 1..Len(queue) : queue'[i] = queue[i]
    BY Appended DEF TypeOK
  <1>2. \A i \in 1..Len(queue') : i \in 1..Len(queue) \/ i = Len(queue) + 1
    BY <1>1
  <1>3. Len(queue) + 1 \in 1..Len(queue') /\ 1..Len(queue) \subseteq 1..Len(queue')
    BY <1>1
  <1>4. \A i \in 1..Len(queue') : InQ(c, i)' <=> i = Len(queue) + 1
    BY <1>1, <1>2, <1>3 DEF InQ
  <1> QED
    BY <1>3, <1>4 DEF Unique

LEMMA CallInv ==
  ASSUME AnswerInv, NEW c \in Clients, NEW s \in Services, NEW cd \in Cds,
         call(c, s, cd)
  PROVE  AnswerInv'
  <1> DEFINE m == [svc |-> s, who |-> c, mtype |-> 1, cd |-> cd]
  <1>0. TypeShape /\ TypeOK
    BY DEF AnswerInv, TypeShape
  <1>1. /\ Sound(m) /\ m \in Message /\ m.who = c /\ m.cd = cd
        /\ qsend(m)
    BY DispatchAssumption DEF Sound, Message, call
  <1> HIDE DEF m
  <1>2. queue' \in Seq(Message) /\ Len(queue') <= QueueCap /\ QueueShape'
    BY <1>0, <1>1, SendShape
  <1>3. TypeOK'
    BY <1>0, <1>2 DEF TypeOK, call, server, thread
  <1>4. HandShape'
    BY <1>0 DEF TypeShape, HandShape, Sound, call, thread
  <1>5. \A d : \A t \in Threads : InT(d, t)' <=> InT(d, t)
    BY DEF InT, call, thread
  <1>6. ASSUME NEW d \in Clients PROVE Unique(d)'
    <2>0. Unique(d) /\ lost \subseteq waiting
      BY <1>0 DEF AnswerInv, TypeOK
    <2>1. CASE d # c \/ cd = 0
      <3>1. d \in waiting' \ lost' <=> d \in waiting \ lost
        BY <2>1 DEF call
      <3> QED
        BY <1>0, <1>1, <1>5, <2>0, <2>1, <3>1, OtherSent
    <2>2. CASE d = c /\ cd # 0
      <3>1. c \notin waiting /\ c \in waiting' \ lost'
        BY <2>0, <2>2 DEF call
      <3>2. /\ \A i \in 1..Len(queue) : ~InQ(c, i)
            /\ \A t \in Threads : ~InT(c, t)
        BY <2>0, <2>2, <3>1 DEF Unique
      <3> QED
        BY <1>0, <1>1, <1>5, <2>2, <3>1, <3>2, MineSent
    <2> QED
      BY <2>1, <2>2
  <1> QED
    BY <1>2, <1>3, <1>4, <1>6 DEF AnswerInv, TypeShape

\* A server that dies loses exactly the requests its threads hold.
LEMMA CrashInv ==
  ASSUME AnswerInv, NEW v \in Servers, Crash(v), UNCHANGED <<queue, waiting, shut>>
  PROVE  AnswerInv'
  <1>0. TypeShape /\ TypeOK /\ Gone(v, "dead")
    BY DEF AnswerInv, TypeShape, Crash
  <1>1. /\ state' \in [Servers -> {"active", "inactive", "dead"}]
        /\ mutex' \in [Servers -> Threads \cup {none}]
        /\ pc' \in [Threads -> {"top", "lock", "recv", "done"} \cup InHand]
        /\ req' \in [Threads -> Message \cup {NoMsg}]
        /\ HandShape'
        /\ \A t \in Threads :
             IF SrvOf[t] = v THEN pc'[t] = "done"
             ELSE pc'[t] = pc[t] /\ req'[t] = req[t]
    BY <1>0, GoneShape
  <1>2. \A c : c \in Holding(v) <=>
          \E t \in Threads : /\ SrvOf[t] = v /\ pc[t] \in InHand /\ req[t].who = c
                             /\ req[t].svc # ".stop" /\ req[t].cd # 0
    BY DEF Holding, ThreadsOf
  <1>3. \A c \in Clients : \A t \in Threads : InT(c, t) => req[t].svc # ".stop"
    BY <1>0, DispatchAssumption DEF TypeShape, HandShape, Sound, InT
  <1>4. \A c \in Clients : c \in Holding(v) <=>
          \E t \in Threads : SrvOf[t] = v /\ InT(c, t)
    BY <1>2, <1>3 DEF InT
  <1>5. Holding(v) \subseteq Clients
    BY <1>0, <1>2 DEF TypeShape, HandShape, Sound
  <1>6. Holding(v) \subseteq waiting
    BY <1>4, <1>5 DEF AnswerInv, Unique
  <1>7. lost' \subseteq waiting' /\ lost' = lost \cup Holding(v)
    BY <1>0, <1>6 DEF TypeOK, Crash
  <1>8. TypeOK'
    BY <1>0, <1>1, <1>7 DEF TypeOK, Gone
  <1>9. QueueShape'
    BY <1>0 DEF TypeShape, QueueShape, Sound
  <1>10. \A c : \A t \in Threads : InT(c, t)' <=> InT(c, t) /\ SrvOf[t] # v
    BY <1>1 DEF InT, InHand
  <1>11. ASSUME NEW c \in Clients PROVE Unique(c)'
    <2>1. Unique(c)
      BY DEF AnswerInv
    <2>2. CASE c \notin Holding(v)
      BY <1>4, <1>7, <1>10, <2>1, <2>2, KeptUnique
    <2>3. CASE c \in Holding(v)
      <3>1. PICK t \in Threads : SrvOf[t] = v /\ InT(c, t)
        BY <1>4, <2>3
      <3>2. \A i \in 1..Len(queue) : ~InQ(c, i)
        BY <2>1, <3>1 DEF Unique
      <3>3. \A u \in Threads : ~InT(c, u)'
        BY <1>10, <2>1, <3>1 DEF Unique
      <3>4. c \notin waiting' \ lost'
        BY <1>7, <2>3
      <3> QED
        BY <3>2, <3>3, <3>4 DEF Unique, InQ
    <2> QED
      BY <2>2, <2>3
  <1> QED
    BY <1>1, <1>8, <1>9, <1>11 DEF AnswerInv, TypeShape

\* A message goes from the queue to the thread that reads it.
LEMMA QrecvInv ==
  ASSUME AnswerInv, NEW t \in Threads, qrecv(t)
  PROVE  AnswerInv'
  <1> DEFINE v == SrvOf[t]
             i == Best(typ[t])
             m == queue[i]
             old(j) == IF j < i THEN j ELSE j + 1
             new(k) == IF k < i THEN k ELSE k - 1
  <1>0. TypeShape /\ TypeOK /\ v \in Servers /\ Len(queue) \in Nat
    BY SMTT(40), DispatchAssumption DEF AnswerInv, TypeShape, TypeOK
  <1>1. i \in Admitted(typ[t])
    BY <1>0, BestAdmitted DEF TypeOK, qrecv
  <1>2. i \in 1..Len(queue)
    BY <1>1 DEF Admitted
  <1>3. Sound(m) /\ m \in Message /\ m.mtype \in 1..MaxType
    BY <1>0, <1>2 DEF TypeShape, QueueShape, Sound, Message
  <1>4. queue' = RemoveAt(queue, i) /\ req' = [req EXCEPT ![t] = m] /\ pc[t] = "recv"
    BY DEF qrecv
  <1>5. /\ \/ m.svc # ".stop" /\ pc' = [pc EXCEPT ![t] = "dispatch"]
           \/ m.svc = ".stop" /\ pc' = [pc EXCEPT ![t] = "top"]
           \/ m.svc = ".stop" /\ pc' = [pc EXCEPT ![t] = "putback"]
        /\ limit' = limit \/ limit' = [limit EXCEPT ![v] = m.mtype - 1]
        /\ counter' = counter \/ counter' = [counter EXCEPT ![v] = 0]
        /\ stop' = stop \/ stop' = [stop EXCEPT ![v] = @ \/ m.who = v]
        /\ mutex' = mutex \/ mutex' = [mutex EXCEPT ![v] = none]
        /\ UNCHANGED <<state, ads, typ, waiting, lost, shut>>
    BY DEF qrecv, handle, Goto, outside
  <1> HIDE DEF v, i, m
  <1>6. /\ queue' \in Seq(Message) /\ Len(queue') = Len(queue) - 1
        /\ \A j \in 1..Len(queue') : queue'[j] = queue[old(j)]
    BY <1>0, <1>2, <1>4, Removed
  <1>7. /\ \A j \in 1..Len(queue') : old(j) \in 1..Len(queue) /\ old(j) # i
                                      /\ new(old(j)) = j
        /\ \A k \in 1..Len(queue) : k # i => new(k) \in 1..Len(queue')
                                              /\ old(new(k)) = k
    BY <1>0, <1>2, <1>6
  <1> HIDE DEF old, new
  <1>8. TypeOK'
    <2>1. m.mtype - 1 \in 0..MaxType /\ 0 \in 0..(Period - 1)
      BY <1>3, DispatchAssumption
    <2>2. limit' \in [Servers -> 0..MaxType] /\ counter' \in [Servers -> 0..(Period - 1)]
      BY <1>0, <1>5, <2>1 DEF TypeOK
    <2>3. stop' \in [Servers -> BOOLEAN]
      <3>1. \A w \in Servers : (stop[v] \/ m.who = v) \in BOOLEAN
        BY <1>0
      <3> QED
        BY <1>0, <1>5, <3>1 DEF TypeOK
    <2>4. mutex' \in [Servers -> Threads \cup {none}]
      BY <1>0, <1>5 DEF TypeOK
    <2>5. pc' \in [Threads -> {"top", "lock", "recv", "done"} \cup InHand]
      BY <1>0, <1>5 DEF TypeOK, InHand
    <2>6. req' \in [Threads -> Message \cup {NoMsg}]
      BY <1>0, <1>3, <1>4 DEF TypeOK
    <2>7. Len(queue') <= QueueCap
      BY <1>0, <1>6, DispatchAssumption DEF TypeOK
    <2> QED
      BY <1>0, <1>5, <1>6, <2>2, <2>3, <2>4, <2>5, <2>6, <2>7 DEF TypeOK
  <1>9. QueueShape'
    BY <1>0, <1>6, <1>7 DEF TypeShape, QueueShape, Sound
  <1>10. /\ \A u \in Threads : u # t => pc'[u] = pc[u] /\ req'[u] = req[u]
         /\ req'[t] = m
         /\ pc'[t] \in {"dispatch", "top", "putback"}
         /\ m.svc = ".stop" <=> pc'[t] # "dispatch"
    BY <1>0, <1>4, <1>5 DEF TypeOK
  <1>11. HandShape'
    BY <1>0, <1>3, <1>10 DEF TypeShape, HandShape, Sound, InHand
  <1>12. ASSUME NEW c \in Clients PROVE Unique(c)'
    <2>1. Unique(c) /\ ~InT(c, t)
      BY <1>4 DEF AnswerInv, InT, InHand
    <2>2. \A j \in 1..Len(queue') : InQ(c, j)' <=> InQ(c, old(j))
      BY <1>6, <1>7 DEF InQ
    <2>3. \A k \in 1..Len(queue) : k # i /\ InQ(c, k) =>
            \E j \in 1..Len(queue') : InQ(c, j)'
      BY <1>7, <2>2
    <2>4. \A u \in Threads : u # t => (InT(c, u)' <=> InT(c, u))
      BY <1>10 DEF InT
    <2>5. waiting' \ lost' = waiting \ lost
      BY <1>5
    <2>6. InT(c, t)' <=> InQ(c, i)
      <3>1. m.svc = ".stop" => m.who # c
        BY <1>3, DispatchAssumption DEF Sound
      <3> QED
        BY <1>2, <1>10, <3>1 DEF InT, InQ, InHand, m
    <2>7. \A j, k \in 1..Len(queue') : InQ(c, j)' /\ InQ(c, k)' => j = k
      BY <1>7, <2>1, <2>2 DEF Unique
    <2>8. \A u, w \in Threads : InT(c, u)' /\ InT(c, w)' => u = w
      BY <1>2, <2>1, <2>4, <2>6 DEF Unique
    <2>9. \A j \in 1..Len(queue'), u \in Threads : ~(InQ(c, j)' /\ InT(c, u)')
      BY <1>2, <1>7, <2>1, <2>2, <2>4, <2>6 DEF Unique
    <2>10. (\E j \in 1..Len(queue') : InQ(c, j)') \/ (\E u \in Threads : InT(c, u)')
             <=> (\E j \in 1..Len(queue) : InQ(c, j)) \/ (\E u \in Threads : InT(c, u))
      BY <1>2, <1>7, <2>1, <2>2, <2>3, <2>4, <2>6
    <2> QED
      BY <2>1, <2>5, <2>7, <2>8, <2>9, <2>10 DEF Unique
  <1> QED
    BY <1>8, <1>9, <1>11, <1>12 DEF AnswerInv, TypeShape

LEMMA PutBackInv ==
  ASSUME AnswerInv, NEW t \in Threads, put_back(t)
  PROVE  AnswerInv'
  <1>0. TypeShape /\ TypeOK /\ SrvOf[t] \in Servers
    BY DispatchAssumption DEF AnswerInv, TypeShape
  <1>1. /\ Sound(req[t]) /\ req[t] \in Message /\ qsend(req[t])
        /\ req[t].svc = ".stop" /\ req[t].who \in Servers
    BY <1>0 DEF TypeShape, HandShape, InHand, Sound, put_back
  <1>2. queue' \in Seq(Message) /\ Len(queue') <= QueueCap /\ QueueShape'
    BY <1>0, <1>1, SendShape
  <1>3. /\ pc' = [pc EXCEPT ![t] = "dispatch"] /\ req' = req /\ pc[t] = "putback"
        /\ UNCHANGED <<state, stop, counter, limit, ads, typ, waiting, lost, shut>>
        /\ mutex' = [mutex EXCEPT ![SrvOf[t]] = none]
    BY DEF put_back, Goto, outside
  <1>4. TypeOK'
    BY <1>0, <1>2, <1>3 DEF TypeOK, InHand
  <1>5. HandShape'
    BY <1>0, <1>1, <1>3 DEF TypeShape, TypeOK, HandShape, Sound, InHand
  <1>6. ASSUME NEW c \in Clients PROVE Unique(c)'
    <2>1. \A u \in Threads : InT(c, u)' <=> InT(c, u)
      BY <1>0, <1>3 DEF TypeOK, InT, InHand
    <2>2. req[t].who # c
      BY <1>1, DispatchAssumption
    <2>3. Unique(c) /\ waiting' \ lost' = waiting \ lost
      BY <1>3 DEF AnswerInv
    <2> QED
      BY <1>0, <1>1, <2>1, <2>2, <2>3, OtherSent
  <1> QED
    BY <1>2, <1>4, <1>5, <1>6 DEF AnswerInv, TypeShape

\* Steps of a thread that neither take nor give a message.
LEMMA ThreadMoves ==
  ASSUME AnswerInv, NEW t \in Threads,
         NEW l \in {"top", "lock", "recv", "done", "serve"},
         pc' = [pc EXCEPT ![t] = l],
         l = "serve" => pc[t] = "dispatch" /\ req[t].svc # ".stop",
         l # "serve" => pc[t] \notin InHand,
         UNCHANGED <<queue, req, waiting, lost>>
  PROVE  /\ pc' \in [Threads -> {"top", "lock", "recv", "done"} \cup InHand]
         /\ QueueShape' /\ HandShape' /\ \A c \in Clients : Unique(c)'
  <1>0. TypeShape /\ TypeOK
    BY DEF AnswerInv, TypeShape
  <1>1. pc' \in [Threads -> {"top", "lock", "recv", "done"} \cup InHand]
    BY <1>0 DEF TypeOK, InHand
  <1>2. QueueShape'
    BY <1>0 DEF TypeShape, QueueShape, Sound
  <1>3. HandShape'
    BY <1>0 DEF TypeShape, TypeOK, HandShape, Sound, InHand
  <1>4. ASSUME NEW c \in Clients PROVE Unique(c)'
    <2>1. \A u \in Threads : InT(c, u)' <=> InT(c, u)
      BY <1>0 DEF TypeOK, InT, InHand
    <2> QED
      BY <2>1, KeptUnique DEF AnswerInv
  <1> QED
    BY <1>1, <1>2, <1>3, <1>4

LEMMA DispatchInv ==
  ASSUME AnswerInv, NEW t \in Threads, dispatch(t)
  PROVE  AnswerInv'
  <1>0. TypeOK
    BY DEF AnswerInv, TypeShape
  <1>1. \E l \in {"lock", "done"} : pc' = [pc EXCEPT ![t] = l]
    BY DEF dispatch, Goto
  <1>2. /\ pc' \in [Threads -> {"top", "lock", "recv", "done"} \cup InHand]
        /\ QueueShape' /\ HandShape' /\ \A c \in Clients : Unique(c)'
    BY <1>1, ThreadMoves DEF dispatch, outside, InHand
  <1> QED
    BY <1>0, <1>2 DEF AnswerInv, TypeShape, TypeOK, dispatch, outside, server

LEMMA LockedInv ==
  ASSUME AnswerInv, NEW t \in Threads, locked(t)
  PROVE  AnswerInv'
  <1>0. TypeOK /\ SrvOf[t] \in Servers
    BY DispatchAssumption DEF AnswerInv, TypeShape
  <1>1. \E l \in {"recv", "done"} : pc' = [pc EXCEPT ![t] = l]
    BY DEF locked, Goto
  <1>2. /\ pc' \in [Threads -> {"top", "lock", "recv", "done"} \cup InHand]
        /\ QueueShape' /\ HandShape' /\ \A c \in Clients : Unique(c)'
    BY <1>1, ThreadMoves DEF locked, outside, InHand
  <1>3. (counter[SrvOf[t]] + 1) % Period \in 0..(Period - 1)
    BY SMTT(40), <1>0, DispatchAssumption DEF TypeOK
  <1>4. mtype(SrvOf[t], (counter[SrvOf[t]] + 1) % Period) \in 0..MaxType
    BY <1>0, DispatchAssumption DEF TypeOK, mtype
  <1>5. /\ mutex' \in [Servers -> Threads \cup {none}]
        /\ counter' \in [Servers -> 0..(Period - 1)]
        /\ typ' \in [Threads -> 0..MaxType]
    <2> DEFINE n == (counter[SrvOf[t]] + 1) % Period
    <2>1. \/ UNCHANGED <<mutex, counter, typ>>
          \/ /\ mutex' = [mutex EXCEPT ![SrvOf[t]] = t]
             /\ counter' = [counter EXCEPT ![SrvOf[t]] = n]
             /\ typ' = [typ EXCEPT ![t] = mtype(SrvOf[t], n)]
      BY DEF locked
    <2> HIDE DEF n
    <2>2. n \in 0..(Period - 1) /\ mtype(SrvOf[t], n) \in 0..MaxType
      BY <1>3, <1>4 DEF n
    <2> QED
      <3>1. CASE UNCHANGED <<mutex, counter, typ>>
        BY <1>0, <3>1 DEF TypeOK
      <3>2. CASE /\ mutex' = [mutex EXCEPT ![SrvOf[t]] = t]
                 /\ counter' = [counter EXCEPT ![SrvOf[t]] = n]
                 /\ typ' = [typ EXCEPT ![t] = mtype(SrvOf[t], n)]
        <4>1. mutex' \in [Servers -> Threads \cup {none}]
          BY <1>0, <3>2 DEF TypeOK
        <4>2. counter' \in [Servers -> 0..(Period - 1)]
          BY <1>0, <2>2, <3>2 DEF TypeOK
        <4>3. typ' \in [Threads -> 0..MaxType]
          BY <1>0, <2>2, <3>2 DEF TypeOK
        <4> QED
          BY <4>1, <4>2, <4>3
      <3> QED
        BY <2>1, <3>1, <3>2
  <1> QED
    BY <1>0, <1>2, <1>5 DEF AnswerInv, TypeShape, TypeOK, locked, outside

LEMMA InvokeInv ==
  ASSUME AnswerInv, NEW t \in Threads, invoke(t)
  PROVE  AnswerInv'
  <1>0. TypeOK /\ SrvOf[t] \in Servers
    BY DispatchAssumption DEF AnswerInv, TypeShape
  <1>1. CASE req[t].svc \in ads[SrvOf[t]] /\ UNCHANGED <<server, typ, req, lost>>
             /\ Goto(t, "serve")
    <2>1. req[t].svc # ".stop"
      BY <1>0, <1>1, DispatchAssumption DEF TypeOK
    <2>2. /\ pc' \in [Threads -> {"top", "lock", "recv", "done"} \cup InHand]
          /\ QueueShape' /\ HandShape' /\ \A c \in Clients : Unique(c)'
      BY <1>1, <2>1, ThreadMoves DEF invoke, Goto
    <2> QED
      BY <1>0, <1>1, <2>2 DEF AnswerInv, TypeShape, TypeOK, invoke, server
  <1>2. CASE Crash(SrvOf[t])
    BY <1>0, <1>2, CrashInv DEF invoke
  <1> QED
    BY <1>1, <1>2 DEF invoke

\* The answer ends the request.
LEMMA TpreturnInv ==
  ASSUME AnswerInv, NEW t \in Threads, tpreturn(t)
  PROVE  AnswerInv'
  <1>0. TypeShape /\ TypeOK /\ pc[t] = "serve" /\ pc[t] \in InHand
    BY DEF AnswerInv, TypeShape, tpreturn, InHand
  <1>1. Sound(req[t]) /\ req[t].who \in Clients
    BY <1>0 DEF TypeShape, HandShape, Sound
  <1>2. /\ pc' = [pc EXCEPT ![t] = "top"] /\ req' = [req EXCEPT ![t] = NoMsg]
        /\ waiting' = IF req[t].cd = 0 THEN waiting ELSE waiting \ {req[t].who}
        /\ UNCHANGED <<queue, state, stop, counter, limit, mutex, ads, typ, lost, shut>>
    BY DEF tpreturn, Goto, server
  <1>3. \A c \in Clients : \A u \in Threads : InT(c, u)' <=> InT(c, u) /\ u # t
    BY <1>0, <1>2 DEF TypeOK, InT, InHand
  <1>4. req[t].cd # 0 => InT(req[t].who, t)
    BY <1>0 DEF InT
  <1>5. req[t].cd # 0 => req[t].who \in waiting \ lost
    BY <1>1, <1>4 DEF AnswerInv, Unique
  <1>6. TypeOK'
    BY <1>0, <1>2, <1>5 DEF TypeOK
  <1>7. QueueShape' /\ HandShape'
    BY <1>0, <1>2 DEF TypeShape, TypeOK, QueueShape, HandShape, Sound, InHand
  <1>8. ASSUME NEW c \in Clients PROVE Unique(c)'
    <2>0. Unique(c)
      BY DEF AnswerInv
    <2>1. CASE req[t].cd # 0 /\ req[t].who = c
      <3>1. \A i \in 1..Len(queue) : ~InQ(c, i)
        BY <1>4, <2>0, <2>1 DEF Unique
      <3>2. \A u \in Threads : ~InT(c, u)'
        BY <1>3, <1>4, <2>0, <2>1 DEF Unique
      <3>3. c \notin waiting'
        BY <1>2, <2>1
      <3> QED
        BY <1>2, <3>1, <3>2, <3>3 DEF Unique, InQ
    <2>2. CASE ~(req[t].cd # 0 /\ req[t].who = c)
      <3>1. ~InT(c, t)
        BY <2>2 DEF InT
      <3>2. c \in waiting' \ lost' <=> c \in waiting \ lost
        BY <1>2, <2>2
      <3>3. \A u \in Threads : InT(c, u)' <=> InT(c, u)
        BY <1>3, <3>1
      <3> QED
        BY <1>2, <2>0, <3>2, <3>3, KeptUnique
    <2> QED
      BY <2>1, <2>2
  <1> QED
    BY <1>6, <1>7, <1>8 DEF AnswerInv, TypeShape

\* A forwarded request leaves the thread as it enters the queue.
LEMMA TpforwardInv ==
  ASSUME AnswerInv, NEW t \in Threads, NEW s \in Services, tpforward(t, s)
  PROVE  AnswerInv'
  <1> DEFINE m == [req[t] EXCEPT !.svc = s, !.mtype = req[t].cd]
  <1>0. TypeShape /\ TypeOK /\ pc[t] = "serve" /\ pc[t] \in InHand
    BY DEF AnswerInv, TypeShape, tpforward, InHand
  <1>1. /\ Sound(req[t]) /\ req[t] \in Message /\ req[t].who \in Clients
        /\ req[t].cd # 0
    BY <1>0 DEF TypeShape, HandShape, Sound, tpforward
  <1>2. m \in Message /\ Sound(m) /\ m.who = req[t].who /\ m.cd = req[t].cd /\ qsend(m)
    <2>1. req[t].cd \in 1..MaxType
      <3>1. req[t].cd \in Cds \cup {1}
        BY <1>1 DEF Message
      <3>2. Cds \subseteq 0..MaxType /\ MaxType \in Nat \ {0}
        BY DispatchAssumption
      <3>a. 1 \in 0..MaxType
        BY <3>2
      <3>3. req[t].cd \in 0..MaxType
        BY <3>1, <3>2, <3>a, Zenon
      <3>4. req[t].cd # 0
        BY <1>1
      <3> QED
        BY <3>2, <3>3, <3>4
    <2>2. m \in Message /\ m.svc = s /\ m.who = req[t].who /\ m.cd = req[t].cd
      BY <1>1, <2>1 DEF Message
    <2> QED
      BY <1>1, <2>2, DispatchAssumption DEF Sound, tpforward
  <1> HIDE DEF m
  <1>3. queue' \in Seq(Message) /\ Len(queue') <= QueueCap /\ QueueShape'
    BY <1>0, <1>2, SendShape
  <1>4. /\ pc' = [pc EXCEPT ![t] = "top"] /\ req' = [req EXCEPT ![t] = NoMsg]
        /\ UNCHANGED <<state, stop, counter, limit, mutex, ads, typ, waiting, lost, shut>>
    BY DEF tpforward, Goto, server, outside
  <1>5. \A c \in Clients : \A u \in Threads : InT(c, u)' <=> InT(c, u) /\ u # t
    BY <1>0, <1>4 DEF TypeOK, InT, InHand
  <1>6. InT(req[t].who, t)
    BY <1>0, <1>1 DEF InT
  <1>7. TypeOK'
    BY <1>0, <1>3, <1>4 DEF TypeOK
  <1>8. HandShape'
    BY <1>0, <1>4 DEF TypeShape, TypeOK, HandShape, Sound, InHand
  <1>9. ASSUME NEW c \in Clients PROVE Unique(c)'
    <2>0. Unique(c) /\ waiting' \ lost' = waiting \ lost
      BY <1>4 DEF AnswerInv
    <2>1. CASE req[t].who = c
      <3>1. \A i \in 1..Len(queue) : ~InQ(c, i)
        BY <1>6, <2>0, <2>1 DEF Unique
      <3>2. \A u \in Threads : ~InT(c, u)'
        BY <1>5, <1>6, <2>0, <2>1 DEF Unique
      <3>3. c \in waiting' \ lost'
        BY <1>6, <2>0, <2>1 DEF Unique
      <3> QED
        BY <1>0, <1>1, <1>2, <2>1, <3>1, <3>2, <3>3, MineSent
    <2>2. CASE req[t].who # c
      <3>1. \A u \in Threads : InT(c, u)' <=> InT(c, u)
        BY <1>5, <2>2 DEF InT
      <3> QED
        BY <1>0, <1>2, <2>0, <2>2, <3>1, OtherSent
    <2> QED
      BY <2>1, <2>2
  <1> QED
    BY <1>3, <1>7, <1>8, <1>9 DEF AnswerInv, TypeShape

LEMMA AdvertiseInv ==
  ASSUME AnswerInv, NEW t \in Threads, NEW s \in Services, advertise(t, s)
  PROVE  AnswerInv'
  <1>0. TypeShape /\ TypeOK /\ SrvOf[t] \in Servers
    BY DispatchAssumption DEF AnswerInv, TypeShape
  <1>1. /\ ads' \in [Servers -> SUBSET Services]
        /\ UNCHANGED <<queue, state, stop, counter, limit, mutex, pc, typ, req,
                       waiting, lost, shut>>
    BY <1>0 DEF TypeOK, advertise, thread, outside
  <1>2. TypeOK' /\ QueueShape' /\ HandShape'
    BY <1>0, <1>1 DEF TypeOK, TypeShape, QueueShape, HandShape, Sound
  <1>3. \A c \in Clients : Unique(c)'
    BY <1>1 DEF AnswerInv, Unique, InQ, InT
  <1> QED
    BY <1>2, <1>3 DEF AnswerInv, TypeShape

\* No thread of a server that ends in order holds a request.
LEMMA FinishInv ==
  ASSUME AnswerInv, NEW v \in Servers, finish(v)
  PROVE  AnswerInv'
  <1>0. TypeShape /\ TypeOK /\ Gone(v, "inactive")
    BY DEF AnswerInv, TypeShape, finish
  <1>1. /\ state' \in [Servers -> {"active", "inactive", "dead"}]
        /\ mutex' \in [Servers -> Threads \cup {none}]
        /\ pc' \in [Threads -> {"top", "lock", "recv", "done"} \cup InHand]
        /\ req' \in [Threads -> Message \cup {NoMsg}]
        /\ HandShape'
        /\ \A t \in Threads :
             IF SrvOf[t] = v THEN pc'[t] = "done"
             ELSE pc'[t] = pc[t] /\ req'[t] = req[t]
    BY <1>0, GoneShape
  <1>2. \A t \in Threads : SrvOf[t] = v => pc[t] = "done"
    BY DEF finish, ThreadsOf
  <1>3. \A c \in Clients : \A t \in Threads : InT(c, t)' <=> InT(c, t)
    BY <1>1, <1>2 DEF InT, InHand
  <1>4. UNCHANGED <<queue, waiting, lost>>
    BY DEF finish
  <1>5. \A c \in Clients : Unique(c)'
    BY <1>3, <1>4, KeptUnique DEF AnswerInv
  <1>6. shut' \in [todo : SUBSET Servers, wait : Servers \cup {none}]
    BY <1>0 DEF TypeOK, finish
  <1>7. TypeOK'
    BY <1>0, <1>1, <1>4, <1>6 DEF TypeOK, Gone
  <1>8. QueueShape'
    BY <1>0, <1>4 DEF TypeShape, QueueShape, Sound
  <1> QED
    BY <1>1, <1>5, <1>7, <1>8 DEF AnswerInv, TypeShape

LEMMA TmshutdownInv ==
  ASSUME AnswerInv, NEW v \in Servers, tmshutdown(v)
  PROVE  AnswerInv'
  <1> DEFINE m == [svc |-> ".stop", who |-> v, mtype |-> 1, cd |-> 1]
  <1>0. TypeShape /\ TypeOK
    BY DEF AnswerInv, TypeShape
  <1>1. m \in Message /\ Sound(m) /\ m.who = v /\ qsend(m)
    BY DispatchAssumption DEF Message, Sound, tmshutdown
  <1> HIDE DEF m
  <1>2. queue' \in Seq(Message) /\ Len(queue') <= QueueCap /\ QueueShape'
    BY <1>0, <1>1, SendShape
  <1>3. /\ UNCHANGED <<state, stop, counter, limit, mutex, ads, pc, typ, req,
                       waiting, lost>>
        /\ shut' = [todo |-> shut.todo \ {v}, wait |-> v]
    BY DEF tmshutdown, server, thread
  <1>4. TypeOK'
    BY <1>0, <1>2, <1>3 DEF TypeOK
  <1>5. HandShape'
    BY <1>0, <1>3 DEF TypeShape, HandShape, Sound
  <1>6. ASSUME NEW c \in Clients PROVE Unique(c)'
    <2>1. /\ Unique(c) /\ m.who # c /\ waiting' \ lost' = waiting \ lost
          /\ \A t \in Threads : InT(c, t)' <=> InT(c, t)
      BY <1>1, <1>3, DispatchAssumption DEF AnswerInv, InT
    <2> QED
      BY <1>0, <1>1, <2>1, OtherSent
  <1> QED
    BY <1>2, <1>4, <1>5, <1>6 DEF AnswerInv, TypeShape

LEMMA NextAnswerInv == AnswerInv /\ [Next]_vars => AnswerInv'
  <1> SUFFICES ASSUME AnswerInv, [Next]_vars PROVE AnswerInv'
    OBVIOUS
  <1>1. CASE \E c \in Clients, s \in Services, cd \in Cds : call(c, s, cd)
    BY <1>1, CallInv
  <1>2. ASSUME NEW t \in Threads, Thread(t)
        PROVE  AnswerInv'
    BY <1>2, DispatchInv, LockedInv, QrecvInv, PutBackInv, InvokeInv, TpreturnInv,
       TpforwardInv, AdvertiseInv DEF Thread
  <1>3. ASSUME NEW v \in Servers, killed(v)
        PROVE  AnswerInv'
    BY <1>3, CrashInv DEF killed
  <1>4. ASSUME NEW v \in Servers, finish(v) \/ tmshutdown(v)
        PROVE  AnswerInv'
    BY <1>4, FinishInv, TmshutdownInv
  <1>5. CASE tmshutdown_timeout \/ UNCHANGED vars
    <2>0. TypeShape /\ TypeOK
      BY DEF AnswerInv, TypeShape
    <2>1. /\ UNCHANGED <<queue, state, stop, counter, limit, mutex, ads, pc, typ,
                         req, waiting, lost>>
          /\ shut' = shut \/ shut' = [shut EXCEPT !.wait = none]
      BY <1>5 DEF tmshutdown_timeout, vars, server, thread
    <2>2. TypeOK' /\ QueueShape' /\ HandShape'
      BY <2>0, <2>1 DEF TypeOK, TypeShape, QueueShape, HandShape, Sound
    <2>3. \A c \in Clients : Unique(c)'
      BY <2>1 DEF AnswerInv, Unique, InQ, InT
    <2> QED
      BY <2>2, <2>3 DEF AnswerInv, TypeShape
  <1> QED
    BY <1>1, <1>2, <1>3, <1>4, <1>5 DEF Next

\* The inductive invariant: the types, what is queued and in the threads'
\* hands, and that an awaited request is in one of these places once.
THEOREM AnswerInvariant == Spec => []AnswerInv
  BY InitAnswerInv, NextAnswerInv, PTL DEF Spec

\* The variables of the dispatch loop keep their types; the queue never holds
\* more than its limit, and no client is lost that does not wait.
THEOREM TypeCorrect == Spec => []TypeOK
  <1>1. AnswerInv => TypeOK
    BY DEF AnswerInv, TypeShape
  <1> QED
    BY <1>1, AnswerInvariant, PTL

\* A request a client waits for is in exactly one place, the queue or one
\* thread, until it is answered or dies with a server, whatever the number of
\* servers on the queue and of their threads (qrecv, tpreturn and tpforward of
\* server.cpp).
THEOREM ExactlyOneAnswer == Spec => []OneAnswer
  <1>1. ASSUME AnswerInv PROVE OneAnswer
    <2> SUFFICES ASSUME NEW c \in Clients
                 PROVE  Cardinality(Places(c)) = IF c \in waiting \ lost THEN 1 ELSE 0
      BY DEF OneAnswer
    <2>0. Unique(c)
      BY <1>1 DEF AnswerInv
    <2>1. /\ \A i \in 1..Len(queue) : InQ(c, i) => <<"queue", i>> \in Places(c)
          /\ \A t \in Threads : InT(c, t) => <<"thread", t>> \in Places(c)
          /\ \A p \in Places(c) : \/ \E i \in 1..Len(queue) : InQ(c, i) /\ p = <<"queue", i>>
                                  \/ \E t \in Threads : InT(c, t) /\ p = <<"thread", t>>
      BY DEF Places, InQ, InT
    <2>2. CASE c \in waiting \ lost
      <3>1. PICK p : p \in Places(c)
        BY <2>0, <2>1, <2>2 DEF Unique
      <3>2. \A q \in Places(c) : q = p
        BY <2>0, <2>1, <3>1 DEF Unique
      <3>3. Places(c) = {p}
        BY <3>1, <3>2
      <3> QED
        BY <2>2, <3>3, FS_Singleton
    <2>3. CASE c \notin waiting \ lost
      <3>1. Places(c) = {}
        BY <2>0, <2>1, <2>3 DEF Unique
      <3> QED
        BY <2>3, <3>1, FS_EmptySet
    <2> QED
      BY <2>2, <2>3
  <1> QED
    BY <1>1, AnswerInvariant, PTL
=============================================================================
