---------------------------- MODULE CallsProofs ----------------------------
(***************************************************************************)
(* Proofs about module Calls, for every value of its constants: wrapping   *)
(* sequences, full queues and replies that travel in files included.       *)
(***************************************************************************)
EXTENDS Calls, WellFoundedInduction, TLAPS

\* A message that stands for a call: its number was issued and its descriptor
\* is one that was handed out.
Named(m) == m.id \in 1..issued /\ m.cd \in Cd /\ owner[m.cd] # 0

\* What the queues, the thread and the descriptor table hold.
RequestShape == \A r \in requests : Named(r)
QueueShape == \A k \in 1..Len(rpid) : Named(rpid[k]) \/ rpid[k] = Unblock
ResShape == IF pc = "received" THEN Named(res) \/ res = Unblock ELSE res = NoMsg
OwnerShape == \A c \in Cd : calls[c].status # "free" => owner[c] # 0
HeldShape == \A c \in Cd : calls[c].status = "buffered" =>
               Named(calls[c].msg) /\ calls[c].msg.cd = c
Shape == RequestShape /\ QueueShape /\ ResShape /\ OwnerShape /\ HeldShape

TypeShape == TypeOK /\ Shape

LEMMA InitTypeShape == Init => TypeShape
  BY CallsAssumption
  DEF Init, TypeShape, TypeOK, Shape, RequestShape, QueueShape, ResShape,
      OwnerShape, HeldShape, Cd, ANY, Id, Message, Category, Entry, Free, NoMsg

\* The constant messages and entries are well typed.
LEMMA EntryTypes ==
  /\ NoMsg \in Message /\ Unblock \in Message
  /\ Free \in Entry /\ None \in Entry
  /\ \A m \in Message : Buffered(m) \in Entry
  <1>1. NoMsg \in Message /\ Unblock \in Message
    BY CallsAssumption DEF NoMsg, Unblock, Message, Category
  <1>2. QED
    BY <1>1 DEF Free, None, Buffered, Entry

LEMMA NextseqInCd == TypeOK => nextseq \in Cd
  BY CallsAssumption DEF TypeOK, nextseq, Cd

\* The calls an erased entry takes with it are calls.
LEMMA LostWithType ==
  ASSUME TypeShape, NEW c \in Cd PROVE LostWith(c) \in SUBSET Id
  BY SMTT(40), CallsAssumption
  DEF TypeShape, TypeOK, Shape, HeldShape, LostWith, Named, Id, Cd, Entry, Message

\* Call numbers only grow and a descriptor never loses its owner.
LEMMA AllocateKeeps ==
  ASSUME TypeOK, allocate
  PROVE  /\ seq' \in 0..(SeqMax - 1)
         /\ issued' \in 0..MaxIssued
         /\ issued' = issued + 1
         /\ owner' \in [Cd -> 0..MaxIssued]
         /\ owner'[nextseq] = issued'
         /\ \A c \in Cd : owner[c] # 0 => owner'[c] # 0
  <1>1. nextseq \in Cd
    BY NextseqInCd
  <1>2. QED
    BY <1>1, CallsAssumption DEF TypeOK, allocate, Cd

\* The part of TypeShape that a step which only allocates and perhaps sends
\* has to re-establish.
LEMMA AllocateShape ==
  ASSUME TypeShape, allocate,
         \E e \in {Free, None} : calls' = [calls EXCEPT ![nextseq] = e],
         requests' = requests \/
           requests' = requests \cup {[cd |-> nextseq, id |-> issued + 1]},
         rpid' = rpid, res' = res, pc' # "received", pc # "received"
  PROVE  Shape' /\ calls' \in [Cd -> Entry]
                /\ requests' \in SUBSET [cd : Cd, id : Id]
  <1>1. nextseq \in Cd
    BY NextseqInCd DEF TypeShape
  <1>2. /\ issued' = issued + 1 /\ issued' \in 1..MaxIssued
        /\ owner'[nextseq] = issued'
        /\ \A c \in Cd : owner[c] # 0 => owner'[c] # 0
    <2>1. TypeOK
      BY DEF TypeShape
    <2>2. issued \in 0..MaxIssued
      BY <2>1 DEF TypeOK
    <2>3. QED
      BY <2>1, <2>2, AllocateKeeps
  <1>3. calls' \in [Cd -> Entry]
    BY <1>1, EntryTypes DEF TypeShape, TypeOK
  <1>4. requests' \in SUBSET [cd : Cd, id : Id]
    BY <1>1, <1>2 DEF TypeShape, TypeOK, Id
  <1>5. RequestShape'
    BY <1>1, <1>2 DEF TypeShape, TypeOK, Shape, RequestShape, Named
  <1>6. QueueShape'
    BY <1>2 DEF TypeShape, TypeOK, Shape, QueueShape, Named
  <1>7. ResShape'
    BY DEF TypeShape, Shape, ResShape
  <1>8. OwnerShape'
    BY <1>1, <1>2 DEF TypeShape, TypeOK, Shape, OwnerShape, Free, None
  <1>9. HeldShape'
    BY <1>1, <1>2 DEF TypeShape, TypeOK, Shape, HeldShape, Named, Free, None
  <1>10. QED
    BY <1>3, <1>4, <1>5, <1>6, <1>7, <1>8, <1>9 DEF Shape

\* Erasing an entry leaves the others as they were.
LEMMA FreeShape ==
  ASSUME TypeShape, NEW x, calls' = [calls EXCEPT ![x] = Free],
         UNCHANGED <<issued, owner>>
  PROVE  calls' \in [Cd -> Entry] /\ OwnerShape' /\ HeldShape'
  <1>1. calls' \in [Cd -> Entry]
    BY EntryTypes DEF TypeShape, TypeOK
  <1>2. \A c \in Cd : calls'[c] = calls[c] \/ calls'[c] = Free
    BY DEF TypeShape, TypeOK
  <1>3. Free.status = "free"
    BY DEF Free
  <1>4. OwnerShape'
    BY <1>2, <1>3 DEF TypeShape, Shape, OwnerShape
  <1>5. HeldShape'
    BY <1>2, <1>3 DEF TypeShape, Shape, HeldShape, Named
  <1>6. QED
    BY <1>1, <1>4, <1>5

\* Counting one more delivery keeps the counters natural numbers.
LEMMA DeliveredType ==
  ASSUME TypeOK, NEW i, delivered' = [delivered EXCEPT ![i] = @ + 1]
  PROVE  delivered' \in [Id -> Nat]
  <1>1. delivered' = [j \in Id |-> IF j = i THEN delivered[j] + 1 ELSE delivered[j]]
    BY DEF TypeOK
  <1>2. \A j \in Id : delivered[j] \in Nat /\ delivered[j] + 1 \in Nat
    BY DEF TypeOK
  <1>3. \A j \in Id : (IF j = i THEN delivered[j] + 1 ELSE delivered[j]) \in Nat
    BY <1>2, Zenon
  <1>4. QED
    BY <1>1, <1>3, Zenon

LEMMA NextTypeShape == TypeShape /\ [Next]_vars => TypeShape'
  <1> SUFFICES ASSUME TypeShape, [Next]_vars PROVE TypeShape'
    OBVIOUS
  <1> USE CallsAssumption
  <1>0. TypeOK /\ Shape /\ nextseq \in Cd /\ Cd \subseteq 0..(SeqMax - 1)
    BY NextseqInCd DEF TypeShape, Cd
  <1>l. \A c \in Cd : LostWith(c) \in SUBSET Id
    BY LostWithType
  <1>a. ASSUME allocate PROVE issued + 1 \in Id
    BY <1>0, <1>a DEF TypeOK, allocate, Id
  <1>1. CASE tpacall_sent
    <2>1. allocate /\ calls' = [calls EXCEPT ![nextseq] = None]
      BY <1>1 DEF tpacall_sent, tpacall
    <2>2. Shape' /\ calls' \in [Cd -> Entry]
                 /\ requests' \in SUBSET [cd : Cd, id : Id]
      BY <1>1, <2>1, AllocateShape DEF tpacall_sent, tpacall
    <2>3. QED
      BY <1>0, <1>1, <1>a, <1>l, <2>1, <2>2, AllocateKeeps
      DEF TypeShape, TypeOK, tpacall_sent, tpacall
  <1>2. CASE tpacall_full
    <2>1. allocate
      BY <1>2 DEF tpacall_full
    <2>2. Shape' /\ calls' \in [Cd -> Entry]
                 /\ requests' \in SUBSET [cd : Cd, id : Id]
      BY <1>2, <2>1, AllocateShape DEF tpacall_full
    <2>3. QED
      BY <1>0, <1>2, <1>a, <1>l, <2>1, <2>2, AllocateKeeps
      DEF TypeShape, TypeOK, tpacall_full
  <1>3. CASE tpacall_throws
    <2>1. allocate
      BY <1>3 DEF tpacall_throws
    <2>2. Shape' /\ calls' \in [Cd -> Entry]
                 /\ requests' \in SUBSET [cd : Cd, id : Id]
      BY <1>3, <2>1, AllocateShape DEF tpacall_throws
    <2>3. QED
      BY <1>0, <1>3, <1>a, <1>l, <2>1, <2>2, AllocateKeeps
      DEF TypeShape, TypeOK, tpacall_throws
  <1>4. CASE tpcall
    <2>1. allocate
      BY <1>4 DEF tpcall, tpacall
    <2>2. Shape' /\ calls' \in [Cd -> Entry]
                 /\ requests' \in SUBSET [cd : Cd, id : Id]
      BY <1>4, <2>1, AllocateShape DEF tpcall, tpacall, Wait
    <2>3. QED
      BY <1>0, <1>4, <1>a, <1>l, <2>1, <2>2, AllocateKeeps
      DEF TypeShape, TypeOK, tpcall, tpacall, Wait
  <1>5. ASSUME NEW w \in Cd \cup {ANY}, tpgetrply(w) PROVE TypeShape'
    <2>1. RequestShape' /\ QueueShape' /\ ResShape'
      BY <1>0, <1>5
      DEF Shape, RequestShape, QueueShape, ResShape, Named, tpgetrply, deliver,
          Wait
    <2>2. CASE UNCHANGED <<calls, delivered>> /\ Wait(w)
      BY <1>0, <1>5, <2>1, <2>2
      DEF TypeShape, TypeOK, Shape, OwnerShape, HeldShape, Named, tpgetrply, Wait
    <2>3. ASSUME NEW m, deliver(m), UNCHANGED <<want, rpid_timeout>>
          PROVE  TypeShape'
      <3>1. calls' \in [Cd -> Entry] /\ OwnerShape' /\ HeldShape'
        BY <1>5, <2>3, FreeShape DEF deliver, tpgetrply
      <3>2. delivered' \in [Id -> Nat]
        BY <1>0, <2>3, DeliveredType DEF deliver
      <3>3. QED
        BY <1>0, <1>5, <2>1, <2>3, <3>1, <3>2
        DEF TypeShape, TypeOK, Shape, tpgetrply, deliver
    <2>4. QED
      BY <1>5, <2>2, <2>3 DEF tpgetrply
  <1>6. CASE qrecv
    <2>1. /\ rpid # <<>> /\ Head(rpid) = rpid[1] /\ 1 \in 1..Len(rpid)
          /\ Len(Tail(rpid)) = Len(rpid) - 1
          /\ \A k \in 1..Len(Tail(rpid)) : Tail(rpid)[k] = rpid[k + 1]
          /\ Tail(rpid) \in Seq(Message)
          /\ Head(rpid) \in Message
      BY <1>0, <1>6 DEF TypeOK, qrecv
    <2>2. QueueShape'
      BY <1>0, <1>6, <2>1 DEF TypeOK, Shape, QueueShape, Named, qrecv, history
    <2>3. ResShape'
      BY <1>0, <1>6, <2>1 DEF TypeOK, Shape, QueueShape, ResShape, Named, qrecv, history
    <2>4. QED
      BY <1>0, <1>6, <2>1, <2>2, <2>3
      DEF TypeShape, TypeOK, Shape, RequestShape, OwnerShape, HeldShape, Named,
          qrecv, history
  <1>7. CASE qrecv_throws
    BY <1>0, <1>7
    DEF TypeShape, TypeOK, Shape, RequestShape, QueueShape, ResShape, OwnerShape,
        HeldShape, Named, qrecv_throws, history
  <1>8. CASE received
    <2>1. RequestShape' /\ QueueShape' /\ ResShape'
      BY <1>0, <1>8
      DEF Shape, RequestShape, QueueShape, ResShape, Named, received, timed_out,
          not_mine, mine, deliver, Wait
    <2>2. res' \in Message
      BY <1>8, EntryTypes DEF received
    <2>3. CASE timed_out
      BY <1>0, <1>8, <2>1, <2>2, <2>3
      DEF TypeShape, TypeOK, Shape, OwnerShape, HeldShape, Named, received,
          timed_out
    <2>4. CASE not_mine
      <3>1. Named(res) /\ res.cd \in Cd
        BY <1>0, <1>8, <2>4 DEF Shape, ResShape, Named, Unblock, received, not_mine
      <3>2. calls' \in [Cd -> Entry]
        BY <1>0, <2>4, EntryTypes DEF TypeOK, not_mine, buffer
      <3>3. OwnerShape'
        BY <1>0, <1>8, <2>4, <3>1
        DEF TypeOK, Shape, OwnerShape, Named, received, not_mine, buffer
      <3>4. HeldShape'
        BY <1>0, <1>8, <2>4, <3>1
        DEF TypeOK, Shape, HeldShape, Named, received, not_mine, buffer, Buffered
      <3>5. QED
        BY <1>0, <1>8, <1>l, <2>1, <2>2, <2>4, <3>1, <3>2, <3>3, <3>4
        DEF TypeShape, TypeOK, Shape, received, not_mine, Wait
    <2>5. CASE mine
      <3>1. res.cd \in Cd
        BY <1>0, <1>8, <2>5 DEF Shape, ResShape, Named, Unblock, received, mine
      <3>2. calls' \in [Cd -> Entry] /\ OwnerShape' /\ HeldShape'
        BY <1>8, <2>5, FreeShape DEF received, mine, deliver
      <3>3. delivered' \in [Id -> Nat]
        BY <1>0, <2>5, DeliveredType DEF mine, deliver
      <3>4. QED
        BY <1>0, <1>8, <1>l, <2>1, <2>2, <2>5, <3>1, <3>2, <3>3
        DEF TypeShape, TypeOK, Shape, received, mine, deliver
    <2>6. QED
      BY <1>8, <2>3, <2>4, <2>5 DEF received
  <1>9. ASSUME NEW c \in Cd, tpcancel(c) PROVE TypeShape'
    <2>1. calls' \in [Cd -> Entry] /\ OwnerShape' /\ HeldShape'
      BY <1>9, FreeShape DEF tpcancel
    <2>2. owner[c] \in Id
      BY <1>0, <1>9 DEF TypeOK, Shape, OwnerShape, tpcancel, Id
    <2>3. RequestShape' /\ QueueShape' /\ ResShape'
      BY <1>0, <1>9
      DEF Shape, RequestShape, QueueShape, ResShape, Named, tpcancel
    <2>4. QED
      BY <1>0, <1>9, <1>l, <2>1, <2>2, <2>3 DEF TypeShape, TypeOK, Shape, tpcancel
  <1>10. ASSUME NEW r \in requests, reply(r) PROVE TypeShape'
    <2>1. PICK cat \in Category :
            rpid' = Append(rpid, [cat |-> cat, cd |-> r.cd, id |-> r.id])
      BY <1>10 DEF reply, Category
    <2>2. r.cd \in Cd /\ r.id \in Id /\ Named(r)
      BY <1>0 DEF TypeOK, Shape, RequestShape
    <2>3. [cat |-> cat, cd |-> r.cd, id |-> r.id] \in Message
      BY <1>0, <2>2 DEF Message, Id
    <2>4. rpid' \in Seq(Message)
      BY <1>0, <2>1, <2>3 DEF TypeOK
    <2>5. QueueShape'
      BY SMTT(40), <1>0, <1>10, <2>1, <2>2, <2>3
      DEF TypeOK, Shape, QueueShape, Named, reply, history
    <2>6. QED
      BY <1>0, <1>10, <2>4, <2>5
      DEF TypeShape, TypeOK, Shape, RequestShape, ResShape, OwnerShape, HeldShape,
          Named, reply, client, history
  <1>11. ASSUME NEW r \in requests, LoseRequest(r) PROVE TypeShape'
    BY SMTT(40), <1>0, <1>11
    DEF TypeShape, TypeOK, Shape, RequestShape, QueueShape, ResShape, OwnerShape,
        HeldShape, Named, LoseRequest, client
  <1>12. CASE Expire \/ handle_blocktime
    BY <1>0, <1>12
    DEF TypeShape, TypeOK, Shape, RequestShape, QueueShape, ResShape, OwnerShape,
        HeldShape, Named, Expire, handle_blocktime, client, history
  <1>13. CASE send_unblock
    <2>1. rpid' \in Seq(Message)
      BY <1>0, <1>13, EntryTypes DEF TypeOK, send_unblock
    <2>2. QueueShape'
      BY SMTT(40), <1>0, <1>13, EntryTypes
      DEF TypeOK, Shape, QueueShape, Named, send_unblock, history
    <2>3. QED
      BY <1>0, <1>13, <2>1, <2>2
      DEF TypeShape, TypeOK, Shape, RequestShape, ResShape, OwnerShape, HeldShape,
          Named, send_unblock, client, history
  <1>14. CASE UNCHANGED vars
    BY <1>0, <1>14
    DEF TypeShape, TypeOK, Shape, RequestShape, QueueShape, ResShape, OwnerShape,
        HeldShape, Named, vars
  <1>15. QED
    BY <1>1, <1>2, <1>3, <1>4, <1>5, <1>6, <1>7, <1>8, <1>9, <1>10, <1>11, <1>12,
       <1>13, <1>14
    DEF Next

\* Every reachable state is well typed: in particular no descriptor outside
\* the cycle of resp.h is ever handed out, waited for or answered, and only
\* calls that were made are cancelled or lost.
THEOREM TypeCorrect == Spec => []TypeOK
  <1>1. TypeShape => TypeOK
    BY DEF TypeShape
  <1>2. QED
    BY InitTypeShape, NextTypeShape, <1>1, PTL DEF Spec

-----------------------------------------------------------------------------
(* No call is answered twice.  AtMostOnce is not inductive: it needs to be  *)
(* known that the one copy of a reply is in one place at a time, among the  *)
(* servers, the reply queue, the thread and the descriptor table, and in no *)
(* place once it was delivered.                                             *)

OneRequest == \A r, s \in requests : r.id = s.id => r = s
OneQueued == \A j, k \in 1..Len(rpid) :
               rpid[j].id = rpid[k].id /\ rpid[j].id # 0 => j = k
OneHeld == \A c, d \in Cd :
             calls[c].status = "buffered" /\ calls[d].status = "buffered" =>
               (calls[c].msg.id = calls[d].msg.id => c = d)
OnePlace == \A i \in Id :
  /\ Requested(i) => ~Queued(i) /\ res.id # i /\ ~Held(i)
  /\ Queued(i) => res.id # i /\ ~Held(i)
  /\ res.id = i => ~Held(i)
DeliveredGone == \A i \in Id : delivered[i] > 0 =>
  i <= issued /\ ~Requested(i) /\ ~Queued(i) /\ res.id # i /\ ~Held(i)

Unique == OneRequest /\ OneQueued /\ OneHeld /\ OnePlace /\ DeliveredGone
AnswerInv == TypeShape /\ Unique /\ AtMostOnce

LEMMA InitAnswerInv == Init => AnswerInv
  <1> SUFFICES ASSUME Init PROVE AnswerInv
    OBVIOUS
  <1>1. TypeShape
    BY InitTypeShape
  <1>2. /\ requests = {} /\ Len(rpid) = 0 /\ res.id = 0
        /\ \A c \in Cd : calls[c].status = "free"
        /\ \A i \in Id : delivered[i] = 0 /\ i # 0
    BY DEF Init, Free, NoMsg, Id
  <1>3. \A i \in Id : ~Requested(i) /\ ~Queued(i) /\ ~Held(i)
    BY <1>2 DEF Requested, Queued, Held
  <1>4. QED
    BY <1>1, <1>2, <1>3
    DEF AnswerInv, Unique, OneRequest, OneQueued, OneHeld, OnePlace,
        DeliveredGone, AtMostOnce

\* A call that has not been made yet is nowhere.
LEMMA FutureNowhere ==
  ASSUME TypeShape, NEW i \in Id, i > issued
  PROVE  ~Requested(i) /\ ~Queued(i) /\ res.id # i /\ ~Held(i)
  BY SMTT(40), CallsAssumption
  DEF TypeShape, TypeOK, Shape, RequestShape, QueueShape, ResShape, HeldShape,
      Named, Unblock, NoMsg, Requested, Queued, Held, Id

\* A step that allocates a descriptor, drops its old entry and perhaps adds
\* the request of the new call.
LEMMA AllocateUnique ==
  ASSUME AnswerInv, allocate,
         \E e \in {Free, None} : calls' = [calls EXCEPT ![nextseq] = e],
         requests' = requests \/
           requests' = requests \cup {[cd |-> nextseq, id |-> issued + 1]},
         UNCHANGED <<rpid, res, delivered>>
  PROVE  Unique'
  <1>1. /\ TypeShape /\ TypeOK /\ Unique
        /\ nextseq \in Cd
        /\ issued' = issued + 1 /\ issued' \in Id
    <2>1. TypeShape /\ TypeOK /\ Unique
      BY DEF AnswerInv, TypeShape
    <2>2. issued \in Nat /\ issued + 1 <= MaxIssued /\ issued' = issued + 1
      BY <2>1, CallsAssumption DEF TypeOK, allocate
    <2>3. QED
      BY <2>1, <2>2, NextseqInCd, CallsAssumption DEF Id
  <1>2. \A i \in Id : i > issued =>
          ~Requested(i) /\ ~Queued(i) /\ res.id # i /\ ~Held(i)
    BY <1>1, FutureNowhere
  <1>3. \A c \in Cd : calls'[c].status = "buffered" => calls'[c] = calls[c]
    BY <1>1 DEF TypeOK, Free, None
  <1>4. ASSUME NEW i \in Id
        PROVE  /\ Held(i)' => Held(i)
               /\ Queued(i)' => Queued(i)
               /\ Requested(i)' => Requested(i) \/ i = issued + 1
    <2>1. Held(i)' => Held(i)
      BY <1>3 DEF Held
    <2>2. Queued(i)' => Queued(i)
      BY DEF Queued
    <2>3. Requested(i)' => Requested(i) \/ i = issued + 1
      BY DEF Requested
    <2>4. QED
      BY <2>1, <2>2, <2>3
  <1>5. OneRequest'
    <2>1. \A r \in requests : r.id # issued + 1
      BY <1>1, <1>2 DEF Requested, TypeOK
    <2>2. QED
      BY <1>1, <2>1 DEF Unique, OneRequest
  <1>6. OneQueued'
    BY <1>1 DEF Unique, OneQueued
  <1>7. OneHeld'
    BY <1>1, <1>3 DEF Unique, OneHeld
  <1>8. issued + 1 \in Id /\ issued + 1 > issued
    BY <1>1 DEF TypeOK
  <1>9. OnePlace'
    <2> SUFFICES ASSUME NEW i \in Id
                 PROVE  /\ Requested(i)' => ~Queued(i)' /\ res'.id # i /\ ~Held(i)'
                        /\ Queued(i)' => res'.id # i /\ ~Held(i)'
                        /\ res'.id = i => ~Held(i)'
      BY DEF OnePlace
    <2>1. res' = res
      OBVIOUS
    <2>2. QED
      BY <1>1, <1>2, <1>4, <1>8, <2>1 DEF Unique, OnePlace
  <1>10. \A i \in Id : delivered[i] > 0 => i <= issued' /\ i # issued + 1
    BY <1>1 DEF Unique, DeliveredGone, TypeOK, Id
  <1>11. DeliveredGone'
    <2> SUFFICES ASSUME NEW i \in Id, delivered'[i] > 0
                 PROVE  /\ i <= issued' /\ res'.id # i
                        /\ ~Requested(i)' /\ ~Queued(i)' /\ ~Held(i)'
      BY DEF DeliveredGone
    <2>1. res' = res /\ delivered' = delivered
      OBVIOUS
    <2>2. QED
      BY <1>1, <1>4, <1>10, <2>1 DEF Unique, DeliveredGone
  <1>12. QED
    BY <1>5, <1>6, <1>7, <1>9, <1>11 DEF Unique

\* A nonempty set of natural numbers has a smallest element: the loop of
\* any_buffered finds one.
LEMMA SmallestExists ==
  ASSUME NEW S \in SUBSET Nat, S # {}
  PROVE  \E c \in S : \A d \in S : c <= d
  <1> DEFINE R == OpToRel(<, Nat)
  <1>1. PICK c \in S : \A d \in S : ~ (<<d, c>> \in R)
    <2>1. IsWellFoundedOn(R, Nat)
      BY NatLessThanWellFounded
    <2>2. S \subseteq Nat /\ S # {}
      OBVIOUS
    <2> HIDE DEF R
    <2>3. QED
      BY <2>1, <2>2, WFMin
  <1>2. \A d \in S : ~ (d < c)
    BY <1>1 DEF OpToRel
  <1>3. QED
    BY <1>2

\* any_buffered finds a descriptor when there is one to find.
LEMMA AnyBuffered ==
  BufferedCds # {} => any_buffered \in BufferedCds
  <1> SUFFICES ASSUME BufferedCds # {}
               PROVE  \E c \in BufferedCds : \A d \in BufferedCds : c <= d
    BY DEF any_buffered
  <1>1. PICK n \in BufferedCds : TRUE
    OBVIOUS
  <1>2. BufferedCds \subseteq Nat
    BY CallsAssumption DEF BufferedCds, Cd
  <1>3. QED
    BY <1>1, <1>2, SmallestExists

\* Delivering a reply the thread or the table holds counts it once and
\* removes it from its place.
LEMMA DeliverCounts ==
  ASSUME TypeOK, NEW i \in Id, delivered' = [delivered EXCEPT ![i] = @ + 1],
         delivered[i] <= 0, AtMostOnce
  PROVE  /\ AtMostOnce'
         /\ \A j \in Id : delivered'[j] > 0 => delivered[j] > 0 \/ j = i
  BY DEF TypeOK, AtMostOnce

LEMMA NextAnswerInv == AnswerInv /\ [Next]_vars => AnswerInv'
  <1> SUFFICES ASSUME AnswerInv, [Next]_vars PROVE AnswerInv'
    OBVIOUS
  <1>0. /\ TypeShape /\ TypeOK /\ Shape /\ Unique /\ AtMostOnce
        /\ \A i \in Id : i # 0
    BY DEF AnswerInv, TypeShape, Id
  <1>t. TypeShape'
    BY <1>0, NextTypeShape
  <1> SUFFICES Unique' /\ AtMostOnce'
    BY <1>t DEF AnswerInv
  <1>1. CASE tpacall_sent \/ tpacall_full \/ tpacall_throws \/ tpcall
    <2>1. Unique'
      BY <1>1, AllocateUnique
      DEF tpacall_sent, tpacall_full, tpacall_throws, tpcall, tpacall
    <2>2. AtMostOnce'
      BY <1>0, <1>1
      DEF AtMostOnce, tpacall_sent, tpacall_full, tpacall_throws, tpcall
    <2>3. QED
      BY <2>1, <2>2
  <1>2. ASSUME NEW w \in Cd \cup {ANY}, tpgetrply(w) PROVE Unique' /\ AtMostOnce'
    <2>1. UNCHANGED <<requests, rpid, res, issued>>
      BY <1>2 DEF tpgetrply, deliver, Wait
    <2>2. CASE UNCHANGED <<calls, delivered>>
      BY <1>0, <2>1, <2>2
      DEF Unique, OneRequest, OneQueued, OneHeld, OnePlace, DeliveredGone,
          AtMostOnce, Requested, Queued, Held
    <2>3. ASSUME NEW c \in BufferedCds, deliver(calls[c].msg)
          PROVE  Unique' /\ AtMostOnce'
      <3> DEFINE i == calls[c].msg.id
      <3>1. /\ c \in Cd /\ calls[c].status = "buffered"
            /\ calls[c].msg.cd = c /\ i \in Id /\ Held(i) /\ i <= issued
        <4>1. c \in Cd /\ calls[c].status = "buffered"
          BY <2>3 DEF BufferedCds
        <4>2. calls[c].msg.cd = c /\ i \in 1..issued
          BY <1>0, <4>1 DEF Shape, HeldShape, Named
        <4>3. i \in Id /\ i <= issued
          BY <1>0, <4>2, CallsAssumption DEF TypeOK, Id
        <4>4. QED
          BY <4>1, <4>2, <4>3 DEF Held
      <3>2. \A d \in Cd : d # c => calls'[d] = calls[d]
        BY <1>0, <2>3, <3>1 DEF deliver, TypeOK
      <3>3. calls'[c].status = "free"
        BY <1>0, <2>3, <3>1 DEF deliver, TypeOK, Free
      <3>4. delivered[i] <= 0
        BY <1>0, <3>1 DEF Unique, DeliveredGone, TypeOK
      <3>5. AtMostOnce' /\ \A j \in Id : delivered'[j] > 0 => delivered[j] > 0 \/ j = i
        BY <1>0, <2>3, <3>1, <3>4, DeliverCounts DEF deliver
      <3>6. \A d \in Cd : calls'[d].status = "buffered" =>
              d # c /\ calls'[d] = calls[d] /\ calls[d].msg.id # i
        BY <1>0, <3>1, <3>2, <3>3 DEF Unique, OneHeld
      <3>7. ASSUME NEW j \in Id
            PROVE  /\ Held(j)' => Held(j) /\ j # i
                   /\ Queued(j)' <=> Queued(j)
                   /\ Requested(j)' <=> Requested(j)
        BY <2>1, <3>6 DEF Held, Queued, Requested
      <3>8. OneRequest' /\ OneQueued' /\ OneHeld'
        BY <1>0, <2>1, <3>6 DEF Unique, OneRequest, OneQueued, OneHeld
      <3>9. OnePlace'
        <4> SUFFICES ASSUME NEW j \in Id
                     PROVE  /\ Requested(j)' => ~Queued(j)' /\ res'.id # j /\ ~Held(j)'
                            /\ Queued(j)' => res'.id # j /\ ~Held(j)'
                            /\ res'.id = j => ~Held(j)'
          BY DEF OnePlace
        <4> QED
          BY <1>0, <2>1, <3>7 DEF Unique, OnePlace
      <3>10. DeliveredGone'
        <4> SUFFICES ASSUME NEW j \in Id, delivered'[j] > 0
                     PROVE  /\ j <= issued' /\ res'.id # j
                            /\ ~Requested(j)' /\ ~Queued(j)' /\ ~Held(j)'
          BY DEF DeliveredGone
        <4>1. CASE j = i
          BY <1>0, <2>1, <3>1, <3>7, <4>1 DEF Unique, OnePlace
        <4>2. CASE j # i
          BY <1>0, <2>1, <3>5, <3>7, <4>2 DEF Unique, DeliveredGone
        <4> QED
          BY <4>1, <4>2
      <3>11. QED
        BY <3>5, <3>8, <3>9, <3>10 DEF Unique
    <2>4. QED
      BY <1>2, <2>2, <2>3, AnyBuffered DEF tpgetrply
  <1>3. CASE qrecv
    <2>1. /\ rpid # <<>> /\ Head(rpid) = rpid[1] /\ 1 \in 1..Len(rpid)
          /\ Len(Tail(rpid)) = Len(rpid) - 1 /\ Len(rpid) \in Nat
          /\ \A k \in 1..Len(Tail(rpid)) : Tail(rpid)[k] = rpid[k + 1]
      BY <1>0, <1>3 DEF TypeOK, qrecv
    <2>2. res' = rpid[1] /\ rpid' = Tail(rpid)
      BY <1>3, <2>1 DEF qrecv
    <2>3. UNCHANGED <<requests, calls, issued, delivered>>
      BY <1>3 DEF qrecv, history
    <2>4. ASSUME NEW i \in Id
          PROVE  /\ Held(i)' <=> Held(i)
                 /\ Requested(i)' <=> Requested(i)
                 /\ Queued(i)' => Queued(i)
                 /\ res'.id = i => Queued(i) /\ ~Queued(i)'
      <3>1. (Held(i)' <=> Held(i)) /\ (Requested(i)' <=> Requested(i))
        BY <2>3 DEF Held, Requested
      <3>2. Queued(i)' => Queued(i)
        BY <2>1, <2>2 DEF Queued
      <3>3. res'.id = i => Queued(i)
        BY <2>1, <2>2 DEF Queued
      <3>4. res'.id = i => ~Queued(i)'
        BY <1>0, <2>1, <2>2 DEF Unique, OneQueued, Queued
      <3>5. QED
        BY <3>1, <3>2, <3>3, <3>4
    <2>5. OneQueued'
      BY <1>0, <2>1, <2>2 DEF Unique, OneQueued
    <2>6. OneRequest' /\ OneHeld' /\ AtMostOnce'
      BY <1>0, <2>3 DEF Unique, OneRequest, OneHeld, AtMostOnce
    <2>7. OnePlace'
      <3> SUFFICES ASSUME NEW i \in Id
                   PROVE  /\ Requested(i)' => ~Queued(i)' /\ res'.id # i /\ ~Held(i)'
                          /\ Queued(i)' => res'.id # i /\ ~Held(i)'
                          /\ res'.id = i => ~Held(i)'
        BY DEF OnePlace
      <3> QED
        BY <1>0, <2>4 DEF Unique, OnePlace
    <2>8. DeliveredGone'
      <3> SUFFICES ASSUME NEW i \in Id, delivered'[i] > 0
                   PROVE  /\ i <= issued' /\ res'.id # i
                          /\ ~Requested(i)' /\ ~Queued(i)' /\ ~Held(i)'
        BY DEF DeliveredGone
      <3> QED
        BY <1>0, <2>3, <2>4 DEF Unique, DeliveredGone
    <2>9. QED
      BY <2>5, <2>6, <2>7, <2>8 DEF Unique
  <1>4. CASE qrecv_throws \/ Expire \/ handle_blocktime \/ UNCHANGED vars
    <2>1. UNCHANGED <<requests, calls, rpid, res, issued, delivered>>
      BY <1>4 DEF qrecv_throws, Expire, handle_blocktime, vars, client, history
    <2>2. QED
      BY <1>0, <2>1
      DEF Unique, OneRequest, OneQueued, OneHeld, OnePlace, DeliveredGone,
          AtMostOnce, Requested, Queued, Held
  <1>5. CASE received
    <2>1. UNCHANGED <<requests, rpid, issued>> /\ res'.id = 0
      BY <1>5 DEF received, NoMsg
    <2>2. \A i \in Id : (Requested(i)' <=> Requested(i)) /\ (Queued(i)' <=> Queued(i))
      BY <2>1 DEF Requested, Queued
    <2>3. OneRequest' /\ OneQueued'
      BY <1>0, <2>1 DEF Unique, OneRequest, OneQueued
    <2>4. CASE timed_out
      <3>1. UNCHANGED <<calls, delivered>>
        BY <2>4 DEF timed_out
      <3>2. \A i \in Id : Held(i)' <=> Held(i)
        BY <3>1 DEF Held
      <3>3. OneHeld' /\ AtMostOnce'
        BY <1>0, <3>1 DEF Unique, OneHeld, AtMostOnce
      <3>4. OnePlace' /\ DeliveredGone'
        BY <1>0, <2>1, <2>2, <3>1, <3>2 DEF Unique, OnePlace, DeliveredGone
      <3>5. QED
        BY <2>3, <3>3, <3>4 DEF Unique
    <2>5. ASSUME res.cat # "unblock"
          PROVE  res.cd \in Cd /\ res.id \in Id /\ res.id <= issued
      BY <1>0, <1>5, <2>5, CallsAssumption
      DEF TypeOK, Shape, ResShape, Named, Unblock, Id, received
    <2>6. CASE not_mine
      <3>1. res.cd \in Cd /\ res.id \in Id /\ UNCHANGED delivered
        BY <2>5, <2>6 DEF not_mine
      <3>2. calls' = [calls EXCEPT ![res.cd] = Buffered(res)]
        BY <2>6 DEF not_mine, buffer
      <3>3. \A c \in Cd : calls'[c].status = "buffered" =>
              \/ c = res.cd /\ calls'[c].msg.id = res.id
              \/ c # res.cd /\ calls'[c] = calls[c]
        BY <1>0, <3>1, <3>2 DEF TypeOK, Buffered
      <3>4. \A i \in Id : Held(i)' => Held(i) \/ i = res.id
        BY <3>3 DEF Held
      <3>5. ~Held(res.id)
        BY <1>0, <3>1 DEF Unique, OnePlace
      <3>6. OneHeld'
        BY <1>0, <3>1, <3>3, <3>5 DEF Unique, OneHeld, Held
      <3>7. OnePlace' /\ DeliveredGone'
        BY <1>0, <2>1, <2>2, <3>1, <3>4 DEF Unique, OnePlace, DeliveredGone
      <3>8. AtMostOnce'
        BY <1>0, <3>1 DEF AtMostOnce
      <3>9. QED
        BY <2>3, <3>6, <3>7, <3>8 DEF Unique
    <2>7. CASE mine
      <3>1. res.cd \in Cd /\ res.id \in Id /\ res.id <= issued
        BY <2>5, <2>7 DEF mine
      <3>2. /\ calls' = [calls EXCEPT ![res.cd] = Free]
            /\ delivered' = [delivered EXCEPT ![res.id] = @ + 1]
        BY <2>7 DEF mine, deliver
      <3>3. \A c \in Cd : calls'[c].status = "buffered" => calls'[c] = calls[c]
        BY <1>0, <3>1, <3>2 DEF TypeOK, Free
      <3>4. \A i \in Id : Held(i)' => Held(i)
        BY <3>3 DEF Held
      <3>5. ~Held(res.id) /\ ~Queued(res.id) /\ ~Requested(res.id)
        BY <1>0, <3>1 DEF Unique, OnePlace
      <3>6. delivered[res.id] <= 0
        BY <1>0, <3>1 DEF Unique, DeliveredGone, TypeOK
      <3>7. /\ AtMostOnce'
            /\ \A j \in Id : delivered'[j] > 0 => delivered[j] > 0 \/ j = res.id
        BY <1>0, <3>1, <3>2, <3>6, DeliverCounts
      <3>8. OneHeld'
        BY <1>0, <3>3 DEF Unique, OneHeld
      <3>9. OnePlace'
        BY <1>0, <2>1, <2>2, <3>4 DEF Unique, OnePlace
      <3>10. DeliveredGone'
        BY <1>0, <2>1, <2>2, <3>1, <3>4, <3>5, <3>7 DEF Unique, DeliveredGone
      <3>11. QED
        BY <2>3, <3>7, <3>8, <3>9, <3>10 DEF Unique
    <2>8. QED
      BY <1>5, <2>4, <2>6, <2>7 DEF received
  <1>6. ASSUME NEW c \in Cd, tpcancel(c) PROVE Unique' /\ AtMostOnce'
    <2>1. /\ UNCHANGED <<requests, rpid, res, issued, delivered>>
          /\ \A d \in Cd : calls'[d].status = "buffered" => calls'[d] = calls[d]
      BY <1>0, <1>6 DEF tpcancel, TypeOK, Free
    <2>2. \A i \in Id : /\ Held(i)' => Held(i)
                        /\ Requested(i)' <=> Requested(i)
                        /\ Queued(i)' <=> Queued(i)
      BY <2>1 DEF Held, Requested, Queued
    <2>3. QED
      BY <1>0, <2>1, <2>2
      DEF Unique, OneRequest, OneQueued, OneHeld, OnePlace, DeliveredGone,
          AtMostOnce
  <1>7. ASSUME NEW r \in requests, reply(r) PROVE Unique' /\ AtMostOnce'
    <2>1. PICK cat \in Category :
            rpid' = Append(rpid, [cat |-> cat, cd |-> r.cd, id |-> r.id])
      BY <1>7 DEF reply, Category
    <2>2. /\ requests' = requests \ {r}
          /\ UNCHANGED <<calls, res, issued, delivered>>
      BY <1>7 DEF reply, client, history
    <2>3. /\ Len(rpid') = Len(rpid) + 1 /\ Len(rpid) \in Nat
          /\ rpid'[Len(rpid) + 1].id = r.id
          /\ \A k \in 1..Len(rpid) : rpid'[k] = rpid[k]
          /\ r.id \in Id /\ Requested(r.id)
      <3>1. r.id \in Id /\ Requested(r.id)
        BY <1>0 DEF TypeOK, Requested
      <3>2. QED
        BY <1>0, <2>1, <3>1 DEF TypeOK
    <2>4. \A i \in Id : Requested(i)' => Requested(i) /\ i # r.id
      BY <1>0, <2>2 DEF Unique, OneRequest, Requested
    <2>5. \A i \in Id : Queued(i)' => Queued(i) \/ i = r.id
      BY <2>3 DEF Queued
    <2>6. \A i \in Id : Held(i)' <=> Held(i)
      BY <2>2 DEF Held
    <2>7. ~Queued(r.id) /\ res.id # r.id /\ ~Held(r.id) /\ ~(delivered[r.id] > 0)
      BY <1>0, <2>3 DEF Unique, OnePlace, DeliveredGone
    <2>8. OneQueued'
      BY <1>0, <2>3, <2>7 DEF Unique, OneQueued, Queued
    <2>9. OneRequest' /\ OneHeld' /\ AtMostOnce'
      BY <1>0, <2>2 DEF Unique, OneRequest, OneHeld, AtMostOnce
    <2>10. OnePlace' /\ DeliveredGone'
      BY <1>0, <2>2, <2>4, <2>5, <2>6, <2>7 DEF Unique, OnePlace, DeliveredGone
    <2>11. QED
      BY <2>8, <2>9, <2>10 DEF Unique
  <1>8. ASSUME NEW r \in requests, LoseRequest(r) PROVE Unique' /\ AtMostOnce'
    <2>1. /\ requests' \subseteq requests
          /\ UNCHANGED <<calls, rpid, res, issued, delivered>>
      BY <1>8 DEF LoseRequest, client
    <2>2. \A i \in Id : /\ Requested(i)' => Requested(i)
                        /\ Held(i)' <=> Held(i)
                        /\ Queued(i)' <=> Queued(i)
      BY <2>1 DEF Held, Requested, Queued
    <2>3. QED
      BY <1>0, <2>1, <2>2
      DEF Unique, OneRequest, OneQueued, OneHeld, OnePlace, DeliveredGone,
          AtMostOnce
  <1>9. CASE send_unblock
    <2>1. /\ rpid' = Append(rpid, Unblock)
          /\ UNCHANGED <<requests, calls, res, issued, delivered>>
      BY <1>9 DEF send_unblock, client, history
    <2>2. /\ Len(rpid') = Len(rpid) + 1 /\ Len(rpid) \in Nat
          /\ rpid'[Len(rpid) + 1].id = 0
          /\ \A k \in 1..Len(rpid) : rpid'[k] = rpid[k]
      BY <1>0, <2>1 DEF TypeOK, Unblock
    <2>3. \A i \in Id : Queued(i)' => Queued(i)
      BY <1>0, <2>2 DEF Queued
    <2>4. \A i \in Id : (Requested(i)' <=> Requested(i)) /\ (Held(i)' <=> Held(i))
      BY <2>1 DEF Held, Requested
    <2>5. OneQueued'
      BY <1>0, <2>2 DEF Unique, OneQueued
    <2>6. QED
      BY <1>0, <2>1, <2>3, <2>4, <2>5
      DEF Unique, OneRequest, OneHeld, OnePlace, DeliveredGone, AtMostOnce
  <1>10. QED
    BY <1>1, <1>2, <1>3, <1>4, <1>5, <1>6, <1>7, <1>8, <1>9 DEF Next

\* Whatever is cancelled, timed out, reordered, lost or wrapped around, no
\* call is answered twice.
THEOREM AnsweredAtMostOnce == Spec => []AtMostOnce
  <1>1. AnswerInv => AtMostOnce
    BY DEF AnswerInv
  <1>2. QED
    BY InitAnswerInv, NextAnswerInv, <1>1, PTL DEF Spec

-----------------------------------------------------------------------------
(* No reply is lost.  A reply that travels in a file may be taken for the   *)
(* watchdog's message, so this needs that no reply is large; the invariant  *)
(* adds that only the watchdog's message, which stands for no call, has the *)
(* category unblock.                                                        *)

Categorised ==
  /\ \A k \in 1..Len(rpid) : rpid[k].cat = "unblock" => rpid[k].id = 0
  /\ res.cat = "unblock" => res.id = 0

Accounted(i) ==
  \/ Requested(i) \/ Queued(i) \/ res.id = i \/ Held(i)
  \/ delivered[i] > 0 \/ i \in dropped

LostInv == TypeShape /\ Categorised /\ NoReplyLost

LEMMA InitLostInv == Init => LostInv
  <1> SUFFICES ASSUME Init PROVE LostInv
    OBVIOUS
  <1>1. TypeShape
    BY InitTypeShape
  <1>2. Categorised /\ NoReplyLost
    BY DEF Init, Categorised, NoReplyLost, NoMsg
  <1>3. QED
    BY <1>1, <1>2 DEF LostInv

\* An entry that is overwritten leaves its reply among the dropped ones.
LEMMA OverwriteDrops ==
  ASSUME TypeOK, NEW c \in Cd, NEW e \in Entry,
         calls' = [calls EXCEPT ![c] = e], NEW i \in Id, Held(i)
  PROVE  Held(i)' \/ i \in LostWith(c)
  <1>1. PICK d \in Cd : calls[d].status = "buffered" /\ calls[d].msg.id = i
    BY DEF Held
  <1>2. CASE d = c
    BY <1>1, <1>2 DEF LostWith
  <1>3. CASE d # c
    <2>1. calls'[d] = calls[d]
      BY <1>3 DEF TypeOK
    <2>2. QED
      BY <1>1, <2>1 DEF Held
  <1>4. QED
    BY <1>2, <1>3

\* Delivery of a message makes its call delivered and takes no other from those.
LEMMA DeliverAccounts ==
  ASSUME TypeOK, NEW m, m.id \in Id, deliver(m), NEW i \in Id,
         delivered[i] > 0 \/ i = m.id
  PROVE  delivered'[i] > 0
  BY DEF TypeOK, deliver

\* tpgetrply that finds a buffered reply: only that reply leaves the table.
LEMMA DeliverBuffered ==
  ASSUME TypeShape, NEW c \in BufferedCds, deliver(calls[c].msg),
         NEW i \in Id, Held(i)
  PROVE  Held(i)' \/ delivered'[i] > 0
  <1>1. /\ TypeOK /\ c \in Cd /\ calls[c].status = "buffered"
    BY DEF TypeShape, BufferedCds
  <1>2. calls[c].msg.cd = c /\ calls[c].msg.id \in Id
    <2>1. calls[c].msg.cd = c /\ calls[c].msg.id \in 1..issued
      BY <1>1 DEF TypeShape, Shape, HeldShape, Named
    <2>2. QED
      BY SMTT(40), <1>1, <2>1, CallsAssumption DEF TypeOK, Id
  <1>3. Held(i)' \/ i \in LostWith(c)
    BY <1>1, <1>2, OverwriteDrops, EntryTypes DEF deliver
  <1>4. i \in LostWith(c) => i = calls[c].msg.id
    BY <1>1 DEF LostWith
  <1>5. QED
    BY <1>1, <1>2, <1>3, <1>4, DeliverAccounts

LEMMA NextLostInv ==
  ASSUME LargeReplies = FALSE
  PROVE  LostInv /\ [Next]_vars => LostInv'
  <1> SUFFICES ASSUME LostInv, [Next]_vars PROVE LostInv'
    OBVIOUS
  <1>0. TypeShape /\ TypeOK /\ Shape /\ Categorised /\ NoReplyLost
    BY DEF LostInv, TypeShape
  <1>a. /\ \A i \in 1..issued : Accounted(i)
        /\ 1..issued \subseteq Id /\ \A i \in Id : i # 0
    BY <1>0, CallsAssumption DEF NoReplyLost, Accounted, TypeOK, Id
  <1>t. TypeShape'
    BY <1>0, NextTypeShape
  <1> SUFFICES Categorised' /\ \A i \in 1..issued' : Accounted(i)'
    BY <1>t DEF LostInv, NoReplyLost, Accounted
  <1>1. CASE tpacall_sent \/ tpacall_full \/ tpacall_throws \/ tpcall
    <2>1. /\ allocate /\ nextseq \in Cd
          /\ \E e \in Entry : calls' = [calls EXCEPT ![nextseq] = e]
          /\ UNCHANGED <<rpid, res, delivered>>
          /\ requests \subseteq requests'
          /\ dropped \cup LostWith(nextseq) \subseteq dropped'
      BY <1>0, <1>1, NextseqInCd, EntryTypes
      DEF tpacall_sent, tpacall_full, tpacall_throws, tpcall, tpacall
    <2>2. Categorised'
      BY <1>0, <2>1 DEF Categorised
    <2>3. ASSUME NEW i \in 1..issued PROVE Accounted(i)'
      <3>1. Accounted(i) /\ i \in Id
        BY <1>a
      <3>2. Held(i) => Held(i)' \/ i \in dropped'
        BY <1>0, <2>1, <3>1, OverwriteDrops
      <3>3. (Requested(i) => Requested(i)') /\ (Queued(i) => Queued(i)')
        BY <2>1 DEF Requested, Queued
      <3>4. QED
        BY <2>1, <3>1, <3>2, <3>3 DEF Accounted
    <2>4. ASSUME NEW i \in Nat, i = issued + 1 PROVE Accounted(i)'
      <3>1. CASE tpacall
        <4>1. [cd |-> nextseq, id |-> i] \in requests'
          BY <2>4, <3>1 DEF tpacall
        <4>2. Requested(i)'
          BY <4>1 DEF Requested
        <4>3. QED
          BY <4>2 DEF Accounted
      <3>2. CASE tpacall_full \/ tpacall_throws
        BY <2>4, <3>2 DEF tpacall_full, tpacall_throws, Accounted
      <3>3. QED
        BY <1>1, <3>1, <3>2 DEF tpacall_sent, tpcall
    <2>5. \A i \in 1..issued' : i \in 1..issued \/ (i \in Nat /\ i = issued + 1)
      BY <1>0, <2>1 DEF allocate, TypeOK
    <2>6. QED
      BY <2>2, <2>3, <2>4, <2>5
  <1>2. ASSUME NEW w \in Cd \cup {ANY}, tpgetrply(w)
        PROVE  Categorised' /\ \A i \in 1..issued' : Accounted(i)'
    <2>1. UNCHANGED <<requests, rpid, res, issued, dropped>>
      BY <1>2 DEF tpgetrply, deliver, Wait
    <2>2. Categorised'
      BY <1>0, <2>1 DEF Categorised
    <2>3. CASE UNCHANGED <<calls, delivered>>
      BY <1>a, <2>1, <2>2, <2>3 DEF Accounted, Requested, Queued, Held
    <2>4. ASSUME NEW c \in BufferedCds, deliver(calls[c].msg), NEW i \in 1..issued
          PROVE  Accounted(i)'
      <3>1. Accounted(i) /\ i \in Id
        BY <1>a
      <3>2. Held(i) => Held(i)' \/ delivered'[i] > 0
        BY <1>0, <2>4, <3>1, DeliverBuffered
      <3>3. delivered[i] > 0 => delivered'[i] > 0
        <4>1. c \in Cd /\ calls[c].msg.id \in 1..issued
          BY <1>0 DEF BufferedCds, Shape, HeldShape, Named
        <4>2. QED
          BY <1>0, <1>a, <2>4, <3>1, <4>1, DeliverAccounts
      <3>4. (Requested(i)' <=> Requested(i)) /\ (Queued(i)' <=> Queued(i))
        BY <2>1 DEF Requested, Queued
      <3>5. QED
        BY <2>1, <3>1, <3>2, <3>3, <3>4 DEF Accounted
    <2>5. QED
      BY <1>2, <2>1, <2>2, <2>3, <2>4, AnyBuffered DEF tpgetrply
  <1>3. CASE qrecv
    <2>1. /\ rpid # <<>> /\ Head(rpid) = rpid[1] /\ 1 \in 1..Len(rpid)
          /\ Len(Tail(rpid)) = Len(rpid) - 1 /\ Len(rpid) \in Nat
          /\ \A k \in 1..Len(Tail(rpid)) : Tail(rpid)[k] = rpid[k + 1]
      BY <1>0, <1>3 DEF TypeOK, qrecv
    <2>2. /\ res' = rpid[1] /\ rpid' = Tail(rpid)
          /\ UNCHANGED <<requests, calls, issued, delivered, dropped>>
      BY <1>3, <2>1 DEF qrecv, history
    <2>3. Categorised'
      BY <1>0, <2>1, <2>2 DEF Categorised
    <2>4. res.id = 0
      BY <1>0, <1>3 DEF Shape, ResShape, qrecv, NoMsg
    <2>5. ASSUME NEW i \in 1..issued PROVE Accounted(i)'
      <3>1. Accounted(i) /\ i # 0
        BY <1>a
      <3>2. Queued(i) => res'.id = i \/ Queued(i)'
        <4> SUFFICES ASSUME NEW k \in 1..Len(rpid), rpid[k].id = i
                     PROVE  res'.id = i \/ Queued(i)'
          BY DEF Queued
        <4>1. CASE k = 1
          BY <2>2, <4>1
        <4>2. CASE k # 1
          <5>1. k - 1 \in 1..Len(rpid') /\ rpid'[k - 1] = rpid[k]
            BY <2>1, <2>2, <4>2
          <5>2. QED
            BY <5>1 DEF Queued
        <4>3. QED
          BY <4>1, <4>2
      <3>3. (Requested(i)' <=> Requested(i)) /\ (Held(i)' <=> Held(i))
        BY <2>2 DEF Requested, Held
      <3>4. QED
        BY <2>2, <2>4, <3>1, <3>2, <3>3 DEF Accounted
    <2>6. QED
      BY <2>2, <2>3, <2>5
  <1>4. CASE received
    <2>1. /\ UNCHANGED <<rpid, requests, issued>> /\ res' = NoMsg
          /\ dropped \subseteq dropped' /\ pc = "received"
      BY <1>4 DEF received, timed_out, not_mine, mine
    <2>2. Categorised'
      BY <1>0, <2>1 DEF Categorised, NoMsg
    <2>3. ASSUME NEW i \in 1..issued PROVE Accounted(i)'
      <3>1. Accounted(i) /\ i \in Id /\ i # 0
        BY <1>a
      <3>2. (Requested(i)' <=> Requested(i)) /\ (Queued(i)' <=> Queued(i))
        BY <2>1 DEF Requested, Queued
      <3>3. CASE timed_out
        <4>1. res.id = 0 /\ UNCHANGED <<calls, delivered, dropped>>
          BY <1>0, <3>3 DEF timed_out, Categorised
        <4>2. Held(i)' <=> Held(i)
          BY <4>1 DEF Held
        <4>3. QED
          BY <3>1, <3>2, <4>1, <4>2 DEF Accounted
      <3>4. CASE not_mine \/ mine
        <4>1. res \in Message /\ res.cd \in Cd /\ res.id \in Id
          <5>1. res # Unblock
            BY <3>4 DEF not_mine, mine, Unblock
          <5>2. Named(res)
            BY <1>0, <2>1, <5>1 DEF Shape, ResShape
          <5>3. res.id \in Id
            BY <1>a, <5>2 DEF Named
          <5>4. QED
            BY <1>0, <5>2, <5>3 DEF Named, TypeOK
        <4>2. Held(i) => Held(i)' \/ i \in dropped'
          <5>1. /\ \E e \in Entry : calls' = [calls EXCEPT ![res.cd] = e]
                /\ LostWith(res.cd) \subseteq dropped'
            BY <3>4, <4>1, EntryTypes DEF not_mine, mine, buffer, deliver
          <5>2. QED
            BY <1>0, <3>1, <4>1, <5>1, OverwriteDrops
        <4>3. CASE not_mine
          <5>1. calls'[res.cd] = Buffered(res)
            BY <1>0, <4>1, <4>3 DEF not_mine, buffer, TypeOK
          <5>2. res.id = i => Held(i)'
            BY <4>1, <5>1 DEF Held, Buffered
          <5>3. UNCHANGED delivered
            BY <4>3 DEF not_mine
          <5>4. QED
            BY <2>1, <3>1, <3>2, <4>2, <5>2, <5>3 DEF Accounted
        <4>4. CASE mine
          <5>1. delivered[i] > 0 \/ res.id = i => delivered'[i] > 0
            BY <1>0, <3>1, <4>1, <4>4, DeliverAccounts DEF mine
          <5>2. QED
            BY <2>1, <3>1, <3>2, <4>2, <5>1 DEF Accounted
        <4>5. QED
          BY <3>4, <4>3, <4>4
      <3>5. QED
        BY <1>4, <3>3, <3>4 DEF received
    <2>4. QED
      BY <2>1, <2>2, <2>3
  <1>5. ASSUME NEW c \in Cd, tpcancel(c)
        PROVE  Categorised' /\ \A i \in 1..issued' : Accounted(i)'
    <2>1. /\ UNCHANGED <<rpid, res, requests, issued, delivered>>
          /\ calls' = [calls EXCEPT ![c] = Free]
          /\ dropped' = dropped \cup LostWith(c)
      BY <1>5 DEF tpcancel
    <2>2. Categorised'
      BY <1>0, <2>1 DEF Categorised
    <2>3. ASSUME NEW i \in 1..issued PROVE Accounted(i)'
      <3>1. Accounted(i) /\ i \in Id
        BY <1>a
      <3>2. Held(i) => Held(i)' \/ i \in dropped'
        BY <1>0, <2>1, <3>1, OverwriteDrops, EntryTypes
      <3>3. (Requested(i)' <=> Requested(i)) /\ (Queued(i)' <=> Queued(i))
        BY <2>1 DEF Requested, Queued
      <3>4. QED
        BY <2>1, <3>1, <3>2, <3>3 DEF Accounted
    <2>4. QED
      BY <2>1, <2>2, <2>3
  <1>6. ASSUME NEW r \in requests, reply(r)
        PROVE  Categorised' /\ \A i \in 1..issued' : Accounted(i)'
    <2> DEFINE m == [cat |-> "application", cd |-> r.cd, id |-> r.id]
    <2>1. /\ UNCHANGED <<calls, res, issued, delivered, dropped>>
          /\ requests' = requests \ {r}
          /\ rpid' = Append(rpid, m)
      BY <1>6 DEF reply, client, history
    <2>2. /\ Len(rpid) \in Nat /\ Len(rpid') = Len(rpid) + 1
          /\ rpid'[Len(rpid) + 1] = m
          /\ \A k \in 1..Len(rpid) : rpid'[k] = rpid[k]
      BY <1>0, <2>1 DEF TypeOK
    <2>3. Categorised'
      <3>1. ASSUME NEW k \in 1..Len(rpid'), rpid'[k].cat = "unblock"
            PROVE  rpid'[k].id = 0
        <4>1. k \in 1..Len(rpid)
          BY <2>2, <3>1
        <4>2. QED
          BY <1>0, <2>2, <3>1, <4>1 DEF Categorised
      <3>2. QED
        BY <1>0, <2>1, <3>1 DEF Categorised
    <2>4. ASSUME NEW i \in 1..issued PROVE Accounted(i)'
      <3>1. Accounted(i)
        BY <1>a
      <3>2. Queued(i) \/ i = r.id => Queued(i)'
        <4>1. CASE i = r.id
          BY <2>2, <4>1 DEF Queued
        <4>2. CASE Queued(i)
          BY <2>2, <4>2 DEF Queued
        <4>3. QED
          BY <4>1, <4>2
      <3>3. Requested(i) => Requested(i)' \/ i = r.id
        BY <2>1 DEF Requested
      <3>4. Held(i)' <=> Held(i)
        BY <2>1 DEF Held
      <3>5. QED
        BY <2>1, <3>1, <3>2, <3>3, <3>4 DEF Accounted
    <2>5. QED
      BY <2>1, <2>3, <2>4
  <1>7. ASSUME NEW r \in requests, LoseRequest(r)
        PROVE  Categorised' /\ \A i \in 1..issued' : Accounted(i)'
    <2>1. /\ UNCHANGED <<calls, rpid, res, issued, delivered>>
          /\ requests' = requests \ {r}
          /\ dropped' = dropped \cup {r.id}
      BY <1>7 DEF LoseRequest, client
    <2>2. QED
      BY <1>0, <1>a, <2>1 DEF Categorised, Accounted, Requested, Queued, Held
  <1>8. CASE send_unblock
    <2>1. /\ UNCHANGED <<calls, res, requests, issued, delivered, dropped>>
          /\ rpid' = Append(rpid, Unblock)
      BY <1>8 DEF send_unblock, client, history
    <2>2. /\ Len(rpid) \in Nat /\ Len(rpid') = Len(rpid) + 1
          /\ rpid'[Len(rpid) + 1].id = 0
          /\ \A k \in 1..Len(rpid) : rpid'[k] = rpid[k]
      BY <1>0, <2>1 DEF TypeOK, Unblock
    <2>3. Categorised'
      <3>1. ASSUME NEW k \in 1..Len(rpid'), rpid'[k].cat = "unblock"
            PROVE  rpid'[k].id = 0
        <4>1. k \in 1..Len(rpid) \/ k = Len(rpid) + 1
          BY <2>2
        <4>2. QED
          BY <1>0, <2>2, <3>1, <4>1 DEF Categorised
      <3>2. QED
        BY <1>0, <2>1, <3>1 DEF Categorised
    <2>4. \A i \in Id : Queued(i) => Queued(i)'
      BY <2>2 DEF Queued
    <2>5. QED
      BY <1>a, <2>1, <2>3, <2>4 DEF Accounted, Requested, Held
  <1>9. CASE qrecv_throws \/ Expire \/ handle_blocktime \/ UNCHANGED vars
    <2>1. UNCHANGED <<calls, rpid, res, requests, issued, delivered, dropped>>
      BY <1>9 DEF qrecv_throws, Expire, handle_blocktime, vars, client, history
    <2>2. QED
      BY <1>0, <1>a, <2>1 DEF Categorised, Accounted, Requested, Queued, Held
  <1>10. QED
    BY <1>1, <1>2, <1>3, <1>4, <1>5, <1>6, <1>7, <1>8, <1>9 DEF Next

\* As long as no reply travels in a file, every call that was made is with a
\* server, queued, in hand, buffered or answered, unless the program gave it up:
\* client.cpp loses no reply, whatever the order of replies, cancels, time-outs
\* and reused descriptors.
THEOREM NoReplyIsLost ==
  ASSUME LargeReplies = FALSE PROVE Spec => []NoReplyLost
  <1>1. LostInv => NoReplyLost
    BY DEF LostInv
  <1>2. QED
    BY InitLostInv, NextLostInv, <1>1, PTL DEF Spec

-----------------------------------------------------------------------------
(* Until the sequence wraps, a descriptor is the number of the call it was  *)
(* given to, and every message carries the descriptor of its own call.      *)

Straight ==
  /\ seq = issued
  /\ \A c \in Cd : owner[c] = IF c <= issued THEN c ELSE 0
  /\ \A r \in requests : r.cd = r.id
  /\ \A k \in 1..Len(rpid) : rpid[k].cd = rpid[k].id
  /\ res.cd = res.id
  /\ \A c \in Cd : calls[c].status = "buffered" => calls[c].msg.id = c

Pending(cd, i) == \/ \E r \in requests : r.cd = cd /\ r.id = i
                  \/ \E k \in 1..Len(rpid) : rpid[k].cd = cd /\ rpid[k].id = i /\ i # 0

\* A call that is still to be answered keeps its descriptor.
Kept == \A i \in Id : Pending(i, i) /\ i \notin cancelled /\ i \in Cd
                        => calls[i].status # "free"

KeptInv == AnswerInv /\ (issued < SeqMax => Straight /\ Kept)

LEMMA InitKeptInv == Init => KeptInv
  <1> SUFFICES ASSUME Init PROVE KeptInv
    OBVIOUS
  <1>1. AnswerInv
    BY InitAnswerInv
  <1>2. /\ seq = issued /\ res.cd = res.id /\ requests = {} /\ Len(rpid) = 0 /\ issued = 0
        /\ \A c \in Cd : calls[c].status = "free" /\ owner[c] = 0
    BY DEF Init, Free, NoMsg
  <1>3. \A c \in Cd : ~(c <= issued)
    BY <1>2, CallsAssumption DEF Cd
  <1>4. Straight
    BY <1>2, <1>3 DEF Straight
  <1>5. Kept
    BY <1>2 DEF Kept, Pending
  <1> QED
    BY <1>1, <1>4, <1>5 DEF KeptInv

\* An allocation before the sequence wraps.
LEMMA AllocateStraight ==
  ASSUME KeptInv, allocate, issued' < SeqMax,
         \E e \in {Free, None} : calls' = [calls EXCEPT ![nextseq] = e],
         \/ requests' = requests
         \/ /\ requests' = requests \cup {[cd |-> nextseq, id |-> issued + 1]}
            /\ calls' = [calls EXCEPT ![nextseq] = None],
         UNCHANGED <<rpid, res, cancelled>>
  PROVE  Straight' /\ Kept'
  <1>a. TypeShape /\ TypeOK
    BY DEF KeptInv, AnswerInv, TypeShape
  <1>0. /\ TypeShape /\ TypeOK /\ nextseq \in Cd /\ issued \in Nat
    BY <1>a, NextseqInCd, CallsAssumption DEF TypeOK
  <1>1. issued' = issued + 1 /\ seq' = nextseq /\ owner' = [owner EXCEPT ![nextseq] = issued + 1]
    BY DEF allocate
  <1>2. issued < SeqMax /\ Straight /\ Kept
    BY <1>0, <1>1, CallsAssumption DEF KeptInv
  <1>3. nextseq = issued + 1
    BY <1>0, <1>1, <1>2, CallsAssumption DEF Straight, nextseq
  <1>4. \A c \in Cd : owner'[c] = IF c <= issued' THEN c ELSE 0
    <2> SUFFICES ASSUME NEW c \in Cd PROVE owner'[c] = IF c <= issued' THEN c ELSE 0
      OBVIOUS
    <2>0. c \in Nat /\ owner[c] = IF c <= issued THEN c ELSE 0
      BY <1>2, CallsAssumption DEF Straight, Cd
    <2>1. CASE c = nextseq
      BY <1>0, <1>1, <1>3, <2>1 DEF TypeOK
    <2>2. CASE c # nextseq
      <3>1. owner'[c] = owner[c]
        BY <1>0, <1>1, <2>2 DEF TypeOK
      <3> QED
        BY <1>0, <1>1, <1>3, <2>0, <2>2, <3>1
    <2> QED
      BY <2>1, <2>2
  <1>5. \A r \in requests' : r \in requests \/ r = [cd |-> nextseq, id |-> issued + 1]
    OBVIOUS
  <1>6. \A r \in requests' : r.cd = r.id
    BY <1>2, <1>3, <1>5 DEF Straight
  <1>7. /\ \A c \in Cd : c # nextseq => calls'[c] = calls[c]
        /\ calls'[nextseq].status # "buffered"
        /\ requests' # requests => calls'[nextseq].status # "free"
    BY <1>0 DEF TypeOK, Free, None
  <1>8. Straight'
    BY <1>1, <1>2, <1>3, <1>4, <1>6, <1>7 DEF Straight
  <1>9. ASSUME NEW n \in Id, Pending(n, n)', n \notin cancelled', n \in Cd
        PROVE  calls'[n].status # "free"
    <2>1. CASE Pending(n, n)
      <3>1. n <= issued
        <4>1. Requested(n) \/ Queued(n)
          BY <2>1 DEF Pending, Requested, Queued
        <4>2. ~(n > issued)
          BY <1>0, <4>1, FutureNowhere
        <4> QED
          BY <1>0, <4>2 DEF Id
      <3>2. n # nextseq
        BY <1>0, <1>3, <3>1
      <3> QED
        BY <1>2, <1>7, <1>9, <2>1, <3>2 DEF Kept
    <2>2. CASE ~Pending(n, n)
      <3>1. requests' # requests /\ n = nextseq
        BY <1>3, <1>5, <1>9, <2>2 DEF Pending
      <3> QED
        BY <1>7, <3>1
    <2> QED
      BY <2>1, <2>2
  <1>10. Kept'
    BY <1>9 DEF Kept
  <1> QED
    BY <1>8, <1>10

\* A reply goes to the caller: its descriptor is released, and nothing that
\* is pending has it.
LEMMA DeliverStraight ==
  ASSUME KeptInv, issued < SeqMax, UNCHANGED <<seq, issued, owner, requests, rpid, cancelled>>,
         NEW m, m.id \in Id, m.cd = m.id, deliver(m), ~Requested(m.id), ~Queued(m.id),
         res'.cd = res'.id
  PROVE  Straight' /\ Kept'
  <1>0. TypeOK /\ Straight /\ Kept
    BY DEF KeptInv, AnswerInv, TypeShape
  <1>1. calls' = [calls EXCEPT ![m.id] = Free]
    BY DEF deliver
  <1>2. /\ \A c \in Cd : c # m.id => calls'[c] = calls[c]
        /\ \A c \in Cd : calls'[c].status = "buffered" => calls'[c] = calls[c]
    BY <1>0, <1>1 DEF TypeOK, Free
  <1>3. Straight'
    BY <1>0, <1>2 DEF Straight
  <1>4. ASSUME NEW n \in Id, Pending(n, n)', n \notin cancelled', n \in Cd
        PROVE  calls'[n].status # "free"
    <2>1. Pending(n, n) /\ n \notin cancelled
      BY <1>4 DEF Pending
    <2>2. Requested(n) \/ Queued(n)
      BY <2>1 DEF Pending, Requested, Queued
    <2>3. n # m.id
      BY <2>2
    <2> QED
      BY <1>0, <1>2, <1>4, <2>1, <2>3 DEF Kept
  <1>5. Kept'
    BY <1>4 DEF Kept
  <1> QED
    BY <1>3, <1>5

\* Messages come and go, the table stays.
LEMMA TableStraight ==
  ASSUME KeptInv, issued < SeqMax, UNCHANGED <<seq, issued, owner, calls, cancelled>>,
         \A n \in Id : Pending(n, n)' => Pending(n, n),
         \A r \in requests' : r.cd = r.id,
         \A k \in 1..Len(rpid') : rpid'[k].cd = rpid'[k].id,
         res'.cd = res'.id
  PROVE  Straight' /\ Kept'
  <1>0. Straight /\ Kept
    BY DEF KeptInv
  <1>1. Straight'
    BY <1>0 DEF Straight
  <1>2. Kept'
    BY <1>0 DEF Kept
  <1> QED
    BY <1>1, <1>2

LEMMA NextKeptInv == KeptInv /\ [Next]_vars => KeptInv'
  <1> SUFFICES ASSUME KeptInv, [Next]_vars PROVE KeptInv'
    OBVIOUS
  <1>0. /\ AnswerInv /\ TypeShape /\ TypeOK /\ Shape /\ Unique
        /\ issued \in Nat /\ AnswerInv'
    <2>1. AnswerInv
      BY DEF KeptInv
    <2>2. AnswerInv'
      BY <2>1, NextAnswerInv
    <2>3. TypeShape /\ TypeOK /\ Shape /\ Unique
      BY <2>1 DEF AnswerInv, TypeShape
    <2>4. issued \in Nat
      BY <2>3, CallsAssumption DEF TypeOK
    <2> QED
      BY <2>1, <2>2, <2>3, <2>4
  <1> SUFFICES ASSUME issued' < SeqMax PROVE Straight' /\ Kept'
    BY <1>0 DEF KeptInv
  <1>1. CASE tpacall_sent \/ tpcall
    BY <1>1, AllocateStraight DEF tpacall_sent, tpcall, tpacall
  <1>2. CASE tpacall_full
    BY <1>2, AllocateStraight DEF tpacall_full
  <1>3. CASE tpacall_throws
    BY <1>3, AllocateStraight DEF tpacall_throws
  <1>a. ASSUME UNCHANGED issued
        PROVE  issued < SeqMax /\ Straight /\ Kept
    BY <1>a DEF KeptInv
  <1>4. ASSUME NEW w \in Cd \cup {ANY}, tpgetrply(w)
        PROVE  Straight' /\ Kept'
    <2>0. UNCHANGED <<seq, rpid, requests, issued, owner, cancelled, res>>
      BY <1>4 DEF tpgetrply
    <2>1. issued < SeqMax /\ Straight
      BY <1>a, <2>0
    <2>2. ASSUME NEW c \in BufferedCds, deliver(calls[c].msg)
          PROVE  Straight' /\ Kept'
      <3>1. c \in Cd /\ calls[c].status = "buffered"
        BY DEF BufferedCds
      <3>2. /\ calls[c].msg.id \in Id /\ calls[c].msg.cd = c /\ calls[c].msg.id = c
        <4>1. calls[c].msg.cd = c /\ calls[c].msg.id \in 1..issued
          BY <1>0, <3>1 DEF Shape, HeldShape, Named
        <4>2. calls[c].msg.id = c
          BY <2>1, <3>1 DEF Straight
        <4> QED
          BY <1>0, <4>1, <4>2, CallsAssumption DEF TypeOK, Id
      <3>3. Held(c) /\ ~Requested(c) /\ ~Queued(c)
        <4>1. Held(c)
          BY <3>1, <3>2 DEF Held
        <4> QED
          BY <1>0, <3>2, <4>1 DEF Unique, OnePlace
      <3>4. res'.cd = res'.id
        BY <2>0, <2>1 DEF Straight
      <3> QED
        BY <2>0, <2>1, <2>2, <3>2, <3>3, <3>4, DeliverStraight
    <2>3. CASE UNCHANGED calls
      <3>1. \A n \in Id : Pending(n, n)' => Pending(n, n)
        BY <2>0 DEF Pending
      <3> QED
        BY <2>0, <2>1, <2>3, <3>1, TableStraight DEF Straight
    <2> QED
      BY <1>4, <2>2, <2>3, AnyBuffered DEF tpgetrply
  <1>5. CASE qrecv
    <2>0. /\ UNCHANGED <<seq, calls, requests, issued, owner, cancelled>>
          /\ res' = Head(rpid) /\ rpid' = Tail(rpid) /\ rpid # <<>>
      BY <1>5 DEF qrecv, history
    <2>1. issued < SeqMax /\ Straight
      BY <1>a, <2>0
    <2>2. rpid \in Seq(Message) /\ Len(rpid) \in Nat /\ Len(rpid) > 0
      BY <1>0, <2>0 DEF TypeOK
    <2>3. /\ res' = rpid[1]
          /\ Len(rpid') = Len(rpid) - 1
          /\ \A k \in 1..Len(rpid') : k + 1 \in 1..Len(rpid) /\ rpid'[k] = rpid[k + 1]
      BY <2>0, <2>2
    <2>4. \A n \in Id : Pending(n, n)' => Pending(n, n)
      BY <2>0, <2>3 DEF Pending
    <2>5. res'.cd = res'.id /\ \A k \in 1..Len(rpid') : rpid'[k].cd = rpid'[k].id
      BY <2>1, <2>2, <2>3 DEF Straight
    <2> QED
      BY <2>0, <2>1, <2>4, <2>5, TableStraight DEF Straight
  <1>6. CASE \/ qrecv_throws \/ Expire \/ handle_blocktime \/ UNCHANGED vars
    <2>0. UNCHANGED <<seq, calls, requests, issued, owner, cancelled, res, rpid>>
      BY <1>6 DEF qrecv_throws, Expire, handle_blocktime, vars, history, client
    <2>1. issued < SeqMax /\ Straight
      BY <1>a, <2>0
    <2>2. \A n \in Id : Pending(n, n)' => Pending(n, n)
      BY <2>0 DEF Pending
    <2> QED
      BY <2>0, <2>1, <2>2, TableStraight DEF Straight
  <1>7. CASE received
    <2>0. /\ UNCHANGED <<seq, rpid, requests, issued, owner, cancelled>>
          /\ res' = NoMsg /\ pc = "received"
      BY <1>7 DEF received
    <2>1. issued < SeqMax /\ Straight /\ res'.cd = res'.id
      BY <1>a, <2>0 DEF NoMsg
    <2>2. \A n \in Id : Pending(n, n)' <=> Pending(n, n)
      BY <2>0 DEF Pending
    <2>3. CASE timed_out
      BY <2>0, <2>1, <2>2, <2>3, TableStraight DEF Straight, timed_out
    <2>4. ASSUME not_mine \/ mine
          PROVE  res.id \in Id /\ res.cd = res.id /\ res.cd \in Cd
      <3>1. res # Unblock
        BY <2>4 DEF not_mine, mine, Unblock
      <3>2. res.id \in 1..issued /\ res.cd \in Cd
        BY <1>0, <2>0, <3>1 DEF Shape, ResShape, Named
      <3> QED
        BY <1>0, <2>1, <3>2, CallsAssumption DEF TypeOK, Id, Straight
    <2>5. CASE not_mine
      <3>1. calls' = [calls EXCEPT ![res.cd] = Buffered(res)]
        BY <2>5 DEF not_mine, buffer
      <3>2. /\ \A c \in Cd : c # res.cd => calls'[c] = calls[c]
            /\ calls'[res.cd].status = "buffered" /\ calls'[res.cd].msg = res
        BY <1>0, <2>4, <2>5, <3>1 DEF TypeOK, Buffered
      <3>3. Straight'
        BY <2>0, <2>1, <2>4, <2>5, <3>2 DEF Straight
      <3>4. Kept'
        BY <1>a, <2>0, <2>2, <3>2 DEF Kept
      <3> QED
        BY <3>3, <3>4
    <2>6. CASE mine
      <3>1. ~Requested(res.id) /\ ~Queued(res.id)
        BY <1>0, <2>4, <2>6 DEF Unique, OnePlace
      <3>2. deliver(res)
        BY <2>6 DEF mine
      <3> QED
        BY <2>0, <2>1, <2>4, <2>6, <3>1, <3>2, DeliverStraight
    <2> QED
      BY <1>7, <2>3, <2>5, <2>6 DEF received
  <1>8. ASSUME NEW c \in Cd, tpcancel(c)
        PROVE  Straight' /\ Kept'
    <2>0. /\ UNCHANGED <<seq, rpid, requests, issued, owner, res>>
          /\ calls' = [calls EXCEPT ![c] = Free]
          /\ cancelled' = cancelled \cup {owner[c]}
          /\ calls[c].status # "free"
      BY <1>8 DEF tpcancel
    <2>1. issued < SeqMax /\ Straight /\ Kept
      BY <1>a, <2>0
    <2>2. /\ \A d \in Cd : d # c => calls'[d] = calls[d]
          /\ calls'[c].status = "free"
      BY <1>0, <2>0 DEF TypeOK, Free
    <2>3. Straight'
      BY <2>0, <2>1, <2>2 DEF Straight
    <2>4. owner[c] = c
      <3>1. owner[c] # 0
        BY <1>0, <2>0 DEF Shape, OwnerShape
      <3> QED
        BY <2>1, <3>1 DEF Straight
    <2>5. \A n \in Id : Pending(n, n)' <=> Pending(n, n)
      BY <2>0 DEF Pending
    <2>6. Kept'
      BY <2>0, <2>1, <2>2, <2>4, <2>5 DEF Kept
    <2> QED
      BY <2>3, <2>6
  <1>9. ASSUME NEW r \in requests, reply(r)
        PROVE  Straight' /\ Kept'
    <2>0. /\ UNCHANGED <<seq, calls, issued, owner, cancelled, res>>
          /\ requests' = requests \ {r}
      BY <1>9 DEF reply, client, history
    <2>1. PICK t \in Category : rpid' = Append(rpid, [cat |-> t, cd |-> r.cd, id |-> r.id])
      BY <1>9 DEF reply, Category
    <2>2. issued < SeqMax /\ Straight
      BY <1>a, <2>0
    <2>3. rpid \in Seq(Message) /\ Len(rpid) \in Nat
      BY <1>0 DEF TypeOK
    <2> DEFINE m == [cat |-> t, cd |-> r.cd, id |-> r.id]
    <2>4. m.cd = r.cd /\ m.id = r.id /\ m \in Message
      BY SMTT(40), <1>0, CallsAssumption DEF TypeOK, Message, Category, Cd, Id
    <2> HIDE DEF m
    <2>5. /\ Len(rpid') = Len(rpid) + 1 /\ rpid'[Len(rpid) + 1] = m
          /\ \A k \in 1..Len(rpid) : rpid'[k] = rpid[k]
      BY <2>1, <2>3, <2>4 DEF m
    <2>6. \A k \in 1..Len(rpid') : k \in 1..Len(rpid) \/ k = Len(rpid) + 1
      BY <2>3, <2>5
    <2>7. \A n \in Id : Pending(n, n)' => Pending(n, n)
      BY <2>0, <2>4, <2>5, <2>6 DEF Pending
    <2>8. /\ \A q \in requests' : q.cd = q.id
          /\ \A k \in 1..Len(rpid') : rpid'[k].cd = rpid'[k].id
          /\ res'.cd = res'.id
      BY <2>0, <2>2, <2>4, <2>5, <2>6 DEF Straight
    <2> QED
      BY <2>0, <2>2, <2>7, <2>8, TableStraight
  <1>10. ASSUME NEW r \in requests, LoseRequest(r)
         PROVE  Straight' /\ Kept'
    <2>0. /\ UNCHANGED <<seq, calls, issued, owner, cancelled, res, rpid>>
          /\ requests' = requests \ {r}
      BY <1>10 DEF LoseRequest, client
    <2>1. issued < SeqMax /\ Straight
      BY <1>a, <2>0
    <2>2. \A n \in Id : Pending(n, n)' => Pending(n, n)
      BY <2>0 DEF Pending
    <2> QED
      BY <2>0, <2>1, <2>2, TableStraight DEF Straight
  <1>11. CASE send_unblock
    <2>0. /\ UNCHANGED <<seq, calls, issued, owner, cancelled, res, requests>>
          /\ rpid' = Append(rpid, Unblock)
      BY <1>11 DEF send_unblock, client, history
    <2>1. issued < SeqMax /\ Straight
      BY <1>a, <2>0
    <2>2. rpid \in Seq(Message) /\ Len(rpid) \in Nat /\ Unblock.cd = 0 /\ Unblock.id = 0
      BY <1>0 DEF TypeOK, Unblock
    <2>3. /\ Len(rpid') = Len(rpid) + 1 /\ rpid'[Len(rpid) + 1] = Unblock
          /\ \A k \in 1..Len(rpid) : rpid'[k] = rpid[k]
      BY <2>0, <2>2, EntryTypes
    <2>4. \A k \in 1..Len(rpid') : k \in 1..Len(rpid) \/ k = Len(rpid) + 1
      BY <2>2, <2>3
    <2>5. \A n \in Id : Pending(n, n)' => Pending(n, n)
      BY <2>0, <2>2, <2>3, <2>4 DEF Pending
    <2>6. \A k \in 1..Len(rpid') : rpid'[k].cd = rpid'[k].id
      BY <2>1, <2>2, <2>3, <2>4 DEF Straight
    <2> QED
      BY <2>0, <2>1, <2>5, <2>6, TableStraight DEF Straight
  <1> QED
    BY <1>1, <1>2, <1>3, <1>4, <1>5, <1>6, <1>7, <1>8, <1>9, <1>10, <1>11 DEF Next

\* The invariant behind the next two theorems: as long as SeqMax descriptors
\* have not been allocated, the descriptor is the call's own number.
THEOREM KeptInvariant == Spec => []KeptInv
  BY InitKeptInv, NextKeptInv, PTL DEF Spec

\* Until the sequence wraps, a call that is still to be answered keeps its
\* descriptor through time-outs and replies to other calls (client.cpp and
\* resp.h release it on delivery and tpcancel only).
THEOREM DescriptorIsKept == Spec => []DescriptorKept
  <1>1. ASSUME KeptInv PROVE DescriptorKept
    <2> DEFINE P == requests \cup {[cd |-> rpid[k].cd, id |-> rpid[k].id] :
                                     k \in {j \in 1..Len(rpid) : rpid[j].id # 0}}
    <2> SUFFICES ASSUME issued < SeqMax, NEW p \in P,
                        p.id \notin cancelled, owner[p.cd] = p.id
                 PROVE  calls[p.cd].status # "free"
      BY DEF DescriptorKept
    <2>0. TypeShape /\ TypeOK /\ Shape /\ Straight /\ Kept
      BY <1>1 DEF KeptInv, AnswerInv, TypeShape
    <2>1. CASE p \in requests
      <3>1. p.cd = p.id /\ p.id \in Id /\ p.cd \in Cd
        BY <2>0, <2>1 DEF Straight, TypeOK
      <3>2. Pending(p.id, p.id)
        BY <2>1, <3>1 DEF Pending
      <3> QED
        BY <2>0, <3>1, <3>2 DEF Kept
    <2>2. CASE p \notin requests
      <3>1. PICK k \in 1..Len(rpid) : /\ rpid[k].id # 0
                                      /\ p.cd = rpid[k].cd /\ p.id = rpid[k].id
        BY <2>2
      <3>2. rpid[k] # Unblock
        BY <3>1 DEF Unblock
      <3>3. Named(rpid[k])
        BY <2>0, <3>2 DEF Shape, QueueShape
      <3>4. p.cd = p.id /\ p.id \in Id /\ p.cd \in Cd
        BY <2>0, <3>1, <3>3, CallsAssumption DEF Named, Straight, TypeOK, Id
      <3>5. Pending(p.id, p.id)
        BY <3>1, <3>4 DEF Pending
      <3> QED
        BY <2>0, <3>4, <3>5 DEF Kept
    <2> QED
      BY <2>1, <2>2
  <1> QED
    BY <1>1, KeptInvariant, PTL

\* A step of tpgetrply that hands a buffered reply to its caller.
LEMMA BufferedIsRight ==
  ASSUME KeptInv, issued < SeqMax, NEW b \in BufferedCds, deliver(calls[b].msg),
         NEW i \in Id, delivered'[i] > delivered[i]
  PROVE  \E c \in Cd : /\ owner[c] = i
                       /\ calls[c].status = "buffered"
                       /\ calls'[c].status = "free"
  <1>a. AnswerInv /\ Straight
    BY DEF KeptInv
  <1>0. TypeOK /\ Shape /\ Straight
    BY <1>a DEF AnswerInv, TypeShape
  <1>1. b \in Cd /\ calls[b].status = "buffered"
    BY DEF BufferedCds
  <1>2. /\ calls[b].msg.cd = b /\ calls[b].msg.id = b /\ owner[b] # 0
    BY <1>0, <1>1 DEF Shape, HeldShape, Named, Straight
  <1>3. owner[b] = b
    BY <1>0, <1>1, <1>2 DEF Straight
  <1>4. /\ delivered' = [delivered EXCEPT ![b] = @ + 1]
        /\ calls' = [calls EXCEPT ![b] = Free]
    BY <1>2 DEF deliver
  <1>5. i = b
    BY <1>0, <1>4 DEF TypeOK
  <1>6. calls'[b].status = "free"
    BY <1>0, <1>1, <1>4 DEF TypeOK, Free
  <1> QED
    BY <1>1, <1>3, <1>5, <1>6

\* Until the sequence wraps, tpgetrply(cd) hands out the reply to the call
\* that was given cd, from the queue or from the buffer (client.cpp compares
\* the descriptor of the message, resp.h keeps the replies by descriptor).
THEOREM RepliesAreRight == Spec => RightCall
  <1> DEFINE Right == issued < SeqMax => \A i \in Id : delivered'[i] > delivered[i] =>
                        IF pc = "received"
                        THEN want # ANY => owner[want] = i
                        ELSE \E c \in Cd : /\ owner[c] = i
                                           /\ calls[c].status = "buffered"
                                           /\ calls'[c].status = "free"
  <1>1. ASSUME KeptInv, [Next]_vars PROVE [Right]_vars
    <2> SUFFICES ASSUME Next, issued < SeqMax, NEW i \in Id,
                        delivered'[i] > delivered[i]
                 PROVE  IF pc = "received" THEN want # ANY => owner[want] = i
                        ELSE \E c \in Cd : /\ owner[c] = i
                                           /\ calls[c].status = "buffered"
                                           /\ calls'[c].status = "free"
      BY <1>1
    <2>0. TypeOK /\ Shape /\ Straight
      BY <1>1 DEF KeptInv, AnswerInv, TypeShape
    <2>1. delivered' # delivered
      BY <2>0 DEF TypeOK
    <2>2. CASE \E w \in Cd \cup {ANY} : tpgetrply(w)
      <3>1. PICK w \in Cd \cup {ANY} : tpgetrply(w)
        BY <2>2
      <3>2. pc # "received"
        BY <3>1 DEF tpgetrply
      <3>3. CASE w = ANY /\ BufferedCds # {} /\ deliver(calls[any_buffered].msg)
        <4>1. any_buffered \in BufferedCds
          BY <3>3, AnyBuffered
        <4> QED
          BY <1>1, <3>2, <3>3, <4>1, BufferedIsRight
      <3>4. CASE w \in BufferedCds /\ deliver(calls[w].msg)
        BY <1>1, <3>2, <3>4, BufferedIsRight
      <3> QED
        BY <2>1, <3>1, <3>3, <3>4 DEF tpgetrply
    <2>3. CASE received
      <3>1. pc = "received" /\ mine
        BY <2>1, <2>3 DEF received, timed_out, not_mine
      <3> SUFFICES ASSUME want # ANY PROVE owner[want] = i
        BY <3>1
      <3>2. want = res.cd /\ want \in Cd /\ res.cat # "unblock"
        BY <2>0, <3>1 DEF mine, TypeOK
      <3>3. Named(res)
        BY <2>0, <3>1, <3>2 DEF Shape, ResShape, Unblock
      <3>4. res.id = want /\ owner[want] # 0
        BY <2>0, <3>2, <3>3 DEF Straight, Named
      <3>5. owner[want] = want
        BY <2>0, <3>2, <3>4 DEF Straight
      <3>6. delivered' = [delivered EXCEPT ![want] = @ + 1]
        BY <3>1, <3>4 DEF mine, deliver
      <3>7. i = want
        BY <2>0, <3>6 DEF TypeOK
      <3> QED
        BY <3>5, <3>7
    <2> QED
      BY <2>1, <2>2, <2>3
      DEF Next, tpacall_sent, tpacall_full, tpacall_throws, tpcall, qrecv,
          qrecv_throws, tpcancel, reply, LoseRequest, Expire, handle_blocktime,
          send_unblock, history
  <1> QED
    BY <1>1, KeptInvariant, PTL DEF Spec, RightCall
=============================================================================
