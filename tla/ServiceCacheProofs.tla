------------------------- MODULE ServiceCacheProofs -------------------------
(***************************************************************************)
(* Proofs about module ServiceCache, for any number of servers, clients    *)
(* and services and any size of the advertisement table.                   *)
(***************************************************************************)
EXTENDS ServiceCache, FiniteSetTheorems, WellFoundedInduction, TLAPS

-----------------------------------------------------------------------------
(* The table and the servers *)

TableType ==
  /\ adv \in [Slot -> Slots]
  /\ len \in 0..MaxAdv
  /\ known \subseteq Services
  /\ revision \in [Services -> Nat]
  /\ lock \in Servers \cup Clients \cup {bad}
  /\ ads \in [Servers -> SUBSET Services]
  /\ spc \in [Servers -> {"idle", "server", "queue", "service", "read", "write"}]
  /\ sop \in [Servers -> [service : Services \cup {bad}, slot : Slot]]
  /\ srev \in [Servers -> Nat]
  /\ ops \in 0..MaxOps

\* Only advertise() takes data_lock; what runs without it is a withdrawal.
OpInv == \A v \in Servers :
  /\ lock = v => spc[v] \in {"read", "write"}
  /\ spc[v] = "idle" <=> sop[v].service = bad
  /\ sop[v].service \notin ads[v]
  /\ spc[v] # "idle" /\ lock # v => sop[v].service \in Withdrawn

\* The slot a server works on.
HoldInv == \A v \in Servers :
  /\ lock = v \/ spc[v] = "server" =>
       sop[v].slot \in 1..len /\ adv[sop[v].slot] = MyAd(v, sop[v].service)
  /\ spc[v] \in {"queue", "service"} =>
       /\ sop[v].slot \in 1..len
       /\ adv[sop[v].slot].service = sop[v].service
       /\ adv[sop[v].slot].server = bad

\* A slot with a server is that server's, for a service it advertises or has
\* just begun or not yet begun to change; a slot without one is being cleared.
SlotInv == \A i \in 1..len :
  /\ adv[i].server # bad =>
       /\ adv[i].service \in Services
       /\ adv[i] = MyAd(adv[i].server, adv[i].service)
       /\ \/ adv[i].service \in ads[adv[i].server]
          \/ /\ lock = adv[i].server \/ spc[adv[i].server] = "server"
             /\ sop[adv[i].server].service = adv[i].service
  /\ adv[i].server = bad => adv[i].service \in Withdrawn \cup {bad}

\* No service of a server has two slots.
OnceInv == \A i, j \in 1..len :
  /\ adv[i].server # bad
  /\ adv[i].server = adv[j].server
  /\ adv[i].service = adv[j].service
  => i = j

\* No two servers clear the same slot.
ApartInv == \A v, w \in Servers :
  /\ spc[v] \in {"queue", "service"}
  /\ spc[w] \in {"queue", "service"}
  /\ sop[v].slot = sop[w].slot
  => v = w

\* Every service a server advertises has a slot.
FoundInv == \A v \in Servers : \A s \in ads[v] :
              \E i \in 1..len : adv[i] = MyAd(v, s)

\* Of a service that is not withdrawn only the holder of data_lock changes
\* the revision.
SrevInv == \A v \in Servers :
  spc[v] = "write" /\ sop[v].service \notin Withdrawn => srev[v] = revision[sop[v].service]

TableInv == /\ TableType /\ OpInv /\ HoldInv /\ SlotInv /\ OnceInv /\ ApartInv
            /\ FoundInv /\ SrevInv

LEMMA SmallestExists ==
  ASSUME NEW S \in SUBSET Nat, S # {}
  PROVE  First(S) \in S
  <1> DEFINE R == OpToRel(<, Nat)
  <1>1. PICK c \in S : \A d \in S : ~ (<<d, c>> \in R)
    <2>1. IsWellFoundedOn(R, Nat)
      BY NatLessThanWellFounded
    <2>2. S \subseteq Nat /\ S # {}
      OBVIOUS
    <2> HIDE DEF R
    <2>3. QED
      BY <2>1, <2>2, WFMin
  <1>2. \A d \in S : ~ (d < c)
    BY <1>1 DEF OpToRel
  <1>3. \A d \in S : c <= d
    BY <1>2
  <1>4. QED
    BY <1>3 DEF First

\* The slot advertise() fills.
LEMMA FreeSlotIs ==
  ASSUME TableType
  PROVE  \/ free_slot \in 1..len /\ adv[free_slot] = FreeSlot
         \/ free_slot = len + 1
  <1>1. CASE Matching(FreeSlot) # {}
    <2>1. Matching(FreeSlot) \subseteq Nat
      BY DEF Matching, TableType
    <2>2. First(Matching(FreeSlot)) \in Matching(FreeSlot)
      BY <1>1, <2>1, SmallestExists
    <2> QED
      BY <1>1, <2>2 DEF free_slot, Matching
  <1>2. CASE Matching(FreeSlot) = {}
    BY <1>2 DEF free_slot
  <1> QED
    BY <1>1, <1>2

LEMMA MyAdFields ==
  \A v, s : /\ MyAd(v, s).service = s /\ MyAd(v, s).server = v
            /\ MyAd(v, s).queue = QueueOf[v]
  BY DEF MyAd

LEMMA UsedSlots ==
  ASSUME TableType, NEW i \in 1..len
  PROVE  /\ i \in Slot /\ adv[i] \in Slots
         /\ adv[i].service \in Services \cup {bad}
         /\ adv[i].queue \in Queues \cup {bad}
         /\ adv[i].server \in Servers \cup {bad}
  <1>1. i \in Slot
    BY CacheAssumption DEF TableType, Slot
  <1>2. adv[i] \in Slots
    BY <1>1 DEF TableType
  <1> QED
    BY <1>1, <1>2 DEF Slots

LEMMA InitTableInv == Init => TableInv
  <1> SUFFICES ASSUME Init PROVE TableInv
    OBVIOUS
  <1>1. TableType
    BY CacheAssumption DEF Init, TableType, Slot, Slots, FreeSlot
  <1>2. OpInv /\ HoldInv
    BY CacheAssumption DEF Init, OpInv, HoldInv
  <1>3. SlotInv /\ OnceInv
    BY DEF Init, SlotInv, OnceInv
  <1>4. ApartInv /\ FoundInv /\ SrevInv
    BY DEF Init, ApartInv, FoundInv, SrevInv
  <1> QED
    BY <1>1, <1>2, <1>3, <1>4 DEF TableInv

\* What clients do leaves the table to the servers.
LEMMA ClientKeepsTable ==
  ASSUME TableInv, UNCHANGED <<table, servers, ops>>,
         lock' \in Servers \cup Clients \cup {bad},
         \A v \in Servers : lock' = v <=> lock = v
  PROVE  TableInv'
  <1>0. UNCHANGED <<adv, len, known, revision, ads, spc, sop, srev, ops>>
    BY DEF table, servers
  <1>1. TableType'
    BY <1>0 DEF TableInv, TableType
  <1>2. OpInv' /\ HoldInv'
    BY <1>0 DEF TableInv, OpInv, HoldInv, MyAd
  <1>3. SlotInv'
    <2> SUFFICES ASSUME NEW i \in 1..len
                 PROVE  /\ adv[i].server # bad =>
                             /\ adv[i].service \in Services
                             /\ adv[i] = MyAd(adv[i].server, adv[i].service)
                             /\ \/ adv[i].service \in ads[adv[i].server]
                                \/ /\ lock' = adv[i].server \/ spc[adv[i].server] = "server"
                                   /\ sop[adv[i].server].service = adv[i].service
                        /\ adv[i].server = bad => adv[i].service \in Withdrawn \cup {bad}
      BY <1>0 DEF SlotInv, MyAd
    <2>1. adv[i].server \in Servers \cup {bad}
      BY UsedSlots DEF TableInv
    <2> QED
      BY <2>1 DEF TableInv, SlotInv
  <1>4. OnceInv' /\ ApartInv'
    BY <1>0 DEF TableInv, OnceInv, ApartInv
  <1>5. FoundInv' /\ SrevInv'
    BY <1>0 DEF TableInv, FoundInv, SrevInv, MyAd
  <1> QED
    BY <1>1, <1>2, <1>3, <1>4, <1>5 DEF TableInv

LEMMA AdvertiseKeepsTable ==
  ASSUME TableInv, NEW v \in Servers, NEW s \in Services, tpadvertise(v, s)
  PROVE  TableInv'
  <1> DEFINE k == free_slot
  <1>0. TableType /\ v # bad /\ s # bad
    BY CacheAssumption DEF TableInv
  <1>1. /\ k \in Slot
        /\ \/ k \in 1..len /\ adv[k] = FreeSlot
           \/ k = len + 1
    BY <1>0, FreeSlotIs DEF tpadvertise
  <1>2. /\ spc[v] = "idle" /\ s \notin ads[v] /\ lock = bad /\ lock' = v
        /\ Matching(MyAd(v, s)) = {}
        /\ known' = known \cup {s}
        /\ adv' = [adv EXCEPT ![k] = MyAd(v, s)]
        /\ len' = IF k > len THEN k ELSE len
        /\ spc' = [spc EXCEPT ![v] = "read"]
        /\ sop' = [sop EXCEPT ![v] = [service |-> s, slot |-> k]]
        /\ ops < MaxOps /\ ops' = ops + 1
        /\ UNCHANGED <<revision, ads, srev>>
    BY DEF tpadvertise
  <1> HIDE DEF k
  <1>3. /\ len \in Nat /\ k \in Nat /\ len' \in 0..MaxAdv /\ k \in 1..len'
        /\ \A i \in 1..len' : i \in 1..len \/ i = k
        /\ \A i \in 1..len : i \in 1..len'
    BY <1>0, <1>1, <1>2, CacheAssumption DEF TableType, Slot
  <1>4. /\ MyAd(v, s) \in Slots
        /\ MyAd(v, s).service = s /\ MyAd(v, s).server = v
        /\ MyAd(v, s).queue = QueueOf[v]
    BY CacheAssumption DEF MyAd, Slots
  <1>5. \A i \in Slot : adv'[i] = IF i = k THEN MyAd(v, s) ELSE adv[i]
    BY <1>0, <1>1, <1>2 DEF TableType
  <1>6. \A i \in 1..len : i # k => adv'[i] = adv[i]
    BY <1>0, <1>5, UsedSlots
  <1>7. adv'[k] = MyAd(v, s)
    BY <1>1, <1>5
  <1>8. \A w \in Servers : w # v => spc'[w] = spc[w] /\ sop'[w] = sop[w]
    BY <1>0, <1>2 DEF TableType
  <1>9. spc'[v] = "read" /\ sop'[v].service = s /\ sop'[v].slot = k
    BY <1>0, <1>2 DEF TableType
  <1>10. k \in 1..len => adv[k].service = bad /\ adv[k].server = bad
    BY <1>0, <1>1, <1>3 DEF FreeSlot, TableType
  <1>11. TableType'
    <2>1. adv' \in [Slot -> Slots]
      BY <1>0, <1>2, <1>4 DEF TableType
    <2>2. sop' \in [Servers -> [service : Services \cup {bad}, slot : Slot]]
      BY <1>0, <1>1, <1>2 DEF TableType
    <2>3. spc' \in [Servers -> {"idle", "server", "queue", "service", "read", "write"}]
      BY <1>0, <1>2 DEF TableType
    <2>4. ops' \in 0..MaxOps
      BY <1>0, <1>2, CacheAssumption DEF TableType
    <2> QED
      BY <1>0, <1>2, <1>3, <2>1, <2>2, <2>3, <2>4 DEF TableType
  <1>12. OpInv'
    <2> SUFFICES ASSUME NEW w \in Servers
                 PROVE  /\ lock' = w => spc'[w] \in {"read", "write"}
                        /\ spc'[w] = "idle" <=> sop'[w].service = bad
                        /\ sop'[w].service \notin ads'[w]
                        /\ spc'[w] # "idle" /\ lock' # w => sop'[w].service \in Withdrawn
      BY DEF OpInv
    <2>1. CASE w = v
      BY <1>0, <1>2, <1>9, <2>1
    <2>2. CASE w # v
      BY <1>0, <1>2, <1>8, <2>2, CacheAssumption DEF TableInv, OpInv
    <2> QED
      BY <2>1, <2>2
  <1>13. HoldInv'
    <2> SUFFICES ASSUME NEW w \in Servers
                 PROVE  /\ lock' = w \/ spc'[w] = "server" =>
                             /\ sop'[w].slot \in 1..len'
                             /\ adv'[sop'[w].slot] = MyAd(w, sop'[w].service)
                        /\ spc'[w] \in {"queue", "service"} =>
                             /\ sop'[w].slot \in 1..len'
                             /\ adv'[sop'[w].slot].service = sop'[w].service
                             /\ adv'[sop'[w].slot].server = bad
      BY DEF HoldInv, MyAd
    <2>1. CASE w = v
      BY <1>2, <1>3, <1>7, <1>9, <2>1
    <2>2. CASE w # v
      <3>1. lock' # w
        BY <1>2, <2>2
      <3>2. ASSUME spc[w] \in {"server", "queue", "service"}
            PROVE  sop[w].slot \in 1..len /\ sop[w].slot # k
        <4>1. sop[w].service # bad
          BY <3>2 DEF TableInv, OpInv
        <4>2. sop[w].slot \in 1..len /\ adv[sop[w].slot].service = sop[w].service
          <5>1. \/ /\ sop[w].slot \in 1..len
                   /\ adv[sop[w].slot] = MyAd(w, sop[w].service)
                \/ /\ sop[w].slot \in 1..len
                   /\ adv[sop[w].slot].service = sop[w].service
            BY <3>2 DEF TableInv, HoldInv
          <5> QED
            BY <5>1, MyAdFields
        <4> QED
          BY <1>10, <4>1, <4>2
      <3> QED
        BY <1>3, <1>6, <1>8, <2>2, <3>1, <3>2 DEF TableInv, HoldInv
    <2> QED
      BY <2>1, <2>2
  <1>14. SlotInv'
    <2> SUFFICES ASSUME NEW i \in 1..len'
                 PROVE  /\ adv'[i].server # bad =>
                             /\ adv'[i].service \in Services
                             /\ adv'[i] = MyAd(adv'[i].server, adv'[i].service)
                             /\ \/ adv'[i].service \in ads'[adv'[i].server]
                                \/ /\ lock' = adv'[i].server \/ spc'[adv'[i].server] = "server"
                                   /\ sop'[adv'[i].server].service = adv'[i].service
                        /\ adv'[i].server = bad => adv'[i].service \in Withdrawn \cup {bad}
      BY DEF SlotInv, MyAd
    <2>1. CASE i = k
      BY <1>0, <1>2, <1>4, <1>7, <1>9, <2>1
    <2>2. CASE i # k
      <3>1. i \in 1..len /\ adv'[i] = adv[i]
        BY <1>3, <1>6, <2>2
      <3>2. CASE adv[i].server = bad
        BY <3>1, <3>2 DEF TableInv, SlotInv
      <3>3. CASE adv[i].server # bad
        <4>1. adv[i].server \in Servers
          BY <1>0, <3>1, <3>3, UsedSlots
        <4>2. lock # adv[i].server /\ ads' = ads
          BY <1>2, <3>3
        <4>3. /\ adv[i].service \in Services
              /\ adv[i] = MyAd(adv[i].server, adv[i].service)
              /\ \/ adv[i].service \in ads[adv[i].server]
                 \/ /\ spc[adv[i].server] = "server"
                    /\ sop[adv[i].server].service = adv[i].service
          BY <3>1, <3>3, <4>2 DEF TableInv, SlotInv
        <4>4. spc[adv[i].server] = "server" => adv[i].server # v
          BY <1>2
        <4> QED
          BY <1>8, <3>1, <3>3, <4>1, <4>2, <4>3, <4>4
      <3> QED
        BY <3>2, <3>3
    <2> QED
      BY <2>1, <2>2
  <1>15. OnceInv'
    <2>1. \A i \in 1..len : ~(adv[i].server = v /\ adv[i].service = s)
      <3> SUFFICES ASSUME NEW i \in 1..len, adv[i].server = v, adv[i].service = s
                   PROVE  FALSE
        OBVIOUS
      <3>1. adv[i] = MyAd(v, s)
        BY <1>0 DEF TableInv, SlotInv
      <3> QED
        BY <1>2, <3>1 DEF Matching
    <2> QED
      BY <1>3, <1>4, <1>6, <1>7, <2>1 DEF TableInv, OnceInv
  <1>16. ApartInv'
    BY <1>8, <1>9 DEF TableInv, ApartInv
  <1>17. FoundInv'
    <2> SUFFICES ASSUME NEW w \in Servers, NEW x \in ads[w]
                 PROVE  \E i \in 1..len' : adv'[i] = MyAd(w, x)
      BY <1>2 DEF FoundInv, MyAd
    <2>1. PICK i \in 1..len : adv[i] = MyAd(w, x)
      BY DEF TableInv, FoundInv
    <2>2. adv[i].server # bad
      BY <2>1, CacheAssumption DEF MyAd
    <2>3. i # k
      BY <1>10, <2>2
    <2> QED
      BY <1>3, <1>6, <2>1, <2>3
  <1>18. SrevInv'
    BY <1>2, <1>8, <1>9 DEF TableInv, SrevInv
  <1> QED
    BY <1>11, <1>12, <1>13, <1>14, <1>15, <1>16, <1>17, <1>18 DEF TableInv

LEMMA UnadvertiseKeepsTable ==
  ASSUME TableInv, NEW v \in Servers, NEW s \in Services, tpunadvertise(v, s)
  PROVE  TableInv'
  <1> DEFINE k == First(Matching(MyAd(v, s)))
  <1>0. TableType /\ v # bad /\ s # bad
    BY CacheAssumption DEF TableInv
  <1>1. /\ s \in Withdrawn /\ spc[v] = "idle" /\ s \in ads[v]
        /\ ads' = [ads EXCEPT ![v] = @ \ {s}]
        /\ sop' = [sop EXCEPT ![v] = [service |-> s, slot |-> k]]
        /\ spc' = [spc EXCEPT ![v] = "server"]
        /\ ops < MaxOps /\ ops' = ops + 1
        /\ UNCHANGED <<adv, len, known, revision, lock, srev>>
    BY DEF tpunadvertise, table
  <1>2. k \in 1..len /\ adv[k] = MyAd(v, s)
    <2>a. PICK i \in 1..len : adv[i] = MyAd(v, s)
      BY <1>1 DEF TableInv, FoundInv
    <2>b. Matching(MyAd(v, s)) # {}
      BY <2>a DEF Matching
    <2>c. Matching(MyAd(v, s)) \subseteq Nat
      BY <1>0 DEF Matching, TableType
    <2>1. Matching(MyAd(v, s)) \subseteq Nat /\ Matching(MyAd(v, s)) # {}
      BY <2>b, <2>c
    <2>2. k \in Matching(MyAd(v, s))
      BY <2>1, SmallestExists
    <2> QED
      BY <2>2 DEF Matching
  <1> HIDE DEF k
  <1>3. k \in Slot
    BY <1>0, <1>2, UsedSlots
  <1>4. /\ \A w \in Servers : w # v => /\ spc'[w] = spc[w] /\ sop'[w] = sop[w]
                                       /\ ads'[w] = ads[w]
        /\ spc'[v] = "server" /\ sop'[v].service = s /\ sop'[v].slot = k
        /\ ads'[v] = ads[v] \ {s}
    BY <1>0, <1>1 DEF TableType
  <1>5. lock # v
    BY <1>1 DEF TableInv, OpInv
  <1>6. TableType'
    <2>1. sop' \in [Servers -> [service : Services \cup {bad}, slot : Slot]]
      BY <1>0, <1>1, <1>3 DEF TableType
    <2>2. spc' \in [Servers -> {"idle", "server", "queue", "service", "read", "write"}]
      BY <1>0, <1>1 DEF TableType
    <2>3. ops' \in 0..MaxOps
      BY <1>0, <1>1, CacheAssumption DEF TableType
    <2>4. ads' \in [Servers -> SUBSET Services]
      BY <1>0, <1>1 DEF TableType
    <2> QED
      BY <1>0, <1>1, <2>1, <2>2, <2>3, <2>4 DEF TableType
  <1>7. OpInv'
    <2> SUFFICES ASSUME NEW w \in Servers
                 PROVE  /\ lock' = w => spc'[w] \in {"read", "write"}
                        /\ spc'[w] = "idle" <=> sop'[w].service = bad
                        /\ sop'[w].service \notin ads'[w]
                        /\ spc'[w] # "idle" /\ lock' # w => sop'[w].service \in Withdrawn
      BY DEF OpInv
    <2>1. CASE w = v
      BY <1>0, <1>1, <1>4, <1>5, <2>1
    <2>2. CASE w # v
      BY <1>1, <1>4, <2>2 DEF TableInv, OpInv
    <2> QED
      BY <2>1, <2>2
  <1>8. HoldInv'
    BY <1>1, <1>2, <1>4, <1>5 DEF TableInv, HoldInv, MyAd
  <1>9. SlotInv'
    <2> SUFFICES ASSUME NEW i \in 1..len
                 PROVE  /\ adv[i].server # bad =>
                             /\ adv[i].service \in Services
                             /\ adv[i] = MyAd(adv[i].server, adv[i].service)
                             /\ \/ adv[i].service \in ads'[adv[i].server]
                                \/ /\ lock = adv[i].server \/ spc'[adv[i].server] = "server"
                                   /\ sop'[adv[i].server].service = adv[i].service
                        /\ adv[i].server = bad => adv[i].service \in Withdrawn \cup {bad}
      BY <1>1 DEF SlotInv, MyAd
    <2>1. CASE adv[i].server = v
      <3>1. adv[i].service \in ads[v]
        BY <1>0, <1>1, <1>5, <2>1 DEF TableInv, SlotInv
      <3> QED
        BY <1>0, <1>4, <2>1, <3>1 DEF TableInv, SlotInv
    <2>2. CASE adv[i].server # v /\ adv[i].server # bad
      <3>1. adv[i].server \in Servers
        BY <1>0, <2>2, UsedSlots
      <3> QED
        BY <1>4, <2>2, <3>1 DEF TableInv, SlotInv
    <2>3. CASE adv[i].server = bad
      BY <2>3 DEF TableInv, SlotInv
    <2> QED
      BY <2>1, <2>2, <2>3
  <1>10. OnceInv' /\ ApartInv'
    BY <1>1, <1>4 DEF TableInv, OnceInv, ApartInv
  <1>11. FoundInv'
    BY <1>1, <1>4 DEF TableInv, FoundInv, MyAd
  <1>12. SrevInv'
    BY <1>1, <1>4 DEF TableInv, SrevInv
  <1> QED
    BY <1>6, <1>7, <1>8, <1>9, <1>10, <1>11, <1>12 DEF TableInv

\* One field of a slot is cleared.
LEMMA ClearKeepsTable ==
  ASSUME TableInv, NEW v \in Servers, unadvertise(v)
  PROVE  TableInv'
  <1> DEFINE k == sop[v].slot
             s == sop[v].service
  <1>0. TableType /\ v # bad
    BY CacheAssumption DEF TableInv
  <1>1. /\ spc[v] \in {"server", "queue", "service"}
        /\ UNCHANGED <<len, known, revision, lock, ads, sop, srev, ops>>
    BY DEF unadvertise
  <1>2. /\ k \in 1..len /\ k \in Slot /\ adv[k] \in Slots /\ adv[k].service = s
        /\ spc[v] = "server" => adv[k].server = v
        /\ spc[v] # "server" => adv[k].server = bad
    <2>1. k \in 1..len
      BY <1>1 DEF TableInv, HoldInv
    <2>2. /\ spc[v] = "server" => adv[k] = MyAd(v, s)
          /\ spc[v] # "server" => adv[k].service = s /\ adv[k].server = bad
      BY <1>1 DEF TableInv, HoldInv
    <2> QED
      BY <1>0, <2>1, <2>2, UsedSlots, MyAdFields
  <1>3. /\ lock # v /\ s \in Withdrawn /\ s \in Services /\ s # bad /\ s \notin ads[v]
    BY <1>1, CacheAssumption DEF TableInv, OpInv
  <1>4. \E x \in Slots :
          /\ adv' = [adv EXCEPT ![k] = x]
          /\ x.server = bad
          /\ \/ spc[v] = "server" /\ spc' = [spc EXCEPT ![v] = "queue"] /\ x.service = s
             \/ spc[v] = "queue" /\ spc' = [spc EXCEPT ![v] = "service"] /\ x.service = s
             \/ spc[v] = "service" /\ spc' = [spc EXCEPT ![v] = "read"] /\ x.service = bad
    <2>0. adv \in [Slot -> Slots]
      BY <1>0 DEF TableType
    <2>1. CASE /\ spc[v] = "server" /\ spc' = [spc EXCEPT ![v] = "queue"]
               /\ adv' = [adv EXCEPT ![k].server = bad]
      <3> DEFINE x == [adv[k] EXCEPT !.server = bad]
      <3>1. x \in Slots /\ x.server = bad /\ x.service = s
        BY <1>2 DEF Slots
      <3>2. adv' = [adv EXCEPT ![k] = x]
        BY <1>2, <2>0, <2>1
      <3> HIDE DEF x
      <3> QED
        BY <2>1, <3>1, <3>2
    <2>2. CASE /\ spc[v] = "queue" /\ spc' = [spc EXCEPT ![v] = "service"]
               /\ adv' = [adv EXCEPT ![k].queue = bad]
      <3> DEFINE x == [adv[k] EXCEPT !.queue = bad]
      <3>1. x \in Slots /\ x.server = bad /\ x.service = s
        BY <1>2, <2>2 DEF Slots
      <3>2. adv' = [adv EXCEPT ![k] = x]
        BY <1>2, <2>0, <2>2
      <3> HIDE DEF x
      <3> QED
        BY <2>2, <3>1, <3>2
    <2>3. CASE /\ spc[v] = "service" /\ spc' = [spc EXCEPT ![v] = "read"]
               /\ adv' = [adv EXCEPT ![k].service = bad]
      <3> DEFINE x == [adv[k] EXCEPT !.service = bad]
      <3>1. x \in Slots /\ x.server = bad /\ x.service = bad
        BY <1>2, <2>3 DEF Slots
      <3>2. adv' = [adv EXCEPT ![k] = x]
        BY <1>2, <2>0, <2>3
      <3> HIDE DEF x
      <3> QED
        BY <2>3, <3>1, <3>2
    <2> QED
      BY <2>1, <2>2, <2>3 DEF unadvertise
  <1>5. PICK x \in Slots :
          /\ adv' = [adv EXCEPT ![k] = x]
          /\ x.server = bad
          /\ \/ spc[v] = "server" /\ spc' = [spc EXCEPT ![v] = "queue"] /\ x.service = s
             \/ spc[v] = "queue" /\ spc' = [spc EXCEPT ![v] = "service"] /\ x.service = s
             \/ spc[v] = "service" /\ spc' = [spc EXCEPT ![v] = "read"] /\ x.service = bad
    BY <1>4
  <1>6. /\ adv' \in [Slot -> Slots] /\ adv'[k] = x
        /\ \A i \in 1..len : i # k => adv'[i] = adv[i]
    <2>1. adv' \in [Slot -> Slots] /\ \A i \in Slot : adv'[i] = IF i = k THEN x ELSE adv[i]
      BY <1>0, <1>5 DEF TableType
    <2>2. \A i \in 1..len : i \in Slot
      BY <1>0, UsedSlots
    <2> QED
      BY <1>2, <2>1, <2>2
  <1>7. /\ \A w \in Servers : w # v => spc'[w] = spc[w]
        /\ spc'[v] \in {"queue", "service", "read"}
        /\ spc'[v] # "read" => x.service = s
        /\ x.service \in {s, bad}
        /\ spc' \in [Servers -> {"idle", "server", "queue", "service", "read", "write"}]
    BY <1>0, <1>5 DEF TableType
  <1>8. TableType'
    BY <1>0, <1>1, <1>6, <1>7 DEF TableType
  <1>9. OpInv'
    <2> SUFFICES ASSUME NEW w \in Servers
                 PROVE  /\ lock = w => spc'[w] \in {"read", "write"}
                        /\ spc'[w] = "idle" <=> sop[w].service = bad
                        /\ sop[w].service \notin ads[w]
                        /\ spc'[w] # "idle" /\ lock # w => sop[w].service \in Withdrawn
      BY <1>1 DEF OpInv
    <2>1. CASE w = v
      BY <1>3, <1>7, <2>1
    <2>2. CASE w # v
      BY <1>7, <2>2 DEF TableInv, OpInv
    <2> QED
      BY <2>1, <2>2
  <1>10. \A w \in Servers : w # v /\ (lock = w \/ spc[w] \in {"server", "queue", "service"})
                              => sop[w].slot \in 1..len /\ sop[w].slot # k
    <2> SUFFICES ASSUME NEW w \in Servers, w # v,
                        lock = w \/ spc[w] \in {"server", "queue", "service"}
                 PROVE  sop[w].slot \in 1..len /\ sop[w].slot # k
      OBVIOUS
    <2>0. w # bad /\ sop[w].slot \in 1..len
      BY CacheAssumption DEF TableInv, HoldInv
    <2>1. CASE lock = w \/ spc[w] = "server"
      <3>1. adv[sop[w].slot].server = w
        BY <2>1, MyAdFields DEF TableInv, HoldInv
      <3> QED
        BY <1>2, <2>0, <3>1
    <2>2. CASE spc[w] \in {"queue", "service"}
      <3>1. adv[sop[w].slot].server = bad
        BY <2>2 DEF TableInv, HoldInv
      <3>2. CASE spc[v] = "server"
        BY <1>0, <1>2, <2>0, <3>1, <3>2
      <3>3. CASE spc[v] # "server"
        BY <1>1, <2>0, <2>2, <3>3 DEF TableInv, ApartInv
      <3> QED
        BY <3>2, <3>3
    <2> QED
      BY <2>1, <2>2
  <1>11. HoldInv'
    <2> SUFFICES ASSUME NEW w \in Servers
                 PROVE  /\ lock = w \/ spc'[w] = "server" =>
                             /\ sop[w].slot \in 1..len
                             /\ adv'[sop[w].slot] = MyAd(w, sop[w].service)
                        /\ spc'[w] \in {"queue", "service"} =>
                             /\ sop[w].slot \in 1..len
                             /\ adv'[sop[w].slot].service = sop[w].service
                             /\ adv'[sop[w].slot].server = bad
      BY <1>1 DEF HoldInv, MyAd
    <2>1. CASE w = v
      BY <1>2, <1>3, <1>5, <1>6, <1>7, <2>1
    <2>2. CASE w # v
      BY <1>6, <1>7, <1>10, <2>2 DEF TableInv, HoldInv
    <2> QED
      BY <2>1, <2>2
  <1>12. ASSUME NEW i \in 1..len, i # k, adv[i].server = v
         PROVE  adv[i].service # s
    <2>1. CASE spc[v] = "server"
      BY <1>0, <1>2, <1>12, <2>1 DEF TableInv, OnceInv
    <2>2. CASE spc[v] # "server"
      BY <1>0, <1>3, <1>12, <2>2 DEF TableInv, SlotInv
    <2> QED
      BY <2>1, <2>2
  <1>13. SlotInv'
    <2> SUFFICES ASSUME NEW i \in 1..len
                 PROVE  /\ adv'[i].server # bad =>
                             /\ adv'[i].service \in Services
                             /\ adv'[i] = MyAd(adv'[i].server, adv'[i].service)
                             /\ \/ adv'[i].service \in ads[adv'[i].server]
                                \/ /\ lock = adv'[i].server \/ spc'[adv'[i].server] = "server"
                                   /\ sop[adv'[i].server].service = adv'[i].service
                        /\ adv'[i].server = bad => adv'[i].service \in Withdrawn \cup {bad}
      BY <1>1 DEF SlotInv, MyAd
    <2>1. CASE i = k
      BY <1>3, <1>5, <1>6, <1>7, <2>1
    <2>2. CASE i # k /\ adv[i].server = v
      BY <1>0, <1>6, <1>12, <2>2 DEF TableInv, SlotInv
    <2>3. CASE i # k /\ adv[i].server # v /\ adv[i].server # bad
      <3>1. adv[i].server \in Servers
        BY <1>0, <2>3, UsedSlots
      <3> QED
        BY <1>6, <1>7, <2>3, <3>1 DEF TableInv, SlotInv
    <2>4. CASE i # k /\ adv[i].server = bad
      BY <1>6, <2>4 DEF TableInv, SlotInv
    <2> QED
      BY <2>1, <2>2, <2>3, <2>4
  <1>14. OnceInv'
    BY <1>1, <1>5, <1>6 DEF TableInv, OnceInv
  <1>15. ApartInv'
    <2> SUFFICES ASSUME NEW u \in Servers, NEW w \in Servers,
                        spc'[u] \in {"queue", "service"}, spc'[w] \in {"queue", "service"},
                        sop[u].slot = sop[w].slot
                 PROVE  u = w
      BY <1>1 DEF ApartInv
    <2>1. CASE u = v \/ w = v
      BY <1>7, <1>10, <2>1
    <2>2. CASE u # v /\ w # v
      BY <1>7, <2>2 DEF TableInv, ApartInv
    <2> QED
      BY <2>1, <2>2
  <1>16. FoundInv'
    <2> SUFFICES ASSUME NEW w \in Servers, NEW y \in ads[w]
                 PROVE  \E i \in 1..len : adv'[i] = MyAd(w, y)
      BY <1>1 DEF FoundInv, MyAd
    <2>1. PICK i \in 1..len : adv[i] = MyAd(w, y)
      BY DEF TableInv, FoundInv
    <2>2. adv[i].server = w /\ adv[i].service = y /\ w # bad
      BY <2>1, MyAdFields, CacheAssumption
    <2>3. i # k
      BY <1>2, <1>3, <2>2
    <2> QED
      BY <1>6, <2>1, <2>3
  <1>17. SrevInv'
    BY <1>1, <1>7 DEF TableInv, SrevInv
  <1> QED
    BY <1>8, <1>9, <1>11, <1>13, <1>14, <1>15, <1>16, <1>17 DEF TableInv

LEMMA ReadKeepsTable ==
  ASSUME TableInv, NEW v \in Servers, modified_read(v)
  PROVE  TableInv'
  <1>0. TableType
    BY DEF TableInv
  <1>1. /\ spc[v] = "read"
        /\ srev' = [srev EXCEPT ![v] = revision[sop[v].service]]
        /\ spc' = [spc EXCEPT ![v] = "write"]
        /\ UNCHANGED <<adv, len, known, revision, lock, ads, sop, ops>>
    BY DEF modified_read, table
  <1>2. sop[v].service \in Services
    <2>1. sop[v].service \in Services \cup {bad} /\ sop[v].service # bad
      BY <1>0, <1>1 DEF TableInv, TableType, OpInv
    <2> QED
      BY <2>1
  <1>3. /\ \A w \in Servers : w # v => spc'[w] = spc[w] /\ srev'[w] = srev[w]
        /\ spc'[v] = "write" /\ srev'[v] = revision[sop[v].service]
    BY <1>0, <1>1 DEF TableType
  <1>4. TableType'
    BY <1>0, <1>1, <1>2 DEF TableType
  <1>5. OpInv'
    BY <1>1, <1>3 DEF TableInv, OpInv
  <1>6. HoldInv'
    BY <1>1, <1>3 DEF TableInv, HoldInv, MyAd
  <1>7. SlotInv'
    <2> SUFFICES ASSUME NEW i \in 1..len
                 PROVE  /\ adv[i].server # bad =>
                             /\ adv[i].service \in Services
                             /\ adv[i] = MyAd(adv[i].server, adv[i].service)
                             /\ \/ adv[i].service \in ads[adv[i].server]
                                \/ /\ lock = adv[i].server \/ spc'[adv[i].server] = "server"
                                   /\ sop[adv[i].server].service = adv[i].service
                        /\ adv[i].server = bad => adv[i].service \in Withdrawn \cup {bad}
      BY <1>1 DEF SlotInv, MyAd
    <2>1. adv[i].server \in Servers \cup {bad}
      BY <1>0, UsedSlots
    <2>2. \A w \in Servers : spc[w] = "server" => spc'[w] = "server"
      BY <1>1, <1>3
    <2> QED
      BY <2>1, <2>2 DEF TableInv, SlotInv
  <1>8. OnceInv' /\ ApartInv'
    BY <1>1, <1>3 DEF TableInv, OnceInv, ApartInv
  <1>9. FoundInv'
    BY <1>1 DEF TableInv, FoundInv, MyAd
  <1>10. SrevInv'
    BY <1>1, <1>3 DEF TableInv, SrevInv
  <1> QED
    BY <1>4, <1>5, <1>6, <1>7, <1>8, <1>9, <1>10 DEF TableInv

\* What the end of an operation does, to be used for the clients too.
LEMMA ModifiedIs ==
  ASSUME TableInv, NEW v \in Servers, modified(v)
  PROVE  /\ sop[v].service \in Services /\ sop[v].service # bad
         /\ revision' \in [Services -> Nat]
         /\ \A s \in Services : s # sop[v].service => revision'[s] = revision[s]
         /\ sop[v].service \notin Withdrawn =>
              lock = v /\ revision'[sop[v].service] = revision[sop[v].service] + 1
         /\ \A w \in Servers : w # v => /\ spc'[w] = spc[w] /\ sop'[w] = sop[w]
                                        /\ srev'[w] = srev[w] /\ ads'[w] = ads[w]
         /\ spc'[v] = "idle" /\ sop'[v].service = bad
         /\ ads'[v] = IF lock = v THEN ads[v] \cup {sop[v].service} ELSE ads[v]
         /\ lock' = (IF lock = v THEN bad ELSE lock)
         /\ UNCHANGED <<adv, len, known, ops>>
  <1>0. TableType
    BY DEF TableInv
  <1>1. /\ spc[v] = "write"
        /\ revision' = [revision EXCEPT ![sop[v].service] = srev[v] + 1]
        /\ spc' = [spc EXCEPT ![v] = "idle"]
        /\ lock' = (IF lock = v THEN bad ELSE lock)
        /\ ads' = IF lock = v THEN [ads EXCEPT ![v] = @ \cup {sop[v].service}] ELSE ads
        /\ sop' = [sop EXCEPT ![v].service = bad]
        /\ srev' = [srev EXCEPT ![v] = 0]
        /\ UNCHANGED <<adv, len, known, ops>>
    BY DEF modified
  <1>2. sop[v].service \in Services /\ sop[v].service # bad
    <2>1. sop[v].service \in Services \cup {bad} /\ sop[v].service # bad
      BY <1>0, <1>1 DEF TableInv, TableType, OpInv
    <2> QED
      BY <2>1
  <1>3. /\ revision' \in [Services -> Nat]
        /\ \A s \in Services : s # sop[v].service => revision'[s] = revision[s]
        /\ revision'[sop[v].service] = srev[v] + 1
    BY <1>0, <1>1, <1>2 DEF TableType
  <1>4. sop[v].service \notin Withdrawn => lock = v /\ srev[v] = revision[sop[v].service]
    BY <1>1 DEF TableInv, OpInv, SrevInv
  <1>5. /\ \A w \in Servers : w # v => /\ spc'[w] = spc[w] /\ sop'[w] = sop[w]
                                       /\ srev'[w] = srev[w]
        /\ spc'[v] = "idle" /\ sop'[v].service = bad
    BY <1>0, <1>1 DEF TableType
  <1>6. /\ \A w \in Servers : w # v => ads'[w] = ads[w]
        /\ ads'[v] = IF lock = v THEN ads[v] \cup {sop[v].service} ELSE ads[v]
    BY <1>0, <1>1 DEF TableType
  <1> QED
    BY <1>1, <1>2, <1>3, <1>4, <1>5, <1>6

LEMMA ModifiedKeepsTable ==
  ASSUME TableInv, NEW v \in Servers, modified(v)
  PROVE  TableInv'
  <1> DEFINE s == sop[v].service
  <1>0. TableType /\ v # bad
    BY CacheAssumption DEF TableInv
  <1>1. /\ s \in Services /\ s # bad
        /\ revision' \in [Services -> Nat]
        /\ \A x \in Services : x # s => revision'[x] = revision[x]
        /\ s \notin Withdrawn => lock = v
        /\ \A w \in Servers : w # v => /\ spc'[w] = spc[w] /\ sop'[w] = sop[w]
                                       /\ srev'[w] = srev[w] /\ ads'[w] = ads[w]
        /\ spc'[v] = "idle" /\ sop'[v].service = bad
        /\ ads'[v] = IF lock = v THEN ads[v] \cup {s} ELSE ads[v]
        /\ lock' = (IF lock = v THEN bad ELSE lock)
        /\ UNCHANGED <<adv, len, known, ops>>
    BY ModifiedIs
  <1>2. TableType'
    <2>1. sop' \in [Servers -> [service : Services \cup {bad}, slot : Slot]]
      BY <1>0 DEF TableType, modified
    <2>2. spc' \in [Servers -> {"idle", "server", "queue", "service", "read", "write"}]
      BY <1>0 DEF TableType, modified
    <2>3. ads' \in [Servers -> SUBSET Services]
      BY <1>0, <1>1 DEF TableType, modified
    <2>4. srev' \in [Servers -> Nat]
      BY <1>0 DEF TableType, modified
    <2>5. lock' \in Servers \cup Clients \cup {bad}
      BY <1>0, <1>1 DEF TableType
    <2> QED
      BY <1>0, <1>1, <2>1, <2>2, <2>3, <2>4, <2>5 DEF TableType
  <1>3. spc[v] = "write" /\ s \notin ads[v]
    BY DEF TableInv, OpInv, modified
  <1>4. \A w \in Servers : lock' = w <=> lock = w /\ w # v
    BY <1>0, <1>1, CacheAssumption
  <1>5. OpInv'
    <2> SUFFICES ASSUME NEW w \in Servers
                 PROVE  /\ lock' = w => spc'[w] \in {"read", "write"}
                        /\ spc'[w] = "idle" <=> sop'[w].service = bad
                        /\ sop'[w].service \notin ads'[w]
                        /\ spc'[w] # "idle" /\ lock' # w => sop'[w].service \in Withdrawn
      BY DEF OpInv
    <2>1. CASE w = v
      <3>1. bad \notin ads'[v]
        BY <1>2, CacheAssumption DEF TableType
      <3> QED
        BY <1>1, <1>4, <2>1, <3>1
    <2>2. CASE w # v
      BY <1>1, <1>4, <2>2 DEF TableInv, OpInv
    <2> QED
      BY <2>1, <2>2
  <1>6. HoldInv'
    <2>1. \A w \in Servers : lock' = w \/ spc'[w] = "server" =>
            sop'[w].slot \in 1..len /\ adv[sop'[w].slot] = MyAd(w, sop'[w].service)
      BY <1>1, <1>4 DEF TableInv, HoldInv
    <2>2. \A w \in Servers : spc'[w] \in {"queue", "service"} =>
            /\ sop'[w].slot \in 1..len
            /\ adv[sop'[w].slot].service = sop'[w].service
            /\ adv[sop'[w].slot].server = bad
      BY <1>1 DEF TableInv, HoldInv
    <2> QED
      BY <1>1, <2>1, <2>2 DEF HoldInv, MyAd
  <1>7. SlotInv'
    <2> SUFFICES ASSUME NEW i \in 1..len
                 PROVE  /\ adv[i].server # bad =>
                             /\ adv[i].service \in Services
                             /\ adv[i] = MyAd(adv[i].server, adv[i].service)
                             /\ \/ adv[i].service \in ads'[adv[i].server]
                                \/ /\ lock' = adv[i].server \/ spc'[adv[i].server] = "server"
                                   /\ sop'[adv[i].server].service = adv[i].service
                        /\ adv[i].server = bad => adv[i].service \in Withdrawn \cup {bad}
      BY <1>1 DEF SlotInv, MyAd
    <2>1. CASE adv[i].server = v
      <3>1. adv[i].service \in ads'[v]
        BY <1>0, <1>1, <1>3, <2>1 DEF TableInv, SlotInv
      <3> QED
        BY <1>0, <2>1, <3>1 DEF TableInv, SlotInv
    <2>2. CASE adv[i].server # v /\ adv[i].server # bad
      <3>1. adv[i].server \in Servers
        BY <1>0, <2>2, UsedSlots
      <3> QED
        BY <1>1, <1>4, <2>2, <3>1 DEF TableInv, SlotInv
    <2>3. CASE adv[i].server = bad
      BY <2>3 DEF TableInv, SlotInv
    <2> QED
      BY <2>1, <2>2, <2>3
  <1>8. OnceInv' /\ ApartInv'
    BY <1>1 DEF TableInv, OnceInv, ApartInv
  <1>9. FoundInv'
    <2> SUFFICES ASSUME NEW w \in Servers, NEW y \in ads'[w]
                 PROVE  \E i \in 1..len : adv[i] = MyAd(w, y)
      BY <1>1 DEF FoundInv, MyAd
    <2>1. CASE y \in ads[w]
      BY <2>1 DEF TableInv, FoundInv
    <2>2. CASE y \notin ads[w]
      <3>1. w = v /\ y = s /\ lock = v
        BY <1>1, <2>2
      <3> QED
        BY <3>1 DEF TableInv, HoldInv
    <2> QED
      BY <2>1, <2>2
  <1>10. SrevInv'
    <2> SUFFICES ASSUME NEW w \in Servers, spc'[w] = "write", sop'[w].service \notin Withdrawn
                 PROVE  srev'[w] = revision'[sop'[w].service]
      BY DEF SrevInv
    <2>1. /\ w # v /\ sop'[w] = sop[w] /\ srev'[w] = srev[w] /\ spc[w] = "write"
      BY <1>1
    <2>2. lock = w /\ sop[w].service # bad /\ srev[w] = revision[sop[w].service]
      BY <2>1 DEF TableInv, OpInv, SrevInv
    <2>3. sop[w].service \in Services
      BY <1>0, <2>1, <2>2 DEF TableType
    <2>4. s \in Withdrawn
      BY <1>1, <2>1, <2>2
    <2> QED
      BY <1>1, <2>1, <2>2, <2>3, <2>4
  <1> QED
    BY <1>2, <1>5, <1>6, <1>7, <1>8, <1>9, <1>10 DEF TableInv

LEMMA LimitKeepsTable ==
  ASSUME TableInv, NEW v \in Servers, NEW s \in Services, tpadvertise_limit(v, s)
  PROVE  TableInv'
  <1>1. /\ UNCHANGED <<adv, len, revision, lock, ads, spc, sop, srev, ops>>
        /\ known' = known \cup {s}
    BY DEF tpadvertise_limit, servers
  <1>2. TableType'
    BY <1>1 DEF TableInv, TableType
  <1>3. OpInv' /\ HoldInv'
    BY <1>1 DEF TableInv, OpInv, HoldInv, MyAd
  <1>4. SlotInv'
    BY <1>1 DEF TableInv, SlotInv, MyAd
  <1>5. OnceInv' /\ ApartInv' /\ FoundInv' /\ SrevInv'
    BY <1>1 DEF TableInv, OnceInv, ApartInv, FoundInv, SrevInv, MyAd
  <1> QED
    BY <1>2, <1>3, <1>4, <1>5 DEF TableInv

LEMMA ServerKeepsTable ==
  ASSUME TableInv, NEW v \in Servers, Server(v)
  PROVE  TableInv'
  BY AdvertiseKeepsTable, LimitKeepsTable, UnadvertiseKeepsTable, ClearKeepsTable,
     ReadKeepsTable, ModifiedKeepsTable DEF Server

-----------------------------------------------------------------------------
(* The clients *)

ClientType ==
  /\ cpc \in [Clients -> {"idle", "refresh", "lock", "scan", "queue", "server",
                          "balance"}]
  /\ ask \in [Clients -> [service : Services \cup {bad}, grp : Groups \cup {bad}]]
  /\ at \in [Clients -> [slot : 1..(MaxAdv + 1), queue : Queues \cup {bad}]]
  /\ cache \in [Clients -> [Services -> ServiceEntry]]
  /\ last \in [Clients -> Queues \cup {bad}]

Scanning == {"scan", "queue", "server"}

\* A client scans under data_lock.  What it has read of a slot is still there,
\* or has been cleared since.
Reads(c) ==
  /\ cpc[c] \in Scanning <=> lock = c
  /\ cpc[c] # "idle" => ask[c].service \in Services
  /\ cpc[c] \in {"queue", "server"} =>
       /\ at[c].slot \in 1..len
       /\ adv[at[c].slot].service \in {ask[c].service, bad}
  /\ cpc[c] = "server" =>
       /\ at[c].queue \in Queues
       /\ adv[at[c].slot].queue \in {at[c].queue, bad}

Lasting == Services \ Withdrawn

RouteAt(i) == [grp |-> GrpOf[adv[i].server], queue |-> adv[i].queue]
Seen(c) == {RouteAt(i) : i \in {j \in 1..len : /\ j < at[c].slot
                                              /\ adv[j].service = ask[c].service}}

\* Of a service that is not withdrawn, a cache is behind until its scan has
\* ended, holds what the scan has seen so far, and is right when it is not
\* behind.
Fresh(c) ==
  /\ \A s \in Lasting : cache[c][s].rev <= revision[s]
  /\ cpc[c] \in Scanning \cup {"lock"} /\ ask[c].service \in Lasting =>
       cache[c][ask[c].service].rev < revision[ask[c].service]
  /\ cpc[c] = "lock" => Routes(c, ask[c].service) = {}
  /\ cpc[c] \in Scanning /\ ask[c].service \in Lasting =>
       Routes(c, ask[c].service) = Seen(c)
  /\ cpc[c] \in {"queue", "server"} /\ ask[c].service \in Lasting =>
       adv[at[c].slot].service = ask[c].service
  /\ cpc[c] = "server" /\ ask[c].service \in Lasting =>
       at[c].queue = adv[at[c].slot].queue
  /\ \A s \in Lasting : cache[c][s].rev = revision[s] /\ Settled(s)
       => Routes(c, s) = Advertised(s)

CacheInv == TableInv /\ ClientType /\ \A c \in Clients : Reads(c) /\ Fresh(c)

LEMMA InitCacheInv == Init => CacheInv
  <1> SUFFICES ASSUME Init PROVE CacheInv
    OBVIOUS
  <1>1. NoEntry \in ServiceEntry
    BY DEF NoEntry, ServiceEntry
  <1>2. ClientType
    BY <1>1, CacheAssumption DEF Init, ClientType
  <1>3. \A c \in Clients : Reads(c)
    BY CacheAssumption DEF Init, Reads, Scanning
  <1>4. ASSUME NEW c \in Clients PROVE Fresh(c)
    <2>1. cpc[c] = "idle"
      BY DEF Init
    <2>2. \A s \in Services : cache[c][s].rev = 0 /\ revision[s] = 0 /\ cache[c][s].queues = <<>>
      BY DEF Init, NoEntry
    <2>3. \A s \in Services : Routes(c, s) = {} /\ Advertised(s) = {}
      BY <2>2 DEF Routes, Advertised, Init
    <2> QED
      <3>1. \A s \in Lasting : s \in Services
        BY DEF Lasting
      <3>2. \A s \in Lasting : cache[c][s].rev <= revision[s]
        BY <2>2, <3>1
      <3>3. /\ cpc[c] \notin Scanning \cup {"lock"} /\ cpc[c] \notin {"queue", "server"}
            /\ cpc[c] # "lock"
        BY <2>1 DEF Scanning
      <3>4. \A s \in Lasting : Routes(c, s) = Advertised(s)
        BY <2>3, <3>1
      <3> QED
        BY <3>2, <3>3, <3>4 DEF Fresh
  <1> QED
    BY <1>2, <1>3, <1>4, InitTableInv DEF CacheInv

\* What a server may do to the slots while a client holds data_lock: clear
\* fields of a service that is withdrawn.
Cleared(i) ==
  /\ adv'[i].service \in {adv[i].service, bad}
  /\ adv'[i].queue \in {adv[i].queue, bad}
  /\ adv[i].service \in Lasting \/ adv'[i].service \in Lasting => adv'[i] = adv[i]

\* And what it does to the services that are not withdrawn.
Grows(s) ==
  /\ revision'[s] >= revision[s]
  /\ revision'[s] = revision[s] /\ Settled(s)' => Settled(s) /\ Advertised(s)' = Advertised(s)

LEMMA SameGrows ==
  ASSUME TableInv, NEW v \in Servers, NEW s \in Lasting,
         revision' = revision,
         \A w \in Servers : w # v => sop'[w] = sop[w] /\ ads'[w] = ads[w],
         sop'[v].service = s \/ (s \in ads'[v] <=> s \in ads[v]),
         sop'[v].service # s => sop[v].service # s
  PROVE  Grows(s)
  <1>1. revision'[s] >= revision[s]
    BY DEF TableInv, TableType, Lasting
  <1>2. ASSUME Settled(s)'
        PROVE  Settled(s) /\ Advertised(s)' = Advertised(s)
    <2>1. \A w \in Servers : sop'[w].service # s
      BY <1>2 DEF Settled
    <2>2. Settled(s)
      BY <2>1 DEF Settled
    <2>3. {w \in Servers : s \in ads'[w]} = {w \in Servers : s \in ads[w]}
      BY <2>1
    <2> QED
      BY <2>2, <2>3 DEF Advertised
  <1> QED
    BY <1>1, <1>2 DEF Grows

LEMMA ServerStep ==
  ASSUME TableInv, NEW v \in Servers, Server(v)
  PROVE  /\ UNCHANGED clients
         /\ \A c \in Clients : lock' = c <=> lock = c
         /\ lock \in Clients => len' = len /\ \A i \in 1..len : Cleared(i)
         /\ \A s \in Lasting : Grows(s)
  <1>0. TableType /\ v # bad /\ v \notin Clients /\ bad \notin Clients
        /\ Lasting \subseteq Services
    BY CacheAssumption DEF TableInv, Lasting
  <1>1. ASSUME NEW s \in Services, tpadvertise(v, s)
        PROVE  /\ lock = bad /\ lock' = v /\ UNCHANGED clients
               /\ \A x \in Lasting : Grows(x)
    <2>1. /\ lock = bad /\ lock' = v /\ UNCHANGED clients /\ UNCHANGED <<revision, ads>>
          /\ spc[v] = "idle" /\ sop' = [sop EXCEPT ![v] = [service |-> s, slot |-> free_slot]]
      BY <1>1 DEF tpadvertise
    <2>2. /\ sop[v].service = bad
          /\ \A w \in Servers : w # v => sop'[w] = sop[w]
      BY <1>0, <2>1 DEF TableInv, OpInv, TableType
    <2>3. \A x \in Lasting : x # bad
      BY <1>0, CacheAssumption
    <2> QED
      BY <2>1, <2>2, <2>3, SameGrows
  <1>2. ASSUME NEW s \in Services, tpadvertise_limit(v, s)
        PROVE  /\ lock = bad /\ lock' = bad /\ UNCHANGED clients
               /\ \A x \in Lasting : Grows(x)
    BY <1>2, SameGrows DEF tpadvertise_limit, servers
  <1>3. ASSUME NEW s \in Services, tpunadvertise(v, s)
        PROVE  /\ UNCHANGED <<adv, len, lock, clients>>
               /\ \A x \in Lasting : Grows(x)
    <2>1. /\ UNCHANGED <<adv, len, lock, revision, clients>> /\ s \in Withdrawn
          /\ spc[v] = "idle"
          /\ ads' = [ads EXCEPT ![v] = @ \ {s}]
          /\ sop' = [sop EXCEPT ![v] = [service |-> s, slot |-> First(Matching(MyAd(v, s)))]]
      BY <1>3 DEF tpunadvertise, table
    <2>2. /\ sop[v].service = bad
          /\ \A w \in Servers : w # v => sop'[w] = sop[w] /\ ads'[w] = ads[w]
          /\ ads'[v] = ads[v] \ {s}
      BY <1>0, <2>1 DEF TableInv, OpInv, TableType
    <2>3. \A x \in Lasting : x # bad /\ x # s
      BY <1>0, <2>1, CacheAssumption DEF Lasting
    <2> QED
      BY <2>1, <2>2, <2>3, SameGrows
  <1>4. ASSUME unadvertise(v)
        PROVE  /\ UNCHANGED <<len, lock, clients>>
               /\ \A i \in 1..len : Cleared(i)
               /\ \A x \in Lasting : Grows(x)
    <2>1. /\ spc[v] \in {"server", "queue", "service"}
          /\ UNCHANGED <<len, known, revision, lock, ads, sop, clients>>
      BY <1>4 DEF unadvertise
    <2>2. /\ sop[v].slot \in 1..len /\ adv[sop[v].slot].service = sop[v].service
          /\ sop[v].service \in Withdrawn
      <3>1. lock # v /\ sop[v].service \in Withdrawn
        BY <2>1 DEF TableInv, OpInv
      <3>2. \/ /\ sop[v].slot \in 1..len
               /\ adv[sop[v].slot] = MyAd(v, sop[v].service)
            \/ /\ sop[v].slot \in 1..len
               /\ adv[sop[v].slot].service = sop[v].service
        BY <2>1 DEF TableInv, HoldInv
      <3> QED
        BY <3>1, <3>2, MyAdFields
    <2>3. ASSUME NEW i \in 1..len PROVE Cleared(i)
      <3>1. i \in Slot /\ adv[i] \in Slots /\ adv \in [Slot -> Slots]
        BY <1>0, UsedSlots DEF TableType
      <3>2. CASE i # sop[v].slot
        <4>1. adv'[i] = adv[i]
          BY <1>4, <3>1, <3>2 DEF unadvertise
        <4> QED
          BY <4>1 DEF Cleared
      <3>3. CASE i = sop[v].slot
        <4>1. /\ adv'[i].service \in {adv[i].service, bad}
              /\ adv'[i].queue \in {adv[i].queue, bad}
          BY <1>4, <3>1, <3>3 DEF unadvertise, Slots
        <4>2. adv[i].service \notin Lasting /\ adv'[i].service \notin Lasting
          BY <2>2, <3>3, <4>1, CacheAssumption DEF Lasting
        <4> QED
          BY <4>1, <4>2 DEF Cleared
      <3> QED
        BY <3>2, <3>3
    <2> QED
      BY <2>1, <2>3, SameGrows
  <1>5. ASSUME modified_read(v)
        PROVE  /\ UNCHANGED <<adv, len, lock, clients>>
               /\ \A x \in Lasting : Grows(x)
    BY <1>5, SameGrows DEF modified_read, table
  <1>6. ASSUME modified(v)
        PROVE  /\ UNCHANGED <<adv, len, clients>>
               /\ lock' = (IF lock = v THEN bad ELSE lock)
               /\ \A x \in Lasting : Grows(x)
    <2> DEFINE s == sop[v].service
    <2>1. /\ s \in Services /\ s # bad
          /\ \A x \in Services : x # s => revision'[x] = revision[x]
          /\ s \notin Withdrawn => lock = v /\ revision'[s] = revision[s] + 1
          /\ \A w \in Servers : w # v => sop'[w] = sop[w] /\ ads'[w] = ads[w]
          /\ sop'[v].service = bad
          /\ ads'[v] = IF lock = v THEN ads[v] \cup {s} ELSE ads[v]
          /\ lock' = (IF lock = v THEN bad ELSE lock)
          /\ UNCHANGED <<adv, len>>
      BY <1>6, ModifiedIs
    <2>2. UNCHANGED clients
      BY <1>6 DEF modified
    <2>3. ASSUME NEW x \in Lasting PROVE Grows(x)
      <3>0. x \in Services /\ revision[x] \in Nat
        BY <1>0 DEF TableType
      <3>1. CASE x = s
        <4>1. revision'[x] = revision[x] + 1
          BY <2>1, <3>1 DEF Lasting
        <4> QED
          BY <3>0, <4>1 DEF Grows
      <3>2. CASE x # s
        <4>1. revision'[x] = revision[x]
          BY <2>1, <3>0, <3>2
        <4>2. ASSUME Settled(x)'
              PROVE  Settled(x) /\ Advertised(x)' = Advertised(x)
          <5>1. \A w \in Servers : sop'[w].service # x
            BY <4>2 DEF Settled
          <5>2. Settled(x)
            BY <2>1, <3>2, <5>1 DEF Settled
          <5>3. {w \in Servers : x \in ads'[w]} = {w \in Servers : x \in ads[w]}
            BY <2>1, <3>2
          <5> QED
            BY <5>2, <5>3 DEF Advertised
        <4> QED
          BY <3>0, <4>1, <4>2 DEF Grows
      <3> QED
        BY <3>1, <3>2
    <2> QED
      BY <2>1, <2>2, <2>3
  <1>7. ASSUME UNCHANGED adv PROVE \A i \in 1..len : Cleared(i)
    BY <1>7 DEF Cleared
  <1> QED
    BY <1>0, <1>1, <1>2, <1>3, <1>4, <1>5, <1>6, <1>7 DEF Server

LEMMA ServerKeepsClients ==
  ASSUME CacheInv, NEW v \in Servers, Server(v)
  PROVE  CacheInv'
  <1>0. /\ UNCHANGED <<cpc, ask, at, cache, last>>
        /\ \A c \in Clients : lock' = c <=> lock = c
        /\ lock \in Clients => len' = len /\ \A i \in 1..len : Cleared(i)
        /\ \A s \in Lasting : Grows(s)
    BY ServerStep DEF CacheInv, clients
  <1>1. TableInv /\ TableType /\ TableInv'
    BY ServerKeepsTable DEF CacheInv, TableInv
  <1>2. ClientType'
    BY <1>0 DEF CacheInv, ClientType
  <1>3. ASSUME NEW c \in Clients PROVE Reads(c)' /\ Fresh(c)'
    <2>0. Reads(c) /\ Fresh(c) /\ ClientType
      BY DEF CacheInv
    <2>1. ASSUME cpc[c] \in {"queue", "server"}
          PROVE  /\ lock = c /\ len' = len /\ at[c].slot \in 1..len
                 /\ Cleared(at[c].slot)
      BY <1>0, <2>0, <2>1 DEF Reads, Scanning
    <2>2. Reads(c)'
      <3>1. cpc[c] \in Scanning <=> lock' = c
        BY <1>0, <2>0 DEF Reads
      <3>2. cpc[c] # "idle" => ask[c].service \in Services
        BY <2>0 DEF Reads
      <3>3. cpc[c] \in {"queue", "server"} =>
              /\ at[c].slot \in 1..len'
              /\ adv'[at[c].slot].service \in {ask[c].service, bad}
        BY <2>0, <2>1 DEF Reads, Cleared
      <3>4. cpc[c] = "server" => /\ at[c].queue \in Queues
                                 /\ adv'[at[c].slot].queue \in {at[c].queue, bad}
        BY <2>0, <2>1 DEF Reads, Cleared
      <3> QED
        BY <1>0, <3>1, <3>2, <3>3, <3>4 DEF Reads
    <2>3. Fresh(c)'
      <3>0. \A s \in Lasting : /\ s \in Services /\ cache[c][s].rev \in Nat
                               /\ revision[s] \in Nat /\ revision'[s] \in Nat
                               /\ revision'[s] >= revision[s]
        <4>1. \A s \in Services : cache[c][s] \in ServiceEntry
          BY <2>0 DEF ClientType
        <4> QED
          BY <1>0, <1>1, <4>1 DEF TableInv, TableType, Lasting, Grows, ServiceEntry
      <3>1. \A s \in Lasting : cache[c][s].rev <= revision'[s]
        BY <2>0, <3>0 DEF Fresh
      <3>2. cpc[c] \in Scanning \cup {"lock"} /\ ask[c].service \in Lasting =>
              cache[c][ask[c].service].rev < revision'[ask[c].service]
        BY <2>0, <3>0 DEF Fresh
      <3>3. ASSUME cpc[c] \in Scanning, ask[c].service \in Lasting
            PROVE  Seen(c)' = Seen(c)
        <4>1. len' = len /\ \A i \in 1..len : Cleared(i)
          BY <1>0, <2>0, <3>3 DEF Reads
        <4>2. {j \in 1..len' : j < at[c].slot /\ adv'[j].service = ask[c].service}
                = {j \in 1..len : j < at[c].slot /\ adv[j].service = ask[c].service}
          BY <3>3, <4>1 DEF Cleared
        <4>3. \A j \in 1..len : adv[j].service = ask[c].service => adv'[j] = adv[j]
          BY <3>3, <4>1 DEF Cleared
        <4> QED
          BY <1>0, <4>2, <4>3 DEF Seen, RouteAt
      <3>4. \A s : Routes(c, s)' = Routes(c, s)
        BY <1>0 DEF Routes
      <3>5. ASSUME cpc[c] \in {"queue", "server"}, ask[c].service \in Lasting
            PROVE  adv'[at[c].slot] = adv[at[c].slot]
        BY <2>0, <2>1, <3>5 DEF Fresh, Cleared
      <3>6. ASSUME NEW s \in Lasting, cache[c][s].rev = revision'[s], Settled(s)'
            PROVE  Routes(c, s) = Advertised(s)'
        <4>1. revision'[s] = revision[s]
          BY <2>0, <3>0, <3>6 DEF Fresh
        <4>2. Settled(s) /\ Advertised(s)' = Advertised(s)
          BY <1>0, <3>6, <4>1 DEF Grows
        <4> QED
          BY <2>0, <3>6, <4>1, <4>2 DEF Fresh
      <3>7. cpc[c] \in Scanning /\ ask[c].service \in Lasting =>
              Routes(c, ask[c].service) = Seen(c)'
        BY <2>0, <3>3 DEF Fresh
      <3>8. /\ cpc[c] \in {"queue", "server"} /\ ask[c].service \in Lasting =>
                 adv'[at[c].slot].service = ask[c].service
            /\ cpc[c] = "server" /\ ask[c].service \in Lasting =>
                 at[c].queue = adv'[at[c].slot].queue
        BY <2>0, <3>5 DEF Fresh
      <3>9. cpc[c] = "lock" => Routes(c, ask[c].service) = {}
        BY <2>0 DEF Fresh
      <3> QED
        BY <1>0, <3>1, <3>2, <3>4, <3>6, <3>7, <3>8, <3>9 DEF Fresh
    <2> QED
      BY <2>2, <2>3
  <1> QED
    BY <1>1, <1>2, <1>3 DEF CacheInv

\* A step of one client: the table and the other clients stay as they were.
LEMMA ClientStep ==
  ASSUME CacheInv, NEW c \in Clients, UNCHANGED <<table, servers, ops>>,
         \/ lock' = lock
         \/ lock = bad /\ lock' = c
         \/ lock = c /\ lock' = bad,
         \A d \in Clients : d # c => /\ cpc'[d] = cpc[d] /\ ask'[d] = ask[d]
                                     /\ at'[d] = at[d] /\ cache'[d] = cache[d],
         ClientType', Reads(c)', Fresh(c)'
  PROVE  CacheInv'
  <1>0. TableInv /\ TableType /\ c \notin Servers /\ bad \notin Servers /\ bad \notin Clients
    BY CacheAssumption DEF CacheInv, TableInv
  <1>1. TableInv'
    <2>1. lock' \in Servers \cup Clients \cup {bad}
      BY <1>0 DEF TableType
    <2>2. \A v \in Servers : lock' = v <=> lock = v
      BY <1>0
    <2> QED
      BY <1>0, <2>1, <2>2, ClientKeepsTable
  <1>2. ASSUME NEW d \in Clients, d # c PROVE Reads(d)' /\ Fresh(d)'
    <2>0. /\ Reads(d) /\ Fresh(d) /\ (lock' = d <=> lock = d)
          /\ cpc'[d] = cpc[d] /\ ask'[d] = ask[d] /\ at'[d] = at[d] /\ cache'[d] = cache[d]
          /\ UNCHANGED <<adv, len, revision, ads, sop>>
      BY <1>0, <1>2 DEF CacheInv, table, servers
    <2>1. Reads(d)'
      BY <2>0 DEF Reads
    <2>2. /\ \A s : Routes(d, s)' = Routes(d, s) /\ Settled(s)' = Settled(s)
                    /\ Advertised(s)' = Advertised(s)
          /\ Seen(d)' = Seen(d)
      BY <2>0 DEF Routes, Settled, Advertised, Seen, RouteAt
    <2>3. Fresh(d)'
      BY <2>0, <2>2 DEF Fresh
    <2> QED
      BY <2>1, <2>3
  <1> QED
    BY <1>1, <1>2 DEF CacheInv

\* An entry changes and nothing else of the cache.
LEMMA EntryChanged ==
  ASSUME ClientType, NEW c \in Clients, NEW s \in Services, NEW e \in ServiceEntry,
         cache' = [cache EXCEPT ![c][s] = e]
  PROVE  /\ cache' \in [Clients -> [Services -> ServiceEntry]]
         /\ \A d \in Clients : d # c => cache'[d] = cache[d]
         /\ cache'[c][s] = e
         /\ \A x \in Services : x # s => cache'[c][x] = cache[c][x]
  <1>1. cache \in [Clients -> [Services -> ServiceEntry]]
    BY DEF ClientType
  <1> QED
    BY <1>1

LEMMA EntryEdits ==
  ASSUME NEW e \in ServiceEntry
  PROVE  /\ \A q \in Seq(Route) :
              LET f == [e EXCEPT !.queues = q]
              IN f \in ServiceEntry /\ f.rev = e.rev /\ f.queues = q
         /\ \A n \in Nat : LET f == [e EXCEPT !.rev = n]
                            IN f \in ServiceEntry /\ f.rev = n /\ f.queues = e.queues
         /\ \A n \in Nat : LET f == [e EXCEPT !.current = n]
                            IN f \in ServiceEntry /\ f.rev = e.rev /\ f.queues = e.queues
         /\ <<>> \in Seq(Route)
  BY DEF ServiceEntry

LEMMA EntryIs ==
  ASSUME ClientType, NEW c \in Clients, NEW s \in Services
  PROVE  /\ cache[c][s] \in ServiceEntry
         /\ cache[c][s].rev \in Nat /\ cache[c][s].current \in Nat
         /\ cache[c][s].queues \in Seq(Route)
  <1>1. cache[c][s] \in ServiceEntry
    BY DEF ClientType
  <1> QED
    BY <1>1 DEF ServiceEntry

\* A step after which the routes and revisions of the client are the same and
\* it is not about to scan.
LEMMA SameFresh ==
  ASSUME CacheInv, NEW c \in Clients, UNCHANGED <<table, servers>>,
         \A s \in Services : cache'[c][s].rev = cache[c][s].rev
                              /\ cache'[c][s].queues = cache[c][s].queues,
         cpc'[c] \in {"idle", "refresh", "balance"}
  PROVE  Fresh(c)'
  <1>0. Fresh(c) /\ UNCHANGED <<revision, ads, sop>>
    BY DEF CacheInv, table, servers
  <1>1. \A s \in Lasting : s \in Services
    BY DEF Lasting
  <1>2. \A s \in Lasting : /\ Routes(c, s)' = Routes(c, s) /\ (Settled(s)' <=> Settled(s))
                           /\ Advertised(s)' = Advertised(s)
    BY <1>0, <1>1 DEF Routes, Settled, Advertised
  <1>3. \A s \in Lasting : cache'[c][s].rev <= revision'[s]
    BY <1>0, <1>1 DEF Fresh
  <1>4. /\ cpc'[c] \notin Scanning \cup {"lock"} /\ cpc'[c] \notin {"queue", "server"}
        /\ cpc'[c] # "lock"
    BY DEF Scanning
  <1>5. \A s \in Lasting : cache'[c][s].rev = revision'[s] /\ Settled(s)'
          => Routes(c, s)' = Advertised(s)'
    BY <1>0, <1>1, <1>2 DEF Fresh
  <1> QED
    BY <1>3, <1>4, <1>5 DEF Fresh

LEMMA GetEntryInv ==
  ASSUME CacheInv, NEW c \in Clients, NEW s \in Services, NEW g \in Groups \cup {bad},
         get_entry(c, s, g)
  PROVE  CacheInv'
  <1>0. ClientType /\ Reads(c)
    BY DEF CacheInv
  <1> DEFINE e == [cache[c][s] EXCEPT !.present = TRUE]
  <1>1. /\ UNCHANGED <<table, lock, servers, at, ops>> /\ cpc[c] = "idle"
        /\ ask' = [ask EXCEPT ![c] = [service |-> s, grp |-> g]]
        /\ \/ cpc' = [cpc EXCEPT ![c] = "refresh"] /\ last' = last
              /\ cache' = [cache EXCEPT ![c][s].present = TRUE]
           \/ cpc' = [cpc EXCEPT ![c] = "idle"] /\ cache' = cache
              /\ last' = [last EXCEPT ![c] = bad]
    BY DEF get_entry, Goto, Throw
  <1>2. e \in ServiceEntry /\ e.rev = cache[c][s].rev /\ e.queues = cache[c][s].queues
    BY <1>0, EntryIs DEF ServiceEntry
  <1>3. cache' = [cache EXCEPT ![c][s].present = TRUE] => cache' = [cache EXCEPT ![c][s] = e]
    BY <1>0 DEF ClientType
  <1> HIDE DEF e
  <1>4. /\ cache' \in [Clients -> [Services -> ServiceEntry]]
        /\ \A d \in Clients : d # c => cache'[d] = cache[d]
        /\ \A x \in Services : /\ cache'[c][x].rev = cache[c][x].rev
                               /\ cache'[c][x].queues = cache[c][x].queues
    <2>1. CASE cache' = cache
      BY <1>0, <2>1 DEF ClientType
    <2>2. CASE cache' = [cache EXCEPT ![c][s] = e]
      <3>1. /\ cache' \in [Clients -> [Services -> ServiceEntry]]
            /\ \A d \in Clients : d # c => cache'[d] = cache[d]
            /\ cache'[c][s] = e
            /\ \A x \in Services : x # s => cache'[c][x] = cache[c][x]
        BY ZenonT(60), <1>0, <1>2, <2>2, EntryChanged
      <3> QED
        BY <1>2, <3>1
    <2> QED
      BY <1>1, <1>3, <2>1, <2>2
  <1>5. /\ cpc'[c] \in {"idle", "refresh"} /\ ask'[c].service = s
        /\ \A d \in Clients : d # c => /\ cpc'[d] = cpc[d] /\ ask'[d] = ask[d]
                                       /\ at'[d] = at[d]
    BY <1>0, <1>1 DEF ClientType
  <1>6. ClientType'
    BY <1>0, <1>1, <1>4 DEF ClientType
  <1>7. lock # c
    BY <1>0, <1>1 DEF Reads, Scanning
  <1>8. Reads(c)'
    BY <1>1, <1>5, <1>7 DEF Reads, Scanning
  <1>9. Fresh(c)'
    BY <1>1, <1>4, <1>5, SameFresh
  <1> QED
    BY <1>1, <1>4, <1>5, <1>6, <1>8, <1>9, ClientStep

LEMMA RefreshInv ==
  ASSUME CacheInv, NEW c \in Clients, refresh(c)
  PROVE  CacheInv'
  <1> DEFINE s == ask[c].service
             e == [cache[c][s] EXCEPT !.queues = <<>>]
  <1>0. ClientType /\ Reads(c) /\ Fresh(c) /\ cpc[c] = "refresh" /\ s \in Services
    BY DEF CacheInv, Reads, refresh
  <1>1. UNCHANGED <<table, lock, servers, ask, at, last, ops>>
    BY DEF refresh
  <1>2. lock # c
    BY <1>0 DEF Reads, Scanning
  <1>3. CASE cpc' = [cpc EXCEPT ![c] = "balance"] /\ cache' = cache
    <2>1. ClientType' /\ cpc'[c] = "balance" /\ \A d \in Clients : d # c => cpc'[d] = cpc[d]
      BY <1>0, <1>1, <1>3 DEF ClientType
    <2>2. Reads(c)'
      BY <1>0, <1>1, <1>2, <2>1 DEF Reads, Scanning
    <2>3. Fresh(c)'
      BY <1>1, <1>3, <2>1, SameFresh
    <2> QED
      BY <1>1, <1>3, <2>1, <2>2, <2>3, ClientStep
  <1>4. CASE /\ cache[c][s].rev # revision[s]
             /\ cache' = [cache EXCEPT ![c][s].queues = <<>>]
             /\ cpc' = [cpc EXCEPT ![c] = "lock"]
    <2>1. e \in ServiceEntry /\ e.rev = cache[c][s].rev /\ e.queues = <<>>
      BY ZenonT(60), <1>0, EntryIs, EntryEdits
    <2>2. cache' = [cache EXCEPT ![c][s] = e]
      BY <1>0, <1>4 DEF ClientType
    <2> HIDE DEF e
    <2>3. /\ cache' \in [Clients -> [Services -> ServiceEntry]]
          /\ \A d \in Clients : d # c => cache'[d] = cache[d]
          /\ cache'[c][s].rev = cache[c][s].rev /\ cache'[c][s].queues = <<>>
          /\ \A x \in Services : x # s => cache'[c][x] = cache[c][x]
      BY ZenonT(60), <1>0, <2>1, <2>2, EntryChanged
    <2>4. ClientType' /\ cpc'[c] = "lock" /\ \A d \in Clients : d # c => cpc'[d] = cpc[d]
      BY <1>0, <1>1, <1>4, <2>3 DEF ClientType
    <2>5. Reads(c)'
      BY <1>0, <1>1, <1>2, <2>4 DEF Reads, Scanning
    <2>6. Fresh(c)'
      <3>0. UNCHANGED <<revision, ads, sop, ask>> /\ \A x \in Lasting : x \in Services
        BY <1>1 DEF table, servers, Lasting
      <3>1. \A x \in Lasting : cache'[c][x].rev <= revision'[x]
        BY <1>0, <2>3, <3>0 DEF Fresh
      <3>2. s \in Lasting => cache'[c][s].rev < revision'[s]
        <4>1. s \in Lasting => cache[c][s].rev <= revision[s]
          BY <1>0 DEF Fresh
        <4>2. cache[c][s].rev \in Nat /\ revision[s] \in Nat
          BY <1>0, EntryIs DEF CacheInv, TableInv, TableType
        <4> QED
          BY <1>4, <2>3, <3>0, <4>1, <4>2
      <3>3. \A x \in Lasting : cache'[c][x].rev = revision'[x] /\ Settled(x)'
              => Routes(c, x)' = Advertised(x)'
        <4> SUFFICES ASSUME NEW x \in Lasting, cache'[c][x].rev = revision'[x], Settled(x)'
                     PROVE  Routes(c, x)' = Advertised(x)'
          OBVIOUS
        <4>1. x # s
          <5>1. CASE x = s
            <6>1. cache'[c][s].rev < revision'[s] /\ revision'[s] \in Nat
              BY <1>0, <3>0, <3>2, <5>1 DEF CacheInv, TableInv, TableType
            <6> QED
              BY <5>1, <6>1
          <5> QED
            BY <5>1
        <4>2. cache'[c][x] = cache[c][x]
          BY <2>3, <3>0, <4>1
        <4> QED
          BY SMTT(40), <1>0, <3>0, <4>2 DEF Fresh, Routes, Settled, Advertised
      <3>4. cpc'[c] \notin Scanning /\ cpc'[c] \notin {"queue", "server"}
        BY <2>4 DEF Scanning
      <3>5. Routes(c, s)' = {}
        BY <2>3, <3>0 DEF Routes
      <3> QED
        BY <3>0, <3>1, <3>2, <3>3, <3>4, <3>5 DEF Fresh
    <2> QED
      BY <1>1, <2>3, <2>4, <2>5, <2>6, ClientStep
  <1> QED
    BY <1>3, <1>4 DEF refresh, Goto, entry

\* A step of a scan that leaves the cache alone.
LEMMA SameRevs ==
  ASSUME CacheInv, NEW c \in Clients, UNCHANGED <<table, servers, ask, cache>>,
         cpc'[c] \in Scanning \cup {"lock"}, cpc[c] \in Scanning \cup {"lock"}
  PROVE  /\ \A s \in Lasting : cache'[c][s].rev <= revision'[s]
         /\ cpc'[c] \in Scanning \cup {"lock"} /\ ask'[c].service \in Lasting =>
              cache'[c][ask'[c].service].rev < revision'[ask'[c].service]
         /\ \A s \in Lasting : cache'[c][s].rev = revision'[s] /\ Settled(s)'
              => Routes(c, s)' = Advertised(s)'
         /\ Routes(c, ask[c].service)' = Routes(c, ask[c].service)
  <1>0. Fresh(c) /\ UNCHANGED <<revision, ads, sop, ask, cache>>
    BY DEF CacheInv, table, servers
  <1>1. \A s : /\ Routes(c, s)' = Routes(c, s) /\ (Settled(s)' <=> Settled(s))
               /\ Advertised(s)' = Advertised(s)
    BY <1>0 DEF Routes, Settled, Advertised
  <1> QED
    BY <1>0, <1>1 DEF Fresh

LEMMA DataLockInv ==
  ASSUME CacheInv, NEW c \in Clients, data_lock(c)
  PROVE  CacheInv'
  <1>0. ClientType /\ Reads(c) /\ Fresh(c) /\ cpc[c] = "lock"
    BY DEF CacheInv, data_lock
  <1>1. /\ UNCHANGED <<table, servers, ask, cache, last, ops>> /\ lock = bad /\ lock' = c
        /\ at' = [at EXCEPT ![c] = [slot |-> 1, queue |-> bad]]
        /\ cpc' = [cpc EXCEPT ![c] = "scan"]
    BY DEF data_lock, Goto
  <1>2. /\ cpc'[c] = "scan" /\ at'[c].slot = 1
        /\ \A d \in Clients : d # c => cpc'[d] = cpc[d] /\ at'[d] = at[d]
    BY <1>0, <1>1 DEF ClientType
  <1>3. ClientType'
    <2>1. [slot |-> 1, queue |-> bad] \in [slot : 1..(MaxAdv + 1), queue : Queues \cup {bad}]
      BY CacheAssumption
    <2> QED
      BY <1>0, <1>1, <2>1 DEF ClientType
  <1>4. Reads(c)'
    BY <1>0, <1>1, <1>2 DEF Reads, Scanning
  <1>5. Fresh(c)'
    <2>0. cpc'[c] \in Scanning \cup {"lock"} /\ cpc[c] \in Scanning \cup {"lock"}
      BY <1>0, <1>2 DEF Scanning
    <2>1. /\ \A s \in Lasting : cache'[c][s].rev <= revision'[s]
          /\ cpc'[c] \in Scanning \cup {"lock"} /\ ask'[c].service \in Lasting =>
               cache'[c][ask'[c].service].rev < revision'[ask'[c].service]
          /\ \A s \in Lasting : cache'[c][s].rev = revision'[s] /\ Settled(s)'
               => Routes(c, s)' = Advertised(s)'
      BY <1>1, <2>0, SameRevs
    <2>2. Routes(c, ask[c].service)' = {} /\ ask' = ask
      <3>1. Routes(c, ask[c].service) = {}
        BY <1>0 DEF Fresh
      <3> QED
        BY <1>1, <3>1 DEF Routes
    <2>3. Seen(c)' = {}
      <3>1. {j \in 1..len' : j < at'[c].slot /\ adv'[j].service = ask'[c].service} = {}
        <4>1. len \in Nat /\ len' = len
          BY <1>1 DEF CacheInv, TableInv, TableType, table
        <4> QED
          BY <1>2, <4>1
      <3> QED
        BY <3>1 DEF Seen
    <2> QED
      BY <1>2, <2>1, <2>2, <2>3 DEF Fresh
  <1> QED
    BY <1>1, <1>2, <1>3, <1>4, <1>5, ClientStep

LEMMA ScanInv ==
  ASSUME CacheInv, NEW c \in Clients, scan(c)
  PROVE  CacheInv'
  <1> DEFINE k == at[c].slot
  <1>0. /\ ClientType /\ Reads(c) /\ Fresh(c) /\ cpc[c] = "scan" /\ k <= len /\ TableType
        /\ lock = c /\ ask[c].service \in Services
    BY DEF CacheInv, TableInv, scan, Reads, Scanning
  <1>1. UNCHANGED <<table, lock, servers, ask, cache, last, ops>>
    BY DEF scan
  <1>2. k \in 1..len /\ len \in 0..MaxAdv /\ k \in 1..(MaxAdv + 1)
        /\ UNCHANGED <<adv, len, ask, cache, lock>>
    BY <1>0, <1>1 DEF ClientType, TableType, table
  <1>3. CASE /\ adv[k].service = ask[c].service
             /\ cpc' = [cpc EXCEPT ![c] = "queue"] /\ at' = at
    <2>1. ClientType' /\ cpc'[c] = "queue" /\ \A d \in Clients : d # c => cpc'[d] = cpc[d]
      BY <1>0, <1>1, <1>3 DEF ClientType
    <2>2. Reads(c)'
      BY <1>0, <1>2, <1>3, <2>1 DEF Reads, Scanning
    <2>3. Fresh(c)'
      <3>0. cpc'[c] \in Scanning \cup {"lock"} /\ cpc[c] \in Scanning \cup {"lock"}
        BY <1>0, <2>1 DEF Scanning
      <3>1. /\ \A s \in Lasting : cache'[c][s].rev <= revision'[s]
            /\ cpc'[c] \in Scanning \cup {"lock"} /\ ask'[c].service \in Lasting =>
                 cache'[c][ask'[c].service].rev < revision'[ask'[c].service]
            /\ \A s \in Lasting : cache'[c][s].rev = revision'[s] /\ Settled(s)'
                 => Routes(c, s)' = Advertised(s)'
            /\ Routes(c, ask[c].service)' = Routes(c, ask[c].service)
        BY <1>1, <3>0, SameRevs
      <3>2. Seen(c)' = Seen(c)
        BY <1>2, <1>3 DEF Seen, RouteAt
      <3>3. ask[c].service \in Lasting => Routes(c, ask[c].service) = Seen(c)
        BY <1>0 DEF Fresh, Scanning
      <3> QED
        BY <1>2, <1>3, <2>1, <3>1, <3>2, <3>3 DEF Fresh
    <2> QED
      BY <1>1, <1>3, <2>1, <2>2, <2>3, ClientStep
  <1>4. CASE /\ adv[k].service # ask[c].service
             /\ at' = [at EXCEPT ![c].slot = @ + 1] /\ cpc' = cpc
    <2>1. k + 1 \in 1..(MaxAdv + 1) /\ k + 1 \in Nat
      BY <1>2, CacheAssumption
    <2>2. at' = [at EXCEPT ![c] = [at[c] EXCEPT !.slot = k + 1]]
      BY <1>0, <1>4 DEF ClientType
    <2>3. [at[c] EXCEPT !.slot = k + 1] \in [slot : 1..(MaxAdv + 1), queue : Queues \cup {bad}]
      BY ZenonT(60), <1>0, <2>1 DEF ClientType
    <2>4. /\ ClientType' /\ at'[c].slot = k + 1
          /\ \A d \in Clients : d # c => at'[d] = at[d]
      BY <1>0, <1>1, <1>4, <2>2, <2>3 DEF ClientType
    <2>5. Reads(c)'
      BY <1>0, <1>2, <1>4 DEF Reads, Scanning
    <2>6. Fresh(c)'
      <3>0. cpc'[c] = "scan" /\ cpc'[c] \in Scanning \cup {"lock"}
            /\ cpc[c] \in Scanning \cup {"lock"}
        BY <1>0, <1>4 DEF Scanning
      <3>1. /\ \A s \in Lasting : cache'[c][s].rev <= revision'[s]
            /\ cpc'[c] \in Scanning \cup {"lock"} /\ ask'[c].service \in Lasting =>
                 cache'[c][ask'[c].service].rev < revision'[ask'[c].service]
            /\ \A s \in Lasting : cache'[c][s].rev = revision'[s] /\ Settled(s)'
                 => Routes(c, s)' = Advertised(s)'
            /\ Routes(c, ask[c].service)' = Routes(c, ask[c].service)
        BY <1>1, <3>0, SameRevs
      <3>2. Seen(c)' = Seen(c)
        <4>1. \A j \in 1..len : j < k + 1 <=> j < k \/ j = k
          BY <1>2
        <4>2. {j \in 1..len : j < k + 1 /\ adv[j].service = ask[c].service}
                = {j \in 1..len : j < k /\ adv[j].service = ask[c].service}
          BY <1>4, <4>1
        <4> QED
          BY <1>2, <2>4, <4>2 DEF Seen, RouteAt
      <3>3. ask[c].service \in Lasting => Routes(c, ask[c].service) = Seen(c)
        BY <1>0 DEF Fresh, Scanning
      <3> QED
        BY <1>2, <3>0, <3>1, <3>2, <3>3 DEF Fresh
    <2> QED
      BY <1>1, <1>4, <2>4, <2>5, <2>6, ClientStep
  <1> QED
    BY <1>3, <1>4 DEF scan, Goto

\* A lookup that throws: the lock is released, the cache stays behind.
LEMMA ThrowInv ==
  ASSUME CacheInv, NEW c \in Clients, Throw(c), unlock(c), lock = c,
         UNCHANGED <<table, servers, ask, at, cache, ops>>
  PROVE  CacheInv'
  <1>0. ClientType
    BY DEF CacheInv
  <1>1. /\ cpc' = [cpc EXCEPT ![c] = "idle"] /\ last' = [last EXCEPT ![c] = bad]
        /\ lock' = bad /\ bad \notin Clients
    BY CacheAssumption DEF Throw, Goto, unlock
  <1>2. ClientType' /\ cpc'[c] = "idle" /\ \A d \in Clients : d # c => cpc'[d] = cpc[d]
    BY <1>0, <1>1 DEF ClientType
  <1>3. Reads(c)'
    BY <1>1, <1>2 DEF Reads, Scanning
  <1>4. Fresh(c)'
    BY <1>2, SameFresh
  <1> QED
    BY <1>1, <1>2, <1>3, <1>4, ClientStep

LEMMA ScanQueueInv ==
  ASSUME CacheInv, NEW c \in Clients, scan_queue(c)
  PROVE  CacheInv'
  <1> DEFINE k == at[c].slot
             q == adv[k].queue
  <1>0. /\ ClientType /\ Reads(c) /\ Fresh(c) /\ cpc[c] = "queue" /\ TableType
        /\ lock = c /\ ask[c].service \in Services /\ k \in 1..len
    BY DEF CacheInv, TableInv, scan_queue, Reads, Scanning
  <1>1. UNCHANGED <<table, servers, ask, cache, ops>>
    BY DEF scan_queue
  <1>2. CASE Throw(c) /\ unlock(c) /\ at' = at
    BY <1>0, <1>1, <1>2, ThrowInv
  <1>3. CASE /\ q # bad
             /\ at' = [at EXCEPT ![c].queue = q]
             /\ cpc' = [cpc EXCEPT ![c] = "server"]
             /\ last' = last /\ lock' = lock
    <2>1. q \in Queues
      BY <1>0, <1>3, UsedSlots
    <2>2. at' = [at EXCEPT ![c] = [at[c] EXCEPT !.queue = q]]
      BY <1>0, <1>3 DEF ClientType
    <2>3. [at[c] EXCEPT !.queue = q] \in [slot : 1..(MaxAdv + 1), queue : Queues \cup {bad}]
      BY <1>0, <2>1 DEF ClientType
    <2> HIDE DEF q
    <2>4. /\ ClientType' /\ at'[c].slot = k /\ at'[c].queue = q /\ cpc'[c] = "server"
          /\ \A d \in Clients : d # c => at'[d] = at[d] /\ cpc'[d] = cpc[d]
      BY <1>0, <1>1, <1>3, <2>2, <2>3 DEF ClientType
    <2>5. UNCHANGED <<adv, len, ask, cache, lock>>
      BY <1>1, <1>3 DEF table
    <2>6. Reads(c)'
      <3>1. adv[k].service \in {ask[c].service, bad} /\ adv[k].queue = q
        BY <1>0 DEF Reads, q
      <3> QED
        BY <1>0, <2>1, <2>4, <2>5, <3>1 DEF Reads, Scanning
    <2>7. Fresh(c)'
      <3>0. cpc'[c] \in Scanning \cup {"lock"} /\ cpc[c] \in Scanning \cup {"lock"}
        BY <1>0, <2>4 DEF Scanning
      <3>1. /\ \A s \in Lasting : cache'[c][s].rev <= revision'[s]
            /\ cpc'[c] \in Scanning \cup {"lock"} /\ ask'[c].service \in Lasting =>
                 cache'[c][ask'[c].service].rev < revision'[ask'[c].service]
            /\ \A s \in Lasting : cache'[c][s].rev = revision'[s] /\ Settled(s)'
                 => Routes(c, s)' = Advertised(s)'
            /\ Routes(c, ask[c].service)' = Routes(c, ask[c].service)
        BY <1>1, <3>0, SameRevs
      <3>2. Seen(c)' = Seen(c)
        BY <2>4, <2>5 DEF Seen, RouteAt
      <3>3. ask[c].service \in Lasting => /\ Routes(c, ask[c].service) = Seen(c)
                                          /\ adv[k].service = ask[c].service
        BY <1>0 DEF Fresh, Scanning
      <3>4. adv[k].queue = q
        BY DEF q
      <3> QED
        BY <2>4, <2>5, <3>1, <3>2, <3>3, <3>4 DEF Fresh
    <2> QED
      BY <1>1, <1>3, <2>4, <2>6, <2>7, ClientStep
  <1> QED
    BY <1>2, <1>3 DEF scan_queue, Goto

\* The server of a slot that a client scans, with the service and the queue
\* the client has read, is a server of that service on that queue.
LEMMA SlotRoute ==
  ASSUME CacheInv, NEW c \in Clients, cpc[c] = "server",
         adv[at[c].slot].server # bad
  PROVE  LET v == adv[at[c].slot].server
             s == ask[c].service
         IN /\ v \in Servers /\ s \in Services
            /\ at[c].queue = QueueOf[v]
            /\ adv[at[c].slot].service = s
            /\ s \in ads[v] \/ sop[v].service = s
            /\ [grp |-> GrpOf[v], queue |-> at[c].queue] \in Route
  <1> DEFINE v == adv[at[c].slot].server
             s == ask[c].service
             k == at[c].slot
  <1>0. TableInv /\ TableType /\ Reads(c) /\ k \in 1..len /\ s \in Services
    BY DEF CacheInv, TableInv, Reads
  <1>1. v \in Servers
    BY <1>0, UsedSlots
  <1>2. /\ adv[k].service \in Services /\ adv[k] = MyAd(v, adv[k].service)
        /\ adv[k].service \in ads[v] \/ sop[v].service = adv[k].service
    BY <1>0 DEF TableInv, SlotInv
  <1>3. adv[k].service = s
    BY <1>0, <1>2, CacheAssumption DEF Reads
  <1>4. adv[k].queue = QueueOf[v] /\ QueueOf[v] \in Queues /\ QueueOf[v] # bad
    BY <1>1, <1>2, MyAdFields, CacheAssumption
  <1>5. at[c].queue = QueueOf[v]
    BY <1>0, <1>4 DEF Reads
  <1>6. [grp |-> GrpOf[v], queue |-> at[c].queue] \in Route
    BY <1>1, <1>4, <1>5, CacheAssumption DEF Route
  <1> QED
    BY <1>0, <1>1, <1>2, <1>3, <1>5, <1>6

LEMMA RoutesAppend ==
  ASSUME NEW q \in Seq(Route), NEW r \in Route
  PROVE  /\ Append(q, r) \in Seq(Route)
         /\ {Append(q, r)[i] : i \in 1..Len(Append(q, r))}
              = {q[i] : i \in 1..Len(q)} \cup {r}
  <1>1. /\ Append(q, r) \in Seq(Route) /\ Len(Append(q, r)) = Len(q) + 1 /\ Len(q) \in Nat
        /\ \A i \in 1..Len(q) : Append(q, r)[i] = q[i]
        /\ Append(q, r)[Len(q) + 1] = r
    OBVIOUS
  <1> DEFINE p == Append(q, r)
  <1> HIDE DEF p
  <1>2. 1..Len(p) = 1..Len(q) \cup {Len(q) + 1}
    BY <1>1 DEF p
  <1>3. {p[i] : i \in 1..Len(p)} = {q[i] : i \in 1..Len(q)} \cup {r}
    BY SMTT(40), <1>1, <1>2 DEF p
  <1> QED
    BY <1>1, <1>3 DEF p

LEMMA ScanServerInv ==
  ASSUME CacheInv, NEW c \in Clients, scan_server(c)
  PROVE  CacheInv'
  <1> DEFINE k == at[c].slot
             s == ask[c].service
             r == [grp |-> GrpOf[adv[k].server], queue |-> at[c].queue]
             q == cache[c][s].queues
             e == [cache[c][s] EXCEPT !.queues = Append(q, r)]
  <1>0. /\ ClientType /\ Reads(c) /\ Fresh(c) /\ cpc[c] = "server" /\ TableType
        /\ lock = c /\ s \in Services /\ k \in 1..len /\ cpc[c] \in Scanning
    BY DEF CacheInv, TableInv, scan_server, Reads, Scanning
  <1>1. UNCHANGED <<table, servers, ask, ops>>
    BY DEF scan_server
  <1>2. CASE Throw(c) /\ unlock(c) /\ at' = at /\ cache' = cache
    BY SMTT(40), <1>0, <1>1, <1>2, ThrowInv
  <1>3. CASE /\ adv[k].server # bad
             /\ cache' = [cache EXCEPT ![c][s].queues = Append(@, r)]
             /\ at' = [at EXCEPT ![c] = [slot |-> @.slot + 1, queue |-> bad]]
             /\ cpc' = [cpc EXCEPT ![c] = "scan"]
             /\ last' = last /\ lock' = lock
    <2>1. r \in Route
      BY <1>0, <1>3, SlotRoute
    <2>2. q \in Seq(Route) /\ cache[c][s] \in ServiceEntry /\ cache[c][s].rev \in Nat
      BY <1>0, EntryIs
    <2>3. Append(q, r) \in Seq(Route) /\
          {Append(q, r)[i] : i \in 1..Len(Append(q, r))} = {q[i] : i \in 1..Len(q)} \cup {r}
      BY <2>1, <2>2, RoutesAppend
    <2>4. e \in ServiceEntry /\ e.rev = cache[c][s].rev /\ e.queues = Append(q, r)
      BY ZenonT(60), <2>2, <2>3, EntryEdits
    <2>5. cache' = [cache EXCEPT ![c][s] = e]
      BY <1>0, <1>3 DEF ClientType
    <2> HIDE DEF e
    <2>6. /\ cache' \in [Clients -> [Services -> ServiceEntry]]
          /\ \A d \in Clients : d # c => cache'[d] = cache[d]
          /\ cache'[c][s].rev = cache[c][s].rev /\ cache'[c][s].queues = Append(q, r)
          /\ \A x \in Services : x # s => cache'[c][x] = cache[c][x]
      BY ZenonT(60), <1>0, <2>4, <2>5, EntryChanged
    <2>7. [slot |-> k + 1, queue |-> bad] \in [slot : 1..(MaxAdv + 1), queue : Queues \cup {bad}]
      BY <1>0, CacheAssumption DEF TableType
    <2>8. /\ ClientType' /\ at'[c].slot = k + 1 /\ cpc'[c] = "scan"
          /\ \A d \in Clients : d # c => at'[d] = at[d] /\ cpc'[d] = cpc[d]
      BY <1>0, <1>1, <1>3, <2>6, <2>7 DEF ClientType
    <2>9. UNCHANGED <<adv, len, revision, ads, sop, ask, lock>>
      BY <1>1, <1>3 DEF table, servers
    <2>10. Reads(c)'
      BY <1>0, <2>8, <2>9 DEF Reads, Scanning
    <2>11. Fresh(c)'
      <3>0. \A x \in Lasting : x \in Services
        BY SMTT(40) DEF Lasting
      <3>1. \A x \in Lasting : cache'[c][x].rev <= revision'[x]
        BY ZenonT(60), <1>0, <2>6, <2>9, <3>0 DEF Fresh
      <3>2. s \in Lasting => cache'[c][s].rev < revision'[s]
        BY <1>0, <2>6, <2>9 DEF Fresh, Scanning
      <3>3. s \in Lasting => Routes(c, s)' = Seen(c)'
        <4> SUFFICES ASSUME s \in Lasting PROVE Routes(c, s)' = Seen(c)'
          OBVIOUS
        <4>1. /\ Routes(c, s) = Seen(c) /\ adv[k].service = s
              /\ at[c].queue = adv[k].queue
          BY <1>0 DEF Fresh, Scanning
        <4>2. RouteAt(k) = r
          BY SMTT(40), <4>1 DEF RouteAt
        <4> HIDE DEF q, r
        <4>3. Routes(c, s)' = Routes(c, s) \cup {r}
          BY ZenonT(60), <2>3, <2>6, <2>9 DEF Routes, q
        <4>4. Seen(c)' = Seen(c) \cup {RouteAt(k)}
          <5>1. \A j \in 1..len : j < k + 1 <=> j < k \/ j = k
            <6>1. k \in 1..len
              BY <1>0
            <6> HIDE DEF k
            <6> QED
              BY <6>1
          <5>2. {j \in 1..len : j < k + 1 /\ adv[j].service = s}
                  = {j \in 1..len : j < k /\ adv[j].service = s} \cup {k}
            BY <1>0, <4>1, <5>1
          <5>3. Seen(c)' = {RouteAt(j) : j \in {j \in 1..len : j < k + 1 /\ adv[j].service = s}}
            BY <2>8, <2>9 DEF Seen, RouteAt
          <5> QED
            BY <5>2, <5>3 DEF Seen
        <4> QED
          BY <4>1, <4>2, <4>3, <4>4
      <3>4. \A x \in Lasting : cache'[c][x].rev = revision'[x] /\ Settled(x)'
              => Routes(c, x)' = Advertised(x)'
        <4> SUFFICES ASSUME NEW x \in Lasting, cache'[c][x].rev = revision'[x], Settled(x)'
                     PROVE  Routes(c, x)' = Advertised(x)'
          OBVIOUS
        <4>1. x # s
          <5>1. CASE x = s
            <6>1. cache'[c][s].rev < revision'[s] /\ revision'[s] \in Nat
              BY <1>0, <2>9, <3>2, <5>1 DEF TableType
            <6> QED
              BY <5>1, <6>1
          <5> QED
            BY <5>1
        <4>2. cache'[c][x] = cache[c][x]
          BY <2>6, <3>0, <4>1
        <4> QED
          BY <1>0, <2>9, <4>2 DEF Fresh, Routes, Settled, Advertised
      <3> QED
        BY <2>8, <2>9, <3>1, <3>2, <3>3, <3>4 DEF Fresh
    <2> QED
      BY ZenonT(60), <1>1, <1>3, <2>6, <2>8, <2>10, <2>11, ClientStep
  <1> QED
    BY SMTT(40), <1>2, <1>3 DEF scan_server, Goto

\* What the lock guarantees at the end of a scan.
LEMMA ScannedAll ==
  ASSUME CacheInv, NEW c \in Clients, lock = c, ask[c].service \in Lasting,
         at[c].slot > len
  PROVE  Seen(c) = Advertised(ask[c].service)
  <1> DEFINE s == ask[c].service
  <1>0. TableInv /\ TableType /\ s \in Services /\ s \notin Withdrawn /\ s # bad /\ c \notin Servers
    BY CacheAssumption DEF CacheInv, TableInv, Lasting
  <1>1. \A v \in Servers : sop[v].service # s
    BY <1>0 DEF TableInv, OpInv
  <1>2. \A j \in 1..len : j < at[c].slot
    <2>1. at[c].slot \in Nat /\ len \in Nat
      BY <1>0 DEF CacheInv, ClientType, TableType
    <2> QED
      BY <2>1
  <1>3. ASSUME NEW i \in 1..len, adv[i].service = s
        PROVE  RouteAt(i) \in Advertised(s)
    <2>1. adv[i].server # bad
      BY <1>0, <1>3 DEF TableInv, SlotInv
    <2>2. adv[i].server \in Servers
      BY <1>0, <2>1, UsedSlots
    <2>3. adv[i] = MyAd(adv[i].server, s) /\ s \in ads[adv[i].server]
      <3>1. /\ adv[i] = MyAd(adv[i].server, adv[i].service)
            /\ \/ adv[i].service \in ads[adv[i].server]
               \/ sop[adv[i].server].service = adv[i].service
        BY <1>0, <2>1 DEF TableInv, SlotInv
      <3> QED
        BY <1>1, <1>3, <2>2, <3>1
    <2>4. RouteAt(i) = [grp |-> GrpOf[adv[i].server], queue |-> QueueOf[adv[i].server]]
      BY <2>3, MyAdFields DEF RouteAt
    <2> QED
      BY <2>2, <2>3, <2>4 DEF Advertised
  <1>4. ASSUME NEW v \in Servers, s \in ads[v]
        PROVE  [grp |-> GrpOf[v], queue |-> QueueOf[v]] \in Seen(c)
    <2>1. PICK i \in 1..len : adv[i] = MyAd(v, s)
      BY <1>0, <1>4 DEF TableInv, FoundInv
    <2>2. adv[i].service = s /\ RouteAt(i) = [grp |-> GrpOf[v], queue |-> QueueOf[v]]
      BY <2>1, MyAdFields DEF RouteAt
    <2> QED
      BY <1>2, <2>2 DEF Seen
  <1> QED
    BY <1>3, <1>4 DEF Seen, Advertised

LEMMA ScanEndInv ==
  ASSUME CacheInv, NEW c \in Clients, scan_end(c)
  PROVE  CacheInv'
  <1> DEFINE s == ask[c].service
             e == [cache[c][s] EXCEPT !.rev = revision[s]]
  <1>0. /\ ClientType /\ Reads(c) /\ Fresh(c) /\ cpc[c] = "scan" /\ TableType
        /\ lock = c /\ s \in Services /\ cpc[c] \in Scanning /\ at[c].slot > len
    BY DEF CacheInv, TableInv, scan_end, Reads, Scanning
  <1>1. /\ UNCHANGED <<table, servers, ask, at, last, ops>>
        /\ cache' = [cache EXCEPT ![c][s].rev = revision[s]]
        /\ lock' = bad /\ bad # c
        /\ cpc' = [cpc EXCEPT ![c] = "balance"]
    BY <1>0, CacheAssumption DEF scan_end, Goto, unlock
  <1>2. e \in ServiceEntry /\ e.rev = revision[s] /\ e.queues = cache[c][s].queues
    <2>1. revision[s] \in Nat
      BY <1>0 DEF TableType
    <2> QED
      BY <1>0, <2>1, EntryIs, EntryEdits
  <1>3. cache' = [cache EXCEPT ![c][s] = e]
    BY <1>0, <1>1 DEF ClientType
  <1> HIDE DEF e
  <1>4. /\ cache' \in [Clients -> [Services -> ServiceEntry]]
        /\ \A d \in Clients : d # c => cache'[d] = cache[d]
        /\ cache'[c][s].rev = revision[s] /\ cache'[c][s].queues = cache[c][s].queues
        /\ \A x \in Services : x # s => cache'[c][x] = cache[c][x]
    BY ZenonT(60), <1>0, <1>2, <1>3, EntryChanged
  <1>5. ClientType' /\ cpc'[c] = "balance" /\ \A d \in Clients : d # c => cpc'[d] = cpc[d]
    BY <1>0, <1>1, <1>4 DEF ClientType
  <1>6. Reads(c)'
    BY <1>0, <1>1, <1>5 DEF Reads, Scanning
  <1>7. Fresh(c)'
    <2>0. UNCHANGED <<revision, ads, sop>> /\ \A x \in Lasting : x \in Services /\ revision[x] \in Nat
      BY <1>0, <1>1 DEF table, servers, Lasting, TableType
    <2>1. \A x \in Lasting : cache'[c][x].rev <= revision'[x]
      <3> SUFFICES ASSUME NEW x \in Lasting PROVE cache'[c][x].rev <= revision'[x]
        OBVIOUS
      <3>1. CASE x = s
        BY <1>4, <2>0, <3>1
      <3>2. CASE x # s
        BY <1>0, <1>4, <2>0, <3>2 DEF Fresh
      <3> QED
        BY <3>1, <3>2
    <2>2. /\ cpc'[c] \notin Scanning \cup {"lock"} /\ cpc'[c] \notin {"queue", "server"}
          /\ cpc'[c] # "lock"
      BY <1>5 DEF Scanning
    <2>3. ASSUME NEW x \in Lasting, cache'[c][x].rev = revision'[x], Settled(x)'
          PROVE  Routes(c, x)' = Advertised(x)'
      <3>0. Routes(c, x)' = Routes(c, x) /\ Settled(x) /\ Advertised(x)' = Advertised(x)
        BY SMTT(40), <1>4, <2>0, <2>3 DEF Routes, Settled, Advertised
      <3>1. CASE x = s
        <4>1. Seen(c) = Advertised(s)
          BY <1>0, <2>3, <3>1, ScannedAll
        <4>2. Routes(c, s) = Seen(c)
          BY <1>0, <2>3, <3>1 DEF Fresh
        <4> QED
          BY <3>0, <3>1, <4>1, <4>2
      <3>2. CASE x # s
        <4>1. cache[c][x].rev = revision[x]
          BY <1>4, <2>0, <2>3, <3>2
        <4> QED
          BY <1>0, <2>3, <3>0, <4>1 DEF Fresh
      <3> QED
        BY <3>1, <3>2
    <2> QED
      BY <2>1, <2>2, <2>3 DEF Fresh
  <1> QED
    BY <1>0, <1>1, <1>4, <1>5, <1>6, <1>7, ClientStep

LEMMA LoadBalanceInv ==
  ASSUME CacheInv, NEW c \in Clients, load_balance(c)
  PROVE  CacheInv'
  <1> DEFINE s == ask[c].service
             q == cache[c][s].queues
  <1>0. /\ ClientType /\ Reads(c) /\ cpc[c] = "balance" /\ s \in Services /\ lock # c
    BY DEF CacheInv, load_balance, Reads, Scanning
  <1>1. /\ UNCHANGED <<table, lock, servers, ask, at, ops>>
        /\ cpc' = [cpc EXCEPT ![c] = "idle"]
    BY DEF load_balance, Goto
  <1>2. q \in Seq(Route) /\ Len(q) \in Nat /\ \A i \in 1..Len(q) : q[i].queue \in Queues
    <2>1. q \in Seq(Route)
      BY <1>0, EntryIs
    <2> HIDE DEF q
    <2>2. \A i \in 1..Len(q) : q[i] \in Route
      BY <2>1
    <2> QED
      BY <2>1, <2>2 DEF Route
  <1>3. /\ cache' \in [Clients -> [Services -> ServiceEntry]]
        /\ last' \in [Clients -> Queues \cup {bad}]
        /\ \A d \in Clients : d # c => cache'[d] = cache[d]
        /\ \A x \in Services : /\ cache'[c][x].rev = cache[c][x].rev
                               /\ cache'[c][x].queues = cache[c][x].queues
    <2>1. CASE last' = [last EXCEPT ![c] = bad] /\ cache' = cache
      BY <1>0, <2>1 DEF ClientType
    <2>2. CASE q # <<>> /\ round_robin(c)
      <3> DEFINE n == (cache[c][s].current + 1) % Len(q)
                 e == [cache[c][s] EXCEPT !.current = n]
      <3>1. Len(q) > 0
        <4> HIDE DEF q
        <4> QED
          BY <1>2, <2>2
      <3>2. n \in 0..(Len(q) - 1) /\ n \in Nat /\ n + 1 \in 1..Len(q)
        <4>1. cache[c][s].current + 1 \in Nat /\ Len(q) \in Nat
          BY SMTT(40), <1>0, <1>2, EntryIs
        <4> HIDE DEF q
        <4> QED
          BY <3>1, <4>1
      <3>3. cache' = [cache EXCEPT ![c][s].current = n]
            /\ last' = [last EXCEPT ![c] = q[n + 1].queue]
        BY <2>2 DEF round_robin, entry
      <3> HIDE DEF n
      <3>4. e \in ServiceEntry /\ e.rev = cache[c][s].rev /\ e.queues = q
        BY <1>0, <3>2, EntryIs, EntryEdits
      <3>5. cache' = [cache EXCEPT ![c][s] = e]
        BY <1>0, <3>3 DEF ClientType
      <3> HIDE DEF e
      <3>6. /\ cache' \in [Clients -> [Services -> ServiceEntry]]
            /\ \A d \in Clients : d # c => cache'[d] = cache[d]
            /\ cache'[c][s] = e
            /\ \A x \in Services : x # s => cache'[c][x] = cache[c][x]
        BY ZenonT(60), <1>0, <3>4, <3>5, EntryChanged
      <3>7. q[n + 1].queue \in Queues
        BY <1>2, <3>2
      <3>8. last' \in [Clients -> Queues \cup {bad}]
        BY <1>0, <3>3, <3>7 DEF ClientType
      <3> QED
        BY <3>4, <3>6, <3>8
    <2>3. CASE of_group(c)
      <3> DEFINE G == {i \in 1..Len(q) : q[i].grp = ask[c].grp}
                 x == IF G = {} THEN bad ELSE q[First(G)].queue
      <3>1. last' = [last EXCEPT ![c] = x] /\ cache' = cache
        BY <2>3 DEF of_group, entry
      <3>2. G # {} => First(G) \in G
        <4>1. G \subseteq Nat
          BY SMTT(40), <1>2
        <4> HIDE DEF G
        <4> QED
          BY <4>1, SmallestExists
      <3>3. x \in Queues \cup {bad}
        BY <1>2, <3>2
      <3> HIDE DEF x
      <3> QED
        BY SMTT(40), <1>0, <3>1, <3>3 DEF ClientType
    <2> QED
      BY <2>1, <2>2, <2>3 DEF load_balance, entry
  <1>4. ClientType' /\ cpc'[c] = "idle" /\ \A d \in Clients : d # c => cpc'[d] = cpc[d]
    BY <1>0, <1>1, <1>3 DEF ClientType
  <1>5. Reads(c)'
    BY <1>0, <1>1, <1>4 DEF Reads, Scanning
  <1>6. Fresh(c)'
    BY <1>1, <1>3, <1>4, SameFresh
  <1> QED
    BY <1>1, <1>3, <1>4, <1>5, <1>6, ClientStep

LEMMA NextCacheInv == CacheInv /\ [Next]_vars => CacheInv'
  <1> SUFFICES ASSUME CacheInv, [Next]_vars PROVE CacheInv'
    OBVIOUS
  <1>1. ASSUME NEW c \in Clients, Client(c) PROVE CacheInv'
    BY <1>1, GetEntryInv, RefreshInv, DataLockInv, ScanInv, ScanQueueInv, ScanServerInv,
       ScanEndInv, LoadBalanceInv DEF Client
  <1>2. ASSUME NEW v \in Servers, Server(v) PROVE CacheInv'
    BY <1>2, ServerKeepsClients
  <1>3. CASE UNCHANGED vars
    <2>1. UNCHANGED <<table, servers, ops, lock, cpc, ask, at, cache, last>>
      BY <1>3 DEF vars, table, servers
    <2>2. TableInv'
      BY <2>1, ClientKeepsTable DEF CacheInv, TableInv, TableType
    <2>3. ClientType'
      BY <2>1 DEF CacheInv, ClientType
    <2>4. ASSUME NEW c \in Clients PROVE Reads(c)' /\ Fresh(c)'
      <3>0. Reads(c) /\ Fresh(c) /\ UNCHANGED <<adv, len, revision, ads, sop>>
        BY <2>1 DEF CacheInv, table, servers
      <3>1. Reads(c)'
        BY <2>1, <3>0 DEF Reads
      <3>2. /\ \A s : Routes(c, s)' = Routes(c, s) /\ Settled(s)' = Settled(s)
                      /\ Advertised(s)' = Advertised(s)
            /\ Seen(c)' = Seen(c)
        BY <2>1, <3>0 DEF Routes, Settled, Advertised, Seen, RouteAt
      <3>3. Fresh(c)'
        BY <2>1, <3>0, <3>2 DEF Fresh
      <3> QED
        BY <3>1, <3>3
    <2> QED
      BY <2>2, <2>3, <2>4 DEF CacheInv
  <1> QED
    BY <1>1, <1>2, <1>3 DEF Next

-----------------------------------------------------------------------------
(* The theorems *)

\* The inductive invariant: the table, the clients' reads and their caches.
THEOREM CacheInvariant == Spec => []CacheInv
  BY InitCacheInv, NextCacheInv, PTL DEF Spec

\* The variables keep their types; no slot is used past the end of the table
\* (advertise of mib.cpp) and no lookup reads outside it.
THEOREM TypeCorrect == Spec => []TypeOK
  <1>1. CacheInv => TypeOK
    BY DEF CacheInv, TableInv, TableType, ClientType, TypeOK
  <1> QED
    BY <1>1, CacheInvariant, PTL

\* Each service of an idle server has exactly one slot and an idle server has
\* no other, whatever the others are in the middle of (advertise and
\* unadvertise of mib.cpp).
THEOREM TableIsRight == Spec => []TableMatchesServers
  <1>1. ASSUME TableInv PROVE TableMatchesServers
    <2> SUFFICES ASSUME NEW v \in Servers, spc[v] = "idle", NEW s \in Services
                 PROVE  Cardinality(Matching(MyAd(v, s))) = IF s \in ads[v] THEN 1 ELSE 0
      BY DEF TableMatchesServers
    <2> DEFINE M == Matching(MyAd(v, s))
    <2>0. v # bad /\ s # bad /\ sop[v].service = bad
      BY <1>1, CacheAssumption DEF TableInv, OpInv
    <2>1. CASE s \in ads[v]
      <3>1. PICK i \in 1..len : adv[i] = MyAd(v, s)
        BY <1>1, <2>1 DEF TableInv, FoundInv
      <3>2. \A j \in M : j = i
        <4> SUFFICES ASSUME NEW j \in 1..len, adv[j] = MyAd(v, s) PROVE j = i
          BY DEF Matching
        <4>1. adv[j].server = v /\ adv[i].server = v /\ adv[i].service = adv[j].service
          BY <3>1, MyAdFields
        <4> QED
          BY <1>1, <2>0, <4>1 DEF TableInv, OnceInv
      <3>3. i \in M
        BY <3>1 DEF Matching
      <3>4. M = {i}
        BY <3>2, <3>3
      <3> HIDE DEF M
      <3>5. Cardinality(M) = 1
        BY <3>4, FS_Singleton
      <3> QED
        BY <2>1, <3>5 DEF M
    <2>2. CASE s \notin ads[v]
      <3>1. M = {}
        <4> SUFFICES ASSUME NEW i \in 1..len, adv[i] = MyAd(v, s) PROVE FALSE
          BY DEF Matching
        <4>1. adv[i].server = v /\ adv[i].service = s
          BY MyAdFields
        <4> QED
          BY <1>1, <2>0, <2>2, <4>1 DEF TableInv, SlotInv
      <3> HIDE DEF M
      <3>2. Cardinality(M) = 0
        BY <3>1, FS_EmptySet
      <3> QED
        BY <2>2, <3>2 DEF M
    <2> QED
      BY <2>1, <2>2
  <1>2. CacheInv => TableInv
    BY DEF CacheInv
  <1> QED
    BY <1>1, <1>2, CacheInvariant, PTL

\* A client whose revision of a service that is never withdrawn is current has
\* all of the service's routes and no other (refresh of svcrepo.h), although
\* slots next to them are cleared without data_lock.
THEOREM CacheIsCoherent == Spec => []Coherent
  <1>1. CacheInv => Coherent
    BY SMTT(40) DEF CacheInv, Fresh, Coherent, Current, Lasting
  <1> QED
    BY <1>1, CacheInvariant, PTL

\* Only a scan adds a route to a cache.
LEMMA RouteAdded ==
  ASSUME CacheInv, [Next]_vars, NEW c \in Clients, NEW s \in Services,
         NEW r \in Routes(c, s)' \ Routes(c, s)
  PROVE  \E v \in Servers : /\ r = [grp |-> GrpOf[v], queue |-> QueueOf[v]]
                            /\ s \in ads[v] \/ sop[v].service = s
  <1>0. ClientType /\ \A d \in Clients : cpc[d] # "idle" => ask[d].service \in Services
    BY DEF CacheInv, Reads
  <1>1. cache'[c][s].queues # cache[c][s].queues
    BY DEF Routes
  <1>2. ASSUME NEW d \in Clients, NEW x \in Services, NEW e,
               cache' = [cache EXCEPT ![d][x] = e],
               e.queues = cache[d][x].queues \/ e.queues = <<>>
        PROVE  FALSE
    <2>1. cache'[c][s] = IF c = d /\ s = x THEN e ELSE cache[c][s]
      BY <1>0, <1>2 DEF ClientType
    <2>2. c = d /\ s = x /\ cache'[c][s].queues = <<>>
      BY <1>1, <1>2, <2>1
    <2> QED
      BY <2>2 DEF Routes
  <1>3. PICK d \in Clients : Client(d)
    BY ZenonT(60), <1>1 DEF Next, Server, vars, tpadvertise, tpadvertise_limit, tpunadvertise,
                unadvertise, modified_read, modified, clients
  <1>4. ASSUME NEW x \in Services, NEW g \in Groups \cup {bad}, get_entry(d, x, g)
        PROVE  FALSE
    <2> DEFINE e == [cache[d][x] EXCEPT !.present = TRUE]
    <2>1. cache' = cache \/ cache' = [cache EXCEPT ![d][x] = e]
      BY <1>0, <1>4 DEF get_entry, ClientType
    <2>2. e.queues = cache[d][x].queues
      BY <1>0, EntryIs DEF ServiceEntry
    <2> HIDE DEF e
    <2> QED
      BY <1>1, <1>2, <2>1, <2>2
  <1> DEFINE y == ask[d].service
  <1>5. ASSUME refresh(d) PROVE FALSE
    <2> DEFINE e == [cache[d][y] EXCEPT !.queues = <<>>]
    <2>0. y \in Services
      BY <1>0, <1>5 DEF refresh
    <2>1. cache' = cache \/ cache' = [cache EXCEPT ![d][y] = e]
      BY <1>0, <1>5, <2>0 DEF refresh, ClientType
    <2>2. e.queues = <<>>
      BY <1>0, <2>0, EntryIs, EntryEdits
    <2> HIDE DEF e
    <2> QED
      BY <1>1, <1>2, <2>0, <2>1, <2>2
  <1>6. ASSUME scan_end(d) PROVE FALSE
    <2> DEFINE e == [cache[d][y] EXCEPT !.rev = revision[y]]
    <2>0. y \in Services
      BY <1>0, <1>6 DEF scan_end
    <2>1. cache' = [cache EXCEPT ![d][y] = e]
      BY <1>0, <1>6, <2>0 DEF scan_end, ClientType
    <2>2. e.queues = cache[d][y].queues
      <3>1. revision[y] \in Nat
        BY <2>0 DEF CacheInv, TableInv, TableType
      <3> QED
        BY <1>0, <2>0, <3>1, EntryIs, EntryEdits
    <2> HIDE DEF e
    <2> QED
      BY <1>2, <2>0, <2>1, <2>2
  <1>7. ASSUME load_balance(d) PROVE FALSE
    <2> DEFINE n == (cache[d][y].current + 1) % Len(cache[d][y].queues)
               e == [cache[d][y] EXCEPT !.current = n]
    <2>0. y \in Services
      BY SMTT(40), <1>0, <1>7 DEF load_balance
    <2>1. cache' = cache \/ cache' = [cache EXCEPT ![d][y].current = n]
      BY <1>7 DEF load_balance, round_robin, of_group, entry
    <2> HIDE DEF n
    <2>2. cache' = cache \/ cache' = [cache EXCEPT ![d][y] = e]
      BY <1>0, <2>0, <2>1 DEF ClientType
    <2>3. e.queues = cache[d][y].queues
      BY <1>0, <2>0, EntryIs DEF ServiceEntry
    <2> HIDE DEF e
    <2> QED
      BY <1>1, <1>2, <2>0, <2>2, <2>3
  <1>8. scan_server(d)
    BY SMTT(40), <1>1, <1>3, <1>4, <1>5, <1>6, <1>7
    DEF Client, data_lock, scan, scan_queue
  <1> DEFINE k == at[d].slot
             v == adv[k].server
             t == [grp |-> GrpOf[v], queue |-> at[d].queue]
             q == cache[d][y].queues
  <1>9. /\ cpc[d] = "server" /\ y \in Services /\ v # bad
        /\ cache' = [cache EXCEPT ![d][y].queues = Append(@, t)]
    BY SMTT(40), <1>0, <1>1, <1>8 DEF scan_server
  <1>10. /\ v \in Servers /\ at[d].queue = QueueOf[v] /\ t \in Route
         /\ y \in ads[v] \/ sop[v].service = y
    BY SMTT(40), <1>9, SlotRoute
  <1>11. cache'[d][y].queues = Append(q, t)
         /\ \A a \in Clients, x \in Services : a # d \/ x # y => cache'[a][x] = cache[a][x]
    <2> DEFINE e == [cache[d][y] EXCEPT !.queues = Append(q, t)]
    <2>1. Append(q, t) \in Seq(Route) /\ cache[d][y] \in ServiceEntry
      BY SMTT(40), <1>0, <1>9, <1>10, EntryIs, RoutesAppend
    <2>2. e \in ServiceEntry /\ e.queues = Append(q, t)
      BY ZenonT(60), <2>1, EntryEdits
    <2>3. cache' = [cache EXCEPT ![d][y] = e]
      BY <1>0, <1>9 DEF ClientType
    <2> HIDE DEF e
    <2>a. ClientType /\ y \in Services /\ e \in ServiceEntry
      BY <1>0, <1>9, <2>2
    <2> HIDE DEF y
    <2>4. /\ \A a \in Clients : a # d => cache'[a] = cache[a]
          /\ cache'[d][y] = e
          /\ \A x \in Services : x # y => cache'[d][x] = cache[d][x]
      BY ZenonT(60), <2>a, <2>3, EntryChanged
    <2> QED
      BY <2>2, <2>4
  <1>12. c = d /\ s = y
    BY <1>1, <1>11
  <1>13. Routes(c, s)' = Routes(c, s) \cup {t}
    <2>1. q \in Seq(Route)
      BY SMTT(40), <1>0, <1>9, EntryIs
    <2>2. {Append(q, t)[i] : i \in 1..Len(Append(q, t))} = {q[i] : i \in 1..Len(q)} \cup {t}
      BY ZenonT(60), <1>10, <2>1, RoutesAppend
    <2>3. cache'[c][s].queues = Append(q, t) /\ cache[c][s].queues = q
      BY <1>11, <1>12
    <2> HIDE DEF t, q
    <2>4. Routes(c, s)' = {Append(q, t)[i] : i \in 1..Len(Append(q, t))}
      BY <2>3 DEF Routes
    <2>5. Routes(c, s) = {q[i] : i \in 1..Len(q)}
      BY <2>3 DEF Routes
    <2> QED
      BY <2>2, <2>4, <2>5
  <1>14. r = t
    BY <1>13
  <1> QED
    BY <1>10, <1>12, <1>14

\* A route that enters a cache is the route of one server that advertises the
\* service or is just withdrawing it: a scan never mixes two generations of a
\* slot (refresh of svcrepo.h against unadvertise of mib.cpp).
THEOREM RoutesAreReal == Spec => CachedRouteIsReal
  <1>1. CacheInv /\ [Next]_vars =>
          [\A c \in Clients, s \in Services :
             \A r \in Routes(c, s)' \ Routes(c, s) :
               \E v \in Servers : /\ r = [grp |-> GrpOf[v], queue |-> QueueOf[v]]
                                  /\ s \in ads[v] \/ sop[v].service = s]_vars
    BY RouteAdded
  <1> QED
    BY <1>1, CacheInvariant, PTL DEF Spec, CachedRouteIsReal
=============================================================================
