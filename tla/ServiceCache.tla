---------------------------- MODULE ServiceCache ----------------------------
(***************************************************************************)
(* Service advertisement and the clients' service cache.  Servers change   *)
(* the advertisement table in shared memory (tpadvertisex and              *)
(* tpunadvertise of src/src/server.cpp, advertise and unadvertise of       *)
(* src/src/mib.cpp); clients keep a copy per service, refreshed when the   *)
(* service's revision changes (src/src/svcrepo.h).                         *)
(*                                                                         *)
(* advertise and the refresh run under the data_lock semaphore, unadvertise*)
(* does not: its stores are separate steps here, and so are the loads of   *)
(* the refresh and the read-modify-write of the revision.                  *)
(***************************************************************************)
EXTENDS Naturals, Sequences, FiniteSets

CONSTANTS Servers, Clients, Services, Queues, Groups,
          QueueOf,        \* server -> its request queue (shared for MSSQ)
          GrpOf,          \* server -> its group
          MaxAdv,         \* size of the advertisement table
          Withdrawn,      \* the services some server calls tpunadvertise for
          MaxOps,         \* bound: table changes in a behaviour
          bad             \* badoff

ASSUME CacheAssumption ==
  /\ QueueOf \in [Servers -> Queues]
  /\ GrpOf \in [Servers -> Groups]
  /\ MaxAdv \in Nat \ {0}
  /\ MaxOps \in Nat
  /\ Withdrawn \subseteq Services
  /\ bad \notin Servers \cup Clients \cup Services \cup Queues \cup Groups
  /\ Servers \cap Clients = {}

VARIABLES
  adv,        \* advertisements(): slot -> service, queue, server
  len,        \* advertisements()->len
  known,      \* services that have a services() entry
  revision,   \* service::revision
  lock,       \* holder of data_lock, or bad
  ads,        \* server_main::advertisements, per server
  spc, sop,   \* where each server is, and the service and slot it works on
  srev,       \* the revision a server has read and not yet written
  cpc,        \* where each client is in get_queue
  ask,        \* the service and group it looks up
  at,         \* its position in the scan and the queue it has read
  cache,      \* services_: client -> service -> service_entry
  last,       \* the queue its last get_queue returned, bad if it threw
  ops         \* table changes so far

table == <<adv, len, known, revision>>
servers == <<ads, spc, sop, srev>>
clients == <<cpc, ask, at, cache, last>>
vars == <<adv, len, known, revision, lock, ads, spc, sop, srev, cpc, ask, at,
          cache, last, ops>>

Slot == 1..MaxAdv
Slots == [service : Services \cup {bad}, queue : Queues \cup {bad},
          server : Servers \cup {bad}]
FreeSlot == [service |-> bad, queue |-> bad, server |-> bad]
Route == [grp : Groups, queue : Queues]
ServiceEntry == [present : BOOLEAN, queues : Seq(Route), current : Nat, rev : Nat]
NoEntry == [present |-> FALSE, queues |-> <<>>, current |-> 0, rev |-> 0]

TypeOK ==
  /\ adv \in [Slot -> Slots]
  /\ len \in 0..MaxAdv
  /\ known \subseteq Services
  /\ revision \in [Services -> Nat]
  /\ lock \in Servers \cup Clients \cup {bad}
  /\ ads \in [Servers -> SUBSET Services]
  /\ spc \in [Servers -> {"idle", "server", "queue", "service", "read", "write"}]
  /\ sop \in [Servers -> [service : Services \cup {bad}, slot : Slot]]
  /\ srev \in [Servers -> Nat]
  /\ cpc \in [Clients -> {"idle", "refresh", "lock", "scan", "queue", "server",
                          "balance"}]
  /\ ask \in [Clients -> [service : Services \cup {bad}, grp : Groups \cup {bad}]]
  /\ at \in [Clients -> [slot : 1..(MaxAdv + 1), queue : Queues \cup {bad}]]
  /\ cache \in [Clients -> [Services -> ServiceEntry]]
  /\ last \in [Clients -> Queues \cup {bad}]
  /\ ops \in 0..MaxOps

Init ==
  /\ adv = [i \in Slot |-> FreeSlot]
  /\ len = 0
  /\ known = {}
  /\ revision = [s \in Services |-> 0]
  /\ lock = bad
  /\ ads = [v \in Servers |-> {}]
  /\ spc = [v \in Servers |-> "idle"]
  /\ sop = [v \in Servers |-> [service |-> bad, slot |-> 1]]
  /\ srev = [v \in Servers |-> 0]
  /\ cpc = [c \in Clients |-> "idle"]
  /\ ask = [c \in Clients |-> [service |-> bad, grp |-> bad]]
  /\ at = [c \in Clients |-> [slot |-> 1, queue |-> bad]]
  /\ cache = [c \in Clients |-> [s \in Services |-> NoEntry]]
  /\ last = [c \in Clients |-> bad]
  /\ ops = 0

-----------------------------------------------------------------------------
(* Servers.  The mutex of server_main makes the operations of one server    *)
(* sequential; calls that fail their checks change nothing.                 *)

\* find_advertisement(service, queue, server): the first matching slot.
Matching(e) == {i \in 1..len : adv[i] = e}
First(S) == CHOOSE i \in S : \A j \in S : i <= j

\* Mutant: a slot is taken for free as soon as its server is cleared.
free_slot_half ==
  LET F == {i \in 1..len : adv[i].server = bad}
  IN IF F # {} THEN First(F) ELSE len + 1

\* The slot advertise() fills: the first free one, else one past the end.
free_slot ==
  LET F == Matching(FreeSlot) IN IF F # {} THEN First(F) ELSE len + 1

MyAd(v, s) == [service |-> s, queue |-> QueueOf[v], server |-> v]

\* tpadvertisex of a new service: takes data_lock, fills a slot.
tpadvertise(v, s) ==
  /\ spc[v] = "idle"
  /\ s \notin ads[v]
  /\ ops < MaxOps
  /\ lock = bad
  /\ free_slot \in Slot
  /\ Matching(MyAd(v, s)) = {}
  /\ lock' = v
  /\ known' = known \cup {s}
  /\ adv' = [adv EXCEPT ![free_slot] = MyAd(v, s)]
  /\ len' = IF free_slot > len THEN free_slot ELSE len
  /\ spc' = [spc EXCEPT ![v] = "read"]
  /\ sop' = [sop EXCEPT ![v] = [service |-> s, slot |-> free_slot]]
  /\ ops' = ops + 1
  /\ UNCHANGED <<revision, ads, srev, clients>>

\* The table is full: at() throws after make_service, TPELIMIT.
tpadvertise_limit(v, s) ==
  /\ spc[v] = "idle"
  /\ s \notin ads[v]
  /\ lock = bad
  /\ free_slot \notin Slot
  /\ known' = known \cup {s}
  /\ UNCHANGED <<adv, len, revision, lock, servers, clients, ops>>

\* tpunadvertise: forgets the service and finds the slot, without data_lock.
tpunadvertise(v, s) ==
  /\ s \in Withdrawn
  /\ spc[v] = "idle"
  /\ s \in ads[v]
  /\ ops < MaxOps
  /\ ads' = [ads EXCEPT ![v] = @ \ {s}]
  /\ sop' = [sop EXCEPT ![v] = [service |-> s, slot |-> First(Matching(MyAd(v, s)))]]
  /\ spc' = [spc EXCEPT ![v] = "server"]
  /\ ops' = ops + 1
  /\ UNCHANGED <<table, lock, srev, clients>>

\* advertisement.service = advertisement.queue = advertisement.server = badoff
unadvertise(v) ==
  /\ \/ /\ spc[v] = "server"
        /\ adv' = [adv EXCEPT ![sop[v].slot].server = bad]
        /\ spc' = [spc EXCEPT ![v] = "queue"]
     \/ /\ spc[v] = "queue"
        /\ adv' = [adv EXCEPT ![sop[v].slot].queue = bad]
        /\ spc' = [spc EXCEPT ![v] = "service"]
     \/ /\ spc[v] = "service"
        /\ adv' = [adv EXCEPT ![sop[v].slot].service = bad]
        /\ spc' = [spc EXCEPT ![v] = "read"]
  /\ UNCHANGED <<len, known, revision, lock, ads, sop, srev, clients, ops>>

\* Mutant: the change is not announced.
modified_silent(v) ==
  /\ spc[v] = "write"
  /\ spc' = [spc EXCEPT ![v] = "idle"]
  /\ lock' = IF lock = v THEN bad ELSE lock
  /\ ads' = IF lock = v THEN [ads EXCEPT ![v] = @ \cup {sop[v].service}] ELSE ads
  /\ sop' = [sop EXCEPT ![v].service = bad]
  /\ srev' = [srev EXCEPT ![v] = 0]
  /\ UNCHANGED <<table, clients, ops>>

\* revision++: a load, then a store.
modified_read(v) ==
  /\ spc[v] = "read"
  /\ srev' = [srev EXCEPT ![v] = revision[sop[v].service]]
  /\ spc' = [spc EXCEPT ![v] = "write"]
  /\ UNCHANGED <<table, lock, ads, sop, clients, ops>>

\* The store ends the operation; advertise() releases data_lock and the
\* server adds the service to its own map.
modified(v) ==
  /\ spc[v] = "write"
  /\ revision' = [revision EXCEPT ![sop[v].service] = srev[v] + 1]
  /\ spc' = [spc EXCEPT ![v] = "idle"]
  /\ lock' = IF lock = v THEN bad ELSE lock
  /\ ads' = IF lock = v THEN [ads EXCEPT ![v] = @ \cup {sop[v].service}] ELSE ads
  /\ sop' = [sop EXCEPT ![v].service = bad]
  /\ srev' = [srev EXCEPT ![v] = 0]
  /\ UNCHANGED <<adv, len, known, clients, ops>>

-----------------------------------------------------------------------------
(* Clients: service_repository::get_queue.  A client waits for data_lock    *)
(* when it first meets a service and when it refreshes; the comparison of   *)
(* the revisions and the rest of get_queue run without it.                  *)

entry(c) == cache[c][ask[c].service]
Goto(c, label) == cpc' = [cpc EXCEPT ![c] = label]
Throw(c) == Goto(c, "idle") /\ last' = [last EXCEPT ![c] = bad]

\* get_entry: an unknown service throws, a new entry starts at revision 0.
get_entry(c, s, g) ==
  /\ cpc[c] = "idle"
  /\ ~cache[c][s].present => lock = bad
  /\ ask' = [ask EXCEPT ![c] = [service |-> s, grp |-> g]]
  /\ IF cache[c][s].present \/ s \in known
     THEN /\ cache' = [cache EXCEPT ![c][s].present = TRUE]
          /\ Goto(c, "refresh")
          /\ UNCHANGED last
     ELSE /\ Throw(c)
          /\ UNCHANGED cache
  /\ UNCHANGED <<table, lock, servers, at, ops>>

\* The revision is compared before the lock is taken.
refresh(c) ==
  /\ cpc[c] = "refresh"
  /\ IF entry(c).rev # revision[ask[c].service]
     THEN /\ cache' = [cache EXCEPT ![c][ask[c].service].queues = <<>>]
          /\ Goto(c, "lock")
     ELSE /\ Goto(c, "balance")
          /\ UNCHANGED cache
  /\ UNCHANGED <<table, lock, servers, ask, at, last, ops>>

\* Mutant: the table is scanned without the lock.
data_lock_none(c) ==
  /\ cpc[c] = "lock"
  /\ at' = [at EXCEPT ![c] = [slot |-> 1, queue |-> bad]]
  /\ Goto(c, "scan")
  /\ UNCHANGED <<table, lock, servers, ask, cache, last, ops>>

data_lock(c) ==
  /\ cpc[c] = "lock"
  /\ lock = bad
  /\ lock' = c
  /\ at' = [at EXCEPT ![c] = [slot |-> 1, queue |-> bad]]
  /\ Goto(c, "scan")
  /\ UNCHANGED <<table, servers, ask, cache, last, ops>>

unlock(c) == lock' = IF lock = c THEN bad ELSE lock

\* One slot of the loop, up to the comparison of the service.
scan(c) ==
  /\ cpc[c] = "scan"
  /\ at[c].slot <= len
  /\ IF adv[at[c].slot].service = ask[c].service
     THEN Goto(c, "queue") /\ UNCHANGED at
     ELSE at' = [at EXCEPT ![c].slot = @ + 1] /\ UNCHANGED cpc
  /\ UNCHANGED <<table, lock, servers, ask, cache, last, ops>>

\* queues().at(a.queue): a cleared slot throws and the lock is released.
scan_queue(c) ==
  /\ cpc[c] = "queue"
  /\ IF adv[at[c].slot].queue = bad
     THEN Throw(c) /\ unlock(c) /\ UNCHANGED at
     ELSE /\ at' = [at EXCEPT ![c].queue = adv[at[c].slot].queue]
          /\ Goto(c, "server")
          /\ UNCHANGED <<last, lock>>
  /\ UNCHANGED <<table, servers, ask, cache, ops>>

\* servers().at(a.server), then the pair is pushed.
scan_server(c) ==
  /\ cpc[c] = "server"
  /\ IF adv[at[c].slot].server = bad
     THEN Throw(c) /\ unlock(c) /\ UNCHANGED <<at, cache>>
     ELSE /\ cache' = [cache EXCEPT ![c][ask[c].service].queues =
                         Append(@, [grp |-> GrpOf[adv[at[c].slot].server],
                                    queue |-> at[c].queue])]
          /\ at' = [at EXCEPT ![c] = [slot |-> @.slot + 1, queue |-> bad]]
          /\ Goto(c, "scan")
          /\ UNCHANGED <<last, lock>>
  /\ UNCHANGED <<table, servers, ask, ops>>

\* The revision is read again after the scan, then the lock is released.
scan_end(c) ==
  /\ cpc[c] = "scan"
  /\ at[c].slot > len
  /\ cache' = [cache EXCEPT ![c][ask[c].service].rev = revision[ask[c].service]]
  /\ unlock(c)
  /\ Goto(c, "balance")
  /\ UNCHANGED <<table, servers, ask, at, last, ops>>

\* Mutant: the position is not kept between calls.
round_robin_reset(c) ==
  /\ last' = [last EXCEPT ![c] = entry(c).queues[1].queue]
  /\ UNCHANGED cache

\* The next queue in turn.
round_robin(c) ==
  LET n == (entry(c).current + 1) % Len(entry(c).queues)
  IN /\ cache' = [cache EXCEPT ![c][ask[c].service].current = n]
     /\ last' = [last EXCEPT ![c] = entry(c).queues[n + 1].queue]

\* The first queue of the group asked for; none throws.
of_group(c) ==
  LET G == {i \in 1..Len(entry(c).queues) :
              entry(c).queues[i].grp = ask[c].grp}
  IN /\ last' = [last EXCEPT ![c] =
                   IF G = {} THEN bad ELSE entry(c).queues[First(G)].queue]
     /\ UNCHANGED cache

load_balance(c) ==
  /\ cpc[c] = "balance"
  /\ Goto(c, "idle")
  /\ \/ /\ entry(c).queues = <<>>
        /\ last' = [last EXCEPT ![c] = bad]
        /\ UNCHANGED cache
     \/ entry(c).queues # <<>> /\ ask[c].grp = bad /\ round_robin(c)
     \/ entry(c).queues # <<>> /\ ask[c].grp # bad /\ of_group(c)
  /\ UNCHANGED <<table, lock, servers, ask, at, ops>>

-----------------------------------------------------------------------------
Client(c) ==
  \/ \E s \in Services, g \in Groups \cup {bad} : get_entry(c, s, g)
  \/ refresh(c) \/ data_lock(c) \/ scan(c) \/ scan_queue(c) \/ scan_server(c)
  \/ scan_end(c) \/ load_balance(c)

Server(v) ==
  \/ \E s \in Services : \/ tpadvertise(v, s) \/ tpadvertise_limit(v, s)
                         \/ tpunadvertise(v, s)
  \/ unadvertise(v) \/ modified_read(v) \/ modified(v)

Next == (\E c \in Clients : Client(c)) \/ (\E v \in Servers : Server(v))

Spec == Init /\ [][Next]_vars

\* Threads inside an operation keep running, a lock that is free again and
\* again is eventually obtained, and clients call every service through the
\* round robin again and again.
Fairness ==
  /\ \A v \in Servers : WF_vars(unadvertise(v) \/ modified_read(v) \/ modified(v))
  /\ \A c \in Clients :
       /\ WF_vars(refresh(c) \/ scan(c) \/ scan_queue(c) \/ scan_server(c)
                  \/ scan_end(c) \/ load_balance(c))
       /\ SF_vars(data_lock(c))
       /\ \A s \in Services : SF_vars(get_entry(c, s, bad))

FairSpec == Spec /\ Fairness

-----------------------------------------------------------------------------
(* Properties *)

\* The routes a service has: those of the servers that advertise it and are
\* not in the middle of a change.
Advertised(s) == {[grp |-> GrpOf[v], queue |-> QueueOf[v]] :
                    v \in {w \in Servers : s \in ads[w]}}
Settled(s) == \A v \in Servers : sop[v].service # s
Routes(c, s) == {cache[c][s].queues[i] : i \in 1..Len(cache[c][s].queues)}

\* The table agrees with the servers' own maps whatever half-done
\* unadvertise the others are in: each service of an idle server has exactly
\* one slot, and an idle server has no other slot (slots are reused only when
\* all three fields are cleared, mib.cpp advertise).
TableMatchesServers ==
  \A v \in Servers : spc[v] = "idle" =>
    \A s \in Services :
      Cardinality(Matching(MyAd(v, s))) = (IF s \in ads[v] THEN 1 ELSE 0)

\* A route is never read out of two generations of a slot: what enters a
\* client's cache is the route of a server that advertises the service, or is
\* just withdrawing it, at that moment.
CachedRouteIsReal ==
  [][\A c \in Clients, s \in Services :
       \A r \in Routes(c, s)' \ Routes(c, s) :
         \E v \in Servers : /\ r = [grp |-> GrpOf[v], queue |-> QueueOf[v]]
                            /\ s \in ads[v] \/ sop[v].service = s]_vars

\* A client whose cache of s is up to date by revision has the routes the
\* servers advertise for s.
Current(s) ==
  \A c \in Clients :
    /\ cpc[c] = "idle" /\ cache[c][s].present
    /\ cache[c][s].rev = revision[s] /\ Settled(s)
    => Routes(c, s) = Advertised(s)

\* A service that is never withdrawn is cached correctly: a client whose
\* revision is current has all of its routes and no other, although slots next
\* to it are cleared and filled again without the lock (svcrepo.h refresh).
Coherent == \A s \in Services \ Withdrawn : Current(s)

\* The same of the services that are withdrawn, so that a call after
\* tpunadvertise fails with TPENOENT (install-tests/tpadvertise/client.c:29-31).
WithdrawnIsGone == \A s \in Withdrawn : Current(s)

\* The round robin reaches every queue of a service that stays advertised.
EveryQueueServes ==
  \A c \in Clients, s \in Services \ Withdrawn, v \in Servers :
    [](s \in ads[v] => []<>(ask[c].service = s /\ last[c] = QueueOf[v]))
=============================================================================
