---------------------------- MODULE DomainProofs ----------------------------
(***************************************************************************)
(* Proofs about module Domain, for any number of servers, clients and      *)
(* entries and any number of commands, forks and deaths: one process of a  *)
(* server receives, servers of one address share one queue, a queue is     *)
(* named or its creator was killed or too late, and a client keeps its own.*)
(***************************************************************************)
EXTENDS Domain, FiniteSetTheorems, WellFoundedInduction, TLAPS

-----------------------------------------------------------------------------
(* Types *)

Users == Clients \cup {adm}
ServerEntry == [srv : Servers, pid : Inst \cup {none}, state : {"INV", "INA", "ACT", "SUS"}]
Accesser == [pid : Users \cup {none}, rpid : Users \cup {none}]

\* Where a process is before it is attached; where the server it has become is
\* before it serves.
Attaching == {"shmget", "create", "spin", "ubb2mib", "make_server"}
Up == {"rqaddr", "qcreate", "msqid", "advertise", "active", "serve", "putback", "stopping"}
Joining == {"rpid", "rpid_store"}
ClientAt == {"off", "tpinit", "in", "dead", "late", "left"} \cup Joining
              \cup (Attaching \ {"shmget"})
InstAt == {"off", "dead", "left"} \cup Attaching \cup Up
AdmAt == {"off", "boot", "wait", "tpinit", "shutdown", "reply", "remove", "rmid"}
           \cup Joining \cup Attaching

Types ==
  /\ table \in Seq(ServerEntry)
  /\ msqid \in [Addresses -> Inst \cup {none}]
  /\ acc \in Seq(Accesser)
  /\ ipc \subseteq Procs
  /\ pc \in [Procs -> ClientAt \cup InstAt \cup AdmAt]
  /\ \A c \in Clients : pc[c] \in ClientAt
  /\ \A p \in Inst : pc[p] \in InstAt
  /\ pc[adm] \in AdmAt
  /\ at \in [Procs -> Nat]
  /\ rq \in [Inst -> Inst \cup {none}]
  /\ raced \subseteq Users
  /\ wd \in [at : {"scan", "server", "clean"}, i : Nat]

\* Process p goes to l, and its position to i; the others stay.
Moves(p, l, i) ==
  /\ pc' = [pc EXCEPT ![p] = l]
  /\ at' = [at EXCEPT ![p] = i]

LEMMA SmallestExists ==
  ASSUME NEW S \in SUBSET Nat, S # {}
  PROVE  \E c \in S : \A d \in S : c <= d
  <1> DEFINE R == OpToRel(<, Nat)
  <1>1. PICK c \in S : \A d \in S : ~ (<<d, c>> \in R)
    <2>1. IsWellFoundedOn(R, Nat)
      BY NatLessThanWellFounded
    <2>2. S \subseteq Nat /\ S # {}
      OBVIOUS
    <2> HIDE DEF R
    <2>3. QED
      BY <2>1, <2>2, WFMin
  <1>2. \A d \in S : ~ (d < c)
    BY <1>1 DEF OpToRel
  <1>3. QED
    BY <1>2

\* Servers are numbered; the kinds of processes are apart.
LEMMA Kinds ==
  /\ Servers = 1..Len(Rqaddr) /\ Len(Rqaddr) \in Nat /\ 1 \in Servers
  /\ Cardinality(Servers) = Len(Rqaddr)
  /\ adm \in Procs /\ adm \in Users /\ adm \notin Clients /\ adm \notin Inst /\ adm # none
  /\ Clients \subseteq Procs /\ Inst \subseteq Procs /\ Users \subseteq Procs
  /\ Procs = Users \cup Inst /\ Users \cap Inst = {}
  /\ none \notin Procs
  /\ \A p \in Inst : p[1] \in Servers /\ Queue(p) \in Addresses
  <1>1. /\ Servers = 1..Len(Rqaddr) /\ Len(Rqaddr) \in Nat /\ 1 \in Servers
    BY DomainAssumption DEF Servers
  <1>2. Cardinality(Servers) = Len(Rqaddr)
    <2>1. Len(Rqaddr) \in Int /\ 1 \in Int /\ ~(1 > Len(Rqaddr))
      BY <1>1
    <2>2. Cardinality(1..Len(Rqaddr)) = Len(Rqaddr) - 1 + 1
      BY <2>1, FS_Interval
    <2> QED
      BY <1>1, <2>1, <2>2
  <1>3. \A p \in Inst : p[1] \in Servers
    BY DEF Inst
  <1> QED
    BY <1>1, <1>2, <1>3, DomainAssumption DEF Procs, Users, Queue, Addresses

-----------------------------------------------------------------------------
(* The first entry of a server *)

First(i, s, tab) ==
  i \in 1..Len(tab) /\ tab[i].srv = s /\ \A j \in 1..(i - 1) : tab[j].srv # s

\* The table only grows, and an entry stays its server's.
Grows(tab, nab) ==
  /\ Len(tab) \in Nat /\ Len(nab) \in Nat /\ Len(tab) <= Len(nab)
  /\ \A i \in 1..Len(tab) : nab[i].srv = tab[i].srv

LEMMA FoundFirst ==
  ASSUME NEW tab \in Seq(ServerEntry), NEW s, Known(s, tab)
  PROVE  First(find_server(s, tab), s, tab)
  <1> DEFINE S == {i \in 1..Len(tab) : tab[i].srv = s}
  <1>1. S \in SUBSET Nat /\ S # {} /\ S \subseteq 1..Len(tab)
    BY DEF Known
  <1> HIDE DEF S
  <1>2. PICK i \in S : \A j \in S : i <= j
    BY <1>1, SmallestExists
  <1>3. i \in 1..Len(tab) /\ tab[i].srv = s /\ \A j \in 1..(i - 1) : tab[j].srv # s
    BY <1>2 DEF S
  <1>4. \E k \in 1..Len(tab) : tab[k].srv = s /\ \A j \in 1..(k - 1) : tab[j].srv # s
    BY <1>3
  <1> QED
    BY <1>4 DEF First, find_server

LEMMA FirstUnique ==
  ASSUME NEW i, NEW j, NEW s, NEW tab, First(i, s, tab), First(j, s, tab), Len(tab) \in Nat
  PROVE  i = j
  BY DEF First

LEMMA FirstGrows ==
  ASSUME NEW i, NEW s, NEW tab, NEW nab, First(i, s, tab), Grows(tab, nab)
  PROVE  First(i, s, nab)
  <1>1. Len(tab) \in Nat /\ Len(nab) \in Nat /\ Len(tab) <= Len(nab) /\ i \in 1..Len(tab)
    BY DEF First, Grows
  <1>2. i \in 1..Len(nab) /\ \A j \in 1..(i - 1) : j \in 1..Len(tab)
    BY <1>1
  <1> QED
    BY <1>1, <1>2 DEF First, Grows

LEMMA AppendGrows ==
  ASSUME NEW tab \in Seq(ServerEntry), NEW e \in ServerEntry
  PROVE  /\ Append(tab, e) \in Seq(ServerEntry) /\ Grows(tab, Append(tab, e))
         /\ \A i \in 1..Len(tab) : Append(tab, e)[i] = tab[i]
  BY DEF Grows

\* An entry changes its state or its process and nothing else.
LEMMA EntryGrows ==
  ASSUME NEW tab \in Seq(ServerEntry), NEW i \in 1..Len(tab), NEW e \in ServerEntry,
         e.srv = tab[i].srv
  PROVE  /\ [tab EXCEPT ![i] = e] \in Seq(ServerEntry) /\ Grows(tab, [tab EXCEPT ![i] = e])
         /\ Len([tab EXCEPT ![i] = e]) = Len(tab)
         /\ \A j \in 1..Len(tab) : [tab EXCEPT ![i] = e][j] = IF j = i THEN e ELSE tab[j]
  BY DEF Grows

LEMMA SameGrows ==
  ASSUME NEW tab \in Seq(ServerEntry)
  PROVE  Grows(tab, tab)
  BY DEF Grows

\* Positions are in the tables they are for; a server's is its first entry.
Places ==
  /\ \A p \in Procs : pc[p] \in {"ubb2mib", "make_server"} => at[p] \in Servers
  /\ \A p \in Inst : pc[p] \in Up => First(at[p], p[1], table)
  /\ \A u \in Users : pc[u] \in Joining \cup {"in"} => at[u] \in 1..Len(acc)
  /\ pc[adm] = "boot" => at[adm] > 0
  /\ pc[adm] = "wait" => at[adm] \in 1..Len(table)
  /\ pc[adm] \in {"shutdown", "reply"} => at[adm] \in 0..Len(table)
  /\ pc[adm] = "reply" => at[adm] > 0
  /\ wd.at = "server" => wd.i \in 1..Len(table)
  /\ wd.at = "clean" => wd.i \in 1..Len(acc)

\* A server that starts is the one tmboot waits for, so that there is one at a
\* time; its entry is not active before it is.
Starting == Attaching \cup {"rqaddr", "qcreate", "msqid", "advertise", "active"}
ForkedOf(s) == {k \in 1..MaxForks : pc[<<s, k>>] # "off"}
BootInv ==
  /\ \A s \in Servers : \E n \in 0..MaxForks : ForkedOf(s) = 1..n
  /\ \A p \in Inst : pc[p] \in Starting =>
       /\ pc[adm] = "wait" /\ Entry.state = "INA" /\ Entry.srv = p[1]
       /\ p[2] = Cardinality(ForkedOf(p[1]))

LEMMA OneStarts ==
  ASSUME BootInv, NEW p \in Inst, NEW q \in Inst, pc[p] \in Starting, pc[q] \in Starting
  PROVE  p = q
  BY DEF BootInv, Inst

\* What a server that runs has advertised keeps others of its kind away.
OneServes == \A p, q \in Inst : Serving(p) /\ Serving(q) /\ p[1] = q[1] => p = q
InstInv ==
  /\ \A p \in Inst : Serving(p) => at[p] \in ads
  /\ OneServes

\* A queue is created when there is none, and used by all servers of the address;
\* before it is stored nobody has it.  Who is left over when the resources are
\* removed has none that exists: each was listed.
Bound == {"advertise", "active", "serve", "putback", "stopping"}
Fresh == {"off", "rqaddr", "qcreate", "msqid"} \cup Attaching
QueueInv ==
  /\ \A p \in Inst : pc[p] \in {"qcreate", "msqid"} => msqid[Queue(p)] = none
  /\ \A p \in Inst : pc[p] \in Bound => rq[p] = msqid[Queue(p)] /\ rq[p] # none
  /\ \A q \in Inst : q \in ipc => pc[q] = "msqid" \/ q \in missed \/ msqid[Queue(q)] = q
  /\ \A q \in Inst : pc[q] \in Fresh =>
       (\A p \in Inst : rq[p] # q) /\ (\A a \in Addresses : msqid[a] # q)
  /\ \A p, q \in Inst : pc[p] = "left" /\ rq[p] = q => q \notin ipc
  /\ pc[adm] = "rmid" => \A a \in Addresses : msqid[a] \in found

\* An entry belongs to one process, which is there or dead, and so does the
\* queue in it; one that has a queue has the entry, too.
Held == {"in", "shutdown", "reply"}
Using == Joining \cup {"dead"} \cup Held
AccInv ==
  /\ \A u \in Users : pc[u] \in Joining \cup {"in"} => acc[at[u]].pid = u
  /\ pc[adm] \in {"shutdown", "reply"} => \E i \in 1..Len(acc) : acc[i].pid = adm
  /\ \A i \in 1..Len(acc) : acc[i].pid # none => pc[acc[i].pid] \in Using
  /\ \A i \in 1..Len(acc) : acc[i].rpid # none => pc[acc[i].rpid] \in Using \ Joining
  /\ \A i \in 1..Len(acc) :
       acc[i].rpid # none /\ pc[acc[i].rpid] \in Held => acc[i].pid = acc[i].rpid
  /\ \A i, j \in 1..Len(acc) : acc[i].pid = acc[j].pid /\ acc[i].pid # none => i = j
  /\ \A i, j \in 1..Len(acc) : acc[i].rpid = acc[j].rpid /\ acc[i].rpid # none => i = j

\* The watchdog cleans an entry that nobody has, or that was taken too early.
\* Without such clients every reply queue that is stored is in an entry.
Kept(u) ==
  pc[u] = "rpid_store" \/ u \in missed \/ \E i \in 1..Len(acc) : acc[i].rpid = u
CleanInv ==
  /\ wd.at = "clean" => acc[wd.i].pid \in {none} \cup raced
  /\ raced = {} => \A u \in Users : pc[u] \in Joining => acc[at[u]].rpid = none
  /\ raced = {} => \A u \in Users : u \in ipc => Kept(u)
  /\ \A u \in Users : pc[u] = "rpid_store" => u \in ipc
  /\ pc[adm] = "rmid" =>
       \A i \in 1..Len(acc) : acc[i].rpid # none => acc[i].rpid \in found \cup missed
  /\ OwnReplyQueue

DomainInv == Types /\ Places /\ BootInv /\ InstInv /\ QueueInv /\ AccInv /\ CleanInv

-----------------------------------------------------------------------------
(* What the steps do.  A process that attaches *)

\* What p may become when it has got the bulletin board with table tab.
Becomes(p, l, i, tab) ==
  \/ l \in {"create", "spin"} /\ i = at[p]
  \/ l \in {"ubb2mib", "make_server"} /\ i \in Servers
  \/ l = "dead" /\ p # adm
  \/ l = "off" /\ p = adm
  \/ l = "rqaddr" /\ p \in Inst /\ First(i, p[1], tab)
  \/ l = "boot" /\ p = adm /\ i = 1
  \/ l = "tpinit" /\ p \in Users
  \/ l = "remove" /\ p = adm

Attaches(p) ==
  /\ pc[p] \in Attaching \cup {"off"} /\ (pc[p] = "off" => p \in Clients)
  /\ \E l, i : i \in Nat /\ Moves(p, l, i) /\ Becomes(p, l, i, table')
  /\ table' \in Seq(ServerEntry) /\ Grows(table, table')
  /\ \A i \in 1..Len(table) : table'[i] = table[i]
  /\ UNCHANGED <<msqid, ads, acc, ipc, rq, wd, raced, missed, found>>

LEMMA Stays ==
  ASSUME Types, NEW p \in Procs, NEW l, Go(p, l), UNCHANGED at
  PROVE  Moves(p, l, at[p]) /\ at[p] \in Nat
  BY DEF Types, Go, Moves

LEMMA Goes ==
  ASSUME NEW p, NEW l, NEW i, To(p, l, i)
  PROVE  Moves(p, l, i)
  BY DEF To, Go, Moves

LEMMA Dies ==
  ASSUME Types, NEW p \in Procs, Die(p), UNCHANGED at
  PROVE  Moves(p, IF p = adm THEN "off" ELSE "dead", at[p]) /\ at[p] \in Nat
  BY DEF Types, Die, Moves

LEMMA ReadyBecomes ==
  ASSUME NEW p \in Procs, NEW tab \in Seq(ServerEntry), Ready(p, tab)
  PROVE  \E l, i : i \in Nat /\ Moves(p, l, i) /\ Becomes(p, l, i, tab)
  <1>1. CASE p \in Inst /\ Known(p[1], tab)
    <2> DEFINE i == find_server(p[1], tab)
    <2>1. Moves(p, "rqaddr", i)
      BY <1>1, Goes DEF Ready
    <2>2. First(i, p[1], tab) /\ i \in Nat
      BY <1>1, FoundFirst DEF First
    <2> HIDE DEF i
    <2> QED
      BY <1>1, <2>1, <2>2 DEF Becomes
  <1>2. CASE p \in Inst /\ ~Known(p[1], tab)
    <2>1. Moves(p, "dead", 0) /\ p # adm
      BY <1>2, Goes, Kinds DEF Ready
    <2> QED
      BY <2>1 DEF Becomes
  <1>3. CASE p = adm /\ cmd = "tmboot"
    <2>1. Moves(p, "boot", 1)
      BY <1>3, Goes, Kinds DEF Ready
    <2> QED
      BY <1>3, <2>1 DEF Becomes
  <1>4. CASE p \notin Inst /\ ~(p = adm /\ cmd = "tmboot")
    <2>1. Moves(p, "tpinit", 0) /\ p \in Users
      BY <1>4, Goes, Kinds DEF Ready
    <2> QED
      BY <2>1 DEF Becomes
  <1> QED
    BY <1>1, <1>2, <1>3, <1>4

LEMMA AttachedBecomes ==
  ASSUME Types, NEW p \in Procs, Attached(p)
  PROVE  \E l, i : i \in Nat /\ Moves(p, l, i) /\ Becomes(p, l, i, table)
  <1>1. CASE p = adm /\ cmd = "tmipcrm"
    <2>1. Go(p, "remove") /\ UNCHANGED at
      BY <1>1 DEF Attached
    <2>2. Moves(p, "remove", at[p]) /\ at[p] \in Nat
      BY <2>1, Stays
    <2> QED
      BY <1>1, <2>2 DEF Becomes
  <1>2. CASE ~(p = adm /\ cmd = "tmipcrm") /\ table = <<>>
    <2>1. Moves(p, "ubb2mib", 1) /\ 1 \in Servers
      BY <1>2, Goes, Kinds DEF Attached, getmib
    <2> QED
      BY <2>1 DEF Becomes
  <1>3. CASE ~(p = adm /\ cmd = "tmipcrm") /\ table # <<>>
    <2>1. Ready(p, table) /\ table \in Seq(ServerEntry)
      BY <1>3 DEF Attached, getmib, Types
    <2> QED
      BY <2>1, ReadyBecomes
  <1> QED
    BY <1>1, <1>2, <1>3

LEMMA AttachSteps ==
  ASSUME Types, Places, NEW p \in Procs, Attach(p)
  PROVE  Attaches(p)
  <1>1. /\ table \in Seq(ServerEntry) /\ Grows(table, table) /\ at[p] \in Nat
        /\ pc[p] = "shmget" => p \notin Clients
    BY SameGrows DEF Types, ClientAt, Attaching, Joining
  <1>2. CASE shmget(p)
    <2>1. PICK l \in {"create", "spin"} : Go(p, l) /\ UNCHANGED at
      BY <1>2 DEF shmget
    <2>2. Moves(p, l, at[p])
      BY <2>1, Stays
    <2>3. pc[p] \in {"shmget", "off"} /\ (pc[p] = "off" => p \in Clients)
      BY <1>2 DEF shmget
    <2>4. UNCHANGED <<table, msqid, ads, acc, ipc, rq, wd, raced, missed, found>>
      BY <1>2 DEF shmget, command, history
    <2>5. Becomes(p, l, at[p], table')
      BY DEF Becomes
    <2> QED
      BY <1>1, <2>2, <2>3, <2>4, <2>5 DEF Attaches, Attaching
  <1>3. CASE init_memory(p) \/ spin(p)
    <2>1. /\ Attached(p) /\ pc[p] \in {"create", "spin"}
          /\ UNCHANGED <<table, msqid, ads, acc, ipc, rq, wd, raced, missed, found>>
      BY <1>3 DEF init_memory, spin, board, command, history
    <2>2. \E l, i : i \in Nat /\ Moves(p, l, i) /\ Becomes(p, l, i, table)
      BY <2>1, AttachedBecomes
    <2> QED
      BY <1>1, <2>1, <2>2 DEF Attaches, Attaching
  <1>4. CASE ubb2mib(p)
    <2>1. /\ pc[p] = "ubb2mib" /\ at[p] \in Servers /\ UNCHANGED at
          /\ UNCHANGED <<table, msqid, ads, acc, ipc, rq, wd, raced, missed, found>>
      BY <1>4 DEF ubb2mib, Places, command, history
    <2>2. CASE Go(p, "make_server")
      <3>1. Moves(p, "make_server", at[p]) /\ Becomes(p, "make_server", at[p], table')
        BY <2>1, <2>2, Stays DEF Becomes
      <3> QED
        BY <1>1, <2>1, <3>1 DEF Attaches, Attaching
    <2>3. CASE Die(p)
      <3> DEFINE l == IF p = adm THEN "off" ELSE "dead"
      <3>1. Moves(p, l, at[p])
        BY <2>1, <2>3, Dies
      <3>2. Becomes(p, l, at[p], table')
        BY DEF Becomes
      <3> HIDE DEF l
      <3> QED
        BY <1>1, <2>1, <3>1, <3>2 DEF Attaches, Attaching
    <2> QED
      BY <1>4, <2>2, <2>3 DEF ubb2mib
  <1>5. CASE make_server(p)
    <2> DEFINE e == [srv |-> at[p], pid |-> none, state |-> "INV"]
    <2>1. /\ pc[p] = "make_server" /\ at[p] \in Servers /\ table' = Append(table, e)
          /\ UNCHANGED <<msqid, ads, acc, ipc, rq, wd, raced, missed, found>>
      BY <1>5 DEF make_server, Places, command, history
    <2>2. e \in ServerEntry
      BY <2>1 DEF ServerEntry
    <2> HIDE DEF e
    <2>3. /\ table' \in Seq(ServerEntry) /\ Grows(table, table')
          /\ \A i \in 1..Len(table) : table'[i] = table[i]
      BY <1>1, <2>1, <2>2, AppendGrows
    <2>4. \E l, i : i \in Nat /\ Moves(p, l, i) /\ Becomes(p, l, i, table')
      <3>1. CASE at[p] = Cardinality(Servers)
        <4>1. Ready(p, table')
          BY <1>5, <3>1 DEF make_server
        <4> QED
          BY <2>3, <4>1, ReadyBecomes
      <3>2. CASE at[p] # Cardinality(Servers)
        <4>1. Moves(p, "ubb2mib", at[p] + 1)
          BY <1>5, <3>2, Goes DEF make_server
        <4>2. at[p] + 1 \in Servers /\ at[p] + 1 \in Nat
          BY <2>1, <3>2, Kinds
        <4> QED
          BY <4>1, <4>2 DEF Becomes
      <3> QED
        BY <3>1, <3>2
    <2> QED
      BY <2>1, <2>3, <2>4 DEF Attaches, Attaching
  <1> QED
    BY <1>2, <1>3, <1>4, <1>5 DEF Attach

-----------------------------------------------------------------------------
(* A server *)

\* What a server that goes from pc[p] to l changes of the queues and the
\* advertisements.
Serves(p, l, i) ==
  \/ l \notin Up /\ UNCHANGED <<msqid, ads, rq, ipc>> /\ (pc[p] = "msqid" => p \in missed')
  \/ /\ pc[p] \in Attaching /\ l = "rqaddr" /\ First(i, p[1], table')
     /\ UNCHANGED <<msqid, ads, rq, ipc>>
  \/ /\ pc[p] = "rqaddr" /\ l = "qcreate" /\ i = at[p] /\ msqid[Queue(p)] = none
     /\ UNCHANGED <<msqid, ads, rq, ipc>>
  \/ /\ pc[p] = "rqaddr" /\ l = "advertise" /\ i = at[p] /\ msqid[Queue(p)] # none
     /\ rq' = [rq EXCEPT ![p] = msqid[Queue(p)]]
     /\ UNCHANGED <<msqid, ads, ipc>>
  \/ /\ pc[p] = "qcreate" /\ l = "msqid" /\ i = at[p]
     /\ ipc' = ipc \cup {p}
     /\ UNCHANGED <<msqid, ads, rq>>
  \/ /\ pc[p] = "msqid" /\ l = "advertise" /\ i = at[p]
     /\ msqid' = [msqid EXCEPT ![Queue(p)] = p]
     /\ rq' = [rq EXCEPT ![p] = p]
     /\ UNCHANGED <<ads, ipc>>
  \/ /\ pc[p] = "advertise" /\ l = "active" /\ i = at[p]
     /\ at[p] \notin ads /\ ads' = ads \cup {at[p]}
     /\ UNCHANGED <<msqid, rq, ipc>>
  \/ /\ pc[p] = "active" /\ l = "serve" /\ i = at[p]
     /\ UNCHANGED <<msqid, ads, rq, ipc>>
  \/ /\ pc[p] = "serve" /\ l \in {"putback", "stopping"} /\ i = at[p]
     /\ UNCHANGED <<msqid, ads, rq, ipc>>

InstMoves(p, l, i) ==
  /\ Moves(p, l, i) /\ i \in Nat
  /\ pc[p] \notin {"off", "dead"} /\ l \in InstAt \ {"off", "left"}
  /\ l \in Starting => pc[p] \in Starting
  /\ l \in Attaching => pc[p] \in Attaching
  /\ l \in {"ubb2mib", "make_server"} => i \in Servers
  /\ Serves(p, l, i)
  /\ table' \in Seq(ServerEntry) /\ Grows(table, table')
  /\ l = "serve" \/ \A j \in 1..Len(table) : table'[j].state \in {table[j].state, "INA"}
  /\ wd' \in {wd, Rest} /\ missed \subseteq missed'
  /\ UNCHANGED <<acc, raced, found>>

\* The state of one entry changes.
LEMMA Marked ==
  ASSUME NEW tab \in Seq(ServerEntry), NEW i \in 1..Len(tab),
         NEW st \in {"INV", "INA", "ACT", "SUS"}
  PROVE  LET nab == [tab EXCEPT ![i].state = st]
         IN /\ nab \in Seq(ServerEntry) /\ Grows(tab, nab) /\ Len(nab) = Len(tab)
            /\ \A j \in 1..Len(tab) : nab[j].state = IF j = i THEN st ELSE tab[j].state
  <1> DEFINE e == [tab[i] EXCEPT !.state = st]
  <1>1. tab[i] \in ServerEntry
    OBVIOUS
  <1>2. e \in ServerEntry /\ e.srv = tab[i].srv /\ e.state = st
    BY <1>1 DEF ServerEntry
  <1>3. [tab EXCEPT ![i].state = st] = [tab EXCEPT ![i] = e]
    OBVIOUS
  <1> HIDE DEF e
  <1> QED
    BY <1>2, <1>3, EntryGrows

LEMMA InstAttaches ==
  ASSUME DomainInv, NEW p \in Inst, Attach(p)
  PROVE  \E l, i : InstMoves(p, l, i)
  <1>1. Attaches(p)
    BY AttachSteps, Kinds DEF DomainInv
  <1>2. PICK l, i : i \in Nat /\ Moves(p, l, i) /\ Becomes(p, l, i, table')
    BY <1>1 DEF Attaches
  <1>3. p # adm /\ p \notin Users /\ p \notin Clients
    BY Kinds DEF Users
  <1>4. pc[p] \in Attaching
    BY <1>1, <1>3 DEF Attaches
  <1>5. \/ l \in {"create", "spin", "dead"}
        \/ l \in {"ubb2mib", "make_server"} /\ i \in Servers
        \/ l = "rqaddr" /\ First(i, p[1], table')
    BY <1>2, <1>3 DEF Becomes
  <1>6. /\ pc[p] \notin {"off", "dead", "msqid"} /\ l \in InstAt \ {"off", "left"}
        /\ pc[p] \in Starting
        /\ l = "rqaddr" \/ l \notin Up
    BY <1>4, <1>5 DEF Attaching, InstAt, Starting, Up
  <1>7. Serves(p, l, i)
    BY <1>1, <1>4, <1>5, <1>6 DEF Serves, Attaches
  <1> QED
    BY <1>1, <1>2, <1>4, <1>5, <1>6, <1>7 DEF InstMoves, Attaches

\* The watchdog's thread fails, and the BBL with it.
Fails(p) ==
  /\ pc[p] = "advertise" \/ Serving(p)
  /\ Die(p) /\ \E i \in 1..Len(acc) : handle_blocktime(i)

LEMMA InstServes ==
  ASSUME DomainInv, NEW p \in Inst,
         \/ Server(p) \/ (\E m \in stops : stop(p, m)) \/ leave(p) \/ kill(p)
         \/ Fails(p)
  PROVE  \E l, i : InstMoves(p, l, i)
  <1>1. /\ Types /\ p \in Procs /\ p # adm /\ at[p] \in Nat
        /\ table \in Seq(ServerEntry) /\ Grows(table, table)
        /\ pc[p] \in InstAt
    BY Kinds, SameGrows DEF DomainInv, Types
  <1>2. Watching => wd' \in {wd, Rest}
    BY DEF Watching
  <1>3. CASE rqaddr(p)
    <2>1. PICK l \in {"qcreate", "advertise"} :
            /\ Go(p, l) /\ pc[p] = "rqaddr" /\ UNCHANGED at
            /\ Serves(p, l, at[p])
            /\ UNCHANGED <<table, ipc, wd, acc, raced, missed, found>>
      BY <1>3 DEF rqaddr, Serves, board, command, history
    <2>2. Moves(p, l, at[p])
      BY <1>1, <2>1, Stays
    <2> QED
      BY <1>1, <2>1, <2>2 DEF InstMoves, InstAt, Starting, Up, Attaching
  \* The steps of a server that goes on in its table.
  <1>4. ASSUME NEW l \in {"msqid", "advertise", "active", "serve", "putback", "stopping"},
               Go(p, l), UNCHANGED at, Serves(p, l, at[p]),
               UNCHANGED <<acc, raced, missed, found>>, wd' \in {wd, Rest},
               pc[p] \in {"qcreate", "msqid", "advertise", "active"} \/ l \notin Starting,
               pc[p] \notin {"off", "dead"},
               table' = table \/ (l = "serve" /\ table' \in Seq(ServerEntry) /\ Grows(table, table'))
        PROVE  InstMoves(p, l, at[p])
    <2>1. Moves(p, l, at[p])
      BY <1>1, <1>4, Stays
    <2>2. l \in InstAt \ {"off", "left"} /\ l \notin Attaching \cup {"ubb2mib", "make_server"}
      BY <1>4 DEF InstAt, Up, Attaching
    <2>3. l \in Starting => pc[p] \in Starting
      BY <1>4 DEF Starting
    <2> QED
      BY <1>1, <1>4, <2>1, <2>2, <2>3 DEF InstMoves
  <1>5. CASE qcreate(p)
    <2>1. /\ Go(p, "msqid") /\ pc[p] = "qcreate" /\ UNCHANGED at
          /\ Serves(p, "msqid", at[p])
          /\ UNCHANGED <<table, wd, acc, raced, missed, found>>
      BY <1>5 DEF qcreate, Serves, command, history
    <2> QED
      BY <1>4, <2>1
  <1>6. CASE msqid_store(p)
    <2>1. /\ Go(p, "advertise") /\ pc[p] = "msqid" /\ UNCHANGED at
          /\ Serves(p, "advertise", at[p])
          /\ UNCHANGED <<table, wd, acc, raced, missed, found>>
      BY <1>6 DEF msqid_store, Serves, command, history
    <2> QED
      BY <1>4, <2>1
  <1>7. CASE advertise(p) /\ ~Die(p)
    <2>1. /\ Go(p, "active") /\ pc[p] = "advertise" /\ UNCHANGED at
          /\ Serves(p, "active", at[p])
          /\ UNCHANGED <<table, acc, raced, missed, found>> /\ wd' \in {wd, Rest}
      BY <1>2, <1>7 DEF advertise, Serves, Mine, command, history
    <2> QED
      BY <1>4, <2>1
  <1>8. CASE active(p)
    <2>1. /\ Go(p, "serve") /\ pc[p] = "active" /\ UNCHANGED at
          /\ Serves(p, "serve", at[p])
          /\ table' = [table EXCEPT ![at[p]].state = "ACT"]
          /\ UNCHANGED <<wd, acc, raced, missed, found>>
      BY <1>8 DEF active, Serves, Mine, command, history
    <2>2. at[p] \in 1..Len(table)
      BY <2>1 DEF DomainInv, Places, Up, First
    <2>3. table' \in Seq(ServerEntry) /\ Grows(table, table')
      BY <1>1, <2>1, <2>2, Marked
    <2> QED
      BY <1>4, <2>1, <2>3
  <1>9. CASE \E m \in stops : stop(p, m)
    <2>1. PICK l \in {"putback", "stopping"} :
            /\ Go(p, l) /\ pc[p] = "serve" /\ UNCHANGED at
            /\ UNCHANGED <<table, msqid, ads, ipc, rq, wd, acc, raced, missed, found>>
      BY <1>9 DEF stop, board, command, history
    <2>2. Serves(p, l, at[p])
      BY <2>1 DEF Serves
    <2>3. l \notin Starting
      BY <2>1 DEF Starting, Attaching
    <2> QED
      BY <1>4, <2>1, <2>2, <2>3
  \* A server ends.
  <1>10. ASSUME Moves(p, "dead", at[p]), pc[p] \notin {"off", "dead"},
               pc[p] = "msqid" => p \in missed', missed \subseteq missed',
               UNCHANGED <<msqid, ads, rq, ipc, acc, raced, found>>,
               wd' \in {wd, Rest}, table' \in Seq(ServerEntry), Grows(table, table'),
               \A j \in 1..Len(table) : table'[j].state \in {table[j].state, "INA"}
        PROVE  InstMoves(p, "dead", at[p])
    <2>1. Serves(p, "dead", at[p])
      BY <1>10 DEF Serves, Up
    <2>2. "dead" \in InstAt \ {"off", "left"} /\ "dead" \notin Starting \cup Attaching
      BY DEF InstAt, Starting, Up, Attaching
    <2> QED
      BY <1>1, <1>10, <2>1, <2>2 DEF InstMoves
  <1>11. CASE leave(p)
    <2>1. /\ Go(p, "dead") /\ UNCHANGED at /\ pc[p] \notin {"off", "dead", "msqid"}
          /\ UNCHANGED <<table, msqid, ads, rq, ipc, acc, wd, raced, missed, found>>
      BY <1>11 DEF leave, board, command, history
    <2>2. Moves(p, "dead", at[p])
      BY <1>1, <2>1, Stays
    <2> QED
      BY <1>1, <1>10, <2>1, <2>2
  <1>12. CASE svrinit(p) \/ (advertise(p) /\ Die(p)) \/ kill(p) \/ putback(p) \/ Fails(p)
    <2>1. /\ Die(p) /\ UNCHANGED at /\ pc[p] \notin {"off", "dead"}
          /\ UNCHANGED <<table, msqid, rq, ipc, acc, raced, found>>
          /\ pc[p] = "msqid" => p \in missed'
          /\ missed \subseteq missed' /\ wd' \in {wd, Rest}
      BY <1>2, <1>12 DEF svrinit, advertise, kill, putback, Fails, Serving,
              handle_blocktime, alive, Unnamed, command, history
    <2>2. ads' = ads
      <3>1. CASE advertise(p) /\ Die(p)
        <4>1. pc'[p] = "dead"
          BY <1>1, <3>1 DEF Die, Types
        <4>2. ~Go(p, "active")
          BY <1>1, <4>1 DEF Go, Types
        <4> QED
          BY <3>1, <4>2 DEF advertise
      <3> QED
        BY <1>12, <3>1 DEF svrinit, kill, putback, Fails, handle_blocktime
    <2>3. Moves(p, "dead", at[p])
      BY <1>1, <2>1, Dies
    <2> QED
      BY <1>1, <1>10, <2>1, <2>2, <2>3
  <1>13. CASE inactive(p)
    <2>1. /\ Die(p) /\ UNCHANGED at /\ pc[p] = "stopping"
          /\ UNCHANGED <<msqid, ads, rq, ipc, acc, raced, missed, found>>
          /\ wd' \in {wd, Rest}
          /\ table' = [table EXCEPT ![at[p]].state = "INA"]
      BY <1>2, <1>13 DEF inactive, Mine, command, history
    <2>2. at[p] \in 1..Len(table)
      BY <2>1 DEF DomainInv, Places, Up, First
    <2>3. table' \in Seq(ServerEntry) /\ Grows(table, table')
      BY <1>1, <2>1, <2>2, Marked
    <2>4. \A j \in 1..Len(table) :
            table'[j].state = IF j = at[p] THEN "INA" ELSE table[j].state
      BY <1>1, <2>1, <2>2, Marked
    <2>5. \A j \in 1..Len(table) : table'[j].state \in {table[j].state, "INA"}
      BY <2>4
    <2>6. Moves(p, "dead", at[p])
      BY <1>1, <2>1, Dies
    <2> QED
      BY <1>10, <2>1, <2>3, <2>5, <2>6
  <1> QED
    BY <1>3, <1>5, <1>6, <1>7, <1>8, <1>9, <1>11, <1>12, <1>13 DEF Server

LEMMA Moved ==
  ASSUME Types, NEW p \in Procs, NEW l, NEW i, Moves(p, l, i)
  PROVE  /\ \A q \in Procs : /\ pc'[q] = IF q = p THEN l ELSE pc[q]
                             /\ at'[q] = IF q = p THEN i ELSE at[q]
         /\ l \in ClientAt \cup InstAt \cup AdmAt =>
              pc' \in [Procs -> ClientAt \cup InstAt \cup AdmAt]
         /\ i \in Nat => at' \in [Procs -> Nat]
  <1>1. pc \in [Procs -> ClientAt \cup InstAt \cup AdmAt] /\ at \in [Procs -> Nat]
    BY DEF Types
  <1> QED
    BY <1>1 DEF Moves

LEMMA InstTypes ==
  ASSUME DomainInv, NEW p \in Inst, NEW l, NEW i, InstMoves(p, l, i)
  PROVE  Types' /\ Places'
  <1>1. Types /\ Places /\ p \in Procs /\ p # adm /\ p \notin Clients /\ p \notin Users
    BY Kinds DEF DomainInv, Users
  <1>2. /\ Moves(p, l, i) /\ i \in Nat /\ l \in InstAt /\ Serves(p, l, i)
        /\ table' \in Seq(ServerEntry) /\ Grows(table, table')
        /\ wd' \in {wd, Rest}
        /\ UNCHANGED <<acc, raced>>
        /\ l \in {"ubb2mib", "make_server"} => i \in Servers
    BY DEF InstMoves
  <1>15. ipc' \subseteq ipc \cup {p}
    BY <1>2 DEF Serves
  <1>3. /\ \A q \in Procs : /\ pc'[q] = IF q = p THEN l ELSE pc[q]
                            /\ at'[q] = IF q = p THEN i ELSE at[q]
        /\ pc' \in [Procs -> ClientAt \cup InstAt \cup AdmAt] /\ at' \in [Procs -> Nat]
    BY <1>1, <1>2, Moved
  <1>4. \A u \in Users : pc'[u] = pc[u] /\ at'[u] = at[u]
    BY <1>1, <1>3, Kinds
  <1>5. wd' \in [at : {"scan", "server", "clean"}, i : Nat]
    BY <1>1, <1>2 DEF Types, Rest
  <1>6. msqid' \in [Addresses -> Inst \cup {none}] /\ rq' \in [Inst -> Inst \cup {none}]
    <2>1. msqid \in [Addresses -> Inst \cup {none}] /\ rq \in [Inst -> Inst \cup {none}]
          /\ Queue(p) \in Addresses
      BY <1>1, Kinds DEF Types
    <2>2. \/ UNCHANGED <<msqid, rq>>
          \/ msqid' = msqid /\ rq' = [rq EXCEPT ![p] = msqid[Queue(p)]]
          \/ msqid' = [msqid EXCEPT ![Queue(p)] = p] /\ rq' = [rq EXCEPT ![p] = p]
      BY <1>2 DEF Serves
    <2> QED
      BY <2>1, <2>2
  <1>7. \A q \in Inst : pc'[q] \in InstAt
    BY <1>1, <1>2, <1>3, Kinds DEF Types
  <1>8. Types'
    <2>1. \A c \in Clients : pc'[c] \in ClientAt
      BY <1>1, <1>4 DEF Types, Users
    <2>2. pc'[adm] \in AdmAt
      BY <1>1, <1>4, Kinds DEF Types
    <2>3. ipc' \subseteq Procs /\ raced' \subseteq Users
      BY <1>1, <1>2, <1>15 DEF Types
    <2>4. acc' \in Seq(Accesser)
      BY <1>1, <1>2 DEF Types
    <2> QED
      BY <1>2, <1>3, <1>5, <1>6, <1>7, <2>1, <2>2, <2>3, <2>4 DEF Types
  <1>9. \A q \in Inst : pc'[q] \in Up => First(at'[q], q[1], table')
    <2> SUFFICES ASSUME NEW q \in Inst, pc'[q] \in Up
                 PROVE  First(at'[q], q[1], table')
      OBVIOUS
    <2>1. CASE pc[q] \in Up /\ at'[q] = at[q]
      <3>1. First(at[q], q[1], table)
        BY <1>1, <2>1 DEF Places
      <3> QED
        BY <1>2, <2>1, <3>1, FirstGrows
    <2>2. CASE q = p /\ ~(pc[q] \in Up /\ at'[q] = at[q])
      <3>1. at'[q] = i /\ pc'[q] = l
        BY <1>1, <1>3, <2>2
      <3>2. First(i, p[1], table') \/ (pc[p] \in Up /\ i = at[p])
        BY <1>2, <2>2, <3>1 DEF Serves, Up
      <3> QED
        BY <2>2, <3>1, <3>2
    <2>3. q # p => pc'[q] = pc[q] /\ at'[q] = at[q]
      BY <1>3, Kinds
    <2> QED
      BY <2>1, <2>2, <2>3
  <1>10. \A q \in Procs : pc'[q] \in {"ubb2mib", "make_server"} => at'[q] \in Servers
    BY <1>1, <1>2, <1>3 DEF Places
  <1>11. \A u \in Users : pc'[u] \in Joining \cup {"in"} => at'[u] \in 1..Len(acc')
    BY <1>1, <1>2, <1>4 DEF Places
  <1>12. /\ pc'[adm] = "boot" => at'[adm] > 0
         /\ pc'[adm] = "wait" => at'[adm] \in 1..Len(table')
         /\ pc'[adm] \in {"shutdown", "reply"} => at'[adm] \in 0..Len(table')
         /\ pc'[adm] = "reply" => at'[adm] > 0
    BY <1>1, <1>2, <1>4, Kinds DEF Places, Grows
  <1>13. wd'.at = "server" => wd'.i \in 1..Len(table')
    BY <1>1, <1>2 DEF Places, Grows, Rest
  <1>14. wd'.at = "clean" => wd'.i \in 1..Len(acc')
    BY <1>1, <1>2 DEF Places, Rest
  <1> QED
    BY <1>8, <1>9, <1>10, <1>11, <1>12, <1>13, <1>14 DEF Places

\* Only one server is starting, and none becomes active before it serves.
LEMMA InstBoot ==
  ASSUME DomainInv, NEW p \in Inst, NEW l, NEW i, InstMoves(p, l, i)
  PROVE  BootInv'
  <1>1. Types /\ Places /\ BootInv /\ p \in Procs /\ p # adm
    BY Kinds DEF DomainInv
  <1>2. /\ Moves(p, l, i) /\ l # "off" /\ pc[p] # "off"
        /\ l \in Starting => pc[p] \in Starting
        /\ Grows(table, table')
        /\ l = "serve" \/ \A j \in 1..Len(table) : table'[j].state \in {table[j].state, "INA"}
    BY DEF InstMoves
  <1>3. \A q \in Procs : /\ pc'[q] = IF q = p THEN l ELSE pc[q]
                         /\ at'[q] = IF q = p THEN i ELSE at[q]
    BY <1>1, <1>2, Moved
  <1>4. pc'[adm] = pc[adm] /\ at'[adm] = at[adm]
    BY <1>1, <1>3, Kinds
  <1>5. \A s \in Servers : ForkedOf(s)' = ForkedOf(s)
    <2>1. \A s \in Servers, k \in 1..MaxForks : <<s, k>> \in Procs
      BY Kinds DEF Inst
    <2>2. \A s \in Servers, k \in 1..MaxForks : pc'[<<s, k>>] # "off" <=> pc[<<s, k>>] # "off"
      BY <1>2, <1>3, <2>1
    <2> QED
      BY <2>2 DEF ForkedOf
  <1>6. ASSUME NEW q \in Inst, pc'[q] \in Starting
        PROVE  /\ pc'[adm] = "wait" /\ Entry'.state = "INA" /\ Entry'.srv = q[1]
               /\ q[2] = Cardinality(ForkedOf(q[1])')
    <2>1. pc[q] \in Starting
      BY <1>2, <1>3, <1>6, Kinds
    <2>2. /\ pc[adm] = "wait" /\ Entry.state = "INA" /\ Entry.srv = q[1]
          /\ q[2] = Cardinality(ForkedOf(q[1])) /\ q[1] \in Servers
      BY <1>1, <2>1, Kinds DEF BootInv
    <2>3. at[adm] \in 1..Len(table)
      BY <1>1, <2>2 DEF Places
    <2>4. Entry' = table'[at[adm]] /\ Entry = table[at[adm]]
      BY <1>4 DEF Entry
    <2>5. Entry'.srv = Entry.srv
      BY <1>2, <2>3, <2>4 DEF Grows
    <2>6. l # "serve"
      <3> SUFFICES ASSUME l = "serve" PROVE FALSE
        OBVIOUS
      <3>1. pc[p] = "active"
        BY DEF InstMoves, Serves, Up
      <3>2. pc[p] \in Starting
        BY <3>1 DEF Starting, Up
      <3>3. p = q
        BY <1>1, <2>1, <3>2, OneStarts
      <3>4. pc'[q] = "serve"
        BY <1>1, <1>3, <3>3
      <3> QED
        BY <1>6, <3>4 DEF Starting, Attaching, Up
    <2>7. Entry'.state = "INA"
      BY <1>2, <2>2, <2>3, <2>4, <2>6
    <2> QED
      BY <1>4, <1>5, <2>2, <2>5, <2>7
  <1>7. \A s \in Servers : \E n \in 0..MaxForks : ForkedOf(s)' = 1..n
    BY <1>1, <1>5 DEF BootInv
  <1> QED
    BY <1>6, <1>7 DEF BootInv

LEMMA InstOnce ==
  ASSUME DomainInv, NEW p \in Inst, NEW l, NEW i, InstMoves(p, l, i)
  PROVE  InstInv'
  <1>1. Types /\ Places /\ InstInv /\ p \in Procs
    BY Kinds DEF DomainInv
  <1>2. Moves(p, l, i) /\ Serves(p, l, i)
    BY DEF InstMoves
  <1>3. \A q \in Procs : /\ pc'[q] = IF q = p THEN l ELSE pc[q]
                         /\ at'[q] = IF q = p THEN i ELSE at[q]
    BY <1>1, <1>2, Moved
  <1>4. \A q \in Inst : q # p => (Serving(q)' <=> Serving(q)) /\ at'[q] = at[q]
    BY <1>3, Kinds DEF Serving
  <1>5. /\ pc'[p] = l /\ at'[p] = i
        /\ Serving(p)' <=> l \in {"active", "serve", "putback", "stopping"}
    BY <1>1, <1>3 DEF Serving
  <1>6. \/ Serving(p)' => Serving(p) /\ i = at[p] /\ UNCHANGED ads
        \/ Serving(p)' /\ pc[p] = "advertise" /\ i = at[p] /\ at[p] \notin ads
             /\ ads' = ads \cup {at[p]}
    BY <1>2, <1>5 DEF Serves, Up, Serving
  <1>7. ads \subseteq ads'
    BY <1>2 DEF Serves
  <1>8. \A q \in Inst : Serving(q)' => at'[q] \in ads'
    BY <1>1, <1>4, <1>5, <1>6, <1>7 DEF InstInv
  <1>9. ASSUME NEW q \in Inst, q # p, q[1] = p[1], Serving(p)', Serving(q)'
        PROVE  FALSE
    <2>1. Serving(q) /\ at[q] \in ads
      BY <1>1, <1>4, <1>9 DEF InstInv
    <2>2. ~Serving(p)
      BY <1>1, <1>9, <2>1 DEF InstInv, OneServes
    <2>3. pc[p] = "advertise" /\ at[p] \notin ads
      BY <1>6, <1>9, <2>2
    <2>4. First(at[p], p[1], table) /\ First(at[q], p[1], table) /\ Len(table) \in Nat
      BY <1>1, <1>9, <2>1, <2>3 DEF Places, Up, Serving, Types
    <2>5. at[p] = at[q]
      BY <2>4, FirstUnique
    <2> QED
      BY <2>1, <2>3, <2>5
  <1>10. ASSUME NEW q \in Inst, NEW r \in Inst, Serving(q)', Serving(r)', q[1] = r[1]
         PROVE  q = r
    <2>1. CASE q # p /\ r # p
      BY <1>1, <1>4, <1>10, <2>1 DEF InstInv, OneServes
    <2>2. CASE q = p \/ r = p
      BY <1>9, <1>10, <2>2
    <2> QED
      BY <2>1, <2>2
  <1>11. OneServes'
    BY <1>10 DEF OneServes
  <1> QED
    BY <1>8, <1>11 DEF InstInv

LEMMA InstQueue ==
  ASSUME DomainInv, NEW p \in Inst, NEW l, NEW i, InstMoves(p, l, i)
  PROVE  QueueInv'
  <1>1. /\ Types /\ BootInv /\ QueueInv /\ p \in Procs /\ Queue(p) \in Addresses
        /\ msqid \in [Addresses -> Inst \cup {none}] /\ rq \in [Inst -> Inst \cup {none}]
        /\ p # adm /\ \A q \in Inst : Queue(q) \in Addresses
    BY Kinds DEF DomainInv, Types
  <1>2. /\ Moves(p, l, i) /\ Serves(p, l, i) /\ pc[p] \notin {"off", "dead"}
        /\ l \in InstAt \ {"off", "left"}
        /\ l \in Attaching => pc[p] \in Attaching
        /\ missed \subseteq missed' /\ found' = found
    BY DEF InstMoves
  <1>3. \A q \in Procs : pc'[q] = IF q = p THEN l ELSE pc[q]
    BY <1>1, <1>2, Moved
  <1>4. pc'[p] = l /\ pc'[adm] = pc[adm] /\ \A q \in Inst : q # p => pc'[q] = pc[q]
    BY <1>1, <1>3, Kinds
  \* No removal is under way while a server starts.
  <1>5. pc[p] \in Starting => pc[adm] # "rmid"
    BY <1>1 DEF BootInv
  \* A server that has a queue is not fresh again.
  <1>6. l \in Fresh => pc[p] \in Fresh
    <2>1. l \in Attaching \/ l \in {"rqaddr", "qcreate", "msqid"} \/ l \notin Fresh
      BY <1>2 DEF Fresh
    <2>2. l \in {"rqaddr", "qcreate", "msqid"} => pc[p] \in Attaching \cup {"rqaddr", "qcreate"}
      BY <1>2 DEF Serves, Up
    <2> QED
      BY <1>2, <2>1, <2>2 DEF Fresh
  <1>7. CASE pc[p] = "msqid" /\ l = "advertise"
    <2>1. /\ msqid[Queue(p)] = none /\ none \notin Inst /\ ipc' = ipc
          /\ \A a \in Addresses : msqid'[a] = IF a = Queue(p) THEN p ELSE msqid[a]
          /\ \A q \in Inst : rq'[q] = IF q = p THEN p ELSE rq[q]
      BY <1>1, <1>2, <1>7, Kinds DEF QueueInv, Serves, Up
    <2>2. pc[p] \in Starting /\ pc[p] \in Fresh /\ l \notin Fresh
      BY <1>7 DEF Starting, Fresh, Attaching
    <2>3. \A q \in Inst : pc'[q] \notin {"qcreate", "msqid"}
      <3>1. \A q \in Inst : pc[q] \in Starting => q = p
        BY <1>1, <2>2, OneStarts
      <3> QED
        BY <1>4, <1>7, <3>1 DEF Starting
    <2>4. \A q \in Inst : rq[q] # p
      BY <1>1, <2>2 DEF QueueInv
    <2>5. \A q \in Inst : pc'[q] \in Bound => rq'[q] = msqid'[Queue(q)] /\ rq'[q] # none
      <3> SUFFICES ASSUME NEW q \in Inst, pc'[q] \in Bound
                   PROVE  rq'[q] = msqid'[Queue(q)] /\ rq'[q] # none
        OBVIOUS
      <3>1. CASE q = p
        BY <1>1, <2>1, <3>1
      <3>2. CASE q # p
        <4>1. rq[q] = msqid[Queue(q)] /\ rq[q] # none
          BY <1>1, <1>4, <3>2 DEF QueueInv
        <4>2. Queue(q) # Queue(p)
          BY <2>1, <4>1
        <4> QED
          BY <1>1, <2>1, <3>2, <4>1, <4>2
      <3> QED
        BY <3>1, <3>2
    <2>6. \A q \in Inst : q \in ipc' => pc'[q] = "msqid" \/ q \in missed' \/ msqid'[Queue(q)] = q
      <3> SUFFICES ASSUME NEW q \in Inst, q \in ipc, q # p
                   PROVE  pc'[q] = "msqid" \/ q \in missed' \/ msqid'[Queue(q)] = q
        BY <1>1, <2>1
      <3>1. pc[q] = "msqid" \/ q \in missed \/ msqid[Queue(q)] = q
        BY <1>1 DEF QueueInv
      <3>2. msqid[Queue(q)] = q => Queue(q) # Queue(p)
        BY <2>1
      <3> QED
        BY <1>1, <1>2, <1>4, <2>1, <3>1, <3>2
    <2>7. \A q \in Inst : pc'[q] \in Fresh =>
            (\A r \in Inst : rq'[r] # q) /\ (\A a \in Addresses : msqid'[a] # q)
      <3> SUFFICES ASSUME NEW q \in Inst, pc[q] \in Fresh, q # p
                   PROVE  (\A r \in Inst : rq'[r] # q) /\ (\A a \in Addresses : msqid'[a] # q)
        BY <1>4, <1>7, <2>2
      <3>1. (\A r \in Inst : rq[r] # q) /\ (\A a \in Addresses : msqid[a] # q)
        BY <1>1 DEF QueueInv
      <3> QED
        BY <2>1, <3>1
    <2>8. \A q, r \in Inst : pc'[q] = "left" /\ rq'[q] = r => r \notin ipc'
      <3> SUFFICES ASSUME NEW q \in Inst, NEW r \in Inst, pc'[q] = "left", rq'[q] = r
                   PROVE  r \notin ipc
        BY <2>1
      <3>1. q # p /\ pc[q] = "left"
        BY <1>4, <1>7
      <3> QED
        BY <1>1, <2>1, <3>1 DEF QueueInv
    <2>9. pc'[adm] # "rmid"
      BY <1>4, <1>5, <2>2
    <2> QED
      BY <2>3, <2>5, <2>6, <2>7, <2>8, <2>9 DEF QueueInv
  <1>8. CASE ~(pc[p] = "msqid" /\ l = "advertise")
    <2>1. /\ msqid' = msqid /\ \A q \in Inst : q # p => rq'[q] = rq[q]
          /\ l \in {"qcreate", "msqid"} => msqid[Queue(p)] = none
          /\ l \in Bound => \/ pc[p] \in Bound /\ rq' = rq
                            \/ rq'[p] = msqid[Queue(p)] /\ msqid[Queue(p)] # none
          /\ rq' = rq \/ rq'[p] = msqid[Queue(p)]
      BY <1>1, <1>2, <1>8 DEF Serves, Up, Bound, QueueInv
    <2>2. \A q \in Inst : pc'[q] \in {"qcreate", "msqid"} => msqid[Queue(q)] = none
      BY <1>1, <1>4, <2>1 DEF QueueInv
    <2>3. \A q \in Inst : pc'[q] \in Bound => rq'[q] = msqid[Queue(q)] /\ rq'[q] # none
      BY <1>1, <1>4, <2>1 DEF QueueInv
    <2>4. /\ ipc' = ipc \/ (ipc' = ipc \cup {p} /\ pc[p] = "qcreate" /\ l = "msqid")
          /\ pc[p] = "msqid" => p \in missed' \/ l = "msqid"
      BY <1>2, <1>8 DEF Serves, Up, Attaching
    <2>5. \A q \in Inst : q \in ipc' => pc'[q] = "msqid" \/ q \in missed' \/ msqid[Queue(q)] = q
      <3> SUFFICES ASSUME NEW q \in Inst, q \in ipc'
                   PROVE  pc'[q] = "msqid" \/ q \in missed' \/ msqid[Queue(q)] = q
        OBVIOUS
      <3>1. q \in ipc => pc[q] = "msqid" \/ q \in missed \/ msqid[Queue(q)] = q
        BY <1>1 DEF QueueInv
      <3> QED
        BY <1>2, <1>4, <2>4, <3>1
    <2>6. \A q \in Inst : pc'[q] \in Fresh =>
            (\A r \in Inst : rq'[r] # q) /\ (\A a \in Addresses : msqid[a] # q)
      <3> SUFFICES ASSUME NEW q \in Inst, pc'[q] \in Fresh
                   PROVE  (\A r \in Inst : rq'[r] # q) /\ (\A a \in Addresses : msqid[a] # q)
        OBVIOUS
      <3>1. pc[q] \in Fresh
        BY <1>4, <1>6
      <3>2. (\A r \in Inst : rq[r] # q) /\ (\A a \in Addresses : msqid[a] # q)
        BY <1>1, <3>1 DEF QueueInv
      <3> QED
        BY <1>1, <2>1, <3>2
    <2>7. \A q, r \in Inst : pc'[q] = "left" /\ rq'[q] = r => r \notin ipc'
      <3> SUFFICES ASSUME NEW q \in Inst, NEW r \in Inst, pc'[q] = "left", rq'[q] = r, r \in ipc'
                   PROVE  FALSE
        OBVIOUS
      <3>1. q # p /\ pc[q] = "left" /\ rq[q] = r
        BY <1>2, <1>4, <2>1
      <3>2. r \notin ipc /\ r = p /\ pc[p] = "qcreate"
        BY <1>1, <2>4, <3>1 DEF QueueInv
      <3>3. pc[p] \in Fresh
        BY <3>2 DEF Fresh
      <3> QED
        BY <1>1, <3>1, <3>2, <3>3 DEF QueueInv
    <2>8. pc'[adm] = "rmid" => \A a \in Addresses : msqid[a] \in found
      BY <1>1, <1>4 DEF QueueInv
    <2> QED
      BY <1>2, <2>1, <2>2, <2>3, <2>5, <2>6, <2>7, <2>8 DEF QueueInv
  <1> QED
    BY <1>7, <1>8

-----------------------------------------------------------------------------
(* Steps that leave the entries of clients alone *)

\* The position of a user in the protocol of its entry.
Keeps(u) ==
  \/ pc'[u] = pc[u] /\ (pc[u] \in Joining \cup {"in"} => at'[u] = at[u])
  \/ u # adm /\ pc'[u] = "dead"
  \/ {pc[u], pc'[u]} \subseteq {"shutdown", "reply"}
  \/ {pc[u], pc'[u]} \subseteq Joining /\ at'[u] = at[u]
  \/ pc[u] \notin Using /\ pc'[u] \notin Using

AccQuiet ==
  /\ Len(acc) \in Nat /\ Len(acc') \in Nat /\ Len(acc) <= Len(acc')
  /\ \A i \in 1..Len(acc) : acc'[i] = acc[i]
  /\ \A i \in 1..Len(acc') : i > Len(acc) => acc'[i].pid = none /\ acc'[i].rpid = none
  /\ raced' = raced /\ missed \subseteq missed'
  /\ wd'.at = "clean" => wd' = wd
  /\ \A u \in Users : /\ Keeps(u)
                      /\ u \in ipc => u \in ipc'
                      /\ u \in ipc' => \/ pc'[u] = "rpid_store" \/ u \in missed'
                                       \/ u \in ipc /\ pc[u] # "rpid_store"
                      /\ pc'[u] = "rpid_store" => pc[u] = "rpid_store" \/ u \in ipc'
  /\ pc'[adm] = "rmid" => pc[adm] = "rmid" /\ found' = found

LEMMA AccKept ==
  ASSUME Types, Places, AccInv, CleanInv, AccQuiet
  PROVE  AccInv' /\ CleanInv'
  <1>1. /\ Len(acc) \in Nat /\ Len(acc') \in Nat /\ Len(acc) <= Len(acc')
        /\ \A i \in 1..Len(acc) : acc'[i] = acc[i] /\ i \in 1..Len(acc')
        /\ \A i \in 1..Len(acc') : i \notin 1..Len(acc) => acc'[i].pid = none /\ acc'[i].rpid = none
        /\ raced' = raced /\ missed \subseteq missed'
    BY DEF AccQuiet
  <1>2. \A u \in Users : Keeps(u)
    BY DEF AccQuiet
  <1>3. \A i \in 1..Len(acc) : /\ acc[i].pid # none => acc[i].pid \in Users
                               /\ acc[i].rpid # none => acc[i].rpid \in Users
    <2>1. \A i \in 1..Len(acc) : acc[i] \in Accesser
      BY DEF Types
    <2> QED
      BY <2>1 DEF Accesser
  <1>4. \A u \in Users : pc'[u] \in Joining \cup {"in"} =>
          /\ pc[u] \in Joining \cup {"in"} /\ at'[u] = at[u] /\ at[u] \in 1..Len(acc)
          /\ pc'[u] \in Joining => pc[u] \in Joining
    BY <1>2 DEF Keeps, Using, Held, Joining, Places
  <1>5. \A u \in Users : /\ pc[u] \in Using => pc'[u] \in Using
                         /\ pc[u] \in Using \ Joining => pc'[u] \in Using \ Joining
                         /\ pc'[u] \in Held => pc[u] \in Held
                         /\ pc'[u] \in {"shutdown", "reply"} => pc[u] \in {"shutdown", "reply"}
    BY <1>2 DEF Keeps, Using, Held, Joining
  <1>6. \A i \in 1..Len(acc') : acc'[i].pid # none \/ acc'[i].rpid # none =>
          i \in 1..Len(acc) /\ acc'[i] = acc[i]
    BY <1>1
  <1>7. AccInv'
    <2>1. \A u \in Users : pc'[u] \in Joining \cup {"in"} => acc'[at'[u]].pid = u
      BY <1>1, <1>4 DEF AccInv
    <2>2. pc'[adm] \in {"shutdown", "reply"} => \E i \in 1..Len(acc') : acc'[i].pid = adm
      <3> SUFFICES ASSUME pc'[adm] \in {"shutdown", "reply"}
                   PROVE  \E i \in 1..Len(acc') : acc'[i].pid = adm
        OBVIOUS
      <3>1. PICK i \in 1..Len(acc) : acc[i].pid = adm
        BY <1>5, Kinds DEF AccInv
      <3> QED
        BY <1>1, <3>1
    <2>3. \A i \in 1..Len(acc') : acc'[i].pid # none => pc'[acc'[i].pid] \in Using
      BY <1>3, <1>5, <1>6 DEF AccInv
    <2>4. \A i \in 1..Len(acc') : acc'[i].rpid # none => pc'[acc'[i].rpid] \in Using \ Joining
      BY <1>3, <1>5, <1>6 DEF AccInv
    <2>5. \A i \in 1..Len(acc') :
            acc'[i].rpid # none /\ pc'[acc'[i].rpid] \in Held => acc'[i].pid = acc'[i].rpid
      BY <1>3, <1>5, <1>6 DEF AccInv
    <2>6. \A i, j \in 1..Len(acc') : acc'[i].pid = acc'[j].pid /\ acc'[i].pid # none => i = j
      BY <1>6 DEF AccInv
    <2>7. \A i, j \in 1..Len(acc') : acc'[i].rpid = acc'[j].rpid /\ acc'[i].rpid # none => i = j
      BY <1>6 DEF AccInv
    <2> QED
      BY <2>1, <2>2, <2>3, <2>4, <2>5, <2>6, <2>7 DEF AccInv
  <1>8. CleanInv'
    <2>1. wd'.at = "clean" => acc'[wd'.i].pid \in {none} \cup raced'
      BY <1>1 DEF AccQuiet, CleanInv, Places
    <2>2. raced' = {} => \A u \in Users : pc'[u] \in Joining => acc'[at'[u]].rpid = none
      BY <1>1, <1>4 DEF CleanInv
    <2>3. ASSUME raced' = {}, NEW u \in Users, u \in ipc'
          PROVE  Kept(u)'
      <3>1. CASE pc'[u] = "rpid_store" \/ u \in missed'
        BY <3>1 DEF Kept
      <3>2. CASE u \in ipc /\ pc[u] # "rpid_store" /\ u \notin missed
        <4>1. Kept(u)
          BY <1>1, <2>3, <3>2 DEF CleanInv
        <4>2. PICK i \in 1..Len(acc) : acc[i].rpid = u
          BY <3>2, <4>1 DEF Kept
        <4> QED
          BY <1>1, <4>2 DEF Kept
      <3>3. CASE u \in missed
        BY <1>1, <3>3 DEF Kept
      <3> QED
        BY <2>3, <3>1, <3>2, <3>3 DEF AccQuiet
    <2>4. ASSUME NEW c \in Clients \cup {adm}, pc'[c] \in Held, c \notin raced'
          PROVE  c \in ipc' /\ \E i \in 1..Len(acc') : acc'[i] = [pid |-> c, rpid |-> c]
      <3>1. c \in Users /\ pc[c] \in Held /\ c \notin raced
        BY <1>1, <1>5, <2>4 DEF Users
      <3>2. c \in ipc /\ \E i \in 1..Len(acc) : acc[i] = [pid |-> c, rpid |-> c]
        BY <3>1 DEF CleanInv, OwnReplyQueue, Held, Users
      <3> QED
        BY <1>1, <3>1, <3>2 DEF AccQuiet
    <2>5. OwnReplyQueue'
      BY <2>4 DEF OwnReplyQueue, Held
    <2>6. pc'[adm] = "rmid" =>
            \A i \in 1..Len(acc') : acc'[i].rpid # none => acc'[i].rpid \in found' \cup missed'
      BY <1>1, <1>6 DEF AccQuiet, CleanInv
    <2>7. \A u \in Users : pc'[u] = "rpid_store" => u \in ipc'
      BY DEF AccQuiet, CleanInv
    <2> QED
      BY <2>1, <2>2, <2>3, <2>5, <2>6, <2>7 DEF CleanInv
  <1> QED
    BY <1>7, <1>8

LEMMA InstClients ==
  ASSUME DomainInv, NEW p \in Inst, NEW l, NEW i, InstMoves(p, l, i)
  PROVE  AccInv' /\ CleanInv'
  <1>1. /\ Types /\ Places /\ AccInv /\ CleanInv /\ p \in Procs /\ p \notin Users
        /\ adm \in Users
    BY Kinds DEF DomainInv
  <1>2. \A u \in Users : pc'[u] = pc[u] /\ at'[u] = at[u]
    BY <1>1, Moved, Kinds DEF InstMoves
  <1>3. /\ acc \in Seq(Accesser) /\ acc' = acc /\ raced' = raced /\ found' = found
        /\ wd' \in {wd, Rest} /\ missed \subseteq missed'
    BY <1>1 DEF Types, InstMoves
  <1>4. ipc \subseteq ipc' /\ ipc' \subseteq ipc \cup {p}
    BY DEF InstMoves, Serves
  <1>5. \A u \in Users : /\ Keeps(u)
                         /\ u \in ipc => u \in ipc'
                         /\ u \in ipc' => u \in ipc
    BY <1>1, <1>2, <1>4 DEF Keeps
  <1>6. wd'.at = "clean" => wd' = wd
    BY <1>3 DEF Rest
  <1>7. AccQuiet
    BY <1>1, <1>2, <1>3, <1>5, <1>6 DEF AccQuiet
  <1> QED
    BY <1>1, <1>7, AccKept

LEMMA InstKeeps ==
  ASSUME DomainInv, NEW p \in Inst,
         \/ Attach(p) \/ Server(p) \/ leave(p) \/ kill(p) \/ Fails(p)
         \/ \E m \in stops : stop(p, m)
  PROVE  DomainInv'
  <1>1. \E l, i : InstMoves(p, l, i)
    BY InstAttaches, InstServes
  <1> QED
    BY <1>1, InstTypes, InstBoot, InstOnce, InstQueue, InstClients DEF DomainInv

-----------------------------------------------------------------------------
(* Steps of clients, of the operator's commands and of the watchdog *)

\* The servers see nothing of a step, but for a child that is forked.
InstQuiet ==
  /\ \A p \in Inst : \/ pc'[p] = pc[p] /\ at'[p] = at[p]
                     \/ pc[p] = "off" /\ pc'[p] = "shmget"
  /\ \A p \in Inst : p \in ipc' => p \in ipc
  /\ UNCHANGED <<msqid, ads, rq>> /\ missed \subseteq missed'
  /\ pc'[adm] = "rmid" => pc[adm] = "rmid" /\ found' = found

LEMMA InstKept ==
  ASSUME InstInv, QueueInv, InstQuiet
  PROVE  InstInv' /\ QueueInv'
  <1>1. \A p \in Inst : \/ pc'[p] = pc[p] /\ at'[p] = at[p]
                        \/ pc[p] = "off" /\ pc'[p] = "shmget"
    BY DEF InstQuiet
  <1>2. \A p \in Inst : Serving(p)' => Serving(p) /\ at'[p] = at[p]
    BY <1>1 DEF Serving
  <1>3. OneServes'
    BY <1>2 DEF InstInv, OneServes
  <1>4. InstInv'
    BY <1>2, <1>3 DEF InstInv, InstQuiet
  <1>5. \A p \in Inst : /\ pc'[p] \in Bound \cup {"qcreate", "msqid", "left"} => pc'[p] = pc[p]
                        /\ pc[p] = "msqid" => pc'[p] = "msqid"
                        /\ pc'[p] \in Fresh => pc[p] \in Fresh
    BY <1>1 DEF Bound, Fresh
  <1>6. \A p \in Inst : pc'[p] \in {"qcreate", "msqid"} => msqid'[Queue(p)] = none
    BY <1>5 DEF QueueInv, InstQuiet
  <1>7. \A p \in Inst : pc'[p] \in Bound => rq'[p] = msqid'[Queue(p)] /\ rq'[p] # none
    BY <1>5 DEF QueueInv, InstQuiet
  <1>8. \A q \in Inst : q \in ipc' => pc'[q] = "msqid" \/ q \in missed' \/ msqid'[Queue(q)] = q
    BY <1>5 DEF QueueInv, InstQuiet
  <1>9. \A q \in Inst : pc'[q] \in Fresh =>
          (\A p \in Inst : rq'[p] # q) /\ (\A a \in Addresses : msqid'[a] # q)
    BY <1>5 DEF QueueInv, InstQuiet
  <1>10. \A p, q \in Inst : pc'[p] = "left" /\ rq'[p] = q => q \notin ipc'
    BY <1>5 DEF QueueInv, InstQuiet
  <1>11. pc'[adm] = "rmid" => \A a \in Addresses : msqid'[a] \in found'
    BY DEF QueueInv, InstQuiet
  <1>12. QueueInv'
    BY <1>6, <1>7, <1>8, <1>9, <1>10, <1>11 DEF QueueInv
  <1> QED
    BY <1>4, <1>12

NoneStarts == \A p \in Inst : pc[p] \notin Starting

\* A user u goes to l; what becomes of its entry is left open.
UserStep(u, l, i) ==
  /\ Moves(u, l, i) /\ i \in Nat
  /\ l \in (IF u = adm THEN AdmAt ELSE ClientAt) \ {"wait", "rmid"}
  /\ l \in {"ubb2mib", "make_server"} => i \in Servers
  /\ l \in Joining \cup {"in"} => i \in 1..Len(acc')
  /\ l = "boot" => i > 0
  /\ l \in {"shutdown", "reply"} => i \in 0..Len(table)
  /\ l = "reply" => i > 0
  /\ \/ NoneStarts
     \/ u # adm /\ \A j \in 1..Len(table) : table'[j].state = table[j].state
  /\ table' \in Seq(ServerEntry) /\ Grows(table, table')
  /\ UNCHANGED <<msqid, ads, rq, found>> /\ missed \subseteq missed'
  /\ wd' \in {wd, Rest}
  /\ acc' \in Seq(Accesser) /\ Len(acc) <= Len(acc') /\ raced' \subseteq Users
  /\ ipc' \subseteq ipc \cup {u}

LEMMA UserKeeps ==
  ASSUME DomainInv, NEW u \in Users, NEW l, NEW i, UserStep(u, l, i)
  PROVE  Types' /\ Places' /\ BootInv' /\ InstInv' /\ QueueInv'
  <1>1. Types /\ Places /\ BootInv /\ InstInv /\ QueueInv /\ u \in Procs /\ u \notin Inst
    BY Kinds DEF DomainInv
  <1>2. l \in ClientAt \cup InstAt \cup AdmAt /\ Moves(u, l, i) /\ i \in Nat
    BY DEF UserStep
  <1>3. /\ \A q \in Procs : /\ pc'[q] = IF q = u THEN l ELSE pc[q]
                            /\ at'[q] = IF q = u THEN i ELSE at[q]
        /\ pc' \in [Procs -> ClientAt \cup InstAt \cup AdmAt] /\ at' \in [Procs -> Nat]
    BY <1>1, <1>2, Moved
  <1>4. \A p \in Inst : pc'[p] = pc[p] /\ at'[p] = at[p]
    BY <1>1, <1>3, Kinds
  <1>5. Types'
    <2>1. \A c \in Clients : pc'[c] \in ClientAt
      BY <1>1, <1>3, Kinds DEF Types, UserStep
    <2>2. pc'[adm] \in AdmAt
      BY <1>1, <1>3, Kinds DEF Types, UserStep
    <2>3. \A p \in Inst : pc'[p] \in InstAt
      BY <1>1, <1>4 DEF Types
    <2>4. ipc' \subseteq Procs /\ raced' \subseteq Users
      BY <1>1 DEF Types, UserStep
    <2>5. wd' \in [at : {"scan", "server", "clean"}, i : Nat]
      BY <1>1 DEF Types, Rest, UserStep
    <2>6. /\ table' \in Seq(ServerEntry) /\ acc' \in Seq(Accesser)
          /\ msqid' \in [Addresses -> Inst \cup {none}] /\ rq' \in [Inst -> Inst \cup {none}]
      BY <1>1 DEF Types, UserStep
    <2> QED
      BY <1>3, <2>1, <2>2, <2>3, <2>4, <2>5, <2>6 DEF Types
  <1>6. Places'
    <2>1. \A q \in Procs : pc'[q] \in {"ubb2mib", "make_server"} => at'[q] \in Servers
      BY <1>1, <1>3 DEF Places, UserStep
    <2>2. \A p \in Inst : pc'[p] \in Up => First(at'[p], p[1], table')
      BY <1>1, <1>4, FirstGrows DEF Places, UserStep
    <2>3. Len(acc) \in Nat /\ Len(acc') \in Nat /\ Len(acc) <= Len(acc')
      BY <1>1 DEF Types, UserStep
    <2>4. \A v \in Users : pc'[v] \in Joining \cup {"in"} => at'[v] \in 1..Len(acc')
      <3> SUFFICES ASSUME NEW v \in Users, pc'[v] \in Joining \cup {"in"}
                   PROVE  at'[v] \in 1..Len(acc')
        OBVIOUS
      <3>1. CASE v = u
        BY <1>1, <1>3, <3>1 DEF UserStep
      <3>2. CASE v # u
        <4>1. pc'[v] = pc[v] /\ at'[v] = at[v]
          BY <1>3, <3>2, Kinds
        <4>2. at[v] \in 1..Len(acc)
          BY <1>1, <4>1 DEF Places
        <4> QED
          BY <2>3, <4>1, <4>2
      <3> QED
        BY <3>1, <3>2
    <2>5. /\ pc'[adm] = "boot" => at'[adm] > 0
          /\ pc'[adm] = "wait" => at'[adm] \in 1..Len(table')
          /\ pc'[adm] \in {"shutdown", "reply"} => at'[adm] \in 0..Len(table')
          /\ pc'[adm] = "reply" => at'[adm] > 0
      <3>1. CASE u = adm
        BY <1>1, <1>3, <3>1 DEF UserStep, Grows
      <3>2. CASE u # adm
        <4>1. pc'[adm] = pc[adm] /\ at'[adm] = at[adm]
          BY <1>3, <3>2, Kinds
        <4> QED
          BY <1>1, <4>1 DEF Places, UserStep, Grows
      <3> QED
        BY <3>1, <3>2
    <2>6. wd'.at = "server" => wd'.i \in 1..Len(table')
      BY <1>1 DEF Places, Grows, Rest, UserStep
    <2>7. wd'.at = "clean" => wd'.i \in 1..Len(acc')
      BY <1>1, <2>3 DEF Places, Rest, UserStep
    <2> QED
      BY <2>1, <2>2, <2>4, <2>5, <2>6, <2>7 DEF Places
  <1>7. BootInv'
    <2>1. \A s \in Servers : ForkedOf(s)' = ForkedOf(s)
      <3>1. \A s \in Servers, k \in 1..MaxForks : <<s, k>> \in Inst
        BY DEF Inst
      <3> QED
        BY <1>4, <3>1 DEF ForkedOf
    <2>2. ASSUME NEW p \in Inst, pc'[p] \in Starting
          PROVE  /\ pc'[adm] = "wait" /\ Entry'.state = "INA" /\ Entry'.srv = p[1]
                 /\ p[2] = Cardinality(ForkedOf(p[1])')
      <3>1. pc[p] \in Starting /\ p[1] \in Servers
        BY <1>4, <2>2, Kinds
      <3>2. /\ pc[adm] = "wait" /\ Entry.state = "INA" /\ Entry.srv = p[1]
            /\ p[2] = Cardinality(ForkedOf(p[1]))
        BY <1>1, <3>1 DEF BootInv
      <3>3. u # adm /\ \A j \in 1..Len(table) : table'[j].state = table[j].state
        BY <3>1 DEF UserStep, NoneStarts
      <3>4. pc'[adm] = pc[adm] /\ at'[adm] = at[adm]
        BY <1>3, <3>3, Kinds
      <3>5. at[adm] \in 1..Len(table)
        BY <1>1, <3>2 DEF Places
      <3>6. Entry' = table'[at[adm]] /\ Entry = table[at[adm]]
        BY <3>4 DEF Entry
      <3>7. Entry'.srv = Entry.srv
        BY <3>5, <3>6 DEF Grows, UserStep
      <3>8. Entry'.state = Entry.state
        BY <3>3, <3>5, <3>6
      <3> QED
        BY <2>1, <3>1, <3>2, <3>4, <3>7, <3>8
    <2>3. \A s \in Servers : \E n \in 0..MaxForks : ForkedOf(s)' = 1..n
      BY <1>1, <2>1 DEF BootInv
    <2> QED
      BY <2>2, <2>3 DEF BootInv
  <1>8. pc'[adm] = "rmid" => pc[adm] = "rmid" /\ found' = found
    BY <1>1, <1>3, Kinds DEF UserStep
  <1>9. InstQuiet
    BY <1>1, <1>4, <1>8 DEF InstQuiet, UserStep
  <1> QED
    BY <1>1, <1>5, <1>6, <1>7, <1>9, InstKept

\* A user that has no entry yet, gives up its life, or is tmshutdown at work.
UserQuiet(u, l, i) ==
  /\ UserStep(u, l, i)
  /\ \/ u # adm /\ l = "dead"
     \/ {pc[u], l} \subseteq {"shutdown", "reply"}
     \/ {pc[u], l} \subseteq Joining /\ i = at[u]
     \/ pc[u] \notin Using /\ l \notin Using
  /\ acc' = acc \/ acc' = Append(acc, [pid |-> none, rpid |-> none])
  /\ raced' = raced
  /\ ipc \subseteq ipc'
  /\ l = "rpid_store" => u \in ipc'
  /\ u \in ipc' => l = "rpid_store" \/ u \in missed' \/ (u \in ipc /\ pc[u] # "rpid_store")

LEMMA QuietKeeps ==
  ASSUME DomainInv, NEW u \in Users, NEW l, NEW i, UserQuiet(u, l, i)
  PROVE  DomainInv'
  <1>1. Types /\ Places /\ AccInv /\ CleanInv /\ u \in Procs
    BY Kinds DEF DomainInv
  <1>2. UserStep(u, l, i)
    BY DEF UserQuiet
  <1>3. Types' /\ Places' /\ BootInv' /\ InstInv' /\ QueueInv'
    BY <1>2, UserKeeps
  <1>4. \A q \in Procs : /\ pc'[q] = IF q = u THEN l ELSE pc[q]
                         /\ at'[q] = IF q = u THEN i ELSE at[q]
    BY <1>1, <1>2, Moved DEF UserStep
  <1>5. /\ pc'[u] = l /\ at'[u] = i
        /\ \A v \in Users : v # u => pc'[v] = pc[v] /\ at'[v] = at[v]
    BY <1>1, <1>4, Kinds
  <1>6. \A v \in Users : Keeps(v)
    <2>1. Keeps(u)
      BY <1>5 DEF UserQuiet, Keeps
    <2>2. \A v \in Users : v # u => Keeps(v)
      BY <1>5 DEF Keeps
    <2> QED
      BY <2>1, <2>2
  <1>7. \A v \in Users : /\ v \in ipc => v \in ipc'
                         /\ v \in ipc' => \/ pc'[v] = "rpid_store" \/ v \in missed'
                                          \/ v \in ipc /\ pc[v] # "rpid_store"
                         /\ pc'[v] = "rpid_store" => pc[v] = "rpid_store" \/ v \in ipc'
    BY <1>5 DEF UserQuiet, UserStep
  <1>8. wd'.at = "clean" => wd' = wd
    BY <1>2 DEF UserStep, Rest
  <1>9. /\ Len(acc) \in Nat /\ Len(acc') \in Nat /\ Len(acc) <= Len(acc')
        /\ \A j \in 1..Len(acc) : acc'[j] = acc[j]
        /\ \A j \in 1..Len(acc') : j > Len(acc) => acc'[j].pid = none /\ acc'[j].rpid = none
    <2> DEFINE e == [pid |-> none, rpid |-> none]
    <2>1. e.pid = none /\ e.rpid = none /\ acc \in Seq(Accesser)
      BY <1>1 DEF Types
    <2>2. acc' = acc \/ acc' = Append(acc, e)
      BY DEF UserQuiet
    <2>3. e \in Accesser
      BY DEF Accesser
    <2> HIDE DEF e
    <2>4. CASE acc' = Append(acc, e)
      <3>1. Len(acc') = Len(acc) + 1 /\ Len(acc) \in Nat
        BY <2>1, <2>3, <2>4
      <3>2. \A j \in 1..Len(acc) : acc'[j] = acc[j]
        BY <2>1, <2>3, <2>4
      <3>3. acc'[Len(acc) + 1] = e
        BY <2>1, <2>3, <2>4
      <3> QED
        BY <2>1, <3>1, <3>2, <3>3
    <2>5. CASE acc' = acc
      BY <2>1, <2>5
    <2> QED
      BY <2>2, <2>4, <2>5
  <1>10. pc'[adm] = "rmid" => pc[adm] = "rmid" /\ found' = found
    BY <1>1, <1>2, <1>4, Kinds DEF UserStep
  <1>11. AccQuiet
    BY <1>2, <1>6, <1>7, <1>8, <1>9, <1>10 DEF AccQuiet, UserQuiet, UserStep
  <1> QED
    BY <1>1, <1>3, <1>11, AccKept DEF DomainInv

\* What most of these steps leave alone.
LEMMA Untouched ==
  ASSUME DomainInv, NEW u \in Users, NEW l, NEW i \in Nat, Moves(u, l, i),
         l \in (IF u = adm THEN AdmAt ELSE ClientAt) \ (Joining \cup {"wait", "rmid", "in"}),
         l \in {"ubb2mib", "make_server"} => i \in Servers,
         l = "boot" => i > 0,
         l \in {"shutdown", "reply"} => i \in 0..Len(table),
         l = "reply" => i > 0,
         \/ NoneStarts
         \/ u # adm /\ \A j \in 1..Len(table) : table'[j].state = table[j].state,
         table' \in Seq(ServerEntry), Grows(table, table'),
         wd' \in {wd, Rest}, missed \subseteq missed',
         UNCHANGED <<msqid, ads, rq, acc, raced, found>>,
         ipc' = ipc \/ (ipc' = ipc \cup {u} /\ u \in missed'),
         pc[u] = "rpid_store" => u \in missed',
         \/ u # adm /\ l = "dead"
         \/ {pc[u], l} \subseteq {"shutdown", "reply"}
         \/ pc[u] \notin Using /\ l \notin Using
  PROVE  DomainInv'
  <1>1. acc \in Seq(Accesser) /\ Len(acc) \in Nat /\ raced \subseteq Users
    BY DEF DomainInv, Types
  <1>2. acc' \in Seq(Accesser) /\ Len(acc) <= Len(acc') /\ raced' \subseteq Users
    BY <1>1
  <1>3. UserStep(u, l, i)
    BY <1>2 DEF UserStep
  <1>4. UserQuiet(u, l, i)
    BY <1>3 DEF UserQuiet, Joining
  <1> QED
    BY <1>4, QuietKeeps

LEMMA NotWaiting ==
  ASSUME DomainInv, pc[adm] # "wait"
  PROVE  NoneStarts
  BY DEF DomainInv, BootInv, NoneStarts

LEMMA UserAttaches ==
  ASSUME DomainInv, NEW u \in Users, Attach(u)
  PROVE  DomainInv'
  <1>1. Types /\ Places /\ u \in Procs /\ u \notin Inst /\ (u # adm => u \in Clients)
    BY Kinds DEF DomainInv, Users
  <1>2. Attaches(u)
    BY <1>1, AttachSteps
  <1>3. PICK l, i : i \in Nat /\ Moves(u, l, i) /\ Becomes(u, l, i, table')
    BY <1>2 DEF Attaches
  <1>4. /\ pc[u] \in Attaching \cup {"off"}
        /\ table' \in Seq(ServerEntry) /\ Grows(table, table')
        /\ \A j \in 1..Len(table) : table'[j].state = table[j].state
        /\ UNCHANGED <<msqid, ads, acc, ipc, rq, wd, raced, missed, found>>
    BY <1>2 DEF Attaches
  <1>5. pc[u] \notin Using \cup {"wait"}
    BY <1>4 DEF Using, Held, Joining, Attaching
  <1>6. NoneStarts \/ u # adm
    BY <1>5, NotWaiting
  <1>7. /\ l \in (IF u = adm THEN AdmAt ELSE ClientAt) \ (Joining \cup {"wait", "rmid", "in"})
        /\ l \in {"ubb2mib", "make_server"} => i \in Servers
        /\ l = "boot" => i > 0
        /\ l \notin {"shutdown", "reply"}
        /\ l \notin Using \/ (u # adm /\ l = "dead")
    BY <1>1, <1>3 DEF Becomes, AdmAt, ClientAt, Attaching, Using, Held, Joining
  <1>8. pc[u] # "rpid_store" /\ wd' \in {wd, Rest} /\ missed \subseteq missed'
    BY <1>4, <1>5 DEF Using, Joining
  <1> QED
    BY <1>3, <1>4, <1>5, <1>6, <1>7, <1>8, Untouched

\* A client that is killed, creates its queue too late, or ends after a removal.
LEMMA ClientEnds ==
  ASSUME DomainInv, NEW u \in Users, late(u) \/ leave(u) \/ kill(u)
  PROVE  DomainInv'
  <1>1. /\ Types /\ u \in Procs /\ at[u] \in Nat
        /\ table \in Seq(ServerEntry) /\ Grows(table, table)
        /\ \A j \in 1..Len(table) : table[j].state = table[j].state
    BY Kinds, SameGrows DEF DomainInv, Types
  <1>2. u # adm
    BY <1>1 DEF late, leave, kill, Types, AdmAt, Attaching, Joining
  <1>3. /\ "dead" \in ClientAt \ (Joining \cup {"wait", "rmid", "in"})
        /\ "left" \in ClientAt \ (Joining \cup {"wait", "rmid", "in"})
        /\ "left" \notin Using /\ "late" \notin Using
    BY DEF ClientAt, Joining, Using, Held
  <1>4. CASE late(u)
    <2>1. /\ Go(u, "left") /\ UNCHANGED at /\ pc[u] = "late" /\ ipc' = ipc \cup {u}
          /\ missed' = missed \cup {u}
          /\ UNCHANGED <<table, msqid, ads, acc, rq, wd, raced, found>>
      BY <1>4 DEF late, command
    <2>2. Moves(u, "left", at[u])
      BY <1>1, <2>1, Stays
    <2> QED
      BY <1>1, <1>2, <1>3, <2>1, <2>2, Untouched
  <1>5. CASE leave(u)
    <2>1. /\ Go(u, "dead") /\ UNCHANGED at /\ pc[u] # "rpid_store"
          /\ UNCHANGED <<table, msqid, ads, acc, ipc, rq, wd, raced, missed, found>>
      BY <1>5 DEF leave, board, command, history
    <2>2. Moves(u, "dead", at[u])
      BY <1>1, <2>1, Stays
    <2> QED
      BY <1>1, <1>2, <1>3, <2>1, <2>2, Untouched
  <1>6. CASE kill(u)
    <2>1. /\ Die(u) /\ UNCHANGED at /\ wd' \in {wd, Rest}
          /\ missed \subseteq missed' /\ (pc[u] = "rpid_store" => u \in missed')
          /\ UNCHANGED <<table, msqid, ads, acc, ipc, rq, raced, found>>
      BY <1>6 DEF kill, Watching, Unnamed
    <2>2. Moves(u, "dead", at[u])
      BY <1>1, <1>2, <2>1, Dies
    <2> QED
      BY <1>1, <1>2, <1>3, <2>1, <2>2, Untouched
  <1> QED
    BY <1>4, <1>5, <1>6

-----------------------------------------------------------------------------
(* The operator's commands *)

\* An entry gets the process that was forked for it.
LEMMA Rewritten ==
  ASSUME table \in Seq(ServerEntry), NEW i \in 1..Len(table), NEW c \in Inst \cup {none},
         table' = [table EXCEPT ![i].state = "INA", ![i].pid = c]
  PROVE  /\ table' \in Seq(ServerEntry) /\ Grows(table, table')
         /\ Len(table') = Len(table) /\ table'[i].state = "INA"
  <1>1. table[i] \in ServerEntry
    OBVIOUS
  <1>2. table'[i].state = "INA" /\ table'[i].srv = table[i].srv
    BY <1>1 DEF ServerEntry
  <1>3. \A j \in 1..Len(table) : j # i => table'[j] = table[j]
    OBVIOUS
  <1>4. Len(table') = Len(table) /\ Len(table) \in Nat
    OBVIOUS
  <1>5. table' \in Seq(ServerEntry)
    <2> DEFINE e == [table[i] EXCEPT !.state = "INA", !.pid = c]
    <2>1. e \in ServerEntry
      BY <1>1 DEF ServerEntry
    <2>2. table' = [table EXCEPT ![i] = e]
      OBVIOUS
    <2> HIDE DEF e
    <2> QED
      BY <2>1, <2>2
  <1> QED
    BY <1>2, <1>3, <1>4, <1>5 DEF Grows

\* An entry's process is forgotten.
LEMMA Cleared ==
  ASSUME NEW tab \in Seq(ServerEntry), NEW i \in 1..Len(tab)
  PROVE  LET nab == [tab EXCEPT ![i].pid = none]
         IN /\ nab \in Seq(ServerEntry) /\ Grows(tab, nab) /\ Len(nab) = Len(tab)
            /\ \A j \in 1..Len(tab) : nab[j].state = tab[j].state
  <1> DEFINE e == [tab[i] EXCEPT !.pid = none]
  <1>1. tab[i] \in ServerEntry
    OBVIOUS
  <1>2. e \in ServerEntry /\ e.srv = tab[i].srv /\ e.state = tab[i].state
    BY <1>1 DEF ServerEntry
  <1>3. [tab EXCEPT ![i].pid = none] = [tab EXCEPT ![i] = e]
    OBVIOUS
  <1> HIDE DEF e
  <1> QED
    BY <1>2, <1>3, EntryGrows

\* A server that starts holds tmboot in its loop.
LEMMA WaitEnds ==
  ASSUME DomainInv, wait
  PROVE  NoneStarts
  <1> SUFFICES ASSUME NEW p \in Inst, pc[p] \in Starting
               PROVE  FALSE
    BY DEF NoneStarts
  <1>1. /\ pc[adm] = "wait" /\ Entry.state = "INA" /\ Entry.srv = p[1]
        /\ p[2] = Cardinality(ForkedOf(p[1]))
    BY DEF DomainInv, BootInv
  <1>2. Forked = ForkedOf(p[1])
    BY <1>1 DEF Forked, ForkedOf
  <1>3. p = <<Entry.srv, Cardinality(Forked)>>
    BY <1>1, <1>2 DEF Inst
  <1>4. alive(p)
    BY Kinds DEF alive, Starting, Attaching, Up
  <1>5. Entry.state = "ACT" \/ ~alive(<<Entry.srv, Cardinality(Forked)>>)
    BY DEF wait
  <1> QED
    BY <1>1, <1>3, <1>4, <1>5

\* A step of the command that neither forks nor touches an entry of a client.
LEMMA AdmStep ==
  ASSUME DomainInv, NEW l, NEW i \in Nat, Moves(adm, l, i), NoneStarts,
         l \in AdmAt \ (Joining \cup {"wait", "rmid", "in", "ubb2mib", "make_server"}),
         l = "boot" => i > 0,
         l \in {"shutdown", "reply"} => i \in 0..Len(table),
         l = "reply" => i > 0,
         table' \in Seq(ServerEntry), Grows(table, table'),
         UNCHANGED <<msqid, ads, rq, acc, raced, missed, found, ipc, wd>>,
         \/ {pc[adm], l} \subseteq {"shutdown", "reply"}
         \/ pc[adm] \notin Using /\ l \notin Using
  PROVE  DomainInv'
  <1>1. adm \in Users /\ pc[adm] # "rpid_store"
    BY Kinds DEF Using, Joining
  <1> QED
    BY <1>1, Untouched

\* tmboot forks.
Forks ==
  /\ Cardinality(Forked) < MaxForks
  /\ table' = [table EXCEPT ![at[adm]].state = "INA", ![at[adm]].pid = Child]
  /\ pc' = [pc EXCEPT ![adm] = "wait", ![Child] = "shmget"]
  /\ UNCHANGED at

LEMMA BootSteps ==
  ASSUME DomainInv,
         \/ run
         \/ start /\ ~Forks
         \/ wait \/ booted
  PROVE  DomainInv'
  <1>1. /\ Types /\ Places /\ adm \in Procs /\ at[adm] \in Nat
        /\ table \in Seq(ServerEntry) /\ Grows(table, table)
    BY Kinds, SameGrows DEF DomainInv, Types
  <1>2. \A l \in {"off", "shmget", "boot", "wait"} : l \notin Using
    BY DEF Using, Held, Joining
  <1>3. \A l \in {"off", "shmget", "boot"} :
          l \in AdmAt \ (Joining \cup {"wait", "rmid", "in", "ubb2mib", "make_server"})
    BY DEF AdmAt, Attaching, Joining
  <1>4. CASE run
    <2>1. /\ pc[adm] = "off" /\ Go(adm, "shmget") /\ UNCHANGED at
          /\ UNCHANGED <<table, msqid, ads, rq, acc, raced, missed, found, ipc, wd>>
      BY <1>4 DEF run, board, history
    <2>2. Moves(adm, "shmget", at[adm])
      BY <1>1, <2>1, Stays
    <2>3. NoneStarts
      BY <2>1, NotWaiting
    <2> QED
      BY <1>1, <1>2, <1>3, <2>1, <2>2, <2>3, AdmStep
  <1>5. CASE booted
    <2>1. /\ pc[adm] = "boot" /\ Die(adm) /\ UNCHANGED at
          /\ UNCHANGED <<table, msqid, ads, rq, acc, raced, missed, found, ipc, wd>>
      BY <1>5 DEF booted, command, history
    <2>2. Moves(adm, "off", at[adm])
      BY <1>1, <2>1, Dies
    <2>3. NoneStarts
      BY <2>1, NotWaiting
    <2> QED
      BY <1>1, <1>2, <1>3, <2>1, <2>2, <2>3, AdmStep
  <1>6. ASSUME pc[adm] \in {"boot", "wait"}, NextEntry, NoneStarts,
               table' \in Seq(ServerEntry), Grows(table, table'),
               UNCHANGED <<msqid, ads, rq, acc, raced, missed, found, ipc, wd>>
        PROVE  DomainInv'
    <2>1. Moves(adm, "boot", at[adm] + 1)
      BY <1>6, Goes DEF NextEntry
    <2>2. at[adm] + 1 \in Nat /\ at[adm] + 1 > 0
      BY <1>1
    <2> QED
      BY <1>1, <1>2, <1>3, <1>6, <2>1, <2>2, AdmStep
  <1>7. CASE start /\ ~Forks
    <2>1. /\ pc[adm] = "boot" /\ at[adm] \in 1..Len(table)
          /\ UNCHANGED <<msqid, ads, rq, acc, raced, missed, found, ipc, wd>>
      BY <1>1, <1>7 DEF start, Places, command, history
    <2>2. NoneStarts
      BY <2>1, NotWaiting
    <2>3. \/ NextEntry /\ UNCHANGED table
          \/ NextEntry /\ table' = [table EXCEPT ![at[adm]].state = "INA"]
      BY <1>7 DEF start, Forks
    <2>4. CASE NextEntry /\ UNCHANGED table
      BY <1>1, <1>6, <2>1, <2>2, <2>4
    <2>5. CASE NextEntry /\ table' = [table EXCEPT ![at[adm]].state = "INA"]
      <3>1. table' \in Seq(ServerEntry) /\ Grows(table, table')
        BY <1>1, <2>1, <2>5, Marked
      <3> QED
        BY <1>6, <2>1, <2>2, <2>5, <3>1
    <2> QED
      BY <2>3, <2>4, <2>5
  <1>8. CASE wait
    <2>1. /\ pc[adm] = "wait" /\ NextEntry /\ at[adm] \in 1..Len(table)
          /\ UNCHANGED <<msqid, ads, rq, acc, raced, missed, found, ipc, wd>>
          /\ table' = table \/ table' = [table EXCEPT ![at[adm]].pid = none]
      BY <1>1, <1>8 DEF wait, Places, command, history
    <2>2. table' \in Seq(ServerEntry) /\ Grows(table, table')
      BY <1>1, <2>1, Cleared
    <2>3. NoneStarts
      BY <1>8, WaitEnds
    <2> QED
      BY <1>6, <2>1, <2>2, <2>3
  <1> QED
    BY <1>4, <1>5, <1>7, <1>8

\* The process that is forked is a new one.
LEMMA NewChild ==
  ASSUME DomainInv, at[adm] \in 1..Len(table), Cardinality(Forked) < MaxForks
  PROVE  \E s \in Servers, n \in Nat :
           /\ s = Entry.srv /\ n < MaxForks /\ ForkedOf(s) = 1..n
           /\ Child = <<s, n + 1>> /\ Child \in Inst /\ pc[Child] = "off"
  <1>1. Entry \in ServerEntry
    BY DEF Entry, DomainInv, Types
  <1> DEFINE s == Entry.srv
  <1>2. s \in Servers
    BY <1>1 DEF ServerEntry
  <1>3. PICK n \in 0..MaxForks : ForkedOf(s) = 1..n
    BY <1>2 DEF DomainInv, BootInv
  <1>4. Forked = ForkedOf(s)
    BY DEF Forked, ForkedOf
  <1>5. Cardinality(1..n) = n
    <2>1. n \in Nat
      BY <1>3
    <2>2. CASE n = 0
      <3>1. 1..n = {}
        BY <2>2
      <3> QED
        BY <2>2, <3>1, FS_EmptySet
    <2>3. CASE n > 0
      <3>1. n \in Int /\ 1 \in Int /\ ~(1 > n)
        BY <2>1, <2>3
      <3>2. Cardinality(1..n) = n - 1 + 1
        BY <3>1, FS_Interval
      <3> QED
        BY <2>1, <3>2
    <2> QED
      BY <2>1, <2>2, <2>3
  <1>6. n \in Nat /\ n < MaxForks
    BY <1>3, <1>4, <1>5
  <1>7. Child = <<s, n + 1>>
    BY <1>3, <1>4, <1>5 DEF Child
  <1>8. n + 1 \in 1..MaxForks /\ n + 1 \notin 1..n
    BY <1>6, DomainAssumption
  <1>9. Child \in Inst
    BY <1>2, <1>7, <1>8 DEF Inst
  <1>10. pc[<<s, n + 1>>] = "off"
    BY <1>3, <1>8 DEF ForkedOf
  <1> QED
    BY <1>2, <1>3, <1>6, <1>7, <1>9, <1>10

LEMMA ForkStep ==
  ASSUME DomainInv, start, Forks
  PROVE  DomainInv'
  <1>1. /\ Types /\ Places /\ BootInv /\ InstInv /\ QueueInv /\ AccInv /\ CleanInv
        /\ table \in Seq(ServerEntry) /\ adm \in Procs
        /\ pc \in [Procs -> ClientAt \cup InstAt \cup AdmAt]
    BY Kinds DEF DomainInv, Types
  <1>2. /\ pc[adm] = "boot" /\ at[adm] \in 1..Len(table) /\ at' = at
        /\ UNCHANGED <<msqid, ads, acc, rq, ipc, wd, raced, missed, found>>
    BY <1>1 DEF start, Forks, Places, Types, command, history
  <1>3. PICK s \in Servers, n \in Nat :
           /\ s = Entry.srv /\ n < MaxForks /\ ForkedOf(s) = 1..n
           /\ Child = <<s, n + 1>> /\ Child \in Inst /\ pc[Child] = "off"
    BY <1>2, NewChild DEF Forks
  <1> DEFINE c == <<s, n + 1>>
  <1>4. c \in Inst /\ c \in Procs /\ c # adm /\ c \notin Users /\ c \notin Clients /\ pc[c] = "off"
    BY <1>3, Kinds DEF Users
  <1>5. /\ pc' = [pc EXCEPT ![adm] = "wait", ![c] = "shmget"]
        /\ table' = [table EXCEPT ![at[adm]].state = "INA", ![at[adm]].pid = c]
    BY <1>3 DEF Forks
  <1> HIDE DEF c
  <1>6. /\ \A q \in Procs : pc'[q] = IF q = c THEN "shmget" ELSE IF q = adm THEN "wait" ELSE pc[q]
        /\ pc' \in [Procs -> ClientAt \cup InstAt \cup AdmAt]
    <2>1. "wait" \in AdmAt /\ "shmget" \in AdmAt
      BY DEF AdmAt, Attaching
    <2> QED
      BY <1>1, <1>4, <1>5, <2>1
  <1>7. /\ table' \in Seq(ServerEntry) /\ Grows(table, table') /\ Len(table') = Len(table)
        /\ table'[at[adm]].state = "INA"
    <2> DEFINE k == at[adm]
    <2>1. k \in 1..Len(table) /\ table \in Seq(ServerEntry) /\ c \in Inst \cup {none}
      BY <1>1, <1>2, <1>4
    <2>2. table' = [table EXCEPT ![k].state = "INA", ![k].pid = c]
      BY <1>5
    <2> HIDE DEF k
    <2>3. /\ table' \in Seq(ServerEntry) /\ Grows(table, table')
          /\ Len(table') = Len(table) /\ table'[k].state = "INA"
      BY <2>1, <2>2, Rewritten, Zenon
    <2> QED
      BY <2>3 DEF k
  <1>8. /\ pc'[c] = "shmget" /\ pc'[adm] = "wait"
        /\ \A q \in Clients : pc'[q] = pc[q]
        /\ \A q \in Inst : q # c => pc'[q] = pc[q]
    BY <1>4, <1>6, Kinds
  <1>9. Types'
    <2>1. \A q \in Inst : pc'[q] \in InstAt
      BY <1>1, <1>8 DEF Types, InstAt, Attaching
    <2>2. pc'[adm] \in AdmAt
      BY <1>8 DEF AdmAt
    <2>3. \A q \in Clients : pc'[q] \in ClientAt
      BY <1>1, <1>8 DEF Types
    <2> QED
      BY <1>1, <1>2, <1>6, <1>7, <2>1, <2>2, <2>3 DEF Types
  <1>10. Places'
    <2>1. \A q \in Procs : pc'[q] \in {"ubb2mib", "make_server"} => at'[q] \in Servers
      BY <1>1, <1>2, <1>6 DEF Places
    <2>2. \A p \in Inst : pc'[p] \in Up => First(at'[p], p[1], table')
      BY <1>1, <1>2, <1>7, <1>8, FirstGrows DEF Places, Up
    <2>3. \A u \in Users : pc'[u] \in Joining \cup {"in"} => at'[u] \in 1..Len(acc')
      BY <1>1, <1>2, <1>8 DEF Places, Users, Joining
    <2> QED
      BY <1>1, <1>2, <1>7, <1>8, <2>1, <2>2, <2>3 DEF Places
  <1>11. BootInv'
    <2>1. NoneStarts
      BY <1>2, NotWaiting
    <2>2. \A p \in Inst : pc'[p] \in Starting => p = c
      BY <1>8, <2>1 DEF NoneStarts
    <2>3. \A t \in Servers, k \in 1..MaxForks : <<t, k>> \in Inst
      BY DEF Inst
    <2>4. \A t \in Servers : t # s => ForkedOf(t)' = ForkedOf(t)
      <3>1. \A t \in Servers, k \in 1..MaxForks : t # s => <<t, k>> # c
        BY DEF c
      <3> QED
        BY <1>8, <2>3, <3>1 DEF ForkedOf
    <2>5. ForkedOf(s)' = 1..(n + 1)
      <3>1. n + 1 \in 1..MaxForks /\ n \in Nat /\ 1..n \subseteq 1..MaxForks
        BY <1>3, DomainAssumption
      <3>2. \A k \in 1..MaxForks : <<s, k>> = c <=> k = n + 1
        BY DEF c
      <3>3. \A k \in 1..MaxForks : pc'[<<s, k>>] # "off" <=> k = n + 1 \/ pc[<<s, k>>] # "off"
        BY <1>8, <2>3, <3>2
      <3>4. \A k \in 1..MaxForks : pc[<<s, k>>] # "off" <=> k \in 1..n
        BY <1>3 DEF ForkedOf
      <3>5. \A k \in 1..MaxForks : pc'[<<s, k>>] # "off" <=> k \in 1..(n + 1)
        BY <3>1, <3>3, <3>4
      <3>6. ForkedOf(s)' = {k \in 1..MaxForks : k \in 1..(n + 1)}
        BY <3>5 DEF ForkedOf
      <3>7. {k \in 1..MaxForks : k \in 1..(n + 1)} = 1..(n + 1)
        BY <3>1
      <3> QED
        BY <3>6, <3>7
    <2>6. \A t \in Servers : \E m \in 0..MaxForks : ForkedOf(t)' = 1..m
      <3>1. n + 1 \in 0..MaxForks
        BY <1>3, DomainAssumption
      <3> QED
        BY <1>1, <2>4, <2>5, <3>1 DEF BootInv
    <2>7. c[1] = s /\ c[2] = n + 1
      BY DEF c
    <2>8. Cardinality(ForkedOf(s)') = n + 1
      <3>1. n + 1 \in Int /\ 1 \in Int /\ ~(1 > n + 1)
        OBVIOUS
      <3>2. Cardinality(1..(n + 1)) = n + 1 - 1 + 1
        BY <3>1, FS_Interval
      <3> QED
        BY <2>5, <3>2
    <2>9. Entry' = table'[at[adm]] /\ Entry = table[at[adm]]
      BY <1>2 DEF Entry
    <2>10. Entry'.srv = s
      BY <1>2, <1>3, <1>7, <2>9 DEF Grows
    <2>11. ASSUME NEW p \in Inst, pc'[p] \in Starting
           PROVE  /\ pc'[adm] = "wait" /\ Entry'.state = "INA" /\ Entry'.srv = p[1]
                  /\ p[2] = Cardinality(ForkedOf(p[1])')
      <3>1. p = c /\ p[1] = s /\ p[2] = n + 1
        BY <2>2, <2>7, <2>11
      <3> QED
        BY <1>7, <1>8, <2>8, <2>9, <2>10, <3>1
    <2> QED
      BY <2>6, <2>11 DEF BootInv
  <1>12. InstQuiet
    BY <1>2, <1>4, <1>8 DEF InstQuiet, Up
  <1>13. AccQuiet
    <2>1. \A u \in Users : Keeps(u)
      BY <1>2, <1>8 DEF Keeps, Users, Using, Held, Joining
    <2>2. acc \in Seq(Accesser)
      BY <1>1 DEF Types
    <2>3. \A u \in Users : pc[u] = "rpid_store" <=> pc'[u] = "rpid_store"
      BY <1>2, <1>8 DEF Users
    <2> QED
      BY <1>2, <1>8, <2>1, <2>2, <2>3 DEF AccQuiet
  <1> QED
    BY <1>1, <1>9, <1>10, <1>11, <1>12, <1>13, InstKept, AccKept DEF DomainInv

LEMMA ShutdownSteps ==
  ASSUME DomainInv, shutdown \/ reply
  PROVE  DomainInv'
  <1>1. /\ Types /\ Places /\ adm \in Procs /\ at[adm] \in Nat
        /\ table \in Seq(ServerEntry) /\ Grows(table, table) /\ Len(table) \in Nat
    BY Kinds, SameGrows DEF DomainInv, Types
  <1>2. /\ pc[adm] \in {"shutdown", "reply"} /\ at[adm] \in 1..Len(table)
        /\ UNCHANGED <<msqid, ads, rq, acc, raced, missed, found, ipc, wd>>
    BY <1>1 DEF shutdown, reply, Places, board, command, history
  <1>3. NoneStarts
    BY <1>2, NotWaiting
  <1>4. \A l \in {"shutdown", "reply"} :
          l \in AdmAt \ (Joining \cup {"wait", "rmid", "in", "ubb2mib", "make_server"})
    BY DEF AdmAt, Joining
  <1>5. PICK l \in {"shutdown", "reply"}, i \in {at[adm], at[adm] - 1} :
          To(adm, l, i) /\ (l = "reply" => i = at[adm])
    BY DEF shutdown, reply
  <1>6. Moves(adm, l, i)
    BY <1>5, Goes
  <1>7. i \in Nat /\ i \in 0..Len(table) /\ (l = "reply" => i > 0)
    BY <1>2, <1>5
  <1>8. table' \in Seq(ServerEntry) /\ Grows(table, table')
    <2>1. table' = table \/ table' = [table EXCEPT ![at[adm]].state = "SUS"]
      BY DEF shutdown, reply, board
    <2>2. CASE table' = [table EXCEPT ![at[adm]].state = "SUS"]
      BY <1>1, <1>2, <2>2, Marked
    <2> QED
      BY <1>1, <2>1, <2>2
  <1> QED
    BY <1>2, <1>3, <1>4, <1>6, <1>7, <1>8, AdmStep

\* What is to be removed is listed.
LEMMA Collects ==
  ASSUME DomainInv, collect
  PROVE  DomainInv'
  <1>1. /\ Types /\ Places /\ BootInv /\ InstInv /\ QueueInv /\ AccInv /\ CleanInv
        /\ adm \in Procs /\ adm \in Users /\ pc[adm] = "remove" /\ at[adm] \in Nat
        /\ table \in Seq(ServerEntry) /\ Grows(table, table)
        /\ UNCHANGED <<table, msqid, ads, rq, acc, raced, missed, ipc, wd, at>>
    BY Kinds, SameGrows DEF DomainInv, Types, collect, board, history
  <1>2. NoneStarts
    BY <1>1, NotWaiting
  <1>3. CASE Go(adm, "off") /\ UNCHANGED found
    <2>1. Moves(adm, "off", at[adm])
      BY <1>1, <1>3, Stays
    <2>2. /\ "off" \in AdmAt \ (Joining \cup {"wait", "rmid", "in", "ubb2mib", "make_server"})
          /\ "off" \notin Using /\ "remove" \notin Using
      BY DEF AdmAt, Using, Held, Joining
    <2> QED
      BY <1>1, <1>2, <1>3, <2>1, <2>2, AdmStep
  <1>4. CASE Go(adm, "rmid") /\ found' = Collected
    <2>1. Moves(adm, "rmid", at[adm])
      BY <1>1, <1>4, Stays
    <2>2. /\ \A q \in Procs : pc'[q] = IF q = adm THEN "rmid" ELSE pc[q]
          /\ pc' \in [Procs -> ClientAt \cup InstAt \cup AdmAt]
      BY <1>1, <2>1, Moved DEF AdmAt
    <2>3. /\ pc'[adm] = "rmid"
          /\ \A p \in Inst : pc'[p] = pc[p]
          /\ \A c \in Clients : pc'[c] = pc[c]
      BY <2>2, Kinds
    <2>4. \A u \in Users : pc'[u] = pc[u] \/ (u = adm /\ pc'[u] = "rmid")
      BY <2>3 DEF Users
    <2>5. Types'
      BY <1>1, <2>2, <2>3 DEF Types, AdmAt
    <2>6. Places'
      <3>1. \A q \in Procs : pc'[q] \in {"ubb2mib", "make_server"} => at'[q] \in Servers
        BY <1>1, <2>2 DEF Places
      <3>2. \A u \in Users : pc'[u] \in Joining \cup {"in"} => at'[u] \in 1..Len(acc')
        BY <1>1, <2>4 DEF Places, Joining
      <3> QED
        BY <1>1, <2>3, <3>1, <3>2 DEF Places
    <2>7. BootInv'
      <3>1. \A s \in Servers, k \in 1..MaxForks : <<s, k>> \in Inst
        BY DEF Inst
      <3>2. \A s \in Servers : ForkedOf(s)' = ForkedOf(s)
        BY <2>3, <3>1 DEF ForkedOf
      <3> QED
        BY <1>1, <1>2, <2>3, <3>2 DEF BootInv, NoneStarts
    <2>8. InstInv'
      <3>1. \A p \in Inst : Serving(p)' <=> Serving(p)
        BY <2>3 DEF Serving
      <3> QED
        BY <1>1, <3>1 DEF InstInv, OneServes
    <2>9. QueueInv'
      <3>1. \A a \in Addresses : msqid[a] \in found'
        BY <1>1, <1>4 DEF Collected, Types
      <3> QED
        BY <1>1, <2>3, <3>1 DEF QueueInv
    <2>10. \A i \in 1..Len(acc) : /\ acc[i].pid # none => acc[i].pid \in Users
                                  /\ acc[i].rpid # none => acc[i].rpid \in Users
      <3>1. \A i \in 1..Len(acc) : acc[i] \in Accesser
        BY <1>1 DEF Types
      <3> QED
        BY <3>1 DEF Accesser
    <2>11. "remove" \notin Using /\ "rmid" \notin Using /\ "rmid" \notin Joining \cup Held
      BY DEF Using, Held, Joining
    <2>12. \A u \in Users : /\ pc[u] \in Using => pc'[u] = pc[u]
                            /\ pc'[u] \in Joining \cup Held => pc'[u] = pc[u]
      BY <1>1, <2>4, <2>11
    <2>13. AccInv'
      <3>1. \A u \in Users : pc'[u] \in Joining \cup {"in"} => acc[at[u]].pid = u
        BY <1>1, <2>12 DEF AccInv, Held
      <3>2. \A i \in 1..Len(acc) : acc[i].pid # none => pc'[acc[i].pid] \in Using
        <4> SUFFICES ASSUME NEW i \in 1..Len(acc), acc[i].pid # none
                     PROVE  pc'[acc[i].pid] = pc[acc[i].pid]
          BY <1>1 DEF AccInv
        <4>1. pc[acc[i].pid] \in Using
          BY <1>1 DEF AccInv
        <4>2. acc[i].pid \in Users
          BY <2>10
        <4> QED
          BY <2>12, <4>1, <4>2, Zenon
      <3>3. \A i \in 1..Len(acc) : acc[i].rpid # none => pc'[acc[i].rpid] = pc[acc[i].rpid]
        <4> SUFFICES ASSUME NEW i \in 1..Len(acc), acc[i].rpid # none
                     PROVE  pc'[acc[i].rpid] = pc[acc[i].rpid]
          BY <1>1 DEF AccInv
        <4>1. pc[acc[i].rpid] \in Using
          BY <1>1 DEF AccInv
        <4>2. acc[i].rpid \in Users
          BY <2>10
        <4> QED
          BY <2>12, <4>1, <4>2, Zenon
      <3>4. \A i \in 1..Len(acc) : acc[i].rpid # none =>
              /\ pc'[acc[i].rpid] \in Using \ Joining
              /\ pc'[acc[i].rpid] \in Held => acc[i].pid = acc[i].rpid
        BY <1>1, <3>3 DEF AccInv
      <3> QED
        BY <1>1, <2>3, <3>1, <3>2, <3>3, <3>4 DEF AccInv
    <2>14. CleanInv'
      <3>1. raced = {} => \A u \in Users : pc'[u] \in Joining => acc[at[u]].rpid = none
        BY <1>1, <2>12 DEF CleanInv
      <3>2. ASSUME raced = {}, NEW u \in Users, u \in ipc
            PROVE  Kept(u)'
        <4>1. Kept(u) /\ (pc[u] = "rpid_store" => pc'[u] = "rpid_store")
          BY <1>1, <2>12, <3>2 DEF CleanInv, Using, Joining
        <4> QED
          BY <1>1, <4>1 DEF Kept
      <3>3. \A i \in 1..Len(acc) : acc[i].rpid \in found'
        BY <1>4 DEF Collected
      <3>4. OwnReplyQueue'
        BY <1>1, <2>12 DEF CleanInv, OwnReplyQueue, Users, Held
      <3>5. \A u \in Users : pc'[u] = "rpid_store" => u \in ipc
        BY <1>1, <2>12 DEF CleanInv, Joining
      <3> QED
        BY <1>1, <3>1, <3>2, <3>3, <3>4, <3>5 DEF CleanInv
    <2> QED
      BY <2>5, <2>6, <2>7, <2>8, <2>9, <2>13, <2>14 DEF DomainInv
  <1> QED
    BY <1>3, <1>4 DEF collect

\* The segment goes: whoever was attached is on its own.
LEMMA Removes ==
  ASSUME DomainInv, remove
  PROVE  DomainInv'
  <1>1. /\ Types /\ Places /\ BootInv /\ InstInv /\ QueueInv /\ AccInv /\ CleanInv
        /\ adm \in Procs /\ pc[adm] = "rmid" /\ adm \notin Inst
    BY Kinds DEF DomainInv, remove
  <1>2. NoneStarts
    BY <1>1, NotWaiting
  <1>3. /\ table' = <<>> /\ ads' = {} /\ acc' = <<>>
        /\ ipc' = ipc \ found
        /\ msqid' = [a \in DOMAIN msqid |-> none]
        /\ pc' = [p \in Procs |-> Left(p)]
        /\ missed' = missed \cup {p \in Procs : Unnamed(p)}
        /\ wd' = Rest
        /\ UNCHANGED <<at, rq, raced>>
    BY DEF remove
  <1>4. \A p \in Procs : pc'[p] = Left(p)
    BY <1>3
  <1>5. pc'[adm] = "off"
    BY <1>1, <1>4 DEF Left, Starts
  <1>6. ASSUME NEW p \in Inst
        PROVE  /\ pc'[p] \in {"off", "dead", "left"}
               /\ pc'[p] = "off" <=> pc[p] = "off"
               /\ pc'[p] = "left" => pc[p] \in {"left", "serve", "putback", "stopping"}
    <2>1. pc[p] \in {"off", "dead", "left", "serve", "putback", "stopping"}
      BY <1>1, <1>2 DEF Types, InstAt, Up, NoneStarts, Starting
    <2>2. p \in Procs /\ p # adm /\ ~Starts(p)
      BY <2>1, Kinds DEF Starts
    <2> QED
      BY <1>4, <2>1, <2>2 DEF Left
  <1>7. ASSUME NEW c \in Clients
        PROVE  pc'[c] \in {"off", "dead", "late", "left"}
    <2>1. pc[c] \in ClientAt /\ c \in Procs /\ c # adm
      BY <1>1, Kinds DEF Types
    <2>2. pc[c] # "shmget"
      BY <2>1 DEF ClientAt, Joining
    <2> QED
      BY <1>4, <2>1, <2>2 DEF Left
  <1>8. \A u \in Users : pc'[u] \in {"off", "dead", "late", "left"}
    BY <1>5, <1>7 DEF Users
  <1>9. Types'
    <2>1. /\ \A c \in Clients : pc'[c] \in ClientAt
          /\ \A p \in Inst : pc'[p] \in InstAt
          /\ pc'[adm] \in AdmAt
      BY <1>5, <1>6, <1>7 DEF ClientAt, InstAt, AdmAt
    <2>2. pc' \in [Procs -> ClientAt \cup InstAt \cup AdmAt]
      <3>1. \A p \in Procs : Left(p) \in ClientAt \cup InstAt \cup AdmAt
        BY <1>4, <2>1, Kinds DEF Users
      <3> QED
        BY <1>3, <3>1
    <2>3. msqid' \in [Addresses -> Inst \cup {none}]
      BY <1>1, <1>3 DEF Types
    <2>4. table' \in Seq(ServerEntry) /\ acc' \in Seq(Accesser)
      BY <1>3
    <2>5. wd' \in [at : {"scan", "server", "clean"}, i : Nat]
      BY <1>3 DEF Rest
    <2>6. /\ ipc' \subseteq Procs /\ raced' \subseteq Users
          /\ at' \in [Procs -> Nat] /\ rq' \in [Inst -> Inst \cup {none}]
      BY <1>1, <1>3 DEF Types
    <2> QED
      BY <2>1, <2>2, <2>3, <2>4, <2>5, <2>6 DEF Types
  <1>10. Places'
    <2>1. \A p \in Procs : pc'[p] \notin {"ubb2mib", "make_server"}
      BY <1>6, <1>8, Kinds
    <2>2. \A p \in Inst : pc'[p] \notin Up
      BY <1>6 DEF Up
    <2>3. \A u \in Users : pc'[u] \notin Joining \cup {"in"}
      BY <1>8 DEF Joining
    <2> QED
      BY <1>3, <1>5, <2>1, <2>2, <2>3 DEF Places, Rest
  <1>11. BootInv'
    <2>1. \A p \in Inst : pc'[p] \notin Starting
      BY <1>6 DEF Starting, Attaching
    <2>2. \A s \in Servers, k \in 1..MaxForks : <<s, k>> \in Inst
      BY DEF Inst
    <2>3. \A s \in Servers : ForkedOf(s)' = ForkedOf(s)
      BY <1>6, <2>2 DEF ForkedOf
    <2> QED
      BY <1>1, <2>1, <2>3 DEF BootInv
  <1>12. InstInv'
    <2>1. \A p \in Inst : ~Serving(p)'
      BY <1>6 DEF Serving
    <2> QED
      BY <2>1 DEF InstInv, OneServes
  <1>13. QueueInv'
    <2>1. \A p \in Inst : pc'[p] \notin {"qcreate", "msqid"} /\ pc'[p] \notin Bound
      BY <1>6 DEF Bound
    <2>2. ASSUME NEW q \in Inst, q \in ipc'
          PROVE  q \in missed'
      <3>1. q \in ipc /\ q \notin found /\ pc[q] # "msqid"
        BY <1>2, <1>3, <2>2 DEF NoneStarts, Starting
      <3>2. msqid[Queue(q)] # q
        BY <1>1, <3>1, Kinds DEF QueueInv
      <3> QED
        BY <1>1, <1>3, <3>1, <3>2 DEF QueueInv
    <2>3. ASSUME NEW q \in Inst, pc'[q] \in Fresh
          PROVE  (\A p \in Inst : rq'[p] # q) /\ (\A a \in Addresses : msqid'[a] # q)
      <3>1. pc[q] = "off"
        BY <1>6, <2>3 DEF Fresh, Attaching
      <3>2. \A p \in Inst : rq[p] # q
        BY <1>1, <3>1 DEF QueueInv, Fresh
      <3>3. \A a \in Addresses : msqid'[a] = none
        BY <1>1, <1>3 DEF Types
      <3> QED
        BY <1>3, <3>2, <3>3, Kinds
    <2>4. ASSUME NEW p \in Inst, NEW q \in Inst, pc'[p] = "left", rq'[p] = q
          PROVE  q \notin ipc'
      <3>1. CASE pc[p] = "left"
        BY <1>1, <1>3, <2>4, <3>1 DEF QueueInv
      <3>2. CASE pc[p] \in {"serve", "putback", "stopping"}
        <4>1. rq[p] = msqid[Queue(p)] /\ Queue(p) \in Addresses
          BY <1>1, <3>2, Kinds DEF QueueInv, Bound
        <4>2. msqid[Queue(p)] \in found
          BY <1>1, <4>1 DEF QueueInv
        <4> QED
          BY <1>3, <2>4, <4>1, <4>2
      <3> QED
        BY <1>6, <2>4, <3>1, <3>2
    <2> QED
      BY <1>5, <2>1, <2>2, <2>3, <2>4 DEF QueueInv
  <1>14. AccInv'
    <2>1. \A u \in Users : pc'[u] \notin Joining \cup {"in", "shutdown", "reply"}
      BY <1>8 DEF Joining
    <2>2. 1..Len(acc') = {}
      BY <1>3
    <2> QED
      BY <1>5, <2>1, <2>2 DEF AccInv
  <1>15. CleanInv'
    <2>1. \A u \in Users : pc'[u] \notin Held \cup Joining
      BY <1>8 DEF Held, Joining
    <2>2. ASSUME raced' = {}, NEW u \in Users, u \in ipc'
          PROVE  u \in missed'
      <3>1. u \in ipc /\ u \notin found /\ raced = {} /\ u \in Procs /\ u # none
        BY <1>3, <2>2, Kinds
      <3>2. Kept(u)
        BY <1>1, <3>1 DEF CleanInv
      <3>3. \A i \in 1..Len(acc) : acc[i].rpid = u => u \in missed
        BY <1>1, <3>1 DEF CleanInv
      <3> QED
        BY <1>3, <3>1, <3>2, <3>3 DEF Kept, Unnamed
    <2>3. wd'.at # "clean"
      BY <1>3 DEF Rest
    <2>4. OwnReplyQueue'
      BY <2>1 DEF OwnReplyQueue, Users, Held
    <2> QED
      BY <1>5, <2>1, <2>2, <2>3, <2>4 DEF CleanInv, Kept, Joining
  <1> QED
    BY <1>9, <1>10, <1>11, <1>12, <1>13, <1>14, <1>15 DEF DomainInv

-----------------------------------------------------------------------------
(* The watchdog *)

WatchStep ==
  /\ UNCHANGED <<pc, at, msqid, ads, rq, raced, missed, found>>
  /\ table' \in Seq(ServerEntry) /\ Grows(table, table')
  /\ \A j \in 1..Len(table) : table'[j].state = table[j].state
  /\ acc' \in Seq(Accesser) /\ Len(acc') = Len(acc)
  /\ ipc' \subseteq ipc
  /\ wd' \in [at : {"scan", "server", "clean"}, i : Nat]
  /\ wd'.at = "server" => wd'.i \in 1..Len(table)
  /\ wd'.at = "clean" => wd'.i \in 1..Len(acc)

LEMMA WatchKeeps ==
  ASSUME DomainInv, WatchStep
  PROVE  Types' /\ Places' /\ BootInv' /\ InstInv' /\ QueueInv'
  <1>1. Types /\ Places /\ BootInv /\ InstInv /\ QueueInv /\ adm \in Procs
    BY Kinds DEF DomainInv
  <1>2. Types'
    BY <1>1 DEF Types, WatchStep
  <1>3. Places'
    <2>1. \A p \in Inst : pc'[p] \in Up => First(at'[p], p[1], table')
      BY <1>1, FirstGrows DEF Places, WatchStep
    <2>2. \A u \in Users : pc'[u] \in Joining \cup {"in"} => at'[u] \in 1..Len(acc')
      BY <1>1 DEF Places, WatchStep
    <2>3. /\ pc'[adm] = "boot" => at'[adm] > 0
          /\ pc'[adm] = "wait" => at'[adm] \in 1..Len(table')
          /\ pc'[adm] \in {"shutdown", "reply"} => at'[adm] \in 0..Len(table')
          /\ pc'[adm] = "reply" => at'[adm] > 0
      BY <1>1 DEF Places, WatchStep, Grows
    <2>4. \A p \in Procs : pc'[p] \in {"ubb2mib", "make_server"} => at'[p] \in Servers
      BY <1>1 DEF Places, WatchStep
    <2>5. wd'.at = "server" => wd'.i \in 1..Len(table')
      BY DEF WatchStep, Grows
    <2>6. wd'.at = "clean" => wd'.i \in 1..Len(acc')
      BY DEF WatchStep
    <2> QED
      BY <2>1, <2>2, <2>3, <2>4, <2>5, <2>6 DEF Places
  <1>4. BootInv'
    <2>1. pc' = pc /\ at' = at /\ Entry' = table'[at[adm]] /\ Entry = table[at[adm]]
      BY DEF WatchStep, Entry
    <2>2. \A s \in Servers : ForkedOf(s)' = ForkedOf(s)
      BY <2>1 DEF ForkedOf
    <2>3. ASSUME NEW p \in Inst, pc'[p] \in Starting
          PROVE  /\ pc'[adm] = "wait" /\ Entry'.state = "INA" /\ Entry'.srv = p[1]
                 /\ p[2] = Cardinality(ForkedOf(p[1])')
      <3>1. /\ pc[adm] = "wait" /\ Entry.state = "INA" /\ Entry.srv = p[1]
            /\ p[2] = Cardinality(ForkedOf(p[1])) /\ p[1] \in Servers
        BY <1>1, <2>1, <2>3, Kinds DEF BootInv
      <3>2. at[adm] \in 1..Len(table)
        BY <1>1, <3>1 DEF Places
      <3>3. Entry'.state = Entry.state
        BY <2>1, <3>2 DEF WatchStep
      <3>4. Entry'.srv = Entry.srv
        BY <2>1, <3>2 DEF WatchStep, Grows
      <3> QED
        BY <2>1, <2>2, <3>1, <3>3, <3>4
    <2>4. \A s \in Servers : \E n \in 0..MaxForks : ForkedOf(s)' = 1..n
      BY <1>1, <2>2 DEF BootInv
    <2> QED
      BY <2>3, <2>4 DEF BootInv
  <1>5. InstQuiet
    BY DEF InstQuiet, WatchStep
  <1> QED
    BY <1>1, <1>2, <1>3, <1>4, <1>5, InstKept

\* The watchdog looks after servers, or nothing happens to what the invariant
\* is about.
kept == <<table, msqid, ads, acc, ipc, pc, at, rq, wd, raced, missed, found>>

LEMMA WatchServers ==
  ASSUME DomainInv,
         \/ \E i \in 1..Len(table) : monitor_servers(i)
         \/ clear_server
         \/ UNCHANGED kept
  PROVE  DomainInv'
  <1>1. /\ Types /\ Places /\ AccInv /\ CleanInv
        /\ table \in Seq(ServerEntry) /\ Grows(table, table) /\ Len(table) \in Nat
        /\ acc \in Seq(Accesser) /\ Len(acc) \in Nat
        /\ wd \in [at : {"scan", "server", "clean"}, i : Nat]
    BY SameGrows DEF DomainInv, Types
  <1>2. UNCHANGED <<pc, at, msqid, ads, rq, raced, missed, found, acc, ipc>>
    BY DEF monitor_servers, clear_server, board, command, history, kept
  <1>3. /\ table' \in Seq(ServerEntry) /\ Grows(table, table')
        /\ \A j \in 1..Len(table) : table'[j].state = table[j].state
    <2>1. CASE table' = table
      BY <1>1, <2>1
    <2>2. CASE clear_server
      <3> DEFINE k == wd.i
      <3>1. k \in 1..Len(table) /\ table' = [table EXCEPT ![k].pid = none]
        BY <1>1, <2>2 DEF clear_server, Places
      <3> HIDE DEF k
      <3>2. table' \in Seq(ServerEntry) /\ Grows(table, table')
        BY <1>1, <3>1, Cleared
      <3>3. \A j \in 1..Len(table) : [table EXCEPT ![k].pid = none][j].state = table[j].state
        BY <1>1, <3>1, Cleared, ZenonT(40)
      <3> QED
        BY <3>1, <3>2, <3>3, Zenon
    <2> QED
      BY <2>1, <2>2 DEF monitor_servers, board, kept
  <1>4. /\ wd' \in [at : {"scan", "server", "clean"}, i : Nat]
        /\ wd'.at = "server" => wd'.i \in 1..Len(table)
        /\ wd'.at = "clean" => wd' = wd
    <2>1. CASE \E i \in 1..Len(table) : monitor_servers(i)
      <3>1. PICK i \in 1..Len(table) : wd' = [at |-> "server", i |-> i]
        BY <2>1 DEF monitor_servers
      <3> QED
        BY <3>1
    <2>2. CASE clear_server
      BY <2>2 DEF clear_server, Rest
    <2>3. CASE UNCHANGED kept
      BY <1>1, <2>3 DEF kept, Places
    <2> QED
      BY <2>1, <2>2, <2>3
  <1>5. wd'.at = "clean" => wd'.i \in 1..Len(acc)
    BY <1>1, <1>4 DEF Places
  <1>6. WatchStep
    BY <1>1, <1>2, <1>3, <1>4, <1>5 DEF WatchStep
  <1>7. \A u \in Users : Keeps(u)
    BY <1>2 DEF Keeps
  <1>8. AccQuiet
    BY <1>1, <1>2, <1>4, <1>7 DEF AccQuiet
  <1> QED
    BY <1>1, <1>6, <1>8, WatchKeeps, AccKept DEF DomainInv

-----------------------------------------------------------------------------
(* The entries of clients *)

\* Entry k changes, the others do not.
OnlyEntry(k) ==
  /\ k \in 1..Len(acc) /\ acc \in Seq(Accesser) /\ acc' \in Seq(Accesser)
  /\ Len(acc') = Len(acc) /\ Len(acc) \in Nat
  /\ \A j \in 1..Len(acc) : j # k => acc'[j] = acc[j]

LEMMA EntryTypes ==
  ASSUME Types, NEW i \in 1..Len(acc)
  PROVE  /\ acc[i] \in Accesser /\ acc[i] = [pid |-> acc[i].pid, rpid |-> acc[i].rpid]
         /\ acc[i].pid \in Users \cup {none} /\ acc[i].rpid \in Users \cup {none}
  <1>1. acc[i] \in Accesser
    BY DEF Types
  <1> QED
    BY <1>1 DEF Accesser

LEMMA PidSet ==
  ASSUME Types, NEW k \in 1..Len(acc), NEW v \in Users \cup {none},
         acc' = [acc EXCEPT ![k].pid = v]
  PROVE  OnlyEntry(k) /\ acc'[k].pid = v /\ acc'[k].rpid = acc[k].rpid
  <1>1. acc \in Seq(Accesser)
    BY DEF Types
  <1>2. acc[k] \in Accesser
    BY <1>1
  <1>3. acc'[k].pid = v /\ acc'[k].rpid = acc[k].rpid
    BY <1>1, <1>2 DEF Accesser
  <1>4. /\ \A j \in 1..Len(acc) : j # k => acc'[j] = acc[j]
        /\ Len(acc') = Len(acc) /\ Len(acc) \in Nat
    BY <1>1
  <1>5. acc' \in Seq(Accesser)
    <2> DEFINE e == [acc[k] EXCEPT !.pid = v]
    <2>1. e \in Accesser
      BY <1>2 DEF Accesser
    <2>2. acc' = [acc EXCEPT ![k] = e]
      OBVIOUS
    <2> HIDE DEF e
    <2> QED
      BY <1>1, <2>1, <2>2
  <1> QED
    BY <1>1, <1>3, <1>4, <1>5 DEF OnlyEntry

LEMMA RpidSet ==
  ASSUME Types, NEW k \in 1..Len(acc), NEW v \in Users \cup {none},
         acc' = [acc EXCEPT ![k].rpid = v]
  PROVE  OnlyEntry(k) /\ acc'[k].rpid = v /\ acc'[k].pid = acc[k].pid
  <1>1. acc \in Seq(Accesser)
    BY DEF Types
  <1>2. acc[k] \in Accesser
    BY <1>1
  <1>3. acc'[k].rpid = v /\ acc'[k].pid = acc[k].pid
    BY <1>1, <1>2 DEF Accesser
  <1>4. /\ \A j \in 1..Len(acc) : j # k => acc'[j] = acc[j]
        /\ Len(acc') = Len(acc) /\ Len(acc) \in Nat
    BY <1>1
  <1>5. acc' \in Seq(Accesser)
    <2> DEFINE e == [acc[k] EXCEPT !.rpid = v]
    <2>1. e \in Accesser
      BY <1>2 DEF Accesser
    <2>2. acc' = [acc EXCEPT ![k] = e]
      OBVIOUS
    <2> HIDE DEF e
    <2> QED
      BY <1>1, <2>1, <2>2
  <1> QED
    BY <1>1, <1>3, <1>4, <1>5 DEF OnlyEntry

LEMMA InvalidSet ==
  ASSUME Types, NEW k \in 1..Len(acc), Invalidated(k)
  PROVE  OnlyEntry(k) /\ acc'[k].rpid = none /\ acc'[k].pid = none
  <1> DEFINE e == [pid |-> none, rpid |-> none]
  <1>1. acc \in Seq(Accesser)
    BY DEF Types
  <1>2. e \in Accesser /\ e.pid = none /\ e.rpid = none
    BY DEF Accesser
  <1>3. acc' = [acc EXCEPT ![k] = e]
    BY DEF Invalidated
  <1> HIDE DEF e
  <1>4. /\ \A j \in 1..Len(acc) : j # k => acc'[j] = acc[j]
        /\ Len(acc') = Len(acc) /\ Len(acc) \in Nat /\ acc' \in Seq(Accesser)
    BY <1>1, <1>2, <1>3
  <1>5. acc'[k] = e
    BY <1>1, <1>3
  <1> QED
    BY <1>1, <1>2, <1>4, <1>5 DEF OnlyEntry

\* A client or tmshutdown ends and gives entry k up.
LEMMA Releases ==
  ASSUME DomainInv, NEW p \in Users, NEW l \in {"dead", "remove"}, NEW k \in 1..Len(acc),
         acc[k].pid = p, pc[p] \in Held, Moves(p, l, at[p]), l = "dead" <=> p # adm,
         Invalidated(k), Deleted(k),
         UNCHANGED <<table, msqid, ads, rq, wd, raced, missed, found>>
  PROVE  DomainInv'
  <1>1. /\ Types /\ Places /\ AccInv /\ CleanInv /\ p \in Procs /\ p # none
        /\ table \in Seq(ServerEntry) /\ Grows(table, table) /\ at[p] \in Nat
        /\ raced \subseteq Users
    BY Kinds, SameGrows DEF DomainInv, Types
  <1>2. OnlyEntry(k) /\ acc'[k].rpid = none /\ acc'[k].pid = none
    BY <1>1, InvalidSet
  <1>3. /\ acc' \in Seq(Accesser) /\ Len(acc') = Len(acc) /\ Len(acc) \in Nat
        /\ \A j \in 1..Len(acc) : j # k => acc'[j] = acc[j]
    BY <1>2 DEF OnlyEntry
  <1>4. \A q \in Procs : /\ pc'[q] = IF q = p THEN l ELSE pc[q]
                         /\ at'[q] = at[q]
    BY <1>1, Moved
  <1>5. pc'[p] = l /\ \A v \in Users : at'[v] = at[v] /\ (v # p => pc'[v] = pc[v])
    BY <1>1, <1>4, Kinds
  <1>6. ipc' = ipc \ {acc[k].rpid}
    BY DEF Deleted
  <1>7. Types' /\ Places' /\ BootInv' /\ InstInv' /\ QueueInv'
    <2>1. /\ l \in (IF p = adm THEN AdmAt ELSE ClientAt) \ {"wait", "rmid"}
          /\ l \notin Joining \cup {"ubb2mib", "make_server", "in", "boot", "shutdown", "reply"}
      BY DEF AdmAt, ClientAt, Joining
    <2>2. pc[p] # "wait" /\ (NoneStarts \/ p # adm)
      BY NotWaiting DEF Held
    <2>3. UserStep(p, l, at[p])
      BY <1>1, <1>3, <1>6, <2>1, <2>2 DEF UserStep
    <2> QED
      BY <2>3, UserKeeps
  <1>8. \A j \in 1..Len(acc) : j # k => acc[j].pid # p /\ acc[j].rpid # p
    BY <1>1 DEF AccInv
  <1>9. \A v \in Users : pc'[v] \in Held \cup Joining => v # p /\ pc'[v] = pc[v]
    BY <1>5 DEF Held, Joining
  <1>10. \A v \in Users : v # p /\ pc[v] \in Joining \cup {"in"} =>
           at[v] \in 1..Len(acc) /\ at[v] # k /\ acc'[at[v]] = acc[at[v]]
    BY <1>1, <1>3 DEF AccInv, Places
  <1>11. \A j \in 1..Len(acc') : acc'[j].pid # none \/ acc'[j].rpid # none =>
           j \in 1..Len(acc) /\ j # k /\ acc'[j] = acc[j]
    BY <1>2, <1>3
  <1>12. AccInv'
    <2>1. \A u \in Users : pc'[u] \in Joining \cup {"in"} => acc'[at'[u]].pid = u
      BY <1>1, <1>5, <1>9, <1>10 DEF AccInv, Held
    <2>2. pc'[adm] \in {"shutdown", "reply"} => \E i \in 1..Len(acc') : acc'[i].pid = adm
      BY <1>1, <1>3, <1>9, Kinds DEF AccInv, Held
    <2>3. \A i \in 1..Len(acc') : acc'[i].pid # none => pc'[acc'[i].pid] \in Using
      <3> SUFFICES ASSUME NEW i \in 1..Len(acc'), acc'[i].pid # none
                   PROVE  pc'[acc'[i].pid] \in Using
        OBVIOUS
      <3>1. i \in 1..Len(acc) /\ i # k /\ acc'[i] = acc[i]
        BY <1>11
      <3>2. acc[i].pid \in Users /\ acc[i].pid # p
        BY <1>1, <1>8, <3>1, EntryTypes
      <3> QED
        BY <1>1, <1>5, <3>1, <3>2 DEF AccInv
    <2>4. \A i \in 1..Len(acc') : acc'[i].rpid # none =>
            acc'[i].rpid \in Users /\ acc'[i].rpid # p /\ i \in 1..Len(acc) /\ acc'[i] = acc[i]
      BY <1>1, <1>8, <1>11, EntryTypes, ZenonT(40)
    <2>5. \A i \in 1..Len(acc') : acc'[i].rpid # none => pc'[acc'[i].rpid] \in Using \ Joining
      BY <1>1, <1>5, <2>4 DEF AccInv
    <2>6. \A i \in 1..Len(acc') :
            acc'[i].rpid # none /\ pc'[acc'[i].rpid] \in Held => acc'[i].pid = acc'[i].rpid
      BY <1>1, <1>5, <2>4, SMTT(40) DEF AccInv
    <2>7. \A i, j \in 1..Len(acc') : acc'[i].pid = acc'[j].pid /\ acc'[i].pid # none => i = j
      <3>1. \A i, j \in 1..Len(acc) : acc[i].pid = acc[j].pid /\ acc[i].pid # none => i = j
        BY <1>1 DEF AccInv
      <3> QED
        BY <1>11, <3>1
    <2>8. \A i, j \in 1..Len(acc') : acc'[i].rpid = acc'[j].rpid /\ acc'[i].rpid # none => i = j
      <3>1. \A i, j \in 1..Len(acc) : acc[i].rpid = acc[j].rpid /\ acc[i].rpid # none => i = j
        BY <1>1 DEF AccInv
      <3> QED
        BY <1>11, <3>1
    <2> QED
      BY <2>1, <2>2, <2>3, <2>5, <2>6, <2>7, <2>8 DEF AccInv
  <1>13. CleanInv'
    <2>1. wd'.at = "clean" => acc'[wd'.i].pid \in {none} \cup raced'
      BY <1>1, <1>2, <1>3 DEF CleanInv, Places
    <2>2. raced' = {} => \A u \in Users : pc'[u] \in Joining => acc'[at'[u]].rpid = none
      BY <1>1, <1>5, <1>9, <1>10 DEF CleanInv
    <2>3. ASSUME raced' = {}, NEW u \in Users, u \in ipc'
          PROVE  Kept(u)'
      <3>1. u \in ipc /\ u # acc[k].rpid
        BY <1>6, <2>3
      <3>2. Kept(u)
        BY <1>1, <2>3, <3>1 DEF CleanInv
      <3>3. pc[u] = "rpid_store" => pc'[u] = "rpid_store"
        BY <1>5 DEF Held
      <3> QED
        BY <1>3, <3>1, <3>2, <3>3 DEF Kept
    <2>4. ASSUME NEW c \in Users, pc'[c] \in Held, c \notin raced'
          PROVE  c \in ipc' /\ \E i \in 1..Len(acc') : acc'[i] = [pid |-> c, rpid |-> c]
      <3>1. c # p /\ pc[c] \in Held /\ c # none
        BY <1>9, <2>4, Kinds
      <3>2. c \in ipc /\ \E i \in 1..Len(acc) : acc[i] = [pid |-> c, rpid |-> c]
        BY <1>1, <2>4, <3>1 DEF CleanInv, OwnReplyQueue, Held, Users
      <3>3. PICK i \in 1..Len(acc) : acc[i] = [pid |-> c, rpid |-> c]
        BY <3>2
      <3>4. acc[i].pid = c /\ acc[i].rpid = c
        BY <3>3
      <3>5. i # k
        BY <3>1, <3>4
      <3>6. acc[k].rpid # c
        BY <1>1, <3>1, <3>4, <3>5 DEF AccInv
      <3> QED
        BY <1>3, <1>6, <3>2, <3>3, <3>5, <3>6
    <2>5. OwnReplyQueue'
      BY <2>4 DEF OwnReplyQueue, Held, Users
    <2>6. \A u \in Users : pc'[u] = "rpid_store" => u \in ipc'
      <3> SUFFICES ASSUME NEW u \in Users, pc'[u] = "rpid_store"
                   PROVE  u \in ipc'
        OBVIOUS
      <3>1. pc[u] = "rpid_store" /\ u \in ipc /\ u # none
        BY <1>1, <1>9, Kinds DEF CleanInv, Joining
      <3>2. acc[k].rpid # u
        BY <1>1, <3>1 DEF AccInv, Joining
      <3> QED
        BY <1>6, <3>1, <3>2
    <2>7. pc'[adm] = "rmid" =>
            \A i \in 1..Len(acc') : acc'[i].rpid # none => acc'[i].rpid \in found' \cup missed'
      <3>1. pc'[adm] = "rmid" => pc[adm] = "rmid"
        BY <1>5, Kinds
      <3> QED
        BY <1>1, <1>11, <3>1 DEF CleanInv
    <2> QED
      BY <2>1, <2>2, <2>3, <2>5, <2>6, <2>7 DEF CleanInv
  <1> QED
    BY <1>7, <1>12, <1>13 DEF DomainInv

LEMMA LeaveSteps ==
  ASSUME DomainInv, (\E c \in Clients : tpterm(c)) \/ stopped
  PROVE  DomainInv'
  <1>1. Types /\ Places /\ AccInv
    BY DEF DomainInv
  <1>2. ASSUME NEW c \in Clients, tpterm(c)
        PROVE  DomainInv'
    <2>1. c \in Users /\ c \in Procs /\ c # adm
      BY Kinds DEF Users
    <2>2. /\ pc[c] = "in" /\ Deleted(at[c]) /\ Invalidated(at[c]) /\ Die(c) /\ UNCHANGED at
          /\ UNCHANGED <<table, msqid, ads, rq, wd, raced, missed, found>>
      BY <1>2 DEF tpterm, command, history
    <2>3. Moves(c, "dead", at[c])
      BY <1>1, <2>1, <2>2, Dies
    <2>4. at[c] \in 1..Len(acc) /\ acc[at[c]].pid = c /\ pc[c] \in Held
      BY <1>1, <2>1, <2>2 DEF Places, AccInv, Held
    <2> QED
      BY <2>1, <2>2, <2>3, <2>4, Releases
  <1>3. CASE stopped
    <2> DEFINE i == CHOOSE j \in 1..Len(acc) : acc[j].pid = adm
    <2>1. adm \in Users /\ adm \in Procs
      BY Kinds
    <2>2. /\ pc[adm] = "shutdown" /\ Deleted(i) /\ Invalidated(i) /\ Go(adm, "remove")
          /\ UNCHANGED at /\ UNCHANGED <<table, msqid, ads, rq, wd, raced, missed, found>>
      BY <1>3 DEF stopped, command, history
    <2>3. Moves(adm, "remove", at[adm])
      BY <1>1, <2>1, <2>2, Stays
    <2>4. \E j \in 1..Len(acc) : acc[j].pid = adm
      BY <1>1, <2>2 DEF AccInv
    <2>5. i \in 1..Len(acc) /\ acc[i].pid = adm
      BY <2>4
    <2>6. pc[adm] \in Held
      BY <2>2 DEF Held
    <2> HIDE DEF i
    <2> QED
      BY <2>1, <2>2, <2>3, <2>5, <2>6, Releases
  <1> QED
    BY <1>2, <1>3

\* A client or tmshutdown gets entry k, which is new or was given up.
LEMMA Takes ==
  ASSUME DomainInv, NEW p \in Users, NEW k \in Nat, pc[p] = "tpinit", Moves(p, "rpid", k),
         acc' \in Seq(Accesser), k \in 1..Len(acc'), acc'[k].pid = p, Len(acc) <= Len(acc'),
         \A j \in 1..Len(acc') : j # k => j \in 1..Len(acc) /\ acc'[j] = acc[j],
         \/ /\ k \in 1..Len(acc) /\ acc[k].pid = none /\ acc'[k].rpid = acc[k].rpid
            /\ raced' = IF Unclean(k) THEN raced \cup {p} ELSE raced
         \/ k \notin 1..Len(acc) /\ acc'[k].rpid = none /\ raced' = raced,
         UNCHANGED <<table, msqid, ads, rq, wd, ipc, missed, found>>
  PROVE  DomainInv'
  <1>1. /\ Types /\ Places /\ AccInv /\ CleanInv /\ p \in Procs /\ p # none
        /\ table \in Seq(ServerEntry) /\ Grows(table, table)
        /\ raced \subseteq Users
        /\ Len(acc) \in Nat /\ Len(acc') \in Nat
    BY Kinds, SameGrows DEF DomainInv, Types
  <1>2. raced \subseteq raced' /\ raced' \subseteq raced \cup {p}
    OBVIOUS
  <1>3. \A q \in Procs : /\ pc'[q] = IF q = p THEN "rpid" ELSE pc[q]
                         /\ at'[q] = IF q = p THEN k ELSE at[q]
    BY <1>1, Moved
  <1>4. /\ pc'[p] = "rpid" /\ at'[p] = k
        /\ \A v \in Users : v # p => at'[v] = at[v] /\ pc'[v] = pc[v]
    BY <1>1, <1>3, Kinds
  <1>5. Types' /\ Places' /\ BootInv' /\ InstInv' /\ QueueInv'
    <2>1. "rpid" \in (IF p = adm THEN AdmAt ELSE ClientAt) \ {"wait", "rmid"}
      BY DEF AdmAt, ClientAt, Joining
    <2>2. NoneStarts \/ p # adm
      BY NotWaiting
    <2>3. raced' \subseteq Users
      BY <1>1, <1>2
    <2>4. UserStep(p, "rpid", k)
      BY <1>1, <2>1, <2>2, <2>3 DEF UserStep
    <2> QED
      BY <2>4, UserKeeps
  <1>6. \A j \in 1..Len(acc) : /\ j \in 1..Len(acc') /\ acc[j].pid # p /\ acc[j].rpid # p
                               /\ acc[j].pid # none => j # k
                               /\ acc'[j].rpid = acc[j].rpid
                               /\ j # k => acc'[j] = acc[j]
    <2> SUFFICES ASSUME NEW j \in 1..Len(acc)
                 PROVE  /\ j \in 1..Len(acc') /\ acc[j].pid # p /\ acc[j].rpid # p
                        /\ acc[j].pid # none => j # k
                        /\ acc'[j].rpid = acc[j].rpid
                        /\ j # k => acc'[j] = acc[j]
      OBVIOUS
    <2>1. j \in 1..Len(acc')
      BY <1>1
    <2>2. acc[j].pid # p /\ acc[j].rpid # p
      BY <1>1 DEF AccInv, Using, Held, Joining
    <2>3. acc[j].pid # none => j # k
      OBVIOUS
    <2>4. j # k => acc'[j] = acc[j]
      BY <2>1
    <2>5. acc'[j].rpid = acc[j].rpid
      BY <2>4
    <2> QED
      BY <2>1, <2>2, <2>3, <2>4, <2>5
  <1>7. \A v \in Users : v # p /\ pc[v] \in Joining \cup {"in"} =>
          at[v] \in 1..Len(acc) /\ at[v] # k /\ acc'[at[v]] = acc[at[v]]
    BY <1>1, <1>6, Kinds, SMTT(40) DEF AccInv, Places
  <1>8. \A j \in 1..Len(acc') : acc'[j].rpid # none =>
          j \in 1..Len(acc) /\ acc'[j].rpid = acc[j].rpid
    BY <1>6
  <1>9. \A v \in Users : pc'[v] \in Held => v # p /\ pc[v] = pc'[v]
    BY <1>4 DEF Held
  <1>10. AccInv'
    <2>1. \A u \in Users : pc'[u] \in Joining \cup {"in"} => acc'[at'[u]].pid = u
      BY <1>1, <1>4, <1>7 DEF AccInv
    <2>2. pc'[adm] \in {"shutdown", "reply"} => \E i \in 1..Len(acc') : acc'[i].pid = adm
      <3> SUFFICES ASSUME pc'[adm] \in {"shutdown", "reply"}
                   PROVE  \E i \in 1..Len(acc') : acc'[i].pid = adm
        OBVIOUS
      <3>1. pc[adm] \in {"shutdown", "reply"}
        BY <1>9, Kinds DEF Held
      <3>2. PICK i \in 1..Len(acc) : acc[i].pid = adm
        BY <1>1, <3>1 DEF AccInv
      <3> QED
        BY <1>6, <3>2, Kinds
    <2>3. ASSUME NEW i \in 1..Len(acc'), acc'[i].pid # none
          PROVE  pc'[acc'[i].pid] \in Using
      <3>1. CASE i = k
        BY <1>4, <3>1 DEF Using, Joining
      <3>2. CASE i # k
        <4>1. i \in 1..Len(acc) /\ acc'[i] = acc[i]
          BY <3>2
        <4>2. acc[i].pid \in Users /\ acc[i].pid # p
          BY <1>1, <1>6, <2>3, <4>1, EntryTypes
        <4>3. pc[acc[i].pid] \in Using
          BY <1>1, <2>3, <4>1 DEF AccInv
        <4>4. pc'[acc[i].pid] = pc[acc[i].pid]
          BY <1>4, <4>2
        <4> QED
          BY <4>1, <4>3, <4>4
      <3> QED
        BY <3>1, <3>2
    <2>4. \A i \in 1..Len(acc') : acc'[i].rpid # none =>
            /\ i \in 1..Len(acc) /\ acc'[i].rpid = acc[i].rpid
            /\ acc[i].rpid \in Users /\ acc[i].rpid # p
            /\ pc'[acc'[i].rpid] = pc[acc[i].rpid]
      <3> SUFFICES ASSUME NEW i \in 1..Len(acc'), acc'[i].rpid # none
                   PROVE  /\ i \in 1..Len(acc) /\ acc'[i].rpid = acc[i].rpid
                          /\ acc[i].rpid \in Users /\ acc[i].rpid # p
                          /\ pc'[acc'[i].rpid] = pc[acc[i].rpid]
        OBVIOUS
      <3>1. i \in 1..Len(acc) /\ acc'[i].rpid = acc[i].rpid
        BY <1>8
      <3>2. acc[i].rpid \in Users /\ acc[i].rpid # p
        BY <1>1, <1>6, <3>1, EntryTypes
      <3>3. pc'[acc[i].rpid] = pc[acc[i].rpid]
        BY <1>4, <3>2
      <3> QED
        BY <3>1, <3>2, <3>3
    <2>5. \A i \in 1..Len(acc') : acc'[i].rpid # none => pc'[acc'[i].rpid] \in Using \ Joining
      BY <1>1, <2>4 DEF AccInv
    <2>6. ASSUME NEW i \in 1..Len(acc'), acc'[i].rpid # none, pc'[acc'[i].rpid] \in Held
          PROVE  acc'[i].pid = acc'[i].rpid
      <3>1. i \in 1..Len(acc) /\ acc[i].pid = acc[i].rpid /\ acc[i].pid # none
        BY <1>1, <2>4, <2>6 DEF AccInv
      <3>2. acc'[i] = acc[i]
        BY <1>6, <3>1
      <3> QED
        BY <3>1, <3>2
    <2>7. \A i, j \in 1..Len(acc') : acc'[i].pid = acc'[j].pid /\ acc'[i].pid # none => i = j
      <3>1. \A i \in 1..Len(acc') : i # k => acc'[i].pid # p
        BY <1>6
      <3> QED
        BY <1>1, <3>1 DEF AccInv
    <2>8. \A i, j \in 1..Len(acc') : acc'[i].rpid = acc'[j].rpid /\ acc'[i].rpid # none => i = j
      BY <1>1, <2>4 DEF AccInv
    <2> QED
      BY <2>1, <2>2, <2>3, <2>5, <2>6, <2>7, <2>8 DEF AccInv
  <1>11. CleanInv'
    <2>1. ASSUME wd'.at = "clean"
          PROVE  acc'[wd'.i].pid \in {none} \cup raced'
      <3>1. wd' = wd /\ wd.i \in 1..Len(acc) /\ acc[wd.i].pid \in {none} \cup raced
        BY <1>1, <2>1 DEF Places, CleanInv
      <3>2. CASE wd.i # k
        BY <1>2, <1>6, <3>1, <3>2
      <3>3. CASE wd.i = k
        <4>1. wd = [at |-> "clean", i |-> k]
          BY <1>1, <2>1, <3>1, <3>3 DEF Types
        <4>2. Unclean(k)
          BY <4>1 DEF Unclean
        <4>3. p \in raced'
          BY <3>1, <3>3, <4>2
        <4> QED
          BY <3>1, <3>3, <4>3
      <3> QED
        BY <3>2, <3>3
    <2>2. ASSUME raced' = {}
          PROVE  raced = {} /\ acc'[k].rpid = none
      <3>1. raced = {}
        BY <1>2, <2>2
      <3>2. p \notin raced'
        BY <2>2
      <3> QED
        BY <3>1, <3>2 DEF Unclean
    <2>3. raced' = {} => \A u \in Users : pc'[u] \in Joining => acc'[at'[u]].rpid = none
      BY <1>1, <1>4, <1>7, <2>2 DEF CleanInv
    <2>4. ASSUME raced' = {}, NEW u \in Users, u \in ipc'
          PROVE  Kept(u)'
      <3>1. Kept(u)
        BY <2>2, <2>4, <1>1 DEF CleanInv
      <3>2. pc[u] = "rpid_store" => pc'[u] = "rpid_store"
        BY <1>4
      <3>3. (\E i \in 1..Len(acc) : acc[i].rpid = u) => \E i \in 1..Len(acc') : acc'[i].rpid = u
        BY <1>6
      <3> QED
        BY <3>1, <3>2, <3>3 DEF Kept
    <2>5. ASSUME NEW c \in Users, pc'[c] \in Held, c \notin raced'
          PROVE  c \in ipc' /\ \E i \in 1..Len(acc') : acc'[i] = [pid |-> c, rpid |-> c]
      <3>1. pc[c] \in Held /\ c # none /\ c \notin raced
        BY <1>2, <1>9, <2>5, Kinds
      <3>2. c \in ipc /\ \E i \in 1..Len(acc) : acc[i] = [pid |-> c, rpid |-> c]
        BY <1>1, <3>1 DEF CleanInv, OwnReplyQueue, Held, Users
      <3>3. PICK i \in 1..Len(acc) : acc[i] = [pid |-> c, rpid |-> c]
        BY <3>2
      <3>4. acc[i].pid = c
        BY <3>3
      <3>5. i \in 1..Len(acc') /\ acc'[i] = acc[i]
        BY <1>6, <3>1, <3>4
      <3> QED
        BY <3>2, <3>3, <3>5
    <2>6. OwnReplyQueue'
      BY <2>5 DEF OwnReplyQueue, Held, Users
    <2>7. \A u \in Users : pc'[u] = "rpid_store" => u \in ipc'
      BY <1>1, <1>4 DEF CleanInv
    <2>8. pc'[adm] = "rmid" =>
            \A i \in 1..Len(acc') : acc'[i].rpid # none => acc'[i].rpid \in found' \cup missed'
      <3>1. pc'[adm] = "rmid" => pc[adm] = "rmid"
        BY <1>4, Kinds
      <3> QED
        BY <1>1, <1>8, <3>1 DEF CleanInv
    <2> QED
      BY <2>1, <2>3, <2>4, <2>6, <2>7, <2>8 DEF CleanInv
  <1> QED
    BY <1>5, <1>10, <1>11 DEF DomainInv

LEMMA JoinSteps ==
  ASSUME DomainInv, NEW p \in Users, make_accesser(p)
  PROVE  DomainInv'
  <1>1. /\ Types /\ p \in Procs /\ acc \in Seq(Accesser) /\ Len(acc) \in Nat
        /\ table \in Seq(ServerEntry) /\ Grows(table, table)
        /\ raced \subseteq Users
        /\ pc[p] = "tpinit"
        /\ UNCHANGED <<table, msqid, ads, ipc, rq, wd, missed, found>>
    BY Kinds, SameGrows DEF DomainInv, Types, make_accesser, command
  <1>2. CASE /\ FreeSlots # {}
             /\ acc' = [acc EXCEPT ![FirstFree].pid = p]
             /\ To(p, "rpid", FirstFree)
             /\ raced' = IF Unclean(FirstFree) THEN raced \cup {p} ELSE raced
    <2> DEFINE k == FirstFree
    <2>1. FreeSlots \in SUBSET Nat /\ FreeSlots # {}
      BY <1>1, <1>2 DEF FreeSlots
    <2>2. \E i \in FreeSlots : \A j \in FreeSlots : i <= j
      BY <2>1, SmallestExists
    <2>3. k \in FreeSlots
      BY <2>2 DEF FirstFree
    <2>4. k \in 1..Len(acc) /\ acc[k].pid = none
      BY <2>3 DEF FreeSlots
    <2>5. Moves(p, "rpid", k)
      BY <1>2, Goes
    <2>6. acc' = [acc EXCEPT ![k].pid = p] /\ raced' = IF Unclean(k) THEN raced \cup {p} ELSE raced
      BY <1>2
    <2> HIDE DEF k
    <2>7. OnlyEntry(k) /\ acc'[k].pid = p /\ acc'[k].rpid = acc[k].rpid
      BY <1>1, <2>4, <2>6, PidSet
    <2>8. /\ acc' \in Seq(Accesser) /\ k \in 1..Len(acc') /\ Len(acc) <= Len(acc') /\ k \in Nat
          /\ \A j \in 1..Len(acc') : j # k => j \in 1..Len(acc) /\ acc'[j] = acc[j]
      BY <2>7 DEF OnlyEntry
    <2> QED
      BY <1>1, <2>4, <2>5, <2>6, <2>7, <2>8, Takes
  <1>3. CASE /\ acc' = Append(acc, [pid |-> p, rpid |-> none])
             /\ To(p, "rpid", Len(acc) + 1)
             /\ UNCHANGED raced
    <2> DEFINE k == Len(acc) + 1
               e == [pid |-> p, rpid |-> none]
    <2>1. e \in Accesser /\ e.pid = p /\ e.rpid = none
      BY DEF Accesser
    <2>2. Moves(p, "rpid", k)
      BY <1>3, Goes
    <2>3. acc' = Append(acc, e)
      BY <1>3
    <2> HIDE DEF e
    <2>4. /\ acc' \in Seq(Accesser) /\ Len(acc') = Len(acc) + 1 /\ acc'[Len(acc) + 1] = e
          /\ \A j \in 1..Len(acc) : acc'[j] = acc[j]
      BY <1>1, <2>1, <2>3
    <2>5. /\ k \in Nat /\ k \in 1..Len(acc') /\ Len(acc) <= Len(acc') /\ k \notin 1..Len(acc)
          /\ \A j \in 1..Len(acc') : j # k => j \in 1..Len(acc) /\ acc'[j] = acc[j]
          /\ acc'[k].pid = p /\ acc'[k].rpid = none
      BY <1>1, <2>1, <2>4
    <2> HIDE DEF k
    <2> QED
      BY <1>1, <1>3, <2>2, <2>4, <2>5, Takes
  <1>4. CASE /\ acc' = IF Len(acc) > MaxAccessers THEN acc
                       ELSE Append(acc, [pid |-> none, rpid |-> none])
             /\ Die(p)
             /\ UNCHANGED <<at, raced>>
    <2> DEFINE l == IF p = adm THEN "off" ELSE "dead"
               e == [pid |-> none, rpid |-> none]
    <2>1. Moves(p, l, at[p]) /\ at[p] \in Nat
      BY <1>1, <1>4, Dies
    <2>2. /\ l \in (IF p = adm THEN AdmAt ELSE ClientAt) \ {"wait", "rmid"}
          /\ l \in {"off", "dead"} /\ (l = "dead" => p # adm)
      BY DEF AdmAt, ClientAt
    <2>3. e \in Accesser
      BY DEF Accesser
    <2>4. acc' = acc \/ acc' = Append(acc, e)
      BY <1>4
    <2> HIDE DEF l, e
    <2>5. acc' \in Seq(Accesser) /\ Len(acc) <= Len(acc')
      BY <1>1, <2>3, <2>4
    <2>6. NoneStarts \/ p # adm
      BY <1>1, NotWaiting
    <2>7. UserStep(p, l, at[p])
      BY <1>1, <1>4, <2>1, <2>2, <2>5, <2>6 DEF UserStep, Joining
    <2>8. /\ (p # adm /\ l = "dead") \/ (pc[p] \notin Using /\ l \notin Using)
          /\ l # "rpid_store" /\ pc[p] # "rpid_store"
      BY <1>1, <2>2 DEF Using, Held, Joining
    <2>9. acc' = acc \/ acc' = Append(acc, [pid |-> none, rpid |-> none])
      BY <2>4 DEF e
    <2>10. UserQuiet(p, l, at[p])
      BY <1>1, <1>4, <2>7, <2>8, <2>9 DEF UserQuiet
    <2> QED
      BY <2>10, QuietKeeps
  <1> QED
    BY <1>2, <1>3, <1>4 DEF make_accesser

\* The reply queue is created,
LEMMA QueueStep ==
  ASSUME DomainInv, NEW p \in Users, rpid(p)
  PROVE  DomainInv'
  <1>1. /\ Types /\ Places /\ p \in Procs /\ at[p] \in Nat
        /\ table \in Seq(ServerEntry) /\ Grows(table, table)
        /\ acc \in Seq(Accesser) /\ Len(acc) \in Nat /\ raced \subseteq Users
        /\ pc[p] = "rpid" /\ ipc' = ipc \cup {p} /\ Go(p, "rpid_store") /\ UNCHANGED at
        /\ UNCHANGED <<table, msqid, ads, rq, acc, wd, raced, missed, found>>
    BY Kinds, SameGrows DEF DomainInv, Types, rpid, command, history
  <1>2. Moves(p, "rpid_store", at[p])
    BY <1>1, Stays
  <1>3. at[p] \in 1..Len(acc)
    BY <1>1 DEF Places, Joining
  <1>4. "rpid_store" \in (IF p = adm THEN AdmAt ELSE ClientAt) \ {"wait", "rmid"}
    BY DEF AdmAt, ClientAt, Joining
  <1>5. NoneStarts \/ p # adm
    BY <1>1, NotWaiting
  <1>6. UserStep(p, "rpid_store", at[p])
    BY <1>1, <1>2, <1>3, <1>4, <1>5 DEF UserStep
  <1>7. UserQuiet(p, "rpid_store", at[p])
    BY <1>1, <1>6 DEF UserQuiet, Joining
  <1> QED
    BY <1>7, QuietKeeps

\* and recorded in the entry that is the client's.
LEMMA StoreStep ==
  ASSUME DomainInv, NEW p \in Users, rpid_store(p)
  PROVE  DomainInv'
  <1> DEFINE k == at[p]
             l == IF p = adm THEN "shutdown" ELSE "in"
             m == IF p = adm THEN Len(table) ELSE at[p]
  <1>1. /\ Types /\ Places /\ AccInv /\ CleanInv /\ p \in Procs /\ p # none
        /\ table \in Seq(ServerEntry) /\ Grows(table, table) /\ Len(table) \in Nat
        /\ raced \subseteq Users
        /\ pc[p] = "rpid_store" /\ p \in ipc /\ missed \subseteq missed'
        /\ (pc[adm] = "rmid" => p \in missed')
        /\ UNCHANGED <<table, msqid, ads, rq, ipc, wd, raced, found>>
    BY Kinds, SameGrows DEF DomainInv, Types, CleanInv, rpid_store, command
  <1>2. k \in 1..Len(acc) /\ acc[k].pid = p /\ k \in Nat
    BY <1>1 DEF Places, AccInv, Joining
  <1>3. acc' = [acc EXCEPT ![k].rpid = p]
    BY DEF rpid_store
  <1>4. Moves(p, l, m) /\ m \in Nat
    BY <1>1, <1>2, Goes DEF rpid_store
  <1>5. /\ l \in (IF p = adm THEN AdmAt ELSE ClientAt) \ {"wait", "rmid"}
        /\ l = "shutdown" => p = adm /\ m = Len(table)
        /\ l = "in" => p # adm /\ m = k
        /\ l \in {"in", "shutdown"}
    BY DEF AdmAt, ClientAt
  <1> HIDE DEF k, l, m
  <1>6. OnlyEntry(k) /\ acc'[k].rpid = p /\ acc'[k].pid = p
    BY <1>1, <1>2, <1>3, RpidSet
  <1>7. /\ acc' \in Seq(Accesser) /\ Len(acc') = Len(acc) /\ Len(acc) \in Nat
        /\ \A j \in 1..Len(acc) : j # k => acc'[j] = acc[j]
        /\ \A j \in 1..Len(acc) : acc'[j].pid = acc[j].pid
    BY <1>2, <1>6 DEF OnlyEntry
  <1>8. \A q \in Procs : /\ pc'[q] = IF q = p THEN l ELSE pc[q]
                         /\ at'[q] = IF q = p THEN m ELSE at[q]
    BY <1>1, <1>4, Moved
  <1>9. /\ pc'[p] = l /\ at'[p] = m
        /\ \A v \in Users : v # p => at'[v] = at[v] /\ pc'[v] = pc[v]
    BY <1>1, <1>8, Kinds
  <1>10. Types' /\ Places' /\ BootInv' /\ InstInv' /\ QueueInv'
    <2>1. NoneStarts \/ p # adm
      BY <1>1, NotWaiting
    <2>2. /\ l \in {"shutdown", "reply"} => m \in 0..Len(table)
          /\ l \in Joining \cup {"in"} => m \in 1..Len(acc')
          /\ l \notin {"ubb2mib", "make_server", "boot", "reply"}
      BY <1>1, <1>2, <1>5, <1>7 DEF Joining
    <2>3. UserStep(p, l, m)
      BY <1>1, <1>4, <1>5, <1>7, <2>1, <2>2 DEF UserStep
    <2> QED
      BY <2>3, UserKeeps
  <1>11. \A j \in 1..Len(acc) : acc[j].rpid # p /\ (acc[j].pid = p => j = k)
    BY <1>1, <1>2 DEF AccInv, Joining
  <1>12. \A v \in Users : v # p /\ pc[v] \in Joining \cup {"in"} =>
           at[v] \in 1..Len(acc) /\ at[v] # k /\ acc'[at[v]] = acc[at[v]]
    BY <1>1, <1>2, <1>7 DEF AccInv, Places
  <1>13. l \in Held /\ l \in Using \ Joining
    BY <1>5 DEF Held, Using, Joining
  <1>14. AccInv'
    <2>1. \A u \in Users : pc'[u] \in Joining \cup {"in"} => acc'[at'[u]].pid = u
      BY <1>1, <1>5, <1>6, <1>9, <1>12 DEF AccInv, Joining
    <2>2. pc'[adm] \in {"shutdown", "reply"} => \E i \in 1..Len(acc') : acc'[i].pid = adm
      <3>1. CASE p = adm
        BY <1>2, <1>6, <1>7, <3>1
      <3>2. CASE p # adm
        <4>1. pc'[adm] = pc[adm]
          BY <1>9, <3>2, Kinds
        <4> QED
          BY <1>1, <1>7, <4>1 DEF AccInv
      <3> QED
        BY <3>1, <3>2
    <2>3. ASSUME NEW i \in 1..Len(acc'), acc'[i].pid # none
          PROVE  pc'[acc'[i].pid] \in Using
      <3>1. i \in 1..Len(acc) /\ acc'[i].pid = acc[i].pid
        BY <1>7
      <3>2. pc[acc[i].pid] \in Using /\ acc[i].pid \in Users
        BY <1>1, <2>3, <3>1, EntryTypes DEF AccInv
      <3>3. pc'[acc[i].pid] \in Using
        BY <1>9, <1>13, <3>2
      <3> QED
        BY <3>1, <3>3
    <2>4. ASSUME NEW i \in 1..Len(acc'), acc'[i].rpid # none, i # k
          PROVE  /\ i \in 1..Len(acc) /\ acc'[i] = acc[i] /\ acc[i].rpid # p
                 /\ acc[i].rpid \in Users /\ pc'[acc[i].rpid] = pc[acc[i].rpid]
      <3>1. i \in 1..Len(acc) /\ acc'[i] = acc[i] /\ acc[i].rpid # p
        BY <1>7, <1>11, <2>4
      <3>2. acc[i].rpid \in Users
        BY <1>1, <2>4, <3>1, EntryTypes
      <3>3. pc'[acc[i].rpid] = pc[acc[i].rpid]
        BY <1>9, <3>1, <3>2
      <3> QED
        BY <3>1, <3>2, <3>3
    <2>5. ASSUME NEW i \in 1..Len(acc'), acc'[i].rpid # none
          PROVE  pc'[acc'[i].rpid] \in Using \ Joining
      <3>1. CASE i = k
        BY <1>6, <1>9, <1>13, <3>1
      <3>2. CASE i # k
        BY <1>1, <2>4, <2>5, <3>2 DEF AccInv
      <3> QED
        BY <3>1, <3>2
    <2>6. ASSUME NEW i \in 1..Len(acc'), acc'[i].rpid # none, pc'[acc'[i].rpid] \in Held
          PROVE  acc'[i].pid = acc'[i].rpid
      <3>1. CASE i = k
        BY <1>6, <3>1
      <3>2. CASE i # k
        BY <1>1, <2>4, <2>6, <3>2 DEF AccInv
      <3> QED
        BY <3>1, <3>2
    <2>7. \A i, j \in 1..Len(acc') : acc'[i].pid = acc'[j].pid /\ acc'[i].pid # none => i = j
      BY <1>1, <1>7 DEF AccInv
    <2>8. \A i, j \in 1..Len(acc') : acc'[i].rpid = acc'[j].rpid /\ acc'[i].rpid # none => i = j
      <3>1. \A i \in 1..Len(acc') : i # k => acc'[i] = acc[i] /\ acc[i].rpid # p
        BY <1>7, <1>11
      <3> QED
        BY <1>1, <1>6, <1>7, <3>1 DEF AccInv
    <2> QED
      BY <2>1, <2>2, <2>3, <2>5, <2>6, <2>7, <2>8 DEF AccInv
  <1>15. CleanInv'
    <2>1. wd'.at = "clean" => acc'[wd'.i].pid \in {none} \cup raced'
      BY <1>1, <1>7 DEF CleanInv, Places
    <2>2. raced' = {} => \A u \in Users : pc'[u] \in Joining => acc'[at'[u]].rpid = none
      BY <1>1, <1>5, <1>9, <1>12 DEF CleanInv, Joining
    <2>3. ASSUME raced' = {}, NEW u \in Users, u \in ipc'
          PROVE  Kept(u)'
      <3>1. CASE u = p
        BY <1>2, <1>6, <1>7, <3>1 DEF Kept
      <3>2. CASE u # p
        <4>1. u \in ipc /\ u # none /\ pc'[u] = pc[u]
          BY <1>1, <1>9, <2>3, <3>2, Kinds
        <4>2. Kept(u)
          BY <1>1, <2>3, <4>1 DEF CleanInv
        <4>3. acc[k].rpid = none
          BY <1>1, <2>3 DEF CleanInv, k, Joining
        <4>4. ASSUME NEW i \in 1..Len(acc), acc[i].rpid = u
              PROVE  i \in 1..Len(acc') /\ acc'[i].rpid = u
          BY <1>7, <4>1, <4>3, <4>4
        <4> QED
          BY <1>1, <4>1, <4>2, <4>4 DEF Kept
      <3> QED
        BY <3>1, <3>2
    <2>4. ASSUME NEW c \in Users, pc'[c] \in Held, c \notin raced'
          PROVE  c \in ipc' /\ \E i \in 1..Len(acc') : acc'[i] = [pid |-> c, rpid |-> c]
      <3>1. CASE c = p
        <4>1. acc'[k] \in Accesser
          BY <1>2, <1>7
        <4>2. acc'[k] = [pid |-> p, rpid |-> p]
          BY <1>6, <4>1 DEF Accesser
        <4> QED
          BY <1>1, <1>2, <1>7, <3>1, <4>2
      <3>2. CASE c # p
        <4>1. pc[c] \in Held /\ c # none /\ c \notin raced
          BY <1>1, <1>9, <2>4, <3>2, Kinds
        <4>2. c \in ipc /\ \E i \in 1..Len(acc) : acc[i] = [pid |-> c, rpid |-> c]
          BY <1>1, <4>1 DEF CleanInv, OwnReplyQueue, Held, Users
        <4>3. PICK i \in 1..Len(acc) : acc[i] = [pid |-> c, rpid |-> c]
          BY <4>2
        <4>4. acc[i].pid = c
          BY <4>3
        <4>5. i \in 1..Len(acc') /\ acc'[i] = acc[i]
          BY <1>2, <1>7, <3>2, <4>4
        <4> QED
          BY <1>1, <4>2, <4>3, <4>5
      <3> QED
        BY <3>1, <3>2
    <2>5. OwnReplyQueue'
      BY <2>4 DEF OwnReplyQueue, Held, Users
    <2>6. \A u \in Users : pc'[u] = "rpid_store" => u \in ipc'
      BY <1>1, <1>5, <1>9 DEF CleanInv
    <2>7. pc'[adm] = "rmid" =>
            \A i \in 1..Len(acc') : acc'[i].rpid # none => acc'[i].rpid \in found' \cup missed'
      <3> SUFFICES ASSUME pc'[adm] = "rmid", NEW i \in 1..Len(acc'), acc'[i].rpid # none
                   PROVE  acc'[i].rpid \in found' \cup missed'
        OBVIOUS
      <3>1. pc[adm] = "rmid"
        BY <1>5, <1>9, Kinds
      <3>2. CASE i = k
        BY <1>1, <1>6, <3>1, <3>2
      <3>3. CASE i # k
        BY <1>1, <1>7, <3>1, <3>3 DEF CleanInv
      <3> QED
        BY <3>2, <3>3
    <2> QED
      BY <2>1, <2>2, <2>3, <2>5, <2>6, <2>7 DEF CleanInv
  <1> QED
    BY <1>10, <1>14, <1>15 DEF DomainInv

\* The watchdog gives up the entry of a client that is dead, and later deletes
\* the queue that is in it.
LEMMA WatchClients ==
  ASSUME DomainInv, (\E i \in 1..Len(acc) : monitor_clients(i)) \/ clean_client
  PROVE  DomainInv'
  <1>1. /\ Types /\ Places /\ AccInv /\ CleanInv
        /\ table \in Seq(ServerEntry) /\ Grows(table, table) /\ Len(table) \in Nat
    BY SameGrows DEF DomainInv, Types
  <1>2. UNCHANGED <<table, msqid, ads, pc, at, rq, raced, missed, found>>
    BY DEF monitor_clients, clean_client, command, history
  <1>3. ASSUME NEW k \in 1..Len(acc), monitor_clients(k)
        PROVE  DomainInv'
    <2>1. /\ acc[k].pid # none /\ ~alive(acc[k].pid) /\ ipc' = ipc
          /\ acc' = [acc EXCEPT ![k].pid = none]
          /\ wd' = [at |-> "clean", i |-> k]
      BY <1>3 DEF monitor_clients
    <2>2. OnlyEntry(k) /\ acc'[k].pid = none /\ acc'[k].rpid = acc[k].rpid
      BY <1>1, <2>1, PidSet
    <2>3. /\ acc' \in Seq(Accesser) /\ Len(acc') = Len(acc) /\ Len(acc) \in Nat
          /\ \A j \in 1..Len(acc) : j # k => acc'[j] = acc[j]
          /\ \A j \in 1..Len(acc) : acc'[j].rpid = acc[j].rpid
      BY <2>2 DEF OnlyEntry
    <2>4. wd'.at = "clean" /\ wd'.i = k /\ wd' \in [at : {"scan", "server", "clean"}, i : Nat]
      BY <2>1, <2>3
    <2>5. Types' /\ Places' /\ BootInv' /\ InstInv' /\ QueueInv'
      <3>1. WatchStep
        BY <1>1, <1>2, <2>1, <2>3, <2>4 DEF WatchStep
      <3> QED
        BY <3>1, WatchKeeps
    <2>6. pc[acc[k].pid] \in {"off", "dead"}
      BY <2>1 DEF alive
    <2>7. \A j \in 1..Len(acc) : /\ pc[acc[j].pid] \in Held \cup Joining => j # k
                                 /\ j # k => acc'[j] = acc[j]
      BY <2>3, <2>6 DEF Held, Joining
    <2>8. \A j \in 1..Len(acc') : acc'[j].pid # none => j \in 1..Len(acc) /\ acc'[j] = acc[j]
      BY <2>2, <2>3
    <2>9. AccInv'
      <3>1. \A u \in Users : pc'[u] \in Joining \cup {"in"} => acc'[at'[u]].pid = u
        BY <1>1, <1>2, <2>7 DEF AccInv, Places, Held
      <3>2. pc'[adm] \in {"shutdown", "reply"} => \E i \in 1..Len(acc') : acc'[i].pid = adm
        BY <1>1, <1>2, <2>3, <2>7 DEF AccInv, Held
      <3>3. \A i \in 1..Len(acc') : acc'[i].pid # none => pc'[acc'[i].pid] \in Using
        BY <1>1, <1>2, <2>8 DEF AccInv
      <3>4. \A i \in 1..Len(acc') : acc'[i].rpid # none => pc'[acc'[i].rpid] \in Using \ Joining
        BY <1>1, <1>2, <2>3 DEF AccInv
      <3>5. ASSUME NEW i \in 1..Len(acc'), acc'[i].rpid # none, pc'[acc'[i].rpid] \in Held
            PROVE  acc'[i].pid = acc'[i].rpid
        <4>1. i \in 1..Len(acc) /\ acc'[i].rpid = acc[i].rpid
          BY <2>3
        <4>2. acc[i].pid = acc[i].rpid
          BY <1>1, <1>2, <3>5, <4>1 DEF AccInv
        <4>3. i # k
          BY <1>2, <2>7, <3>5, <4>1, <4>2
        <4> QED
          BY <2>7, <4>1, <4>2, <4>3
      <3>6. \A i, j \in 1..Len(acc') : acc'[i].pid = acc'[j].pid /\ acc'[i].pid # none => i = j
        BY <1>1, <2>8 DEF AccInv
      <3>7. \A i, j \in 1..Len(acc') : acc'[i].rpid = acc'[j].rpid /\ acc'[i].rpid # none => i = j
        BY <1>1, <2>3 DEF AccInv
      <3> QED
        BY <3>1, <3>2, <3>3, <3>4, <3>5, <3>6, <3>7 DEF AccInv
    <2>10. CleanInv'
      <3>1. wd'.at = "clean" => acc'[wd'.i].pid \in {none} \cup raced'
        BY <2>2, <2>4
      <3>2. raced' = {} => \A u \in Users : pc'[u] \in Joining => acc'[at'[u]].rpid = none
        BY <1>1, <1>2, <2>3 DEF CleanInv, Places
      <3>3. raced' = {} => \A u \in Users : u \in ipc' => Kept(u)'
        BY <1>1, <1>2, <2>1, <2>3 DEF CleanInv, Kept
      <3>4. ASSUME NEW c \in Users, pc'[c] \in Held, c \notin raced'
            PROVE  c \in ipc' /\ \E i \in 1..Len(acc') : acc'[i] = [pid |-> c, rpid |-> c]
        <4>1. c \in ipc /\ \E i \in 1..Len(acc) : acc[i] = [pid |-> c, rpid |-> c]
          BY <1>1, <1>2, <3>4 DEF CleanInv, OwnReplyQueue, Held, Users
        <4>2. PICK i \in 1..Len(acc) : acc[i] = [pid |-> c, rpid |-> c]
          BY <4>1
        <4>3. acc[i].pid = c
          BY <4>2
        <4>4. i # k
          BY <1>2, <2>7, <3>4, <4>3
        <4> QED
          BY <2>1, <2>3, <4>1, <4>2, <4>4
      <3>5. OwnReplyQueue'
        BY <3>4 DEF OwnReplyQueue, Held, Users
      <3>6. \A u \in Users : pc'[u] = "rpid_store" => u \in ipc'
        BY <1>1, <1>2, <2>1 DEF CleanInv
      <3>7. pc'[adm] = "rmid" =>
              \A i \in 1..Len(acc') : acc'[i].rpid # none => acc'[i].rpid \in found' \cup missed'
        BY <1>1, <1>2, <2>3 DEF CleanInv
      <3> QED
        BY <3>1, <3>2, <3>3, <3>5, <3>6, <3>7 DEF CleanInv
    <2> QED
      BY <2>5, <2>9, <2>10 DEF DomainInv
  <1>4. CASE clean_client
    <2> DEFINE k == wd.i
    <2>1. /\ k \in 1..Len(acc) /\ acc[k].pid \in {none} \cup raced
          /\ ipc' = ipc \ {acc[k].rpid} /\ wd' = Rest
          /\ acc' = [acc EXCEPT ![k].rpid = none]
      BY <1>1, <1>4 DEF clean_client, Places, CleanInv, Deleted
    <2> HIDE DEF k
    <2>2. OnlyEntry(k) /\ acc'[k].rpid = none /\ acc'[k].pid = acc[k].pid
      BY <1>1, <2>1, RpidSet
    <2>3. /\ acc' \in Seq(Accesser) /\ Len(acc') = Len(acc) /\ Len(acc) \in Nat
          /\ \A j \in 1..Len(acc) : j # k => acc'[j] = acc[j]
          /\ \A j \in 1..Len(acc) : acc'[j].pid = acc[j].pid
      BY <2>2 DEF OnlyEntry
    <2>4. wd'.at = "scan" /\ wd' \in [at : {"scan", "server", "clean"}, i : Nat]
      BY <2>1 DEF Rest
    <2>5. Types' /\ Places' /\ BootInv' /\ InstInv' /\ QueueInv'
      <3>1. WatchStep
        BY <1>1, <1>2, <2>1, <2>3, <2>4 DEF WatchStep
      <3> QED
        BY <3>1, WatchKeeps
    <2>6. \A j \in 1..Len(acc') : acc'[j].rpid # none =>
            j \in 1..Len(acc) /\ acc'[j] = acc[j]
      BY <2>2, <2>3
    <2>7. AccInv'
      <3>1. \A u \in Users : pc'[u] \in Joining \cup {"in"} => acc'[at'[u]].pid = u
        BY <1>1, <1>2, <2>3 DEF AccInv, Places
      <3>2. pc'[adm] \in {"shutdown", "reply"} => \E i \in 1..Len(acc') : acc'[i].pid = adm
        BY <1>1, <1>2, <2>3 DEF AccInv
      <3>3. \A i \in 1..Len(acc') : acc'[i].pid # none => pc'[acc'[i].pid] \in Using
        BY <1>1, <1>2, <2>3 DEF AccInv
      <3>4. \A i \in 1..Len(acc') : acc'[i].rpid # none => pc'[acc'[i].rpid] \in Using \ Joining
        BY <1>1, <1>2, <2>6 DEF AccInv
      <3>5. \A i \in 1..Len(acc') :
              acc'[i].rpid # none /\ pc'[acc'[i].rpid] \in Held => acc'[i].pid = acc'[i].rpid
        BY <1>1, <1>2, <2>6 DEF AccInv
      <3>6. \A i, j \in 1..Len(acc') : acc'[i].pid = acc'[j].pid /\ acc'[i].pid # none => i = j
        BY <1>1, <2>3 DEF AccInv
      <3>7. \A i, j \in 1..Len(acc') : acc'[i].rpid = acc'[j].rpid /\ acc'[i].rpid # none => i = j
        BY <1>1, <2>6 DEF AccInv
      <3> QED
        BY <3>1, <3>2, <3>3, <3>4, <3>5, <3>6, <3>7 DEF AccInv
    <2>8. CleanInv'
      <3>1. wd'.at # "clean"
        BY <2>4
      <3>2. raced' = {} => \A u \in Users : pc'[u] \in Joining => acc'[at'[u]].rpid = none
        BY <1>1, <1>2, <2>2, <2>3 DEF CleanInv, Places
      <3>3. ASSUME raced' = {}, NEW u \in Users, u \in ipc'
            PROVE  Kept(u)'
        <4>1. u \in ipc /\ u # acc[k].rpid /\ raced = {}
          BY <1>2, <2>1, <3>3
        <4>2. Kept(u)
          BY <1>1, <4>1 DEF CleanInv
        <4>3. (\E i \in 1..Len(acc) : acc[i].rpid = u) => \E i \in 1..Len(acc') : acc'[i].rpid = u
          BY <2>3, <4>1
        <4> QED
          BY <1>2, <4>2, <4>3 DEF Kept
      <3>4. ASSUME NEW c \in Users, pc'[c] \in Held, c \notin raced'
            PROVE  c \in ipc' /\ \E i \in 1..Len(acc') : acc'[i] = [pid |-> c, rpid |-> c]
        <4>1. c \in ipc /\ \E i \in 1..Len(acc) : acc[i] = [pid |-> c, rpid |-> c]
          BY <1>1, <1>2, <3>4 DEF CleanInv, OwnReplyQueue, Held, Users
        <4>2. PICK i \in 1..Len(acc) : acc[i] = [pid |-> c, rpid |-> c]
          BY <4>1
        <4>3. acc[i].pid = c /\ acc[i].rpid = c /\ c # none /\ c \notin raced
          BY <1>2, <3>4, <4>2, Kinds
        <4>4. i # k
          BY <2>1, <4>3
        <4>5. acc[k].rpid # c
          BY <1>1, <2>1, <4>3, <4>4 DEF AccInv
        <4> QED
          BY <2>1, <2>3, <4>1, <4>2, <4>4, <4>5
      <3>5. OwnReplyQueue'
        BY <3>4 DEF OwnReplyQueue, Held, Users
      <3>6. ASSUME NEW u \in Users, pc'[u] = "rpid_store"
            PROVE  u \in ipc'
        <4>1. pc[u] = "rpid_store" /\ u \in ipc /\ u # none
          BY <1>1, <1>2, <3>6, Kinds DEF CleanInv
        <4>2. acc[k].rpid # u
          BY <1>1, <2>1, <4>1 DEF AccInv, Joining
        <4> QED
          BY <2>1, <4>1, <4>2
      <3>7. pc'[adm] = "rmid" =>
              \A i \in 1..Len(acc') : acc'[i].rpid # none => acc'[i].rpid \in found' \cup missed'
        BY <1>1, <1>2, <2>6 DEF CleanInv
      <3> QED
        BY <3>1, <3>2, <3>3, <3>5, <3>6, <3>7 DEF CleanInv
    <2> QED
      BY <2>5, <2>7, <2>8 DEF DomainInv
  <1> QED
    BY <1>3, <1>4

\* A message to who waits too long changes nothing here, but for the end of the
\* BBL where there is no queue.
LEMMA WatchTimes ==
  ASSUME DomainInv, NEW i \in 1..Len(acc), handle_blocktime(i)
  PROVE  DomainInv'
  <1>1. CASE acc[i].rpid \in ipc
    <2>1. UNCHANGED kept
      BY <1>1 DEF handle_blocktime, kept, command, history
    <2> QED
      BY <2>1, WatchServers
  <1>2. CASE acc[i].rpid \notin ipc
    <2>1. PICK p \in BBL : (pc[p] = "advertise" \/ Serving(p)) /\ Die(p)
      BY <1>2 DEF handle_blocktime
    <2>2. p \in Inst /\ Fails(p)
      BY <2>1 DEF Fails, BBL
    <2> QED
      BY <2>2, InstKeeps
  <1> QED
    BY <1>1, <1>2

-----------------------------------------------------------------------------
(* The domain *)

LEMMA InitDomain ==
  ASSUME Init
  PROVE  DomainInv
  <1>1. /\ table = <<>> /\ ads = {} /\ acc = <<>> /\ ipc = {} /\ raced = {} /\ missed = {}
        /\ wd = Rest /\ found = {} /\ \A p \in Procs : pc[p] = "off"
    BY DEF Init
  <1>2. Types
    <2>1. pc \in [Procs -> ClientAt \cup InstAt \cup AdmAt] /\ at \in [Procs -> Nat]
      BY DEF Init, AdmAt
    <2>2. msqid \in [Addresses -> Inst \cup {none}] /\ rq \in [Inst -> Inst \cup {none}]
      BY DEF Init
    <2>3. /\ \A c \in Clients : pc[c] \in ClientAt
          /\ \A p \in Inst : pc[p] \in InstAt
          /\ pc[adm] \in AdmAt
      BY <1>1, Kinds DEF ClientAt, InstAt, AdmAt
    <2>4. wd \in [at : {"scan", "server", "clean"}, i : Nat]
      BY <1>1 DEF Rest
    <2>5. table \in Seq(ServerEntry) /\ acc \in Seq(Accesser)
      BY <1>1
    <2> QED
      BY <1>1, <2>1, <2>2, <2>3, <2>4, <2>5 DEF Types
  <1>3. Places
    BY <1>1, Kinds DEF Places, Up, Rest, Joining
  <1>4. BootInv
    <2>1. \A s \in Servers, k \in 1..MaxForks : pc[<<s, k>>] = "off"
      <3>1. \A s \in Servers, k \in 1..MaxForks : <<s, k>> \in Procs
        BY Kinds DEF Inst
      <3> QED
        BY <1>1, <3>1
    <2>2. \A s \in Servers : ForkedOf(s) = {}
      BY <2>1 DEF ForkedOf
    <2>3. 1..0 = {} /\ 0 \in 0..MaxForks
      BY DomainAssumption
    <2>4. \A p \in Inst : pc[p] \notin Starting
      BY <1>1, Kinds DEF Starting, Attaching, Up
    <2> QED
      BY <2>2, <2>3, <2>4 DEF BootInv
  <1>5. \A p \in Procs : pc[p] = "off" /\ ~Serving(p) /\ pc[p] \notin Bound \cup Joining \cup Held
    BY <1>1 DEF Serving, Bound, Joining, Held
  <1>6. InstInv
    BY <1>5, Kinds DEF InstInv, OneServes
  <1>7. QueueInv
    <2>1. (\A p \in Inst : rq[p] = none) /\ (\A a \in Addresses : msqid[a] = none)
      BY DEF Init
    <2> QED
      BY <1>1, <1>5, <2>1, Kinds, DomainAssumption DEF QueueInv
  <1>8. AccInv
    <2>1. 1..Len(acc) = {}
      BY <1>1
    <2> QED
      BY <1>5, <2>1, Kinds DEF AccInv, Joining
  <1>9. CleanInv
    <2>1. OwnReplyQueue
      BY <1>5, Kinds DEF OwnReplyQueue, Users, Held
    <2> QED
      BY <1>1, <1>5, <2>1, Kinds DEF CleanInv, Rest, Joining
  <1> QED
    BY <1>2, <1>3, <1>4, <1>6, <1>7, <1>8, <1>9 DEF DomainInv

\* The invariant is kept by every step.
LEMMA NextDomain ==
  ASSUME DomainInv, [Next]_dvars
  PROVE  DomainInv'
  <1>1. CASE UNCHANGED dvars
    <2>1. UNCHANGED kept
      BY <1>1 DEF dvars, kept
    <2> QED
      BY <2>1, WatchServers
  <1>2. CASE run
    BY <1>2, BootSteps
  <1>3. CASE \E c \in Clients : tpterm(c)
    BY <1>3, LeaveSteps
  <1>4. ASSUME NEW p \in Procs, Attach(p) \/ late(p) \/ leave(p) \/ kill(p)
        PROVE  DomainInv'
    <2>1. CASE p \in Inst
      <3>1. ~late(p)
        BY <2>1 DEF late, DomainInv, Types, InstAt, Attaching, Up
      <3> QED
        BY <1>4, <2>1, <3>1, InstKeeps
    <2>2. CASE p \in Users
      BY <1>4, <2>2, UserAttaches, ClientEnds
    <2> QED
      BY <2>1, <2>2, Kinds
  <1>5. ASSUME NEW p \in Clients \cup {adm}, Join(p)
        PROVE  DomainInv'
    <2>1. p \in Users
      BY DEF Users
    <2> QED
      BY <1>5, <2>1, JoinSteps, QueueStep, StoreStep DEF Join
  <1>6. ASSUME NEW p \in Inst, Server(p) \/ \E s \in stops : stop(p, s)
        PROVE  DomainInv'
    BY <1>6, InstKeeps
  <1>7. CASE Tmboot
    BY <1>7, BootSteps, ForkStep DEF Tmboot
  <1>8. CASE Tmshutdown
    BY <1>8, ShutdownSteps, LeaveSteps, Collects, Removes DEF Tmshutdown
  <1>9. CASE Watchdog
    BY <1>9, WatchServers, WatchClients, WatchTimes DEF Watchdog
  <1> QED
    BY <1>1, <1>2, <1>3, <1>4, <1>5, <1>6, <1>7, <1>8, <1>9 DEF Next

LEMMA DomainKept == Spec => []DomainInv
  <1>1. Init => DomainInv
    BY InitDomain
  <1>2. DomainInv /\ [Next]_dvars => DomainInv'
    BY NextDomain
  <1> QED
    BY <1>1, <1>2, PTL DEF Spec

\* A request meets at most one process of a server: tmboot waits for the one it
\* has forked (tmboot.cpp), one that starts while its like runs finds its service
\* advertised and ends (mib::advertise), whatever the watchdog has made of the
\* pids meanwhile, and one that was busy when the resources were removed
\* (mib::remove) runs on without the queue it received from.
THEOREM ServerReceivesOnce == Spec => []OneReceiver
  <1>1. ASSUME DomainInv
        PROVE  OneReceiver
    <2> SUFFICES ASSUME NEW p \in Inst, NEW q \in Inst, Receives(p), Receives(q), p[1] = q[1]
                 PROVE  p = q
      BY DEF OneReceiver
    <2>1. ASSUME NEW r \in Inst, pc[r] = "left"
          PROVE  rq[r] \notin ipc
      <3>1. rq[r] \in Inst \/ rq[r] = none
        BY <1>1 DEF DomainInv, Types
      <3>2. none \notin ipc
        BY <1>1, Kinds DEF DomainInv, Types
      <3> QED
        BY <1>1, <2>1, <3>1, <3>2 DEF DomainInv, QueueInv
    <2>2. Serving(p) /\ Serving(q)
      BY <2>1 DEF Receives
    <2> QED
      BY <1>1, <2>2 DEF DomainInv, InstInv, OneServes
  <1> QED
    BY <1>1, DomainKept, PTL

\* Servers that run with one address receive from one queue, the one the
\* bulletin board names, although make_service_rqaddr takes no lock.
THEOREM QueueIsShared == Spec => []OneQueue
  <1>1. DomainInv => OneQueue
    BY DEF DomainInv, QueueInv, OneQueue, Serving, Bound
  <1> QED
    BY <1>1, DomainKept, PTL

\* mib::collect finds every queue that exists, except one that its creator has
\* not entered in a table yet (mib.cpp:384, client.cpp:52) and, for ever, one
\* whose creator was killed there or overtaken by a removal; and unless a client
\* was given an entry that the watchdog had not finished with.
THEOREM QueuesRecorded == Spec => []Recorded
  <1>1. ASSUME DomainInv
        PROVE  Recorded
    <2> SUFFICES ASSUME NEW q \in ipc, ~Unnamed(q), q \notin missed, raced = {}
                 PROVE  q \in Collected
      BY DEF Recorded
    <2>1. q \in Users \/ q \in Inst
      BY <1>1, Kinds DEF DomainInv, Types
    <2>2. CASE q \in Users
      <3>1. Kept(q)
        BY <1>1, <2>2 DEF DomainInv, CleanInv
      <3>2. \E i \in 1..Len(acc) : acc[i].rpid = q
        BY <3>1 DEF Kept, Unnamed
      <3> QED
        BY <3>2 DEF Collected
    <2>3. CASE q \in Inst
      <3>1. msqid[Queue(q)] = q
        BY <1>1, <2>3 DEF DomainInv, QueueInv, Unnamed
      <3>2. Queue(q) \in DOMAIN msqid
        BY <1>1, <2>3, Kinds DEF DomainInv, Types
      <3> QED
        BY <3>1, <3>2 DEF Collected
    <2> QED
      BY <2>1, <2>2, <2>3
  <1> QED
    BY <1>1, DomainKept, PTL

\* A client that is in, or tmshutdown at work, has its queue and an entry with
\* it: the watchdog takes neither, unless the entry was one that it had given
\* up and not cleaned yet.
THEOREM ReplyQueueKept == Spec => []OwnReplyQueue
  <1>1. DomainInv => OwnReplyQueue
    BY DEF DomainInv, CleanInv
  <1> QED
    BY <1>1, DomainKept, PTL

=============================================================================
