------------------------------- MODULE Domain -------------------------------
(***************************************************************************)
(* The life of a domain: the bulletin board in shared memory is created    *)
(* and loaded by whoever comes first (mib and getmib of src/src/mib.cpp),  *)
(* tmboot forks the servers one after the other, clients come and go, the  *)
(* watchdog of the BBL cleans up after the dead, tmshutdown stops the      *)
(* servers and removes the IPC resources, and tmipcrm only removes them.   *)
(* Whoever is attached when they are removed runs on with a segment that   *)
(* nobody else will find.                                                  *)
(*                                                                         *)
(* The operator runs one command at a time and lets it end; clients start  *)
(* at any time, and clients and servers die at any time.  Server 1 is the  *)
(* BBL.  A server process is named by its server and how often that was    *)
(* forked; nobody else gets its process id.  A queue is named by the       *)
(* process that creates it, and a server advertises one service.           *)
(***************************************************************************)
EXTENDS Naturals, Sequences, FiniteSets

CONSTANTS Rqaddr,        \* server -> the address of its request queue
          Clients,       \* client processes
          MaxAccessers,  \* entries for clients in the bulletin board
          MaxForks,      \* bound: processes forked for a server
          Scenarios,     \* bounds: [run, join, kill, full], the commands the operator
                         \* runs one after the other, the clients that may start, the
                         \* processes of which one may be killed, and the queues that
                         \* may be full
          adm, none      \* the operator's command; no process or queue

VARIABLES
  mem,       \* mibmem::state, "none" when there is no segment
  table,     \* servers: [srv, pid, state], one entry for each make_server
  msqid,     \* queues: address -> message queue
  ads,       \* advertisements: entries of table whose service is there
  acc,       \* accessers: [pid, rpid], as many as were ever in use
  lock,      \* mainsem: the process inside data_lock
  ipc,       \* message queues that exist
  pc,        \* where each process is
  at,        \* its position in a table
  rq,        \* server process -> the queue it receives from
  req,       \* server process -> the .stop message it has in hand
  cmd,       \* the command that runs
  todo,      \* what is left of the scenario
  wd,        \* where the watchdog is, and the entry it looks at
  stops,     \* .stop messages in the queues: [srv, run], run the command
  answers,   \* servers whose answer is in the queue of tmshutdown
  unblock,   \* there is a message of the watchdog in that queue
  found,     \* queues that the command has listed for removal
  orphan,    \* history: the segment's creator died before it was ready
  raced,     \* history: clients whose entry the watchdog was still cleaning
  missed     \* history: queues no table named when their creator ended, or the
             \* resources were listed

board == <<mem, table, msqid, ads, acc, lock, ipc>>
mail == <<req, stops, answers, unblock>>
history == <<orphan, raced, missed>>
command == <<cmd, todo, found>>
dvars == <<mem, table, msqid, ads, acc, lock, ipc, pc, at, rq, cmd, todo, found, wd,
           req, stops, answers, unblock, orphan, raced, missed>>

Servers == DOMAIN Rqaddr
Addresses == {Rqaddr[s] : s \in Servers}
Inst == Servers \X (1..MaxForks)
Procs == {adm} \cup Clients \cup Inst
BBL == {p \in Inst : p[1] = 1}

Commands == {"tmboot", "tmshutdown", "tmipcrm"}

ASSUME DomainAssumption ==
  /\ Rqaddr \in Seq(Addresses) /\ Len(Rqaddr) > 0
  /\ MaxAccessers \in Nat /\ MaxForks \in Nat
  /\ Scenarios \subseteq [run : Seq(SUBSET Commands), join : SUBSET Clients,
                    kill : SUBSET Procs, full : SUBSET Addresses]
  /\ adm # none /\ adm \notin Clients \cup Inst /\ none \notin Clients \cup Inst
  /\ Clients \cap Inst = {}

\* alive(): kill(pid, 0).  A process that is not started has no pid yet.
alive(p) == p # none /\ pc[p] \notin {"off", "dead"}
Go(p, l) == pc' = [pc EXCEPT ![p] = l]
Die(p) == /\ pc' = [pc EXCEPT ![p] = IF p = adm THEN "off" ELSE "dead"]
          /\ lock' = IF lock = p THEN none ELSE lock     \* SEM_UNDO
To(p, l, i) == Go(p, l) /\ at' = [at EXCEPT ![p] = i]

\* A server that receives from its queue, or has a .stop message in hand.
Serving(p) == pc[p] \in {"active", "serve", "putback", "stopping"}

\* The BBL has its watchdog from tpsvrinit on; the thread ends with it.
Watched == \E p \in BBL : pc[p] = "advertise" \/ Serving(p)
Rest == [at |-> "scan", i |-> 0]
Watching == wd' = IF Watched' THEN wd ELSE Rest

Known(s, tab) == \E i \in 1..Len(tab) : tab[i].srv = s
find_server(s, tab) ==
  CHOOSE i \in 1..Len(tab) : tab[i].srv = s /\ \A j \in 1..(i - 1) : tab[j].srv # s

Init ==
  /\ mem = "none" /\ table = <<>> /\ ads = {} /\ acc = <<>> /\ lock = none
  /\ msqid = [a \in Addresses |-> none]
  /\ ipc = {}
  /\ pc = [p \in Procs |-> "off"] /\ at = [p \in Procs |-> 0]
  /\ rq = [p \in Inst |-> none] /\ req = [p \in Inst |-> none]
  /\ cmd = "tmboot" /\ found = {} /\ wd = Rest
  /\ stops = {} /\ answers = {} /\ unblock = FALSE
  /\ todo \in Scenarios
  /\ orphan = FALSE /\ raced = {} /\ missed = {}

-----------------------------------------------------------------------------
(* Every process attaches to the bulletin board first. *)

run ==
  /\ pc[adm] = "off" /\ todo.run # <<>>
  /\ cmd' \in Head(todo.run) /\ todo' = [todo EXCEPT !.run = Tail(@)]
  /\ Go(adm, "shmget")
  /\ UNCHANGED <<board, at, rq, wd, found, mail, history>>

\* mib::mib: shmget creates a segment of zeroes, and the first to change its
\* state initialises it.
shmget(p) ==
  /\ pc[p] = (IF p \in Clients THEN "off" ELSE "shmget")
  /\ p \in Clients => p \in todo.join
  /\ \/ mem = "none" /\ mem' = "init" /\ Go(p, "create")
     \/ mem # "none" /\ Go(p, "spin") /\ UNCHANGED mem
  /\ UNCHANGED <<table, msqid, ads, acc, lock, ipc, at, rq, command, wd, mail, history>>

\* What follows getmib.  A server that is not in the table ends.
Ready(p, tab) ==
  IF p \in Inst
    THEN IF Known(p[1], tab) THEN To(p, "rqaddr", find_server(p[1], tab)) ELSE To(p, "dead", 0)
  ELSE IF p = adm /\ cmd = "tmboot" THEN To(p, "boot", 1)
  ELSE To(p, "tpinit", 0)

\* The configuration is loaded by a process that finds the table empty.
getmib(p) == IF table = <<>> THEN To(p, "ubb2mib", 1) ELSE Ready(p, table)

\* What follows mib::mib in a process.
Attached(p) ==
  IF p = adm /\ cmd = "tmipcrm" THEN Go(p, "remove") /\ UNCHANGED at ELSE getmib(p)

\* Mutant: the state is not set at the end.
init_memory_unset(p) ==
  /\ pc[p] = "create"
  /\ Attached(p)
  /\ UNCHANGED <<board, rq, command, wd, mail, history>>

init_memory(p) ==
  /\ pc[p] = "create"
  /\ mem' = "ready"
  /\ Attached(p)
  /\ UNCHANGED <<table, msqid, ads, acc, lock, ipc, rq, command, wd, mail, history>>

spin(p) ==
  /\ pc[p] = "spin" /\ mem = "ready"
  /\ Attached(p)
  /\ UNCHANGED <<board, rq, command, wd, mail, history>>

\* make_server looks the server up and throws when it is there,
ubb2mib(p) ==
  /\ pc[p] = "ubb2mib"
  /\ \/ Known(at[p], table) /\ Die(p)
     \/ ~Known(at[p], table) /\ Go(p, "make_server") /\ UNCHANGED lock
  /\ UNCHANGED <<mem, table, msqid, ads, acc, ipc, at, rq, command, wd, mail, history>>

\* and appends an entry for it; nothing locks the table in between.
make_server(p) ==
  /\ pc[p] = "make_server"
  /\ table' = Append(table, [srv |-> at[p], pid |-> none, state |-> "INV"])
  /\ IF at[p] = Cardinality(Servers) THEN Ready(p, table') ELSE To(p, "ubb2mib", at[p] + 1)
  /\ UNCHANGED <<mem, msqid, ads, acc, lock, ipc, rq, command, wd, mail, history>>

-----------------------------------------------------------------------------
(* tmboot *)

Entry == table[at[adm]]
Forked == {k \in 1..MaxForks : pc[<<Entry.srv, k>>] # "off"}
Child == <<Entry.srv, Cardinality(Forked) + 1>>
NextEntry == To(adm, "boot", at[adm] + 1)

\* start(): a server that is alive is a duplicate; fork may fail.
start ==
  /\ pc[adm] = "boot" /\ at[adm] <= Len(table)
  /\ \/ alive(Entry.pid) /\ NextEntry /\ UNCHANGED table
     \/ /\ ~alive(Entry.pid) /\ Cardinality(Forked) < MaxForks
        /\ table' = [table EXCEPT ![at[adm]].state = "INA", ![at[adm]].pid = Child]
        /\ pc' = [pc EXCEPT ![adm] = "wait", ![Child] = "shmget"]
        /\ UNCHANGED at
     \/ /\ ~alive(Entry.pid) /\ Cardinality(Forked) = MaxForks
        /\ table' = [table EXCEPT ![at[adm]].state = "INA"]
        /\ NextEntry
  /\ UNCHANGED <<mem, msqid, ads, acc, lock, ipc, rq, command, wd, mail, history>>

\* The loop ends when the server is active or dead.
wait ==
  /\ pc[adm] = "wait"
  /\ LET child == <<Entry.srv, Cardinality(Forked)>>
     IN /\ Entry.state = "ACT" \/ ~alive(child)
        /\ table' = IF alive(child) THEN table ELSE [table EXCEPT ![at[adm]].pid = none]
  /\ NextEntry
  /\ UNCHANGED <<mem, msqid, ads, acc, lock, ipc, rq, command, wd, mail, history>>

booted ==
  /\ pc[adm] = "boot" /\ at[adm] > Len(table)
  /\ Die(adm)
  /\ UNCHANGED <<mem, table, msqid, ads, acc, ipc, at, rq, command, wd, mail, history>>

-----------------------------------------------------------------------------
(* A server: _tmstartserver *)

Mine(p) == at[p]               \* mib_server
Queue(p) == Rqaddr[p[1]]

\* Mutant: the first queue of the table is taken for the server's.
rqaddr_first(p) ==
  /\ pc[p] = "rqaddr"
  /\ \/ msqid[Queue(p)] = none /\ Go(p, "qcreate") /\ UNCHANGED rq
     \/ /\ msqid[Queue(p)] # none
        /\ rq' = [rq EXCEPT ![p] = msqid[Rqaddr[1]]]
        /\ Go(p, "advertise")
  /\ UNCHANGED <<board, at, command, wd, mail, history>>

\* make_service_rqaddr: the queue is tested for,
rqaddr(p) ==
  /\ pc[p] = "rqaddr"
  /\ \/ msqid[Queue(p)] = none /\ Go(p, "qcreate") /\ UNCHANGED rq
     \/ /\ msqid[Queue(p)] # none
        /\ rq' = [rq EXCEPT ![p] = msqid[Queue(p)]]
        /\ Go(p, "advertise")
  /\ UNCHANGED <<board, at, command, wd, mail, history>>

\* and created, without a lock,
qcreate(p) ==
  /\ pc[p] = "qcreate"
  /\ ipc' = ipc \cup {p}
  /\ Go(p, "msqid")
  /\ UNCHANGED <<mem, table, msqid, ads, acc, lock, at, rq, command, wd, mail, history>>

\* before it is entered in the table.
msqid_store(p) ==
  /\ pc[p] = "msqid"
  /\ msqid' = [msqid EXCEPT ![Queue(p)] = p]
  /\ rq' = [rq EXCEPT ![p] = p]
  /\ Go(p, "advertise")
  /\ UNCHANGED <<mem, table, ads, acc, lock, ipc, at, command, wd, mail, history>>

\* tpsvrinit of an application's server fails.
svrinit(p) ==
  /\ pc[p] = "advertise" /\ p \notin BBL
  /\ Die(p)
  /\ UNCHANGED <<mem, table, msqid, ads, acc, ipc, at, rq, command, wd, mail, history>>

\* Mutant: what is advertised already is taken for one's own.
advertise_again(p) ==
  /\ pc[p] = "advertise" /\ lock = none
  /\ ads' = ads \cup {Mine(p)} /\ Go(p, "active")
  /\ UNCHANGED <<mem, table, msqid, acc, lock, ipc, at, rq, command, wd, mail, history>>

\* mib::advertise under data_lock: "Already advertised" is a logic_error that
\* nothing catches.
advertise(p) ==
  /\ pc[p] = "advertise" /\ lock = none
  /\ \/ Mine(p) \notin ads /\ ads' = ads \cup {Mine(p)} /\ Go(p, "active") /\ UNCHANGED lock
     \/ Mine(p) \in ads /\ Die(p) /\ UNCHANGED ads
  /\ Watching
  /\ UNCHANGED <<mem, table, msqid, acc, ipc, at, rq, command, mail, history>>

active(p) ==
  /\ pc[p] = "active"
  /\ table' = [table EXCEPT ![Mine(p)].state = "ACT"]
  /\ Go(p, "serve")
  /\ UNCHANGED <<mem, msqid, ads, acc, lock, ipc, at, rq, command, wd, mail, history>>

\* dispatch: a .stop message is taken out of the queue,
stop(p, m) ==
  /\ pc[p] = "serve" /\ m \in stops /\ rq[p] = msqid[Rqaddr[m.srv]]
  /\ stops' = stops \ {m} /\ req' = [req EXCEPT ![p] = m]
  /\ Go(p, IF m.srv = p[1] THEN "stopping" ELSE "putback")
  /\ UNCHANGED <<board, at, rq, command, wd, answers, unblock, history>>

\* and one for another server of the queue is put back, over which the reader
\* fails then.
putback(p) ==
  /\ pc[p] = "putback"
  /\ stops' = stops \cup {req[p]} /\ req' = [req EXCEPT ![p] = none]
  /\ Die(p) /\ Watching
  /\ UNCHANGED <<mem, table, msqid, ads, acc, ipc, at, rq, command, answers, unblock, history>>

\* _tmstartserver after dispatch: the advertisement stays in place, and the
\* tmshutdown that sent the message is answered if it still has a queue.
inactive(p) ==
  /\ pc[p] = "stopping"
  /\ table' = [table EXCEPT ![Mine(p)].state = "INA"]
  /\ answers' = IF req[p].run = Len(todo.run) /\ adm \in ipc THEN answers \cup {p[1]}
                ELSE answers
  /\ req' = [req EXCEPT ![p] = none]
  /\ Die(p) /\ Watching
  /\ UNCHANGED <<mem, msqid, ads, acc, ipc, at, rq, command, stops, unblock, history>>

-----------------------------------------------------------------------------
(* Clients, and tmshutdown, which is one: class client *)

FreeSlots == {i \in 1..Len(acc) : i <= MaxAccessers /\ acc[i].pid = none}
FirstFree == CHOOSE i \in FreeSlots : \A j \in FreeSlots : i <= j

\* The watchdog gave the entry up and has not deleted its queue yet, or died.
Unclean(i) == acc[i].rpid # none \/ wd = [at |-> "clean", i |-> i]

\* make_accesser under data_lock.  The table's length grows before the bounds
\* are checked.
make_accesser(p) ==
  /\ pc[p] = "tpinit" /\ lock = none
  /\ \/ /\ FreeSlots # {}
        /\ acc' = [acc EXCEPT ![FirstFree].pid = p]
        /\ To(p, "rpid", FirstFree)
        /\ lock' = p
        /\ raced' = IF Unclean(FirstFree) THEN raced \cup {p} ELSE raced
     \/ /\ FreeSlots = {} /\ Len(acc) < MaxAccessers
        /\ acc' = Append(acc, [pid |-> p, rpid |-> none])
        /\ To(p, "rpid", Len(acc) + 1)
        /\ lock' = p
        /\ UNCHANGED raced
     \/ /\ FreeSlots = {} /\ Len(acc) >= MaxAccessers
        /\ acc' = IF Len(acc) > MaxAccessers THEN acc
                  ELSE Append(acc, [pid |-> none, rpid |-> none])
        /\ Die(p)
        /\ UNCHANGED <<at, raced>>
  /\ UNCHANGED <<mem, table, msqid, ads, ipc, rq, command, wd, mail, orphan, missed>>

\* The constructor of client creates the queue,
rpid(p) ==
  /\ pc[p] = "rpid"
  /\ ipc' = ipc \cup {p}
  /\ Go(p, "rpid_store")
  /\ UNCHANGED <<mem, table, msqid, ads, acc, lock, at, rq, command, wd, mail, history>>

\* enters it in the table, too late for an operator's command that has listed
\* the queues already, and leaves the lock.
rpid_store(p) ==
  /\ pc[p] = "rpid_store"
  /\ acc' = [acc EXCEPT ![at[p]].rpid = p]
  /\ lock' = none
  /\ IF p = adm THEN To(p, "shutdown", Len(table)) ELSE To(p, "in", at[p])
  /\ missed' = IF pc[adm] = "rmid" THEN missed \cup {p} ELSE missed
  /\ UNCHANGED <<mem, table, msqid, ads, ipc, rq, command, wd, mail, orphan, raced>>

\* The destructor deletes the queue and gives the entry up.
Deleted(i) == ipc' = ipc \ {acc[i].rpid}
Invalidated(i) == acc' = [acc EXCEPT ![i] = [pid |-> none, rpid |-> none]]

tpterm(c) ==
  /\ pc[c] = "in" /\ lock = none
  /\ Deleted(at[c]) /\ Invalidated(at[c]) /\ Die(c)
  /\ UNCHANGED <<mem, table, msqid, ads, at, rq, command, wd, mail, history>>

-----------------------------------------------------------------------------
(* tmshutdown and the removal of what the bulletin board names *)

\* Servers from the last to the first: one that does not run is passed over,
\* the others are sent a .stop message, which fails when their queue is full.
shutdown ==
  /\ pc[adm] = "shutdown" /\ at[adm] > 0
  /\ \/ /\ Entry.pid = none \/ Entry.state = "INA"
        /\ To(adm, "shutdown", at[adm] - 1) /\ UNCHANGED <<table, stops>>
     \/ /\ Entry.pid # none /\ Entry.state # "INA"
        /\ table' = [table EXCEPT ![at[adm]].state = "SUS"]
        /\ \/ /\ stops' = stops \cup {[srv |-> Entry.srv, run |-> Len(todo.run)]}
              /\ To(adm, "reply", at[adm])
           \/ /\ Rqaddr[Entry.srv] \in todo.full
              /\ To(adm, "shutdown", at[adm] - 1) /\ UNCHANGED stops
  /\ UNCHANGED <<mem, msqid, ads, acc, lock, ipc, rq, command, wd, req, answers, unblock,
                 history>>

\* tpgetrply waits for the answer, without a limit of its own: the watchdog, as
\* long as there is one, sends messages to who waits too long, one a second until
\* one is read.  It fails when the queue is deleted.
reply ==
  /\ pc[adm] = "reply"
  /\ \/ /\ Entry.srv \in answers /\ answers' = answers \ {Entry.srv}
        /\ UNCHANGED unblock
     \/ unblock /\ unblock' \in BOOLEAN /\ UNCHANGED answers
     \/ adm \notin ipc /\ UNCHANGED <<answers, unblock>>
  /\ To(adm, "shutdown", at[adm] - 1)
  /\ UNCHANGED <<board, rq, command, wd, req, stops, history>>

stopped ==
  /\ pc[adm] = "shutdown" /\ at[adm] = 0 /\ lock = none
  /\ LET i == CHOOSE j \in 1..Len(acc) : acc[j].pid = adm
     IN Deleted(i) /\ Invalidated(i)
  /\ Go(adm, "remove")
  /\ answers' = {} /\ unblock' = FALSE
  /\ UNCHANGED <<mem, table, msqid, ads, lock, at, rq, command, wd, req, stops, history>>

Collected == {msqid[a] : a \in DOMAIN msqid} \cup {acc[i].rpid : i \in 1..Len(acc)}

\* Mutant: the reply queues are not looked for.
collect_requests ==
  /\ pc[adm] = "remove"
  /\ Len(acc) <= MaxAccessers
  /\ found' = {msqid[a] : a \in DOMAIN msqid} /\ Go(adm, "rmid")
  /\ UNCHANGED <<board, at, rq, cmd, todo, wd, mail, history>>

\* mib::collect lists what is to be removed; it throws when the table of clients
\* is longer than it may be.
collect ==
  /\ pc[adm] = "remove"
  /\ \/ Len(acc) > MaxAccessers /\ Go(adm, "off") /\ UNCHANGED found
     \/ Len(acc) <= MaxAccessers /\ found' = Collected /\ Go(adm, "rmid")
  /\ UNCHANGED <<board, at, rq, cmd, todo, wd, mail, history>>

\* Nobody is told of the removal.  Who is attached runs on with a segment that
\* nobody else will find, until a call fails over a queue or the semaphore: a
\* server goes on with the service it is in, and one that starts creates its
\* queue, as a client does that was about to.
Starts(p) == p \in Inst /\ pc[p] \in {"create", "spin", "ubb2mib", "make_server", "rqaddr", "qcreate"}
Left(p) == CASE pc[p] \in {"off", "dead", "shmget", "late"} -> pc[p]
             [] p = adm -> "off"
             [] Starts(p) \/ pc[p] = "rpid" -> "late"
             [] OTHER -> "left"
Unnamed(p) == pc[p] \in {"msqid", "rpid_store"}

\* mib::remove: IPC_RMID of what was listed, of the semaphore and the segment.
remove ==
  /\ pc[adm] = "rmid"
  /\ mem' = "none" /\ table' = <<>> /\ ads' = {} /\ acc' = <<>> /\ lock' = none
  /\ ipc' = ipc \ found /\ found' = {}
  /\ msqid' = [a \in DOMAIN msqid |-> none]
  /\ pc' = [p \in Procs |-> Left(p)]
  /\ missed' = missed \cup {p \in Procs : Unnamed(p)}
  /\ wd' = Rest /\ stops' = {} /\ req' = [p \in Inst |-> none]
  /\ UNCHANGED <<at, rq, cmd, todo, answers, unblock, orphan, raced>>

\* The queue of a process that runs on is named nowhere.
late(p) ==
  /\ pc[p] = "late"
  /\ Go(p, "left") /\ ipc' = ipc \cup {p} /\ missed' = missed \cup {p}
  /\ UNCHANGED <<mem, table, msqid, ads, acc, lock, at, rq, command, wd, mail, orphan,
                 raced>>

\* It ends when a call fails, or is killed.
leave(p) ==
  /\ pc[p] \in {"late", "left"}
  /\ Go(p, "dead")
  /\ UNCHANGED <<board, at, rq, command, wd, mail, history>>

-----------------------------------------------------------------------------
(* The watchdog thread of the BBL: monitor_servers and monitor_clients,     *)
(* one entry after the other in any order.  It never takes data_lock.       *)

monitor_servers(i) ==
  /\ Watched /\ wd.at = "scan"
  /\ table[i].pid # none /\ ~alive(table[i].pid)
  /\ wd' = [at |-> "server", i |-> i]
  /\ UNCHANGED <<board, pc, at, rq, command, mail, history>>

\* The pid is cleared some time after it was looked at.
clear_server ==
  /\ Watched /\ wd.at = "server"
  /\ table' = [table EXCEPT ![wd.i].pid = none]
  /\ wd' = Rest
  /\ UNCHANGED <<mem, msqid, ads, acc, lock, ipc, pc, at, rq, command, mail, history>>

\* Mutant: clients that are alive are cleaned up after, too.
monitor_clients_all(i) ==
  /\ Watched /\ wd.at = "scan"
  /\ acc[i].pid # none
  /\ acc' = [acc EXCEPT ![i].pid = none]
  /\ wd' = [at |-> "clean", i |-> i]
  /\ UNCHANGED <<mem, table, msqid, ads, lock, ipc, pc, at, rq, command, mail, history>>

monitor_clients(i) ==
  /\ Watched /\ wd.at = "scan"
  /\ acc[i].pid # none /\ ~alive(acc[i].pid)
  /\ acc' = [acc EXCEPT ![i].pid = none]
  /\ wd' = [at |-> "clean", i |-> i]
  /\ UNCHANGED <<mem, table, msqid, ads, lock, ipc, pc, at, rq, command, mail, history>>

\* The queue is deleted after the entry was given up.
clean_client ==
  /\ Watched /\ wd.at = "clean"
  /\ Deleted(wd.i)
  /\ acc' = [acc EXCEPT ![wd.i].rpid = none]
  /\ wd' = Rest
  /\ UNCHANGED <<mem, table, msqid, ads, lock, pc, at, rq, command, mail, history>>

\* Who waits longer than its block time is sent a message.  tmshutdown waits in
\* reply, a client now and then; where the entry names no queue any more, the
\* thread fails and the BBL with it.
Waits(p) == p # none /\ pc[p] \in {"in", "reply"}
handle_blocktime(i) ==
  /\ Watched /\ wd.at = "scan"
  /\ Waits(acc[i].pid)
  /\ \/ /\ acc[i].rpid \in ipc
        /\ unblock' = (unblock \/ acc[i].pid = adm)
        /\ UNCHANGED <<pc, lock, wd>>
     \/ /\ acc[i].rpid \notin ipc
        /\ \E p \in BBL : (pc[p] = "advertise" \/ Serving(p)) /\ Die(p)
        /\ Watching /\ UNCHANGED unblock
  /\ UNCHANGED <<mem, table, msqid, ads, acc, ipc, at, rq, command, req, stops, answers, history>>

-----------------------------------------------------------------------------
\* A process is killed; the queue it has just created is not in a table yet.
kill(p) ==
  /\ p # adm /\ alive(p) /\ pc[p] \notin {"late", "left"} /\ p \in todo.kill
  /\ Die(p) /\ Watching
  /\ todo' = [todo EXCEPT !.kill = {}]
  /\ orphan' = (orphan \/ pc[p] = "create")
  /\ missed' = IF Unnamed(p) THEN missed \cup {p} ELSE missed
  /\ req' = [q \in Inst |-> IF q = p THEN none ELSE req[q]]
  /\ UNCHANGED <<mem, table, msqid, ads, acc, ipc, at, rq, cmd, found, stops, answers, unblock,
                 raced>>

Tmboot == start \/ wait \/ booted
Tmshutdown == shutdown \/ reply \/ stopped \/ collect \/ remove
Attach(p) == shmget(p) \/ init_memory(p) \/ spin(p) \/ ubb2mib(p) \/ make_server(p)
Server(p) ==
  \/ rqaddr(p) \/ qcreate(p) \/ msqid_store(p) \/ svrinit(p) \/ advertise(p) \/ active(p)
  \/ putback(p) \/ inactive(p)
Join(p) == make_accesser(p) \/ rpid(p) \/ rpid_store(p)
Watchdog ==
  \/ \E i \in 1..Len(table) : monitor_servers(i)
  \/ \E i \in 1..Len(acc) : i <= MaxAccessers /\ (monitor_clients(i) \/ handle_blocktime(i))
  \/ clear_server \/ clean_client

Next ==
  \/ run
  \/ \E c \in Clients : tpterm(c)
  \/ \E p \in Procs : Attach(p) \/ late(p) \/ leave(p) \/ kill(p)
  \/ \E p \in Clients \cup {adm} : Join(p)
  \/ \E p \in Inst : Server(p) \/ \E m \in stops : stop(p, m)
  \/ Tmboot \/ Tmshutdown \/ Watchdog

Spec == Init /\ [][Next]_dvars

\* Every process runs until it waits for something, and the watchdog scans all
\* the time.  A server need not read its queue again: a service may run for ever.
Fairness ==
  /\ WF_dvars(Attach(adm) \/ Join(adm) \/ Tmboot \/ Tmshutdown)
  /\ \A c \in Clients : WF_dvars(Attach(c) \/ Join(c))
  /\ \A p \in Inst : WF_dvars(Attach(p) \/ Server(p))
  /\ WF_dvars(Watchdog)

FairSpec == Spec /\ Fairness

-----------------------------------------------------------------------------
(* Properties *)

\* Two processes of a server never both receive requests.  Within one bulletin
\* board that is so although the watchdog may clear the pid of a server that was
\* just restarted (BBL.cpp:73) and the configuration may be loaded twice
\* (mib.cpp:440): tmboot passes over a pid that is alive, and the service of a
\* server that runs is "Already advertised".  One that was busy when the
\* resources were removed (mib.cpp:416) does run on next to the one that tmboot
\* starts afterwards, but no queue it could receive from is left.
Receives(p) == Serving(p) \/ (pc[p] = "left" /\ rq[p] \in ipc)
OneReceiver == \A p, q \in Inst : Receives(p) /\ Receives(q) /\ p[1] = q[1] => p = q

\* Servers of one address receive from one queue although they test for it and
\* create it without a lock (mib.cpp:383), because tmboot waits for each.
OneQueue ==
  \A p, q \in Inst :
    Serving(p) /\ Serving(q) /\ Queue(p) = Queue(q) => rq[p] = rq[q]

\* Every queue that exists is named in the bulletin board, where tmshutdown and
\* tmipcrm find it, or about to be: except for one that no table named yet when
\* its creator was killed (mib.cpp:384, client.cpp:52) or the resources were
\* listed or removed, and unless a client took the entry of a dead one too early.
Recorded == \A q \in ipc : q \in Collected \/ Unnamed(q) \/ q \in missed \/ raced # {}

\* A client that runs, or tmshutdown, has a reply queue of its own: the watchdog
\* deletes those of the dead, except when a client takes an entry the watchdog
\* has given up and not cleaned yet (BBL.cpp:88).
OwnReplyQueue ==
  \A c \in Clients \cup {adm} : pc[c] \in {"in", "shutdown", "reply"} /\ c \notin raced =>
    c \in ipc /\ \E i \in 1..Len(acc) : acc[i] = [pid |-> c, rpid |-> c]

\* A command of the operator ends: servers start or die, whoever waits for the
\* segment gets it, and tmshutdown gets an answer or a message of the watchdog.
\* It may wait for ever where the process that was to initialise the segment died
\* (mib.cpp:462), the table was loaded twice and a server reports to an entry
\* other than the one tmboot looks at, or tmshutdown waits for a server and there
\* is no BBL (tmshutdown.cpp:86).
Doubled == \E i, j \in 1..Len(table) : i # j /\ table[i].srv = table[j].srv
Unwatched == pc[adm] = "reply" /\ ~Watched
CommandEnds ==
  (pc[adm] # "off") ~> (pc[adm] = "off" \/ orphan \/ Doubled \/ []Unwatched)
=============================================================================
