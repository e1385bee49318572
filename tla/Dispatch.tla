------------------------------ MODULE Dispatch ------------------------------
(***************************************************************************)
(* The request loop of Fuxedo servers, src/src/server.cpp: the dispatch    *)
(* threads of one or several server processes read one System V queue      *)
(* (several: an MSSQ set), run the service and answer with tpreturn or     *)
(* pass the request on with tpforward, until the .stop message of          *)
(* tmshutdown (src/src/tmshutdown.cpp) reaches the server it names.        *)
(*                                                                         *)
(* A client has one request with a reply at a time; requests sent with     *)
(* TPNOREPLY carry descriptor 0 and nobody waits for them.                 *)
(***************************************************************************)
EXTENDS Naturals, Sequences, FiniteSets, SequencesExt

CONSTANTS Servers, Threads, SrvOf,  \* the dispatch threads and their server
          Clients, Services,
          MaxType,      \* LONG_MAX: reading by priority admits every type
          Cds,          \* call descriptors used; 0 is TPNOREPLY
          Period,       \* 8: every Period-th receive ignores priorities
          QueueCap,     \* messages the request queue holds
          MayCrash,     \* TRUE: server processes may be killed
          MayWithdraw,  \* TRUE: services call tpadvertise and tpunadvertise
          none

ASSUME DispatchAssumption ==
  /\ SrvOf \in [Threads -> Servers]
  /\ MaxType \in Nat \ {0}
  /\ Cds \subseteq 0..MaxType
  /\ Period \in Nat \ {0}
  /\ QueueCap \in Nat \ {0}
  /\ MayCrash \in BOOLEAN /\ MayWithdraw \in BOOLEAN
  /\ none \notin Servers \cup Threads \cup Clients
  /\ Servers \cap Clients = {}
  /\ ".stop" \notin Services

VARIABLES
  queue,    \* the request queue, oldest message first
  state,    \* server::state, and "dead" for a process that is gone
  stop,     \* server_main::stop
  counter,  \* server_main::req_counter_
  limit,    \* the types server_main::mtype_ admits: up to limit; 0: any
  mutex,    \* server_main::mutex: the thread that holds it
  ads,      \* server_main::advertisements
  pc,       \* where each dispatch thread is
  typ,      \* the limit a thread gave to msgrcv
  req,      \* server_thread::req
  waiting,  \* the clients that wait for a reply
  lost,     \* history: those whose request died with a server
  shut      \* tmshutdown: servers still to visit, and the one it waits for

server == <<state, stop, counter, limit, mutex, ads>>
thread == <<pc, typ, req>>
outside == <<waiting, lost, shut>>
vars == <<queue, state, stop, counter, limit, mutex, ads, pc, typ, req,
          waiting, lost, shut>>

\* Requests of clients have type 1; a forwarded request has its descriptor
\* for a type.
Message == [svc : Services \cup {".stop"}, who : Clients \cup Servers,
            mtype : 1..MaxType, cd : Cds \cup {1}]
NoMsg == [svc |-> none]
ThreadsOf(v) == {t \in Threads : SrvOf[t] = v}
InHand == {"putback", "dispatch", "serve"}

TypeOK ==
  /\ queue \in Seq(Message) /\ Len(queue) <= QueueCap
  /\ state \in [Servers -> {"active", "inactive", "dead"}]
  /\ stop \in [Servers -> BOOLEAN]
  /\ counter \in [Servers -> 0..(Period - 1)]
  /\ limit \in [Servers -> 0..MaxType]
  /\ mutex \in [Servers -> Threads \cup {none}]
  /\ ads \in [Servers -> SUBSET Services]
  /\ pc \in [Threads -> {"top", "lock", "recv", "done"} \cup InHand]
  /\ typ \in [Threads -> 0..MaxType]
  /\ req \in [Threads -> Message \cup {NoMsg}]
  /\ waiting \subseteq Clients
  /\ lost \subseteq waiting
  /\ shut \in [todo : SUBSET Servers, wait : Servers \cup {none}]

Init ==
  /\ queue = <<>>
  /\ state = [v \in Servers |-> "active"]
  /\ stop = [v \in Servers |-> FALSE]
  /\ counter = [v \in Servers |-> 0]
  /\ limit = [v \in Servers |-> MaxType]
  /\ mutex = [v \in Servers |-> none]
  /\ ads = [v \in Servers |-> Services]
  /\ pc = [t \in Threads |-> "top"]
  /\ typ = [t \in Threads |-> 0]
  /\ req = [t \in Threads |-> NoMsg]
  /\ waiting = {}
  /\ lost = {}
  /\ shut = [todo |-> Servers, wait |-> none]

-----------------------------------------------------------------------------
(* The queue *)

qsend(m) == Len(queue) < QueueCap /\ queue' = Append(queue, m)

\* msgrcv: the first message for type 0, else the first of the lowest type
\* within the limit.
Admitted(n) == {i \in 1..Len(queue) : n = 0 \/ queue[i].mtype <= n}
Best(n) ==
  CHOOSE i \in Admitted(n) : \A j \in Admitted(n) :
    IF n = 0 THEN i <= j
    ELSE \/ queue[i].mtype < queue[j].mtype
         \/ queue[i].mtype = queue[j].mtype /\ i <= j

\* Clients route by a cache, so a service may be gone when its request is read.
call(c, s, cd) ==
  /\ c \notin waiting
  /\ qsend([svc |-> s, who |-> c, mtype |-> 1, cd |-> cd])
  /\ waiting' = IF cd = 0 THEN waiting ELSE waiting \cup {c}
  /\ UNCHANGED <<server, thread, lost, shut>>

-----------------------------------------------------------------------------
(* The processes *)

Goto(t, label) == pc' = [pc EXCEPT ![t] = label]

\* The clients whose request a thread of v has in its hands.
Holding(v) == {req[t].who : t \in {u \in ThreadsOf(v) : /\ pc[u] \in InHand
                                                       /\ req[u].svc # ".stop"
                                                       /\ req[u].cd # 0}}

\* The process ends with everything in it.
Gone(v, as) ==
  /\ state' = [state EXCEPT ![v] = as]
  /\ mutex' = [mutex EXCEPT ![v] = none]
  /\ pc' = [t \in Threads |-> IF SrvOf[t] = v THEN "done" ELSE pc[t]]
  /\ req' = [t \in Threads |-> IF SrvOf[t] = v THEN NoMsg ELSE req[t]]
  /\ UNCHANGED <<stop, counter, limit, ads, typ>>

Crash(v) == Gone(v, "dead") /\ lost' = lost \cup Holding(v)

killed(v) ==
  /\ MayCrash
  /\ state[v] = "active"
  /\ Crash(v)
  /\ UNCHANGED <<queue, waiting, shut>>

-----------------------------------------------------------------------------
(* dispatch *)

\* The loop is left once stop is set.
dispatch(t) ==
  /\ pc[t] = "top"
  /\ Goto(t, IF stop[SrvOf[t]] THEN "done" ELSE "lock")
  /\ UNCHANGED <<queue, server, typ, req, outside>>

\* Mutant: every receive goes by priority.
mtype_priority(v, n) == limit[v]

\* mtype(): every Period-th message is the first of the queue.
mtype(v, n) == IF n = 0 THEN 0 ELSE limit[v]

\* Mutant: stop is not looked at again under the mutex.
locked_unchecked(t) ==
  LET v == SrvOf[t]
      n == (counter[v] + 1) % Period
  IN /\ pc[t] = "lock"
     /\ mutex[v] = none
     /\ mutex' = [mutex EXCEPT ![v] = t]
     /\ counter' = [counter EXCEPT ![v] = n]
     /\ typ' = [typ EXCEPT ![t] = mtype(v, n)]
     /\ Goto(t, "recv")
     /\ UNCHANGED <<queue, state, stop, limit, ads, req, outside>>

\* The mutex is taken, stop is looked at again, and msgrcv is entered with
\* the mutex held.
locked(t) ==
  LET v == SrvOf[t]
      n == (counter[v] + 1) % Period
  IN /\ pc[t] = "lock"
     /\ mutex[v] = none
     /\ \/ /\ stop[v]
           /\ Goto(t, "done")
           /\ UNCHANGED <<mutex, counter, typ>>
        \/ /\ ~stop[v]
           /\ mutex' = [mutex EXCEPT ![v] = t]
           /\ counter' = [counter EXCEPT ![v] = n]
           /\ typ' = [typ EXCEPT ![t] = mtype(v, n)]
           /\ Goto(t, "recv")
     /\ UNCHANGED <<queue, state, stop, limit, ads, req, outside>>

\* handle: a .stop message, whoever it is for, lowers the types admitted.
handle(v, m) ==
  /\ limit' = [limit EXCEPT ![v] = m.mtype - 1]
  /\ counter' = [counter EXCEPT ![v] = 0]
  /\ stop' = [stop EXCEPT ![v] = @ \/ m.who = v]

\* A message is there: a request, a .stop for this server, or one for another
\* server of the set.
qrecv(t) ==
  LET v == SrvOf[t]
      i == Best(typ[t])
      m == queue[i]
  IN /\ pc[t] = "recv"
     /\ Admitted(typ[t]) # {}
     /\ queue' = RemoveAt(queue, i)
     /\ req' = [req EXCEPT ![t] = m]
     /\ \/ /\ m.svc # ".stop"
           /\ mutex' = [mutex EXCEPT ![v] = none]
           /\ Goto(t, "dispatch")
           /\ UNCHANGED <<stop, counter, limit>>
        \/ /\ m.svc = ".stop" /\ m.who = v
           /\ handle(v, m)
           /\ mutex' = [mutex EXCEPT ![v] = none]
           /\ Goto(t, "top")
        \/ /\ m.svc = ".stop" /\ m.who # v
           /\ handle(v, m)
           /\ Goto(t, "putback")
           /\ UNCHANGED mutex
     /\ UNCHANGED <<state, ads, typ, outside>>

\* The message goes back to the queue, the mutex is released, and the loop
\* goes on to look for a service of that name.
put_back(t) ==
  /\ pc[t] = "putback"
  /\ qsend(req[t])
  /\ mutex' = [mutex EXCEPT ![SrvOf[t]] = none]
  /\ Goto(t, "dispatch")
  /\ UNCHANGED <<state, stop, counter, limit, ads, typ, req, outside>>

\* advertisements.find(name)->second: the end of the map is not a service,
\* calling through it ends the process.
invoke(t) ==
  /\ pc[t] = "dispatch"
  /\ \/ /\ req[t].svc \in ads[SrvOf[t]]
        /\ Goto(t, "serve")
        /\ UNCHANGED <<server, typ, req, lost>>
     \/ /\ req[t].svc \notin ads[SrvOf[t]]
        /\ Crash(SrvOf[t])
  /\ UNCHANGED <<queue, waiting, shut>>

-----------------------------------------------------------------------------
(* What a service does *)

\* tpreturn, or tpforward that could not send.
tpreturn(t) ==
  /\ pc[t] = "serve"
  /\ waiting' = IF req[t].cd = 0 THEN waiting ELSE waiting \ {req[t].who}
  /\ Goto(t, "top")
  /\ req' = [req EXCEPT ![t] = NoMsg]
  /\ UNCHANGED <<queue, server, typ, lost, shut>>

\* Mutant: control returns to the service, which ends with tpreturn.
tpforward_returns(t, s) ==
  /\ pc[t] = "serve"
  /\ req[t].cd # 0
  /\ qsend([req[t] EXCEPT !.svc = s, !.mtype = req[t].cd])
  /\ UNCHANGED <<server, thread, outside>>

\* The request goes back to a queue with its descriptor for a type; without
\* a descriptor msgsnd refuses type 0 and the request ends in tpreturn.
tpforward(t, s) ==
  /\ pc[t] = "serve"
  /\ req[t].cd # 0
  /\ qsend([req[t] EXCEPT !.svc = s, !.mtype = req[t].cd])
  /\ Goto(t, "top")
  /\ req' = [req EXCEPT ![t] = NoMsg]
  /\ UNCHANGED <<server, typ, outside>>

\* tpadvertise and tpunadvertise wait for the mutex of the process.
advertise(t, s) ==
  /\ MayWithdraw
  /\ pc[t] = "serve"
  /\ mutex[SrvOf[t]] = none
  /\ ads' = [ads EXCEPT ![SrvOf[t]] =
               IF s \in @ THEN @ \ {s} ELSE @ \cup {s}]
  /\ UNCHANGED <<queue, state, stop, counter, limit, mutex, thread, outside>>

-----------------------------------------------------------------------------
(* Shutdown *)

\* Mutant: the dispatch threads are not joined.
finish_unjoined(v) ==
  /\ state[v] = "active"
  /\ stop[v]
  /\ Gone(v, "inactive")
  /\ shut' = IF shut.wait = v THEN [shut EXCEPT !.wait = none] ELSE shut
  /\ UNCHANGED <<queue, waiting, lost>>

\* _tmstartserver once every thread has left dispatch: the server becomes
\* inactive and answers tmshutdown.
finish(v) ==
  /\ state[v] = "active"
  /\ stop[v]
  /\ \A t \in ThreadsOf(v) : pc[t] = "done"
  /\ Gone(v, "inactive")
  /\ shut' = IF shut.wait = v THEN [shut EXCEPT !.wait = none] ELSE shut
  /\ UNCHANGED <<queue, waiting, lost>>

\* tmshutdown visits the servers one by one; one that is inactive is skipped.
tmshutdown(v) ==
  /\ shut.wait = none
  /\ v \in shut.todo
  /\ state[v] # "inactive"
  /\ qsend([svc |-> ".stop", who |-> v, mtype |-> 1, cd |-> 1])
  /\ shut' = [todo |-> shut.todo \ {v}, wait |-> v]
  /\ UNCHANGED <<server, thread, waiting, lost>>

\* Its tpgetrply times out and it goes on with the next server.
tmshutdown_timeout ==
  /\ shut.wait # none
  /\ shut' = [shut EXCEPT !.wait = none]
  /\ UNCHANGED <<queue, server, thread, waiting, lost>>

-----------------------------------------------------------------------------
Thread(t) ==
  \/ dispatch(t) \/ locked(t) \/ qrecv(t) \/ put_back(t) \/ invoke(t)
  \/ tpreturn(t)
  \/ \E s \in Services : tpforward(t, s) \/ advertise(t, s)

Next ==
  \/ \E c \in Clients, s \in Services, cd \in Cds : call(c, s, cd)
  \/ \E t \in Threads : Thread(t)
  \/ \E v \in Servers : killed(v) \/ finish(v) \/ tmshutdown(v)
  \/ tmshutdown_timeout

Spec == Init /\ [][Next]_vars

\* Threads that can run do, services end, and main() goes on after join.
Fairness ==
  /\ \A t \in Threads :
       WF_vars(dispatch(t) \/ locked(t) \/ qrecv(t) \/ put_back(t) \/ invoke(t)
               \/ tpreturn(t) \/ \E s \in Services : tpforward(t, s))
  /\ \A v \in Servers : WF_vars(finish(v))

FairSpec == Spec /\ Fairness

-----------------------------------------------------------------------------
(* Properties *)

InQueue(c) == \E i \in 1..Len(queue) : /\ queue[i].who = c
                                       /\ queue[i].cd # 0

\* The places where the request of client c is.
Places(c) ==
  {<<"queue", i>> : i \in {j \in 1..Len(queue) : queue[j].who = c
                                                 /\ queue[j].cd # 0}}
  \cup {<<"thread", t>> : t \in {u \in Threads : /\ pc[u] \in InHand
                                                 /\ req[u].who = c
                                                 /\ req[u].cd # 0}}

\* A request a client waits for is in exactly one place until it is answered,
\* through tpforward, several servers on one queue and an orderly shutdown in
\* the middle of it: no second answer is under way and none is forgotten.
\* Only the death of a server loses it.
OneAnswer ==
  \A c \in Clients :
    Cardinality(Places(c)) = IF c \in waiting \ lost THEN 1 ELSE 0

\* Reading by type does not starve a request: a forwarded request of a high
\* type is read although requests of type 1 keep coming, as long as there is
\* a server left (server_main::mtype).
NotStarved ==
  \A c \in Clients :
    InQueue(c) ~> (~InQueue(c) \/ \A v \in Servers : state[v] # "active")

\* A .stop message in the queue ends the server it names, whatever its threads
\* are doing (the two tests of stop in dispatch).
StopEnds ==
  \A v \in Servers :
    (\E i \in 1..Len(queue) : queue[i].svc = ".stop" /\ queue[i].who = v)
      ~> (state[v] # "active")

\* server.cpp:306 "return for processing by other MSSQ servers": a .stop for
\* another server of the set is handed on, and does not end this one.
HandedOn ==
  [][\A v \in Servers : state[v] = "active" /\ state'[v] = "dead" =>
       \A t \in ThreadsOf(v) : pc[t] = "dispatch" => req[t].svc # ".stop"]_vars
=============================================================================
