------------------------------- MODULE Calls -------------------------------
(***************************************************************************)
(* The asynchronous call machinery of one ATMI client thread: the call     *)
(* descriptors of src/src/resp.h, tpacall, tpgetrply, tpcall and tpcancel  *)
(* of src/src/client.cpp, the reply queue behind them, and the watchdog    *)
(* thread of src/src/BBL.cpp that wakes a client blocked for too long.     *)
(*                                                                         *)
(* A call is named by its number, the count of descriptors allocated so    *)
(* far; the program itself only knows the descriptor, which is reused when *)
(* the sequence wraps around.  A message is abstracted to its category,    *)
(* descriptor and call number.                                             *)
(***************************************************************************)
EXTENDS Naturals, Sequences, FiniteSets

CONSTANTS SeqMax,        (* INT_MAX, where the descriptor sequence wraps   *)
          MaxCalls,      (* 1024, compared with the table's size           *)
          QueueCap,      (* messages the reply queue holds                 *)
          MaxIssued,     (* bound: descriptors allocated in a behaviour    *)
          LargeReplies   (* TRUE: replies may exceed MAX_QUEUE_MSG_SIZE    *)

ASSUME CallsAssumption ==
  /\ SeqMax \in Nat /\ SeqMax > 2
  /\ MaxCalls \in Nat
  /\ QueueCap \in Nat /\ QueueCap > 0
  /\ MaxIssued \in Nat /\ MaxIssued > 0
  /\ LargeReplies \in BOOLEAN

VARIABLES
  seq,           \* seq_, the last descriptor handed out
  calls,         \* calls_: descriptor -> status and buffered reply
  rpid,          \* contents of the reply queue, oldest first
  rpid_timeout,  \* accesser::rpid_timeout against the clock
  pc,            \* where the client thread is
  want,          \* the descriptor tpgetrply waits for, or ANY
  res,           \* the message taken from the queue, not yet looked at
  requests,      \* requests queued at or being served by servers
  bbl,           \* where the watchdog is in its scan
  issued,        \* history: number of calls made
  owner,         \* history: the last call given each descriptor
  delivered,     \* history: how many times each call was answered
  dropped,       \* history: calls whose reply can no longer be delivered
  cancelled      \* history: calls given up with tpcancel

client == <<seq, calls, pc, want, res>>
history == <<issued, owner, delivered, dropped, cancelled>>
vars == <<seq, calls, rpid, rpid_timeout, pc, want, res, requests, bbl,
          issued, owner, delivered, dropped, cancelled>>

Cd == 1..(SeqMax - 1)
ANY == 0                       \* tpgetrply(..., TPGETANY)
Id == 1..MaxIssued
Category == {"application", "unblock"}
Message == [cat : Category, cd : 0..(SeqMax - 1), id : 0..MaxIssued]
Unblock == [cat |-> "unblock", cd |-> 0, id |-> 0]
NoMsg == [cat |-> "application", cd |-> 0, id |-> 0]
Entry == [status : {"free", "none", "buffered"}, msg : Message]
Free == [status |-> "free", msg |-> NoMsg]
None == [status |-> "none", msg |-> NoMsg]
Buffered(m) == [status |-> "buffered", msg |-> m]

TypeOK ==
  /\ seq \in 0..(SeqMax - 1)
  /\ calls \in [Cd -> Entry]
  /\ rpid \in Seq(Message)
  /\ rpid_timeout \in {"invalid", "armed", "expired"}
  /\ pc \in {"idle", "blocked", "received"}
  /\ want \in Cd \cup {ANY}
  /\ res \in Message
  /\ requests \in SUBSET [cd : Cd, id : Id]
  /\ bbl \in {"scan", "send"}
  /\ issued \in 0..MaxIssued
  /\ owner \in [Cd -> 0..MaxIssued]
  /\ delivered \in [Id -> Nat]
  /\ dropped \in SUBSET Id
  /\ cancelled \in SUBSET Id

Init ==
  /\ seq = 0
  /\ calls = [c \in Cd |-> Free]
  /\ rpid = <<>>
  /\ rpid_timeout = "invalid"
  /\ pc = "idle"
  /\ want = ANY
  /\ res = NoMsg
  /\ requests = {}
  /\ bbl = "scan"
  /\ issued = 0
  /\ owner = [c \in Cd |-> 0]
  /\ delivered = [i \in Id |-> 0]
  /\ dropped = {}
  /\ cancelled = {}

-----------------------------------------------------------------------------
(* class responses *)

nextseq == IF seq + 1 = SeqMax THEN 1 ELSE seq + 1

Allocated == {c \in Cd : calls[c].status # "free"}
BufferedCds == {c \in Cd : calls[c].status = "buffered"}

\* any_buffered() walks a std::map, so it finds the smallest descriptor.
any_buffered == CHOOSE c \in BufferedCds : \A d \in BufferedCds : c <= d

\* Mutant: a reply to another call is thrown away.
buffer_discard(m) == UNCHANGED calls

\* buffer() creates the entry when the descriptor is not allocated.
buffer(m) == calls' = [calls EXCEPT ![m.cd] = Buffered(m)]

\* The reply an erased or overwritten entry takes with it.
LostWith(c) == IF calls[c].status = "buffered" THEN {calls[c].msg.id} ELSE {}

-----------------------------------------------------------------------------
(* tpacall: allocate a descriptor, send the request.  allocate() overwrites *)
(* an entry left from the previous turn of the sequence.                    *)

\* Mutant: the descriptor wraps, the counter behind it does not.
allocate_nowrap ==
  /\ Cardinality(Allocated) <= MaxCalls
  /\ issued < MaxIssued
  /\ seq' = seq + 1
  /\ issued' = issued + 1
  /\ owner' = [owner EXCEPT ![nextseq] = issued + 1]

allocate ==
  /\ Cardinality(Allocated) <= MaxCalls
  /\ issued < MaxIssued
  /\ seq' = nextseq
  /\ issued' = issued + 1
  /\ owner' = [owner EXCEPT ![nextseq] = issued + 1]

tpacall ==
  /\ allocate
  /\ calls' = [calls EXCEPT ![nextseq] = None]
  /\ requests' = requests \cup {[cd |-> nextseq, id |-> issued + 1]}
  /\ dropped' = dropped \cup LostWith(nextseq)

\* qsend returned false: the request queue is full (TPEBLOCK, TPETIME).
tpacall_full ==
  /\ pc = "idle"
  /\ allocate
  /\ calls' = [calls EXCEPT ![nextseq] = Free]
  /\ dropped' = dropped \cup LostWith(nextseq) \cup {issued + 1}
  /\ UNCHANGED <<rpid, rpid_timeout, pc, want, res, requests, bbl, delivered,
                 cancelled>>

\* qsend threw: the exception passes the release of the descriptor.
tpacall_throws ==
  /\ pc = "idle"
  /\ allocate
  /\ calls' = [calls EXCEPT ![nextseq] = None]
  /\ dropped' = dropped \cup LostWith(nextseq) \cup {issued + 1}
  /\ UNCHANGED <<rpid, rpid_timeout, pc, want, res, requests, bbl, delivered,
                 cancelled>>

tpacall_sent ==
  /\ pc = "idle"
  /\ tpacall
  /\ UNCHANGED <<rpid, rpid_timeout, pc, want, res, bbl, delivered, cancelled>>

\* Mutant: the deadline is not published before the thread blocks.
Wait_unarmed(w) == want' = w /\ pc' = "blocked" /\ UNCHANGED rpid_timeout

\* One pass of tpgetrply's loop up to qrecv.
Wait(w) ==
  /\ want' = w
  /\ rpid_timeout' = "armed"
  /\ pc' = "blocked"

\* tpcall is tpacall followed by tpgetrply of the same descriptor, which is
\* not buffered yet: the thread goes on to wait for it.
tpcall ==
  /\ pc = "idle"
  /\ tpacall
  /\ Wait(nextseq)
  /\ UNCHANGED <<rpid, res, bbl, delivered, cancelled>>

-----------------------------------------------------------------------------
(* tpgetrply *)

\* Mutant: the descriptor is not released.
deliver_keep(m) ==
  /\ delivered' = [delivered EXCEPT ![m.id] = @ + 1]
  /\ pc' = "idle"
  /\ UNCHANGED calls

\* The reply goes to the caller and its descriptor is released; release of a
\* descriptor that is not allocated fails and the failure is ignored.
deliver(m) ==
  /\ delivered' = [delivered EXCEPT ![m.id] = @ + 1]
  /\ calls' = [calls EXCEPT ![m.cd] = Free]
  /\ pc' = "idle"

tpgetrply(w) ==
  /\ pc = "idle"
  /\ w # ANY => calls[w].status # "free"
  /\ \/ /\ w = ANY /\ BufferedCds # {}
        /\ deliver(calls[any_buffered].msg)
        /\ UNCHANGED <<want, rpid_timeout, res>>
     \/ /\ w \in BufferedCds
        /\ deliver(calls[w].msg)
        /\ UNCHANGED <<want, rpid_timeout, res>>
     \/ /\ IF w = ANY THEN BufferedCds = {} ELSE w \notin BufferedCds
        /\ Wait(w)
        /\ UNCHANGED <<calls, delivered, res>>
  /\ UNCHANGED <<seq, rpid, requests, bbl, issued, owner, dropped, cancelled>>

\* msgrcv returned; rpid_timeout is still set.
qrecv ==
  /\ pc = "blocked"
  /\ rpid # <<>>
  /\ res' = Head(rpid)
  /\ rpid' = Tail(rpid)
  /\ pc' = "received"
  /\ UNCHANGED <<seq, calls, rpid_timeout, want, requests, bbl, history>>

\* msgrcv failed, for instance with EINTR: the exception leaves tpgetrply and
\* rpid_timeout is not reset.
qrecv_throws ==
  /\ pc = "blocked"
  /\ pc' = "idle"
  /\ UNCHANGED <<seq, calls, rpid, rpid_timeout, want, res, requests, bbl,
                 history>>

\* Mutant: a time-out releases the descriptor waited for.
timed_out_release ==
  /\ res.cat = "unblock"
  /\ pc' = "idle"
  /\ rpid_timeout' = "invalid"
  /\ calls' = IF want = ANY THEN calls ELSE [calls EXCEPT ![want] = Free]
  /\ UNCHANGED <<want, delivered, dropped>>

\* An unblock message ends the call with TPETIME; the descriptor stays.
timed_out ==
  /\ res.cat = "unblock"
  /\ pc' = "idle"
  /\ rpid_timeout' = "invalid"
  /\ UNCHANGED <<calls, want, delivered, dropped>>

\* A reply to another call is buffered and the loop goes round again.
not_mine ==
  /\ res.cat # "unblock"
  /\ want # ANY /\ want # res.cd
  /\ buffer(res)
  /\ dropped' = dropped \cup LostWith(res.cd)
  /\ Wait(want)
  /\ UNCHANGED delivered

\* Mutant: the reply is not compared with the descriptor waited for.
mine_unchecked ==
  /\ res.cat # "unblock"
  /\ deliver(res)
  /\ dropped' = dropped \cup LostWith(res.cd)
  /\ rpid_timeout' = "invalid"
  /\ UNCHANGED want

mine ==
  /\ res.cat # "unblock"
  /\ want = ANY \/ want = res.cd
  /\ deliver(res)
  /\ dropped' = dropped \cup LostWith(res.cd)
  /\ rpid_timeout' = "invalid"
  /\ UNCHANGED want

\* The rest of the loop body once a message is there.
received ==
  /\ pc = "received"
  /\ res' = NoMsg
  /\ timed_out \/ not_mine \/ mine
  /\ UNCHANGED <<seq, rpid, requests, bbl, issued, owner, cancelled>>

tpcancel(c) ==
  /\ pc = "idle"
  /\ calls[c].status # "free"
  /\ calls' = [calls EXCEPT ![c] = Free]
  /\ dropped' = dropped \cup LostWith(c)
  /\ cancelled' = cancelled \cup {owner[c]}
  /\ UNCHANGED <<seq, rpid, rpid_timeout, pc, want, res, requests, bbl,
                 issued, owner, delivered>>

-----------------------------------------------------------------------------
(* The servers, as the client sees them: a request is answered once, in any *)
(* order, when the reply queue has room (qsend with notime blocks), or it   *)
(* is lost with the server.  The category of a reply that travels in a file *)
(* is never assigned by qsend.                                              *)

reply(r) ==
  /\ Len(rpid) < QueueCap
  /\ requests' = requests \ {r}
  /\ \E c \in IF LargeReplies THEN Category ELSE {"application"} :
       rpid' = Append(rpid, [cat |-> c, cd |-> r.cd, id |-> r.id])
  /\ UNCHANGED <<client, rpid_timeout, bbl, history>>

LoseRequest(r) ==
  /\ requests' = requests \ {r}
  /\ dropped' = dropped \cup {r.id}
  /\ UNCHANGED <<client, rpid, rpid_timeout, bbl, issued, owner, delivered,
                 cancelled>>

-----------------------------------------------------------------------------
(* The watchdog: rpid_timeout is read and compared with the time, then an   *)
(* unblock message is sent with notime; the two are not atomic.             *)

Expire ==
  /\ rpid_timeout = "armed"
  /\ rpid_timeout' = "expired"
  /\ UNCHANGED <<client, rpid, requests, bbl, history>>

handle_blocktime ==
  /\ bbl = "scan"
  /\ rpid_timeout = "expired"
  /\ bbl' = "send"
  /\ UNCHANGED <<client, rpid, rpid_timeout, requests, history>>

send_unblock ==
  /\ bbl = "send"
  /\ Len(rpid) < QueueCap
  /\ rpid' = Append(rpid, Unblock)
  /\ bbl' = "scan"
  /\ UNCHANGED <<client, rpid_timeout, requests, history>>

-----------------------------------------------------------------------------
Next ==
  \/ tpacall_sent \/ tpacall_full \/ tpacall_throws \/ tpcall
  \/ \E w \in Cd \cup {ANY} : tpgetrply(w)
  \/ qrecv \/ qrecv_throws \/ received
  \/ \E c \in Cd : tpcancel(c)
  \/ \E r \in requests : reply(r) \/ LoseRequest(r)
  \/ Expire \/ handle_blocktime \/ send_unblock

Spec == Init /\ [][Next]_vars

\* The thread inside tpgetrply keeps running, time passes, and the watchdog
\* scans once a second for as long as the BBL lives.  Nothing is assumed of
\* the servers.
Fairness ==
  /\ WF_vars(qrecv) /\ WF_vars(received)
  /\ WF_vars(Expire) /\ WF_vars(handle_blocktime) /\ WF_vars(send_unblock)

FairSpec == Spec /\ Fairness

-----------------------------------------------------------------------------
(* Properties *)

Queued(i) == \E k \in 1..Len(rpid) : rpid[k].id = i
Held(i) == \E c \in Cd : calls[c].status = "buffered" /\ calls[c].msg.id = i
Requested(i) == \E r \in requests : r.id = i

\* No call is answered twice: a reply that tpgetrply has handed out, from the
\* queue or from the buffer, is never handed out again (resp.h release after
\* client.cpp delivery).
AtMostOnce == \A i \in Id : delivered[i] <= 1

\* No reply is lost between the queue and the caller: every call is with a
\* server, in the reply queue, in the thread's hands, buffered or answered,
\* unless its request or its descriptor was given up (client.cpp buffers what
\* another tpgetrply was waiting for).
NoReplyLost ==
  \A i \in 1..issued :
    \/ Requested(i) \/ Queued(i) \/ res.id = i \/ Held(i)
    \/ delivered[i] > 0 \/ i \in dropped

\* A call that is still to be answered keeps its descriptor, through time-outs
\* and replies to other calls, unless tpcancel gave it up; until the sequence
\* wraps and the late reply to an older call can be taken for its own.
DescriptorKept ==
  LET Pending == requests \cup {[cd |-> rpid[k].cd, id |-> rpid[k].id] :
                                  k \in {j \in 1..Len(rpid) : rpid[j].id # 0}}
  IN issued < SeqMax =>
       \A p \in Pending :
         p.id \notin cancelled /\ owner[p.cd] = p.id
           => calls[p.cd].status # "free"

\* Until the sequence wraps, what tpgetrply(cd) hands out is the reply to the
\* call that was given cd, whatever cancelled or late replies come in between.
RightCall ==
  [][issued < SeqMax => \A i \in Id : delivered'[i] > delivered[i] =>
       IF pc = "received"
       THEN want # ANY => owner[want] = i
       ELSE \E c \in Cd : /\ owner[c] = i
                          /\ calls[c].status = "buffered"
                          /\ calls'[c].status = "free"]_vars

\* tpgetrply never blocks for good: a reply or, once the block time is over,
\* the watchdog's message ends the wait.
GetrplyReturns == (pc = "blocked") ~> (pc = "idle")

\* install-tests/tpacall/client.c:61-64: after tpcancel(cd), tpgetrply(cd)
\* fails with TPEBADDESC, that is, the descriptor is not allocated.
CancelledIsBad ==
  \A c \in Cd : owner[c] \in cancelled => calls[c].status = "free"
=============================================================================
