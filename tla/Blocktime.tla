----------------------------- MODULE Blocktime -----------------------------
(***************************************************************************)
(* How long a call of one client thread may block: the block times of      *)
(* tpsblktime in src/src/client.cpp, the repeated attempts of              *)
(* msgsnd_timed in src/src/ipc.cpp, and the wait of tpgetrply that only    *)
(* the watchdog of src/src/BBL.cpp ends.                                   *)
(*                                                                         *)
(* Time is counted in milliseconds, of which a second has few.  A timer    *)
(* holds the time that remains, and tick passes one unit.  A process that  *)
(* can run does so before the next tick, except that the watchdog may take *)
(* Delay between reading a time-out and sending its message.               *)
(***************************************************************************)
EXTENDS Integers, Sequences

CONSTANTS Second,    (* 1000: a second, and the watchdog's sleep           *)
          Interval,  (* interval_msec, between two attempts to send        *)
          Default,   (* machine::blocktime, from the configuration         *)
          Times,     (* what the application passes to tpsblktime          *)
          Delay,     (* bound: the watchdog's time from reading to sending *)
          MaxCalls,  (* bound: calls not answered at a time                *)
          QueueCap   (* messages the reply queue holds                     *)

ASSUME BlocktimeAssumption ==
  /\ Second \in Nat \ {0} /\ Interval \in Nat \ {0} /\ Default \in Nat \ {0}
  /\ Times \subseteq Nat /\ Delay \in Nat
  /\ MaxCalls \in Nat \ {0} /\ QueueCap \in Nat \ {0}

VARIABLES
  blocktime,  \* blocktime_next and blocktime_all
  armed,      \* rpid_timeout is not INVALID_TIME
  left,       \* rpid_timeout - now; below 0 it is over
  rpid,       \* the reply queue
  calls,      \* calls without an answer, their replies in rpid included
  buffered,   \* replies kept for later
  room,       \* the request queue has room
  pc,         \* where the thread is
  then,       \* what follows the send: TRUE in tpcall, which waits
  i,          \* attempts of msgsnd_timed so far
  nap,        \* what is left of nanosleep
  any,        \* tpgetrply(..., TPGETANY)
  res,        \* the message received
  bbl,        \* the watchdog: asleep, or about to send
  scan,       \* until the watchdog scans, or must have sent
  elapsed,    \* history: since the call began to block
  first,      \* history: the block time the call began with
  least,      \* history: the shortest block time it waited with
  allowed,    \* history: the longest this tpgetrply may take
  stale,      \* history: an unblock was under way when it began
  asked,      \* history: what tpsblktime was last given
  fresh       \* history: no call took a block time since

sending == <<then, i, nap>>
waiting == <<any, res>>
history == <<elapsed, first, least, allowed, stale>>
replies == <<rpid, calls, buffered>>
timeout == <<armed, left>>
watchdog == <<bbl, scan>>
settings == <<blocktime, asked, fresh>>
vars == <<blocktime, armed, left, rpid, calls, buffered, room, pc, then, i, nap,
          any, res, bbl, scan, elapsed, first, least, allowed, stale, asked, fresh>>

What == {"next", "all"}
Unit == {"second", "millisecond"}

Init ==
  /\ blocktime = [w \in What |-> 0]
  /\ armed = FALSE /\ left = 0
  /\ rpid = <<>> /\ calls = 0 /\ buffered = 0
  /\ room \in BOOLEAN
  /\ pc = "idle" /\ then = FALSE /\ i = 0 /\ nap = 0
  /\ any = FALSE /\ res = "none"
  /\ bbl = "asleep" /\ scan \in 0..Second
  /\ elapsed = 0 /\ first = 0 /\ least = 0 /\ allowed = 0 /\ stale = FALSE
  /\ asked = [w \in What |-> [unit |-> "second", time |-> 0]]
  /\ fresh = TRUE

-----------------------------------------------------------------------------
(* The settings *)

\* Mutant: seconds are not converted.
tpsblktime_raw(t, u, w) ==
  /\ pc = "idle"
  /\ blocktime' = [blocktime EXCEPT ![w] = t]
  /\ asked' = [asked EXCEPT ![w] = [unit |-> u, time |-> t]]
  /\ fresh' = (fresh \/ w = "next")
  /\ UNCHANGED <<timeout, replies, room, pc, sending, waiting, watchdog, history>>

tpsblktime(t, u, w) ==
  /\ pc = "idle"
  /\ blocktime' = [blocktime EXCEPT ![w] = IF u = "second" THEN t * Second ELSE t]
  /\ asked' = [asked EXCEPT ![w] = [unit |-> u, time |-> t]]
  /\ fresh' = (fresh \/ w = "next")
  /\ UNCHANGED <<timeout, replies, room, pc, sending, waiting, watchdog, history>>

tpgblktime(u, w) ==
  IF u = "second" THEN blocktime[w] \div Second ELSE blocktime[w]

\* The value of next_blocktime(), and what the call of it does.
next_blocktime ==
  IF blocktime["next"] # 0 THEN blocktime["next"]
  ELSE IF blocktime["all"] # 0 THEN blocktime["all"]
  ELSE Default

\* Mutant: the time of TPBLK_NEXT stays.
TakeBlocktime_keep == fresh' = FALSE /\ UNCHANGED <<blocktime, asked>>

TakeBlocktime ==
  /\ blocktime' = [blocktime EXCEPT !["next"] = 0]
  /\ fresh' = FALSE
  /\ UNCHANGED asked

Return ==
  /\ pc' = "idle"
  /\ elapsed' = 0 /\ first' = 0 /\ least' = 0 /\ allowed' = 0 /\ stale' = FALSE

-----------------------------------------------------------------------------
(* tpgetrply *)

\* From the end of the block time to the watchdog's message, at most: it may
\* just have scanned, and takes its time to send.
Slack == Second + Delay

\* Mutant: the time-out is not set before the thread blocks.
Wait_unarmed == TakeBlocktime /\ pc' = "blocked" /\ UNCHANGED timeout

Wait ==
  /\ armed' = TRUE
  /\ left' = next_blocktime
  /\ TakeBlocktime
  /\ pc' = "blocked"

\* The first wait of a call.
Await(a) ==
  /\ any' = a
  /\ Wait
  /\ elapsed' = 0 /\ first' = next_blocktime /\ least' = next_blocktime
  /\ allowed' = next_blocktime + Slack
  /\ stale' = (bbl = "send" \/ \E k \in DOMAIN rpid : rpid[k] = "unblock")

\* A buffered reply is returned at once; the block times are not touched.
tpgetrply_buffered ==
  /\ pc = "idle" /\ buffered > 0
  /\ buffered' = buffered - 1
  /\ UNCHANGED <<settings, timeout, rpid, calls, room, pc, sending, waiting,
                 watchdog, history>>

tpgetrply(a) ==
  /\ pc = "idle"
  /\ IF a THEN buffered = 0 ELSE calls > 0
  /\ Await(a)
  /\ UNCHANGED <<replies, room, sending, res, watchdog>>

qrecv ==
  /\ pc = "blocked" /\ rpid # <<>>
  /\ res' = Head(rpid) /\ rpid' = Tail(rpid)
  /\ pc' = "received"
  /\ UNCHANGED <<settings, timeout, calls, buffered, room, sending, any, watchdog,
                 history>>

\* msgrcv was interrupted: the time-out stays armed.
qrecv_throws ==
  /\ pc = "blocked"
  /\ Return
  /\ UNCHANGED <<settings, timeout, replies, room, sending, waiting, watchdog>>

\* rpid_timeout is INVALID_TIME again.
Disarm == armed' = FALSE /\ left' = 0

timed_out ==
  /\ res = "unblock"
  /\ Disarm
  /\ Return
  /\ UNCHANGED <<settings, calls, buffered>>

\* Another call than the one waited for was answered, if there is one: the
\* reply is buffered and the wait begins anew with the next block time.
not_mine ==
  /\ res = "reply" /\ ~any /\ calls > 1
  /\ calls' = calls - 1 /\ buffered' = buffered + 1
  /\ Wait
  /\ least' = IF next_blocktime < least THEN next_blocktime ELSE least
  /\ allowed' = allowed + next_blocktime + Slack
  /\ UNCHANGED <<elapsed, first, stale>>

mine ==
  /\ res = "reply"
  /\ calls' = calls - 1
  /\ Disarm
  /\ Return
  /\ UNCHANGED <<settings, buffered>>

received ==
  /\ pc = "received"
  /\ res' = "none"
  /\ timed_out \/ not_mine \/ mine
  /\ UNCHANGED <<rpid, room, sending, any, watchdog>>

-----------------------------------------------------------------------------
(* tpacall and tpcall *)

\* qsend is given a block time, whatever the flags.
tpacall(f, wait) ==
  /\ pc = "idle" /\ calls + buffered < MaxCalls
  /\ then' = wait
  /\ i' = 0 /\ first' = next_blocktime
  /\ TakeBlocktime
  /\ pc' = f
  /\ UNCHANGED <<timeout, replies, room, nap, waiting, watchdog, elapsed, least,
                 allowed, stale>>

\* The message is in the request queue; tpcall goes on to wait for its reply.
Sent ==
  /\ room
  /\ calls' = calls + 1
  /\ i' = 0
  /\ IF then
     THEN Await(FALSE)
     ELSE Return /\ UNCHANGED <<settings, timeout, any>>
  /\ UNCHANGED <<rpid, buffered, room, then, nap, res, watchdog>>

NotSent ==
  /\ Return
  /\ i' = 0 /\ nap' = 0
  /\ UNCHANGED <<settings, timeout, replies, room, then, waiting, watchdog>>

\* TPNOTIME blocks until there is room.
msgsnd_notime == pc = "notime" /\ Sent

\* TPNOBLOCK tries once and fails with TPEBLOCK.
msgsnd_noblock ==
  /\ pc = "noblock"
  /\ \/ Sent
     \/ ~room /\ NotSent

\* Mutant: one attempt less.
times_less == first \div Interval + 1

times == first \div Interval + 2

\* An attempt of the loop: the second one follows at once, then a sleep.
msgsnd_timed ==
  /\ pc = "noflags"
  /\ \/ Sent
     \/ /\ ~room
        /\ IF i = 0
           THEN i' = 1 /\ UNCHANGED <<pc, nap>>
           ELSE pc' = "sleeping" /\ nap' = Interval /\ UNCHANGED i
        /\ UNCHANGED <<settings, timeout, replies, room, then, waiting, watchdog,
                       history>>

\* The sleep is over: the next attempt, or the end of the loop and TPETIME.
nanosleep ==
  /\ pc = "sleeping" /\ nap = 0
  /\ \/ /\ i + 1 < times
        /\ i' = i + 1 /\ pc' = "noflags"
        /\ UNCHANGED <<settings, timeout, replies, room, then, nap, waiting,
                       watchdog, history>>
     \/ i + 1 >= times /\ NotSent

\* msgsnd fails or a signal ends the sleep.
msgsnd_throws ==
  /\ pc \in {"notime", "noblock", "noflags"} \/ (pc = "sleeping" /\ nap > 0)
  /\ NotSent

-----------------------------------------------------------------------------
(* The servers fill and empty the request queue and answer, or do not.     *)

Room ==
  /\ room' = ~room
  /\ UNCHANGED <<settings, timeout, replies, pc, sending, waiting, watchdog,
                 history>>

InHand == IF res = "reply" THEN 1 ELSE 0
Queued == Len(SelectSeq(rpid, LAMBDA m : m = "reply"))

reply ==
  /\ Len(rpid) < QueueCap
  /\ Queued + InHand < calls
  /\ rpid' = Append(rpid, "reply")
  /\ UNCHANGED <<settings, timeout, calls, buffered, room, pc, sending, waiting,
                 watchdog, history>>

-----------------------------------------------------------------------------
(* The watchdog sleeps, reads, and sends if the time is over.              *)

\* Mutant: what runs out before the next scan counts as over.
handle_blocktime_ahead ==
  /\ bbl = "asleep" /\ scan = 0
  /\ IF armed /\ left < Second
     THEN bbl' = "send" /\ scan' = Delay
     ELSE scan' = Second /\ UNCHANGED bbl
  /\ UNCHANGED <<settings, timeout, replies, room, pc, sending, waiting, history>>

handle_blocktime ==
  /\ bbl = "asleep" /\ scan = 0
  /\ IF armed /\ left < 0
     THEN bbl' = "send" /\ scan' = Delay
     ELSE scan' = Second /\ UNCHANGED bbl
  /\ UNCHANGED <<settings, timeout, replies, room, pc, sending, waiting, history>>

\* qsend with notime blocks while the reply queue is full.
send_unblock ==
  /\ bbl = "send" /\ Len(rpid) < QueueCap
  /\ rpid' = Append(rpid, "unblock")
  /\ bbl' = "asleep" /\ scan' = Second
  /\ UNCHANGED <<settings, timeout, calls, buffered, room, pc, sending, waiting,
                 history>>

-----------------------------------------------------------------------------
Down(n) == IF n > 0 THEN n - 1 ELSE 0

\* Time passes when nobody has to run first.
tick ==
  /\ \/ pc = "idle"
     \/ pc = "notime" /\ ~room
     \/ pc = "blocked" /\ rpid = <<>>
     \/ pc = "sleeping" /\ nap > 0
  /\ scan > 0 \/ (bbl = "send" /\ Len(rpid) = QueueCap)
  /\ scan' = Down(scan) /\ nap' = Down(nap)
  /\ left' = IF armed /\ left >= 0 THEN left - 1 ELSE left
  /\ elapsed' = IF pc \in {"blocked", "sleeping"} THEN elapsed + 1 ELSE 0
  /\ UNCHANGED <<settings, armed, replies, room, pc, then, i, waiting, bbl, first,
                 least, allowed, stale>>

Next ==
  \/ \E t \in Times, u \in Unit, w \in What : tpsblktime(t, u, w)
  \/ \E f \in {"noflags", "noblock", "notime"}, w \in BOOLEAN : tpacall(f, w)
  \/ msgsnd_notime \/ msgsnd_noblock \/ msgsnd_timed \/ nanosleep
  \/ msgsnd_throws
  \/ tpgetrply_buffered \/ \E a \in BOOLEAN : tpgetrply(a)
  \/ qrecv \/ qrecv_throws \/ received
  \/ Room \/ reply
  \/ handle_blocktime \/ send_unblock
  \/ tick

Spec == Init /\ [][Next]_vars

-----------------------------------------------------------------------------
(* Properties *)

\* A send, or a tpgetrply, that returns with TPETIME.
SendTimesOut == pc = "sleeping" /\ nap = 0 /\ pc' = "idle"
GetrplyTimesOut == pc = "received" /\ pc' = "idle" /\ res = "unblock"

\* tpgblktime reports, in the unit used, what tpsblktime was given: the time for
\* all calls always, the one for the next until a call that goes to a queue,
\* and nothing after it, whichever kind of call that was (client.cpp:253).
ReadsBack ==
  \A w \in What :
    tpgblktime(asked[w].unit, w) =
      IF w = "all" \/ fresh THEN asked[w].time ELSE 0

\* A send that fails with TPETIME has tried for its block time, rounded up to
\* the next attempt, and not longer (msgsnd_timed).
SendKeepsTime ==
  [][SendTimesOut => elapsed \in first..(first + Interval)]_vars

\* tpgetrply does not fail with TPETIME before the shortest block time it
\* waited with is over, through restarts of the wait and a watchdog that is slow
\* to send, unless a message of an earlier wait was under way when it began.
GetrplyNotEarly ==
  [][GetrplyTimesOut /\ ~stale => elapsed >= least]_vars

\* tpgetrply does not block longer than its block time and a scan of the
\* watchdog for each time it began to wait: the replies to other calls, each of
\* which restarts the wait, are the only ones to prolong it.
GetrplyNotLate == pc = "blocked" => elapsed <= allowed

\* install-tests/blocktime/client.c:27-30: when tpgetrply fails with TPETIME,
\* the block time it was called with is over.
TimeoutNotEarly ==
  [][GetrplyTimesOut => elapsed >= first]_vars
=============================================================================
