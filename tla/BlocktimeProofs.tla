--------------------------- MODULE BlocktimeProofs ---------------------------
(***************************************************************************)
(* Proofs about Blocktime: what tpgblktime reports, how long a send tries, *)
(* and when tpgetrply times out, for every length of a second, of the      *)
(* interval, of the block times and of the watchdog's delay.               *)
(***************************************************************************)
EXTENDS Blocktime, TLAPS

Setting == [unit : Unit, time : Nat]
Received == {"none", "reply", "unblock"}

SettingsType == /\ blocktime \in [What -> Nat] /\ asked \in [What -> Setting]
                /\ fresh \in BOOLEAN
TimeoutType == armed \in BOOLEAN /\ left \in Int
WaitType == rpid \in Seq({"reply", "unblock"}) /\ res \in Received
SendType == i \in Nat /\ nap \in Nat
HistoryType == /\ elapsed \in Nat /\ first \in Nat /\ least \in Nat
               /\ allowed \in Nat /\ stale \in BOOLEAN
WatchType == /\ bbl \in {"asleep", "send"} /\ scan \in Nat
             /\ scan <= IF bbl = "asleep" THEN Second ELSE Delay
PcType == pc \in {"idle", "notime", "noblock", "noflags", "sleeping", "blocked",
                  "received"}
Types == /\ SettingsType /\ TimeoutType /\ WaitType /\ SendType /\ HistoryType
         /\ WatchType /\ PcType

\* What tpsblktime was given, in milliseconds.
Converted(a) == IF a.unit = "second" THEN a.time * Second ELSE a.time

SettingsInv ==
  \A w \in What : blocktime[w] = IF w = "all" \/ fresh THEN Converted(asked[w]) ELSE 0

\* Attempt i of msgsnd_timed begins after i - 1 sleeps.
SendInv ==
  /\ pc \in {"idle", "notime", "noblock"} => elapsed = 0
  /\ pc = "noflags" => elapsed = IF i = 0 THEN 0 ELSE (i - 1) * Interval
  /\ pc = "noflags" => i + 1 <= times
  /\ pc = "sleeping" => i > 0 /\ i + 1 <= times /\ elapsed + nap = i * Interval

Getrply == pc \in {"blocked", "received"}
UnderWay == bbl = "send" \/ \E k \in 1..Len(rpid) : rpid[k] = "unblock"

\* The time-out of a wait is the deadline of the shortest one at the earliest,
\* and a message that was not under way before means that it is over.
Early ==
  /\ armed
  /\ left >= 0 => elapsed + left >= least
  /\ left < 0 => elapsed >= least
  /\ ~stale /\ (UnderWay \/ res = "unblock") => elapsed >= least
EarlyInv == (pc # "received" => res = "none") /\ (Getrply => Early)

\* The time still to go, at most, until the watchdog's message is there.
ToGo == IF bbl = "send" THEN scan
        ELSE IF left >= 0 THEN left + Slack
        ELSE scan + Delay

Late == elapsed <= allowed /\ (pc = "blocked" /\ rpid = <<>> => elapsed + ToGo <= allowed)
LateInv == Getrply => Late

BlockInv == Types /\ SettingsInv /\ SendInv /\ EarlyInv /\ LateInv

-----------------------------------------------------------------------------
(* Arithmetic *)

LEMMA DivExact == ASSUME NEW t \in Nat, NEW s \in Nat \ {0} PROVE (t * s) \div s = t
  OBVIOUS

LEMMA DivBounds ==
  ASSUME NEW f \in Nat, NEW n \in Nat \ {0}
  PROVE  /\ f \div n \in Nat
         /\ (f \div n) * n <= f
         /\ f < (f \div n + 1) * n
  OBVIOUS

LEMMA NextProduct ==
  ASSUME NEW k \in Nat, NEW n \in Nat
  PROVE  k * n \in Nat /\ (k + 1) * n = k * n + n
  OBVIOUS

-----------------------------------------------------------------------------
(* Types *)

LEMMA NextBlocktimeType == Types => next_blocktime \in Nat
  BY BlocktimeAssumption DEF Types, SettingsType, next_blocktime, What

LEMMA TakeTypes ==
  ASSUME Types, TakeBlocktime
  PROVE  blocktime' \in [What -> Nat] /\ asked' \in [What -> Setting] /\ fresh' \in BOOLEAN
  BY DEF Types, SettingsType, TakeBlocktime, What

LEMMA WaitTypes ==
  ASSUME Types, Wait
  PROVE  SettingsType' /\ TimeoutType' /\ PcType'
  BY TakeTypes, NextBlocktimeType DEF Wait, SettingsType, TimeoutType, PcType

LEMMA AwaitTypes ==
  ASSUME Types, NEW a \in BOOLEAN, Await(a)
  PROVE  SettingsType' /\ TimeoutType' /\ PcType' /\ HistoryType'
  <1>1. next_blocktime \in Nat /\ Slack \in Nat
    BY NextBlocktimeType, BlocktimeAssumption DEF Slack
  <1>2. SettingsType' /\ TimeoutType' /\ PcType'
    BY WaitTypes DEF Await
  <1>3. stale' \in BOOLEAN
    BY DEF Await
  <1>4. HistoryType'
    BY <1>1, <1>3 DEF Await, HistoryType
  <1> QED
    BY <1>2, <1>4

LEMMA ReturnTypes ==
  ASSUME Return PROVE PcType' /\ HistoryType'
  <1>1. PcType' /\ stale' \in BOOLEAN
    BY Zenon DEF Return, PcType
  <1>2. HistoryType'
    BY <1>1 DEF Return, HistoryType
  <1> QED
    BY <1>1, <1>2

LEMMA SentTypes ==
  ASSUME Types, Sent
  PROVE  Types'
  <1>1. WaitType' /\ WatchType'
    BY DEF Types, Sent, WaitType, WatchType, watchdog
  <1>2. SendType'
    BY DEF Types, Sent, SendType
  <1>3. CASE then
    BY <1>1, <1>2, <1>3, AwaitTypes DEF Types, Sent
  <1>4. CASE ~then
    <2>1. Return /\ UNCHANGED <<settings, timeout, any>>
      BY <1>4 DEF Sent
    <2>2. SettingsType' /\ TimeoutType'
      BY <2>1 DEF Types, settings, timeout, SettingsType, TimeoutType
    <2> QED
      BY <1>1, <1>2, <2>1, <2>2, ReturnTypes DEF Types
  <1> QED
    BY <1>3, <1>4

LEMMA NotSentTypes ==
  ASSUME Types, NotSent
  PROVE  Types'
  <1>1. SettingsType' /\ TimeoutType' /\ WaitType' /\ WatchType'
    BY DEF Types, NotSent, settings, timeout, replies, waiting, watchdog,
       SettingsType, TimeoutType, WaitType, WatchType
  <1>2. SendType'
    BY DEF NotSent, SendType
  <1> QED
    BY <1>1, <1>2, ReturnTypes DEF Types, NotSent

LEMMA ReceivedTypes ==
  ASSUME Types, received
  PROVE  Types'
  <1>0. TimeoutType /\ SettingsType /\ HistoryType
    BY DEF Types
  <1>1. WaitType' /\ WatchType' /\ SendType'
    BY DEF Types, received, WaitType, WatchType, SendType, watchdog, sending, Received
  <1>2. CASE timed_out \/ mine
    <2>1. Return /\ Disarm /\ UNCHANGED settings
      BY <1>2 DEF timed_out, mine
    <2>2. SettingsType'
      BY <1>0, <2>1 DEF settings, SettingsType
    <2>3. armed' \in BOOLEAN
      BY <2>1, Zenon DEF Disarm
    <2>4. TimeoutType'
      BY <2>1, <2>3 DEF TimeoutType, Disarm
    <2> QED
      BY <1>1, <2>1, <2>2, <2>4, ReturnTypes DEF Types
  <1>3. CASE not_mine
    <2>1. Wait /\ UNCHANGED <<elapsed, first, stale>>
      BY <1>3 DEF not_mine
    <2>2. next_blocktime \in Nat /\ Slack \in Nat
      BY NextBlocktimeType, BlocktimeAssumption DEF Slack
    <2>3. least' \in Nat /\ allowed' \in Nat
      BY <1>0, <1>3, <2>2 DEF not_mine, HistoryType
    <2>4. HistoryType'
      BY <1>0, <2>1, <2>3 DEF HistoryType
    <2> QED
      BY <1>1, <2>1, <2>4, WaitTypes DEF Types
  <1> QED
    BY <1>2, <1>3 DEF received

LEMMA NextTypes == Types /\ [Next]_vars => Types'
  <1> SUFFICES ASSUME Types, [Next]_vars PROVE Types'
    OBVIOUS
  <1> USE DEF settings, timeout, replies, sending, waiting, watchdog, history
  <1>0. /\ SettingsType /\ TimeoutType /\ WaitType /\ SendType /\ HistoryType
        /\ WatchType /\ PcType
    BY DEF Types
  <1>1. ASSUME NEW t \in Times, NEW u \in Unit, NEW w \in What, tpsblktime(t, u, w)
        PROVE  Types'
    <2>1. t \in Nat /\ (IF u = "second" THEN t * Second ELSE t) \in Nat
      BY BlocktimeAssumption
    <2>2. blocktime' \in [What -> Nat] /\ asked' \in [What -> Setting]
      BY <1>0, <1>1, <2>1 DEF tpsblktime, SettingsType, Setting
    <2>3. fresh' \in BOOLEAN
      BY <1>1 DEF tpsblktime
    <2>4. SettingsType'
      BY <2>2, <2>3 DEF SettingsType
    <2>5. /\ TimeoutType' /\ WaitType' /\ SendType' /\ HistoryType'
          /\ WatchType' /\ PcType'
      BY <1>0, <1>1 DEF tpsblktime, TimeoutType, WaitType, SendType, HistoryType,
         WatchType, PcType
    <2> QED
      BY <2>4, <2>5 DEF Types
  <1>2. ASSUME NEW f \in {"noflags", "noblock", "notime"}, NEW w \in BOOLEAN, tpacall(f, w)
        PROVE  Types'
    <2>1. first' \in Nat
      BY <1>2, NextBlocktimeType DEF tpacall
    <2>2. SettingsType'
      BY <1>2, TakeTypes DEF tpacall, SettingsType
    <2>3. /\ TimeoutType' /\ WaitType' /\ SendType' /\ WatchType' /\ PcType'
      BY <1>0, <1>2 DEF tpacall, TimeoutType, WaitType, SendType, WatchType, PcType
    <2>4. HistoryType'
      BY <1>0, <1>2, <2>1 DEF tpacall, HistoryType
    <2> QED
      BY <2>2, <2>3, <2>4 DEF Types
  <1>3. CASE msgsnd_notime
    BY <1>3, SentTypes DEF msgsnd_notime
  <1>4. CASE msgsnd_noblock
    BY <1>4, SentTypes, NotSentTypes DEF msgsnd_noblock
  <1>5. CASE msgsnd_timed
    <2>1. CASE Sent
      BY <2>1, SentTypes
    <2>2. CASE ~Sent
      <3>1. /\ SettingsType' /\ TimeoutType' /\ WaitType' /\ HistoryType' /\ WatchType'
        BY <1>0, <1>5, <2>2 DEF msgsnd_timed, SettingsType, TimeoutType, WaitType,
           HistoryType, WatchType
      <3>2. SendType' /\ PcType'
        BY <1>0, <1>5, <2>2, BlocktimeAssumption DEF msgsnd_timed, SendType, PcType
      <3> QED
        BY <3>1, <3>2 DEF Types
    <2> QED
      BY <2>1, <2>2
  <1>6. CASE nanosleep
    <2>1. CASE NotSent
      BY <2>1, NotSentTypes
    <2>2. CASE ~NotSent
      <3>1. /\ SettingsType' /\ TimeoutType' /\ WaitType' /\ HistoryType' /\ WatchType'
        BY <1>0, <1>6, <2>2 DEF nanosleep, SettingsType, TimeoutType, WaitType,
           HistoryType, WatchType
      <3>2. SendType' /\ PcType'
        BY <1>0, <1>6, <2>2 DEF nanosleep, SendType, PcType
      <3> QED
        BY <3>1, <3>2 DEF Types
    <2> QED
      BY <2>1, <2>2
  <1>7. CASE msgsnd_throws
    BY <1>7, NotSentTypes DEF msgsnd_throws
  <1>8. CASE tpgetrply_buffered \/ Room
    <2>1. UNCHANGED <<settings, timeout, rpid, res, sending, history, watchdog, pc>>
      BY <1>8 DEF tpgetrply_buffered, Room
    <2> QED
      BY <1>0, <2>1
      DEF Types, SettingsType, TimeoutType, WaitType, SendType, HistoryType,
          WatchType, PcType
  <1>9. ASSUME NEW a \in BOOLEAN, tpgetrply(a) PROVE Types'
    <2>1. WaitType' /\ SendType' /\ WatchType'
      BY <1>0, <1>9 DEF tpgetrply, WaitType, SendType, WatchType
    <2> QED
      BY <1>9, <2>1, AwaitTypes DEF Types, tpgetrply
  <1>10. CASE qrecv
    <2>1. rpid \in Seq({"reply", "unblock"}) /\ rpid # <<>>
      BY <1>0, <1>10 DEF WaitType, qrecv
    <2>2. Head(rpid) \in {"reply", "unblock"} /\ Tail(rpid) \in Seq({"reply", "unblock"})
      BY <2>1
    <2>3. WaitType'
      BY <1>10, <2>2 DEF qrecv, WaitType, Received
    <2>4. SettingsType' /\ TimeoutType' /\ SendType' /\ HistoryType' /\ WatchType' /\ PcType'
      BY <1>0, <1>10 DEF qrecv, SettingsType, TimeoutType, SendType, HistoryType,
         WatchType, PcType
    <2> QED
      BY <2>3, <2>4 DEF Types
  <1>11. CASE qrecv_throws
    <2>1. SettingsType' /\ TimeoutType' /\ WaitType' /\ SendType' /\ WatchType'
      BY <1>0, <1>11 DEF qrecv_throws, SettingsType, TimeoutType, WaitType, SendType,
         WatchType
    <2> QED
      BY <1>11, <2>1, ReturnTypes DEF Types, qrecv_throws
  <1>12. CASE received
    BY <1>12, ReceivedTypes
  <1>13. CASE reply \/ send_unblock
    <2>1. /\ SettingsType' /\ TimeoutType' /\ SendType' /\ HistoryType' /\ PcType'
      BY <1>0, <1>13 DEF reply, send_unblock, SettingsType, TimeoutType, SendType,
         HistoryType, PcType
    <2>2. rpid' \in Seq({"reply", "unblock"})
      BY <1>0, <1>13 DEF reply, send_unblock, WaitType
    <2>3. WaitType'
      BY <1>0, <1>13, <2>2 DEF reply, send_unblock, WaitType
    <2>4. WatchType'
      BY <1>0, <1>13, BlocktimeAssumption DEF reply, send_unblock, WatchType
    <2> QED
      BY <2>1, <2>3, <2>4 DEF Types
  <1>14. CASE handle_blocktime
    <2>1. /\ SettingsType' /\ TimeoutType' /\ SendType' /\ HistoryType' /\ PcType' /\ WaitType'
      BY <1>0, <1>14 DEF handle_blocktime, SettingsType, TimeoutType, SendType,
         HistoryType, PcType, WaitType
    <2>2. WatchType'
      BY <1>0, <1>14, BlocktimeAssumption DEF handle_blocktime, WatchType
    <2> QED
      BY <2>1, <2>2 DEF Types
  <1>15. CASE tick
    <2>1. SettingsType' /\ PcType' /\ WaitType'
      BY <1>0, <1>15 DEF tick, SettingsType, PcType, WaitType
    <2>2. scan' = Down(scan) /\ nap' = Down(nap) /\ UNCHANGED <<bbl, i>>
      BY <1>15 DEF tick
    <2>3. Down(scan) \in Nat /\ Down(scan) <= scan /\ Down(nap) \in Nat
      BY <1>0 DEF Down, WatchType, SendType
    <2>4. WatchType' /\ SendType'
      BY <1>0, <2>2, <2>3, BlocktimeAssumption DEF WatchType, SendType
    <2>5. left' \in Int /\ elapsed' \in Nat
      BY <1>0, <1>15 DEF tick, TimeoutType, HistoryType
    <2>6. TimeoutType' /\ HistoryType'
      BY <1>0, <1>15, <2>5 DEF tick, TimeoutType, HistoryType
    <2> QED
      BY <2>1, <2>4, <2>6 DEF Types
  <1>16. CASE UNCHANGED vars
    BY <1>0, <1>16
    DEF vars, Types, SettingsType, TimeoutType, WaitType, SendType, HistoryType,
        WatchType, PcType
  <1> QED
    BY <1>1, <1>2, <1>3, <1>4, <1>5, <1>6, <1>7, <1>8, <1>9, <1>10, <1>11, <1>12,
       <1>13, <1>14, <1>15, <1>16 DEF Next

-----------------------------------------------------------------------------
(* The settings *)

\* A call takes a block time, the application sets one, or they stay.
LEMMA SettingsSteps ==
  ASSUME [Next]_vars
  PROVE  \/ UNCHANGED settings
         \/ TakeBlocktime
         \/ \E t \in Times, u \in Unit, w \in What : tpsblktime(t, u, w)
  BY DEF Next, vars, settings, tpacall, msgsnd_notime, msgsnd_noblock, msgsnd_timed,
         nanosleep, msgsnd_throws, NotSent, Sent, Await, Wait, tpgetrply_buffered,
         tpgetrply, qrecv, qrecv_throws, received, timed_out, not_mine, mine, Room,
         reply, handle_blocktime, send_unblock, tick

LEMMA NextSettingsInv == Types /\ SettingsInv /\ [Next]_vars => SettingsInv'
  <1> SUFFICES ASSUME Types, SettingsInv, [Next]_vars, NEW v \in What
               PROVE  (blocktime[v] = IF v = "all" \/ fresh THEN Converted(asked[v]) ELSE 0)'
    BY DEF SettingsInv
  <1>0. SettingsType
    BY DEF Types
  <1>1. CASE UNCHANGED settings
    BY <1>1 DEF settings, SettingsInv, Converted
  <1>2. CASE TakeBlocktime
    <2>1. blocktime'[v] = IF v = "next" THEN 0 ELSE blocktime[v]
      BY <1>0, <1>2 DEF TakeBlocktime, SettingsType, What
    <2>2. ~fresh' /\ asked' = asked
      BY <1>2 DEF TakeBlocktime
    <2> QED
      BY <2>1, <2>2 DEF SettingsInv, Converted, What
  <1>3. ASSUME NEW t \in Times, NEW u \in Unit, NEW w \in What, tpsblktime(t, u, w)
        PROVE  (blocktime[v] = IF v = "all" \/ fresh THEN Converted(asked[v]) ELSE 0)'
    <2>1. /\ blocktime' = [blocktime EXCEPT ![w] = IF u = "second" THEN t * Second ELSE t]
          /\ asked' = [asked EXCEPT ![w] = [unit |-> u, time |-> t]]
          /\ fresh' = (fresh \/ w = "next")
      BY <1>3 DEF tpsblktime
    <2>2. CASE v = w
      <3>1. asked'[v] = [unit |-> u, time |-> t]
        BY <1>0, <2>1, <2>2 DEF SettingsType
      <3>2. blocktime'[v] = IF u = "second" THEN t * Second ELSE t
        BY <1>0, <2>1, <2>2 DEF SettingsType
      <3>3. Converted(asked[v])' = IF u = "second" THEN t * Second ELSE t
        BY <3>1 DEF Converted
      <3>4. v = "all" \/ fresh'
        BY <2>1, <2>2 DEF What
      <3> QED
        BY <3>2, <3>3, <3>4
    <2>3. CASE v # w
      <3>1. asked'[v] = asked[v] /\ blocktime'[v] = blocktime[v]
        BY <1>0, <2>1, <2>3 DEF SettingsType
      <3>2. v = "all" \/ w # "next"
        BY <2>3 DEF What
      <3>3. w # "next" => (fresh' <=> fresh)
        BY <2>1
      <3>4. Converted(asked[v])' = Converted(asked[v])
        BY <3>1 DEF Converted
      <3>5. blocktime[v] = IF v = "all" \/ fresh THEN Converted(asked[v]) ELSE 0
        BY DEF SettingsInv
      <3> QED
        BY <3>1, <3>2, <3>3, <3>4, <3>5
    <2> QED
      BY <2>2, <2>3
  <1> QED
    BY <1>1, <1>2, <1>3, SettingsSteps

LEMMA SettingsRead == Types /\ SettingsInv => ReadsBack
  <1> SUFFICES ASSUME Types, SettingsInv, NEW w \in What
               PROVE  tpgblktime(asked[w].unit, w) =
                        IF w = "all" \/ fresh THEN asked[w].time ELSE 0
    BY DEF ReadsBack
  <1>1. /\ asked[w].unit \in Unit /\ asked[w].time \in Nat /\ Second \in Nat \ {0}
    BY BlocktimeAssumption DEF Types, SettingsType, Setting
  <1>2. (asked[w].time * Second) \div Second = asked[w].time
    BY <1>1, DivExact
  <1>3. 0 \div Second = 0
    BY <1>1
  <1>4. blocktime[w] = IF w = "all" \/ fresh THEN Converted(asked[w]) ELSE 0
    BY DEF SettingsInv
  <1> QED
    BY <1>1, <1>2, <1>3, <1>4 DEF tpgblktime, Converted, Unit

-----------------------------------------------------------------------------
(* Sending *)

LEMMA TimesType == Types => times \in Nat /\ times >= 2
  BY DivBounds, BlocktimeAssumption DEF Types, HistoryType, times

LEMMA NextSendInv == Types /\ SendInv /\ [Next]_vars => SendInv'
  <1> SUFFICES ASSUME Types, SendInv, [Next]_vars PROVE SendInv'
    OBVIOUS
  <1> USE DEF settings, timeout, replies, sending, waiting, watchdog, history
  <1>0. /\ i \in Nat /\ nap \in Nat /\ elapsed \in Nat /\ first \in Nat
        /\ times \in Nat /\ times >= 2 /\ Interval \in Nat \ {0} /\ PcType
    BY TimesType, BlocktimeAssumption DEF Types, SendType, HistoryType
  <1>1. CASE pc' = "idle" /\ elapsed' = 0
    BY <1>1 DEF SendInv
  <1>2. CASE pc' \in {"blocked", "received"}
    BY <1>2 DEF SendInv
  <1>3. CASE UNCHANGED <<pc, i, nap, elapsed, first>>
    BY <1>3 DEF SendInv, times
  <1>4. ASSUME NEW f \in {"noflags", "noblock", "notime"}, NEW w \in BOOLEAN, tpacall(f, w)
        PROVE  SendInv'
    <2>1. elapsed' = 0 /\ i' = 0 /\ pc' = f
      BY <1>4 DEF tpacall, SendInv
    <2>2. first' \in Nat
      BY <1>4, NextBlocktimeType DEF tpacall
    <2>3. first' \div Interval \in Nat
      BY <1>0, <2>2, DivBounds
    <2>4. times' \in Nat /\ times' >= 2
      BY <2>3 DEF times
    <2> QED
      BY <2>1, <2>4 DEF SendInv
  <1>5. CASE msgsnd_timed /\ ~Sent
    <2>1. UNCHANGED <<elapsed, first>> /\ times' = times /\ pc = "noflags"
      BY <1>5 DEF msgsnd_timed, times
    <2>2. CASE i = 0
      <3>1. i' = 1 /\ pc' = "noflags" /\ elapsed' = 0
        BY <1>5, <2>1, <2>2 DEF msgsnd_timed, SendInv
      <3>2. (i' - 1) * Interval = 0
        BY <1>0, <3>1
      <3> QED
        BY <1>0, <2>1, <3>1, <3>2 DEF SendInv
    <2>3. CASE i # 0
      <3>1. i' = i /\ pc' = "sleeping" /\ nap' = Interval
        BY <1>5, <2>3 DEF msgsnd_timed
      <3>2. elapsed = (i - 1) * Interval /\ i + 1 <= times /\ i - 1 \in Nat
        BY <1>0, <2>1, <2>3 DEF SendInv
      <3>3. i * Interval = (i - 1) * Interval + Interval
        BY <1>0, <3>2, NextProduct
      <3> QED
        BY <1>0, <2>1, <2>3, <3>1, <3>2, <3>3 DEF SendInv
    <2> QED
      BY <2>2, <2>3
  <1>6. CASE nanosleep /\ ~NotSent
    <2>1. /\ UNCHANGED <<elapsed, first>> /\ times' = times
          /\ pc = "sleeping" /\ nap = 0 /\ i + 1 < times /\ i' = i + 1 /\ pc' = "noflags"
      BY <1>6 DEF nanosleep, times
    <2>2. elapsed = i * Interval
      BY <1>0, <2>1 DEF SendInv
    <2>3. i' - 1 = i /\ i' # 0 /\ i' + 1 <= times
      BY <1>0, <2>1
    <2> QED
      BY <2>1, <2>2, <2>3 DEF SendInv
  <1>7. CASE tick
    <2>1. pc' = pc /\ i' = i /\ times' = times
      BY <1>7 DEF tick, times
    <2>2. CASE pc = "sleeping"
      <3>1. nap' = nap - 1 /\ elapsed' = elapsed + 1
        BY <1>0, <1>7, <2>2 DEF tick, Down
      <3> QED
        BY <1>0, <2>1, <2>2, <3>1, NextProduct DEF SendInv
    <2>3. CASE pc \in {"idle", "notime"}
      BY <1>7, <2>1, <2>3 DEF tick, SendInv
    <2> QED
      BY <1>2, <1>7, <2>1, <2>2, <2>3 DEF tick
  <1>8. CASE Sent
    BY <1>1, <1>2, <1>8 DEF Sent, Await, Wait, Return
  <1>9. CASE NotSent
    BY <1>1, <1>9 DEF NotSent, Return
  <1>10. CASE received
    BY <1>1, <1>2, <1>10 DEF received, timed_out, mine, not_mine, Wait, Return
  <1>11. ASSUME NEW a \in BOOLEAN, tpgetrply(a) PROVE SendInv'
    BY <1>2, <1>11 DEF tpgetrply, Await, Wait
  <1>12. CASE qrecv \/ qrecv_throws
    BY <1>1, <1>2, <1>12 DEF qrecv, qrecv_throws, Return
  <1>13. ASSUME NEW t \in Times, NEW u \in Unit, NEW w \in What, tpsblktime(t, u, w)
         PROVE  SendInv'
    BY <1>3, <1>13 DEF tpsblktime
  <1>14. CASE tpgetrply_buffered \/ Room \/ reply \/ handle_blocktime \/ send_unblock
    BY <1>3, <1>14 DEF tpgetrply_buffered, Room, reply, handle_blocktime, send_unblock
  <1>15. CASE UNCHANGED vars
    BY <1>3, <1>15 DEF vars
  <1> QED
    BY <1>4, <1>5, <1>6, <1>7, <1>8, <1>9, <1>10, <1>11, <1>12, <1>13, <1>14, <1>15
    DEF Next, msgsnd_notime, msgsnd_noblock, msgsnd_timed, nanosleep, msgsnd_throws

\* A send that gives up has slept times - 1 times.
LEMMA SendTime ==
  ASSUME Types, SendInv, [Next]_vars, SendTimesOut
  PROVE  elapsed \in first..(first + Interval)
  <1>0. /\ i \in Nat /\ elapsed \in Nat /\ first \in Nat /\ Interval \in Nat \ {0}
    BY BlocktimeAssumption DEF Types, SendType, HistoryType
  <1>1. nanosleep /\ i + 1 >= times
    BY DEF SendTimesOut, Next, vars, settings, timeout, replies, sending, waiting,
       watchdog, history, tpsblktime, tpacall, msgsnd_notime, msgsnd_noblock,
       msgsnd_timed, nanosleep, msgsnd_throws, tpgetrply_buffered, tpgetrply, qrecv,
       qrecv_throws, received, Room, reply, handle_blocktime, send_unblock, tick
  <1>2. i + 1 <= times /\ elapsed = i * Interval
    BY <1>0 DEF SendInv, SendTimesOut
  <1>3. i = first \div Interval + 1
    BY <1>0, <1>1, <1>2, DivBounds DEF times
  <1>4. /\ (first \div Interval) \in Nat /\ (first \div Interval) * Interval <= first
        /\ first < (first \div Interval + 1) * Interval
    BY <1>0, DivBounds
  <1>5. i * Interval = (first \div Interval) * Interval + Interval
    BY <1>0, <1>3, <1>4, NextProduct
  <1>6. first <= i * Interval
    BY <1>0, <1>3, <1>4, NextProduct
  <1>7. i * Interval <= first + Interval
    BY <1>0, <1>4, <1>5, NextProduct
  <1> QED
    BY <1>0, <1>2, <1>6, <1>7

-----------------------------------------------------------------------------
(* tpgetrply is not early *)

LEMMA AwaitEarly ==
  ASSUME Types, NEW a \in BOOLEAN, Await(a), UNCHANGED <<rpid, bbl, res>>, res = "none"
  PROVE  EarlyInv'
  <1>0. next_blocktime \in Nat
    BY NextBlocktimeType
  <1>1. /\ armed' /\ left' = next_blocktime /\ elapsed' = 0 /\ least' = next_blocktime
        /\ pc' = "blocked"
    BY DEF Await, Wait
  <1>2. DOMAIN rpid = 1..Len(rpid)
    BY DEF Types, WaitType
  <1>3. UnderWay' => stale'
    BY <1>2 DEF Await, UnderWay
  <1> QED
    BY <1>0, <1>1, <1>3 DEF EarlyInv, Early, Getrply

\* A reply to another call restarts the wait.
LEMMA NotMineEarly ==
  ASSUME Types, EarlyInv, received, not_mine
  PROVE  EarlyInv'
  <1>0. next_blocktime \in Nat /\ elapsed \in Nat /\ least \in Nat
    BY NextBlocktimeType DEF Types, HistoryType
  <1>1. /\ armed' /\ left' = next_blocktime /\ elapsed' = elapsed /\ stale' = stale
        /\ least' = IF next_blocktime < least THEN next_blocktime ELSE least
    BY DEF not_mine, Wait
  <1>2. pc = "received" /\ res' = "none" /\ UNCHANGED <<rpid, bbl>>
    BY DEF received, watchdog
  <1>3. UnderWay' <=> UnderWay
    BY <1>2 DEF UnderWay
  <1>4. ~stale /\ UnderWay => elapsed >= least
    BY <1>2 DEF EarlyInv, Early, Getrply
  <1>5. Early'
    BY <1>0, <1>1, <1>2, <1>3, <1>4 DEF Early
  <1> QED
    BY <1>2, <1>5 DEF EarlyInv

LEMMA NextEarlyInv == Types /\ EarlyInv /\ [Next]_vars => EarlyInv'
  <1> SUFFICES ASSUME Types, EarlyInv, [Next]_vars PROVE EarlyInv'
    OBVIOUS
  <1> USE DEF settings, timeout, replies, sending, waiting, watchdog, history
  <1>0. /\ left \in Int /\ elapsed \in Nat /\ least \in Nat
        /\ rpid \in Seq({"reply", "unblock"}) /\ Len(rpid) \in Nat
    BY DEF Types, TimeoutType, HistoryType, WaitType
  <1>1. CASE pc' \notin {"blocked", "received"} /\ res' = "none"
    BY <1>1 DEF EarlyInv, Getrply
  <1>2. CASE UNCHANGED <<pc, res, timeout, elapsed, least, stale, rpid, bbl>>
    BY <1>2 DEF EarlyInv, Early, Getrply, UnderWay
  <1>3. ASSUME NEW f \in {"noflags", "noblock", "notime"}, NEW w \in BOOLEAN, tpacall(f, w)
        PROVE  EarlyInv'
    BY <1>1, <1>3 DEF tpacall, EarlyInv
  <1>4. CASE pc # "received" /\ Sent
    <2>1. res = "none" /\ UNCHANGED <<rpid, bbl, res>>
      BY <1>4 DEF Sent, EarlyInv
    <2>2. CASE then
      BY <1>4, <2>1, <2>2, AwaitEarly DEF Sent
    <2>3. CASE ~then
      BY <1>1, <1>4, <2>1, <2>3 DEF Sent, Return
    <2> QED
      BY <2>2, <2>3
  <1>5. CASE pc # "received" /\ NotSent
    BY <1>1, <1>5 DEF NotSent, Return, EarlyInv
  <1>6. CASE msgsnd_timed /\ ~Sent
    BY <1>1, <1>6 DEF msgsnd_timed, EarlyInv
  <1>7. CASE nanosleep /\ ~NotSent
    BY <1>1, <1>7 DEF nanosleep, EarlyInv
  <1>8. ASSUME NEW a \in BOOLEAN, tpgetrply(a) PROVE EarlyInv'
    BY <1>8, AwaitEarly DEF tpgetrply, EarlyInv
  <1>9. CASE qrecv
    <2>1. /\ pc = "blocked" /\ pc' = "received" /\ rpid # <<>> /\ res' = Head(rpid)
          /\ rpid' = Tail(rpid) /\ UNCHANGED <<armed, left, elapsed, least, stale, bbl>>
      BY <1>9 DEF qrecv
    <2>2. /\ Len(rpid) > 0 /\ Head(rpid) = rpid[1] /\ Len(rpid') = Len(rpid) - 1
          /\ \A k \in 1..Len(rpid') : rpid'[k] = rpid[k + 1] /\ k + 1 \in 1..Len(rpid)
      BY <1>0, <2>1
    <2>3. UnderWay' \/ res' = "unblock" => UnderWay
      BY <1>0, <2>1, <2>2 DEF UnderWay
    <2>4. Early
      BY <2>1 DEF EarlyInv, Getrply
    <2>5. Early'
      BY <2>1, <2>3, <2>4 DEF Early
    <2> QED
      BY <2>1, <2>5 DEF EarlyInv
  <1>10. CASE qrecv_throws
    BY <1>1, <1>10 DEF qrecv_throws, Return, EarlyInv
  <1>11. CASE received
    <2>1. CASE timed_out \/ mine
      BY <1>1, <1>11, <2>1 DEF received, timed_out, mine, Return
    <2> QED
      BY <1>11, <2>1, NotMineEarly DEF received
  <1>12. CASE reply
    <2>1. /\ rpid' = Append(rpid, "reply")
          /\ UNCHANGED <<pc, res, armed, left, elapsed, least, stale, bbl>>
      BY <1>12 DEF reply
    <2>2. /\ Len(rpid') = Len(rpid) + 1 /\ rpid'[Len(rpid) + 1] = "reply"
          /\ \A k \in 1..Len(rpid) : rpid'[k] = rpid[k]
      BY <1>0, <2>1
    <2>3. UnderWay' => UnderWay
      BY <1>0, <2>1, <2>2 DEF UnderWay
    <2> QED
      BY <2>1, <2>3 DEF EarlyInv, Early, Getrply
  <1>13. CASE send_unblock
    <2>1. /\ bbl = "send" /\ UNCHANGED <<pc, res, armed, left, elapsed, least, stale>>
      BY <1>13 DEF send_unblock
    <2>2. UnderWay
      BY <2>1 DEF UnderWay
    <2> QED
      BY <2>1, <2>2 DEF EarlyInv, Early, Getrply
  <1>14. CASE handle_blocktime
    <2>1. UNCHANGED <<pc, res, armed, left, elapsed, least, stale, rpid>>
      BY <1>14 DEF handle_blocktime
    <2>2. bbl' = bbl \/ left < 0
      BY <1>14 DEF handle_blocktime
    <2>3. UnderWay' => UnderWay \/ left < 0
      BY <2>1, <2>2 DEF UnderWay
    <2> QED
      BY <2>1, <2>3 DEF EarlyInv, Early, Getrply
  <1>15. CASE tick
    <2>1. pc # "received" /\ UNCHANGED <<pc, res, armed, least, stale, rpid, bbl>>
      BY <1>15 DEF tick
    <2>2. UnderWay' <=> UnderWay
      BY <2>1 DEF UnderWay
    <2>3. CASE pc = "blocked"
      <3>1. /\ elapsed' = elapsed + 1
            /\ left' = IF armed /\ left >= 0 THEN left - 1 ELSE left
        BY <1>15, <2>3 DEF tick
      <3>2. Early /\ res = "none"
        BY <2>3 DEF EarlyInv, Getrply
      <3>3. Early'
        BY <1>0, <2>1, <2>2, <3>1, <3>2 DEF Early
      <3> QED
        BY <2>1, <3>2, <3>3 DEF EarlyInv
    <2>4. CASE pc # "blocked"
      BY <1>1, <2>1, <2>4 DEF EarlyInv
    <2> QED
      BY <2>3, <2>4
  <1>16. ASSUME NEW t \in Times, NEW u \in Unit, NEW w \in What, tpsblktime(t, u, w)
         PROVE  EarlyInv'
    BY <1>2, <1>16 DEF tpsblktime
  <1>17. CASE tpgetrply_buffered \/ Room \/ UNCHANGED vars
    BY <1>2, <1>17 DEF tpgetrply_buffered, Room, vars
  <1> QED
    BY <1>3, <1>4, <1>5, <1>6, <1>7, <1>8, <1>9, <1>10, <1>11, <1>12, <1>13, <1>14,
       <1>15, <1>16, <1>17
    DEF Next, msgsnd_notime, msgsnd_noblock, msgsnd_timed, nanosleep, msgsnd_throws

-----------------------------------------------------------------------------
(* tpgetrply is not late *)

\* A wait begins with all of its time to go.
LEMMA WaitLate ==
  ASSUME Types, Types', Wait, UNCHANGED <<bbl, scan>>, NEW e \in Nat, NEW a \in Nat,
         elapsed' = e, e <= a, allowed' = a + next_blocktime + Slack
  PROVE  LateInv'
  <1>0. next_blocktime \in Nat /\ Slack \in Nat
    BY NextBlocktimeType, BlocktimeAssumption DEF Slack
  <1>1. left' = next_blocktime
    BY DEF Wait
  <1>2. scan \in Nat /\ (bbl = "send" => scan <= Slack)
    BY BlocktimeAssumption DEF Types, WatchType, Slack
  <1>3. ToGo' \in Nat /\ ToGo' <= next_blocktime + Slack
    BY <1>0, <1>1, <1>2 DEF ToGo
  <1>4. elapsed' <= allowed' /\ elapsed' + ToGo' <= allowed'
    <2>1. PICK g \in Nat : g = ToGo'
      BY <1>3
    <2>2. g <= next_blocktime + Slack
      BY <1>3, <2>1
    <2>3. elapsed' <= allowed' /\ elapsed' + g <= allowed'
      BY <1>0, <2>2
    <2> QED
      BY <2>1, <2>3
  <1>5. Late'
    BY <1>4 DEF Late
  <1> QED
    BY <1>5 DEF LateInv

LEMMA NextLateInv == Types /\ EarlyInv /\ LateInv /\ [Next]_vars => LateInv'
  <1> SUFFICES ASSUME Types, EarlyInv, LateInv, [Next]_vars PROVE LateInv'
    OBVIOUS
  <1> USE DEF settings, timeout, replies, sending, waiting, watchdog, history
  <1>0. /\ left \in Int /\ elapsed \in Nat /\ allowed \in Nat /\ scan \in Nat
        /\ bbl \in {"asleep", "send"} /\ (bbl = "asleep" => scan <= Second)
        /\ rpid \in Seq({"reply", "unblock"}) /\ Len(rpid) \in Nat /\ Types'
        /\ Second \in Nat /\ Delay \in Nat
    BY NextTypes, BlocktimeAssumption DEF Types, TimeoutType, HistoryType, WaitType, WatchType
  <1>1. CASE pc' \notin {"blocked", "received"}
    BY <1>1 DEF LateInv, Getrply
  <1>2. CASE UNCHANGED <<pc, left, elapsed, allowed, rpid, bbl, scan>>
    BY <1>2 DEF LateInv, Late, Getrply, ToGo
  <1>3. ASSUME NEW a \in BOOLEAN, Await(a), UNCHANGED <<bbl, scan>> PROVE LateInv'
    <2>1. Wait /\ elapsed' = 0 /\ allowed' = next_blocktime + Slack
      BY <1>3 DEF Await
    <2>2. allowed' = 0 + next_blocktime + Slack
      BY <2>1, NextBlocktimeType
    <2> QED
      BY <1>0, <1>3, <2>1, <2>2, WaitLate
  <1>4. ASSUME NEW f \in {"noflags", "noblock", "notime"}, NEW w \in BOOLEAN, tpacall(f, w)
        PROVE  LateInv'
    BY <1>1, <1>4 DEF tpacall
  <1>5. CASE Sent
    BY <1>1, <1>3, <1>5 DEF Sent, Return
  <1>6. CASE NotSent
    BY <1>1, <1>6 DEF NotSent, Return
  <1>7. CASE (msgsnd_timed /\ ~Sent) \/ (nanosleep /\ ~NotSent)
    BY <1>1, <1>7 DEF msgsnd_timed, nanosleep
  <1>8. ASSUME NEW a \in BOOLEAN, tpgetrply(a) PROVE LateInv'
    BY <1>3, <1>8 DEF tpgetrply
  <1>9. CASE qrecv
    <2>1. pc = "blocked" /\ pc' = "received" /\ UNCHANGED <<elapsed, allowed>>
      BY <1>9 DEF qrecv
    <2> QED
      BY <2>1 DEF LateInv, Late, Getrply
  <1>10. CASE qrecv_throws
    BY <1>1, <1>10 DEF qrecv_throws, Return
  <1>11. CASE received
    <2>1. CASE timed_out \/ mine
      BY <1>1, <2>1 DEF timed_out, mine, Return
    <2>2. CASE not_mine
      <3>1. elapsed <= allowed
        BY <1>11 DEF received, LateInv, Late, Getrply
      <3>2. /\ Wait /\ elapsed' = elapsed /\ UNCHANGED <<bbl, scan>>
            /\ allowed' = allowed + next_blocktime + Slack
        BY <1>11, <2>2 DEF received, not_mine
      <3> QED
        BY <1>0, <3>1, <3>2, WaitLate
    <2> QED
      BY <1>11, <2>1, <2>2 DEF received
  <1>12. CASE reply \/ send_unblock
    <2>1. UNCHANGED <<pc, elapsed, allowed>>
      BY <1>12 DEF reply, send_unblock
    <2>2. rpid' # <<>>
      BY <1>0, <1>12 DEF reply, send_unblock
    <2> QED
      BY <2>1, <2>2 DEF LateInv, Late, Getrply
  <1>13. CASE handle_blocktime
    <2>1. /\ UNCHANGED <<pc, armed, left, elapsed, allowed, rpid>>
          /\ bbl = "asleep" /\ scan = 0
          /\ \/ armed /\ left < 0 /\ bbl' = "send" /\ scan' = Delay
             \/ ~(armed /\ left < 0) /\ bbl' = bbl
      BY <1>13 DEF handle_blocktime
    <2>2. Getrply => armed
      BY DEF EarlyInv, Early
    <2>3. Getrply => ToGo' = ToGo
      BY <1>0, <2>1, <2>2 DEF ToGo
    <2> QED
      BY <2>1, <2>3 DEF LateInv, Late, Getrply
  <1>14. CASE tick
    <2> SUFFICES ASSUME pc = "blocked" PROVE Late'
      BY <1>14 DEF tick, LateInv, Getrply
    <2>1. /\ rpid = <<>> /\ UNCHANGED <<pc, rpid, bbl, allowed, armed>> /\ elapsed' = elapsed + 1
          /\ left' = IF armed /\ left >= 0 THEN left - 1 ELSE left
      BY <1>14 DEF tick
    <2>2. armed /\ elapsed + ToGo <= allowed
      BY <2>1 DEF EarlyInv, Early, LateInv, Late, Getrply
    <2>3. Len(rpid) = 0
      BY <2>1
    <2>4. scan > 0 /\ scan' = scan - 1
      BY <1>0, <1>14, <2>3, BlocktimeAssumption DEF tick, Down
    <2>5. ToGo' \in Nat /\ ToGo' + 1 <= ToGo /\ ToGo \in Nat
      BY <1>0, <2>1, <2>2, <2>4 DEF ToGo, Slack
    <2>6. elapsed' <= allowed' /\ elapsed' + ToGo' <= allowed'
      <3>1. PICK g \in Nat, h \in Nat : g = ToGo /\ h = ToGo'
        BY <2>5
      <3>2. h + 1 <= g /\ elapsed + g <= allowed
        BY <2>2, <2>5, <3>1
      <3>3. elapsed' <= allowed' /\ elapsed' + h <= allowed'
        BY <1>0, <2>1, <3>2
      <3> QED
        BY <3>1, <3>3
    <2> QED
      BY <2>6 DEF Late
  <1>15. ASSUME NEW t \in Times, NEW u \in Unit, NEW w \in What, tpsblktime(t, u, w)
         PROVE  LateInv'
    BY <1>2, <1>15 DEF tpsblktime
  <1>16. CASE tpgetrply_buffered \/ Room \/ UNCHANGED vars
    BY <1>2, <1>16 DEF tpgetrply_buffered, Room, vars
  <1> QED
    BY <1>4, <1>5, <1>6, <1>7, <1>8, <1>9, <1>10, <1>11, <1>12, <1>13, <1>14, <1>15,
       <1>16
    DEF Next, msgsnd_notime, msgsnd_noblock, msgsnd_timed, nanosleep, msgsnd_throws

-----------------------------------------------------------------------------
(* Theorems *)

LEMMA InitBlockInv == Init => BlockInv
  <1> SUFFICES ASSUME Init PROVE BlockInv
    OBVIOUS
  <1>1. SettingsType
    BY DEF Init, SettingsType, Setting, What, Unit
  <1>a. armed \in BOOLEAN /\ stale \in BOOLEAN /\ PcType
    BY Zenon DEF Init, PcType
  <1>2. TimeoutType /\ WaitType /\ SendType /\ HistoryType /\ WatchType /\ PcType
    BY <1>a, BlocktimeAssumption DEF Init, TimeoutType, WaitType, Received, SendType,
       HistoryType, WatchType
  <1>3. SettingsInv
    BY BlocktimeAssumption DEF Init, SettingsInv, Converted, What
  <1>4. SendInv /\ EarlyInv /\ LateInv
    BY DEF Init, SendInv, EarlyInv, LateInv, Getrply
  <1> QED
    BY <1>1, <1>2, <1>3, <1>4 DEF BlockInv, Types

\* The inductive invariant of the block times: what the settings, the attempts
\* of msgsnd_timed, the armed time-out and the watchdog's next scan have to do
\* with the time that has passed.
THEOREM BlockInvariant == Spec => []BlockInv
  <1>1. BlockInv /\ [Next]_vars => BlockInv'
    BY NextTypes, NextSettingsInv, NextSendInv, NextEarlyInv, NextLateInv DEF BlockInv
  <1> QED
    BY <1>1, InitBlockInv, PTL DEF Spec

\* tpgblktime reports what tpsblktime was given, in the same unit, until a call
\* consumes it, for every time and every length of a second (client.cpp).
THEOREM BlocktimeReadsBack == Spec => []ReadsBack
  <1>1. BlockInv => ReadsBack
    BY SettingsRead DEF BlockInv
  <1> QED
    BY <1>1, BlockInvariant, PTL

\* tpgetrply blocks no longer than its block times, each followed by at most
\* one sleep and one delay of the watchdog (client.cpp, BBL.cpp).
THEOREM GetrplyIsNotLate == Spec => []GetrplyNotLate
  <1>1. BlockInv => GetrplyNotLate
    BY DEF BlockInv, LateInv, Late, Getrply, GetrplyNotLate
  <1> QED
    BY <1>1, BlockInvariant, PTL

\* A send that fails with TPETIME tried for its block time and for less than
\* another interval or exactly one (ipc.cpp msgsnd_timed).
THEOREM SendKeepsItsTime == Spec => SendKeepsTime
  <1>1. BlockInv /\ [Next]_vars =>
          [SendTimesOut => elapsed \in first..(first + Interval)]_vars
    BY SendTime DEF BlockInv
  <1> QED
    BY <1>1, BlockInvariant, PTL DEF Spec, SendKeepsTime

\* tpgetrply fails with TPETIME only once the shortest block time it waited
\* with is over, unless an older message of the watchdog was under way when it
\* began (client.cpp, BBL.cpp handle_blocktime).
THEOREM GetrplyIsNotEarly == Spec => GetrplyNotEarly
  <1>1. BlockInv /\ [Next]_vars => [GetrplyTimesOut /\ ~stale => elapsed >= least]_vars
    BY DEF BlockInv, EarlyInv, Early, Getrply, GetrplyTimesOut
  <1> QED
    BY <1>1, BlockInvariant, PTL DEF Spec, GetrplyNotEarly
=============================================================================
