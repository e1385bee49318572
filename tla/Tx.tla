--------------------------------- MODULE Tx ---------------------------------
(***************************************************************************)
(* Global transactions: the TX state machine of one application thread and *)
(* its two-phase commit, src/src/tx.cpp, over the transaction table of     *)
(* src/src/trx.h.  The thread belongs to group g0; services of other       *)
(* groups join the transaction when it calls them; the TM service of each  *)
(* group executes prepare, commit and rollback against the group's         *)
(* resource manager, which is outside of this code and is modelled by what *)
(* an XA switch may answer.                                                *)
(*                                                                         *)
(* Nothing in the program calls transaction_table::end, so entries are     *)
(* never freed: a transaction and its slot have the same number here.      *)
(***************************************************************************)
EXTENDS Integers, Sequences, FiniteSets, Functions

CONSTANTS Groups,       \* the groups, numbered in the order of the bulletin board
          g0,           \* the group of the thread
          TableSize,    \* 100: entries of the transaction table
          Scenarios     \* the sets of circumstances a behaviour may have

Circumstances ==
  {"HonoursFail",  \* xa_end(TMFAIL) makes a branch rollback-only
   "RMFails",      \* xa_start and xa_end may fail
   "Heuristic",    \* xa_commit may find the branch rolled back
   "SendFails",    \* a call to a TM may fail
   "Interrupts",   \* signals interrupt the wait for a reply
   "Chains",       \* the application uses chained transactions
   "Nests"}        \* it calls tx_begin within a transaction

ASSUME TxAssumption ==
  /\ g0 \in Groups /\ IsFiniteSet(Groups) /\ Groups \subseteq Nat \ {0}
  /\ TableSize \in Nat \ {0}
  /\ Scenarios \subseteq SUBSET Circumstances

VARIABLES
  ctx,       \* tx_context of the thread: state, info.xid, gttid
  saved,     \* transactions set aside with tpsuspend
  table,     \* the transaction table: slot -> groups that have joined
  br,        \* resource managers: group -> transaction -> branch
  co,        \* tx_commit or tx_rollback in progress
  requests,  \* calls to TMs not yet executed
  replies,   \* replies of TMs not yet received
  lastcd,    \* the last call descriptor used
  outcome,   \* history: what tx_commit or tx_rollback returned
  may        \* the circumstances of this behaviour

rest == <<requests, replies, lastcd, outcome, may>>
vars == <<ctx, saved, table, br, co, requests, replies, lastcd, outcome, may>>

Xid == 1..TableSize
NoTrx == 0                         \* formatID -1, bad_gttid
State == {"s0", "s1", "s2", "s3", "s4"}
InTrx == {"s3", "s4"}
Branch == {"none", "active", "suspended", "idle", "failed", "prepared",
           "readonly", "committed", "aborted"}
Func == {"prepare", "commit", "rollback"}
Ret == {"ok", "rdonly", "rb", "err"}
Part == [cd : Nat \cup {-1}, result : Ret]
NoParts == [g \in {} |-> [cd |-> 0, result |-> "ok"]]
Idle == [op |-> "none", phase |-> "none", xid |-> NoTrx, parts |-> NoParts,
         pending |-> 0, buf |-> "absent"]

TypeOK ==
  /\ ctx \in [state : State, xid : Xid \cup {NoTrx}, gttid : Xid \cup {NoTrx}]
  /\ saved \subseteq Xid
  /\ table \in Seq(SUBSET Groups) /\ Len(table) <= TableSize
  /\ br \in [Groups -> [Xid -> Branch]]
  /\ \E P \in SUBSET Groups :
       co \in [op : {"none", "commit", "rollback"}, phase : {"none"} \cup Func
                 \cup {"terminated"}, xid : Xid \cup {NoTrx}, parts : [P -> Part],
               pending : Int, buf : Ret \cup {"absent"}]
  /\ requests \subseteq [cd : Nat, grp : Groups, func : Func, xid : Xid]
  /\ replies \subseteq [cd : Nat, ret : Ret]
  /\ lastcd \in Nat
  /\ outcome \in [Xid -> {"none", "committed", "failed", "rolledback", "error"}]
  /\ may \in Scenarios

Init ==
  /\ ctx = [state |-> "s0", xid |-> NoTrx, gttid |-> NoTrx]
  /\ saved = {}
  /\ table = <<>>
  /\ br = [g \in Groups |-> [x \in Xid |-> "none"]]
  /\ co = Idle
  /\ requests = {}
  /\ replies = {}
  /\ lastcd = 0
  /\ outcome = [x \in Xid |-> "none"]
  /\ may \in Scenarios

-----------------------------------------------------------------------------
(* The TX interface up to commit.  The thread is single: while co is in     *)
(* progress it does nothing else.                                           *)

Thread == co.phase = "none"
Outcomes == IF "RMFails" \in may THEN {TRUE, FALSE} ELSE {TRUE}
Chained(s) == s \in {"s2", "s4"}

\* Mutant: xa_start succeeds and the state stays.
Enter_none(s) == s

Enter(s) == IF Chained(s) THEN "s4" ELSE "s3"
Leave(s) == IF Chained(s) THEN "s2" ELSE "s1"

tx_open ==
  /\ Thread
  /\ ctx.state = "s0"
  /\ ctx' = [state |-> "s1", xid |-> NoTrx, gttid |-> NoTrx]
  /\ UNCHANGED <<saved, table, br, co, rest>>

tx_close ==
  /\ Thread
  /\ ctx.state \in {"s1", "s2"}
  /\ ctx' = [ctx EXCEPT !.state = "s0"]
  /\ UNCHANGED <<saved, table, br, co, rest>>

tx_set_transaction_control ==
  /\ "Chains" \in may
  /\ Thread
  /\ ctx.state # "s0"
  /\ ctx' = [ctx EXCEPT !.state =
               CASE @ = "s1" -> "s2" [] @ = "s2" -> "s1"
                 [] @ = "s3" -> "s4" [] @ = "s4" -> "s3"]
  /\ UNCHANGED <<saved, table, br, co, rest>>

\* tx_begin, for a thread in context c: the slot is taken and gttid set before
\* the state is looked at; xid is set before xa_start is called.
Started(c, ok) ==
  LET x == Len(table) + 1
  IN IF c.state \in InTrx \cup {"s0"} THEN [c EXCEPT !.gttid = x]
     ELSE [state |-> IF ok THEN Enter(c.state) ELSE c.state,
           xid |-> x, gttid |-> x]

\* transaction_table::start
start == table' = Append(table, {g0})

\* Mutant: the size is compared after the entry is taken.
Full_late == Len(table) > TableSize

Full == Len(table) = TableSize

\* An exception leaves a function of the C interface.
Terminate == co' = [co EXCEPT !.phase = "terminated"]

tx_begin ==
  /\ Thread
  /\ ctx.state \in InTrx => "Nests" \in may
  /\ \/ /\ Full
        /\ Terminate
        /\ UNCHANGED <<ctx, table, br>>
     \/ /\ ~Full
        /\ start
        /\ \E ok \in Outcomes :
             LET x == Len(table) + 1
             IN /\ ctx' = Started(ctx, ok)
                /\ br' = IF ok /\ ctx.state \in {"s1", "s2"}
                         THEN [br EXCEPT ![g0][x] = "active"] ELSE br
        /\ UNCHANGED co
  /\ UNCHANGED <<saved, rest>>

\* Mutant: the joined group is not recorded.
join_unmarked(x, g) == UNCHANGED table

\* transaction_table::join
join(x, g) == table' = [table EXCEPT ![x] = @ \cup {g}]

\* The suspend_guard of tpcall and tpgetrply: the branch is suspended and resumed, and
\* nobody looks at the results.  A resume that fails leaves the thread outside
\* of the transaction it still names; the guard of its next call tries again.
suspend_guard(ended) ==
  LET x == ctx.xid
  IN \/ UNCHANGED ctx /\ br' = ended
     \/ /\ "RMFails" \in may /\ ctx.state \in InTrx /\ x # NoTrx
        /\ ctx' = [ctx EXCEPT !.state = Leave(@)]
        /\ br' = [ended EXCEPT ![g0][x] = "suspended"]
     \/ /\ ctx.state \in {"s1", "s2"} /\ x # NoTrx /\ br[g0][x] = "suspended"
        /\ ctx' = [ctx EXCEPT !.state = Enter(@)]
        /\ br' = [ended EXCEPT ![g0][x] = "active"]

\* A transactional call to a service of group g: the server's tx_join to
\* tpreturn, within the caller's suspend_guard.  tpreturn compares the value it
\* has already translated with TPSUCCESS, so xa_end always gets TMFAIL.
tpcall(g) ==
  /\ Thread
  /\ g # g0
  /\ ctx.xid # NoTrx /\ ctx.gttid # NoTrx
  /\ br[g][ctx.gttid] \in {"none", "idle", "failed"}
  /\ join(ctx.gttid, g)
  /\ suspend_guard([br EXCEPT ![g][ctx.gttid] =
                      IF "HonoursFail" \in may THEN "failed" ELSE "idle"])
  /\ UNCHANGED <<saved, co, rest>>

\* tpsuspend forgets the transaction and its slot.
tpsuspend ==
  /\ Thread
  /\ ctx.state \in InTrx /\ ctx.xid # NoTrx
  /\ saved' = saved \cup {ctx.xid}
  /\ ctx' = [state |-> Leave(ctx.state), xid |-> NoTrx, gttid |-> NoTrx]
  /\ br' = [br EXCEPT ![g0][ctx.xid] = "suspended"]
  /\ UNCHANGED <<table, co, rest>>

\* tpresume knows the transaction but not its slot; xid is set before xa_start
\* is called, and a branch that is not suspended cannot be resumed.
tpresume(x) ==
  /\ Thread
  /\ x \in saved
  /\ ctx.state \in {"s1", "s2"}
  /\ \E ok \in Outcomes :
       IF ok /\ br[g0][x] = "suspended"
       THEN /\ saved' = saved \ {x}
            /\ ctx' = [ctx EXCEPT !.state = Enter(@), !.xid = x]
            /\ br' = [br EXCEPT ![g0][x] = "active"]
       ELSE /\ ctx' = [ctx EXCEPT !.xid = x]
            /\ UNCHANGED <<saved, br>>
  /\ UNCHANGED <<table, co, rest>>

-----------------------------------------------------------------------------
(* tx_commit and tx_rollback *)

\* collect(): the parts of the transaction, no call made yet and results zero,
\* which is XA_OK.
collect(x) == [g \in table[x] |-> [cd |-> 0, result |-> "ok"]]

\* The loop of command() calls the TMs in the order of the groups; the call to
\* group k fails (NoGroup: none does), which ends the loop.
NoGroup == 0
Called(P, k) == IF k = NoGroup THEN P ELSE {g \in P : g < k}
Cd(P, g) == lastcd + Cardinality({h \in P : h <= g})

Calls(parts, k) ==
  [g \in DOMAIN parts |->
     IF g \in Called(DOMAIN parts, k) THEN [parts[g] EXCEPT !.cd = Cd(DOMAIN parts, g)]
     ELSE IF g = k THEN [cd |-> -1, result |-> "err"]
     ELSE parts[g]]

\* Mutant: a call that failed is waited for.
NumSent_all(P, k) == Cardinality(P)

NumSent(P, k) == Cardinality(Called(P, k))

command(op, func, x, parts) ==
  LET P == DOMAIN parts
  IN \E k \in IF "SendFails" \in may THEN P \cup {NoGroup} ELSE {NoGroup} :
       /\ co' = [op |-> op, phase |-> func, xid |-> x, parts |-> Calls(parts, k),
                 pending |-> NumSent(P, k), buf |-> "absent"]
       /\ lastcd' = lastcd + Cardinality(Called(P, k))
       /\ requests' = requests \cup
            {[cd |-> Cd(P, g), grp |-> g, func |-> func, xid |-> x] : g \in Called(P, k)}

FirstPhase(op) == IF op = "commit" THEN "prepare" ELSE "rollback"

\* xa_end; the context forgets the transaction; change_state leaves it, and in
\* chained mode begins the next one; then the first calls.
tx_end(op) ==
  LET x == ctx.xid
      ended == [br EXCEPT ![g0][x] = "idle"]
      left == [state |-> Leave(ctx.state), xid |-> NoTrx, gttid |-> NoTrx]
  IN /\ Thread
     /\ ctx.state \in InTrx /\ x # NoTrx
     /\ \/ /\ ctx.state = "s3"
           /\ ctx' = left
           /\ br' = ended
           /\ command(op, FirstPhase(op), x, collect(x))
           /\ UNCHANGED <<table, outcome>>
        \/ /\ ctx.state = "s4" /\ ~Full
           /\ start
           /\ \E ok \in Outcomes :
                /\ ctx' = Started(left, ok)
                /\ br' = IF ok THEN [ended EXCEPT ![g0][Len(table) + 1] = "active"]
                         ELSE ended
                /\ \/ ok /\ command(op, FirstPhase(op), x, collect(x))
                         /\ UNCHANGED outcome
                   \/ ~ok /\ outcome' = [outcome EXCEPT ![x] = "error"]
                          /\ UNCHANGED <<co, requests, lastcd>>
        \/ /\ ctx.state = "s4" /\ Full
           /\ Terminate
           /\ ctx' = left /\ br' = ended
           /\ UNCHANGED <<table, requests, lastcd, outcome>>
     /\ UNCHANGED <<saved, replies, may>>

\* xa_end failed: the context forgets the transaction and keeps its state.
tx_end_fails ==
  /\ "RMFails" \in may
  /\ Thread
  /\ ctx.state \in InTrx
  /\ ctx' = [ctx EXCEPT !.xid = NoTrx, !.gttid = NoTrx]
  /\ outcome' = IF ctx.xid = NoTrx THEN outcome
                ELSE [outcome EXCEPT ![ctx.xid] = "error"]
  /\ UNCHANGED <<saved, table, br, co, requests, replies, lastcd, may>>

-----------------------------------------------------------------------------
(* The TM service and the resource manager behind it *)

\* Branch and return code after func, for a branch in state b.
Executed(func, b) ==
  CASE func = "prepare" /\ b = "idle" ->
         {<<"prepared", "ok">>, <<"readonly", "rdonly">>, <<"aborted", "rb">>}
    [] func = "prepare" /\ b = "failed" -> {<<"aborted", "rb">>}
    [] func = "commit" /\ b = "prepared" ->
         {<<"committed", "ok">>} \cup
           (IF "Heuristic" \in may THEN {<<"aborted", "err">>} ELSE {})
    [] func = "rollback" /\ b \in {"idle", "failed", "prepared"} ->
         {<<"aborted", "ok">>}
    [] OTHER -> {<<b, "err">>}

TM(m) ==
  /\ \E e \in Executed(m.func, br[m.grp][m.xid]) :
       /\ br' = [br EXCEPT ![m.grp][m.xid] = e[1]]
       /\ replies' = replies \cup {[cd |-> m.cd, ret |-> e[2]]}
  /\ requests' = requests \ {m}
  /\ UNCHANGED <<ctx, saved, table, co, lastcd, outcome, may>>

-----------------------------------------------------------------------------
(* The rest of command(): replies are taken with TPGETANY until none is     *)
(* pending.  In chained mode tpgetrply suspends and resumes the transaction *)
(* that has just begun.                                                     *)

Matched(cd) == {g \in DOMAIN co.parts : co.parts[g].cd = cd}

\* The parts of that descriptor get the result found in the buffer; without
\* one, the exception of buf.get leaves tx_commit.
Store(cd, buf) ==
  IF Matched(cd) # {} /\ buf = "absent"
  THEN Terminate
  ELSE co' = [co EXCEPT
         !.parts = [g \in DOMAIN co.parts |->
            IF g \in Matched(cd) THEN [co.parts[g] EXCEPT !.result = buf]
            ELSE co.parts[g]],
         !.pending = @ - Cardinality(Matched(cd)),
         !.buf = buf]

Waiting == co.phase \in Func /\ co.pending > 0

getrply(r) ==
  /\ Waiting
  /\ replies' = replies \ {r}
  /\ Store(r.cd, r.ret)
  /\ suspend_guard(br)
  /\ UNCHANGED <<saved, table, requests, lastcd, outcome, may>>

\* The watchdog's message: TPGETANY sets cd to 0, the buffer is as it was.
getrply_timeout ==
  /\ Waiting
  /\ Store(0, co.buf)
  /\ suspend_guard(br)
  /\ UNCHANGED <<saved, table, requests, replies, lastcd, outcome, may>>

\* msgrcv was interrupted: tpgetrply fails and cd, never assigned, holds
\* whatever was on the stack.
getrply_interrupted ==
  /\ "Interrupts" \in may
  /\ Waiting
  /\ \E cd \in 0..lastcd : Store(cd, co.buf)
  /\ suspend_guard(br)
  /\ UNCHANGED <<saved, table, requests, replies, lastcd, outcome, may>>

Done(phase) == co.phase = phase /\ co.pending <= 0

\* Mutant: a part that voted for rollback does not count.
Interested_ok(p) == p.result = "ok"

Interested(p) == p.result # "rdonly"

\* tx_commit between the phases: parts that were read-only are left out, one
\* that is not XA_OK turns the commit into a rollback.
decide ==
  /\ Done("prepare")
  /\ LET parts == Restrict(co.parts, {g \in DOMAIN co.parts : Interested(co.parts[g])})
         commit == \A g \in DOMAIN parts : parts[g].result = "ok"
     IN command("commit", IF commit THEN "commit" ELSE "rollback", co.xid, parts)
  /\ UNCHANGED <<ctx, saved, table, br, replies, outcome, may>>

\* The end of tx_commit and tx_rollback.  change_state(TX_OK) finds the state
\* changed already; in chained mode that of the new transaction, which it
\* leaves as if it had ended and begins another.
finish ==
  /\ Done("commit") \/ Done("rollback")
  /\ outcome' = [outcome EXCEPT ![co.xid] =
       IF co.phase = "commit" THEN "committed"
       ELSE IF co.op = "commit" THEN "failed" ELSE "rolledback"]
  /\ LET failed == co.op = "commit" /\ co.phase = "rollback"
     IN \/ /\ failed \/ ctx.state # "s4"
           /\ co' = Idle
           /\ UNCHANGED <<ctx, table, br>>
        \/ /\ ~failed /\ ctx.state = "s4" /\ ~Full
           /\ co' = Idle
           /\ start
           /\ \E ok \in Outcomes :
                /\ ctx' = Started([ctx EXCEPT !.state = "s2"], ok)
                /\ br' = IF ok THEN [br EXCEPT ![g0][Len(table) + 1] = "active"]
                         ELSE br
        \/ /\ ~failed /\ ctx.state = "s4" /\ Full
           /\ Terminate
           /\ ctx' = [ctx EXCEPT !.state = "s2"]
           /\ UNCHANGED <<table, br>>
  /\ UNCHANGED <<saved, requests, replies, lastcd, may>>

-----------------------------------------------------------------------------
Next ==
  \/ tx_open \/ tx_close \/ tx_set_transaction_control \/ tx_begin
  \/ \E g \in Groups : tpcall(g)
  \/ tpsuspend \/ \E x \in saved : tpresume(x)
  \/ \E op \in {"commit", "rollback"} : tx_end(op)
  \/ tx_end_fails
  \/ \E m \in requests : TM(m)
  \/ \E r \in replies : getrply(r)
  \/ getrply_timeout \/ getrply_interrupted \/ decide \/ finish

Spec == Init /\ [][Next]_vars

\* TMs answer what they are sent, and the thread in tx_commit goes on.
Fairness ==
  /\ WF_vars(\E m \in requests : TM(m))
  /\ WF_vars(\E r \in replies : getrply(r))
  /\ WF_vars(decide \/ finish)

FairSpec == Spec /\ Fairness

-----------------------------------------------------------------------------
(* Properties *)

Joined(x) == IF x <= Len(table) THEN table[x] ELSE {}

\* Atomicity: once a branch of a transaction is committed, every group that
\* joined it has voted for commit, however calls to TMs fail and replies are
\* delayed (tx_commit decides on all results of the first phase).  Resource
\* managers that decide by themselves break it, and so does an interrupted
\* wait, which counts whatever descriptor is on the stack (tx.cpp:476).
Atomic ==
  may \cap {"Interrupts", "Heuristic"} = {} =>
    \A x \in Xid : (\E g \in Groups : br[g][x] = "committed") =>
      \A h \in Joined(x) : br[h][x] \in {"prepared", "readonly", "committed"}

\* When tx_commit or tx_rollback returns, no branch is left behind: each group
\* that took part in the transaction has finished it, also in chained mode,
\* with nested tx_begin and with branches decided heuristically, as long as
\* TMs can be called and resource managers start and end their work.
NothingLeft ==
  may \cap {"RMFails", "SendFails", "Interrupts"} = {} =>
    \A x \in Xid : outcome[x] # "none" =>
      \A g \in Groups : br[g][x] \in {"none", "readonly", "committed", "aborted"}

\* tx_commit and tx_rollback return although calls to TMs fail and block times
\* expire.
CommitReturns == (co.phase \in Func) ~> (co.phase \notin Func)

\* tx.cpp:44-51: in S1 and S2 the thread "is not in a transaction", in S3 and
\* S4 it "is in a transaction": the one its resource manager works for.  In
\* chained mode tx_commit begins two transactions and leaves the first to the
\* resource manager for ever (tx.cpp:190), so chained transactions are
\* excepted; a resource manager whose xa_start or xa_end fails is too.
StateMeaning ==
  (Thread /\ may \cap {"RMFails", "Chains"} = {}) =>
    {x \in Xid : br[g0][x] = "active"} =
       IF ctx.state \in InTrx THEN {ctx.xid} ELSE {}
=============================================================================
