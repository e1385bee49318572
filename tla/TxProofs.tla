------------------------------ MODULE TxProofs ------------------------------
(***************************************************************************)
(* Proofs about module Tx, for any number of groups and of transactions    *)
(* and for every set of circumstances: what the states of the TX interface *)
(* mean, that two-phase commit is atomic, and that it leaves no branch.    *)
(***************************************************************************)
EXTENDS Tx, FiniteSetTheorems, TLAPS

-----------------------------------------------------------------------------
(* The table and the branches *)

Branches == [Groups -> [Xid -> Branch]]
Put(b, g, x, v) == [b EXCEPT ![g][x] = v]

\* tx_commit or tx_rollback has ended the work of the thread for x.
EndedIn(b, x) == b[g0][x] \in {"idle", "prepared", "readonly", "committed", "aborted"}
JoinedIn(t, x) == IF x <= Len(t) THEN t[x] ELSE {}

\* A group other than the thread's has a branch when it has joined, and until
\* the transaction has ended a branch is one the thread or a service works on.
World(t, b) ==
  /\ t \in Seq(SUBSET Groups) /\ Len(t) <= TableSize
  /\ b \in Branches
  /\ \A i \in 1..Len(t) : g0 \in t[i]
  /\ \A x \in Xid : b[g0][x] # "none" => x <= Len(t)
  /\ \A g \in Groups \ {g0}, x \in Xid : b[g][x] # "none" <=> g \in JoinedIn(t, x)
  /\ \A x \in Xid : ~EndedIn(b, x) =>
       /\ b[g0][x] \in {"none", "active", "suspended"}
       /\ \A g \in Groups \ {g0} : b[g][x] \in {"none", "idle", "failed"}

\* A thread in a transaction works on the branch of the transaction it names,
\* and services it calls join one that has not ended.
Thinks(c, s, t, b) ==
  /\ c \in [state : State, xid : Xid \cup {NoTrx}, gttid : Xid \cup {NoTrx}]
  /\ s \subseteq Xid
  /\ c.xid <= Len(t) /\ c.gttid <= Len(t)
  /\ \A x \in s : x <= Len(t)
  /\ c.state \in InTrx /\ c.xid # NoTrx => b[g0][c.xid] = "active"
  /\ c.gttid # NoTrx => ~EndedIn(b, c.gttid)

\* Transactions that have ended stay as they are.
Keeps(t, b, u, d) ==
  \A x \in Xid : EndedIn(b, x) =>
    /\ JoinedIn(u, x) = JoinedIn(t, x)
    /\ \A g \in Groups : d[g][x] = b[g][x]

LEMMA PutBranch ==
  ASSUME NEW b \in Branches, NEW g \in Groups, NEW x \in Xid, NEW v \in Branch
  PROVE  /\ Put(b, g, x, v) \in Branches
         /\ \A h \in Groups, y \in Xid :
              Put(b, g, x, v)[h][y] = IF h = g /\ y = x THEN v ELSE b[h][y]
  BY DEF Put, Branches

LEMMA KeepsTransitive ==
  ASSUME NEW t, NEW b, NEW u, NEW d, NEW w, NEW e,
         Keeps(t, b, u, d), Keeps(u, d, w, e)
  PROVE  Keeps(t, b, w, e)
  <1> SUFFICES ASSUME NEW x \in Xid, EndedIn(b, x)
               PROVE  /\ JoinedIn(w, x) = JoinedIn(t, x)
                      /\ \A g \in Groups : e[g][x] = b[g][x]
    BY DEF Keeps
  <1>1. /\ JoinedIn(u, x) = JoinedIn(t, x)
        /\ \A g \in Groups : d[g][x] = b[g][x]
    BY DEF Keeps
  <1>2. EndedIn(d, x)
    BY <1>1, TxAssumption DEF EndedIn
  <1> QED
    BY <1>1, <1>2 DEF Keeps

\* The thread takes a slot and, when xa_start succeeds, begins its branch.
LEMMA StartWorld ==
  ASSUME NEW t, NEW b, World(t, b), Len(t) < TableSize,
         NEW d, d = b \/ d = Put(b, g0, Len(t) + 1, "active")
  PROVE  /\ World(Append(t, {g0}), d)
         /\ Keeps(t, b, Append(t, {g0}), d)
         /\ Len(Append(t, {g0})) = Len(t) + 1
         /\ ~EndedIn(d, Len(t) + 1)
         /\ Len(t) + 1 \in Xid
         /\ \A y \in Xid : y <= Len(t) => d[g0][y] = b[g0][y]
  <1> DEFINE n == Len(t) + 1
             u == Append(t, {g0})
  <1>1. /\ t \in Seq(SUBSET Groups) /\ Len(t) \in Nat /\ n \in Xid /\ "active" \in Branch
        /\ g0 \in Groups /\ b \in Branches
    BY TxAssumption DEF World, Xid, Branch
  <1>2. /\ u \in Seq(SUBSET Groups) /\ Len(u) = n
        /\ \A i \in 1..n : u[i] = IF i = n THEN {g0} ELSE t[i]
    BY <1>1
  <1>3. /\ d \in Branches
        /\ \A h \in Groups, y \in Xid : y # n \/ h # g0 => d[h][y] = b[h][y]
        /\ d[g0][n] \in {b[g0][n], "active"}
    <2>1. CASE d = b
      BY <1>1, <2>1
    <2>2. CASE d = Put(b, g0, n, "active")
      <3> HIDE DEF n
      <3> QED
        BY <1>1, <2>2, PutBranch
    <2> QED
      BY <2>1, <2>2
  <1>4. b[g0][n] = "none" /\ \A g \in Groups \ {g0} : b[g][n] = "none"
    BY <1>1 DEF World, JoinedIn
  <1>5. \A x \in Xid : JoinedIn(u, x) = IF x = n THEN {g0} ELSE JoinedIn(t, x)
    BY <1>1, <1>2 DEF JoinedIn, Xid
  <1> HIDE DEF n, u
  <1>6. ~EndedIn(b, n) /\ ~EndedIn(d, n)
    BY <1>3, <1>4 DEF EndedIn
  <1>7. \A x \in Xid : x # n => (EndedIn(d, x) <=> EndedIn(b, x))
    BY <1>1, <1>3 DEF EndedIn
  <1>8. \A i \in 1..n : g0 \in u[i]
    <2> SUFFICES ASSUME NEW i \in 1..n, i # n PROVE g0 \in t[i]
      BY <1>2
    <2>1. i \in 1..Len(t)
      BY <1>1 DEF n
    <2> QED
      BY <2>1 DEF World
  <1>9. \A x \in Xid : d[g0][x] # "none" => x <= n
    <2> SUFFICES ASSUME NEW x \in Xid, d[g0][x] # "none", x # n PROVE x <= n
      BY <1>1 DEF Xid, n
    <2>1. b[g0][x] # "none"
      BY <1>1, <1>3
    <2>2. x <= Len(t)
      BY <2>1 DEF World
    <2> QED
      BY <1>1, <2>2 DEF n, Xid
  <1>10. \A g \in Groups \ {g0}, x \in Xid : d[g][x] # "none" <=> g \in JoinedIn(u, x)
    <2> SUFFICES ASSUME NEW g \in Groups \ {g0}, NEW x \in Xid
                 PROVE  d[g][x] # "none" <=> g \in JoinedIn(u, x)
      OBVIOUS
    <2>1. d[g][x] = b[g][x]
      BY <1>3
    <2>2. b[g][x] # "none" <=> g \in JoinedIn(t, x)
      BY DEF World
    <2> QED
      BY <1>4, <1>5, <2>1, <2>2
  <1>11. ASSUME NEW x \in Xid, ~EndedIn(d, x)
         PROVE  /\ d[g0][x] \in {"none", "active", "suspended"}
                /\ \A g \in Groups \ {g0} : d[g][x] \in {"none", "idle", "failed"}
    <2>1. CASE x = n
      BY <1>3, <1>4, <2>1
    <2>2. CASE x # n
      BY <1>1, <1>3, <1>7, <1>11, <2>2 DEF World
    <2> QED
      BY <2>1, <2>2
  <1>12. n <= TableSize
    BY <1>1 DEF Xid
  <1>13. World(u, d)
    BY <1>2, <1>3, <1>8, <1>9, <1>10, <1>11, <1>12 DEF World
  <1>14. Keeps(t, b, u, d)
    BY <1>3, <1>5, <1>6 DEF Keeps
  <1>15. \A y \in Xid : y <= Len(t) => d[g0][y] = b[g0][y]
    BY <1>1, <1>3 DEF n, Xid
  <1> QED
    BY <1>1, <1>2, <1>6, <1>13, <1>14, <1>15 DEF n, u

\* A step on one branch: what has to be shown of the world it leaves.
LEMMA PutWorld ==
  ASSUME NEW t, NEW b, World(t, b), NEW g \in Groups, NEW x \in Xid, NEW v \in Branch,
         v = "none" <=> b[g][x] = "none",
         EndedIn(Put(b, g, x, v), x) \/
           IF g = g0 THEN v \in {"none", "active", "suspended"} /\ ~EndedIn(b, x)
                     ELSE v \in {"none", "idle", "failed"}
  PROVE  World(t, Put(b, g, x, v))
  <1> DEFINE d == Put(b, g, x, v)
  <1>1. b \in Branches /\ g0 \in Groups
    BY TxAssumption DEF World
  <1>2. /\ d \in Branches
        /\ \A h \in Groups, y \in Xid : d[h][y] = IF h = g /\ y = x THEN v ELSE b[h][y]
    BY <1>1, PutBranch
  <1> HIDE DEF d
  <1>3. \A h \in Groups, y \in Xid : d[h][y] = "none" <=> b[h][y] = "none"
    BY <1>2
  <1>4. ASSUME NEW y \in Xid, ~EndedIn(d, y)
        PROVE  /\ d[g0][y] \in {"none", "active", "suspended"}
               /\ \A h \in Groups \ {g0} : d[h][y] \in {"none", "idle", "failed"}
    <2>1. CASE y # x
      <3>1. ~EndedIn(b, y)
        BY <1>1, <1>2, <1>4, <2>1 DEF EndedIn
      <3> QED
        BY <1>1, <1>2, <2>1, <3>1 DEF World
    <2>2. CASE y = x /\ g = g0
      <3>1. v \in {"none", "active", "suspended"} /\ ~EndedIn(b, x)
        BY <1>4, <2>2 DEF d
      <3> QED
        BY <1>1, <1>2, <2>2, <3>1 DEF World
    <2>3. CASE y = x /\ g # g0
      <3>1. v \in {"none", "idle", "failed"}
        BY <1>4, <2>3 DEF d
      <3>2. ~EndedIn(b, y)
        BY <1>1, <1>2, <1>4, <2>3 DEF EndedIn
      <3> QED
        BY <1>1, <1>2, <2>3, <3>1, <3>2 DEF World
    <2> QED
      BY <2>1, <2>2, <2>3
  <1>5. \A y \in Xid : d[g0][y] # "none" => y <= Len(t)
    BY <1>1, <1>3 DEF World
  <1>6. \A h \in Groups \ {g0}, y \in Xid : d[h][y] # "none" <=> h \in JoinedIn(t, y)
    BY <1>3 DEF World
  <1>7. World(t, d)
    BY <1>2, <1>4, <1>5, <1>6 DEF World
  <1> QED
    BY <1>7 DEF d

\* The thread suspends or resumes its branch.
LEMMA OwnWorld ==
  ASSUME NEW t, NEW b, World(t, b), NEW x \in Xid, b[g0][x] \in {"active", "suspended"},
         NEW v \in {"active", "suspended"}
  PROVE  /\ World(t, Put(b, g0, x, v))
         /\ Keeps(t, b, t, Put(b, g0, x, v))
         /\ \A y \in Xid : /\ EndedIn(Put(b, g0, x, v), y) <=> EndedIn(b, y)
                           /\ Put(b, g0, x, v)[g0][y] = IF y = x THEN v ELSE b[g0][y]
  <1>1. b \in Branches /\ g0 \in Groups /\ v \in Branch /\ v # "none"
    BY TxAssumption DEF World, Branch
  <1>2. ~EndedIn(b, x)
    BY DEF EndedIn
  <1>3. World(t, Put(b, g0, x, v))
    BY <1>1, <1>2, PutWorld
  <1>4. \A h \in Groups, y \in Xid :
          Put(b, g0, x, v)[h][y] = IF h = g0 /\ y = x THEN v ELSE b[h][y]
    BY <1>1, PutBranch
  <1>5. \A y \in Xid : EndedIn(Put(b, g0, x, v), y) <=> EndedIn(b, y)
    BY <1>1, <1>2, <1>4 DEF EndedIn
  <1>6. Keeps(t, b, t, Put(b, g0, x, v))
    BY <1>2, <1>4 DEF Keeps
  <1> QED
    BY <1>1, <1>3, <1>4, <1>5, <1>6

\* xa_end of tx_commit and tx_rollback.
LEMMA EndWorld ==
  ASSUME NEW t, NEW b, World(t, b), NEW x \in Xid, b[g0][x] = "active"
  PROVE  /\ World(t, Put(b, g0, x, "idle"))
         /\ Keeps(t, b, t, Put(b, g0, x, "idle"))
         /\ \A y \in Xid :
              /\ EndedIn(Put(b, g0, x, "idle"), y) <=> y = x \/ EndedIn(b, y)
              /\ \A g \in Groups : Put(b, g0, x, "idle")[g][y] =
                                     IF g = g0 /\ y = x THEN "idle" ELSE b[g][y]
  <1>1. b \in Branches /\ g0 \in Groups /\ "idle" \in Branch
    BY TxAssumption DEF World, Branch
  <1>2. ~EndedIn(b, x)
    BY DEF EndedIn
  <1>4. \A h \in Groups, y \in Xid :
          Put(b, g0, x, "idle")[h][y] = IF h = g0 /\ y = x THEN "idle" ELSE b[h][y]
    BY <1>1, PutBranch
  <1>5. \A y \in Xid : EndedIn(Put(b, g0, x, "idle"), y) <=> y = x \/ EndedIn(b, y)
    BY <1>1, <1>2, <1>4 DEF EndedIn
  <1>3. World(t, Put(b, g0, x, "idle"))
    BY <1>1, <1>5, PutWorld
  <1>6. Keeps(t, b, t, Put(b, g0, x, "idle"))
    BY <1>2, <1>4 DEF Keeps
  <1> QED
    BY <1>3, <1>4, <1>5, <1>6

\* A service of another group joins and ends its part of the work.
LEMMA JoinWorld ==
  ASSUME NEW t, NEW b, World(t, b), NEW x \in Xid, x <= Len(t), ~EndedIn(b, x),
         NEW g \in Groups \ {g0}, NEW v \in {"idle", "failed"}
  PROVE  LET u == [t EXCEPT ![x] = @ \cup {g}]
             d == Put(b, g, x, v)
         IN  /\ World(u, d) /\ Keeps(t, b, u, d) /\ Len(u) = Len(t)
             /\ \A y \in Xid : d[g0][y] = b[g0][y]
  <1> DEFINE u == [t EXCEPT ![x] = @ \cup {g}]
             d == Put(b, g, x, v)
  <1>1. /\ b \in Branches /\ g0 \in Groups /\ v \in Branch /\ t \in Seq(SUBSET Groups)
        /\ x \in 1..Len(t) /\ Len(t) \in Nat
    BY TxAssumption DEF World, Branch, Xid
  <1>2. /\ u \in Seq(SUBSET Groups) /\ Len(u) = Len(t)
        /\ \A i \in 1..Len(t) : u[i] = IF i = x THEN t[i] \cup {g} ELSE t[i]
    <2>1. DOMAIN t = 1..Len(t) /\ \A i \in 1..Len(t) : t[i] \in SUBSET Groups
      BY <1>1
    <2>2. u = [i \in 1..Len(t) |-> IF i = x THEN t[i] \cup {g} ELSE t[i]]
      BY <2>1
    <2> HIDE DEF u
    <2>3. \A i \in 1..Len(t) : (IF i = x THEN t[i] \cup {g} ELSE t[i]) \in SUBSET Groups
      BY <2>1
    <2> QED
      BY <1>1, <2>2, <2>3
  <1>3. /\ d \in Branches
        /\ \A h \in Groups, y \in Xid : d[h][y] = IF h = g /\ y = x THEN v ELSE b[h][y]
    BY <1>1, PutBranch
  <1>4. \A y \in Xid : JoinedIn(u, y) = IF y = x THEN JoinedIn(t, y) \cup {g} ELSE JoinedIn(t, y)
    <2> SUFFICES ASSUME NEW y \in Xid
                 PROVE  JoinedIn(u, y) = IF y = x THEN JoinedIn(t, y) \cup {g} ELSE JoinedIn(t, y)
      OBVIOUS
    <2> HIDE DEF u
    <2>1. CASE y <= Len(t)
      <3>1. y \in 1..Len(t)
        BY <1>1, <2>1 DEF Xid
      <3> QED
        BY <1>2, <2>1, <3>1 DEF JoinedIn
    <2>2. CASE ~(y <= Len(t))
      BY <1>2, <2>2 DEF JoinedIn
    <2> QED
      BY <2>1, <2>2
  <1> HIDE DEF u, d
  <1>5. \A y \in Xid : d[g0][y] = b[g0][y] /\ (EndedIn(d, y) <=> EndedIn(b, y))
    BY <1>1, <1>3 DEF EndedIn
  <1>6. \A i \in 1..Len(u) : g0 \in u[i]
    BY <1>2 DEF World
  <1>7. \A y \in Xid : d[g0][y] # "none" => y <= Len(u)
    BY <1>2, <1>5 DEF World
  <1>8. ASSUME NEW h \in Groups \ {g0}, NEW y \in Xid
        PROVE  d[h][y] # "none" <=> h \in JoinedIn(u, y)
    <2>1. b[h][y] # "none" <=> h \in JoinedIn(t, y)
      BY DEF World
    <2> QED
      BY <1>3, <1>4, <2>1
  <1>9. ASSUME NEW y \in Xid, ~EndedIn(d, y)
        PROVE  /\ d[g0][y] \in {"none", "active", "suspended"}
               /\ \A h \in Groups \ {g0} : d[h][y] \in {"none", "idle", "failed"}
    <2>1. ~EndedIn(b, y)
      BY <1>5, <1>9
    <2>2. /\ b[g0][y] \in {"none", "active", "suspended"}
          /\ \A h \in Groups \ {g0} : b[h][y] \in {"none", "idle", "failed"}
      BY <2>1 DEF World
    <2> QED
      BY <1>3, <1>5, <2>2
  <1>10. World(u, d)
    BY <1>2, <1>3, <1>6, <1>7, <1>8, <1>9 DEF World
  <1>11. Keeps(t, b, u, d)
    BY <1>3, <1>4 DEF Keeps
  <1> QED
    BY <1>2, <1>5, <1>10, <1>11 DEF u, d

\* What a TM does to a branch.
LEMMA ExecutedBranch ==
  ASSUME NEW f \in Func, NEW b \in Branch, NEW e \in Executed(f, b)
  PROVE  /\ e[1] \in Branch /\ e[2] \in Ret
         /\ e[1] = "none" <=> b = "none"
         /\ e[1] \in {"active", "suspended"} => b = e[1]
         /\ b \in {"idle", "prepared", "readonly", "committed", "aborted"} =>
              e[1] \in {"idle", "prepared", "readonly", "committed", "aborted"}
         /\ b \in {"readonly", "committed", "aborted"} => e[1] = b
  <1>1. CASE e = <<b, "err">>
    BY <1>1 DEF Ret
  <1>2. CASE e # <<b, "err">>
    <2>1. \/ b \in {"idle", "failed", "prepared"} /\ e = <<"aborted", "rb">>
          \/ b = "idle" /\ e = <<"prepared", "ok">>
          \/ b = "idle" /\ e = <<"readonly", "rdonly">>
          \/ b = "prepared" /\ e = <<"committed", "ok">>
          \/ b = "prepared" /\ e = <<"aborted", "err">>
          \/ b \in {"idle", "failed", "prepared"} /\ e = <<"aborted", "ok">>
      BY <1>2 DEF Executed, Func
    <2> QED
      BY <2>1 DEF Branch, Ret
  <1> QED
    BY <1>1, <1>2

LEMMA TmWorld ==
  ASSUME NEW t, NEW b, World(t, b), NEW x \in Xid, EndedIn(b, x), NEW g \in Groups,
         NEW f \in Func, NEW e \in Executed(f, b[g][x])
  PROVE  /\ World(t, Put(b, g, x, e[1]))
         /\ \A y \in Xid :
              /\ EndedIn(Put(b, g, x, e[1]), y) <=> EndedIn(b, y)
              /\ Put(b, g, x, e[1])[g0][y] = "active" <=> b[g0][y] = "active"
              /\ Put(b, g, x, e[1])[g0][y] = "suspended" <=> b[g0][y] = "suspended"
              /\ \A h \in Groups : Put(b, g, x, e[1])[h][y] =
                                     IF h = g /\ y = x THEN e[1] ELSE b[h][y]
  <1>1. b \in Branches /\ g0 \in Groups /\ b[g][x] \in Branch
    BY TxAssumption DEF World, Branches
  <1>2. /\ e[1] \in Branch
        /\ e[1] = "none" <=> b[g][x] = "none"
        /\ e[1] \in {"active", "suspended"} => b[g][x] = e[1]
        /\ b[g][x] \in {"idle", "prepared", "readonly", "committed", "aborted"} =>
             e[1] \in {"idle", "prepared", "readonly", "committed", "aborted"}
    BY <1>1, ExecutedBranch
  <1> DEFINE v == e[1]
             d == Put(b, g, x, v)
  <1> HIDE DEF v
  <1>3. \A h \in Groups, y \in Xid : d[h][y] = IF h = g /\ y = x THEN v ELSE b[h][y]
    BY <1>1, <1>2, PutBranch DEF v
  <1> HIDE DEF d
  <1>4. \A y \in Xid : EndedIn(d, y) <=> EndedIn(b, y)
    BY <1>1, <1>2, <1>3 DEF EndedIn, v
  <1>5. World(t, d)
    BY <1>1, <1>2, <1>4, PutWorld DEF v, d
  <1>6. \A y \in Xid : /\ d[g0][y] = "active" <=> b[g0][y] = "active"
                       /\ d[g0][y] = "suspended" <=> b[g0][y] = "suspended"
    BY <1>1, <1>2, <1>3 DEF v, EndedIn
  <1> QED
    BY <1>3, <1>4, <1>5, <1>6 DEF v, d

-----------------------------------------------------------------------------
(* The thread *)

Contexts == [state : State, xid : Xid \cup {NoTrx}, gttid : Xid \cup {NoTrx}]

ThreadInv == World(table, br) /\ Thinks(ctx, saved, table, br)

\* The states with and without a transaction.
LEMMA States ==
  ASSUME NEW s \in State
  PROVE  /\ Enter(s) \in InTrx /\ Leave(s) \in {"s1", "s2"}
         /\ Enter(s) \in State /\ Leave(s) \in State
  BY DEF Enter, Leave, Chained, InTrx, State

\* tx_begin as far as the context is concerned.
LEMMA StartedThinks ==
  ASSUME NEW c, NEW b, World(table, b), Thinks(c, saved, table, b), Len(table) < TableSize,
         NEW ok \in BOOLEAN, NEW d,
         d = IF ok /\ c.state \in {"s1", "s2"} THEN Put(b, g0, Len(table) + 1, "active") ELSE b
  PROVE  /\ World(Append(table, {g0}), d)
         /\ Thinks(Started(c, ok), saved, Append(table, {g0}), d)
         /\ Keeps(table, b, Append(table, {g0}), d)
  <1> DEFINE n == Len(table) + 1
             u == Append(table, {g0})
  <1>1. d = b \/ d = Put(b, g0, n, "active")
    OBVIOUS
  <1>2. /\ World(u, d) /\ Keeps(table, b, u, d) /\ Len(u) = n /\ ~EndedIn(d, n) /\ n \in Xid
        /\ \A y \in Xid : y <= Len(table) => d[g0][y] = b[g0][y]
    <2>1. World(u, d) /\ Keeps(table, b, u, d)
      BY <1>1, StartWorld
    <2>2. Len(u) = n
      BY <1>1, StartWorld
    <2>3. ~EndedIn(d, n) /\ n \in Xid
      BY <1>1, StartWorld
    <2>4. \A y \in Xid : y <= Len(table) => d[g0][y] = b[g0][y]
      BY <1>1, StartWorld
    <2> QED
      BY <2>1, <2>2, <2>3, <2>4
  <1>3. ok /\ c.state \in {"s1", "s2"} => d[g0][n] = "active"
    <2> SUFFICES ASSUME ok, c.state \in {"s1", "s2"} PROVE d[g0][n] = "active"
      OBVIOUS
    <2>1. b \in Branches /\ g0 \in Groups /\ "active" \in Branch
      BY TxAssumption DEF World, Branch
    <2>2. d = Put(b, g0, n, "active")
      OBVIOUS
    <2> HIDE DEF n
    <2> QED
      BY <1>2, <2>1, <2>2, PutBranch
  <1>4. Len(table) \in Nat /\ c \in Contexts
    BY DEF World, Thinks, Contexts
  <1>5. /\ c.xid <= Len(table) /\ \A x \in saved : x <= Len(table)
        /\ saved \subseteq Xid
        /\ c.state \in InTrx /\ c.xid # NoTrx => b[g0][c.xid] = "active"
    BY DEF Thinks
  <1> DEFINE e == Started(c, ok)
  <1>6. \/ c.state \in InTrx \cup {"s0"} /\ e = [c EXCEPT !.gttid = n]
        \/ c.state \in {"s1", "s2"} /\ ok /\ e = [state |-> Enter(c.state), xid |-> n, gttid |-> n]
        \/ c.state \in {"s1", "s2"} /\ ~ok /\ e = [state |-> c.state, xid |-> n, gttid |-> n]
    <2>1. c.state \in {"s0", "s1", "s2", "s3", "s4"}
      BY <1>4 DEF Contexts, State
    <2> QED
      BY <2>1 DEF Started, InTrx
  <1> HIDE DEF n, u, e
  <1>7. /\ e \in Contexts /\ e.gttid = n /\ (e.xid = n \/ e.xid = c.xid)
        /\ e.state \in InTrx => \/ e.xid = c.xid /\ e.state = c.state
                                \/ e.xid = n /\ c.state \in {"s1", "s2"} /\ ok
    <2>1. CASE c.state \in InTrx \cup {"s0"} /\ e = [c EXCEPT !.gttid = n]
      BY <1>2, <1>4, <2>1 DEF Contexts
    <2>2. CASE c.state \in {"s1", "s2"} /\ ok /\ e = [state |-> Enter(c.state), xid |-> n, gttid |-> n]
      <3>1. Enter(c.state) \in State
        BY <1>4, States DEF Contexts
      <3> QED
        BY <1>2, <2>2, <3>1 DEF Contexts
    <2>3. CASE c.state \in {"s1", "s2"} /\ ~ok /\ e = [state |-> c.state, xid |-> n, gttid |-> n]
      BY <1>2, <1>4, <2>3 DEF Contexts, InTrx
    <2> QED
      BY <1>6, <2>1, <2>2, <2>3
  <1>8. e.xid <= Len(u) /\ e.gttid <= Len(u) /\ \A x \in saved : x <= Len(u)
    <2>1. c.xid \in Nat /\ \A x \in saved : x \in Nat
      BY <1>4, <1>5 DEF Contexts, Xid, NoTrx
    <2> QED
      BY <1>2, <1>4, <1>5, <1>7, <2>1 DEF n
  <1>9. e.state \in InTrx /\ e.xid # NoTrx => d[g0][e.xid] = "active"
    <2> SUFFICES ASSUME e.state \in InTrx, e.xid # NoTrx PROVE d[g0][e.xid] = "active"
      OBVIOUS
    <2>1. CASE e.xid = c.xid /\ e.state = c.state
      <3>1. c.xid \in Xid
        BY <1>4, <2>1 DEF Contexts
      <3> QED
        BY <1>2, <1>5, <2>1, <3>1
    <2>2. CASE e.xid = n /\ c.state \in {"s1", "s2"} /\ ok
      BY <1>3, <2>2
    <2> QED
      BY <1>7, <2>1, <2>2
  <1>10. Thinks(e, saved, u, d)
    BY <1>2, <1>5, <1>7, <1>8, <1>9 DEF Thinks, Contexts
  <1> QED
    BY <1>2, <1>10 DEF u, e

\* suspend_guard suspends and resumes the branch, or one of the two fails.
LEMMA GuardThinks ==
  ASSUME NEW t, NEW b, World(t, b), Thinks(ctx, saved, t, b), suspend_guard(b),
         \A y \in Xid : b[g0][y] = br[g0][y]
  PROVE  /\ World(t, br') /\ Thinks(ctx', saved, t, br') /\ Keeps(t, b, t, br')
         /\ ctx'.xid = ctx.xid /\ ctx'.gttid = ctx.gttid
  <1> DEFINE x == ctx.xid
  <1>1. ctx \in Contexts
    BY DEF Thinks, Contexts
  <1>2. CASE UNCHANGED ctx /\ br' = b
    BY <1>2 DEF Keeps
  <1>3. CASE /\ ctx.state \in InTrx /\ x # NoTrx
             /\ ctx' = [ctx EXCEPT !.state = Leave(ctx.state)]
             /\ br' = [b EXCEPT ![g0][x] = "suspended"]
    <2>1. x \in Xid /\ b[g0][x] = "active" /\ br' = Put(b, g0, x, "suspended")
      BY <1>1, <1>3 DEF Thinks, Contexts, Put
    <2>2. /\ World(t, br') /\ Keeps(t, b, t, br')
          /\ \A y \in Xid : EndedIn(br', y) <=> EndedIn(b, y)
      BY <2>1, OwnWorld
    <2>3. Leave(ctx.state) \in State /\ Leave(ctx.state) \notin InTrx
      BY <1>1, States DEF Contexts, InTrx
    <2>4. /\ ctx' \in Contexts /\ ctx'.xid = ctx.xid /\ ctx'.gttid = ctx.gttid
          /\ ctx'.state \notin InTrx
      BY <1>1, <1>3, <2>3 DEF Contexts
    <2>5. ctx.gttid \in Xid \cup {NoTrx}
      BY <1>1 DEF Contexts
    <2> QED
      BY <2>2, <2>4, <2>5 DEF Thinks, Contexts
  <1>4. CASE /\ ctx.state \in {"s1", "s2"} /\ x # NoTrx /\ br[g0][x] = "suspended"
             /\ ctx' = [ctx EXCEPT !.state = Enter(ctx.state)]
             /\ br' = [b EXCEPT ![g0][x] = "active"]
    <2>1. x \in Xid /\ b[g0][x] = "suspended" /\ br' = Put(b, g0, x, "active")
      BY <1>1, <1>4 DEF Contexts, Put
    <2>2. /\ World(t, br') /\ Keeps(t, b, t, br')
          /\ \A y \in Xid : EndedIn(br', y) <=> EndedIn(b, y)
          /\ br'[g0][x] = "active"
      BY <2>1, OwnWorld
    <2>3. Enter(ctx.state) \in State
      BY <1>1, States DEF Contexts
    <2>4. ctx' \in Contexts /\ ctx'.xid = ctx.xid /\ ctx'.gttid = ctx.gttid
      BY <1>1, <1>4, <2>3 DEF Contexts
    <2>5. ctx.gttid \in Xid \cup {NoTrx}
      BY <1>1 DEF Contexts
    <2> QED
      BY <2>2, <2>4, <2>5 DEF Thinks, Contexts
  <1> QED
    BY <1>2, <1>3, <1>4 DEF suspend_guard

\* Steps that change nothing but the context, and lose the transaction rather
\* than find one.
LEMMA ContextStep ==
  ASSUME ThreadInv, UNCHANGED <<saved, table, br>>, ctx' \in Contexts,
         ctx'.xid \in {ctx.xid, NoTrx} \cup saved,
         ctx'.gttid \in {ctx.gttid, NoTrx},
         ctx'.state \in InTrx => ctx.state \in InTrx /\ ctx'.xid \in {ctx.xid, NoTrx}
  PROVE  ThreadInv' /\ Keeps(table, br, table', br')
  <1>1. /\ ctx.xid <= Len(table) /\ ctx.gttid <= Len(table) /\ Len(table) \in Nat
        /\ saved \subseteq Xid /\ \A x \in saved : x <= Len(table)
        /\ ctx.state \in InTrx /\ ctx.xid # NoTrx => br[g0][ctx.xid] = "active"
        /\ ctx.gttid # NoTrx => ~EndedIn(br, ctx.gttid)
    BY DEF ThreadInv, Thinks, World
  <1>2. ctx'.xid <= Len(table) /\ ctx'.gttid <= Len(table)
    BY <1>1 DEF NoTrx
  <1>3. ctx'.state \in InTrx /\ ctx'.xid # NoTrx => br[g0][ctx'.xid] = "active"
    BY <1>1
  <1>4. ctx'.gttid # NoTrx => ~EndedIn(br, ctx'.gttid)
    BY <1>1
  <1>5. World(table', br')
    BY DEF ThreadInv
  <1>6. Thinks(ctx', saved', table', br')
    BY <1>1, <1>2, <1>3, <1>4 DEF Thinks, Contexts
  <1> QED
    BY <1>5, <1>6 DEF ThreadInv, Keeps

LEMMA ThreadTypes ==
  ASSUME ThreadInv
  PROVE  /\ ctx \in Contexts /\ ctx.state \in State
         /\ ctx.xid \in Xid \cup {NoTrx} /\ ctx.gttid \in Xid \cup {NoTrx}
         /\ ctx.xid <= Len(table) /\ ctx.gttid <= Len(table) /\ Len(table) \in Nat
         /\ table \in Seq(SUBSET Groups) /\ saved \subseteq Xid
         /\ br \in Branches
         /\ Len(table) # TableSize => Len(table) < TableSize
  BY TxAssumption DEF ThreadInv, Thinks, World, Contexts

LEMMA QuietThread ==
  ASSUME ThreadInv, tx_open \/ tx_close \/ tx_set_transaction_control \/ tx_end_fails
  PROVE  ThreadInv' /\ Keeps(table, br, table', br')
  <1>0. ctx \in Contexts
    BY ThreadTypes
  <1>1. CASE tx_open
    <2>1. ctx' \in Contexts /\ ctx'.xid = NoTrx /\ ctx'.gttid = NoTrx /\ ctx'.state \notin InTrx
      BY <1>1 DEF tx_open, Contexts, State, InTrx
    <2> QED
      BY <1>1, <2>1, ContextStep DEF tx_open
  <1>2. CASE tx_close
    <2>1. /\ ctx' \in Contexts /\ ctx'.xid = ctx.xid /\ ctx'.gttid = ctx.gttid
          /\ ctx'.state \notin InTrx
      BY <1>0, <1>2 DEF tx_close, Contexts, State, InTrx
    <2> QED
      BY <1>2, <2>1, ContextStep DEF tx_close
  <1>3. CASE tx_set_transaction_control
    <2>1. PICK s \in State : ctx' = [ctx EXCEPT !.state = s] /\ (s \in InTrx => ctx.state \in InTrx)
      <3>1. ctx.state \in {"s1", "s2", "s3", "s4"}
        BY <1>0, <1>3 DEF tx_set_transaction_control, Contexts, State
      <3>2. \/ ctx.state = "s1" /\ ctx' = [ctx EXCEPT !.state = "s2"]
            \/ ctx.state = "s2" /\ ctx' = [ctx EXCEPT !.state = "s1"]
            \/ ctx.state = "s3" /\ ctx' = [ctx EXCEPT !.state = "s4"]
            \/ ctx.state = "s4" /\ ctx' = [ctx EXCEPT !.state = "s3"]
        BY <1>3, <3>1 DEF tx_set_transaction_control
      <3> QED
        BY <3>2 DEF State, InTrx
    <2>2. /\ ctx' \in Contexts /\ ctx'.xid = ctx.xid /\ ctx'.gttid = ctx.gttid
          /\ ctx'.state = s
      BY <1>0, <2>1 DEF Contexts
    <2> QED
      BY <1>3, <2>1, <2>2, ContextStep DEF tx_set_transaction_control
  <1>4. CASE tx_end_fails
    <2>1. /\ ctx' \in Contexts /\ ctx'.xid = NoTrx /\ ctx'.gttid = NoTrx
          /\ ctx'.state = ctx.state /\ ctx.state \in InTrx
      BY <1>0, <1>4 DEF tx_end_fails, Contexts
    <2> QED
      BY <1>4, <2>1, ContextStep DEF tx_end_fails
  <1> QED
    BY <1>1, <1>2, <1>3, <1>4

LEMMA BeginThread ==
  ASSUME ThreadInv, tx_begin
  PROVE  ThreadInv' /\ Keeps(table, br, table', br')
  <1>1. CASE Full
    <2>1. UNCHANGED <<ctx, saved, table, br>>
      BY <1>1 DEF tx_begin
    <2> QED
      BY <2>1 DEF ThreadInv, Keeps
  <1>2. CASE ~Full
    <2>1. /\ table' = Append(table, {g0}) /\ saved' = saved
          /\ \E ok \in Outcomes :
               /\ ctx' = Started(ctx, ok)
               /\ br' = IF ok /\ ctx.state \in {"s1", "s2"}
                        THEN Put(br, g0, Len(table) + 1, "active") ELSE br
      BY <1>2 DEF tx_begin, start, Put
    <2>2. PICK ok \in BOOLEAN :
               /\ ctx' = Started(ctx, ok)
               /\ br' = IF ok /\ ctx.state \in {"s1", "s2"}
                        THEN Put(br, g0, Len(table) + 1, "active") ELSE br
      BY <2>1 DEF Outcomes
    <2>3. Len(table) < TableSize
      BY <1>2, ThreadTypes DEF Full
    <2>4. World(table, br) /\ Thinks(ctx, saved, table, br)
      BY DEF ThreadInv
    <2>5. /\ World(table', br') /\ Thinks(ctx', saved, table', br')
          /\ Keeps(table, br, table', br')
      BY <2>1, <2>2, <2>3, <2>4, StartedThinks
    <2> QED
      BY <2>1, <2>5 DEF ThreadInv
  <1> QED
    BY <1>1, <1>2

LEMMA CallThread ==
  ASSUME ThreadInv, NEW g \in Groups, tpcall(g)
  PROVE  ThreadInv' /\ Keeps(table, br, table', br')
  <1> DEFINE x == ctx.gttid
             v == IF "HonoursFail" \in may THEN "failed" ELSE "idle"
             u == [table EXCEPT ![x] = @ \cup {g}]
             d == Put(br, g, x, v)
  <1>1. g \in Groups \ {g0} /\ x \in Xid /\ x <= Len(table) /\ v \in {"idle", "failed"}
    BY ThreadTypes DEF tpcall
  <1>2. ~EndedIn(br, x) /\ World(table, br) /\ Thinks(ctx, saved, table, br)
    BY <1>1 DEF ThreadInv, Thinks, Xid, NoTrx
  <1>3. table' = u /\ suspend_guard(d) /\ saved' = saved
    BY DEF tpcall, join, Put
  <1>4. /\ World(u, d) /\ Keeps(table, br, u, d) /\ Len(u) = Len(table)
        /\ \A y \in Xid : d[g0][y] = br[g0][y]
    <2> HIDE DEF v
    <2> QED
      BY <1>1, <1>2, JoinWorld
  <1> HIDE DEF u, d, v
  <1>5. Thinks(ctx, saved, u, d)
    <2>1. \A y \in Xid : EndedIn(d, y) <=> EndedIn(br, y)
      BY <1>4 DEF EndedIn
    <2>2. ctx.xid \in Xid \cup {NoTrx}
      BY ThreadTypes
    <2> QED
      BY <1>1, <1>2, <1>4, <2>1, <2>2 DEF Thinks
  <1>6. World(u, br') /\ Thinks(ctx', saved, u, br') /\ Keeps(u, d, u, br')
    BY <1>3, <1>4, <1>5, GuardThinks
  <1>7. Keeps(table, br, u, br')
    BY <1>4, <1>6, KeepsTransitive
  <1> QED
    BY <1>3, <1>6, <1>7 DEF ThreadInv

LEMMA SuspendThread ==
  ASSUME ThreadInv, tpsuspend
  PROVE  ThreadInv' /\ Keeps(table, br, table', br')
  <1> DEFINE x == ctx.xid
  <1>1. x \in Xid /\ x <= Len(table) /\ br[g0][x] = "active"
    BY ThreadTypes DEF tpsuspend, ThreadInv, Thinks
  <1>2. /\ table' = table /\ saved' = saved \cup {x} /\ br' = Put(br, g0, x, "suspended")
        /\ ctx' = [state |-> Leave(ctx.state), xid |-> NoTrx, gttid |-> NoTrx]
    BY DEF tpsuspend, Put
  <1>3. World(table, br') /\ Keeps(table, br, table, br')
    BY <1>1, <1>2, OwnWorld DEF ThreadInv
  <1>4. Leave(ctx.state) \in State /\ Leave(ctx.state) \notin InTrx
    BY ThreadTypes, States DEF InTrx
  <1>5. ctx' \in Contexts /\ ctx'.state \notin InTrx /\ ctx'.xid = NoTrx /\ ctx'.gttid = NoTrx
    BY <1>2, <1>4 DEF Contexts
  <1>6. saved' \subseteq Xid /\ \A y \in saved' : y <= Len(table)
    BY <1>1, <1>2 DEF ThreadInv, Thinks
  <1>7. ctx'.xid <= Len(table) /\ ctx'.gttid <= Len(table)
    BY <1>5, ThreadTypes DEF NoTrx
  <1>8. Thinks(ctx', saved', table, br')
    BY <1>5, <1>6, <1>7 DEF Thinks, Contexts
  <1> QED
    BY <1>2, <1>3, <1>8 DEF ThreadInv

LEMMA ResumeThread ==
  ASSUME ThreadInv, NEW x \in saved, tpresume(x)
  PROVE  ThreadInv' /\ Keeps(table, br, table', br')
  <1>0. ctx \in Contexts /\ x \in Xid /\ x <= Len(table)
    BY ThreadTypes DEF ThreadInv, Thinks
  <1>1. CASE /\ br[g0][x] = "suspended" /\ saved' = saved \ {x}
             /\ ctx' = [ctx EXCEPT !.state = Enter(ctx.state), !.xid = x]
             /\ br' = Put(br, g0, x, "active")
    <2>1. /\ World(table, br') /\ Keeps(table, br, table, br') /\ br'[g0][x] = "active"
          /\ \A y \in Xid : EndedIn(br', y) <=> EndedIn(br, y)
      BY <1>0, <1>1, OwnWorld DEF ThreadInv
    <2>2. Enter(ctx.state) \in State
      BY ThreadTypes, States
    <2>3. ctx' \in Contexts /\ ctx'.xid = x /\ ctx'.gttid = ctx.gttid
      BY <1>0, <1>1, <2>2 DEF Contexts
    <2>4. saved' \subseteq Xid /\ \A y \in saved' : y <= Len(table)
      BY <1>1 DEF ThreadInv, Thinks
    <2>5. ctx.gttid \in Xid \cup {NoTrx} /\ ctx.gttid <= Len(table)
      BY ThreadTypes
    <2>6. ctx.gttid # NoTrx => ~EndedIn(br, ctx.gttid)
      BY DEF ThreadInv, Thinks
    <2>7. Thinks(ctx', saved', table, br')
      BY <1>0, <2>1, <2>3, <2>4, <2>5, <2>6 DEF Thinks, Contexts
    <2>8. table' = table
      BY DEF tpresume
    <2> QED
      BY <2>1, <2>7, <2>8 DEF ThreadInv
  <1>2. CASE ctx' = [ctx EXCEPT !.xid = x] /\ UNCHANGED <<saved, br>>
    <2>1. /\ ctx' \in Contexts /\ ctx'.xid = x /\ ctx'.gttid = ctx.gttid
          /\ ctx'.state = ctx.state
      BY <1>0, <1>2 DEF Contexts
    <2>2. ctx'.state \notin InTrx /\ table' = table
      BY <2>1 DEF tpresume, InTrx
    <2> QED
      BY <1>2, <2>1, <2>2, ContextStep
  <1> QED
    BY <1>1, <1>2 DEF tpresume, Put

\* xa_end of the thread's branch, and in chained mode the next transaction.
LEMMA EndThread ==
  ASSUME ThreadInv, NEW op, tx_end(op)
  PROVE  /\ ThreadInv' /\ Keeps(table, br, table', br')
         /\ ctx.xid \in Xid /\ ctx.xid \in 1..Len(table) /\ table[ctx.xid] \subseteq Groups
         /\ ~EndedIn(br, ctx.xid) /\ EndedIn(br', ctx.xid)
         /\ JoinedIn(table', ctx.xid) = table[ctx.xid]
         /\ \A g \in Groups : br'[g][ctx.xid] \in IF g \in table[ctx.xid] THEN {"idle", "failed"}
                                                                         ELSE {"none"}
  <1> DEFINE x == ctx.xid
             d == Put(br, g0, x, "idle")
             left == [state |-> Leave(ctx.state), xid |-> NoTrx, gttid |-> NoTrx]
  <1>1. /\ x \in Xid /\ x <= Len(table) /\ br[g0][x] = "active" /\ x \in 1..Len(table)
        /\ saved' = saved
    BY ThreadTypes DEF tx_end, ThreadInv, Thinks, Xid
  <1>2. World(table, br) /\ g0 \in Groups
    BY TxAssumption DEF ThreadInv
  <1>3. /\ World(table, d) /\ Keeps(table, br, table, d)
        /\ \A y \in Xid :
             /\ EndedIn(d, y) <=> y = x \/ EndedIn(br, y)
             /\ \A g \in Groups : d[g][y] = IF g = g0 /\ y = x THEN "idle" ELSE br[g][y]
    BY <1>1, <1>2, EndWorld
  <1>4. ~EndedIn(br, x)
    BY <1>1 DEF EndedIn
  <1>5. table[x] \in SUBSET Groups /\ JoinedIn(table, x) = table[x] /\ g0 \in table[x]
    BY <1>1, <1>2, ThreadTypes DEF JoinedIn, World
  <1>6. \A g \in Groups : d[g][x] \in IF g \in table[x] THEN {"idle", "failed"} ELSE {"none"}
    <2> SUFFICES ASSUME NEW g \in Groups \ {g0}
                 PROVE  d[g][x] \in IF g \in table[x] THEN {"idle", "failed"} ELSE {"none"}
      BY <1>1, <1>2, <1>3, <1>5
    <2>1. d[g][x] = br[g][x]
      BY <1>1, <1>3
    <2>2. br[g][x] # "none" <=> g \in table[x]
      BY <1>1, <1>2, <1>5 DEF World
    <2>3. br[g][x] \in {"none", "idle", "failed"}
      BY <1>1, <1>2, <1>4 DEF World
    <2> QED
      BY <2>1, <2>2, <2>3
  <1>7. Leave(ctx.state) \in {"s1", "s2"} /\ Leave(ctx.state) \in State
    BY ThreadTypes, States
  <1>8. /\ left \in Contexts /\ left.state = Leave(ctx.state) /\ left.xid = NoTrx
        /\ left.gttid = NoTrx
    BY <1>7 DEF Contexts
  <1> HIDE DEF left, d
  <1>9. Thinks(left, saved, table, d)
    <2>1. left.xid <= Len(table) /\ left.gttid <= Len(table)
      BY <1>8, ThreadTypes DEF NoTrx
    <2>2. saved \subseteq Xid /\ \A y \in saved : y <= Len(table)
      BY DEF ThreadInv, Thinks
    <2> QED
      BY <1>8, <2>1, <2>2 DEF Thinks, Contexts
  <1>10. /\ World(table', br') /\ Thinks(ctx', saved, table', br')
         /\ Keeps(table, d, table', br')
    <2>1. CASE ctx' = left /\ br' = d /\ table' = table
      BY <1>3, <1>9, <2>1 DEF Keeps
    <2>2. CASE /\ ~Full /\ table' = Append(table, {g0})
               /\ \E ok \in Outcomes :
                    /\ ctx' = Started(left, ok)
                    /\ br' = IF ok THEN Put(d, g0, Len(table) + 1, "active") ELSE d
      <3>1. PICK ok \in BOOLEAN :
              /\ ctx' = Started(left, ok)
              /\ br' = IF ok THEN Put(d, g0, Len(table) + 1, "active") ELSE d
        BY <2>2 DEF Outcomes
      <3>2. Len(table) < TableSize
        BY <2>2, ThreadTypes DEF Full
      <3>3. left.state \in {"s1", "s2"}
        BY <1>7, <1>8
      <3>4. br' = IF ok /\ left.state \in {"s1", "s2"}
                  THEN Put(d, g0, Len(table) + 1, "active") ELSE d
        BY <3>1, <3>3
      <3> QED
        BY <1>3, <1>9, <2>2, <3>1, <3>2, <3>4, StartedThinks
    <2> QED
      BY <2>1, <2>2 DEF tx_end, start, Put, left, d
  <1>11. Keeps(table, br, table', br')
    BY <1>3, <1>10, KeepsTransitive
  <1>12. EndedIn(d, x)
    BY <1>1, <1>3
  <1>13. JoinedIn(table', x) = table[x] /\ \A g \in Groups : br'[g][x] = d[g][x]
    BY <1>1, <1>5, <1>10, <1>12 DEF Keeps
  <1>14. EndedIn(br', x)
    BY <1>2, <1>12, <1>13 DEF EndedIn
  <1> QED
    BY <1>1, <1>4, <1>5, <1>6, <1>10, <1>11, <1>13, <1>14 DEF ThreadInv

\* Waiting for a reply, the thread suspends and resumes its transaction.
LEMMA WaitThread ==
  ASSUME ThreadInv, suspend_guard(br), UNCHANGED <<saved, table>>
  PROVE  ThreadInv' /\ Keeps(table, br, table', br')
  BY GuardThinks DEF ThreadInv

LEMMA FinishThread ==
  ASSUME ThreadInv, finish
  PROVE  ThreadInv' /\ Keeps(table, br, table', br')
  <1>0. ctx \in Contexts
    BY ThreadTypes
  <1> DEFINE c == [ctx EXCEPT !.state = "s2"]
  <1>1. c \in Contexts /\ c.xid = ctx.xid /\ c.gttid = ctx.gttid /\ c.state = "s2"
    BY <1>0 DEF Contexts, State
  <1>2. CASE UNCHANGED <<ctx, saved, table, br>>
    BY <1>2 DEF ThreadInv, Keeps
  <1>3. CASE ctx' = c /\ UNCHANGED <<saved, table, br>>
    <2> HIDE DEF c
    <2>1. "s2" \notin InTrx
      BY DEF InTrx
    <2> QED
      BY <1>1, <1>3, <2>1, ContextStep
  <1>4. CASE /\ ~Full /\ table' = Append(table, {g0}) /\ saved' = saved
             /\ \E ok \in Outcomes :
                  /\ ctx' = Started(c, ok)
                  /\ br' = IF ok THEN Put(br, g0, Len(table) + 1, "active") ELSE br
    <2> HIDE DEF c
    <2>1. PICK ok \in BOOLEAN :
            /\ ctx' = Started(c, ok)
            /\ br' = IF ok THEN Put(br, g0, Len(table) + 1, "active") ELSE br
      BY <1>4 DEF Outcomes
    <2>2. Len(table) < TableSize
      BY <1>4, ThreadTypes DEF Full
    <2>3. Thinks(c, saved, table, br) /\ World(table, br)
      BY <1>1 DEF ThreadInv, Thinks, Contexts, InTrx
    <2>4. br' = IF ok /\ c.state \in {"s1", "s2"}
                THEN Put(br, g0, Len(table) + 1, "active") ELSE br
      BY <1>1, <2>1
    <2>5. /\ World(table', br') /\ Thinks(ctx', saved, table', br')
          /\ Keeps(table, br, table', br')
      BY <1>4, <2>1, <2>2, <2>3, <2>4, StartedThinks
    <2> QED
      BY <1>4, <2>5 DEF ThreadInv
  <1> QED
    BY <1>2, <1>3, <1>4 DEF finish, start, Put

LEMMA TmThread ==
  ASSUME ThreadInv, NEW m \in [cd : Nat, grp : Groups, func : Func, xid : Xid],
         EndedIn(br, m.xid), TM(m)
  PROVE  /\ ThreadInv'
         /\ \A y \in Xid :
              /\ EndedIn(br', y) <=> EndedIn(br, y)
              /\ br'[g0][y] = "active" <=> br[g0][y] = "active"
              /\ br'[g0][y] = "suspended" <=> br[g0][y] = "suspended"
         /\ \E e \in Executed(m.func, br[m.grp][m.xid]) :
              /\ replies' = replies \cup {[cd |-> m.cd, ret |-> e[2]]}
              /\ \A h \in Groups, y \in Xid :
                   br'[h][y] = IF h = m.grp /\ y = m.xid THEN e[1] ELSE br[h][y]
  <1>1. PICK e \in Executed(m.func, br[m.grp][m.xid]) :
          /\ br' = Put(br, m.grp, m.xid, e[1])
          /\ replies' = replies \cup {[cd |-> m.cd, ret |-> e[2]]}
    BY DEF TM, Put
  <1>2. World(table, br) /\ m.grp \in Groups /\ m.func \in Func /\ m.xid \in Xid
    BY DEF ThreadInv
  <1>3. /\ World(table, br')
        /\ \A y \in Xid :
             /\ EndedIn(br', y) <=> EndedIn(br, y)
             /\ br'[g0][y] = "active" <=> br[g0][y] = "active"
             /\ br'[g0][y] = "suspended" <=> br[g0][y] = "suspended"
             /\ \A h \in Groups : br'[h][y] = IF h = m.grp /\ y = m.xid THEN e[1] ELSE br[h][y]
    BY <1>1, <1>2, TmWorld
  <1>4. UNCHANGED <<ctx, saved, table>>
    BY DEF TM
  <1>5. ctx.xid \in Xid \cup {NoTrx} /\ ctx.gttid \in Xid \cup {NoTrx}
    BY ThreadTypes
  <1>6. Thinks(ctx, saved, table, br')
    BY <1>3, <1>5 DEF Thinks, ThreadInv
  <1> QED
    BY <1>1, <1>3, <1>4, <1>6 DEF ThreadInv

-----------------------------------------------------------------------------
(* Calls to TMs *)

Committing == co.phase \in Func
Request == [cd : Nat, grp : Groups, func : Func, xid : Xid]
Reply == [cd : Nat, ret : Ret]

CallType ==
  /\ \E P \in SUBSET Groups :
       co \in [op : {"none", "commit", "rollback"}, phase : {"none"} \cup Func
                 \cup {"terminated"}, xid : Xid \cup {NoTrx}, parts : [P -> Part],
               pending : Int, buf : Ret \cup {"absent"}]
  /\ requests \subseteq Request /\ replies \subseteq Reply
  /\ lastcd \in Nat
  /\ outcome \in [Xid -> {"none", "committed", "failed", "rolledback", "error"}]
  /\ may \in Scenarios

\* Requests are about transactions that have ended, and so is what the thread
\* is doing in tx_commit or tx_rollback.
EndInv ==
  /\ \A m \in requests : EndedIn(br, m.xid)
  /\ Committing => co.xid \in Xid /\ EndedIn(br, co.xid)

\* A descriptor is in one place at a time.
CdInv ==
  /\ \A m \in requests : m.cd \in 1..lastcd
  /\ \A r \in replies : r.cd \in 1..lastcd
  /\ \A m, n \in requests : m.cd = n.cd => m = n
  /\ \A r, s \in replies : r.cd = s.cd => r = s
  /\ \A m \in requests, r \in replies : m.cd # r.cd

LEMMA CoTypes ==
  ASSUME CallType
  PROVE  /\ DOMAIN co.parts \in SUBSET Groups
         /\ co.parts \in [DOMAIN co.parts -> Part]
         /\ co.op \in {"none", "commit", "rollback"}
         /\ co.phase \in {"none", "terminated"} \cup Func
         /\ co.xid \in Xid \cup {NoTrx} /\ co.pending \in Int
         /\ co.buf \in Ret \cup {"absent"}
         /\ co = [op |-> co.op, phase |-> co.phase, xid |-> co.xid, parts |-> co.parts,
                  pending |-> co.pending, buf |-> co.buf]
  <1>1. PICK P \in SUBSET Groups :
          co \in [op : {"none", "commit", "rollback"}, phase : {"none"} \cup Func
                    \cup {"terminated"}, xid : Xid \cup {NoTrx}, parts : [P -> Part],
                  pending : Int, buf : Ret \cup {"absent"}]
    BY DEF CallType
  <1>2. DOMAIN co.parts = P
    BY <1>1
  <1> QED
    BY <1>1, <1>2

\* The type of a new value of co.
LEMMA CoTyped ==
  ASSUME NEW op \in {"none", "commit", "rollback"},
         NEW phase \in {"none", "terminated"} \cup Func,
         NEW x \in Xid \cup {NoTrx}, NEW P \in SUBSET Groups, NEW parts \in [P -> Part],
         NEW n \in Int, NEW buf \in Ret \cup {"absent"},
         co' = [op |-> op, phase |-> phase, xid |-> x, parts |-> parts, pending |-> n,
                buf |-> buf]
  PROVE  \E Q \in SUBSET Groups :
           co' \in [op : {"none", "commit", "rollback"}, phase : {"none"} \cup Func
                      \cup {"terminated"}, xid : Xid \cup {NoTrx}, parts : [Q -> Part],
                    pending : Int, buf : Ret \cup {"absent"}]
  <1> WITNESS P \in SUBSET Groups
  <1> QED
    OBVIOUS

\* The descriptors of the calls command() makes are new and distinct.
LEMMA Ranks ==
  ASSUME NEW P \in SUBSET Groups, NEW k \in P \cup {NoGroup}, lastcd \in Nat
  PROVE  /\ IsFiniteSet(P) /\ Called(P, k) \in SUBSET P
         /\ Cardinality(Called(P, k)) \in Nat
         /\ \A g \in P : Cd(P, g) \in Nat /\ Cd(P, g) > lastcd
         /\ \A g \in Called(P, k) : Cd(P, g) <= lastcd + Cardinality(Called(P, k))
         /\ \A g, h \in P : Cd(P, g) = Cd(P, h) => g = h
  <1> DEFINE Down(g) == {h \in P : h <= g}
  <1>1. IsFiniteSet(P) /\ P \subseteq Nat
    BY TxAssumption, FS_Subset
  <1>2. \A S \in SUBSET P : IsFiniteSet(S) /\ Cardinality(S) \in Nat
    BY <1>1, FS_Subset, FS_CardinalityType
  <1>3. \A g : Down(g) \in SUBSET P
    OBVIOUS
  <1>4. \A g \in P : Cardinality(Down(g)) \in Nat /\ Cardinality(Down(g)) > 0
    <2> SUFFICES ASSUME NEW g \in P
                 PROVE  Cardinality(Down(g)) \in Nat /\ Cardinality(Down(g)) > 0
      OBVIOUS
    <2>1. g \in Down(g)
      BY <1>1
    <2> HIDE DEF Down
    <2>2. IsFiniteSet(Down(g)) /\ Cardinality(Down(g)) \in Nat
      BY <1>2, <1>3
    <2>3. Cardinality(Down(g)) # 0
      BY <2>1, <2>2, FS_EmptySet
    <2> QED
      BY <2>2, <2>3
  <1>5. Called(P, k) \in SUBSET P
    BY DEF Called
  <1>6. \A g \in Called(P, k) : Down(g) \in SUBSET Called(P, k)
    <2> SUFFICES ASSUME NEW g \in Called(P, k), NEW h \in Down(g) PROVE h \in Called(P, k)
      OBVIOUS
    <2>1. h \in P /\ g \in P /\ h <= g
      BY <1>5
    <2>2. CASE k = NoGroup
      BY <2>1, <2>2 DEF Called
    <2>3. CASE k # NoGroup
      <3>1. g < k /\ k \in P
        BY <2>3 DEF Called
      <3>2. g \in Nat /\ h \in Nat /\ k \in Nat
        BY <1>1, <2>1, <3>1
      <3>3. h < k
        BY <2>1, <3>1, <3>2
      <3> QED
        BY <2>1, <2>3, <3>3 DEF Called
    <2> QED
      BY <2>2, <2>3
  <1>7. \A g, h \in P : g < h => Cardinality(Down(g)) # Cardinality(Down(h))
    <2> SUFFICES ASSUME NEW g \in P, NEW h \in P, g < h
                 PROVE  Cardinality(Down(g)) # Cardinality(Down(h))
      OBVIOUS
    <2>0. g \in Nat /\ h \in Nat
      BY <1>1
    <2>1. Down(g) \in SUBSET Down(h) /\ h \in Down(h) /\ h \notin Down(g)
      <3>1. \A i \in P : i <= g => i <= h
        BY <1>1, <2>0
      <3>2. h <= h /\ ~(h <= g)
        BY <2>0
      <3> QED
        BY <3>1, <3>2
    <2> HIDE DEF Down
    <2>2. IsFiniteSet(Down(h))
      BY <1>2, <1>3
    <2> QED
      BY <2>1, <2>2, FS_Subset
  <1>8. \A g \in Called(P, k) : Cardinality(Down(g)) <= Cardinality(Called(P, k))
    <2> HIDE DEF Down
    <2> QED
      BY <1>2, <1>5, <1>6, FS_Subset
  <1>9. \A g \in P : Cd(P, g) = lastcd + Cardinality(Down(g))
    BY DEF Cd
  <1> HIDE DEF Down
  <1>10. \A g, h \in P : Cd(P, g) = Cd(P, h) => g = h
    <2> SUFFICES ASSUME NEW g \in P, NEW h \in P, Cd(P, g) = Cd(P, h), g # h PROVE FALSE
      OBVIOUS
    <2>1. g < h \/ h < g
      BY <1>1
    <2>2. Cardinality(Down(g)) = Cardinality(Down(h))
      BY <1>4, <1>9
    <2> QED
      BY <1>7, <2>1, <2>2
  <1>11. \A g \in P : Cd(P, g) \in Nat /\ Cd(P, g) > lastcd
    BY <1>4, <1>9
  <1>12. \A g \in Called(P, k) : Cd(P, g) <= lastcd + Cardinality(Called(P, k))
    <2> SUFFICES ASSUME NEW g \in Called(P, k)
                 PROVE  Cd(P, g) <= lastcd + Cardinality(Called(P, k))
      OBVIOUS
    <2>1. Cd(P, g) = lastcd + Cardinality(Down(g)) /\ Cardinality(Down(g)) \in Nat
      BY <1>4, <1>5, <1>9
    <2> QED
      BY <1>2, <1>5, <1>8, <2>1
  <1> QED
    BY <1>1, <1>2, <1>5, <1>10, <1>11, <1>12

\* The calls one loop of command() makes, when the one to group k fails.
Sends(op, func, x, P, parts, k) ==
  /\ k # NoGroup => "SendFails" \in may
  /\ co' = [op |-> op, phase |-> func, xid |-> x, parts |-> Calls(parts, k),
            pending |-> Cardinality(Called(P, k)), buf |-> "absent"]
  /\ lastcd' = lastcd + Cardinality(Called(P, k))
  /\ requests' = requests \cup
       {[cd |-> Cd(P, g), grp |-> g, func |-> func, xid |-> x] : g \in Called(P, k)}

LEMMA CommandSends ==
  ASSUME NEW op, NEW func, NEW x, NEW P, NEW parts \in [P -> Part],
         command(op, func, x, parts)
  PROVE  \E k \in P \cup {NoGroup} : Sends(op, func, x, P, parts, k)
  <1>1. DOMAIN parts = P
    OBVIOUS
  <1>2. PICK k \in IF "SendFails" \in may THEN P \cup {NoGroup} ELSE {NoGroup} :
          /\ co' = [op |-> op, phase |-> func, xid |-> x, parts |-> Calls(parts, k),
                    pending |-> NumSent(P, k), buf |-> "absent"]
          /\ lastcd' = lastcd + Cardinality(Called(P, k))
          /\ requests' = requests \cup
               {[cd |-> Cd(P, g), grp |-> g, func |-> func, xid |-> x] : g \in Called(P, k)}
    BY <1>1 DEF command
  <1>3. k \in P \cup {NoGroup} /\ (k # NoGroup => "SendFails" \in may)
    BY <1>2
  <1> QED
    BY <1>2, <1>3 DEF Sends, NumSent

\* What the parts are after the calls.
LEMMA CallsParts ==
  ASSUME lastcd \in Nat, NEW P \in SUBSET Groups, NEW parts \in [P -> Part],
         NEW k \in P \cup {NoGroup}
  PROVE  /\ Calls(parts, k) \in [P -> Part]
         /\ DOMAIN Calls(parts, k) = P
         /\ \A g \in Called(P, k) : Calls(parts, k)[g].cd = Cd(P, g)
         /\ k # NoGroup => Calls(parts, k)[k] = [cd |-> -1, result |-> "err"]
  <1> DEFINE f(g) == IF g \in Called(P, k) THEN [parts[g] EXCEPT !.cd = Cd(P, g)]
                     ELSE IF g = k THEN [cd |-> -1, result |-> "err"]
                     ELSE parts[g]
  <1>1. DOMAIN parts = P
    OBVIOUS
  <1>2. Calls(parts, k) = [g \in P |-> f(g)]
    BY <1>1 DEF Calls
  <1>3. \A g \in P : Cd(P, g) \in Nat
    BY Ranks
  <1>4. ASSUME NEW g \in P PROVE f(g) \in Part
    <2>1. parts[g] \in Part /\ Cd(P, g) \in Nat
      BY <1>3
    <2>2. [parts[g] EXCEPT !.cd = Cd(P, g)] \in Part
      BY <2>1 DEF Part
    <2>3. [cd |-> -1, result |-> "err"] \in Part
      BY DEF Part, Ret
    <2> QED
      BY <2>1, <2>2, <2>3
  <1>5. ASSUME NEW g \in Called(P, k) PROVE f(g).cd = Cd(P, g) /\ g \in P
    <2>1. g \in P
      BY DEF Called
    <2>2. parts[g] \in Part
      BY <2>1
    <2> QED
      BY <2>1, <2>2 DEF Part
  <1>6. k # NoGroup => k \in P /\ f(k) = [cd |-> -1, result |-> "err"]
    <2> SUFFICES ASSUME k # NoGroup PROVE k \in P /\ f(k) = [cd |-> -1, result |-> "err"]
      OBVIOUS
    <2>1. k \in P /\ k \in Nat
      BY TxAssumption
    <2>2. ~(k < k)
      BY <2>1
    <2>3. k \notin Called(P, k)
      BY <2>2 DEF Called
    <2> QED
      BY <2>1, <2>3
  <1> HIDE DEF f
  <1>7. Calls(parts, k) \in [P -> Part]
    BY <1>2, <1>4
  <1> QED
    BY <1>2, <1>5, <1>6, <1>7

LEMMA SendsTypes ==
  ASSUME CallType, CdInv, NEW op \in {"commit", "rollback"}, NEW func \in Func, NEW x \in Xid,
         NEW P \in SUBSET Groups, NEW parts \in [P -> Part], NEW k \in P \cup {NoGroup},
         Sends(op, func, x, P, parts, k), UNCHANGED <<replies, may, outcome>>
  PROVE  /\ CallType' /\ CdInv'
         /\ co'.phase = func /\ co'.xid = x /\ co'.op = op
         /\ co'.parts = Calls(parts, k)
         /\ requests \subseteq requests'
         /\ \A m \in requests' : m \in requests \/ (m.xid = x /\ m.func = func /\ m.cd > lastcd)
  <1> DEFINE New == {[cd |-> Cd(P, g), grp |-> g, func |-> func, xid |-> x] : g \in Called(P, k)}
             C == Cardinality(Called(P, k))
  <1>1. /\ lastcd \in Nat /\ requests \subseteq Request /\ replies \subseteq Reply
    BY DEF CallType
  <1>2. /\ Called(P, k) \in SUBSET P /\ C \in Nat
        /\ \A g \in P : Cd(P, g) \in Nat /\ Cd(P, g) > lastcd
        /\ \A g \in Called(P, k) : Cd(P, g) <= lastcd + C
        /\ \A g, h \in P : Cd(P, g) = Cd(P, h) => g = h
    BY <1>1, Ranks
  <1>3. Calls(parts, k) \in [P -> Part]
    BY <1>1, CallsParts
  <1>4. /\ co' = [op |-> op, phase |-> func, xid |-> x, parts |-> Calls(parts, k),
                  pending |-> C, buf |-> "absent"]
        /\ lastcd' = lastcd + C /\ requests' = requests \cup New
    BY DEF Sends
  <1>5. /\ co'.phase = func /\ co'.xid = x /\ co'.op = op /\ co'.parts = Calls(parts, k)
    BY <1>4
  <1> HIDE DEF C
  <1>6. \E Q \in SUBSET Groups :
          co' \in [op : {"none", "commit", "rollback"}, phase : {"none"} \cup Func
                     \cup {"terminated"}, xid : Xid \cup {NoTrx}, parts : [Q -> Part],
                   pending : Int, buf : Ret \cup {"absent"}]
    <2>1. /\ op \in {"none", "commit", "rollback"} /\ func \in {"none", "terminated"} \cup Func
          /\ x \in Xid \cup {NoTrx} /\ C \in Int /\ "absent" \in Ret \cup {"absent"}
      BY <1>2
    <2> QED
      BY <1>3, <1>4, <2>1, CoTyped
  <1>7. ASSUME NEW m \in New
        PROVE  /\ m \in Request /\ m.xid = x /\ m.func = func /\ m.cd > lastcd
               /\ m.cd \in 1..(lastcd + C)
    <2>1. PICK g \in Called(P, k) : m = [cd |-> Cd(P, g), grp |-> g, func |-> func, xid |-> x]
      OBVIOUS
    <2>2. g \in P /\ g \in Groups
      BY <1>2
    <2>3. Cd(P, g) \in Nat /\ Cd(P, g) > lastcd /\ Cd(P, g) <= lastcd + C
      BY <1>2, <2>2
    <2>4. m.cd = Cd(P, g) /\ m.xid = x /\ m.func = func /\ m \in Request
      BY <2>1, <2>2, <2>3 DEF Request
    <2> QED
      BY <1>1, <1>2, <2>3, <2>4
  <1>8. ASSUME NEW m \in New, NEW n \in New, m.cd = n.cd PROVE m = n
    <2>1. PICK g \in Called(P, k) : m = [cd |-> Cd(P, g), grp |-> g, func |-> func, xid |-> x]
      OBVIOUS
    <2>2. PICK h \in Called(P, k) : n = [cd |-> Cd(P, h), grp |-> h, func |-> func, xid |-> x]
      OBVIOUS
    <2>3. Cd(P, g) = Cd(P, h)
      BY <1>8, <2>1, <2>2
    <2>4. g = h
      BY <1>2, <2>3
    <2> QED
      BY <2>1, <2>2, <2>4
  <1> HIDE DEF New
  <1>9. CallType'
    <2>1. requests' \subseteq Request /\ lastcd' \in Nat
      BY <1>1, <1>2, <1>4, <1>7
    <2> QED
      BY <1>1, <1>6, <2>1 DEF CallType
  <1>10. \A m \in requests : m.cd \in 1..lastcd /\ m.cd \in 1..(lastcd + C)
    BY <1>1, <1>2 DEF CdInv
  <1>11. \A r \in replies : r.cd \in 1..lastcd /\ r.cd \in 1..(lastcd + C)
    BY <1>1, <1>2 DEF CdInv
  <1>12. \A m \in New : (\A n \in requests : m.cd # n.cd) /\ (\A r \in replies : m.cd # r.cd)
    BY <1>1, <1>7, <1>10, <1>11
  <1>13. \A m, n \in requests' : m.cd = n.cd => m = n
    BY <1>4, <1>8, <1>12 DEF CdInv
  <1>14. \A m \in requests', r \in replies' : m.cd # r.cd
    BY <1>4, <1>12 DEF CdInv
  <1>15. \A m \in requests' : m.cd \in 1..lastcd'
    BY <1>4, <1>7, <1>10
  <1>16. \A r \in replies' : r.cd \in 1..lastcd'
    BY <1>4, <1>11
  <1>17. CdInv'
    BY <1>13, <1>14, <1>15, <1>16 DEF CdInv
  <1> QED
    BY <1>4, <1>5, <1>7, <1>9, <1>17

-----------------------------------------------------------------------------
(* Two-phase commit *)

\* What a branch is before a TM executes a request, and what it and the reply
\* say afterwards.
Ready(func, b) ==
  \/ func = "prepare" /\ b \in {"idle", "failed"}
  \/ func = "commit" /\ b = "prepared"
  \/ func = "rollback" /\ b \in {"idle", "failed", "prepared", "aborted"}
Voted(func, ret, b) ==
  \/ func = "prepare" /\ ret = "ok" /\ b = "prepared"
  \/ func = "prepare" /\ ret = "rdonly" /\ b = "readonly"
  \/ func = "prepare" /\ ret = "rb" /\ b = "aborted"
  \/ func = "commit" /\ b \in {"committed", "aborted"}
  \/ func = "rollback" /\ b = "aborted"

Asked(cd) == \E m \in requests : m.cd = cd
Answered(cd) == \E r \in replies : r.cd = cd
Of(g) == co.parts[g].cd
Open == {g \in DOMAIN co.parts : Asked(Of(g)) \/ Answered(Of(g))}

\* Every call of the phase was made.  Each part has a descriptor of its own;
\* requests for the transaction are those of its parts; the branch is ready
\* while the request is there and as the reply says afterwards; the counter
\* counts the parts whose reply is still to come; other groups have nothing
\* to do.
Good ==
  /\ \A g \in DOMAIN co.parts : Of(g) \in 1..lastcd
  /\ \A g, h \in DOMAIN co.parts : Of(g) = Of(h) => g = h
  /\ \A m \in requests : m.xid = co.xid =>
       m.func = co.phase /\ m.grp \in DOMAIN co.parts /\ m.cd = Of(m.grp)
  /\ \A g \in DOMAIN co.parts, m \in requests : m.cd = Of(g) =>
       m.grp = g /\ m.xid = co.xid /\ Ready(co.phase, br[g][co.xid])
  /\ \A g \in DOMAIN co.parts, r \in replies : r.cd = Of(g) =>
       Voted(co.phase, r.ret, br[g][co.xid])
  /\ \A g \in DOMAIN co.parts \ Open : Voted(co.phase, co.parts[g].result, br[g][co.xid])
  /\ co.pending = Cardinality(Open)
  /\ \A g \in Groups \ DOMAIN co.parts : br[g][co.xid] \in {"none", "readonly"}

\* A TM could not be called.
Failed ==
  /\ "SendFails" \in may
  /\ \E g \in DOMAIN co.parts : Of(g) = -1 /\ co.parts[g].result = "err"

\* No call of an earlier phase can have failed.
Clean == co.phase = "prepare" \/ "SendFails" \notin may
CoInv == Committing /\ "Interrupts" \notin may /\ Clean => Good \/ Failed

LEMMA SendsGood ==
  ASSUME CallType, CdInv, NEW op \in {"commit", "rollback"}, NEW func \in Func, NEW x \in Xid,
         NEW P \in SUBSET Groups, NEW parts \in [P -> Part], NEW k \in P \cup {NoGroup},
         Sends(op, func, x, P, parts, k), UNCHANGED <<replies, may, outcome>>,
         \A m \in requests : m.xid # x,
         \A g \in P : Ready(func, br'[g][x]),
         \A g \in Groups \ P : br'[g][x] \in {"none", "readonly"}
  PROVE  Good' \/ Failed'
  <1>1. lastcd \in Nat /\ requests \subseteq Request /\ replies \subseteq Reply
    BY DEF CallType
  <1>2. /\ co'.phase = func /\ co'.xid = x /\ co'.parts = Calls(parts, k)
    BY SendsTypes
  <1>3. /\ DOMAIN co'.parts = P
        /\ \A g \in Called(P, k) : co'.parts[g].cd = Cd(P, g)
        /\ k # NoGroup => co'.parts[k] = [cd |-> -1, result |-> "err"]
    <2>1. /\ DOMAIN Calls(parts, k) = P
          /\ \A g \in Called(P, k) : Calls(parts, k)[g].cd = Cd(P, g)
          /\ k # NoGroup => Calls(parts, k)[k] = [cd |-> -1, result |-> "err"]
      BY <1>1, CallsParts
    <2> QED
      BY <1>2, <2>1
  <1>4. CASE k # NoGroup
    <2>1. k \in P /\ "SendFails" \in may'
      BY <1>4 DEF Sends
    <2>2. Of(k)' = -1 /\ co'.parts[k].result = "err"
      BY <1>3, <1>4 DEF Of
    <2> QED
      BY <1>3, <2>1, <2>2 DEF Failed
  <1>5. CASE k = NoGroup
    <2>1. Called(P, k) = P
      BY <1>5 DEF Called
    <2>2. /\ IsFiniteSet(P) /\ Cardinality(P) \in Nat
          /\ \A g \in P : Cd(P, g) \in Nat /\ Cd(P, g) > lastcd
          /\ \A g \in P : Cd(P, g) <= lastcd + Cardinality(P)
          /\ \A g, h \in P : Cd(P, g) = Cd(P, h) => g = h
      BY <1>1, <2>1, Ranks
    <2>3. /\ lastcd' = lastcd + Cardinality(P)
          /\ co'.pending = Cardinality(P)
          /\ requests' = requests \cup
               {[cd |-> Cd(P, g), grp |-> g, func |-> func, xid |-> x] : g \in P}
      BY <2>1 DEF Sends
    <2>4. \A g \in P : Of(g)' = Cd(P, g)
      BY <1>3, <2>1 DEF Of
    <2>5. \A g \in P : Of(g)' \in 1..lastcd'
      BY <1>1, <2>2, <2>3, <2>4
    <2>6. \A g, h \in P : Of(g)' = Of(h)' => g = h
      BY <2>2, <2>4
    <2>7. ASSUME NEW m \in requests', m \notin requests
          PROVE  m.grp \in P /\ m.cd = Cd(P, m.grp) /\ m.func = func /\ m.xid = x
      <3>1. PICK g \in P : m = [cd |-> Cd(P, g), grp |-> g, func |-> func, xid |-> x]
        BY <2>3, <2>7
      <3> QED
        BY <3>1
    <2>8. \A m \in requests : m.cd <= lastcd /\ m.cd \in Nat
      BY <1>1 DEF CdInv
    <2>9. \A m \in requests' : m.xid = x => m.func = func /\ m.grp \in P /\ m.cd = Of(m.grp)'
      BY <2>4, <2>7
    <2>10. ASSUME NEW g \in P, NEW m \in requests', m.cd = Of(g)'
           PROVE  m.grp = g /\ m.xid = x /\ Ready(func, br'[g][x])
      <3>1. m \notin requests
        BY <1>1, <2>2, <2>4, <2>8, <2>10
      <3>2. m.grp \in P /\ m.cd = Cd(P, m.grp) /\ m.xid = x
        BY <2>7, <3>1
      <3>3. Cd(P, m.grp) = Cd(P, g)
        BY <2>4, <2>10, <3>2
      <3>4. m.grp = g
        BY <2>2, <3>2, <3>3
      <3> QED
        BY <3>2, <3>4
    <2>11. \A g \in P, r \in replies' : r.cd # Of(g)'
      <3>1. \A r \in replies : r.cd \in 1..lastcd
        BY DEF CdInv
      <3> QED
        BY <1>1, <2>2, <2>4, <3>1
    <2>12. Open' = P
      <3>1. ASSUME NEW g \in P PROVE Asked(Of(g))'
        <4>1. [cd |-> Cd(P, g), grp |-> g, func |-> func, xid |-> x] \in requests'
          BY <2>3
        <4>2. \E m \in requests' : m.cd = Of(g)'
          BY <2>4, <4>1
        <4> QED
          BY <4>2 DEF Asked
      <3> QED
        BY <1>3, <3>1 DEF Open
    <2>13. co'.pending = Cardinality(Open')
      BY <2>3, <2>12
    <2>14. Good'
      BY <1>2, <1>3, <2>5, <2>6, <2>9, <2>10, <2>11, <2>12, <2>13 DEF Good
    <2> QED
      BY <2>14
  <1> QED
    BY <1>4, <1>5

-----------------------------------------------------------------------------
(* The steps *)

BaseInv == ThreadInv /\ CallType /\ EndInv /\ CdInv

\* A step of the thread outside of tx_commit and tx_rollback.
Quiet ==
  /\ ThreadInv' /\ Keeps(table, br, table', br') /\ CallType'
  /\ UNCHANGED <<requests, replies, lastcd, may>>
  /\ ~Committing /\ ~Committing'
  /\ outcome' = outcome \/ "RMFails" \in may

\* The calls of the first phase.
Begins(op) ==
  /\ ThreadInv' /\ Keeps(table, br, table', br')
  /\ ~Committing
  /\ command(op, FirstPhase(op), ctx.xid, collect(ctx.xid))
  /\ UNCHANGED <<replies, may, outcome>>

LEMMA Terminated ==
  ASSUME CallType, Terminate, UNCHANGED <<requests, replies, lastcd, may>>,
         outcome' \in [Xid -> {"none", "committed", "failed", "rolledback", "error"}]
  PROVE  CallType' /\ ~Committing'
  <1>1. /\ DOMAIN co.parts \in SUBSET Groups
        /\ co.parts \in [DOMAIN co.parts -> Part]
        /\ co.op \in {"none", "commit", "rollback"}
        /\ co.xid \in Xid \cup {NoTrx} /\ co.pending \in Int
        /\ co.buf \in Ret \cup {"absent"}
        /\ co = [op |-> co.op, phase |-> co.phase, xid |-> co.xid, parts |-> co.parts,
                 pending |-> co.pending, buf |-> co.buf]
    BY CoTypes
  <1>2. co' = [op |-> co.op, phase |-> "terminated", xid |-> co.xid, parts |-> co.parts,
               pending |-> co.pending, buf |-> co.buf]
    BY <1>1 DEF Terminate
  <1>3. "terminated" \in {"none", "terminated"} \cup Func
    OBVIOUS
  <1>4. \E Q \in SUBSET Groups :
          co' \in [op : {"none", "commit", "rollback"}, phase : {"none"} \cup Func
                     \cup {"terminated"}, xid : Xid \cup {NoTrx}, parts : [Q -> Part],
                   pending : Int, buf : Ret \cup {"absent"}]
    BY <1>1, <1>2, <1>3, CoTyped
  <1>5. co'.phase = "terminated"
    BY <1>2
  <1> QED
    BY <1>4, <1>5 DEF CallType, Committing, Func

LEMMA QuietSteps ==
  ASSUME ThreadInv, CallType,
         \/ tx_open \/ tx_close \/ tx_set_transaction_control \/ tx_end_fails \/ tx_begin
         \/ tpsuspend \/ (\E g \in Groups : tpcall(g)) \/ (\E x \in saved : tpresume(x))
  PROVE  Quiet
  <1>1. ThreadInv' /\ Keeps(table, br, table', br')
    BY QuietThread, BeginThread, CallThread, SuspendThread, ResumeThread
  <1>2. ~Committing
    <2>1. Thread
      BY ZenonT(30) DEF tx_open, tx_close, tx_set_transaction_control, tx_end_fails, tx_begin,
                        tpsuspend, tpcall, tpresume
    <2> QED
      BY <2>1 DEF Thread, Committing, Func
  <1>3. CASE \/ tx_open \/ tx_close \/ tx_set_transaction_control
             \/ tpsuspend \/ (\E g \in Groups : tpcall(g)) \/ (\E x \in saved : tpresume(x))
    <2>1. UNCHANGED <<co, requests, replies, lastcd, may, outcome>>
      BY <1>3 DEF tx_open, tx_close, tx_set_transaction_control, tpsuspend, tpcall, tpresume, rest
    <2>2. CallType' /\ ~Committing'
      BY <1>2, <2>1 DEF CallType, Committing
    <2> QED
      BY <1>1, <1>2, <2>1, <2>2, ZenonT(30) DEF Quiet
  <1>4. CASE tx_begin
    <2>1. UNCHANGED <<requests, replies, lastcd, may, outcome>>
      BY <1>4 DEF tx_begin, rest
    <2>2. CASE co' = co
      <3>1. CallType' /\ ~Committing'
        BY <1>2, <2>1, <2>2 DEF CallType, Committing
      <3> QED
        BY <1>1, <1>2, <2>1, <3>1 DEF Quiet
    <2>3. CASE Terminate
      <3>1. outcome' \in [Xid -> {"none", "committed", "failed", "rolledback", "error"}]
        BY <2>1 DEF CallType
      <3>2. CallType' /\ ~Committing'
        BY <2>1, <2>3, <3>1, Terminated
      <3> QED
        BY <1>1, <1>2, <2>1, <3>2 DEF Quiet
    <2> QED
      BY <1>4, <2>2, <2>3 DEF tx_begin
  <1>5. CASE tx_end_fails
    <2>1. UNCHANGED <<co, requests, replies, lastcd, may>> /\ "RMFails" \in may
      BY <1>5 DEF tx_end_fails
    <2>2. outcome' \in [Xid -> {"none", "committed", "failed", "rolledback", "error"}]
      BY <1>5 DEF tx_end_fails, CallType
    <2>3. CallType' /\ ~Committing'
      BY <1>2, <2>1, <2>2 DEF CallType, Committing
    <2> QED
      BY <1>1, <1>2, <2>1, <2>3 DEF Quiet
  <1> QED
    BY <1>3, <1>4, <1>5

LEMMA EndSteps ==
  ASSUME ThreadInv, CallType, NEW op, tx_end(op)
  PROVE  Quiet \/ Begins(op)
  <1>1. ThreadInv' /\ Keeps(table, br, table', br') /\ ctx.xid \in Xid
    BY EndThread
  <1>2. ~Committing /\ UNCHANGED <<replies, may>>
    BY DEF tx_end, Thread, Committing, Func
  <1>3. CASE command(op, FirstPhase(op), ctx.xid, collect(ctx.xid)) /\ outcome' = outcome
    BY <1>1, <1>2, <1>3 DEF Begins
  <1>4. CASE /\ UNCHANGED <<co, requests, lastcd>> /\ FALSE \in Outcomes
             /\ outcome' = [outcome EXCEPT ![ctx.xid] = "error"]
    <2>1. "RMFails" \in may
      BY <1>4 DEF Outcomes
    <2>2. outcome' \in [Xid -> {"none", "committed", "failed", "rolledback", "error"}]
      BY <1>4 DEF CallType
    <2>3. CallType' /\ ~Committing'
      BY <1>2, <1>4, <2>2 DEF CallType, Committing
    <2> QED
      BY <1>1, <1>2, <1>4, <2>1, <2>3 DEF Quiet
  <1>5. CASE Terminate /\ UNCHANGED <<requests, lastcd, outcome>>
    <2>1. outcome' \in [Xid -> {"none", "committed", "failed", "rolledback", "error"}]
      BY <1>5 DEF CallType
    <2>2. CallType' /\ ~Committing'
      BY <1>2, <1>5, <2>1, Terminated
    <2> QED
      BY <1>1, <1>2, <1>5, <2>2 DEF Quiet
  <1>6. \/ command(op, FirstPhase(op), ctx.xid, collect(ctx.xid)) /\ outcome' = outcome
        \/ \E ok \in Outcomes :
             \/ ok /\ command(op, FirstPhase(op), ctx.xid, collect(ctx.xid)) /\ UNCHANGED outcome
             \/ ~ok /\ outcome' = [outcome EXCEPT ![ctx.xid] = "error"]
                    /\ UNCHANGED <<co, requests, lastcd>>
        \/ Terminate /\ UNCHANGED <<requests, lastcd, outcome>>
    BY DEF tx_end
  <1>7. \A ok \in Outcomes : ~ok => ok = FALSE
    BY DEF Outcomes
  <1> QED
    BY <1>3, <1>4, <1>5, <1>6, <1>7

\* Storing a result leaves the descriptors alone.
LEMMA Stored ==
  ASSUME CallType, NEW cd, NEW buf \in Ret \cup {"absent"}, Store(cd, buf), ~Terminate
  PROVE  /\ \E Q \in SUBSET Groups :
              co' \in [op : {"none", "commit", "rollback"}, phase : {"none"} \cup Func
                         \cup {"terminated"}, xid : Xid \cup {NoTrx}, parts : [Q -> Part],
                       pending : Int, buf : Ret \cup {"absent"}]
         /\ co'.phase = co.phase /\ co'.xid = co.xid /\ co'.op = co.op
         /\ DOMAIN co'.parts = DOMAIN co.parts
         /\ \A g \in DOMAIN co.parts :
              /\ Of(g)' = Of(g)
              /\ co'.parts[g].result = IF Of(g) = cd THEN buf ELSE co.parts[g].result
         /\ co'.pending = co.pending - Cardinality(Matched(cd))
  <1> DEFINE P == DOMAIN co.parts
             f(g) == IF g \in Matched(cd) THEN [co.parts[g] EXCEPT !.result = buf]
                     ELSE co.parts[g]
             parts == [g \in P |-> f(g)]
             n == co.pending - Cardinality(Matched(cd))
  <1>1. /\ P \in SUBSET Groups
        /\ co.parts \in [P -> Part]
        /\ co.op \in {"none", "commit", "rollback"}
        /\ co.phase \in {"none", "terminated"} \cup Func
        /\ co.xid \in Xid \cup {NoTrx} /\ co.pending \in Int
        /\ co = [op |-> co.op, phase |-> co.phase, xid |-> co.xid, parts |-> co.parts,
                 pending |-> co.pending, buf |-> co.buf]
    BY CoTypes
  <1>2. ~(Matched(cd) # {} /\ buf = "absent")
    BY DEF Store
  <1>3. co' = [op |-> co.op, phase |-> co.phase, xid |-> co.xid, parts |-> parts,
               pending |-> n, buf |-> buf]
    <2>1. co' = [co EXCEPT !.parts = parts, !.pending = n, !.buf = buf]
      BY <1>2 DEF Store
    <2> HIDE DEF P, f, parts, n
    <2> QED
      BY <1>1, <2>1
  <1>4. n \in Int
    <2>1. Matched(cd) \in SUBSET P
      BY DEF Matched
    <2>2. IsFiniteSet(Matched(cd))
      BY <1>1, <2>1, TxAssumption, FS_Subset
    <2> QED
      BY <1>1, <2>2, FS_CardinalityType
  <1>5. ASSUME NEW g \in P
        PROVE  /\ f(g) \in Part /\ f(g).cd = co.parts[g].cd
               /\ f(g).result = IF co.parts[g].cd = cd THEN buf ELSE co.parts[g].result
    <2>1. co.parts[g] \in Part /\ (g \in Matched(cd) <=> co.parts[g].cd = cd)
      BY <1>1 DEF Matched
    <2>2. CASE g \in Matched(cd)
      <3>1. buf \in Ret
        BY <1>2, <2>2
      <3> QED
        BY <2>1, <2>2, <3>1 DEF Part
    <2>3. CASE g \notin Matched(cd)
      BY <2>1, <2>3
    <2> QED
      BY <2>2, <2>3
  <1> HIDE DEF f, n
  <1>6. /\ parts \in [P -> Part] /\ DOMAIN parts = P
        /\ \A g \in P : /\ parts[g].cd = co.parts[g].cd
                        /\ parts[g].result = IF co.parts[g].cd = cd THEN buf
                                             ELSE co.parts[g].result
    BY <1>5
  <1> HIDE DEF P, parts
  <1>7. \E Q \in SUBSET Groups :
          co' \in [op : {"none", "commit", "rollback"}, phase : {"none"} \cup Func
                     \cup {"terminated"}, xid : Xid \cup {NoTrx}, parts : [Q -> Part],
                   pending : Int, buf : Ret \cup {"absent"}]
    BY <1>1, <1>3, <1>4, <1>6, CoTyped
  <1>8. /\ co'.phase = co.phase /\ co'.xid = co.xid /\ co'.op = co.op
        /\ co'.parts = parts /\ co'.pending = n
    BY <1>3
  <1>9. \A g \in P : /\ Of(g)' = Of(g)
                     /\ co'.parts[g].result = IF Of(g) = cd THEN buf ELSE co.parts[g].result
    BY <1>6, <1>8 DEF Of
  <1> QED
    BY <1>6, <1>7, <1>8, <1>9 DEF P, n

\* A step of the loop that waits for replies.
Waits(cd, buf) ==
  /\ Waiting
  /\ ThreadInv' /\ Keeps(table, br, table', br') /\ CallType'
  /\ Store(cd, buf)
  /\ UNCHANGED <<requests, lastcd, outcome, may>> /\ replies' \subseteq replies

LEMMA WaitSteps ==
  ASSUME ThreadInv, CallType, NEW cd, NEW buf \in Ret \cup {"absent"},
         Waiting, Store(cd, buf), suspend_guard(br),
         UNCHANGED <<saved, table, requests, lastcd, outcome, may>>, replies' \subseteq replies
  PROVE  Waits(cd, buf)
  <1>1. ThreadInv' /\ Keeps(table, br, table', br')
    BY WaitThread
  <1>2. \E Q \in SUBSET Groups :
          co' \in [op : {"none", "commit", "rollback"}, phase : {"none"} \cup Func
                     \cup {"terminated"}, xid : Xid \cup {NoTrx}, parts : [Q -> Part],
                   pending : Int, buf : Ret \cup {"absent"}]
    <2>1. CASE Terminate
      <3>1. /\ DOMAIN co.parts \in SUBSET Groups
            /\ co.parts \in [DOMAIN co.parts -> Part]
            /\ co.op \in {"none", "commit", "rollback"}
            /\ co.xid \in Xid \cup {NoTrx} /\ co.pending \in Int
            /\ co.buf \in Ret \cup {"absent"}
            /\ co = [op |-> co.op, phase |-> co.phase, xid |-> co.xid, parts |-> co.parts,
                     pending |-> co.pending, buf |-> co.buf]
        BY CoTypes
      <3>2. co' = [op |-> co.op, phase |-> "terminated", xid |-> co.xid, parts |-> co.parts,
                   pending |-> co.pending, buf |-> co.buf]
        BY <2>1, <3>1 DEF Terminate
      <3>3. "terminated" \in {"none", "terminated"} \cup Func
        OBVIOUS
      <3> QED
        BY <3>1, <3>2, <3>3, CoTyped
    <2>2. CASE ~Terminate
      BY <2>2, Stored
    <2> QED
      BY <2>1, <2>2
  <1>3. CallType'
    BY <1>2 DEF CallType
  <1> QED
    BY <1>1, <1>3 DEF Waits

LEMMA GetrplySteps ==
  ASSUME ThreadInv, CallType
  PROVE  /\ \A r \in replies : getrply(r) => Waits(r.cd, r.ret) /\ replies' = replies \ {r}
         /\ getrply_timeout => Waits(0, co.buf) /\ replies' = replies
         /\ getrply_interrupted => \E cd \in 0..lastcd : Waits(cd, co.buf) /\ "Interrupts" \in may
                                                          /\ replies' = replies
  <1>1. co.buf \in Ret \cup {"absent"}
    BY CoTypes
  <1>2. ASSUME NEW r \in replies, getrply(r) PROVE Waits(r.cd, r.ret) /\ replies' = replies \ {r}
    <2>1. r.ret \in Ret \cup {"absent"}
      BY DEF CallType, Reply
    <2> QED
      BY <1>2, <2>1, WaitSteps DEF getrply
  <1>3. ASSUME getrply_timeout PROVE Waits(0, co.buf) /\ replies' = replies
    BY <1>1, <1>3, WaitSteps DEF getrply_timeout
  <1>4. ASSUME getrply_interrupted
        PROVE  \E cd \in 0..lastcd : Waits(cd, co.buf) /\ "Interrupts" \in may /\ replies' = replies
    <2>1. PICK cd \in 0..lastcd : Store(cd, co.buf)
      BY <1>4 DEF getrply_interrupted
    <2>2. Waits(cd, co.buf)
      BY <1>1, <1>4, <2>1, WaitSteps DEF getrply_interrupted
    <2> QED
      BY <1>4, <2>2 DEF getrply_interrupted
  <1> QED
    BY <1>2, <1>3, <1>4

\* The second phase.
Interest == {g \in DOMAIN co.parts : Interested(co.parts[g])}
Second == IF \A g \in Interest : co.parts[g].result = "ok" THEN "commit" ELSE "rollback"

LEMMA DecideSteps ==
  ASSUME CallType, decide
  PROVE  /\ Interest \in SUBSET Groups /\ Restrict(co.parts, Interest) \in [Interest -> Part]
         /\ \A g \in Interest : Restrict(co.parts, Interest)[g] = co.parts[g]
         /\ command("commit", Second, co.xid, Restrict(co.parts, Interest))
         /\ co.phase = "prepare" /\ co.pending <= 0
         /\ UNCHANGED <<ctx, saved, table, br, replies, outcome, may>>
  <1>1. DOMAIN co.parts \in SUBSET Groups /\ co.parts \in [DOMAIN co.parts -> Part]
    BY CoTypes
  <1> DEFINE p == Restrict(co.parts, Interest)
  <1>2. p = [g \in Interest |-> co.parts[g]]
    BY DEF Restrict
  <1>3. Interest \in SUBSET DOMAIN co.parts
    BY DEF Interest
  <1>4. /\ p \in [Interest -> Part] /\ DOMAIN p = Interest
        /\ \A g \in Interest : p[g] = co.parts[g]
    BY <1>1, <1>2, <1>3
  <1>5. command("commit", IF \A g \in DOMAIN p : p[g].result = "ok" THEN "commit" ELSE "rollback",
                co.xid, p)
    BY DEF decide, Interest
  <1> HIDE DEF p
  <1>6. Second = IF \A g \in DOMAIN p : p[g].result = "ok" THEN "commit" ELSE "rollback"
    BY <1>4 DEF Second
  <1> QED
    BY <1>1, <1>3, <1>4, <1>5, <1>6 DEF decide, Done, p

LEMMA FinishSteps ==
  ASSUME ThreadInv, CallType, EndInv, finish
  PROVE  /\ ThreadInv' /\ Keeps(table, br, table', br') /\ CallType'
         /\ ~Committing' /\ Committing /\ co.pending <= 0 /\ co.phase # "prepare"
         /\ co.xid \in Xid
         /\ \A x \in Xid : x # co.xid => outcome'[x] = outcome[x]
         /\ UNCHANGED <<requests, replies, lastcd, may>>
  <1>1. ThreadInv' /\ Keeps(table, br, table', br')
    BY FinishThread
  <1>2. /\ Committing /\ co.pending <= 0 /\ co.phase # "prepare"
        /\ UNCHANGED <<requests, replies, lastcd, may>>
    BY DEF finish, Done, Committing, Func
  <1>3. co.xid \in Xid
    BY <1>2 DEF EndInv
  <1>4. PICK o \in {"none", "committed", "failed", "rolledback", "error"} :
          outcome' = [outcome EXCEPT ![co.xid] = o]
    BY DEF finish
  <1>5. /\ outcome' \in [Xid -> {"none", "committed", "failed", "rolledback", "error"}]
        /\ \A x \in Xid : x # co.xid => outcome'[x] = outcome[x]
    BY <1>4 DEF CallType
  <1>6. CASE co' = Idle
    <2>1. NoParts \in [{} -> Part]
      BY DEF NoParts
    <2>2. /\ "none" \in {"none", "commit", "rollback"} /\ "none" \in {"none", "terminated"} \cup Func
          /\ NoTrx \in Xid \cup {NoTrx} /\ {} \in SUBSET Groups /\ 0 \in Int
          /\ "absent" \in Ret \cup {"absent"}
      OBVIOUS
    <2>3. co' = [op |-> "none", phase |-> "none", xid |-> NoTrx, parts |-> NoParts,
                 pending |-> 0, buf |-> "absent"]
      BY <1>6 DEF Idle
    <2>4. \E Q \in SUBSET Groups :
            co' \in [op : {"none", "commit", "rollback"}, phase : {"none"} \cup Func
                       \cup {"terminated"}, xid : Xid \cup {NoTrx}, parts : [Q -> Part],
                     pending : Int, buf : Ret \cup {"absent"}]
      BY <2>1, <2>2, <2>3, CoTyped
    <2>5. CallType'
      BY <1>2, <1>5, <2>4 DEF CallType
    <2>6. ~Committing'
      BY <2>3 DEF Committing, Func
    <2> QED
      BY <1>1, <1>2, <1>3, <1>5, <2>5, <2>6
  <1>7. CASE Terminate
    <2>1. CallType' /\ ~Committing'
      BY <1>2, <1>5, <1>7, Terminated
    <2> QED
      BY <1>1, <1>2, <1>3, <1>5, <2>1
  <1> QED
    BY <1>6, <1>7 DEF finish

\* What has ended stays ended.
LEMMA KeepsEnded ==
  ASSUME NEW x \in Xid, EndedIn(br, x), Keeps(table, br, table', br')
  PROVE  EndedIn(br', x)
  BY TxAssumption DEF Keeps, EndedIn

LEMMA QuietBase ==
  ASSUME BaseInv, Quiet
  PROVE  BaseInv'
  <1>1. \A m \in requests : m.xid \in Xid /\ EndedIn(br, m.xid)
    BY DEF BaseInv, EndInv, CallType, Request
  <1>2. \A m \in requests : EndedIn(br', m.xid)
    BY <1>1, KeepsEnded DEF Quiet
  <1>3. EndInv'
    BY <1>2 DEF EndInv, Quiet
  <1>4. CdInv'
    BY DEF BaseInv, CdInv, Quiet
  <1> QED
    BY <1>3, <1>4 DEF BaseInv, Quiet

\* The first phase: what it is about, and what it calls.
LEMMA BeginsBase ==
  ASSUME BaseInv, NEW op \in {"commit", "rollback"}, tx_end(op), Begins(op)
  PROVE  /\ BaseInv'
         /\ co'.phase = FirstPhase(op) /\ co'.xid = ctx.xid /\ co'.op = op
         /\ \A m \in requests' : m \in requests \/ (m.xid = ctx.xid /\ m.func = FirstPhase(op))
         /\ DOMAIN co'.parts = JoinedIn(table', ctx.xid)
         /\ Good' \/ Failed'
  <1> DEFINE x == ctx.xid
             P == table[x]
             parts == collect(x)
             func == FirstPhase(op)
  <1>1. /\ x \in Xid /\ P \in SUBSET Groups
        /\ ~EndedIn(br, x) /\ EndedIn(br', x)
        /\ JoinedIn(table', x) = P
        /\ \A g \in Groups : br'[g][x] \in IF g \in P THEN {"idle", "failed"} ELSE {"none"}
    BY EndThread DEF BaseInv
  <1>2. parts \in [P -> Part] /\ func \in Func /\ func \in {"prepare", "rollback"}
    BY DEF collect, Part, Ret, FirstPhase, Func
  <1>3. command(op, func, x, parts) /\ UNCHANGED <<replies, may, outcome>>
    BY DEF Begins
  <1> HIDE DEF x, P, parts, func
  <1>4. PICK k \in P \cup {NoGroup} : Sends(op, func, x, P, parts, k)
    BY <1>2, <1>3, CommandSends
  <1>5. CallType /\ CdInv /\ EndInv
    BY DEF BaseInv
  <1>6. /\ CallType' /\ CdInv'
        /\ co'.phase = func /\ co'.xid = x /\ co'.op = op
        /\ co'.parts = Calls(parts, k)
        /\ \A m \in requests' : m \in requests \/ (m.xid = x /\ m.func = func /\ m.cd > lastcd)
    BY <1>1, <1>2, <1>3, <1>4, <1>5, SendsTypes
  <1>6a. lastcd \in Nat
    BY <1>5 DEF CallType
  <1>7. DOMAIN Calls(parts, k) = P
    BY <1>1, <1>2, <1>6a, CallsParts
  <1>8. \A m \in requests : m.xid \in Xid /\ EndedIn(br, m.xid)
    BY <1>5 DEF EndInv, CallType, Request
  <1>9. \A m \in requests : m.xid # x /\ EndedIn(br', m.xid)
    BY <1>1, <1>8, KeepsEnded DEF Begins
  <1>10. EndInv'
    BY <1>1, <1>6, <1>9 DEF EndInv
  <1>11. \A g \in P : Ready(func, br'[g][x])
    BY <1>1, <1>2 DEF Ready
  <1>12. \A g \in Groups \ P : br'[g][x] \in {"none", "readonly"}
    BY <1>1
  <1>13. Good' \/ Failed'
    BY <1>1, <1>2, <1>3, <1>4, <1>5, <1>9, <1>11, <1>12, SendsGood
  <1> QED
    BY <1>1, <1>6, <1>7, <1>10, <1>13 DEF BaseInv, Begins, x, func

\* Taking a reply, or not getting one, leaves the phase as it is or ends the
\* program.
LEMMA WaitsPhase ==
  ASSUME CallType, NEW cd, NEW buf \in Ret \cup {"absent"}, Waits(cd, buf)
  PROVE  /\ Committing /\ (Committing' => co'.phase = co.phase /\ co'.xid = co.xid)
         /\ Committing' => ~Terminate
         /\ co'.phase \in {co.phase, "terminated"}
  <1>1. Committing
    BY DEF Waits, Waiting, Committing
  <1>2. CASE Terminate
    <2>1. co'.phase = "terminated"
      BY <1>2, CoTypes DEF Terminate
    <2> QED
      BY <1>1, <2>1 DEF Committing, Func
  <1>3. CASE ~Terminate
    BY <1>1, <1>3, Stored DEF Waits
  <1> QED
    BY <1>2, <1>3

LEMMA WaitsBase ==
  ASSUME BaseInv, NEW cd, NEW buf \in Ret \cup {"absent"}, Waits(cd, buf)
  PROVE  BaseInv'
  <1>1. \A m \in requests : m.xid \in Xid /\ EndedIn(br, m.xid)
    BY DEF BaseInv, EndInv, CallType, Request
  <1>2. \A m \in requests : EndedIn(br', m.xid)
    BY <1>1, KeepsEnded DEF Waits
  <1>3. Committing' => co'.xid \in Xid /\ EndedIn(br', co'.xid)
    <2>1. Committing' => co'.xid = co.xid /\ Committing
      BY WaitsPhase DEF BaseInv
    <2>2. Committing => co.xid \in Xid /\ EndedIn(br', co.xid)
      BY KeepsEnded DEF BaseInv, EndInv, Waits
    <2> QED
      BY <2>1, <2>2
  <1>4. EndInv'
    BY <1>2, <1>3 DEF EndInv, Waits
  <1>5. CdInv'
    BY DEF BaseInv, CdInv, Waits
  <1> QED
    BY <1>4, <1>5 DEF BaseInv, Waits

LEMMA SecondFunc == Second \in {"commit", "rollback"} /\ Second \in Func
  BY DEF Second, Func

\* The second phase is about the transaction of the first.
LEMMA DecideBase ==
  ASSUME BaseInv, decide
  PROVE  /\ BaseInv'
         /\ co.xid \in Xid /\ co'.phase = Second /\ co'.xid = co.xid /\ co'.op = "commit"
         /\ \A m \in requests' : m \in requests \/ (m.xid = co.xid /\ m.func = Second)
         /\ UNCHANGED <<ctx, saved, table, br, replies, outcome, may>>
  <1>1. CallType /\ CdInv /\ EndInv
    BY DEF BaseInv
  <1> DEFINE parts == Restrict(co.parts, Interest)
  <1>2. /\ Interest \in SUBSET Groups /\ parts \in [Interest -> Part]
        /\ command("commit", Second, co.xid, parts)
        /\ co.phase = "prepare"
        /\ UNCHANGED <<ctx, saved, table, br, replies, outcome, may>>
    BY <1>1, DecideSteps
  <1>3. co.xid \in Xid /\ EndedIn(br, co.xid)
    BY <1>1, <1>2 DEF EndInv, Committing, Func
  <1> HIDE DEF parts
  <1>4. PICK k \in Interest \cup {NoGroup} : Sends("commit", Second, co.xid, Interest, parts, k)
    BY <1>2, CommandSends
  <1>5. /\ CallType' /\ CdInv'
        /\ co'.phase = Second /\ co'.xid = co.xid /\ co'.op = "commit"
        /\ \A m \in requests' :
             m \in requests \/ (m.xid = co.xid /\ m.func = Second /\ m.cd > lastcd)
    BY <1>1, <1>2, <1>3, <1>4, SecondFunc, SendsTypes
  <1>6. ThreadInv'
    BY <1>2 DEF BaseInv, ThreadInv
  <1>7. EndInv'
    BY <1>1, <1>2, <1>3, <1>5 DEF EndInv
  <1> QED
    BY <1>2, <1>3, <1>5, <1>6, <1>7 DEF BaseInv

LEMMA FinishBase ==
  ASSUME BaseInv, finish
  PROVE  BaseInv'
  <1>1. /\ ThreadInv' /\ Keeps(table, br, table', br') /\ CallType' /\ ~Committing'
        /\ UNCHANGED <<requests, replies, lastcd, may>>
    BY FinishSteps DEF BaseInv
  <1>2. \A m \in requests : m.xid \in Xid /\ EndedIn(br, m.xid)
    BY DEF BaseInv, EndInv, CallType, Request
  <1>3. \A m \in requests : EndedIn(br', m.xid)
    BY <1>1, <1>2, KeepsEnded
  <1>4. EndInv'
    BY <1>1, <1>3 DEF EndInv
  <1>5. CdInv'
    BY <1>1 DEF BaseInv, CdInv
  <1> QED
    BY <1>1, <1>4, <1>5 DEF BaseInv

\* A TM takes the request, changes its own branch and answers.
Executes(m, e) ==
  /\ requests' = requests \ {m}
  /\ replies' = replies \cup {[cd |-> m.cd, ret |-> e[2]]}
  /\ \A h \in Groups, y \in Xid :
       br'[h][y] = IF h = m.grp /\ y = m.xid THEN e[1] ELSE br[h][y]
  /\ UNCHANGED <<ctx, saved, table, co, lastcd, outcome, may>>

LEMMA TmBase ==
  ASSUME BaseInv, NEW m \in requests, TM(m)
  PROVE  /\ BaseInv'
         /\ m \in Request /\ EndedIn(br, m.xid) /\ br[m.grp][m.xid] \in Branch
         /\ \A y \in Xid :
              /\ EndedIn(br', y) <=> EndedIn(br, y)
              /\ br'[g0][y] = "active" <=> br[g0][y] = "active"
              /\ br'[g0][y] = "suspended" <=> br[g0][y] = "suspended"
         /\ \E e \in Executed(m.func, br[m.grp][m.xid]) : Executes(m, e)
  <1>1. m \in Request /\ EndedIn(br, m.xid)
    BY DEF BaseInv, EndInv, CallType
  <1>2. m.cd \in Nat /\ m.grp \in Groups /\ m.func \in Func /\ m.xid \in Xid
    BY <1>1 DEF Request
  <1>3. /\ ThreadInv'
        /\ \A y \in Xid :
              /\ EndedIn(br', y) <=> EndedIn(br, y)
              /\ br'[g0][y] = "active" <=> br[g0][y] = "active"
              /\ br'[g0][y] = "suspended" <=> br[g0][y] = "suspended"
        /\ \E e \in Executed(m.func, br[m.grp][m.xid]) :
              /\ replies' = replies \cup {[cd |-> m.cd, ret |-> e[2]]}
              /\ \A h \in Groups, y \in Xid :
                   br'[h][y] = IF h = m.grp /\ y = m.xid THEN e[1] ELSE br[h][y]
    BY <1>1, TmThread DEF BaseInv, Request
  <1>4. /\ requests' = requests \ {m}
        /\ UNCHANGED <<ctx, saved, table, co, lastcd, outcome, may>>
    BY DEF TM
  <1>5. PICK e \in Executed(m.func, br[m.grp][m.xid]) : Executes(m, e)
    BY <1>3, <1>4 DEF Executes
  <1>6. br[m.grp][m.xid] \in Branch
    BY <1>2, ThreadTypes DEF BaseInv, Branches
  <1>7. e[2] \in Ret
    BY <1>2, <1>6, ExecutedBranch
  <1>8. CallType'
    <2>1. replies' \subseteq Reply
      BY <1>2, <1>5, <1>7 DEF Executes, BaseInv, CallType, Reply
    <2> QED
      BY <1>4, <2>1 DEF BaseInv, CallType
  <1>9. EndInv'
    <2>1. \A n \in requests : n.xid \in Xid /\ EndedIn(br, n.xid)
      BY DEF BaseInv, EndInv, CallType, Request
    <2>2. Committing' => Committing /\ co'.xid = co.xid
      BY <1>4 DEF Committing
    <2> QED
      BY <1>3, <1>4, <2>1, <2>2 DEF EndInv, BaseInv
  <1>10. CdInv'
    <2> DEFINE s == [cd |-> m.cd, ret |-> e[2]]
    <2>1. s.cd = m.cd /\ replies' = replies \cup {s} /\ requests' = requests \ {m} /\ lastcd' = lastcd
      BY <1>5 DEF Executes
    <2> HIDE DEF s
    <2> QED
      BY <2>1 DEF BaseInv, CdInv
  <1> QED
    BY <1>1, <1>3, <1>5, <1>6, <1>8, <1>9, <1>10 DEF BaseInv

LEMMA InitBase ==
  ASSUME Init
  PROVE  BaseInv
  <1>1. /\ table \in Seq(SUBSET Groups) /\ Len(table) = 0 /\ TableSize \in Nat
        /\ g0 \in Groups
    BY TxAssumption DEF Init
  <1>2. br \in Branches /\ \A g \in Groups, x \in Xid : br[g][x] = "none"
    BY DEF Init, Branches, Branch
  <1>3. \A x \in Xid : JoinedIn(table, x) = {} /\ ~EndedIn(br, x)
    BY <1>1, <1>2 DEF JoinedIn, EndedIn, Xid
  <1>4. World(table, br)
    BY <1>1, <1>2, <1>3 DEF World
  <1>5. Thinks(ctx, saved, table, br)
    BY <1>1 DEF Thinks, Init, State, InTrx, NoTrx, Xid
  <1>6. CallType
    <2>1. NoParts \in [{} -> Part] /\ {} \in SUBSET Groups
      BY DEF NoParts
    <2>2. co \in [op : {"none", "commit", "rollback"}, phase : {"none"} \cup Func
                 \cup {"terminated"}, xid : Xid \cup {NoTrx}, parts : [{} -> Part],
               pending : Int, buf : Ret \cup {"absent"}]
      BY <2>1 DEF Init, Idle
    <2>3. outcome \in [Xid -> {"none", "committed", "failed", "rolledback", "error"}]
      BY DEF Init
    <2> QED
      BY <2>1, <2>2, <2>3 DEF CallType, Init
  <1>7. EndInv /\ CdInv
    BY DEF EndInv, CdInv, Init, Idle, Committing, Func
  <1> QED
    BY <1>4, <1>5, <1>6, <1>7 DEF BaseInv, ThreadInv

\* The steps of the specification, by what they do to tx_commit and tx_rollback.
LEMMA Steps ==
  ASSUME BaseInv, [Next]_vars
  PROVE  \/ Quiet
         \/ \E op \in {"commit", "rollback"} : tx_end(op) /\ Begins(op)
         \/ \E m \in requests : TM(m)
         \/ \E r \in replies : getrply(r)
         \/ getrply_timeout
         \/ getrply_interrupted
         \/ decide
         \/ finish
         \/ UNCHANGED vars
  <1>1. ThreadInv /\ CallType
    BY DEF BaseInv
  <1>2. CASE \/ tx_open \/ tx_close \/ tx_set_transaction_control \/ tx_end_fails \/ tx_begin
             \/ tpsuspend \/ (\E g \in Groups : tpcall(g)) \/ (\E x \in saved : tpresume(x))
    BY <1>1, <1>2, QuietSteps
  <1>3. CASE \E op \in {"commit", "rollback"} : tx_end(op)
    BY <1>1, <1>3, EndSteps
  <1> QED
    BY <1>2, <1>3 DEF Next

\* What a reply, a time-out and an interrupted wait store is typed.
LEMMA WaitTypes ==
  ASSUME BaseInv
  PROVE  /\ co.buf \in Ret \cup {"absent"}
         /\ \A r \in replies : r.ret \in Ret \cup {"absent"} /\ r.cd \in Nat
  BY CoTypes DEF BaseInv, CallType, Reply

LEMMA BaseStep ==
  ASSUME BaseInv, [Next]_vars
  PROVE  BaseInv'
  <1>1. CASE Quiet
    BY <1>1, QuietBase
  <1>2. CASE \E op \in {"commit", "rollback"} : tx_end(op) /\ Begins(op)
    BY <1>2, BeginsBase
  <1>3. CASE \E m \in requests : TM(m)
    BY <1>3, TmBase
  <1>4. ThreadInv /\ CallType
    BY DEF BaseInv
  <1>5. CASE \E r \in replies : getrply(r)
    <2>1. PICK r \in replies : getrply(r)
      BY <1>5
    <2>2. Waits(r.cd, r.ret)
      BY <1>4, <2>1, GetrplySteps
    <2> QED
      BY <2>2, WaitTypes, WaitsBase
  <1>6. CASE getrply_timeout
    <2>1. Waits(0, co.buf)
      BY <1>4, <1>6, GetrplySteps
    <2> QED
      BY <2>1, WaitTypes, WaitsBase
  <1>7. CASE getrply_interrupted
    <2>1. PICK cd \in 0..lastcd : Waits(cd, co.buf)
      BY <1>4, <1>7, GetrplySteps
    <2> QED
      BY <2>1, WaitTypes, WaitsBase
  <1>8. CASE decide
    BY <1>8, DecideBase
  <1>9. CASE finish
    BY <1>9, FinishBase
  <1>10. CASE UNCHANGED vars
    BY <1>10 DEF BaseInv, ThreadInv, CallType, EndInv, CdInv, Committing, vars, World, Thinks
  <1> QED
    BY <1>1, <1>2, <1>3, <1>5, <1>6, <1>7, <1>8, <1>9, <1>10, Steps

LEMMA Base == Spec => []BaseInv
  <1>1. Init => BaseInv
    BY InitBase
  <1>2. BaseInv /\ [Next]_vars => BaseInv'
    BY BaseStep
  <1> QED
    BY <1>1, <1>2, PTL DEF Spec

\* The types of the transaction model: identifiers stay within the table, the
\* counter of tx_commit is a number and every request and reply is well formed.
THEOREM TypeCorrect == Spec => []TypeOK
  <1>1. BaseInv => TypeOK
    BY DEF BaseInv, ThreadInv, World, Thinks, CallType, TypeOK, Branches, Request, Reply
  <1> QED
    BY <1>1, Base, PTL

-----------------------------------------------------------------------------
(* The counter of command() and the parts it waits for                       *)

\* A TM whose branch is ready does what it was asked for.
LEMMA ReadyVotes ==
  ASSUME NEW f, NEW b, Ready(f, b), NEW e \in Executed(f, b)
  PROVE  Voted(f, e[2], e[1])
  <1>1. CASE f = "prepare"
    BY <1>1 DEF Ready, Executed, Voted
  <1>2. CASE f = "commit"
    BY <1>2 DEF Ready, Executed, Voted
  <1>3. CASE f = "rollback"
    BY <1>3 DEF Ready, Executed, Voted
  <1> QED
    BY <1>1, <1>2, <1>3 DEF Ready

\* A TM that executes a request leaves the parts as the replies say.
LEMMA TmGood ==
  ASSUME BaseInv, Committing, Good, NEW m \in requests, TM(m)
  PROVE  Good'
  <1> DEFINE x == co.xid
             P == DOMAIN co.parts
  <1>1. PICK e \in Executed(m.func, br[m.grp][m.xid]) : Executes(m, e)
    BY TmBase
  <1>2. x \in Xid /\ P \in SUBSET Groups /\ CdInv
    BY CoTypes DEF BaseInv, EndInv
  <1>3. /\ requests' = requests \ {m}
        /\ co' = co /\ lastcd' = lastcd
        /\ \A h \in Groups : br'[h][x] = IF h = m.grp /\ x = m.xid THEN e[1] ELSE br[h][x]
    BY <1>1, <1>2 DEF Executes
  <1>4. /\ \A r \in replies' : r \in replies \/ (r.cd = m.cd /\ r.ret = e[2])
        /\ \E r \in replies' : r.cd = m.cd
        /\ replies \subseteq replies'
    <2> DEFINE s == [cd |-> m.cd, ret |-> e[2]]
    <2>1. s.cd = m.cd /\ s.ret = e[2] /\ replies' = replies \cup {s}
      BY <1>1 DEF Executes
    <2> HIDE DEF s
    <2> QED
      BY <2>1
  <1>5. \A g \in P : Of(g)' = Of(g)
    BY <1>3 DEF Of
  <1>6. \A cd : (Asked(cd)' \/ Answered(cd)') <=> (Asked(cd) \/ Answered(cd))
    BY <1>3, <1>4 DEF Asked, Answered
  <1>7. Open' = Open
    BY <1>3, <1>5, <1>6 DEF Open
  \* The part the request is for, if there is one, is the only one that changes.
  <1>8. \A g \in P : m.cd = Of(g) =>
          /\ m.grp = g /\ m.xid = x /\ m.func = co.phase
          /\ Ready(co.phase, br[g][x])
    BY DEF Good
  <1>9. \A g \in P : m.cd = Of(g) => Voted(co.phase, e[2], br'[g][x])
    <2> SUFFICES ASSUME NEW g \in P, m.cd = Of(g)
                 PROVE  Voted(co.phase, e[2], br'[g][x])
      OBVIOUS
    <2>1. e \in Executed(co.phase, br[g][x]) /\ Ready(co.phase, br[g][x])
      BY <1>8
    <2>2. br'[g][x] = e[1]
      BY <1>2, <1>3, <1>8
    <2> QED
      BY <2>1, <2>2, ReadyVotes
  <1>10. \A h \in Groups : br'[h][x] = br[h][x] \/ (h \in P /\ m.cd = Of(h))
    <2>1. m.xid = x => m.grp \in P /\ m.cd = Of(m.grp)
      BY DEF Good
    <2> QED
      BY <1>3, <2>1
  <1> HIDE DEF x, P
  <1>11. \A g \in P, n \in requests' : n.cd = Of(g) =>
           n.grp = g /\ n.xid = x /\ Ready(co.phase, br'[g][x])
    <2> SUFFICES ASSUME NEW g \in P, NEW n \in requests', n.cd = Of(g)
                 PROVE  n.grp = g /\ n.xid = x /\ Ready(co.phase, br'[g][x])
      OBVIOUS
    <2>1. n \in requests /\ n # m
      BY <1>3
    <2>2. n.cd # m.cd
      BY <1>2, <2>1 DEF CdInv
    <2>3. br'[g][x] = br[g][x]
      BY <1>2, <1>10, <2>2
    <2>4. n.grp = g /\ n.xid = x /\ Ready(co.phase, br[g][x])
      BY <2>1 DEF Good, x, P
    <2> QED
      BY <2>3, <2>4
  <1>12. \A g \in P, r \in replies' : r.cd = Of(g) => Voted(co.phase, r.ret, br'[g][x])
    <2> SUFFICES ASSUME NEW g \in P, NEW r \in replies', r.cd = Of(g)
                 PROVE  Voted(co.phase, r.ret, br'[g][x])
      OBVIOUS
    <2>1. CASE r \in replies
      <3>1. r.cd # m.cd
        BY <1>2, <2>1 DEF CdInv
      <3>2. br'[g][x] = br[g][x]
        BY <1>2, <1>10, <3>1
      <3>3. Voted(co.phase, r.ret, br[g][x])
        BY <2>1 DEF Good, x, P
      <3> QED
        BY <3>2, <3>3
    <2>2. CASE r.cd = m.cd /\ r.ret = e[2]
      BY <1>9, <2>2
    <2> QED
      BY <1>4, <2>1, <2>2
  <1>13. \A g \in P \ Open : Voted(co.phase, co.parts[g].result, br'[g][x])
    <2> SUFFICES ASSUME NEW g \in P \ Open
                 PROVE  Voted(co.phase, co.parts[g].result, br'[g][x])
      OBVIOUS
    <2>1. m.cd # Of(g)
      BY DEF Open, Asked, P
    <2>2. br'[g][x] = br[g][x]
      BY <1>2, <1>10, <2>1
    <2>3. Voted(co.phase, co.parts[g].result, br[g][x])
      BY DEF Good, x, P
    <2> QED
      BY <2>2, <2>3
  <1>14. \A g \in Groups \ P : br'[g][x] \in {"none", "readonly"}
    BY <1>10 DEF Good, x, P
  <1>15. /\ \A g \in P : Of(g) \in 1..lastcd
         /\ \A g, h \in P : Of(g) = Of(h) => g = h
         /\ \A n \in requests' : n.xid = x => n.func = co.phase /\ n.grp \in P /\ n.cd = Of(n.grp)
         /\ co.pending = Cardinality(Open)
    BY <1>3 DEF Good, x, P
  <1>16. \A n \in requests' : n.xid = x => n.cd = Of(n.grp)'
    BY <1>5, <1>15
  <1> QED
    BY <1>3, <1>5, <1>7, <1>11, <1>12, <1>13, <1>14, <1>15, <1>16 DEF Good, x, P

\* What a wait that goes on leaves: the parts of the descriptor it was given
\* were open and are not any more, and their result is what the branch says.
LEMMA WaitGood ==
  ASSUME BaseInv, Good, NEW cd, NEW buf \in Ret \cup {"absent"}, Waits(cd, buf), Committing',
         \A g \in DOMAIN co.parts : Of(g) = cd => Voted(co.phase, buf, br[g][co.xid]),
         Open' = Open \ Matched(cd),
         Cardinality(Open \ Matched(cd)) = Cardinality(Open) - Cardinality(Matched(cd))
  PROVE  Good'
  <1> DEFINE x == co.xid
             P == DOMAIN co.parts
  <1>1. /\ Committing /\ co'.phase = co.phase /\ co'.xid = co.xid /\ ~Terminate
        /\ UNCHANGED <<requests, lastcd>> /\ replies' \subseteq replies
        /\ Store(cd, buf)
    BY WaitsPhase DEF BaseInv, Waits
  <1>2. x \in Xid /\ EndedIn(br, x) /\ P \in SUBSET Groups
    BY <1>1, CoTypes DEF BaseInv, EndInv
  <1>3. \A g \in Groups : br'[g][x] = br[g][x]
    BY <1>2 DEF Waits, Keeps
  <1>4. /\ DOMAIN co'.parts = P
        /\ \A g \in P : /\ Of(g)' = Of(g)
                        /\ co'.parts[g].result = IF Of(g) = cd THEN buf ELSE co.parts[g].result
        /\ co'.pending = co.pending - Cardinality(Matched(cd))
    BY <1>1, Stored DEF BaseInv
  <1> HIDE DEF x, P
  <1>5. \A g \in P \ Open' : Voted(co.phase, co'.parts[g].result, br[g][x])
    <2> SUFFICES ASSUME NEW g \in P \ Open'
                 PROVE  Voted(co.phase, co'.parts[g].result, br[g][x])
      OBVIOUS
    <2>1. CASE Of(g) = cd
      BY <1>4, <2>1 DEF x, P
    <2>2. CASE Of(g) # cd
      <3>1. g \notin Open
        BY <2>2 DEF Matched, Of, P
      <3> QED
        BY <1>4, <2>2, <3>1 DEF Good, x, P
    <2> QED
      BY <2>1, <2>2
  <1>6. co'.pending = Cardinality(Open')
    BY <1>4 DEF Good
  <1>7. /\ \A g \in P : Of(g) \in 1..lastcd
        /\ \A g, h \in P : Of(g) = Of(h) => g = h
        /\ \A n \in requests : n.xid = x => n.func = co.phase /\ n.grp \in P /\ n.cd = Of(n.grp)
        /\ \A g \in P, n \in requests : n.cd = Of(g) =>
             n.grp = g /\ n.xid = x /\ Ready(co.phase, br[g][x])
        /\ \A g \in P, r \in replies : r.cd = Of(g) => Voted(co.phase, r.ret, br[g][x])
        /\ \A g \in Groups \ P : br[g][x] \in {"none", "readonly"}
    BY DEF Good, x, P
  <1>8. \A n \in requests : n.xid = x => n.cd = Of(n.grp)'
    BY <1>4, <1>7
  <1>9. \A g \in P, n \in requests : n.cd = Of(g)' =>
             n.grp = g /\ n.xid = x /\ Ready(co.phase, br'[g][x])
    BY <1>2, <1>3, <1>4, <1>7
  <1>10. \A g \in P, r \in replies' : r.cd = Of(g)' => Voted(co.phase, r.ret, br'[g][x])
    BY <1>1, <1>2, <1>3, <1>4, <1>7
  <1>11. \A g \in P \ Open' : Voted(co.phase, co'.parts[g].result, br'[g][x])
    BY <1>2, <1>3, <1>5
  <1>12. \A g \in Groups \ P : br'[g][x] \in {"none", "readonly"}
    BY <1>3, <1>7
  <1>13. /\ DOMAIN co'.parts = P /\ co'.xid = x /\ co'.phase = co.phase
         /\ requests' = requests /\ lastcd' = lastcd
    BY <1>1, <1>4 DEF x
  <1>14. /\ \A g \in P : Of(g)' \in 1..lastcd
         /\ \A g, h \in P : Of(g)' = Of(h)' => g = h
    BY <1>4, <1>7
  <1> QED
    BY <1>6, <1>7, <1>8, <1>9, <1>10, <1>11, <1>12, <1>13, <1>14 DEF Good

\* A reply closes the part it is for.
LEMMA ReplyGood ==
  ASSUME BaseInv, Good, NEW r \in replies, getrply(r), Committing'
  PROVE  Good'
  <1> DEFINE P == DOMAIN co.parts
             M == Matched(r.cd)
  <1>1. Waits(r.cd, r.ret) /\ replies' = replies \ {r}
    BY GetrplySteps DEF BaseInv
  <1>2. /\ Committing /\ ~Terminate /\ UNCHANGED <<requests, lastcd>> /\ Store(r.cd, r.ret)
        /\ CdInv /\ CallType
    BY <1>1, WaitTypes, WaitsPhase DEF BaseInv, Waits
  <1>3. DOMAIN co'.parts = P /\ \A g \in P : Of(g)' = Of(g)
    BY <1>2, WaitTypes, Stored
  <1>4. M = {g \in P : Of(g) = r.cd}
    BY DEF Matched, Of
  <1>5. P \in SUBSET Groups
    BY <1>2, CoTypes
  <1> HIDE DEF P, M
  <1>6. \A g \in P \ M : (Asked(Of(g))' \/ Answered(Of(g))') <=> (Asked(Of(g)) \/ Answered(Of(g)))
    <2> SUFFICES ASSUME NEW g \in P \ M
                 PROVE  (Asked(Of(g))' \/ Answered(Of(g))') <=> (Asked(Of(g)) \/ Answered(Of(g)))
      OBVIOUS
    <2>1. Of(g)' = Of(g) /\ Of(g) # r.cd
      BY <1>3, <1>4
    <2> QED
      BY <1>1, <1>2, <2>1 DEF Asked, Answered
  <1>7. \A g \in M : ~Asked(Of(g))' /\ ~Answered(Of(g))' /\ Answered(Of(g))
    <2> SUFFICES ASSUME NEW g \in M
                 PROVE  ~Asked(Of(g))' /\ ~Answered(Of(g))' /\ Answered(Of(g))
      OBVIOUS
    <2>1. Of(g)' = r.cd /\ Of(g) = r.cd
      BY <1>3, <1>4
    <2> QED
      BY <1>1, <1>2, <2>1 DEF Asked, Answered, CdInv
  <1>8. Open' = Open \ M /\ M \subseteq Open
    <2>1. Open' = {g \in P : Asked(Of(g))' \/ Answered(Of(g))'}
      BY <1>3 DEF Open
    <2>2. Open = {g \in P : Asked(Of(g)) \/ Answered(Of(g))} /\ M \subseteq P
      BY <1>4 DEF Open, P
    <2> QED
      BY <1>6, <1>7, <2>1, <2>2
  <1>9. IsFiniteSet(Open)
    <2>1. Open \subseteq Groups /\ IsFiniteSet(Groups)
      BY <1>5, TxAssumption DEF Open, P
    <2> QED
      BY <2>1, FS_Subset
  <1>10. Cardinality(Open \ M) = Cardinality(Open) - Cardinality(M)
    <2>1. CASE M = {}
      <3>1. Open \ M = Open /\ Cardinality(M) = 0
        BY <2>1, FS_EmptySet
      <3>2. Cardinality(Open) \in Nat
        BY <1>9, FS_CardinalityType
      <3> QED
        BY <3>1, <3>2
    <2>2. CASE M # {}
      <3>1. PICK g \in M : TRUE
        BY <2>2
      <3>2. M = {g}
        BY <1>4, <3>1 DEF Good, P
      <3>3. g \in Open /\ Cardinality(M) = 1
        BY <1>8, <3>2, FS_Singleton
      <3>4. Cardinality(Open \ {g}) = Cardinality(Open) - 1
        BY <1>9, <3>3, FS_RemoveElement
      <3> QED
        BY <3>2, <3>3, <3>4
    <2> QED
      BY <2>1, <2>2
  <1>11. \A g \in P : Of(g) = r.cd => Voted(co.phase, r.ret, br[g][co.xid])
    BY DEF Good, P
  <1> QED
    BY <1>1, <1>8, <1>10, <1>11, WaitTypes, WaitGood DEF M, P

\* The watchdog's message closes nothing: no part has descriptor 0.
LEMMA TimeoutGood ==
  ASSUME BaseInv, Good, getrply_timeout, Committing'
  PROVE  Good'
  <1> DEFINE P == DOMAIN co.parts
  <1>1. Waits(0, co.buf) /\ replies' = replies
    BY GetrplySteps DEF BaseInv
  <1>2. /\ ~Terminate /\ UNCHANGED <<requests, lastcd>> /\ Store(0, co.buf) /\ CallType
    BY <1>1, WaitTypes, WaitsPhase DEF BaseInv, Waits
  <1>3. DOMAIN co'.parts = P /\ \A g \in P : Of(g)' = Of(g)
    BY <1>2, WaitTypes, Stored
  <1>4. \A g \in P : Of(g) # 0
    BY DEF Good
  <1>5. Matched(0) = {}
    BY <1>4 DEF Matched, Of
  <1> HIDE DEF P
  <1>6. \A g \in P : (Asked(Of(g))' \/ Answered(Of(g))') <=> (Asked(Of(g)) \/ Answered(Of(g)))
    BY <1>1, <1>2, <1>3 DEF Asked, Answered
  <1>7. Open' = Open
    BY <1>3, <1>6 DEF Open, P
  <1>8. IsFiniteSet(Open)
    <2>1. Open \subseteq Groups /\ IsFiniteSet(Groups)
      BY <1>2, CoTypes, TxAssumption DEF Open
    <2> QED
      BY <2>1, FS_Subset
  <1>9. /\ Open \ Matched(0) = Open
        /\ Cardinality(Open) - Cardinality(Matched(0)) = Cardinality(Open)
    <2>1. Cardinality(Open) \in Nat
      BY <1>8, FS_CardinalityType
    <2>2. Cardinality(Matched(0)) = 0
      BY <1>5, FS_EmptySet
    <2> QED
      BY <1>5, <2>1, <2>2
  <1> QED
    BY <1>1, <1>4, <1>7, <1>9, WaitTypes, WaitGood DEF P

\* The mark of a call that could not be made stays for the rest of the phase.
LEMMA WaitFailed ==
  ASSUME BaseInv, Failed, NEW cd \in Nat, NEW buf \in Ret \cup {"absent"}, Waits(cd, buf),
         Committing'
  PROVE  Failed'
  <1>1. ~Terminate /\ Store(cd, buf) /\ may' = may /\ CallType
    BY WaitsPhase DEF BaseInv, Waits
  <1>2. PICK g \in DOMAIN co.parts : Of(g) = -1 /\ co.parts[g].result = "err"
    BY DEF Failed
  <1>3. /\ DOMAIN co'.parts = DOMAIN co.parts
        /\ Of(g)' = Of(g)
        /\ co'.parts[g].result = IF Of(g) = cd THEN buf ELSE co.parts[g].result
    BY <1>1, Stored
  <1>4. Of(g) # cd
    BY <1>2
  <1> QED
    BY <1>1, <1>2, <1>3, <1>4 DEF Failed

\* When the counter has reached zero every part has voted and no request is left.
LEMMA AllVoted ==
  ASSUME BaseInv, Good, co.pending <= 0
  PROVE  /\ \A g \in DOMAIN co.parts : Voted(co.phase, co.parts[g].result, br[g][co.xid])
         /\ \A m \in requests : m.xid # co.xid
  <1>1. IsFiniteSet(Open)
    <2>1. Open \subseteq Groups /\ IsFiniteSet(Groups)
      BY CoTypes, TxAssumption DEF Open, BaseInv
    <2> QED
      BY <2>1, FS_Subset
  <1>2. Cardinality(Open) \in Nat
    BY <1>1, FS_CardinalityType
  <1>3. Cardinality(Open) = 0
    BY <1>2 DEF Good
  <1>4. Open = {}
    BY <1>1, <1>3, FS_EmptySet
  <1>5. \A g \in DOMAIN co.parts : ~Asked(Of(g))
    BY <1>4 DEF Open
  <1> QED
    BY <1>4, <1>5 DEF Good, Asked

\* After a first phase in which every call was made, the parts that go on are
\* ready for the second.
LEMMA DecideGood ==
  ASSUME BaseInv, Good, decide
  PROVE  Good' \/ Failed'
  <1>1. CallType /\ CdInv /\ EndInv
    BY DEF BaseInv
  <1> DEFINE parts == Restrict(co.parts, Interest)
  <1>2. /\ Interest \in SUBSET Groups /\ parts \in [Interest -> Part]
        /\ command("commit", Second, co.xid, parts)
        /\ co.phase = "prepare" /\ co.pending <= 0
        /\ UNCHANGED <<ctx, saved, table, br, replies, outcome, may>>
    BY <1>1, DecideSteps
  <1>3. co.xid \in Xid
    BY <1>1, <1>2 DEF EndInv, Committing, Func
  <1> HIDE DEF parts
  <1>4. PICK k \in Interest \cup {NoGroup} : Sends("commit", Second, co.xid, Interest, parts, k)
    BY <1>2, CommandSends
  <1>5. /\ \A g \in DOMAIN co.parts : Voted("prepare", co.parts[g].result, br[g][co.xid])
        /\ \A m \in requests : m.xid # co.xid
    BY <1>2, AllVoted
  <1>6. \A g \in Interest : Ready(Second, br'[g][co.xid])
    <2> SUFFICES ASSUME NEW g \in Interest PROVE Ready(Second, br'[g][co.xid])
      OBVIOUS
    <2>1. g \in DOMAIN co.parts /\ co.parts[g].result # "rdonly" /\ br'[g][co.xid] = br[g][co.xid]
      BY <1>2 DEF Interest, Interested
    <2>2. \/ co.parts[g].result = "ok" /\ br[g][co.xid] = "prepared"
          \/ co.parts[g].result = "rb" /\ br[g][co.xid] = "aborted"
      BY <1>5, <2>1 DEF Voted
    <2>3. Second = "commit" => co.parts[g].result = "ok"
      BY DEF Second
    <2> QED
      BY <2>1, <2>2, <2>3, SecondFunc DEF Ready
  <1>7. \A g \in Groups \ Interest : br'[g][co.xid] \in {"none", "readonly"}
    <2> SUFFICES ASSUME NEW g \in Groups \ Interest
                 PROVE  br[g][co.xid] \in {"none", "readonly"}
      BY <1>2
    <2>1. CASE g \in DOMAIN co.parts
      BY <1>5, <2>1 DEF Interest, Interested, Voted
    <2>2. CASE g \notin DOMAIN co.parts
      BY <2>2 DEF Good
    <2> QED
      BY <2>1, <2>2
  <1> QED
    BY <1>1, <1>2, <1>3, <1>4, <1>5, <1>6, <1>7, SecondFunc, SendsGood

\* The first phase is about every group that has joined.
PartsInv == co.phase = "prepare" => DOMAIN co.parts = JoinedIn(table, co.xid)

LEMMA PartsStep ==
  ASSUME BaseInv, PartsInv, [Next]_vars
  PROVE  PartsInv'
  <1>1. \A cd \in Nat, buf \in Ret \cup {"absent"} : Waits(cd, buf) => PartsInv'
    <2> SUFFICES ASSUME NEW cd \in Nat, NEW buf \in Ret \cup {"absent"}, Waits(cd, buf),
                        co'.phase = "prepare"
                 PROVE  DOMAIN co'.parts = JoinedIn(table', co'.xid)
      BY DEF PartsInv
    <2>1. Committing'
      BY DEF Committing, Func
    <2>2. co'.phase = co.phase /\ co'.xid = co.xid /\ Committing /\ ~Terminate /\ CallType
      BY <2>1, WaitsPhase DEF BaseInv
    <2>3. DOMAIN co'.parts = DOMAIN co.parts
      BY <2>2, Stored DEF Waits
    <2>4. co.xid \in Xid /\ EndedIn(br, co.xid)
      BY <2>2 DEF BaseInv, EndInv
    <2>5. JoinedIn(table', co.xid) = JoinedIn(table, co.xid)
      BY <2>4 DEF Waits, Keeps
    <2> QED
      BY <2>2, <2>3, <2>5 DEF PartsInv
  <1>2. CASE ~Committing'
    BY <1>2 DEF PartsInv, Committing, Func
  <1>3. CASE \E op \in {"commit", "rollback"} : tx_end(op) /\ Begins(op)
    BY <1>3, BeginsBase DEF PartsInv
  <1>4. CASE \E m \in requests : TM(m)
    BY <1>4 DEF PartsInv, TM
  <1>5. ThreadInv /\ CallType /\ lastcd \in Nat
    BY DEF BaseInv, CallType
  <1>6. CASE \E r \in replies : getrply(r)
    BY <1>1, <1>5, <1>6, GetrplySteps, WaitTypes
  <1>7. CASE getrply_timeout
    BY <1>1, <1>5, <1>7, GetrplySteps, WaitTypes
  <1>8. CASE getrply_interrupted
    <2>1. PICK cd \in 0..lastcd : Waits(cd, co.buf)
      BY <1>5, <1>8, GetrplySteps
    <2>2. cd \in Nat
      BY <1>5
    <2> QED
      BY <1>1, <2>1, <2>2, WaitTypes
  <1>9. CASE decide
    <2>1. co'.phase \in {"commit", "rollback"}
      BY <1>9, DecideBase, SecondFunc
    <2> QED
      BY <2>1 DEF PartsInv
  <1>10. CASE finish
    BY <1>2, <1>10, FinishSteps DEF BaseInv
  <1>11. CASE Quiet
    BY <1>2, <1>11 DEF Quiet
  <1>12. CASE UNCHANGED vars
    BY <1>12 DEF PartsInv, vars
  <1> QED
    BY <1>3, <1>4, <1>6, <1>7, <1>8, <1>9, <1>10, <1>11, <1>12, Steps

LEMMA CoStep ==
  ASSUME BaseInv, CoInv, [Next]_vars
  PROVE  CoInv'
  <1> SUFFICES ASSUME Committing', "Interrupts" \notin may', Clean'
               PROVE  Good' \/ Failed'
    BY DEF CoInv
  <1>1. ThreadInv /\ CallType
    BY DEF BaseInv
  <1>2. CASE \E op \in {"commit", "rollback"} : tx_end(op) /\ Begins(op)
    BY <1>2, BeginsBase
  <1>3. CASE \E m \in requests : TM(m)
    <2>1. PICK m \in requests : TM(m)
      BY <1>3
    <2>2. co' = co /\ may' = may
      BY <2>1 DEF TM
    <2>3. Committing /\ (Good \/ Failed)
      BY <2>2 DEF CoInv, Committing, Clean
    <2>4. Failed => Failed'
      BY <2>2 DEF Failed, Of
    <2> QED
      BY <2>1, <2>3, <2>4, TmGood
  <1>4. ASSUME NEW cd \in Nat, NEW buf \in Ret \cup {"absent"}, Waits(cd, buf)
        PROVE  Good \/ Failed'
    <2>1. co'.phase = co.phase /\ Committing /\ may' = may
      BY <1>1, <1>4, WaitsPhase DEF Waits
    <2>2. Good \/ Failed
      BY <2>1 DEF CoInv, Clean
    <2> QED
      BY <1>4, <2>2, WaitFailed
  <1>5. CASE \E r \in replies : getrply(r)
    <2>1. PICK r \in replies : getrply(r)
      BY <1>5
    <2>2. Waits(r.cd, r.ret)
      BY <1>1, <2>1, GetrplySteps
    <2>3. Good \/ Failed'
      BY <1>4, <2>2, WaitTypes
    <2> QED
      BY <2>1, <2>3, ReplyGood
  <1>6. CASE getrply_timeout
    <2>1. Waits(0, co.buf)
      BY <1>1, <1>6, GetrplySteps
    <2>2. Good \/ Failed'
      BY <1>4, <2>1, WaitTypes
    <2> QED
      BY <1>6, <2>2, TimeoutGood
  <1>7. CASE getrply_interrupted
    BY <1>7 DEF getrply_interrupted
  <1>8. CASE decide
    <2>1. co.phase = "prepare" /\ co'.phase \in {"commit", "rollback"} /\ may' = may
      BY <1>1, <1>8, DecideSteps, DecideBase, SecondFunc
    <2>2. "SendFails" \notin may
      BY <2>1 DEF Clean
    <2>3. Good
      BY <2>1, <2>2 DEF CoInv, Committing, Func, Clean, Failed
    <2> QED
      BY <1>8, <2>3, DecideGood
  <1>9. CASE finish
    BY <1>9, FinishSteps DEF BaseInv
  <1>10. CASE Quiet
    BY <1>10 DEF Quiet
  <1>11. CASE UNCHANGED vars
    <2>1. CoInv'
      BY <1>11 DEF CoInv, Committing, Clean, Good, Failed, Open, Of, Asked, Answered, vars
    <2> QED
      BY <2>1 DEF CoInv
  <1> QED
    BY <1>2, <1>3, <1>5, <1>6, <1>7, <1>8, <1>9, <1>10, <1>11, Steps

-----------------------------------------------------------------------------
(* Atomicity                                                                 *)

\* Nothing is committed from b to d.
Works(b, d) == \A g \in Groups, x \in Xid : d[g][x] = "committed" => b[g][x] = "committed"

LEMMA PutWorks ==
  ASSUME NEW a, NEW b \in Branches, Works(a, b), NEW g \in Groups, NEW x \in Xid,
         NEW v \in Branch \ {"committed"}
  PROVE  Put(b, g, x, v) \in Branches /\ Works(a, Put(b, g, x, v))
  BY PutBranch DEF Works

LEMMA GuardWorks ==
  ASSUME ThreadInv, NEW b \in Branches, Works(br, b), suspend_guard(b)
  PROVE  Works(br, br')
  <1>1. \/ br' = b
        \/ ctx.xid \in Xid /\ \E v \in {"active", "suspended"} : br' = Put(b, g0, ctx.xid, v)
    BY ThreadTypes DEF suspend_guard, Put
  <1>2. g0 \in Groups /\ {"active", "suspended"} \subseteq Branch \ {"committed"}
    BY TxAssumption DEF Branch
  <1> QED
    BY <1>1, <1>2, PutWorks

\* Only TMs commit.
LEMMA OthersWork ==
  ASSUME ThreadInv, [Next]_vars, ~\E m \in requests : TM(m)
  PROVE  Works(br, br')
  <1> DEFINE n == Len(table) + 1
  <1>1. /\ br \in Branches /\ g0 \in Groups /\ Works(br, br)
        /\ {"active", "suspended", "idle", "failed"} \subseteq Branch \ {"committed"}
    BY ThreadTypes, TxAssumption DEF Branch, Works
  <1>2. ~Full => n \in Xid
    BY ThreadTypes, TxAssumption DEF Full, Xid
  <1>3. ctx.xid # NoTrx => ctx.xid \in Xid
    BY ThreadTypes
  <1> HIDE DEF n
  <1>4. CASE br' = br
    BY <1>1, <1>4
  <1>5. CASE \E x \in Xid, v \in {"active", "suspended", "idle"} : br' = Put(br, g0, x, v)
    BY <1>1, <1>5, PutWorks
  <1>6. CASE tx_begin
    <2>1. br' = br \/ (n \in Xid /\ br' = Put(br, g0, n, "active"))
      BY <1>2, <1>6 DEF tx_begin, Put, n
    <2> QED
      BY <1>4, <1>5, <2>1
  <1>7. CASE \E g \in Groups : tpcall(g)
    <2>1. PICK g \in Groups : tpcall(g)
      BY <1>7
    <2>2. PICK v \in {"idle", "failed"} : ctx.gttid \in Xid /\ suspend_guard(Put(br, g, ctx.gttid, v))
      BY <2>1, ThreadTypes DEF tpcall, Put
    <2>3. /\ Put(br, g, ctx.gttid, v) \in Branches
          /\ Works(br, Put(br, g, ctx.gttid, v))
      BY <1>1, <2>2, PutWorks
    <2> QED
      BY <2>2, <2>3, GuardWorks
  <1>8. CASE tpsuspend
    <2>1. ctx.xid \in Xid /\ br' = Put(br, g0, ctx.xid, "suspended")
      BY <1>3, <1>8 DEF tpsuspend, Put
    <2> QED
      BY <1>5, <2>1
  <1>9. CASE \E x \in saved : tpresume(x)
    <2>1. PICK x \in saved : tpresume(x)
      BY <1>9
    <2>2. x \in Xid /\ (br' = br \/ br' = Put(br, g0, x, "active"))
      BY <2>1, ThreadTypes DEF tpresume, Put
    <2> QED
      BY <1>4, <1>5, <2>2
  <1>10. CASE \E op \in {"commit", "rollback"} : tx_end(op)
    <2> DEFINE d == Put(br, g0, ctx.xid, "idle")
    <2>1. /\ ctx.xid \in Xid
          /\ br' = d \/ (n \in Xid /\ br' = Put(d, g0, n, "active"))
      BY <1>2, <1>3, <1>10 DEF tx_end, Put, n
    <2>2. d \in Branches /\ Works(br, d)
      BY <1>1, <2>1, PutWorks
    <2> HIDE DEF d
    <2> QED
      BY <1>1, <2>1, <2>2, PutWorks
  <1>11. CASE (\E r \in replies : getrply(r)) \/ getrply_timeout \/ getrply_interrupted
    <2>1. suspend_guard(br)
      BY <1>11 DEF getrply, getrply_timeout, getrply_interrupted
    <2> QED
      BY <1>1, <2>1, GuardWorks
  <1>12. CASE finish
    <2>1. br' = br \/ (n \in Xid /\ br' = Put(br, g0, n, "active"))
      BY <1>2, <1>12 DEF finish, Put, n
    <2> QED
      BY <1>4, <1>5, <2>1
  <1>13. CASE \/ tx_open \/ tx_close \/ tx_set_transaction_control \/ tx_end_fails \/ decide
              \/ UNCHANGED vars
    <2>1. br' = br
      BY <1>13 DEF tx_open, tx_close, tx_set_transaction_control, tx_end_fails, decide, vars
    <2> QED
      BY <1>4, <2>1
  <1> QED
    BY <1>6, <1>7, <1>8, <1>9, <1>10, <1>11, <1>12, <1>13 DEF Next

\* The transaction is to be committed, or is.
Decided(x) ==
  \/ \E g \in Groups : br[g][x] = "committed"
  \/ co.phase = "commit" /\ co.xid = x
  \/ \E m \in requests : m.xid = x /\ m.func = "commit"

\* Every group that has joined has voted for it, and nobody asks for another
\* outcome any more.
Settled(x) ==
  /\ EndedIn(br, x)
  /\ \A h \in JoinedIn(table, x) : br[h][x] \in {"prepared", "readonly", "committed"}
  /\ \A m \in requests : m.xid = x => m.func = "commit"
  /\ ~(co.phase \in {"prepare", "rollback"} /\ co.xid = x)

DecidedInv ==
  may \cap {"Interrupts", "Heuristic"} = {} => \A x \in Xid : Decided(x) => Settled(x)

LEMMA JoinedGroups ==
  ASSUME ThreadInv, NEW x \in Xid
  PROVE  JoinedIn(table, x) \subseteq Groups
  <1>1. x \in Nat /\ x >= 1
    BY TxAssumption DEF Xid
  <1> QED
    BY <1>1, ThreadTypes DEF JoinedIn

\* A decision is kept by a step that leaves the ended transactions, and asks
\* nothing new of them.
LEMMA KeepsSettled ==
  ASSUME ThreadInv, NEW x \in Xid, Settled(x), Keeps(table, br, table', br'),
         \A m \in requests' : m.xid = x => m \in requests,
         co'.phase \in {"prepare", "rollback"} /\ co'.xid = x =>
           co.phase = co'.phase /\ co.xid = x
  PROVE  Settled(x)'
  <1>1. /\ JoinedIn(table', x) = JoinedIn(table, x)
        /\ \A g \in Groups : br'[g][x] = br[g][x]
    BY DEF Keeps, Settled
  <1>2. EndedIn(br', x)
    BY KeepsEnded DEF Settled
  <1>3. JoinedIn(table, x) \subseteq Groups
    BY JoinedGroups
  <1> QED
    BY <1>1, <1>2, <1>3 DEF Settled

\* A resource manager that does not decide by itself commits only what it is
\* asked to commit, and keeps its vote when it is.
LEMMA ExecutedVote ==
  ASSUME NEW f \in Func, NEW b \in Branch, NEW e \in Executed(f, b)
  PROVE  /\ e[1] = "committed" => f = "commit" \/ b = "committed"
         /\ f = "commit" /\ b \in {"prepared", "readonly", "committed"} /\ "Heuristic" \notin may
              => e[1] \in {"prepared", "readonly", "committed"}
  <1>1. CASE f = "prepare"
    BY <1>1 DEF Executed, Branch
  <1>2. CASE f = "commit"
    BY <1>2 DEF Executed, Branch
  <1>3. CASE f = "rollback"
    BY <1>3 DEF Executed, Branch
  <1> QED
    BY <1>1, <1>2, <1>3 DEF Func

LEMMA TmDecided ==
  ASSUME BaseInv, DecidedInv, may \cap {"Interrupts", "Heuristic"} = {},
         NEW m \in requests, TM(m), NEW x \in Xid, Decided(x)'
  PROVE  Settled(x)'
  <1>1. PICK e \in Executed(m.func, br[m.grp][m.xid]) : Executes(m, e)
    BY TmBase
  <1>2. /\ m.func \in Func /\ m.grp \in Groups /\ m.xid \in Xid /\ br[m.grp][m.xid] \in Branch
        /\ EndedIn(br', x) <=> EndedIn(br, x)
    BY TmBase DEF Request
  <1>3. /\ requests' = requests \ {m} /\ UNCHANGED <<table, co, may>>
        /\ \A h \in Groups : br'[h][x] = IF h = m.grp /\ x = m.xid THEN e[1] ELSE br[h][x]
    BY <1>1 DEF Executes
  <1>4. /\ e[1] = "committed" => m.func = "commit" \/ br[m.grp][m.xid] = "committed"
        /\ m.func = "commit" /\ br[m.grp][m.xid] \in {"prepared", "readonly", "committed"}
             => e[1] \in {"prepared", "readonly", "committed"}
    BY <1>2, ExecutedVote
  <1>5. Decided(x)
    BY <1>2, <1>3, <1>4 DEF Decided
  <1>6. Settled(x)
    BY <1>5 DEF DecidedInv
  <1>7. \A h \in JoinedIn(table, x) : br'[h][x] \in {"prepared", "readonly", "committed"}
    <2> SUFFICES ASSUME NEW h \in JoinedIn(table, x)
                 PROVE  br'[h][x] \in {"prepared", "readonly", "committed"}
      OBVIOUS
    <2>1. h \in Groups
      BY JoinedGroups DEF BaseInv
    <2>2. br[h][x] \in {"prepared", "readonly", "committed"}
      BY <1>6 DEF Settled
    <2>3. m.xid = x => m.func = "commit"
      BY <1>6 DEF Settled
    <2> QED
      BY <1>3, <1>4, <2>1, <2>2, <2>3
  <1> QED
    BY <1>2, <1>3, <1>6, <1>7 DEF Settled

\* tx_commit decides on every vote of the first phase.
LEMMA DecideDecided ==
  ASSUME BaseInv, CoInv, PartsInv, DecidedInv, may \cap {"Interrupts", "Heuristic"} = {},
         decide, NEW x \in Xid, Decided(x)'
  PROVE  Settled(x)'
  <1>1. /\ co.phase = "prepare" /\ co.pending <= 0
        /\ co'.phase = Second /\ co'.xid = co.xid
        /\ \A m \in requests' : m \in requests \/ (m.xid = co.xid /\ m.func = Second)
        /\ UNCHANGED <<table, br, may>>
    BY DecideSteps, DecideBase DEF BaseInv
  <1>2. CASE x # co.xid
    <2>1. Decided(x)
      BY <1>1, <1>2 DEF Decided
    <2>2. Settled(x)
      BY <2>1 DEF DecidedInv
    <2> QED
      BY <1>1, <1>2, <2>2 DEF Settled
  <1>3. CASE x = co.xid
    <2>1. ~Decided(x)
      BY <1>1, <1>3 DEF DecidedInv, Settled
    <2>2. Second = "commit"
      BY <1>1, <1>3, <2>1, SecondFunc DEF Decided
    <2>3. Good \/ Failed
      BY <1>1 DEF CoInv, Committing, Func, Clean
    <2>4. \A g \in DOMAIN co.parts : co.parts[g].result \in {"ok", "rdonly"}
      BY <2>2 DEF Second, Interest, Interested
    <2>5. Good
      BY <2>3, <2>4 DEF Failed
    <2>6. /\ \A g \in DOMAIN co.parts : Voted("prepare", co.parts[g].result, br[g][x])
          /\ \A m \in requests : m.xid # x
      BY <1>1, <1>3, <2>5, AllVoted
    <2>7. \A g \in JoinedIn(table, x) : br[g][x] \in {"prepared", "readonly"}
      BY <1>1, <1>3, <2>4, <2>6 DEF PartsInv, Voted
    <2>8. EndedIn(br, x)
      BY <1>1, <1>3 DEF BaseInv, EndInv, Committing, Func
    <2> QED
      BY <1>1, <2>2, <2>6, <2>7, <2>8 DEF Settled
  <1> QED
    BY <1>2, <1>3

LEMMA DecidedStep ==
  ASSUME BaseInv, CoInv, PartsInv, DecidedInv, [Next]_vars
  PROVE  DecidedInv'
  <1> SUFFICES ASSUME may' \cap {"Interrupts", "Heuristic"} = {}, NEW x \in Xid, Decided(x)'
               PROVE  Settled(x)'
    BY DEF DecidedInv
  <1>1. ThreadInv /\ CallType
    BY DEF BaseInv
  \* Steps that keep what has ended, and make no calls for it.
  <1>2. ASSUME may' = may, Works(br, br'), Keeps(table, br, table', br'),
               \A m \in requests' : m \in requests \/ (m.func # "commit" /\ ~EndedIn(br, m.xid)),
               Committing' => \/ co'.phase = co.phase /\ co'.xid = co.xid
                              \/ co'.phase # "commit" /\ ~EndedIn(br, co'.xid)
        PROVE  Settled(x)'
    <2>1. co'.phase = "commit" /\ co'.xid = x => co.phase = "commit" /\ co.xid = x
      BY <1>2 DEF Committing, Func
    <2>2. Decided(x)
      BY <1>2, <2>1 DEF Decided, Works
    <2>3. Settled(x)
      BY <1>2, <2>2 DEF DecidedInv
    <2>4. \A m \in requests' : m.xid = x => m \in requests
      BY <1>2, <2>3 DEF Settled
    <2>5. co'.phase \in {"prepare", "rollback"} /\ co'.xid = x =>
            co.phase = co'.phase /\ co.xid = x
      BY <1>2, <2>3 DEF Settled, Committing, Func
    <2> QED
      BY <1>1, <1>2, <2>3, <2>4, <2>5, KeepsSettled
  <1>3. CASE \E m \in requests : TM(m)
    <2>1. PICK m \in requests : TM(m)
      BY <1>3
    <2>2. may' = may
      BY <2>1 DEF TM
    <2> QED
      BY <2>1, <2>2, TmDecided
  <1>4. CASE decide
    <2>1. may' = may
      BY <1>4 DEF decide
    <2> QED
      BY <1>4, <2>1, DecideDecided
  <1>5. CASE ~\E m \in requests : TM(m)
    <2>1. Works(br, br')
      BY <1>1, <1>5, OthersWork
    <2>2. CASE Quiet
      BY <1>2, <2>1, <2>2 DEF Quiet
    <2>3. CASE \E op \in {"commit", "rollback"} : tx_end(op) /\ Begins(op)
      <3>1. PICK op \in {"commit", "rollback"} : tx_end(op) /\ Begins(op)
        BY <2>3
      <3>2. FirstPhase(op) # "commit" /\ ~EndedIn(br, ctx.xid)
        BY <1>1, <3>1, EndThread DEF FirstPhase
      <3>3. /\ co'.phase = FirstPhase(op) /\ co'.xid = ctx.xid
            /\ \A m \in requests' : m \in requests \/ (m.xid = ctx.xid /\ m.func = FirstPhase(op))
        BY <3>1, BeginsBase
      <3>4. may' = may /\ Keeps(table, br, table', br')
        BY <3>1 DEF Begins
      <3> QED
        BY <1>2, <2>1, <3>2, <3>3, <3>4
    <2>4. ASSUME NEW cd, NEW buf \in Ret \cup {"absent"}, Waits(cd, buf)
          PROVE  Settled(x)'
      <3>1. Committing' => co'.phase = co.phase /\ co'.xid = co.xid
        BY <1>1, <2>4, WaitsPhase
      <3>2. may' = may /\ requests' = requests /\ Keeps(table, br, table', br')
        BY <2>4 DEF Waits
      <3> QED
        BY <1>2, <2>1, <3>1, <3>2
    <2>5. CASE \E r \in replies : getrply(r)
      BY <1>1, <2>4, <2>5, GetrplySteps, WaitTypes
    <2>6. CASE getrply_timeout
      BY <1>1, <2>4, <2>6, GetrplySteps, WaitTypes
    <2>7. CASE getrply_interrupted
      BY <1>1, <2>4, <2>7, GetrplySteps, WaitTypes
    <2>8. CASE finish
      <3>1. /\ Keeps(table, br, table', br') /\ ~Committing'
            /\ UNCHANGED <<requests, may>>
        BY <2>8, FinishSteps DEF BaseInv
      <3> QED
        BY <1>2, <2>1, <3>1
    <2>9. CASE UNCHANGED vars
      <3>1. /\ Keeps(table, br, table', br') /\ may' = may /\ requests' = requests /\ co' = co
        BY <2>9 DEF Keeps, vars
      <3> QED
        BY <1>2, <2>1, <3>1
    <2> QED
      BY <1>4, <1>5, <2>2, <2>3, <2>5, <2>6, <2>7, <2>8, <2>9, Steps
  <1> QED
    BY <1>3, <1>5

\* What the theorems on tx_commit rest on.
CommitInv == BaseInv /\ CoInv /\ PartsInv

LEMMA Commit == Spec => []CommitInv
  <1>1. Init => CommitInv
    BY InitBase DEF Init, CommitInv, CoInv, PartsInv, Idle, Committing, Func
  <1>2. CommitInv /\ [Next]_vars => CommitInv'
    BY BaseStep, CoStep, PartsStep DEF CommitInv
  <1> QED
    BY <1>1, <1>2, PTL DEF Spec

\* Atomicity (tx_commit, tx.cpp): once one branch of a transaction is committed
\* every group that joined it has voted for commit, whatever calls to TMs fail,
\* whichever replies are late, and however many transactions the thread begins,
\* suspends and resumes; resource managers that decide by themselves and
\* interrupted waits excepted.
THEOREM AtomicCommit == Spec => []Atomic
  <1>1. Init => DecidedInv
    <2> SUFFICES ASSUME Init, NEW x \in Xid PROVE ~Decided(x)
      BY DEF DecidedInv
    <2> QED
      BY DEF Init, Decided, Idle
  <1>2. CommitInv /\ DecidedInv /\ [Next]_vars => DecidedInv'
    BY DecidedStep DEF CommitInv
  <1>3. DecidedInv => Atomic
    BY DEF DecidedInv, Atomic, Decided, Settled, Joined, JoinedIn
  <1> QED
    BY <1>1, <1>2, <1>3, Commit, PTL DEF Spec

-----------------------------------------------------------------------------
(* No branch is left behind                                                  *)

Finished(x) ==
  /\ EndedIn(br, x)
  /\ \A g \in Groups : br[g][x] \in {"none", "readonly", "committed", "aborted"}

OutcomeInv ==
  may \cap {"RMFails", "SendFails", "Interrupts"} = {} =>
    \A x \in Xid : outcome[x] # "none" => Finished(x)

LEMMA TmFinished ==
  ASSUME BaseInv, NEW m \in requests, TM(m), NEW x \in Xid, Finished(x)
  PROVE  Finished(x)'
  <1>1. PICK e \in Executed(m.func, br[m.grp][m.xid]) : Executes(m, e)
    BY TmBase
  <1>2. /\ m.func \in Func /\ m.grp \in Groups /\ br[m.grp][m.xid] \in Branch
        /\ EndedIn(br', x) <=> EndedIn(br, x)
    BY TmBase DEF Request
  <1>3. \A h \in Groups : br'[h][x] = IF h = m.grp /\ x = m.xid THEN e[1] ELSE br[h][x]
    BY <1>1 DEF Executes
  <1>4. /\ e[1] = "none" <=> br[m.grp][m.xid] = "none"
        /\ br[m.grp][m.xid] \in {"readonly", "committed", "aborted"} => e[1] = br[m.grp][m.xid]
    BY <1>2, ExecutedBranch
  <1> QED
    BY <1>2, <1>3, <1>4 DEF Finished

\* When the counter of the second phase is zero every branch is finished.
LEMMA SecondFinished ==
  ASSUME BaseInv, Good, Committing, co.phase # "prepare", co.pending <= 0
  PROVE  Finished(co.xid)
  <1>1. EndedIn(br, co.xid)
    BY DEF BaseInv, EndInv
  <1>2. \A g \in DOMAIN co.parts : br[g][co.xid] \in {"committed", "aborted"}
    BY AllVoted DEF Voted
  <1>3. \A g \in Groups \ DOMAIN co.parts : br[g][co.xid] \in {"none", "readonly"}
    BY DEF Good
  <1> QED
    BY <1>1, <1>2, <1>3 DEF Finished

LEMMA OutcomeStep ==
  ASSUME BaseInv, CoInv, OutcomeInv, [Next]_vars
  PROVE  OutcomeInv'
  <1> SUFFICES ASSUME may' \cap {"RMFails", "SendFails", "Interrupts"} = {},
                      NEW x \in Xid, outcome'[x] # "none"
               PROVE  Finished(x)'
    BY DEF OutcomeInv
  <1>1. ThreadInv /\ CallType
    BY DEF BaseInv
  <1>2. ASSUME Finished(x), Keeps(table, br, table', br')
        PROVE  Finished(x)'
    <2>1. EndedIn(br', x) /\ \A g \in Groups : br'[g][x] = br[g][x]
      BY <1>2, KeepsEnded DEF Finished, Keeps
    <2> QED
      BY <1>2, <2>1 DEF Finished
  <1>3. ASSUME may' = may, outcome'[x] = outcome[x], Keeps(table, br, table', br')
        PROVE  Finished(x)'
    <2>1. Finished(x)
      BY <1>3 DEF OutcomeInv
    <2> QED
      BY <1>2, <1>3, <2>1
  <1>4. CASE Quiet
    <2>1. may' = may /\ outcome' = outcome /\ Keeps(table, br, table', br')
      BY <1>4 DEF Quiet
    <2> QED
      BY <1>3, <2>1
  <1>5. CASE \E op \in {"commit", "rollback"} : tx_end(op) /\ Begins(op)
    BY <1>3, <1>5 DEF Begins
  <1>6. CASE \E m \in requests : TM(m)
    <2>1. PICK m \in requests : TM(m)
      BY <1>6
    <2>2. may' = may /\ outcome' = outcome
      BY <2>1 DEF TM
    <2>3. Finished(x)
      BY <2>2 DEF OutcomeInv
    <2> QED
      BY <2>1, <2>3, TmFinished
  <1>7. CASE (\E r \in replies : getrply(r)) \/ getrply_timeout \/ getrply_interrupted
    <2>1. Keeps(table, br, table', br')
      BY <1>1, <1>7, GetrplySteps DEF Waits
    <2>2. may' = may /\ outcome' = outcome
      BY <1>7 DEF getrply, getrply_timeout, getrply_interrupted
    <2> QED
      BY <1>3, <2>1, <2>2
  <1>8. CASE decide
    BY <1>3, <1>8 DEF decide, Keeps
  <1>9. CASE finish
    <2>1. /\ Keeps(table, br, table', br') /\ may' = may
          /\ Committing /\ co.pending <= 0 /\ co.phase # "prepare"
          /\ x # co.xid => outcome'[x] = outcome[x]
      BY <1>1, <1>9, FinishSteps DEF BaseInv
    <2>2. CASE x # co.xid
      BY <1>3, <2>1, <2>2
    <2>3. CASE x = co.xid
      <3>1. Good
        BY <2>1 DEF CoInv, Clean, Failed
      <3>2. Finished(x)
        BY <2>1, <2>3, <3>1, SecondFinished
      <3> QED
        BY <1>2, <2>1, <3>2
    <2> QED
      BY <2>2, <2>3
  <1>10. CASE UNCHANGED vars
    BY <1>3, <1>10 DEF vars, Keeps
  <1> QED
    BY <1>4, <1>5, <1>6, <1>7, <1>8, <1>9, <1>10, Steps

\* tx_commit and tx_rollback (tx.cpp) return only when every group that took
\* part has finished its branch, also in chained mode, with nested tx_begin,
\* expired block times and heuristic decisions, as long as TMs can be called
\* and resource managers start and end their work.
THEOREM NoBranchLeft == Spec => []NothingLeft
  <1>1. Init => OutcomeInv
    BY DEF Init, OutcomeInv
  <1>2. CommitInv /\ OutcomeInv /\ [Next]_vars => OutcomeInv'
    BY OutcomeStep DEF CommitInv
  <1>3. OutcomeInv => NothingLeft
    BY DEF OutcomeInv, NothingLeft, Finished
  <1> QED
    BY <1>1, <1>2, <1>3, Commit, PTL DEF Spec

-----------------------------------------------------------------------------
(* What the states of the TX interface mean                                  *)

\* The thread is in S3 exactly when it names a transaction, the one its
\* resource manager works for; those set aside are suspended.
Sane(c, s, b) ==
  /\ c.state \in {"s0", "s1", "s3"}
  /\ c.state = "s3" <=> c.xid # NoTrx
  /\ c.xid \notin s
  /\ \A x \in s : b[g0][x] = "suspended"
  /\ \A x \in Xid : b[g0][x] = "active" <=> c.state = "s3" /\ x = c.xid

\* In tx_commit and tx_rollback the thread has left the transaction already.
StateInv ==
  may \cap {"RMFails", "Chains"} = {} =>
    /\ Sane(ctx, saved, br)
    /\ Committing => ctx.state # "s3"

\* What the thread's own branches are after one branch changed.
LEMMA OwnPut ==
  ASSUME ThreadInv, NEW g \in Groups, NEW x \in Xid,
         NEW v \in {"active", "suspended", "idle", "failed"}
  PROVE  \A y \in Xid : Put(br, g, x, v)[g0][y] = IF g = g0 /\ y = x THEN v ELSE br[g0][y]
  <1>1. br \in Branches /\ g0 \in Groups /\ v \in Branch
    BY ThreadTypes, TxAssumption DEF Branch
  <1> QED
    BY <1>1, PutBranch

LEMMA BeginSane ==
  ASSUME ThreadInv, Sane(ctx, saved, br), may \cap {"RMFails", "Chains"} = {}, tx_begin
  PROVE  Sane(ctx', saved', br')
  <1> DEFINE n == Len(table) + 1
  <1>1. CASE ctx' = ctx /\ br' = br
    BY <1>1 DEF tx_begin
  <1>2. CASE ~Full /\ ctx.state # "s1"
    <2>1. ctx' = [ctx EXCEPT !.gttid = n] /\ br' = br /\ saved' = saved
      BY <1>2 DEF tx_begin, Started, Sane, InTrx, Full
    <2>2. ctx'.state = ctx.state /\ ctx'.xid = ctx.xid
      BY <2>1, ThreadTypes DEF Contexts
    <2> QED
      BY <2>1, <2>2 DEF Sane
  <1>3. CASE ~Full /\ ctx.state = "s1"
    <2>1. /\ ctx' = [state |-> "s3", xid |-> n, gttid |-> n] /\ saved' = saved
          /\ br' = Put(br, g0, n, "active")
      BY <1>3 DEF tx_begin, Started, Outcomes, Enter, Chained, InTrx, Full, Put
    <2>2. n \in Xid /\ n # NoTrx /\ n \notin saved
      <3>1. /\ Len(table) \in Nat /\ Len(table) < TableSize /\ TableSize \in Nat
            /\ \A x \in saved : x <= Len(table)
        BY <1>3, ThreadTypes, TxAssumption DEF Full, ThreadInv, Thinks
      <3>2. n \in Nat /\ n \in Xid /\ n # 0 /\ ~(n <= Len(table))
        BY <3>1 DEF Xid
      <3> QED
        BY <3>1, <3>2 DEF NoTrx
    <2>3. \A x \in Xid : br'[g0][x] = IF x = n THEN "active" ELSE br[g0][x]
      BY <2>1, <2>2, TxAssumption, OwnPut
    <2> HIDE DEF n
    <2> QED
      BY <1>3, <2>1, <2>2, <2>3, ThreadTypes DEF Sane
  <1> QED
    BY <1>1, <1>2, <1>3 DEF tx_begin

\* The guard has nothing to do when the transaction it suspends is active.
LEMMA GuardSane ==
  ASSUME NEW b, Sane(ctx, saved, br), may \cap {"RMFails", "Chains"} = {}, suspend_guard(b)
  PROVE  ctx' = ctx /\ br' = b
  BY DEF Sane, suspend_guard

LEMMA CallSane ==
  ASSUME ThreadInv, Sane(ctx, saved, br), may \cap {"RMFails", "Chains"} = {},
         NEW g \in Groups, tpcall(g)
  PROVE  Sane(ctx', saved', br')
  <1>1. PICK v \in {"idle", "failed"} :
          /\ ctx.gttid \in Xid /\ g # g0 /\ saved' = saved
          /\ suspend_guard(Put(br, g, ctx.gttid, v))
    BY ThreadTypes DEF tpcall, Put
  <1>2. ctx' = ctx /\ br' = Put(br, g, ctx.gttid, v)
    BY <1>1, GuardSane
  <1>3. \A x \in Xid : br'[g0][x] = br[g0][x]
    BY <1>1, <1>2, TxAssumption, OwnPut
  <1> QED
    BY <1>1, <1>2, <1>3, ThreadTypes DEF Sane

LEMMA SuspendSane ==
  ASSUME ThreadInv, Sane(ctx, saved, br), tpsuspend
  PROVE  Sane(ctx', saved', br')
  <1>1. /\ ctx.xid \in Xid /\ ctx.state = "s3" /\ saved' = saved \cup {ctx.xid}
        /\ ctx' = [state |-> "s1", xid |-> NoTrx, gttid |-> NoTrx]
        /\ br' = Put(br, g0, ctx.xid, "suspended")
    BY ThreadTypes DEF tpsuspend, Sane, InTrx, Leave, Chained, Put
  <1>2. \A x \in Xid : br'[g0][x] = IF x = ctx.xid THEN "suspended" ELSE br[g0][x]
    BY <1>1, TxAssumption, OwnPut
  <1>3. NoTrx \notin Xid /\ saved \subseteq Xid
    BY ThreadTypes, TxAssumption DEF NoTrx, Xid
  <1> QED
    BY <1>1, <1>2, <1>3 DEF Sane

LEMMA ResumeSane ==
  ASSUME ThreadInv, Sane(ctx, saved, br), may \cap {"RMFails", "Chains"} = {},
         NEW x \in saved, tpresume(x)
  PROVE  Sane(ctx', saved', br')
  <1>1. br[g0][x] = "suspended" /\ ctx.state = "s1" /\ x \in Xid /\ Outcomes = {TRUE}
    BY ThreadTypes DEF tpresume, Sane, Outcomes
  <1>2. /\ saved' = saved \ {x}
        /\ ctx' = [ctx EXCEPT !.state = Enter(@), !.xid = x]
        /\ br' = Put(br, g0, x, "active")
    BY <1>1 DEF tpresume, Put
  <1>3. ctx'.state = "s3" /\ ctx'.xid = x
    BY <1>1, <1>2, ThreadTypes DEF Enter, Chained, Contexts
  <1>4. \A y \in Xid : br'[g0][y] = IF y = x THEN "active" ELSE br[g0][y]
    BY <1>1, <1>2, TxAssumption, OwnPut
  <1>5. NoTrx \notin Xid /\ saved \subseteq Xid
    BY ThreadTypes, TxAssumption DEF NoTrx, Xid
  <1> QED
    BY <1>1, <1>2, <1>3, <1>4, <1>5 DEF Sane

LEMMA EndSane ==
  ASSUME ThreadInv, Sane(ctx, saved, br), NEW op, tx_end(op)
  PROVE  Sane(ctx', saved', br') /\ ctx'.state # "s3"
  <1>1. /\ ctx.xid \in Xid /\ ctx.state = "s3" /\ saved' = saved
        /\ ctx' = [state |-> "s1", xid |-> NoTrx, gttid |-> NoTrx]
        /\ br' = Put(br, g0, ctx.xid, "idle")
    BY ThreadTypes DEF tx_end, Sane, InTrx, Leave, Chained, Put
  <1>2. \A x \in Xid : br'[g0][x] = IF x = ctx.xid THEN "idle" ELSE br[g0][x]
    BY <1>1, TxAssumption, OwnPut
  <1>3. NoTrx \notin Xid /\ saved \subseteq Xid
    BY ThreadTypes, TxAssumption DEF NoTrx, Xid
  <1> QED
    BY <1>1, <1>2, <1>3 DEF Sane

LEMMA StateStep ==
  ASSUME BaseInv, StateInv, [Next]_vars
  PROVE  StateInv'
  <1> SUFFICES ASSUME may' \cap {"RMFails", "Chains"} = {}
               PROVE  Sane(ctx', saved', br') /\ (Committing' => ctx'.state # "s3")
    BY DEF StateInv
  <1>1. ThreadInv /\ CallType
    BY DEF BaseInv
  <1>2. may' = may
    BY ZenonT(30) DEF Next, vars, rest, tx_open, tx_close, tx_set_transaction_control, tx_begin,
                      tpcall, tpsuspend, tpresume, tx_end, tx_end_fails, TM, getrply,
                      getrply_timeout, getrply_interrupted, decide, finish
  <1>3. Sane(ctx, saved, br) /\ (Committing => ctx.state # "s3")
    BY <1>2 DEF StateInv
  <1>4. ASSUME ctx' = ctx, saved' = saved, br' = br
        PROVE  Sane(ctx', saved', br')
    BY <1>3, <1>4
  <1>5. CASE \/ tx_open \/ tx_close \/ tx_set_transaction_control \/ tx_end_fails \/ tx_begin
             \/ tpsuspend \/ (\E g \in Groups : tpcall(g)) \/ (\E x \in saved : tpresume(x))
    <2>1. ~Committing'
      BY <1>1, <1>5, QuietSteps DEF Quiet
    <2>2. CASE tx_open \/ tx_close
      <3>1. /\ ctx.state \in {"s0", "s1"} /\ UNCHANGED <<saved, br>>
            /\ ctx'.state \in {"s0", "s1"} /\ ctx'.xid \in {ctx.xid, NoTrx}
        BY <1>1, <1>3, <2>2, ThreadTypes DEF tx_open, tx_close, Sane, Contexts
      <3> QED
        BY <1>3, <2>1, <3>1 DEF Sane
    <2>3. CASE tx_set_transaction_control \/ tx_end_fails
      BY <1>2, <2>3 DEF tx_set_transaction_control, tx_end_fails
    <2>4. CASE tx_begin
      BY <1>1, <1>2, <1>3, <2>1, <2>4, BeginSane
    <2>5. CASE tpsuspend
      BY <1>1, <1>3, <2>1, <2>5, SuspendSane
    <2>6. CASE \E g \in Groups : tpcall(g)
      BY <1>1, <1>2, <1>3, <2>1, <2>6, CallSane
    <2>7. CASE \E x \in saved : tpresume(x)
      BY <1>1, <1>2, <1>3, <2>1, <2>7, ResumeSane
    <2> QED
      BY <1>5, <2>2, <2>3, <2>4, <2>5, <2>6, <2>7
  <1>6. CASE \E op \in {"commit", "rollback"} : tx_end(op)
    BY <1>1, <1>3, <1>6, EndSane
  <1>7. CASE \E m \in requests : TM(m)
    <2>1. PICK m \in requests : TM(m)
      BY <1>7
    <2>2. \A y \in Xid : /\ br'[g0][y] = "active" <=> br[g0][y] = "active"
                         /\ br'[g0][y] = "suspended" <=> br[g0][y] = "suspended"
      BY <2>1, TmBase
    <2>3. UNCHANGED <<ctx, saved, co>> /\ saved \subseteq Xid
      BY <1>1, <2>1, ThreadTypes DEF TM
    <2>4. Sane(ctx, saved, br')
      BY <1>3, <2>2, <2>3 DEF Sane
    <2> QED
      BY <1>3, <2>3, <2>4 DEF Committing
  <1>8. CASE (\E r \in replies : getrply(r)) \/ getrply_timeout \/ getrply_interrupted
    <2>1. suspend_guard(br) /\ saved' = saved /\ Committing
      BY <1>8 DEF getrply, getrply_timeout, getrply_interrupted, Waiting, Committing
    <2>2. ctx' = ctx /\ br' = br
      BY <1>2, <1>3, <2>1, GuardSane
    <2> QED
      BY <1>3, <1>4, <2>1, <2>2
  <1>9. CASE decide
    <2>1. UNCHANGED <<ctx, saved, br>> /\ Committing
      BY <1>9 DEF decide, Done, Committing, Func
    <2> QED
      BY <1>3, <1>4, <2>1
  <1>10. CASE finish
    <2>1. UNCHANGED <<ctx, saved, br>>
      BY <1>3, <1>10 DEF finish, Sane
    <2>2. ~Committing'
      BY <1>1, <1>10, FinishSteps DEF BaseInv
    <2> QED
      BY <1>4, <2>1, <2>2
  <1>11. CASE UNCHANGED vars
    BY <1>3, <1>4, <1>11 DEF vars, Committing
  <1> QED
    BY <1>5, <1>6, <1>7, <1>8, <1>9, <1>10, <1>11 DEF Next

\* tx.cpp:44-51, "is in a transaction": outside of tx_commit and tx_rollback
\* the thread is in S3 exactly while its resource manager works for the
\* transaction it names, and for no other, through every sequence of tx_begin,
\* calls, tpsuspend, tpresume, commits and rollbacks; chained transactions and
\* resource managers whose xa_start or xa_end fails are excepted.
THEOREM StatesMean == Spec => []StateMeaning
  <1>1. Init => StateInv
    <2> SUFFICES ASSUME Init PROVE StateInv
      OBVIOUS
    <2>1. \A x \in Xid : br[g0][x] = "none"
      BY TxAssumption DEF Init
    <2> QED
      BY <2>1 DEF Init, StateInv, Sane, Idle, Committing, Func
  <1>2. BaseInv /\ StateInv /\ [Next]_vars => StateInv'
    BY StateStep
  <1>3. BaseInv /\ StateInv => StateMeaning
    <2> SUFFICES ASSUME BaseInv, Sane(ctx, saved, br)
                 PROVE  {x \in Xid : br[g0][x] = "active"} =
                          IF ctx.state \in InTrx THEN {ctx.xid} ELSE {}
      BY DEF StateInv, StateMeaning
    <2>1. ctx.state \in InTrx <=> ctx.state = "s3"
      BY DEF Sane, InTrx
    <2>2. ctx.xid \in Xid \cup {NoTrx}
      BY ThreadTypes DEF BaseInv
    <2> QED
      BY <2>1, <2>2 DEF Sane
  <1> QED
    BY <1>1, <1>2, <1>3, Base, PTL DEF Spec

=============================================================================
