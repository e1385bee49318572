---------------------------- MODULE Fml32Proofs ----------------------------
(***************************************************************************)
(* Proofs about module Fml32, for buffers of any size and fields of any    *)
(* number, types and values.                                               *)
(***************************************************************************)
EXTENDS Fml32, FiniteSetTheorems, SequenceTheorems, WellFoundedInduction, TLAPS

-----------------------------------------------------------------------------
(* Induction.  What holds for every number is shown by looking at the      *)
(* smallest for which it would not.                                        *)

\* A set of numbers that are not below a has a smallest one.
LEMMA SmallestExists ==
  ASSUME NEW a \in Int, NEW T, T \subseteq Int, \A n \in T : a <= n, T # {}
  PROVE  \E m \in T : \A n \in T : m <= n
  <1> DEFINE D == {n - a : n \in T}
             R == OpToRel(<, Nat)
  <1>1. D \subseteq Nat /\ D # {}
    <2>1. \A n \in T : n - a \in Nat
      OBVIOUS
    <2>2. QED
      BY <2>1
  <1>2. \E d \in D : \A e \in D : ~(<<e, d>> \in R)
    <2>1. IsWellFoundedOn(R, Nat)
      BY Zenon, NatLessThanWellFounded
    <2> HIDE DEF R, D
    <2>2. QED
      BY <1>1, <2>1, WFMin
  <1>3. PICK d \in D : \A e \in D : ~(<<e, d>> \in R)
    BY Zenon, <1>2
  <1>4. ASSUME NEW e \in D PROVE d <= e
    <2>1. e \in Nat /\ d \in Nat /\ ~(<<e, d>> \in R)
      BY Zenon, <1>1, <1>3
    <2>2. e < d => <<e, d>> \in R
      BY <2>1 DEF OpToRel
    <2> HIDE DEF R
    <2>3. QED
      BY <2>1, <2>2
  <1>5. PICK m \in T : d = m - a
    OBVIOUS
  <1>6. ASSUME NEW n \in T PROVE m <= n
    <2>1. n - a \in D
      OBVIOUS
    <2>2. d <= n - a
      <3> HIDE DEF D
      <3> QED
        BY <1>4, <2>1
    <2>3. QED
      BY <1>5, <2>2
  <1>7. QED
    BY <1>6

\* What holds at a and goes from each number to the next holds up to c.
LEMMA Reaches ==
  ASSUME NEW a \in Int, NEW c \in Int, NEW S,
         a <= c => a \in S,
         \A n \in (a + 1)..c : n - 1 \in S => n \in S
  PROVE  a..c \subseteq S
  <1> DEFINE T == {n \in a..c : n \notin S}
  <1>1. SUFFICES ASSUME T # {} PROVE FALSE
    OBVIOUS
  <1>2. T \subseteq Int /\ \A n \in T : a <= n
    OBVIOUS
  <1>3. PICK m \in T : \A n \in T : m <= n
    <2> HIDE DEF T
    <2> QED
      BY <1>1, <1>2, SmallestExists
  <1>4. m \in (a + 1)..c /\ m - 1 \notin T
    BY <1>3
  <1>5. QED
    BY <1>4

\* g solves the recursion that begins with x at a and goes on by G.
Solves(g, a, c, x, G) ==
  \A n \in a..c : g[n] = IF n = a THEN x ELSE G[n][g[n - 1]]

\* A recursion over a range of numbers that stays in S has a solution.
LEMMA Solvable ==
  ASSUME NEW S, NEW x \in S, NEW a \in Int, NEW c \in Int, a <= c,
         NEW G \in [a..c -> [S -> S]]
  PROVE  \E g \in [a..c -> S] : Solves(g, a, c, x, G)
  <1> DEFINE Upto(g, m) ==
               \A n \in a..m : g[n] = IF n = a THEN x ELSE G[n][g[n - 1]]
             T == {m \in a..c : \E g \in [a..m -> S] : Upto(g, m)}
  <1>1. a \in T
    <2> DEFINE h == [n \in a..a |-> x]
    <2>1. h \in [a..a -> S] /\ Upto(h, a)
      OBVIOUS
    <2> HIDE DEF h, Upto
    <2>2. QED
      BY <2>1
  <1>2. ASSUME NEW m \in (a + 1)..c, m - 1 \in T
        PROVE  m \in T
    <2>1. PICK g \in [a..(m - 1) -> S] : Upto(g, m - 1)
      BY <1>2
    <2> DEFINE h == [n \in a..m |-> IF n = m THEN G[m][g[m - 1]] ELSE g[n]]
    <2>2. h \in [a..m -> S]
      <3>1. g[m - 1] \in S /\ m \in a..c
        OBVIOUS
      <3>2. G[m][g[m - 1]] \in S
        BY <3>1
      <3>3. QED
        BY <3>2
    <2>3. Upto(h, m)
      <3>1. ASSUME NEW n \in a..m PROVE h[n] = IF n = a THEN x ELSE G[n][h[n - 1]]
        <4>1. CASE n = m
          BY <4>1
        <4>2. CASE n # m
          <5>1. n \in a..(m - 1) /\ h[n] = g[n] /\ (n # a => h[n - 1] = g[n - 1])
            BY <4>2
          <5>2. QED
            BY <5>1, <2>1
        <4>3. QED
          BY <4>1, <4>2
      <3>2. QED
        BY <3>1
    <2> HIDE DEF h, Upto
    <2>4. QED
      BY <2>2, <2>3
  <1>3. a..c \subseteq T
    <2> HIDE DEF T
    <2> QED
      BY <1>1, <1>2, Reaches
  <1>4. c \in T
    BY <1>3
  <1>5. QED
    BY <1>4 DEF Solves

-----------------------------------------------------------------------------
(* The layout *)


LEMMA TypeIs == Type = 1..8 /\ Len(Region) = 8
  BY DEF Type, Region

\* Every field takes space, and none less than with the default value.
LEMMA Round8Type ==
  ASSUME NEW f \in Fields, NEW v \in Nat
  PROVE  /\ Round8(f, v) \in Nat /\ Round8(f, v) > 0
         /\ Round8(f, 0) <= Round8(f, v)
  BY DEF Round8

LEMMA FldOf ==
  ASSUME NEW s \in Seq(Fld), NEW i \in 1..Len(s)
  PROVE  /\ s[i] \in Fld /\ s[i].id \in Fields /\ s[i].val \in Nat
         /\ s[i].id \in Nat /\ FldType[s[i].id] \in Type /\ FldType[s[i].id] \in Int
  <1>1. s[i] \in Fld
    BY ElementOfSeq
  <1>2. s[i].id \in Fields /\ s[i].val \in Nat
    BY <1>1 DEF Fld
  <1>3. FldType[s[i].id] \in Type
    BY <1>2, Fml32Assumption DEF Type
  <1>4. Type \subseteq Int
    BY TypeIs
  <1>5. s[i].id \in Nat
    BY <1>2, Fml32Assumption
  <1>6. QED
    BY <1>1, <1>2, <1>3, <1>4, <1>5

Width(x) == Round8(x.id, x.val)

\* Starts is the function its recursion describes.
LEMMA StartsAre ==
  ASSUME NEW s \in Seq(Fld)
  PROVE  /\ Starts(s) \in [1..Len(s) + 1 -> Nat]
         /\ Starts(s)[1] = 0
         /\ \A i \in 1..Len(s) : Starts(s)[i + 1] = Starts(s)[i] + Width(s[i])
  <1> DEFINE c == Len(s) + 1
             Is(g) == g = [i \in 1..c |-> IF i = 1 THEN 0
                                          ELSE g[i - 1] + Round8(s[i - 1].id, s[i - 1].val)]
             G == [n \in 1..c |-> [y \in Nat |->
                     IF n = 1 THEN y ELSE y + Width(s[n - 1])]]
  <1>1. c \in Int /\ 1 <= c /\ 1 \in Int /\ 0 \in Nat
    OBVIOUS
  <1>2. \A n \in 2..c : n - 1 \in 1..Len(s) /\ Width(s[n - 1]) \in Nat
    <2> TAKE n \in 2..c
    <2>1. n - 1 \in 1..Len(s)
      OBVIOUS
    <2>2. QED
      BY <2>1, FldOf, Round8Type DEF Width
  <1>3. G \in [1..c -> [Nat -> Nat]]
    BY <1>2
  <1>4. PICK g \in [1..c -> Nat] :
          Solves(g, 1, c, 0, G)
    <2> HIDE DEF G, c
    <2> QED
      BY <1>1, <1>3, Solvable
  <1>5. \A n \in 1..c : n # 1 => n - 1 \in 1..c /\ g[n - 1] \in Nat
    OBVIOUS
  <1>6. \A n \in 1..c : g[n] = IF n = 1 THEN 0 ELSE g[n - 1] + Width(s[n - 1])
    BY <1>4, <1>5 DEF Solves
  <1>7. Is(g)
    BY <1>6 DEF Width
  <1>8. Starts(s) = CHOOSE h : Is(h)
    BY DEF Starts
  <1>9. Is(Starts(s))
    <2> HIDE DEF Is
    <2> QED
      BY <1>7, <1>8
  <1> DEFINE at == Starts(s)
  <1>10. /\ DOMAIN at = 1..c /\ at = [i \in 1..c |-> at[i]]
         /\ at[1] = 0
         /\ \A n \in 2..c : at[n] = at[n - 1] + Width(s[n - 1])
    <2>1. at = [i \in 1..c |-> IF i = 1 THEN 0
                               ELSE at[i - 1] + Round8(s[i - 1].id, s[i - 1].val)]
      BY <1>9
    <2> HIDE DEF at, c
    <2>2. DOMAIN at = 1..c /\ at = [i \in 1..c |-> at[i]]
      BY <2>1
    <2>3. at[1] = 0
      BY <1>1, <2>1
    <2>4. \A n \in 2..c : at[n] = at[n - 1] + Width(s[n - 1])
      BY <1>1, <2>1 DEF Width
    <2>5. QED
      BY <2>2, <2>3, <2>4
  <1> HIDE DEF at
  <1>11. 1..c \subseteq {n \in Int : at[n] \in Nat}
    <2> DEFINE S == {n \in Int : at[n] \in Nat}
    <2>1. 1 \in S
      BY <1>10
    <2>2. ASSUME NEW n \in 2..c, n - 1 \in S PROVE n \in S
      <3> HIDE DEF c
      <3>1. at[n - 1] \in Nat /\ Width(s[n - 1]) \in Nat
        BY <1>2, <2>2
      <3>2. at[n] = at[n - 1] + Width(s[n - 1])
        BY <1>10, Zenon
      <3>3. n \in Int
        OBVIOUS
      <3>4. QED
        BY <3>1, <3>2, <3>3
    <2>3. \A n \in (1 + 1)..c : n - 1 \in S => n \in S
      BY <2>2
    <2> HIDE DEF S, c
    <2>4. QED
      BY <1>1, <2>1, <2>3, Reaches DEF S
  <1>12. at \in [1..c -> Nat]
    <2> HIDE DEF c
    <2> QED
      BY <1>10, <1>11
  <1>13. ASSUME NEW i \in 1..Len(s) PROVE at[i + 1] = at[i] + Width(s[i])
    <2>1. i + 1 \in 2..c /\ (i + 1) - 1 = i
      OBVIOUS
    <2>2. at[i + 1] = at[(i + 1) - 1] + Width(s[(i + 1) - 1])
      <3> HIDE DEF c
      <3> QED
        BY <1>10, <2>1
    <2>3. QED
      BY <2>1, <2>2
  <1>14. QED
    BY <1>10, <1>12, <1>13 DEF at
LEMMA WidthType ==
  ASSUME NEW s \in Seq(Fld), NEW i \in 1..Len(s)
  PROVE  Width(s[i]) \in Nat /\ Width(s[i]) > 0
  BY FldOf, Round8Type DEF Width

\* One field starts before the next.
LEMMA StartsGrow ==
  ASSUME NEW s \in Seq(Fld), NEW i \in 1..Len(s) + 1, NEW j \in 1..Len(s) + 1, i < j
  PROVE  Starts(s)[i] < Starts(s)[j]
  <1> DEFINE at == Starts(s)
             S == {n \in Int : at[i] < at[n]}
             c == Len(s) + 1
  <1>1. /\ at \in [1..c -> Nat]
        /\ \A n \in 1..Len(s) : at[n + 1] = at[n] + Width(s[n])
    BY StartsAre
  <1>2. \A n \in 1..Len(s) : at[n] < at[n + 1]
    <2> TAKE n \in 1..Len(s)
    <2> HIDE DEF at
    <2>1. Width(s[n]) \in Nat /\ Width(s[n]) > 0
      BY WidthType
    <2>2. n \in 1..c
      OBVIOUS
    <2>3. at[n] \in Nat
      <3> HIDE DEF c
      <3> QED
        BY <1>1, <2>2
    <2>4. QED
      BY <1>1, <2>1, <2>3
  <1> HIDE DEF at
  <1>3. i + 1 \in S
    BY <1>2
  <1>4. ASSUME NEW n \in ((i + 1) + 1)..c, n - 1 \in S PROVE n \in S
    <2>1. /\ n - 1 \in 1..Len(s) /\ (n - 1) + 1 = n
          /\ n \in Int /\ i \in 1..c /\ n - 1 \in 1..c /\ n \in 1..c
      OBVIOUS
    <2>2. at[n - 1] < at[n]
      BY <1>2, <2>1
    <2>3. at[i] \in Nat /\ at[n - 1] \in Nat /\ at[n] \in Nat
      <3> HIDE DEF c, S
      <3> QED
        BY <1>1, <2>1
    <2>4. at[i] < at[n - 1]
      BY <1>4
    <2>5. QED
      BY <2>1, <2>2, <2>3, <2>4
  <1>5. i + 1 \in Int /\ c \in Int
    OBVIOUS
  <1>6. (i + 1)..c \subseteq S
    <2> HIDE DEF S, c
    <2> QED
      BY <1>3, <1>4, <1>5, Reaches
  <1>7. j \in (i + 1)..c
    OBVIOUS
  <1>8. QED
    BY <1>6, <1>7 DEF at

\* s and t hold the same fields from k to m, at places d apart; these start at
\* the same distance all along.
Alike(s, t, k, m, d) == \A i \in k..m : t[i + d] = s[i]
Apart(s, t, k, m, d) ==
  \A i \in k..(m + 1) : Starts(t)[i + d] - Starts(s)[i] = Starts(t)[k + d] - Starts(s)[k]

LEMMA SameStretch ==
  ASSUME NEW s \in Seq(Fld), NEW t \in Seq(Fld), NEW k \in Int, NEW m \in Int, NEW d \in Int,
         1 <= k, m <= Len(s), 1 <= k + d, m + d <= Len(t),
         Alike(s, t, k, m, d)
  PROVE  Apart(s, t, k, m, d)
  <1> DEFINE at == Starts(s)
             bt == Starts(t)
             S == {n \in Int : bt[n + d] - at[n] = bt[k + d] - at[k]}
  <1>1. /\ at \in [1..Len(s) + 1 -> Nat]
        /\ \A n \in 1..Len(s) : at[n + 1] = at[n] + Width(s[n])
        /\ bt \in [1..Len(t) + 1 -> Nat]
        /\ \A n \in 1..Len(t) : bt[n + 1] = bt[n] + Width(t[n])
    BY StartsAre
  <1> HIDE DEF at, bt
  <1>2. k \in S
    OBVIOUS
  <1>3. ASSUME NEW n \in (k + 1)..(m + 1), n - 1 \in S PROVE n \in S
    <2> DEFINE p == n - 1
    <2>1. /\ p \in 1..Len(s) /\ p + d \in 1..Len(t) /\ p \in k..m
          /\ p + 1 = n /\ (p + d) + 1 = n + d /\ n \in Int
      OBVIOUS
    <2>2. t[p + d] = s[p]
      BY <2>1 DEF Alike
    <2> HIDE DEF p
    <2>3. at[n] = at[p] + Width(s[p]) /\ bt[n + d] = bt[p + d] + Width(s[p])
      BY <1>1, <2>1, <2>2
    <2>4. Width(s[p]) \in Nat
      BY <2>1, WidthType
    <2>5. at[p] \in Nat /\ bt[p + d] \in Nat
      <3>1. p \in 1..Len(s) + 1 /\ p + d \in 1..Len(t) + 1
        BY <2>1
      <3>2. QED
        BY <1>1, <3>1
    <2>6. bt[p + d] - at[p] = bt[k + d] - at[k]
      BY <1>3 DEF p
    <2>7. bt[n + d] - at[n] = bt[k + d] - at[k]
      BY <2>3, <2>4, <2>5, <2>6
    <2>8. QED
      BY <2>1, <2>7
  <1>4. k..(m + 1) \subseteq S
    <2>1. m + 1 \in Int
      OBVIOUS
    <2> HIDE DEF S
    <2> QED
      BY <1>2, <1>3, <2>1, Reaches
  <1>5. QED
    BY <1>4 DEF at, bt, Apart
\* What a stretch of fields takes is the distance between its ends.
LEMMA BytesBetween ==
  ASSUME NEW s \in Seq(Fld), NEW i \in 1..Len(s) + 1, NEW j \in i..Len(s) + 1
  PROVE  Bytes(SubSeq(s, i, j - 1)) = Starts(s)[j] - Starts(s)[i]
  <1> DEFINE t == SubSeq(s, i, j - 1)
             d == 1 - i
  <1>1. t \in Seq(Fld) /\ Len(t) = j - i /\ \A n \in 1..(j - i) : t[n] = s[i + n - 1]
    OBVIOUS
  <1>2. \A n \in i..(j - 1) : t[n + d] = s[n]
    <2> TAKE n \in i..(j - 1)
    <2>1. n + d \in 1..(j - i) /\ i + (n + d) - 1 = n
      OBVIOUS
    <2> HIDE DEF t, d
    <2>2. QED
      BY <1>1, <2>1
  <1>3. /\ i \in Int /\ j - 1 \in Int /\ d \in Int /\ 1 <= i /\ j - 1 <= Len(s)
        /\ 1 <= i + d /\ (j - 1) + d <= Len(t)
    BY <1>1
  <1>4. \A n \in i..((j - 1) + 1) :
          Starts(t)[n + d] - Starts(s)[n] = Starts(t)[i + d] - Starts(s)[i]
    <2> DEFINE m == j - 1
    <2>1. t \in Seq(Fld) /\ m \in Int /\ m <= Len(s) /\ m + d <= Len(t)
      BY <1>1, <1>3
    <2>2. Alike(s, t, i, m, d)
      BY <1>2 DEF Alike
    <2> HIDE DEF t, d, m
    <2>3. Apart(s, t, i, m, d)
      BY <1>3, <2>1, <2>2, SameStretch
    <2>4. QED
      BY <2>3 DEF m, Apart
  <1>5. j \in i..((j - 1) + 1) /\ j + d = Len(t) + 1 /\ i + d = 1
    BY <1>1
  <1>6. Starts(t)[Len(t) + 1] - Starts(s)[j] = Starts(t)[1] - Starts(s)[i]
    <2> HIDE DEF t, d
    <2> QED
      BY <1>4, <1>5
  <1>7. Starts(t)[1] = 0 /\ Starts(t)[Len(t) + 1] \in Nat
    <2> HIDE DEF t
    <2> QED
      BY <1>1, StartsAre
  <1>8. Starts(s)[i] \in Nat /\ Starts(s)[j] \in Nat
    <2>1. i \in 1..Len(s) + 1 /\ j \in 1..Len(s) + 1
      OBVIOUS
    <2>2. QED
      BY <2>1, StartsAre
  <1> HIDE DEF t
  <1>9. Bytes(t) = Starts(s)[j] - Starts(s)[i]
    BY <1>6, <1>7, <1>8 DEF Bytes
  <1>10. QED
    BY <1>9 DEF t

-----------------------------------------------------------------------------
(* Fields in order *)

Sorted(s) == \A i \in 1..(Len(s) - 1) : s[i].id <= s[i + 1].id

LEMMA SortedAll ==
  ASSUME NEW s \in Seq(Fld), Sorted(s),
         NEW i \in 1..Len(s), NEW j \in 1..Len(s), i <= j
  PROVE  s[i].id <= s[j].id /\ FldType[s[i].id] <= FldType[s[j].id]
  <1> DEFINE S == {n \in Int : s[i].id <= s[n].id}
             c == Len(s)
  <1>1. \A n \in 1..Len(s) : s[n].id \in Nat /\ s[n].id \in Fields
    BY FldOf
  <1>2. i \in S
    BY <1>1
  <1>3. ASSUME NEW n \in (i + 1)..c, n - 1 \in S PROVE n \in S
    <2>1. n - 1 \in 1..(Len(s) - 1) /\ (n - 1) + 1 = n /\ n \in 1..Len(s) /\ n \in Int
      OBVIOUS
    <2>2. s[n - 1].id <= s[n].id
      BY <2>1 DEF Sorted
    <2>3. s[n - 1].id \in Nat /\ s[n].id \in Nat /\ s[i].id \in Nat
      BY <1>1, <2>1
    <2>4. s[i].id <= s[n - 1].id
      BY <1>3
    <2> DEFINE x == s[i].id
               y == s[n - 1].id
               z == s[n].id
    <2>5. x \in Nat /\ y \in Nat /\ z \in Nat /\ x <= y /\ y <= z
      BY Zenon, <2>2, <2>3, <2>4
    <2> HIDE DEF x, y, z
    <2>6. x <= z
      BY <2>5
    <2>7. QED
      BY Zenon, <2>1, <2>6 DEF x, z
  <1>4. i..c \subseteq S
    <2>1. i \in Int /\ c \in Int
      OBVIOUS
    <2> HIDE DEF S, c
    <2> QED
      BY <1>2, <1>3, <2>1, Reaches
  <1>5. s[i].id <= s[j].id
    BY <1>4
  <1>6. s[i].id = s[j].id \/ s[i].id < s[j].id
    BY <1>1, <1>5
  <1>7. FldType[s[i].id] \in Int
    BY <1>1, Fml32Assumption
  <1>8. QED
    BY <1>1, <1>5, <1>6, <1>7, Fml32Assumption

\* The first field that is not in S when those in S come first.
LEMMA FirstOutside ==
  ASSUME NEW n \in Nat, NEW S, \A i, j \in 1..n : i <= j /\ j \in S => i \in S
  PROVE  \E p \in 1..n + 1 : \A i \in 1..n : i < p <=> i \in S
  <1> DEFINE T == {i \in 1..n + 1 : i = n + 1 \/ i \notin S}
  <1>1. T \subseteq Int /\ (\A i \in T : 1 <= i) /\ T # {} /\ 1 \in Int
    OBVIOUS
  <1>2. PICK p \in T : \A i \in T : p <= i
    <2> HIDE DEF T
    <2> QED
      BY <1>1, SmallestExists
  <1>3. p \in 1..n + 1
    OBVIOUS
  <1>4. \A i \in 1..n : i < p <=> i \in S
    BY <1>2
  <1>5. QED
    BY <1>3, <1>4

\* The occurrences of field f are the fields from p to q - 1.
Span(s, f, p, q) ==
  /\ p \in 1..Len(s) + 1 /\ q \in p..Len(s) + 1
  /\ \A i \in 1..Len(s) : /\ i < p <=> s[i].id < f
                          /\ i < q <=> s[i].id <= f

LEMMA SpanExists ==
  ASSUME NEW s \in Seq(Fld), Sorted(s), NEW f \in Fields
  PROVE  \E p, q \in Int : Span(s, f, p, q)
  <1> DEFINE n == Len(s)
             Less == {i \in 1..n : s[i].id < f}
             Upto == {i \in 1..n : s[i].id <= f}
  <1>0. f \in Nat
    BY Fml32Assumption
  <1> USE <1>0
  <1>1. n \in Nat /\ \A i \in 1..n : s[i].id \in Nat
    BY FldOf
  <1>2. \A i, j \in 1..n : i <= j => s[i].id <= s[j].id
    BY SortedAll
  <1>3. \A i, j \in 1..n : i <= j /\ j \in Less => i \in Less
    BY <1>1, <1>2
  <1>4. \A i, j \in 1..n : i <= j /\ j \in Upto => i \in Upto
    BY <1>1, <1>2
  <1>5. PICK p \in 1..n + 1 : \A i \in 1..n : i < p <=> i \in Less
    <2> HIDE DEF Less, n
    <2> QED
      BY <1>1, <1>3, FirstOutside
  <1>6. PICK q \in 1..n + 1 : \A i \in 1..n : i < q <=> i \in Upto
    <2> HIDE DEF Upto, n
    <2> QED
      BY <1>1, <1>4, FirstOutside
  <1>7. \A i \in 1..n : (i < p <=> s[i].id < f) /\ (i < q <=> s[i].id <= f)
    BY <1>5, <1>6
  <1>8. p <= q
    BY <1>1, <1>7
  <1>9. QED
    BY <1>7, <1>8 DEF Span

\* A type begins somewhere, in place t = 9 behind the last field.
LEMMA BeginExists ==
  ASSUME NEW s \in Seq(Fld), Sorted(s), NEW t \in Int
  PROVE  \E i \in 1..Len(s) + 1 : Begins(s, t, i)
  <1> DEFINE n == Len(s)
             S == {i \in 1..n : FldType[s[i].id] < t}
  <1>1. n \in Nat /\ \A i \in 1..n : FldType[s[i].id] \in Int
    BY FldOf, TypeIs
  <1>2. \A i, j \in 1..n : i <= j => FldType[s[i].id] <= FldType[s[j].id]
    BY SortedAll
  <1>3. \A i, j \in 1..n : i <= j /\ j \in S => i \in S
    BY <1>1, <1>2
  <1>4. PICK p \in 1..n + 1 : \A i \in 1..n : i < p <=> i \in S
    <2> HIDE DEF S, n
    <2> QED
      BY <1>1, <1>3, FirstOutside
  <1>5. QED
    BY <1>4 DEF Begins

-----------------------------------------------------------------------------
(* Replacing a stretch of fields of one type *)

Good == {b \in Buffer : Sound(b)}

LEMMA GoodIs ==
  ASSUME NEW b \in Good
  PROVE  /\ b \in Buffer /\ b.flds \in Seq(Fld) /\ Sorted(b.flds)
         /\ b.size \in Int /\ b.len \in Int /\ b.off \in [Type -> Int]
         /\ b.len = Bytes(b.flds) /\ b.len <= b.size
         /\ \A t \in Type, i \in 1..Len(b.flds) + 1 :
              Begins(b.flds, t, i) => b.off[t] = Starts(b.flds)[i]
  BY DEF Good, Buffer, Sound, Sorted

\* t is s with the fields from a to c - 1 replaced by those of t from a to
\* c + d - 1.
Splice(s, t, a, c, d) ==
  /\ a \in 1..Len(s) + 1 /\ c \in a..Len(s) + 1 /\ d \in Int /\ a <= c + d
  /\ Len(t) = Len(s) + d
  /\ Alike(s, t, 1, a - 1, 0)
  /\ Alike(s, t, c, Len(s), d)

LEMMA SpliceStarts ==
  ASSUME NEW s \in Seq(Fld), NEW t \in Seq(Fld), NEW a, NEW c, NEW d,
         Splice(s, t, a, c, d)
  PROVE  /\ \A i \in 1..a : Starts(t)[i] = Starts(s)[i]
         /\ \A i \in c..Len(s) + 1 :
              Starts(t)[i + d] = Starts(s)[i] + (Bytes(t) - Bytes(s))
  <1>1. /\ a \in 1..Len(s) + 1 /\ c \in a..Len(s) + 1 /\ d \in Int /\ a <= c + d
        /\ Len(t) = Len(s) + d /\ Len(s) \in Nat /\ Len(t) \in Nat
    BY DEF Splice
  <1>2. /\ Starts(s) \in [1..Len(s) + 1 -> Nat] /\ Starts(s)[1] = 0
        /\ Starts(t) \in [1..Len(t) + 1 -> Nat] /\ Starts(t)[1] = 0
    BY StartsAre
  <1>3. ASSUME NEW i \in 1..a PROVE Starts(t)[i] = Starts(s)[i]
    <2> DEFINE m == a - 1
               z == 0
               k == 1
    <2>1. Apart(s, t, k, m, z)
      <3>1. /\ k \in Int /\ m \in Int /\ z \in Int /\ 1 <= k /\ m <= Len(s)
            /\ 1 <= k + z /\ m + z <= Len(t)
        BY <1>1
      <3>2. Alike(s, t, k, m, z)
        BY DEF Splice
      <3> HIDE DEF k, m, z
      <3>3. QED
        BY <3>1, <3>2, SameStretch
    <2>2. i \in k..(m + 1) /\ i + z = i /\ k + z = 1
      BY <1>1
    <2>3. Starts(t)[i] - Starts(s)[i] = Starts(t)[1] - Starts(s)[1]
      BY <2>1, <2>2 DEF Apart
    <2>4. i \in 1..Len(s) + 1 /\ i \in 1..Len(t) + 1
      BY <1>1
    <2>5. Starts(t)[i] \in Nat /\ Starts(s)[i] \in Nat
      BY <1>2, <2>4
    <2>6. QED
      BY <1>2, <2>3, <2>5
  <1>4. ASSUME NEW i \in c..Len(s) + 1
        PROVE  Starts(t)[i + d] = Starts(s)[i] + (Bytes(t) - Bytes(s))
    <2> DEFINE m == Len(s)
    <2>1. Apart(s, t, c, m, d)
      <3>1. /\ c \in Int /\ m \in Int /\ d \in Int /\ 1 <= c /\ m <= Len(s)
            /\ 1 <= c + d /\ m + d <= Len(t)
        BY <1>1
      <3>2. Alike(s, t, c, m, d)
        BY DEF Splice
      <3> HIDE DEF m
      <3>3. QED
        BY <3>1, <3>2, SameStretch
    <2>2. i \in c..(m + 1) /\ m + 1 \in c..(m + 1) /\ (m + 1) + d = Len(t) + 1
      BY <1>1
    <2>3. /\ Starts(t)[i + d] - Starts(s)[i] = Starts(t)[c + d] - Starts(s)[c]
          /\ Starts(t)[Len(t) + 1] - Starts(s)[m + 1] = Starts(t)[c + d] - Starts(s)[c]
      BY <2>1, <2>2 DEF Apart
    <2>4. /\ i \in 1..Len(s) + 1 /\ i + d \in 1..Len(t) + 1
          /\ m + 1 \in 1..Len(s) + 1 /\ Len(t) + 1 \in 1..Len(t) + 1
          /\ c \in 1..Len(s) + 1 /\ c + d \in 1..Len(t) + 1
      BY <1>1
    <2>5. /\ Starts(t)[i + d] \in Nat /\ Starts(s)[i] \in Nat
          /\ Starts(t)[Len(t) + 1] \in Nat /\ Starts(s)[m + 1] \in Nat
      BY <1>2, <2>4
    <2>6. QED
      BY <2>3, <2>5 DEF Bytes
  <1>5. QED
    BY <1>3, <1>4

\* The fields before a are of no later type than r, those from c on of no
\* earlier one, and what is replaced and what replaces it is of type r.
Homogeneous(s, t, a, c, d, r) ==
  /\ \A i \in 1..(a - 1) : FldType[s[i].id] <= r
  /\ \A i \in a..(c - 1) : FldType[s[i].id] = r
  /\ \A i \in c..Len(s) : FldType[s[i].id] >= r
  /\ \A i \in a..(c + d - 1) : FldType[t[i].id] = r

\* In the new fields a type that is not after r begins where it did, up to a,
\* and one after r as much later as the end of the stretch.
LEMMA SpliceBegins ==
  ASSUME NEW s \in Seq(Fld), NEW t \in Seq(Fld), NEW a, NEW c, NEW d, NEW r \in Type,
         Splice(s, t, a, c, d), Homogeneous(s, t, a, c, d, r),
         NEW y \in Type, NEW n \in 1..Len(t) + 1, Begins(t, y, n)
  PROVE  /\ y <= r => n \in 1..a /\ Begins(s, y, n)
         /\ y > r => n - d \in c..Len(s) + 1 /\ Begins(s, y, n - d)
  <1>1. /\ a \in 1..Len(s) + 1 /\ c \in a..Len(s) + 1 /\ d \in Int /\ a <= c + d
        /\ Len(t) = Len(s) + d /\ Len(s) \in Nat /\ Len(t) \in Nat
    BY DEF Splice
  <1>2. /\ \A i \in 1..(a - 1) : t[i] = s[i]
        /\ \A i \in c..Len(s) : t[i + d] = s[i]
    BY <1>1 DEF Splice, Alike
  <1>3. /\ \A i \in 1..Len(s) : FldType[s[i].id] \in Int
        /\ \A i \in 1..Len(t) : FldType[t[i].id] \in Int
        /\ y \in Int /\ r \in Int
    <2>1. y \in Int /\ r \in Int /\ Type \subseteq Int
      BY TypeIs
    <2>2. QED
      BY <2>1, FldOf
  <1>4. /\ \A i \in 1..(a - 1) : FldType[t[i].id] <= r
        /\ \A i \in a..(c + d - 1) : FldType[t[i].id] = r
        /\ \A i \in (c + d)..Len(t) : FldType[t[i].id] >= r
    <2>1. ASSUME NEW i \in (c + d)..Len(t) PROVE FldType[t[i].id] >= r
      <3>1. i - d \in c..Len(s) /\ (i - d) + d = i
        BY <1>1
      <3>2. t[i] = s[i - d]
        BY <1>2, <3>1
      <3>3. QED
        BY <3>1, <3>2 DEF Homogeneous
    <2>2. QED
      BY <1>2, <2>1 DEF Homogeneous
  <1>5. \A i \in 1..Len(t) : i < n <=> FldType[t[i].id] < y
    BY DEF Begins
  <1>6. ASSUME y <= r PROVE n \in 1..a /\ Begins(s, y, n)
    <2>1. n \in 1..a
      <3>1. SUFFICES ASSUME n > a PROVE FALSE
        BY <1>1
      <3>2. a \in 1..Len(t) /\ a < n
        BY <1>1, <3>1
      <3>3. FldType[t[a].id] < y
        BY <1>5, <3>2
      <3>4. FldType[t[a].id] >= r
        <4>1. a \in a..(c + d - 1) \/ a \in (c + d)..Len(t)
          BY <1>1, <3>2
        <4>2. QED
          BY <1>3, <1>4, <3>2, <4>1
      <3>5. QED
        BY <1>3, <1>6, <3>2, <3>3, <3>4
    <2>2. ASSUME NEW i \in 1..Len(s) PROVE i < n <=> FldType[s[i].id] < y
      <3>1. CASE i < a
        <4>1. i \in 1..(a - 1) /\ i \in 1..Len(t)
          BY <1>1, <3>1
        <4>2. QED
          BY <1>2, <1>5, <4>1
      <3>2. CASE i >= a
        <4>1. ~(i < n)
          BY <1>1, <2>1, <3>2
        <4>2. i \in a..(c - 1) \/ i \in c..Len(s)
          BY <1>1, <3>2
        <4>3. FldType[s[i].id] >= r
          BY <1>3, <4>2 DEF Homogeneous
        <4>4. QED
          BY <1>3, <1>6, <4>1, <4>3
      <3>3. QED
        BY <1>1, <3>1, <3>2
    <2>3. QED
      BY <2>1, <2>2 DEF Begins
  <1>7. ASSUME y > r PROVE n - d \in c..Len(s) + 1 /\ Begins(s, y, n - d)
    <2>1. c + d <= n
      <3>1. SUFFICES ASSUME n < c + d PROVE FALSE
        BY <1>1
      <3>2. n \in 1..Len(t) /\ ~(n < n)
        BY <1>1, <3>1
      <3>3. FldType[t[n].id] >= y
        BY <1>3, <1>5, <3>2
      <3>4. n \in 1..(a - 1) \/ n \in a..(c + d - 1)
        BY <1>1, <3>1
      <3>5. FldType[t[n].id] <= r
        BY <1>3, <1>4, <3>2, <3>4
      <3>6. QED
        BY <1>3, <1>7, <3>2, <3>3, <3>5
    <2>2. n - d \in c..Len(s) + 1
      BY <1>1, <2>1
    <2>3. ASSUME NEW i \in 1..Len(s) PROVE i < n - d <=> FldType[s[i].id] < y
      <3>1. CASE i >= c
        <4>1. i \in c..Len(s) /\ i + d \in 1..Len(t)
          BY <1>1, <3>1
        <4>2. i + d < n <=> FldType[s[i].id] < y
          BY <1>2, <1>5, <4>1
        <4>3. QED
          BY <1>1, <4>2
      <3>2. CASE i < c
        <4>1. i < n - d
          BY <1>1, <2>1, <3>2
        <4>2. i \in 1..(a - 1) \/ i \in a..(c - 1)
          BY <1>1, <3>2
        <4>3. FldType[s[i].id] <= r
          BY <1>3, <4>2 DEF Homogeneous
        <4>4. QED
          BY <1>3, <1>7, <4>1, <4>3
      <3>3. QED
        BY <1>1, <3>1, <3>2
    <2>4. QED
      BY <2>2, <2>3 DEF Begins
  <1>8. QED
    BY <1>6, <1>7

\* e is b with the fields t.
Becomes(e, b, t) ==
  /\ e \in Good /\ e.flds = t /\ e.size = b.size
  /\ e.len = b.len + (Bytes(t) - Bytes(b.flds))

\* shift keeps a buffer sound when a stretch of one type is replaced.
LEMMA SpliceSound ==
  ASSUME NEW b \in Good, NEW t \in Seq(Fld), NEW a, NEW c, NEW d, NEW r \in Type,
         Splice(b.flds, t, a, c, d), Homogeneous(b.flds, t, a, c, d, r), Sorted(t),
         NEW delta \in Int, delta = Bytes(t) - Bytes(b.flds), b.len + delta <= b.size
  PROVE  Becomes(shift([b EXCEPT !.flds = t], r, delta), b, t)
  <1> DEFINE s == b.flds
             e == shift([b EXCEPT !.flds = t], r, delta)
  <1>1. /\ b \in Buffer /\ s \in Seq(Fld) /\ b.size \in Int /\ b.len \in Int
        /\ b.off \in [Type -> Int] /\ b.len = Bytes(s)
        /\ \A y \in Type, i \in 1..Len(s) + 1 : Begins(s, y, i) => b.off[y] = Starts(s)[i]
    BY GoodIs
  <1>2. /\ e \in Buffer
        /\ e.flds = t /\ e.size = b.size /\ e.len = b.len + delta
        /\ \A y \in Type : e.off[y] = IF y > r THEN b.off[y] + delta ELSE b.off[y]
    <2> DEFINE o == [y \in Type |-> IF y > r THEN b.off[y] + delta ELSE b.off[y]]
    <2>1. o \in [Type -> Int]
      BY <1>1
    <2>2. /\ e.size = b.size /\ e.len = b.len + delta /\ e.off = o /\ e.flds = t
          /\ e = [size |-> e.size, len |-> e.len, off |-> e.off, flds |-> e.flds]
      <3> DEFINE h == [b EXCEPT !.flds = t]
      <3>1. /\ h \in Buffer /\ h.size = b.size /\ h.len = b.len
            /\ h.off = b.off /\ h.flds = t
        BY <1>1 DEF Buffer
      <3>2. e = shift(h, r, delta)
        OBVIOUS
      <3> HIDE DEF h, e
      <3>3. /\ e.size = h.size /\ e.len = h.len + delta /\ e.flds = h.flds
            /\ e.off = [y \in Type |-> IF y > r THEN h.off[y] + delta ELSE h.off[y]]
            /\ e = [size |-> e.size, len |-> e.len, off |-> e.off, flds |-> e.flds]
        BY <3>1, <3>2 DEF shift, Buffer
      <3>4. QED
        BY <3>1, <3>3
    <2> HIDE DEF o, e
    <2>3. e \in Buffer
      BY <1>1, <2>1, <2>2 DEF Buffer
    <2>4. \A y \in Type : e.off[y] = IF y > r THEN b.off[y] + delta ELSE b.off[y]
      BY <2>2 DEF o
    <2>5. QED
      BY <2>2, <2>3, <2>4
  <1>3. /\ \A i \in 1..a : Starts(t)[i] = Starts(s)[i]
        /\ \A i \in c..Len(s) + 1 : Starts(t)[i + d] = Starts(s)[i] + (Bytes(t) - Bytes(s))
    BY <1>1, SpliceStarts
  <1>4. a \in 1..Len(s) + 1 /\ c \in a..Len(s) + 1 /\ d \in Int /\ Len(s) \in Nat
    BY <1>1 DEF Splice
  <1>5. Bytes(t) \in Nat /\ Bytes(s) \in Nat
    <2>1. Len(t) + 1 \in 1..Len(t) + 1 /\ Len(s) + 1 \in 1..Len(s) + 1
      BY <1>1
    <2>2. QED
      BY <1>1, <2>1, StartsAre DEF Bytes
  <1>6. ASSUME NEW y \in Type, NEW n \in 1..Len(t) + 1, Begins(t, y, n)
        PROVE  e.off[y] = Starts(t)[n]
    <2>1. /\ y <= r => n \in 1..a /\ Begins(s, y, n)
          /\ y > r => n - d \in c..Len(s) + 1 /\ Begins(s, y, n - d)
      BY <1>1, <1>6, SpliceBegins
    <2>2. CASE y <= r
      <3>1. n \in 1..Len(s) + 1 /\ n \in 1..a
        BY <1>4, <2>1, <2>2
      <3>2. e.off[y] = Starts(s)[n]
        <4>1. ~(y > r)
          BY <2>2, TypeIs
        <4>2. e.off[y] = b.off[y]
          BY <1>2, <4>1
        <4>3. QED
          BY <1>1, <2>1, <2>2, <3>1, <4>2
      <3>3. QED
        BY <1>3, <3>1, <3>2
    <2>3. CASE y > r
      <3> DEFINE i == n - d
      <3>1. i \in c..Len(s) + 1 /\ i \in 1..Len(s) + 1 /\ i + d = n /\ Begins(s, y, i)
        BY <1>4, <2>1, <2>3
      <3> HIDE DEF i
      <3>2. e.off[y] = Starts(s)[i] + delta
        <4>1. b.off[y] = Starts(s)[i]
          BY <1>1, <3>1
        <4>2. QED
          BY <1>2, <2>3, <4>1
      <3>3. Starts(t)[n] = Starts(s)[i] + (Bytes(t) - Bytes(s))
        BY <1>3, <3>1
      <3>4. QED
        BY <3>2, <3>3
    <2>4. QED
      BY <2>2, <2>3, TypeIs
  <1>7. e.len = Bytes(e.flds) /\ e.len <= e.size
    BY <1>1, <1>2, <1>5
  <1> HIDE DEF e
  <1>8. Sound(e)
    BY <1>2, <1>6, <1>7 DEF Sound, Sorted
  <1>9. QED
    BY <1>2, <1>8 DEF Good, e, Becomes

-----------------------------------------------------------------------------
(* Looking up *)

LEMMA MinIs ==
  ASSUME NEW S, S \subseteq Int, NEW m \in S, \A n \in S : m <= n
  PROVE  Min(S) = m
  <1>1. \A x \in S : (\A n \in S : x <= n) => x = m
    OBVIOUS
  <1>2. QED
    BY <1>1 DEF Min

LEMMA CountRange ==
  ASSUME NEW i \in Int, NEW j \in Int, i <= j
  PROVE  Cardinality(i..(j - 1)) = j - i
  <1>1. j - 1 \in Int
    OBVIOUS
  <1>2. Cardinality(i..(j - 1)) = IF i > j - 1 THEN 0 ELSE (j - 1) - i + 1
    BY <1>1, FS_Interval
  <1>3. QED
    BY <1>2

\* Where the fields of a type end, by the offsets and in truth.
LEMMA LastByte ==
  ASSUME NEW b \in Good, NEW t \in Type
  PROVE  \E q \in 1..Len(b.flds) + 1 :
            Begins(b.flds, t + 1, q) /\ last_byte(b, t) = Starts(b.flds)[q]
  <1> DEFINE s == b.flds
  <1>1. /\ s \in Seq(Fld) /\ Sorted(s) /\ b.len = Bytes(s)
        /\ \A y \in Type, i \in 1..Len(s) + 1 : Begins(s, y, i) => b.off[y] = Starts(s)[i]
    BY GoodIs
  <1>2. t \in 1..8
    BY TypeIs
  <1>3. CASE t = 8
    <2>1. \A i \in 1..Len(s) : FldType[s[i].id] \in 1..8
      BY <1>1, FldOf, TypeIs
    <2>2. Begins(s, t + 1, Len(s) + 1)
      <3>1. ASSUME NEW j \in 1..Len(s)
            PROVE  j < Len(s) + 1 <=> FldType[s[j].id] < t + 1
        <4>1. FldType[s[j].id] < t + 1
          BY <1>3, <2>1
        <4>2. j < Len(s) + 1
          BY <1>1
        <4>3. QED
          BY <4>1, <4>2
      <3>2. QED
        BY <3>1 DEF Begins
    <2>3. last_byte(b, t) = Starts(s)[Len(s) + 1]
      BY <1>1, <1>3, TypeIs DEF last_byte, Bytes
    <2>4. Len(s) + 1 \in 1..Len(s) + 1
      BY <1>1
    <2>5. QED
      BY <2>2, <2>3, <2>4
  <1>4. CASE t # 8
    <2>1. t + 1 \in Type /\ t + 1 \in Int
      BY <1>2, <1>4, TypeIs
    <2>2. PICK q \in 1..Len(s) + 1 : Begins(s, t + 1, q)
      BY <1>1, <2>1, BeginExists
    <2>3. b.off[t + 1] = Starts(s)[q]
      BY <1>1, <2>1, <2>2
    <2>4. last_byte(b, t) = Starts(s)[q]
      BY <1>4, <2>3, TypeIs DEF last_byte
    <2>5. QED
      BY <2>2, <2>4
  <1>5. QED
    BY <1>3, <1>4

LEMMA StartsOrder ==
  ASSUME NEW s \in Seq(Fld), NEW i \in 1..Len(s) + 1, NEW j \in 1..Len(s) + 1
  PROVE  Starts(s)[i] < Starts(s)[j] <=> i < j
  <1>1. Starts(s)[i] \in Nat /\ Starts(s)[j] \in Nat
    BY StartsAre
  <1>2. i < j => Starts(s)[i] < Starts(s)[j]
    BY StartsGrow
  <1>3. j < i => Starts(s)[j] < Starts(s)[i]
    BY StartsGrow
  <1>4. QED
    BY <1>1, <1>2, <1>3

\* The fields between the offsets of a type are those of the type.
LEMMA GroupIs ==
  ASSUME NEW b \in Good, NEW t \in Type, NEW i \in 1..Len(b.flds)
  PROVE  /\ Starts(b.flds)[i] >= first_byte(b, t)
         /\ Starts(b.flds)[i] < last_byte(b, t)
         <=> FldType[b.flds[i].id] = t
  <1> DEFINE s == b.flds
             at == Starts(s)
  <1>1. /\ s \in Seq(Fld) /\ Sorted(s)
        /\ \A y \in Type, n \in 1..Len(s) + 1 : Begins(s, y, n) => b.off[y] = at[n]
    BY GoodIs
  <1>2. t \in Int
    BY TypeIs
  <1>3. PICK p \in 1..Len(s) + 1 : Begins(s, t, p)
    BY <1>1, <1>2, BeginExists
  <1>4. PICK q \in 1..Len(s) + 1 : Begins(s, t + 1, q) /\ last_byte(b, t) = at[q]
    BY LastByte
  <1>5. first_byte(b, t) = at[p]
    BY <1>1, <1>3 DEF first_byte
  <1>6. i \in 1..Len(s) + 1 /\ i \in Int /\ p \in Int /\ q \in Int
    BY <1>1
  <1>7. /\ at[i] < at[p] <=> i < p
        /\ at[i] < at[q] <=> i < q
    BY <1>1, <1>6, StartsOrder
  <1>8. at[i] \in Nat /\ at[p] \in Nat
    BY <1>1, <1>6, StartsAre
  <1>9. i < p <=> FldType[s[i].id] < t
    BY <1>3 DEF Begins
  <1>10. i < q <=> FldType[s[i].id] < t + 1
    BY <1>4 DEF Begins
  <1>11. FldType[s[i].id] \in Int
    BY <1>1, FldOf, TypeIs
  <1> HIDE DEF at
  <1>12. at[i] >= at[p] <=> FldType[s[i].id] >= t
    BY <1>2, <1>7, <1>8, <1>9, <1>11
  <1>13. QED
    BY <1>2, <1>4, <1>5, <1>7, <1>10, <1>11, <1>12 DEF at

\* Where where() ends up.
Found(s, f, oc, p, q) ==
  IF oc \in 0..(q - p - 1) THEN p + oc
  ELSE IF q <= Len(s) /\ FldType[s[q].id] = FldType[f] THEN q ELSE 0

LEMMA WhereIs ==
  ASSUME NEW b \in Good, NEW f \in Fields, NEW oc \in Int, NEW p, NEW q,
         Span(b.flds, f, p, q)
  PROVE  where(b, f, oc) = Found(b.flds, f, oc, p, q)
  <1> DEFINE s == b.flds
             t == FldType[f]
             group == {i \in 1..Len(s) : /\ Starts(s)[i] >= first_byte(b, t)
                                         /\ Starts(s)[i] < last_byte(b, t)}
             before(i) == {j \in group : j < i /\ s[j].id = f}
             stop == {i \in group :
                        \/ s[i].id > f
                        \/ s[i].id = f /\ Cardinality(before(i)) = oc}
  <1>1. s \in Seq(Fld) /\ Len(s) \in Nat
    BY GoodIs
  <1>2. t \in Type /\ f \in Nat
    BY Fml32Assumption DEF Type
  <1>3. \A i \in 1..Len(s) : i \in group <=> FldType[s[i].id] = t
    BY <1>2, GroupIs
  <1>4. /\ p \in 1..Len(s) + 1 /\ q \in p..Len(s) + 1
        /\ \A i \in 1..Len(s) : (i < p <=> s[i].id < f) /\ (i < q <=> s[i].id <= f)
    BY DEF Span
  <1>5. \A i \in 1..Len(s) : s[i].id \in Nat
    BY <1>1, FldOf
  <1>6. \A i \in 1..Len(s) : (s[i].id = f <=> i \in p..(q - 1)) /\ (s[i].id > f <=> i >= q)
    BY <1>1, <1>2, <1>4, <1>5
  <1>7. ASSUME NEW i \in p..(q - 1)
        PROVE  i \in 1..Len(s) /\ i \in group /\ Cardinality(before(i)) = i - p
    <2>1. \A j \in p..(q - 1) : j \in 1..Len(s) /\ s[j].id = f
      BY <1>1, <1>4, <1>6
    <2>2. \A j \in p..(q - 1) : j \in group
      BY <1>3, <2>1
    <2>3. before(i) = p..(i - 1)
      <3>1. \A j \in before(i) : j \in p..(i - 1)
        BY <1>4, <1>6
      <3>2. \A j \in p..(i - 1) : j \in before(i)
        BY <1>4, <2>1, <2>2
      <3>3. QED
        BY <3>1, <3>2
    <2>4. p \in Int /\ i \in Int /\ p <= i
      BY <1>4
    <2>5. QED
      BY <2>1, <2>2, <2>3, <2>4, CountRange
  <1>8. \A i \in stop : i \in 1..Len(s) /\ FldType[s[i].id] = t /\ (i >= q \/ i = p + oc)
    <2> TAKE i \in stop
    <2>1. i \in 1..Len(s) /\ i \in group
      OBVIOUS
    <2>2. CASE s[i].id > f
      BY <1>3, <1>6, <2>1, <2>2
    <2>3. CASE s[i].id = f /\ Cardinality(before(i)) = oc
      <3>1. i \in p..(q - 1)
        BY <1>6, <2>1, <2>3
      <3>2. i - p = oc
        BY <1>7, <2>3, <3>1
      <3>3. QED
        BY <1>3, <1>4, <2>1, <3>1, <3>2
    <2>4. QED
      BY <2>2, <2>3
  <1>9. where(b, f, oc) = IF stop = {} THEN 0 ELSE Min(stop)
    BY DEF where
  <1>10. CASE oc \in 0..(q - p - 1)
    <2>1. p + oc \in p..(q - 1) /\ (p + oc) - p = oc /\ p + oc <= q
      BY <1>4, <1>10
    <2>2. p + oc \in stop
      BY <1>6, <1>7, <2>1
    <2>3. \A i \in stop : p + oc <= i
      <3> HIDE DEF stop
      <3> TAKE i \in stop
      <3>1. i \in 1..Len(s) /\ (i >= q \/ i = p + oc)
        BY <1>8
      <3>2. QED
        BY <1>4, <2>1, <3>1
    <2>4. stop \subseteq Int
      BY <1>8
    <2> HIDE DEF stop
    <2>5. Min(stop) = p + oc
      BY <2>2, <2>3, <2>4, MinIs
    <2>6. QED
      BY <1>9, <1>10, <2>2, <2>5 DEF Found
  <1>11. CASE oc \notin 0..(q - p - 1)
    <2>1. \A i \in stop : i >= q
      <3> TAKE i \in stop
      <3>1. SUFFICES ASSUME ~(i >= q) PROVE FALSE
        OBVIOUS
      <3>2. i \in 1..Len(s) /\ s[i].id = f /\ Cardinality(before(i)) = oc /\ i \in p..(q - 1)
        BY <1>6, <3>1
      <3>3. i - p = oc
        BY <1>7, <3>2
      <3>4. QED
        BY <1>4, <1>11, <3>2, <3>3
    <2>2. CASE q <= Len(s) /\ FldType[s[q].id] = t
      <3>1. q \in 1..Len(s)
        BY <1>4, <2>2
      <3>2. q \in stop
        BY <1>3, <1>6, <2>2, <3>1
      <3>3. \A i \in stop : q <= i
        BY <1>4, <1>8, <2>1
      <3>4. stop \subseteq Int
        BY <1>8
      <3> HIDE DEF stop
      <3>5. Min(stop) = q
        BY <3>2, <3>3, <3>4, MinIs
      <3>6. QED
        BY <1>9, <1>11, <2>2, <3>2, <3>5 DEF Found
    <2>3. CASE ~(q <= Len(s) /\ FldType[s[q].id] = t)
      <3>1. ASSUME NEW i \in stop PROVE FALSE
        <4>1. i \in 1..Len(s) /\ FldType[s[i].id] = t /\ i >= q
          BY <1>8, <2>1
        <4>2. q \in 1..Len(s)
          BY <1>4, <4>1
        <4>3. FldType[s[q].id] <= t
          BY <1>1, <4>1, <4>2, GoodIs, SortedAll
        <4>4. s[q].id > f /\ s[q].id \in Fields
          <5>1. q >= q /\ q \in Int
            BY <4>2
          <5>2. QED
            BY <1>1, <1>6, <4>2, <5>1, FldOf
        <4>5. FldType[f] <= FldType[s[q].id]
          BY <1>2, <4>4, <1>5, <4>2, Fml32Assumption
        <4>6. FldType[s[q].id] \in Int /\ t \in Int
          <5>1. t \in Int
            BY <1>2, TypeIs
          <5>2. QED
            BY <1>1, <4>2, <5>1, FldOf
        <4>7. QED
          BY <2>3, <4>2, <4>3, <4>5, <4>6
      <3>2. stop = {}
        BY <3>1
      <3> HIDE DEF stop
      <3>3. QED
        BY <1>9, <1>11, <2>3, <3>2 DEF Found
    <2>4. QED
      BY <2>2, <2>3
  <1>12. QED
    BY <1>10, <1>11

LEMMA SpanIs ==
  ASSUME NEW s \in Seq(Fld), NEW f \in Fields, NEW p, NEW q, Span(s, f, p, q)
  PROVE  /\ p \in 1..Len(s) + 1 /\ q \in p..Len(s) + 1 /\ p \in Int /\ q \in Int
         /\ \A i \in 1..Len(s) : /\ s[i].id < f <=> i < p
                                 /\ s[i].id = f <=> i \in p..(q - 1)
                                 /\ s[i].id > f <=> i >= q
  <1>0. f \in Nat
    BY Fml32Assumption
  <1> USE <1>0
  <1>1. /\ p \in 1..Len(s) + 1 /\ q \in p..Len(s) + 1 /\ Len(s) \in Nat
        /\ \A i \in 1..Len(s) : (i < p <=> s[i].id < f) /\ (i < q <=> s[i].id <= f)
    BY DEF Span
  <1>2. \A i \in 1..Len(s) : s[i].id \in Nat
    BY FldOf
  <1>3. p \in Int /\ q \in Int
    BY <1>1
  <1>4. \A i \in 1..Len(s) : /\ s[i].id < f <=> i < p
                             /\ s[i].id = f <=> i \in p..(q - 1)
                             /\ s[i].id > f <=> i >= q
    BY <1>1, <1>2
  <1>5. QED
    BY <1>1, <1>3, <1>4

LEMMA HoldsIs ==
  ASSUME NEW b \in Good, NEW f \in Fields, NEW oc \in Int, NEW p, NEW q,
         Span(b.flds, f, p, q)
  PROVE  Holds(b, where(b, f, oc), f) <=> oc \in 0..(q - p - 1)
  <1> DEFINE s == b.flds
  <1>1. s \in Seq(Fld) /\ Len(s) \in Nat /\ f \in Nat
    BY GoodIs, Fml32Assumption
  <1>2. where(b, f, oc) = Found(s, f, oc, p, q)
    BY WhereIs
  <1>3. /\ p \in 1..Len(s) + 1 /\ q \in p..Len(s) + 1
        /\ \A i \in 1..Len(s) : s[i].id = f <=> i \in p..(q - 1)
    BY <1>1, SpanIs
  <1>4. CASE oc \in 0..(q - p - 1)
    <2>1. p + oc \in 1..Len(s) /\ p + oc \in p..(q - 1) /\ p + oc # 0
      BY <1>3, <1>4
    <2>2. where(b, f, oc) = p + oc
      BY <1>2, <1>4 DEF Found
    <2>3. QED
      BY <1>3, <1>4, <2>1, <2>2 DEF Holds
  <1>5. CASE oc \notin 0..(q - p - 1)
    <2>1. where(b, f, oc) = 0 \/ (where(b, f, oc) = q /\ q \in 1..Len(s))
      BY <1>2, <1>3, <1>5 DEF Found
    <2>2. q \in 1..Len(s) => s[q].id # f
      BY <1>3
    <2>3. QED
      BY <1>5, <2>1, <2>2 DEF Holds
  <1>6. QED
    BY <1>4, <1>5

\* Following the fields from the first occurrence counts them all.
LEMMA RunIs ==
  ASSUME NEW b \in Good, NEW f \in Fields, NEW p, NEW q, Span(b.flds, f, p, q)
  PROVE  /\ Run(b, where(b, f, 0), f) = p..(q - 1)
         /\ occur(b, f) = q - p /\ occur(b, f) \in Nat
         /\ p < q => where(b, f, 0) = p
  <1> DEFINE s == b.flds
             i == where(b, f, 0)
  <1>1. s \in Seq(Fld) /\ Len(s) \in Nat /\ f \in Nat
    BY GoodIs, Fml32Assumption
  <1>2. i = Found(s, f, 0, p, q)
    BY WhereIs
  <1>3. /\ p \in 1..Len(s) + 1 /\ q \in p..Len(s) + 1 /\ p \in Int /\ q \in Int
        /\ \A k \in 1..Len(s) : s[k].id = f <=> k \in p..(q - 1)
    BY <1>1, SpanIs
  <1>4. p < q => i = p
    BY <1>2, <1>3 DEF Found
  <1>5. Run(b, i, f) = p..(q - 1)
    <2>1. CASE p < q
      <3>1. \A k \in p..Len(s) : Holds(b, k, f) <=> k \in p..(q - 1)
        BY <1>3 DEF Holds
      <3>2. \A j \in p..(q - 1) : j \in p..Len(s) /\ \A k \in p..j : k \in p..(q - 1) /\ k \in p..Len(s)
        BY <1>3
      <3>3. ASSUME NEW j \in p..Len(s), \A k \in p..j : Holds(b, k, f)
            PROVE  j \in p..(q - 1)
        <4>1. j \in p..j
          BY <1>3
        <4>2. QED
          BY <3>1, <3>3, <4>1
      <3>4. Run(b, p, f) = p..(q - 1)
        BY <3>1, <3>2, <3>3 DEF Run
      <3>5. QED
        BY <1>4, <2>1, <3>4
    <2>2. CASE ~(p < q)
      <3>1. i \in Int
        BY <1>2, <1>3 DEF Found
      <3>2. ~Holds(b, i, f)
        <4>1. 0 \notin 0..(q - p - 1)
          BY <1>3, <2>2
        <4>2. QED
          BY <4>1, HoldsIs
      <3>3. ASSUME NEW j \in i..Len(s), \A k \in i..j : Holds(b, k, f) PROVE FALSE
        <4>1. i \in i..j
          BY <3>1
        <4>2. QED
          BY <3>2, <3>3, <4>1
      <3>4. Run(b, i, f) = {}
        BY <3>3 DEF Run
      <3>5. p..(q - 1) = {}
        BY <1>3, <2>2
      <3>6. QED
        BY <3>4, <3>5
    <2>3. QED
      BY <2>1, <2>2
  <1>6. occur(b, f) = q - p
    <2>1. p <= q
      BY <1>3
    <2>2. QED
      BY <1>3, <1>5, <2>1, CountRange DEF occur
  <1>7. QED
    BY <1>3, <1>4, <1>5, <1>6

\* Where lower_bound puts a field that is not there: behind its type, or in
\* front of the next field of the type, both behind its other occurrences.
LEMMA InsertPlace ==
  ASSUME NEW b \in Good, NEW f \in Fields, NEW oc \in Int, NEW p, NEW q,
         Span(b.flds, f, p, q), oc \notin 0..(q - p - 1)
  PROVE  (IF where(b, f, oc) = 0 THEN Index(b, last_byte(b, FldType[f]))
                                 ELSE where(b, f, oc)) = q
  <1> DEFINE s == b.flds
             t == FldType[f]
             at == Starts(s)
  <1>1. s \in Seq(Fld) /\ Len(s) \in Nat /\ f \in Nat /\ Sorted(s)
    BY GoodIs, Fml32Assumption
  <1>2. t \in Type /\ t \in Int
    BY Fml32Assumption, TypeIs DEF Type
  <1>3. where(b, f, oc) = Found(s, f, oc, p, q)
    BY WhereIs
  <1>4. /\ p \in 1..Len(s) + 1 /\ q \in p..Len(s) + 1 /\ p \in Int /\ q \in Int
        /\ \A i \in 1..Len(s) : /\ s[i].id < f <=> i < p
                                /\ s[i].id = f <=> i \in p..(q - 1)
                                /\ s[i].id > f <=> i >= q
    BY <1>1, SpanIs
  <1>5. CASE q <= Len(s) /\ FldType[s[q].id] = t
    <2>1. where(b, f, oc) = q /\ q # 0
      BY <1>3, <1>4, <1>5 DEF Found
    <2>2. QED
      BY <2>1
  <1>6. CASE ~(q <= Len(s) /\ FldType[s[q].id] = t)
    <2>1. where(b, f, oc) = 0
      BY <1>3, <1>6 DEF Found
    <2>2. PICK n \in 1..Len(s) + 1 : Begins(s, t + 1, n) /\ last_byte(b, t) = at[n]
      BY <1>2, LastByte
    <2>3. \A i \in 1..Len(s) : i < n <=> FldType[s[i].id] < t + 1
      BY <2>2 DEF Begins
    <2>4. ASSUME NEW i \in 1..Len(s) PROVE i < n <=> i < q
      <3>1. s[i].id \in Fields /\ s[i].id \in Nat /\ FldType[s[i].id] \in Int
        BY <1>1, FldOf
      <3>2. CASE i < q
        <4>1. s[i].id = f \/ s[i].id < f
          BY <1>4, <3>2
        <4>2. FldType[s[i].id] <= t
          BY <1>1, <1>2, <3>1, <4>1, Fml32Assumption
        <4>3. QED
          BY <1>2, <2>3, <3>1, <3>2, <4>2
      <3>3. CASE ~(i < q)
        <4>1. q \in 1..Len(s) /\ q <= i
          BY <1>4, <3>3
        <4>2. s[q].id > f /\ s[q].id \in Fields /\ FldType[s[q].id] \in Int
          <5>1. q >= q
            BY <4>1
          <5>2. QED
            BY <1>1, <1>4, <4>1, <5>1, FldOf
        <4>3. FldType[s[q].id] >= t
          BY <1>1, <1>2, <4>1, <4>2, FldOf, Fml32Assumption
        <4>4. FldType[s[q].id] > t
          BY <1>2, <1>6, <4>1, <4>2, <4>3
        <4>5. FldType[s[q].id] <= FldType[s[i].id]
          BY <1>1, <4>1, SortedAll
        <4>6. QED
          BY <1>2, <2>3, <3>1, <3>3, <4>2, <4>4, <4>5
      <3>4. QED
        BY <3>2, <3>3
    <2>5. n = q
      <3>1. n \in Int /\ n <= Len(s) + 1 /\ 1 <= n
        BY <1>1
      <3>2. CASE n < q
        <4>1. n \in 1..Len(s)
          BY <1>4, <3>1, <3>2
        <4>2. QED
          BY <2>4, <3>1, <3>2, <4>1
      <3>3. CASE q < n
        <4>1. q \in 1..Len(s)
          BY <1>4, <3>1, <3>3
        <4>2. QED
          BY <1>4, <2>4, <3>1, <3>3, <4>1
      <3>4. QED
        BY <1>4, <3>1, <3>2, <3>3
    <2>6. Index(b, at[n]) = n
      <3>1. \A i \in 1..Len(s) : at[i] < at[n] <=> i < n
        <4> TAKE i \in 1..Len(s)
        <4>1. i \in 1..Len(s) + 1
          BY <1>1
        <4>2. QED
          BY <1>1, <4>1, StartsOrder
      <3>2. {i \in 1..Len(s) : at[i] < at[n]} = 1..(n - 1)
        BY <1>1, <3>1
      <3>3. Cardinality(1..(n - 1)) = n - 1
        BY CountRange
      <3>4. Index(b, at[n]) = 1 + Cardinality({i \in 1..Len(s) : at[i] < at[n]})
        BY DEF Index
      <3>5. n \in Int
        BY <1>1
      <3> HIDE DEF at
      <3>6. Index(b, at[n]) = 1 + (n - 1)
        BY <3>2, <3>3, <3>4
      <3>7. QED
        BY <3>5, <3>6
    <2>7. QED
      BY <2>1, <2>2, <2>5, <2>6
  <1>7. QED
    BY <1>5, <1>6

-----------------------------------------------------------------------------
(* Changing one field *)

LEMMA InsertIs ==
  ASSUME NEW s \in Seq(Fld), NEW q \in 1..Len(s) + 1, NEW x \in Fld
  PROVE  /\ InsertAt(s, q, x) \in Seq(Fld) /\ Len(InsertAt(s, q, x)) = Len(s) + 1
         /\ \A i \in 1..(q - 1) : InsertAt(s, q, x)[i] = s[i]
         /\ InsertAt(s, q, x)[q] = x
         /\ \A i \in q..Len(s) : InsertAt(s, q, x)[i + 1] = s[i]
  <1> DEFINE u == SubSeq(s, 1, q - 1)
             v == SubSeq(s, q, Len(s))
             t == InsertAt(s, q, x)
  <1>1. u \in Seq(Fld) /\ Len(u) = q - 1 /\ \A i \in 1..(q - 1) : u[i] = s[i]
    OBVIOUS
  <1>2. /\ v \in Seq(Fld) /\ Len(v) = Len(s) - q + 1
        /\ \A i \in 1..(Len(s) - q + 1) : v[i] = s[q + i - 1]
    OBVIOUS
  <1>3. t = u \o <<x>> \o v
    BY DEF InsertAt
  <1> HIDE DEF u, v, t
  <1> DEFINE w == u \o <<x>>
  <1>4. /\ w \in Seq(Fld) /\ Len(w) = q /\ w[q] = x
        /\ \A i \in 1..(q - 1) : w[i] = s[i]
    BY <1>1
  <1>5. t = w \o v
    BY <1>3
  <1> HIDE DEF w
  <1>6. t \in Seq(Fld) /\ Len(t) = Len(s) + 1
    BY <1>2, <1>4, <1>5
  <1>7. (\A i \in 1..(q - 1) : t[i] = s[i]) /\ t[q] = x
    BY <1>2, <1>4, <1>5
  <1>8. ASSUME NEW i \in q..Len(s) PROVE t[i + 1] = s[i]
    <2>1. t[i + 1] = v[i + 1 - q] /\ i + 1 - q \in 1..(Len(s) - q + 1)
      BY <1>2, <1>4, <1>5
    <2>2. q + (i + 1 - q) - 1 = i
      OBVIOUS
    <2>3. QED
      BY <1>2, <2>1, <2>2
  <1>9. QED
    BY <1>6, <1>7, <1>8 DEF t

LEMMA ReplaceIs ==
  ASSUME NEW s \in Seq(Fld), NEW n \in 1..Len(s), NEW x \in Fld
  PROVE  /\ ReplaceAt(s, n, x) \in Seq(Fld) /\ Len(ReplaceAt(s, n, x)) = Len(s)
         /\ \A i \in 1..Len(s) : ReplaceAt(s, n, x)[i] = IF i = n THEN x ELSE s[i]
  BY ExceptSeq DEF ReplaceAt

\* The stretch that put replaces: one field, or nothing behind the others.
From(oc, p, q) == IF oc \in 0..(q - p - 1) THEN p + oc ELSE q
To(oc, p, q) == IF oc \in 0..(q - p - 1) THEN p + oc + 1 ELSE q
More(oc, p, q) == IF oc \in 0..(q - p - 1) THEN 0 ELSE 1

\* The fields after it.
New(s, oc, p, q, x) ==
  IF oc \in 0..(q - p - 1) THEN ReplaceAt(s, p + oc, x) ELSE InsertAt(s, q, x)

\* t is s with a stretch of fields f replaced by another one.
Alone(s, t, a, c, d, f) ==
  /\ Splice(s, t, a, c, d)
  /\ \A i \in 1..(a - 1) : s[i].id <= f
  /\ \A i \in a..(c - 1) : s[i].id = f
  /\ \A i \in c..Len(s) : s[i].id >= f
  /\ \A i \in a..(c + d - 1) : t[i].id = f

LEMMA NewIs ==
  ASSUME NEW s \in Seq(Fld), Sorted(s), NEW f \in Fields, NEW v \in Nat, NEW oc \in Int,
         NEW p, NEW q, Span(s, f, p, q), NEW x, x = [id |-> f, val |-> v]
  PROVE  /\ New(s, oc, p, q, x) \in Seq(Fld) /\ x \in Fld
         /\ Splice(s, New(s, oc, p, q, x), From(oc, p, q), To(oc, p, q), More(oc, p, q))
         /\ Homogeneous(s, New(s, oc, p, q, x), From(oc, p, q), To(oc, p, q),
                        More(oc, p, q), FldType[f])
         /\ Alone(s, New(s, oc, p, q, x), From(oc, p, q), To(oc, p, q), More(oc, p, q), f)
         /\ Sorted(New(s, oc, p, q, x))
         /\ New(s, oc, p, q, x)[From(oc, p, q)] = x
         /\ Span(New(s, oc, p, q, x), f, p, q + More(oc, p, q))
  <1> DEFINE t == New(s, oc, p, q, x)
             there == oc \in 0..(q - p - 1)
             a == From(oc, p, q)
             c == To(oc, p, q)
             d == More(oc, p, q)
  <1>1. x \in Fld /\ x.id = f /\ f \in Nat /\ x.id \in Nat /\ Len(s) \in Nat
    BY Fml32Assumption DEF Fld
  <1>2. /\ p \in 1..Len(s) + 1 /\ q \in p..Len(s) + 1 /\ p \in Int /\ q \in Int
        /\ \A i \in 1..Len(s) : /\ s[i].id < f <=> i < p
                                /\ s[i].id = f <=> i \in p..(q - 1)
                                /\ s[i].id > f <=> i >= q
    BY <1>1, SpanIs
  <1>3. /\ a \in p..q /\ c \in a..q /\ (there => c = a + 1) /\ (~there => a = q /\ c = q)
        /\ a \in Int /\ c \in Int /\ d \in {0, 1} /\ c + d = a + 1
        /\ (there => p + oc \in 1..Len(s))
    BY <1>2 DEF From, To, More
  <1>4. /\ t \in Seq(Fld) /\ Len(t) = Len(s) + d /\ t[a] = x
        /\ \A i \in 1..(a - 1) : t[i] = s[i]
        /\ \A i \in c..Len(s) : t[i + d] = s[i]
    <2>1. CASE there
      <3> DEFINE n == p + oc
      <3>1. n \in 1..Len(s) /\ n \in Int /\ t = ReplaceAt(s, n, x) /\ a = n /\ c = n + 1 /\ d = 0
        BY <1>3, <2>1 DEF New, From, To, More
      <3> HIDE DEF n, t, a, c, d
      <3>2. /\ t \in Seq(Fld) /\ Len(t) = Len(s)
            /\ \A i \in 1..Len(s) : t[i] = IF i = n THEN x ELSE s[i]
        <4>1. /\ ReplaceAt(s, n, x) \in Seq(Fld) /\ Len(ReplaceAt(s, n, x)) = Len(s)
              /\ \A i \in 1..Len(s) : ReplaceAt(s, n, x)[i] = IF i = n THEN x ELSE s[i]
          <5> HIDE DEF there
          <5> QED
            BY <1>1, <3>1, ReplaceIs
        <4>2. QED
          BY <3>1, <4>1
      <3>3. t[n] = x
        BY <3>1, <3>2
      <3>4. ASSUME NEW i \in 1..(n - 1) PROVE t[i] = s[i]
        <4>1. i \in 1..Len(s) /\ i # n
          BY <1>1, <3>1
        <4>2. QED
          BY <3>2, <4>1
      <3>5. ASSUME NEW i \in (n + 1)..Len(s) PROVE t[i + 0] = s[i]
        <4>1. i \in 1..Len(s) /\ i # n /\ i + 0 = i
          BY <1>1, <3>1
        <4>2. QED
          BY <3>2, <4>1
      <3>6. QED
        BY <3>1, <3>2, <3>3, <3>4, <3>5
    <2>2. CASE ~there
      <3>1. q \in 1..Len(s) + 1 /\ t = InsertAt(s, q, x) /\ a = q /\ c = q /\ d = 1
        BY <1>2, <2>2 DEF New, From, To, More
      <3> HIDE DEF t, a, c, d
      <3>2. QED
        BY <1>1, <3>1, InsertIs
    <2>3. QED
      BY <2>1, <2>2
  <1> HIDE DEF t, a, c, d, there
  <1>5. Splice(s, t, a, c, d)
    <2>1. /\ a \in 1..Len(s) + 1 /\ c \in a..Len(s) + 1 /\ d \in Int /\ a <= c + d
      BY <1>1, <1>2, <1>3
    <2>2. Alike(s, t, 1, a - 1, 0)
      BY <1>3, <1>4 DEF Alike
    <2>3. Alike(s, t, c, Len(s), d)
      BY <1>4 DEF Alike
    <2>4. QED
      BY <1>4, <2>1, <2>2, <2>3 DEF Splice
  <1>6. \A i \in 1..Len(s) : /\ s[i] \in Fld /\ s[i].id \in Fields /\ s[i].id \in Nat
    BY FldOf
  <1>7. /\ \A i \in 1..(a - 1) : i \in 1..Len(s) /\ s[i].id <= f
        /\ \A i \in a..(c - 1) : i \in 1..Len(s) /\ s[i].id = f
        /\ \A i \in c..Len(s) : i \in 1..Len(s) /\ s[i].id >= f
    <2>1. ASSUME NEW i \in 1..(a - 1) PROVE i \in 1..Len(s) /\ s[i].id <= f
      <3>1. i \in 1..Len(s) /\ ~(i >= q)
        BY <1>1, <1>2, <1>3
      <3>2. QED
        BY <1>1, <1>2, <1>6, <3>1
    <2>2. ASSUME NEW i \in a..(c - 1) PROVE i \in 1..Len(s) /\ s[i].id = f
      <3>1. i \in 1..Len(s) /\ i \in p..(q - 1)
        BY <1>1, <1>2, <1>3
      <3>2. QED
        BY <1>2, <3>1
    <2>3. ASSUME NEW i \in c..Len(s) PROVE i \in 1..Len(s) /\ s[i].id >= f
      <3>1. i \in 1..Len(s) /\ ~(i < p)
        BY <1>1, <1>2, <1>3
      <3>2. QED
        BY <1>1, <1>2, <1>6, <3>1
    <2>4. QED
      BY <2>1, <2>2, <2>3
  <1>8. \A g \in Fields : /\ g \in Nat /\ FldType[g] \in Int
                          /\ g <= f => FldType[g] <= FldType[f]
                          /\ g >= f => FldType[g] >= FldType[f]
    <2>1. \A g \in Fields : g \in Nat /\ FldType[g] \in Int
      BY Fml32Assumption
    <2>2. \A g, h \in Fields : g = h \/ g < h \/ h < g
      BY <2>1
    <2>3. QED
      BY <1>1, <2>1, <2>2, Fml32Assumption
  <1>9. Homogeneous(s, t, a, c, d, FldType[f])
    <2>1. \A i \in a..(c + d - 1) : i = a
      BY <1>3
    <2>2. \A i \in a..(c + d - 1) : FldType[t[i].id] = FldType[f]
      BY <1>1, <1>4, <2>1
    <2>3. QED
      BY <1>6, <1>7, <1>8, <2>2 DEF Homogeneous
  <1>10. \A i \in 1..Len(t) : /\ i < p <=> t[i].id < f
                              /\ i < q + d <=> t[i].id <= f
    <2> TAKE i \in 1..Len(t)
    <2>1. i \in Int /\ i \in 1..(Len(s) + d)
      BY <1>4
    <2>2. CASE i < a
      <3>1. t[i] = s[i] /\ i \in 1..Len(s) /\ i < q
        BY <1>1, <1>2, <1>3, <1>4, <2>1, <2>2
      <3>2. QED
        BY <1>1, <1>2, <1>3, <1>6, <2>1, <3>1
    <2>3. CASE i = a
      BY <1>1, <1>2, <1>3, <1>4, <2>1, <2>3
    <2>4. CASE i > a
      <3> DEFINE j == i - d
      <3>1. j \in c..Len(s) /\ j \in 1..Len(s) /\ j + d = i
        BY <1>1, <1>2, <1>3, <2>1, <2>4
      <3> HIDE DEF j
      <3>2. t[i] = s[j]
        BY <1>4, <3>1
      <3>3. s[j].id >= f /\ s[j].id \in Nat
        BY <1>6, <1>7, <3>1
      <3>4. s[j].id = f <=> j < q
        BY <1>1, <1>2, <3>1, <3>3
      <3>5. ~(i < p)
        BY <1>2, <1>3, <2>1, <2>4
      <3>6. j < q <=> i < q + d
        BY <1>2, <1>3, <2>1, <3>1
      <3>7. QED
        BY <1>1, <3>2, <3>3, <3>4, <3>5, <3>6
    <2>5. QED
      BY <1>3, <2>1, <2>2, <2>3, <2>4
  <1>11. Span(t, f, p, q + d)
    <2>1. p \in 1..Len(t) + 1 /\ q + d \in p..Len(t) + 1
      BY <1>1, <1>2, <1>3, <1>4
    <2>2. QED
      BY <1>10, <2>1 DEF Span
  <1>12. Sorted(t)
    <2>1. ASSUME NEW i \in 1..(Len(t) - 1) PROVE t[i].id <= t[i + 1].id
      <3>1. i \in 1..(Len(s) + d - 1) /\ i \in Int
        BY <1>1, <1>3, <1>4
      <3>2. CASE i + 1 < a
        <4>1. t[i] = s[i] /\ t[i + 1] = s[i + 1] /\ i \in 1..(Len(s) - 1)
          BY <1>1, <1>2, <1>3, <1>4, <3>1, <3>2
        <4>2. QED
          BY <4>1 DEF Sorted
      <3>3. CASE i + 1 = a
        <4>1. t[i] = s[i] /\ i \in 1..(a - 1) /\ t[i + 1] = x
          BY <1>1, <1>2, <1>3, <1>4, <3>1, <3>3
        <4>2. QED
          BY <1>1, <1>7, <4>1
      <3>4. CASE i = a
        <4>1. c \in c..Len(s) /\ c + d = i + 1
          BY <1>1, <1>2, <1>3, <3>1, <3>4
        <4>2. t[i + 1] = s[c] /\ s[c].id >= f
          BY <1>4, <1>7, <4>1
        <4>3. QED
          BY <1>1, <1>4, <1>6, <1>7, <3>4, <4>1, <4>2
      <3>5. CASE i > a
        <4> DEFINE j == i - d
        <4>1. /\ j \in c..Len(s) /\ j + 1 \in c..Len(s) /\ j + d = i /\ (j + 1) + d = i + 1
              /\ j \in 1..(Len(s) - 1)
          BY <1>1, <1>2, <1>3, <3>1, <3>5
        <4> HIDE DEF j
        <4>2. t[i] = s[j] /\ t[i + 1] = s[j + 1]
          BY <1>4, <4>1
        <4>3. QED
          BY <4>1, <4>2 DEF Sorted
      <3>6. QED
        BY <1>3, <3>1, <3>2, <3>3, <3>4, <3>5
    <2>2. QED
      BY <2>1 DEF Sorted
  <1>13. Alone(s, t, a, c, d, f)
    <2>1. \A i \in a..(c + d - 1) : i = a
      BY <1>3
    <2>2. \A i \in a..(c + d - 1) : t[i].id = f
      BY <1>1, <1>4, <2>1
    <2>3. QED
      BY <1>5, <1>7, <2>2 DEF Alone
  <1>14. QED
    BY <1>1, <1>4, <1>5, <1>9, <1>11, <1>12, <1>13 DEF t, a, c, d, there

LEMMA BytesType ==
  ASSUME NEW s \in Seq(Fld)
  PROVE  Bytes(s) \in Nat
  <1>1. Len(s) + 1 \in 1..Len(s) + 1
    OBVIOUS
  <1>2. QED
    BY <1>1, StartsAre DEF Bytes

\* What put needs is what the fields grow by.
LEMMA NeedIs ==
  ASSUME NEW s \in Seq(Fld), Sorted(s), NEW f \in Fields, NEW v \in Nat, NEW oc \in Int,
         NEW p, NEW q, Span(s, f, p, q), NEW x, x = [id |-> f, val |-> v]
  PROVE  Bytes(New(s, oc, p, q, x)) - Bytes(s)
           = Round8(f, v) - (IF oc \in 0..(q - p - 1) THEN Round8(f, s[p + oc].val) ELSE 0)
  <1> DEFINE t == New(s, oc, p, q, x)
             there == oc \in 0..(q - p - 1)
             a == From(oc, p, q)
             c == To(oc, p, q)
             d == More(oc, p, q)
  <1>1. t \in Seq(Fld) /\ x \in Fld /\ Splice(s, t, a, c, d) /\ t[a] = x
    BY NewIs
  <1>2. /\ p \in 1..Len(s) + 1 /\ q \in p..Len(s) + 1 /\ p \in Int /\ q \in Int
        /\ \A i \in 1..Len(s) : s[i].id = f <=> i \in p..(q - 1)
    <2>1. f \in Nat
      BY Fml32Assumption
    <2>2. QED
      BY <2>1, SpanIs
  <1>3. there => a \in 1..Len(s) /\ a \in p..(q - 1) /\ a = p + oc /\ c = a + 1
    BY <1>2 DEF From, To
  <1>4. c + d = a + 1 /\ (~there => c = a)
    BY <1>2 DEF From, To, More
  <1> HIDE DEF t, a, c, d, there
  <1>5. /\ a \in 1..Len(s) + 1 /\ c \in a..Len(s) + 1 /\ d \in Int /\ Len(t) = Len(s) + d
    BY <1>1 DEF Splice
  <1>6. Starts(t)[a] = Starts(s)[a]
    <2>1. a \in 1..a
      BY <1>5
    <2>2. QED
      BY <1>1, <2>1, SpliceStarts
  <1>7. Starts(t)[a + 1] = Starts(s)[c] + (Bytes(t) - Bytes(s))
    <2>1. c \in c..Len(s) + 1
      BY <1>5
    <2>2. QED
      BY <1>1, <1>4, <2>1, SpliceStarts
  <1>8. a \in 1..Len(t)
    BY <1>4, <1>5
  <1>9. Starts(t)[a + 1] = Starts(t)[a] + Round8(f, v)
    BY <1>1, <1>8, StartsAre DEF Width
  <1>10. /\ Starts(s)[a] \in Nat /\ Bytes(t) \in Nat /\ Bytes(s) \in Nat /\ Round8(f, v) \in Nat
    BY <1>1, <1>5, StartsAre, BytesType, Round8Type
  <1>11. CASE there
    <2>1. s[a].id = f /\ s[a].val \in Nat
      BY <1>2, <1>3, <1>11, FldOf
    <2>2. Starts(s)[c] = Starts(s)[a] + Width(s[a])
      <3>1. a \in 1..Len(s) /\ c = a + 1
        BY <1>3, <1>11
      <3>2. QED
        BY <3>1, StartsAre
    <2>3. Width(s[a]) = Round8(f, s[a].val)
      BY <2>1 DEF Width
    <2>4. Round8(f, s[a].val) \in Nat
      BY <2>1, Round8Type
    <2>5. Bytes(t) - Bytes(s) = Round8(f, v) - Round8(f, s[a].val)
      <3>1. Starts(s)[c] = Starts(s)[a] + Round8(f, s[a].val)
        BY <2>2, <2>3
      <3>2. Starts(s)[a] + Round8(f, v)
              = Starts(s)[a] + Round8(f, s[a].val) + (Bytes(t) - Bytes(s))
        BY <1>6, <1>7, <1>9, <3>1
      <3> DEFINE u == Bytes(t)
                 w == Bytes(s)
                 k == Starts(s)[a]
                 m == Round8(f, v)
                 n == Round8(f, s[a].val)
      <3>3. k \in Int /\ m \in Int /\ n \in Int /\ u \in Int /\ w \in Int
        BY <1>10, <2>4
      <3>4. k + m = k + n + (u - w)
        BY <3>2
      <3> HIDE DEF u, w, k, m, n
      <3>5. u - w = m - n
        BY <3>3, <3>4
      <3>6. QED
        BY <3>5 DEF u, w, m, n
    <2>6. QED
      BY <1>3, <1>11, <2>5 DEF t, there
  <1>12. CASE ~there
    <2>1. Bytes(t) - Bytes(s) = Round8(f, v) - 0
      BY <1>4, <1>6, <1>7, <1>9, <1>10, <1>12
    <2>2. QED
      BY <1>12, <2>1 DEF t, there
  <1>13. QED
    BY <1>11, <1>12

\* put stores the value, or fails because it does not fit.
LEMMA PutIs ==
  ASSUME NEW b \in Good, NEW f \in Fields, NEW v \in Nat, NEW oc \in Int,
         NEW p, NEW q, Span(b.flds, f, p, q),
         NEW t, t = New(b.flds, oc, p, q, [id |-> f, val |-> v])
  PROVE  /\ b.len + (Bytes(t) - Bytes(b.flds)) > b.size
              => put(b, f, oc, v) = Fail(b, "FNOSPACE")
         /\ b.len + (Bytes(t) - Bytes(b.flds)) <= b.size
              => put(b, f, oc, v).rc = "ok" /\ Becomes(put(b, f, oc, v).b, b, t)
  <1> DEFINE s == b.flds
             x == [id |-> f, val |-> v]
             i == where(b, f, oc)
             there == oc \in 0..(q - p - 1)
             a == From(oc, p, q)
             c == To(oc, p, q)
             d == More(oc, p, q)
             r == FldType[f]
             delta == Bytes(t) - Bytes(s)
             need == Round8(f, v) - (IF there THEN Round8(f, s[p + oc].val) ELSE 0)
             at == IF i = 0 THEN Index(b, last_byte(b, r)) ELSE i
             e == shift([b EXCEPT !.flds = t], r, delta)
  <1>1. /\ s \in Seq(Fld) /\ Sorted(s) /\ b.size \in Int /\ b.len \in Int /\ b.len <= b.size
        /\ b \in Buffer
    BY GoodIs
  <1>2. /\ t \in Seq(Fld) /\ Splice(s, t, a, c, d) /\ Homogeneous(s, t, a, c, d, r) /\ Sorted(t)
    BY <1>1, NewIs
  <1>3. delta = need /\ delta \in Int
    <2>1. Bytes(t) \in Nat /\ Bytes(s) \in Nat
      BY <1>1, <1>2, BytesType
    <2>2. delta = need
      BY <1>1, NeedIs
    <2>3. delta \in Int
      BY <2>1
    <2>4. QED
      BY <2>2, <2>3
  <1>4. Holds(b, i, f) <=> there
    BY HoldsIs
  <1>5. there => i = p + oc
    <2>1. i = Found(s, f, oc, p, q)
      BY WhereIs
    <2>2. QED
      BY <2>1 DEF Found
  <1>6. ~there => at = q
    BY InsertPlace
  <1>7. r \in Type
    BY Fml32Assumption DEF Type
  <1>8. put(b, f, oc, v) =
          IF need # 0 /\ b.len + need > b.size THEN Fail(b, "FNOSPACE")
          ELSE Done(shift([b EXCEPT !.flds = t], r, need))
    <2>1. CASE there
      <3>1. t = ReplaceAt(s, i, x)
        BY <1>5, <2>1 DEF New
      <3> HIDE DEF there, i
      <3>2. Holds(b, i, f) /\ i = p + oc
        BY <1>4, <1>5, <2>1
      <3>3. QED
        BY <2>1, <3>1, <3>2 DEF put, i
    <2>2. CASE ~there
      <3>1. t = InsertAt(s, at, x)
        BY <1>6, <2>2 DEF New
      <3> HIDE DEF there
      <3>2. ~Holds(b, i, f)
        BY <1>4, <2>2
      <3>3. QED
        BY <2>2, <3>1, <3>2 DEF put
    <2>3. QED
      BY <2>1, <2>2
  <1> HIDE DEF need, delta, a, c, d, r, there, i, at, s
  <1>9. CASE b.len + delta > b.size
    <2>1. delta # 0
      BY <1>1, <1>3, <1>9
    <2>2. put(b, f, oc, v) = Fail(b, "FNOSPACE")
      BY <1>3, <1>8, <1>9, <2>1
    <2>3. ~(b.len + delta <= b.size)
      BY <1>1, <1>3, <1>9
    <2>4. QED
      BY <1>9, <2>2, <2>3 DEF delta, s
  <1>10. CASE b.len + delta <= b.size
    <2>1. ~(b.len + delta > b.size)
      BY <1>1, <1>3, <1>10
    <2>2. put(b, f, oc, v) = Done(e)
      BY <1>3, <1>8, <2>1
    <2>3. e \in Good /\ e.flds = t /\ e.size = b.size /\ e.len = b.len + delta
      <3>1. /\ Splice(b.flds, t, a, c, d) /\ Homogeneous(b.flds, t, a, c, d, r)
            /\ delta = Bytes(t) - Bytes(b.flds)
        BY <1>2 DEF s, delta
      <3>2. b.len + delta <= b.size /\ Sorted(t) /\ t \in Seq(Fld) /\ r \in Type /\ delta \in Int
        BY <1>2, <1>3, <1>7, <1>10
      <3>3. Becomes(e, b, t)
        BY <3>1, <3>2, SpliceSound
      <3>4. QED
        BY <3>1, <3>3 DEF Becomes
    <2> HIDE DEF e
    <2>4. Done(e).b = e /\ Done(e).rc = "ok"
      BY DEF Done
    <2>5. QED
      BY <2>1, <2>2, <2>3, <2>4 DEF delta, s, Becomes
  <1>11. QED
    BY <1>1, <1>3, <1>9, <1>10

-----------------------------------------------------------------------------
(* The occurrences of a field *)

\* read holds the occurrences of f among the first fields.
Reading(s, f, read) ==
  /\ read \in [0..Len(s) -> Seq(Nat)]
  /\ read[0] = <<>>
  /\ \A i \in 1..Len(s) :
       read[i] = IF s[i].id = f THEN Append(read[i - 1], s[i].val) ELSE read[i - 1]

LEMMA OccsRead ==
  ASSUME NEW b, b.flds \in Seq(Fld), NEW f
  PROVE  \E read : Reading(b.flds, f, read) /\ Occs(b, f) = read[Len(b.flds)]
  <1> DEFINE s == b.flds
             c == Len(s)
             Is(g) == g = [i \in 0..Len(b.flds) |->
                        IF i = 0 THEN <<>>
                        ELSE IF b.flds[i].id = f THEN Append(g[i - 1], b.flds[i].val)
                        ELSE g[i - 1]]
             S == Seq(Nat)
             G == [n \in 0..c |-> [y \in S |->
                     IF n = 0 THEN y
                     ELSE IF s[n].id = f THEN Append(y, s[n].val) ELSE y]]
             x == <<>>
  <1>1. c \in Nat /\ 0 \in Int /\ c \in Int /\ 0 <= c /\ x \in S
    OBVIOUS
  <1>2. \A n \in 1..c : s[n].val \in Nat
    BY FldOf
  <1>3. G \in [0..c -> [S -> S]]
    <2> HIDE DEF c
    <2>1. ASSUME NEW n \in 0..c, NEW y \in S
          PROVE  (IF n = 0 THEN y
                  ELSE IF s[n].id = f THEN Append(y, s[n].val) ELSE y) \in S
      <3>1. n # 0 => n \in 1..c
        BY <1>1
      <3>2. QED
        BY <1>2, <3>1
    <2>2. QED
      BY <2>1
  <1>4. PICK g \in [0..c -> S] : Solves(g, 0, c, x, G)
    <2> HIDE DEF G, c, S, x
    <2> QED
      BY <1>1, <1>3, Solvable
  <1>5. ASSUME NEW n \in 0..c
        PROVE  g[n] = IF n = 0 THEN <<>>
                      ELSE IF s[n].id = f THEN Append(g[n - 1], s[n].val) ELSE g[n - 1]
    <2>1. g[n] = IF n = 0 THEN x ELSE G[n][g[n - 1]]
      BY <1>4 DEF Solves
    <2>2. n # 0 => g[n - 1] \in S
      <3>1. n # 0 => n - 1 \in 0..c
        BY <1>1
      <3> HIDE DEF c, S
      <3>2. QED
        BY <3>1
    <2> HIDE DEF c
    <2>3. QED
      BY <2>1, <2>2
  <1>6. Is(g)
    BY <1>5
  <1>7. Occs(b, f) = (CHOOSE h : Is(h))[c]
    BY DEF Occs
  <1> DEFINE h == CHOOSE k : Is(k)
  <1>8. Is(h)
    <2> HIDE DEF Is
    <2> QED
      BY <1>6
  <1> HIDE DEF h
  <1>9. /\ DOMAIN h = 0..c /\ h = [i \in 0..c |-> h[i]]
        /\ \A n \in 0..c : h[n] = IF n = 0 THEN <<>>
                      ELSE IF s[n].id = f THEN Append(h[n - 1], s[n].val) ELSE h[n - 1]
    BY <1>8
  <1>10. h[0] = <<>>
    <2>1. 0 \in 0..c
      BY <1>1
    <2> HIDE DEF c
    <2>2. QED
      BY <1>9, <2>1
  <1> DEFINE T == {n \in Int : h[n] \in S}
  <1>11. 0..c \subseteq T
    <2>1. 0 \in T
      BY <1>10
    <2>2. ASSUME NEW n \in (0 + 1)..c, n - 1 \in T PROVE n \in T
      <3>1. n \in 1..c /\ n \in 0..c /\ n # 0 /\ n \in Int
        BY <1>1
      <3>2. h[n] = IF s[n].id = f THEN Append(h[n - 1], s[n].val) ELSE h[n - 1]
        <4> HIDE DEF c
        <4> QED
          BY <1>9, <3>1
      <3>3. h[n - 1] \in S /\ s[n].val \in Nat
        BY <1>2, <2>2, <3>1
      <3> HIDE DEF c
      <3>4. h[n] \in S
        BY <3>2, <3>3
      <3>5. QED
        BY <3>1, <3>4
    <2> HIDE DEF T, c
    <2>3. QED
      BY <1>1, <2>1, <2>2, Reaches
  <1>12. Reading(s, f, h)
    <2>1. \A i \in 0..c : h[i] \in Seq(Nat)
      BY <1>11
    <2>2. h \in [0..c -> Seq(Nat)]
      <3> HIDE DEF c
      <3> QED
        BY <1>9, <2>1
    <2>3. h[0] = <<>>
      BY <1>10
    <2>4. ASSUME NEW i \in 1..c
          PROVE  h[i] = IF s[i].id = f THEN Append(h[i - 1], s[i].val) ELSE h[i - 1]
      <3>1. i \in 0..c /\ i # 0
        BY <1>1
      <3> HIDE DEF c
      <3>2. QED
        BY <1>9, <3>1
    <2>5. QED
      BY <2>2, <2>3, <2>4 DEF Reading
  <1>13. QED
    BY <1>7, <1>12 DEF h

\* The values of the fields from p to q - 1.
Vals(s, p, q) == [k \in 1..(q - p) |-> s[p + k - 1].val]

LEMMA ValsType ==
  ASSUME NEW s \in Seq(Fld), NEW p \in 1..Len(s) + 1, NEW q \in p..Len(s) + 1
  PROVE  /\ Vals(s, p, q) \in Seq(Nat) /\ Len(Vals(s, p, q)) = q - p
         /\ \A k \in 1..(q - p) : Vals(s, p, q)[k] = s[p + k - 1].val
  <1>1. \A k \in 1..(q - p) : p + k - 1 \in 1..Len(s)
    OBVIOUS
  <1>2. \A k \in 1..(q - p) : s[p + k - 1].val \in Nat
    BY <1>1, FldOf
  <1>3. q - p \in Nat
    OBVIOUS
  <1>4. QED
    BY <1>2, <1>3 DEF Vals

\* Reading a buffer that is in order finds the values of the stretch.
LEMMA OccsAre ==
  ASSUME NEW b, b.flds \in Seq(Fld), NEW f \in Fields, NEW p, NEW q, Span(b.flds, f, p, q)
  PROVE  Occs(b, f) = Vals(b.flds, p, q) /\ Occs(b, f) \in Seq(Nat)
  <1> DEFINE s == b.flds
             c == Len(s)
             Upto(i) == IF i < p THEN p ELSE IF i < q THEN i + 1 ELSE q
             S == {i \in Int : TRUE}
  <1>0. f \in Nat
    BY Fml32Assumption
  <1> USE <1>0
  <1>1. PICK read : Reading(s, f, read) /\ Occs(b, f) = read[c]
    BY OccsRead
  <1>2. c \in Nat /\ c \in Int /\ 0 \in Int
    OBVIOUS
  <1>3. /\ p \in 1..c + 1 /\ q \in p..c + 1 /\ p \in Int /\ q \in Int
        /\ \A i \in 1..c : s[i].id = f <=> i \in p..(q - 1)
    BY SpanIs
  <1> DEFINE T == {i \in 0..c : read[i] = Vals(s, p, Upto(i))}
  <1>4. 0 \in T
    <2>1. Upto(0) = p
      BY <1>3
    <2>2. Vals(s, p, p) = <<>>
      BY <1>3 DEF Vals
    <2>3. QED
      BY <1>1, <1>2, <2>1, <2>2 DEF Reading
  <1>5. ASSUME NEW i \in (0 + 1)..c, i - 1 \in T PROVE i \in T
    <2>1. i \in 1..c /\ i \in 0..c /\ i \in Int
      BY <1>2
    <2>2. read[i] = IF s[i].id = f THEN Append(read[i - 1], s[i].val) ELSE read[i - 1]
      <3> HIDE DEF c
      <3> QED
        BY <1>1, <2>1 DEF Reading, c
    <2>3. read[i - 1] = Vals(s, p, Upto(i - 1))
      BY <1>5
    <2>4. CASE i \in p..(q - 1)
      <3>1. Upto(i) = i + 1 /\ Upto(i - 1) = i
        BY <1>3, <2>1, <2>4
      <3>2. read[i] = Append(Vals(s, p, i), s[i].val)
        BY <1>3, <2>1, <2>2, <2>3, <2>4, <3>1
      <3>3. /\ Vals(s, p, i) \in Seq(Nat) /\ Len(Vals(s, p, i)) = i - p
            /\ \A k \in 1..(i - p) : Vals(s, p, i)[k] = s[p + k - 1].val
        <4>1. i \in p..Len(s) + 1 /\ p \in 1..Len(s) + 1
          BY <1>3, <2>1, <2>4
        <4>2. QED
          BY <4>1, ValsType
      <3>4. /\ Vals(s, p, i + 1) \in Seq(Nat) /\ Len(Vals(s, p, i + 1)) = i + 1 - p
            /\ \A k \in 1..(i + 1 - p) : Vals(s, p, i + 1)[k] = s[p + k - 1].val
        <4>1. i + 1 \in p..Len(s) + 1 /\ p \in 1..Len(s) + 1
          BY <1>3, <2>1, <2>4
        <4>2. \A j \in p..Len(s) + 1 :
                /\ Vals(s, p, j) \in Seq(Nat) /\ Len(Vals(s, p, j)) = j - p
                /\ \A k \in 1..(j - p) : Vals(s, p, j)[k] = s[p + k - 1].val
          BY <4>1, ValsType
        <4> HIDE DEF c, Upto, T
        <4>3. QED
          BY <4>1, <4>2
      <3> DEFINE u == Vals(s, p, i)
                 w == Vals(s, p, i + 1)
      <3>5. s[i].val \in Nat
        BY <2>1, FldOf
      <3> HIDE DEF u, w, c
      <3>6. Append(u, s[i].val) = w
        <4>1. Append(u, s[i].val) \in Seq(Nat) /\ Len(Append(u, s[i].val)) = i - p + 1
          BY <3>3, <3>5 DEF u
        <4>2. ASSUME NEW k \in 1..(i - p + 1) PROVE Append(u, s[i].val)[k] = w[k]
          <5>1. w[k] = s[p + k - 1].val
            BY <1>3, <2>1, <3>4 DEF w
          <5>2. CASE k = i - p + 1
            <6>1. p + k - 1 = i
              BY <1>3, <2>1, <5>2
            <6>2. Append(u, s[i].val)[k] = s[i].val
              BY <3>3, <3>5, <5>2 DEF u
            <6>3. QED
              BY <5>1, <6>1, <6>2
          <5>3. CASE k # i - p + 1
            <6>1. k \in 1..(i - p)
              BY <1>3, <2>1, <5>3
            <6>2. Append(u, s[i].val)[k] = u[k]
              BY <3>3, <3>5, <6>1 DEF u
            <6>3. QED
              BY <3>3, <5>1, <6>1, <6>2 DEF u
          <5>4. QED
            BY <5>2, <5>3
        <4>3. Len(w) = i - p + 1 /\ w \in Seq(Nat)
          BY <1>3, <2>1, <3>4 DEF w
        <4>4. QED
          BY <4>1, <4>2, <4>3
      <3>7. read[i] = Vals(s, p, Upto(i))
        BY <3>1, <3>2, <3>6 DEF u, w
      <3> HIDE DEF Upto
      <3>8. QED
        BY <2>1, <3>7
    <2>5. CASE i \notin p..(q - 1)
      <3>1. Upto(i) = Upto(i - 1)
        BY <1>3, <2>1, <2>5
      <3>2. read[i] = read[i - 1]
        BY <1>3, <2>1, <2>2, <2>5
      <3> HIDE DEF Upto, c
      <3>3. QED
        BY <2>1, <2>3, <3>1, <3>2
    <2>6. QED
      BY <2>4, <2>5
  <1>6. c \in T
    <2>1. 0 <= c => 0 \in T
      BY <1>4
    <2> HIDE DEF T, c
    <2>2. 0..c \subseteq T
      BY <1>2, <1>5, <2>1, Reaches
    <2>3. c \in 0..c
      BY <1>2
    <2>4. QED
      BY <2>2, <2>3
  <1>7. Upto(c) = q
    <2>1. p \in Int /\ q \in Int /\ p <= q /\ q <= c + 1
      BY <1>2, <1>3
    <2> HIDE DEF c
    <2>2. QED
      BY <1>2, <2>1
  <1>8. Occs(b, f) = Vals(s, p, q)
    <2> HIDE DEF Upto, c
    <2> QED
      BY <1>1, <1>6, <1>7
  <1>9. QED
    BY <1>3, <1>8, ValsType

LEMMA OccsVals ==
  ASSUME NEW b, b.flds \in Seq(Fld), NEW f \in Fields
  PROVE  \A p, q : Span(b.flds, f, p, q) => Occs(b, f) = Vals(b.flds, p, q)
  BY Zenon, OccsAre

LEMMA SpanOf ==
  ASSUME NEW b \in Good, NEW f \in Fields
  PROVE  \E p, q : Span(b.flds, f, p, q)
  <1>1. b.flds \in Seq(Fld) /\ Sorted(b.flds) /\ f \in Nat
    BY GoodIs, Fml32Assumption
  <1>2. QED
    BY <1>1, SpanExists

\* What the stretch of a field is, as one fact.
Stretch(b, f, p, q) ==
  /\ p \in 1..Len(b.flds) + 1 /\ q \in p..Len(b.flds) + 1
  /\ p \in Int /\ q \in Int /\ Len(b.flds) \in Nat
  /\ \A i \in 1..Len(b.flds) : b.flds[i].id = f <=> i \in p..(q - 1)
  /\ Occs(b, f) \in Seq(Nat) /\ Len(Occs(b, f)) = q - p
  /\ \A k \in 1..(q - p) : Occs(b, f)[k] = b.flds[p + k - 1].val

LEMMA StretchIs ==
  ASSUME NEW b \in Good, NEW f \in Fields, NEW p, NEW q, Span(b.flds, f, p, q)
  PROVE  Stretch(b, f, p, q)
  <1>1. b.flds \in Seq(Fld) /\ Sorted(b.flds) /\ f \in Nat /\ Len(b.flds) \in Nat
    BY GoodIs, Fml32Assumption
  <1>2. /\ p \in 1..Len(b.flds) + 1 /\ q \in p..Len(b.flds) + 1
        /\ p \in Int /\ q \in Int
        /\ \A i \in 1..Len(b.flds) : b.flds[i].id = f <=> i \in p..(q - 1)
    BY <1>1, SpanIs
  <1>3. Occs(b, f) = Vals(b.flds, p, q)
    BY <1>1, OccsVals
  <1>4. /\ Vals(b.flds, p, q) \in Seq(Nat) /\ Len(Vals(b.flds, p, q)) = q - p
        /\ \A k \in 1..(q - p) : Vals(b.flds, p, q)[k] = b.flds[p + k - 1].val
    BY <1>1, <1>2, ValsType
  <1>5. QED
    BY <1>1, <1>2, <1>3, <1>4 DEF Stretch

LEMMA OccsType ==
  ASSUME NEW b \in Good, NEW f \in Fields
  PROVE  Occs(b, f) \in Seq(Nat) /\ occur(b, f) = Len(Occs(b, f)) /\ Len(Occs(b, f)) \in Nat
  <1>1. PICK p, q : Span(b.flds, f, p, q)
    BY SpanOf
  <1>2. occur(b, f) = q - p /\ occur(b, f) \in Nat
    BY <1>1, RunIs
  <1>3. Occs(b, f) \in Seq(Nat) /\ Len(Occs(b, f)) = q - p
    BY <1>1, StretchIs DEF Stretch
  <1>4. QED
    BY <1>2, <1>3

LEMMA FindIs ==
  ASSUME NEW b \in Good, NEW f \in Fields, NEW oc \in Int
  PROVE  /\ pres(b, f, oc) <=> oc \in 0..(Len(Occs(b, f)) - 1)
         /\ find(b, f, oc) = IF oc \in 0..(Len(Occs(b, f)) - 1)
                               THEN <<Occs(b, f)[oc + 1]>> ELSE <<>>
  <1>1. PICK p, q : Span(b.flds, f, p, q)
    BY SpanOf
  <1>2. /\ Len(Occs(b, f)) = q - p /\ p \in Int /\ q \in Int
        /\ \A k \in 1..(q - p) : Occs(b, f)[k] = b.flds[p + k - 1].val
    BY <1>1, StretchIs DEF Stretch
  <1>3. Holds(b, where(b, f, oc), f) <=> oc \in 0..(q - p - 1)
    BY <1>1, HoldsIs
  <1>4. where(b, f, oc) = Found(b.flds, f, oc, p, q)
    BY <1>1, WhereIs
  <1>5. CASE oc \in 0..(q - p - 1)
    <2>1. where(b, f, oc) = p + oc
      BY <1>4, <1>5 DEF Found
    <2>2. oc + 1 \in 1..(q - p) /\ p + (oc + 1) - 1 = p + oc
      BY <1>2, <1>5
    <2>3. Occs(b, f)[oc + 1] = b.flds[p + oc].val
      BY <1>2, <2>2
    <2>4. find(b, f, oc) = <<b.flds[p + oc].val>>
      BY <1>3, <1>5, <2>1 DEF find
    <2>5. QED
      BY <1>2, <1>3, <1>5, <2>3, <2>4 DEF pres
  <1>6. CASE oc \notin 0..(q - p - 1)
    BY <1>2, <1>3, <1>6 DEF find, pres
  <1>7. QED
    BY <1>5, <1>6

LEMMA FindlastIs ==
  ASSUME NEW b \in Good, NEW f \in Fields
  PROVE  findlast(b, f) = IF Occs(b, f) = <<>> THEN <<>>
                          ELSE <<Occs(b, f)[Len(Occs(b, f))]>>
  <1> DEFINE s == Occs(b, f)
             n == Len(s)
  <1>1. s \in Seq(Nat) /\ occur(b, f) = n /\ n \in Nat
    BY OccsType
  <1>2. n - 1 \in Int /\ (n - 1) + 1 = n
    BY <1>1
  <1>3. find(b, f, n - 1) = IF n - 1 \in 0..(n - 1) THEN <<s[(n - 1) + 1]>> ELSE <<>>
    <2> DEFINE oc == n - 1
    <2>1. oc \in Int
      BY <1>2
    <2> HIDE DEF oc
    <2>2. find(b, f, oc) = IF oc \in 0..(n - 1) THEN <<s[oc + 1]>> ELSE <<>>
      BY <2>1, FindIs
    <2>3. QED
      BY <2>2 DEF oc
  <1>4. n = 0 <=> s = <<>>
    BY <1>1
  <1> HIDE DEF s
  <1>5. n - 1 \in 0..(n - 1) <=> n # 0
    BY <1>1
  <1>6. findlast(b, f) = find(b, f, n - 1)
    BY <1>1 DEF findlast
  <1>7. findlast(b, f) = IF s = <<>> THEN <<>> ELSE <<s[n]>>
    BY <1>2, <1>3, <1>4, <1>5, <1>6
  <1>8. QED
    BY <1>7 DEF s

LEMMA FindoccIs ==
  ASSUME NEW b \in Good, NEW f \in Fields, NEW v \in Nat
  PROVE  findocc(b, f, v) = SelectInSeq(Occs(b, f), LAMBDA x : x = v) - 1
  <1> DEFINE s == Occs(b, f)
             i == where(b, f, 0)
             hit == {j \in Run(b, i, f) : b.flds[j].val = v}
             I == {k \in 1..Len(s) : s[k] = v}
  <1>1. SelectInSeq(s, LAMBDA x : x = v) = IF I # {} THEN Min(I) ELSE 0
    BY DEF SelectInSeq
  <1>2. findocc(b, f, v) = IF hit = {} THEN -1 ELSE Min(hit) - i
    BY DEF findocc
  <1>3. PICK p, q : Span(b.flds, f, p, q)
    BY SpanOf
  <1>4. /\ Len(s) = q - p /\ p \in Int /\ q \in Int
        /\ \A k \in 1..(q - p) : s[k] = b.flds[p + k - 1].val
    BY <1>3, StretchIs DEF Stretch
  <1>5. Run(b, i, f) = p..(q - 1) /\ (p < q => i = p)
    BY <1>3, RunIs
  <1>6. hit = {j \in p..(q - 1) : b.flds[j].val = v}
    BY <1>5
  <1>7. \A j \in p..(q - 1) : j - p + 1 \in 1..(q - p) /\ p + (j - p + 1) - 1 = j
    BY <1>4
  <1>8. \A k \in 1..(q - p) : p + k - 1 \in p..(q - 1)
    BY <1>4
  <1>9. \A j \in hit : j - p + 1 \in I
    <2> TAKE j \in hit
    <2>1. j \in p..(q - 1) /\ b.flds[j].val = v
      BY <1>6
    <2>2. s[j - p + 1] = v
      BY <1>4, <1>7, <2>1
    <2>3. QED
      BY <1>4, <1>7, <2>1, <2>2
  <1>10. \A k \in I : p + k - 1 \in hit
    BY <1>4, <1>6, <1>8
  <1>11. hit \subseteq Int /\ I \subseteq Int
    BY <1>6
  <1> HIDE DEF hit, I, i, s
  <1>12. CASE hit = {}
    <2>1. I = {}
      BY <1>10, <1>12
    <2>2. QED
      BY <1>1, <1>2, <1>12, <2>1 DEF s
  <1>13. CASE hit # {}
    <2>1. \A j \in hit : p <= j
      BY <1>6
    <2>2. PICK m \in hit : \A j \in hit : m <= j
      BY <1>4, <1>11, <1>13, <2>1, SmallestExists
    <2>3. m - p + 1 \in I
      BY <1>9, <2>2
    <2>4. \A k \in I : m - p + 1 <= k
      <3> TAKE k \in I
      <3>1. p + k - 1 \in hit /\ k \in Int /\ m \in Int
        BY <1>10, <1>11
      <3>2. m <= p + k - 1
        BY <2>2, <3>1
      <3>3. QED
        BY <1>4, <3>1, <3>2
    <2> DEFINE n == m - p + 1
    <2>5. n \in I /\ \A k \in I : n <= k
      BY <2>3, <2>4
    <2> HIDE DEF n
    <2>6. Min(I) = n /\ Min(hit) = m
      BY <1>11, <2>2, <2>5, MinIs
    <2>7. i = p
      <3>1. m \in p..(q - 1)
        BY <1>6
      <3>2. QED
        BY <1>4, <1>5, <3>1
    <2>8. findocc(b, f, v) = m - p
      BY <1>2, <1>13, <2>6, <2>7
    <2>9. SelectInSeq(s, LAMBDA x : x = v) = n
      BY <1>1, <2>5, <2>6
    <2>10. n - 1 = m - p
      BY <1>4, <1>11 DEF n
    <2>11. QED
      BY <2>8, <2>9, <2>10 DEF s
  <1>14. QED
    BY <1>12, <1>13

LEMMA PlaceIs ==
  ASSUME NEW b \in Good, NEW i \in 1..Len(b.flds), NEW f, f = b.flds[i].id,
         NEW p, NEW q, Span(b.flds, f, p, q)
  PROVE  /\ f \in Fields /\ f # 0 /\ p \in Int /\ q \in Int /\ i \in p..(q - 1)
         /\ Place(b, i) = <<f, i - p>>
  <1> DEFINE same == {j \in 1..(i - 1) : b.flds[j].id = b.flds[i].id}
  <1>1. b.flds \in Seq(Fld) /\ Len(b.flds) \in Nat
    BY GoodIs
  <1>2. f \in Fields /\ f # 0
    BY <1>1, FldOf, Fml32Assumption
  <1>3. /\ p \in 1..Len(b.flds) + 1 /\ q \in p..Len(b.flds) + 1 /\ p \in Int /\ q \in Int
        /\ \A j \in 1..Len(b.flds) : b.flds[j].id = f <=> j \in p..(q - 1)
    BY <1>1, <1>2, SpanIs
  <1>4. i \in p..(q - 1)
    BY <1>3
  <1>5. \A j \in 1..(i - 1) : j \in 1..Len(b.flds) /\ (j \in p..(q - 1) <=> j \in p..(i - 1))
    BY <1>1, <1>3, <1>4
  <1>6. same = p..(i - 1)
    BY <1>3, <1>5
  <1>7. Cardinality(same) = i - p
    <2>1. i \in Int /\ p <= i
      BY <1>3, <1>4
    <2>2. QED
      BY <1>3, <1>6, <2>1, CountRange
  <1>8. Place(b, i) = <<b.flds[i].id, Cardinality(same)>>
    BY <1>1 DEF Place
  <1>9. QED
    BY <1>2, <1>3, <1>4, <1>7, <1>8

LEMMA NextIs ==
  ASSUME NEW b \in Good, NEW i \in 0..Len(b.flds)
  PROVE  next(b, Place(b, i)) = Place(b, i + 1)
  <1> DEFINE s == b.flds
             n == Len(s)
             Go(f, oc, k) == IF (f # 0 /\ k = 0) \/ k + 1 > n THEN <<>>
                             ELSE IF s[k + 1].id = f THEN <<s[k + 1].id, oc + 1>>
                             ELSE <<s[k + 1].id, 0>>
  <1>1. s \in Seq(Fld) /\ n \in Nat /\ i \in Int
    BY GoodIs
  <1>2. ASSUME NEW f, NEW oc, NEW k, k = IF f = 0 THEN 0 ELSE where(b, f, oc)
        PROVE  next(b, <<f, oc>>) = Go(f, oc, k)
    BY <1>2 DEF next
  <1>3. i + 1 > n => Place(b, i + 1) = <<>>
    BY <1>1 DEF Place
  <1>4. ASSUME i + 1 <= n
        PROVE  \E p, q : /\ Span(s, s[i + 1].id, p, q) /\ s[i + 1].id # 0
                         /\ p \in Int /\ q \in Int /\ i + 1 \in p..(q - 1)
                         /\ Place(b, i + 1) = <<s[i + 1].id, i + 1 - p>>
    <2> DEFINE k == i + 1
    <2>1. k \in 1..n
      BY <1>1, <1>4
    <2>2. s[k].id \in Fields
      BY <1>1, <2>1, FldOf
    <2>3. PICK p, q : Span(s, s[k].id, p, q)
      BY <2>2, SpanOf
    <2> HIDE DEF k
    <2>4. /\ s[k].id # 0 /\ p \in Int /\ q \in Int /\ k \in p..(q - 1)
          /\ Place(b, k) = <<s[k].id, k - p>>
      BY <2>1, <2>3, PlaceIs
    <2>5. QED
      BY <2>3, <2>4 DEF k
  <1> HIDE DEF Go
  <1>5. CASE i = 0
    <2>1. Place(b, i) = <<0, 0>>
      BY <1>5 DEF Place
    <2>2. next(b, Place(b, i)) = Go(0, 0, 0)
      BY <1>2, <2>1
    <2>3. CASE i + 1 > n
      BY <1>3, <1>5, <2>2, <2>3 DEF Go
    <2>4. CASE i + 1 <= n
      <3>1. PICK p, q : /\ Span(s, s[i + 1].id, p, q) /\ s[i + 1].id # 0
                        /\ p \in Int /\ q \in Int /\ i + 1 \in p..(q - 1)
                        /\ Place(b, i + 1) = <<s[i + 1].id, i + 1 - p>>
        BY <1>4, <2>4
      <3>2. p \in 1..n + 1
        BY <3>1 DEF Span
      <3>3. i + 1 - p = 0
        BY <1>5, <3>1, <3>2
      <3>4. Go(0, 0, 0) = <<s[i + 1].id, 0>>
        BY <1>1, <1>5, <2>4, <3>1 DEF Go
      <3>5. QED
        BY <2>2, <3>1, <3>3, <3>4
    <2>5. QED
      BY <1>1, <2>3, <2>4
  <1>6. CASE i # 0
    <2> DEFINE f == s[i].id
    <2>1. i \in 1..n
      BY <1>1, <1>6
    <2>2. f \in Fields /\ f \in Nat
      BY <1>1, <2>1, FldOf
    <2>3. PICK p, q : Span(s, f, p, q)
      BY <2>2, SpanOf
    <2>4. /\ f # 0 /\ p \in Int /\ q \in Int /\ i \in p..(q - 1)
          /\ Place(b, i) = <<f, i - p>>
      BY <2>1, <2>3, PlaceIs
    <2> DEFINE oc == i - p
    <2>5. oc \in Int /\ oc \in 0..(q - p - 1) /\ p + oc = i
      BY <1>1, <2>4
    <2> HIDE DEF f
    <2>6. where(b, f, oc) = i
      <3> HIDE DEF oc
      <3>1. where(b, f, oc) = Found(s, f, oc, p, q)
        BY <2>2, <2>3, <2>5, WhereIs
      <3>2. QED
        BY <2>5, <3>1 DEF Found
    <2>7. next(b, Place(b, i)) = Go(f, oc, i)
      BY <1>2, <2>4, <2>6
    <2> HIDE DEF oc
    <2>8. CASE i + 1 > n
      BY <1>3, <2>7, <2>8 DEF Go
    <2>9. CASE i + 1 <= n
      <3>1. PICK p2, q2 : /\ Span(s, s[i + 1].id, p2, q2) /\ s[i + 1].id # 0
                          /\ p2 \in Int /\ q2 \in Int /\ i + 1 \in p2..(q2 - 1)
                          /\ Place(b, i + 1) = <<s[i + 1].id, i + 1 - p2>>
        BY <1>4, <2>9
      <3>2. s[i + 1].id \in Fields /\ i + 1 \in 1..n /\ ~(i + 1 > n)
        <4>1. i + 1 \in 1..n
          BY <1>1, <2>1, <2>9
        <4>2. QED
          BY <1>1, <2>9, <4>1, FldOf
      <3>3. \A j \in 1..n : /\ s[j].id = f <=> j \in p..(q - 1)
                            /\ s[j].id = s[i + 1].id <=> j \in p2..(q2 - 1)
        <4>1. f \in Nat /\ s[i + 1].id \in Nat
          BY <2>2, <3>2, Fml32Assumption
        <4>2. \A j \in 1..n : s[j].id = f <=> j \in p..(q - 1)
          BY <1>1, <2>2, <2>3, SpanIs
        <4>3. \A g \in Fields : \A k, m :
                Span(s, g, k, m) => \A j \in 1..n : s[j].id = g <=> j \in k..(m - 1)
          BY <1>1, SpanIs
        <4>4. \A j \in 1..n : s[j].id = s[i + 1].id <=> j \in p2..(q2 - 1)
          BY <3>1, <3>2, <4>3
        <4>5. QED
          BY <4>2, <4>4
      <3>4. CASE s[i + 1].id = f
        <4>1. p2 = p
          <5>1. p \in 1..n + 1 /\ p2 \in 1..n + 1
            BY <2>3, <3>1 DEF Span
          <5>2. p \in 1..n /\ p2 \in 1..n /\ p \in p..(q - 1) /\ p2 \in p2..(q2 - 1)
            BY <2>1, <2>4, <3>1, <3>2, <5>1
          <5>3. p2 \in p..(q - 1) /\ p \in p2..(q2 - 1)
            BY <3>3, <3>4, <5>2
          <5>4. QED
            BY <2>4, <3>1, <5>3
        <4>2. Go(f, oc, i) = <<s[i + 1].id, oc + 1>>
          BY <1>6, <2>4, <3>2, <3>4 DEF Go
        <4>3. oc + 1 = i + 1 - p2
          BY <1>1, <2>4, <4>1 DEF oc
        <4>4. QED
          BY <2>7, <3>1, <4>2, <4>3
      <3>5. CASE s[i + 1].id # f
        <4>1. i \notin p2..(q2 - 1)
          BY <2>1, <2>4, <3>3, <3>5
        <4>2. i + 1 - p2 = 0
          BY <1>1, <3>1, <4>1
        <4>3. Go(f, oc, i) = <<s[i + 1].id, 0>>
          BY <1>6, <2>4, <3>2, <3>5 DEF Go
        <4>4. QED
          BY <2>7, <3>1, <4>2, <4>3
      <3>6. QED
        BY <3>4, <3>5
    <2>10. QED
      BY <1>1, <2>8, <2>9
  <1>7. QED
    BY <1>5, <1>6

\* What LookupAgrees says of one buffer.
Lookups(B) ==
  /\ \A f \in Fields :
       LET s == Occs(B, f)
       IN /\ occur(B, f) = Len(s)
          /\ findlast(B, f) = (IF s = <<>> THEN <<>> ELSE <<s[Len(s)]>>)
          /\ \A v \in Values : findocc(B, f, v) = SelectInSeq(s, LAMBDA x : x = v) - 1
          /\ \A oc \in 0..MaxOcc :
               find(B, f, oc) = (IF oc < Len(s) THEN <<s[oc + 1]>> ELSE <<>>)
  /\ \A i \in 0..Len(B.flds) : next(B, Place(B, i)) = Place(B, i + 1)

LEMMA LookupsRight ==
  ASSUME NEW b \in Good
  PROVE  Lookups(b)
  <1>1. ASSUME NEW f \in Fields, NEW oc \in 0..MaxOcc
        PROVE  find(b, f, oc) = (IF oc < Len(Occs(b, f)) THEN <<Occs(b, f)[oc + 1]>> ELSE <<>>)
    <2>1. oc \in Int /\ oc >= 0 /\ Len(Occs(b, f)) \in Nat
      BY OccsType, Fml32Assumption
    <2>2. find(b, f, oc) = IF oc \in 0..(Len(Occs(b, f)) - 1)
                             THEN <<Occs(b, f)[oc + 1]>> ELSE <<>>
      BY <2>1, FindIs
    <2>3. oc \in 0..(Len(Occs(b, f)) - 1) <=> oc < Len(Occs(b, f))
      BY <2>1
    <2>4. QED
      BY <2>2, <2>3
  <1>2. ASSUME NEW f \in Fields
        PROVE  /\ occur(b, f) = Len(Occs(b, f))
               /\ findlast(b, f) = (IF Occs(b, f) = <<>> THEN <<>>
                                    ELSE <<Occs(b, f)[Len(Occs(b, f))]>>)
    BY OccsType, FindlastIs
  <1>3. ASSUME NEW f \in Fields, NEW v \in Values
        PROVE  findocc(b, f, v) = SelectInSeq(Occs(b, f), LAMBDA x : x = v) - 1
    <2>1. v \in Nat
      BY Fml32Assumption
    <2>2. QED
      BY <2>1, FindoccIs
  <1>4. \A i \in 0..Len(b.flds) : next(b, Place(b, i)) = Place(b, i + 1)
    BY NextIs
  <1>5. QED
    BY <1>1, <1>2, <1>3, <1>4 DEF Lookups

-----------------------------------------------------------------------------
(* What becomes of the occurrences                                         *)

\* Where the stretch of another field is after fields f were replaced.
LEMMA OtherSpan ==
  ASSUME NEW s \in Seq(Fld), NEW t \in Seq(Fld), NEW f \in Nat, NEW g \in Fields, g # f,
         NEW a, NEW c, NEW d, Alone(s, t, a, c, d, f),
         NEW p, NEW q, Span(s, g, p, q)
  PROVE  /\ g < f => q <= a /\ Span(t, g, p, q)
         /\ g > f => c <= p /\ Span(t, g, p + d, q + d)
  <1>0. f \in Nat /\ g \in Nat
    BY Fml32Assumption
  <1> USE <1>0
  <1>1. /\ a \in 1..Len(s) + 1 /\ c \in a..Len(s) + 1 /\ d \in Int /\ a <= c + d
        /\ Len(t) = Len(s) + d /\ Len(s) \in Nat /\ Len(t) \in Nat
    BY DEF Alone, Splice
  <1>2. /\ \A i \in 1..(a - 1) : t[i] = s[i]
        /\ \A i \in c..Len(s) : t[i + d] = s[i]
    <2>1. Alike(s, t, 1, a - 1, 0) /\ Alike(s, t, c, Len(s), d)
      BY DEF Alone, Splice
    <2>2. \A i \in 1..(a - 1) : t[i + 0] = s[i] /\ i + 0 = i
      BY <2>1 DEF Alike
    <2>3. QED
      BY <2>1, <2>2 DEF Alike
  <1>3. /\ \A i \in 1..(a - 1) : s[i].id <= f
        /\ \A i \in a..(c - 1) : s[i].id = f
        /\ \A i \in c..Len(s) : s[i].id >= f
        /\ \A i \in a..(c + d - 1) : t[i].id = f
    BY DEF Alone
  <1>4. \A i \in 1..Len(s) : s[i].id \in Nat
    BY FldOf
  <1>5. /\ p \in 1..Len(s) + 1 /\ q \in p..Len(s) + 1 /\ p \in Int /\ q \in Int
        /\ \A i \in 1..Len(s) : /\ i < p <=> s[i].id < g
                                /\ i < q <=> s[i].id <= g
    BY DEF Span
  <1>6. ASSUME NEW i \in 1..Len(t)
        PROVE  \/ i < a /\ i \in 1..Len(s) /\ t[i] = s[i] /\ s[i].id <= f
               \/ i >= a /\ i < c + d /\ t[i].id = f
               \/ \E j \in c..Len(s) : i = j + d /\ t[i] = s[j] /\ s[j].id >= f
    <2>1. CASE i < a
      <3>1. i \in 1..(a - 1) /\ i \in 1..Len(s)
        BY <1>1, <2>1
      <3>2. QED
        BY <1>2, <1>3, <2>1, <3>1
    <2>2. CASE i >= a /\ i < c + d
      <3>1. i \in a..(c + d - 1)
        BY <1>1, <2>2
      <3>2. QED
        BY <1>3, <2>2, <3>1
    <2>3. CASE i >= c + d
      <3> DEFINE j == i - d
      <3>1. j \in c..Len(s) /\ i = j + d
        BY <1>1, <2>3
      <3> HIDE DEF j
      <3>2. QED
        BY <1>2, <1>3, <3>1
    <2>4. QED
      BY <1>1, <2>1, <2>2, <2>3
  <1>7. ASSUME g < f PROVE q <= a /\ Span(t, g, p, q)
    <2>1. q <= a
      <3>1. SUFFICES ASSUME a < q PROVE FALSE
        BY <1>1, <1>5
      <3>2. a \in 1..Len(s)
        BY <1>1, <1>5, <3>1
      <3>3. s[a].id <= g
        BY <1>5, <3>1, <3>2
      <3>4. a \in a..(c - 1) \/ a \in c..Len(s)
        BY <1>1, <3>2
      <3>5. s[a].id >= f
        BY <1>3, <1>4, <3>2, <3>4
      <3>6. QED
        BY <1>4, <1>7, <3>2, <3>3, <3>5
    <2>2. p \in 1..Len(t) + 1 /\ q \in p..Len(t) + 1
      BY <1>1, <1>5, <2>1
    <2>3. ASSUME NEW i \in 1..Len(t)
          PROVE  (i < p <=> t[i].id < g) /\ (i < q <=> t[i].id <= g)
      <3>1. CASE i < a /\ i \in 1..Len(s) /\ t[i] = s[i]
        BY <1>5, <3>1
      <3>2. CASE i >= a /\ t[i].id = f
        <4>1. ~(i < p) /\ ~(i < q)
          BY <1>1, <1>5, <2>1, <3>2
        <4>2. QED
          BY <1>7, <3>2, <4>1
      <3>3. CASE \E j \in c..Len(s) : i = j + d /\ t[i] = s[j] /\ s[j].id >= f
        <4>1. PICK j \in c..Len(s) : i = j + d /\ t[i] = s[j] /\ s[j].id >= f
          BY <3>3
        <4>2. j \in 1..Len(s)
          BY <1>1
        <4>3. ~(i < p) /\ ~(i < q)
          BY <1>1, <1>5, <2>1, <4>1
        <4>4. QED
          BY <1>4, <1>7, <4>1, <4>2, <4>3
      <3>4. QED
        BY <1>6, <3>1, <3>2, <3>3
    <2>4. QED
      BY <2>1, <2>2, <2>3 DEF Span
  <1>8. ASSUME g > f PROVE c <= p /\ Span(t, g, p + d, q + d)
    <2>1. c <= p
      <3>1. SUFFICES ASSUME p < c PROVE FALSE
        BY <1>1, <1>5
      <3>2. p \in 1..Len(s) /\ ~(p < p)
        BY <1>1, <1>5, <3>1
      <3>3. s[p].id >= g
        BY <1>4, <1>5, <3>2
      <3>4. p \in 1..(a - 1) \/ p \in a..(c - 1)
        BY <1>1, <1>5, <3>1
      <3>5. s[p].id <= f
        BY <1>3, <1>4, <3>2, <3>4
      <3>6. QED
        BY <1>4, <1>8, <3>2, <3>3, <3>5
    <2>2. p + d \in 1..Len(t) + 1 /\ q + d \in (p + d)..Len(t) + 1
      BY <1>1, <1>5, <2>1
    <2>3. ASSUME NEW i \in 1..Len(t)
          PROVE  (i < p + d <=> t[i].id < g) /\ (i < q + d <=> t[i].id <= g)
      <3>1. CASE i < a /\ i \in 1..Len(s) /\ t[i] = s[i] /\ s[i].id <= f
        <4>1. i < p + d /\ i < q + d
          BY <1>1, <1>5, <2>1, <3>1
        <4>2. QED
          BY <1>4, <1>8, <3>1, <4>1
      <3>2. CASE i >= a /\ i < c + d /\ t[i].id = f
        <4>1. i < p + d /\ i < q + d
          BY <1>1, <1>5, <2>1, <3>2
        <4>2. QED
          BY <1>8, <3>2, <4>1
      <3>3. CASE \E j \in c..Len(s) : i = j + d /\ t[i] = s[j] /\ s[j].id >= f
        <4>1. PICK j \in c..Len(s) : i = j + d /\ t[i] = s[j] /\ s[j].id >= f
          BY <3>3
        <4>2. j \in 1..Len(s)
          BY <1>1
        <4>3. (j < p <=> s[j].id < g) /\ (j < q <=> s[j].id <= g)
          BY <1>5, <4>2
        <4>4. (i < p + d <=> j < p) /\ (i < q + d <=> j < q)
          BY <1>1, <1>5, <4>1, <4>2
        <4>5. QED
          BY <4>1, <4>3, <4>4
      <3>4. QED
        BY <1>6, <3>1, <3>2, <3>3
    <2>4. QED
      BY <2>1, <2>2, <2>3 DEF Span
  <1>9. QED
    BY <1>7, <1>8

\* The other fields keep their occurrences.
LEMMA OthersKept ==
  ASSUME NEW b, NEW e, b.flds \in Seq(Fld), e.flds \in Seq(Fld), Sorted(b.flds),
         NEW f \in Nat, NEW g \in Fields, g # f,
         NEW a, NEW c, NEW d, Alone(b.flds, e.flds, a, c, d, f)
  PROVE  Occs(e, g) = Occs(b, g)
  <1> DEFINE s == b.flds
             t == e.flds
  <1>0. f \in Nat /\ g \in Nat
    BY Fml32Assumption
  <1>1. PICK p, q : Span(s, g, p, q)
    BY SpanExists
  <1>2. /\ p \in 1..Len(s) + 1 /\ q \in p..Len(s) + 1 /\ p \in Int /\ q \in Int
        /\ Len(s) \in Nat
    BY <1>1 DEF Span
  <1>3. /\ a \in Int /\ c \in Int /\ d \in Int
        /\ \A i \in 1..(a - 1) : t[i + 0] = s[i]
        /\ \A i \in c..Len(s) : t[i + d] = s[i]
    BY DEF Alone, Splice, Alike
  <1>4. Occs(b, g) = Vals(s, p, q)
    BY <1>1, OccsVals
  <1>8. ASSUME NEW k, NEW m, Span(t, g, k, m) PROVE Occs(e, g) = Vals(t, k, m)
    BY <1>8, OccsVals
  <1>5. CASE g < f
    <2>1. q <= a /\ Span(t, g, p, q)
      BY <1>1, <1>5, OtherSpan
    <2>2. Occs(e, g) = Vals(t, p, q)
      BY <1>8, <2>1
    <2>3. ASSUME NEW k \in 1..(q - p) PROVE t[p + k - 1].val = s[p + k - 1].val
      <3> DEFINE i == p + k - 1
      <3>1. i \in 1..(a - 1) /\ i + 0 = i
        BY <1>2, <1>3, <2>1
      <3> HIDE DEF i
      <3>2. t[i] = s[i]
        BY <1>3, <3>1
      <3>3. QED
        BY <3>2 DEF i
    <2>4. QED
      BY <1>4, <2>2, <2>3 DEF Vals
  <1>6. CASE g > f
    <2>1. c <= p /\ Span(t, g, p + d, q + d)
      BY <1>1, <1>6, OtherSpan
    <2> DEFINE u == p + d
               w == q + d
    <2>2. Occs(e, g) = Vals(t, u, w)
      <3>1. Span(t, g, u, w)
        BY <2>1
      <3> HIDE DEF u, w
      <3>2. QED
        BY <1>8, <3>1
    <2>3. ASSUME NEW k \in 1..(q - p) PROVE t[u + k - 1].val = s[p + k - 1].val
      <3> DEFINE i == p + k - 1
      <3>1. i \in c..Len(s) /\ i + d = u + k - 1
        BY <1>2, <1>3, <2>1
      <3> HIDE DEF i, u
      <3>2. t[i + d] = s[i]
        BY <1>3, <3>1
      <3>3. QED
        BY <3>1, <3>2 DEF i
    <2>4. w - u = q - p
      BY <1>2, <1>3
    <2> HIDE DEF u, w
    <2>5. QED
      BY <1>4, <2>2, <2>3, <2>4 DEF Vals
  <1>7. QED
    BY <1>0, <1>5, <1>6

\* What put does to the occurrences of the field.
Put(s, oc, v) ==
  IF oc \in 0..(Len(s) - 1) THEN [s EXCEPT ![oc + 1] = v] ELSE Append(s, v)

LEMMA PutType ==
  ASSUME NEW s \in Seq(Nat), NEW oc \in Int, NEW v \in Nat
  PROVE  /\ Put(s, oc, v) \in Seq(Nat)
         /\ Len(Put(s, oc, v)) = IF oc \in 0..(Len(s) - 1) THEN Len(s) ELSE Len(s) + 1
         /\ \A k \in 1..Len(s) :
              Put(s, oc, v)[k] = IF k = oc + 1 THEN v ELSE s[k]
         /\ oc \notin 0..(Len(s) - 1) => Put(s, oc, v)[Len(s) + 1] = v
  <1>1. CASE oc \in 0..(Len(s) - 1)
    <2> DEFINE n == oc + 1
    <2>1. n \in 1..Len(s) /\ n \in Int /\ Put(s, oc, v) = [s EXCEPT ![n] = v]
      BY <1>1 DEF Put
    <2> HIDE DEF n
    <2>2. [s EXCEPT ![n] = v] \in Seq(Nat) /\ Len([s EXCEPT ![n] = v]) = Len(s)
      BY <2>1, ExceptSeq
    <2>3. \A k \in 1..Len(s) : [s EXCEPT ![n] = v][k] = IF k = n THEN v ELSE s[k]
      BY <2>1, ExceptSeq
    <2>4. QED
      BY <1>1, <2>1, <2>2, <2>3 DEF n
  <1>2. CASE oc \notin 0..(Len(s) - 1)
    <2>1. Put(s, oc, v) = Append(s, v)
      BY <1>2 DEF Put
    <2>2. /\ Append(s, v) \in Seq(Nat) /\ Len(Append(s, v)) = Len(s) + 1
          /\ Append(s, v)[Len(s) + 1] = v
          /\ \A k \in 1..Len(s) : Append(s, v)[k] = s[k] /\ k # oc + 1
      <3>1. \A k \in 1..Len(s) : k # oc + 1
        BY <1>2
      <3>2. QED
        BY <3>1
    <2>3. QED
      BY <1>2, <2>1, <2>2
  <1>3. QED
    BY <1>1, <1>2

LEMMA SameSeq ==
  ASSUME NEW S, NEW s \in Seq(S), NEW t \in Seq(S), Len(s) = Len(t),
         \A k \in 1..Len(s) : s[k] = t[k]
  PROVE  s = t
  OBVIOUS

Renewed(e, b, oc, p, q, x) == e.flds = New(b.flds, oc, p, q, x)

LEMMA OccsNew ==
  ASSUME NEW b, NEW e, b.flds \in Seq(Fld), Sorted(b.flds),
         NEW f \in Fields, NEW v \in Nat, NEW oc \in Int,
         NEW p, NEW q, Span(b.flds, f, p, q),
         NEW x, x = [id |-> f, val |-> v], Renewed(e, b, oc, p, q, x)
  PROVE  Occs(e, f) = Put(Occs(b, f), oc, v)
  <1> DEFINE s == b.flds
             t == e.flds
             there == oc \in 0..(q - p - 1)
             a == From(oc, p, q)
             c == To(oc, p, q)
             d == More(oc, p, q)
             u == q + d
             w == Put(Occs(b, f), oc, v)
  <1>1. f \in Nat
    BY Fml32Assumption
  <1>2. /\ t \in Seq(Fld) /\ Splice(s, t, a, c, d) /\ t[a] = x /\ Span(t, f, p, u)
    BY NewIs DEF Renewed
  <1>3. /\ p \in 1..Len(s) + 1 /\ q \in p..Len(s) + 1 /\ p \in Int /\ q \in Int
        /\ Len(s) \in Nat
    BY DEF Span
  <1>4. /\ Occs(b, f) = Vals(s, p, q) /\ Occs(b, f) \in Seq(Nat)
        /\ Len(Occs(b, f)) = q - p
        /\ \A k \in 1..(q - p) : Occs(b, f)[k] = s[p + k - 1].val
    <2>1. Occs(b, f) = Vals(s, p, q)
      BY <1>1, OccsVals
    <2>2. /\ Vals(s, p, q) \in Seq(Nat) /\ Len(Vals(s, p, q)) = q - p
          /\ \A k \in 1..(q - p) : Vals(s, p, q)[k] = s[p + k - 1].val
      BY <1>3, ValsType
    <2>3. QED
      BY <2>1, <2>2
  <1>5. /\ a \in Int /\ c \in Int /\ d \in Int
        /\ there => a = p + oc /\ c = a + 1 /\ d = 0
        /\ ~there => a = q /\ c = q /\ d = 1
    BY <1>3 DEF From, To, More
  <1>6. /\ \A i \in 1..(a - 1) : t[i + 0] = s[i]
        /\ \A i \in c..Len(s) : t[i + d] = s[i]
    BY <1>2 DEF Splice, Alike
  <1>7. p \in 1..Len(t) + 1 /\ u \in p..Len(t) + 1
    <2> HIDE DEF u, t
    <2> QED
      BY <1>2 DEF Span
  <1>8. /\ Occs(e, f) = Vals(t, p, u) /\ Occs(e, f) \in Seq(Nat)
        /\ Len(Occs(e, f)) = u - p
        /\ \A k \in 1..(u - p) : Occs(e, f)[k] = t[p + k - 1].val
    <2> HIDE DEF u
    <2>1. Occs(e, f) = Vals(t, p, u)
      <3>1. \A y, k, m : y.flds \in Seq(Fld) /\ Span(y.flds, f, k, m)
                            => Occs(y, f) = Vals(y.flds, k, m)
        BY <1>1, OccsVals
      <3>2. e.flds \in Seq(Fld) /\ Span(e.flds, f, p, u)
        BY <1>2
      <3>3. QED
        BY <3>1, <3>2, Zenon
    <2>2. /\ Vals(t, p, u) \in Seq(Nat) /\ Len(Vals(t, p, u)) = u - p
          /\ \A k \in 1..(u - p) : Vals(t, p, u)[k] = t[p + k - 1].val
      BY <1>2, <1>7, ValsType
    <2>3. QED
      BY <2>1, <2>2
  <1>9. /\ w \in Seq(Nat)
        /\ Len(w) = IF there THEN q - p ELSE q - p + 1
        /\ \A k \in 1..(q - p) : w[k] = IF k = oc + 1 THEN v ELSE Occs(b, f)[k]
        /\ ~there => w[q - p + 1] = v
    <2>1. \A y \in Seq(Nat) :
             /\ Put(y, oc, v) \in Seq(Nat)
             /\ Len(Put(y, oc, v)) = IF oc \in 0..(Len(y) - 1) THEN Len(y) ELSE Len(y) + 1
             /\ \A k \in 1..Len(y) : Put(y, oc, v)[k] = IF k = oc + 1 THEN v ELSE y[k]
             /\ oc \notin 0..(Len(y) - 1) => Put(y, oc, v)[Len(y) + 1] = v
      BY PutType
    <2>2. QED
      BY <1>4, <2>1
  <1>10. x.val = v
    OBVIOUS
  <1> HIDE DEF t, a, c, d, w, there
  <1>11. u - p = Len(w)
    BY <1>3, <1>5, <1>9
  <1>12. ASSUME NEW k \in 1..(u - p) PROVE t[p + k - 1].val = w[k]
    <2> DEFINE i == p + k - 1
    <2>1. i \in Int /\ k \in Int /\ i \in 1..Len(s) + 1 /\ k \in 1..(q - p + 1)
      BY <1>3, <1>5
    <2>2. CASE i = a
      <3>1. t[i].val = v
        BY <1>2, <1>10, <2>2
      <3>2. w[k] = v
        <4>1. CASE there
          <5>1. k = oc + 1 /\ k \in 1..(q - p)
            BY <1>3, <1>5, <2>2, <4>1 DEF there
          <5>2. QED
            BY <1>9, <5>1
        <4>2. CASE ~there
          <5>1. k = q - p + 1
            BY <1>3, <1>5, <2>2, <4>2
          <5>2. QED
            BY <1>9, <4>2, <5>1
        <4>3. QED
          BY <4>1, <4>2
      <3>3. QED
        BY <3>1, <3>2
    <2>3. CASE i # a
      <3>1. k \in 1..(q - p) /\ k # oc + 1
        <4>1. CASE there
          BY <1>3, <1>5, <2>1, <2>3, <4>1
        <4>2. CASE ~there
          BY <1>3, <1>5, <2>1, <2>3, <4>2 DEF there
        <4>3. QED
          BY <4>1, <4>2
      <3>2. w[k] = s[p + k - 1].val
        BY <1>4, <1>9, <3>1
      <3>3. t[i] = s[i]
        <4>1. CASE i < a
          <5>1. i \in 1..(a - 1) /\ i + 0 = i
            BY <1>5, <2>1, <4>1
          <5> HIDE DEF i
          <5>2. QED
            BY <1>6, <5>1
        <4>2. CASE i > a
          <5>1. i \in c..Len(s) /\ i + d = i
            BY <1>3, <1>5, <2>1, <3>1, <4>2
          <5> HIDE DEF i
          <5>2. QED
            BY <1>6, <5>1
        <4>3. QED
          BY <1>5, <2>1, <2>3, <4>1, <4>2
      <3>4. QED
        BY <3>2, <3>3
    <2>4. QED
      BY <2>2, <2>3
  <1> HIDE DEF u
  <1>13. Len(Occs(e, f)) = Len(w) /\ \A k \in 1..Len(Occs(e, f)) : Occs(e, f)[k] = w[k]
    BY <1>8, <1>11, <1>12
  <1>14. Occs(e, f) = w
    BY <1>8, <1>9, <1>13, SameSeq
  <1>15. QED
    BY <1>14 DEF w

\* The fields that occurrences with these values are.
Pack(f, s) == [i \in DOMAIN s |-> [id |-> f, val |-> s[i]]]

LEMMA PackType ==
  ASSUME NEW f \in Fields, NEW s \in Seq(Nat)
  PROVE  /\ Pack(f, s) \in Seq(Fld) /\ Len(Pack(f, s)) = Len(s) /\ Sorted(Pack(f, s))
         /\ \A i \in 1..Len(s) : Pack(f, s)[i] = [id |-> f, val |-> s[i]]
         /\ Span(Pack(f, s), f, 1, Len(s) + 1)
         /\ Packed(f, s) = Bytes(Pack(f, s)) /\ Packed(f, s) \in Nat
  <1> DEFINE t == Pack(f, s)
  <1>1. /\ DOMAIN s = 1..Len(s) /\ Len(s) \in Nat /\ f \in Nat
        /\ \A i \in 1..Len(s) : s[i] \in Nat
    BY Fml32Assumption
  <1>2. t = [i \in 1..Len(s) |-> [id |-> f, val |-> s[i]]]
    BY <1>1 DEF Pack
  <1>3. \A i \in 1..Len(s) : [id |-> f, val |-> s[i]] \in Fld
    BY <1>1 DEF Fld
  <1>4. t \in Seq(Fld) /\ Len(t) = Len(s)
    BY <1>1, <1>2, <1>3
  <1>5. \A i \in 1..Len(s) : t[i] = [id |-> f, val |-> s[i]] /\ t[i].id = f
    BY <1>2
  <1> HIDE DEF t
  <1>6. Sorted(t)
    <2>1. \A i \in 1..(Len(t) - 1) : i \in 1..Len(s) /\ i + 1 \in 1..Len(s)
      BY <1>1, <1>4
    <2>2. \A i \in 1..(Len(t) - 1) : t[i].id = f /\ t[i + 1].id = f
      BY <1>5, <2>1
    <2>3. f <= f
      BY <1>1
    <2>4. QED
      BY <2>2, <2>3, Zenon DEF Sorted
  <1>7. Span(t, f, 1, Len(s) + 1)
    <2>1. 1 \in 1..Len(t) + 1 /\ Len(s) + 1 \in 1..Len(t) + 1
      BY <1>1, <1>4
    <2>2. \A i \in 1..Len(t) : /\ i < 1 <=> t[i].id < f
                               /\ i < Len(s) + 1 <=> t[i].id <= f
      <3> TAKE i \in 1..Len(t)
      <3>1. i \in 1..Len(s) /\ t[i].id = f
        BY <1>1, <1>4, <1>5
      <3>2. QED
        BY <1>1, <3>1
    <2>3. QED
      BY <2>1, <2>2 DEF Span
  <1>8. Packed(f, s) = Bytes(t)
    BY DEF Packed, Pack, t
  <1>9. Bytes(t) \in Nat
    BY <1>4, BytesType
  <1>10. QED
    BY <1>4, <1>5, <1>6, <1>7, <1>8, <1>9 DEF t

\* By how much the occurrences grow.
LEMMA PackedGrows ==
  ASSUME NEW f \in Fields, NEW s \in Seq(Nat), NEW oc \in Int, NEW v \in Nat
  PROVE  Packed(f, Put(s, oc, v)) - Packed(f, s)
           = Round8(f, v) - (IF oc \in 0..(Len(s) - 1) THEN Round8(f, s[oc + 1]) ELSE 0)
  <1> DEFINE t == Pack(f, s)
             x == [id |-> f, val |-> v]
             q == Len(s) + 1
             w == Put(s, oc, v)
             u == Pack(f, w)
             n == New(t, oc, 1, q, x)
             there == oc \in 0..(Len(s) - 1)
  <1>1. /\ t \in Seq(Fld) /\ Len(t) = Len(s) /\ Sorted(t)
        /\ \A i \in 1..Len(s) : t[i] = [id |-> f, val |-> s[i]]
        /\ Span(t, f, 1, q) /\ Packed(f, s) = Bytes(t)
    BY PackType
  <1>2. /\ w \in Seq(Nat) /\ Len(w) = IF there THEN Len(s) ELSE Len(s) + 1
        /\ \A k \in 1..Len(s) : w[k] = IF k = oc + 1 THEN v ELSE s[k]
        /\ ~there => w[Len(s) + 1] = v
    BY PutType
  <1> HIDE DEF w
  <1>3. /\ u \in Seq(Fld) /\ Len(u) = Len(w) /\ Packed(f, w) = Bytes(u)
        /\ \A i \in 1..Len(w) : u[i] = [id |-> f, val |-> w[i]]
    BY <1>2, PackType
  <1>4. Len(s) \in Nat /\ q \in Int /\ q - 1 - 1 = Len(s) - 1
    OBVIOUS
  <1> HIDE DEF t, u, q
  <1>5. x \in Fld /\ n \in Seq(Fld)
    BY <1>1, NewIs
  <1>6. Bytes(n) - Bytes(t)
          = Round8(f, v) - (IF oc \in 0..(q - 1 - 1) THEN Round8(f, t[1 + oc].val) ELSE 0)
    BY <1>1, NeedIs
  <1> HIDE DEF x
  <1>7. n = u
    <2>1. CASE there
      <3> DEFINE k == 1 + oc
      <3>1. k \in 1..Len(t) /\ n = ReplaceAt(t, k, x) /\ k = oc + 1 /\ k \in Int
        BY <1>1, <1>4, <2>1 DEF New
      <3> HIDE DEF k, n, there
      <3>2. /\ ReplaceAt(t, k, x) \in Seq(Fld) /\ Len(ReplaceAt(t, k, x)) = Len(t)
            /\ \A i \in 1..Len(t) : ReplaceAt(t, k, x)[i] = IF i = k THEN x ELSE t[i]
        <4>1. t \in Seq(Fld) /\ k \in 1..Len(t) /\ x \in Fld
          BY <1>1, <1>5, <3>1
        <4>2. QED
          BY <4>1, ReplaceIs
      <3>3. Len(n) = Len(u)
        BY <1>1, <1>2, <1>3, <2>1, <3>1, <3>2
      <3>4. ASSUME NEW i \in 1..Len(n) PROVE n[i] = u[i]
        <4>1. i \in 1..Len(s) /\ i \in 1..Len(w) /\ i \in 1..Len(t)
          BY <1>1, <1>2, <2>1, <3>1, <3>2
        <4>2. n[i] = IF i = k THEN x ELSE t[i]
          BY <3>1, <3>2, <4>1
        <4>3. w[i] = IF i = k THEN v ELSE s[i]
          BY <1>2, <3>1, <4>1
        <4>4. u[i] = [id |-> f, val |-> w[i]] /\ t[i] = [id |-> f, val |-> s[i]]
          BY <1>1, <1>3, <4>1
        <4>5. QED
          BY <4>2, <4>3, <4>4 DEF x
      <3>5. QED
        BY <1>3, <1>5, <3>3, <3>4, SameSeq
    <2>2. CASE ~there
      <3>1. q \in 1..Len(t) + 1 /\ n = InsertAt(t, q, x) /\ q = Len(s) + 1
        <4>1. q = Len(s) + 1
          BY DEF q
        <4>2. q \in 1..Len(t) + 1
          BY <1>1, <1>4, <4>1
        <4>3. oc \notin 0..(q - 1 - 1)
          BY <1>4, <2>2
        <4>4. QED
          BY <4>1, <4>2, <4>3 DEF New
      <3> HIDE DEF n, there
      <3>2. /\ InsertAt(t, q, x) \in Seq(Fld) /\ Len(InsertAt(t, q, x)) = Len(t) + 1
            /\ \A i \in 1..(q - 1) : InsertAt(t, q, x)[i] = t[i]
            /\ InsertAt(t, q, x)[q] = x
        <4>1. t \in Seq(Fld) /\ q \in 1..Len(t) + 1 /\ x \in Fld
          BY Zenon, <1>1, <1>5, <3>1
        <4> HIDE DEF t, q, x
        <4>2. QED
          BY <4>1, InsertIs
      <3>3. Len(n) = Len(u)
        BY <1>1, <1>2, <1>3, <2>2, <3>1, <3>2
      <3>4. ASSUME NEW i \in 1..Len(n) PROVE n[i] = u[i]
        <4>1. i \in 1..Len(w) /\ i \in 1..q
          BY <1>1, <1>2, <1>4, <2>2, <3>1, <3>2
        <4>2. u[i] = [id |-> f, val |-> w[i]]
          BY <1>3, <4>1
        <4>3. CASE i = q
          <5>1. n[i] = x /\ w[i] = v
            BY <1>2, <2>2, <3>1, <3>2, <4>3
          <5>2. QED
            BY <4>2, <5>1 DEF x
        <4>4. CASE i # q
          <5>1. i \in 1..(q - 1) /\ i \in 1..Len(s)
            BY <1>4, <3>1, <4>1, <4>4
          <5>2. n[i] = t[i] /\ t[i] = [id |-> f, val |-> s[i]]
            BY <1>1, <3>1, <3>2, <5>1
          <5>3. w[i] = s[i]
            <6>1. i # oc + 1
              BY <1>4, <2>2, <5>1 DEF there
            <6>2. QED
              BY <1>2, <5>1, <6>1
          <5>4. QED
            BY <4>2, <5>2, <5>3
        <4>5. QED
          BY <4>3, <4>4
      <3>5. QED
        BY <1>3, <1>5, <3>3, <3>4, SameSeq
    <2>3. QED
      BY <2>1, <2>2
  <1>8. there => t[1 + oc].val = s[oc + 1]
    <2>1. there => oc + 1 \in 1..Len(s) /\ 1 + oc = oc + 1
      BY <1>4
    <2>2. there => t[oc + 1] = [id |-> f, val |-> s[oc + 1]]
      <3> HIDE DEF there
      <3> QED
        BY <1>1, <2>1
    <2>3. QED
      BY <2>1, <2>2
  <1>9. Bytes(u) - Bytes(t)
          = Round8(f, v) - (IF there THEN Round8(f, s[oc + 1]) ELSE 0)
    <2> HIDE DEF n
    <2>1. CASE there
      <3>1. oc \in 0..(q - 1 - 1)
        BY <1>4, <2>1
      <3> HIDE DEF there
      <3>2. QED
        BY <1>6, <1>7, <1>8, <2>1, <3>1
    <2>2. CASE ~there
      <3>1. oc \notin 0..(q - 1 - 1)
        BY <1>4, <2>2
      <3> HIDE DEF there
      <3>2. QED
        BY <1>6, <1>7, <2>2, <3>1
    <2>3. QED
      BY <2>1, <2>2
  <1>10. QED
    BY <1>1, <1>3, <1>9 DEF w

\* e is b with the occurrences s of field f.
Changed(e, b, f, s) ==
  /\ e \in Good /\ e.size = b.size
  /\ e.len = b.len + (Packed(f, s) - Packed(f, Occs(b, f)))
  /\ Occs(e, f) = s
  /\ \A g \in Fields \ {f} : Occs(e, g) = Occs(b, g)

Fits(b, f, s) == b.len + (Packed(f, s) - Packed(f, Occs(b, f))) <= b.size

\* Bytes of a buffer and of one of its fields grow alike.
LEMMA GrowsAlike ==
  ASSUME NEW b \in Good, NEW f \in Fields, NEW v \in Nat, NEW oc \in Int,
         NEW p, NEW q, Span(b.flds, f, p, q),
         NEW t, t = New(b.flds, oc, p, q, [id |-> f, val |-> v])
  PROVE  Bytes(t) - Bytes(b.flds)
           = Packed(f, Put(Occs(b, f), oc, v)) - Packed(f, Occs(b, f))
  <1> DEFINE s == Occs(b, f)
  <1>1. b.flds \in Seq(Fld) /\ Sorted(b.flds)
    BY GoodIs
  <1>2. Bytes(t) - Bytes(b.flds)
          = Round8(f, v) - (IF oc \in 0..(q - p - 1) THEN Round8(f, b.flds[p + oc].val) ELSE 0)
    BY <1>1, NeedIs
  <1>3. /\ s \in Seq(Nat) /\ Len(s) = q - p /\ p \in Int /\ q \in Int
        /\ \A k \in 1..(q - p) : s[k] = b.flds[p + k - 1].val
    BY StretchIs DEF Stretch
  <1>4. oc \in 0..(q - p - 1) => s[oc + 1] = b.flds[p + oc].val
    <2>1. oc \in 0..(q - p - 1) => oc + 1 \in 1..(q - p) /\ p + (oc + 1) - 1 = p + oc
      BY <1>3
    <2>2. QED
      BY <1>3, <2>1
  <1> HIDE DEF s
  <1>5. Packed(f, Put(s, oc, v)) - Packed(f, s)
          = Round8(f, v) - (IF oc \in 0..(Len(s) - 1) THEN Round8(f, s[oc + 1]) ELSE 0)
    BY <1>3, PackedGrows
  <1>6. QED
    BY <1>2, <1>3, <1>4, <1>5 DEF s

LEMMA PutOccs ==
  ASSUME NEW b \in Good, NEW f \in Fields, NEW v \in Nat, NEW oc \in Int,
         NEW s, s = Put(Occs(b, f), oc, v)
  PROVE  /\ Fits(b, f, s) => put(b, f, oc, v).rc = "ok" /\ Changed(put(b, f, oc, v).b, b, f, s)
         /\ ~Fits(b, f, s) => put(b, f, oc, v) = Fail(b, "FNOSPACE")
  <1>1. PICK p, q : Span(b.flds, f, p, q)
    BY SpanOf
  <1> DEFINE t == New(b.flds, oc, p, q, [id |-> f, val |-> v])
             delta == Bytes(t) - Bytes(b.flds)
             e == put(b, f, oc, v).b
  <1>2. /\ b.flds \in Seq(Fld) /\ Sorted(b.flds) /\ f \in Nat
        /\ b.len \in Int /\ b.size \in Int
    BY GoodIs, Fml32Assumption
  <1>3. /\ b.len + delta > b.size => put(b, f, oc, v) = Fail(b, "FNOSPACE")
        /\ b.len + delta <= b.size => put(b, f, oc, v).rc = "ok" /\ Becomes(e, b, t)
    BY <1>1, PutIs
  <1>4. delta = Packed(f, s) - Packed(f, Occs(b, f))
    BY <1>1, GrowsAlike
  <1>5. t \in Seq(Fld) /\ Alone(b.flds, t, From(oc, p, q), To(oc, p, q), More(oc, p, q), f)
    BY <1>1, <1>2, NewIs
  <1> HIDE DEF t
  <1>6. delta \in Int
    BY <1>2, <1>5, BytesType
  <1> HIDE DEF delta
  <1>7. ASSUME Becomes(e, b, t) PROVE Changed(e, b, f, s)
    <2> HIDE DEF e
    <2>1. e \in Good /\ e.flds = t /\ e.size = b.size /\ e.len = b.len + delta
      BY <1>7 DEF Becomes, delta
    <2>2. Occs(e, f) = s
      <3> DEFINE x == [id |-> f, val |-> v]
      <3>1. Renewed(e, b, oc, p, q, x)
        BY <2>1 DEF t, Renewed
      <3> HIDE DEF x
      <3>2. x = [id |-> f, val |-> v]
        BY DEF x
      <3>3. QED
        BY <1>1, <1>2, <3>1, <3>2, OccsNew
    <2>3. ASSUME NEW g \in Fields \ {f} PROVE Occs(e, g) = Occs(b, g)
      <3>1. g \in Nat /\ g # f
        BY Fml32Assumption
      <3>2. /\ e.flds \in Seq(Fld)
            /\ Alone(b.flds, e.flds, From(oc, p, q), To(oc, p, q), More(oc, p, q), f)
        BY <1>5, <2>1
      <3>3. QED
        BY <1>2, <3>1, <3>2, OthersKept
    <2>4. QED
      BY <1>4, <2>1, <2>2, <2>3 DEF Changed
  <1>8. Fits(b, f, s) <=> b.len + delta <= b.size
    BY <1>4 DEF Fits
  <1>9. QED
    BY <1>2, <1>3, <1>6, <1>7, <1>8

LEMMA PackedType ==
  ASSUME NEW f \in Fields, NEW s \in Seq(Nat)
  PROVE  Packed(f, s) \in Nat
  BY PackType

LEMMA ChangedTrans ==
  ASSUME NEW b \in Good, NEW f \in Fields, NEW s \in Seq(Nat), NEW t \in Seq(Nat),
         NEW d, Changed(d, b, f, s)
  PROVE  /\ Fits(d, f, t) <=> Fits(b, f, t)
         /\ \A e : Changed(e, d, f, t) => Changed(e, b, f, t)
  <1>1. /\ b.len \in Int /\ b.size \in Int /\ d \in Good /\ d.size = b.size
        /\ d.len = b.len + (Packed(f, s) - Packed(f, Occs(b, f)))
        /\ Occs(d, f) = s
        /\ \A g \in Fields \ {f} : Occs(d, g) = Occs(b, g)
    BY GoodIs DEF Changed
  <1>2. Packed(f, s) \in Nat /\ Packed(f, t) \in Nat /\ Packed(f, Occs(b, f)) \in Nat
    BY PackedType, OccsType
  <1>3. d.len + (Packed(f, t) - Packed(f, s))
          = b.len + (Packed(f, t) - Packed(f, Occs(b, f)))
    BY <1>1, <1>2
  <1>4. Fits(d, f, t) <=> Fits(b, f, t)
    BY <1>1, <1>3 DEF Fits
  <1>5. ASSUME NEW e, Changed(e, d, f, t) PROVE Changed(e, b, f, t)
    <2>1. /\ e \in Good /\ e.size = d.size
          /\ e.len = d.len + (Packed(f, t) - Packed(f, Occs(d, f)))
          /\ Occs(e, f) = t
          /\ \A g \in Fields \ {f} : Occs(e, g) = Occs(d, g)
      BY <1>5 DEF Changed
    <2>2. QED
      BY <1>1, <1>3, <2>1 DEF Changed
  <1>6. QED
    BY <1>4, <1>5

LEMMA ChangedSelf ==
  ASSUME NEW b \in Good, NEW f \in Fields
  PROVE  Changed(b, b, f, Occs(b, f)) /\ Fits(b, f, Occs(b, f))
  <1>1. Packed(f, Occs(b, f)) \in Nat /\ b.len \in Int /\ b.len <= b.size /\ b.size \in Int
    BY OccsType, PackedType, GoodIs
  <1>2. b.len + (Packed(f, Occs(b, f)) - Packed(f, Occs(b, f))) = b.len
    BY <1>1
  <1>3. QED
    BY <1>1, <1>2 DEF Changed, Fits

-----------------------------------------------------------------------------
(* Storing an occurrence                                                   *)

\* s with n default values behind it.
Fill(s, n) == s \o Promised!Zeros(n)

LEMMA FillType ==
  ASSUME NEW s \in Seq(Nat), NEW n \in Nat
  PROVE  /\ Fill(s, n) \in Seq(Nat) /\ Len(Fill(s, n)) = Len(s) + n
         /\ \A i \in 1..Len(s) : Fill(s, n)[i] = s[i]
         /\ \A i \in (Len(s) + 1)..(Len(s) + n) : Fill(s, n)[i] = 0
  <1> DEFINE z == Promised!Zeros(n)
  <1>1. z \in Seq(Nat) /\ Len(z) = n /\ \A i \in 1..n : z[i] = 0
    BY DEF Promised!Zeros
  <1> HIDE DEF z
  <1>2. Fill(s, n) = s \o z
    BY DEF Fill, z
  <1>3. s \o z \in Seq(Nat) /\ Len(s \o z) = Len(s) + n
    BY <1>1
  <1>4. \A i \in 1..Len(s) : (s \o z)[i] = s[i]
    BY <1>1
  <1>5. \A i \in (Len(s) + 1)..(Len(s) + n) : (s \o z)[i] = 0
    <2> TAKE i \in (Len(s) + 1)..(Len(s) + n)
    <2>1. i - Len(s) \in 1..n
      OBVIOUS
    <2>2. (s \o z)[i] = z[i - Len(s)]
      BY <1>1
    <2>3. QED
      BY <1>1, <2>1, <2>2
  <1>6. QED
    BY <1>2, <1>3, <1>4, <1>5

LEMMA FillNone ==
  ASSUME NEW s \in Seq(Nat)
  PROVE  Fill(s, 0) = s
  <1> DEFINE t == Fill(s, 0)
  <1>1. /\ t \in Seq(Nat) /\ Len(t) = Len(s) + 0
        /\ \A i \in 1..Len(s) : t[i] = s[i]
    BY FillType
  <1> HIDE DEF t
  <1>2. Len(t) = Len(s)
    BY <1>1
  <1>3. t = s
    BY <1>1, <1>2, SameSeq
  <1>4. QED
    BY <1>3 DEF t

\* The next default value is put behind those that are there.
LEMMA FillMore ==
  ASSUME NEW s \in Seq(Nat), NEW n \in Nat, NEW v \in Nat
  PROVE  /\ Put(Fill(s, n), Len(s) + n, v) = Append(Fill(s, n), v)
         /\ Append(Fill(s, n), 0) = Fill(s, n + 1)
  <1> DEFINE t == Fill(s, n)
             u == Fill(s, n + 1)
  <1>1. /\ t \in Seq(Nat) /\ Len(t) = Len(s) + n
        /\ \A i \in 1..Len(s) : t[i] = s[i]
        /\ \A i \in (Len(s) + 1)..(Len(s) + n) : t[i] = 0
    BY FillType
  <1>2. /\ u \in Seq(Nat) /\ Len(u) = Len(s) + n + 1
        /\ \A i \in 1..Len(s) : u[i] = s[i]
        /\ \A i \in (Len(s) + 1)..(Len(s) + n + 1) : u[i] = 0
    <2> DEFINE m == n + 1
    <2>1. m \in Nat /\ Len(s) + m = Len(s) + n + 1
      OBVIOUS
    <2> HIDE DEF m
    <2>2. /\ Fill(s, m) \in Seq(Nat) /\ Len(Fill(s, m)) = Len(s) + m
          /\ \A i \in 1..Len(s) : Fill(s, m)[i] = s[i]
          /\ \A i \in (Len(s) + 1)..(Len(s) + m) : Fill(s, m)[i] = 0
      BY <2>1, FillType
    <2>3. QED
      BY <2>1, <2>2 DEF m
  <1> HIDE DEF t, u
  <1>3. Put(t, Len(s) + n, v) = Append(t, v)
    <2>1. Len(s) + n \notin 0..(Len(t) - 1)
      BY <1>1
    <2>2. QED
      BY <2>1 DEF Put
  <1>4. Append(t, 0) = u
    <2> DEFINE w == Append(t, 0)
    <2>1. w \in Seq(Nat) /\ Len(w) = Len(s) + n + 1
      <3>1. w \in Seq(Nat) /\ Len(w) = Len(t) + 1
        <4>1. t \in Seq(Nat) /\ 0 \in Nat
          BY <1>1
        <4>2. QED
          BY <4>1, AppendProperties
      <3> HIDE DEF w
      <3>2. QED
        BY <1>1, <3>1
    <2>2. ASSUME NEW i \in 1..(Len(s) + n + 1) PROVE w[i] = u[i]
      <3>1. CASE i <= Len(s)
        <4>1. i \in 1..Len(s) /\ i \in 1..Len(t)
          BY <1>1, <3>1
        <4>2. w[i] = t[i]
          BY <1>1, <4>1
        <4> HIDE DEF w
        <4>3. QED
          BY <1>1, <1>2, <4>1, <4>2
      <3>2. CASE i > Len(s)
        <4>1. i \in (Len(s) + 1)..(Len(s) + n + 1)
          BY <3>2
        <4>2. CASE i = Len(t) + 1
          BY <1>1, <1>2, <4>1, <4>2
        <4>3. CASE i # Len(t) + 1
          <5>1. i \in (Len(s) + 1)..(Len(s) + n) /\ i \in 1..Len(t)
            BY <1>1, <3>2, <4>3
          <5>2. w[i] = t[i]
            BY <1>1, <5>1
          <5> HIDE DEF w
          <5>3. QED
            BY <1>1, <1>2, <4>1, <5>1, <5>2
        <4>4. QED
          BY <4>2, <4>3
      <3>3. i <= Len(s) \/ i > Len(s)
        OBVIOUS
      <3>4. QED
        BY <3>1, <3>2, <3>3
    <2> HIDE DEF w
    <2>3. w = u
      BY <1>2, <2>1, <2>2, SameSeq
    <2>4. QED
      BY <2>3 DEF w
  <1>5. QED
    BY <1>3, <1>4 DEF t, u

LEMMA PutAtIs ==
  ASSUME NEW s \in Seq(Nat), NEW oc \in Nat, NEW v \in Nat
  PROVE  /\ oc < Len(s) => Promised!PutAt(s, oc, v) = Put(s, oc, v)
         /\ oc >= Len(s) => Promised!PutAt(s, oc, v) = Append(Fill(s, oc - Len(s)), v)
         /\ Promised!PutAt(s, oc, v) \in Seq(Nat)
  <1>1. CASE oc < Len(s)
    <2>1. oc \in 0..(Len(s) - 1) /\ ~(oc >= Len(s)) /\ oc \in Int
      BY <1>1
    <2>2. Promised!PutAt(s, oc, v) = Put(s, oc, v)
      BY <1>1, <2>1 DEF Put, Promised!PutAt
    <2>3. QED
      BY <2>1, <2>2, PutType
  <1>2. CASE oc >= Len(s)
    <2> DEFINE t == Fill(s, oc - Len(s))
    <2>1. oc - Len(s) \in Nat /\ ~(oc < Len(s))
      BY <1>2
    <2>2. t \in Seq(Nat)
      BY <2>1, FillType
    <2>3. Promised!PutAt(s, oc, v) = t \o <<v>>
      BY <2>1 DEF Promised!PutAt, Fill
    <2> HIDE DEF t
    <2>4. t \o <<v>> = Append(t, v) /\ Append(t, v) \in Seq(Nat)
      BY <2>2
    <2>5. QED
      BY <2>1, <2>3, <2>4 DEF t
  <1>3. QED
    BY <1>1, <1>2

\* Every further value takes space, and none less than a default one.
LEMMA PackedAppend ==
  ASSUME NEW f \in Fields, NEW s \in Seq(Nat), NEW v \in Nat
  PROVE  /\ Packed(f, Append(s, v)) = Packed(f, s) + Round8(f, v)
         /\ Packed(f, s) <= Packed(f, Append(s, 0))
         /\ Packed(f, Append(s, 0)) <= Packed(f, Append(s, v))
  <1>1. ASSUME NEW u \in Nat PROVE Packed(f, Append(s, u)) = Packed(f, s) + Round8(f, u)
    <2> DEFINE oc == Len(s)
    <2>1. oc \in Int /\ oc \notin 0..(Len(s) - 1)
      OBVIOUS
    <2> HIDE DEF oc
    <2>2. Put(s, oc, u) = Append(s, u)
      BY <2>1 DEF Put
    <2>3. Packed(f, Put(s, oc, u)) - Packed(f, s) = Round8(f, u) - 0
      BY <2>1, PackedGrows
    <2>4. Append(s, u) \in Seq(Nat)
      OBVIOUS
    <2>5. Packed(f, Append(s, u)) \in Nat /\ Packed(f, s) \in Nat /\ Round8(f, u) \in Nat
      BY <2>4, PackedType, Round8Type
    <2>6. QED
      BY <2>2, <2>3, <2>5
  <1>2. /\ Packed(f, s) \in Nat /\ Round8(f, v) \in Nat /\ Round8(f, 0) \in Nat
        /\ Round8(f, 0) <= Round8(f, v) /\ 0 \in Nat
    BY PackedType, Round8Type
  <1>3. QED
    BY <1>1, <1>2

LEMMA PackedFill ==
  ASSUME NEW f \in Fields, NEW s \in Seq(Nat), NEW k \in Nat, NEW m \in Nat, k <= m
  PROVE  Packed(f, Fill(s, k)) <= Packed(f, Fill(s, m))
  <1> DEFINE P(n) == Packed(f, Fill(s, n))
             S == {n \in Nat : P(k) <= P(n)}
  <1>1. \A n \in Nat : P(n) \in Nat /\ P(n) <= P(n + 1)
    <2> TAKE n \in Nat
    <2>1. Fill(s, n) \in Seq(Nat) /\ Append(Fill(s, n), 0) = Fill(s, n + 1)
      BY FillType, FillMore
    <2>2. Packed(f, Fill(s, n)) <= Packed(f, Append(Fill(s, n), 0))
      BY <2>1, PackedAppend
    <2>3. QED
      BY <2>1, <2>2, PackedType
  <1> HIDE DEF P
  <1>2. k \in S
    BY <1>1
  <1>3. ASSUME NEW n \in (k + 1)..m, n - 1 \in S PROVE n \in S
    <2> DEFINE j == n - 1
    <2>1. j \in Nat /\ j + 1 = n /\ n \in Nat /\ P(k) <= P(j)
      BY <1>3
    <2> HIDE DEF j
    <2>2. P(j) <= P(n) /\ P(j) \in Nat /\ P(n) \in Nat /\ P(k) \in Nat
      BY <1>1, <2>1
    <2>3. QED
      BY <2>1, <2>2
  <1>4. k..m \subseteq S
    <2>1. k \in Int /\ m \in Int
      OBVIOUS
    <2> HIDE DEF S
    <2> QED
      BY <1>2, <1>3, <2>1, Reaches
  <1>5. m \in S
    BY <1>4
  <1>6. QED
    BY <1>5 DEF P

\* What an operation on one buffer returns.
Res == [b : Good, rc : {"ok", "FNOSPACE"}]

LEMMA DoneFail ==
  ASSUME NEW b
  PROVE  /\ Done(b).b = b /\ Done(b).rc = "ok" /\ (b \in Good => Done(b) \in Res)
         /\ Fail(b, "FNOSPACE").b = b /\ Fail(b, "FNOSPACE").rc = "FNOSPACE"
         /\ (b \in Good => Fail(b, "FNOSPACE") \in Res)
  BY DEF Done, Fail, Res

LEMMA PutRes ==
  ASSUME NEW b \in Good, NEW f \in Fields, NEW v \in Nat, NEW oc \in Int
  PROVE  put(b, f, oc, v) \in Res
  <1> DEFINE s == Put(Occs(b, f), oc, v)
             r == put(b, f, oc, v)
  <1>1. CASE Fits(b, f, s)
    <2>1. r.rc = "ok" /\ Changed(r.b, b, f, s)
      BY <1>1, PutOccs
    <2>2. r.b \in Good
      BY <2>1 DEF Changed
    <2>3. r = [b |-> r.b, rc |-> r.rc]
      BY DEF put, Done, Fail
    <2> HIDE DEF r, s
    <2>4. r.rc \in {"ok", "FNOSPACE"}
      BY <2>1
    <2>5. [b |-> r.b, rc |-> r.rc] \in Res
      BY <2>2, <2>4 DEF Res
    <2>6. r \in Res
      BY <2>3, <2>5
    <2>7. QED
      BY <2>6 DEF r
  <1>2. CASE ~Fits(b, f, s)
    <2>1. r = Fail(b, "FNOSPACE")
      BY <1>2, PutOccs
    <2>2. QED
      BY <2>1, DoneFail
  <1>3. QED
    BY <1>1, <1>2

Chosen(b, f, oc) == IF oc = -1 THEN occur(b, f) ELSE oc
First(b, f, oc) == IF occur(b, f) <= Chosen(b, f, oc) THEN occur(b, f) ELSE Chosen(b, f, oc)

LEMMA ChosenType ==
  ASSUME NEW b \in Good, NEW f \in Fields, NEW oc \in Int, oc >= -1
  PROVE  /\ Chosen(b, f, oc) \in Nat /\ First(b, f, oc) \in Nat
         /\ First(b, f, oc) <= Chosen(b, f, oc) /\ First(b, f, oc) <= occur(b, f)
         /\ Min({occur(b, f), Chosen(b, f, oc)}) = First(b, f, oc)
  <1> DEFINE n == occur(b, f)
             o == Chosen(b, f, oc)
             m == First(b, f, oc)
  <1>1. n \in Nat
    BY OccsType
  <1>2. o \in Nat
    BY <1>1 DEF Chosen
  <1>3. m = IF n <= o THEN n ELSE o
    BY DEF First
  <1> HIDE DEF n, o, m
  <1>4. m \in Nat /\ m <= o /\ m <= n /\ m \in {n, o} /\ {n, o} \subseteq Int
    BY <1>1, <1>2, <1>3
  <1>5. \A k \in {n, o} : m <= k
    BY <1>4
  <1>6. Min({n, o}) = m
    <2> DEFINE S == {n, o}
    <2>1. S \subseteq Int /\ m \in S /\ \A k \in S : m <= k
      BY <1>4, <1>5
    <2> HIDE DEF S
    <2>2. Min(S) = m
      BY <2>1, MinIs
    <2>3. QED
      BY <2>2 DEF S
  <1>7. QED
    BY <1>2, <1>4, <1>6 DEF n, o, m

\* chg from its first round on.
LastRound(b, f, m, o, v) ==
  LET after[n \in m..(o + 1)] ==
        IF n = m THEN Done(b)
        ELSE put(after[n - 1].b, f, n - 1, IF n = o + 1 THEN v ELSE 0)
  IN after[o + 1]

\* h holds the results of chg after each of its rounds.
Rounds(h, b, f, m, o, v) ==
  \A n \in m..(o + 1) :
    h[n] = IF n = m THEN Done(b)
           ELSE put(h[n - 1].b, f, n - 1, IF n = o + 1 THEN v ELSE 0)

LEMMA ChgRounds ==
  ASSUME NEW b \in Good, NEW f \in Fields, NEW v \in Nat, NEW oc \in Int, oc >= -1,
         NEW o, o = Chosen(b, f, oc), NEW m, m = First(b, f, oc)
  PROVE  \E h : Rounds(h, b, f, m, o, v) /\ chg(b, f, oc, v) = h[o + 1]
  <1> DEFINE c == o + 1
             Is(g) == g = [n \in m..(o + 1) |->
                        IF n = m THEN Done(b)
                        ELSE put(g[n - 1].b, f, n - 1, IF n = o + 1 THEN v ELSE 0)]
             G == [n \in m..c |-> [y \in Res |->
                     IF n = m THEN y ELSE put(y.b, f, n - 1, IF n = c THEN v ELSE 0)]]
             x == Done(b)
  <1>1. /\ o \in Nat /\ m \in Nat /\ m <= o /\ m \in Int /\ c \in Int /\ m <= c
        /\ Min({occur(b, f), o}) = m
    <2>1. /\ Chosen(b, f, oc) \in Nat /\ First(b, f, oc) \in Nat
          /\ First(b, f, oc) <= Chosen(b, f, oc)
          /\ Min({occur(b, f), Chosen(b, f, oc)}) = First(b, f, oc)
      BY ChosenType
    <2>2. o \in Nat /\ m \in Nat /\ m <= o /\ Min({occur(b, f), o}) = m
      BY <2>1, Zenon
    <2>3. QED
      BY <2>2
  <1>2. x \in Res
    BY DoneFail
  <1>3. \A n \in m..c, y \in Res :
          (IF n = m THEN y ELSE put(y.b, f, n - 1, IF n = c THEN v ELSE 0)) \in Res
    <2> HIDE DEF c
    <2> TAKE n \in m..c, y \in Res
    <2>1. y.b \in Good
      BY DEF Res
    <2>2. (IF n = c THEN v ELSE 0) \in Nat
      OBVIOUS
    <2>3. n - 1 \in Int
      BY <1>1
    <2>4. put(y.b, f, n - 1, IF n = c THEN v ELSE 0) \in Res
      BY <2>1, <2>2, <2>3, PutRes
    <2>5. QED
      BY <2>4
  <1>4. G \in [m..c -> [Res -> Res]]
    <2> HIDE DEF c
    <2> QED
      BY <1>3
  <1>5. PICK g \in [m..c -> Res] : Solves(g, m, c, x, G)
    <2> HIDE DEF G, c, x
    <2> QED
      BY <1>1, <1>2, <1>4, Solvable
  <1>6. ASSUME NEW n \in m..c
        PROVE  g[n] = IF n = m THEN x
                      ELSE put(g[n - 1].b, f, n - 1, IF n = c THEN v ELSE 0)
    <2>1. g[n] = IF n = m THEN x ELSE G[n][g[n - 1]]
      <3> HIDE DEF G, x, c
      <3> QED
        BY <1>5 DEF Solves
    <2>2. n # m => g[n - 1] \in Res
      <3>1. n # m => n - 1 \in m..c
        BY <1>1
      <3> HIDE DEF c
      <3>2. QED
        BY <3>1
    <2> HIDE DEF c, x
    <2>3. QED
      BY <2>1, <2>2
  <1>7. Is(g)
    <2>1. DOMAIN g = m..c /\ g = [n \in m..c |-> g[n]]
      OBVIOUS
    <2> HIDE DEF x
    <2>2. g = [n \in m..c |-> IF n = m THEN x
                      ELSE put(g[n - 1].b, f, n - 1, IF n = c THEN v ELSE 0)]
      BY <1>6, <2>1
    <2>3. QED
      BY <2>2 DEF x
  <1>8. chg(b, f, oc, v) = (CHOOSE h : Is(h))[o + 1]
    <2>1. chg(b, f, oc, v)
            = LastRound(b, f, Min({occur(b, f), Chosen(b, f, oc)}), Chosen(b, f, oc), v)
      BY DEF chg, LastRound, Chosen
    <2>2. chg(b, f, oc, v) = LastRound(b, f, m, o, v)
      BY <1>1, <2>1, Zenon
    <2>3. LastRound(b, f, m, o, v) = (CHOOSE h : Is(h))[o + 1]
      BY DEF LastRound
    <2>4. QED
      BY <2>2, <2>3, Zenon
  <1> DEFINE h == CHOOSE k : Is(k)
  <1>9. Is(h)
    <2> HIDE DEF Is
    <2> QED
      BY <1>7
  <1> HIDE DEF h
  <1>10. Rounds(h, b, f, m, o, v)
    BY <1>9 DEF Rounds
  <1>11. QED
    BY <1>8, <1>10 DEF h

\* r is what storing v as occurrence o of field f of b returns: the buffer
\* with the occurrence, or, when that does not fit, the buffer with some of
\* the default values in front of it.
Stored(r, b, f, o, v) ==
  IF Fits(b, f, Promised!PutAt(Occs(b, f), o, v))
    THEN r.rc = "ok" /\ Changed(r.b, b, f, Promised!PutAt(Occs(b, f), o, v))
    ELSE /\ r.rc = "FNOSPACE"
         /\ \E k \in Nat : /\ k = 0 \/ k <= o - Len(Occs(b, f))
                           /\ Changed(r.b, b, f, Fill(Occs(b, f), k))

\* A round behind the occurrences there are, k default values among them.
LEMMA RoundBehind ==
  ASSUME NEW b \in Good, NEW f \in Fields, NEW v \in Nat, NEW k \in Nat, NEW j \in Int,
         NEW s, s = Occs(b, f), j >= Len(s) + k,
         NEW e, Changed(e, b, f, Fill(s, k))
  PROVE  /\ e \in Good
         /\ Fits(b, f, Append(Fill(s, k), v)) =>
              /\ put(e, f, j, v).rc = "ok"
              /\ Changed(put(e, f, j, v).b, b, f, Append(Fill(s, k), v))
         /\ ~Fits(b, f, Append(Fill(s, k), v)) => put(e, f, j, v) = Fail(e, "FNOSPACE")
  <1> DEFINE t == Fill(s, k)
             w == Append(t, v)
  <1>1. s \in Seq(Nat)
    BY OccsType
  <1>2. t \in Seq(Nat) /\ Len(t) = Len(s) + k
    BY <1>1, FillType
  <1>3. e \in Good /\ Occs(e, f) = t
    BY DEF Changed
  <1>4. Put(t, j, v) = w
    <2>1. j \notin 0..(Len(t) - 1)
      BY <1>1, <1>2
    <2>2. QED
      BY <2>1 DEF Put
  <1>5. w \in Seq(Nat)
    <2> HIDE DEF t
    <2> QED
      BY <1>2, AppendProperties
  <1>6. /\ Fits(e, f, w) <=> Fits(b, f, w)
        /\ \A d : Changed(d, e, f, w) => Changed(d, b, f, w)
    <2> HIDE DEF w
    <2> QED
      BY <1>2, <1>5, ChangedTrans
  <1>7. /\ Fits(e, f, w) => put(e, f, j, v).rc = "ok" /\ Changed(put(e, f, j, v).b, e, f, w)
        /\ ~Fits(e, f, w) => put(e, f, j, v) = Fail(e, "FNOSPACE")
    <2>1. w = Put(Occs(e, f), j, v)
      BY <1>3, <1>4
    <2> HIDE DEF w, t
    <2>2. QED
      BY <1>3, <2>1, PutOccs
  <1> HIDE DEF w
  <1>8. QED
    BY <1>3, <1>6, <1>7 DEF w

LEMMA FitsLess ==
  ASSUME NEW b \in Good, NEW f \in Fields, NEW s \in Seq(Nat), NEW t \in Seq(Nat),
         Packed(f, s) <= Packed(f, t), ~Fits(b, f, s)
  PROVE  ~Fits(b, f, t)
  <1>1. /\ Packed(f, s) \in Nat /\ Packed(f, t) \in Nat /\ Packed(f, Occs(b, f)) \in Nat
        /\ b.len \in Int /\ b.size \in Int
    BY PackedType, OccsType, GoodIs
  <1>2. QED
    BY <1>1 DEF Fits

\* Where chg is after a round that fills in defaults.
Filled(r, b, f, k) ==
  \/ r.rc = "ok" /\ Changed(r.b, b, f, Fill(Occs(b, f), k))
  \/ /\ r.rc = "FNOSPACE"
     /\ \E i \in Nat : /\ i < k /\ Changed(r.b, b, f, Fill(Occs(b, f), i))
                       /\ ~Fits(b, f, Append(Fill(Occs(b, f), i), 0))

LEMMA FilledNext ==
  ASSUME NEW b \in Good, NEW f \in Fields, NEW k \in Nat, NEW j \in Int,
         j >= Len(Occs(b, f)) + k, NEW r, Filled(r, b, f, k)
  PROVE  Filled(put(r.b, f, j, 0), b, f, k + 1)
  <1> DEFINE s == Occs(b, f)
             q == put(r.b, f, j, 0)
  <1>1. s \in Seq(Nat) /\ 0 \in Nat
    BY OccsType
  <1>2. CASE r.rc = "ok" /\ Changed(r.b, b, f, Fill(s, k))
    <2>1. /\ Fits(b, f, Append(Fill(s, k), 0)) =>
               q.rc = "ok" /\ Changed(q.b, b, f, Append(Fill(s, k), 0))
          /\ ~Fits(b, f, Append(Fill(s, k), 0)) => q = Fail(r.b, "FNOSPACE")
      BY <1>1, <1>2, RoundBehind
    <2>2. Append(Fill(s, k), 0) = Fill(s, k + 1)
      BY <1>1, FillMore
    <2>3. k < k + 1
      OBVIOUS
    <2> HIDE DEF q, s
    <2>4. CASE Fits(b, f, Append(Fill(s, k), 0))
      BY <2>1, <2>2, <2>4 DEF Filled, s, q
    <2>5. CASE ~Fits(b, f, Append(Fill(s, k), 0))
      <3>1. q.b = r.b /\ q.rc = "FNOSPACE"
        BY <2>1, <2>5, DoneFail
      <3>2. QED
        BY <1>2, <2>3, <2>5, <3>1 DEF Filled, s, q
    <2>6. QED
      BY <2>4, <2>5 DEF q
  <1>3. CASE r.rc = "FNOSPACE" /\ \E i \in Nat : /\ i < k /\ Changed(r.b, b, f, Fill(s, i))
                                                 /\ ~Fits(b, f, Append(Fill(s, i), 0))
    <2>1. PICK i \in Nat : /\ i < k /\ Changed(r.b, b, f, Fill(s, i))
                           /\ ~Fits(b, f, Append(Fill(s, i), 0))
      BY <1>3
    <2>2. j >= Len(s) + i
      BY <1>1, <2>1
    <2>3. q = Fail(r.b, "FNOSPACE")
      BY <1>1, <2>1, <2>2, RoundBehind
    <2>4. q.b = r.b /\ q.rc = "FNOSPACE" /\ i < k + 1
      BY <2>1, <2>3, DoneFail
    <2> HIDE DEF q, s
    <2>5. QED
      BY <2>1, <2>4 DEF Filled, s, q
  <1>4. QED
    BY <1>2, <1>3 DEF Filled

LEMMA FilledLast ==
  ASSUME NEW b \in Good, NEW f \in Fields, NEW v \in Nat, NEW o \in Nat,
         o >= Len(Occs(b, f)), NEW r, Filled(r, b, f, o - Len(Occs(b, f)))
  PROVE  Stored(put(r.b, f, o, v), b, f, o, v)
  <1> DEFINE s == Occs(b, f)
             k == o - Len(s)
             q == put(r.b, f, o, v)
             want == Promised!PutAt(s, o, v)
  <1>1. s \in Seq(Nat) /\ 0 \in Nat /\ k \in Nat /\ o \in Int /\ o >= Len(s) + k
    BY OccsType
  <1>2. want = Append(Fill(s, k), v) /\ want \in Seq(Nat)
    BY <1>1, PutAtIs
  <1> HIDE DEF k, q, want, s
  <1>3. CASE r.rc = "ok" /\ Changed(r.b, b, f, Fill(s, k))
    <2>1. /\ Fits(b, f, want) => q.rc = "ok" /\ Changed(q.b, b, f, want)
          /\ ~Fits(b, f, want) => q = Fail(r.b, "FNOSPACE")
      <3>1. s = Occs(b, f)
        BY DEF s
      <3>2. /\ Fits(b, f, Append(Fill(s, k), v)) =>
                  /\ put(r.b, f, o, v).rc = "ok"
                  /\ Changed(put(r.b, f, o, v).b, b, f, Append(Fill(s, k), v))
            /\ ~Fits(b, f, Append(Fill(s, k), v)) => put(r.b, f, o, v) = Fail(r.b, "FNOSPACE")
        BY <1>1, <1>3, <3>1, RoundBehind
      <3>3. QED
        BY <1>2, <3>2 DEF q
    <2>2. CASE Fits(b, f, want)
      BY <2>1, <2>2 DEF Stored, want, s, q
    <2>3. CASE ~Fits(b, f, want)
      <3>1. q.b = r.b /\ q.rc = "FNOSPACE" /\ k <= o - Len(s)
        BY <1>1, <2>1, <2>3, DoneFail DEF k
      <3>2. \E i \in Nat : (i = 0 \/ i <= o - Len(s)) /\ Changed(q.b, b, f, Fill(s, i))
        BY <1>1, <1>3, <3>1
      <3>3. QED
        BY <2>3, <3>1, <3>2 DEF Stored, want, s, q
    <2>4. QED
      BY <2>2, <2>3
  <1>4. CASE r.rc = "FNOSPACE" /\ \E i \in Nat : /\ i < k /\ Changed(r.b, b, f, Fill(s, i))
                                                 /\ ~Fits(b, f, Append(Fill(s, i), 0))
    <2>1. PICK i \in Nat : /\ i < k /\ Changed(r.b, b, f, Fill(s, i))
                           /\ ~Fits(b, f, Append(Fill(s, i), 0))
      BY <1>4
    <2>2. o >= Len(s) + i /\ i + 1 \in Nat /\ i + 1 <= k
      BY <1>1, <2>1
    <2>3. /\ Fill(s, i) \in Seq(Nat) /\ Append(Fill(s, i), 0) \in Seq(Nat)
          /\ Append(Fill(s, i), v) \in Seq(Nat)
          /\ Packed(f, Append(Fill(s, i), 0)) <= Packed(f, Append(Fill(s, i), v))
      <3>1. Fill(s, i) \in Seq(Nat)
        BY <1>1, FillType
      <3>2. QED
        BY <1>1, <3>1, PackedAppend, AppendProperties
    <2>4. ~Fits(b, f, Append(Fill(s, i), v))
      BY <2>1, <2>3, FitsLess
    <2>5. q = Fail(r.b, "FNOSPACE")
      <3>1. s = Occs(b, f)
        BY DEF s
      <3> DEFINE e == r.b
      <3>2. Changed(e, b, f, Fill(s, i)) /\ o \in Int /\ o >= Len(s) + i /\ q = put(e, f, o, v)
        BY Zenon, <1>1, <2>1, <2>2 DEF q
      <3> HIDE DEF e
      <3>3. put(e, f, o, v) = Fail(e, "FNOSPACE")
        BY <2>4, <3>1, <3>2, RoundBehind
      <3>4. QED
        BY Zenon, <3>2, <3>3 DEF e
    <2>6. ~Fits(b, f, want)
      <3>1. Append(Fill(s, i), 0) = Fill(s, i + 1)
        BY <1>1, FillMore
      <3>2. Packed(f, Fill(s, i + 1)) <= Packed(f, Fill(s, k))
        <4> DEFINE m == i + 1
        <4>1. m \in Nat /\ m <= k
          BY <2>2
        <4> HIDE DEF m
        <4>2. Packed(f, Fill(s, m)) <= Packed(f, Fill(s, k))
          BY <1>1, <4>1, PackedFill
        <4>3. QED
          BY <4>2 DEF m
      <3>3. /\ Fill(s, k) \in Seq(Nat)
            /\ Packed(f, want) = Packed(f, Fill(s, k)) + Round8(f, v)
            /\ Round8(f, v) \in Nat /\ Packed(f, Fill(s, k)) \in Nat
            /\ Packed(f, Fill(s, i + 1)) \in Nat
        <4>1. Fill(s, k) \in Seq(Nat)
          BY <1>1, FillType
        <4>2. Packed(f, want) = Packed(f, Fill(s, k)) + Round8(f, v)
          BY <1>2, <4>1, PackedAppend
        <4>3. Packed(f, Fill(s, i + 1)) \in Nat /\ Packed(f, Fill(s, k)) \in Nat
          BY <2>3, <3>1, <4>1, PackedType
        <4>4. QED
          BY <4>1, <4>2, <4>3, Round8Type
      <3>4. Packed(f, Append(Fill(s, i), 0)) <= Packed(f, want)
        <4> DEFINE x == Packed(f, Fill(s, i + 1))
                   y == Packed(f, Fill(s, k))
        <4>1. Packed(f, Append(Fill(s, i), 0)) = x
          BY <3>1, Zenon
        <4>2. /\ x <= y /\ Packed(f, want) = y + Round8(f, v)
              /\ Round8(f, v) \in Nat /\ y \in Nat /\ x \in Nat
          BY <3>2, <3>3
        <4> HIDE DEF x, y
        <4>3. QED
          BY <4>1, <4>2
      <3> DEFINE u == Append(Fill(s, i), 0)
      <3>5. u \in Seq(Nat) /\ Packed(f, u) <= Packed(f, want) /\ ~Fits(b, f, u)
        BY <2>1, <2>3, <3>4
      <3> HIDE DEF u
      <3>6. QED
        BY <1>2, <3>5, FitsLess
    <2>7. q.b = r.b /\ q.rc = "FNOSPACE" /\ i <= o - Len(s)
      BY <1>1, <2>1, <2>5, DoneFail DEF k
    <2>8. \E n \in Nat : (n = 0 \/ n <= o - Len(s)) /\ Changed(q.b, b, f, Fill(s, n))
      BY <2>1, <2>7
    <2>9. QED
      BY <2>6, <2>7, <2>8 DEF Stored, want, s, q
  <1>5. QED
    BY <1>3, <1>4 DEF Filled, s, k

\* chg does what its comment says.
LEMMA ChgIs ==
  ASSUME NEW b \in Good, NEW f \in Fields, NEW v \in Nat, NEW oc \in Int, oc >= -1
  PROVE  Stored(chg(b, f, oc, v), b, f, Chosen(b, f, oc), v)
  <1> DEFINE s == Occs(b, f)
             o == Chosen(b, f, oc)
             m == First(b, f, oc)
             want == Promised!PutAt(s, o, v)
  <1>1. /\ s \in Seq(Nat) /\ occur(b, f) = Len(s) /\ Len(s) \in Nat
        /\ o \in Nat /\ m \in Nat /\ m <= o
        /\ m = IF Len(s) <= o THEN Len(s) ELSE o
    <2>1. /\ s \in Seq(Nat) /\ occur(b, f) = Len(s) /\ Len(s) \in Nat
      BY OccsType
    <2>2. o \in Nat /\ m \in Nat /\ m <= o
      BY ChosenType
    <2>3. m = IF Len(s) <= o THEN Len(s) ELSE o
      BY <2>1 DEF First
    <2>4. QED
      BY <2>1, <2>2, <2>3
  <1>2. PICK h : Rounds(h, b, f, m, o, v) /\ chg(b, f, oc, v) = h[o + 1]
    BY ChgRounds
  <1> HIDE DEF o, m, s
  <1>3. /\ h[m] = Done(b)
        /\ \A n \in (m + 1)..o : h[n] = put(h[n - 1].b, f, n - 1, 0)
        /\ h[o + 1] = put(h[o].b, f, o, v)
    <2>1. m \in m..(o + 1) /\ o + 1 \in m..(o + 1) /\ o + 1 # m /\ (o + 1) - 1 = o
      BY <1>1
    <2>2. \A n \in (m + 1)..o : n \in m..(o + 1) /\ n # m /\ n # o + 1
      BY <1>1
    <2>3. h[m] = Done(b)
      BY <1>2, <2>1 DEF Rounds
    <2>4. h[o + 1] = put(h[o].b, f, o, v)
      BY <1>2, <2>1 DEF Rounds
    <2>5. \A n \in (m + 1)..o : h[n] = put(h[n - 1].b, f, n - 1, 0)
      BY <1>2, <2>2 DEF Rounds
    <2>6. QED
      BY <2>3, <2>4, <2>5
  <1>4. h[m].b = b /\ h[m].rc = "ok"
    BY <1>3, DoneFail
  <1>5. CASE o < Len(s)
    <2>1. m = o /\ o \in Int
      BY <1>1, <1>5
    <2>2. want = Put(s, o, v)
      BY <1>1, <1>5, PutAtIs
    <2> DEFINE q == put(b, f, o, v)
    <2> HIDE DEF want
    <2>3. /\ Fits(b, f, want) => q.rc = "ok" /\ Changed(q.b, b, f, want)
          /\ ~Fits(b, f, want) => q = Fail(b, "FNOSPACE")
      BY <2>1, <2>2, PutOccs DEF s
    <2>4. chg(b, f, oc, v) = q
      BY <1>2, <1>3, <1>4, <2>1
    <2> HIDE DEF q
    <2>5. CASE Fits(b, f, want)
      BY <2>3, <2>4, <2>5 DEF Stored, want, s, o
    <2>6. CASE ~Fits(b, f, want)
      <3>1. q.b = b /\ q.rc = "FNOSPACE"
        BY <2>3, <2>6, DoneFail
      <3>2. Changed(q.b, b, f, Fill(s, 0))
        BY <1>1, <3>1, ChangedSelf, FillNone DEF s
      <3>3. \E k \in Nat : (k = 0 \/ k <= o - Len(s)) /\ Changed(q.b, b, f, Fill(s, k))
        BY <3>2
      <3>4. QED
        BY <2>4, <2>6, <3>1, <3>3 DEF Stored, want, s, o
    <2>7. QED
      BY <2>5, <2>6
  <1>6. CASE o >= Len(s)
    <2>1. m = Len(s)
      BY <1>1, <1>6
    <2> DEFINE S == {n \in Int : Filled(h[n], b, f, n - m)}
    <2>2. m \in S
      <3>1. Changed(h[m].b, b, f, Fill(s, 0)) /\ m - m = 0 /\ m \in Int
        BY <1>1, <1>4, ChangedSelf, FillNone DEF s
      <3>2. QED
        BY <1>4, <3>1 DEF Filled, s
    <2>3. ASSUME NEW n \in (m + 1)..o, n - 1 \in S PROVE n \in S
      <3> DEFINE k == (n - 1) - m
                 j == n - 1
      <3>1. k \in Nat /\ j \in Int /\ j >= Len(s) + k /\ k + 1 = n - m /\ n \in Int
        BY <1>1, <2>1
      <3>2. Filled(h[j], b, f, k)
        BY <2>3
      <3>3. h[n] = put(h[j].b, f, j, 0)
        BY <1>3
      <3> HIDE DEF k, j
      <3>4. Filled(put(h[j].b, f, j, 0), b, f, k + 1)
        BY <3>1, <3>2, FilledNext DEF s
      <3>5. QED
        BY <3>1, <3>3, <3>4
    <2>4. m..o \subseteq S
      <3>1. m \in Int /\ o \in Int
        BY <1>1
      <3> HIDE DEF S
      <3> QED
        BY <2>2, <2>3, <3>1, Reaches
    <2>5. Filled(h[o], b, f, o - Len(s))
      <3>1. o \in m..o
        BY <1>1
      <3>2. QED
        BY <2>1, <2>4, <3>1
    <2>6. Stored(put(h[o].b, f, o, v), b, f, o, v)
      BY <1>1, <1>6, <2>5, FilledLast DEF s
    <2>7. QED
      BY <1>2, <1>3, <2>6 DEF o
  <1>7. QED
    BY <1>1, <1>5, <1>6

-----------------------------------------------------------------------------
(* Removing fields                                                         *)

\* s without its elements after a up to c.
Without(s, a, c) == SubSeq(s, 1, a) \o SubSeq(s, c + 1, Len(s))

LEMMA WithoutType ==
  ASSUME NEW S, NEW s \in Seq(S), NEW a \in 0..Len(s), NEW c \in a..Len(s)
  PROVE  /\ Without(s, a, c) \in Seq(S) /\ Len(Without(s, a, c)) = Len(s) - (c - a)
         /\ \A k \in 1..a : Without(s, a, c)[k] = s[k]
         /\ \A k \in (c + 1)..Len(s) : Without(s, a, c)[k - (c - a)] = s[k]
  <1> DEFINE u == SubSeq(s, 1, a)
             v == SubSeq(s, c + 1, Len(s))
             w == u \o v
  <1>1. u \in Seq(S) /\ Len(u) = a /\ \A k \in 1..a : u[k] = s[k]
    OBVIOUS
  <1>2. v \in Seq(S) /\ Len(v) = Len(s) - c /\ \A k \in 1..(Len(s) - c) : v[k] = s[c + k]
    OBVIOUS
  <1> HIDE DEF u, v
  <1>3. w \in Seq(S) /\ Len(w) = Len(s) - (c - a)
    <2>1. w \in Seq(S) /\ Len(w) = Len(u) + Len(v)
      BY <1>1, <1>2, ConcatProperties
    <2>2. QED
      BY <1>1, <1>2, <2>1
  <1>4. ASSUME NEW k \in 1..a PROVE w[k] = s[k]
    <2>1. k \in 1..(Len(u) + Len(v)) /\ k <= Len(u)
      BY <1>1, <1>2
    <2>2. w[k] = u[k]
      BY <1>1, <1>2, <2>1, ConcatProperties
    <2>3. QED
      BY <1>1, <2>2
  <1>5. ASSUME NEW k \in (c + 1)..Len(s) PROVE w[k - (c - a)] = s[k]
    <2> DEFINE j == k - c
    <2>1. j \in 1..(Len(s) - c) /\ c + j = k /\ k - (c - a) = Len(u) + j
      BY <1>1
    <2> HIDE DEF j
    <2>2. w[Len(u) + j] = v[j]
      BY <1>1, <1>2, <2>1
    <2>3. v[j] = s[k]
      BY <1>2, <2>1
    <2>4. QED
      BY <2>1, <2>2, <2>3
  <1>6. QED
    BY <1>3, <1>4, <1>5 DEF Without, u, v

\* Fields of the last type in use.
LastType(f) == \A g \in Fields : FldType[g] <= FldType[f]

LEMMA WithoutIs ==
  ASSUME NEW s \in Seq(Fld), Sorted(s), NEW f \in Fields,
         NEW p, NEW q, Span(s, f, p, q), NEW i \in p..q, NEW j \in i..q,
         NEW t, t = Without(s, i - 1, j - 1), NEW d, d = i - j
  PROVE  /\ t \in Seq(Fld) /\ Sorted(t) /\ Alone(s, t, i, j, d, f)
         /\ Homogeneous(s, t, i, j, d, FldType[f]) /\ Span(t, f, p, q + d)
  <1>1. f \in Nat /\ Len(s) \in Nat
    BY Fml32Assumption
  <1>2. /\ p \in 1..Len(s) + 1 /\ q \in p..Len(s) + 1 /\ p \in Int /\ q \in Int
        /\ \A k \in 1..Len(s) : /\ s[k].id < f <=> k < p
                                /\ s[k].id = f <=> k \in p..(q - 1)
                                /\ s[k].id > f <=> k >= q
    BY <1>1, SpanIs
  <1>3. /\ i \in 1..Len(s) + 1 /\ j \in i..Len(s) + 1 /\ i \in Int /\ j \in Int /\ d \in Int
        /\ i + 0 = i /\ j + d = i
    BY <1>2
  <1>4. /\ t \in Seq(Fld) /\ Len(t) = Len(s) + d
        /\ \A k \in 1..(i - 1) : t[k] = s[k]
        /\ \A k \in j..Len(s) : t[k + d] = s[k]
    <2> DEFINE a == i - 1
               c == j - 1
    <2>1. a \in 0..Len(s) /\ c \in a..Len(s) /\ c + 1 = j /\ c - a = -d
      BY <1>1, <1>3
    <2>2. t = Without(s, a, c)
      OBVIOUS
    <2> HIDE DEF a, c
    <2>3. /\ Without(s, a, c) \in Seq(Fld) /\ Len(Without(s, a, c)) = Len(s) - (c - a)
          /\ \A k \in 1..a : Without(s, a, c)[k] = s[k]
          /\ \A k \in (c + 1)..Len(s) : Without(s, a, c)[k - (c - a)] = s[k]
      BY <2>1, WithoutType
    <2>4. \A k \in j..Len(s) : k - (c - a) = k + d
      BY <1>3, <2>1
    <2>5. \A k \in j..Len(s) : t[k + d] = s[k]
      <3> TAKE k \in j..Len(s)
      <3>1. k \in (c + 1)..Len(s)
        BY <2>1
      <3>2. t[k - (c - a)] = s[k]
        BY <2>2, <2>3, <3>1
      <3>3. QED
        BY <2>4, <3>2
    <2>6. 1..a = 1..(i - 1)
      BY DEF a
    <2>7. Len(t) = Len(s) + d
      BY <1>1, <1>3, <2>1, <2>2, <2>3
    <2>8. QED
      BY <2>2, <2>3, <2>5, <2>6, <2>7
  <1>5. \A k \in 1..Len(s) : s[k].id \in Nat /\ s[k].id \in Fields
    BY FldOf
  <1>6. /\ \A k \in 1..(i - 1) : k \in 1..Len(s) /\ s[k].id <= f
        /\ \A k \in i..(j - 1) : k \in 1..Len(s) /\ s[k].id = f
        /\ \A k \in j..Len(s) : k \in 1..Len(s) /\ s[k].id >= f
    <2>1. ASSUME NEW k \in 1..(i - 1) PROVE k \in 1..Len(s) /\ s[k].id <= f
      <3>1. k \in 1..Len(s) /\ ~(k >= q)
        BY <1>1, <1>2, <1>3
      <3>2. QED
        BY <1>1, <1>2, <1>5, <3>1
    <2>2. ASSUME NEW k \in i..(j - 1) PROVE k \in 1..Len(s) /\ s[k].id = f
      <3>1. k \in 1..Len(s) /\ k \in p..(q - 1)
        BY <1>1, <1>2, <1>3
      <3>2. QED
        BY <1>2, <3>1
    <2>3. ASSUME NEW k \in j..Len(s) PROVE k \in 1..Len(s) /\ s[k].id >= f
      <3>1. k \in 1..Len(s) /\ ~(k < p)
        BY <1>1, <1>2, <1>3
      <3>2. QED
        BY <1>1, <1>2, <1>5, <3>1
    <2>4. QED
      BY <2>1, <2>2, <2>3
  <1>7. Splice(s, t, i, j, d)
    <2>1. Alike(s, t, 1, i - 1, 0)
      <3>1. \A k \in 1..(i - 1) : k + 0 = k
        BY <1>3
      <3>2. QED
        BY <1>4, <3>1 DEF Alike
    <2>2. Alike(s, t, j, Len(s), d)
      BY <1>4 DEF Alike
    <2>3. i <= j + d
      BY <1>3
    <2>4. QED
      BY <1>3, <1>4, <2>1, <2>2, <2>3 DEF Splice
  <1>8. \A k \in i..(j + d - 1) : FALSE
    BY <1>3
  <1>9. Alone(s, t, i, j, d, f)
    BY <1>6, <1>7, <1>8 DEF Alone
  <1>10. Homogeneous(s, t, i, j, d, FldType[f])
    <2>1. \A g \in Fields : /\ g \in Nat /\ FldType[g] \in Int
                            /\ g <= f => FldType[g] <= FldType[f]
                            /\ g >= f => FldType[g] >= FldType[f]
      <3>1. \A g \in Fields : g \in Nat /\ FldType[g] \in Int
        BY Fml32Assumption
      <3>2. \A g, h \in Fields : g = h \/ g < h \/ h < g
        BY <3>1
      <3>3. QED
        BY <1>1, <3>1, <3>2, Fml32Assumption
    <2>2. QED
      BY <1>5, <1>6, <1>8, <2>1 DEF Homogeneous
  <1>11. ASSUME NEW k \in 1..Len(t)
         PROVE  \/ k < i /\ k \in 1..Len(s) /\ t[k] = s[k]
                \/ k >= i /\ k - d \in j..Len(s) /\ t[k] = s[k - d]
    <2>1. CASE k < i
      <3>1. k \in 1..(i - 1) /\ k \in 1..Len(s)
        BY <1>1, <1>3, <2>1
      <3>2. QED
        BY <1>4, <2>1, <3>1
    <2>2. CASE k >= i
      <3> DEFINE m == k - d
      <3>1. m \in j..Len(s) /\ m + d = k
        <4>1. k \in Int /\ k <= Len(s) + d
          BY <1>1, <1>3, <1>4
        <4> HIDE DEF m
        <4>2. m = k - d
          BY DEF m
        <4>3. m \in Int /\ m >= j /\ m <= Len(s) /\ m + d = k
          BY <1>1, <1>3, <2>2, <4>1, <4>2
        <4>4. QED
          BY <1>1, <1>3, <4>3
      <3> HIDE DEF m
      <3>2. t[k] = s[m]
        BY <1>4, <3>1
      <3>3. QED
        BY <2>2, <3>1, <3>2 DEF m
    <2>3. QED
      BY <1>3, <2>1, <2>2
  <1>12. Span(t, f, p, q + d)
    <2>1. p \in 1..Len(t) + 1 /\ q + d \in p..Len(t) + 1
      BY <1>1, <1>2, <1>3, <1>4
    <2>2. ASSUME NEW k \in 1..Len(t)
          PROVE  (k < p <=> t[k].id < f) /\ (k < q + d <=> t[k].id <= f)
      <3>1. CASE k < i /\ k \in 1..Len(s) /\ t[k] = s[k]
        <4>1. s[k].id <= f /\ k < q + d
          <5>1. k \in 1..(i - 1)
            BY <1>3, <3>1
          <5>2. QED
            BY <1>2, <1>3, <1>6, <3>1, <5>1
        <4>2. QED
          BY <1>2, <3>1, <4>1
      <3>2. CASE k >= i /\ k - d \in j..Len(s) /\ t[k] = s[k - d]
        <4> DEFINE m == k - d
        <4>1. m \in j..Len(s) /\ m \in 1..Len(s) /\ t[k] = s[m] /\ k = m + d /\ m \in Int
          BY <1>1, <1>3, <3>2
        <4> HIDE DEF m
        <4>2. s[m].id >= f /\ s[m].id \in Nat /\ (s[m].id > f <=> m >= q)
          BY <1>2, <1>5, <1>6, <4>1
        <4>3. ~(k < p) /\ (k < q + d <=> ~(m >= q))
          <5>1. i >= p /\ p \in Int /\ q \in Int /\ k >= i /\ i \in Int /\ d \in Int
            BY <1>2, <1>3, <3>2
          <5>2. m \in Int /\ k = m + d
            BY Zenon, <4>1
          <5>3. QED
            BY <5>1, <5>2
        <4> DEFINE y == s[m].id
        <4>4. y \in Nat /\ y >= f
          BY Zenon, <4>2
        <4> HIDE DEF y
        <4>5. ~(y < f) /\ (y <= f <=> ~(y > f))
          BY <1>1, <4>4
        <4>6. QED
          BY Zenon, <4>1, <4>2, <4>3, <4>5 DEF y
      <3>3. QED
        BY <1>11, <3>1, <3>2
    <2>3. QED
      BY <2>1, <2>2 DEF Span
  <1>13. Sorted(t)
    <2>1. ASSUME NEW k \in 1..(Len(t) - 1) PROVE t[k].id <= t[k + 1].id
      <3>1. k \in 1..Len(t) /\ k + 1 \in 1..Len(t) /\ k \in Int
        BY <1>4
      <3> DEFINE Src(m) == IF m < i THEN m ELSE m - d
      <3>2. \A m \in 1..Len(t) : Src(m) \in 1..Len(s) /\ t[m] = s[Src(m)]
        <4> TAKE m \in 1..Len(t)
        <4>1. \/ m < i /\ m \in 1..Len(s) /\ t[m] = s[m]
              \/ m >= i /\ m - d \in j..Len(s) /\ t[m] = s[m - d]
          BY <1>11
        <4>2. QED
          BY <1>3, <4>1
      <3>3. Src(k) <= Src(k + 1)
        BY <1>3, <3>1
      <3>4. /\ Src(k) \in 1..Len(s) /\ t[k] = s[Src(k)]
            /\ Src(k + 1) \in 1..Len(s) /\ t[k + 1] = s[Src(k + 1)]
        BY <3>1, <3>2
      <3> HIDE DEF Src
      <3>5. QED
        BY <3>3, <3>4, SortedAll
    <2>2. QED
      BY <2>1 DEF Sorted
  <1>14. QED
    BY <1>4, <1>9, <1>10, <1>12, <1>13

\* erase moves the groups behind the one of the field, when it is the last.
LEMMA EraseIs ==
  ASSUME NEW b \in Good, NEW f \in Fields, LastType(f),
         NEW p, NEW q, Span(b.flds, f, p, q), NEW i \in p..q, NEW j \in (i + 1)..q,
         NEW t, t = Without(b.flds, i - 1, j - 1)
  PROVE  Becomes(erase(b, i, j), b, t)
  <1> DEFINE s == b.flds
             d == i - j
             r == FldType[f]
             x == IF j <= Len(s) THEN s[j] ELSE s[i]
             delta == Bytes(t) - Bytes(s)
  <1>1. /\ s \in Seq(Fld) /\ Sorted(s) /\ b.size \in Int /\ b.len \in Int /\ b.len <= b.size
        /\ f \in Nat /\ Len(s) \in Nat
    BY GoodIs, Fml32Assumption
  <1>2. /\ p \in 1..Len(s) + 1 /\ q \in p..Len(s) + 1 /\ p \in Int /\ q \in Int
        /\ \A k \in 1..Len(s) : /\ s[k].id = f <=> k \in p..(q - 1)
                                /\ s[k].id > f <=> k >= q
    BY <1>1, SpanIs
  <1>3. /\ i \in 1..Len(s) /\ i \in p..(q - 1) /\ j \in 1..Len(s) + 1 /\ j \in i..q
        /\ i \in Int /\ j \in Int /\ d \in Int /\ j + d = i
    <2>1. i \in Int /\ j \in Int /\ p <= i /\ i < j /\ j <= q
      BY <1>2
    <2>2. 1 <= p /\ q <= Len(s) + 1
      BY <1>1, <1>2
    <2>3. QED
      BY <1>1, <1>2, <2>1, <2>2
  <1>4. /\ t \in Seq(Fld) /\ Sorted(t) /\ Alone(s, t, i, j, d, f)
        /\ Homogeneous(s, t, i, j, d, r)
    BY <1>1, <1>3, WithoutIs
  <1>5. Splice(s, t, i, j, d)
    BY <1>4 DEF Alone
  <1> HIDE DEF d
  <1>6. Starts(t)[i] = Starts(s)[i] /\ Starts(t)[j + d] = Starts(s)[j] + delta
    <2>1. i \in 1..i /\ j \in j..Len(s) + 1
      BY <1>3
    <2>2. /\ \A k \in 1..i : Starts(t)[k] = Starts(s)[k]
          /\ \A k \in j..Len(s) + 1 :
               Starts(t)[k + d] = Starts(s)[k] + (Bytes(t) - Bytes(s))
      <3> HIDE DEF s
      <3> QED
        BY <1>1, <1>4, <1>5, SpliceStarts
    <2>3. QED
      BY <2>1, <2>2
  <1>7. /\ Starts(s)[i] \in Nat /\ Starts(s)[j] \in Nat /\ Bytes(t) \in Nat /\ Bytes(s) \in Nat
        /\ Bytes(SubSeq(s, i, j - 1)) = Starts(s)[j] - Starts(s)[i]
        /\ Bytes(SubSeq(s, i, j - 1)) \in Nat
    <2>1. i \in 1..Len(s) + 1 /\ j \in i..Len(s) + 1
      BY <1>1, <1>2, <1>3
    <2>2. Bytes(SubSeq(s, i, j - 1)) = Starts(s)[j] - Starts(s)[i]
      BY <1>1, <2>1, BytesBetween
    <2>3. SubSeq(s, i, j - 1) \in Seq(Fld)
      BY <1>1, <1>3
    <2>4. Bytes(SubSeq(s, i, j - 1)) \in Nat
      BY <2>3, BytesType
    <2>5. Starts(s)[i] \in Nat /\ Starts(s)[j] \in Nat
      <3>1. Starts(s) \in [1..Len(s) + 1 -> Nat]
        BY <1>1, StartsAre
      <3>2. j \in 1..Len(s) + 1
        BY <1>3
      <3>3. QED
        BY <2>1, <3>1, <3>2
    <2>6. Bytes(t) \in Nat /\ Bytes(s) \in Nat
      BY <1>1, <1>4, BytesType
    <2>7. QED
      BY <2>2, <2>4, <2>5, <2>6
  <1>8. delta = -Bytes(SubSeq(s, i, j - 1)) /\ delta \in Int /\ delta <= 0
    <2>1. Starts(s)[i] = Starts(s)[j] + delta
      BY <1>3, <1>6
    <2> DEFINE m == Starts(s)[i]
               n == Starts(s)[j]
               k == Bytes(SubSeq(s, i, j - 1))
    <2>2. m \in Int /\ n \in Int /\ delta \in Int /\ k \in Nat /\ k = n - m /\ m = n + delta
      BY <1>7, <2>1
    <2> HIDE DEF m, n, k, delta
    <2>3. delta = -k /\ delta <= 0
      BY <2>2
    <2>4. QED
      BY <2>2, <2>3 DEF k
  <1>9. FldType[x.id] = r /\ r \in Type
    <2>1. r \in Type
      BY Fml32Assumption DEF Type
    <2>2. CASE j <= Len(s)
      <3>1. j \in 1..Len(s) /\ j \in j..Len(s)
        BY <1>3, <2>2
      <3>2. s[j].id \in Fields /\ FldType[s[j].id] \in Int /\ FldType[s[j].id] <= r
        BY <1>1, <3>1, FldOf, Fml32Assumption DEF LastType
      <3>3. FldType[s[j].id] >= r
        BY <1>4, <3>1 DEF Homogeneous
      <3>4. r \in Int
        BY Fml32Assumption
      <3> HIDE DEF r
      <3>5. QED
        BY <2>1, <2>2, <3>2, <3>3, <3>4
    <2>3. CASE ~(j <= Len(s))
      <3>1. s[i].id = f
        BY <1>2, <1>3
      <3>2. QED
        BY <2>1, <2>3, <3>1
    <2>4. QED
      BY <2>2, <2>3
  <1>10. b.len + delta <= b.size
    BY <1>1, <1>8
  <1>11. Becomes(shift([b EXCEPT !.flds = t], r, delta), b, t)
    <2> HIDE DEF r
    <2>1. delta = Bytes(t) - Bytes(b.flds)
      OBVIOUS
    <2> HIDE DEF delta
    <2>2. QED
      BY <1>4, <1>5, <1>8, <1>9, <1>10, <2>1, SpliceSound
  <1>12. erase(b, i, j) = shift([b EXCEPT !.flds = t], r, delta)
    <2>1. t = SubSeq(s, 1, i - 1) \o SubSeq(s, j, Len(s))
      <3>1. (j - 1) + 1 = j
        BY <1>3
      <3>2. QED
        BY <3>1 DEF Without
    <2>2. [b EXCEPT !.flds = t]
            = [b EXCEPT !.flds = SubSeq(@, 1, i - 1) \o SubSeq(@, j, Len(@))]
      BY <2>1
    <2>3. erase(b, i, j) = shift([b EXCEPT !.flds = SubSeq(@, 1, i - 1) \o SubSeq(@, j, Len(@))],
                                 FldType[x.id], -Bytes(SubSeq(s, i, j - 1)))
      BY DEF erase
    <2> HIDE DEF delta, x, r
    <2>4. QED
      BY <1>8, <1>9, <2>2, <2>3
  <1>13. QED
    BY <1>11, <1>12

\* e is b with the occurrences s of field f, however many bytes they are.
Left(e, b, f, s) ==
  /\ e \in Good /\ e.size = b.size /\ Occs(e, f) = s
  /\ \A g \in Fields \ {f} : Occs(e, g) = Occs(b, g)
  /\ Len(e.flds) = Len(b.flds) - (Len(Occs(b, f)) - Len(s))

\* Something was done to fields f of b at place i: those before are the same,
\* and no smaller field is behind.
Behind(e, b, f, i) ==
  /\ \A k \in 1..(i - 1) : e.flds[k] = b.flds[k]
  /\ \A k \in 1..Len(e.flds) : k >= i => e.flds[k].id >= f

\* erase removes the occurrences at the places i to j - 1.
LEMMA ErasedIs ==
  ASSUME NEW b \in Good, NEW f \in Fields, LastType(f),
         NEW p, NEW q, Span(b.flds, f, p, q), NEW i \in p..q, NEW j \in (i + 1)..q,
         NEW e, e = erase(b, i, j)
  PROVE  Left(e, b, f, Without(Occs(b, f), i - p, j - p)) /\ Behind(e, b, f, i)
  <1> DEFINE s == b.flds
             t == Without(s, i - 1, j - 1)
             d == i - j
             o == Occs(b, f)
             a == i - p
             c == j - p
             w == Without(o, a, c)
  <1>1. /\ s \in Seq(Fld) /\ Sorted(s) /\ Len(s) \in Nat /\ f \in Nat
        /\ p \in 1..Len(s) + 1 /\ q \in p..Len(s) + 1 /\ p \in Int /\ q \in Int
        /\ o \in Seq(Nat) /\ Len(o) = q - p
        /\ \A k \in 1..(q - p) : o[k] = s[p + k - 1].val
    <2>1. s \in Seq(Fld) /\ Sorted(s) /\ f \in Nat
      BY GoodIs, Fml32Assumption
    <2>2. /\ p \in 1..Len(s) + 1 /\ q \in p..Len(s) + 1 /\ p \in Int /\ q \in Int
          /\ o \in Seq(Nat) /\ Len(o) = q - p /\ Len(s) \in Nat
          /\ \A k \in 1..(q - p) : o[k] = s[p + k - 1].val
      BY StretchIs DEF Stretch
    <2>3. QED
      BY <2>1, <2>2
  <1>2. i \in Int /\ j \in Int /\ j \in i..q /\ d \in Int /\ d = i - j
    BY <1>1
  <1>3. Becomes(e, b, t)
    BY EraseIs
  <1>4. e \in Good /\ e.flds = t /\ e.size = b.size
    BY <1>3 DEF Becomes
  <1>5. /\ t \in Seq(Fld) /\ Alone(s, t, i, j, d, f) /\ Span(t, f, p, q + d)
    BY <1>1, <1>2, WithoutIs
  <1>6. Alike(s, t, 1, i - 1, 0) /\ Alike(s, t, j, Len(s), d)
    BY <1>5 DEF Alone, Splice
  <1> HIDE DEF t, d
  <1>7. Span(e.flds, f, p, q + d)
    BY <1>4, <1>5
  <1>8. /\ Occs(e, f) \in Seq(Nat) /\ Len(Occs(e, f)) = (q + d) - p
        /\ \A k \in 1..((q + d) - p) : Occs(e, f)[k] = t[p + k - 1].val
    <2>0. PICK r : r = q + d
      OBVIOUS
    <2>1. Span(e.flds, f, p, r)
      BY <1>7, <2>0
    <2>2. /\ Occs(e, f) \in Seq(Nat) /\ Len(Occs(e, f)) = r - p
          /\ \A k \in 1..(r - p) : Occs(e, f)[k] = e.flds[p + k - 1].val
      <3>1. e \in Good
        BY <1>4
      <3>2. Stretch(e, f, p, r)
        BY <2>1, <3>1, StretchIs
      <3>3. QED
        BY <3>2 DEF Stretch
    <2>3. QED
      BY <1>4, <2>0, <2>2
  <1>9. a \in 0..Len(o) /\ c \in a..Len(o) /\ c - a = -d /\ a \in Int /\ c \in Int
    <2>1. i >= p /\ i <= q /\ j >= i /\ j <= q
      BY <1>1, <1>2
    <2>2. QED
      BY <1>1, <1>2, <2>1 DEF d
  <1> HIDE DEF a, c, o
  <1>10. /\ w \in Seq(Nat) /\ Len(w) = Len(o) - (c - a)
         /\ \A k \in 1..a : w[k] = o[k]
         /\ \A k \in (c + 1)..Len(o) : w[k - (c - a)] = o[k]
    <2>1. o \in Seq(Nat) /\ a \in 0..Len(o) /\ c \in a..Len(o)
      BY Zenon, <1>1, <1>9
    <2>2. QED
      BY Zenon, <2>1, WithoutType
  <1> HIDE DEF w
  <1>11. Len(w) = Len(Occs(e, f))
    <2>1. Len(w) = (q - p) - (-d)
      BY Zenon, <1>1, <1>9, <1>10
    <2>2. (q - p) - (-d) = (q + d) - p
      BY <1>1, <1>2
    <2>3. QED
      BY Zenon, <1>8, <2>1, <2>2
  <1>12. ASSUME NEW k \in 1..Len(w) PROVE w[k] = Occs(e, f)[k]
    <2>1. k \in Int /\ k \in 1..((q + d) - p) /\ Occs(e, f)[k] = t[p + k - 1].val
      BY <1>8, <1>11
    <2>2. CASE k <= a
      <3> DEFINE m == p + k - 1
      <3>1. m \in 1..(i - 1) /\ m + 0 = m /\ k \in 1..a /\ k \in 1..(q - p)
        <4>1. k \in Int /\ k >= 1 /\ k <= a /\ a = i - p
          BY <2>1, <2>2 DEF a
        <4>2. p \in Int /\ q \in Int /\ i \in Int /\ i <= q /\ p >= 1
          BY <1>1, <1>2
        <4> HIDE DEF a
        <4>3. QED
          BY <4>1, <4>2
      <3>2. Occs(e, f)[k] = t[m].val
        BY <2>1
      <3>3. o[k] = s[m].val
        BY <1>1, <3>1
      <3> HIDE DEF m
      <3>4. t[m] = s[m]
        <4>1. t[m + 0] = s[m]
          BY <1>6, <3>1 DEF Alike
        <4>2. QED
          BY <3>1, <4>1
      <3>5. w[k] = o[k]
        BY <1>10, <3>1
      <3>6. QED
        BY <3>2, <3>3, <3>4, <3>5
    <2>3. CASE ~(k <= a)
      <3> DEFINE n == k - d
                 m == p + n - 1
      <3>1. /\ n \in (c + 1)..Len(o) /\ n - (c - a) = k /\ n \in 1..(q - p)
            /\ m \in j..Len(s) /\ m + d = p + k - 1
        <4> DEFINE z == Len(o)
        <4>0. /\ a \in Int /\ c \in Int /\ d \in Int /\ z \in Int /\ c - a = -d /\ c = j - p
              /\ k \in Int /\ ~(k <= a) /\ k <= q + d - p /\ z = q - p /\ j \in Int
              /\ p \in Int /\ q \in Int /\ q - 1 <= Len(s) /\ Len(s) \in Int
          <5>1. k <= q + d - p
            BY <1>1, <1>2, <2>1
          <5>4. q - 1 <= Len(s)
            BY <1>1
          <5>2. c = j - p
            BY DEF c
          <5>3. QED
            BY <1>1, <1>2, <1>9, <2>1, <2>3, <5>1, <5>2, <5>4
        <4> HIDE DEF z
        <4>1. n - (c - a) = k /\ n \in Int /\ n > c /\ n <= z
          BY <4>0
        <4> HIDE DEF n
        <4>2. m \in Int /\ m >= j /\ m <= q - 1 /\ m + d = p + k - 1
          BY <4>0, <4>1
        <4>3. m \in j..Len(s)
          BY <4>0, <4>2
        <4>4. n \in 1..(q - p) /\ n \in (c + 1)..Len(o)
          <5>1. n \in (c + 1)..z /\ z = q - p
            BY <4>0, <4>1
          <5>2. c >= 0
            BY <1>9
          <5>3. n \in 1..(q - p)
            BY <4>0, <4>1, <5>2
          <5>4. QED
            BY <5>1, <5>3 DEF z
        <4>5. QED
          BY <4>1, <4>2, <4>3, <4>4
      <3>2. o[n] = s[m].val
        BY <1>1, <3>1
      <3> HIDE DEF m, n
      <3>3. t[m + d] = s[m]
        BY <1>6, <3>1 DEF Alike
      <3>4. w[k] = o[n]
        <4>1. w[n - (c - a)] = o[n]
          BY <1>10, <3>1
        <4>2. QED
          BY <3>1, <4>1
      <3>5. QED
        BY <2>1, <3>1, <3>2, <3>3, <3>4
    <2>4. QED
      BY <2>2, <2>3
  <1>13. Occs(e, f) = w
    BY <1>8, <1>10, <1>11, <1>12, SameSeq
  <1>14. ASSUME NEW g \in Fields \ {f} PROVE Occs(e, g) = Occs(b, g)
    <2>1. g \in Nat /\ g # f
      BY Fml32Assumption
    <2>2. e.flds \in Seq(Fld) /\ Alone(b.flds, e.flds, i, j, d, f)
      BY <1>4, <1>5
    <2>3. b.flds \in Seq(Fld) /\ Sorted(b.flds)
      BY <1>1
    <2>4. QED
      BY <1>1, <2>1, <2>2, <2>3, OthersKept
  <1>15. Len(e.flds) = Len(b.flds) - (Len(o) - Len(w))
    <2>1. Len(t) = Len(s) + d
      BY <1>5 DEF Alone, Splice
    <2>2. Len(w) = Len(o) + d
      <3> DEFINE x == Len(o)
                 y == Len(w)
      <3>1. x \in Int /\ c - a = -d /\ a \in Int /\ c \in Int /\ y = x - (c - a)
        BY <1>1, <1>9, <1>10
      <3> HIDE DEF x, y
      <3>2. y = x + d
        BY <1>2, <3>1
      <3>3. QED
        BY <3>2 DEF x, y
    <2>3. Len(o) - Len(w) = -d
      <3> DEFINE x == Len(o)
                 y == Len(w)
      <3>1. x \in Int /\ y = x + d
        BY <1>1, <2>2
      <3> HIDE DEF x, y
      <3>2. x - y = -d
        BY <1>2, <3>1
      <3>3. QED
        BY <3>2 DEF x, y
    <2>4. e.flds = t /\ b.flds = s
      BY <1>4
    <2>5. \A x \in Int : x + d = x - (-d)
      BY <1>2
    <2>6. Len(s) + d = Len(s) - (-d)
      BY <1>1, <2>5
    <2> HIDE DEF s
    <2>7. QED
      BY <2>1, <2>3, <2>4, <2>6, Zenon
  <1>16. Behind(e, b, f, i)
    <2>1. ASSUME NEW k \in 1..(i - 1) PROVE e.flds[k] = b.flds[k]
      <3>1. k + 0 = k /\ t[k + 0] = s[k]
        BY <1>6 DEF Alike
      <3>2. QED
        BY <1>4, <3>1
    <2>2. ASSUME NEW k \in 1..Len(e.flds), k >= i PROVE e.flds[k].id >= f
      <3>1. Len(t) = Len(s) + d /\ \A m \in j..Len(s) : s[m].id >= f
        BY <1>5 DEF Alone, Splice
      <3> DEFINE m == k - d
      <3>2. m \in j..Len(s) /\ m + d = k
        <4>1. k \in Int /\ k <= Len(s) + d
          BY <1>1, <1>2, <1>4, <2>2, <3>1
        <4>2. m \in Int /\ m >= j /\ m <= Len(s)
          BY <1>1, <1>2, <2>2, <4>1
        <4>3. QED
          BY <1>1, <1>2, <4>1, <4>2
      <3> HIDE DEF m
      <3>3. t[m + d] = s[m]
        BY <1>6, <3>2 DEF Alike
      <3>4. QED
        BY <1>4, <3>1, <3>2, <3>3
    <2>3. QED
      BY <2>1, <2>2 DEF Behind
  <1>17. QED
    BY <1>4, <1>13, <1>14, <1>15, <1>16 DEF Left, w, o, a, c

LEMMA LeftSelf ==
  ASSUME NEW b \in Good, NEW f \in Fields
  PROVE  Left(b, b, f, Occs(b, f))
  BY DEF Left

LEMMA DelIs ==
  ASSUME NEW b \in Good, NEW f \in Fields, LastType(f), NEW oc \in Int,
         NEW p, NEW q, Span(b.flds, f, p, q)
  PROVE  /\ oc \in 0..(Len(Occs(b, f)) - 1) =>
              /\ del(b, f, oc).rc = "ok"
              /\ Left(del(b, f, oc).b, b, f, Without(Occs(b, f), oc, oc + 1))
              /\ Behind(del(b, f, oc).b, b, f, p + oc)
         /\ oc \notin 0..(Len(Occs(b, f)) - 1) => del(b, f, oc) = Fail(b, "FNOTPRES")
  <1>1. Span(b.flds, f, p, q)
    OBVIOUS
  <1>2. Len(Occs(b, f)) = q - p /\ p \in Int /\ q \in Int
    BY <1>1, StretchIs DEF Stretch
  <1> DEFINE i == where(b, f, oc)
             j == i + 1
  <1>3. Holds(b, i, f) <=> oc \in 0..(q - p - 1)
    BY <1>1, HoldsIs
  <1>4. i = Found(b.flds, f, oc, p, q)
    BY <1>1, WhereIs
  <1> HIDE DEF i
  <1>5. CASE oc \in 0..(q - p - 1)
    <2> DEFINE e == erase(b, i, j)
    <2>1. i = p + oc
      BY <1>4, <1>5 DEF Found
    <2>2. i \in p..q /\ j \in (i + 1)..q /\ i - p = oc /\ j - p = oc + 1
      BY <1>2, <1>5, <2>1
    <2>3. del(b, f, oc) = Done(e)
      BY <1>3, <1>5 DEF del, i
    <2> HIDE DEF j
    <2>4. Left(e, b, f, Without(Occs(b, f), i - p, j - p)) /\ Behind(e, b, f, i)
      BY <1>1, <2>2, ErasedIs
    <2> HIDE DEF e
    <2>5. Left(e, b, f, Without(Occs(b, f), oc, oc + 1))
      BY <2>2, <2>4
    <2>6. del(b, f, oc).rc = "ok" /\ del(b, f, oc).b = e
      BY <2>3, DoneFail
    <2>7. QED
      BY <1>2, <1>5, <2>1, <2>4, <2>5, <2>6
  <1>6. CASE oc \notin 0..(q - p - 1)
    BY <1>2, <1>3, <1>6 DEF del, i
  <1>7. QED
    BY <1>5, <1>6

LEMMA WithoutAll ==
  ASSUME NEW s \in Seq(Nat)
  PROVE  Without(s, 0, Len(s)) = <<>>
  <1> DEFINE w == Without(s, 0, Len(s))
             c == Len(s)
             a == 0
  <1>1. a \in 0..Len(s) /\ c \in a..Len(s) /\ Len(s) - (c - a) = 0
    OBVIOUS
  <1> HIDE DEF a, c
  <1>2. Without(s, a, c) \in Seq(Nat) /\ Len(Without(s, a, c)) = Len(s) - (c - a)
    BY Zenon, <1>1, WithoutType
  <1>3. w \in Seq(Nat) /\ Len(w) = 0
    BY <1>1, <1>2 DEF a, c
  <1> HIDE DEF w
  <1>4. w = <<>>
    BY <1>3
  <1>5. QED
    BY <1>4 DEF w

LEMMA WithoutOne ==
  ASSUME NEW s \in Seq(Nat), NEW n \in Nat, n < Len(s)
  PROVE  /\ Without(s, n, n + 1) \in Seq(Nat) /\ Len(Without(s, n, n + 1)) = Len(s) - 1
         /\ Without(s, n, n + 1) = RemoveAt(s, n + 1)
  <1> DEFINE c == n + 1
  <1>1. n \in 0..Len(s) /\ c \in n..Len(s) /\ Len(s) - (c - n) = Len(s) - 1
    OBVIOUS
  <1> HIDE DEF c
  <1>2. Without(s, n, c) \in Seq(Nat) /\ Len(Without(s, n, c)) = Len(s) - (c - n)
    BY <1>1, WithoutType
  <1>3. n = (n + 1) - 1
    OBVIOUS
  <1>4. Without(s, n, n + 1) = RemoveAt(s, n + 1)
    BY <1>3 DEF Without, RemoveAt
  <1>5. QED
    BY Zenon, <1>1, <1>2, <1>4 DEF c

LEMMA DelallIs ==
  ASSUME NEW b \in Good, NEW f \in Fields, LastType(f),
         NEW p, NEW q, Span(b.flds, f, p, q)
  PROVE  /\ Occs(b, f) # <<>> =>
              /\ delall(b, f).rc = "ok"
              /\ Left(delall(b, f).b, b, f, <<>>) /\ Behind(delall(b, f).b, b, f, p)
         /\ Occs(b, f) = <<>> => delall(b, f) = Fail(b, "FNOTPRES")
  <1>1. Span(b.flds, f, p, q)
    OBVIOUS
  <1>2. /\ Len(Occs(b, f)) = q - p /\ p \in Int /\ q \in Int /\ p <= q
        /\ Occs(b, f) \in Seq(Nat)
    BY <1>1, StretchIs DEF Stretch
  <1> DEFINE i == where(b, f, 0)
             j == i + Cardinality(Run(b, i, f))
  <1>3. Holds(b, i, f) <=> p < q
    <2> DEFINE oc == 0
    <2>1. oc \in Int /\ oc = 0
      OBVIOUS
    <2> HIDE DEF oc
    <2>2. Holds(b, where(b, f, oc), f) <=> oc \in 0..(q - p - 1)
      BY <1>1, <2>1, HoldsIs
    <2>3. oc \in 0..(q - p - 1) <=> p < q
      BY <1>2, <2>1
    <2>4. QED
      BY <2>1, <2>2, <2>3
  <1>4. Run(b, i, f) = p..(q - 1) /\ (p < q => i = p)
    BY <1>1, RunIs
  <1> HIDE DEF i
  <1>5. CASE p < q
    <2> DEFINE e == erase(b, i, j)
    <2>1. Cardinality(Run(b, i, f)) = q - p
      <3>1. (q - 1) - p + 1 = q - p
        BY <1>2
      <3>2. Run(b, i, f) = p..(q - 1)
        BY <1>4
      <3>3. occur(b, f) = q - p
        BY <1>1, RunIs
      <3>4. occur(b, f) = Cardinality(Run(b, i, f))
        BY DEF occur, i
      <3>5. QED
        BY <3>3, <3>4
    <2>2. i \in p..q /\ j \in (i + 1)..q /\ i - p = 0 /\ j - p = Len(Occs(b, f))
      BY <1>2, <1>4, <1>5, <2>1
    <2>3. delall(b, f) = Done(e)
      BY <1>3, <1>5 DEF delall, i
    <2> HIDE DEF j
    <2>4. Left(e, b, f, Without(Occs(b, f), i - p, j - p)) /\ Behind(e, b, f, i)
      BY <1>1, <2>2, ErasedIs
    <2> HIDE DEF e
    <2>5. Left(e, b, f, <<>>)
      BY <1>2, <2>2, <2>4, WithoutAll
    <2>6. delall(b, f).rc = "ok" /\ delall(b, f).b = e
      BY <2>3, DoneFail
    <2>7. Occs(b, f) # <<>>
      BY <1>2, <1>5
    <2>8. i = p
      BY <1>4, <1>5
    <2>9. QED
      BY <2>4, <2>5, <2>6, <2>7, <2>8
  <1>6. CASE ~(p < q)
    <2>1. Occs(b, f) = <<>>
      BY <1>2, <1>6
    <2>2. QED
      BY <1>3, <1>6, <2>1 DEF delall, i
  <1>7. QED
    BY <1>5, <1>6

-----------------------------------------------------------------------------
(* Going over the fields of a buffer                                       *)

\* The number of fields g before place i.
Before(b, i, g) == Cardinality({k \in 1..(i - 1) : b.flds[k].id = g})

LEMMA BeforeIs ==
  ASSUME NEW b \in Good, NEW g \in Fields, NEW p, NEW q, Span(b.flds, g, p, q),
         NEW i \in 1..Len(b.flds) + 1
  PROVE  Before(b, i, g) = IF i <= p THEN 0 ELSE IF i <= q THEN i - p ELSE q - p
  <1> DEFINE m == IF i <= q THEN i - 1 ELSE q - 1
             S == {k \in 1..(i - 1) : b.flds[k].id = g}
  <1>1. /\ p \in 1..Len(b.flds) + 1 /\ q \in p..Len(b.flds) + 1 /\ p \in Int /\ q \in Int
        /\ \A k \in 1..Len(b.flds) : b.flds[k].id = g <=> k \in p..(q - 1)
        /\ Len(b.flds) \in Nat
    <2>1. Stretch(b, g, p, q)
      BY Zenon, StretchIs
    <2>2. QED
      BY <2>1 DEF Stretch
  <1>2. S = p..m
    <2>1. \A k \in 1..(i - 1) : k \in 1..Len(b.flds)
      BY <1>1
    <2>2. S = {k \in 1..(i - 1) : k \in p..(q - 1)}
      BY <1>1, <2>1
    <2>3. \A k : k \in 1..(i - 1) /\ k \in p..(q - 1) <=> k \in p..m
      BY <1>1
    <2>4. QED
      BY <2>2, <2>3
  <1>3. m \in Int
    BY <1>1
  <1> HIDE DEF S
  <1>4. Cardinality(p..m) = IF m >= p THEN m - p + 1 ELSE 0
    <2> HIDE DEF m
    <2>1. CASE m >= p
      BY <1>1, <1>3, <2>1, FS_Interval
    <2>2. CASE ~(m >= p)
      <3>1. p..m = {}
        BY <1>1, <1>3, <2>2
      <3>2. QED
        BY <2>2, <3>1, FS_EmptySet
    <2>3. QED
      BY <2>1, <2>2
  <1>5. Before(b, i, g) = Cardinality(p..m)
    BY <1>2 DEF Before, S
  <1>6. QED
    BY <1>1, <1>4, <1>5

LEMMA BeforeType ==
  ASSUME NEW b \in Good, NEW g \in Fields
  PROVE  /\ \A i \in 1..Len(b.flds) + 1 :
              Before(b, i, g) \in Nat /\ Before(b, i, g) <= Len(Occs(b, g))
         /\ Before(b, 1, g) = 0
         /\ Before(b, Len(b.flds) + 1, g) = Len(Occs(b, g))
  <1>1. PICK p, q : Span(b.flds, g, p, q)
    BY SpanOf
  <1>2. /\ p \in 1..Len(b.flds) + 1 /\ q \in p..Len(b.flds) + 1 /\ p \in Int /\ q \in Int
        /\ Len(Occs(b, g)) = q - p /\ Len(b.flds) \in Nat
    BY <1>1, StretchIs DEF Stretch
  <1>3. \A i \in 1..Len(b.flds) + 1 :
          Before(b, i, g) = IF i <= p THEN 0 ELSE IF i <= q THEN i - p ELSE q - p
    BY <1>1, BeforeIs
  <1>4. \A i \in 1..Len(b.flds) + 1 : Before(b, i, g) \in Nat /\ Before(b, i, g) <= q - p
    <2> TAKE i \in 1..Len(b.flds) + 1
    <2>1. Before(b, i, g) = IF i <= p THEN 0 ELSE IF i <= q THEN i - p ELSE q - p
      BY <1>3
    <2>2. QED
      BY <1>2, <2>1
  <1>5. Before(b, 1, g) = 0
    <2>1. 1 \in 1..Len(b.flds) + 1 /\ 1 <= p
      BY <1>2
    <2>2. QED
      BY <1>3, <2>1
  <1>6. Before(b, Len(b.flds) + 1, g) = q - p
    <2> DEFINE n == Len(b.flds) + 1
    <2>1. n \in 1..Len(b.flds) + 1 /\ q <= n /\ n \in Int
      BY <1>2
    <2>2. Before(b, n, g) = IF n <= p THEN 0 ELSE IF n <= q THEN n - p ELSE q - p
      BY <1>3, <2>1
    <2> HIDE DEF n
    <2>3. Before(b, n, g) = q - p
      BY <1>2, <2>1, <2>2
    <2>4. QED
      BY <2>3 DEF n
  <1>7. QED
    BY <1>2, <1>4, <1>5, <1>6

\* The field at place i is occurrence Before(b, i, f), and counts from then on.
LEMMA BeforeAt ==
  ASSUME NEW b \in Good, NEW i \in 1..Len(b.flds), NEW f \in Fields, b.flds[i].id = f
  PROVE  /\ Before(b, i, f) \in 0..(Len(Occs(b, f)) - 1)
         /\ Occs(b, f)[Before(b, i, f) + 1] = b.flds[i].val
         /\ Before(b, i + 1, f) = Before(b, i, f) + 1
         /\ \A p, q : Span(b.flds, f, p, q) => Before(b, i, f) = i - p
  <1>1. ASSUME NEW p, NEW q, Span(b.flds, f, p, q)
        PROVE  /\ Before(b, i, f) = i - p
               /\ Before(b, i, f) \in 0..(Len(Occs(b, f)) - 1)
               /\ Occs(b, f)[Before(b, i, f) + 1] = b.flds[i].val
               /\ Before(b, i + 1, f) = Before(b, i, f) + 1
    <2>1. /\ p \in 1..Len(b.flds) + 1 /\ q \in p..Len(b.flds) + 1 /\ p \in Int /\ q \in Int
          /\ \A k \in 1..Len(b.flds) : b.flds[k].id = f <=> k \in p..(q - 1)
          /\ Len(Occs(b, f)) = q - p /\ Len(b.flds) \in Nat
          /\ \A k \in 1..(q - p) : Occs(b, f)[k] = b.flds[p + k - 1].val
      <3>1. Stretch(b, f, p, q)
        BY <1>1, StretchIs
      <3>2. QED
        BY <3>1 DEF Stretch
    <2> DEFINE j == i + 1
    <2>2. i \in p..(q - 1) /\ i \in 1..Len(b.flds) + 1 /\ j \in 1..Len(b.flds) + 1
      BY <2>1
    <2>3. Before(b, i, f) = IF i <= p THEN 0 ELSE IF i <= q THEN i - p ELSE q - p
      BY <1>1, <2>2, BeforeIs
    <2>4. Before(b, j, f) = IF j <= p THEN 0 ELSE IF j <= q THEN j - p ELSE q - p
      <3> HIDE DEF j
      <3> QED
        BY <1>1, <2>2, BeforeIs
    <2>5. Before(b, i, f) = i - p /\ Before(b, j, f) = (i - p) + 1
      BY <2>1, <2>2, <2>3, <2>4
    <2> DEFINE k == i - p + 1
    <2>6. k \in 1..(q - p) /\ p + k - 1 = i
      BY <2>1, <2>2
    <2> HIDE DEF k
    <2>7. Occs(b, f)[k] = b.flds[i].val
      BY <2>1, <2>6
    <2>8. Before(b, i, f) \in 0..(Len(Occs(b, f)) - 1)
      BY <2>1, <2>2, <2>5
    <2>9. QED
      BY <2>5, <2>7, <2>8 DEF k
  <1>2. PICK p, q : Span(b.flds, f, p, q)
    BY SpanOf
  <1>3. QED
    BY <1>1, <1>2

LEMMA BeforeOther ==
  ASSUME NEW b, NEW i \in Nat \ {0}, NEW g, b.flds[i].id # g
  PROVE  Before(b, i + 1, g) = Before(b, i, g)
  <1>1. \A k : k \in 1..((i + 1) - 1) <=> k \in 1..(i - 1) \/ k = i
    OBVIOUS
  <1>2. {k \in 1..((i + 1) - 1) : b.flds[k].id = g} = {k \in 1..(i - 1) : b.flds[k].id = g}
    BY <1>1
  <1>3. QED
    BY <1>2 DEF Before

LEMMA BeforeNone ==
  ASSUME NEW b, NEW i, NEW g, \A k \in 1..(i - 1) : b.flds[k].id # g
  PROVE  Before(b, i, g) = 0
  <1>1. {k \in 1..(i - 1) : b.flds[k].id = g} = {}
    OBVIOUS
  <1>2. QED
    BY <1>1, FS_EmptySet DEF Before

\* What is done at a later place does not count.
LEMMA BeforeSame ==
  ASSUME NEW b, NEW e, NEW f, NEW n \in Int, Behind(e, b, f, n), NEW i \in 1..n, NEW g
  PROVE  Before(e, i, g) = Before(b, i, g)
  <1>1. \A k \in 1..(i - 1) : e.flds[k] = b.flds[k]
    BY DEF Behind
  <1>2. {k \in 1..(i - 1) : e.flds[k].id = g} = {k \in 1..(i - 1) : b.flds[k].id = g}
    BY <1>1
  <1>3. QED
    BY <1>2 DEF Before

\* A field larger than all in front of it is the first of its kind.
LEMMA BeforeNew ==
  ASSUME NEW b \in Good, NEW i \in 1..Len(b.flds), NEW f \in Nat, f < b.flds[i].id,
         NEW j \in 1..i, \A k \in 1..(j - 1) : b.flds[k].id <= f
  PROVE  Before(b, j, b.flds[i].id) = 0
  <1> DEFINE g == b.flds[i].id
  <1>1. b.flds \in Seq(Fld) /\ Len(b.flds) \in Nat
    BY GoodIs
  <1>2. \A k \in 1..Len(b.flds) : b.flds[k].id \in Nat
    BY <1>1, FldOf
  <1>3. \A k \in 1..(j - 1) : b.flds[k].id # g
    <2> TAKE k \in 1..(j - 1)
    <2>1. k \in 1..Len(b.flds) /\ b.flds[k].id <= f
      BY <1>1
    <2>2. b.flds[k].id \in Nat /\ g \in Nat
      BY <1>2, <2>1
    <2>3. f < g
      OBVIOUS
    <2> HIDE DEF g
    <2>4. QED
      BY <2>1, <2>2, <2>3
  <1> HIDE DEF g
  <1>4. Before(b, j, g) = 0
    BY <1>3, BeforeNone
  <1>5. QED
    BY <1>4 DEF g

\* Rounds that stay in S.
Walks(h, n, x, R) == h[0] = x /\ \A k \in 1..n : h[k] = R[h[k - 1]]

LEMMA Walk ==
  ASSUME NEW n \in Nat, NEW S, NEW x \in S, NEW R \in [S -> S]
  PROVE  \E h \in [0..n -> S] : Walks(h, n, x, R)
  <1> USE DEF Walks
  <1> DEFINE a == 0
             H == [k \in 0..n |-> R]
  <1>1. a \in Int /\ n \in Int /\ a <= n /\ H \in [a..n -> [S -> S]]
    OBVIOUS
  <1>2. \A k \in a..n : H[k] = R
    OBVIOUS
  <1> HIDE DEF H, a
  <1>3. PICK h \in [a..n -> S] : Solves(h, a, n, x, H)
    BY <1>1, Solvable
  <1>4. \A k \in a..n : h[k] = IF k = a THEN x ELSE H[k][h[k - 1]]
    BY <1>3 DEF Solves
  <1>5. h[0] = x
    BY <1>1, <1>4 DEF a
  <1>6. \A k \in 1..n : h[k] = R[h[k - 1]]
    BY <1>2, <1>4 DEF a
  <1>7. QED
    BY <1>3, <1>5, <1>6 DEF a

\* What has to shrink in every round is gone after as many rounds.
LEMMA Shrinks ==
  ASSUME NEW n \in Nat, NEW m \in [0..n -> Nat], m[0] <= n,
         \A k \in 1..n : m[k] < m[k - 1] \/ m[k] = 0
  PROVE  m[n] = 0
  <1> DEFINE S == {k \in Int : k \in 0..n /\ m[k] <= n - k}
             a == 0
  <1>1. a \in S /\ a \in Int /\ n \in Int /\ a <= n
    OBVIOUS
  <1>2. ASSUME NEW k \in (a + 1)..n, k - 1 \in S PROVE k \in S
    <2> DEFINE y == m[k]
               z == m[k - 1]
    <2>1. k \in 1..n /\ k \in 0..n /\ k \in Int /\ k - 1 \in 0..n /\ y \in Nat /\ z \in Nat
      OBVIOUS
    <2>2. z <= n - (k - 1)
      BY <1>2
    <2>3. y < z \/ y = 0
      BY <2>1
    <2> HIDE DEF y, z
    <2>4. y <= n - k
      BY <2>1, <2>2, <2>3
    <2>5. QED
      BY <2>1, <2>4 DEF y
  <1> HIDE DEF S, a
  <1>3. a..n \subseteq S
    BY <1>1, <1>2, Reaches
  <1>4. m[n] <= n - n /\ m[n] \in Nat
    <2>1. n \in S
      BY <1>1, <1>3
    <2>2. QED
      BY <2>1 DEF S
  <1>5. QED
    BY <1>4

\* The state of iterate, and what a round makes of it.
At(b) == [b |-> b, it |-> 1, prev |-> 0, oc |-> 0]
Ended(w) == w.it > Len(w.b.flds)
Rest(w) == Len(w.b.flds) + 1 - w.it
Round(w, r) == [b |-> r.b, it |-> w.it + r.step, prev |-> w.b.flds[w.it].id,
                oc |-> iterate_oc(w, w.b.flds[w.it].id)]
Outcome(w) == IF Ended(w) THEN Done(w.b) ELSE Fail(w.b, "never")

State == {w \in [b : Good, it : Nat, prev : Nat, oc : Nat] : w.it \in 1..Len(w.b.flds) + 1}

LEMMA StateIs ==
  ASSUME NEW w \in State
  PROVE  /\ w.b \in Good /\ w.it \in 1..Len(w.b.flds) + 1 /\ w.it \in Nat /\ w.prev \in Nat
         /\ w.oc \in Nat /\ Len(w.b.flds) \in Nat /\ Rest(w) \in Nat
         /\ Ended(w) <=> Rest(w) = 0
         /\ Ended(w) <=> w.it = Len(w.b.flds) + 1
         /\ ~Ended(w) => /\ w.it \in 1..Len(w.b.flds) /\ w.b.flds[w.it].id \in Fields
                         /\ w.b.flds[w.it].id \in Nat
                         /\ iterate_oc(w, w.b.flds[w.it].id) \in Nat
  <1>1. /\ w.b \in Good /\ w.it \in 1..Len(w.b.flds) + 1 /\ w.it \in Nat /\ w.prev \in Nat
        /\ w.oc \in Nat
    BY DEF State
  <1>2. w.b.flds \in Seq(Fld) /\ Len(w.b.flds) \in Nat
    BY <1>1, GoodIs
  <1>3. /\ Rest(w) \in Nat
        /\ Ended(w) <=> Rest(w) = 0
        /\ Ended(w) <=> w.it = Len(w.b.flds) + 1
    BY <1>1, <1>2 DEF Rest, Ended
  <1>4. ASSUME ~Ended(w)
        PROVE  /\ w.it \in 1..Len(w.b.flds) /\ w.b.flds[w.it].id \in Fields
               /\ w.b.flds[w.it].id \in Nat
               /\ iterate_oc(w, w.b.flds[w.it].id) \in Nat
    <2>1. w.it \in 1..Len(w.b.flds)
      BY <1>1, <1>2, <1>4 DEF Ended
    <2>2. w.b.flds[w.it].id \in Fields /\ w.b.flds[w.it].id \in Nat
      BY <1>2, <2>1, FldOf
    <2>3. iterate_oc(w, w.b.flds[w.it].id) \in Nat
      BY <1>1 DEF iterate_oc
    <2>4. QED
      BY <2>1, <2>2, <2>3
  <1>5. QED
    BY <1>1, <1>2, <1>3, <1>4

LEMMA AtIs ==
  ASSUME NEW b \in Good
  PROVE  At(b) \in State /\ Rest(At(b)) = Len(b.flds)
  <1>1. b.flds \in Seq(Fld) /\ Len(b.flds) \in Nat
    BY GoodIs
  <1>2. /\ At(b).b = b /\ At(b).it = 1 /\ At(b).prev = 0 /\ At(b).oc = 0
        /\ At(b) \in [b : Good, it : Nat, prev : Nat, oc : Nat]
    BY DEF At
  <1>3. QED
    BY <1>1, <1>2 DEF State, Rest

\* Rounds R from b on stay in S, and stop at the end.
Steady(b, S, R) ==
  /\ S \in SUBSET State /\ At(b) \in S /\ R \in [S -> S]
  /\ \A w \in S : Ended(w) => R[w] = w
Shrinking(S, R) == \A w \in S : ~Ended(w) => Rest(R[w]) < Rest(w)

Follows(h, b, S, R) ==
  /\ h[0] = At(b)
  /\ \A k \in 1..Len(b.flds) : h[k - 1] \in S => h[k] = R[h[k - 1]]

LEMMA Runs ==
  ASSUME NEW b \in Good, NEW S, NEW R, Steady(b, S, R)
  PROVE  /\ \E h \in [0..Len(b.flds) -> S] : Follows(h, b, S, R)
         /\ \A h : Follows(h, b, S, R) =>
              /\ h[Len(b.flds)] \in S
              /\ Shrinking(S, R) => Ended(h[Len(b.flds)])
  <1> DEFINE n == Len(b.flds)
             x == At(b)
  <1>1. n \in Nat /\ Rest(x) = n
    BY GoodIs, AtIs
  <1>2. /\ R \in [S -> S]
        /\ \A w \in S : w \in State /\ R[w] \in S /\ (Ended(w) => R[w] = w)
    BY DEF Steady
  <1>3. x \in S
    BY DEF Steady
  <1> HIDE DEF x, n
  <1>4. \E h \in [0..Len(b.flds) -> S] : Follows(h, b, S, R)
    <2>1. n \in Nat /\ R \in [S -> S]
      BY <1>1, <1>2
    <2>2. PICK h \in [0..n -> S] : Walks(h, n, x, R)
      BY <2>1, <1>3, Walk
    <2> USE DEF Walks
    <2>3. h[0] = At(b)
      BY <2>2 DEF x
    <2>4. \A k \in 1..Len(b.flds) : h[k - 1] \in S => h[k] = R[h[k - 1]]
      BY <2>2 DEF n
    <2>5. h \in [0..Len(b.flds) -> S] /\ Follows(h, b, S, R)
      BY <2>2, <2>3, <2>4 DEF Follows, n
    <2>6. QED
      BY <2>5
  <1>5. ASSUME NEW h, Follows(h, b, S, R)
        PROVE  h[n] \in S /\ (Shrinking(S, R) => Ended(h[n]))
    <2>1. h[0] = x /\ \A k \in 1..n : h[k - 1] \in S => h[k] = R[h[k - 1]]
      BY <1>5 DEF Follows, n, x
    <2> DEFINE U == {k \in Int : h[k] \in S}
               a == 0
    <2>2. a \in U /\ a \in Int /\ n \in Int
      BY <1>1, <1>3, <2>1
    <2>3. ASSUME NEW k \in (a + 1)..n, k - 1 \in U
          PROVE  k \in U /\ h[k] = R[h[k - 1]]
      <3>1. k \in 1..n /\ k \in Int
        OBVIOUS
      <3>2. h[k - 1] \in S
        BY <2>3
      <3>3. h[k] = R[h[k - 1]]
        BY <2>1, <3>1, <3>2
      <3>4. QED
        BY <1>2, <3>1, <3>2, <3>3
    <2> HIDE DEF U
    <2>4. a..n \subseteq U
      <3> HIDE DEF a
      <3> QED
        BY <2>2, <2>3, Reaches
    <2>5. \A k \in 0..n : k \in U /\ h[k] \in S /\ h[k] \in State
      BY <1>2, <2>4 DEF U
    <2>6. n \in 0..n /\ h[n] \in S
      BY <1>1, <2>5
    <2>7. ASSUME Shrinking(S, R) PROVE Ended(h[n])
      <3> DEFINE m == [k \in 0..n |-> Rest(h[k])]
      <3>1. m \in [0..n -> Nat]
        BY <2>5, StateIs
      <3>2. m[0] <= n
        BY <1>1, <2>1
      <3>3. \A k \in 1..n : m[k] < m[k - 1] \/ m[k] = 0
        <4> TAKE k \in 1..n
        <4>1. k - 1 \in 0..n /\ k \in 0..n /\ k \in (a + 1)..n
          BY <1>1
        <4> DEFINE w == h[k - 1]
        <4>2. w \in S /\ w \in State /\ m[k] = Rest(h[k]) /\ m[k - 1] = Rest(w)
          BY <2>5, <4>1
        <4>3. h[k] = R[w]
          BY <2>3, <2>5, <4>1
        <4> HIDE DEF w, m
        <4>4. CASE Ended(w)
          BY <1>2, <4>2, <4>3, <4>4, StateIs
        <4>5. CASE ~Ended(w)
          BY <2>7, <4>2, <4>3, <4>5 DEF Shrinking
        <4>6. QED
          BY <4>4, <4>5
      <3>4. m[n] = 0
        <4> HIDE DEF m
        <4> QED
          BY <1>1, <3>1, <3>2, <3>3, Shrinks
      <3>5. QED
        BY <2>5, <2>6, <3>4, StateIs
    <2>8. QED
      BY <2>6, <2>7
  <1>6. QED
    BY <1>4, <1>5 DEF n

-----------------------------------------------------------------------------
(* Fdelete32 and Fproj32                                                   *)

RemoveRound(w, T) ==
  Round(w, IF w.b.flds[w.it].id \in T
             THEN [b |-> delall(w.b, w.b.flds[w.it].id).b, step |-> 0]
             ELSE [b |-> w.b, step |-> 1])

\* iterate has gone through a part of b and removed the fields of T from it.
Removing(b, T) ==
  {w \in State : /\ w.b.size = b.size
                 /\ \A k \in 1..(w.it - 1) : w.b.flds[k].id \notin T
                 /\ \A g \in Fields \ T : Occs(w.b, g) = Occs(b, g)}

LEMMA RoundIs ==
  ASSUME NEW w \in State, ~Ended(w), NEW e \in Good, NEW n \in Nat,
         w.it + n \in 1..Len(e.flds) + 1, NEW r, r = [b |-> e, step |-> n]
  PROVE  /\ Round(w, r) \in State /\ Round(w, r).b = e /\ Round(w, r).it = w.it + n
         /\ Round(w, r).prev = w.b.flds[w.it].id
         /\ Round(w, r).oc = iterate_oc(w, w.b.flds[w.it].id)
         /\ Rest(Round(w, r)) = Len(e.flds) + 1 - (w.it + n)
  <1>1. /\ w.it \in Nat /\ w.b.flds[w.it].id \in Nat
        /\ iterate_oc(w, w.b.flds[w.it].id) \in Nat
    BY StateIs
  <1> DEFINE v == Round(w, r)
             i == w.it + n
             f == w.b.flds[w.it].id
             oc == iterate_oc(w, f)
  <1>2. v = [b |-> e, it |-> i, prev |-> f, oc |-> oc] /\ i \in Nat
    BY <1>1 DEF Round
  <1> HIDE DEF v, f, oc, i
  <1>3. v.b = e /\ v.it = i /\ v.prev = f /\ v.oc = oc
    BY <1>2
  <1>4. v \in [b : Good, it : Nat, prev : Nat, oc : Nat]
    BY <1>1, <1>2 DEF f, oc
  <1>5. v \in State
    BY <1>3, <1>4 DEF State, i
  <1>6. Rest(v) = Len(e.flds) + 1 - i
    BY <1>3 DEF Rest
  <1>7. QED
    BY <1>3, <1>5, <1>6 DEF v, f, oc, i

LEMMA RemoveStep ==
  ASSUME NEW b \in Good, NEW T \in SUBSET Fields, \A f \in T : LastType(f),
         NEW w \in Removing(b, T), ~Ended(w)
  PROVE  /\ RemoveRound(w, T) \in Removing(b, T)
         /\ Rest(RemoveRound(w, T)) < Rest(w)
  <1> DEFINE c == w.b
             i == w.it
             f == c.flds[i].id
             v == RemoveRound(w, T)
  <1>1. /\ w \in State /\ c.size = b.size
        /\ \A k \in 1..(i - 1) : c.flds[k].id \notin T
        /\ \A g \in Fields \ T : Occs(c, g) = Occs(b, g)
    BY DEF Removing
  <1>2. /\ c \in Good /\ i \in 1..Len(c.flds) /\ f \in Fields /\ Len(c.flds) \in Nat
        /\ i \in Nat /\ f \in Nat /\ Rest(w) = Len(c.flds) + 1 - i
    BY <1>1, StateIs DEF Rest
  <1>3. CASE f \in T
    <2> DEFINE e == delall(c, f).b
               r == [b |-> e, step |-> 0]
    <2>1. v = Round(w, r)
      BY <1>3 DEF RemoveRound
    <2>2. PICK p, q : Span(c.flds, f, p, q)
      BY <1>2, SpanOf
    <2>3. Stretch(c, f, p, q)
      BY <1>2, <2>2, StretchIs
    <2>4. /\ p \in Int /\ q \in Int /\ p >= 1 /\ q <= Len(c.flds) + 1
          /\ Len(Occs(c, f)) = q - p /\ Occs(c, f) \in Seq(Nat)
          /\ \A k \in 1..Len(c.flds) : c.flds[k].id = f <=> k \in p..(q - 1)
      <3> HIDE DEF c, f
      <3>1. /\ p \in 1..Len(c.flds) + 1 /\ q \in p..Len(c.flds) + 1
            /\ p \in Int /\ q \in Int
            /\ \A k \in 1..Len(c.flds) : c.flds[k].id = f <=> k \in p..(q - 1)
            /\ Occs(c, f) \in Seq(Nat) /\ Len(Occs(c, f)) = q - p
        BY <2>3 DEF Stretch
      <3>2. QED
        BY <1>2, <3>1
    <2>5. i \in p..(q - 1)
      BY <1>2, <2>4
    <2>6. p = i
      <3>1. p \in p..(q - 1) /\ p \in 1..Len(c.flds)
        BY <1>2, <2>4, <2>5
      <3>2. c.flds[p].id = f
        BY <2>4, <3>1
      <3>3. p \notin 1..(i - 1)
        BY <1>1, <1>3, <3>2
      <3>4. QED
        BY <1>2, <2>4, <2>5, <3>3
    <2>7. Occs(c, f) # <<>>
      BY <2>4, <2>5
    <2>8. Left(e, c, f, <<>>) /\ Behind(e, c, f, p)
      <3>1. LastType(f)
        BY <1>3
      <3> HIDE DEF c, f
      <3>2. QED
        BY <1>2, <2>2, <2>7, <3>1, DelallIs
    <2> HIDE DEF e
    <2>9. /\ e \in Good /\ e.size = c.size /\ Occs(e, f) = <<>>
          /\ \A g \in Fields \ {f} : Occs(e, g) = Occs(c, g)
          /\ Len(e.flds) = Len(c.flds) - (q - p)
      <3>1. Len(<<>>) = 0 /\ q - p = (q - p) - 0
        BY <2>4
      <3>2. QED
        BY <2>4, <2>8, <3>1 DEF Left
    <2>10. \A k \in 1..(i - 1) : e.flds[k] = c.flds[k]
      BY <2>6, <2>8 DEF Behind
    <2> DEFINE n == 0
    <2>11. n \in Nat /\ i + n \in 1..Len(e.flds) + 1 /\ i + n = i /\ r = [b |-> e, step |-> n]
      <3>1. Len(e.flds) \in Int /\ i - 1 <= Len(e.flds)
        <4> HIDE DEF c, i, f
        <4>1. q - p <= Len(c.flds) + 1 - i
          BY <1>2, <2>4, <2>6
        <4>2. QED
          BY <1>2, <2>4, <2>9, <4>1
      <3>2. QED
        BY <1>2, <3>1
    <2> HIDE DEF n, r, v
    <2>12. /\ v \in State /\ v.b = e /\ v.it = i + n
           /\ Rest(v) = Len(e.flds) + 1 - (i + n)
      BY <1>1, <2>1, <2>9, <2>11, RoundIs
    <2>13. v \in Removing(b, T)
      <3>1. \A k \in 1..(v.it - 1) : v.b.flds[k].id \notin T
        BY <1>1, <2>10, <2>11, <2>12
      <3>2. \A g \in Fields \ T : Occs(v.b, g) = Occs(b, g)
        BY <1>1, <1>3, <2>9, <2>12
      <3>3. QED
        BY <1>1, <2>9, <2>12, <3>1, <3>2 DEF Removing
    <2>14. Rest(v) < Rest(w)
      <3> DEFINE m == Len(c.flds)
      <3>1. Rest(v) = (m - (q - p)) + 1 - i /\ Rest(w) = m + 1 - i
        BY Zenon, <1>2, <2>9, <2>11, <2>12
      <3>2. m \in Nat /\ i \in Nat /\ p \in Int /\ q \in Int /\ i \in p..(q - 1)
        BY Zenon, <1>2, <2>4, <2>5
      <3> HIDE DEF m, i, c
      <3>3. (m - (q - p)) + 1 - i < m + 1 - i
        BY <3>2
      <3>4. QED
        BY Zenon, <3>1, <3>3
    <2>15. QED
      BY <2>13, <2>14 DEF v
  <1>4. CASE f \notin T
    <2> DEFINE n == 1
               e == c
               r == [b |-> e, step |-> n]
    <2>1. v = Round(w, r)
      BY <1>4 DEF RemoveRound
    <2>2. /\ n \in Nat /\ i + n \in 1..Len(e.flds) + 1 /\ r = [b |-> e, step |-> n] /\ n = 1
          /\ e \in Good /\ e = c
      BY <1>2
    <2> HIDE DEF n, r, v, e
    <2>3. /\ v \in State /\ v.b = c /\ v.it = i + n
          /\ Rest(v) = Len(c.flds) + 1 - (i + n)
      <3>1. /\ v \in State /\ v.b = e /\ v.it = i + n
            /\ Rest(v) = Len(e.flds) + 1 - (i + n)
        BY <1>1, <2>1, <2>2, RoundIs
      <3>2. QED
        BY <2>2, <3>1
    <2>4. v \in Removing(b, T)
      <3>1. \A k \in 1..(v.it - 1) : k \in 1..(i - 1) \/ k = i
        BY <1>2, <2>2, <2>3
      <3>2. \A k \in 1..(v.it - 1) : v.b.flds[k].id \notin T
        BY <1>1, <1>4, <2>3, <3>1
      <3>3. QED
        BY <1>1, <2>3, <3>2 DEF Removing
    <2>5. Rest(v) < Rest(w)
      BY <1>2, <2>2, <2>3
    <2>6. QED
      BY <2>4, <2>5 DEF v
  <1>5. QED
    BY <1>3, <1>4

LEMMA RemoveRuns ==
  ASSUME NEW b \in Good, NEW T \in SUBSET Fields, \A f \in T : LastType(f),
         NEW S, S = Removing(b, T),
         NEW R, R = [w \in S |-> IF Ended(w) THEN w ELSE RemoveRound(w, T)]
  PROVE  Steady(b, S, R) /\ Shrinking(S, R)
  <1>1. S \in SUBSET State
    BY DEF Removing
  <1>2. At(b) \in S
    <2> DEFINE x == At(b)
    <2>1. x \in State /\ x.b = b /\ x.it = 1
      BY AtIs DEF At
    <2> HIDE DEF x
    <2>2. x \in S
      BY <2>1 DEF Removing
    <2>3. QED
      BY <2>2 DEF x
  <1>3. \A w \in S : ~Ended(w) => RemoveRound(w, T) \in S /\ Rest(RemoveRound(w, T)) < Rest(w)
    BY RemoveStep
  <1>4. \A w \in S : R[w] = IF Ended(w) THEN w ELSE RemoveRound(w, T)
    OBVIOUS
  <1>5. R \in [S -> S]
    BY <1>3
  <1>6. QED
    BY <1>1, <1>2, <1>3, <1>4, <1>5 DEF Steady, Shrinking

\* What is left of b without the fields of T.
Removed(r, b, T) ==
  /\ r.rc = "ok" /\ r.b \in Good /\ r.b.size = b.size
  /\ \A g \in Fields : Occs(r.b, g) = IF g \in T THEN <<>> ELSE Occs(b, g)

LEMMA RemovedIs ==
  ASSUME NEW b \in Good, NEW T \in SUBSET Fields, NEW w \in Removing(b, T), Ended(w)
  PROVE  Removed(Outcome(w), b, T)
  <1> DEFINE c == w.b
  <1>1. /\ w \in State /\ c.size = b.size
        /\ \A k \in 1..(w.it - 1) : c.flds[k].id \notin T
        /\ \A g \in Fields \ T : Occs(c, g) = Occs(b, g)
    BY DEF Removing
  <1>2. c \in Good /\ w.it = Len(c.flds) + 1
    BY <1>1, StateIs
  <1>3. Outcome(w).rc = "ok" /\ Outcome(w).b = c
    BY DoneFail DEF Outcome
  <1> HIDE DEF c
  <1>4. ASSUME NEW g \in T PROVE Occs(c, g) = <<>>
    <2> DEFINE i == Len(c.flds) + 1
    <2>1. g \in Fields /\ Occs(c, g) \in Seq(Nat) /\ Before(c, i, g) = Len(Occs(c, g))
      BY <1>2, OccsType, BeforeType
    <2>2. \A k \in 1..(i - 1) : c.flds[k].id # g
      BY <1>1, <1>2
    <2> HIDE DEF i
    <2>3. Before(c, i, g) = 0
      BY <2>2, BeforeNone
    <2>4. Occs(c, g) \in Seq(Nat) /\ Len(Occs(c, g)) = 0
      BY <2>1, <2>3
    <2>5. \A s \in Seq(Nat) : Len(s) = 0 => s = <<>>
      OBVIOUS
    <2>6. QED
      BY <2>4, <2>5
  <1>5. QED
    BY <1>1, <1>2, <1>3, <1>4 DEF Removed, c

LEMMA XdeleteIs ==
  ASSUME NEW b \in Good, NEW T \in SUBSET Fields, \A f \in T : LastType(f)
  PROVE  Removed(xdelete(b, T), b, T)
  <1> DEFINE n == Len(b.flds)
             S == Removing(b, T)
             R == [w \in S |-> IF Ended(w) THEN w ELSE RemoveRound(w, T)]
             Is(g) == g = [k \in 0..n |->
                             IF k = 0 THEN At(b)
                             ELSE IF Ended(g[k - 1]) THEN g[k - 1]
                             ELSE RemoveRound(g[k - 1], T)]
             h == CHOOSE g : Is(g)
  <1>1. xdelete(b, T) = Outcome(h[n])
    BY DEF xdelete, iterate, Outcome, Ended, At, Round, RemoveRound
  <1>2. Steady(b, S, R) /\ Shrinking(S, R)
    BY RemoveRuns
  <1>3. \A w \in S : R[w] = IF Ended(w) THEN w ELSE RemoveRound(w, T)
    OBVIOUS
  <1>4. n \in Nat
    BY GoodIs
  <1> HIDE DEF S, R
  <1>5. Is(h)
    <2>1. PICK g \in [0..n -> S] : Follows(g, b, S, R)
      BY <1>2, Runs
    <2>2. \A k \in 0..n : g[k] = IF k = 0 THEN At(b)
                                 ELSE IF Ended(g[k - 1]) THEN g[k - 1]
                                 ELSE RemoveRound(g[k - 1], T)
      <3> TAKE k \in 0..n
      <3>1. k # 0 => k \in 1..n /\ k - 1 \in 0..n
        BY <1>4
      <3>2. k # 0 => g[k - 1] \in S
        BY <3>1
      <3>3. QED
        BY <1>3, <2>1, <3>1, <3>2 DEF Follows
    <2>3. Is(g)
      BY <2>2
    <2> HIDE DEF Is
    <2>4. QED
      BY <2>3
  <1> HIDE DEF h
  <1>6. Follows(h, b, S, R)
    <2>1. ASSUME NEW k \in 1..n, h[k - 1] \in S PROVE h[k] = R[h[k - 1]]
      <3>1. k \in 0..n /\ k # 0
        BY <1>4
      <3>2. h[k] = IF k = 0 THEN At(b)
                   ELSE IF Ended(h[k - 1]) THEN h[k - 1]
                   ELSE RemoveRound(h[k - 1], T)
        BY <1>5, <3>1
      <3>3. QED
        BY <1>3, <2>1, <3>1, <3>2
    <2>2. h[0] = At(b)
      <3>1. 0 \in 0..n
        BY <1>4
      <3>2. QED
        BY <1>5, <3>1
    <2>3. QED
      BY <2>1, <2>2 DEF Follows
  <1> DEFINE w == h[n]
  <1>7. w \in S /\ Ended(w)
    BY <1>2, <1>6, Runs
  <1> HIDE DEF w
  <1>8. Removed(Outcome(w), b, T)
    BY <1>7, RemovedIs DEF S
  <1>9. QED
    BY <1>1, <1>8 DEF w

ProjRound(w, S) ==
  Round(w, IF w.b.flds[w.it].id \in S
             THEN [b |-> w.b, step |-> 1]
             ELSE [b |-> delall(w.b, w.b.flds[w.it].id).b, step |-> 0])

LEMMA ProjIs ==
  ASSUME NEW b \in Good, NEW K \in SUBSET Fields, NEW T, T = Fields \ K, \A f \in T : LastType(f)
  PROVE  Removed(proj(b, K), b, T)
  <1>1. T \in SUBSET Fields
    OBVIOUS
  <1> DEFINE n == Len(b.flds)
             S == Removing(b, T)
             R == [w \in S |-> IF Ended(w) THEN w ELSE RemoveRound(w, T)]
             Is(g) == g = [k \in 0..n |->
                             IF k = 0 THEN At(b)
                             ELSE IF Ended(g[k - 1]) THEN g[k - 1]
                             ELSE ProjRound(g[k - 1], K)]
             h == CHOOSE g : Is(g)
  <1>2. proj(b, K) = Outcome(h[n])
    BY DEF proj, iterate, Outcome, Ended, At, Round, ProjRound
  <1>3. Steady(b, S, R) /\ Shrinking(S, R)
    BY <1>1, RemoveRuns
  <1>4. \A w \in S : R[w] = IF Ended(w) THEN w ELSE ProjRound(w, K)
    <2> TAKE w \in S
    <2>1. CASE ~Ended(w)
      <3>1. w.b.flds[w.it].id \in Fields
        BY <2>1, StateIs DEF Removing
      <3>2. w.b.flds[w.it].id \in T <=> ~(w.b.flds[w.it].id \in K)
        BY <3>1
      <3>3. QED
        BY <2>1, <3>2 DEF ProjRound, RemoveRound
    <2>2. QED
      BY <2>1
  <1>5. n \in Nat
    BY GoodIs
  <1> HIDE DEF S, R
  <1>6. Is(h)
    <2>1. PICK g \in [0..n -> S] : Follows(g, b, S, R)
      BY <1>3, Runs
    <2>2. \A k \in 0..n : g[k] = IF k = 0 THEN At(b)
                                 ELSE IF Ended(g[k - 1]) THEN g[k - 1]
                                 ELSE ProjRound(g[k - 1], K)
      <3> TAKE k \in 0..n
      <3>1. k # 0 => k \in 1..n /\ k - 1 \in 0..n
        BY <1>5
      <3>2. k # 0 => g[k - 1] \in S
        BY <3>1
      <3>3. QED
        BY <1>4, <2>1, <3>1, <3>2 DEF Follows
    <2>3. Is(g)
      BY <2>2
    <2> HIDE DEF Is
    <2>4. QED
      BY <2>3
  <1> HIDE DEF h
  <1>7. Follows(h, b, S, R)
    <2>1. ASSUME NEW k \in 1..n, h[k - 1] \in S PROVE h[k] = R[h[k - 1]]
      <3>1. k \in 0..n /\ k # 0
        BY <1>5
      <3>2. h[k] = IF k = 0 THEN At(b)
                   ELSE IF Ended(h[k - 1]) THEN h[k - 1]
                   ELSE ProjRound(h[k - 1], K)
        BY <1>6, <3>1
      <3>3. QED
        BY <1>4, <2>1, <3>1, <3>2
    <2>2. h[0] = At(b)
      <3>1. 0 \in 0..n
        BY <1>5
      <3>2. QED
        BY <1>6, <3>1
    <2>3. QED
      BY <2>1, <2>2 DEF Follows
  <1> DEFINE w == h[n]
  <1>8. w \in S /\ Ended(w)
    BY <1>3, <1>7, Runs
  <1> HIDE DEF w
  <1>9. Removed(Outcome(w), b, T)
    BY <1>1, <1>8, RemovedIs DEF S
  <1>20. QED
    BY <1>2, <1>9 DEF w

-----------------------------------------------------------------------------
(* The first pass of Fjoin32                                               *)

JoinRound(w, s) ==
  Round(w, IF pres(s, w.b.flds[w.it].id, iterate_oc(w, w.b.flds[w.it].id))
             THEN [b |-> w.b, step |-> 1]
             ELSE [b |-> del(w.b, w.b.flds[w.it].id, iterate_oc(w, w.b.flds[w.it].id)).b,
                   step |-> 0])

Number(b, f) == Len(Occs(b, f))

\* The number that iterate gives to the field at hand is not less than the true
\* one, and is the true one when at most one occurrence has to go.
Counted(w, d, s) ==
  LET f == w.b.flds[w.it].id
  IN /\ iterate_oc(w, f) >= Before(w.b, w.it, f)
     /\ Number(d, f) <= Number(s, f) + 1 => iterate_oc(w, f) = Before(w.b, w.it, f)

\* When at most one occurrence of a field has to go, those left are the first.
Leading(b, d, s) ==
  \A g \in Fields : Number(d, g) <= Number(s, g) + 1 =>
    \A k \in 1..Number(b, g) : Occs(b, g)[k] = Occs(d, g)[k]

\* iterate has gone through a part of d.  It has left as many of the
\* occurrences it passed as s has, and has not removed too many.
Joining(d, s) ==
  {w \in State : /\ w.b.size = d.size
                 /\ \A g \in Fields :
                      /\ Number(w.b, g) <= Number(d, g)
                      /\ Number(w.b, g) = Number(d, g) \/ Number(w.b, g) >= Number(s, g)
                      /\ Before(w.b, w.it, g) <= Number(s, g)
                 /\ Leading(w.b, d, s)
                 /\ ~Ended(w) => Counted(w, d, s)}

\* What s has less of than d can be removed.
Removable(d, s) == \A f \in Fields : Number(d, f) > Number(s, f) => LastType(f)

LEMMA PassStep ==
  ASSUME NEW d \in Good, NEW s \in Good, NEW w \in Joining(d, s), ~Ended(w),
         NEW f, f = w.b.flds[w.it].id, NEW oc, oc = iterate_oc(w, f), pres(s, f, oc)
  PROVE  /\ JoinRound(w, s) \in Joining(d, s)
         /\ Rest(JoinRound(w, s)) < Rest(w)
  <1> DEFINE c == w.b
             i == w.it
             j == i + 1
             n == 1
             r == [b |-> c, step |-> n]
             v == JoinRound(w, s)
  <1>1. /\ w \in State /\ c.size = d.size
        /\ \A g \in Fields :
             /\ Number(c, g) <= Number(d, g)
             /\ Number(c, g) = Number(d, g) \/ Number(c, g) >= Number(s, g)
             /\ Before(c, i, g) <= Number(s, g)
        /\ Counted(w, d, s)
    BY DEF Joining
  <1>17. Leading(c, d, s)
    BY Zenon DEF Joining
  <1>2. /\ c \in Good /\ i \in 1..Len(c.flds) /\ f \in Fields /\ Len(c.flds) \in Nat
        /\ i \in Nat /\ f \in Nat /\ oc \in Nat /\ Rest(w) = Len(c.flds) + 1 - i
    BY <1>1, StateIs DEF Rest
  <1>3. /\ oc >= Before(c, i, f)
        /\ Number(d, f) <= Number(s, f) + 1 => oc = Before(c, i, f)
    BY <1>1 DEF Counted
  <1>4. v = Round(w, r)
    BY DEF JoinRound
  <1>5. n \in Nat /\ i + n \in 1..Len(c.flds) + 1 /\ i + n = j /\ j \in 1..Len(c.flds) + 1
    BY <1>2
  <1> HIDE DEF v
  <1>6. /\ v \in State /\ v.b = c /\ v.it = j /\ v.prev = f /\ v.oc = oc
        /\ Rest(v) = Len(c.flds) + 1 - j
    <2> DEFINE e == c
    <2>1. e \in Good /\ r = [b |-> e, step |-> n] /\ i + n \in 1..Len(e.flds) + 1 /\ e = c
      BY <1>2, <1>5
    <2> HIDE DEF e, n, r
    <2>2. /\ v \in State /\ v.b = e /\ v.it = i + n /\ v.prev = f /\ v.oc = oc
          /\ Rest(v) = Len(e.flds) + 1 - (i + n)
      BY <1>1, <1>4, <1>5, <2>1, RoundIs
    <2>3. QED
      BY <1>5, <2>1, <2>2
  <1>7. oc \in 0..(Number(s, f) - 1)
    <2>1. oc \in Nat
      BY Zenon, <1>2
    <2>2. oc \in Int
      BY <2>1
    <2>3. QED
      BY Zenon, <1>2, <2>2, FindIs DEF Number
  <1> HIDE DEF c, i, n, r
  <1>8. c.flds[i].id = f
    BY DEF c, i
  <1>9. Before(c, j, f) = Before(c, i, f) + 1 /\ Before(c, i, f) \in Nat
    <2>1. c \in Good /\ i \in 1..Len(c.flds) /\ f \in Fields
      BY Zenon, <1>2
    <2>2. Before(c, i, f) \in 0..(Len(Occs(c, f)) - 1) /\ Before(c, j, f) = Before(c, i, f) + 1
      BY Zenon, <1>8, <2>1, BeforeAt
    <2>3. QED
      BY <2>2
  <1>10. ASSUME NEW g \in Fields PROVE Before(c, j, g) <= Number(s, g)
    <2>1. CASE g = f
      <3>1. Number(s, f) \in Nat
        BY Zenon, <1>2, OccsType DEF Number
      <3> DEFINE x == Before(c, i, f)
                 y == Number(s, f)
      <3>2. x \in Nat /\ y \in Nat /\ x <= oc /\ oc <= y - 1 /\ oc \in Nat
        BY <1>2, <1>3, <1>7, <1>9, <3>1
      <3> HIDE DEF x, y
      <3>3. x + 1 <= y
        BY <3>2
      <3>4. Before(c, j, f) <= y
        BY <1>9, <3>3 DEF x
      <3>5. QED
        BY <2>1, <3>4 DEF y
    <2>2. CASE g # f
      <3>1. Before(c, j, g) = Before(c, i, g)
        <4>1. i \in Nat \ {0} /\ c.flds[i].id # g
          BY <1>2, <1>8, <2>2
        <4>2. QED
          BY Zenon, <4>1, BeforeOther
      <3>2. QED
        BY <1>1, <3>1
    <2>3. QED
      BY <2>1, <2>2
  <1>11. ASSUME ~Ended(v) PROVE Counted(v, d, s)
    <2> DEFINE g == c.flds[j].id
    <2>1. j \in 1..Len(c.flds) /\ j \in 1..j /\ g \in Nat /\ i <= j
      <3>1. j \in 1..Len(c.flds) /\ g \in Nat
        BY <1>6, <1>11, StateIs
      <3>2. i \in Nat
        BY Zenon, <1>2
      <3>3. j \in 1..j /\ i <= j
        BY <3>2
      <3>4. QED
        BY Zenon, <3>1, <3>3
    <2>2. iterate_oc(v, g) = IF g = f THEN oc + 1 ELSE 0
      BY <1>6 DEF iterate_oc
    <2>3. /\ \A k \in 1..(j - 1) : c.flds[k].id <= f
          /\ f <= g
      <3>1. c.flds \in Seq(Fld) /\ Sorted(c.flds)
        BY Zenon, <1>2, GoodIs
      <3>2. \A k \in 1..(j - 1) : k \in 1..Len(c.flds) /\ k <= i
        <4> DEFINE m == Len(c.flds)
        <4>1. m \in Nat /\ i \in 1..m
          BY Zenon, <1>2
        <4> HIDE DEF m
        <4>2. \A k \in 1..(j - 1) : k \in 1..m /\ k <= i
          BY <4>1
        <4>3. QED
          BY Zenon, <4>2 DEF m
      <3>3. \A k \in 1..(j - 1) : c.flds[k].id <= c.flds[i].id
        BY Zenon, <1>2, <3>1, <3>2, SortedAll
      <3>4. c.flds[i].id <= c.flds[j].id
        <4> HIDE DEF j
        <4> QED
          BY <1>2, <2>1, <3>1, SortedAll
      <3>5. QED
        BY <1>8, <3>3, <3>4
    <2> HIDE DEF j
    <2>4. CASE g = f
      BY <1>2, <1>3, <1>6, <1>9, <2>2, <2>4 DEF Counted
    <2>5. CASE g # f
      <3>1. f < c.flds[j].id
        BY <1>2, <2>1, <2>3, <2>5
      <3>2. Before(c, j, g) = 0
        BY <1>2, <2>1, <2>3, <3>1, BeforeNew
      <3>3. QED
        BY <1>6, <2>2, <2>5, <3>2 DEF Counted
    <2>6. QED
      BY Zenon, <2>4, <2>5
  <1>12. v \in Joining(d, s)
    BY <1>1, <1>6, <1>10, <1>11, <1>17 DEF Joining
  <1>13. Rest(v) < Rest(w)
    <2> DEFINE m == Len(c.flds)
    <2>1. m \in Nat /\ i \in Nat /\ Rest(v) = m + 1 - j /\ Rest(w) = m + 1 - i
      BY Zenon, <1>2, <1>6
    <2> HIDE DEF m
    <2>2. m + 1 - j < m + 1 - i
      BY <2>1
    <2>3. QED
      BY Zenon, <2>1, <2>2
  <1>14. QED
    BY <1>12, <1>13 DEF v

LEMMA DropStep ==
  ASSUME NEW d \in Good, NEW s \in Good, Removable(d, s), NEW w \in Joining(d, s), ~Ended(w),
         NEW f, f = w.b.flds[w.it].id, NEW oc, oc = iterate_oc(w, f), ~pres(s, f, oc)
  PROVE  /\ JoinRound(w, s) \in Joining(d, s)
         /\ Number(d, f) <= Number(s, f) + 1 => Rest(JoinRound(w, s)) < Rest(w)
  <1> DEFINE c == w.b
             i == w.it
             e == del(c, f, oc).b
             n == 0
             r == [b |-> e, step |-> n]
             v == JoinRound(w, s)
             x == Before(c, i, f)
             one == Number(d, f) <= Number(s, f) + 1
  <1>1. /\ w \in State /\ c.size = d.size
        /\ \A g \in Fields :
             /\ Number(c, g) <= Number(d, g)
             /\ Number(c, g) = Number(d, g) \/ Number(c, g) >= Number(s, g)
             /\ Before(c, i, g) <= Number(s, g)
        /\ Counted(w, d, s)
    BY DEF Joining
  <1>17. Leading(c, d, s)
    BY Zenon DEF Joining
  <1>2. /\ c \in Good /\ i \in 1..Len(c.flds) /\ f \in Fields /\ Len(c.flds) \in Nat
        /\ i \in Nat /\ f \in Nat /\ oc \in Nat /\ Rest(w) = Len(c.flds) + 1 - i
    BY <1>1, StateIs DEF Rest
  <1>3. oc >= x /\ (one => oc = x)
    BY <1>1 DEF Counted
  <1>4. v = Round(w, r)
    BY DEF JoinRound
  <1>5. n \in Nat /\ i + n = i /\ r = [b |-> e, step |-> n]
    BY <1>2
  <1> HIDE DEF v, r, n, e
  <1>6. c.flds[i].id = f
    OBVIOUS
  <1>7. \A g \in Fields : Number(s, g) \in Nat /\ Number(c, g) \in Nat /\ Number(d, g) \in Nat
    BY Zenon, <1>2, OccsType DEF Number
  <1>8. x \in 0..(Number(c, f) - 1) /\ \A p, q : Span(c.flds, f, p, q) => x = i - p
    <2>1. c \in Good /\ i \in 1..Len(c.flds) /\ f \in Fields /\ c.flds[i].id = f
      BY Zenon, <1>2, <1>6
    <2> HIDE DEF c, i
    <2>2. x \in 0..(Len(Occs(c, f)) - 1) /\ \A p, q : Span(c.flds, f, p, q) => x = i - p
      BY Zenon, <2>1, BeforeAt
    <2>3. QED
      BY Zenon, <2>2 DEF Number
  <1>9. oc >= Number(s, f)
    <2>0. oc \in Nat
      BY Zenon, <1>2
    <2>5. oc \in Int
      BY <2>0
    <2>1. oc \notin 0..(Number(s, f) - 1)
      BY Zenon, <1>2, <2>5, FindIs DEF Number
    <2> DEFINE y == Number(s, f)
    <2>2. y \in Nat /\ oc \in Nat /\ oc \notin 0..(y - 1)
      BY <1>2, <1>7, <2>1
    <2> HIDE DEF y
    <2>3. oc >= y
      BY <2>2
    <2>4. QED
      BY <2>3 DEF y
  <1> HIDE DEF c, i, x, one
  <1>10. LastType(f)
    <2>1. Number(d, f) > Number(s, f)
      <3>1. SUFFICES ASSUME ~(Number(d, f) > Number(s, f)) PROVE FALSE
        OBVIOUS
      <3> DEFINE y == Number(s, f)
                 z == Number(d, f)
                 a == Number(c, f)
      <3>2. y \in Nat /\ z \in Nat /\ a \in Nat /\ ~(z > y)
        BY Zenon, <1>2, <1>7, <3>1
      <3> HIDE DEF y, z, a
      <3>3. z <= y + 1 /\ z <= y
        BY <3>2
      <3>4. a <= z /\ x = oc /\ x \in 0..(a - 1) /\ oc >= y
        BY Zenon, <1>1, <1>2, <1>3, <1>8, <1>9, <3>3 DEF one, y, z, a
      <3>5. QED
        BY <3>2, <3>3, <3>4
    <2>2. QED
      BY <1>2, <2>1 DEF Removable
  <1>11. PICK p, q : Span(c.flds, f, p, q)
    BY Zenon, <1>2, SpanOf
  <1>12. /\ p \in Int /\ x = i - p /\ x \in Int
    <2>1. Stretch(c, f, p, q)
      BY Zenon, <1>2, <1>11, StretchIs
    <2>2. p \in Int
      BY <2>1 DEF Stretch
    <2>3. x = i - p /\ i \in Nat
      BY Zenon, <1>2, <1>8, <1>11
    <2>4. QED
      BY <2>2, <2>3
  <1>13. /\ oc \in 0..(Number(c, f) - 1) =>
              /\ Left(e, c, f, Without(Occs(c, f), oc, oc + 1))
              /\ Behind(e, c, f, p + oc)
         /\ oc \notin 0..(Number(c, f) - 1) => e = c
    <2>0. oc \in Nat
      BY Zenon, <1>2
    <2>1. oc \in Int
      BY <2>0
    <2>2. /\ oc \in 0..(Len(Occs(c, f)) - 1) =>
              /\ del(c, f, oc).rc = "ok"
              /\ Left(del(c, f, oc).b, c, f, Without(Occs(c, f), oc, oc + 1))
              /\ Behind(del(c, f, oc).b, c, f, p + oc)
          /\ oc \notin 0..(Len(Occs(c, f)) - 1) => del(c, f, oc) = Fail(c, "FNOTPRES")
      BY <1>2, <1>10, <1>11, <2>1, DelIs
    <2>3. Fail(c, "FNOTPRES").b = c
      BY DEF Fail
    <2>4. QED
      BY <2>2, <2>3 DEF Number, e
  <1>14. CASE oc \in 0..(Number(c, f) - 1)
    <2> DEFINE o == Occs(c, f)
               m == p + oc
    <2>1. Number(e, f) = Number(c, f) - 1
      <3>1. o \in Seq(Nat) /\ Len(o) = Number(c, f)
        BY Zenon, <1>2, OccsType DEF Number
      <3> HIDE DEF o
      <3>2. oc < Len(o)
        BY <1>2, <1>7, <1>14, <3>1
      <3>3. Len(Without(o, oc, oc + 1)) = Len(o) - 1
        BY <1>2, <3>1, <3>2, WithoutOne
      <3>4. Occs(e, f) = Without(o, oc, oc + 1)
        BY <1>13, <1>14 DEF Left, o
      <3>5. QED
        BY <3>1, <3>3, <3>4 DEF Number
    <2>2. /\ e \in Good /\ e.size = c.size
          /\ \A g \in Fields \ {f} : Number(e, g) = Number(c, g)
          /\ Len(e.flds) = Len(c.flds) - (Number(c, f) - Number(e, f))
      BY <1>13, <1>14 DEF Left, Number
    <2>3. Len(e.flds) = Len(c.flds) - 1
      <3> DEFINE a == Number(c, f)
                 z == Len(c.flds)
      <3>1. a \in Nat /\ z \in Nat /\ Len(e.flds) = z - (a - (a - 1))
        BY Zenon, <1>2, <1>7, <2>1, <2>2
      <3> HIDE DEF a, z
      <3>2. z - (a - (a - 1)) = z - 1
        BY <3>1
      <3>3. QED
        BY Zenon, <3>1, <3>2 DEF z
    <2>4. Behind(e, c, f, m) /\ m \in Int /\ i \in 1..m
      BY <1>2, <1>3, <1>12, <1>13, <1>14
    <2>5. /\ \A k \in 1..(m - 1) : e.flds[k] = c.flds[k]
          /\ \A k \in 1..Len(e.flds) : k >= m => e.flds[k].id >= f
      BY <2>4 DEF Behind
    <2> HIDE DEF m
    <2>6. \A g \in Fields : Before(e, i, g) = Before(c, i, g)
      BY <2>4, BeforeSame
    <2>7. i + n \in 1..Len(e.flds) + 1
      BY <1>2, <1>5, <2>3
    <2>8. /\ v \in State /\ v.b = e /\ v.it = i /\ v.prev = f /\ v.oc = oc
          /\ Rest(v) = Len(e.flds) + 1 - i
      <3>1. /\ v \in State /\ v.b = e /\ v.it = i + n /\ v.prev = f /\ v.oc = oc
            /\ Rest(v) = Len(e.flds) + 1 - (i + n)
        BY <1>1, <1>4, <1>5, <2>2, <2>7, RoundIs DEF i
      <3>2. QED
        BY Zenon, <1>5, <3>1
    <2>9. ASSUME NEW g \in Fields
          PROVE  /\ Number(e, g) <= Number(d, g)
                 /\ Number(e, g) = Number(d, g) \/ Number(e, g) >= Number(s, g)
                 /\ Before(e, i, g) <= Number(s, g)
      <3>1. CASE g = f
        <4>1. Number(c, f) - 1 >= Number(s, f) /\ Number(c, f) - 1 <= Number(d, f)
          <5> DEFINE a == Number(c, f)
                     y == Number(s, f)
                     u == Number(d, f)
          <5>1. /\ a \in Nat /\ y \in Nat /\ u \in Nat /\ oc \in Nat
                /\ a <= u /\ oc >= y /\ oc \in 0..(a - 1)
            BY Zenon, <1>1, <1>2, <1>7, <1>9, <1>14
          <5> HIDE DEF a, y, u
          <5>2. a - 1 >= y /\ a - 1 <= u
            BY <5>1
          <5>3. QED
            BY Zenon, <5>2 DEF a, y, u
        <4>2. QED
          BY Zenon, <1>1, <2>1, <2>6, <3>1, <4>1
      <3>2. CASE g # f
        BY <1>1, <2>2, <2>6, <3>2
      <3>3. QED
        BY Zenon, <3>1, <3>2
    <2>20. Leading(e, d, s)
      <3>1. ASSUME NEW g \in Fields, g # f, Number(d, g) <= Number(s, g) + 1,
                   NEW k \in 1..Number(e, g)
            PROVE  Occs(e, g)[k] = Occs(d, g)[k]
        <4>1. Occs(e, g) = Occs(c, g) /\ Number(e, g) = Number(c, g)
          BY Zenon, <1>13, <1>14, <2>2, <3>1 DEF Left
        <4>2. QED
          BY <1>17, <3>1, <4>1 DEF Leading
      <3>2. ASSUME one, NEW k \in 1..Number(e, f)
            PROVE  Occs(e, f)[k] = Occs(d, f)[k]
        <4>1. Number(c, f) \in Nat /\ oc = Number(c, f) - 1
          <5>1. Number(c, f) <= Number(d, f) /\ Number(d, f) <= Number(s, f) + 1
            BY Zenon, <1>1, <1>2, <3>2 DEF one
          <5>2. Number(c, f) \in Nat /\ Number(d, f) \in Nat /\ Number(s, f) \in Nat /\ oc \in Nat
            BY <1>2, <1>7
          <5>3. QED
            BY <1>9, <1>14, <5>1, <5>2
        <4>2. o \in Seq(Nat) /\ Len(o) = Number(c, f)
          BY Zenon, <1>2, OccsType DEF Number
        <4>3. Occs(e, f) = Without(o, oc, oc + 1)
          BY Zenon, <1>13, <1>14 DEF Left
        <4>4. k \in 1..Number(c, f) /\ k \in 1..oc
          BY <2>1, <3>2, <4>1
        <4> HIDE DEF o
        <4>5. Without(o, oc, oc + 1)[k] = o[k]
          <5>1. oc \in 0..Len(o) /\ k \in 1..oc
            BY <4>1, <4>2, <4>4
          <5>2. QED
            BY <4>2, <5>1 DEF Without
        <4>6. o[k] = Occs(d, f)[k]
          BY <1>2, <1>17, <3>2, <4>4 DEF Leading, one, o
        <4>7. QED
          BY Zenon, <4>3, <4>5, <4>6
      <3>3. QED
        BY <3>1, <3>2 DEF Leading, one
    <2>10. ASSUME ~Ended(v) PROVE Counted(v, d, s)
      <3> DEFINE g == e.flds[i].id
      <3>1. i \in 1..Len(e.flds) /\ i \in 1..i /\ g \in Nat /\ g \in Fields
        BY <1>2, <2>8, <2>10, StateIs
      <3>2. iterate_oc(v, g) = IF g = f THEN oc + 1 ELSE 0
        BY <2>8 DEF iterate_oc
      <3>3. CASE g = f
        <4>1. Before(e, i, f) = x
          BY <1>2, <2>6 DEF x
        <4>2. Before(e, i, f) <= Number(e, f) - 1
          <5>1. e.flds[i].id = f
            BY Zenon, <3>3
          <5> HIDE DEF g
          <5>2. Before(e, i, f) \in 0..(Len(Occs(e, f)) - 1)
            BY <1>2, <2>2, <3>1, <5>1, BeforeAt
          <5>3. QED
            BY <5>2 DEF Number
        <4>3. ~one
          <5>1. SUFFICES ASSUME one PROVE FALSE
            OBVIOUS
          <5>2. x = oc /\ Number(c, f) <= Number(s, f) + 1 /\ x <= Number(c, f) - 2
            <6>1. Number(c, f) <= Number(d, f) /\ Number(d, f) <= Number(s, f) + 1
              BY <1>1, <1>2, <5>1 DEF one
            <6>2. Number(c, f) \in Nat /\ Number(d, f) \in Nat /\ Number(s, f) \in Nat
              BY <1>2, <1>7
            <6>3. x = oc
              BY <1>3, <5>1
            <6>4. x <= Number(e, f) - 1
              BY <4>1, <4>2
            <6>5. x <= Number(c, f) - 2
              BY <1>12, <2>1, <6>2, <6>4
            <6>6. Number(c, f) <= Number(s, f) + 1
              BY <6>1, <6>2
            <6>7. QED
              BY <6>3, <6>5, <6>6
          <5>3. QED
            BY <1>2, <1>7, <1>9, <5>2
        <4>4. iterate_oc(v, f) >= Before(v.b, v.it, f) /\ v.b.flds[v.it].id = f
          BY <1>2, <1>3, <1>12, <2>8, <3>2, <3>3, <4>1
        <4>5. QED
          BY <4>3, <4>4 DEF Counted, one
      <3>4. CASE g # f
        <4>1. ASSUME NEW k \in 1..(i - 1) PROVE e.flds[k].id <= f
          <5>1. c.flds \in Seq(Fld) /\ Sorted(c.flds) /\ k \in 1..Len(c.flds) /\ k <= i
            BY <1>2, GoodIs
          <5>2. c.flds[k].id <= c.flds[i].id
            BY <1>2, <5>1, SortedAll
          <5>3. e.flds[k] = c.flds[k]
            BY <2>4, <2>5
          <5>4. QED
            BY <1>6, <5>2, <5>3
        <4>2. f < e.flds[i].id
          <5>1. i >= m
            <6>1. SUFFICES ASSUME i < m PROVE FALSE
              BY <1>2, <2>4
            <6>2. e.flds[i] = c.flds[i]
              BY <2>4, <2>5, <6>1
            <6>3. QED
              BY <1>6, <3>4, <6>2
          <5>2. g >= f
            BY Zenon, <2>5, <3>1, <5>1
          <5>3. QED
            BY <1>2, <3>1, <3>4, <5>2
        <4>3. Before(e, i, g) = 0
          BY <1>2, <2>2, <3>1, <4>1, <4>2, BeforeNew
        <4>4. QED
          BY <2>8, <3>2, <3>4, <4>3 DEF Counted
      <3>5. QED
        BY <3>3, <3>4
    <2>11. v \in Joining(d, s)
      BY <1>1, <2>2, <2>8, <2>9, <2>10, <2>20 DEF Joining
    <2>12. Rest(v) < Rest(w)
      BY <1>2, <2>3, <2>8
    <2>13. QED
      BY Zenon, <2>11, <2>12 DEF v
  <1>15. CASE oc \notin 0..(Number(c, f) - 1)
    <2>1. e = c /\ e \in Good
      BY Zenon, <1>2, <1>13, <1>15
    <2>2. ~one
      BY <1>2, <1>3, <1>7, <1>8, <1>15
    <2>3. i + n \in 1..Len(e.flds) + 1
      BY <1>2, <1>5, <2>1
    <2>4. v \in State /\ v.b = e /\ v.it = i /\ v.prev = f /\ v.oc = oc
      <3>1. v \in State /\ v.b = e /\ v.it = i + n /\ v.prev = f /\ v.oc = oc
        BY <1>1, <1>4, <1>5, <2>1, <2>3, RoundIs DEF i
      <3>2. QED
        BY Zenon, <1>5, <3>1
    <2>5. Counted(v, d, s)
      <3>1. v.b.flds[v.it].id = f /\ Before(v.b, v.it, f) = x
        BY <1>6, <2>1, <2>4 DEF x
      <3>2. iterate_oc(v, f) = oc + 1
        BY <2>4 DEF iterate_oc
      <3>3. oc + 1 >= x
        BY <1>2, <1>3, <1>12
      <3>4. QED
        BY <2>2, <3>1, <3>2, <3>3 DEF Counted, one
    <2>6. v \in Joining(d, s)
      BY <1>1, <1>17, <2>1, <2>4, <2>5 DEF Joining
    <2>7. QED
      BY Zenon, <2>2, <2>6 DEF v, one
  <1>16. QED
    BY <1>14, <1>15

LEMMA JoinRuns ==
  ASSUME NEW d \in Good, NEW s \in Good, Removable(d, s),
         NEW S, S = Joining(d, s),
         NEW R, R = [w \in S |-> IF Ended(w) THEN w ELSE JoinRound(w, s)]
  PROVE  /\ Steady(d, S, R)
         /\ (\A f \in Fields : Number(d, f) <= Number(s, f) + 1) => Shrinking(S, R)
  <1>1. S \in SUBSET State
    BY DEF Joining
  <1>2. At(d) \in S
    <2> DEFINE x == At(d)
    <2>1. x \in State /\ x.b = d /\ x.it = 1 /\ x.prev = 0 /\ x.oc = 0
      BY AtIs DEF At
    <2> HIDE DEF x
    <2>2. ASSUME NEW g \in Fields PROVE Before(d, 1, g) = 0 /\ Number(s, g) \in Nat /\ Number(d, g) \in Nat
      BY BeforeType, OccsType DEF Number
    <2>3. ASSUME ~Ended(x) PROVE Counted(x, d, s)
      <3> DEFINE f == d.flds[1].id
      <3>1. f \in Fields /\ f \in Nat
        BY <2>1, <2>3, StateIs
      <3>2. f # 0
        BY <3>1, Fml32Assumption
      <3>3. iterate_oc(x, f) = 0
        BY <2>1, <3>2 DEF iterate_oc
      <3>4. Before(d, 1, f) = 0
        BY <2>2, <3>1
      <3>5. QED
        BY <2>1, <3>3, <3>4 DEF Counted
    <2>4. \A g \in Fields :
            /\ Number(x.b, g) <= Number(d, g)
            /\ Number(x.b, g) = Number(d, g) \/ Number(x.b, g) >= Number(s, g)
            /\ Before(x.b, x.it, g) <= Number(s, g)
      <3> TAKE g \in Fields
      <3>1. Before(d, 1, g) = 0 /\ Number(s, g) \in Nat /\ Number(d, g) \in Nat
        BY <2>2
      <3>2. QED
        BY <2>1, <3>1
    <2>7. Leading(x.b, d, s)
      BY <2>1 DEF Leading
    <2>5. x \in S
      BY <2>1, <2>3, <2>4, <2>7 DEF Joining
    <2>6. QED
      BY <2>5 DEF x
  <1>3. ASSUME NEW w \in S, ~Ended(w)
        PROVE  /\ JoinRound(w, s) \in S
               /\ (\A f \in Fields : Number(d, f) <= Number(s, f) + 1) => Rest(JoinRound(w, s)) < Rest(w)
    <2> DEFINE f == w.b.flds[w.it].id
               oc == iterate_oc(w, f)
    <2>1. f \in Fields
      BY <1>1, <1>3, StateIs
    <2>2. w \in Joining(d, s)
      OBVIOUS
    <2>3. CASE pres(s, f, oc)
      BY <1>3, <2>2, <2>3, PassStep
    <2>4. CASE ~pres(s, f, oc)
      <3>1. /\ JoinRound(w, s) \in Joining(d, s)
            /\ Number(d, f) <= Number(s, f) + 1 => Rest(JoinRound(w, s)) < Rest(w)
        BY <1>3, <2>2, <2>4, DropStep
      <3> HIDE DEF f, oc
      <3>2. QED
        BY <2>1, <3>1
    <2>5. QED
      BY <2>3, <2>4
  <1>4. \A w \in S : R[w] = IF Ended(w) THEN w ELSE JoinRound(w, s)
    OBVIOUS
  <1>5. R \in [S -> S]
    BY <1>3
  <1>6. QED
    BY <1>1, <1>2, <1>3, <1>4, <1>5 DEF Steady, Shrinking

\* The first pass of join.
Pass(d, s) ==
  iterate(d, LAMBDA c, f, oc :
               IF pres(s, f, oc) THEN [b |-> c, step |-> 1]
               ELSE [b |-> del(c, f, oc).b, step |-> 0])

\* What it makes of d: unless the loop is never through, as many occurrences
\* as both have.
Passed(r, d, s) ==
  /\ r.b \in Good /\ r.b.size = d.size /\ r.rc \in {"ok", "never"}
  /\ (\A f \in Fields : Number(d, f) <= Number(s, f) + 1) => r.rc = "ok"
  /\ Leading(r.b, d, s)
  /\ r.rc = "ok" => \A g \in Fields :
       Number(r.b, g) = IF Number(d, g) <= Number(s, g) THEN Number(d, g) ELSE Number(s, g)

LEMMA PassedIs ==
  ASSUME NEW d \in Good, NEW s \in Good, NEW w \in Joining(d, s),
         (\A f \in Fields : Number(d, f) <= Number(s, f) + 1) => Ended(w)
  PROVE  Passed(Outcome(w), d, s)
  <1> DEFINE c == w.b
             r == Outcome(w)
  <1>1. /\ w \in State /\ c.size = d.size
        /\ \A g \in Fields :
             /\ Number(c, g) <= Number(d, g)
             /\ Number(c, g) = Number(d, g) \/ Number(c, g) >= Number(s, g)
             /\ Before(c, w.it, g) <= Number(s, g)
        /\ Leading(c, d, s)
    BY DEF Joining
  <1>2. c \in Good /\ (Ended(w) => w.it = Len(c.flds) + 1)
    BY <1>1, StateIs
  <1>3. r.b = c /\ r.rc = (IF Ended(w) THEN "ok" ELSE "never")
    BY DEF Done, Fail, Outcome
  <1> HIDE DEF c, r
  <1>4. ASSUME Ended(w), NEW g \in Fields
        PROVE  Number(c, g) = IF Number(d, g) <= Number(s, g) THEN Number(d, g) ELSE Number(s, g)
    <2>1. Number(c, g) \in Nat /\ Number(d, g) \in Nat /\ Number(s, g) \in Nat
      BY <1>2, OccsType DEF Number
    <2>2. Before(c, Len(c.flds) + 1, g) = Number(c, g)
      BY <1>2, BeforeType DEF Number
    <2>3. Number(c, g) <= Number(s, g)
      BY <1>1, <1>2, <1>4, <2>2
    <2>4. QED
      BY <1>1, <2>1, <2>3
  <1>5. r.rc = "ok" => Ended(w)
    BY <1>3
  <1>6. QED
    BY <1>1, <1>2, <1>3, <1>4, <1>5 DEF Passed, r

LEMMA PassIs ==
  ASSUME NEW d \in Good, NEW s \in Good, Removable(d, s)
  PROVE  Passed(Pass(d, s), d, s)
  <1> DEFINE n == Len(d.flds)
             S == Joining(d, s)
             R == [w \in S |-> IF Ended(w) THEN w ELSE JoinRound(w, s)]
             Is(g) == g = [k \in 0..n |->
                             IF k = 0 THEN At(d)
                             ELSE IF Ended(g[k - 1]) THEN g[k - 1]
                             ELSE JoinRound(g[k - 1], s)]
             h == CHOOSE g : Is(g)
             one == \A f \in Fields : Number(d, f) <= Number(s, f) + 1
  <1>1. Pass(d, s) = Outcome(h[n])
    BY DEF Pass, iterate, Outcome, Ended, At, Round, JoinRound
  <1>2. Steady(d, S, R) /\ (one => Shrinking(S, R))
    BY JoinRuns
  <1>3. \A w \in S : R[w] = IF Ended(w) THEN w ELSE JoinRound(w, s)
    OBVIOUS
  <1>4. n \in Nat
    BY GoodIs
  <1> HIDE DEF S, R, one
  <1>5. Is(h)
    <2>1. PICK g \in [0..n -> S] : Follows(g, d, S, R)
      BY <1>2, Runs
    <2>2. \A k \in 0..n : g[k] = IF k = 0 THEN At(d)
                                 ELSE IF Ended(g[k - 1]) THEN g[k - 1]
                                 ELSE JoinRound(g[k - 1], s)
      <3> TAKE k \in 0..n
      <3>1. k # 0 => k \in 1..n /\ k - 1 \in 0..n
        BY <1>4
      <3>2. k # 0 => g[k - 1] \in S
        BY <3>1
      <3>3. QED
        BY <1>3, <2>1, <3>1, <3>2 DEF Follows
    <2>3. Is(g)
      BY <2>2
    <2> HIDE DEF Is
    <2>4. QED
      BY <2>3
  <1> HIDE DEF h
  <1>6. Follows(h, d, S, R)
    <2>1. ASSUME NEW k \in 1..n, h[k - 1] \in S PROVE h[k] = R[h[k - 1]]
      <3>1. k \in 0..n /\ k # 0
        BY <1>4
      <3>2. h[k] = IF k = 0 THEN At(d)
                   ELSE IF Ended(h[k - 1]) THEN h[k - 1]
                   ELSE JoinRound(h[k - 1], s)
        BY <1>5, <3>1
      <3>3. QED
        BY <1>3, <2>1, <3>1, <3>2
    <2>2. h[0] = At(d)
      <3>1. 0 \in 0..n
        BY <1>4
      <3>2. QED
        BY <1>5, <3>1
    <2>3. QED
      BY <2>1, <2>2 DEF Follows
  <1> DEFINE w == h[n]
  <1>7. w \in S /\ (one => Ended(w))
    BY <1>2, <1>6, Runs
  <1> HIDE DEF w
  <1>8. Passed(Outcome(w), d, s)
    BY <1>7, PassedIs DEF S, one
  <1>9. QED
    BY <1>1, <1>8 DEF w

LEMMA JoinOf ==
  ASSUME NEW d, NEW s
  PROVE  join(d, s) = IF Pass(d, s).rc = "ok" THEN ojoin(Pass(d, s).b, s) ELSE Pass(d, s)
  BY Zenon DEF join, Pass

-----------------------------------------------------------------------------
(* One buffer changed by another, field by field                           *)

LEMMA ChgRes ==
  ASSUME NEW b \in Good, NEW f \in Fields, NEW v \in Nat, NEW oc \in Int, oc >= -1
  PROVE  chg(b, f, oc, v) \in Res
  <1> DEFINE o == Chosen(b, f, oc)
             m == First(b, f, oc)
  <1>1. o \in Nat /\ m \in Nat /\ m <= o
    BY ChosenType
  <1>2. PICK h : Rounds(h, b, f, m, o, v) /\ chg(b, f, oc, v) = h[o + 1]
    BY ChgRounds
  <1> HIDE DEF o, m
  <1> DEFINE S == {n \in Int : h[n] \in Res}
             c == o + 1
  <1>3. m \in Int /\ c \in Int /\ m <= c /\ m \in m..c /\ c \in m..c
    BY <1>1
  <1>4. m \in S
    <2>1. h[m] = Done(b)
      BY <1>2, <1>3 DEF Rounds
    <2>2. QED
      BY <1>3, <2>1, DoneFail
  <1>5. ASSUME NEW n \in (m + 1)..c, n - 1 \in S PROVE n \in S
    <2> DEFINE u == IF n = o + 1 THEN v ELSE 0
               d == h[n - 1].b
               j == n - 1
    <2>1. n \in m..c /\ n # m /\ n \in Int /\ u \in Nat /\ d \in Good /\ j \in Int
      <3>1. h[n - 1] \in Res
        BY <1>5
      <3>2. d \in Good
        BY <3>1 DEF Res
      <3>3. QED
        BY <1>3, <3>2
    <2>2. h[n] = put(d, f, j, u)
      BY <1>2, <2>1 DEF Rounds
    <2> HIDE DEF u, d, j, c
    <2>3. put(d, f, j, u) \in Res
      BY <2>1, PutRes
    <2>4. QED
      BY <2>1, <2>2, <2>3
  <1> HIDE DEF S, c
  <1>6. m..c \subseteq S
    BY <1>3, <1>4, <1>5, Reaches
  <1>7. h[c] \in Res
    BY <1>3, <1>6 DEF S
  <1>8. QED
    BY <1>2, <1>7 DEF c

\* r is what storing occurrences t of field f in c returns, or c as it was.
Moved(r, c, f, t) ==
  /\ r \in Res /\ r.b.size = c.size
  /\ \A g \in Fields \ {f} : Occs(r.b, g) = Occs(c, g)
  /\ Occs(r.b, f) = IF r.rc = "ok" THEN t ELSE Occs(c, f)

\* Storing an occurrence that is there, or the one behind the last.
LEMMA ChgNext ==
  ASSUME NEW c \in Good, NEW f \in Fields, NEW v \in Nat, NEW oc \in Nat,
         oc <= Len(Occs(c, f))
  PROVE  Moved(chg(c, f, oc, v), c, f, Promised!PutAt(Occs(c, f), oc, v))
  <1> DEFINE r == chg(c, f, oc, v)
             s == Occs(c, f)
             want == Promised!PutAt(s, oc, v)
  <1>1. oc \in Int /\ oc >= -1 /\ Chosen(c, f, oc) = oc
    BY DEF Chosen
  <1>2. Stored(r, c, f, oc, v) /\ r \in Res
    <2>1. Stored(chg(c, f, oc, v), c, f, Chosen(c, f, oc), v)
      BY <1>1, ChgIs
    <2>2. QED
      BY <1>1, <2>1, ChgRes
  <1>3. s \in Seq(Nat) /\ Len(s) \in Nat
    BY OccsType
  <1> HIDE DEF r
  <1>4. CASE Fits(c, f, want)
    <2>1. r.rc = "ok" /\ Changed(r.b, c, f, want)
      BY <1>2, <1>4 DEF Stored
    <2> HIDE DEF want
    <2>2. Moved(r, c, f, want)
      BY <1>2, <2>1 DEF Changed, Moved
    <2>3. QED
      BY <2>2 DEF want, r
  <1>5. CASE ~Fits(c, f, want)
    <2>1. PICK k \in Nat : (k = 0 \/ k <= oc - Len(s)) /\ Changed(r.b, c, f, Fill(s, k))
      BY <1>2, <1>5 DEF Stored
    <2>2. r.rc = "FNOSPACE"
      BY <1>2, <1>5 DEF Stored
    <2> HIDE DEF want, s
    <2>3. k = 0
      BY <1>3, <2>1 DEF s
    <2>4. Fill(s, k) = s
      BY <1>3, <2>3, FillNone
    <2>5. Moved(r, c, f, want)
      <3>1. Changed(r.b, c, f, s)
        BY <2>1, <2>4
      <3>2. QED
        BY <1>2, <2>2, <3>1 DEF Changed, Moved, s
    <2>6. QED
      BY <2>5 DEF want, s, r
  <1>6. QED
    BY <1>4, <1>5 DEF r

LEMMA DoneNext ==
  ASSUME NEW c \in Good, NEW f
  PROVE  Moved(Done(c), c, f, Occs(c, f))
  <1>1. Done(c).b = c /\ Done(c).rc = "ok" /\ Done(c) \in Res
    BY DoneFail
  <1>2. QED
    BY <1>1 DEF Moved

LEMMA PutAtPut ==
  ASSUME NEW s \in Seq(Nat), NEW oc \in Nat, oc <= Len(s), NEW v \in Nat
  PROVE  Promised!PutAt(s, oc, v) = Put(s, oc, v)
  <1>1. CASE oc < Len(s)
    BY <1>1, PutAtIs
  <1>2. CASE oc >= Len(s)
    <2>1. oc - Len(s) = 0 /\ oc \notin 0..(Len(s) - 1)
      BY <1>2
    <2>2. Promised!PutAt(s, oc, v) = Append(Fill(s, oc - Len(s)), v)
      BY <1>2, PutAtIs
    <2>3. Fill(s, oc - Len(s)) = s
      BY <2>1, FillNone
    <2>4. Put(s, oc, v) = Append(s, v)
      BY <2>1 DEF Put
    <2>5. QED
      BY <2>2, <2>3, <2>4
  <1>3. QED
    BY <1>1, <1>2

\* The first k occurrences, and what they make of x.
Upto(y, k) == SubSeq(y, 1, k)
Over(x, y) == y \o SubSeq(x, Len(y) + 1, Len(x))

LEMMA UptoIs ==
  ASSUME NEW y \in Seq(Nat), NEW k \in 0..Len(y)
  PROVE  /\ Upto(y, k) \in Seq(Nat) /\ Len(Upto(y, k)) = k
         /\ \A i \in 1..k : Upto(y, k)[i] = y[i]
         /\ k = 0 => Upto(y, k) = <<>>
         /\ k = Len(y) => Upto(y, k) = y
  <1> DEFINE z == Upto(y, k)
  <1>1. z \in Seq(Nat) /\ Len(z) = k /\ \A i \in 1..k : z[i] = y[i]
    BY DEF Upto
  <1> HIDE DEF z
  <1>2. k = 0 => z = <<>>
    <2>1. \A s \in Seq(Nat) : Len(s) = 0 => s = <<>>
      OBVIOUS
    <2>2. QED
      BY <1>1, <2>1
  <1>3. k = Len(y) => z = y
    <2>1. SUFFICES ASSUME k = Len(y) PROVE z = y
      OBVIOUS
    <2>2. Len(z) = Len(y) /\ \A i \in 1..Len(z) : z[i] = y[i]
      BY <1>1, <2>1
    <2>3. QED
      BY <1>1, <2>2, SameSeq
  <1>4. QED
    BY <1>1, <1>2, <1>3 DEF z

LEMMA OverIs ==
  ASSUME NEW x \in Seq(Nat), NEW y \in Seq(Nat)
  PROVE  /\ Over(x, y) \in Seq(Nat)
         /\ Len(Over(x, y)) = IF Len(x) <= Len(y) THEN Len(y) ELSE Len(x)
         /\ \A i \in 1..Len(Over(x, y)) : Over(x, y)[i] = IF i <= Len(y) THEN y[i] ELSE x[i]
  <1> DEFINE z == SubSeq(x, Len(y) + 1, Len(x))
             n == Len(y)
             m == Len(x)
  <1>1. n \in Nat /\ m \in Nat
    OBVIOUS
  <1>2. z \in Seq(Nat) /\ Len(z) = (IF m <= n THEN 0 ELSE m - n)
        /\ \A i \in 1..Len(z) : z[i] = x[n + i]
    <2>1. SubSeq(x, n + 1, m) \in Seq(Nat)
      OBVIOUS
    <2>2. Len(SubSeq(x, n + 1, m)) = (IF m <= n THEN 0 ELSE m - n)
      OBVIOUS
    <2>3. \A i \in 1..Len(z) : z[i] = x[n + i]
      OBVIOUS
    <2>4. QED
      BY <2>1, <2>2, <2>3
  <1> DEFINE w == y \o z
  <1> HIDE DEF z
  <1>3. /\ w \in Seq(Nat) /\ Len(w) = n + Len(z)
        /\ \A i \in 1..Len(w) : w[i] = IF i <= n THEN y[i] ELSE z[i - n]
    <2>1. z \in Seq(Nat)
      BY <1>2
    <2>2. /\ y \o z \in Seq(Nat) /\ Len(y \o z) = Len(y) + Len(z)
          /\ \A i \in 1..Len(y) + Len(z) :
               (y \o z)[i] = IF i <= Len(y) THEN y[i] ELSE z[i - Len(y)]
      BY <2>1, ConcatProperties
    <2>3. QED
      BY <2>2
  <1>4. w = Over(x, y)
    BY DEF Over, z
  <1> HIDE DEF w, n, m
  <1>5. Len(w) = IF m <= n THEN n ELSE m
    BY <1>1, <1>2, <1>3
  <1>6. ASSUME NEW i \in 1..Len(w) PROVE w[i] = IF i <= n THEN y[i] ELSE x[i]
    <2>1. CASE i <= n
      BY <1>3, <2>1
    <2>2. CASE ~(i <= n)
      <3> DEFINE k == i - n
      <3>1. k \in 1..Len(z) /\ n + k = i
        BY <1>1, <1>2, <1>3, <2>2
      <3>2. w[i] = z[k]
        BY <1>3, <2>2
      <3> HIDE DEF k
      <3>3. z[k] = x[n + k]
        BY <1>2, <3>1
      <3>4. QED
        BY <2>2, <3>1, <3>2, <3>3
    <2>3. QED
      BY <2>1, <2>2
  <1>7. QED
    BY <1>3, <1>4, <1>5, <1>6 DEF n, m

\* The next occurrence of the source goes where the last one went, and one on.
LEMMA OverNext ==
  ASSUME NEW x \in Seq(Nat), NEW y \in Seq(Nat), NEW j \in Nat, j < Len(y),
         NEW z, z = Over(x, Upto(y, j))
  PROVE  /\ z \in Seq(Nat) /\ j <= Len(z)
         /\ j < Len(z) <=> j < Len(x)
         /\ Promised!PutAt(z, j, y[j + 1]) = Over(x, Upto(y, j + 1))
  <1> DEFINE n == j + 1
             u == Upto(y, j)
             u1 == Upto(y, n)
             z1 == Over(x, u1)
             v == y[n]
             w == Put(z, j, v)
  <1>1. n \in 1..Len(y) /\ j \in 0..Len(y) /\ n \in 0..Len(y) /\ v \in Nat
    OBVIOUS
  <1>2. u \in Seq(Nat) /\ Len(u) = j /\ \A i \in 1..j : u[i] = y[i]
    BY <1>1, UptoIs
  <1>3. u1 \in Seq(Nat) /\ Len(u1) = n /\ \A i \in 1..n : u1[i] = y[i]
    <2> HIDE DEF n
    <2> QED
      BY <1>1, UptoIs
  <1> HIDE DEF u, u1
  <1>4. /\ z \in Seq(Nat) /\ Len(z) = IF Len(x) <= j THEN j ELSE Len(x)
        /\ \A i \in 1..Len(z) : z[i] = IF i <= j THEN u[i] ELSE x[i]
    <2>1. z = Over(x, u)
      BY DEF u
    <2> DEFINE y1 == Over(x, u)
               m == Len(u)
    <2>2. /\ y1 \in Seq(Nat) /\ Len(y1) = IF Len(x) <= m THEN m ELSE Len(x)
          /\ \A i \in 1..Len(y1) : y1[i] = IF i <= m THEN u[i] ELSE x[i]
      BY Zenon, <1>2, OverIs
    <2> HIDE DEF y1, m
    <2>3. z = y1 /\ m = j
      BY Zenon, <1>2, <2>1 DEF y1, m
    <2>4. QED
      BY Zenon, <2>2, <2>3
  <1>5. /\ z1 \in Seq(Nat) /\ Len(z1) = IF Len(x) <= n THEN n ELSE Len(x)
        /\ \A i \in 1..Len(z1) : z1[i] = IF i <= n THEN u1[i] ELSE x[i]
    <2> DEFINE m == Len(u1)
    <2>1. /\ z1 \in Seq(Nat) /\ Len(z1) = IF Len(x) <= m THEN m ELSE Len(x)
          /\ \A i \in 1..Len(z1) : z1[i] = IF i <= m THEN u1[i] ELSE x[i]
      BY Zenon, <1>3, OverIs
    <2> HIDE DEF m, z1
    <2>2. m = n
      BY Zenon, <1>3 DEF m
    <2>3. QED
      BY Zenon, <2>1, <2>2
  <1>6. /\ w \in Seq(Nat)
        /\ Len(w) = IF j \in 0..(Len(z) - 1) THEN Len(z) ELSE Len(z) + 1
        /\ \A k \in 1..Len(z) : w[k] = IF k = j + 1 THEN v ELSE z[k]
        /\ j \notin 0..(Len(z) - 1) => w[Len(z) + 1] = v
    <2> HIDE DEF v
    <2>1. j \in Int
      OBVIOUS
    <2>2. QED
      BY Zenon, <1>1, <1>4, <2>1, PutType
  <1>7. j <= Len(z) /\ (j < Len(z) <=> j < Len(x)) /\ Len(x) \in Nat
    BY <1>4
  <1>8. Promised!PutAt(z, j, v) = w
    <2> HIDE DEF v
    <2> QED
      BY <1>1, <1>4, <1>7, PutAtPut
  <1> HIDE DEF w, z1
  <1>9. Len(w) = Len(z1)
    <2> DEFINE m == Len(z)
               c == Len(x)
    <2>1. /\ Len(w) = IF j \in 0..(m - 1) THEN m ELSE m + 1
          /\ Len(z1) = IF c <= n THEN n ELSE c
          /\ m = IF c <= j THEN j ELSE c
          /\ c \in Nat /\ j \in Nat
      BY Zenon, <1>4, <1>5, <1>6, <1>7
    <2> HIDE DEF m, c
    <2>2. QED
      BY <2>1
  <1>10. ASSUME NEW k \in 1..Len(w) PROVE w[k] = z1[k]
    <2>1. z1[k] = IF k <= n THEN y[k] ELSE x[k]
      <3>1. k <= n => k \in 1..n
        OBVIOUS
      <3>2. QED
        BY <1>3, <1>5, <1>9, <3>1
    <2>2. CASE k = n
      <3>1. w[k] = v
        <4> DEFINE m == Len(z)
        <4>1. /\ \A a \in 1..m : w[a] = IF a = n THEN v ELSE z[a]
              /\ j \notin 0..(m - 1) => w[m + 1] = v
              /\ j <= m /\ m \in Nat
          BY <1>4, <1>6, <1>7
        <4> HIDE DEF m, v
        <4>2. n \in 1..m \/ (j \notin 0..(m - 1) /\ n = m + 1)
          BY <4>1
        <4> HIDE DEF n
        <4>3. QED
          BY Zenon, <2>2, <4>1, <4>2
      <3>2. QED
        BY <2>1, <2>2, <3>1
    <2>3. CASE k # n
      <3>1. k \in 1..Len(z)
        BY <1>4, <1>6, <1>7, <2>3
      <3>2. w[k] = z[k]
        BY <1>6, <2>3, <3>1
      <3>3. z[k] = IF k <= j THEN y[k] ELSE x[k]
        <4>1. k <= j => k \in 1..j
          OBVIOUS
        <4>2. QED
          BY <1>2, <1>4, <3>1, <4>1
      <3>4. k <= n <=> k <= j
        BY <2>3
      <3>5. QED
        BY <2>1, <3>2, <3>3, <3>4
    <2>4. QED
      BY <2>2, <2>3
  <1>11. w = z1
    BY <1>5, <1>6, <1>9, <1>10, SameSeq
  <1>12. QED
    BY <1>4, <1>7, <1>8, <1>11 DEF z1, u1

LEMMA OverNone ==
  ASSUME NEW x \in Seq(Nat), NEW y \in Seq(Nat)
  PROVE  Over(x, Upto(y, 0)) = x
  <1> DEFINE k == 0
             u == Upto(y, k)
             z == Over(x, u)
  <1>1. k \in 0..Len(y) /\ k = 0
    OBVIOUS
  <1> HIDE DEF k
  <1>2. u \in Seq(Nat) /\ Len(u) = 0
    BY <1>1, UptoIs
  <1> HIDE DEF u
  <1>3. /\ z \in Seq(Nat) /\ Len(z) = Len(x)
        /\ \A i \in 1..Len(z) : z[i] = x[i]
    <2>1. /\ z \in Seq(Nat) /\ Len(z) = IF Len(x) <= Len(u) THEN Len(u) ELSE Len(x)
          /\ \A i \in 1..Len(z) : z[i] = IF i <= Len(u) THEN u[i] ELSE x[i]
      BY <1>2, OverIs
    <2> HIDE DEF z
    <2>2. Len(z) = Len(x)
      BY <1>2, <2>1
    <2>3. \A i \in 1..Len(z) : ~(i <= Len(u))
      BY <1>2
    <2>4. QED
      BY <2>1, <2>2, <2>3
  <1> HIDE DEF z
  <1>4. z = x
    BY <1>3, SameSeq
  <1>5. QED
    BY <1>1, <1>4 DEF z, u

LEMMA AppendBehind ==
  ASSUME NEW x \in Seq(Nat), NEW u \in Seq(Nat), NEW v \in Nat
  PROVE  Append(x \o u, v) = x \o Append(u, v)
  <1> DEFINE w == x \o u
             a == Append(u, v)
             l == Append(w, v)
             r == x \o a
             n == Len(x)
             m == Len(u)
  <1>1. n \in Nat /\ m \in Nat
    OBVIOUS
  <1>2. /\ w \in Seq(Nat) /\ Len(w) = n + m
        /\ \A i \in 1..n + m : w[i] = IF i <= n THEN x[i] ELSE u[i - n]
    BY ConcatProperties
  <1>3. /\ a \in Seq(Nat) /\ Len(a) = m + 1 /\ a[m + 1] = v
        /\ \A i \in 1..m : a[i] = u[i]
    BY AppendProperties
  <1> HIDE DEF w, a
  <1>4. /\ l \in Seq(Nat) /\ Len(l) = n + m + 1 /\ l[n + m + 1] = v
        /\ \A i \in 1..n + m : l[i] = w[i]
    <2>1. w \in Seq(Nat)
      BY <1>2
    <2>2. /\ Append(w, v) \in Seq(Nat) /\ Len(Append(w, v)) = Len(w) + 1
          /\ Append(w, v)[Len(w) + 1] = v
          /\ \A i \in 1..Len(w) : Append(w, v)[i] = w[i]
      BY <2>1
    <2>3. QED
      BY <1>2, <2>2
  <1>5. /\ r \in Seq(Nat) /\ Len(r) = n + m + 1
        /\ \A i \in 1..n + m + 1 : r[i] = IF i <= n THEN x[i] ELSE a[i - n]
    <2>1. /\ x \o a \in Seq(Nat) /\ Len(x \o a) = Len(x) + Len(a)
          /\ \A i \in 1..Len(x) + Len(a) :
               (x \o a)[i] = IF i <= Len(x) THEN x[i] ELSE a[i - Len(x)]
      BY <1>3, ConcatProperties
    <2>2. QED
      BY <1>1, <1>3, <2>1
  <1> HIDE DEF l, r, n, m
  <1>6. ASSUME NEW i \in 1..n + m + 1 PROVE l[i] = r[i]
    <2>1. CASE i <= n
      <3>1. i \in 1..n + m
        BY <1>1, <2>1
      <3>2. QED
        BY <1>2, <1>4, <1>5, <2>1, <3>1
    <2>2. CASE i > n /\ i <= n + m
      <3> DEFINE k == i - n
      <3>1. i \in 1..n + m /\ k \in 1..m /\ ~(i <= n)
        BY <1>1, <2>2
      <3>2. l[i] = u[k] /\ r[i] = a[k]
        BY <1>2, <1>4, <1>5, <3>1
      <3> HIDE DEF k
      <3>3. QED
        BY <1>3, <3>1, <3>2
    <2>3. CASE i = n + m + 1
      <3>1. i - n = m + 1 /\ ~(i <= n)
        BY <1>1, <2>3
      <3>2. QED
        BY <1>3, <1>4, <1>5, <2>3, <3>1
    <2>4. QED
      BY <1>1, <2>1, <2>2, <2>3
  <1>7. Len(l) = Len(r) /\ \A i \in 1..Len(l) : l[i] = r[i]
    BY <1>4, <1>5, <1>6
  <1>8. l = r
    BY <1>4, <1>5, <1>7, SameSeq
  <1>9. QED
    BY <1>8 DEF l, r, w, a

LEMMA ConcatNext ==
  ASSUME NEW x \in Seq(Nat), NEW y \in Seq(Nat), NEW j \in Nat, j < Len(y),
         NEW z, z = x \o Upto(y, j)
  PROVE  /\ z \in Seq(Nat) /\ Len(z) \in Nat
         /\ Promised!PutAt(z, Len(z), y[j + 1]) = x \o Upto(y, j + 1)
  <1> DEFINE n == j + 1
             u == Upto(y, j)
             u1 == Upto(y, n)
             v == y[n]
  <1>1. n \in 1..Len(y) /\ j \in 0..Len(y) /\ n \in 0..Len(y) /\ v \in Nat
    OBVIOUS
  <1>2. u \in Seq(Nat) /\ Len(u) = j /\ \A i \in 1..j : u[i] = y[i]
    BY <1>1, UptoIs
  <1>3. u1 \in Seq(Nat) /\ Len(u1) = n /\ \A i \in 1..n : u1[i] = y[i]
    <2> HIDE DEF n
    <2> QED
      BY <1>1, UptoIs
  <1> HIDE DEF u, u1
  <1>4. u1 = Append(u, v)
    <2> DEFINE a == Append(u, v)
    <2>1. a \in Seq(Nat) /\ Len(a) = j + 1 /\ a[j + 1] = v /\ \A i \in 1..j : a[i] = u[i]
      BY <1>1, <1>2
    <2> HIDE DEF a
    <2>2. \A i \in 1..n : i \in 1..j \/ i = j + 1
      OBVIOUS
    <2>3. \A i \in 1..Len(u1) : u1[i] = a[i]
      BY <1>2, <1>3, <2>1, <2>2
    <2>4. Len(u1) = Len(a)
      BY <1>3, <2>1
    <2>5. u1 = a
      BY <1>3, <2>1, <2>3, <2>4, SameSeq
    <2>6. QED
      BY <2>5 DEF a
  <1>5. z \in Seq(Nat) /\ Len(z) \in Nat /\ z = x \o u
    BY <1>2 DEF u
  <1>6. Promised!PutAt(z, Len(z), v) = Append(z, v)
    <2> DEFINE m == Len(z)
    <2> HIDE DEF v
    <2>1. m \in Nat /\ m <= Len(z) /\ m \notin 0..(Len(z) - 1)
      BY <1>5
    <2> HIDE DEF m
    <2>2. Promised!PutAt(z, m, v) = Put(z, m, v)
      BY <1>1, <1>5, <2>1, PutAtPut
    <2>3. Put(z, m, v) = Append(z, v)
      BY <2>1 DEF Put
    <2>4. QED
      BY <2>2, <2>3 DEF m
  <1>7. Append(z, v) = x \o u1
    <2> HIDE DEF v
    <2>1. Append(x \o u, v) = x \o Append(u, v)
      BY <1>1, <1>2, AppendBehind
    <2>2. QED
      BY <1>4, <1>5, <2>1
  <1>8. QED
    BY <1>5, <1>6, <1>7 DEF u1

LEMMA ConcatNone ==
  ASSUME NEW x \in Seq(Nat), NEW y \in Seq(Nat)
  PROVE  x \o Upto(y, 0) = x
  <1> DEFINE k == 0
  <1>1. k \in 0..Len(y) /\ k = 0
    OBVIOUS
  <1> HIDE DEF k
  <1>2. Upto(y, k) = <<>>
    BY <1>1, UptoIs
  <1>3. x \o <<>> = x
    OBVIOUS
  <1>4. QED
    BY <1>1, <1>2, <1>3

\* The results after each of the fields of the source.
Goes(h, n, d, F) == h[0] = Done(d) /\ \A i \in 1..n : h[i] = F[i][h[i - 1]]

LEMMA Going ==
  ASSUME NEW n \in Nat, NEW d \in Good, NEW F \in [1..n -> [Res -> Res]]
  PROVE  \E h \in [0..n -> Res] : Goes(h, n, d, F)
  <1> DEFINE a == 0
             x == Done(d)
             Id == [y \in Res |-> y]
             G == [i \in 0..n |-> IF i = 0 THEN Id ELSE F[i]]
  <1>1. Id \in [Res -> Res]
    OBVIOUS
  <1> HIDE DEF Id
  <1>2. \A i \in 1..n : F[i] \in [Res -> Res] /\ G[i] = F[i]
    OBVIOUS
  <1>3. \A i \in 0..n : i = 0 \/ i \in 1..n
    OBVIOUS
  <1>4. \A i \in 0..n : (IF i = 0 THEN Id ELSE F[i]) \in [Res -> Res]
    BY <1>1, <1>2, <1>3
  <1>5. G \in [a..n -> [Res -> Res]]
    BY <1>4
  <1>6. x \in Res /\ a \in Int /\ n \in Int /\ a <= n
    BY DoneFail
  <1> HIDE DEF a, x, G
  <1>7. PICK h \in [a..n -> Res] : Solves(h, a, n, x, G)
    BY <1>5, <1>6, Solvable
  <1>8. \A i \in a..n : h[i] = IF i = a THEN x ELSE G[i][h[i - 1]]
    BY <1>7 DEF Solves
  <1>9. h[0] = x
    <2>1. a \in a..n
      BY <1>6
    <2>2. h[a] = x
      BY <1>8, <2>1
    <2>3. QED
      BY <2>2 DEF a
  <1>10. \A i \in 1..n : h[i] = F[i][h[i - 1]]
    BY <1>2, <1>8 DEF a
  <1>11. QED
    BY <1>7, <1>9, <1>10 DEF Goes, x, a

\* The fields of the source that each reads.
LEMMA SourceIs ==
  ASSUME NEW s \in Good, NEW i \in 1..Len(s.flds)
  PROVE  /\ s.flds[i].id \in Fields /\ s.flds[i].val \in Nat
         /\ Before(s, i, s.flds[i].id) \in Nat
         /\ Before(s, i, s.flds[i].id) \in Int /\ Before(s, i, s.flds[i].id) >= -1
  <1> DEFINE f == s.flds[i].id
  <1>1. f \in Fields /\ s.flds[i].val \in Nat
    BY GoodIs, FldOf
  <1>2. i \in 1..Len(s.flds) + 1
    BY GoodIs
  <1> HIDE DEF f
  <1>3. Before(s, i, f) \in Nat
    BY <1>1, <1>2, BeforeType
  <1>4. QED
    BY <1>1, <1>3 DEF f

\* h holds the results of each on d: once it has failed nothing changes.
Stays(h, d, s) ==
  /\ h[0] = Done(d)
  /\ \A i \in 1..Len(s.flds) : h[i - 1].rc # "ok" => h[i] = h[i - 1]

Updating(h, s) ==
  \A i \in 1..Len(s.flds) : h[i - 1].rc = "ok" =>
    h[i] = chg(h[i - 1].b, s.flds[i].id, Before(s, i, s.flds[i].id), s.flds[i].val)

LEMMA UpdateRounds ==
  ASSUME NEW d \in Good, NEW s \in Good
  PROVE  \E h : /\ Stays(h, d, s) /\ Updating(h, s)
                /\ update(d, s) = h[Len(s.flds)]
  <1> DEFINE n == Len(s.flds)
             Step(y, i) == IF y.rc # "ok" THEN y
                           ELSE chg(y.b, s.flds[i].id, Before(s, i, s.flds[i].id), s.flds[i].val)
             Is(g) == g = [i \in 0..n |-> IF i = 0 THEN Done(d) ELSE Step(g[i - 1], i)]
             F == [i \in 1..n |-> [y \in Res |-> Step(y, i)]]
             h == CHOOSE g : Is(g)
  <1>1. update(d, s) = h[n]
    BY DEF update, each, Before
  <1>2. n \in Nat
    BY GoodIs
  <1>3. ASSUME NEW i \in 1..n, NEW y \in Res PROVE Step(y, i) \in Res
    <2> DEFINE f == s.flds[i].id
               oc == Before(s, i, f)
               v == s.flds[i].val
               b == y.b
    <2>1. f \in Fields /\ v \in Nat /\ oc \in Int /\ oc >= -1
      BY SourceIs
    <2>2. b \in Good
      BY DEF Res
    <2> HIDE DEF f, oc, v, b
    <2>3. chg(b, f, oc, v) \in Res
      BY <2>1, <2>2, ChgRes
    <2>4. QED
      BY <2>3 DEF f, oc, v, b
  <1> HIDE DEF Step
  <1>4. F \in [1..n -> [Res -> Res]]
    BY <1>3
  <1>5. \A i \in 1..n, y \in Res : F[i][y] = Step(y, i)
    OBVIOUS
  <1> HIDE DEF F
  <1>6. Is(h)
    <2>1. PICK g \in [0..n -> Res] : Goes(g, n, d, F)
      <3> HIDE DEF n
      <3> QED
        BY <1>2, <1>4, Going
    <2>2. \A i \in 0..n : g[i] = IF i = 0 THEN Done(d) ELSE Step(g[i - 1], i)
      <3> TAKE i \in 0..n
      <3>1. i # 0 => i \in 1..n /\ i - 1 \in 0..n
        BY <1>2
      <3>2. i # 0 => g[i - 1] \in Res
        BY <3>1
      <3>3. QED
        BY <1>5, <2>1, <3>1, <3>2 DEF Goes
    <2>3. Is(g)
      BY <2>2
    <2> HIDE DEF Is
    <2>4. QED
      BY <2>3
  <1> HIDE DEF h
  <1>7. h[0] = Done(d) /\ \A i \in 1..n : h[i] = Step(h[i - 1], i)
    <2>1. 0 \in 0..n /\ \A i \in 1..n : i \in 0..n /\ i # 0
      BY <1>2
    <2>2. QED
      BY <1>6, <2>1
  <1>8. Stays(h, d, s)
    BY <1>7 DEF Stays, Step
  <1>9. Updating(h, s)
    BY <1>7 DEF Updating, Step
  <1>10. QED
    BY <1>1, <1>8, <1>9

Ojoining(h, s) ==
  \A i \in 1..Len(s.flds) : h[i - 1].rc = "ok" =>
    h[i] = (IF pres(h[i - 1].b, s.flds[i].id, Before(s, i, s.flds[i].id)) THEN chg(h[i - 1].b, s.flds[i].id, Before(s, i, s.flds[i].id), s.flds[i].val) ELSE Done(h[i - 1].b))

LEMMA OjoinRounds ==
  ASSUME NEW d \in Good, NEW s \in Good
  PROVE  \E h : /\ Stays(h, d, s) /\ Ojoining(h, s)
                /\ ojoin(d, s) = h[Len(s.flds)]
  <1> DEFINE n == Len(s.flds)
             Step(y, i) == IF y.rc # "ok" THEN y
                           ELSE (IF pres(y.b, s.flds[i].id, Before(s, i, s.flds[i].id)) THEN chg(y.b, s.flds[i].id, Before(s, i, s.flds[i].id), s.flds[i].val) ELSE Done(y.b))
             Is(g) == g = [i \in 0..n |-> IF i = 0 THEN Done(d) ELSE Step(g[i - 1], i)]
             F == [i \in 1..n |-> [y \in Res |-> Step(y, i)]]
             h == CHOOSE g : Is(g)
  <1>1. ojoin(d, s) = h[n]
    BY DEF ojoin, each, Before
  <1>2. n \in Nat
    BY GoodIs
  <1>3. ASSUME NEW i \in 1..n, NEW y \in Res PROVE Step(y, i) \in Res
    <2> DEFINE f == s.flds[i].id
               oc == Before(s, i, f)
               v == s.flds[i].val
               b == y.b
    <2>1. f \in Fields /\ v \in Nat /\ oc \in Int /\ oc >= -1
      BY SourceIs
    <2>2. b \in Good
      BY DEF Res
    <2> HIDE DEF f, oc, v, b
    <2>3. (IF pres(b, f, oc) THEN chg(b, f, oc, v) ELSE Done(b)) \in Res
      BY <2>1, <2>2, ChgRes, DoneFail
    <2>4. QED
      BY <2>3 DEF f, oc, v, b
  <1> HIDE DEF Step
  <1>4. F \in [1..n -> [Res -> Res]]
    BY <1>3
  <1>5. \A i \in 1..n, y \in Res : F[i][y] = Step(y, i)
    OBVIOUS
  <1> HIDE DEF F
  <1>6. Is(h)
    <2>1. PICK g \in [0..n -> Res] : Goes(g, n, d, F)
      <3> HIDE DEF n
      <3> QED
        BY <1>2, <1>4, Going
    <2>2. \A i \in 0..n : g[i] = IF i = 0 THEN Done(d) ELSE Step(g[i - 1], i)
      <3> TAKE i \in 0..n
      <3>1. i # 0 => i \in 1..n /\ i - 1 \in 0..n
        BY <1>2
      <3>2. i # 0 => g[i - 1] \in Res
        BY <3>1
      <3>3. QED
        BY <1>5, <2>1, <3>1, <3>2 DEF Goes
    <2>3. Is(g)
      BY <2>2
    <2> HIDE DEF Is
    <2>4. QED
      BY <2>3
  <1> HIDE DEF h
  <1>7. h[0] = Done(d) /\ \A i \in 1..n : h[i] = Step(h[i - 1], i)
    <2>1. 0 \in 0..n /\ \A i \in 1..n : i \in 0..n /\ i # 0
      BY <1>2
    <2>2. QED
      BY <1>6, <2>1
  <1>8. Stays(h, d, s)
    BY <1>7 DEF Stays, Step
  <1>9. Ojoining(h, s)
    BY <1>7 DEF Ojoining, Step
  <1>10. QED
    BY <1>1, <1>8, <1>9

Adding(h, s) ==
  \A i \in 1..Len(s.flds) : h[i - 1].rc = "ok" =>
    h[i] = chg(h[i - 1].b, s.flds[i].id, occur(h[i - 1].b, s.flds[i].id), s.flds[i].val)

LEMMA ConcatRounds ==
  ASSUME NEW d \in Good, NEW s \in Good, ~(d.size - d.len < used(s))
  PROVE  \E h : /\ Stays(h, d, s) /\ Adding(h, s)
                /\ concat(d, s) = h[Len(s.flds)]
  <1> DEFINE n == Len(s.flds)
             Step(y, i) == IF y.rc # "ok" THEN y
                           ELSE chg(y.b, s.flds[i].id, occur(y.b, s.flds[i].id), s.flds[i].val)
             Is(g) == g = [i \in 0..n |-> IF i = 0 THEN Done(d) ELSE Step(g[i - 1], i)]
             F == [i \in 1..n |-> [y \in Res |-> Step(y, i)]]
             h == CHOOSE g : Is(g)
  <1>1. concat(d, s) = h[n]
    BY DEF concat, each, Before
  <1>2. n \in Nat
    BY GoodIs
  <1>3. ASSUME NEW i \in 1..n, NEW y \in Res PROVE Step(y, i) \in Res
    <2> DEFINE f == s.flds[i].id
               oc == Before(s, i, f)
               v == s.flds[i].val
               b == y.b
    <2>1. f \in Fields /\ v \in Nat /\ oc \in Int /\ oc >= -1
      BY SourceIs
    <2>2. b \in Good
      BY DEF Res
    <2> HIDE DEF f, oc, v, b
    <2>3. chg(b, f, occur(b, f), v) \in Res
      <3> DEFINE k == occur(b, f)
      <3>1. k \in Int /\ k >= -1
        BY <2>1, <2>2, OccsType
      <3> HIDE DEF k
      <3>2. chg(b, f, k, v) \in Res
        BY <2>1, <2>2, <3>1, ChgRes
      <3>3. QED
        BY <2>2, <3>2 DEF k
    <2>4. QED
      BY <2>3 DEF f, oc, v, b
  <1> HIDE DEF Step
  <1>4. F \in [1..n -> [Res -> Res]]
    BY <1>3
  <1>5. \A i \in 1..n, y \in Res : F[i][y] = Step(y, i)
    OBVIOUS
  <1> HIDE DEF F
  <1>6. Is(h)
    <2>1. PICK g \in [0..n -> Res] : Goes(g, n, d, F)
      <3> HIDE DEF n
      <3> QED
        BY <1>2, <1>4, Going
    <2>2. \A i \in 0..n : g[i] = IF i = 0 THEN Done(d) ELSE Step(g[i - 1], i)
      <3> TAKE i \in 0..n
      <3>1. i # 0 => i \in 1..n /\ i - 1 \in 0..n
        BY <1>2
      <3>2. i # 0 => g[i - 1] \in Res
        BY <3>1
      <3>3. QED
        BY <1>5, <2>1, <3>1, <3>2 DEF Goes
    <2>3. Is(g)
      BY <2>2
    <2> HIDE DEF Is
    <2>4. QED
      BY <2>3
  <1> HIDE DEF h
  <1>7. h[0] = Done(d) /\ \A i \in 1..n : h[i] = Step(h[i - 1], i)
    <2>1. 0 \in 0..n /\ \A i \in 1..n : i \in 0..n /\ i # 0
      BY <1>2
    <2>2. QED
      BY <1>6, <2>1
  <1>8. Stays(h, d, s)
    BY <1>7 DEF Stays, Step
  <1>9. Adding(h, s)
    BY <1>7 DEF Adding, Step
  <1>10. QED
    BY <1>1, <1>8, <1>9

Picking(h, s, K) ==
  \A i \in 1..Len(s.flds) : h[i - 1].rc = "ok" =>
    h[i] = (IF s.flds[i].id \in K THEN chg(h[i - 1].b, s.flds[i].id, occur(h[i - 1].b, s.flds[i].id), s.flds[i].val) ELSE Done(h[i - 1].b))

LEMMA ProjcpyRounds ==
  ASSUME NEW d, NEW s \in Good, NEW K, NEW e \in Good, e = init(d.size + min_size)
  PROVE  \E h : /\ Stays(h, e, s) /\ Picking(h, s, K)
                /\ projcpy(d, s, K) = h[Len(s.flds)]
  <1> DEFINE n == Len(s.flds)
             Step(y, i) == IF y.rc # "ok" THEN y
                           ELSE (IF s.flds[i].id \in K THEN chg(y.b, s.flds[i].id, occur(y.b, s.flds[i].id), s.flds[i].val) ELSE Done(y.b))
             Is(g) == g = [i \in 0..n |-> IF i = 0 THEN Done(e) ELSE Step(g[i - 1], i)]
             F == [i \in 1..n |-> [y \in Res |-> Step(y, i)]]
             h == CHOOSE g : Is(g)
  <1>1. projcpy(d, s, K) = h[n]
    BY DEF projcpy, each, Before
  <1>2. n \in Nat
    BY GoodIs
  <1>3. ASSUME NEW i \in 1..n, NEW y \in Res PROVE Step(y, i) \in Res
    <2> DEFINE f == s.flds[i].id
               oc == Before(s, i, f)
               v == s.flds[i].val
               b == y.b
    <2>1. f \in Fields /\ v \in Nat /\ oc \in Int /\ oc >= -1
      BY SourceIs
    <2>2. b \in Good
      BY DEF Res
    <2> HIDE DEF f, oc, v, b
    <2>3. (IF f \in K THEN chg(b, f, occur(b, f), v) ELSE Done(b)) \in Res
      <3> DEFINE k == occur(b, f)
      <3>1. k \in Int /\ k >= -1
        BY <2>1, <2>2, OccsType
      <3> HIDE DEF k
      <3>2. chg(b, f, k, v) \in Res
        BY <2>1, <2>2, <3>1, ChgRes
      <3>3. QED
        BY <2>2, <3>2, DoneFail DEF k
    <2>4. QED
      BY <2>3 DEF f, oc, v, b
  <1> HIDE DEF Step
  <1>4. F \in [1..n -> [Res -> Res]]
    BY <1>3
  <1>5. \A i \in 1..n, y \in Res : F[i][y] = Step(y, i)
    OBVIOUS
  <1> HIDE DEF F
  <1>6. Is(h)
    <2>1. PICK g \in [0..n -> Res] : Goes(g, n, e, F)
      <3> HIDE DEF n
      <3> QED
        BY <1>2, <1>4, Going
    <2>2. \A i \in 0..n : g[i] = IF i = 0 THEN Done(e) ELSE Step(g[i - 1], i)
      <3> TAKE i \in 0..n
      <3>1. i # 0 => i \in 1..n /\ i - 1 \in 0..n
        BY <1>2
      <3>2. i # 0 => g[i - 1] \in Res
        BY <3>1
      <3>3. QED
        BY <1>5, <2>1, <3>1, <3>2 DEF Goes
    <2>3. Is(g)
      BY <2>2
    <2> HIDE DEF Is
    <2>4. QED
      BY <2>3
  <1> HIDE DEF h
  <1>7. h[0] = Done(e) /\ \A i \in 1..n : h[i] = Step(h[i - 1], i)
    <2>1. 0 \in 0..n /\ \A i \in 1..n : i \in 0..n /\ i # 0
      BY <1>2
    <2>2. QED
      BY <1>6, <2>1
  <1>8. Stays(h, e, s)
    BY <1>7 DEF Stays, Step
  <1>9. Picking(h, s, K)
    BY <1>7 DEF Picking, Step
  <1>10. QED
    BY <1>1, <1>8, <1>9

\* A misread value is a value.
LEMMA ConvertedType ==
  ASSUME NEW f \in Fields, NEW v \in Nat
  PROVE  reads(f, v) \in Nat /\ Ftypcvt32(f, v) \in Nat
  <1>1. reads(f, v) \in Nat
    BY TextAssumption DEF reads
  <1>2. QED
    BY <1>1 DEF Ftypcvt32

\* The lines of a text are fields in the order of those that were printed.
LEMMA LinesAre ==
  ASSUME NEW s \in Good
  PROVE  /\ Lines(s.flds) \in Seq(Fld) /\ Len(Lines(s.flds)) = Len(s.flds)
         /\ \A i \in 1..Len(s.flds) :
              Lines(s.flds)[i] = [id |-> s.flds[i].id,
                                  val |-> Ftypcvt32(s.flds[i].id, s.flds[i].val)]
         /\ Bytes(Lines(s.flds)) \in Nat
  <1> DEFINE c == s.flds
             t == Lines(c)
  <1>1. c \in Seq(Fld) /\ Len(c) \in Nat
    BY GoodIs
  <1> HIDE DEF c
  <1>2. t = [i \in 1..Len(c) |-> [id |-> c[i].id, val |-> Ftypcvt32(c[i].id, c[i].val)]]
    BY DEF Lines
  <1>3. ASSUME NEW i \in 1..Len(c)
        PROVE  [id |-> c[i].id, val |-> Ftypcvt32(c[i].id, c[i].val)] \in Fld
    <2>1. c[i].id \in Fields /\ c[i].val \in Nat
      <3>1. c[i] \in Fld
        BY <1>1
      <3>2. QED
        BY <3>1 DEF Fld
    <2>2. Ftypcvt32(c[i].id, c[i].val) \in Nat
      BY <2>1, ConvertedType
    <2>3. QED
      BY <2>1, <2>2 DEF Fld
  <1>4. t \in Seq(Fld) /\ Len(t) = Len(c)
    <2> DEFINE x(i) == [id |-> c[i].id, val |-> Ftypcvt32(c[i].id, c[i].val)]
    <2>1. t = [i \in 1..Len(c) |-> x(i)] /\ \A i \in 1..Len(c) : x(i) \in Fld
      BY <1>2, <1>3
    <2> HIDE DEF x, t
    <2>2. t \in [1..Len(c) -> Fld]
      BY <2>1
    <2>3. QED
      BY <1>1, <2>2
  <1>5. Bytes(t) \in Nat
    BY <1>4, BytesType
  <1>6. QED
    BY <1>2, <1>4, <1>5 DEF c

Rereading(h, s) ==
  \A i \in 1..Len(s.flds) : h[i - 1].rc = "ok" =>
    h[i] = chg(h[i - 1].b, s.flds[i].id, occur(h[i - 1].b, s.flds[i].id), Ftypcvt32(s.flds[i].id, s.flds[i].val))

LEMMA ExtreadRounds ==
  ASSUME NEW s \in Good, NEW e \in Good, e = init(min_size + Bytes(Lines(s.flds)))
  PROVE  \E h : /\ Stays(h, e, s) /\ Rereading(h, s)
                /\ extread(s) = h[Len(s.flds)].b
  <1> DEFINE n == Len(s.flds)
             Step(y, i) == IF y.rc # "ok" THEN y
                           ELSE chg(y.b, s.flds[i].id, occur(y.b, s.flds[i].id), Ftypcvt32(s.flds[i].id, s.flds[i].val))
             Is(g) == g = [i \in 0..n |-> IF i = 0 THEN Done(e) ELSE Step(g[i - 1], i)]
             F == [i \in 1..n |-> [y \in Res |-> Step(y, i)]]
             h == CHOOSE g : Is(g)
  <1>1. extread(s) = h[n].b
    BY DEF extread, each, Before
  <1>2. n \in Nat
    BY GoodIs
  <1>3. ASSUME NEW i \in 1..n, NEW y \in Res PROVE Step(y, i) \in Res
    <2> DEFINE f == s.flds[i].id
               oc == Before(s, i, f)
               v == s.flds[i].val
               b == y.b
    <2>1. f \in Fields /\ v \in Nat /\ oc \in Int /\ oc >= -1
      BY SourceIs
    <2>2. b \in Good
      BY DEF Res
    <2> HIDE DEF f, oc, v, b
    <2>3. chg(b, f, occur(b, f), Ftypcvt32(f, v)) \in Res
      <3> DEFINE k == occur(b, f)
                 u == Ftypcvt32(f, v)
      <3>1. k \in Int /\ k >= -1
        BY <2>1, <2>2, OccsType
      <3>2. u \in Nat
        BY <2>1, ConvertedType
      <3> HIDE DEF k, u
      <3>3. chg(b, f, k, u) \in Res
        BY <2>1, <2>2, <3>1, <3>2, ChgRes
      <3>4. QED
        BY <3>3 DEF k, u
    <2>4. QED
      BY <2>3 DEF f, oc, v, b
  <1> HIDE DEF Step
  <1>4. F \in [1..n -> [Res -> Res]]
    BY <1>3
  <1>5. \A i \in 1..n, y \in Res : F[i][y] = Step(y, i)
    OBVIOUS
  <1> HIDE DEF F
  <1>6. Is(h)
    <2>1. PICK g \in [0..n -> Res] : Goes(g, n, e, F)
      <3> HIDE DEF n
      <3> QED
        BY <1>2, <1>4, Going
    <2>2. \A i \in 0..n : g[i] = IF i = 0 THEN Done(e) ELSE Step(g[i - 1], i)
      <3> TAKE i \in 0..n
      <3>1. i # 0 => i \in 1..n /\ i - 1 \in 0..n
        BY <1>2
      <3>2. i # 0 => g[i - 1] \in Res
        BY <3>1
      <3>3. QED
        BY <1>5, <2>1, <3>1, <3>2 DEF Goes
    <2>3. Is(g)
      BY <2>2
    <2> HIDE DEF Is
    <2>4. QED
      BY <2>3
  <1> HIDE DEF h
  <1>7. h[0] = Done(e) /\ \A i \in 1..n : h[i] = Step(h[i - 1], i)
    <2>1. 0 \in 0..n /\ \A i \in 1..n : i \in 0..n /\ i # 0
      BY <1>2
    <2>2. QED
      BY <1>6, <2>1
  <1>8. Stays(h, e, s)
    BY <1>7 DEF Stays, Step
  <1>9. Rereading(h, s)
    BY <1>7 DEF Rereading, Step
  <1>10. QED
    BY <1>1, <1>8, <1>9

\* The occurrences of the fields of b are those in T.
Has(b, T) == \A g \in Fields : Occs(b, g) = T[g]

\* T[i] are the occurrences after field i of s has been applied: nothing but
\* that field changes.
Stepwise(T, s) ==
  \A i \in 1..Len(s.flds) : \A g \in Fields \ {s.flds[i].id} : T[i][g] = T[i - 1][g]

Follow(h, s, T) ==
  \A i \in 1..Len(s.flds) :
    h[i - 1] \in Res /\ h[i - 1].rc = "ok" /\ Has(h[i - 1].b, T[i - 1]) =>
      Moved(h[i], h[i - 1].b, s.flds[i].id, T[i][s.flds[i].id])

\* The result r of k fields: all of them are applied, or those before one.
Applied(r, T, k, m) ==
  /\ r \in Res /\ r.b.size = m
  /\ r.rc = "ok" => Has(r.b, T[k])
  /\ r.rc # "ok" => \E i \in 1..k : Has(r.b, T[i - 1])

LEMMA EachIs ==
  ASSUME NEW d \in Good, NEW s \in Good, NEW T, Has(d, T[0]), Stepwise(T, s),
         NEW h, Stays(h, d, s), Follow(h, s, T)
  PROVE  Applied(h[Len(s.flds)], T, Len(s.flds), d.size)
  <1> DEFINE n == Len(s.flds)
             m == d.size
             U == {k \in Int : Applied(h[k], T, k, m)}
             a == 0
  <1>1. n \in Nat /\ n \in Int /\ a \in Int /\ a <= n
    BY GoodIs
  <1>2. a \in U
    <2>1. h[0].b = d /\ h[0].rc = "ok" /\ h[0] \in Res
      BY DoneFail DEF Stays
    <2>2. Applied(h[0], T, 0, m)
      BY <2>1 DEF Applied
    <2>3. QED
      BY <2>2
  <1>3. ASSUME NEW k \in (a + 1)..n, k - 1 \in U PROVE k \in U
    <2> DEFINE j == k - 1
               f == s.flds[k].id
               c == h[j].b
    <2>1. k \in 1..n /\ k \in Int /\ j \in Int /\ j < k
      OBVIOUS
    <2>2. Applied(h[j], T, j, m)
      BY <1>3
    <2>3. h[j] \in Res /\ c.size = m
      BY <2>2 DEF Applied
    <2>4. CASE h[j].rc # "ok"
      <3>1. h[k] = h[j]
        BY <2>1, <2>4 DEF Stays
      <3>2. PICK i \in 1..j : Has(c, T[i - 1])
        BY <2>2, <2>4 DEF Applied
      <3>3. i \in 1..k
        BY <2>1
      <3>4. Applied(h[k], T, k, m)
        BY <2>3, <2>4, <3>1, <3>2, <3>3 DEF Applied
      <3>5. QED
        BY <2>1, <3>4
    <2>5. CASE h[j].rc = "ok"
      <3>1. Has(c, T[j])
        BY <2>2, <2>5 DEF Applied
      <3>2. Moved(h[k], c, f, T[k][f])
        BY <2>1, <2>3, <2>5, <3>1 DEF Follow
      <3>3. f \in Fields
        BY <2>1, SourceIs
      <3>4. \A g \in Fields \ {f} : T[k][g] = T[j][g]
        BY <2>1 DEF Stepwise
      <3> HIDE DEF c, f, j
      <3>5. h[k] \in Res /\ h[k].b.size = m
        BY <2>3, <3>2 DEF Moved, c
      <3>6. CASE h[k].rc = "ok"
        <4>1. \A g \in Fields : Occs(h[k].b, g) = T[k][g]
          BY <3>1, <3>2, <3>3, <3>4, <3>6 DEF Moved, Has
        <4>2. QED
          BY <2>1, <3>5, <3>6, <4>1 DEF Applied, Has
      <3>7. CASE h[k].rc # "ok"
        <4>1. \A g \in Fields : Occs(h[k].b, g) = T[j][g]
          BY <3>1, <3>2, <3>3, <3>7 DEF Moved, Has
        <4>2. k \in 1..k /\ Has(h[k].b, T[k - 1])
          BY <2>1, <4>1 DEF Has, j
        <4>3. QED
          BY <2>1, <3>5, <3>7, <4>2 DEF Applied
      <3>8. QED
        BY <3>6, <3>7
    <2>6. QED
      BY <2>4, <2>5
  <1> HIDE DEF U, a, n
  <1>4. a..n \subseteq U
    BY <1>1, <1>2, <1>3, Reaches
  <1>5. n \in U
    BY <1>1, <1>4
  <1>6. QED
    BY <1>5 DEF U, n

-----------------------------------------------------------------------------
(* What is applied: occurrences C of the fields, in the order of source s  *)

Contents(b) == [g \in Fields |-> Occs(b, g)]

Least(m, n) == IF m <= n THEN m ELSE n

\* What of C the fields of s up to i apply.
Part(C, s, i) == [g \in Fields |-> Upto(C[g], Least(Before(s, i + 1, g), Len(C[g])))]

Within(C, s) ==
  C \in [Fields -> Seq(Nat)] /\ \A g \in Fields : Len(C[g]) <= Len(Occs(s, g))

LEMMA PartType ==
  ASSUME NEW s \in Good, NEW C, Within(C, s), NEW i \in 0..Len(s.flds), NEW g \in Fields
  PROVE  /\ C[g] \in Seq(Nat) /\ Len(C[g]) \in Nat
         /\ Before(s, i + 1, g) \in Nat
         /\ Least(Before(s, i + 1, g), Len(C[g])) \in 0..Len(C[g])
         /\ Part(C, s, i)[g] = Upto(C[g], Least(Before(s, i + 1, g), Len(C[g])))
         /\ Part(C, s, i)[g] \in Seq(Nat)
  <1> DEFINE y == C[g]
             j == i + 1
             k == Before(s, j, g)
             l == Least(k, Len(y))
  <1>1. y \in Seq(Nat) /\ Len(y) \in Nat
    BY DEF Within
  <1>2. k \in Nat
    <2>1. j \in 1..Len(s.flds) + 1
      BY GoodIs
    <2> HIDE DEF j
    <2>2. QED
      BY <2>1, BeforeType
  <1>3. l \in 0..Len(y)
    <2> HIDE DEF k, y
    <2> QED
      BY <1>1, <1>2 DEF Least
  <1>4. Part(C, s, i)[g] = Upto(y, l)
    BY DEF Part
  <1>5. Upto(y, l) \in Seq(Nat)
    <2> HIDE DEF y, l
    <2> QED
      BY <1>1, <1>3, UptoIs
  <1>6. QED
    BY <1>1, <1>2, <1>3, <1>4, <1>5

LEMMA PartEnds ==
  ASSUME NEW s \in Good, NEW C, Within(C, s)
  PROVE  /\ \A g \in Fields : Part(C, s, 0)[g] = Upto(C[g], 0)
         /\ Part(C, s, Len(s.flds)) = C
  <1> DEFINE n == Len(s.flds)
             z == 0
  <1>1. n \in Nat /\ n \in 0..n /\ z \in 0..n /\ z + 1 = 1
    BY GoodIs
  <1>2. ASSUME NEW g \in Fields PROVE Part(C, s, 0)[g] = Upto(C[g], 0)
    <2>1. /\ Len(C[g]) \in Nat
          /\ Part(C, s, z)[g] = Upto(C[g], Least(Before(s, z + 1, g), Len(C[g])))
      <3> HIDE DEF z
      <3> QED
        BY <1>1, PartType
    <2>2. Before(s, z + 1, g) = 0
      BY <1>1, BeforeType
    <2>3. Least(Before(s, z + 1, g), Len(C[g])) = 0
      BY <2>1, <2>2 DEF Least
    <2>4. QED
      BY <2>1, <2>3
  <1>3. ASSUME NEW g \in Fields PROVE Part(C, s, n)[g] = C[g]
    <2>1. /\ C[g] \in Seq(Nat) /\ Len(C[g]) \in Nat
          /\ Part(C, s, n)[g] = Upto(C[g], Least(Before(s, n + 1, g), Len(C[g])))
      <3> DEFINE e == n
      <3>1. e \in 0..Len(s.flds)
        BY <1>1
      <3> HIDE DEF e
      <3>2. /\ C[g] \in Seq(Nat) /\ Len(C[g]) \in Nat
            /\ Part(C, s, e)[g] = Upto(C[g], Least(Before(s, e + 1, g), Len(C[g])))
        BY <3>1, PartType
      <3>3. QED
        BY <3>2 DEF e
    <2>2. Before(s, n + 1, g) = Len(Occs(s, g)) /\ Len(Occs(s, g)) \in Nat
      BY BeforeType, OccsType
    <2>3. Len(C[g]) <= Len(Occs(s, g))
      BY DEF Within
    <2> DEFINE y == C[g]
               k == Len(y)
               m == Len(Occs(s, g))
    <2>4. Least(m, k) = k
      <3>1. m \in Nat /\ k \in Nat /\ k <= m
        BY <2>1, <2>2, <2>3
      <3> HIDE DEF m, k
      <3>2. QED
        BY <3>1 DEF Least
    <2>5. Upto(y, k) = y
      <3>1. y \in Seq(Nat) /\ k \in 0..Len(y) /\ k = Len(y)
        BY <2>1
      <3> HIDE DEF y, k
      <3>2. QED
        BY <3>1, UptoIs
    <2>6. QED
      BY <2>1, <2>2, <2>4, <2>5
  <1>4. Part(C, s, n) = C
    <2>1. C \in [Fields -> Seq(Nat)]
      BY DEF Within
    <2>2. Part(C, s, n) = [g \in Fields |-> Part(C, s, n)[g]]
      BY DEF Part
    <2> HIDE DEF n
    <2>3. QED
      BY <1>3, <2>1, <2>2
  <1>5. QED
    BY <1>2, <1>4

LEMMA PartStep ==
  ASSUME NEW s \in Good, NEW C, Within(C, s), NEW i \in 1..Len(s.flds),
         NEW f, f = s.flds[i].id, NEW k, k = Before(s, i, f)
  PROVE  /\ f \in Fields /\ k \in Nat
         /\ \A g \in Fields \ {f} : Part(C, s, i)[g] = Part(C, s, i - 1)[g]
         /\ k < Len(C[f]) => /\ Part(C, s, i - 1)[f] = Upto(C[f], k)
                             /\ Part(C, s, i)[f] = Upto(C[f], k + 1)
         /\ k >= Len(C[f]) => /\ Part(C, s, i - 1)[f] = C[f]
                              /\ Part(C, s, i)[f] = C[f]
  <1> DEFINE j == i - 1
             n == Len(s.flds)
  <1>1. n \in Nat /\ i \in 0..n /\ j \in 0..n /\ j + 1 = i /\ i \in Nat \ {0}
    BY GoodIs
  <1>2. f \in Fields /\ k \in Nat
    BY SourceIs
  <1>3. Before(s, i + 1, f) = k + 1
    BY <1>2, BeforeAt
  <1> DEFINE y == C[f]
             m == Len(y)
  <1>4. y \in Seq(Nat) /\ m \in Nat /\ Part(C, s, i)[f] = Upto(y, Least(k + 1, m))
    <2>1. i \in 0..Len(s.flds) /\ f \in Fields
      BY <1>1, <1>2
    <2>2. /\ y \in Seq(Nat) /\ m \in Nat
          /\ Part(C, s, i)[f] = Upto(y, Least(Before(s, i + 1, f), m))
      BY <2>1, PartType
    <2>3. QED
      BY <1>3, <2>2
  <1>5. Part(C, s, j)[f] = Upto(y, Least(k, m))
    <2>1. Part(C, s, j)[f] = Upto(y, Least(Before(s, j + 1, f), m))
      <3>1. j \in 0..Len(s.flds) /\ f \in Fields
        BY <1>1, <1>2
      <3> HIDE DEF j
      <3>2. QED
        BY <3>1, PartType
    <2>2. Before(s, j + 1, f) = k
      BY <1>1
    <2>3. QED
      BY <2>1, <2>2
  <1>6. ASSUME NEW g \in Fields \ {f} PROVE Part(C, s, i)[g] = Part(C, s, j)[g]
    <2>1. Part(C, s, i)[g] = Upto(C[g], Least(Before(s, i + 1, g), Len(C[g])))
      BY <1>1, PartType
    <2>2. Part(C, s, j)[g] = Upto(C[g], Least(Before(s, j + 1, g), Len(C[g])))
      <3> HIDE DEF j
      <3> QED
        BY <1>1, PartType
    <2>3. Before(s, i + 1, g) = Before(s, i, g)
      BY <1>1, BeforeOther
    <2>4. j + 1 = i
      BY <1>1
    <2>5. QED
      BY <2>1, <2>2, <2>3, <2>4
  <1>7. Upto(y, m) = y
    <2>1. m \in 0..Len(y) /\ m = Len(y)
      BY <1>4
    <2> HIDE DEF m, y
    <2>2. QED
      BY <1>4, <2>1, UptoIs
  <1> HIDE DEF y, m
  <1>8. k < m => Least(k, m) = k /\ Least(k + 1, m) = k + 1
    BY <1>2, <1>4 DEF Least
  <1>9. k >= m => Least(k, m) = m /\ Least(k + 1, m) = m
    BY <1>2, <1>4 DEF Least
  <1>10. QED
    BY <1>2, <1>4, <1>5, <1>6, <1>7, <1>8, <1>9 DEF y, m

\* Where a field of the source has its others: all smaller ones in front.
LEMMA BeforeAll ==
  ASSUME NEW s \in Good, NEW i \in 1..Len(s.flds), NEW g \in Fields
  PROVE  /\ g < s.flds[i].id => Before(s, i, g) = Len(Occs(s, g))
         /\ g > s.flds[i].id => Before(s, i, g) = 0
  <1> DEFINE n == Len(s.flds)
             f == s.flds[i].id
  <1>1. s.flds \in Seq(Fld) /\ Sorted(s.flds) /\ n \in Nat /\ i \in 1..n + 1 /\ i \in Nat
    BY GoodIs
  <1>2. f \in Nat /\ g \in Nat
    BY <1>1, FldOf, Fml32Assumption
  <1>3. CASE g < f
    <2>1. PICK p, q : Span(s.flds, g, p, q)
      BY SpanOf
    <2>2. Stretch(s, g, p, q)
      BY <2>1, StretchIs
    <2>3. /\ p \in Int /\ q \in Int /\ p >= 1 /\ q >= p /\ q <= n + 1
          /\ \A k \in 1..n : s.flds[k].id = g <=> k \in p..(q - 1)
          /\ Len(Occs(s, g)) = q - p
      <3>1. /\ p \in 1..n + 1 /\ q \in p..n + 1
            /\ p \in Int /\ q \in Int
            /\ \A k \in 1..n : s.flds[k].id = g <=> k \in p..(q - 1)
            /\ Len(Occs(s, g)) = q - p
        BY <2>2 DEF Stretch
      <3> HIDE DEF n
      <3>2. QED
        BY <1>1, <3>1
    <2>4. q > p => q <= i
      <3>1. SUFFICES ASSUME q > p, q > i PROVE FALSE
        BY <1>1, <2>3
      <3> DEFINE k == q - 1
      <3>2. k \in 1..n /\ i \in 1..n /\ i <= k /\ k \in p..(q - 1)
        BY <1>1, <2>3, <3>1
      <3> HIDE DEF k
      <3>3. s.flds[k].id = g
        BY <2>3, <3>2
      <3>4. s.flds[i].id <= s.flds[k].id
        BY <1>1, <3>2, SortedAll
      <3>5. QED
        BY <1>2, <1>3, <3>3, <3>4
    <2>5. Before(s, i, g) = IF i <= p THEN 0 ELSE IF i <= q THEN i - p ELSE q - p
      <3> HIDE DEF n, f
      <3> QED
        BY <1>1, <2>1, BeforeIs DEF n
    <2>6. Before(s, i, g) = q - p
      BY <1>1, <2>3, <2>4, <2>5
    <2>7. QED
      BY <1>2, <1>3, <2>3, <2>6
  <1>4. CASE g > f
    <2>1. ASSUME NEW k \in 1..(i - 1) PROVE s.flds[k].id # g
      <3>1. k \in 1..n /\ k <= i
        BY <1>1
      <3>2. s.flds[k].id <= f /\ s.flds[k].id \in Nat
        BY <1>1, <3>1, SortedAll, FldOf
      <3>3. QED
        BY <1>2, <1>4, <3>2
    <2>2. Before(s, i, g) = 0
      BY <2>1, BeforeNone
    <2>3. QED
      BY <1>2, <1>4, <2>2
  <1>5. QED
    BY <1>2, <1>3, <1>4

LEMMA PartTake ==
  ASSUME NEW s \in Good, NEW C, Within(C, s), NEW i \in 1..Len(s.flds)
  PROVE  \E f \in Fields : \E m \in 0..Len(C[f]) : Part(C, s, i - 1) = Promised!Take(C, f, m)
  <1> DEFINE j == i - 1
             n == Len(s.flds)
             f == s.flds[i].id
             m == Least(Before(s, i, f), Len(C[f]))
  <1>1. n \in Nat /\ j \in 0..n /\ j + 1 = i
    BY GoodIs
  <1>2. f \in Fields /\ f \in Nat
    BY SourceIs, Fml32Assumption
  <1> HIDE DEF f
  <1>3. ASSUME NEW g \in Fields
        PROVE  /\ C[g] \in Seq(Nat) /\ Len(C[g]) \in Nat
               /\ Least(Before(s, i, g), Len(C[g])) \in 0..Len(C[g])
               /\ Part(C, s, j)[g] = Upto(C[g], Least(Before(s, i, g), Len(C[g])))
    <2>1. /\ C[g] \in Seq(Nat) /\ Len(C[g]) \in Nat
          /\ Least(Before(s, j + 1, g), Len(C[g])) \in 0..Len(C[g])
          /\ Part(C, s, j)[g] = Upto(C[g], Least(Before(s, j + 1, g), Len(C[g])))
      <3> HIDE DEF j
      <3> QED
        BY Zenon, <1>1, PartType
    <2>2. j + 1 = i
      BY <1>1
    <2>3. QED
      BY <2>1, <2>2
  <1> HIDE DEF j
  <1>4. m \in 0..Len(C[f])
    BY <1>2, <1>3
  <1> HIDE DEF m
  <1>5. ASSUME NEW g \in Fields
        PROVE  Part(C, s, j)[g] = IF g < f THEN C[g] ELSE IF g = f THEN SubSeq(C[g], 1, m) ELSE <<>>
    <2>1. g \in Nat
      BY Fml32Assumption
    <2> DEFINE y == C[g]
               l == Len(y)
               k == Least(Before(s, i, g), l)
    <2>2. y \in Seq(Nat) /\ l \in Nat /\ k \in 0..l /\ Part(C, s, j)[g] = Upto(y, k)
      BY <1>3
    <2>3. l <= Len(Occs(s, g)) /\ Len(Occs(s, g)) \in Nat
      BY OccsType DEF Within
    <2>4. CASE g < f
      <3>1. Before(s, i, g) = Len(Occs(s, g))
        BY <2>4, BeforeAll DEF f
      <3>2. k = l
        <4> DEFINE o == Len(Occs(s, g))
        <4>1. o \in Nat /\ l <= o /\ k = Least(o, l)
          BY <2>3, <3>1
        <4> HIDE DEF o, l, k
        <4>2. QED
          BY <2>2, <4>1 DEF Least
      <3> HIDE DEF k
      <3>3. Upto(y, k) = y
        <4>1. k \in 0..Len(y) /\ k = Len(y)
          BY <2>2, <3>2
        <4> HIDE DEF y, l
        <4>2. QED
          BY <2>2, <4>1, UptoIs
      <3>4. QED
        BY <2>2, <2>4, <3>3
    <2>5. CASE g = f
      <3>1. k = m
        BY <2>5 DEF m
      <3>2. ~(g < f)
        BY <1>2, <2>5
      <3>3. QED
        BY <2>2, <2>5, <3>1, <3>2 DEF Upto
    <2>6. CASE g > f
      <3>1. Before(s, i, g) = 0
        BY <2>6, BeforeAll DEF f
      <3>2. k = 0
        <4> HIDE DEF l
        <4> QED
          BY <2>2, <3>1 DEF Least
      <3> HIDE DEF k
      <3>3. Upto(y, k) = <<>>
        <4>1. k \in 0..Len(y)
          BY <2>2
        <4> HIDE DEF y, l
        <4>2. QED
          BY <2>2, <3>2, <4>1, UptoIs
      <3>4. ~(g < f) /\ g # f
        BY <1>2, <2>1, <2>6
      <3>5. QED
        BY <2>2, <3>3, <3>4
    <2>7. QED
      BY <1>2, <2>1, <2>4, <2>5, <2>6
  <1>6. Part(C, s, j) = Promised!Take(C, f, m)
    <2>1. Part(C, s, j) = [g \in Fields |-> Part(C, s, j)[g]]
      BY DEF Part
    <2>2. Part(C, s, j) = [g \in Fields |->
                             IF g < f THEN C[g] ELSE IF g = f THEN SubSeq(C[g], 1, m) ELSE <<>>]
      BY <1>5, <2>1
    <2>3. QED
      BY <2>2 DEF Promised!Take
  <1>7. QED
    BY <1>2, <1>4, <1>6 DEF j

LEMMA ContentsType ==
  ASSUME NEW b \in Good
  PROVE  /\ Contents(b) \in [Fields -> Seq(Nat)] /\ Within(Contents(b), b)
         /\ \A g \in Fields : Contents(b)[g] = Occs(b, g)
  <1>1. \A g \in Fields : Occs(b, g) \in Seq(Nat) /\ Len(Occs(b, g)) \in Nat
    BY OccsType
  <1>2. Contents(b) \in [Fields -> Seq(Nat)] /\ \A g \in Fields : Contents(b)[g] = Occs(b, g)
    BY <1>1 DEF Contents
  <1>3. QED
    BY <1>1, <1>2 DEF Within

\* Applied over D, from the first occurrence of each field on.
Overlaid(r, D, C, m) ==
  /\ r \in Res /\ r.b.size = m
  /\ r.rc = "ok" => Has(r.b, Promised!Overlay(D, C))
  /\ r.rc # "ok" => \E f \in Fields : \E k \in 0..Len(C[f]) :
                      Has(r.b, Promised!Overlay(D, Promised!Take(C, f, k)))

OverlayStep(r, w, x, y, f, k) ==
  /\ k < Len(y) /\ Occs(w.b, f) = Over(x, Upto(y, k)) =>
       Moved(r, w.b, f, Promised!PutAt(Occs(w.b, f), k, y[k + 1]))
  /\ k >= Len(y) /\ Occs(w.b, f) = Over(x, y) => Moved(r, w.b, f, Occs(w.b, f))

Overlays(h, s, D, C) ==
  \A i \in 1..Len(s.flds), f \in Fields, k \in Nat :
    f = s.flds[i].id /\ k = Before(s, i, f) /\ h[i - 1] \in Res /\ h[i - 1].rc = "ok" =>
      OverlayStep(h[i], h[i - 1], D[f], C[f], f, k)

LEMMA OverlayRuns ==
  ASSUME NEW d \in Good, NEW s \in Good, NEW D, D = Contents(d), NEW C, Within(C, s),
         NEW h, Stays(h, d, s), Overlays(h, s, D, C)
  PROVE  Overlaid(h[Len(s.flds)], D, C, d.size)
  <1> DEFINE n == Len(s.flds)
             P(i) == Part(C, s, i)
             T == [i \in 0..n |-> Promised!Overlay(D, P(i))]
             r == h[n]
  <1>1. n \in Nat /\ 0 \in 0..n /\ n \in 0..n
    BY GoodIs
  <1>2. ASSUME NEW i \in 0..n, NEW g \in Fields PROVE T[i][g] = Over(D[g], P(i)[g])
    BY DEF Promised!Overlay, Over
  <1>3. \A g \in Fields : D[g] \in Seq(Nat) /\ D[g] = Occs(d, g) /\ C[g] \in Seq(Nat)
    BY ContentsType DEF Within
  <1> HIDE DEF T
  <1>4. Has(d, T[0])
    <2>1. ASSUME NEW g \in Fields PROVE Occs(d, g) = T[0][g]
      <3>1. T[0][g] = Over(D[g], Upto(C[g], 0))
        BY <1>1, <1>2, PartEnds
      <3>2. QED
        BY <1>3, <3>1, OverNone
    <2>2. QED
      BY <2>1 DEF Has
  <1>5. Stepwise(T, s)
    <2> SUFFICES ASSUME NEW i \in 1..n, NEW g \in Fields \ {s.flds[i].id}
                 PROVE  T[i][g] = T[i - 1][g]
      BY DEF Stepwise
    <2>1. i \in 0..n /\ i - 1 \in 0..n
      BY <1>1
    <2>2. P(i)[g] = P(i - 1)[g]
      BY PartStep
    <2> HIDE DEF P
    <2>3. QED
      BY <1>2, <2>1, <2>2
  <1>6. Follow(h, s, T)
    <2> SUFFICES ASSUME NEW i \in 1..n, NEW f, f = s.flds[i].id, NEW w, w = h[i - 1],
                        w \in Res, w.rc = "ok", Has(w.b, T[i - 1])
                 PROVE  Moved(h[i], w.b, f, T[i][f])
      BY DEF Follow
    <2> DEFINE k == Before(s, i, f)
               y == C[f]
               x == D[f]
               z == Occs(w.b, f)
    <2>1. i \in 0..n /\ i - 1 \in 0..n
      BY <1>1
    <2>2. /\ f \in Fields /\ k \in Nat
          /\ k < Len(y) => P(i - 1)[f] = Upto(y, k) /\ P(i)[f] = Upto(y, k + 1)
          /\ k >= Len(y) => P(i - 1)[f] = y /\ P(i)[f] = y
      BY PartStep
    <2>8. OverlayStep(h[i], w, x, y, f, k)
      BY <2>2 DEF Overlays
    <2> HIDE DEF P, k
    <2>3. z = Over(x, P(i - 1)[f]) /\ T[i][f] = Over(x, P(i)[f])
      BY <1>2, <2>1, <2>2 DEF Has
    <2>4. x \in Seq(Nat) /\ y \in Seq(Nat) /\ Len(y) \in Nat
      BY <1>3, <2>2
    <2>5. CASE k < Len(y)
      <3>1. z = Over(x, Upto(y, k)) /\ T[i][f] = Over(x, Upto(y, k + 1))
        BY <2>2, <2>3, <2>5
      <3>2. Moved(h[i], w.b, f, Promised!PutAt(z, k, y[k + 1]))
        BY <2>5, <2>8, <3>1 DEF OverlayStep
      <3> HIDE DEF x, y, z
      <3>3. Promised!PutAt(z, k, y[k + 1]) = Over(x, Upto(y, k + 1))
        BY <2>2, <2>4, <2>5, <3>1, OverNext
      <3>4. QED
        BY <3>1, <3>2, <3>3
    <2>6. CASE k >= Len(y)
      <3>1. z = Over(x, y) /\ T[i][f] = Over(x, y)
        BY <2>2, <2>3, <2>6
      <3>2. Moved(h[i], w.b, f, z)
        BY <2>6, <2>8, <3>1 DEF OverlayStep
      <3>3. QED
        BY <3>1, <3>2
    <2>7. QED
      BY <2>2, <2>4, <2>5, <2>6
  <1>7. Applied(r, T, n, d.size)
    BY <1>4, <1>5, <1>6, EachIs
  <1>8. r.rc = "ok" => Has(r.b, Promised!Overlay(D, C))
    <2>1. T[n] = Promised!Overlay(D, C)
      BY <1>1, PartEnds DEF T
    <2>2. QED
      BY <1>7, <2>1 DEF Applied
  <1>9. r.rc # "ok" => \E f \in Fields : \E k \in 0..Len(C[f]) :
                         Has(r.b, Promised!Overlay(D, Promised!Take(C, f, k)))
    <2>1. SUFFICES ASSUME r.rc # "ok"
                   PROVE  \E f \in Fields : \E k \in 0..Len(C[f]) :
                            Has(r.b, Promised!Overlay(D, Promised!Take(C, f, k)))
      OBVIOUS
    <2>2. PICK i \in 1..n : Has(r.b, T[i - 1])
      BY <1>7, <2>1 DEF Applied
    <2>3. PICK f \in Fields : \E k \in 0..Len(C[f]) : P(i - 1) = Promised!Take(C, f, k)
      BY PartTake
    <2>4. T[i - 1] = Promised!Overlay(D, P(i - 1))
      <3>1. i - 1 \in 0..n
        BY <1>1
      <3> HIDE DEF P
      <3>2. QED
        BY <3>1 DEF T
    <2>5. PICK k \in 0..Len(C[f]) : P(i - 1) = Promised!Take(C, f, k)
      BY <2>3
    <2>6. QED
      BY <2>2, <2>4, <2>5
  <1>10. QED
    BY <1>7, <1>8, <1>9 DEF Applied, Overlaid

\* Applied behind D.
Appended(r, D, C, m) ==
  /\ r \in Res /\ r.b.size = m
  /\ r.rc = "ok" => Has(r.b, Promised!Append2(D, C))
  /\ r.rc # "ok" => \E f \in Fields : \E k \in 0..Len(C[f]) :
                      Has(r.b, Promised!Append2(D, Promised!Take(C, f, k)))

\* The sequence y behind x.
Chained(x, y) == x \o y

AppendStep(r, w, x, y, f, k) ==
  /\ k < Len(y) /\ Occs(w.b, f) = Chained(x, Upto(y, k)) =>
       Moved(r, w.b, f, Promised!PutAt(Occs(w.b, f), Len(Occs(w.b, f)), y[k + 1]))
  /\ k >= Len(y) /\ Occs(w.b, f) = Chained(x, y) => Moved(r, w.b, f, Occs(w.b, f))

Appends(h, s, D, C) ==
  \A i \in 1..Len(s.flds), f \in Fields, k \in Nat :
    f = s.flds[i].id /\ k = Before(s, i, f) /\ h[i - 1] \in Res /\ h[i - 1].rc = "ok" =>
      AppendStep(h[i], h[i - 1], D[f], C[f], f, k)

LEMMA AppendRuns ==
  ASSUME NEW d \in Good, NEW s \in Good, NEW D, D = Contents(d), NEW C, Within(C, s),
         NEW h, Stays(h, d, s), Appends(h, s, D, C)
  PROVE  Appended(h[Len(s.flds)], D, C, d.size)
  <1> DEFINE n == Len(s.flds)
             P(i) == Part(C, s, i)
             T == [i \in 0..n |-> Promised!Append2(D, P(i))]
             r == h[n]
  <1>1. n \in Nat /\ 0 \in 0..n /\ n \in 0..n
    BY GoodIs
  <1>2. ASSUME NEW i \in 0..n, NEW g \in Fields PROVE T[i][g] = Chained(D[g], P(i)[g])
    BY DEF Promised!Append2, Chained
  <1>3. \A g \in Fields : D[g] \in Seq(Nat) /\ D[g] = Occs(d, g) /\ C[g] \in Seq(Nat)
    BY ContentsType DEF Within
  <1> HIDE DEF T
  <1>4. Has(d, T[0])
    <2>1. ASSUME NEW g \in Fields PROVE Occs(d, g) = T[0][g]
      <3>1. T[0][g] = Chained(D[g], Upto(C[g], 0))
        BY <1>1, <1>2, PartEnds
      <3>2. QED
        BY <1>3, <3>1, ConcatNone DEF Chained
    <2>2. QED
      BY <2>1 DEF Has
  <1>5. Stepwise(T, s)
    <2> SUFFICES ASSUME NEW i \in 1..n, NEW g \in Fields \ {s.flds[i].id}
                 PROVE  T[i][g] = T[i - 1][g]
      BY DEF Stepwise
    <2>1. i \in 0..n /\ i - 1 \in 0..n
      BY <1>1
    <2>2. P(i)[g] = P(i - 1)[g]
      BY PartStep
    <2> HIDE DEF P
    <2>3. QED
      BY <1>2, <2>1, <2>2
  <1>6. Follow(h, s, T)
    <2> SUFFICES ASSUME NEW i \in 1..n, NEW f, f = s.flds[i].id, NEW w, w = h[i - 1],
                        w \in Res, w.rc = "ok", Has(w.b, T[i - 1])
                 PROVE  Moved(h[i], w.b, f, T[i][f])
      BY DEF Follow
    <2> DEFINE k == Before(s, i, f)
               y == C[f]
               x == D[f]
               z == Occs(w.b, f)
    <2>1. i \in 0..n /\ i - 1 \in 0..n
      BY <1>1
    <2>2. /\ f \in Fields /\ k \in Nat
          /\ k < Len(y) => P(i - 1)[f] = Upto(y, k) /\ P(i)[f] = Upto(y, k + 1)
          /\ k >= Len(y) => P(i - 1)[f] = y /\ P(i)[f] = y
      BY PartStep
    <2>8. AppendStep(h[i], w, x, y, f, k)
      BY <2>2 DEF Appends
    <2> HIDE DEF P, k
    <2>3. z = Chained(x, P(i - 1)[f]) /\ T[i][f] = Chained(x, P(i)[f])
      BY <1>2, <2>1, <2>2 DEF Has
    <2>4. x \in Seq(Nat) /\ y \in Seq(Nat) /\ Len(y) \in Nat
      BY <1>3, <2>2
    <2>5. CASE k < Len(y)
      <3>1. z = Chained(x, Upto(y, k)) /\ T[i][f] = Chained(x, Upto(y, k + 1))
        BY Zenon, <2>2, <2>3, <2>5
      <3>2. Moved(h[i], w.b, f, Promised!PutAt(z, Len(z), y[k + 1]))
        <4> HIDE DEF x, y
        <4> QED
          BY <2>5, <2>8, <3>1 DEF AppendStep
      <3> HIDE DEF x, y, z
      <3>3. Promised!PutAt(z, Len(z), y[k + 1]) = Chained(x, Upto(y, k + 1))
        BY <2>2, <2>4, <2>5, <3>1, ConcatNext DEF Chained
      <3>4. QED
        BY <3>1, <3>2, <3>3
    <2>6. CASE k >= Len(y)
      <3>1. z = Chained(x, y) /\ T[i][f] = Chained(x, y)
        BY Zenon, <2>2, <2>3, <2>6
      <3>2. Moved(h[i], w.b, f, z)
        BY <2>6, <2>8, <3>1 DEF AppendStep
      <3>3. QED
        BY Zenon, <3>1, <3>2
    <2>7. QED
      BY <2>2, <2>4, <2>5, <2>6
  <1>7. Applied(r, T, n, d.size)
    BY <1>4, <1>5, <1>6, EachIs
  <1>8. r.rc = "ok" => Has(r.b, Promised!Append2(D, C))
    <2>1. T[n] = Promised!Append2(D, C)
      BY <1>1, PartEnds DEF T
    <2>2. QED
      BY <1>7, <2>1 DEF Applied
  <1>9. r.rc # "ok" => \E f \in Fields : \E k \in 0..Len(C[f]) :
                         Has(r.b, Promised!Append2(D, Promised!Take(C, f, k)))
    <2>1. SUFFICES ASSUME r.rc # "ok"
                   PROVE  \E f \in Fields : \E k \in 0..Len(C[f]) :
                            Has(r.b, Promised!Append2(D, Promised!Take(C, f, k)))
      OBVIOUS
    <2>2. PICK i \in 1..n : Has(r.b, T[i - 1])
      BY <1>7, <2>1 DEF Applied
    <2>3. PICK f \in Fields : \E k \in 0..Len(C[f]) : P(i - 1) = Promised!Take(C, f, k)
      BY PartTake
    <2>4. T[i - 1] = Promised!Append2(D, P(i - 1))
      <3>1. i - 1 \in 0..n
        BY <1>1
      <3> HIDE DEF P
      <3>2. QED
        BY <3>1 DEF T
    <2>5. PICK k \in 0..Len(C[f]) : P(i - 1) = Promised!Take(C, f, k)
      BY <2>3
    <2>6. QED
      BY <2>2, <2>4, <2>5
  <1>10. QED
    BY <1>7, <1>8, <1>9 DEF Applied, Appended

\* An occurrence of the source.
LEMMA SourceAt ==
  ASSUME NEW s \in Good, NEW i \in 1..Len(s.flds), NEW f, f = s.flds[i].id,
         NEW k, k = Before(s, i, f)
  PROVE  /\ f \in Fields /\ k \in Nat /\ k < Len(Occs(s, f))
         /\ s.flds[i].val \in Nat /\ Occs(s, f)[k + 1] = s.flds[i].val
  <1>1. f \in Fields /\ s.flds[i].val \in Nat
    BY SourceIs
  <1>2. Len(Occs(s, f)) \in Nat
    BY <1>1, OccsType
  <1>3. k \in 0..(Len(Occs(s, f)) - 1) /\ Occs(s, f)[k + 1] = s.flds[i].val
    BY <1>1, BeforeAt
  <1> DEFINE n == Len(Occs(s, f))
  <1>4. k \in Nat /\ k < n
    <2>1. n \in Nat /\ k \in 0..(n - 1)
      BY <1>2, <1>3
    <2> HIDE DEF n
    <2>2. QED
      BY <2>1
  <1>5. QED
    BY <1>1, <1>3, <1>4

LEMMA UpdateIs ==
  ASSUME NEW d \in Good, NEW s \in Good
  PROVE  Overlaid(update(d, s), Contents(d), Contents(s), d.size)
  <1> DEFINE D == Contents(d)
             C == Contents(s)
  <1>1. PICK h : /\ Stays(h, d, s) /\ Updating(h, s)
                 /\ update(d, s) = h[Len(s.flds)]
    BY UpdateRounds
  <1>2. Within(C, s)
    BY ContentsType
  <1>3. \A g \in Fields : D[g] \in Seq(Nat) /\ C[g] \in Seq(Nat) /\ C[g] = Occs(s, g)
    BY ContentsType
  <1> HIDE DEF D, C
  <1>4. Overlays(h, s, D, C)
    <2> SUFFICES ASSUME NEW i \in 1..Len(s.flds), NEW f, f = s.flds[i].id,
                        NEW k, k = Before(s, i, f), NEW w, w = h[i - 1], w \in Res, w.rc = "ok"
                 PROVE  OverlayStep(h[i], w, D[f], C[f], f, k)
      BY Zenon DEF Overlays
    <2> SUFFICES /\ k < Len(C[f]) /\ Occs(w.b, f) = Over(D[f], Upto(C[f], k)) =>
                      Moved(h[i], w.b, f, Promised!PutAt(Occs(w.b, f), k, C[f][k + 1]))
                 /\ ~(k >= Len(C[f]))
      BY DEF OverlayStep
    <2> DEFINE c == w.b
               y == C[f]
               x == D[f]
               z == Occs(c, f)
               v == s.flds[i].val
    <2>1. f \in Fields /\ k \in Nat /\ k < Len(Occs(s, f)) /\ v \in Nat /\ Occs(s, f)[k + 1] = v
      BY SourceAt
    <2>2. x \in Seq(Nat) /\ y \in Seq(Nat) /\ k < Len(y) /\ Len(y) \in Nat /\ y[k + 1] = v
      BY <1>3, <2>1
    <2>3. c \in Good
      BY DEF Res
    <2>4. h[i] = chg(c, f, k, v)
      BY <1>1 DEF Updating
    <2> HIDE DEF c, x, y, v
    <2>5. ASSUME z = Over(x, Upto(y, k)) PROVE Moved(h[i], c, f, Promised!PutAt(z, k, y[k + 1]))
      <3>1. k <= Len(z)
        <4> HIDE DEF z
        <4> QED
          BY <2>1, <2>2, <2>5, OverNext
      <3>2. Moved(chg(c, f, k, v), c, f, Promised!PutAt(z, k, v))
        BY <2>1, <2>3, <3>1, ChgNext
      <3>3. QED
        BY <2>2, <2>4, <3>2
    <2>6. ~(k >= Len(y))
      BY <2>1, <2>2
    <2>7. QED
      BY <2>5, <2>6 DEF c, x, y
  <1>5. Overlaid(h[Len(s.flds)], D, C, d.size)
    BY <1>1, <1>2, <1>4, OverlayRuns DEF D
  <1>6. QED
    BY <1>1, <1>5 DEF D, C

LEMMA ConcatIs ==
  ASSUME NEW d \in Good, NEW s \in Good
  PROVE  \/ concat(d, s) = Fail(d, "FNOSPACE")
         \/ Appended(concat(d, s), Contents(d), Contents(s), d.size)
  <1> DEFINE D == Contents(d)
             C == Contents(s)
  <1>1. CASE d.size - d.len < used(s)
    BY <1>1 DEF concat
  <1>2. CASE ~(d.size - d.len < used(s))
    <2>1. PICK h : /\ Stays(h, d, s) /\ Adding(h, s)
                   /\ concat(d, s) = h[Len(s.flds)]
      BY <1>2, ConcatRounds
    <2>2. Within(C, s)
      BY ContentsType
    <2>3. \A g \in Fields : D[g] \in Seq(Nat) /\ C[g] \in Seq(Nat) /\ C[g] = Occs(s, g)
      BY ContentsType
    <2> HIDE DEF D, C
    <2>4. Appends(h, s, D, C)
      <3> SUFFICES ASSUME NEW i \in 1..Len(s.flds), NEW f, f = s.flds[i].id,
                          NEW k, k = Before(s, i, f), NEW w, w = h[i - 1], w \in Res, w.rc = "ok"
                   PROVE  AppendStep(h[i], w, D[f], C[f], f, k)
        BY Zenon DEF Appends
      <3> SUFFICES /\ Moved(h[i], w.b, f, Promised!PutAt(Occs(w.b, f), Len(Occs(w.b, f)),
                                                         C[f][k + 1]))
                   /\ ~(k >= Len(C[f]))
        BY Zenon DEF AppendStep
      <3> DEFINE c == w.b
                 y == C[f]
                 z == Occs(c, f)
                 n == Len(z)
                 v == s.flds[i].val
      <3>1. f \in Fields /\ k \in Nat /\ k < Len(Occs(s, f)) /\ v \in Nat /\ Occs(s, f)[k + 1] = v
        BY SourceAt
      <3>2. y \in Seq(Nat) /\ k < Len(y) /\ Len(y) \in Nat /\ y[k + 1] = v
        BY <2>3, <3>1
      <3>3. c \in Good
        BY DEF Res
      <3>4. h[i] = chg(c, f, occur(c, f), v)
        BY <2>1 DEF Adding
      <3>5. n \in Nat /\ n <= Len(Occs(c, f)) /\ occur(c, f) = n
        BY <3>1, <3>3, OccsType
      <3> HIDE DEF c, y, v, n
      <3>6. Moved(chg(c, f, n, v), c, f, Promised!PutAt(z, n, v))
        BY <3>1, <3>3, <3>5, ChgNext
      <3>7. ~(k >= Len(y))
        BY <3>1, <3>2
      <3>8. QED
        BY Zenon, <3>2, <3>4, <3>5, <3>6, <3>7 DEF c, y, n
    <2>5. Appended(h[Len(s.flds)], D, C, d.size)
      BY <2>1, <2>2, <2>4, AppendRuns DEF D
    <2>6. QED
      BY <2>1, <2>5 DEF D, C
  <1>3. QED
    BY <1>1, <1>2

\* C[g] is as much of B[g] as D[g] has occurrences.
InCommon(C, D, B, g) ==
  /\ Least(Len(B[g]), Len(D[g])) \in 0..Len(B[g])
  /\ C[g] = Upto(B[g], Least(Len(B[g]), Len(D[g])))
  /\ C[g] \in Seq(Nat) /\ Len(C[g]) = Least(Len(B[g]), Len(D[g]))
  /\ \A j \in 1..Len(C[g]) : C[g][j] = B[g][j]

LEMMA CommonIs ==
  ASSUME NEW D, NEW B, NEW g \in Fields, D[g] \in Seq(Nat), B[g] \in Seq(Nat),
         NEW C, C = Promised!Common(D, B)
  PROVE  InCommon(C, D, B, g)
  <1> DEFINE y == B[g]
             x == D[g]
             m == Len(y)
             n == Len(x)
             l == Least(m, n)
  <1>1. y \in Seq(Nat) /\ x \in Seq(Nat) /\ m \in Nat /\ n \in Nat
    OBVIOUS
  <1>2. Promised!Min({m, n}) = l
    <2> HIDE DEF m, n
    <2>1. l \in {m, n} /\ \A z \in {m, n} : l <= z
      BY <1>1 DEF Least
    <2>2. \A z \in {m, n} : (\A u \in {m, n} : z <= u) => z = l
      BY <1>1 DEF Least
    <2>3. QED
      BY <2>1, <2>2 DEF Promised!Min
  <1>3. C[g] = Upto(y, l)
    BY <1>2 DEF Promised!Common, Upto
  <1>4. l \in 0..Len(y)
    BY <1>1 DEF Least
  <1> HIDE DEF l, y
  <1>5. Upto(y, l) \in Seq(Nat) /\ Len(Upto(y, l)) = l /\ \A j \in 1..l : Upto(y, l)[j] = y[j]
    BY <1>1, <1>4, UptoIs
  <1>6. QED
    BY <1>3, <1>4, <1>5 DEF l, y, InCommon

LEMMA OjoinIs ==
  ASSUME NEW d \in Good, NEW s \in Good
  PROVE  Overlaid(ojoin(d, s), Contents(d), Promised!Common(Contents(d), Contents(s)), d.size)
  <1> DEFINE D == Contents(d)
             B == Contents(s)
             C == Promised!Common(D, B)
  <1>1. PICK h : /\ Stays(h, d, s) /\ Ojoining(h, s)
                 /\ ojoin(d, s) = h[Len(s.flds)]
    BY OjoinRounds
  <1>2. \A g \in Fields : /\ D[g] \in Seq(Nat) /\ B[g] \in Seq(Nat) /\ B[g] = Occs(s, g)
                          /\ Len(D[g]) \in Nat /\ Len(B[g]) \in Nat
    BY ContentsType
  <1> HIDE DEF D, B
  <1>3. ASSUME NEW g \in Fields
        PROVE  /\ Least(Len(B[g]), Len(D[g])) \in 0..Len(B[g])
               /\ C[g] = Upto(B[g], Least(Len(B[g]), Len(D[g])))
               /\ C[g] \in Seq(Nat) /\ Len(C[g]) = Least(Len(B[g]), Len(D[g]))
               /\ \A j \in 1..Len(C[g]) : C[g][j] = B[g][j]
    <2>1. D[g] \in Seq(Nat) /\ B[g] \in Seq(Nat) /\ C = Promised!Common(D, B)
      BY <1>2
    <2> HIDE DEF C
    <2>2. InCommon(C, D, B, g)
      BY <2>1, CommonIs
    <2>3. QED
      BY <2>2 DEF InCommon
  <1>4. Within(C, s)
    <2>1. C = [g \in Fields |-> C[g]]
      BY DEF Promised!Common
    <2> HIDE DEF C
    <2>2. C \in [Fields -> Seq(Nat)]
      BY <1>3, <2>1
    <2>3. \A g \in Fields : Len(C[g]) <= Len(Occs(s, g))
      BY <1>2, <1>3
    <2>4. QED
      BY <2>2, <2>3 DEF Within
  <1> HIDE DEF C
  <1>5. Overlays(h, s, D, C)
    <2> SUFFICES ASSUME NEW i \in 1..Len(s.flds), NEW f, f = s.flds[i].id,
                        NEW k, k = Before(s, i, f), NEW w, w = h[i - 1], w \in Res, w.rc = "ok"
                 PROVE  OverlayStep(h[i], w, D[f], C[f], f, k)
      BY Zenon DEF Overlays
    <2> SUFFICES /\ k < Len(C[f]) /\ Occs(w.b, f) = Over(D[f], Upto(C[f], k)) =>
                      Moved(h[i], w.b, f, Promised!PutAt(Occs(w.b, f), k, C[f][k + 1]))
                 /\ k >= Len(C[f]) /\ Occs(w.b, f) = Over(D[f], C[f]) =>
                      Moved(h[i], w.b, f, Occs(w.b, f))
      BY DEF OverlayStep
    <2> DEFINE c == w.b
               y == C[f]
               x == D[f]
               b == B[f]
               z == Occs(c, f)
               v == s.flds[i].val
    <2>1. f \in Fields /\ k \in Nat /\ k < Len(Occs(s, f)) /\ v \in Nat /\ Occs(s, f)[k + 1] = v
      BY SourceAt
    <2>2. /\ x \in Seq(Nat) /\ y \in Seq(Nat) /\ Len(y) = Least(Len(b), Len(x))
          /\ Len(x) \in Nat /\ Len(b) \in Nat /\ k < Len(b) /\ b[k + 1] = v
          /\ \A j \in 1..Len(y) : y[j] = b[j]
      BY <1>2, <1>3, <2>1
    <2>3. c \in Good
      BY DEF Res
    <2>4. h[i] = IF pres(c, f, k) THEN chg(c, f, k, v) ELSE Done(c)
      BY <1>1 DEF Ojoining
    <2>5. (pres(c, f, k) <=> k \in 0..(Len(z) - 1)) /\ Len(z) \in Nat /\ k \in Int
      <3>1. k \in Int
        BY <2>1
      <3> HIDE DEF c
      <3>2. pres(c, f, k) <=> k \in 0..(Len(Occs(c, f)) - 1)
        BY <2>1, <2>3, <3>1, FindIs
      <3>3. Len(Occs(c, f)) \in Nat
        BY <2>1, <2>3, OccsType
      <3>4. QED
        BY <3>1, <3>2, <3>3
    <2> HIDE DEF c, x, y, v, b
    <2>6. Len(y) <= Len(x) /\ Len(y) \in Nat
      BY <2>2 DEF Least
    <2>7. ASSUME k < Len(y), z = Over(x, Upto(y, k))
          PROVE  Moved(h[i], c, f, Promised!PutAt(z, k, y[k + 1]))
      <3>1. k <= Len(z) /\ (k < Len(z) <=> k < Len(x))
        <4> HIDE DEF z
        <4> QED
          BY <2>1, <2>2, <2>7, OverNext
      <3>2. y[k + 1] = v
        <4>1. k + 1 \in 1..Len(y)
          BY <2>1, <2>6, <2>7
        <4>2. QED
          BY <2>2, <4>1
      <3>3. pres(c, f, k)
        <4> HIDE DEF z
        <4> QED
          BY <2>1, <2>2, <2>5, <2>6, <2>7, <3>1
      <3>4. Moved(chg(c, f, k, v), c, f, Promised!PutAt(z, k, v))
        BY <2>1, <2>3, <3>1, ChgNext
      <3>5. QED
        BY <2>4, <3>2, <3>3, <3>4
    <2>8. ASSUME k >= Len(y), z = Over(x, y) PROVE Moved(h[i], c, f, z)
      <3>1. Len(z) = IF Len(x) <= Len(y) THEN Len(y) ELSE Len(x)
        BY <2>2, <2>8, OverIs
      <3> HIDE DEF z
      <3>2. ~(k < Len(z))
        BY <2>1, <2>2, <2>6, <2>8, <3>1 DEF Least
      <3>3. ~pres(c, f, k)
        BY <2>5, <3>2
      <3>4. h[i] = Done(c)
        BY <2>4, <3>3
      <3>5. QED
        BY <2>3, <3>4, DoneNext DEF z
    <2>9. QED
      BY <2>7, <2>8 DEF c, x, y
  <1>6. Overlaid(h[Len(s.flds)], D, C, d.size)
    BY <1>1, <1>4, <1>5, OverlayRuns DEF D
  <1>7. QED
    BY <1>1, <1>6 DEF C, D, B

\* A buffer without fields.
LEMMA InitIs ==
  ASSUME NEW n \in Int, n >= min_size
  PROVE  /\ init(n) \in Good /\ init(n).size = n - min_size
         /\ Contents(init(n)) = Promised!Empty
  <1> DEFINE b == init(n)
  <1>1. /\ b.size = n - min_size /\ b.len = 0 /\ b.off = [t \in Type |-> 0] /\ b.flds = <<>>
        /\ b = [size |-> n - min_size, len |-> 0, off |-> [t \in Type |-> 0], flds |-> <<>>]
    BY DEF init
  <1>2. b.flds \in Seq(Fld) /\ Len(b.flds) = 0 /\ min_size \in Nat
    BY <1>1, Fml32Assumption
  <1>3. b \in Buffer
    BY <1>1, <1>2 DEF Buffer
  <1> HIDE DEF b
  <1>4. Starts(b.flds)[1] = 0
    <2> DEFINE one == 1
               s == b.flds
    <2>1. s \in Seq(Fld)
      BY <1>2
    <2> HIDE DEF s
    <2>2. QED
      BY <2>1, StartsAre DEF s
  <1>5. Sound(b)
    <2>1. Bytes(b.flds) = 0
      BY <1>2, <1>4 DEF Bytes
    <2>2. \A t \in Type, i \in 1..Len(b.flds) + 1 : b.off[t] = Starts(b.flds)[i]
      <3> TAKE t \in Type, i \in 1..Len(b.flds) + 1
      <3>1. i = 1 /\ b.off[t] = 0
        BY <1>1, <1>2
      <3>2. QED
        BY <1>4, <3>1
    <2>3. QED
      BY <1>1, <1>2, <2>1, <2>2 DEF Sound
  <1>6. b \in Good
    BY <1>3, <1>5 DEF Good
  <1>7. ASSUME NEW g \in Fields PROVE Occs(b, g) = <<>>
    <2>1. PICK p, q : Span(b.flds, g, p, q)
      BY <1>6, SpanOf
    <2>2. Stretch(b, g, p, q)
      BY <1>6, <2>1, StretchIs
    <2>3. p \in 1..1 /\ q \in p..1 /\ Occs(b, g) \in Seq(Nat) /\ Len(Occs(b, g)) = q - p
      BY <1>2, <2>2 DEF Stretch
    <2>4. Len(Occs(b, g)) = 0
      BY <2>3
    <2>5. \A s \in Seq(Nat) : Len(s) = 0 => s = <<>>
      OBVIOUS
    <2>6. QED
      BY <2>3, <2>4, <2>5
  <1>8. Contents(b) = Promised!Empty
    BY <1>7 DEF Contents, Promised!Empty
  <1>9. QED
    BY <1>1, <1>6, <1>8 DEF b

LEMMA ProjcpyIs ==
  ASSUME NEW d \in Good, NEW s \in Good, NEW K
  PROVE  Appended(projcpy(d, s, K), Promised!Empty, Promised!Keep(Contents(s), K), d.size)
  <1> DEFINE n == d.size + min_size
             e == init(n)
             B == Contents(s)
             C == Promised!Keep(B, K)
             D == Promised!Empty
  <1>1. e \in Good /\ e.size = d.size /\ Contents(e) = D
    <2>1. n \in Int /\ n >= min_size /\ n - min_size = d.size
      <3>1. d.size \in Int /\ d.len \in Int /\ d.len <= d.size
        BY GoodIs
      <3>2. d.len >= 0
        BY GoodIs, BytesType
      <3>3. QED
        BY <3>1, <3>2, Fml32Assumption
    <2> HIDE DEF n, D
    <2>2. QED
      BY <2>1, InitIs DEF D
  <1> HIDE DEF e
  <1>2. PICK h : /\ Stays(h, e, s) /\ Picking(h, s, K)
                 /\ projcpy(d, s, K) = h[Len(s.flds)]
    BY <1>1, ProjcpyRounds DEF e
  <1>3. \A g \in Fields : B[g] \in Seq(Nat) /\ B[g] = Occs(s, g) /\ Len(B[g]) \in Nat
    BY ContentsType
  <1> HIDE DEF B
  <1>4. \A g \in Fields : C[g] = IF g \in K THEN B[g] ELSE <<>>
    BY DEF Promised!Keep
  <1>5. Within(C, s)
    <2>1. C = [g \in Fields |-> C[g]]
      BY DEF Promised!Keep
    <2> HIDE DEF C
    <2>2. \A g \in Fields : C[g] \in Seq(Nat) /\ Len(C[g]) <= Len(Occs(s, g))
      <3> TAKE g \in Fields
      <3>1. CASE g \in K
        <4>1. C[g] = B[g] /\ B[g] \in Seq(Nat) /\ B[g] = Occs(s, g) /\ Len(B[g]) \in Nat
          BY <1>3, <1>4, <3>1
        <4>2. QED
          BY <4>1
      <3>2. CASE g \notin K
        <4>1. C[g] = <<>>
          BY <1>4, <3>2
        <4>2. C[g] \in Seq(Nat) /\ Len(C[g]) = 0 /\ Len(Occs(s, g)) \in Nat
          BY <4>1, OccsType
        <4>3. QED
          BY <4>2
      <3>3. QED
        BY <3>1, <3>2
    <2>3. C \in [Fields -> Seq(Nat)]
      BY <2>1, <2>2
    <2>4. QED
      BY <2>2, <2>3 DEF Within
  <1> HIDE DEF C, D
  <1>6. Appends(h, s, D, C)
    <2> SUFFICES ASSUME NEW i \in 1..Len(s.flds), NEW f, f = s.flds[i].id,
                        NEW k, k = Before(s, i, f), NEW w, w = h[i - 1], w \in Res, w.rc = "ok"
                 PROVE  AppendStep(h[i], w, D[f], C[f], f, k)
      BY Zenon DEF Appends
    <2> SUFFICES /\ k < Len(C[f]) =>
                      Moved(h[i], w.b, f, Promised!PutAt(Occs(w.b, f), Len(Occs(w.b, f)),
                                                         C[f][k + 1]))
                 /\ k >= Len(C[f]) => Moved(h[i], w.b, f, Occs(w.b, f))
      BY Zenon DEF AppendStep
    <2> DEFINE c == w.b
               z == Occs(c, f)
               m == Len(z)
               v == s.flds[i].val
    <2>1. f \in Fields /\ k \in Nat /\ k < Len(Occs(s, f)) /\ v \in Nat /\ Occs(s, f)[k + 1] = v
      BY SourceAt
    <2>2. c \in Good
      BY DEF Res
    <2>3. h[i] = IF f \in K THEN chg(c, f, occur(c, f), v) ELSE Done(c)
      BY <1>2 DEF Picking
    <2>4. m \in Nat /\ m <= Len(Occs(c, f)) /\ occur(c, f) = m
      BY <2>1, <2>2, OccsType
    <2> HIDE DEF c, v, m
    <2>5. CASE f \in K
      <3>1. C[f] = Occs(s, f)
        BY <1>3, <1>4, <2>1, <2>5
      <3>2. Moved(chg(c, f, m, v), c, f, Promised!PutAt(z, m, v))
        BY <2>1, <2>2, <2>4, ChgNext
      <3>3. ~(k >= Len(C[f]))
        <4>1. Len(Occs(s, f)) \in Nat
          BY <2>1, OccsType
        <4>2. QED
          BY <2>1, <3>1, <4>1
      <3>4. QED
        BY <2>1, <2>3, <2>4, <2>5, <3>1, <3>2, <3>3 DEF c, m
    <2>6. CASE f \notin K
      <3>1. C[f] = <<>>
        BY <1>4, <2>1, <2>6
      <3>2. Len(C[f]) = 0
        BY <3>1
      <3>3. ~(k < Len(C[f]))
        BY <2>1, <3>2
      <3>4. Moved(Done(c), c, f, Occs(c, f))
        BY <2>2, DoneNext
      <3>5. QED
        BY <2>3, <2>6, <3>3, <3>4 DEF c
    <2>7. QED
      BY Zenon, <2>5, <2>6
  <1>7. Appended(h[Len(s.flds)], D, C, d.size)
    BY <1>1, <1>2, <1>5, <1>6, AppendRuns
  <1>8. QED
    BY <1>2, <1>7 DEF C, D, B

\* An occurrence is added when there is room for it.
LEMMA AddFits ==
  ASSUME NEW b \in Good, NEW f \in Fields, NEW v \in Nat, NEW n, n = Len(Occs(b, f)),
         b.len + Round8(f, v) <= b.size
  PROVE  /\ chg(b, f, n, v).rc = "ok" /\ chg(b, f, n, v).b \in Good
         /\ chg(b, f, n, v).b.size = b.size
         /\ chg(b, f, n, v).b.len = b.len + Round8(f, v)
  <1> DEFINE z == Occs(b, f)
             w == Promised!PutAt(z, n, v)
             r == chg(b, f, n, v)
  <1>1. z \in Seq(Nat) /\ n \in Nat /\ n = Len(z) /\ n \in Int /\ n >= -1 /\ n # -1
    BY OccsType
  <1>2. Chosen(b, f, n) = n
    BY <1>1 DEF Chosen
  <1>3. Stored(r, b, f, n, v)
    BY <1>1, <1>2, ChgIs
  <1>4. w = Append(z, v)
    <2> HIDE DEF z, w
    <2>1. n >= Len(z) /\ n - Len(z) = 0
      BY <1>1
    <2>2. w = Append(Fill(z, n - Len(z)), v)
      BY <1>1, <2>1, PutAtIs DEF w
    <2>3. QED
      BY <1>1, <2>1, <2>2, FillNone
  <1>5. Packed(f, w) - Packed(f, z) = Round8(f, v)
    <2> HIDE DEF z, w
    <2>1. Packed(f, w) = Packed(f, z) + Round8(f, v)
      BY <1>1, <1>4, PackedAppend
    <2>2. Packed(f, z) \in Nat /\ Round8(f, v) \in Nat
      BY <1>1, PackedType, Round8Type
    <2>3. QED
      BY <2>1, <2>2
  <1> HIDE DEF r
  <1>6. Fits(b, f, w)
    BY <1>5 DEF Fits
  <1>7. r.rc = "ok" /\ Changed(r.b, b, f, w)
    BY <1>3, <1>6 DEF Stored
  <1> HIDE DEF w, z
  <1>8. r.b \in Good /\ r.b.size = b.size /\ r.b.len = b.len + (Packed(f, w) - Packed(f, z))
    BY <1>7 DEF Changed, z
  <1>9. QED
    BY <1>5, <1>7, <1>8 DEF r

\* The buffer of the reader is large enough for all lines.
LEMMA RereadingFits ==
  ASSUME NEW s \in Good, NEW e \in Good, e.len = 0, e.size = Bytes(Lines(s.flds)),
         NEW h, Stays(h, e, s), Rereading(h, s)
  PROVE  h[Len(s.flds)].rc = "ok"
  <1> DEFINE n == Len(s.flds)
             t == Lines(s.flds)
             at == Starts(t)
             m == e.size
             Up(k) == /\ h[k].rc = "ok" /\ h[k].b \in Good /\ h[k].b.size = m
                      /\ h[k].b.len = at[k + 1]
             U == {k \in Int : Up(k)}
             a == 0
  <1>1. n \in Nat /\ n \in Int /\ a \in Int /\ a <= n /\ s.flds \in Seq(Fld)
    BY GoodIs
  <1>2. /\ t \in Seq(Fld) /\ Len(t) = n
        /\ \A i \in 1..n : t[i] = [id |-> s.flds[i].id,
                                  val |-> Ftypcvt32(s.flds[i].id, s.flds[i].val)]
    BY LinesAre
  <1>3. m = at[n + 1]
    BY <1>2 DEF Bytes
  <1> HIDE DEF t
  <1>4. /\ at \in [1..n + 1 -> Nat] /\ at[1] = 0
        /\ \A i \in 1..n : at[i + 1] = at[i] + Round8(t[i].id, t[i].val)
    BY <1>2, StartsAre DEF Width
  <1>5. \A k \in 1..n : at[k + 1] <= at[n + 1]
    <2> TAKE k \in 1..n
    <2>1. k + 1 \in 1..n + 1 /\ n + 1 \in 1..n + 1 /\ (k + 1 = n + 1 \/ k + 1 < n + 1)
      BY <1>1
    <2>2. at[k + 1] \in Nat /\ at[n + 1] \in Nat
      BY <1>4, <2>1
    <2>3. k + 1 < n + 1 => at[k + 1] < at[n + 1]
      BY <1>1, <1>2, <2>1, StartsGrow
    <2>4. QED
      BY <2>1, <2>2, <2>3
  <1> HIDE DEF at, m
  <1>6. a \in U
    <2>1. h[0].b = e /\ h[0].rc = "ok"
      BY DoneFail DEF Stays
    <2>2. Up(0)
      BY <1>4, <2>1 DEF m
    <2>3. QED
      BY <2>2
  <1>7. ASSUME NEW k \in (a + 1)..n, k - 1 \in U PROVE k \in U
    <2> DEFINE j == k - 1
               f == s.flds[k].id
               v == s.flds[k].val
               u == Ftypcvt32(f, v)
               w == Round8(f, u)
               c == h[j].b
               z == Len(Occs(c, f))
               r == chg(c, f, z, u)
    <2>1. k \in 1..n /\ k \in Int /\ j \in Int /\ j + 1 = k
      OBVIOUS
    <2>2. h[j].rc = "ok" /\ c \in Good /\ c.size = m /\ c.len = at[k]
      BY <1>7, <2>1
    <2>3. f \in Fields /\ v \in Nat
      BY <2>1, SourceIs
    <2>4. at[k + 1] = at[k] + w
      <3>1. at[k + 1] = at[k] + Round8(t[k].id, t[k].val)
        BY <1>4, <2>1
      <3>2. t[k].id = f /\ t[k].val = u
        <4>1. t[k] = [id |-> f, val |-> u]
          BY <1>2, <2>1
        <4> HIDE DEF f, u
        <4>2. QED
          BY <4>1
      <3>3. QED
        BY <3>1, <3>2
    <2>5. h[k] = chg(c, f, occur(c, f), u)
      BY <2>1, <2>2 DEF Rereading
    <2> HIDE DEF c, f, v, j
    <2>6. u \in Nat
      BY <2>3, ConvertedType
    <2> HIDE DEF u
    <2>7. h[k] = r
      BY <2>2, <2>3, <2>5, OccsType
    <2>8. at[k] \in Nat /\ at[k + 1] \in Nat /\ at[n + 1] \in Nat /\ at[k + 1] <= at[n + 1]
      <3>1. k \in 1..n + 1 /\ k + 1 \in 1..n + 1 /\ n + 1 \in 1..n + 1
        BY <1>1, <2>1
      <3>2. at[k] \in Nat /\ at[k + 1] \in Nat /\ at[n + 1] \in Nat
        BY <1>4, <3>1
      <3>3. QED
        BY <1>5, <2>1, <3>2
    <2>9. c.len + Round8(f, u) <= c.size
      <3>1. c.len + w = at[k + 1]
        BY <2>2, <2>4
      <3>2. at[k + 1] <= c.size
        BY <1>3, <2>2, <2>8
      <3>3. QED
        BY <3>1, <3>2
    <2>10. r.rc = "ok" /\ r.b \in Good /\ r.b.size = c.size /\ r.b.len = c.len + Round8(f, u)
      <3>1. z = Len(Occs(c, f))
        OBVIOUS
      <3>2. c \in Good /\ f \in Fields /\ u \in Nat
        BY <2>2, <2>3, <2>6
      <3> HIDE DEF z
      <3>3. QED
        BY <2>9, <3>1, <3>2, AddFits
    <2> HIDE DEF r
    <2>11. Up(k)
      BY <2>2, <2>4, <2>7, <2>10
    <2>12. QED
      BY <2>1, <2>11
  <1> HIDE DEF U, a, n
  <1>8. a..n \subseteq U
    BY <1>1, <1>6, <1>7, Reaches
  <1>9. n \in U
    BY <1>1, <1>8
  <1>10. QED
    BY <1>9 DEF U, n

LEMMA ExtreadIs ==
  ASSUME NEW s \in Good, NEW C,
         C = [g \in Fields |-> [j \in DOMAIN Occs(s, g) |-> Ftypcvt32(g, Occs(s, g)[j])]]
  PROVE  \E r : /\ Appended(r, Promised!Empty, C, Bytes(Lines(s.flds)))
                /\ r.rc = "ok" /\ extread(s) = r.b
  <1> DEFINE n == min_size + Bytes(Lines(s.flds))
             e == init(n)
             D == Promised!Empty
  <1>1. e \in Good /\ e.size = Bytes(Lines(s.flds)) /\ Contents(e) = D
    <2>1. n \in Int /\ n >= min_size /\ n - min_size = Bytes(Lines(s.flds))
      <3>1. Bytes(Lines(s.flds)) \in Nat
        BY LinesAre
      <3>2. QED
        BY <3>1, Fml32Assumption
    <2> HIDE DEF n, D
    <2>2. QED
      BY <2>1, InitIs DEF D
  <1>10. e.len = 0
    BY DEF init
  <1> HIDE DEF e
  <1>2. PICK h : /\ Stays(h, e, s) /\ Rereading(h, s)
                 /\ extread(s) = h[Len(s.flds)].b
    BY <1>1, ExtreadRounds DEF e
  <1>3. \A g \in Fields : Occs(s, g) \in Seq(Nat) /\ Len(Occs(s, g)) \in Nat
    BY OccsType
  <1>4. \A g \in Fields, v \in Nat : Ftypcvt32(g, v) \in Nat
    BY ConvertedType
  <1>5. ASSUME NEW g \in Fields
        PROVE  /\ C[g] \in Seq(Nat) /\ Len(C[g]) = Len(Occs(s, g))
               /\ \A j \in 1..Len(C[g]) : C[g][j] = Ftypcvt32(g, Occs(s, g)[j])
    <2> DEFINE y == Occs(s, g)
    <2>1. y \in Seq(Nat) /\ Len(y) \in Nat
      BY <1>3
    <2>2. C[g] = [j \in DOMAIN y |-> Ftypcvt32(g, y[j])]
      OBVIOUS
    <2> HIDE DEF y
    <2>3. DOMAIN y = 1..Len(y) /\ \A j \in 1..Len(y) : y[j] \in Nat
      BY <2>1
    <2>4. \A j \in 1..Len(y) : Ftypcvt32(g, y[j]) \in Nat
      BY <1>4, <2>3
    <2>5. C[g] = [j \in 1..Len(y) |-> Ftypcvt32(g, y[j])]
      BY <2>2, <2>3
    <2>6. C[g] \in Seq(Nat) /\ Len(C[g]) = Len(y)
      BY <2>1, <2>4, <2>5
    <2>7. \A j \in 1..Len(C[g]) : C[g][j] = Ftypcvt32(g, y[j])
      BY <2>5, <2>6
    <2>8. QED
      BY <2>6, <2>7 DEF y
  <1>6. Within(C, s)
    <2>1. C = [g \in Fields |-> C[g]]
      OBVIOUS
    <2>2. C \in [Fields -> Seq(Nat)]
      BY <1>5, <2>1
    <2>3. \A g \in Fields : Len(C[g]) <= Len(Occs(s, g))
      BY <1>3, <1>5
    <2>4. QED
      BY <2>2, <2>3 DEF Within
  <1> HIDE DEF D
  <1>7. Appends(h, s, D, C)
    <2> SUFFICES ASSUME NEW i \in 1..Len(s.flds), NEW f, f = s.flds[i].id,
                        NEW k, k = Before(s, i, f), NEW w, w = h[i - 1], w \in Res, w.rc = "ok"
                 PROVE  AppendStep(h[i], w, D[f], C[f], f, k)
      BY Zenon DEF Appends
    <2> SUFFICES /\ Moved(h[i], w.b, f, Promised!PutAt(Occs(w.b, f), Len(Occs(w.b, f)),
                                                       C[f][k + 1]))
                 /\ ~(k >= Len(C[f]))
      BY Zenon DEF AppendStep
    <2> DEFINE c == w.b
               z == Occs(c, f)
               m == Len(z)
               v == s.flds[i].val
               u == Ftypcvt32(f, v)
    <2>1. f \in Fields /\ k \in Nat /\ k < Len(Occs(s, f)) /\ v \in Nat /\ Occs(s, f)[k + 1] = v
      BY SourceAt
    <2>2. u \in Nat
      BY <1>4, <2>1
    <2>3. c \in Good
      BY DEF Res
    <2>4. h[i] = chg(c, f, occur(c, f), u)
      BY <1>2 DEF Rereading
    <2>5. m \in Nat /\ m <= Len(Occs(c, f)) /\ occur(c, f) = m
      BY <2>1, <2>3, OccsType
    <2>6. C[f][k + 1] = u /\ ~(k >= Len(C[f]))
      <3>1. Len(C[f]) = Len(Occs(s, f)) /\ Len(Occs(s, f)) \in Nat
        BY <1>3, <1>5, <2>1
      <3>2. k + 1 \in 1..Len(C[f])
        BY <2>1, <3>1
      <3>3. C[f][k + 1] = Ftypcvt32(f, Occs(s, f)[k + 1])
        BY <1>5, <2>1, <3>2
      <3>4. QED
        BY <2>1, <3>1, <3>3
    <2> HIDE DEF c, v, m, u
    <2>7. Moved(chg(c, f, m, u), c, f, Promised!PutAt(z, m, u))
      BY <2>1, <2>2, <2>3, <2>5, ChgNext
    <2>8. QED
      BY Zenon, <2>4, <2>5, <2>6, <2>7 DEF c, m
  <1>8. Appended(h[Len(s.flds)], D, C, e.size)
    BY <1>1, <1>2, <1>6, <1>7, AppendRuns
  <1>9. h[Len(s.flds)].rc = "ok"
    BY <1>1, <1>2, <1>10, RereadingFits
  <1>11. QED
    BY <1>1, <1>2, <1>8, <1>9 DEF D

\* Only the capacity changes.
LEMMA ResizedIs ==
  ASSUME NEW s \in Good, NEW n \in Int, s.len <= n
  PROVE  /\ [s EXCEPT !.size = n] \in Good /\ [s EXCEPT !.size = n].size = n
         /\ Contents([s EXCEPT !.size = n]) = Contents(s)
  <1> DEFINE e == [s EXCEPT !.size = n]
  <1>1. s \in Buffer /\ Sound(s)
    BY DEF Good
  <1>2. /\ e \in Buffer /\ e.size = n /\ e.len = s.len /\ e.off = s.off /\ e.flds = s.flds
    BY <1>1 DEF Buffer
  <1> HIDE DEF e
  <1>3. Sound(e)
    BY <1>1, <1>2 DEF Sound
  <1>4. Contents(e) = Contents(s)
    BY <1>2 DEF Contents, Occs
  <1>5. QED
    BY <1>2, <1>3, <1>4 DEF Good, e

\* join leaves what both have, when it is through.
LEMMA JoinIs ==
  ASSUME NEW d \in Good, NEW s \in Good, Removable(d, s)
  PROVE  /\ join(d, s).b \in Good /\ join(d, s).b.size = d.size
         /\ join(d, s).rc = "ok" =>
              Has(join(d, s).b, Promised!Common(Contents(d), Contents(s)))
  <1> DEFINE r == Pass(d, s)
             j == join(d, s)
             D == Contents(d)
             B == Contents(s)
  <1>1. Passed(r, d, s)
    BY PassIs
  <1> HIDE DEF r
  <1>2. r.b \in Good /\ r.b.size = d.size
    BY <1>1 DEF Passed
  <1>3. j = IF r.rc = "ok" THEN ojoin(r.b, s) ELSE r
    BY JoinOf DEF r
  <1> HIDE DEF j
  <1>4. CASE r.rc # "ok"
    BY <1>2, <1>3, <1>4 DEF j
  <1>5. CASE r.rc = "ok"
    <2> DEFINE x == r.b
               X == Contents(x)
               C == Promised!Common(X, B)
    <2> HIDE DEF r
    <2>1. Overlaid(j, X, C, x.size) /\ x \in Good
      BY <1>2, <1>3, <1>5, OjoinIs
    <2>2. j.b \in Good /\ j.b.size = d.size
      BY <1>2, <2>1 DEF Overlaid, Res
    <2>3. ASSUME j.rc = "ok", NEW g \in Fields
          PROVE  Occs(j.b, g) = Promised!Common(D, B)[g]
      <3> DEFINE E == Promised!Common(D, B)
                 a == D[g]
                 b == B[g]
                 c == X[g]
      <3>1. /\ a \in Seq(Nat) /\ b \in Seq(Nat) /\ c \in Seq(Nat)
            /\ Len(a) \in Nat /\ Len(b) \in Nat /\ Len(c) \in Nat
            /\ a = Occs(d, g) /\ b = Occs(s, g) /\ c = Occs(x, g)
        <4> HIDE DEF x
        <4> QED
          BY <2>1, ContentsType
      <3>2. Len(c) = Least(Len(a), Len(b))
        BY <1>1, <1>5, <3>1 DEF Passed, Number, Least
      <3>3. Occs(j.b, g) = Over(c, C[g])
        BY <2>1, <2>3 DEF Overlaid, Has, Promised!Overlay, Over
      <3> HIDE DEF D, B, X
      <3>4. E[g] = Upto(b, Least(Len(b), Len(a))) /\ Len(E[g]) = Least(Len(b), Len(a))
            /\ E[g] \in Seq(Nat)
        <4>1. InCommon(E, D, B, g)
          <5> HIDE DEF E
          <5>1. E = Promised!Common(D, B)
            BY DEF E
          <5>2. QED
            BY <3>1, <5>1, CommonIs
        <4> HIDE DEF E
        <4>2. QED
          BY <4>1 DEF InCommon
      <3>5. C[g] = Upto(b, Least(Len(b), Len(c)))
        <4>1. InCommon(C, X, B, g)
          <5> HIDE DEF C
          <5>1. C = Promised!Common(X, B)
            BY DEF C
          <5>2. QED
            BY <3>1, <5>1, CommonIs
        <4> HIDE DEF C
        <4>2. QED
          BY <4>1 DEF InCommon
      <3> HIDE DEF E, C, a, b, c
      <3>6. Least(Len(b), Len(c)) = Least(Len(b), Len(a)) /\ Least(Len(b), Len(a)) = Len(c)
        BY <3>1, <3>2 DEF Least
      <3>7. C[g] = E[g] /\ Len(E[g]) = Len(c)
        BY <3>4, <3>5, <3>6
      <3> DEFINE y == E[g]
                 z == Over(c, y)
      <3>8. y \in Seq(Nat) /\ Len(y) = Len(c)
        BY <3>4, <3>7
      <3> HIDE DEF y
      <3>9. /\ z \in Seq(Nat) /\ Len(z) = Len(y)
            /\ \A i \in 1..Len(z) : z[i] = y[i]
        <4>1. /\ z \in Seq(Nat) /\ Len(z) = IF Len(c) <= Len(y) THEN Len(y) ELSE Len(c)
              /\ \A i \in 1..Len(z) : z[i] = IF i <= Len(y) THEN y[i] ELSE c[i]
          BY <3>1, <3>8, OverIs
        <4> HIDE DEF z
        <4>2. Len(z) = Len(y)
          BY <3>1, <3>8, <4>1
        <4>3. QED
          BY <4>1, <4>2
      <3> HIDE DEF z
      <3>10. z = y
        BY <3>8, <3>9, SameSeq
      <3>11. QED
        BY <3>3, <3>7, <3>10 DEF y, z, E
    <2>4. QED
      BY <2>2, <2>3 DEF Has, j, D, B
  <1>6. QED
    BY <1>4, <1>5 DEF j

-----------------------------------------------------------------------------
(* The operations keep the buffers sound                                   *)

\* What is deleted is of the last type in use.  erase moves the offsets of the
\* groups behind the type of the field that has moved up (fbfr32.h:668), not of
\* the one that is gone: only then are these the same.
ErasesLast == \A f \in Erasable : LastType(f)

\* A buffer that is sound, or, after a failed allocation or a free, none.
Buffers == [Bufs -> Good \cup {NoBuf}]

LEMMA DelGood ==
  ASSUME NEW b \in Good, NEW f \in Fields, LastType(f), NEW oc \in Int
  PROVE  del(b, f, oc).b \in Good /\ delall(b, f).b \in Good
  <1>1. PICK p, q : Span(b.flds, f, p, q)
    BY SpanOf
  <1>2. \A e : Fail(b, e).b = b
    BY DEF Fail
  <1>3. del(b, f, oc).b \in Good
    <2>1. CASE oc \in 0..(Len(Occs(b, f)) - 1)
      <3>1. Left(del(b, f, oc).b, b, f, Without(Occs(b, f), oc, oc + 1))
        BY <1>1, <2>1, DelIs
      <3>2. QED
        BY <3>1 DEF Left
    <2>2. CASE oc \notin 0..(Len(Occs(b, f)) - 1)
      <3>1. del(b, f, oc) = Fail(b, "FNOTPRES")
        BY <1>1, <2>2, DelIs
      <3>2. QED
        BY <1>2, <3>1
    <2>3. QED
      BY <2>1, <2>2
  <1>4. delall(b, f).b \in Good
    <2>1. CASE Occs(b, f) # <<>>
      <3>1. Left(delall(b, f).b, b, f, <<>>)
        BY <1>1, <2>1, DelallIs
      <3>2. QED
        BY <3>1 DEF Left
    <2>2. CASE Occs(b, f) = <<>>
      <3>1. delall(b, f) = Fail(b, "FNOTPRES")
        BY <1>1, <2>2, DelallIs
      <3>2. QED
        BY <1>2, <3>1
    <2>3. QED
      BY <2>1, <2>2
  <1>5. QED
    BY <1>3, <1>4

LEMMA JoinableIs ==
  ASSUME ErasesLast, NEW d \in Good, NEW s \in Good, Joinable(d, s)
  PROVE  Removable(d, s)
  <1> SUFFICES ASSUME NEW f \in Fields, Number(d, f) > Number(s, f) PROVE LastType(f)
    BY DEF Removable
  <1>1. /\ occur(d, f) = Number(d, f) /\ occur(s, f) = Number(s, f)
        /\ Number(d, f) \in Nat /\ Number(s, f) \in Nat
    BY OccsType DEF Number
  <1>2. occur(d, f) - occur(s, f) > 0 => f \in Erasable
    BY DEF Joinable
  <1>3. Number(d, f) - Number(s, f) > 0
    BY <1>1
  <1>4. QED
    BY <1>1, <1>2, <1>3 DEF ErasesLast

\* One buffer changed.
LEMMA OneGood ==
  ASSUME ErasesLast, NEW b \in Good, NEW f \in Fields
  PROVE  /\ \A oc \in -1..MaxOcc, v \in Values : chg(b, f, oc, v).b \in Good
         /\ \A v \in Values : chg(b, f, occur(b, f), v).b \in Good
         /\ f \in Erasable => \A oc \in -1..MaxOcc : del(b, f, oc).b \in Good
         /\ f \in Erasable => delall(b, f).b \in Good
  <1>1. Values \subseteq Nat /\ MaxOcc \in Nat /\ Erasable \subseteq Fields
    BY Fml32Assumption
  <1>2. ASSUME NEW oc \in Int, oc >= -1, NEW v \in Nat PROVE chg(b, f, oc, v).b \in Good
    BY <1>2, ChgRes DEF Res
  <1>3. ASSUME NEW v \in Nat PROVE chg(b, f, occur(b, f), v).b \in Good
    <2> DEFINE n == occur(b, f)
    <2>1. n \in Int /\ n >= -1
      BY OccsType
    <2> HIDE DEF n
    <2>2. chg(b, f, n, v).b \in Good
      BY <1>2, <2>1
    <2>3. QED
      BY <2>2 DEF n
  <1>4. ASSUME f \in Erasable, NEW oc \in Int PROVE del(b, f, oc).b \in Good /\ delall(b, f).b \in Good
    BY <1>4, DelGood DEF ErasesLast
  <1>8. \A oc \in -1..MaxOcc : oc \in Int /\ oc >= -1
    BY <1>1
  <1>9. 0 \in Int
    OBVIOUS
  <1>10. f \in Erasable => \A oc \in -1..MaxOcc : del(b, f, oc).b \in Good
    BY <1>4, <1>8
  <1>11. f \in Erasable => delall(b, f).b \in Good
    BY <1>4, <1>9
  <1>12. QED
    BY <1>1, <1>2, <1>3, <1>8, <1>10, <1>11

\* One buffer without the fields S.
LEMMA LessGood ==
  ASSUME ErasesLast, NEW b \in Good, NEW S \in SUBSET Erasable
  PROVE  xdelete(b, S).b \in Good /\ proj(b, Fields \ S).b \in Good
  <1>1. Erasable \subseteq Fields
    BY Fml32Assumption
  <1>5. S \in SUBSET Fields /\ \A g \in S : LastType(g)
    BY <1>1 DEF ErasesLast
  <1>6. xdelete(b, S).b \in Good
    BY <1>5, XdeleteIs DEF Removed
  <1>7. proj(b, Fields \ S).b \in Good
    <2> DEFINE K == Fields \ S
    <2>1. K \in SUBSET Fields /\ S = Fields \ K
      BY <1>5
    <2> HIDE DEF K
    <2>2. Removed(proj(b, K), b, S)
      BY <1>5, <2>1, ProjIs
    <2>3. QED
      BY <2>2 DEF Removed, K
  <1>8. QED
    BY <1>6, <1>7

\* One buffer changed by another.
LEMMA TwoGood ==
  ASSUME ErasesLast, NEW d \in Good, NEW s \in Good
  PROVE  /\ update(d, s).b \in Good /\ concat(d, s).b \in Good /\ ojoin(d, s).b \in Good
         /\ \A S : projcpy(d, s, S).b \in Good
         /\ Joinable(d, s) => join(d, s).b \in Good
         /\ cpy(d, s).b \in Good /\ extread(s) \in Good
         /\ s.len <= d.size => [s EXCEPT !.size = d.size] \in Good
  <1>1. /\ d.size \in Int /\ s.len \in Int
        /\ \A e : Fail(d, e).b = d /\ Done(d).b = d
    BY GoodIs DEF Fail, Done
  <1>2. update(d, s).b \in Good
    BY UpdateIs DEF Overlaid, Res
  <1>3. concat(d, s).b \in Good
    <2>1. CASE concat(d, s) = Fail(d, "FNOSPACE")
      BY <1>1, <2>1
    <2>2. CASE Appended(concat(d, s), Contents(d), Contents(s), d.size)
      BY <2>2 DEF Appended, Res
    <2>3. QED
      BY <2>1, <2>2, ConcatIs
  <1>4. ojoin(d, s).b \in Good
    BY OjoinIs DEF Overlaid, Res
  <1>5. ASSUME NEW S PROVE projcpy(d, s, S).b \in Good
    BY ProjcpyIs DEF Appended, Res
  <1>6. Joinable(d, s) => join(d, s).b \in Good
    BY JoinableIs, JoinIs
  <1>7. ASSUME s.len <= d.size PROVE [s EXCEPT !.size = d.size] \in Good
    BY <1>1, <1>7, ResizedIs
  <1>8. cpy(d, s).b \in Good
    <2>1. CASE d.size < s.len
      BY <1>1, <2>1 DEF cpy
    <2>2. CASE ~(d.size < s.len)
      <3>1. [s EXCEPT !.size = d.size] \in Good
        BY <1>1, <1>7, <2>2
      <3>2. cpy(d, s).b = [s EXCEPT !.size = d.size]
        BY <2>2 DEF cpy, Done
      <3>3. QED
        BY <3>1, <3>2
    <2>3. QED
      BY <2>1, <2>2
  <1>9. extread(s) \in Good
    <2> DEFINE C == [g \in Fields |-> [j \in DOMAIN Occs(s, g) |-> Ftypcvt32(g, Occs(s, g)[j])]]
    <2>1. PICK r : /\ Appended(r, Promised!Empty, C, Bytes(Lines(s.flds)))
                   /\ r.rc = "ok" /\ extread(s) = r.b
      BY ExtreadIs
    <2> HIDE DEF C
    <2>2. QED
      BY <2>1 DEF Appended, Res
  <1>10. QED
    BY <1>2, <1>3, <1>4, <1>5, <1>6, <1>7, <1>8, <1>9

LEMMA StoreKeeps ==
  ASSUME buf \in Buffers, NEW b \in Bufs, NEW r, r.b \in Good \cup {NoBuf}, Store(b, r)
  PROVE  buf' \in Buffers
  BY DEF Store, Buffers

LEMMA NextKeeps ==
  ASSUME ErasesLast, buf \in Buffers, [Next]_fvars
  PROVE  buf' \in Buffers
  <1>1. \A b \in Bufs : \A r : r.b \in Good \cup {NoBuf} /\ Store(b, r) => buf' \in Buffers
    BY StoreKeeps
  <1>2. \A b \in Live : b \in Bufs /\ buf[b] \in Good
    BY DEF Live, Buffers
  <1>3. Sizes \subseteq Nat /\ min_size \in Nat
    BY Fml32Assumption
  <1>4. \A c, e : Done(c).b = c /\ Fail(c, e).b = c
    BY DEF Done, Fail
  <1>5. CASE UNCHANGED fvars
    BY <1>5 DEF fvars
  <1>6. ASSUME NEW b \in Bufs, Falloc32(b) PROVE buf' \in Buffers
    <2>1. PICK n \in Sizes : n >= min_size /\ Store(b, Done(init(n)))
      BY <1>6 DEF Falloc32
    <2>2. init(n) \in Good
      BY <1>3, <2>1, InitIs
    <2>3. QED
      BY <1>1, <1>4, <2>1, <2>2
  <1>7. ASSUME NEW b \in Live, Finit32(b) PROVE buf' \in Buffers
    <2>1. PICK n \in Sizes :
             Store(b, IF n < min_size THEN Fail(buf[b], "FNOSPACE") ELSE Done(init(n)))
      BY <1>7 DEF Finit32
    <2>2. ~(n < min_size) => init(n) \in Good
      BY <1>3, InitIs
    <2>3. (IF n < min_size THEN Fail(buf[b], "FNOSPACE") ELSE Done(init(n))).b \in Good
      BY <1>2, <1>4, <2>2
    <2>4. QED
      BY <1>1, <1>2, <2>1, <2>3
  <1>8. ASSUME NEW b \in Live, Frealloc32(b) PROVE buf' \in Buffers
    <2> DEFINE c == buf[b]
               R(n) == IF n = min_size THEN Fail(c, "FEINVAL")
                       ELSE IF n < used(c) THEN Fail(c, "FNOSPACE")
                       ELSE Done(reinit(c, n))
    <2>1. PICK n \in Sizes : Store(b, R(n))
      BY <1>8 DEF Frealloc32
    <2>2. c \in Good /\ b \in Bufs
      BY <1>2
    <2>3. ~(n < used(c)) => reinit(c, n) \in Good
      <3> HIDE DEF c
      <3>1. c.len \in Int /\ n \in Int /\ min_size \in Int
        BY <1>3, <2>2, GoodIs
      <3>2. SUFFICES ASSUME ~(n < used(c)) PROVE reinit(c, n) \in Good
        OBVIOUS
      <3> DEFINE m == n - min_size
      <3>3. m \in Int /\ c.len <= m
        BY <3>1, <3>2 DEF used
      <3> HIDE DEF m
      <3>4. [c EXCEPT !.size = m] \in Good
        BY <2>2, <3>3, ResizedIs
      <3>5. QED
        BY <3>4 DEF reinit, m
    <2> HIDE DEF c
    <2>4. R(n).b \in Good
      BY <1>4, <2>2, <2>3
    <2> HIDE DEF R
    <2>5. QED
      BY <1>1, <2>1, <2>2, <2>4
  <1>9. ASSUME NEW b \in Live, Ffree32(b) PROVE buf' \in Buffers
    BY <1>1, <1>2, <1>4, <1>9 DEF Ffree32
  <1>10. ASSUME NEW b \in Live,
                Fchg32(b) \/ Fadd32(b) \/ Fdel32(b) \/ Fdelall32(b) \/ Fdelete32(b) \/ Fproj32(b)
         PROVE  buf' \in Buffers
    <2>1. /\ buf[b] \in Good /\ b \in Bufs /\ Erasable \subseteq Fields
          /\ \A oc \in 0..MaxOcc : oc \in -1..MaxOcc
      BY <1>2, Fml32Assumption
    <2>2. /\ \A f \in Fields, oc \in -1..MaxOcc, v \in Values : chg(buf[b], f, oc, v).b \in Good
          /\ \A f \in Fields, v \in Values : chg(buf[b], f, occur(buf[b], f), v).b \in Good
          /\ \A f \in Erasable, oc \in -1..MaxOcc : del(buf[b], f, oc).b \in Good
          /\ \A f \in Erasable : delall(buf[b], f).b \in Good
      BY <2>1, OneGood
    <2>3. \A S \in SUBSET Erasable :
            xdelete(buf[b], S).b \in Good /\ proj(buf[b], Fields \ S).b \in Good
      BY <2>1, LessGood
    <2>4. CASE Fchg32(b)
      <3>1. PICK f \in Fields, oc \in -1..MaxOcc :
               \/ \E v \in Values : Store(b, chg(buf[b], f, oc, v))
               \/ f \in Erasable /\ Store(b, del(buf[b], f, oc))
        BY <2>4 DEF Fchg32
      <3>2. CASE \E v \in Values : Store(b, chg(buf[b], f, oc, v))
        <4>1. PICK v \in Values : Store(b, chg(buf[b], f, oc, v))
          BY <3>2
        <4>2. chg(buf[b], f, oc, v).b \in Good
          BY <2>2
        <4>3. QED
          BY <1>1, <2>1, <4>1, <4>2
      <3>3. CASE f \in Erasable /\ Store(b, del(buf[b], f, oc))
        <4>1. del(buf[b], f, oc).b \in Good
          BY <2>2, <3>3
        <4>2. QED
          BY <1>1, <2>1, <3>3, <4>1
      <3>4. QED
        BY <3>1, <3>2, <3>3
    <2>5. CASE Fadd32(b)
      <3>1. PICK f \in Fields, v \in Values : Store(b, chg(buf[b], f, occur(buf[b], f), v))
        BY <2>5 DEF Fadd32
      <3>2. chg(buf[b], f, occur(buf[b], f), v).b \in Good
        BY <2>2
      <3>3. QED
        BY <1>1, <2>1, <3>1, <3>2
    <2>6. CASE Fdel32(b)
      BY <1>1, <2>1, <2>2, <2>6 DEF Fdel32
    <2>7. CASE Fdelall32(b)
      BY <1>1, <2>1, <2>2, <2>7 DEF Fdelall32
    <2>8. CASE Fdelete32(b)
      BY <1>1, <2>1, <2>3, <2>8 DEF Fdelete32
    <2>9. CASE Fproj32(b)
      BY <1>1, <2>1, <2>3, <2>9 DEF Fproj32
    <2>10. QED
      BY <1>10, <2>4, <2>5, <2>6, <2>7, <2>8, <2>9
  <1>11. ASSUME NEW b \in Live, NEW s \in Live \ {b},
                \/ Fcpy32(b, s) \/ Fupdate32(b, s) \/ Fconcat32(b, s)
                \/ Fojoin32(b, s) \/ Fprojcpy32(b, s) \/ Fjoin32(b, s)
                \/ Fread32(b, s) \/ Fextread32(b, s)
         PROVE  buf' \in Buffers
    <2>1. buf[b] \in Good /\ b \in Bufs /\ buf[s] \in Good
      BY <1>2
    <2>2. /\ update(buf[b], buf[s]).b \in Good /\ concat(buf[b], buf[s]).b \in Good
          /\ ojoin(buf[b], buf[s]).b \in Good
          /\ \A S : projcpy(buf[b], buf[s], S).b \in Good
          /\ Joinable(buf[b], buf[s]) => join(buf[b], buf[s]).b \in Good
          /\ cpy(buf[b], buf[s]).b \in Good /\ extread(buf[s]) \in Good
          /\ buf[s].len <= buf[b].size => [buf[s] EXCEPT !.size = buf[b].size] \in Good
      BY <2>1, TwoGood
    <2>3. CASE Fcpy32(b, s)
      BY <1>1, <2>1, <2>2, <2>3 DEF Fcpy32
    <2>4. CASE Fupdate32(b, s)
      BY <1>1, <2>1, <2>2, <2>4 DEF Fupdate32
    <2>5. CASE Fconcat32(b, s)
      BY <1>1, <2>1, <2>2, <2>5 DEF Fconcat32
    <2>6. CASE Fojoin32(b, s)
      BY <1>1, <2>1, <2>2, <2>6 DEF Fojoin32
    <2>7. CASE Fprojcpy32(b, s)
      BY <1>1, <2>1, <2>2, <2>7 DEF Fprojcpy32
    <2>8. CASE Fjoin32(b, s)
      BY <1>1, <2>1, <2>2, <2>8 DEF Fjoin32
    <2>9. CASE Fread32(b, s)
      <3> DEFINE r == IF buf[s].len > buf[b].size THEN Fail(buf[b], "FNOSPACE")
                      ELSE Done([buf[s] EXCEPT !.size = buf[b].size])
      <3>1. Store(b, r)
        BY <2>9 DEF Fread32
      <3>2. r.b \in Good
        <4>1. buf[s].len \in Int /\ buf[b].size \in Int
          BY <2>1, GoodIs
        <4>2. CASE buf[s].len > buf[b].size
          BY <1>4, <2>1, <4>2
        <4>3. CASE ~(buf[s].len > buf[b].size)
          BY <1>4, <2>2, <4>1, <4>3
        <4>4. QED
          BY <4>2, <4>3
      <3> HIDE DEF r
      <3>3. QED
        BY <1>1, <2>1, <3>1, <3>2
    <2>10. CASE Fextread32(b, s)
      <3> DEFINE r == IF Refused(buf[s].flds) THEN Fail(buf[b], "exception")
                      ELSE cpy(buf[b], extread(buf[s]))
      <3>1. cpy(buf[b], extread(buf[s])).b \in Good
        BY <2>1, <2>2, TwoGood
      <3>2. Store(b, r)
        BY <2>10 DEF Fextread32
      <3>3. r.b \in Good
        BY <1>4, <2>1, <3>1
      <3> HIDE DEF r
      <3>4. QED
        BY <1>1, <2>1, <3>2, <3>3
    <2>11. QED
      BY <1>11, <2>3, <2>4, <2>5, <2>6, <2>7, <2>8, <2>9, <2>10
  <1>12. QED
    BY <1>5, <1>6, <1>7, <1>8, <1>9, <1>10, <1>11 DEF Next

\* Every buffer in use is sound, in every reachable state.
SoundInv == buf \in Buffers

LEMMA Invariant ==
  ASSUME ErasesLast
  PROVE  Spec => []SoundInv
  <1>1. Init => SoundInv
    BY DEF Init, Buffers, SoundInv
  <1>2. SoundInv /\ [Next]_fvars => SoundInv'
    BY NextKeeps DEF SoundInv
  <1>3. QED
    BY <1>1, <1>2, PTL DEF Spec

LEMMA LiveGood ==
  ASSUME buf \in Buffers, NEW b \in Live
  PROVE  buf[b] \in Good
  BY DEF Live, Buffers

LEMMA SoundIs == SoundInv => IndexSound
  BY LiveGood DEF IndexSound, Good, SoundInv

LEMMA LookupIs == SoundInv => LookupAgrees
  BY LiveGood, LookupsRight DEF LookupAgrees, Lookups, SoundInv

-----------------------------------------------------------------------------
(* Storing *)

LEMMA StoreIs == SoundInv => StoreAgrees
  <1> SUFFICES ASSUME SoundInv,
                      NEW b \in Live, NEW f \in Fields, NEW oc \in 0..MaxOcc, NEW v \in Values
               PROVE  LET r    == chg(buf[b], f, oc, v)
                          want == Promised!PutAt(Occs(buf[b], f), oc, v)
                          grow == Packed(f, want) - Packed(f, Occs(buf[b], f))
                      IN IF buf[b].len + grow > buf[b].size THEN r.rc = "FNOSPACE"
                         ELSE r.rc = "ok" /\ Occs(r.b, f) = want
    BY DEF StoreAgrees
  <1> DEFINE B == buf[b]
             r == chg(B, f, oc, v)
             want == Promised!PutAt(Occs(B, f), oc, v)
             grow == Packed(f, want) - Packed(f, Occs(B, f))
  <1>1. B \in Good /\ v \in Nat /\ oc \in Int /\ oc >= -1 /\ oc # -1
    BY LiveGood, Fml32Assumption DEF SoundInv
  <1>2. Chosen(B, f, oc) = oc
    BY <1>1 DEF Chosen
  <1> HIDE DEF B
  <1>3. Stored(r, B, f, oc, v)
    BY <1>1, <1>2, ChgIs
  <1>4. Occs(B, f) \in Seq(Nat) /\ oc \in Nat /\ v \in Nat
    BY <1>1, OccsType
  <1>5. grow \in Int
    <2> DEFINE o == Occs(B, f)
    <2>1. o \in Seq(Nat)
      BY <1>4
    <2> HIDE DEF o
    <2> DEFINE w == Promised!PutAt(o, oc, v)
    <2>2. w \in Seq(Nat)
      BY <1>4, <2>1, PutAtIs
    <2> HIDE DEF w
    <2>3. Packed(f, w) \in Nat /\ Packed(f, o) \in Nat
      BY <2>1, <2>2, PackedType
    <2>4. Packed(f, w) - Packed(f, o) \in Int
      BY <2>3
    <2>5. QED
      BY <2>4 DEF w, o
  <1>6. B.len \in Int /\ B.size \in Int
    BY <1>1, GoodIs
  <1>7. CASE B.len + grow <= B.size
    <2>1. Fits(B, f, want)
      BY <1>7 DEF Fits
    <2>2. r.rc = "ok" /\ Occs(r.b, f) = want
      BY <1>3, <2>1 DEF Stored, Changed
    <2> HIDE DEF r, want, grow
    <2>3. ~(B.len + grow > B.size)
      BY <1>5, <1>6, <1>7
    <2>4. QED
      BY <2>2, <2>3 DEF B, r, want, grow
  <1>8. CASE ~(B.len + grow <= B.size)
    <2>1. ~Fits(B, f, want)
      BY <1>8 DEF Fits
    <2>2. r.rc = "FNOSPACE"
      BY <1>3, <2>1 DEF Stored
    <2> HIDE DEF r, want, grow
    <2>3. B.len + grow > B.size
      BY <1>5, <1>6, <1>8
    <2>4. QED
      BY <2>2, <2>3 DEF B, r, want, grow
  <1>9. QED
    BY <1>7, <1>8

-----------------------------------------------------------------------------
(* Combining *)

LEMMA AbstractIs ==
  ASSUME NEW b \in Good
  PROVE  Abstract(b) = Contents(b) /\ Abstract(b) # NoBuf /\ b # NoBuf
  <1>1. b # NoBuf
    BY GoodIs, NoBufAssumption
  <1>2. Abstract(b) = Contents(b)
    BY <1>1 DEF Abstract, Contents
  <1>3. QED
    BY <1>1, <1>2, ContentsType, NoBufAssumption

\* A table of the fields.
Table(T) == T = [g \in Fields |-> T[g]]

LEMMA HasIs ==
  ASSUME NEW b \in Good, NEW T, Table(T), Has(b, T)
  PROVE  Abstract(b) = T
  <1>1. Contents(b) = [g \in Fields |-> T[g]]
    BY DEF Contents, Has
  <1>2. QED
    BY <1>1, AbstractIs DEF Table

LEMMA Tables ==
  ASSUME NEW D, NEW C, NEW K
  PROVE  /\ Table(Promised!Overlay(D, C)) /\ Table(Promised!Append2(D, C))
         /\ Table(Promised!Common(D, C)) /\ Table(Promised!Keep(C, K))
  <1>1. Table(Promised!Overlay(D, C))
    BY DEF Table, Promised!Overlay
  <1>2. Table(Promised!Append2(D, C))
    BY DEF Table, Promised!Append2
  <1>3. Table(Promised!Common(D, C))
    BY DEF Table, Promised!Common
  <1>4. Table(Promised!Keep(C, K))
    BY DEF Table, Promised!Keep
  <1>5. QED
    BY <1>1, <1>2, <1>3, <1>4

LEMMA FromNothing ==
  ASSUME NEW C \in [Fields -> Seq(Nat)]
  PROVE  Promised!Append2(Promised!Empty, C) = C
  <1>1. \A s \in Seq(Nat) : <<>> \o s = s
    OBVIOUS
  <1>2. \A f \in Fields : C[f] \in Seq(Nat)
    OBVIOUS
  <1>3. \A f \in Fields : Promised!Empty[f] \o C[f] = C[f]
    BY <1>1, <1>2 DEF Promised!Empty
  <1>4. Promised!Append2(Promised!Empty, C) = [f \in Fields |-> C[f]]
    BY <1>3 DEF Promised!Append2
  <1>5. QED
    BY <1>4

LEMMA KeepType ==
  ASSUME NEW C \in [Fields -> Seq(Nat)], NEW K
  PROVE  Promised!Keep(C, K) \in [Fields -> Seq(Nat)]
  BY DEF Promised!Keep

LEMMA CombineIs == ErasesLast /\ SoundInv => CombineAgrees
  <1> SUFFICES ASSUME ErasesLast, SoundInv, NEW b \in Live, NEW s \in Live
               PROVE  LET d == Abstract(buf[b])
                          c == Abstract(buf[s])
                          both == Promised!Common(d, c)
                          Leaves(r, want) == r.rc = "ok" => Abstract(r.b) = want
                      IN /\ Leaves(update(buf[b], buf[s]), Promised!Overlay(d, c))
                         /\ Leaves(concat(buf[b], buf[s]), Promised!Append2(d, c))
                         /\ Leaves(ojoin(buf[b], buf[s]), Promised!Overlay(d, both))
                         /\ Joinable(buf[b], buf[s]) => Leaves(join(buf[b], buf[s]), both)
                         /\ \A S \in SUBSET Fields :
                              Leaves(projcpy(buf[b], buf[s], S), Promised!Keep(c, S))
    BY DEF CombineAgrees
  <1> DEFINE x == buf[b]
             y == buf[s]
             d == Abstract(x)
             c == Abstract(y)
             both == Promised!Common(d, c)
  <1>1. x \in Good /\ y \in Good
    BY LiveGood DEF SoundInv
  <1> HIDE DEF x, y
  <1>2. d = Contents(x) /\ c = Contents(y)
    BY <1>1, AbstractIs
  <1>3. c \in [Fields -> Seq(Nat)]
    BY <1>1, <1>2, ContentsType
  <1> HIDE DEF d, c
  <1>4. ASSUME update(x, y).rc = "ok" PROVE Abstract(update(x, y).b) = Promised!Overlay(d, c)
    <2>1. Overlaid(update(x, y), d, c, x.size)
      BY <1>1, <1>2, UpdateIs
    <2>2. update(x, y).b \in Good /\ Has(update(x, y).b, Promised!Overlay(d, c))
      BY <1>4, <2>1 DEF Overlaid, Res
    <2>3. QED
      BY <2>2, HasIs, Tables
  <1>5. ASSUME concat(x, y).rc = "ok" PROVE Abstract(concat(x, y).b) = Promised!Append2(d, c)
    <2>1. Appended(concat(x, y), d, c, x.size)
      BY <1>1, <1>2, <1>5, ConcatIs DEF Fail
    <2>2. concat(x, y).b \in Good /\ Has(concat(x, y).b, Promised!Append2(d, c))
      BY <1>5, <2>1 DEF Appended, Res
    <2>3. QED
      BY <2>2, HasIs, Tables
  <1>6. ASSUME ojoin(x, y).rc = "ok" PROVE Abstract(ojoin(x, y).b) = Promised!Overlay(d, both)
    <2>1. Overlaid(ojoin(x, y), d, both, x.size)
      BY <1>1, <1>2, OjoinIs
    <2>2. ojoin(x, y).b \in Good /\ Has(ojoin(x, y).b, Promised!Overlay(d, both))
      BY <1>6, <2>1 DEF Overlaid, Res
    <2>3. QED
      BY <2>2, HasIs, Tables
  <1>7. ASSUME Joinable(x, y), join(x, y).rc = "ok" PROVE Abstract(join(x, y).b) = both
    <2>1. Removable(x, y)
      BY <1>1, <1>7, JoinableIs
    <2>2. join(x, y).b \in Good /\ Has(join(x, y).b, both)
      BY <1>1, <1>2, <1>7, <2>1, JoinIs
    <2>3. QED
      BY <2>2, HasIs, Tables
  <1>8. ASSUME NEW S \in SUBSET Fields, projcpy(x, y, S).rc = "ok"
        PROVE  Abstract(projcpy(x, y, S).b) = Promised!Keep(c, S)
    <2> DEFINE K == Promised!Keep(c, S)
    <2>1. K \in [Fields -> Seq(Nat)] /\ Table(K)
      BY <1>3, KeepType, Tables
    <2>2. Appended(projcpy(x, y, S), Promised!Empty, K, x.size)
      BY <1>1, <1>2, ProjcpyIs
    <2> HIDE DEF K
    <2>3. Promised!Append2(Promised!Empty, K) = K
      BY <2>1, FromNothing
    <2>4. projcpy(x, y, S).b \in Good /\ Has(projcpy(x, y, S).b, K)
      BY <1>8, <2>2, <2>3 DEF Appended, Res
    <2>5. Abstract(projcpy(x, y, S).b) = K
      BY <2>1, <2>4, HasIs
    <2>6. QED
      BY <2>5 DEF K
  <1>9. QED
    BY <1>4, <1>5, <1>6, <1>7, <1>8 DEF x, y, d, c

\* As long as only fields of the last type in use are deleted, the offsets in
\* the header of a buffer, its length and the order of its fields stay right
\* through every sequence of operations, failed ones included, and the length
\* never exceeds the buffer (Fbfr32::shift, chg, erase), for buffers, fields
\* and values of any number and size.
THEOREM BuffersStaySound ==
  ASSUME ErasesLast PROVE Spec => []IndexSound
  BY Invariant, SoundIs, PTL

\* Under the same condition Ffind32, Fpres32, Foccur32, Ffindlast32 and
\* Ffindocc32, which search through the offsets (Fbfr32::where), find what is
\* stored, and Fnext32 visits every occurrence once, in order.
THEOREM LookupsAreRight ==
  ASSUME ErasesLast PROVE Spec => []LookupAgrees
  BY Invariant, LookupIs, PTL

\* Under the same condition Fchg32 stores a value as the occurrence it names,
\* with default values in front where occurrences were missing, and fails
\* exactly when the result does not fit (Fbfr32::chg).
THEOREM StoresAreRight ==
  ASSUME ErasesLast PROVE Spec => []StoreAgrees
  BY Invariant, StoreIs, PTL

\* Under the same condition Fupdate32, Fconcat32, Fojoin32, Fjoin32 and
\* Fprojcpy32, which walk over one buffer while they change another
\* (Fbfr32::iterate), leave what they promise when they succeed.
THEOREM CombinationsAreRight ==
  ASSUME ErasesLast PROVE Spec => []CombineAgrees
  <1>1. SoundInv => CombineAgrees
    BY CombineIs
  <1>2. QED
    BY <1>1, Invariant, PTL

-----------------------------------------------------------------------------
(* What a join leaves, also when it runs out of space                      *)

\* The first pass has left the leading occurrences of the destination.
LEMMA PassLeaves ==
  ASSUME NEW d \in Good, NEW s \in Good, Removable(d, s),
         \A f \in Fields : Number(d, f) <= Number(s, f) + 1,
         NEW X, X = Contents(Pass(d, s).b), NEW E, E = Promised!Common(Contents(s), Contents(d))
  PROVE  /\ Pass(d, s).rc = "ok" /\ Pass(d, s).b \in Good /\ Pass(d, s).b.size = d.size
         /\ X = E
  <1> DEFINE r == Pass(d, s)
             x == r.b
             D == Contents(d)
             B == Contents(s)
  <1>1. Passed(r, d, s)
    BY PassIs
  <1> HIDE DEF r
  <1>2. r.rc = "ok" /\ x \in Good /\ x.size = d.size /\ Leading(x, d, s)
    BY <1>1 DEF Passed
  <1>3. ASSUME NEW g \in Fields PROVE X[g] = E[g]
    <2> DEFINE a == D[g]
               b == B[g]
               c == X[g]
               e == E[g]
    <2>1. /\ a \in Seq(Nat) /\ b \in Seq(Nat) /\ c \in Seq(Nat)
          /\ Len(a) \in Nat /\ Len(b) \in Nat /\ Len(c) \in Nat
          /\ a = Occs(d, g) /\ b = Occs(s, g) /\ c = Occs(x, g)
      <3> HIDE DEF x
      <3>1. X = Contents(x)
        BY DEF x, r
      <3>2. QED
        BY <1>2, <3>1, ContentsType
    <2>2. Len(c) = Least(Len(a), Len(b))
      BY <1>1, <1>2, <2>1 DEF Passed, Number, Least
    <2>3. \A k \in 1..Len(c) : c[k] = a[k]
      BY <1>2, <2>1 DEF Leading, Number
    <2> HIDE DEF D, B
    <2>4. InCommon(E, B, D, g)
      <3>1. E = Promised!Common(B, D)
        BY DEF B, D
      <3>2. QED
        BY <2>1, <3>1, CommonIs
    <2>5. e \in Seq(Nat) /\ Len(e) = Least(Len(a), Len(b)) /\ \A k \in 1..Len(e) : e[k] = a[k]
      BY <2>4 DEF InCommon
    <2> HIDE DEF a, b, c, e
    <2>6. Len(e) = Len(c) /\ \A k \in 1..Len(c) : c[k] = e[k]
      BY <2>2, <2>3, <2>5
    <2>7. c = e
      BY <2>1, <2>5, <2>6, SameSeq
    <2>8. QED
      BY <2>7 DEF c, e
  <1>4. X = E
    <2>1. X = [g \in Fields |-> X[g]]
      BY DEF Contents
    <2>2. E = [g \in Fields |-> E[g]]
      BY DEF Promised!Common
    <2>3. QED
      BY <1>3, <2>1, <2>2
  <1>5. QED
    BY <1>2, <1>4 DEF r

LEMMA JoinOverlays ==
  ASSUME NEW d \in Good, NEW s \in Good, Removable(d, s),
         \A f \in Fields : Number(d, f) <= Number(s, f) + 1,
         NEW D, D = Contents(d), NEW B, B = Contents(s),
         NEW X, X = Promised!Common(B, D), NEW E, E = Promised!Common(D, B)
  PROVE  Overlaid(join(d, s), X, E, d.size)
  <1> DEFINE r == Pass(d, s)
             x == r.b
             C == Promised!Common(X, B)
  <1>1. r.rc = "ok" /\ x \in Good /\ x.size = d.size /\ Contents(x) = X
    BY PassLeaves
  <1>2. join(d, s) = ojoin(x, s)
    BY <1>1, JoinOf
  <1> HIDE DEF r, x
  <1>3. Overlaid(ojoin(x, s), X, C, d.size)
    BY <1>1, OjoinIs
  <1>4. ASSUME NEW g \in Fields PROVE C[g] = E[g]
    <2> DEFINE a == D[g]
               b == B[g]
               c == X[g]
    <2>1. /\ a \in Seq(Nat) /\ b \in Seq(Nat) /\ c \in Seq(Nat)
          /\ Len(a) \in Nat /\ Len(b) \in Nat /\ Len(c) \in Nat
      BY <1>1, ContentsType
    <2>2. Len(c) = Least(Len(a), Len(b))
      <3>1. InCommon(X, B, D, g)
        BY <2>1, CommonIs
      <3>2. QED
        BY <3>1 DEF InCommon
    <2>3. C[g] = Upto(b, Least(Len(b), Len(c)))
      <3>1. InCommon(C, X, B, g)
        <4> HIDE DEF C
        <4>1. C = Promised!Common(X, B)
          BY DEF C
        <4>2. QED
          BY <2>1, <4>1, CommonIs
      <3> HIDE DEF C
      <3>2. QED
        BY <3>1 DEF InCommon
    <2>4. E[g] = Upto(b, Least(Len(b), Len(a)))
      <3>1. InCommon(E, D, B, g)
        BY <2>1, CommonIs
      <3>2. QED
        BY <3>1 DEF InCommon
    <2> HIDE DEF C, a, b, c
    <2>5. Least(Len(b), Len(c)) = Least(Len(b), Len(a))
      BY <2>1, <2>2 DEF Least
    <2>6. QED
      BY <2>3, <2>4, <2>5
  <1>5. C = E
    <2>1. C = [g \in Fields |-> C[g]]
      BY DEF Promised!Common
    <2>2. E = [g \in Fields |-> E[g]]
      BY DEF Promised!Common
    <2> HIDE DEF C
    <2>3. QED
      BY <1>4, <2>1, <2>2
  <1> HIDE DEF C
  <1>6. QED
    BY <1>2, <1>3, <1>5

-----------------------------------------------------------------------------
(* Every step is one that the interface promises                           *)

\* The contents of the buffers in use.
Content == [b \in Bufs |-> Abstract(buf[b])]

LEMMA LiveIs ==
  ASSUME SoundInv
  PROVE  /\ Promised!Live = Live
         /\ \A b \in Live : b \in Bufs /\ buf[b] \in Good /\ Content[b] = Contents(buf[b])
  <1>1. ASSUME NEW b \in Bufs PROVE buf[b] \in Good \cup {NoBuf}
    BY DEF SoundInv, Buffers
  <1>2. ASSUME NEW b \in Bufs, buf[b] \in Good
        PROVE  Abstract(buf[b]) = Contents(buf[b]) /\ Abstract(buf[b]) # NoBuf /\ buf[b] # NoBuf
    <2> DEFINE x == buf[b]
    <2>1. x \in Good
      BY <1>2
    <2> HIDE DEF x
    <2>2. Abstract(x) = Contents(x) /\ Abstract(x) # NoBuf /\ x # NoBuf
      BY <2>1, AbstractIs
    <2>3. QED
      BY <2>2 DEF x
  <1>3. Abstract(NoBuf) = NoBuf
    BY DEF Abstract
  <1>4. \A b \in Bufs : Abstract(buf[b]) # NoBuf <=> buf[b] # NoBuf
    BY <1>1, <1>2, <1>3
  <1>5. Promised!Live = Live
    BY <1>4 DEF Live, Promised!Live
  <1>6. ASSUME NEW b \in Live
        PROVE  b \in Bufs /\ buf[b] \in Good /\ Content[b] = Contents(buf[b])
    <2>1. b \in Bufs /\ buf[b] # NoBuf
      BY DEF Live
    <2>2. buf[b] \in Good
      BY <1>1, <2>1
    <2>3. QED
      BY <1>2, <2>1, <2>2 DEF Content
  <1>7. QED
    BY <1>5, <1>6

LEMMA StoredIs ==
  ASSUME SoundInv, NEW b \in Bufs, NEW r, Store(b, r)
  PROVE  Content' = [Content EXCEPT ![b] = Abstract(r.b)] /\ ret' = r.rc
  <1>1. buf' = [buf EXCEPT ![b] = r.b] /\ ret' = r.rc
    BY DEF Store
  <1>2. DOMAIN buf = Bufs
    BY DEF SoundInv, Buffers
  <1>3. \A c \in Bufs : buf'[c] = IF c = b THEN r.b ELSE buf[c]
    BY <1>1, <1>2
  <1>4. Content' = [c \in Bufs |-> Abstract(buf'[c])]
    BY DEF Content, Abstract
  <1>5. \A c \in Bufs : Abstract(buf'[c]) = IF c = b THEN Abstract(r.b) ELSE Abstract(buf[c])
    BY <1>3
  <1>6. QED
    BY <1>1, <1>4, <1>5 DEF Content

LEMMA BecomeIs ==
  ASSUME SoundInv, NEW b \in Bufs, NEW r, Store(b, r), NEW T, Abstract(r.b) = T,
         NEW e, r.rc = e
  PROVE  Promised!Become(b, T, e)
  BY StoredIs DEF Promised!Become, Content

\* What the interface calls a failure without a change.
Codes == {"ok", "FNOSPACE", "FNOTPRES", "FEINVAL", "exception"}

LEMMA RefuseIs ==
  ASSUME SoundInv, NEW b \in Bufs, NEW r, Store(b, r), Abstract(r.b) = Abstract(buf[b]),
         r.rc \in Codes
  PROVE  Promised!Next
  <1>1. Content' = [Content EXCEPT ![b] = Abstract(buf[b])] /\ ret' = r.rc
    BY StoredIs
  <1>2. Content' = Content
    BY <1>1 DEF Content
  <1>3. Promised!Refuse
    BY <1>1, <1>2 DEF Promised!Refuse, Content, Codes
  <1>4. QED
    BY <1>3 DEF Promised!Next

LEMMA SameIs ==
  ASSUME SoundInv, NEW b \in Live, NEW e \in Codes, Store(b, Fail(buf[b], e))
  PROVE  Promised!Next
  <1>1. b \in Bufs
    BY DEF Live
  <1>2. Fail(buf[b], e).b = buf[b] /\ Fail(buf[b], e).rc = e
    BY DEF Fail
  <1>3. QED
    BY <1>1, <1>2, RefuseIs

LEMMA ClearIs ==
  ASSUME SoundInv, NEW b \in Bufs, NEW x, Store(b, Done(x)), NEW c,
         c \in {Promised!Empty, NoBuf}, Abstract(x) = c
  PROVE  Promised!Next
  <1>1. Done(x).b = x /\ Done(x).rc = "ok"
    BY DEF Done
  <1>2. Promised!Become(b, c, "ok")
    BY <1>1, BecomeIs
  <1>3. Promised!Replace(b)
    BY <1>2 DEF Promised!Replace
  <1>4. QED
    BY <1>3 DEF Promised!Next

LEMMA OneIs ==
  ASSUME SoundInv, NEW b \in Live,
         Promised!Change(b) \/ Promised!Delete(b) \/ Promised!DeleteFields(b)
  PROVE  Promised!Next
  <1>1. b \in Promised!Live
    BY LiveIs
  <1>2. QED
    BY <1>1 DEF Promised!Next

\* The table with the occurrences of one field replaced.
LEMMA ExceptIs ==
  ASSUME NEW b \in Good, NEW e \in Good, NEW f \in Fields, NEW z, Occs(e, f) = z,
         \A g \in Fields \ {f} : Occs(e, g) = Occs(b, g)
  PROVE  Abstract(e) = [Contents(b) EXCEPT ![f] = z]
  <1>1. Abstract(e) = Contents(e)
    BY AbstractIs
  <1>2. \A g \in Fields : Occs(e, g) = IF g = f THEN z ELSE Occs(b, g)
    OBVIOUS
  <1>3. Contents(e) = [g \in Fields |-> IF g = f THEN z ELSE Occs(b, g)]
    BY <1>2 DEF Contents
  <1>4. [Contents(b) EXCEPT ![f] = z] = [g \in Fields |-> IF g = f THEN z ELSE Occs(b, g)]
    BY DEF Contents
  <1>5. QED
    BY <1>1, <1>3, <1>4

LEMMA MaxPair ==
  ASSUME NEW a \in Int, NEW c \in Int
  PROVE  Promised!Max({a, c}) = IF a <= c THEN c ELSE a
  <1> DEFINE m == IF a <= c THEN c ELSE a
  <1>1. m \in {a, c} /\ \A y \in {a, c} : m >= y
    OBVIOUS
  <1>2. \A x \in {a, c} : (\A y \in {a, c} : x >= y) => x = m
    OBVIOUS
  <1> HIDE DEF m
  <1>3. Promised!Max({a, c}) = m
    BY <1>1, <1>2 DEF Promised!Max
  <1>4. QED
    BY <1>3 DEF m

\* Storing an occurrence: o is the one named, or the next one.
LEMMA ChangeIs ==
  ASSUME SoundInv, NEW b \in Live, NEW f \in Fields, NEW v \in Values,
         NEW oc \in Int, oc >= -1, oc <= MaxOcc \/ oc = Len(Occs(buf[b], f)),
         Store(b, chg(buf[b], f, oc, v))
  PROVE  Promised!Next
  <1> DEFINE B == buf[b]
             r == chg(B, f, oc, v)
             s == Occs(B, f)
             n == Len(s)
             o == Chosen(B, f, oc)
             T == Abstract(r.b)
  <1>1. b \in Bufs /\ B \in Good /\ Content[b] = Contents(B) /\ v \in Nat
    BY LiveIs, Fml32Assumption
  <1>2. Store(b, r) /\ (oc <= MaxOcc \/ oc = n)
    OBVIOUS
  <1> HIDE DEF B
  <1>3. s \in Seq(Nat) /\ n \in Nat /\ occur(B, f) = n /\ s = Contents(B)[f]
    BY <1>1, OccsType DEF Contents
  <1>4. Stored(r, B, f, o, v)
    BY <1>1, ChgIs
  <1>5. MaxOcc \in Nat
    BY Fml32Assumption
  <1>6. o \in Nat /\ (o <= MaxOcc \/ o = n)
    BY <1>2, <1>3, <1>5 DEF Chosen
  <1> HIDE DEF r, n, o, T
  <1>7. o \in 0..Promised!Max({MaxOcc, n})
    <2>1. /\ Promised!Max({MaxOcc, n}) = IF MaxOcc <= n THEN n ELSE MaxOcc
      BY <1>3, <1>5, MaxPair
    <2>2. QED
      BY <1>3, <1>5, <1>6, <2>1
  <1>8. ASSUME r.rc = "ok"
        PROVE  Promised!Become(b, [Content[b] EXCEPT ![f] = Promised!PutAt(s, o, v)], "ok")
    <2> DEFINE z == Promised!PutAt(s, o, v)
    <2>1. Changed(r.b, B, f, z)
      BY <1>4, <1>8 DEF Stored
    <2> HIDE DEF z
    <2>2. /\ r.b \in Good /\ Occs(r.b, f) = z
          /\ \A g \in Fields \ {f} : Occs(r.b, g) = Occs(B, g)
      BY <2>1 DEF Changed
    <2>3. Abstract(r.b) = [Contents(B) EXCEPT ![f] = z]
      BY <1>1, <2>2, ExceptIs
    <2>4. Abstract(r.b) = [Content[b] EXCEPT ![f] = z]
      BY <1>1, <2>3
    <2>5. QED
      BY <1>1, <1>2, <1>8, <2>4, BecomeIs DEF z
  <1>9. ASSUME r.rc # "ok"
        PROVE  \E k \in 0..Promised!Max({0, o - n}) :
                 Promised!Become(b, [Content[b] EXCEPT ![f] = s \o Promised!Zeros(k)], "FNOSPACE")
    <2>1. r.rc = "FNOSPACE"
      BY <1>4, <1>9 DEF Stored
    <2>2. PICK k \in Nat : (k = 0 \/ k <= o - n) /\ Changed(r.b, B, f, Fill(s, k))
      BY <1>4, <1>9 DEF Stored, n
    <2> DEFINE z == s \o Promised!Zeros(k)
    <2>3. Changed(r.b, B, f, z)
      BY <2>2 DEF Fill
    <2> HIDE DEF z
    <2>4. /\ r.b \in Good /\ Occs(r.b, f) = z
          /\ \A g \in Fields \ {f} : Occs(r.b, g) = Occs(B, g)
      BY <2>3 DEF Changed
    <2>5. Abstract(r.b) = [Contents(B) EXCEPT ![f] = z]
      BY <1>1, <2>4, ExceptIs
    <2>6. Abstract(r.b) = [Content[b] EXCEPT ![f] = z]
      BY <1>1, <2>5
    <2>7. Promised!Become(b, [Content[b] EXCEPT ![f] = z], "FNOSPACE")
      BY <1>1, <1>2, <2>1, <2>6, BecomeIs
    <2>8. k \in 0..Promised!Max({0, o - n})
      <3> DEFINE m == o - n
      <3>1. m \in Int /\ 0 \in Int /\ (k = 0 \/ k <= m)
        BY <1>3, <1>6, <2>2
      <3> HIDE DEF m
      <3>2. Promised!Max({0, m}) = IF 0 <= m THEN m ELSE 0
        BY <3>1, MaxPair
      <3>3. k \in 0..Promised!Max({0, m})
        BY <2>2, <3>1, <3>2
      <3>4. QED
        BY <3>3 DEF m
    <2>9. QED
      BY <2>7, <2>8 DEF z
  <1>10. Promised!Change(b)
    <2>1. Content[b][f] = s
      BY <1>1, <1>3
    <2>2. \/ Promised!Become(b, [Content[b] EXCEPT ![f] = Promised!PutAt(s, o, v)], "ok")
          \/ \E k \in 0..Promised!Max({0, o - n}) :
               Promised!Become(b, [Content[b] EXCEPT ![f] = s \o Promised!Zeros(k)], "FNOSPACE")
      BY <1>8, <1>9
    <2>3. QED
      BY <1>7, <2>1, <2>2 DEF Promised!Change, Content, n
  <1>11. QED
    BY <1>10, OneIs

LEMMA DeleteIs ==
  ASSUME SoundInv, ErasesLast, NEW b \in Live, NEW f \in Erasable, NEW oc \in -1..MaxOcc,
         Store(b, del(buf[b], f, oc))
  PROVE  Promised!Next
  <1> DEFINE B == buf[b]
             r == del(B, f, oc)
             s == Occs(B, f)
             z == Without(s, oc, oc + 1)
  <1>1. b \in Bufs /\ B \in Good /\ Content[b] = Contents(B)
    BY LiveIs
  <1>2. f \in Fields /\ LastType(f) /\ oc \in Int /\ MaxOcc \in Nat
    BY Fml32Assumption DEF ErasesLast
  <1>3. Store(b, r)
    OBVIOUS
  <1>4. CASE oc \notin 0..(Len(s) - 1)
    <2>1. r = Fail(B, "FNOTPRES")
      <3> HIDE DEF B
      <3>1. PICK p, q : Span(B.flds, f, p, q)
        BY <1>1, <1>2, SpanOf
      <3>2. QED
        BY <1>1, <1>2, <1>4, <3>1, DelIs
    <2>2. Store(b, Fail(buf[b], "FNOTPRES"))
      BY <1>3, <2>1
    <2>3. "FNOTPRES" \in Codes
      BY DEF Codes
    <2>4. QED
      BY <2>2, <2>3, SameIs
  <1>5. CASE oc \in 0..(Len(s) - 1)
    <2> HIDE DEF B
    <2>1. r.rc = "ok" /\ Left(r.b, B, f, z)
      <3>1. PICK p, q : Span(B.flds, f, p, q)
        BY <1>1, <1>2, SpanOf
      <3>2. QED
        BY <1>1, <1>2, <1>5, <3>1, DelIs
    <2>2. s \in Seq(Nat) /\ Len(s) \in Nat /\ s = Contents(B)[f]
      BY <1>1, <1>2, OccsType DEF Contents
    <2> HIDE DEF r
    <2>3. oc \in Nat /\ oc < Len(s) /\ oc \in 0..MaxOcc
      BY <1>2, <1>5, <2>2
    <2>4. z = Promised!RemoveAt(s, oc + 1)
      <3> HIDE DEF s
      <3>1. z = RemoveAt(s, oc + 1)
        BY <2>2, <2>3, WithoutOne
      <3> HIDE DEF z
      <3>2. QED
        BY <3>1 DEF RemoveAt, Promised!RemoveAt
    <2> HIDE DEF z
    <2>5. /\ r.b \in Good /\ Occs(r.b, f) = z
          /\ \A g \in Fields \ {f} : Occs(r.b, g) = Occs(B, g)
      BY <2>1 DEF Left
    <2>6. Abstract(r.b) = [Contents(B) EXCEPT ![f] = z]
      BY <1>1, <1>2, <2>5, ExceptIs
    <2>7. Abstract(r.b) = [Content[b] EXCEPT ![f] = Promised!RemoveAt(s, oc + 1)]
      BY <1>1, <2>4, <2>6
    <2>8. Promised!Become(b, [Content[b] EXCEPT ![f] = Promised!RemoveAt(s, oc + 1)], "ok")
      BY <1>1, <1>3, <2>1, <2>7, BecomeIs
    <2>9. Content[b][f] = s
      BY <1>1, <2>2
    <2> HIDE DEF s
    <2>10. Promised!Delete(b)
      BY <1>2, <2>3, <2>8, <2>9 DEF Promised!Delete, Content
    <2>11. QED
      BY <2>10, OneIs
  <1>6. QED
    BY <1>4, <1>5

\* Fields deleted altogether.
LEMMA RemoveIs ==
  ASSUME SoundInv, NEW b \in Live, NEW T, NEW r, Store(b, r), Removed(r, buf[b], T)
  PROVE  Promised!Next
  <1> DEFINE B == buf[b]
             K == Fields \ T
  <1>1. b \in Bufs /\ B \in Good /\ Content[b] = Contents(B)
    BY LiveIs
  <1>2. r.rc = "ok" /\ r.b \in Good /\ \A g \in Fields : Occs(r.b, g) = IF g \in T THEN <<>> ELSE Occs(B, g)
    BY DEF Removed
  <1> HIDE DEF B
  <1>3. Abstract(r.b) = Promised!Keep(Content[b], K)
    <2>1. \A g \in Fields : Occs(r.b, g) = IF g \in K THEN Contents(B)[g] ELSE <<>>
      BY Zenon, <1>2 DEF Contents
    <2>2. Abstract(r.b) = [g \in Fields |-> Occs(r.b, g)]
      BY <1>2, AbstractIs DEF Contents
    <2>3. QED
      BY <1>1, <2>1, <2>2 DEF Promised!Keep
  <1>4. Promised!Become(b, Promised!Keep(Content[b], K), "ok")
    BY <1>1, <1>2, <1>3, BecomeIs
  <1>5. K \in SUBSET Fields
    OBVIOUS
  <1> HIDE DEF K
  <1>6. Promised!DeleteFields(b)
    BY <1>4, <1>5 DEF Promised!DeleteFields, Content
  <1>7. QED
    BY <1>6, OneIs

LEMMA DeleteAllIs ==
  ASSUME SoundInv, ErasesLast, NEW b \in Live, NEW f \in Erasable, Store(b, delall(buf[b], f))
  PROVE  Promised!Next
  <1> DEFINE B == buf[b]
             r == delall(B, f)
  <1>1. b \in Bufs /\ B \in Good
    BY LiveIs
  <1>2. f \in Fields /\ LastType(f)
    BY Fml32Assumption DEF ErasesLast
  <1>3. Store(b, r)
    OBVIOUS
  <1>4. CASE Occs(B, f) = <<>>
    <2>1. r = Fail(B, "FNOTPRES")
      <3> HIDE DEF B
      <3>1. PICK p, q : Span(B.flds, f, p, q)
        BY <1>1, <1>2, SpanOf
      <3>2. QED
        BY <1>1, <1>2, <1>4, <3>1, DelallIs
    <2>2. Store(b, Fail(buf[b], "FNOTPRES"))
      BY <1>3, <2>1
    <2>3. "FNOTPRES" \in Codes
      BY DEF Codes
    <2>4. QED
      BY <2>2, <2>3, SameIs
  <1>5. CASE Occs(B, f) # <<>>
    <2>1. r.rc = "ok" /\ Left(r.b, B, f, <<>>)
      <3> HIDE DEF B
      <3>1. PICK p, q : Span(B.flds, f, p, q)
        BY <1>1, <1>2, SpanOf
      <3>2. QED
        BY <1>1, <1>2, <1>5, <3>1, DelallIs
    <2> HIDE DEF r
    <2>2. Removed(r, buf[b], {f})
      BY <2>1 DEF Left, Removed
    <2>3. QED
      BY <1>3, <2>2, RemoveIs
  <1>6. QED
    BY <1>4, <1>5

LEMMA DeleteSomeIs ==
  ASSUME SoundInv, ErasesLast, NEW b \in Live, NEW S \in SUBSET Erasable,
         \/ Store(b, xdelete(buf[b], S))
         \/ Store(b, proj(buf[b], Fields \ S))
  PROVE  Promised!Next
  <1> DEFINE B == buf[b]
             K == Fields \ S
  <1>1. B \in Good
    BY LiveIs
  <1>2. S \in SUBSET Fields /\ \A g \in S : LastType(g)
    BY Fml32Assumption DEF ErasesLast
  <1>3. CASE Store(b, xdelete(B, S))
    <2>1. Removed(xdelete(B, S), B, S)
      <3> HIDE DEF B
      <3> QED
        BY <1>1, <1>2, XdeleteIs
    <2>2. QED
      BY <1>3, <2>1, RemoveIs
  <1>4. CASE Store(b, proj(B, K))
    <2>1. Removed(proj(B, K), B, S)
      <3>1. K \in SUBSET Fields /\ S = Fields \ K
        BY <1>2
      <3> HIDE DEF B, K
      <3>2. QED
        BY <1>1, <1>2, <3>1, ProjIs
    <2>2. QED
      BY <1>4, <2>1, RemoveIs
  <1>5. QED
    BY <1>3, <1>4

\* What applying occurrences one after the other gives: T with error e.
Lays(T, e, D, C) ==
  \/ e = "ok" /\ T = Promised!Overlay(D, C)
  \/ /\ e = "FNOSPACE"
     /\ \E f \in Fields : \E k \in 0..Len(C[f]) : T = Promised!Overlay(D, Promised!Take(C, f, k))

Puts(T, e, D, C) ==
  \/ e = "ok" /\ T = Promised!Append2(D, C)
  \/ /\ e = "FNOSPACE"
     /\ \E f \in Fields : \E k \in 0..Len(C[f]) : T = Promised!Append2(D, Promised!Take(C, f, k))

LEMMA LaysIs ==
  ASSUME NEW D, NEW C, NEW m, NEW r, Overlaid(r, D, C, m)
  PROVE  Lays(Abstract(r.b), r.rc, D, C)
  <1>1. r.b \in Good /\ (r.rc # "ok" => r.rc = "FNOSPACE")
    BY DEF Overlaid, Res
  <1>2. CASE r.rc = "ok"
    <2>1. Has(r.b, Promised!Overlay(D, C))
      BY <1>2 DEF Overlaid
    <2>2. Abstract(r.b) = Promised!Overlay(D, C)
      BY <1>1, <2>1, HasIs, Tables
    <2>3. QED
      BY <1>2, <2>2 DEF Lays
  <1>3. CASE r.rc # "ok"
    <2>1. PICK f \in Fields : \E k \in 0..Len(C[f]) :
                                Has(r.b, Promised!Overlay(D, Promised!Take(C, f, k)))
      BY <1>3 DEF Overlaid
    <2>2. PICK k \in 0..Len(C[f]) : Has(r.b, Promised!Overlay(D, Promised!Take(C, f, k)))
      BY <2>1
    <2>3. Abstract(r.b) = Promised!Overlay(D, Promised!Take(C, f, k))
      BY <1>1, <2>2, HasIs, Tables
    <2>4. QED
      BY <1>1, <1>3, <2>3 DEF Lays
  <1>4. QED
    BY <1>2, <1>3

LEMMA PutsIs ==
  ASSUME NEW D, NEW C, NEW m, NEW r, Appended(r, D, C, m)
  PROVE  Puts(Abstract(r.b), r.rc, D, C)
  <1>1. r.b \in Good /\ (r.rc # "ok" => r.rc = "FNOSPACE")
    BY DEF Appended, Res
  <1>2. CASE r.rc = "ok"
    <2>1. Has(r.b, Promised!Append2(D, C))
      BY <1>2 DEF Appended
    <2>2. Abstract(r.b) = Promised!Append2(D, C)
      BY <1>1, <2>1, HasIs, Tables
    <2>3. QED
      BY <1>2, <2>2 DEF Puts
  <1>3. CASE r.rc # "ok"
    <2>1. PICK f \in Fields : \E k \in 0..Len(C[f]) :
                                Has(r.b, Promised!Append2(D, Promised!Take(C, f, k)))
      BY <1>3 DEF Appended
    <2>2. PICK k \in 0..Len(C[f]) : Has(r.b, Promised!Append2(D, Promised!Take(C, f, k)))
      BY <2>1
    <2>3. Abstract(r.b) = Promised!Append2(D, Promised!Take(C, f, k))
      BY <1>1, <2>2, HasIs, Tables
    <2>4. QED
      BY <1>1, <1>3, <2>3 DEF Puts
  <1>4. QED
    BY <1>2, <1>3

\* On an empty buffer the two are the same.
LEMMA TakeType ==
  ASSUME NEW C \in [Fields -> Seq(Nat)], NEW f \in Fields, NEW k \in 0..Len(C[f])
  PROVE  Promised!Take(C, f, k) \in [Fields -> Seq(Nat)]
  <1>1. ASSUME NEW g \in Fields
        PROVE  (IF g < f THEN C[g] ELSE IF g = f THEN SubSeq(C[g], 1, k) ELSE <<>>) \in Seq(Nat)
    <2>1. C[g] \in Seq(Nat) /\ <<>> \in Seq(Nat)
      OBVIOUS
    <2>2. g = f => SubSeq(C[g], 1, k) \in Seq(Nat)
      <3> DEFINE y == C[f]
      <3>1. y \in Seq(Nat) /\ k \in 0..Len(y)
        OBVIOUS
      <3> HIDE DEF y
      <3>2. SubSeq(y, 1, k) \in Seq(Nat)
        BY <3>1, UptoIs DEF Upto
      <3>3. QED
        BY <3>2 DEF y
    <2>3. QED
      BY <2>1, <2>2
  <1>2. QED
    BY <1>1 DEF Promised!Take

LEMMA OverNothing ==
  ASSUME NEW C \in [Fields -> Seq(Nat)]
  PROVE  Promised!Overlay(Promised!Empty, C) = Promised!Append2(Promised!Empty, C)
  <1>1. ASSUME NEW f \in Fields
        PROVE  C[f] \o SubSeq(<<>>, Len(C[f]) + 1, 0) = <<>> \o C[f]
    <2> DEFINE y == C[f]
    <2>1. y \in Seq(Nat)
      OBVIOUS
    <2> HIDE DEF y
    <2>2. SubSeq(<<>>, Len(y) + 1, 0) = <<>>
      BY <2>1
    <2>3. y \o <<>> = y /\ <<>> \o y = y
      BY <2>1
    <2>4. QED
      BY <2>2, <2>3 DEF y
  <1>2. \A f \in Fields : Promised!Empty[f] = <<>> /\ Len(Promised!Empty[f]) = 0
    BY DEF Promised!Empty
  <1>3. \A f \in Fields : C[f] \o SubSeq(Promised!Empty[f], Len(C[f]) + 1, Len(Promised!Empty[f]))
                            = Promised!Empty[f] \o C[f]
    BY <1>1, <1>2
  <1>4. QED
    BY <1>3 DEF Promised!Overlay, Promised!Append2

LEMMA PutsNothing ==
  ASSUME NEW C \in [Fields -> Seq(Nat)], NEW T, NEW e, Puts(T, e, Promised!Empty, C)
  PROVE  Lays(T, e, Promised!Empty, C)
  <1>1. CASE e = "ok" /\ T = Promised!Append2(Promised!Empty, C)
    BY <1>1, OverNothing DEF Lays
  <1>2. CASE /\ e = "FNOSPACE"
             /\ \E f \in Fields : \E k \in 0..Len(C[f]) :
                  T = Promised!Append2(Promised!Empty, Promised!Take(C, f, k))
    <2>1. PICK f \in Fields : \E k \in 0..Len(C[f]) :
                 T = Promised!Append2(Promised!Empty, Promised!Take(C, f, k))
      BY <1>2
    <2>2. PICK k \in 0..Len(C[f]) : T = Promised!Append2(Promised!Empty, Promised!Take(C, f, k))
      BY <2>1
    <2>3. T = Promised!Overlay(Promised!Empty, Promised!Take(C, f, k))
      BY <2>2, TakeType, OverNothing
    <2>4. QED
      BY <1>2, <2>3 DEF Lays
  <1>3. QED
    BY <1>1, <1>2 DEF Puts

\* The ways in which one buffer may change another.
LEMMA TwoIs ==
  ASSUME SoundInv, NEW b \in Live, NEW s \in Live,
         NEW d, d = Content[b], NEW c, c = Content[s],
         NEW r, Store(b, r), NEW T, T = Abstract(r.b), NEW e, e = r.rc,
         \/ T = c /\ e = "ok"
         \/ Lays(T, e, d, c)
         \/ Puts(T, e, d, c)
         \/ Lays(T, e, d, Promised!Common(d, c))
         \/ Lays(T, e, Promised!Common(c, d), Promised!Common(d, c))
         \/ \E S \in SUBSET Fields : Lays(T, e, Promised!Empty, Promised!Keep(c, S))
  PROVE  Promised!Next
  <1>1. b \in Bufs /\ b \in Promised!Live /\ s \in Promised!Live
    BY LiveIs
  <1>2. Promised!Become(b, T, e)
    BY <1>1, BecomeIs
  <1>3. ASSUME NEW D, NEW C, Lays(T, e, D, C)
        PROVE  Promised!Apply(b, D, C, Promised!Overlay)
    BY <1>2, <1>3 DEF Lays, Promised!Apply
  <1>4. ASSUME Puts(T, e, d, c) PROVE Promised!Apply(b, d, c, Promised!Append2)
    BY <1>2, <1>4 DEF Puts, Promised!Apply
  <1>5. Promised!Combine(b, s)
    BY <1>2, <1>3, <1>4 DEF Promised!Combine, Content
  <1>6. QED
    BY <1>1, <1>5 DEF Promised!Next

\* A buffer copied into another of a different size.
LEMMA CopyIs ==
  ASSUME SoundInv, NEW b \in Live, NEW s \in Live, NEW r,
         Store(b, r), NEW e, e = [buf[s] EXCEPT !.size = buf[b].size],
         r = Fail(buf[b], "FNOSPACE") \/ (r = Done(e) /\ buf[s].len <= buf[b].size)
  PROVE  Promised!Next
  <1> DEFINE x == buf[s]
             m == buf[b].size
  <1>1. x \in Good /\ buf[b] \in Good /\ Content[s] = Contents(x) /\ m \in Int
    BY LiveIs, GoodIs
  <1>2. CASE r = Fail(buf[b], "FNOSPACE")
    <2>1. "FNOSPACE" \in Codes /\ Store(b, Fail(buf[b], "FNOSPACE"))
      BY <1>2 DEF Codes
    <2>2. QED
      BY <2>1, SameIs
  <1>3. CASE r = Done(e) /\ x.len <= m
    <2>1. e = [x EXCEPT !.size = m]
      OBVIOUS
    <2> HIDE DEF x, m
    <2>2. e \in Good
      BY <1>1, <1>3, <2>1, ResizedIs
    <2>4. Contents(e) = Contents(x)
      BY <1>1, <1>3, <2>1, ResizedIs
    <2>5. Abstract(e) = Content[s]
      BY <1>1, <2>2, <2>4, AbstractIs
    <2>6. r.b = e /\ r.rc = "ok"
      BY <1>3 DEF Done
    <2>7. Abstract(r.b) = Content[s]
      BY <2>5, <2>6
    <2> HIDE DEF Content
    <2>8. QED
      BY <2>6, <2>7, TwoIs
  <1>4. QED
    BY <1>2, <1>3

\* Fupdate32, Fconcat32 and Fojoin32.
LEMMA MergeIs ==
  ASSUME SoundInv, NEW b \in Live, NEW s \in Live,
         \/ Store(b, update(buf[b], buf[s]))
         \/ Store(b, concat(buf[b], buf[s]))
         \/ Store(b, ojoin(buf[b], buf[s]))
  PROVE  Promised!Next
  <1> DEFINE x == buf[b]
             y == buf[s]
             d == Content[b]
             c == Content[s]
             both == Promised!Common(d, c)
  <1>1. x \in Good /\ y \in Good /\ d = Contents(x) /\ c = Contents(y)
    BY LiveIs
  <1> HIDE DEF Content
  <1>2. CASE Store(b, update(x, y))
    <2> DEFINE r == update(x, y)
    <2>1. Overlaid(r, d, c, x.size)
      <3> HIDE DEF x, y
      <3> QED
        BY <1>1, UpdateIs
    <2>2. Store(b, r)
      BY <1>2
    <2> HIDE DEF r, x
    <2>3. Lays(Abstract(r.b), r.rc, d, c)
      BY <2>1, LaysIs
    <2>4. QED
      BY <2>2, <2>3, TwoIs
  <1>3. CASE Store(b, concat(x, y))
    <2> DEFINE r == concat(x, y)
    <2>1. r = Fail(x, "FNOSPACE") \/ Appended(r, d, c, x.size)
      <3> HIDE DEF x, y
      <3> QED
        BY <1>1, ConcatIs
    <2>2. Store(b, r)
      BY <1>3
    <2> HIDE DEF r
    <2>3. CASE r = Fail(x, "FNOSPACE")
      <3>1. "FNOSPACE" \in Codes /\ Store(b, Fail(buf[b], "FNOSPACE"))
        BY <2>2, <2>3 DEF Codes
      <3>2. QED
        BY <3>1, SameIs
    <2>4. CASE Appended(r, d, c, x.size)
      <3> HIDE DEF x
      <3>1. Puts(Abstract(r.b), r.rc, d, c)
        BY <2>4, PutsIs
      <3>2. QED
        BY <2>2, <3>1, TwoIs
    <2>5. QED
      BY <2>1, <2>3, <2>4
  <1>4. CASE Store(b, ojoin(x, y))
    <2> DEFINE r == ojoin(x, y)
    <2>1. Overlaid(r, d, both, x.size)
      <3> HIDE DEF x, y
      <3> QED
        BY <1>1, OjoinIs
    <2>2. Store(b, r)
      BY <1>4
    <2> HIDE DEF r, x, both
    <2>3. Lays(Abstract(r.b), r.rc, d, both)
      BY <2>1, LaysIs
    <2>4. QED
      BY <2>2, <2>3, TwoIs DEF both
  <1>5. QED
    BY <1>2, <1>3, <1>4

LEMMA PickIs ==
  ASSUME SoundInv, NEW b \in Live, NEW s \in Live, NEW S \in SUBSET Fields,
         Store(b, projcpy(buf[b], buf[s], S))
  PROVE  Promised!Next
  <1> DEFINE x == buf[b]
             y == buf[s]
             c == Content[s]
             K == Promised!Keep(c, S)
             r == projcpy(x, y, S)
  <1>1. x \in Good /\ y \in Good /\ c = Contents(y)
    BY LiveIs
  <1> HIDE DEF Content
  <1>2. c \in [Fields -> Seq(Nat)]
    <2> HIDE DEF y
    <2> QED
      BY <1>1, ContentsType
  <1>3. K \in [Fields -> Seq(Nat)]
    BY <1>2, KeepType
  <1>4. Appended(r, Promised!Empty, K, x.size)
    <2> HIDE DEF x, y
    <2> QED
      BY <1>1, ProjcpyIs
  <1>5. Store(b, r)
    OBVIOUS
  <1> HIDE DEF r, x, K
  <1>6. Lays(Abstract(r.b), r.rc, Promised!Empty, K)
    BY <1>3, <1>4, PutsIs, PutsNothing
  <1>7. \E Q \in SUBSET Fields :
          Lays(Abstract(r.b), r.rc, Promised!Empty, Promised!Keep(c, Q))
    BY <1>6 DEF K
  <1>8. QED
    BY <1>5, <1>7, TwoIs

LEMMA JoinedIs ==
  ASSUME SoundInv, ErasesLast, MaxExcess <= 1, NEW b \in Live, NEW s \in Live,
         Joinable(buf[b], buf[s]), Store(b, join(buf[b], buf[s]))
  PROVE  Promised!Next
  <1> DEFINE x == buf[b]
             y == buf[s]
             d == Content[b]
             c == Content[s]
             r == join(x, y)
  <1>1. x \in Good /\ y \in Good /\ d = Contents(x) /\ c = Contents(y)
    BY LiveIs
  <1>2. Store(b, r) /\ Joinable(x, y)
    OBVIOUS
  <1> HIDE DEF Content, x, y
  <1>3. Removable(x, y)
    BY <1>1, <1>2, JoinableIs
  <1>4. ASSUME NEW f \in Fields PROVE Number(x, f) <= Number(y, f) + 1
    <2>1. /\ occur(x, f) = Number(x, f) /\ occur(y, f) = Number(y, f)
          /\ Number(x, f) \in Nat /\ Number(y, f) \in Nat
      BY <1>1, OccsType DEF Number
    <2>2. Number(x, f) - Number(y, f) > 0 => Number(x, f) - Number(y, f) <= MaxExcess
      BY <1>2, <2>1 DEF Joinable
    <2>3. MaxExcess \in Nat
      BY Fml32Assumption
    <2>4. QED
      BY <2>1, <2>2, <2>3
  <1>5. Overlaid(r, Promised!Common(c, d), Promised!Common(d, c), x.size)
    BY <1>1, <1>3, <1>4, JoinOverlays
  <1> HIDE DEF r
  <1>6. Lays(Abstract(r.b), r.rc, Promised!Common(c, d), Promised!Common(d, c))
    BY <1>5, LaysIs
  <1>7. QED
    BY <1>2, <1>6, TwoIs

\* The occurrences as they are printed and read again.
Printed(c) == [g \in Fields |-> [j \in DOMAIN c[g] |-> Ftypcvt32(g, c[g][j])]]

LEMMA PrintedIs ==
  ASSUME NEW c \in [Fields -> Seq(Nat)]
  PROVE  /\ Printed(c) \in [Fields -> Seq(Nat)]
         /\ \E longer \in SUBSET Fields :
              Printed(c) = [f \in Fields |-> [i \in DOMAIN c[f] |->
                              Promised!Text(f, c[f][i]) + (IF f \in longer THEN 1 ELSE 0)]]
  <1> DEFINE L == {f \in Fields : Region[FldType[f]] = "CARRAY"}
  <1>1. \A f \in Fields : c[f] \in Seq(Nat)
    OBVIOUS
  <1>2. \A f \in Fields : \A i \in DOMAIN c[f] : c[f][i] \in Nat
    BY <1>1
  <1>3. \A f \in Fields, v \in Nat :
          Ftypcvt32(f, v) = Promised!Text(f, v) + (IF f \in L THEN 1 ELSE 0)
    BY DEF Ftypcvt32, reads, Promised!Text
  <1>4. \A f \in Fields, v \in Nat : Ftypcvt32(f, v) \in Nat
    BY ConvertedType
  <1>5. ASSUME NEW f \in Fields PROVE Printed(c)[f] \in Seq(Nat)
    <2> DEFINE y == c[f]
    <2>1. y \in Seq(Nat) /\ Printed(c)[f] = [j \in DOMAIN y |-> Ftypcvt32(f, y[j])]
      BY <1>1 DEF Printed
    <2> HIDE DEF y
    <2>4. DOMAIN y = 1..Len(y) /\ Len(y) \in Nat /\ \A j \in 1..Len(y) : y[j] \in Nat
      BY <2>1
    <2>2. \A j \in 1..Len(y) : Ftypcvt32(f, y[j]) \in Nat
      BY <1>4, <2>4
    <2>3. QED
      BY <2>1, <2>2, <2>4
  <1>6. Printed(c) \in [Fields -> Seq(Nat)]
    BY <1>5 DEF Printed
  <1> HIDE DEF L
  <1>7. \A f \in Fields : \A i \in DOMAIN c[f] :
          Ftypcvt32(f, c[f][i]) = Promised!Text(f, c[f][i]) + (IF f \in L THEN 1 ELSE 0)
    BY <1>2, <1>3
  <1>8. Printed(c) = [f \in Fields |-> [i \in DOMAIN c[f] |->
                         Promised!Text(f, c[f][i]) + (IF f \in L THEN 1 ELSE 0)]]
    BY <1>7 DEF Printed
  <1>9. L \in SUBSET Fields
    BY DEF L
  <1>10. QED
    BY <1>6, <1>8, <1>9

LEMMA RereadIs ==
  ASSUME SoundInv, NEW b \in Live, NEW s \in Live, Store(b, cpy(buf[b], extread(buf[s])))
  PROVE  Promised!Next
  <1> DEFINE x == buf[b]
             y == buf[s]
             m == x.size
             c == Content[s]
             C == Printed(c)
             e == extread(y)
             z == [e EXCEPT !.size = m]
             r == cpy(x, e)
  <1>1. /\ b \in Bufs /\ b \in Promised!Live /\ s \in Promised!Live
        /\ x \in Good /\ y \in Good /\ c = Contents(y)
    BY LiveIs
  <1>2. Store(b, r)
    OBVIOUS
  <1> HIDE DEF Content, y
  <1>3. c \in [Fields -> Seq(Nat)]
    BY <1>1, ContentsType
  <1>4. C \in [Fields -> Seq(Nat)]
    BY <1>3, PrintedIs
  <1>5. e \in Good /\ Contents(e) = C
    <2>1. C = [g \in Fields |-> [j \in DOMAIN Occs(y, g) |-> Ftypcvt32(g, Occs(y, g)[j])]]
      BY <1>1 DEF Printed, Contents
    <2> HIDE DEF C
    <2>2. PICK w : /\ Appended(w, Promised!Empty, C, Bytes(Lines(y.flds)))
                   /\ w.rc = "ok" /\ extread(y) = w.b
      BY <1>1, <2>1, ExtreadIs
    <2>3. Promised!Append2(Promised!Empty, C) = C
      BY <1>4, FromNothing
    <2>4. w.b \in Good /\ Has(w.b, C)
      BY <2>2, <2>3 DEF Appended, Res
    <2>5. Contents(w.b) = [g \in Fields |-> C[g]]
      BY <2>4 DEF Has, Contents
    <2>6. QED
      BY <1>4, <2>2, <2>4, <2>5
  <1> HIDE DEF e, C
  <1>6. e.len \in Int /\ m \in Int
    <2> HIDE DEF x
    <2> QED
      BY <1>1, <1>5, GoodIs
  <1>7. CASE m < e.len
    <2>1. r = Fail(buf[b], "FNOSPACE")
      BY <1>7 DEF cpy
    <2>2. "FNOSPACE" \in Codes /\ Store(b, Fail(buf[b], "FNOSPACE"))
      BY <1>2, <2>1 DEF Codes
    <2>3. QED
      BY <2>2, SameIs
  <1>8. CASE ~(m < e.len)
    <2>1. r = Done(z)
      BY <1>8 DEF cpy
    <2>2. r.b = z /\ r.rc = "ok"
      BY <2>1 DEF Done
    <2> HIDE DEF r, m
    <2>3. z \in Good /\ Contents(z) = C
      BY <1>5, <1>6, <1>8, ResizedIs
    <2> HIDE DEF z
    <2>4. Abstract(r.b) = C
      BY <2>2, <2>3, AbstractIs
    <2>5. Promised!Become(b, C, "ok")
      BY <1>1, <1>2, <2>2, <2>4, BecomeIs
    <2>6. PICK longer \in SUBSET Fields :
            C = [f \in Fields |-> [i \in DOMAIN c[f] |->
                   Promised!Text(f, c[f][i]) + (IF f \in longer THEN 1 ELSE 0)]]
      BY <1>3, PrintedIs DEF C
    <2>7. Promised!Reread(b, s)
      BY <2>5, <2>6 DEF Promised!Reread, Content
    <2>8. QED
      BY <1>1, <2>7 DEF Promised!Next
  <1>9. QED
    BY <1>7, <1>8

\* A buffer allocated, cleared, resized or freed.
LEMMA ResizeIs ==
  ASSUME SoundInv, NEW b,
         \/ b \in Bufs /\ Falloc32(b)
         \/ b \in Live /\ (Finit32(b) \/ Frealloc32(b) \/ Ffree32(b))
  PROVE  Promised!Next
  <1>1. Sizes \subseteq Nat /\ min_size \in Nat
    BY Fml32Assumption
  <1>2. \A c \in Live : c \in Bufs /\ buf[c] \in Good /\ Content[c] = Contents(buf[c])
    BY LiveIs
  <1>3. ASSUME NEW n \in Sizes, n >= min_size, Store(b, Done(init(n))), b \in Bufs
        PROVE  Promised!Next
    <2> DEFINE x == init(n)
    <2>1. x \in Good /\ Contents(x) = Promised!Empty
      BY <1>1, <1>3, InitIs
    <2>2. Store(b, Done(x))
      BY <1>3
    <2> HIDE DEF x
    <2>3. Abstract(x) = Promised!Empty
      BY <2>1, AbstractIs
    <2>4. QED
      BY <1>3, <2>2, <2>3, ClearIs
  <1>4. ASSUME Falloc32(b), b \in Bufs PROVE Promised!Next
    BY <1>3, <1>4 DEF Falloc32
  <1>5. ASSUME Finit32(b), b \in Live PROVE Promised!Next
    <2>1. PICK n \in Sizes :
             Store(b, IF n < min_size THEN Fail(buf[b], "FNOSPACE") ELSE Done(init(n)))
      BY <1>5 DEF Finit32
    <2>2. CASE n < min_size
      <3>1. "FNOSPACE" \in Codes /\ Store(b, Fail(buf[b], "FNOSPACE"))
        BY <2>1, <2>2 DEF Codes
      <3>2. QED
        BY <1>5, <3>1, SameIs
    <2>3. CASE ~(n < min_size)
      <3>1. n >= min_size /\ Store(b, Done(init(n)))
        BY <1>1, <2>1, <2>3
      <3>2. QED
        BY <1>2, <1>3, <1>5, <3>1
    <2>4. QED
      BY <2>2, <2>3
  <1>6. ASSUME Frealloc32(b), b \in Live PROVE Promised!Next
    <2> DEFINE x == buf[b]
    <2>1. PICK n \in Sizes :
             Store(b, IF n = min_size THEN Fail(x, "FEINVAL")
                      ELSE IF n < used(x) THEN Fail(x, "FNOSPACE")
                      ELSE Done(reinit(x, n)))
      BY <1>6 DEF Frealloc32
    <2>2. CASE n = min_size
      <3>1. "FEINVAL" \in Codes /\ Store(b, Fail(buf[b], "FEINVAL"))
        BY <2>1, <2>2 DEF Codes
      <3>2. QED
        BY <1>6, <3>1, SameIs
    <2>3. CASE n # min_size /\ n < used(x)
      <3>1. "FNOSPACE" \in Codes /\ Store(b, Fail(buf[b], "FNOSPACE"))
        BY <2>1, <2>3 DEF Codes
      <3>2. QED
        BY <1>6, <3>1, SameIs
    <2>4. CASE n # min_size /\ ~(n < used(x))
      <3> DEFINE r == Done(reinit(x, n))
                 m == n - min_size
                 e == [x EXCEPT !.size = m]
      <3>1. Store(b, r)
        BY <2>1, <2>4
      <3>2. x \in Good
        BY <1>2, <1>6
      <3>3. m \in Int /\ x.len <= m
        <4> HIDE DEF x
        <4>1. x.len \in Int /\ n \in Int /\ min_size \in Int
          BY <1>1, <3>2, GoodIs
        <4>2. QED
          BY <2>4, <4>1 DEF used
      <3>4. r.b = e /\ r.rc = "ok"
        BY DEF Done, reinit
      <3> HIDE DEF m, r
      <3>5. e \in Good /\ Contents(e) = Contents(x)
        <4> HIDE DEF x
        <4> QED
          BY <3>2, <3>3, ResizedIs
      <3> HIDE DEF e
      <3>6. Abstract(r.b) = Abstract(buf[b])
        <4>1. Abstract(x) = Contents(x) /\ Abstract(e) = Contents(e)
          <5> HIDE DEF x
          <5> QED
            BY <3>2, <3>5, AbstractIs
        <4>2. QED
          BY <3>4, <3>5, <4>1
      <3>7. r.rc \in Codes
        BY <3>4 DEF Codes
      <3>8. QED
        BY <1>2, <1>6, <3>1, <3>6, <3>7, RefuseIs
    <2>5. QED
      BY <2>2, <2>3, <2>4
  <1>7. ASSUME Ffree32(b), b \in Live PROVE Promised!Next
    <2>1. Store(b, Done(NoBuf)) /\ b \in Bufs
      BY <1>2, <1>7 DEF Ffree32
    <2>2. Abstract(NoBuf) = NoBuf
      BY DEF Abstract
    <2>3. QED
      BY <2>1, <2>2, ClearIs
  <1>8. QED
    BY <1>4, <1>5, <1>6, <1>7

LEMMA OneStepIs ==
  ASSUME SoundInv, ErasesLast, NEW b \in Live,
         Fchg32(b) \/ Fadd32(b) \/ Fdel32(b) \/ Fdelall32(b) \/ Fdelete32(b) \/ Fproj32(b)
  PROVE  Promised!Next
  <1>1. MaxOcc \in Nat /\ Erasable \subseteq Fields
    BY Fml32Assumption
  <1>2. \A oc \in -1..MaxOcc : oc \in Int /\ oc >= -1 /\ oc <= MaxOcc
    BY <1>1
  <1>3. CASE Fchg32(b)
    <2>1. PICK f \in Fields, oc \in -1..MaxOcc :
             \/ \E v \in Values : Store(b, chg(buf[b], f, oc, v))
             \/ f \in Erasable /\ Store(b, del(buf[b], f, oc))
      BY <1>3 DEF Fchg32
    <2>2. CASE \E v \in Values : Store(b, chg(buf[b], f, oc, v))
      BY <1>2, <2>2, ChangeIs
    <2>3. CASE f \in Erasable /\ Store(b, del(buf[b], f, oc))
      BY <2>3, DeleteIs
    <2>4. QED
      BY <2>1, <2>2, <2>3
  <1>4. CASE Fadd32(b)
    <2>1. PICK f \in Fields, v \in Values : Store(b, chg(buf[b], f, occur(buf[b], f), v))
      BY <1>4 DEF Fadd32
    <2> DEFINE n == occur(buf[b], f)
    <2>2. buf[b] \in Good
      BY LiveIs
    <2>3. n \in Int /\ n >= -1 /\ n = Len(Occs(buf[b], f))
      <3> DEFINE x == buf[b]
      <3>1. x \in Good
        BY <2>2
      <3> HIDE DEF x
      <3>2. occur(x, f) = Len(Occs(x, f)) /\ Len(Occs(x, f)) \in Nat
        BY <3>1, OccsType
      <3>3. QED
        BY <3>2 DEF x
    <2>4. Store(b, chg(buf[b], f, n, v))
      BY <2>1
    <2> HIDE DEF n
    <2>5. QED
      BY <2>3, <2>4, ChangeIs
  <1>5. CASE Fdel32(b)
    <2>1. PICK f \in Erasable, oc \in 0..MaxOcc : Store(b, del(buf[b], f, oc))
      BY <1>5 DEF Fdel32
    <2>2. oc \in -1..MaxOcc
      BY <1>1
    <2>3. QED
      BY <2>1, <2>2, DeleteIs
  <1>6. CASE Fdelall32(b)
    BY <1>6, DeleteAllIs DEF Fdelall32
  <1>7. CASE Fdelete32(b)
    BY <1>7, DeleteSomeIs DEF Fdelete32
  <1>8. CASE Fproj32(b)
    BY <1>8, DeleteSomeIs DEF Fproj32
  <1>9. QED
    BY <1>3, <1>4, <1>5, <1>6, <1>7, <1>8

LEMMA TwoStepIs ==
  ASSUME SoundInv, ErasesLast, MaxExcess <= 1, NEW b \in Live, NEW s \in Live \ {b},
         \/ Fcpy32(b, s) \/ Fupdate32(b, s) \/ Fconcat32(b, s)
         \/ Fojoin32(b, s) \/ Fprojcpy32(b, s) \/ Fjoin32(b, s)
         \/ Fread32(b, s) \/ Fextread32(b, s)
  PROVE  Promised!Next
  <1> DEFINE e == [buf[s] EXCEPT !.size = buf[b].size]
  <1>1. s \in Live
    OBVIOUS
  <1>2. buf[b].size \in Int /\ buf[s].len \in Int
    <2>1. buf[b] \in Good /\ buf[s] \in Good
      BY <1>1, LiveIs
    <2>2. QED
      BY <2>1, GoodIs
  <1>3. CASE Fcpy32(b, s)
    <2> DEFINE r == cpy(buf[b], buf[s])
    <2>1. Store(b, r)
      BY <1>3 DEF Fcpy32
    <2>2. r = Fail(buf[b], "FNOSPACE") \/ (r = Done(e) /\ buf[s].len <= buf[b].size)
      BY <1>2 DEF cpy
    <2> HIDE DEF r
    <2>3. QED
      BY <1>1, <2>1, <2>2, CopyIs
  <1>4. CASE Fread32(b, s)
    <2> DEFINE r == IF buf[s].len > buf[b].size THEN Fail(buf[b], "FNOSPACE") ELSE Done(e)
    <2>1. Store(b, r)
      BY <1>4 DEF Fread32
    <2>2. r = Fail(buf[b], "FNOSPACE") \/ (r = Done(e) /\ buf[s].len <= buf[b].size)
      BY <1>2
    <2> HIDE DEF r
    <2>3. QED
      BY <1>1, <2>1, <2>2, CopyIs
  <1>5. CASE Fupdate32(b, s) \/ Fconcat32(b, s) \/ Fojoin32(b, s)
    BY <1>1, <1>5, MergeIs DEF Fupdate32, Fconcat32, Fojoin32
  <1>6. CASE Fprojcpy32(b, s)
    BY <1>1, <1>6, PickIs DEF Fprojcpy32
  <1>7. CASE Fjoin32(b, s)
    BY <1>1, <1>7, JoinedIs DEF Fjoin32
  <1>8. CASE Fextread32(b, s)
    <2>1. CASE Refused(buf[s].flds)
      <3>1. Store(b, Fail(buf[b], "exception"))
        BY <1>8, <2>1 DEF Fextread32
      <3>2. "exception" \in Codes
        BY DEF Codes
      <3>3. QED
        BY <3>1, <3>2, SameIs
    <2>2. CASE ~Refused(buf[s].flds)
      <3>1. Store(b, cpy(buf[b], extread(buf[s])))
        BY <1>8, <2>2 DEF Fextread32
      <3>2. QED
        BY <1>1, <3>1, RereadIs
    <2>3. QED
      BY <2>1, <2>2
  <1>9. QED
    BY <1>3, <1>4, <1>5, <1>6, <1>7, <1>8

LEMMA StepIs ==
  ASSUME SoundInv, ErasesLast, MaxExcess <= 1, [Next]_fvars
  PROVE  [Promised!Next]_(Promised!avars)
  <1>1. CASE UNCHANGED fvars
    <2>1. Content' = Content /\ ret' = ret
      BY <1>1 DEF fvars, Content, Abstract
    <2>2. QED
      BY <2>1 DEF Promised!avars, Content
  <1>2. ASSUME NEW b \in Bufs, Falloc32(b) PROVE Promised!Next
    BY <1>2, ResizeIs
  <1>3. ASSUME NEW b \in Live, Finit32(b) \/ Frealloc32(b) \/ Ffree32(b) PROVE Promised!Next
    BY <1>3, ResizeIs
  <1>4. ASSUME NEW b \in Live,
               Fchg32(b) \/ Fadd32(b) \/ Fdel32(b) \/ Fdelall32(b) \/ Fdelete32(b) \/ Fproj32(b)
        PROVE  Promised!Next
    BY <1>4, OneStepIs
  <1>5. ASSUME NEW b \in Live, NEW s \in Live \ {b},
               \/ Fcpy32(b, s) \/ Fupdate32(b, s) \/ Fconcat32(b, s)
               \/ Fojoin32(b, s) \/ Fprojcpy32(b, s) \/ Fjoin32(b, s)
               \/ Fread32(b, s) \/ Fextread32(b, s)
        PROVE  Promised!Next
    BY <1>5, TwoStepIs
  <1>6. Next => Promised!Next
    BY <1>2, <1>3, <1>4, <1>5 DEF Next
  <1>7. QED
    BY <1>1, <1>6

LEMMA StartIs == Init => Promised!Init
  <1> SUFFICES ASSUME Init PROVE Promised!Init
    OBVIOUS
  <1>1. Abstract(NoBuf) = NoBuf
    BY DEF Abstract
  <1>2. [b \in Bufs |-> Abstract(buf[b])] = [b \in Bufs |-> NoBuf] /\ ret = "ok"
    BY <1>1 DEF Init
  <1>3. QED
    BY <1>2 DEF Promised!Init

\* As long as only fields of the last type in use are deleted, and Fjoin32 has
\* to remove at most one occurrence of a field, every operation on the packed
\* buffers does to the occurrences of the fields what the interface promises,
\* or fails and leaves one of the few things a failed operation may leave
\* behind (fml32.cpp over Fbfr32).  That holds whichever texts the reader of
\* the text form takes for something else or refuses (extreader.h:97).
THEOREM BuffersKeepPromises ==
  ASSUME ErasesLast, MaxExcess <= 1 PROVE Spec => Refines
  <1>1. SoundInv /\ [Next]_fvars => [Promised!Next]_(Promised!avars)
    BY StepIs
  <1>2. QED
    BY <1>1, StartIs, Invariant, PTL DEF Spec, Refines, Promised!Spec

=============================================================================
