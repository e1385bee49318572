-------------------------------- MODULE Expr --------------------------------
(***************************************************************************)
(* Boolean expressions over FML32 buffers: the compiler Fboolco32, the     *)
(* printer Fboolpr32 and the evaluator Fboolev32 of src/src/expr.cpp.      *)
(*                                                                         *)
(* An expression is a sequence of tokens; what the scanner of              *)
(* src/src/basic_parser.h makes of characters and blanks is left out.  The *)
(* compiled expression is the flat prefix tree of class ast_tree, one      *)
(* element for each operator or operand.  Numbers are longs: floating      *)
(* point operands and the exclusive or of bits are left out.  A behaviour  *)
(* types an expression token by token, as long as the parser has not given *)
(* up.                                                                     *)
(***************************************************************************)
EXTENDS Integers, Sequences, FiniteSets, FiniteSetsExt, TLC

CONSTANTS
  Alphabets,  \* sets of tokens, each with a bound on the length: [toks, max]
  Leaf,       \* operand tokens -> what they stand for
  Buffers,    \* buffers to evaluate in: field -> its occurrences
  Texts,      \* every text that can occur, in the order of strcmp
  Atol,       \* text -> the number atol makes of it
  Matching    \* <<text, pattern>> such that the pattern matches at the start

VARIABLES toks,  \* the expression
          comp,  \* what Fboolco32 makes of it
          fbfr,  \* the buffer
          abc    \* the tokens at hand

evars == <<toks, comp, fbfr, abc>>

\* which(): the binary operators and their precedence.
prec ==
  [op \in {"*", "/", "%"} |-> 70] @@ [op \in {"+", "-"} |-> 60] @@
  [op \in {"<", ">", "<=", ">=", "==", "!="} |-> 50] @@
  [op \in {"%%", "!%"} |-> 40] @@ ("&&" :> 20) @@ ("||" :> 10)
Comparison == {"<", ">", "<=", ">=", "==", "!=", "%%", "!%"}
Unary == [t \in {"-", "!", "~"} |-> IF t = "-" THEN "neg" ELSE IF t = "!" THEN "not" ELSE "inv"]

\* Every character that can begin an operator, as op() accepts it.
OpTokens == DOMAIN prec \cup {"!", "~", "<>"}

-----------------------------------------------------------------------------
(* The parser.  [s] the tokens, [i] the next one, [op] an operator that    *)
(* was put back, [tree] what has been compiled, [at] the place of the last *)
(* operand in it, [err] the error.                                         *)

Peek(p) == IF p.i > Len(p.s) THEN "end" ELSE p.s[p.i]
Skip(p) == [p EXCEPT !.i = @ + 1]
Throw(p, e) == [p EXCEPT !.err = e]
At(p, i) == [p EXCEPT !.at = i]
append(p, x) == [p EXCEPT !.tree = Append(@, x)]
insert(p, i, x) ==
  [p EXCEPT !.tree = SubSeq(@, 1, i - 1) \o <<x>> \o SubSeq(@, i, Len(@))]

\* op(): the operator that was put back or the next token, if it is one.
op(p) == IF p.op # "" THEN p.op ELSE IF Peek(p) \in OpTokens THEN Peek(p) ELSE ""
take(p) == IF p.op # "" THEN [p EXCEPT !.op = ""] ELSE Skip(p)
unget(p, t) == [p EXCEPT !.op = t]

Text(x) == x \in DOMAIN Leaf /\ Leaf[x].kind = "string"
Subject(x) == x \in DOMAIN Leaf /\ Leaf[x].kind \in {"string", "field", "any"}

RECURSIVE parse_primary(_), parse_binop(_, _, _)

parse_expr(p) ==
  LET e == parse_primary(p) IN IF e.err # "" THEN e ELSE parse_binop(e, 0, e.at)

\* Operands of unary operators, names, constants and parentheses.
parse_primary(p) ==
  LET t == Peek(p)
      e == Len(p.tree) + 1
  IN IF t \in {"-", "!", "~"} THEN At(parse_primary(append(Skip(p), Unary[t])), e)
     ELSE IF t = "+" THEN At(parse_primary(Skip(p)), e)
     ELSE IF t \in DOMAIN Leaf THEN
       LET k == Leaf[t].kind
       IN IF k = "unknown" THEN Throw(Skip(p), "FBADNAME")
          ELSE IF k = "fml32" THEN Throw(Skip(p), "FEBADOP")
          ELSE At(append(Skip(p), t), e)
     ELSE IF t = "(" THEN
       LET r == parse_expr(Skip(p))
       IN IF r.err # "" THEN r ELSE IF Peek(r) # ")" THEN Throw(r, "FSYNTAX") ELSE Skip(r)
     ELSE Throw(p, "FSYNTAX")

\* Mutant: the right operand takes operators of the same precedence as well.
Above_same(t) == prec[t]

\* What the operators of a right operand bind at least, when the first of them
\* binds it more strongly than the operator t before it.
Above(t) == prec[t] + 1

\* Precedence climbing: operators that bind at least as strongly as prc are
\* folded into the operand at lhs.
parse_binop(p, prc, lhs) ==
  LET t == op(p)
  IN IF t = "" THEN At(p, lhs)
     ELSE IF t \notin DOMAIN prec THEN Throw(p, "FSYNTAX")
     ELSE IF prec[t] < prc THEN At(unget(take(p), t), lhs)
     ELSE
       LET r == parse_primary(take(p))
           u == op(r)
           q == IF r.err # "" \/ u = "" THEN r
                ELSE IF u \in DOMAIN prec /\ prec[t] < prec[u]
                  THEN parse_binop(unget(take(r), u), Above(t), r.at)
                  ELSE unget(take(r), u)
       IN IF q.err # "" THEN q
          ELSE IF t \in {"%%", "!%"} /\ ~(Subject(q.tree[lhs]) /\ Text(q.tree[q.at]))
            THEN Throw(q, "FSYNTAX")
            ELSE parse_binop(insert(q, lhs, t), prc, lhs)

Fboolco32(s) ==
  parse_expr([s |-> s, i |-> 1, op |-> "", tree |-> <<>>, at |-> 1, err |-> ""])

-----------------------------------------------------------------------------
(* The printer *)

RECURSIVE boolpr(_, _)

\* Mutant: binary expressions are printed without parentheses around them.
boolpr_flat(tree, i) ==
  LET x == tree[i]
      l == boolpr(tree, i + 1)
      r == boolpr(tree, l.i)
  IN IF x \in DOMAIN Leaf THEN [out |-> <<"(", x, ")">>, i |-> i + 1]
     ELSE IF x \in {"neg", "not", "inv"}
       THEN [out |-> <<"(", CHOOSE t \in DOMAIN Unary : Unary[t] = x>> \o l.out \o <<")">>, i |-> l.i]
       ELSE [out |-> l.out \o <<x>> \o r.out, i |-> r.i]

\* The text of the subtree at i, and where it ends.
boolpr(tree, i) ==
  LET x == tree[i]
  IN IF x \in DOMAIN Leaf THEN [out |-> <<"(", x, ")">>, i |-> i + 1]
     ELSE LET l == boolpr(tree, i + 1)
          IN IF x \in {"neg", "not", "inv"}
               THEN [out |-> <<"(", CHOOSE t \in DOMAIN Unary : Unary[t] = x>>
                             \o l.out \o <<")">>, i |-> l.i]
               ELSE LET r == boolpr(tree, l.i)
                    IN [out |-> <<"(">> \o l.out \o <<x>> \o r.out \o <<")">>, i |-> r.i]

-----------------------------------------------------------------------------
(* The evaluator.  A value is a long, a text, or a reference to the buffer *)
(* of Ftypcvt32, toval, which every field that is read overwrites: it has  *)
(* the value that is there when it is used.  [bad] says that the code      *)
(* throws, divides by zero or uses a pointer that was never set.           *)

Long(n) == [k |-> "long", n |-> n]
Bool(c) == Long(IF c THEN 1 ELSE 0)

text(v, toval) == IF v.k = "long" THEN ToString(v.n) ELSE IF v.k = "ref" THEN toval ELSE v.s
to_long(v, toval) == IF v.k = "long" THEN v.n ELSE Atol[text(v, toval)]
Abs(n) == IF n < 0 THEN -n ELSE n
Sign(a, b) == IF (a < 0) = (b < 0) THEN 1 ELSE -1
strcmp(s, t) == LET at(x) == CHOOSE i \in DOMAIN Texts : Texts[i] = x IN at(s) - at(t)

arith(x, a, b) ==
  CASE x = "*" -> a * b [] x = "+" -> a + b [] x = "-" -> a - b
    [] x = "/" -> Sign(a, b) * (Abs(a) \div Abs(b))
    [] x = "%" -> a - b * Sign(a, b) * (Abs(a) \div Abs(b))
    [] x = "&&" -> IF a # 0 /\ b # 0 THEN 1 ELSE 0
    [] x = "||" -> IF a # 0 \/ b # 0 THEN 1 ELSE 0

order(x, a, b) ==
  CASE x = "<" -> a < b [] x = ">" -> a > b [] x = "<=" -> a <= b
    [] x = ">=" -> a >= b [] x = "==" -> a = b [] x = "!=" -> a # b

\* boolev_cmp: texts are compared when both are, or one is a constant.
compare(x, l, r, toval) ==
  LET s == text(l, toval)
      t == text(r, toval)
      lexical == \/ l.k = "const" \/ r.k = "const"
                 \/ l.k # "long" /\ r.k # "long"
  IN CASE x = "%%" -> Bool(<<s, t>> \in Matching)
       [] x = "!%" -> Bool(<<s, t>> \notin Matching)
       [] OTHER -> Bool(IF lexical THEN order(x, strcmp(s, t), 0)
                        ELSE order(x, to_long(l, toval), to_long(r, toval)))

\* What Ftypcvt32 leaves in toval: a text as it is, a long as its bytes, of which
\* the first is 0 or no character of a text.
Ftypcvt32(long, x) == IF ~long THEN x ELSE IF x = 0 THEN "" ELSE "bytes"

\* A field that is not there has the value 0 or the empty text.
boolev_field(f, oc, toval) ==
  LET s == fbfr[f].occ
      long == fbfr[f].type = "LONG"
  IN IF oc >= Len(s)
       THEN [v |-> IF long THEN Long(0) ELSE [k |-> "text", s |-> ""], toval |-> toval]
       ELSE [v |-> IF long THEN Long(s[oc + 1]) ELSE [k |-> "ref"],
             toval |-> Ftypcvt32(long, s[oc + 1])]

\* Mutant: the last occurrence is not tried.
anyocc_butlast(x, f, v, toval) ==
  LET l == boolev_field(f, 0, toval)
      c == Len(fbfr[f].occ) > 1 /\ compare(x, l.v, v, l.toval).n = 1
  IN [c |-> c, toval |-> l.toval]

\* field[?] op v: the occurrences are tried from the first one on.
anyocc(x, f, v, toval) ==
  LET N == Len(fbfr[f].occ)
      tv[n \in 0..N] == IF n = 0 THEN toval ELSE boolev_field(f, n - 1, tv[n - 1]).toval
      hit == {n \in 1..N : compare(x, boolev_field(f, n - 1, tv[n - 1]).v, v, tv[n]).n = 1}
  IN [c |-> hit # {}, toval |-> tv[IF hit = {} THEN N ELSE Min(hit)]]

RECURSIVE boolev(_, _, _)

\* The value of the subtree at i, where it ends, and toval afterwards.
boolev(tree, i, toval) ==
  LET x == tree[i]
      Bad == [v |-> Long(0), i |-> i, toval |-> toval, bad |-> TRUE]
      Leave(v, j, tv) == [v |-> v, i |-> j, toval |-> tv, bad |-> FALSE]
  IN IF x \in DOMAIN Leaf THEN
       LET y == Leaf[x]
       IN CASE y.kind = "long" -> Leave(Long(y.n), i + 1, toval)
            [] y.kind = "string" -> Leave([k |-> "const", s |-> y.s], i + 1, toval)
            [] y.kind = "any" -> Bad
            [] OTHER -> LET r == boolev_field(y.f, y.oc, toval) IN Leave(r.v, i + 1, r.toval)
     ELSE IF x \in {"neg", "not", "inv"} THEN
       LET r == boolev(tree, i + 1, toval)
           n == to_long(r.v, r.toval)
       IN IF r.bad THEN r
          ELSE Leave(IF x = "neg" THEN Long(-n) ELSE IF x = "not" THEN Bool(n = 0)
                     ELSE Long(-n - 1), r.i, r.toval)
     ELSE IF x \in Comparison /\ tree[i + 1] \in DOMAIN Leaf
             /\ Leaf[tree[i + 1]].kind = "any" THEN
       LET f == Leaf[tree[i + 1]].f
           r == boolev(tree, i + 2, toval)
           m == anyocc(x, f, r.v, r.toval)
       IN IF r.bad \/ (x \in {"%%", "!%"} /\ fbfr[f].type = "LONG") THEN Bad
          ELSE Leave(Bool(m.c), r.i, m.toval)
     ELSE
       LET l == boolev(tree, i + 1, toval)
           r == boolev(tree, l.i, l.toval)
           a == to_long(l.v, r.toval)
           b == to_long(r.v, r.toval)
       IN IF l.bad \/ r.bad \/ (x \in {"%%", "!%"} /\ l.v.k = "long") THEN Bad
          ELSE IF x \in Comparison THEN Leave(compare(x, l.v, r.v, r.toval), r.i, r.toval)
          ELSE IF x \in {"/", "%"} /\ b = 0 THEN Bad
          ELSE Leave(Long(arith(x, a, b)), r.i, r.toval)

Fboolev32(tree) ==
  LET r == boolev(tree, 1, "") IN IF r.bad THEN "bad" ELSE to_long(r.v, r.toval) # 0

-----------------------------------------------------------------------------
(* Typing an expression *)

\* The parser has read everything there is, and wants or may take more.
Open == comp.i > Len(toks) /\ comp.op = "" /\ comp.err \in {"", "FSYNTAX"}

Init == toks = <<>> /\ comp = Fboolco32(<<>>) /\ fbfr \in Buffers /\ abc \in Alphabets
Next == /\ Len(toks) < abc.max /\ Open
        /\ \E t \in abc.toks : toks' = Append(toks, t)
        /\ comp' = Fboolco32(toks')
        /\ UNCHANGED <<fbfr, abc>>
Spec == Init /\ [][Next]_evars

-----------------------------------------------------------------------------
(* The reference: what an expression means, read from its tokens           *)

Depth(s, i) == Cardinality({j \in 1..i : s[j] = "("}) - Cardinality({j \in 1..i : s[j] = ")"})

\* The binary operators outside of parentheses.
Outer(s) == {i \in 2..Len(s) : /\ s[i] \in DOMAIN prec /\ Depth(s, i) = 0
                               /\ s[i - 1] \in DOMAIN Leaf \cup {")"}}
\* The one applied last: of those that bind least, the last one.
Root(s) == LET low == Min({prec[s[i]] : i \in Outer(s)})
           IN Max({i \in Outer(s) : prec[s[i]] = low})
Left(s) == SubSeq(s, 1, Root(s) - 1)
Right(s) == SubSeq(s, Root(s) + 1, Len(s))
Inner(s) == SubSeq(s, 2, Len(s) - 1)

NoTree == <<"none">>
RECURSIVE Tree(_)
Tree(s) ==
  LET Node(x, l, r) == IF NoTree \in {l, r} THEN NoTree ELSE <<x>> \o l \o r
  IN IF s = <<>> THEN NoTree
     ELSE IF Outer(s) # {} THEN
       LET t == Node(s[Root(s)], Tree(Left(s)), Tree(Right(s)))
       IN IF s[Root(s)] \in {"%%", "!%"} /\ t # NoTree
             /\ ~(Subject(t[2]) /\ Len(t) = 3 /\ Text(t[3])) THEN NoTree ELSE t
     ELSE IF s[1] \in DOMAIN Unary THEN Node(Unary[s[1]], <<>>, Tree(Tail(s)))
     ELSE IF s[1] = "+" THEN Tree(Tail(s))
     ELSE IF s[1] = "(" /\ s[Len(s)] = ")" THEN Tree(Inner(s))
     ELSE IF Len(s) = 1 /\ s[1] \in DOMAIN Leaf
             /\ Leaf[s[1]].kind \notin {"unknown", "fml32"} THEN s
     ELSE NoTree

\* The value of an expression in which every text that is read is kept.
Copy(f, oc) ==
  LET r == boolev_field(f, oc, "")
  IN IF r.v.k = "ref" THEN [k |-> "text", s |-> r.toval] ELSE r.v
Wrong == [k |-> "bad"]
RECURSIVE Value(_)
Value(s) ==
  IF Outer(s) # {} THEN
    LET x == s[Root(s)]
        r == Value(Right(s))
        f == Leaf[Tree(Left(s))[1]].f
        Cmp(l) == IF x \in {"%%", "!%"} /\ l.k = "long" THEN Wrong ELSE compare(x, l, r, "")
        any == Len(Tree(Left(s))) = 1 /\ Leaf[Tree(Left(s))[1]].kind = "any"
        l == Value(Left(s))
    IN IF r = Wrong THEN Wrong
       ELSE IF x \in Comparison /\ any THEN
         LET all == {Cmp(Copy(f, oc)) : oc \in 0..(Len(fbfr[f].occ) - 1)}
         IN IF Wrong \in all THEN Wrong ELSE Bool(Bool(TRUE) \in all)
       ELSE IF l = Wrong THEN Wrong
       ELSE IF x \in Comparison THEN Cmp(l)
       ELSE IF x \in {"/", "%"} /\ to_long(r, "") = 0 THEN Wrong
       ELSE Long(arith(x, to_long(l, ""), to_long(r, "")))
  ELSE IF s[1] \in DOMAIN Unary \cup {"+"} THEN
    LET r == Value(Tail(s))
        n == to_long(r, "")
    IN IF r = Wrong \/ s[1] = "+" THEN r
       ELSE IF s[1] = "-" THEN Long(-n) ELSE IF s[1] = "!" THEN Bool(n = 0) ELSE Long(-n - 1)
  ELSE IF s[1] = "(" THEN Value(Inner(s))
  ELSE LET y == Leaf[s[1]]
       IN CASE y.kind = "long" -> Long(y.n)
            [] y.kind = "string" -> [k |-> "const", s |-> y.s]
            [] y.kind = "any" -> Wrong
            [] OTHER -> Copy(y.f, y.oc)

-----------------------------------------------------------------------------
(* Properties *)

Read == SubSeq(toks, 1, comp.i - 1)

\* Precedence climbing with one operator put back (expr.cpp:177) compiles an
\* expression to the tree of its grammar, operators of the same precedence
\* from left to right, and refuses what is no expression; it stops, without an
\* error, at a token that cannot follow.
TreeAgrees ==
  IF comp.err = ""
    THEN /\ comp.tree = Tree(Read)
         /\ Len(Read) < Len(toks) => toks[Len(Read) + 1] \notin OpTokens
    ELSE Tree(toks) = NoTree

\* What Fboolpr32 prints is an expression that compiles to the same tree.
PrintParses ==
  comp.err = "" => Fboolco32(boolpr(comp.tree, 1).out).tree = comp.tree

\* A text on the left that reading a field on the right overwrites, or one on
\* the right that the occurrences tried on the left do.
FieldTok(x) == x \in DOMAIN Leaf /\ Leaf[x].kind \in {"field", "any"}
TextTok(x) == FieldTok(x) /\ fbfr[Leaf[x].f].type = "STRING"
RECURSIVE Aliased(_)
Aliased(s) ==
  IF Outer(s) # {} THEN
    LET l == Tree(Left(s))
        r == Tree(Right(s))
    IN \/ TextTok(l[1]) /\ \E i \in DOMAIN r : FieldTok(r[i])
       \/ FieldTok(l[1]) /\ TextTok(r[1])
       \/ Aliased(Left(s)) \/ Aliased(Right(s))
  ELSE IF s[1] = "(" THEN Aliased(Inner(s))
  ELSE Len(s) > 1 /\ Aliased(Tail(s))

\* Evaluating the flat tree, in which an operand ends where the next begins,
\* gives the value of the expression, or fails exactly when there is none;
\* unless a text it still needs is overwritten in the buffer of Ftypcvt32
\* (fml32.cpp:375).
ValueAgrees ==
  (comp.err = "" /\ ~Aliased(Read)) =>
     LET v == Value(Read)
     IN Fboolev32(comp.tree) = (IF v = Wrong THEN "bad" ELSE to_long(v, "") # 0)
=============================================================================
