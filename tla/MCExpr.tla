------------------------------- MODULE MCExpr -------------------------------
(* Expressions of up to seven tokens over one operand, which exercise the  *)
(* precedence of operators, and shorter ones over operands of every kind.  *)
EXTENDS Expr

Fld(f, oc) == [kind |-> "field", f |-> f, oc |-> oc]
Operands ==
  [two |-> [kind |-> "long", n |-> 2], zero |-> [kind |-> "long", n |-> 0],
   lit |-> [kind |-> "string", s |-> "02"],
   S |-> Fld("S", 0), T |-> Fld("T", 0), L |-> Fld("L", 0), S1 |-> Fld("S", 1),
   any |-> [kind |-> "any", f |-> "S"],
   nofield |-> [kind |-> "unknown"], nested |-> [kind |-> "fml32"]]

Numbers == [toks |-> {"two", "+", "-", "*", "==", "&&", "!", "(", ")"}, max |-> 7]
Mixed == [toks |-> DOMAIN Operands \cup {"/", "==", "<", "%%", "||", "<>", "~"}, max |-> 4]
Words == {Numbers, Mixed}

Str(a) == [type |-> "STRING", occ |-> a]
Records == {[S |-> Str(<<"2", "x">>), T |-> Str(<<"02">>), L |-> [type |-> "LONG", occ |-> <<2>>]],
            [S |-> Str(<<"02">>), T |-> Str(<<>>), L |-> [type |-> "LONG", occ |-> <<0>>]]}

Strings == <<"", "-1", "-2", "-3", "0", "02", "1", "2", "4", "bytes", "x">>
Numeric == [t \in {"", "bytes", "x"} |-> 0] @@ [t \in {"2", "02"} |-> 2]
Prefixes == {<<t, "02">> : t \in {"02"}}
=============================================================================
