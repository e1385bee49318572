-------------------------------- MODULE Fml32 --------------------------------
(***************************************************************************)
(* FML32 fielded buffers: struct Fbfr32 of src/src/fbfr32.h and the        *)
(* functions of src/src/fml32.cpp over it.                                 *)
(*                                                                         *)
(* A buffer holds its fields one after the other, grouped by type in the   *)
(* order of Region, sorted by field identifier, and keeps the offset at    *)
(* which each group starts.  Identifiers carry their type in the high bits *)
(* (Fldtype32), so that the order of identifiers is the order of the whole *)
(* buffer.  Lengths are counted in units of 8 bytes, to which every field  *)
(* is padded.  A value is a number; in a field of variable length it also  *)
(* is the length of its data, and 0 is the default value.                  *)
(***************************************************************************)
EXTENDS Integers, Sequences, FiniteSets, SequencesExt

CONSTANTS
  Bufs,       \* the buffers of the application
  Fields,     \* field identifiers, numbers
  FldType,    \* Fldtype32: field -> its type
  Values,     \* values the application stores
  Sizes,      \* buffer lengths it asks for
  min_size,   \* of the header, offsetof(Fbfr32, data_)
  MaxOcc,     \* bound: largest occurrence it names
  Erasable,   \* fields it deletes
  MaxExcess,  \* bound: occurrences of a field Fjoin32 has to remove
  Misread,    \* <<field, value>> -> what is read from its text instead
  Unreadable, \* <<field, value>> whose text the reader refuses
  NoBuf

Region == <<"SHORT", "LONG", "CHAR", "FLOAT", "DOUBLE", "STRING", "CARRAY", "FML32">>

ASSUME Fml32Assumption ==
  /\ Fields \subseteq Nat \ {0} /\ IsFiniteSet(Fields) /\ Erasable \subseteq Fields
  /\ FldType \in [Fields -> 1..Len(Region)]
  /\ \A f, g \in Fields : f < g => FldType[f] <= FldType[g]
  /\ Values \subseteq Nat /\ Sizes \subseteq Nat /\ min_size \in Nat
  /\ MaxOcc \in Nat /\ MaxExcess \in Nat

\* Integers and what is empty are read back as they were.  Other texts need not
\* be: print_bytes writes a backslash as it is, where the reader takes it for
\* the start of a hex number, and a char of 0x80 and above as \ffffff80, which
\* is read as the char 0xff and six more; c_str() ends a text at its first null
\* byte; a float is printed with six decimals; the text of a nested buffer is
\* that of its fields.  A backslash before a single hex digit is an error.
ASSUME TextAssumption ==
  /\ Misread \in [DOMAIN Misread -> Nat]
  /\ \A p \in DOMAIN Misread \cup Unreadable :
       /\ p \in Fields \X (Nat \ {0})
       /\ Region[FldType[p[1]]] \notin {"SHORT", "LONG"}
  /\ \A p \in Unreadable : Region[FldType[p[1]]] \in {"STRING", "CARRAY", "FML32"}

VARIABLES buf,    \* the buffers
          ret     \* what the last operation returned

fvars == <<buf, ret>>

Type == 1..Len(Region)

Fld == [id : Fields, val : Nat]
Buffer == [size : Int, len : Int, off : [Type -> Int], flds : Seq(Fld)]

ASSUME NoBufAssumption == NoBuf \notin Buffer /\ NoBuf \notin [Fields -> Seq(Nat)]

init(n) == [size |-> n - min_size, len |-> 0, off |-> [t \in Type |-> 0],
            flds |-> <<>>]
reinit(b, n) == [b EXCEPT !.size = n - min_size]
used(b) == b.len + min_size

-----------------------------------------------------------------------------
(* The layout *)

Round8(f, v) ==
  CASE Region[FldType[f]] \in {"SHORT", "CHAR", "FLOAT"} -> 1
    [] Region[FldType[f]] \in {"LONG", "DOUBLE"} -> 2
    [] Region[FldType[f]] = "STRING" -> 1 + (IF v = 0 THEN 1 ELSE v)
    [] OTHER -> 1 + v

\* Where each field starts, and after the last one the length of all.
Starts(s) ==
  LET at[i \in 1..Len(s) + 1] ==
        IF i = 1 THEN 0 ELSE at[i - 1] + Round8(s[i - 1].id, s[i - 1].val)
  IN at
Bytes(s) == Starts(s)[Len(s) + 1]

first_byte(b, t) == b.off[t]
last_byte(b, t) == IF t = Len(Region) THEN b.len ELSE b.off[t + 1]

\* The field at an offset.  An offset inside of a field makes the code read
\* its value as a field; the model goes on with the next one.
Index(b, n) ==
  LET at == Starts(b.flds)
  IN 1 + Cardinality({i \in 1..Len(b.flds) : at[i] < n})

\* Mutant: the group of the field itself is moved as well.
shift_own(b, t, delta) ==
  [b EXCEPT !.len = @ + delta,
            !.off = [r \in Type |-> IF r >= t /\ r > 1 THEN @[r] + delta ELSE @[r]]]

shift(b, t, delta) ==
  [b EXCEPT !.len = @ + delta,
            !.off = [r \in Type |-> IF r > t THEN @[r] + delta ELSE @[r]]]

-----------------------------------------------------------------------------
(* Looking up *)

\* The occurrence oc of a field, or else the first larger field of its group;
\* 0, nullptr, at the end of the group.
where(b, f, oc) ==
  LET at == Starts(b.flds)
      group == {i \in 1..Len(b.flds) : /\ at[i] >= first_byte(b, FldType[f])
                                       /\ at[i] < last_byte(b, FldType[f])}
      stop == {i \in group :
                 \/ b.flds[i].id > f
                 \/ /\ b.flds[i].id = f
                    /\ Cardinality({j \in group : j < i /\ b.flds[j].id = f}) = oc}
  IN IF stop = {} THEN 0 ELSE Min(stop)

Holds(b, i, f) == i # 0 /\ b.flds[i].id = f

pres(b, f, oc) == Holds(b, where(b, f, oc), f)

find(b, f, oc) ==
  LET i == where(b, f, oc) IN IF Holds(b, i, f) THEN <<b.flds[i].val>> ELSE <<>>

\* next_ is followed as long as it leads to the same field.
Run(b, i, f) == {j \in i..Len(b.flds) : \A k \in i..j : Holds(b, k, f)}
occur(b, f) == Cardinality(Run(b, where(b, f, 0), f))

findlast(b, f) == find(b, f, occur(b, f) - 1)

\* The first occurrence that holds the value, -1 for FNOTPRES.
findocc(b, f, v) ==
  LET i == where(b, f, 0)
      hit == {j \in Run(b, i, f) : b.flds[j].val = v}
  IN IF hit = {} THEN -1 ELSE Min(hit) - i

\* Mutant: a field that follows another keeps its occurrence number.
next_noreset(b, p) ==
  LET i == IF p[1] = 0 THEN 0 ELSE where(b, p[1], p[2])
  IN IF (p[1] # 0 /\ i = 0) \/ i + 1 > Len(b.flds) THEN <<>>
     ELSE <<b.flds[i + 1].id, IF p[1] = 0 THEN 0 ELSE p[2] + 1>>

\* Fnext32: the place after <<f, oc>>, where f = 0 asks for the first field;
\* <<>> at the end of the buffer.
next(b, p) ==
  LET i == IF p[1] = 0 THEN 0 ELSE where(b, p[1], p[2])
  IN IF (p[1] # 0 /\ i = 0) \/ i + 1 > Len(b.flds) THEN <<>>
     ELSE LET f == b.flds[i + 1].id
          IN IF f = p[1] THEN <<f, p[2] + 1>> ELSE <<f, 0>>

-----------------------------------------------------------------------------
(* Changing one buffer.  Operators return the buffer and the error.        *)

Done(b) == [b |-> b, rc |-> "ok"]
Fail(b, e) == [b |-> b, rc |-> e]

\* chg once the missing occurrences are there: the field is replaced, moving
\* what follows by the difference in length, or inserted.
put(b, f, oc, v) ==
  LET i     == where(b, f, oc)
      there == Holds(b, i, f)
      x     == [id |-> f, val |-> v]
      need  == Round8(f, v) - (IF there THEN Round8(f, b.flds[i].val) ELSE 0)
      at    == IF i = 0 THEN Index(b, last_byte(b, FldType[f])) ELSE i
  IN IF need # 0 /\ b.len + need > b.size THEN Fail(b, "FNOSPACE")
     ELSE Done(shift([b EXCEPT !.flds = IF there THEN ReplaceAt(@, i, x)
                                                 ELSE InsertAt(@, at, x)],
                     FldType[f], need))

\* Mutant: no defaults are filled in.
chg_nofill(b, f, oc, v) == put(b, f, IF oc = -1 THEN occur(b, f) ELSE oc, v)

\* Missing occurrences are filled with defaults, whether or not that works.
chg(b, f, oc, v) ==
  LET count == occur(b, f)
      o     == IF oc = -1 THEN count ELSE oc
      from  == Min({count, o})
      after[n \in from..(o + 1)] ==
        IF n = from THEN Done(b)
        ELSE put(after[n - 1].b, f, n - 1, IF n = o + 1 THEN v ELSE 0)
  IN after[o + 1]

\* The fields i to j - 1 go.  The type whose groups are shifted is read after
\* the memmove: it is the type of the field that now is at i.
erase(b, i, j) ==
  LET x == IF j <= Len(b.flds) THEN b.flds[j] ELSE b.flds[i]
  IN shift([b EXCEPT !.flds = SubSeq(@, 1, i - 1) \o SubSeq(@, j, Len(@))],
           FldType[x.id], -Bytes(SubSeq(b.flds, i, j - 1)))

del(b, f, oc) ==
  LET i == where(b, f, oc)
  IN IF Holds(b, i, f) THEN Done(erase(b, i, i + 1)) ELSE Fail(b, "FNOTPRES")

\* Mutant: the walk over the occurrences stops one short.
delall_butone(b, f) ==
  LET i == where(b, f, 0)
  IN IF Holds(b, i, f) THEN Done(erase(b, i, i + Cardinality(Run(b, i, f)) - 1))
                       ELSE Fail(b, "FNOTPRES")

delall(b, f) ==
  LET i == where(b, f, 0)
  IN IF Holds(b, i, f) THEN Done(erase(b, i, i + Cardinality(Run(b, i, f))))
                       ELSE Fail(b, "FNOTPRES")

\* The number of the occurrence that iterate is at, from that of the last one.
iterate_oc(w, id) == IF id = w.prev THEN w.oc + 1 ELSE 0

\* iterate over a buffer that func changes.  func answers with the buffer and
\* what to add to the position: 0 after it has removed the field at hand.
\* Without an error each round moves on or removes a field, so that a loop
\* that is not through after Len rounds is never through.
iterate(b, func(_, _, _)) ==
  LET round(w) ==
        LET id == w.b.flds[w.it].id
            oc == iterate_oc(w, id)
            r  == func(w.b, id, oc)
        IN [b |-> r.b, it |-> w.it + r.step, prev |-> id, oc |-> oc]
      after[k \in 0..Len(b.flds)] ==
        IF k = 0 THEN [b |-> b, it |-> 1, prev |-> 0, oc |-> 0]
        ELSE LET w == after[k - 1]
             IN IF w.it > Len(w.b.flds) THEN w ELSE round(w)
      end == after[Len(b.flds)]
  IN IF end.it > Len(end.b.flds) THEN Done(end.b) ELSE Fail(end.b, "never")

xdelete(b, S) ==
  iterate(b, LAMBDA c, f, oc : IF f \in S THEN [b |-> delall(c, f).b, step |-> 0]
                                          ELSE [b |-> c, step |-> 1])

proj(b, S) ==
  iterate(b, LAMBDA c, f, oc : IF f \in S THEN [b |-> c, step |-> 1]
                                          ELSE [b |-> delall(c, f).b, step |-> 0])

-----------------------------------------------------------------------------
(* Changing one buffer by another *)

\* iterate over the source: func is applied to each of its fields, with its
\* occurrence, until it fails.
each(s, d, func(_, _, _, _)) ==
  LET oc(i) == Cardinality({j \in 1..(i - 1) : s.flds[j].id = s.flds[i].id})
      after[i \in 0..Len(s.flds)] ==
        IF i = 0 THEN Done(d)
        ELSE LET r == after[i - 1]
             IN IF r.rc # "ok" THEN r
                ELSE func(r.b, s.flds[i].id, oc(i), s.flds[i].val)
  IN after[Len(s.flds)]

\* Mutant: the destination is not cleared first.
projcpy_keep(d, s, S) ==
  each(s, d, LAMBDA c, f, oc, v :
         IF f \in S THEN chg(c, f, occur(c, f), v) ELSE Done(c))

projcpy(d, s, S) ==
  each(s, init(d.size + min_size), LAMBDA c, f, oc, v :
         IF f \in S THEN chg(c, f, occur(c, f), v) ELSE Done(c))

update(d, s) == each(s, d, chg)

ojoin(d, s) ==
  each(s, d, LAMBDA c, f, oc, v : IF pres(c, f, oc) THEN chg(c, f, oc, v) ELSE Done(c))

\* The first pass ignores the error of del: when it removes nothing, the loop
\* stays where it is for ever.
join(d, s) ==
  LET r == iterate(d, LAMBDA c, f, oc :
                        IF pres(s, f, oc) THEN [b |-> c, step |-> 1]
                        ELSE [b |-> del(c, f, oc).b, step |-> 0])
  IN IF r.rc = "ok" THEN ojoin(r.b, s) ELSE r

\* The space asked for is that of the source with its header.
concat(d, s) ==
  IF d.size - d.len < used(s) THEN Fail(d, "FNOSPACE")
  ELSE each(s, d, LAMBDA c, f, oc, v : chg(c, f, occur(c, f), v))

cpy(d, s) ==
  IF d.size < s.len THEN Fail(d, "FNOSPACE")
  ELSE Done([s EXCEPT !.size = d.size])

\* What value() of the reader leaves of the text that fprint writes.
reads(f, v) == IF <<f, v>> \in DOMAIN Misread THEN Misread[<<f, v>>] ELSE v

\* Ftypcvt32 of that text.  The null byte that ends a text becomes part of a
\* carray, here one that has filled its last unit.
Ftypcvt32(f, v) == reads(f, v) + (IF Region[FldType[f]] = "CARRAY" THEN 1 ELSE 0)

Lines(s) == [i \in 1..Len(s) |-> [id |-> s[i].id, val |-> Ftypcvt32(s[i].id, s[i].val)]]

\* The reader of the text form adds the lines one after the other to a buffer
\* of its own, which grows as needed (fml32ptr::mutate).
extread(s) ==
  each(s, init(min_size + Bytes(Lines(s.flds))), LAMBDA c, f, oc, v :
         chg(c, f, occur(c, f), Ftypcvt32(f, v))).b

-----------------------------------------------------------------------------
(* The operations *)

Live == {b \in Bufs : buf[b] # NoBuf}
Store(b, r) == buf' = [buf EXCEPT ![b] = r.b] /\ ret' = r.rc

Falloc32(b) ==
  b \notin Live /\ \E n \in Sizes : n >= min_size /\ Store(b, Done(init(n)))

Finit32(b) == \E n \in Sizes :
  /\ n <= buf[b].size + min_size
  /\ Store(b, IF n < min_size THEN Fail(buf[b], "FNOSPACE") ELSE Done(init(n)))

Frealloc32(b) == \E n \in Sizes :
  Store(b, IF n = min_size THEN Fail(buf[b], "FEINVAL")
           ELSE IF n < used(buf[b]) THEN Fail(buf[b], "FNOSPACE")
           ELSE Done(reinit(buf[b], n)))

Ffree32(b) == Store(b, Done(NoBuf))

Fchg32(b) == \E f \in Fields, oc \in -1..MaxOcc :
  \/ \E v \in Values : Store(b, chg(buf[b], f, oc, v))
  \/ f \in Erasable /\ Store(b, del(buf[b], f, oc))   \* value = NULL

Fadd32(b) == \E f \in Fields, v \in Values :
  Store(b, chg(buf[b], f, occur(buf[b], f), v))

Fdel32(b) == \E f \in Erasable, oc \in 0..MaxOcc : Store(b, del(buf[b], f, oc))
Fdelall32(b) == \E f \in Erasable : Store(b, delall(buf[b], f))
Fdelete32(b) == \E S \in SUBSET Erasable : Store(b, xdelete(buf[b], S))
Fproj32(b) == \E S \in SUBSET Erasable : Store(b, proj(buf[b], Fields \ S))

Fcpy32(b, s) == Store(b, cpy(buf[b], buf[s]))
Fupdate32(b, s) == Store(b, update(buf[b], buf[s]))
Fconcat32(b, s) == Store(b, concat(buf[b], buf[s]))
Fojoin32(b, s) == Store(b, ojoin(buf[b], buf[s]))
Fprojcpy32(b, s) == \E S \in SUBSET Fields : Store(b, projcpy(buf[b], buf[s], S))

Joinable(d, s) == \A f \in Fields :
  LET excess == occur(d, f) - occur(s, f)
  IN excess > 0 => f \in Erasable /\ excess <= MaxExcess
Fjoin32(b, s) == Joinable(buf[b], buf[s]) /\ Store(b, join(buf[b], buf[s]))

\* Fwrite32 of s and Fread32 of the file into b.  A file written earlier is
\* like a buffer that nobody changes.
Fread32(b, s) ==
  Store(b, IF buf[s].len > buf[b].size THEN Fail(buf[b], "FNOSPACE")
           ELSE Done([buf[s] EXCEPT !.size = buf[b].size]))

\* Ffprint32 of s and Fextread32 of the text into b.  Every field has a name;
\* an error of the parser is an exception that the boundary turns into one.
Refused(s) == \E i \in 1..Len(s) : <<s[i].id, s[i].val>> \in Unreadable
Fextread32(b, s) ==
  Store(b, IF Refused(buf[s].flds) THEN Fail(buf[b], "exception")
           ELSE cpy(buf[b], extread(buf[s])))

Init == buf = [b \in Bufs |-> NoBuf] /\ ret = "ok"

Next ==
  \/ \E b \in Bufs : Falloc32(b)
  \/ \E b \in Live :
       \/ Finit32(b) \/ Frealloc32(b) \/ Ffree32(b)
       \/ Fchg32(b) \/ Fadd32(b)
       \/ Fdel32(b) \/ Fdelall32(b) \/ Fdelete32(b) \/ Fproj32(b)
       \/ \E s \in Live \ {b} :
            \/ Fcpy32(b, s) \/ Fupdate32(b, s) \/ Fconcat32(b, s)
            \/ Fojoin32(b, s) \/ Fprojcpy32(b, s) \/ Fjoin32(b, s)
            \/ Fread32(b, s) \/ Fextread32(b, s)

Spec == Init /\ [][Next]_fvars

-----------------------------------------------------------------------------
(* Properties *)

\* Exactly the fields before i are of the types before t.
Begins(s, t, i) == \A j \in 1..Len(s) : j < i <=> FldType[s[j].id] < t

Sound(b) ==
  /\ b.len = Bytes(b.flds) /\ b.len <= b.size
  /\ \A t \in Type, i \in 1..Len(b.flds) + 1 :
       Begins(b.flds, t, i) => b.off[t] = Starts(b.flds)[i]
  /\ \A i \in 1..(Len(b.flds) - 1) : b.flds[i].id <= b.flds[i + 1].id

\* After every sequence of operations that deletes Erasable fields only, failed
\* operations included, the offsets kept in the header of a buffer are those at
\* which the groups of fields really start, the length is that of the fields
\* and fits, and the fields are in order: what where() and lower_bound rely on
\* (fbfr32.h:818).  The delete of another field breaks it: erase shifts the
\* wrong groups (fbfr32.h:668).
IndexSound == \A b \in Live : Sound(buf[b])

\* The occurrences of a field, found by reading the buffer from the start.
Occs(b, f) ==
  LET read[i \in 0..Len(b.flds)] ==
        IF i = 0 THEN <<>>
        ELSE IF b.flds[i].id = f THEN Append(read[i - 1], b.flds[i].val)
        ELSE read[i - 1]
  IN read[Len(b.flds)]

Place(b, i) ==
  IF i = 0 THEN <<0, 0>> ELSE IF i > Len(b.flds) THEN <<>>
  ELSE <<b.flds[i].id,
         Cardinality({j \in 1..(i - 1) : b.flds[j].id = b.flds[i].id})>>

\* Ffind32, Fpres32, Foccur32, Ffindlast32 and Ffindocc32, which go through
\* the index, answer what reading the whole buffer from the start would, and
\* Fnext32 called over and over visits every occurrence once, in order.
LookupAgrees == \A b \in Live :
  LET B == buf[b]
  IN /\ \A f \in Fields :
          LET s == Occs(B, f)
          IN /\ occur(B, f) = Len(s)
             /\ findlast(B, f) = (IF s = <<>> THEN <<>> ELSE <<s[Len(s)]>>)
             /\ \A v \in Values : findocc(B, f, v) = SelectInSeq(s, LAMBDA x : x = v) - 1
             /\ \A oc \in 0..MaxOcc :
                  find(B, f, oc) = (IF oc < Len(s) THEN <<s[oc + 1]>> ELSE <<>>)
     /\ \A i \in 0..Len(B.flds) : next(B, Place(B, i)) = Place(B, i + 1)

Abstract(b) == IF b = NoBuf THEN NoBuf ELSE [f \in Fields |-> Occs(b, f)]

Promised ==
  INSTANCE FieldedBuffers WITH content <- [b \in Bufs |-> Abstract(buf[b])]

\* The bytes that occurrences with these values take.
Packed(f, s) == Bytes([i \in DOMAIN s |-> [id |-> f, val |-> s[i]]])

\* Whatever an application asks of Fchg32 next, it stores the value as the
\* occurrence it names, with default values in front when occurrences are
\* missing (fbfr32.h:173), and fails exactly when the result does not fit.
StoreAgrees == \A b \in Live, f \in Fields, oc \in 0..MaxOcc, v \in Values :
  LET r    == chg(buf[b], f, oc, v)
      want == Promised!PutAt(Occs(buf[b], f), oc, v)
      grow == Packed(f, want) - Packed(f, Occs(buf[b], f))
  IN IF buf[b].len + grow > buf[b].size THEN r.rc = "FNOSPACE"
     ELSE r.rc = "ok" /\ Occs(r.b, f) = want

\* Whatever two buffers are combined next, a call that succeeds has left what
\* it promises: Fupdate32 the occurrences of the source over those of the
\* destination, Fconcat32 behind them, Fojoin32 only where there is one in the
\* destination, Fjoin32 nothing else, Fprojcpy32 the fields asked for.
CombineAgrees == \A b, s \in Live : b # s =>
  LET d == Abstract(buf[b])
      c == Abstract(buf[s])
      both == Promised!Common(d, c)
      Leaves(r, want) == r.rc = "ok" => Abstract(r.b) = want
  IN /\ Leaves(update(buf[b], buf[s]), Promised!Overlay(d, c))
     /\ Leaves(concat(buf[b], buf[s]), Promised!Append2(d, c))
     /\ Leaves(ojoin(buf[b], buf[s]), Promised!Overlay(d, both))
     /\ Joinable(buf[b], buf[s]) => Leaves(join(buf[b], buf[s]), both)
     /\ \A S \in SUBSET Fields :
          Leaves(projcpy(buf[b], buf[s], S), Promised!Keep(c, S))

\* Every operation on packed buffers that deletes Erasable fields only does to
\* the occurrences of the fields what the interface promises, or fails and
\* leaves one of the few things a failed operation may leave behind.  A print
\* that is read again keeps the number of occurrences and every value whose text
\* is not misread, with a carray one longer.  Fjoin32 of buffers that are not
\* Joinable, which never returns (fbfr32.h:608), is no operation here.
Refines == Promised!Spec

\* What tests/fml32.cpp says after fields were deleted: the other fields are
\* found as before.
OthersStayFound == LookupAgrees
=============================================================================
