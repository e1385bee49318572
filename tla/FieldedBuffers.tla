--------------------------- MODULE FieldedBuffers ---------------------------
(***************************************************************************)
(* What the FML32 interface promises, without bytes: a fielded buffer maps *)
(* each field to the sequence of its occurrences.  Operations that need    *)
(* space may fail; what a failed one may leave behind is stated here too:  *)
(* Fchg32 default values in front of the occurrence it could not store,    *)
(* the operations on two buffers a leading part of the source.             *)
(***************************************************************************)
EXTENDS Integers, Sequences, FiniteSets, FiniteSetsExt, SequencesExt

CONSTANTS Bufs, Fields, Values, MaxOcc, NoBuf,
          Misread   \* <<field, value>> -> what its text says instead

VARIABLES content,   \* buffer -> field -> its occurrences, or NoBuf
          ret        \* what the last operation returned

avars == <<content, ret>>

Empty == [f \in Fields |-> <<>>]
Live == {b \in Bufs : content[b] # NoBuf}
Become(b, c, r) == ret' = r /\ content' = [content EXCEPT ![b] = c]

Zeros(n) == [i \in 1..n |-> 0]
PutAt(s, oc, v) ==
  IF oc < Len(s) THEN [s EXCEPT ![oc + 1] = v]
                 ELSE s \o Zeros(oc - Len(s)) \o <<v>>

\* The occurrences of a buffer up to the nth one of field g.
Take(c, g, n) ==
  [f \in Fields |-> IF f < g THEN c[f] ELSE IF f = g THEN SubSeq(c[f], 1, n) ELSE <<>>]

Overlay(d, s) ==
  [f \in Fields |->
     s[f] \o SubSeq(d[f], Len(s[f]) + 1, Len(d[f]))]
Common(d, s) == [f \in Fields |-> SubSeq(s[f], 1, Min({Len(s[f]), Len(d[f])}))]
Append2(d, s) == [f \in Fields |-> d[f] \o s[f]]
Keep(c, S) == [f \in Fields |-> IF f \in S THEN c[f] ELSE <<>>]

\* An operation that applies the occurrences of s to d one after the other
\* gets through all of them, or stops for lack of space.
Apply(b, d, s, Op(_, _)) ==
  \/ Become(b, Op(d, s), "ok")
  \/ \E g \in Fields : \E n \in 0..Len(s[g]) :
       Become(b, Op(d, Take(s, g, n)), "FNOSPACE")

Change(b) == \E f \in Fields, v \in Values :
  LET s == content[b][f]
  IN \E oc \in 0..Max({MaxOcc, Len(s)}) :
     \/ Become(b, [content[b] EXCEPT ![f] = PutAt(s, oc, v)], "ok")
     \/ \E n \in 0..Max({0, oc - Len(s)}) :
          Become(b, [content[b] EXCEPT ![f] = s \o Zeros(n)], "FNOSPACE")
Delete(b) == \E f \in Fields, oc \in 0..MaxOcc :
  IF oc < Len(content[b][f])
    THEN Become(b, [content[b] EXCEPT ![f] = RemoveAt(@, oc + 1)], "ok")
    ELSE Become(b, content[b], "FNOTPRES")
DeleteFields(b) == \E S \in SUBSET Fields : Become(b, Keep(content[b], S), "ok")

\* Fextread32 of the text of s: its occurrences as their texts say, carrays one
\* longer.
Text(f, v) == IF <<f, v>> \in DOMAIN Misread THEN Misread[<<f, v>>] ELSE v
Reread(b, s) == \E longer \in SUBSET Fields :
  Become(b, [f \in Fields |-> [i \in DOMAIN content[s][f] |->
                Text(f, content[s][f][i]) + (IF f \in longer THEN 1 ELSE 0)]], "ok")

\* Fcpy32 (and Fread32), Fupdate32, Fconcat32, Fojoin32, Fjoin32 and
\* Fprojcpy32.
Combine(b, s) ==
  LET d == content[b]
      c == content[s]
  IN \/ Become(b, c, "ok")
     \/ Apply(b, d, c, Overlay)
     \/ Apply(b, d, c, Append2)
     \/ Apply(b, d, Common(d, c), Overlay)
     \/ Apply(b, Common(c, d), Common(d, c), Overlay)
     \/ \E S \in SUBSET Fields : Apply(b, Empty, Keep(c, S), Overlay)

\* A buffer comes into being, is cleared or is freed.
Replace(b) == \E c \in {Empty, NoBuf} : Become(b, c, "ok")

Refuse == \E r \in {"ok", "FNOSPACE", "FNOTPRES", "FEINVAL", "exception"} :
  ret' = r /\ UNCHANGED content

Init == content = [b \in Bufs |-> NoBuf] /\ ret = "ok"

Next ==
  \/ Refuse
  \/ \E b \in Live : Change(b) \/ Delete(b) \/ DeleteFields(b)
  \/ \E b, s \in Live : Combine(b, s) \/ Reread(b, s)
  \/ \E b \in Bufs : Replace(b)

Spec == Init /\ [][Next]_avars
=============================================================================
