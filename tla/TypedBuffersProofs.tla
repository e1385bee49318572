------------------------- MODULE TypedBuffersProofs -------------------------
(***************************************************************************)
(* Proofs about module TypedBuffers, for every set of addresses, sizes and *)
(* lengths: the server's pointer follows its block, and as long as no      *)
(* buffer is made smaller nothing reaches beyond a block.                  *)
(***************************************************************************)
EXTENDS TypedBuffers, TLAPS

Pointer == Addrs \cup {Null}
Heap == [mem : [Addrs -> Block \cup {Null}], slot : Pointer]

Typed ==
  /\ mem \in [Addrs -> Block \cup {Null}]
  /\ atmibuf \in Pointer /\ data \in Pointer /\ own \in Pointer
  /\ need \in Nat /\ left \in Types \cup {Null}
  /\ phase \in {"idle", "service", "dead"}

\* The server's pointer is null or points to the only block that has an owner.
Follows(h) ==
  /\ \A p \in Addrs : h.mem[p] # Null /\ h.mem[p].owned => h.slot = p
  /\ h.slot # Null => h.mem[h.slot] # Null /\ h.mem[h.slot].owned

\* The pointers of a service: its request is the server's block, the buffer it
\* has allocated another one, and there are none outside of it.
Pointers ==
  /\ data # Null => data = atmibuf /\ data # own
  /\ own # Null => own # atmibuf
  /\ phase # "service" => data = Null /\ own = Null
  /\ need > 0 => phase = "service" /\ data # Null /\ mem[data].type = "FML32"

PointerInv == Typed /\ SlotFollows /\ Pointers

-----------------------------------------------------------------------------
(* What the functions of mem.cpp do to a heap *)

LEMMA LargerType == \A m, n \in Nat : larger(m, n) \in Nat /\ larger(m, n) >= m
                                      /\ larger(m, n) >= n
  BY DEF larger

LEMMA BlockType ==
  ASSUME NEW type \in Types, NEW n \in Nat, NEW owned \in BOOLEAN
  PROVE  /\ block(type, n, owned) \in Block
         /\ block(type, n, owned).owned = owned
         /\ block(type, n, owned).type = type
  BY LargerType, TypedBuffersAssumption DEF block, Block, Types

\* The block after realloc.
Resized(b, n) ==
  LET room == larger(n, default_size[b.type])
  IN [b EXCEPT !.room = room, !.cap = IF b.type = "FML32" THEN room ELSE 0,
               !.lost = @ \/ b.used > room]

LEMMA ResizedBlock ==
  ASSUME NEW b \in Block, NEW n \in Nat
  PROVE  /\ Resized(b, n) \in Block
         /\ Resized(b, n).owned = b.owned
         /\ Resized(b, n).type = b.type
         /\ Resized(b, n).size = b.size
         /\ Resized(b, n).used = b.used
         /\ Resized(b, n).room >= n
         /\ Resized(b, n).cap = IF b.type = "FML32" THEN Resized(b, n).room ELSE 0
         /\ Resized(b, n).lost = (b.lost \/ b.used > Resized(b, n).room)
  <1>1. larger(n, default_size[b.type]) \in Nat /\ larger(n, default_size[b.type]) >= n
    BY LargerType, TypedBuffersAssumption DEF Block
  <1> QED
    BY <1>1 DEF Block, Resized

\* tprealloc leaves the other blocks alone; the block is at its new address,
\* with its owner, and the old address is free.
LEMMA ReallocHeap ==
  ASSUME NEW h \in Heap, NEW p \in Addrs, h.mem[p] # Null, NEW n \in Nat,
         NEW q \in Addrs
  PROVE  /\ tprealloc(h, p, n, q) \in Heap
         /\ tprealloc(h, p, n, q).mem =
              [h.mem EXCEPT ![p] = Null, ![q] = Resized(h.mem[p], n)]
         /\ tprealloc(h, p, n, q).slot =
              IF h.mem[p].owned /\ h.slot = p THEN q ELSE h.slot
  <1>1. h.mem[p] \in Block
    BY DEF Heap
  <1>2. Resized(h.mem[p], n) \in Block
    BY <1>1, ResizedBlock
  <1>3. tprealloc(h, p, n, q) =
          [mem  |-> [h.mem EXCEPT ![p] = Null, ![q] = Resized(h.mem[p], n)],
           slot |-> IF h.mem[p].owned /\ h.slot = p THEN q ELSE h.slot]
    BY DEF tprealloc, Resized
  <1>4. [h.mem EXCEPT ![p] = Null, ![q] = Resized(h.mem[p], n)]
          \in [Addrs -> Block \cup {Null}]
    BY <1>2 DEF Heap
  <1> QED
    BY <1>3, <1>4 DEF Heap, Pointer

LEMMA ReallocFollows ==
  ASSUME NEW h \in Heap, NEW p \in Addrs, h.mem[p] # Null, NEW n \in Nat,
         NEW q \in Addrs, q = p \/ h.mem[q] = Null, Follows(h)
  PROVE  Follows(tprealloc(h, p, n, q))
  <1> DEFINE g == tprealloc(h, p, n, q)
             b == Resized(h.mem[p], n)
  <1>1. /\ g \in Heap
        /\ g.mem = [h.mem EXCEPT ![p] = Null, ![q] = b]
        /\ g.slot = IF h.mem[p].owned /\ h.slot = p THEN q ELSE h.slot
    BY ReallocHeap
  <1>2. h.mem[p] \in Block /\ h.mem \in [Addrs -> Block \cup {Null}] /\ h.slot \in Pointer
    BY DEF Heap
  <1>3. b \in Block /\ b.owned = h.mem[p].owned /\ b # Null
    BY SMTT(40), <1>2, ResizedBlock, TypedBuffersAssumption
  <1> HIDE DEF g, b
  <1>4. ASSUME NEW r \in Addrs, g.mem[r] # Null, g.mem[r].owned
        PROVE  g.slot = r
    BY <1>1, <1>2, <1>3, <1>4 DEF Follows
  <1>5. ASSUME g.slot # Null
        PROVE  g.mem[g.slot] # Null /\ g.mem[g.slot].owned
    BY <1>1, <1>2, <1>3, <1>5 DEF Follows, Pointer
  <1> QED
    BY <1>4, <1>5 DEF Follows, g

LEMMA FreeHeap ==
  ASSUME NEW h \in Heap, NEW p \in Addrs, h.mem[p] # Null, Follows(h)
  PROVE  /\ tpfree(h, p) \in Heap
         /\ Follows(tpfree(h, p))
         /\ tpfree(h, p).mem = [h.mem EXCEPT ![p] = Null]
         /\ tpfree(h, p).slot = IF h.mem[p].owned /\ h.slot = p THEN Null ELSE h.slot
  <1>1. h.mem \in [Addrs -> Block \cup {Null}] /\ h.slot \in Pointer
    BY DEF Heap
  <1>2. /\ tpfree(h, p).mem = [h.mem EXCEPT ![p] = Null]
        /\ tpfree(h, p).slot = IF h.mem[p].owned /\ h.slot = p THEN Null ELSE h.slot
    BY DEF tpfree
  <1>3. tpfree(h, p) \in Heap
    BY <1>1 DEF tpfree, Heap, Pointer
  <1>4. Follows(tpfree(h, p))
    BY <1>1, <1>2 DEF Follows, Pointer
  <1> QED
    BY <1>2, <1>3, <1>4

\* What a block holds after an import.
LEMMA FilledBlock ==
  ASSUME NEW b \in Block, NEW m \in Msg
  PROVE  /\ filled(b, m) \in Block
         /\ filled(b, m).owned = b.owned
         /\ filled(b, m).type = m.type
         /\ filled(b, m).used = m.len
         /\ filled(b, m).room = b.room
         /\ filled(b, m).size = b.size
         /\ filled(b, m).lost = FALSE
         /\ filled(b, m).cap = IF m.type = "FML32" THEN b.size ELSE 0
  <1>1. m.type \in Types /\ m.len \in Nat
    BY TypedBuffersAssumption DEF Msg
  <1> QED
    BY <1>1 DEF filled, refit, Block

\* Storing another block at the address of one leaves the server's pointer
\* right, as long as the block keeps its owner.
Stored(h, q, b) == [h EXCEPT !.mem[q] = b]

LEMMA StoreFollows ==
  ASSUME NEW h \in Heap, NEW q \in Addrs, h.mem[q] # Null, Follows(h),
         NEW b \in Block, b.owned = h.mem[q].owned
  PROVE  /\ Stored(h, q, b) \in Heap
         /\ Follows(Stored(h, q, b))
         /\ Stored(h, q, b).mem = [h.mem EXCEPT ![q] = b]
         /\ Stored(h, q, b).slot = h.slot
  <1> DEFINE g == [h EXCEPT !.mem[q] = b]
  <1>1. h.mem \in [Addrs -> Block \cup {Null}] /\ h.slot \in Pointer
    BY DEF Heap
  <1>2. g.mem = [h.mem EXCEPT ![q] = b] /\ g.slot = h.slot
    BY DEF Heap
  <1>3. g \in Heap
    BY <1>1 DEF Heap
  <1>4. b # Null
    BY TypedBuffersAssumption
  <1> HIDE DEF g
  <1>5. Follows(g)
    BY <1>1, <1>2, <1>4 DEF Follows, Pointer
  <1> QED
    BY <1>2, <1>3, <1>5 DEF g, Stored

\* tpimport: the block ends up at q with the message in it, the rest of the
\* heap is as before.
LEMMA ImportHeap ==
  ASSUME NEW h \in Heap, NEW p \in Addrs, h.mem[p] # Null, Follows(h),
         NEW m \in Msg, NEW q \in places(h, p, m)
  PROVE  /\ q \in Addrs /\ (q = p \/ h.mem[q] = Null)
         /\ tpimport(h, p, m, q) \in Heap
         /\ Follows(tpimport(h, p, m, q))
         /\ \A r \in Addrs : r # p /\ r # q => tpimport(h, p, m, q).mem[r] = h.mem[r]
         /\ p # q => tpimport(h, p, m, q).mem[p] = Null
         /\ tpimport(h, p, m, q).slot =
              IF h.mem[p].owned /\ h.slot = p THEN q ELSE h.slot
         /\ \E b \in Block :
              /\ tpimport(h, p, m, q).mem[q] = filled(b, m)
              /\ b.owned = h.mem[p].owned /\ b.size = h.mem[p].size
              /\ \/ b = h.mem[p] /\ ~grows(h.mem[p], m)
                 \/ /\ grows(h.mem[p], m)
                    /\ b.room >= TpMem + (TpMem - TypeOff) + m.len
         /\ tpimport(h, p, m, q).mem[q] # Null
  <1> DEFINE n == TpMem + (TpMem - TypeOff) + m.len
             g == IF grows(h.mem[p], m) THEN tprealloc(h, p, n, q) ELSE h
  <1>1. h.mem \in [Addrs -> Block \cup {Null}] /\ h.slot \in Pointer /\ h.mem[p] \in Block
    BY DEF Heap
  <1>2. q \in Addrs /\ (q = p \/ h.mem[q] = Null)
    BY DEF places
  <1>3. n \in Nat
    BY TypedBuffersAssumption DEF Msg
  <1>4. g \in Heap /\ Follows(g)
    BY <1>2, <1>3, ReallocHeap, ReallocFollows
  <1>5. /\ \A r \in Addrs : r # p /\ r # q => g.mem[r] = h.mem[r]
        /\ p # q => g.mem[p] = Null
        /\ g.slot = IF h.mem[p].owned /\ h.slot = p THEN q ELSE h.slot
        /\ g.mem[q] \in Block
        /\ g.mem[q].owned = h.mem[p].owned /\ g.mem[q].size = h.mem[p].size
        /\ \/ g.mem[q] = h.mem[p] /\ ~grows(h.mem[p], m)
           \/ grows(h.mem[p], m) /\ g.mem[q].room >= n
    <2>1. CASE grows(h.mem[p], m)
      <3> DEFINE c == Resized(h.mem[p], n)
      <3>1. /\ g.mem = [h.mem EXCEPT ![p] = Null, ![q] = c]
            /\ g.slot = IF h.mem[p].owned /\ h.slot = p THEN q ELSE h.slot
        BY <1>2, <1>3, <2>1, ReallocHeap
      <3>2. c \in Block /\ c.owned = h.mem[p].owned /\ c.size = h.mem[p].size /\ c.room >= n
        BY <1>1, <1>3, ResizedBlock
      <3> HIDE DEF g, c, n
      <3> QED
        BY <1>1, <1>2, <2>1, <3>1, <3>2
    <2>2. CASE ~grows(h.mem[p], m)
      <3>1. g = h /\ q = p
        BY <2>2 DEF places
      <3> HIDE DEF g, n
      <3> QED
        BY <1>1, <2>2, <3>1
    <2> QED
      BY <2>1, <2>2
  <1>6. tpimport(h, p, m, q) = Stored(g, q, filled(g.mem[q], m))
    BY DEF tpimport, Stored
  <1> HIDE DEF g, n
  <1>7. /\ filled(g.mem[q], m) \in Block /\ filled(g.mem[q], m).owned = g.mem[q].owned
        /\ filled(g.mem[q], m) # Null /\ g.mem[q] # Null
    BY <1>5, FilledBlock, TypedBuffersAssumption
  <1>8. /\ tpimport(h, p, m, q) \in Heap
        /\ Follows(tpimport(h, p, m, q))
        /\ tpimport(h, p, m, q).mem = [g.mem EXCEPT ![q] = filled(g.mem[q], m)]
        /\ tpimport(h, p, m, q).slot = g.slot
    BY <1>2, <1>4, <1>6, <1>7, StoreFollows
  <1>9. g.mem \in [Addrs -> Block \cup {Null}]
    BY <1>4 DEF Heap
  <1>10. /\ tpimport(h, p, m, q).mem[q] = filled(g.mem[q], m)
         /\ \A r \in Addrs : r # q => tpimport(h, p, m, q).mem[r] = g.mem[r]
    BY <1>2, <1>8, <1>9
  <1>11. /\ \A r \in Addrs : r # p /\ r # q => tpimport(h, p, m, q).mem[r] = h.mem[r]
         /\ p # q => tpimport(h, p, m, q).mem[p] = Null
         /\ tpimport(h, p, m, q).slot = IF h.mem[p].owned /\ h.slot = p THEN q ELSE h.slot
    BY <1>5, <1>8, <1>10
  <1>12. \E b \in Block :
              /\ tpimport(h, p, m, q).mem[q] = filled(b, m)
              /\ b.owned = h.mem[p].owned /\ b.size = h.mem[p].size
              /\ \/ b = h.mem[p] /\ ~grows(h.mem[p], m)
                 \/ /\ grows(h.mem[p], m)
                    /\ b.room >= TpMem + (TpMem - TypeOff) + m.len
    BY <1>5, <1>10 DEF n
  <1> QED
    BY <1>2, <1>7, <1>8, <1>10, <1>11, <1>12

\* A server that has no buffer allocates one before it receives.
LEMMA PrepareHeap ==
  ASSUME PointerInv, phase = "idle",
         NEW p \in IF atmibuf = Null THEN FreeAddrs ELSE {atmibuf}
  PROVE  /\ prepare(heap, p) \in Heap /\ Follows(prepare(heap, p))
         /\ p \in Addrs /\ prepare(heap, p).mem[p] \in Block
         /\ prepare(heap, p).slot = p /\ prepare(heap, p).mem[p].owned
         /\ \A r \in Addrs : r # p => prepare(heap, p).mem[r] = mem[r]
         /\ \/ prepare(heap, p).mem[p] = mem[p] /\ mem[p] # Null
            \/ prepare(heap, p).mem[p] = block("STRING", ReqSize, TRUE)
  <1>1. heap \in Heap /\ Follows(heap) /\ heap.mem = mem /\ heap.slot = atmibuf
    BY DEF PointerInv, Typed, SlotFollows, Follows, heap, Heap
  <1>2. p \in Addrs
    BY DEF FreeAddrs, PointerInv, Typed, Pointer
  <1>3. CASE atmibuf # Null
    <2>1. p = atmibuf /\ prepare(heap, p) = heap
      BY <1>1, <1>3 DEF prepare
    <2>2. mem[p] # Null /\ mem[p].owned /\ mem[p] \in Block
      BY <1>2, <1>3, <2>1 DEF PointerInv, Typed, SlotFollows
    <2> QED
      BY <1>1, <1>2, <2>1, <2>2
  <1>4. CASE atmibuf = Null
    <2> DEFINE b == block("STRING", ReqSize, TRUE)
    <2>1. b \in Block /\ b.owned /\ b # Null
      <3>1. ReqSize \in Nat /\ "STRING" \in Types
        BY TypedBuffersAssumption DEF Types
      <3>2. b \in Block /\ b.owned = TRUE
        BY <3>1, BlockType
      <3> QED
        BY <3>2, TypedBuffersAssumption
    <2>2. prepare(heap, p) = [mem |-> [mem EXCEPT ![p] = b], slot |-> p]
      BY <1>1, <1>4 DEF prepare
    <2> HIDE DEF b
    <2>3. [mem EXCEPT ![p] = b] \in [Addrs -> Block \cup {Null}]
      BY <2>1 DEF PointerInv, Typed
    <2>4. prepare(heap, p) \in Heap
      BY <1>2, <2>2, <2>3 DEF Heap, Pointer
    <2>5. \A r \in Addrs : mem[r] # Null => ~mem[r].owned
      BY <1>4, TypedBuffersAssumption DEF PointerInv, SlotFollows
    <2>6. /\ prepare(heap, p).mem[p] = b
          /\ \A r \in Addrs : r # p => prepare(heap, p).mem[r] = mem[r]
      BY <1>2, <2>2 DEF PointerInv, Typed
    <2>7. prepare(heap, p).slot = p
      BY <2>2
    <2>8. Follows(prepare(heap, p))
      BY <1>2, <2>1, <2>5, <2>6, <2>7 DEF Follows
    <2> QED
      BY <1>2, <2>1, <2>4, <2>6, <2>7, <2>8 DEF b
  <1> QED
    BY <1>3, <1>4

-----------------------------------------------------------------------------
(* The server's pointer *)

LEMMA InitPointerInv == Init => PointerInv
  BY TypedBuffersAssumption
  DEF Init, PointerInv, Typed, SlotFollows, Pointers, Pointer

LEMMA HeapFollows ==
  ASSUME PointerInv
  PROVE  heap \in Heap /\ Follows(heap) /\ heap.mem = mem /\ heap.slot = atmibuf
  BY DEF PointerInv, Typed, SlotFollows, Follows, heap, Heap

\* A heap that is kept, with pointers into it.
LEMMA KeepPointers ==
  ASSUME NEW h \in Heap, Follows(h), Keep(h),
         data' \in Pointer, own' \in Pointer,
         data' # Null => data' = h.slot /\ data' # own',
         own' # Null => own' # h.slot /\ h.mem[own'] # Null,
         phase' # "service" => data' = Null /\ own' = Null,
         need' \in Nat, left' \in Types \cup {Null},
         phase' \in {"idle", "service", "dead"},
         need' > 0 => /\ phase' = "service" /\ data' # Null
                      /\ h.mem[data'].type = "FML32"
  PROVE  PointerInv'
  <1>1. mem' = h.mem /\ atmibuf' = h.slot
    BY DEF Keep
  <1>2. Typed'
    BY <1>1 DEF Typed, Heap
  <1>3. SlotFollows'
    BY <1>1 DEF SlotFollows, Follows
  <1>4. Pointers'
    BY <1>1 DEF Pointers
  <1> QED
    BY <1>2, <1>3, <1>4 DEF PointerInv

LEMMA NextPointerInv == PointerInv /\ [Next]_bvars => PointerInv'
  <1> SUFFICES ASSUME PointerInv, [Next]_bvars PROVE PointerInv'
    OBVIOUS
  <1>0. heap \in Heap /\ Follows(heap) /\ heap.mem = mem /\ heap.slot = atmibuf
    BY HeapFollows
  <1>t. Typed /\ SlotFollows /\ Pointers
    BY DEF PointerInv
  <1>n. Null \notin Addrs /\ Null \notin Block
    BY TypedBuffersAssumption
  <1>1. CASE receive
    <2>1. PICK p \in IF atmibuf = Null THEN FreeAddrs ELSE {atmibuf} :
            \/ \E m \in Msg : Valid(m) /\ \E q \in places(prepare(heap, p), p, m) :
                 /\ Keep(tpimport(prepare(heap, p), p, m, q)) /\ data' = q
                 /\ left' = m.type /\ phase' = "service"
            \/ /\ Keep([prepare(heap, p) EXCEPT !.mem[p] = refit(@)])
               /\ data' = p /\ phase' = "service" /\ UNCHANGED left
            \/ /\ Keep(prepare(heap, p)) /\ phase' = "dead" /\ UNCHANGED <<data, left>>
      BY <1>1 DEF receive
    <2>2. data = Null /\ own = Null /\ need = 0 /\ UNCHANGED <<own, need>> /\ phase = "idle"
      BY <1>1, <1>t DEF receive, Pointers, Typed
    <2> DEFINE h == prepare(heap, p)
    <2>3. /\ h \in Heap /\ Follows(h) /\ p \in Addrs /\ h.mem[p] \in Block
          /\ h.slot = p /\ h.mem[p].owned
      BY <2>2, PrepareHeap
    <2>4. h.mem[p] # Null
      BY <1>n, <2>3
    <2>5. own' = Null /\ need' = 0 /\ Null \in Pointer
      BY <2>2 DEF Pointer
    <2> HIDE DEF h
    <2>6. ASSUME NEW m \in Msg, NEW q \in places(h, p, m), Keep(tpimport(h, p, m, q)),
                 data' = q, left' = m.type, phase' = "service"
          PROVE  PointerInv'
      <3>1. /\ q \in Addrs /\ tpimport(h, p, m, q) \in Heap /\ Follows(tpimport(h, p, m, q))
            /\ tpimport(h, p, m, q).slot = q
        BY <2>3, <2>4, ImportHeap
      <3>2. m.type \in Types
        BY DEF Msg
      <3>3. q \in Pointer /\ q # Null
        BY <1>n, <3>1 DEF Pointer
      <3> QED
        BY <2>5, <2>6, <3>1, <3>2, <3>3, KeepPointers
    <2>7. ASSUME Keep([h EXCEPT !.mem[p] = refit(@)]), data' = p, phase' = "service",
                 UNCHANGED left
          PROVE  PointerInv'
      <3>1. refit(h.mem[p]) \in Block /\ refit(h.mem[p]).owned = h.mem[p].owned
        BY <2>3 DEF refit, Block
      <3> DEFINE b == refit(h.mem[p])
                 g == Stored(h, p, b)
      <3>2. Keep(g)
        BY <2>3, <2>7 DEF Heap, Stored
      <3> HIDE DEF b
      <3>3. g \in Heap /\ Follows(g) /\ g.slot = p
        <4>1. b \in Block /\ b.owned = h.mem[p].owned
          BY <3>1 DEF b
        <4> QED
          BY ZenonT(60), <2>3, <2>4, <4>1, StoreFollows
      <3>4. p \in Pointer /\ p # Null /\ left' \in Types \cup {Null}
        BY <1>n, <1>t, <2>3, <2>7 DEF Pointer, Typed
      <3> HIDE DEF g
      <3> QED
        BY <2>5, <2>7, <3>2, <3>3, <3>4, KeepPointers
    <2>8. ASSUME Keep(h), phase' = "dead", UNCHANGED <<data, left>>
          PROVE  PointerInv'
      <3>1. data' = Null /\ left' \in Types \cup {Null}
        BY <1>t, <2>2, <2>8 DEF Typed
      <3> QED
        BY <2>3, <2>5, <2>8, <3>1, KeepPointers
    <2> QED
      BY <2>1, <2>6, <2>7, <2>8 DEF h
  <1>2. CASE tpreturn
    <2>1. PICK p \in {data, own, Null} :
            /\ own \in {Null, p}
            /\ IF p # Null /\ p # atmibuf THEN Keep(tpfree(heap, p)) ELSE Keep(heap)
      BY <1>2 DEF tpreturn
    <2>2. data' = Null /\ own' = Null /\ phase' = "idle" /\ need' = 0 /\ left' = left
      BY <1>2 DEF tpreturn
    <2>3. left' \in Types \cup {Null} /\ Null \in Pointer
      BY <1>t, <2>2 DEF Typed, Pointer
    <2>4. PICK h \in Heap : Follows(h) /\ Keep(h)
      <3>1. CASE p # Null /\ p # atmibuf
        <4>1. p \in Addrs /\ mem[p] # Null
          BY <1>t, <3>1 DEF Typed, Pointer, SlotFollows
        <4> QED
          BY <1>0, <2>1, <3>1, <4>1, FreeHeap
      <3>2. CASE ~(p # Null /\ p # atmibuf)
        BY <1>0, <2>1, <3>2
      <3> QED
        BY <3>1, <3>2
    <2> QED
      BY <2>2, <2>3, <2>4, KeepPointers
  <1>3. CASE tpalloc
    <2>1. PICK p \in FreeAddrs, type \in Types, n \in Sizes :
            mem' = [mem EXCEPT ![p] = block(type, n, FALSE)] /\ own' = p
      BY <1>3 DEF tpalloc
    <2> DEFINE b == block(type, n, FALSE)
    <2>2. b \in Block /\ b.owned = FALSE /\ b # Null
      <3>1. n \in Nat
        BY TypedBuffersAssumption
      <3> QED
        BY <1>n, <3>1, BlockType
    <2>3. p \in Addrs /\ mem[p] = Null
      BY DEF FreeAddrs
    <2>4. UNCHANGED <<data, need, atmibuf, left, phase>> /\ phase = "service" /\ need = 0
      BY <1>3 DEF tpalloc, Running
    <2> HIDE DEF b
    <2>5. mem' = [mem EXCEPT ![p] = b] /\ own' = p
      BY <2>1 DEF b
    <2>6. Typed'
      BY <1>t, <2>2, <2>3, <2>4, <2>5 DEF Typed, Pointer
    <2>7. atmibuf # p /\ data # p
      BY <1>n, <1>t, <2>3 DEF SlotFollows, Pointers, Typed
    <2>8. SlotFollows'
      BY <1>n, <1>t, <2>2, <2>3, <2>4, <2>5, <2>7 DEF SlotFollows, Typed, Pointer
    <2>9. Pointers'
      BY <1>n, <1>t, <2>3, <2>4, <2>5, <2>7 DEF Pointers
    <2> QED
      BY <2>6, <2>8, <2>9 DEF PointerInv
  <1>4. CASE resize
    <2>1. PICK n \in Sizes, q \in {data} \cup FreeAddrs :
            Keep(tprealloc(heap, data, n, q)) /\ data' = q
      BY <1>4 DEF resize
    <2>2. /\ data # Null /\ UNCHANGED <<own, need, left, phase>>
          /\ phase = "service" /\ need = 0
      BY <1>4 DEF resize, Running
    <2>3. n \in Nat /\ data \in Addrs /\ data = atmibuf /\ data # own
      BY <1>t, <2>2, TypedBuffersAssumption DEF Typed, Pointers, Pointer
    <2>4. mem[data] # Null /\ q \in Addrs /\ (q = data \/ mem[q] = Null) /\ mem[data].owned
      BY <1>t, <2>2, <2>3 DEF SlotFollows, FreeAddrs
    <2> DEFINE h == tprealloc(heap, data, n, q)
    <2>5. /\ h \in Heap /\ Follows(h) /\ h.slot = q
          /\ h.mem = [mem EXCEPT ![data] = Null, ![q] = Resized(mem[data], n)]
      BY <1>0, <2>3, <2>4, ReallocHeap, ReallocFollows
    <2> HIDE DEF h
    <2>6. own # Null => own # q /\ h.mem[own] # Null /\ own \in Addrs
      BY <1>t, <2>3, <2>4, <2>5 DEF Typed, Pointer, SlotFollows
    <2>7. own' \in Pointer /\ left' \in Types \cup {Null} /\ q \in Pointer /\ q # Null
      BY <1>n, <1>t, <2>2, <2>4 DEF Typed, Pointer
    <2>8. Keep(h)
      BY <2>1 DEF h
    <2> QED
      <3>1. own' = own /\ data' = q /\ phase' = "service" /\ need' \in Nat /\ ~(need' > 0)
        BY <2>1, <2>2
      <3>2. own' # Null => own' # h.slot /\ h.mem[own'] # Null
        BY <2>5, <2>6, <3>1
      <3>3. data' # Null => data' = h.slot /\ data' # own'
        BY <2>5, <2>6, <2>7, <3>1
      <3> QED
        BY <2>5, <2>7, <2>8, <3>1, <3>2, <3>3, KeepPointers
  <1>5. CASE free
    <2>1. /\ UNCHANGED <<need, left, phase>> /\ phase = "service" /\ need = 0
          /\ left' \in Types \cup {Null} /\ Null \in Pointer
      BY <1>5, <1>t DEF free, Running, Typed, Pointer
    <2>2. CASE data # Null /\ Keep(tpfree(heap, data)) /\ data' = Null /\ UNCHANGED own
      <3>1. data \in Addrs /\ mem[data] # Null /\ data = atmibuf /\ mem[data].owned
        BY <1>t, <2>2 DEF Typed, Pointer, SlotFollows, Pointers
      <3> DEFINE h == tpfree(heap, data)
      <3>2. h \in Heap /\ Follows(h) /\ h.slot = Null /\ h.mem = [mem EXCEPT ![data] = Null]
        BY <1>0, <3>1, FreeHeap
      <3> HIDE DEF h
      <3>3. own # Null => h.mem[own] # Null
        BY <1>t, <2>2, <3>1, <3>2 DEF Typed, Pointer, SlotFollows, Pointers
      <3>4. own' \in Pointer /\ own' = own /\ Keep(h)
        BY <1>t, <2>2 DEF Typed, h
      <3>5. data' = Null /\ phase' = "service" /\ need' \in Nat /\ ~(need' > 0)
        BY <2>1, <2>2
      <3>6. own' # Null => own' # h.slot /\ h.mem[own'] # Null
        BY <3>2, <3>3, <3>4
      <3> QED
        BY <2>1, <3>2, <3>4, <3>5, <3>6, KeepPointers
    <2>3. CASE own # Null /\ Keep(tpfree(heap, own)) /\ own' = Null /\ UNCHANGED data
      <3>1. own \in Addrs /\ mem[own] # Null /\ own # atmibuf
        BY <1>t, <2>3 DEF Typed, Pointer, SlotFollows, Pointers
      <3> DEFINE h == tpfree(heap, own)
      <3>2. /\ h \in Heap /\ Follows(h) /\ h.slot = atmibuf
        BY <1>0, <3>1, FreeHeap
      <3> HIDE DEF h
      <3>3. data' \in Pointer /\ Keep(h) /\ data' = data /\ (data # Null => data = atmibuf)
        BY <1>t, <2>3 DEF Typed, h, Pointers
      <3> QED
        BY <2>1, <2>3, <3>2, <3>3, KeepPointers
    <2> QED
      BY <1>5, <2>2, <2>3 DEF free
  <1>6. CASE tpcall
    <2>1. /\ UNCHANGED <<need, left, phase>> /\ phase = "service" /\ need = 0
          /\ left' \in Types \cup {Null} /\ Null \in Pointer
      BY <1>6, <1>t DEF tpcall, Running, Typed, Pointer
    <2>2. ASSUME NEW m \in Msg, data # Null, UNCHANGED own, NEW q \in places(heap, data, m),
                 Keep(tpimport(heap, data, m, q)), data' = q
          PROVE  PointerInv'
      <3>1. /\ data \in Addrs /\ mem[data] # Null /\ data = atmibuf /\ mem[data].owned
            /\ data # own
        BY <1>t, <2>2 DEF Typed, Pointer, SlotFollows, Pointers
      <3> DEFINE h == tpimport(heap, data, m, q)
      <3>2. /\ h \in Heap /\ Follows(h) /\ h.slot = q
            /\ q \in Addrs /\ (q = data \/ mem[q] = Null)
            /\ \A r \in Addrs : r # data /\ r # q => h.mem[r] = mem[r]
        BY <1>0, <3>1, ImportHeap
      <3> HIDE DEF h
      <3>3. own # Null => own # q /\ h.mem[own] # Null
        BY <1>t, <3>1, <3>2 DEF Typed, Pointer, SlotFollows
      <3>4. own' \in Pointer /\ Keep(h) /\ q \in Pointer /\ q # Null
        BY <1>n, <1>t, <2>2, <3>2 DEF Typed, Pointer, h
      <3> QED
        BY <2>1, <2>2, <3>2, <3>3, <3>4, KeepPointers
    <2>3. ASSUME NEW m \in Msg, own # Null, UNCHANGED data, NEW q \in places(heap, own, m),
                 Keep(tpimport(heap, own, m, q)), own' = q
          PROVE  PointerInv'
      <3>1. own \in Addrs /\ mem[own] # Null /\ own # atmibuf
        BY <1>t, <2>3 DEF Typed, Pointer, SlotFollows, Pointers
      <3> DEFINE h == tpimport(heap, own, m, q)
      <3>2. /\ h \in Heap /\ Follows(h) /\ h.slot = atmibuf
            /\ q \in Addrs /\ (q = own \/ mem[q] = Null) /\ h.mem[q] # Null
        BY <1>0, <3>1, ImportHeap
      <3> HIDE DEF h
      <3>3. q # atmibuf /\ (data # Null => data = atmibuf)
        BY <1>n, <1>t, <3>1, <3>2 DEF SlotFollows, Pointers
      <3>4. data' \in Pointer /\ Keep(h) /\ q \in Pointer /\ q # Null
        BY <1>n, <1>t, <2>3, <3>2 DEF Typed, Pointer, h
      <3> QED
        BY <2>1, <2>3, <3>2, <3>3, <3>4, KeepPointers
    <2> QED
      BY <1>6, <2>2, <2>3 DEF tpcall
  <1>7. CASE put
    <2>1. /\ data # Null /\ mem[data].type = "FML32" /\ phase = "service" /\ need' \in Nat
          /\ UNCHANGED <<mem, atmibuf, data, own, left, phase>>
      BY <1>7 DEF put, Running
    <2> QED
      BY <1>t, <2>1 DEF PointerInv, Typed, SlotFollows, Pointers
  <1>8. CASE mutate
    <2>1. /\ phase = "service" /\ need > 0 /\ UNCHANGED <<own, left, phase>>
          /\ data # Null /\ data = atmibuf /\ data # own /\ data \in Addrs
          /\ mem[data] \in Block /\ mem[data].type = "FML32" /\ mem[data].owned
          /\ mem[data] # Null
      BY <1>8, <1>t DEF mutate, Pointers, Typed, Pointer, SlotFollows
    <2>2. CASE /\ mem' = [mem EXCEPT ![data].used = @ + need] /\ need' = 0
               /\ UNCHANGED <<atmibuf, data>>
      <3> DEFINE b == [mem[data] EXCEPT !.used = @ + need]
      <3>1. b \in Block /\ b.owned = mem[data].owned /\ b # Null
        <4>1. mem[data].used + need \in Nat
          BY <1>t, <2>1 DEF Block, Typed
        <4>2. b \in Block /\ b.owned = mem[data].owned
          BY <2>1, <4>1 DEF Block
        <4> QED
          BY <1>n, <4>2
      <3>2. mem' = [mem EXCEPT ![data] = b]
        BY <2>2
      <3> HIDE DEF b
      <3>3. Typed'
        BY <1>t, <2>1, <2>2, <3>1, <3>2 DEF Typed
      <3>4. SlotFollows'
        BY <1>t, <2>1, <2>2, <3>1, <3>2 DEF SlotFollows, Typed, Pointer
      <3>5. Pointers'
        BY <1>t, <2>1, <2>2 DEF Pointers
      <3> QED
        BY <3>3, <3>4, <3>5 DEF PointerInv
    <2>3. ASSUME NEW q \in {data} \cup FreeAddrs,
                 Keep(tprealloc(heap, data, 2 * mem[data].cap, q)), data' = q,
                 UNCHANGED need
          PROVE  PointerInv'
      <3> DEFINE n == 2 * mem[data].cap
                 h == tprealloc(heap, data, n, q)
      <3>1. n \in Nat
        BY <2>1 DEF Block
      <3>2. q \in Addrs /\ (q = data \/ mem[q] = Null)
        BY <2>1 DEF FreeAddrs
      <3>3. Keep(h)
        BY <2>3
      <3> HIDE DEF n
      <3>4. /\ h \in Heap /\ Follows(h) /\ h.slot = q
            /\ h.mem = [mem EXCEPT ![data] = Null, ![q] = Resized(mem[data], n)]
        <4>1. heap.mem[data] # Null /\ data \in Addrs /\ (q = data \/ heap.mem[q] = Null)
          BY <1>0, <2>1, <3>2
        <4>2. /\ h \in Heap /\ Follows(h)
              /\ h.mem = [mem EXCEPT ![data] = Null, ![q] = Resized(mem[data], n)]
              /\ h.slot = IF mem[data].owned /\ atmibuf = data THEN q ELSE atmibuf
          BY <1>0, <3>1, <3>2, <4>1, ReallocHeap, ReallocFollows
        <4> QED
          BY <2>1, <4>2
      <3> HIDE DEF h
      <3>5. Resized(mem[data], n).type = "FML32"
        BY <2>1, <3>1, ResizedBlock
      <3>6. h.mem[q].type = "FML32"
        BY <1>t, <2>1, <3>2, <3>4, <3>5 DEF Typed
      <3>7. own # Null => own # q /\ h.mem[own] # Null
        BY <1>t, <2>1, <3>2, <3>4 DEF Typed, Pointer, SlotFollows
      <3>8. /\ own' \in Pointer /\ q \in Pointer /\ q # Null /\ need' \in Nat
            /\ left' \in Types \cup {Null} /\ own' = own
        BY <1>n, <1>t, <2>1, <2>3, <3>2 DEF Typed, Pointer
      <3> QED
        BY <2>1, <2>3, <3>3, <3>4, <3>6, <3>7, <3>8, KeepPointers
    <2> QED
      BY <1>8, <2>2, <2>3 DEF mutate
  <1>9. CASE UNCHANGED bvars
    BY <1>9, <1>t DEF bvars, PointerInv, Typed, SlotFollows, Pointers
  <1> QED
    BY <1>1, <1>2, <1>3, <1>4, <1>5, <1>6, <1>7, <1>8, <1>9 DEF Next

\* Whatever a service does with the buffer of its request, the pointer of the
\* server follows the block or is null, and no pointer is left to a freed block
\* (tprealloc and tpfree with an owner), for every set of addresses and sizes.
THEOREM PointerFollows == Spec => []SlotFollows
  <1>1. PointerInv => SlotFollows
    BY DEF PointerInv
  <1> QED
    BY <1>1, InitPointerInv, NextPointerInv, PTL DEF Spec

-----------------------------------------------------------------------------
(* Where the blocks of the next state come from *)

Present == {mem[p] : p \in {q \in Addrs : mem[q] # Null}}
RequestBlock == block("STRING", ReqSize, TRUE)
Given == Present \cup {RequestBlock}

\* Block c holds message m, which was imported into block a.
Imported(c, a, m) ==
  \E b \in Block :
    /\ c = filled(b, m) /\ b.owned = a.owned /\ b.size = a.size
    /\ \/ b = a /\ ~grows(a, m)
       \/ grows(a, m) /\ b.room >= TpMem + (TpMem - TypeOff) + m.len

Request == mem[data]

Derived(c) ==
  \/ c \in Given
  \/ \E type \in Types, n \in Sizes : c = block(type, n, FALSE)
  \/ \E a \in Given : c = refit(a)
  \/ \E a \in Given, m \in Msg : Imported(c, a, m)
  \/ \E n \in Sizes : /\ data # Null /\ c = Resized(Request, n)
                      /\ Shrinks \/ n >= larger(Request.size, Request.used)
  \/ need > 0 /\ c = Resized(Request, 2 * Request.cap)
  \/ /\ need > 0 /\ Request.used + need <= Request.cap
     /\ c = [Request EXCEPT !.used = @ + need]

\* A service that is in put has a request, which is an FML32 buffer.
LEMMA RequestIs ==
  ASSUME PointerInv, data # Null
  PROVE  /\ Request \in Block /\ Request \in Present /\ Request.owned
         /\ data \in Addrs /\ mem[data] # Null
         /\ need > 0 => Request.type = "FML32"
  <1>1. data \in Addrs /\ data = atmibuf /\ mem[data] # Null /\ mem[data].owned
    BY DEF PointerInv, Typed, Pointer, SlotFollows, Pointers
  <1>2. mem[data] \in Block
    BY <1>1 DEF PointerInv, Typed
  <1> QED
    BY <1>1, <1>2 DEF Request, Present, PointerInv, Pointers

\* Each step takes the blocks it finds, or makes one as the functions of
\* mem.cpp do.
LEMMA BlockStep ==
  ASSUME PointerInv, Next, NEW r \in Addrs, mem'[r] # Null
  PROVE  Derived(mem'[r])
  <1>0. heap \in Heap /\ Follows(heap) /\ heap.mem = mem /\ heap.slot = atmibuf
    BY HeapFollows
  <1>t. Typed /\ SlotFollows /\ Pointers
    BY DEF PointerInv
  <1>p. \A q \in Addrs : mem[q] # Null => Derived(mem[q])
    BY DEF Derived, Given, Present
  <1>1. CASE receive
    <2>1. PICK p \in IF atmibuf = Null THEN FreeAddrs ELSE {atmibuf} :
            \/ \E m \in Msg : Valid(m) /\ \E q \in places(prepare(heap, p), p, m) :
                 Keep(tpimport(prepare(heap, p), p, m, q))
            \/ Keep([prepare(heap, p) EXCEPT !.mem[p] = refit(@)])
            \/ Keep(prepare(heap, p))
      BY <1>1 DEF receive
    <2> DEFINE h == prepare(heap, p)
    <2>2. phase = "idle"
      BY <1>1 DEF receive
    <2>3. /\ h \in Heap /\ Follows(h) /\ p \in Addrs /\ h.mem[p] \in Block
          /\ \A x \in Addrs : x # p => h.mem[x] = mem[x]
          /\ h.mem[p] \in Given
      <3>1. /\ h \in Heap /\ Follows(h) /\ p \in Addrs /\ h.mem[p] \in Block
            /\ \A x \in Addrs : x # p => h.mem[x] = mem[x]
            /\ \/ h.mem[p] = mem[p] /\ mem[p] # Null
               \/ h.mem[p] = RequestBlock
        BY <2>2, PrepareHeap DEF RequestBlock
      <3> QED
        BY <3>1 DEF Given, Present
    <2>4. h.mem[p] # Null
      BY <2>3, TypedBuffersAssumption
    <2> HIDE DEF h
    <2>5. ASSUME NEW m \in Msg, NEW q \in places(h, p, m), Keep(tpimport(h, p, m, q))
          PROVE  Derived(mem'[r])
      <3> DEFINE g == tpimport(h, p, m, q)
      <3>1. /\ q \in Addrs
            /\ \A x \in Addrs : x # p /\ x # q => g.mem[x] = h.mem[x]
            /\ p # q => g.mem[p] = Null
            /\ \E b \in Block :
                 /\ g.mem[q] = filled(b, m)
                 /\ b.owned = h.mem[p].owned /\ b.size = h.mem[p].size
                 /\ \/ b = h.mem[p] /\ ~grows(h.mem[p], m)
                    \/ /\ grows(h.mem[p], m)
                       /\ b.room >= TpMem + (TpMem - TypeOff) + m.len
        BY <2>3, <2>4, ImportHeap
      <3>2. Imported(g.mem[q], h.mem[p], m)
        BY <3>1 DEF Imported
      <3>3. mem' = g.mem
        BY <2>5 DEF Keep
      <3> HIDE DEF g
      <3>4. CASE r = q
        BY <2>3, <3>2, <3>3, <3>4 DEF Derived
      <3>5. CASE r # q
        BY <1>p, <2>3, <3>1, <3>3, <3>5
      <3> QED
        BY <3>4, <3>5
    <2>6. ASSUME Keep([h EXCEPT !.mem[p] = refit(@)])
          PROVE  Derived(mem'[r])
      <3>1. mem' = [h.mem EXCEPT ![p] = refit(h.mem[p])]
        BY <2>3, <2>6 DEF Keep, Heap
      <3>2. h.mem \in [Addrs -> Block \cup {Null}]
        BY <2>3 DEF Heap
      <3>3. CASE r = p
        <4>1. mem'[r] = refit(h.mem[p])
          BY <2>3, <3>1, <3>2, <3>3
        <4> QED
          BY <2>3, <4>1 DEF Derived
      <3>4. CASE r # p
        BY <1>p, <2>3, <3>1, <3>2, <3>4
      <3> QED
        BY <3>3, <3>4
    <2>7. ASSUME Keep(h)
          PROVE  Derived(mem'[r])
      <3>1. mem' = h.mem
        BY <2>7 DEF Keep
      <3> QED
        BY ZenonT(60), <1>p, <2>3, <3>1 DEF Derived
    <2> QED
      BY <2>1, <2>5, <2>6, <2>7 DEF h
  <1>2. CASE tpreturn \/ free
    <2>1. Keep(heap) \/ \E p \in {data, own} \ {Null} : Keep(tpfree(heap, p))
      BY <1>2 DEF tpreturn, free
    <2>2. CASE Keep(heap)
      BY <1>0, <1>p, <2>2 DEF Keep
    <2>3. ASSUME NEW p \in {data, own} \ {Null}, Keep(tpfree(heap, p))
          PROVE  Derived(mem'[r])
      <3>1. p \in Addrs /\ mem[p] # Null
        BY <1>t DEF Typed, Pointer, SlotFollows
      <3>2. mem' = [mem EXCEPT ![p] = Null]
        BY <1>0, <2>3, <3>1, FreeHeap DEF Keep
      <3> QED
        BY <1>p, <1>t, <3>1, <3>2 DEF Typed
    <2> QED
      BY <2>1, <2>2, <2>3
  <1>3. CASE tpalloc
    <2>1. PICK p \in FreeAddrs, type \in Types, n \in Sizes :
            mem' = [mem EXCEPT ![p] = block(type, n, FALSE)]
      BY <1>3 DEF tpalloc
    <2>2. p \in Addrs
      BY DEF FreeAddrs
    <2>3. CASE r = p
      <3>1. mem'[r] = block(type, n, FALSE)
        BY <1>t, <2>1, <2>2, <2>3 DEF Typed
      <3> QED
        BY <3>1 DEF Derived
    <2>4. CASE r # p
      BY <1>p, <1>t, <2>1, <2>2, <2>4 DEF Typed
    <2> QED
      BY <2>3, <2>4
  <1>4. CASE resize
    <2>1. data # Null
      BY <1>4 DEF resize
    <2>2. PICK n \in Sizes, q \in {data} \cup FreeAddrs :
            /\ Shrinks \/ n >= larger(mem[data].size, mem[data].used)
            /\ Keep(tprealloc(heap, data, n, q))
      BY <1>4 DEF resize
    <2>3. data \in Addrs /\ mem[data] # Null /\ q \in Addrs /\ n \in Nat
      BY <2>1, RequestIs, TypedBuffersAssumption DEF FreeAddrs
    <2>4. mem' = [mem EXCEPT ![data] = Null, ![q] = Resized(Request, n)]
      BY <1>0, <2>2, <2>3, ReallocHeap DEF Keep, Request
    <2>5. CASE r = q
      <3>1. mem'[r] = Resized(Request, n)
        BY <1>t, <2>3, <2>4, <2>5 DEF Typed
      <3> QED
        BY <2>1, <2>2, <3>1 DEF Derived, Request
    <2>6. CASE r # q
      BY <1>p, <1>t, <2>3, <2>4, <2>6 DEF Typed
    <2> QED
      BY <2>5, <2>6
  <1>5. CASE tpcall
    <2>1. PICK m \in Msg, p \in {data, own} \ {Null} :
            \E q \in places(heap, p, m) : Keep(tpimport(heap, p, m, q))
      BY <1>5 DEF tpcall
    <2>2. PICK q \in places(heap, p, m) : Keep(tpimport(heap, p, m, q))
      BY <2>1
    <2>3. p \in Addrs /\ mem[p] # Null
      BY <1>t DEF Typed, Pointer, SlotFollows
    <2> DEFINE g == tpimport(heap, p, m, q)
    <2>4. /\ q \in Addrs
          /\ \A x \in Addrs : x # p /\ x # q => g.mem[x] = mem[x]
          /\ p # q => g.mem[p] = Null
          /\ \E b \in Block :
               /\ g.mem[q] = filled(b, m)
               /\ b.owned = mem[p].owned /\ b.size = mem[p].size
               /\ \/ b = mem[p] /\ ~grows(mem[p], m)
                  \/ /\ grows(mem[p], m)
                     /\ b.room >= TpMem + (TpMem - TypeOff) + m.len
      BY <1>0, <2>3, ImportHeap
    <2>5. Imported(g.mem[q], mem[p], m)
      BY <2>4 DEF Imported
    <2>6. mem' = g.mem
      BY <2>2 DEF Keep
    <2> HIDE DEF g
    <2>7. mem[p] \in Given
      BY <2>3 DEF Given, Present
    <2>8. CASE r = q
      BY <2>5, <2>6, <2>7, <2>8 DEF Derived
    <2>9. CASE r # q
      BY <1>p, <2>4, <2>6, <2>9
    <2> QED
      BY <2>8, <2>9
  <1>6. CASE put
    BY <1>6, <1>p DEF put
  <1>7. CASE mutate
    <2>1. need > 0 /\ data # Null
      BY <1>7, <1>t DEF mutate, Pointers
    <2>2. data \in Addrs /\ mem[data] # Null /\ Request \in Block
      BY <2>1, RequestIs
    <2>3. CASE /\ Request.used + need <= Request.cap
               /\ mem' = [mem EXCEPT ![data].used = @ + need]
      <3>1. CASE r = data
        <4>1. mem'[r] = [Request EXCEPT !.used = @ + need]
          BY <1>t, <2>2, <2>3, <3>1 DEF Typed, Request
        <4> QED
          BY <2>1, <2>3, <4>1 DEF Derived
      <3>2. CASE r # data
        BY <1>p, <1>t, <2>2, <2>3, <3>2 DEF Typed
      <3> QED
        BY <3>1, <3>2
    <2>4. ASSUME NEW q \in {data} \cup FreeAddrs,
                 Keep(tprealloc(heap, data, 2 * Request.cap, q))
          PROVE  Derived(mem'[r])
      <3> DEFINE n == 2 * Request.cap
      <3>1. n \in Nat /\ q \in Addrs /\ heap.mem[data] # Null
        BY <1>0, <2>2 DEF Block, FreeAddrs
      <3>2. Keep(tprealloc(heap, data, n, q))
        BY <2>4
      <3> HIDE DEF n
      <3>3. mem' = [mem EXCEPT ![data] = Null, ![q] = Resized(Request, n)]
        BY <1>0, <2>2, <3>1, <3>2, ReallocHeap DEF Keep, Request
      <3>4. CASE r = q
        <4>1. mem'[r] = Resized(Request, n)
          BY <1>t, <2>2, <3>1, <3>3, <3>4 DEF Typed
        <4> QED
          BY <2>1, <4>1 DEF Derived, n
      <3>5. CASE r # q
        BY <1>p, <1>t, <2>2, <3>1, <3>3, <3>5 DEF Typed
      <3> QED
        BY <3>4, <3>5
    <2> QED
      BY <1>7, <2>3, <2>4 DEF mutate, Request
  <1> QED
    BY <1>1, <1>2, <1>3, <1>4, <1>5, <1>6, <1>7 DEF Next

-----------------------------------------------------------------------------
(* The size of a block *)

\* No block is smaller than its header says, and an FML32 buffer does not
\* think itself smaller than that.
Roomy(b) ==
  /\ b.used <= b.room \/ b.lost
  /\ b.cap <= b.room /\ b.size <= b.room
  /\ b.type = "FML32" => b.size <= b.cap

RoomInv == PointerInv /\ \A b \in Present : Roomy(b)

LEMMA BlockFields ==
  ASSUME NEW type \in Types, NEW n \in Nat, NEW owned \in BOOLEAN
  PROVE  /\ block(type, n, owned).size = larger(n, default_size[type])
         /\ block(type, n, owned).lost = FALSE
         /\ block(type, n, owned).used \in {0, min_size}
         /\ Roomy(block(type, n, owned))
  <1> DEFINE size == larger(n, default_size[type])
  <1>1. size \in Nat /\ size >= default_size[type] /\ min_size \in Nat
    BY LargerType, TypedBuffersAssumption
  <1>2. type = "FML32" => size > min_size
    BY <1>1, TypedBuffersAssumption
  <1>3. /\ block(type, n, owned).size = size
        /\ block(type, n, owned).room = size
        /\ block(type, n, owned).lost = FALSE
        /\ block(type, n, owned).type = type
        /\ block(type, n, owned).used = IF type = "FML32" THEN min_size ELSE 0
        /\ block(type, n, owned).cap = IF type = "FML32" THEN size ELSE 0
    BY DEF block
  <1> HIDE DEF size
  <1>4. Roomy(block(type, n, owned))
    BY <1>1, <1>2, <1>3 DEF Roomy
  <1> QED
    BY <1>3, <1>4 DEF size

LEMMA RequestBlockIs ==
  /\ RequestBlock \in Block /\ RequestBlock.owned = TRUE /\ Roomy(RequestBlock)
  /\ RequestBlock.size = larger(ReqSize, default_size["STRING"])
  /\ RequestBlock.lost = FALSE /\ RequestBlock.used = 0
  <1>1. ReqSize \in Nat /\ "STRING" \in Types
    BY TypedBuffersAssumption DEF Types
  <1>2. RequestBlock.used = 0
    BY DEF RequestBlock, block
  <1> QED
    BY <1>1, <1>2, BlockType, BlockFields DEF RequestBlock

\* What is imported fits, and the header of an FML32 buffer gives no more than
\* there is.
LEMMA ImportedRoomy ==
  ASSUME NEW a \in Block, Roomy(a), NEW m \in Msg, NEW c, Imported(c, a, m)
  PROVE  /\ Roomy(c) /\ c.lost = FALSE /\ c.used = m.len
         /\ c.owned = a.owned /\ c.size = a.size
  <1>1. PICK b \in Block :
          /\ c = filled(b, m) /\ b.owned = a.owned /\ b.size = a.size
          /\ \/ b = a /\ ~grows(a, m)
             \/ grows(a, m) /\ b.room >= TpMem + (TpMem - TypeOff) + m.len
    BY DEF Imported
  <1>2. /\ c.owned = b.owned /\ c.type = m.type /\ c.used = m.len /\ c.room = b.room
        /\ c.size = b.size /\ c.lost = FALSE
        /\ c.cap = IF m.type = "FML32" THEN b.size ELSE 0
    BY <1>1, FilledBlock
  <1>3. /\ a.size \in Nat /\ a.room \in Nat /\ b.room \in Nat /\ m.len \in Nat
        /\ TpMem \in Nat /\ TypeOff \in Nat /\ TypeOff < TpMem
    BY TypedBuffersAssumption DEF Block, Msg
  <1>4. b.room >= m.len /\ b.room >= b.size
    BY <1>1, <1>3 DEF grows, Roomy
  <1> QED
    BY <1>1, <1>2, <1>3, <1>4 DEF Roomy

LEMMA ResizedRoomy ==
  ASSUME NEW b \in Block, NEW n \in Nat, n >= b.size
  PROVE  Roomy(Resized(b, n))
  <1>1. /\ Resized(b, n) \in Block
        /\ Resized(b, n).type = b.type
        /\ Resized(b, n).size = b.size
        /\ Resized(b, n).used = b.used
        /\ Resized(b, n).room >= n
        /\ Resized(b, n).cap = IF b.type = "FML32" THEN Resized(b, n).room ELSE 0
        /\ Resized(b, n).lost = (b.lost \/ b.used > Resized(b, n).room)
    BY ResizedBlock
  <1>2. b.used \in Nat /\ b.size \in Nat /\ Resized(b, n).room \in Nat
    BY <1>1 DEF Block
  <1>3. b.used <= Resized(b, n).room \/ Resized(b, n).lost
    <2>1. CASE b.used <= Resized(b, n).room
      BY <2>1
    <2>2. CASE b.used > Resized(b, n).room
      BY <1>1, <2>2
    <2> QED
      BY <1>2, <2>1, <2>2
  <1> QED
    BY <1>1, <1>2, <1>3 DEF Roomy

\* The blocks of a state are blocks.
LEMMA PresentBlocks == PointerInv => Present \subseteq Block
  BY DEF PointerInv, Typed, Present

LEMMA DerivedRoomy ==
  ASSUME RoomInv, ~Shrinks, NEW c, Derived(c)
  PROVE  Roomy(c)
  <1>1. \A a \in Given : a \in Block /\ Roomy(a)
    BY PresentBlocks, RequestBlockIs DEF RoomInv, Given
  <1>2. ASSUME need > 0
        PROVE  data # Null
    BY <1>2 DEF RoomInv, PointerInv, Pointers
  <1>3. ASSUME data # Null
        PROVE  /\ Request \in Block /\ Request \in Given
               /\ need > 0 => Request.type = "FML32"
               /\ Request.size \in Nat /\ Request.used \in Nat
               /\ Request.cap \in Nat /\ Request.room \in Nat
    BY <1>3, RequestIs DEF RoomInv, Given, Block
  <1>4. CASE c \in Given
    BY <1>1, <1>4
  <1>5. CASE \E type \in Types, n \in Sizes : c = block(type, n, FALSE)
    <2>1. PICK type \in Types, n \in Sizes : c = block(type, n, FALSE)
      BY <1>5
    <2>2. n \in Nat
      BY TypedBuffersAssumption
    <2> QED
      BY <2>1, <2>2, BlockFields
  <1>6. ASSUME NEW a \in Given, c = refit(a)
        PROVE  Roomy(c)
    <2>1. /\ c.cap = IF a.type = "FML32" THEN a.size ELSE 0
          /\ c.type = a.type /\ c.size = a.size /\ c.room = a.room /\ c.used = a.used
          /\ c.lost = a.lost
      BY <1>1, <1>6 DEF refit, Block
    <2>2. a.size \in Nat /\ a.room \in Nat
      BY <1>1 DEF Block
    <2>3. Roomy(a)
      BY <1>1
    <2> QED
      BY <2>1, <2>2, <2>3 DEF Roomy
  <1>7. ASSUME NEW a \in Given, NEW m \in Msg, Imported(c, a, m)
        PROVE  Roomy(c)
    BY <1>1, <1>7, ImportedRoomy
  <1>8. ASSUME NEW n \in Sizes, data # Null, c = Resized(Request, n),
               Shrinks \/ n >= larger(Request.size, Request.used)
        PROVE  Roomy(c)
    <2>1. n \in Nat
      BY TypedBuffersAssumption
    <2>2. n >= Request.size
      BY <1>3, <1>8, <2>1 DEF larger
    <2> QED
      BY <1>3, <1>8, <2>1, <2>2, ResizedRoomy
  <1>9. CASE need > 0 /\ c = Resized(Request, 2 * Request.cap)
    <2>1. Roomy(Request) /\ Request.type = "FML32" /\ Request.cap \in Nat
      BY <1>1, <1>2, <1>3, <1>9
    <2> DEFINE n == 2 * Request.cap
    <2>2. n \in Nat /\ n >= Request.size
      BY <1>2, <1>3, <1>9, <2>1 DEF Roomy
    <2>3. c = Resized(Request, n) /\ Request \in Block
      BY <1>2, <1>3, <1>9
    <2> HIDE DEF n
    <2> QED
      BY <2>2, <2>3, ResizedRoomy
  <1>10. CASE /\ need > 0 /\ Request.used + need <= Request.cap
              /\ c = [Request EXCEPT !.used = @ + need]
    <2>1. Roomy(Request) /\ Request \in Block /\ need \in Nat
      BY <1>1, <1>2, <1>3, <1>10 DEF RoomInv, PointerInv, Typed
    <2>2. /\ c.cap = Request.cap /\ c.type = Request.type /\ c.size = Request.size
          /\ c.room = Request.room /\ c.used = Request.used + need
      BY <1>10, <2>1 DEF Block
    <2>3. /\ Request.cap \in Nat /\ Request.used \in Nat /\ Request.room \in Nat
          /\ Request.used + need <= Request.cap
      BY <1>10, <2>1 DEF Block
    <2> QED
      BY <2>1, <2>2, <2>3 DEF Roomy
  <1> QED
    BY <1>4, <1>5, <1>6, <1>7, <1>8, <1>9, <1>10 DEF Derived

LEMMA NextRoomInv ==
  ASSUME ~Shrinks, RoomInv, [Next]_bvars
  PROVE  RoomInv'
  <1>1. PointerInv'
    BY NextPointerInv DEF RoomInv
  <1>2. CASE Next
    <2>1. ASSUME NEW r \in Addrs, mem'[r] # Null
          PROVE  Roomy(mem'[r])
      BY <1>2, <2>1, BlockStep, DerivedRoomy DEF RoomInv
    <2>2. \A b \in Present' : Roomy(b)
      BY <2>1 DEF Present
    <2> QED
      BY <1>1, <2>2 DEF RoomInv
  <1>3. CASE UNCHANGED bvars
    <2>1. Present' = Present
      BY <1>3 DEF bvars, Present
    <2> QED
      BY <1>1, <2>1 DEF RoomInv
  <1> QED
    BY <1>2, <1>3

LEMMA InitRoomInv == Init => RoomInv
  BY InitPointerInv DEF Init, RoomInv, Present

\* As long as no service makes a buffer smaller than it was allocated, nothing
\* imported or added to a buffer, and no size an FML32 header gives, reaches
\* beyond the block (tpimport and mutate), for every length of messages.
THEOREM NothingBeyondBlock == ~Shrinks => (Spec => []WithinBlock)
  <1> SUFFICES ASSUME ~Shrinks PROVE Spec => []WithinBlock
    OBVIOUS
  <1>1. RoomInv => WithinBlock
    BY DEF RoomInv, Present, Roomy, WithinBlock
  <1>2. RoomInv /\ [Next]_bvars => RoomInv'
    BY NextRoomInv
  <1> QED
    BY <1>1, <1>2, InitRoomInv, PTL DEF Spec

-----------------------------------------------------------------------------
(* What is sent is whole *)

\* The size of the buffer a server receives in.
Base == larger(ReqSize, default_size["STRING"])

\* What a request buffer holds is at most twice its size.
Moderate == \A n \in Lens \cup {MaxUsed} : n <= 2 * Base

Whole(b) == b.lost = FALSE /\ (b.owned => b.size = Base /\ b.used <= 2 * Base)

WholeInv ==
  /\ RoomInv
  /\ \A b \in Present : Whole(b)
  /\ need > 0 => Request.used + need <= MaxUsed
  /\ sent # "cut"

LEMMA DerivedWhole ==
  ASSUME WholeInv, ~Shrinks, Moderate, NEW c, Derived(c)
  PROVE  Whole(c)
  <1>b. Base \in Nat /\ Base >= 0
    <2>1. "STRING" \in Types
      BY DEF Types
    <2>2. ReqSize \in Nat /\ default_size["STRING"] \in Nat
      BY <2>1, TypedBuffersAssumption
    <2>3. Base \in Nat
      BY <2>2, LargerType, Zenon DEF Base
    <2> QED
      BY <2>3
  <1>1. \A a \in Given : a \in Block /\ Roomy(a) /\ Whole(a)
    <2>1. Whole(RequestBlock)
      BY <1>b, RequestBlockIs DEF Whole, Base
    <2> QED
      BY <2>1, PresentBlocks, RequestBlockIs DEF WholeInv, RoomInv, Given
  <1>2. ASSUME need > 0
        PROVE  data # Null
    BY <1>2 DEF WholeInv, RoomInv, PointerInv, Pointers
  <1>3. ASSUME data # Null
        PROVE  /\ Request \in Block /\ Request \in Given /\ Request.owned
               /\ need > 0 => Request.type = "FML32"
               /\ Request.size \in Nat /\ Request.used \in Nat
               /\ Request.cap \in Nat /\ Request.room \in Nat
    BY <1>3, RequestIs DEF WholeInv, RoomInv, Given, Block
  <1>4. CASE c \in Given
    BY <1>1, <1>4
  <1>5. CASE \E type \in Types, n \in Sizes : c = block(type, n, FALSE)
    <2>1. PICK type \in Types, n \in Sizes : c = block(type, n, FALSE)
      BY <1>5
    <2>2. n \in Nat
      BY TypedBuffersAssumption
    <2>3. c.lost = FALSE /\ c.owned = FALSE
      BY <2>1, <2>2, BlockFields, BlockType
    <2> QED
      BY <2>3 DEF Whole
  <1>6. ASSUME NEW a \in Given, c = refit(a)
        PROVE  Whole(c)
    <2>1. /\ c.owned = a.owned /\ c.size = a.size /\ c.used = a.used /\ c.lost = a.lost
      BY <1>1, <1>6 DEF refit, Block
    <2>2. Whole(a)
      BY <1>1
    <2> QED
      BY <2>1, <2>2 DEF Whole
  <1>7. ASSUME NEW a \in Given, NEW m \in Msg, Imported(c, a, m)
        PROVE  Whole(c)
    <2>1. c.lost = FALSE /\ c.used = m.len /\ c.owned = a.owned /\ c.size = a.size
      BY <1>1, <1>7, ImportedRoomy
    <2>2. m.len <= 2 * Base
      BY DEF Msg, Moderate
    <2>3. Whole(a)
      BY <1>1
    <2> QED
      BY <2>1, <2>2, <2>3 DEF Whole
  <1>8. ASSUME NEW n \in Nat, data # Null, c = Resized(Request, n), n >= Request.used
        PROVE  Whole(c)
    <2>1. /\ c \in Block /\ c.owned = Request.owned /\ c.size = Request.size
          /\ c.used = Request.used /\ c.room >= n
          /\ c.lost = (Request.lost \/ Request.used > c.room)
      BY ZenonT(60), <1>3, <1>8, ResizedBlock
    <2>2. Whole(Request) /\ c.room \in Nat /\ Request.used \in Nat
      BY <1>1, <1>3, <1>8, <2>1 DEF Block
    <2>3. ~(Request.used > c.room)
      BY <1>8, <2>1, <2>2
    <2> QED
      BY <2>1, <2>2, <2>3 DEF Whole
  <1>9. ASSUME NEW n \in Sizes, data # Null, c = Resized(Request, n),
               Shrinks \/ n >= larger(Request.size, Request.used)
        PROVE  Whole(c)
    <2>1. n \in Nat
      BY TypedBuffersAssumption
    <2>2. n >= Request.used
      BY <1>3, <1>9, <2>1 DEF larger
    <2> QED
      BY <1>8, <1>9, <2>1, <2>2
  <1>10. CASE need > 0 /\ c = Resized(Request, 2 * Request.cap)
    <2>1. /\ Roomy(Request) /\ Whole(Request) /\ Request.type = "FML32"
          /\ Request.cap \in Nat /\ Request.owned /\ Request.used \in Nat
          /\ Request.size \in Nat /\ data # Null
      BY <1>1, <1>2, <1>3, <1>10
    <2> DEFINE n == 2 * Request.cap
    <2>2. n \in Nat /\ n >= Request.used
      BY <2>1, <1>b DEF Roomy, Whole
    <2>3. c = Resized(Request, n)
      BY <1>10
    <2> HIDE DEF n
    <2> QED
      BY <1>8, <2>1, <2>2, <2>3
  <1>11. CASE /\ need > 0 /\ Request.used + need <= Request.cap
              /\ c = [Request EXCEPT !.used = @ + need]
    <2>1. Whole(Request) /\ Request \in Block /\ need \in Nat
      BY <1>1, <1>2, <1>3, <1>11 DEF WholeInv, RoomInv, PointerInv, Typed
    <2>2. /\ c.lost = Request.lost /\ c.owned = Request.owned /\ c.size = Request.size
          /\ c.used = Request.used + need
      BY <1>11, <2>1 DEF Block
    <2>3. Request.used + need <= MaxUsed /\ Request.used + need \in Nat
      BY <1>11, <2>1 DEF WholeInv, Block
    <2>4. MaxUsed \in Nat /\ MaxUsed <= 2 * Base
      BY TypedBuffersAssumption DEF Moderate
    <2>5. c.used <= 2 * Base
      BY <1>b, <2>2, <2>3, <2>4
    <2> QED
      BY <2>1, <2>2, <2>5 DEF Whole
  <1> QED
    BY <1>4, <1>5, <1>6, <1>7, <1>9, <1>10, <1>11 DEF Derived

LEMMA NextWholeInv ==
  ASSUME ~Shrinks, Moderate, WholeInv, [Next]_bvars
  PROVE  WholeInv'
  <1>1. RoomInv'
    BY NextRoomInv DEF WholeInv
  <1>p. PointerInv
    BY DEF WholeInv, RoomInv
  <1>2. CASE Next
    <2>1. ASSUME NEW r \in Addrs, mem'[r] # Null
          PROVE  Whole(mem'[r])
      BY <1>2, <1>p, <2>1, BlockStep, DerivedWhole
    <2>2. \A b \in Present' : Whole(b)
      BY <2>1 DEF Present
    <2>3. sent' # "cut"
      <3>1. CASE tpreturn
        <4>1. PICK p \in {data, own, Null} :
                sent' = IF p = Null THEN "void" ELSE exported(mem[p])
          BY <3>1 DEF tpreturn
        <4>2. CASE p = Null
          BY <4>1, <4>2
        <4>3. CASE p # Null
          <5>1. p \in Addrs /\ mem[p] # Null
            BY <1>p, <4>3 DEF PointerInv, Typed, Pointer, SlotFollows
          <5>2. Whole(mem[p])
            BY <5>1 DEF WholeInv, Present
          <5> QED
            BY <4>1, <4>3, <5>2 DEF exported, Whole
        <4> QED
          BY <4>2, <4>3
      <3>2. CASE ~tpreturn
        BY <1>2, <3>2 DEF Next, receive, tpalloc, resize, free, tpcall, put, mutate,
                          Running, WholeInv
      <3> QED
        BY <3>1, <3>2
    <2>4. (need > 0 => Request.used + need <= MaxUsed)'
      <3>1. CASE put
        BY <3>1 DEF put, Request
      <3>2. CASE mutate
        <4>1. need > 0 /\ data # Null
          BY <1>p, <3>2 DEF mutate, PointerInv, Pointers
        <4>2. CASE need' = 0
          BY <4>2
        <4>3. ASSUME NEW q \in {data} \cup FreeAddrs,
                     Keep(tprealloc(heap, data, 2 * Request.cap, q)), data' = q,
                     UNCHANGED need
              PROVE  (need > 0 => Request.used + need <= MaxUsed)'
          <5> DEFINE n == 2 * Request.cap
          <5>1. /\ n \in Nat /\ q \in Addrs /\ data \in Addrs /\ Request \in Block
                /\ heap \in Heap /\ heap.mem = mem /\ mem[data] # Null
            BY <1>p, <4>1, RequestIs, HeapFollows DEF Block, FreeAddrs
          <5>2. Keep(tprealloc(heap, data, n, q))
            BY <4>3
          <5> HIDE DEF n
          <5>3. mem' = [mem EXCEPT ![data] = Null, ![q] = Resized(Request, n)]
            BY <5>1, <5>2, ReallocHeap DEF Keep, Request
          <5>4. mem'[q] = Resized(Request, n)
            BY <1>p, <5>1, <5>3 DEF PointerInv, Typed
          <5>5. Request'.used = Request.used
            BY <4>3, <5>1, <5>4, ResizedBlock DEF Request
          <5> QED
            BY <4>3, <5>5 DEF WholeInv
        <4> QED
          BY <3>2, <4>2, <4>3 DEF mutate, Request
      <3>3. CASE ~put /\ ~mutate
        <4>1. need' = 0
          <5>1. need = 0 \/ phase = "idle"
            BY <1>2, <3>3 DEF Next, receive, tpreturn, tpalloc, resize, free, tpcall,
                              Running
          <5>2. need = 0
            BY <1>p, <5>1 DEF PointerInv, Pointers, Typed
          <5> QED
            BY <1>2, <3>3, <5>2 DEF Next, receive, tpreturn, tpalloc, resize, free, tpcall
        <4> QED
          BY <4>1
      <3> QED
        BY <3>1, <3>2, <3>3
    <2> QED
      BY <1>1, <2>2, <2>3, <2>4 DEF WholeInv
  <1>3. CASE UNCHANGED bvars
    <2>1. Present' = Present /\ Request' = Request /\ need' = need /\ sent' = sent
      BY <1>3 DEF bvars, Present, Request
    <2> QED
      BY <1>1, <2>1 DEF WholeInv
  <1> QED
    BY <1>2, <1>3

LEMMA InitWholeInv == Init => WholeInv
  BY InitRoomInv DEF Init, WholeInv, Present

\* As long as no buffer is made smaller and what a request buffer holds is at
\* most twice what the server has allocated for it, no part of a message a
\* service returns was cut off while it added fields (fml32ptr::mutate).
THEOREM NothingIsLost == ~Shrinks /\ Moderate => (Spec => []NothingLost)
  <1> SUFFICES ASSUME ~Shrinks, Moderate PROVE Spec => []NothingLost
    OBVIOUS
  <1>1. WholeInv => NothingLost
    BY DEF WholeInv, NothingLost
  <1>2. WholeInv /\ [Next]_bvars => WholeInv'
    BY NextWholeInv
  <1> QED
    BY <1>1, <1>2, InitWholeInv, PTL DEF Spec
=============================================================================
