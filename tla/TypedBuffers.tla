---------------------------- MODULE TypedBuffers ----------------------------
(***************************************************************************)
(* Typed buffers (src/src/mem.cpp) as the dispatch loop of a server uses   *)
(* them for the data of its messages (server_thread of src/src/server.cpp, *)
(* msg::set_data and get_data of src/src/ipc.cpp) and a service through    *)
(* fml32ptr (src/src/fux.h).                                               *)
(*                                                                         *)
(* A buffer is a malloc'ed block with a header that holds its type and the *)
(* size it was asked for.  The block a server thread receives requests in  *)
(* knows the address of the pointer to it, its owner, so that a service    *)
(* that moves or frees the block does not leave the server with a stale    *)
(* pointer.  Only lengths are kept of the data.                            *)
(***************************************************************************)
EXTENDS Integers, FiniteSets

CONSTANTS
  Addrs,         \* addresses malloc returns
  Null,
  TpMem,         \* sizeof(tpmem)
  TypeOff,       \* offsetof(tpmem, type)
  min_size,      \* of the header of an FML32 buffer
  default_size,  \* type -> smallest size of a buffer
  ReqSize,       \* size of the buffer a server thread receives in
  Sizes,         \* sizes a service asks for
  Lens,          \* lengths of data other processes send
  MaxUsed,       \* bound: data in a buffer
  Shrinks,       \* a service makes a buffer smaller than it was allocated
  VoidAfterData  \* a request without data follows one with data

Types == {"STRING", "CARRAY", "FML32"}

\* A block: the header with the size it was allocated with, the room it now
\* has, and of its data how much there is, what an FML32 header gives as its
\* size, and whether some of it was cut off.
Block == [type : Types, size : Nat, room : Nat, owned : BOOLEAN, lost : BOOLEAN,
          used : Nat, cap : Nat]

ASSUME TypedBuffersAssumption ==
  /\ default_size \in [Types -> Nat] /\ default_size["FML32"] > min_size
  /\ {TpMem, TypeOff, min_size, ReqSize, MaxUsed} \cup Sizes \cup Lens \subseteq Nat
  /\ TypeOff < TpMem /\ {Shrinks, VoidAfterData} \subseteq BOOLEAN
  /\ Null \notin Addrs /\ Null \notin Types /\ Null \notin Block

VARIABLES mem,      \* address -> block, or Null when it is free
          atmibuf,  \* server_thread::atmibuf, the pointer of the server
          data,     \* the pointer of the service to its request
          own,      \* a buffer the service has allocated
          need,     \* what fml32ptr::mutate wants to add, 0 when it is not at work
          left,     \* type left in the bytes of the message from an earlier one
          sent,     \* the last reply: "void", without data, "whole" or "cut"
          phase     \* "idle" in the dispatch loop, "service", or "dead"

bvars == <<mem, atmibuf, data, own, need, left, sent, phase>>

larger(m, n) == IF m >= n THEN m ELSE n
FreeAddrs == {p \in Addrs : mem[p] = Null}

\* What follows the type in a message: mem.cpp copies from the type on.
Msg == [type : Types, len : Lens]
Valid(m) == m.type = "FML32" => m.len >= min_size

-----------------------------------------------------------------------------
(* mem.cpp.  A heap is [mem, slot]: the blocks and the server's pointer.   *)

heap == [mem |-> mem, slot |-> atmibuf]

\* A new block.  The data of an FML32 buffer starts with its own header.
block(type, n, owned) ==
  LET size == larger(n, default_size[type])
      fml  == type = "FML32"
  IN [type |-> type, size |-> size, room |-> size, owned |-> owned, lost |-> FALSE,
      used |-> IF fml THEN min_size ELSE 0, cap |-> IF fml THEN size ELSE 0]

\* Mutant: the owner is not told that the block has moved.
tprealloc_owner(h, p, n, q) ==
  LET room == larger(n, default_size[h.mem[p].type])
  IN [h EXCEPT !.mem[p] = Null,
               !.mem[q] = [h.mem[p] EXCEPT !.room = room,
                             !.cap = IF h.mem[p].type = "FML32" THEN room ELSE 0,
                             !.lost = @ \/ h.mem[p].used > room]]

\* realloc of the block at p, which ends up at q.  mem->size stays what it was.
\* Data beyond the new end is lost.
tprealloc(h, p, n, q) ==
  LET b    == h.mem[p]
      room == larger(n, default_size[b.type])
  IN [mem  |-> [h.mem EXCEPT ![p] = Null,
                  ![q] = [b EXCEPT !.room = room,
                                   !.cap = IF b.type = "FML32" THEN room ELSE 0,
                                   !.lost = @ \/ b.used > room]],
      slot |-> IF b.owned /\ h.slot = p THEN q ELSE h.slot]

tpfree(h, p) ==
  [mem  |-> [h.mem EXCEPT ![p] = Null],
   slot |-> IF h.mem[p].owned /\ h.slot = p THEN Null ELSE h.slot]

\* Mutant: the length of the data is compared with the size of the block.
grows_block(b, m) == m.len > b.size + TpMem

\* The sizes compared are those of the block with its header and of the data
\* without: a message may need tprealloc although it fits.
grows(b, m) == TpMem + (TpMem - TypeOff) + m.len > b.size

\* Mutant: the size in the FML32 header is left at that of an empty buffer.
refit_empty(b) == [b EXCEPT !.cap = IF b.type = "FML32" THEN min_size ELSE 0]

\* type, subtype and data are overwritten; the FML32 header gets the size the
\* block was allocated with, whatever its size now is.
refit(b) == [b EXCEPT !.cap = IF b.type = "FML32" THEN b.size ELSE 0]
filled(b, m) == refit([b EXCEPT !.type = m.type, !.used = m.len, !.lost = FALSE])

tpimport(h, p, m, q) ==
  LET g == IF grows(h.mem[p], m)
             THEN tprealloc(h, p, TpMem + (TpMem - TypeOff) + m.len, q) ELSE h
  IN [g EXCEPT !.mem[q] = filled(@, m)]

\* Where the block may be after an import: in place unless it has to grow.
places(h, p, m) == IF grows(h.mem[p], m) THEN {p} \cup {q \in Addrs : h.mem[q] = Null}
                   ELSE {p}

Keep(h) == mem' = h.mem /\ atmibuf' = h.slot

-----------------------------------------------------------------------------
(* The dispatch loop *)

prepare(h, p) ==
  IF h.slot = Null THEN [mem |-> [h.mem EXCEPT ![p] = block("STRING", ReqSize, TRUE)], slot |-> p]
  ELSE h

\* A request is received and its data imported.  Without data the length is 0,
\* which makes tpimport take what is left in the message for a base64 string:
\* there is none after a message that was as short, and the name of a type is
\* not of a length that a base64 string has.
receive ==
  /\ phase = "idle"
  /\ \E p \in IF atmibuf = Null THEN FreeAddrs ELSE {atmibuf} :
       LET h == prepare(heap, p)
       IN \/ \E m \in Msg : Valid(m) /\ \E q \in places(h, p, m) :
               /\ Keep(tpimport(h, p, m, q)) /\ data' = q
               /\ left' = m.type /\ phase' = "service"
          \/ /\ left = Null
             /\ Keep([h EXCEPT !.mem[p] = refit(@)])
             /\ data' = p /\ phase' = "service" /\ UNCHANGED left
          \/ /\ left # Null /\ VoidAfterData
             /\ Keep(h) /\ phase' = "dead" /\ UNCHANGED <<data, left>>
  /\ UNCHANGED <<own, need, sent>>

\* msg::set_data: the message is as long as the data in use.
exported(b) == IF b.lost THEN "cut" ELSE "whole"

\* server_thread::reply: the data is exported, then freed unless it is the
\* buffer of the server.
tpreturn ==
  /\ phase = "service" /\ need = 0
  /\ \E p \in {data, own, Null} :
       /\ own \in {Null, p}
       /\ sent' = IF p = Null THEN "void" ELSE exported(mem[p])
       /\ IF p # Null /\ p # atmibuf THEN Keep(tpfree(heap, p)) ELSE Keep(heap)
  /\ data' = Null /\ own' = Null /\ phase' = "idle"
  /\ UNCHANGED <<need, left>>

-----------------------------------------------------------------------------
(* What a service does with its buffers *)

Running == phase = "service" /\ need = 0 /\ UNCHANGED <<left, sent, phase>>

tpalloc ==
  /\ Running /\ own = Null /\ UNCHANGED <<data, need, atmibuf>>
  /\ \E p \in FreeAddrs, type \in Types, n \in Sizes :
       mem' = [mem EXCEPT ![p] = block(type, n, FALSE)] /\ own' = p

resize ==
  /\ Running /\ data # Null /\ UNCHANGED <<own, need>>
  /\ \E n \in Sizes, q \in {data} \cup FreeAddrs :
       /\ Shrinks \/ n >= larger(mem[data].size, mem[data].used)
       /\ Keep(tprealloc(heap, data, n, q)) /\ data' = q

free ==
  /\ Running /\ UNCHANGED need
  /\ \/ data # Null /\ Keep(tpfree(heap, data)) /\ data' = Null /\ UNCHANGED own
     \/ own # Null /\ Keep(tpfree(heap, own)) /\ own' = Null /\ UNCHANGED data

\* tpcall with the buffer as both input and output: the reply is imported.
tpcall ==
  /\ Running /\ UNCHANGED need
  /\ \E m \in Msg : Valid(m) /\
       \/ /\ data # Null /\ UNCHANGED own
          /\ \E q \in places(heap, data, m) :
               Keep(tpimport(heap, data, m, q)) /\ data' = q
       \/ /\ own # Null /\ UNCHANGED data
          /\ \E q \in places(heap, own, m) :
               Keep(tpimport(heap, own, m, q)) /\ own' = q

\* fml32buf::put on the request: it is tried until there is space.
put ==
  /\ Running /\ data # Null /\ mem[data].type = "FML32"
  /\ \E k \in 1..2 : mem[data].used + k <= MaxUsed /\ need' = k
  /\ UNCHANGED <<mem, atmibuf, data, own>>

\* Mutant: the buffer is made as large as it has to be, without its header.
mutate_need ==
  /\ phase = "service" /\ need > 0
  /\ LET b == mem[data]
     IN \/ /\ b.used + need <= b.cap
           /\ mem' = [mem EXCEPT ![data].used = @ + need] /\ need' = 0
           /\ UNCHANGED <<atmibuf, data>>
        \/ /\ b.used + need > b.cap
           /\ Keep(tprealloc(heap, data, b.used - min_size + need, data))
           /\ UNCHANGED <<need, data>>
  /\ UNCHANGED <<own, left, sent, phase>>

mutate ==
  /\ phase = "service" /\ need > 0
  /\ LET b == mem[data]
     IN \/ /\ b.used + need <= b.cap
           /\ mem' = [mem EXCEPT ![data].used = @ + need] /\ need' = 0
           /\ UNCHANGED <<atmibuf, data>>
        \/ /\ b.used + need > b.cap
           /\ \E q \in {data} \cup FreeAddrs :
                Keep(tprealloc(heap, data, 2 * b.cap, q)) /\ data' = q
           /\ UNCHANGED need
  /\ UNCHANGED <<own, left, sent, phase>>

Init ==
  /\ mem = [p \in Addrs |-> Null] /\ atmibuf = Null /\ data = Null /\ own = Null
  /\ need = 0 /\ left = Null /\ sent = "void" /\ phase = "idle"

Next == \/ receive \/ tpreturn \/ tpalloc \/ resize \/ free \/ tpcall \/ put \/ mutate

Spec == Init /\ [][Next]_bvars /\ WF_bvars(mutate)

-----------------------------------------------------------------------------
(* Properties *)

\* Whatever a service does with the buffer of its request, the pointer of the
\* server is null or points to the block that knows it as its owner, and a
\* pointer of the service never to a block that was freed (mem.cpp:116, 134).
SlotFollows ==
  /\ \A p \in Addrs : mem[p] # Null /\ mem[p].owned => atmibuf = p
  /\ atmibuf # Null => mem[atmibuf] # Null /\ mem[atmibuf].owned
  /\ \A p \in {data, own} \ {Null} : mem[p] # Null

\* As long as no service makes a buffer smaller than it was allocated (Shrinks is
\* FALSE), what is imported or added to a buffer, and the space an FML32 buffer
\* thinks it has, never reaches beyond the block (mem.cpp:190, 210).  After a
\* tprealloc to less it does: the header of the FML32 buffer keeps the old size.
WithinBlock ==
  \A p \in Addrs : mem[p] # Null =>
     (mem[p].used <= mem[p].room \/ mem[p].lost) /\ mem[p].cap <= mem[p].room

\* No part of a message a service passes on was lost while it added fields.
NothingLost == sent # "cut"

\* fml32ptr::mutate comes to an end.
PutReturns == [](need > 0 => <>(need = 0))

\* A server survives every message.
Survives == phase # "dead"
=============================================================================
