# Fuxedo: a TLA+ model of the ATMI run time

Fuxedo is an implementation of the X/Open ATMI, TX and FML32 interfaces on
System V IPC.  Client and server processes of a domain share one memory segment
(the management information base, MIB, "bulletin board") and exchange messages
over System V message queues; there is no daemon in the message path.  This
directory holds TLA+ models of its run time, the TLC runs that check them and
the TLAPS proofs about them.  Paths are relative to the repository; line
numbers are those of `src/src/`.

## Inventory

| Component | State | Operations | Talks to |
|---|---|---|---|
| Call descriptors and replies (`resp.h`, `client.cpp`) | `calls_` (descriptor -> pending or buffered reply), `seq_`, the reply queue `rpid`, `accesser::rpid_timeout` | `tpacall`, `tpgetrply`, `tpcall`, `tpcancel`, `tpsblktime`, `tpgblktime` | request queues of servers, own reply queue, the watchdog through shared memory |
| Service cache (`svcrepo.h`) | routes, round-robin position and revision per service | `get_queue` | the advertisement table of the MIB |
| Bulletin board (`mib.cpp`, `mibtypes.h`) | fixed-size tables of machines, groups, servers, queues, services, advertisements, accessers, transactions; one semaphore `data_lock` | `make_*`, `find_*`, `advertise`, `unadvertise`, `collect`, `remove` | every process maps it |
| Server run time (`server.cpp`) | advertised services, the dispatch mutex, `stop`, the priority threshold `mtype_`, per thread the current request and call context | `_tmstartserver`, `dispatch`, `tpadvertise`, `tpunadvertise`, `tpforward`, `tpreturn` | request queue (shared by the servers of an MSSQ set), reply queues, MIB, TX |
| Watchdog (`BBL.cpp`) | none of its own | `handle_blocktime`, `monitor_servers`, `monitor_clients` once a second | accesser and server tables, reply queues |
| Transactions (`tx.cpp`, `trx.h`, `trx.cpp`) | the transaction table in shared memory, per-thread TX state, XA resource managers | `tx_begin`, `tx_commit`, `tx_rollback`, `tx_suspend`, `tx_resume`, the TMS service | TMS servers by `tpacall`, XA switch |
| Message queues (`ipc.cpp`) | kernel queues, files for large messages | `qsend`, `qrecv`, `qcreate`, `qdelete`, `seminit`, `semlock` | kernel |
| Boot and shutdown (`tmboot.cpp`, `tmshutdown.cpp`, `tmipcrm.cpp`) | server table | start, `.stop` requests, removal of IPC | MIB, server queues |
| Configuration (`ubb2mib.cpp`, `ubbreader.h`, `tmloadcf.cpp`) | none | parse, load into MIB | MIB |
| Administration (`tpadmcall.cpp`, `tmadmin.cpp`) | none | queries of MIB, an update without callers | MIB |
| Typed buffers (`mem.cpp`, `fux.h`, `base64.cpp`) | blocks with type, size and owner, the buffer of each server thread | `tpalloc`, `tprealloc`, `tpfree`, `tpexport`, `tpimport`, `fml32ptr::mutate` | messages, the server's dispatch loop |
| FML32 (`fbfr32.h`, `fml32.cpp`, `extreader.h`) | packed fields, their length and an offset per type | `Fchg32`, `Fdel32`, `Fjoin32`, ... , text and file forms | none |
| Boolean expressions (`expr.cpp`) | none; the conversion buffer of `Ftypcvt32` | `Fboolco32`, `Fboolpr32`, `Fboolev32` | FML32 |
| Tools (`build*.cpp`, `mkfldhdr32.cpp`, `viewc32.cpp`, `ud32.cpp`) | none | code generation, a driver | none |

### What is hard in this system

* **Two processes and one table.**  The bulletin board is plain shared memory.
  Some operations take `data_lock` (`tpadvertise`, the refresh of a cache,
  `tpinit`), others do not (`tpunadvertise`, `tx_begin`, the watchdog).
* **Answers out of order.**  One reply queue per thread takes the replies to all
  its calls and the watchdog's time-out messages; a reply can come after its
  call was cancelled, timed out or, once descriptors wrap around, reused.
* **Blocking calls without a time limit.**  `msgrcv` has no time-out: a thread in
  `tpgetrply` depends on the watchdog, a dispatch thread in `msgrcv` (which
  holds the mutex of its server) on the next message.
* **Processes that die.**  Servers and clients are killed at any point; the
  watchdog and `tmboot` clean up after them in unlocked tables, while new ones
  start.  Nothing but `SEM_UNDO` undoes what a dead process has begun.
* **Bytes behind typed pointers.**  Buffers move when they grow, headers repeat
  sizes that can be stale, and packed fields are addressed through offsets that
  every operation has to keep right.
* **Failure in the middle.**  Exceptions leave `qsend` and `qrecv`; a server dies
  with a request; a TM cannot be called in the middle of a commit; `xa_end` or
  `xa_start` fails after the context has already been changed.

### What makes each component correct

| Component | Properties |
|---|---|
| Calls | no reply is handed out twice, lost or given to the wrong call; a pending call keeps its descriptor; `tpgetrply` returns; calls block for as long as they were told, neither much longer nor less |
| Service cache | the table agrees with what servers believe they advertise; a cache current by revision is correct; no route is put together from two generations of a slot; the round robin reaches every queue |
| Dispatch | an awaited request is in one place until it is answered; `.stop` ends the server it names and no other; no request starves behind others of a lower type |
| Transactions | no branch commits unless all groups voted for it; nothing is left behind; the TX state says what the resource manager does; commit returns |
| Life of a domain | no request meets two processes of one server; one queue per `RQADDR`; every queue can be found for removal; a live client keeps its entry and queue; commands end |
| FML32 | offsets, length and order stay right, look-ups find what is there, and each operation does to the occurrences of the fields what the interface promises |
| Typed buffers | pointers follow blocks that move; nothing is written past a block; no data is lost on the way through a service; adding a field ends |
| Expressions | the compiled tree is that of the grammar, printing keeps it, evaluation gives the value of the expression |

The hazards in `PROJECT.json` name the lines where these can go wrong.

## Modules

| Module | Models | Checked by |
|---|---|---|
| `Calls` | `resp.h`, `client.cpp`, `ipc.cpp` (reply queue), `BBL.cpp` (`handle_blocktime`) | `MCCalls` |
| `CallsProofs` | theorems about `Calls` | `tlapm` |
| `Blocktime` | the block times and the waits of `client.cpp`, `msgsnd_timed` of `ipc.cpp`, `handle_blocktime` against the clock | `MCBlocktime` |
| `BlocktimeProofs` | theorems about `Blocktime` | `tlapm` |
| `ServiceCache` | `svcrepo.h`, `advertise` and `unadvertise` of `mib.cpp`, `tpadvertisex` and `tpunadvertise` of `server.cpp` | `MCServiceCache` |
| `ServiceCacheProofs` | theorems about `ServiceCache` | `tlapm` |
| `Dispatch` | `dispatch`, `tpreturn`, `tpforward` of `server.cpp`, the messages of `tmshutdown.cpp` | `MCDispatch` with `MCDispatch.cfg`, `MCDispatchThreads.cfg`, `MCDispatchStop.cfg` |
| `DispatchProofs` | theorems about `Dispatch` | `tlapm` |
| `Domain` | `mib::mib`, `getmib`, the server, queue and accesser tables of `mib.cpp`, `tmboot.cpp`, `tmshutdown.cpp`, `tmipcrm.cpp`, the start of a server, `tpinit` and `tpterm`, the watchdog of `BBL.cpp` | `MCDomain` |
| `DomainProofs` | theorems about `Domain` | `tlapm` |
| `Tx` | `tx.cpp`, `trx.h`, the suspend and resume of `trx.cpp` and `client.cpp` | `MCTx` with `MCTx.cfg`, `MCTxSignals.cfg` |
| `TxProofs` | theorems about `Tx` | `tlapm` |
| `FieldedBuffers` | what the FML32 interface promises, without bytes | refined by `Fml32` |
| `Fml32` | `fbfr32.h` and the operations of `fml32.cpp` that change buffers | `MCFml32` |
| `Fml32Proofs` | theorems about `Fml32` | `tlapm` |
| `TypedBuffers` | `mem.cpp`, the use of buffers in `server.cpp`, `ipc.cpp` and `fux.h` | `MCTypedBuffers` |
| `TypedBuffersProofs` | theorems about `TypedBuffers` | `tlapm` |
| `Expr` | `expr.cpp` and the parser under it | `MCExpr` |

Definitions keep the names of the functions they model; `PROJECT.json` gives the
lines of each.  A definition that follows a comment "Mutant:" is a plausible
mistake in the definition after it; it is used by no specification and serves to
show that the property named with it in `PROJECT.json` notices the mistake.

### Calls

One thread, its descriptor table and reply queue, the servers as a set of
requests each answered once or lost, and the watchdog.  `tpgetrply` is three
steps, since other processes act in between: the call up to `qrecv` (`tpgetrply`,
which returns at once when the reply is buffered), the receive (`qrecv`, or
`qrecv_throws` when `msgrcv` is interrupted), and what is done with the message
(`received`: `timed_out`, `not_mine`, `mine`).  The watchdog reads the time-out
(`handle_blocktime`) and sends its message (`send_unblock`) in two steps.
A call is numbered, so that the model can tell two calls with one descriptor
apart where the program cannot.  Time is abstracted to a wait that has expired
or has not.

### Blocktime

The same thread against the clock, without the identity of calls: what matters of
a reply is whether it is the one waited for, which is open while other calls are
unanswered.  Timers hold the time that is left and `tick` counts them down, when no
process has to run first: attempts to send and the reading of a message take no
time, the watchdog scans when its sleep is over, and may take up to `Delay` between
reading a time-out and sending its message.  So a behaviour has no end, and `elapsed`
measures each call exactly.  `tpacall` tries (`msgsnd_timed`), sleeps (`nanosleep`) and
tries again, or gives up; as a part of `tpcall` it goes on to wait.

### ServiceCache

The stores of `tpunadvertise` and the loads of `refresh` are steps of their own;
`tpadvertise` holds `data_lock` from the first check to the last store, and its
stores are one step, except for the increment of the revision, which races with
the unlocked one of `tpunadvertise`.  That is sound because whoever reads the
table under the lock cannot see the middle of it, and `tpunadvertise` touches no
slot that `tpadvertise` fills.  The unlocked read of the revision in `refresh` is
a step of its own.

### Dispatch

A request moves between the queue and the threads' hands.  `msgrcv` with a
negative type returns the first message of the lowest type up to a limit, with
type 0 the first message; `mtype` chooses, and after a `.stop` the limit drops
below the type of that message.  The end iterator of the map of services is
called when the service is not there; the process ends, and with it the requests
in its threads' hands.

### Domain

Every process of a domain and the tables they share.  A process attaches
(`shmget`, then `init_memory` or `spin`), loads the configuration when it finds
the server table empty (`ubb2mib` and `make_server`, two steps for each server,
because nothing locks the table in between), and goes on as what it is: a
command of the operator, a server or a client.  `tmboot` forks (`start`) and waits
for each server (`wait`); a server tests for its queue, creates it and stores its id
in three steps (`rqaddr`, `qcreate`, `msqid_store`), advertises under `data_lock` and
becomes active.  A client takes an entry, creates its reply queue and stores its id
under `data_lock` (`make_accesser`, `rpid`, `rpid_store`).  A process killed between
the creation and the store leaves a queue that no table names; `missed` remembers
such queues.

The watchdog, which runs inside the BBL, clears entries of the dead without the
lock, in two steps each (`monitor_servers` and `clear_server`, `monitor_clients` and
`clean_client`), sends messages to who waits too long (`handle_blocktime`), and ends
with the BBL.  `tmshutdown` sends each server a `.stop` message and waits (`reply`)
for its answer (`stop`, `inactive`; a server that shares the queue may read the
message first and ends over it, `putback`), for a message of the watchdog, or for ever
when there is no BBL.

`collect` lists the queues the bulletin board names and `remove` deletes them, the
semaphore and the segment.  Nobody is told: whoever was attached runs on with a
segment nobody else finds (`Left`).  A busy server goes on with its service and ends
when it tries to receive the next request; one that was about to create a queue still
creates it (`late`); either may do so after `tmboot` has started the same server again
in a new segment.  (Of a server that starts the proof shows that it never meets a
removal, because `tmboot` waits for it; `Left` has the case all the same.)

The operator runs one command at a time and does not kill it; all servers are
configured to be started, and one advertises one service.  Which commands are run,
who may be killed and which queues may be full is a scenario (`Scenarios`), fixed in
the first state of a behaviour.

### Fml32 and FieldedBuffers

`FieldedBuffers` is the abstract specification: a buffer maps each field to the
sequence of its occurrences, and each call changes that map or fails, where it
says what a failed call may leave behind.  `Fml32` is the packed buffer: the
fields in the order they have in memory, their length, the buffer's size and the
offset at which each type begins, all in units of 8 bytes.  It looks fields up
only through the offsets, as the code does, so that a wrong offset hides a field
that is there.  `Refines` maps the packed buffer to the sequences of occurrences
found by reading it from the start, and says that every step of `Fml32` is one of
`FieldedBuffers`.  In a field of variable length the model's value also is the
length of its data.  `Fread32` stands for a write followed by a read, `Fextread32`
for a print followed by reading the text.  That is no identity: the null byte of a
text becomes part of a carray (`Ftypcvt32`), the reader takes the backslash that
`print_bytes` writes as it is for the start of a hex number, reads a char of 0x80 and
above as another, cuts a text at its first null byte (`Misread`), and refuses a
backslash before a single hex digit (`Unreadable`).  Which values these are is left
open, within what the types allow (`TextAssumption`).

### TypedBuffers

The heap of one server thread: blocks with the header of `mem.cpp`, the pointer
`atmibuf` to the block it receives requests in, which that block knows as its
owner, and the pointers of the service that runs.  A message is a type and a
length.  `grows` compares what the code compares, a length with and one without
the header.  `used` is the data in a block, `cap` what the FML32 header takes for
the size, `size` what the block's header says and `room` what was really
allocated; that these four differ is what the properties are about.

### Expr

The operators translate the recursive-descent parser with its one operator put
back, the printer and the evaluator; tokens are strings of the model, and the
parser's tree is the same flat prefix sequence as in the code.  The state machine
types expressions token by token.  The reference reads the grammar from the
tokens (`Tree`: split at the last operator of the lowest precedence outside of
parentheses) and the value from the grammar (`Value`), without the parser.  A text
read from a field is a reference to the one buffer of `Ftypcvt32`, which the next
conversion overwrites.

### Tx

One application thread in group `g0`, the transaction table, and for each group
a TM service and a resource manager.  A resource manager is what the XA switch
may answer: it votes for, against or read-only, and, where the circumstances allow
it, fails or decides on its own.  A behaviour has its circumstances (`may`), one of
the sets in `Scenarios`, from its first state on: whether resource managers heed
`TMFAIL`, fail or decide heuristically, sends fail, waits are interrupted,
transactions are chained or nested.  A property that the code keeps only without
some of them names those in its premise.  `tx_commit` is a program of steps: `tx_end` (xa_end
and the calls to the TMs), `getrply` for each reply, `decide`, `getrply` again,
`finish`.  The `cd` that `command()` leaves uninitialised when `tpgetrply` fails
takes any value it may have (`getrply_interrupted`).

## Runs

Sizes are distinct states.

| Run | Shows | Bounds |
|---|---|---|
| `MCCalls` (697 000) | `TypeOK`, `AtMostOnce`, `NoReplyLost`, `DescriptorKept`, `RightCall`, `GetrplyReturns` | four calls over three descriptors, two in use at a time, a queue of two |
| `MCBlocktime` (601 000) | `ReadsBack`, `GetrplyNotLate`, `SendKeepsTime`, `GetrplyNotEarly` | a second of three units, an interval of two, two calls, a reply queue of two |
| `MCServiceCache` (51 000) | `TableMatchesServers`, `Coherent`, `CachedRouteIsReal`, `EveryQueueServes` | two servers in two groups, a service that is withdrawn and one that is not, two slots, three changes |
| `MCDispatch` (399 000) | `OneAnswer` | two servers on a queue of two, two clients, calls with and without reply |
| `MCDispatchThreads` (19 000) | `OneAnswer`, `NotStarved`, `StopEnds` | two threads of one server, types 1 to 3 |
| `MCDispatchStop` | `HandedOn` is violated | two servers on one queue |
| `MCDomain` (515 000) | `OneReceiver`, `OneQueue`, `Recorded`, `OwnReplyQueue`, `CommandEnds` | the BBL and two servers with one address, a client, two forks of a server, two or three commands and one process killed in each of three scenarios |
| `MCTx` (2 170 000) | `TypeOK`, `Atomic`, `NothingLeft`, `StateMeaning` | three transactions over two groups in three sets of circumstances |
| `MCTxSignals` (80 000) | `CommitReturns` | one transaction over three groups, interrupted waits and heuristic decisions too |
| `MCFml32` (3 700) | `IndexSound`, `LookupAgrees`, `StoreAgrees`, `CombineAgrees`, `Refines` | two buffers of up to three units, a long and two carrays |
| `MCTypedBuffers` (137 000) | `SlotFollows`, `WithinBlock`, `NothingLost`, `PutReturns` | three addresses, lengths below, at and above the sizes compared |
| `MCExpr` (385 000) | `TreeAgrees`, `PrintParses`, `ValueAgrees` | seven tokens over one operand, four over operands of every kind, two buffers |

Why the bounds are enough for what is asked.  In `Calls` every conflict is
between two calls (the one waited for and another) and a third that reuses or
follows; with three descriptors the fourth call gets one whose call may be in
flight, and the queue holds a reply and a time-out, or is full.  In `Blocktime`
block times are 1 and 3, below and above the interval of 2, and the default 3 is a
whole second; a wait is restarted by the one other call, and the watchdog is late
by one unit.  In
`ServiceCache` a slot must be filled, cleared and filled again while a second
slot is in use and one client scans: two slots and three changes; a second
client shares nothing with the first but the lock.  In `Dispatch` two servers or
two threads and two requests make every race for the queue and the mutex; `Period`
is 2 instead of 8, so that both ways of reading happen, and types 1 to 3 are one
below, at and above another.  In `Tx` two groups tell "all" from "some" and three
give a loop that breaks in its middle; three slots hold a transaction, the chained
one and the one begun by mistake.  In `Domain` two servers share an address and a
third does not, and one accesser entry suffices for a client and `tmshutdown` to
compete for it.  Its scenarios: servers die, are started again or run on after
`tmipcrm` (`Restart`); the domain is booted, shut down or removed and booted again
around a client that may be killed, so that left-over servers meet new ones
(`Reboot`); and a server or the BBL is killed, or a queue full, while `tmshutdown`
works (`Shutdown`).  In `Fml32`
the interesting places are the borders between types: a type with one field and
one with two, of which one may be absent; `Round8` of a carray changes with its
value, so that replacing moves what follows.  The header counts one unit instead
of five so that `Fconcat32`, which asks for room for a header it does not copy,
can succeed; one value loses its rest and another is refused when it is read back
from its text.  In `TypedBuffers` 2 and 7 fit with and without the header, and 5 to
9 lie between the default and the size of the server's buffer.  In `Expr` seven
tokens make three binary operators, enough for one to be put back twice; four
tokens make every pair of operand kinds around a comparison.

Two runs are bounded by what the code does not survive, see below: `MCFml32`
deletes only fields of the last type in use (`Erasable`) and joins with at most one
occurrence too many (`MaxExcess`), and `MCTypedBuffers` lets services make buffers
only larger (`Shrinks`) and sends no message without data after one with data
(`VoidAfterData`).

The runs of `Dispatch`, `Domain`, `Tx` and `Expr` do not check for deadlock: all
servers may have been shut down, the operator runs out of commands, an exception
in `tx_begin` ends the process, and an expression is complete.

### Fairness

* `Calls`: the thread inside `tpgetrply` runs on, time passes, the watchdog scans
  (it loops for as long as the BBL lives).  Nothing is assumed of servers.
* `ServiceCache`: a process inside an operation runs on; `data_lock` is a System V
  semaphore and a process that waits for it obtains it when it is free again and
  again (strong fairness); clients call each service again and again.
* `Dispatch`: threads run on, services end, `main` continues after the join.  No
  fairness of clients or of `tmshutdown`.
* `Tx`: TMs answer the requests they were sent, and the thread in `tx_commit` runs
  on.  A TM that dies with a request in hand is excluded: `tx_commit` then waits
  for ever, since time-outs do not end its loop.

* `Domain`: a process that does not wait runs on: commands, attaching processes,
  servers until they are idle, processes inside `tpinit`; and the watchdog scans as
  long as the BBL lives.  Weak fairness is enough, since nobody holds `data_lock` for
  ever.  None is assumed of clients, and a server need not read its queue: it may
  be busy for ever.
* `TypedBuffers`: `mutate` loops until it is through.

## Where the code differs from what it says

One run ends in a counterexample; `PROJECT.json` quotes the line.  `HandedOn`: a
server that puts back another server's `.stop` then calls a service of that name and
ends.

More of it is in the models and can be reproduced by checking the definition
named, or by changing the constant named; no run reports it.

* `OthersStayFound` of `Fml32` (`Erasable = {1, 2, 3}`; `IndexSound` fails too): `erase`
  reads the type whose groups it shifts after it has overwritten the field; deleting
  the last field of a type leaves the offset of the next one wrong, and fields that
  are there are not found.
* `TimeoutNotEarly` of `Blocktime`: the watchdog's message does not say which wait it
  is for; one that was under way when a wait ended otherwise ends the next one at
  once.  `install-tests/blocktime/client.c:30` asserts that the time is over.
* `CancelledIsBad` of `Calls` (`MaxCalls = 2`, `MaxIssued = 2`): a reply that arrives
  after `tpcancel`, while another `tpgetrply` waits, is buffered and makes the
  descriptor valid again; `install-tests/tpacall/client.c:61` says it is not.
* `Blocktime`: a reply to another call restarts the wait with the block time of all
  calls, since the one for the next call is used up; a `tpgetrply` may so end before
  the time it was given (`GetrplyNotEarly` with `first` for `least`).  The send of a
  `tpcall` uses the time for the next call up, also with `TPNOTIME` or `TPNOBLOCK`, so
  that its wait for the reply does not.
* `SCANUNIT` in seconds is cut by two digits (`ubb2mib.cpp:72` takes the 0 of
  `compare` for "different"); in milliseconds it is right by accident.
* `WithdrawnIsGone` of `ServiceCache` (one service, withdrawn): `tpunadvertise`
  works without the lock, so a client may keep a withdrawn route, or miss a new
  one, under the current revision.
* `Tx`: with `"Chains"`, `tx_commit` begins two transactions, the first of which
  nobody ends (`StateMeaning` without its premise).  With `"Interrupts"` a reply can
  be counted twice, so that a missing vote is taken for XA_OK (`Atomic` without its
  premise).  The results of the second phase are not looked at.  `tpreturn` always
  ends a branch with TMFAIL.  `tx_begin` inside a transaction fails but replaces
  the thread's `gttid`, and `tpresume` and `tx_join` do not set it.  Entries of the
  transaction table are never freed.
* `Domain`: a server that died or was stopped cannot be started again, because its
  service is "Already advertised" (`mib.cpp:151`).  Two processes can both load the
  configuration (`Doubled`); `tmboot` then may wait for ever.  When the creator of
  the segment dies early, everybody spins for ever, `tmipcrm` too (`orphan`).  A
  client that takes an entry the watchdog is still cleaning loses its queue, or
  the old queue is never removed (`raced`).  One client too many makes every later
  `collect` throw, so that neither `tmshutdown` nor `tmipcrm` removes anything.
  A server or client killed between `msgget` and the store of the id, or overtaken
  there by a removal, leaves a queue that nothing removes (`missed`).  A server that is
  busy when the resources are removed runs on, and the next `tmboot` starts it a
  second time; only the new one can receive (`OneReceiver`).  `tmshutdown` waits for
  ever for a server that does not answer when there is no BBL (`Unwatched`).
  The model does not follow one more: the watchdog stores 0 in `rpid`
  (`BBL.cpp:91`), which `collect` takes for the id of a queue (`mib.cpp:408`).
* `Fml32`: `Fjoin32` with two occurrences too many never returns (`MaxExcess = 2`,
  `Refines`).  The text form does not give back what was printed: a carray is one byte
  longer, and a backslash, a char of 0x80 and above and a null byte are read as
  something else or not at all (`fbfr32.h:651`, `extreader.h:83` and `:99`).
* `TypedBuffers`: `tprealloc` leaves the old size in the header, which a later
  import trusts (`Shrinks = TRUE` violates `WithinBlock`); `mutate` doubles the size
  in the FML32 header, which may be less than the block has, and loses data
  (`Lens = {2, 12}`, `MaxUsed = 14` violates `NothingLost`); a request without data
  after one with data ends the server (`VoidAfterData = TRUE` violates `Survives`).
* `Expr`: two text fields compared with each other are the same buffer
  (`Aliased`); unary minus and the result of `Fboolev32` truncate floating point;
  division by zero is not caught; `%%` with a long field on its left uses a pointer
  that was never set; what follows a complete expression is ignored.

## Proofs

Everything here is proved for every value of the constants that satisfies the
assumption the module states (`CallsAssumption`, `BlocktimeAssumption`,
`CacheAssumption`, `DispatchAssumption`, `DomainAssumption`, `TxAssumption`,
`TypedBuffersAssumption`, `Fml32Assumption`, `TextAssumption`, `NoBufAssumption`), and, where the table
names one, the hypothesis, and from nothing else; TLC evaluates each of these on the run of the module.  The bounds of the runs
(`MaxIssued`, `MaxOps`, `MaxCalls`) are constants like the others.  A proof has one
step per action and, under it, one per part of the invariant that the action can
disturb; steps that many actions share are lemmas.

| Theorem | States | Inductive invariant | Hypothesis |
|---|---|---|---|
| `CallsProofs!TypeCorrect` | `[]TypeOK` | `TypeShape` | |
| `CallsProofs!AnsweredAtMostOnce` | `[]AtMostOnce` | `AnswerInv` | |
| `CallsProofs!NoReplyIsLost` | `[]NoReplyLost` | `LostInv` | `LargeReplies = FALSE` |
| `CallsProofs!DescriptorIsKept` | `[]DescriptorKept` | `KeptInv` | |
| `CallsProofs!RepliesAreRight` | `RightCall` (of steps) | `KeptInv` | |
| `BlocktimeProofs!BlocktimeReadsBack` | `[]ReadsBack` | `BlockInv` | |
| `BlocktimeProofs!GetrplyIsNotLate` | `[]GetrplyNotLate` | `BlockInv` | |
| `BlocktimeProofs!SendKeepsItsTime` | `SendKeepsTime` (of steps) | `BlockInv` | |
| `BlocktimeProofs!GetrplyIsNotEarly` | `GetrplyNotEarly` (of steps) | `BlockInv` | |
| `ServiceCacheProofs!TypeCorrect` | `[]TypeOK` | `CacheInv` | |
| `ServiceCacheProofs!TableIsRight` | `[]TableMatchesServers` | `TableInv` in `CacheInv` | |
| `ServiceCacheProofs!CacheIsCoherent` | `[]Coherent` | `CacheInv` | |
| `ServiceCacheProofs!RoutesAreReal` | `CachedRouteIsReal` (of steps) | `CacheInv` | |
| `DispatchProofs!TypeCorrect` | `[]TypeOK` | `AnswerInv` | |
| `DispatchProofs!ExactlyOneAnswer` | `[]OneAnswer` | `AnswerInv` | |
| `DomainProofs!ServerReceivesOnce` | `[]OneReceiver` | `DomainInv` (`BootInv`, `InstInv`, `QueueInv`) | |
| `DomainProofs!QueueIsShared` | `[]OneQueue` | `DomainInv` (`BootInv`, `QueueInv`) | |
| `DomainProofs!QueuesRecorded` | `[]Recorded` | `DomainInv` (`QueueInv`, `CleanInv`) | |
| `DomainProofs!ReplyQueueKept` | `[]OwnReplyQueue` | `DomainInv` (`AccInv`, `CleanInv`) | |
| `TxProofs!TypeCorrect` | `[]TypeOK` | `BaseInv` | |
| `TxProofs!AtomicCommit` | `[]Atomic` | `CommitInv`, `DecidedInv` | |
| `TxProofs!NoBranchLeft` | `[]NothingLeft` | `CommitInv`, `OutcomeInv` | |
| `TxProofs!StatesMean` | `[]StateMeaning` | `BaseInv`, `StateInv` | |
| `TypedBuffersProofs!PointerFollows` | `[]SlotFollows` | `PointerInv` | |
| `TypedBuffersProofs!NothingBeyondBlock` | `[]WithinBlock` | `RoomInv` | `~Shrinks` |
| `TypedBuffersProofs!NothingIsLost` | `[]NothingLost` | `WholeInv` | `~Shrinks`, `Moderate` |
| `Fml32Proofs!BuffersStaySound` | `[]IndexSound` | `SoundInv` | `ErasesLast` |
| `Fml32Proofs!LookupsAreRight` | `[]LookupAgrees` | `SoundInv` | `ErasesLast` |
| `Fml32Proofs!StoresAreRight` | `[]StoreAgrees` | `SoundInv` | `ErasesLast` |
| `Fml32Proofs!CombinationsAreRight` | `[]CombineAgrees` | `SoundInv` | `ErasesLast` |
| `Fml32Proofs!BuffersKeepPromises` | `Refines`: `Fml32` implements `FieldedBuffers` | `SoundInv` | `ErasesLast`, `MaxExcess <= 1` |

**Calls.**  `TypeOK` is not inductive: that a descriptor taken from a message indexes
the table needs to be known of messages in the queue, of requests and of the
message in hand.  `TypeShape` adds `Shape`: what is queued, received or buffered is a
reply to a call that was made, under a descriptor that was handed out, or the
watchdog's message.  `AnswerInv` adds `Unique`: the one copy of a reply is in one
place at a time (with a server, in the queue, in hand or buffered), and in none
once it was delivered.  The argument does not depend on descriptors being
distinct, so it covers the sequence that wraps onto calls in flight, and replies
whose category is arbitrary.  `LostInv` adds that only the watchdog's message,
which stands for no call, has the category `unblock`; a reply in a file has no
category of its own and may be taken for it, in which case the code does lose the
reply, hence the hypothesis.  `KeptInv` is about a sequence that has not wrapped
(`issued < SeqMax`, the premise of both properties themselves): the descriptor of a
call is its number (`Straight`), so that two calls cannot share one, and a call that
is pending and not cancelled keeps its entry (`Kept`).  The run of `MCCalls` has
`LargeReplies = FALSE`; that the other four hold with replies that travel in files
is known from the theorems.

**Blocktime.**  Each property bounds the time that has passed, so each invariant says
how that time relates to a timer.  `SendInv`: the attempt with number `i` begins after
`i - 1` whole intervals, and during a sleep the time passed and the rest of the sleep
make `i` intervals; with the number of attempts that `msgsnd_timed` computes by
division this gives the window of `SendKeepsTime`.  `EarlyInv`: the time passed and the
time left of the armed time-out reach `least`, and a message of the watchdog that is
under way means the time-out is over, unless it was under way before the wait
(`stale`).  `LateInv`: `ToGo`, the time until the watchdog's message is in the queue at
the latest (what is left of the time-out, a scan and a delay; the rest of the sleep
once the time-out is over; the rest of the delay once it was read), together with
the time passed never exceeds what is allowed.  Scanning turns one form of `ToGo`
into the next without adding to it, and an expired time-out cannot outlive a scan.

**ServiceCache.**  `TableInv` describes the table while any number of servers withdraw
without `data_lock`: a slot that names a server is that server's, complete, and for
a service it advertises or is about to change (`SlotInv`); no service of a server has
two slots (`OnceInv`); the slot a server is clearing stays its own, because
`advertise` takes only slots whose service is already gone (`HoldInv`, `ApartInv`).
`Coherent` then needs the middle of a scan: a client that refreshes a service that
is never withdrawn has read from the slots before its position exactly their routes
(`Seen`), holds the lock while it does, and its own revision is behind until the scan
ends (`Fresh`).  `CachedRouteIsReal` is about a step: the reads of one slot (`Reads`)
that make up a route were of one generation of the slot.

**Dispatch.**  `OneAnswer` counts places, which no prover here can do while messages
move in a queue; `Unique` says the same pairwise: a request is not at two positions
of the queue, not in two threads' hands, not in both, and somewhere exactly when
its client waits for an answer that can still come.  The count follows at the end.
That a message is found when one is admitted, and that its removal keeps the others,
for both ways of reading, are lemmas of their own (`BestAdmitted`, `Removed`).

**Domain.**  One invariant, `DomainInv`, serves the four theorems.  `Places`: a position a
process remembers is in the table it is for, and that of a server is the first entry
of its server (`First`), which stays the first because entries are only appended
(`Grows`), even when two processes load the configuration at once.  `BootInv` is what
`tmboot`'s loop provides: a server that starts is the process forked last, its entry
is the one `tmboot` waits at and is still inactive, so that only one starts at a time
and the process that is forked is a new one.  `InstInv`: a server that runs has its
entry among the advertisements, so another one of the same server, which has the
same first entry, ends in `advertise`.  `QueueInv`: who is about to create a queue, or to enter it, still finds none in the
table, because it is the only one that starts; who uses one uses the one the table
names; once the queues are listed for removal all of these are in the list, so that
who runs on afterwards uses one that does not exist.  `AccInv`: an entry's `pid` and
`rpid` belong to one process that is past `make_accesser` or dead, no two entries name
the same one, and an entry with the queue of a live process is that process's.
`CleanInv`: the entry the watchdog is cleaning has no owner or one in `raced`; while
`raced` is empty every reply queue is in an entry, about to be entered or in `missed`
(`Kept`); and every queue in an entry is in the list for removal, or was entered too
late for it.  The steps of a process are reduced to three forms, of a server
(`InstMoves`), of a user (`UserStep`) and of the watchdog (`WatchStep`), for which the
parts are kept once; forking, listing, removal and the changes of clients' entries
are treated one by one.  Scenarios and the bound on forks are constants like the
others; the exceptions in `Recorded` and `OwnReplyQueue` are those the properties name.

**Tx.**  `BaseInv` is the part every theorem needs.  `World`: a group has a branch
exactly when it has joined, and until `tx_commit` has called `xa_end` a branch is one
that the thread or a service works on.  `Thinks`: what the thread believes agrees with
the table and the branches.  `EndInv`: calls to TMs are about transactions that have
ended, which no later `tx_begin`, call, suspend or resume touches (`Keeps`).  `CdInv`: a
call descriptor is in one request or one reply, never in two.  `CoInv` is about the
counter of `command()`: unless waits are interrupted, either every call of the phase
was made, and then the counter is the number of parts whose request or reply is
still under way and every other part's result is what its branch says (`Good`), or a
part carries the mark of the call that failed (`Failed`).  A reply closes exactly the
part with its descriptor; the watchdog's descriptor 0 belongs to no part.  So when
`decide` runs, all votes are in, or the mark makes it a rollback; with `PartsInv` (the
first phase is about all groups that have joined) this gives `DecidedInv`: once a
transaction is to be committed, or is, everyone has voted for it and nobody is asked
for anything else, which is `Atomic` with what it needs to be kept.  When `finish` runs
the same count says that every branch is finished (`OutcomeInv`).  `StateInv` is
separate: it follows the one active branch of the thread through the TX states.  The
circumstances in the premises of the properties are theirs (see `Tx`); the theorems
hold for every set of `Scenarios`, not only the three of the run.

**TypedBuffers.**  Every operation of `mem.cpp` is described first by what it does to a
heap, for one address and all others; `Follows` (the server's pointer is null or
points to the only block with an owner) is kept by each.  For the sizes, a lemma
(`Derived`) lists where a block of the next state can come from; that each of these
is `Roomy`, and under `Moderate` `Whole`, is then arithmetic about one block.
`Moderate` says that a request buffer never holds more than twice what the server
allocated; beyond that `mutate` does cut data off (see above).  The run of
`MCTypedBuffers` satisfies both hypotheses.

**Fml32.**  The invariant is short (`SoundInv`: every buffer is `Sound`, or there is
none); the work is in what one operation does to one buffer.  `Sound` says of a type's
offset where the fields before the type end (`Begins`), and the model's functions over
the fields (`Starts`, the occurrences that `Abstract` reads, the rounds of `iterate`,
`each` and `chg`) are recursive functions of a position.  The prover has no induction,
so the module has its own: of the positions at which something fails one is the
smallest (`SmallestExists`, from the well-foundedness of the numbers), which gives
`Reaches`, and with it that a recursive function is what its equation says
(`Solvable`).  Every change to a buffer is a `Splice`, a stretch of fields replaced by
another; lemmas about splices say what that does to the starts of the fields, to
the offsets and to the occurrences.  The occurrences of a field are one stretch
(`Span`), which `where` finds by the offsets of a sound buffer; so `chg`, `erase`, `del` and
`delall` are splices of known ends, and their results follow.

`iterate` is treated once for all its uses: rounds that stay in a set of states
(`Steady`) and bring the end nearer (`Shrinking`) reach the end within `Len` rounds, so
`Fdelete32` and `Fproj32` end and leave the fields they should.  The first pass of
`Fjoin32` brings the end nearer only if `del` removes what it is asked to; with one
occurrence too many it does, and leaves the fields that both buffers have
(`PassLeaves`, `JoinOverlays`); with two it stays where it is, which is the
finding above and the reason for `MaxExcess <= 1`.  `each` is treated once too: what
holds of the destination after each of the source's fields (`Goes`, `Stays`) holds at its
end or at the field where it failed.  So `Fupdate32`, `Fconcat32`, `Fojoin32` and
`Fprojcpy32` leave what they promise, or what they promise of the fields up to one
occurrence (`Take` of `FieldedBuffers`).  `RereadingFits` shows that the buffer the text
is read into is never too small.

`ErasesLast` says that every field in `Erasable` is of the last of the types in use,
`LastType`.  `erase` moves the offsets behind the type of the wrong field
(`fbfr32.h:668`), so without it `IndexSound` is false, as TLC shows; a hypothesis
about `Fields` and `FldType` is weaker than leaving deletion out.  The values of
`MCFml32` satisfy both hypotheses.

Only model-checked:

* all liveness properties (`GetrplyReturns`, `EveryQueueServes`, `NotStarved`, `StopEnds`,
  `CommitReturns`, `CommandEnds`, `PutReturns`): the prover treats neither fairness nor
  `ENABLED`;
* the properties of `Expr`: its parser and its evaluation are RECURSIVE operators over
  trees, which the prover cannot read.

## Not modelled

The text of messages, logs and errors; argument checks that return without a
change of state; `userlog`; the tools; the text of configuration files; the
administration interface, whose queries only read the bulletin board and whose one
update (`T_SERVER` `SET`) nobody calls; the bytes of base64 and views; floating point
and exclusive or in expressions; several processes in the transaction table.  The
queue resource manager is unfinished: it makes, renames and removes a directory
that nothing puts messages into.  Process ids are not reused in `Domain`, and
`tmboot` is not killed: killed while a server starts, it would let the next one
create a second queue for the same address.

## Plan

The safety properties of the runs are proved, except those of `Expr`.  Next:

1. `TxTable`: several processes in `transaction_table::start` and `join`, services
   called with `tpacall` that join while `tx_commit` collects.
2. `CallContract`: what one call promises (made, then answered, timed out,
   cancelled or lost), as an abstract specification that `Calls` implements for
   each call number until descriptors wrap, checked and then proved step by step.
