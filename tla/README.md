# A TLA+ model of sstoraged

sstoraged is an iSCSI target in userland: initiators log in over TCP, send SCSI
READ(10) and WRITE(10) commands, and the daemon serves them from image files. It
has two hard parts. One is the write-back cache: a WRITE is answered as soon as
its data is in memory; two threads per cache write it out with asynchronous I/O
later; READs must see it in the meantime; and the command window that initiators
are given keeps the memory bounded. The other is who owns what: a connection is
accepted by the main thread, logged in, and moved with its session to a thread of
its own, while later logins, logouts, lost connections and the end of the process
look for it. This directory models both, with the way of a command between them,
checks them with TLC on small instances and proves with TLAPS, for all instances,
the main properties of the write-back part, of the command window, of READ and
WRITE, of the receive buffers, of what an information command answers and of the
bytes that the socket gets.

Paths below are relative to the repository's `src/` and `include/` directories.

## 1. Inventory

| Component | State | Operations | Interacts with |
|---|---|---|---|
| Write cache (`writecache.{h,cpp}`) | a multi-index container of `WriteSegment`s: by FIFO, by READ address, by pointer; `wq_guard` | `push`, `search`, `front`, `pop`, `getNext` | reactor thread pushes and searches, writer threads take and pop |
| AIO disk writer (`diskwriter.cpp`) | `stop`, `current_ws`, `iocbs_sizes`, `iocbs_total`, the kernel's requests | writer loop with `doWork`, listener loop with `doListenerWork`, `mayStop` | cache, kernel AIO, reactor |
| Synchronous disk writer (same file, base class) | `stop` | loop with `doWork` | cache, files; only its unit tests use it |
| Command window and limiter (`session.cpp`, `limitter.h`, `ioveccontainer.cpp`) | ExpCmdSN, MaxCmdSN per session; pool population and state for all | `advanceCMDSNs`, `getY`, buffer new/delete, `waitTillDone` | all sessions share the pool; writers free it |
| READ plan (`scsi/read.cpp`) | none | split a READ into pieces from cache and from file, per DataIn PDU | cache, send queue |
| WRITE transfer (`scsi/write.cpp`, `iscsi/dataout.cpp`) | `DataOutInfo` per task tag | immediate data, R2T, DataOut | cache, send queue |
| Send queue (`send.cpp`, `task.cpp`, `session.cpp`) | list of tasks | push, run, retry when the socket is writable | connections |
| Tokenizer (`iscsi/tokenizer.cpp`, `ioveccontainer.cpp`) | partial PDU, buffers | push bytes, front, pop | session, cache (segments own buffers) |
| Session, manager, reactor (`session.cpp`, `manager.cpp`, `reactor.cpp`, `connection.cpp`) | sessions by socket, reactors, phases | login, move to a reactor thread, reinstatement, clean-up | everything above |
| Volume mapping (`volume.cpp`, `filehandle.cpp`) | sorted handles | address to file and offset | disk writer, sendfile |
| Login negotiation (`iscsi/login.cpp`, `iscsi/keyvalue.cpp`) | a session's attributes, type and stage | keys with validators and handlers, first request, shift to full feature | sessions, manager, configuration |
| Other handlers (`iscsi/logout.cpp`, `text.cpp`, `taskmng.cpp`, `nopout.cpp`, `nopin.cpp`) | none | parse, answer, queue tasks | send queue, manager |
| Select loop, ports, acceptor (`loop.cpp`, `port.cpp`, `acceptor.cpp`) | vector of ports, descriptor sets | select, pass over the ports, accept | sessions; one loop per thread |
| SCSI information commands (`scsi/*.cpp`) | none | INQUIRY, MODE SENSE, READ CAPACITY, REPORT LUNS, ... | send queue |
| Configuration (`configurator.cpp`, `rootvalidator.cpp`, the validators and configurators of the lists) | the JSON root, defaults | command line, parse, validate, look up | main, login, reactors |
| Process (`main.cpp`, `signallistener.cpp`, `parse_args.cpp`, `logger.cpp`) | PID file, `fin`, the SignalListener instance | start, signal, end | all loops |
| JSON library | - | third-party | configuration |

What is hard to test in it: the reactor, the writer and the listener interleave
at every lock release; a completion says nothing about which segment it belongs
to; writes overlap one another in the cache in every way and in every order; a
stop comes between any two steps; counters wrap and limits are crossed by several
sessions at once. `PROJECT.json` lists each such place under "hazards", with the
property that covers it or the reason why none does yet.

What makes the components correct:

* cache: a READ of a block gets the last write of it; one segment answers for a
  block; `search` finds it; the indices agree;
* writers: writes that do not fail reach the disk in the order of acceptance, a
  segment leaves the cache only when it is on disk, and it leaves eventually;
* window: it never closes, never retreats, and stops growing above the hard limit;
* READ plan: every PDU is as long as its header says (the code has that for the
  last one of a READ, and for all of them if MaxRecvDataSegmentLength is in whole
  blocks), and the pieces are the range, in order, each block from the place that
  has its last write;
* WRITE transfer: a WRITE is answered when each of its blocks is in the cache
  with its own data (if its PDUs carry whole blocks); R2Ts ask for each byte once;
  no WRITE is forgotten, and none is refused without a cause that can be named;
* send queue: bytes leave in the order queued, however the socket cuts them;
* life cycle: a session id has one reactor; a connection is served, answered and
  cleaned up after; the process does not go down;
* login: a parameter is what both sides offered, over all stages;
* start: no port is open with a configuration that is not valid, and no PID file
  is removed or left behind wrongly.

## 2. Modules

| Module | Models | Code |
|---|---|---|
| `WriteBack` | abstract promise of cache and writer: accept, land, retire | - |
| `WriteCache` | the cache: segments, indices, push, search, front, pop, getNext | `writecache.h`, `writecache.cpp` |
| `AioDiskWriter` (extends `WriteCache`) | reactor, writer and listener threads, kernel | `diskwriter.cpp` 34-53, 203-398; `reactor.cpp` 122-128 |
| `DiskWriter` (extends `WriteCache`) | the synchronous writer | `diskwriter.cpp` 34-124, 165-207 |
| `CmdWindow` | sessions' windows over a shared pool | `session.cpp` 82-128, 353-400; `limitter.h`; `ioveccontainer.cpp` 26-101 |
| `Lba` (extended by `ReadPlan`, `VolumeMap`, `Tokenizer`) | blocks and bytes | `common.h` 58-62 |
| `ReadPlan` | READ(10): DataIn PDUs, hits and gaps | `scsi/read.cpp` 33-283 |
| `Tokenizer` | receive buffers, iovecs, cutting the stream into PDUs | `iscsi/tokenizer.cpp`; `ioveccontainer.cpp` 149-299 |
| `WriteTransfer` (extends `Tokenizer`) | WRITE(10), R2T, DataOut, an initiator | `scsi/write.cpp`, `iscsi/dataout.cpp`, `iscsi/r2t.cpp` |
| `VolumeMap` | addresses to files | `volume.cpp`, `filehandle.cpp` |
| `SendQueue` (extends `VolumeMap`) | tasks, partial writes, retry | `send.cpp`, `sendcache.cpp`, `sendfile.cpp`, `task.cpp` |
| `ScsiInfo` | the information commands and their DataIn | `scsi/*.cpp` but READ and WRITE, `iscsi/datain.cpp` |
| `Reply` (extends `ReadPlan`, `ScsiInfo`, `SendQueue`) | a command from its handler to the wire | `iscsi/command.cpp`, `session.cpp` 197-269 |
| `Config` | command line, file, validators, lookups | `configurator.cpp`, `*validator.cpp`, `*configurator.cpp` |
| `Login` (extends `Config`) | keys, negotiation, stages, request headers | `iscsi/login.cpp`, `iscsi/keyvalue.cpp` |
| `Manager` (extends `Login`) | sessions, connections, reactors, loops, reference counts | `manager.cpp`, `session.cpp`, `connection.cpp`, `loop.h` |
| `Handlers` (extends `Manager`) | what requests that are not SCSI do to them | `iscsi/login.cpp` 186-409, `logout.cpp`, `text.cpp`, ... |
| `Daemon` (extends `Handlers`) | main, the select loops, the tasks, the initiators | `main.cpp`, `loop.cpp`, `session.cpp`, `task.cpp`, `reactor.cpp` |
| `WriteBackProofs`, `WriteCacheProofs`, `DiskWriterProofs`, `AioDiskWriterProofs`, `CmdWindowProofs`, `ReadPlanProofs`, `ReplyProofs`, `WriteTransferProofs` | theorems and lemmas | - |
| `MCAioDiskWriter`, `MCDiskWriter`, `MCCmdWindow`, `MCWriteTransfer`, `MCReply`, `MCDaemon` | instances for TLC | - |

### WriteCache

A segment's pointer is its number (`alloc` counts), and the data of a block is
the number of the segment that wrote it. `seg` is the by_ptr index, `wq` by_fifo,
`lbaidx` by_lba. A segment keeps its WRITE extent (`lba`, `len`) and its READ
extent (`rlba`, `rlen`), the copy flag, the segment whose buffers it shares
(`src`), and `ds_offset`, of which only the difference between 0 and the offset
of the data matters.

`push` holds `wq_guard` for its whole loop. The model takes `PushBegin` (lock and
search), one `PushHit` per hit, `PushEnd` (append, unlock); while `pushing.on`,
every other operation of the cache waits, and the kernel and the threads outside
the cache go on.

`push` changes `rlba`, the key of the ordered index, in place. So `lbaidx` is a
sequence that need not be sorted. `LowerBounds` and `InsertPoints` are the gaps in
which a descent of the balanced tree can end: one on a sorted index, several, as
a nondeterministic choice, on an unsorted one.

`latest` is a history variable: the last write accepted for each block.

### AioDiskWriter

Each thread has a place in its loop (`wpc`, `lpc`). `ev_guard` is held at the
places in `WriterHolds` and `ListenerHolds`. Every access to the cache is a step
of its own because it takes and releases `wq_guard`: getNext and submit are two
steps of the writer; counting an event, front and pop are three of the listener.
`aio` has a record per `io_submit`: blocks to write, those of them that failed
(`lost`), and events of good writes not collected.

Abstractions. One iocb carries one block (the code: one buffer of up to 128 KB).
The kernel is external: `KernelWrite` takes the blocks of the oldest request that
has not `Ended`, in any order, and each lands (`KernelWriteOf`) or fails
(`KernelFailOf`); `TakeEvent` hands out an event of the oldest request that has
one. Submission order is what Linux does with AIO on files that are not opened
with O_DIRECT, and this code does not open them so: `io_submit` writes before it
returns. Nothing in the code enforces it; with a kernel that reorders, completions
could be counted against the wrong segment, so the assumption is stated here and
in the module. Events come one at a time instead of in a batch of up to 64, which
only adds interleavings at places where the listener holds the lock anyway. A
negative result of `io_getevents` and a partial `io_submit` are not modelled.
Reuse of a segment's address (ABA) cannot happen: `current_ws` is a shared pointer
and keeps it alive.

`Faults` switches failures on. With "resolve" the writer ends ("Failed to resolve
real segment"). With "mismatch" a write of the kernel may fail or be short: its
block never reaches the disk, the kernel goes on with the requests behind it, which
land ahead of the older data that is missing, and the listener ends when it takes
the event ("AIO write length mismatch"); what it did not collect stays. A segment
of `IOCB_MAX` or more requests always ends the writer.

### DiskWriter

`front` and `pop` are separate critical sections with one step per block written
in between; a write may fail at any block, which ends the thread.

### WriteBack

What both writers promise. `Land` puts a block of the oldest pending write on disk
that has one left that did not fail; `Lose` is a block whose write fails: it stays
pending for good, later writes land past it, and `Retire`, which is in the order of
acceptance, never gets past its write. The AIO writer does both; the synchronous
one stops at a failure, so it implements the specification without `Lose`.

### CmdWindow

Serial numbers are counted modulo `SNMod` (2^32 in the code; any modulus larger
than three windows shows the wrap). `getY` keeps the code's integer division and
its unsigned subtraction. A loop whose bound no window reaches is the phase
"spinning"; the one-second wait above the hard limit is the phase "waiting", with
the pool's state written only after it. Initiators keep to their window.

### ReadPlan

One READ, from its range check to the last task it queues. `segments` is the set
of live segments, and `First` takes the hits from a set in the order of their
addresses, which is the order of `search`. `Init` takes every cache of disjoint
segments on the volume, which is what `OneOwner` and `SearchComplete` of
`WriteCache` establish for writes that do not split, every request and every PDU
size of `Mrds`. The handler does not give up its thread, which is also the one
that pushes, so the segments do not change. Steps are the range check (`Refuse`,
`Accept`), a PDU of a cache miss (`MissPdu`), the start of a PDU of a cache hit
(`HitPdu`), one step per hit in sendCache's three cases (`SendHead`, `SendLast`,
`SendInner`), and the end of a PDU (`EndPdu`). `byte_mrds` is the initiator's
MaxRecvDataSegmentLength, any number of bytes from a block on, as login stores it;
`transfer_mrds` is what it has in whole blocks. The data of a PDU is
`transfer_mrds` blocks and its header says `byte_mrds` (the last one says what it
has). `serialize()` pads the buffer of a header whose length is not in words, and
the next header is made from a copy of it, with the padding so far (`padding`). A
piece has its first block, its length and its segment, or none when it comes from
the file. What a split does to a READ of one block is in `WriteCache`
(`ReadBlock`).

### Tokenizer and WriteTransfer

Lengths on the wire are in cells, which stand for bytes of whole words, and a
block is `Unit` cells, so that a PDU may have any length in between. What a cell
holds is its position in the stream, so that "the right data" is a comparison of
positions. `Receive` is one `readv()` of any number of cells that are there and
fit the iovecs; `Parse` is a round of `iSCSITokenizer::push`; `Work` is one PDU in
`doWork`, that is, the whole of WriteHandler or DataOutHandler; `Invoke` sends.
`pushed` is what the cache was given, in order; the cache itself is `WriteCache`.

Both handlers cut the length of a PDU's data to blocks (`Cut`), and the segment then
has no room for data that is not a whole number of them (`HasSegment`):
`frontDataSegment()` returns none. `WriteHandler` then ends the session;
`DataOutHandler` skips the push, counts the bytes and goes on. R2Ts ask for
min(remain, the initiator's MaxRecvDataSegmentLength), whole blocks or not.

The initiator (`SendWrite`, `SendData`, `TakeReply`) follows the parameters and
cuts its data where it likes; it may send a WRITE of more than MaxBurstLength, which
is legal. `SendBadWrite`, `SendBadData`, `SendEndless` and `SendOverlong` break the
rules; together with the WRITEs they are at most `MaxSends`. `SendOverlong` sends
more immediate data than its WRITE has: the handler takes all of it, and what
remains wraps round (modulo `Word`, 2^32 in the code). Its tag is `Spoiled`, and the
initiator uses it no more.

With three iovecs (MaxRecvDataSegmentLength of 256 KB or more) `rotate()` moves
one iovec too few, and `ReceiveSound` fails; the run has two, as the default has.

### VolumeMap, SendQueue, ScsiInfo and Reply

A byte on the wire is named by where it was read from: a header, a buffer of a
cache segment, a file. `Reply` turns the plan of a READ, or the reply of an
information command, into tasks, and lets the socket take any part of what a task
offers; a task that was cut remembers how far it came and is run again. Later
requests queue behind (`Later`, `Logout`). `owed` is what the handlers mean to be
sent. `list::merge` (`session.h` 150) orders tasks by the addresses of shared
pointers: it is a choice of any interleaving (`Interleavings`).

`ScsiInfo` keeps of every handler its refusals and lengths: what is written, what
the header says, the residual count, padding; the bytes of the pages are left
out, so that a mode page is its number of bytes (`ModePages`).
`Sound` states the framing with the code's exceptions (each at its line in the
module), `CrashCause` that only the two requests whose data segment cannot be reserved stop
the program.

### Config, Login, Manager, Handlers and Daemon

`Config` is functions: a configuration file is a record of attributes and lists,
a value has a type, a number and a text. `validate(root)` is "ok", "rejected", or
"aborted" when an assertion of the JSON library fails. `Login` has the table of
keys: what a validator accepts, which handler a key has, what the handler does to
the session.

`Manager` holds all objects in one record `y`: sessions by the number of the
accept that made them, connections by socket, reactors by number, and for each
select loop its vector of ports, its set of sockets that wait for room, and `mem`,
what the iterators of a pass that is under way see of the vector (`remove()` moves
the ports behind a deleted one up, and the last place keeps what it had). The
code's objects are held by shared pointers; `Reap` frees what nothing holds any
more, after every step. Objects that hold each other (a session, and a task in its
own queue) stay, as they do in the code.

`Handlers` are functions from `y` to `y` with the tasks they queue. `Daemon` has
the threads. A thread of a loop is at `top`, in a `pass` over its ports, in
`invoke` on a session's queue, between a task and its `pop`, or at its `end`.
Threads interleave between these places and inside CreateReactorTask between the
start of the thread and `setThread()`. Any use of what is not there (a null
pointer, a freed session, an empty list) sets `crash` to a cause and ends the
behaviour; undefined behaviour is taken as its worst outcome.

An initiator follows a script; a request goes out when the initiator has had as
many replies as the script says. `faults` records what was out of the ordinary:
what initiators did (`Odd`, `closed`, `signal`), what went wrong in the daemon
(`clash`: two threads in one queue; `failed`, `twice`, `stale`).

Abstractions. A call on a list of the manager, and `changeListener`, are atomic
(the code has no lock there). One request is read at a time per connection. SCSI
commands have one reply; serial numbers are `CmdWindow`'s, writers and caches
`AioDiskWriter`'s. The listening ports are one port. Keys with numbers have
numbers. What TLA+ leaves out of logging includes `addSession`, which logs through
the end iterator when debug output is on.

## 3. Runs

| Run | Bounds | Shows |
|---|---|---|
| `aio_short` (pass) | 3 blocks, writes of 1 or 2 blocks, 4 writes, IOCB_MAX 3, writes of the kernel that fail | `HitsOverlap`, `OneOwner`, `SearchComplete`, `Coherent` for writes that overlap in every way without splitting |
| `aio_split` (pass) | writes 0+3, 1+1, 1+2, 3 writes, IOCB_MAX 4, both faults, fair | with copies in the queue: types, agreeing indices, `LastIsOriginal`, `PopsWritten`, `SubmitsQueued`, `Accounting`, `DrainedDisk`, refinement of `WriteBack`; `WrittenBack` |
| `sync` (pass) | all writes on 3 blocks, 4 writes | `PopsTaken`, refinement of `WriteBack` |
| `cmd_window` (pass) | 2 sessions, window of 4, limits 2 and 8, modulus 13, pool up to 10 | `WindowOpen`, `NoSpin`, `Throttled`, `MaxNeverRetreats`, `YInRange` |
| `write` (pass) | 2 tags, WRITEs of 1, 2 and 3 blocks of 2 cells, bursts of 2 and 4 cells, buffers of a header and a block, 2 WRITEs or bad PDUs | `Whole`, `R2TsExact`, `WithinTask`, `ReceiveSound`, `NoneForgotten`, `DownForCause` |
| `reply` (pass) | 5 blocks of 2 bytes in 2 files, every cache of disjoint segments, every READ, MaxRecvDataSegmentLength of 4, 5, 6 and 10 bytes, words of 2 bytes; some 900 information requests; one later request | `Framed`, `ExactInOnePdu`, `InOrder`, `Watched`, `InfoSound` |
| `daemon` (pass) | 50 starts, 22 loads of up to 3 initiators, 3 sessions, 5 reactors | `OneReactorPerSid`, `Survives`, `Served`, `Answered`, `Agreed`, `StartupSound` |
| `aio_copy` (violation) | as `aio_split` | `HitsAtData`: copies have `ds_offset` 0 |
| `aio_resplit` (violation) | writes 0+4, 0+1, 2+1 | `DirtyHits`: the copy's address is wrong after a cut head |
| `aio_stop` (violation) | 2 writes | `StopKeepsWrites`: a stop drops what was answered |
| `cmd_default` (violation) | the default limits and window | `YInRange`: the value falls to 0 and below |
| `read_many` (violation) | 5 blocks, PDUs of 3 | `Exact`: the PDU after a gap and a hit starts at a wrong block |

Why the bounds are enough to mean something. Three blocks and writes of one and
two blocks give every case of `push` but the split, and four writes put three
segments with different histories under one search. The split run has a segment
with a copy that is split or covered again while the original is in flight.
IOCB_MAX is small enough that the writer runs into it with segments waiting, and
that a write can be one block short of it. The window run crosses both limits in both directions and
wraps its serial numbers. Bounded are the writes (`MaxWrites`), and in `CmdWindow`
the pool (`MaxPool`) and the buffers per PDU (`MaxBuffers`).

The properties of `aio_short` hold for writes that never fall inside one another.
With splits they do not: `aio_copy` and `aio_resplit` show two reasons. A third
one is the index that loses its order: the writes 1+1, 3+1, 0+3, 0+2, 1+1 leave
the index so that a search of 0+2 may miss the last write. It is listed as a
hazard and has no run of its own.

In `reply` five blocks hold two segments with gaps between and around them,
hits cut at both ends of a PDU, READs of one, two and three PDUs, and a file
boundary inside a PDU; a receive buffer is a block and a half, so a cached piece
starts in the middle of a buffer and spans two. `Framed`
holds for all of them, the ones that go wrong in `read_many` included: there the
data is of the wrong blocks, its length is right. `Framed` says what a PDU lacks: the
last one of a READ nothing, the others the bytes that MaxRecvDataSegmentLength has
beyond whole blocks. So a connection keeps its framing when that is a multiple of
512, and loses it at the first READ of two PDUs when it is not (the length of 5 in
the run; login accepts any number from 512 on). `InOrder` leaves
those out (`Plannable`), and a list merged into pending tasks. `ExactInOnePdu` is
limited to READs that fit into MaxRecvDataSegmentLength, or that hit nothing:
with more PDUs the code also fails a READ one of whose PDUs is all clean
(`read.cpp` 186), and makes an empty piece of a segment right behind a PDU (215).

In `write` a header, and the data of a PDU, may end before, at and across the edge
of a buffer, and two WRITEs, or a WRITE and a bad PDU, share the connection and the
buffers. A block of two cells gives every PDU lengths that are whole blocks and
lengths that are not; the WRITE of two blocks is of just MaxBurstLength, the one of
three exceeds it. The run has 708,309 distinct states (`reply`: 2,931,486); each takes
about a minute and a half. The properties name what the code does:

* `Whole` is about WRITEs whose PDUs all carry whole blocks. A DataOut that does not
  never reaches the cache and is answered GOOD all the same (`dataout.cpp` 60-62).
* `WithinTask` and `R2TsExact` except the tag of a WRITE that came with more
  immediate data than it writes (`write.cpp` 107-121, 171).
* `DownForCause` names two legal WRITEs that end the session: one longer than
  MaxBurstLength (`write.cpp` 81), and one whose immediate data is none or no whole
  number of blocks while ImmediateData is on (108).
* `NoneForgotten` excepts the WRITE of `write.cpp` 158.

`daemon` starts every configuration that changes one attribute or list across the
edge of its range, and every option of the command line; and runs, with a good
configuration, polite initiators (one after another, two at once, three at once,
full sockets, negotiation over two stages and again later) and harsh ones (a
session id used twice, a connection added to a session, closes at any time, the
signal at any time, requests that fail, initiators without volumes). Two
initiators are what it takes for reinstatement and added connections, three for a
pass over a vector that shrinks. Three sessions and five reactors are never
exceeded.

What `daemon` shows of the code, for a reader of `Survives`, `Served` and `Answered`:

* After CreateReactorTask the main thread is still in `invoke()` on the queue of a
  session that the new thread serves: a task may run twice, or `pop()` find the
  list empty ("clash"). A refused second CreateReactorTask leaves the connection
  on a reactor that nobody runs (`Refused`).
* `Excuses` is the table of all causes that can bring the process down, each with
  what must have happened before; TLC reaches every one of them, and none without
  its excuse. In particular initiators that come one after another and log out
  are never in the way of one another.
* A reactor that ends before `setThread()` deletes an uninitialised pointer; one
  that outlives main() uses a deleted SignalListener; RemoveReactorTask uses a
  null pointer when the reactor it looks for is gone.
* A session with tasks in its queue when it ends is never freed, keeps its socket,
  and may keep its loop spinning (`Leaked`, `Spins`).
* A failed second login with the id of a live session stops that session's
  reactor, since `cleanUp()` looks for a reactor by session id.
* With three connections a pass may visit the last port twice, find nothing to
  read, and clean up a session whose peer is there ("twice"). A discovery logout
  of the connection leaves its socket in the map, and the next accept with that
  socket is refused ("stale").
* An explicit AuthMethod "None", which `test/test.conf` has, aborts at start
  (`StartupSound` says that no daemon listens with one); LogLevel "warning" has
  seven characters and is rejected by the length, `InitLogger` knows it.

Liveness of the daemon is stated without fairness: `Quiescent` is every thread
waiting in `select()` with nothing to wake it, or coming back for ever to a port
that changes nothing, and `Served` and `Answered` say what holds then.

Deadlock is not checked for the daemon and the transfers, whose scripts end, nor for the writers, whose threads may exit and whose writes
are bounded, nor for a READ, which ends. It is checked for the window.

### Fairness

`FairSpec` has weak fairness on the steps of `push` (the reactor does not stop in
the middle of a call), on each thread's steps outside its wait, and on the kernel
(a submitted write ends). The two threads wake from a timed wait of one second
and then need `ev_guard`; the other thread releases it at every turn of its loop,
so the lock is free again and again but not continuously: strong fairness on
`WriterWake` and `ListenerWake`. Starting a new write and stopping are not fair.

## 4. Proofs

Every theorem holds for all values of the constants that satisfy the assumptions
of the module: `ExtentsAssumption`, `MaxWritesAssumption`, `IocbMaxAssumption`,
`FaultsAssumption` for the write-back part, `LimitsAssumption` and
`BoundsAssumption` for the window, `SizeAssumption` and `MrdsAssumption` for a
READ, `SizesAssumption` and `TransferAssumption` for a WRITE, `UnitAssumption` (a block has
bytes) for both, `WordAssumption` for the padding of READs, and those of `Reply`
and the modules it extends for `ReplyProofs`. Four families of theorems have a
hypothesis besides, `OneInside`, `LineFits`, `TwoIovecs` and `StartsAtZero`, because
what they say is false without it; it stands in the theorem, and instances that satisfy it are
model-checked.

### The threads and the disk (`AioDiskWriterProofs`, `DiskWriterProofs`, `WriteBackProofs`)

The kernel takes the requests in the order of submission; any of its writes may
fail.

* `Inductive`: the invariant `IInv`. The property of interest,
  that the listener pops only what is written, is not inductive, since the
  listener looks only at a count. It follows from a correspondence: the queued
  originals up to `current_ws` are in flight (`Flight`), in the order of the
  queue, one request each, only the oldest unfinished one has made progress
  (`InOrder`), and `iocbs_sizes` counts them one by one (`Sizes`). `Exclusive`
  (one thread holds `ev_guard`) and `CurrentOldest` (a popped `current_ws` is
  older than the rest of the queue, so that getNext's restart at the front skips
  nothing and repeats nothing) keep it. `WCInv` of `WriteCacheProofs` says that
  the queue is strictly increasing and ends in an original when unlocked, and what
  push, front and pop do to its originals.
* From it: `TypeCorrect`, `FrontStops` (`LastIsOriginal`), `SubmitsAreQueued`,
  `PopsOnlyWritten`.
* `Refinement`: every step is a step of `WriteBack` or leaves it unchanged. The
  abstract pending writes are the queued originals, each with the blocks the
  kernel has not written. `PushEnd` is `Accept`, `KernelWriteOf` is `Land`,
  `KernelFailOf` is `Lose`, `ListenerPop` is `Retire`. So the order on disk is that
  of acceptance as long as nothing fails; after a failure it is the order of what
  did not fail, and nothing from the failed write on leaves the cache.
* `WriteBackProofs!DurableAlways`: in `WriteBack` a block that differs from its
  last accepted write still has that write pending, failed or not, and no later one.
* `DrainedToDisk`: the last two give that an empty cache means that the disk holds
  every block's last write.
* `AccountingAlways`: the sum of a sequence of counts is the number of its
  units (pairs of a place and a number up to its count), so that a sum needs no
  recursion; lemmas say what appending, counting down and dropping an empty first
  entry do to it. `AInv` adds that the writer submits only below IOCB_MAX, and
  less than IOCB_MAX at once: hence `2 * (IOCB_MAX - 1)`.
* `DiskWriterProofs`: the same for the synchronous writer, with `PopsWhatWasTaken`.

### The cache (`WriteCacheProofs`, used by both)

All that the threads do to the cache is a `CacheStep` (`StepsCache`): a step of
push(), or dropping segments from the front.

* `IndicesAlwaysAgree`, for any extents: `Index` says that the address index is a
  sequence of the queued segments without repetition. Inserting at any place and
  dropping keep it, sorted or not.
* `StaysCoherent`, under `OneInside`: no extent has more than one boundary of
  extents strictly inside it. Writes of one or two cells of a grid are like this:
  those of `aio_short` are, and so are writes of one size at its multiples. The
  invariant `CInv`: a segment is an original that answers for a part of its write
  that starts at a boundary (`Whole`); the index is sorted, and of two segments at
  one address the first is covered or has lost its head already (`Sorted`); what
  push() has still to trim is what overlaps the write (`HitsExact`); a block is
  covered by the segment of its last write and by no other (`Owned`). `Sorted` is
  the heart. Cutting a head moves the segment's key up to the end of the write. The
  key of another segment in between would be a second boundary inside the
  segment; a segment behind it at the old address means that it had lost its head
  already, and then the old address and the new one are two boundaries inside it.
  `NoSplit` says that the split case does not happen.
* From it: `HitsAlwaysOverlap`, `OneOwnerAlways`, `SearchAlwaysComplete` (by
  `SearchExact`: from the only lower bound, the backward and the forward scan
  return exactly the live segments that overlap the range), and `ReadsCoherent`:
  the cache has the last write of a block, or by `DurableAlways` the disk has it.
* Why `OneInside`: with splits the properties fail (`aio_copy`, `aio_resplit`). And
  without splits the order can be lost too: after the writes 1+5, 0+6, 0+5, 5+1
  the index has a covered segment at 5 before one at 1, and after 2+4 a search of
  block 4 may end there and miss the last write.

### The command window (`CmdWindowProofs`)

* `SafeLimits`: which limits are safe. `LineFits` (the limiter's line stays
  positive up to the hard limit) holds exactly if the remainder of
  PoolHardLimit - PoolSoftLimit by CMD_QUEUE_SIZE - 1 is at most the quotient. The
  limits of `cmd_window` are like this, the default ones (`cmd_default`) are not.
* For all limits: `TypeCorrect`, `NeverRetreats`, `ThrottledAlways`, from `WInv`,
  which adds to the types that a session that has not finished its login has not
  moved its window.
* Under `LineFits`: `LimiterInRange`, and from `Open` (`WInv`, `WindowOpen` and
  `NoSpin` together, which need each other) `WindowStaysOpen` and `NeverSpins`.

### READ and replies (`ReadPlanProofs`, `ReplyProofs`)

* `TypeCorrect` (the differences of sendCache do not wrap round) and
  `FramedAlways` (what the pieces behind a header lack of the length it says:
  nothing in the last PDU of a READ, the rest of MaxRecvDataSegmentLength by the
  block in the others; and no padding gets between for a length in words), from
  `RInv`: what is left of the request, of the PDU and of its pieces add up, with
  wrong addresses too.
* `ExactAlways`: `EInv` says that the blocks queued are a prefix of the blocks
  wanted, each from the place that has it, and that the next block follows the last
  one queued, for a READ of one PDU or one that misses the cache.
* `ReplyReads`: a `Reply` is a `ReadPlan` step by step, so that the three hold on a
  connection too (`ReplyReadsSoundly`).
* `InfoSoundAlways`: what an information command answers, for any EXPDATALEN,
  allocation length and room in the buffer, handler by handler.
* `WatchedAlways`: a session with tasks is watched for writing, or `invoke` is at
  work on it.
* `InOrderHolds`, under `StartsAtZero`: every physical volume starts at 0 of its
  file. `getLowHandles()` adds a start, which is in blocks (`volume.h` 70), to an
  offset in bytes (`volume.cpp` 86), so with another start a READ sends other bytes
  than those of its blocks, and `InOrder` is false.
  A *tape* gives every address of a header buffer, of the data of a segment or of
  the volume its byte, wherever buffers and files end; what a task still has to
  send is a stretch of one (`Due`), and the pending tasks together are `Unsent`.
  The invariant is `OrderInv`: `wire \o Unsent(tasks) = owed`, and nothing is
  behind the task that closes the connection. A task that is cut by n bytes is,
  after `stepForward()`, the task of what is behind them (`GoesOn`): `SendGoes`,
  `CacheGoes` (the turns of `_stepForward()` keep the position in the segment, the
  iovecs run through its buffers up to `total_remain`) and `FileGoes`
  (`getLowHandles` finds the file that has the first byte and as much of it as
  there is, `LowHandlesAre`). `ReadGoes` says that the tasks of a READ owe
  what its plan says block by block, a hit in the cache (`CachePieceGoes`, where
  the constructor skips to the first block) and a piece of the volume that runs
  through several files (`FilePieceGoes`). It uses `RInv` and leaves out the plans
  that are wrong (`Plannable`).

### The receive side and WRITE (`WriteTransferProofs`)

The hypothesis is `TwoIovecs`: a header and the longest data segment fit in two
common buffers. These have 128 KB, so it covers MaxRecvDataSegmentLength up to
256 KB less a header, and the default. It is what makes `reserve()` set up two
iovecs and what keeps a PDU within the first buffers of the container; with three
iovecs `ReceiveSound` is false (section 2).

* The tape. The common buffers, taken in the order of their allocation, are one
  tape onto which `readv()` copies the stream (`Linear`): the cell of the tape at
  place p holds p. Then everything the container keeps is a function of two
  numbers, how much was received and how much of it is in tokens: the row of
  buffers with their read and write positions (`Geometry`) and the iovecs
  (`Vectors`). `Receiving`, the three together, is inductive; its steps are
  `ReadvKeeps`, `JoinedKeeps` (the copy of a header that crosses an edge) and
  `UpdatePreserves` (both loops of `update()`, each by induction over the buffers
  that it drops or adds). From it: `ReceiveSoundHolds`.
* The tokens. `Following`: the tokens are the next PDUs of the stream, in order,
  and `Handled` counts the PDUs that were worked on. So `doWork` takes PDU
  `Handled + 1` (`TargetFollows`), and a PDU that is taken from the stream by its
  header is the one that was sent there.
* The books. What must hold for the replies to be right is spread over both
  ends: the PDUs sent and not worked on yet, the initiator's record of each
  WRITE, the tasks in `recvinfo`, the replies queued and under way. `Tracks`
  relates the PDUs to the WRITEs (each PDU continues its WRITE where the one
  before it ended, only the last of a burst has F, a stray DataOut is longer than
  what any open WRITE of its tag has left), `Tasks` the tasks and replies to both
  (a task remembers what is left behind the PDUs worked on; a reply is the only
  one for its tag, and comes when nothing of its WRITE is under way). A task whose
  WRITE came with more immediate data than it writes has an entry in `recvinfo` with
  a count that has wrapped; its tag is in `Spoiled`, and the books say nothing of
  it. None of the properties is inductive without the others. Each handler outcome (`Outcome`)
  is a turn of the books (`TurnBooks`), each initiator step another. From `WInv`:
  `R2TsExactHolds`, `WithinTaskHolds`, `DownForCauseHolds`, `NoneForgottenHolds`.
* The data. `DInv` adds where it is. A token names the buffers on the tape from
  its header on (`TokensAt`), so that `frontDataSegment()` gives the cells behind
  the header (`SegmentPlaced`, with the shift by one buffer when the header
  crosses an edge). Of a WRITE whose PDUs are all in whole blocks (`Even`), every
  segment is the data of one of its PDUs, for the blocks behind those of the segments
  before it (`Parts`), and together they are as long as the PDUs worked on
  (`Added`); another WRITE has fewer segments than PDUs. With `Complete` (an answered WRITE
  has nothing under way) and `Apart` (no two PDUs of a WRITE hold the same block)
  this is `WholeHolds`. Since the tape only grows, and no cell of it that was
  filled is written again, the data stays.

### How recursion is dealt with

What a recursive function computes is proved by its least counterexample: the
places at which it would be wrong are a set of natural numbers, and have a least
one (`Least`, `Induct`). That is how `Kept` (the index without what was dropped) and the sums
and concatenations of `ReadPlan` are reasoned about, the loops of `update()`, and
those of the send queue and of `getLowHandles()` (`Climb`); `Kept`, `Total` and the
loops of `SendQueue` and `VolumeMap` are recursive functions, one turn an operator
(`Cover`, `SendEnter`, `CacheEnter`, `AddIovec`), instead of `SelectSeq` or a fold
for that reason.

### Only model-checked

Liveness (`WrittenBack`, outside the prover's reach), and `Daemon`, whose `Manager`
and `Handlers` have RECURSIVE operators and whose properties are about scripts of
given scenarios.

## 5. Not modelled, and the plan

Not modelled: the JSON library (third-party; only the types of values and the
assertions that the validators meet); `add`, `del`, `update` and `dump` of the
configurators and `replaceVolume`, `swapCopy2Main`, which nothing but unit tests
calls or nothing defines; SIGHUP, whose flag the loop only clears; log output; the
bytes of SCSI pages and of text replies; AHS and padding of received PDUs; CHAP,
which the code does not implement; races inside a call on the manager's lists; a
kernel that reorders AIO; two sessions over one volume, whose caches know nothing
of each other (listed as a hazard).

Left open: a run of `InOrder` with parts that do not start at 0, where it would
fail; `ReceiveSound` for three and more iovecs, where
`rotate()` would have to be changed first; and the life cycle in `Daemon`, whose
`Reap` and `clearListeners` would have to be recursive functions too.
