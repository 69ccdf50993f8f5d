# TLA+ specifications of the logging system

This directory models the programs under `src/project_1`: the log store, the
network listener, the emulator program around them, the function runner, and the
vhost-user backend with the library it is built on. Each module is written from the C code; the lines that a
definition stands for are in `PROJECT.json` under `map`. The runs are checked
with TLC, the theorems with TLAPS.

    tlc -config LogStore.cfg MCLogStore
    tlapm LogStoreProofs.tla

## 1. The system

Three transports write records to one kind of log file.

| Component | State | Operations | Interacts with |
|---|---|---|---|
| Log store, `emulator/logstore.c` | a stdio stream, a mutex | open, append, flush, close | called by every transport, from several threads |
| Network listener, `emulator/netlog.c` | connection table with half-received lines, poll results, stop flag, sequence number | start, the poll loop, stop | a thread beside the vCPU; producers over TCP; appends to the store |
| Emulator program, `emulator/main.c`, `vmm.c` | stop flag set by a signal handler, the store, the listener | collector mode, guest mode, shutdown | owns the store and the listener |
| Logging device, `emulator/device.c`, `guest/vlog.c` | MMIO registers | read, write (unwritten in this repository) | the guest; appends to the store |
| Runner log sink, `runner/runner.c:59-231` | socket, pending buffer, skip count, backoff | `logrec` | a collector, which is the network listener |
| Runner server, `runner/runner.c:302-445` | one connection at a time | accept, read, handle, reply, close | clients; logs through the sink |
| Runner functions, `runner/runner.c:258-300` | none | `fn_wordcount`, `fn_sum` | called by the server |
| vhost transmit path, `vhost/backend.c:83-145` | `last_avail_idx`, `avail_event` | `tx_kick` | the guest's driver through shared memory; the sink |
| vhost control plane, `vhost/backend.c`, `libvhost-user.c` | descriptors, watch table, queues, memory regions | one handler per message, the event loop | the frontend (QEMU), the guest's kicks |
| Sink, `vhost/sink.c` | store, sequence number | open, emit, close | called by the virtqueue handler |
| libvhost-user queues, `libvhost-user.c:1247-1329, 2225-3072` | inflight records shared with the frontend, indices and their shadows, signalled index | pop, rewind, fill, flush, push, notify, recovery after a crash | the guest's driver, the frontend; this backend has its own ring code and does not call it |

What is hard here:

* **Interleavings**: threads in the store; the driver and the device on a ring
  without locks; a signal between a test and a sleep; a kick while the queue is
  being rewired.
* **Stale values**: poll results used for a connection they are not about, or
  after a message closed the descriptor; ring pointers after a remapping.
* **Failure**: kill in the middle of an append, a full disk, a collector that
  disappears, short writes, a frontend that disconnects, a backend that dies
  between two stores to shared memory and is replaced.
* **Formats**: a line that three programs write or read, each in its own way;
  descriptor chains that a guest may have built wrongly.
* **Limits**: line buffer, connection table, pending buffer, 16-bit indices.

The complete list, each at its line, is `hazards` in `PROJECT.json`, with the
properties that would notice it going wrong.

## 2. The modules

Definitions named `Bug_...` are deliberate mistakes that no specification uses.
Each could replace the definition that follows it, and shows that a property does
depend on what the code does there. `MC...` modules only give values to
constants.

### AtomicLog, LogStore, LogStoreProofs

`AtomicLog` says what the store promises: an append is one step between its call
and its return; records of calls that returned survive a crash. `LogStore` has
one action for each step of `logstore_append`: `Acquire`, `Header`, `Bytes`,
`Newline`, `Fflush`, `Unlock`; `logstore_flush` shares the last two. `out` is
everything written to the stream since the file was truncated and `ondisk` is how much of it has
reached the file; stdio may spill any part of its buffer early (`Put`). With
`DiskErrors` a write may be refused without notice, as the code ignores the
results. `Crash` ends the process, `Open` truncates the file (`fopen` with `"w"`).
`Close` requires that no thread is inside: that obligation of the caller is
discharged in `Emulator` (`StoreClosedLast`).

### LogLine, Netlog, NetlogProofs

`LogLine` has the wire format as the three programs see it: `logrec` of the
runner writes a line (`Logrec`, cut at `RunnerMax`), `feed` and `process_line` of
the listener read it (`FeedChar`, `ProcessLine`, with the line buffer's limit
`LineMax` and a model of `strtoul`), and `vlog_sink_emit` reads what a virtio
chain holds (`SinkEmit`). `Netlog` uses the listener's half. The listener thread is cut at its system calls: `Poll`,
`Accept`/`NoAccept`, one `Service` per connection, `ServiceDone`, `Exit`. `stop`
is set by another thread (`SetStop`, `Shutdown`, `Join`).

`pfds[nc]` of a connection accepted in this round was not filled by this round's
`poll`. The model keeps the array across rounds, and `Garbage` gives what an
entry may hold before it was ever written (the array is an uninitialised local).
`MaybeIn` and `ZeroStack` are the choices the runs use; the three disagreements
below already happen with `ZeroStack`, that is, with values left by an earlier
connection.

### RunnerLog

A line is `LineLen` units, so that a write can be short. `log_sink_emit` runs
without interruption from the runner's own point of view: one action per path
(`EmitSkips`, `EmitConnectFails`, `EmitConnects`, `EmitWrites`); between the
calls the network moves: the handshake succeeds or is refused, the collector
leaves or returns, a reset arrives. `Refusals` says whether a failing connect
fails at once or after `EINPROGRESS`, `ShortWrites` whether an established
connection may take only a part of what is written. `sink.cut` remembers that a
line went out in part. `SinkInit`, `SinkNext` and `SinkSpec` are its specification,
named so that `RunnerProofs` can extend it together with `RunnerServer`.

### RunnerServer, RunnerFunctions, RunnerProofs

`RunnerServer` is `main` and `handle_line`; requests are sequences of words and
TCP may deliver them in two parts (`Split`). A client may close its connection
(`gone`), reset it (`reset`), or close it and reset it after that (`broken`), as
far as this matters to the server's one `read` and one `write`: in the first two
cases the write goes nowhere or fails with `ECONNRESET`, in the third it is
`EPIPE`, and SIGPIPE ends the process (`WriteKills`). `FnFails` is what the server needs
to know of `fn_sum`. `RunnerFunctions` has the two functions character by
character, with `strtoll` as an external function that saturates at `LLMax`, and
compares them with a definition by tokens. `MCTexts` runs them and `LogLine` over
the same texts.

### Emulator, EmulatorProofs

`main` in both modes with the listener thread and an instance of `LogStore`. The
listener is reduced to what main depends on: at the top of its loop (`poll`) it
sees `stop`, or fails (`NetFails`), or starts a round (`service`) in which it
appends and may be `blocked` in `read` for as long as a producer pleases. `Signal` may come at any moment; before the handlers are installed, and
always in guest mode, it kills the process. `vmm_load_binary` and `vmm_run` are
not written in this repository: the model lets the first succeed or fail and the
second append any records and return, which contains the stubs' behaviour.

### VirtioTx, RingArith, VirtioTxProofs

A driver that publishes buffers and decides whether to kick (`Publish`, `Check`,
external) and `tx_kick`, one action per shared-memory access: `Handle`,
`PublishEvent`, `Fence`, `Recheck`, `Call`. The plain store of `avail_event` sits
in a store buffer until `StoreLands` or the fence. Indices are modulo `IdxMod`.
`vlog_virtq_handle` is not written in this repository; `handler = "complete"` is
what `backend.c` and `virtq.h` ask of it (take everything available, say how
much), `handler = "stub"` is the code as it stands. Whether the event index was
negotiated is chosen in the initial state too.

### VhostBackend, VhostBackendProofs

The event loop of `backend.c` (`Poll`, one message through an action of
`Dispatch`, then `Serve` for every descriptor that poll reported) and the
messages of `libvhost-user.c` that change descriptors, queues, rings or regions.
Descriptor numbers are reused lowest first, as the kernel does, so a number that
poll reported may refer to something else when it is served. A mapping of guest
memory is a number (`maps`), `region[q]` is the one that holds the ring of queue
q and `ring[q]` the one that its pointers were translated in. `base`, `synced`
and `addressed` describe a frontend that follows the protocol: it gives a stopped
queue its base before it starts it again, and a removed ring a new address.
`tx_kick` is one step here; `VirtioTx` has its steps.

### VuQueue, VuQueueProofs

The queue interface of the library on one split ring. What outlives the backend
process is `guest` (both rings with their event indices and flags) and `area`
(the inflight records, `VuVirtqInflight`); `vq` is the library's own `VuVirtq`.
Every store to `area` is an action, in program order: a pop with inflight records
is `PopHead`, `GetCounter`, `GetMark`; `vu_queue_push` is `Fill`, `PrePut`,
`Flush`, `PostClear`, `PostIndex`. `Crash` may come between any two of them, and
also during the recovery itself, which is `Start` (the messages up to
`SET_VRING_ADDR`), `RepairMark`, `RepairIndex` and `Check`, or `CheckFresh`.
`qsort` with `inflight_desc_compare` may leave any of `Resubmits`: the comparison
is not a total order once counters are `Window` apart. `Notify` is
`_vu_queue_notify` with `vring_notify`; `SetNotification` is cut from the second
look at the ring (`Recheck`) that a careful device takes.

The driver, external, offers, decides whether to kick, collects, arms an
interrupt and sleeps. The device, the library's caller, is only asked to follow
the interface: it takes what `Pop` returns, gives buffers back in any order with
inflight records and in order without them, and notifies after pushing. A chain
is its head here.

`StopBusy`, `RewindMarked` and `Overtaking` allow three uses that the code does
not refuse and does not survive (see below); all are FALSE in the run. Without
`Overtaking` the device takes a buffer from the ring only while nothing marked is
`Window` counters older (`InWindow`). The shared memory is
sequentially consistent: the library's barriers are where they are needed for
that (`smp_mb` in `vring_notify` and `vu_queue_set_notification`, `smp_wmb` in
`vu_queue_flush`), and `VirtioTx` has a store buffer because the backend's own
ring code there is about one.

### VuDescriptors

The walks along one chain: `AvailBytes` (`vu_queue_get_avail_bytes`),
`QueueMapDesc` (`vu_queue_map_desc`, with `virtqueue_map_desc` cutting a buffer
at the ends of regions) and `LogQueueFill` (the dirty log of `vu_queue_fill`).
Each turn of a C loop is a step function (`BytesStep`, `MapStep`, `LogStep`,
`PieceStep`) and `Iterate` repeats it; a turn after the end changes nothing.
Indirect tables lie in one region, or are copied: `ReadIndirectDesc` moves its
destination by bytes where descriptors are counted (`libvhost-user.c:2331`), so
that the entries behind the first part land further down, those in between are
whatever the stack held (`Descs`), and a copy that leaves `desc_buf` (`Overruns`)
may end the process. The totals of `AvailBytes` are modulo `TotalMod`, and the
dirty log has `LogSize` bytes, beyond which the assertion of `vu_log_write`
aborts. Guest memory does not change between a pop and its fill. The properties do not use these functions: `Chains` says what the chain
of a head is, and the bytes are compared one by one.

## 3. The runs

| Run | Shows | States |
|---|---|---|
| `logstore` | whole records, in order per producer, durable once returned, with a kill and a reopen anywhere; `LogStore` implements `AtomicLog`; a thread that holds the mutex releases it | 102 k |
| `netlog` | everything read from a connection is in that producer's records or in its line buffer, in order; the table matches the open sockets | 5.6 M |
| `netlog_live` | producers that send and close are served; `netlog_stop` returns | 52 k |
| `runner_log` | records arrive in order, none is forgotten unless the pending buffer was full, and each arrives exactly once as long as no line is written in part | 319 k |
| `runner_server` | replies belong to their requests, results are logged first, everybody is served, however others leave, unless the server ended; it can end by a client only through SIGPIPE | 66 k |
| `texts` | both functions of the runner agree with the definition by tokens; a record survives the way from `logrec` through the listener, which agrees with the sink on levels of one digit up to the two differences below | 56 k |
| `emulator` | the store is closed last; an orderly exit loses nothing; shutdown completes once the stop flag is seen, if the listener's reads return | 18 k |
| `virtio_tx` | no buffer is left without a pending kick; each is emitted once, in order; `tx_kick` returns, with the driver told of everything, even with a handler that makes no progress | 15 k |
| `vhost_backend` | no callback on a descriptor that has nothing to read; watches and descriptors accounted for; rings of handled queues in current mappings; nothing emitted twice or skipped across stops, restarts and resets; a kick is served | 961 k |
| `vu_queue` | across a crash at any store, every buffer is in one place and completed once; buffers are taken in the order of the offers, those to be taken again before the rest; no kick and no call lost | 2.6 M |
| `vu_descriptors` | an element is its whole chain; walks end, and are right about loops; the dirty log is exact; bytes on offer are counted right, up to what an unsigned int can count | 335 k |
| `netlog_stop_hangs` | a disagreement, see below | |

Deadlock checking is off: every model has bounds on its inputs, and all the
programs may end. The `TypeOK` of the modules other than `LogStore` declares the
types of their variables and belongs to no run.

Three further configurations pass: `LogStoreDiskFull.cfg` (2.1 M states), the store
on a disk that refuses writes, for which the proofs of section 4 hold as well;
`RunnerLogBackoff.cfg` (8 k), a collector whose absence `connect` reports at once;
and `VhostTwoQueues.cfg` (438 k), both queues of the backend with the invariants
about watches and descriptors.

### Disagreements

These configurations check what a comment or a document says and fail. The first
is a run, with its finding in `PROJECT.json`.

| Configuration | Property | What the repository says | What happens |
|---|---|---|---|
| `NetlogStopHangs` | `StopReturns` | "timeout: re-check stop" (`netlog.c:108`) | `netlog.c:132` reads the `revents` of a connection that poll has not seen. Stale `POLLIN` for a just-accepted silent producer: the listener blocks in `read`, and `netlog_stop` in `pthread_join` |
| `RunnerLogKilled` | `LoggingNeverKills` | "Logging must never take the runner down" (`runner.c:66`) | SIGPIPE ends the runner after the collector was restarted (`runner.c:190`, `205`) |
| `NetlogStarves` | `EveryoneServed` | "Serving connections concurrently" (`netlog.c:90`) | the same blocked `read`: nobody else is served |
| `NetlogDrops` | `OnlyClosedAreDropped` | "compacting out any that closed" (`netlog.c:129`) | stale `POLLHUP` or `POLLERR`: a healthy new connection is closed (`netlog.c:140`) |
| `RunnerLogShort` | `WholeLinesOnWire` | "one record per line, which is exactly the wire format a collector expects" (`runner.c:62`) | after a short write of a line the whole line is buffered again (`runner.c:205`) |
| `RunnerLogNoWidening` | `WideningGap` | "Retry with a widening gap" (`runner.c:175`) | the backoff is reset before the connect is known to have succeeded (`runner.c:184`) |
| `RunnerServerSplit` | `ReplyAnswersRequest` | "Line oriented over TCP" (`runner/README.md:19`) | a line in two segments is answered on the first (`runner.c:433`) |
| `RunnerSumTokens` | `NonNumericRejected` | "rejects a non-numeric token" (`runner.c:275`) | `1-1` is summed (`runner.c:287`) |
| `EmulatorLostSignal` | `InterruptEndsCollector` | "until interrupted (Ctrl-C/SIGTERM)" (`main.c:14`) | a signal between the test of `g_stop` and `pause` is lost (`main.c:69`) |
| `VhostAssert` | `FdsFitAssertion` | `assert(fd_size < VHOST_MEMORY_BASELINE_NREGIONS)` (`libvhost-user.c:326`) | bytes are compared with a number of descriptors: a memory table of two regions aborts |
| `SinkFormat` | `SameWireFormat` | "We accept the same ... wire format the network ingest path uses" (`sink.c:3`) | a level of two digits is part of the message for the sink and a number for the listener (`sink.c:50`, `netlog.c:56`) |
| `VuQueueWindow` | `PoppedInOrder` | "Used to preserve the order of fetching available descriptors" (`libvhost-user.h:302`) | `Overtaking = TRUE`: a buffer in flight while `2 * VIRTQUEUE_MAX_SIZE` others are fetched compares as the newer one (`libvhost-user.c:1253`) |
| `VuDescriptorsStraddle` | `LoopIsLoop` | "If we've got too many, that implies a descriptor loop." (`libvhost-user.c:2768`) | iovecs are counted, of which a buffer across two regions has two: a chain without a loop is refused |

Two differences between the transports are not in a configuration of their own,
because `TransportsAgree` states them exactly. The sink strips carriage returns
from the end of a line (`sink.c:43`), the listener only the newline
(`netlog.c:48-65`): "1 x\r\n" has the message "x" through one and "x\r" through
the other, which "the same wire format" (`sink.c:3`) does not say either. And
the sink takes a chain of any length, while the listener cuts a line at
`NL_LINE_MAX` and makes records of the pieces, each with a level of its own
(`netlog.c:78`).

`vu_queue_avail_bytes` "Returns: true if in_bytes <= in_total && out_bytes <=
out_total" (`libvhost-user.h:754`). The totals are unsigned ints and the guest's
lengths are 32 bits wide (`libvhost-user.c:2371`, `2439-2441`): readable buffers of
2 and 0xFFFFFFFF bytes and a writable one of 4 count as 1 and 4, and 2 readable
bytes are denied. `BytesAreOffered` says that a wrong answer is always such a no,
and never a yes.

Three more uses of the queue interface it neither refuses nor survives; nothing in
the repository says that it should. They are constants of `VuQueue`, at their
harmless values in the run. `StopBusy = TRUE`: a queue that is stopped and started
in the same process with buffers in flight counts them twice, as `inuse` is not
reset (`libvhost-user.c:1295`), and panics as overfull. `RewindMarked = TRUE`:
`vu_queue_rewind` leaves the inflight marks of the buffers it gives back, and after
a crash `PoppedInOrder` fails. `CallModes = {"none"}`: without a call descriptor and
without in-band calls, `vu_queue_notify` panics on the write to descriptor -1.

### Bounds

The theorems of section 4 hold without these bounds. The runs check the same
properties on small instances, and the others.

* Log store: two threads and three appends each: any two threads at any pair of
  steps, and a producer's later records against its earlier ones.
* Listener: three producers for two slots (`NL_MAX_CONN` is 64), a line buffer
  of 4 and reads of 3 characters. Lines shorter and longer than the buffer occur,
  reads end inside a line, and the table overflows. The liveness run has two
  producers.
* Runner: lines of two units and a pending buffer of five, so that it fills with
  a remainder; a backoff cap of 4, which is reached. `MaxFlips` bounds how often the
  collector changes state. Payloads of six characters hold two numbers of two
  digits with a sign, or three tokens; `LLMax = 71` lets a two-digit number
  saturate. The same texts are messages for `LogLine`: with lines of 6 and 7
  characters, both the runner's and the listener's limit are overrun.
* Virtio: a ring of 2 with indices modulo 4 and nine buffers, so that the
  indices wrap twice.
* vhost: the transmit queue with two kick eventfds and three descriptor numbers,
  so that numbers are reused at once; two memory maps and tables of two regions,
  and two buffers for each life of the device, the second of which can overtake
  the first or be left behind (the theorem `InOrder` has any number).
  The receive queue never has a handler; `VhostTwoQueues.cfg` adds it, without
  memory maps.
* Queue interface: a ring of 2 with indices modulo 4, started at 0 and just
  before the wrap, three buffers and two crashes or stops: the backend may die at
  every store, and its successor again while it repairs the area or resubmits.
  Feature sets are chosen in the initial state.
* Descriptors: tables of three over two adjacent regions of four bytes and pages
  of two, so that buffers lie inside, across and outside; every link, into and
  out of the table, and up to four heads. An unsigned int ends at 15, the length
  of the largest buffer; the log has the first three of four pages; `desc_buf` has
  room for four descriptors of two bytes, which copies of three both fit in and
  leave.

### Fairness

* `LogStore`: a thread that holds the mutex goes on (weak), since nothing inside
  waits for another thread. Nothing is assumed of the order in which the mutex is
  given out.
* `Netlog`: the listener and the stopping thread are scheduled; producers other
  than `IdleProducers` go on to send and close. `read` on a connection without
  data blocks: its action is not enabled, so fairness does not pretend that it
  returns.
* `RunnerServer`: the server is scheduled and a client outside `Silent` delivers
  its request or leaves. With a client in `Silent` the code serves nobody
  afterwards; the run assumes there is none.
* `Emulator`: the main thread and the listener's own steps are scheduled. A round
  of the listener ends (strong, as reads may block in between: each connection is
  read once in a round). No blocked `read` is assumed to return: that it does is
  the premise of `ShutdownCompletes` (`ReadsReturn`), and `NetlogStopHangs` is what
  happens without it. No signal is assumed to come, and no guest to power off.
* `VirtioTx`: the backend's steps are scheduled and a delayed store lands.
* `VhostBackend`: the event loop is scheduled; the frontend may send messages
  for ever.
* `VuQueue` has no liveness run: `KickNotLost`, `CallNotLost` and
  `NothingForgotten` are the invariants from which service follows once the
  device is scheduled.

## 4. The proofs

Eight modules hold theorems: a `...Proofs` module for each component below and
`RingArith`, the lemmas about division and remainders that indices need. A
theorem holds for every value of the constants that the component's `ASSUME`
admits and uses no other assumption. A property that a run checks on a small
instance and a theorem states for all:

| Module | Theorem | Property |
|---|---|---|
| `LogStoreProofs` | `TypeCorrect` | `TypeOK` |
| | `NoMixing` | `NoInterleaving` |
| | `InOrder` | `ProducerOrder` |
| | `WholeRecords` | `NoTornRecord` (no disk errors) |
| | `Durable` | `ReturnedIsDurable` (no disk errors) |
| | `Implements` | `ImplementsAtomicLog`, the refinement of `AtomicLog` (no disk errors) |
| `NetlogProofs` | `SocketsAccounted` | `TableMatchesSockets` |
| | `TextKept` | `NothingLostOrMixed` |
| `RunnerProofs` | `Ordered` | `SentInOrder` |
| | `NothingLost` | `NothingElseIsLost` |
| | `Logged` | `ResultIsLogged` |
| | `Answers` | `ReplyAnswersRequest`, when no request is split between two reads |
| `EmulatorProofs` | `ClosedLast` | `StoreClosedLast` |
| | `ExitKeepsRecords` | `ExitLosesNothing` |
| `VirtioTxProofs` | `NeverStalls` | `NoStall` |
| | `InOrder` | `EmittedOnceInOrder` |
| `VhostBackendProofs` | `PanicsAreForeign` | `NoSpuriousPanic` |
| | `WatchesKept` | `WatchesExact`, while the process runs |
| | `NoFdLeak` | `FdsAccounted` |
| | `RingsCurrent` | `NoStaleRing` |
| | `InOrder` | `EmittedOnceInOrder` |
| `VuQueueProofs` | `KicksArrive` | `KickNotLost` |
| | `CallsArrive` | `CallNotLost`, for a queue with something to call with |
| | `NothingIsForgotten` | `NothingForgotten`, likewise, without `StopBusy` and `RewindMarked` |
| | `EachIsCompletedOnce` | `CompletedOnce`, without `StopBusy` and `RewindMarked` |
| | `TakenInOrder` | `PoppedInOrder`, without `StopBusy`, `RewindMarked` and `Overtaking` |

Further, `Exclusion` (`MutualExclusion` of the store), `TypeCorrect` of
`VirtioTx` and `Emulator`, `PlacesKept` (the inductive invariant of the buffers
in `VuQueue`), and `UsesStore`: every behaviour of the emulator
program is one of the log store's, so that all of `LogStoreProofs` holds in it.

The conditions in the table are those of the code: with `Split` the run
`RunnerServerSplit.cfg` shows `ReplyAnswersRequest` violated, a queue with
`callMode = "none"` has no way to call, and `StopBusy`, `RewindMarked` and
`Overtaking` are the uses of the queue that the code does not survive (section 3).

None of these properties is inductive by itself. What had to be added:

* **LogStore.** `OrderInv`: a new piece goes to the end, so what matters is that
  the pieces of the record being written are the last of the log (`AtEnd`), that
  no record of the log has a sequence number still to be used (`Fresh`), and that
  a thread's argument fits its program counter. `TornInv`: neighbours in the log
  follow each other, and the last piece is the one that the holder's program
  counter says. `DurableInv`: every record below a producer's sequence number has
  its newline in the log, and after the flush on disk. For `Implements` the log of
  `AtomicLog` is the sequence of lines whose newline the kernel has (`Lines`);
  `CommitInv` says that stdio holds one newline more exactly while an append is
  about to flush, so that this flush is the `Commit`, and every other step is a
  step of `AtomicLog` or a stutter.
* **Netlog.** While a round of `Service` runs the table is being compacted:
  slots up to `keep` are done, those from `i` are to come, and the ones between
  are stale copies (`Compacting`, `LiveSlots`). The live slots name the open
  accepted sockets, each once (`Table`); the backlog names sockets that are not
  in the table (`Waiting`). `TextInv` is for the text: of a live connection it says
  what the property says (`Buffered`), of one that is gone that the missing end was
  in its buffer (`Dropped`), of one that waits for `accept` that nothing was read of
  it (`Unseen`), so that a producer that takes over a slot starts from nothing.
  `CharKept` is about one character: it goes to the end of what is stored and
  buffered, whether it ends a line, fits, or meets a full buffer, and the other
  producers' text stays. `FeedKept` carries it over a read of any length.
  The induction theorems of the library take the statement as a parameter; `Least`
  (a set of numbers has a least element, from `WFMin`) gives them for one set at a
  time (`UpTo`), and with it the functions that `Feed` and `TextOf` define
  recursively (`Recursion`).
* **RunnerLog.** `Good` speaks of the units on all connections, the buffer after
  them: they are in sequence (`Flow`), none belongs to a record that is still to
  come, and each record that found room is there with all its units (`Carried`).
  One emit runs through `Ready` states, in which the new line is in hand.
  Once a line was cut only weak order is claimed, as a whole line follows its
  first part.
* **RunnerServer.** A client is in one place (`OnePlace`); an invocation is the
  last record while its function runs and has its result behind it after that
  (`Paired`); there are at least as many outcomes in the log as replies
  (`Counts`); with lines that arrive whole, what is handled is what was sent
  (`WholeLine`). Clients may leave in any way, and the server be killed.
* **Emulator.** `Usage` ties the life of the store and the threads inside it to
  where main and the listener stand. Then each step of the program is a step of
  `LogStore`, or none.
* **VirtioTx.** `Counted` says that the indices are counts, reduced, and what
  each slot between them holds; `EventShown` where the store of `avail_event`
  may still be in the store buffer; `WakeInv` that wherever nothing makes the
  device look again, the ring is empty or a kick is there or due.
* **VhostBackend.** `Accounts` numbers the holders of descriptors: the open ones
  are those held, each by one. `Table`: the watch table is the kick
  descriptor of the transmit queue while that has its handler. `Reported`: what poll
  reported is still that descriptor, and still readable, when it is served, or no
  watch is found for it. `Rings` and `Emission` relate pointers to mappings and
  `last_avail_idx`, or the base the frontend keeps, to what was emitted.
* **VuQueue.** `KickInv`: while the device waits it has a kick, or the driver
  was asked for one at this index (`Asked`) and has nothing to say or is about to
  say it (`Told`); a queue with a new area never ran. `CallInv`: a driver that
  sleeps looked at all that was used, or is owed a call for no more than the queue has
  used since it last called (`Unlooked`, `Unsignalled`), and that is less than half a
  round of the indices, which the event test needs. `PlaceInv` is for the buffers.
  A crash may come anywhere, so its first parts speak of shared memory alone:
  `Recoverable` says that the heads with an inflight mark, without the one that was
  used and not yet unmarked (`Kept`), and the entries of the available ring that
  start as many places after the used index as there are of those, are together
  what the driver lent; `Completed` says the same of the used ring. `InFlight` ties
  the process to it, at each of the stores: what is kept is what the device holds,
  has to pop again or is giving back; the area's used index lags exactly from the
  flush to `PostIndex`, and its last head is then the one just used.
  `Sequential` is the counterpart without inflight records, where the device
  has the first buffers on the ring; `Resumes` places `last_avail_idx` and its
  shadow, and `IdleInv` says what a stopped queue keeps. Rings and lists are
  compared as sets without repetition (`On`, `Lists`), whose lemmas do the counting.
  `OrderInv` is for their order. `Numbered`: the ring holds the last offers, in
  their order, and what is kept was offered before. `Counted`: the counters of what
  is kept grow with the offers, are less than `Window` apart, and the next one is
  greater than all of them, also after a recovery started the counter again; this
  is what makes the comparison an order (`CheckSorted`). `Queued`: then the device's
  list and, from its end, that of a crash are in the order of the offers. That the
  marked buffers are in the window at the moment of a crash would not do: when a
  recovery has once sorted them wrongly, the counter is started from the wrong one,
  and two crashes with five buffers and a window of two break the order among
  buffers that look close.

What stays with TLC:

* Liveness under fairness.
* The results of the functions over texts (`RunnerFunctions`, and what `Logrec`,
  `ProcessLine` and `SinkEmit` of `LogLine` make of a line, checked by `MCTexts`)
  and over descriptor chains (`VuDescriptors`), recursive or iterated over their
  input. Of `Feed` it is proved that it keeps the text (`FeedKept`).
* `WatchesExact` after `vu_deinit`, which removes the watches in a fold over the
  queues. The process takes no step after that.

## 5. What is not modelled

* `device.c`, `virtio.c`, and the memory and serial parts of `vmm.c`: their
  handlers are stubs.
* `sink.c` beyond `vlog_sink_emit`: its open and close are those of the store.
* libvhost-user: postcopy, the mapping of the dirty log, host notifiers, shared
  objects, the configuration-change message. `SET_LOG_BASE` keeps `MAP_FAILED` as
  the log table when its mmap fails; nothing in this backend writes the log.
* A frontend that sends `SET_VRING_NUM`, `SET_VRING_ADDR`, `SET_VRING_BASE` or
  `GET_VRING_BASE` with a queue index out of range, which these four handlers do not
  check (`libvhost-user.c:1128`, `1142`, `1184`, `1197`; those that take a descriptor
  do): the frontend of `VhostBackend` sends valid ones. The reply that
  `SET_VRING_CALL` sends when the eventfd cannot be written (`libvhost-user.c:1546`)
  has no effect on the state and is left out.
* Headers under `standard-headers/` other than `vring_need_event`: constants.
* Argument parsing, the oracle and the test programs, `project_0`.

Seen in the code, modelled, and not called wrong by any document of the
repository:

* End of file on the vhost socket reads as request 0 and exits with status 0, so
  `backend.c:208-221` is not reached.
* `vu_add_mem_reg` translates the rings before it counts the new region: once
  the region of a stopped ring was removed, any added region ends in a panic. A
  memory table that omits a stopped ring's region panics too.
* An accept error other than `EINTR` ends the runner. So does a client that closes
  and then resets its connection before its reply is written (`runner.c:438`):
  SIGPIPE is not ignored there either. Whoever waits in the backlog is lost with it.
* A client that connects and sends nothing stops the runner until it leaves.
* A table of indirect descriptors in two regions is copied to the wrong places, and
  past the end of a buffer on the stack when 16 times the descriptors of its first
  part, and the rest, are more than 1024 (`libvhost-user.c:2331`).
* `vu_log_write` aborts when a page is beyond the log the frontend gave it
  (`libvhost-user.c:487`).
* A connection with both data and hang-up gives the listener one read; the rest
  of its data, and a last line without a newline, are dropped.

## 6. Plan

Done: the modules above, in the order log store, listener, runner, emulator,
transmit path, control plane, queue interface, descriptor walks, wire format;
then the proofs of section 4.

Next:

1. **Proofs**: the walks of `VuDescriptors` over a chain, with `Recursion` of
   `NetlogProofs` in place of their iteration.
2. **Composition** of the runner's log sink with the listener: what the collector
   stores of what the runner logged.
3. **Device helpers** and the guest library, as far as they are written.
