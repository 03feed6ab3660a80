# NERS: TLA+ specifications

NERS is a staged HTTP server in Rust. Its multi-core binary
(`ners-core/src/main.rs`) accepts connections on the main thread, stores them in a
slab behind a mutex, and passes their slot numbers ("connection ids") through five
executor threads over lock-free single-producer single-consumer rings. Around that
core the repository keeps a single-threaded variant of the stages (Phase 1), a metrics
collector, a metrics analyzer with policies and a tuner, an HTTP/2 library with HPACK,
a sharded slab, an I/O multiplexer and a bridge to a prediction model.

This directory models the server, its single-threaded variant, what watches and tunes
them, the request parser, the HTTP/2 library and the sharded slab: TLA+ modules, TLC
configurations (`MC*.cfg`, `Doc*.cfg`) and TLAPS proofs (`*Proofs.tla`). Paths below are relative to `src/`.
`PROJECT.json` maps every definition to the lines it stands for.

    tlc -workers 2 -config MCPipeline.cfg MCPipeline
    tlapm PipelineProofs.tla

## 1. Inventory

| Component | State | Operations | Made correct by |
|---|---|---|---|
| Ring queue, `ners-core/src/queue.rs` | `head`, `tail` (atomics), slots | `push`, `pop`, `len`, `is_empty` | no slot written while it is read; FIFO; `Err` only when full, `None` only when empty, as far as a thread can know |
| Connection slab, `conn.rs` | `slots`, `free_list` | `insert`, `get_mut`, `remove`, `active_count` | the free list holds exactly the vacant slots, once each |
| Stages (multi-core), `stage.rs`, `net.rs`, `handlers.rs` | the fields of `ConnState`, sockets | five `process_one` | each stage finds the connection as the stage before left it; the client receives its own response |
| Executors, `executor.rs`; orchestrator, `orchestrator.rs` | stop flags, mutex, thread-local id | `run_loop`, `shutdown`, `join`, `Drop` | one holder per id; nothing half done after `join`; every thread ends |
| Main, `main.rs` | accepted streams | accept, insert, push | a refused stream is closed; counters agree with the slab |
| Phase 1 stages, `stage.rs` | the stages' `Vec` and ring queues, metrics | seven `process`, round robin | a requeue never fails; lengths reported agree with the queues |
| HTTP/1.1 parser and builder, `parser.rs`, `response.rs` | none | `parse`, `build` | no part is taken for the whole, nothing whole for a part; bytes consumed |
| Metrics, `ners-metrics/src/lib.rs` | atomic counters | record, snapshot, reset | no update is lost to another thread or to a reset, and none survives one |
| Analyzer, policies, tuner | snapshots, thresholds, action log | analyze, apply, rollback | the log is bounded and keeps its record, actions follow from the snapshots |
| HTTP/2 connection, streams, frames, HPACK | stream states, windows, settings, dynamic tables | frame handlers, encode, decode | legal stream states, windows, both tables equal; a frame is found where it begins |
| Sharded slab, NUMA, `slab/sharded.rs`, `numa.rs` | shards with free lists and counters | allocate, insert, deallocate, balanced choice | free lists and counters exact; balancing finds room (not used by the server) |
| ML bridge, `ners-ml/src/bridge.rs`, `features.rs` | window of features, cached prediction, counters | add, predict, enable | no prediction older than the cache allows (not used by the server) |
| I/O multiplexer, CPU affinity | pending operations; none | submit, poll; pin | `poll` is a stub; created by the executors and not used |

How they interact in the server:

    clients -- sockets -- main --> parse --> route --> app --> encode --> net_out -- sockets -- clients
                           |         |         |        |        |          |
                           +---------+---- Mutex<ConnSlab> ------+----------+
                           +---------- MetricsCollector (atomics) ----------+

An arrow is a ring with one producer and one consumer. A thread that pops an id locks
the slab, runs its stage on the slot, pushes the id onward *while it holds the lock*
(`executor.rs` 105-111) and unlocks. Only `main` allocates slots and only NetOut frees
them. The answer of `push` is ignored by the executors; `main` looks at it only to
count (`main.rs` 72). An id is thus a permission to work on a slot, and most of what
can go wrong in this server is an id that is in two places or in none.

What is hard about it: the atomic accesses of the rings (interleaving); the window
between a pop and the lock, in which a slot could be freed and reused; queues smaller
than the slab; requests and responses that take more than one read or write; resets
of sockets and of counters; stopping, joining and panicking threads; what one thread sees
of another's stores. The list, at the line where each bites, is
`hazards` in `PROJECT.json`.

## 2. Modules

| Module | Models | Role |
|---|---|---|
| `BoundedFifo` | – | what a queue promises: FIFO, bounded, truthful answers |
| `RingQueue` | `queue.rs` `push`, `pop` | every load and store is an action, with release and acquire; implements `BoundedFifo` |
| `RingQueueLen` | `queue.rs` `len`, `is_empty` | adds `len`, called by either thread, to `RingQueue` |
| `StageChain` | – | what a chain of stages promises: ids enter, move one stage onward, leave |
| `ConnSlab` | `conn.rs` slab | operators on `slots` and `free_list`, used by `Pipeline` |
| `Connection` | `conn.rs` connection state, `handlers.rs`, routes | what `Pipeline` and `Phase1` share |
| `Pipeline` | `main.rs`, `stage.rs` (multi-core), `net.rs`, `handlers.rs` | the whole server with its clients; implements `StageChain` |
| `Executors` | `executor.rs`, `orchestrator.rs` | the threads, lock, panics and shutdown; implements `StageChain` |
| `Phase1` | `stage.rs` (the `Stage` implementations), `net.rs` | the single-threaded stages with their clients |
| `H2Connection` | `h2/connection.rs`, `h2/stream.rs` | the server's end of an HTTP/2 connection, with a client and the frames on the way |
| `Hpack` | `h2/hpack.rs` | one direction of header compression: encoder, blocks, decoder |
| `Tuning` | `tuner.rs`, `policy.rs`, `analyzer.rs` | the tuning engine with either policy |
| `Frames` | `h2/frame.rs` | HTTP/2 frames to bytes and back |
| `HttpParser` | `parser.rs` | HTTP/1.1 requests that arrive byte by byte |
| `ShardedSlab` | `slab/sharded.rs`, `slab/numa.rs` | the slab with a shard per core |
| `Metrics` | `ners-metrics/src/lib.rs` | the latencies of a stage, each atomic access an action |
| `MlBridge` | `ners-ml/src/bridge.rs`, `features.rs` | predictions, their window and their cache |
| `MCPipeline`, `MCExecutors`, `MCPhase1`, `MCH2Connection` | – | constants, symmetry and bounds for TLC |
| `MCRingQueue` (rings, shards), `MCTuning` (tuning, metrics, bridge), `MCFormats` (HPACK, frames, requests) | – | the same, for machines that share no state: `part` says, once and for all, which of them moves in a behaviour |
| `Selection` | – | the elements of a sequence that are in a set, as a function that proofs can unfold |
| `DataFacts` | – | lemmas: induction, recursion, sums, selections, lists of vacant slots |
| `PipelineProofs`, `ExecutorsProofs`, `Phase1Proofs`, `H2Proofs` | – | theorems about the module of that name |
| `ContainerProofs` | – | theorems about `RingQueue` and `ShardedSlab` |
| `AdvisingProofs` | – | theorems about `Tuning`, `Metrics` and `MlBridge` |
| `FormatProofs` | – | theorems about `Hpack`, `Frames` and `HttpParser` |

### RingQueue

`push` is `PushLoadTail` (38-40), then `PushFull` or `PushRoom` (the load of `head`,
42), `PushStoreSlot` (46), `PushStoreTail` (47); `pop` likewise. Slots hold ids or
`Empty`, the mark `usize::MAX` that `new` and `pop` store. `ptail` and `chead` are the
threads' copies of their own index.

*Memory.* The stores are `Release`, the loads `Acquire`, and the model goes no further
than they do. `stores` lists what `tail` and the slots were after each store of `push`
that `pop` may still load, `heads` the values of `head` that `push` may still load. A
thread reads its own index as it last stored it, and of the other's stores any that is
not older than one it has synchronised with (`Since`). Listing tail and slots together
is what `Acquire` gives: who sees a store of `tail` sees the slot stored before it.
With a relaxed load of `tail` (`PopNonEmptyRelaxed`, a mutant) `pop` may see the new
tail and the old slot, and the run finds it. A late view of `head` costs room and
nothing else.

`BoundedFifo` promises as much: `seen` of the ids in the queue are sure to be found by
the next pop, `owed` of the places it has vacated are still taken to the producer, and
both threads may learn more at any time. `Pipeline` may use the latest values. A pop
that does not see the newest id answers `None` and is called again. A push that does not see
the newest pop can be taken to come before it: each of the two threads locks the slab
between its operations, so what has not been seen has had no effect yet on the other thread.

`RingQueueLen` adds one call of `len` at a time from the producer's or the consumer's
thread (main and the executors both own their queues). Its loads are `Relaxed`: the
caller gets its own index and any value of the other that it may still load. A third
thread may call it too; what it reads is then only an estimate, since head and tail are
loaded at two moments, and no property is claimed for it.

### Pipeline

One action per outcome of each handler, e.g. for NetOut: `NetOutSent` (everything
written: slot freed, socket closed), `NetOutPartial` (would block), `NetOutError` (the
client is gone). `hand[s]` is the local variable `id` of thread `s`.

*Atomicity.* A pop is one step; lock, `process_one`, push and unlock are another one.
`Executors` has the same threads with pop, lock, work, push and unlock apart, and both
implement `StageChain`, in which a stage works in one step. What `Pipeline` uses of the
lock (a stage works alone, and its push is made before anyone else can lock) is what
`Executors` shows; the queues it uses are what `RingQueue` shows of the rings.

*Data.* A request is of a class and arrives in `Segments` pieces. `root`, `api`, `health`
and `other` are well-formed requests for a page or for none. `cut` is one with a
character that the pieces may cut in two, `bare` one without header fields, `malformed` one that
no parser could read. The parser is its three outcomes, and `ParseOf` says which of them
the first n pieces may have: text that is not UTF-8 is `Invalid` at once, be it malformed or the
part of a `cut` request; the whole of a `bare` request is still `Incomplete` (`parser.rs`
49-56; `HttpParser` has the same on bytes). A response is a sequence of chunks tagged with the route; the landing page is one chunk
larger than a socket buffer (it has 900 KB), the others fit. `SendBuffer` is what a
fresh socket takes at once. Keep-alive does not occur: NetOut closes after a response.

*Environment.* A client connects, sends its request piece by piece, may leave at any
moment (reset or close), and receives what NetOut writes while it is there. It never
has to do anything: no fairness on `Environment`.

### Executors

`Count` executors in a chain, each with a stop flag, the mutex `lock`, a round of at
most `Batch` pops between two reads of the flag (the code takes 100), and the
application thread that inserts ids, then sets the flags and joins, or drops the
executors (which sets flags and joins nothing). `WorkPanic` ends a thread inside
`process_one`; the guard releases the mutex, which parking_lot does not poison. The
idle sleep, the core pinning and the counters of a round change no modelled state.

### Phase1

The six `Stage::process` functions, all on one thread. `Begin` is a call of `process`,
each handler action is one turn of its loop of at most `Batch` (100 in the code), and
`Return` ends it on an empty queue or after the last turn; clients act between turns.
The code that calls the stages is not in the repository, so they come in any order.
Parse and NetOut put a connection back into their own queue (`ParseIncomplete`,
`NetOutPartial`), which is what makes `QueuedExactlyOnce` worth checking: between two
turns an id must be in exactly one queue, once. `queue_len` is the set of counters in
the metrics, with the code's peculiarity that App counts for `net_out` and Encode does
not count. A client takes chunks out of its socket with `Read`; `unread` is what makes
the next write partial. A failed requeue drops the id, as in the code; the instances
give every queue room for every slot. `NetInStageMulti`, which nothing calls, is left out.
`PatientIsAnswered` is about requests that the parser can make sense of and of which no part
was found `Invalid`: a `cut` request may be answered or have its connection closed, as its
pieces fall.
`MCPhase1` has a third client that connects when the others have, sends nothing and
does not leave: it takes the slot that one of them gave back, or fills the slab.

### H2Connection

`process_frame` is one action per frame type (`ProcessHeaders`, `ProcessData`, ...); `streams` is
the map, from which nothing is ever removed; `outgoing` is what `take_outgoing` returns.
The code is a library without a caller in the repository. The model's caller feeds it
frames in order and forwards its answers; its application asks `can_send` first and
consumes the window of the stream, which is all the library offers it. The client
keeps to the protocol; `view`, `credit` and `conn_grant` are what it believes of streams
and windows, and frames of both sides cross in `to_server` and `to_client`. Window
arithmetic is that of an `i32` with `MaxWindow` for its maximum: stream windows saturate,
the connection's wraps as in a release build (a debug build panics). Header lists are
left out here. Not handled by the code and so absent: CONTINUATION, PRIORITY and PUSH_PROMISE.

### Hpack

`AddEntry`, `Evicted` and `Resize` are
the code's loops with its separate `current_size`; `Prescribed` is the table as the
format defines it (of the newest entries as many as fit), which a conforming client
keeps. `Encode` is the library's encoder with its habit of stopping at the first static
field of the right name; `Peer` is a conforming client, which may refer to any entry or
spell a field out, and resize its table. While
`MaxQueue` blocks are on their way no new one is begun; the decoder is a function of
the blocks it gets, so this loses nothing. Indices, table sizes and the lengths of strings travel as bytes
(`EncodeInteger`, `DecodeInteger`). The loops of the code over
bytes, fields and representations are functions of how far the loop has come (`Continued`,
`later`, `Encoded`, `Decoded`), which proofs can unfold.

*Strings.* A string on the wire (`AsString`) has its flag, its length and octets: those of the string,
or, if the client chooses so, those of its Huffman code (`Huffman`). `DecodeString` is what `decode_string`
does: it looks at the flag and makes no use of it, and reads the octets with `from_utf8_lossy` (`Lossy`).
So a Huffman code arrives as other text, enters the table as such and is counted with another size.
`legible` remembers whether every string so far was written raw and in UTF-8, and what
`HeadersArrive` and `TablesAgree` say of fields and of the client's table they say under
that condition only: without it they do not hold (section 5). The code
reads a string of a Huffman code as the format has it, length and all, so that the
block as a whole is not garbled. A header block comes in one frame: `connection.rs` 153-155
decodes each HEADERS fragment as if it were all.

### Frames

`Serialized` and `FrameIn` are the two directions for all ten types, on bytes: numbers
of 24 and 31 bits, flags as bits. Frames are sent one after the other, arrive a byte at a time, and
`parse` may be called after each (`ParseFrame`). A frame whose payload is too short is
taken off the buffer and then reported; one of an unknown type (`ParseUnknown`) is
reported and stays there, so the next call reports it again. `RawSent` has frames that
this library does not write: these two, and one with reserved bits and flags set.
PADDED and PRIORITY are unknown to the code: padding stays in the data, and the five bytes of a
priority in front of the header block.
`Frame` is the set of all frames that the enum has, with what its fields can hold on the
wire (31 bits of a stream id). `FramesAssumption` takes what is sent from it, and no payload beyond
the 24 bits of a length, which `serialize` would cut off.

### HttpParser

`Parse` is a function of the read buffer, from `from_utf8` over the end of the headers, the
request line, the map of fields and the content length to the count of consumed bytes. A byte is a
string; the words have a letter each, and a character of two bytes is `"lead"`, `"cont"`.
Content lengths are decimal numbers of any length, with the plus sign that `usize::from_str`
allows; what is no number, or is above `UsizeMax`, counts as 0. What `split` and `collect` do
is written as a function over the prefixes of what they read (`Split`, `HeadersOn`).
`WellWritten` says which requests a client writes: words without blanks, keys without a
colon, no line ends in either, values as they will be trimmed, a body as long as the fields
say, UTF-8 from end to end (a body of other bytes is `Invalid` for ever, since line 49 looks at the whole buffer), and no more bytes than a usize counts, so that the sum of lines 84-85 is exact.
`Meant` says what the client meant, without looking at bytes.

### ShardedSlab

`TakeSlot` and `InsertConnAt` are the shard's own two calls, `Allocate` and `Deallocate` the
manager's, `AllocateBalanced` puts a connection on the least loaded core of all or of a
node. `held` is what callers hold; they give back only that, since `deallocate` asks nothing.
What a second `deallocate` of a slot would do is therefore outside of the model.
`NodeOf` is the map of `numa.rs`: a core beyond what the nodes divide gets a node that
does not exist. More nodes than cores divide by zero (60), which the assumption excludes.

### Metrics

`record_stage_end` is `AddLatency`, `LoadMax`, `RaiseMax` or `RaiseFails` (a compare-exchange
that met another value, or fails for no reason) and `IncProcessed`; `reset` is its stores one
after the other. All are `Relaxed`: `maxima` are the values of `latency_max_ns`, and a load
returns any that is not older than one the thread has seen (`fresh`). A request whose recording
overlaps a reset may be in one counter and not in another, so the property has two
bounds: `counted` must be in the counters, `countable` may be. Percentiles are computed
from a copy and left out; gauges and error counts are single additions, modelled where the stages use them.

### MlBridge

`AddFeatures` normalizes a sample into hundredths and pushes it into the window;
`Rule` is the embedded heuristic, first match first. `Predict` and `PredictIfConfident`
answer from the cache while it is younger than `CacheDuration` ticks, else
from the latest features; both count as the code does. `SetBridgeEnabled` leaves the cache
alone, which is why the property speaks of it. Trends over the window, which nothing reads, and
loading a model from a file are left out.

### Tuning

`Process` is the whole of `TuningEngine::process`: snapshot into the analyzer, trends,
the policy's suggestions, validation, log, rollback mark, baseline. The numbers of the
queue rules are the code's (100, 500, 10,000, tenths). The products in `f64` are exact
quotients: for lengths up to 200,000 both give the same integer. `order` is the order
in which the hash map of stages is iterated, the same for the map and its clone, chosen
anew for each snapshot. Time is in units of 5 seconds (`Tick`). The binary does not run the engine.
`constraints` are chosen at the start, as `TuningEngine::new` takes them. With the default ones (100 and 10,000)
nothing is ever rejected, since the policies clamp what they suggest at the same numbers.

## 3. Runs

| Run | Instance | Shows |
|---|---|---|
| `ring` | 4 slots, 2 ids; 3 shards of 2 slots | `IInv`, `SlotsApart`: the threads never meet in a slot; `FifoRefinement`: the ring is a FIFO with room for 3; `LenOnSafeSide`: `len` errs on the safe side for its two owners; `ShardsExact` |
| `pipeline` | 3 clients, 2 slots, queues with room for all, fair threads | `ResponseIntegrity`: nobody gets another's answer; `FreedOnlyWhenDone`; `ReadyIsAnswered`: a complete request with header fields begins to be answered |
| `pipeline_tight` | queues smaller than the slab, 2 pieces, requests that are cut, bare or malformed | `FreeListExact`, `OneHolder`, `HandoverReady`, `ConnCountExact`, `ChainRefinement`; `AbandonedOnlyWhere`: a connection is lost to a full queue, to Parse or to a partial write, and to nothing else |
| `executors` | 2 executors, batch 2, 3 ids, 1 place per ring | `ChainRefinement`, `StopsCleanly`, `LateBound`, `AllStop`, `IInv` |
| `phase1` | 3 clients, 2 slots, 2 pieces that may cut a character, responses of two writes | `QueuedExactlyOnce`, `QueueLenExact`, `ResponseIntegrity`, `PatientIsAnswered` |
| `h2` | 2 streams, windows of 1, 2 control frames | `ViewsAgree`, `EndIsLast`, `AnswersInOrder`, `ReceiveWindowsAgree`, `StreamsAdvance`, `TypeOK` |
| `formats` | HPACK: 4 fields, blocks of 2, raw strings, tables of 2000 to 5000 bytes, and apart from it both codings of strings and a value that is no UTF-8 in blocks of 1; 2 frames and 2 requests in a row | `HeadersArrive`, `TablesAgree` (of strings that are not legible: the counted sizes stay those of the entries), `FramesArrive`, `RequestsArrive` |
| `tuning` | 2 stages, log of 2; 2 latencies and lengths 20 and 6,985 with a maximum of 7,500, and apart from it lengths 105, 9,500 and 10,500 with the default constraints; 2 workers, 3 records, 1 reset; 4 samples, window of 2 | `ResizesGoTheirWay`, `BatchingIsWarranted`, `LogKeepsRecord`, `BaselineFollows`, `LatenciesCounted`, `PredictionsFresh`, `TypesOK` |
| `doc_incomplete`, `doc_dropped`, `doc_sending`, `doc_flow` | smallest instance | violations, section 5 |

*Why the bounds are enough.* Four ring slots give wrap-around, full and empty rings and
every distance between the indices, and two ids tell whose value is read. Three clients
on two slots make slots run out and be reused while the old id could still be around;
queues of one position (`QueueCapacity` = 2) for two slots make pushes fail at every stage, as
`main.rs` has it with 4,096 for 10,000. Two pieces
are the least that can arrive apart, and the landing page needs two writes. Two
executors are one chain link, with a batch that is shorter than the ids can be. For
these modules and Phase 1 the proofs cover what the sizes could hide.

Phase 1: two ids in a queue are the least that can overtake each other, the third client
reuses a slot, requests of two pieces are put back by Parse and responses of two chunks over
a socket of one by NetOut. HTTP/2: two streams
make the connection's window differ from a stream's; a window of 1 is used up by one frame
and `MaxWindow` = 1 makes every saturation and the wrap happen; the two control frames are any of SETTINGS,
PING, WINDOW_UPDATE and GOAWAY; one frame at a time waits in each direction beside the
answers, so that crossings happen. HPACK: the fields are one that the static table has,
one that it has second under its name, one of which it has the name, and one unknown and
large, so that an entry takes some 1,000, 2,000 or 3,000 bytes; the sizes make entries fit, evict one, evict all and never fit; the integers have
indices on either side of the 6-bit boundary (62, 63), a string of 127 octets, which is where the length
goes on in a second byte, and sizes of three bytes. Where codings are chosen, every string has a Huffman code of another
length, one of which is no UTF-8 either. Tuning: a queue below the floor and one that
overflows, which alone brings pressure for the aggressive policy and twice for the
conservative one; a maximum of 7,500 makes some increases invalid; a history of two
shifts with every snapshot and a log of two evicts within one call. The other lengths are one whose
decrease is cut off at the floor (105), one whose increase is cut off at the ceiling (9,500), and one beyond the
ceiling already (10,500).

Shards: three cores on two nodes leave the third on a node that does not exist; two slots
fill up, and order a free list. Metrics: two workers raise the maximum against each other, three
records let a small, a large and a late one meet around the reset. Bridge: a window of two
drops features while the cache of two ticks still answers from them, and each of four rules has a sample.
Frames: one of every type, a payload beyond 255 bytes, numbers whose top bit
matters, and the raw ones above, two in a row. Requests: bodies that look like the end of
headers, two-byte characters, lengths given twice, with a sign or a leading
zero, of two digits, above `UsizeMax` (255 here) or no number, request lines too short and
too long, again two in a row, so that the second one can disturb the first.

*Deadlock.* `ring` and `tuning` check for it. The others say `CHECK_DEADLOCK FALSE`,
because these systems really stop: every client connects once and the server is idle
when all are done; executors end; the client of an HTTP/2 connection uses up its
streams; no header block, frame or request
follows when its bound is reached.

*Fairness.* Weak fairness on each thread: the operating system runs a thread that is
not blocked. In `Executors` the lock has strong fairness per thread, since parking_lot
hands a contended mutex over fairly every half millisecond or so. In `Pipeline` lock
and work are one step, so weak fairness on it needs the same argument. In `Phase1` the
one thread goes on (weak fairness on the turns and on `Return`), and strong fairness on each `Begin`
says that the caller comes back to every stage: an assumption about a caller that the
repository does not contain, without which the stages promise nothing.
`PatientIsAnswered` is about clients that send everything and read again and again, which is
a condition of the property and not an assumption. Nothing is assumed of clients, of the
order in which the application thread chooses to act, or of panics.

## 4. Proofs

Each proof module states an inductive invariant, proves that the initial states satisfy
it and every action keeps it (one step per action), and derives the properties. TLC
checks the same invariants first (`IInv` in `ring` and `executors`, the conjuncts in
`pipeline_tight`); those of `FormatProofs` quantify over tables, places and texts, and are only proved.

* **ContainerProofs.** *Rings,* for every capacity and set of ids: `Invariance`, `NeverSameSlot`
  (`SlotsApart`), `RefinesFifo`, `LenIsSafe` (`LenOnSafeSide`). `IInv` says what an old
  view can be: a value of `head` that push may load is never ahead of head, and the older
  the fuller it makes the ring look (`HeadsInv`); a tail that pop may load is never behind
  head nor ahead of tail, and the slots before it hold what was pushed (`StoresInv`).
  Without them a stale copy could let the producer overwrite a slot, or the consumer take an
  old id. `len` is safe for the same two reasons. *Shards,* for every number of cores, slots
  and nodes: `ShardsAlwaysExact` (`ShardsExact`). Its invariant adds that the total of the
  counters is the number of slots held; that balancing finds room follows from it, since
  a shard is full only when its counter is its capacity, and because a least loaded core exists
  in every nonempty set of cores, the order of cores deciding between equals.
* **PipelineProofs.** For every number of clients, slots, pieces and queue positions:
  `TypeCorrect`, `FreeListStaysExact`, `OneHolderAlways`, `HandoverAlwaysReady`,
  `ConnCountStaysExact`, `AbandonedOnlyWhereSaid`, `RefinesChain`. The properties support each
  other: `remove` checks nothing, so the free list stays exact only because NetOut's id
  names an occupied slot (`HandoverReady`), which holds only because nobody else has the
  id (`OneHolder`), which holds for a fresh slot only because a free slot's id is
  nowhere (`FreeListExact` again). So the invariant is their conjunction.
  `AbandonedOnlyWhereSaid` (`AbandonedOnlyWhere`) needs no room in the queues: `main.rs` 25-26 sets 10,000 slots and
  queues of 4,096, so pushes may fail, and the theorem says that this is the one way in which a
  parsed request is lost before anything of its response is written.
  The clients come on top of that, without an assumption on the queues:
  `ClientsInvariance`, `ResponsesAreIntact` (`ResponseIntegrity`), `SlotsFreedWhenDone`
  (`FreedOnlyWhenDone`). `ClientsInv` says that a client has one slot or one place in
  the waiting line, once; that a connection holds the page that its client asked for, in
  each of its states, and that an open client has received exactly what has been written of
  it (`Served`); that who waits has received nothing. Without "once", two slots could
  serve one client, and what it receives would be of neither.
* **ExecutorsProofs.** For any number of executors, batch size and set of ids:
  `Invariance`, `OneRoundLate` (`LateBound`), `JoinLeavesNothing` (`StopsCleanly`),
  `RefinesChain`.
* **Phase1Proofs.** For every number of clients, slots, turns, pieces and chunks, if
  `QueueCapacity > SlabCapacity` (`EnoughRoom`, else a failed requeue drops an id):
  `Invariance`, `LengthsStayExact` (`QueueLenExact`), `ResponsesStayWhole`
  (`ResponseIntegrity`), `NeverLostOrDoubled` (`QueuedExactlyOnce`). The invariant ties
  three things to each other: an id that is queued, to the lifecycle state that its queue
  expects, and every open connection to a place in a queue; a connection, to what its
  client asked and has received (`Served`); a client, to one slot or one place in a
  waiting line, so that a slot that is freed and taken again cannot be mistaken for the
  old one. That no push fails follows by the pigeonhole principle: a queue with more
  positions than there are slots cannot be full of distinct ids.
* **H2Proofs.** For every number of streams, every window size and any number of frames
  on the way: `TypesCorrect`, `ViewsAgreeAlways`, `EndIsLastAlways`,
  `AnswersInOrderAlways`, `ReceiveWindowsAlwaysAgree`, `StreamsAlwaysAdvance`. Between
  the two ends there are frames, so every invariant is a sum or a selection over
  `to_server` and `to_client`: the client's credit plus the bytes on the way is the
  server's window; what is on its way down, followed by the answers still owed, is what
  the client waits for.
* **AdvisingProofs.** For any stages, workers, latencies, windows and bounds:
  `TypesAreOK` (of all three modules); `PredictionsStayFresh`; `LatenciesAreCounted`;
  `ResizesAlwaysGoTheirWay`, `BatchingIsAlwaysWarranted`, `LogAlwaysKeepsRecord` and
  `BaselineAlwaysFollows`, and the invariants they follow from. *Bridge:* the cached
  prediction is about features that ceased to be the latest no longer ago than the
  cache is old (`CacheFresh`), whether the bridge was toggled in between or not.
  *Metrics:* `processed_count` and the workers that are still to count make up all that
  may be in it (`AllProcessed`); a latency that must be in the maximum is in it or is held by a
  worker that will still raise it (`MaxCovers`), and that worker can only have loaded
  what is not above the latest maximum, which is what a stale load could break.
  *Tuning:* that the log keeps its record follows from suffixes: after a call the log is a suffix of what it was
  with the call's entries behind it, of which only the last may have been marked since.
  Resizes go their way because a product with more than 1 is cut off at the ceiling only, and one with less than 1
  at the floor only, which the policies look at before they suggest a decrease. `BatchingIsWarranted` needs that no trend is
  there before the window has been full (`NoEarlyTrend`), and that an average is not
  below the least of what it is of. `BaselineFollows` is about the moving average in
  integers: truncated, it still lies between the old baseline and the latency.
* **FormatProofs.** *HPACK:* `HeadersAlwaysArrive` (`HeadersArrive`) and `TablesAlwaysAgree`
  (`TablesAgree`), for every set of strings with any lengths, codes and lossy readings, every set of fields, every table size and any number of blocks on their
  way. What is said of fields and of the client's table holds while the client writes raw UTF-8 (`legible`); that the counted
  sizes are right holds for whatever it writes. An integer decodes to itself, whatever bytes follow it (`IntegerDecodes`, by induction over
  its bytes, 128 at a time). The loops of `add_entry` and `resize`, which evict from the end and
  count as they go, leave the table that the format prescribes
  (`AddEntryPrescribed`, `ResizePrescribed`): of the entries as many of the newest as fit. So a
  representation decodes to its field and to the table that its encoder went on with. The invariant
  `HpackInv` gives every block on its way the table it will be decoded by, the first
  the decoder's and the last the encoder's (`Follows`), as long as all is legible; that the tables agree when nothing is on its
  way is what is left of it. The library's own encoder never refers to its table,
  so its blocks decode by any table.
  *Frames:* `SerializedIsFrame`, for every frame of the ten types, and `FramesAlwaysArrive`
  (`FramesArrive`), for any frames and any other well-formed header and payload. The first says that
  the bytes are a header and a payload of the length it names, and that the fields read back are those written:
  24 bits of a length in base 256, flags as bits, 31-bit numbers below a reserved bit, settings of six bytes.
  The second says that `parse` finds each frame where it begins: `FramesInv` lays the frames that were not yet
  taken off end to end over the buffer and what is on its way (`Lays`), and an error
  of an unknown type, after which nothing is taken, can only stand at the end of what was parsed (`Returned`).
  *Requests:* `RequestsAlwaysArrive` (`RequestsArrive`), for every set of well-written requests;
  those without fields are left out (section 5).
  What `Split`, `Joined` and `HeadersOn` compute is recursive, so each is first proved to be the value
  of a function that exists (`RecursionExists`), and from that to go on by one element
  (`SplitAppend`, `JoinedAppend`, `HeadersOnAppend`). Then splitting undoes joining: the words of a request line
  are read back (`WordsAreRead`), and the lines of the fields make the map that keeps of each key the last value
  (`HeadersAreRead`). That the first end of headers is that of the first request needs that no empty line
  is inside a head, also not where two lines meet (`LinesOfRequest`). `ParseFinds` puts
  this together for any buffer that agrees with the request as far as both go; the invariant
  `ArrivingInOrder` says that the buffer does, since it and what is on its way begin with
  the first request, and that the whole is UTF-8, so that only a buffer that ends within a character is not.
* **DataFacts.** What the other modules share. Induction is stated with a set in place
  of a predicate (a set of numbers that has 0 and is closed under successor), which the
  provers can instantiate, and so is the existence of recursive functions
  (`RecursionExists`); with it come the sums (`SumFunction`) and the selections (`Members`) of sequences: of a concatenation, of what is appended or taken away,
  and the bounds of a sum. `ListsVacant` says that a list has each vacant slot once:
  what `insert` takes and `remove` puts back keep it so, in `Pipeline` and in `Phase1`.

The assumptions on constants (`CapacityAssumption`, `PipelineAssumption`, ...) say that
sizes are positive and markers differ from values; TLC evaluates them in the runs.

Only model-checked:

* liveness (`ReadyIsAnswered`, `PatientIsAnswered`, `AllStop`), which TLAPS cannot do
  under fairness;
* the violations of section 5, which are counterexamples.

## 5. Where code and documents disagree

* `doc_incomplete`: `stage.rs` 209 says of an incomplete request "put back in queue";
  the code returns `None` and the executor drops the id. A connection whose request is not
  complete when Parse looks at it, even not begun, is never looked at again and keeps its slot.
  In the shortest trace the client has only connected.
* `doc_dropped`: `conn.rs` 25 says of `Processing` "Handler is processing the request". The executors ignore a
  push that fails (`executor.rs` 108), and `main.rs` 25-26 makes the slab larger than the queues:
  a routed request whose id did not fit is forgotten in that state.
* `doc_sending`: `conn.rs` 27 says of `Sending` "Response is being sent"; after a partial
  write no thread has the id, so the rest of a landing page that exceeds the socket
  buffer is never sent. Phase 1 pushes the id back (497).
* `doc_flow`: `README.md` 22 promises HTTP/2 with flow control. The connection's send
  window is added to (`connection.rs` 189) and read by nobody, nor can the application
  see it, so two streams within their own windows exceed the connection's.

Observed while modelling, without a run.

*Disagreements that no run is about.* Where a property would fail on one of them, its comment names the exception:

* `parser.rs` 12 calls `Incomplete` a request that needs more data; a request line followed at once by
  the empty line is complete, and `parse` answers `Incomplete` for ever, because it looks for the end of the
  line (56) in a text that was cut just before it (52-53).
* A buffer that ends within a character is `Invalid` (49), although the rest may be on its way. The
  stages mark its connection `Closed` and never look at it again. A body that is not UTF-8 is `Invalid` for ever.
* `hpack.rs` 3 says that the module implements RFC 7541; `decode_string` takes Huffman codes for text
  (206-221, "Simplified: just use raw bytes for now"), and most clients write them.
* `policy.rs` 12 has `IncreaseQueueSize` for "Increase queue size for a stage"; the aggressive policy asks for 10,000
  also where the queue is longer (192), which the reported length of the parse queue, as it only grows, will be.
* `tuner.rs` 30 has a "Minimum queue size"; an increase is compared with the maximum only (130-133), so that one
  from 20 to 22 is applied with a minimum of 100.
* `tuner.rs` 34 has "Maximum actions per minute", which nothing reads.

*Other observations.* A parse error sets `Closed` and leaves slot and
socket as they are (`stage.rs` 213); the reported parse queue length only grows in the
multi-core server (`main.rs` 73); nothing sets the flag that would end `main`'s loop, so
the shutdown of lines 95-98 is not reached by this program; `NetInStageMulti` (which
`main` does not use) drops accepted streams after the first; the README lists `/health`,
which the image's health check asks for, and the route stage answers it 404
(`handle_health` has no caller); Phase 1 polls the incomplete request of a client that
is gone for ever; the HTTP/2 connection removes no stream, sends no WINDOW_UPDATE,
ignores CONTINUATION, lets trailers overwrite the request's headers, and gives a new
stream its own initial window as the window for sending, not the client's; `max_queue_size` is not checked for decreases; one
call of the conservative policy may both increase and decrease the same queue; an increase of the
aggressive policy may be none; a rollback may mark an action that the same call returns
as applied; `record_stage_start` and `record_stage_end` measure `Instant::now().elapsed()`, a
time of about nothing, so that latencies are noise (`ners-metrics/src/lib.rs` 152); the gauges
wrap below zero when what they count ends after a reset; on a machine with more NUMA nodes than
cores `numa.rs` 60 divides by zero, and where the nodes do not divide the cores some get a
node that does not exist; a frame of an unknown type stays in the buffer and is reported
for ever; PADDED is ignored and a PRIORITY dependency serialized unmasked; what `policy.rs` 125 calls
"consistently overflowing" is overflowing in the latest snapshot.

## 6. Not modelled, and the plan

The server, the parts around it and both protocol libraries have models. What is left, in
this order:

1. *Phase 1.* `NetInStageMulti` as an action beside `NetIn`: it takes one of the streams
   that it accepted and drops the others.
2. *Formats.* The head that the response builder writes, and content lengths whose sum
   overflows a usize (a panic in a debug build, which `Executors` has as `WorkPanic`).
3. *Metrics.* Percentiles of a snapshot; the latency and throughput trends of the analyzer.

The I/O multiplexer has no behaviour to model: nothing is submitted to it, and its `poll` is a stub
that completes nothing.

Outside for good: CPU affinity and reading `/sys` (system calls), the landing page's
text, float arithmetic of the predictor beyond hundredths, benchmarks and tests.
