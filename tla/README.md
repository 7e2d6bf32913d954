# A verification of the order book, its metrics pipeline and its feed handler

TLA+ models of the code under `src/`, TLC configurations that check them on small
instances, and TLAPS proofs of the properties that matter most for all instances.
Paths below are relative to the repository's `src/` directory.

## 1. The system

**Phase 1, the engine** (one thread).

| Part | State | Operations |
|---|---|---|
| `OrderBook` (`src/orderbook.cpp`, `include/orderbook.hpp`) | map id -> order, price ladder of levels per side, occupancy bitmap, cached best index, counters, id counter | `addOrder` (two overloads), `cancelOrder`, `modifyOrder`, `executeMarketOrder`, `submitLimit`, `submitMarket`, `getDepth` |
| `PriceLevel` (`include/price_level.hpp`) | intrusive doubly linked FIFO, total quantity, count | `addOrder`, `removeOrder`, `reduceHeadQuantity`, `adjustTotalQuantity` |
| `ObjectPool` (`include/object_pool.hpp`) | chunks, intrusive free list | `allocate`, `deallocate`, growth |
| ITCH parser (`include/itch_parser.hpp`) | none | `decode` a message, `parseBuffer` a framed buffer |
| `BookReplay` (`include/book_replay.hpp`) | counters | drive the book from messages |

**Phase 2, metrics** (matching thread -> aggregator thread).

| Part | State | Operations |
|---|---|---|
| `MetricsRecorder` | sample count, drop counter | `recordLatency`, `recordSnapshot`, `recordTrade` |
| `SPSCRing` | head, tail, a cached view of each, slots | `try_push`, `try_pop` |
| `BookPublisher` | sequence number, one `BookView` | `publish`, `read` (seqlock) |
| `Aggregator` | running flag, window and all-time histograms, tape, last alert count | `run` (drain, `ingest`, `render`), `stop` |
| `LatencyHistogram` | buckets, count, sum, maximum, minimum | `record`, `merge`, `reset`, `percentile` |
| `evaluateAlerts`, `writeJson`, `UdpPublisher` | last drop count; sent and failed | four alert rules; a frame as one datagram |
| drivers (`metrics/itch_metrics_replay.cpp`, `metrics/aggregator_demo.cpp`) | interrupt flag | feed the book or make events, stop, join |

**Phase 3, the RTL feed handler** (`fpga/rtl/`): `axis_reg` (skid buffer),
`axis_skip_align` (drops leading bytes and realigns), `eth_parser`, `ipv4_parser`,
`udp_parser`, `mold_parser`, `itch_parser`, chained by `feed_top` with ready/valid
handshakes.

Interactions: the engine calls the recorder at the end of every add, cancel and modify;
the recorder pushes to the ring, whose other end the aggregator drains; the matching
thread publishes depth through the seqlock, which `render` reads; the driver stops and
joins the aggregator, at the end of its file or after Ctrl-C. Each RTL stage feeds the next through a stream that may stall.

What is hard: the book keeps five redundant structures in step by hand; the sweeps read a
level again after `cancelOrder` has changed it; the ring and the seqlock synchronise two
threads by nothing but index and sequence loads that may be stale; shutdown races the last
events; the RTL stages hold back and realign frames under any pattern of stalls.

The properties that make the parts correct, by part: *book*: the structures agree, the best
price is the best, no quantity is created or lost, trades follow price-time priority, a
matched book is not crossed, every call returns. *Ring*: no slot is touched from both
sides, elements arrive once, whole and in order. *Seqlock*: a successful read is one
publication; a read ends. *Pipeline*: every recording is consumed, dropped and counted, or
sampled out; the last frame reflects all of it; shutdown ends. *Frames*: a percentile is
within one bucket of the true one of its window, an alert is raised when it is due and only
then, a datagram has no hole. *Replay*: the book follows the feed. *RTL*: every stage's
output is what the reference unwrapping finds in its input frames, under every stall
pattern; gaps are flagged; hardware and software decode the same messages.

## 2. Modules

| Module | Models | Used by |
|---|---|---|
| `OrderBook` | the engine, levels and pool as sequence and set of slots | `MCOrderBook`, `OrderBookRefinement` |
| `PriceTimeBook` | abstract: queues and price-time priority | `OrderBookRefinement` |
| `OrderBookRefinement` | the mapping from the first to the second | `MCOrderBookRefinement`, `OrderBookProofs` |
| `PriceLevel` | the linked lists of the levels | `BookStorage` |
| `ObjectPool` | the free list and its growth | `BookStorage` |
| `BookStorage` | both, as the book's methods use them | `MCBookStorage`, `BookStorageProofs` |
| `BookReplay` | the replay layer, on `OrderBook`, and the venue that feeds it | `MCBookReplay`, `BookReplayProofs` |
| `SPSCRing` | the ring, at memory-access grain | `MetricsPipeline`, `MetricsPipelineProofs` |
| `BoundedFifo` | abstract: a bounded queue | `SPSCRing` |
| `BookPublisher` | the seqlock, word by word | `MCBookPublisher`, `BookPublisherProofs` |
| `MetricsPipeline` | recorder + ring + aggregator + driver | `MCMetricsPipeline`, `MetricsPipelineProofs` |
| `LatencyHistogram` | the histogram's operations | `MetricsFrames` |
| `MetricsFrames` | what the aggregator's frames say: rows, alerts, datagram | `MCMetricsFrames`, `MetricsFramesProofs` |
| `SkipAlign` | the gearbox, by clock edge | `FeedHandler` |
| `ItchParser` | the software and the hardware message decoder | `FeedHandler` |
| `FeedHandler` | the RTL layers, each between a source and a sink | `MCFeedHandler`, `FeedHandlerProofs` |
| `NumberLemmas` | lemmas about `%` and `\div`, and about sums over finite sets | the proof modules |
| `MetricsPipelineProofs`, `BookPublisherProofs` | theorems about the ring and the pipeline, and about the seqlock | |
| `OrderBookProofs` | theorems about the engine: its structures, then its quantities and priorities | |
| `BookStorageProofs` | theorems about the lists, the pool and both together | |
| `BookReplayProofs` | theorems about the replay, from those about the engine | |
| `MetricsFramesProofs` | theorems about the histogram and the aggregator's use of it | |
| `FeedHandlerProofs` | theorems about the RTL layers, the gearbox and the register slice | |

Definitions named `X_Something` under a comment `MUTANT` are wrong variants of `X`. They
are used by no specification; replacing `X` by them shows that the property named in
`PROJECT.json` would notice.

### OrderBook

`orders_`, `words_`, `best_idx_`, `count_`, `total_orders_`, `next_order_id_` are the
members of the class, indexed by side where the class has a bid and an ask copy; the two
halves of every method are mirror images and one definition here. An `Order*` is a slot of
the pool and is distinct from the id, so that the id map, the slot's contents `pool_` and
the level lists `levels_` can disagree, and a freed slot can be reused. The bitmap is the
set of indices whose bit is set.

`addOrder`, `cancelOrder` and `modifyOrder` are relations on the book and one step each
when called from outside. `match` and `executeMarketOrder` call `cancelOrder` from their
loops and are cut there: entering a level, one fill, leaving the level and returning are
steps, with the call's locals in `op`. `submitLimit` rests its remainder in the step that
returns. Quantities and indices are unbounded integers, so that an unsigned subtraction
that would wrap shows as a negative number and breaks `TypeOK`.

Two kinds of client are told apart. `TradingSpec` is a client that only uses the matching
engine; `Spec` adds the market-data path, which places orders directly and may cross the
book. Both let `modifyOrder` and requests use every quantity in `Quantities`, zero included
where a configuration says so. Callers supply an id only when no resting order has it.
`SeparateIds` says whether the ids they supply also keep clear of the numbers the book will
assign itself; with `FALSE` the model shows what the code does when they do not.

### PriceLevel, ObjectPool and BookStorage

What `OrderBook` abstracts. In `PriceLevel`, `head_`, `tail_`, `next` and `prev` are the
code's pointers; `at` is the level that an order's side and price name and `fifo`, a history
variable, the sequence `OrderBook` has in place of the pointers. Several levels share the
orders, as a removed order's links are reused wherever it rests next. In `ObjectPool` a slot
holds an object (`LIVE`) or the pointer to the next free slot, as the union does; slots are
numbered in the order of their chunks; `stack` is the free list the links should spell.
`BookStorage` makes the calls that the book's methods make of both: resting an order allocates
and links, removing one unlinks and deallocates. Its properties include those of the parts,
now that a slot handed out twice would corrupt a list.

### BookReplay

`onMessage`'s four handlers call the actions of `OrderBook`. `onReplace` is two steps, as it
makes two calls of the book (`replacing` is its local state). The feed comes from a venue that
keeps its own open orders (`venue`), of the target symbol and of others, and sends only
messages about open ones: the inputs are the feeds a venue can send. Prices arrive in 1/10000
dollar and are divided as `toCents` divides them.

### SkipAlign, ItchParser and FeedHandler

A step is a clock edge: all registers change at once. The source offers a beat or not, the
sink is ready or not, freely; an offered beat stays until it is accepted, as AXI-Stream
demands. Which layer stands between them is chosen in `Init`: `eth_parser`, `ipv4_parser`,
`udp_parser`, `mold_parser` with `itch_parser` behind it, the gearbox alone, or `axis_reg`.

In `SkipAlign` the variables are the gearbox's registers; `buf_q` is the sequence of the
`cnt_q` bytes staged and the loop over the lanes is a subsequence (`Gather`). In
`FeedHandler`, `eth_parser`, `ipv4_parser` and `mold_parser` share what they have in common,
holding the opening beats back (`hb`, `nheld`), replaying them and passing the rest on
(`HoldAndReplay`); each has its own `Sniff...`, with non-blocking assignments reading the
registers as they were before the edge. `seq_hi_r` is not a variable: the sequence number
is looked at when its last bytes arrive. A byte is its frame's number and its place, so that a
byte that is lost, repeated or taken from another frame is seen; what a header says is in the
frame's record and is used only when the beat that carries it is accepted. The IPv4 checksum
is right or not, as the frame says; the one's-complement sum is left out. In the blocks of a
Mold datagram bytes also have values, the lengths and types on which the decoders act.

`Golden` is the reference that the repository's test benches compare with
(`fpga/tb/frames.py`, and for the gearbox the slice in `fpga/README.md`); `owed` is the
payload that the sink has still to see. `ItchParser` has both decoders: `decode`, the walk of
`parseBuffer` and `itch_dump`, and the lane-by-lane walk of `itch_parser.v` with its output
wires; a field is the sequence of its bytes. The two treat a message block of length zero
differently: the hardware skips it, the software stops there. `DecodedRight` therefore
compares the hardware with what the software finds in the stream without such blocks
(`Unpadded`; where there is none this is the stream itself); see the disagreements in
section 3. Bodies may be longer than the `MAX_MSG` bytes that the hardware keeps.

Since every layer is checked against every source and sink that keep the handshake, and its
own ports keep it, what holds of each holds of the chain `feed_top`: the input frames of a
layer are the payloads of the one before. The exception are inputs that the runs leave out,
which the reference treats differently and which no feed of the test benches has: frames that
end in the very beat that completes the header (a few bytes of payload there are dropped with
the frame; Ethernet's minimum length excludes them on the wire), packets cut short of the length in their
header (the reference rejects them, the hardware has passed them on by the time they end),
message bodies of less than 6 bytes (two could end in one beat), and IPv4 headers of at most 8
bytes whose words happen to sum to 0xFFFF. `Intact` says which of these a frame is free of (the
body lengths concern only `DecodedRight`); `MCFeedHandler` states it of its frames as an
assumption that TLC evaluates, and the proof has it as its hypothesis.

### SPSCRing and BookPublisher

A load of the other thread's index may return any value written since the last one this
thread saw. A slot is `Torn` from the start to the end of the producer's copy. Indices wrap
at `Wrap`, which stands for 2^64. In the seqlock, a load of `seq_` or of a word of the view
may return any value between the newest this thread already knows and the newest written;
the fences are what makes reading a word of publication n reveal its odd sequence number
(`KnownAfter`). `seq` is the position in the modification order and its value is taken
modulo `Wrap`; a copy during which `seq_` makes a whole turn of 2^32 is excluded
(`WithinTurn`), as it takes 2^31 publications within one copy.

### MetricsPipeline

Uses the ring's own actions, so that every interleaving and every stale load of
the ring is one of the pipeline. `apc` is where the aggregator is in `run`. The load of
`running_` may return true for a while after `stop`; once it has returned false, the loads
of the drain and of the final frame see everything before `stop` (release/acquire on
`running_`). A histogram is the number of values in it. The clock is a free choice: an
iteration renders or not. The driver is `itch_metrics_replay.cpp`: its callback looks for
Ctrl-C before it waits for a message's time and processes it (`Admit`, then one or more
recordings); at the end of the file, or when the rest has been ignored, it records a last
snapshot, stops the aggregator and joins it. `aggregator_demo.cpp` differs in making its
events itself.

### LatencyHistogram and MetricsFrames

What `MetricsPipeline` abstracts of the aggregator: `ingest` into histograms, and `render`
with its rows, its alerts and its datagram. A histogram is a record with the code's fields;
`samples` and `before` are the values themselves, counted, for the properties to compare
with. Latencies are differences of time stamps cut to `W` bits. Tokens stand for the text in a
datagram: `Calls` has one entry for each call of `jappend`, which may cut it. The drop counter
may be read as any value between the one reported last and the present one (a relaxed load).
`BookPublisher::read` is an input here, the ladder that it returned; `sendto` may fail.

## 3. Runs

| Run | Instance | Shows |
|---|---|---|
| `trading` | ladder of 3 prices and one beyond at each end, 3 slots, 3 ids, quantities 0, 1, 2; matching only | `NotCrossed`, `DepthIsBook`, `QuantityConserved`, `SweepComplete`, `ExecTakesAll`, `CallsReturn` |
| `priority` | ladder of 2, 3 slots, direct adds too | `IndexesAgree`, `BestIsBest`, `CountersExact`, and `PriceTimePriority`: refinement of `PriceTimeBook` |
| `crossed` | ladder of 2 | *violated*: `UncrossedAfterSubmit` |
| `ids` | 2 ids, supplied ids may collide | *violated*: `FilledMakerLeaves` |
| `storage` | 2 levels, quantities 0, 1, 2, a pool of 2 slots that grows to 5 | `ListIntact`, `TotalsExact`, `FreeListIntact`, `HandedOutOnce`, `RestingIsLive` |
| `replay` | ladder of 2; prices below it, on it and between two ticks; 3 references, 6 messages | `TracksFeed`, `CountsExplainBook` |
| `replay_complete` | the same | *violated*: `BookComplete` |
| `seqlock` | 3 words, wrap at 8, 6 publications, 3 attempts | `ConsistentRead`, `ReadReturns` |
| `pipeline` | ring of 2 whose indices wrap at 4, tape of 2, burst of 2, 3 recordings and the final one, one latency in two sampled | `NoSlotRace`, `IndicesInStep`, `ImplementsFifo`, `NothingLost`, `FinalFrameComplete`, `DropsAlertedOnce`, `ShutdownCompletes` |
| `frames` | 4-bit ticks, 2 sub-buckets, 2 operations, 3 latencies, 2 other events, 2 frames | `RowsRight`, `AlertsRight`, `DatagramRight` |
| `feed_handler` | beats of 8 bytes, real header and buffer sizes, 121 kinds of frame, 3 frames of one layer | `OutputRight`, `PayloadDelivered`, `GapsReported`, `DecodedRight` |
| `ipv4` | 2 kinds of IPv4 packet | *violated*: `OutputRight` |

Why the bounds are enough to be interesting: three slots give a level with a head, a middle
and a tail, two levels of one side and one of the other, and sweeps across levels; the
prices beyond the ladder exercise refusals, of the remainder of a limit order too; quantity
1 against 2 gives full and partial fills both ways, and zero, which `modifyOrder` accepts, the
level that fills nothing. Six publications against a wrap of 8 take the sequence number round
once and a half. In the pipeline, four recordings fill the ring, drop, take the indices to
their wrap and let the tape wrap; full, empty and half-full rings at every position of the
wrap are the subject of the proof, for every capacity and width. Five slots in
two chunks let an order leave from the head, the middle and the tail of a list and its slot be
reused in another. Tick counts 5, 15 and 16 lie inside an octave, at the very top of the
range and one beyond it; windows are short, so the percentiles are set apart (0.4, 0.7, 0.999)
for their ranks to differ; five alerts fit and may all be due; the datagram's buffer is
smaller than the longest frame and larger than the shortest. Frames of every layer end in the
first, a middle and the last lane, include every reason to drop, and each may follow each of
its layer; three in a row put a short tail behind and before every kind of neighbour. Mold
datagrams arrive in any order and number, with blocks of length zero ahead of, between and behind
messages and bodies beyond the parser's buffer. The bounds are `Slots`,
`OrderIds`, `Prices`, `Quantities`, `MaxPublish`, `MaxEvents`, `MaxMessages`, `MaxCapacity`,
`MaxSamples`, `MaxOther`, `MaxRenders`, `MaxFrames`; everything else is what the
code itself bounds. Symmetry is used over slots, in runs without liveness only. `frames`
may stop when its bounds are reached, so deadlock is not checked there.

Fairness. `WF(Step)`: the engine is sequential code, a call that has begun goes on; nothing
is assumed of when a client calls. `WF(Reading)`: the aggregator's thread runs; nothing is
assumed of the writer, which may stop in the middle of a publication. Pipeline: both threads
run, the driver's join returns when it can, and `SF(SeeStop)`: a store to an atomic becomes
visible in finite time, so a loop that loads it again and again does not miss it for ever.
Feed handler: the clock ticks, the sink is ready again and again, and the source goes on with a
frame it has begun; that a further frame comes is not assumed, which is the point.

The disagreements:

* `crossed`. `include/orderbook.hpp:59` promises of `submitLimit` that the book "is never
  crossed afterward". That holds of books filled by `submitLimit` (`NotCrossed`, proved as
  `NeverCrossed`), and does not of a book that `addOrder` has crossed before.
* `ids`. The book's own numbering starts at 1 and ignores the ids callers supply. When they
  meet, the map entry is overwritten, and `match` removes a filled maker through the map:
  another order disappears and the filled one stays.
* `replay_complete`. `README.md:547` describes a replace as "U -> cancel-then-add". `onReplace`
  returns early when the book does not have the old order, so an order that came in, or was
  moved, off the ladder and is then moved onto it is missing from the book while it is open
  at the venue. `TracksFeed` says what does hold: the book is exact on the orders that have
  been on the ladder since they were added.
* `ipv4`. `fpga/tb/frames.py:158`, the reference, returns the payload "trimmed to total_length
  (this is what removes Eth padding)". For a packet whose total length is its header's,
  `ipv4_parser.v` passes a `keep_len` of 0, which to the gearbox means "to end of frame", and the
  padding comes out as payload. `udp_parser.v:30` avoids the same case by dropping the frame.

A fifth has no run of its own, as the property is stated around it. `fpga/README.md:103` says
that the hardware message parser "mirrors its edge cases exactly (truncated modeled types,
unknown types), so the output is bit-identical to software". On a message block of length zero
it is not: `itch_parser.v:89` skips the block and reads on, `itch_parser.hpp:118` and
`itch_dump.cpp:37` leave their loops, so the messages behind it, in later datagrams of the
stream too, are decoded by the hardware only. The frames of `feed_handler` have such blocks, and
`DecodedRight` says what does hold: the hardware strobes what the software finds in the stream
without them, and first of all what the software finds in the stream as it is. Without
`Unpadded` the run fails on the first datagram that has a message behind such a block.

## 4. Proofs

All for every value of the constants that the named assumptions allow.

* **`NumberLemmas`**. Uniqueness of quotient and remainder, indices less than `Cap` apart have
  different slots; and what `MapThenSumSet` computes: zero over the empty set, and one more term
  for one more element. The library defines that sum by a recursion over finite sets. A
  theorem with an operator parameter, such as the library's induction rules, is out of the
  provers' reach; the lemmas get by with a set instead: the sizes of the sets for which the
  claim fails are a set of naturals, a non-empty one has a least element, and at that element
  the definition unfolds once to a contradiction.
* **`MetricsPipelineProofs`**, first part, the ring (`CapAssumption`, `WrapAssumption`,
  `TornAssumption`). The inductive invariant is `RingTypeOK /\ IndicesInStep /\ InFlight`. `IndicesInStep` is needed because the
  threads act on cached indices: it orders the four indices along the circle,
  `tail_cache_ <= tail_ <= head_cache_ <= head_ <= tail_cache_ + Cap`, stated with unsigned
  distances. `InFlight` says which element each thread has in hand while it is in a call.
  From it follow `RaceFree` and, with the lemmas that a publishing push appends to what lies
  between the indices and a publishing pop takes its head, `RingImplementsFifo`.
* **`MetricsPipelineProofs`**, second part (the ring's assumptions and the pipeline's own). First,
  `PipelineUsesRing`: recorder and aggregator use the ring within its contract, every step of the pipeline is
  a step of `RingSpec` or leaves the ring alone; so `PipelineRingCorrect` carries all that is
  proved of the ring over. `PipelineInv` adds where each recording is: sampled out, counted as
  dropped, in the ring, in the hands of one of the threads, or in the aggregator; what the
  aggregator has seen of `running_`, and that once it has seen it false its loads are not
  stale; and what each frame reported. `NothingIsLost`, `FinalFrameIsComplete` and
  `DropsAreAlertedOnce` follow, for every number of recordings, ring size, burst and sampling
  rate, wherever `stop()` meets the aggregator.
* **`OrderBookProofs`**, first part (`LadderAssumption`, `RequestAssumption`, `PoolAssumption`,
  `SeparateIds`). The invariant is `TypeOK /\ IndexesAgree /\ BestIsBest /\ CallOK`, where
  `CallOK` relates the locals of a running call to the book. `IndexesAgree` and `BestIsBest`
  need each other: a fill cancels the head of a level through the map, and the sweep finds
  that level through the cached best. Lemmas treat the list of a level (append, unlink, head),
  the best set bit after an insertion or a removal, and each of the three elementary
  operations once, so that the sweeps reuse them. `NeverCrossed` adds that a cancel or a fill
  only moves a best price away from the touch and that a remainder rests only where the
  opposing best does not cross it. The extremal index of a finite ladder is found by
  well-founded minimality, from the library.
* **`OrderBookProofs`**, second part (the same, `LimitAssumption`: the mark of a request without a limit is
  not a price). Every step that changes the book is one of three (`BookSteps`): an order
  enters, leaves or changes its quantity, and each of them is treated once, for the sums
  (`CountersAlwaysExact`) and for the queues. `CallTight` is the invariant of the loops: the
  level that is worked on crosses the limit and is the best one as long as it holds an order,
  and `executeMarketOrder` plans to take from it all it has or all that is asked for. With it,
  a fill takes the same quantity from the order, the level, the side and the taker
  (`QuantityAlwaysConserved`); a sweep that returns has nothing left that crosses
  (`SweepsComplete`: the best level crosses first); and `executeMarketOrder` has all it could
  take (`ExecTakesAllAlways`), unless an order of quantity zero stopped it, which
  `modifyOrder` can make.
  `EngineKeepsPriority` is the refinement: `Spec => PriceTimePriority`, for `SeparateIds` and
  `0 \notin Quantities`. Both hypotheses are needed: the run `ids` shows what colliding ids do,
  and an order of quantity zero ends `executeMarketOrder` early, with quantity left that
  `PriceTimeBook` would still trade. The steps: adds, cancels and modifies append to, remove
  from and change one queue (`EnterQueue`, `LeaveQueue`, `ResizeQueue`); a fill is a trade with
  the oldest order at the best price (`FillTrades`), of the lesser of the two quantities,
  although `executeMarketOrder` computes it from the level's total; a return settles the
  request (`ReturnSettles`); entering and leaving a level are not seen.
* **`BookPublisherProofs`** (`PublisherAssumption`). `WriterOK` says which publication every
  word holds; `ReaderOK` that what has been copied was vouched for by the sequence number
  known. If some word is newer than `s1` announces, the second load must return something
  later, and within a turn that is a different value: `ReadsAreConsistent`.
* **`BookReplayProofs`** (the book's assumptions and `FeedAssumption`; not `SeparateIds`, as the
  replay takes its ids from the feed). `ReplayInv` has the book's invariant and relates it to the
  venue: the orders of the book are the tracked ones of the venue (`Exact`), with its side, price
  and shares (`Mirrored`), and the messages that queued them ascend along every level (`Queued`).
  In the middle of `onReplace` the venue has the new order and the book has neither; `ReplacingOK`
  and `Owed` say what is still due, so that the second half restores the relation, counts and
  all. `Queued` needs that a reduction keeps an order's place and that whatever enters was
  queued last (`VenueOK`). The three ways to change the book are those of `OrderBookProofs`;
  each is compared with the venue once (`EnterFollows`, `LeaveFollows`, `ResizeFollows`).
  `TracksFeedAlways` and `CountsAlwaysExplainBook` follow, for every feed.
* **`BookStorageProofs`** (`LevelAssumption`, `PoolAssumption`, `StorageAssumption`).
  For the levels, `LevelTypeOK /\ ListIntact /\ TotalsExact` is
  inductive, as every operation finds its neighbours through links that the invariant describes.
  The heart is what taking the k-th element out does to a sequence, and that neighbours in it
  are the only orders whose links name the removed one.
  For the pool alone the invariant is
  `FreeListIntact` with the types and `HandedOutOnce`; lemmas on `Spells` treat the three
  changes of the list: a fresh chunk, the head taken, a slot put in front. For the two together
  `StorageInv` ties them: the slots that hold an object are exactly the orders that rest. It is
  what makes the parts' contracts true of their only client (`StorageUsesParts`), so that their
  theorems hold of the whole (`StorageIntact`).

* **`FeedHandlerProofs`** (`GearAssumption`, `FrameAssumption`, and the hypothesis `AllIntact`:
  every kind of frame is `Intact`). The run `ipv4` shows that the hypothesis is needed: a packet
  with nothing behind its header puts the padding on the output. `FeedInv` is the inductive
  invariant. `SourceInv` says how far the source is in its frame; `HoldInv` which beats are held
  back, in which state the layer's machine is and what its control registers say;
  `GearTypes` and `GearInv` which bytes the gearbox has staged; `RegInv` what the two entries of
  the register slice hold. The link to the sink is `Port`: the beat on the port is the next one
  owed, and behind it is owed exactly what is staged, held or still to be offered. `EndAt` is the
  last place of the payload among the bytes the gearbox has been fed, so that one formula covers
  the header being skipped, the payload, and the padding behind the budget. `Cuts` says that a
  frame's control values (skip, length, drop) cut out the payload of the reference; each layer
  establishes it from what its `Sniff...` has read when the header is complete, and the held
  beats replayed behind it have had no effect yet. The argument goes upwards: what one edge of
  the gearbox does to the staged bytes (`AcceptRight`, `IdleEdge`, `InFrameEdge`); that it
  keeps `Port` (`EnterFrame`, `ContinueFrame`, `KeepIdle`, `KeepIn`); then an edge of a layer, in
  which a beat arrives or not and the layer takes it or stalls (`EdgeIs`, `DirectEdge`,
  `SniffEdge`, `RegArrives`, `RegStalls`). `FeedOutputRight` and `FeedTypeOK` follow, for every
  beat width where the layer has one, number and length of frames, and pattern of stalls.
  For the gap strobe `GapInv` is added. An edge of `mold_parser` begins a frame, reads a header or
  does neither (`Begins`, `Reads`, `Quiet`). `Counted` says that the headers are those of the whole
  frames in order, but for one that is held and not yet read; `Flagged` that a gap is flagged
  exactly where a number does not follow on from the one before; `Expects` that the register
  holds the number that follows on from the last. That this adds up over any stretch without
  a flag (`StretchFollows`) is shown by the least header that would break it: `FeedGapsReported`.

* **`MetricsFramesProofs`** (`HistogramAssumption`, `FramesAssumption`). `MsbRight`: every tick
  count but zero has a highest bit. `HasPlace`: above the lowest octave, the quotient of a value
  by the width of its bucket is `SUB` and the bucket's number within the octave, because the
  value has its highest bit where `bucketOf` says and a shift by `SUB_BITS + k` is two shifts
  (`PowSum`). From it follow that every value has one of the `NB` buckets (`BucketRight`), that
  buckets follow the order of the values (`BucketMonotonic`), and how far a value is from the
  lower bound of its bucket (`BucketClose`, with `valueOf`): what a percentile may be off by,
  for every width, where the run has four bits. `HistOK` says that the buckets add up to the
  count; `record`, `merge` and `reset` keep it, and `FramesInv`, that all histograms have it, is
  inductive: `FramesTypeCorrect`.

Only model-checked: the liveness properties (`CallsReturn`, `ReadReturns`,
`ShutdownCompletes`, `PayloadDelivered`), as the proof system does not treat fairness;
`DepthIsBook`, whose `SelectSeq` over the walk and sort of the prices are recursions over
sequences; `RowsRight`, `AlertsRight`, `DatagramRight` and `DecodedRight`, for the same reason
(ranks in sorted samples, folds over calls and lanes).

## 5. Not modelled

The console view and the dashboard, which show the values of the frame; number formats and
field names; sockets beyond success or failure of `sendto`; clocks and rates per second;
argument parsing and file mapping; benchmarks, demos and test benches: no state the properties
are about. The five stages of `feed_top` at once, see above. The one's-complement sum of
`ipv4_parser.v`. `METRICS_ENABLED=0` compiles the recorder away.
The rank of the p99.9 is computed in doubles and is one too high when a window has a multiple
of 1000 samples; `rankOf` follows the code, and windows of that size are beyond the run.

## 6. Plan

The plan is carried out. Of the runs' safety properties, those listed as only model-checked in
section 4 have no theorem: `DepthIsBook`, `RowsRight`, `AlertsRight`, `DatagramRight` and
`DecodedRight`.
