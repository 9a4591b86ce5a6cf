# Meka-Bot in TLA+

Specifications of the trading bot, its data pipeline, its backtester and the two
vendored headers they rest on (a lock-free queue and a zip reader), the TLC
configurations that check them on small instances, and proofs of their main
properties for every value of the constants. Paths below are relative to the
repository, which is `src/` here: `src/Bot/Meka.cpp` is `src/src/Bot/Meka.cpp`
in `PROJECT.json`.

## The system

The program has three modes (`src/main.cpp`): *pipeline* (stream trades and
build candles), *backtester* (run a strategy over historical candles on a paper
account) and *bot* (the pipeline, with one more thread that trades).

| Component | State | Operations | Talks to | Here |
|---|---|---|---|---|
| Trading loop, `Bot/Meka` | `inTrade`, `order_id` | `start`: take a candle, place a trade, monitor it, reset and clear | strategy, account manager, `candleData` | `Meka` |
| Account manager, `Bot/AccountManager` | fees, a balance of 5, risk 2%, ladder | `placeTrade` (order, 70 s sleep, status), `monitorTrade` (status every 30 s), `adjustRisk` (never called) | REST client | `Meka` |
| REST client, `Bot/CoinbaseAPI.h` | the keys | `createOrder`, `getOrder`, `listAccounts`, `getTransactionSummary` | the exchange | `Meka` |
| Pipeline start-up, `Pipeline/DataPipeline.h` | its threads | `start`: socket, 1 s sleep, flush, parser, Aggregator, join | all pipeline threads | `Pipeline` |
| WebSocket client | the stream | `connect`, `run`: push every message | `rawData` | `Pipeline` |
| Parser | none | `parseData`: push every trade of a message | `rawData`, `tradeData` | `Pipeline` |
| Aggregator | a candle and a last time per ticker | `Aggregate`: drop late trades, close and open candles | `tradeData`, `candleData` | `Aggregator` |
| Queues, `Pipeline/ConcurrentQueue.h` | the lock-free queue | `push`, `popValue` (spins), `clearData` | everything above | `Meka`, `Pipeline` |
| Backtester | path, the paper account | `userControl`, `loadHistoricalData`, `run` | strategy, paper account | `Backtester` |
| Paper account | balance, risk, ladder, position, wins, losses | `enterPosition`, `checkOpenPositions`, `adjustRisk` | called by the backtester | `PaperAccount` |
| Strategies, `Backtester/Strategy.cpp` | levels and five candles (`SupportResistance`), nothing (`CoinFlip`) | `next`, `reset` | called by loop and backtester | `SupportResistance`; any signal in `Meka` and `Backtester` |
| Lock-free queue, `include/tools/moodycamel.h` | a list of producers with their blocks, a free list of blocks, a table of threads, consumer tokens | `enqueue`, `enqueue_bulk`, `try_dequeue` and its variants | under every queue of the pipeline; any number of threads | `Tickets`, `ImplicitProducer`, `FreeList`, `ProducerTable`, `ConcurrentQueue` |
| Zip reader, `include/tools/zip_file.hpp` | an archive in memory, its sorted directory, the state of a decompression | `load`, `save`, `writestr`, `read`, `extractall`, `comment`; `tinfl_decompress` | called by `loadHistoricalData` for each download | `ZipFile`, `ZipDirectory`, `Inflate` |
| Database, logger, chart process (`IPC.cpp`, `IPC.py`, `ControlPanel.py`), profiler macros | | | not called, not started, or nothing without their tool | not modelled |

What is hard in it:

* **Four threads and a process beside an exchange.** The bot sleeps while
  entries fill, expire, are exited or cancelled, and sees of all this one status
  string now and then. A request can fail after the exchange has acted on it.
* **No exception is caught.** A failed request, a closed socket or a message of
  an unexpected shape ends the process, with whatever position is open.
* **Queues are emptied while others push onto them**, at start-up and after
  every trade.
* **Trades arrive late and out of order**, and the minute is told by two digits.
* **The ladder of risks** compares a balance with levels that earlier trades
  set, over runs of any length. The levels of a strategy outlive the file they
  were made in.
* **The lock-free queue has no lock**: consumers draw tickets by counters they
  read one after the other, look up blocks in an index that its producer replaces
  meanwhile, and push and pop blocks on a stack that is shared by all; threads
  find their producer in a table others are enlarging, and end at any time.
* **The zip reader stops and goes on** wherever its input or its output buffer
  ends, and what it is given comes from a server and may be cut short.

What makes each component correct: the loop never lets go of a live trade and
never trades on a candle of before its last exit; a status is read when it means
something; every exit is noticed. The pipeline hands every trade on once and in
order, and starts up completely. Every candle holds the trades of its minute and
no others. The paper account is never overdrawn, never replaces a position, and
takes full risk at its highest balance only. A strategy signals only at a level
that was tested often enough. The lock-free queue gives every element to one
consumer, in the order of its producer, keeps none back for ever, and loses no
block. What is extracted is what the archive claims, or the extraction fails; what
is saved can be read again.

## The modules

| Module | Models | Composes |
|---|---|---|
| `OneTrade` | what the bot promises its account: one trade at a time | |
| `Meka` | `Meka::start`, `placeTrade`, `monitorTrade`, `createOrder`, `getOrder`, `candleData`, the exchange, crashes and restarts | `OneTrade` by a refinement mapping |
| `Aggregator` | `Aggregate` | |
| `Pipeline` | `Pipeline::start`, `WebSocketClient::run`, `parseData`, `rawData`, `tradeData` | `Aggregator` by `INSTANCE` |
| `PaperAccount` | `enterPosition`, `checkOpenPositions`, `adjustRisk` as functions on accounts | |
| `Backtester` | `Backtester::run`, `userControl` | extends `PaperAccount` |
| `SupportResistance` | `SupportResistance::next` and `reset`, `CoinFlip::next` | |
| `Tickets` | the four counters by which consumers share one producer | |
| `ImplicitProducer` | one producer: `enqueue`, `enqueue_bulk`, `dequeue`, `dequeue_bulk`, blocks, the block index, the destructor | extends `Tickets` |
| `ConcurrentQueue` | the calls over all producers: `try_dequeue`, `try_dequeue_non_interleaved`, `try_dequeue_bulk`, consumer tokens | a producer as `ImplicitProducer` shows it |
| `FreeList` | `FreeList::add`, `try_get` | |
| `ProducerTable` | `get_or_add_implicit_producer`, `recycle_or_create_producer`, the end of a thread | |
| `Inflate` | `tinfl_decompress`, `extract_to_mem`, `extract_to_callback` | |
| `ZipDirectory` | the heap sort of the directory and `locate_file` | |
| `ZipFile` | the class `zip_file` with the reader and writer under it | |
| `MekaProofs`, `AggregatorProofs`, `TicketsProofs` | the proofs about the module of that name | |
| `ImplicitProducerProofs` | the proofs about `ImplicitProducer` | `TicketsProofs` by a refinement mapping |
| `QueuePartsProofs` | the proofs about `FreeList`, `ProducerTable` and `ConcurrentQueue` | |
| `ZipProofs` | the proofs about `ZipDirectory`, `ZipFile` and `Inflate` | |
| `PipelineProofs` | the proofs about `Pipeline` | `AggregatorProofs` by `INSTANCE` |
| `BacktesterProofs` | the proofs about `Backtester`, `PaperAccount` and `SupportResistance` | |
| `MCMeka`, `MCAggregator`, `MCPipeline`, `MCBacktester` | the instances for TLC | |
| `MCQueue` | the instance of the queue | `ImplicitProducer`, `ConcurrentQueue` |
| `MCTable` | one long behaviour of `ProducerTable`, by a schedule | `ProducerTable` |
| `MCTools` | the instance of seven parts that share nothing | `FreeList`, `ProducerTable`, `Inflate`, `ZipDirectory`, `ZipFile`, `SupportResistance`, `Backtester` |

A definition whose comment begins with "Faulty variant of" is not part of a
model. It is the definition it precedes with a plausible mistake in it; the
property it is meant for is violated when it takes that definition's place
(`mutants` in `PROJECT.json`), which shows that the property depends on the code.

### Meka

`pc` is where the bot thread is: `loop` (the head of `while(true)`), `create`
(in `createOrder`), `waitFill` (the 70 seconds of `placeTrade`), `pollSleep` (the
30 seconds of `monitorTrade`), `clear` (in `clearData`). Code between two waits
is one step, except that an emptying of the queue is one step per
`try_dequeue`, as the Aggregator pushes meanwhile. Time is counted in ticks of
five seconds, the largest unit in which the code's 60, 70 and 30 seconds come out
whole with room for a late expiry between 60 and 70.

An order goes through stages at the exchange: `working`, `held` (the entry
filled, the bracket is open), `closed` (the bracket filled), `expired`,
`cancelled`. The code does not see the stage; it reads the status the exchange
reports for it. What that is for an order with an attached bracket is not to be
found in the repository, so it is the constant `Status`, and the reading on which
the code relies is a named assumption:

* `BracketReading`: the status is `OPEN` while the entry is working and while
  the position is held, and `FILLED` exactly when the bracket has filled.
  `placeTrade` takes `OPEN` for "the trade is on", `monitorTrade` waits for
  `FILLED`. Were an order reported `FILLED` when its entry fills, every trade
  that fills would be taken for one that did not: this is the fault that the
  variant `FillConfirmedByFilled` puts into the model, from the other side.
* `WaitOutlastsEntry`: the exchange expires the entry before 70 seconds are
  over, with a lag of less than 10 seconds.

A request can be answered without a status or an id (`...Unanswered`, the
empty id of `CreateOrder`), or not at all (`CreateOrderResponseLost`, `Crash`).
An order about which the process got an unreadable answer is in `lost`; the
safety properties are about the others, as no program could do better with the
calls this one makes. A restarted bot has forgotten everything, so `mine`, the
orders of the running process, is empty again.

### Aggregator and Pipeline

A time is a number. The code compares times as strings and takes the minute
from fixed places, so both models assume timestamps of one width in one zone, as
the exchange sends them. Prices and volumes are whole numbers. A
candle that has seen no trade has the minute `Temp`, the code's `"temp"`.

`OneMinuteCandles` says of a candle which trades of its ticker are of its minute
(`OfMinute`, from a first to a last one) and compares its prices and its volume
with theirs (`IsCandleOf`; `VolumeOf` is the running total).
`TradesContiguous` and `LateTradesIgnored` pick out of a message the trades that
can be read, and of the trades handled those that are on time (`Picked`).

`Pipeline` has one step per statement of `Pipeline::start`, per `try_dequeue` of
a `clearData`, per message of the socket thread and the parser, per trade the
parser goes through, and per pass of the Aggregator. An exception in any thread
ends the process (`alive`).

### PaperAccount and Backtester

Money and prices are whole numbers and quotients are rounded down. This leaves
out the rounding of doubles, but not the order in which balance and levels come
to stand, on which the ladder depends. Risks are counted in tenths of a percent,
stop losses, targets and fees in hundredths. Any strategy is allowed: after any
candle there may be a signal with an entry between low and high of that candle,
as both strategies of the code give (`SupportResistance` the close, `CoinFlip`
the open). As in the code, the same candle then decides on the position.

### SupportResistance

One step is one call of `next`, with its shift of the window, its two swings, the
ages and the signal, in the code's order, or one `reset`. Prices are whole and the
tolerance is a fraction. `reset` empties the window and makes both levels inactive
but leaves their prices, touches and ages, as in the code. `hits` is history: how
many swings of this file came close to a level. `CoinFlip::next` keeps no state
and returns either intent.

### Tickets and ImplicitProducer

`Tickets` is what the consumers of a producer do before they know which elements
are theirs: `dequeue` and `dequeue_bulk` read `tailIndex`, `dequeueOvercommit` and
`dequeueOptimisticCount` one after the other, raise the last (`Claim`), read
`tailIndex` again (`Recheck`), hand back what is too much (`HandBack`) and raise
`headIndex` (`Advance`). Each access is a step. The counters are numbers;
`CircularAgrees` (proved) shows that the code's comparison of wrapped counters
agrees with that of the numbers while they are less than half the range apart.

`ImplicitProducer` models the producer's half and what follows `Advance`. A
block index is the sequence of its entries' keys and values, and the headers that
share them; a block is the element in each slot and the count of emptied ones.
`pool` stands for the free list (`FreeList` is its implementation). The steps of
the producer are the insertion of an entry, the stores of `tail` and `tailIndex`,
and, when a bulk fails, giving each block back; those of a consumer are the loads
of the index, the search of its entry, and emptying and freeing each block. An
enqueue may fail for want of a block or of memory for the index, and a constructor
may throw. `Destroy` is `~ImplicitProducer`. Memory is sequentially consistent:
the fences and orderings of the code are not tested.

### ConcurrentQueue, FreeList and ProducerTable

In `ConcurrentQueue` a producer is the number of its elements. `dequeue` of it is
one step that may find less than there is while another consumer is in a call,
which is what `Tickets` shows of it. A call is `Score` and `TakeBest`
(`try_dequeue`), `Walk` (`try_dequeue_non_interleaved`, `try_dequeue_bulk`), or
`UpdateCurrentProducer`, `TakeCurrent` and `Around` (the calls with a token).
The 32-bit offsets are counted modulo `OffsetValues`.

`FreeList` has one step per access to `freeListHead`, a `freeListRefs` or a
`freeListNext`. `ProducerTable` has one per access to a slot of a hash; a hash is
never freed, as in the code. A thread that ends runs the steps of
`implicit_producer_thread_exited` under the mutex of its notifier, and may be
started again with the same id.

### Inflate, ZipDirectory and ZipFile

In `Inflate` a code with its extra bits is one unit of compressed data, and a step
is one state of the coroutine `tinfl_decompress` between two places where it may
return, or one pass of the loops that call it. `driver` says which of them:
`extract_to_mem` with the data in memory (one buffer of the claimed size),
the same with data read piece by piece, or `extract_to_callback` (a ring of
`DictSize`). A checksum is the data itself, so it never lies.

`ZipDirectory` has one step per round of the inner loop of the heap sort, and per
halving of the search. `ZipFile` is the class: its buffer is a sequence of cells
(local headers, bytes, records of the directory, the end record, a comment), and a
call is a step, with the change of mode (`StartRead`, `StartWrite`) that it begins
with; `extractall` takes a step per member, as `open_stream_` lives on between
them.

## The runs

| Run | Instance | What it shows |
|---|---|---|
| `meka` | 2 orders, backlog 2, lag 1 tick; 48,101 states | `NoOrphanedTrade`, `EntryDecidedAtCheck`, `NoStaleCandle`, `MonitorUntilExit`, the liveness properties `ExitNoticed` and `PlaceTradeReturns`, and that `Meka` implements `OneTrade` |
| `meka_fill` | the same | violated: `EmptyOnlyIfUnfilled` |
| `meka_restart` | the same | violated: `OneTradeAtATime` |
| `aggregator` | 2 tickers, 3 trades each at 6 times, an hour of 2 minutes; 157,817 states | `OneMinuteCandles`, `EveryMinuteOnce`, `CandlesInOrder`, and `ClosedOneMinuteCandles` for gaps of less than an hour |
| `aggregator_gap` | 1 ticker, gaps of a whole hour allowed | violated: `ClosedOneMinuteCandles` |
| `pipeline` | 4 messages of 5 kinds, 3 times; 67,597 states | `TradesContiguous`, `LateTradesIgnored`, the liveness property `EverythingHandled` |
| `pipeline_flush` | the same | violated: `BadDataFlushed` |
| `backtester_loss` | 3 prices, 2 files, 5 entries, risk to reward 1 and 3 | violated: `LossIsTheRisk` |
| `backtester_files` | the same | violated: `ExitInOwnFile` |
| `queue` | one producer of 4 elements in blocks of 2, 2 consumers that ask for 1 or 3, or 2 producers and 2 takers in 4 mixes of calls; 319,894 states | `HeadBehindTail`, `ElementInPlace`, `BlocksAccounted`, `DestroyedClean`, `NothingMissed`, the liveness properties `ElementsReach` and `EveryProducerServed` |
| `tools` | seven parts, see below; 1,063,125 states | `NodeInOnePlace`, `OneThreadPerProducer`, `SameProducer`, `SlotsLeft`, `SoundExtracted`, `NothingElse`, `LocateFinds`, `SavedReadsBack`, `OwnContent`, `SignalEarned`; `LadderOrdered`, `FullRiskAtPeakOnly`, `EntriesAccountedFor`, `StreaksBend`; the liveness property `EveryExtractionEnds` |
| `table_full` | one behaviour of 65 threads and 2 hashes, 1655 states | violated: `SlotsLeft` |

The modules of the trading loop, the pipeline and the backtester have their
`TypeOK` besides. In `queue` and `tools` a behaviour is one of one part and the
others stay as they are at first: the parts share no variable, so that the runs
have the sum of their states and not the product. The violated properties state what a
comment or the README says and the code does otherwise; `PROJECT.json`
(`findings`) quotes the lines:

* `meka_fill`: a trade that is entered and exited within the 70 seconds is
  reported as "unsuccessful fill" (`AccountManager.cpp:19`, `:53`).
* `meka_restart`: the account is not bound "to one trade at a time"
  (`README.md:11`) across a restart of the program.
* `aggregator_gap`: a "closed 1m candle" (`ConcurrentQueue.h:83`) spans an hour
  when nothing was traded for that long.
* `pipeline_flush`: "bad data in the beginning" (`DataPipeline.h:34`) is flushed
  only if it arrives within a second of the start of the socket thread.
* `backtester_loss`: a loss is less than the risk "with fees accounted for"
  (`PaperAccount.cpp:36`), as the fees are never charged.
* `backtester_files`: a position is carried into the next file, which "could be
  a completely different ticker" (`Strategy.h:33`).
* `table_full`: a hash of the table of producers has no "slot [that] is free"
  (moodycamel.h:3412) any more. One `implicitProducerHashCount` counts for all
  hashes: a thread that still has the old one in hand may take a slot given up
  there, which gives its count back (line 3514), and then moves to an empty slot of
  the new hash, uncounted (line 3430). Twenty such slots fill the second hash, of
  64, before the third is made. It takes forty threads stopped in the same few
  lines, so the bot will not meet it; the attempt to prove `SlotsLeft` led to it.

### Bounds, and why they are enough

* Two orders: one that is left behind and one placed beside it. The loop holds
  one order id, so a third order adds nothing but a second one left behind. Ids
  are used again when an order is finished, so runs are of any length.
* `MaxBacklog` 2: one candle from before an exit and one pushed while the queue
  is being emptied. A candle is allowed at most once a tick, which is more often
  than the code can close one; no candle is owed.
* `LagTicks` 1: the exchange expires an entry up to 5 seconds late, which
  leaves the wait of 70 seconds as the code intends it.
* Aggregator: `MinutesPerHour` 2 makes the minute field repeat within the times
  of the instance; `MaxGap` says how long a ticker may be silent, and `aggregator`
  and `aggregator_gap` lie on the two sides of an hour. Two tickers may
  interleave; each is symmetric to the other.
* Pipeline: messages with one or two trades, late ones, an incomplete one, one
  that cannot be read, and one without trades; four of them are enough for
  some to be flushed, some to be queued before the parser runs, and a late trade
  to follow an earlier one.
* Backtester: with prices 98, 100, 103 and a stop of 0.65% a candle can reach
  the stop, the target, both or none at either risk to reward. Five entries climb
  down all three rungs and up again, and the second file inherits a position.

* `queue`: four elements in blocks of two fill two blocks, and a bulk of three
  spans two; `FirstCapacity` 1 makes the index grow at the second block, and
  elements that are taken in between make it wrap; four blocks leave none to
  spare when an enqueue asks for one more. `MaxFailures` 1 gives one failed
  or throwing enqueue at any place. `MaxTickets` 2 bounds the tickets drawn at
  once, not the length of a run: consumers draw in vain again and again. In the
  other part there are two producers and tokens at either, a `Quota` of 2 is reached
  after two elements, one at a time or in bulk, and `OffsetValues` 4 makes the
  offsets wrap. One element per producer is enough, as it is refilled at any time.
* `tools`, free list: three threads and two nodes, so that one thread is between
  two accesses while another pops both and pushes them back in the other order.
* `tools`, table: three threads of which two begin to probe at the same slot, a
  first hash of 2 slots, which the first thread already enlarges, three hashes, four
  calls, one end of a thread; memory for two producers, so that a third must be
  one that is taken over, or fail.
* `tools`, decompression: all files of a compressed, a stored and a dynamic block
  that begin with any three of two literals and three matches that reach back up to
  three, with the right claim, one that is too long or too short, cut short at four
  places, or made of blocks that are not allowed; a ring of 4 is passed on
  several times.
* `tools`, directory: up to 4 entries of 5 names, some equal but for case; four
  entries give a heap of three levels.
* `tools`, archive: three names of which two are the same but for case and one is
  bad, three contents, six downloads sound and damaged, up to two entries; every
  sequence of calls of the class within these.
* `tools`, strategy: three candles of which the first touches both levels and the
  others make new ones or break out, a threshold of 1 and an age of 2 in place of 5
  and 100, and a reset at any time.

`CHECK_DEADLOCK FALSE` stands where a bound (trades, messages, entries) ends
the behaviour, the backtester has read its last file, an extraction has ended or
the queue is destroyed. The bot never stops: a
dead one may be started again.

### Fairness

`Meka`: weak fairness of the bot thread (it is scheduled), of time and of each
order's expiry (`end_time` is a request to the exchange, which `FairSpec` takes to
be honoured); strong fairness of `PollTrade`, i.e. a status that is asked for
again and again is answered at last, because single polls may go unanswered.
Nothing forces an entry or exit to fill, a candle to close, the process to die
or to be started. So `ExitNoticed` and `PlaceTradeReturns` speak of what the bot
does about what has happened, or of its having died.
`Pipeline`: weak fairness of the main thread, of the parser and of the
Aggregator; none of the socket.
`ImplicitProducer` and `ConcurrentQueue`: weak fairness of a consumer that is in a
call, as its thread is scheduled. The producer may stop for ever, and a consumer
need not call again: the liveness properties speak of one who does, as `popValue`
does. They speak of a consumer that is from some time on the only one, and this
is needed: two consumers can draw tickets in vain by turns, each because of the
other's, while an element is there.
`Inflate`: weak fairness of the one loop there is, which shows that no input makes
an extraction go on for ever.
The safety properties are checked and proved without fairness.

`StreaksBend` is checked with one stop loss, as each strategy of the code has one:
with different ones two losses are not comparable, and the property is not meant to
hold.

## The proofs

The theorems hold for every value of the constants under the `ASSUME`s of the
modules and, where a theorem names them, under the two readings of the exchange. The
`ASSUME`s give the constants their types; two say a little more, `ZipAssumption` of
the downloads and `InflateAssumption` of the matches (see `ZipProofs`).

**`MekaProofs`.** The inductive invariant is
`Base == TypeOK /\ Tracked /\ QueueFresh`. `Tracked` is needed because the
properties speak of `order_id` at a moment when it has to be known that the order
is one this process placed and was told of; `QueueFresh` says that only a bot in
`clearData` has stale candles, which `NoStaleCandle` weakens to the head of the
loop (`QueueEmptied`). `TypeCorrect` follows at once. `DeadlineFirst`
(`left < timer` while an entry works) is inductive with `Base` under
`WaitOutlastsEntry`, and gives `EntryDecided`. `NoOrphanedTrade` is inductive
with `Base` under `BracketReading` (`NoOrphan`); it and `Tracked` give
`MonitoredUntilExit`. `OneTradeImplemented` maps every step to a step of
`OneTrade` or to a stutter: `Phase` is the abstract phase, and the abstract open
orders are the live ones of `mine \ lost`. The one delicate case is the end of a
trade, where `NoOrphanedTrade` after the step shows that nothing is open.

**`AggregatorProofs`.** `Linked` ties the candle being built to the last trade
of its ticker and to the candles already pushed; with `TypeOK` it makes
`CandlesInOrder` inductive (`InOrder`). The others need arithmetic besides: two
minutes less than an hour apart with the same minute field are the same
(`FieldDetermines`), so that a trade joins a candle only of its own minute
(`OneMinuteUnlessSilent`). For `NoMinuteLost` the invariant says that the minutes
of a ticker grow from candle to candle (`MinutesGrow`) and that every minute with
a trade has one (`NoMinuteMissing`); one candle per minute follows. For
`CandlesRight` it says of every candle that it is what the code makes of its
trades, of the pushed ones (`PushedRight`) and of the one being built
(`BuiltRight`): a trade of another minute changes neither (`StaysRight`), one of
the same minute is one more of its trades (`JoinsRight`), the first of a minute
makes a candle by itself (`OpensRight`). The volume is a recursive function of
the trades; that it exists and does not change for the trades that were there is
proved by induction over a set of numbers (`SetInduction`, from the
well-foundedness of `<`). The assumption `MaxGap < MinutesPerHour` of these three
is the exact border: `aggregator_gap` violates a property at equality.

**`PipelineProofs`.** The first half are laws of sequences: `FlattenSeq` of one
sequence more at the end or at the beginning (`FlattenAppend`, `FlattenCons`, by
`SetInduction`), and from them what `Readable`, `TradesOf` and `Picked` make of a
message or trade more or less. The invariant `Inv` is the types and `Flushing`: until
the parser runs, nothing was handled and `rawData` is exactly what was received
after the messages flushed, however many the socket pushed in the middle of the
flush. `TradesContiguous` follows from it at that moment (`BeforeParser`) and is
kept by every step after (`StepContiguous`): each moves a trade, or the trades of a
message, across one border of `handled \o tradeData \o Readable(batch) \o
TradesOf(rawData)` (`NoTradeLost`). `OnTimeCounts` needs `LatestRemembered`: the
Aggregator remembers the time of the latest trade of each ticker it popped and not
that of the last, because a late one is dropped before it is remembered. The types of
the Aggregator in the pipeline are those proved in `AggregatorProofs`, of which
`PipelineProofs` has an instance.

**`BacktesterProofs`.** The invariant is `TypeOK`, `Covered` (an open position
cannot cost more than the account has) and `LadderOf` (the order of balance,
levels and peak). `Covered` rests on `LossCovered`, which bounds the position by
the 2% of full risk; it keeps the balance a natural number, so the account is
never overdrawn (`TypeCorrect`). `AdjustFacts` shows that the ladder is restored
after any change of the balance; `LadderHolds` and `FullRiskAtPeak` follow.

`EveryEntryAccountedFor` counts with the results what `CheckEffect` says of an
open position. For `StreaksAlwaysBend` products and quotients are compared
(`MoveMonotone`): after a loss the risk and the balance are no higher than before
(`AdjustMoves`), so the next position and what it loses are no larger
(`EndBends`), and after a win no smaller. Its assumption is one stop loss for all
trades, as each strategy of the code has; with different ones two losses are not
comparable. The risk to reward is the user's, who is asked between two files.

*Strategies* (same module). `SignalEarned` follows from `EarnedTouches`: an active
level has no more touches than there were swings of this file near it. It is not
true of an inactive one, whose touches may be of an earlier file; what saves the
signal is that a level becomes active only where its touches are set to zero
(`LevelStep`, `ResetEarned`).

**`TicketsProofs`.** `HeadBehindTail` is far from inductive: a consumer raises
`headIndex` by a number it computed some time ago from a `dequeueOvercommit` it
read before that. The invariant divides the tickets drawn into undecided ones,
granted ones that `headIndex` does not count yet, and void ones that are not handed
back yet. `Balanced` says that with the two counters these add up to
`dequeueOptimisticCount`; `TicketsApart` that no ticket has two owners; `Served`
what an undecided consumer can rely on: either its ticket, less the overcommit it
read, is not below all that others were or may be given before it, or there are
enough elements for all of them and for itself. `ClaimStep` gets this from
`Balanced`, `RecheckStep` keeps it for those below and above, and the granted
tickets never pass the tail (`NeverPastTail`, for any number of consumers and any
amounts).

**`QueuePartsProofs`.** *Free list.* The argument is that of the comments in moodycamel.h, with
its parts made exact for each node: who owns it (`OwnerAt`: one thread, or the
list, or nobody while the bit `SHOULD_BE_ON_FREELIST` is set), when the bit is set
(`BitAt`), and that the count is the number of threads that refer to the node and
one more for the list (`CountAt`). `Remembered` is what a thread relies on that it
read some steps ago: its compare-and-swap of the head succeeds only if the next
pointer it read is still right, and that holds because a node that is referred to
is not pushed again (no ABA). A node is on the list if it is in every set of nodes
that is closed under the pointers from the head (`OnList`), so that pushing and
popping change it by one node (`ListLinked` and the lemmas after it) without a
recursive definition. `Chained` keeps two nodes from sharing a next pointer.
`NoNodeLost` follows for any number of threads and nodes.

*Table of threads* (same module). A slot that is taken is never empty again, so no empty
slot lies between the home of a thread and its slot, in any hash (`Placed`); a
search that meets an empty slot has therefore shown that the thread is not in that
hash, and one through all hashes that it has no producer (`Passed`), whatever the
other threads insert, enlarge or take over meanwhile. `Produces` and `Apart` say what the
producer of a thread is at each place; `ProducerKept` and `ProducersApart` follow.
`SlotsForFew` says when a search ends: while fewer threads live or have ended than the
first hash has slots (`FewThreads`; 32 in the program), every hash has an empty slot
(`SlotsLeft`). `SInv` counts: a taken slot is of a thread that lives, which by `Placed`
is in a hash at most once, or was given up, and each thread that has ended gave up at
most one in each hash; and no hash is smaller than the first. The hypothesis cannot be
dropped, as `table_full` shows. The instance of `tools`, with a first hash of 2 slots
and 3 threads, is outside it: there `SlotsLeft` is only checked.

*Calls over all producers* (same module). `CallsMissNothing`: what a call has not found empty is
among what it has still to look at (`Scoring`, `Walking`, `GoingAround`, for the
three ways to look). Delicate are the search with a token, which ends where it
began in a list that grows meanwhile, and `try_dequeue`, which stops scoring
early and leaves out the best producer when it walks.

**`ImplicitProducerProofs`.** A consumer that looks for its elements or takes them
is, for `Tickets`, at its return (`Places`). Under that mapping every step of
`ImplicitProducer` is one of `Tickets` or a stutter (`ProducerSharesByTickets`), for
which one has to know that the producer publishes an amount it may (`Begun`, with
one lemma per step for the base the next block gets). Hence `ElementsWereAdded`, from
the instance of `TicketsProofs` under the mapping.

The blocks need more, `ProducerInv`, by which also `ImplicitTyped` holds. Blocks are
counted from the first (`Nth`), and `EntryAt(n)` is the entry at the distance of
block `n` from the tail.

* `RingInv` says what the keys are. Each of the last `Ring` blocks has an entry of
  its own, with its key, or none, or that of a block one turn later whose call failed
  (`KeysKnown`); from a live entry up to the tail all keys are right (`KeysAbove`). So a distance computed from the
  key of the tail leads to the block, also in an index that has been replaced:
  growing moves no entry (`GrowRing`), and a live entry is not given a second block
  (`InsertRing`). The tail and its key may even be those of a block that was undone.
* `Shared`: no two consumers hold the same element, and `Given` are those that
  were moved out. Where `Tickets` only bounds the numbers, this follows each element.
* `Stock`: what is left of a block is in a live entry with its key (`LeftLive`), the
  rest is counted as dequeued (`Filled`), so the consumer that takes the last element,
  and only that one, clears the entry and returns the block. `Ways` is what a
  consumer knows about its way, before and after it has read the tail's key:
  neither the keys of the blocks ahead of it nor the block it takes from can change,
  since what it has to take is left there. Each block is in one place (`OnePlace`).

`ElementFoundInPlace` is `Ways` with `Filled`; `EveryBlockOnce` counts the places of
`OnePlace` as `BlocksAccounted` does; `DestructorFreesAll` needs that at rest the
elements left are exactly those between head and tail, so that the loop of the
destructor, which goes by index, meets every live entry (`AtRest`).

**`ZipProofs`.** *Look-up.* `LocateFinds` is one implication over the whole of the
heap sort and the binary search. `Before` restates the comparison of names as a
lexical order of sequences continued by zeros, from which it follows that the order
is total and transitive (`BeforeChain`), and that names equal up to case compare
equal (`OrderSameName`). `DirectoryInv` has one part for each phase: while the heap
rises, all from the current start on is a heap but for the node that sinks
(`HeapRising`, `HeapBut`); while it shrinks, what was taken off is in order and not
below what is left (`HeapShrinking`, `InOrderFrom`; `RootGreatest` is the fact that
the root of a heap is its greatest); in the search, an entry of the name can only be
between the two borders (`Narrowing`). At every moment the index is a rearrangement
of the entries (`Arranges`). Assumed of the names: they are sequences of numbers
below `Alphabet` (`NamesAssumption`).

*Archive* (same module). `Trusted` says that unless a download was refused, the object is in one of
three modes with a list of entries that were written: `Writing` and `Reading`, where
buffer, directory and size agree on it, and `Unused`; that nothing is left in
`open_stream_`; that what was saved last can be opened, with its entries and its
comment; and that the files extracted have the content of their own entry (`Clean`).
The work is in three places: that copying all entries to a new writer, as
`start_write` does, gives an archive of the same entries (`CopyEntriesIs`, by
induction over the entries copied); that a comment cut off and put back leaves what
is before it (`Resealed`, `WithCommentIs`, `WithoutCommentIs`); and that a changed
archive keeps what is saved readable (`StartWriteIs`, `WrittenIs`). The invariant stops
at a refused download because the code does: what the constructor throws out of leaves
the object in no mode. `ZipAssumption` says of the downloads that can be opened that
each has an archive's form; of the others it says nothing.

*Extraction* (same module). The buffer, the input and the places of the decoder keep
their types (`InflateTyped`). `NothingElse` is decided where the loop ends: only the
end of the data with the size and the content of the directory is a success, and what
the callback is given then was compared before (`FinishExact`).
`InflateAssumption` lets matches be of any length but empty, and stored blocks of any.

`SoundExtracted` (theorem `SoundIsExtracted`) compares the decoder with `Meanings`,
which has no buffers. The invariant `Progress` says of a sound entry that some number
of its units, k, has been decoded, and `base` bytes were written before this turn of
the ring (`OnTrack`):

* what was read ahead, what was given to tinfl and what is still in the file are, in
  that order, the units after the k-th (`Remains`);
* the decoder is at the place the first k units lead to, with the same count left
  (`Reached`); it may owe a literal that waits for room, or the rest of a match whose
  source wraps with the output (`Repeating`);
* the last `OutEnd` bytes of the content so far are in the buffer at their positions
  (`Window`), positions of this turn are those of the buffer (`Turn`), and the callback
  was given a beginning of the content (`Layout`).

That a beginning of the data means a beginning of the content, with no error on the
way, is shown from the end backwards (`TraceIs`, `OutputGrows`). Of the steps, one byte
or a run of bytes keeps the window (`WindowGrows`, `WindowRun`), a match does so byte by
byte because its distance is at most the size of the ring (`CopyOnce`, `RingApart`), and
reading ahead or taking the next part of the file loses nothing (`RemainsAhead`,
`RemainsGiven`). The loop can only end at the end of the data: without a ring there is
room for all that is to come (`RoomLeft`), a sound entry does not stop in a stored block
(`TruncatedNever`), and at the end the output is the content (`DoneIs`).

Only model-checked: liveness (`ENABLED` and fairness are out of the prover's reach),
and with it refinement under fairness; and `SlotsLeft` with more threads than
`SlotsForFew` allows, which holds for the small hashes of `tools` and fails in
`table_full`.

## Not modelled

* *Bot.* The prices and sizes of its orders, and `AccountManager::adjustRisk`,
  which nothing calls; signing, HTTP, TLS and JSON. The error code of the JSON
  parser, which `Parser.cpp:23` drops: in the model a message that cannot be
  parsed ends the process.
* *Pipeline.* The order of timestamps as strings (`Aggregator.cpp:32`), which is
  that of time only if all have one width and zone; `ConcurrentQueueLocked`, which
  nothing uses; the database, the logger and the chart process, which are not
  called or not started. That `push` drops the result of `enqueue`
  (`ConcurrentQueue.h:53`): the queues of `Pipeline` and `Meka` never fail.
* *Backtester.* Download and parsing of historical data (the result of curl is
  ignored, and what arrived is opened as an archive: `ZipFile` models that),
  tables and prompts (a choice that is not a number makes `main.cpp:19` loop for
  ever, a negative risk to reward is taken as it is).
* *Lock-free queue.* The blocks of `ExplicitProducer` (moodycamel.h:1769-2393):
  the program makes no producer token. Its counters are those of `Tickets`. Moving
  and swapping queues, memory statistics, and weak memory: every model is
  sequentially consistent, so a missing fence would not be noticed.
* *Zip reader.* The compressor (what it writes is what `Inflate` reads, by its
  format and not by its code), archives kept in files, entries that are stored and
  not compressed in `Inflate`, `printdir` and `testzip`, and the zlib and PNG
  interfaces: the program uses none of these.
* *Profiler macros.* Empty without their tool.

`PROJECT.json` lists every component and, under `hazards`, what is hard to test
at its line, with the properties that cover it or why none does.

Seen while modelling, in the models as it is, and no property is about it because
no text of the repository promises otherwise:

* A bulk dequeue with a token can bring its count past the quota without a rotation
  (moodycamel.h:1259), and the single-element dequeue tests for equality (line
  1200): a consumer that mixes both may stay at one producer.
* The second `save` of a `zip_file` appends its comment again and writes the
  length over the end of the first (zip_file.hpp:5625). `remove_comment` looks for
  the end record down to position 2, and then tests for 3 (line 5649).
* A copy of the entries that fails half way (zip_file.hpp:5594) leaves the new
  archive begun, without the entries that were not reached.

## What is next

1. `ExplicitProducer`: its ring of blocks, and a bulk that throws, which keeps
   blocks that are not empty.
2. That `ImplicitProducer` and `FreeList` together implement an abstract queue
   per producer, as a refinement instead of the argument in `ConcurrentQueue`.
3. The bot's account beside the paper account: `README.md:11` has the risk
   adjusted after trades, and nothing calls `adjustRisk`.
