------------------------------ MODULE Pipeline ------------------------------
(***************************************************************************)
(* The data pipeline: Pipeline::start and the threads it runs.  The socket *)
(* thread (WebSocketClient::run) pushes messages onto rawData; the parser  *)
(* (parseData) pushes their trades onto tradeData; the Aggregator pops     *)
(* these.  The main thread starts the socket, sleeps for a second, empties *)
(* both queues and only then starts the other two.                         *)
(*                                                                         *)
(* The queues are unbounded and lock-free; with one producer and one       *)
(* consumer each they are first in, first out.  A popValue that finds      *)
(* nothing spins, which is no step here.  An exception in any thread ends  *)
(* the process.                                                            *)
(***************************************************************************)
EXTENDS Integers, Sequences, FiniteSets, SequencesExt

CONSTANTS
    Tickers, Prices, Volumes, Times,       \* as in Aggregator
    TimesPerMinute, MinutesPerHour, MaxGap, MaxTrades,
    NoTrades,      \* a message without events[0].trades
    Incomplete,    \* a trade that lacks one of its four fields
    Unreadable,    \* a trade whose price or size is not a number
    Messages,      \* messages with trades: sequences of the above and of trades
    MaxMessages    \* bound: messages received

VARIABLES
    main,           \* where the main thread is in Pipeline::start
    alive,          \* whether the process runs
    rawData,        \* the queue from the socket to the parser
    batch,          \* trades of its message the parser has still to go through
    tradeData,      \* the queue from the parser to the Aggregator
    candle, lastTimestamp, candleData, accepted,   \* of the Aggregator
    received,       \* history: all messages pushed onto rawData
    flushed,        \* history: how many of them the main thread threw away
    handled         \* history: all trades the Aggregator popped

Aggregator == INSTANCE Aggregator

\* What a message is made of.
Items == Aggregator!Trades \cup {Incomplete, Unreadable}

ASSUME PipelineAssumption ==
    /\ Aggregator!AggregatorAssumption
    /\ Messages \subseteq Seq(Items)
    /\ {Incomplete, Unreadable} \cap Aggregator!Trades = {}
    /\ MaxMessages \in Nat

aggregatorVars == <<candle, lastTimestamp, candleData, accepted>>
vars == <<main, alive, rawData, batch, tradeData, aggregatorVars, received, flushed, handled>>

Stations == {"start", "sleep", "flushRaw", "flushTrade", "startParser", "startAggregator", "join"}

\* Faulty variant of ParserRuns: the parser is started along with the socket.
ParserRunsEarly == main # "start"

ParserRuns == main \in {"startAggregator", "join"}
AggregatorRuns == main = "join"

Init ==
    /\ main = "start"
    /\ alive = TRUE
    /\ rawData = <<>> /\ batch = <<>> /\ tradeData = <<>>
    /\ received = <<>> /\ flushed = 0 /\ handled = <<>>
    /\ Aggregator!Init

-----------------------------------------------------------------------------
\* The main thread: Pipeline::start.

GoOn(from, to) ==
    /\ alive
    /\ main = from /\ main' = to
    /\ UNCHANGED <<alive, rawData, batch, tradeData, aggregatorVars, received, flushed, handled>>

StartSocket == GoOn("start", "sleep")
Wake == GoOn("sleep", "flushRaw")
StartParser == GoOn("startParser", "startAggregator")

\* Faulty variant of StartAggregator: the parser is joined first.
StartAggregatorAfterParser == ~alive /\ GoOn("startAggregator", "join")

StartAggregator == GoOn("startAggregator", "join")

\* rawData.clearData(): one try_dequeue of its loop; the socket may push
\* between two of them.
FlushRaw ==
    /\ alive /\ main = "flushRaw"
    /\ \/ /\ rawData # <<>>
          /\ rawData' = Tail(rawData)
          /\ flushed' = flushed + 1
          /\ UNCHANGED main
       \/ /\ rawData = <<>>
          /\ main' = "flushTrade"
          /\ UNCHANGED <<rawData, flushed>>
    /\ UNCHANGED <<alive, batch, tradeData, aggregatorVars, received, handled>>

\* tradeData.clearData(), in the same way; nothing pushes onto it yet.
FlushTrade ==
    /\ alive /\ main = "flushTrade"
    /\ tradeData' = IF tradeData = <<>> THEN <<>> ELSE Tail(tradeData)
    /\ main' = IF tradeData = <<>> THEN "startParser" ELSE main
    /\ UNCHANGED <<alive, rawData, batch, aggregatorVars, received, flushed, handled>>

-----------------------------------------------------------------------------
\* The other threads.

\* What the exchange sends: messages without trades only before the first
\* trades, as answers to the subscription.
MaySend(message) ==
    message = NoTrades => \A i \in 1..Len(received) : received[i] = NoTrades

\* The socket thread reads a message and pushes it.
Receive ==
    /\ alive /\ main # "start"
    /\ Len(received) < MaxMessages
    /\ \E message \in Messages \cup {NoTrades} :
        /\ MaySend(message)
        /\ rawData' = Append(rawData, message)
        /\ received' = Append(received, message)
    /\ UNCHANGED <<main, alive, batch, tradeData, aggregatorVars, flushed, handled>>

\* The parser takes a message; going through trades that are not there throws.
ParseMessage ==
    /\ alive /\ ParserRuns
    /\ batch = <<>> /\ rawData # <<>>
    /\ rawData' = Tail(rawData)
    /\ IF Head(rawData) = NoTrades
          THEN alive' = FALSE /\ UNCHANGED batch
          ELSE batch' = Head(rawData) /\ UNCHANGED alive
    /\ UNCHANGED <<main, tradeData, aggregatorVars, received, flushed, handled>>

\* Faulty variant of ParseTrade: an incomplete trade ends the message.
ParseTradeBreaking ==
    /\ alive /\ ParserRuns
    /\ batch # <<>>
    /\ batch' = IF Head(batch) = Incomplete THEN <<>> ELSE Tail(batch)
    /\ alive' = (Head(batch) # Unreadable)
    /\ tradeData' = IF Head(batch) \in {Incomplete, Unreadable}
                       THEN tradeData ELSE Append(tradeData, Head(batch))
    /\ UNCHANGED <<main, rawData, aggregatorVars, received, flushed, handled>>

\* The parser goes on to the next trade of its message: one that lacks a
\* field is skipped, one whose numbers are unreadable makes stod throw.
ParseTrade ==
    /\ alive /\ ParserRuns
    /\ batch # <<>>
    /\ batch' = Tail(batch)
    /\ alive' = (Head(batch) # Unreadable)
    /\ tradeData' = IF Head(batch) \in {Incomplete, Unreadable}
                       THEN tradeData ELSE Append(tradeData, Head(batch))
    /\ UNCHANGED <<main, rawData, aggregatorVars, received, flushed, handled>>

\* The Aggregator takes a trade.
HandleTrade ==
    /\ alive /\ AggregatorRuns
    /\ tradeData # <<>>
    /\ tradeData' = Tail(tradeData)
    /\ Aggregator!Aggregate(Head(tradeData))
    /\ handled' = Append(handled, Head(tradeData))
    /\ UNCHANGED <<main, alive, rawData, batch, received, flushed>>

\* The socket fails: ws_.read throws.
Disconnect ==
    /\ alive /\ main # "start"
    /\ alive' = FALSE
    /\ UNCHANGED <<main, rawData, batch, tradeData, aggregatorVars, received, flushed, handled>>

-----------------------------------------------------------------------------
Main == StartSocket \/ Wake \/ FlushRaw \/ FlushTrade \/ StartParser \/ StartAggregator
Parser == ParseMessage \/ ParseTrade

Next == Main \/ Receive \/ Parser \/ HandleTrade \/ Disconnect

\* Every thread is scheduled; nothing obliges the exchange to send anything.
Fairness == WF_vars(Main) /\ WF_vars(Parser) /\ WF_vars(HandleTrade)

Spec == Init /\ [][Next]_vars

FairSpec == Spec /\ Fairness

-----------------------------------------------------------------------------
\* Properties.

\* Every variable keeps its type; before the parser runs it has produced
\* nothing, so flushing tradeData never meets a trade.
TypeOK ==
    /\ main \in Stations
    /\ alive \in BOOLEAN
    /\ rawData \in Seq(Messages \cup {NoTrades})
    /\ batch \in Seq(Items)
    /\ tradeData \in Seq(Aggregator!Trades)
    /\ received \in Seq(Messages \cup {NoTrades})
    /\ flushed \in 0..MaxMessages
    /\ handled \in Seq(Aggregator!Trades)
    /\ main \notin {"startAggregator", "join"} => batch = <<>> /\ tradeData = <<>>
    /\ Aggregator!TypeOK

\* The elements of s at these positions, in their order.
Picked(s, positions) ==
    FlattenSeq([i \in DOMAIN s |-> IF i \in positions THEN <<s[i]>> ELSE <<>>])

\* The trades of a message, and those of several.
Readable(items) ==
    Picked(items, {i \in DOMAIN items : items[i] \notin {Incomplete, Unreadable}})
TradesOf(messages) ==
    FlattenSeq([k \in DOMAIN messages |->
        IF messages[k] = NoTrades THEN <<>> ELSE Readable(messages[k])])

\* While the process lives, the trades on their way through the parser, the
\* queue and the Aggregator are those of the messages received after the
\* last one flushed, each once and in the order they were received: the
\* flush, which runs while the socket is already pushing, takes a prefix of
\* the messages and nothing else, and no thread overtakes another.
TradesContiguous ==
    alive => handled \o tradeData \o Readable(batch) \o TradesOf(rawData)
                = TradesOf(SubSeq(received, flushed + 1, Len(received)))

\* The Aggregator counts in a trade if and only if no trade of its ticker
\* that came before it was later, however many late ones come in between.
OnTime(i) ==
    \A j \in 1..(i - 1) :
        handled[j].ticker = handled[i].ticker => handled[j].time <= handled[i].time
LateTradesIgnored ==
    \A t \in Tickers :
        accepted[t] = Picked(handled, {i \in DOMAIN handled : handled[i].ticker = t /\ OnTime(i)})

\* The start-up comes to its end and all that was received and can be read
\* goes through the Aggregator, however the threads are scheduled; or else
\* the process dies.
EverythingHandled ==
    []<>(~alive \/ (main = "join" /\ rawData = <<>> /\ batch = <<>> /\ tradeData = <<>>))

\* "Flush any bad data in the beginning": the answers to the subscription,
\* which have no trades, never reach the parser.
BadDataFlushed ==
    ParserRuns /\ rawData # <<>> /\ batch = <<>> => Head(rawData) # NoTrades
=============================================================================
