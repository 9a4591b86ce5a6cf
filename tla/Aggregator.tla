----------------------------- MODULE Aggregator -----------------------------
(***************************************************************************)
(* The Aggregator thread (Aggregate): it turns the trades of each ticker   *)
(* into candles.  A candle closes when a trade arrives whose minute of the *)
(* hour differs from that of the candle; a trade older than the last one   *)
(* of its ticker is dropped.                                               *)
(*                                                                         *)
(* The code reads a time as a string: it compares two of them as strings   *)
(* and takes the minute from its characters 14 and 15.  Here a time is a   *)
(* number, so the model assumes what both need: timestamps of one width    *)
(* and one zone.  Latency timestamps are left out.                         *)
(***************************************************************************)
EXTENDS Integers, Sequences, FiniteSets, SequencesExt

CONSTANTS
    Tickers,         \* the pairs the pipeline was started for
    Prices, Volumes, \* what a trade may be done at
    Times,           \* the times a trade may carry
    TimesPerMinute,  \* how many of them make a minute
    MinutesPerHour,  \* after how many minutes the minute field repeats
    MaxGap,          \* how many minutes a ticker may be behind its next trade
    MaxTrades        \* bound: trades handled

ASSUME AggregatorAssumption ==
    /\ Prices \subseteq Nat /\ Volumes \subseteq Nat /\ Times \subseteq Nat
    /\ TimesPerMinute \in Nat \ {0}
    /\ MinutesPerHour \in Nat \ {0}
    /\ MaxGap \in Nat
    /\ MaxTrades \in Nat

\* The minute of a candle that has seen no trade, and of a ticker without one.
Temp == -1
NoTime == -1

Trades == [ticker : Tickers, time : Times, price : Prices, volume : Volumes]

VARIABLES
    candle,         \* currentCandles: the candle of each ticker being built
    lastTimestamp,  \* the time of the last trade of each ticker
    candleData,     \* the closed candles, in the order they were pushed
    accepted        \* history: the trades of each ticker that were not dropped

aggregatorVars == <<candle, lastTimestamp, candleData, accepted>>

-----------------------------------------------------------------------------
\* The minute a time falls in, and its two digits in a timestamp.
Minute(time) == time \div TimesPerMinute

\* Faulty variant of MinuteField: the hour is read with the minute.
HourAndMinute(time) == Minute(time)

MinuteField(time) == Minute(time) % MinutesPerHour

NoCandle(ticker) ==
    [ticker |-> ticker, open |-> -1, high |-> -1, low |-> -1, close |-> -1,
     volume |-> -1, minute |-> Temp, timestamp |-> NoTime]

Init ==
    /\ candle = [t \in Tickers |-> NoCandle(t)]
    /\ lastTimestamp = [t \in Tickers |-> NoTime]
    /\ candleData = <<>>
    /\ accepted = [t \in Tickers |-> <<>>]

\* Faulty variant of TooOld: no trade is too old.
NeverTooOld(trade) == FALSE

\* Coinbase sends old trades sometimes; they are ignored.
TooOld(trade) ==
    /\ lastTimestamp[trade.ticker] # NoTime
    /\ trade.time < lastTimestamp[trade.ticker]

\* Faulty variant of NewMinute: a minute is new only if it is greater.
GreaterMinute(c, trade) == c.minute < MinuteField(trade.time)

\* Whether the trade belongs to another minute than the candle.
NewMinute(c, trade) == c.minute # MinuteField(trade.time)

\* Faulty variant of Opened: the volume is not reset.
OpenedKeepingVolume(c, trade) ==
    [c EXCEPT !.open = trade.price, !.high = trade.price, !.low = trade.price,
              !.close = trade.price,
              !.minute = MinuteField(trade.time), !.timestamp = trade.time]

\* The candle that a trade opens, before the trade itself counts in it.
Opened(c, trade) ==
    [c EXCEPT !.open = trade.price, !.high = trade.price, !.low = trade.price,
              !.close = trade.price, !.volume = 0,
              !.minute = MinuteField(trade.time), !.timestamp = trade.time]

\* The candle with one more trade in it.
Updated(c, trade) ==
    [c EXCEPT !.close = trade.price,
              !.volume = c.volume + trade.volume,
              !.high = IF c.high < trade.price THEN trade.price ELSE c.high,
              !.low = IF c.low > trade.price THEN trade.price ELSE c.low]

\* Faulty variant of Drop: the time of the late trade is remembered.
DropRemembering(trade) ==
    /\ TooOld(trade)
    /\ lastTimestamp' = [lastTimestamp EXCEPT ![trade.ticker] = trade.time]
    /\ UNCHANGED <<candle, candleData, accepted>>

\* A late trade leaves no trace.
Drop(trade) ==
    /\ TooOld(trade)
    /\ UNCHANGED aggregatorVars

\* Faulty variant of CountIn: the closed candle is not pushed.
CountInWithoutPush(trade) ==
    LET t == trade.ticker
        c == candle[t]
        newMinute == NewMinute(c, trade)
    IN  /\ ~TooOld(trade)
        /\ lastTimestamp' = [lastTimestamp EXCEPT ![t] = trade.time]
        /\ candle' = [candle EXCEPT ![t] =
                        Updated(IF newMinute THEN Opened(c, trade) ELSE c, trade)]
        /\ accepted' = [accepted EXCEPT ![t] = Append(@, trade)]
        /\ UNCHANGED candleData

\* A trade of the same minute field joins the candle; one of another closes
\* the candle, if it holds anything, and opens the next.
CountIn(trade) ==
    LET t == trade.ticker
        c == candle[t]
        newMinute == NewMinute(c, trade)
    IN  /\ ~TooOld(trade)
        /\ lastTimestamp' = [lastTimestamp EXCEPT ![t] = trade.time]
        /\ candleData' = IF newMinute /\ c.minute # Temp
                            THEN Append(candleData, c) ELSE candleData
        /\ candle' = [candle EXCEPT ![t] =
                        Updated(IF newMinute THEN Opened(c, trade) ELSE c, trade)]
        /\ accepted' = [accepted EXCEPT ![t] = Append(@, trade)]

\* One pass of the loop of Aggregate, with the trade it popped.
Aggregate(trade) == Drop(trade) \/ CountIn(trade)

\* How far a trade may lie ahead of the last one of its ticker.
NotAfterGap(trade) ==
    lastTimestamp[trade.ticker] # NoTime =>
        Minute(trade.time) <= Minute(lastTimestamp[trade.ticker]) + MaxGap

Next ==
    \E trade \in Trades :
        /\ NotAfterGap(trade)
        /\ Len(accepted[trade.ticker]) < MaxTrades
        /\ Aggregate(trade)

Spec == Init /\ [][Next]_aggregatorVars

-----------------------------------------------------------------------------
\* Properties.

Candles ==
    [ticker : Tickers, open : Prices \cup {-1}, high : Prices \cup {-1},
     low : Prices \cup {-1}, close : Prices \cup {-1}, volume : Nat \cup {-1},
     minute : (0..(MinutesPerHour - 1)) \cup {Temp},
     timestamp : Times \cup {NoTime}]

\* Every variable keeps its type.
TypeOK ==
    /\ candle \in [Tickers -> Candles]
    /\ lastTimestamp \in [Tickers -> Times \cup {NoTime}]
    /\ candleData \in Seq(Candles)
    /\ accepted \in [Tickers -> Seq(Trades)]

\* All candles that were pushed, and the one of ticker t being built.
Series(t) == Append(candleData, candle[t])

\* The volume of the first i of the trades ts, for each i.
VolumeOf(ts) ==
    LET total[i \in 0..Len(ts)] == IF i = 0 THEN 0 ELSE total[i - 1] + ts[i].volume
    IN  total

\* c is what the trades ts from the first to the last make of a candle.
IsCandleOf(c, ts, first, last) ==
    LET prices == {ts[i].price : i \in first..last} IN
    /\ c.timestamp = ts[first].time
    /\ c.minute = MinuteField(ts[first].time)
    /\ c.open = ts[first].price /\ c.close = ts[last].price
    /\ c.high \in prices /\ c.low \in prices
    /\ \A p \in prices : c.low <= p /\ p <= c.high
    /\ c.volume = VolumeOf(ts)[last] - VolumeOf(ts)[first - 1]

OfMinute(ts, m) == {i \in DOMAIN ts : Minute(ts[i].time) = m}

\* Each candle holds all accepted trades of one minute and no others, with
\* their first, highest, lowest and last price and their total volume, no
\* matter how many minutes pass without a trade, as long as they are fewer
\* than an hour, and however the trades of several tickers interleave.
OneMinuteCandles ==
    \A t \in Tickers : \A k \in DOMAIN Series(t) :
        LET c == Series(t)[k]
            ts == accepted[t]
        IN  c.ticker = t /\ c.minute # Temp =>
                \E first, last \in DOMAIN ts :
                    /\ OfMinute(ts, Minute(c.timestamp)) = first..last
                    /\ IsCandleOf(c, ts, first, last)

\* No minute with a trade is missing from the candles or stands there twice.
EveryMinuteOnce ==
    \A t \in Tickers : \A i \in DOMAIN accepted[t] :
        Cardinality({k \in DOMAIN Series(t) :
            /\ Series(t)[k].ticker = t
            /\ Minute(Series(t)[k].timestamp) = Minute(accepted[t][i].time)}) = 1

\* The candles of a ticker are pushed in the order of time: the strategy is
\* never handed a candle older than one it has seen, although trades arrive
\* late and out of order.
CandlesInOrder ==
    \A i, j \in 1..Len(candleData) :
        i < j /\ candleData[i].ticker = candleData[j].ticker
            => candleData[i].timestamp < candleData[j].timestamp

\* candleData holds "closed 1m candles": the trades of a candle are all of
\* the minute in which it was opened.
ClosedOneMinuteCandles ==
    [][\A t \in Tickers :
        accepted'[t] # accepted[t] /\ candle'[t].timestamp = candle[t].timestamp
            => Minute(Last(accepted'[t]).time) = Minute(candle[t].timestamp)]_aggregatorVars
=============================================================================
