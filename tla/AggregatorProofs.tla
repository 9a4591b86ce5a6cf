-------------------------- MODULE AggregatorProofs --------------------------
(***************************************************************************)
(* Proofs about Aggregator.tla, for any tickers, prices and times, any     *)
(* number of trades and any length of the minute and of the hour.          *)
(*                                                                         *)
(* Linked ties the three things the code keeps about a ticker: its candle, *)
(* the time of its last trade and the candles already pushed.  With it the *)
(* candles are in the order of time.  That a candle holds the trades of    *)
(* one minute only needs SameMinute as well, which is where MaxGap counts: *)
(* two minutes less than an hour apart differ in the minute field.         *)
(***************************************************************************)
EXTENDS Aggregator, FiniteSetTheorems, WellFoundedInduction, TLAPS

\* The candle of a ticker was opened by a trade no later than the last one,
\* shows the minute of that trade, and is later than those already pushed.
Linked ==
    \A t \in Tickers :
        /\ candle[t].ticker = t
        /\ candle[t].minute = Temp <=> lastTimestamp[t] = NoTime
        /\ candle[t].minute # Temp =>
            /\ candle[t].timestamp # NoTime
            /\ candle[t].timestamp <= lastTimestamp[t]
            /\ candle[t].minute = MinuteField(candle[t].timestamp)
        /\ \A i \in 1..Len(candleData) : candleData[i].ticker = t =>
            /\ candle[t].minute # Temp
            /\ candleData[i].timestamp < candle[t].timestamp

\* The last trade of a ticker is of the minute its candle was opened in.
SameMinute ==
    \A t \in Tickers : candle[t].minute # Temp =>
        Minute(candle[t].timestamp) = Minute(lastTimestamp[t])

-----------------------------------------------------------------------------
\* The minute of a time is a number, grows with it, and its field is in range.
LEMMA MinuteFacts ==
    /\ \A a \in Nat : Minute(a) \in Nat
    /\ \A a, b \in Nat : a <= b => Minute(a) <= Minute(b)
    /\ \A a \in Nat : MinuteField(a) \in 0..(MinutesPerHour - 1)
<1> USE AggregatorAssumption DEF AggregatorAssumption, Minute, MinuteField
<1>1. \A a \in Nat : Minute(a) \in Nat
  OBVIOUS
<1>2. \A a, b \in Nat : a <= b => Minute(a) <= Minute(b)
  OBVIOUS
<1>3. \A m \in Nat : m % MinutesPerHour \in 0..(MinutesPerHour - 1)
  OBVIOUS
<1> QED
  BY <1>1, <1>2, <1>3

\* Two minutes less than an hour apart are told apart by their field.
LEMMA FieldDetermines ==
    ASSUME NEW m \in Nat, NEW n \in Nat, m <= n, n < m + MinutesPerHour,
           m % MinutesPerHour = n % MinutesPerHour
    PROVE  m = n
<1> USE AggregatorAssumption DEF AggregatorAssumption
<1>1. PICK p \in Int, q \in Int : p = m \div MinutesPerHour /\ q = n \div MinutesPerHour
  OBVIOUS
<1>2. n - m = MinutesPerHour * (q - p)
  BY <1>1
<1>3. q - p >= 1 => MinutesPerHour * (q - p) >= MinutesPerHour
  OBVIOUS
<1>4. q - p <= 0 => MinutesPerHour * (q - p) <= 0
  OBVIOUS
<1> QED
  BY <1>1, <1>2, <1>3, <1>4

-----------------------------------------------------------------------------
\* Times are numbers.
LEMMA TimeTypes ==
    /\ \A time \in Times \cup {NoTime} : time \in Int
    /\ \A c \in Candles : c.timestamp \in Int
<1>1. \A time \in Times \cup {NoTime} : time \in Int
  BY AggregatorAssumption DEF AggregatorAssumption, NoTime
<1>2. \A c \in Candles : c.timestamp \in Times \cup {NoTime}
  BY DEF Candles
<1> QED
  BY <1>1, <1>2

\* A trade changes four fields of the candle it counts in, within their ranges.
LEMMA UpdatedFacts ==
    ASSUME NEW c \in Candles, NEW trade \in Trades
    PROVE  /\ Updated(c, trade) \in Candles
           /\ Updated(c, trade).ticker = c.ticker
           /\ Updated(c, trade).minute = c.minute
           /\ Updated(c, trade).timestamp = c.timestamp
<1> DEFINE volume == c.volume + trade.volume
<1> DEFINE high == IF c.high < trade.price THEN trade.price ELSE c.high
<1> DEFINE low == IF c.low > trade.price THEN trade.price ELSE c.low
<1> DEFINE price == trade.price
<1>1. Updated(c, trade) =
        [c EXCEPT !.close = price, !.volume = volume, !.high = high, !.low = low]
  BY DEF Updated
<1>2. price \in Prices /\ trade.volume \in Nat
  BY AggregatorAssumption DEF Trades, AggregatorAssumption
<1>3. volume \in Nat \cup {-1} /\ high \in Prices \cup {-1} /\ low \in Prices \cup {-1}
  BY <1>2 DEF Candles
<1> HIDE DEF volume, high, low, price
<1> QED
  BY <1>1, <1>2, <1>3 DEF Candles

\* The effect of a trade that is not dropped, in the terms of the proofs.
LEMMA CountInEffect ==
    ASSUME TypeOK, NEW trade \in Trades, CountIn(trade)
    PROVE  LET t == trade.ticker
               opens == candle[t].minute # MinuteField(trade.time)
           IN  /\ t \in Tickers /\ trade.time \in Nat
               /\ lastTimestamp[t] # NoTime => lastTimestamp[t] <= trade.time
               /\ lastTimestamp' = [lastTimestamp EXCEPT ![t] = trade.time]
               /\ \A u \in Tickers \ {t} : candle'[u] = candle[u]
               /\ candle'[t] \in Candles
               /\ candle'[t].ticker = candle[t].ticker
               /\ candle'[t].minute = MinuteField(trade.time)
               /\ candle'[t].timestamp =
                    IF opens THEN trade.time ELSE candle[t].timestamp
               /\ candleData' = IF opens /\ candle[t].minute # Temp
                                   THEN Append(candleData, candle[t]) ELSE candleData
<1> DEFINE t == trade.ticker
<1> DEFINE c == candle[t]
<1> DEFINE base == IF c.minute # MinuteField(trade.time) THEN Opened(c, trade) ELSE c
<1>1. t \in Tickers /\ trade.time \in Times /\ trade.price \in Prices
      /\ trade.volume \in Volumes
  BY DEF Trades
<1>2. trade.time \in Nat /\ trade.price \in Nat /\ trade.volume \in Nat
  BY <1>1, AggregatorAssumption DEF AggregatorAssumption
<1>3. c \in Candles /\ lastTimestamp[t] \in Times \cup {NoTime}
  BY <1>1 DEF TypeOK
<1>4. lastTimestamp[t] # NoTime => lastTimestamp[t] <= trade.time
  <2>1. ~TooOld(trade)
    BY DEF CountIn, NewMinute
  <2>2. lastTimestamp[t] # NoTime => lastTimestamp[t] \in Nat
    BY <1>3, AggregatorAssumption DEF AggregatorAssumption
  <2> QED
    BY <1>2, <1>3, <2>1, <2>2 DEF TooOld
<1>5. MinuteField(trade.time) \in 0..(MinutesPerHour - 1)
  BY <1>2, MinuteFacts
<1>6. c = [ticker |-> c.ticker, open |-> c.open, high |-> c.high, low |-> c.low,
           close |-> c.close, volume |-> c.volume, minute |-> c.minute,
           timestamp |-> c.timestamp]
  BY <1>3 DEF Candles
<1>7. /\ c.ticker \in Tickers /\ c.volume \in Nat \cup {-1} /\ c.minute \in Int
      /\ {c.open, c.high, c.low, c.close} \subseteq Prices \cup {-1}
      /\ c.timestamp \in Times \cup {NoTime}
  BY <1>3 DEF Candles, Temp
<1>8. base \in Candles /\ base.ticker = c.ticker
      /\ base.minute = MinuteField(trade.time)
      /\ base.timestamp =
            (IF c.minute # MinuteField(trade.time) THEN trade.time ELSE c.timestamp)
  <2>1. CASE c.minute # MinuteField(trade.time)
    BY <1>1, <1>5, <1>6, <1>7, <2>1 DEF Candles, Opened
  <2>2. CASE c.minute = MinuteField(trade.time)
    BY <1>3, <2>2
  <2> QED
    BY <2>1, <2>2
<1>9. Updated(base, trade) \in Candles
      /\ Updated(base, trade).ticker = base.ticker
      /\ Updated(base, trade).minute = base.minute
      /\ Updated(base, trade).timestamp = base.timestamp
  BY <1>8, UpdatedFacts
<1>10. candle' = [candle EXCEPT ![t] = Updated(base, trade)]
  BY DEF CountIn, NewMinute
<1> QED
  BY <1>1, <1>2, <1>4, <1>8, <1>9, <1>10 DEF CountIn, NewMinute, TypeOK

\* Every step is a trade that counts in, or changes nothing.
LEMMA StepIsCountIn ==
    ASSUME [Next]_aggregatorVars
    PROVE  \/ UNCHANGED aggregatorVars
           \/ \E trade \in Trades : NotAfterGap(trade) /\ CountIn(trade)
BY DEF Next, Aggregate, Drop

-----------------------------------------------------------------------------
\* Types are kept.
LEMMA CountInType ==
    ASSUME TypeOK, NEW trade \in Trades, CountIn(trade)
    PROVE  TypeOK'
<1> DEFINE t == trade.ticker
<1>1. t \in Tickers /\ trade.time \in Times
  BY DEF Trades
<1>2. candle' \in [Tickers -> Candles]
  <2>1. \A u \in Tickers : candle'[u] \in Candles
    BY CountInEffect DEF TypeOK
  <2>2. candle' = [u \in Tickers |-> candle'[u]]
    BY DEF CountIn, NewMinute, TypeOK
  <2> QED
    BY <2>1, <2>2
<1>3. lastTimestamp' \in [Tickers -> Times \cup {NoTime}]
  BY <1>1 DEF CountIn, NewMinute, TypeOK
<1>4. candleData' \in Seq(Candles)
  <2>1. candle[t] \in Candles /\ candleData \in Seq(Candles)
    BY <1>1 DEF TypeOK
  <2> QED
    BY <2>1 DEF CountIn, NewMinute
<1>5. accepted' \in [Tickers -> Seq(Trades)]
  BY <1>1 DEF CountIn, NewMinute, TypeOK
<1> QED
  BY <1>2, <1>3, <1>4, <1>5 DEF TypeOK

LEMMA StepType ==
    ASSUME TypeOK, [Next]_aggregatorVars
    PROVE  TypeOK'
<1>1. CASE UNCHANGED aggregatorVars
  BY <1>1 DEF TypeOK, aggregatorVars
<1> QED
  BY <1>1, CountInType, StepIsCountIn

\* The candle, the last trade and the pushed candles of a ticker stay linked.
LEMMA StepLinked ==
    ASSUME TypeOK, Linked, [Next]_aggregatorVars
    PROVE  Linked'
<1>1. CASE UNCHANGED aggregatorVars
  BY <1>1 DEF Linked, aggregatorVars
<1>2. ASSUME NEW trade \in Trades, CountIn(trade)
      PROVE  Linked'
  <2> DEFINE t == trade.ticker
  <2> DEFINE pushes == candle[t].minute # MinuteField(trade.time) /\ candle[t].minute # Temp
  <2>1. t \in Tickers /\ trade.time \in Nat /\ trade.time # NoTime
        /\ MinuteField(trade.time) # Temp
    BY <1>2, CountInEffect, MinuteFacts DEF NoTime, Temp
  <2>2. SUFFICES ASSUME NEW u \in Tickers
        PROVE  /\ candle'[u].ticker = u
               /\ candle'[u].minute = Temp <=> lastTimestamp'[u] = NoTime
               /\ candle'[u].minute # Temp =>
                    /\ candle'[u].timestamp # NoTime
                    /\ candle'[u].timestamp <= lastTimestamp'[u]
                    /\ candle'[u].minute = MinuteField(candle'[u].timestamp)
               /\ \A i \in 1..Len(candleData') : candleData'[i].ticker = u =>
                    /\ candle'[u].minute # Temp
                    /\ candleData'[i].timestamp < candle'[u].timestamp
    BY DEF Linked
  <2>3. /\ lastTimestamp[t] # NoTime => lastTimestamp[t] <= trade.time
        /\ lastTimestamp' = [lastTimestamp EXCEPT ![t] = trade.time]
        /\ \A v \in Tickers \ {t} : candle'[v] = candle[v]
        /\ candle'[t].ticker = candle[t].ticker
        /\ candle'[t].minute = MinuteField(trade.time)
        /\ candle'[t].timestamp =
              IF candle[t].minute # MinuteField(trade.time)
                 THEN trade.time ELSE candle[t].timestamp
        /\ candleData' = IF pushes THEN Append(candleData, candle[t]) ELSE candleData
    BY <1>2, CountInEffect
  <2>4. /\ lastTimestamp'[t] = trade.time
        /\ \A v \in Tickers \ {t} : lastTimestamp'[v] = lastTimestamp[v]
    BY <2>1, <2>3 DEF TypeOK
  <2>5. /\ candleData \in Seq(Candles)
        /\ \A i \in 1..Len(candleData') :
             \/ i \in 1..Len(candleData) /\ candleData'[i] = candleData[i]
             \/ pushes /\ candleData'[i] = candle[t]
    BY <2>1, <2>3 DEF TypeOK
  <2>6. candle[t].ticker = t
    BY <2>1 DEF Linked
  <2>7. CASE u # t
    BY <2>3, <2>4, <2>5, <2>6, <2>7 DEF Linked
  <2>8. CASE u = t
    <3>1. candle[t].timestamp \in Int /\ lastTimestamp[t] \in Int
      BY <2>1, TimeTypes DEF TypeOK
    <3>2. candle[t].minute # Temp => candle[t].timestamp <= trade.time
      BY <2>1, <2>3, <3>1 DEF Linked
    <3>3. pushes => candle[t].timestamp < trade.time
      BY <2>1, <3>1, <3>2 DEF Linked
    <3>4. /\ candle'[t].timestamp # NoTime
          /\ candle'[t].timestamp <= trade.time
          /\ candle'[t].minute = MinuteField(candle'[t].timestamp)
      BY <2>1, <2>3, <3>2 DEF Linked
    <3>5. ASSUME NEW i \in 1..Len(candleData'), candleData'[i].ticker = t
          PROVE  candleData'[i].timestamp < candle'[t].timestamp
      <4>1. CASE i \in 1..Len(candleData) /\ candleData'[i] = candleData[i]
        <5>1. candle[t].minute # Temp /\ candleData[i].timestamp < candle[t].timestamp
          BY <2>1, <3>5, <4>1 DEF Linked
        <5>2. candleData[i].timestamp \in Int
          BY <2>5, <4>1, TimeTypes
        <5>3. candle[t].timestamp <= candle'[t].timestamp /\ candle'[t].timestamp \in Int
          BY <2>1, <2>3, <3>1, <3>2, <5>1
        <5> QED
          BY <3>1, <4>1, <5>1, <5>2, <5>3
      <4>2. CASE pushes /\ candleData'[i] = candle[t]
        BY <2>3, <3>3, <4>2
      <4> QED
        BY <2>5, <4>1, <4>2
    <3> QED
      BY <2>1, <2>3, <2>4, <2>6, <2>8, <3>4, <3>5
  <2> QED
    BY <2>7, <2>8
<1> QED
  BY <1>1, <1>2, StepIsCountIn

\* A candle is pushed after, and is later than, all pushed before it.
LEMMA StepInOrder ==
    ASSUME TypeOK, Linked, CandlesInOrder, [Next]_aggregatorVars
    PROVE  CandlesInOrder'
<1>1. CASE UNCHANGED aggregatorVars
  BY <1>1 DEF CandlesInOrder, aggregatorVars
<1>2. ASSUME NEW trade \in Trades, CountIn(trade)
      PROVE  CandlesInOrder'
  <2> DEFINE t == trade.ticker
  <2>1. t \in Tickers /\ (candleData' = candleData \/
          (candle[t].minute # Temp /\ candleData' = Append(candleData, candle[t])))
    BY <1>2, CountInEffect
  <2>2. candle[t].ticker = t /\ candleData \in Seq(Candles)
    BY <2>1 DEF Linked, TypeOK
  <2>3. CASE candleData' = candleData
    BY <2>3 DEF CandlesInOrder
  <2>4. CASE candleData' = Append(candleData, candle[t])
    <3>1. SUFFICES ASSUME NEW i \in 1..Len(candleData'), NEW j \in 1..Len(candleData'),
                          i < j, candleData'[i].ticker = candleData'[j].ticker
                   PROVE  candleData'[i].timestamp < candleData'[j].timestamp
      BY DEF CandlesInOrder
    <3>2. i \in 1..Len(candleData) /\ candleData'[i] = candleData[i]
      BY <2>2, <2>4, <3>1
    <3>3. CASE j \in 1..Len(candleData)
      BY <2>2, <2>4, <3>1, <3>2, <3>3 DEF CandlesInOrder
    <3>4. CASE candleData'[j] = candle[t]
      BY <2>1, <2>2, <3>1, <3>2, <3>4 DEF Linked
    <3> QED
      BY <2>2, <2>4, <3>3, <3>4
  <2> QED
    BY <2>1, <2>3, <2>4
<1> QED
  BY <1>1, <1>2, StepIsCountIn

\* A trade that joins a candle is of its minute; one that is not, opens one.
LEMMA StepSameMinute ==
    ASSUME MaxGap < MinutesPerHour, TypeOK, Linked, SameMinute,
           NEW trade \in Trades, NotAfterGap(trade), CountIn(trade)
    PROVE  LET t == trade.ticker IN
           /\ candle'[t].timestamp = candle[t].timestamp =>
                Minute(trade.time) = Minute(candle[t].timestamp)
           /\ SameMinute'
<1> DEFINE t == trade.ticker
<1>1. /\ t \in Tickers /\ trade.time \in Nat
      /\ lastTimestamp[t] # NoTime => lastTimestamp[t] <= trade.time
  BY CountInEffect
<1>2. lastTimestamp'[t] = trade.time
      /\ \A v \in Tickers \ {t} : lastTimestamp'[v] = lastTimestamp[v] /\ candle'[v] = candle[v]
  BY CountInEffect DEF TypeOK
<1>3. CASE candle[t].minute # MinuteField(trade.time)
  <2>1. candle'[t].timestamp = trade.time
    BY <1>3, CountInEffect
  <2> QED
    BY <1>1, <1>2, <2>1 DEF SameMinute
<1>4. CASE candle[t].minute = MinuteField(trade.time)
  <2>1. candle'[t].timestamp = candle[t].timestamp
    BY <1>4, CountInEffect
  <2>2. candle[t].minute # Temp
    BY <1>1, <1>4, MinuteFacts DEF Temp
  <2>3. /\ candle[t].timestamp # NoTime /\ lastTimestamp[t] # NoTime
        /\ candle[t].timestamp <= lastTimestamp[t]
        /\ candle[t].minute = MinuteField(candle[t].timestamp)
        /\ Minute(candle[t].timestamp) = Minute(lastTimestamp[t])
    BY <1>1, <2>2 DEF Linked, SameMinute
  <2>4. candle[t].timestamp \in Nat /\ lastTimestamp[t] \in Nat
    <3>1. candle[t].timestamp \in Times \cup {NoTime}
          /\ lastTimestamp[t] \in Times \cup {NoTime}
      BY <1>1 DEF TypeOK, Candles
    <3> QED
      BY <2>3, <3>1, AggregatorAssumption DEF AggregatorAssumption
  <2>5. Minute(candle[t].timestamp) <= Minute(trade.time)
    BY <1>1, <2>3, <2>4, MinuteFacts
  <2>6. Minute(trade.time) < Minute(candle[t].timestamp) + MinutesPerHour
    <3>1. Minute(trade.time) <= Minute(lastTimestamp[t]) + MaxGap
      BY <2>3 DEF NotAfterGap
    <3>2. Minute(trade.time) \in Nat /\ Minute(candle[t].timestamp) \in Nat
          /\ MaxGap \in Nat /\ MinutesPerHour \in Nat
      BY <1>1, <2>4, MinuteFacts, AggregatorAssumption DEF AggregatorAssumption
    <3> QED
      BY <2>3, <3>1, <3>2
  <2>7. Minute(trade.time) = Minute(candle[t].timestamp)
    BY <1>1, <1>4, <2>3, <2>4, <2>5, <2>6, FieldDetermines, MinuteFacts DEF MinuteField
  <2> QED
    BY <1>1, <1>2, <2>1, <2>7 DEF SameMinute
<1> QED
  BY <1>3, <1>4

-----------------------------------------------------------------------------
\* Before the first trade everything is in place.
LEMMA InitInvariant == Init => TypeOK /\ Linked /\ CandlesInOrder /\ SameMinute
<1> SUFFICES ASSUME Init PROVE TypeOK /\ Linked /\ CandlesInOrder /\ SameMinute
  OBVIOUS
<1>1. \A t \in Tickers : NoCandle(t) \in Candles /\ NoCandle(t).minute = Temp
                        /\ NoCandle(t).ticker = t
  BY DEF NoCandle, Candles, Temp, NoTime
<1>2. TypeOK
  BY <1>1 DEF Init, TypeOK
<1>3. Linked
  BY <1>1 DEF Init, Linked
<1>4. CandlesInOrder
  BY DEF Init, CandlesInOrder
<1>5. SameMinute
  BY <1>1 DEF Init, SameMinute
<1> QED
  BY <1>2, <1>3, <1>4, <1>5

\* The candles, the times and the pushed candles keep their types.
THEOREM TypeCorrect == Spec => []TypeOK
<1>1. Init => TypeOK
  BY InitInvariant
<1>2. TypeOK /\ [Next]_aggregatorVars => TypeOK'
  BY StepType
<1> QED
  BY <1>1, <1>2, PTL DEF Spec

\* The inductive invariant of the candles of a ticker.
LEMMA LinkedInvariant == Spec => []Linked
<1>1. Init => Linked
  BY InitInvariant
<1>2. TypeOK /\ Linked /\ [Next]_aggregatorVars => Linked'
  BY StepLinked
<1> QED
  BY <1>1, <1>2, TypeCorrect, PTL DEF Spec

\* The candles of a ticker reach candleData in the order of time, whatever the
\* order in which its trades arrive and whatever the gaps between them.
THEOREM InOrder == Spec => []CandlesInOrder
<1>1. Init => CandlesInOrder
  BY InitInvariant
<1>2. TypeOK /\ Linked /\ CandlesInOrder /\ [Next]_aggregatorVars => CandlesInOrder'
  BY StepInOrder
<1> QED
  BY <1>1, <1>2, TypeCorrect, LinkedInvariant, PTL DEF Spec

\* A candle holds trades of one minute only, as long as no ticker is silent
\* until its minute field repeats.
THEOREM OneMinuteUnlessSilent ==
    ASSUME MaxGap < MinutesPerHour
    PROVE  Spec => ClosedOneMinuteCandles
<1> DEFINE Step ==
      \A t \in Tickers :
        accepted'[t] # accepted[t] /\ candle'[t].timestamp = candle[t].timestamp
            => Minute(Last(accepted'[t]).time) = Minute(candle[t].timestamp)
<1>1. Init => SameMinute
  BY InitInvariant
<1>2. TypeOK /\ Linked /\ SameMinute /\ [Next]_aggregatorVars => SameMinute'
  <2>1. CASE UNCHANGED aggregatorVars
    BY <2>1 DEF SameMinute, aggregatorVars
  <2> QED
    BY <2>1, StepIsCountIn, StepSameMinute
<1>3. TypeOK /\ Linked /\ SameMinute /\ [Next]_aggregatorVars => [Step]_aggregatorVars
  <2> SUFFICES ASSUME TypeOK, Linked, SameMinute,
                      NEW trade \in Trades, NotAfterGap(trade), CountIn(trade),
                      NEW t \in Tickers, accepted'[t] # accepted[t],
                      candle'[t].timestamp = candle[t].timestamp
               PROVE  Minute(Last(accepted'[t]).time) = Minute(candle[t].timestamp)
    BY StepIsCountIn
  <2>1. t = trade.ticker
    BY DEF CountIn, NewMinute, TypeOK
  <2>2. accepted'[t] = Append(accepted[t], trade) /\ accepted[t] \in Seq(Trades)
    BY <2>1 DEF CountIn, NewMinute, TypeOK
  <2>3. Last(accepted'[t]) = trade
    BY <2>2 DEF Last
  <2> QED
    BY <2>1, <2>3, StepSameMinute
<1> QED
  BY <1>1, <1>2, <1>3, TypeCorrect, LinkedInvariant, PTL
     DEF Spec, ClosedOneMinuteCandles
-----------------------------------------------------------------------------
\* Of each ticker the minutes grow from candle to candle ...
MinutesGrow ==
    \A j \in 1..Len(candleData) :
        /\ Minute(candleData[j].timestamp) < Minute(candle[candleData[j].ticker].timestamp)
        /\ \A i \in 1..(j - 1) : candleData[i].ticker = candleData[j].ticker =>
            Minute(candleData[i].timestamp) < Minute(candleData[j].timestamp)

\* ... and each minute with a trade has its candle.
HasCandle(t, m) ==
    \/ Minute(candle[t].timestamp) = m
    \/ \E k \in 1..Len(candleData) :
        candleData[k].ticker = t /\ Minute(candleData[k].timestamp) = m
NoMinuteMissing ==
    \A t \in Tickers :
        /\ candle[t].minute = Temp => accepted[t] = <<>>
        /\ \A i \in 1..Len(accepted[t]) : HasCandle(t, Minute(accepted[t][i].time))

\* The minutes of all candles are numbers.
LEMMA CandleMinutes ==
    ASSUME TypeOK
    PROVE  /\ \A t \in Tickers : Minute(candle[t].timestamp) \in Int
           /\ \A k \in 1..Len(candleData) :
                /\ candleData[k] \in Candles /\ candleData[k].ticker \in Tickers
                /\ Minute(candleData[k].timestamp) \in Int
<1>1. \A a \in Int : Minute(a) \in Int
  BY AggregatorAssumption DEF AggregatorAssumption, Minute
<1>2. \A c \in Candles : c.ticker \in Tickers
  BY DEF Candles
<1>3. /\ \A t \in Tickers : candle[t] \in Candles
      /\ \A k \in 1..Len(candleData) : candleData[k] \in Candles
  BY DEF TypeOK
<1> QED
  BY <1>1, <1>2, <1>3, TimeTypes

\* A candle that a trade opens is of a later minute than the one it closes.
LEMMA OpensLater ==
    ASSUME TypeOK, Linked, NEW trade \in Trades, CountIn(trade),
           candle[trade.ticker].minute # MinuteField(trade.time),
           candle[trade.ticker].minute # Temp
    PROVE  Minute(candle[trade.ticker].timestamp) < Minute(trade.time)
<1> DEFINE t == trade.ticker
<1>1. /\ t \in Tickers /\ trade.time \in Nat
      /\ lastTimestamp[t] # NoTime => lastTimestamp[t] <= trade.time
  BY CountInEffect
<1>2. /\ candle[t].timestamp # NoTime /\ lastTimestamp[t] # NoTime
      /\ candle[t].timestamp <= lastTimestamp[t]
      /\ candle[t].minute = MinuteField(candle[t].timestamp)
  BY <1>1 DEF Linked
<1>3. candle[t].timestamp \in Nat /\ lastTimestamp[t] \in Nat
  <2>1. candle[t].timestamp \in Times \cup {NoTime} /\ lastTimestamp[t] \in Times \cup {NoTime}
    BY <1>1 DEF TypeOK, Candles
  <2> QED
    BY <1>2, <2>1, AggregatorAssumption DEF AggregatorAssumption
<1>4. candle[t].timestamp <= trade.time
  BY <1>1, <1>2, <1>3
<1>5. Minute(candle[t].timestamp) <= Minute(trade.time)
  BY <1>1, <1>3, <1>4, MinuteFacts
<1>6. Minute(candle[t].timestamp) # Minute(trade.time)
  BY <1>2 DEF MinuteField
<1>7. Minute(candle[t].timestamp) \in Nat /\ Minute(trade.time) \in Nat
  BY <1>1, <1>3, MinuteFacts
<1> QED
  BY <1>5, <1>6, <1>7

LEMMA StepMinutesGrow ==
    ASSUME TypeOK, Linked, MinutesGrow, NEW trade \in Trades, CountIn(trade)
    PROVE  MinutesGrow'
<1> DEFINE t == trade.ticker
<1> DEFINE opens == candle[t].minute # MinuteField(trade.time)
<1>1. /\ t \in Tickers
      /\ \A u \in Tickers \ {t} : candle'[u] = candle[u]
      /\ candle'[t].timestamp = IF opens THEN trade.time ELSE candle[t].timestamp
      /\ candleData' = IF opens /\ candle[t].minute # Temp
                          THEN Append(candleData, candle[t]) ELSE candleData
  BY CountInEffect
<1>2. /\ candleData \in Seq(Candles) /\ candle[t].ticker = t
      /\ \A k \in 1..Len(candleData) : candleData[k].ticker = t => candle[t].minute # Temp
  BY <1>1 DEF TypeOK, Linked
<1>3. /\ Minute(trade.time) \in Int /\ Minute(candle[t].timestamp) \in Int
      /\ \A u \in Tickers : Minute(candle[u].timestamp) \in Int
      /\ \A k \in 1..Len(candleData) :
           candleData[k].ticker \in Tickers /\ Minute(candleData[k].timestamp) \in Int
  <2>1. trade.time \in Nat
    BY CountInEffect
  <2>2. Minute(trade.time) \in Int
    BY <2>1, MinuteFacts
  <2>3. /\ \A u \in Tickers : Minute(candle[u].timestamp) \in Int
        /\ \A k \in 1..Len(candleData) :
             candleData[k].ticker \in Tickers /\ Minute(candleData[k].timestamp) \in Int
    BY CandleMinutes
  <2> QED
    BY <1>1, <2>2, <2>3
<1>4. opens /\ candle[t].minute # Temp => Minute(candle[t].timestamp) < Minute(trade.time)
  BY OpensLater
<1>5. \A k \in 1..Len(candleData) :
        Minute(candleData[k].timestamp) < Minute(candle'[candleData[k].ticker].timestamp)
  <2>1. TAKE k \in 1..Len(candleData)
  <2>2. Minute(candleData[k].timestamp) < Minute(candle[candleData[k].ticker].timestamp)
    BY DEF MinutesGrow
  <2>3. CASE candleData[k].ticker # t
    BY <1>1, <1>3, <2>2, <2>3
  <2>4. CASE candleData[k].ticker = t
    BY <1>1, <1>2, <1>3, <1>4, <2>2, <2>4
  <2> QED
    BY <2>3, <2>4
<1>6. CASE candleData' = candleData
  BY <1>5, <1>6 DEF MinutesGrow
<1>7. CASE opens /\ candle[t].minute # Temp /\ candleData' = Append(candleData, candle[t])
  <2>1. SUFFICES ASSUME NEW j \in 1..Len(candleData')
                 PROVE  /\ Minute(candleData'[j].timestamp)
                             < Minute(candle'[candleData'[j].ticker].timestamp)
                        /\ \A i \in 1..(j - 1) : candleData'[i].ticker = candleData'[j].ticker =>
                             Minute(candleData'[i].timestamp) < Minute(candleData'[j].timestamp)
    BY DEF MinutesGrow
  <2>2. \A i \in 1..(j - 1) : i \in 1..Len(candleData) /\ candleData'[i] = candleData[i]
    BY <1>2, <1>7, <2>1
  <2>3. CASE j \in 1..Len(candleData)
    <3>1. candleData'[j] = candleData[j]
      BY <1>2, <1>7, <2>3
    <3> QED
      BY <1>5, <2>2, <2>3, <3>1 DEF MinutesGrow
  <2>4. CASE candleData'[j] = candle[t]
    BY <1>1, <1>2, <1>4, <1>7, <2>2, <2>4 DEF MinutesGrow
  <2> QED
    BY <1>2, <1>7, <2>1, <2>3, <2>4
<1> QED
  BY <1>1, <1>6, <1>7

LEMMA StepNoMinuteMissing ==
    ASSUME MaxGap < MinutesPerHour, TypeOK, Linked, SameMinute, NoMinuteMissing,
           NEW trade \in Trades, NotAfterGap(trade), CountIn(trade)
    PROVE  NoMinuteMissing'
<1> DEFINE t == trade.ticker
<1> DEFINE opens == candle[t].minute # MinuteField(trade.time)
<1>1. /\ t \in Tickers
      /\ \A u \in Tickers \ {t} : candle'[u] = candle[u]
      /\ candle'[t].timestamp = IF opens THEN trade.time ELSE candle[t].timestamp
      /\ candleData' = IF opens /\ candle[t].minute # Temp
                          THEN Append(candleData, candle[t]) ELSE candleData
  BY CountInEffect
<1>2. /\ candleData \in Seq(Candles) /\ candle[t].ticker = t
      /\ accepted \in [Tickers -> Seq(Trades)]
  BY <1>1 DEF TypeOK, Linked
<1>3. accepted' = [accepted EXCEPT ![t] = Append(@, trade)]
  BY DEF CountIn, NewMinute
<1>4. /\ \A k \in 1..Len(candleData) :
           k \in 1..Len(candleData') /\ candleData'[k] = candleData[k]
      /\ candleData' # candleData =>
           Len(candleData') \in 1..Len(candleData') /\ candleData'[Len(candleData')] = candle[t]
  BY <1>1, <1>2
<1>5. /\ candle[t].minute = Temp => accepted[t] = <<>>
      /\ candle'[t].minute # Temp
  <2>1. candle[t].minute = Temp => accepted[t] = <<>>
    BY <1>1 DEF NoMinuteMissing
  <2>2. candle'[t].minute = MinuteField(trade.time) /\ trade.time \in Nat
    BY CountInEffect
  <2> QED
    BY <2>1, <2>2, MinuteFacts DEF Temp
<1>6. ASSUME NEW m, HasCandle(t, m), candle[t].minute # Temp
      PROVE  HasCandle(t, m)'
  <2>1. CASE Minute(candle[t].timestamp) = m /\ opens
    <3>1. candleData' # candleData
      BY <1>1, <1>2, <1>6, <2>1
    <3> QED
      BY <1>2, <1>4, <2>1, <3>1 DEF HasCandle
  <2>2. CASE Minute(candle[t].timestamp) = m /\ ~opens
    BY <1>1, <2>2 DEF HasCandle
  <2>3. CASE \E k \in 1..Len(candleData) :
               candleData[k].ticker = t /\ Minute(candleData[k].timestamp) = m
    BY <1>4, <2>3 DEF HasCandle
  <2> QED
    BY <1>6, <2>1, <2>2, <2>3 DEF HasCandle
<1>7. Minute(candle'[t].timestamp) = Minute(trade.time)
  BY <1>1, StepSameMinute
<1>8. SUFFICES ASSUME NEW u \in Tickers, NEW i \in 1..Len(accepted'[u])
               PROVE  HasCandle(u, Minute(accepted[u][i].time))'
  <2>1. \A v \in Tickers \ {t} : accepted'[v] = accepted[v]
    BY <1>2, <1>3
  <2> QED
    BY <1>1, <1>5, <2>1 DEF NoMinuteMissing
<1>9. CASE u # t
  <2>1. accepted'[u] = accepted[u] /\ candle'[u] = candle[u]
    BY <1>1, <1>2, <1>3, <1>9
  <2> QED
    BY <1>4, <1>8, <2>1 DEF NoMinuteMissing, HasCandle
<1>10. CASE u = t
  <2>1. accepted'[t] = Append(accepted[t], trade)
    BY <1>1, <1>2, <1>3
  <2>2. CASE i \in 1..Len(accepted[t])
    <3>1. accepted'[t][i] = accepted[t][i] /\ candle[t].minute # Temp
      BY <1>1, <1>2, <1>5, <2>1, <2>2
    <3> QED
      BY <1>1, <1>6, <1>10, <2>2, <3>1 DEF NoMinuteMissing
  <2>3. CASE accepted'[t][i] = trade
    BY <1>7, <1>10, <2>3 DEF HasCandle
  <2> QED
    BY <1>1, <1>2, <1>8, <1>10, <2>1, <2>2, <2>3
<1> QED
  BY <1>9, <1>10


\* What the two invariants say together: one candle for each minute with a trade.
LEMMA OneCandleEach ==
    ASSUME TypeOK, Linked, MinutesGrow, NoMinuteMissing
    PROVE  EveryMinuteOnce
<1>1. SUFFICES ASSUME NEW t \in Tickers, NEW i \in DOMAIN accepted[t]
               PROVE  Cardinality({k \in DOMAIN Series(t) :
                        /\ Series(t)[k].ticker = t
                        /\ Minute(Series(t)[k].timestamp) = Minute(accepted[t][i].time)}) = 1
  BY DEF EveryMinuteOnce
<1> DEFINE m == Minute(accepted[t][i].time)
<1> DEFINE n == Len(candleData)
<1> DEFINE These == {k \in DOMAIN Series(t) :
                       Series(t)[k].ticker = t /\ Minute(Series(t)[k].timestamp) = m}
<1>2. /\ DOMAIN Series(t) = 1..(n + 1) /\ n \in Nat
      /\ Series(t)[n + 1] = candle[t] /\ candle[t].ticker = t
      /\ \A k \in 1..n : Series(t)[k] = candleData[k]
  BY <1>1 DEF Series, TypeOK, Linked
<1>3. HasCandle(t, m)
  <2>1. i \in 1..Len(accepted[t])
    BY <1>1 DEF TypeOK
  <2> QED
    BY <2>1 DEF NoMinuteMissing
<1>4. PICK k \in These : TRUE
  BY <1>2, <1>3 DEF HasCandle
<1>5. \A a, b \in These : a < b => FALSE
  <2>1. TAKE a, b \in These
  <2>2. HAVE a < b
  <2>3. /\ a \in 1..n /\ b \in 1..(n + 1)
        /\ candleData[a].ticker = t /\ Minute(candleData[a].timestamp) = m
        /\ m \in Int
    BY <1>2, <2>1, <2>2, CandleMinutes
  <2>4. CASE b \in 1..n
    <3>1. candleData[b].ticker = t /\ Minute(candleData[b].timestamp) = m
      BY <1>2, <2>1, <2>4
    <3> QED
      BY <2>2, <2>3, <2>4, <3>1 DEF MinutesGrow
  <2>5. CASE b = n + 1
    <3>1. Minute(candle[t].timestamp) = m
      BY <1>2, <2>1, <2>5
    <3> QED
      BY <2>3, <3>1 DEF MinutesGrow
  <2> QED
    BY <2>3, <2>4, <2>5
<1>6. \A a \in These : a \in Int
  BY <1>2
<1>7. These = {k}
  BY <1>4, <1>5, <1>6
<1>8. Cardinality({k}) = 1
  BY FS_Singleton
<1> QED
  BY <1>7, <1>8

\* If no ticker is silent until its minute field repeats, every minute with a
\* trade has its candle, and has it once, however the trades of several tickers
\* interleave and however late some of them come.
THEOREM NoMinuteLost ==
    ASSUME MaxGap < MinutesPerHour
    PROVE  Spec => []EveryMinuteOnce
<1> DEFINE Inv == SameMinute /\ MinutesGrow /\ NoMinuteMissing
<1>1. Init => Inv
  <2>1. ASSUME Init PROVE MinutesGrow /\ NoMinuteMissing
    BY <2>1 DEF Init, MinutesGrow, NoMinuteMissing
  <2> QED
    BY <2>1, InitInvariant
<1>2. TypeOK /\ Linked /\ Inv /\ [Next]_aggregatorVars => Inv'
  <2>1. SUFFICES ASSUME TypeOK, Linked, Inv, [Next]_aggregatorVars PROVE Inv'
    OBVIOUS
  <2>2. CASE UNCHANGED aggregatorVars
    BY <2>1, <2>2 DEF SameMinute, MinutesGrow, NoMinuteMissing, HasCandle, aggregatorVars
  <2>3. ASSUME NEW trade \in Trades, NotAfterGap(trade), CountIn(trade) PROVE Inv'
    BY <2>1, <2>3, StepSameMinute, StepMinutesGrow, StepNoMinuteMissing
  <2> QED
    BY <2>1, <2>2, <2>3, StepIsCountIn
<1>3. TypeOK /\ Linked /\ Inv => EveryMinuteOnce
  BY OneCandleEach
<1> QED
  BY <1>1, <1>2, <1>3, TypeCorrect, LinkedInvariant, PTL DEF Spec

-----------------------------------------------------------------------------
\* Induction, for a set of numbers.
LEMMA SetInduction ==
    ASSUME NEW S \in SUBSET Nat, 0 \in S, \A n \in S : n + 1 \in S
    PROVE  S = Nat
<1>1. IsWellFoundedOn(OpToRel(<, Nat), Nat)
  BY NatLessThanWellFounded
<1> SUFFICES ASSUME Nat \ S # {} PROVE FALSE
  OBVIOUS
<1>2. PICK x \in Nat \ S : \A y \in Nat \ S : ~ (<<y, x>> \in OpToRel(<, Nat))
  BY <1>1, WFMin, Zenon
<1>3. x # 0 /\ x - 1 \in Nat /\ x - 1 < x
  OBVIOUS
<1>4. <<x - 1, x>> \in OpToRel(<, Nat)
  BY <1>3 DEF OpToRel
<1>5. x - 1 \in S
  BY <1>2, <1>3, <1>4
<1>6. x \in S
  BY <1>3, <1>5
<1> QED
  BY <1>6

\* The sums of volumes exist: each is the one before it and one volume more.
LEMMA VolumeSums ==
    ASSUME NEW ts \in Seq(Trades)
    PROVE  /\ VolumeOf(ts)[0] = 0
           /\ \A i \in 1..Len(ts) : VolumeOf(ts)[i] = VolumeOf(ts)[i - 1] + ts[i].volume
<1> DEFINE Sums(f, n) == f = [i \in 0..n |-> IF i = 0 THEN 0 ELSE f[i - 1] + ts[i].volume]
<1> DEFINE S == {n \in Nat : \E f : Sums(f, n)}
<1>1. 0 \in S
  <2> DEFINE f == [i \in 0..0 |-> 0]
  <2>1. Sums(f, 0)
    OBVIOUS
  <2> QED
    BY <2>1
<1>2. ASSUME NEW n \in S PROVE n + 1 \in S
  <2>1. PICK f : Sums(f, n)
    OBVIOUS
  <2> DEFINE g == [i \in 0..(n + 1) |-> IF i = n + 1 THEN f[n] + ts[n + 1].volume ELSE f[i]]
  <2>2. \A i \in 0..n : f[i] = IF i = 0 THEN 0 ELSE f[i - 1] + ts[i].volume
    BY <2>1
  <2>3. \A i \in 0..(n + 1) : g[i] = IF i = 0 THEN 0 ELSE g[i - 1] + ts[i].volume
    BY <2>2
  <2>4. Sums(g, n + 1)
    BY <2>3
  <2> HIDE DEF g
  <2>5. \E h : Sums(h, n + 1)
    BY <2>4
  <2>6. n + 1 \in Nat
    OBVIOUS
  <2> HIDE DEF Sums
  <2> QED
    BY <2>5, <2>6
<1>3. S = Nat
  <2>1. S \in SUBSET Nat
    OBVIOUS
  <2> HIDE DEF S
  <2> QED
    BY <1>1, <1>2, <2>1, SetInduction
<1>4. \E f : Sums(f, Len(ts))
  BY <1>3
<1>5. Sums(VolumeOf(ts), Len(ts))
  BY <1>4 DEF VolumeOf
<1>6. \A i \in 0..Len(ts) :
        VolumeOf(ts)[i] = IF i = 0 THEN 0 ELSE VolumeOf(ts)[i - 1] + ts[i].volume
  BY <1>5
<1> QED
  BY <1>6

\* They are numbers ...
LEMMA VolumesNumbers ==
    ASSUME NEW ts \in Seq(Trades)
    PROVE  \A i \in 0..Len(ts) : VolumeOf(ts)[i] \in Nat
<1> DEFINE S == {n \in Nat : n <= Len(ts) => VolumeOf(ts)[n] \in Nat}
<1>1. 0 \in S
  BY VolumeSums
<1>2. ASSUME NEW n \in S PROVE n + 1 \in S
  <2>1. CASE n + 1 <= Len(ts)
    <3>1. n + 1 \in 1..Len(ts)
      BY <2>1
    <3>2. VolumeOf(ts)[n + 1] = VolumeOf(ts)[n] + ts[n + 1].volume
      BY <3>1, VolumeSums
    <3>3. ts[n + 1] \in Trades
      BY <3>1
    <3>4. ts[n + 1].volume \in Nat
      BY <3>3, AggregatorAssumption DEF Trades, AggregatorAssumption
    <3> QED
      BY <2>1, <3>1, <3>2, <3>4
  <2> QED
    BY <2>1
<1>3. S = Nat
  <2>1. S \in SUBSET Nat
    OBVIOUS
  <2> HIDE DEF S
  <2> QED
    BY <1>1, <1>2, <2>1, SetInduction
<1> QED
  BY <1>3

\* ... and remain what they are when there is another trade.
LEMMA VolumesKept ==
    ASSUME NEW ts \in Seq(Trades), NEW trade \in Trades
    PROVE  /\ \A i \in 0..Len(ts) : VolumeOf(Append(ts, trade))[i] = VolumeOf(ts)[i]
           /\ VolumeOf(Append(ts, trade))[Len(ts) + 1] = VolumeOf(ts)[Len(ts)] + trade.volume
<1> DEFINE more == Append(ts, trade)
<1> DEFINE S == {n \in Nat : n <= Len(ts) => VolumeOf(more)[n] = VolumeOf(ts)[n]}
<1>1. more \in Seq(Trades) /\ Len(more) = Len(ts) + 1 /\ more[Len(ts) + 1] = trade
      /\ \A i \in 1..Len(ts) : more[i] = ts[i]
  OBVIOUS
<1> HIDE DEF more
<1>2. 0 \in S
  BY <1>1, VolumeSums
<1>3. ASSUME NEW n \in S PROVE n + 1 \in S
  <2>1. CASE n + 1 <= Len(ts)
    <3>1. n + 1 \in 1..Len(ts) /\ n + 1 \in 1..Len(more)
      BY <1>1, <2>1
    <3>2. VolumeOf(ts)[n + 1] = VolumeOf(ts)[n] + ts[n + 1].volume
      BY <3>1, VolumeSums
    <3>3. VolumeOf(more)[n + 1] = VolumeOf(more)[n] + more[n + 1].volume
      BY <1>1, <3>1, VolumeSums
    <3> QED
      BY <1>1, <2>1, <3>1, <3>2, <3>3
  <2> QED
    BY <2>1
<1>4. S = Nat
  <2>1. S \in SUBSET Nat
    OBVIOUS
  <2> HIDE DEF S
  <2> QED
    BY <1>2, <1>3, <2>1, SetInduction
<1>5. \A i \in 0..Len(ts) : VolumeOf(more)[i] = VolumeOf(ts)[i]
  BY <1>4
<1>6. VolumeOf(more)[Len(ts) + 1] = VolumeOf(more)[Len(ts)] + trade.volume
  <2>1. Len(ts) + 1 \in 1..Len(more)
    BY <1>1
  <2> QED
    BY <1>1, <2>1, VolumeSums
<1> QED
  BY <1>5, <1>6 DEF more

-----------------------------------------------------------------------------
\* c is the candle of the trades ts of its minute, which are those from the
\* first to the last.
Right(c, ts, first, last) ==
    OfMinute(ts, Minute(c.timestamp)) = first..last /\ IsCandleOf(c, ts, first, last)

\* The pushed candles are right, and will stay so; the one being built is right
\* so far.
PushedRight ==
    \A k \in 1..Len(candleData) :
        LET ts == accepted[candleData[k].ticker] IN
        \E first, last \in 1..Len(ts) : Right(candleData[k], ts, first, last)
BuiltRight ==
    \A t \in Tickers : candle[t].minute # Temp =>
        \E first \in 1..Len(accepted[t]) :
            Right(candle[t], accepted[t], first, Len(accepted[t]))

\* The fields of a candle with one more trade.
LEMMA UpdatedFields ==
    ASSUME NEW c \in Candles, NEW trade \in Trades
    PROVE  /\ Updated(c, trade).open = c.open
           /\ Updated(c, trade).close = trade.price
           /\ Updated(c, trade).volume = c.volume + trade.volume
           /\ Updated(c, trade).high = IF c.high < trade.price THEN trade.price ELSE c.high
           /\ Updated(c, trade).low = IF c.low > trade.price THEN trade.price ELSE c.low
           /\ Updated(c, trade).minute = c.minute
           /\ Updated(c, trade).timestamp = c.timestamp
BY DEF Updated, Candles

LEMMA OpenedFields ==
    ASSUME NEW c \in Candles, NEW trade \in Trades
    PROVE  /\ Opened(c, trade) \in Candles
           /\ Opened(c, trade).open = trade.price /\ Opened(c, trade).close = trade.price
           /\ Opened(c, trade).high = trade.price /\ Opened(c, trade).low = trade.price
           /\ Opened(c, trade).volume = 0
           /\ Opened(c, trade).minute = MinuteField(trade.time)
           /\ Opened(c, trade).timestamp = trade.time
<1>1. trade.price \in Prices /\ trade.time \in Times
  BY DEF Trades
<1>2. MinuteField(trade.time) \in 0..(MinutesPerHour - 1)
  BY <1>1, MinuteFacts, AggregatorAssumption DEF AggregatorAssumption
<1> QED
  BY <1>1, <1>2 DEF Opened, Candles

LEMMA TradeFields ==
    ASSUME NEW trade \in Trades
    PROVE  trade.price \in Nat /\ trade.volume \in Nat /\ trade.time \in Nat
BY AggregatorAssumption DEF Trades, AggregatorAssumption

\* The trades of a minute when there is another trade.
LEMMA OfMinuteAppend ==
    ASSUME NEW ts \in Seq(Trades), NEW trade \in Trades, NEW m
    PROVE  OfMinute(Append(ts, trade), m) =
             OfMinute(ts, m) \cup (IF Minute(trade.time) = m THEN {Len(ts) + 1} ELSE {})
<1>1. /\ DOMAIN Append(ts, trade) = 1..(Len(ts) + 1) /\ DOMAIN ts = 1..Len(ts)
      /\ Append(ts, trade)[Len(ts) + 1] = trade
      /\ \A i \in 1..Len(ts) : Append(ts, trade)[i] = ts[i]
  OBVIOUS
<1> QED
  BY <1>1 DEF OfMinute

\* A candle of another minute than the trade stays right.
LEMMA StaysRight ==
    ASSUME NEW ts \in Seq(Trades), NEW trade \in Trades, NEW c,
           NEW first \in 1..Len(ts), NEW last \in 1..Len(ts),
           Right(c, ts, first, last), Minute(trade.time) # Minute(c.timestamp)
    PROVE  Right(c, Append(ts, trade), first, last)
<1> DEFINE more == Append(ts, trade)
<1>1. \A i \in 1..Len(ts) : more[i] = ts[i]
  OBVIOUS
<1>2. OfMinute(more, Minute(c.timestamp)) = first..last
  <2>1. OfMinute(more, Minute(c.timestamp)) = OfMinute(ts, Minute(c.timestamp)) \cup {}
    BY OfMinuteAppend
  <2> QED
    BY <2>1 DEF Right
<1>3. VolumeOf(more)[last] = VolumeOf(ts)[last] /\ VolumeOf(more)[first - 1] = VolumeOf(ts)[first - 1]
  BY VolumesKept
<1>4. {more[i].price : i \in first..last} = {ts[i].price : i \in first..last}
  BY <1>1
<1> HIDE DEF more
<1>5. IsCandleOf(c, more, first, last)
  BY <1>1, <1>3, <1>4 DEF Right, IsCandleOf
<1> QED
  BY <1>2, <1>5 DEF Right, more

\* A trade of the minute of the candle makes the candle right for one trade more.
LEMMA JoinsRight ==
    ASSUME NEW ts \in Seq(Trades), NEW trade \in Trades, NEW c \in Candles,
           NEW first \in 1..Len(ts),
           Right(c, ts, first, Len(ts)), Minute(trade.time) = Minute(c.timestamp)
    PROVE  Right(Updated(c, trade), Append(ts, trade), first, Len(ts) + 1)
<1> DEFINE more == Append(ts, trade)
<1> DEFINE n == Len(ts)
<1> DEFINE d == Updated(c, trade)
<1> DEFINE prices == {ts[i].price : i \in first..n}
<1> DEFINE morePrices == {more[i].price : i \in first..(n + 1)}
<1>1. /\ \A i \in 1..n : more[i] = ts[i]
      /\ more[n + 1] = trade /\ n \in Nat /\ first \in Nat
  OBVIOUS
<1>2. OfMinute(more, Minute(d.timestamp)) = first..(n + 1)
  <2>1. d.timestamp = c.timestamp
    BY UpdatedFields
  <2>2. OfMinute(more, Minute(c.timestamp)) = (first..n) \cup {n + 1}
    BY OfMinuteAppend DEF Right
  <2>3. (first..n) \cup {n + 1} = first..(n + 1)
    BY <1>1
  <2> QED
    BY <2>1, <2>2, <2>3
<1>3. morePrices = prices \cup {trade.price}
  BY <1>1
<1>4. \A p \in prices : p \in Nat
  BY TradeFields
<1>5. c.high \in prices /\ c.low \in prices /\ \A p \in prices : c.low <= p /\ p <= c.high
  BY DEF Right, IsCandleOf
<1>6. trade.price \in Nat
  BY TradeFields
<1>7. /\ d.high = IF c.high < trade.price THEN trade.price ELSE c.high
      /\ d.low = IF c.low > trade.price THEN trade.price ELSE c.low
  BY UpdatedFields
<1>8. d.high \in morePrices /\ d.low \in morePrices
      /\ \A p \in morePrices : d.low <= p /\ p <= d.high
  <2> HIDE DEF prices, morePrices, d
  <2> QED
    BY <1>3, <1>4, <1>5, <1>6, <1>7
<1>9. d.volume = VolumeOf(more)[n + 1] - VolumeOf(more)[first - 1]
  <2>1. c.volume = VolumeOf(ts)[n] - VolumeOf(ts)[first - 1]
    BY DEF Right, IsCandleOf
  <2>2. VolumeOf(more)[n + 1] = VolumeOf(ts)[n] + trade.volume
    BY VolumesKept
  <2>3. VolumeOf(more)[first - 1] = VolumeOf(ts)[first - 1]
    BY VolumesKept
  <2>4. VolumeOf(ts)[n] \in Nat /\ VolumeOf(ts)[first - 1] \in Nat /\ trade.volume \in Nat
    BY VolumesNumbers, TradeFields
  <2>5. d.volume = c.volume + trade.volume
    BY UpdatedFields
  <2> QED
    BY <2>1, <2>2, <2>3, <2>4, <2>5
<1>10. /\ d.timestamp = more[first].time /\ d.minute = MinuteField(more[first].time)
       /\ d.open = more[first].price /\ d.close = more[n + 1].price
  BY <1>1, UpdatedFields DEF Right, IsCandleOf
<1> HIDE DEF d, more, n
<1> QED
  BY <1>2, <1>8, <1>9, <1>10 DEF Right, IsCandleOf, d, more, n

\* The first trade of a minute makes a candle that is right.
LEMMA OpensRight ==
    ASSUME NEW ts \in Seq(Trades), NEW trade \in Trades, NEW c \in Candles,
           OfMinute(ts, Minute(trade.time)) = {}
    PROVE  Right(Updated(Opened(c, trade), trade), Append(ts, trade), Len(ts) + 1, Len(ts) + 1)
<1> DEFINE more == Append(ts, trade)
<1> DEFINE n == Len(ts)
<1> DEFINE o == Opened(c, trade)
<1> DEFINE d == Updated(o, trade)
<1>1. more[n + 1] = trade /\ n \in Nat
  OBVIOUS
<1>2. trade.price \in Nat /\ trade.volume \in Nat
  BY TradeFields
<1>3. /\ o \in Candles
      /\ o.open = trade.price /\ o.close = trade.price
      /\ o.high = trade.price /\ o.low = trade.price
      /\ o.volume = 0
      /\ o.minute = MinuteField(trade.time) /\ o.timestamp = trade.time
  BY OpenedFields
<1> HIDE DEF o
<1>4. /\ d.open = trade.price /\ d.close = trade.price
      /\ d.high = trade.price /\ d.low = trade.price
      /\ d.volume = trade.volume
      /\ d.minute = MinuteField(trade.time) /\ d.timestamp = trade.time
  BY <1>2, <1>3, UpdatedFields
<1>5. OfMinute(more, Minute(d.timestamp)) = (n + 1)..(n + 1)
  <2>1. OfMinute(more, Minute(trade.time)) = {n + 1}
    BY OfMinuteAppend
  <2>2. (n + 1)..(n + 1) = {n + 1}
    BY <1>1
  <2> QED
    BY <1>4, <2>1, <2>2
<1>6. {more[i].price : i \in (n + 1)..(n + 1)} = {trade.price}
  BY <1>1
<1>7. d.volume = VolumeOf(more)[n + 1] - VolumeOf(more)[n]
  <2>1. /\ VolumeOf(more)[n + 1] = VolumeOf(ts)[n] + trade.volume
        /\ VolumeOf(more)[n] = VolumeOf(ts)[n] /\ VolumeOf(ts)[n] \in Nat
    BY VolumesKept, VolumesNumbers
  <2> QED
    BY <1>2, <1>4, <2>1
<1>8. IsCandleOf(d, more, n + 1, n + 1)
  <2>1. (n + 1) - 1 = n
    BY <1>1
  <2> HIDE DEF d, more, n
  <2> QED
    BY <1>1, <1>2, <1>4, <1>6, <1>7, <2>1 DEF IsCandleOf
<1> QED
  BY <1>5, <1>8 DEF Right, o

\* All candles are right after a trade.
LEMMA StepRight ==
    ASSUME MaxGap < MinutesPerHour,
           TypeOK, Linked, SameMinute, MinutesGrow, NoMinuteMissing, PushedRight, BuiltRight,
           NEW trade \in Trades, NotAfterGap(trade), CountIn(trade)
    PROVE  PushedRight' /\ BuiltRight'
<1> DEFINE t == trade.ticker
<1> DEFINE c == candle[t]
<1> DEFINE ts == accepted[t]
<1> DEFINE opens == c.minute # MinuteField(trade.time)
<1>1. /\ t \in Tickers
      /\ \A u \in Tickers \ {t} : candle'[u] = candle[u]
      /\ candle'[t].timestamp = IF opens THEN trade.time ELSE c.timestamp
      /\ candleData' = IF opens /\ c.minute # Temp THEN Append(candleData, c) ELSE candleData
  BY CountInEffect
<1>2. /\ candleData \in Seq(Candles) /\ c \in Candles /\ c.ticker = t
      /\ \A k \in 1..Len(candleData) :
           /\ candleData[k].ticker \in Tickers
           /\ candleData[k].ticker = t => c.minute # Temp
      /\ accepted \in [Tickers -> Seq(Trades)] /\ ts \in Seq(Trades)
  <2>1. candleData \in Seq(Candles) /\ c \in Candles /\ accepted \in [Tickers -> Seq(Trades)]
    BY <1>1 DEF TypeOK
  <2>2. c.ticker = t /\ \A k \in 1..Len(candleData) : candleData[k].ticker = t => c.minute # Temp
    BY <1>1 DEF Linked
  <2> QED
    BY <1>1, <2>1, <2>2, CandleMinutes
<1>3. /\ accepted'[t] = Append(ts, trade)
      /\ \A u \in Tickers \ {t} : accepted'[u] = accepted[u]
  BY <1>1, <1>2 DEF CountIn, NewMinute
<1>4. candle'[t] = Updated(IF opens THEN Opened(c, trade) ELSE c, trade)
  BY <1>1, <1>2 DEF CountIn, NewMinute, TypeOK
<1>5. opens /\ c.minute # Temp => Minute(c.timestamp) < Minute(trade.time)
  BY OpensLater
<1>6. Minute(c.timestamp) \in Int /\ Minute(trade.time) \in Int
  <2>1. trade.time \in Nat
    BY TradeFields
  <2>2. Minute(trade.time) \in Nat
    BY <2>1, MinuteFacts
  <2>3. Minute(c.timestamp) \in Int
    BY <1>1, CandleMinutes
  <2> QED
    BY <2>2, <2>3
<1>7. \A k \in 1..Len(candleData) : candleData[k].ticker = t =>
        Minute(candleData[k].timestamp) < Minute(c.timestamp)
  BY DEF MinutesGrow
<1>8. ~opens => Minute(trade.time) = Minute(c.timestamp)
  BY <1>1, StepSameMinute
<1>9. \A k \in 1..Len(candleData) : candleData[k].ticker = t =>
        Minute(candleData[k].timestamp) # Minute(trade.time)
  BY <1>2, <1>5, <1>6, <1>7, <1>8, CandleMinutes
<1>10. ASSUME opens PROVE OfMinute(ts, Minute(trade.time)) = {}
  <2>1. SUFFICES ASSUME NEW i \in 1..Len(ts), Minute(ts[i].time) = Minute(trade.time)
                 PROVE  FALSE
    <3>1. DOMAIN ts = 1..Len(ts)
      BY <1>2
    <3> HIDE DEF ts
    <3> QED
      BY <3>1 DEF OfMinute
  <2>2. c.minute # Temp
    BY <1>1, <1>2, <2>1 DEF NoMinuteMissing
  <2>3. HasCandle(t, Minute(trade.time))
    BY <1>1, <2>1 DEF NoMinuteMissing
  <2>4. Minute(c.timestamp) # Minute(trade.time)
    BY <1>5, <1>6, <1>10, <2>2
  <2> QED
    BY <1>9, <2>3, <2>4 DEF HasCandle
<1> DEFINE IsRight(d, ds) == \E first, last \in 1..Len(ds) : Right(d, ds, first, last)
<1>11. \A k \in 1..Len(candleData) : IsRight(candleData[k], accepted'[candleData[k].ticker])
  <2>1. TAKE k \in 1..Len(candleData)
  <2>2. IsRight(candleData[k], accepted[candleData[k].ticker])
    BY DEF PushedRight
  <2>3. CASE candleData[k].ticker # t
    BY <1>2, <1>3, <2>2, <2>3
  <2>4. CASE candleData[k].ticker = t
    <3>1. PICK first \in 1..Len(ts), last \in 1..Len(ts) : Right(candleData[k], ts, first, last)
      BY <2>2, <2>4
    <3>2. Right(candleData[k], Append(ts, trade), first, last)
      BY <1>2, <1>9, <2>4, <3>1, StaysRight
    <3>3. first \in 1..Len(Append(ts, trade)) /\ last \in 1..Len(Append(ts, trade))
      BY <1>2
    <3> QED
      BY <1>3, <2>4, <3>2, <3>3
  <2> QED
    BY <2>3, <2>4
<1>12. ASSUME opens, c.minute # Temp PROVE IsRight(c, accepted'[t])
  <2>1. PICK first \in 1..Len(ts) : Right(c, ts, first, Len(ts))
    BY <1>1, <1>12 DEF BuiltRight
  <2>2. Len(ts) \in 1..Len(ts) /\ Minute(trade.time) # Minute(c.timestamp)
    BY <1>2, <1>5, <1>6, <1>12
  <2>3. Right(c, Append(ts, trade), first, Len(ts))
    BY <1>2, <2>1, <2>2, StaysRight
  <2>4. first \in 1..Len(Append(ts, trade)) /\ Len(ts) \in 1..Len(Append(ts, trade))
    BY <1>2, <2>2
  <2> QED
    BY <1>3, <2>3, <2>4
<1>13. PushedRight'
  <2>1. SUFFICES ASSUME NEW k \in 1..Len(candleData')
                 PROVE  IsRight(candleData'[k], accepted'[candleData'[k].ticker])
    BY DEF PushedRight
  <2>2. CASE k \in 1..Len(candleData) /\ candleData'[k] = candleData[k]
    BY <1>11, <2>2
  <2>3. CASE opens /\ c.minute # Temp /\ candleData'[k] = c
    BY <1>2, <1>12, <2>3
  <2>4. \/ k \in 1..Len(candleData) /\ candleData'[k] = candleData[k]
        \/ opens /\ c.minute # Temp /\ candleData'[k] = c
    <3> HIDE DEF opens, c
    <3> QED
      BY <1>1, <1>2, <2>1
  <2> QED
    BY <2>2, <2>3, <2>4
<1>14. \E first \in 1..Len(accepted'[t]) :
         Right(candle'[t], accepted'[t], first, Len(accepted'[t]))
  <2>1. Len(Append(ts, trade)) = Len(ts) + 1 /\ Len(ts) \in Nat
    BY <1>2
  <2>2. CASE opens
    <3>1. Right(Updated(Opened(c, trade), trade), Append(ts, trade), Len(ts) + 1, Len(ts) + 1)
      BY <1>2, <1>10, <2>2, OpensRight
    <3>2. candle'[t] = Updated(Opened(c, trade), trade)
      BY <1>4, <2>2
    <3>3. Len(ts) + 1 \in 1..Len(Append(ts, trade))
      BY <2>1
    <3> QED
      BY <1>3, <2>1, <3>1, <3>2, <3>3
  <2>3. CASE ~opens
    <3>1. c.minute # Temp
      <4>1. trade.time \in Nat
        BY TradeFields
      <4> QED
        BY <2>3, <4>1, MinuteFacts DEF Temp
    <3>2. PICK first \in 1..Len(ts) : Right(c, ts, first, Len(ts))
      BY <1>1, <3>1 DEF BuiltRight
    <3>3. Right(Updated(c, trade), Append(ts, trade), first, Len(ts) + 1)
      BY <1>2, <1>8, <2>3, <3>2, JoinsRight
    <3>4. candle'[t] = Updated(c, trade)
      BY <1>4, <2>3
    <3>5. first \in 1..Len(Append(ts, trade))
      BY <2>1
    <3> QED
      BY <1>3, <2>1, <3>3, <3>4, <3>5
  <2> QED
    BY <2>2, <2>3
<1>15. BuiltRight'
  <2>1. SUFFICES ASSUME NEW u \in Tickers, candle'[u].minute # Temp
                 PROVE  \E first \in 1..Len(accepted'[u]) :
                          Right(candle'[u], accepted'[u], first, Len(accepted'[u]))
    BY DEF BuiltRight
  <2>2. CASE u = t
    BY <1>14, <2>2
  <2>3. CASE u # t
    <3>1. candle'[u] = candle[u] /\ accepted'[u] = accepted[u]
      BY <1>1, <1>3, <2>3
    <3> QED
      BY <2>1, <3>1 DEF BuiltRight
  <2> QED
    BY <2>2, <2>3
<1> QED
  BY <1>13, <1>15

\* If no ticker is silent until its minute field repeats, each candle is what the
\* accepted trades of its minute, all of them and no others, make of a candle by
\* definition: the first, the last, the highest and the lowest price and the sum
\* of the volumes.
THEOREM CandlesRight ==
    ASSUME MaxGap < MinutesPerHour
    PROVE  Spec => []OneMinuteCandles
<1> DEFINE Inv == SameMinute /\ MinutesGrow /\ NoMinuteMissing /\ PushedRight /\ BuiltRight
<1>1. Init => Inv
  <2>1. ASSUME Init PROVE MinutesGrow /\ NoMinuteMissing /\ PushedRight
    BY <2>1 DEF Init, MinutesGrow, NoMinuteMissing, PushedRight
  <2>2. ASSUME Init PROVE BuiltRight
    BY <2>2 DEF Init, BuiltRight, NoCandle
  <2> QED
    BY <2>1, <2>2, InitInvariant
<1>2. TypeOK /\ Linked /\ Inv /\ [Next]_aggregatorVars => Inv'
  <2>1. SUFFICES ASSUME TypeOK, Linked, Inv, [Next]_aggregatorVars PROVE Inv'
    OBVIOUS
  <2>2. CASE UNCHANGED aggregatorVars
    BY <2>1, <2>2 DEF SameMinute, MinutesGrow, NoMinuteMissing, HasCandle, PushedRight,
                      BuiltRight, aggregatorVars
  <2>3. ASSUME NEW trade \in Trades, NotAfterGap(trade), CountIn(trade) PROVE Inv'
    BY <2>1, <2>3, StepSameMinute, StepMinutesGrow, StepNoMinuteMissing, StepRight
  <2> QED
    BY <2>1, <2>2, <2>3, StepIsCountIn
<1>3. TypeOK /\ Linked /\ Inv => OneMinuteCandles
  <2>1. SUFFICES ASSUME TypeOK, Linked, Inv, NEW t \in Tickers, NEW k \in DOMAIN Series(t),
                        Series(t)[k].ticker = t, Series(t)[k].minute # Temp
                 PROVE  \E first, last \in DOMAIN accepted[t] :
                          Right(Series(t)[k], accepted[t], first, last)
    BY DEF OneMinuteCandles, Right
  <2>2. DOMAIN accepted[t] = 1..Len(accepted[t]) /\ Len(accepted[t]) \in Nat
    BY <2>1 DEF TypeOK
  <2>3. \/ k \in 1..Len(candleData) /\ Series(t)[k] = candleData[k]
        \/ Series(t)[k] = candle[t]
    BY <2>1 DEF Series, TypeOK
  <2>4. CASE k \in 1..Len(candleData) /\ Series(t)[k] = candleData[k]
    BY <2>1, <2>2, <2>4 DEF PushedRight
  <2>5. CASE Series(t)[k] = candle[t]
    <3>1. PICK first \in 1..Len(accepted[t]) :
            Right(candle[t], accepted[t], first, Len(accepted[t]))
      BY <2>1, <2>5 DEF BuiltRight
    <3>2. Len(accepted[t]) \in DOMAIN accepted[t]
      BY <2>2
    <3> QED
      BY <2>2, <2>5, <3>1, <3>2
  <2> QED
    BY <2>3, <2>4, <2>5
<1> QED
  BY <1>1, <1>2, <1>3, TypeCorrect, LinkedInvariant, PTL DEF Spec
=============================================================================
