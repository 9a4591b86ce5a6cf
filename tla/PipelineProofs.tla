---------------------------- MODULE PipelineProofs ----------------------------
(***************************************************************************)
(* Proofs about Pipeline.tla.                                              *)
(***************************************************************************)
EXTENDS Pipeline, SequenceTheorems, TLAPS

\* What is proved of the Aggregator, for the one that runs here.
AP == INSTANCE AggregatorProofs

LEMMA AggregatorAssumed == AP!AggregatorAssumption
BY PipelineAssumption
   DEF PipelineAssumption, Aggregator!AggregatorAssumption, AP!AggregatorAssumption

-----------------------------------------------------------------------------
\* FlattenSeq is defined by recursion: f[i] is what the first i of ss make.
Sums(f, ss, n) == f = [i \in 1..n |-> IF i = 1 THEN ss[i] ELSE f[i - 1] \o ss[i]]

LEMMA SumsExist ==
    ASSUME NEW ss, NEW n \in Nat
    PROVE  \E f : Sums(f, ss, n)
<1> DEFINE S == {k \in Nat : \E f : Sums(f, ss, k)}
<1>1. 0 \in S
  <2>1. Sums([i \in 1..0 |-> ss[i]], ss, 0)
    BY DEF Sums
  <2> QED
    BY <2>1
<1>2. ASSUME NEW k \in S PROVE k + 1 \in S
  <2>1. PICK f : Sums(f, ss, k)
    OBVIOUS
  <2> DEFINE last == IF k = 0 THEN ss[1] ELSE f[k] \o ss[k + 1]
  <2> DEFINE g == [i \in 1..(k + 1) |-> IF i = k + 1 THEN last ELSE f[i]]
  <2>2. \A i \in 1..k : f[i] = IF i = 1 THEN ss[i] ELSE f[i - 1] \o ss[i]
    BY <2>1 DEF Sums
  <2>3. \A i \in 1..(k + 1) : g[i] = IF i = 1 THEN ss[i] ELSE g[i - 1] \o ss[i]
    BY <2>2
  <2>4. Sums(g, ss, k + 1)
    BY <2>3 DEF Sums
  <2> HIDE DEF g
  <2>5. \E h : Sums(h, ss, k + 1)
    BY <2>4
  <2>6. k + 1 \in Nat
    OBVIOUS
  <2> QED
    BY <2>5, <2>6
<1>3. S = Nat
  <2>1. S \in SUBSET Nat
    OBVIOUS
  <2> HIDE DEF S
  <2> QED
    BY <1>1, <1>2, <2>1, AggregatorAssumed, AP!SetInduction, SMTT(30)
<1> QED
  BY <1>3

\* Where two sequences agree so do the parts of what they make.
LEMMA SumsAgree ==
    ASSUME NEW ss, NEW tt, NEW f, NEW g, NEW m \in Nat, NEW n \in Nat, m <= n,
           Sums(f, ss, m), Sums(g, tt, n), \A i \in 1..m : ss[i] = tt[i]
    PROVE  \A i \in 1..m : f[i] = g[i]
<1> DEFINE S == {k \in Nat : k \in 1..m => f[k] = g[k]}
<1>1. 0 \in S
  OBVIOUS
<1>2. ASSUME NEW k \in S PROVE k + 1 \in S
  <2>1. CASE k + 1 \in 1..m
    <3>1. f[k + 1] = IF k + 1 = 1 THEN ss[k + 1] ELSE f[(k + 1) - 1] \o ss[k + 1]
      BY <2>1 DEF Sums
    <3>2. g[k + 1] = IF k + 1 = 1 THEN tt[k + 1] ELSE g[(k + 1) - 1] \o tt[k + 1]
      <4>1. k + 1 \in 1..n
        BY <2>1
      <4> QED
        BY <4>1 DEF Sums
    <3>3. ss[k + 1] = tt[k + 1] /\ (k + 1) - 1 = k /\ (k + 1 # 1 => f[k] = g[k])
      BY <2>1
    <3>4. f[k + 1] = g[k + 1]
      BY <3>1, <3>2, <3>3
    <3> QED
      BY <3>4
  <2> QED
    BY <2>1
<1>3. S = Nat
  <2>1. S \in SUBSET Nat
    OBVIOUS
  <2> HIDE DEF S
  <2> QED
    BY <1>1, <1>2, <2>1, AggregatorAssumed, AP!SetInduction, SMTT(30)
<1> QED
  BY <1>3

LEMMA FlattenIsSum ==
    ASSUME NEW T, NEW ss \in Seq(T), ss # <<>>, NEW f, Sums(f, ss, Len(ss))
    PROVE  FlattenSeq(ss) = f[Len(ss)]
<1>1. Len(ss) \in Nat /\ Len(ss) # 0 /\ Len(ss) \in 1..Len(ss)
  OBVIOUS
<1> DEFINE g == CHOOSE h : Sums(h, ss, Len(ss))
<1>2. FlattenSeq(ss) = g[Len(ss)]
  BY <1>1 DEF FlattenSeq, Sums
<1>3. Sums(g, ss, Len(ss))
  OBVIOUS
<1> HIDE DEF g
<1> QED
  BY <1>1, <1>2, <1>3, SumsAgree

LEMMA FlattenEmpty == FlattenSeq(<<>>) = <<>>
BY DEF FlattenSeq

\* One sequence more at the end ...
LEMMA FlattenAppend ==
    ASSUME NEW A, NEW ss \in Seq(Seq(A)), NEW s \in Seq(A)
    PROVE  FlattenSeq(Append(ss, s)) = FlattenSeq(ss) \o s
<1> DEFINE B == Seq(A)
<1> DEFINE more == Append(ss, s)
<1> DEFINE n == Len(ss)
<1>1. /\ more \in Seq(B) /\ more # <<>> /\ Len(more) = n + 1 /\ n \in Nat
      /\ more[n + 1] = s /\ \A i \in 1..n : ss[i] = more[i]
  <2>1. ss \in Seq(B) /\ s \in B
    OBVIOUS
  <2> HIDE DEF B
  <2> QED
    BY <2>1
<1> HIDE DEF more
<1>2. PICK g : Sums(g, more, n + 1)
  <2>1. n + 1 \in Nat
    BY <1>1
  <2> QED
    BY <2>1, SumsExist
<1>3. FlattenSeq(more) = g[n + 1]
  BY <1>1, <1>2, FlattenIsSum
<1>4. g[n + 1] = IF n = 0 THEN s ELSE g[n] \o s
  <2>1. n + 1 \in 1..(n + 1) /\ (n + 1 = 1 <=> n = 0) /\ (n + 1) - 1 = n
    BY <1>1
  <2>2. g[n + 1] = IF n + 1 = 1 THEN more[n + 1] ELSE g[(n + 1) - 1] \o more[n + 1]
    BY <1>2, <2>1 DEF Sums
  <2> QED
    BY <1>1, <2>1, <2>2
<1>5. CASE ss = <<>>
  <2>1. n = 0 /\ <<>> \o s = s
    BY <1>5
  <2> QED
    BY <1>3, <1>4, <1>5, <2>1, FlattenEmpty DEF more
<1>6. CASE ss # <<>>
  <2>1. n # 0 /\ n \in 1..n /\ n <= n + 1 /\ n + 1 \in Nat
    BY <1>1, <1>6
  <2>2. PICK f : Sums(f, ss, n)
    BY <1>1, SumsExist
  <2>3. FlattenSeq(ss) = f[n]
    BY <1>6, <2>2, FlattenIsSum
  <2> HIDE DEF n
  <2>4. n \in Nat /\ \A i \in 1..n : ss[i] = more[i]
    BY <1>1
  <2>5. \A i \in 1..n : f[i] = g[i]
    BY <1>2, <2>1, <2>2, <2>4, SumsAgree
  <2> QED
    BY <1>3, <1>4, <2>1, <2>3, <2>5 DEF more
<1> QED
  BY <1>5, <1>6

LEMMA FlattenTyped ==
    ASSUME NEW A, NEW ss \in Seq(Seq(A))
    PROVE  FlattenSeq(ss) \in Seq(A)
<1> DEFINE S == {k \in Nat : \A tt \in Seq(Seq(A)) : Len(tt) = k => FlattenSeq(tt) \in Seq(A)}
<1>1. 0 \in S
  <2>1. \A tt \in Seq(Seq(A)) : Len(tt) = 0 => tt = <<>>
    OBVIOUS
  <2> QED
    BY <2>1, FlattenEmpty
<1>2. ASSUME NEW k \in S PROVE k + 1 \in S
  <2>1. SUFFICES ASSUME NEW tt \in Seq(Seq(A)), Len(tt) = k + 1 PROVE FlattenSeq(tt) \in Seq(A)
    OBVIOUS
  <2> DEFINE front == SubSeq(tt, 1, k)
  <2>2. front \in Seq(Seq(A)) /\ Len(front) = k /\ tt[k + 1] \in Seq(A)
    BY <2>1
  <2>3. tt = Append(front, tt[k + 1])
    BY <2>1
  <2>4. FlattenSeq(front) \in Seq(A)
    BY <2>2
  <2> HIDE DEF front
  <2>5. FlattenSeq(tt) = FlattenSeq(front) \o tt[k + 1]
    BY <2>2, <2>3, FlattenAppend
  <2> QED
    BY <2>2, <2>4, <2>5
<1>3. S = Nat
  <2>1. S \in SUBSET Nat
    OBVIOUS
  <2> HIDE DEF S
  <2> QED
    BY <1>1, <1>2, <2>1, AggregatorAssumed, AP!SetInduction, SMTT(30)
<1> QED
  BY <1>3

\* ... and at the beginning.
LEMMA FlattenCons ==
    ASSUME NEW A, NEW s \in Seq(A), NEW ss \in Seq(Seq(A))
    PROVE  FlattenSeq(<<s>> \o ss) = s \o FlattenSeq(ss)
<1> DEFINE Moves(tt) == FlattenSeq(<<s>> \o tt) = s \o FlattenSeq(tt)
<1> DEFINE S == {k \in Nat : \A tt \in Seq(Seq(A)) : Len(tt) = k => Moves(tt)}
<1>1. 0 \in S
  <2>1. SUFFICES ASSUME NEW tt \in Seq(Seq(A)), Len(tt) = 0
                 PROVE  FlattenSeq(<<s>> \o tt) = s \o FlattenSeq(tt)
    OBVIOUS
  <2>2. tt = <<>> /\ <<s>> \o tt = Append(<<>>, s) /\ <<>> \in Seq(Seq(A))
    BY <2>1
  <2>3. FlattenSeq(Append(<<>>, s)) = <<>> \o s
    BY <2>2, FlattenAppend, FlattenEmpty
  <2>4. <<>> \o s = s \o <<>>
    OBVIOUS
  <2> QED
    BY <2>2, <2>3, <2>4, FlattenEmpty
<1>2. ASSUME NEW k \in S PROVE k + 1 \in S
  <2>1. SUFFICES ASSUME NEW tt \in Seq(Seq(A)), Len(tt) = k + 1 PROVE Moves(tt)
    <3>1. k + 1 \in Nat
      OBVIOUS
    <3> HIDE DEF Moves
    <3> QED
      BY <3>1
  <2> DEFINE front == SubSeq(tt, 1, k)
  <2> DEFINE last == tt[k + 1]
  <2>2. front \in Seq(Seq(A)) /\ Len(front) = k /\ last \in Seq(A)
    BY <2>1
  <2>3. tt = Append(front, last)
    BY <2>1
  <2>4. FlattenSeq(<<s>> \o front) = s \o FlattenSeq(front)
    BY <2>2
  <2> HIDE DEF front, last
  <2>5. <<s>> \o tt = Append(<<s>> \o front, last) /\ <<s>> \o front \in Seq(Seq(A))
    BY <2>2, <2>3
  <2>6. FlattenSeq(<<s>> \o tt) = (s \o FlattenSeq(front)) \o last
    BY <2>2, <2>4, <2>5, FlattenAppend, ZenonT(60)
  <2>7. FlattenSeq(tt) = FlattenSeq(front) \o last
    BY <2>2, <2>3, FlattenAppend
  <2>8. FlattenSeq(front) \in Seq(A)
    BY <2>2, FlattenTyped
  <2>9. (s \o FlattenSeq(front)) \o last = s \o (FlattenSeq(front) \o last)
    BY <2>2, <2>8
  <2> QED
    BY <2>6, <2>7, <2>9
<1>3. S = Nat
  <2>1. S \in SUBSET Nat
    OBVIOUS
  <2> HIDE DEF S
  <2> QED
    BY <1>1, <1>2, <2>1, AggregatorAssumed, AP!SetInduction, SMTT(30)
<1> QED
  BY <1>3

-----------------------------------------------------------------------------
\* What FlattenSeq makes of a message, item by item, and of messages.
Kept(item) == IF item \in {Incomplete, Unreadable} THEN <<>> ELSE <<item>>
Parsed(message) == IF message = NoTrades THEN <<>> ELSE Readable(message)
Sent == Messages \cup {NoTrades}

LEMMA MessagesAreItems == Messages \subseteq Seq(Items)
BY PipelineAssumption DEF PipelineAssumption

LEMMA ReadableIs ==
    ASSUME NEW items \in Seq(Items)
    PROVE  Readable(items) = FlattenSeq([i \in 1..Len(items) |-> Kept(items[i])])
<1>1. DOMAIN items = 1..Len(items)
  OBVIOUS
<1> DEFINE P == {i \in DOMAIN items : items[i] \notin {Incomplete, Unreadable}}
<1>2. [i \in DOMAIN items |-> IF i \in P THEN <<items[i]>> ELSE <<>>]
        = [i \in 1..Len(items) |-> Kept(items[i])]
  BY <1>1 DEF Kept
<1> QED
  BY <1>2 DEF Readable, Picked

LEMMA KeptTyped ==
    ASSUME NEW item \in Items
    PROVE  Kept(item) \in Seq(Items)
BY DEF Kept

LEMMA ReadableTyped ==
    ASSUME NEW items \in Seq(Items)
    PROVE  Readable(items) \in Seq(Items)
<1> DEFINE B == Seq(Items)
<1> DEFINE ss == [i \in 1..Len(items) |-> Kept(items[i])]
<1>1. ss \in Seq(B)
  <2>1. \A i \in 1..Len(items) : Kept(items[i]) \in B
    BY KeptTyped
  <2> HIDE DEF B
  <2> QED
    BY <2>1
<1> QED
  BY <1>1, FlattenTyped, ReadableIs

LEMMA ReadableEmpty == Readable(<<>>) = <<>>
<1>1. <<>> \in Seq(Items) /\ Len(<<>>) = 0 /\ 1..0 = {}
  OBVIOUS
<1>2. [i \in 1..0 |-> Kept(<<>>[i])] = <<>>
  OBVIOUS
<1> QED
  BY <1>1, <1>2, ReadableIs, FlattenEmpty

\* The first item of a message, and the others.
LEMMA ReadableTail ==
    ASSUME NEW items \in Seq(Items), items # <<>>
    PROVE  Readable(items) = Kept(Head(items)) \o Readable(Tail(items))
<1> DEFINE B == Seq(Items)
<1> DEFINE ss == [i \in 1..Len(items) |-> Kept(items[i])]
<1> DEFINE rest == [i \in 1..Len(Tail(items)) |-> Kept(Tail(items)[i])]
<1>1. /\ Tail(items) \in Seq(Items) /\ Head(items) \in Items
      /\ Len(Tail(items)) = Len(items) - 1 /\ Len(items) \in Nat \ {0}
      /\ Head(items) = items[1]
      /\ \A i \in 1..(Len(items) - 1) : Tail(items)[i] = items[i + 1]
  OBVIOUS
<1>2. /\ \A i \in 1..Len(items) : Kept(items[i]) \in B
      /\ \A i \in 1..Len(Tail(items)) : Kept(Tail(items)[i]) \in B
      /\ Kept(Head(items)) \in B
  BY <1>1, KeptTyped
<1>3. rest \in Seq(B)
  <2> HIDE DEF B
  <2> QED
    BY <1>1, <1>2
<1>4. ss = <<Kept(Head(items))>> \o rest
  <2> HIDE DEF B
  <2> QED
    BY <1>1, <1>2
<1>5. FlattenSeq(<<Kept(Head(items))>> \o rest) = Kept(Head(items)) \o FlattenSeq(rest)
  BY <1>2, <1>3, FlattenCons
<1>6. FlattenSeq(rest) = Readable(Tail(items)) /\ FlattenSeq(ss) = Readable(items)
  BY <1>1, ReadableIs
<1> QED
  BY <1>4, <1>5, <1>6

LEMMA ParsedTyped ==
    ASSUME NEW message \in Sent
    PROVE  Parsed(message) \in Seq(Items)
BY MessagesAreItems, ReadableTyped DEF Sent, Parsed

LEMMA TradesOfIs ==
    ASSUME NEW messages \in Seq(Sent)
    PROVE  /\ TradesOf(messages) = FlattenSeq([k \in 1..Len(messages) |-> Parsed(messages[k])])
           /\ [k \in 1..Len(messages) |-> Parsed(messages[k])] \in Seq(Seq(Items))
<1>1. DOMAIN messages = 1..Len(messages)
  OBVIOUS
<1>2. [k \in DOMAIN messages |-> IF messages[k] = NoTrades THEN <<>> ELSE Readable(messages[k])]
        = [k \in 1..Len(messages) |-> Parsed(messages[k])]
  BY <1>1 DEF Parsed
<1> DEFINE B == Seq(Items)
<1>3. \A k \in 1..Len(messages) : Parsed(messages[k]) \in B
  BY ParsedTyped
<1>4. [k \in 1..Len(messages) |-> Parsed(messages[k])] \in Seq(B)
  <2> HIDE DEF B
  <2> QED
    BY <1>3
<1> QED
  BY <1>2, <1>4 DEF TradesOf

LEMMA TradesOfTyped ==
    ASSUME NEW messages \in Seq(Sent)
    PROVE  TradesOf(messages) \in Seq(Items)
BY TradesOfIs, FlattenTyped

LEMMA TradesOfAppend ==
    ASSUME NEW messages \in Seq(Sent), NEW message \in Sent
    PROVE  TradesOf(Append(messages, message)) = TradesOf(messages) \o Parsed(message)
<1> DEFINE B == Seq(Items)
<1> DEFINE more == Append(messages, message)
<1> DEFINE ss == [k \in 1..Len(messages) |-> Parsed(messages[k])]
<1> DEFINE tt == [k \in 1..Len(more) |-> Parsed(more[k])]
<1>1. ss \in Seq(B) /\ Parsed(message) \in B /\ more \in Seq(Sent)
  BY ParsedTyped, TradesOfIs
<1>2. tt = Append(ss, Parsed(message))
  <2> HIDE DEF B
  <2> QED
    BY <1>1
<1>3. FlattenSeq(Append(ss, Parsed(message))) = FlattenSeq(ss) \o Parsed(message)
  BY <1>1, FlattenAppend
<1>4. TradesOf(messages) = FlattenSeq(ss) /\ TradesOf(more) = FlattenSeq(tt)
  BY <1>1, TradesOfIs
<1> QED
  BY <1>2, <1>3, <1>4

LEMMA TradesOfTail ==
    ASSUME NEW messages \in Seq(Sent), messages # <<>>
    PROVE  TradesOf(messages) = Parsed(Head(messages)) \o TradesOf(Tail(messages))
<1> DEFINE B == Seq(Items)
<1> DEFINE rest == Tail(messages)
<1> DEFINE ss == [k \in 1..Len(messages) |-> Parsed(messages[k])]
<1> DEFINE tt == [k \in 1..Len(rest) |-> Parsed(rest[k])]
<1>1. /\ rest \in Seq(Sent) /\ Head(messages) \in Sent
      /\ Len(rest) = Len(messages) - 1 /\ Len(messages) \in Nat \ {0}
      /\ Head(messages) = messages[1]
      /\ \A k \in 1..(Len(messages) - 1) : rest[k] = messages[k + 1]
  OBVIOUS
<1>2. /\ tt \in Seq(B) /\ Parsed(Head(messages)) \in B
      /\ \A k \in 1..Len(messages) : Parsed(messages[k]) \in B
  BY <1>1, ParsedTyped, TradesOfIs
<1>3. ss = <<Parsed(Head(messages))>> \o tt
  <2> HIDE DEF B
  <2> QED
    BY <1>1, <1>2
<1>4. FlattenSeq(<<Parsed(Head(messages))>> \o tt) = Parsed(Head(messages)) \o FlattenSeq(tt)
  BY <1>2, FlattenCons
<1>5. TradesOf(rest) = FlattenSeq(tt) /\ TradesOf(messages) = FlattenSeq(ss)
  BY <1>1, TradesOfIs
<1> QED
  BY <1>3, <1>4, <1>5

\* The elements at given positions, with one more element.
LEMMA PickedAppend ==
    ASSUME NEW A, NEW s \in Seq(A), NEW x \in A, NEW P, NEW Q,
           \A i \in 1..Len(s) : i \in P <=> i \in Q
    PROVE  Picked(Append(s, x), Q) =
             Picked(s, P) \o (IF Len(s) + 1 \in Q THEN <<x>> ELSE <<>>)
<1> DEFINE B == Seq(A)
<1> DEFINE more == Append(s, x)
<1> DEFINE last == IF Len(s) + 1 \in Q THEN <<x>> ELSE <<>>
<1> DEFINE ss == [i \in DOMAIN s |-> IF i \in P THEN <<s[i]>> ELSE <<>>]
<1> DEFINE tt == [i \in DOMAIN more |-> IF i \in Q THEN <<more[i]>> ELSE <<>>]
<1>1. /\ DOMAIN s = 1..Len(s) /\ DOMAIN more = 1..(Len(s) + 1) /\ Len(s) \in Nat
      /\ \A i \in 1..Len(s) : more[i] = s[i]
      /\ more[Len(s) + 1] = x
  OBVIOUS
<1>2. /\ last \in B
      /\ \A i \in 1..Len(s) : (IF i \in P THEN <<s[i]>> ELSE <<>>) \in B
  OBVIOUS
<1> HIDE DEF B, more
<1>3. ss \in Seq(B)
  BY <1>1, <1>2
<1>4. tt = Append(ss, last)
  <2>1. \A i \in 1..Len(s) : tt[i] = ss[i]
    BY <1>1
  <2>2. tt[Len(s) + 1] = last
    BY <1>1
  <2> HIDE DEF last
  <2> QED
    BY <1>1, <1>2, <1>3, <2>1, <2>2
<1>5. FlattenSeq(Append(ss, last)) = FlattenSeq(ss) \o last
  <2> HIDE DEF ss, last
  <2> QED
    BY <1>2, <1>3, FlattenAppend DEF B
<1> QED
  BY <1>4, <1>5 DEF Picked, more

-----------------------------------------------------------------------------
\* The Aggregator.

\* A trade is handled here as it is in AggregatorProofs.
LEMMA SameAggregate ==
    ASSUME NEW trade
    PROVE  /\ Aggregator!CountIn(trade) => AP!CountIn(trade)
           /\ Aggregator!Trades = AP!Trades
           /\ Aggregator!TypeOK <=> AP!TypeOK
<1>1. Aggregator!CountIn(trade) => AP!CountIn(trade)
  BY DEF Aggregator!CountIn, AP!CountIn, Aggregator!TooOld, AP!TooOld,
         Aggregator!NewMinute, AP!NewMinute, Aggregator!Updated, AP!Updated,
         Aggregator!Opened, AP!Opened, Aggregator!MinuteField, AP!MinuteField,
         Aggregator!Minute, AP!Minute, Aggregator!Temp, AP!Temp,
         Aggregator!NoTime, AP!NoTime
<1>2. Aggregator!Trades = AP!Trades
  BY DEF Aggregator!Trades, AP!Trades
<1>3. Aggregator!TypeOK <=> AP!TypeOK
  BY <1>2 DEF Aggregator!TypeOK, AP!TypeOK, Aggregator!Candles, AP!Candles,
              Aggregator!Temp, AP!Temp, Aggregator!NoTime, AP!NoTime
<1> QED
  BY <1>1, <1>2, <1>3

\* A trade keeps the types of the Aggregator.
LEMMA AggregateType ==
    ASSUME Aggregator!TypeOK, NEW trade \in Aggregator!Trades, Aggregator!Aggregate(trade)
    PROVE  Aggregator!TypeOK'
<1>1. CASE Aggregator!Drop(trade)
  BY <1>1 DEF Aggregator!Drop, Aggregator!aggregatorVars, Aggregator!TypeOK
<1>2. CASE Aggregator!CountIn(trade)
  <2>1. AP!TypeOK /\ AP!CountIn(trade) /\ trade \in AP!Trades
    BY <1>2, SameAggregate
  <2>2. AP!TypeOK'
    BY <2>1, AggregatorAssumed, AP!CountInType
  <2> QED
    BY <2>2 DEF Aggregator!TypeOK, AP!TypeOK, Aggregator!Candles, AP!Candles,
                Aggregator!Temp, AP!Temp, Aggregator!NoTime, AP!NoTime,
                Aggregator!Trades, AP!Trades
<1> QED
  BY <1>1, <1>2 DEF Aggregator!Aggregate

-----------------------------------------------------------------------------
\* The main thread has thrown away a prefix of what was received, and nothing
\* else has happened to the messages as long as the parser does not run.
Flushing ==
    /\ flushed \in Nat /\ flushed <= Len(received) /\ Len(received) <= MaxMessages
    /\ ~ParserRuns =>
        /\ handled = <<>>
        /\ rawData = SubSeq(received, flushed + 1, Len(received))

\* What the types say without the Aggregator.
Typed ==
    /\ main \in Stations
    /\ alive \in BOOLEAN
    /\ rawData \in Seq(Sent)
    /\ batch \in Seq(Items)
    /\ tradeData \in Seq(Aggregator!Trades)
    /\ received \in Seq(Sent)
    /\ handled \in Seq(Aggregator!Trades)
    /\ ~ParserRuns => batch = <<>> /\ tradeData = <<>>

Inv == Typed /\ Flushing /\ Aggregator!TypeOK

LEMMA InvType == Inv => TypeOK
BY PipelineAssumption
   DEF Inv, Typed, Flushing, TypeOK, Sent, ParserRuns, PipelineAssumption

LEMMA InitInv == Init => Inv
<1> SUFFICES ASSUME Init PROVE Inv
  OBVIOUS
<1>1. Typed
  BY DEF Init, Typed, Stations, ParserRuns
<1>2. Flushing
  BY PipelineAssumption DEF Init, Flushing, PipelineAssumption
<1>3. Aggregator!TypeOK
  <2>1. AP!Init
    BY DEF Init, Aggregator!Init, AP!Init, Aggregator!NoCandle, AP!NoCandle,
           Aggregator!Temp, AP!Temp, Aggregator!NoTime, AP!NoTime
  <2>2. AP!TypeOK
    BY <2>1, AggregatorAssumed, AP!InitInvariant
  <2> QED
    BY <2>2, SameAggregate
<1> QED
  BY <1>1, <1>2, <1>3 DEF Inv

\* A trade that the parser goes through.
LEMMA ParseTradeEffect ==
    ASSUME Inv, ParseTrade
    PROVE  /\ Head(batch) \in Items /\ batch' \in Seq(Items)
           /\ tradeData' \in Seq(Aggregator!Trades)
           /\ alive' => tradeData' = tradeData \o Kept(Head(batch))
           /\ alive' \in BOOLEAN
<1>1. batch \in Seq(Items) /\ batch # <<>> /\ tradeData \in Seq(Aggregator!Trades)
  BY DEF Inv, Typed, ParseTrade
<1>2. Head(batch) \in Items /\ Tail(batch) \in Seq(Items)
  BY <1>1
<1>3. Head(batch) \notin {Incomplete, Unreadable} => Head(batch) \in Aggregator!Trades
  BY <1>2 DEF Items
<1>4. tradeData' = IF Head(batch) \in {Incomplete, Unreadable}
                      THEN tradeData ELSE Append(tradeData, Head(batch))
  BY DEF ParseTrade
<1>5. tradeData' = tradeData \o Kept(Head(batch))
  BY <1>1, <1>3, <1>4 DEF Kept
<1> QED
  BY <1>1, <1>2, <1>3, <1>4, <1>5 DEF ParseTrade

\* The rest of a sequence, with one more element.
LEMMA SubSeqAppend ==
    ASSUME NEW A, NEW s \in Seq(A), NEW x \in A, NEW m \in 1..(Len(s) + 1)
    PROVE  SubSeq(Append(s, x), m, Len(s) + 1) = Append(SubSeq(s, m, Len(s)), x)
<1> DEFINE more == Append(s, x)
<1> DEFINE n == Len(s)
<1> DEFINE left == SubSeq(more, m, n + 1)
<1> DEFINE rest == SubSeq(s, m, n)
<1>1. /\ more \in Seq(A) /\ Len(more) = n + 1 /\ n \in Nat
      /\ more[n + 1] = x /\ \A i \in 1..n : more[i] = s[i]
  OBVIOUS
<1>0. m \in 1..(n + 1)
  OBVIOUS
<1>2. /\ rest \in Seq(A) /\ Len(rest) = (n + 1) - m
      /\ \A i \in 1..((n + 1) - m) : rest[i] = s[m + i - 1]
  OBVIOUS
<1> HIDE DEF more
<1>3. /\ left \in Seq(A) /\ Len(left) = (n + 2) - m
      /\ \A i \in 1..((n + 2) - m) : left[i] = more[m + i - 1]
  BY <1>1
<1> HIDE DEF left, rest, n
<1>4. Append(rest, x) \in Seq(A) /\ Len(Append(rest, x)) = (n + 2) - m
  <2>1. Append(rest, x) \in Seq(A) /\ Len(Append(rest, x)) = Len(rest) + 1
    BY <1>2
  <2>2. ((n + 1) - m) + 1 = (n + 2) - m
    BY <1>0, <1>1
  <2> QED
    BY <1>2, <2>1, <2>2
<1>5. ASSUME NEW i \in 1..((n + 2) - m) PROVE left[i] = Append(rest, x)[i]
  <2>1. CASE i = (n + 2) - m
    <3>1. i = Len(rest) + 1 /\ m + i - 1 = n + 1
      BY <1>0, <1>1, <1>2, <2>1
    <3>2. Append(rest, x)[Len(rest) + 1] = x
      BY <1>2, AppendProperties
    <3> QED
      BY <1>1, <1>3, <3>1, <3>2
  <2>2. CASE i # (n + 2) - m
    <3>1. i \in 1..((n + 1) - m) /\ m + i - 1 \in 1..n
      BY <1>0, <1>1, <2>2
    <3>2. Append(rest, x)[i] = rest[i]
      BY <1>2, <3>1
    <3> QED
      BY <1>1, <1>2, <1>3, <3>1, <3>2
  <2> QED
    BY <2>1, <2>2
<1>6. left = Append(rest, x)
  BY <1>3, <1>4, <1>5
<1> QED
  BY <1>6 DEF left, rest, n, more

LEMMA StepInv ==
    ASSUME Inv, [Next]_vars
    PROVE  Inv'
<1> USE DEF aggregatorVars
<1>1. ASSUME UNCHANGED aggregatorVars PROVE Aggregator!TypeOK'
  BY <1>1 DEF Inv, Aggregator!TypeOK
<1>2. ASSUME NEW from \in Stations, NEW to \in Stations, GoOn(from, to),
             from \in {"startAggregator", "join"} => to \in {"startAggregator", "join"}
      PROVE  Inv'
  <2>1. main' = to /\ (~ParserRuns' => ~ParserRuns)
    BY <1>2 DEF GoOn, ParserRuns
  <2>2. UNCHANGED <<alive, rawData, batch, tradeData, aggregatorVars, received, flushed, handled>>
    BY <1>2 DEF GoOn
  <2>3. Typed'
    BY <2>1, <2>2 DEF Inv, Typed
  <2>4. Flushing'
    BY <2>1, <2>2 DEF Inv, Flushing
  <2> QED
    BY <1>1, <2>2, <2>3, <2>4 DEF Inv
<1>3. CASE StartSocket \/ Wake \/ StartParser \/ StartAggregator
  BY <1>2, <1>3 DEF StartSocket, Wake, StartParser, StartAggregator, Stations
<1>4. CASE FlushRaw
  <2>1. /\ rawData \in Seq(Sent) /\ received \in Seq(Sent)
        /\ flushed \in Nat /\ flushed <= Len(received)
        /\ ~ParserRuns
        /\ rawData = SubSeq(received, flushed + 1, Len(received))
    BY <1>4 DEF Inv, Typed, Flushing, FlushRaw, ParserRuns
  <2>2. CASE rawData # <<>> /\ rawData' = Tail(rawData) /\ flushed' = flushed + 1
             /\ UNCHANGED main
    <3>1. flushed + 1 <= Len(received)
      BY <2>1, <2>2
    <3>2. Tail(rawData) = SubSeq(received, (flushed + 1) + 1, Len(received))
      BY <2>1, <2>2, <3>1
    <3>3. Typed'
      BY <1>4, <2>1, <2>2 DEF Inv, Typed, FlushRaw, ParserRuns
    <3>4. Flushing'
      BY <1>4, <2>1, <2>2, <3>1, <3>2 DEF Inv, Flushing, FlushRaw, ParserRuns
    <3> QED
      BY <1>1, <1>4, <3>3, <3>4 DEF Inv, FlushRaw
  <2>3. CASE rawData = <<>> /\ main' = "flushTrade" /\ UNCHANGED <<rawData, flushed>>
    <3>1. Typed'
      BY <1>4, <2>3 DEF Inv, Typed, FlushRaw, ParserRuns, Stations
    <3>2. Flushing'
      BY <1>4, <2>3 DEF Inv, Flushing, FlushRaw, ParserRuns
    <3> QED
      BY <1>1, <1>4, <3>1, <3>2 DEF Inv, FlushRaw
  <2> QED
    BY <1>4, <2>2, <2>3 DEF FlushRaw
<1>5. CASE FlushTrade
  <2>1. ~ParserRuns /\ tradeData = <<>> /\ ~ParserRuns'
    BY <1>5 DEF Inv, Typed, FlushTrade, ParserRuns
  <2>2. Typed'
    BY <1>5, <2>1 DEF Inv, Typed, FlushTrade, Stations
  <2>3. Flushing'
    BY <1>5, <2>1 DEF Inv, Flushing, FlushTrade
  <2> QED
    BY <1>1, <1>5, <2>2, <2>3 DEF Inv, FlushTrade
<1>6. CASE Receive
  <2>1. PICK message \in Sent : /\ rawData' = Append(rawData, message)
                                /\ received' = Append(received, message)
    BY <1>6 DEF Receive, Sent
  <2>2. rawData \in Seq(Sent) /\ received \in Seq(Sent)
        /\ flushed \in Nat /\ flushed <= Len(received) /\ Len(received) < MaxMessages
    BY <1>6 DEF Inv, Typed, Flushing, Receive
  <2>3. Typed'
    BY <1>6, <2>1, <2>2 DEF Inv, Typed, Receive, ParserRuns
  <2>4. SubSeq(received', flushed + 1, Len(received')) =
          Append(SubSeq(received, flushed + 1, Len(received)), message)
    <3>1. flushed + 1 \in 1..(Len(received) + 1) /\ Len(received') = Len(received) + 1
      BY <2>1, <2>2
    <3> QED
      BY <2>1, <2>2, <3>1, SubSeqAppend
  <2>5. Flushing'
    <3>1. flushed <= Len(received') /\ Len(received') <= MaxMessages
      BY <2>1, <2>2, PipelineAssumption DEF PipelineAssumption
    <3> QED
      BY <1>6, <2>1, <2>4, <3>1 DEF Inv, Flushing, Receive, ParserRuns
  <2> QED
    BY <1>1, <1>6, <2>3, <2>5 DEF Inv, Receive
<1>7. CASE ParseMessage
  <2>1. rawData \in Seq(Sent) /\ rawData # <<>> /\ ParserRuns
    BY <1>7 DEF Inv, Typed, ParseMessage
  <2>2. Head(rawData) \in Sent /\ Tail(rawData) \in Seq(Sent)
    BY <2>1
  <2>3. Head(rawData) # NoTrades => Head(rawData) \in Seq(Items)
    BY <2>2, MessagesAreItems DEF Sent
  <2>4. Typed'
    BY <1>7, <2>1, <2>2, <2>3 DEF Inv, Typed, ParseMessage, ParserRuns
  <2>5. Flushing'
    BY <1>7, <2>1 DEF Inv, Flushing, ParseMessage, ParserRuns
  <2> QED
    BY <1>1, <1>7, <2>4, <2>5 DEF Inv, ParseMessage
<1>8. CASE ParseTrade
  <2>1. Typed'
    BY <1>8, ParseTradeEffect DEF Inv, Typed, ParseTrade, ParserRuns
  <2>2. Flushing'
    BY <1>8 DEF Inv, Flushing, ParseTrade, ParserRuns
  <2> QED
    BY <1>1, <1>8, <2>1, <2>2 DEF Inv, ParseTrade
<1>9. CASE HandleTrade
  <2>1. /\ tradeData \in Seq(Aggregator!Trades) /\ tradeData # <<>>
        /\ handled \in Seq(Aggregator!Trades) /\ ParserRuns
    BY <1>9 DEF Inv, Typed, HandleTrade, AggregatorRuns, ParserRuns
  <2>2. Head(tradeData) \in Aggregator!Trades /\ Tail(tradeData) \in Seq(Aggregator!Trades)
        /\ Append(handled, Head(tradeData)) \in Seq(Aggregator!Trades)
    BY <2>1
  <2>3. Typed'
    BY <1>9, <2>1, <2>2 DEF Inv, Typed, HandleTrade, ParserRuns
  <2>4. Flushing'
    BY <1>9, <2>1 DEF Inv, Flushing, HandleTrade, ParserRuns
  <2>5. Aggregator!TypeOK'
    BY <1>9, <2>2, AggregateType DEF Inv, HandleTrade
  <2> QED
    BY <2>3, <2>4, <2>5 DEF Inv
<1>10. CASE Disconnect
  <2>1. Typed' /\ Flushing'
    BY <1>10 DEF Inv, Typed, Flushing, Disconnect, ParserRuns
  <2> QED
    BY <1>1, <1>10, <2>1 DEF Inv, Disconnect
<1>11. CASE UNCHANGED vars
  <2>1. Typed' /\ Flushing'
    BY <1>11 DEF Inv, Typed, Flushing, ParserRuns, vars
  <2> QED
    BY <1>1, <1>11, <2>1 DEF Inv, vars
<1> QED
  BY <1>3, <1>4, <1>5, <1>6, <1>7, <1>8, <1>9, <1>10, <1>11 DEF Next, Main, Parser

LEMMA AlwaysInv == Spec => []Inv
BY InitInv, StepInv, PTL DEF Spec

\* Every variable of the pipeline and of the Aggregator in it keeps its type, and
\* the flush of tradeData never meets a trade.
THEOREM PipelineTyped == Spec => []TypeOK
BY AlwaysInv, InvType, PTL

-----------------------------------------------------------------------------
\* Where the trades are.

LEMMA TradesAreItems ==
    ASSUME NEW s \in Seq(Aggregator!Trades)
    PROVE  s \in Seq(Items)
BY DEF Items

\* Nothing is on its way before the parser runs but what rawData holds.
LEMMA BeforeParser ==
    ASSUME Inv, ~ParserRuns
    PROVE  TradesContiguous
<1>1. /\ handled = <<>> /\ tradeData = <<>> /\ batch = <<>>
      /\ rawData \in Seq(Sent)
      /\ rawData = SubSeq(received, flushed + 1, Len(received))
  BY DEF Inv, Typed, Flushing
<1>2. TradesOf(rawData) \in Seq(Items)
  BY <1>1, TradesOfTyped
<1>3. <<>> \o <<>> \o <<>> \o TradesOf(rawData) = TradesOf(rawData)
  BY <1>2
<1> QED
  BY <1>1, <1>3, ReadableEmpty DEF TradesContiguous

\* Of what a step leaves alone the trades stay where they are.
LEMMA SameTrades ==
    ASSUME TradesContiguous, UNCHANGED <<rawData, batch, tradeData, received, flushed, handled>>,
           alive' => alive
    PROVE  TradesContiguous'
BY DEF TradesContiguous, Readable, Picked, TradesOf

LEMMA StepContiguous ==
    ASSUME Inv, Inv', TradesContiguous, [Next]_vars
    PROVE  TradesContiguous'
<1> DEFINE h == handled
<1> DEFINE t == tradeData
<1> DEFINE b == Readable(batch)
<1> DEFINE r == TradesOf(rawData)
<1>1. h \in Seq(Items) /\ t \in Seq(Items) /\ b \in Seq(Items) /\ r \in Seq(Items)
  BY TradesAreItems, ReadableTyped, TradesOfTyped DEF Inv, Typed
<1>2. rawData \in Seq(Sent) /\ batch \in Seq(Items) /\ received \in Seq(Sent)
      /\ tradeData \in Seq(Aggregator!Trades) /\ handled \in Seq(Aggregator!Trades)
  BY DEF Inv, Typed
<1>3. CASE ~ParserRuns'
  <2>1. Inv' /\ ~ParserRuns' => TradesContiguous'
    BY BeforeParser, PTL
  <2> QED
    BY <1>3, <2>1
<1>4. CASE StartSocket \/ Wake \/ StartParser \/ StartAggregator \/ Disconnect \/ UNCHANGED vars
  <2>1. UNCHANGED <<rawData, batch, tradeData, received, flushed, handled>> /\ (alive' => alive)
    BY <1>4 DEF StartSocket, Wake, StartParser, StartAggregator, GoOn, Disconnect, vars
  <2> QED
    BY <2>1, SameTrades
<1>5. CASE FlushRaw \/ FlushTrade
  <2>1. CASE ~ParserRuns'
    BY <1>3, <2>1
  <2>2. CASE ParserRuns'
    <3>1. FALSE
      BY <1>5, <2>2 DEF FlushRaw, FlushTrade, ParserRuns
    <3> QED
      BY <3>1
  <2> QED
    BY <2>1, <2>2
<1>6. CASE Receive
  <2>1. PICK message \in Sent : /\ rawData' = Append(rawData, message)
                                /\ received' = Append(received, message)
    BY <1>6 DEF Receive, Sent
  <2> DEFINE rest == SubSeq(received, flushed + 1, Len(received))
  <2>2. flushed \in Nat /\ flushed <= Len(received) /\ Len(received') = Len(received) + 1
    BY <1>2, <2>1 DEF Inv, Flushing
  <2>3. SubSeq(received', flushed + 1, Len(received')) = Append(rest, message)
    <3>1. flushed + 1 \in 1..(Len(received) + 1)
      BY <1>2, <2>2
    <3> QED
      BY <1>2, <2>1, <2>2, <3>1, SubSeqAppend
  <2>4. rest \in Seq(Sent)
    BY <1>2, <2>2
  <2>5. Parsed(message) \in Seq(Items)
    BY ParsedTyped
  <2>6. TradesOf(rawData') = r \o Parsed(message)
    BY <1>2, <2>1, TradesOfAppend
  <2>7. TradesOf(Append(rest, message)) = TradesOf(rest) \o Parsed(message)
    <3> HIDE DEF rest
    <3> QED
      BY <2>4, TradesOfAppend
  <2> HIDE DEF rest
  <2>8. alive /\ UNCHANGED <<alive, batch, tradeData, flushed, handled>>
    BY <1>6 DEF Receive
  <2>9. h \o t \o b \o r = TradesOf(rest)
    BY <2>8 DEF TradesContiguous, rest
  <2> HIDE DEF h, t, b, r
  <2>10. h \o t \o b \o (r \o Parsed(message)) = (h \o t \o b \o r) \o Parsed(message)
    BY <1>1, <2>5
  <2>11. h' = h /\ t' = t /\ b' = b /\ r' = r \o Parsed(message)
    BY <2>6, <2>8 DEF h, t, b, r, Readable, Picked, TradesOf
  <2>12. h' \o t' \o b' \o r' = TradesOf(SubSeq(received', flushed' + 1, Len(received')))
    BY <2>3, <2>7, <2>8, <2>9, <2>10, <2>11
  <2> QED
    BY <2>12 DEF TradesContiguous, h, t, b, r, Readable, Picked, TradesOf
<1>7. CASE ParseMessage
  <2>1. rawData # <<>> /\ batch = <<>> /\ alive /\ rawData' = Tail(rawData)
        /\ UNCHANGED <<tradeData, received, flushed, handled>>
    BY <1>7 DEF ParseMessage
  <2>2. CASE Head(rawData) = NoTrades
    BY <1>7, <2>2 DEF ParseMessage, TradesContiguous
  <2>3. CASE Head(rawData) # NoTrades
    <3>1. batch' = Head(rawData)
      BY <1>7, <2>3 DEF ParseMessage
    <3>2. r = Readable(Head(rawData)) \o TradesOf(Tail(rawData))
      BY <1>2, <2>1, <2>3, TradesOfTail DEF Parsed
    <3>3. b = <<>>
      BY <2>1, ReadableEmpty
    <3>4. h \o t \o b \o r = TradesOf(SubSeq(received, flushed + 1, Len(received)))
      BY <2>1 DEF TradesContiguous
    <3>5. Head(rawData) \in Seq(Items) /\ Tail(rawData) \in Seq(Sent)
      BY <1>2, <2>1, <2>3, MessagesAreItems DEF Sent
    <3> DEFINE b1 == Readable(Head(rawData))
    <3> DEFINE r1 == TradesOf(Tail(rawData))
    <3>6. b1 \in Seq(Items) /\ r1 \in Seq(Items)
      BY <3>5, ReadableTyped, TradesOfTyped
    <3>7. r = b1 \o r1
      BY <3>2
    <3>8. Readable(batch') = b1 /\ TradesOf(rawData') = r1
      BY <2>1, <3>1
    <3> HIDE DEF h, t, b, r, b1, r1
    <3>9. h \o t \o b1 \o r1 = h \o t \o b \o r
      BY <1>1, <3>3, <3>6, <3>7
    <3>10. handled' \o tradeData' \o Readable(batch') \o TradesOf(rawData')
             = TradesOf(SubSeq(received', flushed' + 1, Len(received')))
      BY <2>1, <3>4, <3>8, <3>9 DEF h, t
    <3> QED
      BY <3>10 DEF TradesContiguous, Readable, Picked, TradesOf
  <2> QED
    BY <2>2, <2>3
<1>8. CASE ParseTrade
  <2>1. batch # <<>> /\ alive /\ batch' = Tail(batch)
        /\ UNCHANGED <<rawData, received, flushed, handled>>
    BY <1>8 DEF ParseTrade
  <2>2. SUFFICES ASSUME alive' PROVE TradesContiguous'
    BY DEF TradesContiguous
  <2> DEFINE k == Kept(Head(batch))
  <2> DEFINE b1 == Readable(Tail(batch))
  <2>3. tradeData' = t \o k
    BY <1>8, <2>2, ParseTradeEffect
  <2>4. Head(batch) \in Items /\ Tail(batch) \in Seq(Items)
    BY <1>2, <2>1
  <2>5. k \in Seq(Items) /\ b1 \in Seq(Items)
    BY <2>4, KeptTyped, ReadableTyped
  <2>6. b = k \o b1
    BY <1>2, <2>1, ReadableTail
  <2>7. h \o t \o b \o r = TradesOf(SubSeq(received, flushed + 1, Len(received)))
    BY <2>1 DEF TradesContiguous
  <2>8. Readable(batch') = b1 /\ TradesOf(rawData') = r
    BY <2>1
  <2> HIDE DEF h, t, b, r, b1, k
  <2>9. h \o (t \o k) \o b1 \o r = h \o t \o b \o r
    BY <1>1, <2>5, <2>6
  <2>10. handled' \o tradeData' \o Readable(batch') \o TradesOf(rawData')
           = TradesOf(SubSeq(received', flushed' + 1, Len(received')))
    BY <2>1, <2>3, <2>7, <2>8, <2>9 DEF h
  <2> QED
    BY <2>10 DEF TradesContiguous, Readable, Picked, TradesOf
<1>9. CASE HandleTrade
  <2>1. tradeData # <<>> /\ alive /\ tradeData' = Tail(tradeData)
        /\ handled' = Append(handled, Head(tradeData))
        /\ UNCHANGED <<rawData, batch, received, flushed>>
    BY <1>9 DEF HandleTrade
  <2>2. h \o t \o b \o r = TradesOf(SubSeq(received, flushed + 1, Len(received)))
    BY <2>1 DEF TradesContiguous
  <2>3. Readable(batch') = b /\ TradesOf(rawData') = r
    BY <2>1
  <2> DEFINE first == Head(tradeData)
  <2> DEFINE t1 == Tail(tradeData)
  <2>4. first \in Items /\ t1 \in Seq(Items) /\ t = <<first>> \o t1
    <3>1. t \in Seq(Items) /\ t # <<>>
      BY <1>1, <2>1
    <3> QED
      BY <3>1
  <2>5. handled' = h \o <<first>> /\ tradeData' = t1
    BY <1>2, <2>1, <2>4, AppendIsConcat, TradesAreItems
  <2> HIDE DEF h, t, b, r, first, t1
  <2>6. (h \o <<first>>) \o t1 = h \o t
    <3>1. <<first>> \in Seq(Items)
      BY <2>4
    <3> QED
      BY <1>1, <2>4, <3>1
  <2>7. handled' \o tradeData' \o Readable(batch') \o TradesOf(rawData')
          = TradesOf(SubSeq(received', flushed' + 1, Len(received')))
    BY <2>1, <2>2, <2>3, <2>5, <2>6
  <2> QED
    BY <2>7 DEF TradesContiguous, Readable, Picked, TradesOf
<1> QED
  BY <1>4, <1>5, <1>6, <1>7, <1>8, <1>9 DEF Next, Main, Parser

\* While the process lives, the trades on their way are those of the messages
\* received after the last one that Pipeline::start flushed, each once and in
\* their order, whatever is sent and however the threads are scheduled.
THEOREM NoTradeLost == Spec => []TradesContiguous
<1>1. Init => TradesContiguous
  <2>1. Init => Inv /\ ~ParserRuns
    BY InitInv DEF Init, ParserRuns
  <2> QED
    BY <2>1, BeforeParser
<1>2. Inv /\ Inv' /\ TradesContiguous /\ [Next]_vars => TradesContiguous'
  BY StepContiguous
<1> QED
  BY <1>1, <1>2, AlwaysInv, PTL DEF Spec

-----------------------------------------------------------------------------
\* Which trades count.

\* The Aggregator remembers of each ticker the latest trade it popped, not
\* the last one.
LatestRemembered ==
    \A t \in Tickers :
        /\ \A j \in 1..Len(handled) :
            handled[j].ticker = t => handled[j].time <= lastTimestamp[t]
        /\ lastTimestamp[t] # Aggregator!NoTime =>
            \E j \in 1..Len(handled) :
                handled[j].ticker = t /\ handled[j].time = lastTimestamp[t]

\* The trades of ticker t that the Aggregator counts in.
Counting(t) == {i \in DOMAIN handled : handled[i].ticker = t /\ OnTime(i)}

LEMMA TimesOrdered ==
    ASSUME Inv
    PROVE  /\ \A t \in Tickers : lastTimestamp[t] \in Int /\ lastTimestamp[t] >= Aggregator!NoTime
           /\ \A trade \in Aggregator!Trades :
                trade.ticker \in Tickers /\ trade.time \in Nat
           /\ lastTimestamp \in [Tickers -> Times \cup {Aggregator!NoTime}]
           /\ accepted \in [Tickers -> Seq(Aggregator!Trades)]
           /\ Aggregator!NoTime = -1
<1>1. Times \subseteq Nat
  BY PipelineAssumption DEF PipelineAssumption, Aggregator!AggregatorAssumption
<1>2. /\ lastTimestamp \in [Tickers -> Times \cup {Aggregator!NoTime}]
      /\ accepted \in [Tickers -> Seq(Aggregator!Trades)]
  BY DEF Inv, Aggregator!TypeOK
<1>3. \A t \in Tickers : lastTimestamp[t] \in Int /\ lastTimestamp[t] >= Aggregator!NoTime
  <2>1. Aggregator!NoTime = -1
    BY DEF Aggregator!NoTime
  <2>2. \A x \in Times \cup {-1} : x \in Int /\ x >= -1
    BY <1>1
  <2>3. \A t \in Tickers : lastTimestamp[t] \in Times \cup {-1}
    BY <1>2, <2>1
  <2> QED
    BY <2>1, <2>2, <2>3
<1>4. \A trade \in Aggregator!Trades : trade.ticker \in Tickers /\ trade.time \in Nat
  BY <1>1 DEF Aggregator!Trades
<1> QED
  BY <1>2, <1>3, <1>4 DEF Aggregator!NoTime

\* A trade is too old if a later one of its ticker came before it.
LEMMA OldAfterLater ==
    ASSUME Inv, LatestRemembered, NEW trade \in Aggregator!Trades
    PROVE  ~Aggregator!TooOld(trade) <=>
             \A j \in 1..Len(handled) :
                handled[j].ticker = trade.ticker => handled[j].time <= trade.time
<1> DEFINE last == lastTimestamp[trade.ticker]
<1>1. /\ trade.ticker \in Tickers /\ trade.time \in Nat
      /\ last \in Int /\ last >= -1 /\ Aggregator!NoTime = -1
      /\ \A j \in 1..Len(handled) : handled[j].time \in Nat
  <2>1. \A j \in 1..Len(handled) : handled[j] \in Aggregator!Trades
    BY DEF Inv, Typed
  <2> QED
    BY <2>1, TimesOrdered
<1>2. /\ \A j \in 1..Len(handled) : handled[j].ticker = trade.ticker => handled[j].time <= last
      /\ last # -1 => \E j \in 1..Len(handled) :
                        handled[j].ticker = trade.ticker /\ handled[j].time = last
  BY <1>1 DEF LatestRemembered
<1>3. Aggregator!TooOld(trade) <=> last # -1 /\ trade.time < last
  BY <1>1 DEF Aggregator!TooOld
<1> HIDE DEF last
<1>4. CASE Aggregator!TooOld(trade)
  <2>1. PICK j \in 1..Len(handled) : handled[j].ticker = trade.ticker /\ handled[j].time = last
    BY <1>2, <1>3, <1>4
  <2>2. ~(handled[j].time <= trade.time)
    BY <1>1, <1>3, <1>4, <2>1
  <2> QED
    BY <1>4, <2>1, <2>2
<1>5. CASE ~Aggregator!TooOld(trade)
  <2>1. ASSUME NEW j \in 1..Len(handled), handled[j].ticker = trade.ticker
        PROVE  handled[j].time <= trade.time
    <3>1. handled[j].time <= last /\ handled[j].time \in Nat
      BY <1>1, <1>2, <2>1
    <3>2. last # -1 /\ ~(trade.time < last)
      BY <1>1, <1>3, <1>5, <3>1
    <3> QED
      BY <1>1, <3>1, <3>2
  <2> QED
    BY <1>5, <2>1
<1> QED
  BY <1>4, <1>5

\* What the Aggregator does with the trade it pops.
LEMMA HandleEffect ==
    ASSUME Inv, HandleTrade
    PROVE  /\ Head(tradeData) \in Aggregator!Trades
           /\ handled \in Seq(Aggregator!Trades)
           /\ handled' = Append(handled, Head(tradeData))
           /\ IF Aggregator!TooOld(Head(tradeData))
                THEN lastTimestamp' = lastTimestamp /\ accepted' = accepted
                ELSE /\ lastTimestamp' = [lastTimestamp EXCEPT ![Head(tradeData).ticker] =
                                                                   Head(tradeData).time]
                     /\ accepted' = [accepted EXCEPT ![Head(tradeData).ticker] =
                                                     Append(@, Head(tradeData))]
<1> DEFINE trade == Head(tradeData)
<1>1. /\ tradeData \in Seq(Aggregator!Trades) /\ tradeData # <<>>
      /\ handled \in Seq(Aggregator!Trades) /\ handled' = Append(handled, trade)
      /\ Aggregator!Aggregate(trade)
  BY DEF Inv, Typed, HandleTrade
<1>2. trade \in Aggregator!Trades
  BY <1>1
<1> HIDE DEF trade
<1>3. CASE Aggregator!TooOld(trade)
  <2>1. Aggregator!Drop(trade)
    BY <1>1, <1>3 DEF Aggregator!Aggregate, Aggregator!CountIn
  <2> QED
    BY <1>1, <1>2, <1>3, <2>1 DEF Aggregator!Drop, Aggregator!aggregatorVars, trade
<1>4. CASE ~Aggregator!TooOld(trade)
  <2>1. Aggregator!CountIn(trade)
    BY <1>1, <1>4 DEF Aggregator!Aggregate, Aggregator!Drop
  <2>2. /\ lastTimestamp' = [lastTimestamp EXCEPT ![trade.ticker] = trade.time]
        /\ accepted' = [accepted EXCEPT ![trade.ticker] = Append(@, trade)]
    BY <2>1 DEF Aggregator!CountIn
  <2> QED
    BY <1>1, <1>2, <1>4, <2>2 DEF trade
<1> QED
  BY <1>3, <1>4

LEMMA OthersHandleNothing ==
    ASSUME [Next]_vars
    PROVE  HandleTrade \/ UNCHANGED <<handled, lastTimestamp, accepted>>
BY DEF Next, Main, Parser, StartSocket, Wake, StartParser, StartAggregator, GoOn, FlushRaw,
       FlushTrade, Receive, ParseMessage, ParseTrade, Disconnect, vars, aggregatorVars

LEMMA StepLatest ==
    ASSUME Inv, LatestRemembered, [Next]_vars
    PROVE  LatestRemembered'
<1>1. CASE UNCHANGED <<handled, lastTimestamp, accepted>>
  BY <1>1 DEF LatestRemembered
<1>2. CASE HandleTrade
  <2> DEFINE trade == Head(tradeData)
  <2> DEFINE n == Len(handled)
  <2>1. /\ trade \in Aggregator!Trades /\ handled' = Append(handled, trade)
        /\ handled \in Seq(Aggregator!Trades)
        /\ IF Aggregator!TooOld(trade)
              THEN lastTimestamp' = lastTimestamp
              ELSE lastTimestamp' = [lastTimestamp EXCEPT ![trade.ticker] = trade.time]
    BY <1>2, HandleEffect
  <2> HIDE DEF trade
  <2>2. /\ Len(handled') = n + 1 /\ n \in Nat
        /\ handled'[n + 1] = trade /\ \A j \in 1..n : handled'[j] = handled[j]
    BY <2>1, AppendProperties
  <2>3. /\ trade.ticker \in Tickers /\ trade.time \in Nat
        /\ \A t \in Tickers : lastTimestamp[t] \in Int
        /\ lastTimestamp \in [Tickers -> Times \cup {Aggregator!NoTime}]
        /\ Aggregator!NoTime = -1
    BY <2>1, TimesOrdered
  <2> HIDE DEF n
  <2>4. SUFFICES ASSUME NEW t \in Tickers
                 PROVE  /\ \A j \in 1..(n + 1) :
                            handled'[j].ticker = t => handled'[j].time <= lastTimestamp'[t]
                        /\ lastTimestamp'[t] # Aggregator!NoTime =>
                            \E j \in 1..(n + 1) :
                                handled'[j].ticker = t /\ handled'[j].time = lastTimestamp'[t]
    BY <2>2 DEF LatestRemembered, Aggregator!NoTime
  <2>5. /\ \A j \in 1..n : handled[j].ticker = t => handled[j].time <= lastTimestamp[t]
        /\ lastTimestamp[t] # Aggregator!NoTime =>
            \E j \in 1..n : handled[j].ticker = t /\ handled[j].time = lastTimestamp[t]
    BY DEF LatestRemembered, n
  <2>6. \A j \in 1..(n + 1) : j \in 1..n \/ j = n + 1
    BY <2>2
  <2>7. 1..n \subseteq 1..(n + 1) /\ n + 1 \in 1..(n + 1)
    BY <2>2
  <2>8. CASE Aggregator!TooOld(trade)
    <3>1. lastTimestamp'[t] = lastTimestamp[t]
      BY <2>1, <2>8
    <3>2. trade.ticker = t => trade.time <= lastTimestamp[t]
      BY <2>3, <2>8 DEF Aggregator!TooOld
    <3> QED
      BY <2>2, <2>5, <2>6, <2>7, <3>1, <3>2
  <2>9. CASE ~Aggregator!TooOld(trade) /\ trade.ticker = t
    <3>1. lastTimestamp'[t] = trade.time
      BY <2>1, <2>3, <2>9
    <3>2. \A j \in 1..n : handled[j].ticker = t => handled[j].time <= trade.time
      BY <2>1, <2>9, OldAfterLater DEF n
    <3>3. trade.time <= trade.time
      BY <2>3
    <3> QED
      BY <2>2, <2>6, <2>7, <2>9, <3>1, <3>2, <3>3
  <2>10. CASE ~Aggregator!TooOld(trade) /\ trade.ticker # t
    <3>1. lastTimestamp'[t] = lastTimestamp[t]
      BY <2>1, <2>3, <2>10
    <3> QED
      BY <2>2, <2>5, <2>6, <2>7, <2>10, <3>1
  <2> QED
    BY <2>8, <2>9, <2>10
<1> QED
  BY <1>1, <1>2, OthersHandleNothing

LEMMA StepCounts ==
    ASSUME Inv, LatestRemembered, LateTradesIgnored, [Next]_vars
    PROVE  LateTradesIgnored'
<1>1. CASE UNCHANGED <<handled, lastTimestamp, accepted>>
  BY <1>1 DEF LateTradesIgnored, Picked, OnTime
<1>2. CASE HandleTrade
  <2> DEFINE trade == Head(tradeData)
  <2> DEFINE n == Len(handled)
  <2>1. /\ trade \in Aggregator!Trades /\ handled' = Append(handled, trade)
        /\ handled \in Seq(Aggregator!Trades)
        /\ IF Aggregator!TooOld(trade)
              THEN accepted' = accepted
              ELSE accepted' = [accepted EXCEPT ![trade.ticker] = Append(@, trade)]
    BY <1>2, HandleEffect
  <2> HIDE DEF trade
  <2>2. /\ Len(handled') = n + 1 /\ n \in Nat
        /\ handled'[n + 1] = trade /\ \A j \in 1..n : handled'[j] = handled[j]
        /\ DOMAIN handled = 1..n /\ DOMAIN handled' = 1..(n + 1)
    BY <2>1, AppendProperties
  <2>3. trade.ticker \in Tickers /\ accepted \in [Tickers -> Seq(Aggregator!Trades)]
    BY <2>1, TimesOrdered
  <2> SUFFICES ASSUME NEW t \in Tickers
               PROVE  accepted'[t] = Picked(handled', Counting(t)')
    BY DEF LateTradesIgnored, Counting, Picked, OnTime
  <2>4. accepted[t] = Picked(handled, Counting(t))
    BY DEF LateTradesIgnored, Counting
  <2>5. \A i \in 1..n : i \in Counting(t) <=> i \in Counting(t)'
    <3>1. SUFFICES ASSUME NEW i \in 1..n PROVE i \in Counting(t) <=> i \in Counting(t)'
      OBVIOUS
    <3>2. i \in 1..(n + 1) /\ \A j \in 1..(i - 1) : j \in 1..n
      BY <2>2 DEF n
    <3> HIDE DEF n
    <3> QED
      BY <2>2, <3>2 DEF Counting, OnTime
  <2>6. n + 1 \in Counting(t)' <=> trade.ticker = t /\ ~Aggregator!TooOld(trade)
    <3>1. n + 1 \in 1..(n + 1) /\ (n + 1) - 1 = n
      BY <2>2 DEF n
    <3>2. ~Aggregator!TooOld(trade) <=>
            \A j \in 1..n : handled[j].ticker = trade.ticker => handled[j].time <= trade.time
      BY <2>1, OldAfterLater
    <3> HIDE DEF n
    <3> QED
      BY <2>2, <3>1, <3>2 DEF Counting, OnTime
  <2> DEFINE P == Counting(t)
  <2> DEFINE Q == Counting(t)'
  <2>7. Picked(handled', Q) = Picked(handled, P) \o (IF n + 1 \in Q THEN <<trade>> ELSE <<>>)
    <3>1. \A i \in 1..Len(handled) : i \in P <=> i \in Q
      BY <2>5
    <3> HIDE DEF P, Q
    <3> QED
      BY <2>1, <3>1, PickedAppend
  <2>8. accepted[t] \in Seq(Aggregator!Trades)
    BY <2>3
  <2>9. CASE trade.ticker = t /\ ~Aggregator!TooOld(trade)
    <3>1. accepted'[t] = Append(accepted[t], trade)
      BY <2>1, <2>3, <2>9
    <3>2. Append(accepted[t], trade) = accepted[t] \o <<trade>>
      BY <2>1, <2>8, AppendIsConcat
    <3> QED
      BY <2>4, <2>6, <2>7, <2>9, <3>1, <3>2
  <2>10. CASE ~(trade.ticker = t /\ ~Aggregator!TooOld(trade))
    <3>1. accepted'[t] = accepted[t]
      BY <2>1, <2>3, <2>10
    <3>2. accepted[t] \o <<>> = accepted[t]
      BY <2>8
    <3> QED
      BY <2>4, <2>6, <2>7, <2>10, <3>1, <3>2
  <2> QED
    BY <2>9, <2>10
<1> QED
  BY <1>1, <1>2, OthersHandleNothing

\* A trade counts if and only if no later one of its ticker came before it,
\* whatever the exchange sends in between.
THEOREM OnTimeCounts == Spec => []LateTradesIgnored
<1>1. Init => LatestRemembered /\ LateTradesIgnored
  <2> SUFFICES ASSUME Init PROVE LatestRemembered /\ LateTradesIgnored
    OBVIOUS
  <2>1. /\ handled = <<>>
        /\ \A t \in Tickers : lastTimestamp[t] = Aggregator!NoTime /\ accepted[t] = <<>>
    BY DEF Init, Aggregator!Init
  <2>2. LatestRemembered
    BY <2>1 DEF LatestRemembered
  <2>3. ASSUME NEW P PROVE Picked(<<>>, P) = <<>>
    <3>1. [i \in DOMAIN <<>> |-> IF i \in P THEN << <<>>[i] >> ELSE <<>>] = <<>>
      OBVIOUS
    <3> QED
      BY <3>1, FlattenEmpty DEF Picked
  <2>4. LateTradesIgnored
    BY <2>1, <2>3 DEF LateTradesIgnored
  <2> QED
    BY <2>2, <2>4
<1>2. Inv /\ LatestRemembered /\ LateTradesIgnored /\ [Next]_vars
        => LatestRemembered' /\ LateTradesIgnored'
  BY StepLatest, StepCounts
<1> QED
  BY <1>1, <1>2, AlwaysInv, PTL DEF Spec
=============================================================================
