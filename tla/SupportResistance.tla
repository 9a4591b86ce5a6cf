--------------------------- MODULE SupportResistance ---------------------------
(***************************************************************************)
(* The strategies of the backtester (Strategy.cpp).  SupportResistance     *)
(* keeps the last five candles and two price levels: a swing high far      *)
(* above the resistance becomes the new resistance, one close to it is a   *)
(* touch, and after enough touches a close beyond it is the signal to go   *)
(* long; the support is its mirror image.  A level that is not touched     *)
(* expires.  Between two files the engine resets the strategy.  CoinFlip   *)
(* goes long or short on every candle.                                     *)
(*                                                                         *)
(* Prices are whole.  A level of price p spans p plus and minus p * Num /  *)
(* Den, the tolerance.                                                     *)
(***************************************************************************)
EXTENDS Integers, Sequences

CONSTANTS CandleKinds,      \* candles [high, low, close] there may be
          Num, Den,         \* tolerance
          TouchThreshold, MaxAge,  \* 5 and 100 in the code
          HighestPrice,     \* numeric_limits<double>::max()
          MaxTouches        \* bound: touches of a level

ASSUME PricesWhole ==
  /\ CandleKinds \subseteq [high : Int, low : Int, close : Int]
  /\ HighestPrice \in Int
  /\ TouchThreshold \in Nat

VARIABLES rollingWindow,
          resistance, support,  \* records [price, touches, age, active]
          tradeIntent,      \* what next returned
          hits              \* history: of each level, the swings of this file that
                            \* were close to it since it was last made or expired

strategyVars == <<rollingWindow, resistance, support, tradeIntent, hits>>

Above(x, level) == x * Den > level.price * (Den + Num)
Below(x, level) == x * Den < level.price * (Den - Num)
Close(x, level) == level.price * (Den - Num) < x * Den /\ x * Den < level.price * (Den + Num)

NoResistance == [price |-> 0, touches |-> 0, age |-> 0, active |-> FALSE]
NoSupport == [NoResistance EXCEPT !.price = HighestPrice]

StrategyInit ==
  /\ rollingWindow = <<>>
  /\ resistance = NoResistance /\ support = NoSupport
  /\ tradeIntent = "NONE"
  /\ hits = [resistance |-> 0, support |-> 0]

-----------------------------------------------------------------------------
\* The breakouts, of the levels before the candle has changed them.  The check of
\* the support comes last.
Tested(level) == level.touches > TouchThreshold /\ level.active
Intent(candle) ==
  IF Tested(support) /\ Below(candle.close, support) THEN "SHORT"
  ELSE IF Tested(resistance) /\ Above(candle.close, resistance) THEN "LONG" ELSE "NONE"

SwingHigh(w) == \A i \in 1..5 : w[i].high <= w[3].high
SwingLow(w) == \A i \in 1..5 : w[i].low >= w[3].low

Touched(level) == [level EXCEPT !.touches = @ + 1, !.age = 0]
Made(x) == [price |-> x, touches |-> 0, age |-> 0, active |-> TRUE]

\* A level at a swing at x: touched, or replaced if x is beyond it.
AtSwing(x, level, beyond) ==
  IF Close(x, level) /\ level.active THEN Touched(level)
  ELSE IF beyond THEN Made(x) ELSE level

Aged(level) == [level EXCEPT !.age = @ + 1]
Expired(level, none) == IF level.age > MaxAge THEN none ELSE level

\* The levels and the hits after the window has become w.
NewLevels(w) ==
  LET r == Aged(resistance)
      s == Aged(support)
      x == w[3].high
      y == w[3].low
      r1 == IF SwingHigh(w) THEN AtSwing(x, r, Above(x, r)) ELSE r
      s1 == IF SwingLow(w) THEN AtSwing(y, s, Below(y, s)) ELSE s
      Counted(n, swing, near, fresh) == IF fresh THEN 0 ELSE IF swing /\ near THEN n + 1 ELSE n
  IN /\ resistance' = Expired(r1, NoResistance)
     /\ support' = Expired(s1, NoSupport)
     /\ hits' = [resistance |-> Counted(hits.resistance, SwingHigh(w), Close(x, r),
                                        resistance'.price # r.price),
                 support |-> Counted(hits.support, SwingLow(w), Close(y, s),
                                     support'.price # s.price)]

\* SupportResistance::next.
NextCandle(candle) ==
  LET w == Append(rollingWindow, candle) IN
  /\ tradeIntent' = Intent(candle)
  /\ IF Len(w) >= 6
     THEN rollingWindow' = Tail(w) /\ NewLevels(Tail(w))
     ELSE rollingWindow' = w /\ UNCHANGED <<resistance, support, hits>>
  /\ resistance'.touches <= MaxTouches /\ support'.touches <= MaxTouches

\* Faulty variant of Deactivated: the levels of the last file are kept.
DeactivatedNot(level) == level

Deactivated(level) == [level EXCEPT !.active = FALSE]

\* SupportResistance::reset: the prices, touches and ages stay.
ResetStrategy ==
  /\ rollingWindow' = <<>>
  /\ resistance' = Deactivated(resistance)
  /\ support' = Deactivated(support)
  /\ hits' = [resistance |-> 0, support |-> 0]
  /\ tradeIntent' = "NONE"

StrategyNext == ResetStrategy \/ \E c \in CandleKinds : NextCandle(c)

StrategySpec == StrategyInit /\ [][StrategyNext]_strategyVars

-----------------------------------------------------------------------------
\* SignalEarned: whatever reset leaves of an earlier file, a signal to go long or
\* short comes only at a level that more than TouchThreshold swings of this file
\* came close to since it was made ("reset to its original state in between
\* historical data files", Strategy.h:32).
SignalEarned ==
  [][/\ tradeIntent' = "LONG" => hits.resistance > TouchThreshold
     /\ tradeIntent' = "SHORT" => hits.support > TouchThreshold]_strategyVars
=============================================================================
