-------------------------- MODULE BacktesterProofs --------------------------
(***************************************************************************)
(* Proofs about Backtester.tla and the paper account, for any balance,     *)
(* fees, prices, stop losses and risk to reward, and for any strategy, and *)
(* about the strategy SupportResistance, for any candles, tolerance and    *)
(* threshold.                                                              *)
(*                                                                         *)
(* Covered says that an open position cannot cost more than the account    *)
(* has.  It needs the bound of the position size that the full risk of 2%  *)
(* gives, and with it the balance stays a natural number; the ladder is    *)
(* then a matter of the order of balance, levels and peak alone.           *)
(*                                                                         *)
(* SupportResistance goes long or short only at a level that this file has *)
(* earned.  What makes it true is that a level is active only if it was    *)
(* made in this file, and that it counts as touches some of the swings     *)
(* that came close to it since.                                            *)
(***************************************************************************)
EXTENDS Backtester, SupportResistance, TLAPS

\* The open position cannot cost more than the account has.
Covered(acct) == acct.position.active => Loss(acct.position) <= acct.balance

\* The rungs, for an account at balance b whose highest balance was top.
Ladder(risk, levels, b, top) ==
    /\ levels[20] = top
    /\ b <= top
    /\ risk = 20 => b = top
    /\ risk = 10 => levels[10] <= b /\ b < top
    /\ risk = 5 => b < levels[10] /\ levels[10] < top

LadderOf(acct, top) == Ladder(acct.currentRisk, acct.riskLevels, acct.balance, top)

Higher(a, b) == IF b > a THEN b ELSE a

-----------------------------------------------------------------------------
\* A quotient is what is left when the divisor has been taken out, rounded.
LEMMA Quotient ==
    ASSUME NEW a \in Nat, NEW d \in Nat \ {0}
    PROVE  a \div d \in Nat /\ (a \div d) * d <= a
OBVIOUS

\* The loss of a position sized by 2% of the balance or less is covered by it.
LEMMA LossCovered ==
    ASSUME NEW b \in Nat, NEW r \in Risks, NEW s \in Nat \ {0}, NEW f \in Nat
    PROVE  /\ (b * r * 10) \div (s + f) \in Nat
           /\ (((b * r * 10) \div (s + f)) * s) \div Scale \in Nat
           /\ (((b * r * 10) \div (s + f)) * s) \div Scale <= b
<1> DEFINE q == (b * r * 10) \div (s + f)
<1> DEFINE l == (q * s) \div Scale
<1>1. b * r * 10 \in Nat /\ b * r * 10 <= b * 200
  BY DEF Risks
<1>2. q \in Nat /\ q * (s + f) <= b * r * 10
  BY <1>1, Quotient
<1> HIDE DEF q
<1>3. q * s \in Nat /\ q * s <= q * (s + f)
  BY <1>2
<1>4. q * s <= b * 200
  BY <1>1, <1>2, <1>3
<1>5. l \in Nat /\ l * Scale <= q * s
  BY <1>3, Quotient DEF Scale
<1> HIDE DEF l
<1>6. l <= b
  BY <1>2, <1>3, <1>4, <1>5 DEF Scale
<1>7. q \in Nat /\ l \in Nat /\ l <= b
  BY <1>2, <1>5, <1>6
<1> QED
  BY <1>7, Zenon DEF l, q

\* A signal makes a covered position, or leaves the account as it is.
LEMMA EnterFacts ==
    ASSUME NEW acct \in Accounts, Covered(acct),
           NEW candle \in Candles, NEW trade \in Signals(candle)
    PROVE  LET e == EnterPosition(acct, trade) IN
           /\ e \in Accounts /\ Covered(e)
           /\ e.balance = acct.balance /\ e.currentRisk = acct.currentRisk
           /\ e.riskLevels = acct.riskLevels
<1> DEFINE p == PositionFor(acct, trade)
<1>1. /\ trade.stopLossPercent \in Nat \ {0} /\ trade.entryLevel \in Nat
      /\ trade.tradeIntent \in {"LONG", "SHORT"}
  BY BacktesterAssumption DEF Signals, BacktesterAssumption
<1>2. Fees \in Nat
  BY PaperAccountAssumption DEF Fees, PaperAccountAssumption
<1>3. acct.balance \in Nat /\ acct.currentRisk \in Risks /\ acct.RR \in Nat
  BY DEF Accounts
<1>4. TargetPercent(acct, trade) \in Nat
  BY <1>1, <1>2, <1>3 DEF TargetPercent
<1>5. PositionSize(acct, trade) \in Nat
      /\ (PositionSize(acct, trade) * trade.stopLossPercent) \div Scale <= acct.balance
  BY <1>1, <1>2, <1>3, LossCovered DEF PositionSize
<1>6. p.stopLossPrice \in Int /\ p.targetProfitPrice \in Int
  BY <1>1, <1>4 DEF PositionFor, Scale
<1>7. p \in Positions /\ Loss(p) <= acct.balance
  BY <1>1, <1>4, <1>5, <1>6 DEF PositionFor, Positions, Loss
<1> HIDE DEF p
<1>8. CASE acct.position.active
  BY <1>8 DEF EnterPosition
<1>9. CASE ~acct.position.active
  <2>1. EnterPosition(acct, trade) = [acct EXCEPT !.position = p]
    BY <1>9 DEF EnterPosition, p
  <2> QED
    BY <1>7, <2>1 DEF Accounts, Covered
<1> QED
  BY <1>8, <1>9

\* Moving to a rung changes the risk and the level of that rung.
LEMMA RungFacts ==
    ASSUME NEW acct \in Accounts, NEW risk \in Risks
    PROVE  /\ AtRung(acct, risk) \in Accounts
           /\ AtRung(acct, risk).balance = acct.balance
           /\ AtRung(acct, risk).position = acct.position
           /\ AtRung(acct, risk).currentRisk = risk
           /\ AtRung(acct, risk).riskLevels = [acct.riskLevels EXCEPT ![risk] = acct.balance]
BY DEF Accounts, AtRung

\* Adjusting the risk restores the ladder after any change of the balance.
LEMMA AdjustFacts ==
    ASSUME NEW acct \in Accounts, NEW b0 \in Nat, NEW top \in Nat,
           Ladder(acct.currentRisk, acct.riskLevels, b0, top)
    PROVE  LET n == AdjustRisk(acct) IN
           /\ n \in Accounts
           /\ n.balance = acct.balance /\ n.position = acct.position
           /\ LadderOf(n, Higher(top, acct.balance))
<1> DEFINE b == acct.balance
<1> DEFINE goal(n) ==
      /\ n \in Accounts
      /\ n.balance = acct.balance /\ n.position = acct.position
      /\ LadderOf(n, Higher(top, acct.balance))
<1>1. b \in Nat /\ acct.currentRisk \in Risks /\ acct.riskLevels \in [Risks -> Nat]
  BY DEF Accounts
<1>2. acct.riskLevels[20] \in Nat /\ acct.riskLevels[10] \in Nat
  BY <1>1 DEF Risks
<1>3. \A risk \in Risks :
        /\ AtRung(acct, risk) \in Accounts
        /\ AtRung(acct, risk).balance = acct.balance
        /\ AtRung(acct, risk).position = acct.position
        /\ AtRung(acct, risk).currentRisk = risk
        /\ AtRung(acct, risk).riskLevels = [acct.riskLevels EXCEPT ![risk] = acct.balance]
  BY RungFacts
<1>4. b >= top => goal(AtRung(acct, 20))
  BY <1>1, <1>3 DEF LadderOf, Ladder, Higher, Risks
<1>5. acct.currentRisk = 20 /\ b < top => goal(AtRung(acct, 10))
  BY <1>1, <1>3 DEF LadderOf, Ladder, Higher, Risks
<1>6. acct.currentRisk = 10 /\ b < acct.riskLevels[10] => goal(AtRung(acct, 5))
  BY <1>1, <1>2, <1>3 DEF LadderOf, Ladder, Higher, Risks
<1>7. acct.currentRisk = 5 /\ b >= acct.riskLevels[10] /\ b < top => goal(AtRung(acct, 10))
  BY <1>1, <1>2, <1>3 DEF LadderOf, Ladder, Higher, Risks
<1>8. acct.currentRisk = 10 /\ b < top /\ b >= acct.riskLevels[10] => goal(acct)
  BY <1>1, <1>2 DEF LadderOf, Ladder, Higher, Risks
<1>9. acct.currentRisk = 5 /\ b < acct.riskLevels[10] => goal(acct)
  BY <1>1, <1>2 DEF LadderOf, Ladder, Higher, Risks
<1> HIDE DEF goal
<1>10. acct.riskLevels[20] = top /\ acct.currentRisk \in {20, 10, 5}
       /\ (acct.currentRisk = 10 \/ acct.currentRisk = 5 => acct.riskLevels[10] < top)
  BY <1>1, <1>2 DEF Ladder, Risks
<1>11. AdjustRisk(acct) =
         CASE acct.currentRisk = 20 /\ b < acct.riskLevels[20] -> AtRung(acct, 10)
           [] acct.currentRisk = 20 /\ b >= acct.riskLevels[20] -> AtRung(acct, 20)
           [] acct.currentRisk = 10 /\ b >= acct.riskLevels[20] -> AtRung(acct, 20)
           [] acct.currentRisk = 10 /\ b < acct.riskLevels[10] -> AtRung(acct, 5)
           [] acct.currentRisk = 5 /\ b >= acct.riskLevels[20] -> AtRung(acct, 20)
           [] acct.currentRisk = 5 /\ b >= acct.riskLevels[10] /\ b < acct.riskLevels[20] -> AtRung(acct, 10)
           [] OTHER -> acct
  BY DEF AdjustRisk
<1>12. goal(AdjustRisk(acct))
  BY <1>1, <1>2, <1>4, <1>5, <1>6, <1>7, <1>8, <1>9, <1>10, <1>11
<1> QED
  BY <1>12 DEF goal

\* What a position wins or loses is a natural number.
LEMMA ResultFacts ==
    ASSUME NEW acct \in Accounts
    PROVE  Profit(acct.position) \in Nat /\ Loss(acct.position) \in Nat
<1>1. /\ acct.position.positionSize \in Nat
      /\ acct.position.targetProfitPercent \in Nat
      /\ acct.position.stopLossPercent \in Nat
  BY DEF Accounts, Positions
<1>2. /\ acct.position.positionSize * acct.position.targetProfitPercent \in Nat
      /\ acct.position.positionSize * acct.position.stopLossPercent \in Nat
  BY <1>1
<1> QED
  BY <1>2, Quotient DEF Profit, Loss, Scale

\* The account with its position ended and another balance.
LEMMA EndedFacts ==
    ASSUME NEW acct \in Accounts, NEW b \in Nat, NEW w \in Nat, NEW l \in Nat
    PROVE  LET n == [acct EXCEPT !.balance = b, !.wins = w, !.losses = l,
                                 !.position.active = FALSE] IN
           /\ n \in Accounts /\ ~n.position.active /\ n.balance = b
           /\ n.currentRisk = acct.currentRisk /\ n.riskLevels = acct.riskLevels
BY DEF Accounts, Positions

\* A candle keeps the ladder, whether it ends the position, omits it or not.
LEMMA CheckFacts ==
    ASSUME NEW acct \in Accounts, Covered(acct), NEW top \in Nat, LadderOf(acct, top),
           NEW candle \in Candles
    PROVE  LET c == CheckOpenPositions(acct, candle) IN
           c \in Accounts /\ Covered(c) /\ LadderOf(c, Higher(top, c.balance))
<1> DEFINE goal(c) == c \in Accounts /\ Covered(c) /\ LadderOf(c, Higher(top, c.balance))
<1>1. acct.balance \in Nat /\ acct.balance <= top /\ acct.wins \in Nat /\ acct.losses \in Nat
  BY DEF Accounts, LadderOf, Ladder
<1>2. goal(acct)
  BY <1>1 DEF LadderOf, Ladder, Higher
<1>3. goal(Omitted(acct))
  <2>1. /\ Omitted(acct) \in Accounts /\ ~Omitted(acct).position.active
        /\ Omitted(acct).balance = acct.balance
        /\ Omitted(acct).currentRisk = acct.currentRisk
        /\ Omitted(acct).riskLevels = acct.riskLevels
    BY DEF Omitted, Accounts, Positions
  <2> QED
    BY <1>1, <2>1 DEF Covered, LadderOf, Ladder, Higher
<1>4. goal(Won(acct))
  <2> DEFINE n == [acct EXCEPT !.balance = acct.balance + Profit(acct.position),
                               !.wins = acct.wins + 1, !.position.active = FALSE]
  <2>1. acct.balance + Profit(acct.position) \in Nat /\ acct.wins + 1 \in Nat
    BY <1>1, ResultFacts
  <2>2. /\ n \in Accounts /\ ~n.position.active
        /\ n.currentRisk = acct.currentRisk /\ n.riskLevels = acct.riskLevels
    BY <2>1 DEF Accounts, Positions
  <2>3. Ladder(n.currentRisk, n.riskLevels, acct.balance, top)
    BY <2>2 DEF LadderOf
  <2>4. Won(acct) = AdjustRisk(n)
    BY DEF Won
  <2> HIDE DEF n
  <2> QED
    BY <1>1, <2>2, <2>3, <2>4, AdjustFacts DEF Covered
<1>5. CASE acct.position.active
  <2>1. goal(Lost(acct))
    <3> DEFINE n == [acct EXCEPT !.balance = acct.balance - Loss(acct.position),
                                 !.losses = acct.losses + 1, !.position.active = FALSE]
    <3>1. acct.balance - Loss(acct.position) \in Nat /\ acct.losses + 1 \in Nat
      BY <1>1, <1>5, ResultFacts DEF Covered
    <3>2. /\ n \in Accounts /\ ~n.position.active
          /\ n.currentRisk = acct.currentRisk /\ n.riskLevels = acct.riskLevels
      BY <3>1 DEF Accounts, Positions
    <3>3. Ladder(n.currentRisk, n.riskLevels, acct.balance, top)
      BY <3>2 DEF LadderOf
    <3>4. Lost(acct) = AdjustRisk(n)
      BY DEF Lost
    <3> HIDE DEF n
    <3> QED
      BY <1>1, <3>2, <3>3, <3>4, AdjustFacts DEF Covered
  <2>2. CheckOpenPositions(acct, candle) \in {Omitted(acct), Won(acct), Lost(acct), acct}
    BY DEF CheckOpenPositions
  <2> HIDE DEF goal
  <2>3. goal(CheckOpenPositions(acct, candle))
    BY <1>2, <1>3, <1>4, <2>1, <2>2
  <2> QED
    BY <2>3 DEF goal
<1>6. CASE ~acct.position.active
  BY <1>2, <1>6 DEF CheckOpenPositions
<1> QED
  BY <1>5, <1>6

-----------------------------------------------------------------------------
\* The inductive invariant: types, a file to read while there is one, a covered
\* position and the ladder.
Invariant ==
    /\ TypeOK
    /\ running => file <= NumFiles
    /\ Covered(account)
    /\ LadderOf(account, peak)

\* The account starts at the top of the ladder, without a position.
LEMMA InitInvariant == Init => Invariant
<1> SUFFICES ASSUME Init PROVE Invariant
  OBVIOUS
<1> USE PaperAccountAssumption DEF PaperAccountAssumption
<1>1. NoPosition \in Positions /\ ~NoPosition.active
  BY DEF NoPosition, Positions
<1>2. NewAccount(3) \in Accounts
  BY <1>1 DEF NewAccount, Accounts, Risks
<1>3. /\ account = NewAccount(3)
      /\ account.balance = InitialBalance /\ account.riskLevels[20] = InitialBalance
      /\ ~account.position.active /\ account.currentRisk = 20
  BY <1>1 DEF Init, NewAccount, Risks
<1>4. account \in Accounts
  BY <1>2, <1>3
<1>5. file \in 1..(NumFiles + 1) /\ ~running
  BY BacktesterAssumption DEF Init, BacktesterAssumption
<1>6. TypeOK
  <2>1. running \in BOOLEAN
    BY Zenon DEF Init
  <2>2. /\ peak \in Nat /\ lastResult \in Int
        /\ entries \in Nat /\ omissions \in Nat /\ entryFile \in Nat /\ exitFile \in Nat
    BY DEF Init
  <2> QED
    BY <1>4, <1>5, <2>1, <2>2 DEF TypeOK
<1>7. peak = InitialBalance
  BY DEF Init
<1> QED
  BY <1>3, <1>5, <1>6, <1>7 DEF Invariant, Covered, LadderOf, Ladder

\* A row of a file keeps the invariant, whatever the strategy says.
LEMMA ProcessInvariant ==
    ASSUME Invariant, NEW candle \in Candles, NEW entered \in Accounts, Covered(entered),
           LadderOf(entered, peak), Process(candle, entered),
           UNCHANGED <<running, file>>
    PROVE  Invariant'
<1> DEFINE c == CheckOpenPositions(entered, candle)
<1>1. peak \in Nat
  BY DEF Invariant, TypeOK
<1>2. c \in Accounts /\ Covered(c) /\ LadderOf(c, Higher(peak, c.balance))
  BY <1>1, CheckFacts
<1>3. account' = c /\ Record(account, entered, c)
  BY DEF Process
<1> HIDE DEF c
<1>4. c.balance \in Nat /\ entered.balance \in Nat
  BY <1>2 DEF Accounts
<1>5. peak' = Higher(peak, c.balance)
  BY <1>3 DEF Record, Higher
<1>6. TypeOK'
  BY <1>1, <1>2, <1>3, <1>4 DEF Invariant, TypeOK, Record
<1> QED
  BY <1>2, <1>3, <1>5, <1>6 DEF Invariant

\* Every step keeps the invariant.
LEMMA StepInvariant ==
    ASSUME Invariant, [Next]_vars
    PROVE  Invariant'
<1> USE BacktesterAssumption DEF BacktesterAssumption
<1>1. account \in Accounts /\ Covered(account) /\ LadderOf(account, peak)
  BY DEF Invariant, TypeOK
<1>2. CASE UserControl
  <2>1. PICK rr \in RRs : account' = [account EXCEPT !.RR = rr]
    BY <1>2 DEF UserControl
  <2>2. /\ account' \in Accounts /\ account'.position = account.position
        /\ account'.balance = account.balance
        /\ account'.currentRisk = account.currentRisk
        /\ account'.riskLevels = account.riskLevels
    BY <1>1, <2>1 DEF Accounts
  <2> QED
    BY <1>1, <1>2, <2>2 DEF UserControl, Invariant, TypeOK, Covered, LadderOf
<1>3. CASE ReadCandle
  <2>1. PICK candle \in Candles :
          \/ Process(candle, account)
          \/ \E trade \in Signals(candle) : Process(candle, EnterPosition(account, trade))
    BY <1>3 DEF ReadCandle
  <2>2. UNCHANGED <<running, file>>
    BY <1>3 DEF ReadCandle
  <2>3. CASE Process(candle, account)
    BY <1>1, <2>2, <2>3, ProcessInvariant
  <2>4. ASSUME NEW trade \in Signals(candle), Process(candle, EnterPosition(account, trade))
        PROVE  Invariant'
    <3> DEFINE e == EnterPosition(account, trade)
    <3>1. e \in Accounts /\ Covered(e) /\ LadderOf(e, peak)
      BY <1>1, EnterFacts DEF LadderOf
    <3> QED
      BY <2>2, <2>4, <3>1, ProcessInvariant
  <2> QED
    BY <2>1, <2>3, <2>4
<1>4. CASE NextFile
  <2>1. file \in Nat /\ file >= 1 /\ NumFiles \in Nat
    BY DEF Invariant, TypeOK
  <2>2. file <= NumFiles
    BY <1>4 DEF NextFile, Invariant
  <2>3. file' \in 1..(NumFiles + 1)
    BY <1>4, <2>1, <2>2 DEF NextFile
  <2>4. running' <=> file < NumFiles
    BY <1>4 DEF NextFile
  <2>5. running' \in BOOLEAN
    <3>1. (file < NumFiles) \in BOOLEAN
      OBVIOUS
    <3>2. running' = (file < NumFiles)
      BY <1>4 DEF NextFile
    <3> QED
      BY ONLY <3>1, <3>2, Zenon
  <2>6. running' => file' <= NumFiles
    BY <1>4, <2>1, <2>4 DEF NextFile
  <2>7. UNCHANGED <<account, peak, entries, omissions, entryFile, exitFile, lastResult>>
    BY <1>4 DEF NextFile
  <2> QED
    BY <2>3, <2>5, <2>6, <2>7 DEF Invariant, TypeOK, Covered, LadderOf
<1>5. CASE GiveUp
  <2>1. file' \in 1..(NumFiles + 1) /\ running' = FALSE
    BY <1>5 DEF GiveUp
  <2>2. UNCHANGED <<account, peak, entries, omissions, entryFile, exitFile, lastResult>>
    BY <1>5 DEF GiveUp
  <2> QED
    BY <2>1, <2>2 DEF Invariant, TypeOK, Covered, LadderOf
<1>6. CASE UNCHANGED vars
  BY <1>6 DEF vars, Invariant, TypeOK, Covered, LadderOf
<1> QED
  BY <1>2, <1>3, <1>4, <1>5, <1>6 DEF Next

LEMMA InvariantHolds == Spec => []Invariant
BY InitInvariant, StepInvariant, PTL DEF Spec

\* The account keeps its types; above all, its balance never becomes negative.
THEOREM TypeCorrect == Spec => []TypeOK
<1>1. Invariant => TypeOK
  BY DEF Invariant
<1> QED
  BY <1>1, InvariantHolds, PTL

\* The rungs of the ladder stay apart for every sequence of results.
THEOREM LadderHolds == Spec => []LadderOrdered
<1>1. Invariant => LadderOrdered
  BY DEF Invariant, LadderOf, Ladder, LadderOrdered, Balance, Risk, Level
<1> QED
  BY <1>1, InvariantHolds, PTL

\* Full risk is taken at the highest balance ever reached and nowhere else.
THEOREM FullRiskAtPeak == Spec => []FullRiskAtPeakOnly
<1>1. Invariant => FullRiskAtPeakOnly
  BY DEF Invariant, TypeOK, Accounts, Risks, LadderOf, Ladder, FullRiskAtPeakOnly,
         Balance, Risk, Level
<1> QED
  BY <1>1, InvariantHolds, PTL

-----------------------------------------------------------------------------
\* A signal enters a position if there is none, and otherwise does nothing.
LEMMA EnterEffect ==
    ASSUME NEW acct \in Accounts, NEW trade
    PROVE  LET e == EnterPosition(acct, trade) IN
           /\ acct.position.active => e = acct
           /\ ~acct.position.active =>
                /\ e # acct /\ e.position = PositionFor(acct, trade) /\ e.position.active
                /\ e.balance = acct.balance /\ e.currentRisk = acct.currentRisk
                /\ e.RR = acct.RR /\ e.wins = acct.wins /\ e.losses = acct.losses
<1>1. PositionFor(acct, trade).active
  BY DEF PositionFor
<1> QED
  BY <1>1 DEF EnterPosition, Accounts

\* Adjusting the risk counts nothing; a higher balance does not lower the risk
\* and a lower one does not raise it.
LEMMA AdjustMoves ==
    ASSUME NEW acct \in Accounts, NEW b0 \in Nat, NEW top \in Nat,
           Ladder(acct.currentRisk, acct.riskLevels, b0, top)
    PROVE  LET n == AdjustRisk(acct) IN
           /\ n.wins = acct.wins /\ n.losses = acct.losses /\ n.RR = acct.RR
           /\ n.balance = acct.balance /\ n.position = acct.position
           /\ acct.balance >= b0 => n.currentRisk >= acct.currentRisk
           /\ acct.balance < b0 => n.currentRisk <= acct.currentRisk
<1> DEFINE b == acct.balance
<1> DEFINE goal(n) ==
      /\ n.wins = acct.wins /\ n.losses = acct.losses /\ n.RR = acct.RR
      /\ n.balance = acct.balance /\ n.position = acct.position
      /\ acct.balance >= b0 => n.currentRisk >= acct.currentRisk
      /\ acct.balance < b0 => n.currentRisk <= acct.currentRisk
<1>1. b \in Nat /\ acct.currentRisk \in Risks /\ acct.riskLevels \in [Risks -> Nat]
  BY DEF Accounts
<1>2. acct.riskLevels[20] \in Nat /\ acct.riskLevels[10] \in Nat
  BY <1>1 DEF Risks
<1>3. \A risk \in Risks : LET n == AtRung(acct, risk) IN
        /\ n.wins = acct.wins /\ n.losses = acct.losses /\ n.RR = acct.RR
        /\ n.balance = acct.balance /\ n.position = acct.position /\ n.currentRisk = risk
  BY DEF AtRung, Accounts
<1>4. acct.currentRisk = 20 \/ b >= top => goal(AtRung(acct, 20)) \/ b < b0
  BY <1>1, <1>2, <1>3 DEF Ladder, Risks
<1>5. acct.currentRisk = 20 /\ b < top => goal(AtRung(acct, 10))
  BY <1>1, <1>2, <1>3 DEF Ladder, Risks
<1>6. acct.currentRisk = 10 /\ b < acct.riskLevels[10] => goal(AtRung(acct, 5))
  BY <1>1, <1>2, <1>3 DEF Ladder, Risks
<1>7. acct.currentRisk = 5 /\ b >= acct.riskLevels[10] => goal(AtRung(acct, 10))
  BY <1>1, <1>2, <1>3 DEF Ladder, Risks
<1>8. b >= top => b >= b0
  BY <1>1 DEF Ladder
<1>9. goal(acct)
  BY <1>1 DEF Risks
<1> HIDE DEF goal
<1>10. acct.riskLevels[20] = top
  BY DEF Ladder
<1>11. AdjustRisk(acct) =
         CASE acct.currentRisk = 20 /\ b < acct.riskLevels[20] -> AtRung(acct, 10)
           [] acct.currentRisk = 20 /\ b >= acct.riskLevels[20] -> AtRung(acct, 20)
           [] acct.currentRisk = 10 /\ b >= acct.riskLevels[20] -> AtRung(acct, 20)
           [] acct.currentRisk = 10 /\ b < acct.riskLevels[10] -> AtRung(acct, 5)
           [] acct.currentRisk = 5 /\ b >= acct.riskLevels[20] -> AtRung(acct, 20)
           [] acct.currentRisk = 5 /\ b >= acct.riskLevels[10] /\ b < acct.riskLevels[20] -> AtRung(acct, 10)
           [] OTHER -> acct
  BY DEF AdjustRisk
<1>12. goal(AdjustRisk(acct))
  BY <1>1, <1>2, <1>4, <1>5, <1>6, <1>7, <1>8, <1>9, <1>10, <1>11 DEF Risks
<1> QED
  BY <1>12 DEF goal

\* What a candle does to the account: it ends the position as a win, a loss or
\* an omission, or changes nothing.
WonFrom(a, c) ==
    /\ c.wins = a.wins + 1 /\ c.losses = a.losses
    /\ c.balance = a.balance + Profit(a.position) /\ c.currentRisk >= a.currentRisk
LostFrom(a, c) ==
    /\ c.wins = a.wins /\ c.losses = a.losses + 1
    /\ c.balance = a.balance - Loss(a.position)
    /\ Loss(a.position) > 0 => c.currentRisk <= a.currentRisk
OmittedFrom(a, c) ==
    /\ c.wins = a.wins /\ c.losses = a.losses
    /\ c.balance = a.balance /\ c.currentRisk = a.currentRisk

LEMMA CheckEffect ==
    ASSUME NEW acct \in Accounts, Covered(acct), NEW top \in Nat, LadderOf(acct, top),
           NEW candle
    PROVE  LET c == CheckOpenPositions(acct, candle) IN
           \/ c = acct
           \/ /\ acct.position.active /\ ~c.position.active /\ c.RR = acct.RR
              /\ WonFrom(acct, c) \/ LostFrom(acct, c) \/ OmittedFrom(acct, c)
<1> DEFINE Ends(c) == /\ ~c.position.active /\ c.RR = acct.RR
                      /\ WonFrom(acct, c) \/ LostFrom(acct, c) \/ OmittedFrom(acct, c)
<1>1. /\ acct.balance \in Nat /\ acct.wins \in Nat /\ acct.losses \in Nat
      /\ Profit(acct.position) \in Nat /\ Loss(acct.position) \in Nat
  BY ResultFacts DEF Accounts
<1>2. Ladder(acct.currentRisk, acct.riskLevels, acct.balance, top)
  BY DEF LadderOf
<1>3. CASE ~acct.position.active
  BY <1>3 DEF CheckOpenPositions
<1>4. CASE acct.position.active
  <2>1. Ends(Omitted(acct))
    BY DEF Omitted, OmittedFrom, Accounts, Positions
  <2>2. Ends(Won(acct))
    <3> DEFINE n == [acct EXCEPT !.balance = acct.balance + Profit(acct.position),
                                 !.wins = acct.wins + 1, !.position.active = FALSE]
    <3>1. acct.balance + Profit(acct.position) \in Nat /\ acct.wins + 1 \in Nat
      BY <1>1
    <3>2. /\ n \in Accounts /\ ~n.position.active /\ n.RR = acct.RR
          /\ n.wins = acct.wins + 1 /\ n.losses = acct.losses
          /\ n.balance = acct.balance + Profit(acct.position)
          /\ n.currentRisk = acct.currentRisk /\ n.riskLevels = acct.riskLevels
      BY <3>1 DEF Accounts, Positions
    <3>3. Won(acct) = AdjustRisk(n)
      BY DEF Won
    <3> HIDE DEF n
    <3>4. n.balance >= acct.balance
      BY <1>1, <3>2
    <3> QED
      BY <1>1, <1>2, <3>2, <3>3, <3>4, AdjustMoves DEF WonFrom
  <2>3. Ends(Lost(acct))
    <3> DEFINE n == [acct EXCEPT !.balance = acct.balance - Loss(acct.position),
                                 !.losses = acct.losses + 1, !.position.active = FALSE]
    <3>1. acct.balance - Loss(acct.position) \in Nat /\ acct.losses + 1 \in Nat
      BY <1>1, <1>4 DEF Covered
    <3>2. /\ n \in Accounts /\ ~n.position.active /\ n.RR = acct.RR
          /\ n.wins = acct.wins /\ n.losses = acct.losses + 1
          /\ n.balance = acct.balance - Loss(acct.position)
          /\ n.currentRisk = acct.currentRisk /\ n.riskLevels = acct.riskLevels
      BY <3>1 DEF Accounts, Positions
    <3>3. Lost(acct) = AdjustRisk(n)
      BY DEF Lost
    <3> HIDE DEF n
    <3>4. Loss(acct.position) > 0 => n.balance < acct.balance
      BY <1>1, <3>2
    <3> QED
      BY <1>1, <1>2, <3>2, <3>3, <3>4, AdjustMoves DEF LostFrom
  <2>4. CheckOpenPositions(acct, candle) \in {Omitted(acct), Won(acct), Lost(acct), acct}
    BY DEF CheckOpenPositions
  <2> HIDE DEF Ends
  <2>5. CheckOpenPositions(acct, candle) = acct \/ Ends(CheckOpenPositions(acct, candle))
    BY <2>1, <2>2, <2>3, <2>4
  <2> QED
    BY <1>4, <2>5 DEF Ends
<1> QED
  BY <1>3, <1>4

-----------------------------------------------------------------------------
\* What one row of a file does: a position may be entered, and then one may end.
LEMMA ReadEffect ==
    ASSUME Invariant, ReadCandle
    PROVE  \E e \in Accounts, c \in Accounts :
             /\ account' = c /\ Record(account, e, c)
             /\ e.balance = account.balance /\ e.currentRisk = account.currentRisk
             /\ e.RR = account.RR /\ e.wins = account.wins /\ e.losses = account.losses
             /\ \/ e = account
                \/ /\ ~account.position.active /\ e # account /\ e.position.active
                   /\ \E trade : /\ trade.stopLossPercent \in StopLosses
                                 /\ e.position = PositionFor(account, trade)
             /\ \/ c = e
                \/ /\ e.position.active /\ ~c.position.active /\ c.RR = e.RR
                   /\ WonFrom(e, c) \/ LostFrom(e, c) \/ OmittedFrom(e, c)
<1>1. account \in Accounts /\ Covered(account) /\ LadderOf(account, peak) /\ peak \in Nat
  BY DEF Invariant, TypeOK
<1>2. PICK candle \in Candles :
        \/ Process(candle, account)
        \/ \E trade \in Signals(candle) : Process(candle, EnterPosition(account, trade))
  BY DEF ReadCandle
<1>3. CASE Process(candle, account)
  <2> DEFINE c == CheckOpenPositions(account, candle)
  <2>1. c \in Accounts
    BY <1>1, CheckFacts
  <2>2. account' = c /\ Record(account, account, c)
    BY <1>3 DEF Process
  <2>3. \/ c = account
        \/ /\ account.position.active /\ ~c.position.active /\ c.RR = account.RR
           /\ WonFrom(account, c) \/ LostFrom(account, c) \/ OmittedFrom(account, c)
    BY <1>1, CheckEffect
  <2> HIDE DEF c
  <2> QED
    BY <1>1, <2>1, <2>2, <2>3
<1>4. ASSUME NEW trade \in Signals(candle), Process(candle, EnterPosition(account, trade))
      PROVE  \E e \in Accounts, c \in Accounts :
             /\ account' = c /\ Record(account, e, c)
             /\ e.balance = account.balance /\ e.currentRisk = account.currentRisk
             /\ e.RR = account.RR /\ e.wins = account.wins /\ e.losses = account.losses
             /\ \/ e = account
                \/ /\ ~account.position.active /\ e # account /\ e.position.active
                   /\ \E t : /\ t.stopLossPercent \in StopLosses
                             /\ e.position = PositionFor(account, t)
             /\ \/ c = e
                \/ /\ e.position.active /\ ~c.position.active /\ c.RR = e.RR
                   /\ WonFrom(e, c) \/ LostFrom(e, c) \/ OmittedFrom(e, c)
  <2> DEFINE e == EnterPosition(account, trade)
  <2> DEFINE c == CheckOpenPositions(e, candle)
  <2>1. e \in Accounts /\ Covered(e) /\ LadderOf(e, peak)
    BY <1>1, EnterFacts DEF LadderOf
  <2>2. /\ account.position.active => e = account
        /\ ~account.position.active =>
             /\ e # account /\ e.position = PositionFor(account, trade) /\ e.position.active
             /\ e.balance = account.balance /\ e.currentRisk = account.currentRisk
             /\ e.RR = account.RR /\ e.wins = account.wins /\ e.losses = account.losses
    BY <1>1, EnterEffect
  <2>3. trade.stopLossPercent \in StopLosses
    BY DEF Signals
  <2>4. account' = c /\ Record(account, e, c)
    BY <1>4 DEF Process
  <2> HIDE DEF e
  <2>5. c \in Accounts
    BY <1>1, <2>1, CheckFacts
  <2>6. \/ c = e
        \/ /\ e.position.active /\ ~c.position.active /\ c.RR = e.RR
           /\ WonFrom(e, c) \/ LostFrom(e, c) \/ OmittedFrom(e, c)
    BY <1>1, <2>1, CheckEffect
  <2> HIDE DEF c
  <2> QED
    BY <2>1, <2>2, <2>3, <2>4, <2>5, <2>6
<1> QED
  BY <1>2, <1>3, <1>4

\* EntriesAccountedFor: every position that was entered has ended once, as a win,
\* a loss or an omission, or is the one that is open.
THEOREM EveryEntryAccountedFor == Spec => []EntriesAccountedFor
<1>1. Init => EntriesAccountedFor
  BY DEF Init, EntriesAccountedFor, NewAccount, NoPosition
<1>2. ASSUME Invariant, EntriesAccountedFor, [Next]_vars
      PROVE  EntriesAccountedFor'
  <2>1. /\ account \in Accounts /\ entries \in Nat /\ omissions \in Nat
        /\ account.wins \in Nat /\ account.losses \in Nat
    BY <1>2 DEF Invariant, TypeOK, Accounts
  <2>2. CASE ReadCandle
    <3>1. PICK e \in Accounts, c \in Accounts :
             /\ account' = c /\ Record(account, e, c)
             /\ e.wins = account.wins /\ e.losses = account.losses
             /\ \/ e = account
                \/ ~account.position.active /\ e # account /\ e.position.active
             /\ \/ c = e
                \/ /\ e.position.active /\ ~c.position.active
                   /\ WonFrom(e, c) \/ LostFrom(e, c) \/ OmittedFrom(e, c)
      BY <1>2, <2>2, ReadEffect
    <3> DEFINE open(a) == IF a.position.active THEN 1 ELSE 0
    <3>2. entries' = entries + open(e) - open(account)
      BY <2>1, <3>1 DEF Record
    <3>3. omissions' + c.wins + c.losses + open(c)
            = omissions + e.wins + e.losses + open(e)
      BY <2>1, <3>1 DEF Record, WonFrom, LostFrom, OmittedFrom
    <3>4. c.wins \in Nat /\ c.losses \in Nat /\ omissions' \in Nat
      BY <2>1, <3>1 DEF Accounts, Record
    <3> QED
      BY <1>2, <2>1, <3>1, <3>2, <3>3, <3>4 DEF EntriesAccountedFor
  <2>3. CASE UserControl
    <3>1. PICK rr \in RRs : account' = [account EXCEPT !.RR = rr]
      BY <2>3 DEF UserControl
    <3>2. /\ account'.wins = account.wins /\ account'.losses = account.losses
          /\ account'.position = account.position
      BY <2>1, <3>1 DEF Accounts
    <3> QED
      BY <1>2, <2>3, <3>2 DEF UserControl, EntriesAccountedFor
  <2>4. CASE NextFile \/ GiveUp \/ UNCHANGED vars
    BY <1>2, <2>4 DEF NextFile, GiveUp, vars, EntriesAccountedFor
  <2> QED
    BY <1>2, <2>2, <2>3, <2>4 DEF Next
<1> QED
  BY <1>1, <1>2, InvariantHolds, PTL DEF Spec

-----------------------------------------------------------------------------
\* A larger number has no smaller quotient.
LEMMA QuotientMonotone ==
    ASSUME NEW a \in Nat, NEW b \in Nat, a <= b, NEW d \in Nat \ {0}
    PROVE  a \div d <= b \div d
<1> DEFINE p == a \div d
<1> DEFINE q == b \div d
<1>1. p \in Nat /\ p * d <= a
  BY Quotient
<1>2. q \in Nat /\ b < (q + 1) * d
  OBVIOUS
<1> HIDE DEF p, q
<1>3. SUFFICES ASSUME p > q PROVE FALSE
  BY <1>1, <1>2 DEF p, q
<1>4. p * d >= (q + 1) * d
  <2>1. p - (q + 1) \in Nat /\ d \in Nat
    BY <1>1, <1>2, <1>3
  <2>2. (p - (q + 1)) * d \in Nat
    BY <2>1
  <2>3. (p - (q + 1)) * d = p * d - (q + 1) * d
    BY <1>1, <1>2
  <2> QED
    BY <1>1, <1>2, <2>2, <2>3
<1> QED
  BY <1>1, <1>2, <1>4

\* A larger factor makes no smaller product.
LEMMA ProductMonotone ==
    ASSUME NEW a \in Nat, NEW b \in Nat, a <= b, NEW x \in Nat, NEW y \in Nat, x <= y
    PROVE  a * x \in Nat /\ b * y \in Nat /\ a * x <= b * y
<1>1. (b - a) * x \in Nat /\ b * (y - x) \in Nat /\ a * x \in Nat /\ b * y \in Nat
  OBVIOUS
<1>2. (b - a) * x = b * x - a * x /\ b * (y - x) = b * y - b * x
  OBVIOUS
<1> QED
  BY <1>1, <1>2

\* What a position entered at balance b and risk r wins or loses with the stop
\* loss s, when the price has moved by m.
MoveAt(b, r, s, m) == (((b * r * 10) \div (s + Fees)) * m) \div Scale
LossAt(b, r, s) == MoveAt(b, r, s, s)
ProfitAt(b, r, s, rr) == MoveAt(b, r, s, (s + Fees) * rr + Fees)

\* Neither a higher balance nor a higher risk makes it smaller.
LEMMA MoveMonotone ==
    ASSUME NEW b \in Nat, NEW c \in Nat, b <= c,
           NEW r \in Risks, NEW q \in Risks, r <= q,
           NEW s \in Nat \ {0}, NEW m \in Nat
    PROVE  MoveAt(b, r, s, m) <= MoveAt(c, q, s, m)
<1>1. s + Fees \in Nat \ {0}
  BY PaperAccountAssumption DEF Fees, PaperAccountAssumption
<1>2. r * 10 \in Nat /\ q * 10 \in Nat /\ r * 10 <= q * 10
  BY DEF Risks
<1>3. b * (r * 10) \in Nat /\ c * (q * 10) \in Nat /\ b * (r * 10) <= c * (q * 10)
  BY <1>2, ProductMonotone
<1>4. b * r * 10 = b * (r * 10) /\ c * q * 10 = c * (q * 10)
  BY DEF Risks
<1> DEFINE x == (b * r * 10) \div (s + Fees)
<1> DEFINE y == (c * q * 10) \div (s + Fees)
<1>5. x \in Nat /\ y \in Nat /\ x <= y
  BY <1>1, <1>3, <1>4, Quotient, QuotientMonotone
<1> HIDE DEF x, y
<1>6. x * m \in Nat /\ y * m \in Nat /\ x * m <= y * m
  BY <1>5, ProductMonotone
<1>7. (x * m) \div Scale <= (y * m) \div Scale
  BY <1>6, QuotientMonotone DEF Scale
<1> QED
  BY <1>7 DEF MoveAt, x, y

\* With the stop loss s a position wins and loses what balance, risk and risk to
\* reward give.
LEMMA PositionMoves ==
    ASSUME NEW acct, NEW s, NEW trade, trade.stopLossPercent = s
    PROVE  LET p == PositionFor(acct, trade) IN
           /\ Loss(p) = LossAt(acct.balance, acct.currentRisk, s)
           /\ Profit(p) = ProfitAt(acct.balance, acct.currentRisk, s, acct.RR)
BY DEF PositionFor, PositionSize, TargetPercent, Loss, Profit, LossAt, ProfitAt, MoveAt

LossNow(acct, s) == LossAt(acct.balance, acct.currentRisk, s)
ProfitNow(acct, s) == ProfitAt(acct.balance, acct.currentRisk, s, acct.RR)

\* The inductive invariant for a strategy that always asks for the stop loss s:
\* the open position was entered at the balance and risk of now, and after a loss
\* the next one can be no larger, after a win no smaller.
Entered(acct, s) ==
    acct.position.active =>
        Loss(acct.position) = LossNow(acct, s) /\ Profit(acct.position) = ProfitNow(acct, s)
Bent(acct, last, s) ==
    /\ last < 0 => LossNow(acct, s) <= -last
    /\ last > 0 => ProfitNow(acct, s) >= last
Streak(s) ==
    /\ ~running /\ file = 1 => lastResult = 0 /\ ~account.position.active
    /\ Entered(account, s)
    /\ Bent(account, lastResult, s)

\* The end of a position leaves the curve bent.
LEMMA EndBends ==
    ASSUME NEW s \in Nat \ {0}, NEW e \in Accounts, NEW c \in Accounts, NEW last \in Int,
           NEW next, e.position.active, ~c.position.active, c.RR = e.RR,
           Entered(e, s), Bent(e, last, s),
           WonFrom(e, c) \/ LostFrom(e, c) \/ OmittedFrom(e, c),
           next = IF c.wins + c.losses = e.wins + e.losses THEN last ELSE c.balance - e.balance
    PROVE  /\ Bent(c, next, s)
           /\ c.losses > e.losses /\ last < 0 => e.balance - c.balance <= -last
           /\ c.wins > e.wins /\ last > 0 => c.balance - e.balance >= last
<1>1. /\ e.balance \in Nat /\ c.balance \in Nat
      /\ e.currentRisk \in Risks /\ c.currentRisk \in Risks
      /\ e.wins \in Nat /\ e.losses \in Nat /\ e.RR \in Nat
      /\ Loss(e.position) \in Nat /\ Profit(e.position) \in Nat
  BY ResultFacts DEF Accounts
<1>2. Fees \in Nat
  BY PaperAccountAssumption DEF Fees, PaperAccountAssumption
<1>3. Loss(e.position) = LossNow(e, s) /\ Profit(e.position) = ProfitNow(e, s)
  BY DEF Entered
<1> DEFINE m == (s + Fees) * e.RR + Fees
<1>4. m \in Nat
  BY <1>1, <1>2
<1>5. CASE OmittedFrom(e, c)
  BY <1>1, <1>5 DEF OmittedFrom, Bent, LossNow, ProfitNow
<1>6. CASE LostFrom(e, c)
  <2>1. next = -Loss(e.position) /\ c.losses > e.losses /\ c.wins = e.wins
    <3>1. c.wins = e.wins /\ c.losses = e.losses + 1
      BY <1>6 DEF LostFrom
    <3>2. c.wins + c.losses # e.wins + e.losses /\ c.losses > e.losses
      BY <1>1, <3>1
    <3>3. c.balance = e.balance - Loss(e.position)
      BY <1>6 DEF LostFrom
    <3>4. c.balance - e.balance = -Loss(e.position)
      BY <1>1, <3>3
    <3> QED
      BY <3>1, <3>2, <3>4
  <2>2. Loss(e.position) > 0 => LossNow(c, s) <= LossNow(e, s)
    BY <1>1, <1>6, MoveMonotone DEF LostFrom, LossNow, LossAt
  <2> QED
    BY <1>1, <1>3, <1>6, <2>1, <2>2 DEF LostFrom, Bent
<1>7. CASE WonFrom(e, c)
  <2>1. next = Profit(e.position) /\ c.losses = e.losses /\ c.wins > e.wins
    BY <1>1, <1>7 DEF WonFrom
  <2>2. ProfitNow(c, s) >= ProfitNow(e, s)
    <3>1. MoveAt(e.balance, e.currentRisk, s, m) <= MoveAt(c.balance, c.currentRisk, s, m)
      BY <1>1, <1>4, <1>7, MoveMonotone DEF WonFrom
    <3>2. ProfitNow(e, s) \in Int /\ ProfitNow(c, s) \in Int
      <4>1. ProfitNow(e, s) \in Int
        BY <1>1, <1>3
      <4>2. (c.balance * c.currentRisk * 10) \in Int /\ s + Fees \in Int
        BY <1>1, <1>2 DEF Risks
      <4> QED
        BY <1>1, <1>2, <1>4, <4>1, <4>2 DEF ProfitNow, ProfitAt, MoveAt, Scale
    <3> QED
      BY <3>1, <3>2 DEF ProfitNow, ProfitAt
  <2> QED
    BY <1>1, <1>3, <1>7, <2>1, <2>2 DEF WonFrom, Bent
<1> QED
  BY <1>5, <1>6, <1>7

LEMMA InitStreak ==
    ASSUME NEW s, Init
    PROVE  Streak(s)
BY DEF Init, NewAccount, NoPosition, Streak, Entered, Bent

\* The step that StreaksBend allows.
BendStep ==
    /\ account'.losses > account.losses /\ lastResult < 0
        => Balance - Balance' <= -lastResult
    /\ account'.wins > account.wins /\ lastResult > 0
        => Balance' - Balance >= lastResult

\* A row of a file keeps the invariant, and bends the curve.
LEMMA ReadStreak ==
    ASSUME NEW s \in Nat \ {0}, StopLosses = {s}, Invariant, Streak(s), ReadCandle
    PROVE  Streak(s)' /\ BendStep
<1>1. PICK e \in Accounts, c \in Accounts :
             /\ account' = c /\ Record(account, e, c)
             /\ e.balance = account.balance /\ e.currentRisk = account.currentRisk
             /\ e.RR = account.RR /\ e.wins = account.wins /\ e.losses = account.losses
             /\ \/ e = account
                \/ /\ ~account.position.active /\ e # account /\ e.position.active
                   /\ \E trade : /\ trade.stopLossPercent \in StopLosses
                                 /\ e.position = PositionFor(account, trade)
             /\ \/ c = e
                \/ /\ e.position.active /\ ~c.position.active /\ c.RR = e.RR
                   /\ WonFrom(e, c) \/ LostFrom(e, c) \/ OmittedFrom(e, c)
  BY ReadEffect
<1>2. running /\ running' /\ lastResult \in Int
  BY DEF ReadCandle, Invariant, TypeOK
<1>3. Entered(e, s)
  <2>1. CASE e = account
    BY <2>1 DEF Streak
  <2>2. ASSUME NEW trade, trade.stopLossPercent = s, e.position = PositionFor(account, trade)
        PROVE  Entered(e, s)
    BY <1>1, <2>2, PositionMoves DEF Entered, LossNow, ProfitNow
  <2> QED
    BY <1>1, <2>1, <2>2
<1>4. Bent(e, lastResult, s)
  BY <1>1 DEF Streak, Bent, LossNow, ProfitNow
<1>5. lastResult' = IF c.wins + c.losses = e.wins + e.losses
                    THEN lastResult ELSE c.balance - e.balance
  BY <1>1 DEF Record
<1>6. CASE c = e
  <2>1. c.wins \in Nat /\ c.losses \in Nat
    BY DEF Accounts
  <2> QED
    BY <1>1, <1>2, <1>3, <1>4, <1>5, <1>6, <2>1 DEF Streak, BendStep
<1>7. CASE /\ e.position.active /\ ~c.position.active /\ c.RR = e.RR
           /\ WonFrom(e, c) \/ LostFrom(e, c) \/ OmittedFrom(e, c)
  <2>1. /\ Bent(c, lastResult', s)
        /\ c.losses > e.losses /\ lastResult < 0 => e.balance - c.balance <= -lastResult
        /\ c.wins > e.wins /\ lastResult > 0 => c.balance - e.balance >= lastResult
    BY <1>2, <1>3, <1>4, <1>5, <1>7, EndBends
  <2> QED
    BY <1>1, <1>2, <1>7, <2>1 DEF Streak, Entered, BendStep, Balance
<1> QED
  BY <1>1, <1>6, <1>7

\* StreaksBend: with one stop loss, and whatever risk to reward the user chose, no
\* loss is larger than the one it follows and no win smaller than the win it
\* follows, for any balance, fees and prices.
THEOREM StreaksAlwaysBend ==
    ASSUME NEW s, StopLosses = {s}
    PROVE  Spec => StreaksBend
<1>1. s \in Nat \ {0}
  BY BacktesterAssumption DEF BacktesterAssumption
<1>2. Init => Streak(s)
  BY InitStreak
<1>3. ASSUME Invariant, Streak(s), [Next]_vars
      PROVE  Streak(s)' /\ (BendStep \/ UNCHANGED vars)
  <2>1. account \in Accounts /\ account.wins \in Nat /\ account.losses \in Nat
    BY <1>3 DEF Invariant, TypeOK, Accounts
  <2>2. CASE ReadCandle
    BY <1>1, <1>3, <2>2, ReadStreak
  <2>3. CASE UserControl
    <3>1. PICK rr \in RRs : account' = [account EXCEPT !.RR = rr]
      BY <2>3 DEF UserControl
    <3>2. /\ account'.wins = account.wins /\ account'.losses = account.losses
          /\ account'.position = account.position
      BY <2>1, <3>1 DEF Accounts
    <3>3. lastResult' = 0 /\ ~account'.position.active /\ running'
      BY <1>3, <2>3, <3>2 DEF UserControl, Streak
    <3> QED
      BY <2>1, <3>2, <3>3 DEF Streak, Entered, Bent, BendStep
  <2>4. CASE NextFile \/ GiveUp
    <3>1. file' # 1 /\ UNCHANGED <<account, lastResult>>
      <4>1. file \in Nat /\ file >= 1 /\ NumFiles \in Nat /\ NumFiles >= 1
        BY <1>3, BacktesterAssumption DEF Invariant, TypeOK, BacktesterAssumption
      <4> QED
        BY <2>4, <4>1 DEF NextFile, GiveUp
    <3> QED
      BY <1>3, <2>1, <3>1 DEF Streak, BendStep
  <2>5. CASE UNCHANGED vars
    BY <1>3, <2>5 DEF vars, Streak
  <2> QED
    BY <1>3, <2>2, <2>3, <2>4, <2>5 DEF Next
<1>4. Spec => [](Invariant /\ Streak(s))
  BY <1>2, <1>3, InitInvariant, StepInvariant, PTL DEF Spec
<1>5. Invariant /\ Streak(s) /\ [Next]_vars => [BendStep]_vars
  BY <1>3
<1> QED
  BY <1>4, <1>5, PTL DEF Spec, StreaksBend, BendStep

-----------------------------------------------------------------------------
\* The strategy.

\* EarnedTouches: an active level has no more touches than this file has had
\* swings close to it.
EarnedTouches ==
  /\ resistance.active => resistance.touches <= hits.resistance
  /\ support.active => support.touches <= hits.support

\* The levels and the history keep their types.
Levels == [price : Int, touches : Nat, age : Int, active : BOOLEAN]
LevelsTyped ==
  /\ resistance \in Levels /\ support \in Levels
  /\ hits \in [resistance : Nat, support : Nat]

IInv == LevelsTyped /\ EarnedTouches

\* What the window holds: candles the strategy was given.
WindowTyped == rollingWindow \in Seq(CandleKinds)

-----------------------------------------------------------------------------
\* A window that is full has its middle candle.
LEMMA MiddleCandle ==
    ASSUME WindowTyped, NEW c \in CandleKinds, Len(Append(rollingWindow, c)) >= 6
    PROVE  /\ Tail(Append(rollingWindow, c)) \in Seq(CandleKinds)
           /\ Tail(Append(rollingWindow, c))[3] \in [high : Int, low : Int, close : Int]
BY PricesWhole, SMTT(30) DEF WindowTyped

\* What the updates of a level leave as it was.
LEMMA LevelFields ==
    ASSUME NEW level \in Levels
    PROVE  /\ Aged(level) \in Levels /\ Aged(level).active = level.active
           /\ Aged(level).touches = level.touches
           /\ Deactivated(level) \in Levels /\ Deactivated(level).active = FALSE
           /\ Touched(level) \in Levels /\ Touched(level).price = level.price
           /\ Touched(level).touches = level.touches + 1
<1>1. Aged(level) \in Levels /\ Aged(level).touches = level.touches
  BY DEF Levels, Aged
<1>2. Aged(level).active = level.active
  BY DEF Levels, Aged
<1>3. Deactivated(level) \in Levels /\ Deactivated(level).active = FALSE
  BY DEF Levels, Deactivated
<1>4. Touched(level) \in Levels
  <2> DEFINE t == [level EXCEPT !.touches = @ + 1]
  <2>1. t \in Levels
    BY DEF Levels
  <2>2. ASSUME NEW u \in Levels PROVE [u EXCEPT !.age = 0] \in Levels
    BY DEF Levels
  <2>3. Touched(level) = [t EXCEPT !.age = 0]
    BY DEF Touched
  <2> QED BY <2>1, <2>2, <2>3
<1>5. Touched(level).price = level.price /\ Touched(level).touches = level.touches + 1
  BY DEF Levels, Touched
<1> QED BY <1>1, <1>2, <1>3, <1>4, <1>5

LEMMA NoLevels ==
    /\ NoResistance \in Levels /\ NoResistance.active = FALSE
    /\ NoSupport \in Levels /\ NoSupport.active = FALSE
<1>1. NoResistance \in Levels /\ NoResistance.active = FALSE
  BY DEF Levels, NoResistance
<1> QED BY <1>1, PricesWhole DEF Levels, NoSupport

\* What becomes of a level at a candle, and of the count of the swings close to it.
LevelAfter(x, level, swing, beyond, none) ==
  Expired(IF swing THEN AtSwing(x, level, beyond) ELSE level, none)
HitsAfter(x, level, swing, after, n) ==
  IF after.price # level.price THEN 0 ELSE IF swing /\ Close(x, level) THEN n + 1 ELSE n

\* The level keeps its type, and an active one has earned its touches.
LEMMA LevelStep ==
    ASSUME NEW x \in Int, NEW level \in Levels, NEW none \in Levels, none.active = FALSE,
           NEW n \in Nat, level.active => level.touches <= n,
           NEW swing \in BOOLEAN, NEW beyond \in BOOLEAN,
           NEW after, after = LevelAfter(x, level, swing, beyond, none)
    PROVE  /\ after \in Levels /\ HitsAfter(x, level, swing, after, n) \in Nat
           /\ after.active => after.touches <= HitsAfter(x, level, swing, after, n)
<1> DEFINE at == IF swing THEN AtSwing(x, level, beyond) ELSE level
<1>0. at = level \/ at = Made(x) \/ (swing /\ Close(x, level) /\ level.active /\ at = Touched(level))
  BY DEF AtSwing
<1> HIDE DEF at
<1>1. at \in Levels
  <2>1. Made(x) \in Levels
    BY DEF Levels, Made
  <2>2. Touched(level) \in Levels
    BY LevelFields
  <2> QED BY <1>0, <2>1, <2>2
<1> DEFINE m == HitsAfter(x, level, swing, after, n)
<1>2. after \in Levels
  BY <1>1 DEF LevelAfter, Expired, at
<1>3. ASSUME after.active PROVE after.touches <= m
  <2>1. after = at
    BY <1>3 DEF LevelAfter, Expired, at
  <2>2. CASE at = level
    BY <1>3, <2>1, <2>2 DEF Levels, HitsAfter
  <2>3. CASE swing /\ Close(x, level) /\ level.active /\ at = Touched(level)
    <3>1. after.price = level.price /\ after.touches = level.touches + 1
      BY <2>1, <2>3, LevelFields
    <3>2. level.touches \in Nat /\ level.touches <= n
      BY <2>3 DEF Levels
    <3>3. m = n + 1
      BY <2>3, <3>1, Zenon DEF HitsAfter
    <3> HIDE DEF m
    <3> QED BY <3>1, <3>2, <3>3
  <2>4. CASE at = Made(x)
    BY <2>1, <2>4 DEF Made, HitsAfter
  <2> QED BY <1>0, <2>2, <2>3, <2>4
<1> QED BY <1>2, <1>3 DEF HitsAfter

-----------------------------------------------------------------------------
\* Nothing is active in the beginning.
LEMMA InitEarned == StrategyInit => WindowTyped /\ IInv
<1> SUFFICES ASSUME StrategyInit PROVE WindowTyped /\ IInv
  OBVIOUS
<1>1. resistance = NoResistance /\ support = NoSupport
  BY DEF StrategyInit
<1>2. rollingWindow = <<>> /\ hits = [resistance |-> 0, support |-> 0]
  BY DEF StrategyInit
<1> QED BY <1>1, <1>2, NoLevels DEF WindowTyped, IInv, LevelsTyped, EarnedTouches

\* A candle may make, touch or expire a level.
LEMMA NextCandleEarned ==
    ASSUME WindowTyped, IInv, NEW c \in CandleKinds, NextCandle(c)
    PROVE  (WindowTyped /\ IInv)'
<1> DEFINE w == Append(rollingWindow, c)
<1>1. w \in Seq(CandleKinds)
  BY DEF WindowTyped
<1>2. CASE Len(w) < 6
  BY <1>1, <1>2 DEF NextCandle, WindowTyped, IInv, LevelsTyped, EarnedTouches
<1>3. CASE Len(w) >= 6
  <2> DEFINE r == Aged(resistance)
             s == Aged(support)
             x == Tail(w)[3].high
             y == Tail(w)[3].low
  <2>1. x \in Int /\ y \in Int /\ Tail(w) \in Seq(CandleKinds)
    BY <1>3, MiddleCandle
  <2>2. /\ r \in Levels /\ s \in Levels
        /\ r.active => r.touches <= hits.resistance
        /\ s.active => s.touches <= hits.support
        /\ hits.resistance \in Nat /\ hits.support \in Nat
    <3>1. /\ resistance \in Levels /\ support \in Levels
          /\ hits \in [resistance : Nat, support : Nat] /\ EarnedTouches
      BY DEF IInv, LevelsTyped
    <3>2. /\ r \in Levels /\ r.active = resistance.active /\ r.touches = resistance.touches
          /\ s \in Levels /\ s.active = support.active /\ s.touches = support.touches
      BY <3>1, LevelFields
    <3> HIDE DEF r, s
    <3> QED BY <3>1, <3>2 DEF EarnedTouches
  <2>3. /\ NoResistance \in Levels /\ NoResistance.active = FALSE
        /\ NoSupport \in Levels /\ NoSupport.active = FALSE
    BY NoLevels
  <2>4. SwingHigh(Tail(w)) \in BOOLEAN /\ SwingLow(Tail(w)) \in BOOLEAN
        /\ Above(x, r) \in BOOLEAN /\ Below(y, s) \in BOOLEAN
    BY DEF SwingHigh, SwingLow, Above, Below
  <2>5. rollingWindow' = Tail(w) /\ NewLevels(Tail(w))
    BY <1>3 DEF NextCandle
  <2> DEFINE hr == HitsAfter(x, r, SwingHigh(Tail(w)), resistance', hits.resistance)
             hs == HitsAfter(y, s, SwingLow(Tail(w)), support', hits.support)
  <2>6. /\ resistance' = LevelAfter(x, r, SwingHigh(Tail(w)), Above(x, r), NoResistance)
        /\ support' = LevelAfter(y, s, SwingLow(Tail(w)), Below(y, s), NoSupport)
        /\ hits' = [resistance |-> hr, support |-> hs]
    BY <2>5 DEF NewLevels, LevelAfter, HitsAfter
  <2> HIDE DEF r, s, x, y, w
  <2>7. resistance' \in Levels /\ hr \in Nat /\ (resistance'.active => resistance'.touches <= hr)
    BY <2>1, <2>2, <2>3, <2>4, <2>6, LevelStep
  <2>8. support' \in Levels /\ hs \in Nat /\ (support'.active => support'.touches <= hs)
    BY <2>1, <2>2, <2>3, <2>4, <2>6, LevelStep
  <2> HIDE DEF hr, hs
  <2>9. /\ hits' \in [resistance : Nat, support : Nat]
        /\ hits'.resistance = hr /\ hits'.support = hs
    BY <2>6, <2>7, <2>8
  <2> QED BY <2>1, <2>5, <2>7, <2>8, <2>9 DEF WindowTyped, w, IInv, LevelsTyped, EarnedTouches
<1> QED BY <1>1, <1>2, <1>3

\* What reset leaves of the levels is not active.
LEMMA ResetEarned ==
    ASSUME WindowTyped, IInv, ResetStrategy
    PROVE  (WindowTyped /\ IInv)'
<1>1. resistance \in Levels /\ support \in Levels
  BY DEF IInv, LevelsTyped
<1>2. /\ resistance' \in Levels /\ resistance'.active = FALSE
      /\ support' \in Levels /\ support'.active = FALSE
  BY <1>1, LevelFields DEF ResetStrategy
<1>3. rollingWindow' = <<>> /\ hits' = [resistance |-> 0, support |-> 0]
  BY DEF ResetStrategy
<1> QED BY <1>2, <1>3 DEF WindowTyped, IInv, LevelsTyped, EarnedTouches

LEMMA StepEarned ==
    ASSUME WindowTyped, IInv, [StrategyNext]_strategyVars
    PROVE  (WindowTyped /\ IInv)'
<1>1. CASE ResetStrategy
  BY <1>1, ResetEarned
<1>2. CASE \E c \in CandleKinds : NextCandle(c)
  BY <1>2, NextCandleEarned
<1>3. CASE UNCHANGED strategyVars
  BY <1>3 DEF strategyVars, WindowTyped, IInv, LevelsTyped, EarnedTouches
<1> QED BY <1>1, <1>2, <1>3 DEF StrategyNext

\* A signal comes only at a level that is active and has the touches.
LEMMA SignalStep ==
    ASSUME IInv, [StrategyNext]_strategyVars
    PROVE  [/\ tradeIntent' = "LONG" => hits.resistance > TouchThreshold
            /\ tradeIntent' = "SHORT" => hits.support > TouchThreshold]_strategyVars
<1>1. CASE ResetStrategy
  BY <1>1 DEF ResetStrategy
<1>2. ASSUME NEW c \in CandleKinds, NextCandle(c)
      PROVE /\ tradeIntent' = "LONG" => hits.resistance > TouchThreshold
            /\ tradeIntent' = "SHORT" => hits.support > TouchThreshold
  <2>1. tradeIntent' = Intent(c)
    BY <1>2 DEF NextCandle
  <2> QED BY <2>1, PricesWhole DEF Intent, Tested, IInv, LevelsTyped, EarnedTouches, Levels
<1> QED BY <1>1, <1>2 DEF StrategyNext

\* EarnedSignals: whatever a file leaves behind in the levels, the strategy goes
\* long or short in the next one only at a level that more than the threshold of
\* its swings came close to (Strategy.cpp:11 and 84).
THEOREM EarnedSignals == StrategySpec => SignalEarned
<1>1. StrategySpec => [](WindowTyped /\ IInv)
  BY InitEarned, StepEarned, PTL DEF StrategySpec
<1>2. StrategySpec => [][StrategyNext]_strategyVars
  BY DEF StrategySpec
<1> QED BY <1>1, <1>2, SignalStep, PTL DEF SignalEarned
=============================================================================
