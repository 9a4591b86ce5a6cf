---------------------------- MODULE PaperAccount ----------------------------
(***************************************************************************)
(* The paper account of the Backtester, as functions from account to       *)
(* account: PaperAccount::enterPosition, checkOpenPositions and adjustRisk *)
(* (the same ladder of risks that AccountManager declares for the bot).    *)
(*                                                                         *)
(* Money and prices are whole numbers and quotients are rounded down; the  *)
(* rounding of doubles is left out.  Percentages are whole numbers too: a  *)
(* risk in tenths of a percent, a stop loss, a target or a fee in          *)
(* hundredths.  Stop and target prices are scaled by Scale.                *)
(***************************************************************************)
EXTENDS Integers

CONSTANTS
    InitialBalance,
    MakerFees, TakerFees   \* in hundredths of a percent

ASSUME PaperAccountAssumption ==
    /\ InitialBalance \in Nat
    /\ MakerFees \in Nat /\ TakerFees \in Nat

Scale == 10000
Fees == MakerFees + TakerFees
Risks == {20, 10, 5}

Positions ==
    [active : BOOLEAN, tradeType : {"NONE", "LONG", "SHORT"},
     stopLossPrice : Int, targetProfitPrice : Int,
     stopLossPercent : Nat, targetProfitPercent : Nat, positionSize : Nat]

Accounts ==
    [balance : Nat, currentRisk : Risks, riskLevels : [Risks -> Nat], RR : Nat,
     wins : Nat, losses : Nat, position : Positions]

NoPosition ==
    [active |-> FALSE, tradeType |-> "NONE", stopLossPrice |-> 0, targetProfitPrice |-> 0,
     stopLossPercent |-> 0, targetProfitPercent |-> 0, positionSize |-> 0]

\* The account before its first trade, for a given risk to reward.
NewAccount(rr) ==
    [balance |-> InitialBalance, currentRisk |-> 20,
     riskLevels |-> [r \in Risks |-> InitialBalance],
     RR |-> rr, wins |-> 0, losses |-> 0, position |-> NoPosition]

-----------------------------------------------------------------------------
\* The position a trade asks for: its size, and the prices at which it ends.

\* Faulty variant of PositionSize: the stop is taken for a fraction.
PositionSizeOfFraction(acct, trade) ==
    (acct.balance * acct.currentRisk * 1000) \div (trade.stopLossPercent + Fees)

\* The size at which a move of stop loss and fees together costs the risk.
PositionSize(acct, trade) ==
    (acct.balance * acct.currentRisk * 10) \div (trade.stopLossPercent + Fees)

TargetPercent(acct, trade) == (trade.stopLossPercent + Fees) * acct.RR + Fees

PositionFor(acct, trade) ==
    LET side == IF trade.tradeIntent = "LONG" THEN 1 ELSE -1 IN
    [active |-> TRUE,
     tradeType |-> trade.tradeIntent,
     stopLossPrice |-> trade.entryLevel * (Scale - side * trade.stopLossPercent),
     targetProfitPrice |-> trade.entryLevel * (Scale + side * TargetPercent(acct, trade)),
     stopLossPercent |-> trade.stopLossPercent,
     targetProfitPercent |-> TargetPercent(acct, trade),
     positionSize |-> PositionSize(acct, trade)]

\* Faulty variant of EnterPosition: a signal replaces the open position.
EnterPositionAnyway(acct, trade) == [acct EXCEPT !.position = PositionFor(acct, trade)]

\* One position at a time: a signal during a trade is ignored.
EnterPosition(acct, trade) ==
    IF acct.position.active THEN acct
    ELSE [acct EXCEPT !.position = PositionFor(acct, trade)]

-----------------------------------------------------------------------------
\* The account at another rung, whose level is then its balance.
AtRung(acct, risk) == [acct EXCEPT !.currentRisk = risk, !.riskLevels[risk] = acct.balance]

\* Faulty variant of AdjustRisk: the step down compares with the wrong level.
AdjustRiskWrongLevel(acct) ==
    LET b == acct.balance IN
        CASE acct.currentRisk = 20 /\ b < acct.riskLevels[20] -> AtRung(acct, 10)
          [] acct.currentRisk = 20 /\ b >= acct.riskLevels[20] -> AtRung(acct, 20)
          [] acct.currentRisk = 10 /\ b >= acct.riskLevels[20] -> AtRung(acct, 20)
          [] acct.currentRisk = 10 /\ b < acct.riskLevels[5] -> AtRung(acct, 5)
          [] acct.currentRisk = 5 /\ b >= acct.riskLevels[20] -> AtRung(acct, 20)
          [] acct.currentRisk = 5 /\ b >= acct.riskLevels[10] /\ b < acct.riskLevels[20] -> AtRung(acct, 10)
          [] OTHER -> acct

\* Faulty variant of AdjustRisk: a loss on the second rung leads to the first.
AdjustRiskWrongRung(acct) ==
    LET b == acct.balance IN
        CASE acct.currentRisk = 20 /\ b < acct.riskLevels[20] -> AtRung(acct, 10)
          [] acct.currentRisk = 20 /\ b >= acct.riskLevels[20] -> AtRung(acct, 20)
          [] acct.currentRisk = 10 -> AtRung(acct, 20)
          [] OTHER -> acct

\* The ladder.  A balance below the level of its rung steps down and becomes
\* the level of the next; one that has regained the level of a higher rung
\* climbs to the highest it has regained; at the top the level follows it.
AdjustRisk(acct) ==
    LET b == acct.balance IN
        CASE acct.currentRisk = 20 /\ b < acct.riskLevels[20] -> AtRung(acct, 10)
          [] acct.currentRisk = 20 /\ b >= acct.riskLevels[20] -> AtRung(acct, 20)
          [] acct.currentRisk = 10 /\ b >= acct.riskLevels[20] -> AtRung(acct, 20)
          [] acct.currentRisk = 10 /\ b < acct.riskLevels[10] -> AtRung(acct, 5)
          [] acct.currentRisk = 5 /\ b >= acct.riskLevels[20] -> AtRung(acct, 20)
          [] acct.currentRisk = 5 /\ b >= acct.riskLevels[10] /\ b < acct.riskLevels[20] -> AtRung(acct, 10)
          [] OTHER -> acct

-----------------------------------------------------------------------------
\* How a candle meets the open position.

TargetHit(pos, candle) ==
    IF pos.tradeType = "LONG"
       THEN candle.high * Scale >= pos.targetProfitPrice
       ELSE candle.low * Scale <= pos.targetProfitPrice

StopHit(pos, candle) ==
    IF pos.tradeType = "LONG"
       THEN candle.low * Scale <= pos.stopLossPrice
       ELSE candle.high * Scale >= pos.stopLossPrice

Profit(pos) == (pos.positionSize * pos.targetProfitPercent) \div Scale
Loss(pos) == (pos.positionSize * pos.stopLossPercent) \div Scale

\* The trade is forgotten: neither a win nor a loss.
Omitted(acct) == [acct EXCEPT !.position.active = FALSE]

\* Faulty variant of Won: the risk is not adjusted after a win.
WonWithoutAdjusting(acct) ==
    [acct EXCEPT !.balance = acct.balance + Profit(acct.position),
                 !.wins = acct.wins + 1, !.position.active = FALSE]

Won(acct) ==
    AdjustRisk([acct EXCEPT !.balance = acct.balance + Profit(acct.position),
                            !.wins = acct.wins + 1, !.position.active = FALSE])

Lost(acct) ==
    AdjustRisk([acct EXCEPT !.balance = acct.balance - Loss(acct.position),
                            !.losses = acct.losses + 1, !.position.active = FALSE])

\* A candle that touches both prices omits the trade, as nobody knows which
\* it touched first.
CheckOpenPositions(acct, candle) ==
    LET pos == acct.position IN
    IF ~pos.active THEN acct
    ELSE CASE TargetHit(pos, candle) /\ StopHit(pos, candle) -> Omitted(acct)
           [] TargetHit(pos, candle) /\ ~StopHit(pos, candle) -> Won(acct)
           [] ~TargetHit(pos, candle) /\ StopHit(pos, candle) -> Lost(acct)
           [] OTHER -> acct
=============================================================================
