----------------------------- MODULE Backtester -----------------------------
(***************************************************************************)
(* The Backtester (Backtester::run): after the user has set the risk to    *)
(* reward it reads the candle files in order; each candle goes to the      *)
(* strategy, a signal to the paper account, and the same candle then tells *)
(* whether the open position ends.  Between two files the strategy is      *)
(* reset.                                                                  *)
(*                                                                         *)
(* Any strategy is allowed: a signal may follow any candle, with an entry  *)
(* price that the candle has traded at.  Reading and parsing the files is  *)
(* left out.                                                               *)
(***************************************************************************)
EXTENDS PaperAccount

CONSTANTS
    Prices,        \* whole prices
    StopLosses,    \* the stop losses strategies ask for
    RRs,           \* what the user may enter for the risk to reward
    NumFiles,      \* bound: candle files
    MaxEntries     \* bound: positions entered

ASSUME BacktesterAssumption ==
    /\ Prices \subseteq Nat
    /\ StopLosses \subseteq Nat \ {0}
    /\ RRs \subseteq Nat
    /\ NumFiles \in Nat \ {0} /\ MaxEntries \in Nat

VARIABLES
    running,     \* whether run() is reading files
    file,        \* the number of the file being read
    account,     \* the paper account
    \* history
    peak,        \* the highest balance so far
    entries,     \* positions entered
    omissions,   \* positions omitted
    entryFile,   \* the file in which the last position was entered
    exitFile,    \* the file in which the last position ended
    lastResult   \* what the last trade won (positive) or lost (negative)

vars == <<running, file, account, peak, entries, omissions, entryFile, exitFile, lastResult>>

Candles == {c \in [high : Prices, low : Prices] : c.low <= c.high}
Signals(candle) ==
    [tradeIntent : {"LONG", "SHORT"},
     entryLevel : {p \in Prices : candle.low <= p /\ p <= candle.high},
     stopLossPercent : StopLosses]

Init ==
    /\ running = FALSE /\ file = 1
    /\ account = NewAccount(3)
    /\ peak = InitialBalance
    /\ entries = 0 /\ omissions = 0
    /\ entryFile = 0 /\ exitFile = 0
    /\ lastResult = 0

\* userControl: the user chooses the data and the risk to reward.
UserControl ==
    /\ ~running /\ file = 1
    /\ \E rr \in RRs : account' = [account EXCEPT !.RR = rr]
    /\ running' = TRUE
    /\ UNCHANGED <<file, peak, entries, omissions, entryFile, exitFile, lastResult>>

\* What is remembered of the step from account a through b to c, for the
\* properties: b is a after a signal, c is b after the candle.
Record(a, b, c) ==
    /\ peak' = IF c.balance > peak THEN c.balance ELSE peak
    /\ entries' = IF b # a THEN entries + 1 ELSE entries
    /\ entryFile' = IF b # a THEN file ELSE entryFile
    /\ exitFile' = IF b.position.active /\ ~c.position.active THEN file ELSE exitFile
    /\ omissions' = IF b.position.active /\ ~c.position.active
                          /\ c.wins + c.losses = b.wins + b.losses
                       THEN omissions + 1 ELSE omissions
    /\ lastResult' = IF c.wins + c.losses = b.wins + b.losses
                        THEN lastResult ELSE c.balance - b.balance

\* The candle decides on the position, after the signal it caused, if any.
Process(candle, entered) ==
    LET checked == CheckOpenPositions(entered, candle)
    IN  account' = checked /\ Record(account, entered, checked)

\* One row of a file.
ReadCandle ==
    /\ running
    /\ \E candle \in Candles :
        \/ Process(candle, account)
        \/ /\ entries < MaxEntries
           /\ \E trade \in Signals(candle) : Process(candle, EnterPosition(account, trade))
    /\ UNCHANGED <<running, file>>

\* The end of a file: only the strategy is reset.
NextFile ==
    /\ running
    /\ file' = file + 1
    /\ running' = (file < NumFiles)
    /\ UNCHANGED <<account, peak, entries, omissions, entryFile, exitFile, lastResult>>

\* A file cannot be opened and run() returns, or a field of a row is not a
\* number and stod throws.
GiveUp ==
    /\ running
    /\ running' = FALSE
    /\ file' = NumFiles + 1
    /\ UNCHANGED <<account, peak, entries, omissions, entryFile, exitFile, lastResult>>

Next == UserControl \/ ReadCandle \/ NextFile \/ GiveUp

Spec == Init /\ [][Next]_vars

-----------------------------------------------------------------------------
\* Properties.

Balance == account.balance
Risk == account.currentRisk
Level(risk) == account.riskLevels[risk]

\* The account keeps its types, and is never overdrawn.
TypeOK ==
    /\ running \in BOOLEAN
    /\ file \in 1..(NumFiles + 1)
    /\ account \in Accounts
    /\ peak \in Nat /\ entries \in Nat /\ omissions \in Nat
    /\ entryFile \in Nat /\ exitFile \in Nat
    /\ lastResult \in Int

\* The rungs of the ladder stay apart: at full risk the balance is at its
\* level; at 1% it has not fallen below that rung nor regained the full one;
\* at 0.5% it is below both, whatever the sequence of wins, losses and omissions.
LadderOrdered ==
    /\ Risk = 20 => Balance = Level(20)
    /\ Risk = 10 => Level(10) <= Balance /\ Balance < Level(20)
    /\ Risk = 5 => Balance < Level(10) /\ Level(10) < Level(20)

\* Full risk is taken at the highest balance ever reached, and only there.
FullRiskAtPeakOnly ==
    /\ Level(20) = peak
    /\ Risk = 20 <=> Balance = peak

\* The curve is flattened on losing streaks and steepened on winning ones: a
\* loss that follows a loss is no larger, a win that follows a win no smaller,
\* with one stop loss and one risk to reward.
StreaksBend ==
    [][/\ account'.losses > account.losses /\ lastResult < 0
            => Balance - Balance' <= -lastResult
       /\ account'.wins > account.wins /\ lastResult > 0
            => Balance' - Balance >= lastResult]_vars

\* Every position ends once at most: as a win, a loss or an omission.
EntriesAccountedFor ==
    entries = account.wins + account.losses + omissions
                + (IF account.position.active THEN 1 ELSE 0)

\* "This ensures our position size, with fees accounted for, will always lose
\* us our currentRisk_% of our account": a loss is that share of the balance,
\* up to two whole units of rounding.
LossIsTheRisk ==
    [][account'.losses > account.losses =>
        (Balance - Balance' + 2) * 1000 >= Balance * Risk]_vars

\* The engine resets between files "to prevent incorrect data", as the next
\* may be a different ticker: a position ends on a candle of its own file.
ExitInOwnFile ==
    ~account.position.active => exitFile = entryFile
=============================================================================
