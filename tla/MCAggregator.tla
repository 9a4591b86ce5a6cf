---------------------------- MODULE MCAggregator ----------------------------
(***************************************************************************)
(* Aggregator.tla for TLC: an hour of two minutes of two instants each, so *)
(* that the minute field of a timestamp repeats within the times below.    *)
(***************************************************************************)
EXTENDS Aggregator, TLC

MCTimes == 0..5

\* The tickers play the same role.
MCSymmetry == Permutations(Tickers)
=============================================================================
