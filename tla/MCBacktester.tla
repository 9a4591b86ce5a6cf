---------------------------- MODULE MCBacktester ----------------------------
(***************************************************************************)
(* Backtester.tla for TLC: three prices far enough apart for a candle to   *)
(* touch the stop, the target, both or none, and the account of the code.  *)
(***************************************************************************)
EXTENDS Backtester
=============================================================================
