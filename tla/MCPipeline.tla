----------------------------- MODULE MCPipeline -----------------------------
(***************************************************************************)
(* Pipeline.tla for TLC: one ticker, and messages with one or two trades,  *)
(* among them late trades, an incomplete one and an unreadable one.        *)
(***************************************************************************)
EXTENDS Pipeline

CONSTANT eth

MCTimes == 0..2

Trade(time) == [ticker |-> eth, time |-> time, price |-> 1, volume |-> 1]

MCMessages ==
    {<<Trade(1)>>, <<Trade(2), Trade(0)>>, <<Incomplete, Trade(1)>>, <<Unreadable>>}
=============================================================================
