------------------------------ MODULE OneTrade ------------------------------
(***************************************************************************)
(* What the bot promises its account: one trade at a time.  A run of the   *)
(* program is idle, has a signal to act on, or has placed a trade; it      *)
(* places at most one order per signal, and it does not go back to idle    *)
(* while that order can still fill or hold a position.                     *)
(*                                                                         *)
(* Meka.tla, the trading loop with its timeouts and the exchange, is shown *)
(* to implement this specification.                                        *)
(***************************************************************************)
CONSTANT OrderIds

VARIABLES
    phase,  \* what the running program is doing: "idle", "signal" or "placed"
    open    \* the orders it placed that are working or hold a position

oneTradeVars == <<phase, open>>

Init ==
    /\ phase = "idle"
    /\ open = {}

\* The strategy returns a trade intent other than NONE.
Signal ==
    /\ phase = "idle"
    /\ phase' = "signal"
    /\ UNCHANGED open

\* The order is sent; the exchange takes it or turns it down.
Place ==
    /\ phase = "signal"
    /\ phase' = "placed"
    /\ \/ \E o \in OrderIds : open' = {o}
       \/ open' = {}

\* The order expires or is cancelled, or the position is exited.
End ==
    /\ open # {}
    /\ open' = {}
    /\ UNCHANGED phase

\* The program learns that nothing of its trade is left.
Notice ==
    /\ phase = "placed"
    /\ open = {}
    /\ phase' = "idle"
    /\ UNCHANGED open

\* The process dies, or is given an unreadable answer about its order: what
\* was open is no longer the trade of a running program.
Forget ==
    /\ phase' = "idle"
    /\ open' = {}

Next == Signal \/ Place \/ End \/ Notice \/ Forget

Spec == Init /\ [][Next]_oneTradeVars
=============================================================================
