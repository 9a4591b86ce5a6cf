------------------------------- MODULE MCMeka -------------------------------
(***************************************************************************)
(* Meka.tla for TLC: two order ids, so that an order left behind by a dead *)
(* process can live beside one of its successor, and the reading of the    *)
(* order status that the code relies on.                                   *)
(***************************************************************************)
EXTENDS Meka

\* Status: an order is OPEN until its bracket has filled.
MCBracketStatus ==
    [none |-> "", working |-> "OPEN", held |-> "OPEN", closed |-> "FILLED",
     expired |-> "EXPIRED", cancelled |-> "CANCELLED"]
=============================================================================
