------------------------------ MODULE MCTable -------------------------------
(***************************************************************************)
(* One behaviour of the table of producers, for TLC: more threads than it  *)
(* could try in every order.  The threads take turns as Schedule says.     *)
(*                                                                         *)
(* Forty threads have loaded the first hash, of 32 slots as in the code,   *)
(* when a second of 64 is put in front of it.  One after the other they    *)
(* add themselves to the first hash, in twenty slots; when one has ended,  *)
(* another takes its slot, which does not count.  But when they are looked *)
(* up again they move to forty different slots of the second hash, and     *)
(* twenty of these are counted nowhere.                                    *)
(***************************************************************************)
EXTENDS ProducerTable, TLC

Late == 0..39              \* the threads that know the first hash only
Creator == 40              \* makes the second hash
Holder == 41               \* keeps others from making a third
New == 42..64              \* find the second hash
MCCallers == Late \cup {Creator, Holder} \cup New

\* The first twenty of Late and the others have the same slot in the first hash
\* and different ones in the second; the other threads have those left there.
MCHome == [t \in MCCallers |->
             CASE t \in Late -> IF t < 20 THEN t ELSE t + 12
               [] t = Creator -> 0
               [] t = Holder -> 20
               [] t \in New -> IF t < 53 THEN t - 21 ELSE t - 1]

Loads(t) == <<<<t, "find">>>>
Finishes(t) == <<<<t, "out">>>>
Calls(t) == Loads(t) \o Finishes(t)
Ends(t) == <<<<t, "leave">>, <<t, "out">>>>
Each(S(_), first, last) ==
  LET upTo[t \in first - 1..last] == IF t < first THEN <<>> ELSE upTo[t - 1] \o S(t)
  IN upTo[last]
MovesAndEnds(t) == Calls(t) \o Ends(t)
AddsMovesEnds(t) == Finishes(t) \o MovesAndEnds(t)

\* Where a thread stops for the next one's turn.
Schedule ==
  Each(Loads, 0, 41)
  \o Each(Finishes, 0, 14) \o <<<<Creator, "takeOver">>, <<Holder, "resize">>>>
  \o Each(Finishes, 15, 19)
  \o MovesAndEnds(0) \o Finishes(Creator) \o Ends(Creator)
  \o Each(MovesAndEnds, 1, 19)
  \o Each(AddsMovesEnds, 20, 39)
  \o Each(Calls, 42, 64)
  \o Finishes(Holder)

VARIABLE schedule

MCInit == TableInit /\ schedule = Schedule

Turn(t, place) ==
  /\ Call(t) \/ Lookup(t) \/ Exit(t) \/ Leave(t) \/ Left(t)
  /\ tpc[t] = "out" => tpc'[t] = place
  /\ schedule' = IF tpc'[t] = place THEN Tail(schedule) ELSE schedule

MCNext == schedule # <<>> /\ Turn(schedule[1][1], schedule[1][2])

MCSpec == MCInit /\ [][MCNext]_<<tableVars, schedule>>
=============================================================================
