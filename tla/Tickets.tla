------------------------------ MODULE Tickets -------------------------------
(***************************************************************************)
(* How many consumers share out the elements of one producer of the        *)
(* lock-free queue (tools/moodycamel.h, ProducerBase): four counters, and  *)
(* no consumer ever waits for another.  A consumer draws tickets by        *)
(* raising dequeueOptimisticCount, looks again at tailIndex, hands back by *)
(* dequeueOvercommit the tickets there was no element for, and raises      *)
(* headIndex by those there was one for.                                   *)
(*                                                                         *)
(* dequeue is dequeue_bulk of one element, and both kinds of producers     *)
(* count in the same way.  The counters are numbers here; the code         *)
(* compares them modulo a power of two (CircularLess, and CircularAgrees   *)
(* in TicketsProofs).                                                      *)
(***************************************************************************)
EXTENDS Integers, FiniteSets

CONSTANTS Consumers,   \* the threads that take from the queue
          Amounts      \* the numbers of elements asked for or added at once

ASSUME ConsumersFinite == IsFiniteSet(Consumers)
ASSUME AmountsPositive == Amounts \subseteq Nat \ {0}

VARIABLES tailIndex,    \* elements added
          headIndex,    \* elements given to a consumer
          optimistic,   \* dequeueOptimisticCount: tickets drawn
          overcommit,   \* dequeueOvercommit: tickets handed back
          cpc,          \* where each consumer is
          my            \* its local variables

counters == <<tailIndex, headIndex, optimistic, overcommit>>
ticketVars == <<counters, cpc, my>>

Min2(a, b) == IF a < b THEN a ELSE b
Max2(a, b) == IF a < b THEN b ELSE a

(***************************************************************************)
(* circular_less_than on numbers of a width of which M is the number of    *)
(* values: a - b, as an unsigned number, is in the upper half.             *)
(***************************************************************************)
CircularLess(a, b, M) == 2 * ((a - b) % M) > M

\* A consumer that is not in a call.
Blank == [tail |-> 0, over |-> 0, want |-> 0, ticket |-> 0, got |-> 0, index |-> 0]

TicketsInit ==
  /\ tailIndex = 0 /\ headIndex = 0 /\ optimistic = 0 /\ overcommit = 0
  /\ cpc = [c \in Consumers |-> "idle"]
  /\ my = [c \in Consumers |-> Blank]

-----------------------------------------------------------------------------
\* The producer has put n elements in place and shows them.
Publish(n) ==
  /\ tailIndex' = tailIndex + n
  /\ UNCHANGED <<headIndex, optimistic, overcommit, cpc, my>>

\* c moves on, with the local variables m.
Goto(c, place, m) ==
  /\ cpc' = [cpc EXCEPT ![c] = place]
  /\ my' = [my EXCEPT ![c] = m]

\* A call that wants up to max elements loads tailIndex ...
LoadTail(c, max) ==
  /\ cpc[c] = "idle"
  /\ Goto(c, "loadOver", [my[c] EXCEPT !.tail = tailIndex, !.want = max])
  /\ UNCHANGED counters

\* ... and dequeueOvercommit ...
LoadOvercommit(c) ==
  /\ cpc[c] = "loadOver"
  /\ Goto(c, "look", [my[c] EXCEPT !.over = overcommit])
  /\ UNCHANGED counters

\* ... and returns at once if there seems to be nothing to take.
Look(c) ==
  LET desired == my[c].tail - (optimistic - my[c].over) IN
  /\ cpc[c] = "look"
  /\ \/ desired <= 0 /\ Goto(c, "idle", Blank)
     \/ desired > 0 /\ Goto(c, "claim", [my[c] EXCEPT !.want = Min2(desired, @)])
  /\ UNCHANGED counters

\* The fetch_add that draws the tickets.
Claim(c) ==
  /\ cpc[c] = "claim"
  /\ optimistic' = optimistic + my[c].want
  /\ Goto(c, "recheck", [my[c] EXCEPT !.ticket = optimistic])
  /\ UNCHANGED <<tailIndex, headIndex, overcommit>>

\* Faulty variant of Actual: the second look at tailIndex is left out.
ActualUnchecked(c) == my[c].want

\* For how many of the tickets there is an element, by the tailIndex of now.
Actual(c) == Max2(0, Min2(my[c].want, tailIndex - (my[c].ticket - my[c].over)))

Recheck(c) ==
  /\ cpc[c] = "recheck"
  /\ Goto(c, IF Actual(c) < my[c].want THEN "handBack" ELSE "advance",
          [my[c] EXCEPT !.got = Actual(c)])
  /\ UNCHANGED counters

\* Faulty variant of HandBack: the tickets are not handed back.
HandBackForgotten(c) ==
  /\ cpc[c] = "handBack"
  /\ IF my[c].got > 0 THEN Goto(c, "advance", my[c]) ELSE Goto(c, "idle", Blank)
  /\ UNCHANGED counters

\* Tickets without an element are handed back; with none left, 0 is returned.
HandBack(c) ==
  /\ cpc[c] = "handBack"
  /\ overcommit' = overcommit + (my[c].want - my[c].got)
  /\ IF my[c].got > 0 THEN Goto(c, "advance", my[c]) ELSE Goto(c, "idle", Blank)
  /\ UNCHANGED <<tailIndex, headIndex, optimistic>>

\* The fetch_add that gives c the elements from index on.
Advance(c) ==
  /\ cpc[c] = "advance"
  /\ headIndex' = headIndex + my[c].got
  /\ Goto(c, "locate", [my[c] EXCEPT !.index = headIndex])
  /\ UNCHANGED <<tailIndex, optimistic, overcommit>>

\* The elements are found, moved out and destroyed: see ImplicitProducer.
Return(c) ==
  /\ cpc[c] = "locate"
  /\ Goto(c, "idle", Blank)
  /\ UNCHANGED counters

\* What a consumer does before it knows its elements.
Draw(c) ==
  \/ LoadOvercommit(c) \/ Look(c) \/ Claim(c) \/ Recheck(c) \/ HandBack(c)
  \/ Advance(c)
  \/ \E max \in Amounts : LoadTail(c, max)

TicketsNext ==
  \/ \E n \in Amounts : Publish(n)
  \/ \E c \in Consumers : Draw(c) \/ Return(c)

TicketsSpec == TicketsInit /\ [][TicketsNext]_ticketVars

-----------------------------------------------------------------------------
\* HeadBehindTail: no consumer is given an element that has not been added,
\* whatever the consumers do at the same time ("this will never exceed tail",
\* moodycamel.h:1996 and 2805).
HeadBehindTail == headIndex <= tailIndex
=============================================================================
