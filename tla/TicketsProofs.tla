---------------------------- MODULE TicketsProofs ----------------------------
(***************************************************************************)
(* However many consumers share a producer, and however their steps mix,   *)
(* none is given an element that is not there, and the modular comparison  *)
(* of the code sees the counters as the numbers they stand for.            *)
(*                                                                         *)
(* A ticket that has been drawn is undecided until its consumer has looked *)
(* at tailIndex again; then it is granted until headIndex counts it, or    *)
(* void until dequeueOvercommit does.  What the granted ones and headIndex *)
(* add up to never passes tailIndex.  A consumer with a ticket knows that  *)
(* all who drew before it were given elements below its own, unless there  *)
(* are enough elements for it and all of them: this is Served, and it      *)
(* holds because dequeueOvercommit counts no more than has been handed     *)
(* back, which is Balanced.                                                *)
(***************************************************************************)
EXTENDS Tickets, FiniteSetTheorems, TLAPS

Drawn == {"recheck", "handBack", "advance"}

\* n tickets from a on.
Block(a, n) == a .. a + n - 1

\* The tickets of a consumer, and those of them there was an element for.
Own(c) == Block(my[c].ticket, my[c].want)
Won(c) == Block(my[c].ticket, my[c].got)
Lost(c) == Block(my[c].ticket + my[c].got, my[c].want - my[c].got)

Undecided == UNION {Own(c) : c \in {d \in Consumers : cpc[d] = "recheck"}}
Granted == UNION {Won(c) : c \in {d \in Consumers : cpc[d] \in {"handBack", "advance"}}}
Void == UNION {Lost(c) : c \in {d \in Consumers : cpc[d] = "handBack"}}

\* The elements given to a consumer, counted by headIndex or not yet.
Given == headIndex + Cardinality(Granted)

\* The undecided tickets below k.
Before(k) == Undecided \cap (0 .. k - 1)

-----------------------------------------------------------------------------
Locals == [tail : Nat, over : Nat, want : Nat, ticket : Nat, got : Nat, index : Nat]
Places == {"idle", "loadOver", "look", "claim", "locate"} \cup Drawn

CountersTyped ==
  /\ tailIndex \in Nat /\ headIndex \in Nat /\ optimistic \in Nat /\ overcommit \in Nat
  /\ cpc \in [Consumers -> Places]
  /\ my \in [Consumers -> Locals]

\* What a consumer knows of the counters: they only grow.
LocalsBounded ==
  \A c \in Consumers :
    /\ my[c].over <= overcommit
    /\ cpc[c] \in {"loadOver", "look", "claim"} \cup Drawn => my[c].want > 0
    /\ cpc[c] \in Drawn => my[c].ticket + my[c].want <= optimistic
    /\ cpc[c] \in {"handBack", "advance"} => my[c].got <= my[c].want

\* No ticket is drawn twice.
TicketsApart ==
  \A c, d \in Consumers : c # d /\ cpc[c] \in Drawn /\ cpc[d] \in Drawn =>
    \/ my[c].ticket + my[c].want <= my[d].ticket
    \/ my[d].ticket + my[d].want <= my[c].ticket

\* Every ticket is counted once.
Balanced ==
  optimistic = overcommit + Given + Cardinality(Undecided) + Cardinality(Void)

\* The elements that go to others before an undecided consumer's tickets count.
Below(c) == Given + Cardinality(Before(my[c].ticket))

\* What an undecided consumer can rely on, whatever the others find.
Enough(c) ==
  \/ my[c].ticket - my[c].over >= Below(c)
  \/ tailIndex >= Below(c) + my[c].want

Served == \A c \in Consumers : cpc[c] = "recheck" => Enough(c)

IInv ==
  /\ CountersTyped /\ LocalsBounded /\ TicketsApart /\ Balanced /\ Served
  /\ Given <= tailIndex
-----------------------------------------------------------------------------
(* Sets of tickets and their sizes. *)

\* The sizes of disjoint sets add up.
LEMMA Apart ==
  ASSUME NEW S, NEW T, IsFiniteSet(S), IsFiniteSet(T), S \cap T = {}
  PROVE  /\ IsFiniteSet(S \cup T)
         /\ Cardinality(S \cup T) = Cardinality(S) + Cardinality(T)
<1>1. Cardinality(S) \in Nat /\ Cardinality(T) \in Nat  BY FS_CardinalityType
<1>2. Cardinality(S \cap T) = 0  BY FS_EmptySet
<1>3. /\ IsFiniteSet(S \cup T)
      /\ Cardinality(S \cup T) =
           Cardinality(S) + Cardinality(T) - Cardinality(S \cap T)
  BY FS_Union
<1> QED  BY <1>1, <1>2, <1>3

\* A block of n tickets has n of them.
LEMMA BlockSize ==
  ASSUME NEW a \in Nat, NEW n \in Nat
  PROVE  IsFiniteSet(Block(a, n)) /\ Cardinality(Block(a, n)) = n
BY FS_Interval DEF Block

\* Tickets that have been drawn are numbers below optimistic, so that the
\* sets of them are finite.
LEMMA DrawnBelow ==
  ASSUME IInv
  PROVE  /\ Undecided \subseteq 0 .. optimistic - 1
         /\ Granted \subseteq 0 .. optimistic - 1
         /\ Void \subseteq 0 .. optimistic - 1
<1>1. optimistic \in Nat  BY DEF IInv, CountersTyped
<1>2. ASSUME NEW d \in Consumers, cpc[d] \in Drawn
      PROVE  /\ Own(d) \subseteq 0 .. optimistic - 1
             /\ cpc[d] # "recheck" => /\ Won(d) \subseteq Own(d)
                                      /\ Lost(d) \subseteq Own(d)
  <2>1. /\ my[d].ticket \in Nat /\ my[d].want \in Nat /\ my[d].got \in Nat
        /\ my[d].ticket + my[d].want <= optimistic
        /\ cpc[d] # "recheck" => my[d].got <= my[d].want
    BY <1>2 DEF IInv, CountersTyped, Locals, LocalsBounded, Drawn
  <2> QED  BY <1>1, <2>1 DEF Own, Won, Lost, Block
<1>3. Undecided \subseteq 0 .. optimistic - 1  BY <1>2 DEF Undecided, Drawn
<1>4. Granted \subseteq 0 .. optimistic - 1  BY <1>2 DEF Granted, Drawn
<1>5. Void \subseteq 0 .. optimistic - 1  BY <1>2 DEF Void, Drawn
<1> QED  BY <1>3, <1>4, <1>5

LEMMA Sizes ==
  ASSUME IInv
  PROVE  /\ IsFiniteSet(Undecided) /\ Cardinality(Undecided) \in Nat
         /\ IsFiniteSet(Granted) /\ Cardinality(Granted) \in Nat
         /\ IsFiniteSet(Void) /\ Cardinality(Void) \in Nat
         /\ \A k : IsFiniteSet(Before(k)) /\ Cardinality(Before(k)) \in Nat
         /\ Given \in Nat
<1>1. optimistic \in Nat /\ headIndex \in Nat  BY DEF IInv, CountersTyped
<1>2. IsFiniteSet(0 .. optimistic - 1)  BY <1>1, FS_Interval
<1>3. IsFiniteSet(Undecided) /\ IsFiniteSet(Granted) /\ IsFiniteSet(Void)
  BY <1>2, DrawnBelow, FS_Subset
<1>4. \A k : IsFiniteSet(Before(k))
  <2> TAKE k
  <2>1. Before(k) \in SUBSET Undecided  BY DEF Before
  <2> QED  BY <2>1, <1>3, FS_Subset
<1>5. /\ Cardinality(Undecided) \in Nat /\ Cardinality(Granted) \in Nat
      /\ Cardinality(Void) \in Nat
  BY <1>3, FS_CardinalityType
<1>6. \A k : Cardinality(Before(k)) \in Nat  BY <1>4, FS_CardinalityType
<1> QED  BY <1>1, <1>3, <1>4, <1>5, <1>6 DEF Given
-----------------------------------------------------------------------------
(* What a step of one consumer leaves of the others. *)

LEMMA Moved ==
  ASSUME IInv, NEW c \in Consumers, NEW place \in Places, NEW m \in Locals,
         Goto(c, place, m)
  PROVE  /\ cpc'[c] = place /\ my'[c] = m
         /\ cpc' \in [Consumers -> Places] /\ my' \in [Consumers -> Locals]
         /\ \A d \in Consumers \ {c} :
              /\ cpc'[d] = cpc[d] /\ my'[d] = my[d]
              /\ Own(d)' = Own(d) /\ Won(d)' = Won(d) /\ Lost(d)' = Lost(d)
<1>1. cpc \in [Consumers -> Places] /\ my \in [Consumers -> Locals]
  BY DEF IInv, CountersTyped
<1>2. /\ cpc'[c] = place /\ my'[c] = m
      /\ cpc' \in [Consumers -> Places] /\ my' \in [Consumers -> Locals]
      /\ \A d \in Consumers \ {c} : cpc'[d] = cpc[d] /\ my'[d] = my[d]
  BY <1>1 DEF Goto
<1> QED  BY <1>2 DEF Own, Won, Lost

\* The tickets of two consumers that have drawn are apart.
LEMMA Disjoint ==
  ASSUME IInv, NEW c \in Consumers, NEW d \in Consumers, c # d,
         cpc[c] \in Drawn, cpc[d] \in Drawn
  PROVE  /\ Own(c) \cap Own(d) = {}
         /\ cpc[c] # "recheck" => /\ Won(c) \cap Own(d) = {}
                                  /\ Lost(c) \cap Own(d) = {}
         /\ cpc[c] # "recheck" /\ cpc[d] # "recheck" =>
              Won(c) \cap Won(d) = {} /\ Lost(c) \cap Lost(d) = {}
<1>1. /\ my[c].ticket \in Nat /\ my[c].want \in Nat /\ my[c].got \in Nat
      /\ my[d].ticket \in Nat /\ my[d].want \in Nat /\ my[d].got \in Nat
      /\ cpc[c] # "recheck" => my[c].got <= my[c].want
      /\ cpc[d] # "recheck" => my[d].got <= my[d].want
  BY DEF IInv, CountersTyped, Locals, LocalsBounded, Drawn
<1>2. \/ my[c].ticket + my[c].want <= my[d].ticket
      \/ my[d].ticket + my[d].want <= my[c].ticket
  BY DEF IInv, TicketsApart
<1> QED  BY <1>1, <1>2 DEF Own, Won, Lost, Block

\* A step of a consumer that leaves its tickets what they are.
LEMMA SetsStay ==
  ASSUME NEW c \in Consumers,
         \A d \in Consumers \ {c} :
           /\ cpc'[d] = cpc[d]
           /\ Own(d)' = Own(d) /\ Won(d)' = Won(d) /\ Lost(d)' = Lost(d)
  PROVE  /\ (cpc[c] # "recheck" /\ cpc'[c] # "recheck") => Undecided' = Undecided
         /\ (cpc[c] \notin {"handBack", "advance"} /\ cpc'[c] \notin {"handBack", "advance"})
              => Granted' = Granted
         /\ (cpc[c] # "handBack" /\ cpc'[c] # "handBack") => Void' = Void
         /\ (cpc[c] # "recheck" /\ cpc'[c] = "recheck") =>
              Undecided' = Undecided \cup Own(c)'
         /\ (cpc[c] = "recheck" /\ cpc'[c] # "recheck") =>
              Undecided = Undecided' \cup Own(c)
         /\ (cpc[c] = "recheck" /\ cpc'[c] \in {"handBack", "advance"}) =>
              Granted' = Granted \cup Won(c)'
         /\ (cpc[c] = "recheck" /\ cpc'[c] = "handBack") =>
              Void' = Void \cup Lost(c)'
         /\ (cpc[c] = "handBack" /\ cpc'[c] # "handBack") =>
              Void = Void' \cup Lost(c)
         /\ (cpc[c] = "handBack" /\ cpc'[c] = "advance" /\ Won(c)' = Won(c)) =>
              Granted' = Granted
         /\ (cpc[c] \in {"handBack", "advance"} /\ cpc'[c] \notin {"handBack", "advance"}) =>
              Granted = Granted' \cup Won(c)
BY DEF Undecided, Granted, Void
-----------------------------------------------------------------------------
(* The steps preserve the invariant. *)

\* The other consumers' part of it, after a step of c that draws nothing.
LEMMA OthersKeep ==
  ASSUME IInv, NEW c \in Consumers, NEW place \in Places, NEW m \in Locals,
         Goto(c, place, m),
         tailIndex' \in Nat, headIndex' \in Nat, optimistic' = optimistic,
         overcommit' \in Nat, overcommit' >= overcommit,
         m.over <= overcommit',
         place \in {"loadOver", "look", "claim"} \cup Drawn => m.want > 0,
         place \in Drawn => cpc[c] \in Drawn /\ m.ticket = my[c].ticket /\ m.want = my[c].want,
         place \in {"handBack", "advance"} => m.got <= m.want
  PROVE  CountersTyped' /\ LocalsBounded' /\ TicketsApart'
<1>1. /\ cpc'[c] = place /\ my'[c] = m
      /\ cpc' \in [Consumers -> Places] /\ my' \in [Consumers -> Locals]
      /\ \A d \in Consumers \ {c} : cpc'[d] = cpc[d] /\ my'[d] = my[d]
  BY Moved
<1>2. CountersTyped'  BY <1>1 DEF IInv, CountersTyped
<1>3. LocalsBounded'
  <2> SUFFICES ASSUME NEW d \in Consumers
               PROVE  /\ my'[d].over <= overcommit'
                      /\ cpc'[d] \in {"loadOver", "look", "claim"} \cup Drawn => my'[d].want > 0
                      /\ cpc'[d] \in Drawn => my'[d].ticket + my'[d].want <= optimistic'
                      /\ cpc'[d] \in {"handBack", "advance"} => my'[d].got <= my'[d].want
    BY DEF LocalsBounded, Drawn
  <2>1. /\ my[d].over \in Nat /\ overcommit \in Nat
        /\ my[d].over <= overcommit
        /\ cpc[d] \in {"loadOver", "look", "claim"} \cup Drawn => my[d].want > 0
        /\ cpc[d] \in Drawn => my[d].ticket + my[d].want <= optimistic
        /\ cpc[d] \in {"handBack", "advance"} => my[d].got <= my[d].want
    BY DEF IInv, CountersTyped, Locals, LocalsBounded, Drawn
  <2>2. CASE d = c  BY <1>1, <2>1, <2>2
  <2>3. CASE d # c  BY <1>1, <2>1, <2>3
  <2> QED  BY <2>2, <2>3
<1>4. TicketsApart'
  <2>1. \A d \in Consumers : cpc'[d] \in Drawn =>
          cpc[d] \in Drawn /\ my'[d].ticket = my[d].ticket /\ my'[d].want = my[d].want
    BY <1>1
  <2> QED  BY <2>1 DEF IInv, TicketsApart, Drawn
<1> QED  BY <1>2, <1>3, <1>4

\* The rest of the invariant speaks of four sizes and of what the undecided
\* consumers know; it survives where these stay and tailIndex only grows.
LEMMA SizesKeep ==
  ASSUME IInv, tailIndex' \in Nat, tailIndex' >= tailIndex,
         optimistic' = optimistic, overcommit' = overcommit, Given' = Given,
         Undecided' = Undecided, Void' = Void,
         \A d \in Consumers : cpc'[d] = "recheck" => cpc[d] = "recheck" /\ my'[d] = my[d]
  PROVE  Balanced' /\ Served' /\ Given' <= tailIndex'
<1>1. Given \in Nat /\ tailIndex \in Nat  BY Sizes DEF IInv, CountersTyped
<1>2. Balanced'  BY DEF IInv, Balanced
<1>3. Served'
  <2> SUFFICES ASSUME NEW d \in Consumers, cpc'[d] = "recheck"
               PROVE  Enough(d)'
    BY DEF Served
  <2>1. /\ cpc[d] = "recheck" /\ my'[d] = my[d]
        /\ my[d].ticket \in Nat /\ my[d].over \in Nat /\ my[d].want \in Nat
    BY DEF IInv, CountersTyped, Locals
  <2>2. Below(d)' = Below(d)  BY <2>1 DEF Below, Before
  <2>3. Below(d) \in Nat  BY Sizes DEF Below
  <2>4. Enough(d)  BY <2>1 DEF IInv, Served
  <2> QED  BY <1>1, <2>1, <2>2, <2>3, <2>4 DEF Enough
<1>4. Given' <= tailIndex'  BY <1>1 DEF IInv
<1> QED  BY <1>2, <1>3, <1>4

\* A step of a consumer that has no ticket, before and after.
LEMMA PlainStep ==
  ASSUME IInv, NEW c \in Consumers, NEW place \in Places \ Drawn, NEW m \in Locals,
         Goto(c, place, m), UNCHANGED counters, cpc[c] \notin Drawn,
         m.over <= overcommit,
         place \in {"loadOver", "look", "claim"} => m.want > 0
  PROVE  IInv'
<1>1. /\ cpc'[c] = place
      /\ \A d \in Consumers \ {c} :
           /\ cpc'[d] = cpc[d] /\ my'[d] = my[d]
           /\ Own(d)' = Own(d) /\ Won(d)' = Won(d) /\ Lost(d)' = Lost(d)
  BY Moved
<1>2. /\ tailIndex' = tailIndex /\ headIndex' = headIndex
      /\ optimistic' = optimistic /\ overcommit' = overcommit
  BY DEF counters
<1>3. /\ tailIndex \in Nat /\ headIndex \in Nat
      /\ optimistic \in Nat /\ overcommit \in Nat
  BY DEF IInv, CountersTyped
<1>4. CountersTyped' /\ LocalsBounded' /\ TicketsApart'
  BY <1>2, <1>3, OthersKeep DEF Drawn
<1>5. Undecided' = Undecided /\ Granted' = Granted /\ Void' = Void
  BY <1>1, SetsStay DEF Drawn
<1>6. Given' = Given  BY <1>2, <1>5 DEF Given
<1>7. \A d \in Consumers : cpc'[d] = "recheck" => cpc[d] = "recheck" /\ my'[d] = my[d]
  BY <1>1 DEF Drawn
<1>8. Balanced' /\ Served' /\ Given' <= tailIndex'
  BY <1>2, <1>3, <1>5, <1>6, <1>7, SizesKeep
<1> QED  BY <1>4, <1>8 DEF IInv

LEMMA PublishStep ==
  ASSUME IInv, NEW n \in Amounts, Publish(n)
  PROVE  IInv'
<1>1. n \in Nat  BY AmountsPositive
<1>2. /\ tailIndex \in Nat /\ tailIndex' = tailIndex + n
      /\ headIndex' = headIndex /\ optimistic' = optimistic
      /\ overcommit' = overcommit /\ cpc' = cpc /\ my' = my
  BY DEF Publish, IInv, CountersTyped
<1>3. tailIndex' \in Nat /\ tailIndex' >= tailIndex  BY <1>1, <1>2
<1>4. CountersTyped'  BY <1>2, <1>3 DEF IInv, CountersTyped
<1>5. LocalsBounded' /\ TicketsApart'
  BY <1>2 DEF IInv, LocalsBounded, TicketsApart
<1>6. Undecided' = Undecided /\ Granted' = Granted /\ Void' = Void
  BY <1>2 DEF Undecided, Granted, Void, Own, Won, Lost
<1>7. Given' = Given  BY <1>2, <1>6 DEF Given
<1>8. Balanced' /\ Served' /\ Given' <= tailIndex'
  BY <1>2, <1>3, <1>6, <1>7, SizesKeep
<1> QED  BY <1>4, <1>5, <1>8 DEF IInv
LEMMA LoadTailStep ==
  ASSUME IInv, NEW c \in Consumers, NEW max \in Amounts, LoadTail(c, max)
  PROVE  IInv'
<1>1. my[c] \in Locals /\ my[c].over <= overcommit /\ tailIndex \in Nat
  BY DEF IInv, CountersTyped, LocalsBounded
<1>2. max \in Nat /\ max > 0  BY AmountsPositive
<1> DEFINE m == [my[c] EXCEPT !.tail = tailIndex, !.want = max]
<1>3. m \in Locals /\ m.over = my[c].over /\ m.want = max
  <2>1. [my[c] EXCEPT !.tail = tailIndex] \in Locals  BY <1>1 DEF Locals
  <2>2. ASSUME NEW u \in Locals  PROVE [u EXCEPT !.want = max] \in Locals
    BY <1>2 DEF Locals
  <2>3. m = [[my[c] EXCEPT !.tail = tailIndex] EXCEPT !.want = max]  OBVIOUS
  <2> QED  BY <1>1, <2>1, <2>2, <2>3 DEF Locals
<1>4. Goto(c, "loadOver", m) /\ UNCHANGED counters /\ cpc[c] = "idle"  BY DEF LoadTail
<1>5. "loadOver" \in Places \ Drawn  BY DEF Places, Drawn
<1> HIDE DEF m
<1> QED  BY <1>1, <1>2, <1>3, <1>4, <1>5, PlainStep DEF Drawn

LEMMA LoadOvercommitStep ==
  ASSUME IInv, NEW c \in Consumers, LoadOvercommit(c)
  PROVE  IInv'
<1>1. my[c] \in Locals /\ overcommit \in Nat /\ cpc[c] = "loadOver" /\ my[c].want > 0
  BY DEF IInv, CountersTyped, LocalsBounded, LoadOvercommit
<1> DEFINE m == [my[c] EXCEPT !.over = overcommit]
<1>2. m \in Locals /\ m.over = overcommit /\ m.want = my[c].want  BY <1>1 DEF Locals
<1>3. Goto(c, "look", m) /\ UNCHANGED counters  BY DEF LoadOvercommit
<1>4. "look" \in Places \ Drawn  BY DEF Places, Drawn
<1> HIDE DEF m
<1> QED  BY <1>1, <1>2, <1>3, <1>4, PlainStep DEF Drawn

\* What a consumer becomes at the end of a call.
LEMMA BlankFits == Blank \in Locals /\ Blank.over = 0
BY DEF Blank, Locals

LEMMA LookStep ==
  ASSUME IInv, NEW c \in Consumers, Look(c)
  PROVE  IInv'
<1>1. /\ my[c] \in Locals /\ my[c].over <= overcommit /\ overcommit \in Nat
      /\ optimistic \in Nat /\ cpc[c] = "look" /\ my[c].want > 0
  BY DEF IInv, CountersTyped, LocalsBounded, Look
<1> DEFINE desired == my[c].tail - (optimistic - my[c].over)
<1>2. CASE Goto(c, "idle", Blank)
  <2>1. "idle" \in Places \ Drawn  BY DEF Places, Drawn
  <2> QED  BY <1>1, <1>2, <2>1, BlankFits, PlainStep DEF Look, Drawn
<1>3. CASE desired > 0 /\ Goto(c, "claim", [my[c] EXCEPT !.want = Min2(desired, @)])
  <2>1. /\ my[c].tail \in Nat /\ my[c].over \in Nat /\ my[c].want \in Nat
    BY <1>1 DEF Locals
  <2>2. Min2(desired, my[c].want) \in Nat /\ Min2(desired, my[c].want) > 0
    BY <1>1, <1>3, <2>1 DEF Min2
  <2> DEFINE m == [my[c] EXCEPT !.want = Min2(desired, @)]
  <2>3. m \in Locals /\ m.over = my[c].over /\ m.want = Min2(desired, my[c].want)
    <3>1. ASSUME NEW w \in Nat
          PROVE  /\ [my[c] EXCEPT !.want = w] \in Locals
                 /\ [my[c] EXCEPT !.want = w].over = my[c].over
                 /\ [my[c] EXCEPT !.want = w].want = w
      BY <1>1 DEF Locals
    <3> HIDE DEF desired
    <3> QED  BY <2>2, <3>1
  <2>4. "claim" \in Places \ Drawn  BY DEF Places, Drawn
  <2>5. Goto(c, "claim", m)  BY <1>3
  <2>6. UNCHANGED counters  BY DEF Look
  <2> HIDE DEF m
  <2> QED  BY <1>1, <2>2, <2>3, <2>4, <2>5, <2>6, PlainStep DEF Drawn
<1> QED  BY <1>2, <1>3 DEF Look

LEMMA ReturnStep ==
  ASSUME IInv, NEW c \in Consumers, Return(c)
  PROVE  IInv'
<1>1. overcommit \in Nat  BY DEF IInv, CountersTyped
<1>2. "idle" \in Places \ Drawn  BY DEF Places, Drawn
<1> QED  BY <1>1, <1>2, BlankFits, PlainStep DEF Return, Drawn

\* headIndex counts the granted tickets of c: what they add up to stays.
LEMMA AdvanceStep ==
  ASSUME IInv, NEW c \in Consumers, Advance(c)
  PROVE  IInv'
<1>1. /\ my[c] \in Locals /\ my[c].over <= overcommit
      /\ tailIndex \in Nat /\ headIndex \in Nat /\ optimistic \in Nat /\ overcommit \in Nat
      /\ my[c].got \in Nat /\ my[c].ticket \in Nat
      /\ cpc[c] = "advance"
  BY DEF IInv, CountersTyped, LocalsBounded, Advance, Locals
<1> DEFINE m == [my[c] EXCEPT !.index = headIndex]
<1>2. m \in Locals /\ m.over = my[c].over  BY <1>1 DEF Locals
<1>3. /\ Goto(c, "locate", m)
      /\ headIndex' = headIndex + my[c].got
      /\ tailIndex' = tailIndex /\ optimistic' = optimistic /\ overcommit' = overcommit
  BY DEF Advance
<1>4. "locate" \in Places /\ "locate" \notin Drawn  BY DEF Places, Drawn
<1> HIDE DEF m
<1>5. CountersTyped' /\ LocalsBounded' /\ TicketsApart'
  BY <1>1, <1>2, <1>3, <1>4, OthersKeep DEF Drawn
<1>6. /\ cpc'[c] = "locate"
      /\ \A d \in Consumers \ {c} :
           /\ cpc'[d] = cpc[d] /\ my'[d] = my[d]
           /\ Own(d)' = Own(d) /\ Won(d)' = Won(d) /\ Lost(d)' = Lost(d)
  BY <1>2, <1>3, <1>4, Moved
<1>7. Undecided' = Undecided /\ Void' = Void /\ Granted = Granted' \cup Won(c)
  BY <1>1, <1>6, SetsStay
<1>8. Granted' \cap Won(c) = {}
  <2>1. \A d \in Consumers \ {c} : cpc[d] \in {"handBack", "advance"} =>
          Won(d) \cap Won(c) = {}
    BY <1>1, Disjoint DEF Drawn
  <2> QED  BY <1>6, <2>1 DEF Granted
<1>9. Cardinality(Granted) = Cardinality(Granted') + my[c].got
  <2>1. IsFiniteSet(Won(c)) /\ Cardinality(Won(c)) = my[c].got
    BY <1>1, BlockSize DEF Won
  <2>2. IsFiniteSet(Granted')
    <3>1. Granted' \in SUBSET Granted  BY <1>7
    <3> QED  BY <3>1, Sizes, FS_Subset
  <2> QED  BY <1>7, <1>8, <2>1, <2>2, Apart
<1>10. Given' = Given
  <2>1. Cardinality(Granted') \in Nat
    <3>1. Granted' \in SUBSET Granted  BY <1>7
    <3> QED  BY <3>1, Sizes, FS_Subset, FS_CardinalityType
  <2>2. Given' = headIndex' + Cardinality(Granted')  BY DEF Given
  <2> QED  BY <1>1, <1>3, <1>9, <2>1, <2>2 DEF Given
<1>11. \A d \in Consumers : cpc'[d] = "recheck" => cpc[d] = "recheck" /\ my'[d] = my[d]
  BY <1>6
<1>12. Balanced' /\ Served' /\ Given' <= tailIndex'
  BY <1>1, <1>3, <1>7, <1>10, <1>11, SizesKeep
<1> QED  BY <1>5, <1>12 DEF IInv
\* The tickets are handed back: they leave Void and overcommit counts them.
LEMMA HandBackStep ==
  ASSUME IInv, NEW c \in Consumers, HandBack(c)
  PROVE  IInv'
<1> DEFINE back == my[c].want - my[c].got
<1>1. /\ my[c] \in Locals /\ my[c].over <= overcommit /\ my[c].want > 0
      /\ tailIndex \in Nat /\ headIndex \in Nat /\ optimistic \in Nat /\ overcommit \in Nat
      /\ my[c].got \in Nat /\ my[c].want \in Nat /\ my[c].ticket \in Nat /\ my[c].over \in Nat
      /\ my[c].got <= my[c].want /\ cpc[c] = "handBack"
  BY DEF IInv, CountersTyped, LocalsBounded, HandBack, Locals, Drawn
<1>2. back \in Nat  BY <1>1
<1>3. /\ tailIndex' = tailIndex /\ headIndex' = headIndex /\ optimistic' = optimistic
      /\ overcommit' = overcommit + back
  BY DEF HandBack
<1> HIDE DEF back
<1>4. /\ overcommit' \in Nat /\ overcommit' >= overcommit /\ my[c].over <= overcommit'
  BY <1>1, <1>2, <1>3
<1>5. /\ CountersTyped' /\ LocalsBounded' /\ TicketsApart'
      /\ \A d \in Consumers \ {c} :
           /\ cpc'[d] = cpc[d] /\ my'[d] = my[d]
           /\ Own(d)' = Own(d) /\ Won(d)' = Won(d) /\ Lost(d)' = Lost(d)
      /\ cpc'[c] \in {"idle", "advance"}
      /\ Granted' = Granted
  <2>1. CASE my[c].got > 0
    <3>1. Goto(c, "advance", my[c])  BY <2>1 DEF HandBack
    <3>2. "advance" \in Places /\ "advance" \in Drawn  BY DEF Places, Drawn
    <3>3. CountersTyped' /\ LocalsBounded' /\ TicketsApart'
      BY <1>1, <1>3, <1>4, <3>1, <3>2, OthersKeep DEF Drawn
    <3>4. /\ \A d \in Consumers \ {c} :
               /\ cpc'[d] = cpc[d] /\ my'[d] = my[d]
               /\ Own(d)' = Own(d) /\ Won(d)' = Won(d) /\ Lost(d)' = Lost(d)
          /\ cpc'[c] = "advance" /\ my'[c] = my[c]
      BY <1>1, <3>1, <3>2, Moved
    <3>5. Won(c)' = Won(c)  BY <3>4 DEF Won
    <3>6. Granted' = Granted  BY <1>1, <3>4, <3>5, SetsStay
    <3> QED  BY <3>3, <3>4, <3>6
  <2>2. CASE my[c].got = 0
    <3>1. Goto(c, "idle", Blank)  BY <2>2 DEF HandBack
    <3>2. "idle" \in Places /\ "idle" \notin Drawn  BY DEF Places, Drawn
    <3>3. CountersTyped' /\ LocalsBounded' /\ TicketsApart'
      BY <1>1, <1>3, <1>4, <3>1, <3>2, BlankFits, OthersKeep DEF Drawn
    <3>4. /\ \A d \in Consumers \ {c} :
               /\ cpc'[d] = cpc[d] /\ my'[d] = my[d]
               /\ Own(d)' = Own(d) /\ Won(d)' = Won(d) /\ Lost(d)' = Lost(d)
          /\ cpc'[c] = "idle"
      BY <1>1, <3>1, <3>2, BlankFits, Moved
    <3>5. Won(c) = {}  BY <1>1, <2>2 DEF Won, Block
    <3>6. Granted = Granted' \cup Won(c)  BY <1>1, <3>4, SetsStay
    <3>7. Granted' = Granted  BY <3>5, <3>6
    <3> QED  BY <3>3, <3>4, <3>7
  <2> QED  BY <1>1, <2>1, <2>2
<1>6. Undecided' = Undecided /\ Void = Void' \cup Lost(c)
  BY <1>1, <1>5, SetsStay
<1>7. Void' \cap Lost(c) = {}
  <2>1. \A d \in Consumers \ {c} : cpc[d] = "handBack" => Lost(d) \cap Lost(c) = {}
    BY <1>1, Disjoint DEF Drawn
  <2> QED  BY <1>5, <2>1 DEF Void
<1>8. /\ Cardinality(Void) = Cardinality(Void') + back
      /\ Cardinality(Void') \in Nat
  <2>1. my[c].ticket + my[c].got \in Nat  BY <1>1
  <2>2. IsFiniteSet(Lost(c)) /\ Cardinality(Lost(c)) = back
    BY <1>2, <2>1, BlockSize DEF Lost, back
  <2>3. IsFiniteSet(Void')
    <3>1. Void' \in SUBSET Void  BY <1>6
    <3> QED  BY <3>1, Sizes, FS_Subset
  <2> QED  BY <1>6, <1>7, <2>2, <2>3, Apart, FS_CardinalityType
<1>9. Given' = Given /\ Given \in Nat  BY <1>3, <1>5, Sizes DEF Given
<1>10. Balanced'
  <2>1. optimistic = overcommit + Given + Cardinality(Undecided) + Cardinality(Void)
    BY DEF IInv, Balanced
  <2>2. Cardinality(Undecided) \in Nat  BY Sizes
  <2> QED  BY <1>1, <1>2, <1>3, <1>6, <1>8, <1>9, <2>1, <2>2 DEF Balanced
<1>11. Served'
  <2> SUFFICES ASSUME NEW d \in Consumers, cpc'[d] = "recheck"
               PROVE  Enough(d)'
    BY DEF Served
  <2>1. cpc[d] = "recheck" /\ my'[d] = my[d]  BY <1>5
  <2>2. Below(d)' = Below(d)  BY <1>6, <1>9, <2>1 DEF Below, Before
  <2>3. Enough(d)  BY <2>1 DEF IInv, Served
  <2> QED  BY <1>3, <2>1, <2>2, <2>3 DEF Enough
<1>12. Given' <= tailIndex'  BY <1>3, <1>9 DEF IInv
<1> QED  BY <1>5, <1>10, <1>11, <1>12 DEF IInv

-----------------------------------------------------------------------------
\* The tickets that are drawn lie above all others, so that they change what
\* no other consumer relies on; and for those who drew them, Balanced says
\* that overcommit makes up for all the tickets that were not granted.
LEMMA ClaimStep ==
  ASSUME IInv, NEW c \in Consumers, Claim(c)
  PROVE  IInv'
<1>1. /\ my[c] \in Locals /\ my[c].over <= overcommit /\ my[c].want > 0
      /\ tailIndex \in Nat /\ headIndex \in Nat /\ optimistic \in Nat /\ overcommit \in Nat
      /\ my[c].want \in Nat /\ my[c].over \in Nat
      /\ cpc[c] = "claim"
  BY DEF IInv, CountersTyped, LocalsBounded, Claim, Locals
<1> DEFINE m == [my[c] EXCEPT !.ticket = optimistic]
<1>2. m \in Locals /\ m.over = my[c].over /\ m.want = my[c].want /\ m.ticket = optimistic
  BY <1>1 DEF Locals
<1>3. /\ Goto(c, "recheck", m)
      /\ optimistic' = optimistic + my[c].want
      /\ tailIndex' = tailIndex /\ headIndex' = headIndex /\ overcommit' = overcommit
  BY DEF Claim
<1>4. "recheck" \in Places  BY DEF Places, Drawn
<1> HIDE DEF m
<1>5. /\ cpc'[c] = "recheck" /\ my'[c] = m
      /\ cpc' \in [Consumers -> Places] /\ my' \in [Consumers -> Locals]
      /\ \A d \in Consumers \ {c} :
           /\ cpc'[d] = cpc[d] /\ my'[d] = my[d]
           /\ Own(d)' = Own(d) /\ Won(d)' = Won(d) /\ Lost(d)' = Lost(d)
  BY <1>2, <1>3, <1>4, Moved
<1>6. \A d \in Consumers \ {c} :
        /\ my[d].over \in Nat /\ my[d].over <= overcommit
        /\ my[d].ticket \in Nat /\ my[d].want \in Nat
        /\ cpc[d] \in {"loadOver", "look", "claim"} \cup Drawn => my[d].want > 0
        /\ cpc[d] \in Drawn => my[d].ticket + my[d].want <= optimistic
        /\ cpc[d] \in {"handBack", "advance"} => my[d].got <= my[d].want
  BY DEF IInv, CountersTyped, Locals, LocalsBounded
<1>7. CountersTyped'  BY <1>1, <1>3, <1>5 DEF CountersTyped
<1>8. LocalsBounded'
  <2> SUFFICES ASSUME NEW d \in Consumers
               PROVE  /\ my'[d].over <= overcommit'
                      /\ cpc'[d] \in {"loadOver", "look", "claim"} \cup Drawn => my'[d].want > 0
                      /\ cpc'[d] \in Drawn => my'[d].ticket + my'[d].want <= optimistic'
                      /\ cpc'[d] \in {"handBack", "advance"} => my'[d].got <= my'[d].want
    BY DEF LocalsBounded, Drawn
  <2>1. CASE d = c  BY <1>1, <1>2, <1>3, <1>5, <2>1
  <2>2. CASE d # c  BY <1>1, <1>3, <1>5, <1>6, <2>2
  <2> QED  BY <2>1, <2>2
<1>9. TicketsApart'
  <2> SUFFICES ASSUME NEW d \in Consumers, NEW e \in Consumers, d # e,
                      cpc'[d] \in Drawn, cpc'[e] \in Drawn
               PROVE  \/ my'[d].ticket + my'[d].want <= my'[e].ticket
                      \/ my'[e].ticket + my'[e].want <= my'[d].ticket
    BY DEF TicketsApart, Drawn
  <2>1. CASE d = c  BY <1>2, <1>5, <1>6, <2>1
  <2>2. CASE e = c  BY <1>2, <1>5, <1>6, <2>2
  <2>3. CASE d # c /\ e # c  BY <1>5, <2>3 DEF IInv, TicketsApart
  <2> QED  BY <2>1, <2>2, <2>3
<1>10. /\ Undecided' = Undecided \cup Own(c)' /\ Granted' = Granted /\ Void' = Void
  BY <1>1, <1>5, SetsStay
<1>11. Own(c)' = Block(optimistic, my[c].want)  BY <1>2, <1>5 DEF Own
<1>12. Undecided \cap Own(c)' = {}
  <2>1. Undecided \subseteq 0 .. optimistic - 1  BY DrawnBelow
  <2> QED  BY <1>1, <1>11, <2>1 DEF Block
<1>13. Cardinality(Undecided') = Cardinality(Undecided) + my[c].want
  <2>1. IsFiniteSet(Own(c)') /\ Cardinality(Own(c)') = my[c].want
    BY <1>1, <1>11, BlockSize
  <2>2. IsFiniteSet(Undecided)  BY Sizes
  <2>3. Cardinality(Undecided \cup Own(c)') = Cardinality(Undecided) + Cardinality(Own(c)')
    BY <1>12, <2>1, <2>2, Apart
  <2> QED  BY <1>10, <2>1, <2>3
<1>14. Given' = Given /\ Given \in Nat  BY <1>3, <1>10, Sizes DEF Given
<1>15. /\ optimistic = overcommit + Given + Cardinality(Undecided) + Cardinality(Void)
       /\ Cardinality(Undecided) \in Nat /\ Cardinality(Void) \in Nat
  BY Sizes DEF IInv, Balanced
<1>16. Balanced'  BY <1>1, <1>3, <1>10, <1>13, <1>14, <1>15 DEF Balanced
<1>17. Served'
  <2> SUFFICES ASSUME NEW d \in Consumers, cpc'[d] = "recheck"
               PROVE  Enough(d)'
    BY DEF Served
  <2>1. CASE d = c
    <3>1. Undecided' \cap (0 .. optimistic - 1) = Undecided
      <4>1. Undecided \subseteq 0 .. optimistic - 1  BY DrawnBelow
      <4>2. Own(c)' \cap (0 .. optimistic - 1) = {}  BY <1>1, <1>11 DEF Block
      <4> QED  BY <1>10, <4>1, <4>2
    <3>2. my'[c].ticket = optimistic /\ my'[c].over = my[c].over  BY <1>2, <1>5
    <3>3. Below(c)' = Given + Cardinality(Undecided)
      BY <1>14, <3>1, <3>2 DEF Below, Before
    <3>4. optimistic - my[c].over >= Given + Cardinality(Undecided)
      BY <1>1, <1>14, <1>15
    <3> QED  BY <2>1, <3>2, <3>3, <3>4 DEF Enough
  <2>2. CASE d # c
    <3>1. /\ cpc[d] = "recheck" /\ my'[d] = my[d]
          /\ my[d].ticket \in Nat /\ my[d].ticket <= optimistic
      BY <1>1, <1>5, <1>6, <2>2 DEF Drawn
    <3>2. Undecided' \cap (0 .. my[d].ticket - 1) = Undecided \cap (0 .. my[d].ticket - 1)
      BY <1>1, <1>10, <1>11, <3>1 DEF Block
    <3>3. Below(d)' = Below(d)  BY <1>14, <3>1, <3>2 DEF Below, Before
    <3>4. Enough(d)  BY <3>1 DEF IInv, Served
    <3> QED  BY <1>3, <3>1, <3>3, <3>4 DEF Enough
  <2> QED  BY <2>1, <2>2
<1>18. Given' <= tailIndex'  BY <1>3, <1>14 DEF IInv
<1> QED  BY <1>7, <1>8, <1>9, <1>16, <1>17, <1>18 DEF IInv
\* The second look: of the undecided tickets of c some become granted and the
\* others void.  Who has a ticket below those of c counted on all of his being
\* served before them, and who has one above counted on none of them failing.
LEMMA RecheckStep ==
  ASSUME IInv, NEW c \in Consumers, Recheck(c)
  PROVE  IInv'
<1> DEFINE got == Actual(c)
           want == my[c].want
<1>1. /\ my[c] \in Locals /\ my[c].over <= overcommit /\ my[c].want > 0
      /\ tailIndex \in Nat /\ headIndex \in Nat /\ optimistic \in Nat /\ overcommit \in Nat
      /\ my[c].want \in Nat /\ my[c].over \in Nat /\ my[c].ticket \in Nat
      /\ my[c].ticket + my[c].want <= optimistic
      /\ cpc[c] = "recheck"
  BY DEF IInv, CountersTyped, LocalsBounded, Recheck, Locals, Drawn
<1>2. got \in Nat /\ got <= want /\ (got > 0 => got <= tailIndex - (my[c].ticket - my[c].over))
  BY <1>1 DEF Actual, Max2, Min2
<1> DEFINE m == [my[c] EXCEPT !.got = Actual(c)]
           place == IF Actual(c) < my[c].want THEN "handBack" ELSE "advance"
<1>3. /\ m \in Locals /\ m.over = my[c].over /\ m.want = want /\ m.ticket = my[c].ticket
      /\ m.got = got
  BY <1>1, <1>2 DEF Locals
<1>4. /\ Goto(c, place, m)
      /\ optimistic' = optimistic /\ tailIndex' = tailIndex
      /\ headIndex' = headIndex /\ overcommit' = overcommit
  BY DEF Recheck, counters
<1>5. /\ place \in {"handBack", "advance"} /\ place \in Places
      /\ (place = "advance" => got = want)
  BY <1>1, <1>2 DEF Places, Drawn
<1> HIDE DEF m, place, got
<1>6. /\ cpc'[c] = place /\ my'[c] = m
      /\ \A d \in Consumers \ {c} :
           /\ cpc'[d] = cpc[d] /\ my'[d] = my[d]
           /\ Own(d)' = Own(d) /\ Won(d)' = Won(d) /\ Lost(d)' = Lost(d)
  BY <1>3, <1>4, <1>5, Moved
<1>7. CountersTyped' /\ LocalsBounded' /\ TicketsApart'
  BY <1>1, <1>2, <1>3, <1>4, <1>5, OthersKeep DEF Drawn
<1>8. /\ Undecided = Undecided' \cup Own(c)
      /\ Granted' = Granted \cup Won(c)'
      /\ place = "handBack" => Void' = Void \cup Lost(c)'
      /\ place = "advance" => Void' = Void
  BY <1>1, <1>5, <1>6, SetsStay
<1>9. /\ Own(c) = Block(my[c].ticket, want)
      /\ Won(c)' = Block(my[c].ticket, got)
      /\ Lost(c)' = Block(my[c].ticket + got, want - got)
  BY <1>3, <1>6 DEF Own, Won, Lost
<1>10. Won(c)' \subseteq Own(c) /\ Lost(c)' \subseteq Own(c)
  <2>1. \A a, n, g \in Nat : g <= n =>
          Block(a, g) \subseteq Block(a, n) /\ Block(a + g, n - g) \subseteq Block(a, n)
    BY DEF Block
  <2> QED  BY <1>1, <1>2, <1>9, <2>1
<1>11. \A d \in Consumers \ {c} : cpc[d] \in Drawn =>
         /\ Own(d) \cap Own(c) = {}
         /\ cpc[d] # "recheck" => Won(d) \cap Own(c) = {} /\ Lost(d) \cap Own(c) = {}
  BY <1>1, Disjoint DEF Drawn
<1>12. /\ Undecided' \cap Own(c) = {}
       /\ Granted \cap Own(c) = {}
       /\ Void \cap Own(c) = {}
  <2>1. Undecided' \cap Own(c) = {}  BY <1>5, <1>6, <1>11 DEF Undecided, Drawn
  <2>2. Granted \cap Own(c) = {}  BY <1>1, <1>11 DEF Granted, Drawn
  <2>3. Void \cap Own(c) = {}  BY <1>1, <1>11 DEF Void, Drawn
  <2> QED  BY <2>1, <2>2, <2>3
<1>13. /\ IsFiniteSet(Own(c)) /\ Cardinality(Own(c)) = want
       /\ IsFiniteSet(Won(c)') /\ Cardinality(Won(c)') = got
       /\ IsFiniteSet(Lost(c)') /\ Cardinality(Lost(c)') = want - got
  <2>1. my[c].ticket + got \in Nat /\ want - got \in Nat  BY <1>1, <1>2
  <2> QED  BY <1>1, <1>2, <1>9, <2>1, BlockSize
<1>14. /\ IsFiniteSet(Undecided) /\ IsFiniteSet(Granted) /\ IsFiniteSet(Void)
       /\ Cardinality(Undecided) \in Nat /\ Cardinality(Granted) \in Nat
       /\ Cardinality(Void) \in Nat /\ Given \in Nat
  BY Sizes
<1>15. IsFiniteSet(Undecided') /\ Cardinality(Undecided') \in Nat
  <2>1. Undecided' \in SUBSET Undecided  BY <1>8
  <2> QED  BY <1>14, <2>1, FS_Subset, FS_CardinalityType
<1>16. Cardinality(Undecided) = Cardinality(Undecided') + want
  <2>1. Cardinality(Undecided' \cup Own(c)) = Cardinality(Undecided') + Cardinality(Own(c))
    BY <1>12, <1>13, <1>15, Apart
  <2> QED  BY <1>8, <1>13, <2>1
<1>17. Cardinality(Granted') = Cardinality(Granted) + got
  <2>1. Granted \cap Won(c)' = {}  BY <1>10, <1>12
  <2>2. Cardinality(Granted \cup Won(c)') = Cardinality(Granted) + Cardinality(Won(c)')
    BY <1>13, <1>14, <2>1, Apart
  <2> QED  BY <1>8, <1>13, <2>2
<1>18. Cardinality(Void') = Cardinality(Void) + (want - got)
  <2>1. CASE place = "handBack"
    <3>1. Void \cap Lost(c)' = {}  BY <1>10, <1>12
    <3>2. Cardinality(Void \cup Lost(c)') = Cardinality(Void) + Cardinality(Lost(c)')
      BY <1>13, <1>14, <3>1, Apart
    <3> QED  BY <1>8, <1>13, <2>1, <3>2
  <2>2. CASE place = "advance"
    <3>1. want - got = 0  BY <1>1, <1>2, <1>5, <2>2
    <3> QED  BY <1>8, <1>14, <2>2, <3>1
  <2> QED  BY <1>5, <2>1, <2>2
<1>19. Given' = Given + got  BY <1>1, <1>2, <1>4, <1>14, <1>17 DEF Given
<1>20. Balanced'
  <2>1. optimistic = overcommit + Given + Cardinality(Undecided) + Cardinality(Void)
    BY DEF IInv, Balanced
  <2> QED  BY <1>1, <1>2, <1>4, <1>14, <1>15, <1>16, <1>18, <1>19, <2>1 DEF Balanced
<1>21. /\ Below(c) \in Nat
       /\ \/ my[c].ticket - my[c].over >= Below(c)
          \/ tailIndex >= Below(c) + want
  BY <1>1, <1>14, Sizes DEF IInv, Served, Enough, Below
<1>22. Below(c) >= Given
  BY <1>14, Sizes DEF Below
<1>23. got > 0 => tailIndex >= Below(c) + got
  BY <1>1, <1>2, <1>21
<1>24. Given' <= tailIndex'
  <2>1. Given <= tailIndex  BY DEF IInv
  <2> QED  BY <1>1, <1>2, <1>4, <1>14, <1>19, <1>21, <1>22, <1>23, <2>1
<1>25. Served'
  <2> SUFFICES ASSUME NEW d \in Consumers, cpc'[d] = "recheck"
               PROVE  Enough(d)'
    BY DEF Served
  <2>1. d # c  BY <1>5, <1>6
  <2>2. /\ cpc[d] = "recheck" /\ my'[d] = my[d]
        /\ my[d].ticket \in Nat /\ my[d].want \in Nat /\ my[d].over \in Nat
    BY <1>6, <2>1 DEF IInv, CountersTyped, Locals
  <2> DEFINE low == 0 .. my[d].ticket - 1
             size == Cardinality(Undecided \cap low)
             size2 == Cardinality(Undecided' \cap low)
  <2>3. Below(d) = Given + size /\ Below(d)' = Given' + size2
    BY <2>2 DEF Below, Before
  <2>4. size \in Nat /\ IsFiniteSet(Undecided \cap low)
    BY Sizes DEF Before
  <2>5. size2 \in Nat /\ IsFiniteSet(Undecided' \cap low)
    <3>1. (Undecided' \cap low) \in SUBSET Undecided'  OBVIOUS
    <3> QED  BY <1>15, <3>1, FS_Subset, FS_CardinalityType
  <2>6. \/ my[d].ticket - my[d].over >= Given + size
        \/ tailIndex >= Given + size + my[d].want
    BY <2>2, <2>3 DEF IInv, Served, Enough
  <2>7. \/ my[c].ticket + want <= my[d].ticket
        \/ my[d].ticket + my[d].want <= my[c].ticket
    BY <1>1, <2>1, <2>2 DEF IInv, TicketsApart, Drawn
  <2>8. \/ my[d].ticket - my[d].over >= Given + got + size2
        \/ tailIndex >= Given + got + size2 + my[d].want
    <3>1. CASE my[c].ticket + want <= my[d].ticket
      <4>1. Undecided \cap low = (Undecided' \cap low) \cup Own(c)
        BY <1>1, <1>8, <1>9, <2>2, <3>1, SMTT(30) DEF Block
      <4>2. (Undecided' \cap low) \cap Own(c) = {}  BY <1>12
      <4>3. Cardinality((Undecided' \cap low) \cup Own(c)) = size2 + Cardinality(Own(c))
        BY <1>13, <2>5, <4>2, Apart
      <4>4. size = size2 + want  BY <1>13, <4>1, <4>3
      <4> HIDE DEF size, size2
      <4> QED  BY <1>1, <1>2, <1>14, <2>2, <2>4, <2>5, <2>6, <4>4
    <3>2. CASE my[d].ticket + my[d].want <= my[c].ticket
      <4>1. Undecided' \cap low = Undecided \cap low
        BY <1>1, <1>8, <1>9, <2>2, <3>2, SMTT(30) DEF Block
      <4>2. size2 = size  BY <4>1
      <4>3. Below(c) >= Given + size + my[d].want
        <5>1. Own(d) \subseteq Undecided  BY <2>2 DEF Undecided
        <5>2. (Undecided \cap low) \cup Own(d) \in SUBSET Before(my[c].ticket)
          BY <1>1, <2>2, <3>2, <5>1 DEF Before, Own, Block
        <5>3. (Undecided \cap low) \cap Own(d) = {}  BY <2>2 DEF Own, Block
        <5>4. IsFiniteSet(Own(d)) /\ Cardinality(Own(d)) = my[d].want
          BY <2>2, BlockSize DEF Own
        <5>5. Cardinality((Undecided \cap low) \cup Own(d)) = size + my[d].want
          BY <2>4, <5>3, <5>4, Apart
        <5>6. IsFiniteSet(Before(my[c].ticket)) /\ Cardinality(Before(my[c].ticket)) \in Nat
          BY Sizes
        <5>7. Cardinality((Undecided \cap low) \cup Own(d)) <= Cardinality(Before(my[c].ticket))
          BY <5>2, <5>6, FS_Subset
        <5> HIDE DEF size
        <5> QED  BY <1>14, <2>2, <2>4, <5>5, <5>6, <5>7 DEF Below
      <4> HIDE DEF size, size2
      <4>4. CASE got = 0
        BY <1>1, <1>14, <2>2, <2>4, <2>6, <4>2, <4>4
      <4>5. CASE got > 0
        BY <1>1, <1>2, <1>14, <1>21, <1>23, <2>2, <2>4, <4>2, <4>3, <4>5
      <4> QED  BY <1>2, <4>4, <4>5
    <3> QED  BY <2>7, <3>1, <3>2
  <2> HIDE DEF size, size2
  <2> QED  BY <1>4, <1>19, <2>2, <2>3, <2>8 DEF Enough
<1> QED  BY <1>7, <1>20, <1>24, <1>25 DEF IInv

-----------------------------------------------------------------------------
LEMMA InitIInv == TicketsInit => IInv
<1> SUFFICES ASSUME TicketsInit  PROVE IInv
  OBVIOUS
<1>1. Undecided = {} /\ Granted = {} /\ Void = {}
  BY DEF TicketsInit, Undecided, Granted, Void
<1>2. Cardinality({}) = 0  BY FS_EmptySet
<1>3. CountersTyped  BY BlankFits DEF TicketsInit, CountersTyped, Places
<1>4. LocalsBounded /\ TicketsApart /\ Served
  BY BlankFits DEF TicketsInit, LocalsBounded, TicketsApart, Served, Drawn
<1>5. Balanced /\ Given <= tailIndex
  BY <1>1, <1>2 DEF TicketsInit, Balanced, Given
<1> QED  BY <1>3, <1>4, <1>5 DEF IInv

LEMMA StutterStep == IInv /\ UNCHANGED ticketVars => IInv'
<1> SUFFICES ASSUME IInv, UNCHANGED ticketVars  PROVE IInv'
  OBVIOUS
<1>1. /\ tailIndex' = tailIndex /\ headIndex' = headIndex /\ optimistic' = optimistic
      /\ overcommit' = overcommit /\ cpc' = cpc /\ my' = my
  BY DEF ticketVars, counters
<1>2. CountersTyped' /\ LocalsBounded' /\ TicketsApart'
  BY <1>1 DEF IInv, CountersTyped, LocalsBounded, TicketsApart
<1>3. Undecided' = Undecided /\ Granted' = Granted /\ Void' = Void
  BY <1>1 DEF Undecided, Granted, Void, Own, Won, Lost
<1>4. Given' = Given  BY <1>1, <1>3 DEF Given
<1>5. tailIndex \in Nat  BY DEF IInv, CountersTyped
<1>6. Balanced' /\ Served' /\ Given' <= tailIndex'
  BY <1>1, <1>3, <1>4, <1>5, SizesKeep
<1> QED  BY <1>2, <1>6 DEF IInv

LEMMA StepIInv == IInv /\ [TicketsNext]_ticketVars => IInv'
<1> SUFFICES ASSUME IInv, [TicketsNext]_ticketVars  PROVE IInv'
  OBVIOUS
<1>1. CASE \E n \in Amounts : Publish(n)  BY <1>1, PublishStep
<1>2. ASSUME NEW c \in Consumers, Draw(c)  PROVE IInv'
  BY <1>2, LoadTailStep, LoadOvercommitStep, LookStep, ClaimStep, RecheckStep,
     HandBackStep, AdvanceStep DEF Draw
<1>3. ASSUME NEW c \in Consumers, Return(c)  PROVE IInv'  BY <1>3, ReturnStep
<1>4. CASE UNCHANGED ticketVars  BY <1>4, StutterStep
<1> QED  BY <1>1, <1>2, <1>3, <1>4 DEF TicketsNext

\* No consumer is given an element that has not been added, for any number of
\* consumers and any amounts (moodycamel.h:1996 and 2805).
THEOREM NeverPastTail == TicketsSpec => []HeadBehindTail
<1>1. IInv => HeadBehindTail
  <2> SUFFICES ASSUME IInv  PROVE HeadBehindTail
    OBVIOUS
  <2>1. headIndex \in Nat /\ tailIndex \in Nat /\ Cardinality(Granted) \in Nat
    BY Sizes DEF IInv, CountersTyped
  <2>2. headIndex + Cardinality(Granted) <= tailIndex  BY DEF IInv, Given
  <2> QED  BY <2>1, <2>2 DEF HeadBehindTail
<1> QED  BY <1>1, InitIInv, StepIInv, PTL DEF TicketsSpec
-----------------------------------------------------------------------------
LEMMA Division ==
  ASSUME NEW x \in Int, NEW M \in Nat, M > 0
  PROVE  /\ x \div M \in Int /\ x % M \in Int
         /\ x = M * (x \div M) + (x % M)
<1>1. x \div M \in Int /\ x % M \in Int  OBVIOUS
<1>2. PICK quotient \in Int : quotient = x \div M  BY <1>1
<1>3. x = M * quotient + (x % M)  BY <1>2
<1> QED  BY <1>1, <1>2, <1>3

\* The comparison of the code, made on counters of which only the lower bits
\* are kept, is that of the numbers they stand for, as long as these are less
\* than half the range apart (circular_less_than, moodycamel.h:477).
THEOREM CircularAgrees ==
  ASSUME NEW H \in Nat \ {0}, NEW M, M = 2 * H,
         NEW a \in Nat, NEW b \in Nat, b - a < H, a - b <= H
  PROVE  CircularLess(a % M, b % M, M) <=> a < b
<1>1. M \in Nat \ {0} /\ M > H  OBVIOUS
<1>2. PICK p \in Int, q \in Int : a = M * p + (a % M) /\ b = M * q + (b % M)
  <2>1. a \in Int /\ b \in Int /\ M \in Nat /\ M > 0  BY <1>1
  <2>2. a = M * (a \div M) + (a % M) /\ a \div M \in Int  BY <2>1, Division, Zenon
  <2>3. b = M * (b \div M) + (b % M) /\ b \div M \in Int  BY <2>1, Division, Zenon
  <2> QED  BY <2>2, <2>3
<1>3. a % M \in Int /\ b % M \in Int  BY <1>1
<1> DEFINE z == (a % M) - (b % M)
           r == z % M
<1>4. z \in Int /\ a - b = M * (p - q) + z
  <2>1. M * p - M * q = M * (p - q)  BY <1>1
  <2>2. M * p \in Int /\ M * q \in Int  BY <1>1
  <2> QED  BY <1>2, <1>3, <2>1, <2>2
<1>5. PICK k \in Int : z = M * k + r
  <2>1. M \in Nat /\ M > 0  BY <1>1
  <2> HIDE DEF z
  <2>2. z = M * (z \div M) + r /\ z \div M \in Int  BY <1>4, <2>1, Division, Zenon
  <2> QED  BY <2>2
<1>6. r \in Int /\ 0 <= r /\ r < M  BY <1>1, <1>4
<1> HIDE DEF z, r
<1>7. PICK j \in Int : a - b = M * j + r
  <2>1. M * (p - q) + M * k = M * (p - q + k)  BY <1>1
  <2>2. M * (p - q) \in Int /\ M * k \in Int  BY <1>1
  <2>3. a - b = M * (p - q + k) + r  BY <1>4, <1>5, <1>6, <2>1, <2>2
  <2> QED  BY <2>3
<1>8. j = 0 \/ j = -1
  <2>1. j >= 1 => M * j >= M  BY <1>1
  <2>2. j <= -2 => M * j <= -2 * M  BY <1>1
  <2>3. M * j \in Int  BY <1>1
  <2> QED  BY <1>1, <1>6, <1>7, <2>1, <2>2, <2>3
<1>9. 2 * r > M <=> a < b
  <2>1. CASE j = 0
    <3>1. a - b = r  BY <1>1, <1>6, <1>7, <2>1
    <3> QED  BY <1>1, <1>6, <3>1
  <2>2. CASE j = -1
    <3>1. a - b = r - M  BY <1>1, <1>6, <1>7, <2>2
    <3> QED  BY <1>1, <1>6, <3>1
  <2> QED  BY <1>8, <2>1, <2>2
<1> QED  BY <1>9 DEF CircularLess, z, r
=============================================================================
