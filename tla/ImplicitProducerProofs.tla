----------------------- MODULE ImplicitProducerProofs ------------------------
(***************************************************************************)
(* Proofs about ImplicitProducer.tla, for any number of consumers, sizes,  *)
(* blocks and amounts.  It implements Tickets, so what is proved of        *)
(* Tickets holds of it (Begun).  Then the blocks: where the entries of the *)
(* index are (RingInv), which elements are left and who takes them         *)
(* (Shared), and where each block and element lies (Stock).  From this     *)
(* every element is taken where it was put, every block is in one place,   *)
(* and the destructor frees what is left once.                             *)
(***************************************************************************)
EXTENDS ImplicitProducer, FiniteSetTheorems, SequenceTheorems, WellFoundedInduction, TLAPS

-----------------------------------------------------------------------------
\* Blocks by number: block n has the base Nth(n), and element i lies in block
\* Num(i).
Nth(n) == n * BlockSize
Num(i) == i \div BlockSize

LEMMA NthFacts ==
  /\ \A n \in Int : Nth(n) \in Int /\ Nth(n) + BlockSize = Nth(n + 1)
  /\ \A m, n \in Int : m < n => Nth(m) + BlockSize <= Nth(n)
  /\ \A n \in Int : (n >= 0 => Nth(n) >= 0) /\ (n < 0 => Nth(n) <= -BlockSize)
<1>0. BlockSize \in Nat \ {0}
  BY ImplicitAssumption DEF ImplicitAssumption
<1>1. ASSUME NEW n \in Int PROVE Nth(n) \in Int /\ Nth(n) + BlockSize = Nth(n + 1)
  BY <1>0 DEF Nth
<1>2. ASSUME NEW m \in Int, NEW n \in Int, m < n PROVE Nth(m) + BlockSize <= Nth(n)
  <2>1. n - m - 1 \in Nat /\ (n - m - 1) * BlockSize \in Nat
    <3>1. n - m - 1 \in Nat
      BY <1>2
    <3> QED
      BY <1>0, <3>1
  <2>2. (n - m - 1) * BlockSize = n * BlockSize - m * BlockSize - BlockSize
    BY <1>0
  <2>3. n * BlockSize \in Int /\ m * BlockSize \in Int
    BY <1>0
  <2> QED
    BY <1>0, <2>1, <2>2, <2>3 DEF Nth
<1>3. Nth(0) = 0 /\ Nth(-1) = -BlockSize
  BY <1>0 DEF Nth
<1>4. ASSUME NEW n \in Int PROVE (n >= 0 => Nth(n) >= 0) /\ (n < 0 => Nth(n) <= -BlockSize)
  <2>1. n > 0 => Nth(0) + BlockSize <= Nth(n)
    BY <1>2
  <2>2. n < -1 => Nth(n) + BlockSize <= Nth(-1)
    BY <1>2
  <2>3. Nth(n) \in Int
    BY <1>1
  <2> QED
    BY <1>0, <1>3, <2>1, <2>2, <2>3
<1> QED
  BY <1>1, <1>2, <1>4

\* Different blocks have different bases, and the distance of two tells how many
\* blocks lie between them.
LEMMA NthApart ==
  ASSUME NEW m \in Int, NEW n \in Int
  PROVE  /\ Nth(m) = Nth(n) => m = n
         /\ (Nth(m) - Nth(n)) \div BlockSize = m - n
<1>0. BlockSize \in Nat \ {0}
  BY ImplicitAssumption DEF ImplicitAssumption
<1>1. Nth(m) = Nth(n) => m = n
  <2>1. Nth(m) \in Int /\ Nth(n) \in Int
    BY NthFacts
  <2>2. (m < n => Nth(m) + BlockSize <= Nth(n)) /\ (n < m => Nth(n) + BlockSize <= Nth(m))
    BY NthFacts
  <2> QED
    BY <1>0, <2>1, <2>2
<1>2. ASSUME NEW k \in Int PROVE (k * BlockSize) \div BlockSize = k
  BY <1>0
<1>3. Nth(m) - Nth(n) = (m - n) * BlockSize
  BY <1>0 DEF Nth
<1>4. m - n \in Int
  OBVIOUS
<1> QED
  BY <1>1, <1>2, <1>3, <1>4

LEMMA NumFacts ==
  ASSUME NEW i \in Int
  PROVE  /\ Num(i) \in Int /\ Slot(i) \in 0..BlockSize - 1
         /\ Base(i) = Nth(Num(i))
         /\ i = Nth(Num(i)) + Slot(i)
<1>0. BlockSize \in Nat \ {0}
  BY ImplicitAssumption DEF ImplicitAssumption
<1>1. i \div BlockSize \in Int /\ i % BlockSize \in 0..BlockSize - 1
  BY <1>0
<1>2. PICK q \in Int : q = i \div BlockSize
  BY <1>1
<1>3. i = BlockSize * q + (i % BlockSize)
  BY <1>0, <1>2
<1>4. BlockSize * q = q * BlockSize
  BY <1>0
<1> QED
  BY <1>1, <1>2, <1>3, <1>4 DEF Num, Nth, Slot, Base

\* The number of a block is told by the range of its elements.
LEMMA NumIs ==
  ASSUME NEW i \in Int, NEW n \in Int
  PROVE  /\ Nth(n) <= i /\ i < Nth(n) + BlockSize <=> Num(i) = n
         /\ i < Nth(n) <=> Num(i) < n
<1>0. BlockSize \in Nat \ {0}
  BY ImplicitAssumption DEF ImplicitAssumption
<1>1. /\ Num(i) \in Int /\ Slot(i) \in 0..BlockSize - 1 /\ i = Nth(Num(i)) + Slot(i)
      /\ Nth(Num(i)) \in Int /\ Nth(n) \in Int
  BY NumFacts, NthFacts
<1>2. /\ Num(i) < n => Nth(Num(i)) + BlockSize <= Nth(n)
      /\ n < Num(i) => Nth(n) + BlockSize <= Nth(Num(i))
  BY <1>1, NthFacts
<1> QED
  BY <1>0, <1>1, <1>2

-----------------------------------------------------------------------------
\* Positions in a ring of C.
LEMMA Remainder ==
  ASSUME NEW C \in Nat \ {0}, NEW x \in Int
  PROVE  /\ x \div C \in Int /\ x % C \in 0..C - 1
         /\ x = C * (x \div C) + (x % C)
<1>1. x \div C \in Int /\ x % C \in 0..C - 1
  OBVIOUS
<1>2. PICK q \in Int : q = x \div C
  BY <1>1
<1>3. x = C * q + (x % C)
  BY <1>2
<1> QED
  BY <1>1, <1>2, <1>3

\* A multiple of C that is less than C is 0.
LEMMA NoMultiple ==
  ASSUME NEW C \in Nat \ {0}, NEW k \in Int, C * k < C, -C < C * k
  PROVE  k = 0
<1>1. k >= 1 => C * k >= C
  OBVIOUS
<1>2. k <= -1 => C * k <= -C
  OBVIOUS
<1> QED
  BY <1>1, <1>2

LEMMA AddMultiple ==
  ASSUME NEW C \in Nat \ {0}, NEW x \in Int, NEW k \in Int
  PROVE  (x + C * k) % C = x % C
<1> DEFINE y == x + C * k
<1>1. y \in Int
  OBVIOUS
<1>2. PICK p \in Int, a \in 0..C - 1 : x = C * p + a /\ a = x % C
  BY Remainder
<1> HIDE DEF y
<1>3. PICK q \in Int, b \in 0..C - 1 : y = C * q + b /\ b = y % C
  BY <1>1, Remainder
<1>4. C * (q - p - k) = a - b
  <2>1. C * (q - p - k) = C * q - C * p - C * k
    OBVIOUS
  <2>2. PICK u \in Int, v \in Int, w \in Int : u = C * q /\ v = C * p /\ w = C * k
    OBVIOUS
  <2>3. y = v + a + w /\ y = u + b
    BY <1>2, <1>3, <2>2 DEF y
  <2>4. u - v - w = a - b
    BY <2>3
  <2> QED
    BY <2>1, <2>2, <2>4
<1>5. q - p - k = 0
  <2>1. q - p - k \in Int
    OBVIOUS
  <2>2. C * (q - p - k) < C /\ -C < C * (q - p - k)
    BY <1>4
  <2> QED
    BY <2>1, <2>2, NoMultiple
<1>6. a = b
  BY <1>4, <1>5
<1> QED
  BY <1>2, <1>3, <1>6 DEF y

LEMMA RingFacts ==
  ASSUME NEW C \in Nat \ {0}
  PROVE  /\ \A x \in Int : x % C \in 0..C - 1
         /\ \A x \in 0..C - 1 : x % C = x
         /\ \A x, y \in Int : ((x % C) + y) % C = (x + y) % C
         /\ \A x \in Int : (x + C) % C = x % C /\ (x - C) % C = x % C
<1>1. \A x \in Int : x % C \in 0..C - 1
  OBVIOUS
<1>2. \A x \in 0..C - 1 : x % C = x
  OBVIOUS
<1>4. ASSUME NEW x \in Int, NEW y \in Int PROVE ((x % C) + y) % C = (x + y) % C
  <2>1. PICK q \in Int, a \in 0..C - 1 : x = C * q + a /\ a = x % C
    BY Remainder
  <2>2. x + y = (a + y) + C * q /\ a + y \in Int
    BY <2>1
  <2>3. ((a + y) + C * q) % C = (a + y) % C
    BY <2>2, AddMultiple
  <2> QED
    BY <2>1, <2>2, <2>3
<1>5. ASSUME NEW x \in Int PROVE (x + C) % C = x % C /\ (x - C) % C = x % C
  <2>1. x + C = x + C * 1 /\ x - C = x + C * (-1)
    OBVIOUS
  <2>2. (x + C * 1) % C = x % C /\ (x + C * (-1)) % C = x % C
    <3>1. 1 \in Int /\ -1 \in Int
      OBVIOUS
    <3> QED
      BY <3>1, AddMultiple
  <2> QED
    BY <2>1, <2>2
<1> QED
  BY <1>1, <1>2, <1>4, <1>5

\* Two positions less than C apart are the same only if they are equal.
LEMMA RingApart ==
  ASSUME NEW C \in Nat \ {0}, NEW x \in Int, NEW y \in Int,
         x - y < C, y - x < C, x % C = y % C
  PROVE  x = y
<1>1. PICK p \in Int, a \in 0..C - 1 : x = C * p + a /\ a = x % C
  BY Remainder
<1>2. PICK q \in Int, b \in 0..C - 1 : y = C * q + b /\ b = y % C
  BY Remainder
<1>3. C * (p - q) = x - y
  <2>1. C * (p - q) = C * p - C * q
    OBVIOUS
  <2>2. C * q \in Int /\ C * p \in Int
    OBVIOUS
  <2> QED
    BY <1>1, <1>2, <2>1, <2>2
<1>4. p - q = 0
  <2>1. p - q \in Int /\ C * (p - q) < C /\ -C < C * (p - q)
    BY <1>3
  <2> QED
    BY <2>1, NoMultiple
<1> QED
  BY <1>3, <1>4

-----------------------------------------------------------------------------
\* A producer with its blocks does what Tickets says: a consumer that looks for
\* its elements or takes them has not yet returned.
Seeking == {"locate", "base", "take", "forget", "release"}
PlaceOf(place) == IF place \in Seeking THEN "locate" ELSE place
Places == [c \in Consumers |-> PlaceOf(cpc[c])]

TP == INSTANCE TicketsProofs WITH cpc <- Places

LEMMA TicketsAssumed == TP!ConsumersFinite /\ TP!AmountsPositive
BY ConsumersFinite, AmountsPositive
   DEF ConsumersFinite, AmountsPositive, TP!ConsumersFinite, TP!AmountsPositive,
       IsFiniteSet, TP!IsFiniteSet

Busy == {"index", "block", "store", "fill", "undo"}
Drawing == {"idle", "loadOver", "look", "claim", "recheck", "handBack", "advance"}

\* The block of the last element, and the last one the producer has entered in the
\* index.
Old == Num(tailIndex - 1)
Top == Old + Len(op.chain) + (IF ppc = "block" THEN 1 ELSE 0)

IsOp(o) ==
  /\ DOMAIN o = {"start", "count", "chain", "base", "entry", "undo"}
  /\ o.chain \in Seq(Blocks)

\* Where the threads may be, and the call of the producer.
Begun ==
  /\ cpc \in [Consumers -> Drawing \cup Seeking]
  /\ tailIndex \in Nat
  /\ ppc \in Busy \cup {"idle", "destroyed"} /\ IsOp(op)
  /\ ppc \notin Busy => op = NoOp
  /\ ppc \in Busy => op.count \in Amounts /\ op.start = tailIndex
  /\ ppc \in {"index", "block"} =>
       op.base = Nth(Old + Len(op.chain) + 1) /\ op.base < op.start + op.count
  /\ ppc = "store" => /\ op.base = Nth(Old + Len(op.chain)) /\ op.base < op.start + op.count
                      /\ op.chain # <<>>
  /\ ppc = "fill" => Num(op.start + op.count - 1) = Old + Len(op.chain)
  /\ ppc = "undo" => op.undo \in 1..Len(op.chain) + 1

\* A consumer goes to a place.
LEMMA GoesTo ==
  ASSUME Begun, NEW c \in Consumers, NEW place \in Drawing \cup Seeking,
         cpc' = [cpc EXCEPT ![c] = place]
  PROVE  /\ cpc' \in [Consumers -> Drawing \cup Seeking]
         /\ cpc'[c] = place /\ \A d \in Consumers \ {c} : cpc'[d] = cpc[d]
         /\ Places' = [Places EXCEPT ![c] = PlaceOf(place)]
<1>1. /\ cpc' \in [Consumers -> Drawing \cup Seeking]
      /\ cpc'[c] = place /\ \A d \in Consumers \ {c} : cpc'[d] = cpc[d]
  BY DEF Begun
<1>2. Places' = [d \in Consumers |-> PlaceOf(cpc'[d])]
  BY DEF Places
<1> QED
  BY <1>1, <1>2 DEF Places

\* The places a drawing consumer goes to.
LEMMA DrawPlaces ==
  ASSUME NEW c \in Consumers, Draw(c)
  PROVE  \E place \in Drawing \cup Seeking : cpc' = [cpc EXCEPT ![c] = place]
<1>1. CASE LoadOvercommit(c)
  BY <1>1 DEF LoadOvercommit, Goto, Drawing
<1>2. CASE Look(c)
  BY <1>2 DEF Look, Goto, Drawing
<1>3. CASE Claim(c)
  BY <1>3 DEF Claim, Goto, Drawing
<1>4. CASE Recheck(c)
  BY <1>4 DEF Recheck, Goto, Drawing
<1>5. CASE HandBack(c)
  BY <1>5 DEF HandBack, Goto, Drawing
<1>6. CASE Advance(c)
  BY <1>6 DEF Advance, Goto, Seeking
<1>7. ASSUME NEW max \in Amounts, LoadTail(c, max) PROVE cpc' = [cpc EXCEPT ![c] = "loadOver"]
  BY <1>7 DEF LoadTail, Goto
<1> QED
  BY <1>1, <1>2, <1>3, <1>4, <1>5, <1>6, <1>7 DEF Draw, Drawing

\* A consumer step leaves the producer and the others alone.
LEMMA ConsumerFrame ==
  ASSUME NEW c \in Consumers, Consume(c)
  PROVE  /\ UNCHANGED <<tailIndex, headers, key, producerVars>>
         /\ \E place \in Drawing \cup Seeking : cpc' = [cpc EXCEPT ![c] = place]
<1>1. CASE DrawTickets(c)
  <2>1. UNCHANGED tailIndex
    BY <1>1 DEF DrawTickets, Draw, LoadOvercommit, Look, Claim, Recheck, HandBack, Advance,
                LoadTail, counters
  <2> QED
    BY <1>1, <2>1, DrawPlaces DEF DrawTickets, indexVars
<1>2. CASE Locate(c)
  BY <1>2 DEF Locate, counters, indexVars, Seeking
<1>3. CASE ReadBase(c)
  BY <1>3 DEF ReadBase, counters, indexVars, Seeking
<1>4. CASE Take(c)
  BY <1>4 DEF Take, DoneWithBlock, Goto, counters, indexVars, Seeking, Drawing
<1>5. CASE Forget(c)
  BY <1>5 DEF Forget, counters, Seeking
<1>6. CASE Release(c)
  BY <1>6 DEF Release, DoneWithBlock, Goto, counters, indexVars, Seeking, Drawing
<1> QED
  BY <1>1, <1>2, <1>3, <1>4, <1>5, <1>6 DEF Consume

-----------------------------------------------------------------------------
LEMMA OldFacts ==
  ASSUME Begun
  PROVE  /\ Old \in Int /\ Old >= -1 /\ Top \in Int /\ Old <= Top
         /\ Len(op.chain) \in Nat /\ op.chain \in Seq(Blocks)
         /\ ppc # "block" => Top = Old + Len(op.chain)
         /\ ppc = "block" => Top = Old + Len(op.chain) + 1
<1>1. tailIndex - 1 \in Int /\ tailIndex - 1 >= -1
  BY DEF Begun
<1>2. Nth(-1) <= -1
  BY NthFacts, ImplicitAssumption DEF ImplicitAssumption
<1>3. Old \in Int /\ Old >= -1
  <2>1. Num(tailIndex - 1) \in Int
    BY <1>1, NumFacts
  <2>2. ~(tailIndex - 1 < Nth(-1))
    BY <1>1, <1>2, NthFacts
  <2>3. ~(Num(tailIndex - 1) < -1)
    BY <1>1, <2>2, NumIs
  <2> QED
    BY <2>1, <2>3 DEF Old
<1>4. Len(op.chain) \in Nat /\ op.chain \in Seq(Blocks)
  BY DEF Begun, IsOp
<1>5. CASE ppc = "block"
  <2>1. Top = Old + Len(op.chain) + 1
    BY <1>5 DEF Top
  <2> QED
    BY <1>3, <1>4, <1>5, <2>1
<1>6. CASE ppc # "block"
  <2>1. Top = Old + Len(op.chain) + 0
    BY <1>6 DEF Top
  <2> QED
    BY <1>3, <1>4, <1>6, <2>1
<1> QED
  BY <1>5, <1>6

\* The call goes on to the next block, or has all its blocks.
LEMMA NextOrFill ==
  ASSUME tailIndex \in Nat, NEW o, IsOp(o), o.count \in Amounts, o.start = tailIndex,
         o.base = Nth(Old + Len(o.chain) + 1), Nth(Old + Len(o.chain)) < o.start + o.count
  PROVE  \/ AllocOrFill(o) = "index" /\ o.base < o.start + o.count
         \/ AllocOrFill(o) = "fill" /\ Num(o.start + o.count - 1) = Old + Len(o.chain)
<1> DEFINE last == o.start + o.count - 1
           n == Old + Len(o.chain)
<1>1. last \in Int /\ n \in Int /\ o.start \in Int /\ o.count \in Int
  <2>1. tailIndex - 1 \in Int
    OBVIOUS
  <2>2. Old \in Int
    BY <2>1, NumFacts DEF Old
  <2>3. o.count \in Nat
    BY AmountsPositive
  <2> QED
    BY <2>2, <2>3 DEF IsOp
<1>2. Nth(n) \in Int /\ o.base = Nth(n) + BlockSize /\ BlockSize \in Int
  <2>1. o.base = Nth(n + 1)
    OBVIOUS
  <2> HIDE DEF n
  <2>2. Nth(n) \in Int /\ Nth(n) + BlockSize = Nth(n + 1)
    BY <1>1, NthFacts
  <2> QED
    BY <2>1, <2>2, ImplicitAssumption DEF ImplicitAssumption
<1>3. CASE o.base < o.start + o.count
  BY <1>3 DEF AllocOrFill
<1>4. CASE ~(o.base < o.start + o.count)
  <2>1. Nth(n) < o.start + o.count
    OBVIOUS
  <2> HIDE DEF n
  <2>2. Nth(n) <= last /\ last < Nth(n) + BlockSize
    BY <1>1, <1>2, <1>4, <2>1
  <2> HIDE DEF last
  <2>3. Num(last) = n
    BY <1>1, <2>2, NumIs
  <2> QED
    BY <1>4, <2>3 DEF AllocOrFill, n, last
<1> QED
  BY <1>3, <1>4

LEMMA LeastBlock ==
  ASSUME NEW S, S \subseteq Nat, S # {}
  PROVE  Min(S) \in S /\ \A b \in S : Min(S) <= b
<1>1. \E x \in S : \A y \in S : x <= y
  <2>1. IsWellFoundedOn(OpToRel(<, Nat), Nat)
    BY NatLessThanWellFounded
  <2>2. PICK x \in S : \A y \in S : ~ (<<y, x>> \in OpToRel(<, Nat))
    BY <2>1, WFMin, Zenon
  <2>3. \A y \in S : ~ (y < x)
    BY <2>2 DEF OpToRel
  <2> QED
    BY <2>3
<1> QED
  BY <1>1 DEF Min

LEMMA FreeBlock ==
  ASSUME Free # {}
  PROVE  Min(Free) \in Blocks /\ pool[Min(Free)] > 0
<1>1. Free \subseteq Blocks /\ Blocks \subseteq Nat
  BY ImplicitAssumption DEF Free, ImplicitAssumption
<1>2. Min(Free) \in Free
  BY <1>1, LeastBlock
<1> QED
  BY <1>2 DEF Free

-----------------------------------------------------------------------------
LEMMA InitBegun == ImplicitInit => Begun
BY DEF ImplicitInit, TicketsInit, Begun, Busy, Drawing, Seeking, IsOp, NoOp

LEMMA EnqueueBegun ==
  ASSUME Begun, NEW n \in Amounts, Enqueue(n)
  PROVE  /\ Begun' /\ Top' = Top /\ Old' = Old /\ Top = Old
         /\ ppc = "idle" /\ ppc' \in {"index", "fill"} /\ op'.chain = <<>> /\ op'.count = n
<1> DEFINE o == [NoOp EXCEPT !.start = tailIndex, !.count = n,
                             !.base = Base(tailIndex - 1) + BlockSize]
<1>0. n \in Nat \ {0} /\ tailIndex \in Nat
  BY AmountsPositive DEF Begun
<1>1. /\ op' = o /\ ppc' = AllocOrFill(o) /\ ppc = "idle" /\ op = NoOp
      /\ UNCHANGED <<tailIndex, cpc>>
  BY DEF Enqueue, ticketVars, counters, Begun, Busy
<1>2. PICK base : base = Base(tailIndex - 1) + BlockSize
  OBVIOUS
<1>10. PICK none : none = NoOp
  OBVIOUS
<1>11. o = [none EXCEPT !.start = tailIndex, !.count = n, !.base = base]
  BY <1>2, <1>10
<1> HIDE DEF o
<1>3. IsOp(o) /\ o.start = tailIndex /\ o.count = n /\ o.base = base /\ Len(o.chain) = 0
  <2>1. /\ DOMAIN none = {"start", "count", "chain", "base", "entry", "undo"}
        /\ none.chain = <<>>
    BY <1>10 DEF NoOp
  <2>2. /\ DOMAIN o = {"start", "count", "chain", "base", "entry", "undo"}
        /\ o.start = tailIndex /\ o.count = n /\ o.base = base /\ o.chain = <<>>
    BY <1>11, <2>1
  <2>3. <<>> \in Seq(Blocks) /\ Len(<<>>) = 0
    OBVIOUS
  <2> QED
    BY <2>2, <2>3 DEF IsOp
<1>4. Old \in Int /\ o.base = Nth(Old + 1) /\ Nth(Old) < tailIndex + n
  <2>1. tailIndex - 1 \in Int
    BY <1>0
  <2>2. Base(tailIndex - 1) = Nth(Old) /\ Old \in Int
    BY <2>1, NumFacts DEF Old
  <2>3. Nth(Old) + BlockSize = Nth(Old + 1) /\ Nth(Old) \in Int
    BY <2>2, NthFacts
  <2>4. Nth(Old) <= tailIndex - 1
    BY <2>1, <2>2, NumIs DEF Old
  <2> QED
    BY <1>0, <1>2, <1>3, <2>2, <2>3, <2>4
<1>5. \/ AllocOrFill(o) = "index" /\ o.base < o.start + o.count
      \/ AllocOrFill(o) = "fill" /\ Num(o.start + o.count - 1) = Old + Len(o.chain)
  <2>1. Old + Len(o.chain) = Old /\ Old + Len(o.chain) + 1 = Old + 1
    BY <1>3, <1>4
  <2>2. o.base = Nth(Old + Len(o.chain) + 1) /\ Nth(Old + Len(o.chain)) < o.start + o.count
    BY <1>3, <1>4, <2>1
  <2> QED
    BY <1>0, <1>3, <2>2, NextOrFill
<1>6. Old' = Old /\ Len(op.chain) = 0
  BY <1>1 DEF Old, NoOp
<1>7. o.base = Nth(Old + Len(o.chain) + 1)
  BY <1>3, <1>4
<1>8. ppc' \in {"index", "fill"}
  BY <1>1, <1>5
<1>9. Begun'
  BY <1>0, <1>1, <1>3, <1>5, <1>6, <1>7, <1>8 DEF Begun, Busy
<1>12. o.chain = <<>>
  BY <1>3, EmptySeq DEF IsOp
<1> QED
  BY <1>1, <1>3, <1>4, <1>6, <1>8, <1>9, <1>12 DEF Top

\* A call that ends or fails.
LEMMA FailBegun ==
  ASSUME Begun, Fail, ppc \in Busy, UNCHANGED <<tailIndex, cpc>>
  PROVE  Begun' /\ Old' = Old /\ op' = [op EXCEPT !.undo = 1] /\ op'.chain = op.chain
         /\ Top' = Old + Len(op.chain) /\ ppc' = "undo" /\ op'.undo = 1
<1>1. op' = [op EXCEPT !.undo = 1] /\ ppc' = "undo"
  BY DEF Fail
<1>2. IsOp(op)' /\ op'.chain = op.chain /\ op'.count = op.count /\ op'.start = op.start /\ op'.undo = 1
  BY <1>1 DEF Begun, IsOp
<1>3. Old' = Old
  BY DEF Old
<1>4. Len(op.chain) \in Nat /\ Old \in Int
  BY OldFacts
<1>5. Begun'
  BY <1>1, <1>2, <1>3, <1>4 DEF Begun, Busy
<1> QED
  BY <1>1, <1>2, <1>3, <1>4, <1>5 DEF Top

\* How the other steps of the producer change its call.
LEMMA GrowFrame ==
  ASSUME Begun, GrowIndex
  PROVE  Begun' /\ Old' = Old /\ op' = op /\ ppc' = ppc /\ ppc = "index" /\ Top' = Top
<1>1. UNCHANGED <<tailIndex, cpc, ppc, op>> /\ ppc = "index"
  BY DEF GrowIndex, ticketVars, counters, producerVars
<1>2. Old' = Old
  BY <1>1 DEF Old
<1> QED
  BY <1>1, <1>2 DEF Begun, Top

LEMMA InsertFrame ==
  ASSUME Begun, InsertEntry
  PROVE  /\ Begun' /\ Old' = Old /\ ppc' = "block" /\ ppc = "index" /\ Top' = Top + 1
         /\ op' = [op EXCEPT !.entry = NextEntry] /\ op'.chain = op.chain /\ op'.entry = NextEntry
<1>1. /\ UNCHANGED <<tailIndex, cpc>> /\ ppc' = "block" /\ ppc = "index"
      /\ op' = [op EXCEPT !.entry = NextEntry]
  BY DEF InsertEntry, ticketVars, counters
<1>2. /\ IsOp(op)' /\ op'.chain = op.chain /\ op'.count = op.count /\ op'.start = op.start
      /\ op'.base = op.base /\ op'.undo = op.undo /\ op'.entry = NextEntry
  BY <1>1 DEF Begun, IsOp
<1>3. Old' = Old
  BY <1>1 DEF Old
<1>4. Begun'
  BY <1>1, <1>2, <1>3 DEF Begun, Busy
<1> QED
  BY <1>1, <1>2, <1>3, <1>4, OldFacts DEF Top

LEMMA GetFrame ==
  ASSUME Begun, GetBlock
  PROVE  /\ Begun' /\ Old' = Old /\ ppc' = "store" /\ ppc = "block" /\ Top' = Top
         /\ Min(Free) \in Blocks /\ pool[Min(Free)] > 0
         /\ op'.chain = Append(op.chain, Min(Free)) /\ op'.entry = op.entry
<1>1. /\ UNCHANGED <<tailIndex, cpc>> /\ ppc' = "store" /\ ppc = "block" /\ Free # {}
      /\ op' = [op EXCEPT !.chain = Append(@, Min(Free))]
  BY DEF GetBlock, ticketVars, counters
<1>2. Min(Free) \in Blocks /\ pool[Min(Free)] > 0
  BY <1>1, FreeBlock
<1>3. op.chain \in Seq(Blocks) /\ Len(op.chain) \in Nat
  BY OldFacts
<1>4. /\ Append(op.chain, Min(Free)) \in Seq(Blocks)
      /\ Len(Append(op.chain, Min(Free))) = Len(op.chain) + 1
      /\ Append(op.chain, Min(Free)) # <<>>
  BY <1>2, <1>3, AppendProperties
<1>5. /\ IsOp(op)' /\ op'.chain = Append(op.chain, Min(Free)) /\ op'.count = op.count
      /\ op'.start = op.start /\ op'.base = op.base /\ op'.undo = op.undo /\ op'.entry = op.entry
  BY <1>1, <1>4 DEF Begun, IsOp
<1>6. Old' = Old
  BY <1>1 DEF Old
<1>7. Begun'
  <2>1. Old + Len(op.chain) + 1 = Old + Len(op'.chain)
    BY <1>3, <1>4, <1>5, OldFacts
  <2> QED
    BY <1>1, <1>4, <1>5, <1>6, <2>1 DEF Begun, Busy
<1> QED
  BY <1>1, <1>2, <1>3, <1>4, <1>5, <1>6, <1>7, OldFacts DEF Top

LEMMA StoreFrame ==
  ASSUME Begun, StoreBlock
  PROVE  /\ Begun' /\ Old' = Old /\ ppc' \in {"index", "fill"} /\ ppc = "store" /\ Top' = Top
         /\ op'.chain = op.chain /\ Len(op.chain) > 0 /\ op'.undo = op.undo
<1> DEFINE o == [op EXCEPT !.base = @ + BlockSize]
<1>1. /\ UNCHANGED <<tailIndex, cpc>> /\ ppc' = AllocOrFill(o) /\ ppc = "store" /\ op' = o
  BY DEF StoreBlock, ticketVars, counters
<1>2. /\ IsOp(o) /\ o.chain = op.chain /\ o.count = op.count /\ o.start = op.start
      /\ o.base = op.base + BlockSize /\ o.undo = op.undo
  BY DEF Begun, IsOp
<1>3. /\ tailIndex \in Nat /\ op.count \in Amounts /\ op.start = tailIndex
      /\ op.base = Nth(Old + Len(op.chain)) /\ op.base < op.start + op.count
      /\ op.chain # <<>>
  BY <1>1 DEF Begun, Busy
<1>4. Old \in Int /\ op.chain \in Seq(Blocks) /\ Len(op.chain) \in Nat
  BY OldFacts
<1>5. Len(op.chain) > 0
  BY <1>3, <1>4
<1>6. op.base + BlockSize = Nth(Old + Len(op.chain) + 1)
  <2>1. Old + Len(op.chain) \in Int
    BY <1>4
  <2> QED
    BY <1>3, <2>1, NthFacts
<1> HIDE DEF o
<1>7. /\ o.count \in Amounts /\ o.start = tailIndex /\ o.base = Nth(Old + Len(o.chain) + 1)
      /\ Nth(Old + Len(o.chain)) < o.start + o.count
  BY <1>2, <1>3, <1>6
<1>8. \/ AllocOrFill(o) = "index" /\ o.base < o.start + o.count
      \/ AllocOrFill(o) = "fill" /\ Num(o.start + o.count - 1) = Old + Len(o.chain)
  BY <1>2, <1>3, <1>7, NextOrFill
<1>9. Old' = Old
  BY <1>1 DEF Old
<1>10. ppc' \in {"index", "fill"}
  BY <1>1, <1>8
<1>11. Begun'
  BY <1>1, <1>2, <1>7, <1>8, <1>9, <1>10 DEF Begun, Busy
<1> QED
  BY <1>1, <1>2, <1>5, <1>9, <1>10, <1>11, OldFacts DEF Top

LEMMA FillFrame ==
  ASSUME Begun, Fill
  PROVE  /\ Begun' /\ ppc' = "idle" /\ ppc = "fill" /\ op' = NoOp /\ Top' = Top
         /\ Old' = Old + Len(op.chain) /\ op.count \in Nat \ {0} /\ op.start = tailIndex
         /\ tailIndex' = tailIndex + op.count
<1>1. /\ UNCHANGED cpc /\ ppc' = "idle" /\ ppc = "fill" /\ op' = NoOp
      /\ tailIndex' = tailIndex + op.count
  BY DEF Fill, Publish
<1>2. /\ op.count \in Nat \ {0} /\ op.start = tailIndex /\ tailIndex \in Nat
      /\ Num(op.start + op.count - 1) = Old + Len(op.chain)
  BY <1>1, AmountsPositive DEF Begun, Busy
<1>3. tailIndex + op.count - 1 = op.start + op.count - 1
  BY <1>2
<1>4. Old' = Old + Len(op.chain)
  BY <1>1, <1>2, <1>3 DEF Old
<1>5. IsOp(NoOp) /\ Len(NoOp.chain) = 0
  BY DEF IsOp, NoOp
<1>6. Begun'
  BY <1>1, <1>2, <1>5 DEF Begun, Busy
<1> QED
  BY <1>1, <1>2, <1>4, <1>5, <1>6, OldFacts DEF Top

LEMMA UndoFrame ==
  ASSUME Begun, UndoEntry
  PROVE  /\ Begun' /\ ppc' = "undo" /\ ppc = "undo" /\ Top' = Top /\ Old' = Old
         /\ op'.chain = op.chain /\ op'.undo = op.undo + 1 /\ op.undo \in 1..Len(op.chain)
         /\ op.start = tailIndex
<1>1. /\ UNCHANGED <<tailIndex, cpc>> /\ ppc' = "undo" /\ ppc = "undo"
      /\ op' = [op EXCEPT !.undo = @ + 1] /\ op.undo <= Len(op.chain)
  BY DEF UndoEntry, ticketVars, counters
<1>2. /\ IsOp(op)' /\ op'.chain = op.chain /\ op'.count = op.count /\ op'.start = op.start
      /\ op'.undo = op.undo + 1
  BY <1>1 DEF Begun, IsOp
<1>3. Old' = Old
  BY <1>1 DEF Old
<1>4. op.undo \in 1..Len(op.chain) /\ op.start = tailIndex
  BY <1>1, OldFacts DEF Begun, Busy
<1>5. Begun'
  BY <1>1, <1>2, <1>3, <1>4, OldFacts DEF Begun, Busy
<1> QED
  BY <1>1, <1>2, <1>3, <1>4, <1>5 DEF Top

LEMMA UndoneFrame ==
  ASSUME Begun, UndoDone
  PROVE  /\ Begun' /\ ppc' = "idle" /\ ppc = "undo" /\ Top' = Old /\ Old' = Old
         /\ op' = NoOp /\ op.undo = Len(op.chain) + 1
<1>1. /\ UNCHANGED <<tailIndex, cpc>> /\ ppc' = "idle" /\ ppc = "undo" /\ op' = NoOp
      /\ op.undo > Len(op.chain)
  BY DEF UndoDone, ticketVars, counters
<1>2. op.undo \in 1..Len(op.chain) + 1
  BY <1>1 DEF Begun
<1>3. Old' = Old
  BY <1>1 DEF Old
<1>4. IsOp(NoOp) /\ Len(NoOp.chain) = 0
  BY DEF IsOp, NoOp
<1>5. Begun'
  BY <1>1, <1>4 DEF Begun, Busy
<1> QED
  BY <1>1, <1>2, <1>3, <1>4, <1>5, OldFacts DEF Top

LEMMA ConsumerKeepsCall ==
  ASSUME Begun, NEW c \in Consumers, Consume(c)
  PROVE  Begun' /\ Old' = Old /\ op' = op /\ ppc' = ppc /\ Top' = Top
<1>1. UNCHANGED <<tailIndex, op, ppc>>
  BY ConsumerFrame DEF producerVars
<1>2. PICK place \in Drawing \cup Seeking : cpc' = [cpc EXCEPT ![c] = place]
  BY ConsumerFrame
<1>3. cpc' \in [Consumers -> Drawing \cup Seeking]
  BY <1>2, GoesTo
<1>4. Old' = Old
  BY <1>1 DEF Old
<1> QED
  BY <1>1, <1>3, <1>4 DEF Begun, Top

LEMMA StepBegun == Begun /\ [ImplicitNext]_implicitVars => Begun'
<1> SUFFICES ASSUME Begun, [ImplicitNext]_implicitVars PROVE Begun'
  OBVIOUS
<1>1. ASSUME NEW n \in Amounts, Enqueue(n) PROVE Begun'
  BY <1>1, EnqueueBegun
<1>2. CASE Produce
  <2>1. CASE GrowFails \/ GetBlockFails \/ FillThrows
    <3>1. Fail /\ ppc \in Busy /\ UNCHANGED <<tailIndex, cpc>>
      BY <2>1 DEF GrowFails, GetBlockFails, FillThrows, Busy, ticketVars, counters
    <3> QED
      BY <3>1, FailBegun
  <2> QED
    BY <1>2, <2>1, GrowFrame, InsertFrame, GetFrame, StoreFrame, FillFrame, UndoFrame, UndoneFrame
       DEF Produce
<1>3. ASSUME NEW c \in Consumers, Consume(c) PROVE Begun'
  BY <1>3, ConsumerKeepsCall
<1>4. CASE Destroy
  <2>1. UNCHANGED <<tailIndex, op, cpc>> /\ ppc = "idle" /\ ppc' = "destroyed"
    BY <1>4 DEF Destroy, ticketVars, counters
  <2> QED
    BY <2>1 DEF Begun, Busy, Old
<1>5. CASE UNCHANGED implicitVars
  <2>1. UNCHANGED <<tailIndex, op, cpc, ppc>>
    BY <1>5 DEF implicitVars, producerVars, ticketVars, counters
  <2> QED
    BY <2>1 DEF Begun, Old
<1> QED
  BY <1>1, <1>2, <1>3, <1>4, <1>5 DEF ImplicitNext, Consuming

-----------------------------------------------------------------------------
(* What the consumers do with the counters is what Tickets says. *)

LEMMA InitTickets == ImplicitInit => TP!TicketsInit
BY DEF ImplicitInit, TicketsInit, TP!TicketsInit, Places, PlaceOf, Seeking, Blank, TP!Blank

\* A consumer that goes on from one place to another of the same name in Tickets.
LEMMA SamePlace ==
  ASSUME Begun, NEW c \in Consumers, NEW place \in Seeking, cpc[c] \in Seeking,
         cpc' = [cpc EXCEPT ![c] = place], UNCHANGED <<counters, my>>
  PROVE  UNCHANGED TP!ticketVars
<1>1. Places' = [Places EXCEPT ![c] = PlaceOf(place)]
  BY GoesTo
<1>2. PlaceOf(place) = "locate" /\ Places[c] = "locate" /\ Places \in [Consumers -> {PlaceOf(cpc[d]) : d \in Consumers}]
  BY DEF Places, PlaceOf
<1>3. Places' = Places
  BY <1>1, <1>2
<1> QED
  BY <1>3 DEF TP!ticketVars, TP!counters, counters

LEMMA DrawIsDraw ==
  ASSUME Begun, NEW c \in Consumers, Draw(c)
  PROVE  TP!Draw(c)
<1>1. PICK place \in Drawing \cup Seeking : cpc' = [cpc EXCEPT ![c] = place]
  BY DrawPlaces
<1>2. /\ Places' = [Places EXCEPT ![c] = PlaceOf(place)] /\ cpc'[c] = place
      /\ Places[c] = PlaceOf(cpc[c])
  BY <1>1, GoesTo DEF Places
<1>3. \A q \in Drawing : PlaceOf(q) = q
  BY DEF PlaceOf, Drawing, Seeking
<1>4. \A q : Goto(c, q, my'[c]) /\ q \in Drawing \cup {"locate"} => Places' = [Places EXCEPT ![c] = q]
  <2> SUFFICES ASSUME NEW q \in Drawing \cup {"locate"}, cpc' = [cpc EXCEPT ![c] = q]
               PROVE  Places' = [Places EXCEPT ![c] = q]
    BY DEF Goto
  <2>1. cpc'[c] = q
    BY DEF Begun
  <2> QED
    BY <1>2, <1>3, <2>1 DEF PlaceOf, Seeking
<1>5. ASSUME NEW q \in Drawing \cup {"locate"}, NEW m, Goto(c, q, m) PROVE TP!Goto(c, q, m)
  <2>1. cpc'[c] = q
    BY <1>5 DEF Goto, Begun
  <2>2. PlaceOf(q) = q
    BY <1>3 DEF PlaceOf, Seeking
  <2> QED
    BY <1>2, <1>5, <2>1, <2>2 DEF Goto, TP!Goto
<1>6. \A q \in Drawing : cpc[c] = q => Places[c] = q
  BY <1>2, <1>3
<1>7. CASE LoadOvercommit(c)
  BY <1>5, <1>6, <1>7 DEF LoadOvercommit, TP!LoadOvercommit, TP!Draw, Drawing, counters, TP!counters
<1>8. CASE Look(c)
  BY <1>5, <1>6, <1>8 DEF Look, TP!Look, TP!Draw, Drawing, counters, TP!counters, Blank, TP!Blank,
                          Min2, TP!Min2
<1>9. CASE Claim(c)
  BY <1>5, <1>6, <1>9 DEF Claim, TP!Claim, TP!Draw, Drawing
<1>10. CASE Recheck(c)
  BY <1>5, <1>6, <1>10 DEF Recheck, TP!Recheck, TP!Draw, Drawing, counters, TP!counters, Actual,
                           TP!Actual, Min2, Max2, TP!Min2, TP!Max2
<1>11. CASE HandBack(c)
  BY <1>5, <1>6, <1>11 DEF HandBack, TP!HandBack, TP!Draw, Drawing, Blank, TP!Blank
<1>12. CASE Advance(c)
  BY <1>5, <1>6, <1>12 DEF Advance, TP!Advance, TP!Draw, Drawing
<1>13. ASSUME NEW max \in Amounts, LoadTail(c, max) PROVE TP!Draw(c)
  <2>1. TP!LoadTail(c, max)
    BY <1>5, <1>6, <1>13 DEF LoadTail, TP!LoadTail, Drawing, counters, TP!counters
  <2> QED
    BY <2>1 DEF TP!Draw
<1> QED
  BY <1>7, <1>8, <1>9, <1>10, <1>11, <1>12, <1>13 DEF Draw

\* A consumer that is done with a block has more of them, or returns.
LEMMA DoneIsReturn ==
  ASSUME Begun, NEW c \in Consumers, NEW a, cpc[c] \in Seeking, DoneWithBlock(c, a),
         UNCHANGED counters
  PROVE  [TP!Return(c)]_TP!ticketVars
<1>1. CASE a.next < End(c)
  <2>1. cpc' = [cpc EXCEPT ![c] = "take"] /\ UNCHANGED my
    BY <1>1 DEF DoneWithBlock
  <2> QED
    BY <2>1, SamePlace DEF Seeking
<1>2. CASE ~(a.next < End(c))
  <2>1. Goto(c, "idle", Blank)
    BY <1>2 DEF DoneWithBlock
  <2>2. cpc' = [cpc EXCEPT ![c] = "idle"] /\ my' = [my EXCEPT ![c] = Blank]
    BY <2>1 DEF Goto
  <2>3. Places' = [Places EXCEPT ![c] = PlaceOf("idle")]
    BY <2>2, GoesTo DEF Drawing
  <2>4. PlaceOf("idle") = "idle" /\ Places[c] = "locate"
    BY DEF Places, PlaceOf, Seeking
  <2> QED
    BY <2>2, <2>3, <2>4 DEF TP!Return, TP!Goto, Blank, TP!Blank, counters, TP!counters
<1> QED
  BY <1>1, <1>2

LEMMA StepTickets ==
  ASSUME Begun, [ImplicitNext]_implicitVars
  PROVE  [TP!TicketsNext]_TP!ticketVars
<1>1. ASSUME UNCHANGED ticketVars PROVE UNCHANGED TP!ticketVars
  BY <1>1 DEF ticketVars, counters, TP!ticketVars, TP!counters, Places
<1>2. ASSUME NEW n \in Amounts, Enqueue(n) PROVE UNCHANGED ticketVars
  BY <1>2 DEF Enqueue
<1>3. CASE Produce
  <2>1. CASE Fill
    <3>1. ppc = "fill" /\ Publish(op.count)
      BY <2>1 DEF Fill
    <3>2. op.count \in Amounts
      BY <3>1 DEF Begun, Busy
    <3>3. TP!Publish(op.count)
      BY <3>1 DEF Publish, TP!Publish, Places
    <3> QED
      BY <3>2, <3>3 DEF TP!TicketsNext
  <2>2. CASE ~Fill
    BY <1>1, <1>3, <2>2 DEF Produce, GrowIndex, GrowFails, InsertEntry, GetBlock, GetBlockFails,
                            StoreBlock, FillThrows, UndoEntry, UndoDone
  <2> QED
    BY <2>1, <2>2
<1>4. ASSUME NEW c \in Consumers, Consume(c) PROVE [TP!TicketsNext]_TP!ticketVars
  <2>1. CASE DrawTickets(c)
    BY <2>1, DrawIsDraw DEF DrawTickets, TP!TicketsNext
  <2>2. CASE Locate(c)
    BY <2>2, SamePlace DEF Locate, Seeking
  <2>3. CASE ReadBase(c)
    BY <2>3, SamePlace DEF ReadBase, Seeking
  <2>4. CASE Forget(c)
    BY <2>4, SamePlace DEF Forget, Seeking
  <2>5. CASE Take(c)
    <3> DEFINE b == value[EntryOf(c)]
               a == [at[c] EXCEPT !.next = Max(Batch(c)) + 1, !.block = b]
    <3>1. cpc[c] = "take" /\ UNCHANGED counters
      BY <2>5 DEF Take
    <3>2. CASE SetEmpty(b, Cardinality(Batch(c)))
      BY <2>5, <3>1, <3>2, SamePlace DEF Take, Seeking
    <3>3. CASE ~SetEmpty(b, Cardinality(Batch(c)))
      <4>1. DoneWithBlock(c, a)
        BY <2>5, <3>3 DEF Take
      <4> HIDE DEF a
      <4> QED
        BY <3>1, <4>1, DoneIsReturn DEF Seeking, TP!TicketsNext
    <3> QED
      BY <3>2, <3>3
  <2>6. CASE Release(c)
    <3>1. cpc[c] = "release" /\ UNCHANGED counters
      BY <2>6 DEF Release
    <3>2. PICK a : DoneWithBlock(c, a)
      BY <2>6 DEF Release
    <3> QED
      BY <3>1, <3>2, DoneIsReturn DEF Seeking, TP!TicketsNext
  <2> QED
    BY <1>4, <2>1, <2>2, <2>3, <2>4, <2>5, <2>6 DEF Consume
<1>5. CASE Destroy
  BY <1>1, <1>5 DEF Destroy
<1>6. CASE UNCHANGED implicitVars
  BY <1>1, <1>6 DEF implicitVars
<1> QED
  BY <1>1, <1>2, <1>3, <1>4, <1>5, <1>6 DEF ImplicitNext, Consuming

\* The consumers of a real producer, which look for blocks, take their elements and
\* return them to the pool, share out the elements as Tickets says.
THEOREM ProducerSharesByTickets == ImplicitSpec => TP!TicketsSpec
<1>1. ImplicitInit => Begun /\ TP!TicketsInit
  BY InitBegun, InitTickets
<1>2. Begun /\ [ImplicitNext]_implicitVars => Begun'
  BY StepBegun
<1>3. Begun /\ [ImplicitNext]_implicitVars => [TP!TicketsNext]_TP!ticketVars
  BY StepTickets
<1> QED
  BY <1>1, <1>2, <1>3, PTL DEF ImplicitSpec, TP!TicketsSpec

\* No consumer of a producer is given an element that has not been added.
THEOREM ElementsWereAdded == ImplicitSpec => []HeadBehindTail
<1>1. TP!TicketsSpec => []TP!HeadBehindTail
  BY TicketsAssumed, TP!NeverPastTail
<1>2. TP!HeadBehindTail => HeadBehindTail
  BY DEF HeadBehindTail, TP!HeadBehindTail
<1> QED
  BY <1>1, <1>2, ProducerSharesByTickets, PTL

-----------------------------------------------------------------------------
(***************************************************************************)
(* The ring of entries.  Entry EntryAt(n) is the one for block n, counted  *)
(* from the tail: the entries of the blocks in the Window are all there    *)
(* are, and each has another.  GrowIndex keeps them where they are.        *)
(***************************************************************************)
Header == {h \in [capacity : Nat \ {0}, tail : Nat, index : UNION {[0..n - 1 -> Nat] : n \in Nat}] :
             h.tail < h.capacity /\ DOMAIN h.index = 0..h.capacity - 1}

Ring == Current.capacity
Alive(e) == value[e] # NoBlock

\* The block whose entry the tail is at.
TailNum == Top - (IF ppc = "undo" THEN op.undo - 1 ELSE 0)
EntryAt(n) == Current.index[(Current.tail + (n - TailNum)) % Ring]
Window == Top - Ring + 1..Top

RingTyped ==
  /\ headers \in Seq(Header) /\ headers # <<>>
  /\ key \in [0..Ring - 1 -> Nat \cup {INVALID_BLOCK_BASE}]
  /\ value \in [0..Ring - 1 -> Blocks \cup {NoBlock}]
  /\ \A h \in DOMAIN headers : \A p \in DOMAIN headers[h].index : headers[h].index[p] < Ring
  /\ \A p, q \in 0..Ring - 1 : Current.index[p] = Current.index[q] => p = q
  /\ \A e \in 0..Ring - 1 : \E p \in 0..Ring - 1 : Current.index[p] = e

LEMMA HeadersTyped ==
  ASSUME RingTyped
  PROVE  /\ Len(headers) \in Nat \ {0} /\ DOMAIN headers = 1..Len(headers)
         /\ \A h \in 1..Len(headers) :
              /\ headers[h] \in Header
              /\ headers[h].capacity \in Nat \ {0} /\ headers[h].tail \in 0..headers[h].capacity - 1
              /\ DOMAIN headers[h].index = 0..headers[h].capacity - 1
              /\ \A p \in 0..headers[h].capacity - 1 : headers[h].index[p] \in 0..Ring - 1
         /\ Ring \in Nat \ {0} /\ Current.tail \in 0..Ring - 1
         /\ DOMAIN Current.index = 0..Ring - 1
         /\ \A p \in 0..Ring - 1 : Current.index[p] \in 0..Ring - 1
<1>1. /\ Len(headers) \in Nat \ {0} /\ DOMAIN headers = 1..Len(headers)
      /\ \A h \in 1..Len(headers) : headers[h] \in Header
  <2>1. Len(headers) \in Nat /\ DOMAIN headers = 1..Len(headers) /\ Len(headers) # 0
    BY EmptySeq, LenProperties DEF RingTyped
  <2>2. \A h \in 1..Len(headers) : headers[h] \in Header
    BY <2>1, ElementOfSeq DEF RingTyped
  <2> QED
    BY <2>1, <2>2
<1>2. ASSUME NEW h \in 1..Len(headers)
      PROVE  /\ headers[h].capacity \in Nat \ {0} /\ headers[h].tail \in 0..headers[h].capacity - 1
             /\ DOMAIN headers[h].index = 0..headers[h].capacity - 1
             /\ \A p \in 0..headers[h].capacity - 1 : headers[h].index[p] \in 0..Ring - 1
  <2>1. headers[h] \in Header /\ h \in DOMAIN headers
    BY <1>1
  <2>2. /\ headers[h].capacity \in Nat \ {0} /\ headers[h].tail \in Nat
        /\ headers[h].tail < headers[h].capacity /\ DOMAIN headers[h].index = 0..headers[h].capacity - 1
        /\ headers[h].index \in UNION {[0..n - 1 -> Nat] : n \in Nat}
    BY <2>1 DEF Header
  <2>3. \A p \in DOMAIN headers[h].index : headers[h].index[p] \in Nat /\ headers[h].index[p] < Ring
    <3>1. \A p \in DOMAIN headers[h].index : headers[h].index[p] < Ring
      BY <1>1, <2>1 DEF RingTyped
    <3>2. PICK n \in Nat : headers[h].index \in [0..n - 1 -> Nat]
      BY <2>2
    <3>3. \A p \in DOMAIN headers[h].index : headers[h].index[p] \in Nat
      BY <3>2
    <3> QED
      BY <3>1, <3>3
  <2>4. Ring \in Nat \ {0}
    BY <1>1 DEF Ring, Current, Header
  <2>5. headers[h].tail \in 0..headers[h].capacity - 1
    BY <2>2
  <2>6. ASSUME NEW p \in 0..headers[h].capacity - 1 PROVE headers[h].index[p] \in 0..Ring - 1
    <3>1. headers[h].index[p] \in Nat /\ headers[h].index[p] < Ring
      BY <2>2, <2>3
    <3> QED
      BY <2>4, <3>1
  <2> QED
    BY <2>2, <2>5, <2>6
<1>3. Len(headers) \in 1..Len(headers)
  BY <1>1
<1> QED
  BY <1>1, <1>2, <1>3 DEF Ring, Current

LEMMA TailNumIs ==
  ASSUME Begun
  PROVE  /\ TailNum \in Int
         /\ ppc # "undo" => TailNum = Top
         /\ ppc = "undo" => TailNum = Top - op.undo + 1 /\ op.undo \in 1..Len(op.chain) + 1
BY OldFacts DEF Begun, TailNum

LEMMA Entries ==
  ASSUME Begun, RingTyped
  PROVE  /\ \A n \in Int : EntryAt(n) \in 0..Ring - 1
         /\ \A n \in Int : EntryAt(n + Ring) = EntryAt(n) /\ EntryAt(n - Ring) = EntryAt(n)
         /\ \A m, n \in Int : m - n < Ring /\ n - m < Ring /\ EntryAt(m) = EntryAt(n) => m = n
         /\ \A e \in 0..Ring - 1, t \in Int : \E n \in t - Ring + 1..t : EntryAt(n) = e
<1>1. /\ Ring \in Nat \ {0} /\ Current.tail \in Int /\ TailNum \in Int
      /\ \A p \in 0..Ring - 1 : Current.index[p] \in 0..Ring - 1
  BY HeadersTyped, TailNumIs
<1> DEFINE x(n) == Current.tail + (n - TailNum)
<1>2. /\ \A z \in Int : z % Ring \in 0..Ring - 1
      /\ \A z \in 0..Ring - 1 : z % Ring = z
      /\ \A y, z \in Int : ((y % Ring) + z) % Ring = (y + z) % Ring
      /\ \A z \in Int : (z + Ring) % Ring = z % Ring /\ (z - Ring) % Ring = z % Ring
  BY <1>1, RingFacts
<1>3. ASSUME NEW n \in Int PROVE EntryAt(n) \in 0..Ring - 1
  <2>1. x(n) \in Int
    BY <1>1
  <2> QED
    BY <1>1, <1>2, <2>1 DEF EntryAt
<1>4. ASSUME NEW n \in Int PROVE EntryAt(n + Ring) = EntryAt(n) /\ EntryAt(n - Ring) = EntryAt(n)
  <2>1. x(n) \in Int /\ x(n + Ring) = x(n) + Ring /\ x(n - Ring) = x(n) - Ring
    BY <1>1
  <2>2. \A m : EntryAt(m) = Current.index[x(m) % Ring]
    BY DEF EntryAt
  <2> HIDE DEF x
  <2> QED
    BY <1>2, <2>1, <2>2
<1>5. ASSUME NEW m \in Int, NEW n \in Int, m - n < Ring, n - m < Ring, EntryAt(m) = EntryAt(n)
      PROVE  m = n
  <2>1. x(m) \in Int /\ x(n) \in Int /\ x(m) - x(n) < Ring /\ x(n) - x(m) < Ring
    BY <1>1, <1>5
  <2>2. EntryAt(m) = Current.index[x(m) % Ring] /\ EntryAt(n) = Current.index[x(n) % Ring]
    BY DEF EntryAt
  <2>3. x(m) = x(n) => m = n
    BY <1>1
  <2> HIDE DEF x
  <2>4. x(m) % Ring = x(n) % Ring
    <3>1. x(m) % Ring \in 0..Ring - 1 /\ x(n) % Ring \in 0..Ring - 1
      BY <1>2, <2>1
    <3>2. \A p, q \in 0..Ring - 1 : Current.index[p] = Current.index[q] => p = q
      BY DEF RingTyped
    <3> QED
      BY <1>5, <2>2, <3>1, <3>2
  <2>5. x(m) = x(n)
    BY <1>1, <2>1, <2>4, RingApart
  <2> QED
    BY <2>3, <2>5
<1>6. ASSUME NEW e \in 0..Ring - 1, NEW t \in Int PROVE \E n \in t - Ring + 1..t : EntryAt(n) = e
  <2>1. PICK p \in 0..Ring - 1 : Current.index[p] = e
    BY DEF RingTyped
  <2> DEFINE y == p - x(t)
             d == (p - x(t)) % Ring
             n == t + d - Ring
  <2>2. y \in Int /\ x(t) \in Int
    BY <1>1
  <2>3. d \in 0..Ring - 1
    BY <1>2, <2>2
  <2>4. (x(t) + d) % Ring = p
    <3> HIDE DEF x
    <3>1. ((y % Ring) + x(t)) % Ring = (y + x(t)) % Ring
      BY <1>2, <2>2
    <3>2. y + x(t) = p
      BY <2>2
    <3>3. d + x(t) = x(t) + d
      BY <2>2, <2>3
    <3> QED
      BY <1>2, <3>1, <3>2, <3>3
  <2>5. x(t + d) = x(t) + d
    BY <1>1, <2>2, <2>3
  <2>6. EntryAt(t + d) = e
    <3>1. EntryAt(t + d) = Current.index[x(t + d) % Ring]
      BY DEF EntryAt
    <3> HIDE DEF x
    <3> QED
      BY <2>1, <2>4, <2>5, <3>1
  <2> HIDE DEF d
  <2>7. EntryAt(n) = e
    BY <1>1, <1>4, <2>3, <2>6
  <2>8. n + Ring - t \in 0..Ring - 1 /\ n \in Int
    BY <1>1, <2>3
  <2>9. d = 0 => EntryAt(t) = e
    BY <2>6
  <2>10. CASE d = 0
    BY <1>1, <2>9, <2>10
  <2>11. CASE d # 0
    <3>1. n \in t - Ring + 1..t
      BY <1>1, <2>3, <2>11
    <3> QED
      BY <2>7, <3>1
  <2> QED
    BY <2>10, <2>11
<1> QED
  BY <1>3, <1>4, <1>5, <1>6

-----------------------------------------------------------------------------
\* The key of an entry is its block's or, if it has been used since, that of the
\* block a round later; a live entry has its own, and so do all after it up to the
\* top, so it is never the next one to be used.
KeysKnown == \A n \in Window : key[EntryAt(n)] \in {INVALID_BLOCK_BASE, Nth(n), Nth(n + Ring)}
KeysAbove ==
  \A n \in Window : Alive(EntryAt(n)) => n >= 0 /\ \A j \in n..Top : key[EntryAt(j)] = Nth(j)

\* The entries of the call, of which those that are undone are dead.
ChainKeys ==
  /\ \A n \in Old + 1..Top : key[EntryAt(n)] = Nth(n)
  /\ ppc \in {"block", "store"} => op.entry = EntryAt(Top) /\ ~Alive(op.entry)
  /\ ppc = "undo" => \A n \in Old + 1..Old + op.undo - 1 : ~Alive(EntryAt(n))

RingInv == RingTyped /\ KeysKnown /\ KeysAbove /\ ChainKeys

\* A live entry is the only one with its key.
LEMMA LiveKey ==
  ASSUME Begun, RingInv, NEW e \in 0..Ring - 1, Alive(e)
  PROVE  \E n \in Window : /\ e = EntryAt(n) /\ n >= 0 /\ key[e] = Nth(n)
                           /\ \A j \in n..Top : key[EntryAt(j)] = Nth(j)
<1>1. Top \in Int /\ Ring \in Nat \ {0}
  BY OldFacts, HeadersTyped DEF RingInv
<1>2. PICK n \in Top - Ring + 1..Top : EntryAt(n) = e
  BY <1>1, Entries DEF RingInv
<1>3. n >= 0 /\ \A j \in n..Top : key[EntryAt(j)] = Nth(j)
  BY <1>2 DEF RingInv, KeysAbove, Window
<1>4. n \in n..Top
  BY <1>1, <1>2
<1> QED
  BY <1>2, <1>3, <1>4 DEF Window

LEMMA KeyUnique ==
  ASSUME Begun, RingInv, NEW n \in Int, NEW e \in 0..Ring - 1, Alive(e), key[e] = Nth(n)
  PROVE  /\ n \in Window /\ n >= 0 /\ n <= Top /\ e = EntryAt(n)
         /\ \A j \in n..Top : key[EntryAt(j)] = Nth(j)
         /\ \A f \in 0..Ring - 1 : key[f] = Nth(n) => f = e
<1>1. Top \in Int /\ Ring \in Nat \ {0}
  BY OldFacts, HeadersTyped DEF RingInv
<1>2. PICK k \in Window : /\ e = EntryAt(k) /\ k >= 0 /\ key[e] = Nth(k)
                          /\ \A j \in k..Top : key[EntryAt(j)] = Nth(j)
  BY LiveKey
<1>3. Window \subseteq Int /\ Nth(n) = Nth(k)
  BY <1>1, <1>2 DEF Window
<1>4. k = n
  BY <1>3, NthApart
<1>5. ASSUME NEW f \in 0..Ring - 1, key[f] = Nth(n) PROVE f = e
  <2>1. PICK m \in Top - Ring + 1..Top : EntryAt(m) = f
    BY <1>1, Entries DEF RingInv
  <2>2. Nth(n) \in {INVALID_BLOCK_BASE, Nth(m), Nth(m + Ring)}
    BY <1>5, <2>1 DEF RingInv, KeysKnown, Window
  <2>3. Nth(n) # INVALID_BLOCK_BASE
    BY <1>2, <1>4, NthFacts DEF INVALID_BLOCK_BASE
  <2>4. m \in Int /\ m + Ring \in Int
    BY <1>1
  <2>5. n = m \/ n = m + Ring
    BY <2>2, <2>3, <2>4, NthApart
  <2>6. n <= Top
    BY <1>1, <1>2, <1>4 DEF Window
  <2>7. n = m
    BY <1>1, <2>1, <2>5, <2>6
  <2> QED
    BY <1>2, <1>4, <2>1, <2>7
<1> QED
  BY <1>1, <1>2, <1>4, <1>5 DEF Window

\* The headers a consumer may have read keep their entries.
HeadersKept ==
  \A h \in DOMAIN headers : /\ h \in DOMAIN headers'
                            /\ headers'[h].capacity = headers[h].capacity
                            /\ headers'[h].index = headers[h].index

LEMMA SameHeaders ==
  ASSUME UNCHANGED headers, TailNum' = TailNum
  PROVE  HeadersKept /\ Ring' = Ring /\ \A n : EntryAt(n)' = EntryAt(n)
BY DEF HeadersKept, Ring, Current, EntryAt

\* Moving the tail leaves the entries where they are.
LEMMA MovedTail ==
  ASSUME Begun, RingTyped, NEW d \in Int, TailNum' = TailNum + d, TailNum \in Int,
         headers' = [headers EXCEPT ![Len(headers)].tail = (Current.tail + d) % Ring]
  PROVE  /\ HeadersKept /\ Ring' = Ring
         /\ headers' \in Seq(Header) /\ headers' # <<>> /\ DOMAIN headers' = DOMAIN headers
         /\ Current'.index = Current.index
         /\ \A n \in Int : EntryAt(n)' = EntryAt(n)
<1>1. /\ Len(headers) \in Nat \ {0} /\ DOMAIN headers = 1..Len(headers)
      /\ \A h \in 1..Len(headers) : headers[h] \in Header
      /\ Ring \in Nat \ {0} /\ Current.tail \in 0..Ring - 1 /\ headers \in Seq(Header)
  BY HeadersTyped DEF RingTyped
<1> DEFINE t == (Current.tail + d) % Ring
           new == [Current EXCEPT !.tail = t]
<1>2. t \in 0..Ring - 1
  <2>1. Current.tail + d \in Int
    BY <1>1
  <2> QED
    BY <1>1, <2>1, RingFacts
<1> HIDE DEF t
<1>3. /\ new \in Header /\ new.tail = t /\ new.capacity = Ring /\ new.index = Current.index
  <2> DEFINE Index == UNION {[0..n - 1 -> Nat] : n \in Nat}
  <2>1. Current \in Header
    BY <1>1 DEF Current
  <2>2. /\ Current \in [capacity : Nat \ {0}, tail : Nat, index : Index]
        /\ DOMAIN Current.index = 0..Ring - 1
    BY <2>1 DEF Header, Ring
  <2> HIDE DEF Index
  <2>3. /\ new \in [capacity : Nat \ {0}, tail : Nat, index : Index]
        /\ new.tail = t /\ new.capacity = Ring /\ new.index = Current.index
    BY <1>1, <1>2, <2>2 DEF Ring, new
  <2>4. new.tail < new.capacity
    BY <1>1, <1>2, <2>3
  <2>5. DOMAIN new.index = 0..new.capacity - 1
    BY <2>2, <2>3
  <2> QED
    BY <2>3, <2>4, <2>5 DEF Header, Index
<1>4. headers' = [headers EXCEPT ![Len(headers)] = new]
  <2>1. headers' = [headers EXCEPT ![Len(headers)].tail = t]
    BY DEF t
  <2> QED
    BY <2>1 DEF Current
<1> HIDE DEF new
<1>5. /\ headers' \in Seq(Header) /\ Len(headers') = Len(headers)
      /\ headers'[Len(headers)] = new
      /\ \A h \in 1..Len(headers) : h # Len(headers) => headers'[h] = headers[h]
      /\ DOMAIN headers' = 1..Len(headers)
  BY <1>1, <1>3, <1>4, ExceptSeq
<1>6. HeadersKept
  BY <1>1, <1>3, <1>5 DEF HeadersKept, Current, Ring
<1>7. Ring' = Ring /\ Current'.index = Current.index /\ Current'.tail = t
  BY <1>3, <1>5 DEF Ring, Current
<1>8. ASSUME NEW n \in Int PROVE EntryAt(n)' = EntryAt(n)
  <2>1. EntryAt(n)' = Current.index[(t + (n - TailNum')) % Ring]
    BY <1>7 DEF EntryAt
  <2>2. (((Current.tail + d) % Ring) + (n - TailNum')) % Ring = (Current.tail + d + (n - TailNum')) % Ring
    <3>1. Current.tail + d \in Int /\ n - TailNum' \in Int
      BY <1>1
    <3> QED
      BY <1>1, <3>1, RingFacts
  <2>3. Current.tail + d + (n - TailNum') = Current.tail + (n - TailNum)
    BY <1>1
  <2> QED
    BY <2>1, <2>2, <2>3 DEF EntryAt, t
<1>9. headers' # <<>>
  BY <1>1, <1>5, EmptySeq
<1> QED
  BY <1>5, <1>6, <1>7, <1>8, <1>9

-----------------------------------------------------------------------------
(* How each step changes the ring. *)

LEMMA SameTyped ==
  ASSUME RingTyped, HeadersKept, Ring' = Ring, Current'.index = Current.index,
         headers' \in Seq(Header), headers' # <<>>, DOMAIN headers' = DOMAIN headers,
         key' \in [0..Ring - 1 -> Nat \cup {INVALID_BLOCK_BASE}],
         value' \in [0..Ring - 1 -> Blocks \cup {NoBlock}]
  PROVE  RingTyped'
BY DEF RingTyped, HeadersKept

\* The keys stay, and no entry comes to life.
LEMMA SameRing ==
  ASSUME Begun, RingInv, UNCHANGED <<headers, key>>, Top' = Top, TailNum' = TailNum,
         value' \in [0..Ring - 1 -> Blocks \cup {NoBlock}],
         \A e \in 0..Ring - 1 : Alive(e)' => Alive(e)
  PROVE  /\ RingTyped' /\ KeysKnown' /\ KeysAbove'
         /\ HeadersKept /\ Ring' = Ring /\ \A n : EntryAt(n)' = EntryAt(n)
<1>1. HeadersKept /\ Ring' = Ring /\ \A n : EntryAt(n)' = EntryAt(n)
  BY SameHeaders
<1>2. RingTyped'
  BY <1>1, SameTyped DEF RingInv, RingTyped, Current
<1>3. Window' = Window /\ Window \subseteq Int
  BY <1>1, OldFacts, HeadersTyped DEF Window, RingInv
<1>4. \A n \in Int : EntryAt(n) \in 0..Ring - 1
  BY Entries DEF RingInv
<1>5. KeysKnown'
  BY <1>1, <1>3 DEF RingInv, KeysKnown
<1>6. KeysAbove'
  BY <1>1, <1>3, <1>4 DEF RingInv, KeysAbove
<1> QED
  BY <1>1, <1>2, <1>5, <1>6

LEMMA EnqueueRing ==
  ASSUME Begun, RingInv, NEW n \in Amounts, Enqueue(n)
  PROVE  RingInv' /\ HeadersKept /\ Ring' = Ring /\ \A k : EntryAt(k)' = EntryAt(k)
<1>1. /\ Begun' /\ Top' = Top /\ Old' = Old /\ Top = Old
      /\ ppc = "idle" /\ ppc' \in {"index", "fill"}
  BY EnqueueBegun
<1>2. UNCHANGED <<headers, key, value>>
  BY DEF Enqueue, indexVars
<1>3. TailNum' = TailNum
  BY <1>1 DEF TailNum
<1>4. value' \in [0..Ring - 1 -> Blocks \cup {NoBlock}] /\ \A e \in 0..Ring - 1 : Alive(e)' => Alive(e)
  BY <1>2 DEF RingInv, RingTyped, Alive
<1>5. /\ RingTyped' /\ KeysKnown' /\ KeysAbove'
      /\ HeadersKept /\ Ring' = Ring /\ \A k : EntryAt(k)' = EntryAt(k)
  BY <1>1, <1>2, <1>3, <1>4, SameRing
<1>6. ChainKeys'
  BY <1>1, OldFacts DEF ChainKeys
<1> QED
  BY <1>5, <1>6 DEF RingInv

\* A call that fails in another place than "block".
LEMMA FailRing ==
  ASSUME Begun, RingInv, GrowFails \/ FillThrows
  PROVE  RingInv' /\ HeadersKept /\ Ring' = Ring /\ \A k : EntryAt(k)' = EntryAt(k)
<1>1. /\ Fail /\ ppc \in {"index", "fill"} /\ ppc \in Busy /\ UNCHANGED <<tailIndex, cpc>>
      /\ UNCHANGED <<headers, key, value>>
  BY DEF GrowFails, FillThrows, Busy, ticketVars, counters, indexVars
<1>2. /\ Begun' /\ Old' = Old /\ Top' = Old + Len(op.chain) /\ ppc' = "undo" /\ op'.undo = 1
      /\ op'.chain = op.chain
  BY <1>1, FailBegun
<1>3. Top \in Int /\ Old \in Int /\ Top' = Top /\ TailNum' = TailNum
  BY <1>1, <1>2, OldFacts DEF TailNum
<1>4. value' \in [0..Ring - 1 -> Blocks \cup {NoBlock}] /\ \A e \in 0..Ring - 1 : Alive(e)' => Alive(e)
  BY <1>1 DEF RingInv, RingTyped, Alive
<1>5. /\ RingTyped' /\ KeysKnown' /\ KeysAbove'
      /\ HeadersKept /\ Ring' = Ring /\ \A k : EntryAt(k)' = EntryAt(k)
  BY <1>1, <1>3, <1>4, SameRing
<1>6. ChainKeys'
  BY <1>1, <1>2, <1>3, <1>5 DEF RingInv, ChainKeys
<1> QED
  BY <1>5, <1>6 DEF RingInv

LEMMA GetRing ==
  ASSUME Begun, RingInv, GetBlock
  PROVE  RingInv' /\ HeadersKept /\ Ring' = Ring /\ \A k : EntryAt(k)' = EntryAt(k)
<1>1. /\ UNCHANGED <<headers, key, value>>
  BY DEF GetBlock, indexVars
<1>2. /\ Begun' /\ Old' = Old /\ ppc' = "store" /\ ppc = "block" /\ Top' = Top
      /\ op'.entry = op.entry
  BY GetFrame
<1>3. TailNum' = TailNum
  BY <1>2 DEF TailNum
<1>4. value' \in [0..Ring - 1 -> Blocks \cup {NoBlock}] /\ \A e \in 0..Ring - 1 : Alive(e)' => Alive(e)
  BY <1>1 DEF RingInv, RingTyped, Alive
<1>5. /\ RingTyped' /\ KeysKnown' /\ KeysAbove'
      /\ HeadersKept /\ Ring' = Ring /\ \A k : EntryAt(k)' = EntryAt(k)
  BY <1>1, <1>2, <1>3, <1>4, SameRing
<1>6. ChainKeys'
  BY <1>1, <1>2, <1>5 DEF RingInv, ChainKeys, Alive
<1> QED
  BY <1>5, <1>6 DEF RingInv

LEMMA FillRing ==
  ASSUME Begun, RingInv, Fill
  PROVE  RingInv' /\ HeadersKept /\ Ring' = Ring /\ \A k : EntryAt(k)' = EntryAt(k)
<1>1. /\ UNCHANGED <<headers, key, value>>
  BY DEF Fill, indexVars
<1>2. /\ Begun' /\ ppc' = "idle" /\ ppc = "fill" /\ Top' = Top /\ Old' = Old + Len(op.chain)
  BY FillFrame
<1>3. TailNum' = TailNum
  BY <1>2 DEF TailNum
<1>4. value' \in [0..Ring - 1 -> Blocks \cup {NoBlock}] /\ \A e \in 0..Ring - 1 : Alive(e)' => Alive(e)
  BY <1>1 DEF RingInv, RingTyped, Alive
<1>5. /\ RingTyped' /\ KeysKnown' /\ KeysAbove'
      /\ HeadersKept /\ Ring' = Ring /\ \A k : EntryAt(k)' = EntryAt(k)
  BY <1>1, <1>2, <1>3, <1>4, SameRing
<1>6. ChainKeys'
  <2>1. Old' = Top' /\ Top' \in Int
    BY <1>2, OldFacts
  <2> QED
    BY <1>2, <2>1 DEF ChainKeys
<1> QED
  BY <1>5, <1>6 DEF RingInv

\* What leaves the producer alone, and takes blocks out of the index at most.
LEMMA ConsumerRing ==
  ASSUME Begun, RingInv, UNCHANGED <<headers, key, op, ppc>>, Old' = Old, Top' = Top,
         value' \in [0..Ring - 1 -> Blocks \cup {NoBlock}],
         \A e \in 0..Ring - 1 : Alive(e)' => Alive(e)
  PROVE  RingInv' /\ HeadersKept /\ Ring' = Ring /\ \A k : EntryAt(k)' = EntryAt(k)
<1>1. TailNum' = TailNum
  BY DEF TailNum
<1>2. /\ RingTyped' /\ KeysKnown' /\ KeysAbove'
      /\ HeadersKept /\ Ring' = Ring /\ \A k : EntryAt(k)' = EntryAt(k)
  BY <1>1, SameRing
<1>3. \A n \in Int : EntryAt(n) \in 0..Ring - 1
  BY Entries DEF RingInv
<1>4. Old \in Int /\ Top \in Int
  BY OldFacts
<1>5. ppc = "undo" => op.undo \in Int
  BY DEF Begun
<1>6. ChainKeys'
  <2>1. \A n \in Old' + 1..Top' : key'[EntryAt(n)'] = Nth(n)
    BY <1>2 DEF RingInv, ChainKeys
  <2>2. ppc' \in {"block", "store"} => op'.entry = EntryAt(Top') /\ ~Alive(op.entry)
    BY <1>3, <1>4 DEF RingInv, ChainKeys
  <2>3. ppc' \in {"block", "store"} => op'.entry = EntryAt(Top)' /\ ~Alive(op.entry)'
    BY <1>2, <1>3, <1>4, <2>2
  <2>4. ASSUME ppc' = "undo", NEW n \in Old' + 1..Old' + op'.undo - 1
        PROVE  ~Alive(EntryAt(n))'
    <3>1. n \in Int /\ ~Alive(EntryAt(n))
      BY <1>4, <1>5, <2>4 DEF RingInv, ChainKeys
    <3> QED
      BY <1>2, <1>3, <3>1
  <2> QED
    BY <2>1, <2>3, <2>4 DEF ChainKeys
<1> QED
  BY <1>2, <1>6 DEF RingInv

\* The next entry is that of the next block, and dead if it is free.
LEMMA NextEntryIs ==
  ASSUME Begun, RingInv, ppc = "index"
  PROVE  /\ NextEntry = EntryAt(Top + 1) /\ NextEntry = EntryAt(Top + 1 - Ring)
         /\ NextEntry \in 0..Ring - 1
         /\ NextEntryFree => ~Alive(NextEntry)
<1>1. Top \in Int /\ TailNum = Top /\ Ring \in Nat \ {0} /\ Current.tail \in 0..Ring - 1
  BY OldFacts, TailNumIs, HeadersTyped DEF RingInv
<1>2. NextEntry = EntryAt(Top + 1)
  <2>1. Current.tail + (Top + 1 - TailNum) = Current.tail + 1
    BY <1>1
  <2>2. \A n : EntryAt(n) = Current.index[(Current.tail + (n - TailNum)) % Ring]
    BY DEF EntryAt
  <2>3. NextEntry = Current.index[(Current.tail + 1) % Ring]
    BY DEF NextEntry, NextTail, Ring
  <2> QED
    BY <1>1, <2>1, <2>2, <2>3
<1>3. NextEntry = EntryAt(Top + 1 - Ring) /\ NextEntry \in 0..Ring - 1
  <2>1. Top + 1 \in Int
    BY <1>1
  <2>2. \A n \in Int : EntryAt(n) \in 0..Ring - 1 /\ EntryAt(n - Ring) = EntryAt(n)
    BY Entries DEF RingInv
  <2> QED
    BY <1>1, <1>2, <2>1, <2>2
<1>4. ASSUME NextEntryFree, Alive(NextEntry) PROVE FALSE
  <2>1. key[NextEntry] = INVALID_BLOCK_BASE
    BY <1>4 DEF NextEntryFree, Alive
  <2>2. PICK n \in Window : n >= 0 /\ key[NextEntry] = Nth(n)
    BY <1>3, <1>4, LiveKey
  <2>3. n \in Int
    BY <1>1 DEF Window
  <2> QED
    BY <2>1, <2>2, <2>3, NthFacts DEF INVALID_BLOCK_BASE
<1> QED
  BY <1>2, <1>3, <1>4

LEMMA InsertRing ==
  ASSUME Begun, RingInv, InsertEntry, Top - Old < Ring
  PROVE  /\ RingInv' /\ HeadersKept /\ Ring' = Ring /\ \A n \in Int : EntryAt(n)' = EntryAt(n)
         /\ ~Alive(NextEntry) /\ NextEntry = EntryAt(Top + 1)
         /\ key' = [key EXCEPT ![NextEntry] = Nth(Top + 1)]
<1>1. /\ Begun' /\ Old' = Old /\ ppc' = "block" /\ ppc = "index" /\ Top' = Top + 1
      /\ op'.entry = NextEntry
  BY InsertFrame
<1>2. /\ headers' = [headers EXCEPT ![Len(headers)].tail = NextTail]
      /\ key' = [key EXCEPT ![NextEntry] = op.base] /\ UNCHANGED value /\ NextEntryFree
  BY DEF InsertEntry
<1>3. /\ Old \in Int /\ Top \in Int /\ TailNum = Top /\ TailNum' = TailNum + 1
      /\ op.base = Nth(Top + 1)
  <2>1. Old \in Int /\ Top \in Int /\ Top = Old + Len(op.chain)
    BY <1>1, OldFacts
  <2>2. TailNum = Top - 0 /\ TailNum' = Top' - 0
    BY <1>1 DEF TailNum
  <2>3. op.base = Nth(Old + Len(op.chain) + 1)
    BY <1>1 DEF Begun
  <2> QED
    BY <1>1, <2>1, <2>2, <2>3
<1>4. /\ HeadersKept /\ Ring' = Ring /\ headers' \in Seq(Header) /\ headers' # <<>>
      /\ DOMAIN headers' = DOMAIN headers /\ Current'.index = Current.index
      /\ \A n \in Int : EntryAt(n)' = EntryAt(n)
  <2>1. headers' = [headers EXCEPT ![Len(headers)].tail = (Current.tail + 1) % Ring]
    BY <1>2 DEF NextTail, Ring
  <2>2. 1 \in Int
    OBVIOUS
  <2> QED
    BY <1>3, <2>1, <2>2, MovedTail DEF RingInv
<1>5. /\ NextEntry = EntryAt(Top + 1) /\ NextEntry \in 0..Ring - 1 /\ ~Alive(NextEntry)
  BY <1>1, <1>2, NextEntryIs
<1>6. Ring \in Nat \ {0} /\ key \in [0..Ring - 1 -> Nat \cup {INVALID_BLOCK_BASE}]
  BY HeadersTyped DEF RingInv, RingTyped
<1>7. op.base \in Nat
  <2>1. Top + 1 \in Int /\ Top + 1 >= 0
    BY <1>3, OldFacts
  <2> QED
    BY <1>3, <2>1, NthFacts
<1>8. RingTyped'
  <2>1. key' \in [0..Ring - 1 -> Nat \cup {INVALID_BLOCK_BASE}]
    BY <1>2, <1>6, <1>7
  <2>2. value' \in [0..Ring - 1 -> Blocks \cup {NoBlock}]
    BY <1>2 DEF RingInv, RingTyped
  <2> QED
    BY <1>4, <2>1, <2>2, SameTyped DEF RingInv
<1>9. /\ \A n \in Int : EntryAt(n) \in 0..Ring - 1
      /\ \A n \in Top + 2 - Ring..Top : EntryAt(n) # EntryAt(Top + 1)
  <2>1. ASSUME NEW n \in Top + 2 - Ring..Top PROVE EntryAt(n) # EntryAt(Top + 1)
    <3>1. n \in Int /\ Top + 1 \in Int /\ n - (Top + 1) < Ring /\ (Top + 1) - n < Ring /\ n # Top + 1
      BY <1>3, <1>6
    <3> QED
      BY <3>1, Entries DEF RingInv
  <2> QED
    BY <2>1, Entries DEF RingInv
<1>10. /\ \A n \in Top + 2 - Ring..Top : key'[EntryAt(n)] = key[EntryAt(n)]
       /\ key'[EntryAt(Top + 1)] = Nth(Top + 1)
  <2>1. \A n \in Top + 2 - Ring..Top : n \in Int
    BY <1>3, <1>6
  <2> QED
    BY <1>2, <1>3, <1>5, <1>6, <1>9, <2>1
<1>11. Window' = Top + 2 - Ring..Top + 1
  BY <1>1, <1>3, <1>4, <1>6 DEF Window
<1>12. KeysKnown'
  <2> SUFFICES ASSUME NEW n \in Top + 2 - Ring..Top + 1
               PROVE  key'[EntryAt(n)] \in {INVALID_BLOCK_BASE, Nth(n), Nth(n + Ring)}
    BY <1>3, <1>4, <1>6, <1>11 DEF KeysKnown
  <2>1. CASE n = Top + 1
    BY <1>10, <2>1
  <2>2. CASE n # Top + 1
    <3>1. n \in Top + 2 - Ring..Top /\ n \in Window
      BY <1>3, <1>6, <2>2 DEF Window
    <3> QED
      BY <1>10, <3>1 DEF RingInv, KeysKnown
  <2> QED
    BY <2>1, <2>2
<1>13. KeysAbove'
  <2> SUFFICES ASSUME NEW n \in Top + 2 - Ring..Top + 1, Alive(EntryAt(n))
               PROVE  n >= 0 /\ \A j \in n..Top + 1 : key'[EntryAt(j)] = Nth(j)
    <3>1. \A n \in Window' : n \in Int /\ \A j \in n..Top + 1 : j \in Int
      BY <1>3, <1>6, <1>11
    <3> QED
      BY <1>1, <1>2, <1>3, <1>4, <1>11, <3>1 DEF KeysAbove, Alive
  <2>1. n # Top + 1
    BY <1>5
  <2>2. n \in Top + 2 - Ring..Top /\ n \in Window
    BY <1>3, <1>6, <2>1 DEF Window
  <2>3. n >= 0 /\ \A j \in n..Top : key[EntryAt(j)] = Nth(j)
    BY <2>2 DEF RingInv, KeysAbove
  <2>4. ASSUME NEW j \in n..Top + 1 PROVE key'[EntryAt(j)] = Nth(j)
    <3>1. j = Top + 1 \/ (j \in Top + 2 - Ring..Top /\ j \in n..Top)
      BY <1>3, <1>6, <2>2
    <3> QED
      BY <1>10, <2>3, <3>1
  <2> QED
    BY <2>3, <2>4
<1>14. ChainKeys'
  <2>1. ASSUME NEW n \in Old + 1..Top + 1 PROVE key'[EntryAt(n)] = Nth(n)
    <3>1. n = Top + 1 \/ (n \in Top + 2 - Ring..Top /\ n \in Old + 1..Top)
      BY <1>3, <1>6
    <3> QED
      BY <1>10, <3>1 DEF RingInv, ChainKeys
  <2>2. \A n \in Old + 1..Top + 1 : n \in Int
    BY <1>3
  <2>3. Top + 1 \in Int
    BY <1>3
  <2> QED
    BY <1>1, <1>2, <1>4, <1>5, <2>1, <2>2, <2>3 DEF ChainKeys, Alive
<1> QED
  BY <1>2, <1>3, <1>4, <1>5, <1>8, <1>12, <1>13, <1>14 DEF RingInv

LEMMA TailEntry ==
  ASSUME Begun, RingTyped
  PROVE  Current.index[Current.tail] = EntryAt(TailNum)
<1>1. Ring \in Nat \ {0} /\ Current.tail \in 0..Ring - 1 /\ TailNum \in Int
  BY TailNumIs, HeadersTyped
<1>2. Current.tail + (TailNum - TailNum) = Current.tail
  BY <1>1
<1>3. Current.tail % Ring = Current.tail
  BY <1>1, RingFacts
<1>4. \A n : EntryAt(n) = Current.index[(Current.tail + (n - TailNum)) % Ring]
  BY DEF EntryAt
<1> QED
  BY <1>1, <1>2, <1>3, <1>4

\* The producer finds the entry of a block if the tail has its own key.
LEMMA EntryForIs ==
  ASSUME Begun, RingTyped, NEW i \in Int, key[EntryAt(TailNum)] = Nth(TailNum)
  PROVE  EntryFor(i) = EntryAt(Num(i))
<1>1. TailNum \in Int /\ Num(i) \in Int /\ Base(i) = Nth(Num(i))
  BY TailNumIs, NumFacts
<1>2. (Base(i) - Nth(TailNum)) \div BlockSize = Num(i) - TailNum
  BY <1>1, NthApart
<1>3. key[Current.index[Current.tail]] = Nth(TailNum)
  BY TailEntry
<1>4. EntryFor(i) = Current.index[(Current.tail + (Base(i) - Nth(TailNum)) \div BlockSize) % Ring]
  BY <1>3 DEF EntryFor, Position, Ring, Current
<1> QED
  BY <1>2, <1>4 DEF EntryAt

LEMMA GetFailsRing ==
  ASSUME Begun, RingInv, GetBlockFails
  PROVE  /\ RingInv' /\ HeadersKept /\ Ring' = Ring /\ \A n \in Int : EntryAt(n)' = EntryAt(n)
         /\ value' = value
<1>1. /\ Fail /\ ppc = "block" /\ ppc \in Busy /\ UNCHANGED <<tailIndex, cpc, key>>
      /\ headers' = [headers EXCEPT ![Len(headers)].tail = (@ - 1) % Current.capacity]
      /\ value' = [value EXCEPT ![op.entry] = NoBlock]
  BY DEF GetBlockFails, Busy, ticketVars, counters, RewindTail
<1>2. /\ Begun' /\ Old' = Old /\ Top' = Old + Len(op.chain) /\ ppc' = "undo" /\ op'.undo = 1
      /\ op'.chain = op.chain
  BY <1>1, FailBegun
<1>3. /\ Top \in Int /\ Old \in Int /\ Top = Old + Len(op.chain) + 1 /\ Len(op.chain) \in Nat
      /\ Top' = Top - 1 /\ TailNum \in Int /\ TailNum = Top /\ TailNum' = TailNum - 1
      /\ Top > Old
  <2>1. /\ Top \in Int /\ Old \in Int /\ Top = Old + Len(op.chain) + 1 /\ Len(op.chain) \in Nat
    BY <1>1, OldFacts
  <2>2. TailNum = Top
    BY <1>1, TailNumIs
  <2>3. TailNum' = Top' - (1 - 1)
    BY <1>2 DEF TailNum
  <2> QED
    BY <1>2, <2>1, <2>2, <2>3
<1>4. /\ HeadersKept /\ Ring' = Ring /\ headers' \in Seq(Header) /\ headers' # <<>>
      /\ DOMAIN headers' = DOMAIN headers /\ Current'.index = Current.index
      /\ \A n \in Int : EntryAt(n)' = EntryAt(n)
  <2>1. headers' = [headers EXCEPT ![Len(headers)].tail = (Current.tail + (-1)) % Ring]
    <3>1. Current.tail - 1 = Current.tail + (-1)
      BY HeadersTyped DEF RingInv
    <3> QED
      BY <1>1, <3>1 DEF Current, Ring
  <2>2. -1 \in Int /\ TailNum' = TailNum + (-1)
    BY <1>3
  <2> QED
    BY <1>3, <2>1, <2>2, MovedTail DEF RingInv
<1>5. /\ Ring \in Nat \ {0} /\ key \in [0..Ring - 1 -> Nat \cup {INVALID_BLOCK_BASE}]
      /\ value \in [0..Ring - 1 -> Blocks \cup {NoBlock}]
  BY HeadersTyped DEF RingInv, RingTyped
<1>6. /\ op.entry = EntryAt(Top) /\ op.entry = EntryAt(Top - Ring) /\ op.entry \in 0..Ring - 1
      /\ ~Alive(op.entry) /\ key[op.entry] = Nth(Top)
  <2>1. op.entry = EntryAt(Top) /\ ~Alive(op.entry)
    BY <1>1 DEF RingInv, ChainKeys
  <2>2. Top \in Old + 1..Top
    BY <1>3
  <2> QED
    BY <1>3, <2>1, <2>2, Entries DEF RingInv, ChainKeys
<1>7. value' = value
  BY <1>1, <1>5, <1>6 DEF Alive
<1>8. RingTyped'
  BY <1>1, <1>4, <1>5, <1>7, SameTyped DEF RingInv
<1>9. Window' = Top - Ring..Top - 1
  BY <1>3, <1>4, <1>5 DEF Window
<1>10. KeysKnown'
  <2> SUFFICES ASSUME NEW n \in Top - Ring..Top - 1
               PROVE  key[EntryAt(n)] \in {INVALID_BLOCK_BASE, Nth(n), Nth(n + Ring)}
    BY <1>1, <1>3, <1>4, <1>5, <1>9 DEF KeysKnown
  <2>1. CASE n = Top - Ring
    <3>1. n + Ring = Top
      BY <1>3, <1>5, <2>1
    <3> QED
      BY <1>6, <2>1, <3>1
  <2>2. CASE n # Top - Ring
    <3>1. PICK t \in Int, r \in Int : t = Top /\ r = Ring
      BY <1>3, <1>5
    <3>2. n \in t - r..t - 1 /\ n # t - r
      BY <2>2, <3>1
    <3>3. n \in t - r + 1..t
      BY <3>2
    <3>4. n \in Window
      BY <3>1, <3>3 DEF Window
    <3> QED
      BY <3>4 DEF RingInv, KeysKnown
  <2> QED
    BY <2>1, <2>2
<1>11. KeysAbove'
  <2> SUFFICES ASSUME NEW n \in Top - Ring..Top - 1, Alive(EntryAt(n))
               PROVE  n >= 0 /\ \A j \in n..Top - 1 : key[EntryAt(j)] = Nth(j)
    <3>1. \A n \in Window' : n \in Int /\ \A j \in n..Top - 1 : j \in Int
      BY <1>3, <1>5, <1>9
    <3> QED
      BY <1>1, <1>3, <1>4, <1>7, <1>9, <3>1 DEF KeysAbove, Alive
  <2>1. n \in Window
    <3>1. PICK t \in Int, r \in Int : t = Top /\ r = Ring
      BY <1>3, <1>5
    <3>2. n # t - r
      BY <1>6, <3>1
    <3>3. n \in t - r..t - 1
      BY <3>1
    <3>4. n \in t - r + 1..t
      BY <3>2, <3>3
    <3> QED
      BY <3>1, <3>4 DEF Window
  <2>2. n >= 0 /\ \A j \in n..Top : key[EntryAt(j)] = Nth(j)
    BY <2>1 DEF RingInv, KeysAbove
  <2>3. \A j \in n..Top - 1 : j \in n..Top
    BY <1>3, <1>5
  <2> QED
    BY <2>2, <2>3
<1>12. ChainKeys'
  <2>1. \A n \in Old + 1..Top - 1 : n \in Int /\ n \in Old + 1..Top
    BY <1>3
  <2>2. Old + 1..Old + 1 - 1 = {}
    BY <1>3
  <2> QED
    BY <1>1, <1>2, <1>3, <1>4, <2>1, <2>2 DEF RingInv, ChainKeys
<1> QED
  BY <1>4, <1>7, <1>8, <1>10, <1>11, <1>12 DEF RingInv

LEMMA StoreRing ==
  ASSUME Begun, RingInv, StoreBlock, \A b \in Blocks : b # NoBlock
  PROVE  /\ RingInv' /\ HeadersKept /\ Ring' = Ring /\ \A n : EntryAt(n)' = EntryAt(n)
         /\ op.entry = EntryAt(Top) /\ op.entry \in 0..Ring - 1 /\ ~Alive(op.entry)
         /\ key[op.entry] = Nth(Top) /\ Top = Old + Len(op.chain)
         /\ op.chain[Len(op.chain)] \in Blocks
<1>1. /\ Begun' /\ Old' = Old /\ ppc' \in {"index", "fill"} /\ ppc = "store" /\ Top' = Top
      /\ op'.chain = op.chain /\ Len(op.chain) > 0
  BY StoreFrame
<1>2. /\ UNCHANGED <<headers, key>> /\ value' = [value EXCEPT ![op.entry] = op.chain[Len(op.chain)]]
  BY DEF StoreBlock
<1>3. /\ Top \in Int /\ Old \in Int /\ Old >= -1 /\ Top = Old + Len(op.chain)
      /\ Len(op.chain) \in Nat /\ op.chain \in Seq(Blocks)
  BY <1>1, OldFacts
<1>4. TailNum' = TailNum
  BY <1>1 DEF TailNum
<1>5. HeadersKept /\ Ring' = Ring /\ \A n : EntryAt(n)' = EntryAt(n)
  BY <1>2, <1>4, SameHeaders
<1>6. /\ Ring \in Nat \ {0} /\ value \in [0..Ring - 1 -> Blocks \cup {NoBlock}]
      /\ key \in [0..Ring - 1 -> Nat \cup {INVALID_BLOCK_BASE}]
  BY HeadersTyped DEF RingInv, RingTyped
<1>7. op.chain[Len(op.chain)] \in Blocks
  BY <1>1, <1>3, ElementOfSeq
<1>8. op.entry = EntryAt(Top) /\ op.entry \in 0..Ring - 1 /\ key[op.entry] = Nth(Top) /\ ~Alive(op.entry)
  <2>1. op.entry = EntryAt(Top) /\ ~Alive(op.entry)
    BY <1>1 DEF RingInv, ChainKeys
  <2>2. Top \in Old + 1..Top
    BY <1>1, <1>3
  <2> QED
    BY <1>3, <2>1, <2>2, Entries DEF RingInv, ChainKeys
<1>9. value' \in [0..Ring - 1 -> Blocks \cup {NoBlock}]
  BY <1>2, <1>6, <1>7
<1>10. RingTyped'
  BY <1>2, <1>5, <1>6, <1>9, SameTyped DEF RingInv, RingTyped, Current
<1>11. Window' = Window /\ Window = Top - Ring + 1..Top
  BY <1>1, <1>5 DEF Window
<1>12. KeysKnown'
  BY <1>2, <1>5, <1>11 DEF RingInv, KeysKnown
<1>13. KeysAbove'
  <2> SUFFICES ASSUME NEW n \in Top - Ring + 1..Top, value'[EntryAt(n)] # NoBlock
               PROVE  n >= 0 /\ \A j \in n..Top : key[EntryAt(j)] = Nth(j)
    BY <1>1, <1>2, <1>5, <1>11 DEF KeysAbove, Alive
  <2>1. CASE n = Top
    <3>1. \A j \in n..Top : j = Top
      BY <1>3, <2>1
    <3>2. n >= 0
      BY <1>1, <1>3, <2>1
    <3> QED
      BY <1>8, <3>1, <3>2
  <2>2. CASE n # Top
    <3>1. EntryAt(n) # EntryAt(Top) /\ EntryAt(n) \in 0..Ring - 1
      <4>1. Top \in Int /\ Ring \in Nat \ {0}
        BY <1>3, <1>6
      <4>2. n \in Int /\ n - Top < Ring /\ Top - n < Ring
        BY <4>1
      <4> QED
        BY <2>2, <4>1, <4>2, Entries DEF RingInv
    <3>2. Alive(EntryAt(n))
      BY <1>2, <1>6, <1>8, <3>1 DEF Alive
    <3> QED
      BY <1>11, <3>2 DEF RingInv, KeysAbove
  <2> QED
    BY <2>1, <2>2
<1>14. ChainKeys'
  BY <1>1, <1>2, <1>5 DEF RingInv, ChainKeys
<1> QED
  BY <1>3, <1>5, <1>7, <1>8, <1>10, <1>12, <1>13, <1>14 DEF RingInv

LEMMA UndoRing ==
  ASSUME Begun, RingInv, UndoEntry
  PROVE  /\ RingInv' /\ HeadersKept /\ Ring' = Ring /\ \A n \in Int : EntryAt(n)' = EntryAt(n)
         /\ value' = [value EXCEPT ![EntryAt(Old + op.undo)] = NoBlock]
         /\ EntryAt(Old + op.undo) \in 0..Ring - 1
         /\ key[EntryAt(Old + op.undo)] = Nth(Old + op.undo)
<1>1. /\ Begun' /\ ppc' = "undo" /\ ppc = "undo" /\ Top' = Top /\ Old' = Old
      /\ op'.chain = op.chain /\ op'.undo = op.undo + 1 /\ op.undo \in 1..Len(op.chain)
      /\ op.start = tailIndex
  BY UndoFrame
<1>2. /\ headers' = [headers EXCEPT ![Len(headers)].tail = (@ - 1) % Current.capacity]
      /\ value' = [value EXCEPT ![EntryFor(Base(op.start - 1) + op.undo * BlockSize)] = NoBlock]
      /\ UNCHANGED key
  BY DEF UndoEntry, RewindTail
<1>3. /\ Top \in Int /\ Old \in Int /\ Top = Old + Len(op.chain) /\ Len(op.chain) \in Nat
      /\ op.undo \in Int
  BY <1>1, OldFacts
<1>4. TailNum \in Old + 1..Top /\ TailNum' = TailNum - 1 /\ TailNum \in Int
  <2>1. PICK u \in 1..Len(op.chain) : u = op.undo
    BY <1>1
  <2>2. TailNum = Top - (u - 1) /\ TailNum' = Top' - (u + 1 - 1)
    BY <1>1, <2>1 DEF TailNum
  <2> QED
    BY <1>1, <1>3, <2>2
<1>5. /\ Ring \in Nat \ {0} /\ key \in [0..Ring - 1 -> Nat \cup {INVALID_BLOCK_BASE}]
      /\ value \in [0..Ring - 1 -> Blocks \cup {NoBlock}]
  BY HeadersTyped DEF RingInv, RingTyped
<1>6. /\ HeadersKept /\ Ring' = Ring /\ headers' \in Seq(Header) /\ headers' # <<>>
      /\ DOMAIN headers' = DOMAIN headers /\ Current'.index = Current.index
      /\ \A n \in Int : EntryAt(n)' = EntryAt(n)
  <2>1. headers' = [headers EXCEPT ![Len(headers)].tail = (Current.tail + (-1)) % Ring]
    <3>1. Current.tail - 1 = Current.tail + (-1)
      BY HeadersTyped DEF RingInv
    <3> QED
      BY <1>2, <3>1 DEF Current, Ring
  <2>2. -1 \in Int /\ TailNum' = TailNum + (-1)
    BY <1>4
  <2> QED
    BY <1>4, <2>1, <2>2, MovedTail DEF RingInv
<1>7. EntryFor(Base(op.start - 1) + op.undo * BlockSize) = EntryAt(Old + op.undo)
  <2> DEFINE i == Base(op.start - 1) + op.undo * BlockSize
  <2>1. i = Nth(Old + op.undo)
    <3>1. op.start - 1 \in Int
      BY <1>1 DEF Begun
    <3>2. Base(op.start - 1) = Nth(Old)
      BY <1>1, <3>1, NumFacts DEF Old
    <3> QED
      BY <1>3, <3>2, ImplicitAssumption DEF Nth, ImplicitAssumption
  <2>2. i \in Int /\ Num(i) = Old + op.undo
    <3>1. Old + op.undo \in Int
      BY <1>3
    <3>2. i \in Int
      BY <2>1, <3>1, NthFacts
    <3>3. Nth(Old + op.undo) <= i /\ i < Nth(Old + op.undo) + BlockSize
      BY <2>1, <3>2, ImplicitAssumption DEF ImplicitAssumption
    <3> HIDE DEF i
    <3> QED
      BY <3>1, <3>2, <3>3, NumIs
  <2>3. key[EntryAt(TailNum)] = Nth(TailNum)
    BY <1>4 DEF RingInv, ChainKeys
  <2> HIDE DEF i
  <2>4. EntryFor(i) = EntryAt(Num(i))
    BY <2>2, <2>3, EntryForIs DEF RingInv
  <2> QED
    BY <2>2, <2>4 DEF i
<1>8. value' = [value EXCEPT ![EntryAt(Old + op.undo)] = NoBlock]
  BY <1>2, <1>7
<1>9. PICK k \in Old + 1..Top : k = Old + op.undo
  BY <1>1, <1>3
<1>10. /\ EntryAt(k) \in 0..Ring - 1 /\ key[EntryAt(k)] = Nth(k)
       /\ k \in Int /\ \A n \in Int : EntryAt(n) \in 0..Ring - 1
  <2>1. \A n \in Int : EntryAt(n) \in 0..Ring - 1
    BY Entries DEF RingInv
  <2>2. k \in Int
    BY <1>3
  <2>3. key[EntryAt(k)] = Nth(k)
    BY DEF RingInv, ChainKeys
  <2> QED
    BY <2>1, <2>2, <2>3
<1>11. value' = [value EXCEPT ![EntryAt(k)] = NoBlock]
  BY <1>8, <1>9
<1>12. /\ value' \in [0..Ring - 1 -> Blocks \cup {NoBlock}]
       /\ \A e \in 0..Ring - 1 : value'[e] # NoBlock => Alive(e)
       /\ value'[EntryAt(k)] = NoBlock
  BY <1>5, <1>10, <1>11 DEF Alive
<1>13. RingTyped'
  BY <1>2, <1>5, <1>6, <1>12, SameTyped DEF RingInv
<1>14. Window' = Window /\ Window \subseteq Int
  BY <1>1, <1>3, <1>5, <1>6 DEF Window
<1>15. KeysKnown'
  BY <1>2, <1>6, <1>14 DEF RingInv, KeysKnown
<1>16. KeysAbove'
  <2>1. ASSUME NEW n \in Window, value'[EntryAt(n)] # NoBlock
        PROVE  n >= 0 /\ \A j \in n..Top : key[EntryAt(j)] = Nth(j)
    <3>1. Alive(EntryAt(n))
      BY <1>10, <1>12, <1>14, <2>1
    <3> QED
      BY <3>1 DEF RingInv, KeysAbove
  <2>2. \A n \in Window : n \in Int /\ \A j \in n..Top : j \in Int
    BY <1>14
  <2> QED
    BY <1>1, <1>2, <1>6, <1>14, <2>1, <2>2 DEF KeysAbove, Alive
<1>17. ChainKeys'
  <2>1. ASSUME NEW n \in Old + 1..Old + (op.undo + 1) - 1 PROVE value'[EntryAt(n)] = NoBlock
    <3>1. n \in Int /\ (n = k \/ n \in Old + 1..Old + op.undo - 1)
      BY <1>3, <1>9
    <3>2. n # k => ~Alive(EntryAt(n))
      BY <1>1, <3>1 DEF RingInv, ChainKeys
    <3> QED
      BY <1>10, <1>12, <3>1, <3>2 DEF Alive
  <2>2. \A n \in Old + 1..Old + (op.undo + 1) - 1 : n \in Int
    BY <1>3
  <2>3. \A n \in Old + 1..Top : n \in Int
    BY <1>3
  <2> QED
    BY <1>1, <1>2, <1>6, <2>1, <2>2, <2>3 DEF RingInv, ChainKeys, Alive
<1> QED
  BY <1>6, <1>8, <1>9, <1>10, <1>13, <1>15, <1>16, <1>17 DEF RingInv

LEMMA UndoneRing ==
  ASSUME Begun, RingInv, UndoDone
  PROVE  RingInv' /\ HeadersKept /\ Ring' = Ring /\ \A n : EntryAt(n)' = EntryAt(n)
<1>1. /\ Begun' /\ ppc' = "idle" /\ ppc = "undo" /\ Top' = Old /\ Old' = Old
      /\ op' = NoOp /\ op.undo = Len(op.chain) + 1
  BY UndoneFrame
<1>2. UNCHANGED <<headers, key, value>>
  BY DEF UndoDone, indexVars
<1>3. /\ Top \in Int /\ Old \in Int /\ Top = Old + Len(op.chain) /\ Len(op.chain) \in Nat
      /\ Old + op.undo - 1 = Top
  BY <1>1, OldFacts
<1>4. TailNum' = TailNum
  <2>1. TailNum = Top - (op.undo - 1) /\ TailNum' = Top' - 0
    BY <1>1 DEF TailNum
  <2> QED
    BY <1>1, <1>3, <2>1
<1>5. HeadersKept /\ Ring' = Ring /\ \A n : EntryAt(n)' = EntryAt(n)
  BY <1>2, <1>4, SameHeaders
<1>6. RingTyped'
  BY <1>2, <1>5, SameTyped DEF RingInv, RingTyped, Current
<1>7. Ring \in Nat \ {0} /\ Window' = Old - Ring + 1..Old /\ Window = Top - Ring + 1..Top
  BY <1>1, <1>5, HeadersTyped DEF RingInv, Window
<1>8. /\ \A n \in Old + 1..Top : ~Alive(EntryAt(n)) /\ key[EntryAt(n)] = Nth(n)
      /\ \A n \in Window : key[EntryAt(n)] \in {INVALID_BLOCK_BASE, Nth(n), Nth(n + Ring)}
      /\ \A n \in Window : Alive(EntryAt(n)) =>
           n >= 0 /\ \A j \in n..Top : key[EntryAt(j)] = Nth(j)
      /\ \A n \in Int : EntryAt(n + Ring) = EntryAt(n)
  BY <1>1, <1>3, Entries DEF RingInv, ChainKeys, KeysKnown, KeysAbove
<1>9. ASSUME NEW n \in Old - Ring + 1..Old, n \notin Window
      PROVE  key[EntryAt(n)] = Nth(n + Ring) /\ ~Alive(EntryAt(n))
  <2>1. n \in Int /\ n + Ring \in Old + 1..Top
    BY <1>3, <1>7, <1>9
  <2>2. EntryAt(n + Ring) = EntryAt(n)
    BY <1>8, <2>1
  <2>3. ~Alive(EntryAt(n + Ring)) /\ key[EntryAt(n + Ring)] = Nth(n + Ring)
    BY <1>8, <2>1
  <2> QED
    BY <2>2, <2>3
<1>10. KeysKnown'
  BY <1>2, <1>5, <1>7, <1>8, <1>9 DEF KeysKnown
<1>11. KeysAbove'
  <2> SUFFICES ASSUME NEW n \in Old - Ring + 1..Old, Alive(EntryAt(n))
               PROVE  n >= 0 /\ \A j \in n..Old : key[EntryAt(j)] = Nth(j)
    BY <1>1, <1>2, <1>5, <1>7 DEF KeysAbove, Alive
  <2>1. n \in Window
    BY <1>9
  <2>2. \A j \in n..Old : j \in n..Top
    BY <1>3
  <2> QED
    BY <1>8, <2>1, <2>2
<1>12. ChainKeys'
  <2>1. Old' + 1..Top' = {}
    BY <1>1, <1>3
  <2> QED
    BY <1>1, <2>1 DEF ChainKeys
<1> QED
  BY <1>5, <1>6, <1>10, <1>11, <1>12 DEF RingInv

\* There is an entry for each block of the call.
LEMMA ChainFits ==
  ASSUME Begun, RingInv
  PROVE  Top - Old <= Ring
<1>1. Top \in Int /\ Old \in Int /\ Ring \in Nat \ {0}
  BY OldFacts, HeadersTyped DEF RingInv
<1>2. SUFFICES ASSUME Top - Old > Ring PROVE FALSE
  BY <1>1
<1>3. PICK n \in Int : n = Old + 1
  BY <1>1
<1>4. n \in Old + 1..Top /\ n + Ring \in Old + 1..Top /\ n + Ring \in Int /\ n + Ring # n
  BY <1>1, <1>2, <1>3
<1>5. key[EntryAt(n)] = Nth(n) /\ key[EntryAt(n + Ring)] = Nth(n + Ring)
  BY <1>4 DEF RingInv, ChainKeys
<1>6. EntryAt(n + Ring) = EntryAt(n)
  BY <1>3, Entries DEF RingInv
<1>7. n + Ring = n
  BY <1>3, <1>4, <1>5, <1>6, NthApart
<1> QED
  BY <1>4, <1>7

\* The index of a larger ring is a function.
LEMMA EnlargedIndex ==
  ASSUME NEW old
  PROVE  Enlarged(old).index = [p \in DOMAIN Enlarged(old).index |-> Enlarged(old).index[p]]
<1> DEFINE Entry(p) == IF p < old.capacity
                       THEN [i \in 0..old.capacity - 1 |-> old.index[(old.tail + 1 + i) % old.capacity]][p]
                       ELSE Cardinality(DOMAIN key) + p - old.capacity
<1>1. Enlarged(old).index = [p \in 0..2 * old.capacity - 1 |-> Entry(p)]
  BY DEF Enlarged
<1> HIDE DEF Entry
<1> QED
  BY <1>1


\* The larger index has the old entries in the same places, and new ones between.
LEMMA GrowRing ==
  ASSUME Begun, RingInv, GrowIndex
  PROVE  /\ RingInv' /\ HeadersKept /\ Ring' = 2 * Ring
         /\ \A n \in Window : EntryAt(n)' = EntryAt(n)
         /\ \A e \in 0..Ring - 1 : key'[e] = key[e] /\ value'[e] = value[e]
         /\ \A e \in Ring..2 * Ring - 1 : key'[e] = INVALID_BLOCK_BASE /\ value'[e] = NoBlock
<1> DEFINE old == Current
           new == Enlarged(Current)
<1>0. PICK C \in Nat \ {0} : C = Ring /\ C = Current.capacity
  BY HeadersTyped DEF RingInv, Ring
<1>1. /\ Begun' /\ Old' = Old /\ op' = op /\ ppc' = ppc /\ ppc = "index" /\ Top' = Top
  BY GrowFrame
<1>2. /\ C \in Nat \ {0} /\ key \in [0..C - 1 -> Nat \cup {INVALID_BLOCK_BASE}]
      /\ value \in [0..C - 1 -> Blocks \cup {NoBlock}]
      /\ DOMAIN key = 0..C - 1 /\ Cardinality(DOMAIN key) = C
      /\ old.tail \in 0..C - 1
      /\ Top \in Int /\ TailNum = Top
  <2>1. /\ C \in Nat \ {0} /\ key \in [0..C - 1 -> Nat \cup {INVALID_BLOCK_BASE}]
        /\ value \in [0..C - 1 -> Blocks \cup {NoBlock}] /\ old.tail \in 0..C - 1
    BY <1>0, HeadersTyped DEF RingInv, RingTyped
  <2>2. DOMAIN key = 0..C - 1
    BY <2>1
  <2>3. Cardinality(0..C - 1) = C
    <3>1. 0 \in Int /\ C - 1 \in Int
      BY <2>1
    <3>2. Cardinality(0..C - 1) = IF 0 > C - 1 THEN 0 ELSE C - 1 - 0 + 1
      BY <3>1, FS_Interval
    <3> QED
      BY <2>1, <3>2
  <2>4. Top \in Int /\ TailNum = Top
    BY <1>1, OldFacts, TailNumIs
  <2> QED
    BY <2>1, <2>2, <2>3, <2>4
<1>3. /\ headers' = Append(headers, new) /\ ~NextEntryFree
      /\ key' = [e \in 0..C - 1 \cup C..2 * C - 1 |->
                   IF e \in C..2 * C - 1 THEN INVALID_BLOCK_BASE ELSE key[e]]
      /\ value' = [e \in 0..C - 1 \cup C..2 * C - 1 |->
                   IF e \in C..2 * C - 1 THEN NoBlock ELSE value[e]]
  <2>1. Cardinality(DOMAIN key) + Current.capacity - 1 = 2 * C - 1 /\ DOMAIN value = 0..C - 1
    BY <1>0, <1>2
  <2> QED
    BY <1>2, <2>1 DEF GrowIndex
<1>4. 0..C - 1 \cup C..2 * C - 1 = 0..2 * C - 1
  BY <1>2
<1>5. /\ key' \in [0..2 * C - 1 -> Nat \cup {INVALID_BLOCK_BASE}]
      /\ value' \in [0..2 * C - 1 -> Blocks \cup {NoBlock}]
      /\ \A e \in 0..C - 1 : key'[e] = key[e] /\ value'[e] = value[e]
      /\ \A e \in C..2 * C - 1 : key'[e] = INVALID_BLOCK_BASE /\ value'[e] = NoBlock
  BY <1>2, <1>3, <1>4
<1>6. /\ new.capacity = 2 * C /\ new.tail = C - 1 /\ DOMAIN new.index = 0..2 * C - 1
      /\ new \in [capacity : {new.capacity}, tail : {new.tail}, index : {new.index}]
      /\ \A p \in 0..C - 1 : new.index[p] = old.index[(old.tail + 1 + p) % C]
      /\ \A p \in C..2 * C - 1 : new.index[p] = p
  <2>1. /\ new.capacity = 2 * C /\ new.tail = C - 1 /\ DOMAIN new.index = 0..2 * C - 1
        /\ new \in [capacity : {new.capacity}, tail : {new.tail}, index : {new.index}]
    BY <1>0 DEF Enlarged
  <2>2. /\ \A p \in 0..C - 1 : p \in 0..2 * C - 1 /\ p < C
        /\ \A p \in C..2 * C - 1 : p \in 0..2 * C - 1 /\ ~(p < C) /\ C + p - C = p
    BY <1>2
  <2>3. ASSUME NEW p \in 0..C - 1 PROVE new.index[p] = old.index[(old.tail + 1 + p) % C]
    BY <1>0, <2>2 DEF Enlarged
  <2>4. ASSUME NEW p \in C..2 * C - 1 PROVE new.index[p] = p
    BY <1>0, <1>2, <2>2 DEF Enlarged
  <2> QED
    BY <2>1, <2>3, <2>4
<1> HIDE DEF new
<1>7. /\ \A x \in Int : x % C \in 0..C - 1
      /\ \A x \in 0..C - 1 : x % C = x
      /\ \A x, y \in Int : ((x % C) + y) % C = (x + y) % C
      /\ \A x \in Int : (x + C) % C = x % C /\ (x - C) % C = x % C
  BY <1>2, RingFacts
<1>8. /\ \A p \in 0..C - 1 : (old.tail + 1 + p) % C \in 0..C - 1 /\ new.index[p] \in 0..C - 1
      /\ \A p \in C..2 * C - 1 : new.index[p] \in C..2 * C - 1
  <2>1. \A p \in 0..C - 1 : old.tail + 1 + p \in Int
    BY <1>2
  <2>2. \A p \in 0..C - 1 : old.index[p] \in 0..C - 1
    BY <1>0, HeadersTyped DEF RingInv
  <2> QED
    BY <1>6, <1>7, <2>1, <2>2
<1>9. \A p, q \in 0..2 * C - 1 : new.index[p] = new.index[q] => p = q
  <2> SUFFICES ASSUME NEW p \in 0..2 * C - 1, NEW q \in 0..2 * C - 1, new.index[p] = new.index[q]
               PROVE  p = q
    OBVIOUS
  <2>4. /\ p \in 0..C - 1 => new.index[p] \in 0..C - 1
        /\ q \in 0..C - 1 => new.index[q] \in 0..C - 1
        /\ p \in C..2 * C - 1 => new.index[p] = p
        /\ q \in C..2 * C - 1 => new.index[q] = q
    BY <1>6, <1>8
  <2>5. (p \in 0..C - 1 \/ p \in C..2 * C - 1) /\ (q \in 0..C - 1 \/ q \in C..2 * C - 1)
    OBVIOUS
  <2>1. CASE p >= C
    BY <2>1, <2>4, <2>5
  <2>2. CASE q >= C
    BY <2>2, <2>4, <2>5
  <2>3. CASE p < C /\ q < C
    <3>1. p \in 0..C - 1 /\ q \in 0..C - 1
      BY <1>2, <2>3
    <3>7. PICK t \in Int : t = old.tail
      BY <1>2
    <3>2. PICK x \in Int, y \in Int : x = t + 1 + p /\ y = t + 1 + q
      BY <3>1, <3>7
    <3>3. old.index[x % C] = old.index[y % C]
      BY <1>6, <3>1, <3>2, <3>7
    <3>4. x % C = y % C
      <4>1. \A a, b \in 0..C - 1 : old.index[a] = old.index[b] => a = b
        BY <1>0 DEF RingInv, RingTyped
      <4> QED
        BY <1>7, <3>3, <4>1
    <3>5. x - y < C /\ y - x < C
      BY <3>1, <3>2
    <3>6. x = y
      BY <3>4, <3>5, RingApart
    <3> QED
      BY <3>1, <3>2, <3>6
  <2> QED
    BY <1>2, <2>1, <2>2, <2>3
<1>10. \A e \in 0..2 * C - 1 : \E p \in 0..2 * C - 1 : new.index[p] = e
  <2> SUFFICES ASSUME NEW e \in 0..2 * C - 1 PROVE \E p \in 0..2 * C - 1 : new.index[p] = e
    OBVIOUS
  <2>1. CASE e >= C
    BY <1>2, <1>6, <2>1
  <2>2. CASE e < C
    <3>1. e \in 0..C - 1
      BY <1>2, <2>2
    <3>2. PICK q \in 0..C - 1 : old.index[q] = e
      BY <1>0, <3>1 DEF RingInv, RingTyped
    <3>3. PICK x \in Int : x = q - old.tail - 1
      BY <1>2
    <3>4. PICK p \in 0..C - 1 : p = x % C
      BY <1>7
    <3>5. (old.tail + 1 + p) % C = q
      <4>1. old.tail + 1 \in Int /\ x + (old.tail + 1) = q /\ old.tail + 1 + p = p + (old.tail + 1)
        BY <1>2, <3>3
      <4>2. ((x % C) + (old.tail + 1)) % C = (x + (old.tail + 1)) % C
        BY <1>7, <4>1
      <4> QED
        BY <1>7, <3>2, <3>4, <4>1, <4>2
    <3>6. p \in 0..2 * C - 1
      BY <1>2
    <3> QED
      BY <1>6, <3>2, <3>5, <3>6
  <2> QED
    BY <1>2, <2>1, <2>2
<1>11. new \in Header
  <2>1. new.index \in [0..2 * C - 1 -> Nat]
    <3>1. \A p \in 0..2 * C - 1 : new.index[p] \in Nat
      <4>1. \A p \in 0..2 * C - 1 : p \in 0..C - 1 \/ p \in C..2 * C - 1
        OBVIOUS
      <4>2. \A z : z \in 0..C - 1 \/ z \in C..2 * C - 1 => z \in Nat
        OBVIOUS
      <4> QED
        BY <1>8, <4>1, <4>2
    <3>2. new.index = [p \in 0..2 * C - 1 |-> new.index[p]]
      BY <1>6, EnlargedIndex DEF new
    <3> QED
      BY <3>1, <3>2
  <2>2. 2 * C \in Nat \ {0} /\ C - 1 \in Nat /\ C - 1 < 2 * C
    BY <1>2
  <2>3. new.index \in UNION {[0..n - 1 -> Nat] : n \in Nat}
    BY <2>1, <2>2
  <2> QED
    BY <1>6, <2>2, <2>3 DEF Header
<1>12. /\ headers' \in Seq(Header) /\ headers' # <<>> /\ Len(headers') = Len(headers) + 1
       /\ \A h \in 1..Len(headers) : headers'[h] = headers[h]
       /\ DOMAIN headers = 1..Len(headers) /\ Len(headers) \in Nat
       /\ DOMAIN headers' = 1..Len(headers) + 1
       /\ headers'[Len(headers) + 1] = new
  <2>1. headers \in Seq(Header) /\ DOMAIN headers = 1..Len(headers) /\ Len(headers) \in Nat
    BY HeadersTyped DEF RingInv, RingTyped
  <2>2. /\ Append(headers, new) \in Seq(Header) /\ Len(Append(headers, new)) = Len(headers) + 1
        /\ \A h \in 1..Len(headers) : Append(headers, new)[h] = headers[h]
        /\ Append(headers, new)[Len(headers) + 1] = new
    BY <1>11, <2>1, AppendProperties
  <2>3. DOMAIN headers' = 1..Len(headers')
    BY <1>3, <2>2, LenProperties
  <2>4. headers' # <<>>
    BY <1>3, <2>1, <2>2, EmptySeq
  <2> QED
    BY <1>3, <2>1, <2>2, <2>3, <2>4
<1>13. HeadersKept
  BY <1>12 DEF HeadersKept
<1>14. Current' = new /\ Ring' = 2 * C
  <2>1. Len(headers') = Len(headers) + 1 /\ headers'[Len(headers) + 1] = new
    BY <1>12
  <2>2. Current' = new
    BY <2>1 DEF Current
  <2> QED
    BY <1>6, <2>2 DEF Ring
<1>15. RingTyped'
  <2>1. \A h \in DOMAIN headers' : \A p \in DOMAIN headers'[h].index : headers'[h].index[p] < 2 * C
    <3> SUFFICES ASSUME NEW h \in 1..Len(headers) + 1, NEW p \in DOMAIN headers'[h].index
                 PROVE  headers'[h].index[p] < 2 * C
      BY <1>12
    <3>1. CASE h = Len(headers) + 1
      <4>0. headers'[h] = new
        BY <1>12, <3>1
      <4>1. p \in 0..2 * C - 1 /\ headers'[h].index[p] = new.index[p]
        <5>1. DOMAIN headers'[h].index = DOMAIN new.index
          BY <4>0
        <5>2. p \in 0..2 * C - 1
          BY <1>6, <5>1
        <5> QED
          BY <4>0, <5>2
      <4>2. p \in 0..C - 1 \/ p \in C..2 * C - 1
        BY <4>1
      <4> QED
        BY <1>8, <4>1, <4>2, SMTT(30)
    <3>2. CASE h # Len(headers) + 1
      <4>1. h \in 1..Len(headers)
        BY <1>12, <3>2
      <4>2. headers'[h] = headers[h]
        BY <1>12, <4>1
      <4>3. headers[h].index[p] \in 0..C - 1
        BY <1>0, <4>1, <4>2, HeadersTyped DEF RingInv
      <4> QED
        BY <4>2, <4>3
    <3> QED
      BY <3>1, <3>2
  <2> QED
    BY <1>5, <1>9, <1>10, <1>12, <1>14, <2>1 DEF RingTyped
<1>16. TailNum' = Top /\ Window = Top - C + 1..Top /\ Window' = Top - 2 * C + 1..Top
  <2>1. TailNum' = TailNum
    BY <1>1 DEF TailNum
  <2> QED
    BY <1>0, <1>1, <1>2, <1>14, <2>1 DEF Window
<1>17. PICK D \in Nat \ {0} : D = 2 * C
  OBVIOUS
<1>18. ASSUME NEW n PROVE EntryAt(n)' = new.index[(C - 1 + (n - Top)) % D]
  BY <1>6, <1>14, <1>16, <1>17 DEF EntryAt
<1>19. ASSUME NEW n \in Window PROVE EntryAt(n)' = EntryAt(n)
  <2>1. PICK y \in 0..C - 1 : y = C - 1 + (n - Top)
    BY <1>2, <1>16
  <2>2. y % D = y
    <3>1. y \in 0..D - 1
      BY <1>17
    <3> QED
      BY <3>1, RingFacts
  <2>3. EntryAt(n)' = old.index[(old.tail + 1 + y) % C]
    BY <1>6, <1>18, <2>1, <2>2
  <2>4. PICK x \in Int : x = old.tail + (n - Top)
    BY <1>2, <1>16
  <2>5. old.tail + 1 + y = x + C
    BY <1>2, <1>16, <2>1, <2>4
  <2>6. (x + C) % C = x % C
    BY <1>7
  <2>7. EntryAt(n) = old.index[x % C]
    BY <1>0, <1>2, <2>4 DEF EntryAt
  <2> QED
    BY <2>3, <2>5, <2>6, <2>7
<1>20. ASSUME NEW n \in Window', n \notin Window
       PROVE  key'[EntryAt(n)'] = INVALID_BLOCK_BASE /\ value'[EntryAt(n)'] = NoBlock
  <2>1. PICK y \in Int : y = C - 1 + (n - Top)
    BY <1>2, <1>16
  <2>2. y + D \in C..D - 1
    BY <1>2, <1>16, <1>17, <1>20, <2>1
  <2>3. (y + D) % D = y % D /\ (y + D) % D = y + D
    <3>1. y + D \in 0..D - 1
      BY <2>2
    <3> QED
      BY <3>1, RingFacts
  <2>4. EntryAt(n)' = y + D
    BY <1>6, <1>17, <1>18, <2>1, <2>2, <2>3
  <2> QED
    BY <1>5, <1>17, <2>2, <2>4
<1>21. \A n \in Window : key[EntryAt(n)] = Nth(n) /\ EntryAt(n) \in 0..C - 1
  <2>1. \A n \in Window : EntryAt(n) \in 0..C - 1
    BY <1>0, <1>2, <1>16, Entries DEF RingInv
  <2>2. PICK low \in Int : low = Top + 1 - C
    BY <1>2
  <2>3. NextEntry = EntryAt(low) /\ Alive(NextEntry) /\ low \in Window
    <3>1. NextEntry = EntryAt(Top + 1 - Ring)
      BY <1>1, NextEntryIs
    <3>2. Alive(NextEntry)
      BY <1>3 DEF NextEntryFree, Alive
    <3>3. Top + 1 - Ring = low
      BY <1>0, <2>2
    <3>4. PICK t \in Int, c \in Nat \ {0} : t = Top /\ c = C
      BY <1>2
    <3>5. low \in t - c + 1..t
      <4>1. low = t + 1 - c
        BY <2>2, <3>4
      <4> QED
        BY <3>4, <4>1
    <3>6. low \in Window
      BY <1>16, <3>4, <3>5
    <3> QED
      BY <3>1, <3>2, <3>3, <3>6
  <2>4. \A j \in low..Top : key[EntryAt(j)] = Nth(j)
    BY <2>3 DEF RingInv, KeysAbove
  <2>5. Window = low..Top
    BY <1>2, <1>16, <2>2
  <2> QED
    BY <2>1, <2>4, <2>5
<1>22. \A n \in Window : key'[EntryAt(n)'] = Nth(n)
  BY <1>5, <1>19, <1>21
<1>23. KeysKnown'
  BY <1>20, <1>22 DEF KeysKnown
<1>24. KeysAbove'
  <2> SUFFICES ASSUME NEW n \in Window', value'[EntryAt(n)'] # NoBlock
               PROVE  n >= 0 /\ \A j \in n..Top : key'[EntryAt(j)'] = Nth(j)
    BY <1>1 DEF KeysAbove, Alive
  <2>1. n \in Window
    BY <1>20
  <2>2. Alive(EntryAt(n))
    BY <1>5, <1>19, <1>21, <2>1 DEF Alive
  <2>3. n >= 0
    BY <2>1, <2>2 DEF RingInv, KeysAbove
  <2>4. \A j \in n..Top : j \in Window
    BY <1>2, <1>16, <2>1
  <2> QED
    BY <1>22, <2>3, <2>4
<1>25. ChainKeys'
  <2>1. Old \in Int /\ Top - Old <= C
    BY <1>0, ChainFits, OldFacts
  <2>2. \A n \in Old + 1..Top : n \in Window
    BY <1>2, <1>16, <2>1
  <2> QED
    BY <1>1, <1>22, <2>2 DEF ChainKeys
<1> QED
  BY <1>0, <1>5, <1>13, <1>14, <1>15, <1>19, <1>23, <1>24, <1>25 DEF RingInv

LEMMA InitRing == ImplicitInit => RingInv
<1> SUFFICES ASSUME ImplicitInit PROVE RingInv
  OBVIOUS
<1>1. FirstCapacity \in Nat \ {0}
  BY ImplicitAssumption DEF ImplicitAssumption
<1> DEFINE index == [i \in 0..FirstCapacity - 1 |-> i]
           first == [capacity |-> FirstCapacity, tail |-> FirstCapacity - 1, index |-> index]
<1>2. first \in Header
  <2>1. index \in [0..FirstCapacity - 1 -> Nat]
    BY <1>1
  <2>2. index \in UNION {[0..n - 1 -> Nat] : n \in Nat}
    BY <1>1, <2>1
  <2>3. FirstCapacity - 1 \in Nat /\ FirstCapacity - 1 < FirstCapacity
    BY <1>1
  <2> QED
    BY <1>1, <2>1, <2>2, <2>3 DEF Header
<1>3. headers = <<first>>
  BY DEF ImplicitInit
<1>4. headers \in Seq(Header) /\ headers # <<>> /\ Len(headers) = 1 /\ headers[1] = first /\ DOMAIN headers = {1}
  <2> HIDE DEF first
  <2> QED
    BY <1>2, <1>3
<1>5. Current = first /\ Ring = FirstCapacity /\ Current.index = index
  BY <1>4 DEF Current, Ring
<1>6. /\ key = [e \in 0..FirstCapacity - 1 |-> INVALID_BLOCK_BASE]
      /\ value = [e \in 0..FirstCapacity - 1 |-> NoBlock]
  BY DEF ImplicitInit
<1>7. /\ \A p \in 0..FirstCapacity - 1 : index[p] = p /\ index[p] < FirstCapacity
      /\ DOMAIN index = 0..FirstCapacity - 1
  BY <1>1
<1> HIDE DEF index
<1>8. RingTyped
  <2>1. \A h \in DOMAIN headers : headers[h].index = index
    BY <1>4
  <2> QED
    BY <1>4, <1>5, <1>6, <1>7, <2>1 DEF RingTyped
<1>9. Begun /\ ppc = "idle" /\ Top \in Int /\ Old = Top
  <2>1. Begun /\ ppc = "idle" /\ op.chain = <<>> /\ Len(op.chain) = 0
    BY InitBegun DEF ImplicitInit, NoOp
  <2> QED
    BY <2>1, OldFacts
<1>10. \A n \in Int : EntryAt(n) \in 0..Ring - 1
  BY <1>8, <1>9, Entries
<1>11. \A n \in Window : key[EntryAt(n)] = INVALID_BLOCK_BASE /\ ~Alive(EntryAt(n))
  <2>1. Window \subseteq Int
    BY <1>1, <1>5, <1>9 DEF Window
  <2> QED
    BY <1>5, <1>6, <1>10, <2>1 DEF Alive
<1>12. ChainKeys
  BY <1>9 DEF ChainKeys
<1> QED
  BY <1>8, <1>11, <1>12 DEF RingInv, KeysKnown, KeysAbove

-----------------------------------------------------------------------------
(***************************************************************************)
(* Who has which element, and where it lies.  An element is given once a   *)
(* consumer has moved it out; the elements of a block that are not given   *)
(* are left in it, or will be added.                                       *)
(***************************************************************************)
Elements(n) == Nth(n)..Nth(n) + BlockSize - 1

\* The elements a consumer has still to take.
First(c) == IF cpc[c] = "locate" THEN my[c].index ELSE at[c].next
Holds(c) == IF cpc[c] \in Seeking THEN First(c)..End(c) - 1 ELSE {}

Given(i) == i < headIndex /\ \A c \in Consumers : i \notin Holds(c)
Left(n) == {i \in Elements(n) : ~Given(i)}

\* The entry e holds block n.
LiveAt(n, e) == e \in 0..Ring - 1 /\ Alive(e) /\ key[e] = Nth(n)

Whereabouts == [header : Nat, tail : Nat, pos : Nat, next : Nat, block : Blocks \cup {NoBlock}]

PlacesTyped ==
  /\ at \in [Consumers -> Whereabouts]
  /\ content \in [Blocks -> [0..BlockSize - 1 -> Int]]
  /\ dequeued \in [Blocks -> 0..BlockSize]
  /\ pool \in [Blocks -> Nat]
  /\ tailBlock \in Blocks \cup {NoBlock}
  /\ tailIndex <= MaxElements /\ (ppc \in Busy => tailIndex + op.count <= MaxElements)

\* No element is held by two consumers, and all that are held have been given out
\* by headIndex.
Ordered(c) ==
  /\ cpc[c] = "advance" => my[c].got > 0
  /\ cpc[c] \in Seeking => First(c) <= End(c) /\ End(c) <= headIndex
  /\ cpc[c] \in {"locate", "base", "take"} => First(c) < End(c)
  /\ cpc[c] = "base" => at[c].next = my[c].index
  /\ cpc[c] \in {"forget", "release"} => at[c].next >= 1
Shared ==
  /\ \A c, d \in Consumers : c # d => Holds(c) \cap Holds(d) = {}
  /\ \A c \in Consumers : Ordered(c)

\* The block a consumer is at, and the last one it has elements in.
AtNum(c) == IF cpc[c] = "take" THEN Num(at[c].next) ELSE Num(at[c].next - 1)
LastNum(c) == Num(End(c) - 1)

\* The entry a consumer comes to for block n, from its position or from the tail,
\* if the tail it read is that of block m.
EntryOn(c, p) == headers[at[c].header].index[p % headers[at[c].header].capacity]
Coming(c, n) == EntryOn(c, at[c].pos + (n - AtNum(c)))
FromTail(c, m, n) == EntryOn(c, at[c].tail + (n - m))
TailKey(c) == key[headers[at[c].header].index[at[c].tail]]

\* A consumer is led to the blocks of its elements, by the keys.
OnWay(c) ==
  /\ cpc[c] \in {"base", "take", "forget", "release"} => at[c].header \in DOMAIN headers
  /\ cpc[c] = "base" =>
       /\ at[c].tail < headers[at[c].header].capacity
       /\ \E m \in Int : /\ TailKey(c) = Nth(m)
                         /\ \A n \in Num(at[c].next)..LastNum(c) :
                              n <= m /\ key[FromTail(c, m, n)] = Nth(n)
  /\ cpc[c] \in {"take", "forget", "release"} =>
       /\ at[c].pos < headers[at[c].header].capacity
       /\ \A n \in AtNum(c) + 1..LastNum(c) : key[Coming(c, n)] = Nth(n)
  /\ cpc[c] \in {"take", "forget"} => key[EntryOf(c)] = Nth(AtNum(c))
  /\ cpc[c] = "forget" => /\ Left(AtNum(c)) = {}
                          /\ value[EntryOf(c)] = at[c].block
  /\ cpc[c] \in {"forget", "release"} =>
       /\ at[c].block \in Blocks
       /\ at[c].next < End(c) => at[c].next = Nth(AtNum(c) + 1)

Ways ==
  /\ \A c \in Consumers : OnWay(c)
  /\ \A c, d \in Consumers : c # d /\ cpc[c] = "forget" /\ cpc[d] = "forget" =>
       EntryOf(c) # EntryOf(d)

\* What is left of a block that has elements is in a live entry, its elements in
\* their slots and the others counted as dequeued.
LeftLive == \A n \in 0..Old : Left(n) # {} => \E e \in 0..Ring - 1 : LiveAt(n, e)
Filled ==
  \A n \in 0..Old, e \in 0..Ring - 1 : LiveAt(n, e) =>
    /\ dequeued[value[e]] + Cardinality(Left(n)) = BlockSize
    /\ \A i \in Left(n) : i < tailIndex => content[value[e]][Slot(i)] = i
    /\ Left(n) = {} => \E c \in Consumers : cpc[c] = "forget" /\ EntryOf(c) = e
TailHeld == \A e \in 0..Ring - 1 : Old >= 0 /\ LiveAt(Old, e) => value[e] = tailBlock

\* A block holds nothing else.
OnlyLeft ==
  \A b \in Blocks, s \in 0..BlockSize - 1 : content[b][s] # Hole =>
    LET i == content[b][s] IN
      /\ i \in 0..tailIndex - 1 /\ ~Given(i) /\ s = Slot(i)
      /\ \E e \in 0..Ring - 1 : LiveAt(Num(i), e) /\ value[e] = b

\* The blocks of the call are empty, and in the index unless not yet or no longer.
Unindexed(k) == (ppc = "store" /\ k = Len(op.chain)) \/ (ppc = "undo" /\ k < op.undo)
ChainBlocks ==
  \A k \in 1..Len(op.chain) :
    /\ dequeued[op.chain[k]] = 0
    /\ ~Unindexed(k) => value[EntryAt(Old + k)] = op.chain[k]

\* A block is in one place.
InIndex(b) == \E e \in 0..Ring - 1 : value[e] = b
Carries(c, b) == cpc[c] = "release" /\ at[c].block = b
InHand(b) == \E c \in Consumers : Carries(c, b)
InCall(b) == \E k \in 1..Len(op.chain) : Unindexed(k) /\ op.chain[k] = b
OnePlace(b) ==
  /\ pool[b] \in {0, 1}
  /\ pool[b] = 1 \/ InIndex(b) \/ InHand(b) \/ InCall(b)
  /\ pool[b] = 1 => ~InIndex(b) /\ ~InHand(b) /\ ~InCall(b)
  /\ InIndex(b) => ~InHand(b) /\ ~InCall(b)
  /\ InHand(b) => ~InCall(b)
  /\ \A e, f \in 0..Ring - 1 : value[e] = b /\ value[f] = b => e = f
  /\ \A c, d \in Consumers : Carries(c, b) /\ Carries(d, b) => c = d

Stock == /\ Ways /\ LeftLive /\ Filled /\ TailHeld /\ OnlyLeft /\ ChainBlocks
         /\ \A b \in Blocks : OnePlace(b)

ProducerInv ==
  /\ Begun /\ TP!IInv /\ PlacesTyped /\ RingInv /\ Shared
  /\ ppc # "destroyed" => Stock
  /\ DestroyedClean /\ (ppc = "destroyed" => \A c \in Consumers : cpc[c] = "idle")

-----------------------------------------------------------------------------
LEMMA CountersFacts ==
  ASSUME TP!IInv
  PROVE  /\ tailIndex \in Nat /\ headIndex \in Nat /\ headIndex <= tailIndex
         /\ my \in [Consumers -> TP!Locals]
         /\ \A c \in Consumers : my[c].index \in Nat /\ my[c].got \in Nat /\ End(c) \in Nat
<1>1. /\ tailIndex \in Nat /\ headIndex \in Nat /\ my \in [Consumers -> TP!Locals]
      /\ TP!Given <= tailIndex
  BY DEF TP!IInv, TP!CountersTyped
<1>2. TP!Cardinality(TP!Granted) \in Nat
  BY TicketsAssumed, TP!Sizes
<1>3. \A c \in Consumers : my[c].index \in Nat /\ my[c].got \in Nat
  BY <1>1 DEF TP!Locals
<1>4. headIndex <= tailIndex
  BY <1>1, <1>2 DEF TP!Given
<1> QED
  BY <1>1, <1>3, <1>4 DEF End

\* The elements of a block, and the numbers of elements in order.
LEMMA ElementsFacts ==
  ASSUME NEW n \in Int
  PROVE  /\ \A i \in Int : i \in Elements(n) <=> Num(i) = n
         /\ Elements(n) \subseteq Int
         /\ \A i, j \in Elements(n) : Slot(i) = Slot(j) => i = j
         /\ IsFiniteSet(Elements(n)) /\ Cardinality(Elements(n)) = BlockSize
<1>1. Nth(n) \in Int /\ BlockSize \in Nat \ {0}
  BY NthFacts, ImplicitAssumption DEF ImplicitAssumption
<1>2. ASSUME NEW i \in Int PROVE i \in Elements(n) <=> Num(i) = n
  BY <1>1, NumIs DEF Elements
<1>3. Elements(n) \subseteq Int
  BY <1>1 DEF Elements
<1>4. ASSUME NEW i \in Elements(n), NEW j \in Elements(n), Slot(i) = Slot(j) PROVE i = j
  <2>1. i \in Int /\ j \in Int /\ Num(i) = n /\ Num(j) = n
    BY <1>2, <1>3
  <2>2. i = Nth(Num(i)) + Slot(i) /\ j = Nth(Num(j)) + Slot(j)
    BY <2>1, NumFacts
  <2> QED
    BY <1>4, <2>1, <2>2
<1>5. IsFiniteSet(Elements(n)) /\ Cardinality(Elements(n)) = BlockSize
  <2>1. PICK k \in Int : k = Nth(n)
    BY <1>1
  <2>2. Elements(n) = k..k + BlockSize - 1
    BY <2>1 DEF Elements
  <2>3. PICK l \in Int : l = k + BlockSize - 1
    BY <1>1
  <2>4. IsFiniteSet(k..l) /\ Cardinality(k..l) = IF k > l THEN 0 ELSE l - k + 1
    BY FS_Interval
  <2> QED
    BY <1>1, <2>2, <2>3, <2>4
<1> QED
  BY <1>2, <1>3, <1>4, <1>5

LEMMA NumOrder ==
  ASSUME NEW i \in Int, NEW j \in Int, i <= j
  PROVE  Num(i) <= Num(j) /\ Num(i) \in Int /\ Num(j) \in Int
<1>1. Num(i) \in Int /\ Num(j) \in Int
  BY NumFacts
<1>2. ~(j < Nth(Num(i)))
  <2>1. Nth(Num(i)) <= i
    BY <1>1, NumIs
  <2>2. Nth(Num(i)) \in Int
    BY <1>1, NthFacts
  <2> QED
    BY <2>1, <2>2
<1>3. ~(Num(j) < Num(i))
  BY <1>1, <1>2, NumIs
<1> QED
  BY <1>1, <1>3

LEMMA NatNum ==
  ASSUME NEW i \in Nat
  PROVE  Num(i) \in Nat
<1>1. Num(i) \in Int
  BY NumFacts
<1>2. ~(i < Nth(0))
  BY ImplicitAssumption DEF Nth, ImplicitAssumption
<1>3. ~(Num(i) < 0)
  BY <1>2, NumIs
<1> QED
  BY <1>1, <1>3

\* What a consumer holds is there, not given, and in a block the producer has filled.
LEMMA HeldFacts ==
  ASSUME Begun, TP!IInv, PlacesTyped, Shared, NEW c \in Consumers
  PROVE  /\ cpc[c] \in Seeking => /\ First(c) \in Nat /\ End(c) \in Nat /\ First(c) <= End(c)
                                  /\ End(c) <= headIndex /\ End(c) <= tailIndex
                                  /\ Holds(c) = First(c)..End(c) - 1
         /\ cpc[c] \in Seeking \ {"locate"} => First(c) = at[c].next
         /\ Holds(c) \subseteq 0..headIndex - 1 /\ Holds(c) \subseteq 0..tailIndex - 1
         /\ \A i \in Holds(c) : /\ i \in Nat /\ ~Given(i) /\ i < tailIndex
                                /\ Num(i) \in 0..Old /\ i \in Left(Num(i))
<1>1. /\ tailIndex \in Nat /\ headIndex \in Nat /\ headIndex <= tailIndex
      /\ my[c].index \in Nat /\ End(c) \in Nat
  BY CountersFacts
<1>2. at[c].next \in Nat
  BY DEF PlacesTyped, Whereabouts
<1>3. cpc[c] \in Seeking => /\ First(c) \in Nat /\ First(c) <= End(c)
                            /\ End(c) <= headIndex /\ Holds(c) = First(c)..End(c) - 1
  BY <1>1, <1>2 DEF Shared, Ordered, First, Holds
<1>4. Holds(c) \subseteq 0..headIndex - 1
  BY <1>1, <1>3 DEF Holds
<1>5. ASSUME NEW i \in Holds(c)
      PROVE  /\ i \in Nat /\ ~Given(i) /\ i < tailIndex
             /\ Num(i) \in 0..Old /\ i \in Left(Num(i))
  <2>1. i \in Nat /\ i < tailIndex
    BY <1>1, <1>4, <1>5
  <2>2. ~Given(i)
    BY DEF Given
  <2>3. Num(i) \in Nat /\ Num(i) <= Old /\ Old \in Int
    <3>1. i <= tailIndex - 1 /\ tailIndex - 1 \in Int
      BY <1>1, <2>1
    <3> QED
      BY <2>1, <3>1, NatNum, NumOrder DEF Old
  <2>4. i \in Elements(Num(i))
    BY <2>1, <2>3, ElementsFacts
  <2> QED
    BY <2>1, <2>2, <2>3, <2>4 DEF Left
<1>6. Holds(c) \subseteq 0..tailIndex - 1
  BY <1>1, <1>4
<1> QED
  BY <1>1, <1>3, <1>4, <1>5, <1>6 DEF First, Seeking

\* The entry of a block of which elements are left.
LEMMA LeftEntry ==
  ASSUME Begun, RingInv, LeftLive, NEW n \in 0..Old, Left(n) # {}
  PROVE  /\ LiveAt(n, EntryAt(n)) /\ n \in Window /\ EntryAt(n) \in 0..Ring - 1
         /\ Alive(EntryAt(n)) /\ key[EntryAt(n)] = Nth(n)
         /\ \A f \in 0..Ring - 1 : key[f] = Nth(n) => f = EntryAt(n)
         /\ \A j \in n..Top : key[EntryAt(j)] = Nth(j)
<1>1. PICK e \in 0..Ring - 1 : LiveAt(n, e)
  BY DEF LeftLive
<1>2. n \in Int /\ Alive(e) /\ key[e] = Nth(n)
  BY <1>1 DEF LiveAt
<1> QED
  BY <1>1, <1>2, KeyUnique

LEMMA LiveEntry ==
  ASSUME Begun, RingInv, NEW n \in Int, NEW e \in 0..Ring - 1, LiveAt(n, e)
  PROVE  /\ e = EntryAt(n) /\ n \in Window /\ n >= 0 /\ n <= Top
         /\ \A f \in 0..Ring - 1 : key[f] = Nth(n) => f = e
BY KeyUnique DEF LiveAt

-----------------------------------------------------------------------------
LEMMA HasElement ==
  ASSUME NEW f \in Int, NEW l \in Int, f < l, NEW n \in Int, Num(f) <= n, n <= Num(l - 1)
  PROVE  \E i \in f..l - 1 : Num(i) = n
<1>1. Num(f) \in Int /\ Nth(n) \in Int /\ l - 1 \in Int /\ BlockSize \in Nat \ {0}
  BY NumFacts, NthFacts, ImplicitAssumption DEF ImplicitAssumption
<1>2. CASE Num(f) = n
  <2>1. f \in f..l - 1
    OBVIOUS
  <2> QED
    BY <1>2, <2>1
<1>3. CASE Num(f) # n
  <2>1. f < Nth(n)
    BY <1>1, <1>3, NumIs
  <2>2. Num(l - 1) \in Int
    BY <1>1, NumFacts
  <2>3. ~(Num(l - 1) < n)
    BY <1>1, <2>2
  <2>4. ~(l - 1 < Nth(n))
    BY <1>1, <2>3, NumIs
  <2>5. Nth(n) \in f..l - 1
    BY <1>1, <2>1, <2>4
  <2>6. Num(Nth(n)) = n
    BY <1>1, NumIs
  <2> QED
    BY <2>5, <2>6
<1> QED
  BY <1>2, <1>3

\* The blocks a consumer will come to.
Ahead(c) == IF cpc[c] \in {"forget", "release"} THEN AtNum(c) + 1..LastNum(c)
            ELSE Num(First(c))..LastNum(c)

LEMMA NumsTyped ==
  ASSUME TP!IInv, PlacesTyped, NEW c \in Consumers
  PROVE  AtNum(c) \in Int /\ LastNum(c) \in Int /\ Num(First(c)) \in Int /\ at[c].next \in Nat
<1>1. at[c].next \in Nat /\ my[c].index \in Nat /\ End(c) \in Nat
  BY CountersFacts DEF PlacesTyped, Whereabouts
<1>2. First(c) \in Int /\ at[c].next - 1 \in Int /\ End(c) - 1 \in Int /\ at[c].next \in Int
  BY <1>1 DEF First
<1>3. \A i \in Int : Num(i) \in Int
  BY NumFacts
<1> QED
  BY <1>1, <1>2, <1>3 DEF AtNum, LastNum

LEMMA AheadLeft ==
  ASSUME Begun, TP!IInv, PlacesTyped, Shared, NEW c \in Consumers, cpc[c] \in Seeking,
         OnWay(c), NEW n \in Ahead(c)
  PROVE  n \in 0..Old /\ Left(n) # {}
<1>1. /\ First(c) \in Nat /\ End(c) \in Nat /\ First(c) <= End(c)
      /\ Holds(c) = First(c)..End(c) - 1
      /\ cpc[c] \in Seeking \ {"locate"} => First(c) = at[c].next
  BY HeldFacts
<1>2. AtNum(c) \in Int /\ LastNum(c) \in Int /\ Num(First(c)) \in Int
  BY NumsTyped
<1>3. n \in Int /\ n <= LastNum(c)
  BY <1>2 DEF Ahead
<1>4. First(c) < End(c) /\ Num(First(c)) <= n
  <2>1. CASE cpc[c] \notin {"forget", "release"}
    BY <1>1, <1>2, <2>1 DEF Ahead, Shared, Ordered, Seeking
  <2>2. CASE cpc[c] \in {"forget", "release"}
    <3>1. AtNum(c) = Num(at[c].next - 1) /\ AtNum(c) + 1 <= n /\ First(c) = at[c].next
      BY <1>1, <1>2, <2>2 DEF Ahead, AtNum, Seeking
    <3>2. First(c) # End(c)
      BY <1>2, <1>3, <3>1 DEF LastNum
    <3>3. First(c) < End(c)
      BY <1>1, <3>2
    <3>4. First(c) = Nth(AtNum(c) + 1)
      BY <2>2, <3>1, <3>3 DEF OnWay
    <3>5. Num(First(c)) = AtNum(c) + 1
      <4>1. PICK k \in Int : k = AtNum(c) + 1
        BY <1>2
      <4>2. Nth(k) \in Int /\ BlockSize \in Nat \ {0}
        BY NthFacts, ImplicitAssumption DEF ImplicitAssumption
      <4>3. Num(Nth(k)) = k
        BY <4>2, NumIs
      <4> QED
        BY <3>4, <4>1, <4>3
    <3> QED
      BY <3>1, <3>3, <3>5
  <2> QED
    BY <2>1, <2>2
<1>5. PICK i \in First(c)..End(c) - 1 : Num(i) = n
  <2>1. First(c) \in Int /\ End(c) \in Int /\ n <= Num(End(c) - 1)
    BY <1>1, <1>3 DEF LastNum
  <2> QED
    BY <1>3, <1>4, <2>1, HasElement
<1>6. i \in Holds(c)
  BY <1>1
<1> QED
  BY <1>5, <1>6, HeldFacts

LEMMA OnIndex ==
  ASSUME RingTyped, NEW c \in Consumers, at[c].header \in DOMAIN headers
  PROVE  /\ headers[at[c].header].capacity \in Nat \ {0}
         /\ \A p \in Int : EntryOn(c, p) \in 0..Ring - 1
         /\ \A p \in Int : 0 <= p /\ p < headers[at[c].header].capacity =>
              /\ EntryOn(c, p) = headers[at[c].header].index[p]
              /\ headers[at[c].header].index[p] \in 0..Ring - 1
<1>1. PICK h \in 1..Len(headers) : h = at[c].header
  BY HeadersTyped
<1>2. /\ headers[h].capacity \in Nat \ {0}
      /\ \A p \in 0..headers[h].capacity - 1 : headers[h].index[p] \in 0..Ring - 1
  BY HeadersTyped
<1>3. PICK C \in Nat \ {0} : C = headers[h].capacity
  BY <1>2
<1>4. \A p \in Int : EntryOn(c, p) = headers[h].index[p % C]
  BY <1>1, <1>3 DEF EntryOn
<1>5. \A p \in Int : p % C \in 0..C - 1
  BY RingFacts
<1>6. \A p \in 0..C - 1 : p % C = p
  BY RingFacts
<1>7. ASSUME NEW p \in Int PROVE EntryOn(c, p) \in 0..Ring - 1
  <2>1. p % C \in 0..C - 1
    BY <1>5
  <2> QED
    BY <1>2, <1>3, <1>4, <2>1
<1>8. ASSUME NEW p \in Int, 0 <= p, p < C
      PROVE  EntryOn(c, p) = headers[h].index[p] /\ headers[h].index[p] \in 0..Ring - 1
  <2>1. p \in 0..C - 1
    BY <1>8
  <2> QED
    BY <1>2, <1>3, <1>4, <1>6, <2>1
<1> QED
  BY <1>1, <1>2, <1>3, <1>7, <1>8

LEMMA EntryOnKept ==
  ASSUME HeadersKept, NEW c \in Consumers, at[c].header \in DOMAIN headers, at'[c] = at[c]
  PROVE  /\ \A p : EntryOn(c, p)' = EntryOn(c, p)
         /\ headers'[at[c].header].capacity = headers[at[c].header].capacity
         /\ headers'[at[c].header].index = headers[at[c].header].index
         /\ at[c].header \in DOMAIN headers'
BY DEF HeadersKept, EntryOn

\* What a step does to the keys: only one of a dead entry is changed, and
\* that of the oldest one.
KeysStay ==
  \A e \in 0..Ring - 1 :
    key'[e] = key[e] \/ (~Alive(e) /\ key[e] \in {INVALID_BLOCK_BASE, Nth(Top + 1 - Ring)})

\* A consumer that is not moved stays on its way.
LEMMA OnWayKept ==
  ASSUME Begun, TP!IInv, PlacesTyped, RingInv, Shared, LeftLive, NEW c \in Consumers, OnWay(c),
         UNCHANGED <<at[c], cpc[c], my[c]>>, HeadersKept, KeysStay,
         cpc[c] = "forget" => value'[EntryOf(c)] = value[EntryOf(c)],
         \A n \in Int : Left(n)' \subseteq Left(n)
  PROVE  OnWay(c)' /\ (cpc[c] \in {"take", "forget"} => EntryOf(c)' = EntryOf(c))
<1>0. CASE cpc[c] \notin {"base", "take", "forget", "release"}
  BY <1>0 DEF OnWay
<1>1. CASE cpc[c] \in {"base", "take", "forget", "release"}
  <2>1. /\ at[c].header \in DOMAIN headers /\ cpc[c] \in Seeking
        /\ at'[c] = at[c] /\ my'[c] = my[c] /\ cpc'[c] = cpc[c]
    BY <1>1 DEF OnWay, Seeking
  <2>2. /\ \A p : EntryOn(c, p)' = EntryOn(c, p)
        /\ headers'[at[c].header].capacity = headers[at[c].header].capacity
        /\ headers'[at[c].header].index = headers[at[c].header].index
        /\ at[c].header \in DOMAIN headers'
    BY <2>1, EntryOnKept
  <2>3. /\ AtNum(c)' = AtNum(c) /\ LastNum(c)' = LastNum(c) /\ EntryOf(c)' = EntryOf(c)
        /\ \A n : Coming(c, n)' = Coming(c, n)
        /\ \A m, n : FromTail(c, m, n)' = FromTail(c, m, n)
    BY <2>1, <2>2 DEF AtNum, LastNum, EntryOf, Coming, FromTail, End
  <2>4. /\ \A p \in Int : EntryOn(c, p) \in 0..Ring - 1
        /\ \A p \in Int : 0 <= p /\ p < headers[at[c].header].capacity =>
             headers[at[c].header].index[p] \in 0..Ring - 1
    BY <2>1, OnIndex DEF RingInv
  <2>5. AtNum(c) \in Int /\ LastNum(c) \in Int /\ Num(First(c)) \in Int /\ at[c] \in Whereabouts
    BY NumsTyped DEF PlacesTyped
  <2>6. at[c].pos \in Nat /\ at[c].tail \in Nat /\ at[c].next \in Nat
    BY <2>5 DEF Whereabouts
  <2>7. ASSUME NEW n \in Ahead(c), NEW e \in 0..Ring - 1, key[e] = Nth(n)
        PROVE  key'[e] = Nth(n)
    <3>1. n \in 0..Old /\ Left(n) # {}
      BY <2>1, AheadLeft
    <3>2. e = EntryAt(n) /\ Alive(EntryAt(n))
      BY <2>7, <3>1, LeftEntry
    <3> QED
      BY <2>7, <3>2 DEF KeysStay
  <2>8. CASE cpc[c] = "base"
    <3>1. /\ at[c].tail < headers[at[c].header].capacity
          /\ First(c) = at[c].next /\ First(c) < End(c)
      BY <2>8, HeldFacts DEF OnWay, Shared, Ordered, Seeking
    <3>2. PICK m \in Int : /\ TailKey(c) = Nth(m)
                           /\ \A n \in Num(at[c].next)..LastNum(c) :
                                n <= m /\ key[FromTail(c, m, n)] = Nth(n)
      BY <2>8 DEF OnWay
    <3>3. Ahead(c) = Num(at[c].next)..LastNum(c)
      BY <2>8, <3>1 DEF Ahead
    <3>4. PICK t : t = headers[at[c].header].index[at[c].tail]
      OBVIOUS
    <3>5. t \in 0..Ring - 1 /\ TailKey(c) = key[t] /\ TailKey(c)' = key'[t]
      BY <2>1, <2>2, <2>4, <2>6, <3>1, <3>4 DEF TailKey
    <3>6. key'[t] = key[t]
      <4>1. PICK n \in Int : n = Num(at[c].next)
        BY <2>5, <3>1
      <4>2. n \in Ahead(c)
        <5>1. at[c].next \in Int /\ End(c) - 1 \in Int /\ at[c].next <= End(c) - 1
          BY <2>6, <3>1, CountersFacts
        <5>2. n <= LastNum(c)
          BY <4>1, <5>1, NumOrder DEF LastNum
        <5> QED
          BY <2>5, <3>3, <4>1, <5>2
      <4>3. n \in 0..Old /\ Left(n) # {} /\ n <= m
        BY <2>1, <3>2, <3>3, <4>2, AheadLeft
      <4>4. n \in Window /\ Alive(EntryAt(n)) /\ (key[t] = Nth(n) => t = EntryAt(n))
        BY <3>5, <4>3, LeftEntry
      <4>5. Top \in Int /\ Ring \in Nat \ {0} /\ Top - Ring + 1 <= n /\ 0 <= n
        BY <4>1, <4>3, <4>4, OldFacts, HeadersTyped DEF Window, RingInv
      <4>6. key[t] # INVALID_BLOCK_BASE
        <5>1. Nth(m) \in Int /\ Nth(m) >= 0
          BY <4>3, <4>5, NthFacts
        <5> QED
          BY <3>2, <3>5, <5>1 DEF INVALID_BLOCK_BASE
      <4>7. ASSUME ~Alive(t), key[t] = Nth(Top + 1 - Ring) PROVE FALSE
        <5>1. Top + 1 - Ring \in Int
          BY <4>5
        <5>2. m = Top + 1 - Ring
          BY <3>2, <3>5, <4>7, <5>1, NthApart
        <5>3. n = m
          BY <4>3, <4>5, <5>2
        <5> QED
          BY <3>2, <3>5, <4>4, <4>7, <5>3
      <4> QED
        BY <3>5, <4>6, <4>7 DEF KeysStay
    <3>7. ASSUME NEW n \in Num(at[c].next)..LastNum(c)
          PROVE  n <= m /\ key'[FromTail(c, m, n)'] = Nth(n)
      <4>1. n \in Int /\ FromTail(c, m, n) \in 0..Ring - 1
        BY <2>4, <2>5, <2>6, <3>1, <3>2 DEF FromTail
      <4>2. key'[FromTail(c, m, n)] = Nth(n)
        BY <2>7, <3>2, <3>3, <4>1
      <4> QED
        BY <2>3, <3>2, <4>2
    <3>8. \A n \in Num(at[c].next)..LastNum(c) : n <= m /\ (key[FromTail(c, m, n)] = Nth(n))'
      BY <3>7
    <3>9. \E k \in Int : /\ TailKey(c)' = Nth(k)
                         /\ \A n \in Num(at[c].next)..LastNum(c) :
                              n <= k /\ (key[FromTail(c, k, n)] = Nth(n))'
      BY <3>2, <3>5, <3>6, <3>8
    <3>10. \E k \in Int : /\ TailKey(c)' = Nth(k)
                          /\ \A n \in Num(at'[c].next)..LastNum(c)' :
                               n <= k /\ (key[FromTail(c, k, n)] = Nth(n))'
      BY <2>1, <2>3, <3>9
    <3> QED
      BY <2>1, <2>2, <2>8, <3>1, <3>10 DEF OnWay
  <2>9. CASE cpc[c] \in {"take", "forget", "release"}
    <3>1. at[c].pos < headers[at[c].header].capacity
      BY <2>9 DEF OnWay
    <3>2. ASSUME NEW n \in AtNum(c) + 1..LastNum(c)
          PROVE  key'[Coming(c, n)] = Nth(n)
      <4>1. n \in Ahead(c)
        <5>1. CASE cpc[c] \in {"forget", "release"}
          BY <5>1 DEF Ahead
        <5>2. CASE cpc[c] = "take"
          <6>1. First(c) = at[c].next /\ AtNum(c) = Num(at[c].next)
            BY <5>2, HeldFacts DEF Seeking, AtNum
          <6> QED
            BY <2>5, <5>2, <6>1 DEF Ahead
        <5> QED
          BY <2>9, <5>1, <5>2
      <4>2. n \in Int /\ Coming(c, n) \in 0..Ring - 1 /\ key[Coming(c, n)] = Nth(n)
        BY <2>4, <2>5, <2>6, <2>9 DEF Coming, OnWay
      <4> QED
        BY <2>7, <4>1, <4>2
    <3>3. ASSUME cpc[c] \in {"take", "forget"}
          PROVE  key'[EntryOf(c)] = Nth(AtNum(c)) /\ EntryOf(c) \in 0..Ring - 1
      <4>1. EntryOf(c) \in 0..Ring - 1 /\ key[EntryOf(c)] = Nth(AtNum(c))
        BY <2>4, <2>6, <3>1, <3>3 DEF EntryOf, OnWay
      <4>2. CASE cpc[c] = "take"
        <5>1. /\ First(c) = at[c].next /\ AtNum(c) = Num(at[c].next) /\ First(c) < End(c)
              /\ End(c) \in Nat
          BY <4>2, HeldFacts, CountersFacts DEF Seeking, AtNum, Shared, Ordered
        <5>2. at[c].next \in Int /\ End(c) - 1 \in Int /\ at[c].next <= End(c) - 1
          BY <2>6, <5>1
        <5>3. AtNum(c) <= LastNum(c)
          BY <5>1, <5>2, NumOrder DEF LastNum
        <5>4. AtNum(c) \in Ahead(c)
          BY <2>5, <4>2, <5>1, <5>3 DEF Ahead
        <5> QED
          BY <2>7, <4>1, <5>4
      <4>3. CASE cpc[c] = "forget"
        <5>1. Alive(EntryOf(c))
          BY <4>3, ImplicitAssumption DEF OnWay, Alive, NoBlock, ImplicitAssumption
        <5> QED
          BY <4>1, <5>1 DEF KeysStay
      <4> QED
        BY <3>3, <4>1, <4>2, <4>3
    <3>4. \A n \in AtNum(c) + 1..LastNum(c) : (key[Coming(c, n)] = Nth(n))'
      BY <2>3, <3>2
    <3>5. cpc[c] \in {"take", "forget"} => (key[EntryOf(c)] = Nth(AtNum(c)))'
      BY <2>3, <3>3
    <3>6. cpc[c] = "forget" => (Left(AtNum(c)) = {})' /\ (value[EntryOf(c)] = at[c].block)'
      <4>1. ASSUME cpc[c] = "forget" PROVE Left(AtNum(c)) = {} /\ value'[EntryOf(c)] = at[c].block
        BY <4>1 DEF OnWay
      <4>2. PICK n \in Int : n = AtNum(c)
        BY <2>5
      <4>3. Left(AtNum(c))' = Left(n)'
        BY <2>3, <4>2 DEF Left, Elements
      <4> QED
        BY <2>1, <2>3, <4>1, <4>2, <4>3
    <3>7. cpc[c] \in {"forget", "release"} =>
            /\ at[c].block \in Blocks
            /\ at[c].next < End(c)' => at[c].next = Nth(AtNum(c)') + BlockSize
      <4>1. End(c)' = End(c)
        BY <2>1 DEF End
      <4>2. Nth(AtNum(c)) + BlockSize = Nth(AtNum(c) + 1)
        <5>1. PICK k \in Int : k = AtNum(c)
          BY <2>5
        <5>2. Nth(k) \in Int /\ Nth(k) + BlockSize = Nth(k + 1)
          BY NthFacts
        <5> QED
          BY <5>1, <5>2
      <4> QED
        BY <2>3, <4>1, <4>2 DEF OnWay
    <3>8. Nth(AtNum(c)') + BlockSize = Nth(AtNum(c)' + 1)
      <4>1. PICK k \in Int : k = AtNum(c)'
        BY <2>3, <2>5
      <4>2. Nth(k) \in Int /\ Nth(k) + BlockSize = Nth(k + 1)
        BY NthFacts
      <4> QED
        BY <4>1, <4>2
    <3> QED
      BY <2>1, <2>2, <2>3, <2>9, <3>1, <3>4, <3>5, <3>6, <3>7, <3>8 DEF OnWay
  <2> QED
    BY <1>1, <2>3, <2>8, <2>9
<1> QED
  BY <1>0, <1>1

-----------------------------------------------------------------------------
\* An element that is there lies in a block the producer has filled, and is left
\* in it until it is given.
LEMMA PlaceOfElement ==
  ASSUME Begun, NEW i \in 0..tailIndex - 1
  PROVE  Num(i) \in 0..Old /\ i \in Elements(Num(i)) /\ (~Given(i) => i \in Left(Num(i)))
<1>1. i \in Nat /\ tailIndex - 1 \in Int /\ i <= tailIndex - 1
  BY DEF Begun
<1>2. Num(i) \in Nat /\ Num(i) <= Old /\ Old \in Int
  BY <1>1, NatNum, NumOrder DEF Old
<1>3. i \in Elements(Num(i))
  BY <1>1, <1>2, ElementsFacts
<1> QED
  BY <1>2, <1>3 DEF Left

\* What is left stays where it is when no element is added or taken.
LEMMA StockKept ==
  ASSUME Begun, LeftLive, Filled, TailHeld, OnlyLeft,
         Old' = Old, UNCHANGED <<tailIndex, tailBlock, content>>,
         \A i \in Int : Given(i)' <=> Given(i),
         \A n \in 0..Old : \A e : LiveAt(n, e)' =>
           LiveAt(n, e) /\ value'[e] = value[e] /\ dequeued'[value[e]] = dequeued[value[e]],
         \A n \in 0..Old : \A e : LiveAt(n, e) => LiveAt(n, e)' \/ Left(n) = {},
         \A n \in 0..Old : \A e : LiveAt(n, e)' =>
           \A c \in Consumers : cpc[c] = "forget" /\ EntryOf(c) = e =>
             cpc'[c] = "forget" /\ EntryOf(c)' = e
  PROVE  LeftLive' /\ Filled' /\ TailHeld' /\ OnlyLeft'
<1>1. Old \in Int
  BY OldFacts
<1>2. \A n \in Int : Left(n)' = Left(n)
  BY ElementsFacts DEF Left, Elements
<1>3. \A n, e : LiveAt(n, e) => e \in 0..Ring - 1
  BY DEF LiveAt
<1>4. \A n, e : LiveAt(n, e)' => e \in 0..Ring' - 1
  BY DEF LiveAt
<1>5. LeftLive'
  <2>1. ASSUME NEW n \in 0..Old, Left(n) # {} PROVE \E e \in 0..Ring' - 1 : LiveAt(n, e)'
    <3>1. PICK e \in 0..Ring - 1 : LiveAt(n, e)
      BY <2>1 DEF LeftLive
    <3>2. LiveAt(n, e)'
      BY <2>1, <3>1
    <3> QED
      BY <1>4, <3>2
  <2> QED
    BY <1>2, <2>1 DEF LeftLive
<1>6. Filled'
  <2>1. ASSUME NEW n \in 0..Old, NEW e \in 0..Ring' - 1, LiveAt(n, e)'
        PROVE  /\ dequeued'[value'[e]] + Cardinality(Left(n)) = BlockSize
               /\ \A i \in Left(n) : i < tailIndex => content[value'[e]][Slot(i)] = i
               /\ Left(n) = {} => \E c \in Consumers : cpc'[c] = "forget" /\ EntryOf(c)' = e
    <3>1. /\ LiveAt(n, e) /\ value'[e] = value[e] /\ dequeued'[value[e]] = dequeued[value[e]]
          /\ e \in 0..Ring - 1
      BY <1>3, <2>1
    <3>2. /\ dequeued[value[e]] + Cardinality(Left(n)) = BlockSize
          /\ \A i \in Left(n) : i < tailIndex => content[value[e]][Slot(i)] = i
          /\ Left(n) = {} => \E c \in Consumers : cpc[c] = "forget" /\ EntryOf(c) = e
      BY <3>1 DEF Filled
    <3>3. Left(n) = {} => \E c \in Consumers : cpc'[c] = "forget" /\ EntryOf(c)' = e
      BY <2>1, <3>2
    <3> QED
      BY <3>1, <3>2, <3>3
  <2>2. \A n \in 0..Old, e \in 0..Ring' - 1 : LiveAt(n, e)' =>
          /\ dequeued'[value'[e]] + Cardinality(Left(n)') = BlockSize
          /\ \A i \in Left(n)' : i < tailIndex' => content'[value'[e]][Slot(i)] = i
          /\ Left(n)' = {} => \E c \in Consumers : cpc'[c] = "forget" /\ EntryOf(c)' = e
    BY <1>2, <2>1
  <2> QED
    BY <2>2 DEF Filled
<1>7. TailHeld'
  <2>1. ASSUME Old >= 0, NEW e \in 0..Ring' - 1, LiveAt(Old, e)' PROVE value'[e] = tailBlock
    <3>1. Old \in 0..Old
      BY <1>1, <2>1
    <3>2. PICK n \in 0..Old : n = Old
      BY <3>1
    <3>3. LiveAt(n, e)'
      BY <2>1, <3>2 DEF LiveAt
    <3>4. LiveAt(Old, e) /\ value'[e] = value[e] /\ e \in 0..Ring - 1
      BY <1>3, <3>2, <3>3
    <3> QED
      BY <2>1, <3>4 DEF TailHeld
  <2>2. \A e : LiveAt(Old, e)' <=> (e \in 0..Ring' - 1 /\ Alive(e)' /\ key'[e] = Nth(Old'))
    BY DEF LiveAt
  <2> QED
    BY <2>1, <2>2 DEF TailHeld, LiveAt
<1>8. OnlyLeft'
  <2>1. ASSUME NEW b \in Blocks, NEW s \in 0..BlockSize - 1, content[b][s] # Hole
        PROVE  \E e \in 0..Ring' - 1 : LiveAt(Num(content[b][s]), e)' /\ value'[e] = b
    <3>1. PICK i \in 0..tailIndex - 1 : i = content[b][s] /\ ~Given(i)
      BY <2>1 DEF OnlyLeft
    <3>2. PICK e \in 0..Ring - 1 : LiveAt(Num(i), e) /\ value[e] = b
      BY <2>1, <3>1 DEF OnlyLeft
    <3>3. Num(i) \in 0..Old /\ Left(Num(i)) # {}
      BY <3>1, PlaceOfElement
    <3>4. LiveAt(Num(i), e)' /\ value'[e] = b /\ e \in 0..Ring' - 1
      BY <1>4, <3>2, <3>3
    <3> QED
      BY <3>1, <3>4
  <2>2. ASSUME NEW b \in Blocks, NEW s \in 0..BlockSize - 1, content[b][s] # Hole
        PROVE  content[b][s] \in 0..tailIndex - 1 /\ ~Given(content[b][s])' /\ s = Slot(content[b][s])
    BY <2>2 DEF OnlyLeft
  <2>3. \A b \in Blocks, s \in 0..BlockSize - 1 : \A e :
          LiveAt(Num(content[b][s]), e)' <=> (LiveAt(Num(content[b][s]), e))'
    BY DEF LiveAt
  <2> QED
    BY <2>1, <2>2, <2>3 DEF OnlyLeft, LiveAt, Given
<1> QED
  BY <1>5, <1>6, <1>7, <1>8

-----------------------------------------------------------------------------
\* The invariant until the queue is destroyed.
Settled == Begun /\ TP!IInv /\ PlacesTyped /\ RingInv /\ Shared /\ Stock

LEMMA RealBlocks == \A b \in Blocks : b # NoBlock /\ b \in Nat
BY ImplicitAssumption DEF ImplicitAssumption, NoBlock

\* The entry a consumer clears is still that of its block.
LEMMA ForgetLive ==
  ASSUME Begun, TP!IInv, PlacesTyped, RingTyped, Shared, NEW c \in Consumers, cpc[c] = "forget", OnWay(c)
  PROVE  /\ AtNum(c) \in 0..Old /\ LiveAt(AtNum(c), EntryOf(c)) /\ EntryOf(c) \in 0..Ring - 1
         /\ value[EntryOf(c)] = at[c].block /\ at[c].block \in Blocks /\ Left(AtNum(c)) = {}
<1>1. /\ at[c].header \in DOMAIN headers /\ at[c].pos < headers[at[c].header].capacity
      /\ key[EntryOf(c)] = Nth(AtNum(c)) /\ value[EntryOf(c)] = at[c].block
      /\ at[c].block \in Blocks /\ Left(AtNum(c)) = {} /\ at[c].next >= 1
      /\ AtNum(c) = Num(at[c].next - 1)
  BY DEF OnWay, Shared, Ordered, AtNum
<1>2. at[c].pos \in Nat /\ at[c].next \in Nat
  BY DEF PlacesTyped, Whereabouts
<1>3. EntryOf(c) \in 0..Ring - 1
  <2>1. at[c].pos \in Int /\ 0 <= at[c].pos
    BY <1>2
  <2> QED
    BY <1>1, <2>1, OnIndex DEF EntryOf
<1>4. at[c].next <= tailIndex /\ tailIndex \in Nat
  BY HeldFacts, CountersFacts DEF Seeking
<1>5. at[c].next - 1 \in 0..tailIndex - 1
  BY <1>1, <1>2, <1>4
<1> QED
  BY <1>1, <1>3, <1>5, PlaceOfElement, RealBlocks DEF LiveAt, Alive

\* The entry a consumer takes from.
LEMMA TakeLive ==
  ASSUME Begun, TP!IInv, PlacesTyped, RingInv, Shared, LeftLive, NEW c \in Consumers,
         cpc[c] = "take", OnWay(c)
  PROVE  /\ AtNum(c) \in 0..Old /\ LiveAt(AtNum(c), EntryOf(c)) /\ EntryOf(c) \in 0..Ring - 1
         /\ value[EntryOf(c)] \in Blocks /\ AtNum(c) = Num(at[c].next)
         /\ at[c].next \in Left(AtNum(c)) /\ at[c].next < End(c)
         /\ Holds(c) = at[c].next..End(c) - 1
<1>1. /\ at[c].header \in DOMAIN headers /\ at[c].pos < headers[at[c].header].capacity
      /\ key[EntryOf(c)] = Nth(AtNum(c)) /\ AtNum(c) = Num(at[c].next)
  BY DEF OnWay, AtNum
<1>2. at[c].pos \in Nat /\ at[c].next \in Nat /\ End(c) \in Nat
  BY CountersFacts DEF PlacesTyped, Whereabouts
<1>3. EntryOf(c) \in 0..Ring - 1
  <2>1. at[c].pos \in Int /\ 0 <= at[c].pos
    BY <1>2
  <2> QED
    BY <1>1, <2>1, OnIndex DEF EntryOf, RingInv
<1>4. /\ at[c].next < End(c) /\ Holds(c) = at[c].next..End(c) - 1
  BY HeldFacts DEF Shared, Ordered, Seeking, First
<1>5. at[c].next \in Holds(c)
  BY <1>2, <1>4
<1>6. AtNum(c) \in 0..Old /\ at[c].next \in Left(AtNum(c))
  BY <1>1, <1>5, HeldFacts
<1>7. LiveAt(AtNum(c), EntryOf(c))
  BY <1>1, <1>3, <1>6, LeftEntry
<1>8. value[EntryOf(c)] \in Blocks
  BY <1>3, <1>7 DEF RingInv, RingTyped, LiveAt, Alive
<1> QED
  BY <1>1, <1>3, <1>4, <1>6, <1>7, <1>8

LEMMA SameHolds ==
  ASSUME UNCHANGED <<headIndex, cpc, my, at>>
  PROVE  (\A i : Given(i)' <=> Given(i)) /\ (\A n : Left(n)' = Left(n))
BY DEF Given, Left, Elements, Holds, First, End

\* What the producer does before it shows its elements leaves the others alone.
LEMMA ProducerKept ==
  ASSUME Settled, UNCHANGED <<headIndex, tailIndex, cpc, my, at, tailBlock, content>>, Old' = Old,
         HeadersKept, KeysStay,
         \A n \in 0..Old : \A e : LiveAt(n, e)' <=> LiveAt(n, e),
         \A n \in 0..Old : \A e : LiveAt(n, e) =>
           value'[e] = value[e] /\ dequeued'[value[e]] = dequeued[value[e]]
  PROVE  Shared' /\ Ways' /\ LeftLive' /\ Filled' /\ TailHeld' /\ OnlyLeft'
<1>1. Begun /\ TP!IInv /\ PlacesTyped /\ RingInv /\ Shared /\ Ways /\ LeftLive /\ Filled
      /\ TailHeld /\ OnlyLeft /\ RingTyped
  BY DEF Settled, Stock, RingInv
<1>2. (\A i : Given(i)' <=> Given(i)) /\ (\A n : Left(n)' = Left(n))
  BY SameHolds
<1>3. ASSUME NEW c \in Consumers
      PROVE  OnWay(c)' /\ (cpc[c] = "forget" => EntryOf(c)' = EntryOf(c))
  <2>1. ASSUME cpc[c] = "forget" PROVE value'[EntryOf(c)] = value[EntryOf(c)]
    <3>1. AtNum(c) \in 0..Old /\ LiveAt(AtNum(c), EntryOf(c))
      BY <1>1, <2>1, ForgetLive DEF Ways
    <3> QED
      BY <3>1
  <2> QED
    BY <1>1, <1>2, <2>1, OnWayKept DEF Ways
<1>4. Shared'
  BY <1>1 DEF Shared, Ordered, Holds, First, End
<1>5. Ways'
  BY <1>1, <1>3 DEF Ways
<1>6. LeftLive' /\ Filled' /\ TailHeld' /\ OnlyLeft'
  BY <1>1, <1>2, <1>3, StockKept
<1> QED
  BY <1>4, <1>5, <1>6

LEMMA SameLive ==
  ASSUME UNCHANGED <<headers, key, value>>
  PROVE  KeysStay /\ Ring' = Ring /\ \A n, e : LiveAt(n, e)' <=> LiveAt(n, e)
BY DEF KeysStay, Ring, Current, LiveAt, Alive

\* A block that is not moved stays in its place.
LEMMA PlaceKept ==
  ASSUME NEW b \in Blocks, OnePlace(b), pool'[b] = pool[b],
         \A e : (e \in 0..Ring' - 1 /\ value'[e] = b) <=> (e \in 0..Ring - 1 /\ value[e] = b),
         \A c \in Consumers : Carries(c, b)' <=> Carries(c, b),
         InCall(b)' <=> InCall(b)
  PROVE  OnePlace(b)'
<1>1. InIndex(b)' <=> InIndex(b)
  BY DEF InIndex
<1>2. InHand(b)' <=> InHand(b)
  BY DEF InHand
<1>3. \A e, f \in 0..Ring' - 1 : value'[e] = b /\ value'[f] = b => e = f
  BY DEF OnePlace
<1>4. \A c, d \in Consumers : Carries(c, b)' /\ Carries(d, b)' => c = d
  BY DEF OnePlace
<1>5. /\ pool'[b] \in {0, 1}
      /\ pool'[b] = 1 \/ InIndex(b)' \/ InHand(b)' \/ InCall(b)'
      /\ pool'[b] = 1 => ~InIndex(b)' /\ ~InHand(b)' /\ ~InCall(b)'
      /\ InIndex(b)' => ~InHand(b)' /\ ~InCall(b)'
      /\ InHand(b)' => ~InCall(b)'
  BY <1>1, <1>2 DEF OnePlace
<1> QED
  BY <1>3, <1>4, <1>5 DEF OnePlace

-----------------------------------------------------------------------------
(***************************************************************************)
(* The steps of the producer.                                              *)
(***************************************************************************)
LEMMA Wider ==
  ASSUME NEW r \in Int, NEW q \in Int, r <= q
  PROVE  0..r - 1 \subseteq 0..q - 1
OBVIOUS

\* A step of the producer that moves no block.
LEMMA NoBlockMoves ==
  ASSUME Settled, UNCHANGED <<ticketVars, blockVars, tailBlock, at>>, op'.chain = op.chain,
         Old' = Old, HeadersKept, KeysStay, Ring' \in Nat, Ring' >= Ring,
         \A n \in 0..Old : \A e : LiveAt(n, e)' <=> LiveAt(n, e),
         \A e \in 0..Ring - 1 : value'[e] = value[e],
         \A e \in 0..Ring' - 1 : e \notin 0..Ring - 1 => value'[e] = NoBlock,
         \A n \in Old + 1..Old + Len(op.chain) : EntryAt(n)' = EntryAt(n),
         \A k \in 1..Len(op.chain) : ~Unindexed(k) /\ ~Unindexed(k)'
  PROVE  Shared' /\ Stock'
<1>1. /\ Begun /\ TP!IInv /\ PlacesTyped /\ RingInv /\ RingTyped /\ Stock
      /\ Old \in Int /\ Len(op.chain) \in Nat /\ Ring \in Nat \ {0}
  BY OldFacts, HeadersTyped DEF Settled, RingInv
<1>2. /\ UNCHANGED <<headIndex, tailIndex, cpc, my, at, tailBlock, content>>
      /\ UNCHANGED <<dequeued, pool>>
  BY DEF ticketVars, counters, blockVars
<1>3. Shared' /\ Ways' /\ LeftLive' /\ Filled' /\ TailHeld' /\ OnlyLeft'
  <2>1. \A n \in 0..Old : \A e : LiveAt(n, e) =>
          value'[e] = value[e] /\ dequeued'[value[e]] = dequeued[value[e]]
    BY <1>2 DEF LiveAt
  <2> QED
    BY <1>2, <2>1, ProducerKept
<1>4. ChainBlocks'
  <2>1. ASSUME NEW k \in 1..Len(op.chain)
        PROVE  /\ dequeued'[op.chain[k]] = 0
               /\ value'[EntryAt(Old + k)'] = op.chain[k]
    <3>1. PICK n \in Int : n = Old + k
      BY <1>1
    <3>2. n \in Old + 1..Old + Len(op.chain)
      BY <1>1, <3>1
    <3>3. EntryAt(n)' = EntryAt(n) /\ EntryAt(n) \in 0..Ring - 1
      BY <1>1, <3>2, Entries
    <3>4. dequeued[op.chain[k]] = 0 /\ value[EntryAt(n)] = op.chain[k]
      BY <1>1, <3>1 DEF Stock, ChainBlocks
    <3>5. EntryAt(Old + k)' = EntryAt(n)'
      BY <3>1 DEF EntryAt
    <3> QED
      BY <1>2, <3>1, <3>3, <3>4, <3>5
  <2>2. \A k \in 1..Len(op.chain) : (value[EntryAt(Old + k)])' = op.chain[k]
    BY <2>1
  <2> QED
    BY <2>1, <2>2 DEF ChainBlocks
<1>5. ASSUME NEW b \in Blocks PROVE OnePlace(b)'
  <2>1. OnePlace(b) /\ b # NoBlock
    BY <1>1, RealBlocks DEF Stock
  <2>2. \A e : (e \in 0..Ring' - 1 /\ value'[e] = b) <=> (e \in 0..Ring - 1 /\ value[e] = b)
    <3>1. 0..Ring - 1 \subseteq 0..Ring' - 1
      <4>1. Ring \in Int /\ Ring' \in Int /\ Ring <= Ring'
        BY <1>1
      <4> QED
        BY <4>1, Wider
    <3> QED
      BY <2>1, <3>1
  <2>3. \A c \in Consumers : Carries(c, b)' <=> Carries(c, b)
    BY <1>2 DEF Carries
  <2>4. ~InCall(b) /\ ~InCall(b)'
    BY DEF InCall
  <2> QED
    BY <1>2, <2>1, <2>2, <2>3, <2>4, PlaceKept
<1> QED
  BY <1>3, <1>4, <1>5 DEF Stock

LEMMA SamePlacesTyped ==
  ASSUME PlacesTyped, UNCHANGED <<at, content, dequeued, pool, tailBlock, tailIndex>>,
         ppc' \in Busy => ppc \in Busy /\ op'.count = op.count
  PROVE  PlacesTyped'
BY DEF PlacesTyped

LEMMA EnqueueSettled ==
  ASSUME Settled, NEW n \in Amounts, Enqueue(n)
  PROVE  PlacesTyped' /\ RingInv' /\ Shared' /\ Stock'
<1>1. /\ Begun /\ RingInv /\ PlacesTyped
  BY DEF Settled
<1>2. /\ Old' = Old /\ ppc = "idle" /\ ppc' \in {"index", "fill"} /\ op'.chain = <<>> /\ op'.count = n
      /\ op.chain = <<>>
  BY <1>1, EnqueueBegun DEF Begun, Busy, NoOp
<1>3. /\ RingInv' /\ HeadersKept /\ \A k : EntryAt(k)' = EntryAt(k)
  BY <1>1, EnqueueRing
<1>4. UNCHANGED <<ticketVars, indexVars, blockVars, tailBlock, at>> /\ tailIndex + n <= MaxElements
  BY DEF Enqueue
<1>5. KeysStay /\ Ring' = Ring /\ \A m, e : LiveAt(m, e)' <=> LiveAt(m, e)
  BY <1>4, SameLive DEF indexVars
<1>6. Ring \in Nat
  BY <1>1, HeadersTyped DEF RingInv
<1>7. \A k \in 1..Len(op.chain) : ~Unindexed(k) /\ ~Unindexed(k)'
  BY <1>2 DEF Unindexed
<1>8. Shared' /\ Stock'
  BY <1>2, <1>3, <1>4, <1>5, <1>6, <1>7, NoBlockMoves DEF indexVars
<1>9. PlacesTyped'
  BY <1>1, <1>2, <1>4 DEF PlacesTyped, ticketVars, counters, blockVars
<1> QED
  BY <1>3, <1>8, <1>9

LEMMA FailSettled ==
  ASSUME Settled, GrowFails \/ FillThrows
  PROVE  PlacesTyped' /\ RingInv' /\ Shared' /\ Stock'
<1>1. /\ Begun /\ RingInv /\ PlacesTyped
  BY DEF Settled
<1>2. /\ Fail /\ ppc \in {"index", "fill"} /\ ppc \in Busy
      /\ UNCHANGED <<ticketVars, indexVars, blockVars, tailBlock, at>>
  BY DEF GrowFails, FillThrows, Busy
<1>3. /\ Old' = Old /\ op'.chain = op.chain /\ ppc' = "undo" /\ op'.undo = 1 /\ op'.count = op.count
  <2>1. UNCHANGED <<tailIndex, cpc>>
    BY <1>2 DEF ticketVars, counters
  <2> QED
    BY <1>1, <1>2, <2>1, FailBegun DEF Begun, IsOp
<1>4. /\ RingInv' /\ HeadersKept /\ \A k : EntryAt(k)' = EntryAt(k)
  BY <1>1, FailRing
<1>5. KeysStay /\ Ring' = Ring /\ \A m, e : LiveAt(m, e)' <=> LiveAt(m, e)
  BY <1>2, SameLive DEF indexVars
<1>6. Ring \in Nat
  BY <1>1, HeadersTyped DEF RingInv
<1>7. \A k \in 1..Len(op.chain) : ~Unindexed(k) /\ ~Unindexed(k)'
  BY <1>2, <1>3 DEF Unindexed
<1>8. Shared' /\ Stock'
  BY <1>2, <1>3, <1>4, <1>5, <1>6, <1>7, NoBlockMoves DEF indexVars
<1>9. PlacesTyped'
  BY <1>1, <1>2, <1>3, SamePlacesTyped DEF ticketVars, counters, blockVars
<1> QED
  BY <1>4, <1>8, <1>9

LEMMA GrowSettled ==
  ASSUME Settled, GrowIndex
  PROVE  PlacesTyped' /\ RingInv' /\ Shared' /\ Stock'
<1>1. /\ Begun /\ RingInv /\ PlacesTyped
  BY DEF Settled
<1>2. UNCHANGED <<ticketVars, blockVars, producerVars, at>>
  BY DEF GrowIndex
<1>3. /\ Old' = Old /\ op' = op /\ ppc' = ppc /\ ppc = "index" /\ Top' = Top
  BY <1>1, GrowFrame
<1>4. /\ RingInv' /\ HeadersKept /\ Ring' = 2 * Ring
      /\ \A n \in Window : EntryAt(n)' = EntryAt(n)
      /\ \A e \in 0..Ring - 1 : key'[e] = key[e] /\ value'[e] = value[e]
      /\ \A e \in Ring..2 * Ring - 1 : key'[e] = INVALID_BLOCK_BASE /\ value'[e] = NoBlock
  BY <1>1, GrowRing
<1>5. /\ Ring \in Nat \ {0} /\ Top \in Int /\ Old \in Int /\ Len(op.chain) \in Nat
      /\ Top = Old + Len(op.chain) /\ Top - Old <= Ring
  BY <1>1, <1>3, HeadersTyped, OldFacts, ChainFits DEF RingInv
<1>6. Ring' \in Nat /\ Ring' >= Ring
  BY <1>4, <1>5
<1>7. \A e \in 0..Ring' - 1 : e \notin 0..Ring - 1 => value'[e] = NoBlock
  BY <1>4, <1>5
<1>8. KeysStay
  BY <1>4 DEF KeysStay
<1>9. ASSUME NEW n, NEW e PROVE LiveAt(n, e)' <=> LiveAt(n, e)
  <2>1. CASE e \in 0..Ring - 1
    <3>1. e \in 0..Ring' - 1
      <4>1. Ring \in Int /\ Ring' \in Int /\ Ring <= Ring'
        BY <1>5, <1>6
      <4>2. 0..Ring - 1 \subseteq 0..Ring' - 1
        BY <4>1, Wider
      <4> QED
        BY <2>1, <4>2
    <3> QED
      BY <1>4, <2>1, <3>1 DEF LiveAt, Alive
  <2>2. CASE e \notin 0..Ring - 1
    BY <1>7, <2>2 DEF LiveAt, Alive
  <2> QED
    BY <2>1, <2>2
<1>10. \A n \in Old + 1..Old + Len(op.chain) : EntryAt(n)' = EntryAt(n)
  <2>1. ASSUME NEW n \in Old + 1..Old + Len(op.chain) PROVE n \in Window
    BY <1>5, <2>1 DEF Window
  <2> QED
    BY <1>4, <2>1
<1>11. \A k \in 1..Len(op.chain) : ~Unindexed(k) /\ ~Unindexed(k)'
  BY <1>3 DEF Unindexed
<1>12. UNCHANGED tailBlock /\ op'.chain = op.chain
  BY <1>2, <1>3 DEF producerVars
<1>13. Shared' /\ Stock'
  BY <1>2, <1>3, <1>4, <1>6, <1>7, <1>8, <1>9, <1>10, <1>11, <1>12, NoBlockMoves
<1>14. PlacesTyped'
  BY <1>1, <1>2, <1>3, SamePlacesTyped DEF ticketVars, counters, blockVars, producerVars
<1> QED
  BY <1>4, <1>13, <1>14

LEMMA InsertSettled ==
  ASSUME Settled, InsertEntry
  PROVE  PlacesTyped' /\ RingInv' /\ Shared' /\ Stock'
<1>1. /\ Begun /\ RingInv /\ PlacesTyped /\ ChainBlocks
  BY DEF Settled, Stock
<1>2. /\ Old' = Old /\ ppc' = "block" /\ ppc = "index" /\ Top' = Top + 1
      /\ op'.chain = op.chain /\ op' = [op EXCEPT !.entry = NextEntry]
  BY <1>1, InsertFrame
<1>3. /\ UNCHANGED <<ticketVars, value, blockVars, tailBlock, at>> /\ NextEntryFree
  BY DEF InsertEntry
<1>4. /\ Top \in Int /\ Old \in Int /\ Ring \in Nat \ {0} /\ Len(op.chain) \in Nat
      /\ op.chain \in Seq(Blocks) /\ Top = Old + Len(op.chain) /\ Top - Old <= Ring
  BY <1>1, <1>2, OldFacts, HeadersTyped, ChainFits DEF RingInv
<1>5. /\ NextEntry = EntryAt(Top + 1 - Ring) /\ NextEntry \in 0..Ring - 1 /\ ~Alive(NextEntry)
  BY <1>1, <1>2, <1>3, NextEntryIs
<1>6. Top - Old < Ring
  <2> SUFFICES ASSUME Top - Old = Ring PROVE FALSE
    BY <1>4
  <2>1. Top + 1 - Ring = Old + 1 /\ 1 \in 1..Len(op.chain)
    BY <1>4
  <2>2. value[EntryAt(Old + 1)] = op.chain[1] /\ op.chain[1] \in Blocks
    <3>1. op.chain[1] \in Blocks
      BY <1>4, <2>1, ElementOfSeq
    <3>2. ~Unindexed(1)
      BY <1>2 DEF Unindexed
    <3> QED
      BY <1>1, <2>1, <3>1, <3>2 DEF ChainBlocks
  <2> QED
    BY <1>5, <2>1, <2>2, RealBlocks DEF Alive
<1>7. /\ RingInv' /\ HeadersKept /\ Ring' = Ring /\ \A n \in Int : EntryAt(n)' = EntryAt(n)
      /\ key' = [key EXCEPT ![NextEntry] = Nth(Top + 1)]
  BY <1>1, <1>6, InsertRing
<1>8. KeysStay
  <2>1. Top + 1 - Ring \in Window
    BY <1>4 DEF Window
  <2>2. key[NextEntry] \in {INVALID_BLOCK_BASE, Nth(Top + 1 - Ring), Nth(Top + 1 - Ring + Ring)}
    BY <1>1, <1>5, <2>1 DEF RingInv, KeysKnown
  <2>3. Top + 1 - Ring + Ring = Top + 1
    BY <1>4
  <2>4. key \in [0..Ring - 1 -> Nat \cup {INVALID_BLOCK_BASE}]
    BY <1>1 DEF RingInv, RingTyped
  <2>5. ASSUME NEW e \in 0..Ring - 1, e # NextEntry PROVE key'[e] = key[e]
    BY <1>7, <2>4, <2>5
  <2>6. key'[NextEntry] = Nth(Top + 1)
    BY <1>5, <1>7, <2>4
  <2> QED
    BY <1>5, <2>2, <2>3, <2>5, <2>6 DEF KeysStay
<1>9. ASSUME NEW n, NEW e PROVE LiveAt(n, e)' <=> LiveAt(n, e)
  <2>1. key \in [0..Ring - 1 -> Nat \cup {INVALID_BLOCK_BASE}]
    BY <1>1 DEF RingInv, RingTyped
  <2>2. CASE e = NextEntry
    BY <1>3, <1>5, <2>2 DEF LiveAt, Alive
  <2>3. CASE e # NextEntry
    BY <1>3, <1>7, <2>1, <2>3 DEF LiveAt, Alive
  <2> QED
    BY <2>2, <2>3
<1>10. \A k \in 1..Len(op.chain) : ~Unindexed(k) /\ ~Unindexed(k)'
  BY <1>2 DEF Unindexed
<1>11. Shared' /\ Stock'
  BY <1>2, <1>3, <1>4, <1>7, <1>8, <1>9, <1>10, NoBlockMoves
<1>12. PlacesTyped'
  <2>1. op'.count = op.count
    BY <1>1, <1>2 DEF Begun, IsOp
  <2> QED
    BY <1>1, <1>2, <1>3, <2>1, SamePlacesTyped DEF ticketVars, counters, blockVars, Busy
<1> QED
  BY <1>7, <1>11, <1>12

LEMMA GetFailsSettled ==
  ASSUME Settled, GetBlockFails
  PROVE  PlacesTyped' /\ RingInv' /\ Shared' /\ Stock'
<1>1. /\ Begun /\ RingInv /\ PlacesTyped
  BY DEF Settled
<1>2. /\ Fail /\ ppc = "block" /\ ppc \in Busy
      /\ UNCHANGED <<ticketVars, key, blockVars, tailBlock, at>>
  BY DEF GetBlockFails, Busy
<1>3. /\ Old' = Old /\ op'.chain = op.chain /\ ppc' = "undo" /\ op'.undo = 1 /\ op'.count = op.count
  <2>1. UNCHANGED <<tailIndex, cpc>>
    BY <1>2 DEF ticketVars, counters
  <2> QED
    BY <1>1, <1>2, <2>1, FailBegun DEF Begun, IsOp
<1>4. /\ RingInv' /\ HeadersKept /\ Ring' = Ring /\ \A k \in Int : EntryAt(k)' = EntryAt(k)
      /\ value' = value
  BY <1>1, GetFailsRing
<1>5. KeysStay /\ \A m, e : LiveAt(m, e)' <=> LiveAt(m, e)
  BY <1>2, <1>4 DEF KeysStay, LiveAt, Alive
<1>6. Ring \in Nat /\ Old \in Int /\ Len(op.chain) \in Nat
  BY <1>1, HeadersTyped, OldFacts DEF RingInv
<1>7. \A k \in 1..Len(op.chain) : ~Unindexed(k) /\ ~Unindexed(k)'
  BY <1>2, <1>3 DEF Unindexed
<1>8. Shared' /\ Stock'
  BY <1>2, <1>3, <1>4, <1>5, <1>6, <1>7, NoBlockMoves
<1>9. PlacesTyped'
  BY <1>1, <1>2, <1>3, SamePlacesTyped DEF ticketVars, counters, blockVars
<1> QED
  BY <1>4, <1>8, <1>9

-----------------------------------------------------------------------------
LEMMA GetSettled ==
  ASSUME Settled, GetBlock
  PROVE  PlacesTyped' /\ RingInv' /\ Shared' /\ Stock'
<1>1. /\ Begun /\ RingInv /\ PlacesTyped /\ ChainBlocks /\ \A b \in Blocks : OnePlace(b)
  BY DEF Settled, Stock
<1>2. PICK new \in Blocks : new = Min(Free) /\ pool[new] > 0
  BY <1>1, GetFrame
<1>3. /\ Old' = Old /\ ppc' = "store" /\ ppc = "block" /\ op'.chain = Append(op.chain, new)
  BY <1>1, <1>2, GetFrame
<1>4. /\ pool' = [pool EXCEPT ![new] = @ - 1] /\ dequeued' = [dequeued EXCEPT ![new] = 0]
      /\ UNCHANGED <<ticketVars, indexVars, content, tailBlock, at>>
      /\ op' = [op EXCEPT !.chain = Append(@, new)]
  BY <1>2 DEF GetBlock
<1>5. /\ pool \in [Blocks -> Nat] /\ dequeued \in [Blocks -> 0..BlockSize]
      /\ op.chain \in Seq(Blocks) /\ Len(op.chain) \in Nat /\ Old \in Int
  BY <1>1, OldFacts DEF PlacesTyped
<1>6. /\ pool[new] = 1 /\ ~InIndex(new) /\ ~InHand(new) /\ pool'[new] = 0 /\ dequeued'[new] = 0
      /\ \A b \in Blocks : b # new => pool'[b] = pool[b] /\ dequeued'[b] = dequeued[b]
  <2>1. pool[new] \in {0, 1} /\ (pool[new] = 1 => ~InIndex(new) /\ ~InHand(new))
    BY <1>1 DEF OnePlace
  <2>2. pool[new] = 1
    BY <1>2, <2>1
  <2> QED
    BY <1>4, <1>5, <2>1, <2>2
<1>7. /\ Len(op'.chain) = Len(op.chain) + 1 /\ op'.chain[Len(op.chain) + 1] = new
      /\ \A k \in 1..Len(op.chain) : op'.chain[k] = op.chain[k]
  BY <1>3, <1>5, AppendProperties
<1>8. KeysStay /\ Ring' = Ring /\ \A m, e : LiveAt(m, e)' <=> LiveAt(m, e)
  BY <1>4, SameLive DEF indexVars
<1>9. /\ RingInv' /\ HeadersKept /\ \A k : EntryAt(k)' = EntryAt(k)
  BY <1>1, GetRing
<1>10. Shared' /\ Ways' /\ LeftLive' /\ Filled' /\ TailHeld' /\ OnlyLeft'
  <2>1. ASSUME NEW n \in 0..Old, NEW e, LiveAt(n, e)
        PROVE  value'[e] = value[e] /\ dequeued'[value[e]] = dequeued[value[e]]
    <3>1. e \in 0..Ring - 1 /\ value[e] # NoBlock
      BY <2>1 DEF LiveAt, Alive
    <3>2. value[e] \in Blocks
      BY <1>1, <3>1 DEF RingInv, RingTyped
    <3>3. value[e] # new
      BY <1>6, <3>1 DEF InIndex
    <3> QED
      BY <1>4, <1>6, <3>2, <3>3 DEF indexVars
  <2> QED
    BY <1>3, <1>4, <1>8, <1>9, <2>1, ProducerKept DEF ticketVars, counters
<1>11. ChainBlocks'
  <2>1. ASSUME NEW k \in 1..Len(op.chain) + 1
        PROVE  /\ dequeued'[op'.chain[k]] = 0
               /\ k # Len(op.chain) + 1 => value'[EntryAt(Old + k)'] = op'.chain[k]
    <3>1. CASE k = Len(op.chain) + 1
      BY <1>6, <1>7, <3>1
    <3>2. CASE k # Len(op.chain) + 1
      <4>1. k \in 1..Len(op.chain) /\ op'.chain[k] = op.chain[k] /\ op.chain[k] \in Blocks
        <5>1. k \in 1..Len(op.chain)
          BY <1>5, <3>2
        <5> QED
          BY <1>5, <1>7, <5>1, ElementOfSeq
      <4>2. dequeued[op.chain[k]] = 0 /\ value[EntryAt(Old + k)] = op.chain[k]
        <5>1. ~Unindexed(k)
          BY <1>3 DEF Unindexed
        <5> QED
          BY <1>1, <4>1, <5>1 DEF ChainBlocks
      <4>3. dequeued'[op.chain[k]] = 0
        BY <1>6, <4>1, <4>2
      <4>4. EntryAt(Old + k)' = EntryAt(Old + k)
        BY <1>3, <1>9 DEF EntryAt
      <4> QED
        BY <1>4, <4>1, <4>2, <4>3, <4>4 DEF indexVars
    <3> QED
      BY <3>1, <3>2
  <2> QED
    BY <1>3, <1>7, <2>1 DEF ChainBlocks, Unindexed
<1>12. ASSUME NEW b \in Blocks PROVE OnePlace(b)'
  <2>1. \A e : (e \in 0..Ring' - 1 /\ value'[e] = b) <=> (e \in 0..Ring - 1 /\ value[e] = b)
    BY <1>4, <1>8 DEF indexVars
  <2>2. \A c \in Consumers : Carries(c, b)' <=> Carries(c, b)
    BY <1>4 DEF Carries, ticketVars
  <2>3. InCall(b)' <=> b = new
    BY <1>3, <1>5, <1>7 DEF InCall, Unindexed
  <2>4. ~InCall(b)
    BY <1>3 DEF InCall, Unindexed
  <2>5. CASE b # new
    BY <1>1, <1>6, <2>1, <2>2, <2>3, <2>4, <2>5, PlaceKept
  <2>6. CASE b = new
    <3>1. ~InIndex(b)' /\ ~InHand(b)' /\ InCall(b)'
      BY <1>6, <2>1, <2>2, <2>3, <2>6 DEF InIndex, InHand
    <3>2. /\ \A e, f \in 0..Ring' - 1 : value'[e] = b /\ value'[f] = b => e = f
          /\ \A c, d \in Consumers : Carries(c, b)' /\ Carries(d, b)' => c = d
      BY <3>1 DEF InIndex, InHand
    <3> QED
      BY <1>6, <2>6, <3>1, <3>2 DEF OnePlace
  <2> QED
    BY <2>5, <2>6
<1>13. PlacesTyped'
  <2>1. pool' \in [Blocks -> Nat] /\ dequeued' \in [Blocks -> 0..BlockSize]
    <3>1. pool[new] - 1 \in Nat /\ 0 \in 0..BlockSize
      BY <1>6, ImplicitAssumption DEF ImplicitAssumption
    <3> QED
      BY <1>4, <1>5, <3>1
  <2>2. op'.count = op.count
    BY <1>1, <1>4 DEF Begun, IsOp
  <2> QED
    BY <1>1, <1>3, <1>4, <2>1, <2>2 DEF PlacesTyped, ticketVars, counters, Busy
<1> QED
  BY <1>9, <1>10, <1>11, <1>12, <1>13 DEF Stock

\* An entry of the call is not that of a block the producer has filled, nor of
\* another of the call.
LEMMA CallEntries ==
  ASSUME Begun, RingInv, NEW k \in 1..Top - Old
  PROVE  /\ EntryAt(Old + k) \in 0..Ring - 1 /\ key[EntryAt(Old + k)] = Nth(Old + k)
         /\ \A n \in 0..Old : \A e : LiveAt(n, e) => e # EntryAt(Old + k)
         /\ \A n \in 0..Old : key[EntryAt(Old + k)] # Nth(n)
         /\ \A j \in 1..Top - Old : EntryAt(Old + j) = EntryAt(Old + k) => j = k
<1>1. Old \in Int /\ Top \in Int
  BY OldFacts
<1>2. ASSUME NEW j \in 1..Top - Old
      PROVE  EntryAt(Old + j) \in 0..Ring - 1 /\ key[EntryAt(Old + j)] = Nth(Old + j)
  <2>1. PICK n \in Int : n = Old + j
    BY <1>1
  <2>2. n \in Old + 1..Top
    BY <1>1, <2>1
  <2>3. EntryAt(n) \in 0..Ring - 1 /\ key[EntryAt(n)] = Nth(n)
    BY <2>2, Entries DEF RingInv, ChainKeys
  <2> QED
    BY <2>1, <2>3
<1>3. \A n \in 0..Old : key[EntryAt(Old + k)] # Nth(n)
  <2>1. ASSUME NEW n \in 0..Old PROVE Nth(Old + k) # Nth(n)
    <3>1. Old + k \in Int /\ n \in Int /\ Old + k # n
      BY <1>1
    <3> QED
      BY <3>1, NthApart
  <2> QED
    BY <1>2, <2>1
<1>4. ASSUME NEW j \in 1..Top - Old, EntryAt(Old + j) = EntryAt(Old + k) PROVE j = k
  <2>1. Nth(Old + j) = Nth(Old + k)
    BY <1>2, <1>4
  <2>2. Old + j \in Int /\ Old + k \in Int
    BY <1>1
  <2>3. Old + j = Old + k
    BY <2>1, <2>2, NthApart
  <2> QED
    BY <1>1, <2>3
<1> QED
  BY <1>2, <1>3, <1>4 DEF LiveAt

LEMMA StoreSettled ==
  ASSUME Settled, StoreBlock
  PROVE  PlacesTyped' /\ RingInv' /\ Shared' /\ Stock'
<1>1. /\ Begun /\ RingInv /\ PlacesTyped /\ ChainBlocks /\ \A b \in Blocks : OnePlace(b)
  BY DEF Settled, Stock
<1>2. /\ Old' = Old /\ ppc' \in {"index", "fill"} /\ ppc = "store" /\ Top' = Top
      /\ op'.chain = op.chain /\ Len(op.chain) > 0
  BY <1>1, StoreFrame
<1>3. /\ RingInv' /\ HeadersKept /\ Ring' = Ring /\ \A n : EntryAt(n)' = EntryAt(n)
      /\ op.entry = EntryAt(Top) /\ op.entry \in 0..Ring - 1 /\ ~Alive(op.entry)
      /\ key[op.entry] = Nth(Top) /\ Top = Old + Len(op.chain)
      /\ op.chain[Len(op.chain)] \in Blocks
  BY <1>1, RealBlocks, StoreRing
<1>4. PICK new \in Blocks, last \in 0..Ring - 1 : new = op.chain[Len(op.chain)] /\ last = op.entry
  BY <1>3
<1>5. /\ value' = [value EXCEPT ![last] = new]
      /\ UNCHANGED <<ticketVars, headers, key, blockVars, tailBlock, at>>
      /\ op' = [op EXCEPT !.base = @ + BlockSize]
  BY <1>4 DEF StoreBlock
<1>6. /\ Old \in Int /\ Top \in Int /\ Len(op.chain) \in Nat \ {0} /\ op.chain \in Seq(Blocks)
      /\ Top - Old = Len(op.chain) /\ Len(op.chain) \in 1..Top - Old
      /\ value \in [0..Ring - 1 -> Blocks \cup {NoBlock}]
  <2>1. /\ Old \in Int /\ Top \in Int /\ Len(op.chain) \in Nat /\ op.chain \in Seq(Blocks)
    BY <1>1, OldFacts
  <2>2. value \in [0..Ring - 1 -> Blocks \cup {NoBlock}]
    BY <1>1 DEF RingInv, RingTyped
  <2> QED
    BY <1>2, <1>3, <2>1, <2>2
<1>7. /\ value'[last] = new /\ value[last] = NoBlock
      /\ \A e \in 0..Ring - 1 : e # last => value'[e] = value[e]
  BY <1>3, <1>4, <1>5, <1>6 DEF Alive
<1>8. /\ \A n \in 0..Old : key[last] # Nth(n)
      /\ \A j \in 1..Top - Old : EntryAt(Old + j) = last => j = Len(op.chain)
      /\ EntryAt(Old + Len(op.chain)) = last
  BY <1>1, <1>3, <1>4, <1>6, CallEntries
<1>9. ASSUME NEW n \in 0..Old, NEW e
      PROVE  /\ LiveAt(n, e)' <=> LiveAt(n, e)
             /\ LiveAt(n, e) => value'[e] = value[e] /\ dequeued'[value[e]] = dequeued[value[e]]
  <2>1. CASE e = last
    BY <1>3, <1>5, <1>8, <2>1 DEF LiveAt
  <2>2. CASE e # last
    BY <1>3, <1>5, <1>7, <2>2 DEF LiveAt, Alive, blockVars
  <2> QED
    BY <2>1, <2>2
<1>10. Shared' /\ Ways' /\ LeftLive' /\ Filled' /\ TailHeld' /\ OnlyLeft'
  <2>1. KeysStay
    BY <1>5 DEF KeysStay
  <2> QED
    BY <1>2, <1>3, <1>5, <1>9, <2>1, ProducerKept DEF ticketVars, counters, blockVars
<1>11. ChainBlocks'
  <2>1. ASSUME NEW k \in 1..Len(op.chain)
        PROVE  /\ dequeued'[op.chain[k]] = 0 /\ value'[EntryAt(Old + k)'] = op.chain[k]
    <3>1. EntryAt(Old + k)' = EntryAt(Old + k)
      BY <1>2, <1>3 DEF EntryAt
    <3>2. dequeued[op.chain[k]] = 0 /\ (k # Len(op.chain) => value[EntryAt(Old + k)] = op.chain[k])
      BY <1>1, <1>2 DEF ChainBlocks, Unindexed
    <3>3. EntryAt(Old + k) \in 0..Ring - 1 /\ (EntryAt(Old + k) = last => k = Len(op.chain))
      BY <1>1, <1>6, <1>8, CallEntries
    <3>4. CASE k = Len(op.chain)
      BY <1>4, <1>5, <1>7, <1>8, <3>1, <3>2, <3>4 DEF blockVars
    <3>5. CASE k # Len(op.chain)
      BY <1>5, <1>7, <3>1, <3>2, <3>3, <3>5 DEF blockVars
    <3> QED
      BY <3>4, <3>5
  <2> QED
    BY <1>2, <2>1 DEF ChainBlocks
<1>12. ASSUME NEW b \in Blocks PROVE OnePlace(b)'
  <2>1. \A c \in Consumers : Carries(c, b)' <=> Carries(c, b)
    BY <1>5 DEF Carries, ticketVars
  <2>2. InCall(b) <=> b = new
    BY <1>2, <1>4, <1>6 DEF InCall, Unindexed
  <2>3. ~InCall(b)'
    BY <1>2 DEF InCall, Unindexed
  <2>4. pool'[b] = pool[b] /\ OnePlace(b) /\ b # NoBlock
    BY <1>1, <1>5, RealBlocks DEF blockVars
  <2>5. CASE b # new
    <3>1. \A e : (e \in 0..Ring' - 1 /\ value'[e] = b) <=> (e \in 0..Ring - 1 /\ value[e] = b)
      BY <1>3, <1>7, <2>4, <2>5
    <3> QED
      BY <2>1, <2>2, <2>3, <2>4, <2>5, <3>1, PlaceKept
  <2>6. CASE b = new
    <3>1. pool[b] = 0 /\ ~InIndex(b) /\ ~InHand(b)
      BY <2>2, <2>4, <2>6 DEF OnePlace
    <3>2. \A e \in 0..Ring' - 1 : value'[e] = b <=> e = last
      BY <1>3, <1>7, <2>6, <3>1 DEF InIndex
    <3>3. InIndex(b)' /\ ~InHand(b)'
      BY <1>3, <2>1, <3>1, <3>2 DEF InIndex, InHand
    <3>4. /\ \A e, f \in 0..Ring' - 1 : value'[e] = b /\ value'[f] = b => e = f
          /\ \A c, d \in Consumers : Carries(c, b)' /\ Carries(d, b)' => c = d
      BY <3>2, <3>3 DEF InHand
    <3> QED
      BY <2>3, <2>4, <3>1, <3>3, <3>4 DEF OnePlace
  <2> QED
    BY <2>5, <2>6
<1>13. PlacesTyped'
  <2>1. op'.count = op.count
    BY <1>1, <1>5 DEF Begun, IsOp
  <2> QED
    BY <1>1, <1>2, <1>5, <2>1, SamePlacesTyped DEF ticketVars, counters, blockVars, Busy
<1> QED
  BY <1>3, <1>10, <1>11, <1>12, <1>13 DEF Stock

LEMMA UndoSettled ==
  ASSUME Settled, UndoEntry
  PROVE  PlacesTyped' /\ RingInv' /\ Shared' /\ Stock'
<1>1. /\ Begun /\ RingInv /\ PlacesTyped /\ ChainBlocks /\ \A b \in Blocks : OnePlace(b)
  BY DEF Settled, Stock
<1>2. /\ Old' = Old /\ ppc' = "undo" /\ ppc = "undo" /\ Top' = Top
      /\ op'.chain = op.chain /\ op'.undo = op.undo + 1 /\ op.undo \in 1..Len(op.chain)
  BY <1>1, UndoFrame
<1>3. /\ RingInv' /\ HeadersKept /\ Ring' = Ring /\ \A n \in Int : EntryAt(n)' = EntryAt(n)
      /\ value' = [value EXCEPT ![EntryAt(Old + op.undo)] = NoBlock]
      /\ EntryAt(Old + op.undo) \in 0..Ring - 1
  BY <1>1, UndoRing
<1>4. /\ UNCHANGED <<ticketVars, key, blockVars, tailBlock, at>>
      /\ op' = [op EXCEPT !.undo = @ + 1]
  BY DEF UndoEntry
<1>5. /\ Old \in Int /\ Top \in Int /\ Len(op.chain) \in Nat /\ op.chain \in Seq(Blocks)
      /\ Top - Old = Len(op.chain) /\ op.undo \in 1..Top - Old
      /\ value \in [0..Ring - 1 -> Blocks \cup {NoBlock}]
  BY <1>1, <1>2, OldFacts DEF RingInv, RingTyped
<1>6. PICK last \in 0..Ring - 1 : last = EntryAt(Old + op.undo)
  BY <1>3
<1>7. PICK back \in Blocks : back = op.chain[op.undo] /\ value[last] = back
  <2>1. op.chain[op.undo] \in Blocks
    BY <1>2, <1>5, ElementOfSeq
  <2>2. ~Unindexed(op.undo)
    BY <1>2, <1>5 DEF Unindexed
  <2> QED
    BY <1>1, <1>2, <1>6, <2>1, <2>2 DEF ChainBlocks
<1>8. /\ value'[last] = NoBlock
      /\ \A e \in 0..Ring - 1 : e # last => value'[e] = value[e]
  BY <1>3, <1>5, <1>6
<1>9. /\ \A n \in 0..Old : key[last] # Nth(n)
      /\ \A j \in 1..Top - Old : EntryAt(Old + j) = last => j = op.undo
  BY <1>1, <1>5, <1>6, CallEntries
<1>10. ASSUME NEW n \in 0..Old, NEW e
       PROVE  /\ LiveAt(n, e)' <=> LiveAt(n, e)
              /\ LiveAt(n, e) => value'[e] = value[e] /\ dequeued'[value[e]] = dequeued[value[e]]
  <2>1. CASE e = last
    BY <1>3, <1>4, <1>9, <2>1 DEF LiveAt
  <2>2. CASE e # last
    BY <1>3, <1>4, <1>8, <2>2 DEF LiveAt, Alive, blockVars
  <2> QED
    BY <2>1, <2>2
<1>11. Shared' /\ Ways' /\ LeftLive' /\ Filled' /\ TailHeld' /\ OnlyLeft'
  <2>1. KeysStay
    BY <1>4 DEF KeysStay
  <2> QED
    BY <1>2, <1>3, <1>4, <1>10, <2>1, ProducerKept DEF ticketVars, counters, blockVars
<1>12. ChainBlocks'
  <2>1. ASSUME NEW k \in 1..Len(op.chain)
        PROVE  /\ dequeued'[op.chain[k]] = 0
               /\ ~(k < op.undo + 1) => value'[EntryAt(Old + k)'] = op.chain[k]
    <3>1. EntryAt(Old + k)' = EntryAt(Old + k)
      <4>1. PICK n \in Int : n = Old + k
        BY <1>5
      <4>2. EntryAt(Old + k)' = EntryAt(n)'
        BY <1>2, <4>1 DEF EntryAt
      <4> QED
        BY <1>3, <4>1, <4>2
    <3>2. dequeued[op.chain[k]] = 0 /\ (~(k < op.undo) => value[EntryAt(Old + k)] = op.chain[k])
      BY <1>1, <1>2 DEF ChainBlocks, Unindexed
    <3>3. EntryAt(Old + k) \in 0..Ring - 1 /\ (EntryAt(Old + k) = last => k = op.undo)
      BY <1>1, <1>5, <1>9, CallEntries
    <3>4. ~(k < op.undo + 1) => k # op.undo /\ ~(k < op.undo)
      BY <1>2
    <3> QED
      BY <1>4, <1>8, <3>1, <3>2, <3>3, <3>4 DEF blockVars
  <2> QED
    BY <1>2, <2>1 DEF ChainBlocks, Unindexed
<1>13. ASSUME NEW b \in Blocks PROVE OnePlace(b)'
  <2>1. \A c \in Consumers : Carries(c, b)' <=> Carries(c, b)
    BY <1>4 DEF Carries, ticketVars
  <2>2. \A k \in 1..Len(op.chain) : (Unindexed(k) <=> k < op.undo) /\ (Unindexed(k)' <=> k < op.undo + 1)
    BY <1>2 DEF Unindexed
  <2>3. pool'[b] = pool[b] /\ OnePlace(b) /\ b # NoBlock
    BY <1>1, <1>4, RealBlocks DEF blockVars
  <2>4. CASE b # back
    <3>1. \A e : (e \in 0..Ring' - 1 /\ value'[e] = b) <=> (e \in 0..Ring - 1 /\ value[e] = b)
      BY <1>3, <1>7, <1>8, <2>3, <2>4
    <3>2. InCall(b)' <=> InCall(b)
      <4>1. \A k \in 1..Len(op.chain) : op.chain[k] = b => (k < op.undo <=> k < op.undo + 1)
        BY <1>2, <1>7, <2>4
      <4> QED
        BY <1>2, <2>2, <4>1 DEF InCall
    <3> QED
      BY <2>1, <2>3, <3>1, <3>2, PlaceKept
  <2>5. CASE b = back
    <3>1. InIndex(b) /\ pool[b] = 0 /\ ~InHand(b)
      BY <1>7, <2>3, <2>5 DEF InIndex, OnePlace
    <3>2. \A e \in 0..Ring' - 1 : value'[e] # b
      BY <1>3, <1>7, <1>8, <2>3, <2>5 DEF OnePlace
    <3>3. InCall(b)'
      <4>1. op.undo \in 1..Len(op'.chain) /\ Unindexed(op.undo) \in BOOLEAN
        BY <1>2 DEF Unindexed
      <4>2. PICK k \in 1..Len(op.chain) : k = op.undo
        BY <1>2
      <4>3. Unindexed(k)' /\ op'.chain[k] = b
        BY <1>2, <1>7, <2>2, <2>5, <4>2
      <4> QED
        BY <1>2, <4>2, <4>3 DEF InCall
    <3>4. ~InIndex(b)' /\ ~InHand(b)'
      BY <2>1, <3>1, <3>2 DEF InIndex, InHand
    <3>5. /\ \A e, f \in 0..Ring' - 1 : value'[e] = b /\ value'[f] = b => e = f
          /\ \A c, d \in Consumers : Carries(c, b)' /\ Carries(d, b)' => c = d
      BY <3>2, <3>4 DEF InHand
    <3> QED
      BY <2>3, <3>1, <3>3, <3>4, <3>5 DEF OnePlace
  <2> QED
    BY <2>4, <2>5
<1>14. PlacesTyped'
  <2>1. op'.count = op.count
    BY <1>1, <1>4 DEF Begun, IsOp
  <2> QED
    BY <1>1, <1>2, <1>4, <2>1, SamePlacesTyped DEF ticketVars, counters, blockVars, Busy
<1> QED
  BY <1>3, <1>11, <1>12, <1>13, <1>14 DEF Stock

LEMMA UndoneSettled ==
  ASSUME Settled, UndoDone
  PROVE  PlacesTyped' /\ RingInv' /\ Shared' /\ Stock'
<1>1. /\ Begun /\ RingInv /\ PlacesTyped /\ \A b \in Blocks : OnePlace(b)
  BY DEF Settled, Stock
<1>2. /\ Old' = Old /\ ppc' = "idle" /\ ppc = "undo" /\ op' = NoOp /\ op.undo = Len(op.chain) + 1
  BY <1>1, UndoneFrame
<1>3. /\ RingInv' /\ HeadersKept /\ Ring' = Ring
  BY <1>1, UndoneRing
<1>4. /\ UNCHANGED <<ticketVars, indexVars, content, dequeued, tailBlock, at>>
      /\ pool' = [b \in Blocks |-> IF \E i \in DOMAIN op.chain : op.chain[i] = b
                                   THEN pool[b] + 1 ELSE pool[b]]
  BY DEF UndoDone
<1>5. Len(op.chain) \in Nat /\ DOMAIN op.chain = 1..Len(op.chain)
  BY <1>1, OldFacts, LenProperties
<1>6. KeysStay /\ \A m, e : LiveAt(m, e)' <=> LiveAt(m, e)
  BY <1>4, SameLive DEF indexVars
<1>7. Shared' /\ Ways' /\ LeftLive' /\ Filled' /\ TailHeld' /\ OnlyLeft'
  BY <1>2, <1>3, <1>4, <1>6, ProducerKept DEF ticketVars, counters, indexVars
<1>8. op'.chain = <<>> /\ Len(op'.chain) = 0
  BY <1>2 DEF NoOp
<1>9. ChainBlocks'
  BY <1>8 DEF ChainBlocks
<1>10. ASSUME NEW b \in Blocks PROVE OnePlace(b)'
  <2>1. \A e : (e \in 0..Ring' - 1 /\ value'[e] = b) <=> (e \in 0..Ring - 1 /\ value[e] = b)
    BY <1>3, <1>4 DEF indexVars
  <2>2. \A c \in Consumers : Carries(c, b)' <=> Carries(c, b)
    BY <1>4 DEF Carries, ticketVars
  <2>3. ~InCall(b)'
    BY <1>8 DEF InCall
  <2>4. InCall(b) <=> \E i \in DOMAIN op.chain : op.chain[i] = b
    <3>1. \A k \in 1..Len(op.chain) : Unindexed(k)
      BY <1>2, <1>5 DEF Unindexed
    <3> QED
      BY <1>5, <3>1 DEF InCall
  <2>5. CASE ~InCall(b)
    BY <1>1, <1>4, <2>1, <2>2, <2>3, <2>4, <2>5, PlaceKept
  <2>6. CASE InCall(b)
    <3>1. pool[b] = 0 /\ ~InIndex(b) /\ ~InHand(b) /\ pool'[b] = pool[b] + 1
      BY <1>1, <1>4, <2>4, <2>6 DEF OnePlace
    <3>2. ~InIndex(b)' /\ ~InHand(b)'
      BY <2>1, <2>2, <3>1 DEF InIndex, InHand
    <3>3. /\ \A e, f \in 0..Ring' - 1 : value'[e] = b /\ value'[f] = b => e = f
          /\ \A c, d \in Consumers : Carries(c, b)' /\ Carries(d, b)' => c = d
      BY <3>2 DEF InIndex, InHand
    <3>4. pool'[b] = 1
      BY <3>1
    <3> QED
      BY <2>3, <3>2, <3>3, <3>4 DEF OnePlace
  <2> QED
    BY <2>5, <2>6
<1>11. PlacesTyped'
  <2>1. pool \in [Blocks -> Nat]
    BY <1>1 DEF PlacesTyped
  <2>2. pool' \in [Blocks -> Nat]
    BY <1>4, <2>1
  <2> QED
    BY <1>1, <1>2, <1>4, <2>2 DEF PlacesTyped, ticketVars, counters, Busy
<1> QED
  BY <1>3, <1>7, <1>9, <1>10, <1>11 DEF Stock

-----------------------------------------------------------------------------
LEMMA MaxOfOne ==
  ASSUME NEW i \in Int
  PROVE  Max({i}) = i
<1>1. \A x \in {i} : (\A y \in {i} : x >= y) <=> x = i
  OBVIOUS
<1> QED
  BY <1>1 DEF Max

\* Block n of those the call fills: the tail block, or one of the chain.
HomeOf(n) == IF n = Old THEN tailBlock ELSE op.chain[n - Old]

\* The elements of the call.
Added == tailIndex..tailIndex + op.count - 1

LEMMA FillBlocks ==
  ASSUME Begun, ppc = "fill", NEW i \in Added
  PROVE  /\ i \in Nat /\ tailIndex <= i /\ i < tailIndex + op.count
         /\ Num(i) \in Nat /\ Num(i) \in Old..Old + Len(op.chain)
         /\ BlockOf(i) = HomeOf(Num(i)) /\ Slot(i) \in 0..BlockSize - 1
<1>1. /\ tailIndex \in Nat /\ op.start = tailIndex /\ op.count \in Nat \ {0}
      /\ Num(op.start + op.count - 1) = Old + Len(op.chain)
      /\ Old \in Int /\ Len(op.chain) \in Nat
  BY OldFacts, AmountsPositive DEF Begun, Busy
<1>2. i \in Nat /\ tailIndex <= i /\ i <= tailIndex + op.count - 1
  BY <1>1 DEF Added
<1>3. Num(i) \in Nat /\ Slot(i) \in 0..BlockSize - 1 /\ Base(i) = Nth(Num(i))
  BY <1>2, NatNum, NumFacts
<1>4. Num(i) >= Old
  <2>1. tailIndex - 1 \in Int /\ tailIndex - 1 <= i
    BY <1>1, <1>2
  <2> QED
    BY <1>2, <2>1, NumOrder DEF Old
<1>5. Num(i) <= Old + Len(op.chain)
  <2>1. PICK l \in Int : l = op.start + op.count - 1
    BY <1>1
  <2>2. i \in Int /\ i <= l
    BY <1>1, <1>2, <2>1
  <2>3. Num(i) <= Num(l)
    BY <2>2, NumOrder
  <2> QED
    BY <1>1, <2>1, <2>3
<1>6. Base(op.start - 1) = Nth(Old) /\ Nth(Old) + BlockSize = Nth(Old + 1) /\ Old + 1 \in Int
  <2>1. op.start - 1 \in Int /\ op.start - 1 = tailIndex - 1
    BY <1>1
  <2>2. Base(op.start - 1) = Nth(Num(op.start - 1))
    BY <2>1, NumFacts
  <2>3. Num(op.start - 1) = Old
    BY <2>1 DEF Old
  <2>4. Nth(Old) + BlockSize = Nth(Old + 1) /\ Old + 1 \in Int
    BY <1>1, NthFacts
  <2> QED
    BY <2>2, <2>3, <2>4
<1>7. Base(i) = Base(op.start - 1) <=> Num(i) = Old
  <2>1. Num(i) \in Int
    BY <1>3
  <2>2. Nth(Num(i)) = Nth(Old) => Num(i) = Old
    BY <1>1, <2>1, NthApart
  <2> QED
    BY <1>3, <1>6, <2>2
<1>8. (Base(i) - (Base(op.start - 1) + BlockSize)) \div BlockSize = Num(i) - (Old + 1)
  BY <1>3, <1>6, NthApart
<1>9. 1 + (Num(i) - (Old + 1)) = Num(i) - Old
  BY <1>1, <1>3
<1>10. i < tailIndex + op.count
  BY <1>1, <1>2
<1>11. Num(i) \in Old..Old + Len(op.chain)
  BY <1>1, <1>3, <1>4, <1>5
<1>12. BlockOf(i) = HomeOf(Num(i))
  <2>1. CASE Num(i) = Old
    BY <1>7, <2>1 DEF BlockOf, HomeOf
  <2>2. CASE Num(i) # Old
    BY <1>7, <1>8, <1>9, <2>2 DEF BlockOf, HomeOf
  <2> QED
    BY <2>1, <2>2
<1> QED
  BY <1>2, <1>3, <1>10, <1>11, <1>12

\* Every block of the call has a live entry.
LEMMA FillEntries ==
  ASSUME Settled, ppc = "fill", NEW n \in Int, Old <= n, n <= Old + Len(op.chain),
         n > Old \/ (Left(n) # {} /\ n >= 0)
  PROVE  /\ LiveAt(n, EntryAt(n)) /\ EntryAt(n) \in 0..Ring - 1 /\ value[EntryAt(n)] = HomeOf(n)
         /\ n \in Nat /\ HomeOf(n) \in Blocks
         /\ \A e : LiveAt(n, e) => e = EntryAt(n)
<1>1. /\ Begun /\ RingInv /\ LeftLive /\ TailHeld /\ ChainBlocks /\ Old \in Int /\ Old >= -1
      /\ Len(op.chain) \in Nat /\ op.chain \in Seq(Blocks) /\ Top = Old + Len(op.chain)
      /\ \A e \in 0..Ring - 1 : value[e] \in Blocks \cup {NoBlock}
  BY OldFacts DEF Settled, Stock, RingInv, RingTyped
<1>2. /\ LiveAt(n, EntryAt(n)) /\ EntryAt(n) \in 0..Ring - 1 /\ value[EntryAt(n)] = HomeOf(n)
      /\ n \in Nat
  <2>1. CASE n = Old
    <3>1. n \in 0..Old /\ Left(n) # {}
      BY <1>1, <2>1
    <3>2. LiveAt(n, EntryAt(n)) /\ EntryAt(n) \in 0..Ring - 1
      BY <1>1, <3>1, LeftEntry
    <3> QED
      BY <1>1, <2>1, <3>1, <3>2 DEF TailHeld, HomeOf
  <2>2. CASE n # Old
    <3>1. PICK k \in 1..Len(op.chain) : n = Old + k /\ k = n - Old
      BY <1>1, <2>2
    <3>2. op.chain[k] \in Blocks /\ value[EntryAt(n)] = op.chain[k]
      <4>1. ~Unindexed(k)
        BY DEF Unindexed
      <4> QED
        BY <1>1, <3>1, <4>1, ElementOfSeq DEF ChainBlocks
    <3>3. EntryAt(n) \in 0..Ring - 1 /\ key[EntryAt(n)] = Nth(n)
      <4>1. k \in 1..Top - Old
        BY <1>1
      <4> QED
        BY <1>1, <3>1, <4>1, CallEntries
    <3> QED
      BY <1>1, <2>2, <3>1, <3>2, <3>3, RealBlocks DEF LiveAt, Alive, HomeOf
  <2> QED
    BY <2>1, <2>2
<1>3. \A e : LiveAt(n, e) => e = EntryAt(n)
  BY <1>1, <1>2, LiveEntry DEF LiveAt
<1>4. HomeOf(n) \in Blocks
  BY <1>1, <1>2 DEF LiveAt, Alive
<1> QED
  BY <1>2, <1>3, <1>4

\* The place of a new element: its block has an entry of its own.
LEMMA FillPlace ==
  ASSUME Settled, ppc = "fill", NEW i \in Added
  PROVE  /\ LiveAt(Num(i), EntryAt(Num(i))) /\ EntryAt(Num(i)) \in 0..Ring - 1
         /\ value[EntryAt(Num(i))] = BlockOf(i) /\ BlockOf(i) \in Blocks
         /\ \A e : LiveAt(Num(i), e) => e = EntryAt(Num(i))
         /\ ~Given(i) /\ i \in Left(Num(i))
<1>1. /\ Begun /\ headIndex \in Nat /\ tailIndex \in Nat /\ headIndex <= tailIndex
  BY CountersFacts DEF Settled
<1>2. /\ i \in Nat /\ tailIndex <= i /\ i < tailIndex + op.count
      /\ Num(i) \in Nat /\ Num(i) \in Old..Old + Len(op.chain)
      /\ BlockOf(i) = HomeOf(Num(i))
  BY <1>1, FillBlocks
<1>3. ~Given(i) /\ i \in Left(Num(i))
  <2>1. ~Given(i)
    BY <1>1, <1>2 DEF Given
  <2>2. i \in Elements(Num(i))
    BY <1>2, ElementsFacts
  <2> QED
    BY <2>1, <2>2 DEF Left
<1>4. Num(i) \in Int /\ Old <= Num(i) /\ Num(i) <= Old + Len(op.chain)
  BY <1>1, <1>2, OldFacts
<1> QED
  BY <1>2, <1>3, <1>4, FillEntries

\* One block, one slot, one element.
LEMMA FillApart ==
  ASSUME Settled, ppc = "fill", NEW i \in Added, NEW n \in Int, NEW e \in 0..Ring - 1,
         LiveAt(n, e), value[e] = BlockOf(i)
  PROVE  n = Num(i) /\ e = EntryAt(Num(i))
<1>1. /\ LiveAt(Num(i), EntryAt(Num(i))) /\ EntryAt(Num(i)) \in 0..Ring - 1
      /\ value[EntryAt(Num(i))] = BlockOf(i) /\ BlockOf(i) \in Blocks
  BY FillPlace
<1>2. OnePlace(BlockOf(i)) /\ Begun
  BY <1>1 DEF Settled, Stock
<1>3. e = EntryAt(Num(i))
  BY <1>1, <1>2 DEF OnePlace
<1>4. Nth(n) = Nth(Num(i)) /\ Num(i) \in Int
  BY <1>1, <1>2, <1>3, FillBlocks DEF LiveAt
<1> QED
  BY <1>3, <1>4, NthApart

\* The new elements lie in their slots, and hide no other.
LEMMA FillContent ==
  ASSUME Settled, Fill
  PROVE  /\ \A i \in Added : content'[BlockOf(i)][Slot(i)] = i
         /\ \A b \in Blocks, s \in 0..BlockSize - 1 :
              \/ content'[b][s] = content[b][s]
              \/ \E i \in Added : BlockOf(i) = b /\ Slot(i) = s /\ content'[b][s] = i
         /\ \A b \in Blocks, s \in 0..BlockSize - 1 :
              content[b][s] # Hole => content'[b][s] = content[b][s]
         /\ content' \in [Blocks -> [0..BlockSize - 1 -> Int]]
<1> DEFINE There(b, s) == {i \in Added : BlockOf(i) = b /\ Slot(i) = s}
<1>1. /\ ppc = "fill" /\ op.start = tailIndex /\ Begun /\ OnlyLeft
      /\ content \in [Blocks -> [0..BlockSize - 1 -> Int]] /\ tailIndex \in Nat
  BY DEF Settled, Stock, Fill, Begun, Busy, PlacesTyped
<1>2. content' = [b \in Blocks |-> [s \in 0..BlockSize - 1 |->
                    IF There(b, s) # {} THEN Max(There(b, s)) ELSE content[b][s]]]
  BY <1>1 DEF Fill, Added
<1>3. ASSUME NEW b, NEW s, NEW i \in There(b, s)
      PROVE  /\ There(b, s) = {i} /\ Max(There(b, s)) = i /\ i \in Int
             /\ i \in Added /\ BlockOf(i) = b /\ Slot(i) = s
  <2>1. i \in Added /\ BlockOf(i) = b /\ Slot(i) = s
    OBVIOUS
  <2>2. ASSUME NEW j \in There(b, s) PROVE j = i
    <3>1. j \in Added /\ BlockOf(j) = BlockOf(i) /\ Slot(j) = Slot(i)
      BY <2>1
    <3>2. /\ LiveAt(Num(j), EntryAt(Num(j))) /\ EntryAt(Num(j)) \in 0..Ring - 1
          /\ value[EntryAt(Num(j))] = BlockOf(j) /\ Num(j) \in Int
          /\ i \in Int /\ j \in Int /\ Num(i) \in Int
      BY <1>1, <2>1, <3>1, FillPlace, FillBlocks
    <3>3. Num(j) = Num(i)
      BY <1>1, <2>1, <3>1, <3>2, FillApart
    <3>4. i \in Elements(Num(i)) /\ j \in Elements(Num(i))
      BY <3>2, <3>3, ElementsFacts
    <3> QED
      BY <3>1, <3>2, <3>4, ElementsFacts
  <2>3. i \in Int
    BY <1>1, <2>1, FillBlocks
  <2>4. There(b, s) = {i}
    BY <2>1, <2>2
  <2> HIDE DEF There
  <2> QED
    BY <2>1, <2>3, <2>4, MaxOfOne
<1> HIDE DEF There
<1>4. ASSUME NEW b \in Blocks, NEW s \in 0..BlockSize - 1
      PROVE  content'[b][s] = IF There(b, s) # {} THEN Max(There(b, s)) ELSE content[b][s]
  BY <1>2
<1>5. ASSUME NEW i \in Added PROVE content'[BlockOf(i)][Slot(i)] = i
  <2>1. i \in There(BlockOf(i), Slot(i))
    BY DEF There
  <2>2. BlockOf(i) \in Blocks /\ Slot(i) \in 0..BlockSize - 1
    BY <1>1, FillPlace, FillBlocks
  <2>3. Max(There(BlockOf(i), Slot(i))) = i
    BY <1>3, <2>1
  <2> QED
    BY <1>4, <2>1, <2>2, <2>3
<1>6. ASSUME NEW b \in Blocks, NEW s \in 0..BlockSize - 1
      PROVE  /\ \/ content'[b][s] = content[b][s]
                \/ \E i \in Added : BlockOf(i) = b /\ Slot(i) = s /\ content'[b][s] = i
             /\ content'[b][s] \in Int
  <2>1. CASE There(b, s) = {}
    BY <1>1, <1>4, <2>1
  <2>2. CASE There(b, s) # {}
    <3>1. PICK i : i \in There(b, s)
      BY <2>2
    <3>2. content'[b][s] = i /\ i \in Added /\ BlockOf(i) = b /\ Slot(i) = s /\ i \in Int
      BY <1>3, <1>4, <2>2, <3>1
    <3> QED
      BY <3>2
  <2> QED
    BY <2>1, <2>2
<1>7. ASSUME NEW b \in Blocks, NEW s \in 0..BlockSize - 1, content[b][s] # Hole
      PROVE  content'[b][s] = content[b][s]
  <2>1. PICK x \in 0..tailIndex - 1 : x = content[b][s] /\ s = Slot(x)
    BY <1>1, <1>7 DEF OnlyLeft
  <2>2. PICK e \in 0..Ring - 1 : LiveAt(Num(x), e) /\ value[e] = b
    BY <1>1, <1>7, <2>1 DEF OnlyLeft
  <2>3. ASSUME NEW i \in There(b, s) PROVE FALSE
    <3>1. i \in Added /\ BlockOf(i) = b /\ Slot(i) = s
      BY <1>3
    <3>2. Num(x) \in Int /\ x \in Int /\ x < tailIndex
      <4>1. x \in Int /\ x < tailIndex
        BY <1>1, <2>1
      <4> QED
        BY <4>1, NumFacts
    <3>3. Num(x) = Num(i)
      BY <1>1, <2>2, <3>1, <3>2, FillApart
    <3>4. i \in Int /\ tailIndex <= i /\ Num(i) \in Int
      BY <1>1, <3>1, FillBlocks
    <3>5. i \in Elements(Num(i)) /\ x \in Elements(Num(i))
      BY <3>2, <3>3, <3>4, ElementsFacts
    <3>6. x = i
      BY <2>1, <3>1, <3>4, <3>5, ElementsFacts
    <3> QED
      BY <1>1, <3>2, <3>4, <3>6
  <2>4. There(b, s) = {}
    BY <2>3
  <2> QED
    BY <1>4, <2>4
<1>8. content' \in [Blocks -> [0..BlockSize - 1 -> Int]]
  <2>1. \A b \in Blocks, s \in 0..BlockSize - 1 :
          (IF There(b, s) # {} THEN Max(There(b, s)) ELSE content[b][s]) \in Int
    BY <1>4, <1>6
  <2> QED
    BY <1>2, <2>1
<1> QED
  BY <1>5, <1>6, <1>7, <1>8

LEMMA FillSettled ==
  ASSUME Settled, Fill
  PROVE  PlacesTyped' /\ RingInv' /\ Shared' /\ Stock'
<1>1. /\ Begun /\ TP!IInv /\ RingInv /\ PlacesTyped /\ Shared /\ Ways /\ LeftLive /\ Filled
      /\ TailHeld /\ OnlyLeft /\ ChainBlocks /\ \A b \in Blocks : OnePlace(b)
  BY DEF Settled, Stock
<1>2. /\ ppc' = "idle" /\ ppc = "fill" /\ op' = NoOp
      /\ Old' = Old + Len(op.chain) /\ op.count \in Nat \ {0} /\ op.start = tailIndex
      /\ tailIndex' = tailIndex + op.count
  BY <1>1, FillFrame
<1>3. /\ UNCHANGED <<indexVars, dequeued, pool, at, headIndex, cpc, my>>
      /\ tailBlock' = BlockOf(tailIndex + op.count - 1)
  BY <1>2 DEF Fill, Publish
<1>4. /\ RingInv' /\ HeadersKept /\ Ring' = Ring
  BY <1>1, FillRing
<1>5. KeysStay /\ \A m, e : LiveAt(m, e)' <=> LiveAt(m, e)
  BY <1>3, SameLive DEF indexVars
<1>6. /\ Old \in Int /\ Old >= -1 /\ Len(op.chain) \in Nat /\ op.chain \in Seq(Blocks)
      /\ tailIndex \in Nat /\ headIndex \in Nat /\ headIndex <= tailIndex /\ Old' \in Int
      /\ \A n \in 0..Old' : n \in Int /\ 0 <= n /\ n <= Old + Len(op.chain)
  BY <1>1, <1>2, OldFacts, CountersFacts
<1>7. (\A i : Given(i)' <=> Given(i)) /\ (\A n : Left(n)' = Left(n))
  BY <1>3, SameHolds
<1>8. /\ \A i \in Added : content'[BlockOf(i)][Slot(i)] = i
      /\ \A b \in Blocks, s \in 0..BlockSize - 1 :
           \/ content'[b][s] = content[b][s]
           \/ \E i \in Added : BlockOf(i) = b /\ Slot(i) = s /\ content'[b][s] = i
      /\ \A b \in Blocks, s \in 0..BlockSize - 1 :
           content[b][s] # Hole => content'[b][s] = content[b][s]
      /\ content' \in [Blocks -> [0..BlockSize - 1 -> Int]]
  BY FillContent
<1>9. PICK last \in Added : last = tailIndex + op.count - 1
  BY <1>2, <1>6 DEF Added
<1>10. Num(last) = Old'
  <2>1. tailIndex' - 1 = last
    BY <1>2, <1>6, <1>9
  <2> QED
    BY <2>1 DEF Old
\* The elements of a new block are all to come.
<1>11. ASSUME NEW n \in Int, Old < n
       PROVE  Left(n) = Elements(n) /\ \A i \in Elements(n) : i \in Int /\ tailIndex <= i
  <2>1. ASSUME NEW i \in Elements(n) PROVE i \in Int /\ tailIndex <= i /\ ~Given(i)
    <3>1. i \in Int /\ Num(i) = n
      BY ElementsFacts
    <3>2. ~(i <= tailIndex - 1)
      <4> SUFFICES ASSUME i <= tailIndex - 1 PROVE FALSE
        OBVIOUS
      <4>1. tailIndex - 1 \in Int
        BY <1>6
      <4>2. Num(i) <= Old
        BY <3>1, <4>1, NumOrder DEF Old
      <4> QED
        BY <1>6, <1>11, <3>1, <4>2
    <3>3. tailIndex <= i
      BY <1>6, <3>1, <3>2
    <3> QED
      BY <1>6, <3>1, <3>3 DEF Given
  <2> QED
    BY <2>1 DEF Left
<1>12. Shared'
  BY <1>1, <1>3 DEF Shared, Ordered, Holds, First, End
<1>13. Ways'
  <2>1. ASSUME NEW c \in Consumers
        PROVE  OnWay(c)' /\ (cpc[c] = "forget" => EntryOf(c)' = EntryOf(c))
    BY <1>1, <1>3, <1>4, <1>5, <1>7, OnWayKept DEF Ways, indexVars
  <2> QED
    BY <1>1, <1>3, <2>1 DEF Ways
<1>14. LeftLive'
  <2>1. ASSUME NEW n \in 0..Old', Left(n) # {} PROVE \E e \in 0..Ring - 1 : LiveAt(n, e)
    <3>1. CASE n <= Old
      <4>1. n \in 0..Old
        BY <1>6, <3>1
      <4> QED
        BY <1>1, <2>1, <4>1 DEF LeftLive
    <3>2. CASE ~(n <= Old)
      <4>1. n \in Int /\ Old <= n /\ n <= Old + Len(op.chain) /\ n > Old
        BY <1>6, <3>2
      <4>2. LiveAt(n, EntryAt(n)) /\ EntryAt(n) \in 0..Ring - 1
        BY <1>2, <4>1, FillEntries
      <4> QED
        BY <4>2
    <3> QED
      BY <3>1, <3>2
  <2> QED
    BY <1>4, <1>5, <1>7, <2>1 DEF LeftLive
<1>15. Filled'
  <2>1. ASSUME NEW n \in 0..Old', NEW e \in 0..Ring - 1, LiveAt(n, e)
        PROVE  /\ dequeued[value[e]] + Cardinality(Left(n)) = BlockSize
               /\ \A i \in Left(n) : i < tailIndex => content[value[e]][Slot(i)] = i
               /\ Left(n) = {} => \E c \in Consumers : cpc[c] = "forget" /\ EntryOf(c) = e
    <3>1. CASE n <= Old
      <4>1. n \in 0..Old
        BY <1>6, <3>1
      <4> QED
        BY <1>1, <2>1, <4>1 DEF Filled
    <3>2. CASE ~(n <= Old)
      <4>1. n \in Int /\ Old <= n /\ n <= Old + Len(op.chain) /\ n > Old
        BY <1>6, <3>2
      <4>2. value[e] = op.chain[n - Old]
        BY <1>2, <2>1, <4>1, FillEntries DEF HomeOf
      <4>3. dequeued[value[e]] = 0
        <5>1. n - Old \in 1..Len(op.chain)
          BY <1>6, <4>1
        <5> QED
          BY <1>1, <4>2, <5>1 DEF ChainBlocks
      <4>4. /\ Left(n) = Elements(n) /\ \A i \in Elements(n) : i \in Int /\ tailIndex <= i
            /\ Cardinality(Elements(n)) = BlockSize /\ IsFiniteSet(Elements(n))
        BY <1>6, <1>11, <4>1, ElementsFacts
      <4>5. BlockSize \in Nat \ {0}
        BY ImplicitAssumption DEF ImplicitAssumption
      <4>6. Left(n) # {}
        BY <4>4, <4>5, FS_EmptySet
      <4>7. \A i \in Left(n) : ~(i < tailIndex)
        BY <1>6, <4>4
      <4> QED
        BY <4>3, <4>4, <4>5, <4>6, <4>7
    <3> QED
      BY <3>1, <3>2
  <2>2. ASSUME NEW n \in 0..Old', NEW e \in 0..Ring - 1, LiveAt(n, e), NEW i \in Left(n), i < tailIndex'
        PROVE  content'[value[e]][Slot(i)] = i
    <3>1. n \in Int /\ i \in Int /\ Num(i) = n /\ Slot(i) \in 0..BlockSize - 1
      <4>1. n \in Int /\ i \in Elements(n)
        BY <1>6 DEF Left
      <4>2. i \in Int /\ Num(i) = n
        BY <4>1, ElementsFacts
      <4> QED
        BY <4>1, <4>2, NumFacts
    <3>2. value[e] \in Blocks
      BY <1>1, <2>2 DEF LiveAt, Alive, RingInv, RingTyped
    <3>3. CASE i < tailIndex
      <4>1. content[value[e]][Slot(i)] = i
        BY <2>1, <2>2, <3>3
      <4>2. i # Hole
        <5>1. n >= 0
          BY <1>6
        <5>2. Nth(n) <= i /\ Nth(n) >= 0 /\ Nth(n) \in Int
          BY <3>1, <5>1, NumIs, NthFacts
        <5> QED
          BY <3>1, <5>2 DEF Hole
      <4> QED
        BY <1>8, <3>1, <3>2, <4>1, <4>2
    <3>4. CASE ~(i < tailIndex)
      <4>1. i \in Added
        BY <1>2, <1>6, <2>2, <3>1, <3>4 DEF Added
      <4>2. e = EntryAt(Num(i)) /\ value[EntryAt(Num(i))] = BlockOf(i)
        BY <1>2, <2>2, <3>1, <4>1, FillPlace
      <4> QED
        BY <1>8, <4>1, <4>2
    <3> QED
      BY <3>3, <3>4
  <2>3. \A n \in 0..Old', e \in 0..Ring' - 1 : LiveAt(n, e)' =>
          /\ dequeued'[value'[e]] + Cardinality(Left(n)') = BlockSize
          /\ \A i \in Left(n)' : i < tailIndex' => content'[value'[e]][Slot(i)] = i
          /\ Left(n)' = {} => \E c \in Consumers : cpc'[c] = "forget" /\ EntryOf(c)' = e
    <3>1. \A c \in Consumers : EntryOf(c)' = EntryOf(c)
      BY <1>3 DEF EntryOf, indexVars
    <3> QED
      BY <1>3, <1>4, <1>5, <1>7, <2>1, <2>2, <3>1 DEF indexVars
  <2> QED
    BY <2>3 DEF Filled
<1>16. TailHeld'
  <2>1. ASSUME NEW e \in 0..Ring - 1, LiveAt(Num(last), e) PROVE value[e] = BlockOf(last)
    BY <1>2, <2>1, FillPlace
  <2>2. \A e \in 0..Ring' - 1 : LiveAt(Num(last), e)' => value'[e] = tailBlock'
    BY <1>3, <1>4, <1>5, <1>9, <2>1 DEF indexVars
  <2>3. \A e : LiveAt(Old, e)' <=> LiveAt(Num(last), e)'
    BY <1>10 DEF LiveAt
  <2> QED
    BY <2>2, <2>3 DEF TailHeld
<1>17. OnlyLeft'
  <2>1. ASSUME NEW b \in Blocks, NEW s \in 0..BlockSize - 1, content'[b][s] # Hole,
               NEW i, i = content'[b][s]
        PROVE  /\ i \in 0..tailIndex' - 1 /\ ~Given(i) /\ s = Slot(i)
               /\ \E e \in 0..Ring - 1 : LiveAt(Num(i), e) /\ value[e] = b
    <3>1. CASE i = content[b][s]
      <4>1. /\ i \in 0..tailIndex - 1 /\ ~Given(i) /\ s = Slot(i)
            /\ \E e \in 0..Ring - 1 : LiveAt(Num(i), e) /\ value[e] = b
        BY <1>1, <2>1, <3>1 DEF OnlyLeft
      <4>2. i \in 0..tailIndex' - 1
        BY <1>2, <1>6, <4>1
      <4> QED
        BY <4>1, <4>2
    <3>2. CASE i # content[b][s]
      <4>1. i \in Added /\ BlockOf(i) = b /\ Slot(i) = s
        BY <1>8, <2>1, <3>2
      <4>2. i \in 0..tailIndex' - 1
        BY <1>2, <1>6, <4>1 DEF Added
      <4> QED
        BY <1>2, <4>1, <4>2, FillPlace
    <3> QED
      BY <3>1, <3>2
  <2>2. ASSUME NEW b \in Blocks, NEW s \in 0..BlockSize - 1, content'[b][s] # Hole
        PROVE  \E i : /\ i = content'[b][s] /\ i \in 0..tailIndex' - 1 /\ ~Given(i)' /\ s = Slot(i)
                      /\ \E e \in 0..Ring' - 1 : LiveAt(Num(i), e)' /\ value'[e] = b
    BY <1>3, <1>4, <1>5, <1>7, <2>1, <2>2 DEF indexVars
  <2> QED
    BY <2>2 DEF OnlyLeft, LiveAt, Given
<1>18. ChainBlocks'
  BY <1>2 DEF ChainBlocks, NoOp
<1>19. ASSUME NEW b \in Blocks PROVE OnePlace(b)'
  <2>1. \A e : (e \in 0..Ring' - 1 /\ value'[e] = b) <=> (e \in 0..Ring - 1 /\ value[e] = b)
    BY <1>3, <1>4 DEF indexVars
  <2>2. \A c \in Consumers : Carries(c, b)' <=> Carries(c, b)
    BY <1>3 DEF Carries
  <2>3. ~InCall(b) /\ ~InCall(b)'
    BY <1>2 DEF InCall, Unindexed
  <2> QED
    BY <1>1, <1>3, <2>1, <2>2, <2>3, PlaceKept
<1>20. PlacesTyped'
  <2>1. tailBlock' \in Blocks
    BY <1>2, <1>3, <1>9, FillPlace
  <2>2. tailIndex' <= MaxElements
    BY <1>1, <1>2 DEF PlacesTyped, Busy
  <2> QED
    BY <1>1, <1>2, <1>3, <1>8, <2>1, <2>2 DEF PlacesTyped, Busy
<1> QED
  BY <1>4, <1>12, <1>13, <1>14, <1>15, <1>16, <1>17, <1>18, <1>19, <1>20 DEF Stock

-----------------------------------------------------------------------------
(***************************************************************************)
(* The steps of the consumers.                                             *)
(***************************************************************************)
\* A step of consumer c that takes no element leaves the others alone.
LEMMA ConsumerKept ==
  ASSUME Settled, NEW c \in Consumers,
         UNCHANGED <<tailIndex, headers, key, producerVars, content, dequeued>>,
         \A d \in Consumers \ {c} : UNCHANGED <<cpc[d], at[d], my[d]>>,
         \A i \in Int : Given(i)' <=> Given(i),
         \A e \in 0..Ring - 1 : \/ value'[e] = value[e]
                                \/ value'[e] = NoBlock /\ \E n \in 0..Old : key[e] = Nth(n) /\ Left(n) = {},
         \A d \in Consumers \ {c} : cpc[d] = "forget" => value'[EntryOf(d)] = value[EntryOf(d)],
         cpc[c] = "forget" => value'[EntryOf(c)] = NoBlock,
         cpc'[c] # "forget", OnWay(c)'
  PROVE  Ways' /\ LeftLive' /\ Filled' /\ TailHeld' /\ OnlyLeft' /\ ChainBlocks'
<1>1. /\ Begun /\ TP!IInv /\ RingInv /\ PlacesTyped /\ Shared /\ Ways /\ LeftLive /\ Filled
      /\ TailHeld /\ OnlyLeft /\ ChainBlocks
  BY DEF Settled, Stock
<1>2. /\ Old' = Old /\ Ring' = Ring /\ op' = op /\ ppc' = ppc /\ tailBlock' = tailBlock
      /\ HeadersKept /\ KeysStay
      /\ \A n : EntryAt(n)' = EntryAt(n)
  BY DEF Old, Ring, Current, producerVars, HeadersKept, KeysStay, EntryAt, TailNum, Top
<1>3. \A n \in Int : Left(n)' = Left(n)
  BY ElementsFacts DEF Left, Elements
<1>4. ASSUME NEW d \in Consumers \ {c}
      PROVE  OnWay(d)' /\ (cpc[d] \in {"take", "forget"} => EntryOf(d)' = EntryOf(d))
  BY <1>1, <1>2, <1>3, OnWayKept DEF Ways
<1>5. Ways'
  BY <1>1, <1>4 DEF Ways
<1>6. ASSUME NEW n \in 0..Old, NEW e
      PROVE  /\ LiveAt(n, e)' =>
                  LiveAt(n, e) /\ value'[e] = value[e] /\ dequeued'[value[e]] = dequeued[value[e]]
             /\ LiveAt(n, e) => LiveAt(n, e)' \/ Left(n) = {}
  <2>1. CASE value'[e] = value[e]
    BY <1>2, <2>1 DEF LiveAt, Alive
  <2>2. CASE e \in 0..Ring - 1 /\ value'[e] # value[e]
    <3>1. PICK m \in 0..Old : value'[e] = NoBlock /\ key[e] = Nth(m) /\ Left(m) = {}
      BY <2>2
    <3>2. ~LiveAt(n, e)'
      BY <3>1 DEF LiveAt, Alive
    <3>3. LiveAt(n, e) => n = m
      <4>1. n \in Int /\ m \in Int
        BY <1>1, OldFacts
      <4> QED
        BY <3>1, <4>1, NthApart DEF LiveAt
    <3> QED
      BY <3>1, <3>2, <3>3
  <2>3. CASE e \notin 0..Ring - 1
    BY <1>2, <2>3 DEF LiveAt
  <2> QED
    BY <2>1, <2>2, <2>3
<1>7. ASSUME NEW n \in 0..Old, NEW e, LiveAt(n, e)', NEW d \in Consumers,
             cpc[d] = "forget", EntryOf(d) = e
      PROVE  cpc'[d] = "forget" /\ EntryOf(d)' = e
  <2>1. CASE d = c
    BY <1>7, <2>1 DEF LiveAt, Alive
  <2>2. CASE d # c
    BY <1>4, <1>7, <2>2
  <2> QED
    BY <2>1, <2>2
<1>8. LeftLive' /\ Filled' /\ TailHeld' /\ OnlyLeft'
  BY <1>1, <1>2, <1>6, <1>7, StockKept
<1>9. ChainBlocks'
  <2>1. ASSUME NEW k \in 1..Len(op.chain)
        PROVE  /\ dequeued[op.chain[k]] = 0
               /\ ~Unindexed(k) => value'[EntryAt(Old + k)] = op.chain[k]
    <3>1. k \in 1..Top - Old
      BY <1>1, OldFacts
    <3>2. EntryAt(Old + k) \in 0..Ring - 1 /\ \A n \in 0..Old : key[EntryAt(Old + k)] # Nth(n)
      BY <1>1, <3>1, CallEntries
    <3>3. value'[EntryAt(Old + k)] = value[EntryAt(Old + k)]
      BY <3>2
    <3> QED
      BY <1>1, <3>3 DEF ChainBlocks
  <2>2. \A k : (EntryAt(Old + k))' = EntryAt(Old + k)
    BY <1>2 DEF EntryAt
  <2> QED
    BY <1>2, <2>1, <2>2 DEF ChainBlocks, Unindexed
<1> QED
  BY <1>5, <1>8, <1>9

\* The ring for such a step.
LEMMA ConsumerRingKept ==
  ASSUME Settled, NEW c \in Consumers, Consume(c),
         value' \in [0..Ring - 1 -> Blocks \cup {NoBlock}],
         \A e \in 0..Ring - 1 : Alive(e)' => Alive(e)
  PROVE  RingInv'
<1>1. Begun /\ RingInv
  BY DEF Settled
<1>2. Old' = Old /\ op' = op /\ ppc' = ppc /\ Top' = Top
  BY <1>1, ConsumerKeepsCall
<1>3. UNCHANGED <<headers, key>>
  BY ConsumerFrame
<1> QED
  BY <1>1, <1>2, <1>3, ConsumerRing

LEMMA ValueKept ==
  ASSUME Settled, UNCHANGED <<headers, key, value>>
  PROVE  /\ value' \in [0..Ring - 1 -> Blocks \cup {NoBlock}]
         /\ \A e \in 0..Ring - 1 : Alive(e)' => Alive(e)
BY DEF Settled, RingInv, RingTyped, Alive

\* Blocks that are not moved.
LEMMA ConsumerPlaces ==
  ASSUME Settled, NEW b \in Blocks, UNCHANGED <<headers, op, ppc>>, pool'[b] = pool[b],
         \A e \in 0..Ring - 1 : value'[e] = b <=> value[e] = b,
         \A d \in Consumers : Carries(d, b)' <=> Carries(d, b)
  PROVE  OnePlace(b)'
<1>1. Ring' = Ring
  BY DEF Ring, Current
<1>2. InCall(b)' <=> InCall(b)
  BY DEF InCall, Unindexed
<1>3. OnePlace(b)
  BY DEF Settled, Stock
<1> QED
  BY <1>1, <1>2, <1>3, PlaceKept

-----------------------------------------------------------------------------
\* What a consumer does before it has elements.
LEMMA DrawFacts ==
  ASSUME Settled, NEW c \in Consumers, Draw(c)
  PROVE  /\ UNCHANGED tailIndex /\ \A d \in Consumers \ {c} : UNCHANGED <<cpc[d], my[d]>>
         /\ \/ /\ cpc[c] = "advance" /\ cpc'[c] = "locate" /\ headIndex' = headIndex + my[c].got
               /\ my'[c].index = headIndex /\ my'[c].got = my[c].got
            \/ /\ headIndex' = headIndex /\ cpc[c] \notin Seeking /\ cpc'[c] \notin Seeking
               /\ cpc'[c] = "advance" => my'[c].got > 0
<1>1. /\ my \in [Consumers -> TP!Locals] /\ cpc \in [Consumers -> Drawing \cup Seeking]
      /\ my[c] \in TP!Locals /\ tailIndex \in Nat
  BY CountersFacts DEF Settled, Begun
<1>2. cpc[c] \in {"recheck"} => my[c].want > 0
  BY DEF Settled, TP!IInv, TP!LocalsBounded, TP!Drawn, Places, PlaceOf, Seeking
<1>3. ASSUME NEW place, NEW m, Goto(c, place, m)
      PROVE  /\ \A d \in Consumers \ {c} : UNCHANGED <<cpc[d], my[d]>>
             /\ cpc'[c] = place /\ my'[c] = m
  BY <1>1, <1>3 DEF Goto
<1>4. CASE LoadOvercommit(c)
  BY <1>3, <1>4 DEF LoadOvercommit, counters, Seeking
<1>5. CASE Look(c)
  BY <1>3, <1>5 DEF Look, counters, Seeking
<1>6. CASE Claim(c)
  BY <1>3, <1>6 DEF Claim, Seeking
<1>7. CASE Recheck(c)
  <2>1. Goto(c, IF Actual(c) < my[c].want THEN "handBack" ELSE "advance",
             [my[c] EXCEPT !.got = Actual(c)])
    BY <1>7 DEF Recheck
  <2>2. PICK a : a = Actual(c)
    OBVIOUS
  <2>3. a \in Int /\ my[c].want \in Nat
    BY <1>1, <2>2 DEF Actual, Max2, Min2, TP!Locals
  <2>4. [my[c] EXCEPT !.got = a].got = a
    BY <1>1 DEF TP!Locals
  <2>5. ~(a < my[c].want) => a > 0
    BY <1>2, <1>7, <2>3 DEF Recheck
  <2>6. /\ \A d \in Consumers \ {c} : UNCHANGED <<cpc[d], my[d]>>
        /\ cpc'[c] = IF a < my[c].want THEN "handBack" ELSE "advance"
        /\ my'[c] = [my[c] EXCEPT !.got = a]
    BY <1>3, <2>1, <2>2
  <2> QED
    BY <1>7, <2>4, <2>5, <2>6 DEF Recheck, counters, Seeking
<1>8. CASE HandBack(c)
  <2>1. CASE my[c].got > 0
    BY <1>3, <1>8, <2>1 DEF HandBack, Seeking
  <2>2. CASE ~(my[c].got > 0)
    BY <1>3, <1>8, <2>2 DEF HandBack, Seeking
  <2> QED
    BY <2>1, <2>2
<1>9. CASE Advance(c)
  <2>1. /\ \A d \in Consumers \ {c} : UNCHANGED <<cpc[d], my[d]>>
        /\ cpc'[c] = "locate" /\ my'[c] = [my[c] EXCEPT !.index = headIndex]
    BY <1>3, <1>9 DEF Advance
  <2> QED
    BY <1>1, <1>9, <2>1 DEF Advance, TP!Locals
<1>10. ASSUME NEW max \in Amounts, LoadTail(c, max)
       PROVE  /\ UNCHANGED <<tailIndex, headIndex>> /\ cpc[c] = "idle" /\ cpc'[c] = "loadOver"
              /\ \A d \in Consumers \ {c} : UNCHANGED <<cpc[d], my[d]>>
  BY <1>3, <1>10 DEF LoadTail, counters
<1> QED
  BY <1>4, <1>5, <1>6, <1>7, <1>8, <1>9, <1>10 DEF Draw, Seeking

-----------------------------------------------------------------------------
\* The others hold what they held.
LEMMA OthersHold ==
  ASSUME Settled, NEW c \in Consumers, NEW d \in Consumers \ {c}, UNCHANGED <<cpc[d], at[d], my[d]>>
  PROVE  Holds(d)' = Holds(d) /\ First(d)' = First(d) /\ End(d)' = End(d)
BY DEF Holds, First, End

LEMMA SharedKept ==
  ASSUME Settled, NEW c \in Consumers,
         \A d \in Consumers \ {c} : UNCHANGED <<cpc[d], at[d], my[d]>>,
         headIndex' \in Nat, headIndex <= headIndex',
         \A d \in Consumers \ {c} : Holds(c)' \cap Holds(d) = {},
         Ordered(c)'
  PROVE  Shared'
<1>1. Shared /\ headIndex \in Nat /\ \A d \in Consumers : End(d) \in Nat
  BY CountersFacts DEF Settled
<1>2. \A d \in Consumers \ {c} : Holds(d)' = Holds(d) /\ First(d)' = First(d) /\ End(d)' = End(d)
  BY OthersHold
<1>3. ASSUME NEW d \in Consumers PROVE Ordered(d)'
  <2>1. CASE d # c
    <3>1. /\ Ordered(d) /\ cpc'[d] = cpc[d] /\ at'[d] = at[d] /\ my'[d] = my[d]
          /\ First(d)' = First(d) /\ End(d)' = End(d)
      BY <1>1, <1>2, <2>1 DEF Shared
    <3>2. End(d) <= headIndex => End(d) <= headIndex'
      BY <1>1
    <3> QED
      BY <3>1, <3>2 DEF Ordered
  <2> QED
    BY <2>1
<1>4. ASSUME NEW d \in Consumers, NEW x \in Consumers, d # x PROVE Holds(d)' \cap Holds(x)' = {}
  <2>1. CASE d = c
    BY <1>2, <1>4, <2>1
  <2>2. CASE x = c
    BY <1>2, <1>4, <2>2
  <2>3. CASE d # c /\ x # c
    BY <1>1, <1>2, <1>4, <2>3 DEF Shared
  <2> QED
    BY <2>1, <2>2, <2>3
<1> QED
  BY <1>3, <1>4 DEF Shared

\* A consumer that holds what it held leaves the others what they had.
LEMMA SameGiven ==
  ASSUME Settled, NEW c \in Consumers, headIndex' = headIndex, Holds(c)' = Holds(c),
         \A d \in Consumers \ {c} : UNCHANGED <<cpc[d], at[d], my[d]>>
  PROVE  /\ \A i : Given(i)' <=> Given(i)
         /\ \A d \in Consumers \ {c} : Holds(c)' \cap Holds(d) = {}
         /\ headIndex' \in Nat /\ headIndex <= headIndex'
<1>1. \A d \in Consumers : Holds(d)' = Holds(d)
  BY OthersHold
<1>2. Shared /\ headIndex \in Nat
  BY CountersFacts DEF Settled
<1> QED
  BY <1>1, <1>2 DEF Given, Shared

LEMMA DrawSettled ==
  ASSUME Settled, NEW c \in Consumers, DrawTickets(c), Consume(c)
  PROVE  PlacesTyped' /\ RingInv' /\ Shared' /\ Stock'
<1>1. /\ PlacesTyped /\ Shared /\ headIndex \in Nat /\ my[c].got \in Nat
      /\ \A d \in Consumers : Holds(d) \subseteq 0..headIndex - 1
  BY CountersFacts, HeldFacts DEF Settled
<1>2. Draw(c) /\ UNCHANGED <<indexVars, blockVars, producerVars, at>>
  BY DEF DrawTickets
<1>3. /\ UNCHANGED tailIndex /\ \A d \in Consumers \ {c} : UNCHANGED <<cpc[d], at[d], my[d]>>
      /\ \/ /\ cpc[c] = "advance" /\ cpc'[c] = "locate" /\ headIndex' = headIndex + my[c].got
            /\ my'[c].index = headIndex /\ my'[c].got = my[c].got
         \/ /\ headIndex' = headIndex /\ cpc[c] \notin Seeking /\ cpc'[c] \notin Seeking
            /\ cpc'[c] = "advance" => my'[c].got > 0
  BY <1>2, DrawFacts
<1>4. /\ \A i \in Int : Given(i)' <=> Given(i)
      /\ Shared'
  <2>1. CASE cpc[c] = "advance" /\ cpc'[c] = "locate"
    <3>1. /\ headIndex' = headIndex + my[c].got /\ my[c].got > 0
          /\ First(c)' = headIndex /\ End(c)' = headIndex + my[c].got
          /\ Holds(c)' = headIndex..headIndex + my[c].got - 1 /\ Holds(c) = {}
      BY <1>1, <1>3, <2>1 DEF Shared, Ordered, First, End, Holds, Seeking
    <3>2. Ordered(c)'
      BY <1>1, <2>1, <3>1 DEF Ordered, Seeking
    <3>3. \A d \in Consumers \ {c} : Holds(c)' \cap Holds(d) = {} /\ Holds(d)' = Holds(d)
      <4>1. ASSUME NEW d \in Consumers \ {c}, NEW i \in Holds(c)', i \in Holds(d) PROVE FALSE
        BY <1>1, <3>1, <4>1
      <4>2. \A d \in Consumers \ {c} : Holds(d)' = Holds(d)
        BY <1>3, OthersHold
      <4> QED
        BY <4>1, <4>2
    <3>4. Shared'
      BY <1>1, <1>3, <3>1, <3>2, <3>3, SharedKept
    <3>5. ASSUME NEW i \in Int PROVE Given(i)' <=> Given(i)
      <4>1. i < headIndex' /\ i \notin Holds(c)' <=> i < headIndex
        BY <1>1, <3>1
      <4>2. i \notin Holds(c)
        BY <3>1
      <4> QED
        BY <3>3, <4>1, <4>2 DEF Given
    <3> QED
      BY <3>4, <3>5
  <2>2. CASE cpc[c] \notin Seeking /\ cpc'[c] \notin Seeking /\ headIndex' = headIndex
    <3>1. Holds(c) = {} /\ Holds(c)' = {}
      BY <2>2 DEF Holds
    <3>2. Ordered(c)'
      BY <1>3, <2>2 DEF Ordered, Seeking
    <3> QED
      BY <1>3, <2>2, <3>1, <3>2, SameGiven, SharedKept
  <2> QED
    BY <1>3, <2>1, <2>2
<1>5. cpc[c] \notin {"base", "take", "forget", "release"} /\ cpc'[c] \notin {"base", "take", "forget", "release"}
  BY <1>3 DEF Seeking
<1>6. OnWay(c)'
  BY <1>5 DEF OnWay
<1>7. Ways' /\ LeftLive' /\ Filled' /\ TailHeld' /\ OnlyLeft' /\ ChainBlocks'
  BY <1>2, <1>3, <1>4, <1>5, <1>6, ConsumerKept DEF indexVars, blockVars
<1>8. ASSUME NEW b \in Blocks PROVE OnePlace(b)'
  <2>1. \A d \in Consumers : Carries(d, b)' <=> Carries(d, b)
    BY <1>3, <1>5 DEF Carries
  <2> QED
    BY <1>2, <2>1, ConsumerPlaces DEF indexVars, blockVars, producerVars
<1>9. RingInv'
  BY <1>2, ValueKept, ConsumerRingKept DEF indexVars
<1>10. PlacesTyped'
  BY <1>1, <1>2, <1>3 DEF PlacesTyped, blockVars, producerVars
<1> QED
  BY <1>4, <1>7, <1>8, <1>9, <1>10 DEF Stock

-----------------------------------------------------------------------------
\* A consumer that has found out where to look takes nothing yet.
LEMMA SeekSettled ==
  ASSUME Settled, NEW c \in Consumers, NEW a \in Whereabouts, NEW place \in {"base", "take"},
         Consume(c), UNCHANGED <<counters, my, indexVars, blockVars, producerVars>>,
         cpc[c] \in {"locate", "base"}, cpc' = [cpc EXCEPT ![c] = place],
         at' = [at EXCEPT ![c] = a], a.next = First(c), cpc[c] = "locate" <=> place = "base",
         OnWay(c)'
  PROVE  PlacesTyped' /\ RingInv' /\ Shared' /\ Stock'
<1>1. PlacesTyped /\ Shared /\ headIndex \in Nat /\ Begun
  BY CountersFacts DEF Settled
<1>2. /\ UNCHANGED <<tailIndex, headIndex>> /\ cpc'[c] = place /\ at'[c] = a
      /\ \A d \in Consumers \ {c} : UNCHANGED <<cpc[d], at[d], my[d]>>
  BY <1>1 DEF PlacesTyped, Begun, counters
<1>3. First(c)' = First(c) /\ End(c)' = End(c) /\ Holds(c)' = Holds(c)
  BY <1>2 DEF First, End, Holds, Seeking
<1>4. Ordered(c)'
  <2>1. /\ First(c) <= End(c) /\ End(c) <= headIndex /\ First(c) < End(c)
        /\ cpc[c] = "locate" => First(c) = my[c].index
    BY <1>1 DEF Shared, Ordered, Seeking, First
  <2> QED
    BY <1>2, <1>3, <2>1 DEF Ordered, Seeking
<1>5. (\A i \in Int : Given(i)' <=> Given(i)) /\ Shared'
  BY <1>2, <1>3, <1>4, SameGiven, SharedKept
<1>6. Ways' /\ LeftLive' /\ Filled' /\ TailHeld' /\ OnlyLeft' /\ ChainBlocks'
  BY <1>2, <1>5, ConsumerKept DEF indexVars, blockVars
<1>7. ASSUME NEW b \in Blocks PROVE OnePlace(b)'
  <2>1. \A d \in Consumers : Carries(d, b)' <=> Carries(d, b)
    BY <1>2 DEF Carries
  <2> QED
    BY <2>1, ConsumerPlaces DEF indexVars, blockVars, producerVars
<1>8. RingInv'
  BY ValueKept, ConsumerRingKept DEF indexVars
<1>9. PlacesTyped'
  BY <1>1, <1>2 DEF PlacesTyped, blockVars, producerVars
<1> QED
  BY <1>5, <1>6, <1>7, <1>8, <1>9 DEF Stock

LEMMA LocateSettled ==
  ASSUME Settled, NEW c \in Consumers, Locate(c)
  PROVE  PlacesTyped' /\ RingInv' /\ Shared' /\ Stock'
<1>1. /\ Begun /\ TP!IInv /\ PlacesTyped /\ RingInv /\ RingTyped /\ Shared /\ LeftLive
  BY DEF Settled, Stock, RingInv
<1>2. /\ cpc[c] = "locate" /\ cpc' = [cpc EXCEPT ![c] = "base"]
      /\ UNCHANGED <<counters, my, indexVars, blockVars, producerVars>>
      /\ First(c) = my[c].index /\ Consume(c)
  BY DEF Locate, First, Consume
<1>3. PICK a : a = [Nowhere EXCEPT !.header = Len(headers), !.tail = Current.tail, !.next = my[c].index]
  OBVIOUS
<1>4. at' = [at EXCEPT ![c] = a]
  BY <1>3 DEF Locate
<1>5. /\ Len(headers) \in DOMAIN headers /\ Len(headers) \in Nat
      /\ Current.tail \in 0..Ring - 1 /\ Ring \in Nat \ {0} /\ my[c].index \in Nat
  BY <1>1, HeadersTyped, CountersFacts
<1>6. a.header = Len(headers) /\ a.tail = Current.tail /\ a.next = my[c].index /\ a \in Whereabouts
  <2>1. a = [header |-> Len(headers), tail |-> Current.tail, pos |-> 0, next |-> my[c].index,
             block |-> NoBlock]
    BY <1>3 DEF Nowhere
  <2>2. Current.tail \in Nat
    BY <1>5
  <2> QED
    BY <1>5, <2>1, <2>2 DEF Whereabouts
<1>7. at'[c] = a /\ cpc'[c] = "base" /\ headers' = headers /\ key' = key
  BY <1>1, <1>2, <1>4 DEF PlacesTyped, Begun, indexVars
<1>8. PICK m \in Int : m = TailNum /\ Old <= m /\ m <= Top /\ Old \in Int /\ Top \in Int
  <2>1. /\ TailNum \in Int /\ Old \in Int /\ Top \in Int /\ Old <= Top /\ Len(op.chain) \in Nat
        /\ ppc # "block" => Top = Old + Len(op.chain)
        /\ ppc # "undo" => TailNum = Top
        /\ ppc = "undo" => TailNum = Top - op.undo + 1 /\ op.undo \in 1..Len(op.chain) + 1
    BY <1>1, OldFacts, TailNumIs
  <2>2. CASE ppc = "undo"
    BY <2>1, <2>2
  <2>3. CASE ppc # "undo"
    BY <2>1, <2>3
  <2> QED
    BY <2>1, <2>2, <2>3
<1>9. PICK f \in Int : f = Num(my[c].index) /\ f \in Ahead(c) /\ Ahead(c) = f..LastNum(c)
  <2>1. First(c) \in Int /\ End(c) - 1 \in Int /\ First(c) <= End(c) - 1
    BY <1>1, <1>2, HeldFacts DEF Shared, Ordered, Seeking
  <2>2. Num(First(c)) \in Int /\ LastNum(c) \in Int /\ Num(First(c)) <= LastNum(c)
    BY <2>1, NumOrder DEF LastNum
  <2> QED
    BY <1>2, <2>2 DEF Ahead
<1>10. \A n \in f..LastNum(c) : n \in 0..Old
  <2>1. OnWay(c)
    BY DEF Settled, Stock, Ways
  <2> QED
    BY <1>1, <1>2, <1>9, <2>1, AheadLeft DEF Seeking
<1>11. \A j \in f..Top : key[EntryAt(j)] = Nth(j)
  <2>1. OnWay(c)
    BY DEF Settled, Stock, Ways
  <2>2. f \in 0..Old /\ Left(f) # {}
    BY <1>1, <1>2, <1>9, <2>1, AheadLeft DEF Seeking
  <2> QED
    BY <1>1, <2>2, LeftEntry
<1>12. f \in 0..Old
  BY <1>9, <1>10
<1>13. TailKey(c)' = Nth(m)
  <2>1. TailKey(c)' = key[Current.index[Current.tail]]
    BY <1>6, <1>7 DEF TailKey, Current
  <2> QED
    BY <1>1, <1>8, <1>11, <1>12, <2>1, TailEntry
<1>14. ASSUME NEW n \in f..LastNum(c)
       PROVE  n <= m /\ (key[FromTail(c, m, n)])' = Nth(n)
  <2>1. n \in 0..Old /\ n \in Int /\ n \in f..Top /\ n <= m
    BY <1>8, <1>10
  <2>2. FromTail(c, m, n)' = EntryAt(n)
    BY <1>6, <1>7, <1>8 DEF FromTail, EntryOn, EntryAt, Current, Ring
  <2> QED
    BY <1>7, <1>11, <2>1, <2>2
<1>15. Num(at[c].next)' = f /\ LastNum(c)' = LastNum(c)
  BY <1>2, <1>6, <1>7, <1>9 DEF LastNum, End
<1>16. OnWay(c)'
  <2>1. at'[c].header \in DOMAIN headers' /\ at'[c].tail < headers'[at'[c].header].capacity
    BY <1>5, <1>6, <1>7 DEF Current, Ring
  <2>2. \A n \in Num(at'[c].next)..LastNum(c)' : n <= m /\ (key[FromTail(c, m, n)])' = Nth(n)
    BY <1>14, <1>15
  <2> QED
    BY <1>7, <1>13, <2>1, <2>2 DEF OnWay
<1> QED
  BY <1>2, <1>4, <1>6, <1>16, SeekSettled

-----------------------------------------------------------------------------
\* The position told from the tail's key.
LEMMA ReadBaseSettled ==
  ASSUME Settled, NEW c \in Consumers, ReadBase(c)
  PROVE  PlacesTyped' /\ RingInv' /\ Shared' /\ Stock'
<1>1. /\ Begun /\ TP!IInv /\ PlacesTyped /\ RingInv /\ RingTyped /\ Shared /\ LeftLive /\ OnWay(c)
  BY DEF Settled, Stock, RingInv, Ways
<1>2. /\ cpc[c] = "base" /\ cpc' = [cpc EXCEPT ![c] = "take"]
      /\ UNCHANGED <<counters, my, indexVars, blockVars, producerVars>> /\ Consume(c)
  BY DEF ReadBase, Consume
<1>3. /\ at[c].header \in DOMAIN headers /\ at[c].next = my[c].index
      /\ First(c) = at[c].next /\ First(c) < End(c) /\ at[c] \in Whereabouts
      /\ at[c].next \in Nat /\ at[c].tail \in Nat /\ End(c) \in Nat
  BY <1>1, <1>2, CountersFacts DEF OnWay, Shared, Ordered, First, PlacesTyped, Whereabouts
<1>4. PICK m \in Int : /\ TailKey(c) = Nth(m)
                       /\ \A n \in Num(at[c].next)..LastNum(c) :
                            n <= m /\ key[FromTail(c, m, n)] = Nth(n)
  BY <1>1, <1>2 DEF OnWay
<1>5. PICK C \in Nat \ {0} : C = headers[at[c].header].capacity
  BY <1>1, <1>3, OnIndex
<1>6. PICK f \in Int : f = Num(at[c].next) /\ Base(at[c].next) = Nth(f)
  BY <1>3, NumFacts
<1>7. PICK p \in 0..C - 1 : p = (at[c].tail + (f - m)) % C
  <2>1. at[c].tail + (f - m) \in Int
    BY <1>3
  <2> QED
    BY <2>1, RingFacts
<1>8. at' = [at EXCEPT ![c].pos = p]
  <2>1. Position(at[c].header, at[c].tail, TailKey(c), my[c].index) = p
    <3>1. (Nth(f) - Nth(m)) \div BlockSize = f - m
      BY NthApart
    <3> QED
      BY <1>3, <1>4, <1>5, <1>6, <1>7, <3>1 DEF Position
  <2> QED
    BY <2>1 DEF ReadBase, TailKey
<1>9. PICK a : a = [at[c] EXCEPT !.pos = p]
  OBVIOUS
<1>10. at' = [at EXCEPT ![c] = a]
  BY <1>1, <1>8, <1>9 DEF PlacesTyped
<1>11. /\ a \in Whereabouts /\ a.next = at[c].next /\ a.header = at[c].header /\ a.pos = p
  BY <1>3, <1>7, <1>9 DEF Whereabouts
<1>12. at'[c] = a /\ cpc'[c] = "take" /\ headers' = headers /\ key' = key
  BY <1>1, <1>2, <1>10 DEF PlacesTyped, Begun, indexVars
<1>13. LastNum(c) \in Int /\ f <= LastNum(c)
  <2>1. at[c].next \in Int /\ End(c) - 1 \in Int /\ at[c].next <= End(c) - 1
    BY <1>3
  <2> QED
    BY <1>6, <2>1, NumOrder DEF LastNum
<1>14. AtNum(c)' = f /\ LastNum(c)' = LastNum(c)
  BY <1>2, <1>6, <1>11, <1>12 DEF AtNum, LastNum, End
<1>15. ASSUME NEW n \in Int PROVE Coming(c, n)' = FromTail(c, m, n)
  <2>1. (p + (n - f)) % C = (at[c].tail + (n - m)) % C
    <3>1. PICK x \in Int : x = at[c].tail + (f - m)
      BY <1>3
    <3>2. PICK y \in Int : y = n - f
      OBVIOUS
    <3>3. ((x % C) + y) % C = (x + y) % C
      BY RingFacts
    <3>4. x + y = at[c].tail + (n - m)
      BY <1>3, <3>1, <3>2
    <3> QED
      BY <1>7, <3>1, <3>2, <3>3, <3>4
  <2> QED
    BY <1>5, <1>11, <1>12, <1>14, <2>1 DEF Coming, FromTail, EntryOn
<1>16. EntryOf(c)' = FromTail(c, m, f)
  <2>1. EntryOf(c)' = Coming(c, f)'
    <3>1. p + (f - f) = p /\ p % C = p
      <4>1. \A x \in 0..C - 1 : x % C = x
        BY RingFacts
      <4> QED
        BY <1>7, <4>1
    <3> QED
      BY <1>5, <1>11, <1>12, <1>14, <3>1 DEF EntryOf, Coming, EntryOn
  <2> QED
    BY <1>15, <2>1
<1>17. \A n \in f..LastNum(c) : key[FromTail(c, m, n)] = Nth(n)
  BY <1>4, <1>6
<1>18. OnWay(c)'
  <2>1. at'[c].header \in DOMAIN headers' /\ at'[c].pos < headers'[at'[c].header].capacity
    BY <1>3, <1>5, <1>7, <1>11, <1>12
  <2>2. \A n \in AtNum(c)' + 1..LastNum(c)' : key'[Coming(c, n)'] = Nth(n)
    BY <1>12, <1>13, <1>14, <1>15, <1>17
  <2>3. key'[EntryOf(c)'] = Nth(AtNum(c)')
    BY <1>12, <1>13, <1>14, <1>16, <1>17
  <2> QED
    BY <1>12, <2>1, <2>2, <2>3 DEF OnWay
<1> QED
  BY <1>2, <1>3, <1>10, <1>11, <1>18, SeekSettled

-----------------------------------------------------------------------------
\* A consumer that is done with a block finds the next one after it.
LEMMA NextWay ==
  ASSUME Settled, NEW c \in Consumers, cpc[c] \in {"take", "release"}, NEW a \in Whereabouts,
         a.header = at[c].header, a.pos = at[c].pos, a.next = Nth(AtNum(c) + 1), a.next < End(c),
         at'[c] = [a EXCEPT !.pos = (@ + 1) % headers[a.header].capacity],
         cpc'[c] = "take", UNCHANGED <<headers, key, my[c]>>
  PROVE  OnWay(c)' /\ at'[c] \in Whereabouts /\ at'[c].next = a.next
<1>1. /\ Begun /\ TP!IInv /\ PlacesTyped /\ RingTyped /\ OnWay(c)
  BY DEF Settled, Stock, RingInv, Ways
<1>2. /\ at[c].header \in DOMAIN headers /\ at[c].pos \in Nat /\ End(c) \in Nat /\ a.next \in Nat
      /\ a.pos \in Nat
  BY <1>1, CountersFacts DEF OnWay, PlacesTyped, Whereabouts
<1>3. PICK C \in Nat \ {0} : C = headers[at[c].header].capacity
  BY <1>1, <1>2, OnIndex
<1>4. PICK q \in 0..C - 1 : q = (at[c].pos + 1) % C
  <2>1. at[c].pos + 1 \in Int
    BY <1>2
  <2> QED
    BY <2>1, RingFacts
<1>5. /\ at'[c] \in Whereabouts /\ at'[c].next = a.next /\ at'[c].header = at[c].header
      /\ at'[c].pos = q
  BY <1>3, <1>4 DEF Whereabouts
<1>6. PICK A \in Int : A = AtNum(c)
  BY <1>1, NumsTyped
<1>7. AtNum(c)' = A + 1 /\ LastNum(c)' = LastNum(c) /\ A + 1 <= LastNum(c) /\ LastNum(c) \in Int
  <2>1. PICK k \in Int : k = A + 1
    OBVIOUS
  <2>2. Num(Nth(k)) = k /\ Nth(k) \in Int
    <3>1. Nth(k) \in Int /\ BlockSize \in Nat \ {0}
      BY NthFacts, ImplicitAssumption DEF ImplicitAssumption
    <3> QED
      BY <3>1, NumIs
  <2>3. End(c) - 1 \in Int /\ a.next <= End(c) - 1 /\ a.next \in Int
    BY <1>2
  <2>4. Num(a.next) <= LastNum(c) /\ LastNum(c) \in Int
    BY <2>3, NumOrder DEF LastNum
  <2> QED
    BY <1>5, <1>6, <2>1, <2>2, <2>4 DEF AtNum, LastNum, End
<1>8. \A n \in A + 1..LastNum(c) : key[Coming(c, n)] = Nth(n)
  BY <1>1, <1>6 DEF OnWay
<1>9. ASSUME NEW n \in Int PROVE Coming(c, n)' = Coming(c, n)
  <2>1. (q + (n - (A + 1))) % C = (at[c].pos + (n - A)) % C
    <3>1. PICK x \in Int : x = at[c].pos + 1
      BY <1>2
    <3>2. PICK y \in Int : y = n - (A + 1)
      OBVIOUS
    <3>3. ((x % C) + y) % C = (x + y) % C
      BY RingFacts
    <3>4. x + y = at[c].pos + (n - A)
      BY <1>2, <3>1, <3>2
    <3> QED
      BY <1>4, <3>1, <3>2, <3>3, <3>4
  <2> QED
    BY <1>3, <1>5, <1>6, <1>7, <2>1 DEF Coming, EntryOn
<1>10. EntryOf(c)' = Coming(c, A + 1)
  <2>1. (at[c].pos + ((A + 1) - A)) % C = q
    <3>1. at[c].pos + ((A + 1) - A) = at[c].pos + 1
      BY <1>2
    <3> QED
      BY <1>4, <3>1
  <2> QED
    BY <1>3, <1>5, <1>6, <2>1 DEF EntryOf, Coming, EntryOn
<1>11. OnWay(c)'
  <2>1. at'[c].header \in DOMAIN headers' /\ at'[c].pos < headers'[at'[c].header].capacity
    BY <1>2, <1>3, <1>4, <1>5
  <2>2. \A n \in AtNum(c)' + 1..LastNum(c)' : key'[Coming(c, n)'] = Nth(n)
    BY <1>7, <1>8, <1>9
  <2>3. key'[EntryOf(c)'] = Nth(AtNum(c)')
    BY <1>7, <1>8, <1>10
  <2> QED
    BY <2>1, <2>2, <2>3 DEF OnWay
<1> QED
  BY <1>5, <1>11

\* It goes on to that, or returns.
LEMMA DoneFacts ==
  ASSUME Settled, NEW c \in Consumers, cpc[c] \in {"take", "release"}, NEW a \in Whereabouts,
         a.header = at[c].header, a.pos = at[c].pos, a.next <= End(c),
         a.next < End(c) => a.next = Nth(AtNum(c) + 1),
         DoneWithBlock(c, a), UNCHANGED <<headIndex, headers, key>>
  PROVE  /\ OnWay(c)' /\ Ordered(c)' /\ at' \in [Consumers -> Whereabouts]
         /\ \A d \in Consumers \ {c} : UNCHANGED <<cpc[d], at[d], my[d]>>
         /\ Holds(c)' = a.next..End(c) - 1 /\ cpc'[c] \in {"take", "idle"}
<1>1. /\ PlacesTyped /\ Begun /\ Shared /\ my \in [Consumers -> TP!Locals] /\ End(c) \in Nat
      /\ a.next \in Nat /\ headIndex \in Nat /\ End(c) <= headIndex
  BY CountersFacts, HeldFacts DEF Settled, Whereabouts, Seeking
<1>2. CASE a.next < End(c)
  <2>1. /\ at' = [at EXCEPT ![c] = [a EXCEPT !.pos = (@ + 1) % headers[a.header].capacity]]
        /\ cpc' = [cpc EXCEPT ![c] = "take"] /\ UNCHANGED my
    BY <1>2 DEF DoneWithBlock
  <2>2. /\ at'[c] = [a EXCEPT !.pos = (@ + 1) % headers[a.header].capacity] /\ cpc'[c] = "take"
        /\ \A d \in Consumers \ {c} : UNCHANGED <<cpc[d], at[d], my[d]>>
    BY <1>1, <2>1 DEF PlacesTyped, Begun
  <2>3. OnWay(c)' /\ at'[c] \in Whereabouts /\ at'[c].next = a.next
    BY <1>2, <2>1, <2>2, NextWay
  <2>4. First(c)' = a.next /\ End(c)' = End(c)
    BY <2>1, <2>2, <2>3 DEF First, End
  <2>5. Holds(c)' = a.next..End(c) - 1
    BY <2>2, <2>4 DEF Holds, Seeking
  <2>6. Ordered(c)'
    BY <1>1, <1>2, <2>2, <2>4 DEF Ordered, Seeking
  <2>7. at' \in [Consumers -> Whereabouts]
    BY <1>1, <2>1, <2>2, <2>3 DEF PlacesTyped
  <2> QED
    BY <2>2, <2>3, <2>5, <2>6, <2>7
<1>3. CASE ~(a.next < End(c))
  <2>1. at' = [at EXCEPT ![c] = Nowhere] /\ Goto(c, "idle", Blank)
    BY <1>3 DEF DoneWithBlock
  <2>2. /\ cpc'[c] = "idle" /\ \A d \in Consumers \ {c} : UNCHANGED <<cpc[d], at[d], my[d]>>
    BY <1>1, <2>1 DEF PlacesTyped, Begun, Goto
  <2>3. Holds(c)' = {} /\ a.next..End(c) - 1 = {}
    BY <1>1, <1>3, <2>2 DEF Holds, Seeking
  <2>4. Ordered(c)' /\ OnWay(c)'
    BY <2>2 DEF Ordered, OnWay, Seeking
  <2>5. Nowhere \in Whereabouts
    BY DEF Nowhere, Whereabouts
  <2>6. at' \in [Consumers -> Whereabouts]
    BY <1>1, <2>1, <2>5 DEF PlacesTyped
  <2> QED
    BY <2>2, <2>3, <2>4, <2>6
<1> QED
  BY <1>2, <1>3

-----------------------------------------------------------------------------
\* An emptied block leaves the index ...
LEMMA ForgetSettled ==
  ASSUME Settled, NEW c \in Consumers, Forget(c)
  PROVE  PlacesTyped' /\ RingInv' /\ Shared' /\ Stock'
<1>1. /\ Begun /\ TP!IInv /\ PlacesTyped /\ RingInv /\ RingTyped /\ Shared /\ Ways /\ OnWay(c)
      /\ \A b \in Blocks : OnePlace(b)
  BY DEF Settled, Stock, RingInv, Ways
<1>2. /\ cpc[c] = "forget" /\ cpc' = [cpc EXCEPT ![c] = "release"]
      /\ UNCHANGED <<counters, my, headers, key, blockVars, producerVars, at>> /\ Consume(c)
  BY DEF Forget, Consume
<1>3. /\ AtNum(c) \in 0..Old /\ EntryOf(c) \in 0..Ring - 1 /\ key[EntryOf(c)] = Nth(AtNum(c))
      /\ value[EntryOf(c)] = at[c].block /\ at[c].block \in Blocks /\ Left(AtNum(c)) = {}
  BY <1>1, <1>2, ForgetLive DEF LiveAt
<1>4. PICK b \in Blocks : b = at[c].block
  BY <1>3
<1>5. PICK e \in 0..Ring - 1 : e = EntryOf(c)
  BY <1>3
<1>6. value' = [value EXCEPT ![e] = NoBlock] /\ value[e] = b /\ Ring' = Ring
  BY <1>2, <1>3, <1>4, <1>5 DEF Forget, Ring, Current
<1>7. /\ value' \in [0..Ring - 1 -> Blocks \cup {NoBlock}] /\ value'[e] = NoBlock
      /\ \A f \in 0..Ring - 1 : f # e => value'[f] = value[f]
  BY <1>1, <1>6 DEF RingTyped
<1>8. /\ cpc'[c] = "release" /\ UNCHANGED <<headIndex, tailIndex>>
      /\ \A d \in Consumers \ {c} : UNCHANGED <<cpc[d], at[d], my[d]>>
  BY <1>1, <1>2 DEF Begun, counters
<1>9. First(c)' = First(c) /\ End(c)' = End(c) /\ Holds(c)' = Holds(c)
  BY <1>2, <1>8 DEF First, End, Holds, Seeking
<1>10. Ordered(c)'
  BY <1>1, <1>2, <1>8, <1>9 DEF Shared, Ordered, Seeking
<1>11. (\A i \in Int : Given(i)' <=> Given(i)) /\ Shared'
  BY <1>8, <1>9, <1>10, SameGiven, SharedKept
<1>12. OnWay(c)'
  <2>1. AtNum(c)' = AtNum(c) /\ LastNum(c)' = LastNum(c) /\ \A n : Coming(c, n)' = Coming(c, n)
    BY <1>2, <1>8, <1>9 DEF AtNum, LastNum, Coming, EntryOn
  <2> QED
    BY <1>1, <1>2, <1>8, <1>9, <2>1 DEF OnWay
<1>13. \A d \in Consumers \ {c} : cpc[d] = "forget" => value'[EntryOf(d)] = value[EntryOf(d)]
  <2>1. ASSUME NEW d \in Consumers \ {c}, cpc[d] = "forget"
        PROVE  EntryOf(d) \in 0..Ring - 1 /\ EntryOf(d) # e
    BY <1>1, <1>2, <1>5, <2>1, ForgetLive DEF Ways
  <2> QED
    BY <1>7, <2>1
<1>14. Ways' /\ LeftLive' /\ Filled' /\ TailHeld' /\ OnlyLeft' /\ ChainBlocks'
  <2>1. \A f \in 0..Ring - 1 : \/ value'[f] = value[f]
                               \/ value'[f] = NoBlock /\ \E n \in 0..Old : key[f] = Nth(n) /\ Left(n) = {}
    BY <1>3, <1>5, <1>7
  <2>2. value'[EntryOf(c)] = NoBlock
    BY <1>5, <1>7
  <2> QED
    BY <1>2, <1>8, <1>11, <1>12, <1>13, <2>1, <2>2, ConsumerKept DEF blockVars
<1>15. ASSUME NEW x \in Blocks, x # b PROVE OnePlace(x)'
  <2>1. \A d \in Consumers : Carries(d, x)' <=> Carries(d, x)
    BY <1>2, <1>4, <1>8, <1>15 DEF Carries
  <2>2. \A f \in 0..Ring - 1 : value'[f] = x <=> value[f] = x
    BY <1>6, <1>7, <1>15, RealBlocks
  <2> QED
    BY <1>2, <2>1, <2>2, ConsumerPlaces DEF blockVars, producerVars
<1>16. OnePlace(b)'
  <2>1. OnePlace(b) /\ InIndex(b)
    BY <1>1, <1>6 DEF InIndex
  <2>2. ~InHand(b) /\ ~InCall(b) /\ pool[b] = 0 /\ \A f \in 0..Ring - 1 : value[f] = b => f = e
    BY <1>6, <2>1 DEF OnePlace
  <2>3. pool'[b] = 0 /\ InCall(b)' = InCall(b)
    BY <1>2, <2>2 DEF blockVars, producerVars, InCall, Unindexed
  <2>4. \A f \in 0..Ring - 1 : value'[f] # b
    BY <1>7, <2>2, RealBlocks
  <2>5. ~InIndex(b)'
    BY <1>6, <2>4 DEF InIndex
  <2>6. Carries(c, b)' /\ \A d \in Consumers : Carries(d, b)' => d = c
    <3>1. \A d \in Consumers : ~Carries(d, b)
      BY <2>2 DEF InHand
    <3> QED
      BY <1>2, <1>4, <1>8, <3>1 DEF Carries
  <2>7. InHand(b)' /\ \A d, x \in Consumers : Carries(d, b)' /\ Carries(x, b)' => d = x
    BY <2>6 DEF InHand
  <2> QED
    BY <1>6, <2>2, <2>3, <2>4, <2>5, <2>7 DEF OnePlace
<1>17. RingInv'
  BY <1>7, <1>2, ConsumerRingKept DEF Alive
<1>18. PlacesTyped'
  BY <1>1, <1>2, <1>8 DEF PlacesTyped, blockVars, producerVars
<1> QED
  BY <1>11, <1>14, <1>15, <1>16, <1>17, <1>18 DEF Stock

\* ... and goes back to the pool.
LEMMA ReleaseSettled ==
  ASSUME Settled, NEW c \in Consumers, Release(c)
  PROVE  PlacesTyped' /\ RingInv' /\ Shared' /\ Stock'
<1>1. /\ Begun /\ TP!IInv /\ PlacesTyped /\ RingInv /\ Shared /\ Ways /\ OnWay(c) /\ Ordered(c)
      /\ \A b \in Blocks : OnePlace(b)
  BY DEF Settled, Stock, Ways, Shared
<1>2. /\ cpc[c] = "release" /\ DoneWithBlock(c, [at[c] EXCEPT !.block = NoBlock])
      /\ UNCHANGED <<counters, indexVars, content, dequeued, producerVars>> /\ Consume(c)
  BY DEF Release, Consume
<1>3. PICK a : a = [at[c] EXCEPT !.block = NoBlock]
  OBVIOUS
<1>4. /\ a \in Whereabouts /\ a.header = at[c].header /\ a.pos = at[c].pos /\ a.next = at[c].next
      /\ DoneWithBlock(c, a)
  BY <1>1, <1>2, <1>3 DEF PlacesTyped, Whereabouts
<1>5. PICK b \in Blocks : b = at[c].block
  BY <1>1, <1>2 DEF OnWay
<1>6. pool' = [pool EXCEPT ![b] = @ + 1]
  BY <1>5 DEF Release
<1>7. /\ a.next <= End(c) /\ Holds(c) = a.next..End(c) - 1
      /\ a.next < End(c) => a.next = Nth(AtNum(c) + 1)
  BY <1>1, <1>2, <1>4, HeldFacts DEF OnWay, Seeking, First
<1>8. UNCHANGED <<headIndex, tailIndex, headers, key>>
  BY <1>2 DEF counters, indexVars
<1>9. /\ OnWay(c)' /\ Ordered(c)' /\ at' \in [Consumers -> Whereabouts]
      /\ \A d \in Consumers \ {c} : UNCHANGED <<cpc[d], at[d], my[d]>>
      /\ Holds(c)' = Holds(c) /\ cpc'[c] \in {"take", "idle"}
  BY <1>2, <1>4, <1>7, <1>8, DoneFacts
<1>10. (\A i \in Int : Given(i)' <=> Given(i)) /\ Shared'
  BY <1>8, <1>9, SameGiven, SharedKept
<1>11. Ways' /\ LeftLive' /\ Filled' /\ TailHeld' /\ OnlyLeft' /\ ChainBlocks'
  BY <1>2, <1>8, <1>9, <1>10, ConsumerKept DEF indexVars
<1>12. \A x : Carries(c, x) <=> x = b
  BY <1>2, <1>5 DEF Carries
<1>13. \A x : \A d \in Consumers : Carries(d, x)' <=> Carries(d, x) /\ d # c
  BY <1>9 DEF Carries
<1>14. ASSUME NEW x \in Blocks, x # b PROVE OnePlace(x)'
  <2>1. \A d \in Consumers : Carries(d, x)' <=> Carries(d, x)
    BY <1>12, <1>13, <1>14
  <2>2. pool'[x] = pool[x]
    BY <1>1, <1>6, <1>14 DEF PlacesTyped
  <2> QED
    BY <1>2, <2>1, <2>2, ConsumerPlaces DEF indexVars, producerVars
<1>15. OnePlace(b)'
  <2>1. OnePlace(b) /\ InHand(b)
    BY <1>1, <1>12 DEF InHand
  <2>2. ~InIndex(b) /\ ~InCall(b) /\ pool[b] = 0 /\ \A d \in Consumers : Carries(d, b) => d = c
    BY <1>12, <2>1 DEF OnePlace
  <2>3. pool'[b] = 1
    BY <1>1, <1>6, <2>2 DEF PlacesTyped
  <2>4. ~InIndex(b)' /\ ~InCall(b)'
    BY <1>2, <2>2 DEF InIndex, InCall, Unindexed, indexVars, producerVars, Ring, Current
  <2>5. \A d \in Consumers : ~Carries(d, b)'
    BY <1>13, <2>2
  <2>6. ~InHand(b)' /\ \A d, x \in Consumers : Carries(d, b)' /\ Carries(x, b)' => d = x
    BY <2>5 DEF InHand
  <2>7. \A e, f \in 0..Ring' - 1 : value'[e] = b /\ value'[f] = b => e = f
    BY <2>4 DEF InIndex
  <2> QED
    BY <2>3, <2>4, <2>6, <2>7 DEF OnePlace
<1>16. RingInv'
  BY <1>2, ValueKept, ConsumerRingKept DEF indexVars
<1>17. pool' \in [Blocks -> Nat]
  <2>1. pool \in [Blocks -> Nat] /\ pool[b] + 1 \in Nat
    BY <1>1 DEF PlacesTyped
  <2> QED
    BY <1>6, <2>1
<1>18. PlacesTyped'
  BY <1>1, <1>2, <1>8, <1>9, <1>17 DEF PlacesTyped, producerVars
<1> QED
  BY <1>10, <1>11, <1>14, <1>15, <1>16, <1>18 DEF Stock

-----------------------------------------------------------------------------
\* What a consumer takes from one block.
LEMMA BatchFacts ==
  ASSUME Settled, NEW c \in Consumers, cpc[c] = "take"
  PROVE  \E nx \in Nat : /\ Batch(c) = at[c].next..nx - 1 /\ at[c].next < nx /\ nx <= End(c)
                         /\ nx < End(c) => nx = Nth(AtNum(c) + 1)
                         /\ Max(Batch(c)) + 1 = nx /\ Num(nx - 1) = AtNum(c)
                         /\ IsFiniteSet(Batch(c)) /\ Cardinality(Batch(c)) \in Nat
                         /\ Batch(c) \subseteq Left(AtNum(c)) /\ Batch(c) \subseteq Holds(c)
<1>1. /\ Begun /\ TP!IInv /\ PlacesTyped /\ Shared
  BY DEF Settled
<1>2. /\ at[c].next \in Nat /\ End(c) \in Nat /\ at[c].next < End(c) /\ AtNum(c) = Num(at[c].next)
      /\ Holds(c) = at[c].next..End(c) - 1
  <2>1. First(c) = at[c].next /\ First(c) < End(c) /\ Holds(c) = First(c)..End(c) - 1
    BY <1>1, HeldFacts DEF Shared, Ordered, Seeking, First
  <2> QED
    BY <1>1, <2>1, CountersFacts DEF PlacesTyped, Whereabouts, AtNum
<1>3. PICK m \in Nat : m = at[c].next
  BY <1>2
<1>4. PICK l \in Nat : l = End(c)
  BY <1>2
<1>5. PICK A \in Int : A = AtNum(c) /\ Base(m) = Nth(A) /\ Num(m) = A
  <2>1. m \in Int
    OBVIOUS
  <2>2. Num(m) \in Int /\ Base(m) = Nth(Num(m))
    BY <2>1, NumFacts
  <2> QED
    BY <1>2, <1>3, <2>2
<1>6. Nth(A) \in Int /\ Nth(A + 1) \in Int /\ Nth(A) + BlockSize = Nth(A + 1) /\ BlockSize \in Nat \ {0}
  BY NthFacts, ImplicitAssumption DEF ImplicitAssumption
<1>7. Nth(A) <= m /\ m < Nth(A + 1)
  BY <1>5, <1>6, NumIs
<1>8. PICK nx \in Nat : nx = Min2(l, Nth(A + 1))
  BY <1>6, <1>7 DEF Min2
<1>9. m < nx /\ nx <= l /\ nx <= Nth(A + 1) /\ (nx < l => nx = Nth(A + 1))
  BY <1>2, <1>3, <1>4, <1>6, <1>7, <1>8 DEF Min2
<1>10. Batch(c) = m..nx - 1
  BY <1>3, <1>4, <1>5, <1>6, <1>8 DEF Batch
<1>11. Num(nx - 1) = A
  <2>1. Nth(A) <= nx - 1 /\ nx - 1 < Nth(A) + BlockSize /\ nx - 1 \in Int
    BY <1>6, <1>7, <1>9
  <2> QED
    BY <2>1, NumIs
<1>12. Max(m..nx - 1) + 1 = nx
  <2>1. nx - 1 \in m..nx - 1 /\ \A y \in m..nx - 1 : nx - 1 >= y
    BY <1>9
  <2>2. Max(m..nx - 1) \in m..nx - 1 /\ \A y \in m..nx - 1 : Max(m..nx - 1) >= y
    BY <2>1 DEF Max
  <2> QED
    BY <2>1, <2>2
<1>13. IsFiniteSet(m..nx - 1) /\ Cardinality(m..nx - 1) \in Nat
  <2>1. nx - 1 \in Int
    OBVIOUS
  <2> QED
    BY <2>1, FS_Interval, FS_CardinalityType
<1>14. Batch(c) \subseteq Holds(c)
  BY <1>2, <1>3, <1>4, <1>9, <1>10
<1>15. ASSUME NEW i \in Batch(c) PROVE i \in Left(A)
  <2>1. i \in Int /\ Nth(A) <= i /\ i < Nth(A) + BlockSize
    BY <1>6, <1>7, <1>9, <1>10
  <2>2. Num(i) = A
    BY <2>1, NumIs
  <2> QED
    BY <1>1, <1>14, <2>2, HeldFacts
<1> QED
  BY <1>3, <1>4, <1>5, <1>9, <1>10, <1>11, <1>12, <1>13, <1>14, <1>15

\* The elements it takes are given.
LEMMA TakenGiven ==
  ASSUME Settled, NEW c \in Consumers, NEW B, B \subseteq Holds(c), Holds(c)' = Holds(c) \ B,
         \A d \in Consumers \ {c} : UNCHANGED <<cpc[d], at[d], my[d]>>, headIndex' = headIndex
  PROVE  /\ \A i : Given(i)' <=> Given(i) \/ i \in B
         /\ \A n : Left(n)' = Left(n) \ B
         /\ \A d \in Consumers \ {c} : Holds(c)' \cap Holds(d) = {}
<1>1. Begun /\ TP!IInv /\ PlacesTyped /\ Shared /\ headIndex \in Nat
  BY CountersFacts DEF Settled
<1>2. Holds(c) \subseteq 0..headIndex - 1
  BY <1>1, HeldFacts
<1>3. \A d \in Consumers \ {c} : Holds(d)' = Holds(d) /\ Holds(c) \cap Holds(d) = {}
  BY <1>1, OthersHold DEF Shared
<1>4. ASSUME NEW i PROVE Given(i)' <=> Given(i) \/ i \in B
  <2>1. CASE i \in B
    <3>1. i < headIndex
      BY <1>1, <1>2, <2>1
    <3>2. \A d \in Consumers : i \notin Holds(d)'
      BY <1>3, <2>1
    <3> QED
      BY <2>1, <3>1, <3>2 DEF Given
  <2>2. CASE i \notin B
    <3>1. \A d \in Consumers : i \in Holds(d)' <=> i \in Holds(d)
      BY <1>3, <2>2
    <3> QED
      BY <2>2, <3>1 DEF Given
  <2> QED
    BY <2>1, <2>2
<1>5. \A n : Left(n)' = Left(n) \ B
  BY <1>4 DEF Left, Elements
<1> QED
  BY <1>3, <1>4, <1>5

-----------------------------------------------------------------------------
\* The slots of B are emptied, and counted as dequeued.
TakenFrom(b, B) ==
  /\ content' = [content EXCEPT ![b] = [s \in DOMAIN @ |->
                   IF \E i \in B : Slot(i) = s THEN Hole ELSE @[s]]]
  /\ dequeued' = [dequeued EXCEPT ![b] = @ + Cardinality(B)]

LEMMA LeftAt ==
  ASSUME OnlyLeft, NEW b \in Blocks, NEW s \in 0..BlockSize - 1, NEW i, i = content[b][s], i # Hole
  PROVE  /\ i \in 0..tailIndex - 1 /\ ~Given(i) /\ s = Slot(i)
         /\ \E e \in 0..Ring - 1 : LiveAt(Num(i), e) /\ value[e] = b
BY DEF OnlyLeft

\* What taking does to the places of the elements; B is what is taken from the
\* entry e, which holds block n of the queue in b.
LEMMA TakenStock ==
  ASSUME Settled, NEW c \in Consumers, cpc[c] = "take", NEW n \in 0..Old, NEW e \in 0..Ring - 1,
         NEW b \in Blocks, NEW B, LiveAt(n, e), value[e] = b, B \subseteq Left(n), IsFiniteSet(B),
         UNCHANGED <<tailIndex, indexVars, producerVars>>,
         TakenFrom(b, B),
         \A i : Given(i)' <=> Given(i) \/ i \in B,
         \A k : Left(k)' = Left(k) \ B,
         \A d \in Consumers \ {c} : UNCHANGED <<cpc[d], at[d], my[d]>>,
         \A d \in Consumers \ {c} : cpc[d] = "forget" => EntryOf(d)' = EntryOf(d),
         dequeued'[b] = BlockSize => cpc'[c] = "forget" /\ EntryOf(c)' = e
  PROVE  /\ LeftLive' /\ Filled' /\ TailHeld' /\ OnlyLeft'
         /\ content' \in [Blocks -> [0..BlockSize - 1 -> Int]]
         /\ dequeued' \in [Blocks -> 0..BlockSize]
         /\ dequeued'[b] = BlockSize <=> Left(n)' = {}
<1>1. /\ Begun /\ TP!IInv /\ PlacesTyped /\ RingInv /\ RingTyped /\ LeftLive /\ Filled
      /\ TailHeld /\ OnlyLeft /\ OnePlace(b)
  BY DEF Settled, Stock, RingInv
<1>2. /\ Old' = Old /\ Ring' = Ring /\ UNCHANGED <<headers, key, value, tailBlock>> /\ Old \in Int /\ n \in Int
      /\ \A k, f : LiveAt(k, f)' <=> LiveAt(k, f)
  BY <1>1, OldFacts, SameLive DEF Old, indexVars, producerVars
<1>3. /\ content \in [Blocks -> [0..BlockSize - 1 -> Int]] /\ dequeued \in [Blocks -> 0..BlockSize]
      /\ BlockSize \in Nat \ {0} /\ Hole \in Int
  BY <1>1, ImplicitAssumption DEF PlacesTyped, ImplicitAssumption, Hole
<1>4. /\ \A i \in Left(n) : i \in Int /\ Num(i) = n
      /\ \A i, j \in Left(n) : Slot(i) = Slot(j) => i = j
      /\ IsFiniteSet(Left(n))
  <2>1. Left(n) \subseteq Elements(n)
    BY DEF Left
  <2>2. /\ IsFiniteSet(Elements(n)) /\ Elements(n) \subseteq Int
        /\ \A i \in Int : i \in Elements(n) <=> Num(i) = n
        /\ \A i, j \in Elements(n) : Slot(i) = Slot(j) => i = j
    BY <1>2, ElementsFacts
  <2> QED
    BY <2>1, <2>2, FS_Subset
<1>5. /\ Cardinality(Left(n)) \in Nat /\ Cardinality(Left(n) \ B) \in Nat /\ Cardinality(B) \in Nat
      /\ Cardinality(Left(n) \ B) = Cardinality(Left(n)) - Cardinality(B)
      /\ IsFiniteSet(Left(n) \ B)
      /\ Cardinality(Left(n) \ B) = 0 <=> Left(n) \ B = {}
  <2>1. PICK L : L = Left(n) /\ IsFiniteSet(L) /\ B \subseteq L
    BY <1>4
  <2>2. IsFiniteSet(L \ B) /\ Cardinality(L \ B) = Cardinality(L) - Cardinality(B)
    <3>1. L \cap B = B
      BY <2>1
    <3>2. IsFiniteSet(L \ B) /\ Cardinality(L \ B) = Cardinality(L) - Cardinality(L \cap B)
      BY ONLY <2>1, FS_Difference, Zenon
    <3> QED
      BY <3>1, <3>2
  <2> QED
    BY <2>1, <2>2, FS_CardinalityType, FS_EmptySet
<1>6. dequeued[b] + Cardinality(Left(n)) = BlockSize
  BY <1>1 DEF Filled
<1>7. dequeued'[b] + Cardinality(Left(n)') = BlockSize /\ dequeued[b] \in Nat
  <2>1. dequeued[b] \in Nat /\ dequeued'[b] = dequeued[b] + Cardinality(B)
    BY <1>3 DEF TakenFrom
  <2>2. Left(n)' = Left(n) \ B
    OBVIOUS
  <2> QED
    BY <1>3, <1>5, <1>6, <2>1, <2>2
<1>8. dequeued'[b] = BlockSize <=> Left(n)' = {}
  <2>1. Left(n)' = Left(n) \ B
    OBVIOUS
  <2>2. dequeued'[b] + Cardinality(Left(n) \ B) = BlockSize
    BY <1>7, <2>1
  <2>3. dequeued'[b] \in Int
    BY <1>3, <1>5 DEF TakenFrom
  <2>4. dequeued'[b] = BlockSize <=> Cardinality(Left(n) \ B) = 0
    BY <1>3, <1>5, <2>2, <2>3
  <2> QED
    BY <1>5, <2>1, <2>4
<1>9. dequeued' \in [Blocks -> 0..BlockSize]
  <2>1. dequeued[b] + Cardinality(B) \in 0..BlockSize
    BY <1>3, <1>5, <1>6, <1>7
  <2> QED
    BY <1>3, <2>1 DEF TakenFrom
<1>10. /\ content' \in [Blocks -> [0..BlockSize - 1 -> Int]]
       /\ \A s \in 0..BlockSize - 1 :
            content'[b][s] = IF \E i \in B : Slot(i) = s THEN Hole ELSE content[b][s]
       /\ \A x \in Blocks : x # b => content'[x] = content[x] /\ dequeued'[x] = dequeued[x]
  <2>1. PICK w : w = [s \in 0..BlockSize - 1 |-> IF \E i \in B : Slot(i) = s THEN Hole ELSE content[b][s]]
    OBVIOUS
  <2>2. content' = [content EXCEPT ![b] = w]
    BY <1>3, <2>1 DEF TakenFrom
  <2>3. w \in [0..BlockSize - 1 -> Int]
    BY <1>3, <2>1
  <2>4. content'[b] = w /\ \A x \in Blocks : x # b => content'[x] = content[x]
    BY <1>3, <2>2
  <2>5. content' \in [Blocks -> [0..BlockSize - 1 -> Int]]
    BY <1>3, <2>2, <2>3
  <2>6. \A x \in Blocks : x # b => dequeued'[x] = dequeued[x]
    BY <1>3 DEF TakenFrom
  <2> QED
    BY <2>1, <2>4, <2>5, <2>6
<1>11. LeftLive'
  <2>1. \A k \in 0..Old : Left(k)' # {} => Left(k) # {}
    OBVIOUS
  <2> QED
    BY <1>1, <1>2, <2>1 DEF LeftLive
<1>12. ASSUME NEW k \in 0..Old, NEW f \in 0..Ring - 1, LiveAt(k, f)
       PROVE  /\ dequeued'[value[f]] + Cardinality(Left(k)') = BlockSize
              /\ \A i \in Left(k)' : i < tailIndex => content'[value[f]][Slot(i)] = i
              /\ Left(k)' = {} => \E d \in Consumers : cpc'[d] = "forget" /\ EntryOf(d)' = f
  <2>1. /\ dequeued[value[f]] + Cardinality(Left(k)) = BlockSize
        /\ \A i \in Left(k) : i < tailIndex => content[value[f]][Slot(i)] = i
        /\ Left(k) = {} => \E d \in Consumers : cpc[d] = "forget" /\ EntryOf(d) = f
    BY <1>1, <1>12 DEF Filled
  <2>2. CASE f = e
    <3>1. k = n
      <4>1. k \in Int /\ Nth(k) = Nth(n)
        BY <1>2, <1>12, <2>2 DEF LiveAt
      <4> QED
        BY <1>2, <4>1, NthApart
    <3>2. ASSUME NEW i \in Left(n) \ B, i < tailIndex PROVE content'[b][Slot(i)] = i
      <4>1. Slot(i) \in 0..BlockSize - 1 /\ \A j \in B : Slot(j) # Slot(i)
        BY <1>4, NumFacts
      <4> QED
        BY <1>10, <2>1, <2>2, <3>1, <3>2, <4>1
    <3>3. Left(n)' = {} => cpc'[c] = "forget" /\ EntryOf(c)' = e
      BY <1>8
    <3> QED
      BY <1>7, <2>2, <3>1, <3>2, <3>3
  <2>3. CASE f # e
    <3>1. k # n
      <4>1. ASSUME k = n PROVE f = e
        BY <1>1, <1>2, <1>12, <4>1, LiveEntry
      <4> QED
        BY <2>3, <4>1
    <3>2. Left(k)' = Left(k)
      <4>1. \A i \in Left(k) : Num(i) = k
        <5>1. k \in Int
          BY <1>2
        <5> QED
          BY <5>1, ElementsFacts DEF Left
      <4>2. \A i \in Left(k) : i \notin B
        BY <1>4, <3>1, <4>1
      <4>3. Left(k)' = Left(k) \ B
        OBVIOUS
      <4> QED
        BY <4>2, <4>3
    <3>3. value[f] \in Blocks /\ value[f] # b
      <4>1. value[f] \in Blocks
        <5>1. value \in [0..Ring - 1 -> Blocks \cup {NoBlock}]
          BY <1>1 DEF RingTyped
        <5>2. value[f] # NoBlock /\ f \in 0..Ring - 1
          BY <1>12 DEF LiveAt, Alive
        <5> QED
          BY <5>1, <5>2
      <4>2. value[f] # b
        BY <1>1, <2>3 DEF OnePlace
      <4> QED
        BY <4>1, <4>2
    <3>4. ASSUME NEW d \in Consumers, cpc[d] = "forget", EntryOf(d) = f
          PROVE  cpc'[d] = "forget" /\ EntryOf(d)' = f
      BY <3>4
    <3> QED
      BY <1>10, <2>1, <3>2, <3>3, <3>4
  <2> QED
    BY <2>2, <2>3
<1>13. Filled'
  BY <1>2, <1>12 DEF Filled
<1>14. TailHeld'
  BY <1>1, <1>2 DEF TailHeld
<1>15. ASSUME NEW x \in Blocks, NEW s \in 0..BlockSize - 1, content'[x][s] # Hole
       PROVE  /\ content'[x][s] = content[x][s] /\ content[x][s] \notin B /\ content[x][s] # Hole
  <2>1. content'[x][s] = content[x][s]
    BY <1>10, <1>15
  <2>2. ASSUME content[x][s] \in B PROVE FALSE
    <3>1. PICK i \in B : i = content[x][s]
      BY <2>2
    <3>2. Num(i) = n /\ s = Slot(i)
      BY <1>1, <1>4, <1>15, <2>1, <3>1 DEF OnlyLeft
    <3>3. PICK f \in 0..Ring - 1 : LiveAt(n, f) /\ value[f] = x
      BY <1>1, <1>15, <2>1, <3>1, <3>2 DEF OnlyLeft
    <3>4. f = e
      BY <1>1, <1>2, <3>3, LiveEntry
    <3> QED
      BY <1>10, <1>15, <3>2, <3>3, <3>4
  <2> QED
    BY <1>15, <2>1, <2>2
<1>16. OnlyLeft'
  <2>1. ASSUME NEW x \in Blocks, NEW s \in 0..BlockSize - 1, content'[x][s] # Hole
        PROVE  /\ content'[x][s] \in 0..tailIndex - 1 /\ s = Slot(content'[x][s])
               /\ ~(Given(content[x][s]))'
               /\ \E f \in 0..Ring - 1 : (LiveAt(Num(content[x][s]), f))' /\ value'[f] = x
    <3>1. PICK i : i = content[x][s] /\ i = content'[x][s] /\ i \notin B /\ i # Hole
      BY <1>15, <2>1
    <3>2. /\ i \in 0..tailIndex - 1 /\ ~Given(i) /\ s = Slot(i)
          /\ \E f \in 0..Ring - 1 : LiveAt(Num(i), f) /\ value[f] = x
      BY <1>1, <3>1, LeftAt
    <3>3. ~Given(i)' /\ \E f \in 0..Ring - 1 : LiveAt(Num(i), f)' /\ value'[f] = x
      BY <1>2, <3>1, <3>2
    <3>4. (Given(content[x][s]))' <=> Given(i)'
      BY <3>1 DEF Given
    <3>5. \A f : (LiveAt(Num(content[x][s]), f))' <=> LiveAt(Num(i), f)'
      BY <3>1 DEF LiveAt
    <3> QED
      BY <3>1, <3>2, <3>3, <3>4, <3>5
  <2>2. Ring' = Ring /\ tailIndex' = tailIndex
    BY <1>2
  <2> QED
    BY <2>1, <2>2 DEF OnlyLeft
<1> QED
  BY <1>8, <1>9, <1>10, <1>11, <1>13, <1>14, <1>16

\* Where the consumer that takes is afterwards.
LEMMA TakenWay ==
  ASSUME Settled, NEW c \in Consumers, cpc[c] = "take", NEW a, NEW nx \in Nat, NEW b \in Blocks,
         a = [at[c] EXCEPT !.next = nx, !.block = b], b = value[EntryOf(c)],
         at[c].next < nx, nx <= End(c), nx < End(c) => nx = Nth(AtNum(c) + 1),
         Num(nx - 1) = AtNum(c), UNCHANGED <<headIndex, headers, key, value>>,
         \/ at' = [at EXCEPT ![c] = a] /\ cpc' = [cpc EXCEPT ![c] = "forget"] /\ UNCHANGED my
         \/ DoneWithBlock(c, a)
  PROVE  /\ Ordered(c)' /\ Holds(c)' = nx..End(c) - 1 /\ at' \in [Consumers -> Whereabouts]
         /\ \A d \in Consumers \ {c} : UNCHANGED <<cpc[d], at[d], my[d]>>
         /\ DoneWithBlock(c, a) => OnWay(c)' /\ cpc'[c] \in {"take", "idle"}
         /\ ~DoneWithBlock(c, a) => /\ cpc'[c] = "forget" /\ EntryOf(c)' = EntryOf(c)
                                    /\ AtNum(c)' = AtNum(c)
                                    /\ (Left(AtNum(c))' = {} => OnWay(c)')
<1>1. /\ Begun /\ TP!IInv /\ PlacesTyped /\ Shared /\ OnWay(c) /\ at[c] \in Whereabouts /\ End(c) \in Nat
      /\ headIndex \in Nat /\ End(c) <= headIndex
  BY CountersFacts, HeldFacts DEF Settled, Stock, Ways, PlacesTyped, Seeking
<1>2. /\ a \in Whereabouts /\ a.next = nx /\ a.header = at[c].header /\ a.pos = at[c].pos /\ a.block = b
      /\ at[c].next \in Nat
  BY <1>1 DEF Whereabouts
<1>3. CASE DoneWithBlock(c, a)
  <2>1. /\ OnWay(c)' /\ Ordered(c)' /\ at' \in [Consumers -> Whereabouts]
        /\ \A d \in Consumers \ {c} : UNCHANGED <<cpc[d], at[d], my[d]>>
        /\ Holds(c)' = nx..End(c) - 1 /\ cpc'[c] \in {"take", "idle"}
    BY <1>2, <1>3, DoneFacts
  <2> QED
    BY <1>3, <2>1
<1>4. CASE ~DoneWithBlock(c, a)
  <2>1. at' = [at EXCEPT ![c] = a] /\ cpc' = [cpc EXCEPT ![c] = "forget"] /\ my' = my
    BY <1>4
  <2>2. /\ at'[c] = a /\ cpc'[c] = "forget" /\ at' \in [Consumers -> Whereabouts]
        /\ \A d \in Consumers \ {c} : UNCHANGED <<cpc[d], at[d], my[d]>>
    BY <1>1, <1>2, <2>1 DEF PlacesTyped, Begun
  <2>3. First(c)' = nx /\ End(c)' = End(c) /\ EntryOf(c)' = EntryOf(c) /\ Holds(c)' = nx..End(c) - 1
    BY <1>2, <2>1, <2>2 DEF First, End, EntryOf, Holds, Seeking
  <2>4. Ordered(c)'
    BY <1>1, <1>2, <2>2, <2>3 DEF Ordered, Seeking
  <2>5. /\ AtNum(c)' = AtNum(c) /\ LastNum(c)' = LastNum(c)
        /\ \A n : Coming(c, n)' = Coming(c, n)
    <3>1. AtNum(c)' = AtNum(c)
      BY <1>2, <2>2, <2>3 DEF AtNum
    <3>2. LastNum(c)' = LastNum(c)
      BY <2>3 DEF LastNum
    <3>3. \A p : EntryOn(c, p)' = EntryOn(c, p)
      BY <1>2, <2>2 DEF EntryOn
    <3>4. \A n : Coming(c, n)' = Coming(c, n)
      BY <1>2, <2>2, <3>1, <3>3 DEF Coming
    <3> QED
      BY <3>1, <3>2, <3>4
  <2>6. ASSUME Left(AtNum(c))' = {} PROVE OnWay(c)'
    <3>1. /\ at[c].header \in DOMAIN headers /\ at[c].pos < headers[at[c].header].capacity
          /\ \A n \in AtNum(c) + 1..LastNum(c) : key[Coming(c, n)] = Nth(n)
          /\ key[EntryOf(c)] = Nth(AtNum(c))
      BY <1>1 DEF OnWay
    <3>2. (\A n \in AtNum(c) + 1..LastNum(c) : key[Coming(c, n)] = Nth(n))'
      BY <2>5, <3>1
    <3>3. (key[EntryOf(c)] = Nth(AtNum(c)))' /\ (Left(AtNum(c)) = {})' /\ (value[EntryOf(c)] = at[c].block)'
      BY <1>2, <2>2, <2>3, <2>5, <2>6, <3>1
    <3>4. (at[c].next < End(c) => at[c].next = Nth(AtNum(c) + 1))'
      BY <1>2, <2>2, <2>3, <2>5
    <3>5. at'[c].header \in DOMAIN headers' /\ at'[c].pos < headers'[at'[c].header].capacity
      BY <1>2, <2>2, <3>1
    <3>6. at'[c].block \in Blocks
      BY <1>2, <2>2
    <3> QED
      BY <2>2, <3>2, <3>3, <3>4, <3>5, <3>6 DEF OnWay
  <2> QED
    BY <1>4, <2>2, <2>3, <2>4, <2>5, <2>6
<1> QED
  BY <1>3, <1>4

LEMMA TakeSettled ==
  ASSUME Settled, NEW c \in Consumers, Take(c)
  PROVE  PlacesTyped' /\ RingInv' /\ Shared' /\ Stock'
<1>1. /\ Begun /\ TP!IInv /\ PlacesTyped /\ RingInv /\ RingTyped /\ Shared /\ Ways /\ LeftLive
      /\ ChainBlocks /\ \A x \in Blocks : OnePlace(x)
  BY DEF Settled, Stock, RingInv
<1>2. /\ cpc[c] = "take" /\ Consume(c) /\ UNCHANGED <<counters, indexVars, pool, producerVars>>
  BY DEF Take, Consume
<1>3. PICK n \in 0..Old : n = AtNum(c) /\ LiveAt(n, EntryOf(c)) /\ EntryOf(c) \in 0..Ring - 1
                          /\ value[EntryOf(c)] \in Blocks
  BY <1>1, <1>2, TakeLive DEF Ways
<1>4. PICK e \in 0..Ring - 1 : e = EntryOf(c)
  BY <1>3
<1>5. PICK b \in Blocks : b = value[e]
  BY <1>3, <1>4
<1>60. PICK B : B = Batch(c)
  OBVIOUS
<1>6. PICK nx \in Nat :
        /\ B = Batch(c) /\ at[c].next < nx /\ nx <= End(c)
        /\ nx < End(c) => nx = Nth(n + 1)
        /\ Max(B) + 1 = nx /\ Num(nx - 1) = n /\ B = at[c].next..nx - 1
        /\ IsFiniteSet(B) /\ Cardinality(B) \in Nat /\ B \subseteq Left(n) /\ B \subseteq Holds(c)
  BY <1>2, <1>3, <1>60, BatchFacts
<1>7. PICK a : a = [at[c] EXCEPT !.next = nx, !.block = b]
  OBVIOUS
<1>8. /\ content' = [content EXCEPT ![b] = [s \in DOMAIN @ |->
                       IF \E i \in B : Slot(i) = s THEN Hole ELSE @[s]]]
      /\ dequeued' = [dequeued EXCEPT ![b] = @ + Cardinality(B)]
      /\ IF dequeued[b] + Cardinality(B) = BlockSize
         THEN at' = [at EXCEPT ![c] = a] /\ cpc' = [cpc EXCEPT ![c] = "forget"] /\ UNCHANGED my
         ELSE DoneWithBlock(c, a)
  BY <1>4, <1>5, <1>6, <1>7 DEF Take, SetEmpty
<1>9. UNCHANGED <<headIndex, tailIndex, headers, key, value>>
  BY <1>2 DEF counters, indexVars
<1>10. /\ Ordered(c)' /\ Holds(c)' = nx..End(c) - 1 /\ at' \in [Consumers -> Whereabouts]
       /\ \A d \in Consumers \ {c} : UNCHANGED <<cpc[d], at[d], my[d]>>
       /\ DoneWithBlock(c, a) => OnWay(c)' /\ cpc'[c] \in {"take", "idle"}
       /\ ~DoneWithBlock(c, a) => /\ cpc'[c] = "forget" /\ EntryOf(c)' = e /\ AtNum(c)' = n
                                  /\ (Left(AtNum(c))' = {} => OnWay(c)')
  BY <1>2, <1>3, <1>4, <1>5, <1>6, <1>7, <1>8, <1>9, TakenWay
<1>11. Holds(c)' = Holds(c) \ B
  <2>1. Holds(c) = at[c].next..End(c) - 1 /\ End(c) \in Nat /\ at[c].next \in Nat
    BY <1>1, <1>2, TakeLive, CountersFacts DEF Ways, PlacesTyped, Whereabouts
  <2> QED
    BY <1>6, <1>10, <2>1
<1>12. /\ \A i : Given(i)' <=> Given(i) \/ i \in B
       /\ \A k : Left(k)' = Left(k) \ B
       /\ \A d \in Consumers \ {c} : Holds(c)' \cap Holds(d) = {}
  BY <1>6, <1>9, <1>10, <1>11, TakenGiven
<1>13. Shared'
  <2>1. headIndex' \in Nat /\ headIndex <= headIndex'
    BY <1>1, <1>9, CountersFacts
  <2> QED
    BY <1>10, <1>12, <2>1, SharedKept
<1>14. dequeued'[b] = dequeued[b] + Cardinality(B)
  BY <1>1, <1>8 DEF PlacesTyped
<1>15. \A d \in Consumers \ {c} : OnWay(d)' /\ (cpc[d] \in {"take", "forget"} => EntryOf(d)' = EntryOf(d))
  <2>1. HeadersKept /\ KeysStay /\ \A k \in Int : Left(k)' \subseteq Left(k)
    BY <1>9, <1>12 DEF HeadersKept, KeysStay
  <2> QED
    BY <1>1, <1>9, <1>10, <2>1, OnWayKept DEF Ways
<1>16. ASSUME dequeued'[b] = BlockSize PROVE cpc'[c] = "forget" /\ EntryOf(c)' = e
  <2>1. at' = [at EXCEPT ![c] = a] /\ cpc' = [cpc EXCEPT ![c] = "forget"]
    BY <1>8, <1>14, <1>16
  <2>2. cpc'[c] = "forget"
    BY <1>1, <2>1 DEF Begun
  <2> QED
    BY <1>10, <2>2
<1>17. /\ LeftLive' /\ Filled' /\ TailHeld' /\ OnlyLeft'
       /\ content' \in [Blocks -> [0..BlockSize - 1 -> Int]]
       /\ dequeued' \in [Blocks -> 0..BlockSize]
       /\ dequeued'[b] = BlockSize <=> Left(n)' = {}
  <2>1. LiveAt(n, e) /\ value[e] = b /\ B \subseteq Left(n) /\ IsFiniteSet(B) /\ cpc[c] = "take"
    BY <1>2, <1>3, <1>4, <1>5, <1>6
  <2>2. UNCHANGED <<tailIndex, indexVars, producerVars>>
    BY <1>2, <1>9
  <2>3. \A d \in Consumers \ {c} : UNCHANGED <<cpc[d], at[d], my[d]>>
    BY <1>10
  <2>4. \A d \in Consumers \ {c} : cpc[d] = "forget" => EntryOf(d)' = EntryOf(d)
    BY <1>15
  <2>5. TakenFrom(b, B)
    BY <1>8 DEF TakenFrom
  <2>6. dequeued'[b] = BlockSize => cpc'[c] = "forget" /\ EntryOf(c)' = e
    BY <1>16
  <2>7. (\A i : Given(i)' <=> Given(i) \/ i \in B) /\ (\A k : Left(k)' = Left(k) \ B)
    BY <1>12
  <2> QED
    BY <2>1, <2>2, <2>3, <2>4, <2>5, <2>6, <2>7, TakenStock
<1>18. OnWay(c)'
  <2>1. CASE DoneWithBlock(c, a)
    BY <1>10, <2>1
  <2>2. CASE ~DoneWithBlock(c, a)
    <3>1. Left(n)' = {}
      BY <1>8, <1>14, <1>17, <2>2
    <3>2. Left(AtNum(c))' = {}
      BY <1>10, <2>2, <3>1 DEF Left, Elements
    <3> QED
      BY <1>10, <2>2, <3>2
  <2> QED
    BY <2>1, <2>2
<1>19. ASSUME NEW d \in Consumers \ {c}, cpc[d] = "forget" PROVE EntryOf(d) # e
  <2>1. AtNum(d) \in 0..Old /\ LiveAt(AtNum(d), EntryOf(d)) /\ Left(AtNum(d)) = {}
    BY <1>1, <1>19, ForgetLive DEF Ways
  <2>2. Left(n) # {}
    BY <1>1, <1>2, <1>3, TakeLive DEF Ways
  <2>3. AtNum(d) \in Int /\ n \in Int
    BY <1>1, <2>1, OldFacts
  <2>4. ASSUME EntryOf(d) = e PROVE FALSE
    <3>1. Nth(AtNum(d)) = Nth(n)
      BY <1>3, <1>4, <2>1, <2>4 DEF LiveAt
    <3> QED
      BY <2>1, <2>2, <2>3, <3>1, NthApart
  <2> QED
    BY <2>4
<1>20. Ways'
  <2>1. \A d \in Consumers : OnWay(d)'
    BY <1>15, <1>18
  <2>2. ASSUME NEW d \in Consumers, NEW x \in Consumers, d # x, cpc'[d] = "forget", cpc'[x] = "forget"
        PROVE  EntryOf(d)' # EntryOf(x)'
    <3>1. cpc'[c] = "forget" => EntryOf(c)' = e
      BY <1>10
    <3>2. \A y \in Consumers \ {c} : cpc'[y] = "forget" => cpc[y] = "forget" /\ EntryOf(y)' = EntryOf(y)
      BY <1>10, <1>15
    <3>3. CASE d = c
      BY <1>19, <2>2, <3>1, <3>2, <3>3
    <3>4. CASE x = c
      BY <1>19, <2>2, <3>1, <3>2, <3>4
    <3>5. CASE d # c /\ x # c
      BY <1>1, <2>2, <3>2, <3>5 DEF Ways
    <3> QED
      BY <3>3, <3>4, <3>5
  <2> QED
    BY <2>1, <2>2 DEF Ways
<1>21. /\ Old' = Old /\ op' = op /\ ppc' = ppc /\ Ring' = Ring
  BY <1>2, <1>9 DEF Old, producerVars, Ring, Current
<1>22. ASSUME NEW k \in 1..Len(op.chain) PROVE op.chain[k] # b /\ op.chain[k] \in Blocks
  <2>1. op.chain \in Seq(Blocks) /\ k \in 1..Top - Old
    BY <1>1, OldFacts
  <2>2. CASE Unindexed(k)
    <3>1. InIndex(b) /\ OnePlace(b)
      BY <1>1, <1>5 DEF InIndex
    <3>2. op.chain[k] # b
      BY <2>2, <3>1 DEF OnePlace, InCall
    <3> QED
      BY <2>1, <3>2
  <2>3. CASE ~Unindexed(k)
    <3>1. value[EntryAt(Old + k)] = op.chain[k]
      BY <1>1, <2>3 DEF ChainBlocks
    <3>2. EntryAt(Old + k) \in 0..Ring - 1 /\ e # EntryAt(Old + k)
      BY <1>1, <1>3, <1>4, <2>1, CallEntries
    <3>3. op.chain[k] # b
      BY <1>1, <1>5, <3>1, <3>2 DEF OnePlace
    <3> QED
      BY <2>1, <3>3
  <2> QED
    BY <2>2, <2>3
<1>23. ChainBlocks'
  <2>1. \A k \in 1..Len(op.chain) : dequeued'[op.chain[k]] = 0
    BY <1>1, <1>8, <1>22 DEF ChainBlocks, PlacesTyped
  <2>2. \A k : (EntryAt(Old + k))' = EntryAt(Old + k)
    BY <1>9, <1>21 DEF EntryAt, TailNum, Top, Current, Ring
  <2>3. \A k \in 1..Len(op.chain) : ~Unindexed(k) => value'[EntryAt(Old + k)] = op.chain[k]
    BY <1>1, <1>9 DEF ChainBlocks
  <2> QED
    BY <1>21, <2>1, <2>2, <2>3 DEF ChainBlocks, Unindexed
<1>24. ASSUME NEW x \in Blocks PROVE OnePlace(x)'
  <2>1. \A d \in Consumers : Carries(d, x)' <=> Carries(d, x)
    <3>1. cpc'[c] # "release"
      BY <1>10
    <3> QED
      BY <1>2, <1>10, <3>1 DEF Carries
  <2> QED
    BY <1>2, <1>9, <2>1, ConsumerPlaces DEF producerVars
<1>25. RingInv'
  BY <1>2, <1>9, ValueKept, ConsumerRingKept
<1>26. PlacesTyped'
  BY <1>1, <1>2, <1>9, <1>10, <1>17 DEF PlacesTyped, producerVars
<1> QED
  BY <1>13, <1>17, <1>20, <1>23, <1>24, <1>25, <1>26 DEF Stock

-----------------------------------------------------------------------------
(***************************************************************************)
(* The destructor.                                                         *)
(***************************************************************************)
\* With no call under way what is left over is what is not given.
LEMMA AtRest ==
  ASSUME Settled, ppc = "idle", \A c \in Consumers : cpc[c] = "idle"
  PROVE  /\ \A i : Given(i) <=> i < headIndex
         /\ headIndex \in Nat /\ tailIndex \in Nat /\ headIndex <= tailIndex
         /\ Old \in Int /\ Top = Old /\ TailNum = Old
         /\ \A b \in Blocks : ~InHand(b) /\ ~InCall(b)
         /\ \A n \in 0..Old, e \in 0..Ring - 1 : LiveAt(n, e) => Left(n) # {}
<1>1. Begun /\ TP!IInv /\ Filled
  BY DEF Settled, Stock
<1>2. \A c \in Consumers : Holds(c) = {}
  BY DEF Holds, Seeking
<1>3. op = NoOp /\ op.chain = <<>>
  BY <1>1 DEF Begun, Busy, NoOp
<1>4. Old \in Int /\ Top = Old /\ TailNum = Old
  <2>1. Len(op.chain) = 0
    BY <1>3
  <2> QED
    BY <1>1, <2>1, OldFacts, TailNumIs
<1>5. \A b \in Blocks : ~InHand(b) /\ ~InCall(b)
  BY DEF InHand, Carries, InCall, Unindexed
<1> QED
  BY <1>1, <1>2, <1>4, <1>5, CountersFacts DEF Given, Filled

\* Where the elements left over are.
LEMMA LeftOverFacts ==
  ASSUME Settled, ppc = "idle", \A c \in Consumers : cpc[c] = "idle", NEW i \in LeftOver
  PROVE  /\ i \in Nat /\ Num(i) \in 0..Old /\ i \in Left(Num(i)) /\ EntryFor(i) = EntryAt(Num(i))
         /\ LiveAt(Num(i), EntryAt(Num(i)))
<1>1. /\ Begun /\ RingInv /\ RingTyped /\ LeftLive
  BY DEF Settled, Stock, RingInv
<1>2. /\ \A j : Given(j) <=> j < headIndex
      /\ headIndex \in Nat /\ tailIndex \in Nat /\ Old \in Int /\ Top = Old /\ TailNum = Old
  BY AtRest
<1>3. i \in 0..tailIndex - 1 /\ ~Given(i)
  BY <1>2 DEF LeftOver
<1>4. Num(i) \in 0..Old /\ i \in Left(Num(i))
  BY <1>1, <1>3, PlaceOfElement
<1>5. LiveAt(Num(i), EntryAt(Num(i))) /\ \A j \in Num(i)..Top : key[EntryAt(j)] = Nth(j)
  BY <1>1, <1>4, LeftEntry
<1>6. key[EntryAt(TailNum)] = Nth(TailNum)
  BY <1>2, <1>4, <1>5
<1>7. EntryFor(i) = EntryAt(Num(i))
  <2>1. i \in Int
    BY <1>3
  <2> QED
    BY <1>1, <1>6, <2>1, EntryForIs
<1> QED
  BY <1>3, <1>4, <1>5, <1>7

\* The tail block is freed apart if elements are left in it, or will be added.
LEMMA TailFreedFacts ==
  ASSUME Settled, ppc = "idle", \A c \in Consumers : cpc[c] = "idle"
  PROVE  TailFreed <=> \E e \in 0..Ring - 1 : Old >= 0 /\ LiveAt(Old, e)
<1>1. /\ Begun /\ RingInv /\ RingTyped /\ LeftLive /\ TailHeld
  BY DEF Settled, Stock, RingInv
<1>2. /\ \A j : Given(j) <=> j < headIndex
      /\ headIndex \in Nat /\ tailIndex \in Nat /\ headIndex <= tailIndex /\ Old \in Int
      /\ \A n \in 0..Old, e \in 0..Ring - 1 : LiveAt(n, e) => Left(n) # {}
  BY AtRest
<1>3. BlockSize \in Nat \ {0} /\ tailIndex \in Int /\ tailIndex - 1 \in Int
  BY <1>2, ImplicitAssumption DEF ImplicitAssumption
<1>4. PICK t \in Nat : t = Num(tailIndex) /\ Slot(tailIndex) \in 0..BlockSize - 1
                       /\ tailIndex = Nth(t) + Slot(tailIndex)
  BY <1>2, <1>3, NumFacts, NatNum
<1>5. /\ Nth(t) \in Int /\ Nth(Old) \in Int /\ Nth(Old) + BlockSize = Nth(Old + 1)
      /\ Nth(Old) <= tailIndex - 1 /\ tailIndex - 1 < Nth(Old) + BlockSize
  <2>1. PICK o \in Int : o = Old /\ o = Num(tailIndex - 1)
    BY <1>2 DEF Old
  <2>2. Nth(o) \in Int /\ Nth(o) + BlockSize = Nth(o + 1) /\ Nth(t) \in Int
    BY NthFacts
  <2>3. Nth(o) <= tailIndex - 1 /\ tailIndex - 1 < Nth(o) + BlockSize
    BY <1>3, <2>1, NumIs
  <2> QED
    BY <2>1, <2>2, <2>3
<1>6. ASSUME TailFreed PROVE \E e \in 0..Ring - 1 : Old >= 0 /\ LiveAt(Old, e)
  <2>1. LeftOver # {} \/ Slot(tailIndex) # 0
    BY <1>6 DEF TailFreed
  <2>2. Old >= 0 /\ Left(Old) # {}
    <3>1. CASE LeftOver # {}
      <4>1. tailIndex - 1 \in LeftOver
        BY <1>2, <3>1 DEF LeftOver
      <4> QED
        BY <4>1, LeftOverFacts DEF Old
    <3>2. CASE Slot(tailIndex) # 0
      <4>1. Nth(t) <= tailIndex - 1 /\ tailIndex - 1 < Nth(t) + BlockSize
        BY <1>3, <1>4, <1>5, <3>2
      <4>2. Old = t
        BY <1>3, <4>1, NumIs DEF Old
      <4>3. tailIndex \in Elements(Old) /\ ~Given(tailIndex)
        BY <1>2, <1>3, <1>4, <4>2, ElementsFacts
      <4> QED
        BY <4>2, <4>3 DEF Left
    <3> QED
      BY <2>1, <3>1, <3>2
  <2> QED
    BY <1>1, <1>2, <2>2 DEF LeftLive
<1>7. ASSUME NEW e \in 0..Ring - 1, Old >= 0, LiveAt(Old, e) PROVE TailFreed
  <2>1. value[e] = tailBlock /\ tailBlock # NoBlock
    BY <1>1, <1>7 DEF TailHeld, LiveAt, Alive
  <2>2. PICK i \in Left(Old) : TRUE
    BY <1>2, <1>7
  <2>3. i \in Int /\ i < Nth(Old) + BlockSize /\ headIndex <= i
    BY <1>2, <1>3, <1>5 DEF Left, Elements
  <2>4. ASSUME LeftOver = {}, Slot(tailIndex) = 0 PROVE FALSE
    <3>1. tailIndex <= headIndex
      BY <1>2, <2>4 DEF LeftOver
    <3>2. tailIndex = Nth(t) /\ tailIndex < Nth(Old) + BlockSize /\ Nth(Old) < Nth(t)
      BY <1>2, <1>3, <1>4, <1>5, <2>3, <2>4, <3>1
    <3>3. Old < t
      <4>1. PICK o \in Int : o = Old
        BY <1>2
      <4>2. t < o => Nth(t) + BlockSize <= Nth(o)
        BY NthFacts
      <4> QED
        BY <1>3, <1>5, <3>2, <4>1, <4>2
    <3>4. Nth(Old) + BlockSize <= Nth(t)
      BY <1>2, <3>3, NthFacts
    <3> QED
      BY <1>3, <1>5, <3>2, <3>4
  <2> QED
    BY <2>1, <2>4 DEF TailFreed
<1> QED
  BY <1>6, <1>7

LEMMA DestroyClean ==
  ASSUME Settled, Destroy
  PROVE  DestroyedClean'
<1>1. /\ Begun /\ TP!IInv /\ PlacesTyped /\ RingInv /\ RingTyped /\ LeftLive /\ TailHeld /\ OnlyLeft
      /\ \A b \in Blocks : OnePlace(b)
  BY DEF Settled, Stock, RingInv
<1>2. ppc = "idle" /\ \A c \in Consumers : cpc[c] = "idle"
  BY DEF Destroy
<1>3. /\ \A i : Given(i) <=> i < headIndex
      /\ headIndex \in Nat /\ tailIndex \in Nat /\ headIndex <= tailIndex
      /\ Old \in Int /\ Top = Old
      /\ \A b \in Blocks : ~InHand(b) /\ ~InCall(b)
      /\ \A n \in 0..Old, e \in 0..Ring - 1 : LiveAt(n, e) => Left(n) # {}
  BY <1>2, AtRest
<1>4. \A i \in LeftOver : /\ i \in Nat /\ Num(i) \in 0..Old /\ EntryFor(i) = EntryAt(Num(i))
                          /\ LiveAt(Num(i), EntryAt(Num(i)))
  BY <1>2, LeftOverFacts
<1>5. TailFreed <=> \E e \in 0..Ring - 1 : Old >= 0 /\ LiveAt(Old, e)
  BY <1>2, TailFreedFacts
<1>6. TailFreed => \E e \in 0..Ring - 1 : LiveAt(Old, e) /\ value[e] = tailBlock
  BY <1>1, <1>5 DEF TailHeld
<1>7. PICK F : F = IF LeftOver = {} THEN {} ELSE BlocksOfLeftOver \ {LastOfLeftOver}
  OBVIOUS
<1>8. LeftOver # {} => LastOfLeftOver = value[EntryAt(Old)] /\ LiveAt(Old, EntryAt(Old)) /\ Old >= 0
  <2>1. LeftOver # {} => tailIndex - 1 \in LeftOver
    BY <1>3 DEF LeftOver
  <2> QED
    BY <1>4, <2>1 DEF LastOfLeftOver, Old
<1>9. /\ pool' = [b \in Blocks |-> pool[b] + (IF b \in F THEN 1 ELSE 0)
                                           + (IF TailFreed /\ b = tailBlock THEN 1 ELSE 0)]
      /\ content' = [b \in Blocks |-> [s \in 0..BlockSize - 1 |->
                       IF content[b][s] \in LeftOver THEN Hole ELSE content[b][s]]]
  BY <1>7 DEF Destroy
<1>10. ASSUME NEW b \in Blocks PROVE pool'[b] = 1
  <2>1. OnePlace(b)
    BY <1>1
  <2>2. CASE pool[b] = 1
    <3>1. ~InIndex(b)
      BY <2>1, <2>2 DEF OnePlace
    <3>2. b \notin F
      <4>1. ASSUME NEW i \in LeftOver, b = value[EntryFor(i)] PROVE FALSE
        BY <1>4, <3>1, <4>1 DEF InIndex, LiveAt
      <4> QED
        BY <1>7, <4>1 DEF BlocksOfLeftOver
    <3>3. ~(TailFreed /\ b = tailBlock)
      BY <1>6, <3>1 DEF InIndex
    <3> QED
      BY <1>9, <2>2, <3>2, <3>3
  <2>3. CASE pool[b] = 0
    <3>1. InIndex(b)
      BY <1>3, <2>1, <2>3 DEF OnePlace
    <3>2. PICK e \in 0..Ring - 1 : value[e] = b /\ \A f \in 0..Ring - 1 : value[f] = b => f = e
      BY <2>1, <3>1 DEF InIndex, OnePlace
    <3>3. Alive(e)
      BY <3>2, RealBlocks DEF Alive
    <3>4. PICK n \in Window : n >= 0 /\ key[e] = Nth(n)
      BY <1>1, <3>3, LiveKey
    <3>5. n \in 0..Old /\ n \in Int /\ LiveAt(n, e)
      <4>1. Ring \in Nat \ {0}
        BY <1>1, HeadersTyped
      <4> QED
        BY <1>3, <3>3, <3>4, <4>1 DEF Window, LiveAt
    <3>6. e = EntryAt(n)
      BY <1>1, <3>5, LiveEntry
    <3>7. CASE n = Old
      <4>1. b = tailBlock /\ TailFreed
        BY <1>1, <1>5, <3>2, <3>5, <3>7 DEF TailHeld
      <4>2. b \notin F
        BY <1>7, <1>8, <3>2, <3>6, <3>7
      <4> QED
        BY <1>9, <2>3, <4>1, <4>2
    <3>8. CASE n # Old
      <4>1. \A f \in 0..Ring - 1 : LiveAt(Old, f) => value[f] # b
        <5>1. ASSUME NEW f \in 0..Ring - 1, LiveAt(Old, f), value[f] = b PROVE FALSE
          <6>1. Nth(n) = Nth(Old)
            BY <3>2, <3>4, <5>1 DEF LiveAt
          <6> QED
            BY <1>3, <3>5, <3>8, <6>1, NthApart
        <5> QED
          BY <5>1
      <4>2. ~(TailFreed /\ b = tailBlock)
        BY <1>6, <4>1
      <4>3. PICK i \in Left(n) : TRUE
        BY <1>3, <3>5
      <4>4. i \in LeftOver /\ Num(i) = n
        <5>1. i \in Int /\ headIndex <= i /\ Num(i) = n
          BY <1>3, <3>5, ElementsFacts DEF Left
        <5>2. n < Old
          BY <1>3, <3>5, <3>8
        <5>3. i < tailIndex
          <6>1. tailIndex - 1 \in Int
            BY <1>3
          <6>2. ASSUME tailIndex - 1 <= i PROVE FALSE
            <7>1. Old <= n
              BY <5>1, <6>1, <6>2, NumOrder DEF Old
            <7> QED
              BY <1>3, <3>5, <5>2, <7>1
          <6> QED
            BY <1>3, <5>1, <6>2
        <5> QED
          BY <1>3, <5>1, <5>3 DEF LeftOver
      <4>5. b \in BlocksOfLeftOver
        BY <1>4, <3>2, <3>6, <4>4 DEF BlocksOfLeftOver
      <4>6. b # LastOfLeftOver
        BY <1>8, <4>1, <4>4 DEF LiveAt
      <4> QED
        BY <1>7, <1>9, <2>3, <4>2, <4>4, <4>5, <4>6
    <3> QED
      BY <3>7, <3>8
  <2> QED
    BY <2>1, <2>2, <2>3 DEF OnePlace
<1>11. ASSUME NEW b \in Blocks, NEW s \in 0..BlockSize - 1 PROVE content'[b][s] = Hole
  <2>1. content[b][s] # Hole => content[b][s] \in LeftOver
    BY <1>1, <1>3 DEF OnlyLeft, LeftOver
  <2> QED
    BY <1>9, <2>1
<1>12. \A b \in Blocks : DOMAIN content'[b] = 0..BlockSize - 1
  BY <1>9
<1> QED
  BY <1>10, <1>11, <1>12 DEF DestroyedClean

-----------------------------------------------------------------------------
(***************************************************************************)
(* The invariant, and what follows from it.                                *)
(***************************************************************************)
LEMMA InitProducer == ImplicitInit => ProducerInv
<1> SUFFICES ASSUME ImplicitInit PROVE ProducerInv
  OBVIOUS
<1>1. Begun /\ TP!IInv /\ RingInv
  BY InitBegun, InitTickets, TicketsAssumed, TP!InitIInv, InitRing
<1>2. /\ tailIndex = 0 /\ headIndex = 0 /\ cpc = [c \in Consumers |-> "idle"]
      /\ value = [e \in 0..FirstCapacity - 1 |-> NoBlock]
      /\ content = [b \in Blocks |-> [s \in 0..BlockSize - 1 |-> Hole]]
      /\ dequeued = [b \in Blocks |-> 0] /\ pool = [b \in Blocks |-> 1]
      /\ tailBlock = NoBlock /\ ppc = "idle" /\ op = NoOp
      /\ at = [c \in Consumers |-> Nowhere]
  BY DEF ImplicitInit, TicketsInit
<1>3. /\ BlockSize \in Nat \ {0} /\ MaxElements \in Nat /\ Nowhere \in Whereabouts /\ Hole \in Int
  BY ImplicitAssumption DEF ImplicitAssumption, Nowhere, Whereabouts, Hole
<1>4. \A c \in Consumers : cpc[c] = "idle"
  BY <1>2
<1>5. PlacesTyped
  BY <1>2, <1>3 DEF PlacesTyped, Busy
<1>6. Shared
  BY <1>4 DEF Shared, Ordered, Holds, Seeking
<1>7. Ring = FirstCapacity /\ op.chain = <<>> /\ Len(op.chain) = 0
  <2>1. value \in [0..Ring - 1 -> Blocks \cup {NoBlock}] /\ Ring \in Nat \ {0}
    BY <1>1, HeadersTyped DEF RingInv, RingTyped
  <2>2. FirstCapacity \in Nat \ {0}
    BY ImplicitAssumption DEF ImplicitAssumption
  <2>3. DOMAIN value = 0..Ring - 1 /\ DOMAIN value = 0..FirstCapacity - 1
    BY <1>2, <2>1
  <2>4. Ring = FirstCapacity
    BY <2>1, <2>2, <2>3
  <2> QED
    BY <1>2, <2>4 DEF NoOp
<1>8. \A e \in 0..Ring - 1 : value[e] = NoBlock
  BY <1>2, <1>7
<1>9. Old = -1
  <2>1. -1 \in Int /\ -1 < Nth(0) /\ 0 - 1 = -1
    BY <1>3 DEF Nth
  <2>2. Num(-1) < 0
    BY <2>1, NumIs
  <2> QED
    BY <1>1, <1>2, <2>1, <2>2, OldFacts DEF Old
<1>10. \A n, e : ~LiveAt(n, e)
  BY <1>8 DEF LiveAt, Alive
<1>11. Ways /\ LeftLive /\ Filled /\ TailHeld /\ OnlyLeft /\ ChainBlocks
  <2>1. Ways
    BY <1>4 DEF Ways, OnWay
  <2>2. LeftLive /\ Filled /\ TailHeld
    BY <1>9, <1>10 DEF LeftLive, Filled, TailHeld
  <2>3. OnlyLeft
    BY <1>2 DEF OnlyLeft
  <2>4. ChainBlocks
    BY <1>7 DEF ChainBlocks
  <2> QED
    BY <2>1, <2>2, <2>3, <2>4
<1>12. ASSUME NEW b \in Blocks PROVE OnePlace(b)
  <2>1. \A e \in 0..Ring - 1 : value[e] # b
    BY <1>8, RealBlocks
  <2>2. \A c \in Consumers : ~Carries(c, b)
    BY <1>4 DEF Carries
  <2>3. ~InIndex(b) /\ ~InHand(b) /\ ~InCall(b)
    BY <1>7, <2>1, <2>2 DEF InIndex, InHand, InCall
  <2> QED
    BY <1>2, <2>1, <2>2, <2>3 DEF OnePlace
<1>13. DestroyedClean /\ ppc # "destroyed"
  BY <1>2 DEF DestroyedClean
<1> QED
  BY <1>1, <1>5, <1>6, <1>11, <1>12, <1>13 DEF ProducerInv, Stock

LEMMA ProducerSettled ==
  ASSUME Settled, Produce
  PROVE  PlacesTyped' /\ RingInv' /\ Shared' /\ Stock' /\ ppc' # "destroyed"
<1>1. Begun
  BY DEF Settled
<1>2. CASE GrowFails \/ FillThrows
  <2>1. ppc' = "undo"
    BY <1>2 DEF GrowFails, FillThrows, Fail
  <2> QED
    BY <1>2, <2>1, FailSettled
<1>3. CASE GetBlockFails
  <2>1. ppc' = "undo"
    BY <1>3 DEF GetBlockFails, Fail
  <2> QED
    BY <1>3, <2>1, GetFailsSettled
<1>4. CASE GrowIndex
  BY <1>1, <1>4, GrowFrame, GrowSettled
<1>5. CASE InsertEntry
  BY <1>1, <1>5, InsertFrame, InsertSettled
<1>6. CASE GetBlock
  BY <1>1, <1>6, GetFrame, GetSettled
<1>7. CASE StoreBlock
  BY <1>1, <1>7, StoreFrame, StoreSettled
<1>8. CASE Fill
  BY <1>1, <1>8, FillFrame, FillSettled
<1>9. CASE UndoEntry
  BY <1>1, <1>9, UndoFrame, UndoSettled
<1>10. CASE UndoDone
  BY <1>1, <1>10, UndoneFrame, UndoneSettled
<1> QED
  BY <1>2, <1>3, <1>4, <1>5, <1>6, <1>7, <1>8, <1>9, <1>10 DEF Produce

LEMMA ConsumerSettled ==
  ASSUME Settled, NEW c \in Consumers, Consume(c)
  PROVE  PlacesTyped' /\ RingInv' /\ Shared' /\ Stock' /\ ppc' = ppc
<1>1. ppc' = ppc
  BY ConsumerKeepsCall DEF Settled
<1> QED
  BY <1>1, DrawSettled, LocateSettled, ReadBaseSettled, TakeSettled, ForgetSettled, ReleaseSettled
     DEF Consume

\* Nothing happens, or the destructor runs.
LEMMA RestSettled ==
  ASSUME ProducerInv, UNCHANGED <<ticketVars, indexVars, dequeued, tailBlock, op, at>>,
         pool' \in [Blocks -> Nat], content' \in [Blocks -> [0..BlockSize - 1 -> Int]],
         ppc' = ppc \/ (ppc = "idle" /\ ppc' = "destroyed")
  PROVE  PlacesTyped' /\ RingInv' /\ Shared'
<1>1. Begun /\ PlacesTyped /\ RingInv /\ Shared
  BY DEF ProducerInv
<1>2. UNCHANGED <<tailIndex, headIndex, cpc, my, headers, key, value>>
  BY DEF ticketVars, counters, indexVars
<1>3. PlacesTyped'
  BY <1>1, <1>2 DEF PlacesTyped, Busy
<1>4. Shared'
  BY <1>1, <1>2 DEF Shared, Ordered, Holds, First, End
<1>5. Old' = Old /\ Top' = Top /\ TailNum' = TailNum /\ Ring' = Ring
  BY <1>2 DEF Old, Top, TailNum, Ring, Current
<1>6. RingTyped' /\ KeysKnown' /\ KeysAbove' /\ \A n : EntryAt(n)' = EntryAt(n)
  BY <1>1, <1>2, <1>5, SameRing DEF RingInv, RingTyped, Alive
<1>7. ChainKeys'
  BY <1>1, <1>2, <1>5, <1>6 DEF RingInv, ChainKeys, Alive
<1> QED
  BY <1>3, <1>4, <1>6, <1>7 DEF RingInv

LEMMA StutterStock ==
  ASSUME Settled, UNCHANGED implicitVars
  PROVE  Stock'
<1>1. Begun /\ RingInv
  BY DEF Settled
<1>2. UNCHANGED <<ticketVars, blockVars, tailBlock, at, headers, key, value, op, ppc>>
  BY DEF implicitVars, indexVars, producerVars
<1>3. /\ Old' = Old /\ Ring' = Ring /\ HeadersKept /\ KeysStay /\ \A n : EntryAt(n)' = EntryAt(n)
      /\ \A n, e : LiveAt(n, e)' <=> LiveAt(n, e)
  BY <1>2, SameLive DEF Old, Ring, Current, HeadersKept, EntryAt, TailNum, Top, ticketVars, counters
<1>4. /\ UNCHANGED <<headIndex, tailIndex, cpc, my, at, tailBlock, content>>
      /\ UNCHANGED <<dequeued, pool, value>>
  BY <1>2 DEF ticketVars, counters, blockVars
<1>5. Ways' /\ LeftLive' /\ Filled' /\ TailHeld' /\ OnlyLeft'
  BY <1>3, <1>4, ProducerKept
<1>6. ChainBlocks'
  <2>1. ChainBlocks
    BY DEF Settled, Stock
  <2>2. \A k : (EntryAt(Old + k))' = EntryAt(Old + k)
    BY <1>2, <1>3 DEF EntryAt, TailNum, Top, Current
  <2> QED
    BY <1>2, <1>4, <2>1, <2>2 DEF ChainBlocks, Unindexed
<1>7. ASSUME NEW b \in Blocks PROVE OnePlace(b)'
  <2>1. \A c \in Consumers : Carries(c, b)' <=> Carries(c, b)
    BY <1>4 DEF Carries
  <2>2. InCall(b)' <=> InCall(b)
    BY <1>2 DEF InCall, Unindexed
  <2> QED
    BY <1>3, <1>4, <2>1, <2>2, PlaceKept DEF Settled, Stock
<1> QED
  BY <1>5, <1>6, <1>7 DEF Stock

LEMMA StepProducer == ProducerInv /\ [ImplicitNext]_implicitVars => ProducerInv'
<1> SUFFICES ASSUME ProducerInv, [ImplicitNext]_implicitVars PROVE ProducerInv'
  OBVIOUS
<1>1. Begun' /\ TP!IInv'
  BY StepBegun, StepTickets, TicketsAssumed, TP!StepIInv DEF ProducerInv
<1>2. ppc # "destroyed" => Settled
  BY DEF ProducerInv, Settled
<1>3. ASSUME PlacesTyped' /\ RingInv' /\ Shared' /\ Stock', ppc' # "destroyed" PROVE ProducerInv'
  BY <1>1, <1>3 DEF ProducerInv, DestroyedClean
<1>4. ASSUME NEW n \in Amounts, Enqueue(n) PROVE ProducerInv'
  <2>1. ppc = "idle" /\ ppc' # "destroyed"
    BY <1>4, EnqueueBegun DEF ProducerInv
  <2> QED
    BY <1>2, <1>3, <1>4, <2>1, EnqueueSettled
<1>5. CASE Produce
  <2>1. ppc # "destroyed"
    BY <1>5 DEF Produce, GrowIndex, GrowFails, InsertEntry, GetBlock, GetBlockFails, StoreBlock,
                Fill, FillThrows, UndoEntry, UndoDone
  <2> QED
    BY <1>2, <1>3, <1>5, <2>1, ProducerSettled
<1>6. ASSUME NEW c \in Consumers, Consuming(c) PROVE ProducerInv'
  <2>1. ppc # "destroyed" /\ Consume(c)
    BY <1>6 DEF Consuming
  <2> QED
    BY <1>2, <1>3, <2>1, ConsumerSettled
<1>7. CASE Destroy
  <2>1. /\ ppc = "idle" /\ ppc' = "destroyed"
        /\ UNCHANGED <<ticketVars, indexVars, dequeued, tailBlock, op, at>>
    BY <1>7 DEF Destroy
  <2>2. DestroyedClean' /\ \A c \in Consumers : cpc'[c] = "idle"
    BY <1>2, <1>7, <2>1, DestroyClean DEF Destroy, ticketVars
  <2>3. /\ content \in [Blocks -> [0..BlockSize - 1 -> Int]] /\ pool \in [Blocks -> Nat] /\ Hole \in Int
    BY DEF ProducerInv, PlacesTyped, Hole
  <2>4. content' \in [Blocks -> [0..BlockSize - 1 -> Int]] /\ pool' \in [Blocks -> Nat]
    <3>1. PICK L : L = LeftOver
      OBVIOUS
    <3>2. content' = [b \in Blocks |-> [s \in 0..BlockSize - 1 |->
                       IF content[b][s] \in L THEN Hole ELSE content[b][s]]]
      BY <1>7, <3>1 DEF Destroy
    <3>3. PICK F : pool' = [b \in Blocks |-> pool[b] + (IF b \in F THEN 1 ELSE 0)
                                              + (IF TailFreed /\ b = tailBlock THEN 1 ELSE 0)]
      BY <1>7 DEF Destroy
    <3>4. \A b \in Blocks : pool'[b] \in Nat
      <4>1. ASSUME NEW b \in Blocks, NEW x \in {0, 1}, NEW y \in {0, 1} PROVE pool[b] + x + y \in Nat
        BY <2>3
      <4> QED
        BY <3>3, <4>1
    <3> QED
      BY <2>3, <3>2, <3>3, <3>4
  <2> QED
    BY <1>1, <2>1, <2>2, <2>4, RestSettled DEF ProducerInv
<1>8. CASE UNCHANGED implicitVars
  <2>1. /\ UNCHANGED <<ticketVars, indexVars, dequeued, tailBlock, op, at>>
        /\ UNCHANGED <<pool, content, ppc>>
    BY <1>8 DEF implicitVars, blockVars, producerVars
  <2>2. content \in [Blocks -> [0..BlockSize - 1 -> Int]] /\ pool \in [Blocks -> Nat]
    BY DEF ProducerInv, PlacesTyped
  <2>3. PlacesTyped' /\ RingInv' /\ Shared'
    BY <2>1, <2>2, RestSettled
  <2>4. ppc # "destroyed" => Stock'
    BY <1>2, <1>8, StutterStock
  <2>5. DestroyedClean' /\ (ppc' = "destroyed" => \A c \in Consumers : cpc'[c] = "idle")
    BY <2>1 DEF ProducerInv, DestroyedClean, ticketVars
  <2> QED
    BY <1>1, <2>1, <2>3, <2>4, <2>5 DEF ProducerInv
<1> QED
  BY <1>4, <1>5, <1>6, <1>7, <1>8 DEF ImplicitNext

LEMMA AlwaysProducer == ImplicitSpec => []ProducerInv
BY InitProducer, StepProducer, PTL DEF ImplicitSpec

-----------------------------------------------------------------------------
\* ElementInPlace is an invariant: the block index leads a consumer to the block
\* that holds its elements, each in its slot.
THEOREM ElementFoundInPlace == ImplicitSpec => []ElementInPlace
<1>1. ProducerInv => ElementInPlace
  <2> SUFFICES ASSUME ProducerInv, NEW c \in Consumers, cpc[c] = "take"
               PROVE  /\ value[EntryOf(c)] # NoBlock
                      /\ \A i \in Batch(c) : content[value[EntryOf(c)]][Slot(i)] = i
    BY DEF ElementInPlace
  <2>1. Settled
    BY DEF ProducerInv, Settled
  <2>2. Begun /\ TP!IInv /\ PlacesTyped /\ RingInv /\ Shared /\ LeftLive /\ Filled /\ OnWay(c)
    BY <2>1 DEF Settled, Stock, Ways
  <2>3. PICK n \in 0..Old : /\ n = AtNum(c) /\ LiveAt(n, EntryOf(c)) /\ EntryOf(c) \in 0..Ring - 1
                            /\ value[EntryOf(c)] \in Blocks
    BY <2>2, TakeLive
  <2>4. ASSUME NEW i \in Batch(c) PROVE content[value[EntryOf(c)]][Slot(i)] = i
    <3>1. i \in Left(n) /\ i \in Holds(c)
      BY <2>1, <2>3, BatchFacts
    <3>2. i < tailIndex
      BY <2>2, <3>1, HeldFacts
    <3> QED
      BY <2>2, <2>3, <3>1, <3>2 DEF Filled
  <2> QED
    BY <2>3, <2>4, RealBlocks
<1> QED
  BY <1>1, AlwaysProducer, PTL

\* BlocksAccounted is an invariant: no block is lost, or in two places.
THEOREM EveryBlockOnce == ImplicitSpec => []BlocksAccounted
<1>1. ProducerInv => BlocksAccounted
  <2> SUFFICES ASSUME ProducerInv, ppc # "destroyed", NEW b \in Blocks PROVE TimesUsed(b) = 1
    BY DEF BlocksAccounted
  <2>1. Begun /\ RingTyped /\ OnePlace(b) /\ pool[b] \in {0, 1}
    BY DEF ProducerInv, Stock, RingInv, OnePlace
  <2>2. PICK E : E = {e \in DOMAIN value : value[e] = b}
    OBVIOUS
  <2>3. PICK H : H = {c \in Consumers : cpc[c] = "release" /\ at[c].block = b}
    OBVIOUS
  <2>4. PICK w \in {0, 1} : w = IF InCall(b) THEN 1 ELSE 0
    OBVIOUS
  <2>5. Cardinality(E) = IF InIndex(b) THEN 1 ELSE 0
    <3>1. E = {e \in 0..Ring - 1 : value[e] = b}
      BY <2>1, <2>2 DEF RingTyped
    <3>2. CASE InIndex(b)
      <4>0. PICK e \in 0..Ring - 1 : value[e] = b
        BY <3>2 DEF InIndex
      <4>1. E = {e}
        BY <2>1, <3>1, <4>0 DEF OnePlace
      <4> QED
        BY <3>2, <4>1, FS_Singleton
    <3>3. CASE ~InIndex(b)
      <4>1. E = {}
        BY <3>1, <3>3 DEF InIndex
      <4> QED
        BY <3>3, <4>1, FS_EmptySet
    <3> QED
      BY <3>2, <3>3
  <2>6. Cardinality(H) = IF InHand(b) THEN 1 ELSE 0
    <3>1. H = {c \in Consumers : Carries(c, b)}
      BY <2>3 DEF Carries
    <3>2. CASE InHand(b)
      <4>1. PICK c : H = {c}
        BY <2>1, <3>1, <3>2 DEF InHand, OnePlace
      <4> QED
        BY <3>2, <4>1, FS_Singleton
    <3>3. CASE ~InHand(b)
      <4>1. H = {}
        BY <3>1, <3>3 DEF InHand
      <4> QED
        BY <3>3, <4>1, FS_EmptySet
    <3> QED
      BY <3>2, <3>3
  <2>7. (IF ppc = "store" /\ op.chain[Len(op.chain)] = b THEN 1 ELSE 0)
        + (IF ppc = "undo" /\ \E i \in 1..op.undo - 1 : op.chain[i] = b THEN 1 ELSE 0) = w
    <3>1. Len(op.chain) \in Nat /\ op.chain \in Seq(Blocks)
      BY <2>1, OldFacts
    <3>2. CASE ppc = "store"
      <4>1. Len(op.chain) \in 1..Len(op.chain)
        BY <2>1, <3>1, <3>2 DEF Begun
      <4>2. InCall(b) <=> op.chain[Len(op.chain)] = b
        BY <3>2, <4>1 DEF InCall, Unindexed
      <4> QED
        BY <2>4, <3>2, <4>2
    <3>3. CASE ppc = "undo"
      <4>1. op.undo \in 1..Len(op.chain) + 1
        BY <2>1, <3>3 DEF Begun
      <4>2. InCall(b) <=> \E i \in 1..op.undo - 1 : op.chain[i] = b
        BY <3>1, <3>3, <4>1 DEF InCall, Unindexed
      <4> QED
        BY <2>4, <3>3, <4>2
    <3>4. CASE ppc \notin {"store", "undo"}
      <4>1. ~InCall(b)
        BY <3>4 DEF InCall, Unindexed
      <4> QED
        BY <2>4, <3>4, <4>1
    <3> QED
      BY <3>2, <3>3, <3>4
  <2>8. pool[b] + Cardinality(E) + Cardinality(H) + w = 1
    BY <2>1, <2>4, <2>5, <2>6 DEF OnePlace
  <2>9. PICK x, y : /\ x = IF ppc = "store" /\ op.chain[Len(op.chain)] = b THEN 1 ELSE 0
                    /\ y = IF ppc = "undo" /\ \E i \in 1..op.undo - 1 : op.chain[i] = b THEN 1 ELSE 0
    OBVIOUS
  <2>10. TimesUsed(b) = pool[b] + Cardinality(E) + Cardinality(H) + x + y
    BY <2>2, <2>3, <2>9 DEF TimesUsed
  <2>11. /\ Cardinality(E) \in Int /\ Cardinality(H) \in Int /\ x \in Int /\ y \in Int /\ pool[b] \in Int
         /\ x + y = w
    BY <2>1, <2>5, <2>6, <2>7, <2>9
  <2> QED
    BY <2>8, <2>10, <2>11
<1> QED
  BY <1>1, AlwaysProducer, PTL

\* DestroyedClean is an invariant: the destructor frees every block once.
THEOREM DestructorFreesAll == ImplicitSpec => []DestroyedClean
<1>1. ProducerInv => DestroyedClean
  BY DEF ProducerInv
<1> QED
  BY <1>1, AlwaysProducer, PTL

\* Type correctness.
THEOREM ImplicitTyped == ImplicitSpec => []ImplicitTypeOK
<1>1. ProducerInv => ImplicitTypeOK
  <2> SUFFICES ASSUME ProducerInv PROVE ImplicitTypeOK
    OBVIOUS
  <2>1. Begun /\ TP!IInv /\ PlacesTyped /\ RingTyped
    BY DEF ProducerInv, RingInv
  <2>2. \A h \in DOMAIN headers : headers[h].tail \in 0..headers[h].capacity - 1
    BY <2>1, HeadersTyped
  <2>3. /\ DOMAIN key = DOMAIN value
        /\ \A e \in DOMAIN key : key[e] >= INVALID_BLOCK_BASE /\ value[e] \in Blocks \cup {NoBlock}
    BY <2>1 DEF RingTyped, INVALID_BLOCK_BASE
  <2>4. ASSUME NEW b \in Blocks, NEW s \in 0..BlockSize - 1, content[b][s] # Hole
        PROVE  content[b][s] \in 0..MaxElements - 1
    <3>1. ppc # "destroyed"
      <4>1. DOMAIN content[b] = 0..BlockSize - 1
        BY <2>1 DEF PlacesTyped
      <4> QED
        BY <2>4, <4>1 DEF ProducerInv, DestroyedClean
    <3>2. content[b][s] \in 0..tailIndex - 1
      BY <2>4, <3>1 DEF ProducerInv, Stock, OnlyLeft
    <3>3. tailIndex <= MaxElements /\ tailIndex \in Nat /\ MaxElements \in Nat
      BY <2>1, CountersFacts, ImplicitAssumption DEF PlacesTyped, ImplicitAssumption
    <3> QED
      BY <3>2, <3>3
  <2>5. content \in [Blocks -> [0..BlockSize - 1 -> {Hole} \cup 0..MaxElements - 1]]
    <3>1. content \in [Blocks -> [0..BlockSize - 1 -> Int]]
      BY <2>1 DEF PlacesTyped
    <3>2. \A b \in Blocks : \A s \in 0..BlockSize - 1 : content[b][s] \in {Hole} \cup 0..MaxElements - 1
      BY <2>4
    <3>3. \A b \in Blocks : content[b] \in [0..BlockSize - 1 -> {Hole} \cup 0..MaxElements - 1]
      BY <3>1, <3>2
    <3> QED
      BY <3>1, <3>3
  <2> QED
    BY <2>1, <2>2, <2>3, <2>5 DEF ImplicitTypeOK, PlacesTyped
<1> QED
  BY <1>1, AlwaysProducer, PTL
=============================================================================
