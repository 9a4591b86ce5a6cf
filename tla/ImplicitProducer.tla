-------------------------- MODULE ImplicitProducer --------------------------
(***************************************************************************)
(* The elements of one thread that calls ConcurrentQueue::enqueue without  *)
(* a token, as every thread of the bot does, and the consumers that take   *)
(* them (tools/moodycamel.h, ImplicitProducer and its blocks).             *)
(*                                                                         *)
(* Element i, the one enqueued when tailIndex was i, lies in slot          *)
(* i % BlockSize of the block whose base is i rounded down.  A block index *)
(* says where that block is: a ring of pointers to entries <<key, value>>. *)
(* When the ring is full another of twice the size takes its place, which  *)
(* shares the entries of the old one, as consumers may still read that.    *)
(*                                                                         *)
(* The producer publishes by stores to tail, value and tailIndex; what it  *)
(* writes before such a store is seen by nobody and is part of that step.  *)
(***************************************************************************)
EXTENDS Tickets, Sequences, FiniteSetsExt

CONSTANTS BlockSize,      \* BLOCK_SIZE, a power of two above 1
          FirstCapacity,  \* IMPLICIT_INITIAL_INDEX_SIZE, a power of two
          Blocks,         \* the blocks there is memory for, numbers
          MaxElements,    \* bound: elements enqueued in all
          MaxFailures,    \* bound: enqueues that fail or throw
          MaxTickets      \* bound: tickets drawn by calls that overlap

ASSUME ImplicitAssumption ==
  /\ BlockSize \in Nat \ {0} /\ FirstCapacity \in Nat \ {0}
  /\ Blocks \subseteq Nat
  /\ MaxElements \in Nat

VARIABLES headers,    \* every block index allocated, the current one last
          key, value, \* of each entry: a block base, and its block or NoBlock
          content,    \* of each block: the element in each slot, or Hole
          dequeued,   \* of each block: elementsCompletelyDequeued
          pool,       \* of each block: how often it lies in the free list
          tailBlock,
          ppc, op,    \* where the producer is, and its local variables
          failures,   \* enqueues that failed so far
          at          \* of each consumer: where it looks for its elements

indexVars == <<headers, key, value>>
blockVars == <<content, dequeued, pool>>
producerVars == <<tailBlock, ppc, op, failures>>
implicitVars == <<ticketVars, indexVars, blockVars, producerVars, at>>

INVALID_BLOCK_BASE == -1
NoBlock == -1
Hole == -1
Base(i) == (i \div BlockSize) * BlockSize
Slot(i) == i % BlockSize

\* What the producer knows: start and count of the call, the blocks it has
\* got so far, the base the next one is for, the entry inserted last, the
\* blocks it has still to undo.
NoOp == [start |-> 0, count |-> 0, chain |-> <<>>, base |-> 0, entry |-> 0, undo |-> 0]

\* What a consumer knows: the block index and the position of the tail in it,
\* then the position of its own entry, its next element and its block.
Nowhere == [header |-> 1, tail |-> 0, pos |-> 0, next |-> 0, block |-> NoBlock]

-----------------------------------------------------------------------------
\* A block index in which the old one's entries come first, oldest first,
\* then new ones, with the tail at the last old entry (new_block_index).
Enlarged(old) ==
  LET n == Cardinality(DOMAIN key)
      Rotated == [i \in 0..old.capacity - 1 |->
                    old.index[(old.tail + 1 + i) % old.capacity]]
  IN [capacity |-> 2 * old.capacity, tail |-> old.capacity - 1,
      index |-> [i \in 0..2 * old.capacity - 1 |->
                   IF i < old.capacity THEN Rotated[i] ELSE n + i - old.capacity]]

Current == headers[Len(headers)]
NextTail == (Current.tail + 1) % Current.capacity
NextEntry == Current.index[NextTail]

\* Faulty variant of NextEntryFree: the ring is taken to have room always.
NextEntryUnchecked == TRUE

\* The ring has room if the entry after the tail was never used or is given up.
NextEntryFree == key[NextEntry] = INVALID_BLOCK_BASE \/ value[NextEntry] = NoBlock

\* The position of index i in the ring h, told from the tail position and the
\* base found there (get_block_index_index_for_index).
Position(h, tail, tailBase, i) ==
  (tail + (Base(i) - tailBase) \div BlockSize) % headers[h].capacity

\* The entry for i, as the producer itself finds it.
EntryFor(i) == Current.index[Position(Len(headers), Current.tail,
                                      key[Current.index[Current.tail]], i)]

Free == {b \in Blocks : pool[b] > 0}

ImplicitInit ==
  /\ TicketsInit
  /\ headers = <<[capacity |-> FirstCapacity, tail |-> FirstCapacity - 1,
                  index |-> [i \in 0..FirstCapacity - 1 |-> i]]>>
  /\ key = [e \in 0..FirstCapacity - 1 |-> INVALID_BLOCK_BASE]
  /\ value = [e \in 0..FirstCapacity - 1 |-> NoBlock]
  /\ content = [b \in Blocks |-> [s \in 0..BlockSize - 1 |-> Hole]]
  /\ dequeued = [b \in Blocks |-> 0]
  /\ pool = [b \in Blocks |-> 1]
  /\ tailBlock = NoBlock
  /\ ppc = "idle" /\ op = NoOp /\ failures = 0
  /\ at = [c \in Consumers |-> Nowhere]

-----------------------------------------------------------------------------
\* The blocks a call needs: the bases between the last element there is and
\* the last one there will be.
AllocOrFill(o) == IF o.base < o.start + o.count THEN "index" ELSE "fill"

Enqueue(count) ==
  LET o == [NoOp EXCEPT !.start = tailIndex, !.count = count,
                        !.base = Base(tailIndex - 1) + BlockSize] IN
  /\ ppc = "idle"
  /\ tailIndex + count <= MaxElements
  /\ op' = o /\ ppc' = AllocOrFill(o)
  /\ UNCHANGED <<ticketVars, indexVars, blockVars, tailBlock, at, failures>>

\* insert_block_index_entry finds the ring full and makes a larger one ...
GrowIndex ==
  LET new == Cardinality(DOMAIN key)..Cardinality(DOMAIN key) + Current.capacity - 1 IN
  /\ ppc = "index" /\ ~NextEntryFree
  /\ headers' = Append(headers, Enlarged(Current))
  /\ key' = [e \in DOMAIN key \cup new |-> IF e \in new THEN INVALID_BLOCK_BASE ELSE key[e]]
  /\ value' = [e \in DOMAIN value \cup new |-> IF e \in new THEN NoBlock ELSE value[e]]
  /\ UNCHANGED <<ticketVars, blockVars, producerVars, at>>

\* The call fails, and undoes what it has done.
Fail ==
  /\ failures < MaxFailures /\ failures' = failures + 1
  /\ ppc' = "undo" /\ op' = [op EXCEPT !.undo = 1]

\* ... or cannot, for want of memory or because it may not (CannotAlloc).
GrowFails ==
  /\ ppc = "index" /\ ~NextEntryFree
  /\ Fail
  /\ UNCHANGED <<ticketVars, indexVars, blockVars, tailBlock, at>>

InsertEntry ==
  /\ ppc = "index" /\ NextEntryFree
  /\ key' = [key EXCEPT ![NextEntry] = op.base]
  /\ headers' = [headers EXCEPT ![Len(headers)].tail = NextTail]
  /\ op' = [op EXCEPT !.entry = NextEntry]
  /\ ppc' = "block"
  /\ UNCHANGED <<ticketVars, value, blockVars, tailBlock, at, failures>>

\* requisition_block and reset_empty.  One free block is as good as another.
GetBlock ==
  /\ ppc = "block" /\ Free # {}
  /\ LET b == Min(Free) IN
       /\ pool' = [pool EXCEPT ![b] = @ - 1]
       /\ dequeued' = [dequeued EXCEPT ![b] = 0]
       /\ op' = [op EXCEPT !.chain = Append(@, b)]
  /\ ppc' = "store"
  /\ UNCHANGED <<ticketVars, indexVars, content, tailBlock, at, failures>>

RewindTail == headers' = [headers EXCEPT ![Len(headers)].tail =
                            (@ - 1) % Current.capacity]

GetBlockFails ==
  /\ ppc = "block"
  /\ RewindTail
  /\ value' = [value EXCEPT ![op.entry] = NoBlock]
  /\ Fail
  /\ UNCHANGED <<ticketVars, key, blockVars, tailBlock, at>>

StoreBlock ==
  LET o == [op EXCEPT !.base = @ + BlockSize] IN
  /\ ppc = "store"
  /\ value' = [value EXCEPT ![op.entry] = op.chain[Len(op.chain)]]
  /\ op' = o /\ ppc' = AllocOrFill(o)
  /\ UNCHANGED <<ticketVars, headers, key, blockVars, tailBlock, at, failures>>

\* The block element i of the call goes to: the one that was not yet full, or
\* one of the new ones.
BlockOf(i) ==
  IF Base(i) = Base(op.start - 1) THEN tailBlock
  ELSE op.chain[1 + (Base(i) - (Base(op.start - 1) + BlockSize)) \div BlockSize]

\* The elements are constructed and tailIndex shows them.
Fill ==
  LET new == op.start..op.start + op.count - 1
      ElementAt(b, s) == {i \in new : BlockOf(i) = b /\ Slot(i) = s} IN
  /\ ppc = "fill"
  /\ content' = [b \in Blocks |-> [s \in 0..BlockSize - 1 |->
                   IF ElementAt(b, s) # {} THEN Max(ElementAt(b, s)) ELSE content[b][s]]]
  /\ tailBlock' = BlockOf(op.start + op.count - 1)
  /\ Publish(op.count)
  /\ ppc' = "idle" /\ op' = NoOp
  /\ UNCHANGED <<indexVars, dequeued, pool, at, failures>>

\* The copy of an element throws; those copied so far are destroyed.
FillThrows ==
  /\ ppc = "fill"
  /\ Fail
  /\ UNCHANGED <<ticketVars, indexVars, blockVars, tailBlock, at>>

\* The blocks of the call are taken out of the index again, first to last, ...
UndoEntry ==
  /\ ppc = "undo" /\ op.undo <= Len(op.chain)
  /\ value' = [value EXCEPT ![EntryFor(Base(op.start - 1) + op.undo * BlockSize)] = NoBlock]
  /\ RewindTail
  /\ op' = [op EXCEPT !.undo = @ + 1]
  /\ UNCHANGED <<ticketVars, key, blockVars, tailBlock, ppc, at, failures>>

\* Faulty variant of UndoDone: the blocks are not freed.
UndoDoneLeaking ==
  /\ ppc = "undo" /\ op.undo > Len(op.chain)
  /\ ppc' = "idle" /\ op' = NoOp
  /\ UNCHANGED <<ticketVars, indexVars, blockVars, tailBlock, at, failures>>

\* ... and freed; enqueue returns false, or throws.
UndoDone ==
  /\ ppc = "undo" /\ op.undo > Len(op.chain)
  /\ pool' = [b \in Blocks |-> IF \E i \in DOMAIN op.chain : op.chain[i] = b
                               THEN pool[b] + 1 ELSE pool[b]]
  /\ ppc' = "idle" /\ op' = NoOp
  /\ UNCHANGED <<ticketVars, indexVars, content, dequeued, tailBlock, at, failures>>

-----------------------------------------------------------------------------
\* What a consumer does before it knows its elements is that of Tickets.
\* Two consumers can draw in vain by turns for ever, hence the bound; one that
\* is alone draws no ticket in vain.
DrawTickets(c) ==
  /\ Draw(c)
  /\ cpc[c] = "idle" => \/ optimistic < MaxTickets
                        \/ \A d \in Consumers : cpc[d] = "idle"
  /\ UNCHANGED <<indexVars, blockVars, producerVars, at>>

\* It loads blockIndex and its tail, ...
Locate(c) ==
  /\ cpc[c] = "locate"
  /\ cpc' = [cpc EXCEPT ![c] = "base"]
  /\ at' = [at EXCEPT ![c] = [Nowhere EXCEPT !.header = Len(headers), !.tail = Current.tail,
                                            !.next = my[c].index]]
  /\ UNCHANGED <<counters, my, indexVars, blockVars, producerVars>>

\* ... then the key found there, from which follows its own position.
ReadBase(c) ==
  LET tailBase == key[headers[at[c].header].index[at[c].tail]] IN
  /\ cpc[c] = "base"
  /\ cpc' = [cpc EXCEPT ![c] = "take"]
  /\ at' = [at EXCEPT ![c].pos = Position(at[c].header, at[c].tail, tailBase, my[c].index)]
  /\ UNCHANGED <<counters, my, indexVars, blockVars, producerVars>>

EntryOf(c) == headers[at[c].header].index[at[c].pos]
End(c) == my[c].index + my[c].got
\* The elements c takes from one block.
Batch(c) == at[c].next..Min2(End(c), Base(at[c].next) + BlockSize) - 1

\* set_empty and set_many_empty: whether n more elements empty block b.
SetEmpty(b, n) == dequeued[b] + n = BlockSize

\* c, done with a block, goes on to the next position or returns.
DoneWithBlock(c, a) ==
  IF a.next < End(c)
  THEN /\ at' = [at EXCEPT ![c] = [a EXCEPT !.pos = (@ + 1) % headers[a.header].capacity]]
       /\ cpc' = [cpc EXCEPT ![c] = "take"] /\ UNCHANGED my
  ELSE at' = [at EXCEPT ![c] = Nowhere] /\ Goto(c, "idle", Blank)

\* The elements of c in one block are moved out and destroyed, and counted.
\* An element whose move throws is destroyed and counted all the same.
Take(c) ==
  LET b == value[EntryOf(c)]
      a == [at[c] EXCEPT !.next = Max(Batch(c)) + 1, !.block = b] IN
  /\ cpc[c] = "take"
  /\ b # NoBlock
  /\ content' = [content EXCEPT ![b] = [s \in DOMAIN @ |->
                    IF \E i \in Batch(c) : Slot(i) = s THEN Hole ELSE @[s]]]
  /\ dequeued' = [dequeued EXCEPT ![b] = @ + Cardinality(Batch(c))]
  /\ IF SetEmpty(b, Cardinality(Batch(c)))
     THEN at' = [at EXCEPT ![c] = a] /\ cpc' = [cpc EXCEPT ![c] = "forget"] /\ UNCHANGED my
     ELSE DoneWithBlock(c, a)
  /\ UNCHANGED <<counters, indexVars, pool, producerVars>>

\* An emptied block leaves the index, ...
Forget(c) ==
  /\ cpc[c] = "forget"
  /\ value' = [value EXCEPT ![EntryOf(c)] = NoBlock]
  /\ cpc' = [cpc EXCEPT ![c] = "release"]
  /\ UNCHANGED <<counters, my, headers, key, blockVars, producerVars, at>>

\* ... and goes back to the pool, or is destroyed.
Release(c) ==
  /\ cpc[c] = "release"
  /\ pool' = [pool EXCEPT ![at[c].block] = @ + 1]
  /\ DoneWithBlock(c, [at[c] EXCEPT !.block = NoBlock])
  /\ UNCHANGED <<counters, indexVars, content, dequeued, producerVars>>

-----------------------------------------------------------------------------
(***************************************************************************)
(* The destructor, when no call is under way: the elements left over are   *)
(* destroyed, and their blocks freed one after the other, except the last, *)
(* which is the tail block and freed if it holds elements or has room.     *)
(***************************************************************************)
LeftOver == headIndex..tailIndex - 1
BlocksOfLeftOver == {value[EntryFor(i)] : i \in LeftOver}
LastOfLeftOver == value[EntryFor(tailIndex - 1)]

\* Faulty variant of TailFreed: a tail block without elements is forgotten.
TailFreedIfLeft == LeftOver # {}

TailFreed == tailBlock # NoBlock /\ (LeftOver # {} \/ Slot(tailIndex) # 0)

Destroy ==
  LET FreedInLoop == IF LeftOver = {} THEN {} ELSE BlocksOfLeftOver \ {LastOfLeftOver} IN
  /\ ppc = "idle" /\ \A c \in Consumers : cpc[c] = "idle"
  /\ pool' = [b \in Blocks |-> pool[b] + (IF b \in FreedInLoop THEN 1 ELSE 0)
                                      + (IF TailFreed /\ b = tailBlock THEN 1 ELSE 0)]
  /\ content' = [b \in Blocks |-> [s \in 0..BlockSize - 1 |->
                    IF content[b][s] \in LeftOver THEN Hole ELSE content[b][s]]]
  /\ ppc' = "destroyed"
  /\ UNCHANGED <<ticketVars, indexVars, dequeued, tailBlock, op, at, failures>>

Produce ==
  \/ GrowIndex \/ GrowFails \/ InsertEntry \/ GetBlock \/ GetBlockFails
  \/ StoreBlock \/ Fill \/ FillThrows \/ UndoEntry \/ UndoDone

Consume(c) ==
  \/ DrawTickets(c) \/ Locate(c) \/ ReadBase(c) \/ Take(c) \/ Forget(c) \/ Release(c)

Consuming(c) == ppc # "destroyed" /\ Consume(c)

ImplicitNext ==
  \/ \E n \in Amounts : Enqueue(n)
  \/ Produce
  \/ \E c \in Consumers : Consuming(c)
  \/ Destroy

ImplicitSpec == ImplicitInit /\ [][ImplicitNext]_implicitVars

\* A consumer that has begun is scheduled again, and keeps asking.
ImplicitFairSpec == ImplicitSpec /\ \A c \in Consumers : WF_implicitVars(Consuming(c))

-----------------------------------------------------------------------------
\* Type correctness.
ImplicitTypeOK ==
  /\ \A h \in DOMAIN headers : headers[h].tail \in 0..headers[h].capacity - 1
  /\ DOMAIN key = DOMAIN value
  /\ \A e \in DOMAIN key : key[e] >= INVALID_BLOCK_BASE /\ value[e] \in Blocks \cup {NoBlock}
  /\ content \in [Blocks -> [0..BlockSize - 1 -> {Hole} \cup 0..MaxElements - 1]]
  /\ dequeued \in [Blocks -> 0..BlockSize]
  /\ tailBlock \in Blocks \cup {NoBlock}

\* ElementInPlace: the block index leads a consumer to the block that holds the
\* elements it was given, each in its slot, however often the ring was reused,
\* enlarged or rewound since the consumer began to look (the assertion at
\* moodycamel.h:2962).  As no element is given twice, each is taken once.
ElementInPlace ==
  \A c \in Consumers : cpc[c] = "take" =>
    LET b == value[EntryOf(c)] IN
      b # NoBlock /\ \A i \in Batch(c) : content[b][Slot(i)] = i

\* BlocksAccounted: a block is in the pool, or in one entry of the block index,
\* or in the hands of one thread, and never in two of these places, so no
\* memory leaks and no block is used twice at once.
TimesUsed(b) ==
  pool[b] + Cardinality({e \in DOMAIN value : value[e] = b})
  + Cardinality({c \in Consumers : cpc[c] = "release" /\ at[c].block = b})
  + (IF ppc = "store" /\ op.chain[Len(op.chain)] = b THEN 1 ELSE 0)
  + (IF ppc = "undo" /\ \E i \in 1..op.undo - 1 : op.chain[i] = b THEN 1 ELSE 0)
BlocksAccounted == ppc # "destroyed" => \A b \in Blocks : TimesUsed(b) = 1

\* DestroyedClean: the destructor frees every block once, and no element is
\* left in one (moodycamel.h:2466: "there's still one block that's not on the
\* free list", unless the tail has reached its end).
DestroyedClean ==
  ppc = "destroyed" =>
    \A b \in Blocks : pool[b] = 1 /\ \A s \in DOMAIN content[b] : content[b][s] = Hole

\* ElementsReach: a consumer that keeps asking, as popValue does, and is from some
\* time on the only one, is given every element that is added: no ticket drawn
\* in vain before hides an element from it.
ElementsReach ==
  \A c \in Consumers :
    (<>[](\A d \in Consumers \ {c} : cpc[d] = "idle")) =>
      []<>(headIndex = tailIndex \/ ppc = "destroyed")
=============================================================================
