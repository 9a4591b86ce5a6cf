---------------------------- MODULE ProducerTable ----------------------------
(***************************************************************************)
(* How a thread that calls ConcurrentQueue::enqueue finds its producer     *)
(* (tools/moodycamel.h, get_or_add_implicit_producer): a hash table from   *)
(* thread ids to producers with linear probing, which any number of        *)
(* threads search and extend without a lock.  When it is half full a table *)
(* of twice the size is put in front of it; entries move to the newest     *)
(* table when they are next looked up.  A thread that ends gives up its    *)
(* slots and its producer, which other threads take over.                  *)
(*                                                                         *)
(* Every access to a slot is a step.  Thread ids come back: a thread that  *)
(* has ended may start again with the same id.                             *)
(***************************************************************************)
EXTENDS Integers, Sequences, FiniteSets

CONSTANTS Callers,        \* the threads that enqueue
          Home,           \* hash_thread_id: of each thread, where its probing starts
          FirstSize,      \* INITIAL_IMPLICIT_PRODUCER_HASH_SIZE, a power of two
          EmptyKey,       \* invalid_thread_id
          ReusableKey,    \* invalid_thread_id2, the key of a slot given up
          NoCaller,
          MaxProducers,   \* there is memory for so many producers ...
          MaxTables,      \* ... and tables
          MaxCalls,       \* bound: calls
          MaxExits        \* bound: threads that end

ASSUME HomesAreSlots == Home \in [Callers -> Nat]
ASSUME SomeSlot == FirstSize \in Nat \ {0}
ASSUME KeysApart == EmptyKey # ReusableKey /\ Callers \cap {EmptyKey, ReusableKey} = {}

VARIABLES tables,         \* every hash, the newest last; of each slot the key and value
          hashCount,      \* implicitProducerHashCount
          resizing,       \* implicitProducerHashResizeInProgress
          inactive,       \* of each producer, in the order of creation
          using,          \* of each thread: the producer it was given first, 0 if none
          exiting,        \* who holds ThreadExitNotifier::mutex to end, or NoCaller
          calls, exits,   \* how many calls there were, and how many threads have ended
          tpc, probe      \* where each thread is, and its local variables

slotVars == <<tables, hashCount, resizing>>
ownVars == <<inactive, using, exiting, calls, exits>>
tableVars == <<slotVars, ownVars, tpc, probe>>

\* main is the hash that was the newest when last looked, hash and i the slot
\* to look at next, count newCount, and producer what will be returned.
NoProbe == [main |-> 0, hash |-> 0, i |-> 0, count |-> 0, producer |-> 0]

NewTable(size) == [s \in 0..size - 1 |-> [key |-> EmptyKey, producer |-> 0]]
Capacity(h) == Cardinality(DOMAIN tables[h])

TableInit ==
  /\ tables = <<NewTable(FirstSize)>>
  /\ hashCount = 0 /\ resizing = FALSE
  /\ inactive = <<>>
  /\ using = [t \in Callers |-> 0]
  /\ exiting = NoCaller /\ calls = 0 /\ exits = 0
  /\ tpc = [t \in Callers |-> "out"]
  /\ probe = [t \in Callers |-> NoProbe]

GoOn(t, place, p) ==
  /\ tpc' = [tpc EXCEPT ![t] = place]
  /\ probe' = [probe EXCEPT ![t] = p]

SlotAt(t) == probe[t].i % Capacity(probe[t].hash)
KeyAt(t) == tables[probe[t].hash][SlotAt(t)].key
NextSlot(t) == GoOn(t, tpc[t], [probe[t] EXCEPT !.i = @ + 1])
\* From the home slot of hash h.
GoProbe(t, place, h) == GoOn(t, place, [probe[t] EXCEPT !.hash = h, !.i = Home[t]])
SetSlot(t, k, p) == tables' = [tables EXCEPT ![probe[t].hash][SlotAt(t)] =
                                  [key |-> k, producer |-> p]]

-----------------------------------------------------------------------------
\* get_or_add_implicit_producer.  A thread that ends keeps out of the queue.
Call(t) ==
  /\ tpc[t] = "out" /\ exiting # t /\ calls < MaxCalls
  /\ calls' = calls + 1
  /\ GoOn(t, "find", [NoProbe EXCEPT !.main = Len(tables), !.hash = Len(tables), !.i = Home[t]])
  /\ UNCHANGED <<slotVars, inactive, using, exiting, exits>>

\* Faulty variant of NotFoundIn: the older hashes are not searched.
NotFoundAtAll(t, p) == GoOn(t, "count", p)

\* t is not in the hash it searched; an older one may have it.
NotFoundIn(t, p) == IF p.hash > 1 THEN GoProbe(t, "find", p.hash - 1) ELSE GoOn(t, "count", p)

\* One look at one slot, in the newest hash first.  A thread that finds itself
\* further back adds itself to the newest.
Find(t) ==
  LET p == probe[t]
      Found == [p EXCEPT !.producer = tables[p.hash][SlotAt(t)].producer] IN
  /\ tpc[t] = "find"
  /\ \/ KeyAt(t) = t /\ p.hash = p.main /\ GoOn(t, "return", Found)
     \/ /\ KeyAt(t) = t /\ p.hash # p.main
        /\ GoOn(t, "move", [Found EXCEPT !.hash = p.main, !.i = Home[t]])
     \/ KeyAt(t) = EmptyKey /\ NotFoundIn(t, p)
     \/ KeyAt(t) \notin {t, EmptyKey} /\ NextSlot(t)
  /\ UNCHANGED <<slotVars, ownVars>>

\* The exchange that adds t to the newest hash, at a slot empty or given up.
Move(t) ==
  /\ tpc[t] = "move"
  /\ IF KeyAt(t) \in {EmptyKey, ReusableKey}
     THEN SetSlot(t, t, probe[t].producer) /\ GoOn(t, "return", probe[t])
     ELSE NextSlot(t) /\ UNCHANGED tables
  /\ UNCHANGED <<hashCount, resizing, ownVars>>

\* A thread that is in no hash counts itself, ...
CountIn(t) ==
  /\ tpc[t] = "count"
  /\ hashCount' = hashCount + 1
  /\ GoOn(t, "room", [probe[t] EXCEPT !.count = hashCount + 1])
  /\ UNCHANGED <<tables, resizing, ownVars>>

HalfFull(count, size) == count >= size \div 2

\* Faulty variant of RoomToInsert: no thread waits for the larger hash.
RoomTaken(count, size) == TRUE

RoomToInsert(count, size) == count < size \div 2 + size \div 4

\* ... inserts itself unless the hash it knows is three quarters full, or looks
\* again for a newer one.
GoInsertOrWait(t, p) ==
  IF RoomToInsert(p.count, Capacity(p.main))
  THEN GoOn(t, "takeOver", [p EXCEPT !.i = Len(inactive)])
  ELSE GoOn(t, "wait", p)

\* Half full, it takes the right to put a larger hash in front, if it can.
TestAndSet(t) ==
  /\ tpc[t] = "room"
  /\ IF HalfFull(probe[t].count, Capacity(probe[t].main)) /\ ~resizing
     THEN resizing' = TRUE /\ GoOn(t, "resize", probe[t])
     ELSE GoInsertOrWait(t, probe[t]) /\ UNCHANGED resizing
  /\ UNCHANGED <<tables, hashCount, ownVars>>

\* The size doubles until the hash is less than half full.
Doublings(count, size) == {size * 2 ^ k : k \in 1..count + 1}
NewCapacities(count, size) ==
  {c \in 1..4 * (count + size) :
     /\ c \in Doublings(count, size) /\ ~HalfFull(count, c)
     /\ \A d \in Doublings(count, size) : d < c => HalfFull(count, d)}

Resize(t) ==
  LET newest == Len(tables) IN
  /\ tpc[t] = "resize"
  /\ resizing' = FALSE
  /\ IF HalfFull(probe[t].count, Capacity(newest))
     THEN /\ newest < MaxTables
          /\ \E size \in NewCapacities(probe[t].count, Capacity(newest)) :
               tables' = Append(tables, NewTable(size))
          /\ GoOn(t, "takeOver", [probe[t] EXCEPT !.main = newest + 1, !.i = Len(inactive)])
     ELSE GoInsertOrWait(t, [probe[t] EXCEPT !.main = newest]) /\ UNCHANGED tables
  /\ UNCHANGED <<hashCount, ownVars>>

\* No memory: nullptr is returned, and enqueue returns false.
ResizeFails(t) ==
  /\ tpc[t] = "resize" /\ HalfFull(probe[t].count, Capacity(Len(tables)))
  /\ Len(tables) = MaxTables
  /\ hashCount' = hashCount - 1 /\ resizing' = FALSE
  /\ GoOn(t, "out", NoProbe)
  /\ UNCHANGED <<tables, ownVars>>

WaitForTable(t) ==
  /\ tpc[t] = "wait"
  /\ GoOn(t, "room", [probe[t] EXCEPT !.main = Len(tables)])
  /\ UNCHANGED <<slotVars, ownVars>>

GoInsert(t, producer) ==
  GoOn(t, "subscribe", [probe[t] EXCEPT !.producer = producer, !.hash = probe[t].main, !.i = Home[t]])

\* recycle_or_create_producer: an inactive producer is taken over, ...
TakeOver(t) ==
  LET i == probe[t].i IN
  /\ tpc[t] = "takeOver" /\ i > 0
  /\ IF inactive[i]
     THEN inactive' = [inactive EXCEPT ![i] = FALSE] /\ GoInsert(t, i)
     ELSE GoOn(t, "takeOver", [probe[t] EXCEPT !.i = @ - 1]) /\ UNCHANGED inactive
  /\ UNCHANGED <<slotVars, using, exiting, calls, exits>>

\* ... or one is created and put in front of the list, ...
Create(t) ==
  /\ tpc[t] = "takeOver" /\ probe[t].i = 0
  /\ Len(inactive) < MaxProducers
  /\ inactive' = Append(inactive, FALSE)
  /\ GoInsert(t, Len(inactive) + 1)
  /\ UNCHANGED <<slotVars, using, exiting, calls, exits>>

\* ... if there is memory for it.
CreateFails(t) ==
  /\ tpc[t] = "takeOver" /\ probe[t].i = 0
  /\ Len(inactive) = MaxProducers
  /\ hashCount' = hashCount - 1
  /\ GoOn(t, "out", NoProbe)
  /\ UNCHANGED <<tables, resizing, ownVars>>

\* ThreadExitNotifier::subscribe, under the mutex that a thread that ends holds.
Subscribe(t) ==
  /\ tpc[t] = "subscribe" /\ exiting = NoCaller
  /\ using' = [using EXCEPT ![t] = IF @ = 0 THEN probe[t].producer ELSE @]
  /\ GoOn(t, "insert", probe[t])
  /\ UNCHANGED <<slotVars, inactive, exiting, calls, exits>>

\* A slot given up was counted already.
Insert(t) ==
  /\ tpc[t] = "insert"
  /\ IF KeyAt(t) \in {EmptyKey, ReusableKey}
     THEN /\ SetSlot(t, t, probe[t].producer)
          /\ GoOn(t, IF KeyAt(t) = ReusableKey THEN "uncount" ELSE "return", probe[t])
     ELSE NextSlot(t) /\ UNCHANGED tables
  /\ UNCHANGED <<hashCount, resizing, ownVars>>

Uncount(t) ==
  /\ tpc[t] = "uncount"
  /\ hashCount' = hashCount - 1
  /\ GoOn(t, "return", probe[t])
  /\ UNCHANGED <<tables, resizing, ownVars>>

\* The thread enqueues with that producer, and is done.
ReturnProducer(t) ==
  /\ tpc[t] = "return"
  /\ GoOn(t, "out", NoProbe)
  /\ UNCHANGED <<slotVars, ownVars>>

-----------------------------------------------------------------------------
\* A thread that ends calls implicit_producer_thread_exited under the mutex, ...
Exit(t) ==
  /\ tpc[t] = "out" /\ using[t] # 0 /\ exiting = NoCaller /\ exits < MaxExits
  /\ exiting' = t /\ exits' = exits + 1
  /\ GoOn(t, "leave", [NoProbe EXCEPT !.hash = Len(tables), !.i = Home[t]])
  /\ UNCHANGED <<slotVars, inactive, using, calls>>

\* Faulty variant of NextHash: the slots in older hashes are kept.
NextHashSkipped(t) == GoOn(t, "left", probe[t])

NextHash(t) == IF probe[t].hash > 1 THEN GoProbe(t, "leave", probe[t].hash - 1)
               ELSE GoOn(t, "left", probe[t])

\* ... which gives up its slot in each hash ...
Leave(t) ==
  /\ tpc[t] = "leave"
  /\ IF KeyAt(t) = t
     THEN SetSlot(t, ReusableKey, tables[probe[t].hash][SlotAt(t)].producer) /\ NextHash(t)
     ELSE /\ UNCHANGED tables
          /\ IF KeyAt(t) = EmptyKey THEN NextHash(t) ELSE NextSlot(t)
  /\ UNCHANGED <<hashCount, resizing, ownVars>>

\* ... and then its producer.
Left(t) ==
  /\ tpc[t] = "left"
  /\ inactive' = [inactive EXCEPT ![using[t]] = TRUE]
  /\ using' = [using EXCEPT ![t] = 0]
  /\ exiting' = NoCaller
  /\ GoOn(t, "out", NoProbe)
  /\ UNCHANGED <<slotVars, calls, exits>>

Lookup(t) ==
  \/ Find(t) \/ Move(t) \/ CountIn(t) \/ TestAndSet(t) \/ Resize(t) \/ ResizeFails(t)
  \/ WaitForTable(t) \/ TakeOver(t) \/ Create(t) \/ CreateFails(t) \/ Subscribe(t)
  \/ Insert(t) \/ Uncount(t) \/ ReturnProducer(t)

TableNext == \E t \in Callers : Call(t) \/ Lookup(t) \/ Exit(t) \/ Leave(t) \/ Left(t)

TableSpec == TableInit /\ [][TableNext]_tableVars

-----------------------------------------------------------------------------
\* OneThreadPerProducer: no two threads work with the same producer at a time, as
\* its enqueue is for one thread only, and none works with a producer that is
\* free to be taken over.
Working(t) == IF probe[t].producer # 0 THEN {probe[t].producer} ELSE {using[t]} \ {0}
OneThreadPerProducer ==
  \A t \in Callers :
    /\ \A u \in Callers \ {t} : Working(t) \cap Working(u) = {}
    /\ \A p \in Working(t) : ~inactive[p]

\* SameProducer: a thread gets the producer it was given first for as long as it
\* lives, whatever happens to the tables meanwhile; otherwise what it enqueues
\* later could be dequeued earlier ("if it's not found, it must not be in there
\* yet", moodycamel.h:3395).
SameProducer ==
  \A t \in Callers : tpc[t] \in {"move", "insert", "return"} => probe[t].producer = using[t]

\* SlotsLeft: every search ends, as each hash keeps an empty slot ("not an infinite
\* loop because at least one slot is free", moodycamel.h:3412).  It takes many
\* threads, all of which know an old hash only, to break it: see MCTable.
SlotsLeft == \A h \in DOMAIN tables : \E s \in DOMAIN tables[h] : tables[h][s].key = EmptyKey
=============================================================================
