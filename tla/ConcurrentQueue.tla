--------------------------- MODULE ConcurrentQueue ---------------------------
(***************************************************************************)
(* The lock-free queue as its callers see it (tools/moodycamel.h): a list  *)
(* of producers, each a queue of its own, and the ways to look for one     *)
(* that has something.  try_dequeue, which popValue repeats, scores the    *)
(* producers and takes from the best; try_dequeue_non_interleaved and      *)
(* try_dequeue_bulk walk the list; with a token a consumer stays at one    *)
(* producer, and all move on when one has taken a quota from its own.      *)
(*                                                                         *)
(* A producer is the number of its elements, and dequeue is one step: how  *)
(* it works is in Tickets and ImplicitProducer.  As Tickets shows, it may  *)
(* find less than there is while another consumer is in a call.  Producers *)
(* are numbered in the order of creation, so the list is N, ..., 2, 1.     *)
(***************************************************************************)
EXTENDS Integers, Sequences, FiniteSets

CONSTANTS Takers,         \* the threads that dequeue, each with a consumer token
          Uses,           \* functions: of each, which of the ways to dequeue it uses
          Wanted,         \* the numbers of elements they ask for
          Quota,          \* EXPLICIT_CONSUMER_CONSUMPTION_QUOTA_BEFORE_ROTATE
          OffsetValues,   \* the number of values of the 32-bit offsets
          MaxListed,      \* bound: producers
          MaxSize         \* bound: elements of a producer

ASSUME TakersFinite == IsFiniteSet(Takers)
ASSUME WantedNumbers == Wanted \subseteq Nat
ASSUME SomeOffset == OffsetValues \in Nat \ {0}
ASSUME QuotaNumber == Quota \in Nat

VARIABLES uses,           \* one of Uses
          size,           \* of each producer in the list: its elements
          producerCount,  \* raised before the producer is in the list
          globalOffset,   \* globalExplicitConsumerOffset
          token,          \* of each taker: its consumer token
          qpc, call,      \* where each taker is, and its local variables
          unchecked       \* of each taker: the producers that have had elements ever
                          \* since its call began, and that it has not found empty

queueVars == <<uses, size, producerCount, globalOffset, token, qpc, call, unchecked>>

Listed == 1..Len(size)

\* How many elements a call still wants, the producer to look at next, the best
\* so far and its size, how many had elements, and whether no other consumer was
\* in a call since this one began.
NoCall == [kind |-> "none", want |-> 0, pos |-> 0, best |-> 0, bestSize |-> 0, nonEmpty |-> 0,
           alone |-> TRUE]

\* A token knows its own position; desired is where the rotation puts it.
NewToken(id) == [initial |-> id, known |-> OffsetValues - 1, consumed |-> 0,
                 current |-> 0, desired |-> 0]

QueueInit ==
  /\ uses \in Uses
  /\ size = <<>> /\ producerCount = 0 /\ globalOffset = 0
  /\ \E id \in [Takers -> 0..Cardinality(Takers) - 1] :
       /\ \A c, d \in Takers : c # d => id[c] # id[d]
       /\ token = [c \in Takers |-> NewToken(id[c])]
  /\ qpc = [c \in Takers |-> "idle"]
  /\ call = [c \in Takers |-> NoCall]
  /\ unchecked = [c \in Takers |-> {}]

Proceed(c, place, r) ==
  /\ qpc' = [qpc EXCEPT ![c] = place]
  /\ call' = [call EXCEPT ![c] = r]

-----------------------------------------------------------------------------
\* add_producer: counted first, then linked into the list.
CountProducer ==
  /\ producerCount = Len(size) /\ producerCount < MaxListed
  /\ producerCount' = producerCount + 1
  /\ UNCHANGED <<size, globalOffset, token, qpc, call, unchecked>>

LinkProducer ==
  /\ producerCount > Len(size)
  /\ size' = Append(size, 0)
  /\ UNCHANGED <<producerCount, globalOffset, token, qpc, call, unchecked>>

\* inner_enqueue: the producer of the thread, or of the token, enqueues.
EnqueueAt(p) ==
  /\ size[p] < MaxSize
  /\ size' = [size EXCEPT ![p] = @ + 1]
  /\ UNCHANGED <<producerCount, globalOffset, token, qpc, call, unchecked>>

-----------------------------------------------------------------------------
Begin(c, place, want, pos, kind) ==
  /\ qpc[c] = "idle"
  /\ qpc' = [qpc EXCEPT ![c] = place]
  /\ call' = [d \in Takers |->
                IF d = c THEN [NoCall EXCEPT !.want = want, !.pos = pos, !.kind = kind,
                                 !.alone = \A e \in Takers \ {c} : qpc[e] = "idle"]
                ELSE [call[d] EXCEPT !.alone = qpc[d] = "idle"]]
  /\ unchecked' = [unchecked EXCEPT ![c] = {p \in Listed : size[p] > 0}]
  /\ UNCHANGED <<size, producerCount, globalOffset, token>>

\* How many elements dequeue_bulk or size_approx may find in p.
Apparent(c, p) == IF call[c].alone THEN {size[p]} ELSE 0..size[p]

Least(a, b) == IF a < b THEN a ELSE b

\* c returns, with want elements fewer than it asked for.
EndCall(c) == Proceed(c, "idle", NoCall)

\* c takes up to want of the n elements it finds in p.  A producer that is empty
\* then counts as found empty by every call under way.
Dequeue(c, p, n, want) ==
  LET left == size[p] - Least(n, want)
      Found(d) == IF left = 0 THEN unchecked[d] \ {p} ELSE unchecked[d] IN
  /\ size' = [size EXCEPT ![p] = left]
  /\ unchecked' = [d \in Takers |-> IF d # c THEN Found(d)
                                    ELSE IF n >= want THEN {} ELSE unchecked[c] \ {p}]
  /\ UNCHANGED producerCount

\* try_dequeue without a token: the best of the first three that have elements.
TryDequeue(c) == Begin(c, "score", 1, Len(size), "none")

Score(c) ==
  LET r == call[c] IN
  /\ qpc[c] = "score"
  /\ IF r.pos = 0 \/ r.nonEmpty = 3
     THEN /\ IF r.nonEmpty = 0 THEN EndCall(c) ELSE Proceed(c, "best", r)
          /\ UNCHANGED unchecked
     ELSE \E n \in Apparent(c, r.pos) :
            /\ Proceed(c, "score",
                 [r EXCEPT !.pos = @ - 1,
                           !.nonEmpty = IF n > 0 THEN @ + 1 ELSE @,
                           !.best = IF n > r.bestSize THEN r.pos ELSE @,
                           !.bestSize = IF n > @ THEN n ELSE @])
            /\ unchecked' = [unchecked EXCEPT ![c] = IF n = 0 THEN @ \ {r.pos} ELSE @]
  /\ UNCHANGED <<size, producerCount, globalOffset, token>>

\* Faulty variant of TakeBest: no other producer is tried.
TakeBestOnly(c) ==
  /\ qpc[c] = "best"
  /\ \E n \in Apparent(c, call[c].best) : Dequeue(c, call[c].best, n, 1)
  /\ EndCall(c)
  /\ UNCHANGED <<globalOffset, token>>

\* If the best turns out empty every other one is tried.
TakeBest(c) ==
  LET r == call[c] IN
  /\ qpc[c] = "best"
  /\ \E n \in Apparent(c, r.best) :
       /\ Dequeue(c, r.best, n, 1)
       /\ IF n > 0 THEN EndCall(c)
          ELSE Proceed(c, "walk", [r EXCEPT !.pos = Len(size)])
  /\ UNCHANGED <<globalOffset, token>>

\* try_dequeue_non_interleaved and try_dequeue_bulk.
TryDequeueBulk(c, max) == Begin(c, "walk", max, Len(size), "none")

Walk(c) ==
  LET r == call[c] IN
  /\ qpc[c] = "walk"
  /\ IF r.pos = 0 THEN EndCall(c) /\ UNCHANGED <<size, producerCount, unchecked>>
     ELSE IF r.pos = r.best
     THEN Proceed(c, "walk", [r EXCEPT !.pos = @ - 1]) /\ UNCHANGED <<size, producerCount, unchecked>>
     ELSE \E n \in Apparent(c, r.pos) :
            /\ Dequeue(c, r.pos, n, r.want)
            /\ IF n >= r.want THEN EndCall(c)
               ELSE Proceed(c, "walk", [r EXCEPT !.pos = @ - 1, !.want = @ - n])
  /\ UNCHANGED <<globalOffset, token>>

\* try_dequeue_from_producer: one producer only, whatever there is in others.
TryDequeueFrom(c, p, max) ==
  /\ qpc[c] = "idle"
  /\ \E n \in IF \A d \in Takers \ {c} : qpc[d] = "idle" THEN {size[p]} ELSE 0..size[p] :
       Dequeue(c, p, n, max)
  /\ UNCHANGED <<globalOffset, token, qpc, call>>

-----------------------------------------------------------------------------
\* try_dequeue and try_dequeue_bulk with a token, which may have to move on.
TryDequeueToken(c, max, kind) ==
  Begin(c, IF token[c].desired = 0 \/ token[c].known # globalOffset
           THEN "rotate" ELSE "current", max, 0, kind)

\* k producers further down a list of n, from p, and from the end to the front.
Down(p, k, n) == 1 + ((p - 1 - k) % n)

\* Faulty variant of Rotated: what was taken from the last producer counts on.
RotatedUnreset(t, there) == [t EXCEPT !.known = globalOffset, !.desired = there, !.current = there]

\* The token t when it has come to a producer by rotation.
Rotated(t, there) ==
  [t EXCEPT !.known = globalOffset, !.consumed = 0, !.desired = there, !.current = there]

(***************************************************************************)
(* update_current_producer_after_rotation: a new token takes the place its *)
(* number gives it, and each token moves on by as many producers as the    *)
(* offset has grown.  producerCount may be ahead of the list.              *)
(***************************************************************************)
UpdateCurrentProducer(c) ==
  LET n == Len(size)
      t == token[c]
      Start == IF t.desired # 0 THEN t.desired
               ELSE Down(n, producerCount - 1 - (t.initial % producerCount), n)
      Delta == ((globalOffset - t.known) % OffsetValues) % producerCount
      There == Down(Start, Delta, n) IN
  /\ qpc[c] = "rotate"
  /\ IF n = 0 THEN EndCall(c) /\ UNCHANGED token
     ELSE /\ token' = [token EXCEPT ![c] = Rotated(t, There)]
          /\ Proceed(c, "current", call[c])
  /\ UNCHANGED <<size, producerCount, globalOffset, unchecked>>

\* With the quota taken from one producer all tokens are to rotate.  try_dequeue
\* compares for equality, try_dequeue_bulk does not.
QuotaTaken(kind, consumed) == consumed = Quota \/ (kind = "bulk" /\ consumed > Quota)

\* The one producer the token is at, ...
TakeCurrent(c) ==
  LET r == call[c]
      p == token[c].current IN
  /\ qpc[c] = "current"
  /\ \E n \in Apparent(c, p) :
       LET consumed == token[c].consumed + Least(n, r.want) IN
       /\ Dequeue(c, p, n, r.want)
       /\ token' = [token EXCEPT ![c].consumed = Least(consumed, Quota + 1)]
       /\ globalOffset' = IF n >= r.want /\ QuotaTaken(r.kind, consumed)
                          THEN (globalOffset + 1) % OffsetValues ELSE globalOffset
       /\ IF n >= r.want THEN EndCall(c)
          ELSE Proceed(c, "around", [r EXCEPT !.want = @ - n, !.best = Len(size),
                                           !.pos = Down(p, 1, Len(size))])

\* ... then all others, from there round to where the token is.
Around(c) ==
  LET r == call[c] IN
  /\ qpc[c] = "around"
  /\ IF r.pos = token[c].current THEN EndCall(c) /\ UNCHANGED <<size, producerCount, token, unchecked>>
     ELSE \E n \in Apparent(c, r.pos) :
            /\ Dequeue(c, r.pos, n, r.want)
            /\ token' = IF n = 0 THEN token
                        ELSE [token EXCEPT ![c].current = r.pos, ![c].consumed = Least(n, r.want)]
            /\ IF n >= r.want THEN EndCall(c)
               ELSE Proceed(c, "around", [r EXCEPT !.want = @ - n, !.pos = Down(@, 1, r.best)])
  /\ UNCHANGED globalOffset

InCall(c) ==
  \/ Score(c) \/ TakeBest(c) \/ Walk(c)
  \/ UpdateCurrentProducer(c) \/ TakeCurrent(c) \/ Around(c)

QueueNext ==
  /\ \/ CountProducer \/ LinkProducer
     \/ \E p \in Listed : EnqueueAt(p)
     \/ \E c \in Takers :
          \/ "scored" \in uses[c] /\ TryDequeue(c)
          \/ "walk" \in uses[c] /\ \E max \in Wanted : TryDequeueBulk(c, max)
          \/ "from" \in uses[c] /\ \E p \in Listed, max \in Wanted : TryDequeueFrom(c, p, max)
          \/ "token" \in uses[c] /\ TryDequeueToken(c, 1, "single")
          \/ "bulk" \in uses[c] /\ \E max \in Wanted : TryDequeueToken(c, max, "bulk")
          \/ InCall(c)
  /\ UNCHANGED uses

CallGoesOn(c) == InCall(c) /\ UNCHANGED uses
QueueSpec == QueueInit /\ [][QueueNext]_queueVars /\ \A c \in Takers : WF_queueVars(CallGoesOn(c))

-----------------------------------------------------------------------------
\* NothingMissed: a call returns less than it was asked for only if it has found
\* each producer empty, those at which other consumers were busy included:
\* "returns false if all producer streams appeared empty at the time they were
\* checked" (moodycamel.h:1121).  What a consumer that is alone is refused was
\* not there.
NothingMissed == \A c \in Takers : qpc[c] = "idle" => unchecked[c] = {}

\* EveryProducerServed: a consumer that is from some time on the only one, and
\* dequeues with its token again and again, comes to every producer, even if the
\* others never run dry ("every 256 items from one producer, make everyone
\* rotate", moodycamel.h:1186).  It must not mix single elements with bulks: a
\* bulk can bring the count past the quota without a rotation (line 1259), and
\* then a single element does not meet it any more (line 1200).
Took(p) == p \in Listed /\ size'[p] < size[p]
EveryProducerServed ==
  \A c \in Takers, p \in 1..MaxListed :
    (/\ ~({"token", "bulk"} \subseteq uses[c])
     /\ <>[](\A d \in Takers \ {c} : qpc[d] = "idle")
     /\ []<>(qpc[c] = "current")) =>
      []<>(p \notin Listed \/ size[p] = 0) \/ []<><<Took(p)>>_queueVars
=============================================================================
