------------------------------ MODULE FreeList -------------------------------
(***************************************************************************)
(* The free list of blocks of the lock-free queue (tools/moodycamel.h,     *)
(* FreeList): a stack of nodes that any thread may push to and pop from.   *)
(* A node counts those who look at it, so that its next pointer does not   *)
(* change under them; a bit beside the count says that the node is to be   *)
(* put on the list by whoever looks away last.                             *)
(*                                                                         *)
(* Every access to a shared variable is a step.  Threads hold nodes, as    *)
(* producers and consumers hold blocks, and give them back at any time.    *)
(***************************************************************************)
EXTENDS Integers, FiniteSets

CONSTANTS Threads, Nodes, NoNode

ASSUME ThreadsFinite == IsFiniteSet(Threads)
ASSUME NoNodeIsNone == NoNode \notin Nodes

VARIABLES freeListHead,
          freeListRefs,  \* of each node: the count, and the bit SHOULD_BE_ON_FREELIST
          freeListNext,
          held,          \* of each thread: the nodes it has been given
          fpc,           \* where each thread is
          ref            \* of each thread: its local variables

freeListVars == <<freeListHead, freeListRefs, freeListNext, held, fpc, ref>>

Zero == [count |-> 0, should |-> FALSE]

\* The head, next and count of try_get, whether the thread is in try_get, and
\* the node and the head of add_knowing_refcount_is_zero.
Unused == [getting |-> FALSE, head |-> NoNode, next |-> NoNode, refs |-> Zero,
           node |-> NoNode, top |-> NoNode]

FreeListInit ==
  /\ freeListHead = NoNode
  /\ freeListRefs = [n \in Nodes |-> Zero]
  /\ freeListNext = [n \in Nodes |-> NoNode]
  /\ held \in [Threads -> SUBSET Nodes]
  /\ \A n \in Nodes : \E t \in Threads : n \in held[t]
  /\ \A t, u \in Threads : t # u => held[t] \cap held[u] = {}
  /\ fpc = [t \in Threads |-> "idle"]
  /\ ref = [t \in Threads |-> Unused]

Step(t, place, r) ==
  /\ fpc' = [fpc EXCEPT ![t] = place]
  /\ ref' = [ref EXCEPT ![t] = r]

-----------------------------------------------------------------------------
\* add: the fetch_add of the bit.  Whoever finds the count at zero goes on to
\* put the node on the list.
Add(t, n) ==
  /\ fpc[t] = "idle" /\ n \in held[t]
  /\ held' = [held EXCEPT ![t] = @ \ {n}]
  /\ freeListRefs' = [freeListRefs EXCEPT ![n].should = TRUE]
  /\ IF freeListRefs[n].count = 0
     THEN Step(t, "push", [Unused EXCEPT !.node = n])
     ELSE Step(t, "idle", Unused)
  /\ UNCHANGED <<freeListHead, freeListNext>>

\* add_knowing_refcount_is_zero: load the head, ...
PushLoad(t) ==
  /\ fpc[t] = "push"
  /\ Step(t, "pushNext", [ref[t] EXCEPT !.top = freeListHead])
  /\ UNCHANGED <<freeListHead, freeListRefs, freeListNext, held>>

\* ... point the node at it, ...
PushNext(t) ==
  /\ fpc[t] = "pushNext"
  /\ freeListNext' = [freeListNext EXCEPT ![ref[t].node] = ref[t].top]
  /\ Step(t, "pushRefs", ref[t])
  /\ UNCHANGED <<freeListHead, freeListRefs, held>>

\* ... set the count to one, for the list, and clear the bit, ...
PushRefs(t) ==
  /\ fpc[t] = "pushRefs"
  /\ freeListRefs' = [freeListRefs EXCEPT ![ref[t].node] = [count |-> 1, should |-> FALSE]]
  /\ Step(t, "pushCas", ref[t])
  /\ UNCHANGED <<freeListHead, freeListNext, held>>

\* A thread whose push is over goes on with try_get, or returns from add.
Resume(t) ==
  IF ref[t].getting /\ ref[t].head # NoNode
  THEN Step(t, "getRefs", [Unused EXCEPT !.getting = TRUE, !.head = ref[t].head])
  ELSE Step(t, "idle", Unused)

\* ... and make the node the head, if the head is still the one loaded.
PushCas(t) ==
  /\ fpc[t] = "pushCas"
  /\ IF freeListHead = ref[t].top
     THEN freeListHead' = ref[t].node /\ Resume(t)
     ELSE UNCHANGED freeListHead
          /\ Step(t, "pushFail", [ref[t] EXCEPT !.top = freeListHead])
  /\ UNCHANGED <<freeListRefs, freeListNext, held>>

\* Otherwise the list gives its reference up and leaves the pushing to the last
\* thread that looks at the node: this one, if there is no other.
PushFail(t) ==
  LET n == ref[t].node IN
  /\ fpc[t] = "pushFail"
  /\ freeListRefs' = [freeListRefs EXCEPT ![n] = [count |-> @.count - 1, should |-> TRUE]]
  /\ IF freeListRefs[n].count = 1 THEN Step(t, "pushNext", ref[t]) ELSE Resume(t)
  /\ UNCHANGED <<freeListHead, freeListNext, held>>

-----------------------------------------------------------------------------
\* The head of the loop in try_get: load the head, and return if there is none.
LoadHead(t) ==
  IF freeListHead = NoNode THEN Step(t, "idle", Unused)
  ELSE Step(t, "getRefs", [Unused EXCEPT !.getting = TRUE, !.head = freeListHead])

TryGet(t) ==
  /\ fpc[t] = "idle" /\ freeListHead # NoNode
  /\ LoadHead(t)
  /\ UNCHANGED <<freeListHead, freeListRefs, freeListNext, held>>

\* Load the count of the head; with a zero count, start again.
GetRefs(t) ==
  LET r == freeListRefs[ref[t].head] IN
  /\ fpc[t] = "getRefs"
  /\ IF r.count = 0 THEN LoadHead(t) ELSE Step(t, "getCas", [ref[t] EXCEPT !.refs = r])
  /\ UNCHANGED <<freeListHead, freeListRefs, freeListNext, held>>

\* Raise the count, if it is still the one loaded.
GetCas(t) ==
  LET n == ref[t].head IN
  /\ fpc[t] = "getCas"
  /\ IF freeListRefs[n] = ref[t].refs
     THEN /\ freeListRefs' = [freeListRefs EXCEPT ![n].count = @ + 1]
          /\ Step(t, "getNext", [ref[t] EXCEPT !.refs = Zero])
     ELSE LoadHead(t) /\ UNCHANGED freeListRefs
  /\ UNCHANGED <<freeListHead, freeListNext, held>>

GetNext(t) ==
  /\ fpc[t] = "getNext"
  /\ Step(t, "getPop", [ref[t] EXCEPT !.next = freeListNext[ref[t].head]])
  /\ UNCHANGED <<freeListHead, freeListRefs, freeListNext, held>>

\* Take the head off, if it is still the head.
GetPop(t) ==
  /\ fpc[t] = "getPop"
  /\ IF freeListHead = ref[t].head
     THEN freeListHead' = ref[t].next /\ Step(t, "getTaken", ref[t])
     ELSE /\ UNCHANGED freeListHead
          /\ Step(t, "getLost", [ref[t] EXCEPT !.head = freeListHead, !.node = ref[t].head])
  /\ UNCHANGED <<freeListRefs, freeListNext, held>>

\* The reference of the thread and that of the list are given up.
GetTaken(t) ==
  LET n == ref[t].head IN
  /\ fpc[t] = "getTaken"
  /\ freeListRefs' = [freeListRefs EXCEPT ![n].count = @ - 2]
  /\ held' = [held EXCEPT ![t] = @ \cup {n}]
  /\ Step(t, "idle", Unused)
  /\ UNCHANGED <<freeListHead, freeListNext>>

\* Faulty variant of GetLost: nobody pushes the node.
GetLostForever(t) ==
  /\ fpc[t] = "getLost"
  /\ freeListRefs' = [freeListRefs EXCEPT ![ref[t].node].count = @ - 1]
  /\ Resume(t)
  /\ UNCHANGED <<freeListHead, freeListNext, held>>

\* Another thread was faster: the reference is given up, and the node pushed if
\* that was left to the last one to look at it.
GetLost(t) ==
  LET n == ref[t].node IN
  /\ fpc[t] = "getLost"
  /\ freeListRefs' = [freeListRefs EXCEPT ![n].count = @ - 1]
  /\ IF freeListRefs[n] = [count |-> 1, should |-> TRUE]
     THEN Step(t, "push", ref[t]) ELSE Resume(t)
  /\ UNCHANGED <<freeListHead, freeListNext, held>>

Push(t) == PushLoad(t) \/ PushNext(t) \/ PushRefs(t) \/ PushCas(t) \/ PushFail(t)
Get(t) == GetRefs(t) \/ GetCas(t) \/ GetNext(t) \/ GetPop(t) \/ GetTaken(t) \/ GetLost(t)

FreeListNext ==
  \E t \in Threads : \/ \E n \in Nodes : Add(t, n)
                     \/ TryGet(t) \/ Push(t) \/ Get(t)

FreeListSpec == FreeListInit /\ [][FreeListNext]_freeListVars

-----------------------------------------------------------------------------
\* Where a thread pushes a node, and where it holds a reference to one it may
\* take.
Pushes == {"push", "pushNext", "pushRefs", "pushCas", "pushFail"}
Places == Pushes \cup {"idle", "getRefs", "getCas", "getNext", "getPop", "getLost", "getTaken"}

Counts == [count : Nat, should : BOOLEAN]
MaybeNode == Nodes \cup {NoNode}

\* Every variable keeps its type, and a thread that works on a node knows it.
FreeListTypeOK ==
  /\ freeListHead \in MaybeNode
  /\ freeListRefs \in [Nodes -> Counts]
  /\ freeListNext \in [Nodes -> MaybeNode]
  /\ held \in [Threads -> SUBSET Nodes]
  /\ fpc \in [Threads -> Places]
  /\ ref \in [Threads -> [getting : BOOLEAN, head : MaybeNode, next : MaybeNode,
                          refs : Counts, node : MaybeNode, top : MaybeNode]]
  /\ \A t \in Threads :
       /\ fpc[t] \in Pushes \cup {"getLost"} => ref[t].node \in Nodes
       /\ fpc[t] \in {"getRefs", "getCas", "getNext", "getPop", "getTaken"} => ref[t].head \in Nodes

\* The nodes on the list: the least set that has the head and with each node the
\* next one.
Linked(S) ==
  /\ freeListHead \in S \cup {NoNode}
  /\ \A n \in S : freeListNext[n] \in S \cup {NoNode}
OnList(n) == \A S \in SUBSET Nodes : Linked(S) => n \in S

Pushing(t, n) == ref[t].node = n /\ fpc[t] \in Pushes
Popped(t, n) == ref[t].head = n /\ fpc[t] = "getTaken"
Looking(t, n) == \/ ref[t].head = n /\ fpc[t] \in {"getNext", "getPop"}
                 \/ ref[t].node = n /\ fpc[t] = "getLost"
LeftToLast(n) == /\ freeListRefs[n].should
                 /\ \E t \in Threads : Looking(t, n)
                 /\ ~\E t \in Threads : Pushing(t, n)

\* NodeInOnePlace: a node is held by one thread, or on the list, or being pushed
\* or popped by one thread, or will be pushed by the last one that looks at it:
\* none is lost, and none is handed to two threads, even if it was popped and
\* pushed again between the load of the head and the exchange (the ABA problem).
Whereabouts(n) ==
  {<<"held", t>> : t \in {u \in Threads : n \in held[u]}}
  \cup {<<"pushing", t>> : t \in {u \in Threads : Pushing(u, n)}}
  \cup {<<"popped", t>> : t \in {u \in Threads : Popped(u, n)}}
  \cup (IF OnList(n) THEN {<<"listed">>} ELSE {})
  \cup (IF LeftToLast(n) THEN {<<"left">>} ELSE {})
NodeInOnePlace == \A n \in Nodes : Cardinality(Whereabouts(n)) = 1
=============================================================================
