-------------------------- MODULE QueuePartsProofs ---------------------------
(***************************************************************************)
(* Proofs about the parts that all producers of a queue share: the free    *)
(* list of blocks (FreeList.tla), the table of threads (ProducerTable.tla) *)
(* and the list of producers that calls search (ConcurrentQueue.tla).      *)
(***************************************************************************)
EXTENDS FreeList, ProducerTable, ConcurrentQueue, FiniteSetTheorems, TLAPS

-----------------------------------------------------------------------------
(***************************************************************************)
(* Proofs about FreeList.tla, for any number of threads and nodes: no node *)
(* is lost and none is handed to two threads.                              *)
(*                                                                         *)
(* The argument is that of the comments in tools/moodycamel.h: the count   *)
(* of a node is the number of threads that refer to it, and one more for   *)
(* the list.  A node whose count is zero is seen by nobody who could still *)
(* read its next pointer or take it, so its owner may write both without a *)
(* lock; and who lowers the count to zero with the bit set is the only one *)
(* left to push the node.                                                  *)
(***************************************************************************)
\* A push is early until it has set the count, and late from then on.
Early(t, n) == fpc[t] \in {"push", "pushNext", "pushRefs"} /\ ref[t].node = n
Late(t, n) == fpc[t] \in {"pushCas", "pushFail"} /\ ref[t].node = n

\* t alone may decide what becomes of n.
Has(t, n) == n \in held[t] \/ Early(t, n) \/ Late(t, n) \/ Popped(t, n)

\* Who is counted in the count of n, and whether the list is.
Refers(t, n) == Looking(t, n) \/ Popped(t, n)
Referrers(n) == {t \in Threads : Refers(t, n)}
ByList(n) == OnList(n) \/ \E t \in Threads : Late(t, n) \/ Popped(t, n)

\* A node belongs to one thread or to the list, or its bit is set.
OwnerAt(n) ==
  /\ \A t, u \in Threads : Has(t, n) /\ Has(u, n) => t = u
  /\ \A t \in Threads : n \in held[t] => ~Early(t, n) /\ ~Late(t, n) /\ ~Popped(t, n)
  /\ \A t \in Threads : Has(t, n) => ~OnList(n)
  /\ \/ \E t \in Threads : Has(t, n)
     \/ OnList(n)
     \/ freeListRefs[n].should

\* The bit is set while a push is early, and otherwise only when a thread that
\* looks is to push the node, which then belongs to nobody.
BitAt(n) ==
  /\ \A t \in Threads : Early(t, n) => freeListRefs[n].should
  /\ freeListRefs[n].should =>
       \/ \E t \in Threads : Early(t, n)
       \/ /\ \E t \in Threads : Looking(t, n)
          /\ ~OnList(n) /\ \A t \in Threads : ~Has(t, n)

\* The count is the number of references, and nobody refers to a node whose push
\* is early.
CountAt(n) ==
  /\ freeListRefs[n].count = Cardinality(Referrers(n)) + (IF ByList(n) THEN 1 ELSE 0)
  /\ \A t \in Threads : Early(t, n) => freeListRefs[n].count = 0

NodeAt(n) == OwnerAt(n) /\ BitAt(n) /\ CountAt(n)
Nodewise == \A n \in Nodes : NodeAt(n)

\* What a thread has read of the list and relies on.
RememberedBy(t) ==
  /\ fpc[t] = "getCas" => ref[t].refs.count # 0
  /\ fpc[t] = "getPop" => ref[t].next = freeListNext[ref[t].head]
  /\ fpc[t] \in {"pushRefs", "pushCas"} => freeListNext[ref[t].node] = ref[t].top
Remembered == \A t \in Threads : RememberedBy(t)

\* No node on the list points at the head, and no two at the same node.
Chained ==
  \A m, n \in Nodes :
    OnList(m) /\ OnList(n) =>
      /\ freeListNext[m] # freeListHead \/ freeListHead = NoNode
      /\ m # n => freeListNext[m] # freeListNext[n] \/ freeListNext[m] = NoNode

IInv == FreeListTypeOK /\ Nodewise /\ Remembered /\ Chained

-----------------------------------------------------------------------------
\* The list.

\* The nodes on the list are themselves a set that is closed.
LEMMA ListLinked ==
  ASSUME FreeListTypeOK
  PROVE  Linked({n \in Nodes : OnList(n)})
<1> DEFINE L == {n \in Nodes : OnList(n)}
<1>1. freeListHead \in L \cup {NoNode}
  BY DEF OnList, Linked, FreeListTypeOK, MaybeNode
<1>2. ASSUME NEW n \in L PROVE freeListNext[n] \in L \cup {NoNode}
  <2>1. freeListNext[n] \in MaybeNode
    BY DEF FreeListTypeOK
  <2>2. ASSUME NEW S \in SUBSET Nodes, Linked(S) PROVE freeListNext[n] \in S \cup {NoNode}
    BY <2>2 DEF OnList, Linked
  <2> QED
    BY <2>1, <2>2 DEF OnList, MaybeNode
<1> QED
  BY <1>1, <1>2 DEF Linked

\* Pointers of nodes that are not on the list do not matter.
LEMMA ListKept ==
  ASSUME FreeListTypeOK, FreeListTypeOK', freeListHead' = freeListHead,
         \A n \in Nodes : OnList(n) => freeListNext'[n] = freeListNext[n]
  PROVE  \A n \in Nodes : OnList(n)' <=> OnList(n)
<1>0. PICK L \in SUBSET Nodes : L = {n \in Nodes : OnList(n)}
  OBVIOUS
<1>1. Linked(L)
  BY <1>0, ListLinked
<1>2. Linked(L)'
  BY <1>0, <1>1 DEF Linked
<1>3. ASSUME NEW n \in Nodes, OnList(n)' PROVE OnList(n)
  BY <1>0, <1>2, <1>3 DEF OnList
<1>4. ASSUME NEW n \in Nodes, OnList(n), NEW S \in SUBSET Nodes, Linked(S)'
      PROVE  n \in S
  <2>1. Linked(S \cap L)
    BY <1>0, <1>1, <1>4 DEF Linked
  <2> QED
    BY <1>0, <1>4, <2>1 DEF OnList
<1> QED
  BY <1>3, <1>4 DEF OnList

\* A node put in front of the list joins it.
LEMMA ListPushed ==
  ASSUME FreeListTypeOK, FreeListTypeOK', NEW n \in Nodes, ~OnList(n),
         freeListHead' = n, freeListNext' = freeListNext, freeListNext[n] = freeListHead
  PROVE  \A m \in Nodes : OnList(m)' <=> OnList(m) \/ m = n
<1>0. PICK L \in SUBSET Nodes : L = {m \in Nodes : OnList(m)}
  OBVIOUS
<1>1. Linked(L)
  BY <1>0, ListLinked
<1>2. Linked(L \cup {n})'
  BY <1>0, <1>1 DEF Linked
<1>3. ASSUME NEW m \in Nodes, OnList(m)' PROVE OnList(m) \/ m = n
  BY <1>0, <1>2, <1>3 DEF OnList
<1>4. ASSUME NEW m \in Nodes, OnList(m) \/ m = n, NEW S \in SUBSET Nodes, Linked(S)'
      PROVE  m \in S
  <2>1. n \in S
    BY <1>4, NoNodeIsNone DEF Linked
  <2>2. Linked(S)
    BY <1>4, <2>1 DEF Linked
  <2> QED
    BY <1>4, <2>1, <2>2 DEF OnList
<1> QED
  BY <1>3, <1>4 DEF OnList

\* The head taken off leaves the list, and nothing else does.
LEMMA ListPopped ==
  ASSUME FreeListTypeOK, FreeListTypeOK', Chained, freeListHead \in Nodes,
         freeListHead' = freeListNext[freeListHead], freeListNext' = freeListNext
  PROVE  \A m \in Nodes : OnList(m)' <=> OnList(m) /\ m # freeListHead
<1>0. PICK L \in SUBSET Nodes : L = {m \in Nodes : OnList(m)}
  OBVIOUS
<1>7. PICK h \in Nodes : h = freeListHead
  OBVIOUS
<1>1. Linked(L)
  BY <1>0, ListLinked
<1>2. h \in L
  BY <1>1, <1>7, NoNodeIsNone DEF Linked
<1>3. \A m \in L : freeListNext[m] # h
  BY <1>0, <1>2, <1>7, NoNodeIsNone DEF Chained
<1>4. Linked(L \ {h})'
  BY <1>1, <1>2, <1>3, <1>7 DEF Linked
<1>5. ASSUME NEW m \in Nodes, OnList(m)' PROVE OnList(m) /\ m # h
  BY <1>0, <1>4, <1>5, <1>7 DEF OnList
<1>6. ASSUME NEW m \in Nodes, OnList(m), m # h, NEW S \in SUBSET Nodes, Linked(S)'
      PROVE  m \in S
  <2>1. Linked(S \cup {h})
    BY <1>6, <1>7 DEF Linked
  <2> QED
    BY <1>6, <1>7, <2>1 DEF OnList
<1> QED
  BY <1>5, <1>6, <1>7 DEF OnList

-----------------------------------------------------------------------------
\* Types.

Locals == [getting : BOOLEAN, head : MaybeNode, next : MaybeNode,
           refs : Counts, node : MaybeNode, top : MaybeNode]

\* The local variables r fit the place.
Fits(place, r) ==
  /\ place \in Places /\ r \in Locals
  /\ place \in Pushes \cup {"getLost"} => r.node \in Nodes
  /\ place \in {"getRefs", "getCas", "getNext", "getPop", "getTaken"} => r.head \in Nodes

LEMMA UnusedFits == Fits("idle", Unused) /\ Zero \in Counts
BY DEF Fits, Places, Pushes, Locals, Unused, Zero, Counts, MaybeNode

\* Where a step of t leaves all threads.
LEMMA StepEffect ==
  ASSUME FreeListTypeOK, NEW t \in Threads, NEW place, NEW r, Step(t, place, r)
  PROVE  /\ fpc'[t] = place /\ ref'[t] = r
         /\ \A u \in Threads : u # t => fpc'[u] = fpc[u] /\ ref'[u] = ref[u]
BY DEF FreeListTypeOK, Step

LEMMA TypeStep ==
  ASSUME FreeListTypeOK, NEW t \in Threads, NEW place, NEW r, Step(t, place, r), Fits(place, r),
         freeListHead' \in MaybeNode, freeListRefs' \in [Nodes -> Counts],
         freeListNext' \in [Nodes -> MaybeNode], held' \in [Threads -> SUBSET Nodes]
  PROVE  FreeListTypeOK'
<1>1. fpc' \in [Threads -> Places]
  BY DEF Step, FreeListTypeOK, Fits
<1>2. ref' \in [Threads -> Locals]
  BY DEF Step, FreeListTypeOK, Fits, Locals
<1>3. ASSUME NEW u \in Threads
      PROVE  /\ fpc'[u] \in Pushes \cup {"getLost"} => ref'[u].node \in Nodes
             /\ fpc'[u] \in {"getRefs", "getCas", "getNext", "getPop", "getTaken"} => ref'[u].head \in Nodes
  BY StepEffect DEF FreeListTypeOK, Fits
<1> QED
  BY <1>1, <1>2, <1>3 DEF FreeListTypeOK, Locals

\* What is known of a thread.
LEMMA Known ==
  ASSUME FreeListTypeOK, NEW t \in Threads
  PROVE  /\ ref[t] \in Locals /\ fpc[t] \in Places /\ Fits(fpc[t], ref[t])
         /\ freeListHead \in MaybeNode
BY DEF FreeListTypeOK, Locals, Fits

\* Resuming and starting again lead to a place and local variables that fit.
LEMMA ResumeFits ==
  ASSUME FreeListTypeOK, NEW t \in Threads, Resume(t)
  PROVE  \E place \in {"idle", "getRefs"}, r \in Locals : Step(t, place, r) /\ Fits(place, r)
<1>1. ref[t] \in Locals
  BY Known
<1>2. CASE ref[t].getting /\ ref[t].head # NoNode
  <2> DEFINE r == [Unused EXCEPT !.getting = TRUE, !.head = ref[t].head]
  <2>1. r \in Locals /\ r.head \in Nodes
    BY <1>1, <1>2, UnusedFits DEF Fits, Locals, Unused, MaybeNode
  <2> QED
    BY <1>2, <2>1 DEF Resume, Fits, Places, Pushes
<1>3. CASE ~(ref[t].getting /\ ref[t].head # NoNode)
  BY <1>3, UnusedFits DEF Resume, Fits
<1> QED
  BY <1>2, <1>3

LEMMA LoadHeadFits ==
  ASSUME FreeListTypeOK, NEW t \in Threads, LoadHead(t)
  PROVE  \E place \in {"idle", "getRefs"}, r \in Locals : Step(t, place, r) /\ Fits(place, r)
<1>1. CASE freeListHead # NoNode
  <2> DEFINE r == [Unused EXCEPT !.getting = TRUE, !.head = freeListHead]
  <2>1. r \in Locals /\ r.head \in Nodes
    BY <1>1, Known, UnusedFits DEF Fits, Locals, Unused, MaybeNode
  <2> QED
    BY <1>1, <2>1 DEF LoadHead, Fits, Places, Pushes
<1>2. CASE freeListHead = NoNode
  BY <1>2, UnusedFits DEF LoadHead, Fits
<1> QED
  BY <1>1, <1>2

-----------------------------------------------------------------------------
\* What a step leaves alone.

\* A thread is to n what it was.
SameTo(t, n) ==
  /\ n \in held'[t] <=> n \in held[t]
  /\ Early(t, n)' <=> Early(t, n)
  /\ Late(t, n)' <=> Late(t, n)
  /\ Popped(t, n)' <=> Popped(t, n)
  /\ Looking(t, n)' <=> Looking(t, n)

LEMMA OthersSame ==
  ASSUME NEW t \in Threads, NEW u \in Threads, fpc'[u] = fpc[u], ref'[u] = ref[u],
         held'[u] = held[u], NEW n \in Nodes
  PROVE  SameTo(u, n)
BY DEF SameTo, Early, Late, Popped, Looking

\* A node that a step does not concern keeps its part of the invariant.
LEMMA Unmoved ==
  ASSUME NEW n \in Nodes, NodeAt(n), \A t \in Threads : SameTo(t, n),
         freeListRefs'[n] = freeListRefs[n], OnList(n)' <=> OnList(n)
  PROVE  NodeAt(n)'
<1>1. \A t \in Threads : /\ Has(t, n)' <=> Has(t, n)
                         /\ Refers(t, n)' <=> Refers(t, n)
  BY DEF SameTo, Has, Refers
<1>2. Referrers(n)' = Referrers(n)
  BY <1>1 DEF Referrers
<1>3. ByList(n)' <=> ByList(n)
  BY DEF ByList, SameTo
<1>4. OwnerAt(n)'
  BY <1>1 DEF NodeAt, OwnerAt, SameTo
<1>5. BitAt(n)'
  BY <1>1 DEF NodeAt, BitAt, SameTo
<1>6. CountAt(n)'
  BY <1>2, <1>3 DEF NodeAt, CountAt, SameTo
<1> QED
  BY <1>4, <1>5, <1>6 DEF NodeAt

\* The list stays chained if neither the head nor a pointer on the list changes.
LEMMA ChainKept ==
  ASSUME IInv, FreeListTypeOK', freeListHead' = freeListHead,
         \A n \in Nodes : OnList(n) => freeListNext'[n] = freeListNext[n]
  PROVE  Chained' /\ \A n \in Nodes : OnList(n)' <=> OnList(n)
<1>1. \A n \in Nodes : OnList(n)' <=> OnList(n)
  BY ListKept DEF IInv
<1> QED
  BY <1>1 DEF IInv, Chained

-----------------------------------------------------------------------------
\* Counting references.
LEMMA ReferrersFinite ==
  ASSUME NEW n \in Nodes
  PROVE  IsFiniteSet(Referrers(n)) /\ Cardinality(Referrers(n)) \in Nat
<1>1. Referrers(n) \subseteq Threads
  BY DEF Referrers
<1> QED
  BY <1>1, ThreadsFinite, FS_Subset, FS_CardinalityType

LEMMA OneMore ==
  ASSUME NEW n \in Nodes, NEW t \in Threads, ~Refers(t, n), Refers(t, n)',
         \A u \in Threads : u # t => SameTo(u, n)
  PROVE  Cardinality(Referrers(n))' = Cardinality(Referrers(n)) + 1
<1>1. Referrers(n)' = Referrers(n) \cup {t} /\ t \notin Referrers(n)
  BY DEF Referrers, Refers, SameTo
<1> QED
  BY <1>1, ReferrersFinite, FS_AddElement

LEMMA OneLess ==
  ASSUME NEW n \in Nodes, NEW t \in Threads, Refers(t, n), ~Refers(t, n)',
         \A u \in Threads : u # t => SameTo(u, n)
  PROVE  Cardinality(Referrers(n))' = Cardinality(Referrers(n)) - 1
<1>1. Referrers(n)' = Referrers(n) \ {t} /\ t \in Referrers(n)
  BY DEF Referrers, Refers, SameTo
<1> QED
  BY <1>1, ReferrersFinite, FS_RemoveElement

LEMMA AsMany ==
  ASSUME NEW n \in Nodes, NEW t \in Threads, Refers(t, n)' <=> Refers(t, n),
         \A u \in Threads : u # t => SameTo(u, n)
  PROVE  Cardinality(Referrers(n))' = Cardinality(Referrers(n))
<1>1. Referrers(n)' = Referrers(n)
  BY DEF Referrers, Refers, SameTo
<1> QED
  BY <1>1

\* Nobody refers to a node that nobody is counted for.
LEMMA NobodyRefers ==
  ASSUME NEW n \in Nodes
  PROVE  Cardinality(Referrers(n)) = 0 <=> \A t \in Threads : ~Refers(t, n)
BY ReferrersFinite, FS_EmptySet DEF Referrers

\* The same, of the state after a step.
LEMMA ReferrersLeft ==
  ASSUME NEW n \in Nodes, Cardinality(Referrers(n))' # 0
  PROVE  \E t \in Threads : Refers(t, n)'
<1>1. SUFFICES ASSUME \A t \in Threads : ~Refers(t, n)' PROVE FALSE
  OBVIOUS
<1>2. Referrers(n)' = {}
  BY <1>1 DEF Referrers
<1> QED
  BY <1>2, FS_EmptySet

-----------------------------------------------------------------------------
\* A step of t that concerns the node n alone.
LEMMA NodeStep ==
  ASSUME IInv, FreeListTypeOK', NEW t \in Threads, NEW place, NEW r, Step(t, place, r),
         NEW n \in Nodes,
         \A u \in Threads : u # t => held'[u] = held[u],
         \A m \in Nodes : m # n => /\ freeListRefs'[m] = freeListRefs[m]
                                   /\ OnList(m)' <=> OnList(m)
                                   /\ SameTo(t, m),
         NodeAt(n)'
  PROVE  Nodewise'
<1>1. \A u \in Threads : u # t => fpc'[u] = fpc[u] /\ ref'[u] = ref[u]
  BY StepEffect DEF IInv
<1>2. ASSUME NEW m \in Nodes, m # n PROVE NodeAt(m)'
  <2>1. \A u \in Threads : SameTo(u, m)
    BY <1>1, <1>2, OthersSame
  <2> QED
    BY <1>2, <2>1, Unmoved DEF IInv, Nodewise
<1> QED
  BY <1>2 DEF Nodewise

\* A step of t that concerns no node at all.
LEMMA QuietStep ==
  ASSUME IInv, FreeListTypeOK', NEW t \in Threads, NEW place, NEW r, Step(t, place, r),
         held' = held, freeListRefs' = freeListRefs, freeListHead' = freeListHead,
         \A n \in Nodes : OnList(n) => freeListNext'[n] = freeListNext[n],
         \A n \in Nodes : SameTo(t, n)
  PROVE  Nodewise' /\ Chained'
<1>1. \A u \in Threads : u # t => fpc'[u] = fpc[u] /\ ref'[u] = ref[u]
  BY StepEffect DEF IInv
<1>2. Chained' /\ \A n \in Nodes : OnList(n)' <=> OnList(n)
  BY ChainKept
<1>3. ASSUME NEW n \in Nodes PROVE NodeAt(n)'
  <2>1. \A u \in Threads : SameTo(u, n)
    BY <1>1, OthersSame
  <2> QED
    BY <1>2, <2>1, Unmoved DEF IInv, Nodewise
<1> QED
  BY <1>2, <1>3 DEF Nodewise

\* The others remember what they read while no pointer changes.
LEMMA OthersRemember ==
  ASSUME IInv, NEW t \in Threads, NEW place, NEW r, Step(t, place, r),
         freeListNext' = freeListNext, RememberedBy(t)'
  PROVE  Remembered'
<1>1. \A u \in Threads : u # t => fpc'[u] = fpc[u] /\ ref'[u] = ref[u]
  BY StepEffect DEF IInv
<1> QED
  BY <1>1 DEF IInv, Remembered, RememberedBy

\* Places at which a thread concerns no node.
LEMMA Nowhere ==
  ASSUME NEW t \in Threads, fpc[t] \in {"idle", "getRefs", "getCas"}, NEW n \in Nodes
  PROVE  ~Early(t, n) /\ ~Late(t, n) /\ ~Popped(t, n) /\ ~Looking(t, n)
BY DEF Early, Late, Popped, Looking

\* A step between two such places.
LEMMA SeekingStep ==
  ASSUME IInv, NEW t \in Threads, NEW place \in {"idle", "getRefs", "getCas"}, NEW r,
         fpc[t] \in {"idle", "getRefs", "getCas"}, Step(t, place, r), Fits(place, r),
         place = "getCas" => r.refs.count # 0,
         UNCHANGED <<freeListHead, freeListRefs, freeListNext, held>>
  PROVE  IInv'
<1>1. FreeListTypeOK'
  BY TypeStep DEF IInv, FreeListTypeOK
<1>2. fpc'[t] = place /\ ref'[t] = r
  BY StepEffect DEF IInv
<1>3. \A n \in Nodes : SameTo(t, n)
  BY <1>2, Nowhere DEF SameTo, Early, Late, Popped, Looking
<1>4. Nodewise' /\ Chained'
  BY <1>1, <1>3, QuietStep
<1>5. RememberedBy(t)'
  BY <1>2 DEF RememberedBy
<1> QED
  BY <1>1, <1>4, <1>5, OthersRemember DEF IInv

LEMMA LoadHeadStep ==
  ASSUME IInv, NEW t \in Threads, fpc[t] \in {"idle", "getRefs", "getCas"}, LoadHead(t),
         UNCHANGED <<freeListHead, freeListRefs, freeListNext, held>>
  PROVE  IInv'
<1>1. PICK place \in {"idle", "getRefs"}, r \in Locals : Step(t, place, r) /\ Fits(place, r)
  BY LoadHeadFits DEF IInv
<1> QED
  BY <1>1, SeekingStep

LEMMA TryGetStep ==
  ASSUME IInv, NEW t \in Threads, TryGet(t)
  PROVE  IInv'
BY LoadHeadStep DEF TryGet

LEMMA GetRefsStep ==
  ASSUME IInv, NEW t \in Threads, GetRefs(t)
  PROVE  IInv'
<1>1. CASE freeListRefs[ref[t].head].count = 0
  BY <1>1, LoadHeadStep DEF GetRefs
<1>2. CASE freeListRefs[ref[t].head].count # 0
  <2> DEFINE r == [ref[t] EXCEPT !.refs = freeListRefs[ref[t].head]]
  <2>1. Step(t, "getCas", r)
    BY <1>2 DEF GetRefs
  <2>2. ref[t] \in Locals /\ ref[t].head \in Nodes
    BY Known DEF IInv, GetRefs, Fits
  <2>3. Fits("getCas", r) /\ r.refs.count # 0
    BY <1>2, <2>2 DEF IInv, FreeListTypeOK, Fits, Locals, Places, Pushes
  <2> HIDE DEF r
  <2> QED
    BY <2>1, <2>3, SeekingStep DEF GetRefs
<1> QED
  BY <1>1, <1>2

\* The next pointer is read of a node that t refers to.
LEMMA GetNextStep ==
  ASSUME IInv, NEW t \in Threads, GetNext(t)
  PROVE  IInv'
<1> DEFINE r == [ref[t] EXCEPT !.next = freeListNext[ref[t].head]]
<1>1. ref[t] \in Locals /\ ref[t].head \in Nodes
  BY Known DEF IInv, GetNext, Fits
<1>2. Step(t, "getPop", r) /\ fpc[t] = "getNext"
  BY DEF GetNext
<1>3. Fits("getPop", r) /\ r.head = ref[t].head /\ r.node = ref[t].node
      /\ r.next = freeListNext[ref[t].head]
  BY <1>1 DEF IInv, FreeListTypeOK, Fits, Locals, Places, Pushes
<1> HIDE DEF r
<1>4. fpc'[t] = "getPop" /\ ref'[t] = r
  BY <1>2, StepEffect DEF IInv
<1>5. FreeListTypeOK'
  BY <1>2, <1>3, TypeStep DEF IInv, FreeListTypeOK, GetNext
<1>6. \A n \in Nodes : SameTo(t, n)
  BY <1>2, <1>3, <1>4 DEF GetNext, SameTo, Early, Late, Popped, Looking
<1>7. Nodewise' /\ Chained'
  BY <1>2, <1>5, <1>6, QuietStep DEF GetNext
<1>8. RememberedBy(t)'
  BY <1>3, <1>4 DEF RememberedBy, GetNext
<1> QED
  BY <1>2, <1>5, <1>7, <1>8, OthersRemember DEF IInv, GetNext

LEMMA PushLoadStep ==
  ASSUME IInv, NEW t \in Threads, PushLoad(t)
  PROVE  IInv'
<1> DEFINE r == [ref[t] EXCEPT !.top = freeListHead]
<1>1. ref[t] \in Locals /\ ref[t].node \in Nodes /\ freeListHead \in MaybeNode
  BY Known DEF IInv, PushLoad, Fits, Pushes
<1>2. Step(t, "pushNext", r) /\ fpc[t] = "push"
  BY DEF PushLoad
<1>3. Fits("pushNext", r) /\ r.head = ref[t].head /\ r.node = ref[t].node
  BY <1>1 DEF Fits, Locals, Places, Pushes
<1> HIDE DEF r
<1>4. fpc'[t] = "pushNext" /\ ref'[t] = r
  BY <1>2, StepEffect DEF IInv
<1>5. FreeListTypeOK'
  BY <1>2, <1>3, TypeStep DEF IInv, FreeListTypeOK, PushLoad
<1>6. \A n \in Nodes : SameTo(t, n)
  BY <1>2, <1>3, <1>4 DEF PushLoad, SameTo, Early, Late, Popped, Looking
<1>7. Nodewise' /\ Chained'
  BY <1>2, <1>5, <1>6, QuietStep DEF PushLoad
<1>8. RememberedBy(t)'
  BY <1>4 DEF RememberedBy
<1> QED
  BY <1>2, <1>5, <1>7, <1>8, OthersRemember DEF IInv, PushLoad

-----------------------------------------------------------------------------
\* What the invariant says of a node that t alone has.
LEMMA HadByOne ==
  ASSUME NEW n \in Nodes, NodeAt(n), NEW t \in Threads, Has(t, n)
  PROVE  /\ ~OnList(n)
         /\ \A u \in Threads : u # t => ~Has(u, n)
         /\ freeListRefs[n].should <=> Early(t, n)
         /\ Early(t, n) => /\ freeListRefs[n].count = 0
                           /\ \A u \in Threads : ~Refers(u, n)
<1>1. ~OnList(n) /\ \A u \in Threads : u # t => ~Has(u, n)
  BY DEF NodeAt, OwnerAt
<1>2. freeListRefs[n].should <=> Early(t, n)
  BY <1>1 DEF NodeAt, BitAt, Has
<1>3. ASSUME Early(t, n)
      PROVE  freeListRefs[n].count = 0 /\ \A u \in Threads : ~Refers(u, n)
  <2>1. freeListRefs[n].count = 0
    BY <1>3 DEF NodeAt, CountAt
  <2>2. Cardinality(Referrers(n)) = 0
    BY <2>1, ReferrersFinite DEF NodeAt, CountAt
  <2> QED
    BY <2>1, <2>2, NobodyRefers
<1> QED
  BY <1>1, <1>2, <1>3

\* The count of a node t has, and of one nobody has.
LEMMA CountOfOwned ==
  ASSUME NEW n \in Nodes, NodeAt(n), NEW t \in Threads, Has(t, n)
  PROVE  freeListRefs[n].count = Cardinality(Referrers(n))
                                   + (IF Late(t, n) \/ Popped(t, n) THEN 1 ELSE 0)
<1>1. ByList(n) <=> Late(t, n) \/ Popped(t, n)
  BY HadByOne DEF ByList, Has
<1> QED
  BY <1>1 DEF NodeAt, CountAt

LEMMA PushNextStep ==
  ASSUME IInv, NEW t \in Threads, PushNext(t)
  PROVE  IInv'
<1>1. PICK n \in Nodes : n = ref[t].node
  BY Known DEF IInv, PushNext, Fits, Pushes
<1>2. /\ fpc[t] = "pushNext" /\ Step(t, "pushRefs", ref[t])
      /\ freeListNext' = [freeListNext EXCEPT ![n] = ref[t].top]
      /\ UNCHANGED <<freeListHead, freeListRefs, held>>
  BY <1>1 DEF PushNext
<1>3. Fits("pushRefs", ref[t]) /\ ref[t].top \in MaybeNode
  BY <1>1, Known DEF IInv, Fits, Locals, Places, Pushes
<1>4. fpc'[t] = "pushRefs" /\ ref'[t] = ref[t]
      /\ \A u \in Threads : u # t => fpc'[u] = fpc[u] /\ ref'[u] = ref[u]
  BY <1>2, StepEffect DEF IInv
<1>5. FreeListTypeOK'
  BY <1>2, <1>3, TypeStep DEF IInv, FreeListTypeOK
<1>6. /\ freeListNext'[n] = ref[t].top
      /\ \A m \in Nodes : m # n => freeListNext'[m] = freeListNext[m]
  BY <1>2 DEF IInv, FreeListTypeOK
<1>7. Early(t, n) /\ NodeAt(n) /\ Has(t, n)
  BY <1>1, <1>2 DEF Early, Has, IInv, Nodewise
<1>8. /\ ~OnList(n) /\ \A u \in Threads : ~Refers(u, n)
      /\ \A u \in Threads : u # t => ~Has(u, n)
  BY <1>7, HadByOne
<1>9. \A m \in Nodes : SameTo(t, m)
  BY <1>2, <1>4 DEF SameTo, Early, Late, Popped, Looking
<1>10. Nodewise' /\ Chained'
  BY <1>2, <1>5, <1>6, <1>8, <1>9, QuietStep
<1>11. ASSUME NEW u \in Threads PROVE RememberedBy(u)'
  <2>1. CASE u = t
    BY <1>1, <1>4, <1>6, <2>1 DEF RememberedBy
  <2>2. CASE u # t
    <3>1. fpc[u] = "getPop" => ref[u].head # n /\ ref[u].head \in Nodes
      BY <1>8, <2>2, Known DEF Refers, Looking, IInv, Fits
    <3>2. fpc[u] \in {"pushRefs", "pushCas"} => ref[u].node # n /\ ref[u].node \in Nodes
      BY <1>8, <2>2, Known DEF Has, Early, Late, IInv, Fits, Pushes
    <3> QED
      BY <1>4, <1>6, <2>2, <3>1, <3>2 DEF IInv, Remembered, RememberedBy
  <2> QED
    BY <2>1, <2>2
<1> QED
  BY <1>5, <1>10, <1>11 DEF IInv, Remembered

\* The count of a node that nobody refers to becomes one, for the list.
LEMMA PushRefsStep ==
  ASSUME IInv, NEW t \in Threads, PushRefs(t)
  PROVE  IInv'
<1>1. PICK n \in Nodes : n = ref[t].node
  BY Known DEF IInv, PushRefs, Fits, Pushes
<1>2. /\ fpc[t] = "pushRefs" /\ Step(t, "pushCas", ref[t])
      /\ freeListRefs' = [freeListRefs EXCEPT ![n] = [count |-> 1, should |-> FALSE]]
      /\ UNCHANGED <<freeListHead, freeListNext, held>>
  BY <1>1 DEF PushRefs
<1>3. Fits("pushCas", ref[t])
  BY <1>1, Known DEF IInv, Fits, Locals, Places, Pushes
<1>4. fpc'[t] = "pushCas" /\ ref'[t] = ref[t]
      /\ \A u \in Threads : u # t => fpc'[u] = fpc[u] /\ ref'[u] = ref[u]
  BY <1>2, StepEffect DEF IInv
<1>5. FreeListTypeOK'
  <2>1. [count |-> 1, should |-> FALSE] \in Counts
    BY DEF Counts
  <2> QED
    BY <1>2, <1>3, <2>1, TypeStep DEF IInv, FreeListTypeOK
<1>6. /\ freeListRefs'[n].count = 1 /\ freeListRefs'[n].should = FALSE
      /\ \A m \in Nodes : m # n => freeListRefs'[m] = freeListRefs[m]
  BY <1>2 DEF IInv, FreeListTypeOK
<1>7. Early(t, n) /\ NodeAt(n) /\ Has(t, n) /\ n \notin held[t]
  BY <1>1, <1>2 DEF Early, Has, IInv, Nodewise, NodeAt, OwnerAt
<1>8. /\ ~OnList(n) /\ \A u \in Threads : ~Refers(u, n)
      /\ \A u \in Threads : u # t => ~Has(u, n)
  BY <1>7, HadByOne
<1>9. Chained' /\ \A m \in Nodes : OnList(m)' <=> OnList(m)
  BY <1>2, <1>5, ChainKept
<1>10. \A m \in Nodes : m # n => SameTo(t, m)
  BY <1>1, <1>2, <1>4 DEF SameTo, Early, Late, Popped, Looking
<1>11. \A u \in Threads : u # t => SameTo(u, n)
  BY <1>2, <1>4, OthersSame
<1>12. /\ Late(t, n)' /\ ~Early(t, n)' /\ ~Popped(t, n)' /\ ~Looking(t, n)' /\ n \notin held'[t]
  BY <1>1, <1>2, <1>4, <1>7 DEF Early, Late, Popped, Looking
<1>13. NodeAt(n)'
  <2>1. Has(t, n)' /\ \A u \in Threads : u # t => ~Has(u, n)'
    BY <1>8, <1>11, <1>12 DEF Has, SameTo
  <2>2. \A u \in Threads : ~Refers(u, n)'
    BY <1>8, <1>11, <1>12 DEF Refers, SameTo
  <2>3. Cardinality(Referrers(n))' = 0
    <3>1. Referrers(n)' = {}
      BY <2>2 DEF Referrers
    <3> QED
      BY <3>1, FS_EmptySet
  <2>4. OwnerAt(n)'
    <3>1. ~OnList(n)' /\ \A u \in Threads : n \notin held'[u]
      BY <1>8, <1>9, <1>12, <2>1 DEF Has
    <3> QED
      BY <2>1, <3>1 DEF OwnerAt
  <2>5. \A u \in Threads : ~Early(u, n)'
    BY <1>12, <2>1 DEF Has
  <2>6. BitAt(n)'
    BY <1>6, <2>5 DEF BitAt
  <2>7. CountAt(n)'
    BY <1>6, <1>12, <2>3, <2>5 DEF CountAt, ByList
  <2> QED
    BY <2>4, <2>6, <2>7 DEF NodeAt
<1>14. Nodewise'
  BY <1>2, <1>5, <1>6, <1>9, <1>10, <1>13, NodeStep
<1>15. RememberedBy(t)'
  BY <1>2, <1>4 DEF IInv, Remembered, RememberedBy
<1> QED
  BY <1>2, <1>5, <1>9, <1>14, <1>15, OthersRemember DEF IInv

\* The node becomes the head, or the push will have to be undone.
LEMMA PushCasStep ==
  ASSUME IInv, NEW t \in Threads, PushCas(t)
  PROVE  IInv'
<1>1. PICK n \in Nodes : n = ref[t].node
  BY Known DEF IInv, PushCas, Fits, Pushes
<1>2. fpc[t] = "pushCas" /\ UNCHANGED <<freeListRefs, freeListNext, held>>
  BY DEF PushCas
<1>3. Late(t, n) /\ NodeAt(n) /\ Has(t, n) /\ n \notin held[t]
  BY <1>1, <1>2 DEF Late, Has, IInv, Nodewise, NodeAt, OwnerAt
<1>4. /\ ~OnList(n) /\ ~freeListRefs[n].should
      /\ \A u \in Threads : u # t => ~Has(u, n)
  BY <1>1, <1>2, <1>3, HadByOne DEF Early
<1>5. CASE freeListHead # ref[t].top
  <2> DEFINE r == [ref[t] EXCEPT !.top = freeListHead]
  <2>1. Step(t, "pushFail", r) /\ freeListHead' = freeListHead
    BY <1>5 DEF PushCas
  <2>2. Fits("pushFail", r) /\ r.head = ref[t].head /\ r.node = ref[t].node
    BY <1>1, Known DEF IInv, Fits, Locals, Places, Pushes
  <2> HIDE DEF r
  <2>3. fpc'[t] = "pushFail" /\ ref'[t] = r
    BY <2>1, StepEffect DEF IInv
  <2>4. FreeListTypeOK'
    BY <1>2, <2>1, <2>2, TypeStep DEF IInv, FreeListTypeOK
  <2>5. \A m \in Nodes : SameTo(t, m)
    BY <1>2, <2>2, <2>3 DEF SameTo, Early, Late, Popped, Looking
  <2>6. Nodewise' /\ Chained'
    BY <1>2, <2>1, <2>4, <2>5, QuietStep
  <2>7. RememberedBy(t)'
    BY <2>3 DEF RememberedBy
  <2> QED
    BY <1>2, <2>1, <2>4, <2>6, <2>7, OthersRemember DEF IInv
<1>6. CASE freeListHead = ref[t].top
  <2>1. PICK place \in {"idle", "getRefs"}, r \in Locals : Step(t, place, r) /\ Fits(place, r)
    BY <1>6, ResumeFits DEF IInv, PushCas
  <2>2. freeListHead' = n /\ freeListNext[n] = freeListHead
    BY <1>1, <1>2, <1>6 DEF PushCas, IInv, Remembered, RememberedBy
  <2>3. fpc'[t] = place /\ ref'[t] = r
        /\ \A u \in Threads : u # t => fpc'[u] = fpc[u] /\ ref'[u] = ref[u]
    BY <2>1, StepEffect DEF IInv
  <2>4. FreeListTypeOK'
    BY <1>2, <2>1, <2>2, TypeStep DEF IInv, FreeListTypeOK, MaybeNode
  <2>5. \A m \in Nodes : OnList(m)' <=> OnList(m) \/ m = n
    BY <1>2, <1>4, <2>2, <2>4, ListPushed DEF IInv
  <2>6. \A m \in Nodes : m # n => SameTo(t, m)
    BY <1>1, <1>2, <2>3 DEF SameTo, Early, Late, Popped, Looking
  <2>7. \A u \in Threads : u # t => SameTo(u, n)
    BY <1>2, <2>3, OthersSame
  <2>8. ~Late(t, n)' /\ ~Early(t, n)' /\ ~Popped(t, n)' /\ ~Looking(t, n)' /\ n \notin held'[t]
    BY <1>2, <1>3, <2>3 DEF Early, Late, Popped, Looking
  <2>9. NodeAt(n)'
    <3>1. \A u \in Threads : ~Has(u, n)'
      BY <1>4, <2>7, <2>8 DEF Has, SameTo
    <3>2. OwnerAt(n)'
      <4>1. OnList(n)'
        BY <2>5
      <4>2. \A u \in Threads : n \notin held'[u]
        BY <3>1 DEF Has
      <4> QED
        BY <3>1, <4>1, <4>2, Zenon DEF OwnerAt
    <3>3. BitAt(n)'
      BY <1>2, <1>4, <3>1 DEF BitAt, Has
    <3>4. Refers(t, n)' <=> Refers(t, n)
      BY <1>2, <2>8 DEF Refers, Looking, Popped
    <3>5. Cardinality(Referrers(n))' = Cardinality(Referrers(n))
      BY <2>7, <3>4, AsMany
    <3>6. freeListRefs[n].count = Cardinality(Referrers(n)) + 1
      BY <1>3, CountOfOwned
    <3>7. CountAt(n)'
      BY <1>2, <2>5, <3>1, <3>5, <3>6 DEF CountAt, ByList, Has
    <3> QED
      BY <3>2, <3>3, <3>7 DEF NodeAt
  <2>10. Nodewise'
    BY <1>2, <2>1, <2>4, <2>5, <2>6, <2>9, NodeStep
  <2>11. Chained'
    <3>1. \A m \in Nodes : OnList(m) => freeListNext[m] # n
      BY <1>4, ListLinked, NoNodeIsNone DEF IInv, Linked
    <3>2. freeListHead # n
      BY <1>4, ListLinked, NoNodeIsNone DEF IInv, Linked
    <3> QED
      BY <1>2, <2>2, <2>5, <3>1, <3>2 DEF IInv, Chained
  <2>12. RememberedBy(t)'
    BY <2>3 DEF RememberedBy
  <2> QED
    BY <1>2, <2>1, <2>4, <2>10, <2>11, <2>12, OthersRemember DEF IInv
<1> QED
  BY <1>5, <1>6

\* The list gives its reference up; the push starts again or is left to the last
\* thread that looks at the node.
LEMMA PushFailStep ==
  ASSUME IInv, NEW t \in Threads, PushFail(t)
  PROVE  IInv'
<1>1. PICK n \in Nodes : n = ref[t].node
  BY Known DEF IInv, PushFail, Fits, Pushes
<1>2. /\ fpc[t] = "pushFail"
      /\ freeListRefs' = [freeListRefs EXCEPT ![n] = [count |-> @.count - 1, should |-> TRUE]]
      /\ UNCHANGED <<freeListHead, freeListNext, held>>
  BY <1>1 DEF PushFail
<1>3. Late(t, n) /\ NodeAt(n) /\ Has(t, n) /\ n \notin held[t]
  BY <1>1, <1>2 DEF Late, Has, IInv, Nodewise, NodeAt, OwnerAt
<1>4. /\ ~OnList(n) /\ \A u \in Threads : u # t => ~Has(u, n)
  BY <1>3, HadByOne
<1> DEFINE c == Cardinality(Referrers(n))
<1>5. c \in Nat /\ freeListRefs[n].count = c + 1
  BY <1>3, CountOfOwned, ReferrersFinite
<1>6. /\ freeListRefs'[n].count = c /\ freeListRefs'[n].should = TRUE
      /\ \A m \in Nodes : m # n => freeListRefs'[m] = freeListRefs[m]
      /\ freeListRefs' \in [Nodes -> Counts]
  BY <1>2, <1>5 DEF IInv, FreeListTypeOK, Counts
<1>7. PICK place \in {"pushNext", "idle", "getRefs"}, r \in Locals :
        /\ Step(t, place, r) /\ Fits(place, r)
        /\ place = "pushNext" <=> c = 0
        /\ place = "pushNext" => r.node = n
  <2>1. CASE c = 0
    <3>1. Step(t, "pushNext", ref[t])
      BY <1>1, <1>5, <2>1 DEF PushFail
    <3>2. Fits("pushNext", ref[t])
      BY <1>1, Known DEF IInv, Fits, Places, Pushes
    <3> QED
      BY <1>1, <2>1, <3>1, <3>2 DEF Fits
  <2>2. CASE c # 0
    <3>1. Resume(t)
      BY <1>1, <1>5, <2>2 DEF PushFail
    <3> QED
      BY <2>2, <3>1, ResumeFits DEF IInv
  <2> QED
    BY <2>1, <2>2
<1>8. fpc'[t] = place /\ ref'[t] = r
      /\ \A u \in Threads : u # t => fpc'[u] = fpc[u] /\ ref'[u] = ref[u]
  BY <1>7, StepEffect DEF IInv
<1>9. FreeListTypeOK'
  BY <1>2, <1>6, <1>7, TypeStep DEF IInv, FreeListTypeOK
<1>10. Chained' /\ \A m \in Nodes : OnList(m)' <=> OnList(m)
  BY <1>2, <1>9, ChainKept
<1>11. \A m \in Nodes : m # n => SameTo(t, m)
  BY <1>1, <1>2, <1>7, <1>8 DEF SameTo, Early, Late, Popped, Looking
<1>12. \A u \in Threads : u # t => SameTo(u, n)
  BY <1>2, <1>8, OthersSame
<1>13. /\ Early(t, n)' <=> c = 0
       /\ ~Late(t, n)' /\ ~Popped(t, n)' /\ ~Looking(t, n)' /\ n \notin held'[t]
  BY <1>2, <1>3, <1>7, <1>8 DEF Early, Late, Popped, Looking
<1>14. NodeAt(n)'
  <2>1. \A u \in Threads : u # t => ~Has(u, n)'
    BY <1>4, <1>12 DEF Has, SameTo
  <2>2. OwnerAt(n)'
    <3>1. ~OnList(n)' /\ \A u \in Threads : n \notin held'[u]
      BY <1>4, <1>10, <1>13, <2>1 DEF Has
    <3> QED
      BY <1>6, <2>1, <3>1 DEF OwnerAt
  <2>3. ~Refers(t, n) /\ ~Refers(t, n)'
    BY <1>2, <1>13 DEF Refers, Looking, Popped
  <2>4. Cardinality(Referrers(n))' = c
    BY <1>12, <2>3, AsMany
  <2>5. BitAt(n)'
    <3>1. CASE c = 0
      BY <1>6, <1>13, <3>1 DEF BitAt
    <3>2. CASE c # 0
      <4>1. PICK u \in Threads : Refers(u, n)
        BY <3>2, NobodyRefers
      <4>2. u # t /\ Looking(u, n)
        BY <1>4, <2>3, <4>1 DEF Refers, Has
      <4>3. Looking(u, n)'
        BY <1>12, <4>2 DEF SameTo
      <4>4. ~Has(t, n)'
        BY <1>13, <3>2 DEF Has
      <4>5. \A w \in Threads : ~Has(w, n)'
        BY <2>1, <4>4
      <4>6. ~OnList(n)' /\ \A w \in Threads : ~Early(w, n)'
        BY <1>4, <1>10, <4>5 DEF Has
      <4> QED
        BY <1>6, <4>3, <4>5, <4>6 DEF BitAt
    <3> QED
      BY <3>1, <3>2
  <2>6. CountAt(n)'
    <3>1. \A u \in Threads : ~Late(u, n)' /\ ~Popped(u, n)' /\ (Early(u, n)' => u = t)
      BY <1>13, <2>1 DEF Has
    <3> QED
      BY <1>4, <1>5, <1>6, <1>10, <1>13, <2>4, <3>1 DEF CountAt, ByList
  <2> QED
    BY <2>2, <2>5, <2>6 DEF NodeAt
<1>15. Nodewise'
  BY <1>2, <1>6, <1>7, <1>9, <1>10, <1>11, <1>14, NodeStep
<1>16. RememberedBy(t)'
  BY <1>7, <1>8 DEF RememberedBy
<1> QED
  BY <1>2, <1>7, <1>9, <1>10, <1>15, <1>16, OthersRemember DEF IInv

\* A node is given up: pushed at once if nobody looks at it.
LEMMA AddStep ==
  ASSUME IInv, NEW t \in Threads, NEW n \in Nodes, Add(t, n)
  PROVE  IInv'
<1>1. /\ fpc[t] = "idle" /\ n \in held[t]
      /\ held' = [held EXCEPT ![t] = @ \ {n}]
      /\ freeListRefs' = [freeListRefs EXCEPT ![n].should = TRUE]
      /\ UNCHANGED <<freeListHead, freeListNext>>
  BY DEF Add
<1>2. NodeAt(n) /\ Has(t, n) /\ ~Early(t, n) /\ ~Late(t, n) /\ ~Popped(t, n) /\ ~Looking(t, n)
  BY <1>1 DEF IInv, Nodewise, Has, Early, Late, Popped, Looking
<1>3. /\ ~OnList(n) /\ \A u \in Threads : u # t => ~Has(u, n)
  BY <1>2, HadByOne
<1> DEFINE c == Cardinality(Referrers(n))
<1>4. c \in Nat /\ freeListRefs[n].count = c
  BY <1>2, CountOfOwned, ReferrersFinite
<1>5. /\ freeListRefs'[n].count = c /\ freeListRefs'[n].should = TRUE
      /\ \A m \in Nodes : m # n => freeListRefs'[m] = freeListRefs[m]
      /\ freeListRefs' \in [Nodes -> Counts]
  BY <1>1, <1>4 DEF IInv, FreeListTypeOK, Counts
<1>6. /\ n \notin held'[t] /\ \A m \in Nodes : m # n => (m \in held'[t] <=> m \in held[t])
      /\ \A u \in Threads : u # t => held'[u] = held[u]
      /\ held' \in [Threads -> SUBSET Nodes]
  BY <1>1 DEF IInv, FreeListTypeOK
<1>7. PICK place \in {"push", "idle"}, r \in Locals :
        /\ Step(t, place, r) /\ Fits(place, r)
        /\ place = "push" <=> c = 0
        /\ place = "push" => r.node = n
  <2>1. CASE c = 0
    <3> DEFINE r == [Unused EXCEPT !.node = n]
    <3>1. Step(t, "push", r)
      BY <1>4, <2>1 DEF Add
    <3>2. r \in Locals /\ r.node = n /\ Fits("push", r)
      BY UnusedFits DEF Fits, Locals, Unused, MaybeNode, Places, Pushes
    <3> QED
      BY <2>1, <3>1, <3>2
  <2>2. CASE c # 0
    BY <1>4, <2>2, UnusedFits DEF Add, Fits
  <2> QED
    BY <2>1, <2>2
<1>8. fpc'[t] = place /\ ref'[t] = r
      /\ \A u \in Threads : u # t => fpc'[u] = fpc[u] /\ ref'[u] = ref[u]
  BY <1>7, StepEffect DEF IInv
<1>9. FreeListTypeOK'
  BY <1>1, <1>5, <1>6, <1>7, TypeStep DEF IInv, FreeListTypeOK
<1>10. Chained' /\ \A m \in Nodes : OnList(m)' <=> OnList(m)
  BY <1>1, <1>9, ChainKept
<1>11. \A m \in Nodes : m # n => SameTo(t, m)
  BY <1>1, <1>6, <1>7, <1>8 DEF SameTo, Early, Late, Popped, Looking
<1>12. \A u \in Threads : u # t => SameTo(u, n)
  BY <1>6, <1>8, OthersSame
<1>13. /\ Early(t, n)' <=> c = 0
       /\ ~Late(t, n)' /\ ~Popped(t, n)' /\ ~Looking(t, n)'
  BY <1>7, <1>8 DEF Early, Late, Popped, Looking
<1>14. NodeAt(n)'
  <2>1. \A u \in Threads : u # t => ~Has(u, n)'
    BY <1>3, <1>12 DEF Has, SameTo
  <2>2. OwnerAt(n)'
    <3>1. ~OnList(n)' /\ \A u \in Threads : n \notin held'[u]
      BY <1>3, <1>6, <1>10, <2>1 DEF Has
    <3> QED
      BY <1>5, <2>1, <3>1 DEF OwnerAt
  <2>3. ~Refers(t, n) /\ ~Refers(t, n)'
    BY <1>2, <1>13 DEF Refers
  <2>4. Cardinality(Referrers(n))' = c
    BY <1>12, <2>3, AsMany
  <2>5. BitAt(n)'
    <3>1. CASE c = 0
      BY <1>5, <1>13, <3>1 DEF BitAt
    <3>2. CASE c # 0
      <4>1. PICK u \in Threads : Refers(u, n)
        BY <3>2, NobodyRefers
      <4>2. u # t /\ Looking(u, n)
        BY <1>3, <2>3, <4>1 DEF Refers, Has
      <4>3. Looking(u, n)'
        BY <1>12, <4>2 DEF SameTo
      <4>4. ~Has(t, n)'
        BY <1>6, <1>13, <3>2 DEF Has
      <4>5. \A w \in Threads : ~Has(w, n)'
        BY <2>1, <4>4
      <4>6. ~OnList(n)' /\ \A w \in Threads : ~Early(w, n)'
        BY <1>3, <1>10, <4>5 DEF Has
      <4> QED
        BY <1>5, <4>3, <4>5, <4>6 DEF BitAt
    <3> QED
      BY <3>1, <3>2
  <2>6. CountAt(n)'
    <3>1. \A u \in Threads : ~Late(u, n)' /\ ~Popped(u, n)' /\ (Early(u, n)' => u = t)
      BY <1>13, <2>1 DEF Has
    <3> QED
      BY <1>3, <1>4, <1>5, <1>10, <1>13, <2>4, <3>1 DEF CountAt, ByList
  <2> QED
    BY <2>2, <2>5, <2>6 DEF NodeAt
<1>15. Nodewise'
  BY <1>5, <1>6, <1>7, <1>9, <1>10, <1>11, <1>14, NodeStep
<1>16. RememberedBy(t)'
  BY <1>7, <1>8 DEF RememberedBy
<1> QED
  BY <1>1, <1>7, <1>9, <1>10, <1>15, <1>16, OthersRemember DEF IInv

\* The count is raised while it is not zero.
LEMMA GetCasStep ==
  ASSUME IInv, NEW t \in Threads, GetCas(t)
  PROVE  IInv'
<1>1. PICK n \in Nodes : n = ref[t].head
  BY Known DEF IInv, GetCas, Fits
<1>2. fpc[t] = "getCas" /\ UNCHANGED <<freeListHead, freeListNext, held>>
  BY DEF GetCas
<1>3. CASE freeListRefs[n] # ref[t].refs
  BY <1>1, <1>2, <1>3, LoadHeadStep DEF GetCas
<1>4. CASE freeListRefs[n] = ref[t].refs
  <2> DEFINE r == [ref[t] EXCEPT !.refs = Zero]
  <2>1. /\ Step(t, "getNext", r)
        /\ freeListRefs' = [freeListRefs EXCEPT ![n].count = @ + 1]
    BY <1>1, <1>4 DEF GetCas
  <2>2. Fits("getNext", r) /\ r.head = n
    BY <1>1, Known, UnusedFits DEF IInv, Fits, Locals, Places, Pushes
  <2> HIDE DEF r
  <2>3. fpc'[t] = "getNext" /\ ref'[t] = r
        /\ \A u \in Threads : u # t => fpc'[u] = fpc[u] /\ ref'[u] = ref[u]
    BY <2>1, StepEffect DEF IInv
  <2>4. /\ freeListRefs[n].count \in Nat
        /\ freeListRefs'[n].count = freeListRefs[n].count + 1
        /\ freeListRefs'[n].should = freeListRefs[n].should
        /\ \A m \in Nodes : m # n => freeListRefs'[m] = freeListRefs[m]
        /\ freeListRefs' \in [Nodes -> Counts]
    BY <2>1 DEF IInv, FreeListTypeOK, Counts
  <2>5. FreeListTypeOK'
    BY <1>2, <2>1, <2>2, <2>4, TypeStep DEF IInv, FreeListTypeOK
  <2>6. Chained' /\ \A m \in Nodes : OnList(m)' <=> OnList(m)
    BY <1>2, <2>5, ChainKept
  <2>7. \A m \in Nodes : m # n => SameTo(t, m)
    BY <1>2, <2>2, <2>3 DEF SameTo, Early, Late, Popped, Looking
  <2>8. \A u \in Threads : u # t => SameTo(u, n)
    BY <1>2, <2>3, OthersSame
  <2>9. /\ ~Early(t, n) /\ ~Late(t, n) /\ ~Popped(t, n) /\ ~Looking(t, n)
        /\ ~Early(t, n)' /\ ~Late(t, n)' /\ ~Popped(t, n)' /\ Looking(t, n)'
    BY <1>1, <1>2, <2>2, <2>3 DEF Early, Late, Popped, Looking
  <2>10. freeListRefs[n].count # 0 /\ NodeAt(n)
    BY <1>2, <1>4 DEF IInv, Remembered, RememberedBy, Nodewise
  <2>11. \A u \in Threads : ~Early(u, n)
    BY <2>10 DEF NodeAt, CountAt
  <2>12. \A u \in Threads : /\ Has(u, n)' <=> Has(u, n)
                            /\ Late(u, n)' <=> Late(u, n)
                            /\ Popped(u, n)' <=> Popped(u, n)
                            /\ ~Early(u, n)'
                            /\ Looking(u, n) => Looking(u, n)'
                            /\ n \in held'[u] <=> n \in held[u]
    BY <1>2, <2>8, <2>9, <2>11 DEF Has, SameTo
  <2>13. NodeAt(n)'
    <3>1. OwnerAt(n)'
      BY <2>4, <2>6, <2>10, <2>12 DEF NodeAt, OwnerAt
    <3>2. BitAt(n)'
      BY <2>4, <2>6, <2>9, <2>10, <2>11, <2>12 DEF NodeAt, BitAt
    <3>3. Cardinality(Referrers(n))' = Cardinality(Referrers(n)) + 1
      BY <2>8, <2>9, OneMore DEF Refers
    <3>4. Cardinality(Referrers(n)) \in Nat
      BY ReferrersFinite
    <3>5. ByList(n)' <=> ByList(n)
      BY <2>6, <2>12 DEF ByList
    <3>6. CountAt(n)'
      BY <2>4, <2>10, <2>12, <3>3, <3>4, <3>5 DEF NodeAt, CountAt
    <3> QED
      BY <3>1, <3>2, <3>6 DEF NodeAt
  <2>14. Nodewise'
    BY <1>2, <2>1, <2>4, <2>5, <2>6, <2>7, <2>13, NodeStep
  <2>15. RememberedBy(t)'
    BY <2>3 DEF RememberedBy
  <2> QED
    BY <1>2, <2>1, <2>5, <2>6, <2>14, <2>15, OthersRemember DEF IInv
<1> QED
  BY <1>3, <1>4

\* The head is taken off, with the pointer that was read of it, or it was taken
\* by another thread.
LEMMA GetPopStep ==
  ASSUME IInv, NEW t \in Threads, GetPop(t)
  PROVE  IInv'
<1>1. PICK n \in Nodes : n = ref[t].head
  BY Known DEF IInv, GetPop, Fits
<1>2. fpc[t] = "getPop" /\ UNCHANGED <<freeListRefs, freeListNext, held>>
  BY DEF GetPop
<1>3. CASE freeListHead # n
  <2> DEFINE r == [ref[t] EXCEPT !.head = freeListHead, !.node = n]
  <2>1. Step(t, "getLost", r) /\ freeListHead' = freeListHead
    BY <1>1, <1>3 DEF GetPop
  <2>2. Fits("getLost", r) /\ r.node = n
    BY <1>1, Known DEF IInv, Fits, Locals, Places, Pushes, MaybeNode
  <2> HIDE DEF r
  <2>3. fpc'[t] = "getLost" /\ ref'[t] = r
    BY <2>1, StepEffect DEF IInv
  <2>4. FreeListTypeOK'
    BY <1>2, <2>1, <2>2, TypeStep DEF IInv, FreeListTypeOK
  <2>5. \A m \in Nodes : SameTo(t, m)
    BY <1>1, <1>2, <2>2, <2>3 DEF SameTo, Early, Late, Popped, Looking
  <2>6. Nodewise' /\ Chained'
    BY <1>2, <2>1, <2>4, <2>5, QuietStep
  <2>7. RememberedBy(t)'
    BY <2>3 DEF RememberedBy
  <2> QED
    BY <1>2, <2>1, <2>4, <2>6, <2>7, OthersRemember DEF IInv
<1>4. CASE freeListHead = n
  <2>1. Step(t, "getTaken", ref[t]) /\ freeListHead' = freeListNext[freeListHead]
    BY <1>1, <1>2, <1>4 DEF GetPop, IInv, Remembered, RememberedBy
  <2>2. Fits("getTaken", ref[t]) /\ freeListNext[freeListHead] \in MaybeNode
    BY <1>1, <1>4, Known DEF IInv, FreeListTypeOK, Fits, Places, Pushes
  <2>3. fpc'[t] = "getTaken" /\ ref'[t] = ref[t]
        /\ \A u \in Threads : u # t => fpc'[u] = fpc[u] /\ ref'[u] = ref[u]
    BY <2>1, StepEffect DEF IInv
  <2>4. FreeListTypeOK'
    BY <1>2, <2>1, <2>2, TypeStep DEF IInv, FreeListTypeOK
  <2>5. \A m \in Nodes : OnList(m)' <=> OnList(m) /\ m # n
    BY <1>2, <1>4, <2>1, <2>4, ListPopped DEF IInv
  <2>6. OnList(n) /\ NodeAt(n)
    BY <1>4, ListLinked, NoNodeIsNone DEF IInv, Linked, Nodewise
  <2>7. (\A u \in Threads : ~Has(u, n)) /\ ~freeListRefs[n].should
    BY <2>6 DEF NodeAt, OwnerAt, BitAt, Has
  <2>8. \A m \in Nodes : m # n => SameTo(t, m)
    BY <1>1, <1>2, <2>3 DEF SameTo, Early, Late, Popped, Looking
  <2>9. \A u \in Threads : u # t => SameTo(u, n)
    BY <1>2, <2>3, OthersSame
  <2>10. ~Early(t, n)' /\ ~Late(t, n)' /\ Popped(t, n)' /\ Refers(t, n)'
         /\ n \notin held'[t] /\ Refers(t, n) /\ Has(t, n)'
    BY <1>1, <1>2, <2>3, <2>7 DEF Early, Late, Popped, Looking, Has, Refers
  <2>11. \A u \in Threads : u # t => ~Has(u, n)'
    BY <2>7, <2>9 DEF Has, SameTo
  <2>12. NodeAt(n)'
    <3>1. OwnerAt(n)'
      <4>1. ~OnList(n)' /\ \A u \in Threads : n \notin held'[u]
        BY <2>5, <2>10, <2>11 DEF Has
      <4> QED
        BY <2>10, <2>11, <4>1 DEF OwnerAt
    <3>2. \A u \in Threads : ~Early(u, n)'
      BY <2>10, <2>11 DEF Has
    <3>3. BitAt(n)'
      BY <1>2, <2>7, <3>2 DEF BitAt
    <3>4. Cardinality(Referrers(n))' = Cardinality(Referrers(n))
      BY <2>9, <2>10, AsMany
    <3>5. CountAt(n)'
      BY <1>2, <2>6, <2>10, <3>2, <3>4 DEF NodeAt, CountAt, ByList
    <3> QED
      BY <3>1, <3>3, <3>5 DEF NodeAt
  <2>13. Nodewise'
    BY <1>2, <2>1, <2>4, <2>5, <2>8, <2>12, NodeStep
  <2>14. Chained'
    <3>1. \A m \in Nodes : OnList(m) /\ m # n =>
            freeListNext[m] # freeListNext[n] \/ freeListNext[m] = NoNode
      BY <2>6 DEF IInv, Chained
    <3> QED
      BY <1>2, <1>4, <2>1, <2>5, <3>1 DEF IInv, Chained
  <2>15. RememberedBy(t)'
    BY <2>3 DEF RememberedBy
  <2> QED
    BY <1>2, <2>1, <2>4, <2>13, <2>14, <2>15, OthersRemember DEF IInv
<1> QED
  BY <1>3, <1>4

\* The node popped becomes the thread's, and both references to it are given up.
LEMMA GetTakenStep ==
  ASSUME IInv, NEW t \in Threads, GetTaken(t)
  PROVE  IInv'
<1>1. PICK n \in Nodes : n = ref[t].head
  BY Known DEF IInv, GetTaken, Fits
<1>2. /\ fpc[t] = "getTaken" /\ Step(t, "idle", Unused)
      /\ freeListRefs' = [freeListRefs EXCEPT ![n].count = @ - 2]
      /\ held' = [held EXCEPT ![t] = @ \cup {n}]
      /\ UNCHANGED <<freeListHead, freeListNext>>
  BY <1>1 DEF GetTaken
<1>3. Popped(t, n) /\ NodeAt(n) /\ Has(t, n) /\ ~Early(t, n)
  BY <1>1, <1>2 DEF Early, Popped, Has, IInv, Nodewise
<1>4. /\ ~OnList(n) /\ ~freeListRefs[n].should
      /\ \A u \in Threads : u # t => ~Has(u, n)
  BY <1>3, HadByOne
<1>5. fpc'[t] = "idle" /\ ref'[t] = Unused
      /\ \A u \in Threads : u # t => fpc'[u] = fpc[u] /\ ref'[u] = ref[u]
  BY <1>2, StepEffect DEF IInv
<1>6. /\ n \in held'[t] /\ \A m \in Nodes : m # n => (m \in held'[t] <=> m \in held[t])
      /\ \A u \in Threads : u # t => held'[u] = held[u]
      /\ held' \in [Threads -> SUBSET Nodes]
  BY <1>2 DEF IInv, FreeListTypeOK
<1>7. \A u \in Threads : u # t => SameTo(u, n)
  BY <1>5, <1>6, OthersSame
<1>8. /\ Refers(t, n) /\ ~Refers(t, n)'
      /\ ~Early(t, n)' /\ ~Late(t, n)' /\ ~Popped(t, n)'
  BY <1>3, <1>5 DEF Refers, Early, Late, Popped, Looking
<1> DEFINE c == Cardinality(Referrers(n))
<1>9. c \in Nat /\ c # 0 /\ freeListRefs[n].count = c + 1
  BY <1>3, <1>8, CountOfOwned, ReferrersFinite, NobodyRefers
<1>10. Cardinality(Referrers(n))' = c - 1
  BY <1>7, <1>8, OneLess
<1>11. /\ freeListRefs'[n].count = c - 1
       /\ freeListRefs'[n].should = freeListRefs[n].should
       /\ \A m \in Nodes : m # n => freeListRefs'[m] = freeListRefs[m]
       /\ freeListRefs' \in [Nodes -> Counts]
  <2>1. c - 1 \in Nat /\ freeListRefs[n].count - 2 = c - 1
    BY <1>9
  <2> DEFINE after == [freeListRefs[n] EXCEPT !.count = freeListRefs[n].count - 2]
  <2>2. after \in Counts /\ after.count = c - 1 /\ after.should = freeListRefs[n].should
    BY <2>1 DEF IInv, FreeListTypeOK, Counts
  <2>3. freeListRefs' = [freeListRefs EXCEPT ![n] = after]
    BY <1>2
  <2> HIDE DEF after
  <2> QED
    BY <2>2, <2>3 DEF IInv, FreeListTypeOK
<1>12. FreeListTypeOK'
  BY <1>2, <1>6, <1>11, UnusedFits, TypeStep DEF IInv, FreeListTypeOK
<1>13. Chained' /\ \A m \in Nodes : OnList(m)' <=> OnList(m)
  BY <1>2, <1>12, ChainKept
<1>14. \A m \in Nodes : m # n => SameTo(t, m)
  BY <1>1, <1>2, <1>5, <1>6 DEF SameTo, Early, Late, Popped, Looking
<1>15. NodeAt(n)'
  <2>1. Has(t, n)' /\ \A u \in Threads : u # t => ~Has(u, n)'
    BY <1>4, <1>6, <1>7 DEF Has, SameTo
  <2>2. \A u \in Threads : ~Early(u, n)' /\ ~Late(u, n)' /\ ~Popped(u, n)'
    BY <1>8, <2>1 DEF Has
  <2>3. OwnerAt(n)'
    BY <1>4, <1>13, <2>1, <2>2 DEF OwnerAt
  <2>4. BitAt(n)'
    BY <1>4, <1>11, <2>2 DEF BitAt
  <2>5. CountAt(n)'
    BY <1>4, <1>9, <1>10, <1>11, <1>13, <2>2 DEF CountAt, ByList
  <2> QED
    BY <2>3, <2>4, <2>5 DEF NodeAt
<1>16. Nodewise'
  BY <1>2, <1>6, <1>11, <1>12, <1>13, <1>14, <1>15, NodeStep
<1>17. RememberedBy(t)'
  BY <1>5 DEF RememberedBy
<1> QED
  BY <1>2, <1>12, <1>13, <1>16, <1>17, OthersRemember DEF IInv

\* A thread that lost the race for a node gives its reference up, and pushes the
\* node if it was the last to look at it and the bit is set.
LEMMA GetLostStep ==
  ASSUME IInv, NEW t \in Threads, GetLost(t)
  PROVE  IInv'
<1>1. PICK n \in Nodes : n = ref[t].node
  BY Known DEF IInv, GetLost, Fits
<1>2. /\ fpc[t] = "getLost"
      /\ freeListRefs' = [freeListRefs EXCEPT ![n].count = @ - 1]
      /\ UNCHANGED <<freeListHead, freeListNext, held>>
  BY <1>1 DEF GetLost
<1>3. Looking(t, n) /\ NodeAt(n) /\ ~Early(t, n) /\ ~Late(t, n) /\ ~Popped(t, n)
  BY <1>1, <1>2 DEF Early, Late, Popped, Looking, IInv, Nodewise
<1>4. PICK c \in Nat : c = Cardinality(Referrers(n)) /\ c # 0
  BY <1>3, ReferrersFinite, NobodyRefers DEF Refers
<1>5. PICK b \in {0, 1} : b = IF ByList(n) THEN 1 ELSE 0
  OBVIOUS
<1>6. freeListRefs[n].count = c + b /\ \A u \in Threads : ~Early(u, n)
  BY <1>3, <1>4, <1>5 DEF NodeAt, CountAt
<1>7. /\ freeListRefs'[n].count = (c - 1) + b
      /\ freeListRefs'[n].should = freeListRefs[n].should
      /\ \A m \in Nodes : m # n => freeListRefs'[m] = freeListRefs[m]
      /\ freeListRefs' \in [Nodes -> Counts]
  <2>1. freeListRefs[n].count - 1 = (c - 1) + b /\ (c - 1) + b \in Nat
    BY <1>4, <1>5, <1>6
  <2> DEFINE after == [freeListRefs[n] EXCEPT !.count = freeListRefs[n].count - 1]
  <2>2. after \in Counts /\ after.count = (c - 1) + b /\ after.should = freeListRefs[n].should
    BY <2>1 DEF IInv, FreeListTypeOK, Counts
  <2>3. freeListRefs' = [freeListRefs EXCEPT ![n] = after]
    BY <1>2
  <2> HIDE DEF after
  <2> QED
    BY <2>2, <2>3 DEF IInv, FreeListTypeOK
\* If the bit is set, the node belongs to nobody but those who look at it.
<1>8. freeListRefs[n].should =>
        b = 0 /\ ~OnList(n) /\ \A u \in Threads : ~Has(u, n)
  BY <1>3, <1>5, <1>6 DEF NodeAt, BitAt, ByList, Has
<1>9. PICK place \in {"push", "idle", "getRefs"}, r \in Locals :
        /\ Step(t, place, r) /\ Fits(place, r)
        /\ place = "push" <=> c = 1 /\ freeListRefs[n].should
        /\ place = "push" => r.node = n
  <2>0. freeListRefs[n] \in Counts
    BY DEF IInv, FreeListTypeOK
  <2>1. freeListRefs[n] = [count |-> 1, should |-> TRUE] <=> c = 1 /\ freeListRefs[n].should
    <3>1. freeListRefs[n] = [count |-> 1, should |-> TRUE]
            <=> c + b = 1 /\ freeListRefs[n].should
      <4>1. ASSUME freeListRefs[n] = [count |-> 1, should |-> TRUE]
            PROVE  c + b = 1 /\ freeListRefs[n].should
        <5>1. freeListRefs[n].count = 1 /\ freeListRefs[n].should = TRUE
          BY <4>1
        <5> QED
          BY <1>6, <5>1
      <4>2. ASSUME c + b = 1, freeListRefs[n].should
            PROVE  freeListRefs[n] = [count |-> 1, should |-> TRUE]
        <5>1. freeListRefs[n].count = 1 /\ freeListRefs[n].should = TRUE
          BY <1>6, <2>0, <4>2 DEF Counts
        <5> QED
          BY <2>0, <5>1 DEF Counts
      <4> QED
        BY <4>1, <4>2
    <3> QED
      BY <1>4, <1>5, <1>8, <3>1
  <2>2. CASE c = 1 /\ freeListRefs[n].should
    <3>1. Step(t, "push", ref[t])
      BY <1>1, <2>1, <2>2 DEF GetLost
    <3>2. Fits("push", ref[t])
      BY <1>1, Known DEF IInv, Fits, Places, Pushes
    <3> QED
      BY <1>1, <2>2, <3>1, <3>2 DEF Fits
  <2>3. CASE ~(c = 1 /\ freeListRefs[n].should)
    <3>1. Resume(t)
      BY <1>1, <2>1, <2>3 DEF GetLost
    <3> QED
      BY <2>3, <3>1, ResumeFits DEF IInv
  <2> QED
    BY <2>2, <2>3
<1>10. fpc'[t] = place /\ ref'[t] = r
       /\ \A u \in Threads : u # t => fpc'[u] = fpc[u] /\ ref'[u] = ref[u]
  BY <1>9, StepEffect DEF IInv
<1>11. FreeListTypeOK'
  BY <1>2, <1>7, <1>9, TypeStep DEF IInv, FreeListTypeOK
<1>12. Chained' /\ \A m \in Nodes : OnList(m)' <=> OnList(m)
  BY <1>2, <1>11, ChainKept
<1>13. \A m \in Nodes : m # n => SameTo(t, m)
  BY <1>1, <1>2, <1>9, <1>10 DEF SameTo, Early, Late, Popped, Looking
<1>14. \A u \in Threads : u # t => SameTo(u, n)
  BY <1>2, <1>10, OthersSame
<1>15. /\ Early(t, n)' <=> place = "push"
       /\ ~Late(t, n)' /\ ~Popped(t, n)' /\ ~Looking(t, n)'
       /\ n \in held'[t] <=> n \in held[t]
  BY <1>2, <1>9, <1>10 DEF Early, Late, Popped, Looking
<1>16. Cardinality(Referrers(n))' = c - 1
  BY <1>3, <1>4, <1>14, <1>15, OneLess DEF Refers
<1>17. ByList(n)' <=> ByList(n)
  BY <1>3, <1>12, <1>14, <1>15 DEF ByList, SameTo
<1>18. \A u \in Threads : /\ Has(u, n)' <=> Has(u, n) \/ (u = t /\ place = "push")
                          /\ Early(u, n)' <=> u = t /\ place = "push"
                          /\ n \in held'[u] <=> n \in held[u]
                          /\ Late(u, n)' <=> Late(u, n)
                          /\ Popped(u, n)' <=> Popped(u, n)
                          /\ u # t => (Looking(u, n)' <=> Looking(u, n))
  BY <1>3, <1>6, <1>14, <1>15 DEF Has, SameTo
<1>19. NodeAt(n)'
  <2>1. CASE place = "push"
    <3>1. (\A u \in Threads : ~Has(u, n)) /\ ~OnList(n) /\ freeListRefs[n].should /\ c = 1 /\ b = 0
      BY <1>8, <1>9, <2>1
    <3>2. OwnerAt(n)'
      <4>1. ~OnList(n)' /\ \A u \in Threads : (Has(u, n)' <=> u = t) /\ n \notin held'[u]
        BY <1>12, <1>18, <2>1, <3>1 DEF Has
      <4> QED
        BY <4>1 DEF OwnerAt
    <3>3. BitAt(n)'
      BY <1>7, <1>18, <2>1, <3>1 DEF BitAt
    <3>4. CountAt(n)'
      BY <1>5, <1>7, <1>16, <1>17, <3>1 DEF CountAt
    <3> QED
      BY <3>2, <3>3, <3>4 DEF NodeAt
  <2>2. CASE place # "push"
    <3>1. OwnerAt(n)'
      BY <1>3, <1>7, <1>12, <1>18, <2>2 DEF NodeAt, OwnerAt
    <3>2. BitAt(n)'
      <4>1. CASE freeListRefs[n].should
        <5>1. (\A u \in Threads : ~Has(u, n)) /\ ~OnList(n) /\ c # 1
          BY <1>8, <1>9, <2>2, <4>1
        <5>2. Cardinality(Referrers(n))' # 0
          BY <1>4, <1>16, <5>1
        <5>3. PICK u \in Threads : Refers(u, n)'
          BY <5>2, ReferrersLeft
        <5>4. Looking(u, n)'
          BY <1>18, <5>1, <5>3 DEF Refers, Has
        <5>5. ~OnList(n)' /\ \A w \in Threads : ~Has(w, n)' /\ ~Early(w, n)'
          BY <1>12, <1>18, <2>2, <5>1
        <5> QED
          BY <5>4, <5>5 DEF BitAt
      <4>2. CASE ~freeListRefs[n].should
        BY <1>7, <1>18, <2>2, <4>2 DEF BitAt
      <4> QED
        BY <4>1, <4>2
    <3>3. CountAt(n)'
      BY <1>5, <1>7, <1>16, <1>17, <1>18, <2>2 DEF CountAt
    <3> QED
      BY <3>1, <3>2, <3>3 DEF NodeAt
  <2> QED
    BY <2>1, <2>2
<1>20. Nodewise'
  BY <1>2, <1>7, <1>9, <1>11, <1>12, <1>13, <1>19, NodeStep
<1>21. RememberedBy(t)'
  BY <1>9, <1>10 DEF RememberedBy
<1> QED
  BY <1>2, <1>9, <1>11, <1>12, <1>20, <1>21, OthersRemember DEF IInv

-----------------------------------------------------------------------------
LEMMA InitIInv ==
  ASSUME FreeListInit
  PROVE  IInv
<1>1. FreeListTypeOK
  BY UnusedFits DEF FreeListInit, FreeListTypeOK, Fits, Locals, MaybeNode
<1>2. \A n \in Nodes : ~OnList(n)
  BY DEF FreeListInit, OnList, Linked
<1>3. \A t \in Threads, n \in Nodes :
        ~Early(t, n) /\ ~Late(t, n) /\ ~Popped(t, n) /\ ~Looking(t, n)
  BY Nowhere DEF FreeListInit
<1>4. ASSUME NEW n \in Nodes PROVE NodeAt(n)
  <2>1. OwnerAt(n)
    BY <1>2, <1>3 DEF FreeListInit, OwnerAt, Has
  <2>2. BitAt(n)
    BY <1>3 DEF FreeListInit, BitAt, Zero
  <2>3. Cardinality(Referrers(n)) = 0
    BY <1>3, NobodyRefers DEF Refers
  <2>4. CountAt(n)
    BY <1>2, <1>3, <2>3 DEF FreeListInit, CountAt, ByList, Zero
  <2> QED
    BY <2>1, <2>2, <2>4 DEF NodeAt
<1>5. Remembered
  BY DEF FreeListInit, Remembered, RememberedBy
<1>6. Chained
  BY <1>2 DEF Chained
<1> QED
  BY <1>1, <1>4, <1>5, <1>6 DEF IInv, Nodewise

LEMMA StutterIInv ==
  ASSUME IInv, UNCHANGED freeListVars
  PROVE  IInv'
<1>1. FreeListTypeOK'
  BY DEF IInv, FreeListTypeOK, freeListVars
<1>2. \A n \in Nodes : OnList(n)' <=> OnList(n)
  BY <1>1, ListKept DEF IInv, freeListVars
<1>3. \A t \in Threads, n \in Nodes : SameTo(t, n)
  BY DEF freeListVars, SameTo, Early, Late, Popped, Looking
<1>4. Nodewise'
  BY <1>2, <1>3, Unmoved DEF IInv, Nodewise, freeListVars
<1> QED
  BY <1>1, <1>2, <1>4 DEF IInv, Remembered, RememberedBy, Chained, freeListVars

LEMMA StepIInv ==
  ASSUME IInv, [FreeListNext]_freeListVars
  PROVE  IInv'
<1>1. ASSUME NEW t \in Threads, NEW n \in Nodes, Add(t, n) PROVE IInv'
  BY <1>1, AddStep
<1>2. ASSUME NEW t \in Threads, TryGet(t) PROVE IInv'
  BY <1>2, TryGetStep
<1>3. ASSUME NEW t \in Threads, Push(t) PROVE IInv'
  BY <1>3, PushLoadStep, PushNextStep, PushRefsStep, PushCasStep, PushFailStep DEF Push
<1>4. ASSUME NEW t \in Threads, Get(t) PROVE IInv'
  BY <1>4, GetRefsStep, GetCasStep, GetNextStep, GetPopStep, GetTakenStep, GetLostStep DEF Get
<1> QED
  BY <1>1, <1>2, <1>3, <1>4, StutterIInv DEF FreeListNext

-----------------------------------------------------------------------------
\* A node that the invariant holds of is in one place.
LEMMA OnePlace ==
  ASSUME IInv, NEW n \in Nodes
  PROVE  Cardinality(Whereabouts(n)) = 1
<1>0. NodeAt(n)
  BY DEF IInv, Nodewise
<1>1. \A t \in Threads : Pushing(t, n) <=> Early(t, n) \/ Late(t, n)
  BY DEF Pushing, Pushes, Early, Late
<1>2. CASE \E t \in Threads : Has(t, n)
  <2>1. PICK t \in Threads : Has(t, n)
    BY <1>2
  <2>2. ~OnList(n) /\ \A u \in Threads : u # t => ~Has(u, n)
    BY <1>0, <2>1, HadByOne
  <2>3. ~LeftToLast(n)
    BY <1>0, <1>1, <2>1, HadByOne DEF LeftToLast
  <2>4. \A u \in Threads : u # t => n \notin held[u] /\ ~Pushing(u, n) /\ ~Popped(u, n)
    BY <1>1, <2>2 DEF Has
  <2>5. CASE n \in held[t]
    <3>1. ~Pushing(t, n) /\ ~Popped(t, n)
      BY <1>0, <1>1, <2>5 DEF NodeAt, OwnerAt
    <3>2. Whereabouts(n) = {<<"held", t>>}
      BY <2>2, <2>3, <2>4, <2>5, <3>1 DEF Whereabouts
    <3> QED
      BY <3>2, FS_Singleton
  <2>6. CASE Pushing(t, n)
    <3>1. n \notin held[t] /\ ~Popped(t, n)
      BY <1>0, <1>1, <2>6 DEF NodeAt, OwnerAt, Popped, Pushing, Pushes
    <3>2. Whereabouts(n) = {<<"pushing", t>>}
      BY <2>2, <2>3, <2>4, <2>6, <3>1 DEF Whereabouts
    <3> QED
      BY <3>2, FS_Singleton
  <2>7. CASE Popped(t, n)
    <3>1. n \notin held[t] /\ ~Pushing(t, n)
      BY <1>0, <1>1, <2>7 DEF NodeAt, OwnerAt, Popped, Pushing, Pushes
    <3>2. Whereabouts(n) = {<<"popped", t>>}
      BY <2>2, <2>3, <2>4, <2>7, <3>1 DEF Whereabouts
    <3> QED
      BY <3>2, FS_Singleton
  <2> QED
    BY <1>1, <2>1, <2>5, <2>6, <2>7 DEF Has
<1>3. CASE ~\E t \in Threads : Has(t, n)
  <2>1. \A u \in Threads : n \notin held[u] /\ ~Pushing(u, n) /\ ~Popped(u, n) /\ ~Early(u, n)
    BY <1>1, <1>3 DEF Has
  <2>2. CASE OnList(n)
    <3>1. ~LeftToLast(n)
      BY <1>0, <2>1, <2>2 DEF LeftToLast, NodeAt, BitAt
    <3>2. Whereabouts(n) = {<<"listed">>}
      BY <2>1, <2>2, <3>1 DEF Whereabouts
    <3> QED
      BY <3>2, FS_Singleton
  <2>3. CASE ~OnList(n)
    <3>1. LeftToLast(n)
      BY <1>0, <1>3, <2>1, <2>3 DEF LeftToLast, NodeAt, OwnerAt, BitAt
    <3>2. Whereabouts(n) = {<<"left">>}
      BY <2>1, <2>3, <3>1 DEF Whereabouts
    <3> QED
      BY <3>2, FS_Singleton
  <2> QED
    BY <2>2, <2>3
<1> QED
  BY <1>2, <1>3

\* add, add_knowing_refcount_is_zero and try_get may interleave in any way: the
\* invariant holds in every state.
LEMMA AlwaysIInv == FreeListSpec => []IInv
<1>1. FreeListInit => IInv
  BY InitIInv
<1>2. IInv /\ [FreeListNext]_freeListVars => IInv'
  BY StepIInv
<1> QED
  BY <1>1, <1>2, PTL DEF FreeListSpec

\* However many threads push and pop blocks, a block is in one place: held by one
\* thread, on the list, between the two in the hands of one thread, or left to
\* the last thread that looks at it.  None is lost or handed out twice.
THEOREM NoNodeLost == FreeListSpec => []NodeInOnePlace
<1>1. IInv => NodeInOnePlace
  BY OnePlace DEF NodeInOnePlace
<1> QED
  BY <1>1, AlwaysIInv, PTL

\* The local variables of a thread are always those of the place it is at: it
\* never works on a node it does not know.
THEOREM FreeListTyped == FreeListSpec => []FreeListTypeOK
<1>1. IInv => FreeListTypeOK
  BY DEF IInv
<1> QED
  BY <1>1, AlwaysIInv, PTL

-----------------------------------------------------------------------------
(***************************************************************************)
(* Proofs about ProducerTable.tla, for any number of threads, producers    *)
(* and tables: a thread keeps the producer it was given first, and no two  *)
(* threads have the same.                                                  *)
(*                                                                         *)
(* The argument is that of the comment in tools/moodycamel.h ("if it's not *)
(* found, it must not be in there yet").  A slot that is taken is never    *)
(* empty again, so no empty slot comes between the home of a thread and    *)
(* the slot it is in, in any hash; and only the thread itself puts itself  *)
(* there.  A search that meets an empty slot has shown that the thread is  *)
(* not in that hash, whatever other threads do meanwhile; one that has     *)
(* gone through all hashes has shown that the thread has no producer.      *)
(***************************************************************************)
Keys == Callers \cup {EmptyKey, ReusableKey}
Slots == [key : Keys, producer : Nat]
Hashes == UNION {[0..n - 1 -> Slots] : n \in Nat \ {0}}
Probes == [main : Nat, hash : Nat, i : Nat, count : Int, producer : Nat]

\* The places of a thread: it has found no slot of its own in any hash and counts
\* on having none, or it has a producer that it is about to return.
NotIn == {"count", "room", "resize", "wait", "takeOver", "subscribe"}
Given == {"move", "insert", "uncount", "return"}
Searching == {"find", "leave"}
Stages == {"out", "left"} \cup Searching \cup NotIn \cup Given

TableTyped ==
  /\ tables \in Seq(Hashes) /\ tables # <<>>
  /\ hashCount \in Int /\ resizing \in BOOLEAN
  /\ inactive \in Seq(BOOLEAN)
  /\ using \in [Callers -> Nat]
  /\ tpc \in [Callers -> Stages]
  /\ probe \in [Callers -> Probes]

\* The key at the i-th place, round and round, of hash h.
KeyIn(h, i) == tables[h][i % Capacity(h)].key

\* t is in hash h.
In(t, h) == \E s \in DOMAIN tables[h] : tables[h][s].key = t

\* A slot of t in hash h: its producer is that of t, t has no other one there, and
\* no empty slot comes before it.
SlotOf(t, h, s) ==
  /\ tables[h][s].producer = using[t] /\ using[t] # 0
  /\ \A r \in DOMAIN tables[h] : tables[h][r].key = t => r = s
  /\ \E j \in Nat : /\ Home[t] <= j /\ s = j % Capacity(h)
                    /\ \A i \in Home[t]..j - 1 : KeyIn(h, i) # EmptyKey
Placed(t) ==
  \A h \in DOMAIN tables : \A s \in DOMAIN tables[h] :
    tables[h][s].key = t => SlotOf(t, h, s)

\* The slots that t has passed in the hash it searches, and the hashes.
Passed(t) ==
  /\ tpc[t] \in Searching \cup {"move", "insert"} =>
       /\ probe[t].hash \in DOMAIN tables /\ Home[t] <= probe[t].i
       /\ \A i \in Home[t]..probe[t].i - 1 : KeyIn(probe[t].hash, i) # EmptyKey
  /\ tpc[t] \in Searching =>
       /\ \A i \in Home[t]..probe[t].i - 1 : KeyIn(probe[t].hash, i) # t
       /\ \A h \in DOMAIN tables : h > probe[t].hash => ~In(t, h)
  /\ tpc[t] = "move" => \A h \in DOMAIN tables : h >= probe[t].hash => ~In(t, h)
  /\ tpc[t] \in NotIn \cup {"insert", "left"} => \A h \in DOMAIN tables : ~In(t, h)
  /\ tpc[t] \in {"find"} \cup NotIn => probe[t].main \in DOMAIN tables
  /\ tpc[t] = "find" => probe[t].hash <= probe[t].main
  /\ tpc[t] = "subscribe" => probe[t].hash = probe[t].main /\ probe[t].i = Home[t]

\* What the producer of t is, at each place.
Produces(t) ==
  /\ tpc[t] \in NotIn => using[t] = 0
  /\ tpc[t] \in {"out", "find", "move", "uncount", "return"} /\ using[t] # 0 =>
       \E h \in DOMAIN tables : In(t, h)
  /\ tpc[t] \in Given => probe[t].producer = using[t] /\ using[t] # 0
  /\ tpc[t] = "subscribe" => probe[t].producer # 0
  /\ tpc[t] \notin Given \cup {"subscribe"} => probe[t].producer = 0
  /\ tpc[t] \in {"leave", "left"} => using[t] # 0
  /\ tpc[t] = "takeOver" => probe[t].i <= Len(inactive)

\* Producers are given to one thread each.
Apart(t) ==
  /\ \A u \in Callers \ {t} : Working(t) \cap Working(u) = {}
  /\ \A p \in Working(t) : p \in 1..Len(inactive) /\ ~inactive[p]

TInv == TableTyped /\ \A t \in Callers : Placed(t) /\ Passed(t) /\ Produces(t) /\ Apart(t)

-----------------------------------------------------------------------------
\* The hashes.

LEMMA CapacityOf ==
  ASSUME TableTyped, NEW h \in DOMAIN tables
  PROVE  /\ Capacity(h) \in Nat \ {0}
         /\ DOMAIN tables[h] = 0..Capacity(h) - 1
         /\ tables[h] \in [0..Capacity(h) - 1 -> Slots]
         /\ \A i \in Nat : i % Capacity(h) \in DOMAIN tables[h]
<1>1. PICK n \in Nat \ {0} : tables[h] \in [0..n - 1 -> Slots]
  BY DEF TableTyped, Hashes
<1>2. DOMAIN tables[h] = 0..n - 1
  BY <1>1
<1>3. Cardinality(0..n - 1) = n
  BY FS_Interval
<1>4. Capacity(h) = n
  BY <1>2, <1>3 DEF Capacity
<1>5. \A i \in Nat : i % n \in 0..n - 1
  OBVIOUS
<1> QED
  BY <1>1, <1>2, <1>4, <1>5

LEMMA TablesNumbered ==
  ASSUME TableTyped
  PROVE  /\ Len(tables) \in Nat /\ DOMAIN tables = 1..Len(tables)
         /\ \A h \in DOMAIN tables : h \in Nat
         /\ Len(tables) \in DOMAIN tables
BY DEF TableTyped

LEMMA NewTableTyped ==
  ASSUME NEW n \in Nat \ {0}
  PROVE  NewTable(n) \in Hashes
<1>1. NewTable(n) \in [0..n - 1 -> Slots]
  BY DEF NewTable, Slots, Keys
<1> QED
  BY <1>1 DEF Hashes

\* What a step leaves a thread of the hashes: its slots, and the taken slots
\* taken.
Kept(t) ==
  /\ Len(tables') >= Len(tables)
  /\ \A h \in DOMAIN tables :
       /\ DOMAIN tables'[h] = DOMAIN tables[h]
       /\ \A s \in DOMAIN tables[h] :
            /\ tables'[h][s].key = t <=> tables[h][s].key = t
            /\ tables[h][s].key = t => tables'[h][s].producer = tables[h][s].producer
            /\ tables[h][s].key # EmptyKey => tables'[h][s].key # EmptyKey
  /\ \A h \in DOMAIN tables' : h \notin DOMAIN tables => ~In(t, h)'

LEMMA KeptEffect ==
  ASSUME TableTyped, TableTyped', NEW t \in Callers, Kept(t)
  PROVE  /\ \A h \in DOMAIN tables : h \in DOMAIN tables'
         /\ \A h \in DOMAIN tables :
              /\ Capacity(h)' = Capacity(h)
              /\ In(t, h)' <=> In(t, h)
              /\ \A i \in Nat : /\ KeyIn(h, i) # EmptyKey => KeyIn(h, i)' # EmptyKey
                                /\ KeyIn(h, i)' = t <=> KeyIn(h, i) = t
         /\ \A h \in DOMAIN tables' : In(t, h)' => h \in DOMAIN tables /\ In(t, h)
<1>1. \A h \in DOMAIN tables : h \in DOMAIN tables'
  BY TablesNumbered DEF TableTyped, Kept
<1>2. ASSUME NEW h \in DOMAIN tables
      PROVE  /\ Capacity(h)' = Capacity(h)
             /\ In(t, h)' <=> In(t, h)
             /\ \A i \in Nat : /\ KeyIn(h, i) # EmptyKey => KeyIn(h, i)' # EmptyKey
                               /\ KeyIn(h, i)' = t <=> KeyIn(h, i) = t
  <2>1. DOMAIN tables'[h] = DOMAIN tables[h]
    BY DEF Kept
  <2>2. Capacity(h)' = Capacity(h)
    BY <2>1 DEF Capacity
  <2>3. In(t, h)' <=> In(t, h)
    BY <2>1 DEF Kept, In
  <2>4. ASSUME NEW i \in Nat
        PROVE  /\ KeyIn(h, i) # EmptyKey => KeyIn(h, i)' # EmptyKey
               /\ KeyIn(h, i)' = t <=> KeyIn(h, i) = t
    <3>1. i % Capacity(h) \in DOMAIN tables[h]
      BY CapacityOf
    <3> QED
      BY <2>2, <3>1 DEF KeyIn, Kept
  <2> QED
    BY <2>2, <2>3, <2>4
<1>3. \A h \in DOMAIN tables' : In(t, h)' => h \in DOMAIN tables
  BY DEF Kept
<1> QED
  BY <1>1, <1>2, <1>3

\* What is left of a thread that a step does not concern.
LEMMA PlacedKept ==
  ASSUME TableTyped, TableTyped', NEW t \in Callers, Kept(t), Placed(t), using'[t] = using[t]
  PROVE  Placed(t)'
<1>1. SUFFICES ASSUME NEW h \in DOMAIN tables', NEW s \in DOMAIN tables'[h], tables'[h][s].key = t
               PROVE  SlotOf(t, h, s)'
  BY DEF Placed
<1>2. h \in DOMAIN tables /\ DOMAIN tables'[h] = DOMAIN tables[h]
  BY <1>1, KeptEffect DEF In, Kept
<1>3. tables[h][s].key = t /\ tables'[h][s].producer = tables[h][s].producer
  BY <1>1, <1>2 DEF Kept
<1>4. SlotOf(t, h, s)
  BY <1>2, <1>3 DEF Placed
<1>5. PICK j \in Nat : /\ Home[t] <= j /\ s = j % Capacity(h)
                       /\ \A i \in Home[t]..j - 1 : KeyIn(h, i) # EmptyKey
  BY <1>4 DEF SlotOf
<1>6. s = j % Capacity(h)' /\ \A i \in Home[t]..j - 1 : KeyIn(h, i)' # EmptyKey
  <2>1. \A i \in Home[t]..j - 1 : i \in Nat
    BY HomesAreSlots
  <2> QED
    BY <1>2, <1>5, <2>1, KeptEffect
<1>7. \A r \in DOMAIN tables'[h] : tables'[h][r].key = t => r = s
  BY <1>2, <1>4 DEF SlotOf, Kept
<1> QED
  BY <1>3, <1>4, <1>5, <1>6, <1>7 DEF SlotOf

LEMMA PassedKept ==
  ASSUME TableTyped, TableTyped', NEW t \in Callers, Kept(t), Passed(t),
         tpc'[t] = tpc[t], probe'[t] = probe[t]
  PROVE  Passed(t)'
<1>1. ASSUME tpc[t] \in Searching \cup {"move", "insert"}
      PROVE  /\ probe[t].hash \in DOMAIN tables'
             /\ \A i \in Home[t]..probe[t].i - 1 : KeyIn(probe[t].hash, i)' # EmptyKey
             /\ tpc[t] \in Searching =>
                  \A i \in Home[t]..probe[t].i - 1 : KeyIn(probe[t].hash, i)' # t
  <2>1. PICK h \in DOMAIN tables : h = probe[t].hash
    BY <1>1 DEF Passed
  <2>2. \A i \in Home[t]..probe[t].i - 1 : i \in Nat
    BY HomesAreSlots DEF TableTyped, Probes
  <2>3. \A i \in Home[t]..probe[t].i - 1 : KeyIn(h, i)' # EmptyKey
    BY <1>1, <2>1, <2>2, KeptEffect DEF Passed
  <2>4. tpc[t] \in Searching => \A i \in Home[t]..probe[t].i - 1 : KeyIn(h, i)' # t
    BY <2>1, <2>2, KeptEffect DEF Passed
  <2> QED
    BY <2>1, <2>3, <2>4, KeptEffect DEF KeyIn, Capacity
<1> QED
  BY <1>1, KeptEffect DEF Passed

LEMMA ProducesKept ==
  ASSUME TableTyped, TableTyped', NEW t \in Callers, Kept(t), Produces(t),
         tpc'[t] = tpc[t], probe'[t] = probe[t], using'[t] = using[t],
         Len(inactive') >= Len(inactive)
  PROVE  Produces(t)'
<1>1. tpc[t] = "takeOver" => probe'[t].i <= Len(inactive')
  <2>1. probe[t].i \in Nat /\ Len(inactive) \in Nat /\ Len(inactive') \in Nat
    BY DEF TableTyped, Probes
  <2> QED
    BY <2>1 DEF Produces
<1> QED
  BY <1>1, KeptEffect DEF Produces

-----------------------------------------------------------------------------
\* What the steps have in common.

LEMMA GoOnEffect ==
  ASSUME TableTyped, NEW t \in Callers, NEW place \in Stages, NEW p \in Probes, GoOn(t, place, p)
  PROVE  /\ tpc' \in [Callers -> Stages] /\ probe' \in [Callers -> Probes]
         /\ tpc'[t] = place /\ probe'[t] = p
         /\ \A u \in Callers : u # t => tpc'[u] = tpc[u] /\ probe'[u] = probe[u]
BY DEF TableTyped, GoOn

LEMMA NoProbeTyped == NoProbe \in Probes
BY DEF NoProbe, Probes

LEMMA OfThread ==
  ASSUME TInv, NEW t \in Callers
  PROVE  /\ TableTyped /\ probe[t] \in Probes /\ tpc[t] \in Stages /\ using[t] \in Nat
         /\ Placed(t) /\ Passed(t) /\ Produces(t) /\ Apart(t) /\ Home[t] \in Nat
         /\ probe[t].i \in Nat /\ probe[t].hash \in Nat /\ probe[t].producer \in Nat
BY HomesAreSlots DEF TInv, TableTyped, Probes

\* Hashes that do not change, or that a new one is put in front of.
LEMMA SameTables ==
  ASSUME TableTyped, UNCHANGED tables, NEW t \in Callers
  PROVE  Kept(t)
BY DEF Kept, TableTyped

LEMMA MoreTables ==
  ASSUME TableTyped, NEW n \in Nat \ {0}, tables' = Append(tables, NewTable(n)),
         NEW t \in Callers
  PROVE  Kept(t) /\ tables' \in Seq(Hashes) /\ Len(tables') = Len(tables) + 1
<1>1. tables' \in Seq(Hashes) /\ Len(tables') = Len(tables) + 1
  BY NewTableTyped DEF TableTyped
<1>2. \A h \in DOMAIN tables : tables'[h] = tables[h]
  BY DEF TableTyped
<1>3. \A h \in DOMAIN tables' : h \notin DOMAIN tables => tables'[h] = NewTable(n)
  BY <1>1 DEF TableTyped
<1>4. \A s \in DOMAIN NewTable(n) : NewTable(n)[s].key = EmptyKey
  BY DEF NewTable
<1>5. \A h \in DOMAIN tables' : h \notin DOMAIN tables => ~In(t, h)'
  BY <1>3, <1>4, KeysApart DEF In
<1> QED
  BY <1>1, <1>2, <1>5, TablesNumbered DEF Kept

\* What changing slot s of hash h, for thread t, leaves of the hashes.
Written(t, h, s, k, p) ==
  /\ tables' \in Seq(Hashes) /\ Len(tables') = Len(tables)
  /\ \A g \in DOMAIN tables : DOMAIN tables'[g] = DOMAIN tables[g]
  /\ \A g \in DOMAIN tables : g # h => tables'[g] = tables[g]
  /\ tables'[h][s] = [key |-> k, producer |-> p]
  /\ \A r \in DOMAIN tables[h] : r # s => tables'[h][r] = tables[h][r]
  /\ \A u \in Callers : u # t => Kept(u)

\* A slot that t takes, or gives up: it was empty, given up or its own.
LEMMA SlotSet ==
  ASSUME TableTyped, NEW t \in Callers, NEW h \in DOMAIN tables, h = probe[t].hash,
         probe[t].i \in Nat, NEW k \in {t, ReusableKey}, NEW p \in Nat, SetSlot(t, k, p),
         KeyAt(t) \in {t, EmptyKey, ReusableKey}
  PROVE  SlotAt(t) \in DOMAIN tables[h] /\ Written(t, h, SlotAt(t), k, p)
<1>1. PICK s \in DOMAIN tables[h] : s = SlotAt(t)
  BY CapacityOf DEF SlotAt
<1> DEFINE slot == [key |-> k, producer |-> p]
           hash == [tables[h] EXCEPT ![s] = slot]
<1>2. tables' = [tables EXCEPT ![h] = hash]
  BY <1>1 DEF SetSlot
<1>3. slot \in Slots /\ slot.key = k
  BY DEF Slots, Keys
<1>4. hash \in Hashes
  <2>1. PICK n \in Nat \ {0} : tables[h] \in [0..n - 1 -> Slots]
    BY CapacityOf
  <2>2. hash \in [0..n - 1 -> Slots]
    BY <1>3, <2>1
  <2> QED
    BY <2>2 DEF Hashes
<1>5. /\ DOMAIN hash = DOMAIN tables[h] /\ hash[s] = slot
      /\ \A r \in DOMAIN tables[h] : r # s => hash[r] = tables[h][r]
  OBVIOUS
<1> HIDE DEF hash, slot
<1>6. tables' \in Seq(Hashes) /\ Len(tables') = Len(tables) /\ DOMAIN tables' = DOMAIN tables
      /\ tables'[h] = hash /\ \A g \in DOMAIN tables : g # h => tables'[g] = tables[g]
  BY <1>2, <1>4 DEF TableTyped
<1>7. ASSUME NEW u \in Callers, u # t PROVE Kept(u)
  <2>1. tables[h][s].key # u /\ slot.key # u /\ slot.key # EmptyKey
    BY <1>1, <1>3, <1>7, KeysApart DEF KeyAt
  <2>2. ASSUME NEW g \in DOMAIN tables
        PROVE  /\ DOMAIN tables'[g] = DOMAIN tables[g]
               /\ \A r \in DOMAIN tables[g] :
                    /\ tables'[g][r].key = u <=> tables[g][r].key = u
                    /\ tables[g][r].key = u => tables'[g][r].producer = tables[g][r].producer
                    /\ tables[g][r].key # EmptyKey => tables'[g][r].key # EmptyKey
    <3>1. CASE g # h
      BY <1>6, <3>1
    <3>2. CASE g = h
      BY <1>5, <1>6, <2>1, <3>2
    <3> QED
      BY <3>1, <3>2
  <2> QED
    BY <1>6, <2>2, TablesNumbered DEF Kept
<1>8. \A g \in DOMAIN tables : DOMAIN tables'[g] = DOMAIN tables[g]
  BY <1>5, <1>6
<1>9. /\ tables'[h][s] = [key |-> k, producer |-> p]
      /\ \A r \in DOMAIN tables[h] : r # s => tables'[h][r] = tables[h][r]
  BY <1>5, <1>6 DEF slot
<1>10. Written(t, h, s, k, p)
  BY <1>6, <1>7, <1>8, <1>9 DEF Written
<1> QED
  BY <1>1, <1>10

\* Who works with which producer stays as it is, but that t may work with none.
LEMMA ApartKept ==
  ASSUME TInv, NEW t \in Callers, \A u \in Callers : u # t => Working(u)' = Working(u),
         Working(t)' \subseteq Working(t), Len(inactive') = Len(inactive),
         \A u \in Callers : \A p \in Working(u)' : inactive'[p] = inactive[p]
  PROVE  \A u \in Callers : Apart(u)'
BY DEF TInv, Apart

\* The producer a thread was given first is the one it works with.
LEMMA UsingWorks ==
  ASSUME TInv, NEW t \in Callers, using[t] # 0
  PROVE  using[t] \in Working(t)
<1>1. probe[t].producer # 0 => probe[t].producer = using[t]
  BY OfThread DEF Produces, NotIn, Given
<1> QED
  BY <1>1 DEF Working

\* A step of t, of which what it leaves t itself remains to be shown.
LEMMA OwnStep ==
  ASSUME TInv, NEW t \in Callers, NEW place \in Stages, NEW p \in Probes, GoOn(t, place, p),
         TableTyped', Len(inactive') >= Len(inactive),
         \A u \in Callers : u # t => Kept(u) /\ using'[u] = using[u],
         Placed(t)', Passed(t)', Produces(t)', \A u \in Callers : Apart(u)'
  PROVE  TInv'
<1>1. \A u \in Callers : u # t => tpc'[u] = tpc[u] /\ probe'[u] = probe[u]
  BY GoOnEffect DEF TInv
<1>2. \A u \in Callers : u # t => Placed(u)' /\ Passed(u)' /\ Produces(u)'
  BY <1>1, PlacedKept, PassedKept, ProducesKept DEF TInv
<1> QED
  BY <1>2 DEF TInv

\* A step of t that changes no slot but adds at most a hash, and changes no
\* producer.
LEMMA OwnMove ==
  ASSUME TInv, NEW t \in Callers, NEW place \in Stages, NEW p \in Probes, GoOn(t, place, p),
         tables' \in Seq(Hashes), tables' # <<>>, \A u \in Callers : Kept(u),
         hashCount' \in Int, resizing' \in BOOLEAN, UNCHANGED <<inactive, using>>,
         p.producer = 0 \/ p.producer = probe[t].producer \/ p.producer = using[t],
         Passed(t)', Produces(t)'
  PROVE  TInv'
<1>1. /\ tpc' \in [Callers -> Stages] /\ probe' \in [Callers -> Probes]
      /\ tpc'[t] = place /\ probe'[t] = p
      /\ \A u \in Callers : u # t => tpc'[u] = tpc[u] /\ probe'[u] = probe[u]
  BY GoOnEffect DEF TInv
<1>2. TableTyped'
  BY <1>1 DEF TInv, TableTyped
<1>3. Placed(t)'
  BY <1>2, PlacedKept DEF TInv
<1>4. \A u \in Callers : u # t => Working(u)' = Working(u)
  BY <1>1 DEF Working
<1>5. Working(t)' \subseteq Working(t)
  <2>1. using[t] # 0 => using[t] \in Working(t)
    BY UsingWorks
  <2>2. CASE p.producer = 0
    <3>1. Working(t)' = {using[t]} \ {0}
      BY <1>1, <2>2 DEF Working
    <3> QED
      BY <2>1, <3>1
  <2>3. CASE p.producer # 0
    <3>1. Working(t)' = {p.producer}
      BY <1>1, <2>3 DEF Working
    <3> QED
      BY <2>1, <2>3, <3>1 DEF Working
  <2> QED
    BY <2>2, <2>3
<1>6. \A u \in Callers : Apart(u)'
  BY <1>4, <1>5, ApartKept
<1>7. Len(inactive') >= Len(inactive)
  BY DEF TInv, TableTyped
<1> QED
  BY <1>2, <1>3, <1>6, <1>7, OwnStep

-----------------------------------------------------------------------------
\* Searching.

\* A search that meets an empty slot has shown that t is not in the hash.
LEMMA NotThere ==
  ASSUME TInv, NEW t \in Callers, NEW h \in DOMAIN tables, NEW i \in Nat,
         \A k \in Home[t]..i - 1 : KeyIn(h, k) # t, KeyIn(h, i) = EmptyKey, Home[t] <= i
  PROVE  ~In(t, h)
<1>1. SUFFICES ASSUME NEW s \in DOMAIN tables[h], tables[h][s].key = t PROVE FALSE
  BY DEF In
<1>2. PICK j \in Nat : /\ Home[t] <= j /\ s = j % Capacity(h)
                       /\ \A k \in Home[t]..j - 1 : KeyIn(h, k) # EmptyKey
  BY <1>1, OfThread DEF Placed, SlotOf
<1>3. KeyIn(h, j) = t
  BY <1>1, <1>2 DEF KeyIn
<1>4. ~(j < i) /\ ~(i < j) /\ j # i
  BY <1>2, <1>3, OfThread, KeysApart
<1> QED
  BY <1>2, <1>4

LEMMA SameKeys ==
  ASSUME UNCHANGED tables
  PROVE  /\ DOMAIN tables' = DOMAIN tables
         /\ \A h, i : KeyIn(h, i)' = KeyIn(h, i)
         /\ \A h : Capacity(h)' = Capacity(h)
         /\ \A t, h : In(t, h)' <=> In(t, h)
BY DEF KeyIn, Capacity, In

LEMMA CallStep ==
  ASSUME TInv, NEW t \in Callers, Call(t)
  PROVE  TInv'
<1> DEFINE p == [NoProbe EXCEPT !.main = Len(tables), !.hash = Len(tables), !.i = Home[t]]
<1>1. /\ tpc[t] = "out" /\ UNCHANGED <<slotVars, inactive, using, exiting, exits>>
      /\ GoOn(t, "find", p) /\ "find" \in Stages
  BY DEF Call, Stages, Searching
<1>2. p \in Probes /\ p.main = Len(tables) /\ p.hash = Len(tables) /\ p.i = Home[t] /\ p.producer = 0
  BY NoProbeTyped, OfThread, TablesNumbered DEF Probes, NoProbe
<1> HIDE DEF p
<1>3. tpc'[t] = "find" /\ probe'[t] = p
  BY <1>1, <1>2, GoOnEffect, OfThread
<1>4. Len(tables) \in DOMAIN tables
  BY OfThread, TablesNumbered
<1>5. Passed(t)'
  BY <1>1, <1>2, <1>3, <1>4, SameKeys, OfThread, TablesNumbered
     DEF Passed, Searching, NotIn, slotVars
<1>6. Produces(t)'
  BY <1>1, <1>2, <1>3, SameKeys, OfThread DEF Produces, NotIn, Given, slotVars
<1> QED
  BY <1>1, <1>2, <1>5, <1>6, OwnMove, SameTables DEF slotVars, TInv, TableTyped

LEMMA FindStep ==
  ASSUME TInv, NEW t \in Callers, Find(t)
  PROVE  TInv'
<1> DEFINE p == probe[t]
<1>1. PICK h \in DOMAIN tables, i \in Nat : h = probe[t].hash /\ i = probe[t].i
  BY OfThread DEF Find, Passed, Searching
<1>2. /\ tpc[t] = "find" /\ UNCHANGED <<slotVars, ownVars>>
      /\ UNCHANGED <<tables, hashCount, resizing, inactive, using>>
  BY DEF Find, slotVars, ownVars
<1>3. /\ p \in Probes /\ p.main \in DOMAIN tables /\ h <= p.main /\ Home[t] <= i
      /\ \A k \in Home[t]..i - 1 : KeyIn(h, k) # EmptyKey /\ KeyIn(h, k) # t
      /\ \A g \in DOMAIN tables : g > h => ~In(t, g)
      /\ p.producer = 0
  BY <1>1, <1>2, OfThread DEF Passed, Produces, Searching, NotIn, Given
<1>4. KeyAt(t) = KeyIn(h, i)
  BY <1>1 DEF KeyAt, SlotAt, KeyIn
<1>5. PICK s \in DOMAIN tables[h] : s = SlotAt(t)
  BY <1>1, CapacityOf, OfThread DEF SlotAt
<1>6. \A g \in DOMAIN tables : g \in Nat
  BY TablesNumbered, OfThread
<1> DEFINE Found == [p EXCEPT !.producer = tables[h][s].producer]
<1>7. CASE KeyAt(t) = t
  <2>1. /\ tables[h][s].producer = using[t] /\ using[t] # 0 /\ In(t, h)
    BY <1>1, <1>5, <1>7, OfThread DEF Placed, SlotOf, KeyAt, In
  <2>2. CASE h = p.main
    <3>1. GoOn(t, "return", Found) /\ "return" \in Stages
      <4>1. p.hash = p.main /\ Found = [p EXCEPT !.producer = tables[p.hash][SlotAt(t)].producer]
        BY <1>1, <1>5, <2>2
      <4> HIDE DEF Found
      <4> QED
        BY <1>7, <4>1, KeysApart DEF Find, Stages, Given
    <3>2. Found \in Probes /\ Found.producer = using[t]
      BY <1>3, <2>1, OfThread DEF Probes
    <3> HIDE DEF Found
    <3>3. tpc'[t] = "return" /\ probe'[t] = Found
      BY <3>1, <3>2, GoOnEffect, OfThread
    <3>4. Passed(t)'
      BY <3>3 DEF Passed, Searching, NotIn
    <3>5. Produces(t)'
      BY <1>2, <2>1, <3>2, <3>3, SameKeys DEF Produces, NotIn, Given
    <3> QED
      BY <1>2, <3>1, <3>2, <3>4, <3>5, OwnMove, SameTables DEF TInv, TableTyped
  <2>3. CASE h # p.main
    <3> DEFINE q == [Found EXCEPT !.hash = p.main, !.i = Home[t]]
    <3>1. GoOn(t, "move", q) /\ "move" \in Stages
      <4>1. p.hash # p.main
            /\ q = [[p EXCEPT !.producer = tables[p.hash][SlotAt(t)].producer]
                     EXCEPT !.hash = p.main, !.i = Home[t]]
        BY <1>1, <1>5, <2>3
      <4> HIDE DEF q
      <4> QED
        BY <1>7, <4>1, KeysApart DEF Find, Stages, Given
    <3>2. q \in Probes /\ q.producer = using[t] /\ q.hash = p.main /\ q.i = Home[t]
      BY <1>3, <2>1, <1>6, OfThread DEF Probes
    <3> HIDE DEF q
    <3>3. tpc'[t] = "move" /\ probe'[t] = q
      BY <3>1, <3>2, GoOnEffect, OfThread
    <3>4. \A g \in DOMAIN tables : g >= p.main => ~In(t, g)
      BY <1>3, <1>6, <2>3
    <3>5. Passed(t)'
      BY <1>2, <1>3, <3>2, <3>3, <3>4, SameKeys, OfThread DEF Passed, Searching, NotIn
    <3>6. Produces(t)'
      BY <1>2, <2>1, <3>2, <3>3, SameKeys DEF Produces, NotIn, Given
    <3> QED
      BY <1>2, <3>1, <3>2, <3>5, <3>6, OwnMove, SameTables DEF TInv, TableTyped
  <2> QED
    BY <2>2, <2>3
<1>8. CASE KeyAt(t) = EmptyKey
  <2>0. KeyAt(t) # t
    BY <1>8, KeysApart
  <2>1. ~In(t, h)
    BY <1>3, <1>4, <1>8, NotThere
  <2>2. NotFoundIn(t, p)
    BY <1>8, <2>0 DEF Find
  <2>3. CASE h > 1
    <3> DEFINE q == [p EXCEPT !.hash = h - 1, !.i = Home[t]]
    <3>1. GoOn(t, "find", q) /\ "find" \in Stages
      BY <1>1, <2>2, <2>3 DEF NotFoundIn, GoProbe, Stages, Searching
    <3>2. /\ q \in Probes /\ q.producer = 0 /\ q.hash = h - 1 /\ q.i = Home[t]
          /\ q.main = p.main /\ h - 1 \in DOMAIN tables
      <4>1. h - 1 \in Nat /\ h - 1 \in DOMAIN tables
        BY <1>6, <2>3, OfThread, TablesNumbered
      <4> QED
        BY <1>3, <4>1, OfThread DEF Probes
    <3> HIDE DEF q
    <3>3. tpc'[t] = "find" /\ probe'[t] = q
      BY <3>1, <3>2, GoOnEffect, OfThread
    <3>4. \A g \in DOMAIN tables : g > h - 1 => ~In(t, g)
      BY <1>3, <1>6, <2>1
    <3>5. Passed(t)'
      BY <1>2, <1>3, <1>6, <3>2, <3>3, <3>4, SameKeys, OfThread DEF Passed, Searching, NotIn
    <3>6. Produces(t)'
      BY <1>2, <3>2, <3>3, SameKeys, OfThread DEF Produces, NotIn, Given
    <3> QED
      BY <1>2, <3>1, <3>2, <3>5, <3>6, OwnMove, SameTables DEF TInv, TableTyped
  <2>4. CASE ~(h > 1)
    <3>1. GoOn(t, "count", p) /\ "count" \in Stages
      BY <1>1, <2>2, <2>4 DEF NotFoundIn, Stages, NotIn
    <3>2. tpc'[t] = "count" /\ probe'[t] = p
      BY <1>3, <3>1, GoOnEffect, OfThread
    <3>3. \A g \in DOMAIN tables : ~In(t, g)
      BY <1>3, <1>6, <2>1, <2>4, OfThread, TablesNumbered
    <3>4. using[t] = 0
      BY <1>2, <3>3, OfThread DEF Produces
    <3>5. Passed(t)'
      BY <1>2, <1>3, <3>2, <3>3, SameKeys DEF Passed, Searching, NotIn
    <3>6. Produces(t)'
      BY <1>2, <1>3, <3>2, <3>4 DEF Produces, NotIn, Given
    <3> QED
      BY <1>2, <1>3, <3>1, <3>5, <3>6, OwnMove, SameTables DEF TInv, TableTyped
  <2> QED
    BY <2>3, <2>4
<1>9. CASE KeyAt(t) # t /\ KeyAt(t) # EmptyKey
  <2> DEFINE q == [p EXCEPT !.i = p.i + 1]
  <2>1. GoOn(t, "find", q) /\ "find" \in Stages
    BY <1>2, <1>9 DEF Find, NextSlot, Stages, Searching
  <2>2. q \in Probes /\ q.producer = 0 /\ q.hash = h /\ q.i = i + 1 /\ q.main = p.main
    BY <1>1, <1>3 DEF Probes
  <2> HIDE DEF q
  <2>3. tpc'[t] = "find" /\ probe'[t] = q
    BY <2>1, <2>2, GoOnEffect, OfThread
  <2>4. \A k \in Home[t]..(i + 1) - 1 : KeyIn(h, k) # EmptyKey /\ KeyIn(h, k) # t
    BY <1>3, <1>4, <1>9, OfThread
  <2>5. Passed(t)'
    BY <1>2, <1>3, <2>2, <2>3, <2>4, SameKeys, OfThread DEF Passed, Searching, NotIn
  <2>6. Produces(t)'
    BY <1>2, <2>2, <2>3, SameKeys, OfThread DEF Produces, NotIn, Given
  <2> QED
    BY <1>2, <2>1, <2>2, <2>5, <2>6, OwnMove, SameTables DEF TInv, TableTyped
<1> QED
  BY <1>7, <1>8, <1>9

-----------------------------------------------------------------------------
\* Adding the thread to a hash.

\* The exchange of Move and Insert puts t where no empty slot comes before it.
LEMMA SlotTaken ==
  ASSUME TInv, NEW t \in Callers, tpc[t] \in {"move", "insert"},
         KeyAt(t) \in {EmptyKey, ReusableKey}, SetSlot(t, t, probe[t].producer),
         UNCHANGED <<inactive, using, resizing, hashCount>>,
         NEW place \in {"return", "uncount"}, GoOn(t, place, probe[t])
  PROVE  TInv'
<1>1. PICK h \in DOMAIN tables, i \in Nat, p \in Nat :
        h = probe[t].hash /\ i = probe[t].i /\ p = probe[t].producer
  BY OfThread DEF Passed
<1>2. /\ p = using[t] /\ p # 0 /\ Home[t] <= i
      /\ \A k \in Home[t]..i - 1 : KeyIn(h, k) # EmptyKey
      /\ ~In(t, h)
  <2>1. ~In(t, h)
    BY <1>1, OfThread, TablesNumbered DEF Passed
  <2> QED
    BY <1>1, <2>1, OfThread DEF Passed, Produces, Given
<1>3. PICK s \in DOMAIN tables[h] : s = SlotAt(t) /\ s = i % Capacity(h)
  BY <1>1, CapacityOf, OfThread DEF SlotAt
<1>4. /\ tables' \in Seq(Hashes) /\ Len(tables') = Len(tables)
      /\ \A g \in DOMAIN tables : DOMAIN tables'[g] = DOMAIN tables[g]
      /\ \A g \in DOMAIN tables : g # h => tables'[g] = tables[g]
      /\ tables'[h][s] = [key |-> t, producer |-> p]
      /\ \A r \in DOMAIN tables[h] : r # s => tables'[h][r] = tables[h][r]
      /\ \A u \in Callers : u # t => Kept(u)
  <2>1. /\ TableTyped /\ h = probe[t].hash /\ probe[t].i \in Nat /\ t \in {t, ReusableKey}
        /\ SetSlot(t, t, p) /\ KeyAt(t) \in {t, EmptyKey, ReusableKey}
    BY <1>1, OfThread
  <2>2. Written(t, h, SlotAt(t), t, p)
    BY <2>1, SlotSet
  <2> QED
    BY <1>3, <2>2 DEF Written
<1>5. /\ place \in Stages /\ probe[t] \in Probes
      /\ tpc' \in [Callers -> Stages] /\ probe' \in [Callers -> Probes]
      /\ tpc'[t] = place /\ probe'[t] = probe[t]
      /\ \A u \in Callers : u # t => tpc'[u] = tpc[u] /\ probe'[u] = probe[u]
  BY GoOnEffect, OfThread DEF Stages, Given
<1>6. TableTyped'
  BY <1>4, <1>5, OfThread, TablesNumbered DEF TableTyped
<1>7. DOMAIN tables' = DOMAIN tables
  BY <1>4, TablesNumbered, OfThread DEF TableTyped
<1>8. Placed(t)'
  <2>1. SUFFICES ASSUME NEW g \in DOMAIN tables, NEW r \in DOMAIN tables[g], tables'[g][r].key = t
                 PROVE  SlotOf(t, g, r)'
    BY <1>4, <1>7 DEF Placed
  <2>2. Capacity(g)' = Capacity(g)
    BY <1>4 DEF Capacity
  <2>3. CASE g = h
    <3>1. r = s
      <4>1. SUFFICES ASSUME r # s PROVE FALSE
        OBVIOUS
      <4>2. r \in DOMAIN tables[h] /\ tables'[h][r] = tables[h][r]
        BY <1>4, <2>3, <4>1
      <4>3. tables[h][r].key = t
        BY <2>1, <2>3, <4>2
      <4> QED
        BY <1>2, <4>2, <4>3 DEF In
    <3>2. tables'[g][r].producer = using'[t] /\ using'[t] # 0
      BY <1>2, <1>4, <2>3, <3>1
    <3>3. \A q \in DOMAIN tables'[g] : tables'[g][q].key = t => q = r
      BY <1>2, <1>4, <2>3, <3>1 DEF In
    <3>4. ASSUME NEW k \in Home[t]..i - 1 PROVE KeyIn(g, k)' # EmptyKey
      <4>1. PICK q \in DOMAIN tables[h] : q = k % Capacity(h)
        BY CapacityOf, OfThread
      <4>2. tables[h][q].key # EmptyKey
        BY <1>2, <3>4, <4>1 DEF KeyIn
      <4>3. tables'[h][q].key # EmptyKey
        BY <1>4, <4>2, KeysApart
      <4> QED
        BY <2>2, <2>3, <4>1, <4>3 DEF KeyIn
    <3>5. r = i % Capacity(g)'
      BY <1>3, <2>2, <2>3, <3>1
    <3> QED
      BY <1>2, <3>2, <3>3, <3>4, <3>5 DEF SlotOf
  <2>4. CASE g # h
    <3>1. tables'[g] = tables[g]
      BY <1>4, <2>4
    <3>2. SlotOf(t, g, r)
      BY <2>1, <3>1, OfThread DEF Placed
    <3>3. \A k : KeyIn(g, k)' = KeyIn(g, k)
      BY <2>2, <3>1 DEF KeyIn
    <3> QED
      BY <2>2, <3>1, <3>2, <3>3 DEF SlotOf
  <2> QED
    BY <2>3, <2>4
<1>9. Passed(t)'
  BY <1>5 DEF Passed, Searching, NotIn
<1>10. In(t, h)'
  BY <1>3, <1>4 DEF In
<1>11. Produces(t)'
  BY <1>1, <1>2, <1>5, <1>7, <1>10 DEF Produces, NotIn, Given
<1>12. \A u \in Callers : Working(u)' = Working(u)
  BY <1>5 DEF Working
<1>13. \A u \in Callers : Apart(u)'
  BY <1>12, ApartKept
<1>14. Len(inactive') >= Len(inactive)
  BY OfThread DEF TableTyped
<1> QED
  BY <1>4, <1>5, <1>6, <1>8, <1>9, <1>11, <1>13, <1>14, OwnStep

\* A slot that is taken is passed.
LEMMA SlotPassed ==
  ASSUME TInv, NEW t \in Callers, tpc[t] \in {"move", "insert"},
         KeyAt(t) \notin {EmptyKey, ReusableKey}, NextSlot(t), UNCHANGED <<slotVars, ownVars>>
  PROVE  TInv'
<1>1. PICK h \in DOMAIN tables, i \in Nat : h = probe[t].hash /\ i = probe[t].i
  BY OfThread DEF Passed
<1> DEFINE q == [probe[t] EXCEPT !.i = @ + 1]
<1>2. GoOn(t, tpc[t], q) /\ UNCHANGED <<tables, hashCount, resizing, inactive, using>>
  BY DEF NextSlot, slotVars, ownVars
<1>3. /\ q \in Probes /\ q.hash = h /\ q.i = i + 1 /\ q.producer = probe[t].producer
      /\ q.main = probe[t].main
  BY <1>1, OfThread DEF Probes
<1> HIDE DEF q
<1>4. tpc'[t] = tpc[t] /\ probe'[t] = q
  BY <1>2, <1>3, GoOnEffect, OfThread
<1>5. KeyIn(h, i) # EmptyKey
  BY <1>1 DEF KeyAt, SlotAt, KeyIn
<1>6. \A k \in Home[t]..(i + 1) - 1 : KeyIn(h, k) # EmptyKey
  BY <1>1, <1>5, OfThread DEF Passed
<1>7. Home[t] <= i + 1
  BY <1>1, OfThread DEF Passed
<1>8. Passed(t)'
  BY <1>1, <1>2, <1>3, <1>4, <1>6, <1>7, SameKeys, OfThread DEF Passed, Searching, NotIn
<1>9. Produces(t)'
  BY <1>2, <1>3, <1>4, SameKeys, OfThread DEF Produces, NotIn, Given
<1> QED
  BY <1>2, <1>3, <1>8, <1>9, OwnMove, SameTables, OfThread DEF TableTyped

LEMMA MoveStep ==
  ASSUME TInv, NEW t \in Callers, Move(t)
  PROVE  TInv'
<1>1. CASE KeyAt(t) \in {EmptyKey, ReusableKey}
  BY <1>1, SlotTaken DEF Move, ownVars
<1>2. CASE KeyAt(t) \notin {EmptyKey, ReusableKey}
  BY <1>2, SlotPassed DEF Move, slotVars
<1> QED
  BY <1>1, <1>2

LEMMA InsertStep ==
  ASSUME TInv, NEW t \in Callers, Insert(t)
  PROVE  TInv'
<1>1. CASE KeyAt(t) \in {EmptyKey, ReusableKey}
  BY <1>1, SlotTaken DEF Insert, ownVars
<1>2. CASE KeyAt(t) \notin {EmptyKey, ReusableKey}
  BY <1>2, SlotPassed DEF Insert, slotVars
<1> QED
  BY <1>1, <1>2

-----------------------------------------------------------------------------
\* The steps of a thread that is in no hash.

\* A thread that goes from one such place to another, or gives up, knowing a hash.
LEMMA NotInStep ==
  ASSUME TInv, NEW t \in Callers, tpc[t] \in NotIn, NEW place \in NotIn \cup {"out"},
         NEW p \in Probes, GoOn(t, place, p), p.main \in DOMAIN tables' \/ place = "out",
         p.producer = 0, place # "subscribe", place = "takeOver" => p.i <= Len(inactive),
         tables' \in Seq(Hashes), tables' # <<>>, \A u \in Callers : Kept(u),
         hashCount' \in Int, resizing' \in BOOLEAN, UNCHANGED <<inactive, using>>
  PROVE  TInv'
<1>1. place \in Stages
  BY DEF Stages
<1>2. tpc'[t] = place /\ probe'[t] = p
  BY <1>1, GoOnEffect, OfThread
<1>3. (\A h \in DOMAIN tables : ~In(t, h)) /\ using[t] = 0
  BY OfThread DEF Passed, Produces
<1>4. \A h \in DOMAIN tables' : ~In(t, h)'
  <2>1. ASSUME NEW h \in DOMAIN tables', In(t, h)' PROVE FALSE
    <3>1. h \in DOMAIN tables /\ DOMAIN tables'[h] = DOMAIN tables[h]
      BY <2>1 DEF Kept
    <3>2. In(t, h)
      BY <2>1, <3>1 DEF Kept, In
    <3> QED
      BY <1>3, <3>1, <3>2
  <2> QED
    BY <2>1
<1>5. Passed(t)'
  BY <1>2, <1>4 DEF Passed, Searching, NotIn
<1>6. Produces(t)'
  BY <1>2, <1>3 DEF Produces, NotIn, Given
<1> QED
  BY <1>1, <1>5, <1>6, OwnMove

\* What is known at those places.
LEMMA OfNotIn ==
  ASSUME TInv, NEW t \in Callers, tpc[t] \in NotIn, tpc[t] # "subscribe"
  PROVE  /\ probe[t].producer = 0 /\ probe[t].main \in DOMAIN tables
         /\ tables \in Seq(Hashes) /\ tables # <<>> /\ hashCount \in Int /\ resizing \in BOOLEAN
         /\ Len(tables) \in DOMAIN tables /\ Len(tables) \in Nat /\ probe[t].count \in Int
         /\ Len(inactive) \in Nat /\ probe[t] \in Probes /\ \A h \in DOMAIN tables : h \in Nat
BY OfThread, TablesNumbered DEF Passed, Produces, NotIn, Given, TableTyped, Probes

LEMMA CountInStep ==
  ASSUME TInv, NEW t \in Callers, CountIn(t)
  PROVE  TInv'
<1> DEFINE p == [probe[t] EXCEPT !.count = hashCount + 1]
<1>1. /\ tpc[t] = "count" /\ GoOn(t, "room", p) /\ hashCount' = hashCount + 1
      /\ UNCHANGED <<tables, resizing, inactive, using>>
  BY DEF CountIn, ownVars
<1>2. p \in Probes /\ p.main = probe[t].main /\ p.producer = probe[t].producer
  <2>1. hashCount + 1 \in Int /\ probe[t] \in Probes
    BY <1>1, OfNotIn DEF NotIn
  <2> QED
    BY <2>1 DEF Probes
<1> HIDE DEF p
<1> QED
  BY <1>1, <1>2, OfNotIn, NotInStep, SameTables, OfThread DEF NotIn

\* Where a thread goes on that needs no larger hash.
LEMMA GoInsertOrWaitStep ==
  ASSUME TInv, NEW t \in Callers, tpc[t] \in {"room", "resize"}, NEW p \in Probes,
         p.main \in DOMAIN tables, p.producer = 0, GoInsertOrWait(t, p),
         UNCHANGED <<tables, hashCount, inactive, using>>, resizing' \in BOOLEAN
  PROVE  TInv'
<1>1. CASE GoOn(t, "wait", p)
  BY <1>1, OfNotIn, NotInStep, SameTables, OfThread DEF NotIn
<1>2. CASE GoOn(t, "takeOver", [p EXCEPT !.i = Len(inactive)])
  <2> DEFINE q == [p EXCEPT !.i = Len(inactive)]
  <2>1. q \in Probes /\ q.main = p.main /\ q.producer = 0 /\ q.i <= Len(inactive)
    <3>1. Len(inactive) \in Nat
      BY OfNotIn DEF NotIn
    <3> QED
      BY <3>1 DEF Probes
  <2>2. GoOn(t, "takeOver", q)
    BY <1>2
  <2> HIDE DEF q
  <2> QED
    BY <2>1, <2>2, OfNotIn, NotInStep, SameTables, OfThread DEF NotIn
<1> QED
  BY <1>1, <1>2 DEF GoInsertOrWait

LEMMA TestAndSetStep ==
  ASSUME TInv, NEW t \in Callers, TestAndSet(t)
  PROVE  TInv'
<1>1. tpc[t] = "room" /\ UNCHANGED <<tables, hashCount, inactive, using>>
  BY DEF TestAndSet, ownVars
<1>2. CASE resizing' = TRUE /\ GoOn(t, "resize", probe[t])
  BY <1>1, <1>2, OfNotIn, NotInStep, SameTables, OfThread DEF NotIn
<1>3. CASE GoInsertOrWait(t, probe[t]) /\ UNCHANGED resizing
  BY <1>1, <1>3, OfNotIn, GoInsertOrWaitStep DEF NotIn
<1> QED
  BY <1>2, <1>3 DEF TestAndSet

LEMMA ResizeStep ==
  ASSUME TInv, NEW t \in Callers, Resize(t)
  PROVE  TInv'
<1> DEFINE newest == Len(tables)
<1>1. /\ tpc[t] = "resize" /\ resizing' = FALSE /\ UNCHANGED <<hashCount, inactive, using>>
      /\ tpc[t] \in NotIn
  BY DEF Resize, ownVars, NotIn
<1>2. CASE HalfFull(probe[t].count, Capacity(newest))
  <2>1. PICK room \in NewCapacities(probe[t].count, Capacity(newest)) :
          tables' = Append(tables, NewTable(room))
    BY <1>2 DEF Resize
  <2>2. room \in Nat \ {0}
    BY <2>1 DEF NewCapacities
  <2>3. /\ \A u \in Callers : Kept(u)
        /\ tables' \in Seq(Hashes) /\ Len(tables') = newest + 1
    BY <2>1, <2>2, MoreTables, OfThread
  <2> DEFINE q == [probe[t] EXCEPT !.main = newest + 1, !.i = Len(inactive)]
  <2>4. GoOn(t, "takeOver", q)
    BY <1>2 DEF Resize
  <2>5. q \in Probes /\ q.main = newest + 1 /\ q.producer = 0 /\ q.i <= Len(inactive)
    <3>1. newest + 1 \in Nat /\ Len(inactive) \in Nat /\ probe[t] \in Probes /\ probe[t].producer = 0
      BY <1>1, OfNotIn
    <3>2. PICK n \in Nat, i \in Nat : n = newest + 1 /\ i = Len(inactive)
      BY <3>1
    <3>3. q = [probe[t] EXCEPT !.main = n, !.i = i]
      BY <3>2
    <3>4. q \in Probes /\ q.main = n /\ q.producer = 0 /\ q.i = i
      BY <3>1, <3>3 DEF Probes
    <3> QED
      BY <3>2, <3>4
  <2> HIDE DEF q
  <2>6. q.main \in DOMAIN tables' /\ tables' # <<>>
    BY <1>1, <2>3, <2>5, OfNotIn
  <2> QED
    BY <1>1, <2>3, <2>4, <2>5, <2>6, OfNotIn, NotInStep DEF NotIn
<1>3. CASE ~HalfFull(probe[t].count, Capacity(newest))
  <2> DEFINE q == [probe[t] EXCEPT !.main = newest]
  <2>1. GoInsertOrWait(t, q) /\ UNCHANGED tables
    BY <1>3 DEF Resize
  <2>2. q \in Probes /\ q.main \in DOMAIN tables /\ q.producer = 0
    BY <1>1, OfNotIn DEF Probes
  <2> HIDE DEF q
  <2> QED
    BY <1>1, <2>1, <2>2, GoInsertOrWaitStep
<1> QED
  BY <1>2, <1>3

\* Without memory the thread goes away empty-handed.
LEMMA FailedStep ==
  ASSUME TInv, NEW t \in Callers, ResizeFails(t) \/ CreateFails(t)
  PROVE  TInv'
<1>1. /\ tpc[t] \in NotIn /\ tpc[t] # "subscribe" /\ GoOn(t, "out", NoProbe)
      /\ hashCount' = hashCount - 1 /\ (resizing' = FALSE \/ resizing' = resizing)
      /\ UNCHANGED <<tables, inactive, using>>
  BY DEF ResizeFails, CreateFails, ownVars, NotIn
<1>2. NoProbe \in Probes /\ NoProbe.producer = 0
  BY NoProbeTyped DEF NoProbe
<1>3. hashCount' \in Int /\ resizing' \in BOOLEAN
  <2>1. hashCount \in Int /\ resizing \in BOOLEAN
    BY <1>1, OfNotIn
  <2>2. hashCount' \in Int
    BY <1>1, <2>1
  <2>3. resizing' \in BOOLEAN
    BY <1>1, <2>1
  <2> QED
    BY <2>2, <2>3
<1>4. tables' \in Seq(Hashes) /\ tables' # <<>> /\ \A u \in Callers : Kept(u)
  BY <1>1, OfNotIn, SameTables, OfThread
<1> QED
  BY <1>1, <1>2, <1>3, <1>4, NotInStep

LEMMA WaitForTableStep ==
  ASSUME TInv, NEW t \in Callers, WaitForTable(t)
  PROVE  TInv'
<1> DEFINE p == [probe[t] EXCEPT !.main = Len(tables)]
<1>1. /\ tpc[t] = "wait" /\ GoOn(t, "room", p)
      /\ UNCHANGED <<tables, hashCount, resizing, inactive, using>>
  BY DEF WaitForTable, ownVars, slotVars
<1>2. p \in Probes /\ p.main \in DOMAIN tables /\ p.producer = 0
  BY <1>1, OfNotIn DEF NotIn, Probes
<1> HIDE DEF p
<1> QED
  BY <1>1, <1>2, OfNotIn, NotInStep, SameTables, OfThread DEF NotIn

\* A producer that nobody works with becomes that of t.
LEMMA ClaimStep ==
  ASSUME TInv, NEW t \in Callers, tpc[t] = "takeOver", NEW producer \in Nat \ {0},
         GoInsert(t, producer), UNCHANGED <<slotVars, using>>,
         inactive' \in Seq(BOOLEAN), Len(inactive') >= Len(inactive),
         producer \in 1..Len(inactive'), ~inactive'[producer],
         \A q \in 1..Len(inactive) : q # producer => inactive'[q] = inactive[q],
         \A u \in Callers : producer \notin Working(u)
  PROVE  TInv'
<1> DEFINE p == [probe[t] EXCEPT !.producer = producer, !.hash = probe[t].main, !.i = Home[t]]
<1>1. GoOn(t, "subscribe", p) /\ UNCHANGED <<tables, hashCount, resizing>> /\ "subscribe" \in Stages
  BY DEF GoInsert, slotVars, Stages, NotIn
<1>2. /\ p \in Probes /\ p.main = probe[t].main /\ p.producer = producer
      /\ p.hash = probe[t].main /\ p.i = Home[t]
  BY OfNotIn, OfThread DEF NotIn, Probes
<1>3. probe[t].main \in DOMAIN tables /\ using[t] = 0 /\ \A h \in DOMAIN tables : ~In(t, h)
  BY OfThread DEF Passed, Produces, NotIn
<1> HIDE DEF p
<1>4. /\ tpc' \in [Callers -> Stages] /\ probe' \in [Callers -> Probes]
      /\ tpc'[t] = "subscribe" /\ probe'[t] = p
      /\ \A u \in Callers : u # t => tpc'[u] = tpc[u] /\ probe'[u] = probe[u]
  BY <1>1, <1>2, GoOnEffect, OfThread
<1>5. TableTyped'
  BY <1>1, <1>4, OfThread DEF TableTyped
<1>6. \A u \in Callers : Kept(u)
  BY <1>1, SameTables, OfThread
<1>7. Placed(t)'
  BY <1>5, <1>6, PlacedKept, OfThread
<1>8. Passed(t)'
  BY <1>1, <1>2, <1>3, <1>4, SameKeys DEF Passed, Searching, NotIn
<1>9. Produces(t)'
  BY <1>2, <1>3, <1>4 DEF Produces, NotIn, Given
<1>10. \A u \in Callers : Working(u)' = IF u = t THEN {producer} ELSE Working(u)
  BY <1>2, <1>4 DEF Working
<1>11. \A u \in Callers : Apart(u)'
  <2>1. ASSUME NEW u \in Callers PROVE \A v \in Callers \ {u} : Working(u)' \cap Working(v)' = {}
    BY <1>10, OfThread DEF Apart
  <2>2. ASSUME NEW u \in Callers, NEW q \in Working(u)'
        PROVE  q \in 1..Len(inactive') /\ ~inactive'[q]
    <3>1. Len(inactive) \in Nat /\ Len(inactive') \in Nat
      BY OfThread DEF TableTyped
    <3>2. CASE u = t
      BY <1>10, <2>2, <3>2
    <3>3. CASE u # t
      <4>1. q \in Working(u)
        BY <1>10, <2>2, <3>3
      <4>2. q # producer /\ q \in 1..Len(inactive) /\ ~inactive[q]
        BY <4>1, OfThread DEF Apart
      <4> QED
        BY <3>1, <4>2
    <3> QED
      BY <3>2, <3>3
  <2> QED
    BY <2>1, <2>2 DEF Apart
<1>12. TableTyped' /\ Len(inactive') >= Len(inactive)
  BY <1>5
<1> QED
  BY <1>1, <1>2, <1>6, <1>7, <1>8, <1>9, <1>11, <1>12, OwnStep

LEMMA TakeOverStep ==
  ASSUME TInv, NEW t \in Callers, TakeOver(t)
  PROVE  TInv'
<1>1. PICK i \in Nat : i = probe[t].i
  BY OfThread
<1>2. tpc[t] = "takeOver" /\ i > 0 /\ UNCHANGED <<slotVars, using>>
  BY <1>1 DEF TakeOver
<1>3. i <= Len(inactive) /\ Len(inactive) \in Nat /\ inactive \in Seq(BOOLEAN)
  BY <1>1, <1>2, OfThread DEF Produces, TableTyped
<1>4. CASE inactive[i] /\ inactive' = [inactive EXCEPT ![i] = FALSE] /\ GoInsert(t, i)
  <2>1. /\ inactive' \in Seq(BOOLEAN) /\ Len(inactive') = Len(inactive)
        /\ i \in 1..Len(inactive') /\ ~inactive'[i]
        /\ \A q \in 1..Len(inactive) : q # i => inactive'[q] = inactive[q]
    BY <1>2, <1>3, <1>4
  <2>2. \A u \in Callers : i \notin Working(u)
    BY <1>4, OfThread DEF Apart
  <2>3. i \in Nat \ {0} /\ Len(inactive') >= Len(inactive)
    BY <1>2, <1>3, <2>1
  <2> QED
    BY <1>2, <1>4, <2>1, <2>2, <2>3, ClaimStep
<1>5. CASE GoOn(t, "takeOver", [probe[t] EXCEPT !.i = @ - 1]) /\ UNCHANGED inactive
  <2> DEFINE q == [probe[t] EXCEPT !.i = @ - 1]
  <2>1. /\ q \in Probes /\ q.main = probe[t].main /\ q.producer = probe[t].producer
        /\ q.i <= Len(inactive)
    <3>1. i - 1 \in Nat /\ i - 1 <= Len(inactive) /\ probe[t] \in Probes
      BY <1>2, <1>3, OfThread
    <3> QED
      BY <1>1, <3>1 DEF Probes
  <2>2. GoOn(t, "takeOver", q) /\ UNCHANGED <<tables, hashCount, resizing, inactive, using>>
    BY <1>2, <1>5 DEF slotVars
  <2> HIDE DEF q
  <2> QED
    BY <1>2, <2>1, <2>2, OfNotIn, NotInStep, SameTables, OfThread DEF NotIn
<1> QED
  BY <1>1, <1>4, <1>5 DEF TakeOver

LEMMA CreateStep ==
  ASSUME TInv, NEW t \in Callers, Create(t)
  PROVE  TInv'
<1>1. PICK n \in Nat : n = Len(inactive)
  BY OfThread DEF TableTyped
<1>2. /\ tpc[t] = "takeOver" /\ inactive' = Append(inactive, FALSE) /\ GoInsert(t, n + 1)
      /\ UNCHANGED <<slotVars, using>>
  BY <1>1 DEF Create
<1>3. /\ inactive' \in Seq(BOOLEAN) /\ Len(inactive') = n + 1 /\ ~inactive'[n + 1]
      /\ \A q \in 1..n : inactive'[q] = inactive[q]
  BY <1>1, <1>2, OfThread DEF TableTyped
<1>4. \A u \in Callers : n + 1 \notin Working(u)
  BY <1>1, OfThread DEF Apart
<1>5. n + 1 \in Nat \ {0} /\ n + 1 \in 1..Len(inactive') /\ Len(inactive') >= Len(inactive)
  BY <1>1, <1>3
<1> QED
  BY <1>1, <1>2, <1>3, <1>4, <1>5, ClaimStep

LEMMA SubscribeStep ==
  ASSUME TInv, NEW t \in Callers, Subscribe(t)
  PROVE  TInv'
<1>1. PICK p \in Nat : p = probe[t].producer
  BY OfThread
<1>2. /\ tpc[t] = "subscribe" /\ GoOn(t, "insert", probe[t]) /\ "insert" \in Stages
      /\ UNCHANGED <<tables, hashCount, resizing, inactive>>
  BY DEF Subscribe, slotVars, Stages, Given
<1>3. /\ using[t] = 0 /\ p # 0 /\ \A h \in DOMAIN tables : ~In(t, h)
      /\ probe[t].hash \in DOMAIN tables /\ probe[t].i = Home[t]
  BY <1>1, <1>2, OfThread DEF Passed, Produces, NotIn
<1>4. using' \in [Callers -> Nat] /\ using'[t] = p /\ \A u \in Callers : u # t => using'[u] = using[u]
  BY <1>1, <1>3, OfThread DEF Subscribe, TableTyped
<1>5. /\ tpc' \in [Callers -> Stages] /\ probe' \in [Callers -> Probes]
      /\ tpc'[t] = "insert" /\ probe'[t] = probe[t] /\ probe[t] \in Probes
      /\ \A u \in Callers : u # t => tpc'[u] = tpc[u] /\ probe'[u] = probe[u]
  BY <1>2, GoOnEffect, OfThread
<1>6. TableTyped'
  BY <1>2, <1>4, <1>5, OfThread DEF TableTyped
<1>7. Placed(t)'
  BY <1>2, <1>3 DEF Placed, In
<1>8. Passed(t)'
  BY <1>2, <1>3, <1>5, SameKeys, OfThread DEF Passed, Searching, NotIn
<1>9. Produces(t)'
  BY <1>1, <1>3, <1>4, <1>5 DEF Produces, NotIn, Given
<1>10. \A u \in Callers : Working(u)' = Working(u)
  <2>1. Working(t)' = Working(t)
    BY <1>1, <1>3, <1>5 DEF Working
  <2>2. \A u \in Callers : u # t => Working(u)' = Working(u)
    BY <1>4, <1>5 DEF Working
  <2> QED
    BY <2>1, <2>2
<1>11. \A u \in Callers : Apart(u)'
  BY <1>2, <1>10, ApartKept
<1>12. Len(inactive') >= Len(inactive) /\ \A u \in Callers : Kept(u)
  BY <1>2, SameTables, OfThread DEF TableTyped
<1> QED
  BY <1>2, <1>4, <1>5, <1>6, <1>7, <1>8, <1>9, <1>11, <1>12, OwnStep

LEMMA UncountStep ==
  ASSUME TInv, NEW t \in Callers, Uncount(t)
  PROVE  TInv'
<1>1. /\ tpc[t] = "uncount" /\ GoOn(t, "return", probe[t]) /\ "return" \in Stages
      /\ hashCount' = hashCount - 1 /\ UNCHANGED <<tables, resizing, inactive, using>>
  BY DEF Uncount, ownVars, Stages, Given
<1>2. tpc'[t] = "return" /\ probe'[t] = probe[t]
  BY <1>1, GoOnEffect, OfThread
<1>3. Passed(t)'
  BY <1>2 DEF Passed, Searching, NotIn
<1>4. Produces(t)'
  BY <1>1, <1>2, SameKeys, OfThread DEF Produces, NotIn, Given
<1>5. hashCount' \in Int
  BY <1>1, OfThread DEF TableTyped
<1> QED
  BY <1>1, <1>3, <1>4, <1>5, OwnMove, SameTables, OfThread DEF TableTyped

LEMMA ReturnStep ==
  ASSUME TInv, NEW t \in Callers, ReturnProducer(t)
  PROVE  TInv'
<1>1. /\ tpc[t] = "return" /\ GoOn(t, "out", NoProbe) /\ "out" \in Stages
      /\ UNCHANGED <<tables, hashCount, resizing, inactive, using>>
  BY DEF ReturnProducer, slotVars, ownVars, Stages
<1>2. tpc'[t] = "out" /\ probe'[t] = NoProbe /\ NoProbe.producer = 0
  BY <1>1, NoProbeTyped, GoOnEffect, OfThread DEF NoProbe
<1>3. Passed(t)'
  BY <1>2 DEF Passed, Searching, NotIn
<1>4. Produces(t)'
  BY <1>1, <1>2, SameKeys, OfThread DEF Produces, NotIn, Given
<1> QED
  BY <1>1, <1>2, <1>3, <1>4, NoProbeTyped, OwnMove, SameTables, OfThread DEF TableTyped

-----------------------------------------------------------------------------
\* A thread that ends.

LEMMA ExitStep ==
  ASSUME TInv, NEW t \in Callers, Exit(t)
  PROVE  TInv'
<1> DEFINE p == [NoProbe EXCEPT !.hash = Len(tables), !.i = Home[t]]
<1>1. /\ tpc[t] = "out" /\ using[t] # 0 /\ GoOn(t, "leave", p) /\ "leave" \in Stages
      /\ UNCHANGED <<tables, hashCount, resizing, inactive, using>>
  BY DEF Exit, slotVars, Stages, Searching
<1>2. p \in Probes /\ p.hash = Len(tables) /\ p.i = Home[t] /\ p.producer = 0
  BY NoProbeTyped, OfThread, TablesNumbered DEF Probes, NoProbe
<1> HIDE DEF p
<1>3. tpc'[t] = "leave" /\ probe'[t] = p
  BY <1>1, <1>2, GoOnEffect, OfThread
<1>4. Len(tables) \in DOMAIN tables
  BY OfThread, TablesNumbered
<1>5. Passed(t)'
  BY <1>1, <1>2, <1>3, <1>4, SameKeys, OfThread, TablesNumbered DEF Passed, Searching, NotIn
<1>6. Produces(t)'
  BY <1>1, <1>2, <1>3 DEF Produces, NotIn, Given
<1> QED
  BY <1>1, <1>2, <1>5, <1>6, OwnMove, SameTables, OfThread DEF TableTyped

\* t is not in the hash it leaves, and goes on to the next older one.
LEMMA NextHashStep ==
  ASSUME TInv, NEW t \in Callers, tpc[t] = "leave", NextHash(t),
         UNCHANGED <<hashCount, resizing, inactive, using>>,
         tables' \in Seq(Hashes), Len(tables') = Len(tables),
         \A u \in Callers : u # t => Kept(u), Placed(t)',
         \A g \in DOMAIN tables : g >= probe[t].hash => ~In(t, g)'
  PROVE  TInv'
<1>1. PICK h \in DOMAIN tables : h = probe[t].hash
  BY OfThread DEF Passed, Searching
<1>2. /\ using[t] # 0 /\ probe[t].producer = 0 /\ probe[t] \in Probes /\ h \in Nat
      /\ \A g \in DOMAIN tables : g \in Nat
  BY OfThread, TablesNumbered DEF Produces, NotIn, Given
<1>3. DOMAIN tables' = DOMAIN tables /\ tables' # <<>> /\ DOMAIN tables = 1..Len(tables)
  BY OfThread, TablesNumbered DEF TableTyped
<1>4. PICK place \in {"leave", "left"}, q \in Probes :
        /\ GoOn(t, place, q) /\ q.producer = 0
        /\ place = "leave" => h > 1 /\ q.hash = h - 1 /\ q.i = Home[t]
        /\ place = "left" => ~(h > 1)
  <2>1. CASE h > 1
    <3> DEFINE q == [probe[t] EXCEPT !.hash = h - 1, !.i = Home[t]]
    <3>1. GoOn(t, "leave", q)
      BY <1>1, <2>1 DEF NextHash, GoProbe
    <3>2. h - 1 \in Nat
      BY <1>2, <2>1
    <3>3. q \in Probes /\ q.producer = 0 /\ q.hash = h - 1 /\ q.i = Home[t]
      BY <1>2, <3>2, OfThread DEF Probes
    <3> HIDE DEF q
    <3> QED
      BY <2>1, <3>1, <3>3
  <2>2. CASE ~(h > 1)
    <3>1. GoOn(t, "left", probe[t])
      BY <1>1, <2>2 DEF NextHash
    <3> QED
      BY <1>2, <2>2, <3>1
  <2> QED
    BY <2>1, <2>2
<1>5. place \in Stages
  BY DEF Stages, Searching
<1>6. /\ tpc' \in [Callers -> Stages] /\ probe' \in [Callers -> Probes]
      /\ tpc'[t] = place /\ probe'[t] = q
      /\ \A u \in Callers : u # t => tpc'[u] = tpc[u] /\ probe'[u] = probe[u]
  BY <1>4, <1>5, GoOnEffect, OfThread
<1>7. TableTyped'
  BY <1>3, <1>6, OfThread DEF TableTyped
<1>8. Passed(t)'
  <2>1. CASE place = "leave"
    <3>1. h - 1 \in DOMAIN tables' /\ \A g \in DOMAIN tables' : g > h - 1 => ~In(t, g)'
      BY <1>1, <1>2, <1>3, <1>4, <2>1
    <3> QED
      BY <1>4, <1>6, <2>1, <3>1, OfThread DEF Passed, Searching, NotIn
  <2>2. CASE place = "left"
    <3>1. \A g \in DOMAIN tables' : ~In(t, g)'
      BY <1>1, <1>2, <1>3, <1>4, <2>2
    <3> QED
      BY <1>6, <2>2, <3>1 DEF Passed, Searching, NotIn
  <2> QED
    BY <2>1, <2>2
<1>9. Produces(t)'
  BY <1>2, <1>4, <1>6 DEF Produces, NotIn, Given
<1>10. \A u \in Callers : Working(u)' = Working(u)
  <2>1. Working(t)' = Working(t)
    BY <1>2, <1>4, <1>6 DEF Working
  <2>2. \A u \in Callers : u # t => Working(u)' = Working(u)
    BY <1>6 DEF Working
  <2> QED
    BY <2>1, <2>2
<1>11. \A u \in Callers : Apart(u)'
  BY <1>10, ApartKept
<1>12. Len(inactive') >= Len(inactive)
  BY OfThread DEF TableTyped
<1> QED
  BY <1>4, <1>5, <1>7, <1>8, <1>9, <1>11, <1>12, OwnStep

LEMMA LeaveStep ==
  ASSUME TInv, NEW t \in Callers, Leave(t)
  PROVE  TInv'
<1>1. PICK h \in DOMAIN tables, i \in Nat : h = probe[t].hash /\ i = probe[t].i
  BY OfThread DEF Leave, Passed, Searching
<1>2. tpc[t] = "leave" /\ UNCHANGED <<hashCount, resizing, inactive, using>>
  BY DEF Leave, ownVars
<1>3. /\ Home[t] <= i
      /\ \A k \in Home[t]..i - 1 : KeyIn(h, k) # EmptyKey /\ KeyIn(h, k) # t
      /\ \A g \in DOMAIN tables : g > h => ~In(t, g)
      /\ using[t] # 0 /\ probe[t].producer = 0
  BY <1>1, <1>2, OfThread DEF Passed, Produces, Searching, NotIn, Given
<1>4. KeyAt(t) = KeyIn(h, i)
  BY <1>1 DEF KeyAt, SlotAt, KeyIn
<1>5. PICK s \in DOMAIN tables[h] : s = SlotAt(t) /\ KeyAt(t) = tables[h][s].key
  BY <1>1, CapacityOf, OfThread DEF SlotAt, KeyAt
<1>6. \A g \in DOMAIN tables : g \in Nat
  BY TablesNumbered, OfThread
<1>7. CASE KeyAt(t) = t
  <2>1. PICK p \in Nat : p = tables[h][s].producer
    BY CapacityOf, OfThread DEF Slots
  <2>2. SetSlot(t, ReusableKey, p) /\ NextHash(t)
    BY <1>1, <1>5, <1>7, <2>1 DEF Leave
  <2>3. /\ tables' \in Seq(Hashes) /\ Len(tables') = Len(tables)
        /\ SlotAt(t) \in DOMAIN tables[h]
        /\ \A g \in DOMAIN tables : DOMAIN tables'[g] = DOMAIN tables[g]
        /\ \A g \in DOMAIN tables : g # h => tables'[g] = tables[g]
        /\ tables'[h][SlotAt(t)] = [key |-> ReusableKey, producer |-> p]
        /\ \A r \in DOMAIN tables[h] : r # SlotAt(t) => tables'[h][r] = tables[h][r]
        /\ \A u \in Callers : u # t => Kept(u)
    <3>1. TableTyped /\ h = probe[t].hash /\ probe[t].i \in Nat /\ ReusableKey \in {t, ReusableKey}
      BY <1>1, OfThread
    <3>2. SlotAt(t) \in DOMAIN tables[h] /\ Written(t, h, SlotAt(t), ReusableKey, p)
      BY <1>7, <2>2, <3>1, SlotSet
    <3> QED
      BY <3>2 DEF Written
  <2>4. DOMAIN tables' = DOMAIN tables
    BY <2>3, TablesNumbered, OfThread DEF TableTyped
  <2>5. ~In(t, h)'
    <3>1. SlotOf(t, h, s)
      BY <1>5, <1>7, OfThread DEF Placed
    <3>2. \A r \in DOMAIN tables[h] : tables[h][r].key = t => r = s
      BY <3>1 DEF SlotOf
    <3> QED
      BY <1>5, <2>3, <3>2, KeysApart DEF In
  <2>6. Placed(t)'
    <3>1. SUFFICES ASSUME NEW g \in DOMAIN tables, NEW r \in DOMAIN tables[g], tables'[g][r].key = t
                   PROVE  SlotOf(t, g, r)'
      BY <2>3, <2>4 DEF Placed
    <3>2. g # h
      BY <2>3, <2>5, <3>1 DEF In
    <3>3. tables'[g] = tables[g]
      BY <2>3, <3>2
    <3>4. SlotOf(t, g, r)
      BY <3>1, <3>3, OfThread DEF Placed
    <3>5. Capacity(g)' = Capacity(g) /\ \A k : KeyIn(g, k)' = KeyIn(g, k)
      BY <3>3 DEF KeyIn, Capacity
    <3> QED
      BY <1>2, <3>3, <3>4, <3>5 DEF SlotOf
  <2>7. \A g \in DOMAIN tables : g >= h => ~In(t, g)'
    <3>1. \A g \in DOMAIN tables : g > h => ~In(t, g)'
      BY <1>3, <2>3 DEF In
    <3> QED
      BY <1>6, <2>5, <3>1
  <2> QED
    BY <1>1, <1>2, <2>2, <2>3, <2>6, <2>7, NextHashStep
<1>8. CASE KeyAt(t) = EmptyKey
  <2>1. NextHash(t) /\ UNCHANGED tables
    BY <1>8, KeysApart DEF Leave
  <2>2. ~In(t, h)
    BY <1>3, <1>4, <1>8, NotThere
  <2>3. \A g \in DOMAIN tables : g >= h => ~In(t, g)'
    BY <1>3, <1>6, <2>1, <2>2, SameKeys
  <2>4. Placed(t)'
    BY <1>2, <2>1, SameKeys, OfThread DEF Placed, SlotOf
  <2>5. \A u \in Callers : Kept(u)
    BY <2>1, SameTables, OfThread
  <2>6. tables' \in Seq(Hashes) /\ Len(tables') = Len(tables)
    BY <2>1, OfThread DEF TableTyped
  <2> QED
    BY <1>1, <1>2, <2>1, <2>3, <2>4, <2>5, <2>6, NextHashStep
<1>9. CASE KeyAt(t) # t /\ KeyAt(t) # EmptyKey
  <2> DEFINE q == [probe[t] EXCEPT !.i = @ + 1]
  <2>1. GoOn(t, "leave", q) /\ "leave" \in Stages /\ UNCHANGED tables
    BY <1>2, <1>9 DEF Leave, NextSlot, Stages, Searching
  <2>2. q \in Probes /\ q.producer = 0 /\ q.hash = h /\ q.i = i + 1
    BY <1>1, <1>3, OfThread DEF Probes
  <2> HIDE DEF q
  <2>3. tpc'[t] = "leave" /\ probe'[t] = q
    BY <2>1, <2>2, GoOnEffect, OfThread
  <2>4. \A k \in Home[t]..(i + 1) - 1 : KeyIn(h, k) # EmptyKey /\ KeyIn(h, k) # t
    BY <1>3, <1>4, <1>9, OfThread
  <2>5. Passed(t)'
    BY <1>3, <2>1, <2>2, <2>3, <2>4, SameKeys, OfThread DEF Passed, Searching, NotIn
  <2>6. Produces(t)'
    BY <1>2, <1>3, <2>2, <2>3 DEF Produces, NotIn, Given
  <2> QED
    BY <1>2, <2>1, <2>2, <2>5, <2>6, OwnMove, SameTables, OfThread DEF TableTyped
<1> QED
  BY <1>7, <1>8, <1>9

\* The producer is given up when the thread is in no hash any more.
LEMMA LeftStep ==
  ASSUME TInv, NEW t \in Callers, Left(t)
  PROVE  TInv'
<1>1. PICK p \in Nat : p = using[t]
  BY OfThread
<1>2. /\ tpc[t] = "left" /\ inactive' = [inactive EXCEPT ![p] = TRUE]
      /\ using' = [using EXCEPT ![t] = 0]
      /\ GoOn(t, "out", NoProbe) /\ "out" \in Stages /\ NoProbe \in Probes
      /\ UNCHANGED <<tables, hashCount, resizing>>
  BY <1>1, NoProbeTyped DEF Left, slotVars, Stages
<1>3. p # 0 /\ \A h \in DOMAIN tables : ~In(t, h)
  BY <1>1, <1>2, OfThread DEF Passed, Produces
<1>4. p \in Working(t)
  BY <1>1, <1>3, UsingWorks
<1>5. /\ inactive' \in Seq(BOOLEAN) /\ Len(inactive') = Len(inactive)
      /\ \A q \in 1..Len(inactive) : q # p => inactive'[q] = inactive[q]
  BY <1>2, <1>4, OfThread DEF Apart, TableTyped
<1>6. using' \in [Callers -> Nat] /\ using'[t] = 0 /\ \A u \in Callers : u # t => using'[u] = using[u]
  BY <1>2, OfThread DEF TableTyped
<1>7. /\ tpc' \in [Callers -> Stages] /\ probe' \in [Callers -> Probes]
      /\ tpc'[t] = "out" /\ probe'[t] = NoProbe /\ NoProbe.producer = 0
      /\ \A u \in Callers : u # t => tpc'[u] = tpc[u] /\ probe'[u] = probe[u]
  BY <1>2, GoOnEffect, OfThread DEF NoProbe
<1>8. TableTyped'
  BY <1>2, <1>5, <1>6, <1>7, OfThread DEF TableTyped
<1>9. Placed(t)'
  BY <1>2, <1>3 DEF Placed, In
<1>10. Passed(t)'
  BY <1>7 DEF Passed, Searching, NotIn
<1>11. Produces(t)'
  BY <1>6, <1>7 DEF Produces, NotIn, Given
<1>12. /\ \A u \in Callers : u # t => Working(u)' = Working(u)
       /\ Working(t)' = {}
  BY <1>6, <1>7 DEF Working
<1>13. \A u \in Callers : \A q \in Working(u)' : inactive'[q] = inactive[q]
  <2>1. ASSUME NEW u \in Callers, NEW q \in Working(u)' PROVE inactive'[q] = inactive[q]
    <3>1. u # t /\ q \in Working(u)
      BY <1>12, <2>1
    <3>2. q # p /\ q \in 1..Len(inactive)
      BY <1>4, <3>1, OfThread DEF Apart
    <3> QED
      BY <1>5, <3>2
  <2> QED
    BY <2>1
<1>14. \A u \in Callers : Apart(u)'
  BY <1>5, <1>12, <1>13, ApartKept
<1>15. (\A u \in Callers : Kept(u)) /\ Len(inactive') >= Len(inactive)
  BY <1>2, <1>5, SameTables, OfThread DEF TableTyped
<1> QED
  BY <1>2, <1>6, <1>8, <1>9, <1>10, <1>11, <1>14, <1>15, OwnStep

-----------------------------------------------------------------------------
LEMMA InitTInv ==
  ASSUME TableInit
  PROVE  TInv
<1>1. tables = <<NewTable(FirstSize)>> /\ NewTable(FirstSize) \in Hashes
  BY NewTableTyped, SomeSlot DEF TableInit
<1>2. TableTyped
  <2>1. tables \in Seq(Hashes) /\ tables # <<>>
    BY <1>1
  <2>2. tpc \in [Callers -> Stages] /\ probe \in [Callers -> Probes]
    BY NoProbeTyped DEF TableInit, Stages
  <2>3. /\ hashCount \in Int /\ resizing \in BOOLEAN
        /\ using \in [Callers -> Nat]
    <3>1. hashCount = 0 /\ resizing = FALSE /\ using = [t \in Callers |-> 0]
      BY DEF TableInit
    <3>2. resizing \in BOOLEAN
      BY <3>1
    <3>3. hashCount \in Int /\ using \in [Callers -> Nat]
      BY <3>1
    <3> QED
      BY <3>2, <3>3
  <2>4. inactive \in Seq(BOOLEAN)
    <3>1. inactive = <<>>
      BY DEF TableInit
    <3> QED
      BY <3>1
  <2> QED
    BY <2>1, <2>2, <2>3, <2>4 DEF TableTyped
<1>3. \A t \in Callers, h \in DOMAIN tables : ~In(t, h)
  <2>1. \A h \in DOMAIN tables : tables[h] = NewTable(FirstSize)
    BY <1>1
  <2>2. \A s \in DOMAIN NewTable(FirstSize) : NewTable(FirstSize)[s].key = EmptyKey
    BY DEF NewTable
  <2> QED
    BY <2>1, <2>2, KeysApart DEF In
<1>4. ASSUME NEW t \in Callers PROVE Placed(t) /\ Passed(t) /\ Produces(t) /\ Apart(t)
  <2>1. tpc[t] = "out" /\ probe[t] = NoProbe /\ \A u \in Callers : Working(u) = {}
    BY DEF TableInit, Working, NoProbe
  <2>2. Placed(t)
    BY <1>3 DEF Placed, In
  <2>3. Passed(t)
    BY <2>1 DEF Passed, Searching, NotIn
  <2>4. Produces(t)
    BY <2>1 DEF TableInit, Produces, NotIn, Given, NoProbe
  <2>5. Apart(t)
    BY <2>1 DEF Apart
  <2> QED
    BY <2>2, <2>3, <2>4, <2>5
<1> QED
  BY <1>2, <1>4 DEF TInv

LEMMA StepTInv ==
  ASSUME TInv, [TableNext]_tableVars
  PROVE  TInv'
<1>1. ASSUME NEW t \in Callers, Call(t) PROVE TInv'
  BY <1>1, CallStep
<1>2. ASSUME NEW t \in Callers, Lookup(t) PROVE TInv'
  BY <1>2, FindStep, MoveStep, CountInStep, TestAndSetStep, ResizeStep, FailedStep,
     WaitForTableStep, TakeOverStep, CreateStep, SubscribeStep, InsertStep, UncountStep,
     ReturnStep DEF Lookup
<1>3. ASSUME NEW t \in Callers, Exit(t) \/ Leave(t) \/ Left(t) PROVE TInv'
  BY <1>3, ExitStep, LeaveStep, LeftStep
<1>4. CASE UNCHANGED tableVars
  <2>1. UNCHANGED <<tables, hashCount, resizing, inactive, using, tpc, probe>>
    BY <1>4 DEF tableVars, slotVars, ownVars
  <2>2. TableTyped'
    BY <2>1 DEF TInv, TableTyped
  <2>3. ASSUME NEW t \in Callers PROVE Placed(t)' /\ Passed(t)' /\ Produces(t)'
    <3>1. Kept(t) /\ Len(inactive') >= Len(inactive)
      BY <2>1, SameTables, OfThread DEF TableTyped
    <3> QED
      BY <2>1, <2>2, <3>1, PlacedKept, PassedKept, ProducesKept DEF TInv
  <2>4. \A u \in Callers : Working(u)' = Working(u)
    BY <2>1 DEF Working
  <2>5. ASSUME NEW t \in Callers PROVE Apart(t)'
    BY <2>1, <2>4, ApartKept DEF TInv
  <2> QED
    BY <2>2, <2>3, <2>5 DEF TInv
<1> QED
  BY <1>1, <1>2, <1>3, <1>4 DEF TableNext

LEMMA AlwaysTInv == TableSpec => []TInv
<1>1. TableInit => TInv
  BY InitTInv
<1>2. TInv /\ [TableNext]_tableVars => TInv'
  BY StepTInv
<1> QED
  BY <1>1, <1>2, PTL DEF TableSpec

\* Whatever happens to the tables and to other threads meanwhile, a thread that
\* looks its producer up gets the one it was given first, so that what it enqueues
\* stays in order.
THEOREM ProducerKept == TableSpec => []SameProducer
<1>1. TInv => SameProducer
  BY DEF TInv, Produces, SameProducer, Given
<1> QED
  BY <1>1, AlwaysTInv, PTL

\* No two threads enqueue with the same producer at a time, also when producers of
\* threads that have ended are taken over.
THEOREM ProducersApart == TableSpec => []OneThreadPerProducer
<1>1. TInv => OneThreadPerProducer
  BY DEF TInv, Apart, OneThreadPerProducer
<1> QED
  BY <1>1, AlwaysTInv, PTL

-----------------------------------------------------------------------------
(***************************************************************************)
(* How many threads it takes to fill a hash.  A slot that is taken is of a *)
(* thread that lives, of which there is at most one in each hash, or it    *)
(* was given up, and each thread that has ended gave up at most one in     *)
(* each hash.                                                              *)
(***************************************************************************)

\* Fewer threads live or have ended than the first hash has slots, of which the
\* program has 32: then the comment "not an infinite loop because at least one
\* slot is free" (tools/moodycamel.h) is right.
FewThreads == IsFiniteSet(Callers) /\ Cardinality(Callers) + exits < FirstSize

\* The slots of hash h that were given up, or that their thread is about to.
GivenUp(key) == key = ReusableKey \/ (key \in Callers /\ tpc[key] = "leave")
Leaving(h) == {s \in DOMAIN tables[h] : GivenUp(tables[h][s].key)}

SInv ==
  /\ exits \in Nat
  /\ \A h \in DOMAIN tables : Capacity(h) >= FirstSize /\ Cardinality(Leaving(h)) <= exits

LEMMA LeavingFinite ==
  ASSUME TableTyped, NEW h \in DOMAIN tables
  PROVE  /\ IsFiniteSet(DOMAIN tables[h]) /\ IsFiniteSet(Leaving(h))
         /\ Cardinality(Leaving(h)) \in Nat
<1>1. DOMAIN tables[h] = 0..Capacity(h) - 1 /\ Capacity(h) \in Nat
  BY CapacityOf
<1>2. IsFiniteSet(DOMAIN tables[h])
  BY <1>1, FS_Interval
<1>3. Leaving(h) \in SUBSET DOMAIN tables[h]
  BY DEF Leaving
<1>4. IsFiniteSet(Leaving(h))
  BY <1>2, <1>3, FS_Subset
<1> QED
  BY <1>2, <1>4, FS_CardinalityType

\* A step after which no thread leaves that did not before, and in which a slot
\* keeps its key, or loses that of a thread that leaves, or gets one of a thread
\* that does not.
LEMMA QuietSlots ==
  ASSUME TInv, SInv, exits' = exits, DOMAIN tables' = DOMAIN tables,
         \A h \in DOMAIN tables : DOMAIN tables'[h] = DOMAIN tables[h],
         \A h \in DOMAIN tables : \A s \in DOMAIN tables[h] :
           tables'[h][s].key # tables[h][s].key =>
             GivenUp(tables[h][s].key) \/ ~GivenUp(tables[h][s].key)',
         \A u \in Callers : tpc'[u] = "leave" => tpc[u] = "leave"
  PROVE  SInv'
<1>1. ASSUME NEW h \in DOMAIN tables PROVE (Capacity(h) >= FirstSize /\ Cardinality(Leaving(h)) <= exits)'
  <2>1. Capacity(h)' = Capacity(h)
    BY <1>1 DEF Capacity
  <2>2. ASSUME NEW s \in Leaving(h)' PROVE s \in Leaving(h)
    <3>1. s \in DOMAIN tables[h] /\ GivenUp(tables[h][s].key)'
      BY <1>1, <2>2 DEF Leaving
    <3>2. CASE tables'[h][s].key = tables[h][s].key
      BY <3>1, <3>2 DEF Leaving, GivenUp
    <3>3. CASE tables'[h][s].key # tables[h][s].key
      BY <1>1, <3>1, <3>3 DEF Leaving
    <3> QED
      BY <3>2, <3>3
  <2>3. IsFiniteSet(Leaving(h)) /\ Cardinality(Leaving(h)) \in Nat
    BY <1>1, LeavingFinite DEF TInv
  <2>4. IsFiniteSet(Leaving(h)') /\ Cardinality(Leaving(h)') <= Cardinality(Leaving(h))
    BY <2>2, <2>3, FS_Subset
  <2>5. Cardinality(Leaving(h)') \in Nat
    BY <2>4, FS_CardinalityType
  <2>6. Capacity(h) >= FirstSize /\ Cardinality(Leaving(h)) <= exits /\ exits \in Nat
    BY <1>1 DEF SInv
  <2>7. Capacity(h)' >= FirstSize
    BY <2>1, <2>6
  <2>8. Cardinality(Leaving(h)') <= exits'
    BY <2>3, <2>4, <2>5, <2>6
  <2> QED
    BY <2>7, <2>8
<1>2. exits' \in Nat
  BY DEF SInv
<1> QED
  BY <1>1, <1>2 DEF SInv

\* A step of t that changes no slot and does not make it leave.
LEMMA SlotsStay ==
  ASSUME TInv, SInv, UNCHANGED <<tables, exits>>, NEW t \in Callers, NEW place, NEW p,
         GoOn(t, place, p), place # "leave" \/ tpc[t] = "leave"
  PROVE  SInv'
<1>1. \A u \in Callers : tpc'[u] = "leave" => tpc[u] = "leave"
  BY DEF GoOn, TInv, TableTyped
<1> QED
  BY <1>1, QuietSlots

\* A thread that takes or gives up a slot.
LEMMA SlotsChange ==
  ASSUME TInv, SInv, exits' = exits, NEW t \in Callers,
         tpc[t] \in {"move", "insert", "leave"},
         NEW k \in {t, ReusableKey}, NEW p \in Nat, SetSlot(t, k, p),
         KeyAt(t) \in {t, EmptyKey, ReusableKey},
         k = t => tpc'[t] # "leave",
         k = ReusableKey => KeyAt(t) = t /\ tpc[t] = "leave",
         \A u \in Callers : tpc'[u] = "leave" => tpc[u] = "leave"
  PROVE  SInv'
<1>1. PICK h \in DOMAIN tables : h = probe[t].hash
  BY OfThread DEF Passed, Searching
<1> DEFINE hash == [tables[h] EXCEPT ![SlotAt(t)] = [key |-> k, producer |-> p]]
<1>2. tables' = [tables EXCEPT ![h] = hash]
  BY <1>1 DEF SetSlot
<1>3. /\ DOMAIN hash = DOMAIN tables[h]
      /\ \A s \in DOMAIN tables[h] : s # SlotAt(t) => hash[s] = tables[h][s]
      /\ SlotAt(t) \in DOMAIN tables[h] => hash[SlotAt(t)].key = k
  OBVIOUS
<1> HIDE DEF hash
<1>4. /\ DOMAIN tables' = DOMAIN tables
      /\ tables'[h] = hash
      /\ \A g \in DOMAIN tables : g # h => tables'[g] = tables[g]
  BY <1>2
<1>5. \A g \in DOMAIN tables : DOMAIN tables'[g] = DOMAIN tables[g]
  BY <1>3, <1>4
<1>6. ASSUME NEW g \in DOMAIN tables, NEW s \in DOMAIN tables[g],
             tables'[g][s].key # tables[g][s].key
      PROVE  GivenUp(tables[g][s].key) \/ ~GivenUp(tables[g][s].key)'
  <2>1. g = h /\ s = SlotAt(t)
    BY <1>3, <1>4, <1>6
  <2>2. tables'[g][s].key = k /\ tables[g][s].key = KeyAt(t)
    BY <1>1, <1>3, <1>4, <1>6, <2>1 DEF KeyAt
  <2>3. CASE k = t
    BY <2>2, <2>3, KeysApart DEF GivenUp
  <2>4. CASE k = ReusableKey
    BY <2>2, <2>4 DEF GivenUp
  <2> QED
    BY <2>3, <2>4
<1> QED
  BY <1>4, <1>5, <1>6, QuietSlots

\* A thread that ends has at most one slot in each hash to give up.
LEMMA SlotsExit ==
  ASSUME TInv, SInv, NEW t \in Callers, Exit(t)
  PROVE  SInv'
<1>1. exits' = exits + 1 /\ UNCHANGED tables
  BY DEF Exit, slotVars
<1>2. \A u \in Callers : u # t => tpc'[u] = tpc[u]
  BY DEF Exit, GoOn, TInv, TableTyped
<1>3. ASSUME NEW h \in DOMAIN tables PROVE (Capacity(h) >= FirstSize /\ Cardinality(Leaving(h)) <= exits)'
  <2>1. Capacity(h)' = Capacity(h)
    BY <1>1 DEF Capacity
  <2>2. /\ IsFiniteSet(Leaving(h)) /\ Cardinality(Leaving(h)) \in Nat
        /\ Capacity(h) >= FirstSize /\ Cardinality(Leaving(h)) <= exits /\ exits \in Nat
    BY <1>3, LeavingFinite DEF TInv, SInv
  <2>3. ASSUME NEW s \in Leaving(h)' PROVE s \in Leaving(h) \/ tables[h][s].key = t
    BY <1>1, <1>2, <2>3 DEF Leaving, GivenUp
  <2>4. PICK r : \A s \in Leaving(h)' : s \in Leaving(h) \cup {r}
    <3>1. CASE \E r \in DOMAIN tables[h] : tables[h][r].key = t
      <4>1. PICK r \in DOMAIN tables[h] : tables[h][r].key = t
        BY <3>1
      <4>2. SlotOf(t, h, r)
        BY <1>3, <4>1, OfThread DEF Placed
      <4>3. \A s \in Leaving(h)' : s \in DOMAIN tables[h]
        BY <1>1 DEF Leaving
      <4> QED
        BY <2>3, <4>2, <4>3 DEF SlotOf
    <3>2. CASE ~\E r \in DOMAIN tables[h] : tables[h][r].key = t
      <4>1. \A s \in Leaving(h)' : s \in DOMAIN tables[h]
        BY <1>1 DEF Leaving
      <4> QED
        BY <2>3, <3>2, <4>1
    <3> QED
      BY <3>1, <3>2
  <2>5. /\ IsFiniteSet(Leaving(h) \cup {r}) /\ Cardinality(Leaving(h) \cup {r}) \in Nat
        /\ Cardinality(Leaving(h) \cup {r}) <= Cardinality(Leaving(h)) + 1
    <3>1. /\ IsFiniteSet(Leaving(h) \cup {r})
          /\ Cardinality(Leaving(h) \cup {r}) =
               IF r \in Leaving(h) THEN Cardinality(Leaving(h)) ELSE Cardinality(Leaving(h)) + 1
      BY <2>2, FS_AddElement
    <3> QED
      BY <2>2, <3>1
  <2>6. IsFiniteSet(Leaving(h)') /\ Cardinality(Leaving(h)') <= Cardinality(Leaving(h) \cup {r})
    BY <2>4, <2>5, FS_Subset
  <2>7. Cardinality(Leaving(h)') \in Nat
    BY <2>6, FS_CardinalityType
  <2>8. Capacity(h)' >= FirstSize
    BY <2>1, <2>2
  <2>9. Cardinality(Leaving(h)') <= exits'
    BY <1>1, <2>2, <2>5, <2>6, <2>7
  <2> QED
    BY <2>8, <2>9
<1>4. exits' \in Nat
  BY <1>1 DEF SInv
<1> QED
  BY <1>1, <1>3, <1>4 DEF SInv

\* A hash put in front is larger than the one before, and nobody is in it.
LEMMA NewHash ==
  ASSUME NEW n \in Nat \ {0}
  PROVE  /\ DOMAIN NewTable(n) = 0..n - 1
         /\ Cardinality(0..n - 1) = n
         /\ \A s \in DOMAIN NewTable(n) : NewTable(n)[s].key = EmptyKey
<1>1. Cardinality(0..n - 1) = n
  BY FS_Interval
<1> QED
  BY <1>1 DEF NewTable

LEMMA SlotsResize ==
  ASSUME TInv, SInv, NEW t \in Callers, Resize(t)
  PROVE  SInv'
<1>1. tpc[t] = "resize" /\ exits' = exits
  BY DEF Resize, ownVars
<1>2. PICK n \in DOMAIN tables : n = Len(tables) /\ n \in Nat /\ DOMAIN tables = 1..n
  BY TablesNumbered DEF TInv
<1>3. CASE ~HalfFull(probe[t].count, Capacity(n))
  <2>1. UNCHANGED tables /\ GoInsertOrWait(t, [probe[t] EXCEPT !.main = n])
    BY <1>2, <1>3 DEF Resize
  <2>2. \E place \in {"takeOver", "wait"} : \E p : GoOn(t, place, p)
    BY <2>1 DEF GoInsertOrWait
  <2> QED
    BY <1>1, <2>1, <2>2, SlotsStay
<1>4. CASE HalfFull(probe[t].count, Capacity(n))
  <2>1. PICK room \in NewCapacities(probe[t].count, Capacity(n)) :
          tables' = Append(tables, NewTable(room))
    BY <1>2, <1>4 DEF Resize
  <2>2. room \in Nat \ {0} /\ ~HalfFull(probe[t].count, room)
    BY <2>1 DEF NewCapacities
  <2>3. Capacity(n) \in Nat /\ Capacity(n) >= FirstSize
    BY CapacityOf DEF TInv, SInv
  <2>4. probe[t].count \in Int
    BY OfThread DEF Probes
  <2>5. room >= FirstSize
    BY <1>4, <2>2, <2>3, <2>4, SomeSlot DEF HalfFull
  <2>6. \A h \in DOMAIN tables : tables'[h] = tables[h]
    BY <2>1 DEF TInv, TableTyped
  <2>7. DOMAIN tables' = 1..n + 1 /\ tables'[n + 1] = NewTable(room)
    BY <1>2, <2>1 DEF TInv, TableTyped
  <2>8. \A u \in Callers : tpc'[u] = "leave" => tpc[u] = "leave"
    BY <1>2, <1>4 DEF Resize, GoOn, TInv, TableTyped
  <2>9. exits' \in Nat /\ exits \in Nat
    BY <1>1 DEF SInv
  <2>10. ASSUME NEW h \in DOMAIN tables
         PROVE  (Capacity(h) >= FirstSize /\ Cardinality(Leaving(h)) <= exits)'
    <3>1. Capacity(h)' = Capacity(h)
      BY <2>6 DEF Capacity
    <3>2. Leaving(h)' \in SUBSET Leaving(h)
      BY <2>6, <2>8 DEF Leaving, GivenUp
    <3>3. /\ IsFiniteSet(Leaving(h)) /\ Cardinality(Leaving(h)) \in Nat
          /\ Capacity(h) >= FirstSize /\ Cardinality(Leaving(h)) <= exits
      BY <2>10, LeavingFinite DEF TInv, SInv
    <3>4. IsFiniteSet(Leaving(h)') /\ Cardinality(Leaving(h)') <= Cardinality(Leaving(h))
      BY <3>2, <3>3, FS_Subset
    <3>5. Cardinality(Leaving(h)') \in Nat
      BY <3>4, FS_CardinalityType
    <3>6. Capacity(h)' >= FirstSize
      BY <3>1, <3>3
    <3>7. Cardinality(Leaving(h)') <= exits'
      BY <1>1, <2>9, <3>3, <3>4, <3>5
    <3> QED
      BY <3>6, <3>7
  <2>11. ASSUME NEW h, h = n + 1
         PROVE  (Capacity(h) >= FirstSize /\ Cardinality(Leaving(h)) <= exits)'
    <3>1. tables'[h] = NewTable(room)
      BY <2>7, <2>11
    <3>2. Capacity(h)' = room
      BY <2>2, <3>1, NewHash DEF Capacity
    <3>3. Leaving(h)' = {}
      BY <2>2, <3>1, NewHash, KeysApart DEF Leaving, GivenUp
    <3>4. Cardinality(Leaving(h)') = 0
      BY <3>3, FS_EmptySet
    <3>5. Capacity(h)' >= FirstSize
      BY <2>5, <3>2
    <3>6. Cardinality(Leaving(h)') <= exits'
      BY <2>9, <3>4
    <3> QED
      BY <3>5, <3>6
  <2>12. \A h \in DOMAIN tables' : h \in DOMAIN tables \/ h = n + 1
    BY <1>2, <2>7
  <2> QED
    BY <2>9, <2>10, <2>11, <2>12 DEF SInv
<1> QED
  BY <1>3, <1>4

LEMMA StepSInv ==
  ASSUME TInv, SInv, [TableNext]_tableVars
  PROVE  SInv'
<1>1. CASE UNCHANGED tableVars
  <2>1. UNCHANGED <<tables, exits, tpc>>
    BY <1>1 DEF tableVars, slotVars, ownVars
  <2> QED
    BY <2>1, QuietSlots
<1>2. ASSUME NEW t \in Callers, Exit(t) \/ Resize(t) PROVE SInv'
  BY <1>2, SlotsExit, SlotsResize
<1>3. ASSUME NEW t \in Callers, tpc[t] # "leave", UNCHANGED <<tables, exits>>,
             NEW place, NEW p, GoOn(t, place, p), place # "leave"
      PROVE  SInv'
  BY <1>3, SlotsStay
<1>4. ASSUME NEW t \in Callers, Call(t) \/ CountIn(t) \/ TestAndSet(t) \/ ResizeFails(t) \/ WaitForTable(t)
      PROVE  SInv'
  <2>1. UNCHANGED <<tables, exits>> /\ tpc[t] \in {"out", "count", "room", "resize", "wait"}
    BY <1>4 DEF Call, CountIn, TestAndSet, ResizeFails, WaitForTable, slotVars, ownVars
  <2>2. \E place \in {"find", "room", "resize", "takeOver", "wait", "out"} : \E p : GoOn(t, place, p)
    BY <1>4 DEF Call, CountIn, TestAndSet, ResizeFails, WaitForTable, GoInsertOrWait
  <2> QED
    BY <2>1, <2>2, <1>3
<1>5. ASSUME NEW t \in Callers, TakeOver(t) \/ Create(t) \/ CreateFails(t) \/ Subscribe(t)
                                \/ Uncount(t) \/ ReturnProducer(t) \/ Left(t)
      PROVE  SInv'
  <2>1. /\ UNCHANGED <<tables, exits>>
        /\ tpc[t] \in {"takeOver", "subscribe", "uncount", "return", "left"}
    BY <1>5 DEF TakeOver, Create, CreateFails, Subscribe, Uncount, ReturnProducer, Left, slotVars, ownVars
  <2>2. \E place \in {"takeOver", "out", "subscribe", "insert", "return"} : \E p : GoOn(t, place, p)
    BY <1>5 DEF TakeOver, Create, CreateFails, Subscribe, Uncount, ReturnProducer, Left, GoInsert
  <2> QED
    BY <2>1, <2>2, <1>3
<1>6. ASSUME NEW t \in Callers, Find(t) PROVE SInv'
  <2>1. UNCHANGED <<tables, exits>> /\ tpc[t] = "find"
    BY <1>6 DEF Find, slotVars, ownVars
  <2>2. \E place \in {"return", "move", "find", "count"} : \E p : GoOn(t, place, p)
    BY <1>6, <2>1 DEF Find, NotFoundIn, GoProbe, NextSlot
  <2> QED
    BY <2>1, <2>2, <1>3
<1>7. ASSUME NEW t \in Callers, Move(t) \/ Insert(t) PROVE SInv'
  <2>1. exits' = exits /\ tpc[t] \in {"move", "insert"}
    BY <1>7 DEF Move, Insert, ownVars
  <2>2. \E place \in {"return", "uncount", "move", "insert"} : \E p : GoOn(t, place, p)
    BY <1>7, <2>1 DEF Move, Insert, NextSlot
  <2>3. CASE UNCHANGED tables
    BY <2>1, <2>2, <2>3, <1>3
  <2>4. CASE KeyAt(t) \in {EmptyKey, ReusableKey} /\ SetSlot(t, t, probe[t].producer)
    <3>1. tpc'[t] # "leave" /\ \A u \in Callers : tpc'[u] = "leave" => tpc[u] = "leave"
      BY <2>2 DEF GoOn, TInv, TableTyped
    <3>2. probe[t].producer \in Nat /\ t # ReusableKey
      BY OfThread, KeysApart
    <3> QED
      BY <2>1, <2>4, <3>1, <3>2, SlotsChange
  <2> QED
    BY <1>7, <2>3, <2>4 DEF Move, Insert
<1>8. ASSUME NEW t \in Callers, Leave(t) PROVE SInv'
  <2>1. exits' = exits /\ tpc[t] = "leave"
    BY <1>8 DEF Leave, ownVars
  <2>2. \E place, p : GoOn(t, place, p)
    BY <1>8 DEF Leave, NextHash, GoProbe, NextSlot
  <2>3. CASE KeyAt(t) # t
    <3>1. UNCHANGED tables
      BY <1>8, <2>3 DEF Leave
    <3> QED
      BY <2>1, <2>2, <3>1, SlotsStay
  <2>4. CASE KeyAt(t) = t
    <3>1. PICK h \in DOMAIN tables : h = probe[t].hash /\ SlotAt(t) \in DOMAIN tables[h]
      <4>1. probe[t].hash \in DOMAIN tables
        BY <2>1, OfThread DEF Passed, Searching
      <4> QED
        BY <4>1, CapacityOf, OfThread DEF SlotAt
    <3>2. PICK p \in Nat : p = tables[h][SlotAt(t)].producer
      <4>1. tables[h] \in [0..Capacity(h) - 1 -> Slots] /\ DOMAIN tables[h] = 0..Capacity(h) - 1
        BY CapacityOf, OfThread
      <4>2. tables[h][SlotAt(t)] \in Slots
        BY <3>1, <4>1
      <4> QED
        BY <4>2 DEF Slots
    <3>3. SetSlot(t, ReusableKey, p)
      BY <1>8, <2>4, <3>1, <3>2 DEF Leave
    <3>4. \A u \in Callers : tpc'[u] = "leave" => tpc[u] = "leave"
      BY <2>1, <2>2 DEF GoOn, TInv, TableTyped
    <3> QED
      BY <2>1, <2>4, <3>3, <3>4, KeysApart, SlotsChange
  <2> QED
    BY <2>3, <2>4
<1> QED
  BY <1>1, <1>2, <1>4, <1>5, <1>6, <1>7, <1>8 DEF TableNext, Lookup

LEMMA InitSInv ==
  ASSUME TableInit
  PROVE  SInv
<1>1. exits = 0 /\ tables = <<NewTable(FirstSize)>>
  BY DEF TableInit
<1>2. \A u \in Callers : tpc[u] # "leave"
  BY DEF TableInit
<1>3. ASSUME NEW h \in DOMAIN tables PROVE Capacity(h) >= FirstSize /\ Cardinality(Leaving(h)) <= exits
  <2>1. tables[h] = NewTable(FirstSize)
    BY <1>1
  <2>2. Capacity(h) = FirstSize
    BY <2>1, NewHash, SomeSlot DEF Capacity
  <2>3. Leaving(h) = {}
    BY <2>1, NewHash, SomeSlot, KeysApart DEF Leaving, GivenUp
  <2>4. Cardinality(Leaving(h)) = 0
    BY <2>3, FS_EmptySet
  <2> QED
    BY <1>1, <2>2, <2>4, SomeSlot
<1> QED
  BY <1>1, <1>3 DEF SInv

\* A hash has an empty slot if fewer threads live or have ended than it has slots.
LEMMA FewFit ==
  ASSUME TInv, SInv, FewThreads
  PROVE  SlotsLeft
<1> SUFFICES ASSUME NEW h \in DOMAIN tables, \A s \in DOMAIN tables[h] : tables[h][s].key # EmptyKey
             PROVE  FALSE
  BY DEF SlotsLeft
<1>1. /\ IsFiniteSet(DOMAIN tables[h]) /\ IsFiniteSet(Leaving(h)) /\ Cardinality(Leaving(h)) \in Nat
      /\ Cardinality(DOMAIN tables[h]) = Capacity(h) /\ Capacity(h) \in Nat
  BY LeavingFinite, CapacityOf DEF TInv, Capacity
<1> DEFINE taken == {s \in DOMAIN tables[h] : tables[h][s].key \in Callers}
<1>2. IsFiniteSet(taken) /\ Cardinality(taken) \in Nat
  <2>1. IsFiniteSet(taken)
    BY <1>1, FS_Subset
  <2> QED
    BY <2>1, FS_CardinalityType
<1>3. IsFiniteSet(Callers) /\ Cardinality(Callers) \in Nat
  BY FS_CardinalityType DEF FewThreads
<1>4. Cardinality(taken) <= Cardinality(Callers)
  <2>1. SUFFICES ASSUME Cardinality(Callers) < Cardinality(taken) PROVE FALSE
    BY <1>2, <1>3
  <2> DEFINE f == [s \in taken |-> tables[h][s].key]
  <2>2. f \in [taken -> Callers]
    OBVIOUS
  <2> HIDE DEF f
  <2>3. \E x, y \in taken : x # y /\ f[x] = f[y]
    BY <1>2, <1>3, <2>1, <2>2, FS_PigeonHole
  <2>4. PICK x \in taken, y \in taken : x # y /\ tables[h][x].key = tables[h][y].key
    BY <2>3 DEF f
  <2>5. SlotOf(tables[h][x].key, h, x)
    BY <2>4, OfThread DEF Placed
  <2> QED
    BY <2>4, <2>5 DEF SlotOf
<1>5. \A s \in DOMAIN tables[h] : s \in taken \cup Leaving(h)
  <2>1. \A s \in DOMAIN tables[h] : tables[h][s].key \in Keys
    BY CapacityOf DEF TInv, Slots
  <2> QED
    BY <2>1 DEF Leaving, GivenUp, Keys
<1> HIDE DEF taken
<1>6. /\ IsFiniteSet(taken \cup Leaving(h))
      /\ Cardinality(taken \cup Leaving(h)) <= Cardinality(taken) + Cardinality(Leaving(h))
  <2>1. IsFiniteSet(taken \cap Leaving(h))
    BY <1>2, FS_Intersection
  <2>2. Cardinality(taken \cap Leaving(h)) \in Nat
    BY <2>1, FS_CardinalityType
  <2>3. /\ IsFiniteSet(taken \cup Leaving(h))
        /\ Cardinality(taken \cup Leaving(h)) =
             Cardinality(taken) + Cardinality(Leaving(h)) - Cardinality(taken \cap Leaving(h))
    BY <1>1, <1>2, FS_Union
  <2> QED
    BY <1>1, <1>2, <2>2, <2>3
<1>7. Cardinality(DOMAIN tables[h]) <= Cardinality(taken \cup Leaving(h))
  BY <1>5, <1>6, FS_Subset
<1>8. Cardinality(taken \cup Leaving(h)) \in Nat
  BY <1>6, FS_CardinalityType
<1>9. Capacity(h) >= FirstSize /\ Cardinality(Leaving(h)) <= exits /\ exits \in Nat
  BY DEF SInv
<1> QED
  BY <1>1, <1>2, <1>3, <1>4, <1>6, <1>7, <1>8, <1>9, SomeSlot DEF FewThreads

\* While fewer threads live or have ended than the first hash has slots, every
\* hash keeps an empty slot, so that every search of get_or_add_implicit_producer
\* ends, however the threads interleave and however large the hashes grow.
THEOREM SlotsForFew == TableSpec => [](FewThreads => SlotsLeft)
<1>1. TableInit => SInv
  BY InitSInv
<1>2. TInv /\ SInv /\ [TableNext]_tableVars => SInv'
  BY StepSInv
<1>3. TInv /\ SInv => (FewThreads => SlotsLeft)
  BY FewFit
<1> QED
  BY <1>1, <1>2, <1>3, AlwaysTInv, PTL DEF TableSpec

-----------------------------------------------------------------------------
(***************************************************************************)
(* Proofs about ConcurrentQueue.tla, for any number of threads and of      *)
(* producers: a call that returns less than it was asked for has found     *)
(* every producer empty.                                                   *)
(*                                                                         *)
(* A call has still to look at some producers, and whatever it has not     *)
(* found empty is among them.  What makes this hold is how the ways to     *)
(* look fit together: try_dequeue stops scoring early only if it has       *)
(* found something, and then walks past the best one it has tried; the     *)
(* search with a token ends where it began, and begins anew wherever it    *)
(* takes something; and a list that grows meanwhile grows at its head.     *)
(***************************************************************************)
CallPlaces == {"idle", "score", "best", "walk", "rotate", "current", "around"}
Calls == [kind : {"none", "single", "bulk"}, want : Nat, pos : Nat, best : Nat,
          bestSize : Nat, nonEmpty : Nat, alone : BOOLEAN]
Tokens == [initial : Nat, known : Nat, consumed : Nat, current : Nat, desired : Nat]

QueueTyped ==
  /\ size \in Seq(Nat)
  /\ producerCount \in Nat /\ Len(size) <= producerCount
  /\ globalOffset \in Nat
  /\ token \in [Takers -> Tokens]
  /\ qpc \in [Takers -> CallPlaces]
  /\ call \in [Takers -> Calls]
  /\ unchecked \in [Takers -> SUBSET Nat]

\* From pos down and round to current, in a list of n: the producers that the
\* search with a token has still to look at.
AroundTo(pos, current, n) ==
  {q \in 1..n : IF pos >= current THEN current < q /\ q <= pos
                ELSE q <= pos \/ current < q}

\* What the call of c has still to look at, at each place.
Scoring(c) ==
  qpc[c] = "score" =>
    /\ call[c].pos <= Len(size)
    /\ call[c].nonEmpty = 0 => call[c].bestSize = 0 /\ unchecked[c] \subseteq 1..call[c].pos
    /\ call[c].nonEmpty # 0 => call[c].best \in Listed
Walking(c) ==
  qpc[c] = "walk" =>
    /\ call[c].pos <= Len(size)
    /\ unchecked[c] \subseteq (1..call[c].pos) \ {call[c].best}
GoingAround(c) ==
  qpc[c] = "around" =>
    /\ call[c].best <= Len(size)
    /\ token[c].current \in 1..call[c].best /\ call[c].pos \in 1..call[c].best
    /\ unchecked[c] \subseteq AroundTo(call[c].pos, token[c].current, call[c].best)

Sought(c) ==
  /\ unchecked[c] \subseteq Listed
  /\ qpc[c] = "idle" => unchecked[c] = {}
  /\ qpc[c] = "best" => call[c].best \in Listed
  /\ qpc[c] = "current" => token[c].current \in Listed
  /\ token[c].desired # 0 => token[c].current \in Listed
  /\ Scoring(c) /\ Walking(c) /\ GoingAround(c)

QInv == QueueTyped /\ \A c \in Takers : Sought(c)

-----------------------------------------------------------------------------
\* The list as a ring.

LEMMA InRing ==
  ASSUME NEW n \in Nat \ {0}, NEW p \in Int, NEW k \in Int
  PROVE  Down(p, k, n) \in 1..n
BY DEF Down

\* One producer further down, and from the end to the front.
LEMMA OneDown ==
  ASSUME NEW n \in Nat \ {0}, NEW p \in 1..n
  PROVE  Down(p, 1, n) = IF p = 1 THEN n ELSE p - 1
BY DEF Down

\* Who looks at pos has one fewer to look at.
LEMMA AroundOne ==
  ASSUME NEW n \in Nat \ {0}, NEW pos \in 1..n, NEW current \in 1..n, pos # current
  PROVE  AroundTo(pos, current, n) \ {pos} \subseteq AroundTo(Down(pos, 1, n), current, n)
BY OneDown DEF AroundTo

\* Who starts behind p comes to all others.
LEMMA AroundAll ==
  ASSUME NEW n \in Nat \ {0}, NEW p \in 1..n
  PROVE  (1..n) \ {p} \subseteq AroundTo(Down(p, 1, n), p, n)
BY OneDown DEF AroundTo

\* Where the search ends nothing is left.
LEMMA AroundOver ==
  ASSUME NEW n \in Nat, NEW p \in 1..n
  PROVE  AroundTo(p, p, n) = {}
BY DEF AroundTo

-----------------------------------------------------------------------------
\* What the steps have in common.

\* Where a step of c leaves all threads.
LEMMA ProceedEffect ==
  ASSUME QueueTyped, NEW c \in Takers, NEW place \in CallPlaces, NEW r \in Calls, Proceed(c, place, r)
  PROVE  /\ qpc' \in [Takers -> CallPlaces] /\ call' \in [Takers -> Calls]
         /\ qpc'[c] = place /\ call'[c] = r
         /\ \A d \in Takers : d # c => qpc'[d] = qpc[d] /\ call'[d] = call[d]
BY DEF QueueTyped, Proceed

LEMMA NoCallTyped == NoCall \in Calls
BY DEF NoCall, Calls

\* A call that is at a place of the other threads goes on as it was, if nothing
\* is added to what it has not found empty.
LEMMA OthersSeek ==
  ASSUME QInv, NEW d \in Takers, qpc'[d] = qpc[d], token'[d] = token[d],
         call'[d].pos = call[d].pos, call'[d].best = call[d].best,
         call'[d].bestSize = call[d].bestSize, call'[d].nonEmpty = call[d].nonEmpty,
         unchecked'[d] \subseteq unchecked[d],
         Len(size) \in Nat, Len(size') \in Nat, Len(size') >= Len(size)
  PROVE  Sought(d)'
<1>1. Sought(d)
  BY DEF QInv
<1>2. \A p \in Listed : p \in Listed'
  BY DEF Listed
<1>3. Scoring(d)'
  BY <1>1, <1>2 DEF Sought, Scoring, QInv, QueueTyped, Calls
<1>4. Walking(d)'
  BY <1>1 DEF Sought, Walking, QInv, QueueTyped, Calls
<1>5. GoingAround(d)'
  BY <1>1 DEF Sought, GoingAround, QInv, QueueTyped, Calls
<1> QED
  BY <1>1, <1>2, <1>3, <1>4, <1>5 DEF Sought

\* What dequeue changes: p is found empty, or the call has what it wanted.
LEMMA DequeueEffect ==
  ASSUME QInv, NEW c \in Takers, NEW p \in Listed, NEW n \in 0..size[p], NEW want \in Nat,
         Dequeue(c, p, n, want)
  PROVE  /\ size' \in Seq(Nat) /\ Len(size') = Len(size)
         /\ producerCount' = producerCount
         /\ unchecked' \in [Takers -> SUBSET Nat]
         /\ \A d \in Takers : unchecked'[d] \subseteq unchecked[d]
         /\ p \notin unchecked'[c]
         /\ n >= want => unchecked'[c] = {}
<1>1. size[p] \in Nat /\ n \in Nat
  BY DEF QInv, QueueTyped, Listed
<1>2. size[p] - Least(n, want) \in Nat
  BY <1>1 DEF Least
<1>3. size' = [size EXCEPT ![p] = size[p] - Least(n, want)]
  BY DEF Dequeue
<1>4. size' \in Seq(Nat) /\ Len(size') = Len(size)
  BY <1>2, <1>3 DEF QInv, QueueTyped, Listed
<1>5. \A d \in Takers : unchecked'[d] \subseteq unchecked[d]
  BY DEF Dequeue
<1>6. unchecked' \in [Takers -> SUBSET Nat]
  <2>1. unchecked' = [d \in Takers |-> unchecked'[d]]
    BY DEF Dequeue
  <2> QED
    BY <1>5, <2>1 DEF QInv, QueueTyped
<1>7. (n >= want => unchecked'[c] = {}) /\ p \notin unchecked'[c]
  BY DEF Dequeue
<1> QED
  BY <1>4, <1>5, <1>6, <1>7 DEF Dequeue

LEMMA ApparentBounded ==
  ASSUME NEW c, NEW p \in Listed, QInv, NEW n \in Apparent(c, p)
  PROVE  n \in 0..size[p] /\ n \in Nat
BY DEF Apparent, QInv, QueueTyped, Listed

\* A step of c within its call, of which only what it says of c itself is left
\* to be shown.
LEMMA OwnCallStep ==
  ASSUME QInv, NEW c \in Takers, NEW place \in CallPlaces, NEW r \in Calls, Proceed(c, place, r),
         size' \in Seq(Nat), Len(size') = Len(size), producerCount' = producerCount,
         globalOffset' \in Nat,
         token' \in [Takers -> Tokens], \A d \in Takers : d # c => token'[d] = token[d],
         token'[c] = token[c] \/ token'[c].current \in Listed,
         unchecked' \in [Takers -> SUBSET Nat],
         \A d \in Takers : unchecked'[d] \subseteq unchecked[d],
         place = "idle" => unchecked'[c] = {},
         place = "best" => r.best \in Listed,
         place = "current" => token'[c].current \in Listed,
         Scoring(c)', Walking(c)', GoingAround(c)'
  PROVE  QInv'
<1>1. /\ qpc' \in [Takers -> CallPlaces] /\ call' \in [Takers -> Calls]
      /\ qpc'[c] = place /\ call'[c] = r
      /\ \A d \in Takers : d # c => qpc'[d] = qpc[d] /\ call'[d] = call[d]
  BY ProceedEffect DEF QInv
<1>2. QueueTyped'
  BY <1>1 DEF QInv, QueueTyped
<1>3. Listed' = Listed
  BY DEF Listed
<1>4. Len(size) \in Nat
  BY DEF QInv, QueueTyped
<1>5. \A d \in Takers : d # c => Sought(d)'
  BY <1>1, <1>4, OthersSeek
<1>6. unchecked'[c] \subseteq Listed'
  BY <1>3 DEF QInv, Sought
<1>7. token'[c].desired # 0 => token'[c].current \in Listed'
  BY <1>3 DEF QInv, Sought
<1>8. Sought(c)'
  BY <1>1, <1>3, <1>6, <1>7 DEF Sought, CallPlaces
<1> QED
  BY <1>2, <1>5, <1>8 DEF QInv

\* A call that returns has nothing left that it has not found empty.
LEMMA EndStep ==
  ASSUME QInv, NEW c \in Takers, EndCall(c),
         size' \in Seq(Nat), Len(size') = Len(size), producerCount' = producerCount,
         globalOffset' \in Nat,
         token' \in [Takers -> Tokens], \A d \in Takers : d # c => token'[d] = token[d],
         token'[c] = token[c] \/ token'[c].current \in Listed,
         unchecked' \in [Takers -> SUBSET Nat],
         \A d \in Takers : unchecked'[d] \subseteq unchecked[d],
         unchecked'[c] = {}
  PROVE  QInv'
<1>1. Proceed(c, "idle", NoCall) /\ "idle" \in CallPlaces /\ NoCall \in Calls
  BY NoCallTyped DEF EndCall, CallPlaces
<1>2. qpc'[c] = "idle"
  BY <1>1, ProceedEffect DEF QInv
<1>3. Scoring(c)' /\ Walking(c)' /\ GoingAround(c)'
  BY <1>2 DEF Scoring, Walking, GoingAround
<1> QED
  BY <1>1, <1>3, OwnCallStep

-----------------------------------------------------------------------------
\* The steps.

\* What is true of a call and its token before a step of it.
LEMMA OfCall ==
  ASSUME QInv, NEW c \in Takers
  PROVE  /\ call[c] \in Calls /\ token[c] \in Tokens /\ Sought(c)
         /\ Len(size) \in Nat /\ size \in Seq(Nat) /\ globalOffset \in Nat
         /\ token \in [Takers -> Tokens] /\ unchecked \in [Takers -> SUBSET Nat]
BY DEF QInv, QueueTyped

LEMMA ScoreStep ==
  ASSUME QInv, NEW c \in Takers, Score(c)
  PROVE  QInv'
<1> DEFINE r == call[c]
<1>1. /\ qpc[c] = "score" /\ r \in Calls /\ Scoring(c)
      /\ UNCHANGED <<size, producerCount, globalOffset, token>>
  BY OfCall DEF Score, Sought
<1>2. CASE r.pos = 0 \/ r.nonEmpty = 3
  <2>1. unchecked' = unchecked /\ IF r.nonEmpty = 0 THEN EndCall(c) ELSE Proceed(c, "best", r)
    BY <1>2 DEF Score
  <2>2. CASE r.nonEmpty = 0
    <3>1. unchecked[c] = {}
      BY <1>1, <1>2, <2>2 DEF Scoring
    <3> QED
      BY <1>1, <2>1, <2>2, <3>1, EndStep, OfCall
  <2>3. CASE r.nonEmpty # 0
    <3>1. Proceed(c, "best", r) /\ r.best \in Listed /\ "best" \in CallPlaces
      BY <1>1, <2>1, <2>3 DEF Scoring, CallPlaces
    <3>2. qpc'[c] = "best"
      BY <1>1, <3>1, ProceedEffect DEF QInv
    <3>3. Scoring(c)' /\ Walking(c)' /\ GoingAround(c)'
      BY <3>2 DEF Scoring, Walking, GoingAround
    <3> QED
      BY <1>1, <2>1, <3>1, <3>3, OwnCallStep, OfCall
  <2> QED
    BY <2>2, <2>3
<1>3. CASE r.pos # 0 /\ r.nonEmpty # 3
  <2>1. r.pos \in Listed
    BY <1>1, <1>3, OfCall DEF Scoring, Calls, Listed
  <2>2. PICK n \in Apparent(c, r.pos) :
          /\ Proceed(c, "score",
               [r EXCEPT !.pos = @ - 1,
                         !.nonEmpty = IF n > 0 THEN @ + 1 ELSE @,
                         !.best = IF n > r.bestSize THEN r.pos ELSE @,
                         !.bestSize = IF n > @ THEN n ELSE @])
          /\ unchecked' = [unchecked EXCEPT ![c] = IF n = 0 THEN @ \ {r.pos} ELSE @]
    BY <1>3 DEF Score
  <2>3. n \in Nat
    BY <2>1, <2>2, ApparentBounded
  <2> DEFINE q == [r EXCEPT !.pos = r.pos - 1,
                            !.nonEmpty = IF n > 0 THEN r.nonEmpty + 1 ELSE r.nonEmpty,
                            !.best = IF n > r.bestSize THEN r.pos ELSE r.best,
                            !.bestSize = IF n > r.bestSize THEN n ELSE r.bestSize]
  <2>4. Proceed(c, "score", q) /\ "score" \in CallPlaces
    BY <2>2 DEF CallPlaces
  <2>5. /\ q \in Calls /\ q.pos = r.pos - 1
        /\ q.nonEmpty = IF n > 0 THEN r.nonEmpty + 1 ELSE r.nonEmpty
        /\ q.best = IF n > r.bestSize THEN r.pos ELSE r.best
        /\ q.bestSize = IF n > r.bestSize THEN n ELSE r.bestSize
    <3>1. /\ r.pos - 1 \in Nat
          /\ (IF n > 0 THEN r.nonEmpty + 1 ELSE r.nonEmpty) \in Nat
          /\ (IF n > r.bestSize THEN r.pos ELSE r.best) \in Nat
          /\ (IF n > r.bestSize THEN n ELSE r.bestSize) \in Nat
      BY <1>1, <1>3, <2>3 DEF Calls
    <3> QED
      BY <1>1, <3>1 DEF Calls
  <2> HIDE DEF q
  <2>6. qpc'[c] = "score" /\ call'[c] = q
    BY <2>4, <2>5, ProceedEffect DEF QInv
  <2>7. /\ unchecked' \in [Takers -> SUBSET Nat]
        /\ \A d \in Takers : unchecked'[d] \subseteq unchecked[d]
        /\ n = 0 => unchecked'[c] = unchecked[c] \ {r.pos}
    BY <2>2, OfCall
  <2>8. Scoring(c)'
    <3>1. r.pos \in Nat /\ r.nonEmpty \in Nat /\ r.bestSize \in Nat /\ Listed' = Listed
      BY <1>1 DEF Calls, Listed
    <3>2. call'[c].pos <= Len(size')
      BY <1>1, <2>5, <2>6, <3>1, OfCall DEF Scoring
    <3>3. ASSUME call'[c].nonEmpty = 0
          PROVE  call'[c].bestSize = 0 /\ unchecked'[c] \subseteq 1..call'[c].pos
      <4>1. n = 0 /\ r.nonEmpty = 0
        BY <2>3, <2>5, <2>6, <3>1, <3>3
      <4>2. r.bestSize = 0 /\ unchecked[c] \subseteq 1..r.pos
        BY <1>1, <4>1 DEF Scoring
      <4> QED
        BY <2>5, <2>6, <2>7, <3>1, <4>1, <4>2
    <3>4. ASSUME call'[c].nonEmpty # 0
          PROVE  call'[c].best \in Listed'
      <4>1. CASE n > r.bestSize
        BY <2>1, <2>5, <2>6, <3>1, <4>1
      <4>2. CASE ~(n > r.bestSize)
        <5>1. r.nonEmpty # 0
          BY <1>1, <2>3, <2>5, <2>6, <3>1, <3>4, <4>2 DEF Scoring
        <5> QED
          BY <1>1, <2>5, <2>6, <3>1, <4>2, <5>1 DEF Scoring
      <4> QED
        BY <4>1, <4>2
    <3> QED
      BY <3>2, <3>3, <3>4 DEF Scoring
  <2>9. Walking(c)' /\ GoingAround(c)'
    BY <2>6 DEF Walking, GoingAround
  <2> QED
    BY <1>1, <2>4, <2>5, <2>7, <2>8, <2>9, OwnCallStep, OfCall
<1> QED
  BY <1>2, <1>3

LEMMA TakeBestStep ==
  ASSUME QInv, NEW c \in Takers, TakeBest(c)
  PROVE  QInv'
<1> DEFINE r == call[c]
<1>1. /\ qpc[c] = "best" /\ r \in Calls /\ r.best \in Listed /\ unchecked[c] \subseteq Listed
      /\ UNCHANGED <<globalOffset, token>>
  BY OfCall DEF TakeBest, Sought
<1>2. PICK n \in Apparent(c, r.best) :
        /\ Dequeue(c, r.best, n, 1)
        /\ IF n > 0 THEN EndCall(c) ELSE Proceed(c, "walk", [r EXCEPT !.pos = Len(size)])
  BY DEF TakeBest
<1>3. n \in 0..size[r.best] /\ n \in Nat
  BY <1>1, <1>2, ApparentBounded
<1>4. /\ size' \in Seq(Nat) /\ Len(size') = Len(size) /\ producerCount' = producerCount
      /\ unchecked' \in [Takers -> SUBSET Nat]
      /\ \A d \in Takers : unchecked'[d] \subseteq unchecked[d]
      /\ r.best \notin unchecked'[c]
      /\ n >= 1 => unchecked'[c] = {}
  BY <1>1, <1>2, <1>3, DequeueEffect
<1>5. CASE n > 0
  <2>1. EndCall(c) /\ unchecked'[c] = {}
    BY <1>2, <1>3, <1>4, <1>5
  <2> QED
    BY <1>1, <1>4, <2>1, EndStep, OfCall
<1>6. CASE n = 0
  <2> DEFINE q == [r EXCEPT !.pos = Len(size)]
  <2>1. Proceed(c, "walk", q) /\ "walk" \in CallPlaces
    BY <1>2, <1>6 DEF CallPlaces
  <2>2. q \in Calls /\ q.pos = Len(size) /\ q.best = r.best
    BY <1>1, OfCall DEF Calls
  <2> HIDE DEF q
  <2>3. qpc'[c] = "walk" /\ call'[c] = q
    BY <2>1, <2>2, ProceedEffect DEF QInv
  <2>4. Walking(c)'
    BY <1>1, <1>4, <2>2, <2>3, OfCall DEF Walking, Listed
  <2>5. Scoring(c)' /\ GoingAround(c)'
    BY <2>3 DEF Scoring, GoingAround
  <2> QED
    BY <1>1, <1>4, <2>1, <2>2, <2>4, <2>5, OwnCallStep, OfCall
<1> QED
  BY <1>3, <1>5, <1>6

LEMMA WalkStep ==
  ASSUME QInv, NEW c \in Takers, Walk(c)
  PROVE  QInv'
<1> DEFINE r == call[c]
<1>1. /\ qpc[c] = "walk" /\ r \in Calls /\ Walking(c) /\ r.pos <= Len(size)
      /\ unchecked[c] \subseteq (1..r.pos) \ {r.best}
      /\ UNCHANGED <<globalOffset, token>>
  BY OfCall DEF Walk, Sought, Walking
<1>2. r.pos \in Nat /\ r.want \in Nat
  BY <1>1 DEF Calls
<1>3. CASE r.pos = 0
  <2>1. EndCall(c) /\ UNCHANGED <<size, producerCount, unchecked>>
    BY <1>3 DEF Walk
  <2>2. unchecked'[c] = {}
    BY <1>1, <1>3, <2>1
  <2> QED
    BY <1>1, <2>1, <2>2, EndStep, OfCall
\* Otherwise one producer is left behind: the best, which was tried first, or one
\* that has been found empty.
<1>4. ASSUME NEW q \in Calls, Proceed(c, "walk", q), q.pos = r.pos - 1, q.best = r.best,
             r.pos # 0, r.pos \notin unchecked'[c],
             size' \in Seq(Nat), Len(size') = Len(size), producerCount' = producerCount,
             unchecked' \in [Takers -> SUBSET Nat],
             \A d \in Takers : unchecked'[d] \subseteq unchecked[d]
      PROVE  QInv'
  <2>1. qpc'[c] = "walk" /\ call'[c] = q /\ "walk" \in CallPlaces
    BY <1>4, ProceedEffect DEF QInv, CallPlaces
  <2>2. Walking(c)'
    BY <1>1, <1>2, <1>4, <2>1, OfCall DEF Walking
  <2>3. Scoring(c)' /\ GoingAround(c)'
    BY <2>1 DEF Scoring, GoingAround
  <2> QED
    BY <1>1, <1>4, <2>1, <2>2, <2>3, OwnCallStep, OfCall
<1>5. CASE r.pos # 0 /\ r.pos = r.best
  <2> DEFINE q == [r EXCEPT !.pos = r.pos - 1]
  <2>1. Proceed(c, "walk", q) /\ UNCHANGED <<size, producerCount, unchecked>>
    BY <1>5 DEF Walk
  <2>2. q \in Calls /\ q.pos = r.pos - 1 /\ q.best = r.best
    BY <1>1, <1>2, <1>5 DEF Calls
  <2> HIDE DEF q
  <2>3. r.pos \notin unchecked[c]
    BY <1>1, <1>5
  <2> QED
    BY <1>4, <1>5, <2>1, <2>2, <2>3, OfCall
<1>6. CASE r.pos # 0 /\ r.pos # r.best
  <2>1. r.pos \in Listed
    BY <1>1, <1>2, <1>6, OfCall DEF Listed
  <2>2. PICK n \in Apparent(c, r.pos) :
          /\ Dequeue(c, r.pos, n, r.want)
          /\ IF n >= r.want THEN EndCall(c)
             ELSE Proceed(c, "walk", [r EXCEPT !.pos = @ - 1, !.want = @ - n])
    BY <1>6 DEF Walk
  <2>3. n \in 0..size[r.pos] /\ n \in Nat
    BY <2>1, <2>2, ApparentBounded
  <2>4. /\ size' \in Seq(Nat) /\ Len(size') = Len(size) /\ producerCount' = producerCount
        /\ unchecked' \in [Takers -> SUBSET Nat]
        /\ \A d \in Takers : unchecked'[d] \subseteq unchecked[d]
        /\ r.pos \notin unchecked'[c]
        /\ n >= r.want => unchecked'[c] = {}
    BY <1>2, <2>1, <2>2, <2>3, DequeueEffect
  <2>5. CASE n >= r.want
    BY <1>1, <2>2, <2>4, <2>5, EndStep, OfCall
  <2>6. CASE ~(n >= r.want)
    <3> DEFINE q == [r EXCEPT !.pos = r.pos - 1, !.want = r.want - n]
    <3>1. Proceed(c, "walk", q)
      BY <2>2, <2>6
    <3>2. q \in Calls /\ q.pos = r.pos - 1 /\ q.best = r.best
      <4>1. r.pos - 1 \in Nat /\ r.want - n \in Nat
        BY <1>2, <1>6, <2>3, <2>6
      <4> QED
        BY <1>1, <4>1 DEF Calls
    <3> HIDE DEF q
    <3> QED
      BY <1>4, <1>6, <2>4, <3>1, <3>2
  <2> QED
    BY <2>5, <2>6
<1> QED
  BY <1>3, <1>5, <1>6

LEMMA RotateStep ==
  ASSUME QInv, NEW c \in Takers, UpdateCurrentProducer(c)
  PROVE  QInv'
<1> DEFINE n == Len(size)
<1>1. /\ qpc[c] = "rotate" /\ unchecked[c] \subseteq Listed
      /\ UNCHANGED <<size, producerCount, globalOffset, unchecked>>
  BY OfCall DEF UpdateCurrentProducer, Sought
<1>2. CASE n = 0
  <2>1. EndCall(c) /\ token' = token
    BY <1>2 DEF UpdateCurrentProducer
  <2>2. unchecked'[c] = {}
    BY <1>1, <1>2 DEF Listed
  <2> QED
    BY <1>1, <2>1, <2>2, EndStep, OfCall
<1>3. CASE n # 0
  <2>1. Proceed(c, "current", call[c]) /\ "current" \in CallPlaces
    BY <1>3 DEF UpdateCurrentProducer, CallPlaces
  <2>2. n \in Nat \ {0} /\ producerCount \in Nat \ {0} /\ token[c] \in Tokens
    BY <1>3, OfCall DEF QInv, QueueTyped
  <2> DEFINE Start == IF token[c].desired # 0 THEN token[c].desired
                      ELSE Down(n, producerCount - 1 - (token[c].initial % producerCount), n)
             Delta == ((globalOffset - token[c].known) % OffsetValues) % producerCount
  <2>3. Delta \in Int
    <3>1. globalOffset - token[c].known \in Int
      BY <2>2, OfCall DEF Tokens
    <3>2. (globalOffset - token[c].known) % OffsetValues \in Int
      BY <3>1, SomeOffset
    <3> QED
      BY <2>2, <3>2
  <2>4. Start \in Int
    <3>1. token[c].initial % producerCount \in Int
      BY <2>2 DEF Tokens
    <3>2. Down(n, producerCount - 1 - (token[c].initial % producerCount), n) \in 1..n
      <4>1. producerCount - 1 - (token[c].initial % producerCount) \in Int /\ n \in Int
        BY <2>2, <3>1
      <4> QED
        BY <2>2, <4>1, InRing
    <3> QED
      BY <2>2, <3>2 DEF Tokens
  <2> HIDE DEF Delta
  <2> HIDE DEF Start
  <2>5. PICK there : there = Down(Start, Delta, n)
    OBVIOUS
  <2>6. there \in Listed /\ there \in Nat
    <3>1. Down(Start, Delta, n) \in 1..n
      BY <2>2, <2>3, <2>4, InRing
    <3> QED
      BY <2>2, <2>5, <3>1 DEF Listed
  <2>7. token' = [token EXCEPT ![c] = Rotated(token[c], there)]
    BY <1>3, <2>5 DEF UpdateCurrentProducer, Start, Delta
  <2>8. Rotated(token[c], there) \in Tokens /\ Rotated(token[c], there).current = there
    BY <2>2, <2>6, OfCall DEF Rotated, Tokens
  <2>9. /\ token' \in [Takers -> Tokens] /\ token'[c].current = there
        /\ \A d \in Takers : d # c => token'[d] = token[d]
    BY <2>7, <2>8, OfCall
  <2>10. qpc'[c] = "current"
    BY <2>1, ProceedEffect, OfCall DEF QInv
  <2>11. Scoring(c)' /\ Walking(c)' /\ GoingAround(c)'
    BY <2>10 DEF Scoring, Walking, GoingAround
  <2> QED
    BY <1>1, <2>1, <2>6, <2>9, <2>11, OwnCallStep, OfCall
<1> QED
  BY <1>2, <1>3

LEMMA TakeCurrentStep ==
  ASSUME QInv, NEW c \in Takers, TakeCurrent(c)
  PROVE  QInv'
<1> DEFINE r == call[c]
<1>1. PICK p \in Listed : p = token[c].current
  BY OfCall DEF TakeCurrent, Sought
<1>2. r \in Calls /\ r.want \in Nat /\ unchecked[c] \subseteq Listed /\ token[c] \in Tokens
  BY OfCall DEF Sought, Calls
<1>3. PICK n \in Apparent(c, p) :
        LET consumed == token[c].consumed + Least(n, r.want) IN
        /\ Dequeue(c, p, n, r.want)
        /\ token' = [token EXCEPT ![c].consumed = Least(consumed, Quota + 1)]
        /\ globalOffset' = IF n >= r.want /\ QuotaTaken(r.kind, consumed)
                           THEN (globalOffset + 1) % OffsetValues ELSE globalOffset
        /\ IF n >= r.want THEN EndCall(c)
           ELSE Proceed(c, "around", [r EXCEPT !.want = @ - n, !.best = Len(size),
                                            !.pos = Down(p, 1, Len(size))])
  BY <1>1 DEF TakeCurrent
<1>4. n \in 0..size[p] /\ n \in Nat
  BY <1>3, ApparentBounded
<1>5. /\ size' \in Seq(Nat) /\ Len(size') = Len(size) /\ producerCount' = producerCount
      /\ unchecked' \in [Takers -> SUBSET Nat]
      /\ \A d \in Takers : unchecked'[d] \subseteq unchecked[d]
      /\ p \notin unchecked'[c]
      /\ n >= r.want => unchecked'[c] = {}
  BY <1>2, <1>3, <1>4, DequeueEffect
<1>6. globalOffset' \in Nat
  BY <1>3, SomeOffset, OfCall
<1>7. /\ token' \in [Takers -> Tokens] /\ token'[c].current = p
      /\ \A d \in Takers : d # c => token'[d] = token[d]
  <2> DEFINE k == Least(token[c].consumed + Least(n, r.want), Quota + 1)
  <2>1. k \in Nat
    BY <1>2, <1>4, QuotaNumber DEF Least, Tokens
  <2> DEFINE moved == [token[c] EXCEPT !.consumed = k]
  <2>2. token' = [token EXCEPT ![c] = moved]
    BY <1>3
  <2>3. moved \in Tokens /\ moved.current = p
    BY <1>1, <1>2, <2>1 DEF Tokens
  <2> HIDE DEF moved
  <2> QED
    BY <2>2, <2>3, OfCall
<1>8. CASE n >= r.want
  <2>1. EndCall(c) /\ unchecked'[c] = {}
    BY <1>3, <1>5, <1>8
  <2> QED
    BY <1>5, <1>6, <1>7, <2>1, EndStep
<1>9. CASE ~(n >= r.want)
  <2>1. PICK l \in Nat \ {0} : l = Len(size) /\ p \in 1..l
    BY OfCall DEF Listed
  <2>2. PICK next \in 1..l : next = Down(p, 1, l)
    <3>1. Down(p, 1, l) \in 1..l
      <4>1. p \in Int /\ l \in Nat \ {0}
        BY <2>1
      <4> QED
        BY <4>1, InRing
    <3> QED
      BY <3>1
  <2> DEFINE q == [r EXCEPT !.want = r.want - n, !.best = l, !.pos = next]
  <2>3. Proceed(c, "around", q) /\ "around" \in CallPlaces
    BY <1>3, <1>9, <2>1, <2>2 DEF CallPlaces
  <2>4. q \in Calls /\ q.best = l /\ q.pos = next
    <3>1. r.want - n \in Nat /\ next \in Nat
      BY <1>2, <1>4, <1>9
    <3> QED
      BY <1>2, <2>1, <3>1 DEF Calls
  <2> HIDE DEF q
  <2>5. qpc'[c] = "around" /\ call'[c] = q
    BY <2>3, <2>4, ProceedEffect DEF QInv
  <2>6. unchecked'[c] \subseteq AroundTo(next, p, l)
    <3>1. unchecked'[c] \subseteq (1..l) \ {p}
      BY <1>2, <1>5, <2>1 DEF Listed
    <3> QED
      BY <2>1, <2>2, <3>1, AroundAll
  <2>7. GoingAround(c)'
    BY <1>5, <1>7, <2>1, <2>4, <2>5, <2>6 DEF GoingAround
  <2>8. Scoring(c)' /\ Walking(c)'
    BY <2>5 DEF Scoring, Walking
  <2> QED
    BY <1>5, <1>6, <1>7, <2>3, <2>4, <2>7, <2>8, OwnCallStep
<1> QED
  BY <1>8, <1>9

\* Wherever the search takes something it begins anew, with all but the producer
\* it has just left empty; elsewhere one producer fewer is left.
LEMMA AroundStep ==
  ASSUME QInv, NEW c \in Takers, Around(c)
  PROVE  QInv'
<1> DEFINE r == call[c]
<1>1. PICK l \in Nat, p \in Nat, at \in Nat :
        l = call[c].best /\ p = call[c].pos /\ at = token[c].current
  BY OfCall DEF Calls, Tokens
<1>2. /\ qpc[c] = "around" /\ r \in Calls /\ r.want \in Nat /\ globalOffset' = globalOffset
      /\ l <= Len(size) /\ at \in 1..l /\ p \in 1..l
      /\ unchecked[c] \subseteq AroundTo(p, at, l)
  BY <1>1, OfCall DEF Around, Sought, GoingAround, Calls
<1>3. CASE p = at
  <2>1. EndCall(c) /\ UNCHANGED <<size, producerCount, token, unchecked>>
    BY <1>1, <1>3 DEF Around
  <2>2. unchecked'[c] = {}
    BY <1>2, <1>3, <2>1, AroundOver
  <2> QED
    BY <1>2, <2>1, <2>2, EndStep, OfCall
<1>4. CASE p # at
  <2>0. p \in Listed /\ l \in Nat \ {0}
    BY <1>2, OfCall DEF Listed
  <2>1. PICK n \in Apparent(c, p) :
          /\ Dequeue(c, p, n, r.want)
          /\ token' = IF n = 0 THEN token
                      ELSE [token EXCEPT ![c].current = p, ![c].consumed = Least(n, r.want)]
          /\ IF n >= r.want THEN EndCall(c)
             ELSE Proceed(c, "around", [r EXCEPT !.want = @ - n, !.pos = Down(@, 1, r.best)])
    BY <1>1, <1>4 DEF Around
  <2>2. n \in 0..size[p] /\ n \in Nat
    BY <2>0, <2>1, ApparentBounded
  <2>3. /\ size' \in Seq(Nat) /\ Len(size') = Len(size) /\ producerCount' = producerCount
        /\ unchecked' \in [Takers -> SUBSET Nat]
        /\ \A d \in Takers : unchecked'[d] \subseteq unchecked[d]
        /\ p \notin unchecked'[c]
        /\ n >= r.want => unchecked'[c] = {}
    BY <1>2, <2>0, <2>1, <2>2, DequeueEffect
  <2>4. PICK there \in Listed : there = IF n = 0 THEN at ELSE p
    BY <1>2, <2>0, OfCall DEF Listed
  <2>5. /\ token' \in [Takers -> Tokens] /\ token'[c].current = there
        /\ \A d \in Takers : d # c => token'[d] = token[d]
    <3>1. CASE n = 0
      BY <1>1, <2>1, <2>4, <3>1, OfCall
    <3>2. CASE n # 0
      <4> DEFINE k == Least(n, r.want)
      <4>1. k \in Nat
        BY <1>2, <2>2 DEF Least
      <4> DEFINE moved == [token[c] EXCEPT !.current = p, !.consumed = k]
      <4>2. token' = [token EXCEPT ![c] = moved]
        BY <2>1, <3>2
      <4>3. moved \in Tokens /\ moved.current = p
        BY <1>1, <4>1, OfCall DEF Tokens
      <4> HIDE DEF moved
      <4> QED
        BY <2>4, <3>2, <4>2, <4>3, OfCall
    <3> QED
      BY <3>1, <3>2
  <2>6. CASE n >= r.want
    <3>1. EndCall(c) /\ unchecked'[c] = {}
      BY <2>1, <2>3, <2>6
    <3> QED
      BY <1>2, <2>3, <2>5, <3>1, EndStep, OfCall
  <2>7. CASE ~(n >= r.want)
    <3>1. PICK next \in 1..l : next = Down(p, 1, l)
      <4>1. Down(p, 1, l) \in 1..l
        BY <2>0, <1>1, InRing
      <4> QED
        BY <4>1
    <3> DEFINE q == [r EXCEPT !.want = r.want - n, !.pos = next]
    <3>2. Proceed(c, "around", q) /\ "around" \in CallPlaces
      BY <1>1, <2>1, <2>7, <3>1 DEF CallPlaces
    <3>3. q \in Calls /\ q.best = l /\ q.pos = next
      <4>1. r.want - n \in Nat /\ next \in Nat
        BY <1>2, <2>2, <2>7
      <4> QED
        BY <1>1, <1>2, <4>1 DEF Calls
    <3> HIDE DEF q
    <3>4. qpc'[c] = "around" /\ call'[c] = q
      BY <3>2, <3>3, ProceedEffect DEF QInv
    <3>5. unchecked'[c] \subseteq AroundTo(next, there, l)
      <4>1. unchecked'[c] \subseteq AroundTo(p, at, l) \ {p}
        BY <1>2, <2>3
      <4>2. CASE n = 0
        BY <1>2, <1>4, <2>0, <2>4, <3>1, <4>1, <4>2, AroundOne
      <4>3. CASE n # 0
        <5>1. unchecked'[c] \subseteq (1..l) \ {p}
          BY <4>1 DEF AroundTo
        <5> QED
          BY <1>2, <2>0, <2>4, <3>1, <4>3, <5>1, AroundAll
      <4> QED
        BY <4>2, <4>3
    <3>6. GoingAround(c)'
      BY <1>2, <2>3, <2>4, <2>5, <3>1, <3>3, <3>4, <3>5 DEF GoingAround
    <3>7. Scoring(c)' /\ Walking(c)'
      BY <3>4 DEF Scoring, Walking
    <3> QED
      BY <1>2, <2>3, <2>5, <3>2, <3>3, <3>6, <3>7, OwnCallStep, OfCall
  <2> QED
    BY <2>6, <2>7
<1> QED
  BY <1>3, <1>4

-----------------------------------------------------------------------------
\* A call begins with the producers that have elements, all on the list.
LEMMA BeginStep ==
  ASSUME QInv, NEW c \in Takers, NEW place \in CallPlaces, NEW want \in Nat, NEW pos \in Nat,
         NEW kind \in {"none", "single", "bulk"}, Begin(c, place, want, pos, kind),
         \/ place \in {"score", "walk"} /\ pos = Len(size)
         \/ place = "rotate"
         \/ place = "current" /\ token[c].current \in Listed
  PROVE  QInv'
<1>1. /\ qpc' = [qpc EXCEPT ![c] = place]
      /\ call' = [d \in Takers |->
                IF d = c THEN [NoCall EXCEPT !.want = want, !.pos = pos, !.kind = kind,
                                 !.alone = \A e \in Takers \ {c} : qpc[e] = "idle"]
                ELSE [call[d] EXCEPT !.alone = qpc[d] = "idle"]]
      /\ unchecked' = [unchecked EXCEPT ![c] = {p \in Listed : size[p] > 0}]
      /\ UNCHANGED <<size, producerCount, globalOffset, token>>
  BY DEF Begin
<1>2. /\ call' \in [Takers -> Calls]
      /\ call'[c].pos = pos /\ call'[c].best = 0 /\ call'[c].bestSize = 0 /\ call'[c].nonEmpty = 0
      /\ \A d \in Takers : d # c => /\ call'[d].pos = call[d].pos
                                    /\ call'[d].best = call[d].best
                                    /\ call'[d].bestSize = call[d].bestSize
                                    /\ call'[d].nonEmpty = call[d].nonEmpty
  BY <1>1, NoCallTyped, OfCall DEF Calls, NoCall
<1>3. QueueTyped'
  <2>1. {p \in Listed : size[p] > 0} \subseteq Nat
    BY OfCall DEF Listed
  <2>2. unchecked' \in [Takers -> SUBSET Nat] /\ qpc' \in [Takers -> CallPlaces]
    BY <1>1, <2>1 DEF QInv, QueueTyped
  <2> QED
    BY <1>1, <1>2, <2>2 DEF QInv, QueueTyped
<1>4. ASSUME NEW d \in Takers, d # c PROVE Sought(d)'
  <2>1. qpc'[d] = qpc[d] /\ token'[d] = token[d] /\ unchecked'[d] \subseteq unchecked[d]
    BY <1>1, <1>4 DEF QInv, QueueTyped
  <2>2. Len(size) \in Nat /\ size' = size
    BY <1>1, OfCall
  <2> QED
    BY <1>2, <1>4, <2>1, <2>2, OthersSeek
<1>5. Listed' = Listed /\ unchecked'[c] \subseteq Listed /\ qpc'[c] = place
  BY <1>1 DEF Listed, QInv, QueueTyped
<1>6. /\ place \in {"score", "walk"} => pos = Len(size) /\ unchecked'[c] \subseteq 1..pos
      /\ Len(size') = Len(size) /\ Len(size) \in Nat /\ \A q \in 1..pos : q # 0
  <2>1. Len(size) \in Nat /\ size' = size /\ unchecked'[c] \subseteq 1..Len(size)
    BY <1>1, <1>5, OfCall DEF Listed
  <2>2. place \in {"score", "walk"} => pos = Len(size)
    OBVIOUS
  <2> QED
    BY <2>1, <2>2
<1>7. Scoring(c)'
  BY <1>2, <1>5, <1>6 DEF Scoring
<1>8. Walking(c)'
  BY <1>2, <1>5, <1>6 DEF Walking
<1>9. GoingAround(c)'
  BY <1>5 DEF GoingAround
<1>10. Sought(c)'
  BY <1>1, <1>5, <1>7, <1>8, <1>9, OfCall DEF Sought
<1> QED
  BY <1>3, <1>4, <1>10 DEF QInv

\* The list and what is in it may grow at any time, and a producer be emptied:
\* no call has more to look at for that.
LEMMA QuietCallStep ==
  ASSUME QInv, UNCHANGED <<token, qpc, call>>, size' \in Seq(Nat), Len(size') >= Len(size),
         producerCount' \in Nat, Len(size') <= producerCount', globalOffset' = globalOffset,
         unchecked' \in [Takers -> SUBSET Nat],
         \A d \in Takers : unchecked'[d] \subseteq unchecked[d]
  PROVE  QInv'
<1>1. QueueTyped'
  BY DEF QInv, QueueTyped
<1>2. Len(size) \in Nat /\ Len(size') \in Nat
  BY DEF QInv, QueueTyped
<1>3. \A d \in Takers : Sought(d)'
  BY <1>2, OthersSeek
<1> QED
  BY <1>1, <1>3 DEF QInv

LEMMA ProducersStep ==
  ASSUME QInv, CountProducer \/ LinkProducer \/ \E p \in Listed : EnqueueAt(p)
  PROVE  QInv'
<1>1. /\ size \in Seq(Nat) /\ producerCount \in Nat /\ Len(size) <= producerCount
      /\ unchecked \in [Takers -> SUBSET Nat] /\ Len(size) \in Nat
  BY DEF QInv, QueueTyped
<1>2. CASE CountProducer
  <2>1. producerCount' \in Nat /\ Len(size) <= producerCount'
    BY <1>1, <1>2 DEF CountProducer
  <2> QED
    BY <1>1, <1>2, <2>1, QuietCallStep DEF CountProducer
<1>3. CASE LinkProducer
  <2>1. size' \in Seq(Nat) /\ Len(size') = Len(size) + 1 /\ Len(size') <= producerCount'
    BY <1>1, <1>3 DEF LinkProducer
  <2> QED
    BY <1>1, <1>3, <2>1, QuietCallStep DEF LinkProducer
<1>4. ASSUME NEW p \in Listed, EnqueueAt(p) PROVE QInv'
  <2>1. size[p] + 1 \in Nat /\ size' = [size EXCEPT ![p] = size[p] + 1]
    BY <1>1, <1>4 DEF EnqueueAt, Listed
  <2>2. size' \in Seq(Nat) /\ Len(size') = Len(size)
    BY <1>1, <2>1 DEF Listed
  <2> QED
    BY <1>1, <1>4, <2>2, QuietCallStep DEF EnqueueAt
<1> QED
  BY <1>2, <1>3, <1>4

LEMMA TryDequeueFromStep ==
  ASSUME QInv, NEW c \in Takers, NEW p \in Listed, NEW max \in Nat, TryDequeueFrom(c, p, max)
  PROVE  QInv'
<1>1. UNCHANGED <<globalOffset, token, qpc, call>>
  BY DEF TryDequeueFrom
<1>2. PICK n \in 0..size[p] : Dequeue(c, p, n, max)
  <2>1. size[p] \in Nat
    BY OfCall DEF Listed
  <2> QED
    BY <2>1 DEF TryDequeueFrom
<1>3. /\ size' \in Seq(Nat) /\ Len(size') = Len(size) /\ producerCount' = producerCount
      /\ unchecked' \in [Takers -> SUBSET Nat]
      /\ \A d \in Takers : unchecked'[d] \subseteq unchecked[d]
  BY <1>2, DequeueEffect
<1>4. Len(size) \in Nat /\ producerCount \in Nat /\ Len(size) <= producerCount
  BY DEF QInv, QueueTyped
<1> QED
  BY <1>1, <1>3, <1>4, QuietCallStep

LEMMA CallsBegin ==
  ASSUME QInv, NEW c \in Takers, NEW max \in Nat, NEW kind \in {"single", "bulk"},
         TryDequeue(c) \/ TryDequeueBulk(c, max) \/ TryDequeueToken(c, max, kind)
  PROVE  QInv'
<1>1. Len(size) \in Nat
  BY OfCall
<1>2. CASE TryDequeue(c)
  BY <1>1, <1>2, BeginStep DEF TryDequeue, CallPlaces
<1>3. CASE TryDequeueBulk(c, max)
  BY <1>1, <1>3, BeginStep DEF TryDequeueBulk, CallPlaces
<1>4. CASE TryDequeueToken(c, max, kind)
  <2>1. CASE token[c].desired = 0 \/ token[c].known # globalOffset
    BY <1>4, <2>1, BeginStep DEF TryDequeueToken, CallPlaces
  <2>2. CASE ~(token[c].desired = 0 \/ token[c].known # globalOffset)
    <3>1. token[c].current \in Listed
      BY <2>2, OfCall DEF Sought
    <3> QED
      BY <1>4, <2>2, <3>1, BeginStep DEF TryDequeueToken, CallPlaces
  <2> QED
    BY <2>1, <2>2
<1> QED
  BY <1>2, <1>3, <1>4

LEMMA InitQInv ==
  ASSUME QueueInit
  PROVE  QInv
<1>1. PICK id \in [Takers -> 0..Cardinality(Takers) - 1] : token = [c \in Takers |-> NewToken(id[c])]
  BY DEF QueueInit
<1>2. \A c \in Takers : id[c] \in Nat
  BY TakersFinite, FS_CardinalityType
<1>3. ASSUME NEW c \in Takers PROVE NewToken(id[c]) \in Tokens
  <2>1. id[c] \in Nat /\ OffsetValues - 1 \in Nat
    BY <1>2, SomeOffset
  <2> QED
    BY <2>1 DEF NewToken, Tokens
<1>4. token \in [Takers -> Tokens] /\ \A c \in Takers : token[c].desired = 0
  BY <1>1, <1>3 DEF NewToken
<1>5. QueueTyped
  BY <1>4, NoCallTyped DEF QueueInit, QueueTyped, CallPlaces
<1>6. \A c \in Takers : qpc[c] = "idle" /\ unchecked[c] = {}
  BY DEF QueueInit
<1>7. \A c \in Takers : Sought(c)
  BY <1>4, <1>6 DEF Sought, Scoring, Walking, GoingAround
<1> QED
  BY <1>5, <1>7 DEF QInv

LEMMA StepQInv ==
  ASSUME QInv, [QueueNext]_queueVars
  PROVE  QInv'
<1>1. CASE CountProducer \/ LinkProducer \/ \E p \in Listed : EnqueueAt(p)
  BY <1>1, ProducersStep
<1>2. ASSUME NEW c \in Takers, TryDequeue(c) PROVE QInv'
  BY <1>2, CallsBegin
<1>3. ASSUME NEW c \in Takers, NEW max \in Wanted, TryDequeueBulk(c, max) PROVE QInv'
  BY <1>3, CallsBegin, WantedNumbers
<1>4. ASSUME NEW c \in Takers, NEW p \in Listed, NEW max \in Wanted, TryDequeueFrom(c, p, max)
      PROVE  QInv'
  BY <1>4, TryDequeueFromStep, WantedNumbers
<1>5. ASSUME NEW c \in Takers, TryDequeueToken(c, 1, "single") PROVE QInv'
  BY <1>5, CallsBegin
<1>6. ASSUME NEW c \in Takers, NEW max \in Wanted, TryDequeueToken(c, max, "bulk") PROVE QInv'
  BY <1>6, CallsBegin, WantedNumbers
<1>7. ASSUME NEW c \in Takers, InCall(c) PROVE QInv'
  BY <1>7, ScoreStep, TakeBestStep, WalkStep, RotateStep, TakeCurrentStep, AroundStep DEF InCall
<1>8. CASE UNCHANGED queueVars
  <2>1. UNCHANGED <<token, qpc, call, size, producerCount, globalOffset, unchecked>>
    BY <1>8 DEF queueVars
  <2> QED
    BY <2>1 DEF QInv, QueueTyped, Sought, Scoring, Walking, GoingAround, Listed
<1> QED
  BY <1>1, <1>2, <1>3, <1>4, <1>5, <1>6, <1>7, <1>8 DEF QueueNext

-----------------------------------------------------------------------------
\* However many producers there are and come meanwhile, and whatever other
\* consumers do: try_dequeue, try_dequeue_bulk and their variants return less than
\* they were asked for only when they have found empty, at some time in the call,
\* every producer that had elements when it began.
THEOREM CallsMissNothing == QueueSpec => []NothingMissed
<1>1. QueueInit => QInv
  BY InitQInv
<1>2. QInv /\ [QueueNext]_queueVars => QInv'
  BY StepQInv
<1>3. QInv => NothingMissed
  BY DEF QInv, Sought, NothingMissed
<1> QED
  BY <1>1, <1>2, <1>3, PTL DEF QueueSpec
=============================================================================
