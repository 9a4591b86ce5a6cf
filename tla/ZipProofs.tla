------------------------------ MODULE ZipProofs -------------------------------
(***************************************************************************)
(* Proofs about the zip reader: the look-up of a name (ZipDirectory.tla),  *)
(* the archive and its class (ZipFile.tla) and extraction (Inflate.tla).   *)
(*                                                                         *)
(* Main results: LookupFinds, ArchiveReadsBack, OwnContentOnly,            *)
(* ExtractedExactly and SoundIsExtracted.                                  *)
(***************************************************************************)
EXTENDS ZipDirectory, ZipFile, Inflate, SequenceTheorems, WellFoundedInduction, TLAPS

-----------------------------------------------------------------------------
(***************************************************************************)
(* The order of names.  A name that is continued by zeros, with letters    *)
(* from one on, differs from every other one at some place, and the first  *)
(* such place decides (Before).                                            *)
(***************************************************************************)
Padded(a, i) == IF i <= Len(a) THEN Lower(a[i]) + 1 ELSE 0
Places == Nat \ {0}
Before(a, b) == \E k \in Places : /\ Padded(a, k) < Padded(b, k)
                                  /\ \A i \in 1..k - 1 : Padded(a, i) = Padded(b, i)
Same(a, b) == \A i \in Places : Padded(a, i) = Padded(b, i)

LEMMA LeastOf ==
  ASSUME NEW S, S \subseteq Nat, S # {}
  PROVE  Min(S) \in S /\ \A i \in S : Min(S) <= i
<1>1. \E x \in S : \A y \in S : x <= y
  <2>1. IsWellFoundedOn(OpToRel(<, Nat), Nat)
    BY NatLessThanWellFounded
  <2>2. PICK x \in S : \A y \in S : ~ (<<y, x>> \in OpToRel(<, Nat))
    BY <2>1, WFMin, Zenon
  <2>3. \A y \in S : ~ (y < x)
    BY <2>2 DEF OpToRel
  <2> QED
    BY <2>3
<1> QED
  BY <1>1 DEF Min

LEMMA PaddedType ==
  ASSUME NEW a \in Seq(Nat), NEW i \in Places
  PROVE  /\ Padded(a, i) \in Nat /\ (i <= Len(a) <=> Padded(a, i) > 0)
         /\ i <= Len(a) => Lower(a[i]) \in Nat /\ Padded(a, i) = Lower(a[i]) + 1
<1>1. ASSUME i <= Len(a) PROVE Lower(a[i]) \in Nat
  <2>1. a[i] \in Nat
    BY <1>1, ElementOfSeq DEF Places
  <2>2. Alphabet \in Nat \ {0}
    BY NamesAssumption DEF NamesAssumption
  <2> QED
    BY <2>1, <2>2 DEF Lower
<1> QED
  BY <1>1 DEF Padded

LEMMA DifferencesAre ==
  ASSUME NEW a \in Seq(Nat), NEW b \in Seq(Nat)
  PROVE  /\ Differences(a, b) = {i \in Places : i <= Len(a) /\ i <= Len(b) /\ Padded(a, i) # Padded(b, i)}
         /\ Differences(b, a) = Differences(a, b)
<1>1. Len(a) \in Nat /\ Len(b) \in Nat
  OBVIOUS
<1>2. {Len(a), Len(b)} \subseteq Nat /\ {Len(a), Len(b)} # {}
  BY <1>1
<1>3. PICK m \in Nat : m = Min({Len(a), Len(b)}) /\ m <= Len(a) /\ m <= Len(b) /\ m \in {Len(a), Len(b)}
  BY <1>2, LeastOf
<1>4. \A i : i \in 1..m <=> i \in Places /\ i <= Len(a) /\ i <= Len(b)
  BY <1>1, <1>3 DEF Places
<1>5. \A i \in 1..m : Lower(a[i]) # Lower(b[i]) <=> Padded(a, i) # Padded(b, i)
  <2> SUFFICES ASSUME NEW i \in 1..m PROVE Lower(a[i]) # Lower(b[i]) <=> Padded(a, i) # Padded(b, i)
    OBVIOUS
  <2>1. i \in Places /\ i <= Len(a) /\ i <= Len(b)
    BY <1>4
  <2>2. /\ Lower(a[i]) \in Nat /\ Padded(a, i) = Lower(a[i]) + 1
        /\ Lower(b[i]) \in Nat /\ Padded(b, i) = Lower(b[i]) + 1
    BY <2>1, PaddedType
  <2> QED
    BY <2>2
<1>6. Differences(a, b) = {i \in 1..m : Lower(a[i]) # Lower(b[i])}
  BY <1>3 DEF Differences
<1>7. {Len(b), Len(a)} = {Len(a), Len(b)}
  OBVIOUS
<1>8. Differences(b, a) = {i \in 1..m : Lower(b[i]) # Lower(a[i])}
  BY <1>3, <1>7 DEF Differences
<1> QED
  BY <1>4, <1>5, <1>6, <1>8

\* What the first difference says; without one the length decides.
LEMMA OrderIs ==
  ASSUME NEW a \in Seq(Nat), NEW b \in Seq(Nat)
  PROVE  /\ Order(a, b) \in Int /\ Order(b, a) = -Order(a, b)
         /\ Order(a, b) < 0 => Before(a, b)
         /\ Order(a, b) = 0 => Same(a, b)
<1>1. Len(a) \in Nat /\ Len(b) \in Nat
  OBVIOUS
<1>2. PICK D : D = Differences(a, b) /\ D = Differences(b, a)
  BY DifferencesAre
<1>3. D = {i \in Places : i <= Len(a) /\ i <= Len(b) /\ Padded(a, i) # Padded(b, i)}
  BY <1>2, DifferencesAre
<1>4. CASE D = {}
  <2>1. Order(a, b) = Len(a) - Len(b) /\ Order(b, a) = Len(b) - Len(a)
    BY <1>2, <1>4 DEF Order
  <2>2. \A i \in Places : i <= Len(a) /\ i <= Len(b) => Padded(a, i) = Padded(b, i)
    BY <1>3, <1>4
  <2>3. ASSUME Len(a) < Len(b) PROVE Before(a, b)
    <3>1. PICK k \in Places : k = Len(a) + 1
      BY <1>1 DEF Places
    <3>a. ~(k <= Len(a)) /\ k <= Len(b)
      BY <1>1, <2>3, <3>1
    <3>2. Padded(a, k) = 0 /\ Padded(b, k) > 0
      BY <3>a, PaddedType DEF Padded
    <3>3. \A i \in 1..k - 1 : Padded(a, i) = Padded(b, i)
      BY <1>1, <2>2, <2>3, <3>1 DEF Places
    <3> QED
      BY <3>2, <3>3 DEF Before
  <2>4. ASSUME Len(a) = Len(b) PROVE Same(a, b)
    BY <1>1, <2>2, <2>4 DEF Same, Padded, Places
  <2> QED
    BY <1>1, <2>1, <2>3, <2>4
<1>5. CASE D # {}
  <2>1. D \subseteq Nat
    BY <1>3 DEF Places
  <2>2. PICK k \in D : k = Min(D) /\ \A i \in D : k <= i
    BY <1>5, <2>1, LeastOf
  <2>3. k \in Places /\ k <= Len(a) /\ k <= Len(b) /\ Padded(a, k) # Padded(b, k)
    BY <1>3, <2>2
  <2>4. Order(a, b) = Lower(a[k]) - Lower(b[k]) /\ Order(b, a) = Lower(b[k]) - Lower(a[k])
    BY <1>2, <1>5, <2>2 DEF Order, AtFirst
  <2>5. /\ Lower(a[k]) \in Nat /\ Padded(a, k) = Lower(a[k]) + 1
        /\ Lower(b[k]) \in Nat /\ Padded(b, k) = Lower(b[k]) + 1
    BY <2>3, PaddedType
  <2>6. \A i \in 1..k - 1 : Padded(a, i) = Padded(b, i)
    <3> SUFFICES ASSUME NEW i \in 1..k - 1, Padded(a, i) # Padded(b, i) PROVE FALSE
      OBVIOUS
    <3>1. i \in Places /\ i < k /\ i <= Len(a) /\ i <= Len(b)
      BY <1>1, <2>3 DEF Places
    <3>2. i \in D
      BY <1>3, <3>1
    <3> QED
      BY <2>2, <2>3, <3>1, <3>2 DEF Places
  <2>7. Order(a, b) < 0 => Padded(a, k) < Padded(b, k)
    BY <2>4, <2>5
  <2>8. Order(a, b) # 0
    BY <2>3, <2>4, <2>5
  <2>9. Order(a, b) < 0 => Before(a, b)
    BY <2>3, <2>6, <2>7 DEF Before
  <2>10. Order(a, b) \in Int /\ Order(b, a) = -Order(a, b)
    <3>1. PICK x \in Nat, y \in Nat : x = Lower(a[k]) /\ y = Lower(b[k])
      BY <2>5
    <3>2. Order(a, b) = x - y /\ Order(b, a) = y - x
      BY <2>4, <3>1
    <3>3. x - y \in Int /\ y - x = -(x - y)
      OBVIOUS
    <3> QED
      BY <3>2, <3>3
  <2> QED
    BY <2>8, <2>9, <2>10
<1> QED
  BY <1>4, <1>5

LEMMA BeforeOnly ==
  ASSUME NEW a \in Seq(Nat), NEW b \in Seq(Nat), Before(a, b)
  PROVE  ~Before(b, a) /\ ~Same(a, b) /\ ~Same(b, a)
<1>1. PICK k \in Places : /\ Padded(a, k) < Padded(b, k)
                          /\ \A i \in 1..k - 1 : Padded(a, i) = Padded(b, i)
  BY DEF Before
<1>2. Padded(a, k) \in Nat /\ Padded(b, k) \in Nat
  BY PaddedType
<1>3. ~Same(a, b) /\ ~Same(b, a)
  BY <1>1, <1>2 DEF Same
<1>4. ASSUME Before(b, a) PROVE FALSE
  <2>1. PICK l \in Places : /\ Padded(b, l) < Padded(a, l)
                            /\ \A i \in 1..l - 1 : Padded(b, i) = Padded(a, i)
    BY <1>4 DEF Before
  <2>2. Padded(a, l) \in Nat /\ Padded(b, l) \in Nat
    BY PaddedType
  <2>3. k = l \/ k \in 1..l - 1 \/ l \in 1..k - 1
    BY DEF Places
  <2> QED
    BY <1>1, <1>2, <2>1, <2>2, <2>3
<1> QED
  BY <1>3, <1>4

LEMMA BeforeChain ==
  ASSUME NEW a \in Seq(Nat), NEW b \in Seq(Nat), NEW c \in Seq(Nat), Before(a, b), Before(b, c)
  PROVE  Before(a, c)
<1>1. PICK k \in Places : /\ Padded(a, k) < Padded(b, k)
                          /\ \A i \in 1..k - 1 : Padded(a, i) = Padded(b, i)
  BY DEF Before
<1>2. PICK l \in Places : /\ Padded(b, l) < Padded(c, l)
                          /\ \A i \in 1..l - 1 : Padded(b, i) = Padded(c, i)
  BY DEF Before
<1>3. /\ Padded(a, k) \in Nat /\ Padded(b, k) \in Nat /\ Padded(c, k) \in Nat
      /\ Padded(a, l) \in Nat /\ Padded(b, l) \in Nat /\ Padded(c, l) \in Nat
  BY PaddedType
<1>4. PICK m \in Places : m = (IF k < l THEN k ELSE l)
  OBVIOUS
<1>5. \A i \in 1..m - 1 : i \in 1..k - 1 /\ i \in 1..l - 1
  BY <1>4 DEF Places
<1>6. \A i \in 1..m - 1 : Padded(a, i) = Padded(c, i)
  BY <1>1, <1>2, <1>5
<1>7. Padded(a, m) < Padded(c, m)
  <2>1. k = l \/ (k < l /\ k \in 1..l - 1) \/ (l < k /\ l \in 1..k - 1)
    BY DEF Places
  <2> QED
    BY <1>1, <1>2, <1>3, <1>4, <2>1 DEF Places
<1> QED
  BY <1>6, <1>7 DEF Before

LEMMA SameBefore ==
  ASSUME NEW a, NEW b, NEW c, Same(a, b)
  PROVE  (Before(b, c) => Before(a, c)) /\ (Before(c, a) => Before(c, b)) /\ Same(b, a)
<1>1. \A k \in Places : \A i \in 1..k - 1 : i \in Places
  BY DEF Places
<1> QED
  BY <1>1 DEF Same, Before

\* Order is a total order of names but for case.
LEMMA OrderFacts ==
  ASSUME NEW a \in Seq(Nat), NEW b \in Seq(Nat), NEW c \in Seq(Nat)
  PROVE  /\ Order(a, b) \in Int /\ Order(a, a) = 0 /\ Order(b, a) = -Order(a, b)
         /\ Order(a, b) <= 0 /\ Order(b, c) <= 0 => Order(a, c) <= 0
         /\ Order(a, b) < 0 /\ Order(b, c) <= 0 => Order(a, c) < 0
         /\ Order(a, b) <= 0 /\ Order(b, c) < 0 => Order(a, c) < 0
<1>1. ASSUME NEW x \in Seq(Nat), NEW y \in Seq(Nat)
      PROVE  /\ Order(x, y) \in Int /\ Order(y, x) = -Order(x, y)
             /\ Order(x, y) < 0 <=> Before(x, y)
             /\ Order(x, y) = 0 <=> Same(x, y)
             /\ Order(x, y) > 0 <=> Before(y, x)
  <2>1. /\ Order(x, y) \in Int /\ Order(y, x) \in Int /\ Order(y, x) = -Order(x, y)
        /\ Order(x, y) < 0 => Before(x, y)
        /\ Order(x, y) = 0 => Same(x, y)
        /\ Order(y, x) < 0 => Before(y, x)
    BY OrderIs
  <2>2. /\ Before(x, y) => ~Before(y, x) /\ ~Same(x, y)
        /\ Before(y, x) => ~Before(x, y) /\ ~Same(x, y)
    BY BeforeOnly
  <2>3. Order(x, y) < 0 \/ Order(x, y) = 0 \/ Order(y, x) < 0
    BY <2>1
  <2> QED
    BY <2>1, <2>2, <2>3
<1>2. Order(a, a) = 0
  BY <1>1 DEF Same
<1>3. Order(a, b) < 0 /\ Order(b, c) < 0 => Order(a, c) < 0
  BY <1>1, BeforeChain
<1>4. Order(a, b) = 0 /\ Order(b, c) < 0 => Order(a, c) < 0
  BY <1>1, SameBefore
<1>5. Order(a, b) < 0 /\ Order(b, c) = 0 => Order(a, c) < 0
  BY <1>1, SameBefore
<1>6. Order(a, b) = 0 /\ Order(b, c) = 0 => Order(a, c) = 0
  BY <1>1 DEF Same
<1>7. Order(a, b) \in Int /\ Order(b, c) \in Int /\ Order(a, c) \in Int /\ Order(b, a) = -Order(a, b)
  BY <1>1
<1> QED
  BY <1>2, <1>3, <1>4, <1>5, <1>6, <1>7

LEMMA OrderSameName ==
  ASSUME NEW a \in Seq(Nat), NEW b \in Seq(Nat)
  PROVE  Order(a, b) = 0 <=> SameName(a, b)
<1>1. Len(a) \in Nat /\ Len(b) \in Nat
  OBVIOUS
<1>2. Order(a, b) = 0 <=> Same(a, b)
  <2>1. Order(a, b) \in Int /\ Order(b, a) = -Order(a, b) /\ Order(b, a) \in Int
    BY OrderFacts
  <2>2. /\ Order(a, b) < 0 => ~Same(a, b)
        /\ Order(b, a) < 0 => ~Same(a, b)
    BY OrderIs, BeforeOnly
  <2> QED
    BY <2>1, <2>2, OrderIs
<1>3. ASSUME Same(a, b) PROVE SameName(a, b)
  <2>1. Len(a) = Len(b)
    <3>1. ASSUME Len(a) # Len(b) PROVE FALSE
      <4>1. PICK k \in Places : k = (IF Len(a) < Len(b) THEN Len(a) ELSE Len(b)) + 1
        BY <1>1 DEF Places
      <4>2. Padded(a, k) = Padded(b, k)
        BY <1>3 DEF Same
      <4>3. k <= Len(a) <=> k <= Len(b)
        BY <4>2, PaddedType
      <4> QED
        BY <1>1, <3>1, <4>1, <4>3
    <3> QED
      BY <3>1
  <2>2. ASSUME NEW i \in 1..Len(a) PROVE Lower(a[i]) = Lower(b[i])
    <3>1. i \in Places /\ i <= Len(a) /\ i <= Len(b)
      BY <1>1, <2>1 DEF Places
    <3>2. Padded(a, i) = Padded(b, i)
      BY <1>3, <3>1 DEF Same
    <3> QED
      BY <3>1, <3>2, PaddedType
  <2> QED
    BY <2>1, <2>2 DEF SameName
<1>4. ASSUME SameName(a, b) PROVE Same(a, b)
  BY <1>1, <1>4 DEF SameName, Same, Padded, Places
<1> QED
  BY <1>2, <1>3, <1>4

-----------------------------------------------------------------------------
(***************************************************************************)
(* The heap sort.  f stands for the indices: f[p] is the entry at position *)
(* p.                                                                      *)
(***************************************************************************)
Positions == 0..Size - 1
EntryName(f, p) == names[f[p] + 1]
AtMost(f, p, q) == Order(EntryName(f, p), EntryName(f, q)) <= 0
ChildOf(c, p) == c = 2 * p + 1 \/ c = 2 * p + 2

\* From node s on no node of a heap of n is less than its children, r excepted;
\* and the children of r are no greater than its parent.
HeapBut(f, s, n, r) ==
  \A p, c \in Positions : s <= p /\ c < n /\ ChildOf(c, p) =>
    IF p # r THEN AtMost(f, c, p)
             ELSE \A g \in Positions : s <= g /\ ChildOf(r, g) => AtMost(f, c, g)
Heap(f, s, n) == \A p, c \in Positions : s <= p /\ c < n /\ ChildOf(c, p) => AtMost(f, c, p)

\* From n on the positions are in order, and nothing before them is greater.
InOrderFrom(f, n) == \A p, q \in Positions : n <= q /\ p <= q => AtMost(f, p, q)

NamesTyped == names \in Seq(FileNames) /\ Size \in Nat
Arranges(f) == /\ f \in [Positions -> Positions]
               /\ \A i \in Positions : \E p \in Positions : f[p] = i
Exchanged(f, i, j) == [f EXCEPT ![i] = f[j], ![j] = f[i]]

LEMMA EntryNameType ==
  ASSUME NamesTyped, NEW f, Arranges(f), NEW p \in Positions
  PROVE  EntryName(f, p) \in FileNames /\ EntryName(f, p) \in Seq(Nat)
<1>1. f[p] \in 0..Size - 1
  BY DEF Arranges, Positions
<1>2. f[p] + 1 \in 1..Len(names) /\ names \in Seq(FileNames)
  BY <1>1 DEF Size, NamesTyped
<1>3. EntryName(f, p) \in FileNames
  BY <1>2, ElementOfSeq DEF EntryName
<1> QED
  BY <1>3, NamesAssumption DEF NamesAssumption

LEMMA AtMostChain ==
  ASSUME NamesTyped, NEW f, Arranges(f), NEW p \in Positions, NEW q \in Positions, NEW r \in Positions
  PROVE  /\ AtMost(f, p, p)
         /\ AtMost(f, p, q) /\ AtMost(f, q, r) => AtMost(f, p, r)
         /\ ~AtMost(f, p, q) => AtMost(f, q, p)
<1>1. EntryName(f, p) \in Seq(Nat) /\ EntryName(f, q) \in Seq(Nat) /\ EntryName(f, r) \in Seq(Nat)
  BY EntryNameType
<1> DEFINE x == EntryName(f, p)
           y == EntryName(f, q)
           z == EntryName(f, r)
<1>2. /\ Order(x, y) \in Int /\ Order(x, x) = 0 /\ Order(y, x) = -Order(x, y)
      /\ Order(x, y) <= 0 /\ Order(y, z) <= 0 => Order(x, z) <= 0
  BY <1>1, OrderFacts
<1> QED
  BY <1>2 DEF AtMost

LEMMA ExchangedArranges ==
  ASSUME NEW f, Arranges(f), NEW i \in Positions, NEW j \in Positions
  PROVE  /\ Arranges(Exchanged(f, i, j))
         /\ Exchanged(f, i, j)[i] = f[j] /\ Exchanged(f, i, j)[j] = f[i]
         /\ \A p \in Positions : p # i /\ p # j => Exchanged(f, i, j)[p] = f[p]
<1> DEFINE h == Exchanged(f, i, j)
<1>1. f \in [Positions -> Positions]
  BY DEF Arranges
<1>2. h \in [Positions -> Positions] /\ h[i] = f[j] /\ h[j] = f[i]
      /\ \A p \in Positions : p # i /\ p # j => h[p] = f[p]
  BY <1>1 DEF Exchanged
<1>3. ASSUME NEW e \in Positions PROVE \E p \in Positions : h[p] = e
  <2>1. PICK p \in Positions : f[p] = e
    BY DEF Arranges
  <2>2. CASE p = i
    BY <1>2, <2>1, <2>2
  <2>3. CASE p = j
    BY <1>2, <2>1, <2>3
  <2>4. CASE p # i /\ p # j
    BY <1>2, <2>1, <2>4
  <2> QED
    BY <2>2, <2>3, <2>4
<1> QED
  BY <1>2, <1>3 DEF Arranges

\* The root sinks to its greater child, and the heap is one but for that node.
LEMMA SinkKeepsHeap ==
  ASSUME NamesTyped, NEW f, Arranges(f), NEW s \in Int, NEW n \in Int,
         NEW r \in Positions, NEW k \in Positions, s <= r, k < n, ChildOf(k, r),
         HeapBut(f, s, n, r), AtMost(f, r, k),
         \A c \in Positions : c < n /\ ChildOf(c, r) => AtMost(f, c, k)
  PROVE  HeapBut(Exchanged(f, r, k), s, n, k)
<1> DEFINE h == Exchanged(f, r, k)
<1>1. /\ h[r] = f[k] /\ h[k] = f[r]
      /\ \A p \in Positions : p # r /\ p # k => h[p] = f[p]
  BY ExchangedArranges
<1>2. r < k /\ r \in Nat /\ k \in Nat
  BY DEF ChildOf, Positions
<1> HIDE DEF h
<1>3. ASSUME NEW p \in Positions, NEW c \in Positions, s <= p, c < n, ChildOf(c, p), p # k
      PROVE  AtMost(h, c, p)
  <2>1. p < c
    BY <1>3 DEF ChildOf, Positions
  <2>2. CASE p = r
    <3>1. h[p] = f[k]
      BY <1>1, <2>2
    <3>2. h[c] = f[r] \/ h[c] = f[c]
      <4>1. c # r
        BY <1>2, <2>1, <2>2
      <4> QED
        BY <1>1, <1>3, <4>1
    <3>3. AtMost(f, c, k) /\ AtMost(f, r, k)
      BY <1>3, <2>2
    <3> QED
      BY <3>1, <3>2, <3>3 DEF AtMost, EntryName
  <2>3. CASE p # r
    <3>1. h[p] = f[p]
      BY <1>1, <1>3, <2>3
    <3>2. c # k
      BY <1>3, <2>3 DEF ChildOf, Positions
    <3>3. CASE c = r
      <4>1. AtMost(f, k, p)
        BY <1>3, <3>3 DEF HeapBut
      <4> QED
        BY <1>1, <3>1, <3>3, <4>1 DEF AtMost, EntryName
    <3>4. CASE c # r
      <4>1. AtMost(f, c, p)
        BY <1>3, <2>3 DEF HeapBut
      <4> QED
        BY <1>1, <3>1, <3>2, <3>4, <4>1 DEF AtMost, EntryName
    <3> QED
      BY <3>3, <3>4
  <2> QED
    BY <2>2, <2>3
<1>4. ASSUME NEW c \in Positions, s <= k, c < n, ChildOf(c, k),
             NEW g \in Positions, s <= g, ChildOf(k, g)
      PROVE  AtMost(h, c, g)
  <2>1. g = r
    BY <1>4 DEF ChildOf, Positions
  <2>2. c # k /\ c # r
    BY <1>2, <1>4 DEF ChildOf, Positions
  <2>3. AtMost(f, c, k)
    BY <1>2, <1>4 DEF HeapBut
  <2> QED
    BY <1>1, <2>1, <2>2, <2>3 DEF AtMost, EntryName
<1>5. HeapBut(h, s, n, k)
  BY <1>3, <1>4 DEF HeapBut
<1> QED
  BY <1>5 DEF h

\* What lies from n on is not touched by an exchange before n.
LEMMA ExchangeKeepsOrder ==
  ASSUME NEW f, Arranges(f), NEW n \in Int, NEW i \in Positions, NEW j \in Positions,
         i < n, j < n, InOrderFrom(f, n)
  PROVE  InOrderFrom(Exchanged(f, i, j), n)
<1> DEFINE h == Exchanged(f, i, j)
<1>1. /\ h[i] = f[j] /\ h[j] = f[i]
      /\ \A p \in Positions : p # i /\ p # j => h[p] = f[p]
  BY ExchangedArranges
<1> HIDE DEF h
<1>2. ASSUME NEW p \in Positions, NEW q \in Positions, n <= q, p <= q
      PROVE  AtMost(h, p, q)
  <2>1. h[q] = f[q] /\ i <= q /\ j <= q
    BY <1>1, <1>2 DEF Positions
  <2>2. AtMost(f, p, q) /\ AtMost(f, i, q) /\ AtMost(f, j, q)
    BY <1>2, <2>1 DEF InOrderFrom
  <2>3. h[p] = f[p] \/ h[p] = f[i] \/ h[p] = f[j]
    BY <1>1
  <2> QED
    BY <2>1, <2>2, <2>3 DEF AtMost, EntryName
<1>3. InOrderFrom(h, n)
  BY <1>2 DEF InOrderFrom
<1> QED
  BY <1>3 DEF h

\* In a heap the first is the greatest.
LEMMA RootGreatest ==
  ASSUME NamesTyped, NEW f, Arranges(f), NEW n \in Int, n <= Size, Heap(f, 0, n),
         NEW x \in Positions, x < n
  PROVE  AtMost(f, x, 0)
<1> DEFINE S == {y \in Positions : y < n /\ ~AtMost(f, y, 0)}
<1> SUFFICES ASSUME S # {} PROVE FALSE
  OBVIOUS
<1>1. S \subseteq Nat
  BY DEF Positions
<1> HIDE DEF S
<1>2. PICK m \in S : \A y \in S : m <= y
  BY <1>1, LeastOf
<1>3. m \in Positions /\ m < n /\ ~AtMost(f, m, 0) /\ m \in Nat
  BY <1>1, <1>2 DEF S
<1>4. 0 \in Positions
  BY <1>3 DEF Positions, NamesTyped
<1>5. m # 0
  BY <1>3, <1>4, AtMostChain
<1>6. PICK p \in Nat : ChildOf(m, p) /\ p < m
  <2>1. PICK t \in Int : t = (m - 1) \div 2
    BY <1>3
  <2>2. t >= 0 /\ (m = 2 * t + 1 \/ m = 2 * t + 2) /\ t < m
    BY <1>3, <1>5, <2>1
  <2> QED
    BY <2>2 DEF ChildOf
<1>7. p \in Positions /\ p < n
  BY <1>3, <1>6 DEF Positions, NamesTyped
<1>8. AtMost(f, p, 0)
  <2>1. p \notin S
    BY <1>2, <1>3, <1>6
  <2> QED
    BY <1>7, <2>1 DEF S
<1>9. AtMost(f, m, p)
  BY <1>3, <1>6, <1>7 DEF Heap
<1> QED
  BY <1>3, <1>4, <1>7, <1>8, <1>9, AtMostChain

\* The greatest goes to the end, and is the least of what is in order.
LEMMA GreatestToTheEnd ==
  ASSUME NamesTyped, NEW f, Arranges(f), NEW e \in Int, 0 < e, e < Size,
         Heap(f, 0, e + 1), InOrderFrom(f, e + 1)
  PROVE  HeapBut(Exchanged(f, e, 0), 0, e, 0) /\ InOrderFrom(Exchanged(f, e, 0), e)
<1>1. e \in Positions /\ 0 \in Positions
  BY DEF Positions, NamesTyped
<1> DEFINE h == Exchanged(f, e, 0)
<1>2. /\ h[e] = f[0] /\ h[0] = f[e]
      /\ \A p \in Positions : p # e /\ p # 0 => h[p] = f[p]
  BY <1>1, ExchangedArranges
<1>3. InOrderFrom(h, e + 1)
  BY <1>1, ExchangeKeepsOrder
<1> HIDE DEF h
<1>4. ASSUME NEW p \in Positions, p <= e PROVE AtMost(h, p, e)
  <2>1. \A x \in {p, 0, e} : AtMost(f, x, 0)
    <3>1. \A x \in {p, 0, e} : x \in Positions /\ x < e + 1
      BY <1>1, <1>4 DEF Positions
    <3> QED
      BY <3>1, RootGreatest, e + 1 <= Size, e + 1 \in Int DEF NamesTyped
  <2>2. h[p] = f[p] \/ h[p] = f[0] \/ h[p] = f[e]
    BY <1>2
  <2> QED
    BY <1>2, <2>1, <2>2 DEF AtMost, EntryName
<1>5. InOrderFrom(h, e)
  <2> SUFFICES ASSUME NEW p \in Positions, NEW q \in Positions, e <= q, p <= q PROVE AtMost(h, p, q)
    BY DEF InOrderFrom
  <2>1. q = e \/ e + 1 <= q
    BY DEF Positions
  <2> QED
    BY <1>3, <1>4, <2>1 DEF InOrderFrom
<1>6. HeapBut(h, 0, e, 0)
  <2>1. ASSUME NEW p \in Positions, NEW c \in Positions, c < e, ChildOf(c, p), p # 0
        PROVE  AtMost(h, c, p)
    <3>1. p < c /\ c # 0 /\ c # e /\ p # e /\ c < e + 1 /\ 0 <= p
      BY <2>1 DEF ChildOf, Positions
    <3>2. AtMost(f, c, p)
      BY <2>1, <3>1 DEF Heap
    <3> QED
      BY <1>2, <2>1, <3>1, <3>2 DEF AtMost, EntryName
  <2>2. ~ \E g \in Positions : ChildOf(0, g)
    BY DEF ChildOf, Positions
  <2> QED
    BY <2>1, <2>2 DEF HeapBut
<1> QED
  BY <1>5, <1>6 DEF h

LEMMA SettledHeap ==
  ASSUME NEW f, NEW s, NEW n, NEW r \in Int, HeapBut(f, s, n, r),
         r \in Positions /\ s <= r => \A c \in Positions : c < n /\ ChildOf(c, r) => AtMost(f, c, r)
  PROVE  Heap(f, s, n)
BY DEF HeapBut, Heap

LEMMA StartsLower ==
  ASSUME NEW f, NEW s \in Int, NEW n \in Int, Heap(f, s, n)
  PROVE  HeapBut(f, s - 1, n, s - 1)
<1>1. ASSUME NEW p \in Positions, NEW c \in Positions, s - 1 <= p, c < n, ChildOf(c, p), p # s - 1
      PROVE  AtMost(f, c, p)
  BY <1>1 DEF Heap, Positions
<1>2. ASSUME NEW g \in Positions, s - 1 <= g, ChildOf(s - 1, g) PROVE FALSE
  BY <1>2 DEF ChildOf, Positions
<1> QED
  BY <1>1, <1>2 DEF HeapBut

-----------------------------------------------------------------------------
(***************************************************************************)
(* The invariant of the sort and of the search.                            *)
(***************************************************************************)
HeapRising ==
  sortPc = "heap" =>
    /\ limit \in Int /\ -1 <= limit /\ 2 * limit + 2 <= Size
    /\ root \in Int /\ limit <= root /\ root < Size /\ (limit = -1 => root = -1)
    /\ HeapBut(indices, limit, Size, root)

HeapShrinking ==
  sortPc = "shrink" =>
    /\ limit \in Int /\ 1 <= limit /\ limit < Size
    /\ root \in Positions
    /\ HeapBut(indices, 0, limit, root) /\ InOrderFrom(indices, limit)

Narrowing ==
  sortPc = "searching" =>
    /\ sought \in FileNames
    /\ low \in Int /\ high \in Int /\ 0 <= low /\ high < Size
    /\ \A p \in Positions : p < low => Order(NameAt(p), sought) < 0
    /\ \A p \in Positions : p > high => Order(NameAt(p), sought) > 0

DirectoryInv ==
  /\ NamesTyped /\ Arranges(indices)
  /\ sortPc \in {"heap", "shrink", "sorted", "searching", "located"}
  /\ HeapRising /\ HeapShrinking /\ Narrowing
  /\ sortPc \in {"sorted", "searching", "located"} => InOrderFrom(indices, 0)
  /\ LocateFinds

LEMMA DirectoryInitially == DirectoryInit => DirectoryInv
<1> SUFFICES ASSUME DirectoryInit PROVE DirectoryInv
  OBVIOUS
<1>1. PICK n \in 0..MaxNames : names \in [1..n -> FileNames]
  BY DEF DirectoryInit
<1>2. names \in Seq(FileNames) /\ Len(names) = n /\ n \in Nat
  BY <1>1, NamesAssumption DEF NamesAssumption
<1>3. NamesTyped
  BY <1>2 DEF NamesTyped, Size
<1>4. Arranges(indices)
  BY DEF Arranges, DirectoryInit, Positions
<1>5. sortPc = "heap"
  BY DEF DirectoryInit
<1>6. HeapRising
  <2>1. PICK t \in Int : t = (Size - 2) \div 2
    BY <1>3 DEF NamesTyped
  <2>2. limit = t /\ root = t
    BY <2>1 DEF DirectoryInit
  <2>3. -1 <= t /\ 2 * t + 2 <= Size /\ t < Size
    BY <1>3, <2>1 DEF NamesTyped
  <2>4. Size < 2 * t + 4
    BY <1>3, <2>1 DEF NamesTyped
  <2>5. ASSUME NEW p \in Positions, NEW c \in Positions, t <= p, ChildOf(c, p), p # t PROVE FALSE
    BY <1>3, <2>3, <2>4, <2>5 DEF ChildOf, Positions, NamesTyped
  <2>6. ASSUME NEW g \in Positions, t <= g, ChildOf(t, g) PROVE FALSE
    BY <2>6 DEF ChildOf, Positions
  <2>7. HeapBut(indices, t, Size, t)
    BY <2>5, <2>6 DEF HeapBut
  <2> QED
    BY <2>2, <2>3, <2>7 DEF HeapRising
<1> QED
  BY <1>3, <1>4, <1>5, <1>6 DEF DirectoryInv, HeapShrinking, Narrowing, LocateFinds

LEMMA ChildIsGreatest ==
  ASSUME NamesTyped, Arranges(indices), NEW r \in Positions,
         HeapSize \in Int, HeapSize <= Size, 2 * r + 1 < HeapSize
  PROVE  /\ Child(r) \in Positions /\ Child(r) < HeapSize /\ ChildOf(Child(r), r)
         /\ \A c \in Positions : c < HeapSize /\ ChildOf(c, r) => AtMost(indices, c, Child(r))
<1>1. PICK c \in Int : c = 2 * r + 1
  BY DEF Positions
<1>2. c \in Positions /\ r \in Nat
  BY <1>1 DEF Positions, NamesTyped
<1>3. CASE c + 1 < HeapSize /\ FilenameLess(c, c + 1)
  <2>1. c + 1 \in Positions
    BY <1>2, <1>3 DEF Positions, NamesTyped
  <2>2. Child(r) = c + 1
    BY <1>1, <1>3 DEF Child
  <2>3. AtMost(indices, c, c + 1)
    <3>1. Order(NameAt(c), NameAt(c + 1)) < 0
      BY <1>3 DEF FilenameLess
    <3>2. Order(NameAt(c), NameAt(c + 1)) \in Int
      BY <1>2, <2>1, EntryNameType, OrderFacts DEF EntryName, NameAt
    <3> QED
      BY <3>1, <3>2 DEF AtMost, EntryName, NameAt
  <2>4. AtMost(indices, c + 1, c + 1)
    BY <2>1, AtMostChain
  <2>5. ASSUME NEW d \in Positions, ChildOf(d, r) PROVE AtMost(indices, d, c + 1)
    BY <1>1, <2>3, <2>4, <2>5 DEF ChildOf, Positions
  <2> QED
    BY <1>1, <1>2, <1>3, <2>1, <2>2, <2>5 DEF ChildOf
<1>4. CASE ~(c + 1 < HeapSize /\ FilenameLess(c, c + 1))
  <2>1. Child(r) = c
    BY <1>1, <1>4 DEF Child
  <2>2. AtMost(indices, c, c)
    BY <1>2, AtMostChain
  <2>3. ASSUME c + 1 < HeapSize PROVE AtMost(indices, c + 1, c)
    <3>1. c + 1 \in Positions
      BY <1>2, <2>3 DEF Positions, NamesTyped
    <3>2. ~(Order(NameAt(c), NameAt(c + 1)) < 0)
      BY <1>4, <2>3 DEF FilenameLess
    <3>3. /\ Order(NameAt(c), NameAt(c + 1)) \in Int
          /\ Order(NameAt(c + 1), NameAt(c)) = -Order(NameAt(c), NameAt(c + 1))
      BY <1>2, <3>1, EntryNameType, OrderFacts DEF EntryName, NameAt
    <3> QED
      BY <3>2, <3>3 DEF AtMost, EntryName, NameAt
  <2> QED
    BY <1>1, <1>2, <2>1, <2>2, <2>3 DEF ChildOf
<1> QED
  BY <1>3, <1>4

\* A root that does not sink has no greater child.
LEMMA RootSettled ==
  ASSUME NamesTyped, Arranges(indices), NEW r \in Positions, r = root,
         HeapSize \in Int, HeapSize <= Size, ~Sinks
  PROVE  \A c \in Positions : c < HeapSize /\ ChildOf(c, r) => AtMost(indices, c, r)
<1> SUFFICES ASSUME NEW c \in Positions, c < HeapSize, ChildOf(c, r) PROVE AtMost(indices, c, r)
  OBVIOUS
<1>1. 2 * r + 1 < HeapSize
  BY DEF ChildOf, Positions
<1>2. ~(Order(NameAt(r), NameAt(Child(r))) < 0)
  BY <1>1 DEF Sinks, FilenameLess
<1>3. Child(r) \in Positions /\ AtMost(indices, c, Child(r))
  BY <1>1, ChildIsGreatest
<1>4. /\ Order(NameAt(r), NameAt(Child(r))) \in Int
      /\ Order(NameAt(Child(r)), NameAt(r)) = -Order(NameAt(r), NameAt(Child(r)))
  BY <1>3, EntryNameType, OrderFacts DEF EntryName, NameAt
<1>5. AtMost(indices, Child(r), r)
  BY <1>2, <1>4 DEF AtMost, EntryName, NameAt
<1> QED
  BY <1>3, <1>5, AtMostChain

\* One round of a sinking root, in either phase.
LEMMA SinkStep ==
  ASSUME NamesTyped, Arranges(indices), Sink, NEW s \in Int,
         HeapSize \in Int, HeapSize <= Size, root \in Positions, s <= root,
         HeapBut(indices, s, HeapSize, root)
  PROVE  /\ root' \in Positions /\ root < root' /\ root' < HeapSize
         /\ Arranges(indices') /\ HeapBut(indices', s, HeapSize, root')
         /\ InOrderFrom(indices, HeapSize) => InOrderFrom(indices', HeapSize)
<1>1. PICK r \in Positions : r = root
  OBVIOUS
<1>2. PICK n \in Int : n = HeapSize
  OBVIOUS
<1>3. 2 * r + 1 < n /\ FilenameLess(r, Child(r))
  BY <1>1, <1>2 DEF Sink, Sinks
<1>4. PICK k \in Positions : /\ k = Child(r) /\ k < n /\ ChildOf(k, r)
                            /\ \A c \in Positions : c < n /\ ChildOf(c, r) => AtMost(indices, c, k)
  BY <1>2, <1>3, ChildIsGreatest
<1>5. AtMost(indices, r, k)
  <2>1. Order(NameAt(r), NameAt(k)) < 0
    BY <1>3, <1>4 DEF FilenameLess
  <2>2. Order(NameAt(r), NameAt(k)) \in Int
    BY EntryNameType, OrderFacts DEF EntryName, NameAt
  <2> QED
    BY <2>1, <2>2 DEF AtMost, EntryName, NameAt
<1>6. indices' = Exchanged(indices, r, k) /\ root' = k
  BY <1>1, <1>4 DEF Sink, Swapped, Exchanged
<1>7. r < k /\ r < n
  BY <1>4 DEF ChildOf, Positions
<1>8. HeapBut(indices', s, n, k)
  BY <1>1, <1>2, <1>4, <1>5, <1>6, SinkKeepsHeap
<1>9. Arranges(indices')
  BY <1>6, ExchangedArranges
<1>10. InOrderFrom(indices, n) => InOrderFrom(indices', n)
  BY <1>4, <1>6, <1>7, ExchangeKeepsOrder
<1> QED
  BY <1>1, <1>2, <1>4, <1>6, <1>7, <1>8, <1>9, <1>10

LEMMA SinkPreserves == DirectoryInv /\ Sink => DirectoryInv'
<1> SUFFICES ASSUME DirectoryInv, Sink PROVE DirectoryInv'
  OBVIOUS
<1>1. NamesTyped /\ Arranges(indices) /\ names' = names /\ sortPc' = sortPc /\ limit' = limit
  BY DEF DirectoryInv, Sink
<1>2. NamesTyped' /\ Size' = Size
  BY <1>1 DEF NamesTyped, Size
<1>3. sortPc \in {"heap", "shrink"}
  BY DEF Sink, Sorting
<1>4. CASE sortPc = "heap"
  <2>1. HeapSize = Size /\ Size \in Int
    BY <1>1, <1>4 DEF HeapSize, NamesTyped
  <2>2. /\ limit \in Int /\ 0 <= limit /\ limit <= root /\ root \in Positions /\ 2 * limit + 2 <= Size
        /\ HeapBut(indices, limit, Size, root)
    BY <1>4, <2>1 DEF DirectoryInv, HeapRising, Sink, Sorting, Positions
  <2>3. /\ root' \in Positions /\ root < root' /\ root' < HeapSize
        /\ Arranges(indices') /\ HeapBut(indices', limit, HeapSize, root')
    BY <1>1, <2>1, <2>2, SinkStep
  <2>4. HeapBut(indices, limit, Size, root)' <=> HeapBut(indices', limit, Size, root')
    BY <1>1, <1>2 DEF HeapBut, Positions, AtMost, EntryName
  <2>5. Arranges(indices)'
    BY <1>2, <2>3 DEF Arranges, Positions
  <2>6. HeapRising'
    <3>1. root' \in Int /\ limit <= root' /\ root' < Size /\ limit # -1 /\ -1 <= limit
      BY <2>1, <2>2, <2>3 DEF Positions
    <3>2. HeapBut(indices, limit, Size, root)'
      BY <2>1, <2>3, <2>4
    <3> QED
      BY <1>1, <1>2, <2>2, <3>1, <3>2 DEF HeapRising
  <2> QED
    BY <1>1, <1>2, <1>4, <2>5, <2>6 DEF DirectoryInv, HeapShrinking, Narrowing, LocateFinds
<1>5. CASE sortPc = "shrink"
  <2>1. /\ limit \in Int /\ 1 <= limit /\ limit < Size /\ root \in Positions
        /\ HeapBut(indices, 0, limit, root) /\ InOrderFrom(indices, limit)
    BY <1>5 DEF DirectoryInv, HeapShrinking
  <2>2. HeapSize = limit /\ HeapSize <= Size /\ 0 <= root
    BY <1>1, <1>5, <2>1 DEF HeapSize, NamesTyped, Positions
  <2>3. /\ root' \in Positions
        /\ Arranges(indices') /\ HeapBut(indices', 0, limit, root') /\ InOrderFrom(indices', limit)
    BY <1>1, <2>1, <2>2, SinkStep
  <2>4. /\ HeapBut(indices, 0, limit, root)' <=> HeapBut(indices', 0, limit, root')
        /\ InOrderFrom(indices, limit)' <=> InOrderFrom(indices', limit)
    BY <1>1, <1>2 DEF HeapBut, InOrderFrom, Positions, AtMost, EntryName
  <2>5. Arranges(indices)'
    BY <1>2, <2>3 DEF Arranges, Positions
  <2>6. HeapShrinking'
    BY <1>1, <1>2, <2>1, <2>3, <2>4 DEF HeapShrinking, Positions
  <2> QED
    BY <1>1, <1>2, <1>5, <2>5, <2>6 DEF DirectoryInv, HeapRising, Narrowing, LocateFinds
<1> QED
  BY <1>3, <1>4, <1>5

LEMMA NextStartPreserves == DirectoryInv /\ NextStart => DirectoryInv'
<1> SUFFICES ASSUME DirectoryInv, NextStart PROVE DirectoryInv'
  OBVIOUS
<1>1. /\ NamesTyped /\ Arranges(indices) /\ sortPc = "heap"
      /\ names' = names /\ indices' = indices /\ sortPc' = "heap"
  BY DEF DirectoryInv, NextStart
<1>2. NamesTyped' /\ Size' = Size /\ Size \in Int
  BY <1>1 DEF NamesTyped, Size
<1>3. /\ limit \in Int /\ 0 <= limit /\ limit <= root /\ root \in Positions /\ 2 * limit + 2 <= Size
      /\ HeapBut(indices, limit, Size, root)
  BY <1>1, <1>2 DEF DirectoryInv, HeapRising, NextStart, Sorting, Positions
<1>4. HeapSize = Size /\ ~Sinks
  BY <1>1 DEF HeapSize, NextStart
<1>5. \A c \in Positions : c < Size /\ ChildOf(c, root) => AtMost(indices, c, root)
  BY <1>1, <1>2, <1>3, <1>4, RootSettled
<1>6. Heap(indices, limit, Size)
  BY <1>3, <1>5, SettledHeap DEF Positions
<1>7. HeapBut(indices, limit - 1, Size, limit - 1)
  BY <1>2, <1>3, <1>6, StartsLower
<1>8. HeapBut(indices, limit, Size, root)'
  <2>1. limit' = limit - 1 /\ root' = limit - 1
    BY DEF NextStart
  <2> QED
    BY <1>1, <1>2, <1>7, <2>1 DEF HeapBut, Positions, AtMost, EntryName
<1>9. HeapRising'
  <2>1. limit' = limit - 1 /\ root' = limit - 1
    BY DEF NextStart
  <2> QED
    BY <1>2, <1>3, <1>8, <2>1 DEF HeapRising
<1>10. Arranges(indices)'
  BY <1>1, <1>2 DEF Arranges, Positions
<1> QED
  BY <1>1, <1>2, <1>9, <1>10 DEF DirectoryInv, HeapShrinking, Narrowing, LocateFinds

\* The greatest is taken from a heap of end + 1, which shrinks or is used up.
LEMMA TakeGreatestPreserves ==
  ASSUME NamesTyped, Arranges(indices), NEW end \in Int, -1 <= end, end < Size, TakeGreatest(end),
         Heap(indices, 0, end + 1), InOrderFrom(indices, end + 1)
  PROVE  DirectoryInv'
<1>1. names' = names /\ limit' = end /\ root' = 0
  BY DEF TakeGreatest
<1>2. NamesTyped' /\ Size' = Size /\ Size \in Nat
  BY <1>1 DEF NamesTyped, Size
<1>3. CASE end > 0
  <2>1. sortPc' = "shrink" /\ indices' = Exchanged(indices, end, 0)
    BY <1>3 DEF TakeGreatest, Swapped, Exchanged
  <2>2. end \in Positions /\ 0 \in Positions
    BY <1>2, <1>3 DEF Positions
  <2>3. Arranges(indices')
    BY <2>1, <2>2, ExchangedArranges
  <2>4. HeapBut(indices', 0, end, 0) /\ InOrderFrom(indices', end)
    BY <1>3, <2>1, GreatestToTheEnd
  <2>5. /\ HeapBut(indices, 0, limit, root)' <=> HeapBut(indices', 0, end, 0)
        /\ InOrderFrom(indices, limit)' <=> InOrderFrom(indices', end)
    BY <1>1, <1>2 DEF HeapBut, InOrderFrom, Positions, AtMost, EntryName
  <2>6. Arranges(indices)'
    BY <1>2, <2>3 DEF Arranges, Positions
  <2>7. HeapShrinking'
    BY <1>1, <1>2, <1>3, <2>2, <2>4, <2>5 DEF HeapShrinking, Positions
  <2> QED
    BY <1>2, <2>1, <2>6, <2>7 DEF DirectoryInv, HeapRising, Narrowing, LocateFinds
<1>4. CASE ~(end > 0)
  <2>1. sortPc' = "sorted" /\ indices' = indices
    BY <1>4 DEF TakeGreatest
  <2>2. InOrderFrom(indices, 0)
    <3> SUFFICES ASSUME NEW p \in Positions, NEW q \in Positions, p <= q PROVE AtMost(indices, p, q)
      BY DEF InOrderFrom
    <3>1. end + 1 <= q \/ q = p
      BY <1>4 DEF Positions
    <3> QED
      BY <3>1, AtMostChain DEF InOrderFrom
  <2>3. InOrderFrom(indices, 0)' /\ Arranges(indices)'
    BY <1>1, <1>2, <2>1, <2>2 DEF InOrderFrom, Arranges, Positions, AtMost, EntryName
  <2> QED
    BY <1>2, <2>1, <2>3 DEF DirectoryInv, HeapRising, HeapShrinking, Narrowing, LocateFinds
<1> QED
  BY <1>3, <1>4

LEMMA HeapBuiltPreserves == DirectoryInv /\ HeapBuilt => DirectoryInv'
<1> SUFFICES ASSUME DirectoryInv, HeapBuilt PROVE DirectoryInv'
  OBVIOUS
<1>1. /\ NamesTyped /\ Arranges(indices) /\ Size \in Nat /\ TakeGreatest(Size - 1)
      /\ limit = -1 /\ root = -1 /\ HeapBut(indices, -1, Size, -1)
  BY DEF DirectoryInv, HeapRising, HeapBuilt, Sorting, NamesTyped
<1>2. Heap(indices, 0, Size)
  BY <1>1 DEF HeapBut, Heap, Positions
<1>3. InOrderFrom(indices, Size)
  BY <1>1 DEF InOrderFrom, Positions
<1>4. PICK e \in Int : e = Size - 1 /\ e + 1 = Size /\ -1 <= e /\ e < Size
  BY <1>1
<1> QED
  BY <1>1, <1>2, <1>3, <1>4, TakeGreatestPreserves

LEMMA NextEndPreserves == DirectoryInv /\ NextEnd => DirectoryInv'
<1> SUFFICES ASSUME DirectoryInv, NextEnd PROVE DirectoryInv'
  OBVIOUS
<1>1. /\ NamesTyped /\ Arranges(indices) /\ Size \in Nat /\ TakeGreatest(limit - 1)
      /\ ~Sinks /\ HeapSize = limit
      /\ limit \in Int /\ 1 <= limit /\ limit < Size /\ root \in Positions
      /\ HeapBut(indices, 0, limit, root) /\ InOrderFrom(indices, limit)
  BY DEF DirectoryInv, HeapShrinking, NextEnd, HeapSize, NamesTyped
<1>2. \A c \in Positions : c < limit /\ ChildOf(c, root) => AtMost(indices, c, root)
  BY <1>1, RootSettled
<1>3. Heap(indices, 0, limit)
  BY <1>1, <1>2, SettledHeap DEF Positions
<1>4. PICK e \in Int : e = limit - 1 /\ e + 1 = limit /\ -1 <= e /\ e < Size
  BY <1>1
<1> QED
  BY <1>1, <1>3, <1>4, TakeGreatestPreserves

LEMMA LocatePreserves ==
  ASSUME DirectoryInv, NEW n \in FileNames, Locate(n)
  PROVE  DirectoryInv'
<1>1. /\ NamesTyped /\ Arranges(indices) /\ Size \in Nat /\ InOrderFrom(indices, 0)
      /\ names' = names /\ indices' = indices /\ sortPc' = "searching"
      /\ sought' = n /\ low' = 0 /\ high' = Size - 1
  BY DEF DirectoryInv, Locate, heapVars, NamesTyped
<1>2. Size' = Size
  BY <1>1 DEF Size
<1>3. NamesTyped' /\ Arranges(indices)' /\ InOrderFrom(indices, 0)'
  BY <1>1, <1>2 DEF NamesTyped, Arranges, InOrderFrom, Positions, AtMost, EntryName
<1>4. Narrowing'
  BY <1>1, <1>2 DEF Narrowing, Positions
<1> QED
  BY <1>1, <1>3, <1>4 DEF DirectoryInv, HeapRising, HeapShrinking, LocateFinds

LEMMA HalvePreserves == DirectoryInv /\ Halve => DirectoryInv'
<1> SUFFICES ASSUME DirectoryInv, Halve PROVE DirectoryInv'
  OBVIOUS
<1>1. /\ NamesTyped /\ Arranges(indices) /\ Size \in Nat /\ InOrderFrom(indices, 0)
      /\ names' = names /\ indices' = indices /\ sought' = sought
      /\ sortPc = "searching" /\ sought \in FileNames
      /\ low \in Int /\ high \in Int /\ 0 <= low /\ high < Size /\ low <= high
      /\ \A p \in Positions : p < low => Order(NameAt(p), sought) < 0
      /\ \A p \in Positions : p > high => Order(NameAt(p), sought) > 0
  BY DEF DirectoryInv, Halve, heapVars, NamesTyped, Narrowing
<1>2. PICK m \in Int : m = (low + high) \div 2
  BY <1>1
<1>3. low <= m /\ m <= high
  BY <1>1, <1>2
<1>4. m \in Positions
  BY <1>1, <1>3 DEF Positions
<1>5. PICK comp \in Int : comp = Order(NameAt(m), sought)
  BY <1>1, <1>4, EntryNameType, OrderFacts, NamesAssumption DEF NamesAssumption, NameAt, EntryName
<1>6. /\ sortPc' = IF comp = 0 THEN "located" ELSE "searching"
      /\ located' = IF comp = 0 THEN indices[m] ELSE located
      /\ low' = IF comp < 0 THEN m + 1 ELSE low
      /\ high' = IF comp > 0 THEN m - 1 ELSE high
  BY <1>2, <1>5 DEF Halve
<1>7. sought \in Seq(Nat) /\ NameAt(m) \in Seq(Nat)
  BY <1>1, <1>4, EntryNameType, NamesAssumption DEF NamesAssumption, NameAt, EntryName
<1>8. Size' = Size
  BY <1>1 DEF Size
<1>9. NamesTyped' /\ Arranges(indices)' /\ InOrderFrom(indices, 0)'
  BY <1>1, <1>8 DEF NamesTyped, Arranges, InOrderFrom, Positions, AtMost, EntryName
<1>10. CASE comp = 0
  <2>1. SameName(names[indices[m] + 1], sought)
    BY <1>5, <1>7, <1>10, OrderSameName DEF NameAt
  <2>2. indices[m] # -1
    BY <1>1, <1>4 DEF Arranges, Positions
  <2>3. LocateFinds'
    BY <1>1, <1>6, <1>10, <2>1, <2>2 DEF LocateFinds, SameName, Lower
  <2> QED
    BY <1>6, <1>9, <1>10, <2>3 DEF DirectoryInv, HeapRising, HeapShrinking, Narrowing
<1>11. CASE comp < 0
  <2>1. ASSUME NEW p \in Positions, p < m + 1 PROVE Order(NameAt(p), sought) < 0
    <3>1. NameAt(p) \in Seq(Nat)
      BY <1>1, EntryNameType DEF NameAt, EntryName
    <3>2. Order(NameAt(p), NameAt(m)) <= 0
      BY <1>1, <1>4, <2>1 DEF InOrderFrom, AtMost, NameAt, EntryName, Positions
    <3> QED
      BY <1>5, <1>7, <1>11, <3>1, <3>2, OrderFacts
  <2>2. \A p \in Positions : p < low' => Order(NameAt(p), sought) < 0
    BY <1>6, <1>11, <2>1
  <2>3. high' = high /\ low' = m + 1 /\ sortPc' = "searching"
    BY <1>6, <1>11
  <2>4. Narrowing'
    BY <1>1, <1>3, <1>8, <2>2, <2>3 DEF Narrowing, Positions, NameAt
  <2> QED
    BY <1>9, <2>3, <2>4 DEF DirectoryInv, HeapRising, HeapShrinking, LocateFinds
<1>12. CASE comp > 0
  <2>1. ASSUME NEW p \in Positions, p > m - 1 PROVE Order(NameAt(p), sought) > 0
    <3>1. NameAt(p) \in Seq(Nat)
      BY <1>1, EntryNameType DEF NameAt, EntryName
    <3>2. Order(NameAt(m), NameAt(p)) <= 0
      BY <1>1, <1>4, <2>1 DEF InOrderFrom, AtMost, NameAt, EntryName, Positions
    <3>3. Order(sought, NameAt(m)) < 0
      <4>1. Order(sought, NameAt(m)) = -Order(NameAt(m), sought)
        BY <1>7, OrderFacts
      <4> QED
        BY <1>5, <1>12, <4>1
    <3>4. Order(sought, NameAt(p)) < 0
      BY <1>7, <3>1, <3>2, <3>3, OrderFacts
    <3>5. Order(NameAt(p), sought) = -Order(sought, NameAt(p)) /\ Order(sought, NameAt(p)) \in Int
      BY <1>7, <3>1, OrderFacts
    <3> QED
      BY <3>4, <3>5
  <2>2. \A p \in Positions : p > high' => Order(NameAt(p), sought) > 0
    BY <1>6, <1>12, <2>1
  <2>3. high' = m - 1 /\ low' = low /\ sortPc' = "searching"
    BY <1>6, <1>12
  <2>4. Narrowing'
    BY <1>1, <1>3, <1>8, <2>2, <2>3 DEF Narrowing, Positions, NameAt
  <2> QED
    BY <1>9, <2>3, <2>4 DEF DirectoryInv, HeapRising, HeapShrinking, LocateFinds
<1> QED
  BY <1>10, <1>11, <1>12

LEMMA NotFoundPreserves == DirectoryInv /\ NotFound => DirectoryInv'
<1> SUFFICES ASSUME DirectoryInv, NotFound PROVE DirectoryInv'
  OBVIOUS
<1>1. /\ NamesTyped /\ Arranges(indices) /\ Size \in Nat /\ InOrderFrom(indices, 0)
      /\ names' = names /\ indices' = indices /\ sought' = sought
      /\ sortPc' = "located" /\ located' = -1 /\ sought \in FileNames
      /\ low \in Int /\ high \in Int /\ low > high
      /\ \A p \in Positions : p < low => Order(NameAt(p), sought) < 0
      /\ \A p \in Positions : p > high => Order(NameAt(p), sought) > 0
  BY DEF DirectoryInv, NotFound, heapVars, NamesTyped, Narrowing
<1>2. ASSUME NEW i \in 1..Size PROVE ~SameName(names[i], sought)
  <2>1. PICK p \in Positions : indices[p] = i - 1
    BY <1>1 DEF Arranges, Positions
  <2>2. NameAt(p) = names[i]
    BY <1>1, <2>1 DEF NameAt
  <2>3. p < low \/ p > high
    BY <1>1 DEF Positions
  <2>4. Order(NameAt(p), sought) # 0
    BY <1>1, <2>3
  <2>5. NameAt(p) \in Seq(Nat) /\ sought \in Seq(Nat)
    BY <1>1, EntryNameType, NamesAssumption DEF NamesAssumption, NameAt, EntryName
  <2> QED
    BY <2>2, <2>4, <2>5, OrderSameName
<1>3. Size' = Size
  BY <1>1 DEF Size
<1>4. NamesTyped' /\ Arranges(indices)' /\ InOrderFrom(indices, 0)'
  BY <1>1, <1>3 DEF NamesTyped, Arranges, InOrderFrom, Positions, AtMost, EntryName
<1>5. LocateFinds'
  BY <1>1, <1>2, <1>3 DEF LocateFinds, SameName, Lower
<1> QED
  BY <1>1, <1>4, <1>5 DEF DirectoryInv, HeapRising, HeapShrinking, Narrowing

LEMMA DirectoryStutters == DirectoryInv /\ UNCHANGED directoryVars => DirectoryInv'
<1> SUFFICES ASSUME DirectoryInv, UNCHANGED directoryVars PROVE DirectoryInv'
  OBVIOUS
<1>1. /\ names' = names /\ indices' = indices /\ limit' = limit /\ root' = root /\ sortPc' = sortPc
      /\ sought' = sought /\ low' = low /\ high' = high /\ located' = located
  BY DEF directoryVars, heapVars, searchVars
<1> QED
  BY <1>1 DEF DirectoryInv, NamesTyped, Size, Arranges, Positions, HeapRising, HeapShrinking, Narrowing,
              HeapBut, InOrderFrom, AtMost, EntryName, NameAt, LocateFinds

THEOREM LookupFinds == DirectorySpec => []LocateFinds
<1>1. DirectoryInit => DirectoryInv
  BY DirectoryInitially
<1>2. DirectoryInv /\ [DirectoryNext]_directoryVars => DirectoryInv'
  <2> SUFFICES ASSUME DirectoryInv, [DirectoryNext]_directoryVars PROVE DirectoryInv'
    OBVIOUS
  <2>1. CASE UNCHANGED directoryVars
    BY <2>1, DirectoryStutters
  <2>2. CASE DirectoryNext
    BY <2>2, SinkPreserves, NextStartPreserves, HeapBuiltPreserves, NextEndPreserves,
       HalvePreserves, NotFoundPreserves, LocatePreserves DEF DirectoryNext
  <2> QED
    BY <2>1, <2>2
<1>3. DirectoryInv => LocateFinds
  BY DEF DirectoryInv
<1> QED
  BY <1>1, <1>2, <1>3, PTL DEF DirectorySpec

LEMMA SetInduction ==
  ASSUME NEW S \in SUBSET Nat, 0 \in S, \A n \in S : n + 1 \in S
  PROVE  S = Nat
<1>1. IsWellFoundedOn(OpToRel(<, Nat), Nat)
  BY NatLessThanWellFounded
<1> SUFFICES ASSUME Nat \ S # {} PROVE FALSE
  OBVIOUS
<1>2. PICK x \in Nat \ S : \A y \in Nat \ S : ~ (<<y, x>> \in OpToRel(<, Nat))
  BY <1>1, WFMin, Zenon
<1>3. x # 0 /\ x - 1 \in Nat /\ x - 1 < x
  OBVIOUS
<1>4. <<x - 1, x>> \in OpToRel(<, Nat)
  BY <1>3 DEF OpToRel
<1>5. x - 1 \in S
  BY <1>2, <1>3, <1>4
<1>6. x \in S
  BY <1>3, <1>5
<1> QED
  BY <1>6

-----------------------------------------------------------------------------
(***************************************************************************)
(* What is in an archive.                                                  *)
(***************************************************************************)
EntriesWritten == Seq(Members \X Seq(Nat))

\* Of the entries each has a record, whose data is in the first size cells.
Keeps(buf, size, dir, entries) ==
  /\ dir \in Seq(EntryCells) /\ entries \in EntriesWritten /\ Len(dir) = Len(entries)
  /\ \A i \in 1..Len(dir) : /\ dir[i].name = entries[i][1] /\ dir[i].sum = entries[i][2]
                            /\ dir[i].ofs + 1 + Len(dir[i].sum) <= size
                            /\ Extractable(buf, dir[i])

LEMMA EntryCellIs ==
  ASSUME NEW d \in EntryCells
  PROVE  /\ d.kind = "entry" /\ d.name \in Members /\ d.sum \in Seq(Nat) /\ d.ofs \in Nat /\ Len(d.sum) \in Nat
         /\ \A o \in Nat : /\ [d EXCEPT !.ofs = o] \in EntryCells /\ [d EXCEPT !.ofs = o].name = d.name
                           /\ [d EXCEPT !.ofs = o].sum = d.sum /\ [d EXCEPT !.ofs = o].ofs = o
<1>1. d \in [kind : {"entry"}, name : Members, sum : Seq(Nat), ofs : Nat]
  BY DEF EntryCells
<1>2. /\ d.kind = "entry" /\ d.name \in Members /\ d.sum \in Seq(Nat) /\ d.ofs \in Nat
      /\ \A o \in Nat : /\ [d EXCEPT !.ofs = o] \in [kind : {"entry"}, name : Members, sum : Seq(Nat), ofs : Nat]
                        /\ [d EXCEPT !.ofs = o].name = d.name
                        /\ [d EXCEPT !.ofs = o].sum = d.sum /\ [d EXCEPT !.ofs = o].ofs = o
  BY <1>1
<1>3. Len(d.sum) \in Nat
  BY <1>2
<1> QED
  BY <1>2, <1>3 DEF EntryCells

LEMMA WriteAtIs ==
  ASSUME NEW T, NEW b \in Seq(T), NEW o \in Nat, o <= Len(b), NEW cells \in Seq(T)
  PROVE  /\ WriteAt(b, o, cells) \in Seq(T)
         /\ Len(WriteAt(b, o, cells)) = (IF o + Len(cells) > Len(b) THEN o + Len(cells) ELSE Len(b))
         /\ \A i \in 1..o : WriteAt(b, o, cells)[i] = b[i]
         /\ \A i \in 1..Len(cells) : WriteAt(b, o, cells)[o + i] = cells[i]
<1>1. Len(b) \in Nat /\ Len(cells) \in Nat
  OBVIOUS
<1>2. PICK m \in Nat : m = (IF o + Len(cells) > Len(b) THEN o + Len(cells) ELSE Len(b))
  BY <1>1
<1>3. m >= Len(b) /\ m >= o + Len(cells) /\ (m = Len(b) \/ m = o + Len(cells))
  BY <1>1, <1>2
<1> DEFINE w == [i \in 1..m |-> IF i \in o + 1..o + Len(cells) THEN cells[i - o] ELSE b[i]]
<1>4. WriteAt(b, o, cells) = w
  BY <1>2 DEF WriteAt
<1>5. ASSUME NEW i \in 1..m PROVE w[i] \in T
  <2>1. CASE i \in o + 1..o + Len(cells)
    <3>1. i - o \in 1..Len(cells)
      BY <1>1, <2>1
    <3>2. cells[i - o] \in T
      BY <3>1, ElementOfSeq
    <3> QED
      BY <2>1, <3>2
  <2>2. CASE i \notin o + 1..o + Len(cells)
    <3>1. i \in 1..Len(b)
      BY <1>1, <1>3, <2>2
    <3>2. b[i] \in T
      BY <3>1, ElementOfSeq
    <3> QED
      BY <2>2, <3>2
  <2> QED
    BY <2>1, <2>2
<1>6. w \in Seq(T) /\ Len(w) = m
  BY <1>5
<1>7. \A i \in 1..o : w[i] = b[i]
  BY <1>1, <1>3
<1>8. \A i \in 1..Len(cells) : w[o + i] = cells[i]
  BY <1>1, <1>3
<1> QED
  BY <1>2, <1>4, <1>6, <1>7, <1>8

LEMMA WriteAtEnd ==
  ASSUME NEW T, NEW b \in Seq(T), NEW o \in Nat, o <= Len(b), NEW cells \in Seq(T), Len(b) <= o + Len(cells),
         NEW w, w = WriteAt(b, o, cells)
  PROVE  /\ w \in Seq(T) /\ Len(w) = o + Len(cells)
         /\ \A i \in 1..o : w[i] = b[i]
         /\ \A i \in 1..Len(cells) : w[o + i] = cells[i]
<1>1. Len(b) \in Nat /\ Len(cells) \in Nat
  OBVIOUS
<1>2. Len(w) = (IF o + Len(cells) > Len(b) THEN o + Len(cells) ELSE Len(b))
  BY WriteAtIs
<1>3. Len(w) = o + Len(cells)
  BY <1>1, <1>2
<1> QED
  BY <1>3, WriteAtIs

\* A record leads to the same data where the cells it leads to are the same.
LEMMA SameData ==
  ASSUME NEW b1, NEW b2, NEW d1 \in EntryCells, NEW d2 \in EntryCells, d1.sum = d2.sum,
         \A i \in 1..Len(d1.sum) + 1 : b2[d2.ofs + i] = b1[d1.ofs + i],
         Extractable(b1, d1)
  PROVE  Extractable(b2, d2)
<1>1. d1.ofs \in Nat /\ d2.ofs \in Nat /\ Len(d1.sum) \in Nat
  BY EntryCellIs
<1>2. CASE d1.sum = <<>>
  BY <1>2 DEF Extractable
<1>3. CASE d1.sum # <<>>
  <2>1. b2[d2.ofs + 1] = b1[d1.ofs + 1]
    BY <1>1
  <2>2. \A i \in 1..Len(d1.sum) : b2[d2.ofs + 1 + i] = b1[d1.ofs + 1 + i]
    <3> SUFFICES ASSUME NEW i \in 1..Len(d1.sum) PROVE b2[d2.ofs + 1 + i] = b1[d1.ofs + 1 + i]
      OBVIOUS
    <3>1. i + 1 \in 1..Len(d1.sum) + 1
      BY <1>1
    <3>2. b2[d2.ofs + (i + 1)] = b1[d1.ofs + (i + 1)]
      BY <3>1
    <3>3. \A o \in Nat : o + (i + 1) = o + 1 + i
      BY <1>1
    <3> QED
      BY <1>1, <3>2, <3>3
  <2>3. DataOf(b2, d2) = DataOf(b1, d1)
    BY <2>2 DEF DataOf
  <2> QED
    BY <1>3, <2>1, <2>2, <2>3 DEF Extractable
<1> QED
  BY <1>2, <1>3

LEMMA KeepsOn ==
  ASSUME NEW b1, NEW b2, NEW n \in Nat, NEW m \in Nat, n <= m, NEW dir, NEW entries, Keeps(b1, n, dir, entries),
         \A i \in 1..n : b2[i] = b1[i]
  PROVE  Keeps(b2, m, dir, entries)
<1> SUFFICES ASSUME NEW i \in 1..Len(dir)
             PROVE  dir[i].ofs + 1 + Len(dir[i].sum) <= m /\ Extractable(b2, dir[i])
  BY DEF Keeps
<1>1. dir[i] \in EntryCells
  BY ElementOfSeq DEF Keeps
<1>2. dir[i].ofs \in Nat /\ Len(dir[i].sum) \in Nat
  BY <1>1, EntryCellIs
<1>3. dir[i].ofs + 1 + Len(dir[i].sum) <= n /\ Extractable(b1, dir[i])
  BY DEF Keeps
<1>4. \A j \in 1..Len(dir[i].sum) + 1 : b2[dir[i].ofs + j] = b1[dir[i].ofs + j]
  <2> SUFFICES ASSUME NEW j \in 1..Len(dir[i].sum) + 1 PROVE dir[i].ofs + j \in 1..n
    OBVIOUS
  <2>1. PICK o \in Nat, l \in Nat : o = dir[i].ofs /\ l = Len(dir[i].sum)
    BY <1>2
  <2>2. o + 1 + l <= n
    BY <1>3, <2>1
  <2>3. j \in 1..l + 1
    BY <2>1
  <2>4. o + j \in 1..n
    BY <2>2, <2>3
  <2> QED
    BY <2>1, <2>4
<1>5. Extractable(b2, dir[i])
  BY <1>1, <1>3, <1>4, SameData
<1> QED
  BY <1>2, <1>3, <1>5

\* One entry more.
LEMMA KeepsMore ==
  ASSUME NEW b, NEW n \in Nat, NEW dir, NEW entries, Keeps(b, n, dir, entries),
         NEW d \in EntryCells, NEW e \in Members \X Seq(Nat),
         d.name = e[1], d.sum = e[2], d.ofs + 1 + Len(d.sum) <= n, Extractable(b, d)
  PROVE  Keeps(b, n, Append(dir, d), Append(entries, e))
<1>1. dir \in Seq(EntryCells) /\ entries \in EntriesWritten /\ Len(dir) = Len(entries)
  BY DEF Keeps
<1>2. /\ Append(dir, d) \in Seq(EntryCells) /\ Append(entries, e) \in EntriesWritten
      /\ Len(Append(dir, d)) = Len(dir) + 1 /\ Len(Append(entries, e)) = Len(dir) + 1
      /\ \A i \in 1..Len(dir) : Append(dir, d)[i] = dir[i] /\ Append(entries, e)[i] = entries[i]
      /\ Append(dir, d)[Len(dir) + 1] = d /\ Append(entries, e)[Len(dir) + 1] = e
  BY <1>1 DEF EntriesWritten
<1> SUFFICES ASSUME NEW i \in 1..Len(dir) + 1
             PROVE  /\ Append(dir, d)[i].name = Append(entries, e)[i][1]
                    /\ Append(dir, d)[i].sum = Append(entries, e)[i][2]
                    /\ Append(dir, d)[i].ofs + 1 + Len(Append(dir, d)[i].sum) <= n
                    /\ Extractable(b, Append(dir, d)[i])
  BY <1>2 DEF Keeps
<1>3. CASE i = Len(dir) + 1
  BY <1>2, <1>3
<1>4. CASE i # Len(dir) + 1
  <2>1. i \in 1..Len(dir)
    BY <1>1, <1>4
  <2> QED
    BY <1>2, <2>1 DEF Keeps
<1> QED
  BY <1>3, <1>4

LEMMA EndIs ==
  ASSUME NEW b \in Seq(Cells), NEW e \in 1..Len(b), b[e].kind = "end",
         \A i \in e + 1..Len(b) : b[i].kind # "end"
  PROVE  EndsOf(b) # {} /\ EndOf(b) = e
<1>1. Len(b) \in Nat /\ DOMAIN b = 1..Len(b)
  OBVIOUS
<1>2. e \in EndsOf(b)
  BY <1>1 DEF EndsOf
<1>3. \A j \in EndsOf(b) : j <= e
  BY <1>1 DEF EndsOf
<1>4. EndOf(b) \in EndsOf(b) /\ \A j \in EndsOf(b) : j <= EndOf(b)
  BY <1>2, <1>3 DEF EndOf
<1>5. EndOf(b) \in Nat
  BY <1>1, <1>4 DEF EndsOf
<1> QED
  BY <1>2, <1>3, <1>4, <1>5
LEMMA ConcatIs ==
  ASSUME NEW T, NEW s \in Seq(T), NEW t \in Seq(T)
  PROVE  /\ s \o t \in Seq(T) /\ Len(s \o t) = Len(s) + Len(t)
         /\ \A i \in 1..Len(s) : (s \o t)[i] = s[i]
         /\ \A i \in 1..Len(t) : (s \o t)[Len(s) + i] = t[i]
<1>1. Len(s) \in Nat /\ Len(t) \in Nat
  OBVIOUS
<1>2. s \o t \in Seq(T) /\ Len(s \o t) = Len(s) + Len(t)
  OBVIOUS
<1>3. \A i \in 1..Len(s) : (s \o t)[i] = s[i]
  OBVIOUS
<1>4. \A i \in 1..Len(t) : (s \o t)[Len(s) + i] = t[i]
  OBVIOUS
<1> QED
  BY <1>2, <1>3, <1>4

LEMMA OneIs ==
  ASSUME NEW T, NEW x \in T
  PROVE  <<x>> \in Seq(T) /\ Len(<<x>>) = 1 /\ <<x>>[1] = x
OBVIOUS

LEMMA SliceIs ==
  ASSUME NEW T, NEW s \in Seq(T), NEW o \in Nat, NEW n \in Nat, o + n <= Len(s)
  PROVE  /\ SubSeq(s, o + 1, o + n) \in Seq(T) /\ Len(SubSeq(s, o + 1, o + n)) = n
         /\ \A i \in 1..n : SubSeq(s, o + 1, o + n)[i] = s[o + i]
<1>1. Len(s) \in Nat
  OBVIOUS
<1>2. \A i \in 1..n : o + i \in 1..Len(s)
  BY <1>1
<1>3. \A i \in 1..n : s[o + i] \in T
  BY <1>2, ElementOfSeq
<1> DEFINE h == [i \in 1..n |-> s[o + i]]
<1>4. SubSeq(s, o + 1, o + n) = h
  <2>1. SubSeq(s, o + 1, o + n) = [i \in 1..(o + n) - (o + 1) + 1 |-> s[i + (o + 1) - 1]]
    BY <1>1
  <2>2. 1..(o + n) - (o + 1) + 1 = 1..n /\ \A i \in 1..n : i + (o + 1) - 1 = o + i
    OBVIOUS
  <2> QED
    BY <2>1, <2>2
<1>5. h \in Seq(T) /\ Len(h) = n /\ \A i \in 1..n : h[i] = s[o + i]
  BY <1>3
<1> QED
  BY <1>4, <1>5

LEMMA PutIs ==
  ASSUME NEW T, NEW s \in Seq(T), NEW n \in 1..Len(s), NEW x \in T
  PROVE  /\ [s EXCEPT ![n] = x] \in Seq(T) /\ Len([s EXCEPT ![n] = x]) = Len(s)
         /\ [s EXCEPT ![n] = x][n] = x
         /\ \A i \in 1..Len(s) : i # n => [s EXCEPT ![n] = x][i] = s[i]
OBVIOUS

LEMMA MoreIs ==
  ASSUME NEW T, NEW s \in Seq(T), NEW x \in T
  PROVE  /\ Append(s, x) \in Seq(T) /\ Len(Append(s, x)) = Len(s) + 1
         /\ \A i \in 1..Len(s) : Append(s, x)[i] = s[i]
         /\ Append(s, x)[Len(s) + 1] = x
OBVIOUS

-----------------------------------------------------------------------------
Zips == [buffer : Seq(Cells), mode : {"reading", "writing", "invalid"}, dir : Seq(EntryCells),
         size : Nat, comment : {NoComment, Comment, Spoiled}, moved : BOOLEAN]

\* What each mode says of an archive with these entries.
Writing(z, entries) ==
  /\ z \in Zips /\ z.mode = "writing"
  /\ z.size <= Len(z.buffer) /\ Len(z.buffer) <= z.size + 1
  /\ Keeps(z.buffer, z.size, z.dir, entries)

\* A buffer that is written and can be read.
Written(buf, entries) ==
  /\ buf \in Seq(Cells) /\ Sealed(buf) /\ GoodDirectory(buf)
  /\ Keeps(buf, Len(buf), DirectoryOf(buf), entries)

Reading(z, entries) ==
  /\ z \in Zips /\ z.mode = "reading" /\ z.dir = DirectoryOf(z.buffer)
  /\ Written(z.buffer, entries)

Unused(z, entries) ==
  /\ z \in Zips /\ z.mode = "invalid" /\ z.buffer = <<EndRecord(0, 0)>> /\ entries = <<>>

LEMMA CellsAre ==
  /\ EntryCells \subseteq Cells
  /\ \A n \in Members : Local(n) \in Cells /\ Local(n).kind = "local"
  /\ \A v \in Nat : Byte(v) \in Cells /\ Byte(v).kind = "byte" /\ Byte(v).v = v
  /\ \A n, o \in Nat : /\ EndRecord(n, o) \in Cells /\ EndRecord(n, o).kind = "end"
                       /\ EndRecord(n, o).total = n /\ EndRecord(n, o).ofs = o /\ EndRecord(n, o).comment = 0
BY DEF Cells, Local, Byte, EndRecord

Opened(z, dir) == [z EXCEPT !.mode = "reading", !.dir = dir, !.size = 0, !.moved = FALSE]
Finished(z, buf) == [z EXCEPT !.buffer = buf, !.mode = "invalid", !.dir = <<>>]
Grown(z, buf, dir, s) == [z EXCEPT !.buffer = buf, !.dir = dir, !.size = s]
Cleared(z) == [z EXCEPT !.buffer = <<>>, !.moved = FALSE]

LEMMA OpenedIs ==
  ASSUME NEW z \in Zips, NEW dir \in Seq(EntryCells)
  PROVE  /\ Opened(z, dir) \in Zips /\ Opened(z, dir).mode = "reading"
         /\ Opened(z, dir).dir = dir /\ Opened(z, dir).buffer = z.buffer
BY DEF Zips, Opened

LEMMA FinishedIs ==
  ASSUME NEW z \in Zips, NEW buf \in Seq(Cells)
  PROVE  /\ Finished(z, buf) \in Zips /\ Finished(z, buf).mode = "invalid"
         /\ Finished(z, buf).buffer = buf /\ Finished(z, buf).comment = z.comment
<1>1. <<>> \in Seq(EntryCells)
  OBVIOUS
<1> QED
  BY <1>1 DEF Zips, Finished

LEMMA GrownIs ==
  ASSUME NEW z \in Zips, NEW buf \in Seq(Cells), NEW dir \in Seq(EntryCells), NEW s \in Nat
  PROVE  /\ Grown(z, buf, dir, s) \in Zips /\ Grown(z, buf, dir, s).mode = z.mode
         /\ Grown(z, buf, dir, s).buffer = buf /\ Grown(z, buf, dir, s).dir = dir
         /\ Grown(z, buf, dir, s).size = s
BY DEF Zips, Grown

LEMMA BegunIs ==
  ASSUME NEW z \in Zips
  PROVE  /\ WriterInit(z) \in Zips /\ WriterInit(z).mode = "writing" /\ WriterInit(z).buffer = z.buffer
         /\ WriterInit(z).dir = <<>> /\ WriterInit(z).size = 0
<1>1. <<>> \in Seq(EntryCells)
  OBVIOUS
<1> QED
  BY <1>1 DEF Zips, WriterInit

LEMMA ClearedIs ==
  ASSUME NEW z \in Zips
  PROVE  Cleared(z) \in Zips /\ Cleared(z).buffer = <<>>
<1>1. <<>> \in Seq(Cells)
  OBVIOUS
<1> QED
  BY <1>1 DEF Zips, Cleared

\* The directory and the end record are put behind the last entry.
LEMMA ClosedIs ==
  ASSUME NEW z, NEW entries, Writing(z, entries)
  PROVE  /\ Closed(z) \in Zips /\ Closed(z).mode = "invalid" /\ Closed(z).comment = z.comment
         /\ DirectoryOf(Closed(z).buffer) = z.dir
         /\ Written(Closed(z).buffer, entries)
<1>0. /\ z \in Zips /\ z.buffer \in Seq(Cells) /\ z.dir \in Seq(EntryCells) /\ z.size \in Nat
      /\ z.size <= Len(z.buffer) /\ Len(z.buffer) <= z.size + 1
      /\ Keeps(z.buffer, z.size, z.dir, entries)
  BY DEF Writing, Zips
<1>a. PICK b \in Seq(Cells), dir \in Seq(EntryCells), size \in Nat, m \in Nat :
        b = z.buffer /\ dir = z.dir /\ size = z.size /\ m = Len(b)
  <2>1. Len(z.buffer) \in Nat
    BY <1>0
  <2> QED
    BY <1>0, <2>1
<1>1. size <= m /\ m <= size + 1 /\ Keeps(b, size, dir, entries)
  BY <1>0, <1>a
<1>2. PICK n \in Nat : n = Len(dir)
  BY <1>1
<1>3. PICK o \in Nat : o = (IF dir = <<>> THEN 0 ELSE size)
  BY <1>1
<1>4. PICK end \in Cells : /\ end = EndRecord(n, o) /\ end.kind = "end"
                           /\ end.total = n /\ end.ofs = o /\ end.comment = 0
  BY CellsAre
<1>5. dir \in Seq(Cells)
  BY <1>1, CellsAre
<1> DEFINE cells == dir \o <<end>>
<1>6. /\ cells \in Seq(Cells) /\ Len(cells) = n + 1
      /\ \A i \in 1..n : cells[i] = dir[i]
      /\ cells[n + 1] = end
  <2>1. <<end>> \in Seq(Cells) /\ Len(<<end>>) = 1 /\ <<end>>[1] = end
    BY OneIs
  <2>2. /\ dir \o <<end>> \in Seq(Cells) /\ Len(dir \o <<end>>) = n + 1
        /\ \A i \in 1..n : (dir \o <<end>>)[i] = dir[i]
        /\ \A i \in 1..1 : (dir \o <<end>>)[n + i] = <<end>>[i]
    BY <1>2, <1>5, <2>1, ConcatIs
  <2> QED
    BY <2>1, <2>2
<1> HIDE DEF cells
<1>c. PICK w : w = WriteAt(b, size, cells)
  OBVIOUS
<1>7. /\ w \in Seq(Cells) /\ Len(w) = size + n + 1
      /\ \A i \in 1..size : w[i] = b[i]
      /\ \A i \in 1..n + 1 : w[size + i] = cells[i]
  <2>1. m <= size + (n + 1) /\ size + (n + 1) = size + n + 1 /\ size <= m
    BY <1>1
  <2>2. size <= Len(b) /\ Len(b) <= size + Len(cells)
    BY <1>a, <1>6, <2>1
  <2>4. cells \in Seq(Cells)
    BY <1>6
  <2>3. /\ w \in Seq(Cells) /\ Len(w) = size + Len(cells)
        /\ \A i \in 1..size : w[i] = b[i]
        /\ \A i \in 1..Len(cells) : w[size + i] = cells[i]
    BY <1>c, <2>2, <2>4, WriteAtEnd
  <2> QED
    BY <1>6, <2>1, <2>3
<1>8. PICK c : c = Closed(z)
  OBVIOUS
<1>9. c \in Zips /\ c.mode = "invalid" /\ c.comment = z.comment /\ c.buffer = w
  <2>1. Closed(z) = Finished(z, WriteAt(b, size, cells))
    BY <1>a, <1>2, <1>3, <1>4 DEF Closed, cells, Finished
  <2>2. z \in Zips /\ w \in Seq(Cells) /\ c = Finished(z, w)
    BY <1>0, <1>7, <1>8, <1>c, <2>1
  <2> QED
    BY <2>2, FinishedIs
<1>10. PICK e \in 1..Len(w) : e = size + n + 1 /\ e = Len(w)
  BY <1>1, <1>7
<1>11. w[e] = end
  <2>1. n + 1 \in 1..n + 1 /\ size + (n + 1) = e
    BY <1>1, <1>10
  <2> QED
    BY <1>6, <1>7, <2>1
<1>12. EndsOf(w) # {} /\ EndOf(w) = e
  <2>1. \A i \in e + 1..Len(w) : w[i].kind # "end"
    BY <1>10
  <2> QED
    BY <1>4, <1>7, <1>10, <1>11, <2>1, EndIs
<1>13. DirectoryOf(w) = dir
  <2>1. DirectoryOf(w) = SubSeq(w, o + 1, o + n)
    BY <1>4, <1>11, <1>12 DEF DirectoryOf
  <2>2. CASE dir = <<>>
    <3>1. n = 0
      BY <1>2, <2>2
    <3> QED
      BY <2>1, <2>2, <3>1
  <2>3. CASE dir # <<>>
    <3>1. o = size
      BY <1>3, <2>3
    <3>2. /\ SubSeq(w, o + 1, o + n) \in Seq(Cells) /\ Len(SubSeq(w, o + 1, o + n)) = n
          /\ \A i \in 1..n : SubSeq(w, o + 1, o + n)[i] = w[o + i]
      <4>1. o + n <= Len(w)
        BY <1>1, <1>7, <3>1
      <4> QED
        BY <1>7, <4>1, SliceIs
    <3>3. ASSUME NEW i \in 1..n PROVE SubSeq(w, o + 1, o + n)[i] = dir[i]
      <4>1. i \in 1..n + 1
        OBVIOUS
      <4> QED
        BY <1>6, <1>7, <3>1, <3>2, <4>1
    <3> QED
      BY <1>2, <1>5, <2>1, <3>2, <3>3, SeqEqual
  <2> QED
    BY <2>2, <2>3
<1>14. Keeps(w, Len(w), dir, entries)
  <2>1. Len(w) \in Nat /\ size <= Len(w)
    BY <1>1, <1>7
  <2> QED
    BY <1>1, <1>7, <2>1, KeepsOn
<1>15. Sealed(w)
  BY <1>4, <1>10, <1>11, <1>12 DEF Sealed
<1>16. GoodDirectory(w)
  <2>1. o + n <= Len(w)
    BY <1>1, <1>3, <1>7
  <2>2. ASSUME NEW d \in Range(dir) PROVE d.kind = "entry" /\ d.ofs + 1 + Len(d.sum) <= Len(w)
    <3>1. PICK i \in 1..Len(dir) : d = dir[i]
      BY <1>1, <2>2 DEF Range
    <3>2. d \in EntryCells
      BY <1>1, <3>1, ElementOfSeq
    <3> QED
      BY <1>14, <3>1, <3>2, EntryCellIs DEF Keeps
  <2> QED
    BY <1>4, <1>11, <1>12, <1>13, <2>1, <2>2 DEF GoodDirectory
<1>17. Written(w, entries)
  BY <1>7, <1>13, <1>14, <1>15, <1>16 DEF Written
<1> QED
  BY <1>a, <1>8, <1>9, <1>13, <1>17

\* The empty archive.
LEMMA EmptyIs ==
  /\ EmptyZip \in Zips /\ Unused(EmptyZip, <<>>)
  /\ Written(<<EndRecord(0, 0)>>, <<>>) /\ DirectoryOf(<<EndRecord(0, 0)>>) = <<>>
<1>1. PICK end \in Cells : /\ end = EndRecord(0, 0) /\ end.kind = "end"
                           /\ end.total = 0 /\ end.ofs = 0 /\ end.comment = 0
  BY CellsAre
<1>2. PICK b \in Seq(Cells) : b = <<end>> /\ Len(b) = 1 /\ b[1] = end
  BY OneIs
<1>3. EndsOf(b) # {} /\ EndOf(b) = 1
  <2>1. 1 \in 1..Len(b) /\ \A i \in 1 + 1..Len(b) : b[i].kind # "end"
    BY <1>2
  <2> QED
    BY <1>1, <1>2, <2>1, EndIs
<1>4. DirectoryOf(b) = <<>>
  BY <1>1, <1>2, <1>3 DEF DirectoryOf
<1>5. Range(<<>>) = {}
  BY DEF Range
<1>6. Sealed(b) /\ GoodDirectory(b)
  BY <1>1, <1>2, <1>3, <1>4, <1>5 DEF Sealed, GoodDirectory
<1>7. Keeps(b, Len(b), <<>>, <<>>)
  BY DEF Keeps, EntriesWritten
<1>8. Written(b, <<>>)
  BY <1>4, <1>6, <1>7 DEF Written
<1>9. EmptyZip \in Zips /\ EmptyZip.mode = "invalid" /\ EmptyZip.buffer = b
  <2>1. EmptyZip = [buffer |-> b, mode |-> "invalid", dir |-> <<>>, size |-> 0, comment |-> NoComment, moved |-> FALSE]
    BY <1>1, <1>2 DEF EmptyZip
  <2>2. <<>> \in Seq(EntryCells)
    OBVIOUS
  <2> QED
    BY <2>1, <2>2 DEF Zips
<1> QED
  BY <1>1, <1>2, <1>4, <1>8, <1>9 DEF Unused

\* Opened for reading, whatever it was.
LEMMA StartReadIs ==
  ASSUME NEW z, NEW entries, Writing(z, entries) \/ Reading(z, entries) \/ Unused(z, entries)
  PROVE  Reading(StartRead(z), entries) /\ (Reading(z, entries) => StartRead(z) = z)
<1>1. CASE Reading(z, entries)
  BY <1>1 DEF StartRead, Reading
<1>2. CASE Writing(z, entries) \/ Unused(z, entries)
  <2>1. PICK c : c = (IF z.mode = "writing" THEN Closed(z) ELSE z)
    OBVIOUS
  <2>2. c \in Zips /\ Written(c.buffer, entries)
    BY <1>2, <2>1, ClosedIs, EmptyIs DEF Writing, Unused
  <2>3. z.mode # "reading"
    BY <1>2 DEF Writing, Unused
  <2>a. PICK buf \in Seq(Cells), dir \in Seq(EntryCells) : buf = c.buffer /\ dir = DirectoryOf(buf)
    BY <2>2 DEF Written, Keeps
  <2>4. StartRead(z) = Opened(c, dir)
    BY <2>1, <2>2, <2>3, <2>a DEF StartRead, Written, Opened
  <2>6. /\ StartRead(z) \in Zips /\ StartRead(z).mode = "reading"
        /\ StartRead(z).dir = dir /\ StartRead(z).buffer = c.buffer
    <3>1. c \in Zips
      BY <2>2
    <3> QED
      BY <2>4, <3>1, OpenedIs
  <2> QED
    BY <2>2, <2>3, <2>6, <2>a DEF Reading
<1> QED
  BY <1>1, <1>2

\* An entry is added behind the last one.
LEMMA AddMemIs ==
  ASSUME NEW z, NEW entries, Writing(z, entries), NEW n \in Members, NEW data \in Seq(Nat)
  PROVE  Writing(AddMem(z, n, data), Append(entries, <<n, data>>))
<1>0. /\ z \in Zips /\ z.buffer \in Seq(Cells) /\ z.dir \in Seq(EntryCells) /\ z.size \in Nat
      /\ z.size <= Len(z.buffer) /\ Len(z.buffer) <= z.size + 1 /\ z.mode = "writing"
      /\ Keeps(z.buffer, z.size, z.dir, entries)
  BY DEF Writing, Zips
<1>a. PICK b \in Seq(Cells), dir \in Seq(EntryCells), size \in Nat, m \in Nat :
        b = z.buffer /\ dir = z.dir /\ size = z.size /\ m = Len(b)
  <2>1. Len(z.buffer) \in Nat
    BY <1>0
  <2> QED
    BY <1>0, <2>1
<1>1. size <= m /\ m <= size + 1 /\ Keeps(b, size, dir, entries)
  BY <1>0, <1>a
<1>2. PICK l \in Nat : l = Len(data)
  OBVIOUS
<1> DEFINE bytes == Bytes(data)
<1>3. bytes \in Seq(Cells) /\ Len(bytes) = l /\ \A i \in 1..l : bytes[i] = Byte(data[i])
  <2>1. \A i \in 1..l : Byte(data[i]) \in Cells
    BY <1>2, ElementOfSeq, CellsAre
  <2>2. Bytes(data) = [i \in 1..l |-> Byte(data[i])]
    BY <1>2 DEF Bytes
  <2> QED
    BY <2>1, <2>2
<1> HIDE DEF bytes
<1> DEFINE cells == <<Local(n)>> \o bytes
<1>4. /\ cells \in Seq(Cells) /\ Len(cells) = l + 1 /\ cells[1] = Local(n)
      /\ \A i \in 1..l : cells[1 + i] = bytes[i]
  <2>1. <<Local(n)>> \in Seq(Cells) /\ Len(<<Local(n)>>) = 1 /\ <<Local(n)>>[1] = Local(n)
    BY CellsAre, OneIs
  <2>2. /\ <<Local(n)>> \o bytes \in Seq(Cells) /\ Len(<<Local(n)>> \o bytes) = 1 + l
        /\ \A i \in 1..1 : (<<Local(n)>> \o bytes)[i] = <<Local(n)>>[i]
        /\ \A i \in 1..l : (<<Local(n)>> \o bytes)[1 + i] = bytes[i]
    BY <1>3, <2>1, ConcatIs
  <2> QED
    BY <2>1, <2>2
<1> HIDE DEF cells
<1>c. PICK w : w = WriteAt(b, size, cells)
  OBVIOUS
<1>5. /\ w \in Seq(Cells) /\ Len(w) = size + l + 1
      /\ \A i \in 1..size : w[i] = b[i]
      /\ \A i \in 1..l + 1 : w[size + i] = cells[i]
  <2>1. m <= size + (l + 1) /\ size + (l + 1) = size + l + 1 /\ size <= m
    BY <1>1
  <2>2. size <= Len(b) /\ Len(b) <= size + Len(cells)
    BY <1>a, <1>4, <2>1
  <2>4. cells \in Seq(Cells)
    BY <1>4
  <2>3. /\ w \in Seq(Cells) /\ Len(w) = size + Len(cells)
        /\ \A i \in 1..size : w[i] = b[i]
        /\ \A i \in 1..Len(cells) : w[size + i] = cells[i]
    BY <1>c, <2>2, <2>4, WriteAtEnd
  <2> QED
    BY <1>4, <2>1, <2>3
<1> DEFINE d == Entry(n, data, size)
<1>6. d \in EntryCells /\ d.name = n /\ d.sum = data /\ d.ofs = size
  BY DEF Entry, EntryCells
<1>7. PICK s \in Nat : s = size + 1 + l
  BY <1>1
<1>8. AddMem(z, n, data) = Grown(z, w, Append(dir, d), s)
  BY <1>a, <1>2, <1>7, <1>c DEF AddMem, bytes, cells, Grown
<1> HIDE DEF d
<1>9. Append(dir, d) \in Seq(EntryCells)
  BY <1>6, MoreIs
<1>10. /\ AddMem(z, n, data) \in Zips /\ AddMem(z, n, data).mode = "writing" /\ AddMem(z, n, data).buffer = w
       /\ AddMem(z, n, data).dir = Append(dir, d) /\ AddMem(z, n, data).size = s
  <2>1. z \in Zips /\ z.mode = "writing" /\ w \in Seq(Cells)
    BY <1>0, <1>5
  <2>2. PICK grown \in Seq(EntryCells) : grown = Append(dir, d)
    BY <1>9
  <2>3. /\ Grown(z, w, grown, s) \in Zips /\ Grown(z, w, grown, s).mode = z.mode
        /\ Grown(z, w, grown, s).buffer = w /\ Grown(z, w, grown, s).dir = grown
        /\ Grown(z, w, grown, s).size = s
    BY <2>1 DEF Zips, Grown
  <2> QED
    BY <1>8, <2>1, <2>2, <2>3
<1>11. Keeps(w, s, dir, entries)
  <2>1. size <= s
    BY <1>1, <1>7
  <2> QED
    BY <1>1, <1>5, <2>1, KeepsOn
<1>12. Extractable(w, d)
  <2>1. w[size + 1] = Local(n)
    <3>1. 1 \in 1..l + 1
      OBVIOUS
    <3> QED
      BY <1>4, <1>5, <3>1
  <2>2. ASSUME NEW i \in 1..l PROVE w[size + 1 + i] = Byte(data[i])
    <3>1. 1 + i \in 1..l + 1 /\ size + (1 + i) = size + 1 + i
      BY <1>1
    <3> QED
      BY <1>3, <1>4, <1>5, <3>1
  <2>3. \A i \in 1..l : data[i] \in Nat
    BY <1>2, ElementOfSeq
  <2>4. \A i \in 1..l : w[size + 1 + i].kind = "byte" /\ w[size + 1 + i].v = data[i]
    BY <2>2, <2>3, CellsAre
  <2>5. DataOf(w, d) = [i \in 1..l |-> w[size + 1 + i].v]
    BY <1>2, <1>6 DEF DataOf
  <2>6. data = [i \in 1..l |-> data[i]]
    BY <1>2
  <2>7. DataOf(w, d) = data
    BY <2>4, <2>5, <2>6
  <2>8. w[size + 1].kind = "local"
    BY <2>1, CellsAre
  <2> QED
    BY <1>2, <1>6, <2>4, <2>7, <2>8 DEF Extractable
<1>13. Keeps(w, s, Append(dir, d), Append(entries, <<n, data>>))
  <2>1. d.ofs + 1 + Len(d.sum) <= s
    BY <1>1, <1>2, <1>6, <1>7
  <2>2. <<n, data>> \in Members \X Seq(Nat) /\ <<n, data>>[1] = n /\ <<n, data>>[2] = data
    OBVIOUS
  <2> QED
    BY <1>6, <1>11, <1>12, <2>1, <2>2, KeepsMore
<1>14. s <= Len(w) /\ Len(w) <= s + 1
  BY <1>1, <1>5, <1>7
<1> QED
  BY <1>10, <1>13, <1>14 DEF Writing

-----------------------------------------------------------------------------
\* One entry is copied from a buffer to the end of another.
LEMMA CopyEntryIs ==
  ASSUME NEW z, NEW entries, Writing(z, entries), NEW old \in Seq(Cells), NEW d \in EntryCells,
         NEW e \in Members \X Seq(Nat), d.name = e[1], d.sum = e[2],
         d.ofs + 1 + Len(d.sum) <= Len(old), Extractable(old, d)
  PROVE  Writing(CopyEntry(old, d, z), Append(entries, e))
<1>0. /\ z \in Zips /\ z.buffer \in Seq(Cells) /\ z.dir \in Seq(EntryCells) /\ z.size \in Nat
      /\ z.size <= Len(z.buffer) /\ Len(z.buffer) <= z.size + 1 /\ z.mode = "writing"
      /\ Keeps(z.buffer, z.size, z.dir, entries)
  BY DEF Writing, Zips
<1>a. PICK b \in Seq(Cells), dir \in Seq(EntryCells), size \in Nat, m \in Nat :
        b = z.buffer /\ dir = z.dir /\ size = z.size /\ m = Len(b)
  <2>1. Len(z.buffer) \in Nat
    BY <1>0
  <2> QED
    BY <1>0, <2>1
<1>1. size <= m /\ m <= size + 1 /\ Keeps(b, size, dir, entries)
  BY <1>0, <1>a
<1>2. PICK l \in Nat, o \in Nat : l = Len(d.sum) /\ o = d.ofs
  BY EntryCellIs
<1> DEFINE cells == SubSeq(old, o + 1, o + 1 + l)
<1>4. /\ cells \in Seq(Cells) /\ Len(cells) = l + 1
      /\ \A i \in 1..l + 1 : cells[i] = old[o + i]
  <2>0. o + 1 + l <= Len(old)
    BY <1>2
  <2>1. o + (l + 1) <= Len(old) /\ o + 1 + l = o + (l + 1)
    BY <2>0
  <2>2. /\ SubSeq(old, o + 1, o + (l + 1)) \in Seq(Cells) /\ Len(SubSeq(old, o + 1, o + (l + 1))) = l + 1
        /\ \A i \in 1..l + 1 : SubSeq(old, o + 1, o + (l + 1))[i] = old[o + i]
    BY <2>1, SliceIs
  <2> QED
    BY <2>1, <2>2
<1>c. PICK w : w = WriteAt(b, size, cells)
  OBVIOUS
<1> DEFINE f == [d EXCEPT !.ofs = size]
<1>6. f \in EntryCells /\ f.name = d.name /\ f.sum = d.sum /\ f.ofs = size
  BY EntryCellIs
<1>7. PICK s \in Nat : s = size + 1 + l
  OBVIOUS
<1>8. CopyEntry(old, d, z) = Grown(z, w, Append(dir, f), s)
  BY <1>a, <1>2, <1>7, <1>c DEF CopyEntry, Grown
<1> HIDE DEF cells, f
<1>5. /\ w \in Seq(Cells) /\ Len(w) = size + l + 1
      /\ \A i \in 1..size : w[i] = b[i]
      /\ \A i \in 1..l + 1 : w[size + i] = cells[i]
  <2>1. m <= size + (l + 1) /\ size + (l + 1) = size + l + 1 /\ size <= m
    BY <1>1
  <2>2. size <= Len(b) /\ Len(b) <= size + Len(cells)
    BY <1>a, <1>4, <2>1
  <2>4. cells \in Seq(Cells)
    BY <1>4
  <2>3. /\ w \in Seq(Cells) /\ Len(w) = size + Len(cells)
        /\ \A i \in 1..size : w[i] = b[i]
        /\ \A i \in 1..Len(cells) : w[size + i] = cells[i]
    BY <1>c, <2>2, <2>4, WriteAtEnd
  <2> QED
    BY <1>4, <2>1, <2>3
<1>9. Append(dir, f) \in Seq(EntryCells)
  BY <1>6, MoreIs
<1>10. /\ CopyEntry(old, d, z) \in Zips /\ CopyEntry(old, d, z).mode = "writing"
       /\ CopyEntry(old, d, z).buffer = w
       /\ CopyEntry(old, d, z).dir = Append(dir, f) /\ CopyEntry(old, d, z).size = s
  <2>1. z \in Zips /\ z.mode = "writing" /\ w \in Seq(Cells)
    BY <1>0, <1>5
  <2>2. PICK grown \in Seq(EntryCells) : grown = Append(dir, f)
    BY <1>9
  <2>3. /\ Grown(z, w, grown, s) \in Zips /\ Grown(z, w, grown, s).mode = z.mode
        /\ Grown(z, w, grown, s).buffer = w /\ Grown(z, w, grown, s).dir = grown
        /\ Grown(z, w, grown, s).size = s
    BY <2>1 DEF Zips, Grown
  <2> QED
    BY <1>8, <2>1, <2>2, <2>3
<1>11. Keeps(w, s, dir, entries)
  <2>1. size <= s
    BY <1>1, <1>7
  <2> QED
    BY <1>1, <1>5, <2>1, KeepsOn
<1>12. Extractable(w, f)
  <2>1. \A i \in 1..l + 1 : w[size + i] = old[o + i]
    BY <1>4, <1>5
  <2>2. \A i \in 1..Len(d.sum) + 1 : w[f.ofs + i] = old[d.ofs + i]
    BY <1>2, <1>6, <2>1
  <2> QED
    BY <1>6, <2>2, SameData
<1>13. Keeps(w, s, Append(dir, f), Append(entries, e))
  <2>1. f.ofs + 1 + Len(f.sum) <= s
    BY <1>1, <1>2, <1>6, <1>7
  <2> QED
    BY <1>6, <1>11, <1>12, <2>1, KeepsMore
<1>14. s <= Len(w) /\ Len(w) <= s + 1
  BY <1>1, <1>5, <1>7
<1> QED
  BY <1>10, <1>13, <1>14 DEF Writing

LEMMA PrefixIs ==
  ASSUME NEW T, NEW s \in Seq(T), NEW k \in Nat, k + 1 <= Len(s)
  PROVE  SubSeq(s, 1, k + 1) = Append(SubSeq(s, 1, k), s[k + 1])
<1>1. Len(s) \in Nat
  OBVIOUS
<1>2. 1 \in 1..Len(s) /\ k + 1 \in 1..Len(s) /\ k + 1 - 1 = k
  BY <1>1
<1>3. SubSeq(s, 1, k + 1) = SubSeq(s, 1, k) \o <<s[k + 1]>>
  BY <1>2, SubSeqRecursiveSecond
<1>4. SubSeq(s, 1, k) \in Seq(T)
  BY <1>1
<1>5. s[k + 1] \in T
  BY <1>2, ElementOfSeq
<1>6. Append(SubSeq(s, 1, k), s[k + 1]) = SubSeq(s, 1, k) \o <<s[k + 1]>>
  BY <1>4, <1>5, AppendIsConcat
<1> QED
  BY <1>3, <1>6

\* The archives on the way exist: each is the one before it and one entry more.
Copies(old, dir, z, n, f) ==
  f = [k \in 0..n |-> IF k = 0 THEN z ELSE CopyEntry(old, dir[k], f[k - 1])]

LEMMA CopiesExist ==
  ASSUME NEW old, NEW dir, NEW z, NEW n \in Nat
  PROVE  \E f : Copies(old, dir, z, n, f)
<1> DEFINE S == {i \in Nat : \E f : Copies(old, dir, z, i, f)}
<1>1. 0 \in S
  <2> DEFINE f == [i \in 0..0 |-> z]
  <2>1. Copies(old, dir, z, 0, f)
    BY DEF Copies
  <2> QED
    BY <2>1
<1>2. ASSUME NEW m \in S PROVE m + 1 \in S
  <2>1. PICK f : Copies(old, dir, z, m, f)
    OBVIOUS
  <2> DEFINE g == [i \in 0..(m + 1) |-> IF i = m + 1 THEN CopyEntry(old, dir[m + 1], f[m]) ELSE f[i]]
  <2>2. \A i \in 0..m : f[i] = IF i = 0 THEN z ELSE CopyEntry(old, dir[i], f[i - 1])
    BY <2>1 DEF Copies
  <2>3. \A i \in 0..(m + 1) : g[i] = IF i = 0 THEN z ELSE CopyEntry(old, dir[i], g[i - 1])
    BY <2>2
  <2>4. Copies(old, dir, z, m + 1, g)
    BY <2>3 DEF Copies
  <2> HIDE DEF g
  <2>5. \E h : Copies(old, dir, z, m + 1, h)
    BY <2>4
  <2>6. m + 1 \in Nat
    OBVIOUS
  <2> QED
    BY <2>5, <2>6
<1>3. S = Nat
  <2>1. S \in SUBSET Nat
    OBVIOUS
  <2> HIDE DEF S
  <2> QED
    BY <1>1, <1>2, <2>1, SetInduction
<1> QED
  BY <1>3

LEMMA CopyEntriesIs ==
  ASSUME NEW old, NEW entries, Written(old, entries), NEW z, Writing(z, <<>>)
  PROVE  Writing(CopyEntries(old, DirectoryOf(old), z), entries)
<1>1. PICK dir \in Seq(EntryCells) : dir = DirectoryOf(old)
  BY DEF Written, Keeps
<1>2. /\ old \in Seq(Cells) /\ entries \in EntriesWritten /\ Keeps(old, Len(old), dir, entries)
  BY <1>1 DEF Written, Keeps
<1>3. PICK n \in Nat : n = Len(dir) /\ n = Len(entries)
  BY <1>2 DEF Keeps
<1>4. PICK f : Copies(old, dir, z, n, f) /\ CopyEntries(old, dir, z) = f[n]
  <2>1. PICK f : f = CHOOSE g : Copies(old, dir, z, n, g)
    OBVIOUS
  <2>2. Copies(old, dir, z, n, f)
    BY <2>1, CopiesExist
  <2>3. CopyEntries(old, dir, z) = f[n]
    BY <1>3, <2>1 DEF CopyEntries, Copies
  <2> QED
    BY <2>2, <2>3
<1>5. f[0] = z /\ \A k \in 1..n : f[k] = CopyEntry(old, dir[k], f[k - 1])
  BY <1>4 DEF Copies
<1> DEFINE S == {k \in Nat : k <= n => Writing(f[k], SubSeq(entries, 1, k))}
<1>6. 0 \in S
  <2>1. SubSeq(entries, 1, 0) = <<>>
    BY <1>2 DEF EntriesWritten
  <2> QED
    BY <1>5, <2>1
<1>7. ASSUME NEW k \in S PROVE k + 1 \in S
  <2> SUFFICES ASSUME k + 1 <= n PROVE Writing(f[k + 1], SubSeq(entries, 1, k + 1))
    OBVIOUS
  <2>1. k + 1 \in 1..n /\ k + 1 - 1 = k /\ k <= n /\ k \in Nat
    OBVIOUS
  <2>2. Writing(f[k], SubSeq(entries, 1, k))
    BY <2>1
  <2>3. dir[k + 1] \in EntryCells /\ entries[k + 1] \in Members \X Seq(Nat)
    BY <1>2, <1>3, <2>1, ElementOfSeq DEF EntriesWritten
  <2>4. /\ dir[k + 1].name = entries[k + 1][1] /\ dir[k + 1].sum = entries[k + 1][2]
        /\ dir[k + 1].ofs + 1 + Len(dir[k + 1].sum) <= Len(old) /\ Extractable(old, dir[k + 1])
    BY <1>2, <1>3, <2>1 DEF Keeps
  <2>5. f[k + 1] = CopyEntry(old, dir[k + 1], f[k])
    BY <1>5, <2>1
  <2>6. SubSeq(entries, 1, k + 1) = Append(SubSeq(entries, 1, k), entries[k + 1])
    BY <1>2, <1>3, <2>1, PrefixIs DEF EntriesWritten
  <2> QED
    BY <1>2, <2>2, <2>3, <2>4, <2>5, <2>6, CopyEntryIs
<1>8. S = Nat
  <2>1. S \in SUBSET Nat
    OBVIOUS
  <2> HIDE DEF S
  <2> QED
    BY <1>6, <1>7, <2>1, SetInduction
<1>9. Writing(f[n], SubSeq(entries, 1, n))
  BY <1>8
<1>10. SubSeq(entries, 1, n) = entries
  BY <1>2, <1>3 DEF EntriesWritten
<1> QED
  BY <1>1, <1>4, <1>9, <1>10

-----------------------------------------------------------------------------
\* Opened for writing: what is read is copied, if all local headers are in place.
LEMMA StartWriteIs ==
  ASSUME NEW z, NEW entries,
         Writing(z, entries) \/ Unused(z, entries) \/ (Reading(z, entries) /\ Misplaced(z.buffer, z.dir) = {})
  PROVE  Writing(StartWrite(z), entries)
<1>1. CASE Writing(z, entries)
  BY <1>1 DEF Writing, StartWrite
<1>2. CASE Unused(z, entries)
  <2>1. z \in Zips /\ z.mode = "invalid" /\ z.buffer = <<EndRecord(0, 0)>> /\ entries = <<>>
    BY <1>2 DEF Unused
  <2>2. StartWrite(z) = WriterInit(z)
    BY <2>1 DEF StartWrite
  <2>3. Len(z.buffer) = 1
    BY <2>1
  <2>5. PICK c : c = WriterInit(z)
    OBVIOUS
  <2>6. c \in Zips /\ c.mode = "writing" /\ c.buffer = z.buffer /\ c.dir = <<>> /\ c.size = 0
    BY <2>1, <2>5, BegunIs
  <2>4. Keeps(c.buffer, 0, <<>>, <<>>)
    BY DEF Keeps, EntriesWritten
  <2>7. Writing(c, <<>>)
    <3>1. c.size <= Len(c.buffer) /\ Len(c.buffer) <= c.size + 1
      <4>1. Len(c.buffer) = 1
        BY <2>3, <2>6
      <4>2. c.size = 0
        BY <2>6
      <4> QED
        BY <4>1, <4>2
    <3>2. Keeps(c.buffer, c.size, c.dir, <<>>)
      BY <2>4, <2>6
    <3> QED
      BY <2>6, <3>1, <3>2 DEF Writing
  <2> QED
    BY <2>1, <2>2, <2>5, <2>7
<1>3. CASE Reading(z, entries) /\ Misplaced(z.buffer, z.dir) = {}
  <2>1. z \in Zips /\ z.mode = "reading" /\ z.dir = DirectoryOf(z.buffer) /\ Written(z.buffer, entries)
    BY <1>3 DEF Reading
  <2>2. Copyable(z.buffer, DirectoryOf(z.buffer)) = DirectoryOf(z.buffer)
    BY <1>3, <2>1 DEF Copyable
  <2>3. PICK c : c = WriterInit(Cleared(z))
    OBVIOUS
  <2>4. StartWrite(z) = CopyEntries(z.buffer, DirectoryOf(z.buffer), c)
    BY <2>1, <2>2, <2>3 DEF StartWrite, Cleared
  <2>5. c \in Zips /\ c.mode = "writing" /\ c.buffer = <<>> /\ c.dir = <<>> /\ c.size = 0
    BY <2>1, <2>3, ClearedIs, BegunIs
  <2>6. Keeps(c.buffer, 0, <<>>, <<>>)
    BY DEF Keeps, EntriesWritten
  <2>7. Writing(c, <<>>)
    BY <2>5, <2>6 DEF Writing
  <2> QED
    BY <2>1, <2>4, <2>7, CopyEntriesIs
<1> QED
  BY <1>1, <1>2, <1>3

LEMMA EndCellIs ==
  ASSUME NEW c \in Cells
  PROVE  /\ c.kind = "end" => c.total \in Nat /\ c.ofs \in Nat /\ c.comment \in {0, 1}
         /\ c.kind = "comment" => c.v \in {Comment, Spoiled}
         /\ \A x \in {0, 1} : c.kind = "end" =>
              /\ [c EXCEPT !.comment = x] \in Cells /\ [c EXCEPT !.comment = x].kind = "end"
              /\ [c EXCEPT !.comment = x].total = c.total /\ [c EXCEPT !.comment = x].ofs = c.ofs
              /\ [c EXCEPT !.comment = x].comment = x
         /\ \A x \in {Comment, Spoiled} : [kind |-> "comment", v |-> x] \in Cells
<1>1. c.kind = "end" => c \in [kind : {"end"}, total : Nat, ofs : Nat, comment : {0, 1}]
  BY DEF Cells, EntryCells
<1>2. c.kind = "comment" => c \in [kind : {"comment"}, v : {Comment, Spoiled}]
  BY DEF Cells, EntryCells
<1>3. \A x \in {Comment, Spoiled} : [kind |-> "comment", v |-> x] \in Cells
  BY DEF Cells
<1>4. ASSUME c.kind = "end", NEW x \in {0, 1}
      PROVE  /\ [c EXCEPT !.comment = x] \in [kind : {"end"}, total : Nat, ofs : Nat, comment : {0, 1}]
             /\ [c EXCEPT !.comment = x].kind = "end"
             /\ [c EXCEPT !.comment = x].total = c.total /\ [c EXCEPT !.comment = x].ofs = c.ofs
             /\ [c EXCEPT !.comment = x].comment = x
  BY <1>1, <1>4
<1>5. [kind : {"end"}, total : Nat, ofs : Nat, comment : {0, 1}] \subseteq Cells
  BY DEF Cells
<1> QED
  BY <1>1, <1>2, <1>3, <1>4, <1>5

\* Where the end record and the directory of a written buffer are.
LEMMA GoodIs ==
  ASSUME NEW b \in Seq(Cells), EndsOf(b) # {}, GoodDirectory(b)
  PROVE  /\ EndOf(b) \in 1..Len(b) /\ b[EndOf(b)] \in Cells /\ b[EndOf(b)].kind = "end"
         /\ b[EndOf(b)].total \in Nat /\ b[EndOf(b)].ofs \in Nat /\ b[EndOf(b)].comment \in {0, 1}
         /\ DirectoryOf(b) = SubSeq(b, b[EndOf(b)].ofs + 1, b[EndOf(b)].ofs + b[EndOf(b)].total)
         /\ b[EndOf(b)].ofs + b[EndOf(b)].total <= Len(b)
<1>1. b \in Seq(Cells) /\ EndsOf(b) # {} /\ b[EndOf(b)].ofs + b[EndOf(b)].total <= Len(b)
  BY DEF GoodDirectory
<1>2. PICK m \in Nat : m = Len(b)
  BY <1>1
<1>3. PICK e \in EndsOf(b) : \A j \in EndsOf(b) : j <= e
  <2>1. EndsOf(b) \subseteq 1..m
    BY <1>1, <1>2 DEF EndsOf
  <2> DEFINE U == {m - i : i \in EndsOf(b)}
  <2>2. U \subseteq Nat /\ U # {}
    BY <1>1, <1>2, <2>1
  <2>3. PICK u \in U : \A y \in U : u <= y
    <3>1. IsWellFoundedOn(OpToRel(<, Nat), Nat)
      BY NatLessThanWellFounded
    <3> HIDE DEF U
    <3>2. PICK u \in U : \A y \in U : ~ (<<y, u>> \in OpToRel(<, Nat))
      BY <2>2, <3>1, WFMin, Zenon
    <3>3. \A y \in U : ~ (y < u)
      BY <2>2, <3>2 DEF OpToRel
    <3> QED
      BY <2>2, <3>3
  <2>4. PICK e \in EndsOf(b) : u = m - e
    OBVIOUS
  <2>5. \A j \in EndsOf(b) : m - j \in U
    OBVIOUS
  <2>6. ASSUME NEW j \in EndsOf(b) PROVE j <= e
    <3>1. m - e <= m - j
      BY <2>3, <2>4, <2>5
    <3> QED
      BY <1>2, <2>1, <3>1
  <2> QED
    BY <2>6
<1>4. EndOf(b) = e
  <2>1. EndOf(b) \in EndsOf(b) /\ \A j \in EndsOf(b) : j <= EndOf(b)
    BY <1>3 DEF EndOf
  <2>2. EndsOf(b) \subseteq Nat
    BY <1>1 DEF EndsOf
  <2> QED
    BY <1>3, <2>1, <2>2
<1>5. e \in 1..m /\ b[e].kind = "end" /\ b[e] \in Cells
  <2>1. e \in 1..m /\ b[e].kind = "end"
    BY <1>1, <1>2 DEF EndsOf
  <2> QED
    BY <1>1, <1>2, <2>1, ElementOfSeq
<1>6. b[e].total \in Nat /\ b[e].ofs \in Nat /\ b[e].comment \in {0, 1}
  BY <1>5, EndCellIs
<1>7. PICK n \in Nat, o \in Nat : n = b[e].total /\ o = b[e].ofs
  BY <1>6
<1>8. DirectoryOf(b) = SubSeq(b, o + 1, o + n)
  BY <1>4, <1>7 DEF DirectoryOf
<1>9. o + n <= m
  BY <1>1, <1>2, <1>4, <1>7
<1> QED
  BY <1>1, <1>2, <1>4, <1>5, <1>6, <1>7, <1>8, <1>9

LEMMA WrittenIs ==
  ASSUME NEW b, NEW entries, Written(b, entries)
  PROVE  /\ b \in Seq(Cells) /\ EndOf(b) \in 1..Len(b) /\ b[EndOf(b)] \in Cells /\ b[EndOf(b)].kind = "end"
         /\ b[EndOf(b)].total \in Nat /\ b[EndOf(b)].ofs \in Nat /\ b[EndOf(b)].comment \in {0, 1}
         /\ DirectoryOf(b) = SubSeq(b, b[EndOf(b)].ofs + 1, b[EndOf(b)].ofs + b[EndOf(b)].total)
         /\ b[EndOf(b)].ofs + b[EndOf(b)].total <= Len(b)
         /\ b[EndOf(b)].total = 0 \/ b[EndOf(b)].ofs + b[EndOf(b)].total < EndOf(b)
         /\ \A i \in EndOf(b) + 1..Len(b) : b[i].kind = "comment"
         /\ b[EndOf(b)].comment = 1 => EndOf(b) < Len(b)
<1>1. /\ b \in Seq(Cells) /\ EndsOf(b) # {} /\ GoodDirectory(b)
      /\ \A i \in EndOf(b) + 1..Len(b) : b[i].kind = "comment"
      /\ b[EndOf(b)].comment = 1 => EndOf(b) < Len(b)
      /\ \A d \in Range(DirectoryOf(b)) : d.kind = "entry"
  BY DEF Written, Sealed, GoodDirectory
<1>2. PICK m \in Nat : m = Len(b)
  BY <1>1
<1>4. PICK e \in 1..m : e = EndOf(b) /\ b[e] \in Cells /\ b[e].kind = "end"
  BY <1>1, <1>2, GoodIs
<1>6. /\ b[e].total \in Nat /\ b[e].ofs \in Nat /\ b[e].comment \in {0, 1}
      /\ DirectoryOf(b) = SubSeq(b, b[e].ofs + 1, b[e].ofs + b[e].total)
      /\ b[e].ofs + b[e].total <= Len(b)
  BY <1>1, <1>4, GoodIs
<1>7. PICK n \in Nat, o \in Nat : n = b[e].total /\ o = b[e].ofs
  BY <1>6
<1>8. DirectoryOf(b) = SubSeq(b, o + 1, o + n)
  BY <1>6, <1>7
<1>9. o + n <= m
  BY <1>2, <1>6, <1>7
<1>10. n = 0 \/ o + n < e
  <2> SUFFICES ASSUME n # 0, ~(o + n < e) PROVE FALSE
    OBVIOUS
  <2>1. /\ Len(DirectoryOf(b)) = n /\ DirectoryOf(b) \in Seq(Cells)
        /\ \A i \in 1..n : DirectoryOf(b)[i] = b[o + i]
    BY <1>1, <1>2, <1>8, <1>9, SliceIs
  <2>2. n \in 1..n
    OBVIOUS
  <2>3. b[o + n] \in Range(DirectoryOf(b))
    BY <2>1, <2>2 DEF Range
  <2>4. b[o + n].kind = "entry"
    BY <1>1, <2>3
  <2>5. o + n = e \/ o + n \in e + 1..m
    BY <1>9
  <2> QED
    BY <1>1, <1>2, <1>4, <2>4, <2>5
<1> QED
  BY <1>1, <1>2, <1>4, <1>6, <1>7, <1>10

\* A buffer that differs only in what follows the entries and in the comment.
Alike(b, b2, e) == \A i \in 1..e - 1 : b2[i] = b[i]
CommentsFrom(b, e) == \A i \in e + 1..Len(b) : b[i].kind = "comment"

LEMMA Resealed ==
  ASSUME NEW b, NEW entries, Written(b, entries), NEW b2 \in Seq(Cells), NEW e, e = EndOf(b), e \in 1..Len(b2),
         Alike(b, b2, e), CommentsFrom(b2, e),
         b2[e].kind = "end", b2[e].ofs = b[e].ofs, b2[e].total = b[e].total,
         b2[e].comment = 1 => e < Len(b2)
  PROVE  /\ EndOf(b2) = e /\ EndsOf(b2) # {} /\ DirectoryOf(b2) = DirectoryOf(b)
         /\ GoodDirectory(b2) \/ Len(b) <= Len(b2) => Written(b2, entries)
<1>1. /\ b \in Seq(Cells) /\ e \in 1..Len(b) /\ b[e].kind = "end"
      /\ b[e].total \in Nat /\ b[e].ofs \in Nat
      /\ DirectoryOf(b) = SubSeq(b, b[e].ofs + 1, b[e].ofs + b[e].total)
      /\ b[e].ofs + b[e].total <= Len(b)
      /\ b[e].total = 0 \/ b[e].ofs + b[e].total < e
      /\ CommentsFrom(b, e)
  BY WrittenIs DEF CommentsFrom
<1>2. EndOf(b2) = e /\ EndsOf(b2) # {}
  <2>1. \A i \in e + 1..Len(b2) : b2[i].kind # "end"
    BY DEF CommentsFrom
  <2> QED
    BY <2>1, EndIs
<1>3. PICK n \in Nat, o \in Nat, m \in Nat, m2 \in Nat : n = b[e].total /\ o = b[e].ofs /\ m = Len(b) /\ m2 = Len(b2)
  <2>0. b \in Seq(Cells)
    BY <1>1
  <2>1. Len(b) \in Nat /\ Len(b2) \in Nat
    BY <2>0
  <2> QED
    BY <1>1, <2>1
<1>4. DirectoryOf(b2) = DirectoryOf(b)
  <2>1. DirectoryOf(b2) = SubSeq(b2, o + 1, o + n) /\ DirectoryOf(b) = SubSeq(b, o + 1, o + n)
    BY <1>1, <1>2, <1>3 DEF DirectoryOf
  <2>2. CASE n = 0
    BY <2>1, <2>2
  <2>3. CASE o + n < e
    <3>1. o + n <= Len(b) /\ o + n <= Len(b2)
      BY <1>1, <1>3, <2>3
    <3>2. /\ SubSeq(b, o + 1, o + n) \in Seq(Cells) /\ Len(SubSeq(b, o + 1, o + n)) = n
          /\ \A i \in 1..n : SubSeq(b, o + 1, o + n)[i] = b[o + i]
      <4>1. b \in Seq(Cells)
        BY <1>1
      <4> QED
        BY <3>1, <4>1, SliceIs
    <3>3. /\ SubSeq(b2, o + 1, o + n) \in Seq(Cells) /\ Len(SubSeq(b2, o + 1, o + n)) = n
          /\ \A i \in 1..n : SubSeq(b2, o + 1, o + n)[i] = b2[o + i]
      BY <3>1, SliceIs
    <3>4. \A i \in 1..n : b2[o + i] = b[o + i]
      <4> SUFFICES ASSUME NEW i \in 1..n PROVE o + i \in 1..e - 1
        BY DEF Alike
      <4>1. e \in Nat
        BY <1>1
      <4> QED
        BY <2>3, <4>1
    <3>5. PICK s1 \in Seq(Cells), s2 \in Seq(Cells) : s1 = SubSeq(b, o + 1, o + n) /\ s2 = SubSeq(b2, o + 1, o + n)
      BY <3>2, <3>3
    <3>6. Len(s1) = n /\ Len(s2) = n /\ \A i \in 1..n : s1[i] = s2[i]
      BY <3>2, <3>3, <3>4, <3>5
    <3>7. s1 = s2
      BY <3>6, SeqEqual
    <3> QED
      BY <2>1, <3>5, <3>7
  <2> QED
    BY <1>1, <1>3, <2>2, <2>3
<1>5. PICK dir \in Seq(EntryCells) : dir = DirectoryOf(b) /\ Keeps(b, Len(b), dir, entries)
  BY DEF Written, Keeps
<1>6. ASSUME NEW d \in EntryCells, d.ofs + 1 + Len(d.sum) <= Len(b), Extractable(b, d) PROVE Extractable(b2, d)
  <2>1. PICK do \in Nat, l \in Nat : do = d.ofs /\ l = Len(d.sum)
    BY EntryCellIs
  <2>2. CASE d.sum = <<>>
    BY <2>2 DEF Extractable
  <2>3. CASE d.sum # <<>>
    <3>1. b[do + 1].kind = "local" /\ \A i \in 1..l : b[do + 1 + i].kind = "byte"
      BY <1>6, <2>1, <2>3 DEF Extractable
    <3>2. ASSUME NEW i \in 1..m, b[i].kind \in {"local", "byte"} PROVE i \in 1..e - 1
      <4>1. i = e \/ i \in e + 1..m \/ i \in 1..e - 1
        BY <1>1, <1>3
      <4> QED
        BY <1>1, <1>3, <3>2, <4>1 DEF CommentsFrom
    <3>3. do + 1 + l <= m
      BY <1>3, <1>6, <2>1
    <3>4. ASSUME NEW i \in 1..l + 1 PROVE b2[do + i] = b[do + i]
      <4>1. do + i \in 1..m
        BY <3>3
      <4>2. b[do + i].kind \in {"local", "byte"}
        <5>1. CASE i = 1
          BY <3>1, <5>1
        <5>2. CASE i # 1
          <6>1. i - 1 \in 1..l /\ do + 1 + (i - 1) = do + i
            BY <5>2
          <6> QED
            BY <3>1, <6>1
        <5> QED
          BY <5>1, <5>2
      <4> QED
        BY <3>2, <4>1, <4>2 DEF Alike
    <3>5. \A i \in 1..Len(d.sum) + 1 : b2[d.ofs + i] = b[d.ofs + i]
      BY <2>1, <3>4
    <3> QED
      BY <1>6, <3>5, SameData
  <2> QED
    BY <2>2, <2>3
<1>7. ASSUME NEW i \in 1..Len(dir)
      PROVE  /\ dir[i] \in EntryCells /\ dir[i] \in Range(dir) /\ Extractable(b2, dir[i])
             /\ dir[i].ofs + 1 + Len(dir[i].sum) <= Len(b) /\ dir[i].kind = "entry"
  <2>1. dir[i] \in EntryCells
    BY ElementOfSeq
  <2>2. dir[i] \in Range(dir)
    BY DEF Range
  <2>3. dir[i].ofs + 1 + Len(dir[i].sum) <= Len(b) /\ Extractable(b, dir[i])
    BY <1>5 DEF Keeps
  <2>4. dir[i].kind = "entry"
    BY <2>1, EntryCellIs
  <2> QED
    BY <1>6, <2>1, <2>2, <2>3, <2>4
<1>8. Len(b) <= Len(b2) => GoodDirectory(b2)
  <2> SUFFICES ASSUME m <= m2 PROVE GoodDirectory(b2)
    BY <1>3
  <2>1. o + n <= m2
    BY <1>1, <1>3
  <2>2. ASSUME NEW d \in Range(dir) PROVE d.kind = "entry" /\ d.ofs + 1 + Len(d.sum) <= m2
    <3>1. PICK i \in 1..Len(dir) : d = dir[i]
      BY <2>2 DEF Range
    <3>2. d \in EntryCells /\ d.kind = "entry" /\ d.ofs + 1 + Len(d.sum) <= m
      BY <1>3, <1>7, <3>1
    <3>3. d.ofs \in Nat /\ Len(d.sum) \in Nat
      BY <3>2, EntryCellIs
    <3> QED
      BY <3>2, <3>3
  <2> QED
    BY <1>2, <1>3, <1>4, <1>5, <2>1, <2>2 DEF GoodDirectory
<1>9. ASSUME GoodDirectory(b2) PROVE Written(b2, entries)
  <2>1. \A d \in Range(dir) : d.ofs + 1 + Len(d.sum) <= Len(b2)
    BY <1>4, <1>5, <1>9 DEF GoodDirectory
  <2>2. Keeps(b2, Len(b2), dir, entries)
    BY <1>5, <1>7, <2>1 DEF Keeps
  <2>3. Sealed(b2)
    BY <1>2 DEF Sealed, CommentsFrom
  <2> QED
    BY <1>4, <1>5, <1>9, <2>2, <2>3 DEF Written
<1> QED
  BY <1>2, <1>4, <1>8, <1>9

-----------------------------------------------------------------------------
Commented(z, buf, moves) == [z EXCEPT !.buffer = buf, !.moved = @ \/ moves]
Rebuffered(z, buf) == [z EXCEPT !.buffer = buf]
Uncommented(z, v, buf) == [z EXCEPT !.comment = v, !.buffer = buf]

LEMMA CommentedIs ==
  ASSUME NEW z \in Zips, NEW buf \in Seq(Cells), NEW moves \in BOOLEAN, NEW v \in {Comment, Spoiled}
  PROVE  /\ Commented(z, buf, moves) \in Zips /\ Commented(z, buf, moves).mode = z.mode
         /\ Commented(z, buf, moves).dir = z.dir /\ Commented(z, buf, moves).comment = z.comment
         /\ Commented(z, buf, moves).buffer = buf
         /\ Rebuffered(z, buf) \in Zips /\ Rebuffered(z, buf).mode = z.mode
         /\ Rebuffered(z, buf).comment = z.comment /\ Rebuffered(z, buf).buffer = buf
         /\ Uncommented(z, v, buf) \in Zips /\ Uncommented(z, v, buf).mode = z.mode
         /\ Uncommented(z, v, buf).comment = v /\ Uncommented(z, v, buf).buffer = buf
<1>1. /\ Commented(z, buf, moves) \in Zips /\ Commented(z, buf, moves).mode = z.mode
      /\ Commented(z, buf, moves).dir = z.dir /\ Commented(z, buf, moves).comment = z.comment
      /\ Commented(z, buf, moves).buffer = buf
  BY DEF Commented, Zips
<1>2. /\ Rebuffered(z, buf) \in Zips /\ Rebuffered(z, buf).mode = z.mode
      /\ Rebuffered(z, buf).comment = z.comment /\ Rebuffered(z, buf).buffer = buf
  BY DEF Rebuffered, Zips
<1>3. /\ Uncommented(z, v, buf) \in Zips /\ Uncommented(z, v, buf).mode = z.mode
      /\ Uncommented(z, v, buf).comment = v /\ Uncommented(z, v, buf).buffer = buf
  BY DEF Uncommented, Zips
<1> QED
  BY <1>1, <1>2, <1>3

\* The comment is put behind what is there, and found there again.
LEMMA WithCommentIs ==
  ASSUME NEW z, NEW entries, Reading(z, entries), NEW moves \in BOOLEAN
  PROVE  /\ Reading(WithComment(z, moves), entries)
         /\ Last(z.buffer).kind = "end" =>
              WithoutComment(EmptyZip, WithComment(z, moves).buffer).comment = WithComment(z, moves).comment
<1>1. PICK b \in Seq(Cells) : b = z.buffer /\ Written(b, entries)
  BY DEF Reading, Written
<1>0. PICK m \in Nat : m = Len(b)
  <2>1. Len(b) \in Nat
    OBVIOUS
  <2> QED
    BY <2>1
<1>2. PICK e \in 1..m : m = Len(b) /\ e = EndOf(b)
  BY <1>0, <1>1, WrittenIs
<1>3. /\ b[e] \in Cells /\ b[e].kind = "end" /\ b[e].comment \in {0, 1}
      /\ b[e].comment = 1 => e < m
  BY <1>1, <1>2, WrittenIs
<1>4. CommentsFrom(b, e)
  BY <1>1, <1>2, WrittenIs DEF CommentsFrom
<1>5. b[m] \in Cells
  BY <1>2, ElementOfSeq
<1>6. Last(b) = b[m] /\ (b[m].kind = "end" <=> e = m)
  <2>1. e = m \/ m \in e + 1..m
    OBVIOUS
  <2> QED
    BY <1>2, <1>3, <1>4, <2>1 DEF Last, CommentsFrom
<1>7. z \in Zips /\ z.mode = "reading" /\ z.dir = DirectoryOf(b) /\ z.comment \in {NoComment, Comment, Spoiled}
  BY <1>1 DEF Reading, Zips
<1>8. CASE z.comment = NoComment
  <2>1. WithComment(z, moves) = z
    BY <1>8 DEF WithComment
  <2>2. ASSUME e = m PROVE WithoutComment(EmptyZip, b).comment = NoComment
    <3>1. b[EndOf(b)].comment = 0
      BY <1>2, <1>3, <2>2
    <3>2. WithoutComment(EmptyZip, b).comment = EmptyZip.comment
      BY <3>1 DEF WithoutComment, EmptyZip
    <3> QED
      BY <3>2 DEF EmptyZip
  <2> QED
    BY <1>1, <1>6, <1>8, <2>1, <2>2
<1>9. CASE z.comment # NoComment
  <2>1. PICK cc \in Cells : cc = [kind |-> "comment", v |-> z.comment] /\ cc.kind = "comment" /\ cc.v = z.comment
    <3>1. z.comment \in {Comment, Spoiled}
      BY <1>7, <1>9
    <3>2. [kind |-> "comment", v |-> z.comment] \in Cells
      BY <1>3, <3>1, EndCellIs
    <3> QED
      BY <3>2
  <2>2. PICK x \in Cells : /\ x = (IF b[m].kind = "end" THEN [b[m] EXCEPT !.comment = 1]
                                   ELSE [kind |-> "comment", v |-> Spoiled])
                           /\ b[m].kind = "end" => /\ x.kind = "end" /\ x.total = b[m].total
                                                   /\ x.ofs = b[m].ofs /\ x.comment = 1
                           /\ b[m].kind # "end" => x.kind = "comment"
    <3>1. CASE b[m].kind = "end"
      <4>1. 1 \in {0, 1}
        OBVIOUS
      <4>2. /\ [b[m] EXCEPT !.comment = 1] \in Cells /\ [b[m] EXCEPT !.comment = 1].kind = "end"
            /\ [b[m] EXCEPT !.comment = 1].total = b[m].total /\ [b[m] EXCEPT !.comment = 1].ofs = b[m].ofs
            /\ [b[m] EXCEPT !.comment = 1].comment = 1
        BY <1>5, <3>1, <4>1, EndCellIs
      <4> QED
        BY <3>1, <4>2
    <3>2. CASE b[m].kind # "end"
      <4>1. [kind |-> "comment", v |-> Spoiled] \in Cells
        BY <1>3, EndCellIs
      <4> QED
        BY <3>2, <4>1
    <3> QED
      BY <3>1, <3>2
  <2>3. PICK s : s = [b EXCEPT ![m] = x]
    OBVIOUS
  <2>4. SetLength(b) = s
    BY <1>2, <2>2, <2>3 DEF SetLength
  <2>5. s \in Seq(Cells) /\ Len(s) = m /\ s[m] = x /\ \A i \in 1..m : i # m => s[i] = b[i]
    <3>1. m \in 1..Len(b)
      BY <1>2
    <3> QED
      BY <1>2, <2>3, <3>1, PutIs
  <2>6. PICK b2 : b2 = Append(s, cc)
    OBVIOUS
  <2>7. b2 \in Seq(Cells) /\ Len(b2) = m + 1 /\ b2[m + 1] = cc /\ \A i \in 1..m : b2[i] = s[i]
    BY <2>5, <2>6, MoreIs
  <2>8. WithComment(z, moves) = Commented(z, b2, moves)
    BY <1>1, <1>9, <2>1, <2>4, <2>6 DEF WithComment, Commented
  <2>9. Alike(b, b2, e)
    <3> SUFFICES ASSUME NEW i \in 1..e - 1 PROVE b2[i] = b[i]
      BY DEF Alike
    <3>1. i \in 1..m /\ i # m
      OBVIOUS
    <3> QED
      BY <2>5, <2>7, <3>1
  <2>10. CommentsFrom(b2, e)
    <3> SUFFICES ASSUME NEW i \in e + 1..m + 1 PROVE b2[i].kind = "comment"
      BY <2>7 DEF CommentsFrom
    <3>1. CASE i = m + 1
      BY <2>1, <2>7, <3>1
    <3>2. CASE i = m
      <4>1. b[m].kind # "end" /\ m \in 1..m
        BY <1>6, <3>2
      <4> QED
        BY <2>2, <2>5, <2>7, <3>2, <4>1
    <3>3. CASE i # m + 1 /\ i # m
      <4>1. i \in e + 1..m /\ i \in 1..m
        BY <3>3
      <4> QED
        BY <1>2, <1>4, <2>5, <2>7, <3>3, <4>1 DEF CommentsFrom
    <3> QED
      BY <3>1, <3>2, <3>3
  <2>11. b2[e].kind = "end" /\ b2[e].ofs = b[e].ofs /\ b2[e].total = b[e].total /\ (e = m => b2[e].comment = 1)
    <3>1. CASE e = m
      BY <1>6, <2>2, <2>5, <2>7, <3>1
    <3>2. CASE e # m
      <4>1. b2[e] = b[e]
        BY <2>5, <2>7, <3>2
      <4> QED
        BY <1>3, <3>2, <4>1
    <3> QED
      BY <3>1, <3>2
  <2>12. e \in 1..Len(b2) /\ e < Len(b2) /\ Len(b) <= Len(b2)
    BY <1>2, <2>7
  <2>13. EndOf(b2) = e /\ DirectoryOf(b2) = DirectoryOf(b) /\ Written(b2, entries)
    BY <1>1, <1>2, <2>7, <2>9, <2>10, <2>11, <2>12, Resealed
  <2>14. /\ Commented(z, b2, moves) \in Zips /\ Commented(z, b2, moves).mode = "reading"
         /\ Commented(z, b2, moves).dir = z.dir /\ Commented(z, b2, moves).comment = z.comment
         /\ Commented(z, b2, moves).buffer = b2
    BY <1>7, <2>7, CommentedIs
  <2>15. Reading(WithComment(z, moves), entries)
    BY <1>7, <2>8, <2>13, <2>14 DEF Reading
  <2>16. ASSUME e = m PROVE WithoutComment(EmptyZip, b2).comment = z.comment
    <3>1. b2[EndOf(b2)].comment = 1 /\ b2[EndOf(b2) + 1].v = z.comment
      BY <2>1, <2>7, <2>11, <2>13, <2>16
    <3> QED
      BY <3>1 DEF WithoutComment, EmptyZip
  <2> QED
    BY <1>1, <1>6, <2>8, <2>14, <2>15, <2>16
<1> QED
  BY <1>8, <1>9

\* A file is loaded without its comment: if what is left can be opened it has the
\* same entries.
LEMMA WithoutCommentIs ==
  ASSUME NEW b, NEW entries, Written(b, entries), NEW c, c = WithoutComment(EmptyZip, b)
  PROVE  /\ c \in Zips /\ c.mode = "invalid"
         /\ StartRead(c).mode = "reading" => Reading(StartRead(c), entries)
<1>1. b \in Seq(Cells)
  BY WrittenIs
<1>0. PICK m \in Nat : m = Len(b)
  <2>1. Len(b) \in Nat
    BY <1>1
  <2> QED
    BY <2>1
<1>2. PICK e \in 1..m : m = Len(b) /\ e = EndOf(b)
  BY <1>0, WrittenIs
<1>3. /\ b[e] \in Cells /\ b[e].kind = "end" /\ b[e].comment \in {0, 1}
      /\ b[e].comment = 1 => e < m
  BY <1>2, WrittenIs
<1>4. CommentsFrom(b, e)
  BY <1>2, WrittenIs DEF CommentsFrom
<1>5. EmptyZip \in Zips /\ EmptyZip.mode = "invalid"
  BY EmptyIs DEF Unused
<1>6. ASSUME NEW b2 \in Seq(Cells), c \in Zips, c.mode = "invalid", c.buffer = b2,
             GoodDirectory(b2) => Written(b2, entries)
      PROVE  StartRead(c).mode = "reading" => Reading(StartRead(c), entries)
  <2>1. CASE ~GoodDirectory(b2)
    BY <1>6, <2>1 DEF StartRead
  <2>2. CASE GoodDirectory(b2)
    <3>1. PICK dir \in Seq(EntryCells) : dir = DirectoryOf(b2)
      BY <1>6, <2>2 DEF Written, Keeps
    <3>2. StartRead(c) = Opened(c, dir)
      BY <1>6, <2>2, <3>1 DEF StartRead, Opened
    <3>3. c \in Zips
      BY <1>6
    <3>4. /\ Opened(c, dir) \in Zips /\ Opened(c, dir).mode = "reading"
          /\ Opened(c, dir).dir = dir /\ Opened(c, dir).buffer = c.buffer
      BY <3>3, OpenedIs
    <3> QED
      BY <1>6, <2>2, <3>1, <3>2, <3>4 DEF Reading
  <2> QED
    BY <2>1, <2>2
<1>7. CASE b[e].comment = 0
  <2>1. c = Rebuffered(EmptyZip, b)
    BY <1>2, <1>7 DEF WithoutComment, Rebuffered
  <2>2. /\ Rebuffered(EmptyZip, b) \in Zips /\ Rebuffered(EmptyZip, b).mode = "invalid"
        /\ Rebuffered(EmptyZip, b).buffer = b
    BY <1>1, <1>5, CommentedIs
  <2> QED
    BY <1>1, <1>6, <2>1, <2>2
<1>8. CASE b[e].comment = 1
  <2>1. e < m
    BY <1>3, <1>8
  <2>2. PICK n \in Nat : n = m - 1 /\ e <= n /\ n < m /\ 1 <= n
    BY <2>1
  <2>3. PICK v \in {Comment, Spoiled} : v = b[e + 1].v
    <3>1. e + 1 \in 1..m /\ e + 1 \in e + 1..m
      BY <2>1
    <3>2. b[e + 1].kind = "comment"
      BY <1>2, <1>4, <3>1 DEF CommentsFrom
    <3>3. b[e + 1] \in Cells
      BY <1>1, <1>2, <3>1, ElementOfSeq
    <3> QED
      BY <3>2, <3>3, EndCellIs
  <2>4. PICK t : t = SubSeq(b, 1, n)
    OBVIOUS
  <2>5. t \in Seq(Cells) /\ Len(t) = n /\ \A i \in 1..n : t[i] = b[i]
    <3>1. 0 + n <= Len(b) /\ 0 + 1 = 1 /\ 0 + n = n /\ \A i \in 1..n : 0 + i = i
      BY <1>2, <2>2
    <3>2. /\ SubSeq(b, 0 + 1, 0 + n) \in Seq(Cells) /\ Len(SubSeq(b, 0 + 1, 0 + n)) = n
          /\ \A i \in 1..n : SubSeq(b, 0 + 1, 0 + n)[i] = b[0 + i]
      BY <1>1, <3>1, SliceIs
    <3> QED
      BY <2>4, <3>1, <3>2
  <2>6. t[n] \in Cells /\ n \in 1..n
    BY <2>2, <2>5, ElementOfSeq
  <2>7. PICK x \in Cells : /\ x = (IF t[n].kind = "end" THEN [t[n] EXCEPT !.comment = 0]
                                   ELSE [kind |-> "comment", v |-> Spoiled])
                           /\ t[n].kind = "end" => /\ x.kind = "end" /\ x.total = t[n].total
                                                   /\ x.ofs = t[n].ofs /\ x.comment = 0
                           /\ t[n].kind # "end" => x.kind = "comment"
    <3>1. CASE t[n].kind = "end"
      <4>1. 0 \in {0, 1}
        OBVIOUS
      <4>2. /\ [t[n] EXCEPT !.comment = 0] \in Cells /\ [t[n] EXCEPT !.comment = 0].kind = "end"
            /\ [t[n] EXCEPT !.comment = 0].total = t[n].total /\ [t[n] EXCEPT !.comment = 0].ofs = t[n].ofs
            /\ [t[n] EXCEPT !.comment = 0].comment = 0
        BY <2>6, <3>1, <4>1, EndCellIs
      <4> QED
        BY <3>1, <4>2
    <3>2. CASE t[n].kind # "end"
      <4>1. [kind |-> "comment", v |-> Spoiled] \in Cells
        BY <1>3, EndCellIs
      <4> QED
        BY <3>2, <4>1
    <3> QED
      BY <3>1, <3>2
  <2>8. PICK b2 : b2 = [t EXCEPT ![n] = x]
    OBVIOUS
  <2>9. b2 \in Seq(Cells) /\ Len(b2) = n /\ b2[n] = x /\ \A i \in 1..n : i # n => b2[i] = t[i]
    <3>1. n \in 1..Len(t)
      BY <2>5, <2>6
    <3> QED
      BY <2>5, <2>8, <3>1, PutIs
  <2>10. c = Uncommented(EmptyZip, v, b2)
    <3>1. Len(SubSeq(b, 1, Len(b) - 1)) = n /\ SubSeq(b, 1, Len(b) - 1) = t
      BY <1>2, <2>2, <2>4, <2>5
    <3>2. b[EndOf(b)].comment # 0 /\ v = b[EndOf(b) + 1].v
      BY <1>2, <1>8, <2>3
    <3> QED
      BY <2>7, <2>8, <3>1, <3>2 DEF WithoutComment, Uncommented
  <2>11. /\ Uncommented(EmptyZip, v, b2) \in Zips /\ Uncommented(EmptyZip, v, b2).mode = "invalid"
         /\ Uncommented(EmptyZip, v, b2).buffer = b2
    BY <1>5, <2>9, CommentedIs
  <2>12. Alike(b, b2, e)
    <3> SUFFICES ASSUME NEW i \in 1..e - 1 PROVE b2[i] = b[i]
      BY DEF Alike
    <3>1. i \in 1..n /\ i # n
      BY <2>2
    <3> QED
      BY <2>5, <2>9, <3>1
  <2>13. CommentsFrom(b2, e)
    <3> SUFFICES ASSUME NEW i \in e + 1..n PROVE b2[i].kind = "comment"
      BY <2>9 DEF CommentsFrom
    <3>1. i \in 1..n /\ i \in e + 1..m
      BY <2>2
    <3>2. t[i].kind = "comment"
      BY <1>2, <1>4, <2>5, <3>1 DEF CommentsFrom
    <3> QED
      BY <2>7, <2>9, <3>1, <3>2
  <2>14. b2[e].kind = "end" /\ b2[e].ofs = b[e].ofs /\ b2[e].total = b[e].total /\ (b2[e].comment = 1 => e < n)
    <3>0. e \in 1..n /\ t[e] = b[e]
      BY <2>2, <2>5
    <3>1. CASE e = n
      <4>1. t[n] = b[e] /\ b2[e] = x
        BY <2>9, <3>0, <3>1
      <4>2. x.kind = "end" /\ x.total = b[e].total /\ x.ofs = b[e].ofs /\ x.comment = 0
        BY <1>3, <2>7, <4>1
      <4> QED
        BY <4>1, <4>2
    <3>2. CASE e # n
      <4>1. b2[e] = b[e] /\ e < n
        BY <2>2, <2>9, <3>0, <3>2
      <4> QED
        BY <1>3, <4>1
    <3> QED
      BY <3>1, <3>2
  <2>15. e \in 1..Len(b2) /\ (b2[e].comment = 1 => e < Len(b2))
    BY <2>2, <2>9, <2>14
  <2>16. GoodDirectory(b2) => Written(b2, entries)
    BY <1>2, <2>9, <2>12, <2>13, <2>14, <2>15, Resealed
  <2> QED
    BY <1>6, <2>9, <2>10, <2>11, <2>16
<1> QED
  BY <1>3, <1>7, <1>8

-----------------------------------------------------------------------------
\* The data of an entry that is kept is what the record says.
LEMMA DataIs ==
  ASSUME NEW b, NEW d \in EntryCells, Extractable(b, d)
  PROVE  DataOf(b, d) = d.sum
<1>1. CASE d.sum = <<>>
  <2>1. 1..Len(d.sum) = {}
    BY <1>1
  <2>2. DataOf(b, d) = [i \in {} |-> b[d.ofs + 1 + i].v]
    BY <2>1 DEF DataOf
  <2>3. <<>> = [i \in {} |-> b[d.ofs + 1 + i].v]
    OBVIOUS
  <2> QED
    BY <1>1, <2>2, <2>3
<1>2. CASE d.sum # <<>>
  BY <1>2 DEF Extractable
<1> QED
  BY <1>1, <1>2

LEMMA KeptIs ==
  ASSUME NEW b, NEW n, NEW dir, NEW entries, Keeps(b, n, dir, entries), NEW i \in 1..Len(dir)
  PROVE  /\ dir[i].name = entries[i][1] /\ Extractable(b, dir[i]) /\ DataOf(b, dir[i]) = entries[i][2]
         /\ entries[i][2] \in Seq(Nat) /\ i \in DOMAIN entries
<1>1. /\ dir \in Seq(EntryCells) /\ entries \in EntriesWritten /\ Len(dir) = Len(entries)
      /\ dir[i].name = entries[i][1] /\ dir[i].sum = entries[i][2] /\ Extractable(b, dir[i])
  BY DEF Keeps
<1>2. dir[i] \in EntryCells
  BY <1>1, ElementOfSeq
<1>3. DataOf(b, dir[i]) = dir[i].sum /\ dir[i].sum \in Seq(Nat)
  BY <1>1, <1>2, DataIs, EntryCellIs
<1>4. i \in DOMAIN entries
  BY <1>1 DEF EntriesWritten
<1> QED
  BY <1>1, <1>3, <1>4

\* A buffer that is written holds its entries, and one that holds entries and has
\* the cells of a writer is written.
LEMMA HoldsIs ==
  ASSUME NEW b, NEW entries, Written(b, entries)
  PROVE  Holds(b, entries)
<1>1. /\ EndsOf(b) # {} /\ GoodDirectory(b)
      /\ Keeps(b, Len(b), DirectoryOf(b), entries)
  BY DEF Written, Sealed
<1>2. PICK dir \in Seq(EntryCells) : dir = DirectoryOf(b) /\ Len(dir) = Len(entries)
  BY <1>1 DEF Keeps
<1>3. ASSUME NEW i \in DOMAIN dir
      PROVE  dir[i].name = entries[i][1] /\ Extractable(b, dir[i]) /\ DataOf(b, dir[i]) = entries[i][2]
  <2>1. i \in 1..Len(dir)
    BY <1>2
  <2> QED
    BY <1>1, <1>2, <2>1, KeptIs
<1> QED
  BY <1>1, <1>2, <1>3 DEF Holds

LEMMA HeldIs ==
  ASSUME NEW b \in Seq(Cells), NEW entries \in EntriesWritten, Sealed(b), Holds(b, entries)
  PROVE  Written(b, entries)
<1>1. EndsOf(b) # {} /\ GoodDirectory(b)
  BY DEF Holds
<1>2. Len(b) \in Nat
  OBVIOUS
<1>5. b[EndOf(b)].total \in Nat /\ b[EndOf(b)].ofs \in Nat
  BY <1>1, GoodIs
<1>6. PICK n \in Nat, o \in Nat : n = b[EndOf(b)].total /\ o = b[EndOf(b)].ofs
  BY <1>5
<1>7. o + n <= Len(b) /\ DirectoryOf(b) = SubSeq(b, o + 1, o + n)
  BY <1>1, <1>6 DEF GoodDirectory, DirectoryOf
<1>8. PICK dir \in Seq(Cells) : dir = DirectoryOf(b) /\ Len(dir) = n
  <2>1. SubSeq(b, o + 1, o + n) \in Seq(Cells) /\ Len(SubSeq(b, o + 1, o + n)) = n
    BY <1>7, SliceIs
  <2> QED
    BY <1>7, <2>1
<1>9. ASSUME NEW i \in 1..Len(dir)
      PROVE  dir[i] \in EntryCells /\ dir[i].ofs + 1 + Len(dir[i].sum) <= Len(b)
  <2>1. dir[i] \in Cells
    BY ElementOfSeq
  <2>2. dir[i] \in Range(dir)
    BY DEF Range
  <2>3. dir[i].kind = "entry" /\ dir[i].ofs + 1 + Len(dir[i].sum) <= Len(b)
    BY <1>1, <1>8, <2>2 DEF GoodDirectory
  <2> QED
    BY <2>1, <2>3 DEF Cells
<1>10. dir \in Seq(EntryCells)
  <2>1. \A i \in 1..Len(dir) : dir[i] \in EntryCells
    BY <1>9
  <2>2. dir = [i \in 1..Len(dir) |-> dir[i]] /\ Len(dir) \in Nat
    OBVIOUS
  <2> QED
    BY <2>1, <2>2, IsASeq
<1>11. Len(dir) = Len(entries)
  BY <1>8 DEF Holds
<1>12. ASSUME NEW i \in 1..Len(dir)
       PROVE  dir[i].name = entries[i][1] /\ dir[i].sum = entries[i][2] /\ Extractable(b, dir[i])
  <2>1. i \in DOMAIN dir
    OBVIOUS
  <2>2. dir[i].name = entries[i][1] /\ Extractable(b, dir[i]) /\ DataOf(b, dir[i]) = entries[i][2]
    BY <1>8, <2>1 DEF Holds
  <2> QED
    BY <1>9, <2>2, DataIs
<1>13. Keeps(b, Len(b), dir, entries)
  BY <1>9, <1>10, <1>11, <1>12 DEF Keeps
<1> QED
  BY <1>1, <1>8, <1>13 DEF Written

-----------------------------------------------------------------------------
\* An archive that is open, in whatever mode, with these entries.
InMode(z, entries) == Writing(z, entries) \/ Reading(z, entries) \/ Unused(z, entries)

\* Of an archive that is not damaged, while no call has failed: it is in one of
\* its modes with all that was written to it, what was saved is open for reading
\* with its comment, and so it stays until the last member is extracted; nothing
\* is left in the stream, and the files have the data of entries.
Clean ==
  /\ InMode(zip, written)
  /\ unread = <<>>
  /\ saved # "no" \/ todo # <<>> => zip.mode = "reading"
  /\ saved = "once" => WithoutComment(EmptyZip, zip.buffer).comment = zip.comment
  /\ DOMAIN files = Members
  /\ OwnContent

Trusted == ~refused => Clean

LEMMA ModeIs ==
  ASSUME NEW z, NEW entries, InMode(z, entries)
  PROVE  z \in Zips /\ entries \in EntriesWritten /\ (z.mode = "reading" => Reading(z, entries))
<1>1. CASE Writing(z, entries)
  BY <1>1 DEF Writing, Keeps
<1>2. CASE Reading(z, entries)
  BY <1>2 DEF Reading, Written, Keeps
<1>3. CASE Unused(z, entries)
  BY <1>3 DEF Unused, EntriesWritten
<1> QED
  BY <1>1, <1>2, <1>3 DEF InMode

\* No file has been written.
LEMMA NoneIs ==
  ASSUME files' = NoFiles
  PROVE  DOMAIN files' = Members /\ OwnContent'
BY DEF NoFiles, OwnContent

LEMMA InitTrusted == ZipInit => Trusted
<1> SUFFICES ASSUME ZipInit PROVE Clean
  BY DEF Trusted
<1>1. zip = EmptyZip /\ unread = <<>> /\ todo = <<>> /\ files = NoFiles /\ written = <<>> /\ saved = "no"
  BY DEF ZipInit
<1>2. InMode(zip, written)
  BY <1>1, EmptyIs DEF InMode
<1>3. DOMAIN files = Members /\ OwnContent
  BY <1>1 DEF NoFiles, OwnContent
<1> QED
  BY <1>1, <1>2, <1>3 DEF Clean

LEMMA ResetTrusted == ASSUME Trusted, Reset PROVE Trusted'
<1> SUFFICES ASSUME ~refused' PROVE Clean'
  BY DEF Trusted
<1>1. /\ zip' = EmptyZip /\ unread' = <<>> /\ todo' = <<>> /\ files' = NoFiles /\ written' = <<>>
      /\ saved' = "no"
  BY DEF Reset, Ready
<1>2. InMode(zip', written')
  BY <1>1, EmptyIs DEF InMode
<1> QED
  BY <1>1, <1>2, NoneIs DEF Clean

LEMMA LoadTrusted == ASSUME Trusted, Load PROVE Trusted'
<1> SUFFICES ASSUME ~refused' PROVE Clean'
  BY DEF Trusted
<1>1. PICK f \in Downloads \cup (IF saved # "no" /\ ~refused
                                  THEN {[bytes |-> zip.buffer, holds |-> written, sound |-> TRUE]} ELSE {}) :
        IF EndsOf(f.bytes) # {} THEN LoadBytes(f.bytes, f.holds, f.sound) ELSE LoadNothing(f.bytes)
  BY DEF Load
<1>2. todo = <<>>
  BY DEF Load, Ready
<1>3. LoadBytes(f.bytes, f.holds, f.sound)
  <2>1. LoadNothing(f.bytes) => refused'
    BY DEF LoadNothing
  <2> QED
    BY <1>1, <2>1
<1>4. PICK c : c = WithoutComment(EmptyZip, f.bytes)
  OBVIOUS
<1>5. /\ zip' = StartRead(c) /\ written' = f.holds /\ files' = NoFiles /\ saved' = "no"
      /\ unread' = <<>> /\ todo' = <<>> /\ StartRead(c).mode = "reading" /\ f.sound
  BY <1>2, <1>3, <1>4 DEF LoadBytes
<1>6. Written(f.bytes, f.holds)
  <2>1. CASE f \in Downloads
    <3>1. /\ f.bytes \in Seq(Cells) /\ Sealed(f.bytes) /\ f.holds \in EntriesWritten
          /\ Holds(f.bytes, f.holds)
      BY <1>5, <2>1, ZipAssumption DEF EntriesWritten
    <3> QED
      BY <3>1, HeldIs
  <2>2. CASE f \notin Downloads
    <3>1. saved # "no" /\ ~refused /\ f.bytes = zip.buffer /\ f.holds = written
      BY <1>1, <2>2
    <3>2. Reading(zip, written)
      BY <3>1, ModeIs DEF Trusted, Clean
    <3> QED
      BY <3>1, <3>2 DEF Reading
  <2> QED
    BY <2>1, <2>2
<1>7. InMode(zip', written')
  BY <1>4, <1>5, <1>6, WithoutCommentIs DEF InMode
<1> QED
  BY <1>5, <1>7, NoneIs DEF Clean

LEMMA SetCommentTrusted == ASSUME Trusted, SetComment PROVE Trusted'
<1> SUFFICES ASSUME ~refused' PROVE Clean'
  BY DEF Trusted
<1>1. /\ zip' = [zip EXCEPT !.comment = Comment] /\ saved' = "no" /\ todo' = <<>> /\ ~refused
      /\ unread' = unread /\ files' = files /\ written' = written
  BY DEF SetComment, Ready, extractVars
<1>2. Clean
  BY <1>1 DEF Trusted
<1>3. zip \in Zips
  BY <1>2, ModeIs DEF Clean
<1>4. /\ zip' \in Zips /\ zip'.buffer = zip.buffer /\ zip'.mode = zip.mode /\ zip'.dir = zip.dir
      /\ zip'.size = zip.size
  BY <1>1, <1>3 DEF Zips
<1>5. InMode(zip, written) => InMode(zip', written')
  BY <1>1, <1>4 DEF InMode, Writing, Reading, Unused
<1> QED
  BY <1>1, <1>2, <1>5 DEF Clean, OwnContent

LEMMA SaveTrusted == ASSUME Trusted, Save PROVE Trusted'
<1> SUFFICES ASSUME ~refused' PROVE Clean'
  BY DEF Trusted
<1> DEFINE z == StartRead(zip)
<1>1. ~refused /\ Clean
  BY DEF Save, Trusted
<1>2. Reading(z, written)
  BY <1>1, StartReadIs DEF Clean, InMode
<1>3. z.mode = "reading"
  BY <1>2 DEF Reading
<1>4. PICK moves \in BOOLEAN :
        /\ zip' = WithComment(z, moves) /\ (saved' = "once" => Last(z.buffer).kind = "end")
        /\ todo' = <<>> /\ unread' = unread /\ files' = files /\ written' = written
  BY <1>3 DEF Save, Ready, extractVars
<1> HIDE DEF z
<1>5. Reading(zip', written') /\ (saved' = "once" => WithoutComment(EmptyZip, zip'.buffer).comment = zip'.comment)
  BY <1>2, <1>4, WithCommentIs
<1>6. zip'.mode = "reading" /\ InMode(zip', written')
  BY <1>5 DEF Reading, InMode
<1> QED
  BY <1>1, <1>4, <1>5, <1>6 DEF Clean, OwnContent

LEMMA LookTrusted == ASSUME Trusted, Look PROVE Trusted'
<1> SUFFICES ASSUME ~refused' PROVE Clean'
  BY DEF Trusted
<1>1. /\ zip' = StartRead(zip) /\ zip.mode # "reading" /\ saved' = saved /\ todo' = <<>> /\ ~refused
      /\ unread' = unread /\ files' = files /\ written' = written
  BY DEF Look, Ready, extractVars
<1>2. Clean
  BY <1>1 DEF Trusted
<1>3. saved' = "no"
  BY <1>1, <1>2 DEF Clean
<1>4. InMode(zip', written')
  BY <1>1, <1>2, StartReadIs DEF Clean, InMode
<1> QED
  BY <1>1, <1>2, <1>3, <1>4 DEF Clean, OwnContent

LEMMA WriteStrTrusted ==
  ASSUME Trusted, NEW n \in Members, NEW data \in Contents, WriteStr(n, data)
  PROVE  Trusted'
<1> SUFFICES ASSUME ~refused' PROVE Clean'
  BY DEF Trusted
<1> DEFINE z == StartWrite(zip)
<1>1. /\ ~refused /\ Clean /\ (zip.mode = "reading" => Misplaced(zip.buffer, zip.dir) = {})
      /\ saved' = "no" /\ todo' = <<>> /\ unread' = unread /\ files' = files
      /\ \/ zip' = AddMem(z, n, data) /\ written' = Append(written, <<n, data>>)
         \/ zip' = z /\ written' = written
  BY DEF WriteStr, Trusted, Ready, extractVars
<1>2. Writing(z, written)
  <2>1. InMode(zip, written)
    BY <1>1 DEF Clean
  <2>2. Reading(zip, written) => Misplaced(zip.buffer, zip.dir) = {}
    BY <1>1 DEF Reading
  <2> QED
    BY <2>1, <2>2, StartWriteIs DEF InMode
<1> HIDE DEF z
<1>3. data \in Seq(Nat)
  BY ZipAssumption
<1>4. InMode(zip', written')
  BY <1>1, <1>2, <1>3, AddMemIs DEF InMode
<1>5. written \in EntriesWritten
  BY <1>1, ModeIs DEF Clean
<1>6. \A i \in DOMAIN written : i \in DOMAIN written' /\ written'[i] = written[i]
  <2> SUFFICES ASSUME NEW i \in DOMAIN written PROVE i \in DOMAIN written' /\ written'[i] = written[i]
    OBVIOUS
  <2>1. <<n, data>> \in Members \X Seq(Nat) /\ i \in 1..Len(written)
    BY <1>3, <1>5 DEF EntriesWritten
  <2>2. CASE written' = Append(written, <<n, data>>)
    BY <1>5, <2>1, <2>2, MoreIs DEF EntriesWritten
  <2> QED
    BY <1>1, <2>2
<1>7. OwnContent'
  BY <1>1, <1>6 DEF OwnContent, Clean
<1> QED
  BY <1>1, <1>4, <1>7 DEF Clean

LEMMA ExtractAllTrusted == ASSUME Trusted, ExtractAll PROVE Trusted'
<1> SUFFICES ASSUME ~refused' PROVE Clean'
  BY DEF Trusted
<1>1. /\ zip' = StartRead(zip) /\ StartRead(zip).mode = "reading" /\ files' = NoFiles /\ ~refused
      /\ unread' = unread /\ written' = written /\ saved' = saved
  BY DEF ExtractAll
<1>2. Clean
  BY <1>1 DEF Trusted
<1>3. InMode(zip', written')
  BY <1>1, <1>2, StartReadIs DEF Clean, InMode
<1>4. saved = "once" => zip' = zip
  BY <1>1, <1>2 DEF Clean, StartRead
<1> QED
  BY <1>1, <1>2, <1>3, <1>4, NoneIs DEF Clean

LEMMA ExtractMemberTrusted == ASSUME Trusted, ExtractMember PROVE Trusted'
<1> SUFFICES ASSUME ~refused' PROVE Clean'
  BY DEF Trusted
<1> DEFINE n == Head(todo)
<1>1. PICK data \in ReadData(n) :
        /\ files' = [files EXCEPT ![n] = [kind |-> "file", data |-> unread \o data]]
        /\ unread' = <<>>
  BY DEF ExtractMember, LeftOver
<1>2. /\ todo # <<>> /\ zip' = zip /\ written' = written /\ saved' = saved /\ ~refused
  BY DEF ExtractMember
<1>3. Clean
  BY <1>2 DEF Trusted
<1>4. Reading(zip, written)
  BY <1>2, <1>3, ModeIs DEF Clean
<1>5. PICK i \in Locating(zip.dir, n) :
        Extractable(zip.buffer, zip.dir[i]) /\ data = DataOf(zip.buffer, zip.dir[i])
  BY <1>1 DEF ReadData
<1>6. PICK j \in DOMAIN written : Folded[written[j][1]] = Folded[n] /\ data = written[j][2] /\ data \in Seq(Nat)
  <2>1. Keeps(zip.buffer, Len(zip.buffer), zip.dir, written)
    BY <1>4 DEF Reading, Written
  <2>2. i \in 1..Len(zip.dir) /\ Folded[zip.dir[i].name] = Folded[n]
    <3>1. zip.dir \in Seq(EntryCells)
      BY <2>1 DEF Keeps
    <3> QED
      BY <3>1 DEF Locating
  <2>3. /\ zip.dir[i].name = written[i][1] /\ DataOf(zip.buffer, zip.dir[i]) = written[i][2]
        /\ written[i][2] \in Seq(Nat) /\ i \in DOMAIN written
    BY <2>1, <2>2, KeptIs
  <2> QED
    BY <1>5, <2>2, <2>3
<1>7. unread \o data = data
  <2>1. unread = <<>>
    BY <1>3 DEF Clean
  <2> QED
    BY <1>6, <2>1
<1> HIDE DEF n
<1>8. DOMAIN files' = Members /\ OwnContent'
  <2>1. DOMAIN files = Members /\ OwnContent
    BY <1>3 DEF Clean
  <2>2. files' = [files EXCEPT ![n] = [kind |-> "file", data |-> data]]
    BY <1>1, <1>7
  <2>3. DOMAIN files' = Members
    BY <2>1, <2>2
  <2>4. ASSUME NEW k \in Members, files'[k] # Absent
        PROVE  \E l \in DOMAIN written : Folded[written[l][1]] = Folded[k] /\ files'[k].data = written[l][2]
    <3>1. CASE k = n
      <4>1. files'[k].data = data
        BY <2>1, <2>2, <3>1
      <4> QED
        BY <1>6, <3>1, <4>1
    <3>2. CASE k # n
      <4>1. files'[k] = files[k]
        BY <2>1, <2>2, <3>2
      <4> QED
        BY <1>2, <2>1, <2>4, <4>1 DEF OwnContent
    <3> QED
      BY <3>1, <3>2
  <2> QED
    BY <1>2, <2>3, <2>4 DEF OwnContent
<1>9. zip'.mode = "reading"
  BY <1>2, <1>4 DEF Reading
<1> QED
  BY <1>1, <1>2, <1>3, <1>8, <1>9 DEF Clean

LEMMA NextTrusted == ASSUME Trusted, [ZipNext]_zipVars PROVE Trusted'
<1>1. CASE Reset
  BY <1>1, ResetTrusted
<1>2. CASE Load
  BY <1>2, LoadTrusted
<1>3. CASE SetComment
  BY <1>3, SetCommentTrusted
<1>4. CASE Save
  BY <1>4, SaveTrusted
<1>5. CASE Look
  BY <1>5, LookTrusted
<1>6. ASSUME NEW n \in Members, NEW data \in Contents, WriteStr(n, data) PROVE Trusted'
  BY <1>6, WriteStrTrusted
<1>7. CASE ExtractAll
  BY <1>7, ExtractAllTrusted
<1>8. CASE ExtractMember
  BY <1>8, ExtractMemberTrusted
<1>9. CASE ExtractUnopened \/ ExtractFails
  BY <1>9 DEF ExtractUnopened, ExtractFails, Trusted
<1>10. CASE UNCHANGED zipVars
  BY <1>10 DEF zipVars, Trusted, Clean, OwnContent
<1> QED
  BY <1>1, <1>2, <1>3, <1>4, <1>5, <1>6, <1>7, <1>8, <1>9, <1>10 DEF ZipNext

LEMMA AlwaysTrusted == ZipSpec => []Trusted
<1>1. ZipInit => Trusted
  BY InitTrusted
<1>2. Trusted /\ [ZipNext]_zipVars => Trusted'
  BY NextTrusted
<1> QED
  BY <1>1, <1>2, PTL DEF ZipSpec

\* ArchiveReadsBack: an archive whose calls have all succeeded holds, when it is
\* closed, all that was loaded and written, entry by entry, and what is saved has
\* its comment (zip_file: load, writestr, save).
THEOREM ArchiveReadsBack == ZipSpec => []SavedReadsBack
<1>1. ASSUME Trusted PROVE SavedReadsBack
  <2> SUFFICES ASSUME ~refused
               PROVE  /\ Holds(IF zip.mode = "writing" THEN Closed(zip).buffer ELSE zip.buffer, written)
                      /\ saved = "once" => WithoutComment(EmptyZip, zip.buffer).comment = zip.comment
    BY DEF SavedReadsBack
  <2>1. Clean
    BY <1>1 DEF Trusted
  <2>2. CASE Writing(zip, written)
    <3>1. zip.mode = "writing" /\ Written(Closed(zip).buffer, written)
      BY <2>2, ClosedIs DEF Writing
    <3> QED
      BY <2>1, <3>1, HoldsIs DEF Clean
  <2>3. CASE Reading(zip, written) \/ Unused(zip, written)
    <3>1. zip.mode # "writing" /\ Written(zip.buffer, written)
      BY <2>3, EmptyIs DEF Reading, Unused
    <3> QED
      BY <2>1, <3>1, HoldsIs DEF Clean
  <2> QED
    BY <2>1, <2>2, <2>3 DEF Clean, InMode
<1> QED
  BY <1>1, AlwaysTrusted, PTL

\* OwnContentOnly: extractall writes to the file of a member the data of an entry
\* of its name and nothing else, as long as no call has failed (zip_file:
\* extractall, extract, open).
THEOREM OwnContentOnly == ZipSpec => []OwnContent
<1>1. Trusted => OwnContent
  BY DEF Trusted, Clean, OwnContent
<1> QED
  BY <1>1, AlwaysTrusted, PTL

-----------------------------------------------------------------------------
(***************************************************************************)
(* Extraction.  What all steps have in common, also with damaged data: the *)
(* numbers stay within their bounds.                                       *)
(***************************************************************************)
Inputs == [rest : Seq(Units), given : Seq(Units), bits : Seq(Units)]
Decoders == [at : {"block", "size", "tables", "symbol", "dist", "raw", "literal", "copy", "done", "failed"},
             final : BOOLEAN, counter : Nat, dist : Nat, start : Int]

InflateTyped ==
  /\ entry \in Entries /\ driver \in {"memory", "file", "ring"} /\ readSize \in ReadSizes
  /\ input \in Inputs /\ inf \in Decoders
  /\ cur \in Nat /\ from \in Nat /\ from <= cur /\ cur <= OutEnd

LEMMA OutEndIs ==
  ASSUME entry \in Entries
  PROVE  OutEnd \in Nat /\ entry.data \in Seq(Units) /\ entry.claim \in Seq(Nat) /\ entry.zero \in Units
         /\ DictSize \in Nat \ {0} /\ Ahead \in Nat /\ Ahead >= 2
<1>1. /\ entry.data \in Seq(Units) /\ entry.claim \in Seq(Nat) /\ entry.zero \in Units
      /\ DictSize \in Nat \ {0} /\ Ahead \in Nat /\ Ahead >= 2
  BY InflateAssumption
<1>2. Len(entry.claim) \in Nat
  BY <1>1
<1> QED
  BY <1>1, <1>2 DEF OutEnd

LEMMA LessOf ==
  ASSUME NEW a \in Int, NEW b \in Int
  PROVE  Min({a, b}) \in {a, b} /\ Min({a, b}) <= a /\ Min({a, b}) <= b
<1>1. \E x \in {a, b} : \A y \in {a, b} : x <= y
  OBVIOUS
<1> QED
  BY <1>1 DEF Min

LEMMA LeastOfThree ==
  ASSUME NEW a \in Int, NEW b \in Int, NEW c \in Int
  PROVE  Min({a, b, c}) \in {a, b, c} /\ Min({a, b, c}) <= a /\ Min({a, b, c}) <= b /\ Min({a, b, c}) <= c
<1>1. \E x \in {a, b, c} : \A y \in {a, b, c} : x <= y
  OBVIOUS
<1> QED
  BY <1>1 DEF Min

LEMMA UnitIs ==
  ASSUME NEW u \in Units
  PROVE  u.v \in Nat /\ (u.kind = "len" => u.v # 0)
BY DEF Units

\* The pieces of a sequence.
LEMMA PieceIs ==
  ASSUME NEW T, NEW s \in Seq(T), NEW n \in Nat, n <= Len(s)
  PROVE  /\ SubSeq(s, 1, n) \in Seq(T) /\ Len(SubSeq(s, 1, n)) = n
         /\ \A i \in 1..n : SubSeq(s, 1, n)[i] = s[i]
         /\ SubSeq(s, n + 1, Len(s)) \in Seq(T) /\ Len(SubSeq(s, n + 1, Len(s))) = Len(s) - n
         /\ \A i \in 1..Len(s) - n : SubSeq(s, n + 1, Len(s))[i] = s[n + i]
<1>1. Len(s) \in Nat
  OBVIOUS
<1>2. PICK m \in Nat : m = Len(s) - n
  BY <1>1
<1>3. 0 + n <= Len(s) /\ n + m <= Len(s) /\ n + m = Len(s) /\ 0 + 1 = 1 /\ 0 + n = n /\ \A i \in 1..n : 0 + i = i
  BY <1>1, <1>2
<1>4. /\ SubSeq(s, 0 + 1, 0 + n) \in Seq(T) /\ Len(SubSeq(s, 0 + 1, 0 + n)) = n
      /\ \A i \in 1..n : SubSeq(s, 0 + 1, 0 + n)[i] = s[0 + i]
  BY <1>3, SliceIs
<1>5. /\ SubSeq(s, n + 1, n + m) \in Seq(T) /\ Len(SubSeq(s, n + 1, n + m)) = m
      /\ \A i \in 1..m : SubSeq(s, n + 1, n + m)[i] = s[n + i]
  BY <1>3, SliceIs
<1> QED
  BY <1>2, <1>3, <1>4, <1>5

LEMMA TailIs ==
  ASSUME NEW T, NEW s \in Seq(T), s # <<>>
  PROVE  /\ Tail(s) \in Seq(T) /\ Len(Tail(s)) = Len(s) - 1 /\ Len(s) > 0
         /\ Head(s) = s[1] /\ s[1] \in T /\ \A i \in 1..Len(s) - 1 : Tail(s)[i] = s[i + 1]
OBVIOUS

Fed(r, g, b) == [rest |-> r, given |-> g, bits |-> b]

LEMMA FedIs ==
  ASSUME NEW r \in Seq(Units), NEW g \in Seq(Units), NEW b \in Seq(Units)
  PROVE  /\ Fed(r, g, b) \in Inputs /\ Fed(r, g, b).rest = r
         /\ Fed(r, g, b).given = g /\ Fed(r, g, b).bits = b
BY DEF Fed, Inputs

LEMMA InputIs ==
  ASSUME NEW in \in Inputs
  PROVE  /\ in.rest \in Seq(Units) /\ in.given \in Seq(Units) /\ in.bits \in Seq(Units)
         /\ in = Fed(in.rest, in.given, in.bits)
BY DEF Fed, Inputs

LEMMA InputBut ==
  ASSUME NEW in \in Inputs, NEW r, NEW g, NEW b
  PROVE  /\ [in EXCEPT !.bits = b] = Fed(in.rest, in.given, b)
         /\ [in EXCEPT !.given = g] = Fed(in.rest, g, in.bits)
         /\ [in EXCEPT !.bits = b, !.given = g] = Fed(in.rest, g, b)
         /\ [in EXCEPT !.given = g, !.rest = r] = Fed(r, g, in.bits)
<1>1. [in EXCEPT !.bits = b] = Fed(in.rest, in.given, b)
  BY DEF Fed, Inputs
<1>2. [in EXCEPT !.given = g] = Fed(in.rest, g, in.bits)
  BY DEF Fed, Inputs
<1>3. [in EXCEPT !.bits = b, !.given = g] = Fed(in.rest, g, b)
  <2>1. [in EXCEPT !.bits = b, !.given = g] = [[in EXCEPT !.bits = b] EXCEPT !.given = g]
    BY DEF Inputs
  <2>2. [Fed(in.rest, in.given, b) EXCEPT !.given = g] = Fed(in.rest, g, b)
    BY DEF Fed
  <2> QED
    BY <1>1, <2>1, <2>2
<1>4. [in EXCEPT !.given = g, !.rest = r] = Fed(r, g, in.bits)
  <2>1. [in EXCEPT !.given = g, !.rest = r] = [[in EXCEPT !.given = g] EXCEPT !.rest = r]
    BY DEF Inputs
  <2>2. [Fed(in.rest, g, in.bits) EXCEPT !.rest = r] = Fed(r, g, in.bits)
    BY DEF Fed
  <2> QED
    BY <1>2, <2>1, <2>2
<1> QED
  BY <1>1, <1>2, <1>3, <1>4

LEMMA AfterTyped ==
  ASSUME NEW in \in Inputs
  PROVE  After(in) \in Inputs
<1>1. in.rest \in Seq(Units) /\ in.given \in Seq(Units) /\ in.bits \in Seq(Units)
  BY InputIs
<1>2. CASE in.bits # <<>>
  <2>1. Tail(in.bits) \in Seq(Units)
    BY <1>1, <1>2, TailIs
  <2>2. After(in) = Fed(in.rest, in.given, Tail(in.bits))
    BY <1>2, InputBut DEF After
  <2>3. Fed(in.rest, in.given, Tail(in.bits)) \in Inputs
    BY <1>1, <2>1, FedIs
  <2> QED
    BY <2>2, <2>3
<1>3. CASE in.bits = <<>> /\ in.given # <<>>
  <2>1. Tail(in.given) \in Seq(Units)
    BY <1>1, <1>3, TailIs
  <2>2. After(in) = Fed(in.rest, Tail(in.given), in.bits)
    BY <1>3, InputBut DEF After
  <2>3. Fed(in.rest, Tail(in.given), in.bits) \in Inputs
    BY <1>1, <2>1, FedIs
  <2> QED
    BY <2>2, <2>3
<1>4. CASE in.bits = <<>> /\ in.given = <<>>
  BY <1>4 DEF After
<1> QED
  BY <1>2, <1>3, <1>4

LEMMA UnitTyped ==
  ASSUME InflateTyped, inf.at \in {"block", "size", "tables", "symbol", "dist"}
  PROVE  Unit \in Units
<1>1. input \in Inputs /\ entry.zero \in Units
  BY OutEndIs DEF InflateTyped
<1>2. input.given \in Seq(Units) /\ input.bits \in Seq(Units)
  BY <1>1, InputIs
<1>3. ZeroUnit(inf.at) \in Units
  BY <1>1 DEF ZeroUnit, Units, Block, BadSize, Tables, Dist
<1>4. input.bits # <<>> => Head(input.bits) \in Units
  BY <1>2, TailIs
<1>5. input.given # <<>> => Head(input.given) \in Units
  BY <1>2, TailIs
<1> QED
  BY <1>3, <1>4, <1>5 DEF Unit

\* Steps that leave the output alone.
LEMMA QuietTyped ==
  ASSUME InflateTyped, UNCHANGED <<fixedVars, cur, from>>, input' \in Inputs, inf' \in Decoders
  PROVE  InflateTyped'
BY DEF InflateTyped, fixedVars, OutEnd, Ring

\* Steps that write n bytes.
LEMMA GrowTyped ==
  ASSUME InflateTyped, UNCHANGED <<fixedVars, from>>, input' \in Inputs, inf' \in Decoders,
         NEW n \in Nat, cur' = cur + n, cur + n <= OutEnd
  PROVE  InflateTyped'
<1>1. cur' \in Nat /\ from' \in Nat /\ from' <= cur' /\ OutEnd' = OutEnd /\ cur' <= OutEnd'
  <2>1. OutEnd' = OutEnd
    BY DEF fixedVars, OutEnd, Ring
  <2>2. OutEnd \in Nat
    BY OutEndIs DEF InflateTyped
  <2> QED
    BY <2>1, <2>2 DEF InflateTyped
<1> QED
  BY <1>1 DEF InflateTyped, fixedVars

LEMMA HeaderTyped == ASSUME InflateTyped, BlockHeader PROVE InflateTyped'
<1>1. /\ UNCHANGED <<fixedVars, cur, from>> /\ input' = After(input) /\ inf.at = "block"
      /\ inf' = [inf EXCEPT !.final = (Unit.v = 1),
                            !.at = CASE Unit.kind = "stored" -> "size"
                                     [] Unit.kind = "fixed" -> "symbol"
                                     [] Unit.kind = "dynamic" -> "tables"
                                     [] OTHER -> "failed"]
  BY DEF BlockHeader, outputVars
<1>2. input' \in Inputs
  BY <1>1, AfterTyped DEF InflateTyped
<1>3. inf' \in Decoders
  <2>1. PICK place \in {"size", "symbol", "tables", "failed"}, b \in BOOLEAN :
          inf' = [inf EXCEPT !.final = b, !.at = place]
    BY <1>1
  <2> QED
    BY <2>1 DEF InflateTyped, Decoders
<1> QED
  BY <1>1, <1>2, <1>3, QuietTyped

LEMMA SizeTyped == ASSUME InflateTyped, StoredSize PROVE InflateTyped'
<1>1. /\ UNCHANGED <<fixedVars, cur, from>> /\ input' = After(input) /\ inf.at = "size"
      /\ inf' = [inf EXCEPT !.counter = Unit.v,
                            !.at = IF Unit = BadSize THEN "failed"
                                   ELSE IF Unit.v = 0 THEN BlockOver ELSE "raw"]
  BY DEF StoredSize, outputVars
<1>2. input' \in Inputs
  BY <1>1, AfterTyped DEF InflateTyped
<1>3. inf' \in Decoders
  <2>1. Unit \in Units
    BY <1>1, UnitTyped
  <2>2. PICK place \in {"failed", "done", "block", "raw"}, n \in Nat :
          inf' = [inf EXCEPT !.counter = n, !.at = place]
    BY <1>1, <2>1, UnitIs DEF BlockOver
  <2> QED
    BY <2>2 DEF InflateTyped, Decoders
<1> QED
  BY <1>1, <1>2, <1>3, QuietTyped

LEMMA TablesTyped == ASSUME InflateTyped, CodeTables PROVE InflateTyped'
<1>1. /\ UNCHANGED <<fixedVars, cur, from>> /\ input' = After(input)
      /\ inf' = [inf EXCEPT !.at = IF Unit = Tables THEN "symbol" ELSE "failed"]
  BY DEF CodeTables, outputVars, GoTo
<1>2. input' \in Inputs
  BY <1>1, AfterTyped DEF InflateTyped
<1>3. inf' \in Decoders
  BY <1>1 DEF InflateTyped, Decoders
<1> QED
  BY <1>1, <1>2, <1>3, QuietTyped

\* How many stored bytes are taken at once.
RawNow == Min({Len(RawTaken), OutEnd - cur, inf.counter})

LEMMA RawIs ==
  ASSUME InflateTyped, StoredBytes
  PROVE  /\ RawNow \in Nat /\ RawNow <= Len(RawTaken) /\ cur + RawNow <= OutEnd /\ RawNow <= inf.counter
         /\ RawNow \in {Len(RawTaken), OutEnd - cur, inf.counter}
         /\ RawTaken \in Seq(Units) /\ Len(RawTaken) \in Nat
         /\ RawTaken # <<>> /\ \A i \in 1..Len(RawTaken) : RawTaken[i] \in Units
         /\ input.bits # <<>> => Len(RawTaken) = 1 /\ RawTaken[1] = input.bits[1]
         /\ input.bits = <<>> => RawTaken = input.given
<1>1. input.given \in Seq(Units) /\ input.bits \in Seq(Units)
  BY InputIs DEF InflateTyped
<1>2. ~InputEmpty /\ cur < OutEnd
  BY DEF StoredBytes
<1>5. /\ RawTaken \in Seq(Units) /\ RawTaken # <<>>
      /\ input.bits # <<>> => Len(RawTaken) = 1 /\ RawTaken[1] = input.bits[1]
      /\ input.bits = <<>> => RawTaken = input.given
  <2>1. CASE input.bits # <<>>
    <3>1. Len(input.bits) >= 1
      BY <1>1, <2>1, TailIs
    <3>2. /\ SubSeq(input.bits, 1, 1) \in Seq(Units) /\ Len(SubSeq(input.bits, 1, 1)) = 1
          /\ SubSeq(input.bits, 1, 1)[1] = input.bits[1]
      BY <1>1, <3>1, PieceIs
    <3> QED
      BY <2>1, <3>2 DEF RawTaken
  <2>2. CASE input.bits = <<>>
    BY <1>1, <1>2, <2>2 DEF RawTaken, InputEmpty
  <2> QED
    BY <2>1, <2>2
<1>6. Len(RawTaken) \in Nat /\ \A i \in 1..Len(RawTaken) : RawTaken[i] \in Units
  BY <1>5, ElementOfSeq
<1>7. OutEnd \in Nat /\ cur \in Nat /\ inf.counter \in Nat
  BY OutEndIs DEF InflateTyped, Decoders
<1>8. Len(RawTaken) \in Int /\ OutEnd - cur \in Int /\ inf.counter \in Int
  BY <1>6, <1>7
<1>9. /\ RawNow \in {Len(RawTaken), OutEnd - cur, inf.counter} /\ RawNow <= Len(RawTaken)
      /\ RawNow <= OutEnd - cur /\ RawNow <= inf.counter
  BY <1>8, LeastOfThree DEF RawNow
<1> QED
  BY <1>2, <1>5, <1>6, <1>7, <1>9

LEMMA RawTyped == ASSUME InflateTyped, StoredBytes PROVE InflateTyped'
<1>1. /\ UNCHANGED <<fixedVars, from>> /\ cur' = cur + RawNow
      /\ input' = IF input.bits # <<>> THEN [input EXCEPT !.bits = Tail(@)]
                  ELSE [input EXCEPT !.given = SubSeq(@, RawNow + 1, Len(@))]
      /\ inf' = [inf EXCEPT !.counter = @ - RawNow, !.at = IF RawNow = inf.counter THEN BlockOver ELSE "raw"]
  BY DEF StoredBytes, RawNow
<1>2. /\ RawNow \in Nat /\ RawNow <= Len(RawTaken) /\ cur + RawNow <= OutEnd /\ RawNow <= inf.counter
      /\ input.bits = <<>> => RawTaken = input.given
  BY RawIs
<1>3. input.rest \in Seq(Units) /\ input.given \in Seq(Units) /\ input.bits \in Seq(Units) /\ input \in Inputs
  BY InputIs DEF InflateTyped
<1>4. input' \in Inputs
  <2>1. CASE input.bits # <<>>
    <3>1. Tail(input.bits) \in Seq(Units) /\ input' = Fed(input.rest, input.given, Tail(input.bits))
      BY <1>1, <1>3, <2>1, TailIs, InputBut
    <3> QED
      BY <1>3, <3>1, FedIs
  <2>2. CASE input.bits = <<>>
    <3>1. SubSeq(input.given, RawNow + 1, Len(input.given)) \in Seq(Units)
      BY <1>2, <1>3, <2>2, PieceIs
    <3>2. input' = Fed(input.rest, SubSeq(input.given, RawNow + 1, Len(input.given)), input.bits)
      BY <1>1, <1>3, <2>2, InputBut
    <3> QED
      BY <1>3, <3>1, <3>2, FedIs
  <2> QED
    BY <2>1, <2>2
<1>5. inf' \in Decoders
  <2>1. PICK place \in {"done", "block", "raw"}, n \in Nat :
          n = inf.counter - RawNow /\ inf' = [inf EXCEPT !.counter = n, !.at = place]
    <3>1. inf.counter - RawNow \in Nat
      BY <1>2 DEF InflateTyped, Decoders
    <3> QED
      BY <1>1, <3>1 DEF BlockOver
  <2> QED
    BY <2>1 DEF InflateTyped, Decoders
<1> QED
  BY <1>1, <1>2, <1>4, <1>5, GrowTyped

LEMMA NotLiteralTyped ==
  ASSUME InflateTyped, NEW u \in Units, NotLiteral(u)
  PROVE  inf' \in Decoders
<1>1. CASE u.kind = "end"
  BY <1>1 DEF NotLiteral, BlockOver, InflateTyped, Decoders
<1>2. CASE u.kind # "end"
  <2>1. u.v \in Nat
    BY UnitIs
  <2> QED
    BY <1>2, <2>1 DEF NotLiteral, InflateTyped, Decoders
<1> QED
  BY <1>1, <1>2

\* What is read ahead.
ReadAhead ==
  IF Len(input.bits) >= 2 THEN input
  ELSE [input EXCEPT !.bits = @ \o SubSeq(input.given, 1, Ahead),
                     !.given = SubSeq(@, Ahead + 1, Len(@))]

LEMMA ReadAheadTyped ==
  ASSUME InflateTyped, Fast
  PROVE  ReadAhead \in Inputs /\ Len(ReadAhead.bits) >= 2 /\ Len(ReadAhead.bits) \in Nat
         /\ ReadAhead.bits[1] \in Units /\ ReadAhead.bits[2] \in Units
<1>1. input.rest \in Seq(Units) /\ input.given \in Seq(Units) /\ input.bits \in Seq(Units) /\ input \in Inputs
  BY InputIs DEF InflateTyped
<1>2. Ahead \in Nat /\ Ahead >= 2 /\ Len(input.given) >= Ahead
  BY OutEndIs DEF InflateTyped, Fast
<1>3. Len(input.bits) \in Nat
  BY <1>1
<1>4. ReadAhead \in Inputs /\ Len(ReadAhead.bits) >= 2
  <2>1. CASE Len(input.bits) >= 2
    BY <1>1, <2>1 DEF ReadAhead
  <2>2. CASE ~(Len(input.bits) >= 2)
    <3>1. /\ SubSeq(input.given, 1, Ahead) \in Seq(Units) /\ Len(SubSeq(input.given, 1, Ahead)) = Ahead
          /\ SubSeq(input.given, Ahead + 1, Len(input.given)) \in Seq(Units)
      BY <1>1, <1>2, PieceIs
    <3>2. PICK b : b = input.bits \o SubSeq(input.given, 1, Ahead)
      OBVIOUS
    <3>3. b \in Seq(Units) /\ Len(b) = Len(input.bits) + Ahead
      BY <1>1, <3>1, <3>2, ConcatIs
    <3>a. PICK g : g = SubSeq(input.given, Ahead + 1, Len(input.given))
      OBVIOUS
    <3>b. [input EXCEPT !.bits = b, !.given = g] = Fed(input.rest, g, b)
      <4>1. [input EXCEPT !.bits = b, !.given = g] = [[input EXCEPT !.bits = b] EXCEPT !.given = g]
        BY <1>1 DEF Inputs
      <4>2. [input EXCEPT !.bits = b] = Fed(input.rest, input.given, b)
        BY <1>1, InputBut
      <4>3. [Fed(input.rest, input.given, b) EXCEPT !.given = g] = Fed(input.rest, g, b)
        BY DEF Fed
      <4> QED
        BY <4>1, <4>2, <4>3
    <3>4. ReadAhead = Fed(input.rest, g, b)
      BY <2>2, <3>2, <3>a, <3>b DEF ReadAhead
    <3>c. Fed(input.rest, g, b) \in Inputs /\ Fed(input.rest, g, b).bits = b
      <4>1. input.rest \in Seq(Units) /\ g \in Seq(Units) /\ b \in Seq(Units)
        BY <1>1, <3>1, <3>3, <3>a
      <4> QED
        BY <4>1, FedIs
    <3>5. ReadAhead \in Inputs /\ ReadAhead.bits = b
      BY <3>4, <3>c
    <3> QED
      BY <1>2, <1>3, <3>3, <3>5
  <2> QED
    BY <2>1, <2>2
<1>5. ReadAhead.bits \in Seq(Units)
  BY <1>4, InputIs
<1>6. Len(ReadAhead.bits) \in Nat
  BY <1>5
<1>7. 1 \in 1..Len(ReadAhead.bits) /\ 2 \in 1..Len(ReadAhead.bits)
  BY <1>4, <1>6
<1> QED
  BY <1>4, <1>5, <1>6, <1>7, ElementOfSeq

\* The steps of TwoSymbols apart.
LEMMA TwoSymbolsAre ==
  ASSUME TwoSymbols, NEW read, read = ReadAhead, NEW u1, u1 = read.bits[1], NEW u2, u2 = read.bits[2]
  PROVE  /\ outcome = "running" /\ inf.at = "symbol" /\ Fast
         /\ UNCHANGED <<fixedVars, from, passed, outcome>>
         /\ \/ /\ u1.kind # "lit" /\ input' = After(read) /\ NotLiteral(u1) /\ UNCHANGED <<buffer, cur>>
            \/ /\ u1.kind = "lit" /\ u2.kind # "lit" /\ input' = After(After(read))
               /\ buffer' = [buffer EXCEPT ![cur] = u1.v] /\ cur' = cur + 1 /\ NotLiteral(u2)
            \/ /\ u1.kind = "lit" /\ u2.kind = "lit" /\ input' = After(After(read))
               /\ buffer' = [buffer EXCEPT ![cur] = u1.v, ![cur + 1] = u2.v] /\ cur' = cur + 2
               /\ UNCHANGED inf
BY DEF TwoSymbols, ReadAhead, Decoding

LEMMA TwoTyped == ASSUME InflateTyped, TwoSymbols PROVE InflateTyped'
<1>1. PICK read : read = ReadAhead
  OBVIOUS
<1>2. PICK u1, u2 : u1 = read.bits[1] /\ u2 = read.bits[2]
  OBVIOUS
<1>3. Fast
  BY DEF TwoSymbols
<1>4. read \in Inputs /\ u1 \in Units /\ u2 \in Units
  BY <1>1, <1>2, <1>3, ReadAheadTyped
<1>5. After(read) \in Inputs /\ After(After(read)) \in Inputs
  BY <1>4, AfterTyped
<1>6. OutEnd \in Nat /\ cur \in Nat /\ inf \in Decoders /\ cur + 2 <= OutEnd /\ cur + 1 <= OutEnd
  <2>1. OutEnd \in Nat /\ cur \in Nat /\ inf \in Decoders
    BY OutEndIs DEF InflateTyped
  <2> QED
    BY <1>3, <2>1 DEF Fast
<1>7. UNCHANGED <<fixedVars, from>>
  BY <1>1, <1>2, TwoSymbolsAre
<1>8. CASE input' = After(read) /\ NotLiteral(u1) /\ UNCHANGED cur
  BY <1>4, <1>5, <1>7, <1>8, NotLiteralTyped, QuietTyped
<1>9. CASE input' = After(After(read)) /\ cur' = cur + 1 /\ NotLiteral(u2)
  BY <1>4, <1>5, <1>6, <1>7, <1>9, NotLiteralTyped, GrowTyped
<1>10. CASE input' = After(After(read)) /\ cur' = cur + 2 /\ UNCHANGED inf
  BY <1>4, <1>5, <1>6, <1>7, <1>10, GrowTyped
<1> QED
  BY <1>1, <1>2, <1>8, <1>9, <1>10, TwoSymbolsAre

LEMMA OneTyped == ASSUME InflateTyped, OneSymbol PROVE InflateTyped'
<1>1. /\ UNCHANGED <<fixedVars, cur, from>> /\ input' = After(input) /\ inf.at = "symbol"
      /\ IF Unit.kind = "lit" THEN inf' = [inf EXCEPT !.dist = Unit.v, !.at = "literal"]
                              ELSE NotLiteral(Unit)
  BY DEF OneSymbol, outputVars
<1>2. input' \in Inputs
  BY <1>1, AfterTyped DEF InflateTyped
<1>3. Unit \in Units /\ Unit.v \in Nat
  BY <1>1, UnitTyped, UnitIs
<1>4. inf' \in Decoders
  <2>1. CASE Unit.kind = "lit"
    BY <1>1, <1>3, <2>1 DEF InflateTyped, Decoders
  <2>2. CASE Unit.kind # "lit"
    BY <1>1, <1>3, <2>2, NotLiteralTyped
  <2> QED
    BY <2>1, <2>2
<1> QED
  BY <1>1, <1>2, <1>4, QuietTyped

LEMMA LiteralTyped == ASSUME InflateTyped, PutLiteral PROVE InflateTyped'
<1>1. /\ UNCHANGED <<fixedVars, from>> /\ input' = input /\ cur' = cur + 1 /\ cur < OutEnd
      /\ inf' = [inf EXCEPT !.at = "symbol"]
  BY DEF PutLiteral, GoTo
<1>2. input' \in Inputs /\ inf' \in Decoders
  BY <1>1 DEF InflateTyped, Decoders
<1>3. cur + 1 <= OutEnd
  <2>1. OutEnd \in Nat /\ cur \in Nat
    BY OutEndIs DEF InflateTyped
  <2> QED
    BY <1>1, <2>1
<1> QED
  BY <1>1, <1>2, <1>3, GrowTyped

LEMMA DistanceTyped == ASSUME InflateTyped, Distance PROVE InflateTyped'
<1>1. /\ UNCHANGED <<fixedVars, cur, from>> /\ input' = After(input) /\ inf.at = "dist"
      /\ inf' = [inf EXCEPT !.dist = Unit.v, !.start = cur,
                            !.at = IF ~Ring /\ Unit.v > cur THEN "failed" ELSE "copy"]
  BY DEF Distance, outputVars
<1>2. input' \in Inputs
  BY <1>1, AfterTyped DEF InflateTyped
<1>3. Unit.v \in Nat
  BY <1>1, UnitTyped, UnitIs
<1>4. inf' \in Decoders
  <2>1. PICK n \in Nat, i \in Int : n = Unit.v /\ i = cur
    BY <1>3 DEF InflateTyped
  <2>2. PICK place \in {"failed", "copy"} : inf' = [inf EXCEPT !.dist = n, !.start = i, !.at = place]
    BY <1>1, <2>1
  <2> QED
    BY <2>2 DEF InflateTyped, Decoders
<1> QED
  BY <1>1, <1>2, <1>4, QuietTyped

\* How much of a match is copied at once.
CopyNow == Min({inf.counter, OutEnd - cur})

LEMMA CopyNowIs ==
  ASSUME InflateTyped, CopyMatch
  PROVE  /\ CopyNow \in Nat /\ cur + CopyNow <= OutEnd /\ CopyNow <= inf.counter
         /\ CopyNow = inf.counter \/ cur + CopyNow = OutEnd
<1>1. OutEnd \in Nat /\ cur \in Nat /\ inf.counter \in Nat /\ cur < OutEnd
  BY OutEndIs DEF InflateTyped, Decoders, CopyMatch
<1>2. OutEnd - cur \in Int /\ inf.counter \in Int
  BY <1>1
<1>3. CopyNow \in {inf.counter, OutEnd - cur} /\ CopyNow <= inf.counter /\ CopyNow <= OutEnd - cur
  BY <1>2, LessOf DEF CopyNow
<1> QED
  BY <1>1, <1>3

LEMMA CopyTyped == ASSUME InflateTyped, CopyMatch PROVE InflateTyped'
<1>1. /\ UNCHANGED <<fixedVars, from>> /\ input' = input /\ cur' = cur + CopyNow
      /\ inf' = [inf EXCEPT !.counter = @ - CopyNow, !.start = @ + CopyNow,
                            !.at = IF CopyNow = inf.counter THEN "symbol" ELSE "copy"]
  BY DEF CopyMatch, CopyNow
<1>2. CopyNow \in Nat /\ cur + CopyNow <= OutEnd /\ CopyNow <= inf.counter
  BY CopyNowIs
<1>3. inf' \in Decoders
  <2>1. PICK place \in {"symbol", "copy"}, n \in Nat, i \in Int :
          inf' = [inf EXCEPT !.counter = n, !.start = i, !.at = place]
    <3>1. inf.counter - CopyNow \in Nat /\ inf.start + CopyNow \in Int
      BY <1>2 DEF InflateTyped, Decoders
    <3> QED
      BY <1>1, <3>1
  <2> QED
    BY <2>1 DEF InflateTyped, Decoders
<1>4. input' \in Inputs
  BY <1>1 DEF InflateTyped
<1> QED
  BY <1>1, <1>2, <1>3, <1>4, GrowTyped

LEMMA FinishTyped == ASSUME InflateTyped, Finish PROVE InflateTyped'
BY DEF InflateTyped, Finish, fixedVars, OutEnd, Ring

LEMMA AgainTyped == ASSUME InflateTyped, CallAgain PROVE InflateTyped'
<1> DEFINE n == Min({Len(input.rest), readSize})
           next == IF Ring THEN cur % DictSize ELSE cur
<1>1. /\ UNCHANGED fixedVars /\ inf' = inf /\ cur' = next /\ from' = IF Ring THEN next ELSE from
      /\ input' = IF input.given # <<>> THEN input
                  ELSE [input EXCEPT !.given = SubSeq(input.rest, 1, n), !.rest = SubSeq(@, n + 1, Len(@))]
  BY DEF CallAgain
<1>2. input.rest \in Seq(Units) /\ input.given \in Seq(Units) /\ input.bits \in Seq(Units) /\ input \in Inputs
  BY InputIs DEF InflateTyped
<1>3. n \in Nat /\ n <= Len(input.rest)
  <2>1. Len(input.rest) \in Nat /\ readSize \in Nat
    BY <1>2, InflateAssumption DEF InflateTyped
  <2>2. Len(input.rest) \in Int /\ readSize \in Int
    BY <2>1
  <2>3. n \in {Len(input.rest), readSize} /\ n <= Len(input.rest)
    BY <2>2, LessOf
  <2> QED
    BY <2>1, <2>3
<1> HIDE DEF n
<1>4. input' \in Inputs
  <2>1. /\ SubSeq(input.rest, 1, n) \in Seq(Units)
        /\ SubSeq(input.rest, n + 1, Len(input.rest)) \in Seq(Units)
    BY <1>2, <1>3, PieceIs
  <2>2. PICK g, r : g = SubSeq(input.rest, 1, n) /\ r = SubSeq(input.rest, n + 1, Len(input.rest))
    OBVIOUS
  <2>3. [input EXCEPT !.given = g, !.rest = r] = Fed(r, g, input.bits)
    BY <1>2, InputBut
  <2>4. input' = input \/ input' = Fed(r, g, input.bits)
    BY <1>1, <2>2, <2>3
  <2>5. Fed(r, g, input.bits) \in Inputs
    BY <1>2, <2>1, <2>2, FedIs
  <2> QED
    BY <1>2, <2>4, <2>5
<1>5. OutEnd \in Nat /\ cur \in Nat /\ DictSize \in Nat \ {0}
  BY OutEndIs DEF InflateTyped
<1>6. next \in Nat /\ next <= OutEnd
  <2>1. CASE Ring
    <3>1. cur % DictSize \in 0..DictSize - 1
      BY <1>5
    <3> QED
      BY <1>5, <2>1, <3>1 DEF OutEnd
  <2>2. CASE ~Ring
    BY <1>5, <2>2 DEF InflateTyped
  <2> QED
    BY <2>1, <2>2
<1>7. OutEnd' = OutEnd
  BY <1>1 DEF OutEnd, Ring, fixedVars
<1>8. cur' \in Nat /\ cur' <= OutEnd' /\ from' \in Nat /\ from' <= cur'
  <2>1. CASE Ring
    BY <1>1, <1>6, <1>7, <2>1
  <2>2. CASE ~Ring
    BY <1>1, <1>6, <1>7, <2>2 DEF InflateTyped
  <2> QED
    BY <2>1, <2>2
<1> QED
  BY <1>1, <1>4, <1>8 DEF InflateTyped, fixedVars

LEMMA InitTyped == InflateInit => InflateTyped
<1> SUFFICES ASSUME InflateInit PROVE InflateTyped
  OBVIOUS
<1> DEFINE n == IF driver = "memory" THEN Len(entry.data) ELSE Min({Len(entry.data), readSize})
<1>1. /\ entry \in Entries /\ driver \in {"memory", "file", "ring"} /\ readSize \in ReadSizes
      /\ input = Fed(SubSeq(entry.data, n + 1, Len(entry.data)), SubSeq(entry.data, 1, n), <<>>)
      /\ inf = [at |-> "block", final |-> FALSE, counter |-> 0, dist |-> 0, start |-> 0]
      /\ cur = 0 /\ from = 0
  BY DEF InflateInit, Fed
<1>2. entry.data \in Seq(Units) /\ OutEnd \in Nat /\ readSize \in Nat
  BY <1>1, OutEndIs, InflateAssumption
<1>3. Len(entry.data) \in Nat
  BY <1>2
<1>4. n \in Nat /\ n <= Len(entry.data)
  <2>1. Len(entry.data) \in Int /\ readSize \in Int
    BY <1>2, <1>3
  <2>2. /\ Min({Len(entry.data), readSize}) \in {Len(entry.data), readSize}
        /\ Min({Len(entry.data), readSize}) <= Len(entry.data)
    BY <2>1, LessOf
  <2> QED
    BY <1>2, <1>3, <2>2
<1> HIDE DEF n
<1>5. input \in Inputs
  <2>1. /\ SubSeq(entry.data, 1, n) \in Seq(Units) /\ <<>> \in Seq(Units)
        /\ SubSeq(entry.data, n + 1, Len(entry.data)) \in Seq(Units)
    BY <1>2, <1>4, PieceIs
  <2> QED
    BY <1>1, <2>1, FedIs
<1>6. inf \in Decoders
  BY <1>1 DEF Decoders
<1> QED
  BY <1>1, <1>2, <1>5, <1>6 DEF InflateTyped

LEMMA StepTyped == ASSUME InflateTyped, [Inflating]_inflateVars PROVE InflateTyped'
<1>1. CASE StoredTruncated
  <2>1. inf' \in Decoders /\ input' \in Inputs /\ UNCHANGED <<fixedVars, cur, from>>
    BY <1>1 DEF StoredTruncated, GoTo, InflateTyped, Decoders, outputVars
  <2> QED
    BY <2>1, QuietTyped
<1>2. CASE CallbackFails \/ UNCHANGED inflateVars
  BY <1>2 DEF CallbackFails, inflateVars, outputVars, fixedVars, InflateTyped, OutEnd, Ring
<1> QED
  BY <1>1, <1>2, HeaderTyped, SizeTyped, TablesTyped, RawTyped, TwoTyped, OneTyped, LiteralTyped,
     DistanceTyped, CopyTyped, FinishTyped, AgainTyped DEF Inflating

-----------------------------------------------------------------------------
\* What was extracted is left alone.
LEMMA FinishExact ==
  ASSUME InflateTyped, Finish
  PROVE  NothingElse'
<1> SUFFICES ASSUME outcome' = "extracted" PROVE Out' = entry'.claim
  BY DEF NothingElse
<1>1. /\ Checked /\ UNCHANGED <<fixedVars, buffer>> /\ cur' = cur
      /\ passed' = (IF Ring THEN Out ELSE passed) /\ from' = (IF Ring THEN cur ELSE from)
  BY DEF Finish, PassOn
<1>2. Out = entry.claim /\ entry' = entry /\ OutEnd' = OutEnd
  BY <1>1 DEF Checked, OutEnd, Ring, fixedVars
<1>3. CASE Ring
  <2>1. cur \in Nat /\ entry.claim \in Seq(Nat)
    BY OutEndIs DEF InflateTyped
  <2>2. New' = SubSeq([i \in 1..OutEnd |-> buffer[i - 1]], cur + 1, cur)
    BY <1>1, <1>2, <1>3 DEF New
  <2>3. New' = <<>>
    BY <2>1, <2>2
  <2>4. Out' = Out \o <<>>
    BY <1>1, <1>3, <2>3 DEF Out
  <2>5. entry.claim \o <<>> = entry.claim
    BY <2>1
  <2> QED
    BY <1>2, <2>4, <2>5
<1>4. CASE ~Ring
  <2>1. New' = New
    BY <1>1, <1>2, <1>4 DEF New
  <2>2. Out' = Out
    BY <1>1, <1>4, <2>1 DEF Out
  <2> QED
    BY <1>2, <2>2
<1> QED
  BY <1>3, <1>4

LEMMA StepExact == ASSUME InflateTyped, NothingElse, [Inflating]_inflateVars PROVE NothingElse'
<1>1. CASE Finish
  BY <1>1, FinishExact
<1>2. CASE CallbackFails \/ CallAgain
  BY <1>2 DEF CallbackFails, CallAgain, Returned, NothingElse
<1>3. CASE UNCHANGED inflateVars
  BY <1>3 DEF inflateVars, fixedVars, NothingElse, Out, New, OutEnd, Ring
<1>4. CASE \/ BlockHeader \/ StoredSize \/ CodeTables \/ StoredBytes \/ StoredTruncated
           \/ TwoSymbols \/ OneSymbol \/ PutLiteral \/ Distance \/ CopyMatch
  <2>1. outcome' = "running"
    BY <1>4 DEF BlockHeader, StoredSize, CodeTables, StoredBytes, StoredTruncated, TwoSymbols,
                OneSymbol, PutLiteral, Distance, CopyMatch, Decoding
  <2> QED
    BY <2>1 DEF NothingElse
<1> QED
  BY <1>1, <1>2, <1>3, <1>4 DEF Inflating

\* ExtractedExactly: whatever the data, however it is cut and by whom it is
\* extracted: extraction that succeeds has passed on the content whose size and
\* checksum are in the directory, and nothing more.
THEOREM ExtractedExactly == InflateSpec => []NothingElse
<1>1. InflateInit => InflateTyped /\ NothingElse
  BY InitTyped DEF InflateInit, NothingElse
<1>2. InflateTyped /\ NothingElse /\ [Inflating]_inflateVars => (InflateTyped /\ NothingElse)'
  BY StepTyped, StepExact
<1> QED
  BY <1>1, <1>2, PTL DEF InflateSpec

-----------------------------------------------------------------------------
\* Positions in a ring of C.
LEMMA Remainder ==
  ASSUME NEW C \in Nat \ {0}, NEW x \in Int
  PROVE  /\ x \div C \in Int /\ x % C \in 0..C - 1
         /\ x = C * (x \div C) + (x % C)
<1>1. x \div C \in Int /\ x % C \in 0..C - 1
  OBVIOUS
<1>2. PICK q \in Int : q = x \div C
  BY <1>1
<1>3. x = C * q + (x % C)
  BY <1>2
<1> QED
  BY <1>1, <1>2, <1>3

\* A multiple of C that is less than C is 0.
LEMMA NoMultiple ==
  ASSUME NEW C \in Nat \ {0}, NEW k \in Int, C * k < C, -C < C * k
  PROVE  k = 0
<1>1. k >= 1 => C * k >= C
  OBVIOUS
<1>2. k <= -1 => C * k <= -C
  OBVIOUS
<1> QED
  BY <1>1, <1>2

LEMMA AddMultiple ==
  ASSUME NEW C \in Nat \ {0}, NEW x \in Int, NEW k \in Int
  PROVE  (x + C * k) % C = x % C
<1> DEFINE y == x + C * k
<1>1. y \in Int
  OBVIOUS
<1>2. PICK p \in Int, a \in 0..C - 1 : x = C * p + a /\ a = x % C
  BY Remainder
<1> HIDE DEF y
<1>3. PICK q \in Int, b \in 0..C - 1 : y = C * q + b /\ b = y % C
  BY <1>1, Remainder
<1>4. C * (q - p - k) = a - b
  <2>1. C * (q - p - k) = C * q - C * p - C * k
    OBVIOUS
  <2>2. PICK u \in Int, v \in Int, w \in Int : u = C * q /\ v = C * p /\ w = C * k
    OBVIOUS
  <2>3. y = v + a + w /\ y = u + b
    BY <1>2, <1>3, <2>2 DEF y
  <2>4. u - v - w = a - b
    BY <2>3
  <2> QED
    BY <2>1, <2>2, <2>4
<1>5. q - p - k = 0
  <2>1. q - p - k \in Int
    OBVIOUS
  <2>2. C * (q - p - k) < C /\ -C < C * (q - p - k)
    BY <1>4
  <2> QED
    BY <2>1, <2>2, NoMultiple
<1>6. a = b
  BY <1>4, <1>5
<1> QED
  BY <1>2, <1>3, <1>6 DEF y

LEMMA RingFacts ==
  ASSUME NEW C \in Nat \ {0}
  PROVE  /\ \A x \in Int : x % C \in 0..C - 1
         /\ \A x \in 0..C - 1 : x % C = x
         /\ \A x \in Int : (x + C) % C = x % C
<1>1. \A x \in Int : x % C \in 0..C - 1
  OBVIOUS
<1>2. \A x \in 0..C - 1 : x % C = x
  OBVIOUS
<1>3. ASSUME NEW x \in Int PROVE (x + C) % C = x % C
  <2>1. x + C = x + C * 1 /\ 1 \in Int
    OBVIOUS
  <2>2. (x + C * 1) % C = x % C
    BY <2>1, AddMultiple
  <2> QED
    BY <2>1, <2>2
<1> QED
  BY <1>1, <1>2, <1>3

\* Two positions less than C apart are the same only if they are equal.
LEMMA RingApart ==
  ASSUME NEW C \in Nat \ {0}, NEW x \in Int, NEW y \in Int,
         x - y < C, y - x < C, x % C = y % C
  PROVE  x = y
<1>1. PICK p \in Int, a \in 0..C - 1 : x = C * p + a /\ a = x % C
  BY Remainder
<1>2. PICK q \in Int, b \in 0..C - 1 : y = C * q + b /\ b = y % C
  BY Remainder
<1>3. C * (p - q) = x - y
  <2>1. C * (p - q) = C * p - C * q
    OBVIOUS
  <2>2. C * q \in Int /\ C * p \in Int
    OBVIOUS
  <2> QED
    BY <1>1, <1>2, <2>1, <2>2
<1>4. p - q = 0
  <2>1. p - q \in Int /\ C * (p - q) < C /\ -C < C * (p - q)
    BY <1>3
  <2> QED
    BY <2>1, NoMultiple
<1> QED
  BY <1>3, <1>4

-----------------------------------------------------------------------------
\* One sequence begins with the other.
Begins(t, s) == Len(s) <= Len(t) /\ \A i \in 1..Len(s) : t[i] = s[i]

\* What a match adds: from Len(s) on each byte is that v places before it.
Repeats(t, s, v) == \A i \in Len(s) + 1..Len(t) : t[i] = t[i - v]

\* The bytes a match stands for.
Repeated(s, v, n) == [i \in 1..n |-> s[Len(s) - v + 1 + ((i - 1) % v)]]

LEMMA RepeatedIs ==
  ASSUME NEW s \in Seq(Nat), NEW n \in Nat, NEW v \in Nat \ {0}, v <= Len(s)
  PROVE  /\ Repeated(s, v, n) \in Seq(Nat) /\ Len(Repeated(s, v, n)) = n
         /\ \A i \in 1..n : Repeated(s, v, n)[i] = s[Len(s) - v + 1 + ((i - 1) % v)]
<1>1. PICK m \in Nat : m = Len(s)
  OBVIOUS
<1>2. ASSUME NEW i \in 1..n PROVE s[m - v + 1 + ((i - 1) % v)] \in Nat
  <2>1. i - 1 \in Int
    OBVIOUS
  <2>2. (i - 1) % v \in 0..v - 1
    BY <2>1, RingFacts
  <2>3. m - v + 1 + ((i - 1) % v) \in 1..m
    BY <1>1, <2>2
  <2> QED
    BY <1>1, <2>3, ElementOfSeq
<1> DEFINE h == [i \in 1..n |-> s[m - v + 1 + ((i - 1) % v)]]
<1>3. h \in Seq(Nat) /\ Len(h) = n /\ \A i \in 1..n : h[i] = s[m - v + 1 + ((i - 1) % v)]
  <2>1. h \in [1..n -> Nat]
    BY <1>2
  <2>2. h \in Seq(Nat)
    BY <2>1
  <2> QED
    BY <2>2
<1>4. Repeated(s, v, n) = h
  BY <1>1 DEF Repeated
<1> HIDE DEF h
<1> QED
  BY <1>1, <1>3, <1>4

LEMMA MatchIs ==
  ASSUME NEW s \in Seq(Nat), NEW n \in Nat, NEW v \in Nat \ {0}, v <= Len(s),
         NEW t, t = s \o Repeated(s, v, n)
  PROVE  t \in Seq(Nat) /\ Len(t) = Len(s) + n /\ Begins(t, s) /\ Repeats(t, s, v)
<1>1. PICK m \in Nat : m = Len(s)
  OBVIOUS
<1>2. PICK q \in Seq(Nat) : /\ q = Repeated(s, v, n) /\ Len(q) = n
                            /\ \A i \in 1..n : q[i] = s[m - v + 1 + ((i - 1) % v)]
  BY <1>1, RepeatedIs
<1>3. /\ s \o q \in Seq(Nat) /\ Len(s \o q) = Len(s) + Len(q)
      /\ \A i \in 1..Len(s) : (s \o q)[i] = s[i]
      /\ \A i \in 1..Len(q) : (s \o q)[Len(s) + i] = q[i]
  BY ConcatIs
<1>4. /\ t \in Seq(Nat) /\ Len(t) = m + n /\ \A i \in 1..m : t[i] = s[i]
      /\ \A i \in 1..n : t[m + i] = q[i]
  BY <1>1, <1>2, <1>3
<1>5. ASSUME NEW i \in m + 1..m + n PROVE t[i] = t[i - v]
  <2>1. PICK j \in 1..n : i = m + j
    <3>1. i - m \in 1..n /\ i = m + (i - m)
      OBVIOUS
    <3> QED
      BY <3>1
  <2>2. t[i] = s[m - v + 1 + ((j - 1) % v)]
    BY <1>2, <1>4, <2>1
  <2>3. CASE j <= v
    <3>1. j - 1 \in 0..v - 1
      BY <2>3
    <3>2. (j - 1) % v = j - 1
      BY <3>1, RingFacts
    <3>3. i - v \in 1..m /\ m - v + 1 + (j - 1) = i - v
      BY <1>1, <2>1, <2>3
    <3> QED
      BY <1>4, <2>2, <3>2, <3>3
  <2>4. CASE j > v
    <3>1. j - v \in 1..n /\ i - v = m + (j - v)
      BY <2>1, <2>4
    <3>2. PICK l \in Int : l = j - v - 1 /\ l + v = j - 1
      OBVIOUS
    <3>3. (l + v) % v = l % v
      BY RingFacts
    <3>4. t[i - v] = q[j - v] /\ q[j - v] = s[m - v + 1 + ((j - v - 1) % v)]
      BY <1>2, <1>4, <3>1
    <3> QED
      BY <2>2, <3>2, <3>3, <3>4
  <2>5. j <= v \/ j > v
    <3>1. j \in Int /\ v \in Int
      OBVIOUS
    <3> QED
      BY <3>1
  <2> QED
    BY <2>3, <2>4, <2>5
<1>6. Begins(t, s)
  <2>1. Len(s) <= Len(t)
    BY <1>1, <1>4
  <2> QED
    BY <1>1, <1>4, <2>1 DEF Begins
<1>7. Repeats(t, s, v)
  BY <1>1, <1>4, <1>5 DEF Repeats
<1> QED
  BY <1>1, <1>4, <1>6, <1>7

-----------------------------------------------------------------------------
(***************************************************************************)
(* What compressed data stands for.                                        *)
(***************************************************************************)
Meaningful ==
  [at : {"block", "size", "raw", "tables", "symbol", "dist", "done", "wrong"},
   final : BOOLEAN, n : Nat, out : Seq(Nat)]

\* What is left of a stored block, or the length of a match, is never zero.
Proper(s) == s \in Meaningful /\ (s.at \in {"raw", "dist"} => s.n # 0)
OverOf(s) == IF s.final THEN "done" ELSE "block"

\* Each way to go on, named.
OnHeader(s, f, place) == [s EXCEPT !.final = f, !.at = place]
OnCount(s, n, place) == [s EXCEPT !.n = n, !.at = place]
OnByte(s, out, n, place) == [s EXCEPT !.out = out, !.n = n, !.at = place]
OnPlace(s, place) == [s EXCEPT !.at = place]
OnOut(s, out) == [s EXCEPT !.out = out]
OnMatch(s, out) == [s EXCEPT !.at = "symbol", !.out = out]

LEMMA AfterHeader ==
  ASSUME NEW s, Proper(s), s.at = "block", NEW u \in Units, NEW r, r = Meaning(s, u), r.at # "wrong"
  PROVE  /\ Proper(r) /\ u.kind \in {"stored", "fixed", "dynamic"}
         /\ r.at = (CASE u.kind = "stored" -> "size" [] u.kind = "fixed" -> "symbol" [] OTHER -> "tables")
         /\ r.final = (u.v = 1) /\ r.out = s.out
<1>1. s \in Meaningful
  BY DEF Proper
<1>2. CASE u.kind \in {"stored", "fixed", "dynamic"}
  <2>1. PICK f \in BOOLEAN : f = (u.v = 1)
    OBVIOUS
  <2>2. PICK place \in {"size", "symbol", "tables"} :
          place = (CASE u.kind = "stored" -> "size" [] u.kind = "fixed" -> "symbol" [] OTHER -> "tables")
    OBVIOUS
  <2>3. r = OnHeader(s, f, place)
    BY <1>2, <2>1, <2>2 DEF Meaning, OnHeader
  <2>4. /\ OnHeader(s, f, place) \in Meaningful /\ OnHeader(s, f, place).at = place
        /\ OnHeader(s, f, place).final = f /\ OnHeader(s, f, place).out = s.out
    BY <1>1 DEF OnHeader, Meaningful
  <2> QED
    BY <1>2, <2>1, <2>2, <2>3, <2>4 DEF Proper
<1>3. CASE u.kind \notin {"stored", "fixed", "dynamic"}
  <2>1. r = OnPlace(s, "wrong")
    BY <1>3 DEF Meaning, OnPlace
  <2> QED
    BY <1>1, <2>1 DEF OnPlace, Meaningful
<1> QED
  BY <1>2, <1>3

LEMMA AfterSize ==
  ASSUME NEW s, Proper(s), s.at = "size", NEW u \in Units, NEW r, r = Meaning(s, u), r.at # "wrong"
  PROVE  /\ Proper(r) /\ u.kind = "size" /\ r.n = u.v /\ r.final = s.final /\ r.out = s.out
         /\ r.at = (IF u.v = 0 THEN OverOf(s) ELSE "raw")
<1>1. s \in Meaningful /\ u.v \in Nat
  BY UnitIs DEF Proper
<1>2. CASE u.kind = "size"
  <2>1. PICK place \in {"done", "block", "raw"} : place = (IF u.v = 0 THEN OverOf(s) ELSE "raw")
    BY DEF OverOf
  <2>2. r = OnCount(s, u.v, place)
    BY <1>2, <2>1 DEF Meaning, OnCount, OverOf
  <2>3. /\ OnCount(s, u.v, place) \in Meaningful /\ OnCount(s, u.v, place).at = place
        /\ OnCount(s, u.v, place).n = u.v /\ OnCount(s, u.v, place).final = s.final
        /\ OnCount(s, u.v, place).out = s.out
    BY <1>1 DEF OnCount, Meaningful
  <2> QED
    BY <1>2, <2>1, <2>2, <2>3 DEF Proper, OverOf
<1>3. CASE u.kind # "size"
  <2>1. r = OnPlace(s, "wrong")
    BY <1>3 DEF Meaning, OnPlace
  <2> QED
    BY <1>1, <2>1 DEF OnPlace, Meaningful
<1> QED
  BY <1>2, <1>3

LEMMA AfterByte ==
  ASSUME NEW s, Proper(s), s.at = "raw", NEW u \in Units, NEW r, r = Meaning(s, u)
  PROVE  /\ Proper(r) /\ r.n = s.n - 1 /\ r.final = s.final /\ r.out = Append(s.out, u.v)
         /\ r.at = (IF s.n = 1 THEN OverOf(s) ELSE "raw")
<1>1. s \in Meaningful /\ u.v \in Nat /\ s.n # 0
  BY UnitIs DEF Proper
<1>2. s.n - 1 \in Nat /\ s.out \in Seq(Nat) /\ s.n \in Nat
  BY <1>1 DEF Meaningful
<1>3. PICK place \in {"done", "block", "raw"} : place = (IF s.n = 1 THEN OverOf(s) ELSE "raw")
  BY DEF OverOf
<1>4. Append(s.out, u.v) \in Seq(Nat)
  BY <1>1, <1>2, MoreIs
<1>5. r = OnByte(s, Append(s.out, u.v), s.n - 1, place)
  BY <1>3 DEF Meaning, OnByte, OverOf
<1>6. PICK out \in Seq(Nat), n \in Nat : out = Append(s.out, u.v) /\ n = s.n - 1
  BY <1>2, <1>4
<1>7. /\ OnByte(s, out, n, place) \in Meaningful /\ OnByte(s, out, n, place).at = place
      /\ OnByte(s, out, n, place).n = n /\ OnByte(s, out, n, place).final = s.final
      /\ OnByte(s, out, n, place).out = out
  BY <1>1 DEF OnByte, Meaningful
<1>8. s.n = 1 \/ s.n - 1 # 0
  BY <1>1, <1>2
<1> QED
  BY <1>3, <1>5, <1>6, <1>7, <1>8 DEF Proper, OverOf

LEMMA AfterTables ==
  ASSUME NEW s, Proper(s), s.at = "tables", NEW u \in Units, NEW r, r = Meaning(s, u), r.at # "wrong"
  PROVE  Proper(r) /\ u = Tables /\ r.at = "symbol" /\ r.final = s.final /\ r.out = s.out
<1>1. s \in Meaningful
  BY DEF Proper
<1>2. CASE u = Tables
  <2>1. r = OnPlace(s, "symbol")
    BY <1>2 DEF Meaning, OnPlace
  <2> QED
    BY <1>1, <1>2, <2>1 DEF Proper, OnPlace, Meaningful
<1>3. CASE u # Tables
  <2>1. r = OnPlace(s, "wrong")
    BY <1>3 DEF Meaning, OnPlace
  <2> QED
    BY <1>1, <2>1 DEF OnPlace, Meaningful
<1> QED
  BY <1>2, <1>3

LEMMA AfterSymbol ==
  ASSUME NEW s, Proper(s), s.at = "symbol", NEW u \in Units, NEW r, r = Meaning(s, u), r.at # "wrong"
  PROVE  /\ Proper(r) /\ u.kind \in {"lit", "end", "len"} /\ r.final = s.final
         /\ u.kind = "lit" => r.at = "symbol" /\ r.out = Append(s.out, u.v)
         /\ u.kind = "end" => r.at = OverOf(s) /\ r.out = s.out
         /\ u.kind = "len" => r.at = "dist" /\ r.n = u.v /\ r.out = s.out
<1>1. s \in Meaningful /\ u.v \in Nat /\ s.out \in Seq(Nat) /\ (u.kind = "len" => u.v # 0)
  BY UnitIs DEF Proper, Meaningful
<1>2. CASE u.kind = "lit"
  <2>1. Append(s.out, u.v) \in Seq(Nat)
    BY <1>1, MoreIs
  <2>2. r = OnOut(s, Append(s.out, u.v))
    BY <1>2 DEF Meaning, OnOut
  <2>3. PICK out \in Seq(Nat) : out = Append(s.out, u.v)
    BY <2>1
  <2>4. /\ OnOut(s, out) \in Meaningful /\ OnOut(s, out).at = s.at
        /\ OnOut(s, out).final = s.final /\ OnOut(s, out).out = out
    BY <1>1 DEF OnOut, Meaningful
  <2> QED
    BY <1>2, <2>2, <2>3, <2>4 DEF Proper
<1>3. CASE u.kind = "end"
  <2>1. PICK place \in {"done", "block"} : place = OverOf(s)
    BY DEF OverOf
  <2>2. r = OnPlace(s, place)
    BY <1>3, <2>1 DEF Meaning, OnPlace, OverOf
  <2>3. r \in Meaningful /\ r.at = place /\ r.final = s.final /\ r.out = s.out
    BY <1>1, <2>2 DEF OnPlace, Meaningful
  <2> QED
    BY <1>3, <2>1, <2>3 DEF Proper
<1>4. CASE u.kind = "len"
  <2>1. r = OnCount(s, u.v, "dist")
    BY <1>4 DEF Meaning, OnCount
  <2>2. /\ OnCount(s, u.v, "dist") \in Meaningful /\ OnCount(s, u.v, "dist").at = "dist"
        /\ OnCount(s, u.v, "dist").n = u.v /\ OnCount(s, u.v, "dist").final = s.final
        /\ OnCount(s, u.v, "dist").out = s.out
    BY <1>1 DEF OnCount, Meaningful
  <2> QED
    BY <1>1, <1>4, <2>1, <2>2 DEF Proper
<1>5. CASE u.kind \notin {"lit", "end", "len"}
  <2>1. r = OnPlace(s, "wrong")
    BY <1>5 DEF Meaning, OnPlace
  <2> QED
    BY <1>1, <2>1 DEF OnPlace, Meaningful
<1> QED
  BY <1>2, <1>3, <1>4, <1>5

LEMMA AfterDistance ==
  ASSUME NEW s, Proper(s), s.at = "dist", NEW u \in Units, NEW r, r = Meaning(s, u), r.at # "wrong"
  PROVE  /\ Proper(r) /\ u.v \in 1..DictSize /\ u.v <= Len(s.out) /\ r.at = "symbol" /\ r.final = s.final
         /\ Len(r.out) = Len(s.out) + s.n /\ Begins(r.out, s.out) /\ Repeats(r.out, s.out, u.v)
<1>1. s \in Meaningful /\ u.v \in Nat /\ s.out \in Seq(Nat) /\ s.n \in Nat
  BY UnitIs DEF Proper, Meaningful
<1>2. CASE u.kind = "dist" /\ u.v \in 1..DictSize /\ u.v <= Len(s.out)
  <2>1. PICK out : out = s.out \o Repeated(s.out, u.v, s.n)
    OBVIOUS
  <2>2. r = OnMatch(s, out)
    BY <1>2, <2>1 DEF Meaning, OnMatch, Repeated
  <2>3. u.v \in Nat \ {0}
    BY <1>2
  <2>4. /\ out \in Seq(Nat) /\ Len(out) = Len(s.out) + s.n /\ Begins(out, s.out)
        /\ Repeats(out, s.out, u.v)
    BY <1>1, <1>2, <2>1, <2>3, MatchIs
  <2>5. /\ OnMatch(s, out) \in Meaningful /\ OnMatch(s, out).at = "symbol"
        /\ OnMatch(s, out).final = s.final /\ OnMatch(s, out).out = out
    BY <1>1, <2>4 DEF OnMatch, Meaningful
  <2> QED
    BY <1>2, <2>2, <2>4, <2>5 DEF Proper
<1>3. CASE ~(u.kind = "dist" /\ u.v \in 1..DictSize /\ u.v <= Len(s.out))
  <2>1. r = OnPlace(s, "wrong")
    BY <1>3 DEF Meaning, OnPlace
  <2> QED
    BY <1>1, <2>1 DEF OnPlace, Meaningful
<1> QED
  BY <1>2, <1>3

\* Nothing comes after the end, or after an error.
LEMMA AfterEnd ==
  ASSUME NEW s, Proper(s), s.at \in {"done", "wrong"}, NEW u \in Units
  PROVE  Meaning(s, u).at = "wrong" /\ Proper(Meaning(s, u))
<1>1. s \in Meaningful
  BY DEF Proper
<1>2. Meaning(s, u) = OnPlace(s, "wrong")
  BY DEF Meaning, OnPlace
<1> QED
  BY <1>1, <1>2 DEF Proper, OnPlace, Meaningful

LEMMA BeginsOn ==
  ASSUME NEW a \in Seq(Nat), NEW b \in Seq(Nat), NEW c \in Seq(Nat), Begins(a, b), Begins(b, c)
  PROVE  Begins(a, c)
<1>1. Len(a) \in Nat /\ Len(b) \in Nat /\ Len(c) \in Nat
  OBVIOUS
<1> QED
  BY <1>1 DEF Begins

LEMMA BeginsMore ==
  ASSUME NEW a \in Seq(Nat), NEW x \in Nat
  PROVE  Begins(Append(a, x), a) /\ Begins(a, a)
<1>1. Len(a) \in Nat
  OBVIOUS
<1>2. Len(Append(a, x)) = Len(a) + 1 /\ \A i \in 1..Len(a) : Append(a, x)[i] = a[i]
  BY MoreIs
<1> QED
  BY <1>1, <1>2 DEF Begins

\* A unit that is in its place leaves the output so far alone.
LEMMA OutputGrows ==
  ASSUME NEW s, Proper(s), NEW u \in Units, NEW r, r = Meaning(s, u), r.at # "wrong"
  PROVE  Proper(r) /\ Begins(r.out, s.out) /\ s.at \notin {"done", "wrong"}
<1>1. s \in Meaningful
  BY DEF Proper
<1>2. s.out \in Seq(Nat) /\ s.at \in {"block", "size", "raw", "tables", "symbol", "dist", "done", "wrong"}
  BY <1>1 DEF Meaningful
<1>3. u.v \in Nat
  BY UnitIs
<1>4. Begins(Append(s.out, u.v), s.out) /\ Begins(s.out, s.out)
  BY <1>2, <1>3, BeginsMore
<1>5. s.at \notin {"done", "wrong"}
  BY AfterEnd
<1>6. CASE s.at = "block"
  BY <1>4, <1>6, AfterHeader
<1>7. CASE s.at = "size"
  BY <1>4, <1>7, AfterSize
<1>8. CASE s.at = "raw"
  BY <1>4, <1>8, AfterByte
<1>9. CASE s.at = "tables"
  BY <1>4, <1>9, AfterTables
<1>10. CASE s.at = "symbol"
  <2>1. Proper(r) /\ (r.out = Append(s.out, u.v) \/ r.out = s.out)
    BY <1>10, AfterSymbol
  <2> QED
    BY <1>4, <1>5, <2>1
<1>11. CASE s.at = "dist"
  BY <1>11, AfterDistance
<1> QED
  BY <1>2, <1>5, <1>6, <1>7, <1>8, <1>9, <1>10, <1>11

-----------------------------------------------------------------------------
\* The beginnings of the data.
Start == [at |-> "block", final |-> FALSE, n |-> 0, out |-> <<>>]
Trace(data, n, f) == f = [k \in 0..n |-> IF k = 0 THEN Start ELSE Meaning(f[k - 1], data[k])]

LEMMA TraceExists ==
  ASSUME NEW data, NEW n \in Nat
  PROVE  \E f : Trace(data, n, f)
<1> DEFINE S == {i \in Nat : \E f : Trace(data, i, f)}
<1>1. 0 \in S
  <2> DEFINE f == [i \in 0..0 |-> Start]
  <2>1. Trace(data, 0, f)
    BY DEF Trace
  <2> QED
    BY <2>1
<1>2. ASSUME NEW m \in S PROVE m + 1 \in S
  <2>1. PICK f : Trace(data, m, f)
    OBVIOUS
  <2> DEFINE g == [i \in 0..(m + 1) |-> IF i = m + 1 THEN Meaning(f[m], data[m + 1]) ELSE f[i]]
  <2>2. \A i \in 0..m : f[i] = IF i = 0 THEN Start ELSE Meaning(f[i - 1], data[i])
    BY <2>1 DEF Trace
  <2>3. \A i \in 0..(m + 1) : g[i] = IF i = 0 THEN Start ELSE Meaning(g[i - 1], data[i])
    BY <2>2
  <2>4. Trace(data, m + 1, g)
    BY <2>3 DEF Trace
  <2> HIDE DEF g
  <2>5. \E h : Trace(data, m + 1, h)
    BY <2>4
  <2>6. m + 1 \in Nat
    OBVIOUS
  <2> QED
    BY <2>5, <2>6
<1>3. S = Nat
  <2>1. S \in SUBSET Nat
    OBVIOUS
  <2> HIDE DEF S
  <2> QED
    BY <1>1, <1>2, <2>1, SetInduction
<1> QED
  BY <1>3

LEMMA MeaningsAre ==
  ASSUME NEW data, NEW n \in Nat, n = Len(data)
  PROVE  /\ Meanings(data)[0] = Start
         /\ \A k \in 1..n : Meanings(data)[k] = Meaning(Meanings(data)[k - 1], data[k])
<1>1. PICK f : f = CHOOSE g : Trace(data, n, g)
  OBVIOUS
<1>2. Trace(data, n, f)
  BY <1>1, TraceExists
<1>3. Meanings(data) = f
  BY <1>1 DEF Meanings, Trace, Start
<1>4. f[0] = Start /\ \A k \in 1..n : f[k] = Meaning(f[k - 1], data[k])
  BY <1>2 DEF Trace
<1> QED
  BY <1>3, <1>4

\* Data in which an error was met has no meaning to its end.
LEMMA WrongStays ==
  ASSUME NEW s, "at" \in DOMAIN s, NEW u
  PROVE  "at" \in DOMAIN Meaning(s, u) /\ (s.at = "wrong" => Meaning(s, u).at = "wrong")
BY DEF Meaning

\* Counting down to a place.
LEMMA DownTo ==
  ASSUME NEW n \in Nat, NEW S, n \in S, \A k \in 0..n - 1 : k + 1 \in S => k \in S
  PROVE  \A k \in 0..n : k \in S
<1> DEFINE T == {i \in Nat : i <= n => n - i \in S}
<1>1. 0 \in T
  OBVIOUS
<1>2. ASSUME NEW i \in T PROVE i + 1 \in T
  <2> SUFFICES ASSUME i + 1 <= n PROVE n - (i + 1) \in S
    OBVIOUS
  <2>1. PICK k \in 0..n - 1 : k = n - (i + 1) /\ k + 1 = n - i /\ i <= n
    OBVIOUS
  <2> QED
    BY <2>1
<1>3. T = Nat
  <2>1. T \in SUBSET Nat
    OBVIOUS
  <2> HIDE DEF T
  <2> QED
    BY <1>1, <1>2, <2>1, SetInduction
<1>4. ASSUME NEW k \in 0..n PROVE k \in S
  <2>1. PICK i \in Nat : i = n - k /\ n - i = k /\ i <= n
    OBVIOUS
  <2>2. i \in T
    BY <1>3
  <2> QED
    BY <2>1, <2>2
<1> QED
  BY <1>4

LEMMA UpTo ==
  ASSUME NEW n \in Nat, NEW S, 0 \in S, \A k \in 0..n - 1 : k \in S => k + 1 \in S
  PROVE  \A k \in 0..n : k \in S
<1> DEFINE T == {i \in Nat : i <= n => i \in S}
<1>1. 0 \in T
  OBVIOUS
<1>2. ASSUME NEW i \in T PROVE i + 1 \in T
  <2> SUFFICES ASSUME i + 1 <= n PROVE i + 1 \in S
    OBVIOUS
  <2>1. i \in 0..n - 1 /\ i <= n
    OBVIOUS
  <2> QED
    BY <2>1
<1>3. T = Nat
  <2>1. T \in SUBSET Nat
    OBVIOUS
  <2> HIDE DEF T
  <2> QED
    BY <1>1, <1>2, <2>1, SetInduction
<1> QED
  BY <1>3

\* What the beginnings of data that has a meaning stand for.
LEMMA TraceIs ==
  ASSUME NEW data \in Seq(Units), NEW n \in Nat, n = Len(data), NEW f,
         f[0] = Start, \A k \in 1..n : f[k] = Meaning(f[k - 1], data[k]),
         f[n].at = "done"
  PROVE  \A k \in 0..n : /\ Proper(f[k]) /\ f[k].at # "wrong" /\ (f[k].at = "done" <=> k = n)
                         /\ Begins(f[n].out, f[k].out)
<1>1. ASSUME NEW k \in 0..n - 1 PROVE f[k + 1] = Meaning(f[k], data[k + 1]) /\ data[k + 1] \in Units
  <2>1. k + 1 \in 1..n /\ k + 1 - 1 = k
    OBVIOUS
  <2> QED
    BY <2>1, ElementOfSeq
<1>2. \A k \in 0..n : "at" \in DOMAIN f[k]
  <2> DEFINE S == {k \in 0..n : "at" \in DOMAIN f[k]}
  <2>1. 0 \in S
    BY DEF Start
  <2>2. ASSUME NEW k \in 0..n - 1, k \in S PROVE k + 1 \in S
    <3>1. k + 1 \in 0..n
      OBVIOUS
    <3>2. "at" \in DOMAIN Meaning(f[k], data[k + 1])
      BY <2>2, WrongStays
    <3> QED
      BY <1>1, <3>1, <3>2
  <2> HIDE DEF S
  <2>3. \A k \in 0..n : k \in S
    BY <2>1, <2>2, UpTo
  <2> QED
    BY <2>3 DEF S
<1>3. \A k \in 0..n : f[k].at # "wrong"
  <2> DEFINE S == {k \in 0..n : f[k].at # "wrong"}
  <2>1. n \in S
    OBVIOUS
  <2>2. ASSUME NEW k \in 0..n - 1, k + 1 \in S PROVE k \in S
    <3>1. k \in 0..n
      OBVIOUS
    <3>2. f[k].at = "wrong" => Meaning(f[k], data[k + 1]).at = "wrong"
      BY <1>2, <3>1, WrongStays
    <3> QED
      BY <1>1, <2>2, <3>1, <3>2
  <2> HIDE DEF S
  <2>3. \A k \in 0..n : k \in S
    BY <2>1, <2>2, DownTo
  <2> QED
    BY <2>3 DEF S
<1>4. ASSUME NEW k \in 0..n - 1, Proper(f[k])
      PROVE  Proper(f[k + 1]) /\ Begins(f[k + 1].out, f[k].out) /\ f[k].at # "done"
  <2>1. k + 1 \in 0..n
    OBVIOUS
  <2>2. f[k + 1].at # "wrong"
    BY <1>3, <2>1
  <2> QED
    BY <1>1, <1>4, <2>2, OutputGrows
<1>5. \A k \in 0..n : Proper(f[k])
  <2> DEFINE S == {k \in 0..n : Proper(f[k])}
  <2>1. 0 \in S
    <3>1. Proper(Start)
      BY DEF Proper, Start, Meaningful
    <3> QED
      BY <3>1
  <2>2. ASSUME NEW k \in 0..n - 1, k \in S PROVE k + 1 \in S
    <3>1. k + 1 \in 0..n
      OBVIOUS
    <3> QED
      BY <1>4, <2>2, <3>1
  <2> HIDE DEF S
  <2>3. \A k \in 0..n : k \in S
    BY <2>1, <2>2, UpTo
  <2> QED
    BY <2>3 DEF S
<1>6. \A k \in 0..n : f[k].out \in Seq(Nat)
  BY <1>5 DEF Proper, Meaningful
<1>7. \A k \in 0..n : Begins(f[n].out, f[k].out)
  <2> DEFINE S == {k \in 0..n : Begins(f[n].out, f[k].out)}
  <2>1. n \in S
    BY <1>6, BeginsMore
  <2>2. ASSUME NEW k \in 0..n - 1, k + 1 \in S PROVE k \in S
    <3>1. k \in 0..n /\ k + 1 \in 0..n /\ n \in 0..n
      OBVIOUS
    <3>2. Begins(f[k + 1].out, f[k].out)
      BY <1>4, <1>5, <3>1
    <3>3. Begins(f[n].out, f[k + 1].out)
      BY <2>2
    <3>4. f[n].out \in Seq(Nat) /\ f[k + 1].out \in Seq(Nat) /\ f[k].out \in Seq(Nat)
      BY <1>6, <3>1
    <3>5. Begins(f[n].out, f[k].out)
      BY <3>2, <3>3, <3>4, BeginsOn
    <3> QED
      BY <3>1, <3>5
  <2> HIDE DEF S
  <2>3. \A k \in 0..n : k \in S
    BY <2>1, <2>2, DownTo
  <2> QED
    BY <2>3 DEF S
<1>8. ASSUME NEW k \in 0..n PROVE f[k].at = "done" <=> k = n
  <2>1. k = n \/ k \in 0..n - 1
    OBVIOUS
  <2> QED
    BY <1>4, <1>5, <2>1
<1> QED
  BY <1>3, <1>5, <1>7, <1>8

-----------------------------------------------------------------------------
(***************************************************************************)
(* The input.  What was read ahead, what was passed to tinfl and what is   *)
(* in the file are one piece of the data after the other.                  *)
(***************************************************************************)
Piece(data, o, s) == o + Len(s) <= Len(data) /\ \A i \in 1..Len(s) : s[i] = data[o + i]

Remains(data, in, k) ==
  /\ Piece(data, k, in.bits)
  /\ Piece(data, k + Len(in.bits), in.given)
  /\ Piece(data, k + Len(in.bits) + Len(in.given), in.rest)
  /\ k + Len(in.bits) + Len(in.given) + Len(in.rest) = Len(data)

LEMMA PieceCut ==
  ASSUME NEW data \in Seq(Units), NEW o \in Nat, NEW s \in Seq(Units), Piece(data, o, s),
         NEW n \in Nat, n <= Len(s)
  PROVE  Piece(data, o, SubSeq(s, 1, n)) /\ Piece(data, o + n, SubSeq(s, n + 1, Len(s)))
<1>1. PICK m \in Nat : m = Len(s)
  OBVIOUS
<1>2. Len(data) \in Nat
  OBVIOUS
<1>a. PICK a, b : a = SubSeq(s, 1, n) /\ b = SubSeq(s, n + 1, Len(s))
  OBVIOUS
<1>b. /\ SubSeq(s, 1, n) \in Seq(Units) /\ Len(SubSeq(s, 1, n)) = n
      /\ \A i \in 1..n : SubSeq(s, 1, n)[i] = s[i]
      /\ SubSeq(s, n + 1, Len(s)) \in Seq(Units) /\ Len(SubSeq(s, n + 1, Len(s))) = Len(s) - n
      /\ \A i \in 1..Len(s) - n : SubSeq(s, n + 1, Len(s))[i] = s[n + i]
  BY PieceIs
<1>3. a \in Seq(Units) /\ a = SubSeq(s, 1, n) /\ Len(a) = n /\ \A i \in 1..n : a[i] = s[i]
  BY <1>a, <1>b
<1>4. /\ b \in Seq(Units) /\ b = SubSeq(s, n + 1, Len(s)) /\ Len(b) = m - n
      /\ \A i \in 1..m - n : b[i] = s[n + i]
  BY <1>1, <1>a, <1>b
<1>5. o + m <= Len(data) /\ \A i \in 1..m : s[i] = data[o + i]
  BY <1>1 DEF Piece
<1>6. Piece(data, o, a)
  BY <1>1, <1>2, <1>3, <1>5 DEF Piece
<1>7. ASSUME NEW i \in 1..m - n PROVE b[i] = data[o + n + i]
  <2>1. n + i \in 1..m /\ o + (n + i) = o + n + i
    BY <1>1
  <2>2. b[i] = s[n + i]
    BY <1>4
  <2> QED
    BY <1>5, <2>1, <2>2
<1>8. Piece(data, o + n, b)
  <2>1. o + n + (m - n) <= Len(data)
    BY <1>1, <1>2, <1>5
  <2> QED
    BY <1>4, <1>7, <2>1 DEF Piece
<1> QED
  BY <1>3, <1>4, <1>6, <1>8

LEMMA PieceTail ==
  ASSUME NEW data \in Seq(Units), NEW o \in Nat, NEW s \in Seq(Units), Piece(data, o, s), s # <<>>
  PROVE  s[1] = data[o + 1] /\ o + 1 \in 1..Len(data) /\ Piece(data, o + 1, Tail(s))
<1>1. /\ Tail(s) \in Seq(Units) /\ Len(Tail(s)) = Len(s) - 1 /\ Len(s) > 0
      /\ \A i \in 1..Len(s) - 1 : Tail(s)[i] = s[i + 1]
  BY TailIs
<1>2. PICK m \in Nat : m = Len(s)
  OBVIOUS
<1>3. Len(data) \in Nat
  OBVIOUS
<1>4. o + m <= Len(data) /\ \A i \in 1..m : s[i] = data[o + i]
  BY <1>2 DEF Piece
<1>5. 1 \in 1..m
  BY <1>1, <1>2
<1>6. ASSUME NEW i \in 1..m - 1 PROVE Tail(s)[i] = data[o + 1 + i]
  <2>1. i + 1 \in 1..m /\ o + (i + 1) = o + 1 + i
    BY <1>2
  <2> QED
    BY <1>1, <1>2, <1>4, <2>1
<1>7. o + 1 + (m - 1) <= Len(data) /\ o + 1 \in 1..Len(data)
  BY <1>3, <1>4, <1>5
<1>8. Piece(data, o + 1, Tail(s))
  BY <1>1, <1>2, <1>6, <1>7 DEF Piece
<1> QED
  BY <1>4, <1>5, <1>7, <1>8

LEMMA PieceJoin ==
  ASSUME NEW data \in Seq(Units), NEW o \in Nat, NEW s \in Seq(Units), NEW t \in Seq(Units),
         Piece(data, o, s), Piece(data, o + Len(s), t)
  PROVE  Piece(data, o, s \o t)
<1>1. PICK m \in Nat, n \in Nat : m = Len(s) /\ n = Len(t)
  OBVIOUS
<1>2. Len(data) \in Nat
  OBVIOUS
<1>a. /\ s \o t \in Seq(Units) /\ Len(s \o t) = Len(s) + Len(t)
      /\ \A i \in 1..Len(s) : (s \o t)[i] = s[i]
      /\ \A i \in 1..Len(t) : (s \o t)[Len(s) + i] = t[i]
  BY ConcatIs
<1>b. PICK j : j = s \o t
  OBVIOUS
<1>3. /\ j = s \o t /\ Len(j) = m + n /\ \A i \in 1..m : j[i] = s[i]
      /\ \A i \in 1..n : j[m + i] = t[i]
  BY <1>1, <1>a, <1>b
<1>4. /\ \A i \in 1..m : s[i] = data[o + i]
      /\ o + m + n <= Len(data) /\ \A i \in 1..n : t[i] = data[o + m + i]
  BY <1>1 DEF Piece
<1>5. ASSUME NEW i \in 1..m + n PROVE j[i] = data[o + i]
  <2>1. CASE i <= m
    <3>1. i \in 1..m
      BY <2>1
    <3> QED
      BY <1>3, <1>4, <3>1
  <2>2. CASE i > m
    <3>1. i - m \in 1..n /\ m + (i - m) = i /\ o + m + (i - m) = o + i
      BY <2>2
    <3> QED
      BY <1>3, <1>4, <3>1
  <2>3. i <= m \/ i > m
    OBVIOUS
  <2> QED
    BY <2>1, <2>2, <2>3
<1>6. o + (m + n) <= Len(data)
  BY <1>2, <1>4
<1> QED
  BY <1>3, <1>5, <1>6 DEF Piece

\* The lengths of the pieces.
LEMMA RemainsIs ==
  ASSUME NEW data \in Seq(Units), NEW in \in Inputs, NEW k \in Nat, Remains(data, in, k)
  PROVE  /\ in.rest \in Seq(Units) /\ in.given \in Seq(Units) /\ in.bits \in Seq(Units)
         /\ Len(in.rest) \in Nat /\ Len(in.given) \in Nat /\ Len(in.bits) \in Nat /\ Len(data) \in Nat
         /\ in.bits = <<>> => Len(in.bits) = 0
         /\ in.given = <<>> => Len(in.given) = 0
         /\ in.bits = <<>> /\ in.given = <<>> /\ in.rest = <<>> => k = Len(data)
<1>1. in.rest \in Seq(Units) /\ in.given \in Seq(Units) /\ in.bits \in Seq(Units)
  BY InputIs
<1>2. ASSUME NEW x \in Seq(Units) PROVE Len(x) \in Nat /\ (x = <<>> => Len(x) = 0)
  OBVIOUS
<1>3. /\ Len(in.rest) \in Nat /\ Len(in.given) \in Nat /\ Len(in.bits) \in Nat /\ Len(data) \in Nat
      /\ in.bits = <<>> => Len(in.bits) = 0
      /\ in.given = <<>> => Len(in.given) = 0
      /\ in.rest = <<>> => Len(in.rest) = 0
  BY <1>1, <1>2
<1>4. k + Len(in.bits) + Len(in.given) + Len(in.rest) = Len(data)
  BY DEF Remains
<1>5. in.bits = <<>> /\ in.given = <<>> /\ in.rest = <<>> => k = Len(data)
  BY <1>3, <1>4
<1> QED
  BY <1>1, <1>3, <1>5

LEMMA RemainsFed ==
  ASSUME NEW data \in Seq(Units), NEW k \in Nat,
         NEW r \in Seq(Units), NEW g \in Seq(Units), NEW b \in Seq(Units),
         Piece(data, k, b), Piece(data, k + Len(b), g), Piece(data, k + Len(b) + Len(g), r),
         k + Len(b) + Len(g) + Len(r) = Len(data)
  PROVE  Remains(data, Fed(r, g, b), k)
<1>1. Fed(r, g, b).rest = r /\ Fed(r, g, b).given = g /\ Fed(r, g, b).bits = b
  BY FedIs
<1> QED
  BY <1>1 DEF Remains

\* One unit is read.
Next1(in) == IF in.bits # <<>> THEN in.bits[1] ELSE in.given[1]

LEMMA ReadsOne ==
  ASSUME NEW data \in Seq(Units), NEW in \in Inputs, NEW k \in Nat, Remains(data, in, k),
         in.bits # <<>> \/ in.given # <<>>
  PROVE  /\ k + 1 \in 1..Len(data) /\ Next1(in) = data[k + 1]
         /\ Remains(data, After(in), k + 1)
<1>1. /\ in.rest \in Seq(Units) /\ in.given \in Seq(Units) /\ in.bits \in Seq(Units)
      /\ Len(in.rest) \in Nat /\ Len(in.given) \in Nat /\ Len(in.bits) \in Nat /\ Len(data) \in Nat
  BY RemainsIs
<1>2. /\ Piece(data, k, in.bits) /\ Piece(data, k + Len(in.bits), in.given)
      /\ Piece(data, k + Len(in.bits) + Len(in.given), in.rest)
      /\ k + Len(in.bits) + Len(in.given) + Len(in.rest) = Len(data)
  BY DEF Remains
<1>a. PICK r \in Seq(Units), g \in Seq(Units), b \in Seq(Units) :
        r = in.rest /\ g = in.given /\ b = in.bits
  BY <1>1
<1>b. PICK lr \in Nat, lg \in Nat, lb \in Nat : lr = Len(r) /\ lg = Len(g) /\ lb = Len(b)
  OBVIOUS
<1>c. /\ Piece(data, k, b) /\ Piece(data, k + lb, g)
      /\ Piece(data, k + lb + lg, r) /\ k + lb + lg + lr = Len(data)
  BY <1>2, <1>a, <1>b
<1>3. CASE in.bits # <<>>
  <2>1. Tail(b) \in Seq(Units) /\ Len(Tail(b)) = lb - 1
    BY <1>3, <1>a, <1>b, TailIs
  <2>2. b[1] = data[k + 1] /\ k + 1 \in 1..Len(data) /\ Piece(data, k + 1, Tail(b))
    BY <1>3, <1>a, <1>c, PieceTail
  <2>a. k + 1 + (lb - 1) = k + lb
    OBVIOUS
  <2>3. k + 1 + Len(Tail(b)) = k + lb
    BY <2>1, <2>a
  <2>b. k + 1 \in Nat
    OBVIOUS
  <2>4. Remains(data, Fed(r, g, Tail(b)), k + 1)
    BY <1>b, <1>c, <2>1, <2>2, <2>3, <2>b, RemainsFed
  <2>5. After(in) = Fed(r, g, Tail(b))
    BY <1>3, <1>a, InputBut DEF After
  <2> QED
    BY <1>3, <1>a, <2>2, <2>4, <2>5 DEF Next1
<1>4. CASE in.bits = <<>> /\ in.given # <<>>
  <2>1. lb = 0 /\ k + lb = k /\ k + lb + lg = k + lg
    BY <1>4, <1>a, <1>b
  <2>2. Tail(g) \in Seq(Units) /\ Len(Tail(g)) = lg - 1
    BY <1>4, <1>a, <1>b, TailIs
  <2>3. Piece(data, k, g)
    BY <1>c, <2>1
  <2>4. g[1] = data[k + 1] /\ k + 1 \in 1..Len(data) /\ Piece(data, k + 1, Tail(g))
    BY <1>4, <1>a, <2>3, PieceTail
  <2>5. k + 1 \in Nat /\ k + 1 + lb = k + 1 /\ k + 1 + (lg - 1) = k + lb + lg
    BY <2>1
  <2>6. k + 1 + Len(b) = k + 1 /\ k + 1 + Len(b) + Len(Tail(g)) = k + lb + lg
    BY <1>b, <2>2, <2>5
  <2>7. Piece(data, k + 1, b)
    <3>1. k + 1 <= Len(data) /\ Len(b) = 0
      BY <1>b, <2>1, <2>4
    <3> QED
      BY <2>6, <3>1 DEF Piece
  <2>8. Remains(data, Fed(r, Tail(g), b), k + 1)
    BY <1>b, <1>c, <2>2, <2>4, <2>5, <2>6, <2>7, RemainsFed
  <2>9. After(in) = Fed(r, Tail(g), b)
    BY <1>4, <1>a, InputBut DEF After
  <2> QED
    BY <1>4, <1>a, <2>4, <2>8, <2>9 DEF Next1
<1> QED
  BY <1>3, <1>4

\* Units move from what was given to what was read ahead.
LEMMA RemainsAhead ==
  ASSUME NEW data \in Seq(Units), NEW in \in Inputs, NEW k \in Nat, Remains(data, in, k),
         NEW n \in Nat, n <= Len(in.given),
         NEW p \in Seq(Units), p = SubSeq(in.given, 1, n),
         NEW q \in Seq(Units), q = SubSeq(in.given, n + 1, Len(in.given))
  PROVE  Remains(data, Fed(in.rest, q, in.bits \o p), k)
<1>1. PICK r \in Seq(Units), g \in Seq(Units), b \in Seq(Units) :
        r = in.rest /\ g = in.given /\ b = in.bits
  BY RemainsIs
<1>2. PICK lr \in Nat, lg \in Nat, lb \in Nat : lr = Len(r) /\ lg = Len(g) /\ lb = Len(b)
  OBVIOUS
<1>3. /\ Piece(data, k, b) /\ Piece(data, k + lb, g)
      /\ Piece(data, k + lb + lg, r) /\ k + lb + lg + lr = Len(data)
  BY <1>1, <1>2 DEF Remains
<1>4. Len(p) = n /\ Len(q) = lg - n
  BY <1>1, <1>2, PieceIs
<1>5. Piece(data, k + lb, p) /\ Piece(data, k + lb + n, q)
  <2>1. k + lb \in Nat
    OBVIOUS
  <2> QED
    BY <1>1, <1>2, <1>3, <2>1, PieceCut
<1>6. b \o p \in Seq(Units) /\ Len(b \o p) = Len(b) + Len(p)
  BY ConcatIs
<1>7. Piece(data, k, b \o p)
  BY <1>2, <1>3, <1>5, PieceJoin
<1>8. k + Len(b \o p) = k + lb + n /\ k + Len(b \o p) + Len(q) = k + lb + lg
  <2>1. k + (lb + n) = k + lb + n /\ k + (lb + n) + (lg - n) = k + lb + lg
    OBVIOUS
  <2> QED
    BY <1>2, <1>4, <1>6, <2>1
<1>9. Remains(data, Fed(r, q, b \o p), k)
  BY <1>2, <1>3, <1>5, <1>6, <1>7, <1>8, RemainsFed
<1> QED
  BY <1>1, <1>9

\* Units that were given are used up.
LEMMA RemainsUsed ==
  ASSUME NEW data \in Seq(Units), NEW in \in Inputs, NEW k \in Nat, Remains(data, in, k),
         in.bits = <<>>, NEW n \in Nat, n <= Len(in.given),
         NEW q \in Seq(Units), q = SubSeq(in.given, n + 1, Len(in.given))
  PROVE  /\ Remains(data, Fed(in.rest, q, in.bits), k + n) /\ k + n <= Len(data)
         /\ \A i \in 1..n : in.given[i] = data[k + i]
<1>1. PICK r \in Seq(Units), g \in Seq(Units), b \in Seq(Units) :
        r = in.rest /\ g = in.given /\ b = in.bits
  BY RemainsIs
<1>2. PICK lr \in Nat, lg \in Nat, ld \in Nat : lr = Len(r) /\ lg = Len(g) /\ ld = Len(data)
  OBVIOUS
<1>3. Len(b) = 0
  BY <1>1
<1>4. Piece(data, k, g) /\ Piece(data, k + lg, r) /\ k + lg + lr = ld
  <2>1. /\ Piece(data, k + 0, g) /\ Piece(data, k + 0 + lg, r) /\ k + 0 + lg + lr = ld
    BY <1>1, <1>2, <1>3 DEF Remains
  <2>2. k + 0 = k
    OBVIOUS
  <2> QED
    BY <2>1, <2>2
<1>5. Len(q) = lg - n
  BY <1>1, <1>2, PieceIs
<1>6. Piece(data, k + n, q)
  BY <1>1, <1>2, <1>4, PieceCut
<1>7. n <= lg
  BY <1>1, <1>2
<1>8. k + n + 0 = k + n /\ k + n + 0 + (lg - n) = k + lg /\ k + n <= ld /\ k + n \in Nat
  BY <1>4, <1>7
<1>9. Piece(data, k + n, b)
  BY <1>2, <1>3, <1>8 DEF Piece
<1>10. Remains(data, Fed(r, q, b), k + n)
  <2>1. k + n + Len(b) = k + n /\ k + n + Len(b) + Len(q) = k + lg
    BY <1>3, <1>5, <1>8
  <2> QED
    BY <1>2, <1>4, <1>6, <1>8, <1>9, <2>1, RemainsFed
<1>11. \A i \in 1..n : g[i] = data[k + i]
  BY <1>2, <1>4, <1>7 DEF Piece
<1> QED
  BY <1>1, <1>2, <1>8, <1>10, <1>11

\* The next part of the file is given.
LEMMA RemainsGiven ==
  ASSUME NEW data \in Seq(Units), NEW in \in Inputs, NEW k \in Nat, Remains(data, in, k),
         in.given = <<>>, NEW n \in Nat, n <= Len(in.rest),
         NEW p \in Seq(Units), p = SubSeq(in.rest, 1, n),
         NEW q \in Seq(Units), q = SubSeq(in.rest, n + 1, Len(in.rest))
  PROVE  Remains(data, Fed(q, p, in.bits), k)
<1>1. PICK r \in Seq(Units), b \in Seq(Units) : r = in.rest /\ b = in.bits
  BY RemainsIs
<1>2. PICK lr \in Nat, lb \in Nat : lr = Len(r) /\ lb = Len(b)
  OBVIOUS
<1>3. /\ Piece(data, k, b) /\ Piece(data, k + lb, r) /\ k + lb + lr = Len(data)
  <2>1. Len(in.given) = 0
    BY RemainsIs
  <2>2. /\ Piece(data, k, b) /\ Piece(data, k + lb + 0, r) /\ k + lb + 0 + lr = Len(data)
    BY <1>1, <1>2, <2>1 DEF Remains
  <2>3. k + lb + 0 = k + lb
    OBVIOUS
  <2> QED
    BY <2>2, <2>3
<1>4. Len(p) = n /\ Len(q) = lr - n
  BY <1>1, <1>2, PieceIs
<1>5. Piece(data, k + lb, p) /\ Piece(data, k + lb + n, q)
  <2>1. k + lb \in Nat
    OBVIOUS
  <2> QED
    BY <1>1, <1>2, <1>3, <2>1, PieceCut
<1>6. k + lb + n + (lr - n) = Len(data)
  BY <1>3
<1>7. Remains(data, Fed(q, p, b), k)
  BY <1>2, <1>3, <1>4, <1>5, <1>6, RemainsFed
<1> QED
  BY <1>1, <1>7

-----------------------------------------------------------------------------
(***************************************************************************)
(* The invariant.  The steps so far have done what k units stand for, and  *)
(* base bytes were written before this turn of the ring.                   *)
(***************************************************************************)
DataEnd == Len(entry.data)
State(k) == Meanings(entry.data)[k]

\* The last bytes of the first n are in the buffer.
Window(buf, n) ==
  /\ DOMAIN buf = 0..OutEnd - 1
  /\ \A j \in 0..n - 1 : n - OutEnd <= j => buf[Masked(j)] = entry.claim[j + 1]

Turn(base) == \A i \in Int : Masked(base + i) = Masked(i)

Layout(base) ==
  /\ Turn(base) /\ base + cur <= Len(entry.claim)
  /\ Window(buffer, base + cur)
  /\ passed \in Seq(Nat) /\ Len(passed) = base + from /\ Begins(entry.claim, passed)

\* What is left of a match, in the decoder r, after n bytes.
Repeating(r, n) ==
  /\ r.counter # 0
  /\ r.dist \in Nat \ {0} /\ r.dist <= n /\ (Ring => r.dist <= DictSize)
  /\ \A i \in n + 1..n + r.counter : entry.claim[i] = entry.claim[i - r.dist]
  /\ \A d \in Int : Masked(r.start + d) = Masked(n + d)

\* Its place, after n bytes, is that of the meaning s.
Reached(r, s, n) ==
  /\ r.at # "failed" /\ r.final = s.final
  /\ r.at \in {"block", "size", "tables", "symbol", "raw", "dist", "done"} => s.at = r.at /\ Len(s.out) = n
  /\ r.at \in {"raw", "dist"} => s.n = r.counter
  /\ r.at = "literal" => s.at = "symbol" /\ Len(s.out) = n + 1 /\ entry.claim[n + 1] = r.dist
  /\ r.at = "copy" => s.at = "symbol" /\ Len(s.out) = n + r.counter /\ Repeating(r, n)

OnTrack(k, base) ==
  Layout(base) /\ Remains(entry.data, input, k) /\ Reached(inf, State(k), base + cur)

Progress ==
  Sound(entry) => outcome # "failed" /\ \E k \in 0..DataEnd, base \in Nat : OnTrack(k, base)

-----------------------------------------------------------------------------
LEMMA SoundIs ==
  ASSUME entry \in Entries, Sound(entry), NEW k \in 0..DataEnd
  PROVE  /\ Proper(State(k)) /\ State(k).at # "wrong" /\ (State(k).at = "done" <=> k = DataEnd)
         /\ Begins(entry.claim, State(k).out)
<1>1. PICK data \in Seq(Units) : data = entry.data
  BY OutEndIs
<1>2. PICK n \in Nat : n = Len(data) /\ n = DataEnd
  BY <1>1 DEF DataEnd
<1>3. PICK f : f = Meanings(data)
  OBVIOUS
<1>4. f[0] = Start /\ \A i \in 1..n : f[i] = Meaning(f[i - 1], data[i])
  BY <1>2, <1>3, MeaningsAre
<1>5. f[n].at = "done" /\ f[n].out = entry.claim
  BY <1>1, <1>2, <1>3 DEF Sound, Meant
<1>6. \A i \in 0..n : /\ Proper(f[i]) /\ f[i].at # "wrong" /\ (f[i].at = "done" <=> i = n)
                      /\ Begins(f[n].out, f[i].out)
  BY <1>2, <1>4, <1>5, TraceIs
<1>7. State(k) = f[k]
  BY <1>1, <1>3 DEF State
<1> QED
  BY <1>2, <1>5, <1>6, <1>7

LEMMA FirstIs == ASSUME entry \in Entries PROVE State(0) = Start /\ DataEnd \in Nat
<1>1. PICK data \in Seq(Units) : data = entry.data
  BY OutEndIs
<1>2. PICK n \in Nat : n = Len(data)
  BY <1>1
<1> QED
  BY <1>1, <1>2, MeaningsAre DEF State, DataEnd

LEMMA NextIs ==
  ASSUME entry \in Entries, Sound(entry), NEW k \in 0..DataEnd, State(k).at # "done"
  PROVE  /\ k + 1 \in 0..DataEnd /\ entry.data[k + 1] \in Units
         /\ State(k + 1) = Meaning(State(k), entry.data[k + 1])
         /\ State(k + 1).at # "wrong" /\ Begins(entry.claim, State(k + 1).out)
<1>1. PICK data \in Seq(Units) : data = entry.data
  BY OutEndIs
<1>2. PICK n \in Nat : n = Len(data) /\ n = DataEnd
  BY <1>1 DEF DataEnd
<1>3. k # n
  BY <1>2, SoundIs
<1>4. k + 1 \in 1..n /\ k + 1 \in 0..n /\ k + 1 - 1 = k
  BY <1>2, <1>3
<1>5. data[k + 1] \in Units
  BY <1>2, <1>4, ElementOfSeq
<1>6. \A i \in 1..n : Meanings(data)[i] = Meaning(Meanings(data)[i - 1], data[i])
  BY <1>2, MeaningsAre
<1>7. State(k + 1) = Meaning(State(k), data[k + 1])
  BY <1>1, <1>4, <1>6 DEF State
<1>8. State(k + 1).at # "wrong" /\ Begins(entry.claim, State(k + 1).out)
  BY <1>2, <1>4, SoundIs
<1> QED
  BY <1>1, <1>2, <1>4, <1>5, <1>7, <1>8

-----------------------------------------------------------------------------
\* Positions in the output buffer.
LEMMA MaskedIs ==
  ASSUME entry \in Entries
  PROVE  /\ \A i \in 0..OutEnd - 1 : Masked(i) = i
         /\ Ring => \A i \in Int : Masked(DictSize + i) = Masked(i) /\ Masked(i) \in 0..OutEnd - 1
         /\ \A i, j \in Int : i < j /\ j - i < OutEnd => Masked(i) # Masked(j)
<1>1. PICK n \in Nat \ {0} : n = DictSize
  BY OutEndIs
<1>2. /\ \A x \in Int : x % n \in 0..n - 1
      /\ \A x \in 0..n - 1 : x % n = x
      /\ \A x \in Int : (x + n) % n = x % n
  BY RingFacts
<1>3. CASE Ring
  <2>1. OutEnd = n /\ \A i : Masked(i) = i % n
    BY <1>1, <1>3 DEF OutEnd, Masked
  <2>2. ASSUME NEW i \in Int PROVE (n + i) % n = i % n
    <3>1. n + i = i + n
      OBVIOUS
    <3> QED
      BY <1>2, <3>1
  <2>3. ASSUME NEW i \in Int, NEW j \in Int, i < j, j - i < n PROVE i % n # j % n
    <3>1. i - j < n /\ i # j
      BY <2>3
    <3> QED
      BY <2>3, <3>1, RingApart
  <2> QED
    BY <1>1, <1>2, <2>1, <2>2, <2>3
<1>4. CASE ~Ring
  <2>1. \A i : Masked(i) = i
    BY <1>4 DEF Masked
  <2> QED
    BY <1>4, <2>1
<1> QED
  BY <1>3, <1>4

\* A byte is written behind the others.
LEMMA WindowGrows ==
  ASSUME entry \in Entries, NEW buf, NEW n \in Nat, Window(buf, n),
         NEW c \in 0..OutEnd - 1, Masked(n) = c, NEW v, v = entry.claim[n + 1]
  PROVE  Window([buf EXCEPT ![c] = v], n + 1)
<1>1. PICK e \in Nat : e = OutEnd
  BY OutEndIs
<1>2. PICK b : b = [buf EXCEPT ![c] = v]
  OBVIOUS
<1>3. DOMAIN buf = 0..e - 1 /\ DOMAIN b = 0..e - 1 /\ b[c] = v /\ c \in 0..e - 1
      /\ \A i \in 0..e - 1 : i # c => b[i] = buf[i]
  BY <1>1, <1>2 DEF Window
<1>4. ASSUME NEW j \in 0..n, n + 1 - e <= j PROVE b[Masked(j)] = entry.claim[j + 1]
  <2>1. CASE j = n
    BY <1>3, <2>1
  <2>2. CASE j # n
    <3>1. j \in 0..n - 1 /\ j < n /\ n - j < e /\ n - e <= j /\ j \in Int /\ n \in Int
      BY <1>4, <2>2
    <3>2. Masked(j) # c
      BY <1>1, <3>1, MaskedIs
    <3>3. Masked(j) \in 0..e - 1
      <4>1. CASE Ring
        BY <1>1, <3>1, <4>1, MaskedIs
      <4>2. CASE ~Ring
        <5>1. Masked(j) = j /\ Masked(n) = n
          BY <4>2 DEF Masked
        <5> QED
          BY <1>1, <3>1, <5>1
      <4> QED
        BY <4>1, <4>2
    <3>4. buf[Masked(j)] = entry.claim[j + 1]
      BY <1>1, <3>1 DEF Window
    <3> QED
      BY <1>3, <3>2, <3>3, <3>4
  <2> QED
    BY <2>1, <2>2
<1>5. n + 1 - 1 = n
  OBVIOUS
<1> QED
  BY <1>1, <1>2, <1>3, <1>4, <1>5 DEF Window

\* The next places of the buffer.
LEMMA SlotIs ==
  ASSUME entry \in Entries, NEW base \in Nat, Turn(base), NEW i \in 0..OutEnd - 1
  PROVE  Masked(base + i) = i
<1>1. i \in Int
  BY OutEndIs
<1> QED
  BY <1>1, MaskedIs DEF Turn

\* All the output so far is a beginning of the content.
LEMMA OutIs ==
  ASSUME InflateTyped, NEW base \in Nat, Layout(base)
  PROVE  Out \in Seq(Nat) /\ Len(Out) = base + cur /\ Begins(entry.claim, Out)
<1>1. PICK e \in Nat, c \in Nat, f \in Nat : e = OutEnd /\ c = cur /\ f = from /\ f <= c /\ c <= e
  BY OutEndIs DEF InflateTyped
<1>2. PICK claim \in Seq(Nat) : claim = entry.claim
  BY OutEndIs DEF InflateTyped
<1>3. PICK l \in Nat : l = Len(claim) /\ base + c <= l
  BY <1>1, <1>2 DEF Layout
<1>4. PICK n \in Nat : n = c - f
  BY <1>1
<1>5. entry \in Entries
  BY DEF InflateTyped
<1>6. ASSUME NEW i \in 1..n PROVE buffer[f + i - 1] = claim[base + f + i] /\ claim[base + f + i] \in Nat
  <2>1. f + i - 1 \in 0..e - 1 /\ base + (f + i - 1) \in 0..base + c - 1
    BY <1>1, <1>4
  <2>2. base + c - e <= base + (f + i - 1) /\ base + (f + i - 1) + 1 = base + f + i
        /\ base + f + i \in 1..l
    BY <1>1, <1>3, <1>4
  <2>3. Masked(base + (f + i - 1)) = f + i - 1
    BY <1>1, <1>5, <2>1, SlotIs DEF Layout
  <2>4. buffer[Masked(base + (f + i - 1))] = claim[base + (f + i - 1) + 1]
    BY <1>1, <1>2, <2>1, <2>2 DEF Layout, Window
  <2>5. claim[base + f + i] \in Nat
    BY <1>3, <2>2, ElementOfSeq
  <2> QED
    BY <2>2, <2>3, <2>4, <2>5
<1> DEFINE h == [i \in 1..n |-> buffer[f + i - 1]]
<1>7. New = h
  <2>1. New = SubSeq([i \in 1..e |-> buffer[i - 1]], f + 1, c)
    BY <1>1 DEF New
  <2>2. SubSeq([i \in 1..e |-> buffer[i - 1]], f + 1, c)
          = [i \in 1..c - (f + 1) + 1 |-> [j \in 1..e |-> buffer[j - 1]][i + (f + 1) - 1]]
    BY <1>1
  <2>3. c - (f + 1) + 1 = n
    BY <1>4
  <2>4. ASSUME NEW i \in 1..n PROVE [j \in 1..e |-> buffer[j - 1]][i + (f + 1) - 1] = buffer[f + i - 1]
    <3>1. i + (f + 1) - 1 \in 1..e /\ i + (f + 1) - 1 - 1 = f + i - 1
      BY <1>1, <1>4
    <3> QED
      BY <3>1
  <2> QED
    BY <2>1, <2>2, <2>3, <2>4
<1>8. h \in Seq(Nat) /\ Len(h) = n /\ \A i \in 1..n : h[i] = claim[base + f + i]
  <2>1. h \in [1..n -> Nat] /\ \A i \in 1..n : h[i] = claim[base + f + i]
    BY <1>6
  <2> HIDE DEF h
  <2>2. h \in Seq(Nat) /\ DOMAIN h = 1..n
    BY <2>1
  <2> QED
    BY <2>1, <2>2
<1> HIDE DEF h
<1>9. PICK p \in Seq(Nat) : /\ p = passed /\ Len(p) = base + f /\ \A i \in 1..base + f : claim[i] = p[i]
  BY <1>1, <1>2 DEF Layout, Begins
<1>10. /\ p \o h \in Seq(Nat) /\ Len(p \o h) = Len(p) + Len(h)
       /\ \A i \in 1..Len(p) : (p \o h)[i] = p[i]
       /\ \A i \in 1..Len(h) : (p \o h)[Len(p) + i] = h[i]
  <2>1. h \in Seq(Nat)
    BY <1>8
  <2> QED
    BY <2>1, ConcatIs
<1>11. PICK o : o = Out /\ o = p \o h
  BY <1>7, <1>9 DEF Out
<1>12. /\ o \in Seq(Nat) /\ Len(o) = base + c /\ \A i \in 1..base + f : o[i] = p[i]
       /\ \A i \in 1..n : o[base + f + i] = h[i]
  <2>1. base + f + n = base + c
    BY <1>1, <1>4
  <2> QED
    BY <1>8, <1>9, <1>10, <1>11, <2>1
<1>13. ASSUME NEW i \in 1..base + c PROVE claim[i] = o[i]
  <2>1. CASE i <= base + f
    <3>1. i \in 1..base + f
      BY <2>1
    <3> QED
      BY <1>9, <1>12, <3>1
  <2>2. CASE i > base + f
    <3>1. PICK j \in 1..n : i = base + f + j
      <4>1. i - (base + f) \in 1..n /\ i = base + f + (i - (base + f))
        BY <1>1, <1>4, <2>2
      <4> QED
        BY <4>1
    <3> QED
      BY <1>8, <1>12, <3>1
  <2>3. i <= base + f \/ i > base + f
    OBVIOUS
  <2> QED
    BY <2>1, <2>2, <2>3
<1> QED
  BY <1>1, <1>2, <1>3, <1>11, <1>12, <1>13 DEF Begins

-----------------------------------------------------------------------------
(***************************************************************************)
(* The steps.                                                              *)
(***************************************************************************)
LEMMA LayoutKept ==
  ASSUME NEW base, Layout(base), UNCHANGED <<fixedVars, outputVars>>
  PROVE  Layout(base)'
BY DEF Layout, Turn, Window, Begins, Masked, OutEnd, Ring, fixedVars, outputVars

LEMMA LayoutGrows ==
  ASSUME NEW base, Layout(base), UNCHANGED <<fixedVars, from, passed>>,
         base + cur' <= Len(entry.claim), Window(buffer', base + cur')
  PROVE  Layout(base)'
BY DEF Layout, Turn, Window, Begins, Masked, OutEnd, Ring, fixedVars

LEMMA Arrives ==
  ASSUME UNCHANGED fixedVars, outcome' # "failed",
         NEW k \in 0..DataEnd, NEW base \in Nat, Layout(base)',
         Remains(entry.data, input', k), Reached(inf', State(k), base + cur')
  PROVE  Progress'
<1>1. entry' = entry /\ driver' = driver
  BY DEF fixedVars
<1>2. Remains(entry.data, input, k)'
  BY <1>1 DEF Remains
<1>3. State(k)' = State(k) /\ DataEnd' = DataEnd
  BY <1>1 DEF State, DataEnd
<1>4. Reached(inf, State(k), base + cur)'
  <2>1. PICK s : s = State(k) /\ s = State(k)'
    BY <1>3
  <2> QED
    BY <1>1, <2>1 DEF Reached, Repeating, Masked, Ring
<1>5. OnTrack(k, base)'
  BY <1>2, <1>4 DEF OnTrack
<1> QED
  BY <1>3, <1>5 DEF Progress

LEMMA PlaceReached ==
  ASSUME NEW r, NEW s, NEW n, r.at \in {"block", "size", "tables", "symbol", "done"},
         s.at = r.at, r.final = s.final, Len(s.out) = n
  PROVE  Reached(r, s, n)
BY DEF Reached

LEMMA CountReached ==
  ASSUME NEW r, NEW s, NEW n, r.at \in {"raw", "dist"},
         s.at = r.at, r.final = s.final, s.n = r.counter, Len(s.out) = n
  PROVE  Reached(r, s, n)
BY DEF Reached

\* A step that reads a unit reads the one that comes next.
LEMMA Reads ==
  ASSUME InflateTyped, Sound(entry), NEW k \in 0..DataEnd, NEW base \in Nat, OnTrack(k, base),
         inf.at \in {"block", "size", "tables", "symbol", "dist"}, ~Starved
  PROVE  /\ k + 1 \in 0..DataEnd /\ Unit \in Units
         /\ Remains(entry.data, After(input), k + 1)
         /\ Proper(State(k)) /\ State(k).at = inf.at /\ State(k).final = inf.final
         /\ Len(State(k).out) = base + cur
         /\ State(k + 1) = Meaning(State(k), Unit) /\ State(k + 1).at # "wrong"
         /\ Begins(entry.claim, State(k + 1).out)
<1>1. entry \in Entries /\ input \in Inputs /\ entry.data \in Seq(Units) /\ k \in Nat
  BY OutEndIs DEF InflateTyped
<1>2. /\ Remains(entry.data, input, k) /\ State(k).at = inf.at /\ Len(State(k).out) = base + cur
      /\ State(k).final = inf.final
  BY DEF OnTrack, Reached
<1>3. State(k).at # "done"
  BY <1>2
<1>4. k # DataEnd /\ Proper(State(k))
  BY <1>1, <1>3, SoundIs
<1>5. input.bits # <<>> \/ input.given # <<>>
  BY <1>1, <1>2, <1>4, RemainsIs DEF Starved, InputEmpty, DataEnd
<1>6. Next1(input) = entry.data[k + 1] /\ Remains(entry.data, After(input), k + 1)
  BY <1>1, <1>2, <1>5, ReadsOne
<1>7. Unit = Next1(input)
  <2>1. input.bits \in Seq(Units) /\ input.given \in Seq(Units)
    BY <1>1, InputIs
  <2>2. /\ input.bits # <<>> => Head(input.bits) = input.bits[1]
        /\ input.given # <<>> => Head(input.given) = input.given[1]
    BY <2>1, TailIs
  <2> QED
    BY <1>5, <2>2 DEF Unit, Next1
<1>8. /\ k + 1 \in 0..DataEnd /\ entry.data[k + 1] \in Units
      /\ State(k + 1) = Meaning(State(k), entry.data[k + 1])
      /\ State(k + 1).at # "wrong" /\ Begins(entry.claim, State(k + 1).out)
  BY <1>1, <1>3, NextIs
<1> QED
  BY <1>2, <1>4, <1>6, <1>7, <1>8

LEMMA HeaderOn ==
  ASSUME InflateTyped, Sound(entry), NEW k \in 0..DataEnd, NEW base \in Nat, OnTrack(k, base), BlockHeader
  PROVE  Progress'
<1>1. /\ UNCHANGED <<fixedVars, outputVars>> /\ outcome' = "running" /\ input' = After(input)
      /\ inf.at = "block" /\ ~Starved
      /\ inf' = [inf EXCEPT !.final = (Unit.v = 1),
                            !.at = CASE Unit.kind = "stored" -> "size"
                                     [] Unit.kind = "fixed" -> "symbol"
                                     [] Unit.kind = "dynamic" -> "tables"
                                     [] OTHER -> "failed"]
  BY DEF BlockHeader, Decoding
<1>2. PICK s, u, r : s = State(k) /\ u = Unit /\ r = State(k + 1)
  OBVIOUS
<1>3. /\ k + 1 \in 0..DataEnd /\ u \in Units /\ Remains(entry.data, input', k + 1)
      /\ Proper(s) /\ s.at = "block" /\ Len(s.out) = base + cur
      /\ r = Meaning(s, u) /\ r.at # "wrong"
  BY <1>1, <1>2, Reads
<1>4. /\ u.kind \in {"stored", "fixed", "dynamic"}
      /\ r.at = (CASE u.kind = "stored" -> "size" [] u.kind = "fixed" -> "symbol" [] OTHER -> "tables")
      /\ r.final = (u.v = 1) /\ r.out = s.out
  BY <1>3, AfterHeader
<1>5. inf'.at = r.at /\ r.at \in {"size", "symbol", "tables"} /\ inf'.final = r.final
  <2>1. PICK place : place = CASE u.kind = "stored" -> "size" [] u.kind = "fixed" -> "symbol"
                                [] u.kind = "dynamic" -> "tables" [] OTHER -> "failed"
    OBVIOUS
  <2>2. place = r.at /\ r.at \in {"size", "symbol", "tables"}
    BY <1>4, <2>1
  <2>3. inf' = [inf EXCEPT !.final = (u.v = 1), !.at = place]
    BY <1>1, <1>2, <2>1
  <2>4. inf'.at = place /\ inf'.final = (u.v = 1)
    BY <2>3 DEF InflateTyped, Decoders
  <2> QED
    BY <1>4, <2>2, <2>4
<1>6. Reached(inf', r, base + cur)
  BY <1>3, <1>4, <1>5, PlaceReached
<1>7. cur' = cur
  BY <1>1 DEF outputVars
<1>8. Layout(base)'
  BY <1>1, LayoutKept DEF OnTrack
<1> QED
  BY <1>1, <1>2, <1>3, <1>6, <1>7, <1>8, Arrives

LEMMA SizeOn ==
  ASSUME InflateTyped, Sound(entry), NEW k \in 0..DataEnd, NEW base \in Nat, OnTrack(k, base), StoredSize
  PROVE  Progress'
<1>1. /\ UNCHANGED <<fixedVars, outputVars>> /\ outcome' = "running" /\ input' = After(input)
      /\ inf.at = "size" /\ ~Starved
      /\ inf' = [inf EXCEPT !.counter = Unit.v,
                            !.at = IF Unit = BadSize THEN "failed"
                                   ELSE IF Unit.v = 0 THEN BlockOver ELSE "raw"]
  BY DEF StoredSize, Decoding
<1>2. PICK s, u, r : s = State(k) /\ u = Unit /\ r = State(k + 1)
  OBVIOUS
<1>3. /\ k + 1 \in 0..DataEnd /\ u \in Units /\ Remains(entry.data, input', k + 1)
      /\ Proper(s) /\ s.at = "size" /\ s.final = inf.final /\ Len(s.out) = base + cur
      /\ r = Meaning(s, u) /\ r.at # "wrong"
  BY <1>1, <1>2, Reads
<1>4. /\ u.kind = "size" /\ r.n = u.v /\ r.final = s.final /\ r.out = s.out
      /\ r.at = (IF u.v = 0 THEN OverOf(s) ELSE "raw")
  BY <1>3, AfterSize
<1>5. inf'.at = r.at /\ r.at \in {"done", "block", "raw"} /\ inf'.final = r.final /\ inf'.counter = r.n
  <2>1. PICK place : place = IF u = BadSize THEN "failed" ELSE IF u.v = 0 THEN BlockOver ELSE "raw"
    OBVIOUS
  <2>2. u # BadSize
    BY <1>4 DEF BadSize
  <2>3. place = r.at /\ r.at \in {"done", "block", "raw"}
    BY <1>3, <1>4, <2>1, <2>2 DEF OverOf, BlockOver
  <2>4. inf' = [inf EXCEPT !.counter = u.v, !.at = place]
    BY <1>1, <1>2, <2>1
  <2>5. inf'.at = place /\ inf'.counter = u.v /\ inf'.final = inf.final
    BY <2>4 DEF InflateTyped, Decoders
  <2> QED
    BY <1>3, <1>4, <2>3, <2>5
<1>6. Reached(inf', r, base + cur)
  BY <1>3, <1>4, <1>5 DEF Reached
<1>7. cur' = cur
  BY <1>1 DEF outputVars
<1>8. Layout(base)'
  BY <1>1, LayoutKept DEF OnTrack
<1> QED
  BY <1>1, <1>2, <1>3, <1>6, <1>7, <1>8, Arrives

LEMMA TablesOn ==
  ASSUME InflateTyped, Sound(entry), NEW k \in 0..DataEnd, NEW base \in Nat, OnTrack(k, base), CodeTables
  PROVE  Progress'
<1>1. /\ UNCHANGED <<fixedVars, outputVars>> /\ outcome' = "running" /\ input' = After(input)
      /\ inf.at = "tables" /\ ~Starved
      /\ inf' = [inf EXCEPT !.at = IF Unit = Tables THEN "symbol" ELSE "failed"]
  BY DEF CodeTables, Decoding, GoTo
<1>2. PICK s, u, r : s = State(k) /\ u = Unit /\ r = State(k + 1)
  OBVIOUS
<1>3. /\ k + 1 \in 0..DataEnd /\ u \in Units /\ Remains(entry.data, input', k + 1)
      /\ Proper(s) /\ s.at = "tables" /\ s.final = inf.final /\ Len(s.out) = base + cur
      /\ r = Meaning(s, u) /\ r.at # "wrong"
  BY <1>1, <1>2, Reads
<1>4. u = Tables /\ r.at = "symbol" /\ r.final = s.final /\ r.out = s.out
  BY <1>3, AfterTables
<1>5. inf'.at = "symbol" /\ inf'.final = inf.final
  BY <1>1, <1>2, <1>4 DEF InflateTyped, Decoders
<1>6. Reached(inf', r, base + cur)
  BY <1>3, <1>4, <1>5, PlaceReached
<1>7. cur' = cur
  BY <1>1 DEF outputVars
<1>8. Layout(base)'
  BY <1>1, LayoutKept DEF OnTrack
<1> QED
  BY <1>1, <1>2, <1>3, <1>6, <1>7, <1>8, Arrives

\* A symbol that is not a literal.
LEMMA NotLiteralOn ==
  ASSUME inf \in Decoders, NEW s, Proper(s), s.at = "symbol", s.final = inf.final, NEW u \in Units,
         u.kind # "lit", NotLiteral(u), NEW r, r = Meaning(s, u), r.at # "wrong", NEW n, Len(s.out) = n
  PROVE  Reached(inf', r, n)
<1>1. /\ u.kind \in {"end", "len"} /\ r.final = s.final
      /\ u.kind = "end" => r.at = OverOf(s) /\ r.out = s.out
      /\ u.kind = "len" => r.at = "dist" /\ r.n = u.v /\ r.out = s.out
  BY AfterSymbol
<1>2. CASE u.kind = "end"
  <2>1. inf'.at = BlockOver /\ inf'.final = inf.final
    BY <1>2 DEF NotLiteral, Decoders
  <2>2. r.at = BlockOver /\ BlockOver \in {"done", "block"}
    BY <1>1, <1>2 DEF OverOf, BlockOver
  <2> QED
    BY <1>1, <1>2, <2>1, <2>2, PlaceReached
<1>3. CASE u.kind = "len"
  <2>1. inf'.at = "dist" /\ inf'.final = inf.final /\ inf'.counter = u.v
    BY <1>3 DEF NotLiteral, Decoders
  <2> QED
    BY <1>1, <1>3, <2>1, CountReached
<1> QED
  BY <1>1, <1>2, <1>3

\* A byte more of the content.
LEMMA ByteIs ==
  ASSUME NEW claim \in Seq(Nat), NEW s, Proper(s), NEW v \in Nat, Begins(claim, Append(s.out, v)),
         NEW n \in Nat, Len(s.out) = n
  PROVE  Len(Append(s.out, v)) = n + 1 /\ n + 1 <= Len(claim) /\ claim[n + 1] = v
<1>1. s.out \in Seq(Nat)
  BY DEF Proper, Meaningful
<1>2. Len(Append(s.out, v)) = n + 1 /\ Append(s.out, v)[n + 1] = v
  BY <1>1, MoreIs
<1> QED
  BY <1>2 DEF Begins

LEMMA OneOn ==
  ASSUME InflateTyped, Sound(entry), NEW k \in 0..DataEnd, NEW base \in Nat, OnTrack(k, base), OneSymbol
  PROVE  Progress'
<1>1. /\ UNCHANGED <<fixedVars, outputVars>> /\ outcome' = "running" /\ input' = After(input)
      /\ inf.at = "symbol" /\ ~Starved
      /\ IF Unit.kind = "lit" THEN inf' = [inf EXCEPT !.dist = Unit.v, !.at = "literal"]
                              ELSE NotLiteral(Unit)
  BY DEF OneSymbol, Decoding
<1>2. PICK s, u, r : s = State(k) /\ u = Unit /\ r = State(k + 1)
  OBVIOUS
<1>3. /\ k + 1 \in 0..DataEnd /\ u \in Units /\ Remains(entry.data, input', k + 1)
      /\ Proper(s) /\ s.at = "symbol" /\ s.final = inf.final /\ Len(s.out) = base + cur
      /\ r = Meaning(s, u) /\ r.at # "wrong" /\ Begins(entry.claim, r.out)
  BY <1>1, <1>2, Reads
<1>4. Reached(inf', r, base + cur)
  <2>1. CASE u.kind = "lit"
    <3>1. r.at = "symbol" /\ r.final = s.final /\ r.out = Append(s.out, u.v)
      BY <1>3, <2>1, AfterSymbol
    <3>2. u.v \in Nat /\ entry.claim \in Seq(Nat) /\ base + cur \in Nat
      BY <1>3, UnitIs, OutEndIs DEF InflateTyped
    <3>3. Len(r.out) = base + cur + 1 /\ entry.claim[base + cur + 1] = u.v
      BY <1>3, <3>1, <3>2, ByteIs
    <3>4. inf'.at = "literal" /\ inf'.final = inf.final /\ inf'.dist = u.v
      BY <1>1, <1>2, <2>1 DEF InflateTyped, Decoders
    <3> QED
      BY <1>3, <3>1, <3>3, <3>4 DEF Reached
  <2>2. CASE u.kind # "lit"
    <3>1. NotLiteral(u) /\ inf \in Decoders
      BY <1>1, <1>2, <2>2 DEF InflateTyped
    <3> QED
      BY <1>3, <2>2, <3>1, NotLiteralOn
  <2> QED
    BY <2>1, <2>2
<1>5. cur' = cur
  BY <1>1 DEF outputVars
<1>6. Layout(base)'
  BY <1>1, LayoutKept DEF OnTrack
<1> QED
  BY <1>1, <1>2, <1>3, <1>4, <1>5, <1>6, Arrives

\* The numbers of a step that is on its way.
LEMMA TrackIs ==
  ASSUME InflateTyped, Sound(entry), NEW k \in 0..DataEnd, NEW base \in Nat, OnTrack(k, base)
  PROVE  /\ entry \in Entries /\ entry.claim \in Seq(Nat) /\ OutEnd \in Nat /\ DictSize \in Nat \ {0}
         /\ cur \in Nat /\ base + cur \in Nat /\ cur <= OutEnd
         /\ Layout(base) /\ Remains(entry.data, input, k) /\ Reached(inf, State(k), base + cur)
         /\ Window(buffer, base + cur) /\ Turn(base)
         /\ Proper(State(k)) /\ State(k).out \in Seq(Nat) /\ State(k).n \in Nat
         /\ Begins(entry.claim, State(k).out)
<1>1. /\ entry \in Entries /\ entry.claim \in Seq(Nat) /\ OutEnd \in Nat /\ DictSize \in Nat \ {0}
      /\ cur \in Nat /\ cur <= OutEnd
  BY OutEndIs DEF InflateTyped
<1>2. base + cur \in Nat
  BY <1>1
<1>3. Layout(base) /\ Remains(entry.data, input, k) /\ Reached(inf, State(k), base + cur)
  BY DEF OnTrack
<1>4. Window(buffer, base + cur) /\ Turn(base)
  BY <1>3 DEF Layout
<1>5. Proper(State(k)) /\ Begins(entry.claim, State(k).out)
  BY <1>1, SoundIs
<1>6. State(k).out \in Seq(Nat) /\ State(k).n \in Nat
  BY <1>5 DEF Proper, Meaningful
<1> QED
  BY <1>1, <1>2, <1>3, <1>4, <1>5, <1>6

\* One byte is written.
LEMMA Writes ==
  ASSUME InflateTyped, NEW base \in Nat, Layout(base), UNCHANGED <<fixedVars, from, passed>>,
         cur' = cur + 1, cur < OutEnd, base + cur + 1 <= Len(entry.claim),
         buffer' = [buffer EXCEPT ![cur] = entry.claim[base + cur + 1]]
  PROVE  Layout(base)'
<1>1. entry \in Entries /\ OutEnd \in Nat /\ cur \in Nat
  BY OutEndIs DEF InflateTyped
<1>2. PICK n \in Nat : n = base + cur
  BY <1>1
<1>3. cur \in 0..OutEnd - 1
  BY <1>1
<1>4. Masked(n) = cur
  BY <1>1, <1>2, <1>3, SlotIs DEF Layout
<1>5. Window(buffer, n)
  BY <1>2 DEF Layout
<1>6. Window([buffer EXCEPT ![cur] = entry.claim[n + 1]], n + 1)
  BY <1>1, <1>3, <1>4, <1>5, WindowGrows
<1>7. base + cur' = n + 1
  BY <1>1, <1>2
<1>8. n + 1 <= Len(entry.claim) /\ buffer' = [buffer EXCEPT ![cur] = entry.claim[n + 1]]
  BY <1>2
<1> QED
  BY <1>6, <1>7, <1>8, LayoutGrows

LEMMA LiteralOn ==
  ASSUME InflateTyped, Sound(entry), NEW k \in 0..DataEnd, NEW base \in Nat, OnTrack(k, base), PutLiteral
  PROVE  Progress'
<1>1. /\ UNCHANGED <<fixedVars, from, passed>> /\ outcome' = "running" /\ input' = input
      /\ inf.at = "literal" /\ cur < OutEnd /\ cur' = cur + 1
      /\ buffer' = [buffer EXCEPT ![cur] = inf.dist]
      /\ inf' = [inf EXCEPT !.at = "symbol"]
  BY DEF PutLiteral, Decoding, GoTo
<1>2. PICK n \in Nat : n = base + cur
  BY TrackIs
<1>3. PICK s : s = State(k)
  OBVIOUS
<1>4. /\ s.at = "symbol" /\ Len(s.out) = n + 1 /\ entry.claim[n + 1] = inf.dist /\ s.final = inf.final
      /\ Begins(entry.claim, s.out)
  BY <1>1, <1>2, <1>3, TrackIs DEF Reached
<1>5. n + 1 <= Len(entry.claim)
  BY <1>4 DEF Begins
<1>6. Layout(base)'
  BY <1>1, <1>2, <1>4, <1>5, TrackIs, Writes
<1>7. inf'.at = "symbol" /\ inf'.final = inf.final
  BY <1>1 DEF InflateTyped, Decoders
<1>8. base + cur' = n + 1
  BY <1>1, <1>2, TrackIs
<1>9. Reached(inf', s, base + cur')
  BY <1>4, <1>7, <1>8, PlaceReached
<1> QED
  BY <1>1, <1>3, <1>6, <1>9, TrackIs, Arrives

LEMMA DistanceOn ==
  ASSUME InflateTyped, Sound(entry), NEW k \in 0..DataEnd, NEW base \in Nat, OnTrack(k, base), Distance
  PROVE  Progress'
<1>1. /\ UNCHANGED <<fixedVars, outputVars>> /\ outcome' = "running" /\ input' = After(input)
      /\ inf.at = "dist" /\ ~Starved
      /\ inf' = [inf EXCEPT !.dist = Unit.v, !.start = cur,
                            !.at = IF ~Ring /\ Unit.v > cur THEN "failed" ELSE "copy"]
  BY DEF Distance, Decoding
<1>2. PICK s, u, r : s = State(k) /\ u = Unit /\ r = State(k + 1)
  OBVIOUS
<1>3. PICK n \in Nat, claim \in Seq(Nat) : n = base + cur /\ claim = entry.claim
  BY TrackIs
<1>4. /\ k + 1 \in 0..DataEnd /\ u \in Units /\ Remains(entry.data, input', k + 1)
      /\ Proper(s) /\ s.at = "dist" /\ s.final = inf.final /\ Len(s.out) = n
      /\ r = Meaning(s, u) /\ r.at # "wrong" /\ Begins(claim, r.out)
  BY <1>1, <1>2, <1>3, Reads
<1>5. PICK c \in Nat : c = inf.counter /\ s.n = c /\ c # 0
  <2>1. s.n = inf.counter
    BY <1>1, <1>2, <1>3, TrackIs DEF Reached
  <2>2. s.n # 0 /\ s.n \in Nat
    BY <1>4 DEF Proper, Meaningful
  <2> QED
    BY <2>1, <2>2
<1>6. PICK v \in Nat : v = u.v /\ v # 0 /\ v <= DictSize /\ v <= n
  <2>1. u.v \in 1..DictSize /\ u.v <= Len(s.out) /\ DictSize \in Nat
    BY <1>4, AfterDistance, TrackIs
  <2>2. u.v \in Nat /\ u.v # 0 /\ u.v <= DictSize
    BY <2>1
  <2> QED
    BY <1>4, <2>1, <2>2
<1>7. /\ r.at = "symbol" /\ r.final = s.final /\ Len(r.out) = n + c
      /\ Begins(r.out, s.out) /\ Repeats(r.out, s.out, v)
  BY <1>4, <1>5, <1>6, AfterDistance
<1>8. ASSUME NEW i \in n + 1..n + c PROVE claim[i] = claim[i - v]
  <2>1. i \in 1..n + c /\ i - v \in 1..n + c
    BY <1>6
  <2>2. claim[i] = r.out[i] /\ claim[i - v] = r.out[i - v]
    BY <1>4, <1>7, <2>1 DEF Begins
  <2>3. r.out[i] = r.out[i - v]
    BY <1>4, <1>7 DEF Repeats
  <2> QED
    BY <2>2, <2>3
<1>9. ~(~Ring /\ v > cur)
  <2>1. ASSUME ~Ring PROVE base = 0
    <3>1. Turn(base) /\ 0 \in Int /\ base + 0 = base
      BY TrackIs
    <3> QED
      BY <2>1, <3>1 DEF Turn, Masked
  <2>2. ASSUME ~Ring PROVE n = cur
    <3>1. cur \in Nat
      BY TrackIs
    <3> QED
      BY <1>3, <2>1, <2>2, <3>1
  <2> QED
    BY <1>3, <1>6, <2>2
<1>10. inf' = [inf EXCEPT !.dist = v, !.start = cur, !.at = "copy"]
  BY <1>1, <1>2, <1>6, <1>9
<1>11. /\ inf'.at = "copy" /\ inf'.dist = v /\ inf'.start = cur
       /\ inf'.final = inf.final /\ inf'.counter = c
  BY <1>5, <1>10 DEF InflateTyped, Decoders
<1>12. \A d \in Int : Masked(cur + d) = Masked(n + d)
  <2>1. Turn(base) /\ cur \in Nat
    BY TrackIs
  <2>2. ASSUME NEW d \in Int PROVE Masked(cur + d) = Masked(n + d)
    <3>1. cur + d \in Int /\ base + (cur + d) = n + d
      BY <1>3, <2>1
    <3>2. Masked(base + (cur + d)) = Masked(cur + d)
      BY <2>1, <3>1 DEF Turn
    <3> QED
      BY <3>1, <3>2
  <2> QED
    BY <2>2
<1>13. Repeating(inf', n)
  BY <1>3, <1>5, <1>6, <1>8, <1>11, <1>12 DEF Repeating
<1>14. Reached(inf', r, n)
  BY <1>4, <1>7, <1>11, <1>13 DEF Reached
<1>15. base + cur' = n
  BY <1>1, <1>3 DEF outputVars
<1>16. Layout(base)'
  BY <1>1, LayoutKept, TrackIs
<1> QED
  BY <1>1, <1>2, <1>4, <1>14, <1>15, <1>16, Arrives

\* The buffer after each byte of a match.
Copying(n, f) ==
  f = [k \in 0..n |-> IF k = 0 THEN buffer
                      ELSE [f[k - 1] EXCEPT ![cur + k - 1] = f[k - 1][Source(k - 1)]]]

LEMMA CopyingExists ==
  ASSUME NEW n \in Nat
  PROVE  \E f : Copying(n, f)
<1> DEFINE More(b, k) == [b EXCEPT ![cur + k - 1] = b[Source(k - 1)]]
<1> DEFINE S == {i \in Nat : \E f : Copying(i, f)}
<1>0. \A i, f : Copying(i, f) <=> f = [k \in 0..i |-> IF k = 0 THEN buffer ELSE More(f[k - 1], k)]
  BY DEF Copying
<1> HIDE DEF More
<1>1. 0 \in S
  <2> DEFINE f == [i \in 0..0 |-> buffer]
  <2>1. f = [k \in 0..0 |-> IF k = 0 THEN buffer ELSE More(f[k - 1], k)]
    OBVIOUS
  <2>2. Copying(0, f)
    BY <1>0, <2>1
  <2> QED
    BY <2>2
<1>2. ASSUME NEW m \in S PROVE m + 1 \in S
  <2>1. PICK f : Copying(m, f)
    OBVIOUS
  <2> DEFINE g == [i \in 0..(m + 1) |-> IF i = m + 1 THEN More(f[m], m + 1) ELSE f[i]]
  <2>2. \A i \in 0..m : f[i] = IF i = 0 THEN buffer ELSE More(f[i - 1], i)
    BY <1>0, <2>1
  <2>3. \A i \in 0..(m + 1) : g[i] = IF i = 0 THEN buffer ELSE More(g[i - 1], i)
    BY <2>2
  <2>4. Copying(m + 1, g)
    BY <1>0, <2>3
  <2> HIDE DEF g
  <2>5. \E h : Copying(m + 1, h)
    BY <2>4
  <2>6. m + 1 \in Nat
    OBVIOUS
  <2> QED
    BY <2>5, <2>6
<1>3. S = Nat
  <2>1. S \in SUBSET Nat
    OBVIOUS
  <2> HIDE DEF S
  <2> QED
    BY <1>1, <1>2, <2>1, SetInduction
<1> QED
  BY <1>3

LEMMA CopyMatchIs ==
  ASSUME InflateTyped, CopyMatch, NEW m \in Nat, m = CopyNow
  PROVE  \E f : /\ f[0] = buffer /\ buffer' = f[m]
                /\ \A k \in 0..m - 1 : f[k + 1] = [f[k] EXCEPT ![cur + k] = f[k][Source(k)]]
<1>1. PICK f : f = CHOOSE g : Copying(m, g)
  OBVIOUS
<1>2. Copying(m, f)
  BY <1>1, CopyingExists
<1>3. buffer' = f[m]
  BY <1>1 DEF CopyMatch, CopyNow, Copying
<1>4. f[0] = buffer
  BY <1>2 DEF Copying
<1>a. \A j \in 0..m : j # 0 => f[j] = [f[j - 1] EXCEPT ![cur + j - 1] = f[j - 1][Source(j - 1)]]
  BY <1>2 DEF Copying
<1>5. ASSUME NEW k \in 0..m - 1 PROVE f[k + 1] = [f[k] EXCEPT ![cur + k] = f[k][Source(k)]]
  <2>1. cur \in Nat
    BY DEF InflateTyped
  <2>2. k + 1 \in 0..m /\ k + 1 # 0 /\ k + 1 - 1 = k /\ cur + (k + 1) - 1 = cur + k
    BY <2>1
  <2>3. f[k + 1] = [f[k + 1 - 1] EXCEPT ![cur + (k + 1) - 1] = f[k + 1 - 1][Source(k + 1 - 1)]]
    BY <1>a, <2>2
  <2> QED
    BY <2>2, <2>3
<1> QED
  BY <1>3, <1>4, <1>5

\* Each byte of a match is copied from where the content has the same one.
LEMMA CopyOnce ==
  ASSUME InflateTyped, Sound(entry), NEW base \in Nat, Turn(base), NEW n \in Nat, n = base + cur,
         Repeating(inf, n), NEW k \in Nat, k < inf.counter, cur + k < OutEnd,
         NEW buf, Window(buf, n + k)
  PROVE  Window([buf EXCEPT ![cur + k] = buf[Source(k)]], n + k + 1)
<1>1. PICK e \in Nat, c \in Nat, d \in Nat : e = OutEnd /\ c = cur /\ d = inf.dist
  BY OutEndIs DEF InflateTyped, Decoders
<1>2. entry \in Entries /\ inf.start \in Int /\ inf.counter \in Nat
  BY DEF InflateTyped, Decoders
<1>3. /\ d # 0 /\ d <= n /\ (Ring => d <= DictSize)
      /\ \A i \in n + 1..n + inf.counter : entry.claim[i] = entry.claim[i - d]
      /\ \A x \in Int : Masked(inf.start + x) = Masked(n + x)
  BY <1>1 DEF Repeating
<1>4. PICK p \in Int : p = n + k - d /\ p = n + (k - d) /\ k - d \in Int
  OBVIOUS
<1>5. Source(k) = Masked(p)
  <2>1. inf.start + k - d = inf.start + (k - d)
    BY <1>2
  <2> QED
    BY <1>1, <1>3, <1>4, <2>1 DEF Source
<1>6. n + k - e <= p
  <2>1. CASE Ring
    <3>1. e = DictSize
      BY <1>1, <2>1 DEF OutEnd
    <3> QED
      BY <1>3, <1>4, <2>1, <3>1
  <2>2. CASE ~Ring
    <3>1. Masked(base + 0) = Masked(0) /\ base + 0 = base
      BY DEF Turn
    <3>2. base = 0
      BY <2>2, <3>1 DEF Masked
    <3>3. n + k < e
      BY <1>1, <3>2
    <3> QED
      BY <1>3, <1>4, <3>3
  <2> QED
    BY <2>1, <2>2
<1>7. p \in 0..n + k - 1
  BY <1>3, <1>4
<1>8. n + k + 1 \in n + 1..n + inf.counter /\ n + k + 1 - d = p + 1
  BY <1>2, <1>4
<1>9. buf[Source(k)] = entry.claim[p + 1]
  BY <1>1, <1>5, <1>6, <1>7 DEF Window
<1>10. entry.claim[n + k + 1] = entry.claim[p + 1]
  BY <1>3, <1>8
<1>11. c + k \in 0..e - 1 /\ base + (c + k) = n + k /\ n + k \in Nat
  BY <1>1
<1>12. Masked(n + k) = c + k
  BY <1>1, <1>2, <1>11, SlotIs
<1>13. Window([buf EXCEPT ![c + k] = buf[Source(k)]], (n + k) + 1)
  BY <1>1, <1>2, <1>9, <1>10, <1>11, <1>12, WindowGrows
<1> QED
  BY <1>1, <1>13

LEMMA CopyOn ==
  ASSUME InflateTyped, Sound(entry), NEW k \in 0..DataEnd, NEW base \in Nat, OnTrack(k, base), CopyMatch
  PROVE  Progress'
<1>1. PICK m \in Nat : /\ m = CopyNow /\ cur + m <= OutEnd /\ m <= inf.counter
  BY CopyNowIs
<1>2. /\ UNCHANGED <<fixedVars, from, passed>> /\ outcome' = "running" /\ input' = input
      /\ inf.at = "copy" /\ cur' = cur + m
      /\ inf' = [inf EXCEPT !.counter = @ - m, !.start = @ + m,
                            !.at = IF m = inf.counter THEN "symbol" ELSE "copy"]
  BY <1>1 DEF CopyMatch, CopyNow, Decoding
<1>3. PICK n \in Nat, c \in Nat, e \in Nat : n = base + cur /\ c = cur /\ e = OutEnd
  BY TrackIs
<1>4. PICK s : s = State(k)
  OBVIOUS
<1>5. PICK l \in Nat, x \in Int : l = inf.counter /\ x = inf.start
  BY DEF InflateTyped, Decoders
<1>6. /\ s.at = "symbol" /\ Len(s.out) = n + l /\ Repeating(inf, n) /\ s.final = inf.final
      /\ Begins(entry.claim, s.out)
  BY <1>2, <1>3, <1>4, <1>5, TrackIs DEF Reached
<1>7. PICK f : /\ f[0] = buffer /\ buffer' = f[m]
               /\ \A i \in 0..m - 1 : f[i + 1] = [f[i] EXCEPT ![cur + i] = f[i][Source(i)]]
  BY <1>1, CopyMatchIs
<1>8. Window(buffer', n + m)
  <2> DEFINE S == {i \in 0..m : Window(f[i], n + i)}
  <2>1. 0 \in S
    <3>1. Window(buffer, n) /\ n + 0 = n
      BY <1>3, TrackIs
    <3> QED
      BY <1>7, <3>1
  <2>2. ASSUME NEW i \in 0..m - 1, i \in S PROVE i + 1 \in S
    <3>1. Window(f[i], n + i)
      BY <2>2
    <3>2. i \in Nat /\ i < inf.counter /\ cur + i < OutEnd
      BY <1>1, <1>3, <1>5
    <3>3. Turn(base)
      BY TrackIs
    <3>4. Window([f[i] EXCEPT ![cur + i] = f[i][Source(i)]], n + i + 1)
      BY <1>3, <1>6, <3>1, <3>2, <3>3, CopyOnce
    <3>5. n + i + 1 = n + (i + 1) /\ i + 1 \in 0..m
      OBVIOUS
    <3> QED
      BY <1>7, <3>4, <3>5
  <2> HIDE DEF S
  <2>3. m \in S
    <3>1. \A i \in 0..m : i \in S
      BY <2>1, <2>2, UpTo
    <3> QED
      BY <3>1
  <2> QED
    BY <1>7, <2>3 DEF S
<1>9. base + cur' = n + m /\ n + m <= n + l
  BY <1>1, <1>2, <1>3, <1>5
<1>10. n + m <= Len(entry.claim)
  <2>1. n + l <= Len(entry.claim)
    BY <1>6 DEF Begins
  <2>2. Len(entry.claim) \in Nat
    BY TrackIs
  <2> QED
    BY <1>9, <2>1, <2>2
<1>11. Layout(base)'
  BY <1>2, <1>8, <1>9, <1>10, TrackIs, LayoutGrows
<1>12. Reached(inf', s, n + m)
  <2>1. CASE m = l
    <3>1. inf' = [inf EXCEPT !.counter = inf.counter - m, !.start = inf.start + m, !.at = "symbol"]
      BY <1>2, <1>5, <2>1
    <3>2. inf'.at = "symbol" /\ inf'.final = inf.final
      BY <3>1 DEF InflateTyped, Decoders
    <3> QED
      BY <1>6, <2>1, <3>2, PlaceReached
  <2>2. CASE m # l
    <3>1. PICK y, z : y = l - m /\ z = x + m
      OBVIOUS
    <3>2. inf' = [inf EXCEPT !.counter = y, !.start = z, !.at = "copy"]
      BY <1>2, <1>5, <2>2, <3>1
    <3>3. /\ inf'.at = "copy" /\ inf'.counter = y /\ inf'.start = z
          /\ inf'.final = inf.final /\ inf'.dist = inf.dist
      BY <3>2 DEF InflateTyped, Decoders
    <3>4. /\ inf.dist \in Nat \ {0} /\ inf.dist <= n /\ (Ring => inf.dist <= DictSize)
          /\ \A i \in n + 1..n + l : entry.claim[i] = entry.claim[i - inf.dist]
          /\ \A d \in Int : Masked(x + d) = Masked(n + d)
      BY <1>5, <1>6 DEF Repeating
    <3>5. y # 0 /\ n + m + y = n + l
      BY <2>2, <3>1
    <3>6. inf.dist <= n + m
      BY <3>4
    <3>7. \A i \in n + m + 1..n + m + y : entry.claim[i] = entry.claim[i - inf.dist]
      <4>1. n + m + 1..n + m + y \subseteq n + 1..n + l
        BY <3>5
      <4> QED
        BY <3>4, <4>1
    <3>8. ASSUME NEW d \in Int PROVE Masked(z + d) = Masked(n + m + d)
      <4>1. m + d \in Int /\ z + d = x + (m + d) /\ n + m + d = n + (m + d)
        BY <3>1
      <4> QED
        BY <3>4, <4>1
    <3>9. Repeating(inf', n + m)
      BY <3>3, <3>4, <3>5, <3>6, <3>7, <3>8 DEF Repeating
    <3> QED
      BY <1>6, <3>3, <3>5, <3>9 DEF Reached
  <2> QED
    BY <2>1, <2>2
<1> QED
  BY <1>2, <1>4, <1>9, <1>11, <1>12, TrackIs, Arrives

\* What m bytes of a stored block stand for.
RawUpTo(k, n, m) ==
  /\ State(k + m).final = State(k).final /\ Len(State(k + m).out) = n + m
  /\ m < State(k).n => State(k + m).at = "raw" /\ State(k + m).n = State(k).n - m
  /\ m = State(k).n => State(k + m).at = OverOf(State(k))
  /\ \A j \in 1..m : entry.claim[n + j] = entry.data[k + j].v

LEMMA RawRun ==
  ASSUME entry \in Entries, Sound(entry), NEW k \in 0..DataEnd, State(k).at = "raw",
         NEW n \in Nat, Len(State(k).out) = n, NEW m \in Nat, m <= State(k).n
  PROVE  k + m \in 0..DataEnd /\ RawUpTo(k, n, m)
<1>1. PICK claim \in Seq(Nat) : claim = entry.claim
  BY OutEndIs
<1>2. PICK l \in Nat : l = State(k).n /\ l # 0
  <2>1. Proper(State(k))
    BY SoundIs
  <2> QED
    BY <2>1 DEF Proper, Meaningful
<1>3. PICK d \in Nat : d = DataEnd
  BY FirstIs
<1> DEFINE S == {i \in 0..m : k + i \in 0..d /\ RawUpTo(k, n, i)}
<1>4. 0 \in S
  <2>1. k + 0 = k /\ n + 0 = n /\ 0 < l /\ l - 0 = l
    BY <1>2
  <2>2. RawUpTo(k, n, 0)
    BY <1>2, <2>1 DEF RawUpTo
  <2> QED
    BY <1>3, <2>1, <2>2
<1>5. ASSUME NEW i \in 0..m - 1, i \in S PROVE i + 1 \in S
  <2>1. k + i \in 0..d /\ RawUpTo(k, n, i) /\ i < l /\ i \in Nat
    BY <1>2, <1>5
  <2>2. PICK j \in Nat : j = k + i /\ j \in 0..d /\ j + 1 = k + (i + 1)
    BY <1>3, <2>1
  <2>3. PICK s, u, r : s = State(j) /\ u = entry.data[j + 1] /\ r = State(j + 1)
    OBVIOUS
  <2>4. /\ s.final = State(k).final /\ Len(s.out) = n + i /\ s.at = "raw" /\ s.n = l - i
        /\ \A h \in 1..i : claim[n + h] = entry.data[k + h].v
    BY <1>1, <1>2, <2>1, <2>2, <2>3 DEF RawUpTo
  <2>5. /\ j + 1 \in 0..d /\ u \in Units /\ r = Meaning(s, u) /\ Begins(claim, r.out)
    BY <1>1, <1>3, <2>2, <2>3, <2>4, NextIs
  <2>6. Proper(s)
    BY <1>3, <2>2, <2>3, SoundIs
  <2>7. /\ r.n = s.n - 1 /\ r.final = s.final /\ r.out = Append(s.out, u.v)
        /\ r.at = (IF s.n = 1 THEN OverOf(s) ELSE "raw")
    BY <2>4, <2>5, <2>6, AfterByte
  <2>8. u.v \in Nat /\ n + i \in Nat
    BY <2>1, <2>5, UnitIs
  <2>9. Len(r.out) = n + i + 1 /\ claim[n + i + 1] = u.v
    BY <2>4, <2>5, <2>6, <2>7, <2>8, ByteIs
  <2>10. /\ n + i + 1 = n + (i + 1) /\ l - i - 1 = l - (i + 1)
         /\ (i + 1 < l => l - i # 1) /\ (i + 1 = l => l - i = 1)
    BY <2>1
  <2>11. OverOf(s) = OverOf(State(k))
    BY <2>4 DEF OverOf
  <2>12. \A h \in 1..i + 1 : claim[n + h] = entry.data[k + h].v
    <3>1. \A h \in 1..i + 1 : h \in 1..i \/ h = i + 1
      BY <2>1
    <3> QED
      BY <2>2, <2>3, <2>4, <2>9, <2>10, <3>1
  <2>13. RawUpTo(k, n, i + 1)
    BY <1>1, <1>2, <2>2, <2>3, <2>4, <2>7, <2>9, <2>10, <2>11, <2>12 DEF RawUpTo
  <2>14. i + 1 \in 0..m
    OBVIOUS
  <2> QED
    BY <2>2, <2>5, <2>13, <2>14
<1> HIDE DEF S
<1>6. m \in S
  <2>1. \A i \in 0..m : i \in S
    BY <1>4, <1>5, UpTo
  <2> QED
    BY <2>1
<1> QED
  BY <1>3, <1>6 DEF S

\* m bytes of w are written from c on, and are the content from n on.
Storing(buf, c, m, w) ==
  [i \in DOMAIN buf |-> IF i \in c..c + m - 1 THEN w[i - c + 1].v ELSE buf[i]]
Content(w, n, m) == \A i \in 1..m : w[i].v = entry.claim[n + i]

\* Bytes are written behind the others.
LEMMA WindowRun ==
  ASSUME entry \in Entries, NEW base \in Nat, Turn(base), NEW c \in Nat, NEW n \in Nat, n = base + c,
         NEW buf, Window(buf, n), NEW m \in Nat, c + m <= OutEnd,
         NEW w, Content(w, n, m), NEW b, b = Storing(buf, c, m, w)
  PROVE  Window(b, n + m)
<1>1. PICK e \in Nat : e = OutEnd
  BY OutEndIs
<1>2. /\ DOMAIN buf = 0..e - 1 /\ DOMAIN b = 0..e - 1
      /\ \A i \in 0..e - 1 : b[i] = IF i \in c..c + m - 1 THEN w[i - c + 1].v ELSE buf[i]
      /\ \A i \in 1..m : w[i].v = entry.claim[n + i]
  BY <1>1 DEF Window, Storing, Content
<1>3. ASSUME NEW t \in 0..m - 1 PROVE Masked(n + t) = c + t
  <2>1. c + t \in 0..e - 1 /\ base + (c + t) = n + t
    BY <1>1
  <2> QED
    BY <1>1, <2>1, SlotIs
<1>4. ASSUME NEW j \in 0..n + m - 1, n + m - e <= j PROVE b[Masked(j)] = entry.claim[j + 1]
  <2>1. CASE j >= n
    <3>1. PICK t \in 0..m - 1 : j = n + t
      <4>1. j - n \in 0..m - 1 /\ j = n + (j - n)
        BY <2>1
      <4> QED
        BY <4>1
    <3>2. Masked(j) = c + t
      BY <1>3, <3>1
    <3>3. c + t \in 0..e - 1 /\ c + t \in c..c + m - 1 /\ c + t - c + 1 = t + 1
      BY <1>1
    <3>4. t + 1 \in 1..m /\ n + (t + 1) = j + 1
      BY <3>1
    <3>5. b[c + t] = w[t + 1].v
      BY <1>2, <3>3
    <3>6. w[t + 1].v = entry.claim[j + 1]
      BY <1>2, <3>4
    <3> QED
      BY <3>2, <3>5, <3>6
  <2>2. CASE j < n
    <3>1. j \in 0..n - 1 /\ n - e <= j /\ j \in Int
      BY <1>1, <1>4, <2>2
    <3>2. ASSUME Masked(j) \in c..c + m - 1 PROVE FALSE
      <4>1. PICK t \in 0..m - 1 : Masked(j) = c + t
        <5>1. PICK y \in c..c + m - 1 : y = Masked(j)
          BY <3>2
        <5>2. y - c \in 0..m - 1 /\ y = c + (y - c)
          OBVIOUS
        <5> QED
          BY <5>1, <5>2
      <4>2. Masked(n + t) = c + t
        BY <1>3
      <4>3. n + t \in Int /\ j < n + t /\ n + t - j < e
        BY <1>4, <2>2
      <4> QED
        BY <1>1, <3>1, <4>1, <4>2, <4>3, MaskedIs
    <3>3. Masked(j) \in 0..e - 1
      <4>1. CASE Ring
        BY <1>1, <3>1, <4>1, MaskedIs
      <4>2. CASE ~Ring
        <5>1. Masked(j) = j /\ Masked(base + 0) = Masked(0) /\ base + 0 = base
          BY <4>2 DEF Masked, Turn
        <5>2. base = 0
          BY <4>2, <5>1 DEF Masked
        <5> QED
          BY <1>1, <3>1, <5>1, <5>2
      <4> QED
        BY <4>1, <4>2
    <3>4. buf[Masked(j)] = entry.claim[j + 1]
      BY <1>1, <3>1 DEF Window
    <3> QED
      BY <1>2, <3>2, <3>3, <3>4
  <2>3. j >= n \/ j < n
    OBVIOUS
  <2> QED
    BY <2>1, <2>2, <2>3
<1>5. PICK x : x = n + m
  OBVIOUS
<1>6. DOMAIN b = 0..e - 1 /\ \A j \in 0..x - 1 : x - e <= j => b[Masked(j)] = entry.claim[j + 1]
  BY <1>2, <1>4, <1>5
<1>7. Window(b, x)
  BY <1>1, <1>6 DEF Window
<1> QED
  BY <1>5, <1>7

\* The stored bytes that are taken are the next of the data.
LEMMA RawReads ==
  ASSUME InflateTyped, StoredBytes, NEW k \in Nat, Remains(entry.data, input, k), inf.counter # 0,
         NEW m \in Nat, m = RawNow
  PROVE  /\ Remains(entry.data, input', k + m)
         /\ \A i \in 1..m : RawTaken[i] = entry.data[k + i]
<1>1. input' = IF input.bits # <<>> THEN [input EXCEPT !.bits = Tail(@)]
               ELSE [input EXCEPT !.given = SubSeq(@, m + 1, Len(@))]
  BY DEF StoredBytes, RawNow
<1>2. entry.data \in Seq(Units) /\ input \in Inputs
  BY OutEndIs DEF InflateTyped
<1>3. CASE input.bits # <<>>
  <2>1. Len(RawTaken) = 1 /\ RawTaken[1] = input.bits[1]
    BY <1>3, RawIs
  <2>2. m = 1
    <3>1. m \in {1, OutEnd - cur, inf.counter} /\ m <= 1
      BY <2>1, RawIs
    <3>2. cur < OutEnd /\ OutEnd \in Nat /\ cur \in Nat
      BY OutEndIs DEF InflateTyped, StoredBytes
    <3> QED
      BY <3>1, <3>2
  <2>3. Next1(input) = entry.data[k + 1] /\ Remains(entry.data, After(input), k + 1)
    BY <1>2, <1>3, ReadsOne
  <2>4. After(input) = input' /\ Next1(input) = RawTaken[1]
    BY <1>1, <1>3, <2>1 DEF After, Next1
  <2>5. \A i \in 1..m : i = 1
    BY <2>2
  <2> QED
    BY <2>2, <2>3, <2>4, <2>5
<1>4. CASE input.bits = <<>>
  <2>1. m <= Len(input.given) /\ RawTaken = input.given
    BY <1>4, RawIs
  <2>2. input.given \in Seq(Units)
    BY <1>2, InputIs
  <2>3. PICK q : q = SubSeq(input.given, m + 1, Len(input.given))
    OBVIOUS
  <2>4. q \in Seq(Units)
    BY <2>1, <2>2, <2>3, PieceIs
  <2>5. /\ Remains(entry.data, Fed(input.rest, q, input.bits), k + m)
        /\ \A i \in 1..m : input.given[i] = entry.data[k + i]
    BY <1>2, <1>4, <2>1, <2>3, <2>4, RemainsUsed, ZenonT(60)
  <2>6. input' = Fed(input.rest, q, input.bits)
    <3>1. input' = [input EXCEPT !.given = q]
      BY <1>1, <1>4, <2>3
    <3> QED
      BY <1>2, <3>1, InputBut
  <2> QED
    BY <2>1, <2>5, <2>6
<1> QED
  BY <1>3, <1>4

LEMMA RawOn ==
  ASSUME InflateTyped, Sound(entry), NEW k \in 0..DataEnd, NEW base \in Nat, OnTrack(k, base), StoredBytes
  PROVE  Progress'
<1>1. PICK m \in Nat : m = RawNow /\ cur + m <= OutEnd /\ m <= inf.counter
  BY RawIs
<1>2. /\ UNCHANGED <<fixedVars, from, passed>> /\ outcome' = "running"
      /\ inf.at = "raw" /\ cur' = cur + m
      /\ buffer' = [i \in DOMAIN buffer |->
                      IF i \in cur..cur + m - 1 THEN RawTaken[i - cur + 1].v ELSE buffer[i]]
      /\ inf' = [inf EXCEPT !.counter = @ - m, !.at = IF m = inf.counter THEN BlockOver ELSE "raw"]
  BY <1>1 DEF StoredBytes, RawNow, Decoding
<1>3. PICK n \in Nat, c \in Nat : n = base + cur /\ c = cur
  BY TrackIs
<1>4. PICK l \in Nat : l = inf.counter
  BY DEF InflateTyped, Decoders
<1>5. /\ State(k).at = "raw" /\ Len(State(k).out) = n /\ State(k).n = l /\ State(k).final = inf.final
      /\ l # 0
  <2>1. /\ State(k).at = "raw" /\ Len(State(k).out) = n /\ State(k).n = l /\ State(k).final = inf.final
    BY <1>2, <1>3, <1>4, TrackIs DEF Reached
  <2>2. Proper(State(k))
    BY TrackIs
  <2> QED
    BY <2>1, <2>2 DEF Proper
<1>6. k \in Nat /\ entry \in Entries
  BY TrackIs
<1>7. k + m \in 0..DataEnd /\ RawUpTo(k, n, m)
  BY <1>1, <1>4, <1>5, <1>6, RawRun
<1>8. Remains(entry.data, input', k + m) /\ \A i \in 1..m : RawTaken[i] = entry.data[k + i]
  BY <1>1, <1>4, <1>5, <1>6, TrackIs, RawReads
<1>9. PICK s : s = State(k + m)
  OBVIOUS
<1>10. /\ s.final = inf.final /\ Len(s.out) = n + m
       /\ m < l => s.at = "raw" /\ s.n = l - m
       /\ m = l => s.at = OverOf(State(k))
       /\ \A j \in 1..m : entry.claim[n + j] = entry.data[k + j].v
  BY <1>5, <1>7, <1>9 DEF RawUpTo
<1>11. \A i \in 1..m : RawTaken[i].v = entry.claim[n + i]
  BY <1>8, <1>10
<1>12. Window(buffer', n + m)
  <2>1. Window(buffer, n) /\ Turn(base) /\ c + m <= OutEnd
    BY <1>1, <1>3, TrackIs
  <2>2. buffer' = [i \in DOMAIN buffer |-> IF i \in c..c + m - 1 THEN RawTaken[i - c + 1].v ELSE buffer[i]]
    BY <1>2, <1>3
  <2>3. n = base + c
    BY <1>3
  <2>4. PICK b, w : b = buffer' /\ w = RawTaken
    OBVIOUS
  <2>5. Content(w, n, m) /\ b = Storing(buffer, c, m, w)
    BY <1>11, <2>2, <2>4 DEF Content, Storing
  <2>6. Window(b, n + m)
    BY <1>6, <2>1, <2>3, <2>5, WindowRun
  <2> QED
    BY <2>4, <2>6
<1>13. base + cur' = n + m
  BY <1>2, <1>3
<1>14. n + m <= Len(entry.claim)
  <2>1. Begins(entry.claim, s.out)
    BY <1>6, <1>7, <1>9, SoundIs
  <2> QED
    BY <1>10, <2>1 DEF Begins
<1>15. Layout(base)'
  BY <1>2, <1>12, <1>13, <1>14, TrackIs, LayoutGrows
<1>16. Reached(inf', s, n + m)
  <2>1. PICK y, place : y = l - m /\ place = IF m = l THEN BlockOver ELSE "raw"
    OBVIOUS
  <2>2. inf' = [inf EXCEPT !.counter = y, !.at = place]
    BY <1>2, <1>4, <2>1
  <2>3. inf'.at = place /\ inf'.counter = y /\ inf'.final = inf.final
    BY <2>2 DEF InflateTyped, Decoders
  <2>4. CASE m = l
    <3>1. s.at = place /\ place \in {"done", "block"}
      BY <1>5, <1>10, <2>1, <2>4 DEF OverOf, BlockOver
    <3> QED
      BY <1>10, <2>3, <3>1, PlaceReached
  <2>5. CASE m # l
    <3>1. m < l
      BY <1>1, <1>4, <2>5
    <3> QED
      BY <1>10, <2>1, <2>3, <2>5, <3>1, CountReached
  <2> QED
    BY <2>4, <2>5
<1> QED
  BY <1>2, <1>7, <1>8, <1>9, <1>13, <1>15, <1>16, Arrives

\* The data of a sound entry does not end in a stored block.
LEMMA TruncatedNever ==
  ASSUME InflateTyped, Sound(entry), NEW k \in 0..DataEnd, NEW base \in Nat, OnTrack(k, base)
  PROVE  ~StoredTruncated
<1> SUFFICES ASSUME StoredTruncated PROVE FALSE
  OBVIOUS
<1>1. inf.at = "raw" /\ input.bits = <<>> /\ input.given = <<>> /\ input.rest = <<>>
  BY DEF StoredTruncated, InputEmpty
<1>2. /\ entry \in Entries /\ entry.data \in Seq(Units) /\ input \in Inputs /\ k \in Nat
      /\ Remains(entry.data, input, k)
  BY OutEndIs DEF InflateTyped, OnTrack
<1>3. k = DataEnd
  BY <1>1, <1>2, RemainsIs DEF DataEnd
<1>4. State(k).at = "raw"
  BY <1>1 DEF OnTrack, Reached
<1> QED
  BY <1>2, <1>3, <1>4, SoundIs

\* Reading ahead loses nothing.
LEMMA AheadRemains ==
  ASSUME InflateTyped, Fast, NEW k \in Nat, Remains(entry.data, input, k)
  PROVE  Remains(entry.data, ReadAhead, k)
<1>1. input \in Inputs /\ entry.data \in Seq(Units) /\ Ahead \in Nat /\ Ahead <= Len(input.given)
  BY OutEndIs DEF InflateTyped, Fast
<1>2. input.given \in Seq(Units)
  BY <1>1, InputIs
<1>3. CASE Len(input.bits) >= 2
  BY <1>3 DEF ReadAhead
<1>4. CASE ~(Len(input.bits) >= 2)
  <2>1. PICK p, q : p = SubSeq(input.given, 1, Ahead) /\ q = SubSeq(input.given, Ahead + 1, Len(input.given))
    OBVIOUS
  <2>2. p \in Seq(Units) /\ q \in Seq(Units)
    BY <1>1, <1>2, <2>1, PieceIs
  <2>3. Remains(entry.data, Fed(input.rest, q, input.bits \o p), k)
    BY <1>1, <2>1, <2>2, RemainsAhead
  <2>4. PICK b : b = input.bits \o p
    OBVIOUS
  <2>5. ReadAhead = [input EXCEPT !.bits = b, !.given = q]
    BY <1>4, <2>1, <2>4 DEF ReadAhead
  <2>6. [input EXCEPT !.bits = b, !.given = q] = Fed(input.rest, q, b)
    <3>1. [input EXCEPT !.bits = b, !.given = q] = [[input EXCEPT !.bits = b] EXCEPT !.given = q]
      BY <1>1 DEF Inputs
    <3>2. [input EXCEPT !.bits = b] = Fed(input.rest, input.given, b)
      BY <1>1, InputBut
    <3>3. [Fed(input.rest, input.given, b) EXCEPT !.given = q] = Fed(input.rest, q, b)
      BY DEF Fed
    <3> QED
      BY <3>1, <3>2, <3>3
  <2> QED
    BY <2>3, <2>4, <2>5, <2>6
<1> QED
  BY <1>3, <1>4

\* What a literal stands for.
LEMMA LiteralIs ==
  ASSUME entry \in Entries, Sound(entry), NEW k \in 0..DataEnd, State(k).at = "symbol",
         NEW n \in Nat, Len(State(k).out) = n, NEW u, u = entry.data[k + 1], u.kind = "lit"
  PROVE  /\ k + 1 \in 0..DataEnd /\ State(k + 1).at = "symbol" /\ State(k + 1).final = State(k).final
         /\ Len(State(k + 1).out) = n + 1 /\ n + 1 <= Len(entry.claim) /\ entry.claim[n + 1] = u.v
<1>1. PICK s, r : s = State(k) /\ r = State(k + 1)
  OBVIOUS
<1>2. /\ k + 1 \in 0..DataEnd /\ u \in Units /\ r = Meaning(s, u) /\ r.at # "wrong"
      /\ Begins(entry.claim, r.out)
  BY <1>1, NextIs
<1>3. Proper(s) /\ s.at = "symbol" /\ Len(s.out) = n
  BY <1>1, SoundIs
<1>4. r.final = s.final /\ r.at = "symbol" /\ r.out = Append(s.out, u.v)
  BY <1>2, <1>3, AfterSymbol
<1>5. u.v \in Nat /\ entry.claim \in Seq(Nat)
  BY <1>2, UnitIs, OutEndIs
<1>6. Len(r.out) = n + 1 /\ n + 1 <= Len(entry.claim) /\ entry.claim[n + 1] = u.v
  BY <1>2, <1>3, <1>4, <1>5, ByteIs
<1> QED
  BY <1>1, <1>2, <1>4, <1>6

\* What another symbol stands for.
LEMMA OtherIs ==
  ASSUME entry \in Entries, Sound(entry), inf \in Decoders,
         NEW k \in 0..DataEnd, State(k).at = "symbol", State(k).final = inf.final,
         NEW n, Len(State(k).out) = n, NEW u, u = entry.data[k + 1], u.kind # "lit", NotLiteral(u)
  PROVE  k + 1 \in 0..DataEnd /\ Reached(inf', State(k + 1), n)
<1>1. PICK s, r : s = State(k) /\ r = State(k + 1)
  OBVIOUS
<1>2. k + 1 \in 0..DataEnd /\ u \in Units /\ r = Meaning(s, u) /\ r.at # "wrong"
  BY <1>1, NextIs
<1>3. Proper(s) /\ s.at = "symbol" /\ Len(s.out) = n /\ s.final = inf.final
  BY <1>1, SoundIs
<1>4. Reached(inf', r, n)
  BY <1>2, <1>3, NotLiteralOn
<1> QED
  BY <1>1, <1>2, <1>4

LEMMA TwoOn ==
  ASSUME InflateTyped, Sound(entry), NEW k \in 0..DataEnd, NEW base \in Nat, OnTrack(k, base), TwoSymbols
  PROVE  Progress'
<1>1. PICK read : read = ReadAhead
  OBVIOUS
<1>2. PICK u1, u2 : u1 = read.bits[1] /\ u2 = read.bits[2]
  OBVIOUS
<1>3. /\ outcome = "running" /\ inf.at = "symbol" /\ Fast
      /\ UNCHANGED <<fixedVars, from, passed, outcome>>
      /\ \/ /\ u1.kind # "lit" /\ input' = After(read) /\ NotLiteral(u1) /\ UNCHANGED <<buffer, cur>>
         \/ /\ u1.kind = "lit" /\ u2.kind # "lit" /\ input' = After(After(read))
            /\ buffer' = [buffer EXCEPT ![cur] = u1.v] /\ cur' = cur + 1 /\ NotLiteral(u2)
         \/ /\ u1.kind = "lit" /\ u2.kind = "lit" /\ input' = After(After(read))
            /\ buffer' = [buffer EXCEPT ![cur] = u1.v, ![cur + 1] = u2.v] /\ cur' = cur + 2
            /\ UNCHANGED inf
  BY <1>1, <1>2, TwoSymbolsAre
<1>4. PICK n \in Nat, c \in Nat, e \in Nat : n = base + cur /\ c = cur /\ e = OutEnd
  BY TrackIs
<1>5. /\ entry \in Entries /\ entry.data \in Seq(Units) /\ k \in Nat /\ inf \in Decoders /\ c + 2 <= e
  <2>1. entry \in Entries /\ entry.data \in Seq(Units) /\ inf \in Decoders
    BY OutEndIs DEF InflateTyped
  <2>2. k \in Nat
    BY <2>1, FirstIs
  <2>3. c + 2 <= e
    BY <1>3, <1>4 DEF Fast
  <2> QED
    BY <2>1, <2>2, <2>3
<1>6. /\ State(k).at = "symbol" /\ State(k).final = inf.final /\ Len(State(k).out) = n
  BY <1>3, <1>4, TrackIs DEF Reached
<1>7. /\ read \in Inputs /\ Len(read.bits) >= 2 /\ Len(read.bits) \in Nat /\ Remains(entry.data, read, k)
  BY <1>1, <1>3, <1>5, ReadAheadTyped, AheadRemains, TrackIs
<1>8. read.bits \in Seq(Units) /\ read.bits # <<>>
  BY <1>7, InputIs
<1>9. u1 = entry.data[k + 1] /\ Remains(entry.data, After(read), k + 1) /\ After(read) \in Inputs
  BY <1>2, <1>5, <1>7, <1>8, ReadsOne, AfterTyped DEF Next1
<1>10. u2 = entry.data[k + 1 + 1] /\ Remains(entry.data, After(After(read)), k + 1 + 1)
  <2>1. PICK t : t = Tail(read.bits)
    OBVIOUS
  <2>2. t \in Seq(Units) /\ Len(t) = Len(read.bits) - 1 /\ \A i \in 1..Len(read.bits) - 1 : t[i] = read.bits[i + 1]
    BY <1>8, <2>1, TailIs
  <2>3. After(read).bits = t
    <3>1. After(read) = Fed(read.rest, read.given, t)
      BY <1>7, <1>8, <2>1, InputBut DEF After
    <3>2. read.rest \in Seq(Units) /\ read.given \in Seq(Units)
      BY <1>7, InputIs
    <3>3. Fed(read.rest, read.given, t).bits = t
      BY <2>2, <3>2, FedIs
    <3> QED
      BY <3>1, <3>3
  <2>4. 1 \in 1..Len(read.bits) - 1 /\ 1 + 1 = 2
    BY <1>7
  <2>5. t[1] = u2
    BY <1>2, <2>2, <2>4
  <2>6. t # <<>>
    BY <1>7, <2>2
  <2>7. Next1(After(read)) = u2
    BY <2>3, <2>5, <2>6 DEF Next1
  <2>8. k + 1 \in Nat /\ After(read).bits # <<>>
    BY <1>5, <2>3, <2>6
  <2> QED
    BY <1>5, <1>9, <2>7, <2>8, ReadsOne
<1>11. ASSUME u1.kind = "lit"
       PROVE  /\ k + 1 \in 0..DataEnd /\ State(k + 1).at = "symbol" /\ State(k + 1).final = inf.final
              /\ Len(State(k + 1).out) = n + 1 /\ n + 1 <= Len(entry.claim) /\ entry.claim[n + 1] = u1.v
  BY <1>5, <1>6, <1>9, <1>11, LiteralIs
<1>12. CASE u1.kind # "lit" /\ input' = After(read) /\ NotLiteral(u1) /\ UNCHANGED <<buffer, cur>>
  <2>1. k + 1 \in 0..DataEnd /\ Reached(inf', State(k + 1), n)
    BY <1>5, <1>6, <1>9, <1>12, OtherIs
  <2>2. Layout(base)'
    BY <1>3, <1>12, TrackIs, LayoutKept DEF outputVars
  <2>3. base + cur' = n /\ outcome' # "failed"
    BY <1>3, <1>4, <1>12
  <2> QED
    BY <1>3, <1>9, <1>12, <2>1, <2>2, <2>3, Arrives
<1>13. CASE /\ u1.kind = "lit" /\ u2.kind # "lit" /\ input' = After(After(read))
            /\ buffer' = [buffer EXCEPT ![cur] = u1.v] /\ cur' = cur + 1 /\ NotLiteral(u2)
  <2>1. k + 1 + 1 \in 0..DataEnd /\ Reached(inf', State(k + 1 + 1), n + 1)
    BY <1>5, <1>10, <1>11, <1>13, OtherIs
  <2>2. Layout(base)'
    <3>1. cur < OutEnd
      BY <1>4, <1>5
    <3>2. base + cur + 1 <= Len(entry.claim) /\ buffer' = [buffer EXCEPT ![cur] = entry.claim[base + cur + 1]]
      BY <1>4, <1>11, <1>13
    <3> QED
      BY <1>3, <1>13, <3>1, <3>2, TrackIs, Writes
  <2>3. base + cur' = n + 1 /\ outcome' # "failed"
    BY <1>3, <1>4, <1>13
  <2> QED
    BY <1>3, <1>10, <1>13, <2>1, <2>2, <2>3, Arrives
<1>14. CASE /\ u1.kind = "lit" /\ u2.kind = "lit" /\ input' = After(After(read))
            /\ buffer' = [buffer EXCEPT ![cur] = u1.v, ![cur + 1] = u2.v] /\ cur' = cur + 2
            /\ UNCHANGED inf
  <2>1. /\ k + 1 + 1 \in 0..DataEnd /\ State(k + 1 + 1).at = "symbol" /\ State(k + 1 + 1).final = inf.final
        /\ Len(State(k + 1 + 1).out) = n + 1 + 1 /\ n + 1 + 1 <= Len(entry.claim)
        /\ entry.claim[n + 1 + 1] = u2.v
    <3>1. PICK j \in 0..DataEnd, i \in Nat : j = k + 1 /\ i = n + 1
      BY <1>11, <1>14
    <3>2. /\ State(j).at = "symbol" /\ State(j).final = inf.final /\ Len(State(j).out) = i
          /\ u2 = entry.data[j + 1] /\ u2.kind = "lit"
      BY <1>10, <1>11, <1>14, <3>1
    <3>3. /\ j + 1 \in 0..DataEnd /\ State(j + 1).at = "symbol" /\ State(j + 1).final = State(j).final
          /\ Len(State(j + 1).out) = i + 1 /\ i + 1 <= Len(entry.claim) /\ entry.claim[i + 1] = u2.v
      BY <1>5, <3>1, <3>2, LiteralIs
    <3> QED
      BY <3>1, <3>2, <3>3
  <2>2. Reached(inf', State(k + 1 + 1), n + 1 + 1)
    <3>1. inf'.at = "symbol" /\ inf'.final = inf.final
      BY <1>3, <1>14
    <3> QED
      BY <2>1, <3>1, PlaceReached
  <2>3. PICK b1, b2 : b1 = [buffer EXCEPT ![c] = u1.v] /\ b2 = [b1 EXCEPT ![c + 1] = u2.v]
    OBVIOUS
  <2>4. buffer' = b2
    BY <1>4, <1>14, <2>3
  <2>5. /\ c \in 0..e - 1 /\ c + 1 \in 0..e - 1 /\ base + c = n /\ base + (c + 1) = n + 1 /\ n + 1 \in Nat
    BY <1>4, <1>5
  <2>6. Masked(n) = c /\ Masked(n + 1) = c + 1
    BY <1>4, <1>5, <2>5, SlotIs, TrackIs
  <2>7. Window(buffer, n)
    BY <1>4, TrackIs
  <2>8. Window(b1, n + 1)
    BY <1>4, <1>5, <1>11, <1>14, <2>3, <2>5, <2>6, <2>7, WindowGrows
  <2>9. Window(b2, n + 1 + 1)
    BY <1>4, <1>5, <2>1, <2>3, <2>5, <2>6, <2>8, WindowGrows
  <2>10. base + cur' = n + 1 + 1 /\ outcome' # "failed"
    BY <1>3, <1>4, <1>14
  <2>11. Layout(base)'
    BY <1>3, <2>1, <2>4, <2>9, <2>10, TrackIs, LayoutGrows
  <2> QED
    BY <1>3, <1>10, <1>14, <2>1, <2>2, <2>10, <2>11, Arrives
<1> QED
  BY <1>3, <1>12, <1>13, <1>14

\* Output without a ring has room for all that is to come.
LEMMA RoomLeft ==
  ASSUME InflateTyped, Sound(entry), NEW k \in 0..DataEnd, NEW base \in Nat, OnTrack(k, base), ~Ring
  PROVE  ~HasMoreOutput
<1> SUFFICES ASSUME HasMoreOutput PROVE FALSE
  OBVIOUS
<1>1. PICK n \in Nat, l \in Nat : n = base + cur /\ l = Len(entry.claim)
  BY TrackIs
<1>2. n >= l
  <2>1. cur >= OutEnd /\ OutEnd = l /\ cur \in Nat
    BY <1>1, TrackIs DEF HasMoreOutput, OutEnd
  <2> QED
    BY <1>1, <2>1
<1>3. PICK s : s = State(k)
  OBVIOUS
<1>4. Reached(inf, s, n) /\ Begins(entry.claim, s.out) /\ Proper(s) /\ entry \in Entries
  BY <1>1, <1>3, TrackIs
<1>5. inf.at \in {"raw", "literal", "copy"} /\ inf.counter \in Nat
  BY DEF HasMoreOutput, InflateTyped, Decoders
<1>6. CASE inf.at = "raw"
  <2>1. s.at = "raw" /\ Len(s.out) = n
    BY <1>4, <1>6 DEF Reached
  <2>2. s.n \in Nat /\ s.n # 0
    BY <1>4, <2>1 DEF Proper, Meaningful
  <2>3. 1 \in Nat /\ 1 <= State(k).n
    BY <1>3, <2>2
  <2>4. k + 1 \in 0..DataEnd /\ RawUpTo(k, n, 1)
    BY <1>3, <1>4, <2>1, <2>3, RawRun
  <2>5. Len(State(k + 1).out) = n + 1
    BY <2>4 DEF RawUpTo
  <2>6. Begins(entry.claim, State(k + 1).out)
    BY <1>4, <2>4, SoundIs
  <2> QED
    BY <1>1, <1>2, <2>5, <2>6 DEF Begins
<1>7. CASE inf.at = "literal"
  BY <1>1, <1>2, <1>4, <1>7 DEF Reached, Begins
<1>8. CASE inf.at = "copy"
  <2>1. Len(s.out) = n + inf.counter /\ inf.counter # 0
    BY <1>4, <1>8 DEF Reached, Repeating
  <2>2. n + inf.counter <= l
    BY <1>1, <1>4, <2>1 DEF Begins
  <2> QED
    BY <1>2, <1>5, <2>1, <2>2
<1> QED
  BY <1>5, <1>6, <1>7, <1>8

\* At the end all the content has been written.
LEMMA DoneIs ==
  ASSUME InflateTyped, Sound(entry), NEW k \in 0..DataEnd, NEW base \in Nat, OnTrack(k, base),
         inf.at = "done"
  PROVE  Checked
<1>1. PICK n \in Nat : n = base + cur
  BY TrackIs
<1>2. State(k).at = "done" /\ Len(State(k).out) = n /\ entry \in Entries /\ Layout(base)
  BY <1>1, TrackIs DEF Reached
<1>3. k = DataEnd
  BY <1>2, SoundIs
<1>4. State(k).out = entry.claim
  BY <1>3 DEF State, DataEnd, Sound, Meant
<1>5. PICK o \in Seq(Nat) : o = Out /\ Len(o) = n /\ Begins(entry.claim, o)
  BY <1>1, <1>2, OutIs
<1>6. PICK c \in Seq(Nat) : c = entry.claim
  BY TrackIs
<1>7. Len(c) = n
  BY <1>2, <1>4, <1>6
<1>8. \A i \in 1..Len(o) : c[i] = o[i]
  BY <1>5, <1>6 DEF Begins
<1>9. o = c
  BY <1>5, <1>7, <1>8, SeqEqual
<1> QED
  BY <1>5, <1>6, <1>9 DEF Checked

LEMMA NotTooLarge ==
  ASSUME InflateTyped, NEW base \in Nat, Layout(base)
  PROVE  ~TooLarge
<1>1. Begins(entry.claim, Out) /\ Out \in Seq(Nat) /\ entry.claim \in Seq(Nat)
  BY OutIs, OutEndIs DEF InflateTyped
<1>2. Len(Out) \in Nat /\ Len(entry.claim) \in Nat
  BY <1>1
<1> QED
  BY <1>1, <1>2 DEF Begins, TooLarge

\* What was passed on is all that was written.
LEMMA LayoutPassed ==
  ASSUME InflateTyped, NEW base \in Nat, Layout(base), NEW b \in Nat, Turn(b),
         UNCHANGED <<fixedVars, buffer>>, passed' = Out, from' = cur', b + cur' = base + cur
  PROVE  Layout(b)'
<1>1. PICK o \in Seq(Nat) : o = Out /\ Len(o) = base + cur /\ Begins(entry.claim, o)
  BY OutIs
<1>2. passed' \in Seq(Nat) /\ Len(passed') = b + from' /\ Begins(entry.claim, passed')
  BY <1>1
<1>3. b + cur' <= Len(entry.claim) /\ Window(buffer', b + cur')
  BY DEF Layout
<1>4. entry' = entry /\ driver' = driver
  BY DEF fixedVars
<1>5. Turn(b)'
  BY <1>4 DEF Turn, Masked, Ring
<1>6. Window(buffer, b + cur)'
  BY <1>3, <1>4 DEF Window, Masked, OutEnd, Ring
<1>7. Begins(entry.claim, passed)'
  BY <1>2, <1>4 DEF Begins
<1>8. (b + cur)' <= Len(entry.claim)'
  BY <1>3, <1>4
<1> QED
  BY <1>2, <1>5, <1>6, <1>7, <1>8 DEF Layout

\* Nothing more is to be decoded, or the callback refuses.
LEMMA KeptOn ==
  ASSUME InflateTyped, Sound(entry), NEW k \in 0..DataEnd, NEW base \in Nat, OnTrack(k, base),
         UNCHANGED <<fixedVars, input, inf, cur>>, outcome' # "failed", Layout(base)'
  PROVE  Progress'
<1>1. Remains(entry.data, input', k) /\ Reached(inf', State(k), base + cur')
  BY TrackIs
<1> QED
  BY <1>1, Arrives

LEMMA FailsOn ==
  ASSUME InflateTyped, Sound(entry), NEW k \in 0..DataEnd, NEW base \in Nat, OnTrack(k, base), CallbackFails
  PROVE  Progress'
<1>1. UNCHANGED <<fixedVars, input, inf, outputVars>> /\ outcome' = "refused"
  BY DEF CallbackFails
<1>2. cur' = cur /\ Layout(base)'
  BY <1>1, LayoutKept DEF OnTrack, outputVars
<1> QED
  BY <1>1, <1>2, KeptOn

LEMMA FinishOn ==
  ASSUME InflateTyped, Sound(entry), NEW k \in 0..DataEnd, NEW base \in Nat, OnTrack(k, base), Finish
  PROVE  Progress'
<1>1. /\ Returned /\ ~GoesOn /\ UNCHANGED <<fixedVars, input, inf, buffer, cur>>
      /\ outcome' = (IF inf.at = "done" /\ ~TooLarge /\ Checked THEN "extracted" ELSE "failed")
      /\ passed' = (IF Ring THEN Out ELSE passed) /\ from' = (IF Ring THEN cur ELSE from)
  BY DEF Finish, PassOn
<1>2. Layout(base) /\ Turn(base) /\ inf.at # "failed"
  BY TrackIs DEF Reached
<1>3. ~TooLarge
  BY <1>2, NotTooLarge
<1>4. ~NeedsMoreInput /\ (Ring => ~HasMoreOutput)
  BY <1>1, <1>3 DEF GoesOn
<1>5. inf.at = "done"
  BY <1>1, <1>2, <1>4, RoomLeft DEF Returned
<1>6. outcome' = "extracted"
  BY <1>1, <1>3, <1>5, DoneIs
<1>7. Layout(base)'
  <2>1. CASE Ring
    BY <1>1, <1>2, <2>1, LayoutPassed
  <2>2. CASE ~Ring
    BY <1>1, <1>2, <2>2, LayoutKept DEF outputVars
  <2> QED
    BY <2>1, <2>2
<1> QED
  BY <1>1, <1>6, <1>7, KeptOn

\* A full ring is begun again.
LEMMA NextTurn ==
  ASSUME entry \in Entries, Ring, NEW base \in Nat, Turn(base)
  PROVE  base + DictSize \in Nat /\ Turn(base + DictSize)
<1>1. PICK D \in Nat : D = DictSize
  BY OutEndIs
<1>2. ASSUME NEW i \in Int PROVE Masked(base + D + i) = Masked(i)
  <2>1. base + i \in Int /\ D + (base + i) = base + D + i
    OBVIOUS
  <2>2. Masked(D + (base + i)) = Masked(base + i)
    BY <1>1, <2>1, MaskedIs
  <2>3. Masked(base + i) = Masked(i)
    BY DEF Turn
  <2> QED
    BY <2>1, <2>2, <2>3
<1> QED
  BY <1>1, <1>2 DEF Turn

LEMMA AgainOn ==
  ASSUME InflateTyped, Sound(entry), NEW k \in 0..DataEnd, NEW base \in Nat, OnTrack(k, base), CallAgain
  PROVE  Progress'
<1>1. PICK n : n = Min({Len(input.rest), readSize})
  OBVIOUS
<1>2. PICK next : next = IF Ring THEN cur % DictSize ELSE cur
  OBVIOUS
<1>3. /\ Returned /\ UNCHANGED <<fixedVars, inf, buffer, outcome>>
      /\ input' = (IF input.given # <<>> THEN input
                   ELSE [input EXCEPT !.given = SubSeq(input.rest, 1, n),
                                      !.rest = SubSeq(@, n + 1, Len(@))])
      /\ passed' = (IF Ring THEN Out ELSE passed)
      /\ cur' = next /\ from' = (IF Ring THEN next ELSE from)
  BY <1>1, <1>2 DEF CallAgain, PassOn
<1>4. /\ entry \in Entries /\ entry.data \in Seq(Units) /\ input \in Inputs /\ k \in Nat
      /\ Layout(base) /\ Turn(base) /\ Remains(entry.data, input, k)
  <2>1. entry \in Entries /\ entry.data \in Seq(Units) /\ input \in Inputs
    BY OutEndIs DEF InflateTyped
  <2> QED
    BY <2>1, FirstIs, TrackIs
<1>5. Remains(entry.data, input', k)
  <2>1. CASE input.given # <<>>
    BY <1>3, <1>4, <2>1
  <2>2. CASE input.given = <<>>
    <3>1. n \in Nat /\ n <= Len(input.rest)
      <4>1. input.rest \in Seq(Units)
        BY <1>4, InputIs
      <4>2. Len(input.rest) \in Nat /\ readSize \in Nat
        BY <4>1, InflateAssumption DEF InflateTyped
      <4>3. Len(input.rest) \in Int /\ readSize \in Int
        BY <4>2
      <4>4. n \in {Len(input.rest), readSize} /\ n <= Len(input.rest)
        BY <1>1, <4>3, LessOf
      <4> QED
        BY <4>2, <4>4
    <3>2. PICK g, r : g = SubSeq(input.rest, 1, n) /\ r = SubSeq(input.rest, n + 1, Len(input.rest))
      OBVIOUS
    <3>3. g \in Seq(Units) /\ r \in Seq(Units)
      <4>1. input.rest \in Seq(Units)
        BY <1>4, InputIs
      <4> QED
        BY <3>1, <3>2, <4>1, PieceIs
    <3>4. Remains(entry.data, Fed(r, g, input.bits), k)
      BY <1>4, <2>2, <3>1, <3>2, <3>3, RemainsGiven
    <3>5. input' = [input EXCEPT !.given = g, !.rest = r]
      BY <1>3, <2>2, <3>2
    <3>6. [input EXCEPT !.given = g, !.rest = r] = Fed(r, g, input.bits)
      <4>1. [input EXCEPT !.given = g, !.rest = r] = [[input EXCEPT !.given = g] EXCEPT !.rest = r]
        BY <1>4 DEF Inputs
      <4>2. [input EXCEPT !.given = g] = Fed(input.rest, g, input.bits)
        BY <1>4, InputBut
      <4>3. [Fed(input.rest, g, input.bits) EXCEPT !.rest = r] = Fed(r, g, input.bits)
        BY DEF Fed
      <4> QED
        BY <4>1, <4>2, <4>3
    <3> QED
      BY <3>4, <3>5, <3>6
  <2> QED
    BY <2>1, <2>2
<1>6. outcome' # "failed"
  BY <1>3 DEF Returned
<1>7. PICK c \in Nat, d \in Nat \ {0} : c = cur /\ d = DictSize
  BY TrackIs
<1>8. \E b \in Nat : b + cur' = base + cur /\ Layout(b)'
  <2>1. CASE ~Ring
    <3>1. UNCHANGED outputVars
      BY <1>2, <1>3, <2>1 DEF outputVars
    <3>2. cur' = cur /\ Layout(base)'
      BY <1>3, <1>4, <3>1, LayoutKept DEF outputVars
    <3> QED
      BY <3>2
  <2>2. CASE Ring
    <3>1. passed' = Out /\ from' = cur' /\ cur' = c % d /\ c <= d
      <4>1. cur <= OutEnd /\ OutEnd = DictSize
        BY <2>2, TrackIs DEF OutEnd
      <4> QED
        BY <1>2, <1>3, <1>7, <2>2, <4>1
    <3>2. CASE c < d
      <4>1. c % d = c
        BY <3>2
      <4>2. cur' = cur /\ base + cur' = base + cur
        BY <1>7, <3>1, <4>1
      <4>3. Layout(base)'
        BY <1>3, <1>4, <3>1, <4>2, LayoutPassed
      <4> QED
        BY <4>2, <4>3
    <3>3. CASE c = d
      <4>1. c % d = 0
        BY <3>3, RingFacts
      <4>2. PICK b \in Nat : b = base + DictSize /\ Turn(b)
        BY <1>4, <2>2, NextTurn
      <4>3. b + cur' = base + cur
        BY <1>7, <3>1, <3>3, <4>1, <4>2
      <4>4. Layout(b)'
        BY <1>3, <1>4, <3>1, <4>2, <4>3, LayoutPassed
      <4> QED
        BY <4>3, <4>4
    <3> QED
      BY <3>1, <3>2, <3>3
  <2> QED
    BY <2>1, <2>2
<1>9. PICK b \in Nat : b + cur' = base + cur /\ Layout(b)'
  BY <1>8
<1>10. Reached(inf', State(k), b + cur')
  BY <1>3, <1>9, TrackIs
<1> QED
  BY <1>3, <1>5, <1>6, <1>9, <1>10, Arrives

LEMMA InitOn == InflateInit => Progress
<1> SUFFICES ASSUME InflateInit, Sound(entry) PROVE outcome # "failed" /\ \E k \in 0..DataEnd, base \in Nat : OnTrack(k, base)
  BY DEF Progress
<1>1. PICK n : n = IF driver = "memory" THEN Len(entry.data) ELSE Min({Len(entry.data), readSize})
  OBVIOUS
<1>2. /\ entry \in Entries /\ readSize \in ReadSizes
      /\ input = [rest |-> SubSeq(entry.data, n + 1, Len(entry.data)),
                  given |-> SubSeq(entry.data, 1, n), bits |-> <<>>]
      /\ inf = [at |-> "block", final |-> FALSE, counter |-> 0, dist |-> 0, start |-> 0]
      /\ buffer = [i \in 0..OutEnd - 1 |-> Garbage]
      /\ cur = 0 /\ from = 0 /\ passed = <<>> /\ outcome = "running"
  BY <1>1 DEF InflateInit
<1>3. PICK data \in Seq(Units) : data = entry.data
  BY <1>2, OutEndIs
<1>4. n \in Nat /\ n <= Len(data)
  <2>1. Len(data) \in Int /\ Len(data) \in Nat /\ readSize \in Int /\ readSize \in Nat
    BY <1>2, InflateAssumption
  <2>2. Min({Len(data), readSize}) \in {Len(data), readSize} /\ Min({Len(data), readSize}) <= Len(data)
    BY <2>1, LessOf
  <2> QED
    BY <1>1, <1>3, <2>1, <2>2
<1>5. PICK g, r : g = SubSeq(data, 1, n) /\ r = SubSeq(data, n + 1, Len(data))
  OBVIOUS
<1>6. Remains(entry.data, input, 0)
  <2>1. /\ SubSeq(data, 1, n) \in Seq(Units) /\ Len(SubSeq(data, 1, n)) = n
        /\ \A i \in 1..n : SubSeq(data, 1, n)[i] = data[i]
        /\ SubSeq(data, n + 1, Len(data)) \in Seq(Units) /\ Len(SubSeq(data, n + 1, Len(data))) = Len(data) - n
        /\ \A i \in 1..Len(data) - n : SubSeq(data, n + 1, Len(data))[i] = data[n + i]
    BY <1>4, PieceIs
  <2>2. PICK d \in Nat : d = Len(data)
    OBVIOUS
  <2>3. /\ g \in Seq(Units) /\ Len(g) = n /\ \A i \in 1..n : g[i] = data[i]
        /\ r \in Seq(Units) /\ Len(r) = d - n /\ \A i \in 1..d - n : r[i] = data[n + i]
    BY <1>5, <2>1, <2>2
  <2>a. <<>> \in Seq(Units) /\ Len(<<>>) = 0
    OBVIOUS
  <2>4. PICK b \in Seq(Units) : b = <<>> /\ Len(b) = 0
    BY <2>a
  <2>5. \A i \in 1..n : 0 + i = i
    BY <1>4
  <2>6. 0 + 0 = 0 /\ 0 + n <= d /\ n + (d - n) = d /\ 0 + 0 + n = n
    BY <1>4, <2>2
  <2>7. Piece(data, 0, b)
    BY <2>2, <2>4, <2>6 DEF Piece
  <2>8. Piece(data, 0, g)
    BY <2>2, <2>3, <2>5, <2>6 DEF Piece
  <2>9. Piece(data, n, r)
    BY <2>2, <2>3, <2>6 DEF Piece
  <2>10. Remains(data, Fed(r, g, b), 0)
    <3>1. 0 + Len(b) = 0 /\ 0 + Len(b) + Len(g) = n /\ 0 + Len(b) + Len(g) + Len(r) = Len(data)
      BY <2>2, <2>3, <2>4, <2>6
    <3> QED
      BY <2>3, <2>7, <2>8, <2>9, <3>1, RemainsFed
  <2>11. input = Fed(r, g, b)
    BY <1>2, <1>3, <1>5, <2>4 DEF Fed
  <2> QED
    BY <1>3, <2>10, <2>11
<1>7. Layout(0)
  <2>1. \A i \in Int : Masked(0 + i) = Masked(i)
    <3>1. \A i \in Int : 0 + i = i
      OBVIOUS
    <3> QED
      BY <3>1
  <2>2. PICK claim \in Seq(Nat) : claim = entry.claim
    BY <1>2, OutEndIs
  <2>3. 0 <= Len(claim) /\ <<>> \in Seq(Nat) /\ Len(<<>>) = 0 /\ \A i \in 1..0 : FALSE
    OBVIOUS
  <2>4. Window(buffer, 0 + cur)
    BY <1>2 DEF Window
  <2>5. Begins(entry.claim, passed)
    BY <1>2, <2>2, <2>3 DEF Begins
  <2> QED
    BY <1>2, <2>1, <2>2, <2>3, <2>4, <2>5 DEF Layout, Turn
<1>8. Reached(inf, State(0), 0 + cur)
  <2>1. State(0).at = "block" /\ State(0).final = FALSE /\ Len(State(0).out) = 0
    BY <1>2, FirstIs DEF Start
  <2>2. inf.at = "block" /\ inf.final = FALSE /\ 0 + cur = 0
    BY <1>2
  <2> QED
    <3>1. PICK m, s : m = 0 + cur /\ s = State(0)
      OBVIOUS
    <3>2. s.at = inf.at /\ inf.final = s.final /\ Len(s.out) = m
      BY <2>1, <2>2, <3>1
    <3> QED
      BY <2>2, <3>1, <3>2, PlaceReached
<1>9. 0 \in 0..DataEnd
  BY <1>2, FirstIs
<1>10. OnTrack(0, 0)
  BY <1>6, <1>7, <1>8 DEF OnTrack
<1> QED
  BY <1>2, <1>9, <1>10

LEMMA StepOn == ASSUME InflateTyped, Progress, [Inflating]_inflateVars PROVE Progress'
<1>1. entry' = entry
  BY DEF inflateVars, fixedVars, Inflating, BlockHeader, StoredSize, CodeTables, StoredBytes, StoredTruncated,
         TwoSymbols, OneSymbol, PutLiteral, Distance, CopyMatch, CallbackFails, Finish, CallAgain
<1>2. CASE ~Sound(entry)
  BY <1>1, <1>2 DEF Progress
<1>3. CASE Sound(entry)
  <2>1. PICK k \in 0..DataEnd, base \in Nat : OnTrack(k, base)
    BY <1>3 DEF Progress
  <2>2. CASE UNCHANGED inflateVars
    <3>1. UNCHANGED <<fixedVars, outputVars, input, inf, cur, outcome>>
      BY <2>2 DEF inflateVars, outputVars
    <3>2. Layout(base)' /\ outcome' # "failed"
      BY <1>3, <2>1, <3>1, TrackIs, LayoutKept DEF Progress
    <3> QED
      BY <1>3, <2>1, <3>1, <3>2, KeptOn
  <2>3. ~StoredTruncated
    BY <1>3, <2>1, TruncatedNever
  <2>4. CASE BlockHeader \/ StoredSize \/ CodeTables \/ StoredBytes
    BY <1>3, <2>1, <2>4, HeaderOn, SizeOn, TablesOn, RawOn
  <2>5. CASE TwoSymbols \/ OneSymbol \/ PutLiteral
    BY <1>3, <2>1, <2>5, TwoOn, OneOn, LiteralOn
  <2>6. CASE Distance \/ CopyMatch
    BY <1>3, <2>1, <2>6, DistanceOn, CopyOn
  <2>7. CASE CallbackFails \/ Finish \/ CallAgain
    BY <1>3, <2>1, <2>7, FailsOn, FinishOn, AgainOn
  <2> QED
    BY <2>2, <2>3, <2>4, <2>5, <2>6, <2>7 DEF Inflating
<1> QED
  BY <1>2, <1>3

\* A sequence that another begins with is its first part.
LEMMA FirstPart ==
  ASSUME NEW c \in Seq(Nat), NEW o \in Seq(Nat), Begins(c, o)
  PROVE  o = SubSeq(c, 1, Len(o))
<1>1. PICK n \in Nat : n = Len(o) /\ n <= Len(c)
  BY DEF Begins
<1>2. /\ SubSeq(c, 1, n) \in Seq(Nat) /\ Len(SubSeq(c, 1, n)) = n
      /\ \A i \in 1..n : SubSeq(c, 1, n)[i] = c[i]
  BY <1>1, PieceIs
<1>3. PICK p \in Seq(Nat) : p = SubSeq(c, 1, n) /\ Len(p) = n /\ \A i \in 1..n : p[i] = c[i]
  BY <1>2
<1>4. \A i \in 1..n : c[i] = o[i]
  BY <1>1 DEF Begins
<1>5. Len(p) = Len(o) /\ \A i \in 1..Len(p) : p[i] = o[i]
  BY <1>1, <1>3, <1>4
<1>6. p = o
  BY <1>5, SeqEqual
<1> QED
  BY <1>1, <1>3, <1>6

LEMMA OnTrackIsSound == ASSUME InflateTyped, Progress PROVE SoundExtracted
<1> SUFFICES ASSUME Sound(entry) PROVE outcome # "failed" /\ Out = SubSeq(entry.claim, 1, Len(Out))
  BY DEF SoundExtracted
<1>1. outcome # "failed" /\ \E k \in 0..DataEnd, base \in Nat : OnTrack(k, base)
  BY DEF Progress
<1>2. PICK k \in 0..DataEnd, base \in Nat : OnTrack(k, base)
  BY <1>1
<1>3. Layout(base) /\ entry.claim \in Seq(Nat)
  BY <1>2, TrackIs
<1>4. Out \in Seq(Nat) /\ Begins(entry.claim, Out)
  BY <1>3, OutIs
<1> QED
  BY <1>1, <1>3, <1>4, FirstPart

\* SoundIsExtracted: a sound entry is extracted without an error, whatever the
\* units of its data, the pieces they arrive in, the matches that wrap around the
\* ring and the turns it takes: what the buffers hold and what was passed on is
\* a beginning of the content the data stands for.
THEOREM SoundIsExtracted == InflateSpec => []SoundExtracted
<1>1. InflateInit => InflateTyped /\ Progress
  BY InitTyped, InitOn
<1>2. InflateTyped /\ Progress /\ [Inflating]_inflateVars => (InflateTyped /\ Progress)'
  BY StepTyped, StepOn
<1>3. InflateTyped /\ Progress => SoundExtracted
  BY OnTrackIsSound
<1> QED
  BY <1>1, <1>2, <1>3, PTL DEF InflateSpec
=============================================================================
