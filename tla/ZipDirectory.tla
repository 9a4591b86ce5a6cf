----------------------------- MODULE ZipDirectory -----------------------------
(***************************************************************************)
(* How a name is looked up in a zip archive (tools/zip_file.hpp): when the *)
(* archive is opened the indices of the entries are sorted by name, by     *)
(* heap sort and without regard to case, and a look-up is a binary search  *)
(* that compares names in the same way.  One step is one round of an inner *)
(* loop.                                                                   *)
(*                                                                         *)
(* A name is a sequence of letters; letters that differ only in case have  *)
(* the same remainder by Alphabet.  Indices begin at zero, as in the code. *)
(***************************************************************************)
EXTENDS Integers, Sequences, FiniteSetsExt

CONSTANTS FileNames,   \* the names entries may have and may be looked up by
          Alphabet,    \* MZ_TOLOWER is the remainder
          MaxNames     \* bound: entries of an archive

ASSUME NamesAssumption ==
  /\ Alphabet \in Nat \ {0} /\ FileNames \subseteq Seq(Nat)
  /\ MaxNames \in Nat

VARIABLES names,       \* of each entry: its name, as the central directory has it
          indices,     \* m_sorted_central_dir_offsets
          sortPc,      \* "heap", "shrink", "sorted", "searching" or "located"
          limit,       \* heap: start; shrink: end
          root,        \* the node that sinks
          sought,      \* the name looked up
          low, high,   \* the bounds of the binary search
          located      \* what the look-up returned, -1 for nothing

heapVars == <<indices, limit, root>>
searchVars == <<sought, low, high, located>>
directoryVars == <<names, heapVars, sortPc, searchVars>>

Size == Len(names)
Lower(c) == c % Alphabet

Differences(a, b) == {i \in 1..Min({Len(a), Len(b)}) : Lower(a[i]) # Lower(b[i])}
AtFirst(a, b) == LET i == Min(Differences(a, b)) IN Lower(a[i]) - Lower(b[i])

\* Faulty variant of Order: names are compared as far as both go.
OrderOfPrefix(a, b) == IF Differences(a, b) = {} THEN 0 ELSE AtFirst(a, b)

\* The first letter that differs decides, or else the length.
Order(a, b) == IF Differences(a, b) = {} THEN Len(a) - Len(b) ELSE AtFirst(a, b)

NameAt(i) == names[indices[i] + 1]
FilenameLess(i, j) == Order(NameAt(i), NameAt(j)) < 0

Swapped(i, j) == [indices EXCEPT ![i] = indices[j], ![j] = indices[i]]

DirectoryInit ==
  /\ names \in UNION {[1..n -> FileNames] : n \in 0..MaxNames}
  /\ indices = [i \in 0..Size - 1 |-> i]
  /\ sortPc = "heap" /\ limit = (Size - 2) \div 2 /\ root = limit
  /\ sought = <<>> /\ low = 0 /\ high = 0 /\ located = -1

-----------------------------------------------------------------------------
\* The nodes that belong to the heap: all while it is built, then those before
\* the sorted end.
HeapSize == IF sortPc = "heap" THEN Size ELSE limit

\* The child the root is compared with, the greater one.
Child(r) ==
  LET c == 2 * r + 1 IN
  IF c + 1 < HeapSize /\ FilenameLess(c, c + 1) THEN c + 1 ELSE c

Sinks == 2 * root + 1 < HeapSize /\ FilenameLess(root, Child(root))

Sorting == sortPc \in {"heap", "shrink"} /\ limit >= (IF sortPc = "heap" THEN 0 ELSE 1)

\* One round of the inner loops.
Sink ==
  /\ Sorting /\ Sinks
  /\ indices' = Swapped(root, Child(root))
  /\ root' = Child(root)
  /\ UNCHANGED <<names, sortPc, limit, searchVars>>

\* The next node to sink while the heap is built.
NextStart ==
  /\ sortPc = "heap" /\ Sorting /\ ~Sinks
  /\ limit' = limit - 1 /\ root' = limit - 1
  /\ UNCHANGED <<names, indices, sortPc, searchVars>>

\* The greatest goes to the end of the heap, which shrinks.
TakeGreatest(end) ==
  /\ sortPc' = IF end > 0 THEN "shrink" ELSE "sorted"
  /\ indices' = IF end > 0 THEN Swapped(end, 0) ELSE indices
  /\ limit' = end /\ root' = 0
  /\ UNCHANGED <<names, searchVars>>

HeapBuilt == sortPc = "heap" /\ ~Sorting /\ TakeGreatest(Size - 1)
NextEnd == sortPc = "shrink" /\ ~Sinks /\ TakeGreatest(limit - 1)

-----------------------------------------------------------------------------
\* mz_zip_reader_locate_file, with no comment and no flags.
Locate(name) ==
  /\ sortPc = "sorted"
  /\ sortPc' = "searching"
  /\ sought' = name /\ low' = 0 /\ high' = Size - 1
  /\ UNCHANGED <<names, heapVars, located>>

\* One round of mz_zip_reader_locate_file_binary_search.
Halve ==
  LET m == (low + high) \div 2
      comp == Order(NameAt(m), sought) IN
  /\ sortPc = "searching" /\ low <= high
  /\ sortPc' = IF comp = 0 THEN "located" ELSE "searching"
  /\ located' = IF comp = 0 THEN indices[m] ELSE located
  /\ low' = IF comp < 0 THEN m + 1 ELSE low
  /\ high' = IF comp > 0 THEN m - 1 ELSE high
  /\ UNCHANGED <<names, heapVars, sought>>

NotFound ==
  /\ sortPc = "searching" /\ low > high
  /\ sortPc' = "located" /\ located' = -1
  /\ UNCHANGED <<names, heapVars, sought, low, high>>

DirectoryNext ==
  \/ Sink \/ NextStart \/ HeapBuilt \/ NextEnd \/ Halve \/ NotFound
  \/ \E n \in FileNames : Locate(n)

DirectorySpec == DirectoryInit /\ [][DirectoryNext]_directoryVars

-----------------------------------------------------------------------------
SameName(a, b) == Len(a) = Len(b) /\ \A i \in 1..Len(a) : Lower(a[i]) = Lower(b[i])

\* LocateFinds: a look-up finds an entry of that name, without regard to case, if
\* the archive has one, and only then; wherever the entries were in the
\* directory, the sort brought them where the search looks.
LocateFinds ==
  sortPc = "located" =>
    IF located = -1 THEN \A i \in 1..Size : ~SameName(names[i], sought)
                    ELSE SameName(names[located + 1], sought)
=============================================================================
