------------------------------- MODULE MCTools -------------------------------
(***************************************************************************)
(* The free list and the table of producers of the lock-free queue, the    *)
(* zip reader, the strategies and the backtester for TLC.  A behaviour is  *)
(* one of one part and the others stay as they are at first, so that the   *)
(* run has the sum of their states and not the product; the parts do not   *)
(* share anything.                                                         *)
(***************************************************************************)
EXTENDS FreeList, ProducerTable, Inflate, ZipDirectory, ZipFile, SupportResistance, Backtester, TLC

CONSTANTS t1, t2, t3, n1, n2, small, capital, bad

MCHome == (t1 :> 0) @@ (t2 :> 0) @@ (t3 :> 1)

\* Compressed files of three blocks, the first with three symbols of any kind.
Items == {<<Lit(1)>>, <<Lit(2)>>, <<Copy(3), Dist(1)>>, <<Copy(4), Dist(2)>>, <<Copy(3), Dist(3)>>}
Whole ==
  {<<Block("fixed", FALSE)>> \o x \o y \o z \o
     <<EndOfBlock, Block("stored", FALSE), Stored(2), Lit(2), Lit(1),
       Block("dynamic", TRUE), Tables, Copy(3), Dist(2), EndOfBlock>> : x, y, z \in Items}

\* With the right claim, one that is a byte off, or cut short.
Claims(c) == {c, Append(c, 1), SubSeq(c, 1, Len(c) - 1)}
Unsound == {<<Block("reserved", TRUE)>>, <<Block("stored", TRUE), BadSize, Lit(1)>>,
            <<Block("dynamic", TRUE), BadTables>>}
MCEntries ==
  UNION {{[data |-> d, claim |-> c, zero |-> Lit(1)] : c \in Claims(Meant(d).out)} \cup
         {[data |-> SubSeq(d, 1, n), claim |-> Meant(d).out, zero |-> u] :
            n \in {4, 7, Len(d) - 6, Len(d) - 2}, u \in {Lit(1), EndOfBlock}} : d \in Whole}
  \cup {[data |-> d, claim |-> <<1>>, zero |-> EndOfBlock] : d \in Unsound}

\* Letters 1 and 11, 2 and 12 differ in case only.
MCFileNames == {<<1>>, <<11>>, <<1, 2>>, <<2>>, <<12, 11>>}

\* Two names differ in case only, and one has a backslash.
MCFolded == (small :> 1) @@ (capital :> 1) @@ (bad :> 2)
MCContents == {<<>>, <<1>>, <<2, 1>>}

\* An archive with a gap, one whose directory is not in the order of its entries,
\* one whose entry is not where its record says, one cut in the middle, an error
\* page, and nothing.
TwoEntries == <<Local(small), Byte(2), Local(capital), Byte(1), Byte(3)>>
Gap == TwoEntries \o <<Entry(capital, <<1, 3>>, 2), EndRecord(1, 5)>>
Unordered == TwoEntries \o <<Entry(capital, <<1, 3>>, 2), Entry(small, <<2>>, 0), EndRecord(2, 5)>>
Shifted == <<Byte(1), Local(small), Byte(2), Entry(small, <<2>>, 0), EndRecord(1, 3)>>
Cut == <<Local(small), Entry(small, <<2>>, 0), EndRecord(1, 4)>>
File(bytes, holds, sound) == [bytes |-> bytes, holds |-> holds, sound |-> sound]
MCDownloads ==
  {File(Gap, <<<<capital, <<1, 3>>>>>>, TRUE),
   File(Unordered, <<<<capital, <<1, 3>>>>, <<small, <<2>>>>>>, TRUE),
   File(Shifted, <<<<small, <<2>>>>>>, FALSE), File(Cut, <<>>, FALSE),
   File(<<Byte(1), Byte(2)>>, <<>>, FALSE), File(<<>>, <<>>, FALSE)}

\* The first candle touches both levels, the others make new ones or break out.
Candle(h, l, c) == [high |-> h, low |-> l, close |-> c]
MCCandleKinds == {Candle(9, 8, 8), Candle(11, 6, 11), Candle(9, 6, 6)}

VARIABLE part

partVars == <<part, freeListVars, tableVars, inflateVars, directoryVars, zipVars, strategyVars, vars>>

MCInit ==
  /\ part \in {"nodes", "producers", "inflate", "directory", "zip", "strategy", "backtester"}
  /\ part # "nodes" => held = (t1 :> Nodes) @@ (t2 :> {}) @@ (t3 :> {})
  /\ FreeListInit
  /\ TableInit
  /\ part # "inflate" => /\ entry \in Entries /\ entry.data = <<Block("reserved", TRUE)>>
                         /\ driver = "memory" /\ readSize = Min(ReadSizes)
  /\ InflateInit
  /\ part # "directory" => names = <<>>
  /\ DirectoryInit
  /\ ZipInit
  /\ StrategyInit
  /\ Init

MCNext ==
  \/ /\ part = "nodes" /\ FreeListNext
     /\ UNCHANGED <<part, tableVars, inflateVars, directoryVars, zipVars, strategyVars, vars>>
  \/ /\ part = "producers" /\ TableNext
     /\ UNCHANGED <<part, freeListVars, inflateVars, directoryVars, zipVars, strategyVars, vars>>
  \/ /\ part = "inflate" /\ Inflating
     /\ UNCHANGED <<part, freeListVars, tableVars, directoryVars, zipVars, strategyVars, vars>>
  \/ /\ part = "directory" /\ DirectoryNext
     /\ UNCHANGED <<part, freeListVars, tableVars, inflateVars, zipVars, strategyVars, vars>>
  \/ /\ part = "zip" /\ ZipNext
     /\ UNCHANGED <<part, freeListVars, tableVars, inflateVars, directoryVars, strategyVars, vars>>
  \/ /\ part = "strategy" /\ StrategyNext
     /\ UNCHANGED <<part, freeListVars, tableVars, inflateVars, directoryVars, zipVars, vars>>
  \/ /\ part = "backtester" /\ Next
     /\ UNCHANGED <<part, freeListVars, tableVars, inflateVars, directoryVars, zipVars, strategyVars>>

\* The fairness of InflateSpec; a step of another part is none of Inflate's.
MCSpec == MCInit /\ [][MCNext]_partVars /\ WF_partVars(part = "inflate" /\ MCNext)

\* ExtractionEnds, of the behaviours that extract something.
EveryExtractionEnds == part = "inflate" => ExtractionEnds
=============================================================================
