------------------------------- MODULE Inflate ------------------------------
(***************************************************************************)
(* How a file is taken out of a zip archive (tools/zip_file.hpp):          *)
(* tinfl_decompress, a coroutine that returns when it runs out of input or *)
(* of room for its output and goes on where it was when it is called       *)
(* again, and the loops that call it: extract_to_mem, whose output is one  *)
(* buffer of the size of the file, and extract_to_callback, whose output   *)
(* is a ring that is passed on piece by piece.                             *)
(*                                                                         *)
(* A code, with its extra bits, is one unit of the compressed data here;   *)
(* the bit buffer holds units that were read ahead, and must come first    *)
(* whoever reads next.  A checksum is the data itself.  An entry is the    *)
(* data, the content its size and checksum are of, and what zeros, read    *)
(* after the end of truncated data, decode to.                             *)
(***************************************************************************)
EXTENDS Integers, Sequences, SequencesExt

CONSTANTS Entries,    \* records [data, claim, zero]
          DictSize,   \* TINFL_LZ_DICT_SIZE, a power of two
          ReadSizes,  \* MZ_ZIP_MAX_IO_BUF_SIZE, in units
          Ahead,      \* how many units are read ahead at once, at least 2
          Garbage     \* what a buffer holds that was never written

VARIABLES entry, driver,  \* the file, and who extracts it: "memory", "file" or "ring"
          readSize,       \* one of ReadSizes
          input,          \* the data to come: [rest, given, bits], in the file, the
                          \* buffer passed to tinfl and its bit buffer
          inf,            \* r: the place to go on from, and its variables
          buffer,         \* the output buffer
          cur, from,      \* pOut_buf_cur, and where it was when the call began
          passed,         \* what the callback was given
          outcome         \* "running", "extracted", "failed", or "refused" by the callback

fixedVars == <<entry, driver, readSize>>
inflateVars == <<fixedVars, input, inf, buffer, cur, from, passed, outcome>>
outputVars == <<buffer, cur, from, passed>>

Ring == driver = "ring"
OutEnd == IF Ring THEN DictSize ELSE Len(entry.claim)
Masked(i) == IF Ring THEN i % DictSize ELSE i

Lit(v) == [kind |-> "lit", v |-> v]
Copy(n) == [kind |-> "len", v |-> n]        \* a match, followed by its distance
Dist(n) == [kind |-> "dist", v |-> n]
EndOfBlock == [kind |-> "end", v |-> 0]
Stored(n) == [kind |-> "size", v |-> n]     \* the size of a stored block
BadSize == [kind |-> "badSize", v |-> 0]    \* one that its complement contradicts
Tables == [kind |-> "tables", v |-> 0]      \* the code lengths of a dynamic block
BadTables == [kind |-> "badTables", v |-> 0]
\* A header; the types are "stored", "fixed", "dynamic" and "reserved".
Block(type, final) == [kind |-> type, v |-> IF final THEN 1 ELSE 0]

\* A match is not empty, while a stored block may be.
Units ==
  [kind : {"lit", "dist", "end", "size", "badSize", "tables", "badTables",
           "stored", "fixed", "dynamic", "reserved"}, v : Nat]
  \cup [kind : {"len"}, v : Nat \ {0}]

ASSUME InflateAssumption ==
  /\ DictSize \in Nat \ {0} /\ ReadSizes \subseteq Nat \ {0}
  /\ Ahead \in Nat /\ Ahead >= 2
  /\ \A e \in Entries : e.data \in Seq(Units) /\ e.claim \in Seq(Nat) /\ e.zero \in Units

\* What zeros stand for at a place.
ZeroUnit(place) ==
  CASE place = "block"  -> Block("stored", FALSE)
    [] place = "size"   -> BadSize
    [] place = "tables" -> Tables
    [] place = "symbol" -> entry.zero
    [] place = "dist"   -> Dist(1)

-----------------------------------------------------------------------------
\* Extraction from memory passes all data at once, the others read a first part.
InflateInit ==
  /\ entry \in Entries /\ driver \in {"memory", "file", "ring"}
  /\ readSize \in ReadSizes
  /\ LET n == IF driver = "memory" THEN Len(entry.data) ELSE Min({Len(entry.data), readSize})
     IN input = [rest |-> SubSeq(entry.data, n + 1, Len(entry.data)),
                 given |-> SubSeq(entry.data, 1, n), bits |-> <<>>]
  /\ inf = [at |-> "block", final |-> FALSE, counter |-> 0, dist |-> 0, start |-> 0]
  /\ buffer = [i \in 0..OutEnd - 1 |-> Garbage]
  /\ cur = 0 /\ from = 0
  /\ passed = <<>>
  /\ outcome = "running"

Decoding == outcome = "running" /\ inf.at \notin {"done", "failed"}

\* TINFL_GET_BYTE, NEED_BITS and HUFF_DECODE: the next unit, which is a zero if
\* the data is at its end; if there is more in the file the call returns.
Unit == IF input.bits # <<>> THEN Head(input.bits)
        ELSE IF input.given # <<>> THEN Head(input.given) ELSE ZeroUnit(inf.at)
InputEmpty == input.bits = <<>> /\ input.given = <<>>
Starved == InputEmpty /\ input.rest # <<>>
After(in) == IF in.bits # <<>> THEN [in EXCEPT !.bits = Tail(@)]
             ELSE IF in.given # <<>> THEN [in EXCEPT !.given = Tail(@)] ELSE in

GoTo(place) == inf' = [inf EXCEPT !.at = place]
BlockOver == IF inf.final THEN "done" ELSE "block"

\* The header of a block.  A stored block has its size next, of which the
\* complement must agree.
BlockHeader ==
  /\ Decoding /\ inf.at = "block" /\ ~Starved
  /\ input' = After(input)
  /\ inf' = [inf EXCEPT !.final = (Unit.v = 1),
                        !.at = CASE Unit.kind = "stored" -> "size"
                                 [] Unit.kind = "fixed" -> "symbol"
                                 [] Unit.kind = "dynamic" -> "tables"
                                 [] OTHER -> "failed"]
  /\ UNCHANGED <<fixedVars, outputVars, outcome>>

StoredSize ==
  /\ Decoding /\ inf.at = "size" /\ ~Starved
  /\ input' = After(input)
  /\ inf' = [inf EXCEPT !.counter = Unit.v,
                        !.at = IF Unit = BadSize THEN "failed"
                               ELSE IF Unit.v = 0 THEN BlockOver ELSE "raw"]
  /\ UNCHANGED <<fixedVars, outputVars, outcome>>

CodeTables ==
  /\ Decoding /\ inf.at = "tables" /\ ~Starved
  /\ input' = After(input)
  /\ GoTo(IF Unit = Tables THEN "symbol" ELSE "failed")
  /\ UNCHANGED <<fixedVars, outputVars, outcome>>

\* Faulty variant of RawTaken: what was read ahead is passed over.
RawTakenFromInput == input.given

\* Stored bytes: first what was read ahead, then all there is at once.
RawTaken == IF input.bits # <<>> THEN SubSeq(input.bits, 1, 1) ELSE input.given

StoredBytes ==
  LET n == Min({Len(RawTaken), OutEnd - cur, inf.counter}) IN
  /\ Decoding /\ inf.at = "raw" /\ cur < OutEnd /\ ~InputEmpty
  /\ buffer' = [i \in DOMAIN buffer |->
                  IF i \in cur..cur + n - 1 THEN RawTaken[i - cur + 1].v ELSE buffer[i]]
  /\ cur' = cur + n
  /\ input' = IF input.bits # <<>> THEN [input EXCEPT !.bits = Tail(@)]
              ELSE [input EXCEPT !.given = SubSeq(@, n + 1, Len(@))]
  /\ inf' = [inf EXCEPT !.counter = @ - n, !.at = IF n = inf.counter THEN BlockOver ELSE "raw"]
  /\ UNCHANGED <<fixedVars, from, passed, outcome>>

StoredTruncated ==
  /\ Decoding /\ inf.at = "raw" /\ cur < OutEnd /\ InputEmpty /\ input.rest = <<>>
  /\ GoTo("failed")
  /\ UNCHANGED <<fixedVars, input, outputVars, outcome>>

\* What follows a symbol that is not a literal.
NotLiteral(u) == inf' = IF u.kind = "end" THEN [inf EXCEPT !.at = BlockOver]
                        ELSE [inf EXCEPT !.counter = u.v, !.at = "dist"]

\* With enough input and room two symbols are decoded at once, from units that
\* were read ahead ...
Fast == Len(input.given) >= Ahead /\ OutEnd - cur >= 2

TwoSymbols ==
  LET read == IF Len(input.bits) >= 2 THEN input
              ELSE [input EXCEPT !.bits = @ \o SubSeq(input.given, 1, Ahead),
                                 !.given = SubSeq(@, Ahead + 1, Len(@))]
      u1 == read.bits[1]
      u2 == read.bits[2]
  IN /\ Decoding /\ inf.at = "symbol" /\ Fast
     /\ IF u1.kind # "lit"
        THEN input' = After(read) /\ NotLiteral(u1) /\ UNCHANGED <<buffer, cur>>
        ELSE /\ input' = After(After(read))
             /\ IF u2.kind # "lit"
                THEN buffer' = [buffer EXCEPT ![cur] = u1.v] /\ cur' = cur + 1 /\ NotLiteral(u2)
                ELSE /\ buffer' = [buffer EXCEPT ![cur] = u1.v, ![cur + 1] = u2.v]
                     /\ cur' = cur + 2
                     /\ UNCHANGED inf
     /\ UNCHANGED <<fixedVars, from, passed, outcome>>

\* ... otherwise one by one; a literal may have to wait for room.
OneSymbol ==
  /\ Decoding /\ inf.at = "symbol" /\ ~Fast /\ ~Starved
  /\ input' = After(input)
  /\ IF Unit.kind = "lit" THEN inf' = [inf EXCEPT !.dist = Unit.v, !.at = "literal"]
                          ELSE NotLiteral(Unit)
  /\ UNCHANGED <<fixedVars, outputVars, outcome>>

PutLiteral ==
  /\ Decoding /\ inf.at = "literal" /\ cur < OutEnd
  /\ buffer' = [buffer EXCEPT ![cur] = inf.dist] /\ cur' = cur + 1
  /\ GoTo("symbol")
  /\ UNCHANGED <<fixedVars, input, from, passed, outcome>>

\* The distance of a match.  Only an output that does not wrap can tell that it
\* leads to before the first byte.
Distance ==
  /\ Decoding /\ inf.at = "dist" /\ ~Starved
  /\ input' = After(input)
  /\ inf' = [inf EXCEPT !.dist = Unit.v, !.start = cur,
                        !.at = IF ~Ring /\ Unit.v > cur THEN "failed" ELSE "copy"]
  /\ UNCHANGED <<fixedVars, outputVars, outcome>>

\* The position the i-th byte of a match is copied from.  start goes on past the
\* end of the ring when the output wraps.
Source(i) == Masked(inf.start + i - inf.dist)

\* The bytes of a match, one after the other, as they may overlap, until there
\* is no room.
CopyMatch ==
  LET n == Min({inf.counter, OutEnd - cur})
      Copied[k \in 0..n] == IF k = 0 THEN buffer
                            ELSE [Copied[k - 1] EXCEPT ![cur + k - 1] = Copied[k - 1][Source(k - 1)]]
  IN /\ Decoding /\ inf.at = "copy" /\ cur < OutEnd
     /\ buffer' = Copied[n]
     /\ cur' = cur + n
     /\ inf' = [inf EXCEPT !.counter = @ - n, !.start = @ + n,
                           !.at = IF n = inf.counter THEN "symbol" ELSE "copy"]
     /\ UNCHANGED <<fixedVars, input, from, passed, outcome>>

-----------------------------------------------------------------------------
\* tinfl returns, in the middle or at the end.
NeedsMoreInput == Starved /\ \/ inf.at \in {"block", "size", "tables", "symbol", "dist"}
                             \/ inf.at = "raw" /\ cur < OutEnd
HasMoreOutput == inf.at \in {"raw", "literal", "copy"} /\ cur >= OutEnd
Returned == outcome = "running" /\ \/ inf.at \in {"done", "failed"}
                                   \/ NeedsMoreInput \/ HasMoreOutput

New == SubSeq([i \in 1..OutEnd |-> buffer[i - 1]], from + 1, cur)
\* All the output so far.
Out == passed \o New

\* Faulty variant of Checked: the size is not compared.
CheckedSum == SubSeq(entry.claim, 1, Len(Out)) = Out

\* The size and the checksum are those of the directory.
Checked == Len(Out) = Len(entry.claim) /\ Out = entry.claim

\* The ring has been given more than the directory says.
TooLarge == Ring /\ Len(Out) > Len(entry.claim)

\* Faulty variant of GoesOn: any return but an end or an error is answered by
\* another call.
GoesOnForAny == NeedsMoreInput \/ HasMoreOutput

\* The loop goes on only if tinfl needs input, or has output for the ring.
GoesOn == (NeedsMoreInput \/ (Ring /\ HasMoreOutput)) /\ ~TooLarge

\* The callback is given what is new, and may fail.
PassOn == passed' = IF Ring THEN Out ELSE passed

CallbackFails ==
  /\ Returned /\ Ring /\ New # <<>>
  /\ outcome' = "refused"
  /\ UNCHANGED <<fixedVars, input, inf, outputVars>>

\* The loop ends: with success if tinfl is done and the size and the checksum
\* are right.
Finish ==
  /\ Returned /\ ~GoesOn
  /\ outcome' = IF inf.at = "done" /\ ~TooLarge /\ Checked THEN "extracted" ELSE "failed"
  /\ PassOn
  /\ from' = IF Ring THEN cur ELSE from
  /\ UNCHANGED <<fixedVars, input, inf, buffer, cur>>

\* Call again, with the next part of the file if the last is used up, and the
\* ring from its beginning if it was full.
CallAgain ==
  LET n == Min({Len(input.rest), readSize})
      next == IF Ring THEN cur % DictSize ELSE cur IN
  /\ Returned /\ GoesOn
  /\ input' = IF input.given # <<>> THEN input
              ELSE [input EXCEPT !.given = SubSeq(input.rest, 1, n),
                                 !.rest = SubSeq(@, n + 1, Len(@))]
  /\ PassOn
  /\ cur' = next /\ from' = IF Ring THEN next ELSE from
  /\ UNCHANGED <<fixedVars, inf, buffer, outcome>>

Inflating ==
  \/ BlockHeader \/ StoredSize \/ CodeTables \/ StoredBytes \/ StoredTruncated
  \/ TwoSymbols \/ OneSymbol \/ PutLiteral \/ Distance \/ CopyMatch
  \/ CallbackFails \/ Finish \/ CallAgain

InflateSpec == InflateInit /\ [][Inflating]_inflateVars /\ WF_inflateVars(Inflating)

-----------------------------------------------------------------------------
(***************************************************************************)
(* What compressed data stands for, without buffers: its units one after    *)
(* the other, with the output so far and the place.                        *)
(***************************************************************************)
Meaning(s, u) ==
  LET Over == IF s.final THEN "done" ELSE "block" IN
  CASE s.at = "block" /\ u.kind \in {"stored", "fixed", "dynamic"} ->
         [s EXCEPT !.final = (u.v = 1), !.at = CASE u.kind = "stored" -> "size" [] u.kind = "fixed" -> "symbol"
                                           [] OTHER -> "tables"]
    [] s.at = "size" /\ u.kind = "size" ->
         [s EXCEPT !.n = u.v, !.at = IF u.v = 0 THEN Over ELSE "raw"]
    [] s.at = "raw" -> [s EXCEPT !.out = Append(@, u.v), !.n = @ - 1, !.at = IF s.n = 1 THEN Over ELSE "raw"]
    [] s.at = "tables" /\ u = Tables -> [s EXCEPT !.at = "symbol"]
    [] s.at = "symbol" /\ u.kind = "lit" -> [s EXCEPT !.out = Append(@, u.v)]
    [] s.at = "symbol" /\ u.kind = "end" -> [s EXCEPT !.at = Over]
    [] s.at = "symbol" /\ u.kind = "len" -> [s EXCEPT !.n = u.v, !.at = "dist"]
    [] s.at = "dist" /\ u.kind = "dist" /\ u.v \in 1..DictSize /\ u.v <= Len(s.out) ->
         [s EXCEPT !.at = "symbol",
                   !.out = @ \o [i \in 1..s.n |-> @[Len(@) - u.v + 1 + ((i - 1) % u.v)]]]
    [] OTHER -> [s EXCEPT !.at = "wrong"]

\* What each beginning of the data stands for, and all of it.
Meanings(data) ==
  LET Upto[k \in 0..Len(data)] ==
        IF k = 0 THEN [at |-> "block", final |-> FALSE, n |-> 0, out |-> <<>>]
                 ELSE Meaning(Upto[k - 1], data[k])
  IN Upto
Meant(data) == Meanings(data)[Len(data)]

\* An archive whose entry is what its directory says.
Sound(e) == Meant(e.data).at = "done" /\ Meant(e.data).out = e.claim

\* SoundExtracted: a sound entry is extracted, however its data is cut into pieces
\* and its output into turns of the ring, and all along the output is a beginning
\* of the content.
SoundExtracted ==
  Sound(entry) => outcome # "failed" /\ Out = SubSeq(entry.claim, 1, Len(Out))

\* NothingElse: extraction that succeeds has passed on the content the directory
\* describes and nothing more; damaged or truncated data makes it fail ("make
\* sure the entire file was decompressed", zip_file.hpp:3706 and 3930).
NothingElse ==
  outcome = "extracted" => Out = entry.claim

\* ExtractionEnds: extraction comes to an end, also with truncated data, where
\* zeros are read for ever.
ExtractionEnds == <>(outcome # "running")
=============================================================================
