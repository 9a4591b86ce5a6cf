-------------------------------- MODULE ZipFile --------------------------------
(***************************************************************************)
(* The class zip_file (tools/zip_file.hpp) and the archive it keeps in     *)
(* memory: entries are written one after the other, the directory is put   *)
(* behind them when the archive is closed, and whoever reads finds it from *)
(* the end record, which comes last but for a comment.  Every call of the  *)
(* class first brings the archive into the mode it needs; to write to an   *)
(* archive that is open for reading all its entries are copied to a new    *)
(* one.  The backtester makes a zip_file of each file it downloads and     *)
(* extracts all members.                                                   *)
(*                                                                         *)
(* The buffer is a sequence of cells: a local header with its name, each   *)
(* byte of data, a record of the directory with its name, the end record,  *)
(* and the comment.  Data is stored as it is (what compressed data stands  *)
(* for is the matter of Inflate), and a checksum is the data itself.  A    *)
(* call is one step, as the class is not shared.                           *)
(***************************************************************************)
EXTENDS Integers, Sequences, SequencesExt, FiniteSets

CONSTANTS Members,      \* the names of entries ...
          Folded,       \* ... of each, its name without regard to case
          BadNames,     \* those of Members that an archive cannot have
          Contents,     \* the data of entries
          Comment,      \* a comment the user may set
          Downloads,    \* records [bytes, holds, sound]: files, the entries they hold,
                        \* and whether they are as a writer left them
          Spoiled,      \* a cell that was partly overwritten
          MaxFiles,     \* 0xFFFF
          MaxUnread,    \* bound: what is left in open_stream_
          MaxComments   \* bound: comments saved one behind the other

VARIABLES zip,          \* the archive: [buffer, mode, dir, size, comment, moved]
          unread,       \* what open_stream_ holds
          todo,         \* the members extractall has still to extract
          files,        \* the files written by the last extraction from this archive
          written,      \* history: the entries written and loaded, <<name, data>>
          saved,        \* history: "once" or "again" if the buffer is what the last
                        \* call saved, with or without a comment before, else "no"
          refused       \* history: the archive loaded was damaged, or since then a
                        \* call failed or the file of a member could not be opened

zipVars == <<zip, unread, todo, files, written, saved, refused>>
extractVars == <<unread, todo, files>>

NoComment == <<>>
Absent == [kind |-> "absent"]
NoFiles == [n \in Members |-> Absent]

Local(n) == [kind |-> "local", name |-> n]
Byte(v) == [kind |-> "byte", v |-> v]
\* A record of the directory; ofs is the offset of the local header, from zero.
Entry(n, data, ofs) == [kind |-> "entry", name |-> n, sum |-> data, ofs |-> ofs]
\* The end record: how many entries, where the directory is, and the length of
\* the comment.
EndRecord(n, ofs) == [kind |-> "end", total |-> n, ofs |-> ofs, comment |-> 0]
Bytes(data) == [i \in 1..Len(data) |-> Byte(data[i])]

\* write_callback: cells over what is at an offset, beyond the end if need be.
WriteAt(buffer, ofs, cells) ==
  [i \in 1..(IF ofs + Len(cells) > Len(buffer) THEN ofs + Len(cells) ELSE Len(buffer)) |->
     IF i \in ofs + 1..ofs + Len(cells) THEN cells[i - ofs] ELSE buffer[i]]

-----------------------------------------------------------------------------
\* The writer.  A new archive begins at offset zero.
WriterInit(z) == [z EXCEPT !.mode = "writing", !.dir = <<>>, !.size = 0]

\* mz_zip_writer_add_mem: local header and data at the end, and a record for the
\* directory.
AddMem(z, n, data) ==
  [z EXCEPT !.buffer = WriteAt(@, z.size, <<Local(n)>> \o Bytes(data)),
            !.dir = Append(@, Entry(n, data, z.size)),
            !.size = @ + 1 + Len(data)]

\* The names it refuses, and data in a directory.
MayAdd(z, n) == n \notin BadNames /\ Len(z.dir) < MaxFiles

\* mz_zip_writer_finalize_archive and mz_zip_writer_end: the directory and the
\* end record behind the last entry.
Closed(z) ==
  [z EXCEPT !.buffer = WriteAt(@, z.size, z.dir \o <<EndRecord(Len(z.dir), IF z.dir = <<>> THEN 0 ELSE z.size)>>),
            !.mode = "invalid", !.dir = <<>>]

-----------------------------------------------------------------------------
\* The reader.  The last end record.
EndsOf(buffer) == {i \in DOMAIN buffer : buffer[i].kind = "end"}
EndOf(buffer) == CHOOSE i \in EndsOf(buffer) : \A j \in EndsOf(buffer) : j <= i

\* The directory the end record leads to.
DirectoryOf(buffer) ==
  LET end == buffer[EndOf(buffer)] IN SubSeq(buffer, end.ofs + 1, end.ofs + end.total)

\* mz_zip_reader_read_central_dir: there is an end record, the directory is in
\* the file and has only records, and what they lead to is in the file.
GoodDirectory(buffer) ==
  /\ EndsOf(buffer) # {}
  /\ buffer[EndOf(buffer)].ofs + buffer[EndOf(buffer)].total <= Len(buffer)
  /\ \A d \in Range(DirectoryOf(buffer)) :
       d.kind = "entry" /\ d.ofs + 1 + Len(d.sum) <= Len(buffer)

\* The data of a record, if its local header is where it says and the checksum is
\* right; an entry without data is not looked at.
DataOf(buffer, d) == [i \in 1..Len(d.sum) |-> buffer[d.ofs + 1 + i].v]
Extractable(buffer, d) ==
  \/ d.sum = <<>>
  \/ /\ buffer[d.ofs + 1].kind = "local"
     /\ \A i \in 1..Len(d.sum) : buffer[d.ofs + 1 + i].kind = "byte"
     /\ DataOf(buffer, d) = d.sum

\* Which entries a look-up by name may return: the search finds one of those
\* with that name, without regard to case (ZipDirectory).
Locating(dir, n) == {i \in DOMAIN dir : Folded[dir[i].name] = Folded[n]}

\* start_read: an archive that is written is closed, and what is in the buffer
\* opened.  If that fails the mode is invalid.
StartRead(z) ==
  IF z.mode = "reading" THEN z
  ELSE LET c == IF z.mode = "writing" THEN Closed(z) ELSE z IN
       IF GoodDirectory(c.buffer)
       THEN [c EXCEPT !.mode = "reading", !.dir = DirectoryOf(c.buffer), !.size = 0, !.moved = FALSE]
       ELSE c

\* Faulty variant of CopyEntry: the record keeps the offset of the old archive.
CopyEntryOnly(from, d, z) ==
  [z EXCEPT !.buffer = WriteAt(@, z.size, SubSeq(from, d.ofs + 1, d.ofs + 1 + Len(d.sum))),
            !.dir = Append(@, d), !.size = @ + 1 + Len(d.sum)]

\* mz_zip_writer_add_from_zip_reader: header and data as they are.
CopyEntry(from, d, z) ==
  [z EXCEPT !.buffer = WriteAt(@, z.size, SubSeq(from, d.ofs + 1, d.ofs + 1 + Len(d.sum))),
            !.dir = Append(@, [d EXCEPT !.ofs = z.size]),
            !.size = @ + 1 + Len(d.sum)]

\* The entries of a directory that can be copied: those before the first whose
\* local header is not where it says.
Misplaced(from, dir) == {i \in DOMAIN dir : from[dir[i].ofs + 1].kind # "local"}
Copyable(from, dir) ==
  IF Misplaced(from, dir) = {} THEN dir ELSE SubSeq(dir, 1, Min(Misplaced(from, dir)) - 1)

\* The entries of a directory copied to an archive, one after the other.
CopyEntries(from, dir, z) ==
  LET Copied[k \in 0..Len(dir)] ==
        IF k = 0 THEN z ELSE CopyEntry(from, dir[k], Copied[k - 1])
  IN Copied[Len(dir)]

\* start_write: entries of an archive that is read are copied to a new buffer,
\* from a reader of a copy of the old one.  Otherwise writing begins at the
\* start of whatever is in the buffer.
StartWrite(z) ==
  CASE z.mode = "writing" -> z
    [] z.mode = "invalid" -> WriterInit(z)
    [] z.mode = "reading" ->
         CopyEntries(z.buffer, Copyable(z.buffer, DirectoryOf(z.buffer)),
                     WriterInit([z EXCEPT !.buffer = <<>>, !.moved = FALSE]))

\* The length of the comment is written to the last two bytes of the buffer,
\* which are those of the end record unless there is a comment already.
SetLength(buffer) ==
  [buffer EXCEPT ![Len(buffer)] = IF @.kind = "end" THEN [@ EXCEPT !.comment = 1]
                                  ELSE [kind |-> "comment", v |-> Spoiled]]

\* append_comment.  The buffer may move, and the reader does not learn of it.
WithComment(z, moves) ==
  IF z.comment = NoComment THEN z
  ELSE [z EXCEPT !.buffer = Append(SetLength(@), [kind |-> "comment", v |-> z.comment]),
                 !.moved = @ \/ moves]

\* remove_comment, where there is an end record: the cell behind it, if it says
\* so, and the last two bytes are set to zero.
WithoutComment(z, bytes) ==
  IF bytes[EndOf(bytes)].comment = 0 THEN [z EXCEPT !.buffer = bytes]
  ELSE [z EXCEPT !.comment = bytes[EndOf(bytes) + 1].v,
                 !.buffer = LET b == SubSeq(bytes, 1, Len(bytes) - 1) IN
                   [b EXCEPT ![Len(b)] = IF @.kind = "end" THEN [@ EXCEPT !.comment = 0]
                                         ELSE [kind |-> "comment", v |-> Spoiled]]]

\* reset: an empty archive, closed.
EmptyZip == [buffer |-> <<EndRecord(0, 0)>>, mode |-> "invalid", dir |-> <<>>, size |-> 0,
             comment |-> NoComment, moved |-> FALSE]

-----------------------------------------------------------------------------
\* What a reader finds in a file.
Holds(bytes, entries) ==
  /\ EndsOf(bytes) # {} /\ GoodDirectory(bytes)
  /\ LET dir == DirectoryOf(bytes) IN
     /\ Len(dir) = Len(entries)
     /\ \A i \in DOMAIN dir : /\ dir[i].name = entries[i][1]
                              /\ Extractable(bytes, dir[i])
                              /\ DataOf(bytes, dir[i]) = entries[i][2]

\* The cells a writer makes.
EntryCells == [kind : {"entry"}, name : Members, sum : Seq(Nat), ofs : Nat]
Cells ==
  [kind : {"local"}, name : Members] \cup [kind : {"byte"}, v : Nat] \cup EntryCells
  \cup [kind : {"end"}, total : Nat, ofs : Nat, comment : {0, 1}]
  \cup [kind : {"comment"}, v : {Comment, Spoiled}]

\* Behind the last end record is its comment, if it says so, and nothing else.
Sealed(bytes) ==
  /\ EndsOf(bytes) # {}
  /\ bytes[EndOf(bytes)].comment = 1 => EndOf(bytes) < Len(bytes)
  /\ \A i \in EndOf(bytes) + 1..Len(bytes) : bytes[i].kind = "comment"

ASSUME ZipAssumption ==
  /\ Contents \subseteq Seq(Nat)
  /\ \A f \in Downloads : f.sound => /\ f.bytes \in Seq(Cells) /\ Sealed(f.bytes)
                                     /\ f.holds \in Seq(Members \X Seq(Nat))
                                     /\ Holds(f.bytes, f.holds)

-----------------------------------------------------------------------------
ZipInit ==
  /\ zip = EmptyZip
  /\ unread = <<>> /\ todo = <<>>
  /\ files = NoFiles
  /\ written = <<>> /\ saved = "no"
  /\ refused = FALSE

Ready == todo = <<>>

Reset ==
  /\ Ready
  /\ zip' = EmptyZip /\ written' = <<>> /\ refused' = (unread # <<>>)
  /\ files' = NoFiles /\ saved' = "no"
  /\ UNCHANGED <<unread, todo>>

\* load of a download, or of what was just saved, with an end record.  start_read
\* throws "bad zip" if there is nothing good behind it.
LoadBytes(bytes, holds, sound) ==
  LET z == StartRead(WithoutComment(EmptyZip, bytes)) IN
  /\ zip' = z
  /\ written' = holds
  /\ refused' = (unread # <<>> \/ z.mode # "reading" \/ ~sound)
  /\ files' = NoFiles /\ saved' = "no"
  /\ UNCHANGED <<unread, todo>>

\* load of a file with none, as a failed download leaves it: what remove_comment
\* takes for the length of a comment may shorten the buffer or throw, and else
\* start_read throws.
LoadNothing(bytes) ==
  \E n \in 0..Len(bytes) :
    /\ zip' = [EmptyZip EXCEPT !.buffer = SubSeq(bytes, 1, n)]
    /\ written' = <<>> /\ refused' = TRUE
    /\ files' = NoFiles /\ saved' = "no"
    /\ UNCHANGED <<unread, todo>>

Load ==
  /\ Ready
  /\ \E f \in Downloads \cup (IF saved # "no" /\ ~refused
                               THEN {[bytes |-> zip.buffer, holds |-> written, sound |-> TRUE]} ELSE {}) :
       IF EndsOf(f.bytes) # {} THEN LoadBytes(f.bytes, f.holds, f.sound) ELSE LoadNothing(f.bytes)

SetComment ==
  /\ Ready /\ zip.comment # Comment
  /\ zip' = [zip EXCEPT !.comment = Comment] /\ saved' = "no"
  /\ UNCHANGED <<extractVars, written, refused>>

Comments(buffer) == Cardinality({i \in DOMAIN buffer : buffer[i].kind = "comment"})

\* save: close, open for reading, append the comment, write all.  A buffer that
\* has a comment already gets another.
Save ==
  LET z == StartRead(zip) IN
  /\ Ready /\ Comments(z.buffer) < MaxComments
  /\ IF z.mode = "reading"
     THEN /\ \E moves \in BOOLEAN : zip' = WithComment(z, moves)
          /\ saved' = IF Last(z.buffer).kind = "end" THEN "once" ELSE "again"
          /\ UNCHANGED refused
     ELSE zip' = z /\ refused' = TRUE /\ saved' = "no"
  /\ UNCHANGED <<extractVars, written>>

\* writestr.  The data is added, or "write error" thrown; "fail" is thrown if not
\* all entries could be copied, and those that were not are lost.
WriteStr(n, data) ==
  LET z == StartWrite(zip)
      lost == zip.mode = "reading" /\ Misplaced(zip.buffer, zip.dir) # {} IN
  /\ Ready
  /\ IF ~lost /\ MayAdd(z, n)
     THEN zip' = AddMem(z, n, data) /\ written' = Append(written, <<n, data>>)
     ELSE zip' = z /\ UNCHANGED written
  /\ refused' = (refused \/ lost) /\ saved' = "no"
  /\ UNCHANGED extractVars

\* has_file, getinfo, infolist, read: the archive is opened for reading.
Look ==
  /\ Ready /\ zip.mode # "reading"
  /\ zip' = StartRead(zip)
  /\ refused' = (refused \/ zip'.mode # "reading")
  /\ UNCHANGED <<extractVars, written, saved>>

-----------------------------------------------------------------------------
\* extractall: the list of the members, and one after the other extract.
ExtractAll ==
  /\ Ready /\ StartRead(zip).mode = "reading"
  /\ zip' = StartRead(zip)
  /\ todo' = [i \in DOMAIN zip'.dir |-> zip'.dir[i].name]
  /\ files' = NoFiles
  /\ UNCHANGED <<unread, written, saved, refused>>

\* read: the data of an entry of that name.  If the buffer has moved the reader
\* looks at memory that is no longer its own.
ReadData(n) ==
  {DataOf(zip.buffer, zip.dir[i]) : i \in {i \in Locating(zip.dir, n) : Extractable(zip.buffer, zip.dir[i])}}
CannotRead(n) == zip.moved \/ \E i \in Locating(zip.dir, n) : ~Extractable(zip.buffer, zip.dir[i])

\* Faulty variant of LeftOver: what was taken out of the stream stays in it.
LeftOverAll(data) == unread \o data

LeftOver(data) == <<>>

\* extract: the file is made, the data put into open_stream_ and all that is in
\* there taken to the file.
ExtractMember ==
  LET n == Head(todo) IN
  /\ todo # <<>>
  /\ \E data \in ReadData(n) :
       /\ files' = [files EXCEPT ![n] = [kind |-> "file", data |-> unread \o data]]
       /\ unread' = LeftOver(data)
  /\ todo' = Tail(todo)
  /\ UNCHANGED <<zip, written, saved, refused>>

\* The file cannot be made: nothing is taken out of the stream.
ExtractUnopened ==
  LET n == Head(todo) IN
  /\ todo # <<>>
  /\ \E data \in ReadData(n) : Len(unread \o data) <= MaxUnread /\ unread' = unread \o data
  /\ todo' = Tail(todo) /\ refused' = TRUE
  /\ UNCHANGED <<zip, files, written, saved>>

\* "file couldn't be read" is thrown; the file is there, and empty.
ExtractFails ==
  LET n == Head(todo) IN
  /\ todo # <<>> /\ CannotRead(n)
  /\ files' = [files EXCEPT ![n] = [kind |-> "file", data |-> <<>>]]
  /\ todo' = <<>> /\ refused' = TRUE
  /\ UNCHANGED <<zip, unread, written, saved>>

ZipNext ==
  \/ Reset \/ Load \/ SetComment \/ Save \/ Look
  \/ \E n \in Members, data \in Contents : WriteStr(n, data)
  \/ ExtractAll \/ ExtractMember \/ ExtractUnopened \/ ExtractFails

ZipSpec == ZipInit /\ [][ZipNext]_zipVars

-----------------------------------------------------------------------------
\* SavedReadsBack: if no call has failed, whatever calls were made in between, the
\* archive when it is closed holds the entries that were loaded and written, in
\* that order and each with its data; and what was saved has the comment, unless
\* the buffer had been saved with one before.
SavedReadsBack ==
  ~refused =>
    /\ Holds(IF zip.mode = "writing" THEN Closed(zip).buffer ELSE zip.buffer, written)
    /\ saved = "once" => WithoutComment(EmptyZip, zip.buffer).comment = zip.comment

\* OwnContent: extractall writes to each file the data of an entry of that name
\* and nothing else, if every file can be made.
OwnContent ==
  ~refused => \A n \in Members : files[n] # Absent =>
    \E i \in DOMAIN written : /\ Folded[written[i][1]] = Folded[n]
                              /\ files[n].data = written[i][2]
=============================================================================
