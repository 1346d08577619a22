------------------------------ MODULE PaxHeaders ------------------------------
(***************************************************************************)
(* Extended headers (xheader.c): `tar --create --format=posix' stores what *)
(* does not fit a ustar header in records before it, under the keyword     *)
(* options of --pax-option, and starts every volume with a global header;  *)
(* another run, with options of its own, reads the archive.  One           *)
(* extended_header serves the members, the volumes and the reader.         *)
(***************************************************************************)
EXTENDS Integers, FiniteSets, SequencesExt

CONSTANTS
  BF,           \* blocks in a record
  PerBlock,     \* records of an extended header in a block
  Oversized,    \* the values that do not fit the field of a ustar header
  Settings      \* what is dumped and how, the volumes, and how it is read

(* The keywords stand for all of their kind: atime has no field in a ustar *)
(* header; uid for the other numbers and strings.                          *)
Keywords == {"path", "size", "uid", "atime"}
File == [Keywords -> Nat]

Record == [keyword : STRING, value : Nat]
Options == [global : Seq([keyword : Keywords, value : Nat]),
            override : Seq([keyword : Keywords, value : Nat]),
            deleted : SUBSET Keywords]

ASSUME PaxAssumption ==
  /\ BF \in Nat \ {0} /\ PerBlock \in Nat \ {0}
  /\ \A k \in Keywords : Oversized[k] \subseteq Nat
  /\ \A s \in Settings :
       /\ \A k \in DOMAIN s.files : s.files[k] \in File
       /\ s.create \in Options /\ s.read \in Options
       /\ s.asked \subseteq Nat /\ s.label \in BOOLEAN
       /\ s.ends \in Seq(Nat)

VARIABLES
  given,        \* the setting
  volumes,      \* the blocks on each volume
  record,       \* the blocks in the record buffer
  real,         \* real_s_name, _totsize and _sizeleft at the last whole write
  extended,     \* the records stored in extended_header
  unwritten,    \* xheader_write: the blocks from p on
  todo, left,   \* the member that is dumped, and its data still to come
  pc,
  vol, at,      \* the volume that is read, and the next block of it
  buffer,       \* the records in extended_header, as read
  reading,      \* the header they are read from, and its blocks to come
  list,         \* global_header_override_list
  member, rleft, rpc,
  found,        \* the members the reader delivers
  torn, failed  \* the members a change of volumes hurts; was a header bad?

archive == <<volumes, record, real>>
dump == <<extended, unwritten, todo, left, pc>>
position == <<vol, at>>
headers == <<buffer, reading, list>>
delivery == <<member, rleft, found>>
writer == <<given, archive, dump, torn>>
reader == <<position, headers, delivery, rpc, failed>>
vars == <<writer, reader>>

-----------------------------------------------------------------------------
(* Keyword lists.  xheader_list_append puts a pair in front.               *)
KeywordList(pairs) == Reverse(pairs)
Overridden(options) == {options.override[i].keyword : i \in DOMAIN options.override}
Passed(options, keyword) == keyword \in options.deleted \cup Overridden(options)

Rec(keyword, value) == [keyword |-> keyword, value |-> value]

(* xheader_store of what does not fit its field, which then holds 0.       *)
Fits(keyword, value) == keyword # "atime" /\ value \notin Oversized[keyword]
Stored(keyword, value) ==
  IF Fits(keyword, value) \/ Passed(given.create, keyword)
  THEN <<>> ELSE <<Rec(keyword, value)>>
Field(keyword, value) == IF Fits(keyword, value) THEN value ELSE 0
Fields(file) == [k \in Keywords |-> Field(k, file[k])]

(* start_header, after the name.                                           *)
StoredBehindName(file) ==
  Stored("uid", file.uid) \o Stored("size", file.size) \o Stored("atime", file.atime)

(* Blocks; "of" is the member they belong to, which tar does not see.      *)
HeaderBlock(type, n, of) == [kind |-> type, size |-> n, of |-> of]
RecordBlock(records, of) == [kind |-> "records", records |-> records, of |-> of]
FileBlock(fields, of) == [kind |-> "file", fields |-> fields, of |-> of]
DataBlock(n, of) == [kind |-> "data", number |-> n, of |-> of]
Zero == [kind |-> "zero", of |-> 0]
Broken == Rec("?", 0)

(* xheader_finish adds the overrides; the data of the header are in blocks.*)
WithOverrides(records) == records \o KeywordList(given.create.override)
RecordBlocks(records, of) ==
  [b \in 1 .. (Len(records) + PerBlock - 1) \div PerBlock |->
     RecordBlock(SubSeq(records, (b - 1) * PerBlock + 1,
                        IF b * PerBlock < Len(records) THEN b * PerBlock ELSE Len(records)), of)]
(* write_extended: there is no header if nothing was stored.               *)
ExtendedHeader(type, records, of) ==
  IF records = <<>> THEN <<>>
  ELSE LET data == RecordBlocks(WithOverrides(records), of) IN
       <<HeaderBlock(type, Len(data), of)>> \o data

-----------------------------------------------------------------------------
(* create.c puts blocks into the record; Flush is the only step if it is   *)
(* full and the next one needs a block.                                    *)
HasRoom == Len(record) < BF
Put(block) == record' = Append(record, block)
GoTo(place) == pc' = place /\ UNCHANGED <<given, reader, volumes, real>>

Current == given.files[todo]
NoName == 0
Label == IF given.label THEN <<Rec("GNU.volume.label", 1)>> ELSE <<>>

(* open_archive stores the label, which xheader_write_global writes, if    *)
(* there are any keyword=value options, or else the first member.          *)
OpenArchive ==
  /\ pc = "open"
  /\ LET globals == Label \o KeywordList(given.create.global)
         blocks == ExtendedHeader("g", globals, 0) IN
     IF given.create.global = <<>>
     THEN extended' = Label /\ GoTo("next") /\ UNCHANGED <<record, unwritten>>
     ELSE /\ Put(Head(blocks)) /\ unwritten' = Tail(blocks)
          /\ GoTo("records") /\ UNCHANGED extended
  /\ UNCHANGED <<todo, left, torn>>

(* write_header_name stores the path before it asks for a block.           *)
StoreName ==
  /\ pc = "next" /\ todo < Len(given.files)
  /\ todo' = todo + 1
  /\ extended' = extended \o Stored("path", given.files[todo + 1].path)
  /\ GoTo("header")
  /\ UNCHANGED <<record, unwritten, left, torn>>

(* start_header, and the first block of xheader_write.                     *)
StartHeader ==
  /\ pc = "header" /\ HasRoom
  /\ LET blocks == ExtendedHeader("x", extended \o StoredBehindName(Current), todo) IN
     IF blocks = <<>>
     THEN GoTo("finish") /\ UNCHANGED <<record, unwritten>>
     ELSE Put(Head(blocks)) /\ unwritten' = Tail(blocks) /\ GoTo("records")
  /\ extended' = <<>>
  /\ UNCHANGED <<todo, left, torn>>

(* xheader_write.                                                          *)
WriteRecords ==
  /\ pc = "records" /\ HasRoom
  /\ Put(Head(unwritten))
  /\ unwritten' = Tail(unwritten)
  /\ GoTo(IF Len(unwritten) > 1 THEN "records" ELSE IF todo = 0 THEN "next" ELSE "finish")
  /\ UNCHANGED <<extended, todo, left, torn>>

(* finish_header, and mv_begin.                                            *)
FinishHeader ==
  /\ pc = "finish" /\ HasRoom
  /\ Put(FileBlock(Fields(Current), todo))
  /\ left' = Current.size
  /\ GoTo("data")
  /\ UNCHANGED <<extended, unwritten, todo, torn>>

WriteData ==
  /\ pc = "data" /\ left > 0 /\ HasRoom
  /\ Put(DataBlock(Current.size - left + 1, todo))
  /\ left' = left - 1
  /\ GoTo("data")
  /\ UNCHANGED <<extended, unwritten, todo, torn>>

EndMember ==
  /\ pc = "data" /\ left = 0
  /\ GoTo("next")
  /\ UNCHANGED <<record, extended, unwritten, todo, left, torn>>

(* write_eot: a block of NULs, and the rest of a record of them.           *)
WriteEot ==
  \/ /\ pc = "next" /\ todo = Len(given.files) /\ HasRoom
     /\ Put(Zero) /\ GoTo("eot")
     /\ UNCHANGED <<extended, unwritten, todo, left, torn>>
  \/ /\ pc = "eot" /\ HasRoom
     /\ record' = [k \in 1 .. BF |-> IF k \in DOMAIN record THEN record[k] ELSE Zero]
     /\ GoTo("close")
     /\ UNCHANGED <<extended, unwritten, todo, left, torn>>

-----------------------------------------------------------------------------
(* _gnu_flush_write.                                                       *)
Mounted == volumes[Len(volumes)]
NeedsBlock ==
  \/ pc \in {"header", "records", "finish", "eot"}
  \/ pc = "data" /\ left > 0
  \/ pc = "next" /\ todo = Len(given.files)
Flushing == Len(record) = BF /\ (NeedsBlock \/ pc = "close")

(* A volume takes so many records; the last one takes them all.            *)
IsFull == Len(volumes) <= Len(given.ends) /\ Len(Mounted) >= given.ends[Len(volumes)] * BF

(* mv_begin, mv_size_left, mv_end and multi_volume_sync.                   *)
NoMember == [name |-> NoName, total |-> 0, left |-> 0]
Saved ==
  IF pc = "data" THEN [name |-> Current.path, total |-> Current.size, left |-> left]
  ELSE NoMember

FlushWhole ==
  /\ Flushing /\ ~IsFull
  /\ volumes' = [volumes EXCEPT ![Len(volumes)] = @ \o record]
  /\ record' = <<>>
  /\ real' = Saved
  /\ UNCHANGED <<given, dump, torn, reader>>

(* add_volume_label, add_multi_volume_header and add_chunk_header.         *)
OffsetOfRest == real.total - real.left
OffsetOfRecord == real.left              \* a wrong Offset
Offset == OffsetOfRest
Continuation ==
  IF real.name = NoName THEN <<>>
  ELSE <<Rec("GNU.volume.filename", real.name), Rec("GNU.volume.size", real.left),
         Rec("GNU.volume.offset", Offset)>>
PartName(path) == path + 100
Chunk == [k \in Keywords |-> CASE k = "path" -> PartName(real.name)
                               [] k = "size" -> real.left [] OTHER -> 0]
ChunkHeader ==
  IF real.name = NoName THEN <<>>
  ELSE ExtendedHeader("x", Stored("path", Chunk.path) \o StoredBehindName(Chunk), 0)
       \o <<FileBlock(Fields(Chunk), 0)>>
VolumeHeaders == ExtendedHeader("g", Label \o Continuation, 0) \o ChunkHeader

(* The end of the volume.  xheader_destroy throws away what was stored for *)
(* the member, and frees what xheader_write is writing: it goes on with    *)
(* what is there.  A record that was not taken is copied behind the        *)
(* headers of the new volume.                                              *)
Freed(blocks) == [b \in DOMAIN blocks |-> RecordBlock(<<Broken>>, blocks[b].of)]
IsSplit == Mounted[Len(Mounted)].kind \in {"x", "g", "records"} /\ Head(VolumeHeaders).kind = "g"
ChangeVolume ==
  /\ Flushing /\ IsFull
  /\ LET stream == VolumeHeaders \o record
         whole == (Len(stream) \div BF) * BF IN
     /\ volumes' = Append(volumes, SubSeq(stream, 1, whole))
     /\ record' = SubSeq(stream, whole + 1, Len(stream))
  /\ extended' = <<>>
  /\ unwritten' \in {unwritten, Freed(unwritten)}
  /\ torn' = torn \cup (IF extended # <<>> \/ unwritten # <<>> THEN {todo} ELSE {})
                  \cup (IF VolumeHeaders # <<>> /\ IsSplit
                        THEN {Mounted[Len(Mounted)].of} ELSE {})
  /\ UNCHANGED <<given, real, todo, left, pc, reader>>

(* close_archive flushes what a change of volumes has left.                *)
CloseArchive ==
  /\ pc = "close" /\ Len(record) < BF
  /\ volumes' = IF record = <<>> THEN volumes
                ELSE [volumes EXCEPT ![Len(volumes)] =
                        @ \o record \o [k \in 1 .. BF - Len(record) |-> Zero]]
  /\ record' = <<>>
  /\ pc' = "done"
  /\ UNCHANGED <<given, real, extended, unwritten, todo, left, torn, reader>>

-----------------------------------------------------------------------------
(* list.c reads the archive, with options of its own.                      *)
Nothing == <<>>                          \* extended_header.size is 0
Block == volumes[vol][at]
HasBlock == pc = "done" /\ at <= Len(volumes[vol])
Read(place) == rpc' = place /\ UNCHANGED <<writer, vol>>
Go == at' = at + 1

(* decode_record ends at what is no record.                                *)
Wellformed(records) ==
  SelectSeq([i \in DOMAIN records |->
               IF \E j \in 1 .. i : records[j] = Broken THEN Broken ELSE records[i]],
            LAMBDA r : r # Broken)
Decode(values, records) ==
  FoldLeft(LAMBDA v, r : IF r.keyword \in Keywords THEN [v EXCEPT ![r.keyword] = r.value] ELSE v,
           values, records)

(* xheader_decode, after decode_header has decoded the fields: decx leaves *)
(* out what options of the reader delete or override.                      *)
Accepted(records) == SelectSeq(Wellformed(records), LAMBDA r : ~Passed(given.read, r.keyword))
Decoded(fields) ==
  Decode(Decode(Decode(Decode(fields, KeywordList(given.read.global)), list),
                Accepted(buffer)),
         KeywordList(given.read.override))

(* xheader_decode_global: the list is that of the last global header.      *)
GlobalList(records) == KeywordList(Wellformed(records))

ReadExtended ==
  /\ rpc = "header" /\ HasBlock /\ Block.kind \in {"x", "g"}
  /\ reading' = [type |-> Block.kind, blocks |-> Block.size]
  /\ buffer' = Nothing
  /\ Go /\ Read("records")
  /\ UNCHANGED <<list, delivery, failed>>

ReadRecords ==
  /\ rpc = "records" /\ reading.blocks > 0 /\ HasBlock
  /\ buffer' = buffer \o (IF Block.kind = "records" THEN Block.records ELSE <<Broken>>)
  /\ reading' = [reading EXCEPT !.blocks = @ - 1]
  /\ Go /\ Read("records")
  /\ UNCHANGED <<list, delivery, failed>>

(* xheader_read asks for one more block before it returns.                 *)
EndRecords ==
  /\ rpc = "records" /\ reading.blocks = 0 /\ HasBlock
  /\ IF reading.type = "g"
     THEN /\ list' = IF buffer = Nothing THEN list ELSE GlobalList(buffer)
          /\ buffer' = Nothing
     ELSE UNCHANGED <<list, buffer>>
  /\ Read("header")
  /\ UNCHANGED <<at, reading, delivery, failed>>

(* read_and asks name_match for the name in the ustar header.              *)
Asked(fields) == given.asked = {} \/ fields.path \in given.asked

ReadMember ==
  /\ rpc = "header" /\ HasBlock /\ Block.kind = "file"
  /\ LET values == Decoded(Block.fields) IN
     /\ member' = [name |-> values.path, total |-> values.size, asked |-> Asked(Block.fields)]
     /\ rleft' = values.size
     /\ found' = IF Asked(Block.fields)
                 THEN Append(found, [of |-> Block.of, values |-> values, data |-> <<>>])
                 ELSE found
  /\ Go /\ Read("data")
  /\ UNCHANGED <<headers, failed>>

ReadData ==
  /\ rpc = "data" /\ rleft > 0 /\ HasBlock
  /\ found' = IF member.asked
              THEN [found EXCEPT ![Len(found)].data = Append(@, Block)] ELSE found
  /\ rleft' = rleft - 1
  /\ Go /\ Read("data")
  /\ UNCHANGED <<headers, member, failed>>

(* mv_end; the loop of read_and destroys extended_header.                  *)
KeepsRecords == buffer                   \* a wrong Destroyed
Destroyed == Nothing
MemberRead ==
  /\ rpc = "data" /\ rleft = 0 /\ pc = "done"
  /\ buffer' = Destroyed
  /\ Read("header")
  /\ UNCHANGED <<at, reading, list, delivery, failed>>

(* HEADER_FAILURE: "Skipping to next header".                              *)
SkipBlock ==
  /\ rpc = "header" /\ HasBlock /\ Block.kind \in {"data", "records"}
  /\ failed' = TRUE
  /\ buffer' = Nothing
  /\ Go /\ Read("header")
  /\ UNCHANGED <<reading, list, delivery>>

EndOfArchive ==
  /\ rpc = "header" /\ HasBlock /\ Block.kind = "zero"
  /\ Read("done")
  /\ UNCHANGED <<at, headers, delivery, failed>>

-----------------------------------------------------------------------------
(* try_new_volume: the global header, and the headers up to that of a      *)
(* member, or of what is left of one.                                      *)
AtEnd == pc = "done" /\ at > Len(volumes[vol]) /\ rpc \in {"header", "records", "data"}
         /\ (rpc = "data" => rleft > 0)
Next1 == volumes[vol + 1]
RecordsOf(first) == FlattenSeq([b \in 1 .. Next1[first].size |-> Next1[first + b].records])
Behind(first) == first + Next1[first].size + 1
HasExtended == Next1[Behind(1)].kind = "x"
MemberHeader == IF HasExtended THEN Behind(Behind(1)) ELSE Behind(1)
IsReadable == MemberHeader \in DOMAIN Next1 /\ Next1[MemberHeader].kind = "file"

(* What the records say of the member that goes on here.                   *)
ValueOf(records, keyword) ==
  LET said == {i \in DOMAIN records : records[i].keyword = keyword} IN
  IF said = {} THEN 0 ELSE records[CHOOSE i \in said : TRUE].value
Reading == rpc = "data"
IsContinued(records) ==
  LET size == ValueOf(records, "GNU.volume.size")
      offset == ValueOf(records, "GNU.volume.offset") IN
  /\ ValueOf(records, "GNU.volume.filename") = member.name
  /\ member.total = size + offset
  /\ member.total - rleft = offset

(* If no member goes on, current_block is set back, to the start of the    *)
(* record that the reader has come to by then.                             *)
StartOfRecord(n) == ((n - 1) \div BF) * BF + 1

NextVolume ==
  /\ AtEnd /\ vol < Len(volumes)
  /\ IF Head(Next1).kind = "g"
     THEN /\ list' = GlobalList(RecordsOf(1))
          /\ buffer' = IF HasExtended /\ IsReadable THEN RecordsOf(Behind(1)) ELSE Nothing
          /\ IF IsReadable /\ (Reading => IsContinued(RecordsOf(1)))
             THEN /\ vol' = vol + 1 /\ rpc' = rpc
                  /\ at' = IF Reading THEN MemberHeader + 1 ELSE StartOfRecord(MemberHeader)
             ELSE rpc' = "refused" /\ UNCHANGED position
     ELSE /\ UNCHANGED <<list, buffer>>
          /\ IF Reading THEN rpc' = "refused" /\ UNCHANGED position
             ELSE vol' = vol + 1 /\ at' = 1 /\ rpc' = rpc
  /\ UNCHANGED <<writer, reading, delivery, failed>>

(* Nothing is left: a header ends the archive, data and records should     *)
(* have come.                                                              *)
UnexpectedEof ==
  /\ AtEnd /\ vol = Len(volumes)
  /\ Read(IF rpc = "header" \/ (rpc = "records" /\ reading.blocks = 0) THEN "done" ELSE "fatal")
  /\ UNCHANGED <<at, headers, delivery, failed>>

-----------------------------------------------------------------------------
Init ==
  /\ given \in Settings
  /\ volumes = << <<>> >> /\ record = <<>> /\ real = NoMember
  /\ extended = <<>> /\ unwritten = <<>>
  /\ todo = 0 /\ left = 0 /\ pc = "open"
  /\ vol = 1 /\ at = 1
  /\ buffer = Nothing /\ reading = [type |-> "x", blocks |-> 0] /\ list = <<>>
  /\ member = [name |-> NoName, total |-> 0, asked |-> FALSE] /\ rleft = 0 /\ rpc = "header"
  /\ found = <<>> /\ torn = {} /\ failed = FALSE

Create ==
  \/ OpenArchive \/ StoreName \/ StartHeader \/ WriteRecords \/ FinishHeader
  \/ WriteData \/ EndMember \/ WriteEot
  \/ FlushWhole \/ ChangeVolume \/ CloseArchive

Extract ==
  \/ ReadExtended \/ ReadRecords \/ EndRecords \/ ReadMember \/ ReadData
  \/ MemberRead \/ SkipBlock \/ EndOfArchive \/ NextVolume \/ UnexpectedEof

Finished == rpc \in {"done", "refused", "fatal"} /\ UNCHANGED vars

Next == Create \/ Extract \/ Finished

Spec == Init /\ [][Next]_vars
==============================================================================
