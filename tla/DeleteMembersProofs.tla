-------------------------- MODULE DeleteMembersProofs --------------------------
(***************************************************************************)
(* --delete: the types of its variables; writing never catches up with     *)
(* reading; it always has something to copy, so it does not abort; it      *)
(* leaves the members alone that it passes over; and what it writes is,    *)
(* block for block, what is to remain.                                     *)
(***************************************************************************)
EXTENDS DeleteMembersProps, ArchiveFileProofs, FiniteSetTheorems, WellFoundedInduction

(* The blocks the archives are made of, and those tar makes itself.        *)
Closed(B) ==
  /\ HasBlanks(B)
  /\ \A x \in B : ExtData(x.name) \in B
  /\ Archives \subseteq Seq(B)

------------------------------------------------------------------------------
(* Types.                                                                  *)

LEMMA InitTyped ==
  ASSUME NEW B, Closed(B), Init
  PROVE  TypedWith(B)
<1>. USE ArchiveFileAssumption, DeleteAssumption DEF Init, OpenForUpdate
<1>1. FilesTyped(B)
  BY DEF FilesTyped, Closed
<1>2. FlagsTyped
  BY Zenon DEF FlagsTyped
<1>3. ReaderTyped(B)
  BY DEF ReaderTyped, Closed, HasBlanks
<1>4. OutputTyped(B)
  BY DEF OutputTyped, Closed, HasBlanks, Slots
<1>5. HeadersTyped(B)
  BY DEF HeadersTyped, Closed, HasBlanks
<1>6. CopyTyped(B)
  BY DEF CopyTyped
<1>. QED
  BY <1>1, <1>2, <1>3, <1>4, <1>5, <1>6 DEF TypedWith

LEMMA FlushArchiveTyped ==
  ASSUME NEW B, TypedWith(B), FlushArchive
  PROVE  /\ record' \in [Slots -> B] /\ fpos' \in Nat
         /\ records_read' \in Nat /\ records_read' = records_read + 1
         /\ cur' = 0 /\ end' \in 0 .. BF
<1>1. records_read' = records_read + 1
  BY DEF FlushArchive, ReadRecord
<1>. QED
  BY <1>1, ReadRecordType, ReadableRange DEF TypedWith, FilesTyped, ReaderTyped, FlushArchive

LEMMA FetchTyped ==
  ASSUME NEW B, TypedWith(B), Fetch
  PROVE  TypedWith(B)'
<1>. USE DEF TypedWith, Fetch, FetchRecord
<1>1. stdout' \in Seq(B)
  BY RecordBlocksType, ConcatProperties DEF PassOn, FilesTyped, ReaderTyped
<1>2. FilesTyped(B)'
  BY <1>1, FlushArchiveTyped DEF FilesTyped, given
<1>3. FlagsTyped'
  BY Zenon DEF FlagsTyped, given
<1>4. ReaderTyped(B)'
  <2>1. records_read \in Nat /\ kept \in 0 .. BF
    BY DEF ReaderTyped
  <2>. QED
    BY <2>1, FlushArchiveTyped, ArchiveFileAssumption DEF ReaderTyped, copy
<1>5. OutputTyped(B)'
  BY DEF OutputTyped, copy
<1>6. HeadersTyped(B)'
  BY DEF HeadersTyped, headers
<1>7. CopyTyped(B)'
  BY DEF CopyTyped, copy
<1>. QED
  BY <1>2, <1>3, <1>4, <1>5, <1>6, <1>7

(* Passing over the first members.                                         *)
LEMMA CountTyped ==
  ASSUME found_count \in [Names -> Nat], NEW n, Count(n)
  PROVE  found_count' \in [Names -> Nat]
BY DeleteAssumption DEF Count

LEMMA PassedTyped ==
  ASSUME NEW B, TypedWith(B), Passed, cur' \in 0 .. BF, left' \in Nat,
         found_count' \in [Names -> Nat], pc' \in {"scan", "skip", "fatal", "done"}
  PROVE  TypedWith(B)'
<1>. USE DEF TypedWith, Passed
<1>1. FilesTyped(B)'
  BY DEF FilesTyped, output, given
<1>2. FlagsTyped'
  BY Zenon DEF FlagsTyped, output, given
<1>3. ReaderTyped(B)'
  BY DEF ReaderTyped
<1>4. OutputTyped(B)'
  BY DEF OutputTyped, output
<1>5. HeadersTyped(B)'
  BY DEF HeadersTyped
<1>6. CopyTyped(B)'
  BY DEF CopyTyped
<1>. QED
  BY <1>1, <1>2, <1>3, <1>4, <1>5, <1>6

LEMMA HeaderSize ==
  ASSUME NEW B, Closed(B), TypedWith(B), HasBlock
  PROVE  /\ block \in B /\ block \in Block
         /\ block.size \in Nat /\ ExtData(block.name) \in B
         /\ cur + 1 \in 0 .. BF /\ cur + 1 <= end /\ cur \in Slots
         /\ records_read - 1 \in Nat
<1>1. cur \in Slots /\ cur + 1 \in 0 .. BF /\ cur + 1 <= end /\ records_read - 1 \in Nat
  BY ArchiveFileAssumption DEF TypedWith, ReaderTyped, HasBlock, Slots
<1>2. block \in B
  BY <1>1 DEF block, TypedWith, ReaderTyped
<1>3. block \in Block /\ ExtData(block.name) \in B
  BY <1>2 DEF Closed, HasBlanks
<1>4. block.size \in Nat
  BY <1>3 DEF Block
<1>. QED
  BY <1>1, <1>2, <1>3, <1>4

LEMMA ScanTyped ==
  ASSUME NEW B, Closed(B), TypedWith(B),
         ScanMember \/ SkipData \/ SkipUnexpectedEof \/ ScanNonHeader \/ ScanEnd
  PROVE  TypedWith(B)'
<1>0. /\ cur \in 0 .. BF /\ end \in 0 .. BF /\ left \in Nat
      /\ found_count \in [Names -> Nat]
  BY DEF TypedWith, ReaderTyped, CopyTyped, HeadersTyped
<1>1. CASE ScanMember
  BY <1>0, <1>1, CountTyped, HeaderSize, PassedTyped DEF ScanMember
<1>2. CASE SkipData
  <2> DEFINE n == Lesser(end - cur, left)
  <2>0. cur' = cur + n /\ left' = left - n /\ cur < end
    BY <1>2 DEF SkipData, HasBlock
  <2>1. n \in Nat /\ n <= end - cur /\ n <= left
    BY <1>0, <2>0 DEF Lesser
  <2>2. cur' \in 0 .. BF /\ left' \in Nat
    <3>. HIDE DEF n
    <3>. QED
      BY <1>0, <2>0, <2>1, ArchiveFileAssumption
  <2>3. pc' \in {"scan", "skip"} /\ found_count' = found_count /\ Passed
    BY <1>2 DEF SkipData
  <2>. QED
    BY <1>0, <2>2, <2>3, PassedTyped
<1>3. CASE SkipUnexpectedEof
  BY <1>0, <1>3, PassedTyped DEF SkipUnexpectedEof
<1>4. CASE ScanNonHeader
  BY <1>0, <1>4, HeaderSize, PassedTyped DEF ScanNonHeader
<1>5. CASE ScanEnd
  BY <1>0, <1>5, PassedTyped DEF ScanEnd
<1>. QED
  BY <1>1, <1>2, <1>3, <1>4, <1>5

LEMMA StartRewritingTyped ==
  ASSUME NEW B, Closed(B), TypedWith(B), HasBlock, StartRewriting,
         cur' \in 0 .. BF, left' \in Nat,
         found_count' \in [Names -> Nat], pc' \in {"drop", "loop"}
  PROVE  TypedWith(B)'
<1>. USE DEF TypedWith, StartRewriting
<1>1. FilesTyped(B)'
  BY DEF FilesTyped, given
<1>2. FlagsTyped'
  BY Zenon DEF FlagsTyped, given
<1>3. ReaderTyped(B)'
  BY DEF ReaderTyped
<1>4. OutputTyped(B)'
  <2>1. new_record' \in [Slots -> B]
    BY DEF ReaderTyped, Closed, HasBlanks
  <2>2. new_blocks' \in Slots /\ records_skipped' \in Nat
    BY HeaderSize DEF RecordsSkipped
  <2>. QED
    BY <2>1, <2>2 DEF OutputTyped
<1>5. HeadersTyped(B)'
  BY DEF HeadersTyped
<1>6. CopyTyped(B)'
  BY DEF CopyTyped
<1>. QED
  BY <1>1, <1>2, <1>3, <1>4, <1>5, <1>6

LEMMA ScanFoundTyped ==
  ASSUME NEW B, Closed(B), TypedWith(B), ScanDeleted \/ ScanExtended
  PROVE  TypedWith(B)'
<1>0. /\ cur \in 0 .. BF /\ left \in Nat
      /\ found_count \in [Names -> Nat]
  BY DEF TypedWith, ReaderTyped, CopyTyped, HeadersTyped
<1>1. CASE ScanDeleted
  BY <1>0, <1>1, CountTyped, HeaderSize, StartRewritingTyped DEF ScanDeleted
<1>2. CASE ScanExtended
  BY <1>0, <1>2, StartRewritingTyped DEF ScanExtended
<1>. QED
  BY <1>1, <1>2

(* Dropping a member, and the head of the loop.                            *)
LEMMA DropTyped ==
  ASSUME NEW B, TypedWith(B), DropRecord \/ DropRest \/ Loop
  PROVE  TypedWith(B)'
<1>. USE DEF TypedWith
<1>1. /\ record' \in [Slots -> B] /\ fpos' \in Nat
      /\ records_read' \in Nat /\ (end' > 0 => records_read' > 0)
      /\ cur' \in 0 .. BF /\ end' \in 0 .. BF
      /\ left' \in Nat
  <2>0. BF \in Nat
    BY ArchiveFileAssumption
  <2>1. CASE DropRecord
    <3>1. left - (end - cur) \in Nat
      BY <2>1 DEF DropRecord, ReaderTyped, CopyTyped
    <3>2. FlushArchive /\ left' = left - (end - cur) /\ records_read \in Nat
      BY <2>1 DEF DropRecord, ReaderTyped
    <3>. QED
      BY <2>0, <3>1, <3>2, FlushArchiveTyped
  <2>2. CASE DropRest
    <3>1. end - cur > left /\ cur' = cur + left /\ left' = 0
          /\ UNCHANGED <<record, fpos, records_read, end>>
      BY <2>2 DEF DropRest
    <3>. QED
      BY <2>0, <3>1 DEF FilesTyped, ReaderTyped, CopyTyped
  <2>3. CASE Loop /\ cur = end
    <3>1. FlushArchive /\ left' = left /\ records_read \in Nat /\ left \in Nat
      BY <2>3 DEF Loop, ReaderTyped, CopyTyped
    <3>. QED
      BY <2>0, <3>1, FlushArchiveTyped
  <2>4. CASE Loop /\ cur # end
    BY <2>4 DEF Loop, FilesTyped, ReaderTyped, CopyTyped
  <2>. QED
    BY <2>1, <2>2, <2>3, <2>4
<1>2. /\ UNCHANGED <<given, file, hit_eof, output, headers, pending, kept, zeros>>
      /\ pc' \in {"drop", "loop", "read"}
  BY DEF DropRecord, DropRest, Loop
<1>3. FilesTyped(B)'
  BY <1>1, <1>2 DEF FilesTyped, output, given
<1>4. FlagsTyped'
  BY <1>2, Zenon DEF FlagsTyped, output, given
<1>5. ReaderTyped(B)'
  BY <1>1, <1>2 DEF ReaderTyped
<1>6. OutputTyped(B)'
  BY <1>2 DEF OutputTyped, output
<1>7. HeadersTyped(B)'
  BY <1>2 DEF HeadersTyped, headers
<1>8. CopyTyped(B)'
  BY <1>1, <1>2 DEF CopyTyped
<1>. QED
  BY <1>3, <1>4, <1>5, <1>6, <1>7, <1>8

(* Reading the next header.                                                *)
LEMMA ReadingTyped ==
  ASSUME NEW B, TypedWith(B), Reading, cur' \in 0 .. BF, left' \in Nat,
         extended_header' \in B, long_name' \in B,
         found_count' \in [Names -> Nat],
         pending' \in Seq(B), pc' = "header" => pending' # <<>> /\ cur' <= end,
         pc' \in {"drop", "loop", "read", "long", "pax", "header", "undefined", "eot"}
  PROVE  TypedWith(B)'
<1>. USE DEF TypedWith, Reading
<1>1. FilesTyped(B)'
  BY DEF FilesTyped, output, given
<1>2. FlagsTyped'
  BY Zenon DEF FlagsTyped, output, given
<1>3. ReaderTyped(B)'
  BY DEF ReaderTyped
<1>4. OutputTyped(B)'
  BY DEF OutputTyped, output
<1>5. HeadersTyped(B)'
  BY DEF HeadersTyped
<1>6. CopyTyped(B)'
  BY DEF CopyTyped
<1>. QED
  BY <1>1, <1>2, <1>3, <1>4, <1>5, <1>6

LEMMA ExtensionTyped ==
  ASSUME NEW B, Closed(B), TypedWith(B)
  PROVE  ExtensionBlocks \in Seq(B)
<1>1. /\ extended_header \in B /\ ExtData(extended_header.name) \in B
      /\ long_name \in B /\ ExtData(long_name.name) \in B
      /\ Zero \in B
  BY DEF TypedWith, HeadersTyped, Closed, HasBlanks
<1>2. /\ <<extended_header, ExtData(extended_header.name)>> \in Seq(B)
      /\ <<long_name, ExtData(long_name.name)>> \in Seq(B)
      /\ <<Zero>> \in Seq(B) /\ <<>> \in Seq(B)
  BY <1>1
<1>3. ASSUME NEW s \in Seq(B), NEW t \in Seq(B) PROVE s \o t \in Seq(B)
  BY ConcatProperties
<1>. QED
  BY <1>2, <1>3 DEF ExtensionBlocks

LEMMA ReadTyped ==
  ASSUME NEW B, Closed(B), TypedWith(B),
         \/ ReadExtension \/ ReadExtensionData \/ ReadDeleted \/ ReadKept
         \/ ReadNonHeader \/ ReadPastEnd \/ ReadEnd
  PROVE  TypedWith(B)'
<1>0. /\ cur \in 0 .. BF /\ end \in 0 .. BF /\ left \in Nat
      /\ found_count \in [Names -> Nat]
      /\ extended_header \in B /\ long_name \in B /\ Junk \in B
      /\ pending \in Seq(B)
  BY DEF TypedWith, ReaderTyped, CopyTyped, HeadersTyped, Closed, HasBlanks
<1>1. CASE ReadExtension
  BY <1>0, <1>1, HeaderSize, ReadingTyped DEF ReadExtension
<1>2. CASE ReadExtensionData
  BY <1>0, <1>2, HeaderSize, ReadingTyped DEF ReadExtensionData, headers
<1>3. CASE ReadDeleted
  BY <1>0, <1>3, CountTyped, HeaderSize, ReadingTyped DEF ReadDeleted
<1>4. CASE ReadKept
  <2>1. /\ HasBlock /\ Reading /\ Count(EffectiveName(block))
        /\ pending' = Append(ExtensionsKept, block)
        /\ cur' = cur + 1 /\ left' = block.size /\ pc' = "header"
        /\ long_name' = Junk /\ extended_header' = extended_header
    BY <1>4 DEF ReadKept
  <2>2. pending' \in Seq(B) /\ pending' # <<>>
    BY <2>1, HeaderSize, ExtensionTyped DEF ExtensionsKept
  <2>. QED
    BY <1>0, <2>1, <2>2, CountTyped, HeaderSize, ReadingTyped
<1>5. CASE ReadNonHeader
  BY <1>0, <1>5, HeaderSize, ReadingTyped DEF ReadNonHeader, NextBlock, headers
<1>6. CASE ReadPastEnd
  BY <1>0, <1>6, ReadingTyped DEF ReadPastEnd, headers
<1>7. CASE ReadEnd
  BY <1>0, <1>7, ReadingTyped DEF ReadEnd, headers
<1>. QED
  BY <1>1, <1>2, <1>3, <1>4, <1>5, <1>6, <1>7

(* Writing.                                                                *)
LEMMA WriteRecordTyped ==
  ASSUME NEW B, Closed(B), TypedWith(B), NEW r \in [Slots -> B], NEW m \in BOOLEAN,
         WriteRecord(r, m)
  PROVE  /\ file' \in Seq(B) /\ stdout' \in Seq(B) /\ fpos' \in Nat
         /\ records_written' = records_written + 1
<1>0. /\ file \in Seq(B) /\ stdout \in Seq(B) /\ fpos \in Nat /\ BF \in Nat /\ Zero \in B
      /\ records_read \in Nat /\ records_written \in Nat /\ records_skipped \in Nat
  BY ArchiveFileAssumption
  DEF TypedWith, FilesTyped, ReaderTyped, OutputTyped, Closed, HasBlanks
<1>1. RecordBlocks(r) \in Seq(B)
  BY RecordBlocksType
<1>2. records_written' = records_written + 1
  BY DEF WriteRecord
<1>3. CASE acting_as_filter
  <2>1. stdout' = stdout \o RecordBlocks(r) /\ file' = file /\ fpos' = fpos
    BY <1>3 DEF WriteRecord
  <2>. QED
    BY <1>0, <1>1, <1>2, <2>1, ConcatProperties
<1>4. CASE ~ acting_as_filter
  <2> DEFINE p == Greater(0, fpos + BF * Back)
  <2>1. p \in Nat
    <3>1. Back \in Int
      BY <1>0 DEF Back
    <3>2. fpos + BF * Back \in Int
      BY <1>0, <3>1
    <3>. QED
      BY <3>2 DEF Greater
  <2>2. Forward \in Int
    BY <1>0 DEF Forward
  <2>3. /\ file' = Overwritten(file, p, RecordBlocks(r)) /\ stdout' = stdout
        /\ fpos' = IF m THEN Greater(0, p + BF + BF * Forward) ELSE p + BF
    BY <1>4 DEF WriteRecord
  <2>4. p + BF + BF * Forward \in Int /\ p + BF \in Nat
    <3>. HIDE DEF p
    <3>. QED
      BY <1>0, <2>1, <2>2
  <2>5. fpos' \in Nat
    BY <2>3, <2>4 DEF Greater
  <2>6. file' \in Seq(B)
    BY <1>0, <1>1, <2>1, <2>3, OverwrittenType
  <2>. QED
    BY <1>0, <1>2, <2>3, <2>5, <2>6
<1>. QED
  BY <1>3, <1>4

LEMMA PutBlocksTyped ==
  ASSUME NEW B, Closed(B), TypedWith(B), NEW r \in [Slots -> B], NEW n \in 0 .. BF,
         PutBlocks(r, n)
  PROVE  FilesTyped(B)' /\ FlagsTyped' /\ OutputTyped(B)' /\ HeadersTyped(B)'
<1>. USE DEF TypedWith, PutBlocks
<1>0. BF \in Nat \ {0}
  BY ArchiveFileAssumption
<1>1. /\ file' \in Seq(B) /\ stdout' \in Seq(B) /\ fpos' \in Nat
      /\ records_written' \in Nat
  <2>1. CASE n = BF
    <3>1. WriteRecord(r, TRUE) /\ TRUE \in BOOLEAN
      BY <2>1
    <3>2. /\ file' \in Seq(B) /\ stdout' \in Seq(B) /\ fpos' \in Nat
          /\ records_written' = records_written + 1
      <4>. HIDE DEF TypedWith, PutBlocks
      <4>. QED
        BY <3>1, WriteRecordTyped
    <3>. QED
      BY <3>2 DEF OutputTyped
  <2>2. CASE n # BF
    BY <2>2 DEF FilesTyped, OutputTyped
  <2>. QED
    BY <2>1, <2>2
<1>2. FilesTyped(B)'
  BY <1>1 DEF FilesTyped, given
<1>3. FlagsTyped'
  BY Zenon DEF FlagsTyped, given
<1>4. OutputTyped(B)'
  <2>1. new_blocks' \in Slots
    BY <1>0 DEF Slots
  <2>. QED
    BY <1>1, <2>1 DEF OutputTyped
<1>5. HeadersTyped(B)'
  BY DEF HeadersTyped, headers
<1>. QED
  BY <1>2, <1>3, <1>4, <1>5

LEMMA CopyHeaderPuts ==
  ASSUME NEW B, Closed(B), TypedWith(B), CopyHeader
  PROVE  /\ \E r \in [Slots -> B] : PutBlocks(r, new_blocks + 1)
         /\ new_blocks + 1 <= BF
         /\ pending' = Tail(pending) /\ pending' \in Seq(B)
         /\ Len(pending) \in Nat /\ Len(pending) > 0 /\ Len(pending') = Len(pending) - 1
<1>0. /\ pending \in Seq(B) /\ pending # <<>> /\ new_blocks \in Slots
      /\ new_record \in [Slots -> B] /\ BF \in Nat \ {0} /\ pending' = Tail(pending)
  BY ArchiveFileAssumption DEF TypedWith, CopyTyped, OutputTyped, CopyHeader
<1>. DEFINE r == [new_record EXCEPT ![new_blocks] = Head(pending)]
<1>1. /\ Head(pending) \in B /\ Tail(pending) \in Seq(B)
      /\ Len(Tail(pending)) = Len(pending) - 1
      /\ Len(pending) \in Nat \ {0}
  BY <1>0, HeadTailProperties, EmptySeq
<1>2. r \in [Slots -> B]
  BY <1>0, <1>1
<1>3. new_blocks + 1 <= BF
  BY <1>0 DEF Slots
<1>4. PutBlocks(r, new_blocks + 1)
  BY DEF CopyHeader
<1>5. \E q \in [Slots -> B] : PutBlocks(q, new_blocks + 1)
  <2>. HIDE DEF r
  <2>. QED
    BY <1>2, <1>4
<1>. QED
  BY <1>0, <1>1, <1>3, <1>5

LEMMA CopyHeaderTyped ==
  ASSUME NEW B, Closed(B), TypedWith(B), CopyHeader
  PROVE  TypedWith(B)'
<1>. USE DEF TypedWith, CopyHeader
<1>0. /\ BF \in Nat \ {0} /\ new_blocks \in Nat
      /\ cur \in 0 .. BF /\ end \in 0 .. BF /\ cur <= end /\ left \in Nat
  BY ArchiveFileAssumption DEF CopyTyped, OutputTyped, ReaderTyped, Slots
<1>1. /\ new_blocks + 1 <= BF /\ pending' \in Seq(B)
      /\ Len(pending) \in Nat /\ Len(pending) > 0 /\ Len(pending') = Len(pending) - 1
  BY CopyHeaderPuts
<1>2. PICK r \in [Slots -> B] : PutBlocks(r, new_blocks + 1)
  BY CopyHeaderPuts
<1>3. FilesTyped(B)' /\ FlagsTyped' /\ OutputTyped(B)' /\ HeadersTyped(B)'
  BY <1>0, <1>1, <1>2, PutBlocksTyped
<1>4. UNCHANGED <<record, end, records_read, cur, left>>
  BY <1>2 DEF PutBlocks
<1>5. CASE Len(pending) = 1
  <2>1. /\ Lesser(end - cur, left) \in 0 .. BF /\ Lesser(end - cur, left) <= BF - cur
        /\ Lesser(end - cur, left) <= left
    BY <1>0 DEF Lesser
  <2>2. kept' = Lesser(end - cur, left) /\ pc' \in {"data", "loop"}
    BY <1>5
  <2>3. cur + kept' <= BF /\ kept' \in 0 .. BF /\ kept' <= left
    BY <1>0, <2>1, <2>2
  <2>4. ReaderTyped(B)'
    BY <1>4, <2>2, <2>3 DEF ReaderTyped
  <2>5. CopyTyped(B)'
    BY <1>1, <1>4, <2>2 DEF CopyTyped
  <2>. QED
    BY <1>3, <2>4, <2>5
<1>6. CASE Len(pending) # 1
  <2>1. kept' = kept /\ pc' = "header"
    BY <1>6
  <2>2. pending' # <<>>
    <3>1. Len(pending') # 0
      BY <1>1, <1>6
    <3>. QED
      BY <3>1, EmptySeq
  <2>3. ReaderTyped(B)'
    BY <1>0, <1>4, <2>1 DEF ReaderTyped
  <2>4. CopyTyped(B)'
    BY <1>1, <1>4, <2>1, <2>2 DEF CopyTyped
  <2>. QED
    BY <1>3, <2>3, <2>4
<1>. QED
  BY <1>5, <1>6

LEMMA FetchDataTyped ==
  ASSUME NEW B, Closed(B), TypedWith(B), FetchData
  PROVE  TypedWith(B)'
<1>. USE DEF TypedWith, FetchData
<1>0. /\ left \in Nat /\ BF \in Nat \ {0} /\ end \in 0 .. BF /\ records_read \in Nat
      /\ file \in Seq(B) /\ fpos \in Nat /\ record \in [Slots -> B]
  BY ArchiveFileAssumption DEF CopyTyped, ReaderTyped, FilesTyped
<1>1. /\ record' \in [Slots -> B] /\ fpos' \in Nat /\ cur' = 0
      /\ records_read' = records_read + 1 /\ end' \in 0 .. BF
  <2>1. ReadRecord /\ (end' = end \/ end' = Readable)
    BY DEF FlushReadOnly
  <2>. QED
    BY <1>0, <2>1, ReadRecordType, ReadableRange DEF ReadRecord
<1>2. kept' \in 0 .. BF /\ kept' <= left /\ left' = left
  BY <1>0 DEF KeptInRecord, Lesser
<1>3. FilesTyped(B)'
  BY <1>1 DEF FilesTyped, output, given
<1>4. FlagsTyped'
  BY Zenon DEF FlagsTyped, output, given
<1>5. ReaderTyped(B)'
  BY <1>0, <1>1, <1>2 DEF ReaderTyped
<1>6. OutputTyped(B)'
  BY DEF OutputTyped, output
<1>7. HeadersTyped(B)'
  BY DEF HeadersTyped, headers
<1>8. CopyTyped(B)'
  BY DEF CopyTyped
<1>. QED
  BY <1>3, <1>4, <1>5, <1>6, <1>7, <1>8

(* What CopyData copies: CopyCount blocks, from cur on.                    *)
LEMMA CopyCountRange ==
  ASSUME NEW B, TypedWith(B), CopyData
  PROVE  /\ CopyCount \in 1 .. BF - new_blocks /\ CopyCount <= kept
         /\ cur + kept <= BF
<1>1. /\ kept \in 0 .. BF /\ new_blocks \in 0 .. BF - 1 /\ cur + kept <= BF /\ BF \in Nat
  BY ArchiveFileAssumption
  DEF TypedWith, ReaderTyped, OutputTyped, Slots, CopyData, Copying
<1>2. CopyCount > 0
  BY DEF CopyData
<1>. QED
  BY <1>1, <1>2 DEF CopyCount, Lesser

LEMMA CopyDataPuts ==
  ASSUME NEW B, Closed(B), TypedWith(B), CopyData
  PROVE  \E r \in [Slots -> B] : PutBlocks(r, new_blocks + CopyCount)
<1>. DEFINE r == [k \in Slots |->
                   IF k \in new_blocks .. new_blocks + CopyCount - 1
                   THEN record[cur + (k - new_blocks)] ELSE new_record[k]]
<1>0. /\ BF \in Nat /\ new_blocks \in 0 .. BF - 1 /\ kept \in 0 .. BF /\ cur \in 0 .. BF
      /\ record \in [Slots -> B] /\ new_record \in [Slots -> B]
  BY ArchiveFileAssumption DEF TypedWith, ReaderTyped, OutputTyped, Slots
<1>1. CopyCount \in 1 .. BF - new_blocks /\ CopyCount <= kept /\ cur + kept <= BF
  BY CopyCountRange
<1>2. r \in [Slots -> B]
  <2>1. ASSUME NEW k \in Slots, k \in new_blocks .. new_blocks + CopyCount - 1
        PROVE  record[cur + (k - new_blocks)] \in B
    <3>1. cur + (k - new_blocks) \in Slots
      BY <1>0, <1>1, <2>1 DEF Slots
    <3>. QED
      BY <1>0, <3>1
  <2>. QED
    BY <1>0, <2>1
<1>3. PutBlocks(r, new_blocks + CopyCount)
  BY DEF CopyData
<1>. QED
  BY <1>2, <1>3

LEMMA CopyDataTyped ==
  ASSUME NEW B, Closed(B), TypedWith(B), CopyData
  PROVE  TypedWith(B)'
<1>0. /\ BF \in Nat /\ new_blocks \in 0 .. BF - 1 /\ kept \in 0 .. BF /\ cur \in 0 .. BF
      /\ end \in 0 .. BF /\ left \in Nat /\ records_read \in Nat
      /\ record \in [Slots -> B] /\ pending \in Seq(B)
  BY ArchiveFileAssumption DEF TypedWith, ReaderTyped, OutputTyped, CopyTyped, Slots
<1>1. CopyCount \in 1 .. BF - new_blocks /\ CopyCount <= kept /\ cur + kept <= BF
  BY CopyCountRange
<1>2. PICK r \in [Slots -> B] : PutBlocks(r, new_blocks + CopyCount)
  BY CopyDataPuts
<1>3. new_blocks + CopyCount \in 0 .. BF
  BY <1>0, <1>1
<1>4. /\ cur' = cur + CopyCount /\ left' = left - CopyCount /\ kept' = kept - CopyCount
      /\ pc' = (IF left' > 0 THEN "data" ELSE "loop") /\ pending' = pending
  BY DEF CopyData
<1>5. FilesTyped(B)' /\ FlagsTyped' /\ OutputTyped(B)' /\ HeadersTyped(B)'
  BY <1>2, <1>3, PutBlocksTyped
<1>6. UNCHANGED <<record, end, records_read>>
  BY <1>2 DEF PutBlocks
<1>7. kept <= left
  <2>1. pc \in {"data", "copy"}
    BY DEF CopyData, Copying
  <2>. QED
    BY <2>1 DEF TypedWith, ReaderTyped
<1>8. ReaderTyped(B)'
  <2>1. end > 0 => records_read > 0
    BY DEF TypedWith, ReaderTyped
  <2>2. /\ cur' \in 0 .. BF /\ kept' \in 0 .. BF /\ cur' + kept' <= BF
        /\ kept' <= left'
    BY <1>0, <1>1, <1>4, <1>7
  <2>. QED
    BY <1>0, <1>4, <1>6, <2>1, <2>2 DEF ReaderTyped
<1>9. CopyTyped(B)'
  <2>1. left' \in Nat
    BY <1>0, <1>1, <1>4, <1>7
  <2>. QED
    BY <1>0, <1>4, <2>1 DEF CopyTyped
<1>. QED
  BY <1>5, <1>8, <1>9 DEF TypedWith

LEMMA WriteEotTyped ==
  ASSUME NEW B, Closed(B), TypedWith(B), WriteEot
  PROVE  TypedWith(B)'
<1>. DEFINE r == [k \in Slots |-> IF k < new_blocks THEN new_record[k] ELSE Zero]
<1>0. /\ BF \in Nat \ {0} /\ new_blocks \in Slots /\ zeros \in Nat
      /\ new_record \in [Slots -> B] /\ Zero \in B
      /\ records_written \in Nat /\ records_skipped \in Nat
  BY ArchiveFileAssumption DEF TypedWith, OutputTyped, Closed, HasBlanks
<1>1. r \in [Slots -> B]
  BY <1>0
<1>2. \E m \in BOOLEAN : WriteRecord(r, m)
  <2>1. WriteRecord(r, zeros' < ZerosWanted)
    BY Zenon DEF WriteEot
  <2>2. (zeros' < ZerosWanted) \in BOOLEAN
    OBVIOUS
  <2>. QED
    BY <2>1, <2>2, Zenon
<1>3. /\ file' \in Seq(B) /\ stdout' \in Seq(B) /\ fpos' \in Nat
      /\ records_written' = records_written + 1
  <2>. HIDE DEF r
  <2>1. PICK m \in BOOLEAN : WriteRecord(r, m)
    BY <1>2, Zenon
  <2>. QED
    BY <1>1, <2>1, WriteRecordTyped
<1>4. /\ UNCHANGED <<given, reader, headers, new_record, write_archive_to_stdout,
                     records_skipped, pending, left, kept, pc>>
      /\ new_blocks' = 0 /\ zeros' = zeros + (BF - new_blocks)
  BY DEF WriteEot
<1>5. FilesTyped(B)'
  BY <1>3, <1>4 DEF TypedWith, FilesTyped, given
<1>6. FlagsTyped'
  BY <1>4, Zenon DEF TypedWith, FlagsTyped, reader, given
<1>7. ReaderTyped(B)'
  BY <1>4 DEF TypedWith, ReaderTyped, reader
<1>8. OutputTyped(B)'
  <2>1. records_written' \in Nat /\ new_blocks' \in Slots /\ zeros' \in Nat
    BY <1>0, <1>3, <1>4 DEF Slots
  <2>. QED
    BY <1>0, <1>4, <2>1 DEF OutputTyped
<1>9. HeadersTyped(B)' /\ CopyTyped(B)'
  BY <1>4 DEF TypedWith, HeadersTyped, CopyTyped, headers
<1>. QED
  BY <1>5, <1>6, <1>7, <1>8, <1>9 DEF TypedWith

LEMMA TruncateTyped ==
  ASSUME NEW B, Closed(B), TypedWith(B), Truncate
  PROVE  TypedWith(B)'
<1>. USE DEF TypedWith, Truncate
<1>1. file' \in Seq(B)
  <2>1. file \in Seq(B) /\ fpos \in Nat /\ Len(file) \in Nat
    BY LenProperties DEF FilesTyped
  <2>2. Lesser(fpos, Len(file)) \in 0 .. Len(file)
    BY <2>1 DEF Lesser
  <2>3. SubSeq(file, 1, Lesser(fpos, Len(file))) \in Seq(B)
    BY <2>1, <2>2, SubSeqProperties
  <2>. QED
    BY <2>1, <2>3
<1>2. FilesTyped(B)' /\ OutputTyped(B)'
  BY <1>1 DEF FilesTyped, OutputTyped, output, given
<1>3. FlagsTyped'
  BY Zenon DEF FlagsTyped, reader, output, given
<1>4. ReaderTyped(B)' /\ HeadersTyped(B)' /\ CopyTyped(B)'
  BY DEF ReaderTyped, HeadersTyped, CopyTyped, reader, headers
<1>. QED
  BY <1>2, <1>3, <1>4

LEMMA StillTyped ==
  ASSUME NEW B, TypedWith(B), CopyAborts \/ UNCHANGED vars
  PROVE  TypedWith(B)'
<1>. USE DEF TypedWith
<1>1. /\ UNCHANGED <<given, file, fpos, reader, output, headers, pending, left, kept, zeros>>
      /\ pc' = pc \/ pc' = "aborted"
  BY DEF CopyAborts, vars, copy
<1>2. FilesTyped(B)' /\ OutputTyped(B)'
  BY <1>1 DEF FilesTyped, OutputTyped, output, given
<1>3. FlagsTyped'
  BY <1>1, Zenon DEF FlagsTyped, reader, output, given
<1>4. ReaderTyped(B)' /\ HeadersTyped(B)' /\ CopyTyped(B)'
  BY <1>1 DEF ReaderTyped, HeadersTyped, CopyTyped, reader, headers
<1>. QED
  BY <1>2, <1>3, <1>4

LEMMA NextTyped ==
  ASSUME NEW B, Closed(B), TypedWith(B), [Next]_vars
  PROVE  TypedWith(B)'
<1>1. CASE Fetch
  BY <1>1, FetchTyped
<1>2. CASE ScanMember \/ SkipData \/ SkipUnexpectedEof \/ ScanNonHeader \/ ScanEnd
  BY <1>2, ScanTyped
<1>3. CASE ScanDeleted \/ ScanExtended
  BY <1>3, ScanFoundTyped
<1>4. CASE DropRecord \/ DropRest \/ Loop
  BY <1>4, DropTyped
<1>5. CASE \/ ReadExtension \/ ReadExtensionData \/ ReadDeleted \/ ReadKept
           \/ ReadNonHeader \/ ReadPastEnd \/ ReadEnd
  BY <1>5, ReadTyped
<1>6. CASE CopyHeader
  BY <1>6, CopyHeaderTyped
<1>7. CASE FetchData
  BY <1>7, FetchDataTyped
<1>8. CASE CopyData
  BY <1>8, CopyDataTyped
<1>9. CASE WriteEot
  BY <1>9, WriteEotTyped
<1>10. CASE Truncate
  BY <1>10, TruncateTyped
<1>11. CASE CopyAborts \/ UNCHANGED vars
  BY <1>11, StillTyped
<1>. QED
  BY <1>1, <1>2, <1>3, <1>4, <1>5, <1>6, <1>7, <1>8, <1>9, <1>10, <1>11 DEF Next

LEMMA BlocksClosed == Closed(Block)
<1>1. \A x \in Block : ExtData(x.name) \in Block
  BY DEF ExtData, Block, Kinds
<1>2. HasBlanks(Block)
  BY DEF HasBlanks, Zero, Junk, Block, Kinds
<1>. QED
  BY <1>1, <1>2, ArchiveFileAssumption DEF Closed

(* The variables of --delete keep their types, whatever the archive, the   *)
(* blocking factor and the names are.                                      *)
THEOREM TypeCorrect == Spec => []TypeOK
<1>1. Init => TypeOK
  BY BlocksClosed, InitTyped DEF TypeOK
<1>2. TypeOK /\ [Next]_vars => TypeOK'
  BY BlocksClosed, NextTyped DEF TypeOK
<1>. QED
  BY <1>1, <1>2, PTL DEF Spec

------------------------------------------------------------------------------
(* Writing never catches up with reading.                                  *)

(* The blocks of an archive without extended headers.                      *)
Plain == {x \in Block : x.kind # "pax"}

LEMMA PlainClosed ==
  ASSUME Archives \subseteq Seq(Plain)
  PROVE  Closed(Plain)
<1>1. \A x \in Plain : ExtData(x.name) \in Plain
  BY DEF Plain, ExtData, Block, Kinds
<1>2. HasBlanks(Plain)
  BY DEF HasBlanks, Plain, Zero, Junk, Block, Kinds
<1>. QED
  BY <1>1, <1>2 DEF Closed

(* The positions, as numbers.                                              *)
LEMMA Positions ==
  ASSUME NEW B, TypedWith(B)
  PROVE  /\ Consumed \in Int /\ Produced \in Nat
         /\ Len(pending) \in Nat
         /\ cur \in 0 .. BF /\ end \in 0 .. BF /\ BF \in Nat \ {0}
         /\ records_read \in Nat /\ (end > 0 => records_read > 0)
<1>1. /\ BF \in Nat \ {0} /\ cur \in 0 .. BF /\ end \in 0 .. BF /\ records_read \in Nat
      /\ new_blocks \in 0 .. BF - 1 /\ records_skipped \in Nat /\ records_written \in Nat
      /\ Len(pending) \in Nat
  BY LenProperties, ArchiveFileAssumption
  DEF TypedWith, ReaderTyped, OutputTyped, CopyTyped, Slots
<1>2. BF * (records_read - 1) \in Int /\ BF * (records_skipped + records_written) \in Nat
  BY <1>1
<1>3. end > 0 => records_read > 0
  BY DEF TypedWith, ReaderTyped
<1>. QED
  BY <1>1, <1>2, <1>3 DEF Consumed, Produced

(* Reading a record never moves the reader back.                           *)
LEMMA ConsumedByRead ==
  ASSUME NEW B, TypedWith(B), ReadRecord
  PROVE  Consumed' \in Int /\ Consumed' >= Consumed /\ cur' = 0
<1>1. /\ BF \in Nat /\ cur \in 0 .. BF /\ records_read \in Nat
      /\ records_read' = records_read + 1 /\ cur' = 0
  BY Positions DEF ReadRecord
<1>2. Consumed' = BF * records_read /\ Consumed = BF * records_read - BF + cur
  BY <1>1 DEF Consumed
<1>3. BF * records_read \in Nat
  BY <1>1
<1>. QED
  BY <1>1, <1>2, <1>3

LEMMA ConsumedInRecord ==
  ASSUME NEW B, TypedWith(B), UNCHANGED records_read, NEW d \in Nat, cur' = cur + d
  PROVE  Consumed' = Consumed + d
<1>1. BF * (records_read - 1) \in Int /\ cur \in Int
  BY Positions
<1>. QED
  BY <1>1 DEF Consumed

(* d more blocks of new_record, whether a record is written then or not.   *)
LEMMA ProducedByPut ==
  ASSUME NEW B, Closed(B), TypedWith(B), NEW r \in [Slots -> B], NEW d \in Nat,
         new_blocks + d <= BF, PutBlocks(r, new_blocks + d)
  PROVE  Produced' = Produced + d
<1>1. /\ BF \in Nat /\ new_blocks \in Nat
      /\ records_skipped \in Nat /\ records_written \in Nat
  BY ArchiveFileAssumption DEF TypedWith, OutputTyped, Slots
<1>2. records_skipped' = records_skipped
  BY DEF PutBlocks
<1>3. CASE new_blocks + d = BF
  <2>1. new_blocks' = 0 /\ records_written' = records_written + 1
    BY <1>3 DEF PutBlocks, WriteRecord
  <2>. QED
    BY <1>1, <1>2, <1>3, <2>1 DEF Produced
<1>4. CASE new_blocks + d # BF
  <2>1. new_blocks' = new_blocks + d /\ records_written' = records_written
    BY <1>4 DEF PutBlocks
  <2>. QED
    BY <1>1, <1>2, <2>1 DEF Produced
<1>. QED
  BY <1>3, <1>4

LEMMA ProducedSame ==
  ASSUME UNCHANGED <<records_skipped, records_written, new_blocks>>
  PROVE  Produced' = Produced
BY DEF Produced

(* A long name takes two blocks when it is written.                        *)
LEMMA ExtensionLength ==
  ASSUME extended_header = Junk, extended_header' = Junk
  PROVE  /\ Len(ExtensionBlocks) \in {0, 2} /\ Len(ExtensionBlocks') \in {0, 2}
         /\ long_name = Junk => Len(ExtensionBlocks) = 0
         /\ long_name' = Junk => Len(ExtensionBlocks') = 0
         /\ long_name' = long_name => Len(ExtensionBlocks') = Len(ExtensionBlocks)
BY DEF ExtensionBlocks

LEMMA AccountedInit ==
  ASSUME Init
  PROVE  Accounted
<1>1. extended_header = Junk /\ long_name = Junk /\ pending = <<>> /\ pc = "scan"
      /\ records_skipped = 0 /\ records_written = 0 /\ new_blocks = 0
  BY DEF Init
<1>. QED
  BY <1>1 DEF Accounted

(* The actions before the first deletion write nothing.                    *)
LEMMA AccountedScan ==
  ASSUME Accounted, UNCHANGED <<output, extended_header, long_name, pending>>,
         pc' \in {"scan", "skip", "fatal", "done"}, pc \in {"scan", "skip"}
  PROVE  Accounted'
<1>1. /\ UNCHANGED <<records_skipped, records_written, new_blocks>>
      /\ UNCHANGED <<extended_header, long_name, pending>>
  BY DEF output
<1>. QED
  BY <1>1 DEF Accounted

LEMMA AccountedRewriting ==
  ASSUME NEW B, TypedWith(B), Accounted, ScanDeleted \/ ScanExtended
  PROVE  Accounted'
<1>1. /\ pc = "scan" /\ cur < end
      /\ UNCHANGED <<records_read, records_written, extended_header, long_name, pending>>
      /\ records_skipped' = records_read - 1 /\ new_blocks' = cur
      /\ (pc' = "drop" /\ cur' = cur + 1) \/ (pc' = "loop" /\ cur' = cur)
  BY DEF ScanDeleted, ScanExtended, StartRewriting, RecordsSkipped, HasBlock
<1>2. /\ extended_header = Junk /\ long_name = Junk /\ pending = <<>> /\ records_written = 0
  BY <1>1 DEF Accounted
<1>3. /\ records_read \in Nat /\ BF \in Nat /\ cur \in Nat
  BY Positions
<1>4. BF * (records_read - 1) \in Int
  BY <1>3
<1>5. Produced' = BF * (records_read - 1) + cur /\ Consumed' = BF * (records_read - 1) + cur'
  <2>1. records_skipped' + records_written' = records_read - 1
    BY <1>1, <1>2, <1>3
  <2>. QED
    BY <1>1, <2>1 DEF Produced, Consumed
<1>6. Produced' <= Consumed'
  BY <1>1, <1>3, <1>4, <1>5
<1>7. Produced' \in Int /\ Len(ExtensionBlocks') = 0 /\ Len(pending') = 0
  BY <1>1, <1>2, <1>3, <1>4, <1>5, ExtensionLength
<1>. QED
  BY <1>1, <1>2, <1>6, <1>7 DEF Accounted, Ahead

(* Fetching a record while reading, dropping a member, or copying its data.*)
LEMMA AccountedRead ==
  ASSUME NEW B, TypedWith(B), Accounted,
         Fetch \/ DropRecord \/ DropRest \/ Loop \/ FetchData
  PROVE  Accounted'
<1>1. /\ UNCHANGED <<records_skipped, records_written, new_blocks>>
      /\ UNCHANGED <<extended_header, long_name, pending>>
  BY DEF Fetch, DropRecord, DropRest, Loop, FetchData, output, headers, copy
<1>2. /\ Consumed \in Int /\ Produced \in Int /\ cur \in Nat /\ BF \in Nat
      /\ Len(pending) \in Nat /\ left \in Nat
  BY Positions DEF TypedWith, CopyTyped
<1>3. Produced' = Produced
  BY <1>1, ProducedSame
<1>4. Consumed' \in Int /\ Consumed' >= Consumed
  <2>1. CASE ReadRecord
    BY <2>1, ConsumedByRead
  <2>2. CASE UNCHANGED <<records_read, cur>>
    BY <1>2, <2>2 DEF Consumed
  <2>3. CASE DropRest
    BY <1>2, <2>3, ConsumedInRecord DEF DropRest
  <2>. QED
    BY <2>1, <2>2, <2>3
    DEF Fetch, FetchRecord, DropRecord, Loop, FetchData, FlushArchive, FlushReadOnly
<1>5. /\ extended_header = Junk /\ pc # "pax"
      /\ (pc # "header" => pending = <<>>)
  BY DEF Accounted
<1>6. /\ Len(ExtensionBlocks) \in Nat /\ Len(ExtensionBlocks') = Len(ExtensionBlocks)
      /\ (long_name = Junk => Len(ExtensionBlocks) = 0)
  BY <1>1, <1>5, ExtensionLength
<1>7. Len(pending') = Len(pending)
  BY <1>1
<1>8. CASE Fetch
  <2>1. pc' = pc /\ pc \in {"scan", "skip", "read", "long", "pax"} /\ ~ AtEof
    BY <1>8 DEF Fetch, FetchRecord, copy, AtEof
  <2>. QED
    BY <1>1, <1>2, <1>3, <1>4, <1>5, <1>6, <1>7, <2>1 DEF Accounted, Ahead
<1>9. CASE DropRecord \/ DropRest
  <2>1. pc = "drop" /\ pc' \in {"drop", "loop"}
    BY <1>9 DEF DropRecord, DropRest
  <2>. QED
    BY <1>1, <1>2, <1>3, <1>4, <1>5, <1>6, <1>7, <2>1 DEF Accounted, Ahead
<1>10. CASE Loop
  <2>1. pc = "loop" /\ pc' = "read"
    BY <1>10 DEF Loop
  <2>. QED
    BY <1>1, <1>2, <1>3, <1>4, <1>5, <1>6, <1>7, <2>1 DEF Accounted, Ahead
<1>11. CASE FetchData
  <2>1. pc = "data" /\ pc' = "copy"
    BY <1>11 DEF FetchData
  <2>. QED
    BY <1>1, <1>2, <1>3, <1>4, <1>5, <1>6, <1>7, <2>1 DEF Accounted, Ahead
<1>. QED
  BY <1>8, <1>9, <1>10, <1>11

LEMMA AccountedHeaders ==
  ASSUME TypedWith(Plain), Accounted,
         \/ ReadExtension \/ ReadExtensionData \/ ReadDeleted \/ ReadKept
         \/ ReadNonHeader \/ ReadPastEnd \/ ReadEnd
  PROVE  Accounted'
<1>1. /\ UNCHANGED <<records_skipped, records_written, new_blocks, records_read, end, hit_eof>>
  BY DEF ReadExtension, ReadExtensionData, ReadDeleted, ReadKept, ReadNonHeader, NextBlock,
         ReadPastEnd, ReadEnd, Reading, output
<1>2. /\ Consumed \in Int /\ Produced \in Int /\ cur \in Nat /\ BF \in Nat
      /\ end \in Nat
  BY Positions
<1>3. Produced' = Produced
  BY <1>1, ProducedSame
<1>4. /\ extended_header = Junk /\ pc # "pax"
      /\ (pc # "header" => pending = <<>>)
  BY DEF Accounted
<1>5. HasBlock => block.kind # "pax"
  <2>1. ASSUME HasBlock PROVE cur \in Slots
    BY <1>2, <2>1, Positions DEF HasBlock, Slots
  <2>. QED
    BY <2>1 DEF TypedWith, ReaderTyped, Plain, block
<1>6. ASSUME cur' = cur + 1 PROVE Consumed' = Consumed + 1
  BY <1>1, <1>6, ConsumedInRecord
<1>7. ASSUME cur' = cur PROVE Consumed' = Consumed
  BY <1>1, <1>7 DEF Consumed
<1>8. CASE ReadExtension
  <2>1. /\ pc = "read" /\ pc' = "long" /\ cur' = cur + 1 /\ cur < end
        /\ extended_header' = extended_header /\ pending' = pending
    BY <1>5, <1>8 DEF ReadExtension, HasBlock
  <2>. QED
    BY <1>2, <1>3, <1>4, <1>6, <2>1 DEF Accounted, Ahead
<1>9. CASE ReadExtensionData
  <2>1. /\ pc = "long" /\ pc' = "read" /\ UNCHANGED <<extended_header, long_name, pending>>
        /\ (cur' = cur + 1 \/ (cur' = cur /\ AtEof))
    BY <1>4, <1>9 DEF ReadExtensionData, headers
  <2>2. Len(ExtensionBlocks') = Len(ExtensionBlocks) /\ Len(ExtensionBlocks) \in {0, 2}
    BY <1>4, <2>1, ExtensionLength
  <2>3. Produced + 1 <= Consumed
    BY <2>1 DEF Accounted, Ahead
  <2>4. CASE cur' = cur + 1
    <3>1. Consumed' = Consumed + 1
      BY <1>6, <2>4
    <3>2. Ahead(0)'
      BY <1>2, <1>3, <2>3, <3>1 DEF Ahead
    <3>3. Ahead(Len(ExtensionBlocks))'
      BY <1>2, <1>3, <2>2, <2>3, <3>1 DEF Ahead
    <3>. QED
      BY <1>4, <2>1, <3>2, <3>3 DEF Accounted
  <2>5. CASE cur' = cur /\ AtEof
    <3>1. Ahead(0)' /\ AtEof'
      BY <1>1, <1>2, <1>3, <1>7, <2>3, <2>5 DEF Ahead, AtEof
    <3>. QED
      BY <1>4, <2>1, <3>1 DEF Accounted
  <2>. QED
    BY <2>1, <2>4, <2>5
<1>10. CASE ReadDeleted
  <2>1. /\ pc = "read" /\ pc' = "drop" /\ cur' = cur + 1
        /\ UNCHANGED <<extended_header, pending>> /\ long_name' = Junk
    BY <1>10 DEF ReadDeleted
  <2>2. Ahead(0) /\ pending = <<>>
    BY <1>4, <2>1 DEF Accounted
  <2>3. Ahead(Len(pending))'
    BY <1>2, <1>3, <1>6, <2>1, <2>2 DEF Ahead
  <2>. QED
    BY <1>4, <2>1, <2>2, <2>3 DEF Accounted
<1>11. CASE ReadKept
  <2>1. /\ pc = "read" /\ pc' = "header" /\ cur' = cur + 1 /\ cur < end
        /\ extended_header' = extended_header /\ long_name' = Junk
        /\ pending' = Append(ExtensionBlocks, block)
    BY <1>11 DEF ReadKept, ExtensionsKept, HasBlock
  <2>2. Ahead(Len(ExtensionBlocks))
    BY <1>2, <2>1 DEF Accounted, AtEof
  <2>3. Len(pending') = Len(ExtensionBlocks) + 1 /\ Len(ExtensionBlocks) \in Nat
    BY <1>4, <2>1 DEF ExtensionBlocks
  <2>4. Ahead(Len(pending))'
    BY <1>2, <1>3, <1>6, <2>1, <2>2, <2>3 DEF Ahead
  <2>. QED
    BY <1>4, <2>1, <2>4 DEF Accounted
<1>12. CASE ReadNonHeader
  <2>1. /\ pc = "read" /\ pc' = "loop" /\ cur' = cur + 1 /\ cur < end
        /\ UNCHANGED <<extended_header, long_name, pending>>
    BY <1>12 DEF ReadNonHeader, NextBlock, HasBlock, headers
  <2>2. Ahead(Len(ExtensionBlocks))
    BY <1>2, <2>1 DEF Accounted, AtEof
  <2>3. Len(ExtensionBlocks') = Len(ExtensionBlocks) /\ Len(ExtensionBlocks) \in Nat
    BY <1>4, <2>1, ExtensionLength
  <2>4. Ahead(Len(ExtensionBlocks))'
    BY <1>2, <1>3, <1>6, <2>1, <2>2, <2>3 DEF Ahead
  <2>. QED
    BY <1>4, <2>1, <2>4 DEF Accounted
<1>13. CASE ReadPastEnd \/ ReadEnd
  <2>1. /\ pc = "read" /\ pc' \in {"undefined", "eot"}
        /\ UNCHANGED <<extended_header, pending>>
    BY <1>13 DEF ReadPastEnd, ReadEnd, headers
  <2>. QED
    BY <1>4, <2>1 DEF Accounted
<1>. QED
  BY <1>8, <1>9, <1>10, <1>11, <1>12, <1>13

LEMMA AccountedCopyHeader ==
  ASSUME NEW B, Closed(B), TypedWith(B), Accounted, CopyHeader
  PROVE  Accounted'
<1>1. /\ pc = "header" /\ cur' = cur
      /\ (pc' \in {"data", "loop"} => Len(pending) = 1) /\ pc' \in {"data", "loop", "header"}
  BY DEF CopyHeader
<1>2. PICK r \in [Slots -> B] : PutBlocks(r, new_blocks + 1)
  BY CopyHeaderPuts
<1>3. /\ pending' \in Seq(B) /\ new_blocks + 1 <= BF
      /\ Len(pending) \in Nat /\ Len(pending) > 0 /\ Len(pending') = Len(pending) - 1
  BY CopyHeaderPuts
<1>4. Produced' = Produced + 1
  BY <1>2, <1>3, ProducedByPut
<1>5. Consumed' = Consumed
  BY <1>1, <1>2 DEF PutBlocks, Consumed
<1>6. Produced \in Int /\ Consumed \in Int /\ Ahead(Len(pending))
  BY <1>1, Positions DEF Accounted
<1>7. Produced' + Len(pending') <= Consumed'
  BY <1>1, <1>3, <1>4, <1>5, <1>6 DEF Ahead
<1>8. UNCHANGED <<extended_header, long_name>> /\ extended_header = Junk /\ long_name = Junk
  BY <1>1, <1>2 DEF PutBlocks, headers, Accounted
<1>9. CASE pc' = "header"
  BY <1>7, <1>8, <1>9 DEF Accounted, Ahead
<1>10. CASE pc' \in {"data", "loop"}
  <2>1. Len(pending') = 0 /\ pending' = <<>>
    BY <1>1, <1>3, <1>10, EmptySeq
  <2>2. Len(ExtensionBlocks') = 0
    BY <1>8, ExtensionLength
  <2>. QED
    BY <1>7, <1>8, <1>10, <2>1, <2>2 DEF Accounted, Ahead
<1>. QED
  BY <1>1, <1>9, <1>10

LEMMA AccountedCopyData ==
  ASSUME NEW B, Closed(B), TypedWith(B), Accounted, CopyData
  PROVE  Accounted'
<1>1. /\ pc \in {"data", "copy"} /\ pc' \in {"data", "loop"} /\ UNCHANGED pending
      /\ cur' = cur + CopyCount
  BY DEF CopyData, Copying
<1>2. CopyCount \in Nat /\ new_blocks + CopyCount <= BF
  BY CopyCountRange, ArchiveFileAssumption DEF TypedWith, OutputTyped, Slots
<1>3. PICK r \in [Slots -> B] : PutBlocks(r, new_blocks + CopyCount)
  BY CopyDataPuts
<1>4. Produced' = Produced + CopyCount
  BY <1>2, <1>3, ProducedByPut
<1>5. UNCHANGED <<records_read, extended_header, long_name>>
  BY <1>3 DEF PutBlocks, headers
<1>6. Consumed' = Consumed + CopyCount
  BY <1>1, <1>2, <1>5, ConsumedInRecord
<1>7. /\ pending = <<>> /\ Len(pending) = 0 /\ Ahead(Len(pending))
      /\ extended_header = Junk /\ long_name = Junk
  BY <1>1 DEF Accounted
<1>8. Produced \in Int /\ Consumed \in Int
  BY Positions
<1>9. Produced' + Len(pending') <= Consumed'
  BY <1>1, <1>2, <1>4, <1>6, <1>7, <1>8 DEF Ahead
<1>10. Len(ExtensionBlocks') = 0
  BY <1>5, <1>7, ExtensionLength
<1>. QED
  BY <1>1, <1>5, <1>7, <1>9, <1>10 DEF Accounted, Ahead

LEMMA AccountedNext ==
  ASSUME Closed(Plain), TypedWith(Plain), Accounted, [Next]_vars
  PROVE  Accounted'
<1>1. CASE Fetch \/ DropRecord \/ DropRest \/ Loop \/ FetchData
  BY <1>1, AccountedRead
<1>2. CASE ScanMember \/ SkipData \/ SkipUnexpectedEof \/ ScanNonHeader \/ ScanEnd
  <2>1. /\ UNCHANGED <<output, extended_header, long_name, pending>>
        /\ pc' \in {"scan", "skip", "fatal", "done"} /\ pc \in {"scan", "skip"}
    BY <1>2 DEF ScanMember, SkipData, SkipUnexpectedEof, ScanNonHeader, ScanEnd, Passed
  <2>. QED
    BY <2>1, AccountedScan
<1>3. CASE ScanDeleted \/ ScanExtended
  BY <1>3, AccountedRewriting
<1>4. CASE \/ ReadExtension \/ ReadExtensionData \/ ReadDeleted \/ ReadKept
           \/ ReadNonHeader \/ ReadPastEnd \/ ReadEnd
  BY <1>4, AccountedHeaders
<1>5. CASE CopyHeader
  BY <1>5, AccountedCopyHeader
<1>6. CASE CopyData
  BY <1>6, AccountedCopyData
<1>7. CASE CopyAborts \/ WriteEot \/ Truncate
  <2>1. /\ UNCHANGED <<extended_header, pending>> /\ pc' \in {"aborted", "eot", "done"}
        /\ pc # "header"
    BY <1>7 DEF CopyAborts, Copying, WriteEot, Truncate, headers
  <2>. QED
    BY <2>1 DEF Accounted
<1>8. CASE UNCHANGED vars
  <2>1. UNCHANGED <<extended_header, long_name, pending, records_read, cur, end, hit_eof, pc,
                    records_skipped, records_written, new_blocks>>
    BY <1>8 DEF vars, reader, output, headers, copy
  <2>2. ExtensionBlocks' = ExtensionBlocks /\ Produced' = Produced /\ Consumed' = Consumed
    BY <2>1 DEF ExtensionBlocks, Produced, Consumed
  <2>. QED
    BY <2>1, <2>2 DEF Accounted, Ahead, AtEof
<1>. QED
  BY <1>1, <1>2, <1>3, <1>4, <1>5, <1>6, <1>7, <1>8 DEF Next

LEMMA AccountedIsSafe ==
  ASSUME NEW B, TypedWith(B), Accounted
  PROVE  WritesBehindReads
<1>1. Consumed \in Int /\ Produced \in Int
  BY Positions
<1>2. Len(ExtensionBlocks) \in Nat
  BY DEF ExtensionBlocks, Accounted
<1>3. pc # "header" => Len(pending) = 0
  BY DEF Accounted
<1>. QED
  BY <1>1, <1>2, <1>3 DEF WritesBehindReads, Rewriting, Accounted, Ahead

(* Where no archive holds an extended header, what --delete has written,   *)
(* or is about to write, never passes what it has read: no block of a      *)
(* member is overwritten before it was read (write_record, delete.c:93).   *)
(* Extended headers break this: write_recent_blocks may add a block.       *)
THEOREM NeverOvertakes ==
  ASSUME Archives \subseteq Seq(Plain)
  PROVE  Spec => []WritesBehindReads
<1>. DEFINE Inv == TypedWith(Plain) /\ Accounted
<1>1. Closed(Plain)
  BY PlainClosed
<1>2. Init => Inv
  BY <1>1, InitTyped, AccountedInit
<1>3. Inv /\ [Next]_vars => Inv'
  BY <1>1, NextTyped, AccountedNext
<1>4. Inv => WritesBehindReads
  BY AccountedIsSafe
<1>. QED
  BY <1>2, <1>3, <1>4, PTL DEF Spec

------------------------------------------------------------------------------
(* Hence what was not read yet is still the archive.                       *)

Writing == Finished \/ pc = "eot"

(* The descriptor is never behind the records that were read: short reads, *)
(* and writes that start at the beginning of the file, leave it before.    *)
NotBeyond == fpos <= BF * records_read

UnreadInv == ~ Writing => NotBeyond /\ UnreadIntact

(* A record written over one that was read, by write_record (r, 1).        *)
LEMMA WriteStaysBehind ==
  ASSUME NEW B, Closed(B), TypedWith(B), NEW r \in [Slots -> B], WriteRecord(r, TRUE),
         BF * (records_skipped + records_written + 1) <= BF * records_read, NotBeyond
  PROVE  /\ fpos' <= BF * records_read
         /\ \A i \in DOMAIN file :
              i > BF * records_read => i \in DOMAIN file' /\ file'[i] = file[i]
<1>0. /\ BF \in Nat /\ records_read \in Nat /\ records_skipped \in Nat
      /\ records_written \in Nat /\ fpos \in Nat /\ file \in Seq(B) /\ Zero \in B
  BY ArchiveFileAssumption
  DEF TypedWith, FilesTyped, ReaderTyped, OutputTyped, Closed, HasBlanks
<1>1. CASE acting_as_filter
  BY <1>1 DEF WriteRecord, NotBeyond
<1>2. CASE ~ acting_as_filter
  <2>. DEFINE w == BF * (records_skipped + records_written)
              R == BF * records_read
              p == Greater(0, fpos + BF * Back)
  <2>1. /\ w \in Nat /\ R \in Nat /\ BF * Back = w - R /\ BF * Forward = R - w - BF
        /\ w + BF <= R
    BY <1>0 DEF Back, Forward
  <2>2. /\ file' = Overwritten(file, p, RecordBlocks(r))
        /\ fpos' = Greater(0, p + BF + BF * Forward)
    BY <1>2 DEF WriteRecord
  <2>3. fpos <= R
    BY DEF NotBeyond
  <2>. HIDE DEF w, R
  <2>4. p \in Nat /\ p <= w
    BY <1>0, <2>1, <2>3 DEF Greater
  <2>5. fpos' <= R
    <3>. HIDE DEF p
    <3>. QED
      BY <1>0, <2>1, <2>2, <2>4 DEF Greater
  <2>. DEFINE v == RecordBlocks(r)
  <2>6. v \in Seq(B) /\ Len(v) = BF
    BY RecordBlocksType
  <2>. HIDE DEF p, v
  <2>7. ASSUME NEW i \in DOMAIN file, i > R
        PROVE  i \in DOMAIN file' /\ file'[i] = file[i]
    <3>1. i \in 1 .. Len(file)
      BY <1>0, LenProperties
    <3>2. i > p + Len(v)
      BY <1>0, <2>1, <2>4, <2>6, <2>7, <3>1
    <3>3. /\ i \in DOMAIN Overwritten(file, p, v)
          /\ Overwritten(file, p, v)[i] = file[i]
      BY <1>0, <2>4, <2>6, <3>1, <3>2, OverwrittenElsewhere
    <3>. QED
      BY <2>2, <3>3 DEF v
  <2>. QED
    BY <2>5, <2>7 DEF R
<1>. QED
  BY <1>1, <1>2

LEMMA UnreadInit ==
  ASSUME Init
  PROVE  UnreadInv
<1>1. file = original /\ fpos = 0 /\ records_read = 0
  BY DEF Init, OpenForUpdate
<1>2. NotBeyond
  BY <1>1, ArchiveFileAssumption DEF NotBeyond
<1>3. UnreadIntact
  BY <1>1 DEF UnreadIntact
<1>. QED
  BY <1>2, <1>3 DEF UnreadInv

LEMMA UnreadNext ==
  ASSUME NEW B, Closed(B), TypedWith(B), Accounted,
         UnreadInv, [Next]_vars
  PROVE  UnreadInv'
<1>0. /\ BF \in Nat \ {0} /\ records_read \in Nat /\ fpos \in Nat /\ file \in Seq(B)
      /\ cur \in 0 .. BF
  BY ArchiveFileAssumption DEF TypedWith, FilesTyped, ReaderTyped
<1>1. original' = original
  BY DEF Next, vars, Fetch, ScanMember, SkipData, SkipUnexpectedEof, ScanNonHeader, ScanEnd,
         Passed, ScanDeleted, ScanExtended, StartRewriting, DropRecord, DropRest, Loop,
         ReadExtension, ReadExtensionData, ReadDeleted, ReadKept, ReadNonHeader, ReadPastEnd,
         ReadEnd, Reading, CopyHeader, FetchData, CopyData, CopyAborts, PutBlocks, WriteEot,
         Truncate, given
<1>2. CASE ReadRecord /\ file' = file /\ ~ Writing
  <2>1. Readable \in 0 .. BF /\ fpos' = fpos + Readable /\ records_read' = records_read + 1
    BY <1>0, <1>2, ReadableRange DEF ReadRecord
  <2>2. fpos <= BF * records_read /\ UnreadIntact
    BY <1>2 DEF UnreadInv, NotBeyond
  <2>3. BF * records_read' = BF * records_read + BF /\ BF * records_read \in Nat
    BY <1>0, <2>1
  <2>4. NotBeyond'
    BY <1>0, <2>1, <2>2, <2>3 DEF NotBeyond
  <2>5. ASSUME NEW i \in DOMAIN original, i > BF * records_read'
        PROVE  i \in DOMAIN file' /\ file'[i] = original[i]
    <3>1. original \in Seq(B)
      BY DEF TypedWith, FilesTyped
    <3>2. i \in Int
      BY <3>1, LenProperties
    <3>3. i > BF * records_read
      BY <1>0, <2>3, <2>5, <3>2
    <3>. QED
      BY <1>2, <2>2, <3>3 DEF UnreadIntact, Writing
  <2>6. UnreadIntact'
    BY <1>1, <2>5 DEF UnreadIntact
  <2>. QED
    BY <2>4, <2>6 DEF UnreadInv
<1>3. CASE /\ ~ Writing
           /\ records_read' = records_read
           /\ fpos' <= BF * records_read
           /\ \A i \in DOMAIN file :
                i > BF * records_read => i \in DOMAIN file' /\ file'[i] = file[i]
  <2>1. UnreadIntact
    BY <1>3 DEF UnreadInv
  <2>2. ASSUME NEW i \in DOMAIN original, i > BF * records_read
        PROVE  i \in DOMAIN file' /\ file'[i] = original[i]
    <3>1. i \in DOMAIN file /\ file[i] = original[i]
      BY <1>3, <2>1, <2>2 DEF UnreadIntact, Writing
    <3>. QED
      BY <1>3, <2>2, <3>1
  <2>3. UnreadIntact'
    BY <1>1, <1>3, <2>2 DEF UnreadIntact
  <2>4. NotBeyond'
    BY <1>3 DEF NotBeyond
  <2>. QED
    BY <2>3, <2>4 DEF UnreadInv
<1>4. ASSUME UNCHANGED <<file, fpos, records_read>>, ~ Writing
      PROVE  UnreadInv'
  <2>1. fpos <= BF * records_read
    BY <1>4 DEF UnreadInv, NotBeyond
  <2>. QED
    BY <1>3, <1>4, <2>1
<1>5. CASE Fetch \/ DropRecord \/ FetchData
  <2>1. ReadRecord /\ file' = file /\ ~ Writing
    BY <1>5 DEF Fetch, FetchRecord, DropRecord, FetchData, FlushArchive, FlushReadOnly,
                Writing, Finished
  <2>. QED
    BY <1>2, <2>1
<1>6. CASE Loop
  <2>1. file' = file /\ ~ Writing
    BY <1>6 DEF Loop, Writing, Finished
  <2>2. CASE cur = end
    BY <1>2, <1>6, <2>1, <2>2 DEF Loop, FlushArchive
  <2>3. CASE cur # end
    BY <1>4, <1>6, <2>1, <2>3 DEF Loop
  <2>. QED
    BY <2>2, <2>3
<1>7. CASE \/ ScanMember \/ SkipData \/ SkipUnexpectedEof \/ ScanNonHeader \/ ScanEnd
           \/ ScanDeleted \/ ScanExtended \/ DropRest
           \/ ReadExtension \/ ReadExtensionData \/ ReadDeleted \/ ReadKept
           \/ ReadNonHeader \/ ReadPastEnd \/ ReadEnd \/ CopyAborts
  <2>1. UNCHANGED <<file, fpos, records_read>> /\ ~ Writing
    BY <1>7 DEF ScanMember, SkipData, SkipUnexpectedEof, ScanNonHeader, ScanEnd, Passed,
         ScanDeleted, ScanExtended, StartRewriting, DropRest, ReadExtension,
         ReadExtensionData, ReadDeleted, ReadKept, ReadNonHeader, ReadPastEnd, ReadEnd,
         Reading, CopyAborts, Copying, Writing, Finished, reader
  <2>. QED
    BY <1>4, <2>1
<1>8. ASSUME NEW r \in [Slots -> B], NEW d \in Nat, new_blocks + d <= BF,
             PutBlocks(r, new_blocks + d), ~ Writing, Produced + d <= BF * records_read
      PROVE  UnreadInv'
  <2>1. records_read' = records_read /\ fpos <= BF * records_read
    BY <1>8 DEF PutBlocks, UnreadInv, NotBeyond
  <2>2. CASE new_blocks + d # BF
    BY <1>4, <1>8, <2>2 DEF PutBlocks
  <2>3. CASE new_blocks + d = BF
    <3>1. WriteRecord(r, TRUE)
      BY <1>8, <2>3 DEF PutBlocks
    <3>2. records_skipped \in Nat /\ records_written \in Nat /\ new_blocks \in Nat
      BY <1>0 DEF TypedWith, OutputTyped, Slots
    <3>3. BF * (records_skipped + records_written + 1) <= BF * records_read
      BY <1>0, <1>8, <2>3, <3>2 DEF Produced
    <3>. QED
      BY <1>3, <1>8, <2>1, <3>1, <3>3, WriteStaysBehind DEF NotBeyond
  <2>. QED
    BY <2>2, <2>3
<1>9. /\ Produced \in Int /\ Consumed = BF * records_read - BF + cur
      /\ BF * records_read \in Nat
  BY <1>0, Positions DEF Consumed
<1>10. CASE CopyHeader
  <2>1. PICK r \in [Slots -> B] : PutBlocks(r, new_blocks + 1)
    BY <1>10, CopyHeaderPuts
  <2>2. /\ new_blocks + 1 <= BF /\ Len(pending) \in Nat /\ Len(pending) > 0
    BY <1>10, CopyHeaderPuts
  <2>3. Ahead(Len(pending)) /\ ~ Writing
    BY <1>10 DEF CopyHeader, Accounted, Writing, Finished
  <2>4. Produced + 1 <= BF * records_read
    BY <1>0, <1>9, <2>2, <2>3 DEF Ahead
  <2>. QED
    BY <1>8, <2>1, <2>2, <2>3, <2>4
<1>11. CASE CopyData
  <2>1. PICK r \in [Slots -> B] : PutBlocks(r, new_blocks + CopyCount)
    BY <1>11, CopyDataPuts
  <2>2. /\ CopyCount \in Nat /\ new_blocks + CopyCount <= BF /\ cur + CopyCount <= BF
    <3>1. CopyCount \in 1 .. BF - new_blocks /\ CopyCount <= kept /\ cur + kept <= BF
      BY <1>11, CopyCountRange
    <3>2. kept \in Nat /\ new_blocks \in Nat
      BY <1>0 DEF TypedWith, ReaderTyped, OutputTyped, Slots
    <3>. QED
      BY <1>0, <3>1, <3>2
  <2>3. Ahead(0) /\ ~ Writing
    BY <1>11 DEF CopyData, Copying, Accounted, Writing, Finished
  <2>4. Produced + CopyCount <= BF * records_read
    BY <1>0, <1>9, <2>2, <2>3 DEF Ahead
  <2>. QED
    BY <1>8, <2>1, <2>2, <2>3, <2>4
<1>12. CASE WriteEot \/ Truncate
  BY <1>12 DEF WriteEot, Truncate, UnreadInv, Writing, Finished
<1>13. CASE UNCHANGED vars
  <2>1. UNCHANGED <<file, fpos, records_read, pc, original>>
    BY <1>13 DEF vars, given, reader, copy
  <2>. QED
    BY <2>1 DEF UnreadInv, Writing, Finished, NotBeyond, UnreadIntact
<1>. QED
  BY <1>5, <1>6, <1>7, <1>10, <1>11, <1>12, <1>13 DEF Next

(* In an archive without extended headers the records that --delete has    *)
(* not read yet are as they were: it reads what the archive held, never    *)
(* what it has just written (move_archive, write_record).                  *)
THEOREM ReadsTheArchive ==
  ASSUME Archives \subseteq Seq(Plain)
  PROVE  Spec => []UnreadIntact
<1>. DEFINE Inv == TypedWith(Plain) /\ Accounted /\ UnreadInv
<1>1. Closed(Plain)
  BY PlainClosed
<1>2. Init => Inv
  BY <1>1, InitTyped, AccountedInit, UnreadInit
<1>3. Inv /\ [Next]_vars => Inv'
  BY <1>1, NextTyped, AccountedNext, UnreadNext
<1>4. Inv => UnreadIntact
  BY DEF UnreadInv, UnreadIntact, Writing
<1>. QED
  BY <1>2, <1>3, <1>4, PTL DEF Spec

------------------------------------------------------------------------------
(* Before the end of the archive there is always a block to read.          *)

(* No end of archive lies in a member or in the data of a long name.       *)
Whole(a) ==
  \A e \in DOMAIN a : a[e].kind = "zero" =>
    \A i \in DOMAIN a : i < e =>
      /\ a[i].kind = "header" => i + a[i].size < e
      /\ a[i].kind = "long" => i + 1 < e

WholeMembers == \A a \in Archives : Whole(a)

Before(n) == \A e \in Ends : n < e

(* record holds the last record read, which ends with the archive.         *)
Loaded ==
  records_read > 0 =>
    /\ end = Lesser(BF, Len(original) - BF * (records_read - 1))
    /\ \A i \in 0 .. end - 1 : record[i] = original[BF * (records_read - 1) + i + 1]

(* The descriptor is between two records.                                  *)
AtRecord ==
  /\ Len(file) <= Greater(Len(original), BF * records_read)
  /\ BF * records_read <= Len(original) => fpos = BF * records_read

(* The block behind what is being read.                                    *)
Target ==
  Consumed + (IF pc \in {"skip", "drop", "header", "data", "copy"} THEN left
              ELSE IF pc = "long" THEN 1 ELSE 0)

(* kept_blocks_in_record is what the record holds of the data to copy.     *)
Ready ==
  /\ pc \in {"data", "copy"} => left > 0 /\ kept = Lesser(end - cur, left)
  /\ pc = "copy" => cur < end

Started ==
  /\ ~ hit_eof /\ cur <= end
  /\ records_read = 0 => pc = "scan" /\ cur = 0 /\ end = 0

Positioned == ~ Writing => Started /\ Loaded /\ AtRecord /\ Before(Target) /\ Ready

PositionedInv == original \in Archives /\ (Ends # {} => Positioned)

LEMMA OriginalKept ==
  ASSUME [Next]_vars
  PROVE  original' = original /\ acting_as_filter' = acting_as_filter /\ Ends' = Ends
<1>1. original' = original /\ acting_as_filter' = acting_as_filter
  BY DEF Next, vars, Fetch, ScanMember, SkipData, SkipUnexpectedEof, ScanNonHeader, ScanEnd,
         Passed, ScanDeleted, ScanExtended, StartRewriting, DropRecord, DropRest, Loop,
         ReadExtension, ReadExtensionData, ReadDeleted, ReadKept, ReadNonHeader, ReadPastEnd,
         ReadEnd, Reading, CopyHeader, FetchData, CopyData, CopyAborts, PutBlocks, WriteEot,
         Truncate, given
<1>. QED
  BY <1>1 DEF Ends

(* The numbers the positions are computed from.                            *)
LEMMA PositionTypes ==
  ASSUME TypedWith(Plain)
  PROVE  /\ BF \in Nat \ {0} /\ records_read \in Nat /\ cur \in 0 .. BF /\ end \in 0 .. BF
         /\ BF * records_read \in Nat /\ left \in Nat /\ kept \in 0 .. BF
         /\ fpos \in Nat /\ file \in Seq(Plain) /\ Len(file) \in Nat
         /\ original \in Seq(Plain) /\ Len(original) \in Nat
         /\ DOMAIN original = 1 .. Len(original)
         /\ Consumed = BF * records_read - BF + cur /\ Consumed \in Int
         /\ (records_read > 0 => BF * (records_read - 1) \in Nat
                                 /\ BF * (records_read - 1) = BF * records_read - BF)
         /\ \A e \in Ends : e \in 1 .. Len(original)
         /\ record \in [Slots -> Plain] /\ pending \in Seq(Plain)
<1>1. /\ BF \in Nat \ {0} /\ records_read \in Nat /\ cur \in 0 .. BF /\ end \in 0 .. BF
      /\ left \in Nat /\ kept \in 0 .. BF /\ fpos \in Nat /\ file \in Seq(Plain)
      /\ original \in Seq(Plain) /\ record \in [Slots -> Plain] /\ pending \in Seq(Plain)
  BY ArchiveFileAssumption DEF TypedWith, FilesTyped, ReaderTyped, CopyTyped
<1>2. /\ Len(file) \in Nat /\ Len(original) \in Nat /\ DOMAIN original = 1 .. Len(original)
  BY <1>1, LenProperties
<1>3. BF * records_read \in Nat
  BY <1>1
<1>4. records_read > 0 => records_read - 1 \in Nat
  BY <1>1
<1>5. records_read > 0 => BF * (records_read - 1) \in Nat
  BY <1>1, <1>4
<1>6. BF * (records_read - 1) = BF * records_read - BF
  BY <1>1
<1>7. Consumed = BF * records_read - BF + cur /\ Consumed \in Int
  BY <1>1, <1>3, <1>6 DEF Consumed
<1>8. \A e \in Ends : e \in 1 .. Len(original)
  BY <1>2 DEF Ends
<1>. QED
  BY <1>1, <1>2, <1>3, <1>5, <1>6, <1>7, <1>8

(* The block at cur is the next one of the archive, and it is the end of   *)
(* the archive or a block before it.                                       *)
LEMMA NextBlockOfArchive ==
  ASSUME TypedWith(Plain), PositionedInv, Ends # {}, ~ Writing, HasBlock
  PROVE  /\ records_read > 0
         /\ Consumed + 1 \in DOMAIN original /\ block = original[Consumed + 1]
         /\ block \in Block /\ block.size \in Nat
         /\ block.kind # "zero" /\ Target = Consumed => Before(Consumed + 1)
<1>. DEFINE b == BF * (records_read - 1)
<1>1. records_read > 0 /\ cur < end
  BY DEF TypedWith, ReaderTyped, HasBlock
<1>2. /\ end = Lesser(BF, Len(original) - b)
      /\ \A i \in 0 .. end - 1 : record[i] = original[b + i + 1]
  BY <1>1 DEF PositionedInv, Positioned, Loaded
<1>3. Consumed = b + cur
  BY DEF Consumed
<1>4. b \in Nat /\ cur \in 0 .. BF /\ end \in 0 .. BF /\ Len(original) \in Nat /\ BF \in Nat
  BY <1>1, PositionTypes
<1>. HIDE DEF b
<1>5. end <= Len(original) - b
  BY <1>2, <1>4 DEF Lesser
<1>6. Consumed + 1 \in DOMAIN original
  BY <1>1, <1>3, <1>4, <1>5, PositionTypes
<1>7. cur \in 0 .. end - 1
  BY <1>1, <1>4
<1>8. block = original[b + cur + 1]
  BY <1>2, <1>7 DEF block
<1>9. block = original[Consumed + 1]
  BY <1>3, <1>8
<1>10. block \in Plain
  <2>1. original \in Seq(Plain) /\ Consumed + 1 \in 1 .. Len(original)
    BY <1>6, PositionTypes
  <2>. HIDE DEF Consumed
  <2>2. original[Consumed + 1] \in Plain
    BY <2>1, ElementOfSeq
  <2>. QED
    BY <1>9, <2>2
<1>11. block \in Block /\ block.size \in Nat
  BY <1>10 DEF Plain, Block
<1>12. ASSUME block.kind # "zero", Target = Consumed
       PROVE  Before(Consumed + 1)
  <2>1. Consumed + 1 \notin Ends
    BY <1>9, <1>12 DEF Ends
  <2>2. \A e \in Ends : Consumed < e
    BY <1>12 DEF PositionedInv, Positioned, Before
  <2>3. Consumed \in Int /\ \A e \in Ends : e \in Int
    BY PositionTypes
  <2>4. ASSUME NEW e \in Ends PROVE Consumed + 1 < e
    <3>1. Consumed < e /\ e # Consumed + 1 /\ e \in Int
      BY <2>1, <2>2, <2>3
    <3>. QED
      BY <2>3, <3>1
  <2>. QED
    BY <2>4 DEF Before
<1>. QED
  BY <1>1, <1>6, <1>9, <1>11, <1>12

(* What is skipped or copied with a header, or read as a name, lies before *)
(* the end of the archive too.                                             *)
LEMMA MemberBeforeEnd ==
  ASSUME TypedWith(Plain), PositionedInv, WholeMembers, Ends # {}, ~ Writing, HasBlock,
         Target = Consumed
  PROVE  /\ block.kind = "header" => Before(Consumed + 1 + block.size)
         /\ block.kind = "long" => Before(Consumed + 2)
<1>1. /\ Consumed + 1 \in DOMAIN original /\ block = original[Consumed + 1]
      /\ block.kind # "zero" => Before(Consumed + 1)
      /\ block.size \in Nat
  BY NextBlockOfArchive
<1>2. Whole(original)
  BY DEF PositionedInv, WholeMembers
<1>3. ASSUME NEW e \in Ends, block.kind \in {"header", "long"}
      PROVE  /\ block.kind = "header" => Consumed + 1 + block.size < e
             /\ block.kind = "long" => Consumed + 1 + 1 < e
  <2>1. e \in DOMAIN original /\ original[e].kind = "zero"
    BY DEF Ends
  <2>2. Consumed + 1 < e
    BY <1>1, <1>3 DEF Before
  <2>. QED
    BY <1>1, <1>2, <2>1, <2>2 DEF Whole
<1>4. Consumed \in Int /\ \A e \in Ends : e \in Int
  BY PositionTypes
<1>. QED
  BY <1>1, <1>3, <1>4 DEF Before

(* There is a record to read when this one is used up.                     *)
LEMMA MoreToRead ==
  ASSUME TypedWith(Plain), PositionedInv, Ends # {}, ~ Writing,
         cur = end \/ (pc = "drop" /\ end - cur <= left)
  PROVE  /\ BF * records_read < Len(original) /\ fpos = BF * records_read
         /\ records_read > 0 => end = BF
<1>. DEFINE R == BF * records_read
            L == Len(original)
<1>1. PICK e \in Ends : TRUE
  OBVIOUS
<1>2. /\ Started /\ Loaded /\ AtRecord
      /\ e \in 1 .. L /\ Target < e
  BY PositionTypes DEF PositionedInv, Positioned, Before
<1>3. /\ BF \in Nat \ {0} /\ R \in Nat /\ L \in Nat /\ cur \in 0 .. BF /\ end \in 0 .. BF
      /\ left \in Nat /\ Consumed = R - BF + cur
  BY PositionTypes
<1>4. records_read = 0 => R = 0
  BY <1>3
<1>5. records_read > 0 => end = Lesser(BF, L - (R - BF))
  BY <1>2, PositionTypes DEF Loaded
<1>6. Target \in Int /\ Target >= Consumed + (end - cur)
  <2>1. Consumed \in Int
    BY PositionTypes
  <2>. QED
    BY <1>3, <2>1 DEF Target
<1>7. R <= L => fpos = R
  BY <1>2 DEF AtRecord
<1>8. records_read \in Nat
  BY PositionTypes
<1>. HIDE DEF R, L
<1>9. records_read > 0 => end = BF /\ R < L
  BY <1>2, <1>3, <1>5, <1>6 DEF Lesser
<1>10. R < L
  BY <1>2, <1>3, <1>4, <1>8, <1>9
<1>. QED
  BY <1>3, <1>7, <1>9, <1>10 DEF R, L

(* It is the next record of the archive.                                   *)
LEMMA RecordOfArchive ==
  ASSUME TypedWith(Plain), PositionedInv, UnreadInv, [Next]_vars, Ends # {}, ~ Writing,
         ReadRecord, file' = file,
         cur = end \/ (pc = "drop" /\ end - cur <= left)
  PROVE  /\ Readable > 0 /\ Readable \in 0 .. BF
         /\ Consumed' = BF * records_read /\ records_read' = records_read + 1 /\ cur' = 0
         /\ Readable = Lesser(BF, Len(original) - BF * records_read)
         /\ end' = Readable => Loaded'
         /\ AtRecord'
<1>. DEFINE R == BF * records_read
            L == Len(original)
<1>1. R < L /\ fpos = R
  BY MoreToRead
<1>2. /\ BF \in Nat \ {0} /\ R \in Nat /\ L \in Nat /\ records_read \in Nat
      /\ file \in Seq(Plain) /\ Len(file) \in Nat
      /\ DOMAIN original = 1 .. L /\ DOMAIN file = 1 .. Len(file)
  BY PositionTypes, LenProperties
<1>3. /\ record' = [i \in Slots |-> IF i < Readable THEN file[fpos + i + 1] ELSE record[i]]
      /\ fpos' = fpos + Readable
      /\ records_read' = records_read + 1
      /\ cur' = 0
  BY DEF ReadRecord
<1>4. /\ original' = original
      /\ records_read' - 1 = records_read /\ BF * records_read' = R + BF
  BY <1>2, <1>3, OriginalKept
<1>5. \A i \in DOMAIN original : i > R => i \in DOMAIN file /\ file[i] = original[i]
  BY DEF UnreadInv, UnreadIntact, Writing
<1>6. Len(file) <= Greater(L, R)
  BY DEF PositionedInv, Positioned, AtRecord
<1>7. Consumed' = R
  BY <1>2, <1>3, <1>4 DEF Consumed
<1>. HIDE DEF R, L
<1>8. Len(file) = L
  <2>1. L \in DOMAIN file
    BY <1>1, <1>2, <1>5
  <2>2. L <= Len(file)
    BY <1>2, <2>1
  <2>3. Greater(L, R) = L
    BY <1>1, <1>2 DEF Greater
  <2>4. Len(file) <= L
    BY <1>6, <2>3
  <2>5. Len(file) \in Nat /\ L \in Nat
    BY <1>2
  <2>. QED
    BY <2>2, <2>4, <2>5
<1>9. /\ Readable = Lesser(BF, L - R)
      /\ Readable > 0 /\ Readable \in 0 .. BF /\ R + Readable <= L
  BY <1>1, <1>2, <1>8 DEF Readable, Greater, Lesser
<1>10. ASSUME NEW i \in 0 .. Readable - 1
       PROVE  record'[i] = original[R + i + 1]
  <2>1. i \in Slots /\ i < Readable /\ R + i + 1 \in 1 .. L /\ R + i + 1 > R
    BY <1>2, <1>9 DEF Slots
  <2>2. file[R + i + 1] = original[R + i + 1]
    BY <1>2, <1>5, <2>1
  <2>. QED
    BY <1>1, <1>3, <2>1, <2>2
<1>11. ASSUME end' = Readable PROVE Loaded'
  <2>1. end' = Lesser(BF, L - R)
    BY <1>9, <1>11
  <2>2. \A i \in 0 .. end' - 1 : record'[i] = original[R + i + 1]
    BY <1>10, <1>11
  <2>. QED
    BY <1>4, <2>1, <2>2 DEF Loaded, R, L
<1>12. AtRecord'
  <2>1. Len(file') <= Greater(L, R + BF)
    BY <1>2, <1>8 DEF Greater
  <2>2. R + BF <= L => fpos' = R + BF
    BY <1>1, <1>2, <1>3, <1>9 DEF Lesser
  <2>. QED
    BY <1>4, <2>1, <2>2 DEF AtRecord, L
<1>. QED
  BY <1>3, <1>7, <1>9, <1>11, <1>12 DEF R, L

(* A step within the record.                                               *)
LEMMA PositionedWithin ==
  ASSUME TypedWith(Plain), PositionedInv, [Next]_vars, Ends # {}, ~ Writing, records_read > 0,
         UNCHANGED <<file, fpos, record, end, hit_eof, records_read>>,
         cur' <= end, Before(Target'), Ready'
  PROVE  Positioned'
<1>1. Started /\ Loaded /\ AtRecord
  BY DEF PositionedInv, Positioned
<1>2. original' = original /\ Ends' = Ends
  BY OriginalKept
<1>3. Started'
  BY <1>1 DEF Started
<1>4. Loaded'
  BY <1>1, <1>2 DEF Loaded
<1>5. AtRecord'
  BY <1>1, <1>2 DEF AtRecord
<1>6. Before(Target)'
  BY <1>2 DEF Before
<1>. QED
  BY <1>3, <1>4, <1>5, <1>6 DEF Positioned

(* A step that reads a record.                                             *)
LEMMA PositionedAcross ==
  ASSUME TypedWith(Plain), PositionedInv, UnreadInv, [Next]_vars, Ends # {}, ~ Writing,
         ReadRecord, file' = file, end' = Readable,
         cur = end \/ (pc = "drop" /\ end - cur <= left),
         ~ hit_eof', Before(Target'), Ready'
  PROVE  Positioned'
<1>1. /\ Readable > 0 /\ records_read' = records_read + 1 /\ cur' = 0
      /\ Loaded' /\ AtRecord'
  BY RecordOfArchive
<1>2. records_read \in Nat /\ Readable \in Int
  BY PositionTypes, RecordOfArchive
<1>3. Started'
  BY <1>1, <1>2 DEF Started
<1>4. Before(Target)'
  BY OriginalKept DEF Before
<1>. QED
  BY <1>1, <1>3, <1>4 DEF Positioned

(* A block or a record written does not disturb what was read.             *)
LEMMA PositionedPut ==
  ASSUME TypedWith(Plain), Closed(Plain), PositionedInv, UnreadInv, [Next]_vars,
         Ends # {}, ~ Writing, records_read > 0,
         NEW r \in [Slots -> Plain], NEW d \in Nat, new_blocks + d <= BF,
         PutBlocks(r, new_blocks + d), Produced + d <= BF * records_read,
         cur' <= end, Before(Target'), Ready'
  PROVE  Positioned'
<1>1. Started /\ Loaded /\ AtRecord
  BY DEF PositionedInv, Positioned
<1>2. original' = original /\ Ends' = Ends
  BY OriginalKept
<1>3. UNCHANGED <<record, end, hit_eof, records_read>>
  BY DEF PutBlocks
<1>4. Started'
  BY <1>1, <1>3 DEF Started
<1>5. Loaded'
  BY <1>1, <1>2, <1>3 DEF Loaded
<1>6. Before(Target)'
  BY <1>2 DEF Before
<1>7. CASE UNCHANGED <<file, fpos>>
  <2>1. AtRecord'
    BY <1>1, <1>2, <1>3, <1>7 DEF AtRecord
  <2>. QED
    BY <1>4, <1>5, <1>6, <2>1 DEF Positioned
<1>8. CASE ~ acting_as_filter /\ new_blocks + d = BF
  <2>. DEFINE w == BF * (records_skipped + records_written)
              R == BF * records_read
              L == Len(original)
              p == Greater(0, fpos + BF * Back)
              v == RecordBlocks(r)
  <2>1. WriteRecord(r, TRUE)
    BY <1>8 DEF PutBlocks
  <2>2. /\ file' = Overwritten(file, p, v)
        /\ fpos' = Greater(0, p + BF + BF * Forward)
    BY <1>8, <2>1 DEF WriteRecord
  <2>3. /\ records_skipped \in Nat /\ records_written \in Nat /\ new_blocks \in Nat
        /\ Zero \in Plain
    BY PositionTypes DEF TypedWith, OutputTyped, Slots, Closed, HasBlanks
  <2>4. /\ BF \in Nat \ {0} /\ records_read \in Nat /\ R \in Nat /\ L \in Nat
        /\ fpos \in Nat /\ file \in Seq(Plain) /\ Len(file) \in Nat
    BY PositionTypes
  <2>5. w \in Nat /\ BF * Back = w - R /\ BF * Forward = R - w - BF
    BY <2>3, <2>4 DEF Back, Forward
  <2>6. w + BF <= R
    <3>1. Produced = w + new_blocks
      BY DEF Produced
    <3>. HIDE DEF w, R
    <3>. QED
      BY <1>8, <2>3, <2>4, <2>5, <3>1 DEF R
  <2>7. fpos <= R
    BY DEF UnreadInv, NotBeyond
  <2>8. Len(file) <= Greater(L, R) /\ (R <= L => fpos = R)
    BY <1>1 DEF AtRecord
  <2>9. v \in Seq(Plain) /\ Len(v) = BF
    BY RecordBlocksType
  <2>. HIDE DEF w, R, L, v
  <2>10. /\ p \in Nat /\ p <= w /\ (R <= L => p = w)
    BY <2>4, <2>5, <2>7, <2>8 DEF Greater
  <2>. HIDE DEF p
  <2>11. Len(file') = Greater(Len(file), p + BF)
    <3>1. p \in Nat /\ Zero \in Plain /\ file \in Seq(Plain) /\ v \in Seq(Plain)
      BY <2>3, <2>4, <2>9, <2>10
    <3>2. Len(Overwritten(file, p, v)) = Greater(Len(file), p + Len(v))
      BY <3>1, OverwrittenType
    <3>. QED
      BY <2>2, <2>9, <3>2
  <2>12. p + BF <= R
    BY <2>4, <2>5, <2>6, <2>10
  <2>13. Len(file') <= Greater(L, R)
    <3>1. DOMAIN file = 1 .. Len(file) /\ Len(file) \in Nat /\ L \in Nat /\ R \in Nat
          /\ p + BF \in Nat
      BY <2>4, <2>10, LenProperties
    <3>2. Len(file) <= Greater(L, R) /\ p + BF <= Greater(L, R)
      BY <2>8, <2>12, <3>1 DEF Greater
    <3>3. Len(file') = Len(file) \/ Len(file') = p + BF
      BY <2>11 DEF Greater
    <3>. QED
      BY <3>2, <3>3
  <2>14. R <= L => fpos' = R
    BY <2>2, <2>4, <2>5, <2>10 DEF Greater
  <2>15. AtRecord'
    BY <1>2, <1>3, <2>13, <2>14 DEF AtRecord, R, L
  <2>. QED
    BY <1>4, <1>5, <1>6, <2>15 DEF Positioned
<1>9. UNCHANGED <<file, fpos>> \/ (~ acting_as_filter /\ new_blocks + d = BF)
  BY DEF PutBlocks, WriteRecord
<1>. QED
  BY <1>7, <1>8, <1>9

(* Passing over the members before the first deletion.                     *)
LEMMA PositionedScan ==
  ASSUME TypedWith(Plain), PositionedInv, WholeMembers, [Next]_vars, Ends # {}, ~ Writing,
         \/ ScanMember \/ SkipData \/ SkipUnexpectedEof \/ ScanNonHeader \/ ScanEnd
         \/ ScanDeleted \/ ScanExtended
  PROVE  Positioned'
<1>1. UNCHANGED <<file, fpos, record, end, hit_eof, records_read>>
  BY DEF ScanMember, SkipData, SkipUnexpectedEof, ScanNonHeader, ScanEnd, Passed,
         ScanDeleted, ScanExtended, StartRewriting
<1>2. /\ cur \in Nat /\ end \in Nat /\ left \in Nat /\ Consumed \in Int /\ records_read \in Nat
      /\ Before(Target) /\ Started
  <2>1. /\ cur \in Nat /\ end \in Nat /\ left \in Nat /\ Consumed \in Int
        /\ records_read \in Nat
    BY PositionTypes
  <2>2. Before(Target) /\ Started
    BY DEF PositionedInv, Positioned
  <2>. QED
    BY <2>1, <2>2
<1>3. CASE ScanMember \/ ScanDeleted
  <2>1. /\ HasBlock /\ block.kind = "header" /\ pc = "scan" /\ cur' = cur + 1
        /\ left' = block.size
        /\ pc' = "skip" \/ pc' = "drop" \/ (pc' = "scan" /\ ~ block.size > 0)
    BY <1>3 DEF ScanMember, ScanDeleted
  <2>2. Target = Consumed
    BY <1>2, <2>1 DEF Target
  <2>3. /\ records_read > 0 /\ block.size \in Nat /\ Before(Consumed + 1 + block.size)
    BY <2>1, <2>2, NextBlockOfArchive, MemberBeforeEnd
  <2>4. Consumed' = Consumed + 1
    BY <1>1, <2>1, ConsumedInRecord
  <2>5. Target' = Consumed + 1 + block.size
    BY <1>2, <2>1, <2>3, <2>4 DEF Target
  <2>6. cur' <= end /\ Ready'
    BY <1>2, <2>1 DEF HasBlock, Ready
  <2>. QED
    BY <1>1, <2>3, <2>5, <2>6, PositionedWithin
<1>4. CASE SkipData
  <2>. DEFINE n == Lesser(end - cur, left)
  <2>1. /\ HasBlock /\ pc = "skip" /\ cur' = cur + n /\ left' = left - n
        /\ pc' = IF left' > 0 THEN "skip" ELSE "scan"
    BY <1>4 DEF SkipData
  <2>2. n \in Nat /\ n <= end - cur /\ n <= left
    BY <1>2, <2>1 DEF Lesser, HasBlock
  <2>. HIDE DEF n
  <2>3. Consumed' = Consumed + n
    BY <1>1, <2>1, <2>2, ConsumedInRecord
  <2>4. Target' = Target
    BY <1>2, <2>1, <2>2, <2>3 DEF Target
  <2>5. cur' <= end /\ Ready'
    BY <1>2, <2>1, <2>2 DEF Ready
  <2>6. records_read > 0
    BY <2>1, NextBlockOfArchive
  <2>. QED
    BY <1>1, <1>2, <2>4, <2>5, <2>6, PositionedWithin
<1>5. CASE ScanNonHeader
  <2>1. HasBlock /\ block.kind # "zero" /\ pc = "scan" /\ cur' = cur + 1 /\ pc' = pc
    BY <1>5 DEF ScanNonHeader
  <2>2. Target = Consumed
    BY <1>2, <2>1 DEF Target
  <2>3. records_read > 0 /\ Before(Consumed + 1)
    BY <2>1, <2>2, NextBlockOfArchive
  <2>4. Consumed' = Consumed + 1
    BY <1>1, <2>1, ConsumedInRecord
  <2>5. Target' = Consumed + 1
    BY <1>2, <2>1, <2>4 DEF Target
  <2>6. cur' <= end /\ Ready'
    BY <1>2, <2>1 DEF HasBlock, Ready
  <2>. QED
    BY <1>1, <2>3, <2>5, <2>6, PositionedWithin
<1>6. CASE ScanExtended
  <2>1. HasBlock /\ pc = "scan" /\ cur' = cur + 0 /\ pc' = "loop"
    BY <1>2, <1>6 DEF ScanExtended
  <2>2. Target = Consumed
    BY <1>2, <2>1 DEF Target
  <2>3. records_read > 0
    BY <2>1, NextBlockOfArchive
  <2>4. Consumed' = Consumed
    BY <1>1, <1>2, <2>1, ConsumedInRecord
  <2>5. Target' = Target
    BY <1>2, <2>1, <2>2, <2>4 DEF Target
  <2>6. cur' <= end /\ Ready'
    BY <1>2, <2>1 DEF HasBlock, Ready
  <2>. QED
    BY <1>1, <1>2, <2>3, <2>5, <2>6, PositionedWithin
<1>7. CASE SkipUnexpectedEof \/ ScanEnd
  BY <1>7 DEF SkipUnexpectedEof, ScanEnd, Positioned, Writing, Finished
<1>. QED
  BY <1>3, <1>4, <1>5, <1>6, <1>7

(* Dropping a member, and the head of the loop.                            *)
LEMMA PositionedDrop ==
  ASSUME TypedWith(Plain), Accounted, PositionedInv, UnreadInv, [Next]_vars,
         Ends # {}, ~ Writing,
         Fetch \/ DropRecord \/ DropRest \/ Loop
  PROVE  Positioned'
<1>1. /\ cur \in Nat /\ end \in Nat /\ BF \in Nat /\ left \in Nat /\ Consumed \in Int
      /\ records_read \in Nat /\ Consumed = BF * records_read - BF + cur
      /\ BF * records_read \in Nat
  BY PositionTypes
<1>2. Before(Target) /\ Started
  BY DEF PositionedInv, Positioned
<1>3. \A e \in Ends : e \in 1 .. Len(original)
  BY PositionTypes
(* At the start of the file Consumed is not the position of the reader.    *)
<1>4. ASSUME ReadRecord, file' = file, end' = Readable, ~ hit_eof', Ready',
             \/ cur = end /\ pc \in {"scan", "skip", "loop", "read", "long"}
                /\ pc' = (IF pc = "loop" THEN "read" ELSE pc) /\ left' = left
             \/ pc = "drop" /\ pc' = "drop" /\ end - cur <= left /\ left' = left - (end - cur)
      PROVE  Positioned'
  <2>1. Consumed' = BF * records_read
    BY <1>4, RecordOfArchive
  <2>2. records_read > 0 => end = BF
    BY <1>4, MoreToRead
  <2>3. CASE records_read > 0
    <3>1. Consumed' = Consumed + (end - cur)
      BY <1>1, <2>1, <2>2, <2>3
    <3>2. Target' = Target
      BY <1>1, <1>4, <3>1 DEF Target
    <3>. QED
      BY <1>2, <1>4, <3>2, PositionedAcross
  <2>4. CASE records_read = 0
    <3>1. pc = "scan" /\ pc' = "scan" /\ Consumed' = 0
      BY <1>1, <1>2, <1>4, <2>1, <2>4 DEF Started
    <3>2. Target' = 0
      BY <3>1 DEF Target
    <3>3. Before(Target')
      BY <1>3, <3>2 DEF Before
    <3>. QED
      BY <1>4, <3>3, PositionedAcross
  <2>. QED
    BY <1>1, <2>3, <2>4
<1>5. CASE Fetch
  <2>1. /\ cur = end /\ ReadRecord /\ end' = Readable /\ hit_eof' = (Readable = 0)
        /\ pc \in {"scan", "skip", "read", "long", "pax"} /\ UNCHANGED <<file, pc, left>>
    BY <1>5 DEF Fetch, FetchRecord, FlushArchive, copy
  <2>2. Readable > 0 /\ Readable \in 0 .. BF
    BY <2>1, RecordOfArchive
  <2>3. ~ hit_eof' /\ Ready'
    <3>1. ~ (Readable = 0)
      BY <2>2
    <3>2. ~ hit_eof'
      BY <2>1, <3>1, Zenon
    <3>3. Ready'
      BY <2>1 DEF Ready
    <3>. QED
      BY <3>2, <3>3
  <2>4. pc # "pax"
    BY DEF Accounted
  <2>. QED
    BY <1>4, <2>1, <2>3, <2>4
<1>6. CASE DropRecord
  BY <1>2, <1>4, <1>6 DEF DropRecord, FlushArchive, Ready, Started
<1>7. CASE DropRest
  <2>1. /\ UNCHANGED <<file, fpos, record, end, hit_eof, records_read>>
        /\ pc = "drop" /\ end - cur > left /\ cur' = cur + left /\ pc' = "loop"
    BY <1>7 DEF DropRest
  <2>2. Consumed' = Consumed + left
    BY <1>1, <2>1, ConsumedInRecord
  <2>3. Target' = Target
    BY <1>1, <2>1, <2>2 DEF Target
  <2>4. records_read > 0
    BY <1>1, <1>2, <2>1 DEF Started
  <2>5. cur' <= end /\ Ready'
    BY <1>1, <2>1 DEF Ready
  <2>. QED
    BY <1>2, <2>1, <2>3, <2>4, <2>5, PositionedWithin
<1>8. CASE Loop
  <2>1. pc = "loop" /\ pc' = "read" /\ UNCHANGED <<file, hit_eof, left>> /\ Ready'
    BY <1>8 DEF Loop, Ready
  <2>2. CASE cur = end
    BY <1>2, <1>4, <1>8, <2>1, <2>2 DEF Loop, FlushArchive, Started
  <2>3. CASE cur # end
    <3>1. UNCHANGED <<fpos, record, cur, end, records_read>>
      BY <1>8, <2>3 DEF Loop
    <3>2. Consumed' = Consumed
      BY <3>1 DEF Consumed
    <3>3. Target' = Target
      BY <1>1, <2>1, <3>2 DEF Target
    <3>4. records_read > 0 /\ cur' <= end
      BY <1>1, <1>2, <2>1, <3>1 DEF Started
    <3>. QED
      BY <1>2, <2>1, <3>1, <3>3, <3>4, PositionedWithin
  <2>. QED
    BY <2>2, <2>3
<1>. QED
  BY <1>5, <1>6, <1>7, <1>8

(* The next header and its extensions.                                     *)
LEMMA PositionedRead ==
  ASSUME TypedWith(Plain), Accounted, PositionedInv, WholeMembers, [Next]_vars,
         Ends # {}, ~ Writing,
         \/ ReadExtension \/ ReadExtensionData \/ ReadDeleted \/ ReadKept
         \/ ReadNonHeader \/ ReadPastEnd \/ ReadEnd
  PROVE  Positioned'
<1>1. UNCHANGED <<file, fpos, record, end, hit_eof, records_read>>
  BY DEF ReadExtension, ReadExtensionData, ReadDeleted, ReadKept, ReadNonHeader, ReadPastEnd,
         ReadEnd, Reading
<1>2. /\ cur \in Nat /\ end \in Nat /\ left \in Nat /\ Consumed \in Int /\ records_read \in Nat
  BY PositionTypes
<1>3. Before(Target) /\ Started
  BY DEF PositionedInv, Positioned
<1>4. ASSUME NEW d \in Nat, pc = "read", HasBlock, cur' = cur + 1, Ready',
             Target' = Consumed' + d, Before(Consumed + 1 + d)
      PROVE  Positioned'
  <2>1. Consumed' = Consumed + 1
    BY <1>1, <1>4, ConsumedInRecord
  <2>2. records_read > 0
    BY <1>4, NextBlockOfArchive
  <2>3. cur' <= end
    BY <1>2, <1>4 DEF HasBlock
  <2>. QED
    BY <1>1, <1>4, <2>1, <2>2, <2>3, PositionedWithin
<1>5. pc = "read" => Target = Consumed
  BY <1>2 DEF Target
<1>6. CASE ReadExtension
  <2>1. pc = "read" /\ HasBlock /\ block.kind \in {"long", "pax"} /\ cur' = cur + 1
        /\ pc' = block.kind
    BY <1>6 DEF ReadExtension
  <2>2. block.kind = "long"
    <3>1. /\ cur \in 0 .. BF /\ end \in 0 .. BF /\ BF \in Nat
          /\ record \in [Slots -> Plain]
      BY PositionTypes
    <3>2. cur \in Slots
      BY <2>1, <3>1 DEF HasBlock, Slots
    <3>3. block \in Plain
      BY <3>1, <3>2 DEF block
    <3>. QED
      BY <2>1, <3>3 DEF Plain
  <2>3. Before(Consumed + 2)
    BY <1>5, <2>1, <2>2, MemberBeforeEnd
  <2>4. Consumed' = Consumed + 1
    BY <1>1, <2>1, ConsumedInRecord
  <2>5. Target' = Consumed' + 1 /\ Ready' /\ Consumed + 1 + 1 = Consumed + 2
    BY <1>2, <2>1, <2>2, <2>4 DEF Target, Ready
  <2>. QED
    BY <1>4, <2>1, <2>3, <2>5
<1>7. CASE ReadExtensionData
  <2>1. pc = "long"
    BY <1>7 DEF ReadExtensionData, Accounted
  <2>2. HasBlock /\ cur' = cur + 1 /\ pc' = "read"
    BY <1>3, <1>7, <2>1 DEF ReadExtensionData, Started, AtEof
  <2>3. Consumed' = Consumed + 1
    BY <1>1, <2>2, ConsumedInRecord
  <2>4. Target' = Target
    BY <1>2, <2>1, <2>2, <2>3 DEF Target
  <2>5. cur' <= end /\ Ready'
    BY <1>2, <2>2 DEF HasBlock, Ready
  <2>6. records_read > 0
    BY <2>2, NextBlockOfArchive
  <2>. QED
    BY <1>1, <1>3, <2>4, <2>5, <2>6, PositionedWithin
<1>8. CASE ReadDeleted \/ ReadKept
  <2>1. pc = "read" /\ HasBlock /\ block.kind = "header" /\ cur' = cur + 1
        /\ pc' \in {"drop", "header"} /\ left' = block.size
    BY <1>8 DEF ReadDeleted, ReadKept
  <2>2. Before(Consumed + 1 + block.size) /\ block.size \in Nat
    BY <1>5, <2>1, MemberBeforeEnd, NextBlockOfArchive
  <2>3. Target' = Consumed' + block.size /\ Ready'
    BY <2>1 DEF Target, Ready
  <2>. QED
    BY <1>4, <2>1, <2>2, <2>3
<1>9. CASE ReadNonHeader
  <2>1. /\ pc = "read" /\ HasBlock /\ block.kind # "zero" /\ cur' = cur + 1
        /\ pc' = "loop"
    BY <1>9 DEF ReadNonHeader, NextBlock
  <2>2. Before(Consumed + 1)
    BY <1>5, <2>1, NextBlockOfArchive
  <2>3. Target' = Consumed' + 0 /\ Ready' /\ Consumed + 1 + 0 = Consumed + 1
    BY <1>2, <2>1 DEF Target, Ready
  <2>. QED
    BY <1>4, <2>1, <2>2, <2>3
<1>10. CASE ReadPastEnd \/ ReadEnd
  BY <1>10 DEF ReadPastEnd, ReadEnd, Positioned, Writing, Finished
<1>. QED
  BY <1>6, <1>7, <1>8, <1>9, <1>10

(* Copying a member.                                                       *)
LEMMA PositionedCopy ==
  ASSUME TypedWith(Plain), Closed(Plain), Accounted, PositionedInv, UnreadInv, [Next]_vars,
         Ends # {}, ~ Writing,
         CopyHeader \/ FetchData \/ CopyData
  PROVE  Positioned'
<1>1. /\ cur \in Nat /\ end \in Nat /\ end <= BF /\ cur <= BF /\ BF \in Nat \ {0}
      /\ left \in Nat /\ kept \in Nat
      /\ Consumed \in Int /\ Consumed = BF * records_read - BF + cur
      /\ records_read \in Nat /\ BF * records_read \in Nat /\ Len(original) \in Nat
  BY PositionTypes
<1>2. Before(Target) /\ Started /\ Ready
  BY DEF PositionedInv, Positioned
<1>3. records_read > 0
  BY <1>1, <1>2 DEF Started, CopyHeader, FetchData, CopyData, Copying
<1>4. Produced \in Nat /\ Len(pending) \in Nat
  BY Positions
<1>5. CASE CopyHeader
  <2>1. PICK r \in [Slots -> Plain] : PutBlocks(r, new_blocks + 1)
    BY <1>5, CopyHeaderPuts
  <2>2. new_blocks + 1 <= BF /\ Len(pending) > 0
    BY <1>5, CopyHeaderPuts
  <2>3. Ahead(Len(pending)) /\ pc = "header"
    BY <1>5 DEF CopyHeader, Accounted
  <2>4. Produced + 1 <= BF * records_read
    BY <1>1, <1>4, <2>2, <2>3 DEF Ahead
  <2>5. /\ UNCHANGED <<cur, left, end, records_read>>
        /\ \/ pc' = pc
           \/ kept' = Lesser(end - cur, left) /\ pc' = IF left > 0 THEN "data" ELSE "loop"
    BY <1>5, <2>1 DEF CopyHeader, PutBlocks
  <2>6. Target' = Target
    <3>1. Consumed' = Consumed
      BY <2>5 DEF Consumed
    <3>. QED
      BY <1>1, <2>3, <2>5, <3>1 DEF Target
  <2>7. cur' <= end /\ Ready'
    BY <1>2, <2>3, <2>5 DEF Started, Ready
  <2>. QED
    BY <1>2, <1>3, <2>1, <2>2, <2>4, <2>6, <2>7, PositionedPut
<1>6. CASE FetchData
  <2>1. /\ pc = "data" /\ cur = end /\ ReadRecord /\ kept' = Lesser(BF, left) /\ pc' = "copy"
        /\ end' = (IF Readable = BF THEN end ELSE Readable)
        /\ UNCHANGED <<file, hit_eof, left>>
    BY <1>6 DEF FetchData, FlushReadOnly, KeptInRecord
  <2>2. end = BF
    BY <1>3, <2>1, MoreToRead
  <2>3. /\ Readable > 0 /\ Readable \in 0 .. BF /\ Consumed' = BF * records_read /\ cur' = 0
        /\ Readable = Lesser(BF, Len(original) - BF * records_read)
    BY <2>1, RecordOfArchive
  <2>4. end' = Readable
    BY <2>1, <2>2
  <2>5. Target' = Target /\ Target = BF * records_read + left
    BY <1>1, <2>1, <2>2, <2>3 DEF Target
  <2>6. BF * records_read + left < Len(original)
    <3>1. PICK e \in Ends : TRUE
      OBVIOUS
    <3>2. e \in 1 .. Len(original)
      BY PositionTypes
    <3>3. BF * records_read + left < e
      BY <1>2, <2>5 DEF Before
    <3>. QED
      BY <1>1, <3>2, <3>3
  <2>7. Lesser(BF, left) = Lesser(Readable, left)
    <3>. DEFINE R == BF * records_read
    <3>. HIDE DEF R
    <3>1. R \in Nat /\ R + left < Len(original) /\ Readable = Lesser(BF, Len(original) - R)
      BY <1>1, <2>3, <2>6 DEF R
    <3>. QED
      BY <1>1, <3>1 DEF Lesser
  <2>8. Ready' /\ ~ hit_eof'
    <3>1. left > 0 /\ ~ hit_eof
      BY <1>2, <2>1 DEF Ready, Started
    <3>2. Readable - 0 = Readable /\ 0 < Readable
      BY <2>3
    <3>. QED
      BY <2>1, <2>3, <2>4, <2>7, <3>1, <3>2 DEF Ready
  <2>. QED
    BY <1>2, <2>1, <2>4, <2>5, <2>8, PositionedAcross
<1>7. CASE CopyData
  <2>1. PICK r \in [Slots -> Plain] : PutBlocks(r, new_blocks + CopyCount)
    BY <1>7, CopyDataPuts
  <2>2. CopyCount \in 1 .. BF - new_blocks /\ CopyCount <= kept /\ cur + kept <= BF
    BY <1>7, CopyCountRange
  <2>3. new_blocks \in Nat
    BY <1>1 DEF TypedWith, OutputTyped, Slots
  <2>4. /\ pc \in {"data", "copy"} /\ cur' = cur + CopyCount /\ left' = left - CopyCount
        /\ kept' = kept - CopyCount /\ pc' = IF left' > 0 THEN "data" ELSE "loop"
    BY <1>7 DEF CopyData, Copying
  <2>. DEFINE n == CopyCount
  <2>5. n \in Nat /\ n <= kept /\ new_blocks + n <= BF /\ cur + n <= BF
    BY <1>1, <2>2, <2>3
  <2>6. Ahead(0)
    BY <2>4, <1>7 DEF Accounted, CopyData, Copying
  <2>7. Produced + n <= BF * records_read
    BY <1>1, <1>4, <2>5, <2>6 DEF Ahead
  <2>8. UNCHANGED <<end, records_read>>
    BY <2>1 DEF PutBlocks
  <2>. HIDE DEF n
  <2>9. left > 0 /\ kept = Lesser(end - cur, left)
    BY <1>2, <2>4 DEF Ready
  <2>10. Consumed' = Consumed + n
    BY <2>4, <2>5, <2>8, ConsumedInRecord DEF n
  <2>11. n <= left /\ n <= end - cur
    BY <1>1, <2>5, <2>9 DEF Lesser
  <2>12. Target' = Target
    BY <1>1, <2>4, <2>5, <2>10, <2>11 DEF Target, n
  <2>13. kept' = Lesser(end' - cur', left')
    BY <1>1, <2>4, <2>5, <2>8, <2>9 DEF Lesser, n
  <2>14. cur' <= end /\ Ready'
    BY <1>1, <2>4, <2>5, <2>11, <2>13 DEF Ready, n
  <2>. QED
    BY <1>2, <1>3, <2>1, <2>5, <2>7, <2>12, <2>14, PositionedPut DEF n
<1>. QED
  BY <1>5, <1>6, <1>7

LEMMA PositionedNext ==
  ASSUME TypedWith(Plain), Closed(Plain), WholeMembers, Accounted, PositionedInv, UnreadInv,
         [Next]_vars
  PROVE  PositionedInv'
<1>1. original' = original /\ Ends' = Ends
  BY OriginalKept
<1>2. ASSUME Ends # {}
      PROVE  Positioned'
  <2>1. CASE Fetch \/ DropRecord \/ DropRest \/ Loop
    <3>1. ~ Writing
      BY <2>1 DEF Fetch, DropRecord, DropRest, Loop, Writing, Finished
    <3>. QED
      BY <1>2, <2>1, <3>1, PositionedDrop
  <2>2. CASE \/ ScanMember \/ SkipData \/ SkipUnexpectedEof \/ ScanNonHeader \/ ScanEnd
             \/ ScanDeleted \/ ScanExtended
    <3>1. ~ Writing
      BY <2>2 DEF ScanMember, SkipData, SkipUnexpectedEof, ScanNonHeader, ScanEnd,
                  ScanDeleted, ScanExtended, Writing, Finished
    <3>. QED
      BY <1>2, <2>2, <3>1, PositionedScan
  <2>3. CASE \/ ReadExtension \/ ReadExtensionData \/ ReadDeleted \/ ReadKept
             \/ ReadNonHeader \/ ReadPastEnd \/ ReadEnd
    <3>1. ~ Writing
      BY <2>3 DEF ReadExtension, ReadExtensionData, ReadDeleted, ReadKept, ReadNonHeader,
                  ReadPastEnd, ReadEnd, Writing, Finished
    <3>. QED
      BY <1>2, <2>3, <3>1, PositionedRead
  <2>4. CASE CopyHeader \/ FetchData \/ CopyData
    <3>1. ~ Writing
      BY <2>4 DEF CopyHeader, FetchData, CopyData, Copying, Writing, Finished
    <3>. QED
      BY <1>2, <2>4, <3>1, PositionedCopy
  <2>5. CASE CopyAborts \/ WriteEot \/ Truncate
    BY <2>5 DEF CopyAborts, WriteEot, Truncate, Positioned, Writing, Finished
  <2>6. CASE UNCHANGED vars
    <3>1. /\ UNCHANGED <<original, file, fpos, record, cur, end, hit_eof, records_read>>
          /\ UNCHANGED <<left, kept, pc>>
      BY <2>6 DEF vars, given, reader, copy
    <3>2. Positioned
      BY <1>2 DEF PositionedInv
    <3>3. Consumed' = Consumed
      BY <3>1 DEF Consumed
    <3>4. Target' = Target /\ Writing' = Writing /\ Ends' = Ends
      BY <1>1, <3>1, <3>3 DEF Target, Writing, Finished
    <3>. QED
      BY <3>1, <3>2, <3>4 DEF Positioned, Started, Loaded, AtRecord, Before, Ready
  <2>. QED
    BY <2>1, <2>2, <2>3, <2>4, <2>5, <2>6 DEF Next
<1>. QED
  BY <1>1, <1>2 DEF PositionedInv

LEMMA PositionedInit ==
  ASSUME Init
  PROVE  PositionedInv
<1>1. /\ original \in Archives /\ file = original /\ fpos = 0 /\ records_read = 0
      /\ cur = 0 /\ end = 0 /\ hit_eof = FALSE /\ pc = "scan"
  BY DEF Init, OpenForUpdate
<1>2. BF \in Nat /\ original \in Seq(Block)
  BY <1>1, ArchiveFileAssumption
<1>3. Len(original) \in Nat /\ \A e \in Ends : e \in 1 .. Len(original)
  BY <1>2, LenProperties DEF Ends
<1>4. BF * records_read = 0 /\ Consumed = 0 - BF
  BY <1>1, <1>2 DEF Consumed
<1>5. Started /\ Loaded /\ Ready
  BY <1>1 DEF Started, Loaded, Ready
<1>6. AtRecord
  BY <1>1, <1>3, <1>4 DEF AtRecord, Greater
<1>7. Before(Target)
  BY <1>1, <1>2, <1>3, <1>4 DEF Before, Target
<1>. QED
  BY <1>1, <1>5, <1>6, <1>7 DEF PositionedInv, Positioned

(* All that is known while the archive is read.                            *)
ReadInv ==
  TypedWith(Plain) /\ Accounted /\ UnreadInv /\ PositionedInv

LEMMA ReadInvInductive ==
  ASSUME Archives \subseteq Seq(Plain), WholeMembers
  PROVE  /\ Init => ReadInv
         /\ ReadInv /\ [Next]_vars => ReadInv'
<1>1. Closed(Plain)
  BY PlainClosed
<1>2. Init => ReadInv
  BY <1>1, InitTyped, AccountedInit, UnreadInit, PositionedInit DEF ReadInv
<1>3. ASSUME ReadInv, [Next]_vars
      PROVE  ReadInv'
  <2>1. TypedWith(Plain)' /\ Accounted'
    BY <1>1, <1>3, NextTyped, AccountedNext DEF ReadInv
  <2>2. UnreadInv'
    BY <1>1, <1>3, UnreadNext DEF ReadInv
  <2>3. PositionedInv'
    BY <1>1, <1>3, PositionedNext DEF ReadInv
  <2>. QED
    BY <2>1, <2>2, <2>3 DEF ReadInv
<1>. QED
  BY <1>2, <1>3

(* --delete stops nowhere but at the end.                                  *)
NoFailure == Ends # {} => pc \notin {"aborted", "undefined", "fatal"}

LEMMA NoFailureNext ==
  ASSUME ReadInv, NoFailure, [Next]_vars
  PROVE  NoFailure'
<1>1. SUFFICES ASSUME Ends # {} PROVE pc' \notin {"aborted", "undefined", "fatal"}
  BY OriginalKept DEF NoFailure
<1>2. pc \notin {"aborted", "undefined", "fatal"}
  BY <1>1 DEF NoFailure
<1>3. TypedWith(Plain) /\ Accounted
  BY DEF ReadInv
<1>4. /\ cur \in Nat /\ end \in Nat /\ left \in Nat /\ BF \in Nat
  BY <1>3, PositionTypes
<1>5. ~ Writing => ~ hit_eof /\ cur <= end /\ Ready
  BY <1>1 DEF ReadInv, PositionedInv, Positioned, Started
<1>6. ~ SkipUnexpectedEof /\ ~ ReadPastEnd
  BY <1>4, <1>5 DEF SkipUnexpectedEof, ReadPastEnd, AtEof, Writing, Finished
<1>7. ~ CopyAborts
  <2>1. SUFFICES ASSUME CopyAborts PROVE FALSE
    OBVIOUS
  <2>2. /\ pc \in {"data", "copy"} /\ (pc = "data" => cur # end)
        /\ CopyCount <= 0
    BY <2>1 DEF CopyAborts, Copying
  <2>3. left > 0 /\ kept = Lesser(end - cur, left) /\ cur < end
    BY <1>4, <1>5, <2>2 DEF Ready, Writing, Finished
  <2>4. new_blocks \in 0 .. BF - 1
    BY <1>3 DEF TypedWith, OutputTyped, Slots
  <2>. QED
    BY <1>4, <2>2, <2>3, <2>4 DEF CopyCount, Lesser
<1>8. ReadExtensionData => pc' = "read"
  BY <1>3 DEF ReadExtensionData, Accounted
<1>9. ReadExtension => pc' \in {"long", "pax"}
  BY DEF ReadExtension
<1>. QED
  BY <1>2, <1>6, <1>7, <1>8, <1>9
  DEF Next, vars, copy, Fetch, ScanMember, SkipData, ScanNonHeader, ScanEnd, ScanDeleted,
      ScanExtended, DropRecord, DropRest, Loop, ReadDeleted, ReadKept, ReadNonHeader, ReadEnd,
      CopyHeader, FetchData, CopyData, WriteEot, Truncate

(* If an archive without extended headers has an end, and no member that   *)
(* is cut off by it, then --delete always has a block to copy and room for *)
(* it ("if (! count) abort ()", delete.c:350).                             *)
THEOREM AlwaysSomethingToCopy ==
  ASSUME Archives \subseteq Seq(Plain), WholeMembers
  PROVE  Spec => []NeverAborts
<1>. DEFINE Inv == ReadInv /\ NoFailure
<1>1. Init => Inv
  BY ReadInvInductive DEF NoFailure, Init
<1>2. Inv /\ [Next]_vars => Inv'
  BY ReadInvInductive, NoFailureNext
<1>3. Inv => NeverAborts
  BY DEF NoFailure, NeverAborts
<1>. QED
  BY <1>1, <1>2, <1>3, PTL DEF Spec

(* Nor does it meet the end of the file in a member, or take what lies     *)
(* behind the end of a record for a header (skip_file, read_header).       *)
THEOREM ReachesTheEnd ==
  ASSUME Archives \subseteq Seq(Plain), WholeMembers
  PROVE  Spec => []NoFailure
<1>. DEFINE Inv == ReadInv /\ NoFailure
<1>1. Init => Inv
  BY ReadInvInductive DEF NoFailure, Init
<1>2. Inv /\ [Next]_vars => Inv'
  BY ReadInvInductive, NoFailureNext
<1>. QED
  BY <1>1, <1>2, PTL DEF Spec

------------------------------------------------------------------------------
(* The records passed over are not written to.                             *)

(* Where the descriptor is while the end of the archive is written.        *)
AtEot ==
  pc = "eot" /\ Proper /\ ~ acting_as_filter =>
    fpos = BF * (IF zeros < ZerosWanted THEN records_read
                 ELSE records_written + records_skipped)

EotInv == (~ Writing => zeros = 0) /\ AtEot

(* In place no record is a short one, so that the descriptor is right      *)
(* behind the last record that was read.                                   *)
LEMMA AtWholeRecord ==
  ASSUME TypedWith(Plain), PositionedInv, Proper, ~ acting_as_filter, ~ Writing
  PROVE  fpos = BF * records_read
<1>. DEFINE R == BF * records_read
            L == Len(original)
<1>1. /\ BF \in Nat \ {0} /\ R \in Nat /\ L \in Nat /\ cur \in Nat /\ left \in Nat
      /\ records_read \in Nat /\ Consumed = R - BF + cur /\ Consumed \in Int
  BY PositionTypes
<1>2. Ends # {} /\ L % BF = 0 /\ Before(Target) /\ AtRecord
  BY DEF Proper, PositionedInv, Positioned
<1>3. PICK e \in Ends : TRUE
  BY <1>2
<1>4. e \in 1 .. L /\ Target < e
  BY <1>2, PositionTypes DEF Before
<1>5. Target \in Int /\ Target >= Consumed
  BY <1>1 DEF Target
<1>6. R - BF < L
  BY <1>1, <1>4, <1>5
<1>7. R <= L
  <2>1. CASE records_read = 0
    BY <1>1, <2>1
  <2>2. CASE records_read > 0
    <3>1. records_read - 1 \in Nat /\ BF * (records_read - 1) = R - BF
      BY <1>1, <2>2
    <3>2. BF * (records_read - 1) < L
      BY <1>6, <3>1
    <3>3. BF * (records_read - 1) + BF <= L
      BY <1>1, <1>2, <3>1, <3>2, NextWholeRecord
    <3>. QED
      BY <1>1, <3>1, <3>3
  <2>. QED
    BY <1>1, <2>1, <2>2
<1>. QED
  BY <1>2, <1>7 DEF AtRecord

(* write_record then writes right behind what it has written.              *)
LEMMA WrittenInPlace ==
  ASSUME TypedWith(Plain), Closed(Plain), ~ acting_as_filter, fpos = BF * records_read,
         NEW r \in [Slots -> Plain], NEW m \in BOOLEAN, WriteRecord(r, m)
  PROVE  /\ fpos' = BF * (IF m THEN records_read ELSE records_written + 1 + records_skipped)
         /\ \A i \in DOMAIN file :
              i <= BF * records_skipped => i \in DOMAIN file' /\ file'[i] = file[i]
<1>. DEFINE w == BF * (records_written + records_skipped)
            R == BF * records_read
            S == BF * records_skipped
            p == Greater(0, fpos + BF * Back)
            v == RecordBlocks(r)
<1>1. /\ records_skipped \in Nat /\ records_written \in Nat /\ Zero \in Plain
  BY DEF TypedWith, OutputTyped, Closed, HasBlanks
<1>2. /\ BF \in Nat \ {0} /\ records_read \in Nat /\ R \in Nat
      /\ file \in Seq(Plain) /\ Len(file) \in Nat
  BY PositionTypes
<1>3. /\ file' = Overwritten(file, p, v)
      /\ fpos' = IF m THEN Greater(0, p + BF + BF * Forward) ELSE p + BF
  BY DEF WriteRecord
<1>4. /\ w \in Nat /\ S \in Nat /\ BF * Back = w - R /\ BF * Forward = R - w - BF /\ w >= S
      /\ BF * (records_written + 1 + records_skipped) = w + BF
  <2>1. BF * records_written \in Nat /\ S \in Nat
    BY <1>1, <1>2
  <2>2. w = BF * records_written + S
    BY <1>1, <1>2
  <2>. QED
    BY <1>1, <1>2, <2>1, <2>2 DEF Back, Forward
<1>5. v \in Seq(Plain) /\ Len(v) = BF
  BY RecordBlocksType
<1>. HIDE DEF w, R, S, v
<1>6. p = w
  BY <1>2, <1>4 DEF Greater, R
<1>7. fpos' = IF m THEN R ELSE w + BF
  BY <1>2, <1>3, <1>4, <1>6 DEF Greater
<1>. HIDE DEF p
<1>8. ASSUME NEW i \in DOMAIN file, i <= S
      PROVE  i \in DOMAIN file' /\ file'[i] = file[i]
  <2>1. i \in 1 .. Len(file) /\ i <= p /\ p \in Nat
    BY <1>2, <1>4, <1>6, <1>8, LenProperties
  <2>2. /\ i \in DOMAIN Overwritten(file, p, v)
        /\ Overwritten(file, p, v)[i] = file[i]
    BY <1>1, <1>2, <1>5, <2>1, OverwrittenElsewhere
  <2>. QED
    BY <1>3, <2>2
<1>. QED
  BY <1>4, <1>7, <1>8 DEF R, S

LEMMA EotInvNext ==
  ASSUME TypedWith(Plain), Closed(Plain), PositionedInv, EotInv, [Next]_vars
  PROVE  /\ EotInv'
         /\ Proper => \A i \in DOMAIN file :
              i <= BF * records_skipped => i \in DOMAIN file' /\ file'[i] = file[i]
<1>. DEFINE Kept == \A i \in DOMAIN file :
              i <= BF * records_skipped => i \in DOMAIN file' /\ file'[i] = file[i]
<1>0. Proper' = Proper /\ acting_as_filter' = acting_as_filter
  BY OriginalKept DEF Proper
<1>1. file' = file => Kept
  OBVIOUS
<1>2. ASSUME NEW r \in [Slots -> Plain], NEW n, PutBlocks(r, n), ~ Writing, pc' # "eot"
      PROVE  EotInv' /\ (Proper => Kept)
  <2>1. zeros' = zeros
    BY <1>2 DEF PutBlocks
  <2>2. EotInv'
    BY <1>2, <2>1 DEF EotInv, AtEot
  <2>3. file' = file \/ (~ acting_as_filter /\ WriteRecord(r, TRUE))
    BY <1>2 DEF PutBlocks, WriteRecord
  <2>4. CASE ~ acting_as_filter /\ WriteRecord(r, TRUE) /\ Proper
    <3>1. fpos = BF * records_read
      BY <1>2, <2>4, AtWholeRecord
    <3>2. Kept
      BY <2>4, <3>1, WrittenInPlace
    <3>. QED
      BY <2>2, <3>2
  <2>. QED
    BY <1>1, <2>2, <2>3, <2>4
<1>3. CASE CopyHeader
  <2>1. PICK r \in [Slots -> Plain] : PutBlocks(r, new_blocks + 1)
    BY <1>3, CopyHeaderPuts
  <2>2. ~ Writing /\ pc' # "eot"
    BY <1>3 DEF CopyHeader, Writing, Finished
  <2>. QED
    BY <1>2, <2>1, <2>2
<1>4. CASE CopyData
  <2>1. PICK r \in [Slots -> Plain] : PutBlocks(r, new_blocks + CopyCount)
    BY <1>4, CopyDataPuts
  <2>2. ~ Writing /\ pc' # "eot"
    BY <1>4 DEF CopyData, Copying, Writing, Finished
  <2>. QED
    BY <1>2, <2>1, <2>2
<1>5. CASE WriteEot
  <2>. DEFINE r == [k \in Slots |-> IF k < new_blocks THEN new_record[k] ELSE Zero]
              m == zeros' < ZerosWanted
  <2>1. /\ pc = "eot" /\ pc' = pc /\ zeros < ZerosWanted /\ UNCHANGED records_read
        /\ UNCHANGED records_skipped
    BY <1>5 DEF WriteEot, reader
  <2>2. WriteRecord(r, m)
    BY <1>5, Zenon DEF WriteEot
  <2>3. new_record \in [Slots -> Plain] /\ Zero \in Plain
    BY DEF TypedWith, OutputTyped, Closed, HasBlanks
  <2>4. r \in [Slots -> Plain]
    BY <2>3
  <2>5. m \in BOOLEAN
    OBVIOUS
  <2>. HIDE DEF r, m
  <2>6. records_written' = records_written + 1 /\ (acting_as_filter => file' = file)
    BY <2>2 DEF WriteRecord
  <2>7. CASE ~ acting_as_filter /\ Proper
    <3>1. fpos = BF * records_read
      BY <2>1, <2>7 DEF EotInv, AtEot
    <3>2. /\ fpos' = BF * (IF m THEN records_read ELSE records_written + 1 + records_skipped)
          /\ Kept
      BY <2>2, <2>4, <2>5, <2>7, <3>1, WrittenInPlace
    <3>3. EotInv'
      BY <2>1, <2>6, <3>2 DEF EotInv, AtEot, Writing, m
    <3>. QED
      BY <3>2, <3>3
  <2>8. CASE acting_as_filter \/ ~ Proper
    BY <1>0, <1>1, <2>1, <2>6, <2>8 DEF EotInv, AtEot, Writing
  <2>. QED
    BY <2>7, <2>8
<1>6. CASE Truncate
  <2>1. EotInv'
    BY <1>6 DEF Truncate, EotInv, AtEot, Writing, Finished
  <2>2. ASSUME Proper, ~ acting_as_filter PROVE Kept
    <3>. DEFINE n == Lesser(fpos, Len(file))
    <3>1. file' = SubSeq(file, 1, n) /\ fpos = BF * (records_written + records_skipped)
      <4>1. zeros \in Nat
        BY DEF TypedWith, OutputTyped
      <4>2. file' = SubSeq(file, 1, n)
        BY <1>6, <2>2, Zenon DEF Truncate
      <4>3. pc = "eot" /\ ~ (zeros < ZerosWanted)
        BY <1>6, <4>1 DEF Truncate, ZerosWanted
      <4>4. fpos = BF * (records_written + records_skipped)
        BY <2>2, <4>3, Zenon DEF EotInv, AtEot
      <4>. QED
        BY <4>2, <4>4
    <3>2. /\ records_skipped \in Nat /\ records_written \in Nat
      BY DEF TypedWith, OutputTyped
    <3>3. BF \in Nat /\ file \in Seq(Plain) /\ Len(file) \in Nat /\ fpos \in Nat
      BY PositionTypes
    <3>4. fpos >= BF * records_skipped /\ BF * records_skipped \in Nat
      <4>1. BF * (records_written + records_skipped)
              = BF * records_written + BF * records_skipped
        BY <3>2, <3>3
      <4>2. BF * records_written \in Nat /\ BF * records_skipped \in Nat
        BY <3>2, <3>3
      <4>. QED
        BY <3>1, <4>1, <4>2
    <3>5. n \in 0 .. Len(file) /\ n \in {fpos, Len(file)}
      BY <3>3 DEF Lesser
    <3>. HIDE DEF n
    <3>6. ASSUME NEW i \in DOMAIN file, i <= BF * records_skipped
          PROVE  i \in DOMAIN file' /\ file'[i] = file[i]
      <4>1. i \in 1 .. Len(file)
        BY <3>3, LenProperties
      <4>2. i \in 1 .. n
        BY <3>3, <3>4, <3>5, <3>6, <4>1
      <4>3. /\ DOMAIN SubSeq(file, 1, n) = 1 .. n
            /\ SubSeq(file, 1, n)[i] = file[i]
        BY <3>3, <3>5, <4>2
      <4>. QED
        BY <3>1, <4>2, <4>3
    <3>. QED
      BY <3>6
  <2>. QED
    BY <1>1, <1>6, <2>1, <2>2 DEF Truncate
<1>7. CASE \/ Fetch \/ ScanMember \/ SkipData \/ SkipUnexpectedEof \/ ScanNonHeader \/ ScanEnd
           \/ ScanDeleted \/ ScanExtended \/ DropRecord \/ DropRest \/ Loop
           \/ ReadExtension \/ ReadExtensionData \/ ReadDeleted \/ ReadKept
           \/ ReadNonHeader \/ ReadPastEnd \/ FetchData \/ CopyAborts
  <2>1. file' = file /\ zeros' = zeros /\ ~ Writing /\ pc' # "eot"
    BY <1>7 DEF Fetch, ScanMember, SkipData, SkipUnexpectedEof, ScanNonHeader, ScanEnd, Passed,
         ScanDeleted, ScanExtended, StartRewriting, DropRecord, DropRest, Loop,
         ReadExtension, ReadExtensionData, ReadDeleted, ReadKept, ReadNonHeader, ReadPastEnd,
         Reading, FetchData, CopyAborts, Copying, Writing, Finished, copy
  <2>2. EotInv'
    BY <2>1 DEF EotInv, AtEot
  <2>. QED
    BY <1>1, <2>1, <2>2
<1>8. CASE ReadEnd
  <2>1. /\ UNCHANGED <<file, fpos, zeros, records_read>> /\ ~ Writing /\ pc' = "eot"
    BY <1>8 DEF ReadEnd, Reading, Writing, Finished
  <2>2. zeros = 0
    BY <2>1 DEF EotInv
  <2>3. AtEot'
    <3>1. Proper /\ ~ acting_as_filter => fpos = BF * records_read
      BY <2>1, AtWholeRecord
    <3>. QED
      BY <1>0, <2>1, <2>2, <3>1 DEF AtEot, ZerosWanted
  <2>4. EotInv'
    BY <2>1, <2>3 DEF EotInv, Writing
  <2>. QED
    BY <1>1, <2>1, <2>4
<1>9. CASE UNCHANGED vars
  <2>1. UNCHANGED <<file, fpos, records_read, records_written, records_skipped, zeros, pc>>
    BY <1>9 DEF vars, given, reader, output, copy
  <2>2. EotInv'
    BY <1>0, <2>1 DEF EotInv, AtEot, Writing, Finished
  <2>. QED
    BY <1>1, <2>1, <2>2
<1>. QED
  BY <1>3, <1>4, <1>5, <1>6, <1>7, <1>8, <1>9 DEF Next

(* In an archive of whole records with an end, without extended headers    *)
(* and without a member that is cut off, no step changes a record that was *)
(* passed over before the first deletion: neither write_record, which goes *)
(* back by whole records, nor the truncation at the end.                   *)
THEOREM PassedOverIntact ==
  ASSUME Archives \subseteq Seq(Plain), WholeMembers
  PROVE  Spec => SkippedIntact
<1>. DEFINE Inv == ReadInv /\ EotInv
            Kept == Proper => \A i \in DOMAIN file :
              i <= BF * records_skipped => i \in DOMAIN file' /\ file'[i] = file[i]
<1>0. Closed(Plain)
  BY PlainClosed
<1>1. Init => Inv
  <2>1. Init => EotInv
    BY DEF Init, EotInv, AtEot
  <2>. QED
    BY <2>1, ReadInvInductive
<1>2. Inv /\ [Next]_vars => Inv' /\ Kept
  BY <1>0, ReadInvInductive, EotInvNext DEF ReadInv
<1>3. Inv /\ [Next]_vars => Inv' /\ [Kept]_vars
  BY <1>2
<1>. QED
  BY <1>1, <1>3, PTL DEF Spec, SkippedIntact

------------------------------------------------------------------------------
(* What is left out of an archive.  A recursive function is reasoned about *)
(* by its least counterexample.                                            *)

LEMMA LeastOfNat ==
  ASSUME NEW S, S \subseteq Nat, S # {}
  PROVE  \E x \in S : \A y \in S : x <= y
<1>. DEFINE R == OpToRel(<, Nat)
<1>1. IsWellFoundedOn(R, Nat)
  BY NatLessThanWellFounded
<1>2. \A x, y \in Nat : x < y => <<x, y>> \in R
  BY DEF OpToRel
<1>. HIDE DEF R
<1>3. PICK x \in S : \A y \in S : ~ (<<y, x>> \in R)
  BY <1>1, WFMin
<1>4. ASSUME NEW y \in S PROVE x <= y
  <2>1. x \in Nat /\ y \in Nat
    OBVIOUS
  <2>2. ~ (y < x)
    BY <1>2, <1>3, <2>1, Zenon
  <2>. QED
    BY <2>1, <2>2
<1>. QED
  BY <1>3, <1>4

(* s before t; \o itself is not expanded where this is enough.             *)
Cat(s, t) == s \o t

LEMMA CatFacts ==
  ASSUME NEW B
  PROVE  /\ \A s, t \in Seq(B) : Cat(s, t) \in Seq(B) /\ Len(Cat(s, t)) = Len(s) + Len(t)
         /\ \A s \in Seq(B) : Cat(s, <<>>) = s /\ Cat(<<>>, s) = s
         /\ \A s, t, u \in Seq(B) : Cat(Cat(s, t), u) = Cat(s, Cat(t, u))
<1>1. \A s, t \in Seq(B) : Cat(s, t) \in Seq(B) /\ Len(Cat(s, t)) = Len(s) + Len(t)
  BY ConcatProperties DEF Cat
<1>2. \A s \in Seq(B) : Cat(s, <<>>) = s /\ Cat(<<>>, s) = s
  BY ConcatEmptySeq DEF Cat
<1>3. \A s, t, u \in Seq(B) : Cat(Cat(s, t), u) = Cat(s, Cat(t, u))
  BY ConcatAssociative DEF Cat
<1>. QED
  BY <1>1, <1>2, <1>3

LEMMA CatElements ==
  ASSUME NEW B, NEW s \in Seq(B), NEW t \in Seq(B)
  PROVE  /\ \A i \in 1 .. Len(s) : Cat(s, t)[i] = s[i]
         /\ \A i \in 1 .. Len(t) : Cat(s, t)[Len(s) + i] = t[i]
BY ConcatProperties DEF Cat

(* What Chosen takes of the n-th block of s.                               *)
Pick(s, K, n) == IF n \in K THEN <<s[n]>> ELSE <<>>

Chooses(f, s, K, m) ==
  /\ f[0] = <<>>
  /\ \A n \in 1 .. m : f[n] = Cat(f[n - 1], Pick(s, K, n))

LEMMA ChoosesExists ==
  ASSUME NEW s, NEW K, NEW m \in Nat
  PROVE  \E f : f = [n \in 0 .. m |-> f[n]] /\ Chooses(f, s, K, m)
<1>. DEFINE P(n) == \E f : f = [k \in 0 .. n |-> f[k]] /\ Chooses(f, s, K, n)
            Bad == {n \in 0 .. m : ~ P(n)}
<1>1. ASSUME Bad # {} PROVE FALSE
  <2>1. Bad \subseteq Nat
    OBVIOUS
  <2>2. PICK n \in Bad : \A x \in Bad : n <= x
    <3>. HIDE DEF Bad
    <3>. QED
      BY <1>1, <2>1, LeastOfNat
  <2>3. n # 0
    <3>. DEFINE g == [k \in 0 .. 0 |-> <<>>]
    <3>1. g = [k \in 0 .. 0 |-> g[k]] /\ Chooses(g, s, K, 0)
      BY DEF Chooses
    <3>. QED
      BY <2>2, <3>1
  <2>4. n \in 1 .. m /\ n - 1 \in 0 .. m /\ n - 1 \notin Bad
    <3>1. n \in 1 .. m
      BY <2>2, <2>3
    <3>. HIDE DEF Bad
    <3>. QED
      BY <2>2, <3>1
  <2>5. PICK f : f = [k \in 0 .. n - 1 |-> f[k]] /\ Chooses(f, s, K, n - 1)
    BY <2>4
  <2>. DEFINE g == [k \in 0 .. n |-> IF k = n THEN Cat(f[n - 1], Pick(s, K, n)) ELSE f[k]]
  <2>6. /\ g = [k \in 0 .. n |-> g[k]]
        /\ \A k \in 0 .. n - 1 : g[k] = f[k]
        /\ g[n] = Cat(f[n - 1], Pick(s, K, n))
    BY <2>4
  <2>. HIDE DEF g
  <2>7. g[0] = <<>>
    <3>1. 0 \in 0 .. n - 1 /\ f[0] = <<>>
      BY <2>4, <2>5 DEF Chooses
    <3>. QED
      BY <2>6, <3>1
  <2>8. ASSUME NEW k \in 1 .. n PROVE g[k] = Cat(g[k - 1], Pick(s, K, k))
    <3>0. k - 1 \in 0 .. n - 1
      BY <2>4
    <3>1. k - 1 \in 0 .. n - 1 /\ g[k - 1] = f[k - 1]
      BY <2>6, <3>0
    <3>2. CASE k = n
      BY <2>6, <3>1, <3>2
    <3>3. CASE k # n
      <4>1. k \in 1 .. n - 1 /\ k \in 0 .. n - 1
        BY <2>4, <3>3
      <4>2. f[k] = Cat(f[k - 1], Pick(s, K, k))
        BY <2>5, <4>1 DEF Chooses
      <4>. QED
        BY <2>6, <3>1, <4>1, <4>2
    <3>. QED
      BY <3>2, <3>3
  <2>. QED
    BY <2>2, <2>6, <2>7, <2>8 DEF Chooses
<1>2. m \in 0 .. m
  OBVIOUS
<1>. QED
  BY <1>1, <1>2

(* What was chosen of the first n blocks, one more block at a time.        *)
LEMMA ChosenStep ==
  ASSUME NEW B, NEW s \in Seq(B), NEW K
  PROVE  /\ Chosen(s, K)[0] = <<>>
         /\ \A n \in 0 .. Len(s) : Chosen(s, K)[n] \in Seq(B)
         /\ \A n \in 1 .. Len(s) :
              /\ Pick(s, K, n) \in Seq(B)
              /\ Chosen(s, K)[n] = Cat(Chosen(s, K)[n - 1], Pick(s, K, n))
<1>. DEFINE m == Len(s)
            D(f) == f = [n \in 0 .. m |->
                          IF n = 0 THEN <<>>
                          ELSE f[n - 1] \o (IF n \in K THEN <<s[n]>> ELSE <<>>)]
            c == CHOOSE f : D(f)
<1>1. m \in Nat
  OBVIOUS
<1>2. Chosen(s, K) = c
  BY DEF Chosen
<1>3. \E f : D(f)
  <2>1. PICK f : f = [n \in 0 .. m |-> f[n]] /\ Chooses(f, s, K, m)
    BY <1>1, ChoosesExists
  <2>2. ASSUME NEW n \in 0 .. m
        PROVE  f[n] = IF n = 0 THEN <<>>
                      ELSE f[n - 1] \o (IF n \in K THEN <<s[n]>> ELSE <<>>)
    <3>1. n # 0 => n \in 1 .. m
      BY <1>1
    <3>2. n # 0 => f[n] = Cat(f[n - 1], Pick(s, K, n))
      BY <2>1, <3>1 DEF Chooses
    <3>3. f[0] = <<>>
      BY <2>1 DEF Chooses
    <3>. QED
      BY <3>2, <3>3, Zenon DEF Cat, Pick
  <2>3. D(f)
    BY <2>1, <2>2
  <2>. QED
    BY <2>3
<1>4. D(c)
  <2>. HIDE DEF D
  <2>. QED
    BY <1>3
<1>. HIDE DEF c
<1>5. \A n \in 0 .. m : c[n] = IF n = 0 THEN <<>> ELSE Cat(c[n - 1], Pick(s, K, n))
  BY <1>4 DEF Cat, Pick
<1>6. c[0] = <<>>
  <2>1. 0 \in 0 .. m
    BY <1>1
  <2>. QED
    BY <1>5, <2>1, Zenon
<1>7. \A n \in 1 .. m : c[n] = Cat(c[n - 1], Pick(s, K, n))
  <2>1. \A n \in 1 .. m : n \in 0 .. m /\ n # 0
    BY <1>1
  <2>. QED
    BY <1>5, <2>1
<1>8. \A n \in 1 .. m : Pick(s, K, n) \in Seq(B)
  BY DEF Pick
<1>. DEFINE Bad == {n \in 0 .. m : c[n] \notin Seq(B)}
<1>9. ASSUME Bad # {} PROVE FALSE
  <2>1. Bad \subseteq Nat
    OBVIOUS
  <2>2. PICK n \in Bad : \A x \in Bad : n <= x
    <3>. HIDE DEF Bad
    <3>. QED
      BY <1>9, <2>1, LeastOfNat
  <2>3. n # 0
    <3>1. c[n] \notin Seq(B) /\ <<>> \in Seq(B)
      BY <2>2
    <3>. QED
      BY <1>6, <3>1, Zenon
  <2>4. n \in 1 .. m /\ n - 1 \in 0 .. m /\ n - 1 \notin Bad
    <3>1. n \in 1 .. m
      BY <2>2, <2>3
    <3>. HIDE DEF Bad
    <3>. QED
      BY <2>2, <3>1
  <2>5. c[n - 1] \in Seq(B) /\ Pick(s, K, n) \in Seq(B)
    <3>1. c[n - 1] \in Seq(B)
      BY <2>4
    <3>2. n \in 1 .. m
      BY <2>4
    <3>. HIDE DEF Bad, m
    <3>. QED
      BY <1>8, <3>1, <3>2
  <2>6. c[n] \in Seq(B)
    <3>. DEFINE a == c[n - 1]
                b == Pick(s, K, n)
    <3>1. c[n] = Cat(a, b) /\ a \in Seq(B) /\ b \in Seq(B)
      BY <1>7, <2>4, <2>5
    <3>. HIDE DEF a, b
    <3>. QED
      BY <3>1, CatFacts
  <2>. QED
    BY <2>2, <2>6
<1>. QED
  BY <1>2, <1>6, <1>7, <1>8, <1>9

(* Two sequences of which the same is chosen, one from the m-th block on.  *)
SameChoice(s, K, m, t, L, n) ==
  \A j \in 1 .. n : Pick(s, K, m + j) = Pick(t, L, j)

LEMMA ChosenRun ==
  ASSUME NEW B, NEW s \in Seq(B), NEW K, NEW t \in Seq(B), NEW L,
         NEW m \in Nat, NEW n \in Nat, m + n <= Len(s), n <= Len(t),
         SameChoice(s, K, m, t, L, n)
  PROVE  Chosen(s, K)[m + n] = Cat(Chosen(s, K)[m], Chosen(t, L)[n])
<1>. DEFINE f == Chosen(s, K)
            g == Chosen(t, L)
            Bad == {k \in 0 .. n : f[m + k] # Cat(f[m], g[k])}
<1>1. /\ g[0] = <<>>
      /\ \A k \in 0 .. Len(s) : f[k] \in Seq(B)
      /\ \A k \in 0 .. Len(t) : g[k] \in Seq(B)
      /\ \A k \in 1 .. Len(s) : f[k] = Cat(f[k - 1], Pick(s, K, k))
      /\ \A k \in 1 .. Len(t) : Pick(t, L, k) \in Seq(B) /\ g[k] = Cat(g[k - 1], Pick(t, L, k))
  BY ChosenStep
<1>2. Len(s) \in Nat /\ Len(t) \in Nat
  OBVIOUS
<1>. HIDE DEF f, g
<1>3. f[m] \in Seq(B)
  <2>1. m \in 0 .. Len(s)
    BY <1>2
  <2>. QED
    BY <1>1, <2>1
<1>4. ASSUME NEW k \in 1 .. n, f[m + (k - 1)] = Cat(f[m], g[k - 1])
      PROVE  f[m + k] = Cat(f[m], g[k])
  <2>1. /\ m + k \in 1 .. Len(s) /\ k \in 1 .. Len(t) /\ k - 1 \in 0 .. Len(t)
        /\ (m + k) - 1 = m + (k - 1)
    BY <1>2
  <2>2. f[m + k] = Cat(f[m + (k - 1)], Pick(s, K, m + k))
    BY <1>1, <2>1
  <2>3. Pick(s, K, m + k) = Pick(t, L, k)
    BY DEF SameChoice
  <2>4. g[k] = Cat(g[k - 1], Pick(t, L, k)) /\ g[k - 1] \in Seq(B) /\ Pick(t, L, k) \in Seq(B)
    BY <1>1, <2>1
  <2>5. Cat(Cat(f[m], g[k - 1]), Pick(t, L, k)) = Cat(f[m], Cat(g[k - 1], Pick(t, L, k)))
    <3>. DEFINE a == f[m]
                b == g[k - 1]
                c == Pick(t, L, k)
    <3>1. a \in Seq(B) /\ b \in Seq(B) /\ c \in Seq(B)
      BY <1>3, <2>4
    <3>. HIDE DEF a, b, c
    <3>2. Cat(Cat(a, b), c) = Cat(a, Cat(b, c))
      BY <3>1, CatFacts
    <3>. QED
      BY <3>2 DEF a, b, c
  <2>. QED
    BY <1>4, <2>2, <2>3, <2>4, <2>5
<1>5. ASSUME Bad # {} PROVE FALSE
  <2>1. Bad \subseteq Nat
    OBVIOUS
  <2>2. PICK k \in Bad : \A x \in Bad : k <= x
    <3>. HIDE DEF Bad
    <3>. QED
      BY <1>5, <2>1, LeastOfNat
  <2>3. k # 0
    <3>1. k = 0 => f[m + k] = f[m] /\ g[k] = <<>>
      BY <1>1
    <3>2. Cat(f[m], <<>>) = f[m]
      BY <1>3, CatFacts
    <3>. QED
      BY <2>2, <3>1, <3>2
  <2>4. k \in 1 .. n /\ k - 1 \in 0 .. n /\ k - 1 \notin Bad
    <3>1. k \in 1 .. n
      BY <2>2, <2>3
    <3>. HIDE DEF Bad
    <3>. QED
      BY <2>2, <3>1
  <2>5. f[m + (k - 1)] = Cat(f[m], g[k - 1])
    BY <2>4
  <2>. QED
    BY <1>4, <2>2, <2>4, <2>5
<1>6. n \in 0 .. n
  OBVIOUS
<1>7. f[m + n] = Cat(f[m], g[n])
  BY <1>5, <1>6
<1>. QED
  BY <1>7 DEF f, g

(* Everything, or nothing, may be chosen.                                  *)
LEMMA ChosenAll ==
  ASSUME NEW B, NEW s \in Seq(B), NEW K, DOMAIN s \subseteq K
  PROVE  Chosen(s, K)[Len(s)] = s
<1>. DEFINE f == Chosen(s, K)
            Bad == {k \in 0 .. Len(s) : f[k] # SubSeq(s, 1, k)}
<1>1. /\ f[0] = <<>>
      /\ \A k \in 1 .. Len(s) : f[k] = Cat(f[k - 1], Pick(s, K, k))
  BY ChosenStep
<1>2. Len(s) \in Nat /\ \A k \in 1 .. Len(s) : k \in K
  OBVIOUS
<1>. HIDE DEF f
<1>3. ASSUME NEW k \in 1 .. Len(s), f[k - 1] = SubSeq(s, 1, k - 1)
      PROVE  f[k] = SubSeq(s, 1, k)
  <2>1. f[k] = Cat(f[k - 1], <<s[k]>>)
    BY <1>1, <1>2 DEF Pick
  <2>2. SubSeq(s, 1, k) = SubSeq(s, 1, k - 1) \o <<s[k]>>
    <3>1. 1 \in 1 .. Len(s) /\ k \in 1 .. Len(s)
      BY <1>2
    <3>. QED
      BY <3>1, SubSeqRecursiveSecond
  <2>. QED
    BY <1>3, <2>1, <2>2 DEF Cat
<1>4. SubSeq(s, 1, 0) = <<>> /\ SubSeq(s, 1, Len(s)) = s
  BY SubSeqEmpty, SubSeqFull
<1>5. ASSUME Bad # {} PROVE FALSE
  <2>1. Bad \subseteq Nat
    OBVIOUS
  <2>2. PICK k \in Bad : \A x \in Bad : k <= x
    <3>. HIDE DEF Bad
    <3>. QED
      BY <1>5, <2>1, LeastOfNat
  <2>3. k # 0
    BY <1>1, <1>4, <2>2
  <2>4. k \in 1 .. Len(s) /\ k - 1 \in 0 .. Len(s) /\ k - 1 \notin Bad
    <3>1. k \in 1 .. Len(s)
      BY <2>2, <2>3
    <3>. HIDE DEF Bad
    <3>. QED
      BY <2>2, <3>1
  <2>5. f[k - 1] = SubSeq(s, 1, k - 1)
    BY <2>4
  <2>. QED
    BY <1>3, <2>2, <2>4, <2>5
<1>6. Len(s) \in 0 .. Len(s)
  BY <1>2
<1>7. f[Len(s)] = SubSeq(s, 1, Len(s))
  BY <1>5, <1>6
<1>. QED
  BY <1>4, <1>7 DEF f

LEMMA ChosenNone ==
  ASSUME NEW B, NEW s \in Seq(B), NEW K, NEW m \in 0 .. Len(s), NEW n \in Nat,
         m + n <= Len(s), \A j \in 1 .. n : m + j \notin K
  PROVE  Chosen(s, K)[m + n] = Chosen(s, K)[m]
<1>. DEFINE f == Chosen(s, K)
            Bad == {k \in 0 .. n : f[m + k] # f[m]}
<1>1. /\ \A k \in 0 .. Len(s) : f[k] \in Seq(B)
      /\ \A k \in 1 .. Len(s) : f[k] = Cat(f[k - 1], Pick(s, K, k))
  BY ChosenStep
<1>2. Len(s) \in Nat /\ m \in Nat
  OBVIOUS
<1>. HIDE DEF f
<1>3. ASSUME NEW k \in 1 .. n PROVE f[m + k] = f[m + (k - 1)]
  <2>1. m + k \in 1 .. Len(s) /\ m + (k - 1) \in 0 .. Len(s) /\ (m + k) - 1 = m + (k - 1)
    BY <1>2
  <2>2. Pick(s, K, m + k) = <<>>
    BY DEF Pick
  <2>3. f[m + k] = Cat(f[m + (k - 1)], <<>>) /\ f[m + (k - 1)] \in Seq(B)
    BY <1>1, <2>1, <2>2
  <2>. QED
    BY <2>3, CatFacts
<1>5. ASSUME Bad # {} PROVE FALSE
  <2>1. Bad \subseteq Nat
    OBVIOUS
  <2>2. PICK k \in Bad : \A x \in Bad : k <= x
    <3>. HIDE DEF Bad
    <3>. QED
      BY <1>5, <2>1, LeastOfNat
  <2>3. k # 0
    BY <1>2, <2>2
  <2>4. k \in 1 .. n /\ k - 1 \in 0 .. n /\ k - 1 \notin Bad
    <3>1. k \in 1 .. n
      BY <2>2, <2>3
    <3>. HIDE DEF Bad
    <3>. QED
      BY <2>2, <3>1
  <2>5. f[m + (k - 1)] = f[m]
    BY <2>4
  <2>. QED
    BY <1>3, <2>2, <2>4, <2>5
<1>6. n \in 0 .. n
  OBVIOUS
<1>. QED
  BY <1>5, <1>6 DEF f

NotJunk(s) == {i \in DOMAIN s : s[i].kind # "junk"}

LEMMA NonJunkFacts ==
  ASSUME NEW B, NEW s \in Seq(B)
  PROVE  /\ NonJunk(s) \in Seq(B)
         /\ (\A i \in 1 .. Len(s) : s[i].kind # "junk") => NonJunk(s) = s
<1>1. NonJunk(s) = Chosen(s, NotJunk(s))[Len(s)] /\ Len(s) \in 0 .. Len(s)
  BY DEF NonJunk, NotJunk
<1>2. Chosen(s, NotJunk(s))[Len(s)] \in Seq(B)
  BY <1>1, ChosenStep
<1>3. ASSUME \A i \in 1 .. Len(s) : s[i].kind # "junk" PROVE NonJunk(s) = s
  <2>1. DOMAIN s \subseteq NotJunk(s)
    BY <1>3 DEF NotJunk
  <2>. QED
    BY <1>1, <2>1, ChosenAll
<1>. QED
  BY <1>1, <1>2, <1>3

LEMMA NonJunkCat ==
  ASSUME NEW B, NEW s \in Seq(B), NEW t \in Seq(B)
  PROVE  NonJunk(Cat(s, t)) = Cat(NonJunk(s), NonJunk(t))
<1>. DEFINE u == Cat(s, t)
            m == Len(s)
            n == Len(t)
            U == NotJunk(u)
            S == NotJunk(s)
            T == NotJunk(t)
<1>1. u \in Seq(B) /\ Len(u) = m + n /\ m \in Nat /\ n \in Nat
  <2>1. u \in Seq(B) /\ Len(u) = m + n
    BY CatFacts, Zenon
  <2>. QED
    BY <2>1
<1>2. (\A i \in 1 .. m : u[i] = s[i]) /\ (\A i \in 1 .. n : u[m + i] = t[i])
  BY CatElements
<1>. HIDE DEF u
<1>3. SameChoice(u, U, 0, s, S, m)
  <2>1. ASSUME NEW j \in 1 .. m PROVE Pick(u, U, 0 + j) = Pick(s, S, j)
    <3>1. 0 + j = j /\ j \in DOMAIN u /\ j \in DOMAIN s /\ u[j] = s[j]
      BY <1>1, <1>2
    <3>2. j \in U <=> j \in S
      BY <3>1 DEF NotJunk
    <3>. QED
      BY <3>1, <3>2 DEF Pick
  <2>. QED
    BY <2>1 DEF SameChoice
<1>4. SameChoice(u, U, m, t, T, n)
  <2>1. ASSUME NEW j \in 1 .. n PROVE Pick(u, U, m + j) = Pick(t, T, j)
    <3>1. m + j \in DOMAIN u /\ j \in DOMAIN t /\ u[m + j] = t[j]
      BY <1>1, <1>2
    <3>2. m + j \in U <=> j \in T
      BY <3>1 DEF NotJunk
    <3>. QED
      BY <3>1, <3>2 DEF Pick
  <2>. QED
    BY <2>1 DEF SameChoice
<1>5. /\ NonJunk(u) = Chosen(u, U)[m + n] /\ NonJunk(s) = Chosen(s, S)[m]
      /\ NonJunk(t) = Chosen(t, T)[n]
  BY <1>1 DEF NonJunk, NotJunk
<1>. HIDE DEF U, S, T, m, n
<1>6. Chosen(u, U)[m + n] = Cat(Chosen(u, U)[m], Chosen(t, T)[n])
  <2>1. m + n <= Len(u) /\ n <= Len(t)
    BY <1>1 DEF n
  <2>. QED
    BY <1>1, <1>4, <2>1, ChosenRun
<1>7. Chosen(u, U)[0 + m] = Cat(Chosen(u, U)[0], Chosen(s, S)[m])
  <2>1. 0 + m <= Len(u) /\ m <= Len(s) /\ 0 \in Nat
    BY <1>1 DEF m
  <2>. QED
    BY <1>1, <1>3, <2>1, ChosenRun
<1>8. Chosen(u, U)[m] = NonJunk(s)
  <2>1. 0 + m = m /\ Chosen(u, U)[0] = <<>> /\ NonJunk(s) \in Seq(B)
    BY <1>1, ChosenStep, NonJunkFacts
  <2>. QED
    BY <1>5, <1>7, <2>1, CatFacts
<1>9. NonJunk(u) = Cat(NonJunk(s), NonJunk(t))
  BY <1>5, <1>6, <1>8
<1>. QED
  BY <1>9 DEF u

------------------------------------------------------------------------------
(* The archive, its members and their blocks.                              *)

(* Members are in order: a header is followed by its data, and data follow *)
(* a header; a long name takes two blocks and a header follows it.         *)
InOrder(a) ==
  \A e \in DOMAIN a : a[e].kind = "zero" =>
    \A i \in 1 .. e - 1 : (\A k \in 1 .. i : a[k].kind # "zero") =>
      /\ a[i].kind = "header" =>
           \A k \in 1 .. a[i].size : i + k \in DOMAIN a /\ a[i + k].kind = "data"
      /\ a[i].kind = "data" =>
           \E h \in 1 .. i - 1 : a[h].kind = "header" /\ i <= h + a[h].size
      /\ a[i].kind = "long" =>
           i + 2 \in DOMAIN a /\ a[i + 1] = ExtData(a[i].name) /\ a[i + 2].kind = "header"
      /\ a[i].kind = "extdata" => i > 1 /\ a[i - 1].kind = "long"

MembersInOrder == \A a \in Archives : InOrder(a)

(* What is known of the archive all the time.                              *)
Archive == original \in Seq(Plain) /\ Ends # {} /\ InOrder(original)

LEMMA MinOfEnds ==
  ASSUME Archive
  PROVE  /\ BodyLength \in Nat /\ BodyLength + 1 \in Ends
         /\ \A e \in Ends : e \in Nat /\ BodyLength < e
<1>1. Len(original) \in Nat /\ DOMAIN original = 1 .. Len(original)
  BY LenProperties DEF Archive
<1>2. Ends \subseteq Nat /\ \A e \in Ends : e >= 1
  BY <1>1 DEF Ends
<1>3. PICK least \in Ends : \A e \in Ends : least <= e
  BY <1>2, LeastOfNat DEF Archive
<1>4. Min(Ends) \in Ends /\ \A e \in Ends : Min(Ends) <= e
  <2>1. \E x \in Ends : \A y \in Ends : x <= y
    BY <1>3
  <2>. QED
    BY <2>1 DEF Min
<1>5. BodyLength = Min(Ends) - 1
  BY DEF BodyLength, Archive
<1>. DEFINE m == Min(Ends)
<1>6. m \in Nat /\ m >= 1 /\ m \in Ends /\ \A e \in Ends : e \in Nat /\ m <= e
  BY <1>2, <1>4
<1>. HIDE DEF m
<1>7. BodyLength = m - 1
  BY <1>5 DEF m
<1>. QED
  BY <1>6, <1>7

LEMMA BodyFacts ==
  ASSUME Archive
  PROVE  /\ BodyLength \in Nat /\ Len(original) \in Nat /\ BodyLength < Len(original)
         /\ DOMAIN original = 1 .. Len(original)
         /\ original[BodyLength + 1].kind = "zero"
         /\ \A i \in 1 .. BodyLength : i \in DOMAIN original /\ original[i].kind # "zero"
         /\ \A n \in Int : Before(n) <=> n <= BodyLength
<1>1. Len(original) \in Nat /\ DOMAIN original = 1 .. Len(original)
  BY LenProperties DEF Archive
<1>2. /\ BodyLength \in Nat /\ BodyLength + 1 \in Ends
      /\ \A e \in Ends : e \in Nat /\ BodyLength < e
  BY MinOfEnds
<1>3. BodyLength + 1 \in DOMAIN original /\ original[BodyLength + 1].kind = "zero"
  BY <1>2 DEF Ends
<1>4. ASSUME NEW i \in 1 .. BodyLength
      PROVE  i \in DOMAIN original /\ original[i].kind # "zero"
  <2>1. i \in DOMAIN original
    BY <1>1, <1>2, <1>3
  <2>2. i \notin Ends
    BY <1>2
  <2>. QED
    BY <2>1, <2>2 DEF Ends
<1>5. ASSUME NEW n \in Int PROVE Before(n) <=> n <= BodyLength
  <2>1. ASSUME Before(n) PROVE n <= BodyLength
    <3>1. n < BodyLength + 1
      BY <1>2, <2>1 DEF Before
    <3>. QED
      BY <1>2, <3>1
  <2>2. ASSUME n <= BodyLength PROVE Before(n)
    BY <1>2, <2>2 DEF Before
  <2>. QED
    BY <2>1, <2>2
<1>. QED
  BY <1>1, <1>2, <1>3, <1>4, <1>5

(* InOrder, for a block before the end.                                    *)
LEMMA OrderOfBlocks ==
  ASSUME Archive, NEW i \in 1 .. BodyLength
  PROVE  /\ original[i] \in Plain /\ original[i].size \in Nat
         /\ original[i].kind = "header" =>
              /\ i + original[i].size <= BodyLength
              /\ \A k \in 1 .. original[i].size : original[i + k].kind = "data"
         /\ original[i].kind = "data" =>
              \E h \in 1 .. i - 1 : original[h].kind = "header" /\ i <= h + original[h].size
         /\ original[i].kind = "long" =>
              /\ i + 2 <= BodyLength
              /\ original[i + 1] = ExtData(original[i].name) /\ original[i + 2].kind = "header"
         /\ original[i].kind = "extdata" => i > 1 /\ original[i - 1].kind = "long"
<1>. DEFINE L == BodyLength
<1>1. /\ L \in Nat /\ L + 1 \in Ends /\ DOMAIN original = 1 .. Len(original)
      /\ Len(original) \in Nat /\ L < Len(original) /\ original[L + 1].kind = "zero"
  BY MinOfEnds, BodyFacts
<1>2. \A k \in 1 .. L : k \in DOMAIN original /\ original[k].kind # "zero"
  BY BodyFacts
<1>. HIDE DEF L
<1>3. original[i] \in Plain /\ original[i].size \in Nat
  <2>1. original[i] \in Plain
    BY <1>1, <1>2, ElementOfSeq DEF Archive, L
  <2>. QED
    BY <2>1 DEF Plain, Block
<1>4. /\ original[i].kind = "header" =>
           \A k \in 1 .. original[i].size :
             i + k \in DOMAIN original /\ original[i + k].kind = "data"
      /\ original[i].kind = "data" =>
           \E h \in 1 .. i - 1 : original[h].kind = "header" /\ i <= h + original[h].size
      /\ original[i].kind = "long" =>
           /\ i + 2 \in DOMAIN original
           /\ original[i + 1] = ExtData(original[i].name) /\ original[i + 2].kind = "header"
      /\ original[i].kind = "extdata" => i > 1 /\ original[i - 1].kind = "long"
  <2>1. L + 1 \in DOMAIN original /\ original[L + 1].kind = "zero"
    BY <1>1
  <2>2. i \in 1 .. (L + 1) - 1 /\ \A k \in 1 .. i : original[k].kind # "zero"
    BY <1>1, <1>2 DEF L
  <2>3. InOrder(original)
    BY DEF Archive
  <2>. QED
    BY <2>1, <2>2, <2>3 DEF InOrder
<1>5. ASSUME original[i].kind = "header" PROVE i + original[i].size <= L
  <2>1. SUFFICES ASSUME i + original[i].size > L PROVE FALSE
    BY <1>1, <1>3
  <2>2. L + 1 - i \in 1 .. original[i].size /\ i + (L + 1 - i) = L + 1
    BY <1>1, <1>3, <2>1 DEF L
  <2>3. original[L + 1].kind = "data"
    BY <1>4, <1>5, <2>2
  <2>. QED
    BY <1>1, <2>3
<1>6. ASSUME original[i].kind = "long" PROVE i + 2 <= L
  <2>1. original[i + 1].kind = "extdata" /\ original[i + 2].kind = "header"
    BY <1>4, <1>6 DEF ExtData
  <2>2. i + 1 # L + 1 /\ i + 2 # L + 1
    BY <1>1, <2>1
  <2>. QED
    BY <1>1, <2>2 DEF L
<1>. QED
  BY <1>3, <1>4, <1>5, <1>6 DEF L

(* A member: the long name before its header, the header and its data.     *)
LEMMA OwnHeaderFacts ==
  ASSUME Archive, NEW h \in 1 .. BodyLength, IsHeader(h)
  PROVE  /\ OwnHeader(h) = h
         /\ \A i \in h + 1 .. h + original[h].size : OwnHeader(i) = h
         /\ h > 2 /\ original[h - 2].kind = "long" =>
              OwnHeader(h - 2) = h /\ OwnHeader(h - 1) = h
<1>1. /\ original[h].size \in Nat /\ h + original[h].size <= BodyLength
      /\ \A k \in 1 .. original[h].size : original[h + k].kind = "data"
  BY OrderOfBlocks DEF IsHeader
<1>2. BodyLength \in Nat
  BY BodyFacts
<1>3. ASSUME NEW i \in h .. h + original[h].size PROVE OwnHeader(i) = h
  <2>. DEFINE S == {g \in 1 .. i : IsHeader(g)}
  <2>1. \A g \in h + 1 .. i : ~ IsHeader(g)
    <3>1. ASSUME NEW g \in h + 1 .. i PROVE ~ IsHeader(g)
      <4>1. g - h \in 1 .. original[h].size /\ h + (g - h) = g
        BY <1>1
      <4>2. original[g].kind = "data"
        BY <1>1, <4>1
      <4>. QED
        BY <4>2 DEF IsHeader
    <3>. QED
      BY <3>1
  <2>2. h \in S /\ \A g \in S : g \in Nat /\ h >= g
    <3>1. h \in 1 .. i
      OBVIOUS
    <3>2. ASSUME NEW g \in S PROVE g \in Nat /\ h >= g
      <4>1. g \in 1 .. i /\ g \notin h + 1 .. i
        BY <2>1
      <4>. QED
        BY <4>1
    <3>. QED
      BY <3>1, <3>2
  <2>. HIDE DEF S
  <2>3. Max(S) = h
    <3>1. \E x \in S : \A y \in S : x >= y
      BY <2>2
    <3>2. Max(S) \in S /\ \A y \in S : Max(S) >= y
      BY <3>1 DEF Max
    <3>. QED
      BY <2>2, <3>2
  <2>4. original[i].kind \in {"header", "data"}
    <3>1. i = h \/ i \in h + 1 .. h + original[h].size
      BY <1>1
    <3>2. CASE i = h
      BY <3>2 DEF IsHeader
    <3>3. CASE i \in h + 1 .. h + original[h].size
      <4>1. i - h \in 1 .. original[h].size /\ h + (i - h) = i
        BY <1>1, <3>3
      <4>. QED
        BY <1>1, <4>1
    <3>. QED
      BY <3>1, <3>2, <3>3
  <2>. QED
    BY <2>3, <2>4 DEF OwnHeader, S
<1>4. ASSUME h > 2, original[h - 2].kind = "long"
      PROVE  OwnHeader(h - 2) = h /\ OwnHeader(h - 1) = h
  <2>0. h - 2 \in 1 .. BodyLength /\ (h - 2) + 1 = h - 1
    BY <1>2, <1>4
  <2>1. original[h - 1] = ExtData(original[h - 2].name)
    BY <1>4, <2>0, OrderOfBlocks
  <2>2. original[h - 1].kind = "extdata"
    BY <2>1 DEF ExtData
  <2>3. ASSUME NEW i \in {h - 2, h - 1} PROVE OwnHeader(i) = h
    <3>. DEFINE S == {g \in i .. BodyLength : IsHeader(g)}
    <3>1. h \in S /\ \A g \in S : g \in Nat /\ h <= g
      <4>1. h \in i .. BodyLength
        BY <1>2, <1>4
      <4>2. ASSUME NEW g \in S PROVE g \in Nat /\ h <= g
        <5>1. g \in i .. BodyLength /\ g # h - 2 /\ g # h - 1
          BY <1>4, <2>2 DEF IsHeader
        <5>. QED
          BY <1>2, <1>4, <5>1
      <4>. QED
        BY <4>1, <4>2
    <3>. HIDE DEF S
    <3>2. Min(S) = h
      <4>1. \E x \in S : \A y \in S : x <= y
        BY <3>1
      <4>2. Min(S) \in S /\ \A y \in S : Min(S) <= y
        BY <4>1 DEF Min
      <4>3. Min(S) \in Nat /\ h <= Min(S) /\ Min(S) <= h /\ h \in Nat
        BY <3>1, <4>2
      <4>. QED
        BY <4>3
    <3>3. original[i].kind \in {"long", "extdata"}
      BY <1>4, <2>2
    <3>. QED
      BY <3>2, <3>3 DEF OwnHeader, S
  <2>. QED
    BY <2>3
<1>5. h \in h .. h + original[h].size
  BY <1>1
<1>. QED
  BY <1>3, <1>4, <1>5

LEMMA StayingMember ==
  ASSUME Archive, NEW h \in 1 .. BodyLength, IsHeader(h)
  PROVE  /\ h \in Staying <=> MemberStays(h)
         /\ \A i \in h + 1 .. h + original[h].size :
              original[i].kind = "data" /\ (i \in Staying <=> MemberStays(h))
         /\ h > 2 /\ original[h - 2].kind = "long" =>
              /\ h - 2 \in Staying <=> MemberStays(h)
              /\ h - 1 \in Staying <=> MemberStays(h)
<1>1. /\ original[h].size \in Nat /\ h + original[h].size <= BodyLength
      /\ \A k \in 1 .. original[h].size : original[h + k].kind = "data"
  BY OrderOfBlocks DEF IsHeader
<1>2. BodyLength \in Nat
  BY BodyFacts
<1>3. h \in Staying <=> MemberStays(h)
  <2>1. original[h].kind # "junk" /\ OwnHeader(h) = h
    BY OwnHeaderFacts DEF IsHeader
  <2>. QED
    BY <2>1 DEF Staying
<1>4. ASSUME NEW i \in h + 1 .. h + original[h].size
      PROVE  original[i].kind = "data" /\ (i \in Staying <=> MemberStays(h))
  <2>1. i - h \in 1 .. original[h].size /\ h + (i - h) = i /\ i \in 1 .. BodyLength
    BY <1>1, <1>2
  <2>2. original[i].kind = "data" /\ OwnHeader(i) = h
    BY <1>1, <2>1, OwnHeaderFacts
  <2>. QED
    BY <2>1, <2>2 DEF Staying
<1>5. ASSUME h > 2, original[h - 2].kind = "long"
      PROVE  /\ h - 2 \in Staying <=> MemberStays(h)
             /\ h - 1 \in Staying <=> MemberStays(h)
  <2>1. h - 2 \in 1 .. BodyLength /\ h - 1 \in 1 .. BodyLength /\ (h - 2) + 1 = h - 1
    BY <1>2, <1>5
  <2>2. original[h - 1] = ExtData(original[h - 2].name)
    BY <1>5, <2>1, OrderOfBlocks
  <2>3. original[h - 1].kind # "junk" /\ original[h - 2].kind # "junk"
    BY <1>5, <2>2 DEF ExtData
  <2>4. OwnHeader(h - 2) = h /\ OwnHeader(h - 1) = h
    BY <1>5, OwnHeaderFacts
  <2>. QED
    BY <2>1, <2>3, <2>4 DEF Staying
<1>. QED
  BY <1>3, <1>4, <1>5

(* The headers of members called n among the first k blocks.               *)
Named(n, k) == {g \in 1 .. k : IsHeader(g) /\ original[g].name = n}

LEMMA NamedFinite ==
  ASSUME NEW n, NEW k \in Nat
  PROVE  IsFiniteSet(Named(n, k)) /\ Cardinality(Named(n, k)) \in Nat
<1>1. IsFiniteSet(1 .. k)
  BY FS_Interval
<1>2. Named(n, k) \subseteq 1 .. k
  BY DEF Named
<1>3. IsFiniteSet(Named(n, k))
  BY <1>1, <1>2, FS_Subset
<1>. QED
  BY <1>3, FS_CardinalityType

LEMMA NamedStep ==
  ASSUME NEW n, NEW k \in Nat, IsHeader(k + 1)
  PROVE  Cardinality(Named(n, k + 1))
           = Cardinality(Named(n, k)) + (IF original[k + 1].name = n THEN 1 ELSE 0)
<1>1. CASE original[k + 1].name = n
  <2>1. Named(n, k + 1) = Named(n, k) \cup {k + 1} /\ k + 1 \notin Named(n, k)
    BY <1>1 DEF Named
  <2>. QED
    BY <1>1, <2>1, NamedFinite, FS_AddElement
<1>2. CASE original[k + 1].name # n
  <2>1. Named(n, k + 1) = Named(n, k)
    BY <1>2 DEF Named
  <2>. QED
    BY <1>2, <2>1, NamedFinite
<1>. QED
  BY <1>1, <1>2

LEMMA NamedRun ==
  ASSUME NEW n, NEW k \in Nat, NEW d \in Nat, \A i \in k + 1 .. k + d : ~ IsHeader(i)
  PROVE  Named(n, k + d) = Named(n, k)
BY DEF Named

(* ISFOUND is right about the member whose header comes next.              *)
LEMMA GoesOrStays ==
  ASSUME Archive, NEW h \in 1 .. BodyLength, IsHeader(h), occurrence_option \in Nat,
         original[h].name \in Doomed =>
           found_count[original[h].name] = Cardinality(Named(original[h].name, h - 1))
  PROVE  Goes(original[h].name) <=> ~ MemberStays(h)
<1>. DEFINE n == original[h].name
<1>0. h - 1 \in Nat /\ (h - 1) + 1 = h
  BY BodyFacts
<1>1. Occurrence(h) = Cardinality(Named(n, h))
  BY DEF Occurrence, Named
<1>2. Cardinality(Named(n, h)) = Cardinality(Named(n, h - 1)) + 1
  <2>1. Cardinality(Named(n, (h - 1) + 1)) = Cardinality(Named(n, h - 1)) + 1
    BY <1>0, NamedStep
  <2>. QED
    BY <1>0, <2>1
<1>3. Cardinality(Named(n, h - 1)) \in Nat
  BY <1>0, NamedFinite
<1>. HIDE DEF n
<1>4. n \in Doomed => Occurrence(h) = found_count[n] + 1 /\ found_count[n] \in Nat
  BY <1>1, <1>2, <1>3 DEF n
<1>5. Goes(n) <=> n \in Doomed /\ (IF occurrence_option = 0 THEN found_count[n] + 1 > 0
                                   ELSE found_count[n] + 1 = occurrence_option)
  BY DEF Goes, IsFound
<1>6. MemberStays(h) <=>
        n \notin Doomed \/ (occurrence_option # 0 /\ Occurrence(h) # occurrence_option)
  BY DEF MemberStays, n
<1>7. Goes(n) <=> ~ MemberStays(h)
  BY <1>4, <1>5, <1>6
<1>. QED
  BY <1>7 DEF n

------------------------------------------------------------------------------
(* What is to remain of the archive up to some block.                      *)

UpTo == Chosen(original, Staying)

LEMMA UpToType ==
  ASSUME Archive, NEW n \in 0 .. BodyLength
  PROVE  UpTo[n] \in Seq(Plain)
<1>1. n \in 0 .. Len(original) /\ original \in Seq(Plain)
  BY BodyFacts DEF Archive
<1>. QED
  BY <1>1, ChosenStep DEF UpTo

LEMMA UpToStays ==
  ASSUME Archive, NEW c \in Nat, NEW n \in Nat, c + n <= BodyLength,
         \A i \in c + 1 .. c + n : original[i].kind = "junk" \/ i \in Staying
  PROVE  /\ SubSeq(original, c + 1, c + n) \in Seq(Plain)
         /\ UpTo[c + n] = Cat(UpTo[c], NonJunk(SubSeq(original, c + 1, c + n)))
<1>. DEFINE t == SubSeq(original, c + 1, c + n)
            T == NotJunk(t)
<1>1. original \in Seq(Plain) /\ c + n <= Len(original) /\ Len(original) \in Nat
  BY BodyFacts DEF Archive
<1>2. /\ t \in Seq(Plain) /\ Len(t) = n /\ DOMAIN t = 1 .. n
      /\ \A j \in 1 .. n : t[j] = original[c + j]
  <2>1. c + 1 \in Int /\ c + n \in Int /\ \A i \in c + 1 .. c + n : original[i] \in Plain
    <3>1. \A i \in c + 1 .. c + n : i \in 1 .. Len(original)
      BY <1>1
    <3>. QED
      BY <1>1, <3>1, ElementOfSeq
  <2>2. /\ t \in Seq(Plain)
        /\ Len(t) = IF c + 1 <= c + n THEN ((c + n) - (c + 1)) + 1 ELSE 0
        /\ \A i \in 1 .. ((c + n) - (c + 1)) + 1 : t[i] = original[(c + 1) + i - 1]
    BY <2>1, SubSeqProperties
  <2>3. ((c + n) - (c + 1)) + 1 = n /\ \A i \in 1 .. n : (c + 1) + i - 1 = c + i
    OBVIOUS
  <2>4. Len(t) = n
    BY <2>2, <2>3
  <2>5. DOMAIN t = 1 .. n
    BY <2>2, <2>4, LenProperties
  <2>. QED
    BY <2>2, <2>3, <2>4, <2>5
<1>3. SameChoice(original, Staying, c, t, T, n)
  <2>1. ASSUME NEW j \in 1 .. n PROVE Pick(original, Staying, c + j) = Pick(t, T, j)
    <3>1. c + j \in c + 1 .. c + n
      OBVIOUS
    <3>2. c + j \in Staying <=> original[c + j].kind # "junk"
      BY <3>1 DEF Staying
    <3>3. t[j] = original[c + j] /\ j \in DOMAIN t
      BY <1>2
    <3>4. j \in T <=> c + j \in Staying
      BY <3>2, <3>3 DEF NotJunk
    <3>. HIDE DEF t, T
    <3>. QED
      BY <3>3, <3>4 DEF Pick
  <2>. QED
    BY <2>1 DEF SameChoice
<1>4. NonJunk(t) = Chosen(t, T)[n]
  BY <1>2 DEF NonJunk, NotJunk
<1>. HIDE DEF t, T
<1>5. n <= Len(t)
  BY <1>2
<1>6. Chosen(original, Staying)[c + n] = Cat(Chosen(original, Staying)[c], Chosen(t, T)[n])
  BY <1>1, <1>2, <1>3, <1>5, ChosenRun
<1>. QED
  BY <1>2, <1>4, <1>6 DEF UpTo, t

LEMMA UpToGoes ==
  ASSUME Archive, NEW c \in Nat, NEW n \in Nat, c + n <= BodyLength,
         \A i \in c + 1 .. c + n : i \notin Staying
  PROVE  UpTo[c + n] = UpTo[c]
<1>1. original \in Seq(Plain) /\ c + n <= Len(original) /\ c \in 0 .. Len(original)
  BY BodyFacts DEF Archive
<1>2. \A j \in 1 .. n : c + j \notin Staying
  OBVIOUS
<1>. QED
  BY <1>1, <1>2, ChosenNone DEF UpTo

LEMMA UpToPrefix ==
  ASSUME Archive, NEW c \in 0 .. BodyLength
  PROVE  \E u \in Seq(Plain) : Remaining = Cat(UpTo[c], u)
<1>. DEFINE n == BodyLength - c
            t == [j \in 1 .. n |-> original[c + j]]
            T == {j \in 1 .. n : c + j \in Staying}
<1>1. /\ original \in Seq(Plain) /\ Len(original) \in Nat /\ BodyLength < Len(original)
      /\ BodyLength \in Nat
  BY BodyFacts DEF Archive
<1>2. n \in Nat /\ c \in Nat /\ c + n = BodyLength
  BY <1>1
<1>3. t \in Seq(Plain) /\ Len(t) = n /\ \A j \in 1 .. n : t[j] = original[c + j]
  <2>1. \A j \in 1 .. n : c + j \in 1 .. Len(original)
    BY <1>1
  <2>2. \A j \in 1 .. n : original[c + j] \in Plain
    BY <1>1, <2>1, ElementOfSeq
  <2>. HIDE DEF n
  <2>. QED
    BY <1>2, <2>2
<1>4. SameChoice(original, Staying, c, t, T, n)
  BY <1>3 DEF SameChoice, Pick
<1>. HIDE DEF n, t, T
<1>5. c + n <= Len(original) /\ n <= Len(t)
  BY <1>1, <1>2, <1>3
<1>6. Chosen(original, Staying)[c + n] = Cat(Chosen(original, Staying)[c], Chosen(t, T)[n])
  BY <1>1, <1>2, <1>3, <1>4, <1>5, ChosenRun
<1>7. Chosen(t, T)[n] \in Seq(Plain)
  <2>1. n \in 0 .. Len(t)
    BY <1>2, <1>3
  <2>. QED
    BY <1>3, <2>1, ChosenStep
<1>8. Remaining = Cat(UpTo[c], Chosen(t, T)[n])
  BY <1>2, <1>6 DEF Remaining, UpTo
<1>. QED
  BY <1>7, <1>8

(* The same facts, of given sequences and lengths.                         *)
LEMMA CatOf ==
  ASSUME NEW B, NEW s \in Seq(B), NEW t \in Seq(B), NEW m, NEW n, Len(s) = m, Len(t) = n
  PROVE  /\ Cat(s, t) \in Seq(B) /\ Len(Cat(s, t)) = m + n
         /\ \A i \in 1 .. m : Cat(s, t)[i] = s[i]
         /\ \A i \in 1 .. n : Cat(s, t)[m + i] = t[i]
<1>1. Cat(s, t) \in Seq(B) /\ Len(Cat(s, t)) = m + n
  BY CatFacts
<1>2. ASSUME NEW i \in 1 .. m PROVE Cat(s, t)[i] = s[i]
  BY CatElements
<1>3. ASSUME NEW i \in 1 .. n PROVE Cat(s, t)[m + i] = t[i]
  <2>1. i \in 1 .. Len(t)
    OBVIOUS
  <2>2. Cat(s, t)[Len(s) + i] = t[i]
    BY <2>1, ConcatProperties DEF Cat
  <2>. QED
    BY <2>2
<1>. QED
  BY <1>1, <1>2, <1>3

LEMMA CatAssociative ==
  ASSUME NEW B, NEW s \in Seq(B), NEW t \in Seq(B), NEW u \in Seq(B)
  PROVE  Cat(Cat(s, t), u) = Cat(s, Cat(t, u))
BY CatFacts

LEMMA CatEmpty ==
  ASSUME NEW B, NEW s \in Seq(B)
  PROVE  Cat(s, <<>>) = s /\ Cat(<<>>, s) = s
BY CatFacts

LEMMA SliceType ==
  ASSUME NEW B, NEW s \in Seq(B), NEW a \in 0 .. Len(s)
  PROVE  /\ SubSeq(s, 1, a) \in Seq(B) /\ Len(SubSeq(s, 1, a)) = a
         /\ \A i \in 1 .. a : SubSeq(s, 1, a)[i] = s[i]
<1>1. 1 \in Int /\ a \in Int /\ \A i \in 1 .. a : s[i] \in B
  OBVIOUS
<1>2. /\ SubSeq(s, 1, a) \in Seq(B)
      /\ Len(SubSeq(s, 1, a)) = IF 1 <= a THEN (a - 1) + 1 ELSE 0
      /\ \A i \in 1 .. (a - 1) + 1 : SubSeq(s, 1, a)[i] = s[1 + i - 1]
  BY <1>1, SubSeqProperties
<1>3. (a - 1) + 1 = a /\ \A i \in 1 .. a : 1 + i - 1 = i
  OBVIOUS
<1>. QED
  BY <1>2, <1>3

LEMMA SameSequence ==
  ASSUME NEW B, NEW s \in Seq(B), NEW t \in Seq(B), Len(s) = Len(t),
         \A i \in 1 .. Len(s) : s[i] = t[i]
  PROVE  s = t
BY SeqEqual

(* The first blocks of s and those that follow them.                       *)
LEMMA SliceCat ==
  ASSUME NEW B, NEW s \in Seq(B), NEW t \in Seq(B), NEW a \in Nat, a + Len(t) <= Len(s),
         \A i \in 1 .. Len(t) : t[i] = s[a + i]
  PROVE  Cat(SubSeq(s, 1, a), t) = SubSeq(s, 1, a + Len(t))
<1>. DEFINE b == Len(t)
            u == SubSeq(s, 1, a)
            v == Cat(u, t)
            w == SubSeq(s, 1, a + b)
<1>1. b \in Nat /\ a \in 0 .. Len(s) /\ a + b \in 0 .. Len(s) /\ Len(s) \in Nat
  OBVIOUS
<1>2. u \in Seq(B) /\ Len(u) = a /\ \A i \in 1 .. a : u[i] = s[i]
  BY <1>1, SliceType
<1>3. w \in Seq(B) /\ Len(w) = a + b /\ \A i \in 1 .. a + b : w[i] = s[i]
  BY <1>1, SliceType
<1>. HIDE DEF u, w
<1>. HIDE DEF b
<1>4. /\ v \in Seq(B) /\ Len(v) = a + b
      /\ \A i \in 1 .. a : v[i] = u[i]
      /\ \A i \in 1 .. b : v[a + i] = t[i]
  <2>1. Len(t) = b
    BY DEF b
  <2>2. u \in Seq(B) /\ Len(u) = a
    BY <1>2
  <2>3. /\ Cat(u, t) \in Seq(B) /\ Len(Cat(u, t)) = a + b
        /\ \A i \in 1 .. a : Cat(u, t)[i] = u[i]
        /\ \A i \in 1 .. b : Cat(u, t)[a + i] = t[i]
    <3>. HIDE DEF u
    <3>1. Cat(u, t) \in Seq(B) /\ Len(Cat(u, t)) = a + b
      BY <2>1, <2>2, CatOf
    <3>2. ASSUME NEW i \in 1 .. a PROVE Cat(u, t)[i] = u[i]
      <4>1. i \in 1 .. Len(u)
        BY <2>2
      <4>. QED
        BY <2>2, <4>1, CatElements
    <3>3. ASSUME NEW i \in 1 .. b PROVE Cat(u, t)[a + i] = t[i]
      BY <2>1, <2>2, CatOf
    <3>. QED
      BY <3>1, <3>2, <3>3
  <2>. QED
    BY <2>3
<1>5. \A i \in 1 .. b : t[i] = s[a + i]
  BY DEF b
<1>. HIDE DEF v
<1>6. ASSUME NEW i \in 1 .. a + b PROVE v[i] = w[i]
  <2>1. CASE i <= a
    <3>1. i \in 1 .. a
      BY <1>1, <2>1
    <3>. QED
      BY <1>2, <1>3, <1>4, <3>1
  <2>2. CASE i > a
    <3>1. i - a \in 1 .. b /\ a + (i - a) = i
      BY <1>1, <2>2
    <3>2. v[i] = t[i - a] /\ t[i - a] = s[i]
      BY <1>4, <1>5, <3>1
    <3>. QED
      BY <1>3, <3>1, <3>2
  <2>. QED
    BY <1>1, <2>1, <2>2
<1>7. v = w
  BY <1>1, <1>3, <1>4, <1>6, SameSequence
<1>. QED
  BY <1>7 DEF v, w, u, b

------------------------------------------------------------------------------
(* What was written, and the blocks of new_record.                         *)

Written ==
  IF acting_as_filter THEN stdout
  ELSE SubSeq(file, 1, BF * (records_skipped + records_written))
Waiting == [i \in 1 .. new_blocks |-> new_record[i - 1]]

InFile == acting_as_filter \/ BF * (records_skipped + records_written) <= Len(file)

LEMMA OutputParts == Output = Cat(Written, Waiting)
BY DEF Output, Written, Waiting, Cat

LEMMA OutputTypes ==
  ASSUME TypedWith(Plain), InFile
  PROVE  /\ Written \in Seq(Plain) /\ Waiting \in Seq(Plain) /\ Output \in Seq(Plain)
         /\ Len(Waiting) = new_blocks
         /\ ~ acting_as_filter => Len(Written) = BF * (records_skipped + records_written)
         /\ BF \in Nat \ {0} /\ new_blocks \in 0 .. BF - 1
         /\ records_skipped \in Nat /\ records_written \in Nat
         /\ BF * (records_skipped + records_written) \in Nat
         /\ new_record \in [Slots -> Plain]
<1>1. /\ BF \in Nat \ {0} /\ new_blocks \in 0 .. BF - 1 /\ new_record \in [Slots -> Plain]
      /\ records_skipped \in Nat /\ records_written \in Nat
      /\ file \in Seq(Plain) /\ stdout \in Seq(Plain)
  BY ArchiveFileAssumption DEF TypedWith, OutputTyped, FilesTyped, Slots
<1>. DEFINE w == BF * (records_skipped + records_written)
<1>2. w \in Nat
  BY <1>1
<1>. HIDE DEF w
<1>3. Written \in Seq(Plain) /\ (~ acting_as_filter => Len(Written) = w)
  <2>1. ASSUME ~ acting_as_filter PROVE w \in 0 .. Len(file)
    BY <1>1, <1>2, <2>1, LenProperties DEF InFile, w
  <2>. QED
    BY <1>1, <2>1, SliceType DEF Written, w
<1>4. Waiting \in Seq(Plain) /\ Len(Waiting) = new_blocks
  <2>1. \A i \in 1 .. new_blocks : i - 1 \in Slots
    BY <1>1 DEF Slots
  <2>2. \A i \in 1 .. new_blocks : new_record[i - 1] \in Plain
    BY <1>1, <2>1
  <2>. QED
    BY <1>1, <2>2 DEF Waiting
<1>5. Output \in Seq(Plain)
  BY <1>3, <1>4, CatFacts, OutputParts
<1>. QED
  BY <1>1, <1>2, <1>3, <1>4, <1>5 DEF w

LEMMA OutputSame ==
  ASSUME UNCHANGED <<acting_as_filter, stdout, file, records_skipped, records_written,
                     new_blocks, new_record>>
  PROVE  Output' = Output /\ InFile' = InFile
BY DEF Output, InFile

(* A record that is written, in place right behind the others.             *)
LEMMA RecordWritten ==
  ASSUME TypedWith(Plain), Closed(Plain), InFile, acting_as_filter \/ fpos = BF * records_read,
         NEW r \in [Slots -> Plain], NEW m \in BOOLEAN, WriteRecord(r, m),
         UNCHANGED <<acting_as_filter, records_skipped>>
  PROVE  Written' = Cat(Written, RecordBlocks(r)) /\ InFile'
<1>. DEFINE w == BF * (records_skipped + records_written)
            R == BF * records_read
            p == Greater(0, fpos + BF * Back)
            v == RecordBlocks(r)
<1>0. v \in Seq(Plain) /\ Len(v) = BF
  BY RecordBlocksType
<1>1. /\ BF \in Nat \ {0} /\ records_skipped \in Nat /\ records_written \in Nat /\ w \in Nat
      /\ records_written' = records_written + 1
  BY OutputTypes DEF WriteRecord
<1>2. CASE acting_as_filter
  BY <1>2 DEF WriteRecord, Written, InFile, Cat
<1>3. CASE ~ acting_as_filter
  <2>1. file \in Seq(Plain) /\ Len(file) \in Nat /\ records_read \in Nat /\ R \in Nat
    BY PositionTypes
  <2>2. BF * Back = w - R
    BY <1>1, <2>1 DEF Back
  <2>3. BF * (records_skipped' + records_written') = w + BF
    BY <1>1
  <2>4. w <= Len(file) /\ fpos = R /\ file' = Overwritten(file, p, v)
    BY <1>3 DEF InFile, WriteRecord
  <2>. HIDE DEF w, R, v
  <2>5. p = w
    BY <1>1, <2>1, <2>2, <2>4 DEF Greater
  <2>. HIDE DEF p
  <2>6. file' = Overwritten(file, w, v) /\ Zero \in Plain
    BY <2>4, <2>5 DEF Closed, HasBlanks
  <2>7. /\ file' \in Seq(Plain) /\ Len(file') = Greater(Len(file), w + BF)
        /\ \A i \in 1 .. Len(file) : i <= w => file'[i] = file[i]
        /\ \A i \in 1 .. BF : file'[w + i] = v[i]
    <3>. DEFINE o == Overwritten(file, w, v)
    <3>0. Zero \in Plain /\ file \in Seq(Plain) /\ v \in Seq(Plain) /\ w \in Nat
      BY <1>0, <1>1, <2>1, <2>6
    <3>1. /\ o \in Seq(Plain) /\ Len(o) = Greater(Len(file), w + Len(v))
          /\ \A i \in 1 .. Len(file) : i <= w => o[i] = file[i]
          /\ \A i \in 1 .. Len(v) : o[w + i] = v[i]
      <4>1. o \in Seq(Plain) /\ Len(o) = Greater(Len(file), w + Len(v))
        BY <3>0, OverwrittenType
      <4>2. ASSUME NEW i \in 1 .. Len(file), i <= w PROVE o[i] = file[i]
        BY <3>0, <4>2, OverwrittenType
      <4>3. ASSUME NEW i \in 1 .. Len(v) PROVE o[w + i] = v[i]
        BY <3>0, OverwrittenType
      <4>. QED
        BY <4>1, <4>2, <4>3
    <3>2. file' = o
      BY <2>6
    <3>. HIDE DEF o
    <3>. QED
      BY <1>0, <3>1, <3>2
  <2>8. Len(file') \in Nat /\ w + BF <= Len(file')
    BY <1>1, <2>1, <2>7 DEF Greater
  <2>9. SubSeq(file', 1, w) = SubSeq(file, 1, w)
    <3>1. /\ w \in 0 .. Len(file) /\ w \in 0 .. Len(file')
          /\ \A i \in 1 .. w : i \in 1 .. Len(file)
      BY <1>1, <2>1, <2>4, <2>8
    <3>2. /\ SubSeq(file', 1, w) \in Seq(Plain) /\ Len(SubSeq(file', 1, w)) = w
          /\ \A i \in 1 .. w : SubSeq(file', 1, w)[i] = file'[i]
      BY <2>7, <3>1, SliceType
    <3>3. /\ SubSeq(file, 1, w) \in Seq(Plain) /\ Len(SubSeq(file, 1, w)) = w
          /\ \A i \in 1 .. w : SubSeq(file, 1, w)[i] = file[i]
      BY <2>1, <3>1, SliceType
    <3>4. \A i \in 1 .. w : file'[i] = file[i]
      BY <2>7, <3>1
    <3>. DEFINE x == SubSeq(file', 1, w)
                y == SubSeq(file, 1, w)
    <3>5. x \in Seq(Plain) /\ y \in Seq(Plain) /\ Len(x) = w /\ Len(y) = w
          /\ \A i \in 1 .. w : x[i] = y[i]
      BY <3>2, <3>3, <3>4
    <3>. HIDE DEF x, y
    <3>6. x = y
      BY <3>5, SameSequence
    <3>. QED
      BY <3>6 DEF x, y
  <2>10. Cat(SubSeq(file', 1, w), v) = SubSeq(file', 1, w + BF)
    BY <1>0, <1>1, <2>7, <2>8, SliceCat
  <2>11. Written' = SubSeq(file', 1, w + BF) /\ Written = SubSeq(file, 1, w)
    BY <1>3, <2>3 DEF Written, w
  <2>. QED
    BY <2>3, <2>8, <2>9, <2>10, <2>11 DEF InFile, v
<1>. QED
  BY <1>2, <1>3

(* r is new_record and the blocks of x after those it holds.               *)
Extends(r, x) ==
  /\ \A k \in 0 .. new_blocks - 1 : r[k] = new_record[k]
  /\ \A j \in 1 .. Len(x) : r[new_blocks + j - 1] = x[j]

LEMMA OutputPut ==
  ASSUME TypedWith(Plain), Closed(Plain), InFile, acting_as_filter \/ fpos = BF * records_read,
         NEW x \in Seq(Plain), new_blocks + Len(x) <= BF,
         NEW r \in [Slots -> Plain], Extends(r, x), PutBlocks(r, new_blocks + Len(x)),
         UNCHANGED acting_as_filter
  PROVE  Output' = Cat(Output, x) /\ InFile'
<1>. DEFINE d == Len(x)
            n == new_blocks + d
<1>0. /\ BF \in Nat \ {0} /\ new_blocks \in 0 .. BF - 1 /\ d \in Nat /\ n \in 0 .. BF
      /\ Written \in Seq(Plain) /\ Waiting \in Seq(Plain) /\ Len(Waiting) = new_blocks
      /\ \A i \in 1 .. new_blocks : Waiting[i] = new_record[i - 1]
  <2>1. /\ BF \in Nat \ {0} /\ new_blocks \in 0 .. BF - 1
        /\ Written \in Seq(Plain) /\ Waiting \in Seq(Plain) /\ Len(Waiting) = new_blocks
    BY OutputTypes
  <2>2. d \in Nat
    BY LenProperties
  <2>. QED
    BY <2>1, <2>2 DEF Waiting
<1>1. Output = Cat(Written, Waiting) /\ Output' = Cat(Written', Waiting')
  BY OutputParts DEF Output, Written, Waiting, Cat
<1>2. /\ new_record' = r /\ new_blocks' = IF n = BF THEN 0 ELSE n
      /\ UNCHANGED records_skipped
      /\ IF n = BF THEN WriteRecord(r, TRUE)
         ELSE UNCHANGED <<file, fpos, stdout, records_written>>
  BY DEF PutBlocks
<1>. DEFINE y == [i \in 1 .. n |-> r[i - 1]]
<1>3. y \in Seq(Plain) /\ Len(y) = n
  <2>1. \A i \in 1 .. n : i - 1 \in Slots
    BY <1>0 DEF Slots
  <2>2. \A i \in 1 .. n : r[i - 1] \in Plain
    BY <2>1
  <2>. QED
    BY <1>0, <2>2
<1>4. y = Cat(Waiting, x)
  <2>. DEFINE z == Cat(Waiting, x)
  <2>1. /\ z \in Seq(Plain) /\ Len(z) = n
        /\ \A i \in 1 .. new_blocks : z[i] = Waiting[i]
        /\ \A i \in 1 .. d : z[new_blocks + i] = x[i]
    <3>. HIDE DEF z
    <3>1. Waiting \in Seq(Plain) /\ Len(Waiting) = new_blocks /\ Len(x) = d
      BY <1>0
    <3>. HIDE DEF d
    <3>. QED
      BY <3>1, CatOf DEF z
  <2>2. (\A i \in 1 .. new_blocks : z[i] = Waiting[i])
        /\ \A i \in 1 .. d : z[new_blocks + i] = x[i]
    BY <2>1
  <2>3. \A i \in 1 .. n : y[i] = r[i - 1]
    OBVIOUS
  <2>. HIDE DEF y, z
  <2>4. ASSUME NEW i \in 1 .. n PROVE y[i] = z[i]
    <3>1. CASE i <= new_blocks
      <4>1. i \in 1 .. new_blocks /\ i - 1 \in 0 .. new_blocks - 1
        BY <1>0, <3>1
      <4>. QED
        BY <1>0, <2>2, <2>3, <4>1 DEF Extends
    <3>2. CASE i > new_blocks
      <4>1. i - new_blocks \in 1 .. d /\ new_blocks + (i - new_blocks) = i
            /\ new_blocks + (i - new_blocks) - 1 = i - 1
        BY <1>0, <3>2
      <4>2. r[new_blocks + (i - new_blocks) - 1] = x[i - new_blocks]
        BY <4>1 DEF Extends
      <4>3. z[i] = x[i - new_blocks]
        BY <2>2, <4>1
      <4>. QED
        BY <2>3, <4>1, <4>2, <4>3
    <3>. QED
      BY <1>0, <3>1, <3>2
  <2>5. y = z
    BY <1>3, <2>1, <2>4, SameSequence
  <2>. QED
    BY <2>5 DEF z
<1>5. Cat(Output, x) = Cat(Written, y)
  <2>1. Cat(Cat(Written, Waiting), x) = Cat(Written, Cat(Waiting, x))
    BY <1>0, CatAssociative
  <2>. QED
    BY <1>1, <1>4, <2>1
<1>6. CASE n = BF
  <2>1. Written' = Cat(Written, RecordBlocks(r)) /\ InFile'
    BY <1>2, <1>6, RecordWritten
  <2>2. RecordBlocks(r) = y
    BY <1>6 DEF RecordBlocks
  <2>3. Waiting' = <<>>
    BY <1>2, <1>6 DEF Waiting
  <2>4. Cat(Written, y) \in Seq(Plain)
    BY <1>0, <1>3, CatFacts
  <2>5. Cat(Cat(Written, y), <<>>) = Cat(Written, y)
    BY <2>4, CatFacts
  <2>. QED
    BY <1>1, <1>5, <2>1, <2>2, <2>3, <2>5
<1>7. CASE n # BF
  <2>1. Written' = Written /\ InFile'
    BY <1>2, <1>7 DEF Written, InFile
  <2>2. Waiting' = y
    BY <1>2, <1>7 DEF Waiting
  <2>. QED
    BY <1>1, <1>5, <2>1, <2>2
<1>. QED
  BY <1>6, <1>7

------------------------------------------------------------------------------
(* What is known while the archive is read, and how much of it was.        *)

(* What is to remain depends on nothing that changes.                      *)
LEMMA RemainingKept ==
  ASSUME [Next]_vars
  PROVE  /\ original' = original /\ Ends' = Ends /\ BodyLength' = BodyLength
         /\ acting_as_filter' = acting_as_filter /\ occurrence_option' = occurrence_option
         /\ Staying' = Staying /\ UpTo' = UpTo /\ Remaining' = Remaining
         /\ Proper' = Proper /\ Archive' = Archive
<1>1. original' = original /\ acting_as_filter' = acting_as_filter /\ Ends' = Ends
  BY OriginalKept
<1>2. occurrence_option' = occurrence_option
  BY DEF Next, vars, Fetch, ScanMember, SkipData, SkipUnexpectedEof, ScanNonHeader, ScanEnd,
         Passed, ScanDeleted, ScanExtended, StartRewriting, DropRecord, DropRest, Loop,
         ReadExtension, ReadExtensionData, ReadDeleted, ReadKept, ReadNonHeader, ReadPastEnd,
         ReadEnd, Reading, CopyHeader, FetchData, CopyData, CopyAborts, PutBlocks, WriteEot,
         Truncate, given
<1>3. BodyLength' = BodyLength
  BY <1>1 DEF BodyLength
<1>4. Proper' = Proper /\ Archive' = Archive
  BY <1>1 DEF Proper, Archive
<1>5. ASSUME NEW i PROVE MemberStays(OwnHeader(i))' <=> MemberStays(OwnHeader(i))
  BY <1>1, <1>2, <1>3 DEF MemberStays, OwnHeader, Occurrence, IsHeader
<1>6. Staying' = Staying
  BY <1>1, <1>3, <1>5 DEF Staying
<1>7. UpTo' = UpTo
  BY <1>1, <1>6 DEF UpTo
<1>8. Remaining' = Remaining
  BY <1>1, <1>3, <1>6 DEF Remaining
<1>. QED
  BY <1>1, <1>2, <1>3, <1>4, <1>6, <1>7, <1>8

(* The invariants so far, for an archive that --delete copies rightly.     *)
Known ==
  /\ ReadInv /\ Proper
  /\ Archives \subseteq Seq(Plain) /\ WholeMembers /\ MembersInOrder

(* How many blocks of the archive were passed.                             *)
Reached == Greater(0, Consumed)

(* The blocks of the member at hand, or of its name, that come next.       *)
Rest ==
  IF pc \in {"skip", "drop", "header", "data", "copy"} THEN left
  ELSE IF pc = "long" THEN 1 ELSE 0

LEMMA KnownTypes ==
  ASSUME Known
  PROVE  /\ TypedWith(Plain) /\ Closed(Plain) /\ Accounted /\ UnreadInv /\ PositionedInv
         /\ Ends # {} /\ Archive /\ occurrence_option \in Nat
<1>1. /\ TypedWith(Plain) /\ Accounted /\ UnreadInv /\ PositionedInv /\ Ends # {}
  BY DEF Known, ReadInv, Proper
<1>2. Closed(Plain)
  BY PlainClosed DEF Known
<1>3. original \in Archives
  BY <1>1 DEF PositionedInv
<1>4. Archive
  BY <1>1, <1>3 DEF Archive, Known, MembersInOrder
<1>5. occurrence_option \in Nat
  BY <1>1 DEF TypedWith, FlagsTyped
<1>. QED
  BY <1>1, <1>2, <1>4, <1>5

LEMMA ReachedFacts ==
  ASSUME Known, ~ Writing
  PROVE  /\ BF \in Nat \ {0} /\ records_read \in Nat /\ cur \in 0 .. BF /\ end \in 0 .. BF
         /\ left \in Nat /\ cur <= end /\ ~ hit_eof
         /\ Reached \in Nat /\ Rest \in Nat /\ Reached + Rest <= BodyLength
         /\ BodyLength \in Nat /\ BodyLength < Len(original) /\ Len(original) \in Nat
         /\ records_read > 0 =>
              /\ Reached = Consumed
              /\ BF * (records_read - 1) \in Nat /\ Reached = BF * (records_read - 1) + cur
         /\ records_read = 0 => Reached = 0 /\ cur = 0 /\ end = 0 /\ pc = "scan"
<1>0. TypedWith(Plain) /\ Archive /\ PositionedInv /\ Ends # {}
  BY KnownTypes
<1>1. /\ BF \in Nat \ {0} /\ records_read \in Nat /\ cur \in 0 .. BF /\ end \in 0 .. BF
      /\ left \in Nat /\ BF * records_read \in Nat
      /\ Consumed = BF * records_read - BF + cur /\ Consumed \in Int
      /\ records_read > 0 => BF * (records_read - 1) \in Nat
                             /\ BF * (records_read - 1) = BF * records_read - BF
  BY <1>0, PositionTypes
<1>2. Started /\ Before(Target)
  BY <1>0 DEF PositionedInv, Positioned
<1>3. /\ BodyLength \in Nat /\ BodyLength < Len(original) /\ Len(original) \in Nat
      /\ \A n \in Int : Before(n) <=> n <= BodyLength
  BY <1>0, BodyFacts
<1>4. Rest \in Nat /\ Target = Consumed + Rest
  BY <1>1 DEF Rest, Target
<1>5. Consumed + Rest <= BodyLength
  <2>1. Target \in Int
    BY <1>1, <1>4
  <2>. QED
    BY <1>2, <1>3, <1>4, <2>1
<1>6. ASSUME records_read > 0
      PROVE  Reached = Consumed /\ Reached = BF * (records_read - 1) + cur
  <2>. DEFINE b == BF * (records_read - 1)
  <2>1. b \in Nat /\ Consumed = b + cur
    BY <1>1, <1>6 DEF Consumed
  <2>. HIDE DEF b
  <2>2. Consumed >= 0
    BY <1>1, <2>1
  <2>3. Reached = Consumed
    BY <1>1, <2>2 DEF Reached, Greater
  <2>. QED
    BY <2>1, <2>3 DEF b
<1>7. ASSUME records_read = 0
      PROVE  Reached = 0 /\ cur = 0 /\ end = 0 /\ pc = "scan" /\ Rest = 0
  <2>1. cur = 0 /\ end = 0 /\ pc = "scan"
    BY <1>2, <1>7 DEF Started
  <2>2. Consumed = 0 - BF
    BY <1>1, <1>7, <2>1
  <2>3. Reached = 0
    BY <1>1, <2>2 DEF Reached, Greater
  <2>. QED
    BY <2>1, <2>3 DEF Rest
<1>8. Reached \in Nat
  BY <1>1 DEF Reached, Greater
<1>9. Reached + Rest <= BodyLength
  BY <1>1, <1>3, <1>5, <1>6, <1>7
<1>. QED
  BY <1>1, <1>2, <1>3, <1>4, <1>6, <1>7, <1>8, <1>9 DEF Started

(* The block to read is the next one of the archive; the first zero block  *)
(* ends it.                                                                *)
LEMMA ReachedBlock ==
  ASSUME Known, ~ Writing, HasBlock
  PROVE  /\ records_read > 0
         /\ Reached + 1 \in 1 .. Len(original)
         /\ block = original[Reached + 1] /\ block \in Plain
         /\ block.kind # "zero" => Reached + 1 \in 1 .. BodyLength
         /\ block.kind = "zero" => Reached = BodyLength
<1>0. TypedWith(Plain) /\ Archive /\ PositionedInv /\ Ends # {}
  BY KnownTypes
<1>1. records_read > 0 /\ Consumed + 1 \in DOMAIN original /\ block = original[Consumed + 1]
  BY <1>0, NextBlockOfArchive
<1>2. /\ Reached = Consumed /\ Reached \in Nat /\ Rest \in Nat /\ Reached + Rest <= BodyLength
  BY <1>1, ReachedFacts
<1>3. /\ BodyLength \in Nat /\ Len(original) \in Nat /\ DOMAIN original = 1 .. Len(original)
      /\ original[BodyLength + 1].kind = "zero"
      /\ \A i \in 1 .. BodyLength : original[i].kind # "zero"
  BY <1>0, BodyFacts
<1>. DEFINE c == Reached
<1>. HIDE DEF c
<1>4. c + 1 \in 1 .. Len(original) /\ block = original[c + 1]
  BY <1>1, <1>2, <1>3 DEF c
<1>5. original[c + 1] \in Plain
  BY <1>0, <1>4, ElementOfSeq DEF Archive
<1>6. c \in Nat /\ c <= BodyLength
  BY <1>2, <1>3 DEF c
<1>7. ASSUME block.kind # "zero" PROVE c + 1 \in 1 .. BodyLength
  <2>1. c # BodyLength
    BY <1>3, <1>4, <1>7
  <2>. QED
    BY <1>3, <1>6, <2>1
<1>8. ASSUME block.kind = "zero" PROVE c = BodyLength
  <2>1. c + 1 \notin 1 .. BodyLength
    BY <1>3, <1>4, <1>8
  <2>. QED
    BY <1>3, <1>6, <2>1
<1>. QED
  BY <1>1, <1>4, <1>5, <1>7, <1>8 DEF c

LEMMA ReachedBy ==
  ASSUME Known, ~ Writing, records_read > 0, UNCHANGED records_read, NEW d \in Nat,
         cur' = cur + d
  PROVE  Reached' = Reached + d
<1>1. Reached = Consumed /\ Reached \in Nat
  BY ReachedFacts
<1>2. Consumed' = Consumed + d
  BY KnownTypes, ConsumedInRecord
<1>3. Reached' = Greater(0, Consumed')
  BY DEF Reached, Greater
<1>. QED
  BY <1>1, <1>2, <1>3 DEF Greater

LEMMA ReachedSame ==
  ASSUME UNCHANGED <<records_read, cur>>
  PROVE  Reached' = Reached
BY DEF Reached, Consumed, Greater

(* A record is read when all blocks of the last one were passed, or go.    *)
LEMMA ReachedRecord ==
  ASSUME Known, ~ Writing, [Next]_vars, ReadRecord, file' = file,
         cur = end \/ (pc = "drop" /\ end - cur <= left)
  PROVE  Reached' = Reached + (end - cur)
<1>1. /\ Consumed' = BF * records_read
  BY KnownTypes, RecordOfArchive
<1>2. records_read > 0 => end = BF
  BY KnownTypes, MoreToRead
<1>3. /\ BF \in Nat \ {0} /\ records_read \in Nat /\ cur \in 0 .. BF /\ end \in 0 .. BF
      /\ records_read > 0 => BF * (records_read - 1) \in Nat
                             /\ Reached = BF * (records_read - 1) + cur
      /\ records_read = 0 => Reached = 0 /\ cur = 0 /\ end = 0
  BY ReachedFacts
<1>4. Reached' = Greater(0, Consumed')
  BY DEF Reached, Greater
<1>. DEFINE R == BF * records_read
<1>5. /\ R \in Nat /\ records_read > 0 => BF * (records_read - 1) = R - BF
      /\ records_read = 0 => R = 0
  BY <1>3
<1>6. R \in Nat
  BY <1>3
<1>. HIDE DEF R
<1>7. Reached' = R
  BY <1>1, <1>4, <1>6 DEF Greater, R
<1>8. CASE records_read = 0
  BY <1>3, <1>5, <1>6, <1>7, <1>8
<1>9. CASE records_read > 0
  <2>1. BF * (records_read - 1) = R - BF
    BY <1>3, <1>9 DEF R
  <2>. QED
    BY <1>2, <1>3, <1>6, <1>7, <1>9, <2>1
<1>. QED
  BY <1>3, <1>8, <1>9

------------------------------------------------------------------------------
(* Where reading is in the archive.                                        *)

(* The member at hand is counted.                                          *)
Counted == \A n \in Doomed : found_count[n] = Cardinality(Named(n, Reached))

(* Of the members passed only the last one may not be complete.            *)
Complete ==
  \A i \in 1 .. Reached :
    /\ original[i].kind = "header" => i + original[i].size <= Reached + Rest
    /\ original[i].kind = "long" => i + 1 <= Reached + Rest

(* What comes next are data of the member at hand, which goes or stays.    *)
Within == {"skip", "drop", "header", "data", "copy"}

Coming ==
  pc \in Within =>
    \A i \in Reached + 1 .. Reached + left :
      original[i].kind = "data" /\ (i \in Staying <=> pc # "drop")

Tracked == Counted /\ Complete /\ Coming

(* Some blocks are passed, but no header.                                  *)
LEMMA TrackedPassed ==
  ASSUME Known, ~ Writing, Tracked, [Next]_vars, found_count' = found_count,
         NEW d \in Nat, Reached' = Reached + d, Rest' \in Nat, Rest <= d + Rest',
         \A i \in Reached + 1 .. Reached + d :
           /\ original[i].kind # "header"
           /\ original[i].kind = "long" => i + 1 <= Reached + d + Rest',
         pc' \in Within =>
           pc \in Within /\ left' = left - d /\ left' \in Nat /\ (pc' = "drop" <=> pc = "drop")
  PROVE  Tracked'
<1>1. original' = original /\ Staying' = Staying
  BY RemainingKept
<1>2. /\ Reached \in Nat /\ Rest \in Nat /\ left \in Nat
  BY ReachedFacts
<1>3. Counted'
  <2>1. ASSUME NEW n \in Doomed PROVE found_count'[n] = Cardinality(Named(n, Reached)')
    <3>1. \A i \in Reached + 1 .. Reached + d : ~ IsHeader(i)
      BY DEF IsHeader
    <3>2. Named(n, Reached + d) = Named(n, Reached)
      BY <1>2, <3>1, NamedRun
    <3>3. Named(n, Reached)' = Named(n, Reached + d)
      BY <1>1 DEF Named, IsHeader
    <3>4. found_count[n] = Cardinality(Named(n, Reached))
      BY DEF Tracked, Counted
    <3>. QED
      BY <3>2, <3>3, <3>4
  <2>. QED
    BY <2>1 DEF Counted
<1>4. Complete'
  <2>1. ASSUME NEW i \in 1 .. Reached'
        PROVE  /\ original[i].kind = "header" => i + original[i].size <= Reached' + Rest'
               /\ original[i].kind = "long" => i + 1 <= Reached' + Rest'
    <3>. DEFINE c == Reached
                z == Rest'
                m == original[i].size
    <3>1. c \in Nat /\ Rest \in Nat /\ z \in Nat /\ Rest <= d + z /\ Reached' = c + d
      BY <1>2
    <3>2. i \in 1 .. c + d
      BY <3>1
    <3>3. CASE i <= c
      <4>1. i \in 1 .. c
        BY <3>1, <3>2, <3>3
      <4>2. /\ original[i].kind = "header" => i + m <= c + Rest
            /\ original[i].kind = "long" => i + 1 <= c + Rest
        BY <4>1 DEF Tracked, Complete
      <4>3. m \in Nat
        <5>1. i \in 1 .. BodyLength /\ Archive
          BY <1>2, <4>1, ReachedFacts, KnownTypes
        <5>. QED
          BY <5>1, OrderOfBlocks
      <4>. HIDE DEF c, z, m
      <4>4. /\ original[i].kind = "header" => i + m <= (c + d) + z
            /\ original[i].kind = "long" => i + 1 <= (c + d) + z
        BY <3>1, <4>1, <4>2, <4>3
      <4>. QED
        BY <3>1, <4>4 DEF m, z
    <3>4. CASE i > c
      <4>1. i \in c + 1 .. c + d
        BY <3>1, <3>2, <3>4
      <4>. QED
        BY <3>1, <4>1
    <3>5. i <= c \/ i > c
      BY <3>1, <3>2
    <3>. QED
      BY <3>3, <3>4, <3>5, Zenon
  <2>. QED
    BY <1>1, <2>1 DEF Complete
<1>5. Coming'
  <2>1. ASSUME pc' \in Within, NEW i \in Reached' + 1 .. Reached' + left'
        PROVE  original[i].kind = "data" /\ (i \in Staying <=> pc' # "drop")
    <3>1. i \in Reached + 1 .. Reached + left
      BY <1>2, <2>1
    <3>. QED
      BY <2>1, <3>1 DEF Tracked, Coming
  <2>. QED
    BY <1>1, <2>1 DEF Coming
<1>. QED
  BY <1>3, <1>4, <1>5 DEF Tracked

(* A header is passed, and its member goes or stays.                       *)
LEMMA TrackedHeader ==
  ASSUME Known, ~ Writing, Tracked, [Next]_vars, Rest = 0,
         NEW h, h = Reached + 1, h \in 1 .. BodyLength, IsHeader(h),
         Count(original[h].name), Reached' = Reached + 1,
         Rest' = original[h].size, left' = original[h].size,
         pc' \in Within => (pc' = "drop" <=> Goes(original[h].name))
  PROVE  /\ Tracked'
         /\ Goes(original[h].name) <=> ~ MemberStays(h)
<1>1. original' = original /\ Staying' = Staying
  BY RemainingKept
<1>2. Reached \in Nat /\ Archive /\ occurrence_option \in Nat
  BY ReachedFacts, KnownTypes
<1>3. h \in 1 .. Reached + 1 /\ h - 1 = Reached /\ original[h].size \in Nat
  BY <1>2, OrderOfBlocks
<1>4. \A n \in Doomed : found_count[n] = Cardinality(Named(n, Reached))
  BY DEF Tracked, Counted
<1>5. Goes(original[h].name) <=> ~ MemberStays(h)
  BY <1>2, <1>3, <1>4, GoesOrStays
<1>6. Counted'
  <2>1. ASSUME NEW n \in Doomed PROVE found_count'[n] = Cardinality(Named(n, Reached)')
    <3>1. IsHeader(Reached + 1)
      OBVIOUS
    <3>2. Cardinality(Named(n, Reached + 1))
            = Cardinality(Named(n, Reached)) + (IF original[Reached + 1].name = n THEN 1 ELSE 0)
      BY <1>2, <3>1, NamedStep
    <3>3. Named(n, Reached)' = Named(n, Reached + 1)
      BY <1>1 DEF Named, IsHeader
    <3>4. found_count[n] = Cardinality(Named(n, Reached))
      BY <1>4
    <3>5. found_count'[n] = found_count[n] + (IF original[h].name = n THEN 1 ELSE 0)
      <4>1. found_count \in [Names -> Nat] /\ n \in Names
        BY DeleteAssumption, KnownTypes DEF TypedWith, HeadersTyped
      <4>2. found_count[n] \in Nat
        BY <4>1
      <4>3. CASE original[h].name = n
        BY <4>1, <4>3 DEF Count
      <4>4. CASE original[h].name # n
        BY <4>1, <4>2, <4>4 DEF Count
      <4>. QED
        BY <4>3, <4>4
    <3>. QED
      BY <3>2, <3>3, <3>4, <3>5
  <2>. QED
    BY <2>1 DEF Counted
<1>7. Complete'
  <2>1. ASSUME NEW i \in 1 .. Reached'
        PROVE  /\ original[i].kind = "header" => i + original[i].size <= Reached' + Rest'
               /\ original[i].kind = "long" => i + 1 <= Reached' + Rest'
    <3>1. CASE i = h
      BY <1>2, <1>3, <3>1 DEF IsHeader
    <3>2. CASE i # h
      <4>1. i \in 1 .. Reached
        BY <1>2, <1>3, <3>2
      <4>2. /\ original[i].kind = "header" => i + original[i].size <= Reached + Rest
            /\ original[i].kind = "long" => i + 1 <= Reached + Rest
        BY <4>1 DEF Tracked, Complete
      <4>3. original[i].size \in Nat
        <5>1. i \in 1 .. BodyLength
          BY <1>2, <4>1, ReachedFacts
        <5>. QED
          BY <1>2, <5>1, OrderOfBlocks
      <4>. QED
        BY <1>2, <1>3, <4>1, <4>2, <4>3
    <3>. QED
      BY <3>1, <3>2
  <2>. QED
    BY <1>1, <2>1 DEF Complete
<1>8. Coming'
  <2>1. ASSUME pc' \in Within, NEW i \in Reached' + 1 .. Reached' + left'
        PROVE  original[i].kind = "data" /\ (i \in Staying <=> pc' # "drop")
    <3>1. i \in h + 1 .. h + original[h].size
      BY <1>2, <1>3
    <3>2. original[i].kind = "data" /\ (i \in Staying <=> MemberStays(h))
      BY <1>2, <3>1, StayingMember
    <3>. QED
      BY <1>5, <2>1, <3>2
  <2>. QED
    BY <1>1, <2>1 DEF Coming
<1>. QED
  BY <1>5, <1>6, <1>7, <1>8 DEF Tracked

(* Between members only a member, a long name or junk can follow.          *)
LEMMA BetweenMembers ==
  ASSUME Known, ~ Writing, Tracked, HasBlock, Rest = 0
  PROVE  block.kind \notin {"data", "extdata"}
<1>1. /\ Reached \in Nat /\ Archive /\ block = original[Reached + 1] /\ BodyLength \in Nat
      /\ block.kind # "zero" => Reached + 1 \in 1 .. BodyLength
  BY ReachedFacts, ReachedBlock, KnownTypes
<1>2. ASSUME block.kind = "data" PROVE FALSE
  <2>1. Reached + 1 \in 1 .. BodyLength
    BY <1>1, <1>2
  <2>2. PICK h \in 1 .. (Reached + 1) - 1 :
          original[h].kind = "header" /\ Reached + 1 <= h + original[h].size
    BY <1>1, <1>2, <2>1, OrderOfBlocks
  <2>3. h \in 1 .. Reached /\ h \in 1 .. BodyLength
    BY <1>1, <2>1
  <2>4. h + original[h].size <= Reached + Rest
    BY <2>2, <2>3 DEF Tracked, Complete
  <2>5. original[h].size \in Nat
    BY <1>1, <2>3, OrderOfBlocks
  <2>. QED
    BY <1>1, <2>2, <2>3, <2>4, <2>5
<1>3. ASSUME block.kind = "extdata" PROVE FALSE
  <2>1. Reached + 1 \in 1 .. BodyLength
    BY <1>1, <1>3
  <2>2. Reached + 1 > 1 /\ original[(Reached + 1) - 1].kind = "long"
    BY <1>1, <1>3, <2>1, OrderOfBlocks
  <2>3. Reached \in 1 .. Reached /\ original[Reached].kind = "long"
    BY <1>1, <2>2
  <2>4. Reached + 1 <= Reached + Rest
    BY <2>3 DEF Tracked, Complete
  <2>. QED
    BY <1>1, <2>4
<1>. QED
  BY <1>2, <1>3

------------------------------------------------------------------------------
(* What was written, at every moment.                                      *)

(* Before the first deletion everything stays, and is where it was.        *)
Untouched ==
  pc \in {"scan", "skip"} =>
    /\ file = original
    /\ write_archive_to_stdout = acting_as_filter
    /\ acting_as_filter => stdout = SubSeq(original, 1, Reached - cur)
    /\ \A i \in 1 .. Reached : original[i].kind = "junk" \/ i \in Staying

(* The blocks passed of a long name whose member was not reached yet.      *)
Behind == IF long_name = Junk THEN 0 ELSE IF pc = "long" THEN 1 ELSE 2

LongName ==
  /\ pc = "long" => long_name # Junk
  /\ long_name # Junk =>
       /\ Behind <= Reached
       /\ long_name = original[Reached - Behind + 1] /\ long_name.kind = "long"

(* Then what is to remain of the archive so far is written, or is going to *)
(* be with the next header.                                                *)
Copied ==
  Rewriting =>
    /\ ~ write_archive_to_stdout /\ InFile /\ LongName
    /\ \A i \in DOMAIN pending : pending[i].kind # "junk"
    /\ Cat(NonJunk(Output), pending) = UpTo[Reached - Behind]

Zeros(n) == [i \in 1 .. n |-> Zero]

(* At last the end of archive follows it.                                  *)
Ended ==
  pc = "eot" =>
    /\ InFile
    /\ NonJunk(Output) = Cat(Remaining, Zeros(zeros))
    /\ zeros > 0 => new_blocks = 0 /\ records_written > 0

Done ==
  pc = "done" =>
    IF records_written > 0 THEN HoldsRemaining
    ELSE file = original /\ Remaining = NonJunk(SubSeq(original, 1, BodyLength))

Exact == (~ Writing => Tracked) /\ Untouched /\ Copied /\ Ended /\ Done

(* The record that is read is part of the archive.                         *)
LEMMA RecordIsOriginal ==
  ASSUME Known, ~ Writing, records_read > 0
  PROVE  \A i \in 0 .. end - 1 : record[i] = original[Reached - cur + i + 1]
<1>1. \A i \in 0 .. end - 1 : record[i] = original[BF * (records_read - 1) + i + 1]
  BY KnownTypes DEF PositionedInv, Positioned, Loaded
<1>. DEFINE b == BF * (records_read - 1)
<1>2. b \in Nat /\ Reached = b + cur /\ cur \in Nat
  BY ReachedFacts
<1>. HIDE DEF b
<1>3. Reached - cur = b
  BY <1>2
<1>. QED
  BY <1>1, <1>3 DEF b

(* Reading on before the first deletion.                                   *)
LEMMA FetchScanned ==
  ASSUME Known, ~ Writing, Exact, [Next]_vars, Fetch, pc \in {"scan", "skip"}
  PROVE  Untouched'
<1>1. /\ original' = original /\ Staying' = Staying
      /\ acting_as_filter' = acting_as_filter
  BY RemainingKept
<1>2. /\ file' = file /\ write_archive_to_stdout' = write_archive_to_stdout /\ pc' = pc
      /\ ReadRecord /\ cur = end /\ cur' = 0
      /\ stdout' = IF write_archive_to_stdout /\ records_read > 0
                   THEN Cat(stdout, RecordBlocks(record)) ELSE stdout
  BY DEF Fetch, FetchRecord, FlushArchive, ReadRecord, PassOn, copy, Cat
<1>3. /\ file = original /\ write_archive_to_stdout = acting_as_filter
      /\ acting_as_filter => stdout = SubSeq(original, 1, Reached - cur)
      /\ \A i \in 1 .. Reached : original[i].kind = "junk" \/ i \in Staying
  BY DEF Exact, Untouched
<1>4. /\ Reached \in Nat /\ cur \in 0 .. BF /\ end \in 0 .. BF /\ BF \in Nat \ {0}
      /\ Reached <= BodyLength /\ BodyLength < Len(original) /\ Len(original) \in Nat
      /\ BodyLength \in Nat /\ records_read \in Nat
      /\ records_read = 0 => Reached = 0 /\ cur = 0
      /\ records_read > 0 => Reached - cur \in Nat
      /\ acting_as_filter \in BOOLEAN
  <2>1. acting_as_filter \in BOOLEAN
    BY KnownTypes DEF TypedWith, FlagsTyped
  <2>2. records_read > 0 => Reached - cur \in Nat
    BY ReachedFacts
  <2>3. Rest \in Nat /\ Reached + Rest <= BodyLength /\ BodyLength \in Nat /\ Reached \in Nat
    BY ReachedFacts
  <2>4. Reached <= BodyLength
    BY <2>3
  <2>. QED
    BY <2>1, <2>2, <2>4, ReachedFacts
<1>5. Reached' = Reached
  <2>1. Reached' = Reached + (end - cur)
    BY <1>2, ReachedRecord
  <2>. QED
    BY <1>2, <1>4, <2>1
<1>6. ASSUME acting_as_filter
      PROVE  stdout' = SubSeq(original, 1, Reached)
  <2>1. CASE records_read = 0
    <3>1. Reached - cur = Reached
      BY <1>4, <2>1
    <3>. QED
      BY <1>2, <1>3, <1>6, <2>1, <3>1
  <2>2. CASE records_read > 0
    <3>. DEFINE a == Reached - cur
                t == RecordBlocks(record)
    <3>1. end = BF
      BY <1>2, <2>2, KnownTypes, MoreToRead
    <3>2. a \in Nat /\ Reached = a + BF /\ a + BF <= Len(original)
      BY <1>2, <1>4, <2>2, <3>1
    <3>3. /\ t \in Seq(Plain) /\ Len(t) = BF /\ original \in Seq(Plain)
      BY KnownTypes, PositionTypes, RecordBlocksType
    <3>4. \A i \in 1 .. BF : t[i] = original[a + i]
      <4>1. ASSUME NEW i \in 1 .. BF PROVE t[i] = original[a + i]
        <5>1. t[i] = record[i - 1]
          BY DEF RecordBlocks
        <5>2. i - 1 \in 0 .. end - 1 /\ a + (i - 1) + 1 = a + i
          BY <1>4, <3>1, <3>2
        <5>3. record[i - 1] = original[a + (i - 1) + 1]
          BY <2>2, <5>2, RecordIsOriginal
        <5>. QED
          BY <5>1, <5>2, <5>3
      <4>. QED
        BY <4>1
    <3>5. stdout' = Cat(SubSeq(original, 1, a), t)
      BY <1>2, <1>3, <1>6, <2>2
    <3>. HIDE DEF a, t
    <3>6. Cat(SubSeq(original, 1, a), t) = SubSeq(original, 1, a + Len(t))
      <4>1. a + Len(t) <= Len(original) /\ \A i \in 1 .. Len(t) : t[i] = original[a + i]
        BY <3>2, <3>3, <3>4
      <4>. QED
        BY <3>2, <3>3, <4>1, SliceCat
    <3>. QED
      BY <3>2, <3>3, <3>5, <3>6
  <2>. QED
    BY <1>4, <2>1, <2>2
<1>7. Reached' - cur' = Reached
  BY <1>2, <1>4, <1>5
<1>. QED
  BY <1>1, <1>2, <1>3, <1>5, <1>6, <1>7 DEF Untouched

LEMMA UntouchedPassed ==
  ASSUME Known, ~ Writing, Exact, [Next]_vars, pc \in {"scan", "skip"},
         records_read > 0, UNCHANGED <<file, stdout, write_archive_to_stdout, records_read>>,
         NEW d \in Nat, cur' = cur + d,
         \A i \in Reached + 1 .. Reached + d : original[i].kind = "junk" \/ i \in Staying
  PROVE  Untouched'
<1>1. /\ original' = original /\ Staying' = Staying
      /\ acting_as_filter' = acting_as_filter
  BY RemainingKept
<1>2. Reached' = Reached + d /\ Reached \in Nat /\ cur \in Nat
  BY ReachedBy, ReachedFacts
<1>3. /\ file = original /\ write_archive_to_stdout = acting_as_filter
      /\ acting_as_filter => stdout = SubSeq(original, 1, Reached - cur)
      /\ \A i \in 1 .. Reached : original[i].kind = "junk" \/ i \in Staying
  BY DEF Exact, Untouched
<1>4. Reached' - cur' = Reached - cur
  BY <1>2
<1>5. \A i \in 1 .. Reached' : original[i].kind = "junk" \/ i \in Staying
  <2>1. ASSUME NEW i \in 1 .. Reached' PROVE original[i].kind = "junk" \/ i \in Staying
    <3>1. i \in 1 .. Reached \/ i \in Reached + 1 .. Reached + d
      BY <1>2
    <3>. QED
      BY <1>3, <3>1
  <2>. QED
    BY <2>1
<1>. QED
  BY <1>1, <1>3, <1>4, <1>5 DEF Untouched

LEMMA ExactScan ==
  ASSUME Known, ~ Writing, Exact, [Next]_vars,
         \/ Fetch /\ pc \in {"scan", "skip"}
         \/ ScanMember \/ SkipData \/ ScanNonHeader
  PROVE  Exact'
<1>1. pc \in {"scan", "skip"} /\ pc' \in {"scan", "skip"}
  BY DEF Fetch, copy, ScanMember, SkipData, ScanNonHeader, Passed
<1>2. Copied' /\ Ended' /\ Done'
  BY <1>1 DEF Copied, Ended, Done, Rewriting
<1>3. Tracked
  BY DEF Exact
<1>4. /\ Reached \in Nat /\ left \in Nat /\ cur \in Nat /\ end \in Nat
      /\ BodyLength \in Nat /\ Archive
  BY ReachedFacts, KnownTypes
<1>5. CASE Fetch
  <2>1. ReadRecord /\ file' = file /\ cur = end /\ UNCHANGED <<found_count, left, pc>>
    BY <1>5 DEF Fetch, FetchRecord, FlushArchive, headers, copy
  <2>2. Reached' = Reached + 0
    <3>1. Reached' = Reached + (end - cur)
      BY <2>1, ReachedRecord
    <3>. QED
      BY <1>4, <2>1, <3>1
  <2>3. Rest' = Rest /\ Rest \in Nat
    BY <2>1, ReachedFacts DEF Rest
  <2>4. Tracked'
    BY <1>3, <1>4, <2>1, <2>2, <2>3, TrackedPassed
  <2>. QED
    BY <1>1, <1>2, <1>5, <2>4, FetchScanned DEF Exact
<1>6. CASE ScanMember
  <2>1. /\ pc = "scan" /\ HasBlock /\ block.kind = "header" /\ ~ Goes(block.name)
        /\ Count(block.name) /\ cur' = cur + 1 /\ left' = block.size
        /\ pc' = IF block.size > 0 THEN "skip" ELSE "scan"
        /\ UNCHANGED <<file, stdout, write_archive_to_stdout, records_read>>
    BY <1>6 DEF ScanMember, Passed, output
  <2>2. /\ records_read > 0 /\ block = original[Reached + 1]
        /\ Reached + 1 \in 1 .. BodyLength
    BY <2>1, ReachedBlock
  <2>3. IsHeader(Reached + 1) /\ original[Reached + 1].size \in Nat
    BY <1>4, <2>1, <2>2, OrderOfBlocks DEF IsHeader
  <2>4. Reached' = Reached + 1
    BY <2>1, <2>2, ReachedBy
  <2>5. Rest = 0 /\ Rest' = block.size
    BY <2>1, <2>2, <2>3 DEF Rest
  <2>6. Tracked' /\ MemberStays(Reached + 1)
    BY <1>3, <2>1, <2>2, <2>3, <2>4, <2>5, TrackedHeader
  <2>7. Reached + 1 \in Staying
    BY <1>4, <2>2, <2>3, <2>6, StayingMember
  <2>8. \A i \in Reached + 1 .. Reached + 1 : i \in Staying
    BY <1>4, <2>7
  <2>9. Untouched'
    BY <1>1, <2>1, <2>2, <2>8, UntouchedPassed
  <2>. QED
    BY <1>2, <2>6, <2>9 DEF Exact
<1>7. CASE SkipData
  <2>. DEFINE n == Lesser(end - cur, left)
  <2>1. /\ pc = "skip" /\ HasBlock /\ cur' = cur + n /\ left' = left - n
        /\ pc' = IF left' > 0 THEN "skip" ELSE "scan"
        /\ UNCHANGED <<file, stdout, write_archive_to_stdout, records_read, found_count>>
    BY <1>7 DEF SkipData, Passed, output
  <2>2. n \in Nat /\ n <= left
    BY <1>4, <2>1 DEF Lesser, HasBlock
  <2>. HIDE DEF n
  <2>3. records_read > 0
    BY <2>1, ReachedBlock
  <2>4. Reached' = Reached + n
    BY <2>1, <2>2, <2>3, ReachedBy
  <2>5. left' \in Nat /\ Rest = left /\ Rest' = left - n
    BY <1>4, <2>1, <2>2 DEF Rest
  <2>6. \A i \in Reached + 1 .. Reached + n : original[i].kind = "data" /\ i \in Staying
    <3>1. \A i \in Reached + 1 .. Reached + left : original[i].kind = "data" /\ i \in Staying
      BY <1>3, <2>1 DEF Tracked, Coming, Within
    <3>2. \A i \in Reached + 1 .. Reached + n : i \in Reached + 1 .. Reached + left
      BY <1>4, <2>2
    <3>. QED
      BY <3>1, <3>2
  <2>7. Rest <= n + Rest' /\ Rest' \in Nat
    BY <1>4, <2>2, <2>5
  <2>8. Tracked'
    <3>1. pc' \in Within => pc \in Within /\ (pc' = "drop" <=> pc = "drop")
      BY <2>1 DEF Within
    <3>2. \A i \in Reached + 1 .. Reached + n :
            original[i].kind # "header" /\ original[i].kind # "long"
      BY <2>6
    <3>. QED
      BY <1>3, <2>1, <2>2, <2>4, <2>5, <2>7, <3>1, <3>2, TrackedPassed
  <2>9. Untouched'
    BY <1>1, <2>1, <2>2, <2>3, <2>6, UntouchedPassed
  <2>. QED
    BY <1>2, <2>8, <2>9 DEF Exact
<1>8. CASE ScanNonHeader
  <2>1. /\ pc = "scan" /\ HasBlock /\ block.kind \in {"data", "extdata", "junk"}
        /\ cur' = cur + 1 /\ pc' = "scan"
        /\ UNCHANGED <<file, stdout, write_archive_to_stdout, records_read, found_count>>
    BY <1>8 DEF ScanNonHeader, Passed, output
  <2>2. Rest = 0 /\ Rest' = 0
    BY <2>1 DEF Rest
  <2>3. block.kind = "junk"
    BY <1>3, <2>1, <2>2, BetweenMembers
  <2>4. records_read > 0 /\ block = original[Reached + 1]
    BY <2>1, ReachedBlock
  <2>5. Reached' = Reached + 1
    BY <2>1, <2>4, ReachedBy
  <2>6. \A i \in Reached + 1 .. Reached + 1 : original[i].kind = "junk"
    BY <1>4, <2>3, <2>4
  <2>7. Tracked'
    <3>1. pc' \notin Within
      BY <2>1 DEF Within
    <3>2. \A i \in Reached + 1 .. Reached + 1 :
            original[i].kind # "header" /\ original[i].kind # "long"
      BY <2>6
    <3>3. Rest <= 1 + Rest' /\ Rest' \in Nat /\ 1 \in Nat
      BY <2>2
    <3>4. found_count' = found_count
      BY <2>1
    <3>. QED
      BY <1>3, <2>5, <3>1, <3>2, <3>3, <3>4, TrackedPassed
  <2>8. Untouched'
    BY <1>1, <2>1, <2>4, <2>6, UntouchedPassed
  <2>. QED
    BY <1>2, <2>7, <2>8 DEF Exact
<1>. QED
  BY <1>5, <1>6, <1>7, <1>8

(* What was passed when rewriting starts is what is ready to be written.   *)
LEMMA RewritingStarts ==
  ASSUME Known, ~ Writing, Exact, [Next]_vars, pc = "scan", HasBlock, StartRewriting
  PROVE  /\ ~ write_archive_to_stdout' /\ InFile'
         /\ Output' \in Seq(Plain)
         /\ NonJunk(Output)' = UpTo[Reached]
<1>. DEFINE a == BF * (records_read - 1)
            t == [i \in 1 .. cur |-> record[i - 1]]
<1>1. /\ records_read > 0 /\ records_read \in Nat /\ BF \in Nat \ {0}
      /\ cur \in 0 .. BF /\ end \in 0 .. BF /\ cur < end
      /\ a \in Nat /\ Reached = a + cur /\ Reached \in Nat
      /\ BodyLength \in Nat /\ Reached <= BodyLength
      /\ BodyLength < Len(original) /\ Len(original) \in Nat
  <2>1. Rest \in Nat /\ Reached + Rest <= BodyLength /\ BodyLength \in Nat /\ Reached \in Nat
    BY ReachedFacts
  <2>2. Reached <= BodyLength
    BY <2>1
  <2>. QED
    BY <2>2, ReachedFacts, ReachedBlock DEF HasBlock
<1>2. /\ file = original /\ write_archive_to_stdout = acting_as_filter
      /\ acting_as_filter => stdout = SubSeq(original, 1, Reached - cur)
      /\ \A i \in 1 .. Reached : original[i].kind = "junk" \/ i \in Staying
  BY DEF Exact, Untouched
<1>3. /\ records_skipped' = records_read - 1 /\ write_archive_to_stdout' = FALSE
      /\ new_record' = [i \in Slots |-> IF i < cur THEN record[i] ELSE Junk]
      /\ new_blocks' = cur /\ records_written' = 0
      /\ file' = file /\ stdout' = stdout /\ acting_as_filter' = acting_as_filter
  <2>1. records_written = 0
    BY KnownTypes DEF Accounted
  <2>. QED
    BY <2>1, RemainingKept DEF StartRewriting, RecordsSkipped
<1>4. BF * (records_skipped' + records_written') = a
  <2>1. records_skipped' + records_written' = records_read - 1
    BY <1>1, <1>3
  <2>. QED
    BY <2>1
<1>5. InFile'
  BY <1>1, <1>2, <1>3, <1>4 DEF InFile
<1>6. Output' = Cat(SubSeq(original, 1, a), t)
  <2>1. (IF acting_as_filter' THEN stdout'
         ELSE SubSeq(file', 1, BF * (records_skipped' + records_written')))
          = SubSeq(original, 1, a)
    <3>1. Reached - cur = a
      BY <1>1
    <3>. QED
      BY <1>2, <1>3, <1>4, <3>1
  <2>2. [i \in 1 .. new_blocks' |-> new_record'[i - 1]] = t
    <3>1. ASSUME NEW i \in 1 .. cur PROVE new_record'[i - 1] = record[i - 1]
      <4>1. i - 1 \in Slots /\ i - 1 < cur
        BY <1>1 DEF Slots
      <4>. QED
        BY <1>3, <4>1
    <3>. QED
      BY <1>3, <3>1
  <2>. QED
    BY <2>1, <2>2 DEF Output, Cat
<1>7. t \in Seq(Plain) /\ Len(t) = cur /\ \A i \in 1 .. cur : t[i] = record[i - 1]
  <2>1. \A i \in 1 .. cur : i - 1 \in Slots
    BY <1>1 DEF Slots
  <2>2. record \in [Slots -> Plain]
    BY KnownTypes, PositionTypes
  <2>3. \A i \in 1 .. cur : record[i - 1] \in Plain
    BY <2>1, <2>2
  <2>. QED
    BY <1>1, <2>3
<1>8. \A i \in 1 .. Len(t) : t[i] = original[a + i]
  <2>1. ASSUME NEW i \in 1 .. cur PROVE t[i] = original[a + i]
    <3>1. i - 1 \in 0 .. end - 1 /\ Reached - cur + (i - 1) + 1 = a + i
      BY <1>1
    <3>2. record[i - 1] = original[Reached - cur + (i - 1) + 1]
      BY <1>1, <3>1, RecordIsOriginal
    <3>. QED
      BY <1>7, <3>1, <3>2
  <2>. QED
    BY <1>7, <2>1
<1>. HIDE DEF a, t
<1>9. Output' = SubSeq(original, 1, Reached)
  <2>1. original \in Seq(Plain) /\ a + Len(t) <= Len(original) /\ a + Len(t) = Reached
    BY <1>1, <1>7, KnownTypes DEF Archive
  <2>2. Cat(SubSeq(original, 1, a), t) = SubSeq(original, 1, a + Len(t))
    BY <1>1, <1>7, <1>8, <2>1, SliceCat
  <2>. QED
    BY <1>6, <2>1, <2>2
<1>10. /\ SubSeq(original, 0 + 1, 0 + Reached) \in Seq(Plain)
       /\ UpTo[0 + Reached] = Cat(UpTo[0], NonJunk(SubSeq(original, 0 + 1, 0 + Reached)))
  <2>1. /\ Archive /\ 0 + Reached <= BodyLength
        /\ \A i \in 0 + 1 .. 0 + Reached : original[i].kind = "junk" \/ i \in Staying
    BY <1>1, <1>2, KnownTypes
  <2>. QED
    BY <1>1, <2>1, UpToStays
<1>11. /\ SubSeq(original, 1, Reached) \in Seq(Plain)
       /\ UpTo[Reached] = Cat(UpTo[0], NonJunk(SubSeq(original, 1, Reached)))
  <2>1. 0 + 1 = 1 /\ 0 + Reached = Reached
    BY <1>1
  <2>. QED
    BY <1>10, <2>1
<1>12. UpTo[0] = <<>>
  <2>1. original \in Seq(Plain)
    BY KnownTypes DEF Archive
  <2>2. Chosen(original, Staying)[0] = <<>>
    BY <2>1, ChosenStep
  <2>. QED
    BY <2>2 DEF UpTo
<1>13. NonJunk(SubSeq(original, 1, Reached)) = UpTo[Reached]
  <2>. DEFINE v == SubSeq(original, 1, Reached)
  <2>1. v \in Seq(Plain) /\ UpTo[Reached] = Cat(<<>>, NonJunk(v))
    BY <1>11, <1>12, Zenon
  <2>. HIDE DEF v
  <2>2. NonJunk(v) \in Seq(Plain)
    BY <2>1, NonJunkFacts
  <2>3. Cat(<<>>, NonJunk(v)) = NonJunk(v)
    BY <2>2, CatEmpty
  <2>. QED
    BY <2>1, <2>3 DEF v
<1>14. NonJunk(Output)' = NonJunk(Output')
  BY DEF NonJunk, Chosen
<1>. QED
  BY <1>3, <1>5, <1>9, <1>11, <1>13, <1>14

LEMMA ExactStart ==
  ASSUME Known, ~ Writing, Exact, [Next]_vars, ScanDeleted \/ ScanExtended
  PROVE  Exact'
<1>1. pc = "scan" /\ HasBlock /\ StartRewriting /\ pc' \in {"drop", "loop"}
      /\ UNCHANGED <<long_name, pending, records_read>>
  BY DEF ScanDeleted, ScanExtended, StartRewriting
<1>2. /\ ~ write_archive_to_stdout' /\ InFile' /\ Output' \in Seq(Plain)
      /\ NonJunk(Output)' = UpTo[Reached]
  BY <1>1, RewritingStarts
<1>3. Untouched' /\ Ended' /\ Done'
  BY <1>1 DEF Untouched, Ended, Done
<1>4. long_name = Junk /\ pending = <<>> /\ Tracked
  BY <1>1, KnownTypes DEF Accounted, Exact
<1>5. /\ Reached \in Nat /\ left \in Nat /\ cur \in Nat /\ records_read > 0
      /\ BodyLength \in Nat /\ Archive /\ Reached + Rest <= BodyLength /\ Rest = 0
  BY <1>1, ReachedFacts, ReachedBlock, KnownTypes DEF Rest
<1>6. UpTo[Reached] \in Seq(Plain)
  BY <1>5, UpToType
<1>7. ASSUME Reached' \in Nat, UpTo[Reached'] = UpTo[Reached] PROVE Copied'
  <2>1. LongName' /\ Behind' = 0
    BY <1>1, <1>4 DEF LongName, Behind
  <2>2. \A i \in DOMAIN pending' : pending'[i].kind # "junk"
    BY <1>1, <1>4
  <2>3. UpTo' = UpTo /\ Reached' - Behind' = Reached'
    <3>1. UpTo' = UpTo
      BY RemainingKept
    <3>2. Reached' \in Nat /\ Behind' = 0
      BY <1>7, <2>1, Zenon
    <3>3. Reached' - Behind' = Reached'
      <4>1. \A n \in Nat : n - 0 = n
        OBVIOUS
      <4>2. Reached' - 0 = Reached'
        BY <3>2, <4>1
      <4>. QED
        BY <3>2, <4>2, Zenon
    <3>. QED
      BY <3>1, <3>3
  <2>4. Cat(UpTo[Reached], <<>>) = UpTo[Reached]
    BY <1>6, CatEmpty
  <2>5. Cat(NonJunk(Output), pending)' = Cat(UpTo[Reached], <<>>)
    BY <1>1, <1>2, <1>4 DEF Cat
  <2>. QED
    BY <1>2, <1>7, <2>1, <2>2, <2>3, <2>4, <2>5 DEF Copied
<1>8. CASE ScanDeleted
  <2>1. /\ block.kind = "header" /\ Goes(block.name)
        /\ Count(block.name) /\ cur' = cur + 1 /\ left' = block.size /\ pc' = "drop"
    BY <1>8 DEF ScanDeleted
  <2>2. /\ block = original[Reached + 1] /\ Reached + 1 \in 1 .. BodyLength
    BY <1>1, <2>1, ReachedBlock
  <2>3. IsHeader(Reached + 1) /\ original[Reached + 1].size \in Nat
    BY <1>5, <2>1, <2>2, OrderOfBlocks DEF IsHeader
  <2>4. Reached' = Reached + 1
    BY <1>1, <1>5, <2>1, ReachedBy
  <2>5. Rest' = block.size
    BY <2>1 DEF Rest
  <2>6. Tracked' /\ ~ MemberStays(Reached + 1)
    BY <1>4, <1>5, <2>1, <2>2, <2>3, <2>4, <2>5, TrackedHeader
  <2>7. Reached + 1 \notin Staying
    BY <1>5, <2>2, <2>3, <2>6, StayingMember
  <2>8. UpTo[Reached + 1] = UpTo[Reached]
    <3>1. \A i \in Reached + 1 .. Reached + 1 : i \notin Staying
      BY <1>5, <2>7
    <3>2. Reached + 1 <= BodyLength
      BY <2>2
    <3>. QED
      BY <1>5, <3>1, <3>2, UpToGoes
  <2>. QED
    BY <1>3, <1>5, <1>7, <2>4, <2>6, <2>8 DEF Exact
<1>9. CASE ScanExtended
  <2>1. /\ UNCHANGED <<found_count, cur, left, records_read>> /\ pc' = "loop"
    BY <1>1, <1>9 DEF ScanExtended
  <2>2. Reached' = Reached /\ Reached' = Reached + 0
    BY <1>5, <2>1, ReachedSame
  <2>3. Tracked'
    <3>1. pc' \notin Within /\ Rest' = 0
      BY <2>1 DEF Within, Rest
    <3>2. \A i \in Reached + 1 .. Reached + 0 : FALSE
      BY <1>5
    <3>3. Rest <= 0 + Rest' /\ Rest' \in Nat /\ 0 \in Nat
      BY <1>5, <3>1
    <3>4. found_count' = found_count
      BY <2>1
    <3>. QED
      BY <1>4, <2>2, <3>1, <3>2, <3>3, <3>4, TrackedPassed
  <2>. QED
    BY <1>3, <1>5, <1>7, <2>2, <2>3 DEF Exact
<1>. QED
  BY <1>8, <1>9

(* A long name is followed by its data and by the header it belongs to.    *)
LEMMA LongNameFacts ==
  ASSUME Known, ~ Writing, Exact, Rewriting, long_name # Junk
  PROVE  /\ long_name.kind = "long" /\ Reached + 1 \in 1 .. BodyLength
         /\ pc = "long" =>
              /\ Behind = 1 /\ Reached >= 1
              /\ original[Reached] = long_name
              /\ original[Reached + 1] = ExtData(long_name.name)
         /\ pc # "long" =>
              /\ Behind = 2 /\ Reached >= 2
              /\ original[Reached - 1] = long_name
              /\ original[Reached] = ExtData(long_name.name)
              /\ original[Reached + 1].kind = "header"
<1>. DEFINE i == Reached - Behind + 1
<1>1. Behind = (IF pc = "long" THEN 1 ELSE 2)
  BY DEF Behind
<1>2. Behind <= Reached /\ long_name = original[i] /\ long_name.kind = "long"
  BY DEF Exact, Copied, LongName
<1>3. Archive /\ Reached \in Nat /\ Rest \in Nat /\ Reached + Rest <= BodyLength
      /\ BodyLength \in Nat
  BY ReachedFacts, KnownTypes
<1>4. i \in 1 .. BodyLength
  BY <1>1, <1>2, <1>3
<1>. HIDE DEF i
<1>5. /\ i + 2 <= BodyLength /\ original[i + 1] = ExtData(original[i].name)
      /\ original[i + 2].kind = "header"
  BY <1>2, <1>3, <1>4, OrderOfBlocks
<1>6. CASE pc = "long"
  <2>1. Behind = 1 /\ i = Reached
    BY <1>1, <1>3, <1>6 DEF i
  <2>. QED
    BY <1>2, <1>3, <1>4, <1>5, <1>6, <2>1
<1>7. CASE pc # "long"
  <2>1. Behind = 2 /\ i = Reached - 1 /\ i + 1 = Reached /\ i + 2 = Reached + 1
    BY <1>1, <1>3, <1>7 DEF i
  <2>2. Reached >= 2 /\ Reached + 1 \in 1 .. BodyLength
    BY <1>2, <1>3, <1>5, <2>1
  <2>. QED
    BY <1>2, <1>5, <1>7, <2>1, <2>2
<1>. QED
  BY <1>6, <1>7

LEMMA BehindTypes ==
  ASSUME Known, ~ Writing, Exact, Rewriting
  PROVE  Behind \in 0 .. 2 /\ Reached - Behind \in 0 .. BodyLength
         /\ UpTo[Reached - Behind] \in Seq(Plain)
<1>1. Behind \in 0 .. 2
  BY DEF Behind
<1>2. Reached \in Nat /\ Rest \in Nat /\ Reached + Rest <= BodyLength
      /\ BodyLength \in Nat /\ Archive
  BY ReachedFacts, KnownTypes
<1>3. long_name # Junk => Behind <= Reached
  BY DEF Exact, Copied, LongName
<1>4. Behind <= Reached
  BY <1>2, <1>3 DEF Behind
<1>5. Reached - Behind \in 0 .. BodyLength
  BY <1>1, <1>2, <1>4
<1>. QED
  BY <1>1, <1>2, <1>5, UpToType

(* Reading on when nothing is written.                                     *)
LEMMA CopiedOn ==
  ASSUME Known, Exact, [Next]_vars, Rewriting, Rewriting',
         UNCHANGED <<file, stdout, write_archive_to_stdout, records_skipped, records_written,
                     new_record, new_blocks, pending>>,
         LongName', UpTo[Reached' - Behind'] = UpTo[Reached - Behind]
  PROVE  Untouched' /\ Copied' /\ Ended' /\ Done'
<1>1. /\ ~ write_archive_to_stdout /\ InFile /\ LongName
      /\ \A i \in DOMAIN pending : pending[i].kind # "junk"
      /\ Cat(NonJunk(Output), pending) = UpTo[Reached - Behind]
  BY DEF Exact, Copied
<1>2. UpTo' = UpTo /\ acting_as_filter' = acting_as_filter
  BY RemainingKept
<1>3. Output' = Output /\ InFile' = InFile
  BY <1>2, OutputSame
<1>4. Cat(NonJunk(Output), pending)' = Cat(NonJunk(Output), pending)
  BY <1>3 DEF Cat, NonJunk, Chosen
<1>5. pc' \notin {"scan", "skip", "eot", "done"}
  BY DEF Rewriting
<1>6. Untouched' /\ Ended' /\ Done'
  BY <1>5 DEF Untouched, Ended, Done
<1>7. UpTo'[Reached' - Behind'] = UpTo[Reached - Behind]
  BY <1>2
<1>. QED
  BY <1>1, <1>3, <1>4, <1>6, <1>7 DEF Copied

(* A record is read while a member is read, or dropped, or copied.         *)
LEMMA ExactRecord ==
  ASSUME Known, ~ Writing, Exact, [Next]_vars,
         \/ Fetch /\ pc \notin {"scan", "skip"}
         \/ DropRecord \/ FetchData \/ (Loop /\ cur = end)
  PROVE  Exact'
<1>. DEFINE d == end - cur
<1>1. /\ Rewriting /\ Rewriting' /\ ReadRecord /\ found_count' = found_count
      /\ UNCHANGED <<file, write_archive_to_stdout, records_skipped, records_written,
                     new_record, new_blocks, pending, long_name>>
      /\ cur = end \/ (pc = "drop" /\ end - cur <= left)
      /\ left' = left - (IF pc = "drop" THEN d ELSE 0) \/ (cur = end /\ left' = left)
      /\ pc' = pc \/ (pc = "loop" /\ pc' = "read") \/ (pc = "data" /\ pc' = "copy")
  BY DEF Fetch, FetchRecord, FlushArchive, DropRecord, FetchData, FlushReadOnly, Loop,
         Rewriting, headers, copy, output
<1>2. stdout' = stdout
  <2>1. ~ write_archive_to_stdout
    BY <1>1 DEF Exact, Copied
  <2>. QED
    BY <2>1 DEF Fetch, PassOn, DropRecord, FetchData, Loop, output
<1>3. /\ Reached \in Nat /\ left \in Nat /\ cur \in Nat /\ end \in Nat /\ cur <= end
      /\ Rest \in Nat /\ Reached + Rest <= BodyLength /\ BodyLength \in Nat /\ Archive
  BY ReachedFacts, KnownTypes
<1>4. d \in Nat /\ (cur = end => d = 0) /\ (d # 0 => pc = "drop" /\ d <= left)
  BY <1>1, <1>3
<1>5. Reached' = Reached + d
  BY <1>1, ReachedRecord
<1>. HIDE DEF d
<1>6. left' \in Nat /\ left' = left - d
  BY <1>1, <1>3, <1>4
<1>7. Rest' \in Nat /\ Rest = d + Rest'
  BY <1>1, <1>3, <1>4, <1>6 DEF Rest
<1>8. \A i \in Reached + 1 .. Reached + d : original[i].kind = "data" /\ i \notin Staying
  <2>1. ASSUME NEW i \in Reached + 1 .. Reached + d
        PROVE  original[i].kind = "data" /\ i \notin Staying
    <3>1. pc = "drop" /\ i \in Reached + 1 .. Reached + left
      BY <1>3, <1>4
    <3>. QED
      BY <3>1 DEF Exact, Tracked, Coming, Within
  <2>. QED
    BY <2>1
<1>9. Tracked'
  <2>1. pc' \in Within => pc \in Within /\ (pc' = "drop" <=> pc = "drop")
    BY <1>1 DEF Within
  <2>2. \A i \in Reached + 1 .. Reached + d :
          original[i].kind # "header" /\ original[i].kind # "long"
    BY <1>8
  <2>3. Rest <= d + Rest' /\ Tracked
    BY <1>3, <1>7 DEF Exact
  <2>. QED
    BY <1>1, <1>4, <1>5, <1>6, <1>7, <2>1, <2>2, <2>3, TrackedPassed
<1>10. Behind' = Behind /\ (d # 0 => Behind = 0)
  <2>1. pc = "drop" => long_name = Junk
    BY KnownTypes DEF Accounted
  <2>2. (pc = "long") <=> (pc' = "long")
    BY <1>1
  <2>. QED
    BY <1>1, <1>4, <2>1, <2>2 DEF Behind
<1>11. Behind \in Nat /\ LongName
  BY <1>1, BehindTypes DEF Exact, Copied
<1>12. UpTo[Reached' - Behind'] = UpTo[Reached - Behind]
  <2>1. CASE d = 0
    <3>1. Reached' = Reached
      BY <1>3, <1>5, <2>1
    <3>. QED
      BY <1>10, <3>1
  <2>2. CASE d # 0
    <3>1. Reached + d <= BodyLength
      <4>1. Rest >= d
        BY <1>3, <1>4, <2>2 DEF Rest
      <4>. QED
        BY <1>3, <1>4, <4>1
    <3>2. UpTo[Reached + d] = UpTo[Reached]
      BY <1>3, <1>4, <1>8, <3>1, UpToGoes
    <3>3. (Reached + d) - 0 = Reached + d /\ Reached - 0 = Reached
      BY <1>3, <1>4
    <3>. QED
      BY <1>5, <1>10, <2>2, <3>2, <3>3, Zenon
  <2>. QED
    BY <2>1, <2>2
<1>13. LongName'
  <2>1. ASSUME long_name = Junk PROVE LongName'
    <3>1. long_name' = Junk /\ pc' # "long"
      BY <1>1, <1>11, <2>1 DEF LongName
    <3>. QED
      BY <3>1 DEF LongName
  <2>2. ASSUME long_name # Junk PROVE LongName'
    <3>1. d = 0
      BY <1>10, <2>2 DEF Behind
    <3>2. Reached' = Reached
      BY <1>3, <1>5, <3>1
    <3>3. original' = original /\ long_name' = long_name
      BY <1>1, RemainingKept
    <3>. QED
      BY <1>10, <1>11, <2>2, <3>2, <3>3 DEF LongName
  <2>. QED
    BY <2>1, <2>2
<1>14. Untouched' /\ Copied' /\ Ended' /\ Done'
  BY <1>1, <1>2, <1>12, <1>13, CopiedOn
<1>. QED
  BY <1>9, <1>14 DEF Exact

(* The rest of a member is dropped, or the loop goes on in this record.    *)
LEMMA ExactDropRest ==
  ASSUME Known, ~ Writing, Exact, [Next]_vars, DropRest \/ (Loop /\ cur # end)
  PROVE  Exact'
<1>. DEFINE d == IF pc = "drop" THEN left ELSE 0
<1>1. /\ pc \in {"drop", "loop"} /\ pc' \in {"loop", "read"}
      /\ UNCHANGED <<file, stdout, write_archive_to_stdout, records_skipped, records_written,
                     new_record, new_blocks, pending, long_name, found_count, records_read>>
      /\ (pc = "drop" => cur' = cur + left) /\ (pc = "loop" => cur' = cur)
  BY DEF DropRest, Loop, headers, output
<1>2. /\ Reached \in Nat /\ left \in Nat /\ cur \in Nat /\ Rest = d /\ Archive
      /\ Reached + Rest <= BodyLength /\ BodyLength \in Nat
      /\ Tracked /\ records_read > 0
  <2>1. records_read > 0
    BY <1>1, ReachedFacts
  <2>. QED
    BY <1>1, <2>1, ReachedFacts, KnownTypes DEF Exact, Rest
<1>3. d \in Nat /\ cur' = cur + d /\ (pc = "loop" => d = 0) /\ (pc = "drop" => d = left)
  BY <1>1, <1>2
<1>. HIDE DEF d
<1>4. Reached' = Reached + d
  BY <1>1, <1>2, <1>3, ReachedBy
<1>5. \A i \in Reached + 1 .. Reached + d : original[i].kind = "data" /\ i \notin Staying
  <2>1. ASSUME NEW i \in Reached + 1 .. Reached + d
        PROVE  original[i].kind = "data" /\ i \notin Staying
    <3>1. pc = "drop" /\ i \in Reached + 1 .. Reached + left
      BY <1>1, <1>2, <1>3
    <3>. QED
      BY <1>2, <3>1 DEF Tracked, Coming, Within
  <2>. QED
    BY <2>1
<1>6. Tracked'
  <2>1. pc' \notin Within /\ Rest' = 0
    BY <1>1 DEF Within, Rest
  <2>2. \A i \in Reached + 1 .. Reached + d :
          original[i].kind # "header" /\ original[i].kind # "long"
    BY <1>5
  <2>3. Rest <= d + Rest' /\ Rest' \in Nat
    BY <1>2, <1>3, <2>1
  <2>4. found_count' = found_count
    BY <1>1
  <2>. QED
    BY <1>2, <1>3, <1>4, <2>1, <2>2, <2>3, <2>4, TrackedPassed
<1>7. Rewriting /\ Rewriting'
  BY <1>1 DEF Rewriting
<1>8. Behind' = Behind /\ (pc = "drop" => Behind = 0 /\ long_name = Junk)
  <2>1. pc = "drop" => long_name = Junk
    BY KnownTypes DEF Accounted
  <2>. QED
    BY <1>1, <2>1 DEF Behind
<1>9. UpTo[Reached' - Behind'] = UpTo[Reached - Behind]
  <2>1. CASE pc = "loop"
    <3>1. Reached' = Reached
      BY <1>2, <1>3, <1>4, <2>1
    <3>. QED
      BY <1>8, <3>1
  <2>2. CASE pc = "drop"
    <3>1. UpTo[Reached + d] = UpTo[Reached]
      BY <1>2, <1>3, <1>5, UpToGoes
    <3>2. (Reached + d) - 0 = Reached + d /\ Reached - 0 = Reached
      BY <1>2, <1>3
    <3>. QED
      BY <1>4, <1>8, <2>2, <3>1, <3>2, Zenon
  <2>. QED
    BY <1>1, <2>1, <2>2
<1>10. LongName'
  <2>1. ASSUME long_name = Junk PROVE LongName'
    BY <1>1, <2>1 DEF LongName
  <2>2. ASSUME long_name # Junk PROVE LongName'
    <3>1. pc = "loop"
      BY <1>1, <1>8, <2>2
    <3>2. Reached' = Reached
      BY <1>2, <1>3, <1>4, <3>1
    <3>3. original' = original /\ long_name' = long_name /\ pc' # "long"
      BY <1>1, RemainingKept
    <3>4. LongName
      BY <1>7 DEF Exact, Copied
    <3>. QED
      BY <1>8, <2>2, <3>2, <3>3, <3>4 DEF LongName
  <2>. QED
    BY <2>1, <2>2
<1>11. Untouched' /\ Copied' /\ Ended' /\ Done'
  BY <1>1, <1>7, <1>9, <1>10, CopiedOn
<1>. QED
  BY <1>6, <1>11 DEF Exact

(* The header of the next member, or of its long name, or junk is read.    *)
LEMMA ExactReadOn ==
  ASSUME Known, ~ Writing, Exact, [Next]_vars, ReadExtension \/ ReadNonHeader
  PROVE  Exact'
<1>1. /\ pc = "read" /\ HasBlock /\ cur' = cur + 1 /\ pc' \in {"loop", "long", "pax"}
      /\ block.kind \in {"long", "pax", "data", "extdata", "junk"}
      /\ UNCHANGED <<file, stdout, write_archive_to_stdout, records_skipped, records_written,
                     new_record, new_blocks, pending, found_count, records_read>>
  BY DEF ReadExtension, ReadNonHeader, NextBlock, Reading, output, headers
<1>2. /\ records_read > 0 /\ block = original[Reached + 1] /\ block \in Plain
      /\ Reached + 1 \in 1 .. BodyLength
  BY <1>1, ReachedBlock
<1>3. /\ Reached \in Nat /\ BodyLength \in Nat /\ Archive /\ Tracked /\ Rest = 0
      /\ Rewriting
  BY <1>1, ReachedFacts, KnownTypes DEF Exact, Rest, Rewriting
<1>4. Reached' = Reached + 1
  BY <1>1, <1>2, ReachedBy
<1>5. long_name = Junk /\ Behind = 0
  <2>1. ASSUME long_name # Junk PROVE FALSE
    <3>1. original[Reached + 1].kind = "header"
      BY <1>1, <1>3, <2>1, LongNameFacts
    <3>. QED
      BY <1>1, <1>2, <3>1
  <2>. QED
    BY <2>1 DEF Behind
<1>6. (Reached + 1) - 1 = Reached /\ Reached - 0 = Reached
  BY <1>3
<1>7. CASE ReadExtension
  <2>1. block.kind = "long"
    BY <1>1, <1>2, <1>7 DEF ReadExtension, Plain
  <2>2. long_name' = block /\ pc' = "long"
    BY <1>7, <2>1 DEF ReadExtension
  <2>3. block # Junk
    BY <2>1 DEF Junk
  <2>4. Behind' = 1 /\ Rest' = 1
    BY <2>2, <2>3 DEF Behind, Rest, Within
  <2>5. Reached' - Behind' = Reached
    BY <1>4, <1>6, <2>4, Zenon
  <2>6. LongName'
    <3>1. original' = original
      BY RemainingKept
    <3>2. Behind' <= Reached'
      BY <1>3, <1>4, <2>4
    <3>3. original'[Reached' - Behind' + 1] = block
      BY <1>2, <2>5, <3>1
    <3>. QED
      BY <2>1, <2>2, <2>3, <3>2, <3>3 DEF LongName
  <2>7. Tracked'
    <3>1. pc' \notin Within
      BY <2>2 DEF Within
    <3>2. \A i \in Reached + 1 .. Reached + 1 :
            original[i].kind # "header" /\ i + 1 <= Reached + 1 + 1
      BY <1>2, <1>3, <2>1
    <3>3. Rest <= 1 + Rest' /\ Rest' \in Nat
      BY <1>3, <2>4
    <3>4. \A i \in Reached + 1 .. Reached + 1 :
            /\ original[i].kind # "header"
            /\ original[i].kind = "long" => i + 1 <= Reached + 1 + Rest'
      BY <2>4, <3>2
    <3>5. found_count' = found_count
      BY <1>1
    <3>. QED
      BY <1>3, <1>4, <3>1, <3>3, <3>4, <3>5, TrackedPassed
  <2>8. UpTo[Reached' - Behind'] = UpTo[Reached - Behind]
    BY <1>5, <1>6, <2>5, Zenon
  <2>9. Rewriting'
    BY <2>2 DEF Rewriting
  <2>10. Untouched' /\ Copied' /\ Ended' /\ Done'
    BY <1>1, <1>3, <2>6, <2>8, <2>9, CopiedOn
  <2>. QED
    BY <2>7, <2>10 DEF Exact
<1>8. CASE ReadNonHeader
  <2>1. /\ block.kind \in {"data", "extdata", "junk"} /\ pc' = "loop"
        /\ long_name' = long_name
    BY <1>8 DEF ReadNonHeader, headers
  <2>2. block.kind = "junk"
    BY <1>1, <1>3, <2>1, BetweenMembers
  <2>3. Behind' = 0 /\ Rest' = 0
    BY <1>5, <2>1 DEF Behind, Rest
  <2>4. UpTo[Reached + 1] = UpTo[Reached]
    <3>1. Reached + 1 \notin Staying
      BY <1>2, <2>2 DEF Staying
    <3>2. \A i \in Reached + 1 .. Reached + 1 : i \notin Staying
      BY <1>3, <3>1
    <3>3. Reached + 1 <= BodyLength
      BY <1>2, <1>3
    <3>. QED
      BY <1>3, <3>2, <3>3, UpToGoes
  <2>5. (Reached + 1) - 0 = Reached + 1
    BY <1>3
  <2>6. UpTo[Reached' - Behind'] = UpTo[Reached - Behind]
    BY <1>4, <1>5, <1>6, <2>3, <2>4, <2>5, Zenon
  <2>7. Tracked'
    <3>1. pc' \notin Within
      BY <2>1 DEF Within
    <3>2. \A i \in Reached + 1 .. Reached + 1 :
            original[i].kind # "header" /\ original[i].kind # "long"
      BY <1>2, <1>3, <2>2
    <3>3. Rest <= 1 + Rest' /\ Rest' \in Nat
      BY <1>3, <2>3
    <3>4. found_count' = found_count
      BY <1>1
    <3>. QED
      BY <1>3, <1>4, <3>1, <3>2, <3>3, <3>4, TrackedPassed
  <2>8. LongName' /\ Rewriting'
    BY <1>5, <2>1 DEF LongName, Rewriting
  <2>9. Untouched' /\ Copied' /\ Ended' /\ Done'
    BY <1>1, <1>3, <2>6, <2>8, CopiedOn
  <2>. QED
    BY <2>7, <2>9 DEF Exact
<1>. QED
  BY <1>7, <1>8

(* The name itself is read.                                                *)
LEMMA ExactExtensionData ==
  ASSUME Known, ~ Writing, Exact, [Next]_vars, ReadExtensionData
  PROVE  Exact'
<1>1. pc = "long"
  BY KnownTypes DEF ReadExtensionData, Accounted
<1>2. HasBlock
  BY ReachedFacts DEF ReadExtensionData, AtEof
<1>3. /\ cur' = cur + 1 /\ pc' = "read"
      /\ UNCHANGED <<file, stdout, write_archive_to_stdout, records_skipped, records_written,
                     new_record, new_blocks, pending, found_count, records_read, long_name>>
  BY <1>1, <1>2 DEF ReadExtensionData, Reading, output, headers
<1>4. /\ Reached \in Nat /\ BodyLength \in Nat /\ Archive /\ Tracked /\ Rest = 1
      /\ Rewriting /\ Rewriting' /\ records_read > 0
  BY <1>1, <1>2, <1>3, ReachedFacts, ReachedBlock, KnownTypes DEF Exact, Rest, Rewriting, Within
<1>5. Reached' = Reached + 1
  BY <1>3, <1>4, ReachedBy
<1>6. /\ long_name # Junk /\ long_name.kind = "long"
      /\ Behind = 1 /\ Reached >= 1
      /\ original[Reached] = long_name
      /\ original[Reached + 1] = ExtData(long_name.name)
  <2>1. long_name # Junk
    BY <1>1, <1>4 DEF Exact, Copied, LongName
  <2>. QED
    BY <1>1, <1>4, <2>1, LongNameFacts
<1>7. Behind' = 2 /\ Rest' = 0
  BY <1>3, <1>6 DEF Behind, Rest
<1>8. (Reached + 1) - 2 = Reached - 1 /\ (Reached - 1) + 1 = Reached /\ 2 <= Reached + 1
  BY <1>4, <1>6
<1>9. UpTo[Reached' - Behind'] = UpTo[Reached - Behind]
  BY <1>5, <1>6, <1>7, <1>8, Zenon
<1>10. LongName'
  <2>1. original' = original
    BY RemainingKept
  <2>2. Reached' - Behind' + 1 = Reached /\ Behind' <= Reached'
    BY <1>5, <1>7, <1>8, Zenon
  <2>3. original'[Reached' - Behind' + 1] = long_name
    BY <1>6, <2>1, <2>2
  <2>. QED
    BY <1>3, <1>6, <2>2, <2>3 DEF LongName
<1>11. Tracked'
  <2>1. pc' \notin Within
    BY <1>3 DEF Within
  <2>2. original[Reached + 1].kind = "extdata"
    BY <1>6 DEF ExtData
  <2>3. \A i \in Reached + 1 .. Reached + 1 :
          original[i].kind # "header" /\ original[i].kind # "long"
    BY <1>4, <2>2
  <2>4. Rest <= 1 + Rest' /\ Rest' \in Nat
    BY <1>4, <1>7
  <2>5. found_count' = found_count
    BY <1>3
  <2>. QED
    BY <1>4, <1>5, <2>1, <2>3, <2>4, <2>5, TrackedPassed
<1>12. Untouched' /\ Copied' /\ Ended' /\ Done'
  BY <1>3, <1>4, <1>9, <1>10, CopiedOn
<1>. QED
  BY <1>11, <1>12 DEF Exact

(* The header of a member that goes.                                       *)
LEMMA ExactReadDeleted ==
  ASSUME Known, ~ Writing, Exact, [Next]_vars, ReadDeleted
  PROVE  Exact'
<1>1. /\ pc = "read" /\ HasBlock /\ block.kind = "header"
      /\ cur' = cur + 1 /\ left' = block.size /\ pc' = "drop" /\ long_name' = Junk
      /\ UNCHANGED <<file, stdout, write_archive_to_stdout, records_skipped, records_written,
                     new_record, new_blocks, pending, records_read>>
  BY DEF ReadDeleted, Reading, output
<1>2. Goes(block.name) /\ Count(block.name)
  <2>1. EffectiveName(block) = block.name
    BY KnownTypes DEF EffectiveName, Accounted
  <2>. QED
    BY <2>1 DEF ReadDeleted
<1>3. /\ records_read > 0 /\ block = original[Reached + 1]
      /\ Reached + 1 \in 1 .. BodyLength
  BY <1>1, ReachedBlock
<1>4. /\ Reached \in Nat /\ BodyLength \in Nat /\ Archive /\ Tracked /\ Rest = 0
      /\ Rewriting /\ Rewriting'
  BY <1>1, ReachedFacts, KnownTypes DEF Exact, Rest, Rewriting
<1>5. Reached' = Reached + 1
  BY <1>1, <1>3, ReachedBy
<1>. DEFINE h == Reached + 1
<1>6. IsHeader(h) /\ h \in 1 .. BodyLength
  BY <1>1, <1>3 DEF IsHeader
<1>7. Rest' = block.size
  BY <1>1 DEF Rest
<1>8. Tracked' /\ ~ MemberStays(h)
  BY <1>1, <1>2, <1>3, <1>4, <1>5, <1>6, <1>7, TrackedHeader
<1>9. h \notin Staying
  BY <1>4, <1>6, <1>8, StayingMember
<1>10. UpTo[Reached + 1] = UpTo[Reached - Behind]
  <2>1. CASE long_name = Junk
    <3>1. \A i \in Reached + 1 .. Reached + 1 : i \notin Staying
      BY <1>4, <1>9
    <3>2. Reached + 1 <= BodyLength
      BY <1>3, <1>4
    <3>3. UpTo[Reached + 1] = UpTo[Reached]
      BY <1>4, <3>1, <3>2, UpToGoes
    <3>4. Reached - 0 = Reached /\ Behind = 0
      BY <1>4, <2>1 DEF Behind
    <3>. QED
      BY <3>3, <3>4, Zenon
  <2>2. CASE long_name # Junk
    <3>1. /\ Behind = 2 /\ Reached >= 2 /\ original[Reached - 1].kind = "long"
      BY <1>1, <1>4, <2>2, LongNameFacts
    <3>2. h > 2 /\ h - 2 = Reached - 1 /\ h - 1 = Reached
      BY <1>4, <3>1
    <3>3. h - 2 \notin Staying /\ h - 1 \notin Staying
      BY <1>4, <1>6, <1>8, <3>1, <3>2, StayingMember
    <3>. DEFINE c == Reached - 2
    <3>4. c \in Nat /\ c + 3 = Reached + 1 /\ c + 3 <= BodyLength
          /\ \A i \in c + 1 .. c + 3 : i = h - 2 \/ i = h - 1 \/ i = h
      BY <1>3, <1>4, <3>1
    <3>. HIDE DEF c, h
    <3>5. \A i \in c + 1 .. c + 3 : i \notin Staying
      BY <1>9, <3>3, <3>4
    <3>6. UpTo[c + 3] = UpTo[c]
      BY <1>4, <3>4, <3>5, UpToGoes
    <3>. QED
      BY <3>1, <3>4, <3>6 DEF c
  <2>. QED
    BY <2>1, <2>2
<1>11. Behind' = 0 /\ LongName'
  BY <1>1 DEF Behind, LongName
<1>12. (Reached + 1) - 0 = Reached + 1
  BY <1>4
<1>13. UpTo[Reached' - Behind'] = UpTo[Reached - Behind]
  BY <1>5, <1>10, <1>11, <1>12, Zenon
<1>14. Untouched' /\ Copied' /\ Ended' /\ Done'
  BY <1>1, <1>4, <1>11, <1>13, CopiedOn
<1>. QED
  BY <1>8, <1>14 DEF Exact

LEMMA SliceFacts ==
  ASSUME NEW B, NEW s \in Seq(B), NEW c \in Nat, NEW n \in Nat, c + n <= Len(s)
  PROVE  /\ SubSeq(s, c + 1, c + n) \in Seq(B) /\ Len(SubSeq(s, c + 1, c + n)) = n
         /\ \A j \in 1 .. n : SubSeq(s, c + 1, c + n)[j] = s[c + j]
<1>1. c + 1 \in Int /\ c + n \in Int /\ \A i \in c + 1 .. c + n : s[i] \in B
  <2>1. \A i \in c + 1 .. c + n : i \in 1 .. Len(s)
    BY LenProperties
  <2>. QED
    BY <2>1, ElementOfSeq
<1>2. /\ SubSeq(s, c + 1, c + n) \in Seq(B)
      /\ Len(SubSeq(s, c + 1, c + n))
           = IF c + 1 <= c + n THEN ((c + n) - (c + 1)) + 1 ELSE 0
      /\ \A i \in 1 .. ((c + n) - (c + 1)) + 1 :
           SubSeq(s, c + 1, c + n)[i] = s[(c + 1) + i - 1]
  BY <1>1, SubSeqProperties
<1>3. ((c + n) - (c + 1)) + 1 = n /\ \A i \in 1 .. n : (c + 1) + i - 1 = c + i
  OBVIOUS
<1>. QED
  BY <1>2, <1>3

LEMMA ThreeBlocks ==
  ASSUME NEW B, NEW u \in B, NEW v \in B, NEW w \in B
  PROVE  /\ Append(<<u, v>>, w) \in Seq(B) /\ Len(Append(<<u, v>>, w)) = 3
         /\ Append(<<u, v>>, w)[1] = u /\ Append(<<u, v>>, w)[2] = v
         /\ Append(<<u, v>>, w)[3] = w
<1>. DEFINE s == <<u, v>>
            t == Append(s, w)
<1>1. s \in Seq(B) /\ Len(s) = 2 /\ s[1] = u /\ s[2] = v
  OBVIOUS
<1>. HIDE DEF s
<1>2. t \in Seq(B) /\ Len(t) = Len(s) + 1
  BY <1>1, AppendProperties
<1>3. \A i \in 1 .. Len(s) : t[i] = s[i]
  <2>1. /\ Append(s, w) \in Seq(B)
        /\ Append(s, w) # << >>
        /\ Len(Append(s, w)) = Len(s)+1
        /\ \A i \in 1.. Len(s) : Append(s, w)[i] = s[i]
        /\ Append(s, w)[Len(s)+1] = w
    BY <1>1, AppendProperties, ZenonT(30)
  <2>. QED
    BY <2>1, Zenon
<1>4. t[Len(s) + 1] = w
  BY <1>1, AppendProperties, Zenon
<1>. HIDE DEF t
<1>5. t[1] = s[1] /\ t[2] = s[2] /\ t[3] = w /\ Len(t) = 3
  <2>1. 1 \in 1 .. Len(s) /\ 2 \in 1 .. Len(s) /\ Len(s) + 1 = 3
    BY <1>1
  <2>. QED
    BY <1>2, <1>3, <1>4, <2>1
<1>. QED
  BY <1>1, <1>2, <1>5 DEF s, t

(* The headers that are to be copied are those read last.                  *)
LEMMA PendingHeaders ==
  ASSUME Known, ~ Writing, Exact, pc = "read", HasBlock, block.kind = "header"
  PROVE  /\ Append(ExtensionsKept, block)
              = SubSeq(original, (Reached - Behind) + 1, Reached + 1)
         /\ \A j \in 1 .. Behind + 1 :
              original[(Reached - Behind) + j].kind \in {"long", "extdata", "header"}
<1>. DEFINE c == Reached - Behind
            n == Behind + 1
            t == SubSeq(original, c + 1, c + n)
            x == Append(ExtensionsKept, block)
<1>1. /\ block = original[Reached + 1] /\ Reached + 1 \in 1 .. BodyLength
      /\ block \in Plain
  BY ReachedBlock
<1>2. /\ Reached \in Nat /\ BodyLength \in Nat /\ Archive /\ Rewriting
      /\ BodyLength < Len(original) /\ Len(original) \in Nat
      /\ Behind \in 0 .. 2 /\ c \in 0 .. BodyLength
      /\ original \in Seq(Plain)
  BY ReachedFacts, KnownTypes, BehindTypes DEF Rewriting, Archive
<1>3. c \in Nat /\ n \in Nat /\ c + n = Reached + 1 /\ c + n <= Len(original)
  BY <1>1, <1>2
<1>. HIDE DEF c, n, t, x
<1>4. /\ t \in Seq(Plain) /\ Len(t) = n /\ \A j \in 1 .. n : t[j] = original[c + j]
  BY <1>2, <1>3, SliceFacts DEF t
<1>5. extended_header = Junk
  BY KnownTypes DEF Accounted
<1>6. /\ x \in Seq(Plain) /\ Len(x) = n /\ \A j \in 1 .. n : x[j] = original[c + j]
      /\ \A j \in 1 .. n : original[c + j].kind \in {"long", "extdata", "header"}
  <2>1. CASE long_name = Junk
    <3>1. x = <<block>>
      BY <1>5, <2>1 DEF x, ExtensionsKept, ExtensionBlocks
    <3>2. n = 1 /\ c + 1 = Reached + 1
      BY <1>2, <1>3, <2>1 DEF n, Behind
    <3>3. \A j \in 1 .. n : j = 1
      BY <3>2
    <3>. QED
      BY <1>1, <3>1, <3>2, <3>3
  <2>2. CASE long_name # Junk
    <3>1. /\ long_name.kind = "long" /\ Behind = 2 /\ Reached >= 2
          /\ original[Reached - 1] = long_name
          /\ original[Reached] = ExtData(long_name.name)
      BY <1>2, <2>2, LongNameFacts
    <3>2. x = Append(<<long_name, ExtData(long_name.name)>>, block)
      BY <1>5, <2>2 DEF x, ExtensionsKept, ExtensionBlocks
    <3>3. n = 3 /\ c + 1 = Reached - 1 /\ c + 2 = Reached /\ c + 3 = Reached + 1
      BY <1>2, <3>1 DEF n, c
    <3>4. \A j \in 1 .. n : j = 1 \/ j = 2 \/ j = 3
      BY <3>3
    <3>5. original[Reached - 1] \in Plain /\ original[Reached] \in Plain
      <4>1. Reached - 1 \in 1 .. Len(original) /\ Reached \in 1 .. Len(original)
        BY <1>1, <1>2, <3>1
      <4>. QED
        BY <1>2, <4>1, ElementOfSeq
    <3>6. ExtData(long_name.name).kind = "extdata"
      BY DEF ExtData
    <3>7. x \in Seq(Plain) /\ Len(x) = 3
          /\ x[1] = long_name /\ x[2] = ExtData(long_name.name) /\ x[3] = block
      <4>. DEFINE u == long_name
                  v == ExtData(long_name.name)
                  w == <<u, v>>
      <4>1. u \in Plain /\ v \in Plain
        BY <3>1, <3>5
      <4>. HIDE DEF u, v
      <4>2. x = Append(w, block)
        BY <3>2 DEF u, v
      <4>3. x \in Seq(Plain) /\ Len(x) = 3 /\ x[1] = u /\ x[2] = v /\ x[3] = block
        BY <1>1, <4>1, <4>2, ThreeBlocks
      <4>. QED
        BY <4>3 DEF u, v
    <3>8. /\ x[1] = original[c + 1] /\ x[2] = original[c + 2] /\ x[3] = original[c + 3]
          /\ original[c + 1].kind = "long" /\ original[c + 2].kind = "extdata"
          /\ original[c + 3].kind = "header"
      BY <1>1, <3>1, <3>3, <3>6, <3>7
    <3>. QED
      BY <3>3, <3>4, <3>7, <3>8
  <2>. QED
    BY <2>1, <2>2
<1>7. x = t
  BY <1>4, <1>6, SameSequence
<1>. QED
  BY <1>3, <1>6, <1>7 DEF x, t, c, n

(* The header of a member that stays: it and its long name are copied.     *)
LEMMA ExactReadKept ==
  ASSUME Known, ~ Writing, Exact, [Next]_vars, ReadKept
  PROVE  Exact'
<1>1. /\ pc = "read" /\ HasBlock /\ block.kind = "header"
      /\ cur' = cur + 1 /\ left' = block.size /\ pc' = "header" /\ long_name' = Junk
      /\ pending' = Append(ExtensionsKept, block)
      /\ UNCHANGED <<file, stdout, write_archive_to_stdout, records_skipped, records_written,
                     new_record, new_blocks, records_read>>
  BY DEF ReadKept, Reading, output
<1>2. ~ Goes(block.name) /\ Count(block.name)
  <2>1. EffectiveName(block) = block.name
    BY KnownTypes DEF EffectiveName, Accounted
  <2>. QED
    BY <2>1 DEF ReadKept
<1>3. /\ records_read > 0 /\ block = original[Reached + 1]
      /\ Reached + 1 \in 1 .. BodyLength
  BY <1>1, ReachedBlock
<1>4. /\ Reached \in Nat /\ BodyLength \in Nat /\ Archive /\ Tracked /\ Rest = 0
      /\ Rewriting /\ original \in Seq(Plain)
  BY <1>1, ReachedFacts, KnownTypes DEF Exact, Rest, Rewriting, Archive
<1>5. Reached' = Reached + 1
  BY <1>1, <1>3, ReachedBy
<1>. DEFINE h == Reached + 1
<1>6. IsHeader(h) /\ h \in 1 .. BodyLength
  BY <1>1, <1>3 DEF IsHeader
<1>7. Rest' = block.size
  BY <1>1 DEF Rest
<1>8. Tracked' /\ MemberStays(h)
  <2>1. pc' \in Within => (pc' = "drop" <=> Goes(original[h].name))
    BY <1>1, <1>2, <1>3
  <2>. QED
    BY <1>1, <1>2, <1>3, <1>4, <1>5, <1>6, <1>7, <2>1, TrackedHeader
<1>9. h \in Staying
  BY <1>4, <1>6, <1>8, StayingMember
<1>. DEFINE c == Reached - Behind
            n == Behind + 1
            t == SubSeq(original, c + 1, c + n)
<1>10. /\ Behind \in 0 .. 2 /\ c \in Nat /\ n \in Nat /\ c + n = Reached + 1
       /\ c + n <= BodyLength
  <2>1. Behind \in 0 .. 2 /\ c \in 0 .. BodyLength
    BY <1>4, BehindTypes
  <2>. QED
    BY <1>3, <1>4, <2>1
<1>11. /\ pending' = SubSeq(original, c + 1, Reached + 1)
       /\ \A j \in 1 .. n : original[c + j].kind \in {"long", "extdata", "header"}
  BY <1>1, PendingHeaders
<1>12. \A i \in c + 1 .. c + n : i \in Staying
  <2>1. CASE long_name = Junk
    <3>1. n = 1 /\ c = Reached
      BY <1>4, <2>1 DEF Behind
    <3>2. \A i \in c + 1 .. c + n : i = h
      BY <1>4, <3>1
    <3>. QED
      BY <1>9, <3>2
  <2>2. CASE long_name # Junk
    <3>1. /\ Behind = 2 /\ Reached >= 2 /\ original[Reached - 1].kind = "long"
      BY <1>1, <1>4, <2>2, LongNameFacts
    <3>2. h > 2 /\ h - 2 = Reached - 1 /\ h - 1 = Reached
      BY <1>4, <3>1
    <3>3. h - 2 \in Staying /\ h - 1 \in Staying
      BY <1>4, <1>6, <1>8, <3>1, <3>2, StayingMember
    <3>4. \A i \in c + 1 .. c + n : i = h - 2 \/ i = h - 1 \/ i = h
      BY <1>4, <3>1
    <3>. HIDE DEF c, h, n
    <3>. QED
      BY <1>9, <3>3, <3>4
  <2>. QED
    BY <2>1, <2>2
<1>. HIDE DEF c, n, h, t
<1>13. /\ t \in Seq(Plain) /\ UpTo[c + n] = Cat(UpTo[c], NonJunk(t))
  BY <1>4, <1>10, <1>12, UpToStays DEF t
<1>14. /\ Len(t) = n /\ \A j \in 1 .. n : t[j] = original[c + j]
  <2>1. c + n <= Len(original)
    BY <1>4, <1>10, BodyFacts
  <2>. QED
    BY <1>4, <1>10, <2>1, SliceFacts DEF t
<1>15. pending' = t
  BY <1>10, <1>11 DEF t
<1>16. NonJunk(t) = t
  <2>1. \A i \in 1 .. Len(t) : t[i].kind # "junk"
    BY <1>11, <1>14
  <2>. QED
    BY <1>13, <2>1, NonJunkFacts
<1>17. \A i \in DOMAIN pending' : pending'[i].kind # "junk"
  <2>1. DOMAIN t = 1 .. n
    BY <1>13, <1>14, LenProperties
  <2>. QED
    BY <1>11, <1>14, <1>15, <2>1
<1>18. NonJunk(Output) = UpTo[c]
  <2>1. pending = <<>> /\ InFile /\ Cat(NonJunk(Output), pending) = UpTo[c]
    BY <1>1, <1>4, KnownTypes DEF Accounted, Exact, Copied, c
  <2>2. NonJunk(Output) \in Seq(Plain)
    <3>1. Output \in Seq(Plain)
      BY <2>1, OutputTypes, KnownTypes
    <3>. QED
      BY <3>1, NonJunkFacts
  <2>3. Cat(NonJunk(Output), <<>>) = NonJunk(Output)
    BY <2>2, CatEmpty
  <2>. QED
    BY <2>1, <2>3
<1>19. UpTo' = UpTo /\ acting_as_filter' = acting_as_filter
  BY RemainingKept
<1>20. Output' = Output /\ InFile' = InFile
  BY <1>1, <1>19, OutputSame
<1>21. Cat(NonJunk(Output), pending)' = Cat(NonJunk(Output), t)
  BY <1>15, <1>20 DEF Cat, NonJunk, Chosen
<1>22. Behind' = 0 /\ LongName'
  BY <1>1 DEF Behind, LongName
<1>23. UpTo'[Reached' - Behind'] = UpTo[c + n]
  <2>1. (Reached + 1) - 0 = Reached + 1
    BY <1>4
  <2>. QED
    BY <1>5, <1>10, <1>19, <1>22, <2>1, Zenon
<1>24. Copied'
  <2>1. ~ write_archive_to_stdout' /\ InFile'
    BY <1>1, <1>4, <1>20 DEF Exact, Copied
  <2>2. Cat(NonJunk(Output), pending)' = UpTo'[Reached' - Behind']
    BY <1>13, <1>16, <1>18, <1>21, <1>23
  <2>. QED
    BY <1>17, <1>22, <2>1, <2>2 DEF Copied
<1>25. Untouched' /\ Ended' /\ Done'
  BY <1>1 DEF Untouched, Ended, Done
<1>. QED
  BY <1>8, <1>24, <1>25 DEF Exact

(* The end of the archive: all that is to remain was written.              *)
LEMMA ExactReadEnd ==
  ASSUME Known, ~ Writing, EotInv, Exact, [Next]_vars, ReadEnd
  PROVE  Exact'
<1>1. /\ pc = "read" /\ pc' = "eot" /\ zeros' = zeros
      /\ UNCHANGED <<file, stdout, records_skipped, records_written,
                     new_record, new_blocks, pending>>
  BY DEF ReadEnd, Reading, output
<1>2. HasBlock /\ block.kind = "zero"
  BY ReachedFacts DEF ReadEnd, AtEof
<1>3. /\ Reached = BodyLength /\ BodyLength \in Nat /\ Rewriting /\ Archive
  BY <1>1, <1>2, ReachedBlock, ReachedFacts, KnownTypes DEF Rewriting
<1>4. Behind = 0
  <2>1. ASSUME long_name # Junk PROVE FALSE
    <3>1. Reached + 1 \in 1 .. BodyLength
      BY <1>3, <2>1, LongNameFacts
    <3>. QED
      BY <1>3, <3>1
  <2>. QED
    BY <2>1 DEF Behind
<1>5. pending = <<>> /\ InFile /\ Cat(NonJunk(Output), pending) = UpTo[Reached - Behind]
  BY <1>1, <1>3, KnownTypes DEF Accounted, Exact, Copied
<1>6. UpTo[Reached - Behind] = Remaining
  <2>1. Reached - 0 = BodyLength
    BY <1>3
  <2>. QED
    BY <1>4, <2>1, Zenon DEF UpTo, Remaining
<1>7. NonJunk(Output) \in Seq(Plain)
  <2>1. Output \in Seq(Plain)
    BY <1>5, OutputTypes, KnownTypes
  <2>. QED
    BY <2>1, NonJunkFacts
<1>8. NonJunk(Output) = Remaining
  BY <1>5, <1>6, <1>7, CatEmpty
<1>9. zeros = 0 /\ Zeros(0) = <<>>
  BY DEF EotInv, Zeros
<1>10. Output' = Output /\ InFile' = InFile /\ Remaining' = Remaining
  <2>1. acting_as_filter' = acting_as_filter /\ Remaining' = Remaining
    BY RemainingKept
  <2>. QED
    BY <1>1, <2>1, OutputSame
<1>11. NonJunk(Output)' = Remaining
  BY <1>8, <1>10 DEF NonJunk, Chosen
<1>12. Cat(Remaining, Zeros(zeros))' = Remaining
  <2>1. Cat(Remaining, <<>>) = Remaining
    BY <1>7, <1>8, CatEmpty
  <2>2. Cat(Remaining, Zeros(zeros))' = Cat(Remaining, Zeros(0))
    BY <1>1, <1>9, <1>10 DEF Cat, Zeros
  <2>. QED
    BY <1>9, <2>1, <2>2
<1>13. Ended'
  BY <1>1, <1>5, <1>9, <1>10, <1>11, <1>12 DEF Ended
<1>14. Untouched' /\ Copied' /\ Done' /\ Writing'
  BY <1>1 DEF Untouched, Copied, Done, Rewriting, Writing
<1>. QED
  BY <1>13, <1>14 DEF Exact

(* The blocks x are written, or are ready to be.                           *)
LEMMA NonJunkPut ==
  ASSUME Known, ~ Writing, Exact, Rewriting, [Next]_vars,
         NEW x \in Seq(Plain), new_blocks + Len(x) <= BF,
         NEW r \in [Slots -> Plain], Extends(r, x), PutBlocks(r, new_blocks + Len(x))
  PROVE  /\ NonJunk(Output)' = Cat(NonJunk(Output), NonJunk(x)) /\ InFile'
         /\ NonJunk(Output) \in Seq(Plain) /\ NonJunk(x) \in Seq(Plain)
<1>1. /\ TypedWith(Plain) /\ Closed(Plain) /\ PositionedInv /\ Proper /\ InFile
      /\ acting_as_filter' = acting_as_filter
  BY KnownTypes, RemainingKept DEF Known, Exact, Copied
<1>2. acting_as_filter \/ fpos = BF * records_read
  BY <1>1, AtWholeRecord
<1>3. Output' = Cat(Output, x) /\ InFile'
  BY <1>1, <1>2, OutputPut
<1>4. Output \in Seq(Plain)
  BY <1>1, OutputTypes
<1>5. NonJunk(Output)' = NonJunk(Cat(Output, x))
  BY <1>3 DEF NonJunk, Chosen
<1>6. NonJunk(Cat(Output, x)) = Cat(NonJunk(Output), NonJunk(x))
  BY <1>4, NonJunkCat
<1>. QED
  BY <1>3, <1>4, <1>5, <1>6, NonJunkFacts

(* The next of the headers to copy.                                        *)
LEMMA HeadAndTail ==
  ASSUME NEW B, NEW s \in Seq(B), s # <<>>
  PROVE  /\ Head(s) \in B /\ Tail(s) \in Seq(B) /\ <<Head(s)>> \in Seq(B)
         /\ Len(<<Head(s)>>) = 1 /\ <<Head(s)>>[1] = s[1] /\ Head(s) = s[1]
         /\ 1 \in DOMAIN s
         /\ \A i \in DOMAIN Tail(s) : i + 1 \in DOMAIN s /\ Tail(s)[i] = s[i + 1]
         /\ Cat(<<Head(s)>>, Tail(s)) = s
<1>. DEFINE h == <<Head(s)>>
            t == Tail(s)
            m == Len(s)
<1>1. /\ Head(s) \in B /\ t \in Seq(B) /\ Head(s) = s[1]
      /\ Len(t) = m - 1 /\ m \in Nat \ {0}
  BY HeadTailProperties, EmptySeq
<1>2. /\ h \in Seq(B) /\ Len(h) = 1 /\ h[1] = s[1]
  BY <1>1
<1>3. DOMAIN s = 1 .. m /\ DOMAIN t = 1 .. m - 1
  BY <1>1, LenProperties
<1>4. \A i \in 1 .. m - 1 : t[i] = s[i + 1]
  BY <1>1, HeadTailProperties, LenProperties
<1>. HIDE DEF h, t, m
<1>5. /\ Cat(h, t) \in Seq(B) /\ Len(Cat(h, t)) = 1 + (m - 1)
      /\ \A i \in 1 .. 1 : Cat(h, t)[i] = h[i]
      /\ \A i \in 1 .. m - 1 : Cat(h, t)[1 + i] = t[i]
  <2>. DEFINE n == m - 1
              k == 1
  <2>1. Len(t) = n /\ Len(h) = k /\ h \in Seq(B) /\ t \in Seq(B)
    BY <1>1, <1>2
  <2>. HIDE DEF n, k
  <2>2. Cat(h, t) \in Seq(B) /\ Len(Cat(h, t)) = k + n
    BY <2>1, CatOf
  <2>3. ASSUME NEW i \in 1 .. k PROVE Cat(h, t)[i] = h[i]
    BY <2>1, CatOf
  <2>4. ASSUME NEW i \in 1 .. n PROVE Cat(h, t)[k + i] = t[i]
    BY <2>1, CatOf
  <2>. QED
    BY <2>2, <2>3, <2>4 DEF n, k
<1>6. ASSUME NEW i \in 1 .. m PROVE Cat(h, t)[i] = s[i]
  <2>1. CASE i = 1
    BY <1>2, <1>5, <2>1
  <2>2. CASE i # 1
    <3>1. i - 1 \in 1 .. m - 1 /\ 1 + (i - 1) = i /\ (i - 1) + 1 = i
      BY <1>1, <2>2
    <3>. QED
      BY <1>4, <1>5, <3>1
  <2>. QED
    BY <2>1, <2>2
<1>7. Cat(h, t) = s
  <2>1. Len(Cat(h, t)) = m /\ Len(s) = m
    BY <1>1, <1>5 DEF m
  <2>. QED
    BY <1>5, <1>6, <2>1, SameSequence
<1>8. \A i \in DOMAIN t : i + 1 \in DOMAIN s /\ t[i] = s[i + 1]
  BY <1>1, <1>3, <1>4
<1>. QED
  BY <1>1, <1>2, <1>3, <1>7, <1>8 DEF h, t

LEMMA ExactCopyHeader ==
  ASSUME Known, ~ Writing, Exact, [Next]_vars, CopyHeader
  PROVE  Exact'
<1>. DEFINE x == <<Head(pending)>>
            r == [new_record EXCEPT ![new_blocks] = Head(pending)]
<1>1. /\ pc = "header" /\ pc' \in {"header", "data", "loop"} /\ (pc' = "loop" => ~ (left > 0))
      /\ PutBlocks(r, new_blocks + 1) /\ pending' = Tail(pending)
      /\ UNCHANGED <<cur, left, records_read, found_count, long_name,
                     write_archive_to_stdout>>
  BY DEF CopyHeader, PutBlocks, headers
<1>2. TypedWith(Plain) /\ Closed(Plain) /\ Accounted
  BY KnownTypes
<1>3. /\ pending \in Seq(Plain) /\ pending # <<>> /\ new_blocks \in 0 .. BF - 1
      /\ BF \in Nat \ {0} /\ new_record \in [Slots -> Plain] /\ Slots = 0 .. BF - 1
  BY <1>1, <1>2, ArchiveFileAssumption DEF TypedWith, CopyTyped, OutputTyped, Slots
<1>4. /\ Head(pending) \in Plain /\ Tail(pending) \in Seq(Plain) /\ x \in Seq(Plain)
      /\ Len(x) = 1 /\ x[1] = pending[1] /\ Head(pending) = pending[1] /\ 1 \in DOMAIN pending
      /\ \A i \in DOMAIN Tail(pending) :
           i + 1 \in DOMAIN pending /\ Tail(pending)[i] = pending[i + 1]
      /\ Cat(x, Tail(pending)) = pending
  BY <1>3, HeadAndTail
<1>5. r \in [Slots -> Plain] /\ Extends(r, x)
  <2>1. r \in [Slots -> Plain] /\ r[new_blocks] = Head(pending)
        /\ \A k \in 0 .. new_blocks - 1 : r[k] = new_record[k]
    BY <1>3, <1>4
  <2>2. \A j \in 1 .. Len(x) : j = 1 /\ new_blocks + j - 1 = new_blocks
    BY <1>3, <1>4
  <2>. HIDE DEF r, x
  <2>. QED
    BY <1>4, <2>1, <2>2 DEF Extends
<1>. HIDE DEF r, x
<1>6. Rewriting /\ Rewriting'
  BY <1>1 DEF Rewriting
<1>7. /\ NonJunk(Output)' = Cat(NonJunk(Output), NonJunk(x)) /\ InFile'
      /\ NonJunk(Output) \in Seq(Plain)
  <2>1. PutBlocks(r, new_blocks + Len(x)) /\ new_blocks + Len(x) <= BF
    BY <1>1, <1>3, <1>4
  <2>. QED
    BY <1>4, <1>5, <1>6, <2>1, NonJunkPut
<1>8. /\ \A i \in DOMAIN pending : pending[i].kind # "junk"
      /\ Cat(NonJunk(Output), pending) = UpTo[Reached - Behind]
      /\ ~ write_archive_to_stdout
  BY <1>6 DEF Exact, Copied
<1>9. NonJunk(x) = x
  <2>1. \A i \in 1 .. Len(x) : x[i].kind # "junk"
    <3>1. \A i \in 1 .. Len(x) : i = 1
      BY <1>4
    <3>. QED
      BY <1>4, <1>8, <3>1
  <2>. QED
    BY <1>4, <2>1, NonJunkFacts
<1>10. Cat(NonJunk(Output), pending)' = Cat(NonJunk(Output), pending)
  <2>1. Cat(Cat(NonJunk(Output), x), Tail(pending))
          = Cat(NonJunk(Output), Cat(x, Tail(pending)))
    <3>. DEFINE N == NonJunk(Output)
                T == Tail(pending)
    <3>1. N \in Seq(Plain) /\ x \in Seq(Plain) /\ T \in Seq(Plain)
      BY <1>4, <1>7
    <3>. HIDE DEF N, T
    <3>2. Cat(Cat(N, x), T) = Cat(N, Cat(x, T))
      BY <3>1, CatAssociative
    <3>. QED
      BY <3>2 DEF N, T
  <2>2. Cat(NonJunk(Output), pending)' = Cat(Cat(NonJunk(Output), x), Tail(pending))
    BY <1>1, <1>7, <1>9 DEF Cat
  <2>. QED
    BY <1>4, <2>1, <2>2
<1>11. Reached' = Reached /\ long_name = Junk /\ long_name' = Junk
  BY <1>1, <1>2, ReachedSame DEF Accounted
<1>12. Behind' = Behind /\ LongName' /\ UpTo' = UpTo
  <2>1. UpTo' = UpTo
    BY RemainingKept
  <2>. QED
    BY <1>1, <1>11, <2>1 DEF Behind, LongName
<1>13. \A i \in DOMAIN pending' : pending'[i].kind # "junk"
  BY <1>1, <1>4, <1>8
<1>14. UpTo'[Reached' - Behind'] = UpTo[Reached - Behind]
  BY <1>11, <1>12, Zenon
<1>15. Copied'
  BY <1>1, <1>7, <1>8, <1>10, <1>12, <1>13, <1>14 DEF Copied
<1>16. Tracked'
  <2>1. /\ left \in Nat /\ Reached \in Nat /\ Rest = left /\ Tracked
    BY <1>1, ReachedFacts DEF Rest, Exact
  <2>2. Rest' = left
    BY <1>1, <2>1 DEF Rest
  <2>3. Reached' = Reached + 0 /\ left' = left - 0 /\ left' \in Nat /\ found_count' = found_count
    BY <1>1, <1>11, <2>1
  <2>4. Rest <= 0 + Rest' /\ Rest' \in Nat
    BY <2>1, <2>2
  <2>5. pc \in Within /\ (pc' = "drop" <=> pc = "drop")
    BY <1>1 DEF Within
  <2>6. \A i \in Reached + 1 .. Reached + 0 : FALSE
    BY <2>1
  <2>. QED
    BY <2>1, <2>3, <2>4, <2>5, <2>6, TrackedPassed
<1>17. Untouched' /\ Ended' /\ Done'
  BY <1>1 DEF Untouched, Ended, Done
<1>. QED
  BY <1>15, <1>16, <1>17 DEF Exact

(* Data of a member that stays.                                            *)
LEMMA ExactCopyData ==
  ASSUME Known, ~ Writing, Exact, [Next]_vars, CopyData
  PROVE  Exact'
<1>. DEFINE n == CopyCount
            c == Reached
            x == SubSeq(original, c + 1, c + n)
            r == [k \in Slots |->
                   IF k \in new_blocks .. new_blocks + n - 1
                   THEN record[cur + (k - new_blocks)] ELSE new_record[k]]
<1>1. /\ pc \in {"data", "copy"} /\ pc' = IF left' > 0 THEN "data" ELSE "loop"
      /\ PutBlocks(r, new_blocks + n) /\ cur' = cur + n /\ left' = left - n
      /\ UNCHANGED <<pending, records_read, found_count, long_name, write_archive_to_stdout>>
  BY DEF CopyData, Copying, PutBlocks, headers
<1>2. TypedWith(Plain) /\ Closed(Plain) /\ Accounted /\ PositionedInv /\ Ends # {}
  BY KnownTypes
<1>3. /\ new_blocks \in 0 .. BF - 1 /\ Slots = 0 .. BF - 1
      /\ record \in [Slots -> Plain] /\ new_record \in [Slots -> Plain]
  BY <1>2 DEF TypedWith, OutputTyped, ReaderTyped, Slots
<1>4. /\ BF \in Nat \ {0} /\ cur \in 0 .. BF /\ end \in 0 .. BF /\ left \in Nat /\ cur <= end
      /\ c \in Nat /\ c + Rest <= BodyLength /\ BodyLength \in Nat /\ Rest = left
      /\ Archive /\ Tracked /\ records_read > 0 /\ Rewriting /\ Rewriting'
      /\ BodyLength < Len(original) /\ Len(original) \in Nat /\ original \in Seq(Plain)
  BY <1>1, ReachedFacts, KnownTypes DEF Rest, Exact, Rewriting, Archive
<1>5. n \in 1 .. BF - new_blocks /\ n <= kept /\ kept = Lesser(end - cur, left)
  <2>1. n \in 1 .. BF - new_blocks /\ n <= kept
    BY <1>2, CopyCountRange
  <2>2. Ready
    BY <1>1, <1>2 DEF PositionedInv, Positioned, Writing, Finished
  <2>. QED
    BY <1>1, <2>1, <2>2 DEF Ready
<1>6. n \in Nat /\ n <= end - cur /\ n <= left
  BY <1>4, <1>5 DEF Lesser
<1>7. c + n <= BodyLength /\ c + n <= Len(original)
  BY <1>4, <1>6
<1>. HIDE DEF n
<1>8. /\ x \in Seq(Plain) /\ Len(x) = n /\ \A j \in 1 .. n : x[j] = original[c + j]
  BY <1>4, <1>6, <1>7, SliceFacts
<1>9. \A i \in c + 1 .. c + n : original[i].kind = "data" /\ i \in Staying
  <2>1. \A i \in c + 1 .. c + left : original[i].kind = "data" /\ i \in Staying
    BY <1>1, <1>4 DEF Tracked, Coming, Within
  <2>2. \A i \in c + 1 .. c + n : i \in c + 1 .. c + left
    BY <1>4, <1>6
  <2>. QED
    BY <2>1, <2>2
<1>10. UpTo[c + n] = Cat(UpTo[c], NonJunk(x))
  <2>1. \A i \in c + 1 .. c + n : original[i].kind = "junk" \/ i \in Staying
    BY <1>9
  <2>. QED
    BY <1>4, <1>6, <1>7, <2>1, UpToStays
<1>11. r \in [Slots -> Plain] /\ Extends(r, x)
  <2>1. \A j \in 1 .. n : cur + (j - 1) \in 0 .. end - 1 /\ cur + (j - 1) \in Slots
    BY <1>3, <1>4, <1>6
  <2>2. ASSUME NEW k \in Slots PROVE r[k] \in Plain
    <3>1. CASE k \in new_blocks .. new_blocks + n - 1
      <4>1. /\ k - new_blocks + 1 \in 1 .. n
            /\ cur + ((k - new_blocks + 1) - 1) = cur + (k - new_blocks)
        BY <1>3, <1>4, <1>6, <3>1
      <4>2. cur + (k - new_blocks) \in Slots
        BY <2>1, <4>1
      <4>. QED
        BY <1>3, <3>1, <4>2
    <3>2. CASE k \notin new_blocks .. new_blocks + n - 1
      BY <1>3, <3>2
    <3>. QED
      BY <3>1, <3>2
  <2>3. ASSUME NEW k \in 0 .. new_blocks - 1 PROVE r[k] = new_record[k]
    <3>1. k \in Slots /\ k \notin new_blocks .. new_blocks + n - 1
      BY <1>3, <1>4
    <3>. QED
      BY <3>1
  <2>4. ASSUME NEW j \in 1 .. n PROVE r[new_blocks + j - 1] = x[j]
    <3>1. /\ new_blocks + j - 1 \in Slots
          /\ new_blocks + j - 1 \in new_blocks .. new_blocks + n - 1
          /\ cur + ((new_blocks + j - 1) - new_blocks) = cur + (j - 1)
      BY <1>3, <1>4, <1>5
    <3>2. r[new_blocks + j - 1] = record[cur + (j - 1)]
      BY <3>1
    <3>3. record[cur + (j - 1)] = original[c - cur + (cur + (j - 1)) + 1]
      BY <1>4, <2>1, RecordIsOriginal
    <3>4. c - cur + (cur + (j - 1)) + 1 = c + j
      BY <1>4
    <3>. HIDE DEF r, x, c
    <3>. QED
      BY <1>8, <3>2, <3>3, <3>4
  <2>5. r \in [Slots -> Plain]
    BY <2>2
  <2>. HIDE DEF r, x
  <2>. QED
    BY <1>8, <2>3, <2>4, <2>5 DEF Extends
<1>. HIDE DEF r, x, c
<1>12. /\ NonJunk(Output)' = Cat(NonJunk(Output), NonJunk(x)) /\ InFile'
       /\ NonJunk(Output) \in Seq(Plain) /\ NonJunk(x) \in Seq(Plain)
  <2>1. PutBlocks(r, new_blocks + Len(x)) /\ new_blocks + Len(x) <= BF
    BY <1>1, <1>3, <1>4, <1>5, <1>8
  <2>. QED
    BY <1>4, <1>8, <1>11, <2>1, NonJunkPut
<1>13. pending = <<>> /\ pending' = <<>> /\ long_name = Junk /\ long_name' = Junk
  BY <1>1, <1>2 DEF Accounted
<1>14. Behind = 0 /\ Behind' = 0 /\ LongName'
  BY <1>1, <1>13 DEF Behind, LongName
<1>15. Reached' = c + n
  BY <1>1, <1>4, <1>6, ReachedBy DEF c
<1>16. NonJunk(Output) = UpTo[c]
  <2>1. Cat(NonJunk(Output), pending) = UpTo[Reached - Behind]
    BY <1>4 DEF Exact, Copied
  <2>2. Reached - 0 = c
    BY <1>4 DEF c
  <2>3. UpTo[Reached - Behind] = UpTo[c]
    BY <1>14, <2>2, Zenon
  <2>4. Cat(NonJunk(Output), <<>>) = NonJunk(Output)
    BY <1>12, CatEmpty
  <2>. QED
    BY <1>13, <2>1, <2>3, <2>4
<1>17. Cat(NonJunk(Output), pending)' = UpTo[c + n]
  <2>. DEFINE M == Cat(NonJunk(Output), NonJunk(x))
  <2>1. Cat(NonJunk(Output), pending)' = Cat(M, <<>>)
    BY <1>12, <1>13 DEF Cat
  <2>2. M \in Seq(Plain)
    BY <1>12, CatFacts
  <2>. HIDE DEF M
  <2>3. Cat(M, <<>>) = M
    BY <2>2, CatEmpty
  <2>. QED
    BY <1>10, <1>16, <2>1, <2>3 DEF M
<1>18. UpTo' = UpTo /\ UpTo'[Reached' - Behind'] = UpTo[c + n]
  <2>1. UpTo' = UpTo
    BY RemainingKept
  <2>2. (c + n) - 0 = c + n
    BY <1>4, <1>6
  <2>. QED
    BY <1>14, <1>15, <2>1, <2>2, Zenon
<1>19. Copied'
  <2>1. ~ write_archive_to_stdout'
    BY <1>1, <1>4 DEF Exact, Copied
  <2>2. \A i \in DOMAIN pending' : pending'[i].kind # "junk"
    BY <1>13
  <2>. QED
    BY <1>12, <1>14, <1>17, <1>18, <2>1, <2>2 DEF Copied
<1>20. Tracked'
  <2>1. left' \in Nat /\ left' = left - n /\ found_count' = found_count /\ Reached' = Reached + n
    BY <1>1, <1>4, <1>6, <1>15 DEF c
  <2>2. Rest' = left'
    BY <1>1, <2>1 DEF Rest
  <2>3. Rest <= n + Rest' /\ Rest' \in Nat
    BY <1>4, <1>6, <2>1, <2>2
  <2>4. pc' \in Within => pc \in Within /\ (pc' = "drop" <=> pc = "drop")
    BY <1>1 DEF Within
  <2>5. \A i \in Reached + 1 .. Reached + n :
          original[i].kind # "header" /\ original[i].kind # "long"
    BY <1>9 DEF c
  <2>. QED
    BY <1>4, <1>6, <2>1, <2>3, <2>4, <2>5, TrackedPassed
<1>21. Untouched' /\ Ended' /\ Done'
  BY <1>1 DEF Untouched, Ended, Done
<1>. QED
  BY <1>19, <1>20, <1>21 DEF Exact

(* The end of the archive before anything went.                            *)
LEMMA ExactScanEnd ==
  ASSUME Known, ~ Writing, Exact, [Next]_vars, ScanEnd
  PROVE  Exact'
<1>1. /\ pc = "scan" /\ pc' = "done" /\ UNCHANGED <<file, records_written>>
  BY DEF ScanEnd, Passed, output
<1>2. HasBlock /\ block.kind = "zero"
  BY ReachedFacts DEF ScanEnd, AtEof
<1>3. /\ Reached = BodyLength /\ BodyLength \in Nat /\ Archive
      /\ BodyLength < Len(original) /\ Len(original) \in Nat /\ original \in Seq(Plain)
  BY <1>2, ReachedBlock, ReachedFacts, KnownTypes DEF Archive
<1>4. records_written = 0 /\ file = original
      /\ \A i \in 1 .. Reached : original[i].kind = "junk" \/ i \in Staying
  BY <1>1, KnownTypes DEF Accounted, Exact, Untouched
<1>5. Remaining = NonJunk(SubSeq(original, 1, BodyLength))
  <2>. DEFINE c == 0
              n == BodyLength
              t == SubSeq(original, c + 1, c + n)
  <2>1. /\ c \in Nat /\ n \in Nat /\ c + n = n /\ c + n <= BodyLength
        /\ \A i \in c + 1 .. c + n : original[i].kind = "junk" \/ i \in Staying
    BY <1>3, <1>4
  <2>2. UpTo[c] = <<>>
    <3>1. 0 \in 0 .. Len(original)
      BY <1>3
    <3>. QED
      BY <1>3, <3>1, ChosenStep DEF UpTo
  <2>3. t = SubSeq(original, 1, BodyLength)
    BY <1>3
  <2>. HIDE DEF c, n, t
  <2>4. t \in Seq(Plain) /\ UpTo[c + n] = Cat(UpTo[c], NonJunk(t))
    BY <1>3, <2>1, UpToStays DEF t
  <2>5. Cat(<<>>, NonJunk(t)) = NonJunk(t)
    BY <2>4, NonJunkFacts, CatEmpty
  <2>6. Remaining = UpTo[c + n]
    BY <2>1, Zenon DEF Remaining, UpTo, n
  <2>. QED
    BY <2>2, <2>3, <2>4, <2>5, <2>6
<1>6. Done'
  <2>1. original' = original /\ Remaining' = Remaining /\ BodyLength' = BodyLength
    BY RemainingKept
  <2>2. NonJunk(SubSeq(original, 1, BodyLength))' = NonJunk(SubSeq(original, 1, BodyLength))
    BY <2>1 DEF NonJunk, Chosen
  <2>3. file' = original' /\ records_written' = 0
    BY <1>1, <1>4, <2>1
  <2>. QED
    BY <1>5, <2>1, <2>2, <2>3 DEF Done
<1>7. Untouched' /\ Copied' /\ Ended' /\ Writing'
  BY <1>1 DEF Untouched, Copied, Ended, Rewriting, Writing, Finished
<1>. QED
  BY <1>6, <1>7 DEF Exact

LEMMA CatAt ==
  ASSUME NEW B, NEW s \in Seq(B), NEW t \in Seq(B), NEW m, Len(s) = m, NEW i \in 1 .. m
  PROVE  Cat(s, t)[i] = s[i]
BY CatElements

LEMMA CatBehind ==
  ASSUME NEW B, NEW s \in Seq(B), NEW t \in Seq(B), NEW m \in Nat, NEW n \in Nat,
         Len(s) = m, Len(t) = n, NEW i \in 1 .. n
  PROVE  Cat(s, t)[m + i] = t[i]
<1>1. i \in 1 .. Len(t)
  OBVIOUS
<1>2. Cat(s, t)[Len(s) + i] = t[i]
  BY <1>1, ConcatProperties DEF Cat
<1>. QED
  BY <1>2

LEMMA ZerosFacts ==
  ASSUME NEW B, Zero \in B, NEW m \in Nat, NEW n \in Nat
  PROVE  /\ Zeros(m) \in Seq(B) /\ Len(Zeros(m)) = m
         /\ NonJunk(Zeros(m)) = Zeros(m)
         /\ Cat(Zeros(m), Zeros(n)) = Zeros(m + n)
<1>1. ASSUME NEW k \in Nat
      PROVE  Zeros(k) \in Seq(B) /\ Len(Zeros(k)) = k /\ \A i \in 1 .. k : Zeros(k)[i] = Zero
  BY DEF Zeros
<1>2. NonJunk(Zeros(m)) = Zeros(m)
  <2>. DEFINE s == Zeros(m)
  <2>1. s \in Seq(B) /\ Len(s) = m /\ \A i \in 1 .. m : s[i] = Zero
    BY <1>1
  <2>2. Zero.kind # "junk"
    BY DEF Zero
  <2>. HIDE DEF s
  <2>3. \A i \in 1 .. Len(s) : s[i].kind # "junk"
    BY <2>1, <2>2
  <2>4. NonJunk(s) = s
    BY <2>1, <2>3, NonJunkFacts
  <2>. QED
    BY <2>4 DEF s
<1>3. Cat(Zeros(m), Zeros(n)) = Zeros(m + n)
  <2>. DEFINE s == Zeros(m)
              t == Zeros(n)
              u == Cat(s, t)
              v == Zeros(m + n)
  <2>1. /\ s \in Seq(B) /\ Len(s) = m /\ \A i \in 1 .. m : s[i] = Zero
        /\ t \in Seq(B) /\ Len(t) = n /\ \A i \in 1 .. n : t[i] = Zero
    BY <1>1
  <2>2. v \in Seq(B) /\ Len(v) = m + n /\ \A i \in 1 .. m + n : v[i] = Zero
    <3>1. m + n \in Nat
      OBVIOUS
    <3>. QED
      BY <1>1, <3>1
  <2>. HIDE DEF s, t, v
  <2>3. u \in Seq(B) /\ Len(u) = m + n
    BY <2>1, CatOf
  <2>4. ASSUME NEW i \in 1 .. m PROVE u[i] = s[i]
    BY <2>1, CatAt
  <2>5. ASSUME NEW i \in 1 .. n PROVE u[m + i] = t[i]
    <3>1. Cat(s, t)[m + i] = t[i]
      BY <2>1, CatBehind
    <3>. QED
      BY <3>1
  <2>. HIDE DEF u
  <2>6. ASSUME NEW i \in 1 .. m + n PROVE u[i] = v[i]
    <3>1. CASE i <= m
      <4>1. i \in 1 .. m
        BY <3>1
      <4>. QED
        BY <2>1, <2>2, <2>4, <4>1
    <3>2. CASE i > m
      <4>1. i - m \in 1 .. n /\ m + (i - m) = i
        BY <3>2
      <4>2. u[m + (i - m)] = t[i - m]
        BY <2>5, <4>1
      <4>. QED
        BY <2>1, <2>2, <4>1, <4>2
    <3>. QED
      BY <3>1, <3>2
  <2>7. u = v
    BY <2>2, <2>3, <2>6, SameSequence
  <2>. QED
    BY <2>7 DEF u, s, t, v
<1>. QED
  BY <1>1, <1>2, <1>3

(* write_eot: the rest of new_record, and then records of zeros.           *)
LEMMA ExactWriteEot ==
  ASSUME Known, EotInv, Exact, [Next]_vars, WriteEot
  PROVE  Exact'
<1>. DEFINE r == [k \in Slots |-> IF k < new_blocks THEN new_record[k] ELSE Zero]
            m == zeros' < ZerosWanted
            k == BF - new_blocks
            N == NonJunk(Output)
<1>1. /\ pc = "eot" /\ pc' = "eot" /\ zeros < ZerosWanted /\ zeros' = zeros + k
      /\ WriteRecord(r, m) /\ new_blocks' = 0
      /\ UNCHANGED <<acting_as_filter, records_skipped>>
      /\ records_written' = records_written + 1
  BY RemainingKept DEF WriteEot, WriteRecord
<1>2. /\ TypedWith(Plain) /\ Closed(Plain) /\ Proper /\ InFile /\ Zero \in Plain
      /\ N = Cat(Remaining, Zeros(zeros)) /\ zeros \in Nat /\ Archive
  <2>1. TypedWith(Plain) /\ Closed(Plain) /\ Proper /\ Archive
    BY KnownTypes DEF Known
  <2>2. zeros \in Nat /\ Zero \in Plain
    BY <2>1 DEF TypedWith, OutputTyped, Closed, HasBlanks
  <2>. QED
    BY <1>1, <2>1, <2>2 DEF Exact, Ended
<1>3. /\ Written \in Seq(Plain) /\ Waiting \in Seq(Plain) /\ Output \in Seq(Plain)
      /\ Len(Waiting) = new_blocks /\ BF \in Nat \ {0} /\ new_blocks \in 0 .. BF - 1
      /\ new_record \in [Slots -> Plain] /\ Slots = 0 .. BF - 1 /\ records_written \in Nat
  BY <1>2, OutputTypes DEF Slots
<1>4. acting_as_filter \/ fpos = BF * records_read
  BY <1>1, <1>2 DEF EotInv, AtEot
<1>5. r \in [Slots -> Plain] /\ m \in BOOLEAN
  <2>1. m \in BOOLEAN
    OBVIOUS
  <2>. QED
    BY <1>2, <1>3, <2>1
<1>6. k \in Nat /\ new_blocks + k = BF
  BY <1>3
<1>7. RecordBlocks(r) = Cat(Waiting, Zeros(k))
  <2>. DEFINE u == RecordBlocks(r)
              z == Zeros(k)
              v == Cat(Waiting, z)
  <2>1. u \in Seq(Plain) /\ Len(u) = BF
    BY <1>2, <1>5, RecordBlocksType
  <2>2. ASSUME NEW i \in 1 .. BF
        PROVE  u[i] = IF i <= new_blocks THEN new_record[i - 1] ELSE Zero
    <3>1. i - 1 \in Slots /\ (i <= new_blocks <=> i - 1 < new_blocks)
      BY <1>3
    <3>2. u[i] = r[i - 1]
      BY DEF RecordBlocks
    <3>. QED
      BY <3>1, <3>2
  <2>3. z \in Seq(Plain) /\ Len(z) = k /\ \A i \in 1 .. k : z[i] = Zero
    <3>1. z \in Seq(Plain) /\ Len(z) = k
      BY <1>2, <1>6, ZerosFacts
    <3>. QED
      BY <3>1 DEF Zeros
  <2>. HIDE DEF k, z, r, u
  <2>4. v \in Seq(Plain) /\ Len(v) = new_blocks + k
    BY <1>3, <2>3, CatOf
  <2>5. ASSUME NEW i \in 1 .. new_blocks PROVE v[i] = new_record[i - 1]
    <3>1. v[i] = Waiting[i]
      BY <1>3, <2>3, CatAt
    <3>. QED
      BY <3>1 DEF Waiting
  <2>6. ASSUME NEW i \in 1 .. k PROVE v[new_blocks + i] = Zero
    <3>1. Cat(Waiting, z)[new_blocks + i] = z[i]
      <4>. DEFINE a == new_blocks
                  w == Waiting
      <4>1. /\ a \in Nat /\ k \in Nat /\ Len(w) = a /\ Len(z) = k
            /\ w \in Seq(Plain) /\ z \in Seq(Plain)
        BY <1>3, <1>6, <2>3
      <4>. HIDE DEF a, w
      <4>2. Cat(w, z)[a + i] = z[i]
        BY <4>1, CatBehind
      <4>. QED
        BY <4>2 DEF a, w
    <3>. QED
      BY <2>3, <3>1
  <2>. HIDE DEF v
  <2>7. ASSUME NEW i \in 1 .. BF PROVE u[i] = v[i]
    <3>1. CASE i <= new_blocks
      <4>1. i \in 1 .. new_blocks
        BY <3>1
      <4>. QED
        BY <2>2, <2>5, <3>1, <4>1
    <3>2. CASE ~ (i <= new_blocks)
      <4>1. i - new_blocks \in 1 .. k /\ new_blocks + (i - new_blocks) = i
        BY <1>3, <1>6, <3>2
      <4>2. v[new_blocks + (i - new_blocks)] = Zero
        BY <2>6, <4>1
      <4>. QED
        BY <2>2, <3>2, <4>1, <4>2
    <3>. QED
      BY <3>1, <3>2
  <2>8. u = v
    BY <1>6, <2>1, <2>4, <2>7, SameSequence
  <2>. QED
    BY <2>8 DEF u, v, z
<1>8. Written' = Cat(Written, RecordBlocks(r)) /\ InFile'
  <2>. HIDE DEF r, m
  <2>. QED
    BY <1>1, <1>2, <1>4, <1>5, RecordWritten
<1>. HIDE DEF r, m, k
<1>9. /\ Zeros(k) \in Seq(Plain) /\ NonJunk(Zeros(k)) = Zeros(k)
      /\ Zeros(zeros) \in Seq(Plain) /\ Cat(Zeros(zeros), Zeros(k)) = Zeros(zeros + k)
  BY <1>2, <1>6, ZerosFacts
<1>10. Output' = Cat(Output, Zeros(k))
  <2>. DEFINE z == Zeros(k)
              W == Written
              Q == Waiting
  <2>1. W \in Seq(Plain) /\ Q \in Seq(Plain) /\ z \in Seq(Plain)
    BY <1>3, <1>9
  <2>2. Written' = Cat(W, Cat(Q, z))
    BY <1>7, <1>8
  <2>3. Output' = Cat(Written', <<>>)
    <3>1. Waiting' = <<>>
      BY <1>1 DEF Waiting
    <3>2. Output' = Cat(Written', Waiting')
      BY DEF Output, Written, Waiting, Cat
    <3>. QED
      BY <3>1, <3>2
  <2>4. Output = Cat(W, Q)
    BY OutputParts
  <2>. HIDE DEF W, Q, z
  <2>5. Cat(W, Cat(Q, z)) = Cat(Cat(W, Q), z)
    BY <2>1, CatAssociative
  <2>6. Cat(W, Cat(Q, z)) \in Seq(Plain)
    <3>1. Cat(Q, z) \in Seq(Plain)
      BY <2>1, CatFacts
    <3>. QED
      BY <2>1, <3>1, CatFacts
  <2>7. Cat(Cat(W, Cat(Q, z)), <<>>) = Cat(W, Cat(Q, z))
    BY <2>6, CatEmpty
  <2>. QED
    BY <2>2, <2>3, <2>4, <2>5, <2>7 DEF z
<1>11. NonJunk(Output)' = Cat(N, Zeros(k))
  <2>1. NonJunk(Output)' = NonJunk(Cat(Output, Zeros(k)))
    BY <1>10 DEF NonJunk, Chosen
  <2>2. NonJunk(Cat(Output, Zeros(k))) = Cat(N, NonJunk(Zeros(k)))
    BY <1>3, <1>9, NonJunkCat
  <2>. QED
    BY <1>9, <2>1, <2>2
<1>12. Cat(N, Zeros(k)) = Cat(Remaining, Zeros(zeros + k))
  <2>. DEFINE R == Remaining
              y == Zeros(zeros)
              z == Zeros(k)
  <2>1. R \in Seq(Plain) /\ y \in Seq(Plain) /\ z \in Seq(Plain)
    <3>1. BodyLength \in 0 .. BodyLength
      BY <1>2, BodyFacts
    <3>2. UpTo[BodyLength] \in Seq(Plain)
      BY <1>2, <3>1, UpToType
    <3>. QED
      BY <1>9, <3>2 DEF UpTo, Remaining
  <2>. HIDE DEF R, y, z
  <2>2. Cat(Cat(R, y), z) = Cat(R, Cat(y, z))
    BY <2>1, CatAssociative
  <2>. QED
    BY <1>2, <1>9, <2>2 DEF R, y, z
<1>13. Ended'
  <2>1. Remaining' = Remaining
    BY RemainingKept
  <2>2. Cat(Remaining, Zeros(zeros))' = Cat(Remaining, Zeros(zeros + k))
    BY <1>1, <2>1 DEF Cat, Zeros
  <2>3. new_blocks' = 0 /\ records_written' > 0
    BY <1>1, <1>3
  <2>. QED
    BY <1>8, <1>11, <1>12, <2>2, <2>3 DEF Ended
<1>14. Untouched' /\ Copied' /\ Done' /\ Writing'
  BY <1>1 DEF Untouched, Copied, Done, Rewriting, Writing
<1>. QED
  BY <1>13, <1>14 DEF Exact

(* The file ends where writing stopped.                                    *)
LEMMA ExactTruncate ==
  ASSUME Known, EotInv, Exact, [Next]_vars, Truncate
  PROVE  Exact'
<1>1. /\ pc = "eot" /\ pc' = "done" /\ ~ (zeros < ZerosWanted) /\ zeros \in Nat
      /\ file' = IF acting_as_filter THEN file ELSE SubSeq(file, 1, Lesser(fpos, Len(file)))
      /\ UNCHANGED <<stdout, acting_as_filter, records_written>>
  <2>1. zeros \in Nat
    BY KnownTypes DEF TypedWith, OutputTyped
  <2>. QED
    BY <2>1, RemainingKept DEF Truncate, ZerosWanted, output
<1>2. /\ TypedWith(Plain) /\ Closed(Plain) /\ Proper /\ InFile /\ Zero \in Plain
      /\ NonJunk(Output) = Cat(Remaining, Zeros(zeros)) /\ Archive
      /\ new_blocks = 0 /\ records_written > 0 /\ zeros >= 2
  <2>1. TypedWith(Plain) /\ Closed(Plain) /\ Proper /\ Archive
    BY KnownTypes DEF Known
  <2>2. Zero \in Plain
    BY <2>1 DEF Closed, HasBlanks
  <2>3. zeros >= 2
    BY <1>1 DEF ZerosWanted
  <2>. QED
    BY <1>1, <2>1, <2>2, <2>3 DEF Exact, Ended
<1>3. Result' = Output
  <2>1. Written \in Seq(Plain)
    BY <1>2, OutputTypes
  <2>2. Output = Written
    <3>1. Waiting = <<>>
      BY <1>2 DEF Waiting
    <3>2. Cat(Written, <<>>) = Written
      BY <2>1, CatEmpty
    <3>. QED
      BY <3>1, <3>2, OutputParts
  <2>3. CASE acting_as_filter
    BY <1>1, <2>2, <2>3 DEF Result, Written
  <2>4. CASE ~ acting_as_filter
    <3>1. fpos = BF * (records_written + records_skipped)
      BY <1>1, <1>2, <2>4, Zenon DEF EotInv, AtEot
    <3>2. records_written \in Nat /\ records_skipped \in Nat /\ Len(file) \in Nat
      BY <1>2, PositionTypes DEF TypedWith, OutputTyped
    <3>3. fpos = BF * (records_skipped + records_written)
      BY <3>1, <3>2
    <3>4. Lesser(fpos, Len(file)) = fpos
      BY <2>4, <1>2, <3>3 DEF InFile, Lesser
    <3>5. Result' = SubSeq(file, 1, fpos)
      BY <1>1, <2>4, <3>4 DEF Result
    <3>6. Written = SubSeq(file, 1, fpos)
      BY <2>4, <3>3 DEF Written
    <3>. QED
      BY <2>2, <3>5, <3>6
  <2>. QED
    BY <2>3, <2>4
<1>4. HoldsRemaining'
  <2>. DEFINE R == Remaining
              z == Zeros(zeros)
  <2>1. R \in Seq(Plain) /\ z \in Seq(Plain) /\ Len(z) = zeros
    <3>1. BodyLength \in 0 .. BodyLength
      BY <1>2, BodyFacts
    <3>2. UpTo[BodyLength] \in Seq(Plain)
      BY <1>2, <3>1, UpToType
    <3>. QED
      BY <1>1, <1>2, <3>2, ZerosFacts DEF UpTo, Remaining
  <2>2. NonJunk(Result)' = Cat(R, z)
    BY <1>2, <1>3 DEF NonJunk, Chosen
  <2>3. Remaining' = R
    BY RemainingKept
  <2>. HIDE DEF R, z
  <2>4. Len(Cat(R, z)) = Len(R) + zeros /\ Len(R) \in Nat
    BY <2>1, CatFacts, LenProperties
  <2>5. Len(Cat(R, z)) - Len(R) = zeros
    BY <1>1, <2>4
  <2>6. Len(NonJunk(Result)') - Len(Remaining') = zeros
    BY <2>2, <2>3, <2>5
  <2>7. NonJunk(Result)' = Remaining' \o [i \in 1 .. zeros |-> Zero]
    BY <2>2, <2>3 DEF Cat, z, Zeros
  <2>. QED
    BY <1>2, <2>6, <2>7 DEF HoldsRemaining
<1>5. Done' /\ Untouched' /\ Copied' /\ Ended' /\ Writing'
  BY <1>1, <1>2, <1>4 DEF Done, Untouched, Copied, Ended, Rewriting, Writing, Finished
<1>. QED
  BY <1>5 DEF Exact

LEMMA ExactInit ==
  ASSUME Known, Init
  PROVE  Exact
<1>1. /\ Archive /\ BodyLength \in Nat /\ Reached \in Nat /\ Len(original) \in Nat
      /\ original \in Seq(Plain)
  <2>1. ~ Writing
    BY DEF Init, Writing, Finished
  <2>. QED
    BY <2>1, ReachedFacts, KnownTypes DEF Archive
<1>2. pc = "scan" /\ cur = 0 /\ records_read = 0 /\ file = original /\ stdout = <<>>
      /\ write_archive_to_stdout = acting_as_filter /\ found_count = [n \in Names |-> 0]
  BY DEF Init, OpenForUpdate
<1>3. Reached = 0 /\ Reached - cur = 0
  <2>1. ~ Writing
    BY <1>2 DEF Writing, Finished
  <2>2. Reached = 0
    BY <1>2, <2>1, ReachedFacts
  <2>. QED
    BY <1>2, <2>2
<1>4. Counted
  <2>1. ASSUME NEW n \in Doomed PROVE found_count[n] = Cardinality(Named(n, Reached))
    <3>1. Named(n, Reached) = {}
      BY <1>3 DEF Named
    <3>2. n \in Names
      BY DeleteAssumption
    <3>. QED
      BY <1>2, <3>1, <3>2, FS_EmptySet
  <2>. QED
    BY <2>1 DEF Counted
<1>5. Complete
  BY <1>3 DEF Complete
<1>6. Coming
  BY <1>2 DEF Coming, Within
<1>7. Untouched
  <2>1. SubSeq(original, 1, 0) = <<>>
    <3>1. SubSeq(original, 1, 0) \in Seq(Plain) /\ Len(SubSeq(original, 1, 0)) = 0
      BY <1>1, SliceType
    <3>. QED
      BY <3>1, EmptySeq
  <2>2. \A i \in 1 .. Reached : FALSE
    BY <1>3
  <2>. QED
    BY <1>2, <1>3, <2>1, <2>2 DEF Untouched
<1>8. Copied /\ Ended /\ Done
  BY <1>2 DEF Copied, Ended, Done, Rewriting
<1>. QED
  BY <1>4, <1>5, <1>6, <1>7, <1>8 DEF Exact, Tracked

LEMMA ExactStutter ==
  ASSUME Known, Exact, UNCHANGED vars
  PROVE  Exact'
<1>1. /\ UNCHANGED <<original, file, fpos, cur, end, records_read, stdout,
                     write_archive_to_stdout, records_skipped, records_written, new_record,
                     new_blocks, long_name, found_count, pending, left, zeros, pc>>
  BY DEF vars, given, reader, output, headers, copy
<1>2. /\ original' = original /\ BodyLength' = BodyLength
      /\ acting_as_filter' = acting_as_filter
      /\ Staying' = Staying /\ UpTo' = UpTo /\ Remaining' = Remaining
  BY RemainingKept
<1>3. Reached' = Reached /\ Rest' = Rest /\ Writing' = Writing /\ Rewriting' = Rewriting
      /\ Behind' = Behind
  <2>1. Reached' = Reached
    BY <1>1, ReachedSame
  <2>. QED
    BY <1>1, <2>1 DEF Rest, Writing, Finished, Rewriting, Behind
<1>4. Output' = Output /\ InFile' = InFile
  BY <1>1, <1>2, OutputSame
<1>5. Tracked' <=> Tracked
  BY <1>1, <1>2, <1>3 DEF Tracked, Counted, Complete, Coming, Named, IsHeader
<1>6. Untouched' <=> Untouched
  BY <1>1, <1>2, <1>3 DEF Untouched
<1>7. Copied' <=> Copied
  <2>1. Cat(NonJunk(Output), pending)' = Cat(NonJunk(Output), pending)
    BY <1>1, <1>4 DEF Cat, NonJunk, Chosen
  <2>2. LongName' <=> LongName
    BY <1>1, <1>3 DEF LongName
  <2>3. UpTo'[Reached' - Behind'] = UpTo[Reached - Behind]
    BY <1>2, <1>3
  <2>. QED
    BY <1>1, <1>3, <1>4, <2>1, <2>2, <2>3 DEF Copied
<1>8. Ended' <=> Ended
  <2>1. NonJunk(Output)' = NonJunk(Output)
    BY <1>4 DEF NonJunk, Chosen
  <2>2. Cat(Remaining, Zeros(zeros))' = Cat(Remaining, Zeros(zeros))
    BY <1>1, <1>2 DEF Cat, Zeros
  <2>. QED
    BY <1>1, <1>4, <2>1, <2>2 DEF Ended
<1>9. Done' <=> Done
  <2>1. NonJunk(Result)' = NonJunk(Result)
    BY <1>1, <1>2 DEF NonJunk, Chosen, Result
  <2>2. NonJunk(SubSeq(original, 1, BodyLength))' = NonJunk(SubSeq(original, 1, BodyLength))
    BY <1>2 DEF NonJunk, Chosen
  <2>3. HoldsRemaining' <=> HoldsRemaining
    BY <1>2, <2>1 DEF HoldsRemaining
  <2>. QED
    BY <1>1, <1>2, <2>2, <2>3 DEF Done
<1>. QED
  BY <1>3, <1>5, <1>6, <1>7, <1>8, <1>9 DEF Exact

LEMMA ExactNext ==
  ASSUME Known, EotInv, Exact, [Next]_vars
  PROVE  Exact'
<1>1. CASE WriteEot
  BY <1>1, ExactWriteEot
<1>2. CASE Truncate
  BY <1>2, ExactTruncate
<1>3. CASE UNCHANGED vars
  BY <1>3, ExactStutter
<1>4. ASSUME Next, ~ WriteEot, ~ Truncate
      PROVE  Exact'
  <2>1. ~ Writing
    BY <1>4 DEF Next, Writing, Finished, Fetch, ScanMember, SkipData, SkipUnexpectedEof,
         ScanNonHeader, ScanEnd, ScanDeleted, ScanExtended, DropRecord, DropRest, Loop,
         ReadExtension, ReadExtensionData, ReadDeleted, ReadKept, ReadNonHeader, ReadPastEnd,
         ReadEnd, CopyHeader, FetchData, CopyData, CopyAborts, Copying
  <2>2. CASE Fetch
    <3>1. CASE pc \in {"scan", "skip"}
      BY <2>1, <2>2, <3>1, ExactScan
    <3>2. CASE pc \notin {"scan", "skip"}
      BY <2>1, <2>2, <3>2, ExactRecord
    <3>. QED
      BY <3>1, <3>2
  <2>3. CASE ScanMember \/ SkipData \/ ScanNonHeader
    BY <2>1, <2>3, ExactScan
  <2>4. CASE SkipUnexpectedEof \/ ReadPastEnd \/ CopyAborts
    <3>1. pc' \in {"fatal", "undefined", "aborted"}
      BY <2>4 DEF SkipUnexpectedEof, ReadPastEnd, CopyAborts
    <3>. QED
      BY <3>1 DEF Exact, Writing, Finished, Untouched, Copied, Rewriting, Ended, Done
  <2>5. CASE ScanEnd
    BY <2>1, <2>5, ExactScanEnd
  <2>6. CASE ScanDeleted \/ ScanExtended
    BY <2>1, <2>6, ExactStart
  <2>7. CASE DropRecord \/ FetchData
    BY <2>1, <2>7, ExactRecord
  <2>8. CASE DropRest
    BY <2>1, <2>8, ExactDropRest
  <2>9. CASE Loop
    <3>1. CASE cur = end
      BY <2>1, <2>9, <3>1, ExactRecord
    <3>2. CASE cur # end
      BY <2>1, <2>9, <3>2, ExactDropRest
    <3>. QED
      BY <3>1, <3>2
  <2>10. CASE ReadExtension \/ ReadNonHeader
    BY <2>1, <2>10, ExactReadOn
  <2>11. CASE ReadExtensionData
    BY <2>1, <2>11, ExactExtensionData
  <2>12. CASE ReadDeleted
    BY <2>1, <2>12, ExactReadDeleted
  <2>13. CASE ReadKept
    BY <2>1, <2>13, ExactReadKept
  <2>14. CASE ReadEnd
    BY <2>1, <2>14, ExactReadEnd
  <2>15. CASE CopyHeader
    BY <2>1, <2>15, ExactCopyHeader
  <2>16. CASE CopyData
    BY <2>1, <2>16, ExactCopyData
  <2>. QED
    BY <1>4, <2>2, <2>3, <2>4, <2>5, <2>6, <2>7, <2>8, <2>9, <2>10, <2>11, <2>12, <2>13,
       <2>14, <2>15, <2>16, Zenon DEF Next
<1>. QED
  BY <1>1, <1>2, <1>3, <1>4

(* What holds of every archive that --delete copies rightly.               *)
ExactInv == ReadInv /\ EotInv /\ (Proper => Exact)

LEMMA ExactInvariant ==
  ASSUME Archives \subseteq Seq(Plain), WholeMembers, MembersInOrder
  PROVE  /\ Init => ExactInv
         /\ ExactInv /\ [Next]_vars => ExactInv'
<1>1. ASSUME ReadInv, Proper PROVE Known
  BY <1>1 DEF Known
<1>2. ASSUME Init PROVE ExactInv
  <2>1. ReadInv
    BY <1>2, ReadInvInductive
  <2>2. EotInv
    BY <1>2 DEF Init, EotInv, AtEot
  <2>3. Proper => Exact
    BY <1>1, <1>2, <2>1, ExactInit
  <2>. QED
    BY <2>1, <2>2, <2>3 DEF ExactInv
<1>3. ASSUME ExactInv, [Next]_vars PROVE ExactInv'
  <2>1. ReadInv' /\ Closed(Plain)
    BY <1>3, ReadInvInductive, PlainClosed DEF ExactInv
  <2>2. EotInv'
    BY <1>3, <2>1, EotInvNext DEF ExactInv, ReadInv
  <2>3. Proper' = Proper
    BY <1>3, RemainingKept
  <2>4. Proper => Exact'
    BY <1>1, <1>3, ExactNext DEF ExactInv
  <2>. QED
    BY <2>1, <2>2, <2>3, <2>4 DEF ExactInv
<1>. QED
  BY <1>2, <1>3

LEMMA PrefixOfCat ==
  ASSUME NEW B, NEW s \in Seq(B), NEW u \in Seq(B)
  PROVE  IsPrefix(s, Cat(s, u))
<1>. DEFINE t == Cat(s, u)
            a == Len(s)
<1>1. /\ t \in Seq(B) /\ Len(t) = a + Len(u) /\ a \in Nat /\ Len(u) \in Nat
      /\ \A i \in 1 .. a : t[i] = s[i]
  <2>1. t \in Seq(B) /\ Len(t) = a + Len(u)
    BY CatFacts
  <2>2. ASSUME NEW i \in 1 .. a PROVE t[i] = s[i]
    BY CatElements
  <2>. QED
    BY <2>1, <2>2, LenProperties
<1>. HIDE DEF t
<1>2. a \in 0 .. Len(s) /\ a \in 0 .. Len(t) /\ Len(s) <= Len(t)
  BY <1>1
<1>3. /\ SubSeq(s, 1, a) \in Seq(B) /\ Len(SubSeq(s, 1, a)) = a
      /\ \A i \in 1 .. a : SubSeq(s, 1, a)[i] = s[i]
  BY <1>2, SliceType
<1>4. /\ SubSeq(t, 1, a) \in Seq(B) /\ Len(SubSeq(t, 1, a)) = a
      /\ \A i \in 1 .. a : SubSeq(t, 1, a)[i] = t[i]
  BY <1>1, <1>2, SliceType
<1>5. SubSeq(s, 1, a) = SubSeq(t, 1, a)
  <2>. DEFINE x == SubSeq(s, 1, a)
              y == SubSeq(t, 1, a)
  <2>1. /\ x \in Seq(B) /\ y \in Seq(B) /\ Len(x) = a /\ Len(y) = a
        /\ \A i \in 1 .. a : x[i] = y[i]
    BY <1>1, <1>3, <1>4
  <2>. HIDE DEF x, y, a
  <2>2. x = y
    BY <2>1, SameSequence
  <2>. QED
    BY <2>2 DEF x, y
<1>. QED
  BY <1>2, <1>5 DEF IsPrefix, t

(* While --delete rewrites an archive that has an end, members whole and   *)
(* in order and no extended header, all that write_record has written and  *)
(* new_record holds is the beginning of what is to remain: nothing is      *)
(* written twice, left out or put before what it follows.                  *)
THEOREM WritesWhatRemains ==
  ASSUME Archives \subseteq Seq(Plain), WholeMembers, MembersInOrder
  PROVE  Spec => []OutputIsPrefix
<1>1. ASSUME ExactInv PROVE OutputIsPrefix
  <2>1. ASSUME Proper, Rewriting PROVE IsPrefix(NonJunk(Output), Remaining)
    <3>. DEFINE N == NonJunk(Output)
                c == Reached - Behind
    <3>1. Known /\ Exact /\ ~ Writing
      BY <1>1, <2>1 DEF ExactInv, Known, Rewriting, Writing, Finished
    <3>2. InFile /\ Cat(N, pending) = UpTo[c]
      BY <2>1, <3>1 DEF Exact, Copied
    <3>3. Archive /\ TypedWith(Plain) /\ pending \in Seq(Plain)
      BY <3>1, KnownTypes, PositionTypes
    <3>4. N \in Seq(Plain)
      <4>1. Output \in Seq(Plain)
        BY <3>2, <3>3, OutputTypes
      <4>. QED
        BY <4>1, NonJunkFacts
    <3>5. c \in 0 .. BodyLength
      BY <2>1, <3>1, BehindTypes
    <3>. HIDE DEF N, c
    <3>6. PICK u \in Seq(Plain) : Remaining = Cat(UpTo[c], u)
      BY <3>3, <3>5, UpToPrefix
    <3>7. Cat(Cat(N, pending), u) = Cat(N, Cat(pending, u)) /\ Cat(pending, u) \in Seq(Plain)
      <4>. DEFINE p == pending
      <4>1. p \in Seq(Plain)
        BY <3>3
      <4>. HIDE DEF p
      <4>2. Cat(Cat(N, p), u) = Cat(N, Cat(p, u)) /\ Cat(p, u) \in Seq(Plain)
        BY <3>4, <4>1, CatAssociative, CatFacts
      <4>. QED
        BY <4>2 DEF p
    <3>8. IsPrefix(N, Cat(N, Cat(pending, u)))
      BY <3>4, <3>7, PrefixOfCat
    <3>. QED
      BY <3>2, <3>6, <3>7, <3>8 DEF N
  <2>. QED
    BY <2>1 DEF OutputIsPrefix
<1>. QED
  BY <1>1, ExactInvariant, PTL DEF Spec

(* When --delete has ended on such an archive, the file (or stdout, when   *)
(* it is a filter) holds the members that were not named or not the right  *)
(* occurrence, each with its name and data, in their order, and then an    *)
(* end of archive; and it has not touched the archive only when nothing    *)
(* was to go.                                                              *)
THEOREM DeletesWhatWasNamed ==
  ASSUME Archives \subseteq Seq(Plain), WholeMembers, MembersInOrder
  PROVE  Spec => []DeletesExactly
<1>1. ASSUME ExactInv PROVE DeletesExactly
  BY <1>1 DEF ExactInv, Exact, Done, DeletesExactly
<1>. QED
  BY <1>1, ExactInvariant, PTL DEF Spec
==============================================================================
