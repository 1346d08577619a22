-------------------------- MODULE UpdateArchiveProofs --------------------------
(***************************************************************************)
(* --append, --update and --concatenate leave the members alone that the   *)
(* archive holds, if it is made of whole records.  The second half shows   *)
(* what the archive holds at the end: the old members, just the files that *)
(* were to be added, and an end mark.                                      *)
(***************************************************************************)
EXTENDS UpdateArchiveProps, ArchiveFileProofs, WellFoundedInduction

(* An archive with an end mark is a number of whole records: its blocking  *)
(* factor was a multiple of the one tar has now.                           *)
IsWhole(a) == \E n \in Nat : Len(a) = n * BF
WholeRecords == \A a \in Archives : Ends(a) # {} => IsWhole(a)

AtReading == pc \in {"scan", "skip", "long", "pax"}
AtWriting == pc \in {"add", "put", "eot1", "eot2", "close"}
Stopped == pc \in {"done", "fatal", "undefined"}

Held == Len(Body(original))

GivenTyped == subcommand_option \in DOMAIN Offered /\ original \in Seq(Block)
FileTyped == file \in Seq(Block) /\ fpos \in Nat
BufferTyped ==
  /\ record \in [Slots -> Block] /\ end \in 0 .. BF /\ cur \in 0 .. end
  /\ records_read \in Nat
TaskTyped == left \in Nat /\ todo \in 0 .. Len(Inputs) /\ queue \in Seq(Block)
PlaceTyped == access_mode \in {"read", "write"} /\ (AtReading \/ AtWriting \/ Stopped)
Typed == GivenTyped /\ FileTyped /\ BufferTyped /\ TaskTyped /\ PlaceTyped

(* While the archive is read the buffer holds the last record of it.       *)
ReadsRecords ==
  AtReading =>
    /\ access_mode = "read"
    /\ end <= fpos /\ fpos <= Len(original)
    /\ \A i \in 0 .. end - 1 : record[i] = original[fpos - end + i + 1]
    /\ hit_eof => fpos = Len(original)
    /\ Ends(original) # {} => end \in {0, BF} /\ \E k \in Nat : fpos = k * BF

(* Where tar will write first: the record that holds the end mark, which   *)
(* still begins with what the archive has there.                           *)
StepsBack ==
  AtWriting /\ access_mode = "read" =>
    /\ end = BF /\ fpos >= BF
    /\ Held <= fpos - BF + cur
    /\ \A i \in Slots : fpos - BF + i + 1 <= Held => record[i] = original[fpos - BF + i + 1]

Unwritten == access_mode = "read" => file = original
WritesBehind ==
  access_mode = "write" =>
    /\ Held <= fpos
    /\ \A i \in 1 .. Held : i \in DOMAIN file /\ file[i] = original[i]

Safe == ReadsRecords /\ StepsBack /\ Unwritten /\ WritesBehind

------------------------------------------------------------------------------
(* The members end before the first end mark.                              *)

LEMMA MinOfNat ==
  ASSUME NEW S, S \subseteq Nat, S # {}
  PROVE  Min(S) \in S /\ \A y \in S : Min(S) <= y
<1>. DEFINE R == OpToRel(<, Nat)
<1>1. IsWellFoundedOn(R, Nat)
  BY NatLessThanWellFounded
<1>2. \A x, y \in Nat : x < y => <<x, y>> \in R
  BY DEF OpToRel
<1>. HIDE DEF R
<1>3. PICK x \in S : \A y \in S : ~ (<<y, x>> \in R)
  BY <1>1, WFMin
<1>4. ASSUME NEW y \in S
      PROVE  x <= y
  <2>1. x \in Nat /\ y \in Nat
    OBVIOUS
  <2>2. ~ (y < x)
    BY <1>2, <1>3, <2>1, Zenon
  <2>. QED
    BY <2>1, <2>2
<1>. QED
  BY <1>4 DEF Min

LEMMA BodyLength ==
  ASSUME NEW s \in Seq(Block)
  PROVE  /\ Len(Body(s)) \in Nat /\ Len(Body(s)) <= Len(s)
         /\ DOMAIN Body(s) = 1 .. Len(Body(s))
         /\ \A i \in Ends(s) : Len(Body(s)) < i
<1>1. CASE Ends(s) = {}
  BY <1>1 DEF Body
<1>2. CASE Ends(s) # {}
  <2>. DEFINE m == Min(Ends(s))
  <2>1. Ends(s) \subseteq 1 .. Len(s)
    BY DEF Ends
  <2>2. m \in Ends(s) /\ \A i \in Ends(s) : m <= i
    BY <1>2, <2>1, MinOfNat
  <2>3. m \in 1 .. Len(s)
    BY <2>1, <2>2
  <2>4. Body(s) = SubSeq(s, 1, m - 1)
    BY <1>2 DEF Body
  <2>. HIDE DEF m
  <2>5. Len(Body(s)) = m - 1 /\ DOMAIN Body(s) = 1 .. m - 1
    BY <2>3, <2>4
  <2>. QED
    BY <2>1, <2>2, <2>3, <2>5
<1>. QED
  BY <1>1, <1>2

------------------------------------------------------------------------------
(* Types.                                                                  *)

LEMMA InitTyped ==
  ASSUME Init
  PROVE  Typed
<1>. USE ArchiveFileAssumption DEF Init, OpenForUpdate
<1>1. GivenTyped /\ FileTyped
  BY DEF GivenTyped, FileTyped
<1>2. BufferTyped
  <2>1. Junk \in Block
    BY DEF Junk, Block, Kinds
  <2>. QED
    BY <2>1 DEF BufferTyped, Slots
<1>3. TaskTyped
  <2>1. Inputs \in Seq(Input)
    BY UpdateAssumption DEF Inputs
  <2>2. Len(Inputs) \in Nat
    BY <2>1, LenProperties
  <2>. QED
    BY <2>2 DEF TaskTyped
<1>4. PlaceTyped
  BY DEF PlaceTyped, AtReading
<1>. QED
  BY <1>1, <1>2, <1>3, <1>4 DEF Typed

LEMMA BlockSeen ==
  ASSUME Typed, HasBlock
  PROVE  /\ block \in Block /\ block.size \in Nat
         /\ cur \in Slots /\ cur + 1 \in 0 .. end
<1>1. cur \in Slots
  BY ArchiveFileAssumption DEF Typed, BufferTyped, HasBlock, Slots
<1>. QED
  BY <1>1, ArchiveFileAssumption DEF Typed, BufferTyped, HasBlock, block, Block

(* What steps that read keep.                                              *)
LEMMA ReadingTyped ==
  ASSUME Typed,
         \/ ScanMember \/ SkipData \/ SkipUnexpectedEof \/ ScanExtension \/ ScanExtensionData
         \/ ScanNonHeader \/ FoundZeroBlock
  PROVE  Typed'
<1>. USE DEF Typed
<1>1. UNCHANGED <<given, file, fpos, record, end, records_read, todo, queue>>
  BY DEF ScanMember, SkipData, SkipUnexpectedEof, ScanExtension, ScanExtensionData,
         ScanNonHeader, FoundZeroBlock, Scanning
<1>2. GivenTyped' /\ FileTyped'
  BY <1>1 DEF GivenTyped, FileTyped, given
<1>3. cur' \in 0 .. end /\ left' \in Nat
  <2>1. CASE ScanMember
    BY <2>1, BlockSeen DEF ScanMember
  <2>2. CASE SkipData
    <3>. DEFINE n == Lesser(end - cur, left)
    <3>1. end \in Nat /\ cur \in 0 .. end /\ left \in Nat
      BY DEF BufferTyped, TaskTyped
    <3>2. n \in Int /\ n <= end - cur /\ n <= left /\ n >= 0
      BY <3>1 DEF Lesser
    <3>3. cur' = cur + n /\ left' = left - n
      BY <2>2 DEF SkipData
    <3>. HIDE DEF n
    <3>. QED
      BY <3>1, <3>2, <3>3
  <2>3. CASE SkipUnexpectedEof
    BY <2>3 DEF SkipUnexpectedEof, BufferTyped, TaskTyped
  <2>4. CASE ScanExtension \/ ScanNonHeader
    BY <2>4, BlockSeen DEF ScanExtension, ScanNonHeader, TaskTyped
  <2>5. CASE ScanExtensionData
    BY <2>5, BlockSeen DEF ScanExtensionData, BufferTyped, TaskTyped
  <2>6. CASE FoundZeroBlock
    BY <2>6 DEF FoundZeroBlock, BufferTyped, TaskTyped
  <2>. QED
    BY <2>1, <2>2, <2>3, <2>4, <2>5, <2>6
<1>4. BufferTyped' /\ TaskTyped'
  BY <1>1, <1>3 DEF BufferTyped, TaskTyped, Inputs, given
<1>5. PlaceTyped'
  <2>1. access_mode' = access_mode
    BY DEF ScanMember, SkipData, SkipUnexpectedEof, ScanExtension, ScanExtensionData,
           ScanNonHeader, FoundZeroBlock, writer
  <2>2. AtReading' \/ AtWriting' \/ Stopped'
    BY DEF ScanMember, SkipData, SkipUnexpectedEof, ScanExtension, ScanExtensionData,
           ScanNonHeader, FoundZeroBlock, AtReading, AtWriting, Stopped
  <2>. QED
    BY <2>1, <2>2 DEF PlaceTyped
<1>. QED
  BY <1>2, <1>4, <1>5

LEMMA FetchTyped ==
  ASSUME Typed, Fetch
  PROVE  Typed'
<1>. USE DEF Typed, Fetch
<1>1. /\ record' \in [Slots -> Block] /\ fpos' \in Nat
      /\ records_read' \in Nat /\ cur' = 0 /\ end' = Readable /\ Readable \in 0 .. BF
  BY ReadRecordType, ReadableRange DEF FileTyped, BufferTyped, FetchRecord, FlushArchive
<1>2. GivenTyped' /\ FileTyped' /\ BufferTyped' /\ TaskTyped'
  <2>1. 0 \in 0 .. Readable
    BY <1>1
  <2>. QED
    BY <1>1, <2>1 DEF GivenTyped, FileTyped, BufferTyped, TaskTyped, given, task, Inputs
<1>3. PlaceTyped'
  BY DEF PlaceTyped, AtReading, AtWriting, Stopped, writer, task
<1>. QED
  BY <1>2, <1>3

LEMMA EndOfFileTyped ==
  ASSUME Typed, FoundEndOfFile
  PROVE  Typed'
<1>. USE DEF Typed, FoundEndOfFile
<1>1. GivenTyped' /\ FileTyped' /\ BufferTyped' /\ TaskTyped'
  BY ArchiveFileAssumption DEF GivenTyped, FileTyped, BufferTyped, TaskTyped, given, Inputs
<1>2. PlaceTyped'
  BY DEF PlaceTyped, AtWriting, ModeAfterReset
<1>. QED
  BY <1>1, <1>2

LEMMA FlushTyped ==
  ASSUME Typed, Flush
  PROVE  Typed'
<1>. USE DEF Typed
<1>1. BF \in Nat /\ BF > 0
  BY ArchiveFileAssumption
<1>2. PICK p \in Nat : FlushAt(p)
  <2>1. StepBack \in Nat
    BY <1>1 DEF StepBack, Greater, FileTyped
  <2>. QED
    BY <2>1 DEF Flush, FileTyped
<1>3. file' \in Seq(Block) /\ fpos' \in Nat
  <2>1. Zero \in Block
    BY DEF Zero, Block, Kinds
  <2>2. RecordBlocks(record) \in Seq(Block)
    BY RecordBlocksType DEF BufferTyped
  <2>. QED
    BY <1>1, <1>2, <2>1, <2>2, OverwrittenType DEF FlushAt, FileTyped
<1>4. cur' = 0 /\ end' = BF
  BY <1>2 DEF FlushAt
<1>5. GivenTyped' /\ FileTyped' /\ BufferTyped' /\ TaskTyped'
  BY <1>1, <1>3, <1>4 DEF Flush, GivenTyped, FileTyped, BufferTyped, TaskTyped, given, Inputs
<1>6. access_mode' \in {"read", "write"}
  BY DEF Flush, writer, PlaceTyped
<1>7. PlaceTyped'
  BY <1>6 DEF Flush, PlaceTyped, AtWriting, Stopped
<1>. QED
  BY <1>5, <1>7

LEMMA StoringTyped ==
  ASSUME Typed, Storing, record' \in [Slots -> Block], cur' \in 0 .. end,
         todo' \in 0 .. Len(Inputs), queue' \in Seq(Block), AtReading' \/ AtWriting' \/ Stopped'
  PROVE  Typed'
<1>1. GivenTyped' /\ FileTyped' /\ BufferTyped' /\ TaskTyped'
  BY DEF Typed, Storing, GivenTyped, FileTyped, BufferTyped, TaskTyped, given, Inputs
<1>2. PlaceTyped'
  BY DEF Typed, Storing, PlaceTyped, writer
<1>. QED
  BY <1>1, <1>2 DEF Typed

LEMMA NextInputTyped ==
  ASSUME Typed, NextInput
  PROVE  Typed'
<1>. DEFINE k == todo + 1
<1>1. Inputs \in Seq(Input)
  BY UpdateAssumption DEF Typed, GivenTyped, Inputs
<1>2. k \in 1 .. Len(Inputs)
  <2>1. Len(Inputs) \in Nat
    BY <1>1, LenProperties
  <2>. QED
    BY <2>1 DEF NextInput, Typed, TaskTyped
<1>. HIDE DEF k
<1>3. Inputs[k] \in Input
  BY <1>1, <1>2, ElementOfSeq
<1>4. Inputs[k].blocks \in Seq(Block)
  BY <1>3 DEF Input
<1>5. queue' \in Seq(Block)
  <2>1. queue' = <<>> \/ queue' = Inputs[k].blocks
    BY DEF NextInput, k
  <2>2. <<>> \in Seq(Block)
    OBVIOUS
  <2>. QED
    BY <1>4, <2>1, <2>2, Zenon
<1>6. todo' \in 0 .. Len(Inputs)
  BY <1>2 DEF NextInput, k, Typed, TaskTyped
<1>. QED
  BY <1>5, <1>6, StoringTyped DEF NextInput, Typed, BufferTyped, AtWriting

(* A step that stores blocks leaves the record as it is up to cur.         *)
LEMMA StoresBehind ==
  ASSUME Typed, Put \/ WriteEot
  PROVE  /\ record' \in [Slots -> Block] /\ queue' \in Seq(Block)
         /\ cur' \in 0 .. end /\ cur' >= cur
         /\ \A i \in Slots : i < cur => record'[i] = record[i]
<1>. USE DEF Typed
<1>1. cur \in Nat /\ end \in Nat /\ record \in [Slots -> Block] /\ queue \in Seq(Block)
  BY ArchiveFileAssumption DEF BufferTyped, TaskTyped
<1>2. CASE Put
  <2>. DEFINE n == Lesser(end - cur, Len(queue))
  <2>1. n \in Nat /\ n <= end - cur /\ n <= Len(queue)
    BY <1>1, <1>2, LenProperties DEF Put, Lesser
  <2>2. /\ record' = [k \in Slots |-> IF k \in cur .. cur + n - 1
                                      THEN queue[k - cur + 1] ELSE record[k]]
        /\ cur' = cur + n /\ queue' = SubSeq(queue, n + 1, Len(queue))
    BY <1>2 DEF Put, Room
  <2>. HIDE DEF n
  <2>3. ASSUME NEW k \in cur .. cur + n - 1
        PROVE  queue[k - cur + 1] \in Block
    <3>1. k - cur + 1 \in 1 .. Len(queue)
      BY <1>1, <2>1, LenProperties
    <3>. QED
      BY <1>1, <3>1, ElementOfSeq
  <2>4. record' \in [Slots -> Block]
    BY <1>1, <2>2, <2>3
  <2>5. queue' \in Seq(Block)
    BY <1>1, <2>1, <2>2, SubSeqProperties, LenProperties
  <2>6. cur' \in 0 .. end /\ cur' >= cur
    BY <1>1, <2>1, <2>2
  <2>7. \A i \in Slots : i < cur => record'[i] = record[i]
    BY <1>1, <2>2, ArchiveFileAssumption DEF Slots
  <2>. QED
    BY <2>4, <2>5, <2>6, <2>7
<1>3. CASE WriteEot
  <2>1. Zero \in Block
    BY DEF Zero, Block, Kinds
  <2>2. record' \in [Slots -> Block]
    BY <1>1, <1>3, <2>1 DEF WriteEot
  <2>3. cur' \in 0 .. end /\ cur' >= cur /\ queue' = queue
    BY <1>1, <1>3 DEF WriteEot
  <2>4. \A i \in Slots : i < cur => record'[i] = record[i]
    BY <1>1, <1>3, ArchiveFileAssumption DEF WriteEot, Slots
  <2>. QED
    BY <1>1, <2>2, <2>3, <2>4
<1>. QED
  BY <1>2, <1>3

LEMMA TypedNext ==
  ASSUME Typed, [Next]_vars
  PROVE  Typed'
<1>1. CASE UNCHANGED vars
  BY <1>1 DEF Typed, GivenTyped, FileTyped, BufferTyped, TaskTyped, PlaceTyped, Inputs,
              AtReading, AtWriting, Stopped, vars, given, reader, writer, task
<1>2. CASE Put \/ WriteEot
  <2>1. Storing /\ todo' = todo /\ (AtReading' \/ AtWriting' \/ Stopped')
    BY <1>2 DEF Put, WriteEot, AtReading, AtWriting, Stopped
  <2>. QED
    BY <1>2, <2>1, StoresBehind, StoringTyped DEF Typed, TaskTyped
<1>3. CASE InputShrank \/ StartEot
  <2>1. /\ Storing /\ UNCHANGED <<record, cur, todo, queue>>
        /\ AtReading' \/ AtWriting' \/ Stopped'
    BY <1>3 DEF InputShrank, StartEot, AtReading, AtWriting, Stopped
  <2>. QED
    BY <2>1, StoringTyped DEF Typed, BufferTyped, TaskTyped
<1>. QED
  BY <1>1, <1>2, <1>3, ReadingTyped, FetchTyped, EndOfFileTyped, FlushTyped, NextInputTyped
     DEF Next

------------------------------------------------------------------------------
(* Reading.                                                                *)

LEMMA Multiples ==
  ASSUME NEW k \in Nat, NEW n \in Nat, NEW b \in Nat \ {0}, k * b < n * b
  PROVE  n * b - k * b >= b
<1>1. k < n
  <2>1. n <= k => n * b <= k * b
    OBVIOUS
  <2>. QED
    BY <2>1
<1>2. PICK d \in Nat : n = k + 1 + d
  <2>1. n - k - 1 \in Nat
    BY <1>1
  <2>. QED
    BY <2>1
<1>3. n * b = k * b + b + d * b /\ d * b >= 0
  BY <1>2
<1>. QED
  BY <1>3

LEMMA HeldLength ==
  ASSUME Typed
  PROVE  /\ Held \in Nat /\ Held <= Len(original) /\ Len(original) \in Nat
         /\ DOMAIN Body(original) = 1 .. Held
         /\ \A i \in Ends(original) : Held < i
BY BodyLength, LenProperties DEF Typed, GivenTyped, Held

LEMMA GivenKept ==
  ASSUME Next
  PROVE  original' = original /\ Held' = Held
<1>1. original' = original
  BY DEF Next, Fetch, ScanMember, SkipData, SkipUnexpectedEof, ScanExtension, ScanExtensionData,
         ScanNonHeader, FoundZeroBlock, FoundEndOfFile, Flush, NextInput, Put, InputShrank,
         StartEot, WriteEot, Scanning, Storing, given
<1>. QED
  BY <1>1 DEF Held, Body, Ends

LEMMA FetchSafe ==
  ASSUME WholeRecords, original \in Archives, Typed, Safe, Fetch
  PROVE  Safe'
<1>. USE DEF Safe
<1>1. AtReading /\ AtReading' /\ access_mode = "read" /\ access_mode' = "read"
  BY DEF Fetch, ReadsRecords, AtReading, writer, task
<1>2. file = original /\ file' = original /\ original' = original
  BY <1>1 DEF Unwritten, Fetch, given
<1>3. BF \in Nat \ {0} /\ Len(original) \in Nat /\ fpos \in Nat /\ fpos <= Len(original)
  BY <1>1, HeldLength, ArchiveFileAssumption DEF Typed, FileTyped, ReadsRecords
<1>4. /\ Readable \in 0 .. BF /\ Readable <= Len(original) - fpos
      /\ Readable = BF \/ Readable = Len(original) - fpos
  BY <1>2, <1>3 DEF Readable, Lesser, Greater
<1>5. /\ record' = [i \in Slots |-> IF i < Readable THEN file[fpos + i + 1] ELSE record[i]]
      /\ fpos' = fpos + Readable /\ end' = Readable /\ hit_eof' = (Readable = 0)
  BY DEF Fetch, FetchRecord, FlushArchive, ReadRecord
<1>6. end' <= fpos' /\ fpos' <= Len(original)
  BY <1>3, <1>4, <1>5
<1>7. ASSUME NEW i \in 0 .. end' - 1
      PROVE  record'[i] = original[fpos' - end' + i + 1]
  <2>1. i \in Slots /\ i < Readable /\ fpos' - end' + i + 1 = fpos + i + 1
    BY <1>3, <1>4, <1>5 DEF Slots
  <2>. QED
    BY <1>2, <1>5, <2>1
<1>8. hit_eof' => fpos' = Len(original)
  <2>1. hit_eof' = (Readable = 0)
    BY DEF Fetch, FetchRecord
  <2>2. hit_eof' => Readable = 0
    BY <2>1, Zenon
  <2>3. Readable = 0 => fpos' = Len(original)
    BY <1>3, <1>4, <1>5
  <2>. QED
    BY <2>2, <2>3
<1>9. ASSUME Ends(original) # {}
      PROVE  end' \in {0, BF} /\ \E k \in Nat : fpos' = k * BF
  <2>1. PICK n \in Nat : Len(original) = n * BF
    BY <1>9 DEF WholeRecords, IsWhole
  <2>2. PICK k \in Nat : fpos = k * BF
    BY <1>1, <1>9 DEF ReadsRecords
  <2>3. Readable \in {0, BF}
    <3>1. CASE fpos = Len(original)
      BY <1>3, <1>4, <3>1
    <3>2. CASE fpos < Len(original)
      <4>1. Len(original) - fpos >= BF
        BY <1>3, <2>1, <2>2, <3>2, Multiples
      <4>. QED
        BY <1>3, <1>4, <4>1
    <3>. QED
      BY <1>3, <3>1, <3>2
  <2>4. fpos' = k * BF \/ fpos' = (k + 1) * BF
    BY <1>3, <1>5, <2>2, <2>3
  <2>. QED
    BY <1>5, <2>3, <2>4
<1>10. ReadsRecords'
  BY <1>1, <1>2, <1>6, <1>7, <1>8, <1>9 DEF ReadsRecords, Ends
<1>. QED
  BY <1>1, <1>2, <1>10 DEF StepsBack, Unwritten, WritesBehind, AtReading, AtWriting

(* Steps that look at blocks of the record that was read.                  *)
LEMMA LooksSafe ==
  ASSUME Typed, Safe, ScanMember \/ SkipData \/ SkipUnexpectedEof \/ ScanExtension
                        \/ ScanExtensionData \/ ScanNonHeader
  PROVE  Safe'
<1>. USE DEF Safe
<1>1. /\ UNCHANGED <<original, file, fpos, record, end, hit_eof, access_mode>>
      /\ AtReading /\ ~AtWriting'
  BY DEF ScanMember, SkipData, SkipUnexpectedEof, ScanExtension, ScanExtensionData,
         ScanNonHeader, Scanning, given, writer, AtReading, AtWriting
<1>2. ReadsRecords'
  BY <1>1 DEF ReadsRecords, Ends
<1>3. StepsBack' /\ Unwritten' /\ WritesBehind'
  BY <1>1 DEF StepsBack, Unwritten, WritesBehind, ReadsRecords
<1>. QED
  BY <1>2, <1>3

LEMMA ZeroBlockSafe ==
  ASSUME Typed, Safe, FoundZeroBlock
  PROVE  Safe'
<1>. USE DEF Safe
<1>1. /\ UNCHANGED <<original, file, fpos, record, end, cur, access_mode>>
      /\ AtReading /\ pc' = "add" /\ access_mode = "read"
      /\ HasBlock /\ block.kind = "zero"
  BY DEF FoundZeroBlock, Scanning, given, AtReading, ReadsRecords
<1>2. BF \in Nat \ {0} /\ fpos \in Nat /\ end \in Nat /\ cur \in 0 .. end - 1
  BY <1>1, ArchiveFileAssumption DEF HasBlock, Typed, BufferTyped, FileTyped
<1>. DEFINE z == fpos - end + cur + 1
<1>3. z \in Ends(original)
  <2>1. original[z] = block
    BY <1>1, <1>2 DEF ReadsRecords, block
  <2>2. z \in 1 .. Len(original)
    BY <1>1, <1>2, HeldLength DEF ReadsRecords
  <2>3. z \in DOMAIN original
    BY <2>2 DEF Typed, GivenTyped
  <2>. HIDE DEF z
  <2>. QED
    BY <1>1, <2>1, <2>3 DEF Ends
<1>4. end = BF
  BY <1>1, <1>2, <1>3 DEF ReadsRecords
<1>5. Held < z /\ Held \in Nat
  BY <1>3, HeldLength
<1>6. Held' = Held
  BY GivenKept DEF Next
<1>7. StepsBack'
  <2>1. end = BF /\ fpos >= BF /\ Held <= fpos - BF + cur
    BY <1>1, <1>2, <1>4, <1>5 DEF ReadsRecords
  <2>2. \A i \in Slots : record[i] = original[fpos - BF + i + 1]
    BY <1>1, <1>2, <1>4 DEF ReadsRecords, Slots
  <2>. QED
    BY <1>1, <1>6, <2>1, <2>2 DEF StepsBack
<1>8. ReadsRecords' /\ Unwritten' /\ WritesBehind'
  BY <1>1 DEF ReadsRecords, AtReading, Unwritten, WritesBehind
<1>. QED
  BY <1>7, <1>8

LEMMA EndOfFileSafe ==
  ASSUME Typed, Safe, FoundEndOfFile
  PROVE  Safe'
<1>. USE DEF Safe
<1>1. /\ UNCHANGED <<original, file, fpos>> /\ pc' = "add" /\ access_mode' = "write"
      /\ AtReading /\ hit_eof
  BY DEF FoundEndOfFile, ModeAfterReset, given, AtReading, AtEof
<1>2. fpos = Len(original) /\ file = original
  BY <1>1 DEF ReadsRecords, Unwritten
<1>3. Held' = Held /\ Held \in Nat /\ Held <= Len(original) /\ Len(original) \in Nat
  BY GivenKept, HeldLength DEF Next
<1>4. \A i \in 1 .. Held : i \in DOMAIN original
  BY <1>3 DEF Typed, GivenTyped
<1>5. WritesBehind'
  BY <1>1, <1>2, <1>3, <1>4 DEF WritesBehind
<1>6. ReadsRecords' /\ StepsBack' /\ Unwritten'
  BY <1>1 DEF ReadsRecords, AtReading, StepsBack, Unwritten
<1>. QED
  BY <1>5, <1>6

------------------------------------------------------------------------------
(* Writing.                                                                *)

LEMMA OverwrittenBlocks ==
  ASSUME NEW f \in Seq(Block), NEW w \in Seq(Block), NEW p \in Nat
  PROVE  /\ \A i \in 1 .. Len(f) :
              i <= p => i \in DOMAIN Overwritten(f, p, w) /\ Overwritten(f, p, w)[i] = f[i]
         /\ \A i \in 1 .. Len(w) :
              p + i \in DOMAIN Overwritten(f, p, w) /\ Overwritten(f, p, w)[p + i] = w[i]
<1>1. Zero \in Block
  BY DEF Zero, Block, Kinds
<1>2. \A i \in 1 .. Len(f) :
        i <= p => i \in DOMAIN Overwritten(f, p, w) /\ Overwritten(f, p, w)[i] = f[i]
  BY <1>1, OverwrittenType
<1>3. ASSUME NEW i \in 1 .. Len(w)
      PROVE  p + i \in DOMAIN Overwritten(f, p, w) /\ Overwritten(f, p, w)[p + i] = w[i]
  <2>1. p + i \in DOMAIN Overwritten(f, p, w)
    BY <1>1, OverwrittenType, Zenon
  <2>2. Overwritten(f, p, w)[p + i] = w[i]
    BY <1>1, OverwrittenType, SMTT(60)
  <2>. QED
    BY <2>1, <2>2
<1>. QED
  BY <1>2, <1>3

(* A record written over the file at p leaves the members alone if they    *)
(* end there, or the record begins with what the file has at that place.   *)
LEMMA WritesOver ==
  ASSUME NEW h \in Nat, NEW f \in Seq(Block), NEW r \in [Slots -> Block], NEW p \in Nat,
         \A i \in 1 .. h : i \in DOMAIN f,
         \A i \in Slots : p + i + 1 <= h => r[i] = f[p + i + 1],
         h <= p + BF
  PROVE  \A i \in 1 .. h : /\ i \in DOMAIN Overwritten(f, p, RecordBlocks(r))
                           /\ Overwritten(f, p, RecordBlocks(r))[i] = f[i]
<1>. DEFINE w == RecordBlocks(r)
            g == Overwritten(f, p, w)
<1>1. BF \in Nat /\ Len(f) \in Nat
  BY ArchiveFileAssumption, LenProperties
<1>2. w \in Seq(Block) /\ Len(w) = BF /\ \A i \in 1 .. BF : w[i] = r[i - 1]
  BY RecordBlocksType
<1>3. Zero \in Block
  BY DEF Zero, Block, Kinds
<1>. HIDE DEF w
<1>4a. w \in Seq(Block)
  BY <1>2
<1>4. /\ \A i \in 1 .. Len(f) :
           i <= p => i \in DOMAIN Overwritten(f, p, w) /\ Overwritten(f, p, w)[i] = f[i]
      /\ \A i \in 1 .. Len(w) :
           p + i \in DOMAIN Overwritten(f, p, w) /\ Overwritten(f, p, w)[p + i] = w[i]
  BY <1>4a, OverwrittenBlocks
<1>. HIDE DEF g
<1>4b. \A i \in 1 .. Len(f) : i <= p => i \in DOMAIN g /\ g[i] = f[i]
  BY <1>4 DEF g
<1>4c. \A i \in 1 .. Len(w) : p + i \in DOMAIN g /\ g[p + i] = w[i]
  BY <1>4 DEF g
<1>5. ASSUME NEW i \in 1 .. h
      PROVE  i \in DOMAIN g /\ g[i] = f[i]
  <2>1. i \in 1 .. Len(f)
    BY <1>1
  <2>2. CASE i <= p
    BY <1>4b, <2>1, <2>2
  <2>3. CASE i > p
    <3>. DEFINE j == i - p
    <3>1. j \in 1 .. BF /\ p + j = i /\ j - 1 \in Slots /\ p + (j - 1) + 1 = i
      BY <1>1, <2>3 DEF Slots
    <3>. HIDE DEF j
    <3>2. p + j \in DOMAIN g /\ g[p + j] = w[j]
      BY <1>2, <1>4c, <3>1
    <3>3. w[j] = r[j - 1]
      BY <1>2, <3>1
    <3>4. r[j - 1] = f[i]
      BY <3>1
    <3>. QED
      BY <3>1, <3>2, <3>3, <3>4
  <2>. QED
    BY <2>2, <2>3
<1>. QED
  BY <1>5 DEF g, w

LEMMA FlushSafe ==
  ASSUME Typed, Safe, Flush
  PROVE  Safe'
<1>. USE DEF Safe
<1>1. /\ original' = original /\ Held' = Held /\ Held \in Nat /\ Held <= Len(original)
      /\ Len(original) \in Nat
  BY GivenKept, HeldLength DEF Next
<1>2. BF \in Nat /\ BF > 0 /\ fpos \in Nat /\ end \in 0 .. BF /\ cur \in 0 .. end
  BY ArchiveFileAssumption DEF Typed, FileTyped, BufferTyped
<1>3. AtWriting /\ access_mode \in {"read", "write"}
  BY DEF Flush, AtWriting, Typed, PlaceTyped
<1>4. access_mode' = "write" /\ ~AtReading'
  BY <1>3 DEF Flush, AtReading, writer
<1>5. CASE access_mode = "read"
  <2>1. file = original /\ fpos - BF \in Nat /\ StepBack = fpos - BF
    BY <1>2, <1>3, <1>5 DEF StepsBack, Unwritten, StepBack, Greater
  <2>2. /\ file' = Overwritten(file, fpos - BF, RecordBlocks(record))
        /\ fpos' = fpos - BF + BF
    BY <1>5, <2>1 DEF Flush, FlushAt
  <2>3. Held <= fpos
    BY <1>1, <1>2, <1>3, <1>5 DEF StepsBack
  <2>4. \A i \in 1 .. Held : i \in DOMAIN file
    BY <1>1, <2>1 DEF Typed, FileTyped
  <2>5. \A i \in Slots : fpos - BF + i + 1 <= Held => record[i] = file[fpos - BF + i + 1]
    BY <1>3, <1>5, <2>1 DEF StepsBack
  <2>6. \A i \in 1 .. Held : i \in DOMAIN file' /\ file'[i] = file[i]
    <3>. DEFINE p == fpos - BF
    <3>1. p \in Nat /\ Held <= p + BF
      BY <1>1, <1>2, <2>1, <2>3
    <3>2. \A i \in Slots : p + i + 1 <= Held => record[i] = file[p + i + 1]
      BY <2>5
    <3>3. file \in Seq(Block) /\ record \in [Slots -> Block] /\ Held \in Nat
      BY <1>1 DEF Typed, FileTyped, BufferTyped
    <3>4. file' = Overwritten(file, p, RecordBlocks(record))
      BY <2>2
    <3>. HIDE DEF p
    <3>. QED
      BY <2>4, <3>1, <3>2, <3>3, <3>4, WritesOver
  <2>7. WritesBehind'
    BY <1>1, <1>2, <2>1, <2>2, <2>3, <2>6 DEF WritesBehind
  <2>. QED
    BY <1>4, <2>7 DEF ReadsRecords, StepsBack, Unwritten
<1>6. CASE access_mode = "write"
  <2>1. file' = Overwritten(file, fpos, RecordBlocks(record)) /\ fpos' = fpos + BF
    BY <1>6 DEF Flush, FlushAt
  <2>2. Held <= fpos /\ \A i \in 1 .. Held : i \in DOMAIN file /\ file[i] = original[i]
    BY <1>6 DEF WritesBehind
  <2>3. \A i \in Slots : ~(fpos + i + 1 <= Held)
    BY <1>1, <1>2, <2>2 DEF Slots
  <2>4. file \in Seq(Block) /\ record \in [Slots -> Block] /\ Held <= fpos + BF
    BY <1>1, <1>2, <2>2 DEF Typed, FileTyped, BufferTyped
  <2>5. \A i \in 1 .. Held : i \in DOMAIN file' /\ file'[i] = file[i]
    BY <1>1, <1>2, <2>1, <2>2, <2>3, <2>4, WritesOver
  <2>6. WritesBehind'
    BY <1>1, <1>2, <2>1, <2>2, <2>5 DEF WritesBehind
  <2>. QED
    BY <1>4, <2>6 DEF ReadsRecords, StepsBack, Unwritten
<1>. QED
  BY <1>3, <1>5, <1>6

(* Steps that fill the record.                                             *)
LEMMA StoringSafe ==
  ASSUME Typed, Safe, NextInput \/ Put \/ InputShrank \/ StartEot \/ WriteEot
  PROVE  Safe'
<1>. USE DEF Safe
<1>1. /\ UNCHANGED <<original, file, fpos, end, access_mode>>
      /\ AtWriting /\ ~AtReading'
  BY DEF NextInput, Put, InputShrank, StartEot, WriteEot, Storing, given, writer, AtWriting,
         AtReading
<1>2. cur' \in Nat /\ cur \in Nat /\ cur' >= cur /\ \A i \in Slots : i < cur => record'[i] = record[i]
  <2>1. CASE Put \/ WriteEot
    BY <2>1, StoresBehind DEF Typed, BufferTyped
  <2>2. CASE NextInput \/ InputShrank \/ StartEot
    BY <2>2 DEF NextInput, InputShrank, StartEot, Typed, BufferTyped
  <2>. QED
    BY <2>1, <2>2
<1>3. Held' = Held /\ Held \in Nat
  BY GivenKept, HeldLength DEF Next
<1>4. BF \in Nat /\ fpos \in Nat
  BY ArchiveFileAssumption DEF Typed, FileTyped
<1>5. StepsBack'
  <2>1. SUFFICES ASSUME access_mode = "read"
                 PROVE  /\ end = BF /\ fpos >= BF
                        /\ Held <= fpos - BF + cur'
                        /\ \A i \in Slots : fpos - BF + i + 1 <= Held =>
                             record'[i] = original[fpos - BF + i + 1]
    BY <1>1, <1>3 DEF StepsBack
  <2>2. /\ end = BF /\ fpos >= BF
        /\ Held <= fpos - BF + cur
        /\ \A i \in Slots : fpos - BF + i + 1 <= Held => record[i] = original[fpos - BF + i + 1]
    BY <1>1, <2>1 DEF StepsBack
  <2>3. ASSUME NEW i \in Slots, fpos - BF + i + 1 <= Held
        PROVE  record'[i] = original[fpos - BF + i + 1]
    <3>1. i \in Nat
      BY <1>4 DEF Slots
    <3>2. i < cur
      BY <1>2, <1>3, <1>4, <2>2, <2>3, <3>1
    <3>. QED
      BY <1>2, <2>2, <2>3, <3>2
  <2>. QED
    BY <1>2, <1>3, <1>4, <2>2, <2>3
<1>6. ReadsRecords' /\ Unwritten' /\ WritesBehind'
  BY <1>1, <1>3 DEF ReadsRecords, Unwritten, WritesBehind
<1>. QED
  BY <1>5, <1>6

LEMMA SafeNext ==
  ASSUME WholeRecords, original \in Archives, Typed, Safe, [Next]_vars
  PROVE  Safe'
<1>1. CASE UNCHANGED vars
  BY <1>1 DEF Safe, ReadsRecords, StepsBack, Unwritten, WritesBehind, AtReading, AtWriting,
              Held, Body, Ends, vars, given, reader, writer, task
<1>. QED
  BY <1>1, FetchSafe, LooksSafe, ZeroBlockSafe, EndOfFileSafe, FlushSafe, StoringSafe DEF Next

LEMMA InitSafe ==
  ASSUME Init
  PROVE  Safe /\ original \in Archives
<1>1. Typed
  BY InitTyped
<1>2. /\ original \in Archives /\ file = original /\ fpos = 0 /\ end = 0 /\ ~hit_eof
      /\ access_mode = "read" /\ pc = "scan"
  BY DEF Init, OpenForUpdate
<1>3. ReadsRecords
  <2>1. 0 = 0 * BF
    BY ArchiveFileAssumption
  <2>. QED
    BY <1>1, <1>2, <2>1, HeldLength DEF ReadsRecords
<1>. QED
  BY <1>2, <1>3 DEF Safe, StepsBack, AtWriting, Unwritten, WritesBehind

(* What the invariant says of the file, in this state and in the next one. *)
Intact == \A i \in DOMAIN Body(original) : i \in DOMAIN file /\ file[i] = original[i]

LEMMA SafeFile ==
  ASSUME Typed, Safe
  PROVE  Intact
<1>1. CASE access_mode = "write"
  BY <1>1, HeldLength DEF Safe, WritesBehind, Intact
<1>2. CASE access_mode = "read"
  BY <1>2, HeldLength DEF Safe, Unwritten, Typed, GivenTyped, Intact
<1>. QED
  BY <1>1, <1>2 DEF Typed, PlaceTyped

LEMMA IntactNext ==
  ASSUME Typed, Typed', Safe', original' = original
  PROVE  \A i \in DOMAIN Body(original) : i \in DOMAIN file' /\ file'[i] = original[i]
<1>1. Body(original)' = Body(original) /\ Held' = Held
  BY DEF Body, Ends, Held
<1>2. DOMAIN Body(original) = 1 .. Held /\ Held <= Len(original) /\ Held \in Nat
  BY HeldLength
<1>3. CASE access_mode' = "write"
  BY <1>1, <1>2, <1>3 DEF Safe, WritesBehind
<1>4. CASE access_mode' = "read"
  <2>1. file' = original
    BY <1>4 DEF Safe, Unwritten
  <2>. QED
    BY <1>2, <2>1 DEF Typed, GivenTyped
<1>. QED
  BY <1>3, <1>4 DEF Typed, PlaceTyped

(* --append, --update and --concatenate never change a block of a member   *)
(* the archive holds, not even between two writes, whatever is added and   *)
(* whatever the archive is: if it has no end mark, or is made of whole     *)
(* records, for which find_next_block and backspace_output were written    *)
(* (update.c:105, buffer.c:721).                                           *)
THEOREM OldMembersStay == ASSUME WholeRecords PROVE Spec => OldMembersIntact
<1>. DEFINE Inv == Typed /\ Safe /\ original \in Archives
            Step == \A i \in DOMAIN Body(original) : i \in DOMAIN file' /\ file'[i] = original[i]
<1>1. Init => Inv
  BY InitTyped, InitSafe
<1>2. Inv /\ [Next]_vars => Inv' /\ [Step]_vars
  <2>1. SUFFICES ASSUME Inv, [Next]_vars
                 PROVE  Inv' /\ [Step]_vars
    OBVIOUS
  <2>2. Typed' /\ Safe'
    BY <2>1, TypedNext, SafeNext
  <2>3. original' = original
    BY <2>1, GivenKept DEF vars, given
  <2>4. Step
    BY <2>1, <2>2, <2>3, IntactNext
  <2>. QED
    BY <2>1, <2>2, <2>3, <2>4
<1>. QED
  BY <1>1, <1>2, PTL DEF Spec, OldMembersIntact

------------------------------------------------------------------------------
(* What the inputs add.                                                    *)

(* Sequences can be joined one after the other.                            *)
LEMMA Joined ==
  ASSUME NEW m \in Nat, NEW p \in [1 .. m -> Seq(Block)]
  PROVE  \E h \in [0 .. m -> Seq(Block)] :
           h[0] = <<>> /\ \A k \in 1 .. m : h[k] = h[k - 1] \o p[k]
<1>. DEFINE Fits(n, h) == /\ h \in [0 .. n -> Seq(Block)] /\ h[0] = <<>>
                          /\ \A k \in 1 .. n : h[k] = h[k - 1] \o p[k]
            Bad == {n \in 0 .. m : ~ \E h : Fits(n, h)}
<1>. HIDE DEF Fits
<1>1. CASE Bad # {}
  <2>1. Bad \subseteq Nat
    OBVIOUS
  <2>2. PICK n \in Bad : \A x \in Bad : n <= x
    <3>. HIDE DEF Bad
    <3>. QED
      BY <1>1, <2>1, MinOfNat
  <2>3. n # 0
    <3>1. Fits(0, [k \in 0 .. 0 |-> <<>>])
      BY DEF Fits
    <3>. QED
      BY <2>2, <3>1
  <2>4. n \in 1 .. m /\ n - 1 \in 0 .. m /\ n - 1 \notin Bad
    <3>1. n \in 0 .. m
      BY <2>2
    <3>. HIDE DEF Bad
    <3>2. n - 1 \notin Bad
      BY <2>2, <3>1
    <3>. QED
      BY <2>3, <3>1, <3>2
  <2>5. PICK h : Fits(n - 1, h)
    BY <2>4
  <2>. DEFINE f == [k \in 0 .. n |-> IF k = n THEN h[n - 1] \o p[n] ELSE h[k]]
  <2>6. n - 1 \in 0 .. n - 1 /\ h[n - 1] \in Seq(Block) /\ p[n] \in Seq(Block)
    BY <2>4, <2>5 DEF Fits
  <2>7. f \in [0 .. n -> Seq(Block)] /\ f[0] = <<>>
    BY <2>3, <2>4, <2>5, <2>6 DEF Fits
  <2>8. ASSUME NEW k \in 1 .. n
        PROVE  f[k] = f[k - 1] \o p[k]
    <3>1. k - 1 \in 0 .. n - 1 /\ f[k - 1] = h[k - 1]
      BY <2>4
    <3>2. k # n => k \in 1 .. n - 1 /\ f[k] = h[k]
      BY <2>4
    <3>3. CASE k = n
      <4>1. f[k] = h[n - 1] \o p[n]
        BY <3>3
      <4>. QED
        BY <3>1, <3>3, <4>1
    <3>4. CASE k # n
      <4>1. h[k] = h[k - 1] \o p[k]
        BY <2>5, <3>2, <3>4 DEF Fits
      <4>. QED
        BY <3>1, <3>2, <3>4, <4>1
    <3>. QED
      BY <3>3, <3>4
  <2>9. Fits(n, f)
    <3>. HIDE DEF f
    <3>. QED
      BY <2>7, <2>8 DEF Fits
  <2>. QED
    BY <2>2, <2>9
<1>2. CASE Bad = {}
  <2>1. m \in 0 .. m
    OBVIOUS
  <2>2. PICK h : Fits(m, h)
    BY <1>2, <2>1
  <2>. QED
    BY <2>2 DEF Fits
<1>. QED
  BY <1>1, <1>2

(* What the n-th input adds.                                               *)
Piece(n) == IF IsAdded(Inputs[n]) THEN Inputs[n].blocks ELSE <<>>

(* Added is the function its definition describes.                         *)
LEMMA AddedSteps ==
  ASSUME Typed
  PROVE  /\ Added \in [0 .. Len(Inputs) -> Seq(Block)]
         /\ Added[0] = <<>>
         /\ \A n \in 1 .. Len(Inputs) : Piece(n) \in Seq(Block) /\ Added[n] = Added[n - 1] \o Piece(n)
<1>. DEFINE N == Len(Inputs)
            p == [n \in 1 .. N |-> Piece(n)]
<1>1. Inputs \in Seq(Input) /\ N \in Nat
  BY UpdateAssumption, LenProperties DEF Typed, GivenTyped, Inputs
<1>2. ASSUME NEW n \in 1 .. N
      PROVE  Piece(n) \in Seq(Block)
  <2>1. Inputs[n] \in Input
    BY <1>1, ElementOfSeq
  <2>2. Inputs[n].blocks \in Seq(Block)
    BY <2>1 DEF Input
  <2>. QED
    BY <2>2 DEF Piece
<1>3. p \in [1 .. N -> Seq(Block)]
  BY <1>2
<1>. DEFINE D(f) == f = [n \in 0 .. N |-> IF n = 0 THEN <<>> ELSE f[n - 1] \o Piece(n)]
<1>7. PICK h \in [0 .. N -> Seq(Block)] :
        h[0] = <<>> /\ \A k \in 1 .. N : h[k] = h[k - 1] \o p[k]
  <2>. HIDE DEF p, N
  <2>. QED
    BY <1>1, <1>3, Joined
<1>8. \A k \in 1 .. N : h[k] = h[k - 1] \o Piece(k)
  BY <1>7
<1>9. D(h)
  <2>1. ASSUME NEW n \in 0 .. N
        PROVE  h[n] = IF n = 0 THEN <<>> ELSE h[n - 1] \o Piece(n)
    <3>1. n # 0 => n \in 1 .. N
      BY <1>1
    <3>. QED
      BY <1>7, <1>8, <3>1
  <2>2. h = [n \in 0 .. N |-> h[n]]
    BY <1>7
  <2>. QED
    BY <2>1, <2>2
<1>10. D(Added)
  <2>1. Added = CHOOSE f : D(f)
    BY DEF Added, Piece
  <2>. HIDE DEF D
  <2>. QED
    BY <1>9, <2>1
<1>11. /\ Added[0] = <<>>
       /\ \A n \in 1 .. N : Added[n] = Added[n - 1] \o Piece(n)
       /\ Added = [n \in 0 .. N |-> Added[n]]
  <2>1. \A n \in 0 .. N : Added[n] = IF n = 0 THEN <<>> ELSE Added[n - 1] \o Piece(n)
    BY <1>10
  <2>2. 0 \in 0 .. N /\ \A n \in 1 .. N : n \in 0 .. N /\ n # 0
    BY <1>1
  <2>3. Added = [n \in 0 .. N |-> Added[n]]
    BY <1>10
  <2>. HIDE DEF N
  <2>. QED
    BY <2>1, <2>2, <2>3
<1>12. \A n \in 0 .. N : Added[n] = h[n]
  <2>. DEFINE Bad == {n \in 0 .. N : Added[n] # h[n]}
  <2>1. CASE Bad # {}
    <3>1. Bad \subseteq Nat
      BY <1>1
    <3>2. PICK n \in Bad : \A x \in Bad : n <= x
      <4>. HIDE DEF Bad
      <4>. QED
        BY <2>1, <3>1, MinOfNat
    <3>3. n # 0
      BY <1>7, <1>11, <3>2
    <3>4. n - 1 \in 0 .. N /\ n - 1 \notin Bad /\ n \in 1 .. N
      BY <1>1, <3>2, <3>3
    <3>5. Added[n - 1] = h[n - 1]
      BY <3>4
    <3>. QED
      BY <1>8, <1>11, <3>2, <3>4, <3>5
  <2>2. CASE Bad = {}
    BY <2>2
  <2>. QED
    BY <2>1, <2>2
<1>. QED
  BY <1>2, <1>7, <1>11, <1>12

------------------------------------------------------------------------------
(* What the archive holds at the end.                                      *)

(* The data of a member are no headers and no end mark, and what follows   *)
(* the end mark are blocks of NULs.                                        *)
DataOf(b) ==
  IF b.kind = "header" THEN b.size ELSE IF b.kind \in {"long", "pax"} THEN 1 ELSE 0
IsProper(a) ==
  /\ \A i \in DOMAIN a : \A j \in i + 1 .. i + DataOf(a[i]) :
       j \in DOMAIN a => a[j].kind \notin {"header", "zero"}
  /\ \A e \in Ends(a) : \A i \in DOMAIN a : i >= e => a[i] = Zero
ProperArchives == \A a \in Archives : IsProper(a)

(* A file that is named twice has one time of modification.                *)
SameTimes ==
  \A c \in DOMAIN Offered : \A i, j \in DOMAIN Offered[c] :
    Offered[c][i].name = Offered[c][j].name => Offered[c][i].mtime = Offered[c][j].mtime

(* How far the archive was looked at, with the data of the last member.    *)
Seen ==
  fpos - end + cur + (IF pc = "skip" THEN left ELSE IF pc \in {"long", "pax"} THEN 1 ELSE 0)

(* The names to be avoided are those of members as recent as the file.     *)
Noted(n) ==
  \A x : x \in avoided <=>
    /\ subcommand_option = "update"
    /\ \E j \in DOMAIN original :
         /\ j <= n /\ original[j].kind = "header" /\ original[j].name = x
         /\ \E i \in DOMAIN Inputs : Inputs[i].name = x /\ UpToDate(original[j].off, Inputs[i])

Looked ==
  AtReading =>
    /\ todo = 0 /\ queue = <<>>
    /\ \A j \in DOMAIN original : j <= Seen => original[j].kind # "zero"
    /\ Noted(Seen)

(* What is to be written as far as the inputs were taken; where the record *)
(* will be written, and what the file will hold before current_block.      *)
Want == Body(original) \o Added[todo]
Base == IF access_mode = "read" THEN fpos - BF ELSE fpos
Level == Base + cur
LineAt(k) == IF k <= Base THEN file[k] ELSE record[k - Base - 1]

Chosen == \A i \in DOMAIN Inputs : Inputs[i].name \in avoided <=> ~ IsAdded(Inputs[i])
Queued ==
  /\ pc # "put" => queue = <<>>
  /\ Len(queue) <= Len(Want)
  /\ \A q \in 1 .. Len(queue) : queue[q] = Want[Len(Want) - Len(queue) + q]
Marks == IF pc = "eot2" THEN 1 ELSE IF pc = "close" THEN 2 ELSE 0
Laid ==
  /\ Level = Len(Want) - Len(queue) + Marks
  /\ \A k \in 1 .. Level : LineAt(k) = IF k <= Len(Want) THEN Want[k] ELSE Zero
  /\ pc = "close" => \A i \in Slots : i >= cur => record[i] = Zero
Built ==
  /\ end = BF /\ Base \in 0 .. Len(file)
  /\ Queued /\ Laid
  /\ pc \in {"eot1", "eot2", "close"} => todo = Len(Inputs)

Complete ==
  /\ todo = Len(Inputs) /\ Len(file) >= Len(Want) + 2
  /\ \A k \in DOMAIN file : file[k] = IF k <= Len(Want) THEN Want[k] ELSE Zero

ZerosBehind == AtWriting => \A k \in DOMAIN file : k > fpos => file[k] = Zero

Filled ==
  /\ Looked /\ ZerosBehind
  /\ AtWriting => Chosen /\ Built
  /\ pc = "done" => Complete

------------------------------------------------------------------------------
(* Before the first end mark.                                              *)

LEMMA BodyBlocks ==
  ASSUME NEW s \in Seq(Block)
  PROVE  /\ Body(s) \in Seq(Block)
         /\ \A i \in 1 .. Len(Body(s)) : Body(s)[i] = s[i] /\ s[i].kind # "zero"
         /\ Len(Body(s)) < Len(s) => Len(Body(s)) + 1 \in Ends(s)
<1>1. Len(s) \in Nat /\ Ends(s) \subseteq 1 .. Len(s)
  BY LenProperties DEF Ends
<1>2. ASSUME NEW i \in 1 .. Len(s), s[i].kind = "zero"
      PROVE  i \in Ends(s)
  BY <1>2 DEF Ends
<1>3. CASE Ends(s) = {}
  <2>1. Body(s) = s
    BY <1>3 DEF Body
  <2>. QED
    BY <1>1, <1>2, <1>3, <2>1
<1>4. CASE Ends(s) # {}
  <2>. DEFINE m == Min(Ends(s))
  <2>1. m \in Ends(s) /\ \A i \in Ends(s) : m <= i
    BY <1>1, <1>4, MinOfNat
  <2>2. m \in 1 .. Len(s)
    BY <1>1, <2>1
  <2>3. Body(s) = SubSeq(s, 1, m - 1)
    BY <1>4 DEF Body
  <2>. HIDE DEF m
  <2>4. Body(s) \in Seq(Block) /\ Len(Body(s)) = m - 1
    BY <1>1, <2>2, <2>3
  <2>5. \A i \in 1 .. m - 1 : Body(s)[i] = s[i]
    BY <1>1, <2>2, <2>3
  <2>6. ASSUME NEW i \in 1 .. m - 1
        PROVE  s[i].kind # "zero"
    BY <1>1, <1>2, <2>1, <2>2
  <2>. QED
    BY <2>1, <2>2, <2>4, <2>5, <2>6
<1>. QED
  BY <1>3, <1>4

LEMMA BodyReaches ==
  ASSUME NEW s \in Seq(Block), NEW n \in 0 .. Len(s),
         \A j \in 1 .. n : s[j].kind # "zero"
  PROVE  n <= Len(Body(s))
<1>1. Len(s) \in Nat /\ Len(Body(s)) \in Nat /\ Len(Body(s)) <= Len(s)
  BY BodyLength, LenProperties
<1>2. SUFFICES ASSUME Len(Body(s)) < n
               PROVE  FALSE
  BY <1>1
<1>3. Len(Body(s)) + 1 \in Ends(s)
  BY <1>1, <1>2, BodyBlocks
<1>4. s[Len(Body(s)) + 1].kind = "zero"
  BY <1>3 DEF Ends
<1>. QED
  BY <1>1, <1>2, <1>4

------------------------------------------------------------------------------
(* Looking for the end of the archive.                                     *)

(* Which blocks were looked at, and the names found in them.               *)
Clear(n) == \A j \in DOMAIN original : j <= n => original[j].kind # "zero"

(* Blocks that are neither headers nor end marks make no difference.       *)
LEMMA Passing ==
  ASSUME Typed, NEW n \in Int, NEW m \in Int, Clear(n), Noted(n), n <= m,
         \A j \in n + 1 .. m : j \in DOMAIN original => original[j].kind \notin {"header", "zero"}
  PROVE  Clear(m) /\ Noted(m)
<1>1. original \in Seq(Block) /\ \A j \in DOMAIN original : j \in Int
  BY DEF Typed, GivenTyped
<1>2. ASSUME NEW j \in DOMAIN original, j <= m
      PROVE  j <= n \/ original[j].kind \notin {"header", "zero"}
  BY <1>1, <1>2
<1>3. \A j \in DOMAIN original : j <= n => j <= m
  BY <1>1
<1>4. Clear(m)
  BY <1>2 DEF Clear
<1>5. Noted(m)
  <2>1. ASSUME NEW x
        PROVE  (\E j \in DOMAIN original :
                  /\ j <= m /\ original[j].kind = "header" /\ original[j].name = x
                  /\ \E i \in DOMAIN Inputs : Inputs[i].name = x /\ UpToDate(original[j].off, Inputs[i]))
               <=> (\E j \in DOMAIN original :
                  /\ j <= n /\ original[j].kind = "header" /\ original[j].name = x
                  /\ \E i \in DOMAIN Inputs : Inputs[i].name = x /\ UpToDate(original[j].off, Inputs[i]))
    BY <1>2, <1>3
  <2>. QED
    BY <2>1 DEF Noted
<1>. QED
  BY <1>4, <1>5

(* The block tar looks at.                                                 *)
LEMMA BlockOfArchive ==
  ASSUME Typed, Safe, AtReading, HasBlock
  PROVE  /\ fpos - end + cur \in Nat
         /\ fpos - end + cur + 1 \in DOMAIN original
         /\ original[fpos - end + cur + 1] = block
<1>1. BF \in Nat \ {0} /\ fpos \in Nat /\ end \in Nat /\ cur \in 0 .. end - 1
  BY ArchiveFileAssumption DEF HasBlock, Typed, BufferTyped, FileTyped
<1>2. end <= fpos /\ fpos <= Len(original) /\ Len(original) \in Nat
  BY HeldLength DEF Safe, ReadsRecords
<1>3. fpos - end + cur + 1 \in 1 .. Len(original)
  BY <1>1, <1>2
<1>4. original[fpos - end + cur + 1] = block
  BY <1>1 DEF Safe, ReadsRecords, block
<1>. QED
  BY <1>1, <1>2, <1>3, <1>4 DEF Typed, GivenTyped

LEMMA GivenSame ==
  ASSUME UNCHANGED given
  PROVE  /\ original' = original /\ Inputs' = Inputs /\ subcommand_option' = subcommand_option
BY DEF given, Inputs

LEMMA LookedSame ==
  ASSUME Typed, Looked, AtReading, UNCHANGED given, UNCHANGED <<avoided, todo, queue>>,
         Clear(Seen'), Noted(Seen')
  PROVE  Looked'
<1>1. todo' = 0 /\ queue' = <<>>
  BY DEF Looked
<1>2. Clear(Seen)'
  BY GivenSame DEF Clear
<1>3. Noted(Seen)'
  BY GivenSame DEF Noted, UpToDate
<1>. QED
  BY <1>1, <1>2, <1>3 DEF Looked, Clear

LEMMA ScanMemberLooked ==
  ASSUME ProperArchives, original \in Archives, Typed, Safe, Looked, ScanMember
  PROVE  Looked'
<1>. DEFINE s == fpos - end + cur
            n == s + 1 + block.size
<1>1. AtReading /\ HasBlock /\ pc = "scan" /\ block.kind = "header"
  BY DEF ScanMember, AtReading
<1>2. s \in Nat /\ s + 1 \in DOMAIN original /\ original[s + 1] = block
  BY <1>1, BlockOfArchive
<1>3. Seen = s /\ Clear(s) /\ Noted(s) /\ block.size \in Nat
  BY <1>1, <1>2, BlockSeen DEF Seen, Looked, Clear
<1>4. Seen' = n
  BY <1>2, <1>3 DEF ScanMember, Scanning, Seen, Typed, BufferTyped, FileTyped
<1>5. Clear(s + 1)
  BY <1>1, <1>2, <1>3 DEF Clear, Typed, GivenTyped
<1>6. /\ UNCHANGED given /\ todo' = 0 /\ queue' = <<>>
      /\ avoided' = IF subcommand_option = "update"
                       /\ \E i \in DOMAIN Inputs :
                            Inputs[i].name = block.name /\ UpToDate(block.off, Inputs[i])
                    THEN avoided \cup {block.name} ELSE avoided
  BY <1>1 DEF ScanMember, Scanning, Looked
<1>7. ASSUME NEW j \in s + 2 .. n, j \in DOMAIN original
      PROVE  original[j].kind \notin {"header", "zero"}
  <2>1. DataOf(original[s + 1]) = block.size
    BY <1>1, <1>2 DEF DataOf
  <2>2. IsProper(original)
    BY DEF ProperArchives
  <2>3. j \in (s + 1) + 1 .. (s + 1) + block.size
    BY <1>2, <1>3
  <2>. HIDE DEF s, n
  <2>. QED
    BY <1>2, <1>7, <2>1, <2>2, <2>3 DEF IsProper
<1>. HIDE DEF s
<1>8. ASSUME NEW j \in DOMAIN original
      PROVE  /\ j <= n => j <= s \/ j = s + 1 \/ (original[j].kind \notin {"header", "zero"})
             /\ j <= s => j <= n
             /\ s + 1 <= n
  <2>1. j \in Int
    BY DEF Typed, GivenTyped
  <2>. QED
    BY <1>2, <1>3, <1>7, <2>1
<1>9. Clear(n)
  BY <1>1, <1>2, <1>3, <1>8 DEF Clear
<1>. DEFINE Hit(x, j) == /\ original[j].kind = "header" /\ original[j].name = x
                         /\ \E i \in DOMAIN Inputs :
                              Inputs[i].name = x /\ UpToDate(original[j].off, Inputs[i])
<1>10. ASSUME NEW x
       PROVE  x \in avoided' <=> /\ subcommand_option = "update"
                                 /\ \E j \in DOMAIN original : j <= n /\ Hit(x, j)
  <2>1. x \in avoided <=> /\ subcommand_option = "update"
                          /\ \E j \in DOMAIN original : j <= s /\ Hit(x, j)
    BY <1>3 DEF Noted
  <2>2. Hit(x, s + 1) <=> /\ x = block.name
                          /\ \E i \in DOMAIN Inputs :
                               Inputs[i].name = block.name /\ UpToDate(block.off, Inputs[i])
    BY <1>1, <1>2
  <2>3. x \in avoided' <=> x \in avoided \/ (subcommand_option = "update" /\ Hit(x, s + 1))
    BY <1>6, <2>2
  <2>4. \A j \in DOMAIN original : Hit(x, j) => original[j].kind = "header"
    OBVIOUS
  <2>. HIDE DEF Hit, n
  <2>5. (\E j \in DOMAIN original : j <= n /\ Hit(x, j))
        <=> Hit(x, s + 1) \/ \E j \in DOMAIN original : j <= s /\ Hit(x, j)
    BY <1>2, <1>8, <2>4
  <2>. QED
    BY <2>1, <2>3, <2>5
<1>. HIDE DEF n
<1>11. Clear(Seen)'
  BY <1>4, <1>6, <1>9, GivenSame DEF Clear
<1>12. Noted(Seen)'
  BY <1>4, <1>6, <1>10, GivenSame DEF Noted, UpToDate
<1>. QED
  BY <1>6, <1>11, <1>12 DEF Looked, Clear

(* Steps that look at other blocks.                                        *)
LEMMA PassesLooked ==
  ASSUME ProperArchives, original \in Archives, Typed, Safe, Looked,
         ScanExtension \/ ScanNonHeader
  PROVE  Looked'
<1>. DEFINE s == fpos - end + cur
            m == s + 1 + DataOf(block)
<1>1. AtReading /\ HasBlock /\ pc = "scan" /\ block.kind \notin {"header", "zero"}
  BY DEF ScanExtension, ScanNonHeader, AtReading
<1>2. s \in Nat /\ s + 1 \in DOMAIN original /\ original[s + 1] = block
  BY <1>1, BlockOfArchive
<1>3. Seen = s /\ Clear(s) /\ Noted(s)
  BY <1>1, <1>2 DEF Seen, Looked, Clear
<1>4. DataOf(block) \in Nat /\ Seen' = m
  <2>1. fpos \in Nat /\ end \in Nat /\ cur \in Nat
    BY <1>1, ArchiveFileAssumption DEF Typed, BufferTyped, FileTyped
  <2>2. /\ UNCHANGED <<fpos, end>> /\ cur' = cur + 1
        /\ \/ pc' = block.kind /\ block.kind \in {"long", "pax"}
           \/ pc' = "scan" /\ block.kind \in {"data", "extdata", "junk"}
    BY DEF ScanExtension, ScanNonHeader, Scanning
  <2>3. Seen' = s + 1 + (IF pc' \in {"long", "pax"} THEN 1 ELSE 0)
    BY <2>1, <2>2 DEF Seen
  <2>4. DataOf(block) = IF pc' \in {"long", "pax"} THEN 1 ELSE 0
    BY <2>2 DEF DataOf
  <2>. QED
    BY <2>3, <2>4
<1>5. UNCHANGED given /\ UNCHANGED <<avoided, todo, queue>>
  BY DEF ScanExtension, ScanNonHeader, Scanning
<1>6. IsProper(original)
  BY DEF ProperArchives
<1>7. ASSUME NEW j \in s + 1 .. m, j \in DOMAIN original
      PROVE  original[j].kind \notin {"header", "zero"}
  <2>1. j = s + 1 \/ j \in (s + 1) + 1 .. (s + 1) + DataOf(original[s + 1])
    BY <1>2, <1>4
  <2>. HIDE DEF s
  <2>. QED
    BY <1>1, <1>2, <1>6, <1>7, <2>1 DEF IsProper
<1>8. m \in Int /\ s <= m
  BY <1>2, <1>4
<1>. HIDE DEF s, m
<1>9. Clear(m) /\ Noted(m)
  <2>1. s \in Int /\ m \in Int /\ s <= m
    BY <1>2, <1>8
  <2>2. \A j \in s + 1 .. m : j \in DOMAIN original => original[j].kind \notin {"header", "zero"}
    BY <1>7
  <2>. QED
    BY <1>3, <2>1, <2>2, Passing
<1>. QED
  BY <1>1, <1>4, <1>5, <1>9, LookedSame

(* Steps that pass over data, or find that there are none.                 *)
LEMMA DataLooked ==
  ASSUME Typed, Safe, Looked, SkipData \/ ScanExtensionData \/ Fetch
  PROVE  Looked'
<1>1. AtReading /\ UNCHANGED given /\ UNCHANGED <<avoided, todo, queue>>
  BY DEF SkipData, ScanExtensionData, Fetch, Scanning, AtReading, task
<1>2. /\ fpos \in Nat /\ end \in Nat /\ cur \in 0 .. end /\ left \in Nat
      /\ Len(original) \in Nat
  BY HeldLength, ArchiveFileAssumption DEF Typed, FileTyped, BufferTyped, TaskTyped
<1>3. Clear(Seen) /\ Noted(Seen) /\ Seen \in Int
  BY <1>1, <1>2 DEF Looked, Clear, Seen
<1>4. CASE SkipData
  <2>. DEFINE n == Lesser(end - cur, left)
  <2>1. n \in Nat /\ n <= left
    BY <1>2 DEF Lesser
  <2>2. UNCHANGED <<fpos, end>> /\ pc = "skip" /\ cur' = cur + n /\ left' = left - n
        /\ pc' = IF left' > 0 THEN "skip" ELSE "scan"
    BY <1>4 DEF SkipData, Scanning
  <2>. HIDE DEF n
  <2>3. Seen' = Seen
    BY <1>2, <2>1, <2>2 DEF Seen
  <2>. QED
    BY <1>1, <1>3, <2>3, LookedSame
<1>5. CASE Fetch
  <2>1. /\ cur = end /\ cur' = 0 /\ fpos' = fpos + Readable /\ end' = Readable
        /\ pc' = pc /\ left' = left
    BY <1>5 DEF Fetch, FetchRecord, FlushArchive, ReadRecord, task
  <2>2. Readable \in Nat
    BY ReadableRange, ArchiveFileAssumption DEF Typed, FileTyped
  <2>3. Seen' = Seen
    <3>1. fpos' - end' + cur' = fpos - end + cur
      BY <1>2, <2>1, <2>2
    <3>. QED
      BY <2>1, <3>1 DEF Seen
  <2>. QED
    BY <1>1, <1>3, <2>3, LookedSame
<1>6. CASE ScanExtensionData /\ HasBlock
  <2>1. /\ UNCHANGED <<fpos, end>> /\ pc \in {"long", "pax"} /\ cur' = cur + 1
        /\ pc' = "scan"
    BY <1>2, <1>6 DEF ScanExtensionData, Scanning, HasBlock, AtEof
  <2>2. Seen = fpos - end + cur + 1
    <3>1. pc # "skip" /\ pc \in {"long", "pax"}
      BY <2>1
    <3>. QED
      BY <3>1 DEF Seen
  <2>3. Seen' = fpos' - end' + cur' + 0
    <3>1. pc' # "skip" /\ pc' \notin {"long", "pax"}
      BY <2>1
    <3>. QED
      BY <3>1 DEF Seen
  <2>4. Seen' = Seen
    BY <1>2, <2>1, <2>2, <2>3
  <2>. QED
    BY <1>1, <1>3, <2>4, LookedSame
<1>7. CASE ScanExtensionData /\ ~ HasBlock
  <2>1. /\ UNCHANGED <<fpos, end>> /\ pc \in {"long", "pax"} /\ cur' = cur /\ cur = end /\ hit_eof
        /\ pc' \in {"scan", "undefined"}
    BY <1>7 DEF ScanExtensionData, Scanning, HasBlock, AtEof
  <2>2. fpos = Len(original)
    BY <1>1, <2>1 DEF Safe, ReadsRecords
  <2>3. Seen' = Len(original) /\ Seen = Len(original) + 1
    BY <1>2, <2>1, <2>2 DEF Seen
  <2>4. \A j \in DOMAIN original : j <= Len(original) <=> j <= Len(original) + 1
    BY <1>2 DEF Typed, GivenTyped
  <2>5. Clear(Seen') /\ Noted(Seen')
    BY <1>3, <2>3, <2>4 DEF Clear, Noted
  <2>. QED
    BY <1>1, <2>5, LookedSame
<1>. QED
  BY <1>4, <1>5, <1>6, <1>7

LEMMA LookedNext ==
  ASSUME ProperArchives, original \in Archives, Typed, Safe, Looked, Next
  PROVE  Looked'
<1>1. CASE SkipUnexpectedEof \/ FoundZeroBlock \/ FoundEndOfFile \/ NextInput \/ Put \/ InputShrank
           \/ StartEot \/ WriteEot
  BY <1>1 DEF SkipUnexpectedEof, FoundZeroBlock, FoundEndOfFile, NextInput, Put, InputShrank,
              StartEot, WriteEot, Looked, AtReading
<1>2. CASE Flush
  BY <1>2 DEF Flush, Looked, AtReading
<1>. QED
  BY <1>1, <1>2, ScanMemberLooked, PassesLooked, DataLooked DEF Next

------------------------------------------------------------------------------
(* What is to be written.                                                  *)

LEMMA GivenSameWant ==
  ASSUME UNCHANGED given
  PROVE  /\ Added' = Added /\ Body(original)' = Body(original)
         /\ Want' = Body(original) \o Added[todo']
         /\ \A m : IsAdded(m)' <=> IsAdded(m)
<1>1. original' = original /\ Inputs' = Inputs /\ subcommand_option' = subcommand_option
  BY GivenSame
<1>2. Body(original)' = Body(original)
  BY <1>1 DEF Body, Ends
<1>3. Added' = Added
  BY <1>1, <1>2 DEF Added, IsAdded, InArchive
<1>4. \A m : IsAdded(m)' <=> IsAdded(m)
  BY <1>1, <1>2 DEF IsAdded, InArchive
<1>. QED
  BY <1>2, <1>3, <1>4 DEF Want

LEMMA WantType ==
  ASSUME Typed, NEW n \in 0 .. Len(Inputs)
  PROVE  /\ Body(original) \o Added[n] \in Seq(Block)
         /\ Len(Body(original) \o Added[n]) = Held + Len(Added[n])
         /\ Len(Added[n]) \in Nat
<1>1. Body(original) \in Seq(Block) /\ Added[n] \in Seq(Block)
  BY AddedSteps, BodyBlocks DEF Typed, GivenTyped
<1>. QED
  BY <1>1, LenProperties, ConcatProperties DEF Held

(* Every input adds its piece at the end.                                  *)
LEMMA WantGrows ==
  ASSUME Typed, NEW n \in 1 .. Len(Inputs)
  PROVE  /\ Piece(n) \in Seq(Block)
         /\ Body(original) \o Added[n] = (Body(original) \o Added[n - 1]) \o Piece(n)
<1>1. Len(Inputs) \in Nat
  BY LenProperties, UpdateAssumption DEF Typed, GivenTyped, Inputs
<1>2. n - 1 \in 0 .. Len(Inputs)
  BY <1>1
<1>3. /\ Body(original) \in Seq(Block) /\ Added[n - 1] \in Seq(Block) /\ Piece(n) \in Seq(Block)
      /\ Added[n] = Added[n - 1] \o Piece(n)
  BY <1>2, AddedSteps, BodyBlocks DEF Typed, GivenTyped
<1>. DEFINE b == Body(original)
            a == Added[n - 1]
            p == Piece(n)
<1>4. b \in Seq(Block) /\ a \in Seq(Block) /\ p \in Seq(Block)
  BY <1>3
<1>. HIDE DEF b, a, p
<1>5. (b \o a) \o p = b \o (a \o p)
  BY <1>4, ConcatAssociative
<1>. QED
  BY <1>3, <1>5 DEF b, a, p

(* Where the writing begins.                                               *)
LEMMA BeginsBuilt ==
  ASSUME ProperArchives, SameTimes, original \in Archives, Typed, Typed', Safe, Safe', Looked,
         FoundZeroBlock \/ FoundEndOfFile
  PROVE  Chosen' /\ Built' /\ ZerosBehind'
<1>1. /\ UNCHANGED given /\ UNCHANGED <<file, fpos, avoided, todo, queue>>
      /\ AtReading /\ pc = "scan" /\ pc' = "add" /\ AtWriting'
  BY DEF FoundZeroBlock, FoundEndOfFile, Scanning, AtReading, AtWriting
<1>2. /\ BF \in Nat \ {0} /\ fpos \in Nat /\ end \in Nat /\ cur \in 0 .. end
      /\ Len(original) \in Nat /\ fpos <= Len(original) /\ end <= fpos
      /\ file = original /\ original \in Seq(Block)
  BY <1>1, HeldLength, ArchiveFileAssumption
     DEF Typed, GivenTyped, FileTyped, BufferTyped, Safe, ReadsRecords, Unwritten
<1>3. /\ Seen = fpos - end + cur /\ todo = 0 /\ queue = <<>>
      /\ Clear(Seen) /\ Noted(Seen)
  BY <1>1, <1>2 DEF Seen, Looked, Clear
<1>4. /\ Held \in Nat /\ Held <= Len(original) /\ \A i \in Ends(original) : Held < i
      /\ \A i \in 1 .. Held : Body(original)[i] = original[i]
      /\ Held < Len(original) => Held + 1 \in Ends(original)
  BY <1>2, HeldLength, BodyBlocks DEF Held
<1>5. Seen <= Held
  <2>1. Seen \in 0 .. Len(original)
    BY <1>2, <1>3
  <2>2. \A j \in 1 .. Seen : original[j].kind # "zero"
    BY <1>2, <1>3, <2>1 DEF Clear
  <2>. QED
    BY <1>2, <2>1, <2>2, BodyReaches DEF Held
<1>6. /\ Held = Seen
      /\ end' = BF /\ Base' \in 0 .. Len(file) /\ Base' + cur' = Held
      /\ \A k \in DOMAIN file : k > fpos => file[k] = Zero
  <2>1. CASE FoundZeroBlock
    <3>1. /\ HasBlock /\ block.kind = "zero"
          /\ UNCHANGED <<end, cur, access_mode>> /\ access_mode = "read"
      BY <1>1, <2>1 DEF FoundZeroBlock, Scanning, Safe, ReadsRecords
    <3>2. Seen + 1 \in DOMAIN original /\ original[Seen + 1].kind = "zero"
      BY <1>1, <1>3, <3>1, BlockOfArchive
    <3>3. Seen + 1 \in Ends(original)
      BY <3>2 DEF Ends
    <3>4. Held = Seen
      BY <1>2, <1>3, <1>4, <1>5, <3>3
    <3>5. end' = BF /\ fpos' >= BF
      BY <1>1, <3>1 DEF Safe, StepsBack
    <3>6. Base' = fpos - BF /\ end = BF
      BY <1>1, <3>1, <3>5 DEF Base
    <3>7. ASSUME NEW k \in DOMAIN file, k > fpos
          PROVE  file[k] = Zero
      <4>1. IsProper(original)
        BY DEF ProperArchives
      <4>2. k \in DOMAIN original /\ k >= Seen + 1
        BY <1>2, <1>3, <3>1, <3>7 DEF HasBlock
      <4>. QED
        BY <1>2, <3>3, <4>1, <4>2 DEF IsProper
    <3>. QED
      BY <1>1, <1>2, <1>3, <3>1, <3>4, <3>5, <3>6, <3>7
  <2>2. CASE FoundEndOfFile
    <3>1. /\ AtEof /\ cur' = 0 /\ end' = BF /\ access_mode' = "write"
      BY <2>2 DEF FoundEndOfFile, ModeAfterReset
    <3>2. fpos = Len(original) /\ cur = end
      BY <1>1, <3>1 DEF Safe, ReadsRecords, AtEof
    <3>3. Held = Seen /\ Seen = fpos
      BY <1>2, <1>3, <1>4, <1>5, <3>2
    <3>4. Base' = fpos
      BY <1>1, <3>1 DEF Base
    <3>5. DOMAIN file = 1 .. Len(original)
      BY <1>2
    <3>. QED
      BY <1>2, <3>1, <3>2, <3>3, <3>4, <3>5
  <2>. QED
    BY <2>1, <2>2
<1>7. Want' = Body(original) /\ Want' \in Seq(Block) /\ Len(Want') = Held
  <2>1. Want' = Body(original) \o <<>>
    BY <1>1, <1>3, GivenSameWant, AddedSteps
  <2>2. Body(original) \in Seq(Block)
    BY <1>2, BodyBlocks
  <2>. QED
    BY <2>1, <2>2 DEF Held
<1>8. Chosen'
  <2>1. ASSUME NEW i \in DOMAIN Inputs
        PROVE  Inputs[i].name \in avoided <=> ~ IsAdded(Inputs[i])
    <3>. DEFINE m == Inputs[i]
    <3>1. \A i2 \in DOMAIN Inputs : Inputs[i2].name = m.name => Inputs[i2].mtime = m.mtime
      BY DEF SameTimes, Typed, GivenTyped, Inputs
    <3>2. m.name \in avoided <=>
            /\ subcommand_option = "update"
            /\ \E j \in DOMAIN original :
                 /\ j <= Held /\ original[j].kind = "header" /\ original[j].name = m.name
                 /\ \E i2 \in DOMAIN Inputs : /\ Inputs[i2].name = m.name
                                             /\ Inputs[i2].mtime <= original[j].off
      BY <1>3, <1>6 DEF Noted, UpToDate
    <3>3. ASSUME NEW j \in DOMAIN original
          PROVE  (\E i2 \in DOMAIN Inputs : /\ Inputs[i2].name = m.name
                                           /\ Inputs[i2].mtime <= original[j].off)
                 <=> m.mtime <= original[j].off
      BY <3>1
    <3>4. DOMAIN Body(original) = {j \in DOMAIN original : j <= Held}
      BY <1>2, <1>4, HeldLength
    <3>5. m.mtime \in Nat /\ \A j \in DOMAIN original : original[j].off \in Nat
      <4>1. m \in Input
        BY UpdateAssumption, ElementOfSeq DEF Typed, GivenTyped, Inputs
      <4>2. \A j \in DOMAIN original : original[j] \in Block
        BY <1>2
      <4>. QED
        BY <4>1, <4>2 DEF Input, Block
    <3>6. (\E j \in DOMAIN original :
             /\ j <= Held /\ original[j].kind = "header" /\ original[j].name = m.name
             /\ \E i2 \in DOMAIN Inputs : /\ Inputs[i2].name = m.name
                                         /\ Inputs[i2].mtime <= original[j].off)
          <=> InArchive(m)
      <4>. HIDE DEF m
      <4>. QED
        BY <3>3, <3>4, <3>5 DEF InArchive
    <3>. HIDE DEF m
    <3>7. m.name \in avoided <=> ~ IsAdded(m)
      BY <3>2, <3>6 DEF IsAdded
    <3>. QED
      BY <3>7 DEF m
  <2>. QED
    BY <1>1, <2>1, GivenSame, GivenSameWant DEF Chosen
<1>9. ASSUME NEW k \in 1 .. Held
      PROVE  LineAt(k)' = Want'[k]
  <2>1. Want'[k] = original[k]
    BY <1>4, <1>7
  <2>2. CASE k <= Base'
    BY <1>1, <1>2, <2>1, <2>2 DEF LineAt
  <2>3. CASE k > Base'
    <3>1. access_mode' = "read" /\ Base' = fpos' - BF
      <4>1. access_mode' # "write"
        <5>1. access_mode' = "write" => FoundEndOfFile
          BY <1>1 DEF FoundZeroBlock, Safe, ReadsRecords, writer
        <5>2. FoundEndOfFile => cur' = 0
          BY DEF FoundEndOfFile
        <5>. QED
          BY <1>6, <1>4, <2>3, <5>1, <5>2
      <4>. QED
        BY <4>1 DEF Typed, PlaceTyped, Base
    <3>2. k - Base' - 1 \in Slots
      <4>1. Base' \in Nat /\ cur' \in 0 .. BF
        BY <1>2, <1>6 DEF Typed, BufferTyped
      <4>. QED
        <5>1. k - Base' - 1 \in Nat /\ k - Base' - 1 < BF
          <6>. DEFINE b == Base'
                      c == cur'
          <6>1. k \in Nat /\ k <= b + c /\ BF \in Nat
            BY <1>2, <1>4, <1>6
          <6>2. b \in Nat /\ c \in 0 .. BF /\ k > b
            BY <2>3, <4>1
          <6>. HIDE DEF b, c
          <6>3. k - b - 1 \in Nat /\ k - b - 1 < BF
            BY <6>1, <6>2
          <6>. QED
            BY <6>3 DEF b
        <5>. QED
          BY <1>2, <5>1 DEF Slots
    <3>3. Held' = Held
      BY <1>1, GivenSameWant DEF Held
    <3>4. fpos' - BF + (k - Base' - 1) + 1 = k
      BY <1>1, <1>2, <3>1
    <3>5. record'[k - Base' - 1] = original[k]
      <4>1. \A i \in Slots : fpos' - BF + i + 1 <= Held => record'[i] = original[fpos' - BF + i + 1]
        BY <1>1, <3>1, <3>3, GivenSame DEF Safe, StepsBack
      <4>. QED
        BY <1>4, <3>2, <3>4, <4>1
    <3>. QED
      BY <1>2, <1>6, <2>1, <2>3, <3>5 DEF LineAt
  <2>. QED
    BY <1>2, <1>6, <2>2, <2>3
<1>10. Queued' /\ Laid'
  <2>1. Len(queue') = 0 /\ queue' = <<>>
    BY <1>1, <1>3
  <2>2. Queued'
    BY <1>4, <1>7, <2>1 DEF Queued
  <2>3. Marks' = 0 /\ Level' = Held
    BY <1>1, <1>6 DEF Marks, Level
  <2>4. Laid'
    BY <1>1, <1>4, <1>7, <1>9, <2>1, <2>3 DEF Laid
  <2>. QED
    BY <2>2, <2>4
<1>11. Built'
  BY <1>1, <1>6, <1>10 DEF Built
<1>12. ZerosBehind'
  BY <1>1, <1>6 DEF ZerosBehind
<1>. QED
  BY <1>8, <1>11, <1>12

(* A record written at p holds what the file is to hold there.             *)
LEMMA WritesRecord ==
  ASSUME NEW f \in Seq(Block), NEW r \in [Slots -> Block], NEW p \in 0 .. Len(f)
  PROVE  LET g == Overwritten(f, p, RecordBlocks(r))
         IN  /\ g \in Seq(Block) /\ Len(g) >= p + BF
             /\ \A k \in 1 .. p : g[k] = f[k]
             /\ \A k \in p + 1 .. p + BF : g[k] = r[k - p - 1]
             /\ \A k \in DOMAIN g : k > p + BF => k \in DOMAIN f /\ g[k] = f[k]
<1>. DEFINE w == RecordBlocks(r)
            g == Overwritten(f, p, w)
<1>1. BF \in Nat /\ Len(f) \in Nat /\ Zero \in Block
  BY ArchiveFileAssumption, LenProperties DEF Zero, Block, Kinds
<1>2. w \in Seq(Block) /\ Len(w) = BF /\ \A i \in 1 .. BF : w[i] = r[i - 1]
  BY RecordBlocksType
<1>. HIDE DEF w
<1>3. g \in Seq(Block) /\ Len(g) = Greater(Len(f), p + BF)
  BY <1>1, <1>2, OverwrittenType
<1>4. Len(g) \in Nat /\ Len(g) >= p + BF /\ Len(g) >= Len(f) /\ DOMAIN g = 1 .. Len(g)
  BY <1>1, <1>3 DEF Greater
<1>5. \A k \in 1 .. Len(g) :
        g[k] = IF k > p /\ k <= p + BF THEN w[k - p] ELSE IF k <= Len(f) THEN f[k] ELSE Zero
  BY <1>2, <1>3 DEF Overwritten
<1>. HIDE DEF g
<1>6. \A k \in 1 .. p : g[k] = f[k]
  BY <1>1, <1>4, <1>5
<1>7. ASSUME NEW k \in p + 1 .. p + BF
      PROVE  g[k] = r[k - p - 1]
  <2>1. k \in 1 .. Len(g) /\ k > p /\ k <= p + BF /\ k - p \in 1 .. BF
    BY <1>1, <1>4
  <2>2. g[k] = w[k - p]
    BY <1>5, <2>1
  <2>. QED
    BY <1>1, <1>2, <2>1, <2>2
<1>8. ASSUME NEW k \in DOMAIN g, k > p + BF
      PROVE  k \in DOMAIN f /\ g[k] = f[k]
  <2>1. Len(g) \in {Len(f), p + BF}
    BY <1>1, <1>3 DEF Greater
  <2>2. k \in 1 .. Len(f)
    <3>1. k \in Nat \ {0} /\ k <= Len(g)
      BY <1>4
    <3>. QED
      BY <1>1, <1>8, <2>1, <3>1
  <2>. QED
    BY <1>1, <1>4, <1>5, <1>8, <2>2
<1>. QED
  BY <1>3, <1>4, <1>6, <1>7, <1>8 DEF g, w

LEMMA FlushBuilt ==
  ASSUME Typed, Safe, Chosen, Built, ZerosBehind, Flush
  PROVE  /\ AtWriting' => Chosen' /\ Built' /\ ZerosBehind'
         /\ pc' = "done" => Complete'
<1>1. /\ AtWriting /\ UNCHANGED given /\ UNCHANGED <<record, avoided, todo, queue>>
      /\ pc' = IF pc = "close" THEN "done" ELSE pc
      /\ pc # "close" => pc \in {"put", "eot1", "eot2"} /\ cur = end
      /\ access_mode \in {"read", "write"}
  BY DEF Flush, AtWriting, Typed, PlaceTyped
<1>2. /\ BF \in Nat \ {0} /\ cur \in 0 .. BF /\ end = BF /\ Base \in 0 .. Len(file)
      /\ file \in Seq(Block) /\ record \in [Slots -> Block] /\ Len(file) \in Nat
  BY ArchiveFileAssumption, LenProperties DEF Typed, FileTyped, BufferTyped, Built
<1>3. /\ file' = Overwritten(file, Base, RecordBlocks(record))
      /\ fpos' = Base + BF /\ cur' = 0 /\ end' = BF /\ access_mode' = "write"
  <2>1. CASE access_mode = "read"
    <3>1. fpos >= BF /\ fpos \in Nat
      BY <1>1, <2>1 DEF Safe, StepsBack, Typed, FileTyped
    <3>2. StepBack = fpos - BF /\ Base = fpos - BF
      BY <1>2, <2>1, <3>1 DEF StepBack, Greater, Base
    <3>. QED
      BY <2>1, <3>2 DEF Flush, FlushAt
  <2>2. CASE access_mode = "write"
    BY <2>2 DEF Flush, FlushAt, Base, writer
  <2>. QED
    BY <1>1, <2>1, <2>2
<1>4. fpos <= Base + BF /\ fpos \in Nat
  BY <1>2 DEF Base, Typed, FileTyped
<1>. DEFINE p == Base
            W == Want
<1>5. W \in Seq(Block) /\ Len(W) \in Nat /\ Want' = W
  BY <1>1, WantType, LenProperties, GivenSameWant DEF Want, Typed, TaskTyped
<1>6. /\ file' \in Seq(Block) /\ Len(file') >= p + BF
      /\ \A k \in 1 .. p : file'[k] = file[k]
      /\ \A k \in p + 1 .. p + BF : file'[k] = record[k - p - 1]
      /\ \A k \in DOMAIN file' : k > p + BF => k \in DOMAIN file /\ file'[k] = file[k]
  BY <1>2, <1>3, WritesRecord
<1>7. /\ p + cur = Len(W) - Len(queue) + Marks
      /\ \A k \in 1 .. p + cur : LineAt(k) = IF k <= Len(W) THEN W[k] ELSE Zero
      /\ pc = "close" => \A i \in Slots : i >= cur => record[i] = Zero
  BY DEF Built, Laid, Level
<1>8. \A k \in 1 .. p + BF : file'[k] = LineAt(k)
  BY <1>2, <1>6 DEF LineAt
<1>9. ASSUME NEW k \in DOMAIN file', k > p + BF
      PROVE  file'[k] = Zero
  <2>1. k \in DOMAIN file /\ k > fpos
    BY <1>2, <1>4, <1>6, <1>9
  <2>. QED
    BY <1>1, <1>6, <1>9, <2>1 DEF ZerosBehind
<1>. HIDE DEF p, W
<1>10. CASE pc = "close"
  <2>1. queue = <<>> /\ Len(queue) = 0 /\ Marks = 2 /\ todo = Len(Inputs)
    BY <1>10 DEF Built, Queued, Marks
  <2>2. p + cur = Len(W) + 2 /\ p \in Nat
    BY <1>2, <1>5, <1>7, <2>1 DEF p
  <2>3. ASSUME NEW k \in DOMAIN file'
        PROVE  file'[k] = IF k <= Len(W) THEN W[k] ELSE Zero
    <3>1. k \in Nat \ {0}
      BY <1>6
    <3>2. CASE k <= p + cur
      BY <1>2, <1>7, <1>8, <2>2, <3>1, <3>2
    <3>3. CASE k > p + cur /\ k <= p + BF
      <4>1. k - p - 1 \in Slots /\ k - p - 1 >= cur
        BY <1>2, <2>2, <3>1, <3>3 DEF Slots
      <4>2. k > Len(W)
        BY <1>2, <1>5, <2>2, <3>1, <3>3
      <4>3. k \in p + 1 .. p + BF
        BY <1>2, <2>2, <3>1, <3>3
      <4>4. file'[k] = record[k - p - 1]
        BY <1>6, <4>3
      <4>. QED
        BY <1>5, <1>7, <1>10, <3>1, <4>1, <4>2, <4>4
    <3>4. CASE k > p + BF
      <4>1. k > Len(W)
        BY <1>2, <1>5, <2>2, <3>1, <3>4
      <4>. QED
        BY <1>5, <1>9, <3>1, <3>4, <4>1
    <3>. QED
      BY <1>2, <2>2, <3>1, <3>2, <3>3, <3>4
  <2>4. Len(file') >= Len(W) + 2
    <3>1. Len(file') \in Nat
      BY <1>6, LenProperties
    <3>. QED
      BY <1>2, <1>5, <1>6, <2>2, <3>1
  <2>5. todo' = Len(Inputs)'
    BY <1>1, <2>1, GivenSame
  <2>6. Complete'
    BY <1>5, <2>3, <2>4, <2>5 DEF Complete
  <2>. QED
    BY <1>1, <1>10, <2>6 DEF AtWriting
<1>11. CASE pc # "close"
  <2>1. pc' = pc /\ cur = BF /\ AtWriting' /\ pc' # "done"
    BY <1>1, <1>2, <1>11 DEF AtWriting
  <2>2. Base' = p + BF /\ p \in Nat /\ Level' = p + BF /\ Level' = p + cur
    BY <1>2, <1>3, <2>1 DEF Base, Level, p
  <2>3. Base' \in 0 .. Len(file')
    BY <1>2, <1>6, <2>2, LenProperties
  <2>4. Chosen'
    BY <1>1, GivenSame, GivenSameWant DEF Chosen
  <2>5. Queued'
    BY <1>1, <1>5, <2>1 DEF Built, Queued, W
  <2>6. Laid'
    <3>1. Marks' = Marks
      BY <2>1 DEF Marks
    <3>2. ASSUME NEW k \in 1 .. Level'
          PROVE  LineAt(k)' = IF k <= Len(Want') THEN Want'[k] ELSE Zero
      <4>1. k <= Base' /\ k \in 1 .. p + cur /\ k \in 1 .. p + BF
        BY <2>1, <2>2
      <4>2. LineAt(k)' = file'[k]
        BY <4>1 DEF LineAt
      <4>. QED
        BY <1>5, <1>7, <1>8, <4>1, <4>2
    <3>. QED
      BY <1>1, <1>5, <1>7, <1>11, <2>1, <2>2, <3>1, <3>2 DEF Laid
  <2>7. Built'
    BY <1>1, <1>3, <2>1, <2>3, <2>5, <2>6, GivenSame DEF Built
  <2>8. ZerosBehind'
    BY <1>3, <1>9 DEF ZerosBehind, p
  <2>. QED
    BY <2>1, <2>4, <2>7, <2>8
<1>. QED
  BY <1>10, <1>11

(* Steps that store no blocks.                                             *)
LEMMA TakesBuilt ==
  ASSUME Typed, Typed', Chosen, Built, ZerosBehind, NextInput \/ StartEot
  PROVE  Chosen' /\ Built' /\ ZerosBehind'
<1>1. /\ UNCHANGED given /\ UNCHANGED <<file, fpos, record, cur, end, access_mode, avoided>>
      /\ pc = "add" /\ AtWriting
  BY DEF NextInput, StartEot, Storing, writer, AtWriting
<1>2. Chosen' /\ ZerosBehind'
  BY <1>1, GivenSame, GivenSameWant DEF Chosen, ZerosBehind
<1>3. /\ queue = <<>> /\ Len(queue) = 0 /\ Level = Len(Want) /\ Base \in 0 .. Len(file)
      /\ \A k \in 1 .. Level : LineAt(k) = IF k <= Len(Want) THEN Want[k] ELSE Zero
      /\ end = BF /\ cur \in 0 .. BF /\ Len(file) \in Nat
  <2>1. Want \in Seq(Block) /\ Len(Want) \in Nat
    BY WantType, LenProperties DEF Want, Typed, TaskTyped
  <2>. QED
    BY <1>1, <2>1, LenProperties DEF Built, Queued, Laid, Marks, Typed, FileTyped, BufferTyped
<1>4. Want \in Seq(Block) /\ Len(Want) \in Nat
  BY WantType, LenProperties DEF Want, Typed, TaskTyped
<1>5. Base' = Base /\ Level' = Level /\ \A k : LineAt(k)' = LineAt(k)
  BY <1>1 DEF Base, Level, LineAt
<1>6. CASE NextInput
  <2>. DEFINE n == todo + 1
              P == Piece(n)
  <2>1. n \in 1 .. Len(Inputs) /\ n - 1 = todo /\ todo' = n
    <3>1. Len(Inputs) \in Nat
      BY LenProperties, UpdateAssumption DEF Typed, GivenTyped, Inputs
    <3>. QED
      BY <1>6, <3>1 DEF NextInput, Typed, TaskTyped
  <2>2. queue' = P
    <3>1. n \in DOMAIN Inputs
      BY <2>1, UpdateAssumption DEF Typed, GivenTyped, Inputs
    <3>2. Inputs[n].name \in avoided <=> ~ IsAdded(Inputs[n])
      BY <3>1 DEF Chosen
    <3>. QED
      BY <1>6, <3>2 DEF NextInput, Piece
  <2>. HIDE DEF n
  <2>3. P \in Seq(Block) /\ Want' = Want \o P
    BY <1>1, <2>1, WantGrows, GivenSameWant DEF Want
  <2>. HIDE DEF P
  <2>4. Len(P) \in Nat /\ Len(Want') = Len(Want) + Len(P) /\ Want' \in Seq(Block)
    BY <1>4, <2>3, ConcatProperties, LenProperties
  <2>5. /\ \A k \in 1 .. Len(Want) : Want'[k] = Want[k]
        /\ \A q \in 1 .. Len(P) : Want'[Len(Want) + q] = P[q]
    <3>1. \A k \in 1 .. Len(Want) + Len(P) :
            Want'[k] = IF k <= Len(Want) THEN Want[k] ELSE P[k - Len(Want)]
      BY <1>4, <2>3, ConcatProperties
    <3>2. \A k \in 1 .. Len(Want) : Want'[k] = Want[k]
      BY <1>4, <2>4, <3>1
    <3>3. ASSUME NEW q \in 1 .. Len(P)
          PROVE  Want'[Len(Want) + q] = P[q]
      <4>1. Len(Want) + q \in 1 .. Len(Want) + Len(P) /\ ~ (Len(Want) + q <= Len(Want))
            /\ Len(Want) + q - Len(Want) = q
        BY <1>4, <2>4
      <4>. QED
        BY <3>1, <4>1
    <3>. QED
      BY <3>2, <3>3
  <2>6. pc' \in {"add", "put"} /\ (pc' # "put" => queue' = <<>>) /\ Marks' = 0
    BY <1>6 DEF NextInput, Marks
  <2>7. Queued'
    <3>1. Len(queue') <= Len(Want')
      BY <1>4, <2>2, <2>4
    <3>2. ASSUME NEW q \in 1 .. Len(queue')
          PROVE  queue'[q] = Want'[Len(Want') - Len(queue') + q]
      <4>1. Len(Want') - Len(queue') + q = Len(Want) + q /\ q \in 1 .. Len(P)
        BY <1>4, <2>2, <2>4
      <4>. QED
        BY <2>2, <2>5, <4>1
    <3>. QED
      BY <2>6, <3>1, <3>2 DEF Queued
  <2>8. Laid'
    <3>1. Level' = Len(Want') - Len(queue') + Marks'
      BY <1>3, <1>4, <1>5, <2>2, <2>4, <2>6
    <3>2. ASSUME NEW k \in 1 .. Level'
          PROVE  LineAt(k)' = IF k <= Len(Want') THEN Want'[k] ELSE Zero
      <4>1. k \in 1 .. Len(Want) /\ k <= Len(Want')
        BY <1>3, <1>4, <1>5, <2>4
      <4>. QED
        BY <1>3, <1>5, <2>5, <4>1
    <3>. QED
      BY <2>6, <3>1, <3>2 DEF Laid
  <2>. QED
    BY <1>1, <1>2, <1>3, <1>5, <2>6, <2>7, <2>8 DEF Built
<1>7. CASE StartEot
  <2>1. pc' = "eot1" /\ UNCHANGED <<todo, queue>> /\ todo = Len(Inputs) /\ Marks' = 0
    BY <1>7 DEF StartEot, Marks
  <2>2. Want' = Want
    BY <1>1, <2>1, GivenSameWant DEF Want
  <2>3. Queued'
    BY <1>3, <1>4, <2>1, <2>2 DEF Queued
  <2>4. Laid'
    <3>1. Level' = Len(Want') - Len(queue') + Marks'
      BY <1>3, <1>4, <1>5, <2>1, <2>2
    <3>2. \A k \in 1 .. Level' : LineAt(k)' = IF k <= Len(Want') THEN Want'[k] ELSE Zero
      BY <1>3, <1>5, <2>2
    <3>. QED
      BY <2>1, <3>1, <3>2 DEF Laid
  <2>. QED
    BY <1>1, <1>2, <1>3, <1>5, <2>1, <2>3, <2>4, GivenSame DEF Built
<1>. QED
  BY <1>6, <1>7

LEMMA PutBuilt ==
  ASSUME Typed, Typed', Chosen, Built, ZerosBehind, Put
  PROVE  Chosen' /\ Built' /\ ZerosBehind'
<1>. DEFINE n == Lesser(end - cur, Len(queue))
            W == Want
            Q == Len(queue)
<1>1. /\ UNCHANGED given /\ UNCHANGED <<file, fpos, end, access_mode, avoided, todo>>
      /\ pc = "put" /\ AtWriting /\ cur < end /\ cur' = cur + n
      /\ queue' = SubSeq(queue, n + 1, Q)
      /\ record' = [k \in Slots |-> IF k \in cur .. cur + n - 1
                                    THEN queue[k - cur + 1] ELSE record[k]]
      /\ pc' = IF queue' = <<>> THEN "add" ELSE "put"
  BY DEF Put, Room, Storing, writer, AtWriting
<1>2. Chosen' /\ ZerosBehind'
  BY <1>1, GivenSame, GivenSameWant DEF Chosen, ZerosBehind
<1>3. W \in Seq(Block) /\ Len(W) \in Nat /\ Want' = W
  BY <1>1, WantType, LenProperties, GivenSameWant DEF Want, Typed, TaskTyped
<1>4. /\ queue \in Seq(Block) /\ Q \in Nat /\ Q <= Len(W)
      /\ \A q \in 1 .. Q : queue[q] = W[Len(W) - Q + q]
  BY LenProperties DEF Typed, TaskTyped, Built, Queued
<1>5. /\ Base \in 0 .. Len(file) /\ Len(file) \in Nat /\ end = BF /\ cur \in 0 .. BF - 1
      /\ BF \in Nat
  BY <1>1, LenProperties, ArchiveFileAssumption DEF Built, Typed, FileTyped, BufferTyped
<1>6. n \in Nat /\ n <= end - cur /\ n <= Q
  BY <1>4, <1>5 DEF Lesser
<1>7. /\ Base + cur = Len(W) - Q
      /\ \A k \in 1 .. Base + cur : LineAt(k) = IF k <= Len(W) THEN W[k] ELSE Zero
  <2>1. Marks = 0
    BY <1>1 DEF Marks
  <2>. QED
    BY <1>3, <1>4, <2>1 DEF Built, Laid, Level
<1>. HIDE DEF n, W, Q
<1>8. /\ Len(queue') = Q - n
      /\ \A q \in 1 .. Q - n : queue'[q] = queue[n + q]
  <2>1. n + 1 \in 1 .. Q + 1
    BY <1>4, <1>6
  <2>. QED
    BY <1>1, <1>4, <1>6, <2>1 DEF Q
<1>9. Queued'
  <2>1. Len(queue') <= Len(W)
    BY <1>3, <1>4, <1>6, <1>8
  <2>2. ASSUME NEW q \in 1 .. Len(queue')
        PROVE  queue'[q] = W[Len(W) - Len(queue') + q]
    <3>1. q \in 1 .. Q - n /\ n + q \in 1 .. Q /\ Len(W) - Len(queue') + q = Len(W) - Q + (n + q)
      BY <1>3, <1>4, <1>6, <1>8
    <3>. QED
      BY <1>4, <1>8, <3>1
  <2>3. pc' # "put" => queue' = <<>>
    BY <1>1
  <2>. QED
    BY <1>3, <2>1, <2>2, <2>3 DEF Queued
<1>10. Base' = Base /\ Level' = Base + cur + n /\ Marks' = 0 /\ pc' \in {"add", "put"}
  BY <1>1, <1>5, <1>6 DEF Base, Level, Marks
<1>11. ASSUME NEW k \in 1 .. Level'
       PROVE  LineAt(k)' = IF k <= Len(W) THEN W[k] ELSE Zero
  <2>0. k \in Nat /\ k >= 1 /\ k <= Base + cur + n
    BY <1>5, <1>6, <1>10
  <2>1. CASE k <= Base + cur
    <3>1. k \in 1 .. Base + cur
      BY <1>5, <2>0, <2>1
    <3>2. LineAt(k)' = LineAt(k)
      <4>1. CASE k <= Base
        BY <1>1, <1>10, <4>1 DEF LineAt
      <4>2. CASE k > Base
        <5>1. k - Base - 1 \in Slots /\ ~ (k - Base - 1 \in cur .. cur + n - 1)
          BY <1>5, <1>6, <2>0, <2>1, <4>2 DEF Slots
        <5>2. record'[k - Base - 1] = record[k - Base - 1]
          BY <1>1, <5>1
        <5>3. ~ (k <= Base)
          BY <1>5, <2>0, <4>2
        <5>. QED
          BY <1>10, <5>2, <5>3 DEF LineAt
      <4>. QED
        BY <1>5, <2>0, <4>1, <4>2
    <3>. QED
      BY <1>7, <3>1, <3>2
  <2>2. CASE k > Base + cur
    <3>. DEFINE q == k - Base - cur
    <3>1. /\ q \in 1 .. n /\ q \in 1 .. Q
          /\ k - Base - 1 = cur + q - 1 /\ ~ (k <= Base)
          /\ cur + q - 1 \in Slots /\ cur + q - 1 \in cur .. cur + n - 1
          /\ (cur + q - 1) - cur + 1 = q
      BY <1>4, <1>5, <1>6, <2>0, <2>2 DEF Slots
    <3>2. record'[cur + q - 1] = queue[q]
      BY <1>1, <3>1
    <3>3. LineAt(k)' = queue[q]
      BY <1>10, <3>1, <3>2 DEF LineAt
    <3>4. Len(W) - Q + q = k /\ k <= Len(W)
      <4>1. Base \in Nat /\ cur \in Nat /\ Q \in Nat /\ Len(W) \in Nat /\ q \in Nat /\ q <= Q
        BY <1>3, <1>4, <1>5, <3>1
      <4>2. Base + cur = Len(W) - Q
        BY <1>7
      <4>. QED
        BY <2>0, <4>1, <4>2
    <3>. QED
      BY <1>4, <3>1, <3>3, <3>4
  <2>. QED
    BY <1>5, <2>0, <2>1, <2>2
<1>12. Laid'
  <2>1. Level' = Len(Want') - Len(queue') + Marks'
    BY <1>3, <1>4, <1>5, <1>6, <1>7, <1>8, <1>10
  <2>. QED
    BY <1>3, <1>10, <1>11, <2>1 DEF Laid
<1>. QED
  BY <1>1, <1>2, <1>5, <1>9, <1>10, <1>12 DEF Built

LEMMA WriteEotBuilt ==
  ASSUME Typed, Typed', Chosen, Built, ZerosBehind, WriteEot
  PROVE  Chosen' /\ Built' /\ ZerosBehind'
<1>. DEFINE W == Want
            z == IF pc = "eot1" THEN cur ELSE end - 1
<1>1. /\ UNCHANGED given /\ UNCHANGED <<file, fpos, end, access_mode, avoided, todo, queue>>
      /\ pc \in {"eot1", "eot2"} /\ AtWriting /\ cur < end /\ cur' = cur + 1
      /\ record' = [k \in Slots |-> IF k \in cur .. z THEN Zero ELSE record[k]]
      /\ pc' = IF pc = "eot1" THEN "eot2" ELSE "close"
  BY DEF WriteEot, Storing, writer, AtWriting
<1>2. Chosen' /\ ZerosBehind'
  BY <1>1, GivenSame, GivenSameWant DEF Chosen, ZerosBehind
<1>3. W \in Seq(Block) /\ Len(W) \in Nat /\ Want' = W
  BY <1>1, WantType, LenProperties, GivenSameWant DEF Want, Typed, TaskTyped
<1>4. queue = <<>> /\ Len(queue) = 0 /\ todo = Len(Inputs)
  BY <1>1 DEF Built, Queued
<1>5. /\ Base \in 0 .. Len(file) /\ Len(file) \in Nat /\ end = BF /\ cur \in 0 .. BF - 1
      /\ BF \in Nat /\ z \in cur .. BF - 1
  BY <1>1, LenProperties, ArchiveFileAssumption DEF Built, Typed, FileTyped, BufferTyped
<1>6. /\ Base + cur = Len(W) + Marks /\ Marks \in Nat
      /\ \A k \in 1 .. Base + cur : LineAt(k) = IF k <= Len(W) THEN W[k] ELSE Zero
  <2>1. Marks \in Nat
    BY DEF Marks
  <2>. QED
    BY <1>3, <1>4, <2>1 DEF Built, Laid, Level
<1>. HIDE DEF W, z
<1>7. Base' = Base /\ Level' = Base + cur + 1 /\ Marks' = Marks + 1 /\ pc' \in {"eot2", "close"}
  BY <1>1, <1>5 DEF Base, Level, Marks
<1>8. Queued'
  BY <1>1, <1>3, <1>4, <1>7 DEF Queued
<1>9. ASSUME NEW k \in 1 .. Level'
      PROVE  LineAt(k)' = IF k <= Len(W) THEN W[k] ELSE Zero
  <2>0. k \in Nat /\ k >= 1 /\ k <= Base + cur + 1
    BY <1>5, <1>7
  <2>1. CASE k <= Base + cur
    <3>1. k \in 1 .. Base + cur
      BY <1>5, <2>0, <2>1
    <3>2. LineAt(k)' = LineAt(k)
      <4>1. CASE k <= Base
        BY <1>1, <1>7, <4>1 DEF LineAt
      <4>2. CASE k > Base
        <5>1. k - Base - 1 \in Slots /\ ~ (k - Base - 1 \in cur .. z)
          BY <1>5, <2>0, <2>1, <4>2 DEF Slots
        <5>2. record'[k - Base - 1] = record[k - Base - 1]
          BY <1>1, <5>1
        <5>3. ~ (k <= Base)
          BY <1>5, <2>0, <4>2
        <5>. QED
          BY <1>7, <5>2, <5>3 DEF LineAt
      <4>. QED
        BY <1>5, <2>0, <4>1, <4>2
    <3>. QED
      BY <1>6, <3>1, <3>2
  <2>2. CASE k = Base + cur + 1
    <3>1. k - Base - 1 = cur /\ ~ (k <= Base) /\ cur \in Slots /\ cur \in cur .. z
      BY <1>5, <2>2 DEF Slots
    <3>2. LineAt(k)' = Zero
      BY <1>1, <1>7, <3>1 DEF LineAt
    <3>3. ~ (k <= Len(W))
      BY <1>3, <1>5, <1>6, <2>2
    <3>. QED
      BY <3>2, <3>3
  <2>. QED
    BY <1>5, <2>0, <2>1, <2>2
<1>10. pc' = "close" => \A i \in Slots : i >= cur' => record'[i] = Zero
  <2>1. SUFFICES ASSUME pc' = "close", NEW i \in Slots, i >= cur'
                 PROVE  record'[i] = Zero
    OBVIOUS
  <2>2. z = BF - 1
    BY <1>1, <1>5, <2>1 DEF z
  <2>3. i \in cur .. z
    BY <1>1, <1>5, <2>1, <2>2 DEF Slots
  <2>. QED
    BY <1>1, <2>3
<1>11. Laid'
  <2>1. Level' = Len(Want') - Len(queue') + Marks'
    BY <1>1, <1>3, <1>4, <1>5, <1>6, <1>7
  <2>. QED
    BY <1>3, <1>9, <1>10, <2>1 DEF Laid
<1>. QED
  BY <1>1, <1>2, <1>4, <1>5, <1>7, <1>8, <1>11, GivenSame DEF Built

LEMMA FilledNext ==
  ASSUME ProperArchives, SameTimes, original \in Archives, Typed, Typed', Safe, Safe',
         Filled, [Next]_vars
  PROVE  Filled'
<1>1. CASE UNCHANGED vars
  <2>1. UNCHANGED given /\ UNCHANGED <<file, fpos, record, cur, end, access_mode, avoided, left,
                                        todo, queue, pc>>
    BY <1>1 DEF vars, reader, writer, task
  <2>2. Want' = Want /\ \A m : IsAdded(m)' <=> IsAdded(m)
    BY <2>1, GivenSameWant DEF Want
  <2>3. Looked'
    BY <2>1, GivenSame DEF Filled, Looked, Noted, UpToDate, Seen, AtReading
  <2>4. (AtWriting => Chosen)' /\ ZerosBehind'
    BY <2>1, <2>2, GivenSame DEF Filled, Chosen, ZerosBehind, AtWriting
  <2>5. Queued' <=> Queued
    BY <2>1, <2>2 DEF Queued
  <2>6. Laid' <=> Laid
    BY <2>1, <2>2 DEF Laid, Level, LineAt, Base, Marks
  <2>7. (AtWriting => Built)'
    BY <2>1, <2>5, <2>6, GivenSame DEF Filled, Built, Base, AtWriting
  <2>8. (pc = "done" => Complete)'
    BY <2>1, <2>2, GivenSame DEF Filled, Complete
  <2>. QED
    BY <2>3, <2>4, <2>7, <2>8 DEF Filled
<1>2. CASE Next
  <2>1. Looked'
    BY <1>2, LookedNext DEF Filled
  <2>2. CASE Fetch \/ ScanMember \/ SkipData \/ SkipUnexpectedEof \/ ScanExtension
             \/ ScanExtensionData \/ ScanNonHeader \/ InputShrank
    <3>1. ~ AtWriting' /\ pc' # "done"
      BY <2>2 DEF Fetch, ScanMember, SkipData, SkipUnexpectedEof, ScanExtension,
                  ScanExtensionData, ScanNonHeader, InputShrank, AtWriting, task
    <3>. QED
      BY <2>1, <3>1 DEF Filled, ZerosBehind
  <2>3. CASE FoundZeroBlock \/ FoundEndOfFile
    <3>1. pc' # "done"
      BY <2>3 DEF FoundZeroBlock, FoundEndOfFile
    <3>. QED
      BY <2>1, <2>3, <3>1, BeginsBuilt DEF Filled
  <2>4. CASE Flush
    <3>1. AtWriting
      BY <2>4 DEF Flush, AtWriting
    <3>2. Chosen /\ Built /\ ZerosBehind
      BY <3>1 DEF Filled
    <3>. QED
      BY <2>1, <2>4, <3>2, FlushBuilt DEF Filled, ZerosBehind
  <2>5. CASE NextInput \/ Put \/ StartEot \/ WriteEot
    <3>1. AtWriting /\ pc' # "done"
      BY <2>5 DEF NextInput, Put, StartEot, WriteEot, AtWriting
    <3>2. Chosen /\ Built /\ ZerosBehind
      BY <3>1 DEF Filled
    <3>. QED
      BY <2>1, <2>5, <3>1, <3>2, TakesBuilt, PutBuilt, WriteEotBuilt DEF Filled
  <2>. QED
    BY <1>2, <2>2, <2>3, <2>4, <2>5 DEF Next
<1>. QED
  BY <1>1, <1>2

LEMMA InitFilled ==
  ASSUME Init
  PROVE  Filled
<1>1. Typed /\ todo = 0 /\ queue = <<>> /\ avoided = {} /\ pc = "scan" /\ fpos = 0 /\ end = 0 /\ cur = 0
  BY InitTyped DEF Init, OpenForUpdate
<1>2. Seen = 0
  BY <1>1 DEF Seen
<1>3. \A j \in DOMAIN original : ~ (j <= 0)
  BY <1>1 DEF Typed, GivenTyped
<1>4. Looked
  BY <1>1, <1>2, <1>3 DEF Looked, Noted
<1>. QED
  BY <1>1, <1>4 DEF Filled, ZerosBehind, AtWriting

LEMMA FilledAlways ==
  ASSUME WholeRecords, ProperArchives, SameTimes
  PROVE  Spec => [](Typed /\ Filled)
<1>. DEFINE Inv == Typed /\ Safe /\ original \in Archives /\ Filled
<1>1. Init => Inv
  BY InitTyped, InitSafe, InitFilled
<1>2. Inv /\ [Next]_vars => Inv'
  <2>1. SUFFICES ASSUME Inv, [Next]_vars
                 PROVE  Inv'
    OBVIOUS
  <2>2. Typed' /\ Safe'
    BY <2>1, TypedNext, SafeNext
  <2>3. original' = original
    BY <2>1, GivenKept DEF vars, given
  <2>. QED
    BY <2>1, <2>2, <2>3, FilledNext
<1>. QED
  BY <1>1, <1>2, PTL DEF Spec

LEMMA WantedType ==
  ASSUME Typed, todo = Len(Inputs)
  PROVE  Wanted = Want /\ Wanted \in Seq(Block) /\ Len(Wanted) \in Nat
BY WantType, LenProperties DEF Wanted, Want, Typed, TaskTyped

(* --append and --update leave behind just the members that were there,    *)
(* the files that were to be added (for --update those that are newer than *)
(* each copy the archive holds) and an end mark filled up with NULs        *)
(* (update.c:105-219, create.c:401), whatever the sizes; if the archive is *)
(* as OldMembersStay has it, has headers where headers are looked for and  *)
(* only NULs after its end mark, and a file named twice is one file.       *)
THEOREM AppendedExactly ==
  ASSUME WholeRecords, ProperArchives, SameTimes
  PROVE  Spec => []AppendsExactly
<1>1. Typed /\ Filled => AppendsExactly
  <2>1. SUFFICES ASSUME Typed, Filled, pc = "done"
                 PROVE  LET n == Len(file) - Len(Wanted)
                        IN  n >= 2 /\ file = Wanted \o [i \in 1 .. n |-> Zero]
    BY DEF AppendsExactly
  <2>. DEFINE n == Len(file) - Len(Wanted)
              z == [i \in 1 .. n |-> Zero]
  <2>2. Complete
    BY <2>1 DEF Filled
  <2>3. Wanted = Want /\ Wanted \in Seq(Block) /\ Len(Wanted) \in Nat
    BY <2>1, <2>2, WantedType DEF Complete
  <2>4. file \in Seq(Block) /\ Len(file) \in Nat /\ DOMAIN file = 1 .. Len(file)
    BY <2>1, LenProperties DEF Typed, FileTyped
  <2>5. n \in Nat /\ n >= 2 /\ Len(file) = Len(Wanted) + n
    BY <2>2, <2>3, <2>4 DEF Complete
  <2>6. \A k \in 1 .. Len(file) : file[k] = IF k <= Len(Wanted) THEN Wanted[k] ELSE Zero
    BY <2>2, <2>3, <2>4 DEF Complete
  <2>. HIDE DEF n
  <2>7. Zero \in Block
    BY DEF Zero, Block, Kinds
  <2>8. z \in Seq(Block) /\ Len(z) = n /\ \A i \in 1 .. n : z[i] = Zero
    BY <2>5, <2>7
  <2>. HIDE DEF z
  <2>9. /\ Wanted \o z \in Seq(Block) /\ Len(Wanted \o z) = Len(Wanted) + n
        /\ \A k \in 1 .. Len(Wanted) + n :
             (Wanted \o z)[k] = IF k <= Len(Wanted) THEN Wanted[k] ELSE z[k - Len(Wanted)]
    BY <2>3, <2>8, ConcatProperties
  <2>10. \A k \in 1 .. Len(file) : file[k] = (Wanted \o z)[k]
    <3>1. ASSUME NEW k \in 1 .. Len(file)
          PROVE  file[k] = (Wanted \o z)[k]
      <4>1. k > Len(Wanted) => k - Len(Wanted) \in 1 .. n
        BY <2>3, <2>5
      <4>. QED
        BY <2>3, <2>5, <2>6, <2>8, <2>9, <4>1
    <3>. QED
      BY <3>1
  <2>11. file = Wanted \o z
    BY <2>4, <2>5, <2>9, <2>10, SeqEqual
  <2>. QED
    BY <2>5, <2>11 DEF n, z
<1>. QED
  BY <1>1, FilledAlways, PTL

(* Only the last thing that is added may hold an end mark: files hold      *)
(* none, and one archive may be concatenated.                              *)
EndsLast ==
  \A c \in DOMAIN Offered : \A i \in DOMAIN Offered[c] :
    i < Len(Offered[c]) => Ends(Offered[c][i].blocks) = {}

(* What the inputs add lies one after the other.                           *)
LEMMA AddedPrefix ==
  ASSUME Typed, NEW i \in 0 .. Len(Inputs), NEW m \in i .. Len(Inputs)
  PROVE  /\ Len(Added[i]) <= Len(Added[m])
         /\ \A k \in 1 .. Len(Added[i]) : Added[m][k] = Added[i][k]
<1>. DEFINE N == Len(Inputs)
            Fits(n) == /\ Len(Added[i]) <= Len(Added[n])
                       /\ \A k \in 1 .. Len(Added[i]) : Added[n][k] = Added[i][k]
            Bad == {n \in i .. N : ~ Fits(n)}
<1>1. N \in Nat
  BY LenProperties, UpdateAssumption DEF Typed, GivenTyped, Inputs
<1>2. \A n \in 0 .. N : Added[n] \in Seq(Block) /\ Len(Added[n]) \in Nat
  BY AddedSteps, LenProperties
<1>3. SUFFICES ASSUME Bad # {}
               PROVE  FALSE
  OBVIOUS
<1>4. PICK n \in Bad : \A x \in Bad : n <= x
  <2>1. Bad \subseteq Nat
    BY <1>1
  <2>. HIDE DEF Bad
  <2>. QED
    BY <1>3, <2>1, MinOfNat
<1>5. Fits(i)
  BY <1>2
<1>6. n \in i .. N /\ ~ Fits(n) /\ n # i
  BY <1>4, <1>5
<1>7. n - 1 \in i .. N /\ n \in 1 .. N /\ n - 1 \in 0 .. N
  BY <1>1, <1>6
<1>8. Fits(n - 1)
  <2>1. n - 1 \notin Bad
    <3>. HIDE DEF Bad
    <3>. QED
      BY <1>4, <1>7
  <2>. QED
    BY <1>7, <2>1
<1>9. Piece(n) \in Seq(Block) /\ Added[n] = Added[n - 1] \o Piece(n)
  BY <1>7, AddedSteps
<1>10. /\ Len(Added[n]) >= Len(Added[n - 1])
       /\ \A k \in 1 .. Len(Added[n - 1]) : Added[n][k] = Added[n - 1][k]
  <2>1. Added[n - 1] \in Seq(Block) /\ Len(Added[n - 1]) \in Nat /\ Len(Piece(n)) \in Nat
    BY <1>2, <1>7, <1>9, LenProperties
  <2>2. /\ Len(Added[n]) = Len(Added[n - 1]) + Len(Piece(n))
        /\ \A k \in 1 .. Len(Added[n - 1]) + Len(Piece(n)) :
             Added[n][k] = IF k <= Len(Added[n - 1]) THEN Added[n - 1][k]
                           ELSE Piece(n)[k - Len(Added[n - 1])]
    BY <1>9, <2>1, ConcatProperties
  <2>. QED
    BY <2>1, <2>2
<1>11. Fits(n)
  <2>1. Len(Added[i]) \in Nat /\ Len(Added[n - 1]) \in Nat /\ Len(Added[n]) \in Nat
    BY <1>2, <1>6, <1>7
  <2>. QED
    BY <1>8, <1>10, <2>1
<1>. QED
  BY <1>6, <1>11

(* No end mark before the last input.                                      *)
LEMMA AddedClear ==
  ASSUME EndsLast, Typed, NEW m \in 0 .. Len(Inputs), m < Len(Inputs)
  PROVE  \A k \in 1 .. Len(Added[m]) : Added[m][k].kind # "zero"
<1>. DEFINE N == Len(Inputs)
            Fits(n) == \A k \in 1 .. Len(Added[n]) : Added[n][k].kind # "zero"
            Bad == {n \in 0 .. N - 1 : ~ Fits(n)}
<1>1. N \in Nat /\ DOMAIN Inputs = 1 .. N
  BY LenProperties, UpdateAssumption DEF Typed, GivenTyped, Inputs
<1>2. \A n \in 0 .. N : Added[n] \in Seq(Block) /\ Len(Added[n]) \in Nat
  BY AddedSteps, LenProperties
<1>3. SUFFICES ASSUME Bad # {}
               PROVE  FALSE
  BY <1>1
<1>4. PICK n \in Bad : \A x \in Bad : n <= x
  <2>1. Bad \subseteq Nat
    BY <1>1
  <2>. HIDE DEF Bad
  <2>. QED
    BY <1>3, <2>1, MinOfNat
<1>5. Fits(0)
  BY AddedSteps
<1>6. n \in 0 .. N - 1 /\ ~ Fits(n) /\ n # 0
  BY <1>4, <1>5
<1>7. n - 1 \in 0 .. N - 1 /\ n \in 1 .. N /\ n - 1 \in 0 .. N /\ n < N
  BY <1>1, <1>6
<1>8. Fits(n - 1)
  <2>1. n - 1 \notin Bad
    <3>1. n \in Nat /\ n - 1 < n
      BY <1>7
    <3>. HIDE DEF Bad
    <3>. QED
      BY <1>4, <3>1
  <2>. QED
    BY <1>7, <2>1
<1>9. Piece(n) \in Seq(Block) /\ Added[n] = Added[n - 1] \o Piece(n)
  BY <1>7, AddedSteps
<1>10. \A k \in 1 .. Len(Piece(n)) : Piece(n)[k].kind # "zero"
  <2>1. Ends(Inputs[n].blocks) = {}
    BY <1>1, <1>7 DEF EndsLast, Typed, GivenTyped, Inputs
  <2>2. Ends(Piece(n)) = {}
    BY <2>1 DEF Piece, Ends
  <2>3. DOMAIN Piece(n) = 1 .. Len(Piece(n))
    BY <1>9, LenProperties
  <2>. QED
    BY <2>2, <2>3 DEF Ends
<1>11. Fits(n)
  <2>1. Added[n - 1] \in Seq(Block) /\ Len(Added[n - 1]) \in Nat /\ Len(Piece(n)) \in Nat
    BY <1>2, <1>7, <1>9, LenProperties
  <2>2. /\ Len(Added[n]) = Len(Added[n - 1]) + Len(Piece(n))
        /\ \A k \in 1 .. Len(Added[n - 1]) + Len(Piece(n)) :
             Added[n][k] = IF k <= Len(Added[n - 1]) THEN Added[n - 1][k]
                           ELSE Piece(n)[k - Len(Added[n - 1])]
    BY <1>9, <2>1, ConcatProperties
  <2>3. ASSUME NEW k \in 1 .. Len(Added[n])
        PROVE  Added[n][k].kind # "zero"
    <3>1. CASE k <= Len(Added[n - 1])
      <4>1. k \in 1 .. Len(Added[n - 1]) /\ Added[n][k] = Added[n - 1][k]
        BY <2>1, <2>2, <3>1
      <4>. QED
        BY <1>8, <4>1
    <3>2. CASE k > Len(Added[n - 1])
      <4>1. /\ k - Len(Added[n - 1]) \in 1 .. Len(Piece(n))
            /\ Added[n][k] = Piece(n)[k - Len(Added[n - 1])]
        BY <2>1, <2>2, <3>2
      <4>. QED
        BY <1>10, <4>1
    <3>. QED
      BY <2>1, <2>2, <3>1, <3>2
  <2>. QED
    BY <2>3
<1>. QED
  BY <1>6, <1>11

(* What --append, --update or --concatenate adds, a reader gets to: no end *)
(* mark comes before it, be it of the archive as it was (update.c:21,      *)
(* update.c:64), under the same hypotheses, unless another archive with    *)
(* an end mark was added before.                                           *)
THEOREM AddedWithinReach ==
  ASSUME WholeRecords, ProperArchives, SameTimes, EndsLast
  PROVE  Spec => []AddedIsReachable
<1>1. Typed /\ Filled => AddedIsReachable
  <2>1. SUFFICES ASSUME Typed, Filled, pc = "done",
                        NEW i \in DOMAIN Inputs, IsAdded(Inputs[i]),
                        NEW k \in DOMAIN Body(Inputs[i].blocks)
                 PROVE  \E j \in DOMAIN Body(file) : file[j] = Inputs[i].blocks[k]
    BY DEF AddedIsReachable
  <2>. DEFINE N == Len(Inputs)
              s == Inputs[i].blocks
              a == Len(Added[i - 1])
              A == Added[N]
              j == Held + a + k
  <2>2. N \in Nat /\ i \in 1 .. N /\ i \in 0 .. N /\ i - 1 \in 0 .. N /\ i - 1 < N /\ N \in i .. N
    <3>1. N \in Nat /\ DOMAIN Inputs = 1 .. N
      BY <2>1, LenProperties, UpdateAssumption DEF Typed, GivenTyped, Inputs
    <3>2. i \in 1 .. N
      BY <3>1
    <3>. HIDE DEF N
    <3>. QED
      BY <3>1, <3>2
  <2>3. /\ Piece(i) = s /\ s \in Seq(Block) /\ Len(s) \in Nat
        /\ Added[i - 1] \in Seq(Block) /\ a \in Nat /\ Added[i] = Added[i - 1] \o s
        /\ A \in Seq(Block) /\ Len(A) \in Nat
    <3>1. Piece(i) = s
      BY <2>1 DEF Piece
    <3>2. /\ Piece(i) \in Seq(Block) /\ Added[i] = Added[i - 1] \o Piece(i)
          /\ Added[i - 1] \in Seq(Block) /\ A \in Seq(Block)
      <4>1. /\ Added \in [0 .. N -> Seq(Block)]
            /\ \A n \in 1 .. N : Piece(n) \in Seq(Block) /\ Added[n] = Added[n - 1] \o Piece(n)
        BY <2>1, AddedSteps
      <4>2. N \in 0 .. N
        BY <2>2
      <4>3. Piece(i) \in Seq(Block) /\ Added[i] = Added[i - 1] \o Piece(i)
        BY <2>2, <4>1, Zenon
      <4>. HIDE DEF N
      <4>4. Added[i - 1] \in Seq(Block) /\ A \in Seq(Block)
        BY <2>2, <4>1, <4>2
      <4>. QED
        BY <4>3, <4>4
    <3>3. s \in Seq(Block) /\ Added[i] = Added[i - 1] \o s
      BY <3>1, <3>2, Zenon
    <3>4. Len(s) \in Nat /\ a \in Nat /\ Len(A) \in Nat
      BY <3>2, <3>3, LenProperties
    <3>. QED
      BY <3>1, <3>2, <3>3, <3>4
  <2>4. /\ k \in 1 .. Len(s)
        /\ \A q \in 1 .. k : s[q].kind # "zero"
    <3>1. DOMAIN Body(s) = 1 .. Len(Body(s)) /\ Len(Body(s)) <= Len(s) /\ Len(Body(s)) \in Nat
      BY <2>3, BodyLength
    <3>2. \A q \in 1 .. Len(Body(s)) : s[q].kind # "zero"
      BY <2>3, BodyBlocks
    <3>3. k \in 1 .. Len(Body(s))
      BY <3>1
    <3>. QED
      BY <2>3, <3>1, <3>2, <3>3
  <2>5. /\ Held \in Nat /\ Body(original) \in Seq(Block)
        /\ \A q \in 1 .. Held : Body(original)[q].kind # "zero"
    BY <2>1, BodyBlocks, HeldLength DEF Held, Typed, GivenTyped
  <2>6. \A q \in 1 .. a : Added[i - 1][q].kind # "zero"
    BY <2>1, <2>2, AddedClear
  <2>. HIDE DEF N, s, a
  <2>7. /\ Len(Added[i]) = a + Len(s)
        /\ \A q \in 1 .. a + Len(s) :
             Added[i][q] = IF q <= a THEN Added[i - 1][q] ELSE s[q - a]
    BY <2>3, ConcatProperties DEF a
  <2>8. /\ Len(Added[i]) <= Len(A)
        /\ \A q \in 1 .. Len(Added[i]) : A[q] = Added[i][q]
    BY <2>1, <2>2, AddedPrefix DEF N
  <2>9. a + k <= Len(A) /\ A[a + k] = s[k] /\ \A q \in 1 .. a + k : A[q].kind # "zero"
    <3>1. a + k \in 1 .. a + Len(s) /\ ~ (a + k <= a) /\ (a + k) - a = k
      BY <2>3, <2>4
    <3>2. A[a + k] = s[k]
      BY <2>7, <2>8, <3>1
    <3>3. ASSUME NEW q \in 1 .. a + k
          PROVE  A[q].kind # "zero"
      <4>1. q \in 1 .. a + Len(s) /\ A[q] = Added[i][q]
        BY <2>3, <2>4, <2>7, <2>8
      <4>2. CASE q <= a
        <5>1. q \in 1 .. a
          BY <2>3, <2>4, <4>2
        <5>. QED
          BY <2>6, <2>7, <4>1, <4>2, <5>1
      <4>3. CASE q > a
        <5>1. q - a \in 1 .. k /\ ~ (q <= a)
          BY <2>3, <2>4, <4>3
        <5>. QED
          BY <2>4, <2>7, <4>1, <5>1
      <4>. QED
        BY <2>3, <2>4, <4>2, <4>3
    <3>. QED
      BY <2>3, <2>4, <2>7, <2>8, <3>2, <3>3
  <2>. HIDE DEF A
  <2>10. /\ Wanted \in Seq(Block) /\ Len(Wanted) = Held + Len(A)
         /\ \A q \in 1 .. Held + Len(A) :
              Wanted[q] = IF q <= Held THEN Body(original)[q] ELSE A[q - Held]
    <3>1. Wanted = Body(original) \o A
      BY DEF Wanted, A, N
    <3>. QED
      BY <2>3, <2>5, <3>1, ConcatProperties DEF Held
  <2>11. Complete /\ todo = N
    BY <2>1 DEF Filled, Complete, N
  <2>12. /\ file \in Seq(Block) /\ Len(file) \in Nat /\ Len(file) >= Len(Wanted) + 2
         /\ \A q \in 1 .. Len(file) : file[q] = IF q <= Len(Wanted) THEN Wanted[q] ELSE Zero
    <3>1. Want = Wanted
      BY <2>1, <2>11, WantedType DEF N
    <3>2. file \in Seq(Block) /\ Len(file) \in Nat /\ DOMAIN file = 1 .. Len(file)
      BY <2>1, LenProperties DEF Typed, FileTyped
    <3>3. /\ Len(file) >= Len(Wanted) + 2
          /\ \A q \in DOMAIN file : file[q] = IF q <= Len(Wanted) THEN Wanted[q] ELSE Zero
      BY <2>11, <3>1 DEF Complete
    <3>. QED
      BY <3>2, <3>3
  <2>13. j \in 1 .. Len(Wanted) /\ j \in 0 .. Len(file)
    <3>1. /\ Held \in Nat /\ a \in Nat /\ k \in Nat \ {0} /\ Len(A) \in Nat /\ a + k <= Len(A)
          /\ Len(Wanted) = Held + Len(A)
      BY <2>3, <2>4, <2>5, <2>9, <2>10
    <3>2. Len(file) \in Nat /\ Len(file) >= Len(Wanted) + 2
      BY <2>12
    <3>. QED
      BY <3>1, <3>2
  <2>14. file[j] = s[k]
    <3>1. ~ (j <= Held) /\ j - Held = a + k /\ j \in 1 .. Len(file)
      BY <2>3, <2>4, <2>5, <2>10, <2>12, <2>13
    <3>2. Wanted[j] = A[a + k]
      BY <2>10, <2>13, <3>1
    <3>. QED
      BY <2>9, <2>12, <2>13, <3>1, <3>2
  <2>15. ASSUME NEW q \in 1 .. j
         PROVE  file[q].kind # "zero"
    <3>1. q \in 1 .. Len(Wanted) /\ q \in 1 .. Len(file) /\ q <= Len(Wanted)
      BY <2>10, <2>12, <2>13
    <3>2. file[q] = Wanted[q]
      BY <2>12, <3>1
    <3>3. CASE q <= Held
      <4>1. q \in 1 .. Held
        BY <2>5, <3>1, <3>3
      <4>. QED
        BY <2>5, <2>10, <3>1, <3>2, <3>3, <4>1
    <3>4. CASE q > Held
      <4>1. q - Held \in 1 .. a + k /\ ~ (q <= Held)
        BY <2>3, <2>4, <2>5, <3>1, <3>4
      <4>. QED
        BY <2>9, <2>10, <3>1, <3>2, <4>1
    <3>. QED
      BY <2>5, <3>1, <3>3, <3>4
  <2>. HIDE DEF j
  <2>16. j \in DOMAIN Body(file)
    <3>1. j <= Len(Body(file))
      BY <2>12, <2>13, <2>15, BodyReaches
    <3>2. DOMAIN Body(file) = 1 .. Len(Body(file)) /\ Len(Body(file)) \in Nat
      BY <2>12, BodyLength
    <3>. QED
      BY <2>13, <3>1, <3>2
  <2>. QED
    BY <2>14, <2>16 DEF s
<1>. QED
  BY <1>1, FilledAlways, PTL
================================================================================
