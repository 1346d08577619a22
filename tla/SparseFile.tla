------------------------------ MODULE SparseFile ------------------------------
(***************************************************************************)
(* A sparse file (sparse.c): `tar --create --sparse' scans it for holes,   *)
(* writes its map and then reads it again for the data, while others may   *)
(* change it; another run extracts the member, skips it or compares it     *)
(* with the file.  After it comes the header of the next member.           *)
(*                                                                         *)
(* Formats: "gnu" (the map in the header and in extension headers), "pax0" *)
(* (the map in the extended header: versions 0.0 and 0.1) and "pax1"       *)
(* (version 1.0: the map before the data).  One volume; the archive is     *)
(* written and read without errors; a file read returns what there is.     *)
(***************************************************************************)
EXTENDS HeaderNumbers

CONSTANTS
  BLOCKSIZE,
  SPARSES_IN_OLDGNU_HEADER, SPARSES_IN_SPARSE_HEADER,
  Formats,     \* archive_format and --sparse-version
  Contents,    \* what a file may hold: sequences of bytes, 0 being NUL
  Outputs,     \* what the reader does: "file" extracts to a file, "pipe" to
               \* a pipe, "skip" skips the member, "compare" compares it
  MaxChanges,  \* bound: changes of the file
  MaxBlocks    \* bound: blocks of the archive that are kept

ASSUME SparseAssumption ==
  /\ BLOCKSIZE \in Nat \ {0} /\ MaxChanges \in Nat /\ MaxBlocks \in Nat
  /\ SPARSES_IN_OLDGNU_HEADER \in Nat \ {0} /\ SPARSES_IN_SPARSE_HEADER \in Nat \ {0}
  /\ Formats \subseteq {"gnu", "pax0", "pax1"} /\ Outputs \subseteq {"file", "pipe", "skip", "compare"}
  /\ \A c \in Contents : c \in Seq(Nat) /\ c # <<>>

VARIABLES
  file,          \* the file now, and
  original,      \* when it was stat'ed
  troubles,      \* history: "shrunk", "grown", "written" if it changed since,
                 \* "later" if after the dump; "misread" or "error" if the
                 \* scan or a later read failed; "too large" if its size fits
                 \* no header, "cut off" if the archive lost its last blocks,
                 \* "errno" if its map was refused for an earlier error
  changes,
  format,
  output,        \* what the reader does, "none" before it runs
  sparse_map,    \* of the writer, and later of the reader
  sp,            \* the region sparse_scan_file is in
  archive_file_size,
  dumped_size,
  pos,           \* offset in the file
  region, left,  \* of sparse_dump_region or sparse_extract_region: i and
                 \* bytes_left or write_size
  archive,       \* the blocks of the member and of what follows it
  next,          \* the reader: number of the block find_next_block returns
  out, at,       \* the file or pipe that is extracted to, and the offset in it
  failed,        \* was an error reported?
  differs,       \* did report_difference set the exit status?
  pc

given == <<original, format>>
world == <<file, troubles, changes>>
stat_info == <<sparse_map, archive_file_size>>
reader == <<output, next, out, at>>
result == <<failed, differs>>
vars == <<given, world, stat_info, sp, dumped_size, pos, region, left, archive, reader, result, pc>>

gnu == format = "gnu"
st_size == Len(original)
Fewer(m, n) == IF m < n THEN m ELSE n
Blocks(n) == (n + BLOCKSIZE - 1) \div BLOCKSIZE

-----------------------------------------------------------------------------
(* Blocks.                                                                 *)

DataBlock(bytes) ==
  [kind |-> "data",
   bytes |-> [k \in 1 .. BLOCKSIZE |-> IF k <= Len(bytes) THEN bytes[k] ELSE 0]]
ZeroBlock == DataBlock(<<>>)
NextHeader == [kind |-> "next"]

(* umaxtostr and the newline of a number of the map, and the whole map, in *)
(* characters.                                                             *)
TextLength(n) == (IF n < 10 THEN 1 ELSE 2) + 1
MapLength(m) ==
  LET size[k \in 0 .. Len(m)] ==
        IF k = 0 THEN TextLength(Len(m))
        ELSE size[k - 1] + TextLength(m[k].offset) + TextLength(m[k].numbytes)
  IN size[Len(m)]

Store(n, before) == ToChars(n, gnu, before)

(* oldgnu_store_sparse_info: up to n entries of the map from the i-th on.  *)
StoreSparseInfo(i, n) ==
  [k \in 1 .. n |->
     IF i + k - 1 \in DOMAIN sparse_map
     THEN [offset |-> Store(sparse_map[i + k - 1].offset, Blank),
           numbytes |-> Store(sparse_map[i + k - 1].numbytes, Blank)]
     ELSE [offset |-> Blank, numbytes |-> Blank]]

(* oldgnu_dump_header: the header and the extension headers it needs.      *)
Extensions ==
  IF Len(sparse_map) <= SPARSES_IN_OLDGNU_HEADER THEN 0
  ELSE (Len(sparse_map) - SPARSES_IN_OLDGNU_HEADER + SPARSES_IN_SPARSE_HEADER - 1)
         \div SPARSES_IN_SPARSE_HEADER

OldGnuHeader ==
  <<[kind |-> "header", size |-> Store(archive_file_size, Store(st_size, Blank)),
     realsize |-> Store(st_size, Blank),
     sp |-> StoreSparseInfo(1, SPARSES_IN_OLDGNU_HEADER),
     isextended |-> Len(sparse_map) > SPARSES_IN_OLDGNU_HEADER]>>
  \o [k \in 1 .. Extensions |->
        [kind |-> "sparse",
         sp |-> StoreSparseInfo(SPARSES_IN_OLDGNU_HEADER + 1 + (k - 1) * SPARSES_IN_SPARSE_HEADER,
                                SPARSES_IN_SPARSE_HEADER),
         isextended |-> k < Extensions]]

(* start_header moves a size that does not fit to the extended header,     *)
(* where GNU.sparse.size or .realsize follow it; then the archived size is *)
(* stored over it, if it fits.                                             *)
PaxHeader(size, map) ==
  <<[kind |-> "header",
     size |-> Store(size, IF CanWrite(st_size, FALSE) THEN Store(st_size, Blank)
                          ELSE Store(0, Blank)),
     realsize |-> st_size, map |-> map]>>

(* pax_dump_header_1: the map in text, padded to a block.                  *)
MapBlocks == [k \in 1 .. Blocks(MapLength(sparse_map)) |->
                [kind |-> "map", map |-> sparse_map, of |-> Blocks(MapLength(sparse_map))]]

-----------------------------------------------------------------------------
(* The file changes while it is dumped.                                    *)

Change(how, content) ==
  /\ pc \in {"scan", "header", "dump", "stat"} /\ changes < MaxChanges
  /\ changes' = changes + 1
  /\ file' = content
  /\ troubles' = troubles \cup {how} \cup (IF pc = "stat" THEN {"later"} ELSE {})
  /\ UNCHANGED <<given, stat_info, sp, dumped_size, pos, region, left, archive, reader, result, pc>>

Truncate(n) == n < Len(file) /\ Change("shrunk", SubSeq(file, 1, n))
Grow(bytes) == Change("grown", file \o bytes)
WriteByte(i, b) == i \in DOMAIN file /\ Change("written", [file EXCEPT ![i] = b])

(* What is written behind the end, or farther behind it.                   *)
Growths == {<<1>>, [k \in 1 .. BLOCKSIZE |-> 0] \o <<1>>}

World ==
  \/ \E n \in {0, pos, pos + 1, Len(file) - 1} : n \in Nat /\ Truncate(n)
  \/ \E bytes \in Growths : Grow(bytes)
  \/ \E i \in {1, Len(file)}, b \in {0, 1} : WriteByte(i, b)

-----------------------------------------------------------------------------
(* sparse_scan_file.                                                       *)

NewRegion(offset) == [offset |-> offset, numbytes |-> 0]
AllZero(bytes) == \A k \in DOMAIN bytes : bytes[k] = 0
Unread == <<given, world, left, archive, reader>>

ScanBlock ==
  LET bytes == SubSeq(file, pos + 1, Fewer(pos + BLOCKSIZE, Len(file)))
      count == Len(bytes)
      start == IF sp.numbytes = 0 THEN pos ELSE sp.offset
  IN /\ pc = "scan" /\ count > 0
     /\ IF AllZero(bytes)
        THEN /\ sparse_map' = IF sp.numbytes > 0 THEN Append(sparse_map, sp) ELSE sparse_map
             /\ sp' = [sp EXCEPT !.numbytes = 0]
             /\ UNCHANGED archive_file_size
        ELSE /\ sp' = [offset |-> start, numbytes |-> sp.numbytes + count]
             /\ archive_file_size' = archive_file_size + count
             /\ UNCHANGED sparse_map
     /\ pos' = pos + count
     /\ UNCHANGED <<given, world, dumped_size, region, left, archive, reader, result, pc>>

(* The last entry, of no bytes if the file ends in a hole.                 *)
LastRegionUnmoved == sp                               \* a wrong LastRegion
LastRegion == IF sp.numbytes = 0 THEN NewRegion(pos) ELSE sp

(* The end of the file, or an error, which is taken for it; count is then  *)
(* SAFE_READ_ERROR, which is added to the size.                            *)
ScanEnd(count) ==
  /\ pc = "scan"
  /\ sparse_map' = Append(sparse_map, LastRegion)
  /\ archive_file_size' = archive_file_size + count
  /\ pc' = "header"
  /\ UNCHANGED <<given, file, changes, sp, dumped_size, pos, region, left, archive, reader, result>>

ScanFinished == pos >= Len(file) /\ ScanEnd(0) /\ UNCHANGED troubles
ScanReadError == MaxChanges > 0 /\ ScanEnd(-1) /\ troubles' = troubles \cup {"misread"}

-----------------------------------------------------------------------------
(* sparse_dump_file after the scan.                                        *)

StoredSize == IF format = "pax1"
              THEN archive_file_size + BLOCKSIZE * Blocks(MapLength(sparse_map))
              ELSE archive_file_size

Header ==
  CASE format = "gnu" -> OldGnuHeader
    [] format = "pax0" -> PaxHeader(StoredSize, sparse_map)
    [] format = "pax1" -> PaxHeader(StoredSize, <<>>) \o MapBlocks

DumpHeader ==
  /\ pc = "header"
  /\ archive' = Header
  /\ archive_file_size' = StoredSize
  /\ IF CanWrite(StoredSize, gnu) THEN UNCHANGED <<troubles, failed>>
     ELSE troubles' = troubles \cup {"too large"} /\ failed' = TRUE
  /\ UNCHANGED differs
  /\ region' = 1 /\ left' = sparse_map[1].numbytes /\ pos' = sparse_map[1].offset
  /\ pc' = "dump"
  /\ UNCHANGED <<given, file, changes, sparse_map, sp, dumped_size, reader>>

(* safe_read of n bytes.                                                   *)
WholeBlocks(n) ==                                     \* a wrong SafeRead
  IF pos + BLOCKSIZE <= Len(file) THEN SubSeq(file, pos + 1, pos + n) ELSE <<>>
SafeRead(n) == SubSeq(file, pos + 1, Fewer(pos + n, Len(file)))

(* sparse_dump_region: lseek, then a block at a time.                      *)
bufsize == Fewer(left, BLOCKSIZE)

DumpBlock ==
  LET bytes == SafeRead(bufsize)
  IN /\ pc = "dump" /\ left > 0
     /\ archive' = IF Len(archive) < MaxBlocks THEN Append(archive, DataBlock(bytes)) ELSE archive
     /\ left' = left - Len(bytes)
     /\ pos' = pos + Len(bytes)
     /\ dumped_size' = dumped_size + Len(bytes)
     /\ UNCHANGED <<given, world, stat_info, sp, region, reader, result, pc>>

NextRegion ==
  /\ pc = "dump" /\ left <= 0
  /\ IF region < Len(sparse_map)
     THEN /\ region' = region + 1
          /\ left' = sparse_map[region + 1].numbytes
          /\ pos' = sparse_map[region + 1].offset
          /\ UNCHANGED pc
     ELSE pc' = "pad" /\ UNCHANGED <<region, left, pos>>
  /\ UNCHANGED <<given, world, stat_info, sp, dumped_size, archive, reader, result>>

DumpReadError ==
  /\ pc = "dump" /\ left > 0 /\ MaxChanges > 0
  /\ failed' = TRUE
  /\ troubles' = troubles \cup {"error"}
  /\ pc' = "pad"
  /\ UNCHANGED <<differs, given, file, changes, stat_info, sp, dumped_size, pos, region, left, archive, reader>>

(* pad_archive.                                                            *)
Padding == IF archive_file_size > dumped_size THEN Blocks(archive_file_size - dumped_size) ELSE 0

PadArchive ==
  LET whole == archive \o [k \in 1 .. Padding |-> ZeroBlock] \o <<NextHeader>> IN
  /\ pc = "pad"
  /\ \/ archive' = whole /\ UNCHANGED troubles
     \/ \* the last blocks get lost, but none of a header
        /\ troubles = {} /\ MaxChanges > 0
        /\ \E n \in {1, 2} :
             /\ \A k \in 0 .. n - 1 : whole[Len(whole) - k].kind \in {"data", "next"}
             /\ archive' = SubSeq(whole, 1, Len(whole) - n)
        /\ troubles' = {"cut off"}
  /\ pc' = "decode"
  /\ UNCHANGED <<given, file, changes, stat_info, sp, dumped_size, pos, region, left, reader, result>>

-----------------------------------------------------------------------------
(* The other run.  read_header and decode_header have the header.          *)

RealSize == IF gnu THEN OffFromHeader(archive[1].realsize) ELSE archive[1].realsize
ArchivedSize == OffFromHeader(archive[1].size)

(* The entries of a header up to the first one without numbytes.           *)
Used(info) ==
  LET free == {k \in DOMAIN info : info[k].numbytes[1] = NUL} IN
  SubSeq(info, 1, IF free = {} THEN Len(info) ELSE Min(free) - 1)

Entry(e) == [offset |-> OffFromHeader(e.offset), numbytes |-> OffFromHeader(e.numbytes)]

(* oldgnu_add_sparse.                                                      *)
Valid(e) == e.offset >= 0 /\ e.offset + e.numbytes <= RealSize /\ ArchivedSize >= 0

(* oldgnu_get_sparse_info: the map and how many headers follow.  A header  *)
(* with a free entry is the last.                                          *)
Following ==
  LET last == {k \in DOMAIN archive :
                 archive[k].kind \in {"header", "sparse"}
                 /\ (~ archive[k].isextended \/ Len(Used(archive[k].sp)) < Len(archive[k].sp))}
  IN Min(last) - 1

OldGnuMap ==
  LET entries[k \in 0 .. Following + 1] ==
        IF k = 0 THEN <<>>
        ELSE entries[k - 1] \o [i \in DOMAIN Used(archive[k].sp) |-> Entry(archive[k].sp[i])]
  IN entries[Following + 1]

DecodedMap ==
  CASE format = "gnu" -> OldGnuMap
    [] format = "pax0" -> archive[1].map
    [] format = "pax1" -> archive[2].map

(* decode_header of the operation table; the blocks of the map are used.   *)
MapUsesBlocks ==
  CASE format = "gnu" -> Following
    [] format = "pax0" -> 0
    [] format = "pax1" -> archive[2].of

Decode ==
  LET map == DecodedMap
      ok == gnu => \A k \in DOMAIN map : Valid(map[k])
  IN /\ pc = "decode"
     /\ output' \in Outputs
     /\ sparse_map' = map
     /\ archive_file_size' = ArchivedSize
     /\ dumped_size' = 0
     /\ failed' = (failed \/ ~ ok)
     /\ next' = 2 + MapUsesBlocks
     /\ IF ok /\ output' # "skip" /\ map # <<>>
        THEN /\ region' = 1 /\ left' = map[1].numbytes
             /\ pc' = IF output' = "compare" THEN "stat" ELSE "seek"
        ELSE /\ pc' = "rest" /\ UNCHANGED <<region, left>>
     /\ UNCHANGED <<differs, given, world, sp, pos, archive, out, at>>

(* decode_num of version 1.0 tests an errno that it does not reset: after  *)
(* an ERANGE of some earlier call it refuses the first number of the map,  *)
(* whose blocks are then not used.  diff_file has compared the sizes.      *)
DecodeRefused ==
  /\ pc = "decode" /\ format = "pax1" /\ MaxChanges > 0
  /\ output' \in Outputs
  /\ sparse_map' = <<>>
  /\ archive_file_size' = ArchivedSize
  /\ dumped_size' = 0
  /\ failed' = TRUE /\ troubles' = troubles \cup {"errno"}
  /\ differs' = (output' = "compare" /\ Len(file) # RealSize)
  /\ next' = 2
  /\ pc' = "rest"
  /\ UNCHANGED <<given, file, changes, sp, pos, region, left, archive, out, at>>

(* lseek_or_error: a pipe gets NULs instead.                               *)
ZerosTo(n) == [k \in 1 .. n |-> IF k <= Len(out) THEN out[k] ELSE 0]

Seek ==
  LET offset == sparse_map[region].offset IN
  /\ pc = "seek"
  /\ IF output = "file" THEN UNCHANGED out ELSE out' = ZerosTo(offset)
  /\ at' = offset
  /\ pc' = "extract"
  /\ UNCHANGED <<given, world, stat_info, sp, dumped_size, pos, region, left, archive, output, next, result>>

(* sparse_extract_region: a block, or the end of the file at a hole.       *)
Written(bytes) ==
  [k \in 1 .. (IF at + Len(bytes) > Len(out) THEN at + Len(bytes) ELSE Len(out)) |->
     CASE k \in at + 1 .. at + Len(bytes) -> bytes[k - at]
       [] k \notin at + 1 .. at + Len(bytes) /\ k <= Len(out) -> out[k]
       [] OTHER -> 0]

(* A header is data too, if it is taken for data: some bytes not NUL.      *)
Buffer(block) == IF block.kind = "data" THEN block.bytes ELSE [k \in 1 .. BLOCKSIZE |-> 1]

ExtractBlock ==
  LET wrbytes == Fewer(left, BLOCKSIZE) IN
  /\ pc = "extract" /\ left > 0
  /\ IF next \in DOMAIN archive
     THEN LET bytes == SubSeq(Buffer(archive[next]), 1, wrbytes) IN
          /\ out' = Written(bytes)
          /\ at' = at + wrbytes
          /\ left' = left - wrbytes
          /\ dumped_size' = dumped_size + wrbytes
          /\ next' = next + 1
          /\ UNCHANGED <<result, pc>>
     ELSE \* Unexpected EOF in archive
          /\ failed' = TRUE /\ pc' = "rest"
          /\ UNCHANGED <<out, at, left, dumped_size, next, differs>>
  /\ UNCHANGED <<given, world, stat_info, sp, pos, region, archive, output>>

TruncateAt == output = "file" /\ sparse_map[region].numbytes = 0

ExtractNext ==
  /\ pc = "extract" /\ left = 0
  /\ out' = IF TruncateAt THEN ZerosTo(at) ELSE out
  /\ IF region < Len(sparse_map)
     THEN region' = region + 1 /\ left' = sparse_map[region + 1].numbytes /\ pc' = "seek"
     ELSE pc' = "rest" /\ UNCHANGED <<region, left>>
  /\ UNCHANGED <<given, world, stat_info, sp, dumped_size, pos, archive, output, next, at, result>>

(* skip_file of what sparse_extract_file or sparse_skip_file left.         *)
SkippedWhole(size) == size \div BLOCKSIZE              \* a wrong Skipped
Skipped(size) == IF size > 0 THEN Blocks(size) ELSE 0

Rest ==
  /\ pc = "rest"
  /\ next' = next + Skipped(archive_file_size - dumped_size)
  /\ failed' = (failed \/ next' > Len(archive) + 1)
  /\ pc' = "done"
  /\ UNCHANGED <<differs, given, world, stat_info, sp, dumped_size, pos, region, left, archive,
                 output, out, at>>

-----------------------------------------------------------------------------
(* --compare: diff_file and sparse_diff_file.                              *)

Compared == <<given, world, stat_info, sp, archive, output, out, at>>

(* check_sparse_region up to the i-th region of the map.                   *)
HoleBeforeData(i) ==                                  \* a wrong HoleEnd
  IF sparse_map[i].numbytes > 0 THEN sparse_map[i].offset ELSE 0
HoleEnd(i) == sparse_map[i].offset
StartHole(i, beg) == pc' = "hole" /\ pos' = beg /\ left' = HoleEnd(i) - beg

(* For a member of type GNUTYPE_SPARSE the size is not looked at.          *)
CompareSize ==
  /\ pc = "stat"
  /\ IF ~ gnu /\ Len(file) # RealSize
     THEN differs' = TRUE /\ pc' = "rest" /\ UNCHANGED <<pos, left>>
     ELSE StartHole(1, 0) /\ UNCHANGED differs
  /\ UNCHANGED <<Compared, dumped_size, region, next, failed>>

CompareHole ==
  /\ pc = "hole" /\ left > 0
  /\ LET bytes == SafeRead(bufsize) IN
     IF AllZero(bytes)
     THEN pos' = pos + Len(bytes) /\ left' = left - Len(bytes) /\ UNCHANGED <<differs, pc>>
     ELSE differs' = TRUE /\ pc' = "rest" /\ UNCHANGED <<pos, left>>
  /\ UNCHANGED <<Compared, dumped_size, region, next, failed>>

HoleCompared ==
  /\ pc = "hole" /\ left <= 0
  /\ pc' = "check"
  /\ pos' = sparse_map[region].offset /\ left' = sparse_map[region].numbytes
  /\ UNCHANGED <<Compared, dumped_size, region, next, result>>

(* check_data_region: a block.  Where the file has become shorter the rest *)
(* of diff_buffer is what the stack holds, which may be anything.          *)
Differs(bytes, block) ==
  {\E k \in DOMAIN bytes : bytes[k] # block[k]} \cup (IF Len(bytes) < bufsize THEN {TRUE} ELSE {})

CompareBlock ==
  /\ pc = "check" /\ left > 0
  /\ IF next \in DOMAIN archive
     THEN LET bytes == SafeRead(bufsize) IN
          /\ next' = next + 1
          /\ dumped_size' = dumped_size + Len(bytes)
          /\ pos' = pos + Len(bytes) /\ left' = left - Len(bytes)
          /\ \E different \in Differs(bytes, Buffer(archive[next])) :
               IF different THEN differs' = TRUE /\ pc' = "rest" ELSE UNCHANGED <<differs, pc>>
          /\ UNCHANGED failed
     ELSE \* Unexpected EOF in archive
          /\ failed' = TRUE /\ pc' = "rest"
          /\ UNCHANGED <<differs, dumped_size, pos, left, next>>
  /\ UNCHANGED <<Compared, region>>

CompareReadError ==
  /\ pc \in {"hole", "check"} /\ left > 0 /\ MaxChanges > 0
  /\ pc = "check" => next \in DOMAIN archive
  /\ next' = IF pc = "check" THEN next + 1 ELSE next
  /\ failed' = TRUE /\ troubles' = troubles \cup {"error"}
  /\ pc' = "rest"
  /\ UNCHANGED <<given, file, changes, stat_info, sp, archive, output, out, at, dumped_size, pos,
                 region, left, differs>>

(* What was equal to the end is not skipped: its blocks were taken.        *)
CompareNext ==
  /\ pc = "check" /\ left <= 0
  /\ IF region < Len(sparse_map)
     THEN region' = region + 1 /\ StartHole(region + 1, sparse_map[region].offset + sparse_map[region].numbytes)
     ELSE pc' = "done" /\ UNCHANGED <<region, pos, left>>
  /\ UNCHANGED <<Compared, dumped_size, next, result>>

Compare == CompareSize \/ CompareHole \/ HoleCompared \/ CompareBlock \/ CompareNext

-----------------------------------------------------------------------------
Init ==
  /\ original \in Contents /\ format \in Formats
  /\ file = original /\ troubles = {} /\ changes = 0
  /\ sparse_map = <<>> /\ archive_file_size = 0 /\ sp = NewRegion(0)
  /\ dumped_size = 0 /\ pos = 0 /\ region = 0 /\ left = 0
  /\ archive = <<>> /\ output = "none" /\ next = 1 /\ out = <<>> /\ at = 0
  /\ failed = FALSE /\ differs = FALSE /\ pc = "scan"

Tar ==
  \/ ScanBlock \/ ScanFinished
  \/ DumpHeader \/ DumpBlock \/ NextRegion \/ PadArchive
  \/ Decode \/ Seek \/ ExtractBlock \/ ExtractNext \/ Rest \/ Compare

Finished == pc = "done" /\ UNCHANGED vars

Next == World \/ Tar \/ ScanReadError \/ DumpReadError \/ DecodeRefused \/ CompareReadError \/ Finished

(* tar runs on while there is something to do, and reads need not fail; a  *)
(* dump of zeros is a step too.                                            *)
Spec == Init /\ [][Next]_vars /\ WF_vars(Tar)
==============================================================================
