----------------------------- MODULE ArchiveFile -----------------------------
(***************************************************************************)
(* An existing archive opened with ACCESS_UPDATE, as --delete, --append,   *)
(* --update and --concatenate open it: the file (or stdin), the position   *)
(* of its descriptor, and the record buffer of buffer.c in reading mode.   *)
(***************************************************************************)
EXTENDS TarBlocks, SequencesExt

CONSTANTS
  BF,        \* blocking_factor of this run
  Archives   \* the archives it may be given: sequences of blocks

ASSUME ArchiveFileAssumption == BF \in Nat \ {0} /\ Archives \subseteq Seq(Block)

VARIABLES
  original,      \* the archive as it was when it was opened
  file,          \* the blocks of the archive file
  fpos,          \* the position of the descriptor, in blocks
  record,        \* the record at record_start
  cur, end,      \* current_block and record_end, relative to record_start
  hit_eof,
  records_read

reader == <<record, cur, end, hit_eof, records_read>>

Slots == 0 .. BF - 1

Lesser(m, n) == IF m < n THEN m ELSE n
Greater(m, n) == IF m > n THEN m ELSE n

OpenForUpdate ==
  /\ original \in Archives
  /\ file = original
  /\ fpos = 0
  /\ record = [i \in Slots |-> Junk]
  /\ cur = 0 /\ end = 0
  /\ hit_eof = FALSE
  /\ records_read = 0

(* How many blocks a read of a record returns.                             *)
Readable == Greater(0, Lesser(BF, Len(file) - fpos))

(* flush_read on one volume: a short read (short_read) counts as a record  *)
(* like a full one.                                                        *)
ReadRecord ==
  /\ record' = [i \in Slots |-> IF i < Readable THEN file[fpos + i + 1] ELSE record[i]]
  /\ fpos' = fpos + Readable
  /\ records_read' = records_read + 1
  /\ cur' = 0

(* flush_archive in reading mode: it makes the record a whole one first.   *)
FlushArchive == ReadRecord /\ end' = Readable

(* flush_read called directly leaves record_end as it was, except after a  *)
(* short read.                                                             *)
FlushReadOnly == ReadRecord /\ end' = IF Readable = BF THEN end ELSE Readable

(* find_next_block when the record is used up; otherwise it returns the    *)
(* block at cur at once.                                                   *)
FetchRecord ==
  /\ cur = end /\ ~ hit_eof
  /\ FlushArchive
  /\ hit_eof' = (Readable = 0)

HasBlock == cur < end
AtEof == cur = end /\ hit_eof
block == record[cur]

(* The blocks f holds once w is written over it from block p on.           *)
Overwritten(f, p, w) ==
  [i \in 1 .. Greater(Len(f), p + Len(w)) |->
     IF i > p /\ i <= p + Len(w) THEN w[i - p]
     ELSE IF i <= Len(f) THEN f[i] ELSE Zero]

RecordBlocks(r) == [i \in 1 .. BF |-> r[i - 1]]
==============================================================================
