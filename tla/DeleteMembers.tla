---------------------------- MODULE DeleteMembers ----------------------------
(***************************************************************************)
(* `tar --delete' (delete.c).  It passes over the members before the first *)
(* one that goes (pc "scan", "skip"), then reads on and copies what stays  *)
(* into new_record, which write_record writes over the records already     *)
(* read, or to stdout when tar acts as a filter.                           *)
(***************************************************************************)
EXTENDS ArchiveFile

CONSTANTS
  Doomed,              \* the names given on the command line
  Calls,               \* how tar may be called: with which archives, as a
                       \* filter or not, with which --occurrence
  MaxReads             \* bound: reads followed while a member is dropped,
                       \* which has no end at the end of the file

ASSUME DeleteAssumption ==
  /\ Doomed \subseteq Names
  /\ Calls \subseteq [acting_as_filter : BOOLEAN, occurrence_option : Nat,
                    archives : SUBSET Archives]
  /\ MaxReads \in Nat

VARIABLES
  acting_as_filter,
  occurrence_option, \* delete only the occurrence_option-th member of a name
  stdout,
  write_archive_to_stdout,
  records_skipped, records_written,
  new_record, new_blocks,
  extended_header,   \* the header block extended_header was read from
  long_name,         \* next_long_name: the block it was read from
  found_count,
  pending,           \* header blocks still to be copied by write_recent_*
  left,              \* blocks to skip, or blocks_to_skip, or blocks_to_keep
  kept,              \* kept_blocks_in_record
  zeros,             \* total_zero_blocks
  pc

output == <<stdout, write_archive_to_stdout, records_skipped, records_written,
            new_record, new_blocks>>
headers == <<extended_header, long_name, found_count>>
copy == <<pending, left, kept, zeros, pc>>
given == <<original, acting_as_filter, occurrence_option>>
vars == <<given, file, fpos, reader, output, headers, copy>>

Init ==
  /\ OpenForUpdate
  /\ \E call \in Calls :
       /\ original \in call.archives
       /\ acting_as_filter = call.acting_as_filter
       /\ occurrence_option = call.occurrence_option
  /\ stdout = <<>>
  /\ write_archive_to_stdout = acting_as_filter
  /\ records_skipped = 0 /\ records_written = 0
  /\ new_record = [i \in Slots |-> Junk] /\ new_blocks = 0
  /\ extended_header = Junk /\ long_name = Junk      \* no header yet
  /\ found_count = [n \in Names |-> 0]
  /\ pending = <<>> /\ left = 0 /\ kept = 0 /\ zeros = 0
  /\ pc = "scan"

------------------------------------------------------------------------------
(* Reading.  While tar is a filter and has met nothing to delete, a record *)
(* is passed on to stdout just before the next one replaces it.            *)

PassOn ==
  stdout' = IF write_archive_to_stdout /\ records_read > 0
            THEN stdout \o RecordBlocks(record) ELSE stdout

(* find_next_block in one of its callers.                                  *)
Fetch ==
  /\ pc \in {"scan", "skip", "read", "long", "pax"}
  /\ FetchRecord
  /\ PassOn
  /\ UNCHANGED <<given, file, write_archive_to_stdout, records_skipped, records_written,
                 new_record, new_blocks, headers, copy>>

(* ISFOUND, once the member has been counted.                              *)
FoundLater(n) == found_count[n] + 1 >= occurrence_option     \* a wrong IsFound

IsFound(n) ==
  LET c == found_count[n] + 1 IN
  IF occurrence_option = 0 THEN c > 0 ELSE c = occurrence_option

Count(n) ==
  found_count' = IF n \in Doomed THEN [found_count EXCEPT ![n] = @ + 1] ELSE found_count

Goes(n) == n \in Doomed /\ IsFound(n)

------------------------------------------------------------------------------
(* Passing over the members before the first deletion.  Headers are read   *)
(* raw: the first header extension, whosever it is, ends this phase.       *)

Passed == UNCHANGED <<given, file, fpos, record, end, hit_eof, records_read, output,
                      extended_header, long_name, pending, kept, zeros>>

ScanMember ==
  /\ pc = "scan" /\ HasBlock /\ block.kind = "header"
  /\ ~ Goes(block.name)
  /\ Count(block.name)
  /\ cur' = cur + 1
  /\ left' = block.size
  /\ pc' = IF block.size > 0 THEN "skip" ELSE "scan"
  /\ Passed

(* skip_file, a record at a time.                                          *)
SkipData ==
  LET n == Lesser(end - cur, left) IN
  /\ pc = "skip" /\ HasBlock
  /\ cur' = cur + n
  /\ left' = left - n
  /\ pc' = IF left' > 0 THEN "skip" ELSE "scan"
  /\ UNCHANGED found_count
  /\ Passed

SkipUnexpectedEof ==
  /\ pc = "skip" /\ AtEof
  /\ pc' = "fatal"
  /\ UNCHANGED <<cur, left, found_count>>
  /\ Passed

(* HEADER_FAILURE.                                                         *)
ScanNonHeader ==
  /\ pc = "scan" /\ HasBlock
  /\ block.kind \in {"data", "extdata", "junk"}
  /\ cur' = cur + 1
  /\ UNCHANGED <<left, found_count, pc>>
  /\ Passed

(* The end of the archive comes first: nothing is deleted or written.      *)
ScanEnd ==
  /\ pc = "scan"
  /\ AtEof \/ (HasBlock /\ block.kind = "zero")
  /\ pc' = "done"
  /\ UNCHANGED <<cur, left, found_count>>
  /\ Passed

(* Something goes, or may go: the blocks before this one in the record are *)
(* saved and the rest of the archive is rewritten.                         *)
SkippedRecords == records_read               \* a wrong RecordsSkipped
RecordsSkipped == records_read - 1

StartRewriting ==
  /\ records_skipped' = RecordsSkipped
  /\ write_archive_to_stdout' = FALSE
  /\ new_record' = [i \in Slots |-> IF i < cur THEN record[i] ELSE Junk]
  /\ new_blocks' = cur
  /\ UNCHANGED <<given, file, fpos, record, end, hit_eof, records_read, stdout,
                 records_written, extended_header, long_name, pending, kept, zeros>>

ScanDeleted ==
  /\ pc = "scan" /\ HasBlock /\ block.kind = "header"
  /\ Goes(block.name)
  /\ StartRewriting
  /\ Count(block.name)
  /\ cur' = cur + 1
  /\ left' = block.size
  /\ pc' = "drop"

ScanExtended ==
  /\ pc = "scan" /\ HasBlock /\ block.kind \in {"long", "pax"}
  /\ StartRewriting
  /\ UNCHANGED <<found_count, cur, left>>
  /\ pc' = "loop"

------------------------------------------------------------------------------
(* Dropping a member: whole records while its data reach their end, which  *)
(* also fetches the next record when the data end with this one.  Nothing  *)
(* stops this at the end of the file.                                      *)

DropRecord ==
  /\ pc = "drop" /\ end - cur <= left
  /\ records_read < MaxReads
  /\ left' = left - (end - cur)
  /\ FlushArchive
  /\ UNCHANGED <<given, file, hit_eof, output, headers, pending, kept, zeros, pc>>

DropRest ==
  /\ pc = "drop" /\ end - cur > left
  /\ cur' = cur + left
  /\ left' = 0
  /\ pc' = "loop"
  /\ UNCHANGED <<given, file, fpos, record, end, hit_eof, records_read, output, headers,
                 pending, kept, zeros>>

------------------------------------------------------------------------------
(* The next header, with its extensions.                                   *)

(* The head of the loop: flush_archive, not find_next_block.               *)
Loop ==
  /\ pc = "loop"
  /\ IF cur = end THEN FlushArchive
     ELSE UNCHANGED <<fpos, record, cur, end, records_read>>
  /\ pc' = "read"
  /\ UNCHANGED <<given, file, hit_eof, output, headers, pending, left, kept, zeros>>

Reading == UNCHANGED <<given, file, fpos, record, end, hit_eof, records_read, output,
                       kept, zeros>>

(* read_header_primitive takes the name from a long-name header ...        *)
ReadExtension ==
  /\ pc = "read" /\ HasBlock /\ block.kind \in {"long", "pax"}
  /\ cur' = cur + 1
  /\ IF block.kind = "long"
     THEN long_name' = block /\ UNCHANGED extended_header
     ELSE extended_header' = block /\ UNCHANGED long_name
  /\ pc' = block.kind
  /\ UNCHANGED <<found_count, pending, left>>
  /\ Reading

(* ... and xheader_read keeps the extended header; it does not check that  *)
(* there is a block.                                                       *)
ReadExtensionData ==
  /\ pc \in {"long", "pax"} /\ (HasBlock \/ AtEof)
  /\ cur' = IF HasBlock THEN cur + 1 ELSE cur
  /\ pc' = IF pc = "pax" /\ AtEof THEN "undefined" ELSE "read"
  /\ UNCHANGED <<headers, pending, left>>
  /\ Reading

(* xheader_decode applies whatever extended_header holds.                  *)
EffectiveName(b) == IF extended_header # Junk THEN extended_header.name ELSE b.name

ReadDeleted ==
  /\ pc = "read" /\ HasBlock /\ block.kind = "header"
  /\ Goes(EffectiveName(block))
  /\ Count(EffectiveName(block))
  /\ cur' = cur + 1
  /\ left' = block.size
  /\ long_name' = Junk
  /\ pc' = "drop"
  /\ UNCHANGED <<extended_header, pending>>
  /\ Reading

(* write_recent_bytes writes the odd bytes of the extended header as one   *)
(* more block, also when there are none.                                   *)
ExtensionBlocks ==
  IF extended_header # Junk
  THEN <<extended_header, ExtData(extended_header.name)>>
         \o (IF extended_header.off = 1 THEN <<Zero>> ELSE <<>>)
  ELSE IF long_name # Junk THEN <<long_name, ExtData(long_name.name)>> ELSE <<>>

WithoutExtension == <<>>                     \* a wrong ExtensionsKept
ExtensionsKept == ExtensionBlocks

ReadKept ==
  /\ pc = "read" /\ HasBlock /\ block.kind = "header"
  /\ ~ Goes(EffectiveName(block))
  /\ Count(EffectiveName(block))
  /\ pending' = Append(ExtensionsKept, block)
  /\ cur' = cur + 1
  /\ left' = block.size
  /\ long_name' = Junk
  /\ pc' = "header"
  /\ UNCHANGED extended_header
  /\ Reading

(* "Deleting non-header from archive".                                     *)
SameBlock == cur                             \* a wrong NextBlock
NextBlock == cur + 1

ReadNonHeader ==
  /\ pc = "read" /\ HasBlock
  /\ block.kind \in {"data", "extdata", "junk"}
  /\ cur' = NextBlock
  /\ pc' = "loop"
  /\ UNCHANGED <<headers, pending, left>>
  /\ Reading

(* Data were copied from behind record_end: what lies there is taken for a *)
(* header, or set_next_block_after aborts.                                 *)
ReadPastEnd ==
  /\ pc = "read" /\ cur > end
  /\ pc' = "undefined"
  /\ UNCHANGED <<cur, headers, pending, left>>
  /\ Reading

ReadEnd ==
  /\ pc = "read"
  /\ AtEof \/ (HasBlock /\ block.kind = "zero")
  /\ pc' = "eot"
  /\ UNCHANGED <<cur, headers, pending, left>>
  /\ Reading

------------------------------------------------------------------------------
(* Writing.                                                                *)

(* write_record of r.  move_archive goes back to the record to write and,  *)
(* if asked to, forward again to where reading stopped.                    *)
BackToStart == records_written - records_read     \* a wrong Back
Back == records_written + records_skipped - records_read

Forward == records_read - (records_written + 1 + records_skipped)

WriteRecord(r, move_back) ==
  /\ records_written' = records_written + 1
  /\ IF acting_as_filter
     THEN /\ stdout' = stdout \o RecordBlocks(r)
          /\ UNCHANGED <<file, fpos>>
     ELSE LET p == Greater(0, fpos + BF * Back) IN
          /\ file' = Overwritten(file, p, RecordBlocks(r))
          /\ fpos' = IF move_back THEN Greater(0, p + BF + BF * Forward) ELSE p + BF
          /\ UNCHANGED stdout

(* r is new_record with n blocks in it; a full one is written.             *)
PutBlocks(r, n) ==
  /\ new_record' = r
  /\ new_blocks' = IF n = BF THEN 0 ELSE n
  /\ IF n = BF THEN WriteRecord(r, TRUE)
     ELSE UNCHANGED <<file, fpos, stdout, records_written>>
  /\ UNCHANGED <<given, record, end, hit_eof, records_read, headers,
                 write_archive_to_stdout, records_skipped, zeros>>

CopyHeader ==
  /\ pc = "header"
  /\ PutBlocks([new_record EXCEPT ![new_blocks] = Head(pending)], new_blocks + 1)
  /\ pending' = Tail(pending)
  /\ IF Len(pending) = 1
     THEN /\ kept' = Lesser(end - cur, left)
          /\ pc' = IF left > 0 THEN "data" ELSE "loop"
     ELSE UNCHANGED <<kept, pc>>
  /\ UNCHANGED <<cur, left>>

KeptBefore == kept                           \* a wrong KeptInRecord
KeptInRecord == Lesser(BF, left)

FetchData ==
  /\ pc = "data" /\ cur = end
  /\ FlushReadOnly
  /\ kept' = KeptInRecord
  /\ pc' = "copy"
  /\ UNCHANGED <<given, file, hit_eof, output, headers, pending, left, zeros>>

(* No more than the rest of this record and the room in the new one.       *)
AnyRoom == kept                              \* a wrong CopyCount
CopyCount == Lesser(kept, BF - new_blocks)

Copying == pc = "copy" \/ (pc = "data" /\ cur # end)

CopyData ==
  /\ Copying
  /\ CopyCount > 0
  /\ PutBlocks([k \in Slots |->
                 IF k \in new_blocks .. new_blocks + CopyCount - 1
                 THEN record[cur + (k - new_blocks)] ELSE new_record[k]],
               new_blocks + CopyCount)
  /\ cur' = cur + CopyCount
  /\ left' = left - CopyCount
  /\ kept' = kept - CopyCount
  /\ pc' = IF left' > 0 THEN "data" ELSE "loop"
  /\ UNCHANGED pending

(* if (! count) abort ().                                                  *)
CopyAborts ==
  /\ Copying
  /\ CopyCount <= 0
  /\ pc' = "aborted"
  /\ UNCHANGED <<given, file, fpos, reader, output, headers, pending, left, kept, zeros>>

(* The end of tape; then the file is truncated where writing stopped.      *)
ZerosWanted == 2

WriteEot ==
  /\ pc = "eot" /\ zeros < ZerosWanted
  /\ zeros' = zeros + (BF - new_blocks)
  /\ WriteRecord([k \in Slots |-> IF k < new_blocks THEN new_record[k] ELSE Zero],
                 zeros' < ZerosWanted)
  /\ new_blocks' = 0
  /\ UNCHANGED <<given, reader, headers, new_record, write_archive_to_stdout,
                 records_skipped, pending, left, kept, pc>>

Truncate ==
  /\ pc = "eot" /\ zeros >= ZerosWanted
  /\ file' = IF acting_as_filter THEN file ELSE SubSeq(file, 1, Lesser(fpos, Len(file)))
  /\ pc' = "done"
  /\ UNCHANGED <<given, fpos, reader, output, headers, pending, left, kept, zeros>>

------------------------------------------------------------------------------
Next ==
  \/ Fetch
  \/ ScanMember \/ SkipData \/ SkipUnexpectedEof \/ ScanNonHeader \/ ScanEnd
  \/ ScanDeleted \/ ScanExtended
  \/ DropRecord \/ DropRest
  \/ Loop \/ ReadExtension \/ ReadExtensionData \/ ReadDeleted \/ ReadKept
  \/ ReadNonHeader \/ ReadPastEnd \/ ReadEnd
  \/ CopyHeader \/ FetchData \/ CopyData \/ CopyAborts
  \/ WriteEot \/ Truncate

Finished == pc \in {"done", "fatal", "undefined", "aborted"}

Spec == Init /\ [][Next]_vars

(* One sequential process.                                                 *)
FairSpec == Spec /\ WF_vars(Next)
==============================================================================
