---------------------------- MODULE UpdateArchive ----------------------------
(***************************************************************************)
(* `tar --append', `--update' and `--concatenate' (update.c): the archive  *)
(* is read to its end, then the same record buffer is written out, the     *)
(* first time after stepping back over the record that was read last.      *)
(***************************************************************************)
EXTENDS ArchiveFile

CONSTANTS
  Offered    \* for each of the subcommands "append", "update" and "cat", what
             \* is added, in order: for a file its name, its modification
             \* time and the blocks dump_file makes of it; for another
             \* archive (cat) its blocks

Input == [name : Names \cup {NoName}, mtime : Nat, blocks : Seq(Block)]

ASSUME UpdateAssumption ==
  /\ DOMAIN Offered \subseteq {"append", "update", "cat"}
  /\ \A c \in DOMAIN Offered : Offered[c] \in Seq(Input)

VARIABLES
  subcommand_option,       \* the subcommand of this run
  access_mode,             \* "read" or "write"
  time_to_start_writing,
  avoided,                 \* avoided_name_table
  left,                    \* what skip_file has still to skip
  todo,                    \* number of inputs taken
  queue,                   \* blocks of the current input still to be stored
  pc

writer == <<access_mode, time_to_start_writing>>
task == <<avoided, left, todo, queue, pc>>
given == <<subcommand_option, original>>
vars == <<given, file, fpos, reader, writer, task>>

Inputs == Offered[subcommand_option]

Init ==
  /\ subcommand_option \in DOMAIN Offered
  /\ OpenForUpdate
  /\ access_mode = "read" /\ time_to_start_writing = FALSE
  /\ avoided = {} /\ left = 0
  /\ todo = 0 /\ queue = <<>>
  /\ pc = "scan"

------------------------------------------------------------------------------
(* Reading the archive to its end.                                         *)

Fetch ==
  /\ pc \in {"scan", "skip", "long", "pax"}
  /\ FetchRecord
  /\ UNCHANGED <<given, file, writer, task>>

Scanning == UNCHANGED <<given, file, fpos, record, end, records_read, todo, queue>>

(* A member of the archive is as recent as the file of that name.          *)
OlderAvoided(t, m) == m.mtime >= t           \* a wrong UpToDate
UpToDate(t, m) == m.mtime <= t

ScanMember ==
  /\ pc = "scan" /\ HasBlock /\ block.kind = "header"
  /\ avoided' = IF subcommand_option = "update"
                   /\ \E i \in DOMAIN Inputs :
                        Inputs[i].name = block.name /\ UpToDate(block.off, Inputs[i])
                THEN avoided \cup {block.name} ELSE avoided
  /\ cur' = cur + 1
  /\ left' = block.size
  /\ pc' = IF block.size > 0 THEN "skip" ELSE "scan"
  /\ UNCHANGED <<hit_eof, writer>>
  /\ Scanning

SkipData ==
  LET n == Lesser(end - cur, left) IN
  /\ pc = "skip" /\ HasBlock
  /\ cur' = cur + n
  /\ left' = left - n
  /\ pc' = IF left' > 0 THEN "skip" ELSE "scan"
  /\ UNCHANGED <<hit_eof, writer, avoided>>
  /\ Scanning

SkipUnexpectedEof ==
  /\ pc = "skip" /\ AtEof
  /\ pc' = "fatal"
  /\ UNCHANGED <<cur, hit_eof, writer, avoided, left>>
  /\ Scanning

(* A header extension and its data; xheader_read does not check that there *)
(* is a block.                                                             *)
ScanExtension ==
  /\ pc = "scan" /\ HasBlock /\ block.kind \in {"long", "pax"}
  /\ cur' = cur + 1
  /\ pc' = block.kind
  /\ UNCHANGED <<hit_eof, writer, avoided, left>>
  /\ Scanning

ScanExtensionData ==
  /\ pc \in {"long", "pax"} /\ (HasBlock \/ AtEof)
  /\ cur' = IF HasBlock THEN cur + 1 ELSE cur
  /\ pc' = IF pc = "pax" /\ AtEof THEN "undefined" ELSE "scan"
  /\ UNCHANGED <<hit_eof, writer, avoided, left>>
  /\ Scanning

ScanNonHeader ==
  /\ pc = "scan" /\ HasBlock
  /\ block.kind \in {"data", "extdata", "junk"}
  /\ cur' = cur + 1
  /\ UNCHANGED <<hit_eof, writer, avoided, left, pc>>
  /\ Scanning

(* The first block of NULs is the place to write at; the mode is still     *)
(* "read", so that the first flush steps back.                             *)
FoundZeroBlock ==
  /\ pc = "scan" /\ HasBlock /\ block.kind = "zero"
  /\ time_to_start_writing' = TRUE
  /\ pc' = "add"
  /\ UNCHANGED <<cur, hit_eof, access_mode, avoided, left>>
  /\ Scanning

(* There is no end mark: reset_eof starts a new record after the file.     *)
ModeUnchanged == access_mode                 \* a wrong ModeAfterReset
ModeAfterReset == "write"

FoundEndOfFile ==
  /\ pc = "scan" /\ AtEof
  /\ hit_eof' = FALSE
  /\ cur' = 0 /\ end' = BF
  /\ access_mode' = ModeAfterReset
  /\ time_to_start_writing' = TRUE
  /\ pc' = "add"
  /\ UNCHANGED <<given, file, fpos, record, records_read, avoided, left, todo, queue>>

------------------------------------------------------------------------------
(* Writing.                                                                *)

(* backspace_output goes back by a whole record.                           *)
NoStepBack == fpos                           \* a wrong StepBack
StepBack == Greater(0, fpos - BF)

FlushAt(p) ==
  /\ file' = Overwritten(file, p, RecordBlocks(record))
  /\ fpos' = p + BF
  /\ cur' = 0 /\ end' = BF

(* flush_archive, when the record is full or the archive is closed.        *)
Flush ==
  /\ pc = "close" \/ (pc \in {"put", "eot1", "eot2"} /\ cur = end)
  /\ IF access_mode = "read"
     THEN /\ FlushAt(StepBack)
          /\ access_mode' = "write" /\ time_to_start_writing' = FALSE
     ELSE FlushAt(fpos) /\ UNCHANGED writer
  /\ pc' = IF pc = "close" THEN "done" ELSE pc
  /\ UNCHANGED <<given, record, hit_eof, records_read, avoided, left, todo, queue>>

Storing == UNCHANGED <<given, file, fpos, end, hit_eof, records_read, writer, avoided, left>>

(* dump_file passes over a name that is up to date.                        *)
NextInput ==
  /\ pc = "add" /\ todo < Len(Inputs)
  /\ todo' = todo + 1
  /\ queue' = IF Inputs[todo + 1].name \in avoided THEN <<>> ELSE Inputs[todo + 1].blocks
  /\ pc' = IF queue' = <<>> THEN "add" ELSE "put"
  /\ UNCHANGED <<record, cur>>
  /\ Storing

(* As many blocks as the record has room for (available_space_after).      *)
OneBlockLess == end - cur - 1                \* a wrong Room
Room == end - cur

Put ==
  LET n == Lesser(Room, Len(queue)) IN
  /\ pc = "put" /\ cur < end
  /\ record' = [k \in Slots |-> IF k \in cur .. cur + n - 1
                                THEN queue[k - cur + 1] ELSE record[k]]
  /\ cur' = cur + n
  /\ queue' = SubSeq(queue, n + 1, Len(queue))
  /\ pc' = IF queue' = <<>> THEN "add" ELSE "put"
  /\ UNCHANGED todo
  /\ Storing

(* append_file gives up when the archive it copies has become shorter.     *)
InputShrank ==
  /\ pc = "put" /\ cur < end
  /\ subcommand_option = "cat"
  /\ pc' = "fatal"
  /\ UNCHANGED <<record, cur, todo, queue>>
  /\ Storing

StartEot ==
  /\ pc = "add" /\ todo = Len(Inputs)
  /\ pc' = "eot1"
  /\ UNCHANGED <<record, cur, todo, queue>>
  /\ Storing

(* write_eot clears the rest of the record as far as record_end.           *)
WriteEot ==
  /\ pc \in {"eot1", "eot2"} /\ cur < end
  /\ record' = [k \in Slots |->
                  IF k \in cur .. (IF pc = "eot1" THEN cur ELSE end - 1)
                  THEN Zero ELSE record[k]]
  /\ cur' = cur + 1
  /\ pc' = IF pc = "eot1" THEN "eot2" ELSE "close"
  /\ UNCHANGED <<todo, queue>>
  /\ Storing

------------------------------------------------------------------------------
Next ==
  \/ Fetch
  \/ ScanMember \/ SkipData \/ SkipUnexpectedEof \/ ScanExtension \/ ScanExtensionData
  \/ ScanNonHeader \/ FoundZeroBlock \/ FoundEndOfFile
  \/ Flush \/ NextInput \/ Put \/ InputShrank \/ StartEot \/ WriteEot

Finished == pc \in {"done", "fatal", "undefined"}

Spec == Init /\ [][Next]_vars

FairSpec == Spec /\ WF_vars(Next)
==============================================================================
