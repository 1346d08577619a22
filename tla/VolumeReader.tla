----------------------------- MODULE VolumeReader -----------------------------
(***************************************************************************)
(* `tar --extract --multi-volume': read_and of list.c consumes blocks from *)
(* the record buffer of buffer.c; flush_archive refills it, and at the end *)
(* of a volume _gnu_flush_read calls try_new_volume until a volume is      *)
(* accepted.  The operator who mounts volumes is the environment.          *)
(***************************************************************************)
EXTENDS TarBlocks

VARIABLES
  RB,            \* blocking_factor of this run
  volumes,       \* the volumes, as they were written
  MaxMistakes,   \* bound: times the operator mounts a wrong volume, or the
                 \* same one again
  vol, pos,      \* the mounted volume and how much of it was read
  accepted,      \* the last volume try_new_volume returned true for
  mistakes,      \* times the operator mounted another volume than the next
  rrecord,       \* the record at record_start
  rcur, rend,    \* current_block and record_end, relative to record_start
  hit_eof,
  rsave, rreal,  \* save_* and real_s_*
  continued,     \* continued_file_name, _size and _offset
  nvpc,          \* where try_new_volume is
  rleft,         \* blocks of the current member still to be read
  keep,          \* is the current member extracted (or skipped)?
  out,           \* the headers and data blocks delivered to the extraction
  rpc            \* the caller of find_next_block

fixed == <<RB, volumes, MaxMistakes>>
medium == <<vol, pos, accepted, mistakes>>
rbuffer == <<rrecord, rcur, rend, hit_eof>>
rtracking == <<rsave, rreal, continued>>
extraction == <<rleft, keep, out, rpc>>
rvars == <<medium, rbuffer, rtracking, nvpc, extraction>>

RSlots == 0 .. RB - 1
NotContinued == [name |-> NoName, size |-> 0, off |-> 0]
Least(m, n) == IF m < n THEN m ELSE n

Init ==
  /\ vol = 1 /\ pos = 0 /\ accepted = 1 /\ mistakes = 0
  /\ rrecord = [i \in RSlots |-> Junk]
  /\ rcur = 0 /\ rend = 0 /\ hit_eof = FALSE
  /\ rsave = NoMember /\ rreal = NoMember
  /\ continued = NotContinued
  /\ nvpc = "none"
  /\ rleft = 0 /\ keep = TRUE /\ out = <<>>
  /\ rpc = "open"

------------------------------------------------------------------------------
(* Reading records.                                                        *)

(* rmtread: n blocks of volume v from block p on replace the start of the  *)
(* record.                                                                 *)
Loaded(v, p, n) ==
  [i \in RSlots |-> IF i < n THEN volumes[v][p + i + 1] ELSE rrecord[i]]

Available(v, p) == Least(RB, Len(volumes[v]) - p)

(* The caller of find_next_block has used up the record.                   *)
NeedsBlock == nvpc = "none" /\ rpc \in {"open", "header", "zero", "data"} /\ rcur = rend

HasBlock == nvpc = "none" /\ rcur < rend
AtEof == NeedsBlock /\ hit_eof

(* short_read moves record_end after n blocks were read.                   *)
OneBlockLess(n) == n - 1               \* a wrong RecordEnd
RecordEnd(n) == n

SyncWithoutReset ==                    \* a wrong MultiVolumeSync
  rreal' = IF rsave.name # NoName THEN rsave ELSE rreal

MultiVolumeSync == rreal' = IF rsave.name # NoName THEN rsave ELSE NoMember

(* flush_archive and _gnu_flush_read; short_read shortens the record.      *)
FlushRead ==
  LET n == Available(vol, pos) IN
  /\ NeedsBlock /\ ~ hit_eof /\ n > 0
  /\ MultiVolumeSync
  /\ rrecord' = Loaded(vol, pos, n)
  /\ pos' = pos + n
  /\ rcur' = 0 /\ rend' = RecordEnd(n)
  /\ UNCHANGED <<fixed, vol, accepted, mistakes, hit_eof, rsave, continued, nvpc, extraction>>

EndOfVolume ==
  /\ NeedsBlock /\ ~ hit_eof /\ Available(vol, pos) = 0
  /\ MultiVolumeSync
  /\ rcur' = 0 /\ rend' = RB
  /\ nvpc' = "mount"
  /\ UNCHANGED <<fixed, medium, rrecord, hit_eof, rsave, continued, extraction>>

------------------------------------------------------------------------------
(* try_new_volume.                                                         *)

(* new_volume and the first read.  record_end is assigned only when the    *)
(* read is short.                                                          *)
MountVolume(v) ==
  LET n == Available(v, 0) IN
  /\ nvpc = "mount" /\ rpc # "fatal"
  /\ v \in DOMAIN volumes
  /\ IF v = accepted + 1 /\ v # vol THEN UNCHANGED mistakes
     ELSE mistakes < MaxMistakes /\ mistakes' = mistakes + 1
  /\ continued' = NotContinued
  /\ vol' = v /\ pos' = n
  /\ rrecord' = Loaded(v, 0, n)
  /\ rcur' = 0
  /\ rend' = IF n = RB THEN rend ELSE n
  /\ nvpc' = "first"
  /\ UNCHANGED <<fixed, accepted, hit_eof, rsave, rreal, extraction>>

(* change_tape_menu reads an end of file, or `q', once no volume is left,  *)
(* or the one that comes next was refused.                                 *)
Quit ==
  /\ nvpc = "mount" /\ (accepted = Len(volumes) \/ vol = accepted + 1)
  /\ rpc # "fatal"
  /\ rpc' = "fatal"
  /\ UNCHANGED <<fixed, medium, rbuffer, rtracking, nvpc, rleft, keep, out>>

Identifying == nvpc \in {"first", "second"} /\ rpc # "fatal"

(* find_next_block inside try_new_volume refills the record with           *)
(* simple_flush_read.                                                      *)
RefillSimple ==
  LET n == Available(vol, pos) IN
  /\ Identifying /\ rcur = rend /\ ~ hit_eof /\ n > 0
  /\ rrecord' = Loaded(vol, pos, n)
  /\ pos' = pos + n
  /\ rcur' = 0 /\ rend' = RecordEnd(n)
  /\ UNCHANGED <<fixed, vol, accepted, mistakes, hit_eof, rtracking, nvpc, extraction>>

(* There is no block: the volume is refused, but after a label the null    *)
(* pointer is used.                                                        *)
NoFirstBlock ==
  /\ Identifying /\ rcur = rend
  /\ hit_eof \/ Available(vol, pos) = 0
  /\ rcur' = 0 /\ rend' = IF hit_eof THEN rend ELSE 0
  /\ hit_eof' = TRUE
  /\ nvpc' = "mount"
  /\ rpc' = IF nvpc = "second" THEN "fatal" ELSE rpc
  /\ UNCHANGED <<fixed, medium, rrecord, rtracking, rleft, keep, out>>

VolumeLabel ==
  /\ nvpc = "first" /\ rcur < rend /\ rpc # "fatal"
  /\ rrecord[rcur].kind = "volhdr"
  /\ rcur' = rcur + 1
  /\ nvpc' = "second"
  /\ UNCHANGED <<fixed, medium, rrecord, rend, hit_eof, rtracking, extraction>>

MultiVolumeHeader ==
  /\ Identifying /\ rcur < rend
  /\ LET b == rrecord[rcur] IN
     /\ b.kind = "multivol"
     /\ continued' = [name |-> b.name, size |-> b.size, off |-> b.off]
  /\ rcur' = rcur + 1
  /\ nvpc' = "check"
  /\ UNCHANGED <<fixed, medium, rrecord, rend, hit_eof, rsave, rreal, extraction>>

OtherBlock ==
  /\ Identifying /\ rcur < rend
  /\ rrecord[rcur].kind # "multivol"
  /\ nvpc = "first" => rrecord[rcur].kind # "volhdr"
  /\ nvpc' = "check"
  /\ UNCHANGED <<fixed, medium, rbuffer, rtracking, extraction>>

(* Is this the continuation of the member that is being read?              *)
AnyOffset ==                           \* a wrong RightVolume
  rreal.name # NoName =>
    /\ continued.name = rreal.name
    /\ continued.size + continued.off = rreal.total

SizeOfTheRest ==                       \* a wrong RightVolume
  rreal.name # NoName =>
    /\ continued.name = rreal.name
    /\ continued.size = rreal.total
    /\ rreal.total - rreal.left = continued.off

RightVolume ==
  rreal.name # NoName =>
    /\ continued.name = rreal.name
    /\ continued.size + continued.off = rreal.total
    /\ rreal.total - rreal.left = continued.off

(* Back in find_next_block, which takes an empty record for the end.       *)
AcceptVolume ==
  /\ nvpc = "check" /\ RightVolume
  /\ accepted' = vol
  /\ nvpc' = "none"
  /\ hit_eof' = (hit_eof \/ rcur = rend)
  /\ UNCHANGED <<fixed, vol, pos, mistakes, rrecord, rcur, rend, rtracking, extraction>>

RefuseVolume ==
  /\ nvpc = "check" /\ ~ RightVolume
  /\ nvpc' = "mount"
  /\ UNCHANGED <<fixed, medium, rbuffer, rtracking, extraction>>

------------------------------------------------------------------------------
(* read_and and extract_file.                                              *)

(* _open_archive reads the first record.                                   *)
Opened ==
  /\ rpc = "open" /\ (HasBlock \/ AtEof)
  /\ rpc' = "header"
  /\ UNCHANGED <<fixed, medium, rbuffer, rtracking, nvpc, rleft, keep, out>>

block == rrecord[rcur]

(* A member, or the rest of one that another volume started, which is      *)
(* skipped; mv_begin.                                                      *)
ReadHeader ==
  /\ rpc = "header" /\ HasBlock
  /\ block.kind \in {"header", "multivol"}
  /\ rcur' = rcur + 1
  /\ rsave' = [name |-> block.name, total |-> block.size, left |-> block.size]
  /\ rleft' = block.size
  /\ keep' = (block.kind = "header")
  /\ out' = IF keep' THEN Append(out, block) ELSE out
  /\ rpc' = "member"
  /\ UNCHANGED <<fixed, medium, rrecord, rend, hit_eof, rreal, continued, nvpc>>

(* A label has no data; anything else is not a header (HEADER_FAILURE).    *)
SkipBlock ==
  /\ rpc = "header" /\ HasBlock
  /\ block.kind \in {"volhdr", "data", "junk"}
  /\ rcur' = rcur + 1
  /\ rsave' = IF block.kind = "volhdr" THEN NoMember ELSE rsave
  /\ UNCHANGED <<fixed, medium, rrecord, rend, hit_eof, rreal, continued, nvpc, extraction>>

ZeroBlock ==
  /\ rpc = "header" /\ HasBlock
  /\ block.kind = "zero"
  /\ rcur' = rcur + 1
  /\ rpc' = "zero"
  /\ UNCHANGED <<fixed, medium, rrecord, rend, hit_eof, rtracking, nvpc, rleft, keep, out>>

(* After one block of NULs the loop ends whatever follows.                 *)
EndOfArchive ==
  /\ \/ rpc = "header" /\ AtEof
     \/ rpc = "zero" /\ (HasBlock \/ AtEof)
  /\ rpc' = "done"
  /\ UNCHANGED <<fixed, medium, rbuffer, rtracking, nvpc, rleft, keep, out>>

(* mv_size_left; the member's loop goes round once more.                   *)
NextChunk ==
  /\ rpc = "member" /\ rleft > 0
  /\ rsave' = [rsave EXCEPT !.left = rleft]
  /\ rpc' = "data"
  /\ UNCHANGED <<fixed, medium, rbuffer, rreal, continued, nvpc, rleft, keep, out>>

OneBlockFewer == Least(rend - rcur - 1, rleft)    \* a wrong ToRead
ToRead == Least(rend - rcur, rleft)

ReadData ==
  LET n == ToRead IN
  /\ rpc = "data" /\ HasBlock
  /\ out' = IF keep THEN out \o [i \in 1 .. n |-> rrecord[rcur + i - 1]] ELSE out
  /\ rcur' = rcur + n
  /\ rleft' = rleft - n
  /\ rpc' = "member"
  /\ UNCHANGED <<fixed, medium, rrecord, rend, hit_eof, rtracking, nvpc, keep>>

(* Unexpected EOF in archive: skip_file makes it fatal.                    *)
UnexpectedEof ==
  /\ rpc = "data" /\ AtEof
  /\ rpc' = "fatal"
  /\ UNCHANGED <<fixed, medium, rbuffer, rtracking, nvpc, rleft, keep, out>>

(* mv_end.                                                                 *)
MemberRead ==
  /\ rpc = "member" /\ rleft = 0
  /\ rsave' = [rsave EXCEPT !.name = NoName]
  /\ rpc' = "header"
  /\ UNCHANGED <<fixed, medium, rbuffer, rreal, continued, nvpc, rleft, keep, out>>

------------------------------------------------------------------------------
Read ==
  \/ FlushRead \/ EndOfVolume \/ Opened \/ ReadHeader \/ SkipBlock \/ ZeroBlock
  \/ EndOfArchive \/ NextChunk \/ ReadData \/ UnexpectedEof \/ MemberRead

TryNewVolume ==
  \/ RefillSimple \/ NoFirstBlock \/ VolumeLabel
  \/ MultiVolumeHeader \/ OtherBlock \/ AcceptVolume \/ RefuseVolume

Operator == Quit \/ \E v \in DOMAIN volumes : MountVolume(v)

Next == Read \/ TryNewVolume \/ Operator

ReadFinished == rpc \in {"done", "fatal"}
==============================================================================
