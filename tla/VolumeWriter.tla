----------------------------- MODULE VolumeWriter -----------------------------
(***************************************************************************)
(* `tar --create --multi-volume' in a GNU format: create.c puts blocks     *)
(* into the record buffer of buffer.c, flush_archive writes full records   *)
(* to the mounted volume, and _gnu_flush_write changes the volume when a   *)
(* write falls short.                                                      *)
(*                                                                         *)
(* find_next_block is idempotent while the record has room, so the steps   *)
(* that store a block require room (cur < BF) and Flush is the only step   *)
(* when there is none: pc says who called.  Sizes are in blocks.           *)
(***************************************************************************)
EXTENDS TarBlocks

CONSTANTS
  BF,                   \* blocking_factor: blocks in a record
  Files,                \* the members dumped, in order (name_next)
  MaxVolumes,           \* bound: volumes the operator supplies
  Settings              \* the settings tar may run in: its options, the sizes
                        \* of the files, the device

ASSUME WriterAssumption ==
  /\ BF \in Nat \ {0}
  /\ Files \in Seq(Names)
  /\ MaxVolumes \in Nat \ {0}
  /\ \A s \in Settings :
       /\ s.multi_volume \in BOOLEAN /\ s.volume_label \in BOOLEAN
       /\ s.sizes \subseteq Nat
       /\ s.min_records \in Nat /\ s.partial \in BOOLEAN
       /\ s.short_counts \subseteq 0 .. BF - 1

VARIABLES
  setting,    \* the setting of this run
  size,       \* st.stat.st_size of each file, taken by deref_stat
  volumes,    \* the blocks on each volume; the last one is mounted
  record,     \* the record at record_start
  cur,        \* current_block - record_start
  other,      \* the record buffer that is not in use (record_index flips)
  from, to,   \* copy_ptr and the end of the copy, as indices into other
  nv,         \* where _gnu_flush_write is while it changes volumes
  save,       \* save_name, save_totsize, save_sizeleft
  real,       \* real_s_name, real_s_totsize, real_s_sizeleft
  todo,       \* number of members already taken from Files
  left,       \* size_left of dump_regular_file and pad_archive
  pc          \* the caller of find_next_block

given == <<setting, size>>
device == <<volumes>>
buffer == <<record, cur, other, from, to, nv>>
tracking == <<save, real>>
dump == <<todo, left, pc>>
vars == <<given, device, buffer, tracking, dump>>

multi_volume_option == setting.multi_volume
volume_label_option == setting.volume_label    \* is a label requested?

(* Every volume accepts MinRecords records and, if Partial, then perhaps a *)
(* part of one.  A read may return one of ShortCounts when the file shrank;*)
(* if there is any, it may also fail.                                      *)
MinRecords == setting.min_records
Partial == setting.partial
ShortCounts == setting.short_counts

Slots == 0 .. BF - 1

Lesser(m, n) == IF m < n THEN m ELSE n

current == Files[todo]       \* the member being dumped

(* The mounted volume.                                                     *)
Mounted == volumes[Len(volumes)]

(* The first n blocks of a record buffer, and n of its blocks from slot i. *)
Slice(buf, i, n) == [k \in 1 .. n |-> buf[i + k - 1]]

Init ==
  /\ setting \in Settings
  /\ size \in [Names -> setting.sizes]
  /\ volumes = << <<>> >>
  /\ record = [i \in Slots |-> Junk]
  /\ other = [i \in Slots |-> Junk]
  /\ cur = 0 /\ from = 0 /\ to = 0
  /\ nv = "none"
  /\ save = NoMember /\ real = NoMember
  /\ todo = 0 /\ left = 0
  /\ pc = IF volume_label_option THEN "label" ELSE "next"

------------------------------------------------------------------------------
(* Storing blocks in the record: find_next_block has returned a block and  *)
(* set_next_block_after steps over what was stored.                        *)

HasRoom == nv = "none" /\ cur < BF

Store(b) ==
  /\ record' = [record EXCEPT ![cur] = b]
  /\ cur' = cur + 1

(* Zero everything from slot i to the end of the record.                   *)
ZeroFrom(buf, i) == [k \in Slots |-> IF k < i THEN buf[k] ELSE Zero]

(* _write_volume_label: a GNU label holds volume_label_option whatever the *)
(* string it was asked to store.                                           *)
WriteVolumeLabel(str) == Store(VolHdr(0))

WriteLabel ==
  /\ pc = "label" /\ HasRoom
  /\ WriteVolumeLabel(1)
  /\ pc' = "next"
  /\ UNCHANGED <<given, volumes, other, from, to, nv, save, real, todo, left>>

(* name_next and the preamble of dump_file0.                               *)
NextMember ==
  /\ pc = "next" /\ todo < Len(Files)
  /\ todo' = todo + 1
  /\ pc' = "header"
  /\ UNCHANGED <<given, volumes, buffer, save, real, left>>

(* start_header, finish_header, and mv_begin.                              *)
WriteHeader ==
  /\ pc = "header" /\ HasRoom
  /\ Store(Header(current, size[current]))
  /\ left' = size[current]
  /\ save' = IF multi_volume_option
             THEN [name |-> current, total |-> size[current], left |-> size[current]]
             ELSE save
  /\ pc' = "data"
  /\ UNCHANGED <<given, volumes, other, from, to, nv, real, todo>>

(* mv_size_left: it assigns whatever the option.                           *)
SizeLeft ==
  /\ pc \in {"data", "pad"} /\ left > 0
  /\ save' = [save EXCEPT !.left = left]
  /\ pc' = IF pc = "data" THEN "fill" ELSE "padfill"
  /\ UNCHANGED <<given, volumes, buffer, real, todo, left>>

(* The blocks of the current member from its o-th on, stored from slot cur.*)
FillData(n) ==
  record' = [k \in Slots |->
               IF k \in cur .. cur + n - 1
               THEN Data(current, size[current] - left + (k - cur))
               ELSE record[k]]

(* One iteration of the loop of dump_regular_file: safe_read returns all   *)
(* that was asked for, less (the file shrank), or an error.                *)
Chunk == Lesser(BF - cur, left)

FillFull ==
  /\ pc = "fill" /\ HasRoom
  /\ FillData(Chunk)
  /\ cur' = cur + Chunk
  /\ left' = left - Chunk
  /\ pc' = "data"
  /\ UNCHANGED <<given, volumes, other, from, to, nv, save, real, todo>>

(* set_next_block_after is called only if something was read, but what     *)
(* remains to be padded never includes the chunk.                          *)
PadAfterUnread(count) == left - count        \* a wrong PadAfter
PadAfter(count) == left - Chunk

FillShort(count) ==
  /\ pc = "fill" /\ HasRoom
  /\ count < Chunk
  /\ FillData(Chunk)
  /\ cur' = IF count > 0 THEN cur + Chunk ELSE cur
  /\ left' = PadAfter(count)
  /\ pc' = "pad"
  /\ UNCHANGED <<given, volumes, other, from, to, nv, save, real, todo>>

ReadError ==
  /\ ShortCounts # {}
  /\ pc = "fill" /\ HasRoom
  /\ pc' = "pad"
  /\ UNCHANGED <<given, volumes, buffer, save, real, todo, left>>

(* One iteration of pad_archive.                                           *)
Pad ==
  /\ pc = "padfill" /\ HasRoom
  /\ Store(Data(current, size[current] - left))
  /\ left' = left - 1
  /\ pc' = "pad"
  /\ UNCHANGED <<given, volumes, other, from, to, nv, save, real, todo>>

(* mv_end.                                                                 *)
EndMember ==
  /\ pc \in {"data", "pad"} /\ left = 0
  /\ save' = IF multi_volume_option THEN [save EXCEPT !.name = NoName] ELSE save
  /\ pc' = "next"
  /\ UNCHANGED <<given, volumes, buffer, real, todo, left>>

(* write_eot: one block of NULs, then the rest of a record of them.        *)
StartEot ==
  /\ pc = "next" /\ todo = Len(Files)
  /\ pc' = "eot1"
  /\ UNCHANGED <<given, volumes, buffer, save, real, todo, left>>

Eot1 ==
  /\ pc = "eot1" /\ HasRoom
  /\ Store(Zero)
  /\ pc' = "eot2"
  /\ UNCHANGED <<given, volumes, other, from, to, nv, save, real, todo, left>>

Eot2 ==
  /\ pc = "eot2" /\ HasRoom
  /\ record' = ZeroFrom(record, cur)
  /\ cur' = cur + 1
  /\ pc' = "close1"
  /\ UNCHANGED <<given, volumes, other, from, to, nv, save, real, todo, left>>

------------------------------------------------------------------------------
(* Flushing.  FlushPoint: the caller needs a block and the record is full, *)
(* or close_archive flushes what there is.                                 *)

FlushPoint ==
  /\ nv = "none"
  /\ \/ pc \in {"label", "header", "fill", "padfill", "eot1", "eot2"} /\ cur = BF
     \/ pc = "close1"
     \/ pc = "close2" /\ cur > 0

(* close_archive flushes, then flushes again if something was left over.   *)
AfterFlush(p) == CASE p = "close1" -> "close2"
                   [] p = "close2" -> "closed"
                   [] OTHER -> p

(* The device takes a whole record; every volume takes MinRecords of them. *)
WriteRecord == volumes' = [volumes EXCEPT ![Len(volumes)] = @ \o Slice(record, 0, BF)]

MayEnd == Len(Mounted) >= MinRecords * BF

(* How much of a record the device took when it did not take all of it.    *)
ShortWrites == IF Partial THEN 0 .. BF - 1 ELSE {0}

(* multi_volume_sync.                                                      *)
SyncWithoutReset ==                          \* a wrong MultiVolumeSync
  real' = IF multi_volume_option /\ save.name # NoName THEN save ELSE real

MultiVolumeSync ==
  real' = IF ~ multi_volume_option THEN real
          ELSE IF save.name # NoName THEN save ELSE NoMember

FlushWhole ==
  /\ FlushPoint
  /\ WriteRecord
  /\ cur' = 0
  /\ MultiVolumeSync
  /\ pc' = AfterFlush(pc)
  /\ UNCHANGED <<given, record, other, from, to, nv, save, todo, left>>

(* A short write without --multi-volume is fatal (archive_write_error).    *)
FlushFatal ==
  /\ FlushPoint /\ MayEnd
  /\ ~ multi_volume_option
  /\ pc' = "fatal"
  /\ UNCHANGED <<given, volumes, buffer, save, real, todo, left>>

(* What is copied starts where the device stopped.                         *)
CopyFromStart(status) == 0                   \* a wrong CopyFrom
CopyFrom(status) == status

(* The end of the volume: new_volume mounts the next one, the buffers are  *)
(* switched and the unwritten rest of the record is to be copied.  When    *)
(* more was taken than the buffer level, copy_size wraps around and the    *)
(* copy is undefined.                                                      *)
ChangeVolume(status) ==
  /\ FlushPoint /\ MayEnd
  /\ multi_volume_option
  /\ status \in ShortWrites
  /\ Len(volumes) < MaxVolumes
  /\ volumes' = Append([volumes EXCEPT ![Len(volumes)] = @ \o Slice(record, 0, status)],
                       <<>>)
  /\ record' = other
  /\ other' = record
  /\ from' = CopyFrom(status)
  /\ to' = cur
  /\ cur' = 0
  /\ nv' = IF volume_label_option THEN "label"
            ELSE IF real.name # NoName THEN "multivol" ELSE "copy"
  /\ pc' = IF status > cur THEN "undefined" ELSE AfterFlush(pc)
  /\ UNCHANGED <<given, save, real, todo, left>>

(* new_volume asks for a volume and the operator has none (or says `q').   *)
NoMoreVolumes ==
  /\ FlushPoint /\ MayEnd
  /\ multi_volume_option
  /\ Len(volumes) = MaxVolumes
  /\ pc' = "fatal"
  /\ UNCHANGED <<given, volumes, buffer, save, real, todo, left>>

------------------------------------------------------------------------------
(* The rest of _gnu_flush_write.  flush_write_ptr is simple_flush_write    *)
(* meanwhile, so a short write is fatal and nothing is synchronised.       *)

Changing == nv # "none" /\ pc \notin {"fatal", "undefined"}

SimpleFlushWrite ==
  /\ Changing /\ cur = BF
  /\ WriteRecord
  /\ cur' = 0
  /\ UNCHANGED <<given, record, other, from, to, nv, save, real, todo, left, pc>>

SimpleFlushFatal ==
  /\ Changing /\ cur = BF /\ MayEnd
  /\ pc' = "fatal"
  /\ UNCHANGED <<given, volumes, buffer, save, real, todo, left>>

AddVolumeLabel ==
  /\ Changing /\ nv = "label" /\ cur < BF
  /\ WriteVolumeLabel(Len(volumes))
  /\ nv' = IF real.name # NoName THEN "multivol" ELSE "copy"
  /\ UNCHANGED <<given, volumes, other, from, to, save, real, todo, left, pc>>

(* gnu_add_multi_volume_header.                                            *)
AddMultiVolumeHeader ==
  /\ Changing /\ nv = "multivol" /\ cur < BF
  /\ Store(MultiVol(real.name, real.left, real.total - real.left))
  /\ nv' = "copy"
  /\ UNCHANGED <<given, volumes, other, from, to, save, real, todo, left, pc>>

(* The copy loop: as much as fits; the last piece zeroes the rest.         *)
CopyChunk ==
  /\ Changing /\ nv = "copy" /\ cur < BF
  /\ LET n == Lesser(BF - cur, to - from)
         copied == [k \in Slots |-> IF k \in cur .. cur + n - 1
                                    THEN other[from + (k - cur)] ELSE record[k]]
         last == to - from <= BF - cur
     IN /\ record' = IF last THEN ZeroFrom(copied, cur + n) ELSE copied
        /\ cur' = cur + n
        /\ from' = from + n
        /\ nv' = IF last THEN "done" ELSE "copy"
  /\ UNCHANGED <<given, volumes, other, to, save, real, todo, left, pc>>

(* The last find_next_block of _gnu_flush_write.                           *)
VolumeChanged ==
  /\ Changing /\ nv = "done" /\ cur < BF
  /\ nv' = "none"
  /\ UNCHANGED <<given, volumes, record, cur, other, from, to, save, real, todo, left, pc>>

------------------------------------------------------------------------------
(* close_archive has nothing more to flush: the archive is closed.         *)
Close ==
  /\ nv = "none"
  /\ \/ pc = "close2" /\ cur = 0
     \/ pc = "closed"
  /\ pc' = "done"
  /\ UNCHANGED <<given, volumes, buffer, save, real, todo, left>>

Finished == pc \in {"done", "fatal", "undefined"}

Dump ==
  \/ WriteLabel \/ NextMember \/ WriteHeader \/ SizeLeft
  \/ FillFull \/ (\E count \in ShortCounts : FillShort(count)) \/ ReadError \/ Pad
  \/ EndMember \/ StartEot \/ Eot1 \/ Eot2 \/ Close

FlushWrite ==
  \/ FlushWhole \/ FlushFatal \/ NoMoreVolumes
  \/ \E status \in 0 .. BF - 1 : ChangeVolume(status)

VolumeChange ==
  \/ SimpleFlushWrite \/ SimpleFlushFatal \/ AddVolumeLabel
  \/ AddMultiVolumeHeader \/ CopyChunk \/ VolumeChanged

Next == Dump \/ FlushWrite \/ VolumeChange

Spec == Init /\ [][Next]_vars
==============================================================================
