--------------------------- MODULE VolumeWriterProps ---------------------------
(***************************************************************************)
(* The properties of VolumeWriter and its refinement of TarArchive.        *)
(***************************************************************************)
EXTENDS VolumeWriter, SequencesExt

(* Every volume has room for what begins it (a label, the header of the    *)
(* continued member, the record that did not fit on the volume before) and *)
(* a record more, no write is cut short, and no read finds a file shrunk   *)
(* to nothing.  Only after that record real_s_sizeleft is right again      *)
(* (multi_volume_sync).                                                    *)
WholeRecords == (MinRecords - 1) * BF > 2 /\ ~ Partial /\ 0 \notin ShortCounts

(* How many blocks the label takes.                                        *)
LabelSize == IF volume_label_option THEN 1 ELSE 0

(* A volume that starts in the middle of a member says so, and what its    *)
(* GNUTYPE_MULTIVOL header says is true: the block that follows it is the  *)
(* block of that member at the recorded offset, and the recorded size is   *)
(* what then remains.  try_new_volume refuses the volume otherwise         *)
(* (buffer.c:1235-1257).                                                   *)
ContinuationMatches ==
  WholeRecords => \A v \in 2 .. Len(volumes) :
    Len(volumes[v]) > LabelSize =>
      LET first == volumes[v][LabelSize + 1] IN
      IF first.kind = "multivol"
      THEN /\ first.size + first.off = size[first.name]
           /\ Len(volumes[v]) > LabelSize + 1 =>
                volumes[v][LabelSize + 2] = Data(first.name, first.off)
      ELSE first.kind # "data"

(* close_archive flushes twice: enough for what is in the record, if every *)
(* volume took two records before it was full.                             *)
Closed ==
  pc = "done" /\ \A v \in 1 .. Len(volumes) - 1 : Len(volumes[v]) >= 2 * BF

(* What a volume change has still to copy.                                 *)
ToCopy == IF from <= to THEN Slice(other, from, to - from) ELSE <<>>

(* The logical archive written so far: what the volumes hold, what is in   *)
(* the record, and what a volume change has still to copy.  Of an archive  *)
(* that is closed only the volumes count.                                  *)
Logical ==
  LET written == Payload(FlattenSeq(volumes))
  IN IF Closed THEN written
     ELSE written \o Payload(Slice(record, 0, cur)) \o Payload(ToCopy)

Archive == INSTANCE TarArchive WITH archive <- Logical, closed <- Closed

(* Whatever the record boundaries, the volume changes and the files that   *)
(* shrink, the volumes carry a well-formed archive of the members.         *)
WellFormedArchive == Archive!Spec

(* The blocks of members among those of s.                                 *)
MembersOf(s) == OfKinds(s, {"header", "data"})

(* The first n members, dumped in order and whole.                         *)
Whole(f) == <<Header(f, size[f])>> \o [o \in 1 .. size[f] |-> Data(f, o - 1)]
Dumped[n \in 0 .. Len(Files)] == IF n = 0 THEN <<>> ELSE Dumped[n - 1] \o Whole(Files[n])

(* An archive that is closed without a fatal error has lost no block of a  *)
(* member, however small the volumes are, if each of them took a record.   *)
(* (If the last two take none, the two flushes of close_archive,           *)
(* buffer.c:835-837, leave members in the record.)                         *)
MembersWritten ==
  pc = "done" /\ (\A v \in 1 .. Len(volumes) - 1 : Len(volumes[v]) >= BF) =>
    MembersOf(FlattenSeq(volumes)) = Dumped[Len(Files)]
==============================================================================
