------------------------------ MODULE MultiVolume ------------------------------
(***************************************************************************)
(* One tar run creates a multi-volume archive (VolumeWriter); another run  *)
(* then extracts it, or what was written of it before a fatal error        *)
(* (VolumeReader).  The two share only the volumes.                        *)
(***************************************************************************)
EXTENDS VolumeWriterProps

(* A setting also says with which blocking factors the archive may be read *)
(* and how often the operator may err.                                     *)
ASSUME ReaderAssumption ==
  \A s \in Settings : s.reader_factors \subseteq Nat \ {0} /\ s.mistakes \in Nat

VARIABLES
  RB,
  vol, pos, accepted, mistakes, rrecord, rcur, rend, hit_eof,
  rsave, rreal, continued, nvpc, rleft, keep, out, rpc

Reader == INSTANCE VolumeReader WITH MaxMistakes <- setting.mistakes

rvars == <<RB, vol, pos, accepted, mistakes, rrecord, rcur, rend, hit_eof,
           rsave, rreal, continued, nvpc, rleft, keep, out, rpc>>
allvars == <<vars, rvars>>

MVInit == Init /\ RB \in setting.reader_factors /\ Reader!Init

Writing == Next /\ UNCHANGED rvars

Reading ==
  /\ pc \in {"done", "fatal"}
  /\ UNCHANGED <<given, buffer, tracking, dump>>
  /\ Reader!Next

MVNext == Writing \/ Reading

(* Both runs are sequential processes.  The operator may err but, having   *)
(* erred as often as allowed, mounts the volume that is asked for; Quit is   *)
(* possible only when there is none.                                       *)
MVSpec == MVInit /\ [][MVNext]_allvars /\ WF_allvars(MVNext)

(* The member the i-th delivered block belongs to.                         *)
HeaderBefore(i) == Archive!Max({h \in 1 .. i : out[h].kind = "header"})

(* Whatever volumes the operator mounts, no member is extracted with a     *)
(* block that is not its own at that place: try_new_volume refuses a       *)
(* volume that does not continue the member being read.  A record of the   *)
(* reader must fit on every volume: after the short read of a wrong volume *)
(* record_end stays where it is (buffer.c:1149).                           *)
MembersIntact ==
  WholeRecords /\ RB <= BF => \A i \in DOMAIN out :
    out[i].kind # "header" =>
      LET h == HeaderBefore(i) IN out[i] = Data(out[h].name, i - h - 1)

(* When the operator never errs, extraction delivers exactly the members   *)
(* on the volumes: those that were dumped, or their start if the writer    *)
(* stopped at a fatal error.  A record and each volume but the last must   *)
(* hold more than a label and a continuation header: find_next_block takes *)
(* the empty record that is otherwise left for the end (buffer.c:370).     *)
ReadsBack ==
  /\ rpc = "done" /\ mistakes = 0
  /\ RB > LabelSize + 1 /\ \A v \in 1 .. Len(volumes) - 1 : Len(volumes[v]) > LabelSize + 1
  => out = MembersOf(FlattenSeq(volumes))

(* A volume the writer made is never refused in its turn: refusal follows  *)
(* a mistake of the operator.  Again a record must fit on every volume.    *)
NextVolumeAccepted ==
  [][Reader!RefuseVolume /\ WholeRecords /\ RB <= BF => vol # accepted + 1]_allvars

(* Extraction always ends, by the end of the archive or a fatal error.     *)
ExtractionEnds == <>(pc = "undefined" \/ Reader!ReadFinished)

(* An archive that was written completely is extracted without a fatal     *)
(* error when the operator supplies the volumes that are asked for, if a   *)
(* record has room for more than a label and a continuation header (else   *)
(* an empty record is taken for the end, buffer.c:370) and fits on every   *)
(* volume.                                                                 *)
CompleteArchiveRead ==
  pc = "done" /\ WholeRecords /\ RB \in 3 .. BF => rpc # "fatal"
==============================================================================
