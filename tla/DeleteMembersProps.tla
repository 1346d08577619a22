-------------------------- MODULE DeleteMembersProps --------------------------
(***************************************************************************)
(* What --delete promises: the members that were not named remain, nothing *)
(* else does, and no block is overwritten before it is read.               *)
(***************************************************************************)
EXTENDS DeleteMembers, FiniteSetsExt

(* The blocks of the archive before its end.                               *)
Ends == {i \in DOMAIN original : original[i].kind = "zero"}
BodyLength == IF Ends = {} THEN Len(original) ELSE Min(Ends) - 1

IsHeader(i) == original[i].kind = "header"

(* The header of the member that block i belongs to: an extension comes    *)
(* before it, data come after it.                                          *)
OwnHeader(i) ==
  IF original[i].kind \in {"long", "pax", "extdata"}
  THEN Min({h \in i .. BodyLength : IsHeader(h)})
  ELSE Max({h \in 1 .. i : IsHeader(h)})

(* How many members of that name there are up to that one.                 *)
Occurrence(h) ==
  Cardinality({g \in 1 .. h : IsHeader(g) /\ original[g].name = original[h].name})

MemberStays(h) ==
  \/ original[h].name \notin Doomed
  \/ occurrence_option # 0 /\ Occurrence(h) # occurrence_option

(* The positions of the blocks of the members that are to remain.          *)
Staying ==
  {i \in 1 .. BodyLength : original[i].kind # "junk" /\ MemberStays(OwnHeader(i))}

(* Which of the first n blocks of s are at the positions K, for each n.    *)
Chosen(s, K) ==
  LET chosen[n \in 0 .. Len(s)] ==
        IF n = 0 THEN <<>>
        ELSE chosen[n - 1] \o (IF n \in K THEN <<s[n]>> ELSE <<>>)
  IN chosen

(* The blocks of the members that are to remain, in order.                 *)
Remaining == Chosen(original, Staying)[BodyLength]

NonJunk(s) == Chosen(s, {i \in DOMAIN s : s[i].kind # "junk"})[Len(s)]

------------------------------------------------------------------------------
(* The types of the variables, all blocks being in B.                      *)
FilesTyped(B) ==
  /\ original \in Seq(B)
  /\ file \in Seq(B) /\ stdout \in Seq(B)
  /\ fpos \in Nat

FlagsTyped ==
  /\ hit_eof \in BOOLEAN /\ write_archive_to_stdout \in BOOLEAN
  /\ acting_as_filter \in BOOLEAN /\ occurrence_option \in Nat

ReaderTyped(B) ==
  /\ record \in [Slots -> B]
  /\ cur \in 0 .. BF /\ end \in 0 .. BF
  /\ records_read \in Nat /\ (end > 0 => records_read > 0)
  /\ kept \in 0 .. BF
  /\ pc = "header" => cur <= end
  /\ pc \in {"data", "copy"} => cur + kept <= BF /\ kept <= left

OutputTyped(B) ==
  /\ new_record \in [Slots -> B] /\ new_blocks \in Slots
  /\ records_written \in Nat /\ records_skipped \in Nat
  /\ zeros \in Nat

HeadersTyped(B) ==
  /\ extended_header \in B /\ long_name \in B
  /\ found_count \in [Names -> Nat]

CopyTyped(B) ==
  /\ pending \in Seq(B) /\ (pc = "header" => pending # <<>>)
  /\ left \in Nat
  /\ pc \in {"scan", "skip", "drop", "loop", "read", "long", "pax", "header", "data",
             "copy", "eot", "done", "fatal", "undefined", "aborted"}

TypedWith(B) ==
  /\ FilesTyped(B) /\ FlagsTyped /\ ReaderTyped(B)
  /\ OutputTyped(B) /\ HeadersTyped(B) /\ CopyTyped(B)

TypeOK == TypedWith(Block)

(* An archive that has an end, and no short record if it is rewritten in   *)
(* place: move_archive counts a short record as a whole one.               *)
Proper == Ends # {} /\ (acting_as_filter \/ Len(original) % BF = 0)

(* What was written and what is ready to be: in place, the records before  *)
(* the write position and new_record.                                      *)
Output ==
  (IF acting_as_filter THEN stdout
   ELSE SubSeq(file, 1, BF * (records_skipped + records_written)))
  \o [i \in 1 .. new_blocks |-> new_record[i - 1]]

Result == IF acting_as_filter THEN stdout ELSE file

(* Where in the archive reading stopped, and where writing did.            *)
Consumed == BF * (records_read - 1) + cur
Produced == BF * (records_skipped + records_written) + new_blocks

Rewriting == pc \in {"drop", "loop", "read", "long", "pax", "header", "data", "copy"}

(* Writing never catches up with reading: write_record moves back at least *)
(* one record, to a record that was read (delete.c:107).                   *)
WritesBehindReads == Rewriting => Produced + Len(pending) <= Consumed

(* Why: what may still be written before the next block is read was itself *)
(* read, and long_name is the only extension there is (no archive has an   *)
(* extended header).                                                       *)
Ahead(n) == Produced + n <= Consumed

Accounted ==
  /\ extended_header = Junk /\ pc # "pax"
  /\ pc \in {"scan", "skip", "drop", "header", "data", "copy"} => long_name = Junk
  /\ pc \in {"scan", "skip"} =>
       records_skipped = 0 /\ records_written = 0 /\ new_blocks = 0
  /\ pc # "header" => pending = <<>>
  /\ pc \in {"drop", "header", "data", "copy"} => Ahead(Len(pending))
  /\ pc = "long" => Ahead(1)
  /\ pc = "loop" => Ahead(Len(ExtensionBlocks))
  /\ pc = "read" => Ahead(0) /\ (Ahead(Len(ExtensionBlocks)) \/ AtEof)

(* In place, the records that were not read yet are as they were, so that  *)
(* what is read is the archive and not what was just written.              *)
UnreadIntact ==
  ~ Finished /\ pc # "eot" =>
    \A i \in DOMAIN original : i > BF * records_read => i \in DOMAIN file /\ file[i] = original[i]

(* The members before the first deletion are never rewritten: their        *)
(* records are only passed over.                                           *)
SkippedIntact ==
  [][Proper => \A i \in DOMAIN file :
       i <= BF * records_skipped => i \in DOMAIN file' /\ file'[i] = file[i]]_vars

(* There is always something to copy and room for it ("if (! count)        *)
(* abort ()", delete.c:350), if the archive has an end.                    *)
NeverAborts == Ends # {} => pc # "aborted"

(* Exactly the members that were not named, each with its header           *)
(* extensions and all of its data, followed by an end of archive; blocks   *)
(* that are no member may go.                                              *)
HoldsRemaining ==
  LET result == NonJunk(Result)
      remaining == Remaining
      n == Len(result) - Len(remaining)
  IN n >= 2 /\ result = remaining \o [i \in 1 .. n |-> Zero]

(* That is what --delete leaves, or writes when it is a filter ("delete    *)
(* from the archive", tar.c:378); and it leaves the file alone only if no  *)
(* member was to go.                                                       *)
DeletesExactly ==
  Proper /\ pc = "done" =>
    IF records_written > 0 THEN HoldsRemaining
    ELSE file = original /\ Remaining = NonJunk(SubSeq(original, 1, BodyLength))

(* At any moment what was produced is the beginning of what is to remain.  *)
OutputIsPrefix == Proper /\ Rewriting => IsPrefix(NonJunk(Output), Remaining)

(* It ends, if it does not drop a member whose data go on after the end of *)
(* the file (delete.c:298 does not look for it).                           *)
DropsForever == pc = "drop" /\ fpos = Len(file) /\ end - cur <= left

Termination == <>Finished \/ <>DropsForever
==============================================================================
