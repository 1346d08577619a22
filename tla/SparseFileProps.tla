--------------------------- MODULE SparseFileProps ---------------------------
(***************************************************************************)
(* What dumping and extracting a sparse file should do.                    *)
(***************************************************************************)
EXTENDS SparseFile

Extracts == output \in {"file", "pipe"}

(* A file that nobody touches comes out of the archive as it was, its      *)
(* holes included, and no error is reported, unless its size fits no       *)
(* header; the GNU format has a representation for every size.  If the     *)
(* archive was cut off, or its map is refused, it does so too, or an error *)
(* is reported.                                                            *)
Restored ==
  pc = "done" =>
    /\ troubles = {} => ~ failed /\ (Extracts => out = original)
    /\ troubles \subseteq {"cut off", "errno"} /\ Extracts => failed \/ out = original
    /\ gnu => "too large" \notin troubles

(* --compare reports no difference for such a file, and does report one   *)
(* if the file was changed since it was dumped, in its data or its holes,  *)
(* but what was added to it is seen in the pax formats only, and nothing   *)
(* where a read error was taken for the end of the file.                   *)
ComparisonSees ==
  pc = "done" /\ output = "compare" =>
    /\ troubles = {} => ~ differs
    /\ "later" \in troubles /\ "misread" \notin troubles /\ ~ differs /\ ~ failed =>
         /\ Len(file) >= st_size /\ SubSeq(file, 1, st_size) = original
         /\ ~ gnu => file = original

(* Only the last region of data ends inside a block.                       *)
WholeRegions == \A k \in 1 .. Len(sparse_map) - 1 : sparse_map[k].numbytes % BLOCKSIZE = 0

(* Whatever happens to the file while it is dumped, the reader that has    *)
(* extracted, skipped or compared the member is at the header of the next  *)
(* one, if it is there.  Not if the scan failed, the size fits no header,  *)
(* or the dump, which stores zeros for what a shrunk file does not have,   *)
(* was ended by an error.  To skip the file it counts its bytes and not    *)
(* those of its blocks; a comparison counts what it read of the file, and  *)
(* does not pass over what version 1.0 has behind the data; neither does a *)
(* reader that has refused the map.                                        *)
NextMemberFound ==
  /\ pc = "done"
  /\ troubles \cap {"misread", "too large", "cut off", "errno"} = {}
  /\ ~ {"shrunk", "error"} \subseteq troubles
  /\ WholeRegions \/ (Extracts /\ ~ failed)
  /\ output = "compare" =>
       troubles \cap {"shrunk", "error"} = {} /\ (format = "pax1" => differs)
  => next \in DOMAIN archive /\ archive[next] = NextHeader

(* The dump of a file that does not become shorter ends, and so does its   *)
(* extraction or comparison.                                               *)
SparseEnds == <>("shrunk" \in troubles) \/ <>(pc = "done")
==============================================================================
