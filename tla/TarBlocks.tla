------------------------------ MODULE TarBlocks ------------------------------
(***************************************************************************)
(* The 512-byte blocks an archive is made of, reduced to what buffer.c,    *)
(* create.c and list.c tell apart: the kind of block, the member it        *)
(* belongs to, and the size and offset (in blocks) that a header records.  *)
(***************************************************************************)
EXTENDS Integers, Sequences

CONSTANTS
  Names,    \* the names of the members that are dumped
  NoName    \* a null pointer where the code keeps a name

ASSUME NoNameAssumption == NoName \notin Names

Kinds == {"header", "data", "multivol", "volhdr", "zero", "junk", "long", "pax",
          "extdata"}

Block == [kind : Kinds, name : Names \cup {NoName}, size : Nat, off : Nat]

(* The header of a member of s blocks (start_header and finish_header).    *)
Header(n, s) == [kind |-> "header", name |-> n, size |-> s, off |-> 0]

(* The o-th block of the data of member n.                                 *)
Data(n, o) == [kind |-> "data", name |-> n, size |-> 0, off |-> o]

(* A GNUTYPE_MULTIVOL header: s blocks of member n follow, starting with   *)
(* its o-th block.                                                         *)
MultiVol(n, s, o) == [kind |-> "multivol", name |-> n, size |-> s, off |-> o]

(* A GNUTYPE_VOLHDR label; v is the volume number its text carries, 0 when *)
(* the text carries none.                                                  *)
VolHdr(v) == [kind |-> "volhdr", name |-> NoName, size |-> 0, off |-> v]

(* The header of the long name (GNUTYPE_LONGNAME) or of the extended       *)
(* header (XHDTYPE) of member n, k being "long" or "pax"; full: do its     *)
(* data fill their last block?  They are taken to need one block.          *)
ExtHeader(k, n, full) ==
  [kind |-> k, name |-> n, size |-> 1, off |-> IF full THEN 1 ELSE 0]

ExtData(n) == [kind |-> "extdata", name |-> n, size |-> 0, off |-> 0]

(* A block of NULs.                                                        *)
Zero == [kind |-> "zero", name |-> NoName, size |-> 0, off |-> 0]

(* What a buffer holds before anything is stored in it.                    *)
Junk == [kind |-> "junk", name |-> NoName, size |-> 0, off |-> 0]

(* The blocks of s of some kinds, in their order.                          *)
OfKinds(s, kinds) ==
  LET kept[n \in 0 .. Len(s)] ==
        IF n = 0 THEN <<>>
        ELSE kept[n - 1] \o (IF s[n].kind \in kinds THEN <<s[n]>> ELSE <<>>)
  IN kept[Len(s)]

(* The logical archive that a run of physical blocks carries: all but the  *)
(* labels and continuation headers that belong to one volume.              *)
Payload(blocks) == OfKinds(blocks, Kinds \ {"volhdr", "multivol"})

(* What multi_volume_sync and mv_begin keep about a member: save_name and  *)
(* real_s_name with their totsize and sizeleft.                            *)
NoMember == [name |-> NoName, total |-> 0, left |-> 0]
==============================================================================
