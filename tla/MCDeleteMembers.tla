--------------------------- MODULE MCDeleteMembers ---------------------------
(* Archives of up to MaxMembers members, for TLC. *)
EXTENDS DeleteMembersProps

CONSTANTS n1, n2,
  ArchiveFactor,      \* the blocking factor the archives were written with
  MemberSizes,        \* the sizes of the members they may hold
  Extensions,         \* the header extensions found together in an archive
  PipedExtensions,    \* ... in one that comes through a pipe
  MaxMembers,
  Cuts                \* how many of its last blocks that one may miss

MCNames == {n1, n2}
MCDoomed == {n1}

(* ext is the header extension a member needs ("full": a pax header whose  *)
(* data fill their block); "junk" is for blocks that are no member.        *)
Extension(m) ==
  CASE m.ext = "none" -> <<>>
    [] m.ext = "long" -> <<ExtHeader("long", m.name, FALSE), ExtData(m.name)>>
    [] OTHER -> <<ExtHeader("pax", m.name, m.ext = "full"), ExtData(m.name)>>

MemberBlocks(m) ==
  IF m.ext = "junk" THEN [i \in 1 .. m.size |-> Junk]
  ELSE Extension(m) \o <<Header(m.name, m.size)>>
         \o [i \in 1 .. m.size |-> Data(m.name, i - 1)]

(* The archive of the members ms: two blocks of NULs, then more to the end *)
(* of the record.                                                          *)
Image(ms) ==
  LET c == FlattenSeq([i \in DOMAIN ms |-> MemberBlocks(ms[i])])
      n == Len(c) + 2
      padding == (ArchiveFactor - (n % ArchiveFactor)) % ArchiveFactor
  IN c \o [i \in 1 .. 2 + padding |-> Zero]

Images(sizes, extensions) ==
  {Image(ms) : ms \in
     UNION {[1 .. n -> [name : MCNames, size : sizes, ext : exts]] :
              n \in 0 .. MaxMembers, exts \in extensions}}

Whole == Images(MemberSizes, Extensions)
Piped == Images(MemberSizes \ {0}, PipedExtensions)
CutOff == {SubSeq(im, 1, Len(im) - n) : im \in Piped, n \in Cuts}

MCArchives == {im : im \in Whole \cup CutOff}

(* Every member of a name goes, or the second one; in place or in a pipe.  *)
MCCalls ==
  [acting_as_filter : BOOLEAN, occurrence_option : {0, 2}, archives : {Whole, CutOff}]
==============================================================================
