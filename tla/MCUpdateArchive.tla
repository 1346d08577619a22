--------------------------- MODULE MCUpdateArchive ---------------------------
(* Small archives and what is added to them, for TLC. *)
EXTENDS UpdateArchiveProps

CONSTANTS n1, n2,
  ArchiveFactor       \* the blocking factor the archives were written with

MCNames == {n1, n2}

(* ext is the header extension a member needs; "junk" is a block that is   *)
(* no member.                                                              *)
MemberBlocks(m) ==
  IF m.ext = "junk" THEN <<Junk>>
  ELSE (IF m.ext = "none" THEN <<>> ELSE <<ExtHeader(m.ext, m.name, FALSE), ExtData(m.name)>>)
       \o <<[Header(m.name, m.size) EXCEPT !.off = m.mtime]>>
       \o [i \in 1 .. m.size |-> Data(m.name, i - 1)]

Contents(ms) == FlattenSeq([i \in DOMAIN ms |-> MemberBlocks(ms[i])])

(* Two blocks of NULs and more to the end of the record.                   *)
Closed(c) ==
  LET padding == (ArchiveFactor - ((Len(c) + 2) % ArchiveFactor)) % ArchiveFactor
  IN c \o [i \in 1 .. 2 + padding |-> Zero]

(* The contents of archives of up to n members.                            *)
AllContents(n, sizes, exts, mtimes) ==
  {Contents(ms) :
     ms \in UNION {[1 .. k -> [name : MCNames, size : sizes, ext : exts, mtime : mtimes]] :
                     k \in 0 .. n}}

(* Archives with header extensions.                                        *)
ExtendedArchives == {Closed(c) : c \in AllContents(2, {0, 1, 4}, {"none", "long", "pax"}, {1})}

(* Archives that hold older and newer versions of the files.               *)
DatedArchives == {Closed(c) : c \in AllContents(3, {0}, {"none"}, {0, 1, 2})}

(* Archives that end anywhere, without an end mark.                        *)
CutArchives ==
  {SubSeq(c, 1, Len(c) - k) :
     c \in AllContents(3, {0, 1, 4}, {"none"}, {1}) \cup AllContents(2, {1}, {"pax", "junk"}, {1}),
     k \in {0, 3, 4, 5}}

MCArchives == ExtendedArchives \cup DatedArchives \cup CutArchives
MCClosedArchives == ExtendedArchives

(* Two files with the modification time 1.                                 *)
File(n, s) ==
  [name |-> n, mtime |-> 1,
   blocks |-> MemberBlocks([name |-> n, size |-> s, ext |-> "none", mtime |-> 1])]

MCFiles == <<File(n1, 1), File(n2, 5)>>

(* Archives of those files, given to --concatenate.                        *)
ArchiveOf(fs) ==
  [name |-> NoName, mtime |-> 0,
   blocks |-> Closed(FlattenSeq([i \in DOMAIN fs |-> fs[i].blocks]))]

MCOffered ==
  [append |-> MCFiles, update |-> MCFiles, cat |-> <<ArchiveOf(MCFiles)>>]

MCTwoArchives == [cat |-> <<ArchiveOf(<<MCFiles[1]>>), ArchiveOf(<<MCFiles[2]>>)>>]
==============================================================================
