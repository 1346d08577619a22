------------------------------- MODULE FileTree -------------------------------
(***************************************************************************)
(* A directory tree as incremen.c, create.c and extract.c see it, and the  *)
(* system calls they make on it.  A path is a sequence of names; the empty *)
(* one is the directory that is dumped.                                    *)
(***************************************************************************)
EXTENDS Integers, Sequences, SequencesExt, FiniteSetsExt

CONSTANTS
  Names,     \* file names: numbers, so that < is the order of strcmp
  Depth,     \* bound: the length of a path
  TempName,  \* the name mkdtemp makes of tar.XXXXXX; no file has it
  NULL       \* a null pointer

ASSUME TreeAssumption ==
  /\ Names \subseteq Nat
  /\ Depth \in Nat \ {0}
  /\ TempName \in Nat \ Names

Top == <<>>
Paths == UNION {[1 .. n -> Names] : n \in 0 .. Depth}
DiskPaths == UNION {[1 .. n -> Names \cup {TempName}] : n \in 0 .. Depth}

(* Nodes.  The data of a file stand for all that is dumped of it; ino is   *)
(* the inode number of a directory, and stamp the ctime of a file.         *)
None == [kind |-> "none"]
File(data, stamp) == [kind |-> "file", data |-> data, stamp |-> stamp]
Dir(ino) == [kind |-> "dir", ino |-> ino]

Exists(fs, p) == p \in DOMAIN fs /\ fs[p].kind # "none"
IsDir(fs, p) == p \in DOMAIN fs /\ fs[p].kind = "dir"
IsFile(fs, p) == p \in DOMAIN fs /\ fs[p].kind = "file"
Parent(p) == Front(p)
Within(p, d) == IsPrefix(d, p)                       \* p is d or beneath it
Entry(p) == Last(p)

(* savedir: the names in a directory, without . and ..                     *)
Entries(fs, d) ==
  {Entry(p) : p \in {q \in DOMAIN fs : q # Top /\ Parent(q) = d /\ Exists(fs, q)}}

Dirs(fs) == {p \in DOMAIN fs : IsDir(fs, p)}
InOrder(S) == SetToSortSeq(S, <)

(* rename (src, dst) of what is at src, when nothing stands in the way.    *)
Moved(fs, src, dst) ==
  [p \in DOMAIN fs |->
     IF Within(p, dst)
     THEN LET q == src \o SubSeq(p, Len(dst) + 1, Len(p))
          IN IF q \in DOMAIN fs THEN fs[q] ELSE None
     ELSE IF Within(p, src) THEN None ELSE fs[p]]

(* remove_any_file (p, RECURSIVE_REMOVE_OPTION).                           *)
Removed(fs, p) == [q \in DOMAIN fs |-> IF Within(q, p) THEN None ELSE fs[q]]

(* What rename (src, dst) returns.                                         *)
RenameErrno(fs, src, dst) ==
  CASE src = dst -> IF Exists(fs, src) THEN "ok" ELSE "ENOENT"
    [] src # dst /\ ~ Exists(fs, src) ->
         IF \E d \in DOMAIN fs : Within(src, d) /\ IsFile(fs, d) THEN "ENOTDIR" ELSE "ENOENT"
    [] src # dst /\ Exists(fs, src) /\ Within(dst, src) -> "EINVAL"
    [] OTHER ->
         CASE ~ Exists(fs, Parent(dst)) -> "ENOENT"
           [] IsFile(fs, Parent(dst)) -> "ENOTDIR"
           [] IsDir(fs, Parent(dst)) /\ ~ Exists(fs, dst) -> "ok"
           [] IsDir(fs, Parent(dst)) /\ IsFile(fs, dst) ->
                IF IsDir(fs, src) THEN "ENOTDIR" ELSE "ok"
           [] OTHER ->
                IF IsFile(fs, src) THEN "EISDIR"
                ELSE IF Entries(fs, dst) = {} THEN "ok" ELSE "ENOTEMPTY"

(* make_directories (p): one mkdir for each directory above p.  An ancestor*)
(* that is a file ends it: the next mkdir fails with ENOTDIR.              *)
MissingAbove(fs, p) ==
  {d \in DOMAIN fs : d # p /\ Within(p, d) /\ ~ Exists(fs, d)
                     /\ \A e \in DOMAIN fs : Within(d, e) => ~ IsFile(fs, e)}
WithDirectories(fs, p) ==
  [d \in DOMAIN fs |-> IF d \in MissingAbove(fs, p) THEN Dir(0) ELSE fs[d]]
==============================================================================
