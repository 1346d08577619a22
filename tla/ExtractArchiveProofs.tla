-------------------------- MODULE ExtractArchiveProofs --------------------------
(***************************************************************************)
(* Proofs about ExtractArchive: the types of its state, the order of the   *)
(* list of directories, and what becomes of the files that were there, for *)
(* all archives, trees and options.                                        *)
(***************************************************************************)
EXTENDS ExtractArchiveProps, SequenceTheorems, FiniteSetTheorems,
        WellFoundedInduction, TLAPS

------------------------------------------------------------------------------
(* Paths.                                                                  *)

LEMMA PathType ==
  ASSUME NEW p \in Paths
  PROVE  /\ p \in Seq(STRING) /\ p # Root
         /\ Len(p) \in Nat /\ Len(p) > 0
<1>1. p \in Seq(STRING) /\ p # <<>>
  BY ExtractAssumption
<1>2. Len(p) \in Nat /\ Len(p) > 0
  BY <1>1, LenProperties, EmptySeq
<1>. QED
  BY <1>1, <1>2 DEF Root

(* What may be the name of a member, and the name of its backup.           *)
LEMMA NameType ==
  ASSUME NEW p \in Names
  PROVE  p \in Paths /\ BackupName[p] \in Paths \ Names
BY ExtractAssumption

(* A prefix of a path is a path.                                           *)
LEMMA PrefixType ==
  ASSUME NEW p \in Paths, NEW n \in 1 .. Len(p)
  PROVE  /\ Prefix(p, n) \in Paths /\ Len(Prefix(p, n)) = n
         /\ \A i \in 1 .. n : Prefix(p, n)[i] = p[i]
<1>1. Prefix(p, n) \in Paths
  BY ExtractAssumption DEF Prefix
<1>2. p \in Seq(STRING) /\ Len(p) \in Nat
  BY PathType
<1>3. \A i \in 1 .. n : p[i] \in STRING
  BY <1>2, ElementOfSeq
<1>4. Len(SubSeq(p, 1, n)) = n /\ \A i \in 1 .. n : SubSeq(p, 1, n)[i] = p[i]
  BY <1>2, <1>3, SubSeqProperties
<1>. QED
  BY <1>1, <1>4 DEF Prefix

LEMMA PrefixNamed ==
  ASSUME NEW p \in Names, NEW n \in 1 .. Len(p)
  PROVE  Prefix(p, n) \in Names
BY ExtractAssumption DEF Prefix

(* A prefix of a prefix.                                                   *)
LEMMA PrefixOfPrefix ==
  ASSUME NEW p \in Paths, NEW n \in 1 .. Len(p), NEW m \in 1 .. n
  PROVE  Prefix(Prefix(p, n), m) = Prefix(p, m)
<1>1. Len(p) \in Nat
  BY PathType
<1>2. /\ Prefix(p, n) \in Paths /\ Len(Prefix(p, n)) = n
      /\ \A i \in 1 .. n : Prefix(p, n)[i] = p[i]
  BY PrefixType
<1>3. m \in 1 .. Len(p) /\ m \in 1 .. Len(Prefix(p, n))
  BY <1>1, <1>2
<1> DEFINE s == Prefix(Prefix(p, n), m)
           t == Prefix(p, m)
<1>4. /\ s \in Paths /\ Len(s) = m /\ \A i \in 1 .. m : s[i] = Prefix(p, n)[i]
      /\ t \in Paths /\ Len(t) = m /\ \A i \in 1 .. m : t[i] = p[i]
  BY <1>2, <1>3, PrefixType
<1>5. s \in Seq(STRING) /\ t \in Seq(STRING)
  BY <1>4, PathType
<1>6. \A i \in 1 .. Len(s) : s[i] = t[i]
  BY <1>2, <1>4
<1> HIDE DEF s, t
<1>7. s = t
  BY <1>4, <1>5, <1>6, SeqEqual
<1>. QED
  BY <1>7 DEF s, t

(* The ancestors of a path are its proper prefixes.                        *)
LEMMA AncestorType ==
  ASSUME NEW p \in Paths
  PROVE  /\ \A q \in Ancestors[p] :
              /\ q \in Paths /\ Len(q) \in 1 .. Len(p) - 1
              /\ Prefix(p, Len(q)) = q /\ q # p
         /\ \A n \in 1 .. Len(p) - 1 : Prefix(p, n) \in Ancestors[p]
<1>1. Ancestors[p] = {q \in Paths : Len(q) < Len(p) /\ Prefix(p, Len(q)) = q}
  BY DEF Ancestors
<1>2. Len(p) \in Nat /\ \A q \in Paths : Len(q) \in Nat /\ Len(q) > 0
  BY PathType
<1>3. ASSUME NEW n \in 1 .. Len(p) - 1
      PROVE  Prefix(p, n) \in Ancestors[p]
  <2>1. n \in 1 .. Len(p) /\ n < Len(p)
    BY <1>2
  <2>2. Prefix(p, n) \in Paths /\ Len(Prefix(p, n)) = n
    BY <2>1, PrefixType
  <2>. QED
    BY <1>1, <2>1, <2>2
<1>. QED
  BY <1>1, <1>2, <1>3

LEMMA AncestorTransitive ==
  ASSUME NEW r \in Paths, NEW q \in Ancestors[r], NEW p \in Ancestors[q]
  PROVE  p \in Ancestors[r]
<1>1. /\ q \in Paths /\ Len(q) \in 1 .. Len(r) - 1 /\ Prefix(r, Len(q)) = q
  BY AncestorType
<1>2. /\ p \in Paths /\ Len(p) \in 1 .. Len(q) - 1 /\ Prefix(q, Len(p)) = p
  BY <1>1, AncestorType
<1>3. Len(r) \in Nat /\ Len(q) \in Nat /\ Len(p) \in Nat
  BY <1>1, <1>2, PathType
<1>4. Len(q) \in 1 .. Len(r) /\ Len(p) \in 1 .. Len(q) /\ Len(p) \in 1 .. Len(r) - 1
  BY <1>1, <1>2, <1>3
<1>5. Prefix(Prefix(r, Len(q)), Len(p)) = Prefix(r, Len(p))
  BY <1>4, PrefixOfPrefix
<1>6. Prefix(r, Len(p)) \in Ancestors[r]
  BY <1>4, AncestorType
<1>. QED
  BY <1>1, <1>2, <1>5, <1>6

(* Two ancestors of one path are comparable.                               *)
LEMMA AncestorsComparable ==
  ASSUME NEW r \in Paths, NEW q \in Ancestors[r], NEW p \in Ancestors[r],
         Len(p) < Len(q)
  PROVE  p \in Ancestors[q]
<1>1. /\ q \in Paths /\ Len(q) \in 1 .. Len(r) - 1 /\ Prefix(r, Len(q)) = q
      /\ p \in Paths /\ Len(p) \in 1 .. Len(r) - 1 /\ Prefix(r, Len(p)) = p
  BY AncestorType
<1>2. Len(r) \in Nat /\ Len(q) \in Nat /\ Len(p) \in Nat
  BY <1>1, PathType
<1>3. Len(q) \in 1 .. Len(r) /\ Len(p) \in 1 .. Len(q) /\ Len(p) \in 1 .. Len(q) - 1
  BY <1>1, <1>2
<1>4. Prefix(Prefix(r, Len(q)), Len(p)) = Prefix(r, Len(p))
  BY <1>3, PrefixOfPrefix
<1>5. Prefix(q, Len(p)) \in Ancestors[q]
  BY <1>1, <1>3, AncestorType
<1>. QED
  BY <1>1, <1>4, <1>5

(* A backup is in the directory of what it is the backup of.               *)
LEMMA BackupAncestors ==
  ASSUME NEW p \in Names
  PROVE  Ancestors[BackupName[p]] = Ancestors[p]
<1> DEFINE b == BackupName[p]
<1>1. p \in Paths /\ b \in Paths /\ Len(b) = Len(p)
  BY ExtractAssumption
<1>2. \A n \in 1 .. Len(p) - 1 : Prefix(b, n) = Prefix(p, n)
  BY ExtractAssumption DEF Prefix
<1>3. Len(p) \in Nat /\ \A q \in Paths : Len(q) \in Nat /\ Len(q) > 0
  BY <1>1, PathType
<1>4. /\ Ancestors[p] = {q \in Paths : Len(q) < Len(p) /\ Prefix(p, Len(q)) = q}
      /\ Ancestors[b] = {q \in Paths : Len(q) < Len(b) /\ Prefix(b, Len(q)) = q}
  BY <1>1 DEF Ancestors
<1> HIDE DEF b
<1>5. \A q \in Paths : Len(q) < Len(p) => Prefix(b, Len(q)) = Prefix(p, Len(q))
  BY <1>2, <1>3
<1>6. Ancestors[b] = Ancestors[p]
  BY <1>1, <1>4, <1>5
<1>. QED
  BY <1>6 DEF b

------------------------------------------------------------------------------
(* The file system.                                                        *)

(* What there is lies in directories.                                      *)
Closed(f) ==
  \A p \in Paths : f[p].kind # "none" => \A q \in Ancestors[p] : f[q].kind = "dir"

(* f and g differ at p alone, but for what is not the kind or inode.       *)
SameBut(f, g, p) ==
  \A q \in Paths : q # p => g[q].kind = f[q].kind /\ g[q].ino = f[q].ino

(* Nothing is below what is not a directory.                               *)
LEMMA NothingBelow ==
  ASSUME NEW f, Closed(f), NEW p \in Paths, f[p].kind # "dir"
  PROVE  \A q \in Paths : p \in Ancestors[q] => f[q].kind = "none"
BY DEF Closed

(* Changing one path under which there is nothing.                         *)
LEMMA ClosedAfter ==
  ASSUME NEW f, NEW g, NEW p \in Paths, Closed(f), SameBut(f, g, p),
         \A q \in Paths : p \in Ancestors[q] => f[q].kind = "none",
         g[p].kind # "none" => \A q \in Ancestors[p] : f[q].kind = "dir"
  PROVE  Closed(g)
<1> SUFFICES ASSUME NEW q \in Paths, g[q].kind # "none", NEW r \in Ancestors[q]
             PROVE  g[r].kind = "dir"
  BY DEF Closed
<1>1. r \in Paths /\ r # q
  BY AncestorType
<1>2. CASE q = p
  BY <1>1, <1>2 DEF SameBut
<1>3. CASE q # p
  <2>1. f[q].kind # "none"
    BY <1>3 DEF SameBut
  <2>2. f[r].kind = "dir" /\ r # p
    BY <2>1 DEF Closed
  <2>. QED
    BY <1>1, <2>2 DEF SameBut
<1>. QED
  BY <1>2, <1>3

LEMMA PutType ==
  ASSUME fs \in [Paths -> Inode], NEW p \in Paths, NEW inode \in Inode
  PROVE  /\ Put(p, inode) \in [Paths -> Inode]
         /\ Put(p, inode)[p] = inode
         /\ SameBut(fs, Put(p, inode), p)
<1>1. ASSUME NEW q \in Paths
      PROVE  /\ [fs[q] EXCEPT !.mtime = 0] \in Inode
             /\ [fs[q] EXCEPT !.mtime = 0].kind = fs[q].kind
             /\ [fs[q] EXCEPT !.mtime = 0].ino = fs[q].ino
  BY DEF Inode
<1>. QED
  BY <1>1 DEF Put, SameBut

LEMMA PutClosed ==
  ASSUME fs \in [Paths -> Inode], Closed(fs), NEW p \in Paths, NEW inode \in Inode,
         fs[p].kind = "dir" => IsEmpty(p),
         inode.kind # "none" => \A q \in Ancestors[p] : fs[q].kind = "dir"
  PROVE  Closed(Put(p, inode))
<1>1. Put(p, inode)[p] = inode /\ SameBut(fs, Put(p, inode), p)
  BY PutType
<1>2. \A q \in Paths : p \in Ancestors[q] => fs[q].kind = "none"
  <2>1. CASE fs[p].kind = "dir"
    BY <2>1, PathType DEF IsEmpty, IsAncestor, Exists
  <2>2. CASE fs[p].kind # "dir"
    BY <2>2, NothingBelow
  <2>. QED
    BY <2>1, <2>2
<1>. QED
  BY <1>1, <1>2, ClosedAfter

(* What the results of a call that is to create p say.                     *)
LEMMA ErrnoMeaning ==
  ASSUME NEW p \in Paths
  PROVE  /\ Errno(p) = "none" =>
              /\ fs[p].kind = "none"
              /\ \A q \in Ancestors[p] : fs[q].kind = "dir"
         /\ Errno(p) = "EEXIST" => fs[p].kind # "none"
BY DEF Errno, Exists

(* What may be removed is no directory, or an empty one.                   *)
LEMMA RemovableMeaning ==
  ASSUME NEW p \in Paths, Removable(p)
  PROVE  fs[p].kind # "none" /\ (fs[p].kind = "dir" => IsEmpty(p))
BY DEF Removable, Exists

LEMMA NoneType == None \in Inode /\ None.kind = "none" /\ None.ino = 0
BY DEF None, Inode

------------------------------------------------------------------------------
(* The inductive type invariant.  An entry of either list belongs to a     *)
(* member; no delayed link has the inode of a directory, so that replacing *)
(* a placeholder leaves nothing without its directory.                     *)

Stat == [path : Names, member : DOMAIN archive, ino : Nat, invert : BOOLEAN,
         permstatus : {"UNKNOWN", "ARCHIVED", "INTERDIR"}, after_links : BOOLEAN]
Link == [ino : Nat, is_symlink : BOOLEAN, member : DOMAIN archive,
         sources : Seq(Paths) \ {<<>>}]

GivenTyped == options \in Options /\ archive \in Seq(Member)

FilesTyped ==
  /\ fs \in [Paths -> Inode] /\ Closed(fs)
  /\ inodes \in Nat
  /\ \A p \in Paths : fs[p].ino <= inodes

NoDirectory(ino) == \A p \in Paths : fs[p].ino = ino => fs[p].kind # "dir"

LinksTyped ==
  /\ delayed_link \in Seq(Link)
  /\ \A i \in DOMAIN delayed_link :
       delayed_link[i].ino <= inodes /\ NoDirectory(delayed_link[i].ino)

SourceTyped ==
  /\ valid_source \in Paths \cup {Root}
  /\ valid_source # Root =>
       pc \in {"links", "fixlast", "done"} /\ fs[valid_source].kind # "dir"

BackupTyped == backed_up \in Names \cup {Root}

FlagsTyped == interdir_made \in BOOLEAN /\ exit_status \in BOOLEAN

ControlTyped ==
  /\ todo \in 0 .. Len(archive)
  /\ pc \in {"next", "fix", "prepare", "create", "undo", "finish", "links", "fixlast",
            "done"}
  /\ pc \in {"fix", "prepare", "create"} => todo # 0

Typed ==
  /\ GivenTyped /\ FilesTyped
  /\ delayed_set_stat \in Seq(Stat)
  /\ LinksTyped /\ SourceTyped /\ ControlTyped
  /\ FlagsTyped /\ BackupTyped

LEMMA TypedImpliesTypeOK == Typed => TypeOK
<1> SUFFICES ASSUME Typed PROVE TypeOK
  OBVIOUS
<1>1. archive \in Seq(Member) /\ Len(archive) \in Nat /\ DOMAIN archive = 1 .. Len(archive)
  BY LenProperties DEF Typed, GivenTyped
<1>2. Stat \subseteq Entry /\ Link \subseteq DelayedLink
  BY <1>1 DEF Stat, Entry, Link, DelayedLink
<1>3. delayed_set_stat \in Seq(Entry) /\ delayed_link \in Seq(DelayedLink)
  BY <1>2, SeqMonotonic DEF Typed, LinksTyped
<1>4. \A p \in Paths : Exists(p) => \A q \in Ancestors[p] : fs[q].kind = "dir"
  BY DEF Typed, FilesTyped, Closed, Exists
<1>. QED
  BY <1>1, <1>3, <1>4 DEF Typed, FilesTyped, SourceTyped, ControlTyped,
     FlagsTyped, BackupTyped, TypeOK

LEMMA TypedInit == Init => Typed
<1> SUFFICES ASSUME Init PROVE Typed
  OBVIOUS
<1>1. archive \in Seq(Member) /\ Len(archive) \in Nat /\ options \in Options
  BY ExtractAssumption, LenProperties DEF Init
<1>2. inodes \in Nat
  BY ExtractAssumption, FS_CardinalityType DEF Init
<1>3. fs \in [Paths -> Inode] /\ \A p \in Paths : fs[p].ino <= inodes
  BY ExtractAssumption DEF Init
<1>4. Closed(fs)
  <2> SUFFICES ASSUME NEW p \in Paths, fs[p].kind # "none", NEW q \in Ancestors[p]
               PROVE  fs[q].kind = "dir"
    BY DEF Closed
  <2>1. Len(q) \in 1 .. Len(p) - 1 /\ Prefix(p, Len(q)) = q
    BY AncestorType
  <2>2. \A n \in 1 .. Len(p) - 1 : fs[SubSeq(p, 1, n)].kind = "dir"
    BY ExtractAssumption DEF Init
  <2>. QED
    BY <2>1, <2>2 DEF Prefix
<1>5. delayed_set_stat \in Seq(Stat) /\ delayed_link \in Seq(Link)
  BY EmptySeq DEF Init
<1>6. \A i \in DOMAIN delayed_link : FALSE
  <2>1. Len(delayed_link) = 0 /\ DOMAIN delayed_link = 1 .. Len(delayed_link)
    BY <1>5, EmptySeq, LenProperties DEF Init
  <2>. QED
    BY <2>1
<1>7. SourceTyped /\ FlagsTyped /\ BackupTyped
  BY DEF Init, SourceTyped, FlagsTyped, BackupTyped
<1>8. ControlTyped
  BY <1>1 DEF Init, ControlTyped
<1>9. GivenTyped /\ FilesTyped
  BY <1>1, <1>2, <1>3, <1>4 DEF GivenTyped, FilesTyped
<1>10. LinksTyped
  BY <1>5, <1>6 DEF LinksTyped
<1>. QED
  BY <1>5, <1>7, <1>8, <1>9, <1>10 DEF Typed

------------------------------------------------------------------------------
(* What several actions share.                                             *)

(* The member at hand.                                                     *)
LEMMA CurrentType ==
  ASSUME Typed, pc \in {"fix", "prepare", "create"}
  PROVE  /\ current \in Member /\ current.path \in Names
         /\ current.path \in Paths /\ current.target \in Paths
         /\ current.type \in Types /\ current.writable \in BOOLEAN
         /\ todo \in DOMAIN archive /\ todo \in Nat
<1>1. archive \in Seq(Member) /\ todo \in 0 .. Len(archive) /\ todo # 0
  BY DEF Typed, GivenTyped, ControlTyped
<1>2. DOMAIN archive = 1 .. Len(archive) /\ Len(archive) \in Nat
  BY <1>1, LenProperties
<1>3. todo \in 1 .. Len(archive)
  BY <1>1, <1>2
<1>4. archive[todo] \in Member
  BY <1>1, <1>3, ElementOfSeq
<1>. QED
  BY <1>2, <1>3, <1>4, NameType DEF current, Member

(* A new entry of the list of directories.                                 *)
LEMMA DelayType ==
  ASSUME todo \in DOMAIN archive, NEW p \in Names, NEW i \in BOOLEAN,
         NEW s \in {"UNKNOWN", "ARCHIVED", "INTERDIR"}
  PROVE  /\ Delay(p, i, s) \in Stat
         /\ Delay(p, i, s).path = p /\ Delay(p, i, s).after_links = FALSE
BY DEF Delay, Stat

LEMMA ConsType ==
  ASSUME NEW S, NEW s \in Seq(S), NEW e \in S
  PROVE  /\ <<e>> \o s \in Seq(S)
         /\ Len(<<e>> \o s) = Len(s) + 1
         /\ (<<e>> \o s)[1] = e
         /\ \A i \in 1 .. Len(s) : (<<e>> \o s)[i + 1] = s[i]
<1>1. <<e>> \in Seq(S) /\ Len(<<e>>) = 1 /\ <<e>>[1] = e
  OBVIOUS
<1>2. Len(s) \in Nat
  BY LenProperties
<1>. QED
  BY <1>1, <1>2, ConcatProperties

(* While the archive is the same, so are the types.                        *)
LEMMA SameTypes ==
  ASSUME UNCHANGED given, GivenTyped
  PROVE  Stat' = Stat /\ Link' = Link /\ GivenTyped'
BY DEF given, Stat, Link, GivenTyped

(* Making or removing a file.                                              *)
LEMMA PutFiles ==
  ASSUME FilesTyped, NEW p \in Paths, NEW inode \in Inode,
         fs[p].kind = "dir" => IsEmpty(p),
         inode.kind # "none" => \A q \in Ancestors[p] : fs[q].kind = "dir",
         fs' = Put(p, inode), inodes' \in Nat, inodes <= inodes',
         inode.ino <= inodes'
  PROVE  FilesTyped'
<1>1. Put(p, inode) \in [Paths -> Inode] /\ Closed(Put(p, inode))
  BY PutType, PutClosed DEF FilesTyped
<1>2. \A q \in Paths : Put(p, inode)[q].ino <= inodes'
  <2> SUFFICES ASSUME NEW q \in Paths PROVE Put(p, inode)[q].ino <= inodes'
    OBVIOUS
  <2>1. CASE q = p
    BY <2>1, PutType DEF FilesTyped
  <2>2. CASE q # p
    <3>1. Put(p, inode)[q].ino = fs[q].ino
      BY <2>2, PutType DEF FilesTyped, SameBut
    <3>2. fs[q].ino \in Nat /\ fs[q].ino <= inodes /\ inodes \in Nat
      BY DEF FilesTyped, Inode
    <3>. QED
      BY <3>1, <3>2
  <2>. QED
    BY <2>1, <2>2
<1>. QED
  BY <1>1, <1>2 DEF FilesTyped

(* It gives no delayed link the inode of a directory.                      *)
LEMMA PutLinks ==
  ASSUME FilesTyped, LinksTyped, NEW p \in Paths, NEW inode \in Inode,
         fs' = Put(p, inode), inode.kind # "dir" \/ inodes < inode.ino,
         NEW ino \in Nat, ino <= inodes, NoDirectory(ino)
  PROVE  NoDirectory(ino)'
<1>1. \A q \in Paths : fs'[q].ino = ino => fs'[q].kind # "dir"
  <2> SUFFICES ASSUME NEW q \in Paths, Put(p, inode)[q].ino = ino
               PROVE  Put(p, inode)[q].kind # "dir"
    OBVIOUS
  <2>1. CASE q = p
    <3>1. Put(p, inode)[p] = inode
      BY PutType DEF FilesTyped
    <3>2. inode.ino = ino /\ inodes \in Nat
      BY <2>1, <3>1 DEF FilesTyped
    <3>. QED
      BY <2>1, <3>1, <3>2
  <2>2. CASE q # p
    BY <2>2, PutType DEF FilesTyped, SameBut, NoDirectory
  <2>. QED
    BY <2>1, <2>2
<1>. QED
  BY <1>1 DEF NoDirectory

(* Outside apply_delayed_links there is no valid_source.                   *)
LEMMA NoSourceBefore ==
  ASSUME SourceTyped, pc \in {"next", "fix", "prepare", "create", "undo", "finish"},
         UNCHANGED valid_source
  PROVE  SourceTyped'
BY DEF SourceTyped

LEMMA PutOldLinks ==
  ASSUME Typed, NEW p \in Paths, NEW inode \in Inode,
         fs' = Put(p, inode), inode.kind # "dir" \/ inodes < inode.ino,
         inodes' \in Nat, inodes <= inodes'
  PROVE  \A i \in DOMAIN delayed_link :
           /\ delayed_link[i] \in Link
           /\ delayed_link[i].ino <= inodes'
           /\ \A q \in Paths : fs'[q].ino = delayed_link[i].ino => fs'[q].kind # "dir"
<1> SUFFICES ASSUME NEW i \in DOMAIN delayed_link
             PROVE  /\ delayed_link[i] \in Link
                    /\ delayed_link[i].ino <= inodes'
                    /\ \A q \in Paths : fs'[q].ino = delayed_link[i].ino => fs'[q].kind # "dir"
  OBVIOUS
<1> DEFINE ino == delayed_link[i].ino
<1>1. delayed_link[i] \in Link
  BY LenProperties, ElementOfSeq DEF Typed, LinksTyped
<1>2. ino \in Nat /\ ino <= inodes /\ NoDirectory(ino) /\ inodes \in Nat
  BY <1>1 DEF Typed, LinksTyped, FilesTyped, Link
<1> HIDE DEF ino
<1>3. \A q \in Paths : fs'[q].ino = ino => fs'[q].kind # "dir"
  BY <1>2, PutLinks DEF Typed, NoDirectory
<1>. QED
  BY <1>1, <1>2, <1>3 DEF ino

LEMMA PutKeepsLinks ==
  ASSUME Typed, UNCHANGED given, NEW p \in Paths, NEW inode \in Inode,
         fs' = Put(p, inode), inode.kind # "dir" \/ inodes < inode.ino,
         inodes' \in Nat, inodes <= inodes', UNCHANGED delayed_link
  PROVE  LinksTyped'
<1>1. Link' = Link
  BY SameTypes DEF Typed
<1>2. \A i \in DOMAIN delayed_link :
        /\ delayed_link[i].ino <= inodes'
        /\ \A q \in Paths : fs'[q].ino = delayed_link[i].ino => fs'[q].kind # "dir"
  BY PutOldLinks
<1>. QED
  BY <1>1, <1>2 DEF Typed, LinksTyped, NoDirectory

------------------------------------------------------------------------------
(* The type invariant is inductive: its parts, step by step.               *)

LEMMA FlagsStep ==
  ASSUME FlagsTyped, Next
  PROVE  FlagsTyped'
<1>1. CASE NextMember \/ Finish \/ StartLinks \/ LinksDone \/ Done
  BY <1>1 DEF FlagsTyped, NextMember, Finish, StartLinks, LinksDone, Done
<1>2. CASE MakeDir \/ UseDir \/ MakeFile \/ MakeSymlink \/ MakeLink \/ UseLink
  BY <1>2 DEF FlagsTyped, MakeDir, UseDir, MakeFile, MakeSymlink, MakeLink, UseLink
<1>3. CASE RemoveOld
  BY <1>3 DEF FlagsTyped, RemoveOld, control
<1>9. CASE MakeDirectories
  <2>1. interdir_made' \in BOOLEAN
    BY <1>9, Zenon DEF MakeDirectories
  <2>2. exit_status' \in BOOLEAN
    BY <1>9, Zenon DEF MakeDirectories, FlagsTyped
  <2>. QED
    BY <2>1, <2>2 DEF FlagsTyped
<1>4. CASE FixDirectory
  BY <1>4 DEF FlagsTyped, FixDirectory
<1>10. CASE MaybeBackupFile
  <2>1. interdir_made' \in BOOLEAN
    BY <1>10 DEF FlagsTyped, MaybeBackupFile
  <2>2. exit_status' \in BOOLEAN
    BY <1>10, Zenon DEF FlagsTyped, MaybeBackupFile
  <2>. QED
    BY <2>1, <2>2 DEF FlagsTyped
<1>11. CASE UndoLastBackup
  <2>1. interdir_made' \in BOOLEAN
    BY <1>11 DEF FlagsTyped, UndoLastBackup
  <2>2. exit_status' \in BOOLEAN
    BY <1>11, Zenon DEF FlagsTyped, UndoLastBackup
  <2>. QED
    BY <2>1, <2>2 DEF FlagsTyped
<1>5. CASE Prepare
  BY <1>5 DEF FlagsTyped, Prepare
<1>6. CASE MakePlaceholder
  BY <1>6 DEF FlagsTyped, MakePlaceholder
<1>7. CASE Fail
  BY <1>7 DEF FlagsTyped, Fail
<1>8. CASE ApplyDelayedLink
  BY <1>8 DEF FlagsTyped, ApplyDelayedLink
<1>. QED
  BY <1>1, <1>2, <1>3, <1>4, <1>5, <1>6, <1>7, <1>8, <1>9, <1>10, <1>11
     DEF Next, Extractor, ExtractFinish

LEMMA BackupStep ==
  ASSUME Typed, Next
  PROVE  BackupTyped'
<1>1. CASE NextMember \/ Prepare \/ MakeFile \/ MakeSymlink \/ UseLink \/ RemoveOld \/ Fail
  BY <1>1 DEF Typed, BackupTyped, delayed, NextMember, Prepare, MakeFile, MakeSymlink,
              UseLink, RemoveOld, Fail
<1>2. CASE Finish \/ StartLinks \/ LinksDone \/ Done
  BY <1>2 DEF Typed, BackupTyped, delayed, Finish, StartLinks, LinksDone, Done
<1>3. CASE \/ FixDirectory \/ MakeDir \/ UseDir \/ MakePlaceholder \/ MakeLink
           \/ MakeDirectories \/ ApplyDelayedLink
  BY <1>3 DEF Typed, BackupTyped, FixDirectory, MakeDir, UseDir, MakePlaceholder, MakeLink,
              MakeDirectories, ApplyDelayedLink
<1>4. CASE MaybeBackupFile
  <2>1. current.path \in Names
    BY <1>4, CurrentType DEF MaybeBackupFile
  <2>. QED
    BY <1>4, <2>1 DEF Typed, BackupTyped, MaybeBackupFile
<1>5. CASE UndoLastBackup
  BY <1>5 DEF BackupTyped, UndoLastBackup
<1>. QED
  BY <1>1, <1>2, <1>3, <1>4, <1>5 DEF Next, Extractor, ExtractFinish

LEMMA ControlStep ==
  ASSUME GivenTyped, ControlTyped, Next
  PROVE  ControlTyped' /\ UNCHANGED given
<1>1. Len(archive) \in Nat
  BY LenProperties DEF GivenTyped
<1>2. UNCHANGED given
  <2>1. CASE NextMember \/ FixDirectory \/ Prepare \/ MaybeBackupFile \/ UndoLastBackup
    BY <2>1 DEF NextMember, FixDirectory, Prepare, MaybeBackupFile, UndoLastBackup
  <2>2. CASE MakeDir \/ UseDir \/ MakeFile \/ MakeSymlink \/ MakePlaceholder
    BY <2>2 DEF MakeDir, UseDir, MakeFile, MakeSymlink, MakePlaceholder
  <2>3. CASE MakeLink \/ UseLink \/ RemoveOld \/ MakeDirectories \/ Fail
    BY <2>3 DEF MakeLink, UseLink, RemoveOld, MakeDirectories, Fail
  <2>4. CASE ExtractFinish
    BY <2>4 DEF ExtractFinish, Finish, StartLinks, ApplyDelayedLink, LinksDone, Done
  <2>. QED
    BY <2>1, <2>2, <2>3, <2>4 DEF Next, Extractor
<1>3. archive' = archive
  BY <1>2 DEF given
<1>4. ControlTyped'
  <2>1. CASE NextMember
    BY <1>1, <1>3, <2>1 DEF ControlTyped, NextMember
  <2>2. CASE FixDirectory \/ Prepare
    BY <1>1, <1>3, <2>2 DEF ControlTyped, FixDirectory, Prepare
  <2>3. CASE MakeDir \/ UseDir \/ MakeFile \/ MakeSymlink \/ MakePlaceholder
    BY <1>1, <1>3, <2>3
       DEF ControlTyped, MakeDir, UseDir, MakeFile, MakeSymlink, MakePlaceholder,
           AfterFailure
  <2>4. CASE MakeLink \/ UseLink \/ Fail
    BY <1>1, <1>3, <2>4 DEF ControlTyped, MakeLink, UseLink, Fail, AfterFailure
  <2>7. CASE MaybeBackupFile
    BY <1>1, <1>3, <2>7 DEF ControlTyped, MaybeBackupFile
  <2>8. CASE UndoLastBackup
    BY <1>1, <1>3, <2>8 DEF ControlTyped, UndoLastBackup
  <2>5. CASE RemoveOld \/ MakeDirectories
    BY <1>1, <1>3, <2>5 DEF ControlTyped, RemoveOld, MakeDirectories, control
  <2>6. CASE ExtractFinish
    BY <1>1, <1>3, <2>6
       DEF ControlTyped, ExtractFinish, Finish, StartLinks, ApplyDelayedLink, LinksDone,
           Done
  <2>. QED
    BY <2>1, <2>2, <2>3, <2>4, <2>5, <2>6, <2>7, <2>8 DEF Next, Extractor
<1>. QED
  BY <1>2, <1>4

------------------------------------------------------------------------------
(* The parents that make_directories makes.                                *)

LEMMA LeastNatural ==
  ASSUME NEW T, T \subseteq Nat, T # {}
  PROVE  \E m \in T : \A n \in T : m <= n
<1>1. PICK m \in T : \A n \in T : <<n, m>> \notin OpToRel(<, Nat)
  BY WFMin, NatLessThanWellFounded, Zenon
<1>2. \A n \in T : ~ (n < m)
  BY <1>1, Zenon DEF OpToRel
<1>. QED
  BY <1>2

(* First is the length of the first missing parent; all above it are       *)
(* directories, all below it are missing.                                  *)
LEMMA FirstMissing ==
  ASSUME Typed, pc = "create", MakesDirs
  PROVE  /\ First \in 1 .. Len(current.path) - 1
         /\ \A n \in 1 .. First - 1 : fs[Prefix(current.path, n)].kind = "dir"
         /\ \A n \in First .. Len(current.path) - 1 :
              fs[Prefix(current.path, n)].kind = "none"
<1> DEFINE p == current.path
           T == {n \in 1 .. Len(p) - 1 : Prefix(p, n) \in Missing}
<1>1. p \in Paths /\ Len(p) \in Nat /\ Missing # {} /\ Errno(Prefix(p, First)) = "none"
  <2>1. current.path \in Paths
    BY CurrentType
  <2>2. Len(current.path) \in Nat
    BY <2>1, PathType
  <2>. QED
    BY <2>1, <2>2 DEF MakesDirs
<1>2. Missing = {q \in Ancestors[p] : fs[q].kind = "none"}
  BY DEF Missing, Exists
<1> HIDE DEF p
<1>3. PICK m \in T : \A n \in T : m <= n
  <2>1. T \subseteq Nat
    BY <1>1
  <2>2. T # {}
    <3>1. PICK q \in Ancestors[p] : q \in Missing
      BY <1>1, <1>2
    <3>2. Len(q) \in 1 .. Len(p) - 1 /\ Prefix(p, Len(q)) = q
      BY <1>1, AncestorType
    <3>. QED
      BY <3>1, <3>2
  <2>. QED
    BY <2>1, <2>2, LeastNatural
<1>4. /\ First \in 1 .. Len(p) - 1 /\ Prefix(p, First) \in Missing
      /\ \A k \in 1 .. First - 1 : Prefix(p, k) \notin Missing
  <2>1. \E n \in 1 .. Len(p) - 1 :
           Prefix(p, n) \in Missing /\ \A k \in 1 .. n - 1 : Prefix(p, k) \notin Missing
    <3>1. m \in 1 .. Len(p) - 1 /\ Prefix(p, m) \in Missing
      BY <1>3
    <3>2. ASSUME NEW k \in 1 .. m - 1 PROVE Prefix(p, k) \notin Missing
      BY <1>1, <1>3, <3>1
    <3>. QED
      BY <3>1, <3>2
  <2>. QED
    BY <2>1 DEF First, p
<1>5. \A n \in 1 .. Len(p) - 1 : Prefix(p, n) \in Ancestors[p]
  BY <1>1, AncestorType
<1>6. /\ Prefix(p, First) \in Paths /\ Len(Prefix(p, First)) = First
      /\ fs[Prefix(p, First)].kind = "none"
  BY <1>1, <1>2, <1>4, <1>5, AncestorType, PrefixType
<1>7. ASSUME NEW n \in 1 .. First - 1
      PROVE  fs[Prefix(p, n)].kind = "dir"
  <2>1. n \in 1 .. Len(p) - 1 /\ n \in 1 .. Len(p)
    BY <1>1, <1>4
  <2>2. Prefix(p, n) \in Ancestors[p] /\ Len(Prefix(p, n)) = n
    BY <1>1, <1>5, <2>1, PrefixType
  <2>3. n < First
    BY <1>1, <1>4
  <2>4. Prefix(p, n) \in Ancestors[Prefix(p, First)]
    BY <1>1, <1>4, <1>5, <1>6, <2>2, <2>3, AncestorsComparable
  <2>. QED
    BY <1>1, <1>6, <2>4, ErrnoMeaning
<1>8. ASSUME NEW n \in First .. Len(p) - 1
      PROVE  fs[Prefix(p, n)].kind = "none"
  <2>1. n \in 1 .. Len(p) - 1 /\ n \in 1 .. Len(p) /\ First <= n
    BY <1>1, <1>4
  <2>2. CASE n = First
    BY <1>6, <2>2
  <2>3. CASE First < n
    <3>1. Prefix(p, n) \in Ancestors[p] /\ Len(Prefix(p, n)) = n /\ Prefix(p, n) \in Paths
      BY <1>1, <1>5, <2>1, PrefixType
    <3>2. Prefix(p, First) \in Ancestors[Prefix(p, n)]
      BY <1>1, <1>4, <1>5, <1>6, <2>3, <3>1, AncestorsComparable
    <3>. QED
      BY <1>6, <3>1, <3>2, NothingBelow DEF Typed, FilesTyped
  <2>. QED
    BY <1>1, <1>4, <2>1, <2>2, <2>3
<1>. QED
  BY <1>4, <1>7, <1>8 DEF p

------------------------------------------------------------------------------
(* The files, the two lists and valid_source, step by step.                *)

DiskTyped ==
  FilesTyped /\ delayed_set_stat \in Seq(Stat) /\ LinksTyped /\ SourceTyped

(* Steps that leave the disk and the lists alone.                          *)
LEMMA QuietStep ==
  ASSUME Typed, NextMember \/ UseLink \/ Fail \/ Finish \/ StartLinks \/ LinksDone \/ Done
  PROVE  DiskTyped'
<1>1. UNCHANGED <<given, disk, delayed>>
  BY DEF NextMember, UseLink, Fail, Finish, StartLinks, LinksDone, Done
<1>2. pc \in {"links", "fixlast", "done"} => pc' \in {"links", "fixlast", "done"}
  BY DEF NextMember, UseLink, LinkIsThere, Fail, Failing, Finish, StartLinks, LinksDone, Done
<1>3. Stat' = Stat /\ Link' = Link
  BY <1>1, SameTypes DEF Typed
<1>4. FilesTyped' /\ LinksTyped'
  BY <1>1, <1>3 DEF Typed, FilesTyped, LinksTyped, NoDirectory, disk, delayed
<1>5. delayed_set_stat' \in Seq(Stat')
  BY <1>1, <1>3 DEF Typed, delayed
<1>6. SourceTyped'
  BY <1>1, <1>2 DEF Typed, SourceTyped, disk, delayed
<1>. QED
  BY <1>4, <1>5, <1>6 DEF DiskTyped

(* Setting the status of a directory.                                      *)
LEMMA RestoredType ==
  ASSUME Typed, NEW d \in Stat
  PROVE  /\ Restored(d) \in Inode
         /\ Restored(d).kind = fs[d.path].kind /\ Restored(d).ino = fs[d.path].ino
<1>1. d.path \in Paths /\ d.member \in DOMAIN archive /\ d.invert \in BOOLEAN
  BY NameType DEF Stat
<1>2. fs[d.path] \in Inode /\ archive \in Seq(Member)
  BY <1>1 DEF Typed, FilesTyped, GivenTyped
<1>3. d.member \in Nat /\ archive[d.member] \in Member
  BY <1>1, <1>2, LenProperties, ElementOfSeq
<1>4. archive[d.member].writable \in BOOLEAN /\ fs[d.path].writable \in BOOLEAN
  BY <1>2, <1>3 DEF Member, Inode
<1> DEFINE w == IF options.same_permissions THEN archive[d.member].writable
                ELSE IF d.invert THEN ~ fs[d.path].writable
                ELSE fs[d.path].writable
           set == [fs[d.path] EXCEPT !.mtime = d.member, !.writable = w]
<1>5. w \in BOOLEAN
  BY <1>4
<1>6. Restored(d) = IF d.permstatus = "INTERDIR" THEN fs[d.path] ELSE set
  BY DEF Restored
<1> HIDE DEF w
<1>7. set \in Inode /\ set.kind = fs[d.path].kind /\ set.ino = fs[d.path].ino
  BY <1>2, <1>3, <1>5 DEF Inode
<1>. QED
  BY <1>2, <1>6, <1>7

LEMMA FixDirectoryStep ==
  ASSUME Typed, FixDirectory
  PROVE  DiskTyped'
<1>1. delayed_set_stat \in Seq(Stat) /\ delayed_set_stat # <<>>
  BY DEF Typed, FixDirectory, MustFix
<1>2. Head1 \in Stat /\ Tail(delayed_set_stat) \in Seq(Stat)
  BY <1>1, HeadTailProperties, LenProperties, ElementOfSeq DEF Head1
<1>3. Stat' = Stat /\ Link' = Link
  BY SameTypes DEF Typed, FixDirectory
<1>4. fs' = fs \/ fs' = [fs EXCEPT ![Head1.path] = Restored(Head1)]
  BY DEF FixDirectory
<1>5. /\ fs' \in [Paths -> Inode]
      /\ \A q \in Paths : fs'[q].kind = fs[q].kind /\ fs'[q].ino = fs[q].ino
  <2>1. Head1.path \in Paths /\ fs \in [Paths -> Inode]
    BY <1>2, NameType DEF Stat, Typed, FilesTyped
  <2>. QED
    BY <1>2, <1>4, <2>1, RestoredType
<1>6. Closed(fs')
  <2>1. Closed(fs)
    BY DEF Typed, FilesTyped
  <2>. QED
    BY <1>5, <2>1, AncestorType DEF Closed
<1>7. FilesTyped'
  BY <1>5, <1>6 DEF Typed, FilesTyped, FixDirectory
<1>8. LinksTyped'
  BY <1>3, <1>5 DEF Typed, LinksTyped, NoDirectory, FixDirectory
<1>9. SourceTyped'
  BY <1>5 DEF Typed, SourceTyped, FixDirectory
<1>. QED
  BY <1>2, <1>3, <1>7, <1>8, <1>9 DEF DiskTyped, FixDirectory

(* Removing what is there.                                                 *)
LEMMA RemoveStep ==
  ASSUME Typed, pc \in {"fix", "prepare", "create"}, Removable(current.path),
         fs' = Put(current.path, None), UNCHANGED <<given, inodes, delayed>>
  PROVE  FilesTyped' /\ LinksTyped'
<1>1. current.path \in Paths
  BY CurrentType
<1>2. fs[current.path].kind = "dir" => IsEmpty(current.path)
  BY <1>1, RemovableMeaning
<1>3. inodes \in Nat
  BY DEF Typed, FilesTyped
<1>4. FilesTyped'
  BY <1>1, <1>2, <1>3, NoneType, PutFiles DEF Typed
<1>5. LinksTyped'
  BY <1>1, <1>3, NoneType, PutKeepsLinks DEF delayed
<1>. QED
  BY <1>4, <1>5

LEMMA PrepareStep ==
  ASSUME Typed, Prepare
  PROVE  DiskTyped'
<1>1. pc \in {"fix", "prepare"} /\ UNCHANGED <<given, inodes, delayed>>
  BY DEF Prepare
<1>2. Stat' = Stat /\ Link' = Link
  BY <1>1, SameTypes DEF Typed
<1>3. FilesTyped' /\ LinksTyped'
  <2>1. CASE Removable(current.path) /\ fs' = Put(current.path, None)
    BY <1>1, <2>1, RemoveStep
  <2>2. CASE fs' = fs
    BY <1>1, <1>2, <2>2 DEF Typed, FilesTyped, LinksTyped, NoDirectory, delayed
  <2>. QED
    BY <2>1, <2>2 DEF Prepare
<1>4. SourceTyped'
  BY <1>1, NoSourceBefore DEF Typed, delayed
<1>5. delayed_set_stat' \in Seq(Stat')
  BY <1>1, <1>2 DEF Typed, delayed
<1>. QED
  BY <1>3, <1>4, <1>5 DEF DiskTyped

(* Renaming a file to its backup, or back.                                 *)
LEMMA RenameStep ==
  ASSUME Typed, NEW p \in Paths, NEW q \in Paths, Ancestors[q] = Ancestors[p],
         CanRename(p, q), fs' = Renamed(p, q),
         UNCHANGED <<given, inodes, delayed_link>>
  PROVE  FilesTyped' /\ LinksTyped'
<1>1. Link' = Link
  BY SameTypes DEF Typed
<1>2. CASE fs[p].ino = fs[q].ino
  <2>1. fs' = fs
    BY <1>2 DEF Renamed
  <2>. QED
    BY <1>1, <2>1 DEF Typed, FilesTyped, LinksTyped, NoDirectory
<1>3. CASE fs[p].ino # fs[q].ino
  <2> DEFINE g == Put(q, fs[p])
             h == [g EXCEPT ![p] = None]
  <2>1. p # q /\ fs' = h
    BY <1>3 DEF Renamed
  <2>2. /\ fs \in [Paths -> Inode] /\ Closed(fs) /\ fs[p] \in Inode
        /\ inodes \in Nat /\ \A r \in Paths : fs[r].ino <= inodes
    BY DEF Typed, FilesTyped
  <2>3. fs[p].kind \notin {"none", "dir"} /\ fs[q].kind # "dir"
    BY DEF CanRename
  <2>4. g \in [Paths -> Inode] /\ g[q] = fs[p] /\ SameBut(fs, g, q)
    BY <2>2, PutType
  <2>5. Closed(g)
    <3>1. \A r \in Ancestors[q] : fs[r].kind = "dir"
      BY <2>2, <2>3 DEF Closed
    <3>. QED
      BY <2>2, <2>3, <3>1, PutClosed
  <2>6. g[p].kind = fs[p].kind
    BY <2>1, <2>4 DEF SameBut
  <2> HIDE DEF g
  <2>7. h \in [Paths -> Inode] /\ h[p] = None /\ SameBut(g, h, p)
    BY <2>4, NoneType DEF SameBut
  <2>8. Closed(h)
    <3>1. \A r \in Paths : p \in Ancestors[r] => g[r].kind = "none"
      BY <2>3, <2>5, <2>6, NothingBelow
    <3> HIDE DEF h
    <3>. QED
      BY <2>5, <2>7, <3>1, NoneType, ClosedAfter
  <2> HIDE DEF h
  <2>9. ASSUME NEW r \in Paths
        PROVE  \/ h[r].ino = 0 /\ h[r].kind = "none"
               \/ h[r].ino = fs[p].ino /\ h[r].kind = fs[p].kind
               \/ h[r].ino = fs[r].ino /\ h[r].kind = fs[r].kind
    <3>1. CASE r = p
      BY <2>7, <3>1, NoneType
    <3>2. CASE r # p
      <4>1. h[r].ino = g[r].ino /\ h[r].kind = g[r].kind
        BY <2>7, <3>2 DEF SameBut
      <4>. QED
        BY <2>4, <4>1 DEF SameBut
    <3>. QED
      BY <3>1, <3>2
  <2>10. FilesTyped'
    BY <2>1, <2>2, <2>7, <2>8, <2>9 DEF FilesTyped
  <2>11. ASSUME NEW ino \in Nat, NoDirectory(ino)
         PROVE  \A r \in Paths : h[r].ino = ino => h[r].kind # "dir"
    BY <2>3, <2>9, <2>11 DEF NoDirectory
  <2>12. LinksTyped'
    <3> SUFFICES ASSUME NEW i \in DOMAIN delayed_link
                 PROVE  /\ delayed_link[i].ino <= inodes
                        /\ \A r \in Paths : h[r].ino = delayed_link[i].ino => h[r].kind # "dir"
      BY <1>1, <2>1 DEF Typed, LinksTyped, NoDirectory
    <3>1. delayed_link[i] \in Link
      BY LenProperties, ElementOfSeq DEF Typed, LinksTyped
    <3>2. /\ delayed_link[i].ino \in Nat /\ delayed_link[i].ino <= inodes
          /\ NoDirectory(delayed_link[i].ino)
      BY <3>1 DEF Typed, LinksTyped, Link
    <3>. QED
      BY <2>11, <3>2
  <2>. QED
    BY <2>10, <2>12
<1>. QED
  BY <1>2, <1>3

LEMMA BackUpStep ==
  ASSUME Typed, MaybeBackupFile \/ UndoLastBackup
  PROVE  DiskTyped'
<1>1. /\ pc \in {"fix", "undo"}
      /\ UNCHANGED <<given, inodes, delayed_set_stat, delayed_link, valid_source>>
  BY DEF MaybeBackupFile, UndoLastBackup
<1>2. Stat' = Stat /\ Link' = Link
  BY <1>1, SameTypes DEF Typed
<1>3. FilesTyped' /\ LinksTyped'
  <2>1. CASE fs' = fs
    BY <1>1, <1>2, <2>1 DEF Typed, FilesTyped, LinksTyped, NoDirectory
  <2>2. CASE fs' # fs
    <3>1. \E p, q \in Paths : /\ Ancestors[q] = Ancestors[p]
                              /\ CanRename(p, q) /\ fs' = Renamed(p, q)
      <4>1. CASE MaybeBackupFile
        <5>1. current.path \in Names
          BY <4>1, CurrentType DEF MaybeBackupFile
        <5>2. /\ CanRename(current.path, BackupName[current.path])
              /\ fs' = Renamed(current.path, BackupName[current.path])
          BY <2>2, <4>1 DEF MaybeBackupFile
        <5>. QED
          BY <5>1, <5>2, NameType, BackupAncestors
      <4>2. CASE UndoLastBackup
        <5>1. /\ backed_up # Root /\ CanRename(BackupName[backed_up], backed_up)
              /\ fs' = Renamed(BackupName[backed_up], backed_up)
          BY <2>2, <4>2 DEF UndoLastBackup
        <5>2. backed_up \in Names
          BY <5>1 DEF Typed, BackupTyped
        <5>. QED
          BY <5>1, <5>2, NameType, BackupAncestors
      <4>. QED
        BY <4>1, <4>2
    <3>. QED
      BY <1>1, <3>1, RenameStep
  <2>. QED
    BY <2>1, <2>2
<1>4. SourceTyped'
  BY <1>1, NoSourceBefore DEF Typed
<1>5. delayed_set_stat' \in Seq(Stat')
  BY <1>1, <1>2 DEF Typed
<1>. QED
  BY <1>3, <1>4, <1>5 DEF DiskTyped

LEMMA RemoveOldStep ==
  ASSUME Typed, RemoveOld
  PROVE  DiskTyped'
<1>1. /\ pc = "create" /\ Removable(current.path) /\ fs' = Put(current.path, None)
      /\ UNCHANGED <<given, inodes, delayed>>
  BY DEF RemoveOld, Failing, Removes
<1>2. Stat' = Stat
  BY <1>1, SameTypes DEF Typed
<1>3. FilesTyped' /\ LinksTyped'
  BY <1>1, RemoveStep
<1>4. SourceTyped'
  BY <1>1, NoSourceBefore DEF Typed, delayed
<1>5. delayed_set_stat' \in Seq(Stat')
  BY <1>1, <1>2 DEF Typed, delayed
<1>. QED
  BY <1>3, <1>4, <1>5 DEF DiskTyped

(* An entry put in front of the list of directories, or none.              *)
LEMMA UseDirStep ==
  ASSUME Typed, UseDir
  PROVE  DiskTyped'
<1>1. /\ pc = "create" /\ UNCHANGED <<given, disk, delayed_link, valid_source>>
      /\ delayed_set_stat' =
           <<Delay(current.path, FALSE, "UNKNOWN")>> \o delayed_set_stat
  BY DEF UseDir, UsesOld, Creating
<1>2. Stat' = Stat /\ Link' = Link
  BY <1>1, SameTypes DEF Typed
<1>3. Delay(current.path, FALSE, "UNKNOWN") \in Stat
  BY <1>1, CurrentType, DelayType
<1>4. delayed_set_stat' \in Seq(Stat')
  BY <1>1, <1>2, <1>3, ConsType DEF Typed
<1>5. FilesTyped' /\ LinksTyped'
  BY <1>1, <1>2 DEF Typed, FilesTyped, LinksTyped, NoDirectory, disk
<1>6. SourceTyped'
  BY <1>1, NoSourceBefore DEF Typed
<1>. QED
  BY <1>4, <1>5, <1>6 DEF DiskTyped

(* A new inode where there was nothing.                                    *)
LEMMA CreateStep ==
  ASSUME Typed, pc = "create", CreateErrno = "none",
         NEW kind \in {"dir", "file", "symlink", "placeholder"},
         NEW writable \in BOOLEAN, NEW mtime \in Nat,
         fs' = Created(current.path, kind, writable, mtime), inodes' = inodes + 1,
         UNCHANGED <<given, valid_source>>
  PROVE  FilesTyped' /\ SourceTyped' /\ (UNCHANGED delayed_link => LinksTyped')
<1> DEFINE p == current.path
           inode == [kind |-> kind, ino |-> inodes + 1, from |-> todo,
                     writable |-> writable, mtime |-> mtime]
<1>1. p \in Paths /\ todo \in Nat /\ inodes \in Nat
  BY CurrentType DEF Typed, FilesTyped
<1>2. fs' = Put(p, inode)
  BY DEF Created
<1>3. inode \in Inode /\ inode.kind # "none" /\ inode.ino = inodes + 1
  BY <1>1 DEF Inode
<1>4. Errno(p) = "none"
  BY DEF CreateErrno
<1> HIDE DEF inode, p
<1>5. fs[p].kind = "none" /\ \A q \in Ancestors[p] : fs[q].kind = "dir"
  BY <1>1, <1>4, ErrnoMeaning
<1>6. FilesTyped'
  BY <1>1, <1>2, <1>3, <1>5, PutFiles DEF Typed
<1>7. UNCHANGED delayed_link => LinksTyped'
  BY <1>1, <1>2, <1>3, PutKeepsLinks
<1>8. SourceTyped'
  BY NoSourceBefore DEF Typed
<1>. QED
  BY <1>6, <1>7, <1>8

LEMMA MakeDirStep ==
  ASSUME Typed, MakeDir
  PROVE  DiskTyped'
<1>1. /\ pc = "create" /\ CreateErrno = "none" /\ inodes' = inodes + 1
      /\ fs' = Created(current.path, "dir", TRUE, 0)
      /\ UNCHANGED <<given, delayed_link, valid_source>>
      /\ delayed_set_stat' =
           <<Delay(current.path, ~ current.writable, "ARCHIVED")>> \o delayed_set_stat
  BY DEF MakeDir, Creating
<1>2. FilesTyped' /\ SourceTyped' /\ LinksTyped'
  BY <1>1, CreateStep
<1>3. Delay(current.path, ~ current.writable, "ARCHIVED") \in Stat
  BY <1>1, CurrentType, DelayType
<1>4. Stat' = Stat
  BY <1>1, SameTypes DEF Typed
<1>5. delayed_set_stat' \in Seq(Stat')
  BY <1>1, <1>3, <1>4, ConsType DEF Typed
<1>. QED
  BY <1>2, <1>5 DEF DiskTyped

LEMMA MakeFileStep ==
  ASSUME Typed, MakeFile \/ MakeSymlink
  PROVE  DiskTyped'
<1>1. /\ pc = "create" /\ CreateErrno = "none" /\ inodes' = inodes + 1
      /\ UNCHANGED <<given, delayed>>
  BY DEF MakeFile, MakeSymlink, Creating
<1>2. FilesTyped' /\ SourceTyped' /\ LinksTyped'
  <2>1. UNCHANGED <<given, delayed_link, valid_source>>
    BY <1>1 DEF delayed
  <2>2. todo \in Nat /\ current.writable \in BOOLEAN
    BY <1>1, CurrentType
  <2>3. CASE MakeFile
    BY <1>1, <2>1, <2>2, <2>3, CreateStep DEF MakeFile
  <2>4. CASE MakeSymlink
    BY <1>1, <2>1, <2>4, CreateStep DEF MakeSymlink
  <2>. QED
    BY <2>3, <2>4
<1>3. Stat' = Stat
  BY <1>1, SameTypes DEF Typed
<1>4. delayed_set_stat' \in Seq(Stat')
  BY <1>1, <1>3 DEF Typed, delayed
<1>. QED
  BY <1>2, <1>4 DEF DiskTyped

(* Changing the elements of a sequence.                                    *)
LEMMA SameLength ==
  ASSUME NEW S, NEW T, NEW s \in Seq(S), NEW t \in [DOMAIN s -> T]
  PROVE  t \in Seq(T) /\ Len(t) = Len(s) /\ DOMAIN t = DOMAIN s
<1>1. Len(s) \in Nat /\ DOMAIN s = 1 .. Len(s)
  BY LenProperties
<1>2. t \in Seq(T)
  BY <1>1, SeqDef
<1>3. Len(t) \in Nat /\ DOMAIN t = 1 .. Len(t)
  BY <1>2, LenProperties
<1>4. 1 .. Len(t) = 1 .. Len(s)
  BY <1>1, <1>3
<1>5. Len(t) = Len(s)
  BY <1>1, <1>3, <1>4
<1>. QED
  BY <1>2, <1>5, <1>1, <1>3

(* The entries a placeholder makes wait keep all but mark and inode.       *)
LEMMA MarkedType ==
  ASSUME Typed, MakePlaceholder
  PROVE  /\ delayed_set_stat' \in Seq(Stat)
         /\ Len(delayed_set_stat') = Len(delayed_set_stat)
         /\ DOMAIN delayed_set_stat' = DOMAIN delayed_set_stat
         /\ \A i \in DOMAIN delayed_set_stat :
              /\ delayed_set_stat'[i].path = delayed_set_stat[i].path
              /\ delayed_set_stat'[i].after_links =
                   IF i \in Marked(current.path) THEN TRUE
                   ELSE delayed_set_stat[i].after_links
<1> DEFINE marked == Marked(current.path)
           entry(i, ino) ==
             [delayed_set_stat[i] EXCEPT !.after_links = TRUE, !.ino = ino]
           known(i) == IF ~ Exists(delayed_set_stat[i].path) THEN delayed_set_stat[i].ino
                       ELSE fs[delayed_set_stat[i].path].ino
           next(i) == IF i \notin marked THEN delayed_set_stat[i] ELSE entry(i, known(i))
<1>1. delayed_set_stat' = [i \in DOMAIN delayed_set_stat |-> next(i)]
  BY DEF MakePlaceholder
<1>2. delayed_set_stat \in Seq(Stat) /\ fs \in [Paths -> Inode]
  BY DEF Typed, FilesTyped
<1>3. ASSUME NEW i \in DOMAIN delayed_set_stat
      PROVE  /\ next(i) \in Stat /\ next(i).path = delayed_set_stat[i].path
             /\ next(i).after_links =
                   IF i \in marked THEN TRUE ELSE delayed_set_stat[i].after_links
  <2>1. delayed_set_stat[i] \in Stat
    BY <1>2, <1>3, LenProperties, ElementOfSeq
  <2>2. known(i) \in Nat
    BY <1>2, <2>1, NameType DEF Stat, Inode
  <2> HIDE DEF known, marked
  <2>3. entry(i, known(i)) \in Stat /\ entry(i, known(i)).path = delayed_set_stat[i].path
    BY <2>1, <2>2 DEF Stat
  <2>4. entry(i, known(i)).after_links = TRUE
    BY <2>1 DEF Stat
  <2>5. CASE i \in marked
    BY <2>3, <2>4, <2>5
  <2>6. CASE i \notin marked
    BY <2>1, <2>6
  <2>. QED
    BY <2>5, <2>6
<1> HIDE DEF next
<1>4. delayed_set_stat' \in [DOMAIN delayed_set_stat -> Stat]
  BY <1>1, <1>3
<1>5. /\ delayed_set_stat' \in Seq(Stat)
      /\ Len(delayed_set_stat') = Len(delayed_set_stat)
      /\ DOMAIN delayed_set_stat' = DOMAIN delayed_set_stat
  BY <1>2, <1>4, SameLength
<1>6. \A i \in DOMAIN delayed_set_stat : delayed_set_stat'[i] = next(i)
  BY <1>1
<1>. QED
  BY <1>3, <1>5, <1>6

LEMMA MakePlaceholderStep ==
  ASSUME Typed, MakePlaceholder
  PROVE  DiskTyped'
<1> DEFINE e == [ino |-> inodes + 1, is_symlink |-> current.type = "symlink",
                 member |-> todo, sources |-> <<current.path>>]
           inode == [kind |-> "placeholder", ino |-> inodes + 1, from |-> todo,
                     writable |-> FALSE, mtime |-> 0]
<1>1. /\ pc = "create" /\ CreateErrno = "none" /\ inodes' = inodes + 1
      /\ fs' = Created(current.path, "placeholder", FALSE, 0)
      /\ UNCHANGED <<given, valid_source>>
      /\ delayed_link' = <<e>> \o delayed_link
  BY DEF MakePlaceholder
<1>2. FilesTyped' /\ SourceTyped'
  BY <1>1, CreateStep
<1>3. Stat' = Stat /\ Link' = Link
  BY <1>1, SameTypes DEF Typed
<1>4. delayed_set_stat' \in Seq(Stat')
  BY <1>3, MarkedType
<1>5. /\ current.path \in Paths /\ todo \in DOMAIN archive /\ todo \in Nat
      /\ inodes \in Nat /\ fs \in [Paths -> Inode]
  <2>1. current.path \in Paths /\ todo \in DOMAIN archive /\ todo \in Nat
    BY <1>1, CurrentType
  <2>. QED
    BY <2>1 DEF Typed, FilesTyped
<1>6. e \in Link
  <2>1. <<current.path>> \in Seq(Paths) \ {<<>>}
    BY <1>5
  <2> DEFINE symbolic == current.type = "symlink"
  <2>2. symbolic \in BOOLEAN
    OBVIOUS
  <2> HIDE DEF symbolic
  <2>3. [ino |-> inodes + 1, is_symlink |-> symbolic,
         member |-> todo, sources |-> <<current.path>>] \in Link
    BY <1>5, <2>1, <2>2 DEF Link
  <2>. QED
    BY <2>3 DEF symbolic
<1>7. delayed_link \in Seq(Link) /\ Len(delayed_link) \in Nat
  BY LenProperties DEF Typed, LinksTyped
<1> DEFINE links == <<e>> \o delayed_link
<1>8. e.ino = inodes + 1
  OBVIOUS
<1> HIDE DEF e
<1>9. /\ links \in Seq(Link) /\ Len(links) = Len(delayed_link) + 1
      /\ links[1] = e /\ \A i \in 1 .. Len(delayed_link) : links[i + 1] = delayed_link[i]
  BY <1>6, <1>7, ConsType
<1>10. /\ inode \in Inode /\ inode.kind = "placeholder"
       /\ fs' = Put(current.path, inode)
  BY <1>1, <1>5 DEF Inode, Created
<1> HIDE DEF inode, links
<1>11. \A q \in Paths : fs'[q].ino = e.ino => fs'[q].kind # "dir"
  <2> SUFFICES ASSUME NEW q \in Paths, fs'[q].ino = e.ino PROVE fs'[q].kind # "dir"
    OBVIOUS
  <2>1. CASE q = current.path
    BY <1>5, <1>10, <2>1, PutType
  <2>2. CASE q # current.path
    <3>1. fs'[q].ino = fs[q].ino
      BY <1>5, <1>10, <2>2, PutType DEF SameBut
    <3>2. fs[q].ino \in Nat /\ fs[q].ino <= inodes
      BY <1>5 DEF Typed, FilesTyped, Inode
    <3>. QED
      BY <1>5, <1>8, <3>1, <3>2
  <2>. QED
    BY <2>1, <2>2
<1>12. \A i \in DOMAIN delayed_link :
         /\ delayed_link[i].ino <= inodes'
         /\ \A q \in Paths : fs'[q].ino = delayed_link[i].ino => fs'[q].kind # "dir"
  <2>1. inodes' \in Nat /\ inodes <= inodes' /\ inode.kind # "dir"
    BY <1>1, <1>5, <1>10
  <2>. QED
    BY <2>1, <1>5, <1>10, PutOldLinks
<1>13. ASSUME NEW i \in DOMAIN links
       PROVE  /\ links[i].ino <= inodes'
              /\ \A q \in Paths : fs'[q].ino = links[i].ino => fs'[q].kind # "dir"
  <2>1. i \in 1 .. Len(delayed_link) + 1
    BY <1>9, LenProperties
  <2>2. CASE i = 1
    <3>1. e.ino <= inodes' /\ links[i] = e
      BY <1>1, <1>5, <1>8, <1>9, <2>2
    <3>. QED
      BY <1>11, <3>1
  <2>3. CASE i # 1
    <3>1. i - 1 \in 1 .. Len(delayed_link) /\ (i - 1) + 1 = i
      BY <1>7, <2>1, <2>3
    <3>2. links[i] = delayed_link[i - 1] /\ i - 1 \in DOMAIN delayed_link
      BY <1>7, <1>9, <3>1, LenProperties
    <3>. QED
      BY <1>12, <3>2
  <2>. QED
    BY <2>2, <2>3
<1>14. delayed_link' = links
  BY <1>1 DEF links
<1>15. LinksTyped'
  BY <1>3, <1>9, <1>13, <1>14 DEF LinksTyped, NoDirectory
<1>. QED
  BY <1>2, <1>4, <1>15 DEF DiskTyped

(* A new source changes neither the length of the list nor its inodes.     *)
LEMMA WithSourceType ==
  ASSUME Typed, pc = "create", NEW ino
  PROVE  /\ WithSource(ino) \in Seq(Link)
         /\ DOMAIN WithSource(ino) = DOMAIN delayed_link
         /\ \A i \in DOMAIN delayed_link : WithSource(ino)[i].ino = delayed_link[i].ino
<1> DEFINE more(i) == [delayed_link[i] EXCEPT !.sources = <<current.path>> \o @]
           next(i) ==
             IF delayed_link[i].ino = ino /\ \A j \in 1 .. i - 1 : delayed_link[j].ino # ino
             THEN more(i)
             ELSE delayed_link[i]
<1>1. WithSource(ino) = [i \in DOMAIN delayed_link |-> next(i)]
  BY DEF WithSource
<1>2. current.path \in Paths /\ delayed_link \in Seq(Link)
  BY CurrentType DEF Typed, LinksTyped
<1>3. ASSUME NEW i \in DOMAIN delayed_link
      PROVE  next(i) \in Link /\ next(i).ino = delayed_link[i].ino
  <2>1. delayed_link[i] \in Link
    BY <1>2, <1>3, LenProperties, ElementOfSeq
  <2> DEFINE s == delayed_link[i].sources
  <2>2. s \in Seq(Paths)
    BY <2>1 DEF Link
  <2>3. <<current.path>> \o s \in Seq(Paths) /\ Len(<<current.path>> \o s) = Len(s) + 1
    BY <1>2, <2>2, ConsType
  <2>4. <<current.path>> \o s # <<>>
    BY <2>2, <2>3, LenProperties, EmptySeq
  <2>5. more(i) \in Link /\ more(i).ino = delayed_link[i].ino
    BY <2>1, <2>3, <2>4 DEF Link
  <2>. QED
    BY <2>1, <2>5
<1> HIDE DEF next
<1>4. WithSource(ino) \in [DOMAIN delayed_link -> Link]
  BY <1>1, <1>3
<1>5. WithSource(ino) \in Seq(Link) /\ DOMAIN WithSource(ino) = DOMAIN delayed_link
  BY <1>2, <1>4, SameLength
<1>6. \A i \in DOMAIN delayed_link : WithSource(ino)[i] = next(i)
  BY <1>1
<1>. QED
  BY <1>3, <1>5, <1>6

LEMMA MakeLinkStep ==
  ASSUME Typed, MakeLink
  PROVE  DiskTyped'
<1> DEFINE p == current.path
           inode == fs[current.target]
<1>1. /\ pc = "create" /\ IsLink /\ CreateErrno = "none"
      /\ fs' = Put(p, inode) /\ delayed_link' = WithSource(inode.ino)
      /\ UNCHANGED <<given, inodes, delayed_set_stat, valid_source>>
  BY DEF MakeLink
<1>2. p \in Paths /\ current.target \in Paths
  BY <1>1, CurrentType
<1>3. inode \in Inode /\ inode.ino <= inodes /\ inodes \in Nat
  BY <1>2 DEF Typed, FilesTyped
<1>4. Errno(p) = "none" /\ inode.kind # "dir"
  BY <1>1 DEF CreateErrno
<1> HIDE DEF p, inode
<1>5. fs[p].kind = "none" /\ \A q \in Ancestors[p] : fs[q].kind = "dir"
  BY <1>2, <1>4, ErrnoMeaning
<1>6. FilesTyped'
  BY <1>1, <1>2, <1>3, <1>5, PutFiles DEF Typed
<1>7. Stat' = Stat /\ Link' = Link
  BY <1>1, SameTypes DEF Typed
<1>8. \A i \in DOMAIN delayed_link :
        /\ delayed_link[i].ino <= inodes'
        /\ \A q \in Paths : fs'[q].ino = delayed_link[i].ino => fs'[q].kind # "dir"
  BY <1>1, <1>2, <1>3, <1>4, PutOldLinks
<1>9. /\ delayed_link' \in Seq(Link) /\ DOMAIN delayed_link' = DOMAIN delayed_link
      /\ \A i \in DOMAIN delayed_link : delayed_link'[i].ino = delayed_link[i].ino
  BY <1>1, WithSourceType
<1>10. LinksTyped'
  BY <1>7, <1>8, <1>9 DEF LinksTyped, NoDirectory
<1>11. SourceTyped'
  BY <1>1, NoSourceBefore DEF Typed
<1>12. delayed_set_stat' \in Seq(Stat')
  BY <1>1, <1>7 DEF Typed
<1>. QED
  BY <1>6, <1>10, <1>11, <1>12 DEF DiskTyped

LEMMA EqualRanges ==
  ASSUME NEW m \in Nat, NEW n \in Nat, 1 .. m = 1 .. n
  PROVE  m = n
<1>1. m # 0 => m \in 1 .. n
  OBVIOUS
<1>2. n # 0 => n \in 1 .. m
  OBVIOUS
<1>. QED
  BY <1>1, <1>2

(* The entries of the parents that make_directories makes.                 *)
InterDirs ==
  [k \in 1 .. Len(current.path) - First |->
     Delay(Prefix(current.path, Len(current.path) - k), FALSE, "INTERDIR")]

LEMMA InterDirsType ==
  ASSUME Typed, pc = "create", MakesDirs
  PROVE  /\ InterDirs \in Seq(Stat) /\ Len(InterDirs) = Len(current.path) - First
         /\ \A k \in 1 .. Len(current.path) - First :
              /\ InterDirs[k].path = Prefix(current.path, Len(current.path) - k)
              /\ InterDirs[k].after_links = FALSE
<1> DEFINE p == current.path
           made == Len(p) - First
           entry(k) == Delay(Prefix(p, Len(p) - k), FALSE, "INTERDIR")
<1>1. p \in Names /\ p \in Paths /\ todo \in DOMAIN archive
  BY CurrentType
<1>2. Len(p) \in Nat /\ First \in 1 .. Len(p) - 1
  BY <1>1, PathType, FirstMissing
<1> HIDE DEF p
<1>3. made \in Nat
  BY <1>2
<1>4. ASSUME NEW k \in 1 .. made
      PROVE  /\ entry(k) \in Stat /\ entry(k).path = Prefix(p, Len(p) - k)
             /\ entry(k).after_links = FALSE
  <2>1. Len(p) - k \in 1 .. Len(p)
    BY <1>2, <1>4
  <2>2. Prefix(p, Len(p) - k) \in Names
    BY <1>1, <2>1, PrefixNamed
  <2>. QED
    BY <1>1, <2>2, DelayType
<1>5. InterDirs = [k \in 1 .. made |-> entry(k)]
  BY DEF InterDirs, p
<1> HIDE DEF entry, made
<1>6. InterDirs \in [1 .. made -> Stat]
  BY <1>4, <1>5
<1>7. InterDirs \in Seq(Stat)
  BY <1>3, <1>6, SeqDef
<1>8. Len(InterDirs) = made
  <2>1. Len(InterDirs) \in Nat /\ DOMAIN InterDirs = 1 .. Len(InterDirs)
    BY <1>7, LenProperties
  <2>2. 1 .. Len(InterDirs) = 1 .. made
    BY <1>6, <2>1
  <2>. QED
    BY <1>3, <2>1, <2>2, EqualRanges
<1>9. \A k \in 1 .. made :
        InterDirs[k].path = Prefix(p, Len(p) - k) /\ InterDirs[k].after_links = FALSE
  BY <1>4, <1>5
<1>. QED
  BY <1>7, <1>8, <1>9 DEF p, made

LEMMA MakeDirectoriesStep ==
  ASSUME Typed, MakeDirectories
  PROVE  DiskTyped'
<1> DEFINE p == current.path
           new(q) == [kind |-> "dir", ino |-> inodes + 1 + (Len(q) - First),
                      from |-> 0, writable |-> TRUE, mtime |-> 0]
<1>1. /\ pc = "create" /\ MakesDirs
      /\ fs' = [q \in Paths |->
                  IF q \in Missing THEN new(q)
                  ELSE IF q = Prefix(p, First - 1) THEN [fs[q] EXCEPT !.mtime = 0]
                  ELSE fs[q]]
      /\ delayed_set_stat' = InterDirs \o delayed_set_stat
      /\ inodes' = inodes + (Len(p) - First)
      /\ UNCHANGED <<given, delayed_link, valid_source>>
  BY DEF MakeDirectories, Failing, InterDirs
<1>2. p \in Paths /\ Len(p) \in Nat
  BY <1>1, CurrentType, PathType
<1>3. First \in 1 .. Len(p) - 1
  BY <1>1, FirstMissing
<1>4. inodes \in Nat /\ fs \in [Paths -> Inode] /\ Closed(fs)
  BY DEF Typed, FilesTyped
<1>5. inodes' \in Nat /\ inodes < inodes'
  BY <1>1, <1>2, <1>3, <1>4
(* An ancestor of p is a directory and above First, or is missing.         *)
<1>6. ASSUME NEW q \in Ancestors[p]
      PROVE  /\ q \in Paths /\ Len(q) \in Nat
             /\ \/ fs[q].kind = "dir" /\ q \notin Missing
                \/ q \in Missing /\ First <= Len(q) /\ Len(q) < Len(p)
  <2>1. q \in Paths /\ Len(q) \in 1 .. Len(p) - 1 /\ Prefix(p, Len(q)) = q
    BY <1>2, AncestorType
  <2>2. CASE Len(q) < First
    <3>1. fs[q].kind = "dir"
      BY <1>1, <1>2, <1>3, <2>1, <2>2, FirstMissing
    <3>. QED
      BY <1>2, <2>1, <3>1 DEF Missing, Exists
  <2>3. CASE First <= Len(q)
    <3>1. fs[q].kind = "none"
      BY <1>1, <1>2, <1>3, <2>1, <2>3, FirstMissing
    <3>. QED
      BY <1>2, <2>1, <2>3, <3>1 DEF Missing, Exists
  <2>. QED
    BY <1>2, <1>3, <2>1, <2>2, <2>3
<1>7. ASSUME NEW q \in Missing
      PROVE  /\ q \in Ancestors[p] /\ q \in Paths /\ fs[q].kind = "none"
             /\ new(q) \in Inode /\ new(q).kind = "dir"
             /\ inodes < new(q).ino /\ new(q).ino <= inodes'
  <2>1. q \in Ancestors[p] /\ fs[q].kind = "none"
    BY DEF Missing, Exists
  <2>2. q \in Paths /\ Len(q) \in Nat /\ First <= Len(q) /\ Len(q) < Len(p)
    BY <1>6, <2>1
  <2>3. inodes + 1 + (Len(q) - First) \in Nat
    BY <1>3, <1>4, <2>2
  <2>4. new(q) \in Inode /\ new(q).kind = "dir"
    BY <2>3 DEF Inode
  <2>5. inodes < new(q).ino /\ new(q).ino <= inodes'
    BY <1>1, <1>2, <1>3, <1>4, <2>2
  <2>. QED
    BY <2>1, <2>2, <2>4, <2>5
<1>8. ASSUME NEW q \in Paths
      PROVE  /\ fs'[q] \in Inode
             /\ IF q \in Missing THEN fs'[q] = new(q)
                ELSE fs'[q].kind = fs[q].kind /\ fs'[q].ino = fs[q].ino
  <2>1. CASE q \in Missing
    BY <1>1, <1>7, <2>1
  <2>2. CASE q \notin Missing
    <3>1. fs[q] \in Inode
      BY <1>4
    <3>2. fs'[q] = fs[q] \/ fs'[q] = [fs[q] EXCEPT !.mtime = 0]
      BY <1>1, <2>2
    <3>. QED
      BY <2>2, <3>1, <3>2 DEF Inode
  <2>. QED
    BY <2>1, <2>2
<1>9. fs' \in [Paths -> Inode]
  BY <1>1, <1>8
<1>10. Closed(fs')
  <2> SUFFICES ASSUME NEW q \in Paths, fs'[q].kind # "none", NEW r \in Ancestors[q]
               PROVE  fs'[r].kind = "dir"
    BY DEF Closed
  <2>1. r \in Paths
    BY AncestorType
  <2>2. CASE q \in Missing
    <3>1. r \in Ancestors[p]
      BY <1>2, <1>7, <2>2, AncestorTransitive
    <3>2. fs[r].kind = "dir" \/ r \in Missing
      BY <1>6, <3>1
    <3>. QED
      BY <1>7, <1>8, <2>1, <3>2
  <2>3. CASE q \notin Missing
    <3>1. fs[r].kind = "dir"
      BY <1>4, <1>8, <2>3 DEF Closed
    <3>. QED
      BY <1>7, <1>8, <2>1, <3>1
  <2>. QED
    BY <2>2, <2>3
<1> HIDE DEF new
<1>11. \A q \in Paths : fs'[q].ino <= inodes'
  <2> SUFFICES ASSUME NEW q \in Paths PROVE fs'[q].ino <= inodes'
    OBVIOUS
  <2>1. fs[q].ino \in Nat /\ fs[q].ino <= inodes
    BY DEF Typed, FilesTyped, Inode
  <2>2. CASE q \in Missing
    BY <1>7, <1>8, <2>2
  <2>3. CASE q \notin Missing
    BY <1>4, <1>5, <1>8, <2>1, <2>3
  <2>. QED
    BY <2>2, <2>3
<1>12. FilesTyped'
  BY <1>5, <1>9, <1>10, <1>11 DEF FilesTyped
<1>13. Stat' = Stat /\ Link' = Link
  BY <1>1, SameTypes DEF Typed
<1>14. LinksTyped'
  <2> SUFFICES ASSUME NEW i \in DOMAIN delayed_link
               PROVE  /\ delayed_link[i].ino <= inodes'
                      /\ \A q \in Paths : fs'[q].ino = delayed_link[i].ino
                                            => fs'[q].kind # "dir"
    BY <1>1, <1>13 DEF Typed, LinksTyped, NoDirectory
  <2>1. delayed_link[i] \in Link
    BY LenProperties, ElementOfSeq DEF Typed, LinksTyped
  <2>2. /\ delayed_link[i].ino \in Nat /\ delayed_link[i].ino <= inodes
        /\ \A q \in Paths : fs[q].ino = delayed_link[i].ino => fs[q].kind # "dir"
    BY <2>1 DEF Typed, LinksTyped, NoDirectory, Link
  <2>3. ASSUME NEW q \in Paths, fs'[q].ino = delayed_link[i].ino
        PROVE  fs'[q].kind # "dir"
    <3>1. q \notin Missing
      BY <1>4, <1>7, <1>8, <2>2, <2>3
    <3>. QED
      BY <1>8, <2>2, <2>3, <3>1
  <2>. QED
    BY <1>4, <1>5, <2>2, <2>3
<1>15. SourceTyped'
  BY <1>1, NoSourceBefore DEF Typed
<1>16. delayed_set_stat' \in Seq(Stat')
  BY <1>1, <1>13, InterDirsType, ConcatProperties DEF Typed
<1>. QED
  BY <1>12, <1>14, <1>15, <1>16 DEF DiskTyped

(* The links that are left keep their inodes, and none is without source.  *)
LEMMA NextSourceType ==
  ASSUME Typed, delayed_link # <<>>, NextSource
  PROVE  /\ delayed_link' \in Seq(Link)
         /\ \A i \in DOMAIN delayed_link' :
              \E j \in DOMAIN delayed_link : delayed_link'[i].ino = delayed_link[j].ino
<1> DEFINE ds == delayed_link[1]
           less == [ds EXCEPT !.sources = Tail(@)]
<1>1. delayed_link \in Seq(Link)
  BY DEF Typed, LinksTyped
<1>2. /\ Len(delayed_link) \in Nat /\ Len(delayed_link) > 0
      /\ DOMAIN delayed_link = 1 .. Len(delayed_link)
  BY <1>1, EmptySeq, LenProperties
<1>3. ds \in Link
  BY <1>1, <1>2, ElementOfSeq
<1>4. CASE Len(ds.sources) > 1
  <2>1. ds.sources \in Seq(Paths) /\ ds.sources # <<>>
    BY <1>3 DEF Link
  <2>2. Tail(ds.sources) \in Seq(Paths) /\ Len(Tail(ds.sources)) = Len(ds.sources) - 1
    BY <2>1, HeadTailProperties
  <2>3. Tail(ds.sources) # <<>>
    <3>1. Len(ds.sources) \in Nat
      BY <2>1, LenProperties
    <3> DEFINE n == Len(ds.sources)
               t == Tail(ds.sources)
    <3>2. n > 1 /\ n \in Nat /\ Len(t) = n - 1
      BY <1>4, <2>2, <3>1
    <3> HIDE DEF n, t
    <3>3. Len(t) # 0
      BY <3>2
    <3>4. t # <<>>
      BY <3>3
    <3>. QED
      BY <3>4 DEF t
  <2>4. less \in Link /\ less.ino = ds.ino
    BY <1>3, <2>2, <2>3 DEF Link
  <2>5. delayed_link' = [delayed_link EXCEPT ![1] = less]
    BY <1>4 DEF NextSource
  <2> HIDE DEF less, ds
  <2>6. delayed_link' \in [DOMAIN delayed_link -> Link]
    <3>1. delayed_link \in [DOMAIN delayed_link -> Link]
      BY <1>1, <1>2
    <3>. QED
      BY <2>4, <2>5, <3>1
  <2>7. delayed_link' \in Seq(Link) /\ DOMAIN delayed_link' = DOMAIN delayed_link
    BY <1>1, <2>6, SameLength
  <2>8. \A i \in DOMAIN delayed_link : delayed_link'[i].ino = delayed_link[i].ino
    BY <1>2, <2>4, <2>5 DEF ds
  <2>. QED
    BY <2>7, <2>8
<1>5. CASE ~ (Len(ds.sources) > 1)
  <2>1. delayed_link' = Tail(delayed_link)
    BY <1>5 DEF NextSource
  <2>2. /\ delayed_link' \in Seq(Link) /\ Len(delayed_link') = Len(delayed_link) - 1
        /\ \A i \in 1 .. Len(delayed_link') : delayed_link'[i] = delayed_link[i + 1]
    BY <1>1, <2>1, HeadTailProperties
  <2>3. ASSUME NEW i \in DOMAIN delayed_link'
        PROVE  i + 1 \in DOMAIN delayed_link /\ delayed_link'[i] = delayed_link[i + 1]
    <3>1. i \in 1 .. Len(delayed_link')
      BY <2>2, LenProperties
    <3>. QED
      BY <1>2, <2>2, <3>1
  <2>. QED
    BY <2>2, <2>3
<1>. QED
  BY <1>4, <1>5

(* What stands for a delayed link after it was made.                       *)
NewLink(ds, fails) ==
  IF ds.is_symlink /\ valid_source # Root THEN fs[valid_source]
  ELSE IF ds.is_symlink
       THEN [kind |-> "symlink", ino |-> inodes + 1, from |-> ds.member,
             writable |-> TRUE, mtime |-> 0]
  ELSE IF fails THEN None
  ELSE fs[archive[ds.member].target]

LEMMA NewLinkType ==
  ASSUME Typed, NEW ds \in Link, NEW fails \in BOOLEAN,
         fs[archive[ds.member].target].kind = "dir" => ds.is_symlink \/ fails
  PROVE  /\ NewLink(ds, fails) \in Inode /\ NewLink(ds, fails).kind # "dir"
         /\ NewLink(ds, fails).ino <= inodes + 1
         /\ NewLink(ds, fails).ino = inodes + 1 =>
              NewLink(ds, fails) = [kind |-> "symlink", ino |-> inodes + 1,
                                    from |-> ds.member, writable |-> TRUE, mtime |-> 0]
<1> DEFINE symlink == [kind |-> "symlink", ino |-> inodes + 1, from |-> ds.member,
                       writable |-> TRUE, mtime |-> 0]
           target == archive[ds.member].target
<1>1. /\ fs \in [Paths -> Inode] /\ inodes \in Nat
      /\ \A q \in Paths : fs[q].ino \in Nat /\ fs[q].ino <= inodes
  BY DEF Typed, FilesTyped, Inode
<1>2. ds.member \in Nat /\ target \in Paths
  <2>1. archive \in Seq(Member) /\ ds.member \in DOMAIN archive
    BY DEF Typed, GivenTyped, Link
  <2>2. ds.member \in Nat /\ archive[ds.member] \in Member
    BY <2>1, LenProperties, ElementOfSeq
  <2>. QED
    BY <2>2, NameType DEF Member
<1>3. symlink \in Inode /\ symlink.kind = "symlink" /\ symlink.ino = inodes + 1
  BY <1>1, <1>2 DEF Inode
<1>4. valid_source # Root => valid_source \in Paths /\ fs[valid_source].kind # "dir"
  BY DEF Typed, SourceTyped
<1> HIDE DEF symlink, target
<1>5. NewLink(ds, fails) = IF ds.is_symlink /\ valid_source # Root THEN fs[valid_source]
                           ELSE IF ds.is_symlink THEN symlink
                           ELSE IF fails THEN None
                           ELSE fs[target]
  BY DEF NewLink, symlink, target
<1>6. fs[target].kind = "dir" => ds.is_symlink \/ fails
  BY DEF target
<1>7. CASE NewLink(ds, fails) = symlink
  BY <1>1, <1>3, <1>7 DEF symlink
<1>8. CASE NewLink(ds, fails) = None
  BY <1>1, <1>8, NoneType
<1>9. ASSUME NEW q \in Paths, NewLink(ds, fails) = fs[q], fs[q].kind # "dir"
      PROVE  /\ NewLink(ds, fails) \in Inode /\ NewLink(ds, fails).kind # "dir"
             /\ NewLink(ds, fails).ino \in Nat /\ NewLink(ds, fails).ino <= inodes
  BY <1>1, <1>9
<1>10. CASE ds.is_symlink /\ valid_source # Root
  BY <1>1, <1>4, <1>5, <1>9, <1>10
<1>11. CASE ~ ds.is_symlink /\ ~ fails
  BY <1>1, <1>2, <1>5, <1>6, <1>9, <1>11
<1>. QED
  BY <1>5, <1>7, <1>8, <1>10, <1>11

LEMMA ApplyDelayedLinkStep ==
  ASSUME Typed, ApplyDelayedLink
  PROVE  DiskTyped'
<1> DEFINE ds == delayed_link[1]
           source == ds.sources[1]
           target == archive[ds.member].target
           unlinks == IsPlaceholder(source, ds) /\ Writable(Parent(source))
           fails == \/ IsPlaceholder(source, ds) /\ ~ unlinks
                    \/ /\ unlinks /\ ~ ds.is_symlink
                       /\ target = source \/ fs[target].kind \in {"none", "dir"}
           symlink == [kind |-> "symlink", ino |-> inodes + 1, from |-> ds.member,
                       writable |-> TRUE, mtime |-> 0]
           new == NewLink(ds, fails)
<1>1. /\ pc = "links" /\ delayed_link # <<>> /\ NextSource
      /\ fs' = IF unlinks THEN Put(source, new) ELSE fs
      /\ inodes' = IF unlinks /\ new = symlink THEN inodes + 1 ELSE inodes
      /\ \/ valid_source' = Root
         \/ unlinks /\ new = symlink /\ valid_source' = source
         \/ valid_source' = valid_source
      /\ UNCHANGED <<given, delayed_set_stat, pc>>
  BY DEF ApplyDelayedLink, NewLink
<1>2. ds \in Link /\ 1 \in DOMAIN delayed_link
  <2>1. delayed_link \in Seq(Link)
    BY DEF Typed, LinksTyped
  <2>2. Len(delayed_link) \in Nat /\ Len(delayed_link) > 0
    BY <1>1, <2>1, EmptySeq, LenProperties
  <2>. QED
    BY <2>1, <2>2, LenProperties, ElementOfSeq
<1>3. source \in Paths
  <2>1. ds.sources \in Seq(Paths) /\ ds.sources # <<>>
    BY <1>2 DEF Link
  <2>2. Len(ds.sources) \in Nat /\ Len(ds.sources) > 0
    BY <2>1, EmptySeq, LenProperties
  <2>. QED
    BY <2>1, <2>2, ElementOfSeq
<1>4. fails \in BOOLEAN
  OBVIOUS
<1>5. unlinks => /\ fs[source].kind \notin {"none", "dir"}
                 /\ ~ ds.is_symlink /\ ~ fails => fs[target].kind # "dir"
  BY <1>2, <1>3 DEF IsPlaceholder, Exists, Typed, LinksTyped, NoDirectory
<1>6. inodes \in Nat /\ Closed(fs) /\ fs \in [Paths -> Inode]
  BY DEF Typed, FilesTyped
<1> HIDE DEF fails, symlink
<1>7. unlinks => /\ new \in Inode /\ new.kind # "dir" /\ new.ino <= inodes + 1
                 /\ new.ino = inodes + 1 => new = symlink
  BY <1>2, <1>4, <1>5, NewLinkType DEF symlink
<1>8. inodes' \in Nat /\ inodes <= inodes'
  BY <1>1, <1>6
<1>9. unlinks => new.ino <= inodes'
  BY <1>1, <1>6, <1>7 DEF Inode
<1> HIDE DEF unlinks, source, target, new
<1>10. unlinks => /\ fs[source].kind = "dir" => IsEmpty(source)
                  /\ \A q \in Ancestors[source] : fs[q].kind = "dir"
  BY <1>3, <1>5, <1>6 DEF Closed
<1>11. Stat' = Stat /\ Link' = Link
  BY <1>1, SameTypes DEF Typed
<1>12. FilesTyped'
  <2>1. CASE unlinks
    BY <1>1, <1>3, <1>7, <1>8, <1>9, <1>10, <2>1, PutFiles DEF Typed
  <2>2. CASE ~ unlinks
    BY <1>1, <1>6, <2>2 DEF Typed, FilesTyped
  <2>. QED
    BY <2>1, <2>2
<1>13. \A i \in DOMAIN delayed_link :
         /\ delayed_link[i].ino <= inodes'
         /\ \A q \in Paths : fs'[q].ino = delayed_link[i].ino => fs'[q].kind # "dir"
  <2>1. CASE unlinks
    BY <1>1, <1>3, <1>7, <1>8, <2>1, PutOldLinks
  <2>2. CASE ~ unlinks
    BY <1>1, <2>2 DEF Typed, LinksTyped, NoDirectory
  <2>. QED
    BY <2>1, <2>2
<1>14. LinksTyped'
  BY <1>1, <1>11, <1>13, NextSourceType DEF LinksTyped, NoDirectory
<1>15. SourceTyped'
  <2>1. pc' = "links"
    BY <1>1
  <2>2. CASE valid_source' = Root
    BY <2>2 DEF SourceTyped
  <2>3. CASE unlinks /\ new = symlink /\ valid_source' = source
    <3>1. fs'[source] = new
      BY <1>1, <1>3, <1>6, <1>7, <2>3, PutType
    <3>. QED
      BY <1>3, <1>7, <2>1, <2>3, <3>1 DEF SourceTyped
  <2>4. CASE valid_source' = valid_source /\ valid_source # Root
    <3>1. valid_source \in Paths /\ fs[valid_source].kind # "dir"
      BY <2>4 DEF Typed, SourceTyped
    <3>2. unlinks => fs'[source] = new /\ SameBut(fs, fs', source)
      BY <1>1, <1>3, <1>6, <1>7, PutType
    <3>3. fs'[valid_source].kind # "dir"
      BY <1>1, <1>7, <3>1, <3>2 DEF SameBut
    <3>. QED
      BY <2>1, <2>4, <3>1, <3>3 DEF SourceTyped
  <2>. QED
    BY <1>1, <2>2, <2>3, <2>4
<1>16. delayed_set_stat' \in Seq(Stat')
  BY <1>1, <1>11 DEF Typed
<1>. QED
  BY <1>12, <1>14, <1>15, <1>16 DEF DiskTyped

------------------------------------------------------------------------------
LEMMA TypedStep ==
  ASSUME Typed, [Next]_vars
  PROVE  Typed'
<1>1. CASE Next
  <2>1. ControlTyped' /\ UNCHANGED given /\ FlagsTyped' /\ BackupTyped'
    BY <1>1, ControlStep, FlagsStep, BackupStep DEF Typed
  <2>2. GivenTyped'
    BY <2>1, SameTypes DEF Typed
  <2>3. DiskTyped'
    <3>1. CASE NextMember \/ UseLink \/ Fail \/ Finish \/ StartLinks \/ LinksDone \/ Done
      BY <3>1, QuietStep
    <3>2. CASE FixDirectory
      BY <3>2, FixDirectoryStep
    <3>3. CASE Prepare
      BY <3>3, PrepareStep
    <3>4. CASE MakeDir
      BY <3>4, MakeDirStep
    <3>5. CASE UseDir
      BY <3>5, UseDirStep
    <3>6. CASE MakeFile \/ MakeSymlink
      BY <3>6, MakeFileStep
    <3>7. CASE MakePlaceholder
      BY <3>7, MakePlaceholderStep
    <3>8. CASE MakeLink
      BY <3>8, MakeLinkStep
    <3>9. CASE RemoveOld
      BY <3>9, RemoveOldStep
    <3>10. CASE MakeDirectories
      BY <3>10, MakeDirectoriesStep
    <3>11. CASE ApplyDelayedLink
      BY <3>11, ApplyDelayedLinkStep
    <3>12. CASE MaybeBackupFile \/ UndoLastBackup
      BY <3>12, BackUpStep
    <3>. QED
      BY <1>1, <3>1, <3>2, <3>3, <3>4, <3>5, <3>6, <3>7, <3>8, <3>9, <3>10, <3>11, <3>12
         DEF Next, Extractor, ExtractFinish
  <2>. QED
    BY <2>1, <2>2, <2>3 DEF Typed, DiskTyped
<1>2. CASE UNCHANGED vars
  <2>1. UNCHANGED <<given, disk, delayed, control>>
    BY <1>2 DEF vars
  <2>2. UNCHANGED <<fs, inodes, delayed_set_stat, delayed_link, valid_source, backed_up,
                     options, archive>>
    BY <2>1 DEF given, disk, delayed
  <2>3. UNCHANGED <<todo, interdir_made, exit_status, pc>>
    BY <2>1 DEF control
  <2>4. Stat' = Stat /\ Link' = Link
    BY <2>1, SameTypes DEF Typed
  <2>5. FilesTyped' /\ LinksTyped' /\ SourceTyped'
    BY <2>2, <2>3, <2>4 DEF Typed, FilesTyped, LinksTyped, NoDirectory, SourceTyped
  <2>6. GivenTyped' /\ ControlTyped' /\ FlagsTyped' /\ BackupTyped'
    BY <2>2, <2>3 DEF Typed, GivenTyped, ControlTyped, FlagsTyped, BackupTyped
  <2>. QED
    BY <2>2, <2>4, <2>5, <2>6 DEF Typed
<1>. QED
  BY <1>1, <1>2

(* Whatever archive is extracted over whatever tree, the two lists and the *)
(* file system are of their types: every file lies in directories, and     *)
(* every entry is that of a member (extract.c).                            *)
THEOREM TypeCorrect == Spec => []TypeOK
<1>1. Init => Typed
  BY TypedInit
<1>2. Typed /\ [Next]_vars => Typed'
  BY TypedStep
<1>3. Typed => TypeOK
  BY TypedImpliesTypeOK
<1>. QED
  BY <1>1, <1>2, <1>3, PTL DEF Spec

------------------------------------------------------------------------------
(* The order of the list of directories.  The entries that do not wait for *)
(* links are nested; while members are extracted they name directories that*)
(* are there, and the member being created lies in the innermost of them.  *)

UnmarkedPaths(s) == {s[i].path : i \in {j \in DOMAIN s : ~ s[j].after_links}}

OrderedList(s) ==
  \A i, j \in DOMAIN s : i < j /\ ~ s[j].after_links =>
     ~ s[i].after_links /\ s[j].path \in Ancestors[s[i].path]

InOrder == OrderedList(delayed_set_stat)

UnmarkedExist ==
  pc \in {"next", "fix", "prepare", "create", "undo"} =>
    \A p \in UnmarkedPaths(delayed_set_stat) : fs[p].kind # "none"

AboveCurrent ==
  pc \in {"prepare", "create"} => UnmarkedPaths(delayed_set_stat) \subseteq Ancestors[current.path]

Ordered ==
  ~ options.delay_directory_restore => InOrder /\ UnmarkedExist /\ AboveCurrent

LEMMA UnmarkedType ==
  ASSUME NEW s \in Seq(Stat)
  PROVE  /\ UnmarkedPaths(s) \subseteq Names /\ UnmarkedPaths(s) \subseteq Paths
         /\ \A i \in DOMAIN s : s[i] \in Stat /\ i \in Nat /\ s[i].path \in Paths
<1>1. ASSUME NEW i \in DOMAIN s
      PROVE  s[i] \in Stat /\ i \in Nat /\ s[i].path \in Names
  <2>1. DOMAIN s = 1 .. Len(s) /\ Len(s) \in Nat
    BY LenProperties
  <2>2. s[i] \in Stat /\ i \in Nat
    BY <2>1, ElementOfSeq
  <2>. QED
    BY <2>2 DEF Stat
<1>. QED
  BY <1>1, NameType DEF UnmarkedPaths

(* Two lists in order, the first below all of the second.                  *)
LEMMA ConcatOrder ==
  ASSUME NEW s \in Seq(Stat), NEW t \in Seq(Stat), OrderedList(s), OrderedList(t),
         \A i \in DOMAIN s :
            ~ s[i].after_links /\ UnmarkedPaths(t) \subseteq Ancestors[s[i].path]
  PROVE  /\ OrderedList(s \o t)
         /\ UnmarkedPaths(s \o t) \subseteq UnmarkedPaths(s) \cup UnmarkedPaths(t)
<1> DEFINE c == s \o t
<1>1. /\ Len(s) \in Nat /\ DOMAIN s = 1 .. Len(s)
      /\ Len(t) \in Nat /\ DOMAIN t = 1 .. Len(t)
  BY LenProperties
<1>2. /\ c \in Seq(Stat) /\ Len(c) = Len(s) + Len(t)
      /\ \A i \in 1 .. Len(c) : c[i] = IF i <= Len(s) THEN s[i] ELSE t[i - Len(s)]
  BY ConcatProperties
<1> HIDE DEF c
<1>3. DOMAIN c = 1 .. Len(c)
  BY <1>2, LenProperties
<1>4. ASSUME NEW i \in DOMAIN c
      PROVE  \/ i <= Len(s) /\ i \in DOMAIN s /\ c[i] = s[i]
             \/ Len(s) < i /\ i - Len(s) \in DOMAIN t /\ c[i] = t[i - Len(s)]
  BY <1>1, <1>2, <1>3
<1>5. UnmarkedPaths(c) \subseteq UnmarkedPaths(s) \cup UnmarkedPaths(t)
  <2> SUFFICES ASSUME NEW i \in DOMAIN c, ~ c[i].after_links
               PROVE  c[i].path \in UnmarkedPaths(s) \cup UnmarkedPaths(t)
    BY DEF UnmarkedPaths
  <2>. QED
    BY <1>4 DEF UnmarkedPaths
<1>6. ASSUME NEW i \in DOMAIN c, NEW j \in DOMAIN c, i < j, ~ c[j].after_links
      PROVE  ~ c[i].after_links /\ c[j].path \in Ancestors[c[i].path]
  <2>1. i \in Nat /\ j \in Nat
    BY <1>1, <1>2, <1>3
  <2>2. CASE j <= Len(s)
    <3>1. j \in DOMAIN s /\ c[j] = s[j]
      BY <1>1, <1>4, <2>1, <2>2
    <3>2. i \in DOMAIN s /\ c[i] = s[i]
      BY <1>1, <1>4, <1>6, <2>1, <2>2
    <3>. QED
      BY <1>6, <3>1, <3>2 DEF OrderedList
  <2>3. CASE Len(s) < j /\ i <= Len(s)
    <3>1. j - Len(s) \in DOMAIN t /\ c[j] = t[j - Len(s)]
      BY <1>1, <1>4, <2>1, <2>3
    <3>2. i \in DOMAIN s /\ c[i] = s[i]
      BY <1>1, <1>4, <2>1, <2>3
    <3>3. c[j].path \in UnmarkedPaths(t)
      BY <1>6, <3>1 DEF UnmarkedPaths
    <3>. QED
      BY <3>2, <3>3
  <2>4. CASE Len(s) < i
    <3>1. i - Len(s) \in DOMAIN t /\ c[i] = t[i - Len(s)]
      BY <1>1, <1>4, <2>1, <2>4
    <3>2. j - Len(s) \in DOMAIN t /\ c[j] = t[j - Len(s)]
      BY <1>1, <1>4, <1>6, <2>1, <2>4
    <3>3. i - Len(s) < j - Len(s)
      BY <1>1, <1>6, <2>1
    <3>. QED
      BY <1>6, <3>1, <3>2, <3>3 DEF OrderedList
  <2>. QED
    BY <1>1, <2>1, <2>2, <2>3, <2>4
<1>7. OrderedList(c)
  BY <1>6 DEF OrderedList
<1>. QED
  BY <1>5, <1>7 DEF c

(* One more entry, below all that do not wait.                             *)
LEMMA ConsOrder ==
  ASSUME NEW s \in Seq(Stat), OrderedList(s), NEW e \in Stat, ~ e.after_links,
         UnmarkedPaths(s) \subseteq Ancestors[e.path]
  PROVE  /\ OrderedList(<<e>> \o s)
         /\ UnmarkedPaths(<<e>> \o s) \subseteq {e.path} \cup UnmarkedPaths(s)
<1>1. <<e>> \in Seq(Stat) /\ DOMAIN <<e>> = {1} /\ <<e>>[1] = e
  OBVIOUS
<1>2. OrderedList(<<e>>)
  BY <1>1 DEF OrderedList
<1>3. UnmarkedPaths(<<e>>) = {e.path}
  BY <1>1 DEF UnmarkedPaths
<1>4. \A i \in DOMAIN <<e>> :
        ~ <<e>>[i].after_links /\ UnmarkedPaths(s) \subseteq Ancestors[<<e>>[i].path]
  BY <1>1
<1>. QED
  BY <1>1, <1>2, <1>3, <1>4, ConcatOrder

(* Without its first entry the list is in order.                           *)
LEMMA TailOrder ==
  ASSUME NEW s \in Seq(Stat), s # <<>>, OrderedList(s)
  PROVE  OrderedList(Tail(s)) /\ UnmarkedPaths(Tail(s)) \subseteq UnmarkedPaths(s)
<1> DEFINE t == Tail(s)
<1>1. Len(s) \in Nat /\ DOMAIN s = 1 .. Len(s)
  BY LenProperties
<1>2. /\ t \in Seq(Stat) /\ Len(t) = Len(s) - 1
      /\ \A i \in 1 .. Len(t) : t[i] = s[i + 1]
  BY HeadTailProperties
<1> HIDE DEF t
<1>3. DOMAIN t = 1 .. Len(t)
  BY <1>2, LenProperties
<1>4. \A i \in DOMAIN t : i \in Nat /\ i + 1 \in DOMAIN s /\ t[i] = s[i + 1]
  BY <1>1, <1>2, <1>3
<1>5. OrderedList(t)
  BY <1>4 DEF OrderedList
<1>6. UnmarkedPaths(t) \subseteq UnmarkedPaths(s)
  BY <1>4 DEF UnmarkedPaths
<1>. QED
  BY <1>5, <1>6 DEF t

(* The order, step by step.                                                *)
OrderedParts == InOrder /\ UnmarkedExist /\ AboveCurrent

(* Steps that change neither list nor disk, or come after the last member. *)
LEMMA QuietOrder ==
  ASSUME Typed, OrderedParts,
         \/ NextMember \/ UseLink \/ Fail \/ Finish \/ StartLinks \/ LinksDone \/ Done
         \/ ApplyDelayedLink
  PROVE  OrderedParts'
<1>1. delayed_set_stat' = delayed_set_stat
  BY DEF NextMember, UseLink, Fail, Finish, StartLinks, LinksDone, Done,
         ApplyDelayedLink, delayed
<1>2. InOrder'
  BY <1>1 DEF OrderedParts, InOrder
<1>3. UnmarkedExist'
  <2>1. CASE pc' \in {"next", "fix", "prepare", "create", "undo"}
    <3>1. pc \in {"next", "create"} /\ UNCHANGED fs
      BY <2>1 DEF NextMember, UseLink, LinkIsThere, Fail, Failing, Finish, StartLinks,
                  LinksDone, Done, ApplyDelayedLink, disk
    <3>. QED
      BY <1>1, <3>1 DEF OrderedParts, UnmarkedExist
  <2>. QED
    BY <2>1 DEF UnmarkedExist
<1>4. pc' \notin {"prepare", "create"}
  <2>1. CASE NextMember \/ UseLink \/ Fail
    BY <2>1 DEF NextMember, UseLink, Fail, AfterFailure
  <2>2. CASE Finish \/ StartLinks \/ LinksDone \/ Done
    BY <2>2 DEF Finish, StartLinks, LinksDone, Done
  <2>3. CASE ApplyDelayedLink
    BY <2>3 DEF ApplyDelayedLink
  <2>. QED
    BY <2>1, <2>2, <2>3
<1>. QED
  BY <1>2, <1>3, <1>4 DEF OrderedParts, AboveCurrent

LEMMA FixDirectoryOrder ==
  ASSUME Typed, OrderedParts, FixDirectory
  PROVE  OrderedParts'
<1>1. /\ delayed_set_stat \in Seq(Stat) /\ delayed_set_stat # <<>>
      /\ delayed_set_stat' = Tail(delayed_set_stat)
      /\ pc' = pc /\ pc \in {"fix", "finish", "fixlast"}
      /\ fs' = fs \/ fs' = [fs EXCEPT ![Head1.path] = Restored(Head1)]
  BY DEF Typed, FixDirectory, MustFix
<1>2. Head1 \in Stat
  BY <1>1, HeadTailProperties DEF Head1
<1>3. \A q \in Paths : fs'[q].kind = fs[q].kind
  <2>1. Head1.path \in Paths /\ fs \in [Paths -> Inode]
    BY <1>2, NameType DEF Stat, Typed, FilesTyped
  <2>. QED
    BY <1>1, <1>2, <2>1, RestoredType
<1>4. /\ OrderedList(Tail(delayed_set_stat))
      /\ UnmarkedPaths(Tail(delayed_set_stat)) \subseteq UnmarkedPaths(delayed_set_stat)
  BY <1>1, TailOrder DEF OrderedParts, InOrder
<1>5. UnmarkedPaths(delayed_set_stat) \subseteq Paths
  BY <1>1, UnmarkedType
<1>6. UnmarkedExist'
  BY <1>1, <1>3, <1>4, <1>5 DEF OrderedParts, UnmarkedExist
<1>. QED
  BY <1>1, <1>4, <1>6 DEF OrderedParts, InOrder, AboveCurrent

(* The list is the same after a change at the current name.                *)
LEMMA PutOrder ==
  ASSUME Typed, OrderedParts, pc \in {"fix", "prepare", "create"}, NEW inode \in Inode,
         fs' = Put(current.path, inode),
         inode.kind # "none" \/ current.path \notin UnmarkedPaths(delayed_set_stat)
  PROVE  \A q \in UnmarkedPaths(delayed_set_stat) : fs'[q].kind # "none"
<1>1. current.path \in Paths /\ fs \in [Paths -> Inode]
  BY CurrentType DEF Typed, FilesTyped
<1>2. Put(current.path, inode)[current.path] = inode /\ SameBut(fs, fs', current.path)
  BY <1>1, PutType
<1>3. UnmarkedPaths(delayed_set_stat) \subseteq Paths
  BY UnmarkedType DEF Typed
<1>. QED
  BY <1>2, <1>3 DEF SameBut, OrderedParts, UnmarkedExist

(* After apply_nonancestor_delayed_set_stat the entries that do not wait   *)
(* are those of directories above the member.                              *)
LEMMA AboveAfterFix ==
  ASSUME Typed, OrderedParts, ~ options.delay_directory_restore,
         (pc = "fix" /\ ~ MustFix) \/ pc = "prepare"
  PROVE  UnmarkedPaths(delayed_set_stat) \subseteq Ancestors[current.path]
<1>1. CASE pc = "prepare"
  BY <1>1 DEF OrderedParts, AboveCurrent
<1>2. CASE pc = "fix" /\ ~ MustFix
  <2> SUFFICES ASSUME NEW j \in DOMAIN delayed_set_stat, ~ delayed_set_stat[j].after_links
               PROVE  delayed_set_stat[j].path \in Ancestors[current.path]
    BY DEF UnmarkedPaths
  <2>1. /\ delayed_set_stat \in Seq(Stat) /\ j \in 1 .. Len(delayed_set_stat)
        /\ Len(delayed_set_stat) \in Nat
        /\ DOMAIN delayed_set_stat = 1 .. Len(delayed_set_stat)
    BY LenProperties DEF Typed
  <2>2. 1 \in DOMAIN delayed_set_stat
    BY <2>1
  <2>3. delayed_set_stat # <<>>
    BY <2>1
  <2>4. ~ Head1.after_links /\ (j = 1 \/ delayed_set_stat[j].path \in Ancestors[Head1.path])
    BY <2>1, <2>2 DEF Head1, OrderedParts, InOrder, OrderedList
  <2>5. Keeps(Head1)
    BY <1>2, <2>3, <2>4 DEF MustFix
  <2>6. Head1.path \in Ancestors[current.path]
    BY <1>2, <2>5 DEF Keeps, IsAncestor, FileName
  <2>7. current.path \in Paths
    BY <1>2, CurrentType
  <2>. QED
    BY <2>4, <2>6, <2>7, AncestorTransitive DEF Head1
<1>. QED
  BY <1>1, <1>2

LEMMA PrepareOrder ==
  ASSUME Typed, OrderedParts, ~ options.delay_directory_restore, Prepare
  PROVE  OrderedParts'
<1>1. /\ (pc = "fix" /\ ~ MustFix) \/ pc = "prepare"
      /\ UNCHANGED <<given, inodes, delayed, todo>>
      /\ fs' = fs \/ fs' = Put(current.path, None)
  BY DEF Prepare
<1>2. current' = current /\ delayed_set_stat' = delayed_set_stat
  BY <1>1 DEF current, given, delayed
<1>3. current.path \in Paths
  BY <1>1, CurrentType
<1>4. UnmarkedPaths(delayed_set_stat) \subseteq Ancestors[current.path]
  BY <1>1, AboveAfterFix
<1>5. current.path \notin UnmarkedPaths(delayed_set_stat)
  BY <1>3, <1>4, AncestorType
<1>6. \A q \in UnmarkedPaths(delayed_set_stat) : fs'[q].kind # "none"
  <2>1. CASE fs' = fs
    BY <1>1, <2>1 DEF OrderedParts, UnmarkedExist
  <2>2. CASE fs' = Put(current.path, None)
    BY <1>1, <1>5, <2>2, NoneType, PutOrder
  <2>. QED
    BY <1>1, <2>1, <2>2
<1>7. InOrder' /\ UnmarkedExist' /\ AboveCurrent'
  BY <1>2, <1>4, <1>6 DEF OrderedParts, InOrder, UnmarkedExist, AboveCurrent
<1>. QED
  BY <1>7 DEF OrderedParts

(* A rename takes away one name only.                                      *)
LEMMA RenamedKinds ==
  ASSUME Typed, NEW p \in Paths, NEW q \in Paths, CanRename(p, q), NEW r \in Paths, r # p,
         fs[r].kind # "none"
  PROVE  Renamed(p, q)[r].kind # "none"
<1>1. fs \in [Paths -> Inode] /\ fs[p] \in Inode /\ fs[p].kind # "none"
  BY DEF Typed, FilesTyped, CanRename
<1> DEFINE g == Put(q, fs[p])
<1>2. g \in [Paths -> Inode] /\ g[q] = fs[p] /\ SameBut(fs, g, q)
  BY <1>1, PutType
<1>3. g[r].kind # "none"
  BY <1>1, <1>2 DEF SameBut
<1> HIDE DEF g
<1>4. [g EXCEPT ![p] = None][r] = g[r]
  BY <1>2
<1>. QED
  BY <1>3, <1>4 DEF Renamed, g

(* A backup is made of the member itself, which is no directory that is    *)
(* delayed; what is undone is the name of a backup.                        *)
LEMMA BackUpOrder ==
  ASSUME Typed, OrderedParts, ~ options.delay_directory_restore, MaybeBackupFile
  PROVE  OrderedParts'
<1>1. /\ pc = "fix" /\ ~ MustFix /\ UNCHANGED <<given, todo, delayed_set_stat>>
      /\ \/ fs' = fs
         \/ /\ CanRename(current.path, BackupName[current.path])
            /\ fs' = Renamed(current.path, BackupName[current.path])
  BY DEF MaybeBackupFile
<1>2. current' = current /\ delayed_set_stat' = delayed_set_stat
  BY <1>1 DEF current, given
<1>3. current.path \in Paths /\ BackupName[current.path] \in Paths
  BY <1>1, CurrentType, NameType
<1>4. UnmarkedPaths(delayed_set_stat) \subseteq Ancestors[current.path]
  BY <1>1, AboveAfterFix
<1>5. UnmarkedPaths(delayed_set_stat) \subseteq Paths \ {current.path}
  BY <1>3, <1>4, AncestorType
<1>6. \A q \in UnmarkedPaths(delayed_set_stat) : fs[q].kind # "none"
  BY <1>1 DEF OrderedParts, UnmarkedExist
<1>7. \A q \in UnmarkedPaths(delayed_set_stat) : fs'[q].kind # "none"
  BY <1>1, <1>3, <1>5, <1>6, RenamedKinds
<1>8. InOrder' /\ UnmarkedExist' /\ AboveCurrent'
  BY <1>2, <1>4, <1>7 DEF OrderedParts, InOrder, UnmarkedExist, AboveCurrent
<1>. QED
  BY <1>8 DEF OrderedParts

LEMMA UndoOrder ==
  ASSUME Typed, OrderedParts, UndoLastBackup
  PROVE  OrderedParts'
<1>1. /\ pc = "undo" /\ pc' = "next" /\ delayed_set_stat' = delayed_set_stat
      /\ \/ fs' = fs
         \/ /\ backed_up # Root /\ CanRename(BackupName[backed_up], backed_up)
            /\ fs' = Renamed(BackupName[backed_up], backed_up)
  BY DEF UndoLastBackup
<1>2. /\ UnmarkedPaths(delayed_set_stat) \subseteq Names
      /\ UnmarkedPaths(delayed_set_stat) \subseteq Paths
  BY UnmarkedType DEF Typed
<1>3. \A q \in UnmarkedPaths(delayed_set_stat) : fs[q].kind # "none"
  BY <1>1 DEF OrderedParts, UnmarkedExist
<1>4. \A q \in UnmarkedPaths(delayed_set_stat) : fs'[q].kind # "none"
  <2>1. CASE fs' = fs
    BY <1>3, <2>1
  <2>2. CASE /\ backed_up # Root /\ CanRename(BackupName[backed_up], backed_up)
             /\ fs' = Renamed(BackupName[backed_up], backed_up)
    <3>1. backed_up \in Names
      BY <2>2 DEF Typed, BackupTyped
    <3>2. backed_up \in Paths /\ BackupName[backed_up] \in Paths \ Names
      BY <3>1, NameType
    <3>. QED
      BY <1>2, <1>3, <2>2, <3>2, RenamedKinds
  <2>. QED
    BY <1>1, <2>1, <2>2
<1>5. InOrder' /\ UnmarkedExist' /\ AboveCurrent'
  BY <1>1, <1>4 DEF OrderedParts, InOrder, UnmarkedExist, AboveCurrent
<1>. QED
  BY <1>5 DEF OrderedParts

LEMMA RemoveOldOrder ==
  ASSUME Typed, OrderedParts, RemoveOld
  PROVE  OrderedParts'
<1>1. /\ pc = "create" /\ pc' = pc /\ todo' = todo /\ UNCHANGED given
      /\ fs' = Put(current.path, None) /\ delayed_set_stat' = delayed_set_stat
  BY DEF RemoveOld, Failing, control, delayed
<1>2. current' = current
  BY <1>1 DEF current, given
<1>3. current.path \in Paths
  BY <1>1, CurrentType
<1>4. current.path \notin UnmarkedPaths(delayed_set_stat)
  BY <1>1, <1>3, AncestorType DEF OrderedParts, AboveCurrent
<1>5. \A q \in UnmarkedPaths(delayed_set_stat) : fs'[q].kind # "none"
  BY <1>1, <1>4, NoneType, PutOrder
<1>6. InOrder' /\ UnmarkedExist' /\ AboveCurrent'
  BY <1>1, <1>2, <1>5 DEF OrderedParts, InOrder, UnmarkedExist, AboveCurrent
<1>. QED
  BY <1>6 DEF OrderedParts

(* Files and links that are made leave the list as it is.                  *)
LEMMA MakeOrder ==
  ASSUME Typed, OrderedParts, MakeFile \/ MakeSymlink \/ MakeLink
  PROVE  OrderedParts'
<1>1. pc = "create" /\ pc' = "next" /\ delayed_set_stat' = delayed_set_stat
  BY DEF MakeFile, MakeSymlink, MakeLink, Creating, delayed
<1>2. /\ current.path \in Paths /\ current.target \in Paths /\ todo \in Nat
      /\ current.writable \in BOOLEAN /\ inodes \in Nat /\ fs \in [Paths -> Inode]
  BY <1>1, CurrentType DEF Typed, FilesTyped
<1>3. \E inode \in Inode : inode.kind # "none" /\ fs' = Put(current.path, inode)
  <2>1. CASE MakeFile
    <3> DEFINE inode == [kind |-> "file", ino |-> inodes + 1, from |-> todo,
                         writable |-> current.writable, mtime |-> todo]
    <3>1. inode \in Inode /\ inode.kind # "none"
      BY <1>2 DEF Inode
    <3>2. fs' = Put(current.path, inode)
      BY <2>1 DEF MakeFile, Created
    <3> HIDE DEF inode
    <3>. QED
      BY <3>1, <3>2
  <2>2. CASE MakeSymlink
    <3> DEFINE inode == [kind |-> "symlink", ino |-> inodes + 1, from |-> todo,
                         writable |-> TRUE, mtime |-> 0]
    <3>1. inode \in Inode /\ inode.kind # "none"
      BY <1>2 DEF Inode
    <3>2. fs' = Put(current.path, inode)
      BY <2>2 DEF MakeSymlink, Created
    <3> HIDE DEF inode
    <3>. QED
      BY <3>1, <3>2
  <2>3. CASE MakeLink
    <3> DEFINE inode == fs[current.target]
    <3>1. inode \in Inode /\ fs' = Put(current.path, inode)
      BY <1>2, <2>3 DEF MakeLink
    <3>2. inode.kind # "none"
      BY <2>3 DEF MakeLink, CreateErrno, Exists
    <3> HIDE DEF inode
    <3>. QED
      BY <3>1, <3>2
  <2>. QED
    BY <2>1, <2>2, <2>3
<1>4. \A q \in UnmarkedPaths(delayed_set_stat) : fs'[q].kind # "none"
  BY <1>1, <1>3, PutOrder
<1>5. InOrder' /\ UnmarkedExist' /\ AboveCurrent'
  BY <1>1, <1>4 DEF OrderedParts, InOrder, UnmarkedExist, AboveCurrent
<1>. QED
  BY <1>5 DEF OrderedParts

(* A directory that is extracted comes in front of those it lies in.       *)
LEMMA DirOrder ==
  ASSUME Typed, OrderedParts, MakeDir \/ UseDir
  PROVE  OrderedParts'
<1>1. /\ pc = "create" /\ pc' \in {"next", "undo"} /\ todo \in DOMAIN archive
      /\ current.path \in Names /\ current.path \in Paths
      /\ current.writable \in BOOLEAN /\ todo \in Nat
  <2>1. pc = "create" /\ pc' \in {"next", "undo"}
    BY DEF MakeDir, UseDir, UsesOld, Creating, AfterFailure
  <2>. QED
    BY <2>1, CurrentType
<1>2. PICK e \in Stat : /\ e.path = current.path /\ e.after_links = FALSE
                        /\ delayed_set_stat' = <<e>> \o delayed_set_stat
  <2>1. CASE MakeDir
    <3> DEFINE e == Delay(current.path, ~ current.writable, "ARCHIVED")
    <3>1. e \in Stat /\ e.path = current.path /\ e.after_links = FALSE
      BY <1>1, DelayType
    <3>2. delayed_set_stat' = <<e>> \o delayed_set_stat
      BY <2>1 DEF MakeDir
    <3> HIDE DEF e
    <3>. QED
      BY <3>1, <3>2
  <2>2. CASE UseDir
    <3> DEFINE e == Delay(current.path, FALSE, "UNKNOWN")
    <3>1. e \in Stat /\ e.path = current.path /\ e.after_links = FALSE
      BY <1>1, DelayType
    <3>2. delayed_set_stat' = <<e>> \o delayed_set_stat
      BY <2>2 DEF UseDir
    <3> HIDE DEF e
    <3>. QED
      BY <3>1, <3>2
  <2>. QED
    BY <2>1, <2>2
<1>3. /\ OrderedList(delayed_set_stat')
      /\ UnmarkedPaths(delayed_set_stat') \subseteq
           {current.path} \cup UnmarkedPaths(delayed_set_stat)
  <2>1. UnmarkedPaths(delayed_set_stat) \subseteq Ancestors[e.path]
    BY <1>1, <1>2 DEF OrderedParts, AboveCurrent
  <2>2. delayed_set_stat \in Seq(Stat) /\ OrderedList(delayed_set_stat)
    BY DEF Typed, OrderedParts, InOrder
  <2>. QED
    BY <1>2, <2>1, <2>2, ConsOrder
<1>4. /\ fs'[current.path].kind # "none"
      /\ \A q \in UnmarkedPaths(delayed_set_stat) : fs'[q].kind # "none"
  <2>1. CASE MakeDir
    <3> DEFINE inode == [kind |-> "dir", ino |-> inodes + 1, from |-> todo,
                         writable |-> TRUE, mtime |-> 0]
    <3>1. inodes \in Nat /\ fs \in [Paths -> Inode]
      BY DEF Typed, FilesTyped
    <3>2. inode \in Inode /\ inode.kind # "none"
      BY <1>1, <3>1 DEF Inode
    <3>3. fs' = Put(current.path, inode)
      BY <2>1 DEF MakeDir, Created
    <3> HIDE DEF inode
    <3>4. fs'[current.path] = inode
      BY <1>1, <3>1, <3>2, <3>3, PutType
    <3>. QED
      BY <1>1, <3>2, <3>3, <3>4, PutOrder
  <2>2. CASE UseDir
    <3>1. fs' = fs /\ CreateErrno = "EEXIST"
      BY <2>2 DEF UseDir, UsesOld, disk
    <3>2. Errno(current.path) = "EEXIST"
      BY <3>1 DEF CreateErrno
    <3>. QED
      BY <1>1, <3>1, <3>2, ErrnoMeaning DEF OrderedParts, UnmarkedExist
  <2>. QED
    BY <2>1, <2>2
<1>5. InOrder' /\ UnmarkedExist' /\ AboveCurrent'
  BY <1>1, <1>3, <1>4 DEF InOrder, UnmarkedExist, AboveCurrent
<1>. QED
  BY <1>5 DEF OrderedParts

(* A placeholder makes all entries wait, or none.                          *)
LEMMA PlaceholderOrder ==
  ASSUME Typed, OrderedParts, MakePlaceholder
  PROVE  OrderedParts'
<1> DEFINE s == delayed_set_stat
           marked == Marked(current.path)
<1>1. pc = "create" /\ pc' = "next"
  BY DEF MakePlaceholder
<1>2. /\ DOMAIN s' = DOMAIN s
      /\ \A i \in DOMAIN s :
           /\ s'[i].path = s[i].path
           /\ s'[i].after_links = IF i \in marked THEN TRUE ELSE s[i].after_links
  BY MarkedType
<1>3. DOMAIN s = 1 .. Len(s) /\ Len(s) \in Nat
  BY LenProperties DEF Typed
<1>4. OrderedList(s)
  BY DEF OrderedParts, InOrder
<1>5. /\ OrderedList(s')
      /\ UnmarkedPaths(s') \subseteq UnmarkedPaths(s)
  <2>1. CASE marked = {}
    <3>1. \A i \in DOMAIN s : s'[i].path = s[i].path /\ s'[i].after_links = s[i].after_links
      BY <1>2, <2>1
    <3>. QED
      BY <1>2, <1>4, <3>1 DEF OrderedList, UnmarkedPaths
  <2>2. CASE marked # {}
    <3>1. marked = {i \in DOMAIN s : \A j \in 1 .. i : ~ s[j].after_links}
      BY <2>2 DEF Marked
    <3>2. ASSUME NEW i \in DOMAIN s, ~ s[i].after_links
          PROVE  i \in marked
      <4>1. i \in Nat /\ \A j \in 1 .. i : j \in DOMAIN s /\ (j < i \/ j = i)
        BY <1>3
      <4>2. \A j \in 1 .. i : ~ s[j].after_links
        BY <1>4, <3>2, <4>1 DEF OrderedList
      <4>. QED
        BY <3>1, <4>2
    <3>3. \A i \in DOMAIN s' : s'[i].after_links
      BY <1>2, <3>2
    <3>. QED
      BY <3>3 DEF OrderedList, UnmarkedPaths
  <2>. QED
    BY <2>1, <2>2
<1>6. \A q \in UnmarkedPaths(s) : fs'[q].kind # "none"
  <2> DEFINE inode == [kind |-> "placeholder", ino |-> inodes + 1, from |-> todo,
                       writable |-> FALSE, mtime |-> 0]
  <2>1. inodes \in Nat /\ todo \in Nat
    BY <1>1, CurrentType DEF Typed, FilesTyped
  <2>2. inode \in Inode /\ inode.kind # "none"
    BY <2>1 DEF Inode
  <2>3. fs' = Put(current.path, inode)
    BY DEF MakePlaceholder, Created
  <2> HIDE DEF inode
  <2>. QED
    BY <1>1, <2>2, <2>3, PutOrder
<1>7. InOrder' /\ UnmarkedExist' /\ AboveCurrent'
  BY <1>1, <1>5, <1>6 DEF InOrder, UnmarkedExist, AboveCurrent
<1>. QED
  BY <1>7 DEF OrderedParts

(* The parents that make_directories makes lie between the member and the  *)
(* directories that were there.                                            *)
LEMMA MakeDirectoriesOrder ==
  ASSUME Typed, OrderedParts, MakeDirectories
  PROVE  OrderedParts'
<1> DEFINE p == current.path
           made == Len(p) - First
           s == delayed_set_stat
<1>1. /\ pc = "create" /\ pc' = pc /\ MakesDirs /\ todo' = todo /\ UNCHANGED given
      /\ s' = InterDirs \o s
  BY DEF MakeDirectories, Failing, InterDirs
<1>2. \A q \in Paths : fs[q].kind # "none" \/ q \in Missing => fs'[q].kind # "none"
  <2> SUFFICES ASSUME NEW q \in Paths, fs[q].kind # "none" \/ q \in Missing
               PROVE  fs'[q].kind # "none"
    OBVIOUS
  <2>1. fs[q] \in Inode
    BY DEF Typed, FilesTyped
  <2>2. CASE q \in Missing
    BY <2>2 DEF MakeDirectories
  <2>3. CASE q \notin Missing
    <3>1. fs'[q] = fs[q] \/ fs'[q] = [fs[q] EXCEPT !.mtime = 0]
      BY <2>3 DEF MakeDirectories
    <3>. QED
      BY <2>1, <2>3, <3>1 DEF Inode
  <2>. QED
    BY <2>2, <2>3
<1>3. p \in Paths /\ Len(p) \in Nat /\ current' = current
  BY <1>1, CurrentType, PathType DEF current, given
<1>4. /\ First \in 1 .. Len(p) - 1
      /\ \A n \in First .. Len(p) - 1 : fs[Prefix(p, n)].kind = "none"
  BY <1>1, FirstMissing
<1>5. /\ InterDirs \in Seq(Stat) /\ Len(InterDirs) = made
      /\ \A k \in 1 .. made : /\ InterDirs[k].path = Prefix(p, Len(p) - k)
                              /\ InterDirs[k].after_links = FALSE
  BY <1>1, InterDirsType
<1>6. s \in Seq(Stat) /\ OrderedList(s) /\ UnmarkedPaths(s) \subseteq Ancestors[p]
  BY <1>1 DEF Typed, OrderedParts, InOrder, AboveCurrent
<1>7. \A q \in UnmarkedPaths(s) : fs[q].kind # "none"
  BY <1>1 DEF OrderedParts, UnmarkedExist
<1> HIDE DEF p
<1>8. made \in Nat /\ DOMAIN InterDirs = 1 .. made
  BY <1>3, <1>4, <1>5, LenProperties
<1>9. ASSUME NEW k \in 1 .. made
      PROVE  /\ Len(p) - k \in First .. Len(p) - 1
             /\ InterDirs[k].path \in Ancestors[p] /\ Len(InterDirs[k].path) = Len(p) - k
             /\ InterDirs[k].path \in Missing
  <2>1. Len(p) - k \in First .. Len(p) - 1 /\ Len(p) - k \in 1 .. Len(p) - 1
        /\ Len(p) - k \in 1 .. Len(p)
    BY <1>3, <1>4
  <2>2. Prefix(p, Len(p) - k) \in Ancestors[p] /\ Len(Prefix(p, Len(p) - k)) = Len(p) - k
    BY <1>3, <2>1, AncestorType, PrefixType
  <2>3. fs[Prefix(p, Len(p) - k)].kind = "none"
    BY <1>4, <2>1
  <2>4. Prefix(p, Len(p) - k) \in Missing
    BY <2>2, <2>3 DEF Missing, Exists, p
  <2>. QED
    BY <1>5, <2>1, <2>2, <2>4
<1> HIDE DEF made, s
<1>10. ASSUME NEW q \in UnmarkedPaths(s)
       PROVE  q \in Ancestors[p] /\ Len(q) \in Nat /\ Len(q) < First
  <2>1. q \in Ancestors[p]
    BY <1>6
  <2>2. Len(q) \in 1 .. Len(p) - 1 /\ Prefix(p, Len(q)) = q
    BY <1>3, <2>1, AncestorType
  <2>3. Len(q) \notin First .. Len(p) - 1
    BY <1>4, <1>7, <2>2
  <2>. QED
    BY <1>3, <1>4, <2>1, <2>2, <2>3
<1>11. OrderedList(InterDirs)
  <2> SUFFICES ASSUME NEW i \in 1 .. made, NEW j \in 1 .. made, i < j
               PROVE  InterDirs[j].path \in Ancestors[InterDirs[i].path]
    BY <1>5, <1>8 DEF OrderedList
  <2>1. Len(InterDirs[j].path) < Len(InterDirs[i].path)
    BY <1>3, <1>8, <1>9
  <2>. QED
    BY <1>3, <1>9, <2>1, AncestorsComparable
<1>12. ASSUME NEW i \in DOMAIN InterDirs
       PROVE  ~ InterDirs[i].after_links /\ UnmarkedPaths(s) \subseteq Ancestors[InterDirs[i].path]
  <2>1. i \in 1 .. made
    BY <1>8
  <2>2. First <= Len(InterDirs[i].path) /\ InterDirs[i].path \in Ancestors[p]
    BY <1>3, <1>4, <1>9, <2>1
  <2>3. ASSUME NEW q \in UnmarkedPaths(s)
        PROVE  q \in Ancestors[InterDirs[i].path]
    <3>1. Len(InterDirs[i].path) \in Nat
      BY <1>3, <1>4, <1>9, <2>1
    <3>2. Len(q) < Len(InterDirs[i].path)
      BY <1>4, <1>10, <2>2, <3>1
    <3>. QED
      BY <1>3, <1>10, <2>2, <3>2, AncestorsComparable
  <2>. QED
    BY <1>5, <2>1, <2>3
<1>13. /\ OrderedList(InterDirs \o s)
       /\ UnmarkedPaths(InterDirs \o s) \subseteq UnmarkedPaths(InterDirs) \cup UnmarkedPaths(s)
  BY <1>5, <1>6, <1>11, <1>12, ConcatOrder
<1>14. \A q \in UnmarkedPaths(InterDirs) : q \in Ancestors[p] /\ q \in Missing
  BY <1>8, <1>9 DEF UnmarkedPaths
<1>15. \A q \in UnmarkedPaths(InterDirs \o s) :
         q \in Ancestors[p] /\ fs'[q].kind # "none"
  <2>1. \A q \in Ancestors[p] : q \in Paths
    BY <1>3, AncestorType
  <2>. QED
    BY <1>2, <1>6, <1>7, <1>13, <1>14, <2>1
<1>16. InOrder' /\ UnmarkedExist' /\ AboveCurrent'
  <2>1. delayed_set_stat' = InterDirs \o s /\ current'.path = p
    BY <1>1, <1>3 DEF s, p
  <2>. QED
    BY <1>13, <1>15, <2>1 DEF InOrder, UnmarkedExist, AboveCurrent
<1>. QED
  BY <1>16 DEF OrderedParts

LEMMA OrderedInit == Init => Ordered
<1> SUFFICES ASSUME Init PROVE Ordered
  OBVIOUS
<1>1. delayed_set_stat = <<>> /\ DOMAIN delayed_set_stat = {} /\ pc = "next"
  <2>1. DOMAIN <<>> = {}
    OBVIOUS
  <2>. QED
    BY <2>1 DEF Init
<1>. QED
  BY <1>1 DEF Ordered, InOrder, OrderedList, UnmarkedExist, UnmarkedPaths, AboveCurrent

LEMMA OrderedStep ==
  ASSUME Typed, Ordered, [Next]_vars
  PROVE  Ordered'
<1>1. CASE Next
  <2>1. UNCHANGED given
    BY <1>1, ControlStep DEF Typed
  <2> SUFFICES ASSUME ~ options.delay_directory_restore
               PROVE  OrderedParts'
    BY <2>1 DEF given, Ordered, OrderedParts
  <2>2. OrderedParts
    BY DEF Ordered, OrderedParts
  <2>3. CASE \/ NextMember \/ UseLink \/ Fail \/ Finish \/ StartLinks \/ LinksDone
             \/ Done \/ ApplyDelayedLink
    BY <2>2, <2>3, QuietOrder
  <2>4. CASE FixDirectory
    BY <2>2, <2>4, FixDirectoryOrder
  <2>5. CASE Prepare
    BY <2>2, <2>5, PrepareOrder
  <2>6. CASE MakeDir \/ UseDir
    BY <2>2, <2>6, DirOrder
  <2>7. CASE MakeFile \/ MakeSymlink \/ MakeLink
    BY <2>2, <2>7, MakeOrder
  <2>8. CASE MakePlaceholder
    BY <2>2, <2>8, PlaceholderOrder
  <2>9. CASE RemoveOld
    BY <2>2, <2>9, RemoveOldOrder
  <2>10. CASE MakeDirectories
    BY <2>2, <2>10, MakeDirectoriesOrder
  <2>11. CASE MaybeBackupFile
    BY <2>2, <2>11, BackUpOrder
  <2>12. CASE UndoLastBackup
    BY <2>2, <2>12, UndoOrder
  <2>. QED
    BY <1>1, <2>3, <2>4, <2>5, <2>6, <2>7, <2>8, <2>9, <2>10, <2>11, <2>12
       DEF Next, Extractor, ExtractFinish
<1>2. CASE UNCHANGED vars
  <2>1. UNCHANGED <<given, disk, delayed, control>>
    BY <1>2 DEF vars
  <2>2. UNCHANGED <<options, archive, fs, delayed_set_stat, todo, pc>>
    BY <2>1 DEF given, disk, delayed, control
  <2>. QED
    BY <2>2 DEF Ordered, InOrder, UnmarkedExist, AboveCurrent, current
<1>. QED
  BY <1>1, <1>2

LEMMA OrderedImpliesDelayedOrder ==
  ASSUME Typed, Ordered
  PROVE  DelayedOrder
<1> SUFFICES ASSUME ~ options.delay_directory_restore,
                    NEW i \in 1 .. Len(delayed_set_stat) - 1,
                    ~ delayed_set_stat[i + 1].after_links
             PROVE  /\ ~ delayed_set_stat[i].after_links
                    /\ IsAncestor(delayed_set_stat[i + 1].path, delayed_set_stat[i].path)
  BY DEF DelayedOrder
<1>1. DOMAIN delayed_set_stat = 1 .. Len(delayed_set_stat) /\ Len(delayed_set_stat) \in Nat
  BY LenProperties DEF Typed
<1>2. i \in DOMAIN delayed_set_stat /\ i + 1 \in DOMAIN delayed_set_stat /\ i < i + 1
  BY <1>1
<1>3. /\ ~ delayed_set_stat[i].after_links
      /\ delayed_set_stat[i + 1].path \in Ancestors[delayed_set_stat[i].path]
  BY <1>2 DEF Ordered, InOrder, OrderedList
<1>4. delayed_set_stat[i].path \in Paths
  BY <1>2, UnmarkedType DEF Typed
<1>5. delayed_set_stat[i].path # Root
  BY <1>4, PathType
<1>. QED
  BY <1>3, <1>5 DEF IsAncestor

(* Without --delay-directory-restore the list of directories is always what*)
(* the comment on delayed_set_stat_head says it is (extract.c:48): the     *)
(* entries that wait for links are the last, and each of the others is an  *)
(* ancestor of the one in front of it.  apply_nonancestor_delayed_set_stat *)
(* stops at the first ancestor it meets because of this.                   *)
THEOREM ListInOrder == Spec => []DelayedOrder
<1>1. Init => Typed /\ Ordered
  BY TypedInit, OrderedInit
<1>2. Typed /\ Ordered /\ [Next]_vars => (Typed /\ Ordered)'
  BY TypedStep, OrderedStep
<1>3. Typed /\ Ordered => DelayedOrder
  BY OrderedImpliesDelayedOrder
<1>. QED
  BY <1>1, <1>2, <1>3, PTL DEF Spec

------------------------------------------------------------------------------
(* Files that were there before.  What a step leaves alone: every path but *)
(* those of S, except that the time of a directory changes with what is in *)
(* it.                                                                     *)

Frame(S) ==
  \A q \in Paths \ S :
    fs'[q] = IF fs[q].kind = "dir" THEN [fs[q] EXCEPT !.mtime = fs'[q].mtime] ELSE fs[q]

LEMMA FrameMeaning ==
  ASSUME Typed, NEW S, Frame(S), NEW q \in Paths, q \notin S
  PROVE  /\ fs'[q].kind = fs[q].kind /\ fs'[q].ino = fs[q].ino
         /\ fs'[q].writable = fs[q].writable
         /\ fs[q].kind # "dir" => fs'[q] = fs[q]
         /\ \A t : [fs'[q] EXCEPT !.mtime = t] = [fs[q] EXCEPT !.mtime = t]
<1>1. fs[q] \in Inode
  BY DEF Typed, FilesTyped
<1>2. fs'[q] = IF fs[q].kind = "dir" THEN [fs[q] EXCEPT !.mtime = fs'[q].mtime] ELSE fs[q]
  BY DEF Frame
<1>3. CASE fs[q].kind = "dir"
  <2> DEFINE m == fs'[q].mtime
  <2>1. fs'[q] = [fs[q] EXCEPT !.mtime = m]
    BY <1>2, <1>3
  <2> HIDE DEF m
  <2>. QED
    BY <1>1, <1>3, <2>1 DEF Inode
<1>4. CASE fs[q].kind # "dir"
  BY <1>2, <1>4
<1>. QED
  BY <1>3, <1>4

LEMMA SameFrame ==
  ASSUME Typed, fs' = fs
  PROVE  \A S : Frame(S)
<1> SUFFICES ASSUME NEW q \in Paths
             PROVE  fs'[q] = IF fs[q].kind = "dir" THEN [fs[q] EXCEPT !.mtime = fs'[q].mtime]
                             ELSE fs[q]
  BY DEF Frame
<1>1. fs[q] \in Inode
  BY DEF Typed, FilesTyped
<1>. QED
  BY <1>1 DEF Inode

(* The directory of a path is one of its ancestors, or the root.           *)
LEMMA ParentType ==
  ASSUME NEW p \in Paths
  PROVE  /\ Parent(p) \in Ancestors[p] \/ Parent(p) = Root
         /\ Parent(p) \in Paths => Parent(p) \in Ancestors[p]
<1>1. Len(p) \in Nat /\ Len(p) > 0
  BY PathType
<1>2. CASE Len(p) = 1
  <2>1. Parent(p) = <<>>
    <3>1. Parent(p) = SubSeq(p, 1, 0)
      BY <1>2 DEF Parent, Prefix
    <3>2. SubSeq(p, 1, 0) = <<>>
      BY SubSeqEmpty
    <3>. QED
      BY <3>1, <3>2
  <2>. QED
    BY <2>1, PathType DEF Root
<1>3. CASE Len(p) # 1
  <2>1. Len(p) - 1 \in 1 .. Len(p) - 1
    BY <1>1, <1>3
  <2>2. \A n \in 1 .. Len(p) - 1 : Prefix(p, n) \in Ancestors[p]
    BY AncestorType
  <2>3. Prefix(p, Len(p) - 1) \in Ancestors[p]
    BY <2>1, <2>2, Zenon
  <2>. QED
    BY <2>3 DEF Parent
<1>. QED
  BY <1>2, <1>3

(* Making or removing what lies in directories changes one path.           *)
LEMMA PutFrame ==
  ASSUME Typed, NEW p \in Paths, NEW inode \in Inode,
         \A q \in Ancestors[p] : fs[q].kind = "dir", fs' = Put(p, inode)
  PROVE  Frame({p}) /\ fs'[p] = inode
<1>1. fs \in [Paths -> Inode]
  BY DEF Typed, FilesTyped
<1>2. fs'[p] = inode
  BY <1>1, PutType
<1>3. ASSUME NEW q \in Paths, q # p
      PROVE  fs'[q] = IF fs[q].kind = "dir" THEN [fs[q] EXCEPT !.mtime = fs'[q].mtime]
                      ELSE fs[q]
  <2>1. fs'[q] = IF q = Parent(p) THEN [fs[q] EXCEPT !.mtime = 0] ELSE fs[q]
    BY <1>3 DEF Put
  <2>2. fs[q] \in Inode
    BY <1>1
  <2>3. CASE q = Parent(p)
    <3>1. fs[q].kind = "dir"
      BY <2>3, ParentType
    <3>2. fs'[q] = [fs[q] EXCEPT !.mtime = 0]
      BY <2>1, <2>3
    <3>3. fs'[q].mtime = 0
      BY <2>2, <3>2 DEF Inode
    <3>. QED
      BY <3>1, <3>2, <3>3
  <2>4. CASE q # Parent(p)
    BY <2>1, <2>2, <2>4 DEF Inode
  <2>. QED
    BY <2>3, <2>4
<1>. QED
  BY <1>2, <1>3 DEF Frame

(* What is there lies in directories, and so does what takes its place.    *)
LEMMA InDirectories ==
  ASSUME Typed, NEW p \in Paths, fs[p].kind # "none" \/ Errno(p) = "none"
  PROVE  \A q \in Ancestors[p] : fs[q].kind = "dir"
BY ErrnoMeaning DEF Typed, FilesTyped, Closed

(* A rename changes two, unless they are one file already.                 *)
LEMMA RenameFrame ==
  ASSUME Typed, NEW p \in Paths, NEW q \in Paths, p # q, Ancestors[q] = Ancestors[p],
         CanRename(p, q), fs' = Renamed(p, q)
  PROVE  /\ Frame({p, q})
         /\ \/ fs' = fs /\ fs[p].ino = fs[q].ino
            \/ fs'[p] = None /\ fs'[q] = fs[p]
<1>1. CASE fs[p].ino = fs[q].ino
  <2>1. fs' = fs
    BY <1>1 DEF Renamed
  <2>. QED
    BY <1>1, <2>1, SameFrame
<1>2. CASE fs[p].ino # fs[q].ino
  <2> DEFINE g == Put(q, fs[p])
  <2>1. fs' = [g EXCEPT ![p] = None]
    BY <1>2 DEF Renamed
  <2>2. fs \in [Paths -> Inode] /\ fs[p] \in Inode /\ fs[p].kind # "none"
    BY DEF Typed, FilesTyped, CanRename
  <2>3. \A r \in Ancestors[q] : fs[r].kind = "dir"
    BY <2>2, InDirectories
  <2>4. g \in [Paths -> Inode] /\ g[q] = fs[p]
    BY <2>2, PutType
  <2>5. ASSUME NEW r \in Paths \ {p, q}
        PROVE  fs'[r] = IF fs[r].kind = "dir" THEN [fs[r] EXCEPT !.mtime = fs'[r].mtime]
                        ELSE fs[r]
    <3>1. fs'[r] = g[r]
      BY <2>1, <2>4
    <3>2. g[r] = IF r = Parent(q) THEN [fs[r] EXCEPT !.mtime = 0] ELSE fs[r]
      BY DEF Put
    <3>3. r = Parent(q) => fs[r].kind = "dir"
      BY <2>3, ParentType
    <3>4. fs[r] \in Inode
      BY <2>2
    <3> HIDE DEF g
    <3>5. CASE r = Parent(q)
      <4>1. fs'[r] = [fs[r] EXCEPT !.mtime = 0]
        BY <3>1, <3>2, <3>5
      <4>2. fs'[r].mtime = 0
        BY <3>4, <4>1 DEF Inode
      <4>. QED
        BY <3>3, <3>5, <4>1, <4>2
    <3>6. CASE r # Parent(q)
      <4>1. fs'[r] = fs[r]
        BY <3>1, <3>2, <3>6
      <4>2. [fs[r] EXCEPT !.mtime = fs[r].mtime] = fs[r]
        BY <3>4 DEF Inode
      <4>. QED
        BY <4>1, <4>2
    <3>. QED
      BY <3>5, <3>6
  <2> HIDE DEF g
  <2>6. fs'[p] = None /\ fs'[q] = fs[p]
    BY <2>1, <2>4
  <2>. QED
    BY <2>5, <2>6 DEF Frame
<1>. QED
  BY <1>1, <1>2

------------------------------------------------------------------------------
(* The names of the entries of the two lists.                              *)

PathsOf(s) == {s[i].path : i \in DOMAIN s}
SourcesOf(l) == UNION {{l[i].sources[k] : k \in DOMAIN l[i].sources} : i \in DOMAIN l}

LEMMA ConcatPaths ==
  ASSUME NEW s \in Seq(Stat), NEW t \in Seq(Stat)
  PROVE  PathsOf(s \o t) \subseteq PathsOf(s) \cup PathsOf(t)
<1> DEFINE c == s \o t
<1>1. /\ Len(s) \in Nat /\ DOMAIN s = 1 .. Len(s)
      /\ Len(t) \in Nat /\ DOMAIN t = 1 .. Len(t)
  BY LenProperties
<1>2. /\ c \in Seq(Stat) /\ Len(c) = Len(s) + Len(t)
      /\ \A i \in 1 .. Len(c) : c[i] = IF i <= Len(s) THEN s[i] ELSE t[i - Len(s)]
  BY ConcatProperties
<1> HIDE DEF c
<1>3. DOMAIN c = 1 .. Len(c)
  BY <1>2, LenProperties
<1>4. ASSUME NEW i \in DOMAIN c
      PROVE  \/ i \in DOMAIN s /\ c[i] = s[i]
             \/ i - Len(s) \in DOMAIN t /\ c[i] = t[i - Len(s)]
  BY <1>1, <1>2, <1>3
<1>5. \A i \in DOMAIN c : c[i].path \in PathsOf(s) \cup PathsOf(t)
  BY <1>4 DEF PathsOf
<1>6. PathsOf(c) \subseteq PathsOf(s) \cup PathsOf(t)
  BY <1>5 DEF PathsOf
<1>. QED
  BY <1>6 DEF c

LEMMA ConsPaths ==
  ASSUME NEW s \in Seq(Stat), NEW e \in Stat
  PROVE  PathsOf(<<e>> \o s) \subseteq {e.path} \cup PathsOf(s)
<1>1. <<e>> \in Seq(Stat) /\ DOMAIN <<e>> = {1} /\ <<e>>[1] = e
  OBVIOUS
<1>2. PathsOf(<<e>>) = {e.path}
  BY <1>1 DEF PathsOf
<1>. QED
  BY <1>1, <1>2, ConcatPaths

LEMMA TailPaths ==
  ASSUME NEW s \in Seq(Stat), s # <<>>
  PROVE  PathsOf(Tail(s)) \subseteq PathsOf(s) /\ s[1].path \in PathsOf(s) /\ s[1] \in Stat
<1> DEFINE t == Tail(s)
<1>1. Len(s) \in Nat /\ DOMAIN s = 1 .. Len(s) /\ Len(s) > 0
  BY LenProperties, EmptySeq
<1>2. /\ t \in Seq(Stat) /\ Len(t) = Len(s) - 1
      /\ \A i \in 1 .. Len(t) : t[i] = s[i + 1]
  BY HeadTailProperties
<1> HIDE DEF t
<1>3. DOMAIN t = 1 .. Len(t)
  BY <1>2, LenProperties
<1>4. \A i \in DOMAIN t : i + 1 \in DOMAIN s /\ t[i] = s[i + 1]
  BY <1>1, <1>2, <1>3
<1>5. PathsOf(t) \subseteq PathsOf(s)
  BY <1>4 DEF PathsOf
<1>6. 1 \in DOMAIN s /\ s[1] \in Stat
  BY <1>1, ElementOfSeq
<1>7. s[1].path \in PathsOf(s)
  BY <1>6 DEF PathsOf
<1>. QED
  BY <1>5, <1>6, <1>7 DEF t
(* A source that is left was there before.                                 *)
LEMMA NextSources ==
  ASSUME Typed, delayed_link # <<>>, NextSource
  PROVE  /\ SourcesOf(delayed_link') \subseteq SourcesOf(delayed_link)
         /\ delayed_link[1].sources[1] \in SourcesOf(delayed_link)
<1> DEFINE ds == delayed_link[1]
           less == [ds EXCEPT !.sources = Tail(@)]
<1>1. delayed_link \in Seq(Link)
  BY DEF Typed, LinksTyped
<1>2. /\ Len(delayed_link) \in Nat /\ Len(delayed_link) > 0
      /\ DOMAIN delayed_link = 1 .. Len(delayed_link)
  BY <1>1, EmptySeq, LenProperties
<1>3. 1 \in DOMAIN delayed_link /\ ds \in Link
  BY <1>1, <1>2, ElementOfSeq
<1>4. ds.sources \in Seq(Paths) /\ ds.sources # <<>>
  BY <1>3 DEF Link
<1>5. /\ Len(ds.sources) \in Nat /\ Len(ds.sources) > 0
      /\ DOMAIN ds.sources = 1 .. Len(ds.sources)
  BY <1>4, EmptySeq, LenProperties
<1>6. ds.sources[1] \in SourcesOf(delayed_link)
  BY <1>3, <1>5 DEF SourcesOf
<1>7. CASE Len(ds.sources) > 1
  <2>1. /\ Tail(ds.sources) \in Seq(Paths) /\ Len(Tail(ds.sources)) = Len(ds.sources) - 1
        /\ \A k \in 1 .. Len(Tail(ds.sources)) : Tail(ds.sources)[k] = ds.sources[k + 1]
    BY <1>4, HeadTailProperties
  <2>2. DOMAIN Tail(ds.sources) = 1 .. Len(Tail(ds.sources))
    BY <2>1, LenProperties
  <2>3. \A k \in DOMAIN Tail(ds.sources) :
          k + 1 \in DOMAIN ds.sources /\ Tail(ds.sources)[k] = ds.sources[k + 1]
    BY <1>5, <2>1, <2>2
  <2>4. delayed_link' = [delayed_link EXCEPT ![1] = less] /\ less.sources = Tail(ds.sources)
    BY <1>3, <1>7 DEF NextSource, Link
  <2>5. /\ DOMAIN delayed_link' = DOMAIN delayed_link /\ delayed_link'[1] = less
        /\ \A i \in DOMAIN delayed_link : i # 1 => delayed_link'[i] = delayed_link[i]
    BY <1>1, <1>3, <2>4
  <2> HIDE DEF less
  <2>6. ASSUME NEW i \in DOMAIN delayed_link', NEW k \in DOMAIN delayed_link'[i].sources
        PROVE  delayed_link'[i].sources[k] \in SourcesOf(delayed_link)
    <3>1. CASE i = 1
      <4>1. k \in DOMAIN Tail(ds.sources) /\ delayed_link'[i].sources[k] = Tail(ds.sources)[k]
        BY <2>4, <2>5, <2>6, <3>1
      <4>2. k + 1 \in DOMAIN ds.sources /\ delayed_link'[i].sources[k] = ds.sources[k + 1]
        BY <2>3, <4>1
      <4>. QED
        BY <1>3, <4>2 DEF SourcesOf
    <3>2. CASE i # 1
      BY <2>5, <2>6, <3>2 DEF SourcesOf
    <3>. QED
      BY <3>1, <3>2
  <2>. QED
    BY <1>6, <2>6 DEF SourcesOf
<1>8. CASE ~ (Len(ds.sources) > 1)
  <2>1. delayed_link' = Tail(delayed_link)
    BY <1>8 DEF NextSource
  <2>2. /\ delayed_link' \in Seq(Link) /\ Len(delayed_link') = Len(delayed_link) - 1
        /\ \A i \in 1 .. Len(delayed_link') : delayed_link'[i] = delayed_link[i + 1]
    BY <1>1, <1>2, <2>1, HeadTailProperties
  <2>3. DOMAIN delayed_link' = 1 .. Len(delayed_link')
    BY <2>2, LenProperties
  <2>4. ASSUME NEW i \in DOMAIN delayed_link'
        PROVE  i + 1 \in DOMAIN delayed_link /\ delayed_link'[i] = delayed_link[i + 1]
    BY <1>2, <2>2, <2>3
  <2>. QED
    BY <1>6, <2>4 DEF SourcesOf
<1>. QED
  BY <1>7, <1>8

(* A link to a placeholder adds the name of the member.                    *)
LEMMA WithSources ==
  ASSUME Typed, pc = "create", NEW ino
  PROVE  SourcesOf(WithSource(ino)) \subseteq SourcesOf(delayed_link) \cup {current.path}
<1> DEFINE more(i) == [delayed_link[i] EXCEPT !.sources = <<current.path>> \o @]
           l == WithSource(ino)
<1>1. current.path \in Paths /\ delayed_link \in Seq(Link)
  BY CurrentType DEF Typed, LinksTyped
<1>2. /\ DOMAIN l = DOMAIN delayed_link
      /\ \A i \in DOMAIN delayed_link : l[i] = delayed_link[i] \/ l[i] = more(i)
  BY DEF WithSource
<1>3. ASSUME NEW i \in DOMAIN delayed_link
      PROVE  delayed_link[i] \in Link
  BY <1>1, <1>3, LenProperties, ElementOfSeq
<1> HIDE DEF l
<1>4. ASSUME NEW i \in DOMAIN l, NEW k \in DOMAIN l[i].sources
      PROVE  l[i].sources[k] \in SourcesOf(delayed_link) \cup {current.path}
  <2>1. i \in DOMAIN delayed_link /\ delayed_link[i] \in Link
    BY <1>2, <1>3, <1>4
  <2>2. CASE l[i] = delayed_link[i]
    BY <1>4, <2>1, <2>2 DEF SourcesOf
  <2>3. CASE l[i] = more(i)
    <3> DEFINE s == delayed_link[i].sources
               t == <<current.path>> \o s
    <3>1. s \in Seq(Paths)
      BY <2>1 DEF Link
    <3>2. l[i].sources = t
      BY <2>1, <2>3 DEF Link
    <3>3. /\ t \in Seq(Paths) /\ Len(t) = Len(s) + 1 /\ t[1] = current.path
          /\ \A m \in 1 .. Len(s) : t[m + 1] = s[m]
      BY <1>1, <3>1, ConsType
    <3>4. Len(s) \in Nat /\ DOMAIN s = 1 .. Len(s) /\ DOMAIN t = 1 .. Len(t)
      BY <3>1, <3>3, LenProperties
    <3>5. \A m \in DOMAIN s : s[m] \in SourcesOf(delayed_link)
      BY <2>1 DEF SourcesOf
    <3>6. k \in DOMAIN t /\ l[i].sources[k] = t[k]
      BY <1>4, <3>2
    <3> HIDE DEF s, t
    <3>7. CASE k = 1
      BY <3>3, <3>6, <3>7
    <3>8. CASE k # 1
      <4>1. k - 1 \in 1 .. Len(s) /\ k = (k - 1) + 1
        BY <3>3, <3>4, <3>6, <3>8
      <4>2. t[k] = s[k - 1] /\ k - 1 \in DOMAIN s
        BY <3>3, <3>4, <4>1
      <4>. QED
        BY <3>5, <3>6, <4>2
    <3>. QED
      BY <3>7, <3>8
  <2>. QED
    BY <1>2, <2>1, <2>2, <2>3
<1>5. SourcesOf(l) \subseteq SourcesOf(delayed_link) \cup {current.path}
  BY <1>4 DEF SourcesOf
<1>. QED
  BY <1>5 DEF l
------------------------------------------------------------------------------
(* What each step touches: the paths it changes and those it adds to the   *)
(* lists.                                                                  *)

Effect(S) ==
  /\ Frame(S)
  /\ PathsOf(delayed_set_stat') \subseteq PathsOf(delayed_set_stat) \cup S
  /\ SourcesOf(delayed_link') \subseteq SourcesOf(delayed_link) \cup S

LEMMA QuietEffect ==
  ASSUME Typed, fs' = fs, UNCHANGED <<delayed_set_stat, delayed_link>>
  PROVE  \A S : Effect(S)
<1>1. \A S : Frame(S)
  BY SameFrame
<1>. QED
  BY <1>1 DEF Effect

LEMMA FixEffect ==
  ASSUME Typed, FixDirectory
  PROVE  /\ Effect({Head1.path}) /\ Head1.path \in PathsOf(delayed_set_stat)
         /\ Head1.path \in Names /\ fs'[Head1.path].kind = fs[Head1.path].kind
<1>1. /\ delayed_set_stat \in Seq(Stat) /\ delayed_set_stat # <<>>
      /\ delayed_set_stat' = Tail(delayed_set_stat) /\ UNCHANGED delayed_link
  BY DEF Typed, FixDirectory, MustFix
<1>2. /\ PathsOf(delayed_set_stat') \subseteq PathsOf(delayed_set_stat)
      /\ Head1.path \in PathsOf(delayed_set_stat) /\ Head1 \in Stat
  BY <1>1, TailPaths DEF Head1
<1>3. Head1.path \in Names /\ Head1.path \in Paths
  BY <1>2, NameType DEF Stat
<1>4. fs' = fs \/ fs' = [fs EXCEPT ![Head1.path] = Restored(Head1)]
  BY DEF FixDirectory
<1>5. CASE fs' = fs
  BY <1>1, <1>2, <1>3, <1>5, SameFrame DEF Effect
<1>6. CASE fs' = [fs EXCEPT ![Head1.path] = Restored(Head1)]
  <2>1. fs \in [Paths -> Inode]
    BY DEF Typed, FilesTyped
  <2>2. fs'[Head1.path].kind = fs[Head1.path].kind
    BY <1>2, <1>3, <1>6, <2>1, RestoredType
  <2>3. ASSUME NEW q \in Paths, q # Head1.path
        PROVE  fs'[q] = IF fs[q].kind = "dir" THEN [fs[q] EXCEPT !.mtime = fs'[q].mtime]
                        ELSE fs[q]
    <3>1. fs'[q] = fs[q] /\ fs[q] \in Inode
      BY <1>6, <2>1, <2>3
    <3>. QED
      BY <3>1 DEF Inode
  <2>4. Frame({Head1.path})
    BY <2>3 DEF Frame
  <2>. QED
    BY <1>1, <1>2, <1>3, <2>2, <2>4 DEF Effect
<1>. QED
  BY <1>4, <1>5, <1>6

LEMMA RemoveEffect ==
  ASSUME Typed, Prepare \/ RemoveOld
  PROVE  /\ Effect({current.path})
         /\ fs' = fs \/ (fs'[current.path] = None /\ options.old_files # "KEEP")
<1>1. pc \in {"fix", "prepare", "create"} /\ UNCHANGED <<delayed_set_stat, delayed_link>>
  BY DEF Prepare, RemoveOld, Failing, delayed
<1>2. current.path \in Paths
  BY <1>1, CurrentType
<1>3. CASE fs' = fs
  BY <1>1, <1>3, QuietEffect
<1>4. CASE fs' # fs
  <2>1. /\ Removable(current.path) /\ fs' = Put(current.path, None)
        /\ options.old_files # "KEEP"
    BY <1>4 DEF Prepare, RemoveOld, Removes, MayRemove
  <2>2. \A q \in Ancestors[current.path] : fs[q].kind = "dir"
    BY <1>2, <2>1, RemovableMeaning, InDirectories
  <2>3. Frame({current.path}) /\ fs'[current.path] = None
    BY <1>2, <2>1, <2>2, NoneType, PutFrame
  <2>. QED
    BY <1>1, <2>1, <2>3 DEF Effect
<1>. QED
  BY <1>3, <1>4

LEMMA UseDirEffect ==
  ASSUME Typed, UseDir
  PROVE  Effect({current.path}) /\ fs' = fs
<1>1. pc = "create" /\ fs' = fs /\ UNCHANGED delayed_link
      /\ delayed_set_stat' = <<Delay(current.path, FALSE, "UNKNOWN")>> \o delayed_set_stat
  BY DEF UseDir, UsesOld, Creating, disk
<1> DEFINE e == Delay(current.path, FALSE, "UNKNOWN")
<1>2. e \in Stat /\ e.path = current.path
  BY <1>1, CurrentType, DelayType
<1>3. delayed_set_stat' = <<e>> \o delayed_set_stat /\ delayed_set_stat \in Seq(Stat)
  BY <1>1 DEF Typed
<1> HIDE DEF e
<1>4. PathsOf(delayed_set_stat') \subseteq PathsOf(delayed_set_stat) \cup {current.path}
  BY <1>2, <1>3, ConsPaths
<1>. QED
  BY <1>1, <1>4, SameFrame DEF Effect

(* What is created takes the place of nothing.                             *)
LEMMA MakeEffect ==
  ASSUME Typed, MakeDir \/ MakeFile \/ MakeSymlink \/ MakePlaceholder \/ MakeLink
  PROVE  /\ Effect({current.path}) /\ fs[current.path].kind = "none"
         /\ \/ fs'[current.path].kind = "dir"
            \/ PathsOf(delayed_set_stat') \subseteq PathsOf(delayed_set_stat)
<1> DEFINE p == current.path
<1>1. pc = "create" /\ CreateErrno = "none"
  BY DEF MakeDir, MakeFile, MakeSymlink, MakePlaceholder, MakeLink, Creating
<1>2. /\ p \in Paths /\ current.target \in Paths /\ todo \in Nat
      /\ current.writable \in BOOLEAN /\ inodes \in Nat /\ fs \in [Paths -> Inode]
  BY <1>1, CurrentType DEF Typed, FilesTyped
<1>3. Errno(p) = "none"
  BY <1>1 DEF CreateErrno
<1>4. fs[p].kind = "none" /\ \A q \in Ancestors[p] : fs[q].kind = "dir"
  BY <1>2, <1>3, ErrnoMeaning
<1>5. ASSUME NEW kind \in {"dir", "file", "symlink", "placeholder"},
             NEW writable \in BOOLEAN, NEW mtime \in Nat,
             fs' = Created(p, kind, writable, mtime)
      PROVE  Frame({p}) /\ fs'[p].kind = kind
  <2> DEFINE inode == [kind |-> kind, ino |-> inodes + 1, from |-> todo,
                       writable |-> writable, mtime |-> mtime]
  <2>1. inode \in Inode /\ inode.kind = kind
    BY <1>2 DEF Inode
  <2>2. fs' = Put(p, inode)
    BY <1>5 DEF Created
  <2> HIDE DEF inode, p
  <2>. QED
    BY <1>2, <1>4, <2>1, <2>2, PutFrame
<1> HIDE DEF p
<1>6. CASE MakeDir
  <2> DEFINE e == Delay(p, ~ current.writable, "ARCHIVED")
  <2>1. e \in Stat /\ e.path = p
    BY <1>1, <1>2, CurrentType, DelayType DEF p
  <2>2. /\ delayed_set_stat' = <<e>> \o delayed_set_stat /\ UNCHANGED delayed_link
        /\ fs' = Created(p, "dir", TRUE, 0) /\ delayed_set_stat \in Seq(Stat)
    BY <1>6 DEF MakeDir, p, Typed
  <2> HIDE DEF e
  <2>3. PathsOf(delayed_set_stat') \subseteq PathsOf(delayed_set_stat) \cup {p}
    BY <2>1, <2>2, ConsPaths
  <2>4. Frame({p}) /\ fs'[p].kind = "dir"
    BY <1>5, <2>2
  <2>. QED
    BY <1>4, <2>2, <2>3, <2>4 DEF Effect, p
<1>7. CASE MakeFile \/ MakeSymlink
  <2>1. UNCHANGED <<delayed_set_stat, delayed_link>>
    BY <1>7 DEF MakeFile, MakeSymlink, delayed
  <2>2. \/ fs' = Created(p, "file", current.writable, todo)
        \/ fs' = Created(p, "symlink", TRUE, 0)
    BY <1>7 DEF MakeFile, MakeSymlink, p
  <2>3. Frame({p})
    BY <1>2, <1>5, <2>2
  <2>. QED
    BY <1>4, <2>1, <2>3 DEF Effect, p
<1>8. CASE MakePlaceholder
  <2> DEFINE e == [ino |-> inodes + 1, is_symlink |-> current.type = "symlink",
                   member |-> todo, sources |-> <<p>>]
  <2>1. fs' = Created(p, "placeholder", FALSE, 0) /\ delayed_link' = <<e>> \o delayed_link
    BY <1>8 DEF MakePlaceholder, p
  <2>2. Frame({p})
    BY <1>5, <2>1
  <2>3. PathsOf(delayed_set_stat') \subseteq PathsOf(delayed_set_stat)
    BY <1>8, MarkedType DEF PathsOf
  <2>4. SourcesOf(delayed_link') \subseteq SourcesOf(delayed_link) \cup {p}
    <3>1. e.sources = <<p>> /\ DOMAIN e.sources = {1} /\ e.sources[1] = p
      OBVIOUS
    <3> HIDE DEF e
    <3>2. delayed_link \in Seq(Link)
      BY DEF Typed, LinksTyped
    <3> DEFINE l == <<e>> \o delayed_link
    <3>3. /\ Len(delayed_link) \in Nat /\ Len(<<e>>) = 1 /\ <<e>>[1] = e
          /\ DOMAIN delayed_link = 1 .. Len(delayed_link)
      BY <3>2, LenProperties
    <3>4. /\ Len(l) = Len(delayed_link) + 1 /\ DOMAIN l = 1 .. Len(l)
          /\ \A i \in 1 .. Len(l) : l[i] = IF i <= 1 THEN e ELSE delayed_link[i - 1]
      <4>1. <<e>> \in Seq(Link \cup {e}) /\ delayed_link \in Seq(Link \cup {e})
        BY <3>2, SeqMonotonic
      <4>. QED
        BY <3>3, <4>1, ConcatProperties, LenProperties
    <3> HIDE DEF l
    <3>5. ASSUME NEW i \in DOMAIN l
          PROVE  l[i] = e \/ \E j \in DOMAIN delayed_link : l[i] = delayed_link[j]
      <4>1. i \in Nat /\ i <= Len(delayed_link) + 1 /\ i >= 1
        BY <3>3, <3>4
      <4>2. i > 1 => i - 1 \in DOMAIN delayed_link
        BY <3>3, <4>1
      <4>. QED
        BY <3>4, <4>1, <4>2
    <3>6. SourcesOf(l) \subseteq SourcesOf(delayed_link) \cup {p}
      BY <3>1, <3>5 DEF SourcesOf
    <3>. QED
      BY <2>1, <3>6 DEF l
  <2>. QED
    BY <1>4, <2>2, <2>3, <2>4 DEF Effect, p
<1>9. CASE MakeLink
  <2>1. /\ fs' = Put(p, fs[current.target]) /\ UNCHANGED delayed_set_stat
        /\ delayed_link' = WithSource(fs[current.target].ino)
    BY <1>9 DEF MakeLink, p
  <2>2. fs[current.target] \in Inode
    BY <1>2
  <2>3. Frame({p})
    BY <1>2, <1>4, <2>1, <2>2, PutFrame
  <2>4. SourcesOf(delayed_link') \subseteq SourcesOf(delayed_link) \cup {p}
    BY <1>1, <2>1, WithSources DEF p
  <2>. QED
    BY <1>4, <2>1, <2>3, <2>4 DEF Effect, p
<1>. QED
  BY <1>6, <1>7, <1>8, <1>9
(* So does what make_directories makes.                                    *)
LEMMA MakeDirectoriesEffect ==
  ASSUME Typed, MakeDirectories
  PROVE  /\ Effect(Missing) /\ current.path \notin Missing
         /\ fs[current.path].kind = "none"
         /\ \A q \in Missing : q \in Names /\ fs[q].kind = "none" /\ fs'[q].kind = "dir"
<1> DEFINE p == current.path
           s == delayed_set_stat
<1>1. /\ pc = "create" /\ MakesDirs /\ UNCHANGED delayed_link
      /\ s' = InterDirs \o s /\ s \in Seq(Stat)
  BY DEF MakeDirectories, Failing, InterDirs, Typed
<1>2. p \in Paths /\ p \in Names
  BY <1>1, CurrentType
<1>3. Len(p) \in Nat
  BY <1>2, PathType
<1>4. /\ First \in 1 .. Len(p) - 1
      /\ \A n \in 1 .. First - 1 : fs[Prefix(p, n)].kind = "dir"
      /\ \A n \in First .. Len(p) - 1 : fs[Prefix(p, n)].kind = "none"
  BY <1>1, FirstMissing
<1>5. /\ InterDirs \in Seq(Stat) /\ Len(InterDirs) = Len(p) - First
      /\ \A k \in 1 .. Len(p) - First : InterDirs[k].path = Prefix(p, Len(p) - k)
  BY <1>1, InterDirsType
<1>6. ASSUME NEW q \in Missing
      PROVE  q \in Ancestors[p] /\ q \in Names /\ fs[q].kind = "none" /\ q # p
  <2>1. q \in Ancestors[p] /\ fs[q].kind = "none"
    BY DEF Missing, Exists
  <2>2. Len(q) \in 1 .. Len(p) - 1 /\ Prefix(p, Len(q)) = q /\ q # p
    BY <1>2, <2>1, AncestorType
  <2>3. Len(q) \in 1 .. Len(p)
    BY <1>3, <2>2
  <2>. QED
    BY <1>2, <2>1, <2>2, <2>3, PrefixNamed
<1>7. fs[p].kind = "none"
  <2>1. PICK q \in Missing : TRUE
    BY <1>1 DEF MakesDirs
  <2>2. q \in Ancestors[p] /\ fs[q].kind = "none"
    BY <1>6, <2>1
  <2>. QED
    BY <1>2, <2>2 DEF Typed, FilesTyped, Closed
<1>8. ASSUME NEW q \in Missing
      PROVE  fs'[q].kind = "dir"
  <2>1. q \in Paths
    BY <1>6, NameType
  <2>. QED
    BY <2>1 DEF MakeDirectories
<1>9. ASSUME NEW q \in Paths \ Missing
      PROVE  fs'[q] = IF fs[q].kind = "dir" THEN [fs[q] EXCEPT !.mtime = fs'[q].mtime]
                      ELSE fs[q]
  <2>1. fs[q] \in Inode
    BY DEF Typed, FilesTyped
  <2>2. fs'[q] = IF q = Prefix(p, First - 1) THEN [fs[q] EXCEPT !.mtime = 0] ELSE fs[q]
    BY DEF MakeDirectories
  <2>3. CASE q = Prefix(p, First - 1)
    <3>1. CASE First = 1
      <4>1. Prefix(p, First - 1) = SubSeq(p, 1, 0)
        BY <3>1 DEF Prefix
      <4>2. SubSeq(p, 1, 0) = <<>>
        BY SubSeqEmpty
      <4>. QED
        BY <2>3, <4>1, <4>2, PathType DEF Root
    <3>2. CASE First # 1
      <4>1. First - 1 \in 1 .. First - 1
        BY <1>3, <1>4, <3>2
      <4>2. fs[Prefix(p, First - 1)].kind = "dir"
        BY <1>4, <4>1, Zenon
      <4>3. fs[q].kind = "dir" /\ fs'[q] = [fs[q] EXCEPT !.mtime = 0]
        BY <2>2, <2>3, <4>2
      <4>4. fs'[q].mtime = 0
        BY <2>1, <4>3 DEF Inode
      <4>. QED
        BY <4>3, <4>4
    <3>. QED
      BY <3>1, <3>2
  <2>4. CASE q # Prefix(p, First - 1)
    BY <2>1, <2>2, <2>4 DEF Inode
  <2>. QED
    BY <2>3, <2>4
<1> HIDE DEF p
<1>10. PathsOf(InterDirs) \subseteq Missing
  <2> SUFFICES ASSUME NEW k \in DOMAIN InterDirs
               PROVE  InterDirs[k].path \in Missing
    BY DEF PathsOf
  <2>1. k \in 1 .. Len(p) - First
    BY <1>5, LenProperties
  <2>2. Len(p) - k \in First .. Len(p) - 1 /\ Len(p) - k \in 1 .. Len(p) - 1
    BY <1>3, <1>4, <2>1
  <2>3. Prefix(p, Len(p) - k) \in Ancestors[p] /\ fs[Prefix(p, Len(p) - k)].kind = "none"
    BY <1>2, <1>4, <2>2, AncestorType
  <2>4. Prefix(p, Len(p) - k) \in Missing
    BY <2>3 DEF Missing, Exists, p
  <2>. QED
    BY <1>5, <2>1, <2>4
<1>11. PathsOf(delayed_set_stat') \subseteq PathsOf(delayed_set_stat) \cup Missing
  <2>1. PathsOf(InterDirs \o s) \subseteq PathsOf(InterDirs) \cup PathsOf(s)
    BY <1>1, <1>5, ConcatPaths
  <2>. QED
    BY <1>1, <1>10, <2>1
<1>12. Frame(Missing)
  BY <1>9 DEF Frame
<1>. QED
  BY <1>1, <1>6, <1>7, <1>8, <1>11, <1>12 DEF Effect, p

LEMMA BackUpEffect ==
  ASSUME Typed, MaybeBackupFile, fs' # fs
  PROVE  LET p == current.path b == BackupName[p] IN
         /\ p \in Names /\ p # b /\ Effect({p, b})
         /\ CanRename(p, b) /\ fs'[p] = None /\ fs'[b] = fs[p]
<1> DEFINE p == current.path
           b == BackupName[p]
<1>1. /\ CanRename(p, b) /\ fs' = Renamed(p, b)
      /\ UNCHANGED <<delayed_set_stat, delayed_link>>
  BY DEF MaybeBackupFile
<1>2. p \in Names
  BY CurrentType DEF MaybeBackupFile
<1>3. p \in Paths /\ b \in Paths /\ p # b /\ Ancestors[b] = Ancestors[p]
  BY <1>2, NameType, BackupAncestors
<1> HIDE DEF p, b
<1>4. Frame({p, b}) /\ fs'[p] = None /\ fs'[b] = fs[p]
  BY <1>1, <1>3, RenameFrame
<1>5. Effect({p, b})
  BY <1>1, <1>4 DEF Effect
<1>. QED
  BY <1>1, <1>2, <1>3, <1>4, <1>5 DEF p, b

LEMMA UndoEffect ==
  ASSUME Typed, UndoLastBackup, fs' # fs
  PROVE  LET p == backed_up b == BackupName[p] IN
         /\ p \in Names /\ p # b /\ Effect({p, b})
         /\ CanRename(b, p) /\ fs'[b] = None /\ fs'[p] = fs[b]
<1> DEFINE p == backed_up
           b == BackupName[p]
<1>1. /\ CanRename(b, p) /\ fs' = Renamed(b, p) /\ p # Root
      /\ UNCHANGED <<delayed_set_stat, delayed_link>>
  BY DEF UndoLastBackup
<1>2. p \in Names
  BY <1>1 DEF Typed, BackupTyped
<1>3. p \in Paths /\ b \in Paths /\ p # b /\ Ancestors[b] = Ancestors[p]
  BY <1>2, NameType, BackupAncestors
<1> HIDE DEF p, b
<1>4. Frame({b, p}) /\ fs'[b] = None /\ fs'[p] = fs[b]
  BY <1>1, <1>3, RenameFrame
<1>5. Effect({p, b})
  <2>1. {b, p} = {p, b}
    OBVIOUS
  <2>. QED
    BY <1>1, <1>4, <2>1 DEF Effect
<1>. QED
  BY <1>1, <1>2, <1>3, <1>4, <1>5 DEF p, b

(* apply_delayed_links replaces what has the inode of a placeholder.       *)
LEMMA LinkEffect ==
  ASSUME Typed, ApplyDelayedLink
  PROVE  LET source == delayed_link[1].sources[1] IN
         /\ Effect({source}) /\ source \in SourcesOf(delayed_link) /\ source \in Paths
         /\ fs' # fs => fs[source].ino = delayed_link[1].ino
<1> DEFINE ds == delayed_link[1]
           source == ds.sources[1]
           target == archive[ds.member].target
           unlinks == IsPlaceholder(source, ds) /\ Writable(Parent(source))
           fails == \/ IsPlaceholder(source, ds) /\ ~ unlinks
                    \/ /\ unlinks /\ ~ ds.is_symlink
                       /\ target = source \/ fs[target].kind \in {"none", "dir"}
           new == NewLink(ds, fails)
<1>1. /\ delayed_link # <<>> /\ NextSource
      /\ fs' = IF unlinks THEN Put(source, new) ELSE fs
      /\ UNCHANGED delayed_set_stat
  BY DEF ApplyDelayedLink, NewLink
<1>2. ds \in Link /\ 1 \in DOMAIN delayed_link
  <2>1. delayed_link \in Seq(Link)
    BY DEF Typed, LinksTyped
  <2>2. Len(delayed_link) \in Nat /\ Len(delayed_link) > 0
    BY <1>1, <2>1, EmptySeq, LenProperties
  <2>. QED
    BY <2>1, <2>2, LenProperties, ElementOfSeq
<1>3. source \in Paths
  <2>1. ds.sources \in Seq(Paths) /\ ds.sources # <<>>
    BY <1>2 DEF Link
  <2>2. Len(ds.sources) \in Nat /\ Len(ds.sources) > 0
    BY <2>1, EmptySeq, LenProperties
  <2>. QED
    BY <2>1, <2>2, ElementOfSeq
<1>4. fails \in BOOLEAN
  OBVIOUS
<1>5. unlinks => /\ fs[source].kind \notin {"none", "dir"} /\ fs[source].ino = ds.ino
                 /\ ~ ds.is_symlink /\ ~ fails => fs[target].kind # "dir"
  BY <1>2, <1>3 DEF IsPlaceholder, Exists, Typed, LinksTyped, NoDirectory
<1> HIDE DEF fails
<1>6. unlinks => new \in Inode
  BY <1>2, <1>4, <1>5, NewLinkType
<1>7. /\ SourcesOf(delayed_link') \subseteq SourcesOf(delayed_link)
      /\ source \in SourcesOf(delayed_link)
  BY <1>1, NextSources
<1> HIDE DEF unlinks, source, target, new, ds
<1>8. CASE unlinks
  <2>1. \A q \in Ancestors[source] : fs[q].kind = "dir"
    BY <1>3, <1>5, <1>8, InDirectories
  <2>2. Frame({source})
    BY <1>1, <1>3, <1>6, <1>8, <2>1, PutFrame
  <2>3. Effect({source})
    BY <1>1, <1>7, <2>2 DEF Effect
  <2>. QED
    BY <1>3, <1>5, <1>7, <1>8, <2>3 DEF source, ds
<1>9. CASE ~ unlinks
  <2>1. fs' = fs
    BY <1>1, <1>9
  <2>2. Effect({source})
    BY <1>1, <1>7, <2>1, SameFrame DEF Effect
  <2>. QED
    BY <1>3, <1>7, <2>1, <2>2 DEF source, ds
<1>. QED
  BY <1>8, <1>9
------------------------------------------------------------------------------
(* No placeholder has the inode of a file that was there before.           *)

NewInodes ==
  /\ tree \in Trees
  /\ Cardinality(Paths) <= inodes
  /\ \A i \in DOMAIN delayed_link : Cardinality(Paths) < delayed_link[i].ino

LEMMA TreeType ==
  ASSUME tree \in Trees, NEW p \in Paths
  PROVE  /\ tree[p] \in Inode /\ tree[p].kind \in {"none", "dir", "file"}
         /\ tree[p].ino <= Cardinality(Paths)
         /\ tree[p].kind # "none" => \A q \in Paths : tree[q].ino = tree[p].ino => tree[q] = tree[p]
<1>1. tree[p] \in Inode
  BY ExtractAssumption
<1>2. /\ tree[p].kind \in {"none", "dir", "file"} /\ tree[p].ino <= Cardinality(Paths)
      /\ tree[p].kind # "none" => \A q \in Paths : tree[q].ino = tree[p].ino => tree[q] = tree[p]
  BY ExtractAssumption
<1>. QED
  BY <1>1, <1>2

LEMMA NewInodesInit == Init => NewInodes
<1> SUFFICES ASSUME Init PROVE NewInodes
  OBVIOUS
<1>1. Cardinality(Paths) \in Nat
  BY ExtractAssumption, FS_CardinalityType
<1>2. DOMAIN delayed_link = {}
  <2>1. DOMAIN <<>> = {}
    OBVIOUS
  <2>. QED
    BY <2>1 DEF Init
<1>. QED
  BY <1>1, <1>2 DEF Init, NewInodes

LEMMA NewInodesStep ==
  ASSUME Typed, NewInodes, Next
  PROVE  NewInodes'
<1>1. tree' = tree /\ tree \in Trees
  BY ControlStep DEF Typed, given, NewInodes
<1>2. inodes \in Nat /\ Cardinality(Paths) \in Nat /\ Cardinality(Paths) <= inodes
  BY ExtractAssumption, FS_CardinalityType DEF Typed, FilesTyped, NewInodes
<1>3. /\ delayed_link \in Seq(Link) /\ DOMAIN delayed_link = 1 .. Len(delayed_link)
      /\ Len(delayed_link) \in Nat
      /\ \A i \in DOMAIN delayed_link : Cardinality(Paths) < delayed_link[i].ino
  BY LenProperties DEF Typed, LinksTyped, NewInodes
<1>4. CASE inodes <= inodes' /\ inodes' \in Nat /\ UNCHANGED delayed_link
  BY <1>1, <1>2, <1>3, <1>4 DEF NewInodes
<1>5. CASE \/ NextMember \/ FixDirectory \/ MaybeBackupFile \/ Prepare \/ UseDir
           \/ UseLink \/ RemoveOld \/ Fail \/ UndoLastBackup
  <2>1. inodes' = inodes
    BY <1>5 DEF NextMember, FixDirectory, MaybeBackupFile, Prepare, UseDir, UseLink,
                RemoveOld, Fail, UndoLastBackup, disk
  <2>2. delayed_link' = delayed_link
    BY <1>5 DEF NextMember, FixDirectory, MaybeBackupFile, Prepare, UseDir, UseLink,
                RemoveOld, Fail, UndoLastBackup, delayed
  <2>. QED
    BY <1>2, <1>4, <2>1, <2>2
<1>6. CASE Finish \/ StartLinks \/ LinksDone \/ Done
  <2>1. inodes' = inodes /\ delayed_link' = delayed_link
    BY <1>6 DEF Finish, StartLinks, LinksDone, Done, disk, delayed
  <2>. QED
    BY <1>2, <1>4, <2>1
<1>7. CASE MakeDir \/ MakeFile \/ MakeSymlink
  <2>1. inodes' = inodes + 1 /\ delayed_link' = delayed_link
    BY <1>7 DEF MakeDir, MakeFile, MakeSymlink, delayed
  <2>. QED
    BY <1>2, <1>4, <2>1
<1>8. CASE MakeDirectories
  <2>1. /\ inodes' = inodes + (Len(current.path) - First) /\ UNCHANGED delayed_link
        /\ pc = "create" /\ MakesDirs
    BY <1>8 DEF MakeDirectories, Failing
  <2>2. Len(current.path) \in Nat /\ First \in 1 .. Len(current.path) - 1
    BY <2>1, CurrentType, PathType, FirstMissing
  <2> DEFINE n == Len(current.path)
  <2>3. n \in Nat /\ First \in 1 .. n - 1 /\ inodes' = inodes + (n - First)
    BY <2>1, <2>2
  <2> HIDE DEF n
  <2>4. inodes <= inodes' /\ inodes' \in Nat
    BY <1>2, <2>3
  <2>. QED
    BY <1>4, <2>1, <2>4
<1>9. CASE MakePlaceholder
  <2> DEFINE e == [ino |-> inodes + 1, is_symlink |-> current.type = "symlink",
                   member |-> todo, sources |-> <<current.path>>]
             l == <<e>> \o delayed_link
  <2>1. inodes' = inodes + 1 /\ delayed_link' = l /\ e.ino = inodes + 1
    BY <1>9 DEF MakePlaceholder
  <2> HIDE DEF e
  <2>2. /\ Len(l) = Len(delayed_link) + 1 /\ DOMAIN l = 1 .. Len(l)
        /\ \A i \in 1 .. Len(l) : l[i] = IF i <= 1 THEN e ELSE delayed_link[i - 1]
    <3>1. <<e>> \in Seq(Link \cup {e}) /\ delayed_link \in Seq(Link \cup {e})
      BY <1>3, SeqMonotonic
    <3>2. Len(<<e>>) = 1 /\ <<e>>[1] = e
      OBVIOUS
    <3>. QED
      BY <1>3, <3>1, <3>2, ConcatProperties, LenProperties
  <2> HIDE DEF l
  <2>3. ASSUME NEW i \in DOMAIN l
        PROVE  Cardinality(Paths) < l[i].ino
    <3>1. i \in Nat /\ 1 <= i /\ i <= Len(delayed_link) + 1
      BY <1>3, <2>2
    <3>2. CASE i = 1
      <4>1. l[i].ino = inodes + 1
        BY <2>1, <2>2, <3>2
      <4>. QED
        BY <1>2, <4>1
    <3>3. CASE i # 1
      <4>1. i - 1 \in DOMAIN delayed_link /\ l[i] = delayed_link[i - 1]
        BY <1>3, <2>2, <3>1, <3>3
      <4>. QED
        BY <1>3, <4>1
    <3>. QED
      BY <3>2, <3>3
  <2>4. Cardinality(Paths) <= inodes'
    BY <1>2, <2>1
  <2>. QED
    BY <1>1, <2>1, <2>3, <2>4 DEF NewInodes
<1>10. CASE MakeLink
  <2>1. /\ inodes' = inodes /\ pc = "create"
        /\ delayed_link' = WithSource(fs[current.target].ino)
    BY <1>10 DEF MakeLink
  <2>2. /\ DOMAIN delayed_link' = DOMAIN delayed_link
        /\ \A i \in DOMAIN delayed_link : delayed_link'[i].ino = delayed_link[i].ino
    BY <2>1, WithSourceType
  <2>. QED
    BY <1>1, <1>2, <1>3, <2>1, <2>2 DEF NewInodes
<1>11. CASE ApplyDelayedLink
  <2>1. delayed_link # <<>> /\ NextSource
    BY <1>11 DEF ApplyDelayedLink
  <2>2. inodes' = inodes \/ inodes' = inodes + 1
    BY <1>11 DEF ApplyDelayedLink
  <2>3. \A i \in DOMAIN delayed_link' : Cardinality(Paths) < delayed_link'[i].ino
    BY <1>3, <2>1, NextSourceType
  <2>4. Cardinality(Paths) <= inodes'
    BY <1>2, <2>2
  <2>. QED
    BY <1>1, <2>3, <2>4 DEF NewInodes
<1>. QED
  BY <1>5, <1>6, <1>7, <1>8, <1>9, <1>10, <1>11 DEF Next, Extractor, ExtractFinish

------------------------------------------------------------------------------
(* With --keep-old-files.  What is put on the lists was not there before,  *)
(* so that nothing is done at the end to what was.                         *)

SameAsBefore(p) ==
  IF tree[p].kind = "dir" THEN [fs[p] EXCEPT !.mtime = tree[p].mtime] = tree[p]
  ELSE fs[p] = tree[p]

Kept ==
  /\ \A p \in Paths : tree[p].kind # "none" => SameAsBefore(p)
  /\ \A p \in PathsOf(delayed_set_stat) \cup SourcesOf(delayed_link) : tree[p].kind = "none"
  /\ backed_up = Root

KeepsOld == options.old_files = "KEEP" /\ ~ options.backup => Kept

LEMMA KeptFrame ==
  ASSUME Typed, NewInodes, Kept, UNCHANGED <<tree, backed_up>>, NEW S, Effect(S),
         \A p \in S : tree[p].kind = "none"
  PROVE  Kept'
<1>1. ASSUME NEW p \in Paths, tree[p].kind # "none"
      PROVE  SameAsBefore(p)'
  <2>1. p \notin S /\ SameAsBefore(p) /\ tree' = tree
    BY <1>1 DEF Kept
  <2>2. /\ fs[p].kind # "dir" => fs'[p] = fs[p]
        /\ \A t : [fs'[p] EXCEPT !.mtime = t] = [fs[p] EXCEPT !.mtime = t]
    BY <2>1, FrameMeaning DEF Effect
  <2>3. CASE tree[p].kind = "dir"
    BY <2>1, <2>2, <2>3 DEF SameAsBefore
  <2>4. CASE tree[p].kind # "dir"
    BY <2>1, <2>2, <2>4 DEF SameAsBefore
  <2>. QED
    BY <2>3, <2>4
<1>2. \A p \in PathsOf(delayed_set_stat') \cup SourcesOf(delayed_link') : tree[p].kind = "none"
  BY DEF Kept, Effect
<1>3. backed_up' = Root
  BY DEF Kept
<1>. QED
  BY <1>1, <1>2, <1>3 DEF Kept

(* What is not there was not there.                                        *)
LEMMA NewPath ==
  ASSUME Typed, NewInodes, Kept, NEW p \in Paths, fs[p].kind = "none"
  PROVE  tree[p].kind = "none"
<1> SUFFICES ASSUME tree[p].kind # "none" PROVE FALSE
  OBVIOUS
<1>1. SameAsBefore(p)
  BY DEF Kept
<1>2. fs[p] \in Inode /\ tree[p] \in Inode
  BY TreeType DEF Typed, FilesTyped, NewInodes
<1>3. fs[p].kind = tree[p].kind
  <2>1. [fs[p] EXCEPT !.mtime = tree[p].mtime].kind = fs[p].kind
    BY <1>2 DEF Inode
  <2>. QED
    BY <1>1, <2>1 DEF SameAsBefore
<1>. QED
  BY <1>3

LEMMA KeptInit == Init => KeepsOld
<1> SUFFICES ASSUME Init PROVE Kept
  BY DEF KeepsOld
<1>1. DOMAIN <<>> = {}
  OBVIOUS
<1>2. PathsOf(delayed_set_stat) = {} /\ SourcesOf(delayed_link) = {}
  BY <1>1 DEF Init, PathsOf, SourcesOf
<1>3. \A p \in Paths : SameAsBefore(p)
  <2> SUFFICES ASSUME NEW p \in Paths PROVE SameAsBefore(p)
    OBVIOUS
  <2>1. fs[p] = tree[p] /\ tree[p] \in Inode
    BY TreeType DEF Init
  <2>. QED
    BY <2>1 DEF SameAsBefore, Inode
<1>. QED
  BY <1>2, <1>3 DEF Init, Kept

LEMMA KeptStep ==
  ASSUME Typed, NewInodes, KeepsOld, Next
  PROVE  KeepsOld'
<1>1. UNCHANGED <<options, archive, tree>>
  BY ControlStep DEF Typed, given
<1> SUFFICES ASSUME options.old_files = "KEEP", ~ options.backup, Kept
             PROVE  Kept'
  BY <1>1 DEF KeepsOld
<1>2. CASE fs' = fs /\ UNCHANGED <<delayed_set_stat, delayed_link, backed_up>>
  <2>1. Effect({})
    BY <1>2, QuietEffect
  <2>. QED
    BY <1>1, <1>2, <2>1, KeptFrame
<1>3. CASE NextMember \/ UseLink \/ Fail
  BY <1>2, <1>3 DEF NextMember, UseLink, Fail, disk, delayed
<1>4. CASE Finish \/ StartLinks \/ LinksDone \/ Done
  BY <1>2, <1>4 DEF Finish, StartLinks, LinksDone, Done, disk, delayed
<1>5. CASE UndoLastBackup
  BY <1>2, <1>5 DEF UndoLastBackup, Kept
<1>6. ~ MaybeBackupFile
  BY DEF MaybeBackupFile
<1>7. ~ UseDir
  BY DEF UseDir, UsesOld
<1>8. CASE Prepare \/ RemoveOld
  <2>1. UNCHANGED <<delayed_set_stat, delayed_link, backed_up>>
    BY <1>8 DEF Prepare, RemoveOld, delayed
  <2>2. fs' = fs
    BY <1>8, RemoveEffect
  <2>. QED
    BY <1>2, <2>1, <2>2
<1>9. CASE FixDirectory
  <2>1. Effect({Head1.path}) /\ tree[Head1.path].kind = "none"
    BY <1>9, FixEffect DEF Kept
  <2>2. UNCHANGED backed_up
    BY <1>9 DEF FixDirectory
  <2>. QED
    BY <1>1, <2>1, <2>2, KeptFrame
<1>10. CASE MakeDir \/ MakeFile \/ MakeSymlink \/ MakePlaceholder \/ MakeLink
  <2>1. UNCHANGED backed_up /\ pc = "create"
    BY <1>10 DEF MakeDir, MakeFile, MakeSymlink, MakePlaceholder, MakeLink, Creating, delayed
  <2>2. Effect({current.path}) /\ tree[current.path].kind = "none"
    BY <1>10, <2>1, MakeEffect, CurrentType, NewPath
  <2>. QED
    BY <1>1, <2>1, <2>2, KeptFrame
<1>11. CASE MakeDirectories
  <2>1. UNCHANGED backed_up
    BY <1>11 DEF MakeDirectories
  <2>2. Effect(Missing) /\ \A q \in Missing : tree[q].kind = "none"
    BY <1>11, MakeDirectoriesEffect, NameType, NewPath
  <2>. QED
    BY <1>1, <2>1, <2>2, KeptFrame
<1>12. CASE ApplyDelayedLink
  <2> DEFINE source == delayed_link[1].sources[1]
  <2>1. UNCHANGED backed_up
    BY <1>12 DEF ApplyDelayedLink
  <2>2. Effect({source}) /\ tree[source].kind = "none"
    BY <1>12, LinkEffect DEF Kept
  <2> HIDE DEF source
  <2>. QED
    BY <1>1, <2>1, <2>2, KeptFrame
<1>. QED
  BY <1>3, <1>4, <1>5, <1>6, <1>7, <1>8, <1>9, <1>10, <1>11, <1>12
     DEF Next, Extractor, ExtractFinish
------------------------------------------------------------------------------
(* With --backup.  A file that was there, of whose name at most one member *)
(* is, has its name, and nothing is about to be done to it; or it has that *)
(* of its backup, and can be renamed back while its member is extracted.   *)

Once(p) == ~ \E i, k \in DOMAIN archive : i < k /\ {archive[i].path, archive[k].path} = {p}

(* The member p has been backed up, or needed no backup.                   *)
Visited(p) == \E i \in 1 .. todo : archive[i].path = p /\ (i = todo => pc # "fix")
AtHand(p) == pc \in {"prepare", "create"} /\ current.path = p

Untouched(p) ==
  /\ fs[p] = tree[p] /\ backed_up # p /\ p \notin PathsOf(delayed_set_stat) /\ ~ AtHand(p)
  /\ ~ Visited(p) =>
       fs[BackupName[p]].kind = "dir" \/ fs[BackupName[p]] = tree[BackupName[p]]

Saved(p) ==
  /\ fs[BackupName[p]] = tree[p] /\ Visited(p)
  /\ AtHand(p) => /\ p \notin PathsOf(delayed_set_stat)
                  /\ Exists(p) => fs[p].kind # "dir" /\ Writable(Parent(p))
  /\ p \in PathsOf(delayed_set_stat) =>
       fs[p].kind = "dir" \/ pc \in {"links", "fixlast", "done"}

BackedUp ==
  options.backup =>
    \A p \in Names : tree[p].kind = "file" /\ Once(p) => Untouched(p) \/ Saved(p)

LEMMA BackedUpInit == Init => BackedUp
<1> SUFFICES ASSUME Init, NEW p \in Names
             PROVE  Untouched(p)
  BY DEF BackedUp
<1>1. DOMAIN <<>> = {}
  OBVIOUS
<1>2. p \notin PathsOf(delayed_set_stat)
  BY <1>1 DEF Init, PathsOf
<1>3. p # Root
  BY NameType, PathType
<1>. QED
  BY <1>2, <1>3 DEF Init, Untouched, AtHand

(* What was visited remains so.                                            *)
LEMMA VisitedStep ==
  ASSUME Typed, Next, NEW p, Visited(p)
  PROVE  Visited(p)'
<1>1. archive' = archive /\ todo \in Nat
  <2>1. Len(archive) \in Nat
    BY LenProperties DEF Typed, GivenTyped
  <2>. QED
    BY <2>1, ControlStep DEF Typed, ControlTyped, given
<1>2. PICK i \in 1 .. todo : archive[i].path = p /\ (i = todo => pc # "fix")
  BY DEF Visited
<1>3. CASE NextMember
  <2>1. todo' = todo + 1
    BY <1>3 DEF NextMember
  <2>2. i \in 1 .. todo' /\ i # todo'
    BY <1>1, <1>2, <2>1
  <2>. QED
    BY <1>1, <1>2, <2>2 DEF Visited
<1>4. CASE todo' = todo /\ (pc' # "fix" \/ pc' = pc)
  BY <1>1, <1>2, <1>4 DEF Visited
<1>5. CASE FixDirectory \/ MaybeBackupFile \/ Prepare \/ UndoLastBackup
  BY <1>4, <1>5 DEF FixDirectory, MaybeBackupFile, Prepare, UndoLastBackup
<1>6. CASE MakeDir \/ UseDir \/ MakeFile \/ MakeSymlink \/ MakePlaceholder \/ MakeLink
  BY <1>4, <1>6 DEF MakeDir, UseDir, MakeFile, MakeSymlink, MakePlaceholder, MakeLink,
                    AfterFailure
<1>7. CASE UseLink \/ RemoveOld \/ MakeDirectories \/ Fail
  BY <1>4, <1>7 DEF UseLink, RemoveOld, MakeDirectories, Fail, AfterFailure, control
<1>8. CASE ExtractFinish
  BY <1>4, <1>8 DEF ExtractFinish, Finish, StartLinks, ApplyDelayedLink, LinksDone, Done
<1>. QED
  BY <1>3, <1>5, <1>6, <1>7, <1>8 DEF Next, Extractor

(* What a step on other paths does not disturb.                            *)
LEMMA ElsewhereStep ==
  ASSUME Typed, NewInodes, Next, NEW p \in Names, tree[p].kind = "file",
         NEW S, Effect(S), p \notin S, BackupName[p] \notin S,
         backed_up' # p \/ backed_up' = backed_up, ~ AtHand(p)',
         pc \in {"links", "fixlast", "done"} => pc' \in {"links", "fixlast", "done"},
         Untouched(p) \/ Saved(p)
  PROVE  (Untouched(p) \/ Saved(p))'
<1> DEFINE b == BackupName[p]
<1>1. p \in Paths /\ b \in Paths /\ tree' = tree
  BY NameType, ControlStep DEF Typed, given
<1>2. /\ fs'[p].kind = fs[p].kind /\ (fs[p].kind # "dir" => fs'[p] = fs[p])
      /\ fs'[b].kind = fs[b].kind /\ (fs[b].kind # "dir" => fs'[b] = fs[b])
  BY <1>1, FrameMeaning DEF Effect
<1>3. p \in PathsOf(delayed_set_stat') => p \in PathsOf(delayed_set_stat)
  BY DEF Effect
<1>4. Visited(p) => Visited(p)'
  BY VisitedStep
<1>5. CASE Untouched(p)
  <2>1. fs'[p] = tree'[p] /\ backed_up' # p
    BY <1>1, <1>2, <1>5 DEF Untouched
  <2>2. ASSUME ~ Visited(p)'
        PROVE  fs'[b].kind = "dir" \/ fs'[b] = tree'[b]
    <3>1. fs[b].kind = "dir" \/ fs[b] = tree[b]
      BY <1>4, <1>5, <2>2 DEF Untouched
    <3>. QED
      BY <1>1, <1>2, <3>1
  <2>3. Untouched(p)'
    BY <1>3, <1>5, <2>1, <2>2 DEF Untouched
  <2>. QED
    BY <2>3
<1>6. CASE Saved(p)
  <2>1. fs'[b] = tree'[p]
    BY <1>1, <1>2, <1>6 DEF Saved
  <2>2. p \in PathsOf(delayed_set_stat') =>
          fs'[p].kind = "dir" \/ pc' \in {"links", "fixlast", "done"}
    BY <1>2, <1>3, <1>6 DEF Saved
  <2>3. Saved(p)'
    BY <1>4, <1>6, <2>1, <2>2 DEF Saved
  <2>. QED
    BY <2>3
<1>. QED
  BY <1>5, <1>6
LEMMA BackupApart ==
  ASSUME NEW p \in Names, NEW q \in Names
  PROVE  /\ p # BackupName[q] /\ BackupName[p] # q
         /\ p # q => BackupName[p] # BackupName[q]
<1>1. BackupName[p] \notin Names /\ BackupName[q] \notin Names
  BY NameType
<1>2. BackupName[p] = BackupName[q] => p = q
  BY ExtractAssumption
<1>. QED
  BY <1>1, <1>2

(* The member at hand is created or removed, or its directory is used.     *)
LEMMA MemberBackedUp ==
  ASSUME Typed, NewInodes, Next, pc \in {"prepare", "create"}, Effect({current.path}),
         UNCHANGED <<todo, backed_up>>, pc' \in {"next", "prepare", "create", "undo"},
         fs' = fs \/ fs'[current.path] = None \/ pc' = "next",
         \/ PathsOf(delayed_set_stat') \subseteq PathsOf(delayed_set_stat)
         \/ pc' = "next" /\ fs'[current.path].kind = "dir",
         NEW p \in Names, tree[p].kind = "file", Untouched(p) \/ Saved(p)
  PROVE  (Untouched(p) \/ Saved(p))'
<1> DEFINE b == BackupName[p]
<1>1. current.path \in Names /\ current.path \in Paths
  BY CurrentType
<1>2. UNCHANGED <<archive, tree, current>>
  BY ControlStep DEF Typed, given, current
<1>3. CASE p # current.path
  <2>1. p \notin {current.path} /\ b \notin {current.path}
    BY <1>1, <1>3, BackupApart
  <2>2. ~ AtHand(p)'
    BY <1>2, <1>3 DEF AtHand
  <2> HIDE DEF b
  <2>. QED
    BY <2>1, <2>2, ElsewhereStep DEF b
<1>4. CASE p = current.path
  <2>1. /\ Saved(p) /\ p \notin PathsOf(delayed_set_stat)
        /\ Exists(p) => fs[p].kind # "dir" /\ Writable(Parent(p))
    BY <1>4 DEF Untouched, Saved, AtHand
  <2>2. p \in Paths /\ b \in Paths /\ b # p
    BY NameType
  <2>3. fs'[b] = tree'[p]
    <3>1. fs[b] = tree[p] /\ fs[b].kind # "dir"
      BY <2>1 DEF Saved
    <3>2. fs'[b] = fs[b]
      BY <1>4, <2>2, <3>1, FrameMeaning DEF Effect
    <3>. QED
      BY <1>2, <3>1, <3>2
  <2>4. Visited(p)'
    BY <2>1, VisitedStep DEF Saved
  <2>5. p \in PathsOf(delayed_set_stat') => pc' = "next" /\ fs'[p].kind = "dir"
    BY <1>4, <2>1
  <2>6. AtHand(p)' /\ Exists(p)' => fs'[p].kind # "dir" /\ Writable(Parent(p))'
    <3>1. fs'[p].kind # "none" /\ pc' # "next" => fs' = fs
      BY <1>4, NoneType
    <3>2. fs' = fs => Exists(p)' = Exists(p) /\ Writable(Parent(p))' = Writable(Parent(p))
      BY DEF Exists, Writable
    <3>. QED
      BY <2>1, <3>1, <3>2 DEF AtHand, Exists
  <2>7. Saved(p)'
    BY <2>3, <2>4, <2>5, <2>6 DEF Saved, AtHand
  <2>. QED
    BY <2>7
<1>. QED
  BY <1>3, <1>4

LEMMA ExtractorBackedUp ==
  ASSUME Typed, NewInodes, options.backup,
         \/ MakeDir \/ MakeFile \/ MakeSymlink \/ MakePlaceholder \/ MakeLink
         \/ UseDir \/ Prepare \/ RemoveOld,
         NEW p \in Names, tree[p].kind = "file", Untouched(p) \/ Saved(p)
  PROVE  (Untouched(p) \/ Saved(p))'
<1>1. Next
  BY DEF Next, Extractor
<1>2. CASE MakeDir \/ MakeFile \/ MakeSymlink \/ MakePlaceholder \/ MakeLink
  <2>1. pc = "create" /\ pc' = "next" /\ UNCHANGED <<todo, backed_up>>
    BY <1>2 DEF MakeDir, MakeFile, MakeSymlink, MakePlaceholder, MakeLink, Creating, delayed
  <2>. QED
    BY <1>1, <1>2, <2>1, MakeEffect, MemberBackedUp
<1>3. CASE Prepare \/ RemoveOld
  <2>1. /\ pc \in {"prepare", "create"} /\ pc' \in {"next", "create"}
        /\ UNCHANGED <<todo, backed_up, delayed_set_stat>>
    BY <1>3 DEF Prepare, RemoveOld, Failing, delayed, control
  <2>2. PathsOf(delayed_set_stat') \subseteq PathsOf(delayed_set_stat)
    BY <2>1
  <2>. QED
    BY <1>1, <1>3, <2>1, <2>2, RemoveEffect, MemberBackedUp
<1>4. CASE UseDir
  <2>1. /\ pc = "create" /\ pc' = "undo" /\ UNCHANGED <<archive, tree, todo, backed_up>>
        /\ CreateErrno = "EEXIST"
        /\ fs[current.path].kind = "dir" \/ ~ Removable(current.path)
    BY <1>4 DEF UseDir, UsesOld, Creating, AfterFailure, given
  <2>2. current.path \in Paths /\ current.path \in Names
    BY <2>1, CurrentType
  <2>3. Effect({current.path}) /\ fs' = fs
    BY <1>4, UseDirEffect
  <2>4. Exists(current.path)
    BY <2>1, <2>2, ErrnoMeaning DEF CreateErrno, Exists
(* Of a file that was backed up nothing is left that could not be removed. *)
  <2>5. p # current.path
    <3> SUFFICES ASSUME p = current.path PROVE FALSE
      OBVIOUS
    <3>1. fs[p].kind # "dir" /\ Writable(Parent(p))
      BY <2>1, <2>4 DEF Untouched, Saved, AtHand
    <3>. QED
      BY <2>1, <2>4, <3>1 DEF Removable
  <2>6. BackupName[p] # current.path
    BY <2>2, BackupApart
  <2>7. ~ AtHand(p)'
    BY <2>1 DEF AtHand
  <2>. QED
    BY <1>1, <2>1, <2>3, <2>5, <2>6, <2>7, ElsewhereStep
<1>. QED
  BY <1>2, <1>3, <1>4

LEMMA DirectoriesBackedUp ==
  ASSUME Typed, NewInodes, MakeDirectories,
         NEW p \in Names, tree[p].kind = "file", Untouched(p) \/ Saved(p)
  PROVE  (Untouched(p) \/ Saved(p))'
<1> DEFINE b == BackupName[p]
<1>1. /\ pc = "create" /\ pc' = pc /\ UNCHANGED <<archive, tree, todo, backed_up, current>>
      /\ Next
  BY DEF MakeDirectories, Failing, given, current, Next, Extractor
<1>2. p \in Paths /\ b \in Paths /\ b \notin Names
  BY NameType
<1>3. /\ Effect(Missing) /\ current.path \notin Missing /\ fs[current.path].kind = "none"
      /\ \A q \in Missing : q \in Names /\ fs[q].kind = "none" /\ fs'[q].kind = "dir"
  BY MakeDirectoriesEffect
<1>4. b \notin Missing
  BY <1>2, <1>3
<1> HIDE DEF b
<1>5. CASE Untouched(p)
  <2>1. p \notin Missing /\ ~ AtHand(p)'
    BY <1>1, <1>3, <1>5 DEF Untouched, AtHand
  <2>. QED
    BY <1>1, <1>3, <1>4, <2>1, ElsewhereStep DEF b
<1>6. CASE Saved(p)
  <2>1. fs'[b] = tree'[p]
    <3>1. fs[b] = tree[p] /\ fs[b].kind # "dir"
      BY <1>6 DEF Saved, b
    <3>2. fs'[b] = fs[b]
      BY <1>2, <1>3, <1>4, <3>1, FrameMeaning DEF Effect
    <3>. QED
      BY <1>1, <3>1, <3>2
  <2>2. Visited(p)'
    BY <1>1, <1>6, VisitedStep DEF Saved
  <2>3. CASE p \in Missing
    <3>1. fs'[p].kind = "dir" /\ ~ AtHand(p)'
      BY <1>1, <1>3, <2>3 DEF AtHand
    <3>2. Saved(p)'
      BY <2>1, <2>2, <3>1 DEF Saved, b
    <3>. QED
      BY <3>2
  <2>4. CASE p \notin Missing
    <3>1. fs'[p].kind = fs[p].kind
      BY <1>2, <1>3, <2>4, FrameMeaning DEF Effect
    <3>2. p \in PathsOf(delayed_set_stat') => p \in PathsOf(delayed_set_stat)
      BY <1>3, <2>4 DEF Effect
    <3>3. AtHand(p)' => AtHand(p) /\ ~ Exists(p)'
      BY <1>1, <1>3, <3>1 DEF AtHand, Exists
    <3>4. Saved(p)'
      BY <1>1, <1>6, <2>1, <2>2, <3>1, <3>2, <3>3 DEF Saved, b
    <3>. QED
      BY <3>4
  <2>. QED
    BY <2>3, <2>4
<1>. QED
  BY <1>5, <1>6

LEMMA StatusBackedUp ==
  ASSUME Typed, NewInodes, FixDirectory,
         NEW p \in Names, tree[p].kind = "file", Untouched(p) \/ Saved(p)
  PROVE  (Untouched(p) \/ Saved(p))'
<1> DEFINE b == BackupName[p]
<1>1. /\ pc \in {"fix", "finish", "fixlast"} /\ pc' = pc /\ Next
      /\ UNCHANGED <<archive, tree, todo, backed_up>>
  BY DEF FixDirectory, MustFix, given, Next
<1>2. /\ Effect({Head1.path}) /\ Head1.path \in PathsOf(delayed_set_stat)
      /\ Head1.path \in Names /\ fs'[Head1.path].kind = fs[Head1.path].kind
  BY FixEffect
<1>3. b # Head1.path /\ b \in Paths /\ ~ AtHand(p)'
  BY <1>1, <1>2, BackupApart, NameType DEF AtHand
<1> HIDE DEF b
<1>4. CASE p # Head1.path
  BY <1>1, <1>2, <1>3, <1>4, ElsewhereStep DEF b
<1>5. CASE p = Head1.path
  <2>1. Saved(p)
    BY <1>2, <1>5 DEF Untouched
  <2>2. fs'[b] = tree'[p]
    <3>1. fs[b] = tree[p] /\ fs[b].kind # "dir"
      BY <2>1 DEF Saved, b
    <3>2. fs'[b] = fs[b]
      BY <1>2, <1>3, <3>1, FrameMeaning DEF Effect
    <3>. QED
      BY <1>1, <3>1, <3>2
  <2>3. Visited(p)'
    BY <1>1, <2>1, VisitedStep DEF Saved
  <2>4. Saved(p)'
    BY <1>1, <1>2, <1>3, <1>5, <2>1, <2>2, <2>3 DEF Saved, b
  <2>. QED
    BY <2>4
<1>. QED
  BY <1>4, <1>5
LEMMA QuietBackedUp ==
  ASSUME Typed, NewInodes,
         NextMember \/ UseLink \/ Fail \/ Finish \/ StartLinks \/ LinksDone \/ Done,
         NEW p \in Names, tree[p].kind = "file", Untouched(p) \/ Saved(p)
  PROVE  (Untouched(p) \/ Saved(p))'
<1>1. Next
  BY DEF Next, Extractor, ExtractFinish
<1>2. fs' = fs /\ UNCHANGED <<delayed_set_stat, delayed_link, backed_up>>
  BY DEF NextMember, UseLink, Fail, Finish, StartLinks, LinksDone, Done, disk, delayed
<1>3. /\ pc \in {"links", "fixlast", "done"} => pc' \in {"links", "fixlast", "done"}
      /\ pc' \notin {"prepare", "create"}
  BY DEF NextMember, UseLink, LinkIsThere, Fail, Failing, AfterFailure, Finish, StartLinks,
         LinksDone, Done
<1>4. ~ AtHand(p)'
  BY <1>3 DEF AtHand
<1>5. Effect({})
  BY <1>2, QuietEffect
<1>. QED
  BY <1>1, <1>2, <1>3, <1>4, <1>5, ElsewhereStep

(* A file is renamed, or its member is not extracted.                      *)
LEMMA RenameBackedUp ==
  ASSUME Typed, NewInodes, MaybeBackupFile,
         NEW p \in Names, tree[p].kind = "file", Once(p), Untouched(p) \/ Saved(p)
  PROVE  (Untouched(p) \/ Saved(p))'
<1> DEFINE b == BackupName[p]
           c == current.path
<1>1. /\ pc = "fix" /\ pc' \in {"next", "prepare"} /\ Next
      /\ UNCHANGED <<archive, tree, todo, current, delayed_set_stat, delayed_link>>
  BY DEF MaybeBackupFile, Next, given, current
<1>2. c \in Names /\ todo \in DOMAIN archive /\ todo \in Nat /\ archive \in Seq(Member)
  BY <1>1, CurrentType DEF Typed, GivenTyped
<1>3. p \in Paths /\ b \in Paths /\ b # p /\ Ancestors[b] = Ancestors[p] /\ p # Root
  BY NameType, BackupAncestors, PathType
<1>4. CASE p # c
  <2>1. p \notin {c, BackupName[c]} /\ b \notin {c, BackupName[c]}
    BY <1>2, <1>4, BackupApart
  <2>2. Effect({c, BackupName[c]})
    BY <1>1, QuietEffect, BackUpEffect
  <2>3. backed_up' # p \/ backed_up' = backed_up
    BY <1>3, <1>4 DEF MaybeBackupFile
  <2>4. ~ AtHand(p)'
    BY <1>1, <1>4 DEF AtHand
  <2> HIDE DEF b, c
  <2>. QED
    BY <1>1, <2>1, <2>2, <2>3, <2>4, ElsewhereStep DEF b
<1>5. CASE p = c
(* It is the one member of its name, and has not been visited.             *)
  <2>1. ~ Visited(p)
    <3> SUFFICES ASSUME NEW i \in 1 .. todo, archive[i].path = p, i # todo
                 PROVE  FALSE
      BY <1>1 DEF Visited
    <3>1. archive[todo].path = p
      BY <1>5 DEF current
    <3>2. i \in DOMAIN archive /\ i < todo
      BY <1>2, LenProperties
    <3>. QED
      BY <1>2, <3>1, <3>2 DEF Once
  <2>2. /\ fs[p] = tree[p] /\ p \notin PathsOf(delayed_set_stat)
        /\ fs[b].kind = "dir" \/ fs[b] = tree[b]
    BY <2>1 DEF Untouched, Saved
  <2>3. Visited(p)' \/ pc' = "fix"
    <3>1. todo \in 1 .. todo /\ archive[todo].path = p
      BY <1>2, <1>5, LenProperties DEF current
    <3>. QED
      BY <1>1, <3>1 DEF Visited
  <2>4. StatKind(p) = "file"
    BY <2>2 DEF StatKind
  <2>5. CASE CanRename(p, b)
    <3>1. fs' = Renamed(p, b)
      BY <1>5, <2>4, <2>5 DEF MaybeBackupFile
    <3>2. /\ Frame({p, b})
          /\ \/ fs' = fs /\ fs[p].ino = fs[b].ino
             \/ fs'[p] = None /\ fs'[b] = fs[p]
      BY <1>3, <2>5, <3>1, RenameFrame
    <3>3. fs'[b] = tree[p] /\ (fs'[p] = None \/ fs'[p] = tree[p])
      <4>1. CASE fs' = fs /\ fs[p].ino = fs[b].ino
        <5>1. fs[b] = tree[b] /\ tree[b].ino = tree[p].ino
          BY <2>2, <2>5, <4>1 DEF CanRename
        <5>2. tree[b] = tree[p]
          BY <1>3, <5>1, TreeType DEF NewInodes
        <5>. QED
          BY <2>2, <4>1, <5>1, <5>2
      <4>. QED
        BY <2>2, <3>2, <4>1
    <3>4. Writable(Parent(p))'
      <4>1. Writable(Parent(p))
        BY <2>5 DEF CanRename
      <4>2. CASE Parent(p) = Root
        BY <4>2 DEF Writable
      <4>3. CASE Parent(p) # Root
        <5>1. Parent(p) \in Ancestors[p]
          BY <1>3, <4>3, ParentType
        <5>2. Parent(p) \in Paths /\ Parent(p) \notin {p, b}
          BY <1>3, <5>1, AncestorType
        <5>3. fs'[Parent(p)].writable = fs[Parent(p)].writable
          BY <3>2, <5>2, FrameMeaning
        <5>. QED
          BY <4>1, <5>3 DEF Writable
      <4>. QED
        BY <4>2, <4>3
    <3>5. fs'[p].kind # "dir"
      BY <3>3, NoneType
    <3>6. Saved(p)'
      BY <1>1, <2>2, <2>3, <3>3, <3>4, <3>5 DEF Saved
    <3>. QED
      BY <3>6
  <2>6. CASE ~ CanRename(p, b)
    <3>1. fs' = fs /\ backed_up' = Root /\ pc' = "next"
      BY <1>5, <2>4, <2>6 DEF MaybeBackupFile
    <3>2. Untouched(p)'
      BY <1>1, <1>3, <2>2, <2>3, <3>1 DEF Untouched, AtHand
    <3>. QED
      BY <3>2
  <2>. QED
    BY <2>5, <2>6
<1>. QED
  BY <1>4, <1>5

LEMMA UndoBackedUp ==
  ASSUME Typed, NewInodes, UndoLastBackup,
         NEW p \in Names, tree[p].kind = "file", Untouched(p) \/ Saved(p)
  PROVE  (Untouched(p) \/ Saved(p))'
<1> DEFINE b == BackupName[p]
           c == backed_up
<1>1. /\ pc = "undo" /\ pc' = "next" /\ backed_up' = Root /\ Next
      /\ UNCHANGED <<archive, tree, todo, delayed_set_stat, delayed_link>>
  BY DEF UndoLastBackup, Next, Extractor, given
<1>2. p \in Paths /\ b \in Paths /\ b # p /\ p # Root
  BY NameType, PathType
<1>3. ~ AtHand(p)'
  BY <1>1 DEF AtHand
<1>4. CASE fs' = fs
  <2>1. Effect({})
    BY <1>1, <1>4, QuietEffect
  <2> HIDE DEF b, c
  <2>. QED
    BY <1>1, <1>2, <1>3, <2>1, ElsewhereStep
<1>5. CASE fs' # fs
  <2>1. /\ c \in Names /\ Effect({c, BackupName[c]}) /\ CanRename(BackupName[c], c)
        /\ fs'[c] = fs[BackupName[c]]
    BY <1>5, UndoEffect
  <2>2. CASE p # c
    <3>1. p \notin {c, BackupName[c]} /\ b \notin {c, BackupName[c]}
      BY <2>1, <2>2, BackupApart
    <3> HIDE DEF b, c
    <3>. QED
      BY <1>1, <1>2, <1>3, <2>1, <3>1, ElsewhereStep DEF b
  <2>3. CASE p = c
    <3>1. Saved(p) /\ fs[b] = tree[p] /\ fs[p].kind # "dir"
      BY <2>1, <2>3 DEF Untouched, Saved, CanRename
    <3>2. p \notin PathsOf(delayed_set_stat)
      BY <1>1, <3>1 DEF Saved
    <3>3. Visited(p)'
      BY <1>1, <3>1, VisitedStep DEF Saved
    <3>4. fs'[p] = tree[p]
      BY <2>1, <2>3, <3>1
    <3>5. Untouched(p)'
      BY <1>1, <1>2, <1>3, <3>2, <3>3, <3>4 DEF Untouched
    <3>. QED
      BY <3>5
  <2>. QED
    BY <2>2, <2>3
<1>. QED
  BY <1>4, <1>5

(* A file that was there, or its backup, is no placeholder.                *)
LEMMA LinksBackedUp ==
  ASSUME Typed, NewInodes, ApplyDelayedLink,
         NEW p \in Names, tree[p].kind = "file", Untouched(p) \/ Saved(p)
  PROVE  (Untouched(p) \/ Saved(p))'
<1> DEFINE b == BackupName[p]
           ds == delayed_link[1]
           source == ds.sources[1]
<1>1. /\ pc = "links" /\ pc' = "links" /\ Next /\ delayed_link # <<>>
      /\ UNCHANGED <<archive, tree, todo, delayed_set_stat, backed_up>>
  BY DEF ApplyDelayedLink, Next, ExtractFinish, given
<1>2. p \in Paths /\ b \in Paths /\ b # p /\ ~ AtHand(p)'
  BY <1>1, NameType DEF AtHand
<1>3. /\ Effect({source}) /\ source \in Paths /\ source \in SourcesOf(delayed_link)
      /\ fs' # fs => fs[source].ino = ds.ino
  BY LinkEffect
<1>4. /\ Cardinality(Paths) < ds.ino /\ ds.ino \in Nat /\ NoDirectory(ds.ino)
  <2>1. delayed_link \in Seq(Link) /\ Len(delayed_link) \in Nat /\ Len(delayed_link) > 0
    BY <1>1, EmptySeq, LenProperties DEF Typed, LinksTyped
  <2>2. 1 \in DOMAIN delayed_link /\ ds \in Link
    BY <2>1, LenProperties, ElementOfSeq
  <2>. QED
    BY <2>2 DEF NewInodes, Typed, LinksTyped, Link
<1>5. \A q \in Paths : tree[q].ino # ds.ino
  <2> SUFFICES ASSUME NEW q \in Paths PROVE tree[q].ino # ds.ino
    OBVIOUS
  <2>1. tree[q].ino \in Nat /\ tree[q].ino <= Cardinality(Paths)
    BY TreeType DEF NewInodes, Inode
  <2>2. Cardinality(Paths) \in Nat
    BY ExtractAssumption, FS_CardinalityType
  <2> DEFINE n == ds.ino m == tree[q].ino
  <2>3. n \in Nat /\ Cardinality(Paths) < n /\ m \in Nat /\ m <= Cardinality(Paths)
    BY <1>4, <2>1
  <2> HIDE DEF n, m
  <2>4. m # n
    BY <2>2, <2>3
  <2>. QED
    BY <2>4 DEF m, n
<1>6. CASE fs' = fs
  <2>1. Effect({})
    <3>1. Frame({})
      BY <1>6, SameFrame
    <3>2. SourcesOf(delayed_link') \subseteq SourcesOf(delayed_link)
      BY <1>3 DEF Effect
    <3>. QED
      BY <1>1, <3>1, <3>2 DEF Effect
  <2> HIDE DEF b, source, ds
  <2>. QED
    BY <1>1, <1>2, <2>1, ElsewhereStep
<1>7. CASE fs' # fs /\ source # p /\ source # b
  <2> HIDE DEF source, ds
  <2>. QED
    BY <1>1, <1>2, <1>3, <1>7, ElsewhereStep
<1>8. CASE fs' # fs /\ source = p
  <2>1. Saved(p)
    BY <1>2, <1>3, <1>5, <1>8 DEF Untouched
  <2>2. fs'[b] = tree[p]
    <3>1. fs[b] = tree[p] /\ fs[b].kind # "dir"
      BY <2>1 DEF Saved
    <3>2. fs'[b] = fs[b]
      BY <1>2, <1>3, <1>8, <3>1, FrameMeaning DEF Effect
    <3>. QED
      BY <3>1, <3>2
  <2>3. Visited(p)'
    BY <1>1, <2>1, VisitedStep DEF Saved
  <2>4. Saved(p)'
    BY <1>1, <1>2, <2>2, <2>3 DEF Saved
  <2>. QED
    BY <2>4
<1>9. CASE fs' # fs /\ source = b
  <2>1. fs[b].ino = ds.ino /\ fs[b].kind # "dir" /\ fs[b] # tree[b] /\ fs[b] # tree[p]
    BY <1>2, <1>3, <1>4, <1>5, <1>9 DEF NoDirectory
  <2>2. Untouched(p) /\ Visited(p)
    BY <2>1 DEF Untouched, Saved
  <2>3. fs'[p] = tree[p]
    <3>1. fs[p] = tree[p] /\ fs[p].kind # "dir"
      BY <2>2 DEF Untouched
    <3>2. fs'[p] = fs[p]
      BY <1>2, <1>3, <1>9, <3>1, FrameMeaning DEF Effect
    <3>. QED
      BY <3>1, <3>2
  <2>4. Visited(p)'
    BY <1>1, <2>2, VisitedStep
  <2>5. Untouched(p)'
    BY <1>1, <1>2, <2>2, <2>3, <2>4 DEF Untouched
  <2>. QED
    BY <2>5
<1>. QED
  BY <1>6, <1>7, <1>8, <1>9

LEMMA BackedUpStep ==
  ASSUME Typed, NewInodes, BackedUp, Next
  PROVE  BackedUp'
<1>1. UNCHANGED <<options, archive, tree>>
  BY ControlStep DEF Typed, given
<1> SUFFICES ASSUME options.backup, NEW p \in Names, tree[p].kind = "file", Once(p)
             PROVE  (Untouched(p) \/ Saved(p))'
  BY <1>1 DEF BackedUp, Once
<1>2. Untouched(p) \/ Saved(p)
  BY DEF BackedUp
<1>3. CASE NextMember \/ UseLink \/ Fail \/ Finish \/ StartLinks \/ LinksDone \/ Done
  BY <1>2, <1>3, QuietBackedUp
<1>4. CASE \/ MakeDir \/ MakeFile \/ MakeSymlink \/ MakePlaceholder \/ MakeLink
           \/ UseDir \/ Prepare \/ RemoveOld
  BY <1>2, <1>4, ExtractorBackedUp
<1>5. CASE MakeDirectories
  BY <1>2, <1>5, DirectoriesBackedUp
<1>6. CASE FixDirectory
  BY <1>2, <1>6, StatusBackedUp
<1>7. CASE MaybeBackupFile
  BY <1>2, <1>7, RenameBackedUp
<1>8. CASE UndoLastBackup
  BY <1>2, <1>8, UndoBackedUp
<1>9. CASE ApplyDelayedLink
  BY <1>2, <1>9, LinksBackedUp
<1>. QED
  BY <1>3, <1>4, <1>5, <1>6, <1>7, <1>8, <1>9 DEF Next, Extractor, ExtractFinish
------------------------------------------------------------------------------
OldInv == Typed /\ NewInodes /\ KeepsOld /\ BackedUp

LEMMA OldInvStep ==
  ASSUME OldInv, [Next]_vars
  PROVE  OldInv'
<1>1. CASE Next
  <2>1. Typed' /\ NewInodes' /\ KeepsOld' /\ BackedUp'
    BY <1>1, TypedStep, NewInodesStep, KeptStep, BackedUpStep DEF OldInv
  <2>. QED
    BY <2>1 DEF OldInv
<1>2. CASE UNCHANGED vars
  <2>1. UNCHANGED <<given, disk, delayed, control>>
    BY <1>2 DEF vars
  <2>2. /\ UNCHANGED <<options, archive, tree, fs, inodes, todo, pc>>
        /\ UNCHANGED <<delayed_set_stat, delayed_link, backed_up>>
    BY <2>1 DEF given, disk, delayed, control
  <2>3. Typed'
    BY <1>2, TypedStep DEF OldInv
  <2>4. NewInodes'
    BY <2>2 DEF OldInv, NewInodes
  <2>5. KeepsOld'
    BY <2>2 DEF OldInv, KeepsOld, Kept, SameAsBefore
  <2>6. BackedUp'
    <3> SUFFICES ASSUME options.backup, NEW p \in Names, tree[p].kind = "file", Once(p)
                 PROVE  (Untouched(p) \/ Saved(p))'
      BY <2>2 DEF BackedUp, Once
    <3>1. Untouched(p) \/ Saved(p)
      BY DEF OldInv, BackedUp
    <3>2. Visited(p)' <=> Visited(p)
      BY <2>2 DEF Visited
    <3>3. AtHand(p)' <=> AtHand(p)
      BY <2>2 DEF AtHand, current
    <3>4. Untouched(p) => Untouched(p)'
      BY <2>2, <3>2, <3>3 DEF Untouched
    <3>5. Saved(p) => Saved(p)'
      BY <2>2, <3>2, <3>3 DEF Saved, Exists, Writable
    <3>. QED
      BY <3>1, <3>4, <3>5
  <2>. QED
    BY <2>3, <2>4, <2>5, <2>6 DEF OldInv
<1>. QED
  BY <1>1, <1>2

LEMMA OldInvImpliesKept ==
  ASSUME OldInv
  PROVE  OldFilesKept
<1> SUFFICES ASSUME NEW p \in Paths, tree[p].kind # "none"
             PROVE  /\ options.old_files = "KEEP" /\ ~ options.backup => SameAsBefore(p)
                    /\ options.backup /\ p \in Names /\ tree[p].kind # "dir" =>
                         tree[p] \in {fs[p], fs[BackupName[p]]} \/ ~ Once(p)
  BY DEF OldFilesKept, SameAsBefore, Once
<1>1. options.old_files = "KEEP" /\ ~ options.backup => SameAsBefore(p)
  BY DEF OldInv, KeepsOld, Kept
<1>2. ASSUME options.backup, p \in Names, tree[p].kind # "dir", Once(p)
      PROVE  tree[p] \in {fs[p], fs[BackupName[p]]}
  <2>1. tree[p].kind = "file"
    BY <1>2, TreeType DEF OldInv, NewInodes
  <2>2. Untouched(p) \/ Saved(p)
    BY <1>2, <2>1 DEF OldInv, BackedUp
  <2>. QED
    BY <2>2 DEF Untouched, Saved
<1>. QED
  BY <1>1, <1>2

(* Whatever the archive, the tree and the order of failures: with          *)
(* --keep-old-files nothing that was there is changed or replaced, and what*)
(* extract_finish does later concerns only what tar made                   *)
(* (extract.c:510-513); with --backup a file that was there has its name or*)
(* that of its backup at every step, although maybe_backup_file and        *)
(* undo_last_backup (misc.c:421-498) rename it back and forth while        *)
(* recovery removes what is in the way.                                    *)
THEOREM OldFilesSafe == Spec => []OldFilesKept
<1>1. Init => OldInv
  BY TypedInit, NewInodesInit, KeptInit, BackedUpInit DEF OldInv
<1>2. OldInv /\ [Next]_vars => OldInv'
  BY OldInvStep
<1>3. OldInv => OldFilesKept
  BY OldInvImpliesKept
<1>. QED
  BY <1>1, <1>2, <1>3, PTL DEF Spec
================================================================================
