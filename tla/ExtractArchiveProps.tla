------------------------- MODULE ExtractArchiveProps --------------------------
(***************************************************************************)
(* The properties of ExtractArchive.                                       *)
(***************************************************************************)
EXTENDS ExtractArchive

Entry == [path : Names, member : Nat, ino : Nat, invert : BOOLEAN,
          permstatus : {"UNKNOWN", "ARCHIVED", "INTERDIR"}, after_links : BOOLEAN]
DelayedLink == [ino : Nat, is_symlink : BOOLEAN, member : Nat, sources : Seq(Paths)]

TypeOK ==
  /\ archive \in Seq(Member)
  /\ fs \in [Paths -> Inode]
  /\ inodes \in Nat
  /\ delayed_set_stat \in Seq(Entry)
  /\ delayed_link \in Seq(DelayedLink)
  /\ valid_source \in Paths \cup {Root} /\ backed_up \in Names \cup {Root}
  /\ todo \in 0 .. Len(archive)
  /\ interdir_made \in BOOLEAN /\ exit_status \in BOOLEAN
  /\ pc \in {"next", "fix", "prepare", "create", "undo", "finish", "links", "fixlast", "done"}
  /\ \A p \in Paths : Exists(p) => \A q \in Ancestors[p] : fs[q].kind = "dir"

(* The last member of each name.                                           *)
IsLast(i) == \A j \in i + 1 .. Len(archive) : archive[j].path # archive[i].path
LastMembers == {i \in DOMAIN archive : IsLast(i)}

(* The names of delayed links, and the links to them that tar makes at once*)
Delayed(i) == archive[i].type \in {"symlink", "link"} /\ archive[i].unsafe
LinkToDelayed(i) ==
  /\ archive[i].type = "link"
  /\ \E j \in 1 .. i - 1 : Delayed(j) /\ archive[j].path = archive[i].target

OnlyOne(i) == \A k \in DOMAIN archive : archive[k].path = archive[i].path => k = i

(* After i, what is in its directory comes without interruption (the order *)
(* that the NOTICE at delay_set_stat calls usual, extract.c:333-345).      *)
UsualOrder(i) ==
  \A k \in i + 1 .. Len(archive) :
    IsAncestor(archive[i].path, archive[k].path) =>
      \A j \in i + 1 .. k : IsAncestor(archive[i].path, archive[j].path)

(* The directory of i holds no placeholder (and if it was extracted twice, *)
(* nothing below it does either), or it waits for those it holds.          *)
IsPlaceholderMember(k) == Delayed(k) \/ LinkToDelayed(k)
Unlinked(i) ==
  \A k \in DOMAIN archive :
    IsPlaceholderMember(k) =>
      IF OnlyOne(i) THEN Parent(archive[k].path) # archive[i].path
      ELSE ~ IsAncestor(archive[i].path, archive[k].path)
WaitsForLinks(i) ==
  /\ ~ options.delay_directory_restore
  /\ OnlyOne(i)
  /\ \A k \in DOMAIN archive :
       Parent(archive[k].path) = archive[i].path => k > i /\ ~ LinkToDelayed(k)

(* Directory i is one that tar extracted, and has its status.              *)
Restorable(i) ==
  LET dir == fs[archive[i].path] IN
  /\ archive[i].type = "dir" /\ dir.kind = "dir"
  /\ dir.from = i \/ options.old_files = "DEFAULT"
  /\ IF options.delay_directory_restore THEN OnlyOne(i) ELSE UsualOrder(i)

HasStatus(i) ==
  LET dir == fs[archive[i].path] IN
  /\ dir.mtime = i
  /\ dir.from = i \/ options.same_permissions => dir.writable = archive[i].writable

(* When tar ends, every directory it extracted has the time and the write  *)
(* permission of its last member, whatever was put into it or removed from *)
(* it since: set_stat comes after the last change (extract.c:560-619,      *)
(* 1324-1337).                                                             *)
DirectoriesRestored ==
  pc = "done" =>
    \A i \in LastMembers : Restorable(i) /\ (Unlinked(i) \/ WaitsForLinks(i)) => HasStatus(i)

(* The list of directories is what the comment on it says (extract.c:48):  *)
(* those that wait for links are behind those that do not, and each of the *)
(* latter is an ancestor of the one before it.                             *)
DelayedOrder ==
  ~ options.delay_directory_restore =>
    \A i \in 1 .. Len(delayed_set_stat) - 1 :
      LET d == delayed_set_stat[i] next == delayed_set_stat[i + 1] IN
      next.after_links \/ (~ d.after_links /\ IsAncestor(next.path, d.path))

(* With --keep-old-files nothing that was there is changed or replaced, not*)
(* even by what tar does at the end (extract.c:510-513).  With --backup a  *)
(* file that was there has its name or that of its backup, whatever failed *)
(* and was undone, if no two members have its name (misc.c:421-498).       *)
OldFilesKept ==
  \A p \in Paths : tree[p].kind # "none" =>
    /\ options.old_files = "KEEP" /\ ~ options.backup =>
         IF tree[p].kind = "dir" THEN [fs[p] EXCEPT !.mtime = tree[p].mtime] = tree[p]
         ELSE fs[p] = tree[p]
    /\ options.backup /\ p \in Names /\ tree[p].kind # "dir" =>
         \/ tree[p] \in {fs[p], fs[BackupName[p]]}
         \/ \E i, k \in DOMAIN archive : i < k /\ {archive[i].path, archive[k].path} = {p}

(* Member i is what its name holds.                                        *)
Extracted(i) ==
  LET m == archive[i] inode == fs[m.path] IN
  CASE m.type = "dir" -> inode.kind = "dir"
    [] m.type = "link" -> inode = fs[m.target]
    [] OTHER -> inode.kind = m.type /\ inode.from = i

MayBeReadOnly(p) ==
  \/ p # Root /\ ~ tree[p].writable
  \/ \E k \in DOMAIN archive : archive[k].path = p /\ ~ archive[k].writable

(* Cases in which tar is silent though a name does not hold its member.    *)
Excused(i) ==
  LET m == archive[i] inode == fs[m.path] IN
  \/ m.type = "dir" /\ options.old_files = "KEEP"
  \/ m.type = "dir" /\ inode.kind = "file" /\ MayBeReadOnly(Parent(m.path))
  \/ m.type = "link" /\ \E j \in i + 1 .. Len(archive) : archive[j].path = m.target
  \/ Delayed(i) /\ LinkToDelayed(i)

(* No directory comes after a member that may have been backed up.         *)
NoDirectoryAfterBackup ==
  \A i, k \in DOMAIN archive : i < k /\ archive[k].type = "dir" =>
    tree[archive[i].path].kind \in {"none", "dir"} /\ OnlyOne(i)

(* If tar reports nothing, every name holds the last member of that name:  *)
(* no placeholder is left and no link was lost, whatever came later.       *)
SuccessfulExtraction ==
  pc = "done" /\ ~ exit_status /\ (options.backup => NoDirectoryAfterBackup) =>
    \A i \in LastMembers : Extracted(i) \/ Excused(i)

(* A backup is undone for the member it was made for, when that failed     *)
(* ("This is usually only needed after a failed extraction", misc.c:479):  *)
(* if tar reports nothing, a name holds the file that was extracted to it. *)
ExtractedFileStays ==
  pc = "done" /\ ~ exit_status /\ options.backup =>
    \A i \in LastMembers : archive[i].type = "file" => fs[archive[i].path].from = i
==============================================================================
