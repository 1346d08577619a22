---------------------------- MODULE ExtractArchive ----------------------------
(***************************************************************************)
(* `tar --extract' on a file system, for a user who is not root: what      *)
(* extract.c does for each member, the list of directories whose status is *)
(* set later (delayed_set_stat_head) and the list of links that are made   *)
(* at the end (delayed_link_head).                                         *)
(*                                                                         *)
(* A path is a sequence of names; names do not pass through symbolic links *)
(* and hold no `..' (only the targets of links may).  Of a mode the owner's*)
(* write permission is modelled; the umask leaves it alone.  Two inodes    *)
(* are told apart by number and time, so every creation takes a new one.   *)
(***************************************************************************)
EXTENDS Naturals, FiniteSets, Sequences

CONSTANTS
  Names,        \* the names of members, with those of their parents
  Paths,        \* these, and the names of backups
  BackupName,   \* find_backup_file_name, for simple backups
  Archives,     \* the archives that may be extracted
  Trees,        \* the file systems that may be there before
  Options       \* the settings of the options tar may be given

Types == {"dir", "file", "symlink", "link"}
OldFiles == {"DEFAULT", "NO_OVERWRITE_DIR", "UNLINK_FIRST", "KEEP"}

(* What the header of a member says.  A target is unsafe if it is absolute *)
(* or, written with `..', leads out of the tree; it is kept here resolved. *)
Member == [type : Types, path : Names, target : Names, unsafe : BOOLEAN,
           writable : BOOLEAN]

(* An inode.  `from' is the member whose contents it has, mtime the member *)
(* whose time it has; 0 stands for no member and for the current time.     *)
Inode == [kind : {"none", "dir", "file", "symlink", "placeholder"},
          ino : Nat, from : Nat, writable : BOOLEAN, mtime : Nat]

None == [kind |-> "none", ino |-> 0, from |-> 0, writable |-> FALSE, mtime |-> 0]

ASSUME ExtractAssumption ==
  /\ Paths \subseteq Seq(STRING) \ {<<>>}
  /\ \A p \in Paths : \A n \in 1 .. Len(p) : SubSeq(p, 1, n) \in Paths
  /\ Names \subseteq Paths
  /\ \A p \in Names : \A n \in 1 .. Len(p) : SubSeq(p, 1, n) \in Names
  /\ BackupName \in [Names -> Paths \ Names]
  /\ \A p \in Names :
       /\ Len(BackupName[p]) = Len(p)
       /\ \A n \in 1 .. Len(p) - 1 : SubSeq(BackupName[p], 1, n) = SubSeq(p, 1, n)
       /\ \A q \in Names : BackupName[p] = BackupName[q] => p = q
  /\ Archives \subseteq Seq(Member)
  /\ IsFiniteSet(Paths)
  /\ Trees \subseteq [Paths -> Inode]
  /\ \A t \in Trees, p \in Paths :
       /\ t[p].kind \in {"none", "dir", "file"} /\ t[p].ino <= Cardinality(Paths)
       /\ t[p].kind # "none" =>
            /\ \A n \in 1 .. Len(p) - 1 : t[SubSeq(p, 1, n)].kind = "dir"
            /\ \A q \in Paths : t[q].ino = t[p].ino => t[q] = t[p]
  /\ Options \subseteq [old_files : OldFiles, same_permissions : BOOLEAN,
                        delay_directory_restore : BOOLEAN, backup : BOOLEAN]

VARIABLES
  options,            \* the options of this run
  archive,            \* the members, in order
  tree,               \* the file system before
  fs,                 \* the file system
  inodes,             \* how many inodes have been used
  delayed_set_stat,   \* delayed_set_stat_head and its tail
  delayed_link,       \* delayed_link_head and its tail
  valid_source,       \* of apply_delayed_links; the working directory: none
  backed_up,          \* before_backup_name while after_backup_name is set
  todo,               \* number of members read
  interdir_made,      \* of the extractor
  exit_status,        \* has an error been reported?
  pc

given == <<options, archive, tree>>
disk == <<fs, inodes>>
delayed == <<delayed_set_stat, delayed_link, valid_source, backed_up>>
control == <<todo, interdir_made, exit_status, pc>>
vars == <<given, disk, delayed, control>>

current == archive[todo]

Root == <<>>
Prefix(p, n) == SubSeq(p, 1, n)
Parent(p) == Prefix(p, Len(p) - 1)
Ancestors ==
  [p \in Paths |-> {q \in Paths : Len(q) < Len(p) /\ Prefix(p, Len(q)) = q}]
IsAncestor(p, q) == q # Root /\ p \in Ancestors[q]

Init ==
  /\ options \in Options
  /\ archive \in Archives
  /\ tree \in Trees
  /\ fs = tree
  /\ inodes = Cardinality(Paths)
  /\ delayed_set_stat = <<>> /\ delayed_link = <<>>
  /\ valid_source = Root /\ backed_up = Root
  /\ todo = 0
  /\ interdir_made = FALSE
  /\ exit_status = FALSE
  /\ pc = "next"

------------------------------------------------------------------------------
(* The file system: what its calls return and do.                          *)

Exists(p) == fs[p].kind # "none"
Writable(p) == p # Root => fs[p].writable
IsEmpty(p) == \A q \in Paths : IsAncestor(p, q) => ~ Exists(q)

(* What a call that is to create p finds.                                  *)
Errno(p) ==
  IF \E q \in Ancestors[p] : Exists(q) /\ fs[q].kind # "dir" THEN "ENOTDIR"
  ELSE IF \E q \in Ancestors[p] : ~ Exists(q) THEN "ENOENT"
  ELSE IF Exists(p) THEN "EEXIST"
  ELSE IF ~ Writable(Parent(p)) THEN "EACCES"
  ELSE "none"

(* Creating or removing p changes the time of its directory.               *)
Put(p, inode) ==
  [q \in Paths |-> IF q = p THEN inode
                   ELSE IF q = Parent(p) THEN [fs[q] EXCEPT !.mtime = 0]
                   ELSE fs[q]]

Created(p, kind, writable, mtime) ==
  Put(p, [kind |-> kind, ino |-> inodes + 1, from |-> todo,
          writable |-> writable, mtime |-> mtime])

(* rename, of what is no directory, within a directory.                    *)
CanRename(p, q) ==
  /\ fs[p].kind \notin {"none", "dir"} /\ fs[q].kind # "dir"
  /\ Writable(Parent(p))
Renamed(p, q) ==
  IF fs[p].ino = fs[q].ino THEN fs
  ELSE [Put(q, fs[p]) EXCEPT ![p] = None]

(* remove_any_file (ORDINARY_REMOVE_OPTION) succeeds.                      *)
RemovableFull(p) == Exists(p) /\ Writable(Parent(p))     \* a wrong Removable
Removable(p) ==
  /\ Exists(p) /\ Writable(Parent(p))
  /\ fs[p].kind = "dir" => IsEmpty(p)

------------------------------------------------------------------------------
(* The delayed status of directories.                                      *)

(* delay_set_stat; the inode is not known (st_ino is not in the archive).  *)
Delay(path, invert, permstatus) ==
  [path |-> path, member |-> todo, ino |-> 0, invert |-> invert,
   permstatus |-> permstatus, after_links |-> FALSE]

(* set_stat and set_mode for a directory, as its entry d asks.             *)
Restored(d) ==
  IF d.permstatus = "INTERDIR" THEN fs[d.path]
  ELSE [fs[d.path] EXCEPT
          !.mtime = d.member,
          !.writable = IF options.same_permissions THEN archive[d.member].writable
                       ELSE IF d.invert THEN ~ @
                       ELSE @]

Head1 == delayed_set_stat[1]

(* apply_nonancestor_delayed_set_stat: its arguments, and whether the loop *)
(* goes on.  It looks for renamed directories once it met one that had to  *)
(* wait for the links, which the last call does at once.                   *)
FileName == IF pc = "fix" THEN current.path ELSE Root
AfterLinks == pc = "fixlast"

KeepsSame(d) == IsAncestor(d.path, FileName) \/ d.path = FileName   \* a wrong Keeps
Keeps(d) == IsAncestor(d.path, FileName)

MustFix ==
  /\ pc \in {"fix", "finish", "fixlast"}
  /\ ~ (pc = "fix" /\ options.delay_directory_restore)
  /\ delayed_set_stat # <<>>
  /\ Head1.after_links => AfterLinks
  /\ ~ Keeps(Head1)

FixDirectory ==
  /\ MustFix
  /\ LET d == Head1
         lost == IF AfterLinks THEN fs[d.path].ino # d.ino \/ ~ Exists(d.path)
                 ELSE ~ Exists(d.path)
     IN /\ fs' = IF lost THEN fs ELSE [fs EXCEPT ![d.path] = Restored(d)]
        /\ exit_status' = (exit_status \/ (lost /\ (AfterLinks \/ d.permstatus # "INTERDIR")))
  /\ delayed_set_stat' = Tail(delayed_set_stat)
  /\ UNCHANGED <<given, inodes, delayed_link, valid_source, backed_up, todo, interdir_made, pc>>

------------------------------------------------------------------------------
(* Members.                                                                *)

(* read_and calls extract_archive for the next header.                     *)
NextMember ==
  /\ pc = "next" /\ todo < Len(archive)
  /\ todo' = todo + 1
  /\ interdir_made' = FALSE
  /\ pc' = "fix"
  /\ UNCHANGED <<given, disk, delayed, exit_status>>

(* --backup: maybe_backup_file renames what has the name of the member, if *)
(* it is no directory.  What is backed up stays so where there is nothing  *)
(* to rename.  stat follows links.                                         *)
StatKind(p) ==
  IF fs[p].kind = "symlink" THEN fs[archive[fs[p].from].target].kind ELSE fs[p].kind

MaybeBackupFile ==
  /\ pc = "fix" /\ ~ MustFix /\ options.backup
  /\ LET p == current.path
         needed == StatKind(p) \notin {"none", "dir"}
         renames == needed /\ CanRename(p, BackupName[p])
         fails == Errno(p) = "ENOTDIR" \/ (needed /\ ~ renames)
     IN /\ fs' = IF renames THEN Renamed(p, BackupName[p]) ELSE fs
        /\ backed_up' = IF renames THEN p ELSE IF needed THEN Root ELSE backed_up
        /\ exit_status' = (exit_status \/ fails)
        /\ pc' = IF fails THEN "next" ELSE "prepare"
  /\ UNCHANGED <<given, inodes, delayed_set_stat, delayed_link, valid_source, todo,
                 interdir_made>>

(* prepare_to_extract: with --unlink-first what is there is removed.       *)
Prepare ==
  /\ pc = "prepare" \/ (pc = "fix" /\ ~ MustFix /\ ~ options.backup)
  /\ LET p == current.path
         unlink == options.old_files = "UNLINK_FIRST"
         refused == unlink /\ ~ Removable(p) /\ Errno(p) \in {"EEXIST", "ENOTDIR"}
     IN /\ fs' = IF unlink /\ Removable(p) THEN Put(p, None) ELSE fs
        /\ exit_status' = (exit_status \/ refused)
        /\ pc' = IF refused THEN "next" ELSE "create"
  /\ UNCHANGED <<given, inodes, delayed, todo, interdir_made>>

IsDelayedLink == current.type \in {"symlink", "link"} /\ current.unsafe
IsLink == current.type = "link" /\ ~ current.unsafe

(* What the call that is to create the current member returns.             *)
CreateErrno ==
  IF IsLink /\ ~ Exists(current.target) THEN "ENOENT"
  ELSE IF IsLink /\ Errno(current.path) = "none" /\ fs[current.target].kind = "dir"
       THEN "EPERM"
  ELSE Errno(current.path)

Creating(type) == pc = "create" /\ current.type = type

(* extract_dir.  A directory one could not write into is created writable. *)
MakeDir ==
  /\ Creating("dir") /\ CreateErrno = "none"
  /\ fs' = Created(current.path, "dir", TRUE, 0)
  /\ inodes' = inodes + 1
  /\ delayed_set_stat' =
       <<Delay(current.path, ~ current.writable, "ARCHIVED")>> \o delayed_set_stat
  /\ pc' = "next"
  /\ UNCHANGED <<given, delayed_link, valid_source, backed_up, todo, interdir_made, exit_status>>

(* A directory that is there already, and a file in its place that cannot  *)
(* be removed: extract_dir treats it as that directory.                    *)
UsesOld ==
  /\ Creating("dir") /\ CreateErrno = "EEXIST" /\ options.old_files = "DEFAULT"
  /\ fs[current.path].kind = "dir" \/ ~ Removable(current.path)

(* What returns nonzero is taken for a failure: with --backup the last     *)
(* backup is undone.                                                       *)
AfterFailure == IF options.backup THEN "undo" ELSE "next"

UseDir ==
  /\ UsesOld
  /\ delayed_set_stat' =
       <<Delay(current.path, FALSE, "UNKNOWN")>> \o delayed_set_stat
  /\ pc' = AfterFailure
  /\ UNCHANGED <<given, disk, delayed_link, valid_source, backed_up, todo, interdir_made,
                 exit_status>>

(* extract_file, open_output_file and set_stat.                            *)
MakeFile ==
  /\ Creating("file") /\ CreateErrno = "none"
  /\ fs' = Created(current.path, "file", current.writable, todo)
  /\ inodes' = inodes + 1
  /\ pc' = "next"
  /\ UNCHANGED <<given, delayed, todo, interdir_made, exit_status>>

(* extract_symlink.                                                        *)
MakeSymlink ==
  /\ Creating("symlink") /\ ~ current.unsafe /\ CreateErrno = "none"
  /\ fs' = Created(current.path, "symlink", TRUE, 0)
  /\ inodes' = inodes + 1
  /\ pc' = "next"
  /\ UNCHANGED <<given, delayed, todo, interdir_made, exit_status>>

(* The entries a placeholder in their directory makes wait for the links:  *)
(* those of the list up to the first that waits already.                   *)
MarkedHead(path) ==                          \* a wrong Marked
  IF delayed_set_stat # <<>> /\ Head1.path = Parent(path) THEN {1} ELSE {}
Marked(path) ==
  IF delayed_set_stat # <<>> /\ Head1.path = Parent(path)
  THEN {i \in DOMAIN delayed_set_stat :
          \A j \in 1 .. i : ~ delayed_set_stat[j].after_links}
  ELSE {}

(* create_placeholder_file.                                                *)
MakePlaceholder ==
  /\ pc = "create" /\ IsDelayedLink /\ CreateErrno = "none"
  /\ fs' = Created(current.path, "placeholder", FALSE, 0)
  /\ inodes' = inodes + 1
  /\ delayed_link' =
       <<[ino |-> inodes + 1, is_symlink |-> current.type = "symlink",
          member |-> todo, sources |-> <<current.path>>]>> \o delayed_link
  /\ LET marked == Marked(current.path)
         missing(i) == ~ Exists(delayed_set_stat[i].path)
     IN /\ delayed_set_stat' =
             [i \in DOMAIN delayed_set_stat |->
                IF i \notin marked THEN delayed_set_stat[i]
                ELSE [delayed_set_stat[i] EXCEPT
                        !.after_links = TRUE,
                        !.ino = IF missing(i) THEN @ ELSE fs[delayed_set_stat[i].path].ino]]
        /\ exit_status' = (exit_status \/ \E i \in marked : missing(i))
  /\ pc' = "next"
  /\ UNCHANGED <<given, valid_source, backed_up, todo, interdir_made>>

(* extract_link: a link to a placeholder is one more source of its link.   *)
NoSource(ino) == delayed_link                \* a wrong WithSource
WithSource(ino) ==
  [i \in DOMAIN delayed_link |->
     IF delayed_link[i].ino = ino /\ \A j \in 1 .. i - 1 : delayed_link[j].ino # ino
     THEN [delayed_link[i] EXCEPT !.sources = <<current.path>> \o @]
     ELSE delayed_link[i]]

MakeLink ==
  /\ pc = "create" /\ IsLink /\ CreateErrno = "none"
  /\ fs' = Put(current.path, fs[current.target])
  /\ delayed_link' = WithSource(fs[current.target].ino)
  /\ pc' = "next"
  /\ UNCHANGED <<given, inodes, delayed_set_stat, valid_source, backed_up, todo,
                 interdir_made, exit_status>>

(* Both names are the same file already.                                   *)
LinkIsThere ==
  /\ pc = "create" /\ IsLink
  /\ Exists(current.target) /\ Exists(current.path)
  /\ fs[current.target].ino = fs[current.path].ino

UseLink ==
  /\ LinkIsThere
  /\ pc' = "next"
  /\ UNCHANGED <<given, disk, delayed, todo, interdir_made, exit_status>>

------------------------------------------------------------------------------
(* maybe_recoverable.                                                      *)

MayRemoveAll == {"DEFAULT", "NO_OVERWRITE_DIR", "KEEP"}   \* a wrong MayRemove
MayRemove == {"DEFAULT", "NO_OVERWRITE_DIR"}

Removes ==
  /\ CreateErrno = "EEXIST" /\ options.old_files \in MayRemove
  /\ Removable(current.path)

(* make_directories makes the missing parents, from the first one on, or   *)
(* none of them.                                                           *)
Missing == {q \in Ancestors[current.path] : ~ Exists(q)}
First ==
  CHOOSE n \in 1 .. Len(current.path) - 1 :
    /\ Prefix(current.path, n) \in Missing
    /\ \A k \in 1 .. n - 1 : Prefix(current.path, k) \notin Missing

MakesDirs ==
  CreateErrno = "ENOENT" /\ Missing # {} /\ Errno(Prefix(current.path, First)) = "none"

Failing == pc = "create" /\ CreateErrno # "none" /\ ~ UsesOld /\ ~ LinkIsThere

RemoveOld ==
  /\ Failing /\ ~ interdir_made /\ Removes
  /\ fs' = Put(current.path, None)
  /\ UNCHANGED <<given, inodes, delayed, control>>

MakeDirectories ==
  /\ Failing /\ ~ interdir_made /\ MakesDirs
  /\ LET made == Len(current.path) - First
         InterDir(k) == Delay(Prefix(current.path, Len(current.path) - k), FALSE, "INTERDIR")
     IN /\ fs' = [q \in Paths |->
                    IF q \in Missing
                    THEN [kind |-> "dir", ino |-> inodes + 1 + (Len(q) - First),
                          from |-> 0, writable |-> TRUE, mtime |-> 0]
                    ELSE IF q = Prefix(current.path, First - 1) THEN [fs[q] EXCEPT !.mtime = 0]
                    ELSE fs[q]]
        /\ delayed_set_stat' = [k \in 1 .. made |-> InterDir(k)] \o delayed_set_stat
        /\ inodes' = inodes + made
  /\ interdir_made' = TRUE
  /\ UNCHANGED <<given, delayed_link, valid_source, backed_up, todo, exit_status, pc>>

(* There is no recovery: the extractor reports it, except that extract_dir *)
(* says nothing of a directory, or a file, that is there and stays.        *)
Fail ==
  /\ Failing /\ (interdir_made \/ ~ (Removes \/ MakesDirs))
  /\ exit_status' =
       (exit_status \/ ~ (/\ current.type = "dir" /\ CreateErrno = "EEXIST"
                          /\ options.old_files # "UNLINK_FIRST"))
  /\ pc' = AfterFailure
  /\ UNCHANGED <<given, disk, delayed, todo, interdir_made>>

(* undo_last_backup.                                                       *)
UndoLastBackup ==
  /\ pc = "undo"
  /\ LET after == BackupName[backed_up]
         undoes == backed_up # Root /\ CanRename(after, backed_up)
     IN /\ fs' = IF undoes THEN Renamed(after, backed_up) ELSE fs
        /\ exit_status' = (exit_status \/ (backed_up # Root /\ ~ undoes))
  /\ backed_up' = Root
  /\ pc' = "next"
  /\ UNCHANGED <<given, inodes, delayed_set_stat, delayed_link, valid_source, todo,
                 interdir_made>>

------------------------------------------------------------------------------
(* extract_finish.                                                         *)

Finish ==
  /\ pc = "next" /\ todo = Len(archive)
  /\ pc' = "finish"
  /\ UNCHANGED <<given, disk, delayed, todo, interdir_made, exit_status>>

StartLinks ==
  /\ pc = "finish" /\ ~ MustFix
  /\ pc' = "links"
  /\ UNCHANGED <<given, disk, delayed, todo, interdir_made, exit_status>>

(* apply_delayed_links: one source of one link.                            *)
NextSource ==
  LET ds == delayed_link[1] IN
  delayed_link' = IF Len(ds.sources) > 1
                  THEN [delayed_link EXCEPT ![1].sources = Tail(@)]
                  ELSE Tail(delayed_link)

IsPlaceholder(source, ds) == Exists(source) /\ fs[source].ino = ds.ino

ApplyDelayedLink ==
  /\ pc = "links" /\ delayed_link # <<>>
  /\ LET ds == delayed_link[1]
         source == ds.sources[1]
         target == archive[ds.member].target
         unlinks == IsPlaceholder(source, ds) /\ Writable(Parent(source))
         last == Len(ds.sources) = 1
         fails == \/ IsPlaceholder(source, ds) /\ ~ unlinks
                  \/ /\ unlinks /\ ~ ds.is_symlink
                     /\ target = source \/ fs[target].kind \in {"none", "dir"}
         symlink == [kind |-> "symlink", ino |-> inodes + 1, from |-> ds.member,
                     writable |-> TRUE, mtime |-> 0]
         new == IF ds.is_symlink /\ valid_source # Root THEN fs[valid_source]
                ELSE IF ds.is_symlink THEN symlink
                ELSE IF fails THEN None
                ELSE fs[target]
     IN /\ fs' = IF unlinks THEN Put(source, new) ELSE fs
        /\ exit_status' = (exit_status \/ fails)
        /\ inodes' = IF unlinks /\ new = symlink THEN inodes + 1 ELSE inodes
        /\ valid_source' = IF last THEN Root
                           ELSE IF unlinks /\ new = symlink THEN source
                           ELSE valid_source
  /\ NextSource
  /\ UNCHANGED <<given, delayed_set_stat, backed_up, todo, interdir_made, pc>>

LinksDone ==
  /\ pc = "links" /\ delayed_link = <<>>
  /\ pc' = "fixlast"
  /\ UNCHANGED <<given, disk, delayed, todo, interdir_made, exit_status>>

Done ==
  /\ pc = "fixlast" /\ ~ MustFix
  /\ pc' = "done"
  /\ UNCHANGED <<given, disk, delayed, todo, interdir_made, exit_status>>

Extractor ==
  \/ MakeDir \/ UseDir \/ MakeFile \/ MakeSymlink \/ MakePlaceholder \/ MakeLink
  \/ UseLink \/ RemoveOld \/ MakeDirectories \/ Fail \/ UndoLastBackup

ExtractFinish == Finish \/ StartLinks \/ ApplyDelayedLink \/ LinksDone \/ Done

Next == NextMember \/ FixDirectory \/ MaybeBackupFile \/ Prepare \/ Extractor \/ ExtractFinish

Spec == Init /\ [][Next]_vars
==============================================================================
