---------------------------- MODULE IncrementalDump ----------------------------
(***************************************************************************)
(* Levels of `tar --create --listed-incremental=SNAPSHOT TOP' (names.c,    *)
(* incremen.c, create.c), between and during which the tree changes, and   *)
(* then `tar --extract --listed-incremental=/dev/null' of each archive in  *)
(* turn (incremen.c, extract.c) to a place where there is nothing.         *)
(*                                                                         *)
(* Time is the number of dumps begun: a file that changes after the n-th   *)
(* dump began and before the next has ctime n.  One device, no NFS, no     *)
(* --exclude, default treatment of old files; the system calls succeed on  *)
(* what exists.  --listed-incremental implies --newer: a file counts as    *)
(* changed by its ctime, which a rename updates too (tar.c:1224).          *)
(***************************************************************************)
EXTENDS FileTree, TLC

CONSTANTS
  Inodes,     \* the inode numbers directories may have
  Trees,      \* the trees to begin with
  Levels,     \* bound: the number of dumps
  Budgets     \* bound: how many changes may happen before, during the first
              \* dump, before, during the second one and so on

ASSUME DumpAssumption ==
  /\ Inodes \subseteq Nat /\ Levels \in Nat \ {0}
  /\ Budgets \subseteq [1 .. 2 * Levels -> Nat]

VARIABLES
  tree,        \* the tree that is dumped
  changes,     \* number of changes of it so far
  budget,      \* changes still allowed, by phase
  level,       \* number of dumps begun
  snapshot,    \* the file: start_time of the dump, its directories
  newer,       \* newer_mtime_option
  dirs,        \* directory_table: a directory record for each name
  meta,        \* directory_meta_table: inode number to name
  pending,     \* names add_hierarchy_to_namelist has still to descend into
  namelist,    \* the names with their dir_contents
  todo,        \* what the current pass of create_archive has to dump
  archive,     \* the members of the archive being written
  archives,    \* the archives of the dumps that are complete
  failed,      \* has an exit status other than success been set?
  disk,        \* the tree that is restored
  at,          \* restoring: number of the archive and of the member
  pc,
  taken,       \* history: the tree when each dump ended
  moving,      \* history: the dumps during which the tree changed,
  shuffled,    \* and those during which a directory was renamed
  stale        \* history: the dumps that kept, for a renamed directory, the
               \* inode number of the one that had its name before

world == <<tree, changes, budget, moving, shuffled>>
dump == <<level, snapshot, newer, dirs, meta, pending, namelist, todo, archive, archives, taken, stale>>
restore == <<disk, at>>
vars == <<world, dump, restore, failed, pc>>

-----------------------------------------------------------------------------
(* The tree changes.                                                       *)

Phase == IF pc = "idle" THEN 2 * level + 1 ELSE 2 * level
Stamped(n) == IF n.kind = "file" THEN [n EXCEPT !.stamp = level] ELSE n
FreeInodes == Inodes \ {tree[d].ino : d \in Dirs(tree)}

(* The directories that have another name in the tree new.                 *)
Renamed(old, new) ==
  {<<p, q>> \in Dirs(old) \X Dirs(new) : p # q /\ old[p].ino = new[q].ino}

Change(t) ==
  /\ pc \in {"idle", "scan", "names", "files"}
  /\ Phase \in DOMAIN budget /\ budget[Phase] > 0
  /\ tree' = t
  /\ changes' = changes + 1
  /\ budget' = [budget EXCEPT ![Phase] = @ - 1]
  /\ moving' = IF pc = "idle" THEN moving ELSE moving \cup {level}
  /\ shuffled' = IF pc # "idle" /\ Renamed(tree, t) # {} THEN shuffled \cup {level}
                 ELSE shuffled
  /\ UNCHANGED <<dump, restore, failed, pc>>

(* Other processes write files, make and remove directories, and rename    *)
(* either, first removing what stands in the way, or exchange two          *)
(* directories.                                                            *)
WriteFile(p) ==
  /\ p # Top /\ IsDir(tree, Parent(p)) /\ ~ IsDir(tree, p)
  /\ Change([tree EXCEPT ![p] = File(changes + 1, level)])

MakeDirectory(p, i) ==
  /\ p # Top /\ IsDir(tree, Parent(p)) /\ ~ Exists(tree, p)
  /\ Change([tree EXCEPT ![p] = Dir(i)])

RemoveAll(p) == p # Top /\ Exists(tree, p) /\ Change(Removed(tree, p))

Move(p, q) ==
  /\ p # q /\ Exists(tree, p) /\ q # Top /\ IsDir(tree, Parent(q))
  /\ ~ Within(q, p) /\ ~ Within(p, q)
  /\ Change([Moved(Removed(tree, q), p, q) EXCEPT ![q] = Stamped(tree[p])])

Exchange(p, q) ==
  /\ p # q /\ IsDir(tree, p) /\ IsDir(tree, q) /\ ~ Within(q, p) /\ ~ Within(p, q)
  /\ Change([r \in DOMAIN tree |->
       IF Within(r, p) THEN Moved(tree, q, p)[r]
       ELSE IF Within(r, q) THEN Moved(tree, p, q)[r] ELSE tree[r]])

World ==
  \/ \E p \in Paths : WriteFile(p) \/ RemoveAll(p)
  \/ \E p \in Paths, i \in FreeInodes : MakeDirectory(p, i)
  \/ \E p, q \in Paths : Move(p, q) \/ Exchange(p, q)

-----------------------------------------------------------------------------
(* The directory tables.  T is a pair of both, [dirs, meta].               *)

Directory(i, contents) ==
  [ino |-> i, contents |-> contents, icontents |-> NULL, children |-> "changed",
   init |-> FALSE, found |-> FALSE, renamed |-> FALSE, orig |-> NULL]

(* find_directory_meta: an entry whose inode number was changed in place   *)
(* stays in the bucket of the old one.                                     *)
FindMeta(T, i) ==
  IF i \in DOMAIN T.meta /\ T.dirs[T.meta[i]].ino = i THEN T.meta[i] ELSE NULL

NoteDirectory(T, p, d) ==
  [dirs |-> (p :> d) @@ T.dirs,
   meta |-> IF FindMeta(T, d.ino) = NULL THEN (d.ino :> p) @@ T.meta ELSE T.meta]

(* procdir, for directory p with inode number i whose parent is to be      *)
(* saved as CHILDREN says.                                                 *)
ProcDir(T, p, i, children) ==
  LET known == p \in DOMAIN T.dirs
      d == FindMeta(T, i)
      U == IF known THEN T ELSE NoteDirectory(T, p, Directory(i, NULL))
      e == U.dirs[p]
      Found(f) ==
        [f EXCEPT !.found = TRUE, !.init = TRUE,
                  !.children = IF children = "all" THEN "all" ELSE @]
      entry ==
        CASE known /\ e.ino = i -> [e EXCEPT !.children = "changed"]
          [] (known => e.ino # i) /\ d # NULL ->
               [e EXCEPT !.orig = d, !.renamed = TRUE, !.children = "changed"]
          [] OTHER -> [e EXCEPT !.ino = i, !.children = "all"]
  IN IF known /\ e.init THEN T ELSE [U EXCEPT !.dirs[p] = Found(entry)]

(* The dumpdir makedumpdir compares the directory with.                    *)
OldContents(T, p) ==
  LET d == T.dirs[p] IN
  CASE d.children = "all" -> NULL
    [] d.children # "all" /\ d.renamed ->
         LET o == T.dirs[d.orig] IN IF o.icontents # NULL THEN o.icontents ELSE o.contents
    [] OTHER -> d.contents

(* dumpdir_locate.                                                         *)
Located(old, n) == old # NULL /\ n \in DOMAIN old

(* The code scan_directory gives the entry n of directory p.               *)
Code(old, p, n) ==
  LET node == tree[Append(p, n)] IN
  CASE node.kind = "dir" -> "D"
    [] node.kind = "file" /\ Located(old, n) /\ node.stamp < newer -> "N"
    [] OTHER -> "Y"

(* scan_directory: the tables when p has been scanned.                     *)
Scanned(T, p) ==
  LET U == ProcDir(T, p, tree[p].ino, "none")
      old == OldContents(U, p)
      contents == [n \in Entries(tree, p) |-> Code(old, p, n)]
      V == [U EXCEPT !.dirs[p].icontents = U.dirs[p].contents, !.dirs[p].contents = contents]
      Visit(W, n) ==
        LET q == Append(p, n) IN
        IF IsDir(tree, q) THEN ProcDir(W, q, tree[q].ino, V.dirs[p].children) ELSE W
  IN FoldLeft(Visit, V, InOrder(Entries(tree, p)))

-----------------------------------------------------------------------------
(* rename_handler, and append_incremental_renames, which calls it for the  *)
(* entries of the hash table in the order of their hashes.                 *)

R(src, dst) == <<[code |-> "R", name |-> src], [code |-> "T", name |-> dst]>>

(* The directories from d back through orig until there is none or the     *)
(* next would be d again.                                                  *)
Chain(D, d) ==
  LET step[k \in 1 .. Cardinality(DOMAIN D)] ==
        IF k = 1 THEN <<d>>
        ELSE LET c == step[k - 1] IN
             IF D[Last(c)].orig \in {NULL, d} THEN c ELSE Append(c, D[Last(c)].orig)
  IN step[Cardinality(DOMAIN D)]

(* The walk along orig comes to a cycle that does not contain d.           *)
EndlessCycle(D, d) == D[Last(Chain(D, d))].orig # NULL      \* a wrong Endless
Endless(D, d) == D[Last(Chain(D, d))].orig \notin {NULL, d}

RenameCodesOfChain(D, d) ==                   \* a wrong RenameCodes
  LET c == Chain(D, d) IN FlattenSeq([k \in 1 .. Len(c) - 1 |-> R(c[k + 1], c[k])])

RenameCodes(D, d) ==
  LET c == Chain(D, d)
      back == FlattenSeq([k \in 1 .. Len(c) - 1 |-> R(c[k + 1], c[k])])
  IN IF D[Last(c)].orig = NULL THEN back
     ELSE <<[code |-> "X", name |-> Parent(d)]>> \o R(d, NULL) \o back \o R(NULL, Last(c))

(* The renames, and the names of which the flag is still set, after the    *)
(* handler was called for d.                                               *)
Handle(acc, d) ==
  IF d \notin acc.renamed THEN acc
  ELSE [renamed |-> acc.renamed \ ToSet(Chain(dirs, d)),
        codes |-> acc.codes \o RenameCodes(dirs, d)]

Renames(order) ==
  FoldLeft(Handle, [renamed |-> ToSet(order), codes |-> <<>>], order).codes

RenamedDirs == {p \in DOMAIN dirs : dirs[p].renamed}
Orders(S) == {f \in [1 .. Cardinality(S) -> S] : IsInjective(f)}

-----------------------------------------------------------------------------
(* create_archive with incremental_option, and the snapshot.               *)

UnchangedWorld == UNCHANGED <<world, restore>>
Fail(b) == failed' = (failed \/ b)
Name(p, contents) == [name |-> p, contents |-> contents, renames |-> <<>>]

(* main sets start_time; collect_and_sort_names reads the snapshot.  Of    *)
(* directories with the same inode number the hash table keeps the first.  *)
StartDump ==
  /\ pc = "idle" /\ level < Levels
  /\ level' = level + 1
  /\ newer' = snapshot.start
  /\ LET read == [p \in {d.name : d \in snapshot.dirs} |->
                    LET d == CHOOSE d \in snapshot.dirs : d.name = p
                    IN Directory(d.ino, d.contents)]
         Named(i) == {d.name : d \in {e \in snapshot.dirs : e.ino = i}}
     IN /\ dirs' = read
        /\ meta' \in {m \in [{d.ino : d \in snapshot.dirs} -> DOMAIN read] :
                       \A i \in DOMAIN m : m[i] \in Named(i)}
  /\ pending' = <<Top>> /\ namelist' = <<>> /\ todo' = <<>> /\ archive' = <<>>
  /\ pc' = "scan"
  /\ UNCHANGED <<snapshot, archives, taken, stale, failed>>
  /\ UnchangedWorld

(* add_hierarchy_to_namelist for the next directory.  One that is gone, or *)
(* is no directory any more, is an error and has empty dir_contents.  The  *)
(* names come in the order merge_sort gives them.                          *)
ScanDirectory ==
  /\ pc = "scan" /\ pending # <<>>
  /\ LET p == Head(pending)
         T == Scanned([dirs |-> dirs, meta |-> meta], p)
         contents == T.dirs[p].contents
         below == SelectSeq(InOrder(DOMAIN contents), LAMBDA n : contents[n] = "D")
     IN IF IsDir(tree, p)
        THEN /\ dirs' = T.dirs /\ meta' = T.meta
             /\ namelist' = Append(namelist, Name(p, contents))
             /\ pending' = [k \in DOMAIN below |-> Append(p, below[k])] \o Tail(pending)
             /\ stale' = IF \E q \in DOMAIN dirs : T.dirs[q].renamed /\ ~ dirs[q].renamed
                         THEN stale \cup {level} ELSE stale
             /\ UNCHANGED failed
        ELSE /\ namelist' = Append(namelist, Name(p, <<>>))
             /\ pending' = Tail(pending)
             /\ Fail(TRUE)
             /\ UNCHANGED <<dirs, meta, stale>>
  /\ UNCHANGED <<level, snapshot, newer, todo, archive, archives, taken, pc>>
  /\ UnchangedWorld

(* append_incremental_renames: to the dumpdir of the first name.           *)
AppendRenames ==
  /\ pc = "scan" /\ pending = <<>>
  /\ IF \E d \in RenamedDirs : Endless(dirs, d)
     THEN pc' = "looping" /\ UNCHANGED <<namelist, todo>>
     ELSE \E order \in Orders(RenamedDirs) :
            /\ namelist' = [namelist EXCEPT ![1].renames = Renames(order)]
            /\ todo' = [k \in DOMAIN namelist |-> [of |-> k, path |-> namelist[k].name]]
            /\ pc' = "names"
  /\ UNCHANGED <<level, snapshot, newer, dirs, meta, pending, archive, archives, taken, stale, failed>>
  /\ UnchangedWorld

(* dump_file (path, -1, 0).  The dumpdir of any directory is the one of    *)
(* gnu_list_name, which is the name the path was found for.                *)
Dumped(t) ==
  LET n == namelist[t.of] IN
  CASE IsDir(tree, t.path) ->
         <<[type |-> "dumpdir", name |-> t.path, contents |-> n.contents, renames |-> n.renames]>>
    [] IsFile(tree, t.path) ->
         <<[type |-> "file", name |-> t.path, data |-> tree[t.path].data]>>
    [] OTHER -> <<>>

DumpNext ==
  /\ todo # <<>>
  /\ archive' = archive \o Dumped(Head(todo))
  /\ todo' = Tail(todo)
  /\ Fail(~ Exists(tree, Head(todo).path))
  /\ UNCHANGED <<level, snapshot, newer, dirs, meta, pending, namelist, archives, taken, stale, pc>>
  /\ UnchangedWorld

DumpName == pc = "names" /\ DumpNext
DumpEntry == pc = "files" /\ DumpNext

(* blank_name_list; then the entries marked Y of each name are dumped.     *)
SecondPass ==
  /\ pc = "names" /\ todo = <<>>
  /\ todo' = FlattenSeq([k \in DOMAIN namelist |->
       LET c == namelist[k].contents
           y == SelectSeq(InOrder(DOMAIN c), LAMBDA n : c[n] = "Y")
       IN [j \in DOMAIN y |-> [of |-> k, path |-> Append(namelist[k].name, y[j])]]])
  /\ pc' = "files"
  /\ UNCHANGED <<level, snapshot, newer, dirs, meta, pending, namelist, archive, archives, taken, stale, failed>>
  /\ UnchangedWorld

(* The time the snapshot records is when the dump began.                   *)
NextTime == level + 1                         \* a wrong StartTime
StartTime == level

(* close_archive and write_directory_file: the directories that were found.*)
WriteSnapshot ==
  /\ pc = "files" /\ todo = <<>>
  /\ snapshot' =
       [start |-> StartTime,
        dirs |-> {[name |-> p, ino |-> dirs[p].ino,
                   contents |-> IF dirs[p].contents = NULL THEN <<>> ELSE dirs[p].contents] :
                    p \in {q \in DOMAIN dirs : dirs[q].found}}]
  /\ archives' = Append(archives, archive)
  /\ taken' = Append(taken, tree)
  /\ pc' = "idle"
  /\ UNCHANGED <<level, newer, dirs, meta, pending, namelist, todo, archive, stale, failed>>
  /\ UnchangedWorld
-----------------------------------------------------------------------------
(* Extraction.  disk is what has been restored; a temporary directory that *)
(* try_purge_directory makes is in the directory the X entry names.        *)

TempStub(d) == Append(d, TempName)

(* rename_directory, as [disk, ok].                                        *)
RenameDirectory(fs, src, dst) ==
  LET made == WithDirectories(fs, dst)
      Try(g) == [disk |-> Moved(g, src, dst), ok |-> TRUE]
  IN CASE RenameErrno(fs, src, dst) = "ok" -> Try(fs)
       [] RenameErrno(fs, src, dst) = "ENOENT" /\ made # fs
            /\ RenameErrno(made, src, dst) = "ok" -> Try(made)
       [] RenameErrno(fs, src, dst) = "ENOENT" /\ made # fs
            /\ RenameErrno(made, src, dst) # "ok" -> [disk |-> made, ok |-> FALSE]
       [] OTHER -> [disk |-> fs, ok |-> FALSE]

(* The loop over the X and R entries in try_purge_directory: [disk, stub,  *)
(* ok], where stub is temp_stub.                                           *)
ProcessRename(acc, k, codes) ==
  LET c == codes[k]
      src == IF c.name = NULL THEN acc.stub ELSE c.name
      dst == IF codes[k + 1].name = NULL THEN acc.stub ELSE codes[k + 1].name
      r == RenameDirectory(acc.disk, src, dst)
      stub == TempStub(c.name)
  IN CASE ~ acc.ok \/ c.code = "T" -> acc
       [] acc.ok /\ c.code = "X" ->
            IF IsDir(acc.disk, c.name) /\ ~ Exists(acc.disk, stub)
            THEN [acc EXCEPT !.disk[stub] = Dir(0), !.stub = stub]
            ELSE [acc EXCEPT !.ok = FALSE]
       [] OTHER -> [acc EXCEPT !.disk = r.disk, !.ok = r.ok]

ProcessRenames(fs, codes) ==
  FoldLeft(LAMBDA acc, k : ProcessRename(acc, k, codes),
           [disk |-> fs, stub |-> NULL, ok |-> TRUE], [k \in DOMAIN codes |-> k])

(* dumpdir_ok: its state is the code that is expected and has_tempdir.     *)
CheckCode(acc, c) ==
  CASE ~ acc.ok \/ (acc.expect # "any" /\ c.code # acc.expect) -> [acc EXCEPT !.ok = FALSE]
    [] acc.ok /\ acc.expect \in {"any", c.code} /\ c.code = "X" ->
         [acc EXCEPT !.tempdir = TRUE, !.ok = ~ acc.tempdir]
    [] acc.ok /\ acc.expect \in {"any", c.code} /\ c.code = "R" ->
         [expect |-> "T", tempdir |-> acc.tempdir /\ c.name # NULL,
          ok |-> c.name # NULL \/ acc.tempdir]
    [] OTHER ->
         [expect |-> "any", tempdir |-> acc.tempdir,
          ok |-> acc.expect = "T" /\ (c.name # NULL \/ acc.tempdir)]

DumpdirOk(codes) ==
  LET end == FoldLeft(CheckCode, [expect |-> "any", tempdir |-> FALSE, ok |-> TRUE], codes)
  IN end.ok /\ end.expect = "any"

(* The entries of the directory, listed before the renames, that the       *)
(* dumpdir does not have or has as something else.                         *)
ToPurge(listed, fs, m) ==
  {q \in {Append(m.name, n) : n \in listed} :
     /\ Exists(fs, q)
     /\ \/ ~ Located(m.contents, Entry(q))
        \/ m.contents[Entry(q)] = "D" /\ ~ IsDir(fs, q)
        \/ m.contents[Entry(q)] = "Y" /\ IsDir(fs, q)}

(* purge_directory, as [disk, ok]; ok is false when it reports an error.   *)
PurgeDirectory(fs, m) ==
  LET r == ProcessRenames(fs, m.renames)
      purged == ToPurge(Entries(fs, m.name), r.disk, m)
  IN CASE ~ IsDir(fs, m.name) -> [disk |-> fs, ok |-> TRUE]
       [] IsDir(fs, m.name) /\ ~ DumpdirOk(m.renames) -> [disk |-> fs, ok |-> FALSE]
       [] IsDir(fs, m.name) /\ DumpdirOk(m.renames) /\ ~ r.ok -> [disk |-> r.disk, ok |-> FALSE]
       [] OTHER -> [disk |-> [p \in DOMAIN fs |->
                               IF \E q \in purged : Within(p, q) THEN None ELSE r.disk[p]],
                    ok |-> TRUE]

(* maybe_recoverable before something is made at p: the directories above  *)
(* it are made, and what is there is removed unless it is a directory with *)
(* something in it.                                                        *)
MakeRoom(fs, p) ==
  LET made == IF Exists(fs, p) THEN fs ELSE WithDirectories(fs, p) IN
  IF IsDir(made, p) /\ Entries(made, p) # {} THEN made ELSE Removed(made, p)

CanMake(fs, p) == ~ Exists(fs, p) /\ (p = Top \/ IsDir(fs, Parent(p)))

Put(fs, p, node) == IF CanMake(fs, p) THEN [fs EXCEPT ![p] = node] ELSE fs

(* extract_dir after purge_directory, and extract_file.                    *)
ExtractDir(m) ==
  LET purged == PurgeDirectory(disk, m)
      room == MakeRoom(purged.disk, m.name)
  IN IF IsDir(purged.disk, m.name)
     THEN [disk |-> purged.disk, ok |-> purged.ok]
     ELSE [disk |-> Put(room, m.name, Dir(0)), ok |-> purged.ok /\ CanMake(room, m.name)]

ExtractFile(m) ==
  LET room == MakeRoom(disk, m.name) IN
  [disk |-> Put(room, m.name, File(m.data, 0)), ok |-> CanMake(room, m.name)]

StartRestore ==
  /\ pc = "idle" /\ level = Levels
  /\ pc' = "restore"
  /\ UNCHANGED <<dump, failed>> /\ UnchangedWorld

ExtractMember ==
  /\ pc = "restore" /\ at[1] <= Len(archives) /\ at[2] <= Len(archives[at[1]])
  /\ LET m == archives[at[1]][at[2]]
         r == IF m.type = "dumpdir" THEN ExtractDir(m) ELSE ExtractFile(m)
     IN disk' = r.disk /\ Fail(~ r.ok)
  /\ at' = <<at[1], at[2] + 1>>
  /\ UNCHANGED <<world, dump, pc>>

NextArchive ==
  /\ pc = "restore" /\ at[1] <= Len(archives) /\ at[2] > Len(archives[at[1]])
  /\ at' = <<at[1] + 1, 1>>
  /\ pc' = IF at[1] = Len(archives) THEN "done" ELSE pc
  /\ UNCHANGED <<world, dump, disk, failed>>

-----------------------------------------------------------------------------
Init ==
  /\ tree \in Trees /\ changes = 0 /\ budget \in Budgets
  /\ level = 0 /\ snapshot = [start |-> 0, dirs |-> {}] /\ newer = 0
  /\ dirs = <<>> /\ meta = <<>> /\ pending = <<>> /\ namelist = <<>> /\ todo = <<>>
  /\ archive = <<>> /\ archives = <<>> /\ failed = FALSE
  /\ disk = [p \in DiskPaths |-> None] /\ at = <<1, 1>>
  /\ pc = "idle" /\ taken = <<>> /\ moving = {} /\ shuffled = {} /\ stale = {}

Dump ==
  \/ StartDump \/ ScanDirectory \/ AppendRenames \/ DumpName \/ SecondPass
  \/ DumpEntry \/ WriteSnapshot

Restore == StartRestore \/ ExtractMember \/ NextArchive

(* Everything is restored, or rename_handler goes round in a circle.       *)
Finished == pc \in {"done", "looping"} /\ UNCHANGED vars

Next == World \/ Dump \/ Restore \/ Finished

Spec == Init /\ [][Next]_vars
==============================================================================
