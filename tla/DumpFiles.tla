------------------------------ MODULE DumpFiles ------------------------------
(***************************************************************************)
(* What `tar --create' makes of the files it is given: dump_file0 for every *)
(* type of file, directories with what is in them, the table of hard links  *)
(* (link_table), --check-links and --remove-files, in create.c, while other *)
(* processes change the files.                                              *)
(*                                                                          *)
(* A path is a sequence of names.  The contents of a file are a number that *)
(* no other contents have.                                                  *)
(***************************************************************************)
EXTENDS Integers, FiniteSets, SequencesExt

CONSTANTS
  Paths,        \* the paths of files and directories
  Inodes,       \* inode numbers
  Settings,     \* runs of tar, each with a bound for what other processes do
  MaxErrors     \* bound: files that cannot be opened or read

None == <<>>
Kinds == {"dir", "file", "symlink", "fifo", "socket"}
Formats == {"gnu", "ustar", "posix"}

(* How long a name is: it fits the name field; or two of them, so that a   *)
(* ustar header can hold it, but not as the target of a link; or neither.  *)
Lengths == {"short", "split", "long"}

(* Of an inode: its time is one that no ustar header can tell (old); it  *)
(* is empty and all may read it, so that it is not opened (blank); changes *)
(* counts the settings of its ctime.                                       *)
Inode == [kind : Kinds, data : Nat, old : BOOLEAN, blank : BOOLEAN, changes : Nat]

ASSUME DumpAssumption ==
  /\ IsFiniteSet(Paths) /\ None \notin Paths
  /\ IsFiniteSet(Inodes) /\ Inodes \subseteq Nat \ {0}
  /\ Settings \subseteq
       [names : Seq(Paths), format : Formats, remove_files : BOOLEAN,
        length : [Paths -> Lengths], disk : [Paths -> Inodes \cup {0}],
        inode : [Inodes -> Inode], changes : Nat]

(* The files are a tree: what has a name is in directories, and these have *)
(* one name each.                                                          *)
ASSUME TreeAssumption ==
  /\ Paths \subseteq Seq(STRING)
  /\ \A p \in Paths : \A n \in 1 .. Len(p) : SubSeq(p, 1, n) \in Paths
  /\ \A g \in Settings : \A p, q \in Paths : g.disk[p] # 0 /\ p # q =>
       /\ IsPrefix(q, p) => g.disk[q] # 0 /\ g.inode[g.disk[q]].kind = "dir"
       /\ g.disk[q] = g.disk[p] => g.inode[g.disk[p]].kind # "dir"

VARIABLES
  given,         \* the arguments and options, and the files at the start
  disk,          \* the inode a path names, or 0
  inode,         \* the inodes
  todo,          \* the files still to be dumped, and the directories to leave
  st,            \* what stat told of the file that is dumped
  fd,            \* the inode that is open, or 0
  link_table,    \* of inodes, the member and the number of other links
  archive,       \* the members
  exit_status,
  pc,
  history        \* changes, errors, warnings and losses: for the bounds and properties

files == <<disk, inode>>
control == <<todo, st, fd, pc>>
written == <<link_table, archive>>
vars == <<given, files, control, written, exit_status, history>>

-----------------------------------------------------------------------------
(* The file system.                                                        *)
Exists(p) == disk[p] # 0
Links(i) == Cardinality({p \in Paths : disk[p] = i})
Below(p) == {q \in Paths : Len(q) = Len(p) + 1 /\ Front(q) = p /\ Exists(q)}
Parent(p) == IF Len(p) = 1 THEN {} ELSE {disk[Front(p)]}

(* Setting the ctime of some inodes.                                       *)
Touch(nodes, touched) ==
  [i \in Inodes |-> IF i \in touched THEN [nodes[i] EXCEPT !.changes = @ + 1] ELSE nodes[i]]

(* The removal of a name is a change of its inode and of its directory.    *)
Unlinked(p) ==
  /\ disk' = [disk EXCEPT ![p] = 0]
  /\ inode' = Touch(inode, {disk[p]} \cup Parent(p))

-----------------------------------------------------------------------------
(* Headers.  The GNU and posix formats have a place for every name and     *)
(* number: more headers before this one, base 256, an extended header.     *)
Short(p) == given.length[p] = "short"

HeaderFails(s) == given.format = "ustar" /\ (given.length[s.name] = "long" \/ s.old)

Member(type, s, link, data, whole) ==
  [type |-> type, name |-> s.name, ino |-> s.ino, link |-> link, data |-> data, whole |-> whole]
Store(member) == archive' = Append(archive, member)

Failure == exit_status' = 2
Differs == exit_status' = IF exit_status = 0 THEN 1 ELSE exit_status

-----------------------------------------------------------------------------
(* dump_file0: the file is looked at.                                      *)
GoTo(place) == pc' = place /\ UNCHANGED given
Dump(p, top) == [do |-> "dump", name |-> p, top |-> top]
Leave(s) == [do |-> "leave", st |-> s]

Stat(p, top) ==
  [name |-> p, ino |-> disk[p], nlink |-> Links(disk[p]), kind |-> inode[disk[p]].kind,
   old |-> inode[disk[p]].old, blank |-> inode[disk[p]].blank,
   changes |-> inode[disk[p]].changes, data |-> inode[disk[p]].data, top |-> top]

IsKnown(s) == s.nlink > 1 /\ s.ino \in DOMAIN link_table

(* What is done with a file of this kind.                                  *)
Handler(s) ==
  IF s.kind # "dir" /\ IsKnown(s) THEN "link"
  ELSE CASE s.kind \in {"dir", "file"} -> "open"
         [] s.kind \in {"symlink", "fifo"} -> "special"
         [] s.kind = "socket" -> "next"

(* Whether others acted since tar looked at the file for the last time.    *)
OnTime(h) == [h EXCEPT !.late = FALSE]

DumpFile ==
  /\ pc = "next" /\ todo # <<>> /\ Head(todo).do = "dump"
  /\ todo' = Tail(todo)
  /\ IF Exists(Head(todo).name)
     THEN LET s == Stat(Head(todo).name, Head(todo).top) IN
          st' = s /\ GoTo(Handler(s)) /\ UNCHANGED exit_status
     ELSE GoTo("next") /\ Failure /\ UNCHANGED st
  /\ history' = OnTime(history)
  /\ UNCHANGED <<files, fd, written>>

(* dump_hard_link.  A linkname that does not fit is cut off in a ustar     *)
(* header, and reported as not dumped.                                     *)
LinkName == link_table[st.ino].name
CutOff == given.format = "ustar" /\ ~Short(LinkName)
NotReported == UNCHANGED exit_status     \* a wrong LongLink
LongLink == IF CutOff THEN Failure ELSE UNCHANGED exit_status
Counted == [link_table EXCEPT ![st.ino].nlink = @ - 1]

AfterStored == IF given.remove_files THEN "stored" ELSE "next"

DumpHardLink ==
  /\ pc = "link" /\ ~HeaderFails(st)
  /\ link_table' = Counted
  /\ Store(Member("link", st, IF CutOff THEN None ELSE LinkName, inode[st.ino].data, TRUE))
  /\ LongLink
  /\ GoTo(AfterStored)
  /\ UNCHANGED <<files, todo, st, fd, history>>

(* start_header fails: dump_hard_link returns false, and the file is       *)
(* dumped as if it was met for the first time.                             *)
HardLinkFails ==
  /\ pc = "link" /\ HeaderFails(st)
  /\ link_table' = Counted
  /\ Failure
  /\ GoTo(IF st.kind = "file" THEN "open" ELSE "special")
  /\ UNCHANGED <<files, todo, st, fd, archive, history>>

(* file_count_links, for a file whose dump may have failed: the table may  *)
(* not hold it.                                                            *)
Aborts == st.nlink > 1 /\ st.ino \in DOMAIN link_table
RegisteredAll ==                         \* a wrong Registered
  [i \in DOMAIN link_table \cup {st.ino} |->
     IF i = st.ino THEN [name |-> st.name, nlink |-> st.nlink] ELSE link_table[i]]
Registered ==
  [i \in DOMAIN link_table \cup {st.ino} |->
     IF i = st.ino THEN [name |-> st.name, nlink |-> st.nlink - 1] ELSE link_table[i]]
CountLinks == link_table' = IF st.nlink > 1 /\ ~Aborts THEN Registered ELSE link_table

-----------------------------------------------------------------------------
(* Regular files and directories.                                          *)
MayFail == history.errors < MaxErrors
Erring == history' = [history EXCEPT !.errors = @ + 1]

(* file_dumpable_p: an empty file that all may read is not opened.         *)
Opens == ~(st.kind = "file" /\ st.blank)

Open ==
  /\ pc = "open"
  /\ IF Opens THEN Exists(st.name) /\ fd' = disk[st.name] ELSE UNCHANGED fd
  /\ GoTo("read")
  /\ UNCHANGED <<files, todo, st, written, exit_status, history>>

(* A file below a directory that has gone meanwhile is no error.           *)
OpenMissing ==
  /\ pc = "open" /\ Opens /\ ~Exists(st.name)
  /\ IF st.top THEN Failure ELSE UNCHANGED exit_status
  /\ GoTo("next")
  /\ UNCHANGED <<files, todo, st, fd, written, history>>

OpenError ==
  /\ pc = "open" /\ Opens /\ MayFail /\ Erring
  /\ Failure
  /\ GoTo("next")
  /\ UNCHANGED <<files, todo, st, fd, written>>

(* dump_dir, dump_dir0: the entries are those found now, in any order.     *)
ReadDirectory ==
  /\ pc = "read" /\ st.kind = "dir"
  /\ IF HeaderFails(st)
     THEN /\ todo' = <<Leave(st)>> \o todo
          /\ Failure /\ UNCHANGED archive
     ELSE /\ \E entries \in SetToSeqs(Below(st.name)) :
               todo' = [k \in DOMAIN entries |-> Dump(entries[k], FALSE)] \o <<Leave(st)>> \o todo
          /\ Store(Member("dir", st, None, st.data, TRUE))
          /\ UNCHANGED exit_status
  /\ fd' = 0
  /\ GoTo("next")
  /\ UNCHANGED <<files, st, link_table, history>>

(* The dump of a file is over, with a status: "ok", "short" or "fail".     *)
AfterShortDump(status) ==                \* a wrong AfterDump
  /\ CountLinks
  /\ GoTo(IF Aborts THEN "aborted" ELSE IF status # "fail" THEN "check" ELSE "next")
  /\ fd' = IF status # "fail" THEN fd ELSE 0
AfterDump(status) ==
  /\ CountLinks
  /\ GoTo(IF Aborts THEN "aborted" ELSE IF status = "ok" THEN "check" ELSE "next")
  /\ fd' = IF status = "ok" THEN fd ELSE 0

(* dump_regular_file.  The size is that of the file when stat looked at it:*)
(* of one that has other contents now, as much is stored, or it has shrunk *)
(* and is padded, and the exit status is set whatever it was.              *)
Content == IF Opens THEN inode[fd].data ELSE st.data
ReadFile ==
  /\ pc = "read" /\ st.kind = "file" /\ ~HeaderFails(st)
  /\ \E outcome \in IF Content = st.data THEN {"same"} ELSE {"same", "grown", "shrunk"} :
       /\ Store(Member("file", st, None, Content, outcome = "same"))
       /\ IF outcome = "shrunk" THEN exit_status' = 1 ELSE UNCHANGED exit_status
       /\ AfterDump(IF outcome = "shrunk" THEN "short" ELSE "ok")
  /\ UNCHANGED <<files, todo, st, history>>

ReadError ==
  /\ pc = "read" /\ st.kind = "file" /\ Opens /\ ~HeaderFails(st)
  /\ MayFail /\ Erring
  /\ Store(Member("file", st, None, Content, FALSE))
  /\ Failure
  /\ AfterDump("short")
  /\ UNCHANGED <<files, todo, st>>

FileHeaderFails ==
  /\ pc = "read" /\ st.kind = "file" /\ HeaderFails(st)
  /\ Failure
  /\ AfterDump("fail")
  /\ UNCHANGED <<files, todo, st, archive, history>>

(* dump_dir0 has come back: what is below the directory is dumped.         *)
LeaveDirectory ==
  /\ pc = "next" /\ todo # <<>> /\ Head(todo).do = "leave"
  /\ todo' = Tail(todo)
  /\ st' = Head(todo).st
  /\ GoTo("check")
  /\ UNCHANGED <<files, fd, written, exit_status, history>>

(* The file is looked at again, through its descriptor if it has one.      *)
Final == IF fd # 0 THEN fd ELSE disk[st.name]
Changed == Final # st.ino \/ inode[Final].changes # st.changes

CheckUnchanged ==
  /\ pc = "check" /\ Final # 0
  /\ IF Changed
     THEN Differs /\ history' = OnTime([history EXCEPT !.warned = @ \cup {st.name}])
     ELSE UNCHANGED exit_status /\ history' = OnTime(history)
  /\ fd' = 0
  /\ GoTo(AfterStored)
  /\ UNCHANGED <<files, todo, st, written>>

CheckMissing ==
  /\ pc = "check" /\ Final = 0
  /\ Failure
  /\ GoTo("next")
  /\ UNCHANGED <<files, todo, st, fd, written, history>>

(* Symbolic links, which go to the table, FIFOs, which do not.             *)
DumpSpecial ==
  /\ pc = "special" /\ Exists(st.name) /\ ~HeaderFails(st)
  /\ Store(Member(st.kind, st, None, st.data, TRUE))
  /\ IF st.kind = "symlink" THEN CountLinks ELSE UNCHANGED link_table
  /\ GoTo(IF st.kind = "symlink" /\ Aborts THEN "aborted" ELSE AfterStored)
  /\ UNCHANGED <<files, todo, st, fd, exit_status, history>>

SpecialFails ==
  /\ pc = "special"
  /\ \/ HeaderFails(st)
     \/ st.kind = "symlink" /\ ~Exists(st.name)
  /\ Failure
  /\ GoTo("next")
  /\ UNCHANGED <<files, todo, st, fd, written, history>>

(* --remove-files: the name is removed, whatever it names now.             *)
Loses(p) == disk[p] # 0 /\ Links(disk[p]) = 1
Loss == [name |-> st.name, data |-> inode[disk[st.name]].data, late |-> history.late]
RemoveFile ==
  /\ pc = "stored" /\ st.kind # "dir"
  /\ IF Exists(st.name)
     THEN /\ Unlinked(st.name)
          /\ history' = IF Loses(st.name) THEN [history EXCEPT !.lost = @ \cup {Loss}] ELSE history
          /\ UNCHANGED exit_status
     ELSE Failure /\ UNCHANGED <<files, history>>
  /\ GoTo("next")
  /\ UNCHANGED <<todo, st, fd, written>>

RemoveDirectory ==
  /\ pc = "stored" /\ st.kind = "dir"
  /\ IF Below(st.name) = {} THEN Unlinked(st.name) ELSE UNCHANGED files
  /\ GoTo("next")
  /\ UNCHANGED <<todo, st, fd, written, exit_status, history>>

(* check_links: the members of which links were not dumped.                *)
MissingLinks == {link_table[i].name : i \in {j \in DOMAIN link_table : link_table[j].nlink # 0}}

Done ==
  /\ pc = "next" /\ todo = <<>>
  /\ GoTo("done")
  /\ UNCHANGED <<files, todo, st, fd, written, exit_status, history>>

-----------------------------------------------------------------------------
(* Other processes.  tar looks at a file again only where it has read it.  *)
Unwatched == pc \in {"link", "special", "stored"}
Changing ==
  /\ pc # "done" /\ history.changes < given.changes
  /\ history' = [history EXCEPT !.changes = @ + 1, !.late = @ \/ Unwatched]
  /\ UNCHANGED <<given, control, written, exit_status>>

IsFile(p) == Exists(p) /\ inode[disk[p]].kind = "file"
MayCreate(p) == ~Exists(p) /\ (Len(p) > 1 => Exists(Front(p)))
NewData == Cardinality(Inodes) + history.changes + 1

(* A new inode, which may have a number that was used before.              *)
NewFile(nodes, i) ==
  [nodes EXCEPT ![i] = [kind |-> "file", data |-> NewData, old |-> FALSE, blank |-> FALSE,
                        changes |-> @.changes + 1]]

OtherWrites(p) ==
  /\ IsFile(p) /\ Changing
  /\ inode' = NewFile(inode, disk[p])
  /\ UNCHANGED disk

OtherRemoves(p) ==
  /\ Exists(p) /\ inode[disk[p]].kind # "dir" /\ Changing
  /\ Unlinked(p)

OtherCreates(p, i) ==
  /\ MayCreate(p) /\ Links(i) = 0 /\ i # fd /\ Changing
  /\ disk' = [disk EXCEPT ![p] = i]
  /\ inode' = Touch(NewFile(inode, i), Parent(p))

OtherLinks(p, q) ==
  /\ IsFile(p) /\ MayCreate(q) /\ Changing
  /\ disk' = [disk EXCEPT ![q] = disk[p]]
  /\ inode' = Touch(inode, {disk[p]} \cup Parent(q))

Other ==
  \E p \in Paths :
    \/ OtherWrites(p)
    \/ OtherRemoves(p)
    \/ \E i \in Inodes : OtherCreates(p, i)
    \/ \E q \in Paths : OtherLinks(p, q)

-----------------------------------------------------------------------------
Nobody == [name |-> None, ino |-> 0, nlink |-> 0, kind |-> "file", old |-> FALSE,
           blank |-> FALSE, changes |-> 0, data |-> 0, top |-> FALSE]

Init ==
  /\ given \in Settings
  /\ disk = given.disk /\ inode = given.inode
  /\ todo = [k \in DOMAIN given.names |-> Dump(given.names[k], TRUE)]
  /\ st = Nobody /\ fd = 0
  /\ link_table = <<>> /\ archive = <<>>
  /\ exit_status = 0 /\ pc = "next"
  /\ history = [changes |-> 0, errors |-> 0, late |-> FALSE, warned |-> {}, lost |-> {}]

Tar ==
  \/ DumpFile \/ DumpHardLink \/ HardLinkFails
  \/ Open \/ OpenMissing \/ OpenError
  \/ ReadDirectory \/ ReadFile \/ ReadError \/ FileHeaderFails
  \/ LeaveDirectory \/ CheckUnchanged \/ CheckMissing
  \/ DumpSpecial \/ SpecialFails
  \/ RemoveFile \/ RemoveDirectory \/ Done

Next == Tar \/ Other

Spec == Init /\ [][Next]_vars
==============================================================================
