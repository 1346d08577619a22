---------------------------- MODULE DumpFilesProofs ----------------------------
(***************************************************************************)
(* `tar --create --remove-files' never destroys the last copy of a file,   *)
(* outside the ustar format it never aborts, --check-links warns of the    *)
(* links that are not in the archive and of no others, and an archive made *)
(* without an error holds the files that were asked for.                   *)
(***************************************************************************)
EXTENDS DumpFilesProps, FiniteSetTheorems, SequenceTheorems, WellFoundedInduction, TLAPS

(* While a file is being dumped.                                           *)
Active == pc \in {"open", "read", "check", "link", "special", "stored"}

IsSeen(s) ==
  s.name \in Paths /\ s.ino \in Inodes /\ s.kind \in Kinds /\ s.changes \in Nat

IsItem(item) ==
  \/ item.do = "dump" /\ item.name \in Paths
  \/ item.do = "leave" /\ IsSeen(item.st) /\ item.st.kind = "dir"

IsSequence(s) == \E S : s \in Seq(S)

FilesTyped == disk \in [Paths -> Inodes \cup {0}] /\ inode \in [Inodes -> Inode]
TodoTyped == \E S : todo \in Seq(S) /\ \A x \in S : IsItem(x)
DumpTyped ==
  /\ given \in Settings
  /\ Active => IsSeen(st)
  /\ fd \in Inodes \cup {0}
  /\ IsSequence(archive)
History == [changes : Nat, errors : Nat, late : BOOLEAN, warned : SUBSET Paths,
            lost : SUBSET [name : Paths, data : Nat, late : BOOLEAN]]
HistoryTyped == history \in History
Typed == FilesTyped /\ TodoTyped /\ DumpTyped /\ HistoryTyped

HasData(data) ==
  \E k \in DOMAIN archive :
    archive[k].type # "link" /\ archive[k].data = data /\ archive[k].whole

(* A file whose ctime is the one stat told is the one stat looked at.      *)
Same == inode[st.ino].changes = st.changes
SameFile ==
  (Active /\ st.kind # "dir") =>
    /\ inode[st.ino].changes >= st.changes
    /\ Same => disk[st.name] = st.ino /\ inode[st.ino].data = st.data

Opened == (pc = "read" /\ Opens) => fd # 0
Read == (pc = "check" /\ st.kind # "dir" /\ fd \in {0, st.ino} /\ Same) => HasData(st.data)
Untouched == (pc \in {"link", "special"} /\ st.kind # "dir" /\ ~history.late) => Same
Linked == (pc = "link" /\ ~history.late) => ~Loses(st.name)
Saved ==
  (pc = "stored" /\ st.kind # "dir" /\ ~history.late /\ Loses(st.name)) =>
    HasData(inode[disk[st.name]].data) \/ st.name \in history.warned

Lost ==
  \A l \in history.lost : HasData(l.data) \/ l.name \in history.warned \/ l.late

Special == pc \in {"link", "special"} => st.kind # "dir"

(* What is true of the file that is dumped, and of the files removed.      *)
Watched == SameFile /\ Opened /\ Read /\ Untouched /\ Linked /\ Saved /\ Special
Careful == Watched /\ Lost

------------------------------------------------------------------------------
(* Sequences and the file system.                                          *)

LEMMA AppendKeeps ==
  ASSUME NEW s, NEW m, IsSequence(s)
  PROVE  /\ IsSequence(Append(s, m))
         /\ DOMAIN s \subseteq DOMAIN Append(s, m)
         /\ \A k \in DOMAIN s : Append(s, m)[k] = s[k]
         /\ Len(s) + 1 \in DOMAIN Append(s, m)
         /\ Append(s, m)[Len(s) + 1] = m
<1>1. PICK S : s \in Seq(S)
  BY DEF IsSequence
<1>2. s \in Seq(S \cup {m})
  BY <1>1
<1>3. Append(s, m) \in Seq(S \cup {m})
  BY <1>2
<1>4. IsSequence(Append(s, m))
  BY <1>3 DEF IsSequence
<1>. QED
  BY <1>2, <1>4

(* What a step of another process leaves alone.                            *)
Calm ==
  \A i \in Inodes :
    /\ inode'[i].changes >= inode[i].changes
    /\ inode'[i].changes = inode[i].changes =>
         /\ inode'[i].data = inode[i].data
         /\ \A p \in Paths : disk[p] = i => disk'[p] = i

LEMMA InodeTouched ==
  ASSUME NEW n \in Inode
  PROVE  /\ [n EXCEPT !.changes = @ + 1] \in Inode
         /\ [n EXCEPT !.changes = @ + 1].changes = n.changes + 1
         /\ [n EXCEPT !.changes = @ + 1].data = n.data
         /\ [n EXCEPT !.changes = @ + 1].kind = n.kind
BY DEF Inode

LEMMA Touched ==
  ASSUME NEW nodes \in [Inodes -> Inode], NEW touched
  PROVE  /\ Touch(nodes, touched) \in [Inodes -> Inode]
         /\ \A i \in Inodes :
              /\ Touch(nodes, touched)[i].data = nodes[i].data
              /\ Touch(nodes, touched)[i].kind = nodes[i].kind
              /\ nodes[i].changes \in Nat
              /\ i \in touched => Touch(nodes, touched)[i].changes = nodes[i].changes + 1
              /\ i \notin touched => Touch(nodes, touched)[i].changes = nodes[i].changes
<1>1. \A i \in Inodes : nodes[i] \in Inode /\ nodes[i].changes \in Nat
  BY DEF Inode
<1>. QED
  BY <1>1, InodeTouched DEF Touch

LEMMA Renewed ==
  ASSUME NEW nodes \in [Inodes -> Inode], NEW i \in Inodes, history.changes \in Nat
  PROVE  /\ NewFile(nodes, i) \in [Inodes -> Inode]
         /\ NewFile(nodes, i)[i].changes = nodes[i].changes + 1
         /\ \A j \in Inodes \ {i} : NewFile(nodes, i)[j] = nodes[j]
<1>1. nodes[i].changes \in Nat
  BY DEF Inode
<1>2. Cardinality(Inodes) \in Nat
  BY FS_CardinalityType, DumpAssumption
<1>3. NewData \in Nat
  BY <1>2 DEF NewData
<1>4. [kind |-> "file", data |-> NewData, old |-> FALSE, blank |-> FALSE,
       changes |-> nodes[i].changes + 1] \in Inode
  BY <1>1, <1>3 DEF Inode, Kinds
<1>. QED
  BY <1>4 DEF NewFile

LEMMA OtherIsCalm ==
  ASSUME FilesTyped, history.changes \in Nat, Other
  PROVE  FilesTyped' /\ Calm
<1>. USE DEF FilesTyped
<1>0. \A i \in Inodes : inode[i].changes \in Nat
  BY DEF Inode
<1>1. PICK p \in Paths :
        \/ OtherWrites(p) \/ OtherRemoves(p)
        \/ \E i \in Inodes : OtherCreates(p, i)
        \/ \E q \in Paths : OtherLinks(p, q)
  BY DEF Other
<1>9. 0 \notin Inodes
  BY DumpAssumption
<1>3. CASE OtherWrites(p)
  <2>1. disk[p] \in Inodes /\ disk' = disk /\ inode' = NewFile(inode, disk[p])
    BY <1>3 DEF OtherWrites, IsFile, Exists
  <2>2. FilesTyped'
    BY <2>1, Renewed
  <2>3. ASSUME NEW j \in Inodes
        PROVE  /\ inode'[j].changes >= inode[j].changes
               /\ inode'[j].changes = inode[j].changes => j # disk[p]
    <3>1. CASE j = disk[p]
      BY <1>0, <2>1, <3>1, Renewed
    <3>2. CASE j # disk[p]
      BY <1>0, <2>1, <3>2, Renewed
    <3>. QED
      BY <3>1, <3>2
  <2>4. \A j \in Inodes : j # disk[p] => inode'[j] = inode[j]
    BY <2>1, Renewed
  <2>. QED
    BY <2>1, <2>2, <2>3, <2>4 DEF Calm
<1>4. CASE OtherRemoves(p)
  <2>1. /\ disk[p] \in Inodes /\ disk' = [disk EXCEPT ![p] = 0]
        /\ inode' = Touch(inode, {disk[p]} \cup Parent(p))
    BY <1>4 DEF OtherRemoves, Unlinked, Exists
  <2>2. FilesTyped'
    BY <2>1, Touched
  <2>3. ASSUME NEW i \in Inodes
        PROVE  /\ inode'[i].changes >= inode[i].changes
               /\ inode'[i].data = inode[i].data
               /\ inode'[i].changes = inode[i].changes => i # disk[p]
    BY <1>0, <2>1, Touched
  <2>. QED
    BY <2>1, <2>2, <2>3 DEF Calm
<1>5. ASSUME NEW i \in Inodes, OtherCreates(p, i)
      PROVE  FilesTyped' /\ Calm
  <2>1. /\ disk[p] = 0 /\ disk' = [disk EXCEPT ![p] = i]
        /\ inode' = Touch(NewFile(inode, i), Parent(p))
    BY <1>5 DEF OtherCreates, MayCreate, Exists
  <2>2. NewFile(inode, i) \in [Inodes -> Inode]
    BY Renewed
  <2>3. FilesTyped'
    BY <2>1, <2>2, Touched
  <2>4. ASSUME NEW j \in Inodes
        PROVE  /\ inode'[j].changes >= inode[j].changes
               /\ inode'[j].changes = inode[j].changes => inode'[j].data = inode[j].data
    <3>1. inode'[j].data = NewFile(inode, i)[j].data
      BY <2>1, <2>2, Touched
    <3>2. inode'[j].changes >= NewFile(inode, i)[j].changes
      BY <2>1, <2>2, Touched
    <3>5. inode'[j].changes \in Nat
      BY <2>3 DEF Inode
    <3>3. CASE j = i
      <4>1. NewFile(inode, i)[j].changes = inode[j].changes + 1
        BY <3>3, Renewed
      <4>. QED
        BY <1>0, <3>2, <3>5, <4>1
    <3>4. CASE j # i
      BY <1>0, <3>1, <3>2, <3>4, <3>5, Renewed
    <3>. QED
      BY <3>3, <3>4
  <2>. QED
    BY <1>9, <2>1, <2>3, <2>4 DEF Calm
<1>6. ASSUME NEW q \in Paths, OtherLinks(p, q)
      PROVE  FilesTyped' /\ Calm
  <2>1. /\ disk[p] \in Inodes /\ disk[q] = 0 /\ disk' = [disk EXCEPT ![q] = disk[p]]
        /\ inode' = Touch(inode, {disk[p]} \cup Parent(q))
    BY <1>6 DEF OtherLinks, IsFile, MayCreate, Exists
  <2>2. FilesTyped'
    BY <2>1, Touched
  <2>3. ASSUME NEW i \in Inodes
        PROVE  /\ inode'[i].changes >= inode[i].changes
               /\ inode'[i].data = inode[i].data
    BY <1>0, <2>1, Touched
  <2>. QED
    BY <1>9, <2>1, <2>2, <2>3 DEF Calm
<1>. QED
  BY <1>1, <1>3, <1>4, <1>5, <1>6

------------------------------------------------------------------------------
(* Types.                                                                  *)

LEMMA DumpsTyped ==
  ASSUME NEW n \in Nat, NEW names, NEW top, \A k \in 1 .. n : names[k] \in Paths
  PROVE  LET S == {Dump(p, top) : p \in Paths} IN
         /\ \A x \in S : IsItem(x)
         /\ [k \in 1 .. n |-> Dump(names[k], top)] \in Seq(S)
<1>. DEFINE S == {Dump(p, top) : p \in Paths}
<1>1. \A x \in S : IsItem(x)
  BY DEF IsItem, Dump
<1>2. \A k \in 1 .. n : Dump(names[k], top) \in S
  OBVIOUS
<1>. HIDE DEF S
<1>3. [k \in 1 .. n |-> Dump(names[k], top)] \in Seq(S)
  BY <1>2
<1>. QED
  BY <1>1, <1>3 DEF S

LEMMA NamesTyped ==
  ASSUME NEW names \in Seq(Paths), todo = [k \in DOMAIN names |-> Dump(names[k], TRUE)]
  PROVE  TodoTyped
<1>1. DOMAIN names = 1 .. Len(names) /\ Len(names) \in Nat
  OBVIOUS
<1>2. \A k \in 1 .. Len(names) : names[k] \in Paths
  OBVIOUS
<1>. DEFINE D == {Dump(p, TRUE) : p \in Paths}
<1>3. \A x \in D : IsItem(x)
  BY <1>1, <1>2, DumpsTyped
<1>4. todo \in Seq(D)
  BY <1>1, <1>2, DumpsTyped
<1>. HIDE DEF D
<1>. QED
  BY <1>3, <1>4 DEF TodoTyped

LEMMA InitTyped ==
  ASSUME Init
  PROVE  Typed
<1>. USE DumpAssumption DEF Init
<1>1. FilesTyped
  BY DEF FilesTyped
<1>2. TodoTyped
  <2>1. given.names \in Seq(Paths) /\ todo = [k \in DOMAIN given.names |-> Dump(given.names[k], TRUE)]
    OBVIOUS
  <2>. QED
    BY <2>1, NamesTyped
<1>3. DumpTyped
  <2>1. IsSequence(archive)
    <3>1. archive \in Seq({})
      OBVIOUS
    <3>. QED
      BY <3>1 DEF IsSequence
  <2>. QED
    BY <2>1 DEF DumpTyped, Active
<1>4. HistoryTyped
  BY DEF HistoryTyped, History
<1>. QED
  BY <1>1, <1>2, <1>3, <1>4 DEF Typed

(* Where tar removes a name.                                               *)
LEMMA UnlinkedTyped ==
  ASSUME FilesTyped, NEW p \in Paths, Unlinked(p)
  PROVE  FilesTyped'
<1>1. Touch(inode, {disk[p]} \cup Parent(p)) \in [Inodes -> Inode]
  BY Touched DEF FilesTyped
<1>. QED
  BY <1>1 DEF FilesTyped, Unlinked

(* What stat tells has its type.                                           *)
LEMMA StatSeen ==
  ASSUME FilesTyped, NEW p \in Paths, NEW top, Exists(p)
  PROVE  /\ IsSeen(Stat(p, top))
         /\ Stat(p, top).name = p /\ Stat(p, top).ino = disk[p]
         /\ disk[p] \in Inodes
         /\ Stat(p, top).changes = inode[disk[p]].changes
         /\ Stat(p, top).data = inode[disk[p]].data
         /\ Stat(p, top).kind = inode[disk[p]].kind
         /\ Stat(p, top).nlink = Links(disk[p])
<1>1. disk[p] \in Inodes
  BY DEF Exists, FilesTyped
<1>2. inode[disk[p]] \in Inode
  BY <1>1 DEF FilesTyped
<1>. QED
  BY <1>1, <1>2 DEF Stat, IsSeen, Inode

LEMMA FilesStep ==
  ASSUME Typed, Next
  PROVE  FilesTyped'
<1>. USE DEF Typed
<1>1. CASE UNCHANGED files
  BY <1>1 DEF FilesTyped, files
<1>2. CASE Other
  BY <1>2, OtherIsCalm DEF HistoryTyped, History
<1>3. CASE RemoveFile \/ RemoveDirectory
  <2>1. st.name \in Paths
    BY <1>3 DEF RemoveFile, RemoveDirectory, DumpTyped, Active, IsSeen
  <2>2. UNCHANGED files \/ Unlinked(st.name)
    BY <1>3 DEF RemoveFile, RemoveDirectory
  <2>. QED
    BY <1>1, <2>1, <2>2, UnlinkedTyped
<1>4. UNCHANGED files \/ Other \/ RemoveFile \/ RemoveDirectory
  BY DEF Next, Tar, DumpFile, DumpHardLink, HardLinkFails, Open, OpenMissing, OpenError,
         ReadDirectory, ReadFile, ReadError, FileHeaderFails, LeaveDirectory,
         CheckUnchanged, CheckMissing, DumpSpecial, SpecialFails, Done
<1>. QED
  BY <1>1, <1>2, <1>3, <1>4

LEMMA TodoStep ==
  ASSUME Typed, Next
  PROVE  TodoTyped'
<1>. USE DEF Typed
<1>1. PICK S : todo \in Seq(S) /\ \A x \in S : IsItem(x)
  BY DEF TodoTyped
<1>2. CASE UNCHANGED todo
  BY <1>1, <1>2 DEF TodoTyped
<1>3. CASE DumpFile \/ LeaveDirectory
  <2>1. todo # <<>> /\ todo' = Tail(todo)
    BY <1>3 DEF DumpFile, LeaveDirectory
  <2>2. todo' \in Seq(S)
    BY <1>1, <2>1
  <2>. QED
    BY <1>1, <2>2 DEF TodoTyped
<1>4. CASE ReadDirectory
  <2>. DEFINE T == S \cup {Leave(st)} \cup {Dump(p, FALSE) : p \in Paths}
  <2>1. IsSeen(st) /\ st.kind = "dir"
    BY <1>4 DEF ReadDirectory, DumpTyped, Active
  <2>2. \A x \in T : IsItem(x)
    BY <1>1, <2>1 DEF IsItem, Leave, Dump
  <2>3. todo \in Seq(T) /\ <<Leave(st)>> \in Seq(T)
    <3>1. S \subseteq T /\ Leave(st) \in T
      OBVIOUS
    <3>. HIDE DEF T
    <3>. QED
      BY <1>1, <3>1
  <2>4. ASSUME NEW entries \in SetToSeqs(Below(st.name))
        PROVE  [k \in DOMAIN entries |-> Dump(entries[k], FALSE)] \in Seq(T)
    <3>. DEFINE n == Cardinality(Below(st.name))
                D == {Dump(p, FALSE) : p \in Paths}
    <3>1. IsFiniteSet(Below(st.name))
      BY FS_Subset, DumpAssumption DEF Below
    <3>2. n \in Nat
      BY <3>1, FS_CardinalityType
    <3>. HIDE DEF n
    <3>3. entries \in [1 .. n -> Below(st.name)]
      BY DEF SetToSeqs, n
    <3>4. \A k \in 1 .. n : entries[k] \in Paths
      BY <3>3 DEF Below
    <3>5. [k \in 1 .. n |-> Dump(entries[k], FALSE)] \in Seq(D)
      BY <3>2, <3>4, DumpsTyped
    <3>6. D \subseteq T
      OBVIOUS
    <3>. HIDE DEF D, T
    <3>7. DOMAIN entries = 1 .. n
      BY <3>3
    <3>8. Seq(D) \subseteq Seq(T)
      BY <3>6
    <3>. QED
      BY <3>5, <3>7, <3>8
  <2>5. todo' \in Seq(T)
    <3>. HIDE DEF T
    <3>1. \/ todo' = <<Leave(st)>> \o todo
          \/ \E entries \in SetToSeqs(Below(st.name)) :
               todo' = [k \in DOMAIN entries |-> Dump(entries[k], FALSE)] \o <<Leave(st)>> \o todo
      BY <1>4 DEF ReadDirectory
    <3>2. \A a, b \in Seq(T) : a \o b \in Seq(T)
      OBVIOUS
    <3>. QED
      BY <2>3, <2>4, <3>1, <3>2
  <2>. QED
    BY <2>2, <2>5 DEF TodoTyped
<1>5. UNCHANGED todo \/ DumpFile \/ LeaveDirectory \/ ReadDirectory
  BY DEF Next, Tar, Other, OtherWrites, OtherRemoves, OtherCreates, OtherLinks, Changing,
         control, DumpHardLink, HardLinkFails, Open, OpenMissing, OpenError, ReadFile,
         ReadError, FileHeaderFails, CheckUnchanged, CheckMissing, DumpSpecial,
         SpecialFails, RemoveFile, RemoveDirectory, Done
<1>. QED
  BY <1>2, <1>3, <1>4, <1>5

(* A record like the history, with any sets for its fields: what a step    *)
(* of another process makes of it.                                         *)
Histories(L, W, D) == [changes : Nat, errors : Nat, late : L, warned : W, lost : D]

LEMMA LateSet ==
  ASSUME NEW L, NEW W, NEW D, NEW h \in Histories(L, W, D), NEW b \in L
  PROVE  /\ [h EXCEPT !.late = b] \in Histories(L, W, D)
         /\ [h EXCEPT !.late = b].warned = h.warned
         /\ [h EXCEPT !.late = b].lost = h.lost
         /\ [h EXCEPT !.late = b].late = b
BY DEF Histories

LEMMA ChangesSet ==
  ASSUME NEW L, NEW W, NEW D, NEW h \in Histories(L, W, D), NEW n \in Nat
  PROVE  /\ [h EXCEPT !.changes = n] \in Histories(L, W, D)
         /\ [h EXCEPT !.changes = n].warned = h.warned
         /\ [h EXCEPT !.changes = n].lost = h.lost
BY DEF Histories

LEMMA ChangesCounted ==
  ASSUME NEW L, NEW W, NEW D, NEW h \in Histories(L, W, D), NEW b \in L
  PROVE  LET n == [h EXCEPT !.changes = @ + 1, !.late = b] IN
         n \in Histories(L, W, D) /\ n.warned = h.warned /\ n.lost = h.lost /\ n.late = b
<1>. DEFINE counted == [h EXCEPT !.changes = h.changes + 1]
            n == [h EXCEPT !.changes = @ + 1, !.late = b]
<1>1. h.changes + 1 \in Nat
  BY DEF Histories
<1>2. counted \in Histories(L, W, D) /\ counted.warned = h.warned /\ counted.lost = h.lost
  BY <1>1, ChangesSet
<1>3. n = [counted EXCEPT !.late = b]
  OBVIOUS
<1>. HIDE DEF counted
<1>4. /\ [counted EXCEPT !.late = b] \in Histories(L, W, D)
      /\ [counted EXCEPT !.late = b].warned = counted.warned
      /\ [counted EXCEPT !.late = b].lost = counted.lost
      /\ [counted EXCEPT !.late = b].late = b
  BY <1>2, LateSet
<1>. HIDE DEF n
<1>5. n \in Histories(L, W, D) /\ n.warned = h.warned /\ n.lost = h.lost /\ n.late = b
  BY <1>2, <1>3, <1>4, Zenon
<1>. QED
  BY <1>5, Zenon DEF n

LEMMA OnTimeSet ==
  ASSUME NEW h \in History
  PROVE  /\ OnTime(h) \in History /\ OnTime(h).warned = h.warned
         /\ OnTime(h).lost = h.lost /\ OnTime(h).changes = h.changes
BY DEF OnTime, History

LEMMA HistoryStep ==
  ASSUME Typed, Next
  PROVE  /\ HistoryTyped'
         /\ history.warned \subseteq history.warned'
<1>. USE DEF Typed, HistoryTyped, History
<1>1. CASE UNCHANGED history
  BY <1>1
<1>2. CASE OpenError \/ ReadError
  <2>1. history' = [history EXCEPT !.errors = @ + 1]
    BY <1>2 DEF OpenError, ReadError, Erring
  <2>. QED
    BY <2>1
<1>3. CASE CheckUnchanged
  <2>1. st.name \in Paths
    BY <1>3 DEF CheckUnchanged, DumpTyped, Active, IsSeen
  <2>. DEFINE warning == [history EXCEPT !.warned = @ \cup {st.name}]
  <2>2. /\ warning \in History /\ history \in History
        /\ history.warned \subseteq warning.warned
    BY <2>1
  <2>3. history' = OnTime(history) \/ history' = OnTime(warning)
    BY <1>3 DEF CheckUnchanged
  <2>. HIDE DEF warning
  <2>. QED
    BY <2>2, <2>3, OnTimeSet
<1>4. CASE RemoveFile
  <2>1. CASE Exists(st.name)
    <3>1. st.name \in Paths
      BY <1>4 DEF RemoveFile, DumpTyped, Active, IsSeen
    <3>2. disk[st.name] \in Inodes
      BY <2>1, <3>1 DEF Exists, FilesTyped
    <3>3. Loss \in [name : Paths, data : Nat, late : BOOLEAN]
      BY <3>1, <3>2 DEF FilesTyped, Inode, Loss
    <3>4. history' = history \/ history' = [history EXCEPT !.lost = @ \cup {Loss}]
      BY <1>4, <2>1 DEF RemoveFile
    <3>. QED
      BY <3>3, <3>4
  <2>2. CASE ~Exists(st.name)
    BY <1>1, <1>4, <2>2 DEF RemoveFile
  <2>. QED
    BY <2>1, <2>2
<1>5. CASE Other
  <2>1. history' = [history EXCEPT !.changes = @ + 1, !.late = @ \/ Unwatched]
    BY <1>5 DEF Other, OtherWrites, OtherRemoves, OtherCreates, OtherLinks, Changing
  <2>. DEFINE b == history.late \/ Unwatched
  <2>2. b \in BOOLEAN
    BY Zenon
  <2>3. history' = [history EXCEPT !.changes = @ + 1, !.late = b]
    BY <2>1
  <2>. HIDE DEF b
  <2>. DEFINE W == SUBSET Paths
              D == SUBSET [name : Paths, data : Nat, late : BOOLEAN]
  <2>4. \A L, S, T : [changes : Nat, errors : Nat, late : L, warned : S, lost : T] = Histories(L, S, T)
    BY Zenon DEF Histories
  <2>5. history \in Histories(BOOLEAN, W, D)
    BY <2>4, Zenon
  <2>. HIDE DEF W, D
  <2>6. /\ history' \in Histories(BOOLEAN, W, D)
        /\ history'.warned = history.warned
    <3>1. LET n == [history EXCEPT !.changes = @ + 1, !.late = b] IN
          /\ n \in Histories(BOOLEAN, W, D) /\ n.warned = history.warned
          /\ n.lost = history.lost /\ n.late = b
      BY <2>2, <2>5, ChangesCounted, Zenon
    <3>. QED
      BY <2>3, <3>1, Zenon
  <2>7. HistoryTyped'
    BY <2>4, <2>6, Zenon DEF W, D
  <2>. QED
    BY <2>6, <2>7, Zenon
<1>6. CASE DumpFile
  BY <1>6, OnTimeSet DEF DumpFile
<1>7. \/ UNCHANGED history \/ OpenError \/ ReadError \/ CheckUnchanged \/ RemoveFile \/ Other
      \/ DumpFile
  BY DEF Next, Tar, DumpHardLink, HardLinkFails, Open, OpenMissing, ReadDirectory,
         ReadFile, FileHeaderFails, LeaveDirectory, CheckMissing, DumpSpecial, SpecialFails,
         RemoveDirectory, Done
<1>. QED
  BY <1>1, <1>2, <1>3, <1>4, <1>5, <1>6, <1>7

(* The archive only grows.                                                 *)
LEMMA ArchiveStep ==
  ASSUME Typed, Next
  PROVE  IsSequence(archive') /\ \A data : HasData(data) => HasData(data)'
<1>. USE DEF Typed, DumpTyped
<1>1. CASE UNCHANGED archive
  BY <1>1 DEF HasData
<1>2. CASE \E m : archive' = Append(archive, m)
  <2>1. PICK m : archive' = Append(archive, m)
    BY <1>2
  <2>2. /\ IsSequence(archive') /\ DOMAIN archive \subseteq DOMAIN archive'
        /\ \A k \in DOMAIN archive : archive'[k] = archive[k]
    BY <2>1, AppendKeeps
  <2>. QED
    BY <2>2 DEF HasData
<1>3. UNCHANGED archive \/ \E m : Store(m)
  BY DEF Next, Tar, Other, OtherWrites, OtherRemoves, OtherCreates, OtherLinks, Changing,
         written, DumpFile, DumpHardLink, HardLinkFails, Open, OpenMissing, OpenError,
         ReadDirectory, ReadFile, ReadError, FileHeaderFails, LeaveDirectory, CheckUnchanged,
         CheckMissing, DumpSpecial, SpecialFails, RemoveFile, RemoveDirectory, Done
<1>. QED
  BY <1>1, <1>2, <1>3 DEF Store

(* Which member is stored, if it is no link and whole.                     *)
LEMMA Stored ==
  ASSUME IsSequence(archive), NEW type, NEW s, NEW data, type # "link",
         Store(Member(type, s, None, data, TRUE))
  PROVE  HasData(data)'
<1>. DEFINE m == Member(type, s, None, data, TRUE)
<1>1. m.type = type /\ m.data = data /\ m.whole
  BY DEF Member
<1>. HIDE DEF m
<1>2. archive' = Append(archive, m)
  BY DEF Store, m
<1>3. Len(archive) + 1 \in DOMAIN archive' /\ archive'[Len(archive) + 1] = m
  BY <1>2, AppendKeeps
<1>. QED
  BY <1>1, <1>3 DEF HasData

LEMMA DumpStep ==
  ASSUME Typed, Next
  PROVE  DumpTyped'
<1>. USE DEF Typed, DumpTyped
<1>1. given' = given
  BY DEF Next, Tar, Other, OtherWrites, OtherRemoves, OtherCreates, OtherLinks, Changing,
         DumpFile, DumpHardLink, HardLinkFails, Open, OpenMissing, OpenError, AfterDump, GoTo,
         ReadDirectory, ReadFile, ReadError, FileHeaderFails, LeaveDirectory, CheckUnchanged,
         CheckMissing, DumpSpecial, SpecialFails, RemoveFile, RemoveDirectory, Done
<1>2. IsSequence(archive')
  BY ArchiveStep
<1>3. fd' \in Inodes \cup {0}
  <2>1. CASE Open
    <3>1. st.name \in Paths
      BY <2>1 DEF Open, Active, IsSeen
    <3>. QED
      BY <2>1, <3>1 DEF Open, FilesTyped
  <2>2. fd' \in {fd, 0} \/ Open
    BY DEF Next, Tar, Other, OtherWrites, OtherRemoves, OtherCreates, OtherLinks, Changing,
         control, DumpFile, DumpHardLink, HardLinkFails, OpenMissing, OpenError, AfterDump,
         ReadDirectory, ReadFile, ReadError, FileHeaderFails, LeaveDirectory, CheckUnchanged,
         CheckMissing, DumpSpecial, SpecialFails, RemoveFile, RemoveDirectory, Done
  <2>. QED
    BY <2>1, <2>2
<1>4. Active' => IsSeen(st')
  <2>1. CASE DumpFile
    <3>1. CASE Exists(Head(todo).name)
      <4>1. Head(todo).name \in Paths
        <5>1. PICK S : todo \in Seq(S) /\ \A x \in S : IsItem(x)
          BY DEF TodoTyped
        <5>2. IsItem(Head(todo))
          BY <2>1, <5>1 DEF DumpFile
        <5>. QED
          BY <2>1, <5>2 DEF DumpFile, IsItem
      <4>2. st' = Stat(Head(todo).name, Head(todo).top)
        BY <2>1, <3>1 DEF DumpFile
      <4>3. IsSeen(Stat(Head(todo).name, Head(todo).top))
        BY <3>1, <4>1, StatSeen
      <4>. QED
        BY <4>2, <4>3 DEF IsSeen
    <3>2. CASE ~Exists(Head(todo).name)
      BY <2>1, <3>2 DEF DumpFile, GoTo, Active
    <3>. QED
      BY <3>1, <3>2
  <2>2. CASE LeaveDirectory
    <3>1. PICK S : todo \in Seq(S) /\ \A x \in S : IsItem(x)
      BY DEF TodoTyped
    <3>2. IsItem(Head(todo))
      BY <2>2, <3>1 DEF LeaveDirectory
    <3>. QED
      BY <2>2, <3>2 DEF LeaveDirectory, IsItem, IsSeen
  <2>3. CASE Other
    BY <2>3 DEF Other, OtherWrites, OtherRemoves, OtherCreates, OtherLinks, Changing,
                control, Active, IsSeen
  <2>4. (st' = st /\ (Active' => Active)) \/ DumpFile \/ LeaveDirectory \/ Other
    BY DEF Next, Tar, DumpHardLink, HardLinkFails, Open, OpenMissing, OpenError, AfterDump,
         ReadDirectory, ReadFile, ReadError, FileHeaderFails, CheckUnchanged, CheckMissing,
         DumpSpecial, SpecialFails, RemoveFile, RemoveDirectory, Done, GoTo, Active
  <2>. QED
    BY <2>1, <2>2, <2>3, <2>4 DEF IsSeen
<1>. QED
  BY <1>1, <1>2, <1>3, <1>4

(* The types hold at every step.                                           *)
LEMMA TypedNext ==
  ASSUME Typed, [Next]_vars
  PROVE  Typed'
<1>1. CASE Next
  BY <1>1, FilesStep, TodoStep, DumpStep, HistoryStep DEF Typed
<1>2. CASE UNCHANGED vars
  BY <1>2 DEF Typed, FilesTyped, TodoTyped, DumpTyped, HistoryTyped, Active, IsSeen, vars,
              files, control, written
<1>. QED
  BY <1>1, <1>2

------------------------------------------------------------------------------
(* Nothing is lost: first the files that were removed.                     *)

LEMMA LostStep ==
  ASSUME Typed, Next, Saved, Lost
  PROVE  Lost'
<1>1. \A data : HasData(data) => HasData(data)'
  BY ArchiveStep
<1>2. history.warned \subseteq history.warned'
  BY HistoryStep
<1>3. \A l : (HasData(l.data) \/ l.name \in history.warned \/ l.late)
              => (HasData(l.data)' \/ l.name \in history'.warned \/ l.late)
  BY <1>1, <1>2
<1>4. CASE UNCHANGED history.lost
  BY <1>3, <1>4 DEF Lost
<1>5. CASE RemoveFile /\ Exists(st.name) /\ Loses(st.name)
  <2>1. history'.lost = history.lost \cup {Loss}
    BY <1>5 DEF RemoveFile, Typed, HistoryTyped, History
  <2>2. HasData(Loss.data) \/ Loss.name \in history.warned \/ Loss.late
    BY <1>5 DEF RemoveFile, Saved, Loss
  <2>. QED
    BY <1>3, <2>1, <2>2 DEF Lost
<1>6. CASE Other
  <2>1. history' = [history EXCEPT !.changes = @ + 1, !.late = @ \/ Unwatched]
    BY <1>6 DEF Other, OtherWrites, OtherRemoves, OtherCreates, OtherLinks, Changing
  <2>2. history'.lost = history.lost
    BY <2>1, Zenon DEF Typed, HistoryTyped, History
  <2>. QED
    BY <1>4, <2>2
<1>7. UNCHANGED history.lost \/ (RemoveFile /\ Exists(st.name) /\ Loses(st.name)) \/ Other
  BY DEF Typed, HistoryTyped, History, Next, Tar, DumpFile, DumpHardLink, HardLinkFails, Open,
         OpenMissing, OpenError, ReadDirectory, ReadFile, ReadError, FileHeaderFails,
         LeaveDirectory, CheckUnchanged, CheckMissing, DumpSpecial, SpecialFails, Erring,
         RemoveFile, RemoveDirectory, Done, OnTime
<1>. QED
  BY <1>4, <1>5, <1>6, <1>7

(* No file is dumped any more.                                             *)
LEMMA AtRest ==
  ASSUME ~Active'
  PROVE  Watched'
BY DEF Watched, SameFile, Opened, Read, Untouched, Linked, Saved, Special, Active

LEMMA DumpFileWatched ==
  ASSUME Typed, DumpFile
  PROVE  Watched'
<1>. DEFINE p == Head(todo).name
            s == Stat(p, Head(todo).top)
<1>1. CASE ~Exists(p)
  BY <1>1, AtRest DEF DumpFile, GoTo, Active
<1>2. CASE Exists(p)
  <2>1. p \in Paths
    <3>1. PICK S : todo \in Seq(S) /\ \A x \in S : IsItem(x)
      BY DEF Typed, TodoTyped
    <3>2. IsItem(Head(todo))
      BY <3>1 DEF DumpFile
    <3>. QED
      BY <3>2 DEF DumpFile, IsItem
  <2>. HIDE DEF p
  <2>2. /\ s.name = p /\ s.ino = disk[p] /\ disk[p] \in Inodes
        /\ s.changes = inode[disk[p]].changes /\ s.data = inode[disk[p]].data
        /\ s.nlink = Links(disk[p]) /\ s.changes \in Nat
    BY <1>2, <2>1, StatSeen DEF Typed, IsSeen
  <2>3. st' = s /\ pc' = Handler(s) /\ disk' = disk /\ inode' = inode
    BY <1>2 DEF DumpFile, GoTo, files, p
  <2>. HIDE DEF s
  <2>4. SameFile'
    BY <2>2, <2>3 DEF SameFile, Same
  <2>5. /\ pc' = "link" => s.kind # "dir" /\ s.nlink > 1
        /\ pc' = "special" => s.kind # "dir"
        /\ pc' \notin {"read", "check", "stored"}
    <3>1. s.kind \in Kinds
      BY <2>1, <1>2, StatSeen DEF s, Typed, IsSeen
    <3>. QED
      BY <2>3, <3>1 DEF Handler, IsKnown, Kinds
  <2>6. Opened' /\ Read' /\ Saved' /\ Special'
    BY <2>3, <2>5 DEF Opened, Read, Saved, Special
  <2>7. Untouched'
    BY <2>2, <2>3 DEF Untouched, Same
  <2>8. Linked'
    BY <2>2, <2>3, <2>5 DEF Linked, Loses, Links
  <2>. QED
    BY <2>4, <2>6, <2>7, <2>8 DEF Watched
<1>. QED
  BY <1>1, <1>2

(* The steps of tar that neither change a file nor take up another.        *)
LEMMA SameFileKept ==
  ASSUME SameFile, Active' => Active, UNCHANGED <<files, st>>
  PROVE  SameFile'
BY DEF SameFile, Same, files

LEMMA OpenWatched ==
  ASSUME Typed, Watched, Open
  PROVE  Watched'
<1>1. SameFile'
  BY SameFileKept DEF Open, GoTo, Active, Watched
<1>2. Opened'
  BY DEF Open, GoTo, Opened, Opens, Exists
<1>3. Read' /\ Untouched' /\ Linked' /\ Saved' /\ Special'
  BY DEF Open, GoTo, Read, Untouched, Linked, Saved, Special
<1>. QED
  BY <1>1, <1>2, <1>3 DEF Watched

LEMMA ReadFileWatched ==
  ASSUME Typed, Watched, ReadFile
  PROVE  Watched'
<1>. USE DEF Watched
<1>1. CASE pc' # "check"
  <2>1. ~Active'
    BY <1>1 DEF ReadFile, AfterDump, GoTo, Active
  <2>. QED
    BY <2>1, AtRest
<1>2. CASE pc' = "check"
  <2>1. SameFile'
    BY <1>2, SameFileKept DEF ReadFile, Active
  <2>2. Read'
    <3>1. SUFFICES ASSUME fd' \in {0, st.ino}, Same
                   PROVE  HasData(st.data)'
      BY <1>2 DEF ReadFile, Read, Same, files
    <3>2. PICK outcome \in IF Content = st.data THEN {"same"} ELSE {"same", "grown", "shrunk"} :
            /\ Store(Member("file", st, None, Content, outcome = "same"))
            /\ AfterDump(IF outcome = "shrunk" THEN "short" ELSE "ok")
      BY DEF ReadFile
    <3>3. fd' = fd
      BY <1>2, <3>2 DEF AfterDump, GoTo
    <3>4. Content = st.data
      <4>1. CASE Opens
        <5>1. fd = st.ino
          BY <3>1, <3>3, <4>1 DEF ReadFile, Opened
        <5>2. inode[st.ino].data = st.data
          BY <3>1 DEF ReadFile, SameFile, Active
        <5>. QED
          BY <4>1, <5>1, <5>2 DEF Content
      <4>2. CASE ~Opens
        BY <4>2 DEF Content
      <4>. QED
        BY <4>1, <4>2
    <3>5. outcome = "same"
      BY <3>2, <3>4
    <3>6. Store(Member("file", st, None, st.data, TRUE))
      <4>1. (outcome = "same") = TRUE
        BY <3>5
      <4>. QED
        BY <3>2, <3>4, <4>1, Zenon
    <3>7. \E d : d = st.data /\ HasData(d)'
      BY <3>6, Stored DEF Typed, DumpTyped
    <3>. QED
      BY <3>7 DEF ReadFile
  <2>3. Opened' /\ Untouched' /\ Linked' /\ Saved' /\ Special'
    BY <1>2 DEF Opened, Untouched, Linked, Saved, Special
  <2>. QED
    BY <2>1, <2>2, <2>3
<1>. QED
  BY <1>1, <1>2

LEMMA LeaveDirectoryWatched ==
  ASSUME Typed, LeaveDirectory
  PROVE  Watched'
<1>1. PICK S : todo \in Seq(S) /\ \A x \in S : IsItem(x)
  BY DEF Typed, TodoTyped
<1>2. IsItem(Head(todo))
  BY <1>1 DEF LeaveDirectory
<1>3. st'.kind = "dir" /\ pc' = "check"
  BY <1>2 DEF LeaveDirectory, GoTo, IsItem
<1>. QED
  BY <1>3 DEF Watched, SameFile, Opened, Read, Untouched, Linked, Saved, Special

(* A file that has not changed is in the archive before it is removed.     *)
LEMMA CheckWatched ==
  ASSUME Typed, Watched, CheckUnchanged
  PROVE  Watched'
<1>. USE DEF Watched
<1>1. SameFile'
  BY SameFileKept DEF CheckUnchanged, GoTo, AfterStored, Active
<1>2. Opened' /\ Read' /\ Untouched' /\ Linked' /\ Special'
  BY DEF CheckUnchanged, GoTo, AfterStored, Opened, Read, Untouched, Linked, Special
<1>3. Saved'
  <2>1. CASE Changed
    <3>. DEFINE warning == [history EXCEPT !.warned = @ \cup {st.name}]
    <3>1. st.name \in Paths
      BY DEF CheckUnchanged, Typed, DumpTyped, Active, IsSeen
    <3>2. warning \in History /\ st.name \in warning.warned
      BY <3>1 DEF Typed, HistoryTyped, History
    <3>3. history' = OnTime(warning) /\ st' = st
      BY <2>1 DEF CheckUnchanged
    <3>. HIDE DEF warning
    <3>4. st.name \in history'.warned
      BY <3>2, <3>3, OnTimeSet
    <3>. QED
      BY <3>3, <3>4 DEF Saved
  <2>2. CASE ~Changed
    <3>1. Final = st.ino /\ Same
      BY <2>2 DEF Changed, Same
    <3>2. SUFFICES ASSUME st.kind # "dir"
                   PROVE  HasData(inode[disk[st.name]].data)
      BY DEF CheckUnchanged, files, written, Saved, HasData
    <3>3. fd \in {0, st.ino}
      BY <3>1 DEF Final
    <3>4. HasData(st.data)
      BY <3>1, <3>2, <3>3 DEF CheckUnchanged, Read
    <3>5. disk[st.name] = st.ino /\ inode[st.ino].data = st.data
      BY <3>1, <3>2 DEF CheckUnchanged, SameFile, Active
    <3>. QED
      BY <3>4, <3>5
  <2>. QED
    BY <2>1, <2>2
<1>. QED
  BY <1>1, <1>2, <1>3

LEMMA LinkWatched ==
  ASSUME Typed, Watched, DumpHardLink \/ HardLinkFails
  PROVE  Watched'
<1>. USE DEF Watched
<1>1. SameFile'
  BY SameFileKept DEF DumpHardLink, HardLinkFails, GoTo, AfterStored, Active
<1>2. /\ disk' = disk /\ inode' = inode /\ st' = st /\ history' = history
      /\ pc = "link" /\ pc' \notin {"read", "check", "link"}
      /\ HardLinkFails => pc' # "stored"
  BY DEF DumpHardLink, HardLinkFails, GoTo, AfterStored, files
<1>3. Opened' /\ Read' /\ Linked' /\ Special' /\ Untouched'
  BY <1>2 DEF Opened, Read, Linked, Special, Untouched, Same
<1>4. Saved'
  BY <1>2 DEF Saved, Linked, Loses, Links
<1>. QED
  BY <1>1, <1>3, <1>4

LEMMA SpecialWatched ==
  ASSUME Typed, Watched, DumpSpecial
  PROVE  Watched'
<1>. USE DEF Watched
<1>1. /\ disk' = disk /\ inode' = inode /\ st' = st /\ history' = history
      /\ pc = "special" /\ pc' \in {"stored", "next", "aborted"}
  BY DEF DumpSpecial, GoTo, AfterStored, files
<1>2. SameFile'
  BY <1>1, SameFileKept DEF Active, files
<1>3. Opened' /\ Read' /\ Untouched' /\ Linked' /\ Special'
  BY <1>1 DEF Opened, Read, Untouched, Linked, Special
<1>4. Saved'
  <2>1. SUFFICES ASSUME st.kind # "dir", ~history.late
                 PROVE  HasData(inode[disk[st.name]].data)'
    BY <1>1 DEF Saved
  <2>2. disk[st.name] = st.ino /\ inode[st.ino].data = st.data
    BY <1>1, <2>1 DEF Untouched, SameFile, Active
  <2>3. Store(Member(st.kind, st, None, st.data, TRUE))
    BY DEF DumpSpecial
  <2>4. st.kind # "link"
    BY <1>1 DEF Typed, DumpTyped, Active, IsSeen, Kinds
  <2>5. \E d : d = st.data /\ HasData(d)'
    BY <2>3, <2>4, Stored DEF Typed, DumpTyped
  <2>. QED
    BY <1>1, <2>2, <2>5
<1>. QED
  BY <1>2, <1>3, <1>4

LEMMA OtherWatched ==
  ASSUME Typed, Watched, Other
  PROVE  Watched'
<1>. USE DEF Watched
<1>1. Calm
  BY OtherIsCalm DEF Typed, HistoryTyped, History
<1>2. /\ pc' = pc /\ st' = st /\ fd' = fd /\ archive' = archive
      /\ history' = [history EXCEPT !.changes = @ + 1, !.late = @ \/ Unwatched]
  BY DEF Other, OtherWrites, OtherRemoves, OtherCreates, OtherLinks, Changing, control, written
<1>3. ASSUME Active, st.kind # "dir"
      PROVE  /\ inode'[st.ino].changes >= st.changes
             /\ Same' => /\ Same
                         /\ disk'[st.name] = st.ino /\ inode'[st.ino].data = st.data
  <2>1. st.name \in Paths /\ st.ino \in Inodes /\ st.changes \in Nat
    BY <1>3 DEF Typed, DumpTyped, IsSeen
  <2>2. inode[st.ino].changes \in Nat /\ inode'[st.ino].changes \in Nat
    BY <2>1, OtherIsCalm DEF Typed, HistoryTyped, History, FilesTyped, Inode
  <2>3. /\ inode'[st.ino].changes >= inode[st.ino].changes
        /\ inode'[st.ino].changes = inode[st.ino].changes =>
             /\ inode'[st.ino].data = inode[st.ino].data
             /\ disk[st.name] = st.ino => disk'[st.name] = st.ino
    BY <1>1, <2>1 DEF Calm
  <2>4. inode[st.ino].changes >= st.changes
    BY <1>3 DEF SameFile
  <2>5. Same' => inode'[st.ino].changes = inode[st.ino].changes /\ Same
    BY <1>2, <2>1, <2>2, <2>3, <2>4 DEF Same
  <2>6. inode'[st.ino].changes >= st.changes
    BY <2>1, <2>2, <2>3, <2>4
  <2>. QED
    BY <1>3, <2>3, <2>5, <2>6 DEF SameFile
<1>4. SameFile'
  BY <1>2, <1>3 DEF SameFile, Active
<1>5. Opened' /\ Special'
  BY <1>2 DEF Opened, Special, Opens
<1>6. Read'
  BY <1>2, <1>3 DEF Read, Active, HasData
<1>7. Unwatched => history'.late
  <2>. DEFINE b == history.late \/ Unwatched
  <2>1. b \in BOOLEAN
    BY Zenon
  <2>2. history' = [history EXCEPT !.changes = @ + 1, !.late = b]
    BY <1>2
  <2>. HIDE DEF b
  <2>3. history'.late = b
    BY <2>2, Zenon DEF Typed, HistoryTyped, History
  <2>4. Unwatched => b
    BY Zenon DEF b
  <2>. QED
    BY <2>3, <2>4, Zenon
<1>8. Untouched' /\ Linked' /\ Saved'
  BY <1>2, <1>7 DEF Untouched, Linked, Saved, Unwatched
<1>. QED
  BY <1>4, <1>5, <1>6, <1>8

LEMMA RestingSteps ==
  ASSUME OpenMissing \/ OpenError \/ ReadDirectory \/ ReadError \/ FileHeaderFails
           \/ CheckMissing \/ SpecialFails \/ RemoveFile \/ RemoveDirectory \/ Done
  PROVE  ~Active'
BY DEF OpenMissing, OpenError, ReadDirectory, ReadError, FileHeaderFails, CheckMissing,
       SpecialFails, RemoveFile, RemoveDirectory, Done, AfterDump, GoTo, Active

LEMMA CarefulNext ==
  ASSUME Typed, Careful, [Next]_vars
  PROVE  Careful'
<1>. USE DEF Careful
<1>1. CASE UNCHANGED vars
  BY <1>1 DEF Watched, SameFile, Same, Opened, Opens, Read, Untouched, Linked, Saved, Special,
              Lost, HasData, Loses, Links, Active, vars, files, control, written
<1>2. CASE Next
  <2>1. Lost'
    BY <1>2, LostStep DEF Watched
  <2>2. Watched'
    BY <1>2, DumpFileWatched, OpenWatched, ReadFileWatched, LeaveDirectoryWatched, CheckWatched,
       LinkWatched, SpecialWatched, OtherWatched, RestingSteps, AtRest DEF Next, Tar
  <2>. QED
    BY <2>1, <2>2
<1>. QED
  BY <1>1, <1>2

(* `tar --create --remove-files' never destroys the last copy of a file,   *)
(* whatever other processes do, and however many files, errors and changes *)
(* there are: what a name that was removed was the last to have is whole   *)
(* in the archive, or a warning was given, or it was made after tar looked *)
(* at the file for the last time.  (create.c, dump_file0.)                 *)
THEOREM NothingLostEver == Spec => []NothingLost
<1>1. Init => Typed /\ Careful
  <2>1. SUFFICES ASSUME Init
                 PROVE  Typed /\ Careful
    OBVIOUS
  <2>2. Typed
    BY <2>1, InitTyped
  <2>3. pc = "next" /\ history.lost = {}
    BY <2>1 DEF Init
  <2>4. Careful
    BY <2>3 DEF Careful, Watched, SameFile, Opened, Read, Untouched, Linked, Saved, Special,
                Lost, Active
  <2>. QED
    BY <2>2, <2>4
<1>2. Typed /\ Careful /\ [Next]_vars => Typed' /\ Careful'
  BY TypedNext, CarefulNext
<1>3. Careful => NothingLost
  BY DEF Careful, Lost, HasData, NothingLost
<1>. QED
  BY <1>1, <1>2, <1>3, PTL DEF Spec

------------------------------------------------------------------------------
(* The table of hard links.                                                *)

(* While a file is dumped that may be put into the table, it is not in it. *)
NotYetKnown ==
  (pc \in {"open", "read", "special"} /\ st.kind # "dir" /\ st.nlink > 1) =>
    st.ino \notin DOMAIN link_table

NoUstar == \A g \in Settings : g.format # "ustar"

LEMMA HandlerOf ==
  ASSUME NEW s, s.kind \in Kinds
  PROVE  /\ Handler(s) \in {"link", "open", "special", "next"}
         /\ s.kind # "dir" /\ IsKnown(s) => Handler(s) = "link"
BY DEF Handler, Kinds

LEMMA NotYetKnownNext ==
  ASSUME NoUstar, Typed, NotYetKnown, NeverAborts, [Next]_vars
  PROVE  NotYetKnown' /\ NeverAborts'
<1>1. ~HeaderFails(st)
  BY DEF NoUstar, Typed, DumpTyped, HeaderFails
<1>2. CASE UNCHANGED vars
  BY <1>2 DEF NotYetKnown, NeverAborts, vars, control, written
<1>3. CASE DumpFile
  <2>1. link_table' = link_table
    BY <1>3 DEF DumpFile, written
  <2>2. CASE ~Exists(Head(todo).name)
    BY <1>3, <2>2 DEF DumpFile, GoTo, NotYetKnown, NeverAborts
  <2>3. CASE Exists(Head(todo).name)
    <3>1. pc' = Handler(st')
      BY <1>3, <2>3 DEF DumpFile, GoTo
    <3>2. st'.kind \in Kinds
      <4>1. PICK S : todo \in Seq(S) /\ \A x \in S : IsItem(x)
        BY DEF Typed, TodoTyped
      <4>2. IsItem(Head(todo))
        BY <1>3, <4>1 DEF DumpFile
      <4>3. Head(todo).name \in Paths
        BY <1>3, <4>2 DEF DumpFile, IsItem
      <4>. QED
        BY <1>3, <2>3, <4>3, StatSeen DEF DumpFile, Typed, IsSeen
    <3>3. \E s : s = st' /\ Handler(s) \in {"link", "open", "special", "next"}
      BY <3>2, HandlerOf
    <3>4. \E s : s = st' /\ (s.kind # "dir" /\ IsKnown(s) => Handler(s) = "link")
      BY <3>2, HandlerOf
    <3>5. st'.kind # "dir" /\ st'.nlink > 1 /\ st'.ino \in DOMAIN link_table => pc' = "link"
      BY <3>1, <3>4 DEF IsKnown
    <3>6. pc' # "aborted"
      BY <3>1, <3>3
    <3>7. NotYetKnown'
      BY <2>1, <3>5 DEF NotYetKnown
    <3>. QED
      BY <3>6, <3>7 DEF NeverAborts
  <2>. QED
    BY <2>2, <2>3
<1>4. CASE Open \/ Other
  BY <1>4 DEF Open, Other, OtherWrites, OtherRemoves, OtherCreates, OtherLinks, Changing,
              control, written, GoTo, NotYetKnown, NeverAborts
<1>5. CASE ReadFile \/ ReadError \/ FileHeaderFails \/ DumpSpecial
  <2>1. pc \in {"read", "special"} /\ (st.kind # "dir" => ~Aborts)
    BY <1>5 DEF ReadFile, ReadError, FileHeaderFails, DumpSpecial, NotYetKnown, Aborts
  <2>3. pc' \in {"check", "stored", "next"}
    BY <1>5, <2>1 DEF ReadFile, ReadError, FileHeaderFails, DumpSpecial, AfterDump, AfterStored,
                      GoTo
  <2>. QED
    BY <2>3 DEF NotYetKnown, NeverAborts
<1>6. CASE \/ DumpHardLink \/ OpenMissing \/ OpenError \/ ReadDirectory \/ LeaveDirectory
           \/ CheckUnchanged \/ CheckMissing \/ SpecialFails \/ RemoveFile \/ RemoveDirectory \/ Done
  BY <1>6 DEF DumpHardLink, OpenMissing, OpenError, ReadDirectory, LeaveDirectory, CheckUnchanged,
              CheckMissing, SpecialFails, RemoveFile, RemoveDirectory, Done, GoTo, AfterStored,
              NotYetKnown, NeverAborts
<1>7. CASE HardLinkFails
  BY <1>1, <1>7 DEF HardLinkFails
<1>. QED
  BY <1>2, <1>3, <1>4, <1>5, <1>6, <1>7 DEF Next, Tar

(* In the GNU and posix formats, in which every header can be made, tar    *)
(* never meets the abort() of file_count_links, whatever other processes   *)
(* do: a file with several links is put into the table once.  In the ustar *)
(* format it does, after a link whose header could not be made.            *)
THEOREM NeverAbortsOutsideUstar == ASSUME NoUstar PROVE Spec => []NeverAborts
<1>1. Init => Typed /\ NotYetKnown /\ NeverAborts
  BY InitTyped DEF Init, NotYetKnown, NeverAborts
<1>2. Typed /\ NotYetKnown /\ NeverAborts /\ [Next]_vars
        => Typed' /\ NotYetKnown' /\ NeverAborts'
  BY TypedNext, NotYetKnownNext
<1>. QED
  BY <1>1, <1>2, PTL DEF Spec

------------------------------------------------------------------------------
(* The warnings of check_links.                                            *)

(* Nobody has changed a file, and tar removes none; and nothing failed.    *)
Still == Quiet /\ ~given.remove_files
Plain == Still /\ exit_status # 2 /\ pc # "aborted"

Members(i) == {k \in DOMAIN archive : archive[k].ino = i}
Linkable(i) == inode[i].kind \in {"file", "symlink"} /\ Links(i) > 1

KeepsFiles == pc = "stored" => given.remove_files

(* What stat and open have told is still so.                               *)
Looked == pc \in {"open", "read", "link", "special"}
Unmoved ==
  /\ Looked => /\ disk[st.name] = st.ino /\ st.nlink = Links(st.ino)
               /\ st.kind = inode[st.ino].kind /\ st.data = inode[st.ino].data
  /\ (pc = "read" /\ st.kind = "file" /\ Opens) => fd = st.ino

(* An entry of the table counts the links that have no member yet, and a   *)
(* file with a member has an entry if it is to have one.                   *)
Known ==
  /\ pc = "link" => st.ino \in DOMAIN link_table
  /\ pc = "special" => st.kind \in {"symlink", "fifo"}
Entries ==
  \A i \in DOMAIN link_table :
    /\ i \in Inodes /\ Linkable(i)
    /\ link_table[i] \in [name : Paths, nlink : Int] /\ disk[link_table[i].name] = i
    /\ link_table[i].nlink + Cardinality(Members(i)) = Links(i)
Stores ==
  \A k \in DOMAIN archive :
    /\ archive[k].name \in Paths
    /\ disk[archive[k].name] = archive[k].ino
    /\ Linkable(archive[k].ino) => archive[k].ino \in DOMAIN link_table
Counts == Known /\ Entries /\ Stores

Counting == KeepsFiles /\ (Quiet => Unmoved) /\ (Plain => Counts)

LEMMA LinksCounted ==
  ASSUME NEW i
  PROVE  /\ IsFiniteSet({p \in Paths : disk[p] = i})
         /\ Links(i) \in Nat
<1>1. IsFiniteSet({p \in Paths : disk[p] = i})
  <2>1. {p \in Paths : disk[p] = i} \in SUBSET Paths
    OBVIOUS
  <2>. QED
    BY <2>1, DumpAssumption, FS_Subset
<1>. QED
  BY <1>1, FS_CardinalityType DEF Links

LEMMA MembersCounted ==
  ASSUME IsSequence(archive), NEW i
  PROVE  IsFiniteSet(Members(i)) /\ Cardinality(Members(i)) \in Nat
<1>1. PICK S : archive \in Seq(S)
  BY DEF IsSequence
<1>2. DOMAIN archive = 1 .. Len(archive) /\ Len(archive) \in Nat
  BY <1>1
<1>3. IsFiniteSet(DOMAIN archive)
  BY <1>2, FS_Interval
<1>4. Members(i) \in SUBSET DOMAIN archive
  BY DEF Members
<1>5. IsFiniteSet(Members(i))
  BY <1>3, <1>4, FS_Subset
<1>. QED
  BY <1>5, FS_CardinalityType

LEMMA MemberAdded ==
  ASSUME IsSequence(archive), NEW m, Store(m), NEW i
  PROVE  Cardinality(Members(i))' =
           IF m.ino = i THEN Cardinality(Members(i)) + 1 ELSE Cardinality(Members(i))
<1>1. PICK S : archive \in Seq(S)
  BY DEF IsSequence
<1>2. /\ DOMAIN archive = 1 .. Len(archive) /\ Len(archive) \in Nat
      /\ DOMAIN archive' = DOMAIN archive \cup {Len(archive) + 1}
  <2>1. archive \in Seq(S \cup {m}) /\ archive' = Append(archive, m)
    BY <1>1 DEF Store
  <2>2. Len(archive') = Len(archive) + 1 /\ archive' \in Seq(S \cup {m})
    BY <2>1
  <2>3. DOMAIN archive' = 1 .. Len(archive') /\ DOMAIN archive = 1 .. Len(archive)
        /\ Len(archive) \in Nat
    BY <1>1, <2>2
  <2>. QED
    BY <2>2, <2>3
<1>3. /\ \A k \in DOMAIN archive : archive'[k] = archive[k]
      /\ archive'[Len(archive) + 1] = m
  BY AppendKeeps DEF Store
<1>4. Len(archive) + 1 \notin Members(i)
  BY <1>2 DEF Members
<1>5. CASE m.ino = i
  <2>1. Members(i)' = Members(i) \cup {Len(archive) + 1}
    BY <1>2, <1>3, <1>5 DEF Members
  <2>. QED
    BY <1>4, <1>5, <2>1, MembersCounted, FS_AddElement
<1>6. CASE m.ino # i
  <2>1. Members(i)' = Members(i)
    BY <1>2, <1>3, <1>6 DEF Members
  <2>. QED
    BY <1>6, <2>1
<1>. QED
  BY <1>5, <1>6

(* A run in which nobody changes a file, nothing fails and tar does not    *)
(* abort: only tar removes files.                                          *)
Tidy == Quiet /\ exit_status # 2 /\ pc # "aborted"

LEMMA QuietBefore ==
  ASSUME Typed, Next, Quiet'
  PROVE  Quiet /\ Tar /\ given' = given
<1>1. given' = given
  BY DEF Next, Tar, Other, OtherWrites, OtherRemoves, OtherCreates, OtherLinks, Changing,
         DumpFile, DumpHardLink, HardLinkFails, Open, OpenMissing, OpenError, AfterDump, GoTo,
         ReadDirectory, ReadFile, ReadError, FileHeaderFails, LeaveDirectory, CheckUnchanged,
         CheckMissing, DumpSpecial, SpecialFails, RemoveFile, RemoveDirectory, Done
<1>2. history.changes \in Nat
  BY DEF Typed, HistoryTyped, History
<1>3. ~Other
  <2>1. SUFFICES ASSUME Other PROVE FALSE
    OBVIOUS
  <2>2. history' = [history EXCEPT !.changes = @ + 1, !.late = @ \/ Unwatched]
    BY <2>1 DEF Other, OtherWrites, OtherRemoves, OtherCreates, OtherLinks, Changing
  <2>. DEFINE b == history.late \/ Unwatched
              counted == [history EXCEPT !.changes = history.changes + 1]
  <2>3. counted.changes = history.changes + 1
    BY DEF Typed, HistoryTyped, History
  <2>4. history' = [counted EXCEPT !.late = b]
    BY <2>2
  <2>5. "changes" \in DOMAIN counted
    BY DEF Typed, HistoryTyped, History
  <2>. HIDE DEF counted, b
  <2>6. history'.changes = counted.changes
    BY <2>4, <2>5
  <2>. QED
    BY <1>2, <2>3, <2>6 DEF Quiet
<1>4. Tar
  BY <1>3 DEF Next
<1>5. history'.changes = history.changes
  <2>. DEFINE erring == [history EXCEPT !.errors = @ + 1]
              warning == [history EXCEPT !.warned = @ \cup {st.name}]
              lost == [history EXCEPT !.lost = @ \cup {Loss}]
  <2>1. /\ erring.changes = history.changes /\ lost.changes = history.changes
        /\ OnTime(history).changes = history.changes
        /\ OnTime(warning).changes = history.changes
    BY DEF Typed, HistoryTyped, History, OnTime
  <2>2. history' \in {history, erring, lost, OnTime(history), OnTime(warning)}
    BY <1>4 DEF Tar, DumpFile, DumpHardLink, HardLinkFails, Open, OpenMissing, OpenError,
         ReadDirectory, ReadFile, ReadError, FileHeaderFails, LeaveDirectory, CheckUnchanged,
         CheckMissing, DumpSpecial, SpecialFails, RemoveFile, RemoveDirectory, Done, Erring
  <2>. HIDE DEF erring, warning, lost
  <2>. QED
    BY <2>1, <2>2
<1>. QED
  BY <1>1, <1>4, <1>5 DEF Quiet

LEMMA NameOfNext ==
  ASSUME Typed, DumpFile
  PROVE  Head(todo).name \in Paths
<1>1. PICK S : todo \in Seq(S) /\ \A x \in S : IsItem(x)
  BY DEF Typed, TodoTyped
<1>2. IsItem(Head(todo))
  BY <1>1 DEF DumpFile
<1>. QED
  BY <1>2 DEF DumpFile, IsItem

LEMMA UnmovedNext ==
  ASSUME Typed, Unmoved, Tar, UNCHANGED files
  PROVE  Unmoved'
<1>1. disk' = disk /\ inode' = inode
  BY DEF files
<1>2. CASE DumpFile
  <2>. DEFINE p == Head(todo).name
              s == Stat(p, Head(todo).top)
  <2>1. CASE ~Exists(p)
    BY <1>2, <2>1 DEF DumpFile, GoTo, Unmoved, Looked
  <2>2. CASE Exists(p)
    <3>1. p \in Paths
      BY <1>2, NameOfNext
    <3>. HIDE DEF p
    <3>2. /\ s.name = p /\ s.ino = disk[p] /\ s.data = inode[disk[p]].data
          /\ s.nlink = Links(disk[p]) /\ s.kind = inode[disk[p]].kind
      BY <2>2, <3>1, StatSeen DEF Typed
    <3>3. st' = s /\ pc' = Handler(s)
      BY <1>2, <2>2 DEF DumpFile, GoTo, p
    <3>4. s.kind \in Kinds
      BY <2>2, <3>1, StatSeen DEF Typed, IsSeen
    <3>5. pc' # "read"
      <4>1. \E x : x = s /\ Handler(x) \in {"link", "open", "special", "next"}
        BY <3>4, HandlerOf
      <4>. QED
        BY <3>3, <4>1
    <3>. HIDE DEF s
    <3>. QED
      BY <1>1, <3>2, <3>3, <3>5 DEF Unmoved, Links
  <2>. QED
    BY <2>1, <2>2
<1>3. CASE Open
  BY <1>1, <1>3 DEF Open, Opens, GoTo, Unmoved, Looked, Links
<1>4. CASE HardLinkFails
  BY <1>1, <1>4 DEF HardLinkFails, GoTo, Unmoved, Looked, Links
<1>5. CASE ~(DumpFile \/ Open \/ HardLinkFails)
  <2>1. ~Looked'
    BY <1>5 DEF Tar, DumpHardLink, OpenMissing, OpenError, AfterDump, GoTo, AfterStored,
         ReadDirectory, ReadFile, ReadError, FileHeaderFails, LeaveDirectory, CheckUnchanged,
         CheckMissing, DumpSpecial, SpecialFails, RemoveFile, RemoveDirectory, Done, Looked
  <2>. QED
    BY <2>1 DEF Unmoved, Looked
<1>. QED
  BY <1>2, <1>3, <1>4, <1>5

(* A file nobody changed is not found to have shrunk.                      *)
LEMMA ReadAsLooked ==
  ASSUME Unmoved, ReadFile
  PROVE  /\ exit_status' = exit_status
         /\ Store(Member("file", st, None, st.data, TRUE))
         /\ AfterDump("ok")
<1>1. Content = st.data
  BY DEF ReadFile, Unmoved, Looked, Content
<1>. QED
  BY <1>1 DEF ReadFile

LEMMA UnmovedStays ==
  ASSUME Typed, Unmoved, Tar
  PROVE  Unmoved'
<1>1. CASE RemoveFile \/ RemoveDirectory
  <2>1. pc' = "next"
    BY <1>1 DEF RemoveFile, RemoveDirectory, GoTo
  <2>. QED
    BY <2>1 DEF Unmoved, Looked
<1>2. CASE ~(RemoveFile \/ RemoveDirectory)
  <2>1. UNCHANGED files
    BY <1>2 DEF Tar, DumpFile, DumpHardLink, HardLinkFails, Open, OpenMissing, OpenError,
         ReadDirectory, ReadFile, ReadError, FileHeaderFails, LeaveDirectory, CheckUnchanged,
         CheckMissing, DumpSpecial, SpecialFails, Done
  <2>. QED
    BY <2>1, UnmovedNext
<1>. QED
  BY <1>1, <1>2

LEMMA TidyBefore ==
  ASSUME Typed, Quiet => Unmoved, Next, Tidy'
  PROVE  Tidy /\ Unmoved /\ Tar /\ given' = given
<1>1. Quiet /\ Tar /\ given' = given
  BY QuietBefore DEF Tidy
<1>2. exit_status' # 2 => exit_status # 2
  <2>1. CASE ReadFile
    BY <1>1, <2>1, ReadAsLooked
  <2>2. CASE HardLinkFails \/ OpenError \/ ReadError \/ FileHeaderFails \/ CheckMissing
               \/ SpecialFails
    BY <2>2 DEF HardLinkFails, OpenError, ReadError, FileHeaderFails, CheckMissing, SpecialFails,
                Failure
  <2>3. CASE Open \/ LeaveDirectory \/ DumpSpecial \/ RemoveDirectory \/ Done
    BY <2>3 DEF Open, LeaveDirectory, DumpSpecial, RemoveDirectory, Done
  <2>4. CASE DumpFile \/ DumpHardLink \/ OpenMissing \/ ReadDirectory \/ RemoveFile
    BY <2>4 DEF DumpFile, DumpHardLink, OpenMissing, ReadDirectory, RemoveFile, LongLink, Failure
  <2>5. CASE CheckUnchanged
    BY <2>5 DEF CheckUnchanged, Differs
  <2>. QED
    BY <1>1, <2>1, <2>2, <2>3, <2>4, <2>5 DEF Tar
<1>3. pc # "aborted"
  BY <1>1 DEF Tar, DumpFile, DumpHardLink, HardLinkFails, Open, OpenMissing, OpenError,
         ReadDirectory, ReadFile, ReadError, FileHeaderFails, LeaveDirectory, CheckUnchanged,
         CheckMissing, DumpSpecial, SpecialFails, RemoveFile, RemoveDirectory, Done
<1>. QED
  BY <1>1, <1>2, <1>3 DEF Tidy

(* If a run was plain until now, no file is removed.                       *)
LEMMA PlainBefore ==
  ASSUME Typed, KeepsFiles, Quiet => Unmoved, Next, Plain'
  PROVE  Plain /\ Unmoved /\ Tar /\ UNCHANGED files
<1>1. Tidy /\ Unmoved /\ Tar /\ given' = given
  BY TidyBefore DEF Plain, Still, Tidy
<1>2. Plain
  BY <1>1 DEF Plain, Still, Tidy
<1>3. ~RemoveFile /\ ~RemoveDirectory
  BY <1>2 DEF RemoveFile, RemoveDirectory, KeepsFiles, Plain, Still
<1>4. UNCHANGED files
  BY <1>1, <1>3 DEF Tar, DumpFile, DumpHardLink, HardLinkFails, Open, OpenMissing, OpenError,
         ReadDirectory, ReadFile, ReadError, FileHeaderFails, LeaveDirectory, CheckUnchanged,
         CheckMissing, DumpSpecial, SpecialFails, Done
<1>. QED
  BY <1>1, <1>2, <1>4

(* The steps that store nothing.                                           *)
LEMMA NothingStored ==
  ASSUME Counts, UNCHANGED <<files, written>>, Known'
  PROVE  Counts'
<1>1. disk' = disk /\ inode' = inode /\ link_table' = link_table /\ archive' = archive
  BY DEF files, written
<1>2. Entries'
  BY <1>1 DEF Counts, Entries, Linkable, Links, Members
<1>3. Stores'
  BY <1>1 DEF Counts, Stores, Linkable, Links
<1>. QED
  BY <1>2, <1>3 DEF Counts

(* A member of the file that is dumped; of its entry, if it has one.       *)
LEMMA StoresAdded ==
  ASSUME Typed, Stores, UNCHANGED files, NEW m, Store(m), m.name = st.name, m.ino = st.ino,
         Active, disk[st.name] = st.ino,
         DOMAIN link_table \subseteq DOMAIN link_table',
         Linkable(st.ino) => st.ino \in DOMAIN link_table'
  PROVE  Stores'
<1>1. disk' = disk /\ inode' = inode
  BY DEF files
<1>2. st.name \in Paths
  BY DEF Typed, DumpTyped, IsSeen
<1>3. PICK S : archive \in Seq(S)
  BY DEF Typed, DumpTyped, IsSequence
<1>4. DOMAIN archive' = DOMAIN archive \cup {Len(archive) + 1}
  <2>1. archive \in Seq(S \cup {m}) /\ archive' = Append(archive, m)
    BY <1>3 DEF Store
  <2>2. Len(archive') = Len(archive) + 1 /\ archive' \in Seq(S \cup {m})
    BY <2>1
  <2>3. DOMAIN archive' = 1 .. Len(archive') /\ DOMAIN archive = 1 .. Len(archive)
        /\ Len(archive) \in Nat
    BY <1>3, <2>2
  <2>. QED
    BY <2>2, <2>3
<1>5. /\ \A k \in DOMAIN archive : archive'[k] = archive[k]
      /\ archive'[Len(archive) + 1] = m
  BY AppendKeeps DEF Store, Typed, DumpTyped
<1>. QED
  <2>1. SUFFICES ASSUME NEW k \in DOMAIN archive'
                 PROVE  /\ archive'[k].name \in Paths
                        /\ disk'[archive'[k].name] = archive'[k].ino
                        /\ Linkable(archive[k].ino)' => archive'[k].ino \in DOMAIN link_table'
    BY DEF Stores
  <2>2. PICK ino : ino = archive'[k].ino
    OBVIOUS
  <2>3. Linkable(archive[k].ino)' <=> Linkable(ino)
    BY <1>1, <2>2 DEF Linkable, Links
  <2>4. CASE k \in DOMAIN archive
    BY <1>1, <1>5, <2>2, <2>3, <2>4 DEF Stores
  <2>5. CASE k = Len(archive) + 1
    BY <1>1, <1>2, <1>5, <2>2, <2>3, <2>5
  <2>. QED
    BY <1>4, <2>4, <2>5

LEMMA EntriesKept ==
  ASSUME Typed, Counts, UNCHANGED <<files, link_table>>, NEW m, Store(m),
         m.ino \notin DOMAIN link_table
  PROVE  Entries'
<1>1. disk' = disk /\ inode' = inode /\ link_table' = link_table
  BY DEF files
<1>2. \A i \in DOMAIN link_table : Cardinality(Members(i))' = Cardinality(Members(i))
  BY MemberAdded DEF Typed, DumpTyped
<1>. QED
  BY <1>1, <1>2 DEF Counts, Entries, Linkable, Links

(* A file with links gets an entry, the first time it is stored.           *)
LEMMA EntryMade ==
  ASSUME Typed, Counts, UNCHANGED files, Unmoved, Looked, NEW m, Store(m),
         m.name = st.name, m.ino = st.ino, st.kind \in {"file", "symlink"},
         CountLinks, ~Aborts
  PROVE  Entries' /\ Stores'
<1>. USE DEF Counts
<1>1. disk' = disk /\ inode' = inode
  BY DEF files
<1>2. /\ disk[st.name] = st.ino /\ st.nlink = Links(st.ino) /\ st.kind = inode[st.ino].kind
      /\ st.name \in Paths /\ st.ino \in Inodes /\ Active
  BY DEF Unmoved, Looked, Typed, DumpTyped, IsSeen, Active
<1>3. CASE st.nlink > 1
  <2>1. st.ino \notin DOMAIN link_table
    BY <1>3 DEF Aborts
  <2>2. Linkable(st.ino)
    BY <1>2, <1>3 DEF Linkable
  <2>3. link_table' = Registered
    BY <1>3 DEF CountLinks
  <2>4. /\ DOMAIN link_table' = DOMAIN link_table \cup {st.ino}
        /\ link_table'[st.ino] = [name |-> st.name, nlink |-> st.nlink - 1]
        /\ \A i \in DOMAIN link_table : link_table'[i] = link_table[i]
    BY <2>1, <2>3 DEF Registered
  <2>5. Members(st.ino) = {}
    BY <2>1, <2>2 DEF Members, Stores
  <2>0. PICK ino : ino = st.ino
    OBVIOUS
  <2>6. Cardinality(Members(ino))' = 1
    <3>1. Cardinality(Members(ino)) = 0
      BY <2>0, <2>5, FS_EmptySet
    <3>. QED
      BY <2>0, <3>1, MemberAdded DEF Typed, DumpTyped
  <2>7. \A i \in DOMAIN link_table : Cardinality(Members(i))' = Cardinality(Members(i))
    BY <2>1, MemberAdded DEF Typed, DumpTyped
  <2>8. Stores'
    BY <1>2, <2>4, StoresAdded
  <2>9. ASSUME NEW i \in DOMAIN link_table
        PROVE  /\ i \in Inodes /\ Linkable(i)'
               /\ link_table'[i] \in [name : Paths, nlink : Int] /\ disk'[link_table'[i].name] = i
               /\ link_table'[i].nlink + Cardinality(Members(i))' = Links(i)'
    BY <1>1, <2>4, <2>7, <2>9 DEF Entries, Linkable, Links
  <2>10. /\ ino \in Inodes /\ Linkable(ino)'
         /\ link_table'[ino] \in [name : Paths, nlink : Int]
         /\ disk'[link_table'[ino].name] = ino
         /\ link_table'[ino].nlink + Cardinality(Members(ino))' = Links(ino)'
    <3>1. Links(ino)' = Links(ino) /\ Linkable(ino)'
      BY <1>1, <2>0, <2>2 DEF Linkable, Links
    <3>2. Links(ino) \in Nat
      BY LinksCounted
    <3>. QED
      BY <1>1, <1>2, <2>0, <2>4, <2>6, <3>1, <3>2
  <2>11. Entries'
    BY <2>0, <2>4, <2>9, <2>10 DEF Entries
  <2>. QED
    BY <2>8, <2>11
<1>4. CASE ~(st.nlink > 1)
  <2>1. link_table' = link_table
    BY <1>4 DEF CountLinks
  <2>2. ~Linkable(st.ino)
    BY <1>2, <1>4 DEF Linkable
  <2>3. st.ino \notin DOMAIN link_table
    BY <2>2 DEF Entries
  <2>4. Entries'
    BY <2>1, <2>3, EntriesKept
  <2>5. Stores'
    BY <1>2, <2>1, <2>2, StoresAdded
  <2>. QED
    BY <2>4, <2>5
<1>. QED
  BY <1>3, <1>4

(* A file that goes into no table: a directory or a FIFO.                  *)
LEMMA NoEntryMade ==
  ASSUME Typed, Counts, UNCHANGED <<files, link_table>>, Unmoved, Looked, NEW m, Store(m),
         m.name = st.name, m.ino = st.ino, st.kind \notin {"file", "symlink"}
  PROVE  Entries' /\ Stores'
<1>1. /\ disk[st.name] = st.ino /\ st.kind = inode[st.ino].kind /\ Active
  BY DEF Unmoved, Looked, Active
<1>2. ~Linkable(st.ino)
  BY <1>1 DEF Linkable
<1>3. st.ino \notin DOMAIN link_table
  BY <1>2 DEF Counts, Entries
<1>4. Entries'
  BY <1>3, EntriesKept
<1>5. Stores'
  BY <1>1, <1>2, StoresAdded DEF Counts
<1>. QED
  BY <1>4, <1>5

LEMMA LinkCounted ==
  ASSUME Typed, Counts, UNCHANGED files, Unmoved, DumpHardLink
  PROVE  Entries' /\ Stores'
<1>. USE DEF Counts
<1>1. disk' = disk /\ inode' = inode
  BY DEF files
<1>2. disk[st.name] = st.ino /\ Active /\ st.ino \in DOMAIN link_table
  BY DEF DumpHardLink, Unmoved, Looked, Active, Known
<1>3. link_table' = [link_table EXCEPT ![st.ino].nlink = @ - 1]
  BY DEF DumpHardLink, Counted
<1>4. /\ link_table[st.ino] \in [name : Paths, nlink : Int]
  BY <1>2 DEF Entries
<1>5. /\ DOMAIN link_table' = DOMAIN link_table
      /\ \A i \in DOMAIN link_table : i # st.ino => link_table'[i] = link_table[i]
      /\ link_table'[st.ino] \in [name : Paths, nlink : Int]
      /\ link_table'[st.ino].name = link_table[st.ino].name
      /\ link_table'[st.ino].nlink = link_table[st.ino].nlink - 1
  BY <1>2, <1>3, <1>4
<1>6. PICK link, data : Store(Member("link", st, link, data, TRUE))
  BY DEF DumpHardLink
<1>. DEFINE m == Member("link", st, link, data, TRUE)
<1>7. m.name = st.name /\ m.ino = st.ino
  BY DEF Member
<1>8. Store(m)
  BY <1>6
<1>. HIDE DEF m
<1>9. \A i : Cardinality(Members(i)) \in Nat
  BY MembersCounted DEF Typed, DumpTyped
<1>10. \A i : i = st.ino => Cardinality(Members(i))' = Cardinality(Members(i)) + 1
  BY <1>7, <1>8, MemberAdded DEF Typed, DumpTyped
<1>11. \A i : i # st.ino => Cardinality(Members(i))' = Cardinality(Members(i))
  BY <1>7, <1>8, MemberAdded DEF Typed, DumpTyped
<1>12. \A i : Links(i)' = Links(i) /\ (Linkable(i)' <=> Linkable(i))
  BY <1>1 DEF Links, Linkable
<1>13. ASSUME NEW i \in DOMAIN link_table
       PROVE  /\ i \in Inodes /\ Linkable(i)'
              /\ link_table'[i] \in [name : Paths, nlink : Int] /\ disk'[link_table'[i].name] = i
              /\ link_table'[i].nlink + Cardinality(Members(i))' = Links(i)'
  <2>1. /\ i \in Inodes /\ Linkable(i)
        /\ link_table[i] \in [name : Paths, nlink : Int] /\ disk[link_table[i].name] = i
        /\ link_table[i].nlink + Cardinality(Members(i)) = Links(i)
    BY <1>13 DEF Entries
  <2>2. CASE i = st.ino
    BY <1>1, <1>5, <1>9, <1>10, <1>12, <2>1, <2>2
  <2>3. CASE i # st.ino
    BY <1>1, <1>5, <1>11, <1>12, <1>13, <2>1, <2>3
  <2>. QED
    BY <2>2, <2>3
<1>14. Entries'
  BY <1>5, <1>13 DEF Entries
<1>15. Stores'
  BY <1>2, <1>5, <1>7, <1>8, StoresAdded
<1>. QED
  BY <1>14, <1>15

LEMMA CountsNext ==
  ASSUME Typed, Counts, Unmoved, Tar, UNCHANGED files, Plain, Plain'
  PROVE  Counts'
<1>0. exit_status' # 2 /\ pc' # "aborted"
  BY DEF Plain
<1>1. CASE DumpFile
  <2>1. Known'
    <3>1. CASE ~Exists(Head(todo).name)
      BY <1>1, <3>1 DEF DumpFile, GoTo, Known
    <3>2. CASE Exists(Head(todo).name)
      <4>1. pc' = Handler(st') /\ link_table' = link_table
        BY <1>1, <3>2 DEF DumpFile, GoTo, written
      <4>2. st'.kind \in Kinds
        BY <1>1, <3>2, NameOfNext, StatSeen DEF DumpFile, Typed, IsSeen
      <4>3. /\ Handler(st') = "link" => st'.ino \in DOMAIN link_table
            /\ Handler(st') = "special" => st'.kind \in {"symlink", "fifo"}
        <5>. DEFINE s == st'
        <5>1. s.kind \in Kinds
          BY <4>2
        <5>. HIDE DEF s
        <5>2. /\ Handler(s) = "link" => s.ino \in DOMAIN link_table
              /\ Handler(s) = "special" => s.kind \in {"symlink", "fifo"}
          BY <5>1 DEF Handler, IsKnown, Kinds
        <5>. QED
          BY <5>2 DEF s
      <4>. QED
        BY <4>1, <4>3 DEF Known
    <3>. QED
      BY <3>1, <3>2
  <2>. QED
    BY <1>1, <2>1, NothingStored DEF DumpFile
<1>2. CASE Open \/ OpenMissing \/ LeaveDirectory \/ CheckUnchanged \/ RemoveFile
             \/ RemoveDirectory \/ Done
  <2>1. UNCHANGED written /\ pc' \notin {"link", "special"}
    BY <1>2 DEF Open, OpenMissing, LeaveDirectory, CheckUnchanged, RemoveFile, RemoveDirectory,
                Done, GoTo, AfterStored
  <2>. QED
    BY <2>1, NothingStored DEF Known
<1>3. CASE HardLinkFails \/ OpenError \/ ReadError \/ FileHeaderFails \/ CheckMissing
             \/ SpecialFails
  BY <1>0, <1>3 DEF HardLinkFails, OpenError, ReadError, FileHeaderFails, CheckMissing,
                    SpecialFails, Failure
<1>4. CASE DumpHardLink
  <2>1. Entries' /\ Stores'
    BY <1>4, LinkCounted
  <2>2. Known'
    BY <1>4 DEF DumpHardLink, GoTo, AfterStored, Known
  <2>. QED
    BY <2>1, <2>2 DEF Counts
<1>5. CASE ReadDirectory
  <2>. DEFINE m == Member("dir", st, None, st.data, TRUE)
  <2>1. Store(m) /\ link_table' = link_table /\ Looked /\ st.kind = "dir" /\ pc' = "next"
    BY <1>0, <1>5 DEF ReadDirectory, Failure, GoTo, Looked
  <2>2. m.name = st.name /\ m.ino = st.ino
    BY DEF Member
  <2>. HIDE DEF m
  <2>3. Entries' /\ Stores'
    BY <2>1, <2>2, NoEntryMade
  <2>. QED
    BY <2>1, <2>3 DEF Counts, Known
<1>6. CASE ReadFile
  <2>. DEFINE m == Member("file", st, None, st.data, TRUE)
  <2>1. Store(m) /\ AfterDump("ok") /\ Looked /\ st.kind = "file"
    BY <1>6, ReadAsLooked DEF ReadFile, Looked
  <2>2. m.name = st.name /\ m.ino = st.ino
    BY DEF Member
  <2>. HIDE DEF m
  <2>3. CountLinks /\ ~Aborts /\ pc' \notin {"link", "special"}
    BY <1>0, <2>1 DEF AfterDump, GoTo
  <2>4. Entries' /\ Stores'
    BY <2>1, <2>2, <2>3, EntryMade
  <2>. QED
    BY <2>3, <2>4 DEF Counts, Known
<1>7. CASE DumpSpecial
  <2>. DEFINE m == Member(st.kind, st, None, st.data, TRUE)
  <2>1. Store(m) /\ Looked /\ pc' \notin {"link", "special"} /\ st.kind \in {"symlink", "fifo"}
    BY <1>7 DEF DumpSpecial, Looked, GoTo, AfterStored, Counts, Known
  <2>2. m.name = st.name /\ m.ino = st.ino
    BY DEF Member
  <2>. HIDE DEF m
  <2>3. CASE st.kind = "symlink"
    <3>1. CountLinks /\ ~Aborts
      BY <1>0, <1>7, <2>3 DEF DumpSpecial, GoTo
    <3>2. Entries' /\ Stores'
      BY <2>1, <2>2, <2>3, <3>1, EntryMade
    <3>. QED
      BY <2>1, <3>2 DEF Counts, Known
  <2>4. CASE st.kind # "symlink"
    <3>1. link_table' = link_table
      BY <1>7, <2>4 DEF DumpSpecial
    <3>2. Entries' /\ Stores'
      BY <2>1, <2>2, <2>4, <3>1, NoEntryMade
    <3>. QED
      BY <2>1, <3>2 DEF Counts, Known
  <2>. QED
    BY <2>3, <2>4
<1>. QED
  BY <1>1, <1>2, <1>3, <1>4, <1>5, <1>6, <1>7 DEF Tar

LEMMA CountingNext ==
  ASSUME Typed, Counting, [Next]_vars
  PROVE  Counting'
<1>1. CASE UNCHANGED vars
  <2>1. /\ given' = given /\ disk' = disk /\ inode' = inode /\ pc' = pc /\ st' = st /\ fd' = fd
        /\ link_table' = link_table /\ archive' = archive
        /\ exit_status' = exit_status /\ history' = history
    BY <1>1 DEF vars, files, control, written
  <2>2. KeepsFiles' /\ (Quiet' <=> Quiet) /\ (Plain' <=> Plain)
    BY <2>1 DEF Counting, KeepsFiles, Still, Quiet, Plain
  <2>3. Unmoved => Unmoved'
    BY <2>1 DEF Unmoved, Looked, Opens, Links
  <2>4. Counts => Counts'
    BY <2>1, NothingStored DEF files, written, Counts, Known
  <2>. QED
    BY <2>2, <2>3, <2>4 DEF Counting
<1>2. CASE Next
  <2>1. KeepsFiles'
    <3>1. CASE Other
      BY <3>1 DEF Counting, KeepsFiles, Other, OtherWrites, OtherRemoves, OtherCreates,
           OtherLinks, Changing, control
    <3>2. CASE DumpHardLink \/ CheckUnchanged \/ DumpSpecial
      BY <3>2 DEF KeepsFiles, DumpHardLink, CheckUnchanged, DumpSpecial, AfterStored, GoTo
    <3>3. CASE DumpFile
      <4>1. pc' # "stored"
        <5>1. CASE ~Exists(Head(todo).name)
          BY <3>3, <5>1 DEF DumpFile, GoTo
        <5>2. CASE Exists(Head(todo).name)
          <6>1. pc' = Handler(st')
            BY <3>3, <5>2 DEF DumpFile, GoTo
          <6>2. st'.kind \in Kinds
            BY <3>3, <5>2, NameOfNext, StatSeen DEF DumpFile, Typed, IsSeen
          <6>3. \E s : s = st' /\ Handler(s) \in {"link", "open", "special", "next"}
            BY <6>2, HandlerOf
          <6>. QED
            BY <6>1, <6>3
        <5>. QED
          BY <5>1, <5>2
      <4>. QED
        BY <4>1 DEF KeepsFiles
    <3>4. CASE \/ HardLinkFails \/ Open \/ OpenMissing \/ OpenError \/ ReadDirectory
               \/ ReadFile \/ ReadError \/ FileHeaderFails \/ LeaveDirectory \/ CheckMissing
               \/ SpecialFails \/ RemoveFile \/ RemoveDirectory \/ Done
      BY <3>4 DEF KeepsFiles, HardLinkFails, Open, OpenMissing, OpenError, AfterDump, GoTo,
           ReadDirectory, ReadFile, ReadError, FileHeaderFails, LeaveDirectory, CheckMissing,
           SpecialFails, RemoveFile, RemoveDirectory, Done
    <3>. QED
      BY <1>2, <3>1, <3>2, <3>3, <3>4 DEF Next, Tar
  <2>2. Quiet' => Unmoved'
    BY <1>2, QuietBefore, UnmovedStays DEF Counting
  <2>3. Plain' => Counts'
    BY <1>2, PlainBefore, CountsNext DEF Counting
  <2>. QED
    BY <2>1, <2>2, <2>3 DEF Counting
<1>. QED
  BY <1>1, <1>2

LEMMA WarningsRight ==
  ASSUME Typed, Counting
  PROVE  WarnsRightly
<1>1. SUFFICES ASSUME pc = "done", Quiet, exit_status # 2, Once, ~given.remove_files,
                      NEW i \in DOMAIN link_table
               PROVE  (link_table[i].name \in MissingLinks)
                        <=> \E p \in Paths : disk[p] = i /\ ~HasMember(p)
  BY DEF WarnsRightly
<1>2. Counts
  BY <1>1 DEF Counting, Plain, Still
<1>3. (link_table[i].name \in MissingLinks) <=> link_table[i].nlink # 0
  <2>1. \A j \in DOMAIN link_table : link_table[j].name = link_table[i].name => j = i
    BY <1>2 DEF Counts, Entries
  <2>. QED
    BY <2>1 DEF MissingLinks
<1>. DEFINE P == {p \in Paths : disk[p] = i}
            name == [k \in Members(i) |-> archive[k].name]
<1>4. IsFiniteSet(P) /\ Cardinality(P) = Links(i) /\ Links(i) \in Nat
  BY LinksCounted DEF Links
<1>5. name \in Injection(Members(i), P)
  <2>1. \A k \in Members(i) : archive[k].name \in P /\ k \in DOMAIN archive
    BY <1>2 DEF Counts, Stores, Members
  <2>2. \A j, k \in Members(i) : archive[j].name = archive[k].name => j = k
    BY <1>1, <2>1 DEF Once
  <2>. QED
    BY <2>1, <2>2 DEF Injection, IsInjective
<1>6. Cardinality(Members(i)) = Cardinality(P) <=> name \in Surjection(Members(i), P)
  BY <1>4, <1>5, FS_Injection
<1>7. link_table[i].nlink # 0 <=> Cardinality(Members(i)) # Cardinality(P)
  <2>1. link_table[i].nlink \in Int /\ link_table[i].nlink + Cardinality(Members(i)) = Links(i)
    BY <1>2 DEF Counts, Entries
  <2>2. Cardinality(Members(i)) \in Nat
    BY MembersCounted DEF Typed, DumpTyped
  <2>. QED
    BY <1>4, <2>1, <2>2
<1>8. name \in Surjection(Members(i), P) <=> \A p \in P : HasMember(p)
  <2>1. name \in [Members(i) -> P]
    BY <1>5 DEF Injection
  <2>2. ASSUME NEW p \in P
        PROVE  HasMember(p) <=> \E k \in Members(i) : name[k] = p
    <3>1. \A k \in DOMAIN archive : archive[k].name = p => archive[k].ino = i
      BY <1>2 DEF Counts, Stores
    <3>. QED
      BY <3>1 DEF HasMember, Members
  <2>. HIDE DEF name, P
  <2>. QED
    BY <2>1, <2>2 DEF Surjection
<1>. QED
  BY <1>3, <1>6, <1>7, <1>8

(* check_links warns of exactly the files of which a name has no member,   *)
(* for every set of files, links and options, if nothing failed, no file   *)
(* changed, none is removed and no name is given twice: the table counts   *)
(* for each file the links that have no member yet, through directories    *)
(* that are read, files that cannot be links, and FIFOs, which it leaves   *)
(* out.  (create.c, file_count_links, dump_hard_link, check_links.)        *)
THEOREM WarnsOfMissingLinks == Spec => []WarnsRightly
<1>1. Init => Typed /\ Counting
  <2>1. SUFFICES ASSUME Init
                 PROVE  Typed /\ Counting
    OBVIOUS
  <2>2. Typed
    BY <2>1, InitTyped
  <2>3. pc = "next" /\ link_table = <<>> /\ archive = <<>>
    BY <2>1 DEF Init
  <2>4. Counting
    BY <2>3 DEF Counting, KeepsFiles, Unmoved, Looked, Counts, Known, Entries, Stores
  <2>. QED
    BY <2>2, <2>4
<1>2. Typed /\ Counting /\ [Next]_vars => Typed' /\ Counting'
  BY TypedNext, CountingNext
<1>3. Typed /\ Counting => WarnsRightly
  BY WarningsRight
<1>. QED
  BY <1>1, <1>2, <1>3, PTL DEF Spec

------------------------------------------------------------------------------
(* The archive of a run without failures.                                  *)

(* One path before another.                                                *)
LEMMA PrefixIs ==
  ASSUME NEW p \in Paths, NEW q \in Paths
  PROVE  /\ Len(p) \in Nat /\ Len(q) \in Nat
         /\ IsPrefix(p, q) <=> Len(p) <= Len(q) /\ \A i \in 1 .. Len(p) : p[i] = q[i]
<1>1. p \in Seq(STRING) /\ q \in Seq(STRING)
  BY TreeAssumption
<1>. DEFINE m == Len(p)
            s == SubSeq(p, 1, m)
            t == SubSeq(q, 1, m)
<1>2. m \in Nat /\ Len(q) \in Nat
  BY <1>1
<1>3. ASSUME m <= Len(q)
      PROVE  s = t <=> \A i \in 1 .. m : p[i] = q[i]
  <2>1. s \in Seq(STRING) /\ Len(s) = m /\ \A i \in 1 .. m : s[i] = p[i]
    BY <1>1
  <2>2. t \in Seq(STRING) /\ Len(t) = m /\ \A i \in 1 .. m : t[i] = q[i]
    BY <1>1, <1>3
  <2>. HIDE DEF s, t, m
  <2>. QED
    BY <2>1, <2>2, SeqEqual
<1>. QED
  BY <1>2, <1>3 DEF IsPrefix

LEMMA PrefixOrder ==
  /\ \A p \in Paths : IsPrefix(p, p)
  /\ \A p, q, r \in Paths : IsPrefix(p, q) /\ IsPrefix(q, r) => IsPrefix(p, r)
<1>1. \A p \in Paths : IsPrefix(p, p)
  BY PrefixIs
<1>2. ASSUME NEW p \in Paths, NEW q \in Paths, NEW r \in Paths, IsPrefix(p, q), IsPrefix(q, r)
      PROVE  IsPrefix(p, r)
  <2>1. /\ Len(p) \in Nat /\ Len(q) \in Nat /\ Len(r) \in Nat
        /\ Len(p) <= Len(q) /\ \A i \in 1 .. Len(p) : p[i] = q[i]
        /\ Len(q) <= Len(r) /\ \A i \in 1 .. Len(q) : q[i] = r[i]
    BY <1>2, PrefixIs
  <2>2. \A i \in 1 .. Len(p) : i \in 1 .. Len(q)
    BY <2>1
  <2>3. Len(p) <= Len(r) /\ \A i \in 1 .. Len(p) : p[i] = r[i]
    BY <2>1, <2>2
  <2>. QED
    BY <2>3, PrefixIs
<1>. QED
  BY <1>1, <1>2

(* The entry of a directory through which a path goes.                     *)
IsEntryOf(c, d) == Len(c) = Len(d) + 1 /\ Front(c) = d

LEMMA EntryToward ==
  ASSUME NEW d \in Paths, NEW p \in Paths, IsPrefix(d, p), d # p
  PROVE  \E c \in Paths : IsEntryOf(c, d) /\ IsPrefix(c, p) /\ IsPrefix(d, c) /\ c # d
<1>. DEFINE n == Len(d) + 1
            c == SubSeq(p, 1, n)
            f == SubSeq(c, 1, Len(d))
<1>1. d \in Seq(STRING) /\ p \in Seq(STRING)
  BY TreeAssumption
<1>2. /\ Len(d) \in Nat /\ Len(p) \in Nat
      /\ Len(d) <= Len(p) /\ \A i \in 1 .. Len(d) : d[i] = p[i]
  BY PrefixIs
<1>3. Len(d) # Len(p)
  BY <1>1, <1>2, SeqEqual
<1>4. n \in 1 .. Len(p)
  BY <1>2, <1>3
<1>5. c \in Paths
  BY <1>4, TreeAssumption
<1>6. c \in Seq(STRING) /\ Len(c) = n /\ \A i \in 1 .. n : c[i] = p[i]
  BY <1>1, <1>4
<1>. HIDE DEF c
<1>7. IsPrefix(c, p)
  BY <1>4, <1>5, <1>6, PrefixIs
<1>8. IsPrefix(d, c) /\ c # d
  <2>1. Len(d) <= Len(c) /\ \A i \in 1 .. Len(d) : i \in 1 .. n
    BY <1>2, <1>6
  <2>2. \A i \in 1 .. Len(d) : d[i] = c[i]
    BY <1>2, <1>6, <2>1
  <2>3. Len(c) # Len(d)
    BY <1>2, <1>6
  <2>. QED
    BY <1>5, <2>1, <2>2, <2>3, PrefixIs
<1>9. IsEntryOf(c, d)
  <2>1. f \in Seq(STRING) /\ Len(f) = Len(d) /\ \A i \in 1 .. Len(d) : f[i] = c[i]
    BY <1>2, <1>6
  <2>2. \A i \in 1 .. Len(d) : d[i] = c[i]
    BY <1>5, <1>8, PrefixIs
  <2>3. Front(c) = f
    <3>1. Len(c) - 1 = Len(d)
      BY <1>2, <1>6
    <3>. QED
      BY <3>1 DEF Front
  <2>. HIDE DEF f
  <2>4. f = d
    BY <1>1, <2>1, <2>2, SeqEqual
  <2>. QED
    BY <1>6, <2>3, <2>4 DEF IsEntryOf
<1>. QED
  BY <1>5, <1>7, <1>8, <1>9

LEMMA EntryBelow ==
  ASSUME NEW c \in Paths, NEW d \in Paths, IsEntryOf(c, d)
  PROVE  IsPrefix(d, c) /\ c # d
<1>1. d \in Seq(STRING) /\ c \in Seq(STRING)
  BY TreeAssumption
<1>2. Len(d) \in Nat /\ Len(c) \in Nat /\ Len(c) = Len(d) + 1 /\ Len(c) - 1 = Len(d)
  BY <1>1 DEF IsEntryOf
<1>3. \A i \in 1 .. Len(d) : d[i] = c[i]
  <2>. DEFINE f == SubSeq(c, 1, Len(d))
  <2>1. \A i \in 1 .. Len(d) : f[i] = c[i]
    BY <1>1, <1>2
  <2>2. d = f
    BY <1>2 DEF IsEntryOf, Front
  <2>. HIDE DEF f
  <2>. QED
    BY <2>1, <2>2
<1>4. Len(d) <= Len(c) /\ Len(c) # Len(d)
  <2>1. \A m, n \in Nat : n = m + 1 => m <= n /\ n # m
    OBVIOUS
  <2>. QED
    BY <1>2, <2>1, Zenon
<1>. QED
  BY <1>3, <1>4, PrefixIs

LEMMA LeastOfNat ==
  ASSUME NEW S, S \subseteq Nat, S # {}
  PROVE  \E x \in S : \A y \in S : x <= y
<1>. DEFINE R == OpToRel(<, Nat)
<1>1. IsWellFoundedOn(R, Nat)
  BY NatLessThanWellFounded
<1>2. \A x, y \in Nat : x < y => <<x, y>> \in R
  BY DEF OpToRel
<1>. HIDE DEF R
<1>3. PICK x \in S : \A y \in S : ~ (<<y, x>> \in R)
  BY <1>1, WFMin
<1>4. ASSUME NEW y \in S PROVE x <= y
  <2>1. x \in Nat /\ y \in Nat
    OBVIOUS
  <2>2. ~ (y < x)
    BY <1>2, <1>3, <2>1, Zenon
  <2>. QED
    BY <2>1, <2>2
<1>. QED
  BY <1>3, <1>4

(* f[k] is what the first k of n members make.                             *)
Empty == [p \in Paths |-> Nothing]
Makes(f, s, n) ==
  f[0] = Empty /\ \A k \in 1 .. n : f[k] = Extract(f[k - 1], s[k], k)

LEMMA MakesExists ==
  ASSUME NEW s, NEW m \in Nat
  PROVE  \E f : f = [k \in 0 .. m |-> f[k]] /\ Makes(f, s, m)
<1>. DEFINE Exact(f, n) == f = [k \in 0 .. n |-> f[k]] /\ Makes(f, s, n)
            Bad == {n \in 0 .. m : ~ \E f : Exact(f, n)}
<1>1. SUFFICES ASSUME Bad # {} PROVE FALSE
  <2>1. m \in 0 .. m
    OBVIOUS
  <2>. QED
    BY <2>1
<1>2. PICK n \in Bad : \A x \in Bad : n <= x
  <2>1. Bad \subseteq Nat
    OBVIOUS
  <2>. HIDE DEF Bad
  <2>. QED
    BY <1>1, <2>1, LeastOfNat
<1>3. n # 0
  <2>. DEFINE g == [k \in 0 .. 0 |-> Empty]
  <2>1. Exact(g, 0)
    BY DEF Makes
  <2>. HIDE DEF Exact
  <2>. QED
    BY <1>2, <2>1
<1>4. n \in 1 .. m /\ n - 1 \in 0 .. m /\ n - 1 \notin Bad
  <2>1. n \in 1 .. m
    BY <1>2, <1>3
  <2>. HIDE DEF Bad
  <2>. QED
    BY <1>2, <2>1
<1>5. PICK f : Exact(f, n - 1)
  BY <1>4
<1>. DEFINE g == [k \in 0 .. n |-> IF k = n THEN Extract(f[n - 1], s[n], n) ELSE f[k]]
<1>6. /\ g = [k \in 0 .. n |-> g[k]]
      /\ \A k \in 0 .. n - 1 : g[k] = f[k]
      /\ g[n] = Extract(f[n - 1], s[n], n)
  BY <1>4
<1>. HIDE DEF g
<1>7. Makes(g, s, n)
  <2>1. g[0] = Empty
    BY <1>4, <1>5, <1>6 DEF Makes
  <2>2. ASSUME NEW k \in 1 .. n PROVE g[k] = Extract(g[k - 1], s[k], k)
    <3>1. k - 1 \in 0 .. n - 1
      BY <1>4
    <3>2. g[k - 1] = f[k - 1]
      BY <1>6, <3>1
    <3>3. CASE k = n
      BY <1>6, <3>2, <3>3
    <3>4. CASE k # n
      <4>1. k \in 1 .. n - 1 /\ k \in 0 .. n - 1
        BY <1>4, <3>4
      <4>. QED
        BY <1>5, <1>6, <3>2, <4>1 DEF Makes
    <3>. QED
      BY <3>3, <3>4
  <2>. QED
    BY <2>1, <2>2 DEF Makes
<1>. QED
  BY <1>2, <1>6, <1>7

LEMMA MakesOne ==
  ASSUME NEW n \in Nat, NEW f, NEW s, NEW g, NEW t, Makes(f, s, n), Makes(g, t, n),
         \A k \in 1 .. n : s[k] = t[k]
  PROVE  f[n] = g[n]
<1>. DEFINE Bad == {k \in 0 .. n : f[k] # g[k]}
<1>1. ASSUME Bad # {} PROVE FALSE
  <2>1. PICK k \in Bad : \A x \in Bad : k <= x
    <3>1. Bad \subseteq Nat
      OBVIOUS
    <3>. HIDE DEF Bad
    <3>. QED
      BY <1>1, <3>1, LeastOfNat
  <2>2. k # 0
    BY <2>1 DEF Makes
  <2>3. k \in 1 .. n /\ k - 1 \in 0 .. n /\ k - 1 \notin Bad
    <3>1. k \in 1 .. n
      BY <2>1, <2>2
    <3>. HIDE DEF Bad
    <3>. QED
      BY <2>1, <3>1
  <2>4. f[k - 1] = g[k - 1]
    BY <2>3
  <2>5. f[k] = g[k]
    BY <2>3, <2>4 DEF Makes
  <2>. QED
    BY <2>1, <2>5
<1>2. n \in 0 .. n
  OBVIOUS
<1>. QED
  BY <1>1, <1>2

LEMMA TreesMake ==
  ASSUME NEW S, NEW s \in Seq(S)
  PROVE  Makes(Trees(s), s, Len(s))
<1>. DEFINE m == Len(s)
            D(f) == f = [k \in 0 .. m |-> IF k = 0 THEN Empty ELSE Extract(f[k - 1], s[k], k)]
            c == CHOOSE f : D(f)
<1>1. m \in Nat
  OBVIOUS
<1>2. Trees(s) = c
  BY DEF Trees, Empty
<1>3. \E f : D(f)
  <2>1. PICK f : f = [k \in 0 .. m |-> f[k]] /\ Makes(f, s, m)
    BY <1>1, MakesExists
  <2>2. ASSUME NEW k \in 0 .. m
        PROVE  f[k] = IF k = 0 THEN Empty ELSE Extract(f[k - 1], s[k], k)
    <3>1. k # 0 => k \in 1 .. m
      BY <1>1
    <3>. QED
      BY <2>1, <3>1 DEF Makes
  <2>3. D(f)
    BY <2>1, <2>2
  <2>. QED
    BY <2>3
<1>4. D(c)
  <2>. HIDE DEF D
  <2>. QED
    BY <1>3
<1>. HIDE DEF c
<1>5. \A k \in 0 .. m : c[k] = IF k = 0 THEN Empty ELSE Extract(c[k - 1], s[k], k)
  BY <1>4
<1>6. 0 \in 0 .. m /\ \A k \in 1 .. m : k \in 0 .. m /\ k # 0
  BY <1>1
<1>7. Makes(c, s, m)
  BY <1>5, <1>6 DEF Makes
<1>. QED
  BY <1>2, <1>7

(* What one more member makes of the files.                                *)
LEMMA OneMore ==
  ASSUME IsSequence(archive), NEW m, Store(m)
  PROVE  Extracted' = Extract(Extracted, m, Len(archive) + 1)
<1>1. PICK S : archive \in Seq(S)
  BY DEF IsSequence
<1>. DEFINE T == S \cup {m}
            n == Len(archive)
            f == Trees(archive)
            g == Trees(archive')
<1>2. archive \in Seq(T) /\ archive' \in Seq(T) /\ n \in Nat /\ Len(archive') = n + 1
  <2>1. archive \in Seq(T) /\ m \in T
    BY <1>1
  <2>. HIDE DEF T
  <2>. QED
    BY <2>1 DEF Store
<1>3. archive'[n + 1] = m /\ \A k \in 1 .. n : archive[k] = archive'[k]
  BY <1>2 DEF Store
<1>4. Makes(f, archive, n) /\ Makes(g, archive', n + 1)
  <2>1. Makes(Trees(archive), archive, Len(archive))
    BY <1>2, TreesMake
  <2>2. Makes(Trees(archive'), archive', Len(archive'))
    BY <1>2, TreesMake
  <2>. QED
    BY <1>2, <2>1, <2>2
<1>. HIDE DEF f, g, n, T
<1>5. Makes(g, archive', n)
  BY <1>2, <1>4 DEF Makes
<1>6. f[n] = g[n]
  BY <1>2, <1>3, <1>4, <1>5, MakesOne
<1>7. g[n + 1] = Extract(g[n], m, n + 1)
  BY <1>2, <1>3, <1>4 DEF Makes
<1>8. Extracted = f[n] /\ Extracted' = g[n + 1]
  BY <1>2 DEF Extracted, f, g, n
<1>. QED
  BY <1>6, <1>7, <1>8 DEF n

LEMMA NothingYet ==
  ASSUME archive = <<>>
  PROVE  Extracted = Empty
<1>1. archive \in Seq({}) /\ Len(archive) = 0
  OBVIOUS
<1>2. Makes(Trees(archive), archive, 0)
  BY <1>1, TreesMake
<1>. QED
  BY <1>1, <1>2 DEF Makes, Extracted

(* The member that is stored is the whole of a file, or a link to one.     *)
LEMMA FileMade ==
  ASSUME IsSequence(archive), NEW type, NEW data, type # "link", st.name \in Paths,
         Store(Member(type, st, None, data, TRUE))
  PROVE  /\ Extracted' = [Extracted EXCEPT ![st.name] =
              [kind |-> type, data |-> data, whole |-> TRUE, id |-> Len(archive) + 1]]
         /\ archive'[Len(archive) + 1].ino = st.ino
<1>. DEFINE m == Member(type, st, None, data, TRUE)
<1>1. /\ m.type = type /\ m.name = st.name /\ m.ino = st.ino /\ m.link = None
      /\ m.data = data /\ m.whole = TRUE
  BY DEF Member
<1>2. Store(m)
  OBVIOUS
<1>. HIDE DEF m
<1>3. Extracted' = Extract(Extracted, m, Len(archive) + 1)
  BY <1>2, OneMore
<1>4. archive'[Len(archive) + 1] = m
  BY <1>2, AppendKeeps DEF Store
<1>. QED
  BY <1>1, <1>3, <1>4 DEF Extract

LEMMA LinkMade ==
  ASSUME IsSequence(archive), NEW n, NEW data, n # None, st.name \in Paths,
         Store(Member("link", st, n, data, TRUE))
  PROVE  Extracted' = [Extracted EXCEPT ![st.name] = Extracted[n]]
<1>. DEFINE m == Member("link", st, n, data, TRUE)
<1>1. m.type = "link" /\ m.name = st.name /\ m.link = n
  BY DEF Member
<1>2. Store(m)
  OBVIOUS
<1>. HIDE DEF m
<1>3. Extracted' = Extract(Extracted, m, Len(archive) + 1)
  BY <1>2, OneMore
<1>. QED
  BY <1>1, <1>3 DEF Extract

(* What tar was asked for, and has put into the archive.                   *)
KindOf(p) == given.inode[given.disk[p]].kind
Taken(p) == Extracted[p] # Nothing

(* The files are those of the start, but for the ones tar has removed.     *)
OnlyRemoved ==
  /\ \A p \in Paths : disk[p] # given.disk[p] => given.remove_files /\ disk[p] = 0
  /\ \A i \in Inodes : inode[i].kind = given.inode[i].kind /\ inode[i].data = given.inode[i].data
  /\ \A p, q \in Paths : IsPrefix(q, p) /\ Exists(p) => Exists(q)
Gone == \A p \in Paths : given.disk[p] # 0 /\ ~Exists(p) => Taken(p)

(* What stat has told of a file that is to be dumped.                      *)
IsTold(s) ==
  /\ s.name \in Wanted
  /\ s.ino = given.disk[s.name] /\ s.kind = KindOf(s.name)
  /\ s.data = given.inode[s.ino].data
Told ==
  /\ Active => IsTold(st)
  /\ pc \in {"open", "read"} => st.kind \in {"dir", "file"}
  /\ pc = "special" => st.kind \in {"symlink", "fifo"}
  /\ pc = "link" => st.kind # "dir" /\ st.ino \in DOMAIN link_table
  /\ pc = "stored" => given.remove_files
  /\ pc = "done" => todo = <<>>
Asked(p) == \E n \in ToSet(given.names) : IsPrefix(n, p)
Items ==
  \A k \in DOMAIN todo :
    IF todo[k].do = "dump" THEN Asked(todo[k].name)
    ELSE IsTold(todo[k].st) /\ todo[k].st.kind = "dir"

(* What was taken is what was asked for, and made by a member of its file. *)
IsTree == Extracted = [p \in Paths |-> Extracted[p]]
Right ==
  \A p \in Paths : Taken(p) =>
    /\ p \in Wanted
    /\ Extracted[p].kind = KindOf(p)
    /\ Extracted[p].data = given.inode[given.disk[p]].data
    /\ Extracted[p].whole
    /\ Extracted[p].id \in DOMAIN archive
    /\ archive[Extracted[p].id].ino = given.disk[p]

(* The table names a file that was taken; and, unless files are removed,   *)
(* what is in it is one file for all its links.                            *)
Named ==
  \A i \in DOMAIN link_table :
    LET n == link_table[i].name IN
    n \in Paths /\ given.disk[n] = i /\ Taken(n) /\ KindOf(n) \in {"file", "symlink"}
OneFile(p) ==
  /\ given.disk[p] \in DOMAIN link_table
  /\ Extracted[p].id = Extracted[link_table[given.disk[p]].name].id
Tabled ==
  ~given.remove_files =>
    \A p \in Paths :
      Taken(p) /\ KindOf(p) \in {"file", "symlink"} /\ Links(given.disk[p]) > 1 => OneFile(p)

(* A file is finished when it is in the archive and, if it was to be, gone *)
(* or a directory that holds a socket, which tar leaves.                   *)
Cleared(p) ==
  Exists(p) => \E q \in Paths : IsPrefix(p, q) /\ Exists(q) /\ KindOf(q) = "socket"
Finished(p) == Taken(p) /\ (given.remove_files => Cleared(p))

(* Until then tar is at it, or at the directory it will be found in, or    *)
(* will come to it by one of the first n things it has to do.              *)
Closing == pc \in {"check", "stored"}
AtWork(p) == (Looked /\ IsPrefix(st.name, p)) \/ (Closing /\ st.name = p)
Covers(x, p) == IF x.do = "dump" THEN IsPrefix(x.name, p) ELSE x.st.name = p
Reached(p, n) == Finished(p) \/ AtWork(p) \/ \E j \in 1 .. n : Covers(todo[j], p)
Inside(p, d) == p \in Wanted /\ IsPrefix(d, p) /\ p # d

Covered == \A p \in Wanted : Reached(p, Len(todo))
Beneath ==
  \A k \in DOMAIN todo : todo[k].do = "leave" =>
    /\ Taken(todo[k].st.name)
    /\ \A p \in Paths : Inside(p, todo[k].st.name) => Reached(p, k - 1)
Leaving ==
  Closing =>
    /\ Taken(st.name)
    /\ st.kind = "dir" => \A p \in Paths : Inside(p, st.name) => Finished(p)

Good ==
  /\ OnlyRemoved /\ Gone /\ Told /\ Items
  /\ IsTree /\ Right /\ Named /\ Tabled
  /\ Covered /\ Beneath /\ Leaving

Completing == (Quiet => Unmoved) /\ (Tidy => Good)

LEMMA WantedIs ==
  /\ Wanted \subseteq Paths
  /\ \A p \in Paths : p \in Wanted <=> given.disk[p] # 0 /\ KindOf(p) # "socket" /\ Asked(p)
BY DEF Wanted, KindOf, Asked

(* What a directory holds, and what is a file of its own.                  *)
LEMMA TreeIs ==
  ASSUME given \in Settings, NEW p \in Paths, NEW q \in Paths, given.disk[p] # 0, p # q
  PROVE  /\ IsPrefix(q, p) => given.disk[q] # 0 /\ KindOf(q) = "dir"
         /\ given.disk[q] = given.disk[p] => KindOf(p) # "dir"
BY TreeAssumption DEF KindOf

LEMMA GoodAtStart ==
  ASSUME Init
  PROVE  Good
<1>. USE DEF Init
<1>1. Extracted = Empty
  BY NothingYet
<1>2. \A p \in Paths : ~Taken(p)
  BY <1>1 DEF Empty, Taken
<1>3. IsTree
  BY <1>1 DEF Empty, IsTree
<1>4. OnlyRemoved
  <2>1. ASSUME NEW p \in Paths, NEW q \in Paths, IsPrefix(q, p), Exists(p)
        PROVE  Exists(q)
    BY <2>1, TreeAssumption DEF Exists
  <2>. QED
    BY <2>1 DEF OnlyRemoved
<1>5. Gone
  BY DEF Gone, Exists
<1>6. PICK n \in Nat : n = Len(given.names) /\ DOMAIN given.names = 1 .. n
                        /\ \A k \in 1 .. n : given.names[k] \in Paths
  <2>1. given.names \in Seq(Paths)
    BY DumpAssumption
  <2>. QED
    BY <2>1
<1>7. /\ DOMAIN todo = 1 .. n
      /\ \A k \in 1 .. n : todo[k].do = "dump" /\ todo[k].name = given.names[k]
  BY <1>6 DEF Dump
<1>8. Len(todo) = n
  BY <1>6, InitTyped DEF Dump
<1>9. Items
  <2>1. ASSUME NEW k \in 1 .. n PROVE Asked(todo[k].name)
    <3>1. given.names[k] \in ToSet(given.names) /\ IsPrefix(given.names[k], given.names[k])
      BY <1>6, PrefixOrder DEF ToSet
    <3>. QED
      BY <1>7, <3>1 DEF Asked
  <2>. QED
    BY <1>7, <2>1 DEF Items
<1>10. Told
  BY DEF Told, Active
<1>11. Covered
  <2>1. ASSUME NEW p \in Wanted PROVE \E j \in 1 .. n : Covers(todo[j], p)
    <3>1. Asked(p)
      BY WantedIs
    <3>2. PICK a \in ToSet(given.names) : IsPrefix(a, p)
      BY <3>1 DEF Asked
    <3>3. PICK j \in 1 .. n : given.names[j] = a
      BY <1>6 DEF ToSet
    <3>. QED
      BY <1>7, <3>2, <3>3 DEF Covers
  <2>. QED
    BY <1>8, <2>1 DEF Covered, Reached
<1>12. Beneath
  BY <1>7 DEF Beneath
<1>13. Right /\ Tabled
  BY <1>2 DEF Right, Tabled
<1>14. Named /\ Leaving
  BY DEF Named, Leaving, Closing
<1>. QED
  BY <1>3, <1>4, <1>5, <1>9, <1>10, <1>11, <1>12, <1>13, <1>14 DEF Good

(* The member stored is of the file that is dumped, which is taken now.    *)
Made ==
  /\ Extracted'[st.name] # Nothing
  /\ \A p \in Paths : p # st.name => Extracted'[p] = Extracted[p]

LEMMA MadeTaken ==
  ASSUME Made
  PROVE  \A p \in Paths : /\ Taken(p) => Taken(p)'
                          /\ Taken(p)' => Taken(p) \/ p = st.name
BY DEF Made, Taken

LEMMA MembersStay ==
  ASSUME IsSequence(archive), NEW m, Store(m)
  PROVE  /\ \A k \in DOMAIN archive : k \in DOMAIN archive' /\ archive'[k] = archive[k]
         /\ Len(archive) + 1 \in DOMAIN archive'
BY AppendKeeps DEF Store

LEMMA WantedStay ==
  ASSUME given' = given
  PROVE  Wanted' = Wanted /\ \A p \in Paths : KindOf(p)' = KindOf(p)
BY DEF Wanted, KindOf

LEMMA RightMade ==
  ASSUME Typed, IsTree, Right, IsTold(st), st.kind \in Kinds, given' = given,
         Store(Member(st.kind, st, None, st.data, TRUE))
  PROVE  IsTree' /\ Right' /\ Made
<1>1. IsSequence(archive)
  BY DEF Typed, DumpTyped
<1>2. st.name \in Paths /\ st.name \in Wanted
  BY WantedIs DEF IsTold
<1>. DEFINE v == [kind |-> st.kind, data |-> st.data, whole |-> TRUE, id |-> Len(archive) + 1]
            n == Len(archive) + 1
<1>3. Extracted' = [Extracted EXCEPT ![st.name] = v] /\ archive'[n].ino = st.ino
  <2>1. st.kind # "link"
    BY DEF Kinds
  <2>. QED
    BY <1>1, <1>2, <2>1, FileMade
<1>4. /\ \A k \in DOMAIN archive : k \in DOMAIN archive' /\ archive'[k] = archive[k]
      /\ n \in DOMAIN archive'
  BY <1>1, MembersStay
<1>5. v.kind = st.kind /\ v.data = st.data /\ v.whole /\ v.id = n /\ v # Nothing
  BY DEF Nothing, Kinds
<1>. HIDE DEF v, n
<1>6. Extracted' = [p \in Paths |-> IF p = st.name THEN v ELSE Extracted[p]]
  BY <1>3 DEF IsTree
<1>7. /\ Extracted'[st.name] = v
      /\ \A p \in Paths : p # st.name => Extracted'[p] = Extracted[p]
  BY <1>2, <1>6
<1>8. Made
  BY <1>5, <1>7 DEF Made, Taken
<1>9. IsTree'
  BY <1>6 DEF IsTree
<1>10. Right'
  <2>1. SUFFICES ASSUME NEW p \in Paths, Taken(p)'
                 PROVE  /\ p \in Wanted
                        /\ Extracted'[p].kind = KindOf(p)
                        /\ Extracted'[p].data = given.inode[given.disk[p]].data
                        /\ Extracted'[p].whole
                        /\ Extracted'[p].id \in DOMAIN archive'
                        /\ archive'[Extracted'[p].id].ino = given.disk[p]
    BY WantedStay DEF Right
  <2>2. CASE p = st.name
    <3>1. /\ st.ino = given.disk[p] /\ st.kind = KindOf(p)
          /\ st.data = given.inode[given.disk[p]].data
      BY <2>2 DEF IsTold
    <3>. QED
      BY <1>2, <1>3, <1>4, <1>5, <1>7, <2>2, <3>1
  <2>3. CASE p # st.name
    <3>1. Extracted'[p] = Extracted[p] /\ Taken(p)
      BY <1>7, <2>1, <2>3 DEF Taken
    <3>. QED
      BY <1>4, <3>1 DEF Right
  <2>. QED
    BY <2>2, <2>3
<1>. QED
  BY <1>8, <1>9, <1>10

LEMMA RightLinked ==
  ASSUME Typed, IsTree, Right, IsTold(st), given' = given,
         NEW n \in Paths, NEW data, Taken(n), given.disk[n] = st.ino,
         Store(Member("link", st, n, data, TRUE))
  PROVE  IsTree' /\ Right' /\ Made /\ Extracted'[st.name] = Extracted[n]
<1>1. IsSequence(archive)
  BY DEF Typed, DumpTyped
<1>2. st.name \in Paths /\ st.name \in Wanted
  BY WantedIs DEF IsTold
<1>3. Extracted' = [Extracted EXCEPT ![st.name] = Extracted[n]]
  <2>1. n # None
    BY DumpAssumption
  <2>. QED
    BY <1>1, <1>2, <2>1, LinkMade
<1>4. \A k \in DOMAIN archive : k \in DOMAIN archive' /\ archive'[k] = archive[k]
  BY <1>1, MembersStay
<1>6. Extracted' = [p \in Paths |-> IF p = st.name THEN Extracted[n] ELSE Extracted[p]]
  BY <1>3 DEF IsTree
<1>7. /\ Extracted'[st.name] = Extracted[n]
      /\ \A p \in Paths : p # st.name => Extracted'[p] = Extracted[p]
  BY <1>2, <1>6
<1>8. Made
  BY <1>7 DEF Made, Taken
<1>9. IsTree'
  BY <1>6 DEF IsTree
<1>10. Right'
  <2>1. SUFFICES ASSUME NEW p \in Paths, Taken(p)'
                 PROVE  /\ p \in Wanted
                        /\ Extracted'[p].kind = KindOf(p)
                        /\ Extracted'[p].data = given.inode[given.disk[p]].data
                        /\ Extracted'[p].whole
                        /\ Extracted'[p].id \in DOMAIN archive'
                        /\ archive'[Extracted'[p].id].ino = given.disk[p]
    BY WantedStay DEF Right
  <2>2. CASE p = st.name
    <3>1. given.disk[p] = given.disk[n] /\ KindOf(p) = KindOf(n)
      BY <2>2 DEF IsTold, KindOf
    <3>2. Extracted'[p] = Extracted[n]
      BY <1>7, <2>2
    <3>. QED
      BY <1>2, <1>4, <2>2, <3>1, <3>2 DEF Right
  <2>3. CASE p # st.name
    <3>1. Extracted'[p] = Extracted[p] /\ Taken(p)
      BY <1>7, <2>1, <2>3 DEF Taken
    <3>. QED
      BY <1>4, <3>1 DEF Right
  <2>. QED
    BY <2>2, <2>3
<1>. QED
  BY <1>7, <1>8, <1>9, <1>10

(* The table, when no link is stored.                                      *)
LEMMA NoTableChange ==
  ASSUME Named, Tabled, Made, given' = given, disk' = disk, link_table' = link_table,
         st.name \in Paths, st.ino = given.disk[st.name], Links(st.ino) \in Nat,
         KindOf(st.name) \in {"file", "symlink"} => ~(Links(st.ino) > 1)
  PROVE  Named' /\ Tabled'
<1>1. Named'
  BY MadeTaken, WantedStay DEF Named
<1>2. ASSUME ~given.remove_files, NEW p \in Paths, Taken(p)', KindOf(p) \in {"file", "symlink"},
             Links(given.disk[p]) > 1
      PROVE  /\ given.disk[p] \in DOMAIN link_table
             /\ Extracted'[p].id = Extracted'[link_table[given.disk[p]].name].id
  <2>1. p # st.name
    BY <1>2
  <2>2. Taken(p)
    BY <1>2, <2>1, MadeTaken
  <2>3. OneFile(p)
    BY <1>2, <2>2 DEF Tabled
  <2>. DEFINE n == link_table[given.disk[p]].name
  <2>4. n \in Paths /\ given.disk[n] = given.disk[p] /\ KindOf(n) \in {"file", "symlink"}
    BY <2>3 DEF OneFile, Named
  <2>5. n # st.name
    BY <1>2, <2>4
  <2>. QED
    BY <2>1, <2>3, <2>4, <2>5 DEF Made, OneFile
<1>3. Tabled'
  BY <1>2, WantedStay DEF Tabled, OneFile, Links
<1>. QED
  BY <1>1, <1>3

(* A file that goes into the table is the first of its links.              *)
LEMMA TableMade ==
  ASSUME Named, Tabled, Made, given' = given, disk' = disk, link_table' = Registered,
         st.name \in Paths, st.ino = given.disk[st.name], Links(st.ino) > 1,
         st.ino \notin DOMAIN link_table, KindOf(st.name) \in {"file", "symlink"}
  PROVE  Named' /\ Tabled'
<1>1. /\ DOMAIN link_table' = DOMAIN link_table \cup {st.ino}
      /\ link_table'[st.ino].name = st.name
      /\ \A i \in DOMAIN link_table : link_table'[i] = link_table[i]
  BY DEF Registered
<1>2. Named'
  <2>1. ASSUME NEW i \in DOMAIN link_table'
        PROVE  /\ link_table'[i].name \in Paths /\ given.disk[link_table'[i].name] = i
               /\ Extracted'[link_table'[i].name] # Nothing
               /\ KindOf(link_table'[i].name) \in {"file", "symlink"}
    <3>1. CASE i = st.ino
      BY <1>1, <3>1 DEF Made
    <3>2. CASE i \in DOMAIN link_table
      <4>1. link_table'[i] = link_table[i]
        BY <1>1, <3>2
      <4>2. /\ link_table[i].name \in Paths /\ given.disk[link_table[i].name] = i
            /\ Taken(link_table[i].name) /\ KindOf(link_table[i].name) \in {"file", "symlink"}
        BY <3>2 DEF Named
      <4>. QED
        BY <4>1, <4>2, MadeTaken DEF Taken
    <3>. QED
      BY <1>1, <3>1, <3>2
  <2>. QED
    BY <2>1 DEF Named, Taken, KindOf
<1>3. ASSUME ~given.remove_files, NEW p \in Paths, Taken(p)', KindOf(p) \in {"file", "symlink"},
             Links(given.disk[p]) > 1
      PROVE  /\ given.disk[p] \in DOMAIN link_table'
             /\ Extracted'[p].id = Extracted'[link_table'[given.disk[p]].name].id
  <2>1. CASE p = st.name
    BY <1>1, <2>1
  <2>2. CASE p # st.name
    <3>1. OneFile(p)
      BY <1>3, <2>2, MadeTaken DEF Tabled
    <3>. DEFINE n == link_table[given.disk[p]].name
    <3>2. n \in Paths /\ given.disk[n] = given.disk[p]
      BY <3>1 DEF OneFile, Named
    <3>3. n # st.name
      BY <3>1, <3>2 DEF OneFile
    <3>. QED
      BY <1>1, <2>2, <3>1, <3>2, <3>3 DEF Made, OneFile
  <2>. QED
    BY <2>1, <2>2
<1>4. Tabled'
  BY <1>3, WantedStay DEF Tabled, OneFile, Links
<1>. QED
  BY <1>2, <1>4

(* A link is made to what the table holds for its file.                    *)
LEMMA TableUsed ==
  ASSUME Named, Tabled, Made, given' = given, disk' = disk, link_table' = Counted,
         st.name \in Paths, st.ino = given.disk[st.name], st.ino \in DOMAIN link_table,
         Extracted'[st.name] = Extracted[LinkName]
  PROVE  Named' /\ Tabled'
<1>1. /\ DOMAIN link_table' = DOMAIN link_table
      /\ \A i \in DOMAIN link_table : link_table'[i].name = link_table[i].name
  <2>1. DOMAIN link_table' = DOMAIN link_table
    BY DEF Counted
  <2>2. ASSUME NEW i \in DOMAIN link_table PROVE link_table'[i].name = link_table[i].name
    <3>. DEFINE e == link_table[st.ino]
                c == [e EXCEPT !.nlink = @ - 1]
    <3>1. c.name = e.name
      OBVIOUS
    <3>2. link_table' = [link_table EXCEPT ![st.ino] = c]
      BY DEF Counted
    <3>. HIDE DEF c
    <3>. QED
      BY <3>1, <3>2
  <2>. QED
    BY <2>1, <2>2
<1>2. Named'
  <2>1. ASSUME NEW i \in DOMAIN link_table
        PROVE  /\ link_table'[i].name \in Paths /\ given.disk[link_table'[i].name] = i
               /\ Extracted'[link_table'[i].name] # Nothing
               /\ KindOf(link_table'[i].name) \in {"file", "symlink"}
    BY <1>1, MadeTaken DEF Named, Taken
  <2>. QED
    BY <1>1, <2>1 DEF Named, Taken, KindOf
<1>3. ASSUME ~given.remove_files, NEW p \in Paths, Taken(p)', KindOf(p) \in {"file", "symlink"},
             Links(given.disk[p]) > 1
      PROVE  /\ given.disk[p] \in DOMAIN link_table'
             /\ Extracted'[p].id = Extracted'[link_table'[given.disk[p]].name].id
  <2>. DEFINE n == link_table[given.disk[p]].name
  <2>1. CASE p = st.name
    <3>1. n = LinkName /\ n \in Paths
      BY <2>1 DEF LinkName, Named
    <3>2. Extracted'[n] = Extracted[n]
      BY <3>1 DEF Made
    <3>. QED
      BY <1>1, <2>1, <3>1, <3>2
  <2>2. CASE p # st.name
    <3>1. OneFile(p)
      BY <1>3, <2>2, MadeTaken DEF Tabled
    <3>2. n \in Paths /\ given.disk[n] = given.disk[p]
      BY <3>1 DEF OneFile, Named
    <3>3. Extracted'[n] = Extracted[n]
      <4>1. CASE n = st.name
        <5>1. given.disk[p] = st.ino
          BY <3>2, <4>1
        <5>. QED
          BY <4>1, <5>1 DEF LinkName
      <4>2. CASE n # st.name
        BY <3>2, <4>2 DEF Made
      <4>. QED
        BY <4>1, <4>2
    <3>4. Extracted'[p] = Extracted[p]
      BY <2>2 DEF Made
    <3>. QED
      BY <1>1, <3>1, <3>3, <3>4 DEF OneFile
  <2>. QED
    BY <2>1, <2>2
<1>4. Tabled'
  BY <1>3, WantedStay DEF Tabled, OneFile, Links
<1>. QED
  BY <1>2, <1>4

(* No file is removed.                                                     *)
LEMMA FilesStay ==
  ASSUME UNCHANGED <<given, files>>, OnlyRemoved, Gone, \A p \in Paths : Taken(p) => Taken(p)'
  PROVE  /\ OnlyRemoved' /\ Gone'
         /\ \A p \in Paths : Finished(p) => Finished(p)'
<1>1. given' = given /\ disk' = disk /\ inode' = inode
  BY DEF files
<1>2. \A p \in Paths : Exists(p)' <=> Exists(p)
  BY <1>1 DEF Exists
<1>3. OnlyRemoved'
  BY <1>1 DEF OnlyRemoved, Exists
<1>4. Gone'
  BY <1>1, <1>2 DEF Gone
<1>5. ASSUME NEW p \in Paths, Finished(p) PROVE Finished(p)'
  <2>1. Taken(p)'
    BY <1>5 DEF Finished
  <2>2. Cleared(p) => Cleared(p)'
    BY <1>1, <1>2, WantedStay DEF Cleared
  <2>. QED
    BY <1>1, <1>5, <2>1, <2>2 DEF Finished
<1>. QED
  BY <1>3, <1>4, <1>5

(* A file, or a directory with nothing in it, is removed.                  *)
LEMMA FileRemoved ==
  ASSUME Typed, OnlyRemoved, Gone, IsTold(st), Taken(st.name), given.remove_files,
         given' = given, archive' = archive, Unlinked(st.name),
         st.kind # "dir" \/ Below(st.name) = {}
  PROVE  /\ OnlyRemoved' /\ Gone'
         /\ \A p \in Paths : Finished(p) \/ p = st.name => Finished(p)'
<1>1. st.name \in Paths /\ st.kind = KindOf(st.name) /\ KindOf(st.name) # "socket"
  BY WantedIs DEF IsTold
<1>2. /\ disk \in [Paths -> Inodes \cup {0}] /\ inode \in [Inodes -> Inode] /\ given \in Settings
      /\ 0 \notin Inodes
  BY DumpAssumption DEF Typed, FilesTyped, DumpTyped
<1>3. \A p \in Paths : disk'[p] = IF p = st.name THEN 0 ELSE disk[p]
  BY <1>1, <1>2 DEF Unlinked
<1>4. \A p \in Paths : Exists(p)' <=> Exists(p) /\ p # st.name
  BY <1>3 DEF Exists
<1>5. \A p \in Paths : Taken(p)' <=> Taken(p)
  BY DEF Taken, Extracted
<1>6. OnlyRemoved'
  <2>1. \A p \in Paths : disk'[p] # given.disk[p] => given.remove_files /\ disk'[p] = 0
    BY <1>3 DEF OnlyRemoved
  <2>2. ASSUME NEW i \in Inodes
        PROVE  /\ inode'[i].kind = given.inode[i].kind /\ inode'[i].data = given.inode[i].data
    <3>1. inode'[i].kind = inode[i].kind /\ inode'[i].data = inode[i].data
      BY <1>2, Touched DEF Unlinked
    <3>. QED
      BY <3>1 DEF OnlyRemoved
  <2>3. ASSUME NEW p \in Paths, NEW q \in Paths, IsPrefix(q, p), Exists(p), p # st.name
        PROVE  Exists(q) /\ q # st.name
    <3>1. Exists(q)
      BY <2>3 DEF OnlyRemoved
    <3>2. given.disk[p] # 0
      BY <2>3 DEF OnlyRemoved, Exists
    <3>3. ASSUME q = st.name PROVE FALSE
      <4>1. st.kind = "dir"
        BY <1>1, <1>2, <2>3, <3>2, <3>3, TreeIs
      <4>2. PICK c \in Paths : IsEntryOf(c, q) /\ IsPrefix(c, p)
        BY <2>3, <3>3, EntryToward
      <4>3. Exists(c)
        BY <2>3, <4>2 DEF OnlyRemoved
      <4>4. c \in Below(st.name)
        BY <3>3, <4>2, <4>3 DEF Below, IsEntryOf
      <4>. QED
        BY <4>1, <4>4
    <3>. QED
      BY <3>1, <3>3
  <2>4. \A p, q \in Paths : IsPrefix(q, p) /\ Exists(p)' => Exists(q)'
    BY <1>4, <2>3
  <2>. QED
    BY <2>1, <2>2, <2>4 DEF OnlyRemoved
<1>7. Gone'
  BY <1>4, <1>5 DEF Gone
<1>8. ASSUME NEW p \in Paths, Finished(p) \/ p = st.name
      PROVE  Finished(p)'
  <2>1. Taken(p)'
    BY <1>5, <1>8 DEF Finished
  <2>2. ASSUME Exists(p)'
        PROVE  \E q \in Paths : IsPrefix(p, q) /\ Exists(q)' /\ KindOf(q) = "socket"
    <3>1. Exists(p) /\ p # st.name
      BY <1>4, <2>2
    <3>2. PICK q \in Paths : IsPrefix(p, q) /\ Exists(q) /\ KindOf(q) = "socket"
      BY <1>8, <3>1 DEF Finished, Cleared
    <3>. QED
      BY <1>1, <1>4, <3>2
  <2>3. Cleared(p)'
    BY <2>2, WantedStay DEF Cleared
  <2>. QED
    BY <2>1, <2>3 DEF Finished
<1>. QED
  BY <1>6, <1>7, <1>8

(* The things to do.                                                       *)
LEMMA TodoIs ==
  ASSUME Typed
  PROVE  /\ Len(todo) \in Nat /\ DOMAIN todo = 1 .. Len(todo)
         /\ \A k \in DOMAIN todo : IsItem(todo[k])
         /\ todo # <<>> =>
              /\ Len(todo) \in Nat \ {0} /\ Head(todo) = todo[1]
              /\ Len(Tail(todo)) = Len(todo) - 1
              /\ DOMAIN Tail(todo) = 1 .. Len(todo) - 1
              /\ \A k \in 1 .. Len(todo) - 1 : Tail(todo)[k] = todo[k + 1]
<1>1. PICK S : todo \in Seq(S) /\ \A x \in S : IsItem(x)
  BY DEF Typed, TodoTyped
<1>2. \A k \in DOMAIN todo : todo[k] \in S
  BY <1>1
<1>. QED
  BY <1>1, <1>2

AskedItem(x) ==
  IF x.do = "dump" THEN Asked(x.name) ELSE IsTold(x.st) /\ x.st.kind = "dir"

LEMMA AskedStay ==
  ASSUME given' = given
  PROVE  /\ \A x : AskedItem(x)' <=> AskedItem(x)
         /\ \A p, d \in Paths : Inside(p, d)' <=> Inside(p, d)
<1>1. Wanted' = Wanted
  BY WantedStay
<1>. QED
  BY <1>1 DEF AskedItem, Asked, IsTold, KindOf, Inside

(* What is taken stays so, and what is finished, and the others stay in    *)
(* reach.                                                                  *)
Stays ==
  /\ given' = given
  /\ \A p \in Paths : (Taken(p) => Taken(p)') /\ (Finished(p) => Finished(p)')

LEMMA TasksKept ==
  ASSUME Typed, Items, Covered, Beneath, Stays, todo' = todo,
         \A p \in Wanted : AtWork(p) => AtWork(p)' \/ Finished(p)'
  PROVE  Items' /\ Covered' /\ Beneath'
<1>1. Items'
  BY AskedStay DEF Items, AskedItem, Stays
<1>2. ASSUME NEW p \in Wanted, NEW n, Reached(p, n) PROVE Reached(p, n)'
  BY <1>2, WantedIs DEF Reached, Covers, Stays
<1>3. Covered'
  BY <1>2, WantedStay DEF Covered, Stays
<1>4. Beneath'
  <2>1. ASSUME NEW k \in DOMAIN todo, todo[k].do = "leave"
        PROVE  /\ todo[k].st.name \in Paths /\ Taken(todo[k].st.name)'
               /\ \A p \in Paths : Inside(p, todo[k].st.name) => Reached(p, k - 1)'
    <3>1. todo[k].st.name \in Paths
      BY <2>1, TodoIs DEF IsItem, IsSeen
    <3>2. \A p \in Paths : Inside(p, todo[k].st.name) => Reached(p, k - 1)'
      BY <1>2, <2>1 DEF Beneath, Inside
    <3>. QED
      BY <2>1, <3>1, <3>2 DEF Beneath, Stays, Taken
  <2>. QED
    BY <2>1, AskedStay DEF Beneath, Stays
<1>. QED
  BY <1>1, <1>3, <1>4

(* The first thing to do is begun.                                         *)
LEMMA TasksPopped ==
  ASSUME Typed, Items, Covered, Beneath, Stays, todo # <<>>, todo' = Tail(todo), pc = "next",
         \A p \in Wanted : Covers(todo[1], p) => AtWork(p)'
  PROVE  Items' /\ Covered' /\ Beneath'
<1>. DEFINE n == Len(todo)
<1>1. /\ n \in Nat \ {0} /\ DOMAIN todo = 1 .. n
      /\ DOMAIN todo' = 1 .. n - 1 /\ Len(todo') = n - 1
      /\ \A k \in 1 .. n - 1 : todo'[k] = todo[k + 1] /\ k + 1 \in DOMAIN todo
  BY TodoIs
<1>. HIDE DEF n
<1>2. Items'
  <2>1. \A k \in 1 .. n - 1 : AskedItem(todo'[k])
    BY <1>1 DEF Items, AskedItem
  <2>2. \A k \in 1 .. n - 1 : AskedItem(todo[k])'
    BY <2>1 DEF AskedItem, Asked, IsTold, KindOf, Wanted, Stays
  <2>. QED
    BY <1>1, <2>2 DEF Items, AskedItem
<1>3. ASSUME NEW p \in Wanted, NEW k \in 1 .. n, Reached(p, k) PROVE Reached(p, k - 1)'
  <2>1. ~AtWork(p)
    BY DEF AtWork, Looked, Closing
  <2>2. CASE Finished(p)
    BY <2>2, WantedIs DEF Reached, Stays
  <2>3. CASE \E j \in 1 .. k : Covers(todo[j], p)
    <3>1. PICK j \in 1 .. k : Covers(todo[j], p)
      BY <2>3
    <3>2. CASE j = 1
      BY <3>1, <3>2 DEF Reached
    <3>3. CASE j # 1
      <4>1. j - 1 \in 1 .. k - 1 /\ j - 1 \in 1 .. n - 1 /\ (j - 1) + 1 = j
        BY <1>1, <3>3
      <4>2. todo'[j - 1] = todo[j]
        BY <1>1, <4>1
      <4>. QED
        BY <3>1, <4>1, <4>2 DEF Reached, Covers
    <3>. QED
      BY <3>2, <3>3
  <2>. QED
    BY <1>3, <2>1, <2>2, <2>3 DEF Reached
<1>4. Covered'
  BY <1>1, <1>3, WantedStay DEF Covered, Stays, n
<1>5. Beneath'
  <2>1. ASSUME NEW k \in 1 .. n - 1, todo'[k].do = "leave"
        PROVE  /\ Extracted'[todo'[k].st.name] # Nothing
               /\ \A p \in Paths : Inside(p, todo'[k].st.name) => Reached(p, k - 1)'
    <3>. DEFINE x == todo[k + 1]
    <3>1. todo'[k] = x /\ k + 1 \in DOMAIN todo /\ (k + 1) - 1 = k /\ k \in 1 .. n
      BY <1>1
    <3>2. x.st.name \in Paths
      BY <2>1, <3>1, TodoIs DEF IsItem, IsSeen
    <3>3. /\ Taken(x.st.name)
          /\ \A p \in Paths : Inside(p, x.st.name) => Reached(p, k)
      BY <2>1, <3>1 DEF Beneath
    <3>4. \A p \in Paths : Inside(p, x.st.name) => Reached(p, k - 1)'
      BY <1>3, <3>1, <3>3 DEF Inside
    <3>. QED
      BY <3>1, <3>2, <3>3, <3>4 DEF Stays, Taken
  <2>. QED
    BY <1>1, <2>1, WantedStay DEF Beneath, Stays, Inside, Taken
<1>. QED
  BY <1>2, <1>4, <1>5

(* The entries of a directory, in some order.                              *)
LEMMA EntriesAre ==
  ASSUME NEW B, IsFiniteSet(B), NEW entries \in SetToSeqs(B)
  PROVE  LET d == Cardinality(B) IN
         /\ d \in Nat /\ DOMAIN entries = 1 .. d
         /\ \A k \in 1 .. d : entries[k] \in B
         /\ \A c \in B : \E k \in 1 .. d : entries[k] = c
<1>. DEFINE d == Cardinality(B)
<1>1. d \in Nat
  BY FS_CardinalityType
<1>2. Cardinality(1 .. d) = d
  BY <1>1, FS_Interval
<1>. HIDE DEF d
<1>3. entries \in [1 .. d -> B] /\ \A i, j \in 1 .. d : i # j => entries[i] # entries[j]
  BY DEF SetToSeqs, d
<1>4. entries \in Injection(1 .. d, B)
  BY <1>3 DEF Injection, IsInjective
<1>5. entries \in Surjection(1 .. d, B)
  BY <1>2, <1>4, FS_Injection DEF d
<1>6. \A c \in B : \E k \in 1 .. d : entries[k] = c
  BY <1>5 DEF Surjection
<1>. QED
  BY <1>1, <1>3, <1>6 DEF d

LEMMA BeforeAndAfter ==
  ASSUME NEW T, NEW a \in Seq(T), NEW x \in T, NEW c \in Seq(T)
  PROVE  LET s == a \o <<x>> \o c IN
         /\ Len(s) = Len(a) + 1 + Len(c) /\ DOMAIN s = 1 .. Len(s)
         /\ \A k \in 1 .. Len(a) : s[k] = a[k]
         /\ s[Len(a) + 1] = x
         /\ \A k \in 1 .. Len(c) : s[Len(a) + 1 + k] = c[k]
<1>. DEFINE b == a \o <<x>>
            s == b \o c
<1>1. /\ b \in Seq(T) /\ Len(b) = Len(a) + 1 /\ b[Len(a) + 1] = x
      /\ \A k \in 1 .. Len(a) : b[k] = a[k]
  OBVIOUS
<1>. HIDE DEF b
<1>2. /\ s \in Seq(T) /\ Len(s) = Len(b) + Len(c)
      /\ \A k \in 1 .. Len(b) : s[k] = b[k]
      /\ \A k \in 1 .. Len(c) : s[Len(b) + k] = c[k]
  BY <1>1
<1>3. Len(a) \in Nat /\ Len(c) \in Nat
  OBVIOUS
<1>. HIDE DEF s
<1>4. Len(s) = Len(a) + 1 + Len(c) /\ DOMAIN s = 1 .. Len(s)
  BY <1>1, <1>2
<1>5. (\A k \in 1 .. Len(a) : s[k] = a[k]) /\ s[Len(a) + 1] = x
  BY <1>1, <1>2, <1>3
<1>6. \A k \in 1 .. Len(c) : s[Len(a) + 1 + k] = c[k]
  BY <1>1, <1>2
<1>. QED
  BY <1>4, <1>5, <1>6 DEF b, s

(* A directory is read: its entries come first, then the end of its dump.  *)
Pushed(d, entries) ==
  /\ d \in Nat
  /\ \A k \in 1 .. d : entries[k] \in Below(st.name)
  /\ \A c \in Below(st.name) : \E k \in 1 .. d : entries[k] = c
  /\ Len(todo') = d + 1 + Len(todo) /\ DOMAIN todo' = 1 .. d + 1 + Len(todo)
  /\ \A k \in 1 .. d : todo'[k] = Dump(entries[k], FALSE)
  /\ todo'[d + 1] = Leave(st)
  /\ \A k \in 1 .. Len(todo) : todo'[d + 1 + k] = todo[k]

LEMMA EntriesPushed ==
  ASSUME Typed, NEW entries \in SetToSeqs(Below(st.name)),
         todo' = [k \in DOMAIN entries |-> Dump(entries[k], FALSE)] \o <<Leave(st)>> \o todo
  PROVE  \E d : Pushed(d, entries)
<1>. DEFINE B == Below(st.name)
            d == Cardinality(B)
            a == [k \in DOMAIN entries |-> Dump(entries[k], FALSE)]
<1>1. IsFiniteSet(B)
  BY FS_Subset, DumpAssumption DEF Below
<1>2. /\ d \in Nat /\ DOMAIN entries = 1 .. d
      /\ \A k \in 1 .. d : entries[k] \in B
      /\ \A c \in B : \E k \in 1 .. d : entries[k] = c
  BY <1>1, EntriesAre
<1>3. PICK S : todo \in Seq(S)
  BY DEF Typed, TodoTyped
<1>. DEFINE D == {Dump(p, FALSE) : p \in Paths}
            T == S \cup {Leave(st)} \cup D
<1>4. a \in Seq(D) /\ Len(a) = d /\ \A k \in 1 .. d : a[k] = Dump(entries[k], FALSE)
  <2>1. \A k \in 1 .. d : entries[k] \in Paths
    BY <1>2 DEF Below
  <2>2. a = [k \in 1 .. d |-> Dump(entries[k], FALSE)]
    BY <1>2
  <2>. HIDE DEF d, a
  <2>3. [k \in 1 .. d |-> Dump(entries[k], FALSE)] \in Seq(D)
    <3>1. d \in Nat
      BY <1>2
    <3>. QED
      BY <2>1, <3>1, DumpsTyped
  <2>4. /\ Len([k \in 1 .. d |-> Dump(entries[k], FALSE)]) = d
        /\ \A k \in 1 .. d : [j \in 1 .. d |-> Dump(entries[j], FALSE)][k] = Dump(entries[k], FALSE)
    BY <1>2
  <2>. HIDE DEF D
  <2>. QED
    BY <2>2, <2>3, <2>4
<1>5. S \subseteq T /\ D \subseteq T /\ Leave(st) \in T
  OBVIOUS
<1>. HIDE DEF D, T
<1>6. a \in Seq(T) /\ todo \in Seq(T)
  BY <1>3, <1>4, <1>5
<1>. HIDE DEF a, d, B
<1>7. LET s == a \o <<Leave(st)>> \o todo IN
      /\ Len(s) = Len(a) + 1 + Len(todo) /\ DOMAIN s = 1 .. Len(s)
      /\ \A k \in 1 .. Len(a) : s[k] = a[k]
      /\ s[Len(a) + 1] = Leave(st)
      /\ \A k \in 1 .. Len(todo) : s[Len(a) + 1 + k] = todo[k]
  BY <1>5, <1>6, BeforeAndAfter
<1>8. todo' = a \o <<Leave(st)>> \o todo
  BY DEF a
<1>9. Pushed(d, entries)
  BY <1>2, <1>4, <1>7, <1>8 DEF Pushed, B
<1>. QED
  BY <1>9

LEMMA TasksPushed ==
  ASSUME Typed, OnlyRemoved, Gone, Items, Covered, Beneath, Stays, disk' = disk,
         IsTold(st), st.kind = "dir", Looked, Extracted'[st.name] # Nothing,
         NEW d, NEW entries, Pushed(d, entries)
  PROVE  Items' /\ Covered' /\ Beneath'
<1>. DEFINE n == Len(todo)
<1>1. /\ n \in Nat /\ d \in Nat /\ DOMAIN todo = 1 .. n
      /\ DOMAIN todo' = 1 .. d + 1 + n /\ Len(todo') = d + 1 + n
      /\ \A k \in 1 .. d : todo'[k].do = "dump" /\ todo'[k].name = entries[k]
                           /\ entries[k] \in Below(st.name)
      /\ todo'[d + 1].do = "leave" /\ todo'[d + 1].st = st
      /\ \A k \in 1 .. n : todo'[d + 1 + k] = todo[k]
  <2>1. /\ \A k \in 1 .. d : todo'[k] = Dump(entries[k], FALSE) /\ entries[k] \in Below(st.name)
        /\ todo'[d + 1] = Leave(st)
    BY DEF Pushed
  <2>2. /\ \A x : Dump(x, FALSE).do = "dump" /\ Dump(x, FALSE).name = x
        /\ Leave(st).do = "leave" /\ Leave(st).st = st
    BY DEF Dump, Leave
  <2>3. /\ n \in Nat /\ DOMAIN todo = 1 .. n
    BY TodoIs
  <2>4. /\ d \in Nat /\ DOMAIN todo' = 1 .. d + 1 + n /\ Len(todo') = d + 1 + n
        /\ \A k \in 1 .. n : todo'[d + 1 + k] = todo[k]
    BY DEF Pushed
  <2>. QED
    BY <2>1, <2>2, <2>3, <2>4
<1>. HIDE DEF n
<1>2. \A k \in 1 .. d + 1 + n : \/ k \in 1 .. d \/ k = d + 1
                                \/ k - (d + 1) \in 1 .. n /\ k = d + 1 + (k - (d + 1))
  BY <1>1
<1>3. st.name \in Paths /\ st.name \in Wanted
  BY WantedIs DEF IsTold
<1>4. Items'
  <2>1. ASSUME NEW k \in 1 .. d PROVE AskedItem(todo'[k])
    <3>1. entries[k] \in Paths /\ IsPrefix(st.name, entries[k])
      BY <1>1, <1>3, EntryBelow DEF Below, IsEntryOf
    <3>2. Asked(st.name)
      BY <1>3, WantedIs
    <3>3. PICK a \in ToSet(given.names) : IsPrefix(a, st.name)
      BY <3>2 DEF Asked
    <3>4. a \in Paths
      BY <3>3, DumpAssumption DEF ToSet, Typed, DumpTyped
    <3>5. IsPrefix(a, entries[k])
      BY <1>3, <3>1, <3>3, <3>4, PrefixOrder
    <3>. QED
      BY <1>1, <3>3, <3>5 DEF AskedItem, Asked
  <2>2. AskedItem(todo'[d + 1])
    BY <1>1 DEF AskedItem
  <2>3. ASSUME NEW k \in 1 .. n PROVE AskedItem(todo'[d + 1 + k])
    <3>1. todo'[d + 1 + k] = todo[k] /\ k \in DOMAIN todo
      BY <1>1
    <3>. QED
      BY <3>1 DEF Items, AskedItem
  <2>4. \A k \in 1 .. d + 1 + n : AskedItem(todo'[k])
    BY <1>2, <2>1, <2>2, <2>3
  <2>5. \A k \in 1 .. d + 1 + n : AskedItem(todo[k])'
    BY <2>4 DEF AskedItem, Asked, IsTold, KindOf, Wanted, Stays
  <2>. QED
    BY <1>1, <2>5 DEF Items, AskedItem
<1>5. ASSUME NEW p \in Wanted, IsPrefix(st.name, p), p # st.name
      PROVE  Reached(p, d)'
  <2>1. p \in Paths
    BY WantedIs
  <2>2. PICK c \in Paths : IsEntryOf(c, st.name) /\ IsPrefix(c, p)
    BY <1>3, <1>5, <2>1, EntryToward
  <2>3. CASE Exists(c)
    <3>1. c \in Below(st.name)
      BY <2>2, <2>3 DEF Below, IsEntryOf
    <3>2. PICK k \in 1 .. d : entries[k] = c
      BY <3>1 DEF Pushed
    <3>3. Covers(todo'[k], p)
      BY <1>1, <2>2, <3>2 DEF Covers
    <3>. QED
      BY <3>3 DEF Reached, Covers
  <2>4. CASE ~Exists(c)
    <3>1. ~Exists(p)
      BY <2>1, <2>2, <2>4 DEF OnlyRemoved
    <3>2. Taken(p)
      BY <2>1, <3>1, WantedIs DEF Gone
    <3>3. Finished(p)
      BY <3>1, <3>2 DEF Finished, Cleared
    <3>. QED
      BY <2>1, <3>3 DEF Reached, Stays
  <2>. QED
    BY <2>3, <2>4
<1>6. ASSUME NEW p \in Wanted, NEW k \in 0 .. n, Reached(p, k)
      PROVE  Reached(p, d + 1 + k)'
  <2>1. CASE Finished(p)
    BY <2>1, WantedIs DEF Reached, Stays
  <2>2. CASE AtWork(p)
    <3>1. IsPrefix(st.name, p)
      BY <2>2 DEF AtWork, Looked, Closing
    <3>2. CASE p = st.name
      <4>1. Covers(todo'[d + 1], p) /\ d + 1 \in 1 .. d + 1 + k
        BY <1>1, <3>2 DEF Covers
      <4>. QED
        BY <4>1 DEF Reached, Covers
    <3>3. CASE p # st.name
      <4>1. Reached(p, d)'
        BY <1>5, <3>1, <3>3
      <4>2. \A j \in 1 .. d : j \in 1 .. d + 1 + k
        BY <1>1
      <4>. QED
        BY <4>1, <4>2 DEF Reached
    <3>. QED
      BY <3>2, <3>3
  <2>3. CASE \E j \in 1 .. k : Covers(todo[j], p)
    <3>1. PICK j \in 1 .. k : Covers(todo[j], p)
      BY <2>3
    <3>2. d + 1 + j \in 1 .. d + 1 + k /\ j \in 1 .. n
      BY <1>1
    <3>3. Covers(todo'[d + 1 + j], p)
      BY <1>1, <3>1, <3>2
    <3>. QED
      BY <3>2, <3>3 DEF Reached, Covers
  <2>. QED
    BY <1>6, <2>1, <2>2, <2>3 DEF Reached
<1>7. Covered'
  <2>1. n \in 0 .. n
    BY <1>1
  <2>. QED
    BY <1>1, <1>6, <2>1, WantedStay DEF Covered, Stays, n
<1>8. Beneath'
  <2>1. ASSUME NEW k \in 1 .. d + 1 + n, todo'[k].do = "leave"
        PROVE  /\ Extracted'[todo'[k].st.name] # Nothing
               /\ \A p \in Paths : Inside(p, todo'[k].st.name) => Reached(p, k - 1)'
    <3>1. CASE k \in 1 .. d
      BY <1>1, <2>1, <3>1
    <3>2. CASE k = d + 1
      <4>1. k - 1 = d
        BY <1>1, <3>2
      <4>2. \A p \in Paths : Inside(p, st.name) => Reached(p, d)'
        BY <1>5 DEF Inside
      <4>. QED
        BY <1>1, <3>2, <4>1, <4>2
    <3>3. CASE k - (d + 1) \in 1 .. n /\ k = d + 1 + (k - (d + 1))
      <4>. DEFINE j == k - (d + 1)
                  x == todo[j]
      <4>1. j \in DOMAIN todo /\ todo'[k] = x /\ j - 1 \in 0 .. n /\ k - 1 = d + 1 + (j - 1)
        BY <1>1, <3>3
      <4>. HIDE DEF j
      <4>2. x.st.name \in Paths
        BY <2>1, <4>1, TodoIs DEF IsItem, IsSeen
      <4>3. /\ Taken(x.st.name)
            /\ \A p \in Paths : Inside(p, x.st.name) => Reached(p, j - 1)
        BY <2>1, <4>1 DEF Beneath
      <4>4. \A p \in Paths : Inside(p, x.st.name) => Reached(p, d + 1 + (j - 1))'
        BY <1>6, <4>1, <4>3 DEF Inside
      <4>. QED
        BY <4>1, <4>2, <4>3, <4>4 DEF Stays, Taken
    <3>. QED
      BY <1>2, <3>1, <3>2, <3>3
  <2>. QED
    BY <1>1, <2>1, WantedStay DEF Beneath, Stays, Inside, Taken
<1>. QED
  BY <1>4, <1>7, <1>8

(* A step of such a run.                                                   *)
TidyStep == Typed /\ Unmoved /\ Good /\ Tidy /\ Tidy' /\ given' = given

LEMMA NothingMade ==
  ASSUME TidyStep, UNCHANGED written, disk' = disk \/ given.remove_files
  PROVE  /\ IsTree' /\ Right' /\ Named' /\ Tabled'
         /\ \A p \in Paths : Taken(p)' <=> Taken(p)
<1>. USE DEF TidyStep, Good
<1>1. link_table' = link_table /\ archive' = archive /\ given' = given
  BY DEF written
<1>2. Extracted' = Extracted
  BY <1>1 DEF Extracted
<1>3. \A p \in Paths : Taken(p)' <=> Taken(p)
  BY <1>2 DEF Taken
<1>4. IsTree'
  BY <1>2 DEF IsTree
<1>5. Right'
  BY <1>1, <1>2, <1>3, WantedStay DEF Right
<1>6. Named'
  BY <1>1, <1>2 DEF Named, Taken, KindOf
<1>7. Tabled'
  BY <1>1, <1>2, <1>3, WantedStay DEF Tabled, OneFile, Links
<1>. QED
  BY <1>3, <1>4, <1>5, <1>6, <1>7

(* What a step that removes and stores nothing leaves as it is.            *)
LEMMA AllStays ==
  ASSUME TidyStep, UNCHANGED <<files, written>>
  PROVE  OnlyRemoved' /\ Gone' /\ IsTree' /\ Right' /\ Named' /\ Tabled' /\ Stays
<1>1. disk' = disk /\ UNCHANGED written
  BY DEF files
<1>2. /\ IsTree' /\ Right' /\ Named' /\ Tabled'
      /\ \A p \in Paths : Taken(p)' <=> Taken(p)
  BY <1>1, NothingMade
<1>3. OnlyRemoved' /\ Gone' /\ \A p \in Paths : Finished(p) => Finished(p)'
  BY <1>2, FilesStay DEF TidyStep, Good
<1>. QED
  BY <1>2, <1>3 DEF Stays, TidyStep

LEMMA HandlerIs ==
  ASSUME NEW s, s.kind \in Kinds
  PROVE  LET h == Handler(s) IN
         /\ h \in {"link", "open", "special", "next"}
         /\ h = "link" => s.kind # "dir" /\ IsKnown(s)
         /\ h = "open" => s.kind \in {"dir", "file"}
         /\ h = "special" => s.kind \in {"symlink", "fifo"}
         /\ h = "next" <=> s.kind = "socket" /\ ~IsKnown(s)
BY DEF Handler, Kinds

LEMMA DumpFileGood ==
  ASSUME TidyStep, DumpFile
  PROVE  Good'
<1>. USE DEF TidyStep, Good
<1>. DEFINE x == Head(todo)
            s == Stat(x.name, x.top)
<1>1. /\ OnlyRemoved' /\ Gone' /\ IsTree' /\ Right' /\ Named' /\ Tabled' /\ Stays
  BY AllStays DEF DumpFile
<1>2. Exists(x.name) /\ st' = s /\ pc' = Handler(s)
  BY DEF DumpFile, Failure, Tidy, GoTo
<1>3. /\ pc = "next" /\ todo # <<>> /\ todo' = Tail(todo) /\ x.do = "dump"
      /\ link_table' = link_table
  BY DEF DumpFile, written
<1>4. x.name \in Paths
  BY NameOfNext
<1>5. /\ s.name = x.name /\ s.ino = disk[x.name] /\ disk[x.name] \in Inodes
      /\ s.data = inode[disk[x.name]].data /\ s.kind = inode[disk[x.name]].kind
      /\ s.kind \in Kinds
  BY <1>2, <1>4, StatSeen DEF Typed, IsSeen
<1>6. disk[x.name] = given.disk[x.name] /\ given.disk[x.name] # 0
  BY <1>2, <1>4 DEF Exists, OnlyRemoved
<1>7. s.kind = KindOf(x.name) /\ s.data = given.inode[given.disk[x.name]].data
  BY <1>5, <1>6 DEF OnlyRemoved, KindOf
<1>8. x = todo[1] /\ Asked(x.name)
  <2>1. x = todo[1] /\ 1 \in DOMAIN todo
    BY <1>3, TodoIs
  <2>. QED
    BY <1>3, <2>1 DEF Items
<1>. HIDE DEF s
<1>9. s.kind # "socket" => IsTold(s)
  BY <1>4, <1>5, <1>6, <1>7, <1>8, WantedIs DEF IsTold
<1>10. s.kind = "socket" => ~IsKnown(s)
  <2>1. ASSUME s.kind = "socket", s.ino \in DOMAIN link_table PROVE FALSE
    <3>1. given.inode[s.ino].kind \in {"file", "symlink"}
      BY <2>1 DEF Named, KindOf
    <3>. QED
      BY <1>5, <1>6, <1>7, <2>1, <3>1 DEF KindOf
  <2>. QED
    BY <2>1 DEF IsKnown
<1>11. /\ pc' \in {"link", "open", "special", "next"}
       /\ pc' = "link" => s.kind # "dir" /\ s.ino \in DOMAIN link_table
       /\ pc' = "open" => s.kind \in {"dir", "file"}
       /\ pc' = "special" => s.kind \in {"symlink", "fifo"}
       /\ pc' = "next" <=> s.kind = "socket"
  BY <1>2, <1>5, <1>10, HandlerIs DEF IsKnown
<1>12. Told'
  <2>1. Active' => IsTold(s)
    BY <1>9, <1>11 DEF Active
  <2>2. Active' => IsTold(st)'
    BY <1>2, <2>1, WantedStay DEF IsTold, KindOf
  <2>. QED
    BY <1>2, <1>3, <1>11, <2>2 DEF Told
<1>13. ASSUME NEW p \in Wanted, Covers(todo[1], p) PROVE AtWork(p)'
  <2>1. IsPrefix(x.name, p)
    BY <1>3, <1>8, <1>13 DEF Covers
  <2>2. s.kind # "socket"
    BY <1>4, <1>7, <2>1, WantedIs, TreeIs DEF Typed, DumpTyped
  <2>3. Looked' /\ st'.name = x.name
    BY <1>2, <1>5, <1>11, <2>2 DEF Looked
  <2>. QED
    BY <2>1, <2>3 DEF AtWork
<1>14. Items' /\ Covered' /\ Beneath'
  BY <1>1, <1>3, <1>13, TasksPopped
<1>15. Leaving'
  BY <1>11 DEF Leaving, Closing
<1>. QED
  BY <1>1, <1>12, <1>14, <1>15

LEMMA OpenGood ==
  ASSUME TidyStep, Open
  PROVE  Good'
<1>. USE DEF TidyStep, Good
<1>1. /\ OnlyRemoved' /\ Gone' /\ IsTree' /\ Right' /\ Named' /\ Tabled' /\ Stays
  BY AllStays DEF Open
<1>2. pc = "open" /\ pc' = "read" /\ st' = st /\ todo' = todo /\ link_table' = link_table
  BY DEF Open, GoTo, written
<1>3. Told'
  <2>1. IsTold(st)'
    BY <1>2, WantedStay DEF Told, Active, IsTold, KindOf
  <2>. QED
    BY <1>2, <2>1 DEF Told
<1>4. \A p \in Wanted : AtWork(p) => AtWork(p)'
  BY <1>2 DEF AtWork, Looked, Closing
<1>5. Items' /\ Covered' /\ Beneath'
  BY <1>1, <1>2, <1>4, TasksKept
<1>6. Leaving'
  BY <1>2 DEF Leaving, Closing
<1>. QED
  BY <1>1, <1>3, <1>5, <1>6

(* A file that is no directory is stored.                                  *)
LEMMA StoredGood ==
  ASSUME TidyStep, UNCHANGED files, todo' = todo, st' = st, Looked, st.kind # "dir",
         IsTree', Right', Named', Tabled', Made,
         pc' \in {"check", "stored", "next"},
         pc' = "stored" => given.remove_files, pc' = "next" => ~given.remove_files
  PROVE  Good'
<1>. USE DEF TidyStep, Good
<1>1. disk' = disk
  BY DEF files
<1>2. OnlyRemoved' /\ Gone' /\ Stays
  BY MadeTaken, FilesStay DEF Stays
<1>3. IsTold(st)
  BY DEF Told, Active, Looked
<1>4. Told'
  <2>1. IsTold(st)'
    BY <1>3, WantedStay DEF IsTold, KindOf
  <2>. QED
    BY <2>1 DEF Told
<1>5. ASSUME NEW p \in Wanted, AtWork(p) PROVE AtWork(p)' \/ Finished(p)'
  <2>1. IsPrefix(st.name, p)
    BY <1>5 DEF AtWork, Looked, Closing
  <2>2. p = st.name
    BY <1>3, <2>1, WantedIs, TreeIs DEF Typed, DumpTyped, IsTold
  <2>3. CASE pc' = "next"
    BY <2>2, <2>3 DEF Made, Finished, Taken
  <2>4. CASE pc' # "next"
    BY <2>2, <2>4 DEF AtWork, Closing
  <2>. QED
    BY <2>3, <2>4
<1>6. Items' /\ Covered' /\ Beneath'
  BY <1>2, <1>5, TasksKept
<1>7. Leaving'
  BY DEF Leaving, Made, Taken
<1>. QED
  BY <1>2, <1>4, <1>6, <1>7

(* What is known of a file that is stored.                                 *)
LEMMA ToBeStored ==
  ASSUME TidyStep, Looked
  PROVE  /\ IsTold(st) /\ st.name \in Paths /\ st.ino = given.disk[st.name]
         /\ st.kind = KindOf(st.name) /\ st.kind \in Kinds
         /\ st.nlink = Links(st.ino) /\ Links(st.ino) \in Nat
BY LinksCounted, WantedIs DEF TidyStep, Good, Told, Active, Looked, Typed, DumpTyped, IsSeen,
   IsTold, Unmoved

LEMMA CountedGood ==
  ASSUME TidyStep, UNCHANGED files, Looked, Made, ~Aborts, CountLinks,
         st.kind \in {"file", "symlink"}
  PROVE  Named' /\ Tabled'
<1>. USE DEF TidyStep, Good
<1>1. disk' = disk
  BY DEF files
<1>2. CASE st.nlink > 1
  <2>1. link_table' = Registered /\ st.ino \notin DOMAIN link_table
    BY <1>2 DEF CountLinks, Aborts
  <2>. QED
    BY <1>1, <1>2, <2>1, ToBeStored, TableMade
<1>3. CASE ~(st.nlink > 1)
  <2>1. link_table' = link_table
    BY <1>3 DEF CountLinks
  <2>. QED
    BY <1>1, <1>3, <2>1, ToBeStored, NoTableChange
<1>. QED
  BY <1>2, <1>3

LEMMA ReadFileGood ==
  ASSUME TidyStep, ReadFile
  PROVE  Good'
<1>. USE DEF TidyStep, Good
<1>1. /\ Looked /\ st.kind = "file" /\ UNCHANGED files /\ todo' = todo /\ st' = st
  BY DEF ReadFile, Looked
<1>2. /\ Store(Member("file", st, None, st.data, TRUE)) /\ CountLinks
      /\ ~Aborts /\ pc' = "check"
  BY ReadAsLooked DEF AfterDump, GoTo, Tidy
<1>3. IsTree' /\ Right' /\ Made
  BY <1>1, <1>2, ToBeStored, RightMade
<1>4. Named' /\ Tabled'
  BY <1>1, <1>2, <1>3, CountedGood
<1>. QED
  BY <1>1, <1>2, <1>3, <1>4, StoredGood

LEMMA DumpSpecialGood ==
  ASSUME TidyStep, DumpSpecial
  PROVE  Good'
<1>. USE DEF TidyStep, Good
<1>1. /\ Looked /\ UNCHANGED files /\ todo' = todo /\ st' = st
      /\ st.kind \in {"symlink", "fifo"}
  BY DEF DumpSpecial, Looked, Told
<1>2. Store(Member(st.kind, st, None, st.data, TRUE))
  BY DEF DumpSpecial
<1>3. /\ pc' = IF st.kind = "symlink" /\ Aborts THEN "aborted" ELSE AfterStored
      /\ pc' # "aborted"
  BY DEF DumpSpecial, GoTo, Tidy
<1>4. pc' = AfterStored /\ ~(st.kind = "symlink" /\ Aborts)
  BY <1>3
<1>5. IsTree' /\ Right' /\ Made
  BY <1>1, <1>2, ToBeStored, RightMade
<1>6. Named' /\ Tabled'
  <2>1. CASE st.kind = "symlink"
    <3>1. CountLinks
      BY <2>1 DEF DumpSpecial
    <3>. QED
      BY <1>1, <1>4, <1>5, <2>1, <3>1, CountedGood
  <2>2. CASE st.kind = "fifo"
    <3>1. link_table' = link_table /\ disk' = disk
      BY <1>1, <2>2 DEF DumpSpecial, files
    <3>. QED
      BY <1>1, <1>5, <2>2, <3>1, ToBeStored, NoTableChange
  <2>. QED
    BY <1>1, <2>1, <2>2
<1>. QED
  BY <1>1, <1>4, <1>5, <1>6, StoredGood DEF AfterStored

LEMMA DumpHardLinkGood ==
  ASSUME TidyStep, DumpHardLink
  PROVE  Good'
<1>. USE DEF TidyStep, Good
<1>1. /\ Looked /\ UNCHANGED files /\ todo' = todo /\ st' = st /\ pc' = AfterStored
      /\ st.kind # "dir" /\ st.ino \in DOMAIN link_table /\ link_table' = Counted
  BY DEF DumpHardLink, Looked, Told, GoTo
<1>2. ~CutOff
  BY DEF DumpHardLink, LongLink, Failure, Tidy
<1>3. Store(Member("link", st, LinkName, inode[st.ino].data, TRUE))
  BY <1>2 DEF DumpHardLink
<1>4. LinkName \in Paths /\ Taken(LinkName) /\ given.disk[LinkName] = st.ino
  BY <1>1 DEF Named, LinkName
<1>5. IsTree' /\ Right' /\ Made /\ Extracted'[st.name] = Extracted[LinkName]
  BY <1>1, <1>3, <1>4, ToBeStored, RightLinked
<1>6. Named' /\ Tabled'
  <2>1. disk' = disk
    BY <1>1 DEF files
  <2>. QED
    BY <1>1, <1>5, <2>1, ToBeStored, TableUsed
<1>. QED
  BY <1>1, <1>5, <1>6, StoredGood DEF AfterStored

LEMMA ReadDirectoryGood ==
  ASSUME TidyStep, ReadDirectory
  PROVE  Good'
<1>. USE DEF TidyStep, Good
<1>1. /\ Looked /\ UNCHANGED files /\ st' = st /\ pc' = "next" /\ st.kind = "dir"
      /\ link_table' = link_table /\ disk' = disk
  BY DEF ReadDirectory, Looked, GoTo, files
<1>2. ~HeaderFails(st)
  BY DEF ReadDirectory, Failure, Tidy
<1>3. /\ Store(Member(st.kind, st, None, st.data, TRUE))
      /\ \E entries \in SetToSeqs(Below(st.name)) :
           todo' = [k \in DOMAIN entries |-> Dump(entries[k], FALSE)] \o <<Leave(st)>> \o todo
  BY <1>2 DEF ReadDirectory
<1>4. IsTree' /\ Right' /\ Made
  BY <1>1, <1>3, ToBeStored, RightMade
<1>5. Named' /\ Tabled'
  BY <1>1, <1>4, ToBeStored, NoTableChange
<1>6. OnlyRemoved' /\ Gone' /\ Stays
  BY <1>1, <1>4, MadeTaken, FilesStay DEF Stays
<1>7. Items' /\ Covered' /\ Beneath'
  <2>1. PICK d, entries : Pushed(d, entries)
    BY <1>3, EntriesPushed
  <2>2. Extracted'[st.name] # Nothing
    BY <1>4 DEF Made
  <2>. QED
    BY <1>1, <1>6, <2>1, <2>2, ToBeStored, TasksPushed
<1>8. Told' /\ Leaving'
  BY <1>1 DEF Told, Active, Leaving, Closing
<1>. QED
  BY <1>4, <1>5, <1>6, <1>7, <1>8

LEMMA LeaveDirectoryGood ==
  ASSUME TidyStep, LeaveDirectory
  PROVE  Good'
<1>. USE DEF TidyStep, Good
<1>1. /\ OnlyRemoved' /\ Gone' /\ IsTree' /\ Right' /\ Named' /\ Tabled' /\ Stays
  BY AllStays DEF LeaveDirectory
<1>2. /\ pc = "next" /\ pc' = "check" /\ todo # <<>> /\ todo' = Tail(todo)
      /\ Head(todo).do = "leave" /\ st' = Head(todo).st
  BY DEF LeaveDirectory, GoTo
<1>. DEFINE x == todo[1]
<1>3. 1 \in DOMAIN todo /\ Head(todo) = x /\ x.do = "leave"
  BY <1>2, TodoIs
<1>4. st' = x.st /\ IsTold(x.st) /\ x.st.name \in Paths
  BY <1>2, <1>3, WantedIs DEF Items, IsTold
<1>5. Told'
  <2>1. IsTold(st)'
    BY <1>4, WantedStay DEF IsTold, KindOf
  <2>. QED
    BY <1>2, <2>1 DEF Told
<1>6. \A p \in Wanted : Covers(x, p) => AtWork(p)'
  BY <1>2, <1>3, <1>4 DEF Covers, AtWork, Closing
<1>7. Items' /\ Covered' /\ Beneath'
  BY <1>1, <1>2, <1>6, TasksPopped
<1>8. Leaving'
  <2>1. /\ Taken(x.st.name)
        /\ \A p \in Paths : Inside(p, x.st.name) => Reached(p, 0)
    BY <1>3 DEF Beneath
  <2>2. \A p : Reached(p, 0) => Finished(p)
    BY <1>2 DEF Reached, AtWork, Looked, Closing
  <2>3. /\ Extracted'[st'.name] # Nothing
        /\ \A p \in Paths : Inside(p, st'.name) => Finished(p)'
    BY <1>1, <1>4, <2>1, <2>2 DEF Stays, Taken
  <2>. QED
    BY <2>3, WantedStay DEF Leaving, Taken, Inside
<1>. QED
  BY <1>1, <1>5, <1>7, <1>8

LEMMA CheckUnchangedGood ==
  ASSUME TidyStep, CheckUnchanged
  PROVE  Good'
<1>. USE DEF TidyStep, Good
<1>1. /\ OnlyRemoved' /\ Gone' /\ IsTree' /\ Right' /\ Named' /\ Tabled' /\ Stays
  BY AllStays DEF CheckUnchanged
<1>2. pc = "check" /\ pc' = AfterStored /\ todo' = todo /\ st' = st /\ link_table' = link_table
  BY DEF CheckUnchanged, GoTo, written
<1>3. /\ pc' \in {"stored", "next"}
      /\ pc' = "stored" => given.remove_files
      /\ pc' = "next" => ~given.remove_files
  BY <1>2 DEF AfterStored
<1>4. IsTold(st) /\ st.name \in Paths
  BY <1>2, WantedIs DEF Told, Active, IsTold
<1>5. Told'
  <2>1. IsTold(st)'
    BY <1>2, <1>4, WantedStay DEF IsTold, KindOf
  <2>. QED
    BY <1>2, <1>3, <2>1 DEF Told
<1>6. Taken(st.name) /\ Extracted'[st.name] # Nothing
  BY <1>1, <1>2, <1>4 DEF Leaving, Closing, Stays, Taken
<1>7. ASSUME NEW p \in Wanted, AtWork(p) PROVE AtWork(p)' \/ Finished(p)'
  <2>1. p = st.name
    BY <1>2, <1>7 DEF AtWork, Looked
  <2>2. CASE pc' = "stored"
    BY <1>2, <2>1, <2>2 DEF AtWork, Closing
  <2>3. CASE pc' = "next"
    BY <1>3, <1>6, <2>1, <2>3 DEF Finished, Taken
  <2>. QED
    BY <1>3, <2>2, <2>3
<1>8. Items' /\ Covered' /\ Beneath'
  BY <1>1, <1>2, <1>7, TasksKept
<1>9. Leaving'
  <2>1. st.kind = "dir" => \A p \in Paths : Inside(p, st.name) => Finished(p)'
    BY <1>1, <1>2 DEF Leaving, Closing, Stays
  <2>. QED
    BY <1>2, <1>6, <2>1, WantedStay DEF Leaving, Taken, Inside
<1>. QED
  BY <1>1, <1>5, <1>8, <1>9

(* The file that was dumped is removed, or stays because it cannot be.     *)
LEMMA RemovedGood ==
  ASSUME TidyStep, pc = "stored", pc' = "next", todo' = todo, UNCHANGED written,
         OnlyRemoved', Gone',
         \A p \in Paths : Finished(p) \/ p = st.name => Finished(p)'
  PROVE  Good'
<1>. USE DEF TidyStep, Good
<1>1. IsTree' /\ Right' /\ Named' /\ Tabled' /\ \A p \in Paths : Taken(p)' <=> Taken(p)
  BY NothingMade DEF Told
<1>2. Stays
  BY <1>1 DEF Stays
<1>3. \A p \in Wanted : AtWork(p) => Finished(p)'
  BY WantedIs DEF AtWork, Looked
<1>4. Items' /\ Covered' /\ Beneath'
  BY <1>2, <1>3, TasksKept
<1>5. Told' /\ Leaving'
  BY DEF Told, Active, Leaving, Closing
<1>. QED
  BY <1>1, <1>4, <1>5

LEMMA ToBeRemoved ==
  ASSUME TidyStep, pc = "stored"
  PROVE  IsTold(st) /\ st.name \in Paths /\ Taken(st.name) /\ given.remove_files
BY WantedIs DEF TidyStep, Good, Told, Active, IsTold, Leaving, Closing

LEMMA RemoveFileGood ==
  ASSUME TidyStep, RemoveFile
  PROVE  Good'
<1>. USE DEF TidyStep, Good
<1>1. pc = "stored" /\ pc' = "next" /\ todo' = todo /\ UNCHANGED written /\ st.kind # "dir"
  BY DEF RemoveFile, GoTo
<1>2. Unlinked(st.name)
  BY DEF RemoveFile, Failure, Tidy
<1>3. /\ OnlyRemoved' /\ Gone'
      /\ \A p \in Paths : Finished(p) \/ p = st.name => Finished(p)'
  BY <1>1, <1>2, ToBeRemoved, FileRemoved DEF written
<1>. QED
  BY <1>1, <1>3, RemovedGood

LEMMA RemoveDirectoryGood ==
  ASSUME TidyStep, RemoveDirectory
  PROVE  Good'
<1>. USE DEF TidyStep, Good
<1>1. pc = "stored" /\ pc' = "next" /\ todo' = todo /\ UNCHANGED written /\ st.kind = "dir"
  BY DEF RemoveDirectory, GoTo
<1>2. CASE Below(st.name) = {}
  <2>1. Unlinked(st.name)
    BY <1>2 DEF RemoveDirectory
  <2>2. /\ OnlyRemoved' /\ Gone'
        /\ \A p \in Paths : Finished(p) \/ p = st.name => Finished(p)'
    BY <1>1, <1>2, <2>1, ToBeRemoved, FileRemoved DEF written
  <2>. QED
    BY <1>1, <2>2, RemovedGood
<1>3. CASE Below(st.name) # {}
  <2>1. UNCHANGED files
    BY <1>3 DEF RemoveDirectory
  <2>2. OnlyRemoved' /\ Gone' /\ Stays
    BY <1>1, <2>1, AllStays
  <2>3. PICK c \in Paths : IsEntryOf(c, st.name) /\ Exists(c)
    BY <1>3 DEF Below, IsEntryOf
  <2>4. IsPrefix(st.name, c) /\ c # st.name
    BY <2>3, ToBeRemoved, <1>1, EntryBelow
  <2>5. Asked(c)
    <3>1. Asked(st.name)
      BY <1>1, ToBeRemoved, WantedIs DEF IsTold
    <3>2. PICK a \in ToSet(given.names) : IsPrefix(a, st.name)
      BY <3>1 DEF Asked
    <3>3. a \in Paths
      BY <3>2, DumpAssumption DEF ToSet, Typed, DumpTyped
    <3>4. IsPrefix(a, c)
      BY <1>1, <2>4, <3>2, <3>3, PrefixOrder, ToBeRemoved
    <3>. QED
      BY <3>2, <3>4 DEF Asked
  <2>6. given.disk[c] # 0
    BY <2>3 DEF OnlyRemoved, Exists
  <2>7. \E q \in Paths : IsPrefix(st.name, q) /\ Exists(q) /\ KindOf(q) = "socket"
    <3>1. CASE KindOf(c) = "socket"
      BY <2>3, <2>4, <3>1
    <3>2. CASE KindOf(c) # "socket"
      <4>1. Inside(c, st.name)
        BY <2>4, <2>5, <2>6, <3>2, WantedIs DEF Inside
      <4>2. Cleared(c)
        BY <1>1, <4>1, ToBeRemoved DEF Leaving, Closing, Finished
      <4>3. PICK q \in Paths : IsPrefix(c, q) /\ Exists(q) /\ KindOf(q) = "socket"
        BY <2>3, <4>2 DEF Cleared
      <4>. QED
        BY <1>1, <2>4, <4>3, PrefixOrder, ToBeRemoved
    <3>. QED
      BY <3>1, <3>2
  <2>8. \A p \in Paths : Finished(p) \/ p = st.name => Finished(p)'
    <3>1. Finished(st.name)
      BY <1>1, <2>7, ToBeRemoved DEF Finished, Cleared
    <3>. QED
      BY <2>2, <3>1 DEF Stays
  <2>. QED
    BY <1>1, <2>2, <2>8, RemovedGood
<1>. QED
  BY <1>2, <1>3

LEMMA DoneGood ==
  ASSUME TidyStep, Done
  PROVE  Good'
<1>. USE DEF TidyStep, Good
<1>1. /\ OnlyRemoved' /\ Gone' /\ IsTree' /\ Right' /\ Named' /\ Tabled' /\ Stays
  BY AllStays DEF Done
<1>2. pc = "next" /\ pc' = "done" /\ todo' = todo /\ todo = <<>>
  BY DEF Done, GoTo
<1>3. \A p \in Wanted : ~AtWork(p)
  BY <1>2 DEF AtWork, Looked, Closing
<1>4. Items' /\ Covered' /\ Beneath'
  BY <1>1, <1>2, <1>3, TasksKept
<1>5. Told' /\ Leaving'
  BY <1>2 DEF Told, Active, Leaving, Closing
<1>. QED
  BY <1>1, <1>4, <1>5

LEMMA GoodNext ==
  ASSUME TidyStep, Tar
  PROVE  Good'
<1>1. ~(HardLinkFails \/ OpenError \/ ReadError \/ FileHeaderFails \/ CheckMissing \/ SpecialFails)
  BY DEF HardLinkFails, OpenError, ReadError, FileHeaderFails, CheckMissing, SpecialFails,
         Failure, TidyStep, Tidy
<1>2. ~OpenMissing
  <2>1. SUFFICES ASSUME OpenMissing PROVE FALSE
    OBVIOUS
  <2>2. Looked /\ ~Exists(st.name)
    BY <2>1 DEF OpenMissing, Looked
  <2>3. disk[st.name] = st.ino /\ st.ino \in Inodes
    BY <2>2 DEF TidyStep, Unmoved, Looked, Typed, DumpTyped, Active, IsSeen
  <2>. QED
    BY <2>2, <2>3, DumpAssumption DEF Exists
<1>. QED
  BY <1>1, <1>2, DumpFileGood, OpenGood, ReadFileGood, DumpSpecialGood, DumpHardLinkGood,
     ReadDirectoryGood, LeaveDirectoryGood, CheckUnchangedGood, RemoveFileGood,
     RemoveDirectoryGood, DoneGood DEF Tar

LEMMA CompletingNext ==
  ASSUME Typed, Completing, [Next]_vars
  PROVE  Completing'
<1>1. CASE UNCHANGED vars
  <2>1. /\ given' = given /\ disk' = disk /\ inode' = inode /\ pc' = pc /\ st' = st /\ fd' = fd
        /\ todo' = todo /\ link_table' = link_table /\ archive' = archive
        /\ exit_status' = exit_status /\ history' = history
    BY <1>1 DEF vars, files, control, written
  <2>2. (Quiet' <=> Quiet) /\ (Tidy' <=> Tidy)
    BY <2>1 DEF Quiet, Tidy
  <2>3. Unmoved => Unmoved'
    BY <2>1 DEF Unmoved, Looked, Opens, Links
  <2>4. ASSUME Tidy PROVE Good'
    <3>1. TidyStep /\ UNCHANGED <<files, written>>
      BY <2>1, <2>2, <2>4 DEF TidyStep, Completing, Tidy, files, written
    <3>2. /\ OnlyRemoved' /\ Gone' /\ IsTree' /\ Right' /\ Named' /\ Tabled' /\ Stays
      BY <3>1, AllStays
    <3>. USE DEF TidyStep, Good
    <3>3. Told'
      <4>1. IsTold(st) => IsTold(st)'
        BY <2>1, WantedStay DEF IsTold, KindOf
      <4>. QED
        BY <2>1, <3>1, <4>1 DEF Told, Active
    <3>4. \A p \in Wanted : AtWork(p) => AtWork(p)'
      BY <2>1 DEF AtWork, Looked, Closing
    <3>5. Items' /\ Covered' /\ Beneath'
      BY <2>1, <3>1, <3>2, <3>4, TasksKept
    <3>6. Leaving'
      <4>1. Closing => st.name \in Paths
        BY <3>1, WantedIs DEF Told, Active, Closing, IsTold
      <4>2. Closing => /\ Extracted'[st.name] # Nothing
                       /\ st.kind = "dir" => \A p \in Paths : Inside(p, st.name) => Finished(p)'
        BY <3>1, <3>2, <4>1 DEF Leaving, Stays, Taken
      <4>. QED
        BY <2>1, <4>2, WantedStay DEF Leaving, Closing, Taken, Inside
    <3>. QED
      BY <3>2, <3>3, <3>5, <3>6
  <2>. QED
    BY <2>2, <2>3, <2>4 DEF Completing
<1>2. CASE Next
  <2>1. Quiet' => Unmoved'
    BY <1>2, QuietBefore, UnmovedStays DEF Completing
  <2>2. Tidy' => Good'
    BY <1>2, TidyBefore, GoodNext DEF Completing, TidyStep
  <2>. QED
    BY <2>1, <2>2 DEF Completing
<1>. QED
  BY <1>1, <1>2

(* At the end everything that was asked for is in the archive.             *)
LEMMA CompleteAtEnd ==
  ASSUME Typed, Completing
  PROVE  CompleteWhenSuccessful
<1>1. SUFFICES ASSUME pc = "done", Quiet, exit_status # 2
      PROVE  /\ \A p \in Paths :
                  IF p \in Wanted
                  THEN LET i == given.inode[given.disk[p]] IN
                       /\ Extracted[p].kind = i.kind /\ Extracted[p].data = i.data
                       /\ Extracted[p].whole
                       /\ given.remove_files => ~Exists(p) \/ Below(p) # {}
                  ELSE Extracted[p] = Nothing
             /\ \A p, q \in Wanted :
                  /\ Extracted[p].id = Extracted[q].id => given.disk[p] = given.disk[q]
                  /\ (given.disk[p] = given.disk[q] /\ Extracted[p].kind # "fifo"
                        /\ ~given.remove_files)
                       => Extracted[p].id = Extracted[q].id
  BY DEF CompleteWhenSuccessful
<1>2. Good
  BY <1>1 DEF Completing, Tidy
<1>3. ASSUME NEW p \in Wanted PROVE Finished(p)
  <2>1. todo = <<>> /\ Len(todo) = 0
    BY <1>1, <1>2 DEF Good, Told
  <2>2. Reached(p, 0)
    BY <1>2, <2>1 DEF Good, Covered
  <2>. QED
    BY <1>1, <2>2 DEF Reached, AtWork, Looked, Closing
<1>4. ASSUME NEW p \in Wanted
      PROVE  /\ p \in Paths /\ Taken(p) /\ Extracted[p].kind = KindOf(p)
             /\ Extracted[p].data = given.inode[given.disk[p]].data /\ Extracted[p].whole
             /\ archive[Extracted[p].id].ino = given.disk[p]
             /\ given.disk[p] # 0 /\ KindOf(p) # "socket" /\ KindOf(p) \in Kinds
  <2>1. p \in Paths /\ Taken(p) /\ given.disk[p] # 0 /\ KindOf(p) # "socket"
    BY <1>3, WantedIs DEF Finished
  <2>2. KindOf(p) \in Kinds
    <3>1. given.disk[p] \in Inodes /\ given.inode \in [Inodes -> Inode]
      BY <2>1, DumpAssumption DEF Typed, DumpTyped
    <3>. QED
      BY <3>1 DEF KindOf, Inode
  <2>. QED
    BY <1>2, <2>1, <2>2 DEF Good, Right
<1>5. ASSUME NEW p \in Wanted, given.remove_files, Exists(p)
      PROVE  Below(p) # {}
  <2>1. PICK q \in Paths : IsPrefix(p, q) /\ Exists(q) /\ KindOf(q) = "socket"
    BY <1>3, <1>5 DEF Finished, Cleared
  <2>2. p \in Paths /\ p # q
    BY <1>4, <2>1
  <2>3. PICK c \in Paths : IsEntryOf(c, p) /\ IsPrefix(c, q)
    BY <2>1, <2>2, EntryToward
  <2>4. Exists(c)
    BY <1>2, <2>1, <2>3 DEF Good, OnlyRemoved
  <2>5. c \in Below(p)
    BY <2>3, <2>4 DEF Below, IsEntryOf
  <2>. QED
    BY <2>5
<1>6. \A p \in Paths : p \notin Wanted => Extracted[p] = Nothing
  BY <1>2 DEF Good, Right, Taken
<1>7. ASSUME NEW p \in Wanted, NEW q \in Wanted, given.disk[p] = given.disk[q],
             Extracted[p].kind # "fifo", ~given.remove_files
      PROVE  Extracted[p].id = Extracted[q].id
  <2>1. CASE p = q
    BY <2>1
  <2>2. CASE p # q
    <3>1. KindOf(p) \in {"file", "symlink"} /\ KindOf(q) = KindOf(p)
      <4>1. KindOf(p) # "dir"
        BY <1>4, <1>7, <2>2, TreeIs DEF Typed, DumpTyped
      <4>. QED
        BY <1>4, <1>7, <4>1 DEF Kinds, KindOf
    <3>2. Links(given.disk[p]) > 1
      <4>. DEFINE i == given.disk[p]
                  L == {x \in Paths : disk[x] = i}
      <4>1. p \in L /\ q \in L
        BY <1>2, <1>4, <1>7 DEF Good, OnlyRemoved
      <4>2. IsFiniteSet(L) /\ Links(i) = Cardinality(L)
        BY LinksCounted DEF Links
      <4>. HIDE DEF L, i
      <4>3. {p, q} \subseteq L /\ IsFiniteSet({p, q}) /\ Cardinality({p, q}) = 2
        <5>1. IsFiniteSet({p}) /\ Cardinality({p}) = 1
          BY FS_Singleton
        <5>2. q \notin {p} /\ {p} \cup {q} = {p, q}
          BY <2>2
        <5>3. IsFiniteSet({p} \cup {q}) /\ Cardinality({p} \cup {q}) = 1 + 1
          BY <5>1, <5>2, FS_AddElement
        <5>. QED
          BY <4>1, <5>2, <5>3
      <4>4. Cardinality({p, q}) <= Cardinality(L)
        BY <4>2, <4>3, FS_Subset
      <4>5. Cardinality(L) \in Nat
        BY <4>2, FS_CardinalityType
      <4>. QED
        BY <4>2, <4>3, <4>4, <4>5 DEF i
    <3>3. OneFile(p) /\ OneFile(q)
      BY <1>2, <1>4, <1>7, <3>1, <3>2 DEF Good, Tabled
    <3>. QED
      BY <1>7, <3>3 DEF OneFile
  <2>. QED
    BY <2>1, <2>2
<1>8. \A p \in Paths :
        IF p \in Wanted
        THEN LET i == given.inode[given.disk[p]] IN
             /\ Extracted[p].kind = i.kind /\ Extracted[p].data = i.data /\ Extracted[p].whole
             /\ given.remove_files => ~Exists(p) \/ Below(p) # {}
        ELSE Extracted[p] = Nothing
  BY <1>4, <1>5, <1>6 DEF KindOf
<1>9. \A p, q \in Wanted : Extracted[p].id = Extracted[q].id => given.disk[p] = given.disk[q]
  BY <1>4
<1>. QED
  BY <1>7, <1>8, <1>9

(* If nobody changed a file and `tar --create' reported no error, its      *)
(* archive gives back exactly the files it was asked for, with their       *)
(* contents and the links between them, and with --remove-files they are   *)
(* gone: for every tree of files, every list of names, with one given      *)
(* twice or inside another, and every format.  (create.c, dump_file0,      *)
(* dump_dir0, dump_hard_link, file_count_links.)                           *)
THEOREM CompleteIfSuccessful == Spec => []CompleteWhenSuccessful
<1>1. Init => Typed /\ Completing
  <2>1. SUFFICES ASSUME Init
                 PROVE  Typed /\ Completing
    OBVIOUS
  <2>2. Typed /\ Good
    BY <2>1, InitTyped, GoodAtStart
  <2>3. Unmoved
    BY <2>1 DEF Init, Unmoved, Looked
  <2>. QED
    BY <2>2, <2>3 DEF Completing
<1>2. Typed /\ Completing /\ [Next]_vars => Typed' /\ Completing'
  BY TypedNext, CompletingNext
<1>3. Typed /\ Completing => CompleteWhenSuccessful
  BY CompleteAtEnd
<1>. QED
  BY <1>1, <1>2, <1>3, PTL DEF Spec
===============================================================================
