---------------------------- MODULE DumpFilesProps ----------------------------
(* What `tar --create' promises of the files it is given, and of those it  *)
(* removes.                                                                *)
EXTENDS DumpFiles

-----------------------------------------------------------------------------
(* The files that extracting the members in order makes: which contents,   *)
(* and the member that made them, which is the same for hard links.        *)
Nothing == [kind |-> "none", data |-> 0, whole |-> FALSE, id |-> 0]
Extract(tree, m, k) ==
  IF m.type # "link"
  THEN [tree EXCEPT ![m.name] = [kind |-> m.type, data |-> m.data, whole |-> m.whole, id |-> k]]
  ELSE IF m.link # None THEN [tree EXCEPT ![m.name] = tree[m.link]] ELSE tree
Trees(s) ==
  LET tree[k \in 0 .. Len(s)] ==
        IF k = 0 THEN [p \in Paths |-> Nothing] ELSE Extract(tree[k - 1], s[k], k)
  IN tree
Extracted == Trees(archive)[Len(archive)]

(* The files tar was asked to dump: sockets are left out with a warning.   *)
Wanted ==
  {p \in Paths : /\ given.disk[p] # 0
                 /\ given.inode[given.disk[p]].kind # "socket"
                 /\ \E n \in ToSet(given.names) : IsPrefix(n, p)}

Quiet == history.changes = 0

(* If nobody changed a file and no error was reported, extracting the      *)
(* archive gives exactly the files that were asked for, with their         *)
(* contents and, unless the files were removed while they were dumped, the *)
(* hard links between them (create.c, dump_hard_link: "a hard link to      *)
(* another file in the archive"); and the files that were to be removed    *)
(* are gone.                                                               *)
CompleteWhenSuccessful ==
  (pc = "done" /\ Quiet /\ exit_status # 2) =>
    /\ \A p \in Paths :
         IF p \in Wanted
         THEN LET i == given.inode[given.disk[p]] IN
              /\ Extracted[p].kind = i.kind /\ Extracted[p].data = i.data /\ Extracted[p].whole
              /\ given.remove_files => ~Exists(p) \/ Below(p) # {}
         ELSE Extracted[p] = Nothing
    /\ \A p, q \in Wanted :
         /\ Extracted[p].id = Extracted[q].id => given.disk[p] = given.disk[q]
         /\ (given.disk[p] = given.disk[q] /\ Extracted[p].kind # "fifo" /\ ~given.remove_files)
              => Extracted[p].id = Extracted[q].id

(* --remove-files never destroys the last copy of a file: whenever it      *)
(* removes the last name of an inode, a member of the archive holds its    *)
(* contents, whole, or tar has warned that this file changed as it was     *)
(* read; only what others do after tar has looked at this file for the     *)
(* last time is lost.  It holds through errors, through the dump of other  *)
(* links that failed, and for numbers of inodes that are used again.       *)
NothingLost ==
  \A l \in history.lost :
    \/ \E k \in DOMAIN archive :
         archive[k].type # "link" /\ archive[k].data = l.data /\ archive[k].whole
    \/ l.name \in history.warned
    \/ l.late

(* "For each dumped file, check if all its links were dumped.  Emit        *)
(* warnings if it is not so" (check_links): the files warned about are     *)
(* those with a name that has no member, unless names are given twice, or  *)
(* the files removed, so that their number of links changes.               *)
Once == \A j, k \in DOMAIN archive : archive[j].name = archive[k].name => j = k
HasMember(p) == \E k \in DOMAIN archive : archive[k].name = p
WarnsRightly ==
  (pc = "done" /\ Quiet /\ exit_status # 2 /\ Once /\ ~given.remove_files) =>
    \A i \in DOMAIN link_table :
      (link_table[i].name \in MissingLinks) <=> \E p \in Paths : disk[p] = i /\ ~HasMember(p)

(* The assertion of file_count_links, that the table does not hold the     *)
(* file yet.                                                               *)
NeverAborts == pc # "aborted"
==============================================================================
