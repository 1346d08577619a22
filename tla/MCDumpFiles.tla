------------------------------ MODULE MCDumpFiles ------------------------------
(* Three files and a directory with one or two more, for TLC.              *)
EXTENDS DumpFilesProps

A == <<"a">>
B == <<"b">>
C == <<"c">>
D == <<"d">>
DX == <<"d", "x">>
MCPaths == {A, B, C, D, DX}

(* Inode 1 has several names, 2 one or none, and 3 is the directory.       *)
Links1 == {{A, B}, {A, B, C}, {A, DX}, {B, C, DX}}
Disks ==
  {[p \in MCPaths |-> IF p = D THEN 3 ELSE IF p \in links THEN 1 ELSE IF p = more THEN 2 ELSE 0] :
     links \in Links1, more \in {A, B, C, DX, None}}

File(kind, data, old, blank) ==
  [kind |-> kind, data |-> data, old |-> old, blank |-> blank, changes |-> 0]
Nodes ==
  {<<first, File("file", 2, FALSE, FALSE), File("dir", 3, old, FALSE)>> :
     first \in {File("file", 1, FALSE, FALSE), File("file", 1, TRUE, FALSE),
                File("file", 1, FALSE, TRUE), File("symlink", 1, FALSE, FALSE),
                File("symlink", 1, TRUE, FALSE), File("fifo", 1, FALSE, FALSE),
                File("socket", 1, FALSE, FALSE)},
     old \in BOOLEAN}

Lists == {<<A, B>>, <<B, A, C>>, <<D, A>>, <<A, D, B>>, <<A, A>>, <<A, B, A>>}

Long(p, length) == [q \in MCPaths |-> IF q = p THEN length ELSE "short"]

(* All kinds of files and names, which nobody changes; and files that   *)
(* others change, remove, create and link.                                 *)
MCSettings ==
  [names : Lists, format : Formats, remove_files : BOOLEAN,
   length : {Long(p, l) : p \in {A, B, D}, l \in Lengths}, disk : Disks, inode : Nodes,
   changes : {0}]
  \cup
  [names : Lists, format : {"gnu"}, remove_files : {TRUE},
   length : {Long(A, "short")},
   disk : Disks,
   inode : {<<first, File("file", 2, FALSE, FALSE), File("dir", 3, FALSE, FALSE)>> :
              first \in {File("file", 1, FALSE, FALSE), File("file", 1, FALSE, TRUE),
                         File("symlink", 1, FALSE, FALSE)}},
   changes : {2}]
==============================================================================
