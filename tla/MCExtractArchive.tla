--------------------------- MODULE MCExtractArchive ---------------------------
(* A directory with a subdirectory, a file and a link; another directory.  *)
EXTENDS ExtractArchiveProps, SequencesExt

D == <<"d">>
DF == <<"d", "f">>
DL == <<"d", "l">>
DS == <<"d", "s">>
DSL == <<"d", "s", "l">>
E == <<"e">>
EH == <<"e", "h">>

MCNames == {D, DF, DL, DS, DSL, E, EH}
MCBackupName ==
  [p \in MCNames |->
     CASE p = D -> <<"d~">> [] p = DF -> <<"d", "f~">> [] p = DL -> <<"d", "l~">>
       [] p = DS -> <<"d", "s~">> [] p = DSL -> <<"d", "s", "l~">> [] p = E -> <<"e~">>
       [] p = EH -> <<"e", "h~">>]
MCPaths == MCNames \cup {MCBackupName[p] : p \in MCNames}

M(type, path, target, unsafe, writable) ==
  [type |-> type, path |-> path, target |-> target, unsafe |-> unsafe,
   writable |-> writable]

Dir(p, w) == M("dir", p, p, FALSE, w)
File(p) == M("file", p, p, FALSE, TRUE)
Symlink(p, unsafe) == M("symlink", p, DF, unsafe, TRUE)
Link(p, t, unsafe) == M("link", p, t, unsafe, TRUE)

(* Archives of up to two members, in any order.                            *)
Members == {Dir(p, w) : p \in {D, DS, E}, w \in BOOLEAN} \cup {File(DF), File(DS)}
             \cup {Symlink(DL, FALSE), Symlink(DL, TRUE), Symlink(DSL, TRUE)}
             \cup {Link(EH, DF, FALSE), Link(EH, DL, FALSE), Link(EH, DL, TRUE)}
             \cup {Link(DL, DF, TRUE)}
Short == {<<>>} \cup {<<m>> : m \in Members} \cup (Members \X Members)

(* Larger ones: directories first or, backwards, last.                     *)
Places == <<{<<>>, <<Dir(D, TRUE)>>, <<Dir(D, FALSE)>>},
             {<<>>, <<Dir(DS, FALSE)>>, <<File(DS)>>},
             {<<>>, <<Symlink(DSL, TRUE)>>},
             {<<>>, <<Symlink(DL, FALSE)>>, <<Symlink(DL, TRUE)>>, <<Link(DL, DF, TRUE)>>},
             {<<>>, <<Dir(E, TRUE)>>, <<Dir(E, FALSE)>>},
             {<<>>, <<Link(EH, DF, FALSE)>>, <<Link(EH, DL, FALSE)>>, <<Link(EH, DL, TRUE)>>},
             {<<>>, <<File(DF)>>, <<Dir(D, TRUE)>>}>>
Walks == LET Extend(walks, choice) == {w \o m : w \in walks, m \in choice}
         IN FoldLeft(Extend, {<<>>}, Places)

MCArchives == Short \cup Walks \cup {Reverse(w) : w \in Walks}

Old(kind, ino, writable) ==
  [kind |-> kind, ino |-> ino, from |-> 0, writable |-> writable, mtime |-> 0]

EmptyTree == [p \in MCPaths |-> None]
OldTree(w) == [EmptyTree EXCEPT ![D] = Old("dir", 1, w), ![DF] = Old("file", 2, TRUE),
                                ![DS] = Old("dir", 3, TRUE)]
FileTree(w) == [EmptyTree EXCEPT ![D] = Old("dir", 1, w), ![DS] = Old("file", 2, TRUE),
                                 ![E] = Old("file", 3, TRUE)]
MCTrees == {EmptyTree, OldTree(TRUE), FileTree(FALSE)}

Settings(old_files, p, d, b) ==
  [old_files |-> old_files, same_permissions |-> p, delay_directory_restore |-> d,
   backup |-> b]
MCOptions == {Settings(f, FALSE, FALSE, FALSE) : f \in OldFiles}
               \cup {Settings("DEFAULT", TRUE, d, FALSE) : d \in BOOLEAN}
               \cup {Settings(f, FALSE, FALSE, TRUE) : f \in {"DEFAULT", "KEEP"}}
==============================================================================
