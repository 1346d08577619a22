----------------------------- MODULE MCPaxHeaders -----------------------------
(* Two members under many options, and two or three on several volumes.    *)
EXTENDS PaxHeadersProps

MCOversized == [k \in Keywords |-> CASE k = "path" -> {11, 111} [] k = "uid" -> {9}
                                     [] k = "size" -> {3} [] OTHER -> {}]

MCFile(path, size, uid) == [path |-> path, size |-> size, uid |-> uid, atime |-> 20 + path]
Pair(keyword, value) == [keyword |-> keyword, value |-> value]
MCOptions(globals, overrides, deletions) ==
  [global : globals, override : overrides, deleted : deletions]
None == [global |-> <<>>, override |-> <<>>, deleted |-> {}]

(* All options, for pairs of members of which some need records.           *)
Pairs ==
  {<<MCFile(11, 1, 9), MCFile(2, 1, 1)>>, <<MCFile(1, 3, 1), MCFile(2, 1, 9)>>,
   <<MCFile(1, 0, 1), MCFile(11, 3, 1)>>}
CreateOptions ==
  MCOptions({<<>>, <<Pair("uid", 5), Pair("uid", 6)>>, <<Pair("path", 4)>>},
            {<<>>, <<Pair("uid", 7), Pair("atime", 8), Pair("uid", 3)>>, <<Pair("path", 5)>>},
            {{}, {"atime"}, {"size"}, {"uid", "atime"}, {"path"}})
ReadOptions ==
  MCOptions({<<>>, <<Pair("uid", 15), Pair("uid", 16)>>},
            {<<>>, <<Pair("uid", 17), Pair("atime", 18), Pair("uid", 13)>>, <<Pair("path", 14)>>, <<Pair("size", 40)>>},
            {{}, {"atime"}, {"size"}, {"uid"}, {"path"}})

(* Volumes that end after two to four records.                            *)
Sizes == {0, 1, 4, 5, 6, 7, 9, 12, 15, 17}
Many ==
  {<<MCFile(p, a, 1), MCFile(q, b, u), MCFile(3, c, 1)>> :
     p \in {1, 11}, q \in {2, 11}, a \in Sizes, b \in Sizes, c \in {7}, u \in {1, 9}}

MCSettings ==
  [files : Pairs, create : CreateOptions, read : ReadOptions, asked : {{}},
   label : {FALSE}, ends : {<<>>}]
  \cup
  [files : Pairs, create : {None}, read : {None}, asked : {{1}, {2}, {1, 11}},
   label : BOOLEAN, ends : {<<>>}]
  \cup
  [files : Many, create : MCOptions({<<>>}, {<<>>, <<Pair("uid", 7)>>}, {{}, {"atime"}}),
   read : {None}, asked : {{}}, label : BOOLEAN, ends : {<<2, 4>>, <<3, 4>>}]
==============================================================================
