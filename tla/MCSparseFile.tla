---------------------------- MODULE MCSparseFile ----------------------------
(* Files of holes and data in turn, for TLC.                               *)
EXTENDS SparseFileProps

(* A run of holes (0) or of data (1), and the runs of the given lengths.   *)
Run(kind, n) == [k \in 1 .. n |-> kind * (((k - 1) % BLOCKSIZE) + 1)]
Runs(first, lengths) == FlattenSeq([k \in DOMAIN lengths |-> Run((first + k) % 2, lengths[k])])

MCContents ==
  {Runs(first, lengths) : first \in {0, 1},
     lengths \in {<<1>>, <<4>>, <<4, 3>>, <<8, 4>>, <<4, 4, 1>>, <<32, 2>>, <<4, 8, 4, 4, 4>>, <<33>>}}
==============================================================================
