---------------------------- MODULE MCMultiVolume ----------------------------
(* Two members, on one volume or on several, with a label or without one.  *)
EXTENDS MultiVolume

CONSTANTS f1, f2

MCNames == {f1, f2}
MCFiles == <<f1, f2>>

Setting(multi, label, sizes, min, partial, short, factors, errors) ==
  [multi_volume |-> multi, volume_label |-> label, sizes |-> sizes,
   min_records |-> min, partial |-> partial, short_counts |-> short,
   reader_factors |-> factors, mistakes |-> errors]

(* Volumes of at least two records, all written whole; the operator may    *)
(* mount wrong ones.                                                       *)
WholeVolumes ==
  {Setting(TRUE, label, {0, 1, 4, 6, 10}, 2, FALSE, {}, {1, 3}, 2) : label \in BOOLEAN}

(* Volumes as small as can be.                                             *)
TinyVolumes == {Setting(TRUE, TRUE, {1, 4, 7}, 0, TRUE, {}, {3}, 0)}

(* Files that shrink while they are read.                                  *)
Shrinking ==
  {Setting(multi, label, {1, 5}, 0, TRUE, {1, 2}, {3}, 0) : multi, label \in BOOLEAN}

MCSettings == WholeVolumes \cup TinyVolumes \cup Shrinking
==============================================================================
