--------------------------- MODULE PaxHeadersProps ---------------------------
(* What keyword options promise of the members of a posix archive, and     *)
(* what becomes of the members when it has several volumes.                *)
EXTENDS PaxHeaders

-----------------------------------------------------------------------------
(* What a reader should be told of a member, from the file, the options of *)
(* the run that dumped it and those of the run that reads it: an override  *)
(* of the reader, then of the writer, then the file's own value if it has  *)
(* a record, then values for the whole archive.                            *)
OfKeyword(pairs, k) == SelectSeq(pairs, LAMBDA p : p.keyword = k)
Has(pairs, k) == OfKeyword(pairs, k) # <<>>
First(pairs, k) == Head(OfKeyword(pairs, k)).value
Final(pairs, k) == Last(OfKeyword(pairs, k)).value

HasRecord(file, k) == ~Fits(k, file[k]) /\ ~Passed(given.create, k)

(* Overrides are written with other records: of the file, a label, or for  *)
(* the whole archive.                                                      *)
HasHeader(i) ==
  \/ \E k \in Keywords : HasRecord(given.files[i], k)
  \/ i = 1 /\ given.label /\ given.create.global = <<>>

BehindGlobal(i) ==
  LET blocks == FlattenSeq(volumes) IN
  \E g, n \in DOMAIN blocks :
    g < n /\ blocks[g].kind = "g" /\ blocks[n].kind = "file" /\ blocks[n].of = i

Promised(i, k) ==
  LET file == given.files[i]
      create == given.create
      read == given.read IN
  IF Has(read.override, k) THEN First(read.override, k)
  ELSE IF Has(create.override, k) /\ HasHeader(i) /\ k \notin read.deleted
  THEN First(create.override, k)
  ELSE IF HasRecord(file, k) /\ k \notin read.deleted THEN file[k]
  ELSE IF Has(create.global, k) THEN Final(create.global, k)
  ELSE IF Has(create.override, k) /\ BehindGlobal(i) THEN Final(create.override, k)
  ELSE IF Has(read.global, k) THEN First(read.global, k)
  ELSE Field(k, file[k])

Member(i) ==
  LET values == [k \in Keywords |-> Promised(i, k)] IN
  [of |-> i, values |-> values,
   data |-> [n \in 1 .. values.size |-> DataBlock(n, i)]]

(* A member is asked for by the name that is in its ustar header.          *)
IsAsked(i) == given.asked = {} \/ Field("path", given.files[i].path) \in given.asked

Delivered(i) == SelectSeq(found, LAMBDA m : m.of = i)

(* When the archive has been read, every member that was asked for has     *)
(* been delivered once, with the values its file, the archive and the      *)
(* options call for and with its own data in their order, and no other     *)
(* member: records of one member, volume or global header never reach      *)
(* another.  That also holds next to members whose records were lost       *)
(* when a volume ended before they were written (xheader.c: xheader_store, *)
(* xheader_decode, run_override_list).                                     *)
DeliveredAsPromised ==
  rpc = "done" =>
    \A i \in DOMAIN given.files \ torn :
      Delivered(i) = IF IsAsked(i) THEN <<Member(i)>> ELSE <<>>

(* The volumes fit together: the reader refuses none and misses no header, *)
(* wherever they end, unless one ended where records of a member were      *)
(* stored or written (buffer.c: "this volume is out of sequence" and the   *)
(* like), or the size of a member is known from no header, or behind a     *)
(* label the last volume holds no more than the end of the archive.        *)
SizeLost ==
  \/ "size" \in Overridden(given.read)
  \/ /\ "size" \in given.create.deleted \cup given.read.deleted
     /\ \E i \in DOMAIN given.files : ~Fits("size", given.files[i].size)
HoldsOnlyTheEnd ==
  \E v \in DOMAIN volumes :
    volumes[v] # <<>> /\ Head(volumes[v]).kind = "g"
      /\ \A n \in DOMAIN volumes[v] : volumes[v][n].kind \in {"g", "records", "zero"}
VolumesFit ==
  rpc \in {"done", "refused", "fatal"} /\ torn = {} /\ ~HoldsOnlyTheEnd /\ ~SizeLost =>
    rpc = "done" /\ ~failed
==============================================================================
