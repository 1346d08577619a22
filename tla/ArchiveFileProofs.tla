--------------------------- MODULE ArchiveFileProofs ---------------------------
(***************************************************************************)
(* Lemmas about the operators of ArchiveFile.                              *)
(***************************************************************************)
EXTENDS ArchiveFile, SequenceTheorems, TLAPS

(* What the record buffer may hold besides blocks of the archive.          *)
HasBlanks(B) == B \subseteq Block /\ Junk \in B /\ Zero \in B

(* Block counts: Lesser and Greater are the minimum and the maximum.       *)
LEMMA Extremes ==
  ASSUME NEW i \in Int, NEW j \in Int
  PROVE  /\ Lesser(i, j) \in Int /\ Lesser(i, j) <= i /\ Lesser(i, j) <= j
         /\ Lesser(i, j) \in {i, j}
         /\ Greater(i, j) \in Int /\ Greater(i, j) >= i /\ Greater(i, j) >= j
         /\ Greater(i, j) \in {i, j}
BY DEF Lesser, Greater

(* A read returns no more than a record, nor more than the file has.       *)
LEMMA ReadableRange ==
  ASSUME NEW B, file \in Seq(B), fpos \in Nat
  PROVE  /\ Readable \in 0 .. BF
         /\ Readable > 0 => fpos + Readable <= Len(file)
<1>1. Len(file) \in Nat /\ BF \in Nat
  BY LenProperties, ArchiveFileAssumption
<1>. QED
  BY <1>1 DEF Readable, Lesser, Greater

(* The record read is made of blocks of the file and of older ones.        *)
LEMMA ReadRecordType ==
  ASSUME NEW B, file \in Seq(B), fpos \in Nat, record \in [Slots -> B],
         records_read \in Nat, ReadRecord
  PROVE  /\ record' \in [Slots -> B]
         /\ fpos' \in Nat /\ records_read' \in Nat
         /\ cur' = 0
<1>1. Readable \in 0 .. BF /\ (Readable > 0 => fpos + Readable <= Len(file))
  BY ReadableRange
<1>2. ASSUME NEW i \in Slots, i < Readable
      PROVE  file[fpos + i + 1] \in B
  <2>1. fpos + i + 1 \in 1 .. Len(file)
    BY <1>1, <1>2, LenProperties, ArchiveFileAssumption DEF Slots
  <2>. QED
    BY <2>1, ElementOfSeq
<1>3. record' \in [Slots -> B]
  BY <1>2 DEF ReadRecord
<1>. QED
  BY <1>1, <1>3 DEF ReadRecord

(* A record buffer written out is a sequence of BF blocks.                 *)
LEMMA RecordBlocksType ==
  ASSUME NEW B, NEW r \in [Slots -> B]
  PROVE  /\ RecordBlocks(r) \in Seq(B)
         /\ Len(RecordBlocks(r)) = BF
         /\ \A i \in 1 .. BF : RecordBlocks(r)[i] = r[i - 1]
<1>1. BF \in Nat
  BY ArchiveFileAssumption
<1>2. \A i \in 1 .. BF : i - 1 \in Slots
  BY <1>1 DEF Slots
<1>. QED
  BY <1>1, <1>2 DEF RecordBlocks

(* Writing over a file changes just the blocks written.                    *)
LEMMA OverwrittenType ==
  ASSUME NEW B, Zero \in B, NEW f \in Seq(B), NEW w \in Seq(B), NEW p \in Nat
  PROVE  /\ Overwritten(f, p, w) \in Seq(B)
         /\ Len(Overwritten(f, p, w)) = Greater(Len(f), p + Len(w))
         /\ \A i \in 1 .. Len(f) :
              i <= p => i \in DOMAIN Overwritten(f, p, w) /\ Overwritten(f, p, w)[i] = f[i]
         /\ \A i \in 1 .. Len(w) :
              p + i \in DOMAIN Overwritten(f, p, w) /\ Overwritten(f, p, w)[p + i] = w[i]
<1> DEFINE n == Greater(Len(f), p + Len(w))
           e(i) == IF i > p /\ i <= p + Len(w) THEN w[i - p]
                   ELSE IF i <= Len(f) THEN f[i] ELSE Zero
<1>1. Len(f) \in Nat /\ Len(w) \in Nat
  BY LenProperties
<1>2. n \in Nat /\ n >= Len(f) /\ n >= p + Len(w)
  BY <1>1 DEF Greater
<1>3. ASSUME NEW i \in 1 .. n PROVE e(i) \in B
  <2>1. CASE i > p /\ i <= p + Len(w)
    <3>1. i - p \in 1 .. Len(w)
      BY <1>1, <2>1
    <3>. QED
      BY <2>1, <3>1, ElementOfSeq
  <2>2. CASE ~(i > p /\ i <= p + Len(w)) /\ i <= Len(f)
    <3>1. i \in 1 .. Len(f)
      BY <1>1, <2>2
    <3>. QED
      BY <2>2, <3>1, ElementOfSeq
  <2>3. CASE ~(i > p /\ i <= p + Len(w)) /\ ~(i <= Len(f))
    BY <2>3
  <2>. QED
    BY <2>1, <2>2, <2>3
<1>4. Overwritten(f, p, w) = [i \in 1 .. n |-> e(i)]
  BY DEF Overwritten
<1>5. Overwritten(f, p, w) \in Seq(B) /\ Len(Overwritten(f, p, w)) = n
  <2>. HIDE DEF e, n
  <2>. QED
    BY <1>2, <1>3, <1>4
<1>6. DOMAIN Overwritten(f, p, w) = 1 .. n
  BY <1>4
<1>7. \A i \in 1 .. n : Overwritten(f, p, w)[i] = e(i)
  BY <1>4
<1>8. ASSUME NEW i \in 1 .. Len(f), i <= p
      PROVE  i \in 1 .. n /\ e(i) = f[i]
  BY <1>1, <1>2, <1>8
<1>9. ASSUME NEW i \in 1 .. Len(w)
      PROVE  p + i \in 1 .. n /\ e(p + i) = w[i]
  <2>1. p + i > p /\ p + i <= p + Len(w) /\ (p + i) - p = i /\ p + i \in 1 .. n
    BY <1>1, <1>2
  <2>. QED
    BY <2>1
<1>. QED
  BY <1>5, <1>6, <1>7, <1>8, <1>9

LEMMA OverwrittenElsewhere ==
  ASSUME NEW B, Zero \in B, NEW f \in Seq(B), NEW w \in Seq(B), NEW p \in Nat,
         NEW i \in 1 .. Len(f), i <= p \/ i > p + Len(w)
  PROVE  i \in DOMAIN Overwritten(f, p, w) /\ Overwritten(f, p, w)[i] = f[i]
<1>1. Len(f) \in Nat /\ Len(w) \in Nat
  BY LenProperties
<1>2. i \in 1 .. Greater(Len(f), p + Len(w))
  BY <1>1 DEF Greater
<1>3. ~ (i > p /\ i <= p + Len(w)) /\ i <= Len(f)
  BY <1>1
<1>. QED
  BY <1>2, <1>3 DEF Overwritten

(* Of two multiples the lesser is less by the factor at least.             *)
LEMMA NextMultiple ==
  ASSUME NEW b \in Nat \ {0}, NEW r \in Nat, NEW m \in Nat, b * r < b * m
  PROVE  b * r + b <= b * m
<1>1. r < m
  <2>1. SUFFICES ASSUME r >= m PROVE FALSE
    OBVIOUS
  <2>2. PICK d \in Nat : r = m + d
    BY <2>1
  <2>3. b * r = b * m + b * d /\ b * d \in Nat /\ b * m \in Nat
    BY <2>2
  <2>. QED
    BY <2>3
<1>2. PICK d \in Nat : m = r + 1 + d
  BY <1>1
<1>3. b * m = b * r + b + b * d /\ b * d \in Nat /\ b * r \in Nat
  BY <1>2
<1>. QED
  BY <1>3

LEMMA Multiple ==
  ASSUME NEW n \in Nat, NEW b \in Nat \ {0}, n % b = 0
  PROVE  \E m \in Nat : n = b * m
<1>1. n = b * (n \div b) + (n % b) /\ n \div b \in Nat
  OBVIOUS
<1>. QED
  BY <1>1

(* A file of whole records that goes on after a record holds another one.  *)
LEMMA NextWholeRecord ==
  ASSUME NEW n \in Nat, NEW r \in Nat, n % BF = 0, BF * r < n
  PROVE  BF * r + BF <= n
<1>1. BF \in Nat \ {0}
  BY ArchiveFileAssumption
<1>2. PICK m \in Nat : n = BF * m
  BY <1>1, Multiple
<1>3. BF * r < BF * m
  BY <1>2
<1>4. BF * r + BF <= BF * m
  BY <1>1, <1>3, NextMultiple
<1>. QED
  BY <1>2, <1>4
==============================================================================
