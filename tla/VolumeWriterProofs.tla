-------------------------- MODULE VolumeWriterProofs --------------------------
(***************************************************************************)
(* The volumes fit together and carry the archive that TarArchive promises,*)
(* whatever the blocking factor, the sizes of the members and the lengths  *)
(* of the volumes.                                                         *)
(***************************************************************************)
EXTENDS VolumeWriterProps, SequenceTheorems, FiniteSetTheorems, WellFoundedInduction, TLAPS

(* The headers among the first n blocks of s tell the truth ...            *)
IsHead(b) == b.kind \in {"header", "multivol"}
HeadsTrue(sizes, s, n) ==
  \A k \in 1 .. n : IsHead(s[k]) =>
    /\ s[k].name \in Names /\ s[k].size \in Nat /\ s[k].off \in Nat
    /\ s[k].off + s[k].size = sizes[s[k].name]
    /\ IF s[k].kind = "header" THEN s[k].off = 0 ELSE s[k].size > 0

(* ... and each is followed by the data it announces, as far as s goes.    *)
RunsOn(s, n) ==
  \A k \in 1 .. n : IsHead(s[k]) =>
    \A j \in 1 .. s[k].size : k + j <= n => s[k + j] = Data(s[k].name, s[k].off + j - 1)

Sound(sizes, s, n) == HeadsTrue(sizes, s, n) /\ RunsOn(s, n)

(* The only member that may not be whole is `name', which lacks m blocks.  *)
Lacks(s, n, name, m) ==
  \A k \in 1 .. n : IsHead(s[k]) =>
    k + s[k].size <= n \/ (s[k].name = name /\ k + s[k].size = n + m)

(* s is on the volume after prev, from its start; l is for the label.      *)
Continues(l, prev, s, n) ==
  /\ l = 1 /\ n > 0 => s[1] = VolHdr(0)
  /\ n > l =>
       IF s[l + 1].kind = "multivol" THEN Lacks(prev, Len(prev), s[l + 1].name, s[l + 1].size)
       ELSE s[l + 1].kind # "data" /\ Lacks(prev, Len(prev), NoName, 0)
  /\ \A k \in 1 .. n : s[k].kind = "multivol" => k = l + 1

(* What the mounted volume will hold when the record is written.           *)
Level == Len(Mounted) + cur
Line ==
  [k \in 1 .. Level |-> IF k <= Len(Mounted) THEN Mounted[k] ELSE record[k - Len(Mounted) - 1]]

(* What another volume would begin with after its label, if r is tracked   *)
(* and the n blocks of buf have to go there.                               *)
Lead(r) == IF r.name = NoName THEN 0 ELSE 1
Rest(r, buf, n) ==
  [k \in 1 .. Lead(r) + n |->
     IF k <= Lead(r) THEN MultiVol(r.name, r.left, r.total - r.left) ELSE buf[k - Lead(r) - 1]]

Stopped == pc \in {"done", "fatal", "undefined"}
InMember == pc \in {"data", "fill", "pad", "padfill"}
Closing == pc \in {"close1", "close2", "closed"}

Tracked == [name : Names \cup {NoName}, total : Nat, left : Nat]
Typed ==
  /\ setting \in Settings /\ size \in [Names -> Nat]
  /\ volumes \in Seq(Seq(Block)) /\ volumes # <<>>
  /\ record \in [Slots -> Block] /\ other \in [Slots -> Block]
  /\ cur \in 0 .. BF /\ from \in 0 .. BF /\ to \in 0 .. BF
  /\ nv \in {"none", "label", "multivol", "copy", "done"}
  /\ save \in Tracked /\ real \in Tracked
  /\ todo \in 0 .. Len(Files) /\ left \in Nat
  /\ pc \in {"label", "next", "header", "data", "fill", "pad", "padfill", "eot1", "eot2",
             "close1", "close2", "closed", "done", "fatal", "undefined"}

(* Where create.c is, and what it has told buffer.c of the member.         *)
Place ==
  /\ pc = "header" \/ InMember => todo > 0
  /\ InMember => left <= size[current]
  /\ pc \in {"fill", "padfill"} => left > 0
  /\ ~ InMember /\ ~ Stopped => left = 0
Told ==
  /\ multi_volume_option /\ ~ Stopped =>
       IF InMember
       THEN /\ save.name = current /\ save.total = size[current]
            /\ pc \in {"fill", "padfill"} => save.left = left
       ELSE save.name = NoName
  /\ ~ multi_volume_option => real.name = NoName /\ Len(volumes) = 1 /\ nv = "none"
  /\ real.name # NoName => real.left \in 1 .. real.total /\ real.total = size[real.name]
  /\ nv = "multivol" => real.name # NoName
  /\ nv # "none" /\ pc # "undefined" => from <= to
  /\ nv # "none" /\ ~ Stopped =>
       pc \in {"label", "header", "fill", "padfill", "eot1", "eot2", "close2", "closed"}
  /\ pc = "done" => nv = "none"

(* No record was written by flush_archive to the mounted volume, perhaps.  *)
Fresh == Len(volumes) > 1 /\ Len(Mounted) <= BF + 2

(* n blocks of buf may go to another volume.                               *)
Fits(sizes, r, buf, n) ==
  /\ Sound(sizes, Rest(r, buf, n), Lead(r) + n)
  /\ Lead(r) = 0 /\ n > 0 => buf[0].kind # "data"
  /\ \A i \in 0 .. n - 1 : buf[i].kind # "multivol"
Movable(buf, n) ==
  /\ Fits(size, real, buf, n)
  /\ Lacks(Rest(real, buf, n), Lead(real) + n, current, left)

(* The volume s ended where the member that is tracked has left blocks to  *)
(* go.                                                                     *)
Gap(r) == IF Lead(r) = 0 THEN 0 ELSE r.left
EndsAt(s) == Lacks(s, Len(s), real.name, Gap(real))

ZerosFollow == cur > 0 => \A i \in cur .. BF - 1 : record[i] = Zero

Storing ==
  nv = "none" /\ ~ Stopped =>
    /\ Lacks(Line, Level, current, left)
    /\ Len(volumes) > 1 => Level > LabelSize
    /\ multi_volume_option /\ ~ Fresh =>
         /\ Movable(record, cur) /\ EndsAt(Mounted)
         /\ cur = 0 /\ left > 0 => Lead(real) = 1
    /\ Closing => ZerosFollow
    /\ pc = "close1" => cur > 0
    /\ pc = "close2" => IF cur > 0 THEN Fresh ELSE Mounted # <<>>
    /\ pc = "closed" => cur = 0 /\ Mounted # <<>>

(* While volumes are changed, the new one gets its label, the header of    *)
(* the continued member and the record, in this order.                     *)
Begins(n) ==
  /\ Level = n
  /\ \A k \in 1 .. n :
       Line[k] = IF k <= LabelSize THEN VolHdr(0) ELSE Rest(real, other, to)[k - LabelSize]
Moving ==
  nv # "none" /\ ~ Stopped =>
    /\ multi_volume_option /\ Len(volumes) > 1
    /\ Movable(other, to) /\ EndsAt(volumes[Len(volumes) - 1])
    /\ to > 0 /\ from <= to
    /\ nv = "label" => LabelSize = 1 /\ from = 0 /\ Begins(0)
    /\ nv = "multivol" => Lead(real) = 1 /\ from = 0 /\ Begins(LabelSize)
    /\ nv \in {"copy", "done"} => Begins(LabelSize + Lead(real) + from)
    /\ nv = "done" => from = to /\ ZerosFollow
    /\ pc \notin {"close1", "closed"}

(* The volumes that are full, and the one that is not.                     *)
FullVolumes ==
  /\ \A v \in 1 .. Len(volumes) - 1 :
       Sound(size, volumes[v], Len(volumes[v])) /\ Len(volumes[v]) >= BF
  /\ \A v \in 2 .. Len(volumes) - 1 :
       Continues(LabelSize, volumes[v - 1], volumes[v], Len(volumes[v]))
  /\ Len(volumes) > 1 => \A k \in 1 .. Len(volumes[1]) : volumes[1][k].kind # "multivol"
LastVolume ==
  /\ Sound(size, Line, Level)
  /\ IF Len(volumes) = 1 THEN \A k \in 1 .. Level : Line[k].kind # "multivol"
     ELSE Continues(LabelSize, volumes[Len(volumes) - 1], Line, Level)
  /\ Mounted # <<>> => Len(Mounted) >= BF
Finishing ==
  /\ pc # "undefined"
  /\ pc \in {"done", "fatal"} => Mounted # <<>>
  /\ pc = "done" => cur = 0 /\ nv = "none"

Safe == Storing /\ Moving /\ FullVolumes /\ LastVolume /\ Finishing
Inv == Typed /\ Place /\ Told /\ (WholeRecords => Safe)
-----------------------------------------------------------------------------
(* What is stored after the first n blocks of s keeps them sound.          *)
Prolongs(t, s, n) == \A k \in 1 .. n : t[k] = s[k]
Nobody(t, n, p) == \A i \in 1 .. p : ~ IsHead(t[n + i])

LEMMA SoundPrefix ==
  ASSUME NEW sizes, NEW s, NEW t, NEW n \in Nat, NEW m \in 0 .. n,
         Sound(sizes, s, n), Prolongs(t, s, m)
  PROVE  Sound(sizes, t, m)
BY DEF Sound, HeadsTrue, RunsOn, Prolongs, IsHead

LEMMA AboveOne == \A n \in Nat : n > 1 <=> n >= 1 /\ n # 1
OBVIOUS

(* The next blocks of the member that is not whole ...                     *)
LEMMA DataStored ==
  ASSUME NEW sizes \in [Names -> Nat], NEW s, NEW t, NEW n \in Nat, NEW name \in Names,
         NEW m \in Nat, NEW p \in 0 .. m,
         Sound(sizes, s, n), Lacks(s, n, name, m), Prolongs(t, s, n),
         \A i \in 1 .. p : t[n + i] = Data(name, sizes[name] - m + i - 1)
  PROVE  Sound(sizes, t, n + p) /\ Lacks(t, n + p, name, m - p)
<1> USE DEF Prolongs, IsHead
<1>1. ASSUME NEW k \in 1 .. n + p, IsHead(t[k])
      PROVE  /\ k \in 1 .. n /\ t[k] = s[k] /\ IsHead(s[k])
             /\ s[k].name \in Names /\ s[k].size \in Nat /\ s[k].off \in Nat
             /\ s[k].off + s[k].size = sizes[s[k].name]
             /\ IF s[k].kind = "header" THEN s[k].off = 0 ELSE s[k].size > 0
  <2>1. k <= n
    <3> SUFFICES ASSUME k > n PROVE FALSE  OBVIOUS
    <3>1. k - n \in 1 .. p /\ n + (k - n) = k  OBVIOUS
    <3>2. t[k] = Data(name, sizes[name] - m + (k - n) - 1)  BY <3>1
    <3> QED  BY <3>2, <1>1 DEF Data
  <2> QED  BY <2>1, <1>1 DEF Sound, HeadsTrue
<1>2. HeadsTrue(sizes, t, n + p)  BY <1>1 DEF HeadsTrue
<1>3. ASSUME NEW k \in 1 .. n + p, IsHead(t[k]), NEW j \in 1 .. t[k].size, k + j <= n + p
      PROVE  t[k + j] = Data(t[k].name, t[k].off + j - 1)
  <2>1. CASE k + j <= n
    BY <1>1, <1>3, <2>1 DEF Sound, RunsOn
  <2>2. CASE k + j > n
    <3>1. s[k].name = name /\ k + s[k].size = n + m  BY <1>1, <1>3, <2>2 DEF Lacks
    <3>2. k + j - n \in 1 .. p /\ n + (k + j - n) = k + j  BY <1>1, <1>3, <2>2
    <3>3. t[k + j] = Data(name, sizes[name] - m + (k + j - n) - 1)  BY <3>2
    <3>4. sizes[name] - m + (k + j - n) - 1 = s[k].off + j - 1  BY <3>1, <1>1, <1>3
    <3> QED  BY <3>1, <3>3, <3>4, <1>1, <1>3
  <2> QED  BY <2>1, <2>2, <1>1, <1>3
<1>4. Lacks(t, n + p, name, m - p)  BY <1>1 DEF Lacks
<1> QED  BY <1>2, <1>3, <1>4 DEF Sound, RunsOn

(* ... blocks of no member, after whole ones ...                           *)
LEMMA OthersStored ==
  ASSUME NEW sizes, NEW s, NEW t, NEW n \in Nat, NEW name, NEW p \in Nat,
         Sound(sizes, s, n), Lacks(s, n, name, 0), Prolongs(t, s, n), Nobody(t, n, p)
  PROVE  Sound(sizes, t, n + p) /\ \A name2 : Lacks(t, n + p, name2, 0)
<1>1. ASSUME NEW k \in 1 .. n + p, IsHead(t[k])
      PROVE  k \in 1 .. n /\ t[k] = s[k] /\ s[k].size \in Nat /\ k + s[k].size <= n
  <2>1. k <= n
    <3> SUFFICES ASSUME k > n PROVE FALSE  OBVIOUS
    <3>1. k - n \in 1 .. p /\ n + (k - n) = k  OBVIOUS
    <3> QED  BY <3>1, <1>1 DEF Nobody
  <2> QED  BY <2>1, <1>1 DEF Sound, HeadsTrue, Lacks, Prolongs, IsHead
<1> QED  BY <1>1 DEF Sound, HeadsTrue, RunsOn, Lacks, Prolongs, IsHead

(* ... and the header of the next member.                                  *)
LEMMA HeadStored ==
  ASSUME NEW sizes \in [Names -> Nat], NEW s, NEW t, NEW n \in Nat, NEW name,
         NEW f \in Names,
         Sound(sizes, s, n), Lacks(s, n, name, 0), Prolongs(t, s, n),
         t[n + 1] = Header(f, sizes[f])
  PROVE  Sound(sizes, t, n + 1) /\ Lacks(t, n + 1, f, sizes[f])
<1>1. ASSUME NEW k \in 1 .. n, IsHead(t[k])
      PROVE  t[k] = s[k] /\ s[k].size \in Nat /\ k + s[k].size <= n
  BY <1>1 DEF Sound, HeadsTrue, Lacks, Prolongs, IsHead
<1>2. \A k \in 1 .. n + 1 : k \in 1 .. n \/ k = n + 1  OBVIOUS
<1>3. HeadsTrue(sizes, t, n + 1)
  BY <1>1, <1>2 DEF Sound, HeadsTrue, Header, Prolongs, IsHead
<1>4. RunsOn(t, n + 1)
  BY <1>1, <1>2 DEF Sound, RunsOn, Header, Prolongs, IsHead
<1>5. Lacks(t, n + 1, f, sizes[f])
  BY <1>1, <1>2 DEF Lacks, Header
<1> QED  BY <1>3, <1>4, <1>5 DEF Sound

(* A label in front of it changes nothing.                                 *)
LEMMA SoundShifted ==
  ASSUME NEW sizes, NEW s, NEW t, NEW n \in Nat, NEW l \in Nat,
         \A k \in 1 .. l : ~ IsHead(t[k]),
         \A k \in 1 .. n : t[l + k] = s[k]
  PROVE  /\ Sound(sizes, s, n) => Sound(sizes, t, l + n)
         /\ \A name : \A m \in Nat :
              Lacks(s, n, name, m) /\ Sound(sizes, s, n) => Lacks(t, l + n, name, m)
<1>1. ASSUME NEW k \in 1 .. l + n, IsHead(t[k]), Sound(sizes, s, n)
      PROVE  /\ k - l \in 1 .. n /\ t[k] = s[k - l] /\ IsHead(s[k - l]) /\ s[k - l].size \in Nat
  <2>1. k - l \in 1 .. n /\ l + (k - l) = k  BY <1>1
  <2> QED  BY <2>1, <1>1 DEF Sound, HeadsTrue, IsHead
<1>2. ASSUME Sound(sizes, s, n)  PROVE  Sound(sizes, t, l + n)
  <2>1. HeadsTrue(sizes, t, l + n)  BY <1>1, <1>2 DEF Sound, HeadsTrue
  <2>2. ASSUME NEW k \in 1 .. l + n, IsHead(t[k]), NEW j \in 1 .. t[k].size, k + j <= l + n
        PROVE  t[k + j] = Data(t[k].name, t[k].off + j - 1)
    <3>1. (k - l) + j \in 1 .. n /\ l + ((k - l) + j) = k + j  BY <2>2, <1>1, <1>2
    <3>2. t[k + j] = s[(k - l) + j]  BY <3>1
    <3> QED  BY <3>1, <3>2, <2>2, <1>1, <1>2 DEF Sound, RunsOn
  <2> QED  BY <2>1, <2>2 DEF Sound, RunsOn
<1>3. ASSUME NEW name, NEW m \in Nat, Lacks(s, n, name, m), Sound(sizes, s, n)
      PROVE  Lacks(t, l + n, name, m)
  <2> SUFFICES ASSUME NEW k \in 1 .. l + n, IsHead(t[k])
               PROVE  k + t[k].size <= l + n \/ (t[k].name = name /\ k + t[k].size = l + n + m)
    BY DEF Lacks
  <2>1. \/ (k - l) + s[k - l].size <= n
        \/ s[k - l].name = name /\ (k - l) + s[k - l].size = n + m
    BY <1>1, <1>3 DEF Lacks
  <2> QED  BY <2>1, <1>1, <1>3
<1> QED  BY <1>2, <1>3
-----------------------------------------------------------------------------
(* The volumes after a record, or a part of one, was written.              *)
LEMMA SliceOf ==
  ASSUME NEW buf \in [Slots -> Block], NEW n \in 0 .. BF
  PROVE  /\ Slice(buf, 0, n) \in Seq(Block) /\ Len(Slice(buf, 0, n)) = n
         /\ \A i \in 0 .. n - 1 : Slice(buf, 0, n)[i + 1] = buf[i]
<1> USE WriterAssumption DEF Slots
<1>1. \A k \in 1 .. n : 0 + k - 1 \in Slots  OBVIOUS
<1>2. Slice(buf, 0, n) \in [1 .. n -> Block]  BY <1>1 DEF Slice
<1>3. Slice(buf, 0, n) \in Seq(Block) /\ Len(Slice(buf, 0, n)) = n  BY <1>2
<1>4. ASSUME NEW i \in 0 .. n - 1  PROVE  Slice(buf, 0, n)[i + 1] = buf[i]
  <2>1. i + 1 \in 1 .. n /\ 0 + (i + 1) - 1 = i  OBVIOUS
  <2> QED  BY <2>1 DEF Slice
<1> QED  BY <1>3, <1>4

LEMMA RecordWritten ==
  ASSUME Typed, WriteRecord
  PROVE  /\ volumes' \in Seq(Seq(Block)) /\ Len(volumes') = Len(volumes)
         /\ \A v \in 1 .. Len(volumes) - 1 : volumes'[v] = volumes[v]
         /\ Mounted \in Seq(Block) /\ Mounted' \in Seq(Block)
         /\ Len(Mounted') = Len(Mounted) + BF
         /\ \A k \in 1 .. Len(Mounted) : Mounted'[k] = Mounted[k]
         /\ \A i \in Slots : Mounted'[Len(Mounted) + i + 1] = record[i]
<1> DEFINE s == Slice(record, 0, BF)
<1>1. s \in Seq(Block) /\ Len(s) = BF /\ \A i \in Slots : s[i + 1] = record[i]
  <2>1. record \in [Slots -> Block] /\ BF \in 0 .. BF  BY WriterAssumption DEF Typed
  <2> QED  BY <2>1, SliceOf DEF Slots
<1>2. Len(volumes) \in Nat /\ Len(volumes) >= 1 /\ Mounted \in Seq(Block)
  BY DEF Typed, Mounted
<1> HIDE DEF s
<1>3. /\ Mounted \o s \in Seq(Block) /\ Len(Mounted \o s) = Len(Mounted) + BF
      /\ \A k \in 1 .. Len(Mounted) : (Mounted \o s)[k] = Mounted[k]
      /\ \A i \in Slots : (Mounted \o s)[Len(Mounted) + i + 1] = s[i + 1]
  <2>1. /\ Mounted \o s \in Seq(Block) /\ Len(Mounted \o s) = Len(Mounted) + BF
        /\ \A k \in 1 .. Len(Mounted) + BF :
             (Mounted \o s)[k] = IF k <= Len(Mounted) THEN Mounted[k] ELSE s[k - Len(Mounted)]
    BY <1>1, <1>2, ConcatProperties
  <2>2. Len(Mounted) \in Nat /\ BF \in Nat  BY <1>2, WriterAssumption
  <2>3. ASSUME NEW i \in Slots
        PROVE  (Mounted \o s)[Len(Mounted) + i + 1] = s[i + 1]
    <3>1. /\ Len(Mounted) + i + 1 \in 1 .. Len(Mounted) + BF
          /\ ~ Len(Mounted) + i + 1 <= Len(Mounted)
          /\ (Len(Mounted) + i + 1) - Len(Mounted) = i + 1
      BY <2>2 DEF Slots
    <3> QED  BY <2>1, <3>1
  <2>4. \A k \in 1 .. Len(Mounted) : k \in 1 .. Len(Mounted) + BF /\ k <= Len(Mounted)
    BY <2>2
  <2>5. \A k \in 1 .. Len(Mounted) : (Mounted \o s)[k] = Mounted[k]
    BY <2>1, <2>4
  <2> QED  BY <2>1, <2>3, <2>5
<1>4. volumes' = [volumes EXCEPT ![Len(volumes)] = Mounted \o s]
  BY DEF WriteRecord, Mounted, s
<1>5. /\ volumes' \in Seq(Seq(Block)) /\ Len(volumes') = Len(volumes)
      /\ \A v \in 1 .. Len(volumes) - 1 : volumes'[v] = volumes[v]
      /\ volumes'[Len(volumes)] = Mounted \o s
  BY <1>2, <1>3, <1>4 DEF Typed
<1>6. Mounted' = Mounted \o s  BY <1>5 DEF Mounted
<1> QED  BY <1>1, <1>2, <1>3, <1>5, <1>6

LEMMA VolumeAdded ==
  ASSUME Typed, NEW status \in 0 .. BF - 1, ChangeVolume(status)
  PROVE  /\ volumes' \in Seq(Seq(Block)) /\ Len(volumes') = Len(volumes) + 1
         /\ \A v \in 1 .. Len(volumes) - 1 : volumes'[v] = volumes[v]
         /\ Mounted' = <<>>
         /\ status = 0 => volumes'[Len(volumes)] = Mounted
<1> DEFINE s == Slice(record, 0, status)
           full == [volumes EXCEPT ![Len(volumes)] = Mounted \o s]
<1>1. s \in Seq(Block) /\ Len(s) = status
  <2>1. record \in [Slots -> Block] /\ status \in 0 .. BF  BY WriterAssumption DEF Typed
  <2> QED  BY <2>1, SliceOf
<1>2. Len(volumes) \in Nat /\ Len(volumes) >= 1 /\ Mounted \in Seq(Block)
  BY DEF Typed, Mounted
<1> HIDE DEF s
<1>3. Mounted \o s \in Seq(Block) /\ (status = 0 => Mounted \o s = Mounted)
  BY <1>1, <1>2
<1>4. volumes' = Append(full, <<>>)
  BY DEF ChangeVolume, Mounted, s
<1>5. /\ full \in Seq(Seq(Block)) /\ Len(full) = Len(volumes)
      /\ \A v \in 1 .. Len(volumes) - 1 : full[v] = volumes[v]
      /\ full[Len(volumes)] = Mounted \o s
  BY <1>2, <1>3 DEF Typed
<1> HIDE DEF full
<1>6. <<>> \in Seq(Block)  OBVIOUS
<1>7. /\ volumes' \in Seq(Seq(Block)) /\ Len(volumes') = Len(volumes) + 1
      /\ \A v \in 1 .. Len(volumes) : volumes'[v] = full[v]
      /\ volumes'[Len(volumes) + 1] = <<>>
  BY <1>2, <1>4, <1>5, <1>6
<1>8. Mounted' = <<>>  BY <1>7 DEF Mounted
<1>9. \A v \in 1 .. Len(volumes) - 1 : volumes'[v] = volumes[v]  BY <1>2, <1>5, <1>7
<1>10. volumes'[Len(volumes)] = Mounted \o s
  <2>1. Len(volumes) \in 1 .. Len(volumes)  BY <1>2
  <2> QED  BY <2>1, <1>5, <1>7
<1> QED  BY <1>3, <1>7, <1>8, <1>9, <1>10
-----------------------------------------------------------------------------
(* Types.                                                                  *)
LEMMA BlocksAreBlocks ==
  /\ Zero \in Block /\ Junk \in Block /\ \A v \in Nat : VolHdr(v) \in Block
  /\ \A n \in Names : \A s, o \in Nat :
       Header(n, s) \in Block /\ Data(n, o) \in Block /\ MultiVol(n, s, o) \in Block
BY DEF Block, Kinds, Zero, Junk, VolHdr, Header, Data, MultiVol

LEMMA GivenTypes ==
  ASSUME Typed
  PROVE  /\ BF \in Nat \ {0} /\ MaxVolumes \in Nat \ {0} /\ ShortCounts \subseteq 0 .. BF - 1
         /\ multi_volume_option \in BOOLEAN /\ volume_label_option \in BOOLEAN
         /\ MinRecords \in Nat /\ Partial \in BOOLEAN
         /\ Len(Files) \in Nat /\ Len(volumes) \in Nat \ {0}
         /\ Mounted \in Seq(Block) /\ Len(Mounted) \in Nat
         /\ todo > 0 => current \in Names /\ size[current] \in Nat
  BY WriterAssumption
  DEF Typed, ShortCounts, multi_volume_option, volume_label_option, MinRecords, Partial,
      current, Mounted

LEMMA InitInv == Init => Typed /\ Place /\ Told
<1> SUFFICES ASSUME Init PROVE Typed /\ Place /\ Told  OBVIOUS
<1> USE WriterAssumption, NoNameAssumption
<1>1. volumes \in Seq(Seq(Block)) /\ volumes # <<>> /\ Len(volumes) = 1
  BY DEF Init
<1>2. Typed
  BY <1>1, BlocksAreBlocks DEF Init, Typed, Tracked, NoMember, volume_label_option
<1>3. Place /\ Told
  BY <1>1 DEF Init, Place, Told, InMember, Stopped, NoMember, volume_label_option
<1> QED  BY <1>2, <1>3

LEMMA TypedNext == Typed /\ Place /\ Told /\ [Next]_vars => Typed'
<1> SUFFICES ASSUME Typed, Place, Told, [Next]_vars PROVE Typed'  OBVIOUS
<1> USE DEF given, device, buffer, tracking, dump, HasRoom, FlushPoint, Changing
<1>0. Typed /\ BF \in Nat \ {0}  BY GivenTypes
<1> DEFINE Pc == {"label", "next", "header", "data", "fill", "pad", "padfill", "eot1", "eot2",
                  "close1", "close2", "closed", "done", "fatal", "undefined"}
<1>s. ASSUME NEW b \in Block, cur < BF, Store(b)
      PROVE  record' \in [Slots -> Block] /\ cur' \in 0 .. BF
  BY <1>s, <1>0 DEF Typed, Store, Slots
<1>d. ASSUME pc \in {"fill", "padfill"}
      PROVE  /\ Chunk \in 0 .. left /\ Chunk <= BF - cur
             /\ \A o \in 0 .. left : size[current] - left + o \in Nat
             /\ current \in Names
  BY <1>d, <1>0, GivenTypes DEF Typed, Place, InMember, Chunk, Lesser
<1>f. ASSUME pc = "fill", FillData(Chunk)  PROVE  record' \in [Slots -> Block]
  <2> SUFFICES ASSUME NEW k \in Slots, k \in cur .. cur + Chunk - 1
               PROVE  Data(current, size[current] - left + (k - cur)) \in Block
    BY <1>f DEF FillData, Typed
  <2>1. k - cur \in 0 .. left  BY <1>d, <1>f DEF Typed
  <2> QED  BY <2>1, <1>d, <1>f, BlocksAreBlocks
<1>y. ASSUME MultiVolumeSync  PROVE  real' \in Tracked
  BY <1>y DEF MultiVolumeSync, Typed, NoMember, Tracked
<1>w. ASSUME WriteRecord  PROVE  volumes' \in Seq(Seq(Block)) /\ volumes' # <<>>
  BY <1>w, <1>0, GivenTypes, RecordWritten
<1>1. CASE WriteLabel
  BY <1>1, <1>s, BlocksAreBlocks DEF WriteLabel, WriteVolumeLabel, Typed
<1>2. CASE NextMember  BY <1>2, GivenTypes DEF NextMember, Typed
<1>3. CASE WriteHeader
  <2>1. current \in Names /\ size[current] \in Nat
    BY <1>3, GivenTypes DEF WriteHeader, Place
  <2> QED  BY <1>3, <2>1, <1>s, BlocksAreBlocks DEF WriteHeader, Typed, Tracked
<1>4. CASE SizeLeft  BY <1>4 DEF SizeLeft, Typed, Tracked
<1>5. CASE FillFull
  <2>1. pc = "fill" /\ FillData(Chunk) /\ cur' = cur + Chunk /\ left' = left - Chunk
    BY <1>5 DEF FillFull
  <2>2. record' \in [Slots -> Block]  BY <2>1, <1>f
  <2>3. Chunk \in 0 .. left /\ Chunk <= BF - cur  BY <2>1, <1>d
  <2>4. cur' \in 0 .. BF /\ left' \in Nat  BY <2>1, <2>3, <1>0 DEF Typed
  <2> QED  BY <1>5, <2>2, <2>4 DEF FillFull, Typed
<1>6. CASE \E count \in ShortCounts : FillShort(count)
  <2> PICK count \in ShortCounts : FillShort(count)  BY <1>6
  <2>1. /\ pc = "fill" /\ FillData(Chunk) /\ left' = left - Chunk
        /\ cur' \in {cur, cur + Chunk}
    BY DEF FillShort, PadAfter
  <2>2. record' \in [Slots -> Block]  BY <2>1, <1>f
  <2>3. Chunk \in 0 .. left /\ Chunk <= BF - cur  BY <2>1, <1>d
  <2>4. cur' \in 0 .. BF /\ left' \in Nat  BY <2>1, <2>3, <1>0 DEF Typed
  <2> QED  BY <2>2, <2>4 DEF FillShort, Typed
<1>7. CASE ReadError  BY <1>7 DEF ReadError, Typed
<1>8. CASE Pad
  <2>1. pc = "padfill" /\ left > 0  BY <1>8 DEF Pad, Place
  <2>2. Data(current, size[current] - left) \in Block
    BY <2>1, <1>d, BlocksAreBlocks DEF Typed, Place, InMember
  <2> QED  BY <1>8, <2>1, <2>2, <1>s DEF Pad, Typed
<1>9. CASE EndMember  BY <1>9 DEF EndMember, Typed, Tracked
<1>10. CASE StartEot  BY <1>10 DEF StartEot, Typed
<1>11. CASE Eot1  BY <1>11, <1>s, BlocksAreBlocks DEF Eot1, Typed
<1>12. CASE Eot2  BY <1>12, <1>0, BlocksAreBlocks DEF Eot2, ZeroFrom, Typed, Slots
<1>13. CASE FlushWhole
  BY <1>13, <1>w, <1>y, <1>0 DEF FlushWhole, AfterFlush, Typed
<1>14. CASE FlushFatal  BY <1>14 DEF FlushFatal, Typed
<1>15. CASE NoMoreVolumes  BY <1>15 DEF NoMoreVolumes, Typed
<1>16. CASE \E status \in 0 .. BF - 1 : ChangeVolume(status)
  <2> PICK status \in 0 .. BF - 1 : ChangeVolume(status)  BY <1>16
  <2>1. volumes' \in Seq(Seq(Block)) /\ volumes' # <<>>
    BY VolumeAdded, GivenTypes
  <2>2. /\ record' \in [Slots -> Block] /\ other' \in [Slots -> Block]
        /\ from' \in 0 .. BF /\ to' \in 0 .. BF /\ cur' \in 0 .. BF
    BY <1>0 DEF ChangeVolume, CopyFrom, Typed
  <2>3. pc' \in Pc /\ nv' \in {"none", "label", "multivol", "copy", "done"}
    BY DEF ChangeVolume, AfterFlush, Typed
  <2> QED  BY <2>1, <2>2, <2>3 DEF ChangeVolume, Typed
<1>17. CASE SimpleFlushWrite  BY <1>17, <1>w, <1>0 DEF SimpleFlushWrite, Typed
<1>18. CASE SimpleFlushFatal  BY <1>18 DEF SimpleFlushFatal, Typed
<1>19. CASE AddVolumeLabel
  BY <1>19, <1>s, BlocksAreBlocks DEF AddVolumeLabel, WriteVolumeLabel, Typed
<1>20. CASE AddMultiVolumeHeader
  <2>1. MultiVol(real.name, real.left, real.total - real.left) \in Block
    BY <1>20, BlocksAreBlocks DEF AddMultiVolumeHeader, Told, Typed, Tracked
  <2> QED  BY <1>20, <2>1, <1>s DEF AddMultiVolumeHeader, Typed
<1>21. CASE CopyChunk
  <2> DEFINE n == Lesser(BF - cur, to - from)
             copied == [k \in Slots |-> IF k \in cur .. cur + n - 1
                                        THEN other[from + (k - cur)] ELSE record[k]]
  <2>1. from <= to  BY <1>21 DEF CopyChunk, Told
  <2>2. n \in 0 .. to - from /\ n <= BF - cur
    BY <1>0, <2>1 DEF Lesser, Typed
  <2>3. \A k \in Slots : k \in cur .. cur + n - 1 => from + (k - cur) \in Slots
    BY <1>0, <2>2 DEF Typed, Slots
  <2>4. copied \in [Slots -> Block]
    BY <1>0, <2>3 DEF Typed
  <2>5. record' \in [Slots -> Block] /\ cur' = cur + n /\ from' = from + n
    BY <1>21, <2>4, BlocksAreBlocks DEF CopyChunk, ZeroFrom
  <2> HIDE DEF n, copied
  <2>6. cur' \in 0 .. BF /\ from' \in 0 .. BF
    BY <1>0, <2>2, <2>5 DEF Typed
  <2> QED  BY <1>21, <2>5, <2>6 DEF CopyChunk, Typed
<1>22. CASE VolumeChanged  BY <1>22 DEF VolumeChanged, Typed
<1>23. CASE Close  BY <1>23 DEF Close, Typed
<1>24. CASE UNCHANGED vars  BY <1>24 DEF vars, Typed
<1> QED  BY <1>1, <1>2, <1>3, <1>4, <1>5, <1>6, <1>7, <1>8, <1>9, <1>10, <1>11, <1>12, <1>13,
            <1>14, <1>15, <1>16, <1>17, <1>18, <1>19, <1>20, <1>21, <1>22, <1>23, <1>24
         DEF Next, Dump, FlushWrite, VolumeChange

(* What create.c tells buffer.c.                                           *)
LEMMA PlaceNext == Typed /\ Place /\ [Next]_vars => Place'
<1> SUFFICES ASSUME Typed, Place, [Next]_vars PROVE Place'  OBVIOUS
<1> USE DEF given, device, buffer, tracking, dump, HasRoom, FlushPoint, Changing,
            Place, InMember, Stopped, current
<1>0. Typed /\ BF \in Nat \ {0}  BY GivenTypes
<1>d. ASSUME pc = "fill", nv = "none", cur < BF
      PROVE  /\ Chunk \in 0 .. left /\ left \in Nat /\ size[current] \in Nat
             /\ todo > 0 /\ left <= size[current]
  BY <1>d, <1>0, GivenTypes DEF Typed, Chunk, Lesser
<1>1. CASE WriteLabel  BY <1>1 DEF WriteLabel
<1>2. CASE NextMember  BY <1>2 DEF NextMember, Typed
<1>3. CASE WriteHeader  BY <1>3, GivenTypes DEF WriteHeader
<1>4. CASE SizeLeft  BY <1>4 DEF SizeLeft
<1>5. CASE FillFull
  <2>1. left' <= left  BY <1>5, <1>d DEF FillFull
  <2> QED  BY <1>5, <2>1, <1>d DEF FillFull
<1>6. CASE \E count \in ShortCounts : FillShort(count)
  <2> PICK count \in ShortCounts : FillShort(count)  BY <1>6
  <2>1. left' <= left  BY <1>d DEF FillShort, PadAfter
  <2> QED  BY <2>1, <1>d DEF FillShort, PadAfter
<1>7. CASE ReadError  BY <1>7 DEF ReadError
<1>8. CASE Pad  BY <1>8, GivenTypes DEF Pad, Typed
<1>9. CASE EndMember  BY <1>9 DEF EndMember
<1>10. CASE StartEot  BY <1>10 DEF StartEot
<1>11. CASE Eot1  BY <1>11 DEF Eot1
<1>12. CASE Eot2  BY <1>12 DEF Eot2
<1>13. CASE FlushWhole  BY <1>13 DEF FlushWhole, AfterFlush
<1>14. CASE FlushFatal  BY <1>14 DEF FlushFatal
<1>15. CASE NoMoreVolumes  BY <1>15 DEF NoMoreVolumes
<1>16. CASE \E status \in 0 .. BF - 1 : ChangeVolume(status)
  BY <1>16 DEF ChangeVolume, AfterFlush
<1>17. CASE SimpleFlushWrite  BY <1>17 DEF SimpleFlushWrite
<1>18. CASE SimpleFlushFatal  BY <1>18 DEF SimpleFlushFatal
<1>19. CASE AddVolumeLabel  BY <1>19 DEF AddVolumeLabel
<1>20. CASE AddMultiVolumeHeader  BY <1>20 DEF AddMultiVolumeHeader
<1>21. CASE CopyChunk  BY <1>21 DEF CopyChunk
<1>22. CASE VolumeChanged  BY <1>22 DEF VolumeChanged
<1>23. CASE Close  BY <1>23 DEF Close
<1>24. CASE UNCHANGED vars  BY <1>24 DEF vars
<1> QED  BY <1>1, <1>2, <1>3, <1>4, <1>5, <1>6, <1>7, <1>8, <1>9, <1>10, <1>11, <1>12, <1>13,
            <1>14, <1>15, <1>16, <1>17, <1>18, <1>19, <1>20, <1>21, <1>22, <1>23, <1>24
         DEF Next, Dump, FlushWrite, VolumeChange

LEMMA ToldNext == Typed /\ Place /\ Told /\ [Next]_vars => Told'
<1> SUFFICES ASSUME Typed, Place, Told, [Next]_vars PROVE Told'  OBVIOUS
<1> USE NoNameAssumption
    DEF given, device, buffer, tracking, dump, HasRoom, FlushPoint, Changing,
        Told, InMember, Stopped, current, multi_volume_option
<1>0. Typed /\ BF \in Nat \ {0}  BY GivenTypes
<1>1. CASE WriteLabel  BY <1>1 DEF WriteLabel
<1>2. CASE NextMember  BY <1>2 DEF NextMember, Typed
<1>3. CASE WriteHeader  BY <1>3 DEF WriteHeader
<1>4. CASE SizeLeft  BY <1>4 DEF SizeLeft, Typed, Tracked
<1>5. CASE FillFull  BY <1>5 DEF FillFull
<1>6. CASE \E count \in ShortCounts : FillShort(count)  BY <1>6 DEF FillShort
<1>7. CASE ReadError  BY <1>7 DEF ReadError
<1>8. CASE Pad  BY <1>8 DEF Pad
<1>9. CASE EndMember  BY <1>9 DEF EndMember, Typed, Tracked
<1>10. CASE StartEot  BY <1>10 DEF StartEot
<1>11. CASE Eot1  BY <1>11 DEF Eot1
<1>12. CASE Eot2  BY <1>12 DEF Eot2
<1>13. CASE FlushWhole
  <2>1. Len(volumes') = Len(volumes)  BY <1>13, RecordWritten DEF FlushWhole
  <2>2. multi_volume_option /\ save.name # NoName =>
          /\ pc \in {"fill", "padfill"} /\ save.name = current /\ save.total = size[current]
          /\ save.left \in 1 .. save.total
    <3>1. pc \in {"fill", "padfill"} =>
            /\ left \in Nat /\ size[current] \in Nat /\ left > 0 /\ left <= size[current]
      <4> HIDE DEF current
      <4> QED  BY GivenTypes DEF Place, Typed
    <3>2. pc \in {"label", "header", "fill", "padfill", "eot1", "eot2", "close1", "close2"}
      BY <1>13 DEF FlushWhole
    <3> QED  BY <3>1, <3>2
  <2>3. /\ ~ multi_volume_option => real' = real
        /\ real' = real \/ real' = NoMember
             \/ (multi_volume_option /\ save.name # NoName /\ real' = save)
    BY <1>13 DEF FlushWhole, MultiVolumeSync
  <2>4. real'.name # NoName => real'.left \in 1 .. real'.total /\ real'.total = size[real'.name]
    <3>1. CASE real' = real  BY <3>1
    <3>2. CASE real' = NoMember  BY <3>2 DEF NoMember
    <3>3. CASE multi_volume_option /\ save.name # NoName /\ real' = save
      <4>1. real'.left = save.left /\ real'.total = save.total /\ real'.name = save.name
        BY <3>3
      <4> QED  BY <4>1, <3>3, <2>2
    <3> QED  BY <3>1, <3>2, <3>3, <2>3
  <2>5. UNCHANGED <<setting, size, save, left, todo, nv, from, to>> /\ pc' = AfterFlush(pc) /\ nv = "none"
    BY <1>13 DEF FlushWhole
  <2> QED  BY <2>1, <2>3, <2>4, <2>5, <1>13 DEF FlushWhole, AfterFlush
<1>14. CASE FlushFatal  BY <1>14 DEF FlushFatal
<1>15. CASE NoMoreVolumes  BY <1>15 DEF NoMoreVolumes
<1>16. CASE \E status \in 0 .. BF - 1 : ChangeVolume(status)
  <2> PICK status \in 0 .. BF - 1 : ChangeVolume(status)  BY <1>16
  <2>1. /\ UNCHANGED <<setting, size, save, real, todo, left>> /\ multi_volume_option
        /\ from' = status /\ to' = cur
        /\ pc' = IF status > cur THEN "undefined" ELSE AfterFlush(pc)
    BY DEF ChangeVolume, CopyFrom
  <2>2. nv' = "multivol" => real.name # NoName  BY DEF ChangeVolume
  <2>3. pc' # "undefined" => from' <= to'  BY <2>1, <1>0 DEF Typed
  <2>4. ~ Stopped' => (InMember' <=> InMember) /\ ~ Stopped /\ (pc' \in {"fill", "padfill"} => pc' = pc)
    BY <2>1 DEF ChangeVolume, AfterFlush
  <2>5. ~ Stopped' =>
          pc' \in {"label", "header", "fill", "padfill", "eot1", "eot2", "close2", "closed"}
    BY <2>1 DEF ChangeVolume, AfterFlush
  <2>6. pc' # "done"  BY <2>1 DEF ChangeVolume, AfterFlush
  <2> QED  BY <2>1, <2>2, <2>3, <2>4, <2>5, <2>6
<1>17. CASE SimpleFlushWrite  BY <1>17, RecordWritten DEF SimpleFlushWrite
<1>18. CASE SimpleFlushFatal  BY <1>18 DEF SimpleFlushFatal
<1>19. CASE AddVolumeLabel  BY <1>19 DEF AddVolumeLabel
<1>20. CASE AddMultiVolumeHeader  BY <1>20 DEF AddMultiVolumeHeader
<1>21. CASE CopyChunk
  <2>1. from' <= to'  BY <1>21, <1>0 DEF CopyChunk, Lesser, Typed
  <2> QED  BY <1>21, <2>1 DEF CopyChunk
<1>22. CASE VolumeChanged  BY <1>22 DEF VolumeChanged
<1>23. CASE Close  BY <1>23 DEF Close
<1>24. CASE UNCHANGED vars  BY <1>24 DEF vars
<1> QED  BY <1>1, <1>2, <1>3, <1>4, <1>5, <1>6, <1>7, <1>8, <1>9, <1>10, <1>11, <1>12, <1>13,
            <1>14, <1>15, <1>16, <1>17, <1>18, <1>19, <1>20, <1>21, <1>22, <1>23, <1>24
         DEF Next, Dump, FlushWrite, VolumeChange
-----------------------------------------------------------------------------
(* What is mounted.                                                        *)
LEMMA LineFacts ==
  ASSUME Typed
  PROVE  /\ Len(Mounted) \in Nat /\ Level \in Nat /\ Level = Len(Mounted) + cur
         /\ \A k \in 1 .. Len(Mounted) : Line[k] = Mounted[k]
         /\ \A i \in 0 .. cur - 1 : Line[Len(Mounted) + i + 1] = record[i]
         /\ LabelSize \in {0, 1}
<1>1. Len(Mounted) \in Nat /\ cur \in Nat /\ BF \in Nat  BY GivenTypes DEF Typed
<1>2. ASSUME NEW i \in 0 .. cur - 1  PROVE  Line[Len(Mounted) + i + 1] = record[i]
  <2>1. /\ Len(Mounted) + i + 1 \in 1 .. Level /\ ~ Len(Mounted) + i + 1 <= Len(Mounted)
        /\ (Len(Mounted) + i + 1) - Len(Mounted) - 1 = i
    BY <1>1 DEF Level
  <2> QED  BY <2>1 DEF Line
<1> QED  BY <1>1, <1>2 DEF Level, Line, LabelSize

(* A step that stores p blocks.                                            *)
LEMMA LineGrows ==
  ASSUME Typed, Typed', UNCHANGED volumes, NEW p \in Nat, cur' = cur + p,
         \A i \in 0 .. cur - 1 : record'[i] = record[i]
  PROVE  /\ Level' = Level + p /\ Prolongs(Line', Line, Level)
         /\ \A i \in 1 .. p : Line'[Level + i] = record'[cur + i - 1]
<1>0. BF \in Nat /\ cur \in 0 .. BF /\ Len(Mounted) \in Nat
  <2>1. cur \in 0 .. BF  BY DEF Typed
  <2> QED  BY <2>1, GivenTypes
<1>1. /\ Len(Mounted) \in Nat /\ cur \in Nat /\ BF \in Nat
      /\ Mounted' = Mounted
  <2>1. Mounted' = Mounted  BY DEF Mounted
  <2> QED  BY <1>0, <2>1
<1>2. Level' = Level + p /\ Level \in Nat /\ Level = Len(Mounted) + cur  BY <1>1 DEF Level
<1>3. ASSUME NEW k \in 1 .. Level  PROVE  Line'[k] = Line[k]
  <2>1. k \in 1 .. Level'  BY <1>2
  <2>2. k > Len(Mounted) => k - Len(Mounted) - 1 \in 0 .. cur - 1  BY <1>1, <1>2
  <2>3. Line[k] = IF k <= Len(Mounted) THEN Mounted[k] ELSE record[k - Len(Mounted) - 1]
    BY DEF Line
  <2>4. Line'[k] = IF k <= Len(Mounted) THEN Mounted[k] ELSE record'[k - Len(Mounted) - 1]
    BY <1>1, <2>1 DEF Line
  <2>5. CASE k <= Len(Mounted)  BY <2>3, <2>4, <2>5
  <2>6. CASE k > Len(Mounted)  BY <1>1, <2>2, <2>3, <2>4, <2>6
  <2> QED  BY <1>1, <2>5, <2>6
<1>4. ASSUME NEW i \in 1 .. p  PROVE  Line'[Level + i] = record'[cur + i - 1]
  <2>1. /\ Level + i \in 1 .. Level' /\ ~ Level + i <= Len(Mounted')
        /\ (Level + i) - Len(Mounted') - 1 = cur + i - 1
    BY <1>1, <1>2 DEF Level
  <2> QED  BY <2>1 DEF Line
<1> QED  BY <1>2, <1>3, <1>4 DEF Prolongs

LEMMA RestBlocks ==
  ASSUME NEW r, NEW buf, NEW n \in Nat
  PROVE  /\ Lead(r) \in {0, 1} /\ (Lead(r) = 0 <=> r.name = NoName)
         /\ Lead(r) = 1 => Rest(r, buf, n)[1] = MultiVol(r.name, r.left, r.total - r.left)
         /\ \A i \in 0 .. n - 1 : Rest(r, buf, n)[Lead(r) + i + 1] = buf[i]
<1>1. Lead(r) \in {0, 1} /\ (Lead(r) = 0 <=> r.name = NoName)  BY DEF Lead
<1>2. ASSUME Lead(r) = 1
      PROVE  Rest(r, buf, n)[1] = MultiVol(r.name, r.left, r.total - r.left)
  <2>1. 1 \in 1 .. Lead(r) + n /\ 1 <= Lead(r)  BY <1>2
  <2> QED  BY <2>1 DEF Rest
<1>3. ASSUME NEW i \in 0 .. n - 1  PROVE Rest(r, buf, n)[Lead(r) + i + 1] = buf[i]
  <2>1. /\ Lead(r) + i + 1 \in 1 .. Lead(r) + n /\ ~ Lead(r) + i + 1 <= Lead(r)
        /\ (Lead(r) + i + 1) - Lead(r) - 1 = i
    BY <1>1
  <2> QED  BY <2>1 DEF Rest
<1> QED  BY <1>1, <1>2, <1>3

LEMMA RestGrows ==
  ASSUME NEW r, NEW a, NEW b, NEW n \in Nat, NEW m \in Nat, n <= m,
         \A i \in 0 .. n - 1 : b[i] = a[i]
  PROVE  /\ Prolongs(Rest(r, b, m), Rest(r, a, n), Lead(r) + n)
         /\ \A i \in 1 .. m - n : Rest(r, b, m)[(Lead(r) + n) + i] = b[n + i - 1]
<1> DEFINE old == Rest(r, a, n)
           new == Rest(r, b, m)
<1>1. /\ Lead(r) \in {0, 1}
      /\ Lead(r) = 1 => old[1] = new[1]
      /\ \A i \in 0 .. n - 1 : old[Lead(r) + i + 1] = a[i]
      /\ \A i \in 0 .. m - 1 : new[Lead(r) + i + 1] = b[i]
  BY RestBlocks
<1> HIDE DEF old, new
<1>2. ASSUME NEW k \in 1 .. Lead(r) + n  PROVE  new[k] = old[k]
  <2>1. CASE k <= Lead(r)  BY <2>1, <1>1
  <2>2. CASE k > Lead(r)
    <3>1. /\ k - Lead(r) - 1 \in 0 .. n - 1 /\ k - Lead(r) - 1 \in 0 .. m - 1
          /\ Lead(r) + (k - Lead(r) - 1) + 1 = k
      BY <2>2, <1>1
    <3> QED  BY <3>1, <1>1
  <2> QED  BY <2>1, <2>2, <1>1
<1>3. ASSUME NEW i \in 1 .. m - n  PROVE  new[(Lead(r) + n) + i] = b[n + i - 1]
  <2>1. n + i - 1 \in 0 .. m - 1 /\ Lead(r) + (n + i - 1) + 1 = (Lead(r) + n) + i  BY <1>1
  <2> QED  BY <2>1, <1>1
<1> QED  BY <1>2, <1>3 DEF Prolongs, old, new

LEMMA ContinuesProlonged ==
  ASSUME NEW l \in Nat, NEW prev, NEW s, NEW t, NEW n \in Nat, NEW p \in Nat, n > l,
         Continues(l, prev, s, n), Prolongs(t, s, n), \A i \in 1 .. p : t[n + i].kind # "multivol"
  PROVE  Continues(l, prev, t, n + p)
<1>1. \A k \in 1 .. n : t[k] = s[k]  BY DEF Prolongs
<1>2. l + 1 \in 1 .. n /\ 1 \in 1 .. n  OBVIOUS
<1>3. ASSUME NEW k \in 1 .. n + p, t[k].kind = "multivol"  PROVE k = l + 1
  <2>1. CASE k <= n  BY <2>1, <1>1, <1>3 DEF Continues
  <2>2. CASE k > n
    <3>1. k - n \in 1 .. p /\ n + (k - n) = k  BY <2>2
    <3> QED  BY <3>1, <1>3
  <2> QED  BY <2>1, <2>2
<1> QED  BY <1>1, <1>2, <1>3 DEF Continues

LEMMA ContinuesPrefix ==
  ASSUME NEW l \in Nat, NEW prev, NEW s, NEW t, NEW n \in Nat, NEW m \in 0 .. n,
         Continues(l, prev, s, n), Prolongs(t, s, m)
  PROVE  Continues(l, prev, t, m)
<1>1. \A k \in 1 .. m : t[k] = s[k] /\ k \in 1 .. n  BY DEF Prolongs
<1>2. m > l => l + 1 \in 1 .. m  OBVIOUS
<1>3. m > 0 => 1 \in 1 .. m  OBVIOUS
<1> QED  BY <1>1, <1>2, <1>3 DEF Continues

(* What a new volume begins with.                                          *)
BeginsWith(line, l, q, rest) ==
  \A k \in 1 .. l + q : line[k] = IF k <= l THEN VolHdr(0) ELSE rest[k - l]

LEMMA BegunWell ==
  ASSUME NEW sizes, NEW r, NEW buf, NEW n \in Nat, NEW prev, NEW l \in {0, 1}, NEW line,
         NEW q \in 0 .. Lead(r) + n,
         Fits(sizes, r, buf, n),
         Lacks(prev, Len(prev), r.name, Gap(r)),
         BeginsWith(line, l, q, Rest(r, buf, n))
  PROVE  Sound(sizes, line, l + q) /\ Continues(l, prev, line, l + q)
<1> USE DEF Fits, BeginsWith, Gap
<1> DEFINE rest == Rest(r, buf, n)
<1>1. /\ Lead(r) \in {0, 1}
      /\ Lead(r) = 1 => rest[1] = MultiVol(r.name, r.left, r.total - r.left)
      /\ Lead(r) = 0 <=> r.name = NoName
  <2>1. Lead(r) \in {0, 1} /\ (Lead(r) = 0 <=> r.name = NoName)  BY DEF Lead
  <2>2. Lead(r) = 1 => 1 \in 1 .. Lead(r) + n  BY <2>1
  <2> QED  BY <2>1, <2>2 DEF Rest
<1>2. ASSUME NEW k \in Lead(r) + 1 .. Lead(r) + n
      PROVE  rest[k] = buf[k - Lead(r) - 1] /\ k - Lead(r) - 1 \in 0 .. n - 1
  <2>1. k \in 1 .. Lead(r) + n /\ ~ k <= Lead(r)  BY <1>1
  <2> QED  BY <1>1, <2>1 DEF Rest
<1>3. ASSUME NEW k \in 1 .. l  PROVE  line[k] = VolHdr(0)
  <2>1. k \in 1 .. l + q /\ k <= l  OBVIOUS
  <2> QED  BY <2>1
<1>4. ASSUME NEW k \in 1 .. q  PROVE  line[l + k] = rest[k] /\ k \in 1 .. Lead(r) + n
  <2>1. l + k \in 1 .. l + q /\ ~ l + k <= l /\ (l + k) - l = k  BY <1>1
  <2> QED  BY <2>1, <1>1
<1> HIDE DEF rest
<1>5. Sound(sizes, line, l + q)
  <2>1. Sound(sizes, rest, q)
    <3>1. q \in 0 .. Lead(r) + n /\ Lead(r) + n \in Nat  BY <1>1
    <3> QED  BY <3>1, SoundPrefix DEF Prolongs, rest
  <2>2. \A k \in 1 .. l : ~ IsHead(line[k])  BY <1>3 DEF IsHead, VolHdr
  <2>3. q \in Nat /\ l \in Nat  BY <1>1
  <2> QED  BY <2>1, <2>2, <2>3, <1>4, SoundShifted
<1>6. l + q > l =>
        IF line[l + 1].kind = "multivol"
        THEN Lacks(prev, Len(prev), line[l + 1].name, line[l + 1].size)
        ELSE line[l + 1].kind # "data" /\ Lacks(prev, Len(prev), NoName, 0)
  <2> SUFFICES ASSUME q > 0
               PROVE  IF rest[1].kind = "multivol"
                      THEN Lacks(prev, Len(prev), rest[1].name, rest[1].size)
                      ELSE rest[1].kind # "data" /\ Lacks(prev, Len(prev), NoName, 0)
    <3>1. q \in Nat /\ (q > 0 => 1 \in 1 .. q)  BY <1>1
    <3> QED  BY <3>1, <1>4
  <2>1. CASE Lead(r) = 1  BY <2>1, <1>1 DEF MultiVol
  <2>2. CASE Lead(r) = 0
    <3>1. 1 \in Lead(r) + 1 .. Lead(r) + n /\ 1 - Lead(r) - 1 = 0 /\ n > 0  BY <2>2
    <3>2. rest[1] = buf[0] /\ 0 \in 0 .. n - 1  BY <3>1, <1>2
    <3> QED  BY <2>2, <3>1, <3>2, <1>1
  <2> QED  BY <2>1, <2>2, <1>1
<1>7. ASSUME NEW k \in 1 .. l + q, line[k].kind = "multivol"  PROVE k = l + 1
  <2>1. k > l
    <3> SUFFICES ASSUME k <= l PROVE FALSE  OBVIOUS
    <3> QED  BY <1>3, <1>7 DEF VolHdr
  <2>2. k - l \in 1 .. q /\ l + (k - l) = k  BY <2>1, <1>1
  <2>3. line[k] = rest[k - l] /\ k - l \in 1 .. Lead(r) + n  BY <2>2, <1>4
  <2>4. ~ k - l \in Lead(r) + 1 .. Lead(r) + n  BY <2>3, <1>2, <1>7
  <2> QED  BY <2>2, <2>3, <2>4, <1>1
<1>8. l = 1 /\ l + q > 0 => line[1] = VolHdr(0)  BY <1>3
<1> QED  BY <1>5, <1>6, <1>7, <1>8 DEF Continues
-----------------------------------------------------------------------------
(* A step of create.c that stores p blocks, or none: they carry on what    *)
(* was stored, wherever it is.                                             *)
CarriesOn(p) ==
  \A s, t : \A n \in Nat :
    /\ Sound(size, s, n) /\ Lacks(s, n, current, left)
    /\ Prolongs(t, s, n) /\ \A i \in 1 .. p : t[n + i] = record'[cur + i - 1]
    => Sound(size, t, n + p) /\ Lacks(t, n + p, current', left')

Stores(p) ==
  /\ nv = "none" /\ ~ Stopped /\ ~ Stopped'
  /\ UNCHANGED <<setting, size, volumes, real, nv>>
  /\ cur' = cur + p /\ \A i \in 0 .. cur - 1 : record'[i] = record[i]
  /\ CarriesOn(p)
  /\ \A i \in 1 .. p : record'[cur + i - 1].kind # "multivol"
  /\ IF p = 0 THEN left' = left ELSE record'[cur].kind = "data" => left > 0
  /\ Closing' => pc' = "close1" /\ cur' > 0 /\ ZerosFollow'

LEMMA StoreKeeps ==
  ASSUME Typed, Typed', Safe, NEW p \in Nat, Stores(p)
  PROVE  Safe'
<1>0. /\ nv = "none" /\ ~ Stopped /\ ~ Stopped'
      /\ setting' = setting /\ size' = size /\ volumes' = volumes /\ real' = real /\ nv' = nv
  BY DEF Stores
<1>a. CarriesOn(p)  BY DEF Stores
<1>b. cur' = cur + p /\ \A i \in 0 .. cur - 1 : record'[i] = record[i]
  BY DEF Stores
<1>c. \A i \in 1 .. p : record'[cur + i - 1].kind # "multivol"
  BY DEF Stores
<1>d. IF p = 0 THEN left' = left ELSE record'[cur].kind = "data" => left > 0
  BY DEF Stores
<1>e. Closing' => pc' = "close1" /\ cur' > 0 /\ ZerosFollow'
  BY DEF Stores
<1>1. /\ Level' = Level + p /\ Prolongs(Line', Line, Level)
      /\ \A i \in 1 .. p : Line'[Level + i] = record'[cur + i - 1]
  BY <1>0, <1>b, LineGrows
<1>2. /\ Level \in Nat /\ LabelSize \in Nat /\ cur \in Nat
      /\ Len(volumes) \in Nat /\ Len(volumes) >= 1
  <2>1. Level \in Nat /\ LabelSize \in Nat  BY LineFacts
  <2>2. cur \in Nat /\ Len(volumes) \in Nat /\ Len(volumes) >= 1  BY WriterAssumption DEF Typed
  <2> QED  BY <2>1, <2>2
<1>s. Sound(size, Line, Level) /\ Lacks(Line, Level, current, left)
  BY <1>0 DEF Safe, LastVolume, Storing
<1>3. Sound(size, Line', Level') /\ Lacks(Line', Level', current', left')
  BY <1>a, <1>1, <1>2, <1>s DEF CarriesOn
<1>4. /\ Mounted' = Mounted /\ LabelSize' = LabelSize /\ (Fresh' <=> Fresh)
      /\ (multi_volume_option' <=> multi_volume_option) /\ Lead(real') = Lead(real)
  BY <1>0 DEF Mounted, Fresh, LabelSize, volume_label_option, multi_volume_option
<1>5. LastVolume'
  <2>1. \A i \in 1 .. p : Line'[Level + i].kind # "multivol"  BY <1>c, <1>1
  <2>2. ASSUME Len(volumes) = 1
        PROVE  \A k \in 1 .. Level + p : Line'[k].kind # "multivol"
    <3>1. \A k \in 1 .. Level : Line'[k].kind # "multivol"
      BY <2>2, <1>1 DEF Safe, LastVolume, Prolongs
    <3>2. ASSUME NEW k \in 1 .. Level + p  PROVE Line'[k].kind # "multivol"
      <4>1. k <= Level => k \in 1 .. Level  BY <1>2
      <4>2. k > Level => k - Level \in 1 .. p /\ Level + (k - Level) = k  BY <1>2
      <4> QED  BY <4>1, <4>2, <2>1, <3>1, <1>2
    <3> QED  BY <3>2
  <2>3. ASSUME Len(volumes) # 1
        PROVE  Continues(LabelSize, volumes[Len(volumes) - 1], Line', Level + p)
    <3>1. Len(volumes) > 1
      BY <2>3, <1>2, AboveOne
    <3>2. Continues(LabelSize, volumes[Len(volumes) - 1], Line, Level) /\ Level > LabelSize
      BY <2>3, <3>1, <1>0 DEF Safe, LastVolume, Storing
    <3> QED  BY <3>2, <2>1, <1>1, <1>2, ContinuesProlonged
  <2>4. Mounted # <<>> => Len(Mounted) >= BF  BY DEF Safe, LastVolume
  <2>5. Level' = Level + p  BY <1>1
  <2> QED  BY <2>2, <2>3, <2>4, <2>5, <1>0, <1>3, <1>4 DEF LastVolume
<1>6. ASSUME multi_volume_option, ~ Fresh
      PROVE  /\ Movable(record, cur)' /\ EndsAt(Mounted)'
             /\ cur' = 0 /\ left' > 0 => Lead(real) = 1
  <2> DEFINE old == Rest(real, record, cur)
             new == Rest(real, record', cur + p)
  <2>1. /\ Movable(record, cur) /\ EndsAt(Mounted)
        /\ cur = 0 /\ left > 0 => Lead(real) = 1
    BY <1>0, <1>6 DEF Safe, Storing
  <2>2. /\ Lead(real) \in {0, 1} /\ Prolongs(new, old, Lead(real) + cur)
        /\ \A i \in 1 .. p : new[Lead(real) + cur + i] = record'[cur + i - 1]
    <3>1. new = Rest(real, record', cur + p) /\ old = Rest(real, record, cur)  OBVIOUS
    <3>2. cur \in Nat /\ cur + p \in Nat /\ cur <= cur + p /\ (cur + p) - cur = p  BY <1>2
    <3> HIDE DEF old, new
    <3>3. /\ Prolongs(new, old, Lead(real) + cur)
          /\ \A i \in 1 .. (cur + p) - cur :
               new[(Lead(real) + cur) + i] = record'[cur + i - 1]
      BY <3>1, <3>2, <1>b, RestGrows
    <3>4. Lead(real) \in {0, 1}  BY DEF Lead
    <3> QED  BY <3>2, <3>3, <3>4
  <2> HIDE DEF old, new
  <2>3. Sound(size, old, Lead(real) + cur) /\ Lacks(old, Lead(real) + cur, current, left)
    BY <2>1 DEF Movable, Fits, old
  <2>4. Lead(real) + cur \in Nat /\ (Lead(real) + cur) + p = Lead(real) + cur'
    BY <1>b, <1>2, <2>2
  <2>5. /\ Sound(size, new, Lead(real) + cur')
        /\ Lacks(new, Lead(real) + cur', current', left')
    BY <1>a, <2>2, <2>3, <2>4 DEF CarriesOn
  <2>6. ASSUME Lead(real) = 0, cur' > 0  PROVE record'[0].kind # "data"
    <3>1. CASE cur > 0
      <4>1. 0 \in 0 .. cur - 1 /\ record'[0] = record[0]  BY <3>1, <1>b, <1>2
      <4> QED  BY <4>1, <3>1, <2>1, <2>6 DEF Movable, Fits
    <3>2. CASE cur = 0  BY <3>2, <1>b, <1>d, <2>1, <2>6
    <3> QED  BY <3>1, <3>2, <1>2
  <2>7. ASSUME NEW i \in 0 .. cur' - 1  PROVE record'[i].kind # "multivol"
    <3>1. CASE i < cur
      <4>1. i \in 0 .. cur - 1  BY <3>1, <1>2
      <4> QED  BY <4>1, <1>b, <2>1 DEF Movable, Fits
    <3>2. CASE i >= cur
      <4>1. (i - cur) + 1 \in 1 .. p /\ cur + ((i - cur) + 1) - 1 = i  BY <3>2, <1>b, <1>2
      <4> QED  BY <4>1, <1>c
    <3> QED  BY <3>1, <3>2, <1>2
  <2>8. Movable(record, cur)'
    <3>1. new = Rest(real', record', cur')  BY <1>0, <1>b DEF new
    <3> QED  BY <3>1, <2>5, <2>6, <2>7, <1>0 DEF Movable, Fits
  <2>9. EndsAt(Mounted)'  BY <2>1, <1>0, <1>4 DEF EndsAt
  <2>10. cur' = 0 /\ left' > 0 => Lead(real) = 1  BY <2>1, <1>b, <1>d, <1>2
  <2> QED  BY <2>8, <2>9, <2>10
<1>7. Storing'
  <2>1. Len(volumes') > 1 => Level' > LabelSize'
    BY <1>0, <1>1, <1>2, <1>4 DEF Safe, Storing
  <2> QED  BY <2>1, <1>e, <1>3, <1>4, <1>6 DEF Storing, Closing
<1>8. FullVolumes' /\ Moving' /\ Finishing'
  BY <1>0, <1>4 DEF Safe, FullVolumes, Moving, Finishing, Stopped
<1> QED  BY <1>5, <1>7, <1>8 DEF Safe

(* Data, what belongs to no member, or a header.                           *)
LEMMA CarriesData ==
  ASSUME Typed, NEW p \in 0 .. left, current \in Names, current' = current, left' = left - p,
         \A i \in 1 .. p : record'[cur + i - 1] = Data(current, size[current] - left + i - 1)
  PROVE  CarriesOn(p)
<1> SUFFICES ASSUME NEW s, NEW t, NEW n \in Nat,
                    Sound(size, s, n), Lacks(s, n, current, left), Prolongs(t, s, n),
                    \A i \in 1 .. p : t[n + i] = record'[cur + i - 1]
             PROVE  Sound(size, t, n + p) /\ Lacks(t, n + p, current, left - p)
  BY DEF CarriesOn
<1>1. \A i \in 1 .. p : t[n + i] = Data(current, size[current] - left + i - 1)  OBVIOUS
<1>2. left \in Nat /\ size \in [Names -> Nat]  BY DEF Typed
<1> QED  BY <1>1, <1>2, DataStored

LEMMA CarriesOthers ==
  ASSUME Typed, NEW p \in Nat, left = 0, left' = 0,
         \A i \in 1 .. p : ~ IsHead(record'[cur + i - 1])
  PROVE  CarriesOn(p)
<1> SUFFICES ASSUME NEW s, NEW t, NEW n \in Nat,
                    Sound(size, s, n), Lacks(s, n, current, 0), Prolongs(t, s, n),
                    \A i \in 1 .. p : t[n + i] = record'[cur + i - 1]
             PROVE  Sound(size, t, n + p) /\ Lacks(t, n + p, current', 0)
  BY DEF CarriesOn
<1>1. Nobody(t, n, p)  BY DEF Nobody
<1> QED  BY <1>1, OthersStored

LEMMA CarriesHead ==
  ASSUME Typed, left = 0, current' \in Names, left' = size[current'],
         record'[cur] = Header(current', size[current'])
  PROVE  CarriesOn(1)
<1> SUFFICES ASSUME NEW s, NEW t, NEW n \in Nat,
                    Sound(size, s, n), Lacks(s, n, current, 0), Prolongs(t, s, n),
                    \A i \in 1 .. 1 : t[n + i] = record'[cur + i - 1]
             PROVE  Sound(size, t, n + 1) /\ Lacks(t, n + 1, current', size[current'])
  BY DEF CarriesOn
<1>1. 1 \in 1 .. 1 /\ cur + 1 - 1 = cur  BY DEF Typed
<1>2. t[n + 1] = Header(current', size[current'])  BY <1>1
<1>3. size \in [Names -> Nat]  BY DEF Typed
<1> QED  BY <1>2, <1>3, HeadStored

LEMMA StoredAt ==
  ASSUME Typed, NEW b, cur < BF, Store(b)
  PROVE  /\ cur' = cur + 1 /\ record'[cur] = b
         /\ \A i \in 0 .. cur - 1 : record'[i] = record[i]
         /\ \A i \in 1 .. 1 : record'[cur + i - 1] = b
         /\ cur \in Nat
<1>1. cur \in Slots /\ cur \in Nat /\ BF \in Nat  BY WriterAssumption DEF Typed, Slots
<1>2. record'[cur] = b  BY <1>1 DEF Store, Typed
<1>3. \A i \in 0 .. cur - 1 : record'[i] = record[i]
  <2>1. \A i \in 0 .. cur - 1 : i \in Slots /\ i # cur  BY <1>1 DEF Slots
  <2> QED  BY <2>1 DEF Store, Typed
<1>4. \A i \in 1 .. 1 : cur + i - 1 = cur  BY <1>1
<1> QED  BY <1>1, <1>2, <1>3, <1>4 DEF Store

LEMMA FilledAt ==
  ASSUME Typed, Place, pc = "fill", nv = "none", cur < BF, FillData(Chunk)
  PROVE  /\ Chunk \in 1 .. left /\ Chunk <= BF - cur /\ cur \in Nat
         /\ \A i \in 0 .. cur - 1 : record'[i] = record[i]
         /\ \A i \in 1 .. Chunk :
              record'[cur + i - 1] = Data(current, size[current] - left + i - 1)
<1>1. left \in Nat /\ left > 0 /\ cur \in Nat /\ BF \in Nat
  BY WriterAssumption DEF Typed, Place
<1>2. Chunk \in 1 .. left /\ Chunk <= BF - cur  BY <1>1 DEF Chunk, Lesser
<1> HIDE DEF Chunk
<1>3. ASSUME NEW i \in 0 .. cur - 1  PROVE record'[i] = record[i]
  <2>1. i \in Slots /\ ~ i \in cur .. cur + Chunk - 1  BY <1>1, <1>2 DEF Slots
  <2> QED  BY <2>1 DEF FillData
<1>4. ASSUME NEW i \in 1 .. Chunk
      PROVE  record'[cur + i - 1] = Data(current, size[current] - left + i - 1)
  <2>1. /\ cur + i - 1 \in Slots /\ cur + i - 1 \in cur .. cur + Chunk - 1
        /\ (cur + i - 1) - cur = i - 1
    BY <1>1, <1>2 DEF Slots
  <2>2. record'[cur + i - 1] = Data(current, size[current] - left + (i - 1))
    BY <2>1 DEF FillData
  <2>3. current \in Names /\ size[current] \in Nat
    BY GivenTypes DEF Place, InMember
  <2>4. size[current] - left + (i - 1) = size[current] - left + i - 1
    BY <2>3, <1>1
  <2> QED  BY <2>2, <2>4
<1> QED  BY <1>1, <1>2, <1>3, <1>4

(* What create.c does keeps the volumes safe.                              *)
Creates ==
  \/ WriteLabel \/ NextMember \/ WriteHeader \/ SizeLeft
  \/ FillFull \/ (\E count \in ShortCounts : FillShort(count)) \/ ReadError \/ Pad
  \/ EndMember \/ StartEot \/ Eot1 \/ Eot2

LEMMA CreatesStores ==
  ASSUME Typed, Place, WholeRecords, nv = "none", Creates
  PROVE  \E p \in Nat : Stores(p)
<1> USE DEF given, device, buffer, tracking, dump, HasRoom, Stopped, Closing
<1> DEFINE Kept == UNCHANGED <<setting, size, volumes, real, nv>>
<1>0. /\ left \in Nat /\ cur \in Nat /\ Typed
      /\ todo > 0 => current \in Names /\ size[current] \in Nat
  BY GivenTypes DEF Typed
<1>n. ASSUME UNCHANGED <<cur, record, left>>, CarriesOn(0), ~ Stopped, ~ Stopped', ~ Closing', Kept
      PROVE  Stores(0)
  BY <1>n, <1>0 DEF Stores
<1>u. ASSUME todo > 0, UNCHANGED <<cur, record, left, todo>>
      PROVE  CarriesOn(0)
  <2>1. current' = current /\ left' = left - 0 /\ 0 \in 0 .. left
    BY <1>u, <1>0 DEF current
  <2> QED  BY <2>1, <1>u, <1>0, CarriesData
<1>z. ASSUME left = 0, left' = 0  PROVE CarriesOn(0)
  BY <1>z, <1>0, CarriesOthers
<1>1. CASE WriteLabel
  <2>1. cur < BF /\ Store(VolHdr(0))  BY <1>1 DEF WriteLabel, WriteVolumeLabel
  <2>2. \A i \in 1 .. 1 : record'[cur + i - 1] = VolHdr(0)  BY <2>1, StoredAt
  <2>3. left = 0 /\ left' = 0  BY <1>1 DEF WriteLabel, Place, InMember
  <2>4. \A i \in 1 .. 1 : ~ IsHead(record'[cur + i - 1])  BY <2>2 DEF IsHead, VolHdr
  <2>5. CarriesOn(1)  BY <2>3, <2>4, CarriesOthers
  <2> QED  BY <1>1, <2>1, <2>2, <2>5, StoredAt DEF WriteLabel, Stores, VolHdr
<1>2. CASE NextMember
  <2>1. left = 0 /\ left' = 0  BY <1>2 DEF NextMember, Place, InMember
  <2> QED  BY <1>2, <2>1, <1>z, <1>n DEF NextMember
<1>3. CASE WriteHeader
  <2>1. cur < BF /\ Store(Header(current, size[current]))  BY <1>3 DEF WriteHeader
  <2>2. /\ cur' = cur + 1 /\ record'[cur] = Header(current, size[current])
        /\ \A i \in 0 .. cur - 1 : record'[i] = record[i]
        /\ \A i \in 1 .. 1 : record'[cur + i - 1] = Header(current, size[current])
    BY <2>1, StoredAt
  <2>3. left = 0 /\ current' = current /\ current \in Names /\ left' = size[current]
    BY <1>3, <1>0 DEF WriteHeader, Place, InMember, current
  <2>4. CarriesOn(1)  BY <2>2, <2>3, CarriesHead
  <2> QED  BY <1>3, <2>2, <2>4 DEF WriteHeader, Stores, Header
<1>4. CASE SizeLeft
  BY <1>4, <1>u, <1>n DEF SizeLeft, Place, InMember
<1>5. CASE FillFull
  <2>1. /\ Chunk \in 1 .. left
        /\ \A i \in 0 .. cur - 1 : record'[i] = record[i]
        /\ \A i \in 1 .. Chunk :
             record'[cur + i - 1] = Data(current, size[current] - left + i - 1)
    BY <1>5, FilledAt DEF FillFull
  <2>2. current' = current /\ current \in Names /\ left' = left - Chunk /\ cur' = cur + Chunk
    BY <1>5, <1>0 DEF FillFull, Place, InMember, current
  <2>3. CarriesOn(Chunk)  BY <2>1, <2>2, CarriesData
  <2>4. ASSUME NEW i \in 1 .. Chunk  PROVE record'[cur + i - 1].kind # "multivol"
    <3>1. record'[cur + i - 1] = Data(current, size[current] - left + i - 1)  BY <2>1
    <3> QED  BY <3>1 DEF Data
  <2>5. Chunk \in Nat /\ Chunk # 0 /\ left > 0  BY <2>1, <1>0
  <2>6. Stores(Chunk)  BY <1>5, <2>1, <2>2, <2>3, <2>4, <2>5 DEF FillFull, Stores
  <2> QED  BY <2>5, <2>6
<1>6. CASE \E count \in ShortCounts : FillShort(count)
  <2> PICK count \in ShortCounts : FillShort(count)  BY <1>6
  <2>0. count > 0
    BY GivenTypes DEF WholeRecords
  <2>1. /\ Chunk \in 1 .. left
        /\ \A i \in 0 .. cur - 1 : record'[i] = record[i]
        /\ \A i \in 1 .. Chunk :
             record'[cur + i - 1] = Data(current, size[current] - left + i - 1)
    BY FilledAt DEF FillShort
  <2>2. current' = current /\ current \in Names /\ left' = left - Chunk /\ cur' = cur + Chunk
    BY <1>0, <2>0 DEF FillShort, PadAfter, Place, InMember, current
  <2>3. CarriesOn(Chunk)  BY <2>1, <2>2, CarriesData
  <2>4. ASSUME NEW i \in 1 .. Chunk  PROVE record'[cur + i - 1].kind # "multivol"
    <3>1. record'[cur + i - 1] = Data(current, size[current] - left + i - 1)  BY <2>1
    <3> QED  BY <3>1 DEF Data
  <2>5. Chunk \in Nat /\ Chunk # 0 /\ left > 0  BY <2>1, <1>0
  <2>6. Stores(Chunk)  BY <2>1, <2>2, <2>3, <2>4, <2>5 DEF FillShort, Stores
  <2> QED  BY <2>5, <2>6
<1>7. CASE ReadError
  BY <1>7, <1>u, <1>n DEF ReadError, Place, InMember
<1>8. CASE Pad
  <2>1. cur < BF /\ Store(Data(current, size[current] - left))  BY <1>8 DEF Pad
  <2>2. /\ cur' = cur + 1 /\ record'[cur] = Data(current, size[current] - left)
        /\ \A i \in 0 .. cur - 1 : record'[i] = record[i]
        /\ \A i \in 1 .. 1 : record'[cur + i - 1] = Data(current, size[current] - left)
    BY <2>1, StoredAt
  <2>3. /\ current' = current /\ current \in Names /\ size[current] \in Nat
        /\ left > 0 /\ left' = left - 1
    BY <1>8, <1>0 DEF Pad, Place, InMember, current
  <2>4. \A i \in 1 .. 1 : size[current] - left + i - 1 = size[current] - left
    BY <2>3, <1>0
  <2>5. 1 \in 0 .. left  BY <2>3, <1>0
  <2>6. CarriesOn(1)  BY <2>2, <2>3, <2>4, <2>5, CarriesData
  <2> QED  BY <1>8, <2>2, <2>3, <2>6 DEF Pad, Stores, Data
<1>9. CASE EndMember
  BY <1>9, <1>z, <1>n DEF EndMember
<1>10. CASE StartEot
  <2>1. left = 0 /\ left' = 0  BY <1>10 DEF StartEot, Place, InMember
  <2> QED  BY <1>10, <2>1, <1>z, <1>n DEF StartEot
<1>11. CASE Eot1
  <2>1. cur < BF /\ Store(Zero)  BY <1>11 DEF Eot1
  <2>2. \A i \in 1 .. 1 : record'[cur + i - 1] = Zero  BY <2>1, StoredAt
  <2>3. left = 0 /\ left' = 0  BY <1>11 DEF Eot1, Place, InMember
  <2>4. \A i \in 1 .. 1 : ~ IsHead(record'[cur + i - 1])  BY <2>2 DEF IsHead, Zero
  <2>5. CarriesOn(1)  BY <2>3, <2>4, CarriesOthers
  <2> QED  BY <1>11, <2>1, <2>2, <2>5, StoredAt DEF Eot1, Stores, Zero
<1>12. CASE Eot2
  <2>1. /\ cur < BF /\ cur' = cur + 1 /\ record' = ZeroFrom(record, cur) /\ pc' = "close1"
        /\ BF \in Nat
    BY <1>12, WriterAssumption DEF Eot2
  <2>2. \A i \in cur .. BF - 1 : record'[i] = Zero
    BY <2>1, <1>0 DEF ZeroFrom, Slots
  <2>3. \A i \in 0 .. cur - 1 : record'[i] = record[i]
    <3>1. \A i \in 0 .. cur - 1 : i \in Slots /\ i < cur  BY <2>1, <1>0 DEF Slots
    <3> QED  BY <3>1, <2>1 DEF ZeroFrom
  <2>4. \A i \in 1 .. 1 : cur + i - 1 \in cur .. BF - 1  BY <2>1, <1>0
  <2>5. record'[cur] = Zero /\ \A i \in 1 .. 1 : record'[cur + i - 1] = Zero
    BY <2>1, <2>2, <2>4, <1>0
  <2>6. left = 0 /\ left' = 0  BY <1>12 DEF Eot2, Place, InMember
  <2>7. CarriesOn(1)
    <3>1. \A i \in 1 .. 1 : ~ IsHead(record'[cur + i - 1])  BY <2>5 DEF IsHead, Zero
    <3> QED  BY <2>6, <3>1, CarriesOthers
  <2>8. cur' > 0 /\ ZerosFollow'
    <3>1. \A i \in cur + 1 .. BF - 1 : i \in cur .. BF - 1  BY <1>0
    <3> QED  BY <3>1, <2>1, <2>2, <1>0 DEF ZerosFollow
  <2> QED  BY <1>12, <2>1, <2>3, <2>5, <2>7, <2>8 DEF Eot2, Stores, Zero
<1> QED  BY <1>1, <1>2, <1>3, <1>4, <1>5, <1>6, <1>7, <1>8, <1>9, <1>10, <1>11, <1>12
         DEF Creates
-----------------------------------------------------------------------------
(* Nothing more is written.                                                *)
LEMMA StopKeeps ==
  ASSUME Typed, Safe, UNCHANGED <<setting, size, volumes, record, cur>>, Mounted # <<>>,
         pc' = "fatal" \/ (pc' = "done" /\ cur = 0 /\ nv' = "none")
  PROVE  Safe'
<1>1. /\ Mounted' = Mounted /\ LabelSize' = LabelSize /\ Level' = Level /\ Line' = Line
      /\ Stopped'
  BY DEF Mounted, LabelSize, volume_label_option, Level, Line, Stopped
<1> QED  BY <1>1 DEF Safe, Storing, Moving, FullVolumes, LastVolume, Finishing

(* A volume that is full has room for a record more than its beginning.    *)
LEMMA FullIsLong ==
  ASSUME Typed, WholeRecords, MayEnd
  PROVE  Len(Mounted) > BF + 2 /\ ~ Fresh /\ Mounted # <<>>
<1>1. /\ BF \in Nat /\ MinRecords \in Nat /\ Len(Mounted) \in Nat
      /\ (MinRecords - 1) * BF > 2 /\ Len(Mounted) >= MinRecords * BF
  BY GivenTypes DEF WholeRecords, MayEnd
<1>2. MinRecords * BF = (MinRecords - 1) * BF + BF  BY <1>1
<1>3. MinRecords * BF \in Nat /\ (MinRecords - 1) * BF \in Int  BY <1>1
<1>4. Len(Mounted) > BF + 2  BY <1>1, <1>2, <1>3
<1>5. Mounted # <<>>  BY <1>1, <1>4
<1> QED  BY <1>1, <1>4, <1>5 DEF Fresh

(* A record is written: what was mounted, and zeros to its end.            *)
LEMMA RecordIsLine ==
  ASSUME Typed, Typed', WriteRecord, cur' = 0
  PROVE  /\ Level \in Nat /\ Level' = Level + (BF - cur) /\ BF - cur \in Nat
         /\ Level' = Len(Mounted') /\ Level' >= BF /\ Mounted' # <<>>
         /\ \A k \in 1 .. Level' : Line'[k] = Mounted'[k]
         /\ Prolongs(Line', Line, Level)
         /\ ZerosFollow /\ cur > 0 => \A i \in 1 .. BF - cur : Line'[Level + i] = Zero
<1>1. /\ Len(Mounted) \in Nat /\ cur \in 0 .. BF /\ BF \in Nat \ {0}
      /\ Len(Mounted') = Len(Mounted) + BF
      /\ \A k \in 1 .. Len(Mounted) : Mounted'[k] = Mounted[k]
      /\ \A i \in Slots : Mounted'[Len(Mounted) + i + 1] = record[i]
  <2>1. cur \in 0 .. BF /\ BF \in Nat \ {0}  BY WriterAssumption DEF Typed
  <2>2. Len(Mounted) \in Nat  BY GivenTypes
  <2> QED  BY <2>1, <2>2, RecordWritten
<1>2. /\ Level = Len(Mounted) + cur /\ Level' = Len(Mounted')  BY <1>1 DEF Level
<1>3. \A k \in 1 .. Level' : Line'[k] = Mounted'[k]
  BY <1>1, <1>2 DEF Line
<1>4. ASSUME NEW k \in 1 .. Level  PROVE Line'[k] = Line[k]
  <2>1. k \in 1 .. Level' /\ Line'[k] = Mounted'[k]  BY <1>1, <1>2, <1>3
  <2>2. CASE k <= Len(Mounted)  BY <2>1, <2>2, <1>1, <1>4, LineFacts
  <2>3. CASE k > Len(Mounted)
    <3>1. /\ k - Len(Mounted) - 1 \in Slots /\ k - Len(Mounted) - 1 \in 0 .. cur - 1
          /\ Len(Mounted) + (k - Len(Mounted) - 1) + 1 = k
      BY <2>3, <1>1, <1>2 DEF Slots
    <3> QED  BY <2>1, <3>1, <1>1, LineFacts
  <2> QED  BY <2>2, <2>3, <1>1
<1>5. ASSUME ZerosFollow, cur > 0, NEW i \in 1 .. BF - cur  PROVE Line'[Level + i] = Zero
  <2>1. /\ cur + i - 1 \in Slots /\ cur + i - 1 \in cur .. BF - 1
        /\ Len(Mounted) + (cur + i - 1) + 1 = Level + i /\ Level + i \in 1 .. Level'
    BY <1>1, <1>2 DEF Slots
  <2> QED  BY <2>1, <1>1, <1>3, <1>5 DEF ZerosFollow
<1>6. Mounted' # <<>>
  BY <1>1
<1>7. Level \in Nat /\ Level' = Level + (BF - cur) /\ BF - cur \in Nat /\ Level' >= BF
  BY <1>1, <1>2
<1>8. Prolongs(Line', Line, Level)  BY <1>4 DEF Prolongs
<1>9. ZerosFollow /\ cur > 0 => \A i \in 1 .. BF - cur : Line'[Level + i] = Zero
  BY <1>5
<1> QED  BY <1>2, <1>3, <1>6, <1>7, <1>8, <1>9

LEMMA FlushWholeKeeps ==
  ASSUME Typed, Typed', Place, Place', Told, Told', WholeRecords, Safe, FlushWhole
  PROVE  Safe'
<1>0. /\ nv = "none" /\ ~ Stopped /\ ~ Stopped' /\ cur' = 0 /\ WriteRecord /\ MultiVolumeSync
      /\ UNCHANGED <<setting, size, nv, save, todo, left>> /\ pc' = AfterFlush(pc)
      /\ current' = current
      /\ \/ InMember /\ pc \in {"fill", "padfill"} /\ cur = BF
         \/ ~ InMember /\ left = 0 /\ (cur = BF \/ (Closing /\ cur > 0))
         \/ pc = "close1" /\ left = 0
  <2>1. /\ nv = "none" /\ cur' = 0 /\ WriteRecord /\ MultiVolumeSync
        /\ UNCHANGED <<setting, size, nv, save, todo, left>> /\ pc' = AfterFlush(pc)
    BY DEF FlushWhole, FlushPoint, given
  <2>2. current' = current  BY <2>1 DEF current
  <2>3. \/ pc \in {"label", "header", "fill", "padfill", "eot1", "eot2"} /\ cur = BF
        \/ pc = "close1" \/ (pc = "close2" /\ cur > 0)
    BY DEF FlushWhole, FlushPoint
  <2>4. ~ Stopped /\ ~ Stopped'  BY <2>1, <2>3 DEF Stopped, AfterFlush
  <2>5. ~ InMember => left = 0  BY <2>4 DEF Place
  <2>6. \/ InMember /\ pc \in {"fill", "padfill"} /\ cur = BF
        \/ ~ InMember /\ left = 0 /\ (cur = BF \/ (Closing /\ cur > 0))
        \/ pc = "close1" /\ left = 0
    <3>1. CASE pc \in {"label", "header", "eot1", "eot2"} /\ cur = BF
      <4>1. ~ InMember  BY <3>1 DEF InMember
      <4> QED  BY <4>1, <3>1, <2>5
    <3>2. CASE pc \in {"fill", "padfill"} /\ cur = BF  BY <3>2 DEF InMember
    <3>3. CASE pc = "close1"  BY <3>3, <2>5 DEF InMember
    <3>4. CASE pc = "close2" /\ cur > 0  BY <3>4, <2>5 DEF InMember, Closing
    <3> QED  BY <3>1, <3>2, <3>3, <3>4, <2>3
  <2> QED  BY <2>1, <2>2, <2>4, <2>6
<1>1. /\ Level \in Nat /\ Level' = Level + (BF - cur) /\ BF - cur \in Nat
      /\ Level' = Len(Mounted') /\ Level' >= BF /\ Mounted' # <<>>
      /\ \A k \in 1 .. Level' : Line'[k] = Mounted'[k]
      /\ Prolongs(Line', Line, Level)
      /\ ZerosFollow /\ cur > 0 => \A i \in 1 .. BF - cur : Line'[Level + i] = Zero
  BY <1>0, RecordIsLine
<1>2. /\ Sound(size, Line, Level) /\ Lacks(Line, Level, current, left)
      /\ Len(volumes) > 1 => Level > LabelSize
      /\ Closing => ZerosFollow
      /\ pc = "close1" => cur > 0
  BY <1>0 DEF Safe, LastVolume, Storing
<1>3. /\ LabelSize' = LabelSize /\ LabelSize \in Nat
      /\ (multi_volume_option' <=> multi_volume_option)
      /\ Len(volumes') = Len(volumes) /\ Len(volumes) \in Nat /\ Len(volumes) >= 1
      /\ \A v \in 1 .. Len(volumes) - 1 : volumes'[v] = volumes[v]
      /\ cur \in Nat /\ BF \in Nat /\ left \in Nat /\ size \in [Names -> Nat]
  <2>1. LabelSize' = LabelSize /\ (multi_volume_option' <=> multi_volume_option)
    BY <1>0 DEF LabelSize, volume_label_option, multi_volume_option
  <2>2. cur \in Nat /\ BF \in Nat /\ left \in Nat /\ Len(volumes) \in Nat /\ Len(volumes) >= 1
    BY WriterAssumption DEF Typed
  <2>3. LabelSize \in Nat  BY LineFacts
  <2>4. size \in [Names -> Nat]  BY DEF Typed
  <2> QED  BY <2>1, <2>2, <2>3, <2>4, <1>0, RecordWritten
<1>4. \A i \in 1 .. BF - cur : Line'[Level + i] = Zero
  <2>1. CASE cur = BF  BY <2>1, <1>3
  <2>2. CASE Closing /\ cur > 0  BY <2>2, <1>1, <1>2
  <2>3. pc = "close1" => Closing /\ cur > 0  BY <1>2 DEF Closing
  <2> QED  BY <2>1, <2>2, <2>3, <1>0
<1>5. Sound(size, Line', Level') /\ Lacks(Line', Level', current, left)
  <2>1. CASE cur = BF
    <3>1. Level' = Level  BY <2>1, <1>1, <1>3
    <3>2. \A k \in 1 .. Level : Line'[k] = Line[k]  BY <1>1 DEF Prolongs
    <3>3. Sound(size, Line', Level')
      <4>1. Level \in 0 .. Level  BY <1>1
      <4> QED  BY <4>1, <3>1, <1>1, <1>2, SoundPrefix
    <3>4. Lacks(Line', Level', current, left)
      BY <3>1, <3>2, <1>2 DEF Lacks, IsHead
    <3> QED  BY <3>3, <3>4
  <2>2. CASE left = 0
    <3>1. Nobody(Line', Level, BF - cur)  BY <1>4 DEF Nobody, IsHead, Zero
    <3> QED  BY <2>2, <3>1, <1>1, <1>2, OthersStored
  <2> QED  BY <2>1, <2>2, <1>0
<1>6. ~ InMember => left = 0 /\ \A name : Lacks(Line', Level', name, 0)
  <2>1. ~ InMember => left = 0  BY <1>0 DEF Place
  <2>2. ASSUME left = 0  PROVE \A name : Lacks(Line', Level', name, 0)
    <3>1. Nobody(Line', Level, BF - cur)  BY <1>4 DEF Nobody, IsHead, Zero
    <3> QED  BY <2>2, <3>1, <1>1, <1>2, OthersStored
  <2> QED  BY <2>1, <2>2
<1>7. LastVolume'
  <2>1. \A i \in 1 .. BF - cur : Line'[Level + i].kind # "multivol"  BY <1>4 DEF Zero
  <2>2. ASSUME Len(volumes) = 1
        PROVE  \A k \in 1 .. Level' : Line'[k].kind # "multivol"
    <3>1. \A k \in 1 .. Level : Line'[k].kind # "multivol"
      BY <2>2, <1>1 DEF Safe, LastVolume, Prolongs
    <3>2. ASSUME NEW k \in 1 .. Level'  PROVE Line'[k].kind # "multivol"
      <4>1. k <= Level => k \in 1 .. Level  BY <1>1
      <4>2. k > Level => k - Level \in 1 .. BF - cur /\ Level + (k - Level) = k  BY <1>1
      <4> QED  BY <4>1, <4>2, <2>1, <3>1, <1>1
    <3> QED  BY <3>2
  <2>3. ASSUME Len(volumes) # 1
        PROVE  Continues(LabelSize, volumes'[Len(volumes) - 1], Line', Level')
    <3>1. Len(volumes) > 1
      BY <2>3, <1>3, AboveOne
    <3>2. Continues(LabelSize, volumes[Len(volumes) - 1], Line, Level) /\ Level > LabelSize
      BY <2>3, <3>1, <1>2 DEF Safe, LastVolume
    <3>3. Continues(LabelSize, volumes[Len(volumes) - 1], Line', Level + (BF - cur))
      BY <3>2, <2>1, <1>1, <1>3, ContinuesProlonged
    <3>4. volumes'[Len(volumes) - 1] = volumes[Len(volumes) - 1]
      <4>1. Len(volumes) - 1 \in 1 .. Len(volumes) - 1  BY <3>1, <1>3
      <4> QED  BY <4>1, <1>3
    <3> QED  BY <3>3, <3>4, <1>1
  <2>4. Len(Mounted') >= BF  BY <1>1
  <2> QED  BY <2>2, <2>3, <2>4, <1>0, <1>3, <1>5 DEF LastVolume
<1>8. /\ real'.name # NoName => real' = save /\ InMember /\ multi_volume_option
      /\ InMember /\ multi_volume_option =>
           real' = save /\ save.name = current /\ save.left = left /\ current # NoName
  <2>1. InMember /\ multi_volume_option =>
          save.name = current /\ save.left = left /\ current # NoName
    <3>1. InMember => current \in Names  BY GivenTypes DEF Place
    <3>2. InMember => pc \in {"fill", "padfill"}  BY <1>0 DEF InMember
    <3> QED  BY <3>1, <3>2, <1>0, NoNameAssumption DEF Told
  <2>2. ~ InMember /\ multi_volume_option => save.name = NoName  BY <1>0 DEF Told
  <2>3. ~ multi_volume_option => real' = real /\ real.name = NoName
    BY <1>0 DEF MultiVolumeSync, Told
  <2> QED  BY <2>1, <2>2, <2>3, <1>0 DEF MultiVolumeSync, NoMember
<1>9. ASSUME multi_volume_option
      PROVE  Movable(record, cur)' /\ EndsAt(Mounted)' /\ (left > 0 => Lead(real') = 1)
  <2> DEFINE rest == Rest(real', record', 0)
  <2>1. InMember \/ left = 0  BY <1>6
  <2>2. CASE real'.name = NoName
    <3>1. ~ InMember /\ left = 0 /\ Lead(real') = 0  BY <2>1, <2>2, <1>8, <1>9 DEF Lead
    <3>2. Movable(record, cur)'
      BY <3>1, <1>0, <1>3 DEF Movable, Fits, Sound, HeadsTrue, RunsOn, Lacks
    <3>3. Lacks(Line', Level', real'.name, 0)  BY <3>1, <1>6
    <3>4. EndsAt(Mounted)'
      BY <3>1, <3>3, <1>1 DEF EndsAt, Gap, Lacks, IsHead
    <3> QED  BY <3>1, <3>2, <3>4
  <2>3. CASE real'.name # NoName
    <3>1. /\ Lead(real') = 1 /\ real'.name = current /\ real'.left = left
          /\ current \in Names /\ size[current] \in Nat
          /\ real'.left \in 1 .. real'.total /\ real'.total = size[current]
      <4>1. current \in Names /\ size[current] \in Nat
        BY <2>3, <1>8, GivenTypes DEF Place
      <4>2. real'.left \in 1 .. real'.total /\ real'.total = size[real'.name]
        BY <2>3, <1>0 DEF Told
      <4> QED  BY <4>1, <4>2, <2>3, <1>8, <1>9 DEF Lead
    <3>2. rest[1] = MultiVol(current, left, size[current] - left) /\ 1 + 0 = 1
      BY <3>1, RestBlocks
    <3> HIDE DEF rest
    <3>3. Sound(size, rest, 1)
      BY <3>1, <3>2, <1>3 DEF Sound, HeadsTrue, RunsOn, MultiVol
    <3>4. Lacks(rest, 1, current, left)  BY <3>2 DEF Lacks, MultiVol
    <3>5. Movable(record, cur)'
      <4>1. /\ Sound(size', rest, Lead(real') + cur') /\ Lacks(rest, Lead(real') + cur', current', left')
            /\ rest = Rest(real', record', cur')
        BY <3>1, <3>2, <3>3, <3>4, <1>0 DEF rest
      <4>2. \A i \in 0 .. cur' - 1 : record'[i].kind # "multivol"  BY <1>0
      <4> QED  BY <4>1, <4>2, <3>1 DEF Movable, Fits
    <3>6. EndsAt(Mounted)'
      <4>1. Lacks(Line', Level', real'.name, real'.left)  BY <3>1, <1>5
      <4> QED  BY <4>1, <3>1, <1>1 DEF EndsAt, Gap, Lacks, IsHead
    <3> QED  BY <3>1, <3>5, <3>6
  <2> QED  BY <2>2, <2>3
<1>10. Storing'
  <2>1. Len(volumes') > 1 => Level' > LabelSize'
    BY <1>1, <1>2, <1>3
  <2>2. pc' # "close1" /\ (Closing' => ZerosFollow')  BY <1>0 DEF AfterFlush, ZerosFollow
  <2> QED  BY <2>1, <2>2, <1>0, <1>1, <1>3, <1>5, <1>9 DEF Storing
<1>11. FullVolumes'
  <2>1. \A v \in 1 .. Len(volumes) - 1 : volumes'[v] = volumes[v]  BY <1>3
  <2>2. \A v \in 2 .. Len(volumes) - 1 :
          volumes'[v] = volumes[v] /\ volumes'[v - 1] = volumes[v - 1]
    <3>1. \A v \in 2 .. Len(volumes) - 1 :
            v \in 1 .. Len(volumes) - 1 /\ v - 1 \in 1 .. Len(volumes) - 1
      BY <1>3
    <3> QED  BY <3>1, <2>1
  <2>3. Len(volumes) > 1 => volumes'[1] = volumes[1]
    <3>1. Len(volumes) > 1 => 1 \in 1 .. Len(volumes) - 1  BY <1>3
    <3> QED  BY <3>1, <2>1
  <2> QED  BY <2>1, <2>2, <2>3, <1>0, <1>3 DEF Safe, FullVolumes
<1>12. Moving' /\ Finishing'
  BY <1>0 DEF Moving, Finishing, Stopped
<1> QED  BY <1>7, <1>10, <1>11, <1>12 DEF Safe

(* The volume is full, and another one is mounted.                         *)
LEMMA ChangeVolumeKeeps ==
  ASSUME Typed, Typed', WholeRecords, Safe, NEW status \in 0 .. BF - 1, ChangeVolume(status)
  PROVE  Safe'
<1>0. /\ nv = "none" /\ multi_volume_option /\ status = 0
      /\ UNCHANGED <<setting, size, real, save, todo, left>>
      /\ other' = record /\ from' = 0 /\ to' = cur /\ cur' = 0
      /\ nv' = IF volume_label_option THEN "label"
               ELSE IF real.name # NoName THEN "multivol" ELSE "copy"
  BY DEF ChangeVolume, CopyFrom, ShortWrites, WholeRecords, FlushPoint, given
<1>1. Len(Mounted) > BF + 2 /\ ~ Fresh /\ Mounted # <<>>
  BY FullIsLong DEF ChangeVolume
<1>2. /\ pc \in {"label", "header", "fill", "padfill", "eot1", "eot2", "close1"}
      /\ pc' = AfterFlush(pc) /\ cur > 0
  <2>1. \/ pc \in {"label", "header", "fill", "padfill", "eot1", "eot2"} /\ cur = BF
        \/ pc = "close1" \/ (pc = "close2" /\ cur > 0)
    BY DEF ChangeVolume, FlushPoint
  <2>2. pc \in {"close1", "close2"} => pc = "close1" /\ cur > 0
    <3>1. ~ (pc = "close2" /\ cur > 0) /\ (pc = "close1" => cur > 0)
      BY <1>0, <1>1 DEF Safe, Storing, Stopped
    <3> QED  BY <3>1, <2>1
  <2>3. cur \in Nat /\ BF \in Nat \ {0}  BY WriterAssumption DEF Typed
  <2>4. pc' = AfterFlush(pc)  BY <1>0, <2>3 DEF ChangeVolume
  <2> QED  BY <2>1, <2>2, <2>3, <2>4
<1>3. ~ Stopped /\ ~ Stopped' /\ pc' \notin {"close1", "closed"}
  BY <1>2 DEF Stopped, AfterFlush
<1>4. /\ Len(volumes) \in Nat /\ Len(volumes) >= 1 /\ Len(volumes') = Len(volumes) + 1
      /\ \A v \in 1 .. Len(volumes) - 1 : volumes'[v] = volumes[v]
      /\ Mounted' = <<>> /\ volumes'[Len(volumes)] = Mounted
  BY <1>0, GivenTypes, VolumeAdded
<1>5. /\ LabelSize' = LabelSize /\ LabelSize \in {0, 1} /\ multi_volume_option'
      /\ current' = current /\ cur \in Nat /\ BF \in Nat
      /\ (LabelSize = 1 <=> volume_label_option)
  BY <1>0, WriterAssumption
  DEF LabelSize, volume_label_option, multi_volume_option, current, Typed
<1>6. Level' = 0
  BY <1>0, <1>4 DEF Level
<1>7. /\ Movable(record, cur) /\ EndsAt(Mounted)
      /\ Level \in Nat /\ Len(Mounted) \in 0 .. Level
      /\ Prolongs(Mounted, Line, Len(Mounted))
      /\ Sound(size, Line, Level) /\ Len(Mounted) >= BF
  <2>1. Movable(record, cur) /\ EndsAt(Mounted)
    BY <1>0, <1>1, <1>3 DEF Safe, Storing
  <2>2. Sound(size, Line, Level) /\ Len(Mounted) >= BF  BY <1>1 DEF Safe, LastVolume
  <2>3. /\ Len(Mounted) \in Nat /\ Level = Len(Mounted) + cur
        /\ \A k \in 1 .. Len(Mounted) : Line[k] = Mounted[k]
    BY LineFacts
  <2> QED  BY <2>1, <2>2, <2>3, <1>5 DEF Prolongs
<1>8. Moving'
  <2>1. Movable(other, to)'
    BY <1>0, <1>5, <1>7 DEF Movable, Fits
  <2>2. EndsAt(volumes[Len(volumes) - 1])'
    <3>1. Len(volumes') - 1 = Len(volumes)  BY <1>4
    <3>2. volumes'[Len(volumes') - 1] = Mounted  BY <3>1, <1>4
    <3> QED  BY <3>2, <1>0, <1>7 DEF EndsAt
  <2>3. Begins(0)'  BY <1>6 DEF Begins
  <2>4. Lead(real') = IF real.name = NoName THEN 0 ELSE 1  BY <1>0 DEF Lead
  <2>5. nv' = "label" => LabelSize = 1  BY <1>0, <1>5
  <2>6. nv' = "multivol" => LabelSize = 0 /\ Lead(real') = 1  BY <1>0, <1>5, <2>4
  <2>7. nv' = "copy" => LabelSize + Lead(real') + from' = 0
    <3>1. nv' = "copy" => LabelSize = 0 /\ Lead(real') = 0  BY <1>0, <1>5, <2>4
    <3> QED  BY <3>1, <1>0
  <2>8. nv' \in {"label", "multivol", "copy"}  BY <1>0
  <2>9. to' > 0 /\ from' <= to' /\ Len(volumes') > 1
    BY <1>0, <1>2, <1>4, <1>5
  <2> QED  BY <2>1, <2>2, <2>3, <2>5, <2>6, <2>7, <2>8, <2>9, <1>0, <1>3, <1>5 DEF Moving
<1>9. FullVolumes'
  <2>1. Sound(size, Mounted, Len(Mounted))
    BY <1>7, SoundPrefix
  <2>2. ASSUME NEW v \in 1 .. Len(volumes') - 1
        PROVE  Sound(size, volumes'[v], Len(volumes'[v])) /\ Len(volumes'[v]) >= BF
    <3>1. CASE v = Len(volumes)  BY <3>1, <2>1, <1>4, <1>7
    <3>2. CASE v # Len(volumes)
      <4>1. v \in 1 .. Len(volumes) - 1  BY <3>2, <1>4
      <4> QED  BY <4>1, <1>4 DEF Safe, FullVolumes
    <3> QED  BY <3>1, <3>2
  <2>3. ASSUME NEW v \in 2 .. Len(volumes') - 1
        PROVE  Continues(LabelSize, volumes'[v - 1], volumes'[v], Len(volumes'[v]))
    <3>1. CASE v = Len(volumes)
      <4>1. Len(volumes) # 1 /\ Len(volumes) - 1 \in 1 .. Len(volumes) - 1  BY <3>1, <1>4
      <4>2. Continues(LabelSize, volumes[Len(volumes) - 1], Line, Level)
        BY <4>1 DEF Safe, LastVolume
      <4>3. Continues(LabelSize, volumes[Len(volumes) - 1], Mounted, Len(Mounted))
        BY <4>2, <1>5, <1>7, ContinuesPrefix
      <4>4. volumes'[v - 1] = volumes[Len(volumes) - 1] /\ volumes'[v] = Mounted
        BY <3>1, <4>1, <1>4
      <4> QED  BY <4>3, <4>4
    <3>2. CASE v # Len(volumes)
      <4>1. /\ v \in 2 .. Len(volumes) - 1 /\ v \in 1 .. Len(volumes) - 1
            /\ v - 1 \in 1 .. Len(volumes) - 1
        BY <3>2, <1>4
      <4>2. volumes'[v] = volumes[v] /\ volumes'[v - 1] = volumes[v - 1]  BY <4>1, <1>4
      <4> QED  BY <4>1, <4>2 DEF Safe, FullVolumes
    <3> QED  BY <3>1, <3>2
  <2>4. \A k \in 1 .. Len(volumes'[1]) : volumes'[1][k].kind # "multivol"
    <3>1. CASE Len(volumes) = 1
      <4>1. volumes'[1] = Mounted  BY <3>1, <1>4
      <4>2. \A k \in 1 .. Level : Line[k].kind # "multivol"
        BY <3>1 DEF Safe, LastVolume
      <4> QED  BY <4>1, <4>2, <1>7 DEF Prolongs
    <3>2. CASE Len(volumes) # 1
      <4>1. Len(volumes) > 1  BY <3>2, <1>4, AboveOne
      <4>2. 1 \in 1 .. Len(volumes) - 1  BY <4>1, <1>4
      <4> QED  BY <4>1, <4>2, <1>4 DEF Safe, FullVolumes
    <3> QED  BY <3>1, <3>2
  <2> QED  BY <2>2, <2>3, <2>4, <1>0, <1>5 DEF FullVolumes
<1>10. LastVolume'
  <2>1. Sound(size', Line', Level')
    BY <1>6 DEF Sound, HeadsTrue, RunsOn
  <2>2. Continues(LabelSize', volumes'[Len(volumes') - 1], Line', Level')
    BY <1>5, <1>6 DEF Continues
  <2>3. Len(volumes') # 1  BY <1>4
  <2> QED  BY <2>1, <2>2, <2>3, <1>4 DEF LastVolume
<1>11. Storing' /\ Finishing'
  BY <1>0, <1>3 DEF Storing, Finishing, Stopped
<1> QED  BY <1>8, <1>9, <1>10, <1>11 DEF Safe

(* The steps of the volume change store p blocks, and there are then q of  *)
(* those that Rest lists.                                                  *)
Moves(p, q) ==
  /\ nv # "none" /\ nv' # "none" /\ ~ Stopped
  /\ UNCHANGED <<setting, size, volumes, other, to, real, todo, left, pc>>
  /\ cur' = cur + p /\ \A i \in 0 .. cur - 1 : record'[i] = record[i]
  /\ Level + p = LabelSize + q
  /\ BeginsWith(Line', LabelSize, q, Rest(real, other, to))
  /\ from' <= to /\ nv' # "label"
  /\ nv' = "multivol" => Lead(real) = 1 /\ from' = 0 /\ q = 0
  /\ nv' \in {"copy", "done"} => q = Lead(real) + from'
  /\ nv' = "done" => from' = to /\ ZerosFollow'

LEMMA MoveKeeps ==
  ASSUME Typed, Typed', Safe, NEW p \in Nat, NEW q \in 0 .. Lead(real) + to, Moves(p, q)
  PROVE  Safe'
<1>0. /\ nv # "none" /\ nv' # "none" /\ ~ Stopped
      /\ UNCHANGED <<setting, size, volumes, other, to, real, todo, left, pc>>
      /\ from' <= to /\ nv' # "label"
      /\ nv' = "multivol" => Lead(real) = 1 /\ from' = 0 /\ q = 0
      /\ nv' \in {"copy", "done"} => q = Lead(real) + from'
      /\ nv' = "done" => from' = to /\ ZerosFollow'
  BY DEF Moves
<1>1. Level' = LabelSize + q
  <2>1. Level' = Level + p
    BY LineGrows DEF Moves
  <2> QED  BY <2>1 DEF Moves
<1>2. /\ Mounted' = Mounted /\ LabelSize' = LabelSize /\ LabelSize \in {0, 1}
      /\ (multi_volume_option' <=> multi_volume_option) /\ current' = current
      /\ to \in Nat /\ from' \in Nat /\ Lead(real) \in {0, 1} /\ Lead(real') = Lead(real)
  <2>1. to \in Nat /\ from' \in Nat  BY DEF Typed
  <2>2. LabelSize \in {0, 1}  BY LineFacts
  <2> QED  BY <2>1, <2>2, <1>0
           DEF Mounted, LabelSize, volume_label_option, multi_volume_option, current, Lead
<1>3. BeginsWith(Line', LabelSize, q, Rest(real, other, to))  BY DEF Moves
<1>4. /\ multi_volume_option /\ Len(volumes) > 1
      /\ Movable(other, to) /\ EndsAt(volumes[Len(volumes) - 1])
      /\ to > 0 /\ pc \notin {"close1", "closed"}
  BY <1>0 DEF Safe, Moving
<1>5. /\ Sound(size, Line', LabelSize + q)
      /\ Continues(LabelSize, volumes[Len(volumes) - 1], Line', LabelSize + q)
  <2>1. Fits(size, real, other, to)
    BY <1>4 DEF Movable
  <2> DEFINE prev == volumes[Len(volumes) - 1]
             line == Line'
  <2>2. Lacks(prev, Len(prev), real.name, Gap(real))
    BY <1>4 DEF EndsAt
  <2>3. BeginsWith(line, LabelSize, q, Rest(real, other, to))  BY <1>3
  <2> HIDE DEF prev, line
  <2>4. Sound(size, line, LabelSize + q) /\ Continues(LabelSize, prev, line, LabelSize + q)
    BY <2>1, <2>2, <2>3, <1>2, BegunWell
  <2> QED  BY <2>4 DEF prev, line
<1>6. LastVolume'
  <2>1. Len(volumes) # 1  BY <1>4, GivenTypes, AboveOne
  <2>2. Mounted # <<>> => Len(Mounted) >= BF  BY DEF Safe, LastVolume
  <2> QED  BY <2>1, <2>2, <1>0, <1>1, <1>2, <1>5 DEF LastVolume
<1>7. Begins(LabelSize + q)'
  BY <1>0, <1>1, <1>2, <1>3 DEF Begins, BeginsWith
<1>8. Moving'
  <2>1. Movable(other, to)'  BY <1>0, <1>2, <1>4 DEF Movable
  <2>2. EndsAt(volumes[Len(volumes) - 1])'  BY <1>0, <1>4 DEF EndsAt
  <2>3. nv' = "multivol" => Begins(LabelSize)'
    <3>1. nv' = "multivol" => LabelSize + q = LabelSize  BY <1>0, <1>2
    <3> QED  BY <3>1, <1>2, <1>7
  <2>4. nv' \in {"copy", "done"} => Begins(LabelSize + Lead(real) + from)'
    <3>1. nv' \in {"copy", "done"} => LabelSize + q = LabelSize + Lead(real) + from'
      BY <1>0, <1>2
    <3> QED  BY <3>1, <1>2, <1>7
  <2> QED  BY <2>1, <2>2, <2>3, <2>4, <1>0, <1>2, <1>4 DEF Moving
<1>9. FullVolumes' /\ Storing' /\ Finishing'
  BY <1>0, <1>2 DEF Safe, FullVolumes, Storing, Finishing, Stopped
<1> QED  BY <1>6, <1>8, <1>9 DEF Safe

LEMMA BeginsProlonged ==
  ASSUME NEW line, NEW s, NEW rest, NEW l \in Nat, NEW n \in Nat, NEW p \in Nat, NEW q \in Nat,
         BeginsWith(s, l, n, rest), q = n + p, Prolongs(line, s, l + n),
         \A i \in 1 .. p : line[(l + n) + i] = rest[n + i]
  PROVE  BeginsWith(line, l, q, rest)
<1> SUFFICES ASSUME NEW k \in 1 .. l + q
             PROVE  line[k] = IF k <= l THEN VolHdr(0) ELSE rest[k - l]
  BY DEF BeginsWith
<1>1. CASE k <= l + n
  <2>1. k \in 1 .. l + n  BY <1>1
  <2> QED  BY <2>1 DEF BeginsWith, Prolongs
<1>2. CASE k > l + n
  <2>1. /\ k - (l + n) \in 1 .. p /\ (l + n) + (k - (l + n)) = k /\ ~ k <= l
        /\ n + (k - (l + n)) = k - l
    BY <1>2
  <2> QED  BY <2>1
<1> QED  BY <1>1, <1>2

LEMMA AddVolumeLabelMoves ==
  ASSUME Typed, Typed', Safe, AddVolumeLabel
  PROVE  Moves(1, 0) /\ 0 \in 0 .. Lead(real) + to
<1>0. /\ nv = "label" /\ pc \notin {"fatal", "undefined"} /\ cur < BF /\ Store(VolHdr(0))
      /\ nv' = IF real.name # NoName THEN "multivol" ELSE "copy"
      /\ UNCHANGED <<setting, size, volumes, other, from, to, real, todo, left, pc>>
  BY DEF AddVolumeLabel, Changing, WriteVolumeLabel, given
<1>1. ~ Stopped  BY <1>0 DEF Safe, Finishing, Stopped
<1>2. LabelSize = 1 /\ from = 0 /\ Begins(0) /\ Level = 0 /\ to > 0
  BY <1>0, <1>1 DEF Safe, Moving, Begins
<1>3. cur' = cur + 1 /\ \A i \in 0 .. cur - 1 : record'[i] = record[i]
  BY <1>0, StoredAt
<1>4. Line'[1] = VolHdr(0)
  <2>1. \A i \in 1 .. 1 : Line'[Level + i] = record'[cur + i - 1]  BY <1>0, <1>3, LineGrows
  <2>2. \A i \in 1 .. 1 : record'[cur + i - 1] = VolHdr(0)  BY <1>0, StoredAt
  <2>3. 1 \in 1 .. 1 /\ Level + 1 = 1  BY <1>2
  <2> QED  BY <2>1, <2>2, <2>3
<1>5. BeginsWith(Line', LabelSize, 0, Rest(real, other, to))
  BY <1>2, <1>4 DEF BeginsWith
<1>6. Lead(real) = (IF real.name = NoName THEN 0 ELSE 1) /\ to \in Nat  BY DEF Lead, Typed
<1> QED  BY <1>0, <1>1, <1>2, <1>3, <1>5, <1>6 DEF Moves

LEMMA AddMultiVolumeHeaderMoves ==
  ASSUME Typed, Typed', Safe, AddMultiVolumeHeader
  PROVE  Moves(1, 1) /\ 1 \in 0 .. Lead(real) + to
<1> DEFINE b == MultiVol(real.name, real.left, real.total - real.left)
           rest == Rest(real, other, to)
<1>0. /\ nv = "multivol" /\ pc \notin {"fatal", "undefined"} /\ cur < BF /\ Store(b)
      /\ nv' = "copy"
      /\ UNCHANGED <<setting, size, volumes, other, from, to, real, todo, left, pc>>
  BY DEF AddMultiVolumeHeader, Changing, given
<1>1. ~ Stopped  BY <1>0 DEF Safe, Finishing, Stopped
<1>2. Lead(real) = 1 /\ from = 0 /\ Begins(LabelSize) /\ Level = LabelSize /\ to > 0
  BY <1>0, <1>1 DEF Safe, Moving, Begins
<1>3. cur' = cur + 1 /\ \A i \in 0 .. cur - 1 : record'[i] = record[i]
  BY <1>0, StoredAt
<1>3a. LabelSize \in Nat  BY LineFacts
<1>3b. to \in Nat  BY DEF Typed
<1>4. LabelSize \in Nat /\ to \in Nat  BY <1>3a, <1>3b
<1>5. rest[1] = b  BY <1>2, <1>4, RestBlocks
<1> HIDE DEF rest
<1>6. Prolongs(Line', Line, LabelSize + 0) /\ \A i \in 1 .. 1 : Line'[(LabelSize + 0) + i] = rest[0 + i]
  <2>1. /\ Prolongs(Line', Line, Level)
        /\ \A i \in 1 .. 1 : Line'[Level + i] = record'[cur + i - 1]
    BY <1>0, <1>3, LineGrows
  <2>2. \A i \in 1 .. 1 : record'[cur + i - 1] = b  BY <1>0, StoredAt
  <2>3. LabelSize + 0 = Level /\ \A i \in 1 .. 1 : 0 + i = 1  BY <1>2, <1>4
  <2> QED  BY <2>1, <2>2, <2>3, <1>5
<1>7. BeginsWith(Line, LabelSize, 0, rest)
  <2>1. LabelSize + 0 = LabelSize  BY <1>4
  <2> QED  BY <2>1, <1>2 DEF Begins, BeginsWith, rest
<1>8. BeginsWith(Line', LabelSize, 1, rest)
  <2>1. 1 = 0 + 1 /\ 0 \in Nat /\ 1 \in Nat  OBVIOUS
  <2> QED  BY <2>1, <1>4, <1>6, <1>7, BeginsProlonged
<1>9. 1 = Lead(real) + from' /\ 1 \in 0 .. Lead(real) + to /\ from' <= to  BY <1>0, <1>2, <1>4
<1> QED  BY <1>0, <1>1, <1>2, <1>3, <1>8, <1>9 DEF Moves, rest

LEMMA CopyChunkMoves ==
  ASSUME Typed, Typed', Safe, CopyChunk
  PROVE  \E p \in Nat : \E q \in 0 .. Lead(real) + to : Moves(p, q)
<1> DEFINE n == Lesser(BF - cur, to - from)
           copied == [k \in Slots |-> IF k \in cur .. cur + n - 1
                                      THEN other[from + (k - cur)] ELSE record[k]]
           last == to - from <= BF - cur
           rest == Rest(real, other, to)
           q == Lead(real) + from + n
<1>0. /\ nv = "copy" /\ pc \notin {"fatal", "undefined"} /\ cur < BF
      /\ record' = IF last THEN ZeroFrom(copied, cur + n) ELSE copied
      /\ cur' = cur + n /\ from' = from + n /\ nv' = IF last THEN "done" ELSE "copy"
      /\ UNCHANGED <<setting, size, volumes, other, to, real, todo, left, pc>>
  BY DEF CopyChunk, Changing, given
<1>1. ~ Stopped  BY <1>0 DEF Safe, Finishing, Stopped
<1>2. /\ from <= to /\ to > 0 /\ Level = LabelSize + Lead(real) + from
      /\ Begins(LabelSize + Lead(real) + from)
  BY <1>0, <1>1 DEF Safe, Moving, Begins
<1>3. /\ LabelSize \in {0, 1} /\ Lead(real) \in {0, 1}
      /\ cur \in 0 .. BF /\ BF \in Nat \ {0} /\ from \in 0 .. BF /\ to \in 0 .. BF
  <2>1. LabelSize \in {0, 1}  BY LineFacts
  <2> QED  BY <2>1, WriterAssumption DEF Typed, Lead
<1>4. /\ n \in 0 .. to - from /\ n <= BF - cur
      /\ last => n = to - from
  BY <1>2, <1>3 DEF Lesser
<1> HIDE DEF n
<1>5. ASSUME NEW i \in 0 .. cur - 1  PROVE record'[i] = record[i]
  <2>1. i \in Slots /\ ~ i \in cur .. cur + n - 1 /\ i < cur + n  BY <1>3, <1>4 DEF Slots
  <2>2. copied[i] = record[i]  BY <2>1
  <2> HIDE DEF copied
  <2> QED  BY <2>1, <2>2, <1>0 DEF ZeroFrom
<1>6. ASSUME NEW i \in 1 .. n  PROVE record'[cur + i - 1] = other[from + i - 1]
  <2>1. /\ cur + i - 1 \in Slots /\ cur + i - 1 \in cur .. cur + n - 1 /\ cur + i - 1 < cur + n
        /\ from + ((cur + i - 1) - cur) = from + i - 1
    BY <1>3, <1>4 DEF Slots
  <2>2. copied[cur + i - 1] = other[from + i - 1]  BY <2>1
  <2> HIDE DEF copied
  <2> QED  BY <2>1, <2>2, <1>0 DEF ZeroFrom
<1>7. ASSUME last, NEW i \in cur + n .. BF - 1  PROVE record'[i] = Zero
  <2>1. i \in Slots /\ ~ i < cur + n  BY <1>3, <1>4 DEF Slots
  <2> HIDE DEF copied, last
  <2> QED  BY <2>1, <1>0, <1>7 DEF ZeroFrom
<1> HIDE DEF last, copied
<1>8. /\ n \in Nat /\ q \in 0 .. Lead(real) + to /\ q \in Nat /\ Lead(real) + from \in Nat
      /\ q = (Lead(real) + from) + n /\ LabelSize \in Nat
      /\ q = Lead(real) + from' /\ from' <= to /\ (last => from' = to)
      /\ Level + n = LabelSize + q /\ LabelSize + (Lead(real) + from) = Level
  BY <1>0, <1>2, <1>3, <1>4
<1> HIDE DEF q
<1>9. ASSUME NEW i \in 1 .. n
      PROVE  Line'[(LabelSize + (Lead(real) + from)) + i] = rest[(Lead(real) + from) + i]
  <2>1. Line'[Level + i] = record'[cur + i - 1]  BY <1>0, <1>5, <1>8, LineGrows
  <2>2. record'[cur + i - 1] = other[from + i - 1]  BY <1>6
  <2>3. from + i - 1 \in 0 .. to - 1 /\ Lead(real) + (from + i - 1) + 1 = (Lead(real) + from) + i
    BY <1>2, <1>3, <1>4
  <2>4. rest[Lead(real) + (from + i - 1) + 1] = other[from + i - 1]
    BY <2>3, <1>3, RestBlocks
  <2> QED  BY <2>1, <2>2, <2>3, <2>4, <1>8
<1> HIDE DEF rest
<1>10. BeginsWith(Line, LabelSize, Lead(real) + from, rest)
  <2>1. LabelSize + (Lead(real) + from) = LabelSize + Lead(real) + from  BY <1>3
  <2> QED  BY <2>1, <1>2 DEF Begins, BeginsWith, rest
<1>11. Prolongs(Line', Line, LabelSize + (Lead(real) + from))
  <2>1. Prolongs(Line', Line, Level)  BY <1>0, <1>5, <1>8, LineGrows
  <2> QED  BY <2>1, <1>8
<1>12. BeginsWith(Line', LabelSize, q, rest)
  BY <1>8, <1>9, <1>10, <1>11, BeginsProlonged
<1>13. nv' # "none" /\ nv' \in {"copy", "done"} /\ (nv' = "done" => last)  BY <1>0
<1>14. nv' = "done" => ZerosFollow'
  BY <1>0, <1>7, <1>13 DEF ZerosFollow
<1>15. Moves(n, q)
  BY <1>0, <1>1, <1>5, <1>8, <1>12, <1>13, <1>14 DEF Moves, rest
<1> QED  BY <1>8, <1>15

(* A record is full before the copy is at its end.                         *)
LEMMA SimpleFlushWriteKeeps ==
  ASSUME Typed, Typed', Safe, SimpleFlushWrite
  PROVE  Safe'
<1>0. /\ nv # "none" /\ pc \notin {"fatal", "undefined"} /\ cur = BF /\ WriteRecord /\ cur' = 0
      /\ UNCHANGED <<setting, size, other, from, to, nv, real, todo, left, pc>>
  BY DEF SimpleFlushWrite, Changing, given
<1>1. ~ Stopped  BY <1>0 DEF Safe, Finishing, Stopped
<1>2. /\ Level' = Level /\ Level \in Nat /\ Level' = Len(Mounted') /\ Level' >= BF
      /\ Mounted' # <<>> /\ Prolongs(Line', Line, Level)
  <2>1. BF \in Nat  BY WriterAssumption
  <2>2. BF - cur = 0  BY <2>1, <1>0
  <2> QED  BY <2>2, <1>0, RecordIsLine
<1>3. /\ Len(volumes') = Len(volumes) /\ Len(volumes) \in Nat
      /\ \A v \in 1 .. Len(volumes) - 1 : volumes'[v] = volumes[v]
      /\ LabelSize' = LabelSize /\ LabelSize \in Nat /\ current' = current
      /\ (multi_volume_option' <=> multi_volume_option)
  <2>1. LabelSize \in Nat  BY LineFacts
  <2> QED  BY <2>1, <1>0, GivenTypes, RecordWritten
           DEF LabelSize, volume_label_option, multi_volume_option, current
<1>4. /\ multi_volume_option /\ Len(volumes) > 1
      /\ Movable(other, to) /\ EndsAt(volumes[Len(volumes) - 1])
      /\ to > 0 /\ from <= to
      /\ nv = "label" => LabelSize = 1 /\ from = 0 /\ Begins(0)
      /\ nv = "multivol" => Lead(real) = 1 /\ from = 0 /\ Begins(LabelSize)
      /\ nv \in {"copy", "done"} => Begins(LabelSize + Lead(real) + from)
      /\ nv = "done" => from = to
      /\ pc \notin {"close1", "closed"}
  BY <1>0, <1>1 DEF Safe, Moving
<1>5. Len(volumes) # 1 /\ volumes'[Len(volumes) - 1] = volumes[Len(volumes) - 1]
  <2>1. Len(volumes) - 1 \in 1 .. Len(volumes) - 1  BY <1>3, <1>4
  <2> QED  BY <2>1, <1>3, <1>4
<1>6. LastVolume'
  <2>1. Sound(size, Line, Level) /\ Continues(LabelSize, volumes[Len(volumes) - 1], Line, Level)
    BY <1>5 DEF Safe, LastVolume
  <2>2. Level \in 0 .. Level  BY <1>2
  <2>3. Sound(size, Line', Level)  BY <2>1, <2>2, <1>2, SoundPrefix
  <2>4. Continues(LabelSize, volumes[Len(volumes) - 1], Line', Level)
    BY <2>1, <2>2, <1>2, <1>3, ContinuesPrefix
  <2> QED  BY <2>3, <2>4, <1>0, <1>2, <1>3, <1>5 DEF LastVolume
<1>7. FullVolumes'
  <2>1. \A v \in 2 .. Len(volumes) - 1 :
          v \in 1 .. Len(volumes) - 1 /\ v - 1 \in 1 .. Len(volumes) - 1
    BY <1>3
  <2>2. \A v \in 2 .. Len(volumes) - 1 :
          volumes'[v] = volumes[v] /\ volumes'[v - 1] = volumes[v - 1]
    BY <2>1, <1>3
  <2>3. Len(volumes) > 1 => volumes'[1] = volumes[1]
    <3>1. Len(volumes) > 1 => 1 \in 1 .. Len(volumes) - 1  BY <1>3
    <3> QED  BY <3>1, <1>3
  <2> QED  BY <2>2, <2>3, <1>0, <1>3 DEF Safe, FullVolumes
<1>8. ASSUME NEW k, Begins(k)  PROVE Begins(k)'
  BY <1>0, <1>2, <1>3, <1>8 DEF Begins, Prolongs
<1>9. Moving'
  <2>1. Movable(other, to)'  BY <1>0, <1>3, <1>4 DEF Movable
  <2>2. EndsAt(volumes[Len(volumes) - 1])'  BY <1>0, <1>3, <1>4, <1>5 DEF EndsAt
  <2>3. ZerosFollow'  BY <1>0 DEF ZerosFollow
  <2>4. nv = "label" => Begins(0)'  BY <1>4, <1>8
  <2>5. nv = "multivol" => Begins(LabelSize)'
    <3>1. nv = "multivol" => Begins(LabelSize)  BY <1>4
    <3> QED  BY <3>1, <1>0, <1>2, <1>3 DEF Begins, Prolongs
  <2>6. nv \in {"copy", "done"} => Begins(LabelSize + Lead(real) + from)'
    <3>1. nv \in {"copy", "done"} => Begins(LabelSize + Lead(real) + from)  BY <1>4
    <3> QED  BY <3>1, <1>0, <1>2, <1>3 DEF Begins, Prolongs
  <2> QED  BY <2>1, <2>2, <2>3, <2>4, <2>5, <2>6, <1>0, <1>3, <1>4 DEF Moving
<1>10. Storing' /\ Finishing'
  BY <1>0, <1>2 DEF Safe, Storing, Finishing
<1> QED  BY <1>6, <1>7, <1>9, <1>10 DEF Safe

(* The change is over: the volume is not longer than its beginning.        *)
LEMMA VolumeChangedKeeps ==
  ASSUME Typed, Typed', Safe, VolumeChanged
  PROVE  Safe'
<1> DEFINE rest == Rest(real, other, to)
           n == Lead(real) + to
<1>0. /\ nv = "done" /\ nv' = "none" /\ pc \notin {"fatal", "undefined"}
      /\ UNCHANGED <<setting, size, volumes, record, cur, real, todo, left, pc>>
  BY DEF VolumeChanged, Changing, given
<1>1. ~ Stopped  BY <1>0 DEF Safe, Finishing, Stopped
<1>2. /\ multi_volume_option /\ Len(volumes) > 1 /\ Movable(other, to) /\ to > 0 /\ from = to
      /\ Begins(LabelSize + Lead(real) + from) /\ ZerosFollow /\ pc \notin {"close1", "closed"}
  BY <1>0, <1>1 DEF Safe, Moving
<1>3. /\ LabelSize \in {0, 1} /\ Lead(real) \in {0, 1} /\ to \in 0 .. BF /\ BF \in Nat /\ cur \in Nat
      /\ Level \in Nat /\ Level = Len(Mounted) + cur /\ Len(Mounted) \in Nat /\ left \in Nat
  <2>1. /\ LabelSize \in {0, 1} /\ Level \in Nat /\ Level = Len(Mounted) + cur
        /\ Len(Mounted) \in Nat
    BY LineFacts
  <2> QED  BY <2>1, WriterAssumption DEF Typed, Lead
<1>4. Level = LabelSize + n /\ n \in Nat /\ LabelSize \in Nat
  BY <1>2, <1>3 DEF Begins
<1>5. /\ \A k \in 1 .. LabelSize : ~ IsHead(Line[k])
      /\ \A k \in 1 .. n : Line[LabelSize + k] = rest[k]
  <2>1. \A k \in 1 .. LabelSize + n :
          Line[k] = IF k <= LabelSize THEN VolHdr(0) ELSE rest[k - LabelSize]
    <3>1. LabelSize + Lead(real) + from = LabelSize + n  BY <1>2, <1>3
    <3> QED  BY <3>1, <1>2 DEF Begins
  <2> HIDE DEF n, rest
  <2>2. ASSUME NEW k \in 1 .. LabelSize  PROVE ~ IsHead(Line[k])
    <3>1. k \in 1 .. LabelSize + n /\ k <= LabelSize  BY <1>4
    <3>2. Line[k] = VolHdr(0)  BY <3>1, <2>1
    <3> QED  BY <3>2 DEF IsHead, VolHdr
  <2>3. ASSUME NEW k \in 1 .. n  PROVE Line[LabelSize + k] = rest[k]
    <3>1. /\ LabelSize + k \in 1 .. LabelSize + n /\ ~ LabelSize + k <= LabelSize
          /\ (LabelSize + k) - LabelSize = k
      BY <1>4
    <3> QED  BY <3>1, <2>1
  <2> QED  BY <2>2, <2>3
<1>6. Lacks(Line, Level, current, left)
  <2>1. Sound(size, rest, n) /\ Lacks(rest, n, current, left)
    BY <1>2 DEF Movable, Fits
  <2> HIDE DEF n, rest
  <2>2. Lacks(Line, LabelSize + n, current, left)
    BY <2>1, <1>3, <1>4, <1>5, SoundShifted
  <2> QED  BY <2>2, <1>4
<1>7. /\ Mounted' = Mounted /\ LabelSize' = LabelSize /\ Level' = Level /\ Line' = Line
      /\ (ZerosFollow' <=> ZerosFollow) /\ (Fresh' <=> Fresh) /\ current' = current
  BY <1>0 DEF Mounted, LabelSize, volume_label_option, Level, Line, ZerosFollow, Fresh, current
<1>8. Fresh
  <2>1. Len(Mounted) <= BF + 2  BY <1>3, <1>4
  <2> QED  BY <2>1, <1>2 DEF Fresh
<1>9. cur = 0 => Mounted # <<>>
  BY <1>2, <1>3, <1>4
<1>10. Level > LabelSize
  BY <1>2, <1>3, <1>4
<1>11. Storing'
  <2>1. IF cur > 0 THEN Fresh ELSE Mounted # <<>>  BY <1>3, <1>8, <1>9
  <2>2. Lacks(Line, Level, current, left)'  BY <1>0, <1>6, <1>7
  <2>3. Level' > LabelSize'  BY <1>7, <1>10
  <2>4. Closing => ZerosFollow /\ pc = "close2"  BY <1>2 DEF Closing
  <2> QED  BY <2>1, <2>2, <2>3, <2>4, <1>0, <1>2, <1>7, <1>8 DEF Storing, Closing
<1>12. Moving' /\ FullVolumes' /\ LastVolume' /\ Finishing'
  BY <1>0, <1>7 DEF Safe, Moving, FullVolumes, LastVolume, Finishing, Stopped
<1> QED  BY <1>11, <1>12 DEF Safe

LEMMA InitSafe == Init => Safe
<1> SUFFICES ASSUME Init PROVE Safe  OBVIOUS
<1>1. Len(volumes) = 1 /\ Mounted = <<>> /\ Level = 0 /\ cur = 0 /\ nv = "none" /\ left = 0
  BY DEF Init, Mounted, Level
<1>2. Lead(real) = 0 /\ ~ Closing /\ ~ Stopped /\ BF \in Nat
  BY WriterAssumption DEF Init, Lead, NoMember, Closing, Stopped
<1>3. \A s, sizes, name : \A m : Sound(sizes, s, 0) /\ Lacks(s, 0, name, m)
  BY DEF Sound, HeadsTrue, RunsOn, Lacks
<1>4. Movable(record, cur) /\ EndsAt(Mounted)
  BY <1>1, <1>2, <1>3 DEF Movable, Fits, EndsAt
<1>5. Storing
  BY <1>1, <1>2, <1>3, <1>4 DEF Storing, Closing
<1>6. Moving /\ FullVolumes /\ Finishing
  BY <1>1, <1>2 DEF Moving, FullVolumes, Finishing, Stopped
<1>7. LastVolume
  BY <1>1, <1>3 DEF LastVolume
<1> QED  BY <1>5, <1>6, <1>7 DEF Safe

LEMMA SafeNext == Inv /\ Typed' /\ Place' /\ Told' /\ WholeRecords /\ [Next]_vars => Safe'
<1> SUFFICES ASSUME Inv, Typed', Place', Told', WholeRecords, [Next]_vars PROVE Safe'  OBVIOUS
<1>0. Typed /\ Place /\ Told /\ Safe  BY DEF Inv
<1> USE DEF given, device, buffer, tracking, dump
<1>1. CASE Creates
  <2>1. nv = "none"
    <3>1. nv # "none" => pc \in {"label", "header", "fill", "padfill", "eot1", "eot2",
                                 "close2", "closed", "done", "fatal", "undefined"}
      BY <1>0 DEF Told, Stopped
    <3> QED  BY <3>1, <1>1
             DEF Creates, HasRoom, WriteLabel, NextMember, WriteHeader, SizeLeft, FillFull,
                 FillShort, ReadError, Pad, EndMember, StartEot, Eot1, Eot2
  <2>2. PICK p \in Nat : Stores(p)  BY <2>1, <1>0, <1>1, CreatesStores
  <2> QED  BY <2>2, <1>0, StoreKeeps
<1>2. CASE FlushWhole  BY <1>2, <1>0, FlushWholeKeeps
<1>3. CASE FlushFatal \/ NoMoreVolumes \/ SimpleFlushFatal
  <2>1. MayEnd /\ pc' = "fatal" /\ UNCHANGED <<setting, size, volumes, record, cur>>
    BY <1>3 DEF FlushFatal, NoMoreVolumes, SimpleFlushFatal
  <2>2. Mounted # <<>>  BY <2>1, <1>0, FullIsLong
  <2> QED  BY <2>1, <2>2, <1>0, StopKeeps
<1>4. CASE \E status \in 0 .. BF - 1 : ChangeVolume(status)
  BY <1>4, <1>0, ChangeVolumeKeeps
<1>5. CASE SimpleFlushWrite  BY <1>5, <1>0, SimpleFlushWriteKeeps
<1>6. CASE AddVolumeLabel
  <2>1. Moves(1, 0) /\ 0 \in 0 .. Lead(real) + to  BY <1>6, <1>0, AddVolumeLabelMoves
  <2>2. 1 \in Nat  OBVIOUS
  <2> QED  BY <2>1, <2>2, <1>0, MoveKeeps
<1>7. CASE AddMultiVolumeHeader
  <2>1. Moves(1, 1) /\ 1 \in 0 .. Lead(real) + to  BY <1>7, <1>0, AddMultiVolumeHeaderMoves
  <2>2. 1 \in Nat  OBVIOUS
  <2> QED  BY <2>1, <2>2, <1>0, MoveKeeps
<1>8. CASE CopyChunk
  <2>1. PICK p \in Nat : \E q \in 0 .. Lead(real) + to : Moves(p, q)
    BY <1>8, <1>0, CopyChunkMoves
  <2> QED  BY <2>1, <1>0, MoveKeeps
<1>9. CASE VolumeChanged  BY <1>9, <1>0, VolumeChangedKeeps
<1>10. CASE Close
  <2>1. /\ pc \in {"close2", "closed"} /\ nv = "none" /\ nv' = nv /\ pc' = "done"
        /\ UNCHANGED <<setting, size, volumes, record, cur>>
        /\ pc = "close2" => cur = 0
    BY <1>10 DEF Close
  <2>2. cur = 0 /\ Mounted # <<>>
    BY <2>1, <1>0 DEF Safe, Storing, Stopped
  <2> QED  BY <2>1, <2>2, <1>0, StopKeeps
<1>11. CASE UNCHANGED vars
  <2>1. UNCHANGED <<setting, size, volumes, record, cur, other, from, to, nv, real, todo, left, pc>>
    BY <1>11 DEF vars
  <2>2. /\ Mounted' = Mounted /\ LabelSize' = LabelSize /\ Level' = Level /\ Line' = Line
        /\ current' = current /\ (multi_volume_option' <=> multi_volume_option)
        /\ (Fresh' <=> Fresh) /\ (Stopped' <=> Stopped) /\ (Closing' <=> Closing)
        /\ (ZerosFollow' <=> ZerosFollow)
    BY <2>1 DEF Mounted, Level, Line, LabelSize, volume_label_option, multi_volume_option,
                current, Fresh, Stopped, Closing, ZerosFollow
  <2>3. /\ Storing' /\ FullVolumes' /\ LastVolume' /\ Finishing'
    BY <2>1, <2>2, <1>0 DEF Safe, Storing, FullVolumes, LastVolume, Finishing, Movable, EndsAt
  <2>4. Moving'  BY <2>1, <2>2, <1>0 DEF Safe, Moving, Movable, EndsAt, Begins
  <2> QED  BY <2>3, <2>4 DEF Safe
<1> QED  BY <1>1, <1>2, <1>3, <1>4, <1>5, <1>6, <1>7, <1>8, <1>9, <1>10, <1>11
         DEF Next, Dump, FlushWrite, VolumeChange, Creates

LEMMA InvNext == Inv /\ [Next]_vars => Inv'
<1> SUFFICES ASSUME Inv, [Next]_vars PROVE Inv'  OBVIOUS
<1>1. Typed' /\ Place' /\ Told'  BY TypedNext, PlaceNext, ToldNext DEF Inv
<1>2. UNCHANGED <<setting, size>>
  BY DEF Next, Dump, FlushWrite, VolumeChange, vars, given,
         WriteLabel, NextMember, WriteHeader, SizeLeft, FillFull, FillShort, ReadError, Pad,
         EndMember, StartEot, Eot1, Eot2, Close, FlushWhole, FlushFatal, NoMoreVolumes,
         ChangeVolume, SimpleFlushWrite, SimpleFlushFatal, AddVolumeLabel,
         AddMultiVolumeHeader, CopyChunk, VolumeChanged
<1>3. WholeRecords' <=> WholeRecords
  BY <1>2 DEF WholeRecords, MinRecords, Partial, ShortCounts
<1>4. WholeRecords => Safe'  BY <1>1, SafeNext
<1> QED  BY <1>1, <1>3, <1>4 DEF Inv

LEMMA InvHolds == Spec => []Inv
<1>1. Init => Inv  BY InitInv, InitSafe DEF Inv
<1> QED  BY <1>1, InvNext, PTL DEF Spec
-----------------------------------------------------------------------------
LEMMA InvContinues == Inv => ContinuationMatches
<1> SUFFICES ASSUME Typed, Safe, NEW v \in 2 .. Len(volumes), Len(volumes[v]) > LabelSize
             PROVE  LET first == volumes[v][LabelSize + 1] IN
                    IF first.kind = "multivol"
                    THEN /\ first.size + first.off = size[first.name]
                         /\ Len(volumes[v]) > LabelSize + 1 =>
                              volumes[v][LabelSize + 2] = Data(first.name, first.off)
                    ELSE first.kind # "data"
  BY DEF Inv, ContinuationMatches
<1> DEFINE s == volumes[v]
           n == Len(volumes[v])
           prev == volumes[v - 1]
<1>1. /\ Len(volumes) \in Nat /\ n \in Nat /\ LabelSize \in {0, 1}
  <2>1. volumes[v] \in Seq(Block)  BY DEF Typed
  <2> QED  BY <2>1, GivenTypes, LineFacts
<1>2. Sound(size, s, n) /\ Continues(LabelSize, prev, s, n)
  <2>1. CASE v = Len(volumes)
    <3>1. Len(volumes) # 1  BY <2>1
    <3>2. Sound(size, Line, Level) /\ Continues(LabelSize, prev, Line, Level)
      BY <2>1, <3>1 DEF Safe, LastVolume
    <3>3. s = Mounted /\ n = Len(Mounted)  BY <2>1 DEF Mounted
    <3> HIDE DEF s, n, prev
    <3>4. Level \in Nat /\ n \in 0 .. Level /\ Prolongs(s, Line, n) /\ LabelSize \in Nat
      <4>1. /\ Level \in Nat /\ Level = Len(Mounted) + cur
            /\ \A k \in 1 .. Len(Mounted) : Line[k] = Mounted[k]
        BY LineFacts
      <4> QED  BY <4>1, <3>3, <1>1 DEF Prolongs, Typed
    <3> QED  BY <3>2, <3>4, SoundPrefix, ContinuesPrefix
  <2>2. CASE v # Len(volumes)
    <3>1. v \in 2 .. Len(volumes) - 1 /\ v \in 1 .. Len(volumes) - 1  BY <2>2, <1>1
    <3> QED  BY <3>1 DEF Safe, FullVolumes
  <2> QED  BY <2>1, <2>2
<1> HIDE DEF s, n, prev
<1>3. n > LabelSize  BY DEF n
<1>4. CASE s[LabelSize + 1].kind = "multivol"
  <2>1. LabelSize + 1 \in 1 .. n /\ IsHead(s[LabelSize + 1])  BY <1>1, <1>3, <1>4 DEF IsHead
  <2>2. /\ s[LabelSize + 1].size \in Nat /\ s[LabelSize + 1].off \in Nat
        /\ s[LabelSize + 1].size > 0
        /\ s[LabelSize + 1].off + s[LabelSize + 1].size = size[s[LabelSize + 1].name]
    BY <2>1, <1>2, <1>4 DEF Sound, HeadsTrue
  <2>3. ASSUME n > LabelSize + 1
        PROVE  s[LabelSize + 2] = Data(s[LabelSize + 1].name, s[LabelSize + 1].off)
    <3>1. 1 \in 1 .. s[LabelSize + 1].size /\ (LabelSize + 1) + 1 <= n
      BY <2>2, <2>3, <1>1
    <3>2. s[(LabelSize + 1) + 1] = Data(s[LabelSize + 1].name, s[LabelSize + 1].off + 1 - 1)
      BY <3>1, <2>1, <1>2 DEF Sound, RunsOn
    <3>3. (LabelSize + 1) + 1 = LabelSize + 2 /\ s[LabelSize + 1].off + 1 - 1 = s[LabelSize + 1].off
      BY <2>2, <1>1
    <3> QED  BY <3>2, <3>3
  <2>4. s[LabelSize + 1].size + s[LabelSize + 1].off = size[s[LabelSize + 1].name]  BY <2>2
  <2> QED  BY <2>3, <2>4, <1>4 DEF s, n
<1>5. CASE s[LabelSize + 1].kind # "multivol"
  <2>1. s[LabelSize + 1].kind # "data"  BY <1>2, <1>3, <1>5 DEF Continues
  <2> QED  BY <2>1, <1>5 DEF s
<1> QED  BY <1>4, <1>5
-----------------------------------------------------------------------------
(* The end of the archive: where two blocks of NULs are when the record    *)
(* has room for more than what begins a volume.                            *)
EndsInZeros(s) == Len(s) >= 2 /\ s[Len(s)] = Zero /\ s[Len(s) - 1] = Zero
MarkStored ==
  /\ pc = "eot2" => IF cur > 0 THEN record[cur - 1] = Zero ELSE Fresh \/ Lead(real) = 0
  /\ pc = "close1" =>
       /\ \A i \in Slots : i >= cur - 2 => record[i] = Zero
       /\ cur = 1 => Fresh \/ Lead(real) = 0
  /\ pc = "close2" /\ cur > 0 => record[BF - 1] = Zero /\ record[BF - 2] = Zero
MarkMoved ==
  /\ pc \in {"eot2", "close2"} => other[to - 1] = Zero
  /\ pc = "close2" => IF to = 1 THEN Lead(real) = 0 ELSE other[to - 2] = Zero
MarkWritten ==
  /\ (pc = "close2" /\ nv = "none" /\ cur = 0) \/ pc \in {"closed", "done"} => EndsInZeros(Mounted)
  /\ pc = "done" => Lacks(Mounted, Len(Mounted), NoName, 0)
Ending == (IF nv = "none" THEN MarkStored ELSE MarkMoved) /\ MarkWritten

LEMMA EndOfRecord ==
  ASSUME Typed, BF >= 3, WriteRecord, record[BF - 1] = Zero, record[BF - 2] = Zero
  PROVE  EndsInZeros(Mounted')
<1>1. /\ Len(Mounted) \in Nat /\ BF \in Nat /\ Len(Mounted') = Len(Mounted) + BF
      /\ \A i \in Slots : Mounted'[Len(Mounted) + i + 1] = record[i]
  BY GivenTypes, RecordWritten
<1>2. BF - 1 \in Slots /\ BF - 2 \in Slots  BY <1>1 DEF Slots
<1>3. /\ Len(Mounted) + (BF - 1) + 1 = Len(Mounted')
      /\ Len(Mounted) + (BF - 2) + 1 = Len(Mounted') - 1 /\ Len(Mounted') >= 2
  BY <1>1
<1> QED  BY <1>1, <1>2, <1>3 DEF EndsInZeros

LEMMA EotEnding ==
  ASSUME Typed, Place, Told, Ending, BF >= 3, Eot1 \/ Eot2
  PROVE  Ending'
<1>0. /\ cur \in Nat /\ BF \in Nat /\ cur < BF /\ nv = "none" /\ nv' = nv /\ cur' = cur + 1
      /\ UNCHANGED <<volumes, real>>
  BY GivenTypes DEF Typed, Eot1, Eot2, Store, HasRoom
<1>1. CASE Eot1
  <2>1. pc' = "eot2" /\ record'[cur] = Zero
    BY <1>0, <1>1, StoredAt DEF Eot1
  <2>2. cur' > 0 /\ cur' - 1 = cur  BY <1>0
  <2> QED  BY <1>0, <2>1, <2>2 DEF Ending, MarkStored, MarkWritten
<1>2. CASE Eot2
  <2>1. pc = "eot2" /\ pc' = "close1" /\ record' = ZeroFrom(record, cur)  BY <1>2 DEF Eot2
  <2>2. IF cur > 0 THEN record[cur - 1] = Zero ELSE Fresh \/ Lead(real) = 0
    BY <1>0, <2>1 DEF Ending, MarkStored
  <2>3. ASSUME NEW i \in Slots, i >= cur' - 2  PROVE record'[i] = Zero
    <3>1. i \in Nat /\ (i >= cur \/ (cur > 0 /\ i = cur - 1))  BY <1>0, <2>3 DEF Slots
    <3> QED  BY <2>1, <2>2, <3>1, <1>0 DEF ZeroFrom
  <2>4. cur' = 1 => Fresh' \/ Lead(real') = 0
    <3>1. Fresh' <=> Fresh  BY <1>0 DEF Fresh, Mounted
    <3> QED  BY <3>1, <2>2, <1>0
  <2> QED  BY <1>0, <2>1, <2>3, <2>4 DEF Ending, MarkStored, MarkWritten, Slots
<1> QED  BY <1>1, <1>2

LEMMA FlushWholeEnding ==
  ASSUME Typed, Place, Told, Safe, Ending, BF >= 3, FlushWhole
  PROVE  Ending'
<1>0. /\ nv = "none" /\ nv' = nv /\ cur' = 0 /\ WriteRecord /\ MultiVolumeSync
      /\ UNCHANGED <<setting, record>> /\ pc' = AfterFlush(pc)
      /\ \/ pc \in {"label", "header", "fill", "padfill", "eot1", "eot2"}
         \/ pc = "close1" \/ (pc = "close2" /\ cur > 0)
      /\ cur \in 0 .. BF /\ BF \in Nat
  BY GivenTypes DEF FlushWhole, FlushPoint, given, Typed
<1>1. CASE pc \in {"label", "header", "fill", "padfill", "eot1"}
  <2>1. pc' = pc  BY <1>0, <1>1 DEF AfterFlush
  <2> QED  BY <1>1, <2>1 DEF Ending, MarkStored, MarkMoved, MarkWritten
<1>2. CASE pc = "eot2"
  <2>1. pc' = "eot2"  BY <1>0, <1>2 DEF AfterFlush
  <2>2. Lead(real') = 0
    <3>1. multi_volume_option => save.name = NoName
      BY <1>2 DEF Told, Stopped, InMember
    <3>2. ~ multi_volume_option => real' = real /\ real.name = NoName
      BY <1>0 DEF MultiVolumeSync, Told
    <3>3. real'.name = NoName  BY <1>0, <3>1, <3>2 DEF MultiVolumeSync, NoMember
    <3> QED  BY <3>3 DEF Lead
  <2> QED  BY <1>0, <2>1, <2>2 DEF Ending, MarkStored, MarkWritten
<1>3. CASE pc \in {"close1", "close2"}
  <2>1. pc' \in {"close2", "closed"}  BY <1>0, <1>3 DEF AfterFlush
  <2>2. record[BF - 1] = Zero /\ record[BF - 2] = Zero
    <3>1. BF - 1 \in Slots /\ BF - 2 \in Slots /\ BF - 1 >= cur - 2 /\ BF - 2 >= cur - 2
      BY <1>0 DEF Slots
    <3> QED  BY <1>0, <1>3, <3>1 DEF Ending, MarkStored
  <2>3. EndsInZeros(Mounted')  BY <1>0, <2>2, EndOfRecord
  <2> QED  BY <1>0, <2>1, <2>3 DEF Ending, MarkStored, MarkWritten
<1> QED  BY <1>0, <1>1, <1>2, <1>3

LEMMA ChangeVolumeEnding ==
  ASSUME Typed, WholeRecords, Safe, Ending, BF >= 3, NEW status \in 0 .. BF - 1,
         ChangeVolume(status)
  PROVE  Ending'
<1>0. /\ nv = "none" /\ nv' # "none" /\ status = 0 /\ real' = real
      /\ other' = record /\ to' = cur /\ cur \in 0 .. BF /\ BF \in Nat
  BY GivenTypes DEF ChangeVolume, CopyFrom, ShortWrites, WholeRecords, FlushPoint, Typed
<1>1. ~ Fresh  BY FullIsLong DEF ChangeVolume
<1>2. /\ pc \in {"label", "header", "fill", "padfill", "eot1", "eot2", "close1"} /\ cur > 0
      /\ pc' = AfterFlush(pc)
  <2>1. \/ pc \in {"label", "header", "fill", "padfill", "eot1", "eot2"} /\ cur = BF
        \/ pc = "close1" \/ (pc = "close2" /\ cur > 0)
    BY DEF ChangeVolume, FlushPoint
  <2>2. pc \in {"close1", "close2"} => pc = "close1" /\ cur > 0
    <3>1. ~ (pc = "close2" /\ cur > 0) /\ (pc = "close1" => cur > 0)
      BY <1>0, <1>1 DEF Safe, Storing, Stopped
    <3> QED  BY <3>1, <2>1
  <2>3. pc' = AfterFlush(pc)  BY <1>0 DEF ChangeVolume
  <2> QED  BY <2>1, <2>2, <2>3, <1>0
<1>3. CASE pc \in {"label", "header", "fill", "padfill", "eot1"}
  <2>1. pc' = pc  BY <1>2, <1>3 DEF AfterFlush
  <2> QED  BY <1>3, <2>1 DEF Ending, MarkStored, MarkMoved, MarkWritten
<1>4. CASE pc = "eot2"
  <2>1. pc' = "eot2"  BY <1>2, <1>4 DEF AfterFlush
  <2>2. record[cur - 1] = Zero  BY <1>0, <1>2, <1>4 DEF Ending, MarkStored
  <2> QED  BY <1>0, <2>1, <2>2 DEF Ending, MarkMoved, MarkWritten
<1>5. CASE pc = "close1"
  <2>1. pc' = "close2"  BY <1>2, <1>5 DEF AfterFlush
  <2>2. /\ \A i \in Slots : i >= cur - 2 => record[i] = Zero
        /\ cur = 1 => Lead(real) = 0
    BY <1>0, <1>1, <1>5 DEF Ending, MarkStored
  <2>3. cur - 1 \in Slots /\ (cur # 1 => cur - 2 \in Slots)  BY <1>0, <1>2 DEF Slots
  <2>4. record[cur - 1] = Zero /\ (cur # 1 => record[cur - 2] = Zero)
    BY <2>2, <2>3, <1>0
  <2>5. Lead(real') = Lead(real)  BY <1>0
  <2> QED  BY <1>0, <2>1, <2>2, <2>4, <2>5 DEF Ending, MarkMoved, MarkWritten
<1> QED  BY <1>2, <1>3, <1>4, <1>5

(* The blocks that were moved are the last ones of the line.               *)
LEMMA VolumeChangedEnding ==
  ASSUME Typed, Told, Safe, Ending, BF >= 3, VolumeChanged
  PROVE  Ending'
<1>0. /\ nv = "done" /\ nv' = "none" /\ pc \notin {"fatal", "undefined"} /\ cur < BF
      /\ UNCHANGED <<setting, size, volumes, record, cur, real, pc>>
  BY DEF VolumeChanged, Changing, given
<1>1. ~ Stopped /\ pc # "done"  BY <1>0 DEF Told, Stopped
<1>2. /\ to > 0 /\ from = to /\ Begins(LabelSize + Lead(real) + from) /\ ZerosFollow
      /\ pc \notin {"close1", "closed"} /\ Len(volumes) > 1
  BY <1>0, <1>1 DEF Safe, Moving
<1>3. /\ LabelSize \in {0, 1} /\ Lead(real) \in {0, 1} /\ to \in Nat /\ to <= BF
      /\ BF \in Nat /\ cur \in Nat /\ Level \in Nat /\ Level = Len(Mounted) + cur
      /\ Len(Mounted) \in Nat
      /\ \A k \in 1 .. Len(Mounted) : Line[k] = Mounted[k]
      /\ \A i \in 0 .. cur - 1 : Line[Len(Mounted) + i + 1] = record[i]
  <2>1. BF \in Nat  BY GivenTypes
  <2> QED  BY <2>1, LineFacts DEF Typed, Lead
<1>4. Level = LabelSize + Lead(real) + to /\ (Mounted # <<>> => Len(Mounted) >= BF)
  BY <1>2 DEF Begins, Safe, LastVolume
<1>5. ASSUME NEW i \in 0 .. to - 1  PROVE Line[LabelSize + Lead(real) + i + 1] = other[i]
  <2>1. /\ LabelSize + Lead(real) + i + 1 \in 1 .. Level
        /\ ~ LabelSize + Lead(real) + i + 1 <= LabelSize
        /\ (LabelSize + Lead(real) + i + 1) - LabelSize = Lead(real) + i + 1
    BY <1>3, <1>4
  <2>2. Line[LabelSize + Lead(real) + i + 1] = Rest(real, other, to)[Lead(real) + i + 1]
    <3>1. \A k \in 1 .. Level :
            Line[k] = IF k <= LabelSize THEN VolHdr(0) ELSE Rest(real, other, to)[k - LabelSize]
      BY <1>2, <1>4 DEF Begins
    <3> QED  BY <2>1, <3>1
  <2>3. Rest(real, other, to)[Lead(real) + i + 1] = other[i]  BY <1>3, RestBlocks
  <2> QED  BY <2>2, <2>3
<1>6. Line[Level] = other[to - 1] /\ (to > 1 => Line[Level - 1] = other[to - 2])
  <2>1. to - 1 \in 0 .. to - 1 /\ LabelSize + Lead(real) + (to - 1) + 1 = Level
    BY <1>2, <1>3, <1>4
  <2>2. to > 1 => to - 2 \in 0 .. to - 1 /\ LabelSize + Lead(real) + (to - 2) + 1 = Level - 1
    BY <1>3, <1>4
  <2> QED  BY <2>1, <2>2, <1>5
<1>7. cur > 0 => record[cur - 1] = Line[Level]
  <2>1. cur > 0 => cur - 1 \in 0 .. cur - 1 /\ Len(Mounted) + (cur - 1) + 1 = Level  BY <1>3
  <2> QED  BY <2>1, <1>3
<1>8. CASE pc = "eot2"
  <2>1. other[to - 1] = Zero  BY <1>0, <1>8 DEF Ending, MarkMoved
  <2>2. cur > 0 => record'[cur' - 1] = Zero  BY <2>1, <1>0, <1>6, <1>7
  <2>3. cur = 0 => Fresh'
    <3>1. cur = 0 => Len(Mounted) <= BF + 2  BY <1>3, <1>4
    <3> QED  BY <3>1, <1>0, <1>2 DEF Fresh, Mounted
  <2> QED  BY <1>0, <1>8, <2>2, <2>3, <1>3 DEF Ending, MarkStored, MarkWritten
<1>9. CASE pc = "close2"
  <2>1. /\ other[to - 1] = Zero
        /\ IF to = 1 THEN Lead(real) = 0 ELSE other[to - 2] = Zero
    BY <1>0, <1>9 DEF Ending, MarkMoved
  <2>2. ASSUME cur > 0, NEW i \in {BF - 1, BF - 2}  PROVE record[i] = Zero
    <3>1. i \in cur .. BF - 1 \/ i = cur - 1  BY <2>2, <1>0, <1>3
    <3> QED  BY <3>1, <2>1, <2>2, <1>2, <1>6, <1>7 DEF ZerosFollow
  <2>3. cur = 0 => EndsInZeros(Mounted)
    <3> SUFFICES ASSUME cur = 0 PROVE EndsInZeros(Mounted)  OBVIOUS
    <3>1. Level = Len(Mounted) /\ Len(Mounted) >= BF
      <4>1. Level = Len(Mounted) /\ Len(Mounted) > 0  BY <1>2, <1>3, <1>4
      <4>2. Mounted # <<>>  BY <4>1
      <4>3. Len(Mounted) >= BF  BY <4>2, <1>4
      <4> QED  BY <4>1, <4>3
    <3>2. to > 1  BY <3>1, <2>1, <1>2, <1>3, <1>4
    <3>3. Line[Level] = Zero /\ Line[Level - 1] = Zero  BY <3>2, <2>1, <1>6
    <3>4. Len(Mounted) \in 1 .. Len(Mounted) /\ Len(Mounted) - 1 \in 1 .. Len(Mounted)
      BY <3>1, <1>3
    <3> QED  BY <3>1, <3>3, <3>4, <1>3 DEF EndsInZeros
  <2>4. Mounted' = Mounted  BY <1>0 DEF Mounted
  <2> QED  BY <1>0, <1>9, <2>2, <2>3, <2>4 DEF Ending, MarkStored, MarkWritten
<1>10. CASE pc \notin {"eot2", "close2"}
  BY <1>0, <1>1, <1>2, <1>10 DEF Ending, MarkStored, MarkWritten
<1> QED  BY <1>8, <1>9, <1>10

LEMMA CloseEnding ==
  ASSUME Typed, Place, Safe, Ending, Close
  PROVE  Ending'
<1>1. /\ nv = "none" /\ nv' = nv /\ pc' = "done" /\ UNCHANGED <<volumes, cur>>
      /\ (pc = "close2" /\ cur = 0) \/ pc = "closed"
  BY DEF Close, buffer
<1>2. EndsInZeros(Mounted)  BY <1>1 DEF Ending, MarkWritten
<1>3. Lacks(Line, Level, current, 0) /\ cur = 0
  <2>1. left = 0  BY <1>1 DEF Place, InMember, Stopped
  <2> QED  BY <2>1, <1>1 DEF Safe, Storing, Stopped
<1>4. Lacks(Mounted, Len(Mounted), NoName, 0)
  <2>1. /\ Level = Len(Mounted) /\ Len(Mounted) \in Nat
        /\ \A k \in 1 .. Len(Mounted) : Line[k] = Mounted[k]
    BY <1>3, LineFacts
  <2>2. ASSUME NEW k \in 1 .. Len(Mounted), IsHead(Mounted[k])
        PROVE  k + Mounted[k].size <= Len(Mounted)
    <3>1. Line[k] = Mounted[k]  BY <2>1
    <3>2. Mounted \in Seq(Block)  BY GivenTypes
    <3>3. Mounted[k] \in Block  BY <3>2
    <3>4. Mounted[k].size \in Nat  BY <3>3 DEF Block
    <3> QED  BY <3>1, <3>4, <2>1, <2>2, <1>3 DEF Lacks
  <2> QED  BY <2>2 DEF Lacks
<1>5. Mounted' = Mounted  BY <1>1 DEF Mounted
<1> QED  BY <1>1, <1>2, <1>4, <1>5 DEF Ending, MarkStored, MarkWritten

LEMMA EndingNext == Inv /\ Ending /\ WholeRecords /\ BF >= 3 /\ [Next]_vars => Ending'
<1> SUFFICES ASSUME Inv, Ending, WholeRecords, BF >= 3, [Next]_vars PROVE Ending'  OBVIOUS
<1>0. Typed /\ Place /\ Told /\ Safe  BY DEF Inv
<1>n. pc' \notin {"eot2", "close1", "close2", "closed", "done"} => Ending'
  BY DEF Ending, MarkStored, MarkMoved, MarkWritten
<1>1. CASE WriteLabel \/ NextMember \/ WriteHeader \/ SizeLeft \/ FillFull
           \/ (\E count \in ShortCounts : FillShort(count)) \/ ReadError \/ Pad
           \/ EndMember \/ StartEot
  <2>1. pc' \in {"next", "header", "data", "fill", "pad", "padfill", "eot1"}
    BY <1>1 DEF WriteLabel, NextMember, WriteHeader, SizeLeft, FillFull, FillShort, ReadError,
                Pad, EndMember, StartEot
  <2> QED  BY <2>1, <1>n
<1>2. CASE Eot1 \/ Eot2  BY <1>0, <1>2, EotEnding
<1>3. CASE FlushWhole  BY <1>0, <1>3, FlushWholeEnding
<1>4. CASE FlushFatal \/ NoMoreVolumes \/ SimpleFlushFatal
  BY <1>4, <1>n DEF FlushFatal, NoMoreVolumes, SimpleFlushFatal
<1>5. CASE \E status \in 0 .. BF - 1 : ChangeVolume(status)
  BY <1>0, <1>5, ChangeVolumeEnding
<1>6. CASE SimpleFlushWrite \/ AddVolumeLabel \/ AddMultiVolumeHeader \/ CopyChunk
  <2>1. /\ nv # "none" /\ nv' # "none" /\ pc \notin {"fatal", "undefined"}
        /\ UNCHANGED <<other, to, real, pc>>
    BY <1>6 DEF SimpleFlushWrite, AddVolumeLabel, AddMultiVolumeHeader, CopyChunk, Changing
  <2>2. ~ Stopped  BY <2>1, <1>0 DEF Told, Stopped
  <2>3. pc \notin {"close1", "closed", "done"}
    BY <2>1, <2>2, <1>0 DEF Safe, Moving, Stopped
  <2>4. Lead(real') = Lead(real)  BY <2>1
  <2> QED  BY <2>1, <2>3, <2>4 DEF Ending, MarkMoved, MarkWritten
<1>7. CASE VolumeChanged  BY <1>0, <1>7, VolumeChangedEnding
<1>8. CASE Close  BY <1>0, <1>8, CloseEnding
<1>9. CASE UNCHANGED vars
  <2>1. UNCHANGED <<setting, volumes, record, cur, other, to, nv, real, pc>>
    BY <1>9 DEF vars, given, device, buffer, tracking, dump
  <2>2. Mounted' = Mounted /\ (Fresh' <=> Fresh) /\ Lead(real') = Lead(real)
    BY <2>1 DEF Mounted, Fresh
  <2> QED  BY <2>1, <2>2 DEF Ending, MarkStored, MarkMoved, MarkWritten, Slots
<1> QED  BY <1>1, <1>2, <1>3, <1>4, <1>5, <1>6, <1>7, <1>8, <1>9
         DEF Next, Dump, FlushWrite, VolumeChange
-----------------------------------------------------------------------------
(* The state of the writer keeps its types: the position in the record and *)
(* the ends of a copy stay within it, and the size that remains never      *)
(* becomes negative (buffer.c:1554-1735, create.c:1078-1129).              *)
THEOREM WriterTyped == Spec => []Typed
BY InvHolds, PTL DEF Inv

(* A volume that starts inside a member says so, and truly, whatever the   *)
(* blocking factor, the members, the sizes and the number of volumes       *)
(* (buffer.c:1656-1700, 1774-1830).                                        *)
THEOREM VolumesContinue == Spec => []ContinuationMatches
BY InvContinues, InvHolds, PTL
-----------------------------------------------------------------------------
(* Sequences of blocks that are joined.  A recursive function is reasoned  *)
(* about by its least counterexample (WFMin).                              *)

(* Sequences that are joined one after the other.                          *)
LEMMA LeastOfNat ==
  ASSUME NEW S, S \subseteq Nat, S # {}
  PROVE  \E x \in S : \A y \in S : x <= y
<1> DEFINE R == OpToRel(<, Nat)
<1>1. IsWellFoundedOn(R, Nat)  BY NatLessThanWellFounded
<1>2. \A x, y \in Nat : x < y => <<x, y>> \in R  BY DEF OpToRel
<1> HIDE DEF R
<1>3. PICK x \in S : \A y \in S : ~ (<<y, x>> \in R)  BY <1>1, WFMin
<1>4. ASSUME NEW y \in S  PROVE  x <= y
  <2>1. x \in Nat /\ y \in Nat  OBVIOUS
  <2>2. ~ (y < x)  BY <1>2, <1>3, <2>1, Zenon
  <2> QED  BY <2>1, <2>2
<1> QED  BY <1>3, <1>4

(* s before t: the provers expand \o, and lose themselves in it.            *)
Cat(s, t) == s \o t

LEMMA CatType ==
  \A s, t \in Seq(Block) : Cat(s, t) \in Seq(Block)
BY ConcatProperties DEF Cat

LEMMA CatElements ==
  ASSUME NEW s \in Seq(Block), NEW t \in Seq(Block)
  PROVE  /\ Len(Cat(s, t)) = Len(s) + Len(t)
         /\ \A i \in 1 .. Len(s) : Cat(s, t)[i] = s[i]
         /\ \A i \in 1 .. Len(t) : Cat(s, t)[Len(s) + i] = t[i]
BY ConcatProperties DEF Cat

LEMMA CatEmpty ==
  \A s \in Seq(Block) : Cat(s, <<>>) = s /\ Cat(<<>>, s) = s
BY ConcatEmptySeq DEF Cat

LEMMA CatAssociative ==
  \A s, t, u \in Seq(Block) : Cat(Cat(s, t), u) = Cat(s, Cat(t, u))
BY ConcatAssociative DEF Cat

LEMMA CatCancels ==
  \A s, t, u \in Seq(Block) : Cat(s, t) = Cat(s, u) => t = u
BY ConcatSimplifications DEF Cat

Joins(f, p, m) ==
  /\ f \in [0 .. m -> Seq(Block)] /\ f[0] = <<>>
  /\ \A k \in 1 .. m : f[k] = f[k - 1] \o p[k]

(* What is joined depends on the pieces alone.                             *)
Alike(f, p, l, g, q, n, m) ==
  /\ m \in Nat /\ l \in Nat /\ n \in Nat /\ m <= l /\ m <= n
  /\ Joins(f, p, l) /\ Joins(g, q, n) /\ \A k \in 1 .. m : p[k] = q[k]

LEMMA JoinsSame ==
  ASSUME NEW m, NEW l, NEW n, NEW p, NEW q, NEW f, NEW g, Alike(f, p, l, g, q, n, m)
  PROVE  f[m] = g[m]
<1> USE DEF Alike
<1> DEFINE Bad == {k \in 0 .. m : f[k] # g[k]}
<1>1. ASSUME Bad # {}  PROVE  FALSE
  <2>1. Bad \subseteq Nat  OBVIOUS
  <2>2. PICK k \in Bad : \A x \in Bad : k <= x
    <3> HIDE DEF Bad
    <3> QED  BY <1>1, <2>1, LeastOfNat
  <2>3. k # 0  BY <2>2 DEF Joins
  <2>4. k \in 1 .. m /\ k \in 1 .. n /\ k \in 1 .. l /\ k - 1 \in 0 .. m /\ k - 1 \notin Bad
    <3>1. k \in 1 .. m  BY <2>2, <2>3
    <3> HIDE DEF Bad
    <3> QED  BY <2>2, <3>1
  <2>5. f[k - 1] = g[k - 1]  BY <2>4
  <2> QED  BY <2>2, <2>4, <2>5 DEF Joins
<1> QED  BY <1>1

LEMMA Joined ==
  ASSUME NEW m \in Nat, NEW p \in [1 .. m -> Seq(Block)]
  PROVE  \E f : Joins(f, p, m)
<1> DEFINE Bad == {n \in 0 .. m : ~ \E f : Joins(f, p, n)}
<1>1. ASSUME Bad # {}  PROVE  FALSE
  <2>1. Bad \subseteq Nat  OBVIOUS
  <2>2. PICK n \in Bad : \A x \in Bad : n <= x
    <3> HIDE DEF Bad
    <3> QED  BY <1>1, <2>1, LeastOfNat
  <2>3. n # 0
    <3>1. Joins([k \in 0 .. 0 |-> <<>>], p, 0)  BY DEF Joins
    <3> QED  BY <2>2, <3>1
  <2>4. n \in 1 .. m /\ n - 1 \in 0 .. m /\ n - 1 \notin Bad
    <3>1. n \in 1 .. m  BY <2>2, <2>3
    <3> HIDE DEF Bad
    <3> QED  BY <2>2, <3>1
  <2>5. PICK f : Joins(f, p, n - 1)  BY <2>4
  <2> DEFINE g == [k \in 0 .. n |-> IF k = n THEN f[n - 1] \o p[n] ELSE f[k]]
  <2>6. n - 1 \in 0 .. n - 1 /\ f[n - 1] \in Seq(Block) /\ p[n] \in Seq(Block)
    BY <2>4, <2>5 DEF Joins
  <2>7. g \in [0 .. n -> Seq(Block)] /\ g[0] = <<>>
    BY <2>3, <2>4, <2>5, <2>6 DEF Joins
  <2>8. ASSUME NEW k \in 1 .. n  PROVE  g[k] = g[k - 1] \o p[k]
    <3>1. k - 1 \in 0 .. n - 1 /\ g[k - 1] = f[k - 1]  BY <2>4
    <3>2. k # n => k \in 1 .. n - 1 /\ g[k] = f[k]  BY <2>4
    <3>3. CASE k = n
      <4>1. g[k] = f[n - 1] \o p[n]  BY <3>3
      <4> QED  BY <3>1, <3>3, <4>1
    <3>4. CASE k # n
      <4>1. f[k] = f[k - 1] \o p[k]  BY <2>5, <3>2, <3>4 DEF Joins
      <4> QED  BY <3>1, <3>2, <3>4, <4>1
    <3> QED  BY <3>3, <3>4
  <2>9. Joins(g, p, n)
    <3> HIDE DEF g
    <3> QED  BY <2>7, <2>8 DEF Joins
  <2> QED  BY <2>2, <2>9
<1>2. m \in 0 .. m  OBVIOUS
<1> QED  BY <1>1, <1>2

(* A recursive definition that joins pieces does join them.                *)
Recursion(f, p, m) == f = [k \in 0 .. m |-> IF k = 0 THEN <<>> ELSE f[k - 1] \o p[k]]

LEMMA RecursionExists ==
  ASSUME NEW m \in Nat, NEW p \in [1 .. m -> Seq(Block)]
  PROVE  \E f : Recursion(f, p, m)
<1>1. PICK g : Joins(g, p, m)  BY Joined
<1>2. ASSUME NEW k \in 0 .. m
      PROVE  g[k] = IF k = 0 THEN <<>> ELSE g[k - 1] \o p[k]
  <2>1. k # 0 => k \in 1 .. m  OBVIOUS
  <2> QED  BY <1>1, <2>1 DEF Joins
<1>3. g = [k \in 0 .. m |-> g[k]]  BY <1>1 DEF Joins
<1> QED  BY <1>2, <1>3 DEF Recursion

LEMMA RecursionJoins ==
  ASSUME NEW m \in Nat, NEW p \in [1 .. m -> Seq(Block)], NEW f, Recursion(f, p, m)
  PROVE  Joins(f, p, m)
<1>1. PICK g : Joins(g, p, m)  BY Joined
<1>4. /\ f[0] = <<>> /\ f = [k \in 0 .. m |-> f[k]]
      /\ \A k \in 1 .. m : f[k] = f[k - 1] \o p[k]
  <2>1. \A k \in 0 .. m : f[k] = IF k = 0 THEN <<>> ELSE f[k - 1] \o p[k]  BY DEF Recursion
  <2>2. 0 \in 0 .. m /\ \A k \in 1 .. m : k \in 0 .. m /\ k # 0  OBVIOUS
  <2>3. f = [k \in 0 .. m |-> f[k]]  BY DEF Recursion
  <2> QED  BY <2>1, <2>2, <2>3
<1> DEFINE Bad == {k \in 0 .. m : f[k] # g[k]}
<1>5. ASSUME Bad # {}  PROVE  FALSE
  <2>1. Bad \subseteq Nat  OBVIOUS
  <2>2. PICK k \in Bad : \A x \in Bad : k <= x
    <3> HIDE DEF Bad
    <3> QED  BY <1>5, <2>1, LeastOfNat
  <2>3. k # 0  BY <1>1, <1>4, <2>2 DEF Joins
  <2>4. k \in 1 .. m /\ k - 1 \in 0 .. m /\ k - 1 \notin Bad
    <3>1. k \in 1 .. m  BY <2>2, <2>3
    <3> HIDE DEF Bad
    <3> QED  BY <2>2, <3>1
  <2>5. f[k - 1] = g[k - 1]  BY <2>4
  <2> QED  BY <1>1, <1>4, <2>2, <2>4, <2>5 DEF Joins
<1>6. \A k \in 0 .. m : f[k] = g[k] /\ g[k] \in Seq(Block)  BY <1>1, <1>5 DEF Joins
<1>7. f \in [0 .. m -> Seq(Block)]  BY <1>4, <1>6
<1> QED  BY <1>4, <1>7 DEF Joins

(* Pieces joined after other pieces.                                       *)
InTurn(f, p, m, g, q, n, h, r, l) ==
  /\ m \in Nat /\ n \in Nat /\ l = m + n
  /\ Joins(f, p, m) /\ Joins(g, q, n) /\ Joins(h, r, l)
  /\ \A k \in 1 .. m : r[k] = p[k]
  /\ \A k \in 1 .. n : r[m + k] = q[k]
  /\ \A k \in 1 .. n : q[k] \in Seq(Block)

LEMMA JoinsAfter ==
  ASSUME NEW m, NEW n, NEW p, NEW q, NEW r, NEW f, NEW g, NEW h, NEW l,
         InTurn(f, p, m, g, q, n, h, r, l)
  PROVE  h[l] = Cat(f[m], g[n])
<1> USE DEF InTurn, Cat
<1> DEFINE e == [k \in 0 .. m + n |-> IF k <= m THEN f[k] ELSE f[m] \o g[k - m]]
<1>1. /\ \A k \in 0 .. m : f[k] \in Seq(Block)
      /\ \A k \in 0 .. n : g[k] \in Seq(Block)
  BY DEF Joins
<1>0. m \in 0 .. m /\ f[m] \in Seq(Block) /\ f[0] = <<>> /\ 0 \in 0 .. m
  BY <1>1 DEF Joins
<1>8. \A k \in 0 .. m : e[k] = f[k]  OBVIOUS
<1>9. ASSUME NEW k \in m + 1 .. m + n
      PROVE  e[k] = f[m] \o g[k - m] /\ k - m \in 1 .. n /\ k - m \in 0 .. n
  <2>1. k \in 0 .. m + n /\ ~ k <= m /\ k - m \in 1 .. n /\ k - m \in 0 .. n  OBVIOUS
  <2> QED  BY <2>1
<1>2. e \in [0 .. m + n -> Seq(Block)]
  <2>1. ASSUME NEW k \in 0 .. m + n  PROVE  e[k] \in Seq(Block)
    <3>1. CASE k <= m
      <4>1. k \in 0 .. m  BY <3>1
      <4> HIDE DEF e
      <4> QED  BY <4>1, <1>1, <1>8
    <3>2. CASE k > m
      <4>1. k \in m + 1 .. m + n  BY <3>2
      <4> HIDE DEF e
      <4>2. e[k] = f[m] \o g[k - m] /\ g[k - m] \in Seq(Block)  BY <4>1, <1>1, <1>9
      <4> QED  BY <4>2, <1>0, ConcatProperties
    <3> QED  BY <3>1, <3>2
  <2>2. e = [k \in 0 .. m + n |-> e[k]]  OBVIOUS
  <2> HIDE DEF e
  <2> QED  BY <2>1, <2>2
<1> HIDE DEF e
<1>3. e[0] = <<>>  BY <1>0, <1>8
<1>4. ASSUME NEW k \in 1 .. m + n  PROVE  e[k] = e[k - 1] \o r[k]
  <2>1. CASE k <= m
    <3>1. k \in 1 .. m /\ k - 1 \in 0 .. m /\ k \in 0 .. m  BY <2>1
    <3>2. f[k] = f[k - 1] \o p[k] /\ r[k] = p[k]  BY <3>1 DEF Joins
    <3> QED  BY <3>1, <3>2, <1>8
  <2>2. CASE k > m
    <3>1. PICK j \in 0 .. n - 1 : k = m + j + 1
      <4>1. k - m - 1 \in 0 .. n - 1 /\ k = m + (k - m - 1) + 1  BY <2>2
      <4> QED  BY <4>1
    <3>2. j + 1 \in 1 .. n /\ j \in 0 .. n /\ m + (j + 1) = k /\ (j + 1) - 1 = j  BY <3>1
    <3>3. g[j + 1] = g[j] \o q[j + 1] /\ r[k] = q[j + 1]  BY <3>2 DEF Joins
    <3>4. g[j] \in Seq(Block) /\ q[j + 1] \in Seq(Block)  BY <1>1, <3>2
    <3>5. (f[m] \o g[j]) \o q[j + 1] = f[m] \o (g[j] \o q[j + 1])
      <4> DEFINE a == f[m]
                 b == g[j]
                 c == q[j + 1]
      <4>1. a \in Seq(Block) /\ b \in Seq(Block) /\ c \in Seq(Block)  BY <1>0, <3>4
      <4> HIDE DEF a, b, c
      <4>2. (a \o b) \o c = a \o (b \o c)  BY <4>1, ConcatAssociative
      <4> QED  BY <4>2 DEF a, b, c
    <3>6. e[k] = f[m] \o g[j + 1]
      <4>1. k \in m + 1 .. m + n /\ k - m = j + 1  BY <2>2, <3>1
      <4>2. e[k] = f[m] \o g[k - m]  BY <4>1, <1>9
      <4> QED  BY <4>1, <4>2
    <3>7. e[k - 1] = f[m] \o g[j]
      <4>1. CASE j = 0
        <5>1. k - 1 = m /\ k - 1 \in 0 .. m  BY <3>1, <4>1
        <5>2. e[k - 1] = f[m] /\ g[j] = <<>>  BY <5>1, <1>8, <4>1 DEF Joins
        <5> QED  BY <5>2, <1>0, ConcatEmptySeq
      <4>2. CASE j # 0
        <5>1. k - 1 \in m + 1 .. m + n /\ (k - 1) - m = j  BY <3>1, <4>2
        <5>2. e[k - 1] = f[m] \o g[(k - 1) - m]  BY <5>1, <1>9
        <5> QED  BY <5>1, <5>2
      <4> QED  BY <4>1, <4>2
    <3> QED  BY <3>3, <3>5, <3>6, <3>7
  <2>3. k <= m \/ k > m  OBVIOUS
  <2> QED  BY <2>1, <2>2, <2>3, Zenon
<1>5. Joins(e, r, m + n)
  <2> HIDE DEF e
  <2> QED  BY <1>2, <1>3, <1>4 DEF Joins
<1>6. h[m + n] = e[m + n]
  <2>1. m + n \in Nat /\ m + n <= m + n  OBVIOUS
  <2>2. Alike(h, r, m + n, e, r, m + n, m + n)
    <3> HIDE DEF e
    <3> QED  BY <1>5, <2>1 DEF Alike
  <2> HIDE DEF e
  <2> QED  BY <2>2, JoinsSame
<1>7. e[m + n] = f[m] \o g[n]
  <2>1. CASE n = 0
    <3>1. m + n \in 0 .. m /\ m + n = m  BY <2>1
    <3>2. g[n] = <<>> /\ e[m + n] = f[m]  BY <1>8, <2>1, <3>1 DEF Joins
    <3> QED  BY <3>2, <1>0, ConcatEmptySeq
  <2>2. CASE n # 0
    <3>1. m + n \in m + 1 .. m + n /\ (m + n) - m = n  BY <2>2
    <3>2. e[m + n] = f[m] \o g[(m + n) - m]  BY <3>1, <1>9
    <3> QED  BY <3>1, <3>2
  <2> QED  BY <2>1, <2>2
<1> QED  BY <1>6, <1>7

-----------------------------------------------------------------------------
(* The blocks of some kinds.                                               *)

(* The blocks of some kinds.                                               *)
One(b, K) == IF b.kind \in K THEN <<b>> ELSE <<>>
Picks(s, K) == [k \in 1 .. Len(s) |-> One(s[k], K)]

LEMMA OneType == \A b \in Block : \A K : One(b, K) \in Seq(Block)
BY DEF One

LEMMA OfKindsJoins ==
  ASSUME NEW s \in Seq(Block), NEW K
  PROVE  /\ Picks(s, K) \in [1 .. Len(s) -> Seq(Block)]
         /\ \E f : Joins(f, Picks(s, K), Len(s)) /\ OfKinds(s, K) = f[Len(s)]
<1>1. Len(s) \in Nat /\ \A k \in 1 .. Len(s) : s[k] \in Block  OBVIOUS
<1>2. Picks(s, K) \in [1 .. Len(s) -> Seq(Block)]  BY <1>1, OneType DEF Picks
<1> DEFINE D(f) == f = [n \in 0 .. Len(s) |->
                          IF n = 0 THEN <<>>
                          ELSE f[n - 1] \o (IF s[n].kind \in K THEN <<s[n]>> ELSE <<>>)]
           c == CHOOSE f : D(f)
<1>3. \A f : D(f) <=> Recursion(f, Picks(s, K), Len(s))
  <2>1. ASSUME NEW f, NEW n \in 0 .. Len(s), n # 0
        PROVE  (IF s[n].kind \in K THEN <<s[n]>> ELSE <<>>) = Picks(s, K)[n]
    <3>1. n \in 1 .. Len(s)  BY <1>1, <2>1
    <3> QED  BY <3>1 DEF Picks, One
  <2>2. ASSUME NEW f
        PROVE  [n \in 0 .. Len(s) |->
                  IF n = 0 THEN <<>>
                  ELSE f[n - 1] \o (IF s[n].kind \in K THEN <<s[n]>> ELSE <<>>)]
               = [n \in 0 .. Len(s) |->
                    IF n = 0 THEN <<>> ELSE f[n - 1] \o Picks(s, K)[n]]
    BY <2>1
  <2> QED  BY <2>2 DEF Recursion
<1>4. OfKinds(s, K) = c[Len(s)]
  BY DEF OfKinds
<1>5. D(c)
  <2>1. \E f : D(f)
    <3> HIDE DEF D
    <3> QED  BY <1>1, <1>2, <1>3, RecursionExists
  <2> HIDE DEF D
  <2> QED  BY <2>1
<1> HIDE DEF D, c
<1>6. Joins(c, Picks(s, K), Len(s))  BY <1>1, <1>2, <1>3, <1>5, RecursionJoins
<1> QED  BY <1>2, <1>4, <1>6

LEMMA OfKindsType ==
  ASSUME NEW s \in Seq(Block), NEW K  PROVE  OfKinds(s, K) \in Seq(Block)
<1>1. PICK f : Joins(f, Picks(s, K), Len(s)) /\ OfKinds(s, K) = f[Len(s)]  BY OfKindsJoins
<1>2. Len(s) \in 0 .. Len(s)  OBVIOUS
<1> QED  BY <1>1, <1>2 DEF Joins

LEMMA OfKindsConcat ==
  ASSUME NEW s \in Seq(Block), NEW t \in Seq(Block), NEW K
  PROVE  OfKinds(Cat(s, t), K) = Cat(OfKinds(s, K), OfKinds(t, K))
<1> DEFINE u == s \o t
           m == Len(s)
           n == Len(t)
<1>1. u \in Seq(Block) /\ Len(u) = m + n /\ m \in Nat /\ n \in Nat
      /\ (\A k \in 1 .. m : u[k] = s[k]) /\ (\A k \in 1 .. n : u[m + k] = t[k])
  <2>1. /\ u \in Seq(Block) /\ Len(u) = m + n /\ m \in Nat /\ n \in Nat
        /\ \A i \in 1 .. m + n : u[i] = IF i <= m THEN s[i] ELSE t[i - m]
    BY ConcatProperties
  <2>2. \A k \in 1 .. n : m + k \in 1 .. m + n /\ ~ m + k <= m /\ (m + k) - m = k  BY <2>1
  <2>3. \A k \in 1 .. m : k \in 1 .. m + n /\ k <= m  BY <2>1
  <2> HIDE DEF u, m, n
  <2> QED  BY <2>1, <2>2, <2>3
<1> HIDE DEF u
<1>2. PICK f : Joins(f, Picks(s, K), m) /\ OfKinds(s, K) = f[m]  BY OfKindsJoins
<1>3. PICK g : Joins(g, Picks(t, K), n) /\ OfKinds(t, K) = g[n]  BY OfKindsJoins
<1>4. PICK h : Joins(h, Picks(u, K), m + n) /\ OfKinds(u, K) = h[m + n]  BY <1>1, OfKindsJoins
<1>5. \A k \in 1 .. m : Picks(u, K)[k] = Picks(s, K)[k]  BY <1>1 DEF Picks
<1>6. \A k \in 1 .. n : Picks(u, K)[m + k] = Picks(t, K)[k]
  <2>1. \A k \in 1 .. n : m + k \in 1 .. Len(u)  BY <1>1
  <2> QED  BY <1>1, <2>1 DEF Picks
<1>7. \A k \in 1 .. n : Picks(t, K)[k] \in Seq(Block)  BY OfKindsJoins
<1>8. h[m + n] = Cat(f[m], g[n])
  <2>1. InTurn(f, Picks(s, K), m, g, Picks(t, K), n, h, Picks(u, K), m + n)
    BY <1>1, <1>2, <1>3, <1>4, <1>5, <1>6, <1>7 DEF InTurn
  <2> HIDE DEF m, n
  <2> QED  BY <2>1, JoinsAfter
<1>9. OfKinds(u, K) = Cat(OfKinds(s, K), OfKinds(t, K))  BY <1>2, <1>3, <1>4, <1>8
<1> QED  BY <1>9 DEF u, Cat

LEMMA OfKindsAll ==
  ASSUME NEW s \in Seq(Block), NEW K, \A k \in 1 .. Len(s) : s[k].kind \in K
  PROVE  OfKinds(s, K) = s
<1> DEFINE m == Len(s)
           g == [k \in 0 .. m |-> SubSeq(s, 1, k)]
<1>1. m \in Nat /\ \A k \in 1 .. m : s[k] \in Block  OBVIOUS
<1>2. PICK f : Joins(f, Picks(s, K), m) /\ OfKinds(s, K) = f[m]  BY OfKindsJoins
<1>3. Joins(g, Picks(s, K), m)
  <2>1. \A k \in 0 .. m : SubSeq(s, 1, k) \in Seq(Block)
    <3>1. ASSUME NEW k \in 0 .. m  PROVE  SubSeq(s, 1, k) \in Seq(Block)
      <4>1. 1 \in Int /\ k \in Int /\ \A i \in 1 .. k : s[i] \in Block  BY <1>1
      <4> QED  BY <4>1, SubSeqProperties
    <3> QED  BY <3>1
  <2>2. SubSeq(s, 1, 0) = <<>>  BY SubSeqEmpty
  <2>3. ASSUME NEW k \in 1 .. m  PROVE  SubSeq(s, 1, k) = SubSeq(s, 1, k - 1) \o <<s[k]>>
    <3>1. 1 \in 1 .. m /\ k \in 1 .. m  BY <1>1
    <3> QED  BY <3>1, SubSeqRecursiveSecond
  <2>4. ASSUME NEW k \in 1 .. m  PROVE  Picks(s, K)[k] = <<s[k]>>
    BY DEF Picks, One
  <2>5. 0 \in 0 .. m /\ \A k \in 1 .. m : k \in 0 .. m /\ k - 1 \in 0 .. m  BY <1>1
  <2>6. \A k \in 0 .. m : g[k] = SubSeq(s, 1, k)  OBVIOUS
  <2>7. g \in [0 .. m -> Seq(Block)]  BY <2>1
  <2> HIDE DEF g, m
  <2>8. g[0] = <<>>  BY <2>2, <2>5, <2>6
  <2>9. \A k \in 1 .. m : g[k] = g[k - 1] \o Picks(s, K)[k]  BY <2>3, <2>4, <2>5, <2>6
  <2> QED  BY <2>7, <2>8, <2>9 DEF Joins
<1>4. g[m] = s  BY <1>1, SubSeqFull
<1>5. f[m] = g[m]
  <2>1. m <= m  BY <1>1
  <2> HIDE DEF g, m
  <2>2. Alike(f, Picks(s, K), m, g, Picks(s, K), m, m)  BY <1>1, <1>2, <1>3, <2>1 DEF Alike
  <2> QED  BY <2>2, JoinsSame
<1> QED  BY <1>2, <1>4, <1>5

LEMMA OfKindsNone ==
  ASSUME NEW s \in Seq(Block), NEW K, \A k \in 1 .. Len(s) : s[k].kind \notin K
  PROVE  OfKinds(s, K) = <<>>
<1> DEFINE m == Len(s)
           g == [k \in 0 .. m |-> <<>>]
<1>1. m \in Nat  OBVIOUS
<1>2. PICK f : Joins(f, Picks(s, K), m) /\ OfKinds(s, K) = f[m]  BY OfKindsJoins
<1>3. Joins(g, Picks(s, K), m)
  <2>1. \A k \in 1 .. m : Picks(s, K)[k] = <<>>  BY DEF Picks, One
  <2>2. \A k \in 1 .. m : k \in 0 .. m /\ k - 1 \in 0 .. m  BY <1>1
  <2>3. <<>> \in Seq(Block) /\ <<>> \o <<>> = <<>>  BY ConcatEmptySeq
  <2>4. /\ g \in [0 .. m -> Seq(Block)] /\ g[0] = <<>>
        /\ \A k \in 1 .. m : g[k] = <<>> /\ g[k - 1] = <<>>
    BY <1>1, <2>2, <2>3
  <2> HIDE DEF g, m
  <2> QED  BY <2>1, <2>3, <2>4 DEF Joins
<1>4. f[m] = g[m]
  <2>1. m <= m  BY <1>1
  <2> HIDE DEF g, m
  <2>2. Alike(f, Picks(s, K), m, g, Picks(s, K), m, m)  BY <1>1, <1>2, <1>3, <2>1 DEF Alike
  <2> QED  BY <2>2, JoinsSame
<1>5. m \in 0 .. m  BY <1>1
<1> QED  BY <1>2, <1>4, <1>5

LEMMA OfKindsOne ==
  ASSUME NEW b \in Block, NEW K  PROVE  OfKinds(<<b>>, K) = One(b, K)
<1>1. <<b>> \in Seq(Block) /\ Len(<<b>>) = 1 /\ <<b>>[1] = b  OBVIOUS
<1>2. CASE b.kind \in K
  <2>1. \A k \in 1 .. Len(<<b>>) : <<b>>[k].kind \in K  BY <1>1, <1>2
  <2> QED  BY <1>1, <1>2, <2>1, OfKindsAll DEF One
<1>3. CASE b.kind \notin K
  <2>1. \A k \in 1 .. Len(<<b>>) : <<b>>[k].kind \notin K  BY <1>1, <1>3
  <2> QED  BY <1>1, <1>3, <2>1, OfKindsNone DEF One
<1> QED  BY <1>2, <1>3

LEMMA OfKindsEmpty == \A K : OfKinds(<<>>, K) = <<>>
<1> SUFFICES ASSUME NEW K PROVE OfKinds(<<>>, K) = <<>>  OBVIOUS
<1>1. <<>> \in Seq(Block) /\ \A k \in 1 .. Len(<<>>) : <<>>[k].kind \notin K  OBVIOUS
<1> QED  BY <1>1, OfKindsNone

(* The first k blocks of s.                                                *)
FirstBlocks(s, k) == SubSeq(s, 1, k)

LEMMA FirstBlocksType ==
  ASSUME NEW s \in Seq(Block), NEW k \in 0 .. Len(s)
  PROVE  FirstBlocks(s, k) \in Seq(Block)
<1>1. 1 \in Int /\ k \in Int /\ \A i \in 1 .. k : s[i] \in Block  OBVIOUS
<1> QED  BY <1>1, SubSeqProperties DEF FirstBlocks

LEMMA FirstBlocksStep ==
  ASSUME NEW s \in Seq(Block), NEW k \in 1 .. Len(s)
  PROVE  /\ FirstBlocks(s, k) = Cat(FirstBlocks(s, k - 1), <<s[k]>>)
         /\ FirstBlocks(s, k - 1) \in Seq(Block) /\ s[k] \in Block /\ <<s[k]>> \in Seq(Block)
<1>1. 1 \in 1 .. Len(s) /\ k - 1 \in 0 .. Len(s) /\ s[k] \in Block  OBVIOUS
<1>2. SubSeq(s, 1, k) = SubSeq(s, 1, k - 1) \o <<s[k]>>  BY <1>1, SubSeqRecursiveSecond
<1> QED  BY <1>1, <1>2, FirstBlocksType DEF FirstBlocks, Cat

LEMMA FirstBlocksEnds ==
  ASSUME NEW s \in Seq(Block)  PROVE  FirstBlocks(s, 0) = <<>> /\ FirstBlocks(s, Len(s)) = s
BY SubSeqEmpty, SubSeqFull DEF FirstBlocks

LEMMA OfKindsStep ==
  ASSUME NEW s \in Seq(Block), NEW k \in 1 .. Len(s), NEW K
  PROVE  OfKinds(FirstBlocks(s, k), K) = Cat(OfKinds(FirstBlocks(s, k - 1), K), One(s[k], K))
<1> DEFINE t == FirstBlocks(s, k - 1)
           b == s[k]
<1>1. FirstBlocks(s, k) = Cat(t, <<b>>) /\ t \in Seq(Block) /\ b \in Block /\ <<b>> \in Seq(Block)
  BY FirstBlocksStep
<1> HIDE DEF t, b
<1>2. OfKinds(Cat(t, <<b>>), K) = Cat(OfKinds(t, K), OfKinds(<<b>>, K))
  BY <1>1, OfKindsConcat
<1>3. OfKinds(<<b>>, K) = One(b, K)  BY <1>1, OfKindsOne
<1>4. OfKinds(FirstBlocks(s, k), K) = Cat(OfKinds(t, K), One(b, K))  BY <1>1, <1>2, <1>3
<1> QED  BY <1>4 DEF t, b

(* Induction over the blocks of a sequence.                                *)
LEMMA OfKindsTwice ==
  ASSUME NEW s \in Seq(Block), NEW K, NEW L, L \subseteq K
  PROVE  OfKinds(OfKinds(s, K), L) = OfKinds(s, L)
<1> DEFINE P(k) == OfKinds(OfKinds(FirstBlocks(s, k), K), L) = OfKinds(FirstBlocks(s, k), L)
           Bad == {k \in 0 .. Len(s) : ~ P(k)}
<1>1. P(0)  BY FirstBlocksEnds, OfKindsEmpty
<1>2. ASSUME NEW k \in 1 .. Len(s), P(k - 1)  PROVE  P(k)
  <2> DEFINE t == FirstBlocks(s, k - 1)
             b == s[k]
  <2>1. t \in Seq(Block) /\ b \in Block  BY FirstBlocksStep
  <2>2. /\ OfKinds(FirstBlocks(s, k), K) = Cat(OfKinds(t, K), One(b, K))
        /\ OfKinds(FirstBlocks(s, k), L) = Cat(OfKinds(t, L), One(b, L))
    BY OfKindsStep
  <2>3. OfKinds(OfKinds(t, K), L) = OfKinds(t, L)  BY <1>2
  <2> HIDE DEF t, b
  <2>4. OfKinds(t, K) \in Seq(Block) /\ One(b, K) \in Seq(Block)  BY <2>1, OfKindsType, OneType
  <2>5. OfKinds(One(b, K), L) = One(b, L)
    <3>1. CASE b.kind \in K
      <4>1. One(b, K) = <<b>>  BY <3>1 DEF One
      <4> QED  BY <4>1, <2>1, OfKindsOne
    <3>2. CASE b.kind \notin K
      <4>1. One(b, K) = <<>> /\ One(b, L) = <<>>  BY <3>2 DEF One
      <4> QED  BY <4>1, OfKindsEmpty
    <3> QED  BY <3>1, <3>2
  <2> QED  BY <2>2, <2>3, <2>4, <2>5, OfKindsConcat
<1> HIDE DEF P
<1>3. ASSUME Bad # {}  PROVE  FALSE
  <2>1. Bad \subseteq Nat  OBVIOUS
  <2>2. PICK k \in Bad : \A x \in Bad : k <= x
    <3> HIDE DEF Bad
    <3> QED  BY <1>3, <2>1, LeastOfNat
  <2>3. k # 0  BY <1>1, <2>2
  <2>4. k \in 1 .. Len(s) /\ k - 1 \in 0 .. Len(s) /\ k - 1 \notin Bad
    <3>1. k \in 1 .. Len(s)  BY <2>2, <2>3
    <3> HIDE DEF Bad
    <3> QED  BY <2>2, <3>1
  <2> QED  BY <1>2, <2>2, <2>4
<1>4. P(Len(s))  BY <1>3
<1> QED  BY <1>4, FirstBlocksEnds DEF P

LEMMA OfKindsShort ==
  ASSUME NEW s \in Seq(Block), NEW K
  PROVE  Len(OfKinds(s, K)) \in 0 .. Len(s)
<1> DEFINE P(k) == Len(OfKinds(FirstBlocks(s, k), K)) \in 0 .. k
           Bad == {k \in 0 .. Len(s) : ~ P(k)}
<1>1. P(0)  BY FirstBlocksEnds, OfKindsEmpty
<1>2. ASSUME NEW k \in 1 .. Len(s), P(k - 1)  PROVE  P(k)
  <2> DEFINE t == OfKinds(FirstBlocks(s, k - 1), K)
             u == One(s[k], K)
  <2>1. t \in Seq(Block) /\ u \in Seq(Block)  BY FirstBlocksStep, OfKindsType, OneType
  <2>2. OfKinds(FirstBlocks(s, k), K) = Cat(t, u)  BY OfKindsStep
  <2>3. Len(t) \in 0 .. k - 1 /\ Len(u) \in 0 .. 1  BY <1>2 DEF One
  <2>4. Len(Cat(t, u)) = Len(t) + Len(u)
    <3> HIDE DEF t, u
    <3> QED  BY <2>1, CatElements
  <2>5. Len(OfKinds(FirstBlocks(s, k), K)) = Len(t) + Len(u)  BY <2>2, <2>4
  <2> DEFINE x == Len(t)
             y == Len(u)
             z == Len(OfKinds(FirstBlocks(s, k), K))
  <2>6. x \in 0 .. k - 1 /\ y \in 0 .. 1 /\ z = x + y  BY <2>3, <2>5
  <2>7. z \in 0 .. k
    <3> HIDE DEF x, y, z
    <3> QED  BY <2>6
  <2> QED  BY <2>7
<1> HIDE DEF P
<1>3. ASSUME Bad # {}  PROVE  FALSE
  <2>1. Bad \subseteq Nat  OBVIOUS
  <2>2. PICK k \in Bad : \A x \in Bad : k <= x
    <3> HIDE DEF Bad
    <3> QED  BY <1>3, <2>1, LeastOfNat
  <2>3. k # 0  BY <1>1, <2>2
  <2>4. k \in 1 .. Len(s) /\ k - 1 \in 0 .. Len(s) /\ k - 1 \notin Bad
    <3>1. k \in 1 .. Len(s)  BY <2>2, <2>3
    <3> HIDE DEF Bad
    <3> QED  BY <2>2, <3>1
  <2> QED  BY <1>2, <2>2, <2>4
<1>4. P(Len(s))  BY <1>3
<1> QED  BY <1>4, FirstBlocksEnds DEF P

-----------------------------------------------------------------------------
(* The volumes one after the other.                                        *)

(* What the volumes hold together.                                         *)
LEMMA FlattenJoins ==
  ASSUME NEW v \in Seq(Seq(Block))
  PROVE  \E f : Joins(f, v, Len(v)) /\ FlattenSeq(v) = f[Len(v)]
<1> DEFINE m == Len(v)
<1>1. m \in Nat /\ v \in [1 .. m -> Seq(Block)]  OBVIOUS
<1>2. CASE m = 0
  <2>1. FlattenSeq(v) = v /\ v = <<>>  BY <1>2 DEF FlattenSeq
  <2>2. PICK f : Joins(f, v, m)  BY <1>1, Joined
  <2>3. f[m] = <<>>  BY <1>2, <2>2 DEF Joins
  <2> QED  BY <2>1, <2>2, <2>3
<1>3. CASE m # 0
  <2> DEFINE Value(f, i) == IF i = 1 THEN v[i] ELSE f[i - 1] \o v[i]
             D(f) == f = [i \in 1 .. m |-> Value(f, i)]
             c == CHOOSE f : D(f)
  <2>1. FlattenSeq(v) = c[m]  BY <1>3 DEF FlattenSeq
  <2>2. PICK g : Joins(g, v, m)  BY <1>1, Joined
  <2>3. /\ g[0] = <<>> /\ g \in [0 .. m -> Seq(Block)]
        /\ \A k \in 1 .. m : g[k] = Cat(g[k - 1], v[k])
    BY <2>2 DEF Joins, Cat
  <2> DEFINE h == [i \in 1 .. m |-> g[i]]
  <2>5. D(h)
    <3>1. ASSUME NEW i \in 1 .. m  PROVE  g[i] = Value(h, i)
      <4>1. CASE i = 1
        <5>1. v[i] \in Seq(Block) /\ g[i] = Cat(g[i - 1], v[i]) /\ g[i - 1] = <<>>
          BY <1>1, <2>3, <4>1
        <5>2. g[i] = v[i]  BY <5>1, CatEmpty
        <5> QED  BY <4>1, <5>2
      <4>2. CASE i # 1
        <5>1. g[i] = g[i - 1] \o v[i] /\ i - 1 \in 1 .. m  BY <1>1, <2>2, <4>2 DEF Joins
        <5>2. h[i - 1] = g[i - 1]  BY <5>1
        <5> HIDE DEF h
        <5> QED  BY <4>2, <5>1, <5>2
      <4> QED  BY <4>1, <4>2
    <3> HIDE DEF Value
    <3> QED  BY <3>1
  <2>6. D(c)
    <3> HIDE DEF D
    <3> QED  BY <2>5
  <2>7. /\ c = [i \in 1 .. m |-> c[i]]
        /\ \A i \in 1 .. m : c[i] = Value(c, i)
    <3> HIDE DEF c, Value
    <3> QED  BY <2>6
  <2> HIDE DEF c
  <2> DEFINE e == [k \in 0 .. m |-> IF k = 0 THEN <<>> ELSE c[k]]
             Sum(k) == IF k = 0 THEN <<>> ELSE e[k - 1] \o v[k]
  <2>8. Recursion(e, v, m)
    <3>2. ASSUME NEW k \in 0 .. m  PROVE  e[k] = Sum(k)
      <4>1. CASE k = 0  BY <4>1
      <4>2. CASE k = 1
        <5>1. 1 \in 1 .. m /\ v[1] \in Seq(Block) /\ 1 - 1 = 0  BY <1>1, <1>3
        <5>6. c[1] = Value(c, 1)  BY <2>7, <5>1
        <5>7. c[1] = v[1]  BY <5>6
        <5>8. e[0] = <<>> /\ e[1] = c[1]  BY <1>1, <5>1
        <5>2. e[0] = <<>> /\ e[1] = c[1] /\ c[1] = v[1]  BY <5>7, <5>8
        <5>3. Sum(1) = e[0] \o v[1]  BY <5>1
        <5>4. Cat(<<>>, v[1]) = v[1]  BY <5>1, CatEmpty
        <5>5. e[0] \o v[1] = v[1]  BY <5>2, <5>4 DEF Cat
        <5> HIDE DEF e, Sum
        <5> QED  BY <4>2, <5>2, <5>3, <5>5
      <4>3. CASE k > 1
        <5>1. k \in 1 .. m /\ k - 1 \in 0 .. m /\ k - 1 # 0 /\ k # 1 /\ k # 0
          BY <1>1, <4>3
        <5>2. e[k] = c[k] /\ e[k - 1] = c[k - 1]  BY <5>1
        <5>3. c[k] = Value(c, k)  BY <2>7, <5>1
        <5>4. c[k] = c[k - 1] \o v[k]  BY <5>1, <5>3
        <5>5. Sum(k) = e[k - 1] \o v[k]  BY <5>1
        <5> HIDE DEF e, Sum
        <5> QED  BY <5>1, <5>2, <5>4, <5>5
      <4>4. k = 0 \/ k = 1 \/ k > 1  BY <1>1
      <4> QED  BY <4>1, <4>2, <4>3, <4>4
    <3>3. e = [k \in 0 .. m |-> e[k]]  OBVIOUS
    <3>4. e = [k \in 0 .. m |-> Sum(k)]
      <4> HIDE DEF e, Sum
      <4> QED  BY <3>2, <3>3
    <3> HIDE DEF e
    <3> QED  BY <3>4 DEF Recursion
  <2>9. Joins(e, v, m)
    <3> HIDE DEF e
    <3> QED  BY <1>1, <2>8, RecursionJoins
  <2>10. e[m] = c[m]
    <3> HIDE DEF m
    <3> QED  BY <1>1, <1>3
  <2> HIDE DEF e
  <2> QED  BY <2>1, <2>9, <2>10
<1> QED  BY <1>2, <1>3

LEMMA FlattenType ==
  ASSUME NEW v \in Seq(Seq(Block))  PROVE  FlattenSeq(v) \in Seq(Block)
<1>1. PICK f : Joins(f, v, Len(v)) /\ FlattenSeq(v) = f[Len(v)]  BY FlattenJoins
<1>2. Len(v) \in 0 .. Len(v)  OBVIOUS
<1> QED  BY <1>1, <1>2 DEF Joins

Grown(v, w, s) == w = [v EXCEPT ![Len(v)] = @ \o s]

LEMMA FlattenGrows ==
  ASSUME NEW v \in Seq(Seq(Block)), v # <<>>, NEW s \in Seq(Block), NEW w, Grown(v, w, s)
  PROVE  /\ w \in Seq(Seq(Block)) /\ w # <<>> /\ Len(w) = Len(v)
         /\ FlattenSeq(w) = Cat(FlattenSeq(v), s)
<1> DEFINE m == Len(v)
           x == v[m]
           y == w[m]
<1>1. m \in Nat /\ m \in 1 .. m /\ m - 1 \in Nat /\ v \in [1 .. m -> Seq(Block)] /\ x \in Seq(Block)
  OBVIOUS
<1>2. y = Cat(x, s) /\ y \in Seq(Block)
  <2> DEFINE z == x \o s
  <2>3. w = [v EXCEPT ![m] = z]  BY DEF Grown
  <2>1. y = z
    <3> HIDE DEF z, m
    <3> QED  BY <1>1, <2>3
  <2>2. x \o s = Cat(x, s)  BY DEF Cat
  <2> HIDE DEF x, y
  <2> QED  BY <1>1, <2>1, <2>2, CatType
<1>4. w \in [1 .. m -> Seq(Block)] /\ \A k \in 1 .. m - 1 : w[k] = v[k]
  <2>4. PICK z : w = [v EXCEPT ![m] = z]  BY DEF Grown
  <2>1. ASSUME NEW k \in 1 .. m  PROVE  w[k] \in Seq(Block) /\ (k # m => w[k] = v[k])
    <3>1. k # m => w[k] = v[k] /\ v[k] \in Seq(Block)  BY <1>1, <2>4
    <3> QED  BY <1>2, <3>1
  <2>2. w = [k \in 1 .. m |-> w[k]]  BY <1>1, <2>4
  <2> QED  BY <1>1, <2>1, <2>2
<1>3. w \in Seq(Seq(Block)) /\ Len(w) = m /\ w # <<>>
  <2> HIDE DEF m
  <2> QED  BY <1>1, <1>4
<1>5. PICK f : Joins(f, v, m) /\ FlattenSeq(v) = f[m]  BY FlattenJoins
<1>6. PICK g : Joins(g, w, m) /\ FlattenSeq(w) = g[m]  BY <1>3, FlattenJoins
<1> DEFINE a == f[m - 1]
           b == g[m - 1]
<1>7. a \in Seq(Block) /\ f[m] = Cat(a, x) /\ g[m] = Cat(b, y)
  <2>1. m - 1 \in 0 .. m  BY <1>1
  <2> QED  BY <1>1, <1>5, <1>6, <2>1 DEF Joins, Cat
<1>8. a = b
  <2> DEFINE n == m - 1
  <2>1. n \in Nat /\ n <= m /\ \A k \in 1 .. n : v[k] = w[k]  BY <1>1, <1>4
  <2>2. f[n] = g[n]
    <3> HIDE DEF n, m
    <3>1. Alike(f, v, m, g, w, m, n)  BY <1>1, <1>5, <1>6, <2>1 DEF Alike
    <3> QED  BY <3>1, JoinsSame
  <2> QED  BY <2>2
<1> HIDE DEF a, b, x, y
<1>9. Cat(a, Cat(x, s)) = Cat(Cat(a, x), s)  BY <1>1, <1>7, CatAssociative
<1>10. FlattenSeq(w) = Cat(FlattenSeq(v), s)  BY <1>2, <1>5, <1>6, <1>7, <1>8, <1>9
<1> QED  BY <1>3, <1>10

LEMMA FlattenMounts ==
  ASSUME NEW v \in Seq(Seq(Block)), NEW w, w = Append(v, <<>>)
  PROVE  /\ w \in Seq(Seq(Block)) /\ w # <<>> /\ Len(w) = Len(v) + 1
         /\ FlattenSeq(w) = FlattenSeq(v)
<1> DEFINE m == Len(v)
           n == m + 1
<1>1. m \in Nat /\ n \in Nat /\ m <= m /\ m <= n /\ n \in 1 .. n /\ n - 1 = m  OBVIOUS
<1>2. w \in Seq(Seq(Block)) /\ Len(w) = n /\ w # <<>> /\ w[n] = <<>>
      /\ \A k \in 1 .. m : w[k] = v[k]
  <2>1. <<>> \in Seq(Block)  OBVIOUS
  <2> QED  BY <1>1, <2>1
<1>5. PICK f : Joins(f, v, m) /\ FlattenSeq(v) = f[m]  BY FlattenJoins
<1>6. PICK g : Joins(g, w, n) /\ FlattenSeq(w) = g[n]  BY <1>2, FlattenJoins
<1>7. g[m] \in Seq(Block) /\ g[n] = Cat(g[m], <<>>)
  <2>1. m \in 0 .. n  BY <1>1
  <2> HIDE DEF m, n
  <2> QED  BY <1>1, <1>2, <1>6, <2>1 DEF Joins, Cat
<1>8. f[m] = g[m]
  <2>1. \A k \in 1 .. m : v[k] = w[k]  BY <1>2
  <2> HIDE DEF n, m
  <2>2. Alike(f, v, m, g, w, n, m)  BY <1>1, <1>5, <1>6, <2>1 DEF Alike
  <2> QED  BY <2>2, JoinsSame
<1>9. FlattenSeq(w) = FlattenSeq(v)
  <2> HIDE DEF m, n
  <2> QED  BY <1>5, <1>6, <1>7, <1>8, CatEmpty
<1> QED  BY <1>2, <1>9

-----------------------------------------------------------------------------
(* Parts of a record, and blocks of NULs.                                  *)

LEMMA SameBlocks ==
  ASSUME NEW s \in Seq(Block), NEW t \in Seq(Block), Len(s) = Len(t),
         \A k \in 1 .. Len(s) : s[k] = t[k]
  PROVE  s = t
<1>1. s = [k \in 1 .. Len(s) |-> s[k]] /\ t = [k \in 1 .. Len(t) |-> t[k]]  OBVIOUS
<1> QED  BY <1>1

(* What is stored in the record, piece by piece.                           *)
LEMMA SliceType ==
  ASSUME NEW buf \in [Slots -> Block], NEW i \in Nat, NEW n \in Nat, i + n <= BF
  PROVE  /\ Slice(buf, i, n) \in Seq(Block) /\ Len(Slice(buf, i, n)) = n
         /\ \A k \in 1 .. n : Slice(buf, i, n)[k] = buf[i + k - 1]
<1>1. BF \in Nat /\ \A k \in 1 .. n : i + k - 1 \in Slots  BY WriterAssumption DEF Slots
<1>2. \A k \in 1 .. n : buf[i + k - 1] \in Block  BY <1>1
<1>3. Slice(buf, i, n) \in [1 .. n -> Block]  BY <1>2 DEF Slice
<1>4. \A k \in 1 .. n : Slice(buf, i, n)[k] = buf[i + k - 1]  BY DEF Slice
<1> QED  BY <1>3, <1>4

LEMMA SliceJoins ==
  ASSUME NEW buf \in [Slots -> Block], NEW i \in Nat, NEW n \in Nat, NEW m \in Nat,
         i + n + m <= BF
  PROVE  Slice(buf, i, n + m) = Cat(Slice(buf, i, n), Slice(buf, i + n, m))
<1> DEFINE s == Slice(buf, i, n)
           t == Slice(buf, i + n, m)
           u == Slice(buf, i, n + m)
           j == i + n
           l == n + m
<1>0. BF \in Nat /\ j \in Nat /\ l \in Nat /\ i + n <= BF /\ j + m <= BF /\ i + l <= BF
  BY WriterAssumption
<1>1. /\ s \in Seq(Block) /\ Len(s) = n
      /\ \A k \in 1 .. n : s[k] = buf[i + k - 1]
  BY <1>0, SliceType
<1>2. /\ t \in Seq(Block) /\ Len(t) = m
      /\ \A k \in 1 .. m : t[k] = buf[j + k - 1]
  <2> HIDE DEF j
  <2>1. /\ Slice(buf, j, m) \in Seq(Block) /\ Len(Slice(buf, j, m)) = m
        /\ \A k \in 1 .. m : Slice(buf, j, m)[k] = buf[j + k - 1]
    BY <1>0, SliceType
  <2> QED  BY <2>1 DEF j
<1>3. /\ u \in Seq(Block) /\ Len(u) = l
      /\ \A k \in 1 .. l : u[k] = buf[i + k - 1]
  <2> HIDE DEF l
  <2>1. /\ Slice(buf, i, l) \in Seq(Block) /\ Len(Slice(buf, i, l)) = l
        /\ \A k \in 1 .. l : Slice(buf, i, l)[k] = buf[i + k - 1]
    BY <1>0, SliceType
  <2> QED  BY <2>1 DEF l
<1> HIDE DEF s, t, u
<1> DEFINE c == Cat(s, t)
<1>4. /\ c \in Seq(Block) /\ Len(c) = l
      /\ (\A k \in 1 .. n : c[k] = s[k]) /\ (\A k \in 1 .. m : c[n + k] = t[k])
  BY <1>1, <1>2, CatType, CatElements
<1> HIDE DEF c
<1>5. ASSUME NEW k \in 1 .. l  PROVE  c[k] = u[k]
  <2>1. CASE k <= n
    <3>1. k \in 1 .. n  BY <2>1
    <3> QED  BY <3>1, <1>1, <1>3, <1>4
  <2>2. CASE k > n
    <3>1. PICK h \in 1 .. m : k = n + h
      <4>1. k - n \in 1 .. m /\ k = n + (k - n)  BY <2>2
      <4> QED  BY <4>1
    <3>2. j + h - 1 = i + k - 1  BY <3>1
    <3>3. c[k] = buf[j + h - 1] /\ u[k] = buf[i + k - 1]  BY <3>1, <1>2, <1>3, <1>4
    <3> QED  BY <3>2, <3>3
  <2> QED  BY <2>1, <2>2
<1>6. c = u
  <2> HIDE DEF l
  <2> QED  BY <1>3, <1>4, <1>5, SameBlocks
<1> QED  BY <1>6 DEF c, s, t, u

LEMMA SliceSame ==
  ASSUME NEW a, NEW b, NEW i \in Nat, NEW n \in Nat,
         \A k \in i .. i + n - 1 : a[k] = b[k]
  PROVE  Slice(a, i, n) = Slice(b, i, n)
<1>1. \A k \in 1 .. n : a[i + k - 1] = b[i + k - 1]  OBVIOUS
<1> QED  BY <1>1 DEF Slice

LEMMA SliceNone == \A buf, i : Slice(buf, i, 0) = <<>>
BY DEF Slice

LEMMA SliceOne ==
  ASSUME NEW buf \in [Slots -> Block], NEW i \in Slots
  PROVE  Slice(buf, i, 1) = <<buf[i]>>
<1>0. i \in Nat /\ i + 1 <= BF /\ i + 1 - 1 = i /\ buf[i] \in Block  BY WriterAssumption DEF Slots
<1> DEFINE s == Slice(buf, i, 1)
<1>1. s \in Seq(Block) /\ Len(s) = 1 /\ s[1] = buf[i]
  <2>1. s \in Seq(Block) /\ Len(s) = 1  BY <1>0, SliceType
  <2>2. 1 \in 1 .. 1 /\ \A k \in 1 .. 1 : s[k] = buf[i + k - 1]  BY DEF Slice
  <2>3. s[1] = buf[i + 1 - 1]  BY <2>2
  <2> QED  BY <1>0, <2>1, <2>3
<1> HIDE DEF s
<1>2. s = <<buf[i]>>  BY <1>0, <1>1
<1> QED  BY <1>2 DEF s

(* Blocks of NULs.                                                         *)
Zeros(n) == [k \in 1 .. n |-> Zero]

LEMMA ZeroIsBlock == Zero \in Block /\ Zero.kind = "zero"
BY DEF Block, Zero, Kinds

LEMMA ZerosType ==
  ASSUME NEW n \in Nat
  PROVE  /\ Zeros(n) \in Seq(Block) /\ Len(Zeros(n)) = n
         /\ \A k \in 1 .. n : Zeros(n)[k] = Zero
<1>1. Zeros(n) \in [1 .. n -> Block]  BY ZeroIsBlock DEF Zeros
<1>2. \A k \in 1 .. n : Zeros(n)[k] = Zero  BY DEF Zeros
<1> QED  BY <1>1, <1>2

LEMMA ZerosFew == Zeros(0) = <<>> /\ Zeros(1) = <<Zero>>
BY DEF Zeros

LEMMA AllZeros ==
  ASSUME NEW s \in Seq(Block), \A k \in 1 .. Len(s) : s[k] = Zero
  PROVE  s = Zeros(Len(s))
<1>1. Len(s) \in Nat  OBVIOUS
<1> QED  BY <1>1, ZerosType, SameBlocks

LEMMA ZerosJoin ==
  ASSUME NEW m \in Nat, NEW n \in Nat
  PROVE  Cat(Zeros(m), Zeros(n)) = Zeros(m + n)
<1> DEFINE s == Zeros(m)
           t == Zeros(n)
           c == Cat(s, t)
<1>1. s \in Seq(Block) /\ Len(s) = m /\ t \in Seq(Block) /\ Len(t) = n
      /\ (\A k \in 1 .. m : s[k] = Zero) /\ (\A k \in 1 .. n : t[k] = Zero)
  BY ZerosType
<1> HIDE DEF s, t
<1>2. /\ c \in Seq(Block) /\ Len(c) = m + n
      /\ (\A k \in 1 .. m : c[k] = s[k]) /\ (\A k \in 1 .. n : c[m + k] = t[k])
  BY <1>1, CatType, CatElements
<1> HIDE DEF c
<1>3. ASSUME NEW k \in 1 .. m + n  PROVE  c[k] = Zero
  <2>1. CASE k <= m
    <3>1. k \in 1 .. m  BY <2>1
    <3> QED  BY <3>1, <1>1, <1>2
  <2>2. CASE k > m
    <3>1. PICK h \in 1 .. n : k = m + h
      <4>1. k - m \in 1 .. n /\ k = m + (k - m)  BY <2>2
      <4> QED  BY <4>1
    <3> QED  BY <3>1, <1>1, <1>2
  <2> QED  BY <2>1, <2>2
<1>4. c = Zeros(m + n)
  <2> DEFINE l == m + n
  <2>1. Len(c) = l /\ \A k \in 1 .. l : c[k] = Zero  BY <1>2, <1>3
  <2> HIDE DEF l
  <2>2. c = Zeros(l)  BY <1>2, <2>1, AllZeros
  <2> QED  BY <2>2 DEF l
<1> QED  BY <1>4 DEF c, s, t

LEMMA SliceZeros ==
  ASSUME NEW buf \in [Slots -> Block], NEW i \in Nat, NEW n \in Nat, i + n <= BF,
         \A k \in i .. i + n - 1 : buf[k] = Zero
  PROVE  Slice(buf, i, n) = Zeros(n)
<1> DEFINE s == Slice(buf, i, n)
<1>1. s \in Seq(Block) /\ Len(s) = n /\ \A k \in 1 .. n : s[k] = buf[i + k - 1]  BY SliceType
<1>2. \A k \in 1 .. n : buf[i + k - 1] = Zero  OBVIOUS
<1> HIDE DEF s
<1>3. s = Zeros(n)  BY <1>1, <1>2, AllZeros
<1> QED  BY <1>3 DEF s

LEMMA PayloadZeros ==
  ASSUME NEW n \in Nat  PROVE  Payload(Zeros(n)) = Zeros(n)
<1>1. "zero" \in Kinds \ {"volhdr", "multivol"}  BY DEF Kinds
<1>2. \A k \in 1 .. Len(Zeros(n)) : Zeros(n)[k].kind \in Kinds \ {"volhdr", "multivol"}
  BY <1>1, ZerosType, ZeroIsBlock
<1> QED  BY <1>2, ZerosType, OfKindsAll DEF Payload

-----------------------------------------------------------------------------
(* The blocks of members.                                                  *)

LEMMA PayloadType == \A s \in Seq(Block) : Payload(s) \in Seq(Block)
BY OfKindsType DEF Payload

LEMMA PayloadCat ==
  \A s, t \in Seq(Block) : Payload(Cat(s, t)) = Cat(Payload(s), Payload(t))
BY OfKindsConcat DEF Payload

LEMMA PayloadEmpty == Payload(<<>>) = <<>>
BY OfKindsEmpty DEF Payload

LEMMA PayloadShort ==
  ASSUME NEW s \in Seq(Block)  PROVE  Len(Payload(s)) \in 0 .. Len(s)
BY OfKindsShort DEF Payload

(* Every block is payload but a label or the header of a continuation.     *)
LEMMA PayloadAll ==
  ASSUME NEW s \in Seq(Block), \A k \in 1 .. Len(s) : s[k].kind \notin {"volhdr", "multivol"}
  PROVE  Payload(s) = s
<1>1. ASSUME NEW k \in 1 .. Len(s)  PROVE  s[k].kind \in Kinds \ {"volhdr", "multivol"}
  <2>1. s[k] \in Block  OBVIOUS
  <2> QED  BY <2>1 DEF Block
<1> QED  BY <1>1, OfKindsAll DEF Payload

LEMMA PayloadNone ==
  ASSUME NEW b \in Block, b.kind \in {"volhdr", "multivol"}
  PROVE  Payload(<<b>>) = <<>>
BY OfKindsOne DEF Payload, One

(* The blocks of members.                                                  *)
OnlyMembers(s) == \A k \in 1 .. Len(s) : s[k].kind \in {"header", "data"}

LEMMA OnlyMembersCat ==
  ASSUME NEW s \in Seq(Block), NEW t \in Seq(Block), OnlyMembers(s), OnlyMembers(t)
  PROVE  OnlyMembers(Cat(s, t))
<1> DEFINE c == Cat(s, t)
<1>1. /\ Len(c) = Len(s) + Len(t)
      /\ \A i \in 1 .. Len(s) : c[i] = s[i]
      /\ \A i \in 1 .. Len(t) : c[Len(s) + i] = t[i]
  BY CatElements
<1>0. Len(s) \in Nat /\ Len(t) \in Nat  OBVIOUS
<1> HIDE DEF c
<1>2. ASSUME NEW k \in 1 .. Len(c)  PROVE  c[k].kind \in {"header", "data"}
  <2>1. CASE k <= Len(s)
    <3>1. k \in 1 .. Len(s)  BY <2>1
    <3>2. c[k] = s[k]  BY <1>1, <3>1
    <3> QED  BY <3>1, <3>2 DEF OnlyMembers
  <2>2. CASE k > Len(s)
    <3>1. PICK h \in 1 .. Len(t) : k = Len(s) + h
      <4>1. k - Len(s) \in 1 .. Len(t) /\ k = Len(s) + (k - Len(s))  BY <1>0, <1>1, <2>2
      <4> QED  BY <4>1
    <3>2. c[k] = t[h]  BY <1>1, <3>1
    <3> QED  BY <3>1, <3>2 DEF OnlyMembers
  <2> QED  BY <1>0, <2>1, <2>2
<1> QED  BY <1>2 DEF OnlyMembers, c

DataFrom(f, k, n) == [i \in 1 .. n |-> Data(f, k + i - 1)]
HeaderOf(f) == <<Header(f, size[f])>>

LEMMA BlockTypes ==
  ASSUME NEW f \in Names, size \in [Names -> Nat]
  PROVE  /\ Header(f, size[f]) \in Block /\ HeaderOf(f) \in Seq(Block)
         /\ Len(HeaderOf(f)) = 1 /\ HeaderOf(f)[1] = Header(f, size[f]) /\ OnlyMembers(HeaderOf(f))
         /\ \A k \in Nat : Data(f, k) \in Block
BY DEF Block, Header, Data, Kinds, HeaderOf, OnlyMembers

LEMMA DataType ==
  ASSUME NEW f \in Names, size \in [Names -> Nat], NEW k \in Nat, NEW n \in Nat
  PROVE  /\ DataFrom(f, k, n) \in Seq(Block) /\ Len(DataFrom(f, k, n)) = n
         /\ \A i \in 1 .. n : DataFrom(f, k, n)[i] = Data(f, k + i - 1)
         /\ OnlyMembers(DataFrom(f, k, n))
<1>1. \A i \in 1 .. n : k + i - 1 \in Nat /\ Data(f, k + i - 1) \in Block  BY BlockTypes
<1>2. DataFrom(f, k, n) \in [1 .. n -> Block]  BY <1>1 DEF DataFrom
<1>3. \A i \in 1 .. n : DataFrom(f, k, n)[i] = Data(f, k + i - 1)  BY DEF DataFrom
<1>4. DataFrom(f, k, n) \in Seq(Block) /\ Len(DataFrom(f, k, n)) = n
  <2> DEFINE s == DataFrom(f, k, n)
  <2>1. s \in [1 .. n -> Block]  BY <1>2
  <2> HIDE DEF s
  <2>2. s \in Seq(Block) /\ Len(s) = n  BY <2>1
  <2> QED  BY <2>2 DEF s
<1>5. \A i \in 1 .. n : DataFrom(f, k, n)[i].kind = "data"
  <2>1. \A x : Data(f, x).kind = "data"  BY DEF Data
  <2> QED  BY <1>3, <2>1
<1> QED  BY <1>3, <1>4, <1>5 DEF OnlyMembers

LEMMA DataJoin ==
  ASSUME NEW f \in Names, size \in [Names -> Nat], NEW k \in Nat, NEW m \in Nat, NEW n \in Nat
  PROVE  Cat(DataFrom(f, k, m), DataFrom(f, k + m, n)) = DataFrom(f, k, m + n)
<1> DEFINE s == DataFrom(f, k, m)
           j == k + m
           t == DataFrom(f, j, n)
           l == m + n
           u == DataFrom(f, k, l)
           c == Cat(s, t)
<1>0. j \in Nat /\ l \in Nat  OBVIOUS
<1>1. s \in Seq(Block) /\ Len(s) = m /\ \A i \in 1 .. m : s[i] = Data(f, k + i - 1)
  BY DataType
<1>2. t \in Seq(Block) /\ Len(t) = n /\ \A i \in 1 .. n : t[i] = Data(f, j + i - 1)
  <2> HIDE DEF j
  <2> QED  BY <1>0, DataType
<1>3. u \in Seq(Block) /\ Len(u) = l /\ \A i \in 1 .. l : u[i] = Data(f, k + i - 1)
  <2> HIDE DEF l
  <2> QED  BY <1>0, DataType
<1> HIDE DEF s, t, u
<1>4. /\ c \in Seq(Block) /\ Len(c) = l
      /\ (\A i \in 1 .. m : c[i] = s[i]) /\ (\A i \in 1 .. n : c[m + i] = t[i])
  BY <1>1, <1>2, CatType, CatElements
<1> HIDE DEF c
<1>5. ASSUME NEW i \in 1 .. l  PROVE  c[i] = u[i]
  <2>1. CASE i <= m
    <3>1. i \in 1 .. m  BY <2>1
    <3> QED  BY <3>1, <1>1, <1>3, <1>4
  <2>2. CASE i > m
    <3>1. PICK h \in 1 .. n : i = m + h
      <4>1. i - m \in 1 .. n /\ i = m + (i - m)  BY <2>2
      <4> QED  BY <4>1
    <3>2. j + h - 1 = k + i - 1  BY <3>1
    <3>3. c[i] = Data(f, j + h - 1) /\ u[i] = Data(f, k + i - 1)  BY <3>1, <1>2, <1>3, <1>4
    <3> QED  BY <3>2, <3>3
  <2> QED  BY <2>1, <2>2
<1>6. c = u
  <2> HIDE DEF l
  <2> QED  BY <1>3, <1>4, <1>5, SameBlocks
<1> QED  BY <1>6 DEF c, s, t, u

(* The members dumped whole, and one of them not yet.                      *)
LEMMA WholeIs ==
  ASSUME NEW f \in Names, size \in [Names -> Nat]
  PROVE  /\ Whole(f) = Cat(HeaderOf(f), DataFrom(f, 0, size[f]))
         /\ Whole(f) \in Seq(Block) /\ OnlyMembers(Whole(f))
<1>1. size[f] \in Nat /\ 0 \in Nat  OBVIOUS
<1>2. DataFrom(f, 0, size[f]) = [o \in 1 .. size[f] |-> Data(f, o - 1)]
  <2>1. \A o \in 1 .. size[f] : 0 + o - 1 = o - 1  OBVIOUS
  <2> QED  BY <2>1 DEF DataFrom
<1>3. Whole(f) = Cat(HeaderOf(f), DataFrom(f, 0, size[f]))
  <2> DEFINE d == [o \in 1 .. size[f] |-> Data(f, o - 1)]
  <2>1. Whole(f) = <<Header(f, size[f])>> \o d  BY DEF Whole
  <2>2. HeaderOf(f) = <<Header(f, size[f])>>  BY DEF HeaderOf
  <2> HIDE DEF d
  <2>3. Whole(f) = Cat(HeaderOf(f), d)  BY <2>1, <2>2 DEF Cat
  <2> QED  BY <2>3, <1>2 DEF d
<1> QED  BY <1>1, <1>3, BlockTypes, DataType, CatType, OnlyMembersCat

Pieces == [n \in 1 .. Len(Files) |-> Whole(Files[n])]

LEMMA DumpedJoins ==
  ASSUME size \in [Names -> Nat]
  PROVE  Joins(Dumped, Pieces, Len(Files)) /\ Pieces \in [1 .. Len(Files) -> Seq(Block)]
<1> DEFINE m == Len(Files)
           Value(f, n) == IF n = 0 THEN <<>> ELSE f[n - 1] \o Whole(Files[n])
           D(f) == f = [n \in 0 .. m |-> Value(f, n)]
<1>1. m \in Nat /\ \A n \in 1 .. m : Files[n] \in Names  BY WriterAssumption
<1>2. Pieces \in [1 .. m -> Seq(Block)]  BY <1>1, WholeIs DEF Pieces
<1>3. ASSUME NEW f  PROVE  D(f) <=> Recursion(f, Pieces, m)
  <2>1. ASSUME NEW n \in 0 .. m
        PROVE  Value(f, n) = IF n = 0 THEN <<>> ELSE f[n - 1] \o Pieces[n]
    <3>1. n # 0 => n \in 1 .. m /\ Pieces[n] = Whole(Files[n])  BY DEF Pieces
    <3> QED  BY <3>1
  <2> DEFINE Step(n) == IF n = 0 THEN <<>> ELSE f[n - 1] \o Pieces[n]
  <2>2. [n \in 0 .. m |-> Value(f, n)] = [n \in 0 .. m |-> Step(n)]
    <3>1. \A n \in 0 .. m : Value(f, n) = Step(n)  BY <2>1
    <3> HIDE DEF Value, Step
    <3> QED  BY <3>1
  <2> HIDE DEF Value
  <2> QED  BY <2>2 DEF Recursion
<1>4. Dumped = CHOOSE f : D(f)  BY DEF Dumped
<1>5. D(Dumped)
  <2>1. \E f : D(f)
    <3> HIDE DEF D
    <3> QED  BY <1>1, <1>2, <1>3, RecursionExists
  <2> HIDE DEF D
  <2> QED  BY <2>1, <1>4
<1>6. Recursion(Dumped, Pieces, m)
  <2> HIDE DEF D
  <2> QED  BY <1>3, <1>5
<1>7. Joins(Dumped, Pieces, m)  BY <1>1, <1>2, <1>6, RecursionJoins
<1> QED  BY <1>2, <1>7

-----------------------------------------------------------------------------
(* The members that are dumped.                                            *)

LEMMA DumpedSteps ==
  ASSUME size \in [Names -> Nat]
  PROVE  /\ Dumped[0] = <<>>
         /\ \A n \in 0 .. Len(Files) : Dumped[n] \in Seq(Block)
         /\ \A n \in 1 .. Len(Files) : Dumped[n] = Cat(Dumped[n - 1], Whole(Files[n]))
<1>1. Joins(Dumped, Pieces, Len(Files))  BY DumpedJoins
<1>2. \A n \in 1 .. Len(Files) : Pieces[n] = Whole(Files[n])  BY DEF Pieces
<1> QED  BY <1>1, <1>2 DEF Joins, Cat

LEMMA FilesAreNames ==
  /\ Len(Files) \in Nat
  /\ \A n \in 1 .. Len(Files) : Files[n] \in Names /\ n - 1 \in 0 .. Len(Files)
                                /\ n \in 0 .. Len(Files)
BY WriterAssumption

(* The first n - 1 members, the header of the next one and k of its blocks. *)
Begun(n, k) == Cat(Dumped[n - 1], Cat(HeaderOf(Files[n]), DataFrom(Files[n], 0, k)))

LEMMA BegunType ==
  ASSUME size \in [Names -> Nat], NEW n \in 1 .. Len(Files), NEW k \in Nat
  PROVE  Begun(n, k) \in Seq(Block)
<1>1. Dumped[n - 1] \in Seq(Block)  BY FilesAreNames, DumpedSteps
<1>2. 0 \in Nat /\ Files[n] \in Names  BY FilesAreNames
<1>3. HeaderOf(Files[n]) \in Seq(Block) /\ DataFrom(Files[n], 0, k) \in Seq(Block)
  BY <1>2, BlockTypes, DataType
<1> QED  BY <1>1, <1>3, CatType DEF Begun

LEMMA BegunStarts ==
  ASSUME size \in [Names -> Nat], NEW n \in 1 .. Len(Files)
  PROVE  Begun(n, 0) = Cat(Dumped[n - 1], HeaderOf(Files[n]))
<1>1. DataFrom(Files[n], 0, 0) = <<>>  BY DEF DataFrom
<1>2. HeaderOf(Files[n]) \in Seq(Block)  BY FilesAreNames, BlockTypes
<1> QED  BY <1>1, <1>2, CatEmpty DEF Begun

LEMMA BegunGrows ==
  ASSUME size \in [Names -> Nat], NEW n \in 1 .. Len(Files), NEW k \in Nat, NEW m \in Nat
  PROVE  Begun(n, k + m) = Cat(Begun(n, k), DataFrom(Files[n], k, m))
<1> DEFINE f == Files[n]
           a == Dumped[n - 1]
           h == HeaderOf(f)
           d == DataFrom(f, 0, k)
           e == DataFrom(f, k, m)
<1>1. f \in Names /\ a \in Seq(Block)  BY FilesAreNames, DumpedSteps
<1>2. h \in Seq(Block) /\ d \in Seq(Block) /\ e \in Seq(Block)
  <2>1. 0 \in Nat  OBVIOUS
  <2> HIDE DEF f
  <2> QED  BY <1>1, <2>1, BlockTypes, DataType
<1>3. DataFrom(f, 0, k + m) = Cat(d, e)
  <2>1. 0 \in Nat /\ 0 + k = k  OBVIOUS
  <2> HIDE DEF f
  <2>2. Cat(DataFrom(f, 0, k), DataFrom(f, 0 + k, m)) = DataFrom(f, 0, k + m)
    BY <1>1, <2>1, DataJoin
  <2> QED  BY <2>1, <2>2
<1>4. Begun(n, k) = Cat(a, Cat(h, d)) /\ Begun(n, k + m) = Cat(a, Cat(h, DataFrom(f, 0, k + m)))
  BY DEF Begun
<1> HIDE DEF f, a, h, d, e
<1>5. Cat(a, Cat(h, Cat(d, e))) = Cat(Cat(a, Cat(h, d)), e)
  <2>1. Cat(h, Cat(d, e)) = Cat(Cat(h, d), e)  BY <1>2, CatAssociative
  <2>2. Cat(h, d) \in Seq(Block)  BY <1>2, CatType
  <2> QED  BY <1>1, <1>2, <2>1, <2>2, CatAssociative
<1>6. Begun(n, k + m) = Cat(Begun(n, k), e)  BY <1>3, <1>4, <1>5
<1> QED  BY <1>6 DEF e, f

LEMMA BegunEnds ==
  ASSUME size \in [Names -> Nat], NEW n \in 1 .. Len(Files)
  PROVE  Begun(n, size[Files[n]]) = Dumped[n]
BY FilesAreNames, DumpedSteps, WholeIs DEF Begun

(* Induction over the members.                                             *)
LEMMA DumpedOnly ==
  ASSUME size \in [Names -> Nat]
  PROVE  \A n \in 0 .. Len(Files) : OnlyMembers(Dumped[n])
<1> DEFINE Bad == {n \in 0 .. Len(Files) : ~ OnlyMembers(Dumped[n])}
<1>1. ASSUME Bad # {}  PROVE  FALSE
  <2>1. Bad \subseteq Nat  OBVIOUS
  <2>2. PICK n \in Bad : \A x \in Bad : n <= x
    <3> HIDE DEF Bad
    <3> QED  BY <1>1, <2>1, LeastOfNat
  <2>3. n # 0
    <3>1. Dumped[0] = <<>>  BY DumpedSteps
    <3>2. OnlyMembers(<<>>)  BY DEF OnlyMembers
    <3> QED  BY <2>2, <3>1, <3>2
  <2>4. n \in 1 .. Len(Files) /\ n - 1 \in 0 .. Len(Files) /\ n - 1 \notin Bad
    <3>1. n \in 1 .. Len(Files)  BY <2>2, <2>3, FilesAreNames
    <3> HIDE DEF Bad
    <3> QED  BY <2>2, <3>1
  <2>5. OnlyMembers(Dumped[n - 1])  BY <2>4
  <2>6. /\ Dumped[n] = Cat(Dumped[n - 1], Whole(Files[n]))
        /\ Dumped[n - 1] \in Seq(Block)
        /\ Whole(Files[n]) \in Seq(Block) /\ OnlyMembers(Whole(Files[n]))
    BY <2>4, DumpedSteps, FilesAreNames, WholeIs
  <2>7. OnlyMembers(Dumped[n])  BY <2>5, <2>6, OnlyMembersCat
  <2> QED  BY <2>2, <2>7
<1> QED  BY <1>1

LEMMA BegunOnly ==
  ASSUME size \in [Names -> Nat], NEW n \in 1 .. Len(Files), NEW k \in Nat
  PROVE  OnlyMembers(Begun(n, k))
<1> DEFINE f == Files[n]
           a == Dumped[n - 1]
           h == HeaderOf(f)
           d == DataFrom(f, 0, k)
<1>1. f \in Names /\ a \in Seq(Block) /\ OnlyMembers(a)
  BY FilesAreNames, DumpedSteps, DumpedOnly
<1>2. h \in Seq(Block) /\ d \in Seq(Block) /\ OnlyMembers(h) /\ OnlyMembers(d)
  <2>1. 0 \in Nat  OBVIOUS
  <2> HIDE DEF f
  <2> QED  BY <1>1, <2>1, BlockTypes, DataType
<1>3. Begun(n, k) = Cat(a, Cat(h, d))  BY DEF Begun
<1> HIDE DEF a, h, d
<1> QED  BY <1>1, <1>2, <1>3, CatType, OnlyMembersCat

(* The headers among the blocks of s, and what the last one lacks.         *)
Heads(s) == {i \in 1 .. Len(s) : s[i].kind = "header"}
Counted(s, n) == IsFiniteSet(Heads(s)) /\ Cardinality(Heads(s)) = n

LEMMA HeadsSame ==
  ASSUME NEW s \in Seq(Block), NEW t \in Seq(Block),
         \A k \in 1 .. Len(t) : t[k].kind # "header"
  PROVE  Heads(Cat(s, t)) = Heads(s)
<1> DEFINE c == Cat(s, t)
           m == Len(s)
           n == Len(t)
<1>1. /\ m \in Nat /\ n \in Nat /\ Len(c) = m + n
      /\ \A i \in 1 .. m : c[i] = s[i]
      /\ \A i \in 1 .. n : c[m + i] = t[i]
  BY CatElements
<1>2. \A k \in 1 .. n : t[k].kind # "header"  OBVIOUS
<1> HIDE DEF c, m, n
<1>3. ASSUME NEW i \in 1 .. m + n, i > m  PROVE  c[i].kind # "header"
  <2>1. PICK h \in 1 .. n : i = m + h
    <3>1. i - m \in 1 .. n /\ i = m + (i - m)  BY <1>1, <1>3
    <3> QED  BY <3>1
  <2> QED  BY <1>1, <1>2, <2>1
<1>4. ASSUME NEW i  PROVE  i \in Heads(c) <=> i \in {j \in 1 .. m : s[j].kind = "header"}
  <2>1. i \in Heads(c) <=> i \in 1 .. m + n /\ c[i].kind = "header"  BY <1>1 DEF Heads
  <2>2. i \in 1 .. m + n <=> i \in 1 .. m \/ (i \in 1 .. m + n /\ i > m)  BY <1>1
  <2> QED  BY <1>1, <1>3, <2>1, <2>2
<1> QED  BY <1>4 DEF Heads, c, m

LEMMA HeadsMore ==
  ASSUME NEW s \in Seq(Block), NEW b \in Block, b.kind = "header"
  PROVE  Heads(Cat(s, <<b>>)) = Heads(s) \cup {Len(s) + 1}
<1> DEFINE t == <<b>>
           c == Cat(s, t)
           m == Len(s)
<1>0. t \in Seq(Block) /\ Len(t) = 1 /\ t[1] = b /\ 1 \in 1 .. 1  OBVIOUS
<1> HIDE DEF t
<1>1. /\ m \in Nat /\ Len(c) = m + 1 /\ c[m + 1] = b
      /\ \A i \in 1 .. m : c[i] = s[i]
  <2>1. m \in Nat  OBVIOUS
  <2>2. /\ Len(c) = m + Len(t) /\ \A i \in 1 .. m : c[i] = s[i]
        /\ \A i \in 1 .. Len(t) : c[m + i] = t[i]
    BY <1>0, CatElements
  <2> HIDE DEF c, m
  <2> QED  BY <1>0, <2>1, <2>2
<1> HIDE DEF c, m
<1>4. ASSUME NEW i
      PROVE  i \in Heads(c) <=> i \in {j \in 1 .. m : s[j].kind = "header"} \cup {m + 1}
  <2>1. i \in Heads(c) <=> i \in 1 .. m + 1 /\ c[i].kind = "header"  BY <1>1 DEF Heads
  <2>2. i \in 1 .. m + 1 <=> i \in 1 .. m \/ i = m + 1  BY <1>1
  <2> QED  BY <1>1, <2>1, <2>2
<1> QED  BY <1>4 DEF Heads, c, m, t

-----------------------------------------------------------------------------
(* What TarArchive says of them.                                           *)

LastHead(s) == CHOOSE x \in Heads(s) : \A y \in Heads(s) : x >= y
Lacking(s) == IF Heads(s) = {} THEN 0 ELSE s[LastHead(s)].size - (Len(s) - LastHead(s))

LEMMA BegunIs ==
  ASSUME size \in [Names -> Nat], NEW n \in 1 .. Len(Files), NEW k \in Nat
  PROVE  LET a == Dumped[n - 1]
             b == Begun(n, k)
         IN /\ Heads(b) = Heads(a) \cup {Len(a) + 1}
            /\ Len(b) = Len(a) + 1 + k
            /\ b[Len(a) + 1] = Header(Files[n], size[Files[n]])
<1> DEFINE a == Dumped[n - 1]
           b == Begun(n, k)
           f == Files[n]
           h == HeaderOf(f)
           d == DataFrom(f, 0, k)
           c == Cat(a, h)
<1>1. f \in Names /\ a \in Seq(Block)  BY FilesAreNames, DumpedSteps
<1>2. h \in Seq(Block) /\ Len(h) = 1 /\ h[1] = Header(f, size[f])  BY <1>1, BlockTypes DEF HeaderOf
<1>3. d \in Seq(Block) /\ Len(d) = k /\ \A i \in 1 .. k : d[i].kind # "header"
  <2>1. 0 \in Nat  OBVIOUS
  <2>2. d \in Seq(Block) /\ Len(d) = k /\ \A i \in 1 .. k : d[i] = Data(f, 0 + i - 1)
    BY <1>1, <2>1, DataType
  <2>3. \A x : Data(f, x).kind # "header"  BY DEF Data
  <2> HIDE DEF d
  <2> QED  BY <2>2, <2>3
<1>4. b = Cat(c, d)
  <2>1. b = Cat(a, Cat(h, d))  BY DEF Begun
  <2> HIDE DEF a, b, h, d
  <2> QED  BY <1>1, <1>2, <1>3, <2>1, CatAssociative
<1>5. Heads(c) = Heads(a) \cup {Len(a) + 1}
  <2>1. Header(f, size[f]) \in Block /\ Header(f, size[f]).kind = "header"
    BY <1>1, BlockTypes DEF Header
  <2>2. h = <<Header(f, size[f])>>  BY DEF HeaderOf
  <2> HIDE DEF a, f, h
  <2> QED  BY <1>1, <2>1, <2>2, HeadsMore
<1> HIDE DEF a, b, f, h, d
<1>6. c \in Seq(Block) /\ Len(c) = Len(a) + 1 /\ c[Len(a) + 1] = Header(f, size[f])
  <2>1. c \in Seq(Block)  BY <1>1, <1>2, CatType
  <2>2. /\ Len(c) = Len(a) + Len(h)
        /\ \A i \in 1 .. Len(h) : c[Len(a) + i] = h[i]
    BY <1>1, <1>2, CatElements
  <2> HIDE DEF c
  <2> QED  BY <1>2, <2>1, <2>2
<1> HIDE DEF c
<1>7. Heads(b) = Heads(c)  BY <1>3, <1>4, <1>6, HeadsSame
<1>8. Len(b) = Len(c) + k /\ \A i \in 1 .. Len(c) : b[i] = c[i]
  BY <1>3, <1>4, <1>6, CatElements
<1>9. Len(a) \in Nat  BY <1>1
<1>10. Len(a) + 1 \in 1 .. Len(c)  BY <1>6, <1>9
<1>11. b[Len(a) + 1] = Header(f, size[f])  BY <1>6, <1>8, <1>10
<1>12. Len(b) = Len(a) + 1 + k  BY <1>6, <1>8
<1> QED  BY <1>5, <1>7, <1>11, <1>12 DEF a, b, f

(* The header of the member begun is the last one.                         *)
LEMMA BegunLacks ==
  ASSUME size \in [Names -> Nat], NEW n \in 1 .. Len(Files), NEW k \in Nat,
         NEW b, b = Begun(n, k)
  PROVE  /\ b[LastHead(b)] = Header(Files[n], size[Files[n]])
         /\ Lacking(b) = size[Files[n]] - k
         /\ Counted(Dumped[n - 1], n - 1) => Counted(b, n)
<1> DEFINE a == Dumped[n - 1]
           f == Files[n]
           h == Len(a) + 1
<1>1. /\ Heads(b) = Heads(a) \cup {h} /\ Len(b) = h + k
      /\ b[h] = Header(f, size[f])
  <2>1. /\ Heads(b) = Heads(a) \cup {Len(a) + 1} /\ Len(b) = Len(a) + 1 + k
        /\ b[Len(a) + 1] = Header(f, size[f])
    BY BegunIs
  <2> HIDE DEF a, f
  <2> QED  BY <2>1
<1>2. f \in Names /\ a \in Seq(Block) /\ size[f] \in Nat  BY FilesAreNames, DumpedSteps
<1>3. Len(a) \in Nat /\ h \in Nat /\ h \notin Heads(a) /\ \A y \in Heads(a) : h >= y /\ h # y
                     /\ y \in Nat
  BY <1>2 DEF Heads
<1> HIDE DEF a, f
<1>4. LastHead(b) = h
  <2>1. h \in Heads(b) /\ \A y \in Heads(b) : h >= y /\ y \in Nat  BY <1>1, <1>3
  <2>2. ASSUME NEW x \in Heads(b), \A y \in Heads(b) : x >= y  PROVE  x = h
    <3>1. x >= h /\ h >= x /\ x \in Nat  BY <2>1, <2>2
    <3> QED  BY <1>3, <3>1
  <2> HIDE DEF h
  <2> QED  BY <2>1, <2>2 DEF LastHead
<1>5. b[LastHead(b)] = Header(f, size[f])  BY <1>1, <1>4
<1>6. Lacking(b) = size[f] - k
  <2>1. Heads(b) # {}  BY <1>1
  <2>2. b[h].size = size[f]  BY <1>1 DEF Header
  <2> HIDE DEF h
  <2>3. Lacking(b) = size[f] - (Len(b) - h)  BY <1>4, <2>1, <2>2 DEF Lacking
  <2> QED  BY <1>1, <1>2, <1>3, <2>3
<1>7. ASSUME Counted(a, n - 1)  PROVE  Counted(b, n)
  <2>1. IsFiniteSet(Heads(a)) /\ Cardinality(Heads(a)) = n - 1  BY <1>7 DEF Counted
  <2> HIDE DEF h
  <2>2. /\ IsFiniteSet(Heads(a) \cup {h})
        /\ Cardinality(Heads(a) \cup {h}) = Cardinality(Heads(a)) + 1
    BY <1>3, <2>1, FS_AddElement
  <2>3. (n - 1) + 1 = n  OBVIOUS
  <2> QED  BY <1>1, <2>1, <2>2, <2>3 DEF Counted
<1> QED  BY <1>5, <1>6, <1>7 DEF a, f

LEMMA DumpedCounted ==
  ASSUME size \in [Names -> Nat]
  PROVE  \A n \in 0 .. Len(Files) : Counted(Dumped[n], n) /\ Lacking(Dumped[n]) = 0
<1> DEFINE Bad == {n \in 0 .. Len(Files) : ~ Counted(Dumped[n], n)}
<1>0. ASSUME NEW n \in 1 .. Len(Files)
      PROVE  /\ Counted(Dumped[n - 1], n - 1) => Counted(Dumped[n], n)
             /\ Lacking(Dumped[n]) = 0
  <2>1. size[Files[n]] \in Nat /\ Begun(n, size[Files[n]]) = Dumped[n]
    BY FilesAreNames, BegunEnds
  <2>2. /\ Lacking(Dumped[n]) = size[Files[n]] - size[Files[n]]
        /\ Counted(Dumped[n - 1], n - 1) => Counted(Dumped[n], n)
    BY <2>1, BegunLacks
  <2> QED  BY <2>1, <2>2
<1>2. Counted(Dumped[0], 0) /\ Lacking(Dumped[0]) = 0
  <2>1. Dumped[0] = <<>> /\ Heads(<<>>) = {}  BY DumpedSteps DEF Heads
  <2> QED  BY <2>1, FS_EmptySet DEF Counted, Lacking
<1>1. ASSUME Bad # {}  PROVE  FALSE
  <2>1. Bad \subseteq Nat  OBVIOUS
  <2>2. PICK n \in Bad : \A x \in Bad : n <= x
    <3> HIDE DEF Bad
    <3> QED  BY <1>1, <2>1, LeastOfNat
  <2>3. n # 0  BY <1>2, <2>2
  <2>4. n \in 1 .. Len(Files) /\ n - 1 \in 0 .. Len(Files) /\ n - 1 \notin Bad
    <3>1. n \in 1 .. Len(Files)  BY <2>2, <2>3, FilesAreNames
    <3> HIDE DEF Bad
    <3> QED  BY <2>2, <3>1
  <2>5. Counted(Dumped[n - 1], n - 1)  BY <2>4
  <2>6. Counted(Dumped[n], n)  BY <1>0, <2>4, <2>5
  <2> QED  BY <2>2, <2>6
<1>3. ASSUME NEW n \in 0 .. Len(Files)  PROVE  Lacking(Dumped[n]) = 0
  <2>1. n = 0 \/ n \in 1 .. Len(Files)  BY FilesAreNames
  <2> QED  BY <1>0, <1>2, <2>1
<1> QED  BY <1>1, <1>3

LEMMA BegunCounted ==
  ASSUME size \in [Names -> Nat], NEW n \in 1 .. Len(Files), NEW k \in Nat
  PROVE  Counted(Begun(n, k), n)
<1>1. n - 1 \in 0 .. Len(Files)  BY FilesAreNames
<1> QED  BY <1>1, BegunLacks, DumpedCounted

(* The terms of TarArchive.                                                *)
LEMMA ArchiveTerms ==
  ASSUME NEW a \in Seq(Block)
  PROVE  /\ Archive!Headers(a) = Heads(a)
         /\ Archive!Missing(a) = Lacking(a)
         /\ Archive!Ended(a) <=> a # <<>> /\ a[Len(a)] = Zero
         /\ Archive!Max(Archive!Headers(a)) = LastHead(a)
<1>1. Archive!Headers(a) = Heads(a)
  <2>1. DOMAIN a = 1 .. Len(a)  OBVIOUS
  <2> QED  BY <2>1 DEF Archive!Headers, Heads
<1>2. Archive!Max(Heads(a)) = LastHead(a)  BY DEF Archive!Max, LastHead
<1>3. Archive!Missing(a) = Lacking(a)  BY <1>1, <1>2 DEF Archive!Missing, Lacking
<1>4. Archive!Zero = Zero  BY DEF Archive!Zero, Zero
<1> QED  BY <1>1, <1>2, <1>3, <1>4 DEF Archive!Ended

LEMMA ArchiveCounts == \A S : Archive!Cardinality(S) = Cardinality(S)
BY DEF Archive!Cardinality, Cardinality

(* Zeros after the members.                                                *)
LEMMA EndedByZeros ==
  ASSUME NEW a \in Seq(Block), OnlyMembers(a), NEW z \in Nat, NEW b, b = Cat(a, Zeros(z))
  PROVE  /\ b \in Seq(Block) /\ Heads(b) = Heads(a)
         /\ z > 0 => b # <<>> /\ b[Len(b)] = Zero
         /\ z > 1 => Len(b) > 1 /\ b[Len(b) - 1] = Zero
         /\ z = 0 => b = a /\ ~ (b # <<>> /\ b[Len(b)] = Zero)
<1> DEFINE t == Zeros(z)
           m == Len(a)
<1>1. t \in Seq(Block) /\ Len(t) = z /\ \A k \in 1 .. z : t[k] = Zero  BY ZerosType
<1>2. \A k \in 1 .. Len(t) : t[k].kind # "header"  BY <1>1, ZeroIsBlock
<1>0. b = Cat(a, t)  OBVIOUS
<1>6. z = 0 => t = <<>>  BY ZerosFew
<1> HIDE DEF t
<1>3. b \in Seq(Block) /\ Heads(b) = Heads(a)  BY <1>0, <1>1, <1>2, CatType, HeadsSame
<1>4. m \in Nat /\ Len(b) = m + z /\ \A k \in 1 .. z : b[m + k] = Zero
  <2>1. Len(b) = m + Len(t) /\ \A k \in 1 .. Len(t) : b[m + k] = t[k]
    BY <1>0, <1>1, CatElements
  <2>2. m \in Nat  OBVIOUS
  <2> HIDE DEF m
  <2> QED  BY <1>1, <2>1, <2>2
<1>5. ASSUME z > 0  PROVE  b # <<>> /\ b[Len(b)] = Zero
  <2>1. z \in 1 .. z  BY <1>5
  <2> HIDE DEF m
  <2>2. b[m + z] = Zero /\ m + z # 0  BY <1>4, <2>1, <1>5
  <2> QED  BY <1>3, <1>4, <2>2
<1>7. ASSUME z > 1  PROVE  Len(b) > 1 /\ b[Len(b) - 1] = Zero
  <2>1. z - 1 \in 1 .. z /\ m + (z - 1) = (m + z) - 1  BY <1>4, <1>7
  <2> HIDE DEF m
  <2>2. b[m + (z - 1)] = Zero  BY <1>4, <2>1
  <2> QED  BY <1>4, <1>7, <2>1, <2>2
<1>8. ASSUME z = 0  PROVE  b = a /\ ~ (b # <<>> /\ b[Len(b)] = Zero)
  <2>1. b = a  BY <1>0, <1>6, <1>8, CatEmpty
  <2>2. ASSUME a # <<>>  PROVE  a[Len(a)] # Zero
    <3>1. Len(a) \in 1 .. Len(a)  BY <2>2
    <3>2. a[Len(a)].kind \in {"header", "data"}  BY <3>1 DEF OnlyMembers
    <3> QED  BY <3>2, ZeroIsBlock
  <2> QED  BY <2>1, <2>2
<1> QED  BY <1>3, <1>5, <1>7, <1>8

-----------------------------------------------------------------------------
(* What is carried: on the volumes, in the record, still to be copied.     *)

(* The payload that is on the volumes, in the record, and still to be      *)
(* copied to it.                                                           *)
OnVolumes == Payload(FlattenSeq(volumes))
InRecord == Payload(Slice(record, 0, cur))
Uncopied == Payload(ToCopy)
Behind == Cat(InRecord, Uncopied)
Carried == Cat(OnVolumes, Behind)

LEMMA ToCopyIs ==
  ASSUME Typed
  PROVE  /\ ToCopy \in Seq(Block)
         /\ from = to => ToCopy = <<>>
         /\ from <= to => ToCopy = Slice(other, from, to - from)
<1>1. from \in Nat /\ to \in Nat /\ to <= BF /\ other \in [Slots -> Block] /\ BF \in Nat
  BY GivenTypes DEF Typed
<1>2. CASE from <= to
  <2> DEFINE n == to - from
  <2>1. n \in Nat /\ from + n <= BF /\ (from = to => n = 0)  BY <1>1, <1>2
  <2>2. ToCopy = Slice(other, from, n)  BY <1>2 DEF ToCopy
  <2> HIDE DEF n
  <2>3. ToCopy \in Seq(Block)  BY <1>1, <2>1, <2>2, SliceType
  <2>4. from = to => ToCopy = <<>>  BY <2>1, <2>2, SliceNone
  <2> QED  BY <2>2, <2>3, <2>4 DEF n
<1>3. CASE ~ from <= to
  <2>1. ToCopy = <<>> /\ from # to  BY <1>1, <1>3 DEF ToCopy
  <2> QED  BY <1>3, <2>1
<1> QED  BY <1>2, <1>3

LEMMA CarriedTypes ==
  ASSUME Typed
  PROVE  /\ FlattenSeq(volumes) \in Seq(Block) /\ OnVolumes \in Seq(Block)
         /\ InRecord \in Seq(Block) /\ Uncopied \in Seq(Block)
         /\ Behind \in Seq(Block) /\ Carried \in Seq(Block)
         /\ from = to => Uncopied = <<>> /\ Behind = InRecord
<1>1. FlattenSeq(volumes) \in Seq(Block)  BY FlattenType DEF Typed
<1>2. Slice(record, 0, cur) \in Seq(Block)  BY GivenTypes, SliceOf DEF Typed
<1>3. ToCopy \in Seq(Block) /\ (from = to => ToCopy = <<>>)  BY ToCopyIs
<1>4. OnVolumes \in Seq(Block) /\ InRecord \in Seq(Block) /\ Uncopied \in Seq(Block)
  BY <1>1, <1>2, <1>3, PayloadType DEF OnVolumes, InRecord, Uncopied
<1>5. from = to => Uncopied = <<>>  BY <1>3, PayloadEmpty DEF Uncopied
<1>6. Behind \in Seq(Block) /\ Carried \in Seq(Block)  BY <1>4, CatType DEF Behind, Carried
<1>7. from = to => Behind = InRecord  BY <1>4, <1>5, CatEmpty DEF Behind
<1> QED  BY <1>1, <1>4, <1>5, <1>6, <1>7

(* n blocks are stored in the record.                                      *)
Stored(n) == Payload(Slice(record', cur, n))

LEMMA RecordGrows ==
  ASSUME Typed, Typed', NEW n \in Nat, cur' = cur + n,
         \A k \in 0 .. cur - 1 : record'[k] = record[k]
  PROVE  InRecord' = Cat(InRecord, Stored(n)) /\ Stored(n) \in Seq(Block)
<1>1. /\ cur \in Nat /\ cur + n <= BF /\ record \in [Slots -> Block] /\ BF \in Nat
      /\ record' \in [Slots -> Block] /\ cur <= BF /\ 0 + cur = cur /\ 0 + cur + n <= BF
  <2>1. cur \in 0 .. BF /\ record \in [Slots -> Block] /\ BF \in Nat  BY GivenTypes DEF Typed
  <2>2. cur' \in 0 .. BF /\ record' \in [Slots -> Block]  BY DEF Typed
  <2> QED  BY <2>1, <2>2
<1> DEFINE s == Slice(record', 0, cur)
           t == Slice(record', cur, n)
<1>2. Slice(record', 0, cur + n) = Cat(s, t)
  <2>1. Slice(record', 0, cur + n) = Cat(Slice(record', 0, cur), Slice(record', 0 + cur, n))
    BY <1>1, SliceJoins
  <2> QED  BY <1>1, <2>1
<1>3. s = Slice(record, 0, cur)
  <2>1. \A k \in 0 .. 0 + cur - 1 : record'[k] = record[k]  BY <1>1
  <2> QED  BY <1>1, <2>1, SliceSame
<1>4. s \in Seq(Block) /\ t \in Seq(Block)
  BY <1>1, SliceType
<1>5. InRecord' = Payload(Slice(record', 0, cur + n))  BY DEF InRecord
<1>6. InRecord = Payload(s)  BY <1>3 DEF InRecord
<1>7. Stored(n) = Payload(t)  BY DEF Stored
<1> HIDE DEF s, t
<1> QED  BY <1>2, <1>4, <1>5, <1>6, <1>7, PayloadCat, PayloadType

LEMMA CarriedGrows ==
  ASSUME Typed, from = to, UNCHANGED <<volumes, other, from, to>>,
         NEW s \in Seq(Block), InRecord' = Cat(InRecord, s)
  PROVE  Carried' = Cat(Carried, s)
<1>1. OnVolumes' = OnVolumes  BY DEF OnVolumes
<1>3. OnVolumes \in Seq(Block) /\ InRecord \in Seq(Block)  BY CarriedTypes
<1>2. Behind = InRecord /\ Behind' = InRecord'
  <2>1. Uncopied' = Uncopied /\ Uncopied = <<>> /\ Behind = InRecord
    BY CarriedTypes DEF Uncopied, ToCopy
  <2>2. InRecord' \in Seq(Block)  BY <1>3, CatType
  <2> QED  BY <2>1, <2>2, CatEmpty DEF Behind
<1>4. Carried' = Cat(OnVolumes, Cat(InRecord, s))  BY <1>1, <1>2 DEF Carried
<1>5. Carried = Cat(OnVolumes, InRecord)  BY <1>2 DEF Carried
<1> QED  BY <1>3, <1>4, <1>5, CatAssociative

(* The record, or a part of it, is written to the mounted volume.          *)
LEMMA VolumesGrow ==
  ASSUME Typed, NEW n \in 0 .. BF, NEW w, Grown(volumes, w, Slice(record, 0, n))
  PROVE  /\ w \in Seq(Seq(Block)) /\ w # <<>> /\ Len(w) = Len(volumes)
         /\ Payload(FlattenSeq(w)) = Cat(OnVolumes, Payload(Slice(record, 0, n)))
<1> DEFINE s == Slice(record, 0, n)
<1>1. s \in Seq(Block)  BY SliceOf DEF Typed
<1>2. volumes \in Seq(Seq(Block)) /\ volumes # <<>> /\ FlattenSeq(volumes) \in Seq(Block)
  BY CarriedTypes DEF Typed
<1>3. Grown(volumes, w, s)  OBVIOUS
<1> HIDE DEF s
<1>4. /\ w \in Seq(Seq(Block)) /\ w # <<>> /\ Len(w) = Len(volumes)
      /\ FlattenSeq(w) = Cat(FlattenSeq(volumes), s)
  BY <1>1, <1>2, <1>3, FlattenGrows
<1>5. Payload(FlattenSeq(w)) = Cat(OnVolumes, Payload(s))
  BY <1>1, <1>2, <1>4, PayloadCat DEF OnVolumes
<1> QED  BY <1>4, <1>5 DEF s

LEMMA RecordOnVolumes ==
  ASSUME Typed, WriteRecord
  PROVE  OnVolumes' = Cat(OnVolumes, Payload(Slice(record, 0, BF)))
<1>1. BF \in 0 .. BF  BY GivenTypes
<1>2. Grown(volumes, volumes', Slice(record, 0, BF))  BY DEF WriteRecord, Grown
<1> QED  BY <1>1, <1>2, VolumesGrow DEF OnVolumes

(* What is in the record and the blocks of NULs behind it.                 *)
LEMMA PartOfRecord ==
  ASSUME Typed, ZerosFollow, cur > 0, NEW n \in cur .. BF
  PROVE  Payload(Slice(record, 0, n)) = Cat(InRecord, Zeros(n - cur))
<1> DEFINE m == n - cur
           s == Slice(record, 0, cur)
           t == Slice(record, cur, m)
<1>1. /\ cur \in Nat /\ m \in Nat /\ cur + m <= BF /\ record \in [Slots -> Block] /\ BF \in Nat
      /\ cur <= BF /\ 0 + cur = cur /\ 0 + cur + m <= BF /\ cur + m = n
  BY GivenTypes DEF Typed
<1>0. \A k \in cur .. cur + m - 1 : record[k] = Zero
  BY <1>1 DEF ZerosFollow
<1> HIDE DEF m
<1>2. Slice(record, 0, cur + m) = Cat(s, t)
  <2>1. Slice(record, 0, cur + m) = Cat(Slice(record, 0, cur), Slice(record, 0 + cur, m))
    BY <1>1, SliceJoins
  <2> QED  BY <1>1, <2>1
<1>3. t = Zeros(m)  BY <1>0, <1>1, SliceZeros
<1>4. s \in Seq(Block)  BY <1>1, SliceType
<1>5. InRecord = Payload(s)  BY DEF InRecord
<1>6. Zeros(m) \in Seq(Block) /\ Payload(Zeros(m)) = Zeros(m)  BY <1>1, ZerosType, PayloadZeros
<1> HIDE DEF s, t
<1>7. Payload(Slice(record, 0, n)) = Cat(InRecord, Zeros(m))
  BY <1>1, <1>2, <1>3, <1>4, <1>5, <1>6, PayloadCat
<1> QED  BY <1>7 DEF m

(* What each step does to what is carried.                                 *)
LEMMA BlockCarried ==
  ASSUME Typed, Typed', from = to, UNCHANGED <<volumes, other, from, to>>,
         NEW b \in Block, cur < BF, Store(b)
  PROVE  Carried' = Cat(Carried, Payload(<<b>>)) /\ InRecord' = Cat(InRecord, Payload(<<b>>))
<1>1. /\ cur' = cur + 1 /\ record' = [record EXCEPT ![cur] = b] /\ cur \in Slots /\ cur \in Nat
      /\ record \in [Slots -> Block] /\ record' \in [Slots -> Block] /\ 1 \in Nat
  <2>1. cur \in 0 .. BF /\ BF \in Nat  BY GivenTypes DEF Typed
  <2> QED  BY <2>1 DEF Store, Slots, Typed
<1>2. \A k \in 0 .. cur - 1 : record'[k] = record[k]
  <2>1. \A k \in 0 .. cur - 1 : k # cur /\ k \in Slots
    <3>1. BF \in Nat /\ cur \in 0 .. BF - 1  BY <1>1, GivenTypes DEF Slots
    <3> QED  BY <3>1 DEF Slots
  <2> QED  BY <1>1, <2>1
<1>3. record'[cur] = b  BY <1>1
<1>4. Slice(record', cur, 1) = <<b>>  BY <1>1, <1>3, SliceOne
<1>5. InRecord' = Cat(InRecord, Stored(1)) /\ Stored(1) \in Seq(Block)
  BY <1>1, <1>2, RecordGrows
<1>6. Stored(1) = Payload(<<b>>)  BY <1>4 DEF Stored
<1>7. Carried' = Cat(Carried, Stored(1))  BY <1>5, CarriedGrows
<1> QED  BY <1>5, <1>6, <1>7

LEMMA LabelCarried ==
  ASSUME Typed, Typed', from = to, WriteLabel
  PROVE  Carried' = Carried
<1>1. /\ VolHdr(0) \in Block /\ VolHdr(0).kind \in {"volhdr", "multivol"}
      /\ Store(VolHdr(0)) /\ cur < BF /\ UNCHANGED <<volumes, other, from, to>>
  BY BlocksAreBlocks DEF WriteLabel, WriteVolumeLabel, HasRoom, VolHdr
<1>2. Carried' = Cat(Carried, Payload(<<VolHdr(0)>>))  BY <1>1, BlockCarried
<1>3. Payload(<<VolHdr(0)>>) = <<>>  BY <1>1, PayloadNone
<1> QED  BY <1>2, <1>3, CarriedTypes, CatEmpty

LEMMA PayloadOne ==
  ASSUME NEW b \in Block, b.kind \notin {"volhdr", "multivol"}
  PROVE  Payload(<<b>>) = <<b>>
<1>1. <<b>> \in Seq(Block) /\ \A k \in 1 .. Len(<<b>>) : <<b>>[k].kind \notin {"volhdr", "multivol"}
  OBVIOUS
<1> QED  BY <1>1, PayloadAll

LEMMA HeaderCarried ==
  ASSUME Typed, Typed', Place, from = to, WriteHeader
  PROVE  Carried' = Cat(Carried, HeaderOf(current))
<1> DEFINE b == Header(current, size[current])
<1>1. /\ b \in Block /\ b.kind \notin {"volhdr", "multivol"}
  <2>1. pc = "header" /\ todo > 0  BY DEF WriteHeader, Place
  <2>2. current \in Names /\ size[current] \in Nat  BY <2>1, GivenTypes
  <2> QED  BY <2>2, BlocksAreBlocks DEF Header
<1>2. Store(b) /\ cur < BF /\ UNCHANGED <<volumes, other, from, to>>
  BY DEF WriteHeader, HasRoom
<1>4. HeaderOf(current) = <<b>>  BY DEF HeaderOf
<1> HIDE DEF b
<1>3. Carried' = Cat(Carried, Payload(<<b>>))  BY <1>1, <1>2, BlockCarried
<1> QED  BY <1>1, <1>3, <1>4, PayloadOne

LEMMA DataPayload ==
  ASSUME NEW f \in Names, size \in [Names -> Nat], NEW k \in Nat, NEW n \in Nat
  PROVE  Payload(DataFrom(f, k, n)) = DataFrom(f, k, n)
<1> DEFINE d == DataFrom(f, k, n)
<1>1. d \in Seq(Block) /\ OnlyMembers(d)  BY DataType
<1> HIDE DEF d
<1>2. \A i \in 1 .. Len(d) : d[i].kind \notin {"volhdr", "multivol"}  BY <1>1 DEF OnlyMembers
<1>3. Payload(d) = d  BY <1>1, <1>2, PayloadAll
<1> QED  BY <1>3 DEF d

LEMMA ChunkIs ==
  ASSUME Typed, Place, pc \in {"fill", "padfill"}, cur < BF
  PROVE  /\ Chunk \in 1 .. left /\ cur + Chunk <= BF /\ left \in Nat /\ cur \in Nat
         /\ current \in Names /\ size[current] \in Nat /\ size[current] - left \in Nat
         /\ todo \in 1 .. Len(Files)
<1>1. InMember /\ left > 0 /\ todo > 0 /\ left <= size[current]
  BY DEF Place, InMember
<1>2. /\ left \in Nat /\ cur \in Nat /\ BF \in Nat /\ todo \in 1 .. Len(Files)
      /\ current \in Names /\ size[current] \in Nat
  BY <1>1, GivenTypes DEF Typed
<1>3. Chunk \in 1 .. left /\ Chunk <= BF - cur  BY <1>1, <1>2 DEF Chunk, Lesser
<1>4. cur + Chunk <= BF  BY <1>2, <1>3
<1> QED  BY <1>1, <1>2, <1>3, <1>4

LEMMA ChunkCarried ==
  ASSUME Typed, Typed', Place, from = to, UNCHANGED <<volumes, other, from, to>>,
         pc = "fill", cur < BF, FillData(Chunk), cur' = cur + Chunk
  PROVE  Carried' = Cat(Carried, DataFrom(current, size[current] - left, Chunk))
<1> DEFINE n == Chunk
           f == current
           o == size[current] - left
           s == Slice(record', cur, n)
           d == DataFrom(f, o, n)
<1>1. n \in Nat /\ cur + n <= BF /\ f \in Names /\ o \in Nat /\ cur \in Nat /\ size \in [Names -> Nat]
  <2>1. /\ Chunk \in 1 .. left /\ cur + Chunk <= BF /\ left \in Nat /\ cur \in Nat
        /\ current \in Names /\ size[current] - left \in Nat
    BY ChunkIs
  <2>2. size \in [Names -> Nat]  BY DEF Typed
  <2>3. Chunk \in Nat  BY <2>1
  <2> QED  BY <2>1, <2>2, <2>3
<1>2. record' \in [Slots -> Block]  BY DEF Typed
<1>3. \A k \in 0 .. cur - 1 : record'[k] = record[k]
  <2>1. \A k \in 0 .. cur - 1 : k \in Slots /\ k \notin cur .. cur + n - 1
    BY <1>1, GivenTypes DEF Slots
  <2> QED  BY <2>1 DEF FillData
<1>4. \A k \in 1 .. n : record'[cur + k - 1] = Data(f, o + k - 1)
  <2> SUFFICES ASSUME NEW k \in 1 .. n  PROVE  record'[cur + k - 1] = Data(f, o + k - 1)
    OBVIOUS
  <2>1. /\ cur + k - 1 \in Slots /\ cur + k - 1 \in cur .. cur + n - 1
        /\ o + ((cur + k - 1) - cur) = o + k - 1
    BY <1>1, GivenTypes DEF Slots
  <2> DEFINE j == cur + k - 1
  <2>2. record'[j] = Data(f, o + (j - cur))  BY <2>1 DEF FillData
  <2> QED  BY <2>1, <2>2
<1> HIDE DEF n, f, o
<1>5. s \in Seq(Block) /\ Len(s) = n /\ \A k \in 1 .. n : s[k] = record'[cur + k - 1]
  BY <1>1, <1>2, SliceType
<1>6. d \in Seq(Block) /\ Len(d) = n /\ \A k \in 1 .. n : d[k] = Data(f, o + k - 1)
  BY <1>1, DataType
<1>7. s = d
  <2> HIDE DEF s, d
  <2> QED  BY <1>4, <1>5, <1>6, SameBlocks
<1>8. Stored(n) = d  BY <1>1, <1>7, DataPayload DEF Stored
<1>9. cur' = cur + n  BY DEF n
<1>10. InRecord' = Cat(InRecord, Stored(n))
  BY <1>1, <1>3, <1>9, RecordGrows
<1>11. Carried' = Cat(Carried, d)
  <2> HIDE DEF s, d
  <2> QED  BY <1>6, <1>8, <1>10, CarriedGrows
<1> QED  BY <1>11 DEF n, f, o

LEMMA PadCarried ==
  ASSUME Typed, Typed', Place, from = to, Pad
  PROVE  Carried' = Cat(Carried, DataFrom(current, size[current] - left, 1))
<1> DEFINE o == size[current] - left
           b == Data(current, o)
<1>1. /\ pc = "padfill" /\ cur < BF /\ Store(b) /\ UNCHANGED <<volumes, other, from, to>>
  BY DEF Pad, HasRoom
<1>2. current \in Names /\ o \in Nat  BY <1>1, ChunkIs
<1>3. b \in Block /\ b.kind \notin {"volhdr", "multivol"}
  BY <1>2, BlocksAreBlocks DEF Data
<1>4. DataFrom(current, o, 1) = <<b>>
  <2>1. o + 1 - 1 = o  BY <1>2
  <2> HIDE DEF o
  <2> QED  BY <2>1 DEF DataFrom
<1>5. Carried' = Cat(Carried, Payload(<<b>>))
  <2> HIDE DEF b, o
  <2> QED  BY <1>1, <1>3, BlockCarried
<1>6. Payload(<<b>>) = <<b>>
  <2> HIDE DEF b, o
  <2> QED  BY <1>3, PayloadOne
<1> QED  BY <1>4, <1>5, <1>6

LEMMA ZeroCarried ==
  ASSUME Typed, Typed', from = to, Eot1 \/ Eot2
  PROVE  Carried' = Cat(Carried, Zeros(1))
<1>0. /\ cur < BF /\ cur \in Nat /\ BF \in Nat /\ cur' = cur + 1 /\ 1 \in Nat /\ cur \in Slots
      /\ UNCHANGED <<volumes, other, from, to>>
  BY GivenTypes DEF Typed, Eot1, Eot2, Store, HasRoom, Slots
<1>1. Zero \in Block /\ Zero.kind \notin {"volhdr", "multivol"}  BY ZeroIsBlock
<1>2. Payload(<<Zero>>) = Zeros(1)  BY <1>1, PayloadOne, ZerosFew
<1>3. CASE Eot1
  <2>1. Store(Zero)  BY <1>3 DEF Eot1
  <2> QED  BY <1>0, <1>1, <1>2, <2>1, BlockCarried
<1>4. CASE Eot2
  <2>1. record' = ZeroFrom(record, cur)  BY <1>4 DEF Eot2
  <2>2. \A k \in 0 .. cur - 1 : record'[k] = record[k]
    <3>1. \A k \in 0 .. cur - 1 : k \in Slots /\ k < cur  BY <1>0 DEF Slots
    <3> QED  BY <2>1, <3>1 DEF ZeroFrom
  <2>3. record'[cur] = Zero  BY <1>0, <2>1 DEF ZeroFrom
  <2>4. record' \in [Slots -> Block]  BY DEF Typed
  <2>5. Slice(record', cur, 1) = <<Zero>>  BY <1>0, <2>3, <2>4, SliceOne
  <2>6. Stored(1) = Zeros(1)  BY <1>2, <2>5 DEF Stored
  <2>7. InRecord' = Cat(InRecord, Stored(1)) /\ Stored(1) \in Seq(Block)
    BY <1>0, <2>2, RecordGrows
  <2> QED  BY <1>0, <2>6, <2>7, CarriedGrows
<1> QED  BY <1>3, <1>4

(* After the blocks to be written there are only NULs.                     *)
Padded == cur > 0 /\ ZerosFollow

LEMMA FullIsPadded ==
  ASSUME Typed, cur = BF  PROVE  Padded
<1>1. cur > 0 /\ \A i \in cur .. BF - 1 : FALSE  BY GivenTypes DEF Typed
<1> QED  BY <1>1 DEF Padded, ZerosFollow

LEMMA NothingInRecord ==
  ASSUME cur' = 0  PROVE  InRecord' = <<>>
<1>1. Slice(record', 0, 0) = <<>>  BY SliceNone
<1> QED  BY <1>1, PayloadEmpty DEF InRecord

LEMMA FlushCarried ==
  ASSUME Typed, from = to, Padded, FlushWhole
  PROVE  /\ Carried' = Cat(Carried, Zeros(BF - cur)) /\ BF - cur \in Nat
         /\ Behind' = <<>> /\ OnVolumes' = Carried'
<1> DEFINE n == BF - cur
<1>1. n \in Nat /\ BF \in cur .. BF  BY GivenTypes DEF Typed
<1>2. WriteRecord /\ cur' = 0 /\ UNCHANGED <<other, from, to>>  BY DEF FlushWhole
<1>3. OnVolumes' = Cat(OnVolumes, Payload(Slice(record, 0, BF)))  BY <1>2, RecordOnVolumes
<1>4. Payload(Slice(record, 0, BF)) = Cat(InRecord, Zeros(n))
  BY <1>1, PartOfRecord DEF Padded
<1>5. InRecord' = <<>>  BY <1>2, NothingInRecord
<1>6. /\ OnVolumes \in Seq(Block) /\ InRecord \in Seq(Block) /\ Uncopied = <<>>
      /\ Behind = InRecord /\ <<>> \in Seq(Block)
  BY CarriedTypes
<1>7. Uncopied' = <<>>  BY <1>2, <1>6 DEF Uncopied, ToCopy
<1>8. Behind' = <<>>  BY <1>5, <1>6, <1>7, CatEmpty DEF Behind
<1>9. Zeros(n) \in Seq(Block)  BY <1>1, ZerosType
<1>10. Carried = Cat(OnVolumes, InRecord)  BY <1>6 DEF Carried
<1> HIDE DEF n
<1>11. OnVolumes' = Cat(Carried, Zeros(n))
  BY <1>3, <1>4, <1>6, <1>9, <1>10, CatAssociative
<1>12. OnVolumes' \in Seq(Block)
  BY <1>6, <1>9, <1>10, <1>11, CatType
<1>13. Carried' = OnVolumes'  BY <1>8, <1>12, CatEmpty DEF Carried
<1> QED  BY <1>1, <1>8, <1>11, <1>13 DEF n

LEMMA ChangeOnVolumes ==
  ASSUME Typed, NEW status \in 0 .. BF - 1, ChangeVolume(status)
  PROVE  /\ OnVolumes' = Cat(OnVolumes, Payload(Slice(record, 0, status)))
         /\ InRecord' = <<>>
<1> DEFINE full == [volumes EXCEPT ![Len(volumes)] = @ \o Slice(record, 0, status)]
<1>1. status \in 0 .. BF  BY GivenTypes
<1>2. Grown(volumes, full, Slice(record, 0, status))  BY DEF Grown
<1>3. volumes' = Append(full, <<>>) /\ cur' = 0  BY DEF ChangeVolume
<1> HIDE DEF full
<1>4. full \in Seq(Seq(Block))
      /\ Payload(FlattenSeq(full)) = Cat(OnVolumes, Payload(Slice(record, 0, status)))
  BY <1>1, <1>2, VolumesGrow
<1>5. FlattenSeq(volumes') = FlattenSeq(full)  BY <1>3, <1>4, FlattenMounts
<1> QED  BY <1>3, <1>4, <1>5, NothingInRecord DEF OnVolumes

LEMMA ChangeCarried ==
  ASSUME Typed, from = to, NEW status \in 0 .. BF - 1, status <= cur, ChangeVolume(status)
  PROVE  Carried' = Carried /\ Len(Behind') \in 0 .. cur - status
<1> DEFINE n == cur - status
           s == Slice(record, 0, status)
           t == Slice(record, status, n)
<1>1. /\ n \in Nat /\ status \in Nat /\ status + n <= BF /\ 0 + status = status /\ status + n = cur
      /\ 0 + status + n <= BF /\ status <= BF /\ record \in [Slots -> Block]
  BY GivenTypes DEF Typed
<1>2. OnVolumes' = Cat(OnVolumes, Payload(s)) /\ InRecord' = <<>>
  BY ChangeOnVolumes
<1>3. ToCopy' = t
  <2>1. from' = status /\ to' = cur /\ other' = record  BY DEF ChangeVolume, CopyFrom
  <2> QED  BY <2>1 DEF ToCopy
<1>4. Slice(record, 0, cur) = Cat(s, t)
  <2>1. Slice(record, 0, status + n) = Cat(Slice(record, 0, status), Slice(record, 0 + status, n))
    <3> HIDE DEF n
    <3> QED  BY <1>1, SliceJoins
  <2> QED  BY <1>1, <2>1
<1>5. s \in Seq(Block) /\ t \in Seq(Block) /\ Len(t) = n
  <2> HIDE DEF n
  <2> QED  BY <1>1, SliceType
<1>6. OnVolumes \in Seq(Block) /\ Behind = InRecord  BY CarriedTypes
<1> DEFINE p == Payload(s)
           q == Payload(t)
<1>7. p \in Seq(Block) /\ q \in Seq(Block) /\ Len(q) \in 0 .. n
  <2> HIDE DEF s, t, n
  <2> QED  BY <1>5, PayloadType, PayloadShort
<1>8. InRecord = Cat(p, q)
  <2>1. InRecord = Payload(Cat(s, t))  BY <1>4 DEF InRecord
  <2> HIDE DEF s, t
  <2> QED  BY <1>5, <2>1, PayloadCat
<1>9. Uncopied' = q  BY <1>3 DEF Uncopied
<1> HIDE DEF p, q, s, t
<1>10. Behind' = q  BY <1>2, <1>7, <1>9, CatEmpty DEF Behind
<1>11. Carried' = Cat(Cat(OnVolumes, p), q)  BY <1>2, <1>10 DEF Carried, p
<1>12. Carried = Cat(OnVolumes, Cat(p, q))  BY <1>6, <1>8 DEF Carried
<1> QED  BY <1>6, <1>7, <1>10, <1>11, <1>12, CatAssociative

(* More was written than the record held.                                  *)
LEMMA UndefinedCarried ==
  ASSUME Typed, from = to, Padded, NEW status \in 0 .. BF - 1, status > cur, ChangeVolume(status)
  PROVE  /\ Carried' = Cat(Carried, Zeros(status - cur)) /\ status - cur \in Nat
<1> DEFINE n == status - cur
<1>1. n \in Nat /\ status \in cur .. BF  BY GivenTypes DEF Typed
<1>2. OnVolumes' = Cat(OnVolumes, Payload(Slice(record, 0, status))) /\ InRecord' = <<>>
  BY ChangeOnVolumes
<1>3. Payload(Slice(record, 0, status)) = Cat(InRecord, Zeros(n))
  BY <1>1, PartOfRecord DEF Padded
<1>4. ToCopy' = <<>>
  <2>1. from' = status /\ to' = cur /\ ~ status <= cur
    BY GivenTypes DEF ChangeVolume, CopyFrom, Typed
  <2> QED  BY <2>1 DEF ToCopy
<1>5. Uncopied' = <<>>  BY <1>4, PayloadEmpty DEF Uncopied
<1>6. OnVolumes \in Seq(Block) /\ InRecord \in Seq(Block) /\ Behind = InRecord
      /\ <<>> \in Seq(Block)
  BY CarriedTypes
<1>7. Zeros(n) \in Seq(Block)  BY <1>1, ZerosType
<1> HIDE DEF n
<1>8. Behind' = <<>>  BY <1>2, <1>5, <1>6, CatEmpty DEF Behind
<1>9. OnVolumes' = Cat(Carried, Zeros(n))
  BY <1>2, <1>3, <1>6, <1>7, CatAssociative DEF Carried
<1>10. Carried \in Seq(Block)  BY CarriedTypes
<1>11. OnVolumes' \in Seq(Block)  BY <1>7, <1>9, <1>10, CatType
<1>12. Carried' = OnVolumes'  BY <1>8, <1>11, CatEmpty DEF Carried
<1> QED  BY <1>1, <1>9, <1>12 DEF n

(* While volumes are changed nothing is lost.                              *)
LEMMA SimpleFlushCarried ==
  ASSUME Typed, SimpleFlushWrite
  PROVE  Carried' = Carried /\ Behind' = Uncopied
<1>1. WriteRecord /\ cur' = 0 /\ cur = BF /\ UNCHANGED <<other, from, to>>  BY DEF SimpleFlushWrite
<1>2. OnVolumes' = Cat(OnVolumes, InRecord)
  <2>1. OnVolumes' = Cat(OnVolumes, Payload(Slice(record, 0, BF)))  BY <1>1, RecordOnVolumes
  <2> QED  BY <1>1, <2>1 DEF InRecord
<1>3. InRecord' = <<>>  BY <1>1, NothingInRecord
<1>4. Uncopied' = Uncopied  BY <1>1 DEF Uncopied, ToCopy
<1>5. OnVolumes \in Seq(Block) /\ InRecord \in Seq(Block) /\ Uncopied \in Seq(Block)
  BY CarriedTypes
<1>6. Behind' = Uncopied  BY <1>3, <1>4, <1>5, CatEmpty DEF Behind
<1>7. Carried' = Cat(Cat(OnVolumes, InRecord), Uncopied)  BY <1>2, <1>6 DEF Carried
<1> QED  BY <1>5, <1>6, <1>7, CatAssociative DEF Carried, Behind

LEMMA AddedCarried ==
  ASSUME Typed, Typed', Told, AddVolumeLabel \/ AddMultiVolumeHeader
  PROVE  Carried' = Carried /\ Behind' = Behind
<1> DEFINE b == record'[cur]
<1>1. PICK c \in Block : /\ c.kind \in {"volhdr", "multivol"} /\ Store(c)
  <2>1. CASE AddVolumeLabel
    <3>1. VolHdr(0) \in Block /\ VolHdr(0).kind = "volhdr"  BY BlocksAreBlocks DEF VolHdr
    <3> QED  BY <2>1, <3>1 DEF AddVolumeLabel, WriteVolumeLabel
  <2>2. CASE AddMultiVolumeHeader
    <3>1. /\ real.name \in Names /\ real.left \in Nat /\ real.total \in Nat
          /\ real.left \in 1 .. real.total
      BY <2>2 DEF AddMultiVolumeHeader, Told, Typed, Tracked
    <3>2. real.total - real.left \in Nat  BY <3>1
    <3> DEFINE d == MultiVol(real.name, real.left, real.total - real.left)
    <3>3. d \in Block /\ d.kind = "multivol"  BY <3>1, <3>2, BlocksAreBlocks DEF MultiVol
    <3>4. Store(d)  BY <2>2 DEF AddMultiVolumeHeader
    <3> HIDE DEF d
    <3> QED  BY <3>3, <3>4
  <2> QED  BY <2>1, <2>2
<1>2. cur < BF /\ UNCHANGED <<volumes, other, from, to>>
  BY DEF AddVolumeLabel, AddMultiVolumeHeader
<1>3. cur' = cur + 1 /\ record'[cur] = c /\ \A k \in 0 .. cur - 1 : record'[k] = record[k]
      /\ cur \in Nat
  BY <1>1, <1>2, StoredAt
<1>4. Stored(1) = <<>>
  <2>1. cur \in Slots /\ record' \in [Slots -> Block]  BY <1>2, <1>3, GivenTypes DEF Typed, Slots
  <2>2. Slice(record', cur, 1) = <<c>>  BY <1>3, <2>1, SliceOne
  <2> QED  BY <1>1, <2>2, PayloadNone DEF Stored
<1>5. InRecord' = Cat(InRecord, Stored(1))
  <2>1. 1 \in Nat  OBVIOUS
  <2> QED  BY <1>3, <2>1, RecordGrows
<1>6. InRecord' = InRecord  BY <1>4, <1>5, CarriedTypes, CatEmpty
<1>7. OnVolumes' = OnVolumes /\ Uncopied' = Uncopied
  BY <1>2 DEF OnVolumes, Uncopied, ToCopy
<1> QED  BY <1>6, <1>7 DEF Carried, Behind

LEMMA CopyCarried ==
  ASSUME Typed, Typed', from <= to, CopyChunk
  PROVE  Carried' = Carried /\ Behind' = Behind
<1> DEFINE n == Lesser(BF - cur, to - from)
           r == to - (from + n)
           s == Slice(other, from, n)
           t == Slice(other, from + n, r)
           copied == [k \in Slots |-> IF k \in cur .. cur + n - 1
                                      THEN other[from + (k - cur)] ELSE record[k]]
<1>1. /\ cur \in Nat /\ from \in Nat /\ to \in Nat /\ cur < BF /\ BF \in Nat /\ to <= BF
      /\ other \in [Slots -> Block] /\ record' \in [Slots -> Block]
  <2>1. /\ cur \in Nat /\ from \in Nat /\ to \in Nat /\ BF \in Nat /\ to <= BF
        /\ other \in [Slots -> Block]
    <3>1. BF \in Nat  BY GivenTypes
    <3>2. /\ cur \in 0 .. BF /\ from \in 0 .. BF /\ to \in 0 .. BF
          /\ other \in [Slots -> Block]
      BY DEF Typed
    <3> QED  BY <3>1, <3>2
  <2>2. record' \in [Slots -> Block]  BY DEF Typed
  <2>3. cur < BF  BY DEF CopyChunk
  <2> QED  BY <2>1, <2>2, <2>3
<1>2. /\ n \in Nat /\ cur + n <= BF /\ from + n <= to /\ r \in Nat /\ n + r = to - from
      /\ from + n + r <= BF /\ from + n <= BF /\ (from + n) + r <= BF /\ from + n \in Nat
  BY <1>1 DEF Lesser
<1>3. /\ cur' = cur + n /\ from' = from + n /\ UNCHANGED <<volumes, other, to>>
      /\ record' = copied \/ record' = ZeroFrom(copied, cur + n)
  BY DEF CopyChunk
<1> HIDE DEF n
<1>4. \A k \in 0 .. cur - 1 : record'[k] = record[k]
  <2>1. \A k \in 0 .. cur - 1 : k \in Slots /\ k \notin cur .. cur + n - 1 /\ k < cur + n
    BY <1>1, <1>2 DEF Slots
  <2> QED  BY <1>3, <2>1 DEF ZeroFrom
<1>5. \A k \in 1 .. n : record'[cur + k - 1] = other[from + k - 1]
  <2> SUFFICES ASSUME NEW k \in 1 .. n  PROVE  record'[cur + k - 1] = other[from + k - 1]
    OBVIOUS
  <2> DEFINE j == cur + k - 1
  <2>1. /\ j \in Slots /\ j \in cur .. cur + n - 1 /\ j < cur + n
        /\ from + (j - cur) = from + k - 1
    BY <1>1, <1>2 DEF Slots
  <2>2. record'[j] = other[from + (j - cur)]
    <3> HIDE DEF j
    <3> QED  BY <1>3, <2>1 DEF ZeroFrom
  <2> QED  BY <2>1, <2>2
<1> HIDE DEF copied, r
<1>6. Slice(record', cur, n) = s
  <2>1. /\ Slice(record', cur, n) \in Seq(Block) /\ Len(Slice(record', cur, n)) = n
        /\ \A k \in 1 .. n : Slice(record', cur, n)[k] = record'[cur + k - 1]
    BY <1>1, <1>2, SliceType
  <2>2. s \in Seq(Block) /\ Len(s) = n /\ \A k \in 1 .. n : s[k] = other[from + k - 1]
    BY <1>1, <1>2, SliceType
  <2> DEFINE u == Slice(record', cur, n)
  <2> HIDE DEF s, u
  <2>3. u = s  BY <1>5, <2>1, <2>2, SameBlocks DEF u
  <2> QED  BY <2>3 DEF u
<1>7. ToCopy = Cat(s, t)
  <2>1. ToCopy = Slice(other, from, n + r)  BY <1>1, <1>2, ToCopyIs
  <2> QED  BY <1>1, <1>2, <2>1, SliceJoins
<1>8. ToCopy' = t
  <2>1. from + n <= to  BY <1>2
  <2>2. ToCopy' = IF from + n <= to THEN Slice(other, from + n, to - (from + n)) ELSE <<>>
    BY <1>3 DEF ToCopy
  <2> QED  BY <2>1, <2>2 DEF r
<1>9. s \in Seq(Block) /\ t \in Seq(Block)  BY <1>1, <1>2, SliceType
<1> DEFINE p == Payload(s)
           q == Payload(t)
<1>10. p \in Seq(Block) /\ q \in Seq(Block)
  <2> HIDE DEF s, t
  <2> QED  BY <1>9, PayloadType
<1>11. Uncopied = Cat(p, q) /\ Uncopied' = q
  <2> HIDE DEF s, t
  <2> QED  BY <1>7, <1>8, <1>9, PayloadCat DEF Uncopied
<1>12. InRecord' = Cat(InRecord, p)
  <2>1. Stored(n) = p  BY <1>6 DEF Stored
  <2> QED  BY <1>2, <1>3, <1>4, <2>1, RecordGrows
<1> HIDE DEF p, q
<1>13. InRecord \in Seq(Block)  BY CarriedTypes
<1>14. Behind' = Behind  BY <1>10, <1>11, <1>12, <1>13, CatAssociative DEF Behind
<1>15. OnVolumes' = OnVolumes  BY <1>3 DEF OnVolumes
<1> QED  BY <1>14, <1>15 DEF Carried

LEMMA NothingCarried ==
  ASSUME UNCHANGED <<volumes, record, cur, other, from, to>>
  PROVE  Carried' = Carried /\ Behind' = Behind /\ OnVolumes' = OnVolumes
BY DEF Carried, Behind, OnVolumes, InRecord, Uncopied, ToCopy

-----------------------------------------------------------------------------
(* How far the mounted volume is filled.                                   *)

(* Each volume but the last took n blocks.                                 *)
EachTook(n) == \A v \in 1 .. Len(volumes) - 1 : Len(volumes[v]) >= n

(* How far the mounted volume is filled while volumes are changed.         *)
Levels ==
  ~ Stopped =>
    /\ nv = "none" => from = to
    /\ nv = "label" => Level = 0
    /\ nv = "multivol" => Level <= 1
    /\ nv = "copy" => Level <= 2 + from
    /\ nv = "done" => from = to /\ Level <= 2 + to /\ ZerosFollow
    /\ nv # "none" => Len(Mounted) \in {0, BF, 2 * BF, 3 * BF}

LEMMA DumpIs ==
  ASSUME Told, Dump
  PROVE  /\ nv = "none" /\ ~ Stopped
         /\ UNCHANGED <<volumes, other, from, to, nv, setting, size>>
<1>1. pc \in {"next", "data", "pad"} => nv = "none"  BY DEF Told, Stopped
<1> QED
  BY <1>1 DEF Dump, WriteLabel, NextMember, WriteHeader, SizeLeft, FillFull, FillShort, ReadError,
     Pad, EndMember, StartEot, Eot1, Eot2, Close, HasRoom, Stopped, given, device, buffer

LEMMA AtLeastTwo == \A m \in Nat : 0 <= 2 + m /\ 1 <= 2 + m /\ \A l \in Nat : l <= 2 => l <= 2 + m
OBVIOUS

LEMMA LevelsInit == Init => Levels
BY DEF Init, Levels

LEMMA LevelsNext ==
  ASSUME Typed, Typed', Told, Levels, [Next]_vars
  PROVE  Levels'
<1>0. /\ BF \in Nat /\ BF > 0 /\ Len(Mounted) \in Nat /\ cur \in 0 .. BF /\ from \in 0 .. BF
      /\ to \in 0 .. BF
  <2>1. BF \in Nat /\ BF > 0 /\ Len(Mounted) \in Nat  BY GivenTypes
  <2>2. cur \in 0 .. BF /\ from \in 0 .. BF /\ to \in 0 .. BF  BY DEF Typed
  <2> QED  BY <2>1, <2>2
<1>1. CASE Dump  BY <1>1, DumpIs DEF Levels
<1>2. CASE FlushWhole
  BY <1>2 DEF FlushWhole, FlushPoint, Levels, Stopped
<1>3. CASE FlushFatal \/ NoMoreVolumes \/ SimpleFlushFatal
  BY <1>3 DEF FlushFatal, NoMoreVolumes, SimpleFlushFatal, Levels, Stopped
<1>4. CASE \E status \in 0 .. BF - 1 : ChangeVolume(status)
  <2> PICK status \in 0 .. BF - 1 : ChangeVolume(status)  BY <1>4
  <2>1. Mounted' = <<>> /\ cur' = 0 /\ nv' \in {"label", "multivol", "copy"} /\ from' \in Nat
    BY VolumeAdded, <1>0 DEF ChangeVolume, CopyFrom
  <2>2. Level' = 0 /\ Level' \in Nat /\ Len(Mounted') = 0  BY <2>1 DEF Level
  <2>3. from' \in Nat  BY <2>1
  <2>4. Level' <= 2 + from' /\ Level' <= 1
    <3>1. 0 <= 2 + from'  BY <2>3, AtLeastTwo
    <3>2. 0 <= 1  OBVIOUS
    <3>3. Level' = 0  BY <2>2
    <3> QED  BY <3>1, <3>2, <3>3
  <2>5. Len(Mounted') \in {0, BF, 2 * BF, 3 * BF}  BY <2>2
  <2> QED  BY <2>1, <2>2, <2>4, <2>5 DEF Levels
<1>5. CASE SimpleFlushWrite
  <2>1. /\ Len(Mounted') = Len(Mounted) + BF /\ cur = BF /\ cur' = 0
        /\ UNCHANGED <<from, to, nv, pc>> /\ nv # "none" /\ pc \notin {"fatal", "undefined"}
    BY <1>5, RecordWritten DEF SimpleFlushWrite, Changing
  <2>2. pc # "done"  BY <2>1 DEF Told
  <2>3. Level' = Level /\ Level = Len(Mounted) + BF  BY <1>0, <2>1 DEF Level
  <2>4. nv \in {"label", "multivol", "copy", "done"}  BY <2>1 DEF Typed
  <2>5. Level <= 2 + BF /\ nv # "label"
    BY <1>0, <2>1, <2>2, <2>3, <2>4 DEF Levels, Stopped
  <2>6. Len(Mounted) <= 2  BY <1>0, <2>3, <2>5
  <2>7. Len(Mounted) \in {0, BF, 2 * BF, 3 * BF}
    BY <2>1, <2>2 DEF Levels, Stopped
  <2>8. Len(Mounted') \in {0, BF, 2 * BF, 3 * BF}
    BY <1>0, <2>1, <2>6, <2>7
  <2>9. ZerosFollow'  BY <2>1 DEF ZerosFollow
  <2> QED  BY <2>1, <2>2, <2>3, <2>4, <2>8, <2>9 DEF Levels, Stopped
<1>6. CASE AddVolumeLabel
  <2>1. /\ nv = "label" /\ nv' \in {"multivol", "copy"} /\ cur' = cur + 1
        /\ UNCHANGED <<volumes, from, to, pc>> /\ pc \notin {"fatal", "undefined"}
    BY <1>6 DEF AddVolumeLabel, WriteVolumeLabel, Store, Changing
  <2>2. ~ Stopped  BY <2>1 DEF Stopped, Told
  <2>3. Level = 0 /\ Len(Mounted) \in {0, BF, 2 * BF, 3 * BF}  BY <2>1, <2>2 DEF Levels
  <2>4. Mounted' = Mounted  BY <2>1 DEF Mounted
  <2>5. Level' = 1  BY <1>0, <2>1, <2>3, <2>4 DEF Level
  <2>6. Level' <= 2 + from' /\ Level' <= 1  BY <1>0, <2>1, <2>5
  <2>7. Len(Mounted') \in {0, BF, 2 * BF, 3 * BF}  BY <2>3, <2>4
  <2> QED  BY <2>1, <2>6, <2>7 DEF Levels
<1>7. CASE AddMultiVolumeHeader
  <2>1. /\ nv = "multivol" /\ nv' = "copy" /\ cur' = cur + 1
        /\ UNCHANGED <<volumes, from, to, pc>> /\ pc \notin {"fatal", "undefined"}
    BY <1>7 DEF AddMultiVolumeHeader, Store, Changing
  <2>2. ~ Stopped  BY <2>1 DEF Stopped, Told
  <2>3. Level <= 1 /\ Len(Mounted) \in {0, BF, 2 * BF, 3 * BF}  BY <2>1, <2>2 DEF Levels
  <2>4. Mounted' = Mounted  BY <2>1 DEF Mounted
  <2>5. Level' <= 2  BY <1>0, <2>1, <2>3, <2>4 DEF Level
  <2>6. Level' <= 2 + from'
    <3>1. Level' \in Nat /\ from' \in Nat  BY <1>0, <2>1, <2>4 DEF Level
    <3> QED  BY <2>5, <3>1, AtLeastTwo
  <2>7. Len(Mounted') \in {0, BF, 2 * BF, 3 * BF}  BY <2>3, <2>4
  <2> QED  BY <2>1, <2>6, <2>7 DEF Levels
<1>8. CASE CopyChunk
  <2> DEFINE n == Lesser(BF - cur, to - from)
             last == to - from <= BF - cur
             copied == [k \in Slots |-> IF k \in cur .. cur + n - 1
                                        THEN other[from + (k - cur)] ELSE record[k]]
  <2>1. /\ nv = "copy" /\ pc \notin {"fatal", "undefined"}
        /\ cur' = cur + n /\ from' = from + n /\ UNCHANGED <<volumes, to, pc>>
        /\ nv' = IF last THEN "done" ELSE "copy"
        /\ last => record' = ZeroFrom(copied, cur + n)
    BY <1>8 DEF CopyChunk, Changing
  <2>2. ~ Stopped /\ from <= to  BY <2>1 DEF Stopped, Told
  <2>3. n \in Nat /\ (last => n = to - from)  BY <1>0, <2>2 DEF Lesser
  <2>4. Level <= 2 + from /\ Len(Mounted) \in {0, BF, 2 * BF, 3 * BF}
    BY <2>1, <2>2 DEF Levels
  <2>5. last => ZerosFollow'
    <3> SUFFICES ASSUME last, NEW i \in cur' .. BF - 1  PROVE  record'[i] = Zero
      BY DEF ZerosFollow
    <3>1. i \in Slots /\ ~ i < cur + n  BY <1>0, <2>1, <2>3 DEF Slots
    <3> QED  BY <2>1, <3>1 DEF ZeroFrom
  <2>6. Mounted' = Mounted  BY <2>1 DEF Mounted
  <2> HIDE DEF n, last, copied
  <2>7. Level' <= 2 + from'  BY <1>0, <2>1, <2>3, <2>4, <2>6 DEF Level
  <2>8. last => from' = to'  BY <1>0, <2>1, <2>3
  <2> QED  BY <2>1, <2>4, <2>5, <2>6, <2>7, <2>8 DEF Levels
<1>9. CASE VolumeChanged
  <2>1. nv = "done" /\ nv' = "none" /\ UNCHANGED <<from, to, pc>>
    BY <1>9 DEF VolumeChanged
  <2> QED  BY <2>1 DEF Levels, Stopped
<1>10. CASE UNCHANGED vars
  BY <1>10 DEF vars, given, device, buffer, dump, tracking, Levels, Stopped, Level, Mounted,
               ZerosFollow
<1> QED  BY <1>1, <1>2, <1>3, <1>4, <1>5, <1>6, <1>7, <1>8, <1>9, <1>10
         DEF Next, FlushWrite, VolumeChange

-----------------------------------------------------------------------------
(* The content of the archive, and its end.                                *)

(* What should be carried: the members dumped, and the one that is begun.  *)
Expected ==
  IF pc = "header" THEN Dumped[todo - 1]
  ELSE IF InMember THEN Begun(todo, size[current] - left)
  ELSE Dumped[todo]
Marks(z) ==
  /\ Carried = Cat(Expected, Zeros(z))
  /\ IF Closing THEN z >= 2 ELSE z = IF pc = "eot2" THEN 1 ELSE 0
Content ==
  ~ Stopped => /\ \E z \in Nat : Marks(z)
               /\ pc \in {"eot1", "eot2"} \/ Closing => todo = Len(Files)

(* The end of the archive: the two flushes of close_archive leave at most  *)
(* two blocks of NULs unwritten, and none if the volumes took two records. *)
Ends ==
  /\ Closing /\ nv = "none" => ZerosFollow
  /\ pc = "close1" => cur > 0
  /\ pc = "close2" /\ nv = "none" /\ cur > 0 =>
       cur < BF /\ Len(Mounted) \in {0, BF} /\ Level <= BF + 2
  /\ pc = "closed" /\ EachTook(BF) => Len(Behind) <= 2
  /\ pc = "closed" /\ EachTook(2 * BF) => Behind = <<>>
  /\ pc = "done" /\ EachTook(BF) =>
       \E z \in Nat : OnVolumes = Cat(Dumped[Len(Files)], Zeros(z))

LEMMA ExpectedType ==
  ASSUME Typed, Place
  PROVE  Expected \in Seq(Block) /\ OnlyMembers(Expected)
<1>1. /\ size \in [Names -> Nat] /\ todo \in 0 .. Len(Files) /\ Len(Files) \in Nat
  BY FilesAreNames DEF Typed
<1>2. \A n \in 0 .. Len(Files) : Dumped[n] \in Seq(Block) /\ OnlyMembers(Dumped[n])
  BY <1>1, DumpedSteps, DumpedOnly
<1>3. CASE pc = "header"
  <2>1. todo - 1 \in 0 .. Len(Files)  BY <1>1, <1>3 DEF Place
  <2> QED  BY <1>2, <1>3, <2>1 DEF Expected
<1>4. CASE InMember
  <2>1. todo \in 1 .. Len(Files)  BY <1>1, <1>4 DEF Place
  <2>2. left \in Nat /\ size[current] \in Nat /\ left <= size[current]
    <3>1. left \in Nat /\ left <= size[current]  BY <1>4 DEF Place, Typed
    <3>2. size[current] \in Nat  BY <2>1, GivenTypes
    <3> QED  BY <3>1, <3>2
  <2>3. size[current] - left \in Nat  BY <2>2
  <2>4. pc # "header"  BY <1>4 DEF InMember
  <2>5. Begun(todo, size[current] - left) \in Seq(Block)
        /\ OnlyMembers(Begun(todo, size[current] - left))
    BY <1>1, <2>1, <2>3, BegunType, BegunOnly
  <2> QED  BY <1>4, <2>4, <2>5 DEF Expected
<1>5. CASE pc # "header" /\ ~ InMember  BY <1>1, <1>2, <1>5 DEF Expected
<1> QED  BY <1>3, <1>4, <1>5

LEMMA PointIsPadded ==
  ASSUME Typed, Ends, FlushPoint
  PROVE  Padded
<1>1. CASE cur = BF  BY <1>1, FullIsPadded
<1>2. CASE cur # BF
  <2>1. /\ nv = "none" /\ cur \in 0 .. BF
        /\ pc = "close1" \/ (pc = "close2" /\ cur > 0)
    BY <1>2 DEF FlushPoint, Typed
  <2> QED  BY <2>1 DEF Ends, Closing, Padded
<1> QED  BY <1>1, <1>2

(* The end of what is carried is NULs.                                     *)
LEMMA WithoutEnd ==
  ASSUME NEW a \in Seq(Block), NEW b \in Seq(Block), NEW d \in Seq(Block), NEW z \in Nat,
         Cat(a, b) = Cat(d, Zeros(z)), Len(b) <= z
  PROVE  \E y \in Nat : a = Cat(d, Zeros(y))
<1> DEFINE y == z - Len(b)
           c == Zeros(z)
           e == Zeros(y)
           l == Cat(a, b)
           r == Cat(d, c)
           m == Cat(d, e)
<1>1. y \in Nat /\ Len(a) \in Nat /\ Len(b) \in Nat /\ Len(d) \in Nat /\ z = y + Len(b)
  OBVIOUS
<1>2. c \in Seq(Block) /\ Len(c) = z /\ \A k \in 1 .. z : c[k] = Zero  BY ZerosType
<1>3. e \in Seq(Block) /\ Len(e) = y /\ \A k \in 1 .. y : e[k] = Zero
  <2> HIDE DEF y
  <2> QED  BY <1>1, ZerosType
<1>7. l = r  OBVIOUS
<1> HIDE DEF c, e, y
<1>4. /\ l \in Seq(Block) /\ Len(l) = Len(a) + Len(b) /\ \A k \in 1 .. Len(a) : l[k] = a[k]
  BY CatElements, CatType
<1>5. /\ r \in Seq(Block) /\ Len(r) = Len(d) + z /\ \A k \in 1 .. Len(d) : r[k] = d[k]
      /\ \A k \in 1 .. z : r[Len(d) + k] = c[k]
  BY <1>2, CatElements, CatType
<1>6. /\ m \in Seq(Block) /\ Len(m) = Len(d) + y /\ \A k \in 1 .. Len(d) : m[k] = d[k]
      /\ \A k \in 1 .. y : m[Len(d) + k] = e[k]
  BY <1>3, CatElements, CatType
<1> HIDE DEF l, r, m
<1>8. Len(a) = Len(d) + y  BY <1>1, <1>4, <1>5, <1>7
<1>9. ASSUME NEW k \in 1 .. Len(a)  PROVE  a[k] = m[k]
  <2>1. a[k] = r[k]  BY <1>4, <1>7
  <2>2. CASE k <= Len(d)
    <3>1. k \in 1 .. Len(d)  BY <2>2, <1>1
    <3> QED  BY <2>1, <3>1, <1>5, <1>6
  <2>3. CASE ~ k <= Len(d)
    <3>1. PICK j \in 1 .. y : k = Len(d) + j
      <4>1. k - Len(d) \in 1 .. y /\ k = Len(d) + (k - Len(d))  BY <2>3, <1>1, <1>8
      <4> QED  BY <4>1
    <3>2. j \in 1 .. z  BY <1>1
    <3> QED  BY <2>1, <3>1, <3>2, <1>2, <1>3, <1>5, <1>6
  <2> QED  BY <2>2, <2>3
<1>10. a = m  BY <1>6, <1>8, <1>9, SameBlocks
<1> QED  BY <1>1, <1>10 DEF m, e

LEMMA EndsInit == Init => Ends
BY DEF Init, Ends, Closing

(* The writes of close_archive: a volume change of the last flush leaves   *)
(* what the volume before did not take.                                    *)
LEMMA LastChange ==
  ASSUME Typed, Levels, Ends, pc = "close2", NEW status \in 0 .. BF - 1, status <= cur,
         ChangeVolume(status)
  PROVE  /\ EachTook(BF)' => Len(Behind') <= 2
         /\ EachTook(2 * BF)' => Behind' = <<>>
<1>1. /\ nv = "none" /\ cur > 0 /\ volumes \in Seq(Seq(Block)) /\ Len(volumes) \in Nat
      /\ Len(volumes) >= 1 /\ BF \in Nat /\ Mounted \in Seq(Block) /\ Len(Mounted) \in Nat
      /\ cur \in Nat /\ status \in Nat /\ BF > 0
  BY GivenTypes DEF ChangeVolume, FlushPoint, Typed
<1>2. cur < BF /\ Len(Mounted) \in {0, BF} /\ Len(Mounted) + cur <= BF + 2
  BY <1>1 DEF Ends, Level
<1>3. Len(volumes') = Len(volumes) + 1  BY VolumeAdded
<1>4. Len(volumes'[Len(volumes)]) = Len(Mounted) + status
  <2> DEFINE s == Slice(record, 0, status)
             w == Mounted \o s
             full == [volumes EXCEPT ![Len(volumes)] = w]
  <2>1. record \in [Slots -> Block] /\ status \in 0 .. BF  BY <1>1 DEF Typed
  <2>2. s \in Seq(Block) /\ Len(s) = status  BY <2>1, SliceOf
  <2>3. volumes' = Append(full, <<>>)  BY DEF ChangeVolume, Mounted
  <2> HIDE DEF s
  <2>4. w \in Seq(Block) /\ Len(w) = Len(Mounted) + status  
    BY <1>1, <2>2, ConcatProperties
  <2> HIDE DEF w
  <2>5. full \in Seq(Seq(Block)) /\ Len(full) = Len(volumes) /\ full[Len(volumes)] = w
    BY <1>1, <2>4
  <2> HIDE DEF full
  <2>6. volumes'[Len(volumes)] = w
    <3>1. Len(volumes) \in 1 .. Len(full) /\ <<>> \in Seq(Block)  BY <1>1, <2>5
    <3>2. Append(full, <<>>)[Len(volumes)] = full[Len(volumes)]  BY <2>5, <3>1
    <3> QED  BY <2>3, <2>5, <3>2
  <2> QED  BY <2>4, <2>6
<1>5. Len(volumes) \in 1 .. Len(volumes') - 1  BY <1>1, <1>3
<1>6. \A n : EachTook(n)' => Len(Mounted) + status >= n
  BY <1>4, <1>5 DEF EachTook
<1>7. ~ EachTook(2 * BF)'
  <2>1. ~ Len(Mounted) + status >= 2 * BF  BY <1>1, <1>2
  <2> QED  BY <2>1, <1>6
<1>8. CASE Len(Mounted) = 0
  <2>1. ~ Len(Mounted) + status >= BF  BY <1>1, <1>8
  <2> QED  BY <2>1, <1>6, <1>7
<1>9. CASE Len(Mounted) = BF
  <2>1. cur - status <= 2 /\ cur - status \in Nat  BY <1>1, <1>2, <1>9
  <2>2. from = to  BY <1>1 DEF Levels, Stopped, ChangeVolume, FlushPoint
  <2>3. Len(Behind') \in 0 .. cur - status  BY <2>2, ChangeCarried
  <2>4. \A l \in 0 .. cur - status : l <= 2  BY <2>1
  <2> QED  BY <2>3, <2>4, <1>7
<1> QED  BY <1>2, <1>8, <1>9

(* Meanwhile no volume ends.                                               *)
LEMMA SameVolumes ==
  ASSUME Typed, volumes' = volumes \/ WriteRecord
  PROVE  \A n : EachTook(n)' <=> EachTook(n)
<1>1. Len(volumes') = Len(volumes) /\ \A v \in 1 .. Len(volumes) - 1 : volumes'[v] = volumes[v]
  BY RecordWritten
<1> QED  BY <1>1 DEF EachTook

LEMMA ClosedWritten ==
  ASSUME Typed, Place, Content, Levels, Ends, Close, EachTook(BF)
  PROVE  \E z \in Nat : OnVolumes = Cat(Dumped[Len(Files)], Zeros(z))
<1>1. nv = "none" /\ pc \in {"close2", "closed"} /\ (pc = "closed" \/ cur = 0)
  BY DEF Close
<1>2. PICK z \in Nat : Carried = Cat(Expected, Zeros(z)) /\ z >= 2
  BY <1>1 DEF Content, Marks, Stopped, Closing
<1>3. Expected = Dumped[Len(Files)] /\ Expected \in Seq(Block)
  BY <1>1, ExpectedType DEF Content, Stopped, Closing, Expected, InMember
<1>4. OnVolumes \in Seq(Block) /\ Behind \in Seq(Block) /\ Carried = Cat(OnVolumes, Behind)
  BY CarriedTypes DEF Carried
<1>5. Len(Behind) <= 2
  <2>1. CASE pc = "closed"  BY <2>1 DEF Ends
  <2>2. CASE cur = 0
    <3>1. from = to  BY <1>1 DEF Levels, Stopped
    <3>2. Slice(record, 0, 0) = <<>>  BY SliceNone
    <3>3. InRecord = <<>>  BY <2>2, <3>2, PayloadEmpty DEF InRecord
    <3>4. Behind = <<>>  BY <3>1, <3>3, CarriedTypes
    <3>5. Len(<<>>) <= 2  OBVIOUS
    <3> QED  BY <3>4, <3>5
  <2> QED  BY <1>1, <2>1, <2>2
<1>6. Len(Behind) <= z
  <2>1. Len(Behind) \in Nat  BY <1>4
  <2> QED  BY <1>2, <1>5, <2>1
<1>7. Cat(OnVolumes, Behind) = Cat(Expected, Zeros(z))  BY <1>2, <1>4
<1> QED  BY <1>3, <1>4, <1>6, <1>7, WithoutEnd

LEMMA EndsNext ==
  ASSUME Typed, Typed', Place, Told, Told', Content, Levels, Ends, [Next]_vars
  PROVE  Ends'
<1>0. /\ BF \in Nat /\ BF > 0 /\ Len(Mounted) \in Nat /\ cur \in 0 .. BF
  <2>1. BF \in Nat /\ BF > 0 /\ Len(Mounted) \in Nat  BY GivenTypes
  <2>2. cur \in 0 .. BF  BY DEF Typed
  <2> QED  BY <2>1, <2>2
<1>1. CASE Dump /\ ~ Eot2 /\ ~ Close
  <2>1. pc' \notin {"close1", "close2", "closed", "done"}
    BY <1>1 DEF Dump, WriteLabel, NextMember, WriteHeader, SizeLeft, FillFull, FillShort, ReadError,
       Pad, EndMember, StartEot, Eot1
  <2> QED  BY <2>1 DEF Ends, Closing
<1>2. CASE Eot2
  <2>1. pc' = "close1" /\ record' = ZeroFrom(record, cur) /\ cur' = cur + 1
    BY <1>2 DEF Eot2
  <2>2. \A i \in cur' .. BF - 1 : record'[i] = Zero
    <3> TAKE i \in cur' .. BF - 1
    <3>1. i \in Slots /\ ~ i < cur  BY <1>0, <2>1 DEF Slots
    <3> QED  BY <2>1, <3>1 DEF ZeroFrom
  <2>3. ZerosFollow' /\ cur' > 0  BY <1>0, <2>1, <2>2 DEF ZerosFollow
  <2> QED  BY <2>1, <2>3 DEF Ends
<1>3. CASE Close
  <2>1. pc' = "done" /\ UNCHANGED <<volumes, size>>  BY <1>3 DEF Close, given
  <2>2. EachTook(BF)' => EachTook(BF)  BY <2>1 DEF EachTook
  <2>3. OnVolumes' = OnVolumes /\ Dumped' = Dumped
    BY <2>1 DEF OnVolumes, Dumped, Whole
  <2>4. EachTook(BF) => \E z \in Nat : OnVolumes = Cat(Dumped[Len(Files)], Zeros(z))
    BY <1>3, ClosedWritten
  <2> QED  BY <2>1, <2>2, <2>3, <2>4 DEF Ends, Closing
<1>4. CASE FlushWhole
  <2>1. FlushPoint /\ nv = "none" /\ pc' = AfterFlush(pc) /\ cur' = 0
    BY <1>4 DEF FlushWhole, FlushPoint
  <2>2. from = to /\ Padded
    BY <2>1, PointIsPadded DEF Levels, Stopped, FlushPoint
  <2>3. Behind' = <<>>  BY <1>4, <2>2, FlushCarried
  <2>4. pc' # "close1" /\ pc' # "done"  BY <2>1 DEF AfterFlush, FlushPoint
  <2>5. ZerosFollow' /\ ~ cur' > 0  BY <2>1 DEF ZerosFollow
  <2>6. Len(<<>>) <= 2  OBVIOUS
  <2> QED  BY <2>3, <2>4, <2>5, <2>6 DEF Ends
<1>5. CASE FlushFatal \/ NoMoreVolumes \/ SimpleFlushFatal
  BY <1>5 DEF FlushFatal, NoMoreVolumes, SimpleFlushFatal, Ends, Closing
<1>6. CASE \E status \in 0 .. BF - 1 : ChangeVolume(status)
  <2> PICK status \in 0 .. BF - 1 : ChangeVolume(status)  BY <1>6
  <2>1. /\ nv' # "none" /\ FlushPoint
        /\ pc' = IF status > cur THEN "undefined" ELSE AfterFlush(pc)
    BY DEF ChangeVolume
  <2>2. pc' # "close1" /\ pc' # "done"  BY <2>1 DEF AfterFlush, FlushPoint
  <2>3. pc' = "closed" => pc = "close2" /\ status <= cur
    BY <1>0, <2>1 DEF AfterFlush, FlushPoint
  <2>4. pc' = "closed" => /\ EachTook(BF)' => Len(Behind') <= 2
                          /\ EachTook(2 * BF)' => Behind' = <<>>
    BY <2>3, LastChange
  <2> QED  BY <2>1, <2>2, <2>4 DEF Ends
<1>7. CASE SimpleFlushWrite \/ AddVolumeLabel \/ AddMultiVolumeHeader \/ CopyChunk
  <2>1. /\ pc' = pc /\ nv # "none" /\ pc \notin {"fatal", "undefined"}
        /\ volumes' = volumes \/ WriteRecord
    BY <1>7 DEF SimpleFlushWrite, AddVolumeLabel, AddMultiVolumeHeader, CopyChunk, Changing
  <2>2. pc \notin {"close1", "done"} /\ from <= to  BY <2>1 DEF Told, Stopped
  <2>3. nv' # "none"
    BY <1>7, <2>1 DEF SimpleFlushWrite, AddVolumeLabel, AddMultiVolumeHeader, CopyChunk
  <2>4. \A n : EachTook(n)' <=> EachTook(n)  BY <2>1, SameVolumes
  <2>5. /\ Len(Behind) <= 2 => Len(Behind') <= 2
        /\ Behind = <<>> => Behind' = <<>>
    <3>1. CASE SimpleFlushWrite
      <4>1. Behind' = Uncopied  BY <3>1, SimpleFlushCarried
      <4>2. InRecord \in Seq(Block) /\ Uncopied \in Seq(Block) /\ Behind = Cat(InRecord, Uncopied)
        BY CarriedTypes DEF Behind
      <4>3. Len(Behind) = Len(InRecord) + Len(Uncopied)  BY <4>2, CatElements
      <4>4. Len(InRecord) \in Nat /\ Len(Uncopied) \in Nat /\ (Len(Uncopied) = 0 => Uncopied = <<>>)
        BY <4>2
      <4>5. Len(Behind) <= 2 => Len(Uncopied) <= 2  BY <4>3, <4>4
      <4>6. Behind = <<>> => Uncopied = <<>>
        <5>1. Behind = <<>> => Len(Behind) = 0  OBVIOUS
        <5>2. Len(Behind) = 0 => Len(Uncopied) = 0  BY <4>3, <4>4
        <5> QED  BY <4>4, <5>1, <5>2
      <4> QED  BY <4>1, <4>5, <4>6
    <3>2. CASE AddVolumeLabel \/ AddMultiVolumeHeader  BY <3>2, AddedCarried
    <3>3. CASE CopyChunk  BY <3>3, <2>2, CopyCarried
    <3> QED  BY <1>7, <3>1, <3>2, <3>3
  <2> QED  BY <2>1, <2>2, <2>3, <2>4, <2>5 DEF Ends
<1>8. CASE VolumeChanged
  <2>1. /\ nv = "done" /\ pc' = pc /\ pc \notin {"fatal", "undefined"} /\ cur < BF
        /\ UNCHANGED <<volumes, record, cur, other, from, to>>
    BY <1>8 DEF VolumeChanged, Changing
  <2>2. pc \notin {"close1", "done"} /\ ~ Stopped  BY <2>1 DEF Told, Stopped
  <2>3. from = to /\ Level <= 2 + to /\ ZerosFollow /\ Len(Mounted) \in {0, BF, 2 * BF, 3 * BF}
    BY <2>1, <2>2 DEF Levels
  <2>4. Mounted' = Mounted /\ Level' = Level /\ (ZerosFollow' <=> ZerosFollow)
    BY <2>1 DEF Mounted, Level, ZerosFollow
  <2>5. cur > 0 => Len(Mounted) \in {0, BF} /\ Level <= BF + 2
    <3>1. to \in 0 .. BF /\ Level = Len(Mounted) + cur  BY DEF Typed, Level
    <3> QED  BY <1>0, <2>1, <2>3, <3>1
  <2>6. Behind' = Behind  BY <2>1, NothingCarried
  <2>7. \A n : EachTook(n)' <=> EachTook(n)  BY <2>1, SameVolumes
  <2>8. cur' = cur /\ cur < BF  BY <2>1
  <2> QED  BY <2>1, <2>2, <2>3, <2>4, <2>5, <2>6, <2>7, <2>8 DEF Ends
<1>9. CASE UNCHANGED vars
  <2>1. UNCHANGED <<volumes, record, cur, other, from, to, nv, pc, size>>
    BY <1>9 DEF vars, given, device, buffer, dump
  <2>2. Behind' = Behind /\ OnVolumes' = OnVolumes  BY <2>1, NothingCarried
  <2>3. Mounted' = Mounted /\ Level' = Level /\ (ZerosFollow' <=> ZerosFollow) /\ Dumped' = Dumped
    BY <2>1 DEF Mounted, Level, ZerosFollow, Dumped, Whole
  <2>4. \A n : EachTook(n)' <=> EachTook(n)  BY <2>1, SameVolumes
  <2> QED  BY <2>1, <2>2, <2>3, <2>4 DEF Ends, Closing
<1> QED  BY <1>1, <1>2, <1>3, <1>4, <1>5, <1>6, <1>7, <1>8, <1>9
         DEF Next, Dump, FlushWrite, VolumeChange

(* What is expected changes as the members are taken and dumped.           *)
LEMMA ExpectedSame ==
  ASSUME UNCHANGED <<size, todo, left>>, (pc' = "header") <=> (pc = "header"),
         InMember' <=> InMember
  PROVE  Expected' = Expected
<1>1. Dumped' = Dumped  BY DEF Dumped, Whole
<1>2. current' = current  BY DEF current
<1>3. Begun(todo, size[current] - left)' = Begun(todo, size[current] - left)
  BY <1>1, <1>2 DEF Begun, HeaderOf
<1> QED  BY <1>1, <1>3 DEF Expected

LEMMA ExpectedTaken ==
  ASSUME Typed, NextMember
  PROVE  Expected' = Expected
<1>1. pc = "next" /\ pc' = "header" /\ todo' = todo + 1 /\ size' = size /\ todo \in Nat
  BY GivenTypes DEF NextMember, given, Typed
<1>2. Dumped' = Dumped  BY <1>1 DEF Dumped, Whole
<1>3. Expected = Dumped[todo]  BY <1>1 DEF Expected, InMember
<1>4. Expected' = Dumped'[todo' - 1]  BY <1>1 DEF Expected
<1>5. todo' - 1 = todo  BY <1>1
<1> QED  BY <1>2, <1>3, <1>4, <1>5

LEMMA ExpectedHeader ==
  ASSUME Typed, Place, WriteHeader
  PROVE  Expected' = Cat(Expected, HeaderOf(current))
<1>1. /\ pc = "header" /\ pc' = "data" /\ UNCHANGED <<size, todo>> /\ left' = size[current]
  BY DEF WriteHeader, given
<1>2. size \in [Names -> Nat] /\ todo \in 1 .. Len(Files)
  BY <1>1, FilesAreNames DEF Typed, Place
<1>3. Dumped' = Dumped  BY <1>1 DEF Dumped, Whole
<1>4. current' = current  BY <1>1 DEF current
<1>5. size[current] \in Nat  BY <1>2, GivenTypes
<1>6. size'[current'] - left' = 0  BY <1>1, <1>4, <1>5
<1>7. Expected' = Begun(todo, 0)
  <2>1. Expected' = Begun(todo, size[current] - left)'  BY <1>1 DEF Expected, InMember
  <2>2. Begun(todo, size[current] - left)' = Begun(todo, 0)
    BY <1>1, <1>3, <1>6 DEF Begun, HeaderOf
  <2> QED  BY <2>1, <2>2
<1>8. Expected = Dumped[todo - 1]  BY <1>1 DEF Expected
<1> QED  BY <1>2, <1>7, <1>8, BegunStarts DEF current

LEMMA ExpectedData ==
  ASSUME Typed, Place, pc \in {"fill", "padfill"}, pc' \in {"data", "pad"},
         UNCHANGED <<size, todo>>, NEW n \in 1 .. left, left' = left - n
  PROVE  Expected' = Cat(Expected, DataFrom(current, size[current] - left, n))
<1>1. /\ size \in [Names -> Nat] /\ todo \in 1 .. Len(Files) /\ left \in Nat
      /\ left <= size[current]
  BY FilesAreNames DEF Typed, Place, InMember
<1>2. size[current] \in Nat /\ n \in Nat  BY <1>1, GivenTypes
<1> DEFINE k == size[current] - left
<1>3. k \in Nat /\ size[current] - (left - n) = k + n  BY <1>1, <1>2
<1>4. Dumped' = Dumped /\ current' = current  BY DEF Dumped, Whole, current
<1>5. Expected' = Begun(todo, k + n)
  <2>1. Expected' = Begun(todo, size[current] - left)'  BY DEF Expected, InMember
  <2>2. size'[current'] - left' = k + n  BY <1>3, <1>4
  <2> HIDE DEF k
  <2>3. Begun(todo, size[current] - left)' = Begun(todo, k + n)
    BY <1>4, <2>2 DEF Begun, HeaderOf
  <2> QED  BY <2>1, <2>3
<1>6. Expected = Begun(todo, k)  BY DEF Expected, InMember
<1> HIDE DEF k
<1>7. Begun(todo, k + n) = Cat(Begun(todo, k), DataFrom(current, k, n))
  BY <1>1, <1>2, <1>3, BegunGrows DEF current
<1> QED  BY <1>5, <1>6, <1>7 DEF k

LEMMA ExpectedEnds ==
  ASSUME Typed, Place, EndMember
  PROVE  Expected' = Expected
<1>1. /\ pc \in {"data", "pad"} /\ left = 0 /\ pc' = "next" /\ UNCHANGED <<size, todo>>
  BY DEF EndMember, given
<1>2. size \in [Names -> Nat] /\ todo \in 1 .. Len(Files)
  BY <1>1, FilesAreNames DEF Typed, Place, InMember
<1>3. size[current] \in Nat  BY <1>2, GivenTypes
<1>4. size[current] - left = size[Files[todo]]  BY <1>1, <1>3 DEF current
<1>5. Expected = Begun(todo, size[Files[todo]])  BY <1>1, <1>4 DEF Expected, InMember
<1>6. Dumped' = Dumped  BY <1>1 DEF Dumped, Whole
<1>7. Expected' = Dumped[todo]  BY <1>1, <1>6 DEF Expected, InMember
<1> QED  BY <1>2, <1>5, <1>7, BegunEnds
-----------------------------------------------------------------------------
(* What a step does to the archive.                                        *)
Extends ==
  \/ Carried' = Carried
  \/ /\ pc = "header" /\ Carried' = Cat(Carried, HeaderOf(current))
  \/ /\ pc \in {"fill", "padfill"}
     /\ \E n \in 1 .. left : Carried' = Cat(Carried, DataFrom(current, size[current] - left, n))
  \/ /\ pc \in {"eot1", "eot2"} \/ Closing
     /\ \E n \in Nat : Carried' = Cat(Carried, Zeros(n))

LEMMA PlainNow ==
  ASSUME Typed, Place, Content, ~ Stopped, ~ Closing, pc # "eot2"
  PROVE  Carried = Expected
<1>1. PICK z \in Nat : Marks(z)  BY DEF Content
<1>2. z = 0 /\ Carried = Cat(Expected, Zeros(z))  BY <1>1 DEF Marks
<1> QED  BY <1>2, ExpectedType, ZerosFew, CatEmpty

LEMMA PlainNext ==
  ASSUME Typed', Carried' = Expected', ~ Closing', pc' # "eot2",
         pc' = "eot1" => todo' = Len(Files)
  PROVE  Content'
<1>1. Carried' \in Seq(Block)
  <2>1. FlattenSeq(volumes') \in Seq(Block)  BY FlattenType DEF Typed
  <2>2. Slice(record', 0, cur') \in Seq(Block)  BY SliceOf DEF Typed
  <2>3. ToCopy' \in Seq(Block)
    <3>1. CASE from' <= to'
      <4> DEFINE f == from'
                 t == to'
                 o == other'
      <4>1. f \in 0 .. BF /\ t \in 0 .. BF /\ o \in [Slots -> Block]  BY DEF Typed
      <4>2. f <= t  BY <3>1
      <4>3. ToCopy' = Slice(o, f, t - f)  BY <3>1 DEF ToCopy
      <4> HIDE DEF f, t, o
      <4>4. f \in Nat /\ t - f \in Nat /\ f + (t - f) <= BF
        BY <4>1, <4>2, WriterAssumption
      <4> QED  BY <4>1, <4>3, <4>4, SliceType
    <3>2. CASE ~ from' <= to'  BY <3>2 DEF ToCopy
    <3> QED  BY <3>1, <3>2
  <2>4. OnVolumes' \in Seq(Block) /\ InRecord' \in Seq(Block) /\ Uncopied' \in Seq(Block)
    BY <2>1, <2>2, <2>3, PayloadType DEF OnVolumes, InRecord, Uncopied
  <2> QED  BY <2>4, CatType DEF Carried, Behind
<1>2. Cat(Expected', Zeros(0)) = Expected'  BY <1>1, ZerosFew, CatEmpty
<1>3. Marks(0)'  BY <1>2 DEF Marks
<1>4. \E z \in Nat : Marks(z)'  BY <1>3
<1>5. pc' \in {"eot1", "eot2"} \/ Closing' => todo' = Len(Files)  OBVIOUS
<1> QED  BY <1>4, <1>5 DEF Content

LEMMA SameMarks ==
  ASSUME Content, ~ Stopped, Carried' = Carried, Expected' = Expected, todo' = todo,
         Closing' <=> Closing, (pc' = "eot2") <=> (pc = "eot2"),
         (pc' = "eot1") <=> (pc = "eot1")
  PROVE  Content'
<1>1. PICK z \in Nat : Marks(z)  BY DEF Content
<1>2. Marks(z)'  BY <1>1 DEF Marks
<1> QED  BY <1>2 DEF Content

(* No read finds a file shrunk to nothing: the chunk of FillShort would    *)
(* then be lost (create.c:964, 979).                                       *)
NoneShort == \A s \in Settings : 0 \notin s.short_counts

LEMMA ContentInit == Init => Content
<1> SUFFICES ASSUME Init  PROVE  Content  OBVIOUS
<1>1. /\ volumes = << <<>> >> /\ cur = 0 /\ from = 0 /\ to = 0 /\ todo = 0
      /\ pc \in {"label", "next"} /\ Typed
  BY InitInv DEF Init
<1>2. OnVolumes = <<>>
  <2>1. PICK f : Joins(f, volumes, Len(volumes)) /\ FlattenSeq(volumes) = f[Len(volumes)]
    BY <1>1, FlattenJoins DEF Typed
  <2>2. Len(volumes) = 1 /\ volumes[1] = <<>> /\ 1 \in 1 .. 1  BY <1>1
  <2>3. f[0] = <<>> /\ f[1] = f[1 - 1] \o volumes[1]
    BY <2>1, <2>2 DEF Joins
  <2>4. f[1] = <<>>  BY <2>2, <2>3
  <2> QED  BY <2>1, <2>2, <2>4, PayloadEmpty DEF OnVolumes
<1>3. InRecord = <<>>
  <2>1. Slice(record, 0, 0) = <<>>  BY SliceNone
  <2> QED  BY <1>1, <2>1, PayloadEmpty DEF InRecord
<1>4. Uncopied = <<>>  BY <1>1, CarriedTypes
<1>5. Carried = <<>>
  <2>1. <<>> \in Seq(Block)  OBVIOUS
  <2> QED  BY <1>2, <1>3, <1>4, <2>1, CatEmpty DEF Carried, Behind
<1>6. Expected = <<>>  BY <1>1, DumpedSteps DEF Expected, InMember, Typed
<1>7. Cat(Expected, Zeros(0)) = <<>>
  <2>1. <<>> \in Seq(Block)  OBVIOUS
  <2> QED  BY <1>6, <2>1, ZerosFew, CatEmpty
<1>8. Marks(0)  BY <1>1, <1>5, <1>7 DEF Marks, Closing
<1> QED  BY <1>1, <1>8 DEF Content, Closing

LEMMA ContentNext ==
  ASSUME NoneShort, Typed, Typed', Place, Told, Told', Content, Levels, Ends, [Next]_vars
  PROVE  Content' /\ Extends
<1>0. /\ BF \in Nat /\ BF > 0 /\ cur \in 0 .. BF /\ from \in 0 .. BF /\ to \in 0 .. BF
  <2>1. BF \in Nat /\ BF > 0  BY GivenTypes
  <2> QED  BY <2>1 DEF Typed
<1>p. ASSUME Carried' = Carried, Expected' = Expected, ~ Stopped, ~ Closing, pc # "eot2",
             ~ Closing', pc' # "eot2", pc' = "eot1" => todo' = Len(Files)
      PROVE  Content' /\ Extends
  BY <1>p, PlainNow, PlainNext DEF Extends
<1>1. CASE WriteLabel
  <2>1. /\ pc = "label" /\ pc' = "next" /\ UNCHANGED <<size, todo, left>> /\ from = to
    BY <1>1 DEF WriteLabel, HasRoom, given, Levels, Stopped
  <2>2. Carried' = Carried  BY <1>1, <2>1, LabelCarried
  <2>3. Expected' = Expected  BY <2>1, ExpectedSame DEF InMember
  <2> QED  BY <2>1, <2>2, <2>3, <1>p DEF Stopped, Closing
<1>2. CASE NextMember
  <2>1. pc = "next" /\ pc' = "header"  BY <1>2 DEF NextMember
  <2>2. Carried' = Carried  BY <1>2, NothingCarried DEF NextMember, buffer
  <2>3. Expected' = Expected  BY <1>2, ExpectedTaken
  <2> QED  BY <2>1, <2>2, <2>3, <1>p DEF Stopped, Closing
<1>3. CASE WriteHeader
  <2>1. pc = "header" /\ pc' = "data" /\ from = to
    BY <1>3 DEF WriteHeader, HasRoom, Levels, Stopped
  <2>2. Carried' = Cat(Carried, HeaderOf(current))  BY <1>3, <2>1, HeaderCarried
  <2>3. Expected' = Cat(Expected, HeaderOf(current))  BY <1>3, ExpectedHeader
  <2>4. Carried = Expected  BY <2>1, PlainNow DEF Stopped, Closing
  <2>5. Content'  BY <2>1, <2>2, <2>3, <2>4, PlainNext DEF Closing
  <2> QED  BY <2>1, <2>2, <2>5 DEF Extends
<1>4. CASE SizeLeft \/ ReadError
  <2>1. /\ pc \in {"data", "fill", "pad"} /\ pc' \in {"pad", "fill", "padfill"}
        /\ UNCHANGED <<size, todo, left>> /\ UNCHANGED <<volumes, record, cur, other, from, to>>
    BY <1>4 DEF SizeLeft, ReadError, given, buffer
  <2>2. Carried' = Carried  BY <2>1, NothingCarried
  <2>3. Expected' = Expected  BY <2>1, ExpectedSame DEF InMember
  <2> QED  BY <2>1, <2>2, <2>3, <1>p DEF Stopped, Closing
<1>d. ASSUME pc \in {"fill", "padfill"}, pc' \in {"data", "pad"}, UNCHANGED <<size, todo>>,
             NEW n \in 1 .. left, left' = left - n,
             Carried' = Cat(Carried, DataFrom(current, size[current] - left, n))
      PROVE  Content' /\ Extends
  <2>1. Expected' = Cat(Expected, DataFrom(current, size[current] - left, n))
    BY <1>d, ExpectedData
  <2>2. Carried = Expected  BY <1>d, PlainNow DEF Stopped, Closing
  <2>3. Content'  BY <1>d, <2>1, <2>2, PlainNext DEF Closing
  <2> QED  BY <1>d, <2>3 DEF Extends
<1>5. CASE FillFull \/ \E count \in ShortCounts : FillShort(count)
  <2>1. /\ pc = "fill" /\ nv = "none" /\ cur < BF /\ pc' \in {"data", "pad"}
        /\ FillData(Chunk) /\ left' = left - Chunk
        /\ UNCHANGED <<size, todo, volumes, other, from, to>>
    BY <1>5 DEF FillFull, FillShort, PadAfter, HasRoom, given
  <2>2. cur' = cur + Chunk
    <3>1. CASE FillFull  BY <3>1 DEF FillFull
    <3>2. CASE \E count \in ShortCounts : FillShort(count)
      <4>1. PICK count \in ShortCounts : FillShort(count)  BY <3>2
      <4>2. 0 \notin ShortCounts /\ ShortCounts \subseteq 0 .. BF - 1
        BY GivenTypes DEF NoneShort, Typed, ShortCounts
      <4>3. count > 0  BY <4>1, <4>2, <1>0
      <4> QED  BY <4>1, <4>3 DEF FillShort
    <3> QED  BY <1>5, <3>1, <3>2
  <2>3. from = to  BY <2>1 DEF Levels, Stopped
  <2>4. Chunk \in 1 .. left  BY <2>1, ChunkIs
  <2>5. Carried' = Cat(Carried, DataFrom(current, size[current] - left, Chunk))
    BY <2>1, <2>2, <2>3, ChunkCarried
  <2> QED  BY <2>1, <2>4, <2>5, <1>d
<1>6. CASE Pad
  <2>1. /\ pc = "padfill" /\ nv = "none" /\ cur < BF /\ pc' = "pad" /\ left' = left - 1
        /\ UNCHANGED <<size, todo>>
    BY <1>6 DEF Pad, HasRoom, given
  <2>2. from = to  BY <2>1 DEF Levels, Stopped
  <2>3. left \in Nat /\ left > 0  BY <2>1 DEF Place, Typed
  <2>4. 1 \in 1 .. left  BY <2>3
  <2>5. Carried' = Cat(Carried, DataFrom(current, size[current] - left, 1))
    BY <1>6, <2>2, PadCarried
  <2> QED  BY <2>1, <2>4, <2>5, <1>d
<1>7. CASE EndMember
  <2>1. pc \in {"data", "pad"} /\ pc' = "next"  BY <1>7 DEF EndMember
  <2>2. Carried' = Carried  BY <1>7, NothingCarried DEF EndMember, buffer
  <2>3. Expected' = Expected  BY <1>7, ExpectedEnds
  <2> QED  BY <2>1, <2>2, <2>3, <1>p DEF Stopped, Closing
<1>8. CASE StartEot
  <2>1. /\ pc = "next" /\ pc' = "eot1" /\ todo = Len(Files) /\ UNCHANGED <<size, todo, left>>
    BY <1>8 DEF StartEot, given
  <2>2. Carried' = Carried  BY <1>8, NothingCarried DEF StartEot, buffer
  <2>3. Expected' = Expected  BY <2>1, ExpectedSame DEF InMember
  <2> QED  BY <2>1, <2>2, <2>3, <1>p DEF Stopped, Closing
<1>9. CASE Eot1 \/ Eot2
  <2>1. /\ pc \in {"eot1", "eot2"} /\ nv = "none" /\ UNCHANGED <<size, todo, left>>
        /\ pc' = IF pc = "eot1" THEN "eot2" ELSE "close1"
    BY <1>9 DEF Eot1, Eot2, HasRoom, given
  <2>2. from = to /\ ~ Stopped /\ ~ Closing  BY <2>1 DEF Levels, Stopped, Closing
  <2>3. Carried' = Cat(Carried, Zeros(1))  BY <1>9, <2>2, ZeroCarried
  <2>4. Expected' = Expected  BY <2>1, ExpectedSame DEF InMember
  <2>5. PICK z \in Nat : Marks(z)  BY <2>2 DEF Content
  <2>6. Carried = Cat(Expected, Zeros(z)) /\ z = IF pc = "eot2" THEN 1 ELSE 0
    BY <2>2, <2>5 DEF Marks
  <2>7. Expected \in Seq(Block) /\ Zeros(z) \in Seq(Block) /\ Zeros(1) \in Seq(Block)
        /\ Cat(Zeros(z), Zeros(1)) = Zeros(z + 1) /\ z + 1 \in Nat
    <3>1. 1 \in Nat /\ z + 1 \in Nat  OBVIOUS
    <3> QED  BY <3>1, ExpectedType, ZerosType, ZerosJoin
  <2>8. Carried' = Cat(Expected', Zeros(z + 1))
    BY <2>3, <2>4, <2>6, <2>7, CatAssociative
  <2>9. z + 1 >= 2 \/ pc # "eot2"  BY <2>6
  <2>10. Marks(z + 1)'
    <3>1. CASE pc = "eot1"
      <4>1. pc' = "eot2" /\ z + 1 = 1  BY <2>1, <2>6, <3>1
      <4> QED  BY <2>8, <4>1 DEF Marks, Closing
    <3>2. CASE pc = "eot2"
      <4>1. pc' = "close1" /\ z + 1 >= 2  BY <2>1, <2>6, <3>2
      <4> QED  BY <2>8, <4>1 DEF Marks, Closing
    <3> QED  BY <2>1, <3>1, <3>2
  <2>11. todo' = Len(Files)  BY <2>1, <2>2 DEF Content
  <2>12. Content'  BY <2>7, <2>10, <2>11 DEF Content
  <2>13. Extends  BY <2>1, <2>3 DEF Extends
  <2> QED  BY <2>12, <2>13
<1>10. CASE FlushWhole
  <2>1. /\ FlushPoint /\ nv = "none" /\ pc' = AfterFlush(pc) /\ UNCHANGED <<size, todo, left>>
    BY <1>10 DEF FlushWhole, FlushPoint, given
  <2>2. from = to /\ Padded /\ ~ Stopped
    BY <2>1, PointIsPadded DEF Levels, Stopped, FlushPoint
  <2> DEFINE n == BF - cur
  <2>3. Carried' = Cat(Carried, Zeros(n)) /\ n \in Nat  BY <1>10, <2>2, FlushCarried
  <2>4. Expected' = Expected
    <3>1. (pc' = "header") <=> (pc = "header")  BY <2>1 DEF AfterFlush, FlushPoint
    <3>2. InMember' <=> InMember  BY <2>1 DEF AfterFlush, FlushPoint, InMember
    <3> QED  BY <2>1, <3>1, <3>2, ExpectedSame
  <2>5. CASE Closing
    <3>1. PICK z \in Nat : Marks(z)  BY <2>2 DEF Content
    <3>2. Carried = Cat(Expected, Zeros(z)) /\ z >= 2  BY <2>5, <3>1 DEF Marks
    <3> HIDE DEF n
    <3>3. /\ Expected \in Seq(Block) /\ Zeros(z) \in Seq(Block) /\ Zeros(n) \in Seq(Block)
          /\ Cat(Zeros(z), Zeros(n)) = Zeros(z + n) /\ z + n \in Nat /\ z + n >= 2
      <4>1. z + n \in Nat /\ z + n >= 2  BY <2>3, <3>2
      <4> QED  BY <2>3, <4>1, ExpectedType, ZerosType, ZerosJoin
    <3>4. Carried' = Cat(Expected', Zeros(z + n))
      BY <2>3, <2>4, <3>2, <3>3, CatAssociative
    <3>5. Closing'  BY <2>1, <2>5 DEF Closing, AfterFlush, FlushPoint
    <3>a. PICK y \in Nat : y = z + n  BY <3>3
    <3>6. Marks(y)'  BY <3>3, <3>4, <3>5, <3>a DEF Marks
    <3>7. todo' = Len(Files)  BY <2>1, <2>2, <2>5 DEF Content
    <3>8. Content'  BY <3>6, <3>7 DEF Content
    <3>9. Extends  BY <2>3, <2>5 DEF Extends
    <3> QED  BY <3>8, <3>9
  <2>6. CASE ~ Closing
    <3>1. pc' = pc /\ cur = BF  BY <2>1, <2>6 DEF AfterFlush, FlushPoint, Closing
    <3>2. n = 0  BY <1>0, <3>1
    <3>3. Carried \in Seq(Block)  BY CarriedTypes
    <3>4. Carried' = Carried  BY <2>3, <3>2, <3>3, ZerosFew, CatEmpty
    <3>5. Closing' <=> Closing  BY <3>1 DEF Closing
    <3>6. Content'  BY <2>1, <2>2, <2>4, <3>1, <3>4, <3>5, SameMarks
    <3> QED  BY <3>4, <3>6 DEF Extends
  <2> QED  BY <2>5, <2>6
<1>11. CASE FlushFatal \/ NoMoreVolumes \/ SimpleFlushFatal \/ Close
  <2>1. pc' \in {"fatal", "done"} /\ UNCHANGED <<volumes, record, cur, other, from, to>>
    BY <1>11 DEF FlushFatal, NoMoreVolumes, SimpleFlushFatal, Close, buffer
  <2>2. Carried' = Carried  BY <2>1, NothingCarried
  <2> QED  BY <2>1, <2>2 DEF Content, Stopped, Extends
<1>12. CASE \E status \in 0 .. BF - 1 : ChangeVolume(status)
  <2> PICK status \in 0 .. BF - 1 : ChangeVolume(status)  BY <1>12
  <2>1. /\ FlushPoint /\ nv = "none" /\ UNCHANGED <<size, todo, left>>
        /\ pc' = IF status > cur THEN "undefined" ELSE AfterFlush(pc)
    BY DEF ChangeVolume, FlushPoint, given
  <2>2. from = to /\ Padded /\ ~ Stopped
    BY <2>1, PointIsPadded DEF Levels, Stopped, FlushPoint
  <2>3. CASE status > cur
    <3>1. Carried' = Cat(Carried, Zeros(status - cur)) /\ status - cur \in Nat
      BY <2>2, <2>3, UndefinedCarried
    <3>2. cur # BF  BY <1>0, <2>3
    <3>3. Closing  BY <2>1, <3>2 DEF FlushPoint, Closing
    <3>4. Stopped'  BY <2>1, <2>3 DEF Stopped
    <3> QED  BY <3>1, <3>3, <3>4 DEF Content, Extends
  <2>4. CASE status <= cur
    <3>1. Carried' = Carried  BY <2>2, <2>4, ChangeCarried
    <3>2. pc' = AfterFlush(pc)  BY <1>0, <2>1, <2>4
    <3>3. /\ Closing' <=> Closing
          /\ (pc' = "eot2") <=> (pc = "eot2")
          /\ (pc' = "eot1") <=> (pc = "eot1")
          /\ (pc' = "header") <=> (pc = "header")
          /\ InMember' <=> InMember
      BY <2>1, <3>2 DEF AfterFlush, FlushPoint, Closing, InMember
    <3>4. Expected' = Expected  BY <2>1, <3>3, ExpectedSame
    <3>5. Content'  BY <2>1, <2>2, <3>1, <3>3, <3>4, SameMarks
    <3> QED  BY <3>1, <3>5 DEF Extends
  <2> QED  BY <1>0, <2>3, <2>4
<1>13. CASE \/ SimpleFlushWrite \/ AddVolumeLabel \/ AddMultiVolumeHeader \/ CopyChunk
            \/ VolumeChanged
  <2>1. /\ pc' = pc /\ nv # "none" /\ pc \notin {"fatal", "undefined"}
        /\ UNCHANGED <<size, todo, left>>
    BY <1>13 DEF SimpleFlushWrite, AddVolumeLabel, AddMultiVolumeHeader, CopyChunk,
       VolumeChanged, Changing, given
  <2>2. ~ Stopped /\ from <= to  BY <2>1 DEF Told, Stopped
  <2>3. Carried' = Carried
    <3>1. CASE SimpleFlushWrite  BY <3>1, SimpleFlushCarried
    <3>2. CASE AddVolumeLabel \/ AddMultiVolumeHeader  BY <3>2, AddedCarried
    <3>3. CASE CopyChunk  BY <3>3, <2>2, CopyCarried
    <3>4. CASE VolumeChanged  BY <3>4, NothingCarried DEF VolumeChanged
    <3> QED  BY <1>13, <3>1, <3>2, <3>3, <3>4
  <2>4. Expected' = Expected  BY <2>1, ExpectedSame DEF InMember
  <2>5. Closing' <=> Closing  BY <2>1 DEF Closing
  <2>6. Content'  BY <2>1, <2>2, <2>3, <2>4, <2>5, SameMarks
  <2> QED  BY <2>3, <2>6 DEF Extends
<1>14. CASE UNCHANGED vars
  <2>1. UNCHANGED <<volumes, record, cur, other, from, to, pc, size, todo, left>>
    BY <1>14 DEF vars, given, device, buffer, dump
  <2>2. Carried' = Carried  BY <2>1, NothingCarried
  <2>3. Expected' = Expected  BY <2>1, ExpectedSame DEF InMember
  <2>4. (Closing' <=> Closing) /\ (Stopped' <=> Stopped)  BY <2>1 DEF Closing, Stopped
  <2>5. Content'
    <3>1. CASE Stopped  BY <2>4, <3>1 DEF Content
    <3>2. CASE ~ Stopped  BY <2>1, <2>2, <2>3, <2>4, <3>2, SameMarks
    <3> QED  BY <3>1, <3>2
  <2> QED  BY <2>2, <2>5 DEF Extends
<1> QED  BY <1>1, <1>2, <1>3, <1>4, <1>5, <1>6, <1>7, <1>8, <1>9, <1>10, <1>11, <1>12, <1>13, <1>14
         DEF Next, Dump, FlushWrite, VolumeChange

Writes == Typed /\ Place /\ Told /\ Content /\ Levels /\ Ends

LEMMA WritesInit == Init => Writes
BY InitInv, ContentInit, LevelsInit, EndsInit DEF Writes

LEMMA WritesNext ==
  ASSUME NoneShort, Writes, [Next]_vars
  PROVE  Writes' /\ Extends
<1>1. Typed' /\ Place' /\ Told'  BY TypedNext, PlaceNext, ToldNext DEF Writes
<1>2. Levels'  BY <1>1, LevelsNext DEF Writes
<1>3. Ends'  BY <1>1, EndsNext DEF Writes
<1>4. Content' /\ Extends  BY <1>1, ContentNext DEF Writes
<1> QED  BY <1>1, <1>2, <1>3, <1>4 DEF Writes

(* Nothing but NULs follows the last member.                               *)
LEMMA MembersEnd ==
  ASSUME volumes \in Seq(Seq(Block)), size \in [Names -> Nat], NEW k \in 0 .. Len(Files),
         NEW u \in Seq(Block), OnVolumes = Cat(Dumped[k], u),
         \A i \in 1 .. Len(u) : u[i] = Zero
  PROVE  MembersOf(FlattenSeq(volumes)) = Dumped[k]
<1> DEFINE K == {"header", "data"}
           P == Kinds \ {"volhdr", "multivol"}
           f == FlattenSeq(volumes)
           d == Dumped[k]
<1>2. f \in Seq(Block)  BY FlattenType
<1>3. d \in Seq(Block) /\ OnlyMembers(d)  BY DumpedSteps, DumpedOnly
<1>5. \A i \in 1 .. Len(u) : u[i].kind \notin K  BY ZeroIsBlock
<1>6. K \subseteq P  BY DEF Kinds
<1>7. OnVolumes = OfKinds(f, P)  BY DEF OnVolumes, Payload
<1>8. MembersOf(f) = OfKinds(f, K)  BY DEF MembersOf
<1>11. \A i \in 1 .. Len(d) : d[i].kind \in K  BY <1>3 DEF OnlyMembers
<1> HIDE DEF K, P, f, d
<1>9. OfKinds(OnVolumes, K) = OfKinds(f, K)  BY <1>2, <1>6, <1>7, OfKindsTwice
<1>0. OnVolumes = Cat(d, u)  BY DEF d
<1>10. OfKinds(OnVolumes, K) = Cat(OfKinds(d, K), OfKinds(u, K))
  BY <1>0, <1>3, OfKindsConcat
<1>12. OfKinds(d, K) = d  BY <1>3, <1>11, OfKindsAll
<1>13. OfKinds(u, K) = <<>>  BY <1>5, OfKindsNone
<1>14. Cat(d, <<>>) = d  BY <1>3, CatEmpty
<1>15. MembersOf(f) = d  BY <1>8, <1>9, <1>10, <1>12, <1>13, <1>14
<1> QED  BY <1>15 DEF f, d

LEMMA WritesMembers == Writes => MembersWritten
<1> SUFFICES ASSUME Writes, pc = "done", EachTook(BF)
             PROVE  MembersOf(FlattenSeq(volumes)) = Dumped[Len(Files)]
  BY DEF MembersWritten, EachTook
<1>1. PICK z \in Nat : OnVolumes = Cat(Dumped[Len(Files)], Zeros(z))  BY DEF Writes, Ends
<1>2. volumes \in Seq(Seq(Block)) /\ size \in [Names -> Nat] /\ Len(Files) \in 0 .. Len(Files)
  BY FilesAreNames DEF Writes, Typed
<1>3. Zeros(z) \in Seq(Block) /\ \A k \in 1 .. Len(Zeros(z)) : Zeros(z)[k] = Zero
  BY ZerosType
<1> QED  BY <1>1, <1>2, <1>3, MembersEnd

(* If no read finds a file shrunk to nothing and each volume but the last  *)
(* took a record, every block of every member is on the volumes when the   *)
(* archive is closed, in order and once (create.c:915-990, buffer.c:826-   *)
(* 860 and 1774-1900), whatever the blocking factor, the label, the member *)
(* sizes, and however the volumes end.                                     *)
THEOREM AllMembersWritten ==
  ASSUME NoneShort  PROVE  Spec => []MembersWritten
<1>1. Init => Writes  BY WritesInit
<1>2. Writes /\ [Next]_vars => Writes'  BY WritesNext
<1>3. Writes => MembersWritten  BY WritesMembers
<1> QED  BY <1>1, <1>2, <1>3, PTL DEF Spec
-----------------------------------------------------------------------------
(* The steps of TarArchive.                                                *)
Still == Closed = FALSE /\ Closed' = FALSE /\ size' = size

LEMMA HeaderAppended ==
  ASSUME Typed, Still, NEW n \in 1 .. Len(Files), Logical = Dumped[n - 1],
         Logical' = Cat(Logical, HeaderOf(Files[n]))
  PROVE  Archive!AppendHeader
<1>1. /\ size \in [Names -> Nat] /\ n - 1 \in 0 .. Len(Files) /\ n \in Nat /\ Len(Files) \in Nat
      /\ Files[n] \in Names
  BY FilesAreNames DEF Typed
<1>2. Logical \in Seq(Block) /\ OnlyMembers(Logical) /\ Counted(Logical, n - 1)
      /\ Lacking(Logical) = 0
  BY <1>1, DumpedSteps, DumpedOnly, DumpedCounted
<1> DEFINE taken == Archive!Cardinality(Archive!Headers(Logical))
           b == Header(Files[n], size[Files[n]])
<1>3. taken = n - 1  BY <1>2, ArchiveTerms, ArchiveCounts DEF Counted
<1>4. ~ Archive!Ended(Logical)
  <2>1. Logical = Cat(Logical, Zeros(0))  BY <1>2, ZerosFew, CatEmpty
  <2>2. 0 \in Nat  OBVIOUS
  <2>3. ~ (Logical # <<>> /\ Logical[Len(Logical)] = Zero)  BY <1>2, <2>1, <2>2, EndedByZeros
  <2> QED  BY <1>2, <2>3, ArchiveTerms
<1>5. Archive!Missing(Logical) = 0  BY <1>2, ArchiveTerms
<1>6. taken < Len(Files) /\ taken + 1 = n  BY <1>1, <1>3
<1>7. Archive!Header(Files[n], size[Files[n]]) = b  BY DEF Archive!Header, Header
<1>8. Logical' = Append(Logical, b)
  <2>1. Logical' = Cat(Logical, <<b>>)  BY DEF HeaderOf
  <2>2. b \in Block  BY <1>1, BlockTypes
  <2> HIDE DEF b
  <2>3. Cat(Logical, <<b>>) = Append(Logical, b)  BY <1>2, <2>2 DEF Cat
  <2> QED  BY <2>1, <2>3
<1> HIDE DEF b
<1>9. Logical' = Append(Logical, Archive!Header(Files[taken + 1], size[Files[taken + 1]]))
  BY <1>6, <1>7, <1>8
<1> HIDE DEF taken
<1> QED  BY <1>4, <1>5, <1>6, <1>9 DEF Archive!AppendHeader, Still, taken

LEMMA DataAppended ==
  ASSUME Typed, Still, NEW n \in 1 .. Len(Files), NEW k \in Nat, NEW m \in Nat, m > 0,
         k + m <= size[Files[n]],
         Logical = Begun(n, k), Logical' = Cat(Logical, DataFrom(Files[n], k, m))
  PROVE  \E i \in 1 .. Archive!Missing(Logical) : Archive!AppendData(i)
<1>1. size \in [Names -> Nat] /\ Files[n] \in Names /\ size[Files[n]] \in Nat
  BY FilesAreNames DEF Typed
<1>2. Logical \in Seq(Block)  BY <1>1, BegunType
<1> DEFINE h == Logical[Archive!Max(Archive!Headers(Logical))]
<1>3. Archive!Missing(Logical) = size[Files[n]] - k /\ h = Header(Files[n], size[Files[n]])
  BY <1>1, <1>2, BegunLacks, ArchiveTerms
<1>4. m \in 1 .. Archive!Missing(Logical)  BY <1>1, <1>3
<1>5. /\ h.name = Files[n] /\ h.size = size[Files[n]]
      /\ h.size - Archive!Missing(Logical) = k
  BY <1>1, <1>3 DEF Header
<1> DEFINE d == [i \in 1 .. m |->
                   Archive!Data(h.name, h.size - Archive!Missing(Logical) + i - 1)]
<1>6. d = DataFrom(Files[n], k, m)
  <2> HIDE DEF h
  <2> QED  BY <1>5 DEF DataFrom, Archive!Data, Data
<1>7. Logical' = Logical \o d  BY <1>6 DEF Cat
<1>8. Archive!AppendData(m)
  BY <1>4, <1>7 DEF Archive!AppendData, Still
<1> QED  BY <1>4, <1>8

LEMMA ZerosAppended ==
  ASSUME Typed, Still, NEW z \in Nat, NEW m \in Nat, m > 0,
         Logical = Cat(Dumped[Len(Files)], Zeros(z)), Logical' = Cat(Logical, Zeros(m))
  PROVE  \E i \in 1 .. Len(Logical') - Len(Logical) : Archive!AppendZeros(i)
<1> DEFINE d == Dumped[Len(Files)]
           a == Logical
           b == Logical'
<1>1. /\ d \in Seq(Block) /\ OnlyMembers(d) /\ Counted(d, Len(Files)) /\ Lacking(d) = 0
  <2>1. Len(Files) \in 0 .. Len(Files) /\ size \in [Names -> Nat]  BY FilesAreNames DEF Typed
  <2> QED  BY <2>1, DumpedSteps, DumpedOnly, DumpedCounted
<1>0. a = Cat(d, Zeros(z)) /\ b = Cat(a, Zeros(m))  OBVIOUS
<1> HIDE DEF d, a, b
<1>2. /\ a \in Seq(Block) /\ Heads(a) = Heads(d)
      /\ z > 0 => a # <<>> /\ a[Len(a)] = Zero
      /\ z = 0 => a = d
  BY <1>0, <1>1, EndedByZeros
<1>3. Archive!Cardinality(Archive!Headers(a)) = Len(Files)
  BY <1>1, <1>2, ArchiveTerms, ArchiveCounts DEF Counted
<1>4. Archive!Ended(a) \/ Archive!Missing(a) = 0
  <2>1. CASE z = 0  BY <1>1, <1>2, <2>1, ArchiveTerms
  <2>2. CASE z > 0  BY <1>2, <2>2, ArchiveTerms
  <2> QED  BY <2>1, <2>2
<1>5. Len(b) - Len(a) = m
  <2>1. Zeros(m) \in Seq(Block) /\ Len(Zeros(m)) = m  BY ZerosType
  <2>2. Len(b) = Len(a) + Len(Zeros(m))  BY <1>0, <1>2, <2>1, CatElements
  <2>3. Len(a) \in Nat  BY <1>2
  <2> QED  BY <2>1, <2>2, <2>3
<1>6. b = a \o [i \in 1 .. m |-> Archive!Zero]
  <2>1. Zeros(m) = [i \in 1 .. m |-> Archive!Zero]  BY DEF Zeros, Archive!Zero, Zero
  <2> QED  BY <1>0, <2>1 DEF Cat
<1>7. Archive!AppendZeros(m)
  BY <1>3, <1>4, <1>6 DEF Archive!AppendZeros, Still, a, b
<1>8. m \in 1 .. Len(b) - Len(a)  BY <1>5
<1> QED  BY <1>7, <1>8 DEF a, b

LEMMA ArchiveClosed ==
  ASSUME Typed, Closed = FALSE, Closed' = TRUE, size' = size, Logical' = Logical,
         NEW d \in Seq(Block), OnlyMembers(d), NEW z \in Nat, z >= 2, Logical = Cat(d, Zeros(z))
  PROVE  Archive!Close
<1>1. /\ Logical \in Seq(Block) /\ Len(Logical) > 1 /\ Logical # <<>>
      /\ Logical[Len(Logical)] = Zero /\ Logical[Len(Logical) - 1] = Zero
  <2>1. z > 0 /\ z > 1  OBVIOUS
  <2> QED  BY <2>1, EndedByZeros
<1>2. Archive!Ended(Logical)  BY <1>1, ArchiveTerms
<1>3. Archive!Zero = Zero  BY DEF Archive!Zero, Zero
<1> QED  BY <1>1, <1>2, <1>3 DEF Archive!Close

(* What the refinement maps the archive to.                                *)
LogicalIs == Logical = IF Closed THEN OnVolumes ELSE Carried
ClosedIs == Closed \in BOOLEAN /\ (Closed <=> pc = "done" /\ EachTook(2 * BF))

LEMMA Mapped == Typed => LogicalIs /\ ClosedIs
<1> SUFFICES ASSUME Typed  PROVE  LogicalIs /\ ClosedIs  OBVIOUS
<1>1. OnVolumes \in Seq(Block) /\ InRecord \in Seq(Block) /\ Uncopied \in Seq(Block)
  BY CarriedTypes
<1>2. Cat(Cat(OnVolumes, InRecord), Uncopied) = Carried
  BY <1>1, CatAssociative DEF Carried, Behind
<1>3. Logical = IF Closed THEN OnVolumes ELSE Cat(Cat(OnVolumes, InRecord), Uncopied)
  BY DEF Logical, OnVolumes, InRecord, Uncopied, Cat
<1>4. LogicalIs  BY <1>2, <1>3 DEF LogicalIs
<1>5. ClosedIs  BY DEF ClosedIs, Closed, EachTook
<1> QED  BY <1>4, <1>5

LEMMA StepsImplement ==
  ASSUME NoneShort, Writes, LogicalIs, LogicalIs', ClosedIs, ClosedIs', [Next]_vars
  PROVE  [Archive!Next]_Archive!vars
<1>1. Writes' /\ Extends /\ Typed /\ Place /\ Told /\ Content /\ Levels /\ Ends
  BY WritesNext DEF Writes
<1>2. size' = size
  BY DEF Next, Dump, FlushWrite, VolumeChange, WriteLabel, NextMember, WriteHeader, SizeLeft,
     FillFull, FillShort, ReadError, Pad, EndMember, StartEot, Eot1, Eot2, Close, FlushWhole,
     FlushFatal, NoMoreVolumes, ChangeVolume, SimpleFlushWrite, SimpleFlushFatal, AddVolumeLabel,
     AddMultiVolumeHeader, CopyChunk, VolumeChanged, vars, given
<1>3. CASE Closed
  <2>1. pc = "done" /\ nv = "none"  BY <1>1, <1>3 DEF ClosedIs, Told
  <2>2. UNCHANGED vars
    BY <2>1 DEF Next, Dump, FlushWrite, VolumeChange, WriteLabel, NextMember, WriteHeader,
       SizeLeft, FillFull, FillShort, ReadError, Pad, EndMember, StartEot, Eot1, Eot2, Close,
       FlushWhole, FlushFatal, NoMoreVolumes, ChangeVolume, SimpleFlushWrite, SimpleFlushFatal,
       AddVolumeLabel, AddMultiVolumeHeader, CopyChunk, VolumeChanged, FlushPoint, Changing
  <2>3. UNCHANGED <<volumes, pc>>  BY <2>2 DEF vars, device, dump
  <2>4. EachTook(2 * BF)' <=> EachTook(2 * BF)  BY <2>3 DEF EachTook
  <2>5. Closed' = TRUE /\ Closed = TRUE  BY <1>3, <2>3, <2>4 DEF ClosedIs
  <2>6. OnVolumes' = OnVolumes  BY <2>3 DEF OnVolumes
  <2>7. Logical' = Logical  BY <2>5, <2>6 DEF LogicalIs
  <2> QED  BY <1>2, <2>5, <2>7 DEF Archive!vars
<1>4. CASE ~ Closed /\ Closed'
  <2>1. pc' = "done" /\ EachTook(2 * BF)'  BY <1>4 DEF ClosedIs
  <2>2. Close
    <3>1. pc # "done"
      <4>1. ASSUME pc = "done"  PROVE  FALSE
        <5>1. nv = "none"  BY <1>1, <4>1 DEF Told
        <5>2. UNCHANGED vars
          BY <4>1, <5>1 DEF Next, Dump, FlushWrite, VolumeChange, WriteLabel, NextMember,
             WriteHeader, SizeLeft, FillFull, FillShort, ReadError, Pad, EndMember, StartEot,
             Eot1, Eot2, Close, FlushWhole, FlushFatal, NoMoreVolumes, ChangeVolume,
             SimpleFlushWrite, SimpleFlushFatal, AddVolumeLabel, AddMultiVolumeHeader, CopyChunk,
             VolumeChanged, FlushPoint, Changing
        <5>3. volumes' = volumes  BY <5>2 DEF vars, device
        <5>4. EachTook(2 * BF)' <=> EachTook(2 * BF)  BY <5>3 DEF EachTook
        <5> QED  BY <1>4, <2>1, <4>1, <5>4 DEF ClosedIs
      <4> QED  BY <4>1
    <3> QED
      BY <2>1, <3>1 DEF Next, Dump, FlushWrite, VolumeChange, WriteLabel, NextMember, WriteHeader,
         SizeLeft, FillFull, FillShort, ReadError, Pad, EndMember, StartEot, Eot1, Eot2,
         FlushWhole, FlushFatal, NoMoreVolumes, ChangeVolume, SimpleFlushWrite,
         SimpleFlushFatal, AddVolumeLabel, AddMultiVolumeHeader, CopyChunk, VolumeChanged,
         FlushPoint, AfterFlush, vars, dump
  <2>3. UNCHANGED <<volumes, record, cur, other, from, to>>  BY <2>2 DEF Close, buffer
  <2>4. /\ nv = "none" /\ pc \in {"close2", "closed"} /\ (pc = "closed" \/ cur = 0)
        /\ EachTook(2 * BF)
    BY <2>1, <2>2, <2>3 DEF Close, EachTook
  <2>5. Behind = <<>>
    <3>1. CASE pc = "closed"  BY <1>1, <2>4, <3>1 DEF Ends
    <3>2. CASE cur = 0
      <4>1. from = to  BY <1>1, <2>4 DEF Levels, Stopped
      <4>2. Slice(record, 0, 0) = <<>>  BY SliceNone
      <4>3. InRecord = <<>>  BY <3>2, <4>2, PayloadEmpty DEF InRecord
      <4> QED  BY <1>1, <4>1, <4>3, CarriedTypes
    <3> QED  BY <2>4, <3>1, <3>2
  <2>6. OnVolumes' = OnVolumes /\ Carried = OnVolumes
    <3>1. Carried = OnVolumes  BY <1>1, <2>5, CarriedTypes, CatEmpty DEF Carried
    <3> QED  BY <2>3, <3>1 DEF OnVolumes
  <2>7. Logical' = Logical /\ Logical = Carried  BY <1>4, <2>6 DEF LogicalIs
  <2>8. PICK z \in Nat : Carried = Cat(Expected, Zeros(z)) /\ z >= 2
    BY <1>1, <2>4 DEF Content, Marks, Stopped, Closing
  <2>9. Expected \in Seq(Block) /\ OnlyMembers(Expected)  BY <1>1, ExpectedType
  <2>10. Closed = FALSE /\ Closed' = TRUE  BY <1>4 DEF ClosedIs
  <2>11. Logical = Cat(Expected, Zeros(z))  BY <2>7, <2>8
  <2>12. Archive!Close  BY <1>1, <1>2, <2>7, <2>8, <2>9, <2>10, <2>11, ArchiveClosed
  <2> QED  BY <2>12 DEF Archive!Next
<1>5. CASE ~ Closed /\ ~ Closed'
  <2>1. Logical = Carried /\ Logical' = Carried'  BY <1>5 DEF LogicalIs
  <2>2. Still  BY <1>2, <1>5 DEF Still, ClosedIs
  <2>3. CASE Carried' = Carried  BY <2>1, <2>2, <2>3 DEF Archive!vars, Still
  <2>4. CASE pc = "header" /\ Carried' = Cat(Carried, HeaderOf(current))
    <3>1. Carried = Expected  BY <1>1, <2>4, PlainNow DEF Stopped, Closing
    <3>2. Expected = Dumped[todo - 1]  BY <2>4 DEF Expected
    <3>3. todo \in 1 .. Len(Files)  BY <1>1, <2>4, FilesAreNames DEF Typed, Place
    <3>4. Archive!AppendHeader
      BY <1>1, <2>1, <2>2, <2>4, <3>1, <3>2, <3>3, HeaderAppended DEF current
    <3> QED  BY <3>4 DEF Archive!Next
  <2>5. CASE /\ pc \in {"fill", "padfill"}
             /\ \E n \in 1 .. left :
                  Carried' = Cat(Carried, DataFrom(current, size[current] - left, n))
    <3> PICK n \in 1 .. left : Carried' = Cat(Carried, DataFrom(current, size[current] - left, n))
      BY <2>5
    <3> DEFINE k == size[current] - left
    <3>1. Carried = Expected  BY <1>1, <2>5, PlainNow DEF Stopped, Closing
    <3>2. Expected = Begun(todo, k)  BY <2>5 DEF Expected, InMember
    <3>3. todo \in 1 .. Len(Files) /\ left \in Nat /\ left <= size[current]
      BY <1>1, <2>5, FilesAreNames DEF Typed, Place, InMember
    <3>4. k \in Nat /\ n \in Nat /\ n > 0 /\ k + n <= size[current]
      <4>1. size[current] \in Nat  BY <1>1, <3>3, GivenTypes
      <4> QED  BY <3>3, <4>1
    <3> HIDE DEF k
    <3>5. Logical = Begun(todo, k) /\ Logical' = Cat(Logical, DataFrom(Files[todo], k, n))
      BY <2>1, <3>1, <3>2 DEF current, k
    <3>6. k + n <= size[Files[todo]]  BY <3>4 DEF current
    <3>7. \E i \in 1 .. Archive!Missing(Logical) : Archive!AppendData(i)
      BY <1>1, <2>2, <3>3, <3>4, <3>5, <3>6, DataAppended
    <3> QED  BY <3>7 DEF Archive!Next
  <2>6. CASE /\ pc \in {"eot1", "eot2"} \/ Closing
             /\ \E n \in Nat : Carried' = Cat(Carried, Zeros(n))
    <3> PICK n \in Nat : Carried' = Cat(Carried, Zeros(n))  BY <2>6
    <3>1. CASE n = 0
      <4>1. Carried' = Carried  BY <1>1, <3>1, CarriedTypes, ZerosFew, CatEmpty
      <4> QED  BY <2>3, <4>1
    <3>2. CASE n > 0
      <4>1. PICK z \in Nat : Carried = Cat(Expected, Zeros(z))
        BY <1>1, <2>6 DEF Content, Marks, Stopped, Closing
      <4>2. Expected = Dumped[Len(Files)]
        BY <1>1, <2>6 DEF Content, Stopped, Closing, Expected, InMember
      <4>3. \E i \in 1 .. Len(Logical') - Len(Logical) : Archive!AppendZeros(i)
        BY <1>1, <2>1, <2>2, <3>2, <4>1, <4>2, ZerosAppended
      <4> QED  BY <4>3 DEF Archive!Next
    <3> QED  BY <3>1, <3>2
  <2> QED  BY <1>1, <2>3, <2>4, <2>5, <2>6 DEF Extends
<1> QED  BY <1>3, <1>4, <1>5

LEMMA InitImplements ==
  ASSUME Writes, Init, LogicalIs, ClosedIs  PROVE  Archive!Init
<1>1. pc # "done" /\ pc \in {"label", "next"}  BY DEF Init
<1>2. Closed = FALSE  BY <1>1 DEF ClosedIs
<1>3. Carried = Expected
  BY <1>1, PlainNow DEF Writes, Stopped, Closing
<1>4. Expected = <<>>
  BY <1>1, DumpedSteps DEF Init, Expected, InMember, Writes, Typed
<1> QED  BY <1>2, <1>3, <1>4 DEF Archive!Init, LogicalIs

(* If no read finds a file shrunk to nothing, every step of the writer is  *)
(* a step of TarArchive or a stutter: across the record boundaries and the *)
(* volume changes the members are only ever extended in order, each header *)
(* by the blocks it announces, and then by NULs.                           *)
THEOREM ImplementsArchive ==
  ASSUME NoneShort  PROVE  Spec => WellFormedArchive
<1>1. Init => Writes  BY WritesInit
<1>2. Writes /\ [Next]_vars => Writes'  BY WritesNext
<1>3. Writes => LogicalIs /\ ClosedIs  BY Mapped DEF Writes
<1>4. Init /\ Writes /\ LogicalIs /\ ClosedIs => Archive!Init  BY InitImplements
<1>5. Writes /\ LogicalIs /\ LogicalIs' /\ ClosedIs /\ ClosedIs' /\ [Next]_vars
        => [Archive!Next]_Archive!vars
  BY StepsImplement
<1> QED  BY <1>1, <1>2, <1>3, <1>4, <1>5, PTL DEF Spec, WellFormedArchive, Archive!Spec
-----------------------------------------------------------------------------
(* Where labels and continuation headers are.                              *)

(* Block b may be the k-th of volume v: a volume starts with its label and *)
(* perhaps the header of the continued member, and has no other.           *)
Unmarked(b) == b.kind \notin {"volhdr", "multivol"}
MayStand(v, k, b) ==
  /\ b.kind = "volhdr" <=> k <= LabelSize
  /\ b.kind = "multivol" => v > 1 /\ k = LabelSize + 1
Labelled(v, s, n) == \A k \in 1 .. n : MayStand(v, k, s[k])

(* What is stored next comes after them.                                   *)
Leading ==
  /\ nv = "none" => IF pc = "label" THEN LabelSize = 1 /\ Level = 0 ELSE Level >= LabelSize
  /\ nv = "label" => LabelSize = 1 /\ Level = 0
  /\ nv = "multivol" => Level = LabelSize
  /\ nv \in {"copy", "done"} => Level >= LabelSize
  /\ nv # "none" =>
       /\ pc # "label" /\ Len(volumes) > 1
       /\ \A i \in from .. to - 1 : Unmarked(other[i])
Leads ==
  pc # "undefined" /\ EachTook(LabelSize + 2) =>
    /\ \A v \in 1 .. Len(volumes) - 1 : Labelled(v, volumes[v], Len(volumes[v]))
    /\ Labelled(Len(volumes), Line, Level)
    /\ ~ Stopped => Leading

LEMMA LabelledGrows ==
  ASSUME NEW v, NEW s, NEW t, NEW n \in Nat, NEW p \in Nat, Labelled(v, s, n), Prolongs(t, s, n),
         \A i \in 1 .. p : MayStand(v, n + i, t[n + i])
  PROVE  Labelled(v, t, n + p)
<1> SUFFICES ASSUME NEW k \in 1 .. n + p  PROVE  MayStand(v, k, t[k])  BY DEF Labelled
<1>1. CASE k <= n
  <2>1. k \in 1 .. n  BY <1>1
  <2> QED  BY <2>1 DEF Labelled, Prolongs
<1>2. CASE k > n
  <2>1. k - n \in 1 .. p /\ n + (k - n) = k  BY <1>2
  <2> QED  BY <2>1
<1> QED  BY <1>1, <1>2

LEMMA UnmarkedMayStand ==
  ASSUME NEW v, NEW k, NEW b, Unmarked(b), ~ k <= LabelSize  PROVE  MayStand(v, k, b)
BY DEF Unmarked, MayStand

LEMMA LabelMayStand ==
  ASSUME LabelSize = 1, NEW v, NEW b, b = VolHdr(0)  PROVE  MayStand(v, 1, b)
BY DEF MayStand, VolHdr

LEMMA SettingKept == [Next]_vars => UNCHANGED <<setting, size, LabelSize>>
<1> SUFFICES ASSUME [Next]_vars PROVE UNCHANGED <<setting, size>>
  BY DEF LabelSize, volume_label_option
<1> QED
  BY DEF Next, Dump, FlushWrite, VolumeChange, vars, given,
      WriteLabel, NextMember, WriteHeader, SizeLeft, FillFull, FillShort, ReadError, Pad,
      EndMember, StartEot, Eot1, Eot2, Close, FlushWhole, FlushFatal, NoMoreVolumes,
      ChangeVolume, SimpleFlushWrite, SimpleFlushFatal, AddVolumeLabel,
      AddMultiVolumeHeader, CopyChunk, VolumeChanged

(* What create.c stores: the label first, then never another.              *)
Adds(p) ==
  /\ cur' = cur + p
  /\ \A i \in 0 .. cur - 1 : record'[i] = record[i]
  /\ pc = "label" => p = 1
  /\ \A i \in 1 .. p :
       IF pc = "label" THEN record'[cur + i - 1] = VolHdr(0) ELSE Unmarked(record'[cur + i - 1])

LEMMA DumpAdds ==
  ASSUME Typed, Place, Told, Dump
  PROVE  pc' # "label" /\ \E p \in Nat : Adds(p)
<1>0. nv = "none" /\ cur \in Nat /\ BF \in Nat  BY DumpIs, GivenTypes DEF Typed
<1>u. /\ Unmarked(Zero) /\ \A n, o : Unmarked(Header(n, o)) /\ Unmarked(Data(n, o))
  BY DEF Unmarked, Zero, Header, Data
<1>1. CASE NextMember \/ SizeLeft \/ ReadError \/ EndMember \/ StartEot \/ Close
  <2>1. /\ UNCHANGED <<record, cur>> /\ pc' # "label"
        /\ pc \in {"next", "data", "pad", "fill", "close2", "closed"}
    BY <1>1 DEF NextMember, SizeLeft, ReadError, EndMember, StartEot, Close, buffer
  <2>2. Adds(0)  BY <1>0, <2>1 DEF Adds
  <2> QED  BY <2>1, <2>2
<1>2. ASSUME NEW b, cur < BF, Store(b), pc' # "label",
             IF pc = "label" THEN b = VolHdr(0) ELSE Unmarked(b)
      PROVE  pc' # "label" /\ \E p \in Nat : Adds(p)
  <2>1. Adds(1)  BY <1>2, StoredAt DEF Adds
  <2> QED  BY <1>2, <2>1
<1>3. CASE WriteLabel
  BY <1>2, <1>3 DEF WriteLabel, WriteVolumeLabel, HasRoom
<1>4. CASE WriteHeader
  BY <1>2, <1>4, <1>u DEF WriteHeader, HasRoom
<1>5. CASE Pad
  BY <1>2, <1>5, <1>u DEF Pad, HasRoom
<1>6. CASE Eot1
  BY <1>2, <1>6, <1>u DEF Eot1, HasRoom
<1>7. CASE Eot2
  <2>1. record' = ZeroFrom(record, cur) /\ cur' = cur + 1 /\ cur < BF /\ pc = "eot2"
        /\ pc' = "close1"
    BY <1>7 DEF Eot2, HasRoom
  <2>2. \A i \in 0 .. cur - 1 : i \in Slots /\ i < cur  BY <1>0, <2>1 DEF Slots
  <2>3. cur \in Slots /\ ~ cur < cur /\ \A i \in 1 .. 1 : cur + i - 1 = cur
    BY <1>0, <2>1 DEF Slots
  <2>4. record'[cur] = Zero /\ \A i \in 0 .. cur - 1 : record'[i] = record[i]
    BY <2>1, <2>2, <2>3 DEF ZeroFrom
  <2>5. Adds(1)  BY <2>1, <2>3, <2>4, <1>u DEF Adds
  <2> QED  BY <2>1, <2>5
<1>8. CASE FillFull \/ \E count \in ShortCounts : FillShort(count)
  <2>1. /\ pc = "fill" /\ cur < BF /\ FillData(Chunk) /\ pc' \in {"data", "pad"}
        /\ cur' = cur + Chunk \/ cur' = cur
    BY <1>8 DEF FillFull, FillShort, HasRoom
  <2>2. /\ Chunk \in 1 .. left
        /\ \A i \in 0 .. cur - 1 : record'[i] = record[i]
        /\ \A i \in 1 .. Chunk :
             record'[cur + i - 1] = Data(current, size[current] - left + i - 1)
    BY <1>0, <2>1, FilledAt
  <2>3. Chunk \in Nat  BY <2>2
  <2>4. \A i \in 1 .. Chunk : Unmarked(record'[cur + i - 1])  BY <1>u, <2>2
  <2> HIDE DEF Chunk
  <2>5. CASE cur' = cur + Chunk
    <3>1. Adds(Chunk)  BY <2>1, <2>2, <2>4, <2>5 DEF Adds
    <3> QED  BY <2>1, <2>3, <3>1
  <2>6. CASE cur' = cur
    <3>1. Adds(0)  BY <1>0, <2>1, <2>2, <2>6 DEF Adds
    <3> QED  BY <2>1, <3>1
  <2> QED  BY <2>1, <2>5, <2>6
<1> QED  BY <1>1, <1>3, <1>4, <1>5, <1>6, <1>7, <1>8 DEF Dump

(* What the volume that ends holds.                                        *)
LEMMA VolumeEnded ==
  ASSUME Typed, NEW status \in 0 .. BF - 1, ChangeVolume(status)
  PROVE  /\ Len(volumes'[Len(volumes)]) = Len(Mounted) + status
         /\ status <= cur => Prolongs(volumes'[Len(volumes)], Line, Len(Mounted) + status)
<1> DEFINE s == Slice(record, 0, status)
           w == Mounted \o s
           full == [volumes EXCEPT ![Len(volumes)] = w]
<1>0. /\ Len(volumes) \in Nat /\ Len(volumes) >= 1 /\ Mounted \in Seq(Block)
      /\ Len(Mounted) \in Nat /\ BF \in Nat /\ cur \in Nat /\ volumes \in Seq(Seq(Block))
  BY GivenTypes DEF Typed
<1>1. /\ s \in Seq(Block) /\ Len(s) = status /\ \A i \in 0 .. status - 1 : s[i + 1] = record[i]
  <2>1. record \in [Slots -> Block] /\ status \in 0 .. BF  BY <1>0 DEF Typed
  <2> QED  BY <2>1, SliceOf
<1>2. volumes' = Append(full, <<>>)  BY DEF ChangeVolume, Mounted
<1> HIDE DEF s
<1>3. /\ w \in Seq(Block) /\ Len(w) = Len(Mounted) + status
      /\ \A k \in 1 .. Len(Mounted) + status :
           w[k] = IF k <= Len(Mounted) THEN Mounted[k] ELSE s[k - Len(Mounted)]
  BY <1>0, <1>1, ConcatProperties
<1> HIDE DEF w
<1>4. full \in Seq(Seq(Block)) /\ Len(full) = Len(volumes) /\ full[Len(volumes)] = w
  BY <1>0, <1>3
<1> HIDE DEF full
<1>5. volumes'[Len(volumes)] = w
  <2>1. Len(volumes) \in 1 .. Len(full) /\ <<>> \in Seq(Block)  BY <1>0, <1>4
  <2>2. Append(full, <<>>)[Len(volumes)] = full[Len(volumes)]  BY <1>4, <2>1
  <2> QED  BY <1>2, <1>4, <2>2
<1>6. ASSUME status <= cur, NEW k \in 1 .. Len(Mounted) + status  PROVE  w[k] = Line[k]
  <2>1. CASE k <= Len(Mounted)
    <3>1. k \in 1 .. Len(Mounted)  BY <2>1
    <3> QED  BY <3>1, <1>3, LineFacts
  <2>2. CASE ~ k <= Len(Mounted)
    <3> DEFINE i == k - Len(Mounted) - 1
    <3>1. /\ i \in 0 .. status - 1 /\ i \in 0 .. cur - 1
          /\ k - Len(Mounted) = i + 1 /\ Len(Mounted) + i + 1 = k
      BY <2>2, <1>0, <1>6
    <3> HIDE DEF i
    <3>2. w[k] = record[i]  BY <2>2, <3>1, <1>1, <1>3
    <3>3. Line[Len(Mounted) + i + 1] = record[i]  BY <3>1, LineFacts
    <3> QED  BY <3>1, <3>2, <3>3
  <2> QED  BY <2>1, <2>2
<1> QED  BY <1>3, <1>5, <1>6 DEF Prolongs
(* A step that stores blocks keeps what is on the volumes.                 *)
LeadsBut(s, n) ==
  /\ \A v \in 1 .. Len(volumes) - 1 : Labelled(v, volumes[v], Len(volumes[v]))
  /\ Labelled(Len(volumes), s, n)

LEMMA StoreLeads ==
  ASSUME Typed, Typed', UNCHANGED <<volumes, LabelSize>>, NEW p \in Nat, cur' = cur + p,
         \A i \in 0 .. cur - 1 : record'[i] = record[i],
         LeadsBut(Line, Level),
         \A i \in 1 .. p : MayStand(Len(volumes), Level + i, record'[cur + i - 1])
  PROVE  LeadsBut(Line, Level)' /\ Level' = Level + p /\ Level \in Nat
<1>1. /\ Level' = Level + p /\ Prolongs(Line', Line, Level) /\ Level \in Nat
      /\ \A i \in 1 .. p : Line'[Level + i] = record'[cur + i - 1]
  BY LineGrows, LineFacts
<1>2. Labelled(Len(volumes), Line', Level + p)
  <2> DEFINE v == Len(volumes)
             s == Line
             t == Line'
             n == Level
  <2>1. \A i \in 1 .. p : MayStand(v, n + i, t[n + i])  BY <1>1
  <2>2. Labelled(v, s, n) /\ Prolongs(t, s, n) /\ n \in Nat  BY <1>1 DEF LeadsBut
  <2> HIDE DEF v, s, t, n
  <2>3. Labelled(v, t, n + p)  BY <2>1, <2>2, LabelledGrows
  <2> QED  BY <2>3 DEF v, t, n
<1>3. Labelled(Len(volumes), Line, Level)'
  BY <1>1, <1>2 DEF Labelled, MayStand
<1>4. \A v \in 1 .. Len(volumes) - 1 : Labelled(v, volumes[v], Len(volumes[v]))'
  BY DEF LeadsBut, Labelled, MayStand
<1> QED  BY <1>1, <1>3, <1>4 DEF LeadsBut

LEMMA WriteLeads ==
  ASSUME Typed, Typed', WriteRecord, cur' = 0, Padded, LabelSize' = LabelSize,
         LeadsBut(Line, Level), Level >= LabelSize
  PROVE  LeadsBut(Line, Level)' /\ Level' >= LabelSize /\ (cur = BF => Level' = Level)
<1>1. /\ Level \in Nat /\ Level' = Level + (BF - cur) /\ BF - cur \in Nat
      /\ Prolongs(Line', Line, Level)
      /\ \A i \in 1 .. BF - cur : Line'[Level + i] = Zero
  BY RecordIsLine DEF Padded
<1>2. /\ Len(volumes') = Len(volumes)
      /\ \A v \in 1 .. Len(volumes) - 1 : volumes'[v] = volumes[v]
  BY RecordWritten
<1>3. Labelled(Len(volumes), Line', Level + (BF - cur))
  <2> DEFINE v == Len(volumes)
             s == Line
             t == Line'
             n == Level
             p == BF - cur
  <2>1. ASSUME NEW i \in 1 .. p  PROVE MayStand(v, n + i, t[n + i])
    <3>1. t[n + i] = Zero /\ Unmarked(Zero)  BY <1>1 DEF Unmarked, Zero
    <3>2. ~ n + i <= LabelSize
      <4>1. LabelSize \in Nat /\ n \in Nat /\ n >= LabelSize /\ i \in Nat /\ i >= 1
        BY <1>1, LineFacts
      <4> HIDE DEF n
      <4> QED  BY <4>1
    <3> QED  BY <3>1, <3>2, UnmarkedMayStand
  <2>2. Labelled(v, s, n) /\ Prolongs(t, s, n) /\ n \in Nat /\ p \in Nat  BY <1>1 DEF LeadsBut
  <2> HIDE DEF v, s, t, n, p
  <2>3. Labelled(v, t, n + p)  BY <2>1, <2>2, LabelledGrows
  <2> QED  BY <2>3 DEF v, t, n, p
<1>4. Labelled(Len(volumes), Line, Level)'
  BY <1>1, <1>2, <1>3 DEF Labelled, MayStand
<1>5. \A v \in 1 .. Len(volumes) - 1 : Labelled(v, volumes[v], Len(volumes[v]))'
  BY <1>2 DEF LeadsBut, Labelled, MayStand
<1>6. Level' >= LabelSize /\ (cur = BF => Level' = Level)
  <2>1. LabelSize \in Nat /\ BF \in Nat  BY LineFacts, GivenTypes
  <2> QED  BY <1>1, <2>1
<1> QED  BY <1>2, <1>4, <1>5, <1>6 DEF LeadsBut

LEMMA ChangeLeads ==
  ASSUME Typed, Typed', NEW status \in 0 .. BF - 1, ChangeVolume(status), LabelSize' = LabelSize,
         status <= cur, EachTook(LabelSize + 2)', LeadsBut(Line, Level), pc # "label"
  PROVE  LeadsBut(Line, Level)' /\ Leading'
<1>0. /\ Len(volumes) \in Nat /\ Len(volumes) >= 1 /\ Len(Mounted) \in Nat /\ BF \in Nat
      /\ cur \in Nat /\ LabelSize \in {0, 1} /\ status \in Nat
      /\ Level \in Nat /\ Level = Len(Mounted) + cur
  <2>1. cur \in 0 .. BF  BY DEF Typed
  <2>2. Len(volumes) \in Nat /\ Len(volumes) >= 1 /\ Len(Mounted) \in Nat /\ BF \in Nat
    BY GivenTypes
  <2> QED  BY <2>1, <2>2, LineFacts
<1>1. /\ Len(volumes') = Len(volumes) + 1 /\ Mounted' = <<>>
      /\ \A v \in 1 .. Len(volumes) - 1 : volumes'[v] = volumes[v]
  BY VolumeAdded
<1> DEFINE last == volumes'[Len(volumes)]
           n == Len(Mounted) + status
<1>2. Len(last) = n /\ Prolongs(last, Line, n)  BY VolumeEnded
<1>3. n >= LabelSize + 2
  <2>1. Len(volumes) \in 1 .. Len(volumes') - 1  BY <1>0, <1>1
  <2> QED  BY <1>2, <2>1 DEF EachTook
<1>4. Labelled(Len(volumes), last, n)
  <2>1. \A k \in 1 .. n : k \in 1 .. Level  BY <1>0
  <2>2. Labelled(Len(volumes), Line, Level)  BY DEF LeadsBut
  <2> HIDE DEF n, last
  <2> QED  BY <1>2, <2>1, <2>2 DEF Labelled, Prolongs
<1> HIDE DEF last
<1>5. \A v \in 1 .. Len(volumes') - 1 : Labelled(v, volumes'[v], Len(volumes'[v]))
  <2> SUFFICES ASSUME NEW v \in 1 .. Len(volumes') - 1
               PROVE  Labelled(v, volumes'[v], Len(volumes'[v]))
    OBVIOUS
  <2>1. CASE v = Len(volumes)  BY <1>2, <1>4, <2>1 DEF last
  <2>2. CASE v # Len(volumes)
    <3>1. v \in 1 .. Len(volumes) - 1  BY <1>0, <1>1, <2>2
    <3> QED  BY <3>1, <1>1 DEF LeadsBut
  <2> QED  BY <2>1, <2>2
<1>6. /\ from' = status /\ to' = cur /\ cur' = 0 /\ other' = record
      /\ nv' = IF volume_label_option THEN "label" ELSE IF real.name # NoName THEN "multivol"
               ELSE "copy"
      /\ nv = "none" /\ pc' \in {"undefined", "close2", "closed", pc}
  BY DEF ChangeVolume, CopyFrom, AfterFlush, FlushPoint
<1>7. Level' = 0
  BY <1>0, <1>1, <1>6 DEF Level
<1>8. ASSUME NEW i \in from' .. to' - 1  PROVE  Unmarked(other'[i])
  <2> DEFINE k == Len(Mounted) + i + 1
  <2>1. i \in 0 .. cur - 1 /\ k \in 1 .. Level /\ k > LabelSize + 1
    BY <1>0, <1>3, <1>6
  <2>2. Line[k] = record[i]  BY <2>1, LineFacts
  <2> HIDE DEF k
  <2>3. MayStand(Len(volumes), k, Line[k])  BY <2>1 DEF LeadsBut, Labelled
  <2>4. ~ k <= LabelSize /\ k # LabelSize + 1  BY <1>0, <2>1
  <2> QED  BY <1>6, <2>2, <2>3, <2>4 DEF MayStand, Unmarked
<1>9. LabelSize = IF volume_label_option THEN 1 ELSE 0  BY DEF LabelSize
<1>10. Leading'
  <2>1. Len(volumes') > 1  BY <1>0, <1>1
  <2>2. pc' # "label"  BY <1>6
  <2>3. nv' # "none" /\ nv' # "done"  BY <1>6
  <2>4. nv' = "label" => LabelSize' = 1 /\ Level' = 0  BY <1>6, <1>7, <1>9
  <2>5. nv' = "multivol" => Level' = LabelSize'  BY <1>6, <1>7, <1>9
  <2>6. nv' \in {"copy", "done"} => Level' >= LabelSize'  BY <1>6, <1>7, <1>9
  <2> QED  BY <1>8, <2>1, <2>2, <2>3, <2>4, <2>5, <2>6 DEF Leading
<1>11. Labelled(Len(volumes), Line, Level)'
  <2>1. \A k \in 1 .. 0 : FALSE  OBVIOUS
  <2> QED  BY <2>1, <1>7 DEF Labelled
<1>12. (\A v \in 1 .. Len(volumes) - 1 : Labelled(v, volumes[v], Len(volumes[v])))'
  BY <1>5 DEF Labelled, MayStand
<1> QED  BY <1>10, <1>11, <1>12 DEF LeadsBut
LEMMA LeadsInit == Init => Leads
<1> SUFFICES ASSUME Init PROVE Leads  OBVIOUS
<1>1. Len(volumes) = 1 /\ Level = 0 /\ nv = "none"
  BY DEF Init, Mounted, Level
<1>2. \A k \in 1 .. 0 : FALSE  OBVIOUS
<1>3. Labelled(Len(volumes), Line, Level)  BY <1>1, <1>2 DEF Labelled
<1>4. \A v \in 1 .. Len(volumes) - 1 : FALSE  BY <1>1
<1>5. Leading
  <2>1. pc = IF volume_label_option THEN "label" ELSE "next"  BY DEF Init
  <2>2. LabelSize = IF volume_label_option THEN 1 ELSE 0  BY DEF LabelSize
  <2> QED  BY <1>1, <2>1, <2>2 DEF Leading
<1> QED  BY <1>3, <1>4, <1>5 DEF Leads

LEMMA CopyAdds ==
  ASSUME Typed, CopyChunk, from <= to
  PROVE  \E p \in Nat :
           /\ cur' = cur + p /\ from' = from + p /\ p <= to - from
           /\ \A i \in 0 .. cur - 1 : record'[i] = record[i]
           /\ \A i \in 1 .. p : record'[cur + i - 1] = other[from + i - 1]
<1> DEFINE n == Lesser(BF - cur, to - from)
           copied == [k \in Slots |-> IF k \in cur .. cur + n - 1
                                      THEN other[from + (k - cur)] ELSE record[k]]
           last == to - from <= BF - cur
<1>0. /\ nv = "copy" /\ cur < BF
      /\ record' = IF last THEN ZeroFrom(copied, cur + n) ELSE copied
      /\ cur' = cur + n /\ from' = from + n
  BY DEF CopyChunk, Changing
<1>1. cur \in 0 .. BF /\ BF \in Nat /\ from \in 0 .. BF /\ to \in 0 .. BF
  BY WriterAssumption DEF Typed
<1>2. n \in Nat /\ n <= to - from /\ n <= BF - cur  BY <1>0, <1>1 DEF Lesser
<1> HIDE DEF n
<1>3. ASSUME NEW i \in 0 .. cur - 1  PROVE record'[i] = record[i]
  <2>1. i \in Slots /\ ~ i \in cur .. cur + n - 1 /\ i < cur + n  BY <1>1, <1>2 DEF Slots
  <2>2. copied[i] = record[i]  BY <2>1
  <2> HIDE DEF copied
  <2> QED  BY <2>1, <2>2, <1>0 DEF ZeroFrom
<1>4. ASSUME NEW i \in 1 .. n  PROVE record'[cur + i - 1] = other[from + i - 1]
  <2>1. /\ cur + i - 1 \in Slots /\ cur + i - 1 \in cur .. cur + n - 1 /\ cur + i - 1 < cur + n
        /\ from + ((cur + i - 1) - cur) = from + i - 1
    BY <1>1, <1>2 DEF Slots
  <2>2. copied[cur + i - 1] = other[from + i - 1]  BY <2>1
  <2> HIDE DEF copied
  <2> QED  BY <2>1, <2>2, <1>0 DEF ZeroFrom
<1> QED  BY <1>0, <1>2, <1>3, <1>4

LEMMA LeadsNext ==
  ASSUME Typed, Typed', Place, Told, Ends, Leads, [Next]_vars
  PROVE  Leads'
<1> SUFFICES ASSUME pc' # "undefined", EachTook(LabelSize + 2)'
             PROVE  LeadsBut(Line, Level)' /\ (~ Stopped' => Leading')
  BY DEF Leads, LeadsBut
<1>0. /\ LabelSize' = LabelSize /\ LabelSize \in {0, 1} /\ BF \in Nat /\ cur \in 0 .. BF
      /\ Level \in Nat /\ Level = Len(Mounted) + cur /\ Len(Mounted) \in Nat
  <2>1. cur \in 0 .. BF  BY DEF Typed
  <2> QED  BY <2>1, GivenTypes, LineFacts, SettingKept
<1>k. EachTook(LabelSize + 2)' /\ LabelSize' = LabelSize => \A v \in 1 .. Len(volumes') - 1 :
        Len(volumes'[v]) >= LabelSize + 2
  BY DEF EachTook
(* Before the step.                                                        *)
<1>b. ASSUME pc # "undefined", EachTook(LabelSize + 2)
      PROVE  LeadsBut(Line, Level) /\ (~ Stopped => Leading)
  BY <1>b DEF Leads, LeadsBut
<1>s. ASSUME volumes' = volumes \/ WriteRecord
      PROVE  EachTook(LabelSize + 2)
  <2>1. Len(volumes') = Len(volumes) /\ \A v \in 1 .. Len(volumes) - 1 : volumes'[v] = volumes[v]
    BY <1>s, RecordWritten
  <2> QED  BY <1>k, <1>0, <2>1 DEF EachTook
<1>1. CASE Dump
  <2>1. /\ nv = "none" /\ ~ Stopped /\ UNCHANGED <<volumes, nv>>  BY <1>1, DumpIs
  <2>2. LeadsBut(Line, Level) /\ Leading
    <3>1. pc # "undefined"  BY <2>1 DEF Stopped
    <3> QED  BY <2>1, <3>1, <1>b, <1>s
  <2>3. pc' # "label" /\ \E p \in Nat : Adds(p)  BY <1>1, DumpAdds
  <2> PICK p \in Nat : Adds(p)  BY <2>3
  <2>4. ASSUME NEW i \in 1 .. p
        PROVE  MayStand(Len(volumes), Level + i, record'[cur + i - 1])
    <3>1. CASE pc = "label"
      <4>1. LabelSize = 1 /\ Level + i = 1 /\ record'[cur + i - 1] = VolHdr(0)
        BY <2>1, <2>2, <3>1 DEF Leading, Adds
      <4> QED  BY <4>1, LabelMayStand
    <3>2. CASE pc # "label"
      <4>1. ~ Level + i <= LabelSize  BY <1>0, <2>1, <2>2, <3>2 DEF Leading
      <4>2. Unmarked(record'[cur + i - 1])  BY <3>2 DEF Adds
      <4> QED  BY <4>1, <4>2, UnmarkedMayStand
    <3> QED  BY <3>1, <3>2
  <2>5. LeadsBut(Line, Level)' /\ Level' = Level + p
    BY <1>0, <2>1, <2>2, <2>4, StoreLeads DEF Adds
  <2>6. Level' >= LabelSize
    <3>1. pc = "label" => LabelSize = 1 /\ p = 1 /\ Level = 0  BY <2>1, <2>2 DEF Leading, Adds
    <3>2. pc # "label" => Level >= LabelSize  BY <2>1, <2>2 DEF Leading
    <3> QED  BY <1>0, <2>5, <3>1, <3>2
  <2>7. Leading'  BY <1>0, <2>1, <2>3, <2>6 DEF Leading
  <2> QED  BY <2>5, <2>7
<1>2. CASE FlushWhole
  <2>1. /\ FlushPoint /\ WriteRecord /\ cur' = 0 /\ nv = "none" /\ nv' = nv
        /\ pc' \in {"close2", "closed", pc}
        /\ pc \in {"label", "header", "fill", "padfill", "eot1", "eot2", "close1", "close2"}
        /\ pc = "label" => cur = BF
    BY <1>2 DEF FlushWhole, FlushPoint, AfterFlush
  <2>2. LeadsBut(Line, Level) /\ Leading  BY <1>b, <1>s, <2>1 DEF Stopped
  <2>3. BF > 0  BY GivenTypes
  <2>4. pc # "label"  BY <1>0, <2>1, <2>2, <2>3 DEF Leading
  <2>5. Level >= LabelSize  BY <2>1, <2>2, <2>4 DEF Leading
  <2>6. LeadsBut(Line, Level)' /\ Level' >= LabelSize
    BY <1>0, <2>1, <2>2, <2>5, PointIsPadded, WriteLeads
  <2> QED  BY <1>0, <2>1, <2>4, <2>6 DEF Leading
<1>3. CASE FlushFatal \/ NoMoreVolumes \/ SimpleFlushFatal \/ UNCHANGED vars
  <2>1. /\ UNCHANGED <<volumes, record, cur>>
        /\ pc' = "fatal" \/ UNCHANGED vars
        /\ pc # "undefined" 
    BY <1>3 DEF FlushFatal, NoMoreVolumes, SimpleFlushFatal, Changing, FlushPoint, vars, buffer,
                device, dump
  <2>2. LeadsBut(Line, Level) /\ (~ Stopped => Leading)  BY <1>b, <1>s, <2>1
  <2>3. Level' = Level /\ Line' = Line /\ Mounted' = Mounted  BY <2>1 DEF Level, Line, Mounted
  <2>4. LeadsBut(Line, Level)'
    BY <1>0, <2>1, <2>2, <2>3 DEF LeadsBut, Labelled, MayStand
  <2>5. ~ Stopped' => Leading'
    BY <1>0, <2>1, <2>2, <2>3 DEF Leading, Stopped, vars, buffer, dump, device
  <2> QED  BY <2>4, <2>5
<1>4. CASE \E status \in 0 .. BF - 1 : ChangeVolume(status)
  <2> PICK status \in 0 .. BF - 1 : ChangeVolume(status)  BY <1>4
  <2>1. /\ nv = "none" /\ status <= cur
        /\ pc \in {"label", "header", "fill", "padfill", "eot1", "eot2", "close1", "close2"}
        /\ pc = "label" => cur = BF
    <3>1. ~ status > cur  BY DEF ChangeVolume
    <3>2. status <= cur  BY <1>0, <3>1
    <3> QED  BY <3>2 DEF ChangeVolume, FlushPoint
  <2>2. EachTook(LabelSize + 2)
    <3>1. /\ Len(volumes') = Len(volumes) + 1 /\ Len(volumes) \in Nat
          /\ \A v \in 1 .. Len(volumes) - 1 : volumes'[v] = volumes[v]
      BY VolumeAdded, GivenTypes
    <3>2. \A v \in 1 .. Len(volumes) - 1 : v \in 1 .. Len(volumes') - 1  BY <3>1
    <3> QED  BY <1>k, <1>0, <3>1, <3>2 DEF EachTook
  <2>3. LeadsBut(Line, Level) /\ Leading  BY <1>b, <2>1, <2>2 DEF Stopped
  <2>4. BF > 0  BY GivenTypes
  <2>5. pc # "label"  BY <1>0, <2>1, <2>3, <2>4 DEF Leading
  <2> QED  BY <1>0, <2>1, <2>3, <2>5, ChangeLeads
<1>5. CASE SimpleFlushWrite
  <2>1. /\ WriteRecord /\ cur = BF /\ cur' = 0 /\ UNCHANGED <<nv, other, from, to, pc>>
        /\ nv # "none" /\ pc \notin {"fatal", "undefined"} /\ Padded
    BY <1>5, FullIsPadded DEF SimpleFlushWrite, Changing
  <2>2. ~ Stopped  BY <2>1 DEF Stopped, Told
  <2>3. LeadsBut(Line, Level) /\ Leading  BY <1>b, <1>s, <2>1, <2>2
  <2>4. BF > 0  BY GivenTypes
  <2>5. Level >= LabelSize /\ nv # "label"
    <3>1. nv \in {"label", "multivol", "copy", "done"}  BY <2>1 DEF Typed
    <3> QED  BY <1>0, <2>1, <2>3, <2>4, <3>1 DEF Leading
  <2>6. LeadsBut(Line, Level)' /\ Level' = Level
    BY <1>0, <2>1, <2>3, <2>5, WriteLeads
  <2>7. Len(volumes') = Len(volumes)  BY <2>1, RecordWritten
  <2> QED  BY <1>0, <2>1, <2>3, <2>5, <2>6, <2>7 DEF Leading
<1>6. CASE AddVolumeLabel
  <2>1. /\ nv = "label" /\ nv' \in {"multivol", "copy"} /\ cur < BF /\ Store(VolHdr(0))
        /\ UNCHANGED <<volumes, other, from, to, pc>> /\ pc \notin {"fatal", "undefined"}
    BY <1>6 DEF AddVolumeLabel, WriteVolumeLabel, Changing
  <2>2. ~ Stopped  BY <2>1 DEF Stopped, Told
  <2>3. LeadsBut(Line, Level) /\ Leading  BY <1>b, <1>s, <2>1, <2>2
  <2>4. LabelSize = 1 /\ Level = 0  BY <2>1, <2>3 DEF Leading
  <2>5. \A i \in 1 .. 1 : MayStand(Len(volumes), Level + i, record'[cur + i - 1])
    <3>1. \A i \in 1 .. 1 : Level + i = 1  BY <2>4
    <3>2. \A i \in 1 .. 1 : record'[cur + i - 1] = VolHdr(0)  BY <2>1, StoredAt
    <3> QED  BY <2>4, <3>1, <3>2, LabelMayStand
  <2>6. LeadsBut(Line, Level)' /\ Level' = Level + 1
    BY <1>0, <2>1, <2>3, <2>5, StoredAt, StoreLeads
  <2> QED  BY <1>0, <2>1, <2>3, <2>4, <2>6 DEF Leading
<1>7. CASE AddMultiVolumeHeader
  <2> DEFINE b == MultiVol(real.name, real.left, real.total - real.left)
  <2>1. /\ nv = "multivol" /\ nv' = "copy" /\ cur < BF /\ Store(b)
        /\ UNCHANGED <<volumes, other, from, to, pc>> /\ pc \notin {"fatal", "undefined"}
    BY <1>7 DEF AddMultiVolumeHeader, Changing
  <2>2. ~ Stopped  BY <2>1 DEF Stopped, Told
  <2>3. LeadsBut(Line, Level) /\ Leading  BY <1>b, <1>s, <2>1, <2>2
  <2>4. Level = LabelSize /\ Len(volumes) > 1  BY <2>1, <2>3 DEF Leading
  <2>k. b.kind = "multivol"  BY DEF MultiVol
  <2> HIDE DEF b
  <2>5. ASSUME NEW i \in 1 .. 1
        PROVE  MayStand(Len(volumes), Level + i, record'[cur + i - 1])
    <3>1. Level + i = LabelSize + 1 /\ ~ Level + i <= LabelSize  BY <1>0, <2>4
    <3>2. record'[cur + i - 1] = b  BY <2>1, StoredAt
    <3> QED  BY <2>4, <2>k, <3>1, <3>2 DEF MayStand
  <2>6. LeadsBut(Line, Level)' /\ Level' = Level + 1
    BY <1>0, <2>1, <2>3, <2>5, StoredAt, StoreLeads
  <2>7. Level' >= LabelSize  BY <1>0, <2>4, <2>6
  <2> QED  BY <1>0, <2>1, <2>3, <2>6, <2>7 DEF Leading
<1>8. CASE CopyChunk
  <2>1. /\ nv = "copy" /\ nv' \in {"copy", "done"} /\ UNCHANGED <<volumes, other, to, pc>>
        /\ pc \notin {"fatal", "undefined"}
    BY <1>8 DEF CopyChunk, Changing
  <2>2. ~ Stopped /\ from <= to  BY <2>1 DEF Stopped, Told
  <2>3. LeadsBut(Line, Level) /\ Leading  BY <1>b, <1>s, <2>1, <2>2
  <2>4. PICK p \in Nat :
           /\ cur' = cur + p /\ from' = from + p /\ p <= to - from
           /\ \A i \in 0 .. cur - 1 : record'[i] = record[i]
           /\ \A i \in 1 .. p : record'[cur + i - 1] = other[from + i - 1]
    BY <1>8, <2>2, CopyAdds
  <2>5. from \in Nat /\ to \in Nat  BY DEF Typed
  <2>6. Level >= LabelSize  BY <2>1, <2>3 DEF Leading
  <2>7. ASSUME NEW i \in 1 .. p
        PROVE  MayStand(Len(volumes), Level + i, record'[cur + i - 1])
    <3>1. from + i - 1 \in from .. to - 1  BY <2>2, <2>4, <2>5
    <3>2. Unmarked(record'[cur + i - 1])  BY <2>1, <2>3, <2>4, <3>1 DEF Leading
    <3>3. ~ Level + i <= LabelSize  BY <1>0, <2>6
    <3> QED  BY <3>2, <3>3, UnmarkedMayStand
  <2>8. LeadsBut(Line, Level)' /\ Level' = Level + p
    BY <1>0, <2>1, <2>3, <2>4, <2>7, StoreLeads
  <2>9. Level' >= LabelSize  BY <1>0, <2>6, <2>8
  <2>10. ASSUME NEW i \in from' .. to' - 1  PROVE Unmarked(other'[i])
    <3>1. i \in from .. to - 1  BY <2>1, <2>4, <2>5
    <3> QED  BY <2>1, <2>3, <3>1 DEF Leading
  <2> QED  BY <1>0, <2>1, <2>3, <2>8, <2>9, <2>10 DEF Leading
<1>9. CASE VolumeChanged
  <2>1. /\ nv = "done" /\ nv' = "none" /\ UNCHANGED <<volumes, record, cur, pc>>
        /\ pc \notin {"fatal", "undefined"}
    BY <1>9 DEF VolumeChanged, Changing
  <2>2. ~ Stopped  BY <2>1 DEF Stopped, Told
  <2>3. LeadsBut(Line, Level) /\ Leading  BY <1>b, <1>s, <2>1, <2>2
  <2>4. Level' = Level /\ Line' = Line  BY <2>1 DEF Level, Line, Mounted
  <2>5. LeadsBut(Line, Level)'
    BY <1>0, <2>1, <2>3, <2>4 DEF LeadsBut, Labelled, MayStand
  <2> QED  BY <1>0, <2>1, <2>3, <2>4, <2>5 DEF Leading
<1> QED  BY <1>1, <1>2, <1>3, <1>4, <1>5, <1>6, <1>7, <1>8, <1>9
         DEF Next, FlushWrite, VolumeChange
-----------------------------------------------------------------------------
(* What is on the volumes, even after a fatal error.                       *)

(* t starts with s.                                                        *)
Starts(s, t) == \E u \in Seq(Block) : t = Cat(s, u)

LEMMA StartsSame == \A s \in Seq(Block) : Starts(s, s)
<1>1. <<>> \in Seq(Block)  OBVIOUS
<1> QED  BY <1>1, CatEmpty DEF Starts

LEMMA StartsCat ==
  \A s, t \in Seq(Block) : Starts(s, Cat(s, t))
BY DEF Starts

LEMMA StartsFurther ==
  ASSUME NEW s \in Seq(Block), NEW t \in Seq(Block), NEW u \in Seq(Block),
         Starts(s, t), Starts(t, u)
  PROVE  Starts(s, u)
<1>1. PICK a \in Seq(Block) : t = Cat(s, a)  BY DEF Starts
<1>2. PICK b \in Seq(Block) : u = Cat(t, b)  BY DEF Starts
<1>3. u = Cat(s, Cat(a, b))  BY <1>1, <1>2, CatAssociative
<1>4. Cat(a, b) \in Seq(Block)  BY CatType
<1> QED  BY <1>3, <1>4 DEF Starts

(* If b and then c follow a, and so do b and d, c and d start alike.       *)
LEMMA StartsAfter ==
  ASSUME NEW a \in Seq(Block), NEW s \in Seq(Block), NEW t \in Seq(Block),
         Starts(Cat(a, s), Cat(a, t))
  PROVE  Starts(s, t)
<1>1. PICK u \in Seq(Block) : Cat(a, t) = Cat(Cat(a, s), u)  BY DEF Starts
<1>2. Cat(a, t) = Cat(a, Cat(s, u))  BY <1>1, CatAssociative
<1>3. t = Cat(s, u)  BY <1>2, CatType, CatCancels
<1> QED  BY <1>3 DEF Starts

LEMMA StartsElements ==
  ASSUME NEW s \in Seq(Block), NEW t \in Seq(Block), Starts(s, t)
  PROVE  Len(s) <= Len(t) /\ \A k \in 1 .. Len(s) : s[k] = t[k]
<1>1. PICK u \in Seq(Block) : t = Cat(s, u)  BY DEF Starts
<1>2. Len(u) \in Nat /\ Len(s) \in Nat  OBVIOUS
<1>3. Len(t) = Len(s) + Len(u) /\ \A k \in 1 .. Len(s) : t[k] = s[k]  BY <1>1, CatElements
<1> QED  BY <1>2, <1>3

(* Induction over the members that come later.                             *)
LEMMA DumpedStarts ==
  ASSUME size \in [Names -> Nat], NEW n \in 0 .. Len(Files)
  PROVE  Starts(Dumped[n], Dumped[Len(Files)])
<1> DEFINE N == Len(Files)
           Bad == {m \in 0 .. N : m >= n /\ ~ Starts(Dumped[n], Dumped[m])}
<1>0. N \in Nat  BY FilesAreNames
<1>t. \A m \in 0 .. N : Dumped[m] \in Seq(Block)  BY DumpedSteps
<1>1. ASSUME Bad # {}  PROVE  FALSE
  <2>1. Bad \subseteq Nat  OBVIOUS
  <2>2. PICK m \in Bad : \A x \in Bad : m <= x
    <3> HIDE DEF Bad
    <3> QED  BY <1>1, <2>1, LeastOfNat
  <2>3. m \in 0 .. N /\ m >= n /\ ~ Starts(Dumped[n], Dumped[m])  BY <2>2
  <2>4. m # n  BY <1>t, <2>3, StartsSame
  <2>5. m \in 1 .. N /\ m - 1 \in 0 .. N /\ m - 1 >= n /\ m - 1 \notin Bad
    <3>1. m \in 1 .. N /\ m - 1 \in 0 .. N /\ m - 1 >= n /\ ~ m <= m - 1  BY <1>0, <2>3, <2>4
    <3> HIDE DEF Bad
    <3> QED  BY <2>2, <3>1
  <2>6. Starts(Dumped[n], Dumped[m - 1])  BY <2>5
  <2>7. Dumped[m] = Cat(Dumped[m - 1], Whole(Files[m])) /\ Whole(Files[m]) \in Seq(Block)
    BY <2>5, DumpedSteps, FilesAreNames, WholeIs
  <2>8. Starts(Dumped[m - 1], Dumped[m])  BY <2>5, <2>7, <1>t, StartsCat
  <2>9. Starts(Dumped[n], Dumped[m])
    <3>1. /\ Dumped[n] \in Seq(Block)
          /\ Dumped[m - 1] \in Seq(Block)
          /\ Dumped[m] \in Seq(Block)
      BY <2>5, <1>t
    <3> QED  BY <3>1, <2>6, <2>8, StartsFurther
  <2> QED  BY <2>3, <2>9
<1>2. N \in 0 .. N /\ N >= n  BY <1>0
<1> QED  BY <1>1, <1>2

LEMMA BegunBegins ==
  ASSUME size \in [Names -> Nat], NEW n \in 1 .. Len(Files), NEW k \in 0 .. size[Files[n]]
  PROVE  Starts(Begun(n, k), Dumped[n]) /\ Begun(n, k) \in Seq(Block)
<1> DEFINE f == Files[n]
           m == size[f] - k
<1>1. f \in Names /\ size[f] \in Nat  BY FilesAreNames
<1>2. k \in Nat /\ m \in Nat /\ k + m = size[f]  BY <1>1
<1> HIDE DEF m
<1>3. Begun(n, k + m) = Cat(Begun(n, k), DataFrom(f, k, m))  BY <1>2, BegunGrows
<1>4. Begun(n, size[f]) = Dumped[n]  BY BegunEnds
<1>5. DataFrom(f, k, m) \in Seq(Block)  BY <1>1, <1>2, DataType
<1>6. Begun(n, k) \in Seq(Block)  BY <1>2, BegunType
<1> QED  BY <1>2, <1>3, <1>4, <1>5, <1>6, StartsCat

(* The volumes hold the members and the end of the archive, or a start of  *)
(* them.                                                                   *)
Archived(z) == Cat(Dumped[Len(Files)], Zeros(z))
Carrying == pc # "undefined" => \E z \in Nat : Starts(OnVolumes, Archived(z))
CarriesNow == ~ Stopped => \E z \in Nat : Starts(OnVolumes, Archived(z))

LEMMA ArchivedType ==
  ASSUME size \in [Names -> Nat], NEW z \in Nat
  PROVE  Archived(z) \in Seq(Block) /\ Dumped[Len(Files)] \in Seq(Block)
<1>1. Len(Files) \in 0 .. Len(Files)  BY FilesAreNames
<1> QED  BY <1>1, DumpedSteps, ZerosType, CatType DEF Archived

LEMMA ContentCarries == Writes => CarriesNow
<1> SUFFICES ASSUME Writes, ~ Stopped PROVE \E z \in Nat : Starts(OnVolumes, Archived(z))
  BY DEF CarriesNow
<1>0. Typed /\ Place /\ size \in [Names -> Nat] /\ todo \in 0 .. Len(Files)
  BY DEF Writes, Typed
<1>1. PICK z \in Nat : Marks(z)  BY DEF Writes, Content
<1>2. Carried = Cat(OnVolumes, Behind) /\ OnVolumes \in Seq(Block) /\ Behind \in Seq(Block)
  BY <1>0, CarriedTypes DEF Carried
<1>3. Expected \in Seq(Block)  BY <1>0, ExpectedType
<1>4. Starts(Expected, Dumped[Len(Files)])
  <2>1. CASE pc = "header"
    <3>1. todo - 1 \in 0 .. Len(Files)  BY <1>0, <2>1, FilesAreNames DEF Place
    <3> QED  BY <1>0, <2>1, <3>1, DumpedStarts DEF Expected
  <2>2. CASE pc # "header" /\ InMember
    <3>1. todo \in 1 .. Len(Files)  BY <1>0, <2>2, FilesAreNames DEF Place
    <3>2. size[current] - left \in 0 .. size[current]
      <4>1. left \in Nat /\ left <= size[current]  BY <1>0, <2>2 DEF Place, Typed
      <4>2. size[current] \in Nat  BY <3>1, <1>0, GivenTypes
      <4> QED  BY <4>1, <4>2
    <3>3. /\ Starts(Begun(todo, size[current] - left), Dumped[todo])
          /\ Begun(todo, size[current] - left) \in Seq(Block)
      BY <1>0, <3>1, <3>2, BegunBegins DEF current
    <3>4. Starts(Dumped[todo], Dumped[Len(Files)])  BY <1>0, DumpedStarts
    <3>5. 0 \in Nat /\ Dumped[todo] \in Seq(Block) /\ Dumped[Len(Files)] \in Seq(Block)
      BY <1>0, DumpedSteps, ArchivedType
    <3> QED  BY <2>2, <3>3, <3>4, <3>5, StartsFurther DEF Expected
  <2>3. CASE pc # "header" /\ ~ InMember  BY <1>0, <2>3, DumpedStarts DEF Expected
  <2> QED  BY <2>1, <2>2, <2>3
<1>5. Starts(Carried, Archived(z))
  <2>0. Archived(z) = Cat(Dumped[Len(Files)], Zeros(z)) /\ Carried = Cat(Expected, Zeros(z))
    BY <1>1 DEF Archived, Marks
  <2>1. CASE z = 0
    <3>1. Zeros(z) = <<>>  BY <2>1, ZerosFew
    <3>2. Dumped[Len(Files)] \in Seq(Block)  BY <1>0, ArchivedType
    <3>3. Carried = Expected /\ Archived(z) = Dumped[Len(Files)]
      BY <2>0, <3>1, <3>2, <1>3, CatEmpty
    <3> QED  BY <3>3, <1>4
  <2>2. CASE z # 0
    <3>1. pc = "eot2" \/ Closing  BY <1>1, <2>2 DEF Marks
    <3>2. todo = Len(Files) /\ pc # "header" /\ ~ InMember
      BY <3>1 DEF Writes, Content, InMember, Closing
    <3>3. Carried = Archived(z)  BY <2>0, <3>2 DEF Expected
    <3> QED  BY <3>3, <1>0, ArchivedType, StartsSame
  <2> QED  BY <2>1, <2>2
<1>6. Starts(OnVolumes, Carried)  BY <1>2, StartsCat
<1>7. Carried \in Seq(Block) /\ Archived(z) \in Seq(Block)  BY <1>0, <1>2, CatType, ArchivedType
<1> QED  BY <1>2, <1>5, <1>6, <1>7, StartsFurther

LEMMA CarryingNext ==
  ASSUME Writes, CarriesNow', Carrying, [Next]_vars
  PROVE  Carrying'
<1> SUFFICES ASSUME pc' # "undefined" PROVE \E z \in Nat : Starts(OnVolumes', Archived(z)')
  BY DEF Carrying
<1>1. CASE ~ Stopped'  BY <1>1 DEF CarriesNow
<1>2. CASE Stopped'
  <2>1. volumes' = volumes /\ size' = size /\ pc # "undefined"
    <3>1. pc' \in {"done", "fatal"}  BY <1>2 DEF Stopped
    <3>2. CASE UNCHANGED vars  BY <3>2 DEF vars, device, dump, given
    <3>3. CASE Next
      <4>1. pc \notin {"done", "fatal"}
        <5>1. pc = "done" => nv = "none"  BY DEF Writes, Told
        <5> QED
          BY <3>3, <5>1
          DEF Next, Dump, FlushWrite, VolumeChange, FlushPoint, Changing,
              WriteLabel, NextMember, WriteHeader, SizeLeft, FillFull, FillShort, ReadError, Pad,
              EndMember, StartEot, Eot1, Eot2, Close, FlushWhole, FlushFatal, NoMoreVolumes,
              ChangeVolume, SimpleFlushWrite, SimpleFlushFatal, AddVolumeLabel,
              AddMultiVolumeHeader, CopyChunk, VolumeChanged
      <4>2. Close \/ FlushFatal \/ NoMoreVolumes \/ SimpleFlushFatal
        BY <3>1, <3>3, <4>1
        DEF Next, Dump, FlushWrite, VolumeChange, FlushPoint, Changing, AfterFlush,
            WriteLabel, NextMember, WriteHeader, SizeLeft, FillFull, FillShort, ReadError, Pad,
            EndMember, StartEot, Eot1, Eot2, FlushWhole,
            ChangeVolume, SimpleFlushWrite, AddVolumeLabel,
            AddMultiVolumeHeader, CopyChunk, VolumeChanged, dump
      <4> QED  BY <4>2 DEF Close, FlushFatal, NoMoreVolumes, SimpleFlushFatal, given, device,
                           FlushPoint, Changing
    <3> QED  BY <3>2, <3>3
  <2>2. OnVolumes' = OnVolumes /\ \A z : Archived(z)' = Archived(z)
    BY <2>1 DEF OnVolumes, Archived, Dumped, Whole
  <2> QED  BY <2>1, <2>2 DEF Carrying
<1> QED  BY <1>1, <1>2

Records == Writes /\ Leads /\ CarriesNow /\ Carrying

LEMMA RecordsInit == Init => Records
<1>1. Init => Writes /\ Leads  BY WritesInit, LeadsInit
<1>2. Init => ~ Stopped  BY DEF Init, Stopped
<1> QED  BY <1>1, <1>2, ContentCarries DEF Records, CarriesNow, Carrying

LEMMA RecordsNext ==
  ASSUME NoneShort, Records, [Next]_vars, CarriesNow'  PROVE  Records'
<1>1. Writes'  BY WritesNext DEF Records
<1>2. Leads'  BY <1>1, LeadsNext DEF Records, Writes
<1> QED  BY <1>1, <1>2, CarryingNext DEF Records

LEMMA RecordsHold == NoneShort => (Spec => []Records)
<1> SUFFICES ASSUME NoneShort PROVE Spec => []Records  OBVIOUS
<1>1. Writes => CarriesNow  BY ContentCarries
<1>2. Writes /\ [Next]_vars => Writes'  BY WritesNext
<1>3. Records => Writes  BY DEF Records
<1>4. Records /\ [Next]_vars /\ CarriesNow' => Records'  BY RecordsNext
<1> QED  BY <1>1, <1>2, <1>3, <1>4, RecordsInit, PTL DEF Spec
==============================================================================
