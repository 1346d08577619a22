-------------------------- MODULE MultiVolumeProofs --------------------------
(***************************************************************************)
(* Whatever volumes the operator mounts, a member is read as it was        *)
(* written, the volume that comes next is accepted, and an archive that    *)
(* was written to its end is read to its end.                              *)
(***************************************************************************)
EXTENDS MultiVolume, VolumeWriterProofs

(* What create.c leaves to the reader.                                     *)
Ended == pc \in {"done", "fatal"}
Written ==
  /\ \A v \in 1 .. Len(volumes) :
       Len(volumes[v]) >= BF /\ Sound(size, volumes[v], Len(volumes[v]))
  /\ \A k \in 1 .. Len(volumes[1]) : volumes[1][k].kind # "multivol"
  /\ \A v \in 2 .. Len(volumes) :
       Continues(LabelSize, volumes[v - 1], volumes[v], Len(volumes[v]))

(* The types of the reader.                                                *)
RTyped ==
  /\ setting \in Settings /\ volumes \in Seq(Seq(Block)) /\ volumes # <<>>
  /\ RB \in Nat \ {0}
  /\ vol \in 1 .. Len(volumes) /\ accepted \in 1 .. Len(volumes)
  /\ pos \in 0 .. Len(volumes[vol]) /\ mistakes \in Nat
  /\ rrecord \in [Reader!RSlots -> Block]
  /\ rend \in 0 .. RB /\ rcur \in 0 .. rend /\ hit_eof \in BOOLEAN
  /\ rsave \in Tracked /\ rreal \in Tracked
  /\ continued \in [name : Names \cup {NoName}, size : Nat, off : Nat]
  /\ nvpc \in {"none", "mount", "first", "second", "check"}
  /\ rleft \in Nat /\ keep \in BOOLEAN /\ out \in Seq(Block)
  /\ rpc \in {"open", "header", "zero", "member", "data", "done", "fatal"}

(* How many blocks of the mounted volume were consumed.                    *)
Consumed == pos - rend + rcur

(* The member that is being read is open after n blocks of volume v.       *)
Open == rpc \in {"member", "data"}
OpenIn(v, n) ==
  \E k \in 1 .. n :
    /\ IsHead(volumes[v][k]) /\ volumes[v][k].name = rsave.name
    /\ volumes[v][k].size = rleft + (n - k)
    /\ volumes[v][k].size + volumes[v][k].off = rsave.total

(* What was delivered from the header at h to i is one member.             *)
Run(o, h, i) ==
  o[h].kind = "header" /\ \A j \in h + 1 .. i : o[j] = Data(o[h].name, j - h - 1)
Delivered ==
  \A i \in 1 .. Len(out) : out[i].kind = "header" \/ \E h \in 1 .. i - 1 : Run(out, h, i)

(* The record holds what comes before the place the device is at.          *)
Buffered ==
  nvpc # "mount" /\ ~ hit_eof =>
    rend <= pos /\ \A i \in 0 .. rend - 1 : rrecord[i] = volumes[vol][pos - rend + i + 1]

(* Where try_new_volume is on the volume it has mounted.                   *)
Mounting ==
  /\ hit_eof => rpc = "fatal" \/ (nvpc = "none" /\ rcur = rend)
  /\ ~ hit_eof /\ nvpc # "none" => rend = RB
  /\ rpc = "fatal" => nvpc \in {"none", "mount"}
  /\ nvpc = "first" => rcur = 0 /\ Consumed = 0
  /\ nvpc = "second" => rcur <= 1 /\ Consumed = 1 /\ volumes[vol][1].kind = "volhdr"
  /\ nvpc \in {"first", "second"} => continued = Reader!NotContinued

(* It has seen whether the volume continues a member, and which.           *)
Checked ==
  nvpc = "check" =>
    IF continued.name # NoName
    THEN Consumed > 0 /\ volumes[vol][Consumed] = MultiVol(continued.name, continued.size, continued.off)
    ELSE /\ Consumed < Len(volumes[vol])
         /\ \A k \in 1 .. Consumed + 1 : volumes[vol][k].kind # "multivol"
         /\ vol > 1 => LabelSize <= Consumed

(* No such header comes later on the volume.                               *)
Located ==
  nvpc = "none" =>
    /\ vol = accepted
    /\ ~ hit_eof => \A k \in 1 .. Len(volumes[vol]) : k > Consumed => volumes[vol][k].kind # "multivol"

(* Where list.c is in the member, and what it has told buffer.c.           *)
Gathered ==
  /\ rpc \in {"open", "header", "zero"} => rsave.name = NoName
  /\ Open => /\ rsave.name \in Names /\ rsave.total = size[rsave.name]
             /\ rleft <= rsave.total /\ keep
             /\ rsave.total - rleft < Len(out)
             /\ out[Len(out) - (rsave.total - rleft)].name = rsave.name
             /\ Run(out, Len(out) - (rsave.total - rleft), Len(out))
  /\ rpc = "data" => rleft > 0 /\ rsave.left = rleft
Following ==
  /\ Gathered
  /\ Open /\ nvpc = "none" /\ ~ hit_eof => OpenIn(vol, Consumed)
  /\ nvpc # "none" /\ rpc # "fatal" =>
       /\ rpc \notin {"member", "done"}
       /\ rreal.name = rsave.name
       /\ rpc = "data" => rreal = rsave /\ OpenIn(accepted, Len(volumes[accepted]))

Intact == Buffered /\ Mounting /\ Checked /\ Located /\ Following
RInv ==
  /\ Inv /\ RTyped
  /\ ~ Ended => Reader!Init
  /\ Ended /\ WholeRecords /\ RB <= BF => Intact
  /\ WholeRecords /\ RB <= BF => Delivered
-----------------------------------------------------------------------------
(* The two runs.                                                           *)
LEMMA WriterStops == Inv /\ Ended => ~ Next
<1> SUFFICES ASSUME Inv, Ended, Next PROVE FALSE  OBVIOUS
<1>1. pc \in {"done", "fatal"} /\ (pc = "done" => nv = "none")
  BY DEF Inv, Told, Ended
<1> QED
  BY <1>1
  DEF Next, Dump, FlushWrite, VolumeChange, FlushPoint, Changing,
      WriteLabel, NextMember, WriteHeader, SizeLeft, FillFull, FillShort, ReadError, Pad,
      EndMember, StartEot, Eot1, Eot2, Close, FlushWhole, FlushFatal, NoMoreVolumes,
      ChangeVolume, SimpleFlushWrite, SimpleFlushFatal, AddVolumeLabel,
      AddMultiVolumeHeader, CopyChunk, VolumeChanged

LEMMA ReadingKeeps == Reading => UNCHANGED <<vars, RB>>
<1> SUFFICES ASSUME Reading PROVE UNCHANGED <<vars, RB>>  OBVIOUS
<1>1. Reader!Next  BY DEF Reading
<1>2. UNCHANGED <<volumes, RB>>
  BY <1>1
  DEF Reader!Next, Reader!Read, Reader!TryNewVolume, Reader!Operator, Reader!fixed,
      Reader!FlushRead, Reader!EndOfVolume, Reader!Opened, Reader!ReadHeader,
      Reader!SkipBlock, Reader!ZeroBlock, Reader!EndOfArchive, Reader!NextChunk,
      Reader!ReadData, Reader!UnexpectedEof, Reader!MemberRead, Reader!RefillSimple,
      Reader!NoFirstBlock, Reader!VolumeLabel, Reader!MultiVolumeHeader, Reader!OtherBlock,
      Reader!AcceptVolume, Reader!RefuseVolume, Reader!Quit, Reader!MountVolume
<1> QED  BY <1>2 DEF Reading, vars, device

LEMMA ArchiveWritten == Inv /\ WholeRecords /\ Ended => Written
<1> SUFFICES ASSUME Inv, WholeRecords, Ended PROVE Written  OBVIOUS
<1>0. Typed /\ Safe  BY DEF Inv
<1>1. Mounted # <<>> /\ Len(Mounted) >= BF
  BY <1>0 DEF Safe, Finishing, LastVolume, Ended
<1>2. /\ Len(volumes) \in Nat /\ Len(volumes) >= 1 /\ LabelSize \in Nat
      /\ Level \in Nat /\ Len(Mounted) \in 0 .. Level /\ Prolongs(Mounted, Line, Len(Mounted))
      /\ Mounted = volumes[Len(volumes)]
  <2>1. /\ Len(Mounted) \in Nat /\ Level \in Nat /\ Level = Len(Mounted) + cur /\ cur \in Nat
        /\ \A k \in 1 .. Len(Mounted) : Line[k] = Mounted[k]
        /\ LabelSize \in Nat
    BY <1>0, LineFacts DEF Typed
  <2>2. Len(volumes) \in Nat /\ Len(volumes) >= 1  BY <1>0, GivenTypes
  <2> QED  BY <2>1, <2>2 DEF Prolongs, Mounted
<1>3. Sound(size, Mounted, Len(Mounted))
  BY <1>0, <1>2, SoundPrefix DEF Safe, LastVolume
<1>4. \A v \in 1 .. Len(volumes) :
        Len(volumes[v]) >= BF /\ Sound(size, volumes[v], Len(volumes[v]))
  <2> SUFFICES ASSUME NEW v \in 1 .. Len(volumes)
               PROVE  Len(volumes[v]) >= BF /\ Sound(size, volumes[v], Len(volumes[v]))
    OBVIOUS
  <2>1. CASE v = Len(volumes)  BY <2>1, <1>1, <1>2, <1>3
  <2>2. CASE v # Len(volumes)
    <3>1. v \in 1 .. Len(volumes) - 1  BY <2>2, <1>2
    <3> QED  BY <3>1, <1>0 DEF Safe, FullVolumes
  <2> QED  BY <2>1, <2>2
<1>5. \A v \in 2 .. Len(volumes) :
        Continues(LabelSize, volumes[v - 1], volumes[v], Len(volumes[v]))
  <2> SUFFICES ASSUME NEW v \in 2 .. Len(volumes)
               PROVE  Continues(LabelSize, volumes[v - 1], volumes[v], Len(volumes[v]))
    OBVIOUS
  <2>1. CASE v = Len(volumes)
    <3>1. Len(volumes) # 1  BY <2>1
    <3>2. Continues(LabelSize, volumes[v - 1], Line, Level)
      BY <2>1, <3>1, <1>0 DEF Safe, LastVolume
    <3>3. Continues(LabelSize, volumes[v - 1], Mounted, Len(Mounted))
      BY <3>2, <1>2, ContinuesPrefix
    <3> QED  BY <3>3, <2>1, <1>2
  <2>2. CASE v # Len(volumes)
    <3>1. v \in 2 .. Len(volumes) - 1  BY <2>2, <1>2
    <3> QED  BY <3>1, <1>0 DEF Safe, FullVolumes
  <2> QED  BY <2>1, <2>2
<1>6. \A k \in 1 .. Len(volumes[1]) : volumes[1][k].kind # "multivol"
  <2>1. CASE Len(volumes) = 1
    <3>1. \A k \in 1 .. Level : Line[k].kind # "multivol"
      BY <2>1, <1>0 DEF Safe, LastVolume
    <3>2. volumes[1] = Mounted  BY <2>1, <1>2
    <3> QED  BY <3>1, <3>2, <1>2 DEF Prolongs
  <2>2. CASE Len(volumes) # 1
    <3>1. Len(volumes) > 1  BY <2>2, <1>2
    <3> QED  BY <3>1, <1>0 DEF Safe, FullVolumes
  <2> QED  BY <2>1, <2>2
<1> QED  BY <1>4, <1>5, <1>6 DEF Written
-----------------------------------------------------------------------------
(* Types of the reader.                                                    *)
LEMMA ReaderTypes ==
  ASSUME RTyped
  PROVE  /\ Len(volumes) \in Nat /\ Len(volumes[vol]) \in Nat /\ pos \in Nat
         /\ rcur \in Nat /\ rend \in Nat /\ rcur <= rend /\ rend <= RB
         /\ rcur < rend => Reader!block \in Block
<1>1. volumes[vol] \in Seq(Block)  BY DEF RTyped
<1>2. rcur < rend => rcur \in Reader!RSlots  BY DEF RTyped, Reader!RSlots
<1> QED  BY <1>1, <1>2 DEF RTyped, Reader!block

LEMMA VolumeTypes ==
  ASSUME RTyped
  PROVE  /\ DOMAIN volumes = 1 .. Len(volumes)
         /\ \A v \in 1 .. Len(volumes) :
              /\ volumes[v] \in Seq(Block) /\ Len(volumes[v]) \in Nat
              /\ 0 \in 0 .. Len(volumes[v])
<1>1. volumes \in Seq(Seq(Block))  BY DEF RTyped
<1>2. \A v \in 1 .. Len(volumes) : volumes[v] \in Seq(Block)  BY <1>1
<1>3. \A v \in 1 .. Len(volumes) : Len(volumes[v]) \in Nat  BY <1>2
<1> QED  BY <1>1, <1>2, <1>3

LEMMA LoadedTypes ==
  ASSUME RTyped, NEW v \in 1 .. Len(volumes), NEW p \in 0 .. Len(volumes[v])
  PROVE  /\ Reader!Available(v, p) \in 0 .. RB
         /\ p + Reader!Available(v, p) \in 0 .. Len(volumes[v])
         /\ Reader!Loaded(v, p, Reader!Available(v, p)) \in [Reader!RSlots -> Block]
         /\ \A i \in 0 .. Reader!Available(v, p) - 1 :
              Reader!Loaded(v, p, Reader!Available(v, p))[i] = volumes[v][p + i + 1]
<1> DEFINE n == Reader!Available(v, p)
<1>1. RB \in Nat /\ volumes[v] \in Seq(Block) /\ Len(volumes[v]) \in Nat
  BY DEF RTyped
<1>2. n \in 0 .. RB /\ n <= Len(volumes[v]) - p
  BY <1>1 DEF Reader!Available, Reader!Least
<1> HIDE DEF n
<1>3. ASSUME NEW i \in Reader!RSlots, i < n  PROVE volumes[v][p + i + 1] \in Block
  <2>1. p + i + 1 \in 1 .. Len(volumes[v])  BY <1>1, <1>2, <1>3 DEF Reader!RSlots
  <2> QED  BY <2>1, <1>1
<1>4. Reader!Loaded(v, p, n) \in [Reader!RSlots -> Block]
  BY <1>3 DEF RTyped, Reader!Loaded
<1>5. ASSUME NEW i \in 0 .. n - 1  PROVE Reader!Loaded(v, p, n)[i] = volumes[v][p + i + 1]
  <2>1. i \in Reader!RSlots /\ i < n  BY <1>1, <1>2 DEF Reader!RSlots
  <2> QED  BY <2>1 DEF Reader!Loaded
<1> QED  BY <1>1, <1>2, <1>4, <1>5 DEF n

LEMMA IdleTypes ==
  ASSUME Typed, Reader!Init, RB \in Nat \ {0}
  PROVE  RTyped
<1>1. 1 \in 1 .. Len(volumes) /\ Len(volumes[1]) \in Nat
  <2>1. Len(volumes) \in Nat \ {0}  BY GivenTypes
  <2> QED  BY <2>1 DEF Typed
<1>2. rrecord \in [Reader!RSlots -> Block]
  BY BlocksAreBlocks DEF Reader!Init, Reader!Junk, Junk
<1>3. rsave \in Tracked /\ rreal \in Tracked
  BY DEF Reader!Init, Reader!NoMember, Tracked
<1>4. continued \in [name : Names \cup {NoName}, size : Nat, off : Nat]
  BY DEF Reader!Init, Reader!NotContinued
<1>5. /\ vol = 1 /\ accepted = 1 /\ pos = 0 /\ mistakes = 0 /\ rend = 0 /\ rcur = 0
      /\ hit_eof = FALSE /\ nvpc = "none" /\ rleft = 0 /\ keep = TRUE /\ out = <<>> /\ rpc = "open"
  BY DEF Reader!Init
<1>6. setting \in Settings /\ volumes \in Seq(Seq(Block)) /\ volumes # <<>>  BY DEF Typed
<1>7. /\ vol \in 1 .. Len(volumes) /\ accepted \in 1 .. Len(volumes) /\ pos \in 0 .. Len(volumes[vol])
  BY <1>1, <1>5
<1>8. rend \in 0 .. RB /\ rcur \in 0 .. rend /\ out \in Seq(Block)  BY <1>5
<1> QED  BY <1>2, <1>3, <1>4, <1>5, <1>6, <1>7, <1>8 DEF RTyped

LEMMA RTypedInit == MVInit => RTyped
<1> SUFFICES ASSUME MVInit PROVE RTyped  OBVIOUS
<1>1. Init /\ Reader!Init /\ RB \in setting.reader_factors  BY DEF MVInit
<1>2. Typed  BY <1>1, InitInv
<1>3. RB \in Nat \ {0}  BY <1>1, <1>2, ReaderAssumption DEF Typed
<1>4. Len(volumes) = 1 /\ Len(volumes[1]) = 0  BY <1>1 DEF Init
<1> QED  BY <1>1, <1>2, <1>3, <1>4, IdleTypes DEF Typed

LEMMA RTypedNext == RTyped /\ Reading => RTyped'
<1> SUFFICES ASSUME RTyped, Reading PROVE RTyped'  OBVIOUS
<1>0. RTyped /\ UNCHANGED <<volumes, setting, RB>> /\ Reader!Next
  BY ReadingKeeps DEF Reading, vars, given, device
<1>r. Reader!RSlots' = Reader!RSlots  BY <1>0 DEF Reader!RSlots
<1>b. rcur < rend => Reader!block \in Block  BY ReaderTypes
<1>y. Reader!MultiVolumeSync => rreal' \in Tracked
  BY DEF RTyped, Reader!MultiVolumeSync, Reader!NoMember, Tracked
<1>l. ASSUME NEW v \in 1 .. Len(volumes), NEW p \in 0 .. Len(volumes[v])
      PROVE  /\ Reader!Available(v, p) \in 0 .. RB
             /\ p + Reader!Available(v, p) \in 0 .. Len(volumes[v])
             /\ Reader!Loaded(v, p, Reader!Available(v, p)) \in [Reader!RSlots -> Block]
  BY LoadedTypes
<1> USE DEF Reader!fixed, Reader!medium, Reader!rbuffer, Reader!rtracking, Reader!extraction
<1>1. CASE Reader!FlushRead
  <2>1. pos \in 0 .. Len(volumes[vol]) /\ vol \in 1 .. Len(volumes)  BY DEF RTyped
  <2> QED  BY <1>0, <1>1, <1>l, <1>r, <1>y, <2>1 DEF RTyped, Reader!FlushRead, Reader!RecordEnd
<1>2. CASE Reader!EndOfVolume
  BY <1>0, <1>2, <1>r, <1>y DEF RTyped, Reader!EndOfVolume
<1>3. CASE Reader!Opened
  BY <1>0, <1>3, <1>r DEF RTyped, Reader!Opened
<1>4. CASE Reader!ReadHeader
  <2>1. Reader!block \in Block  BY <1>4, <1>b DEF Reader!ReadHeader, Reader!HasBlock
  <2>2. rcur' \in 0 .. rend  BY <1>0, <1>4 DEF RTyped, Reader!ReadHeader, Reader!HasBlock
  <2>3. rsave' \in Tracked /\ rleft' \in Nat
    BY <1>4, <2>1 DEF Reader!ReadHeader, Tracked, Block
  <2>4. out' \in Seq(Block) /\ keep' \in BOOLEAN
    BY <1>0, <1>4, <2>1 DEF RTyped, Reader!ReadHeader
  <2> QED  BY <1>0, <1>4, <1>r, <2>2, <2>3, <2>4 DEF RTyped, Reader!ReadHeader
<1>5. CASE Reader!SkipBlock
  <2>1. rcur' \in 0 .. rend  BY <1>0, <1>5 DEF RTyped, Reader!SkipBlock, Reader!HasBlock
  <2>2. rsave' \in Tracked
    BY <1>0, <1>5 DEF RTyped, Reader!SkipBlock, Tracked, Reader!NoMember
  <2> QED  BY <1>0, <1>5, <1>r, <2>1, <2>2 DEF RTyped, Reader!SkipBlock
<1>6. CASE Reader!ZeroBlock
  BY <1>0, <1>6, <1>r DEF RTyped, Reader!ZeroBlock, Reader!HasBlock
<1>7. CASE Reader!EndOfArchive
  BY <1>0, <1>7, <1>r DEF RTyped, Reader!EndOfArchive
<1>8. CASE Reader!NextChunk
  BY <1>0, <1>8, <1>r DEF RTyped, Reader!NextChunk, Tracked
<1>9. CASE Reader!ReadData
  <2>1. Reader!ToRead \in 0 .. rleft /\ Reader!ToRead <= rend - rcur
    BY <1>0 DEF RTyped, Reader!ToRead, Reader!Least
  <2> HIDE DEF Reader!ToRead
  <2>2. rcur' \in 0 .. rend /\ rleft' \in Nat
    BY <1>0, <1>9, <2>1 DEF RTyped, Reader!ReadData
  <2> DEFINE s == [i \in 1 .. Reader!ToRead |-> rrecord[rcur + i - 1]]
  <2>3. s \in Seq(Block)
    <3>1. \A i \in 1 .. Reader!ToRead : rcur + i - 1 \in Reader!RSlots
      BY <1>0, <2>1 DEF RTyped, Reader!RSlots
    <3>2. s \in [1 .. Reader!ToRead -> Block]
      BY <1>0, <3>1 DEF RTyped
    <3>3. Reader!ToRead \in Nat  BY <1>0, <2>1 DEF RTyped
    <3> HIDE DEF s
    <3> QED  BY <3>2, <3>3
  <2>4. out' \in Seq(Block)
    <3>1. out' = IF keep THEN out \o s ELSE out  BY <1>9 DEF Reader!ReadData
    <3> HIDE DEF s
    <3>2. out \in Seq(Block)  BY <1>0 DEF RTyped
    <3> QED  BY <3>1, <3>2, <2>3
  <2> QED  BY <1>0, <1>9, <1>r, <2>2, <2>4 DEF RTyped, Reader!ReadData
<1>10. CASE Reader!UnexpectedEof
  BY <1>0, <1>10, <1>r DEF RTyped, Reader!UnexpectedEof
<1>11. CASE Reader!MemberRead
  BY <1>0, <1>11, <1>r DEF RTyped, Reader!MemberRead, Tracked
<1>12. CASE Reader!RefillSimple
  <2>1. pos \in 0 .. Len(volumes[vol]) /\ vol \in 1 .. Len(volumes)  BY DEF RTyped
  <2> QED  BY <1>0, <1>12, <1>l, <1>r, <2>1 DEF RTyped, Reader!RefillSimple, Reader!RecordEnd
<1>13. CASE Reader!NoFirstBlock
  BY <1>0, <1>13, <1>r DEF RTyped, Reader!NoFirstBlock
<1>14. CASE Reader!VolumeLabel
  BY <1>0, <1>14, <1>r DEF RTyped, Reader!VolumeLabel
<1>15. CASE Reader!MultiVolumeHeader
  <2>1. rrecord[rcur] \in Block
    BY <1>15, <1>b DEF Reader!MultiVolumeHeader, Reader!block
  <2> QED  BY <1>0, <1>15, <1>r, <2>1 DEF RTyped, Reader!MultiVolumeHeader, Block
<1>16. CASE Reader!OtherBlock
  BY <1>0, <1>16, <1>r DEF RTyped, Reader!OtherBlock
<1>17. CASE Reader!AcceptVolume
  BY <1>0, <1>17, <1>r DEF RTyped, Reader!AcceptVolume
<1>18. CASE Reader!RefuseVolume
  BY <1>0, <1>18, <1>r DEF RTyped, Reader!RefuseVolume
<1>19. CASE Reader!Quit
  BY <1>0, <1>19, <1>r DEF RTyped, Reader!Quit
<1>20. CASE \E v \in DOMAIN volumes : Reader!MountVolume(v)
  <2> PICK v \in 1 .. Len(volumes) : Reader!MountVolume(v)  BY <1>0, <1>20 DEF RTyped
  <2>1. 0 \in 0 .. Len(volumes[v])  BY <1>0 DEF RTyped
  <2>2. /\ Reader!Available(v, 0) \in 0 .. RB
        /\ Reader!Available(v, 0) \in 0 .. Len(volumes[v])
        /\ Reader!Loaded(v, 0, Reader!Available(v, 0)) \in [Reader!RSlots -> Block]
    BY <2>1, <1>l
  <2>3. continued' \in [name : Names \cup {NoName}, size : Nat, off : Nat]
    BY DEF Reader!MountVolume, Reader!NotContinued
  <2>4. mistakes' \in Nat
    <3>1. mistakes' = mistakes \/ mistakes' = mistakes + 1  BY DEF Reader!MountVolume
    <3> QED  BY <3>1, <1>0 DEF RTyped
  <2> QED  BY <1>0, <1>r, <2>2, <2>3, <2>4 DEF RTyped, Reader!MountVolume
<1> QED
  BY <1>0, <1>1, <1>2, <1>3, <1>4, <1>5, <1>6, <1>7, <1>8, <1>9, <1>10, <1>11, <1>12, <1>13,
     <1>14, <1>15, <1>16, <1>17, <1>18, <1>19, <1>20
  DEF Reader!Next, Reader!Read, Reader!TryNewVolume, Reader!Operator
-----------------------------------------------------------------------------
(* What is still in the record is what comes next on the volume.           *)
LEMMA Ahead ==
  ASSUME RTyped, Buffered, nvpc # "mount", ~ hit_eof
  PROVE  /\ Consumed \in 0 .. Len(volumes[vol]) /\ Len(volumes[vol]) \in Nat
         /\ Consumed + (rend - rcur) <= Len(volumes[vol])
         /\ \A i \in 0 .. (rend - rcur) - 1 : rrecord[rcur + i] = volumes[vol][Consumed + i + 1]
         /\ rcur < rend => Reader!block = volumes[vol][Consumed + 1]
         /\ rcur = rend => Consumed = pos
<1>1. /\ pos \in 0 .. Len(volumes[vol]) /\ Len(volumes[vol]) \in Nat
      /\ rend \in Nat /\ rcur \in 0 .. rend /\ rend <= pos
      /\ \A i \in 0 .. rend - 1 : rrecord[i] = volumes[vol][pos - rend + i + 1]
  <2>1. rend <= pos /\ \A i \in 0 .. rend - 1 : rrecord[i] = volumes[vol][pos - rend + i + 1]
    BY DEF Buffered
  <2> QED  BY <2>1, ReaderTypes DEF RTyped
<1>2. ASSUME NEW i \in 0 .. (rend - rcur) - 1
      PROVE  rrecord[rcur + i] = volumes[vol][Consumed + i + 1]
  <2>1. rcur + i \in 0 .. rend - 1 /\ pos - rend + (rcur + i) + 1 = Consumed + i + 1
    BY <1>1 DEF Consumed
  <2> QED  BY <2>1, <1>1
<1>3. rcur < rend => Reader!block = volumes[vol][Consumed + 1]
  <2>1. rcur < rend => 0 \in 0 .. (rend - rcur) - 1  BY <1>1
  <2>2. rcur + 0 = rcur /\ Consumed + 0 + 1 = Consumed + 1  BY <1>1 DEF Consumed
  <2> QED  BY <2>1, <2>2, <1>2 DEF Reader!block
<1> QED  BY <1>1, <1>2, <1>3 DEF Consumed

(* A record fits on every volume.                                          *)
LEMMA RecordFits ==
  ASSUME RTyped, Written, RB <= BF, NEW v \in 1 .. Len(volumes)
  PROVE  Reader!Available(v, 0) = RB
BY WriterAssumption DEF RTyped, Written, Reader!Available, Reader!Least

(* How a step leaves the buffer alone.                                     *)
Kept ==
  /\ UNCHANGED <<vol, pos, rrecord, rend>>
  /\ nvpc' # "mount" /\ ~ hit_eof' => nvpc # "mount" /\ ~ hit_eof

LEMMA Keeping ==
  ASSUME Reading
  PROVE  \/ Kept \/ Reader!FlushRead \/ Reader!EndOfVolume \/ Reader!RefillSimple
         \/ Reader!NoFirstBlock \/ \E v \in DOMAIN volumes : Reader!MountVolume(v)
BY DEF Reading, Kept, Reader!fixed, Reader!medium, Reader!rbuffer, Reader!rtracking,
      Reader!extraction, Reader!HasBlock, Reader!Identifying,
      Reader!Next, Reader!Read, Reader!TryNewVolume, Reader!Operator,
      Reader!Opened, Reader!ReadHeader, Reader!SkipBlock, Reader!ZeroBlock,
      Reader!EndOfArchive, Reader!NextChunk, Reader!ReadData, Reader!UnexpectedEof,
      Reader!MemberRead, Reader!VolumeLabel, Reader!MultiVolumeHeader, Reader!OtherBlock,
      Reader!AcceptVolume, Reader!RefuseVolume, Reader!Quit

LEMMA BufferedNext ==
  ASSUME RTyped, RTyped', Written, RB <= BF, Buffered, Mounting, Reading
  PROVE  Buffered'
<1>0. UNCHANGED <<volumes, RB>>  BY ReadingKeeps DEF vars, device
<1>1. CASE Kept  BY <1>0, <1>1 DEF Kept, Buffered
<1>2. CASE Reader!FlushRead \/ Reader!RefillSimple
  <2> DEFINE n == Reader!Available(vol, pos)
  <2>1. /\ vol' = vol /\ pos' = pos + n /\ rend' = n
        /\ rrecord' = Reader!Loaded(vol, pos, n)
    BY <1>2 DEF Reader!FlushRead, Reader!RefillSimple, Reader!RecordEnd
  <2>2. /\ n \in Nat /\ pos \in Nat
        /\ \A i \in 0 .. n - 1 : Reader!Loaded(vol, pos, n)[i] = volumes[vol][pos + i + 1]
    <3>1. vol \in 1 .. Len(volumes) /\ pos \in 0 .. Len(volumes[vol]) /\ RB \in Nat
      BY DEF RTyped
    <3> QED  BY <3>1, LoadedTypes, ReaderTypes
  <2> HIDE DEF n
  <2>3. pos' - rend' = pos /\ rend' <= pos'  BY <2>1, <2>2
  <2> QED  BY <1>0, <2>1, <2>2, <2>3 DEF Buffered
<1>3. CASE Reader!EndOfVolume \/ Reader!NoFirstBlock
  BY <1>3 DEF Buffered, Reader!EndOfVolume, Reader!NoFirstBlock
<1>4. CASE \E v \in DOMAIN volumes : Reader!MountVolume(v)
  <2> PICK v \in 1 .. Len(volumes) : Reader!MountVolume(v)  BY <1>4, VolumeTypes
  <2>1. Reader!Available(v, 0) = RB  BY RecordFits
  <2>2. /\ nvpc = "mount" /\ vol' = v /\ pos' = RB /\ rend' = rend /\ hit_eof' = hit_eof
        /\ rrecord' = Reader!Loaded(v, 0, RB)
    BY <2>1 DEF Reader!MountVolume
  <2>3. ~ hit_eof => rend = RB  BY <2>2 DEF Mounting
  <2>4. \A i \in 0 .. RB - 1 : Reader!Loaded(v, 0, RB)[i] = volumes[v][i + 1]
    <3>1. 0 \in 0 .. Len(volumes[v])  BY VolumeTypes
    <3>2. \A i \in 0 .. RB - 1 : Reader!Loaded(v, 0, RB)[i] = volumes[v][0 + i + 1]
      BY <2>1, <3>1, LoadedTypes
    <3>3. \A i \in 0 .. RB - 1 : 0 + i + 1 = i + 1  OBVIOUS
    <3> QED  BY <3>2, <3>3
  <2>5. RB \in Nat /\ \A i \in 0 .. RB - 1 : RB - RB + i + 1 = i + 1  BY DEF RTyped
  <2> QED  BY <1>0, <2>2, <2>3, <2>4, <2>5 DEF Buffered
<1> QED  BY <1>1, <1>2, <1>3, <1>4, Keeping

LEMMA MountingNext ==
  ASSUME RTyped, RTyped', Written, RB <= BF, Buffered, Mounting, Following, Reading
  PROVE  Mounting'
<1>0. /\ UNCHANGED <<volumes, RB, setting>> /\ Reader!Next /\ RB \in Nat \ {0}
      /\ rend \in 0 .. RB /\ rcur \in 0 .. rend /\ pos \in Nat
  BY ReadingKeeps, ReaderTypes DEF vars, device, given, Reading, RTyped
<1>m. /\ hit_eof => rpc = "fatal" \/ (nvpc = "none" /\ rcur = rend)
      /\ ~ hit_eof /\ nvpc # "none" => rend = RB
      /\ rpc = "fatal" => nvpc \in {"none", "mount"}
      /\ nvpc = "first" => rcur = 0 /\ Consumed = 0
      /\ nvpc = "second" => rcur <= 1 /\ Consumed = 1 /\ volumes[vol][1].kind = "volhdr"
      /\ nvpc \in {"first", "second"} => continued = Reader!NotContinued
  BY DEF Mounting
<1>f. nvpc # "none" /\ rpc # "fatal" => rpc # "member"
  BY DEF Following, Gathered
<1> USE DEF Reader!fixed, Reader!medium, Reader!rbuffer, Reader!rtracking, Reader!extraction,
            Reader!Identifying, Reader!HasBlock, Reader!AtEof, Reader!NeedsBlock
<1>1. CASE Reader!FlushRead
  BY <1>0, <1>1, <1>m DEF Mounting, Reader!FlushRead
<1>2. CASE Reader!EndOfVolume
  BY <1>0, <1>2, <1>m DEF Mounting, Reader!EndOfVolume
<1>3. CASE Reader!Opened \/ Reader!EndOfArchive \/ Reader!UnexpectedEof \/ Reader!ZeroBlock
           \/ Reader!ReadHeader \/ Reader!SkipBlock \/ Reader!NextChunk \/ Reader!ReadData
           \/ Reader!MemberRead
  <2>1. /\ nvpc = "none" /\ nvpc' = "none" /\ hit_eof' = hit_eof
        /\ rcur' = rcur \/ rcur < rend
        /\ rend' = rend
    BY <1>3, <1>m, <1>f
    DEF Reader!Opened, Reader!EndOfArchive, Reader!UnexpectedEof, Reader!ZeroBlock,
        Reader!ReadHeader, Reader!SkipBlock, Reader!NextChunk, Reader!ReadData, Reader!MemberRead
  <2>2. rpc # "fatal"
    BY <1>3
    DEF Reader!Opened, Reader!EndOfArchive, Reader!UnexpectedEof, Reader!ZeroBlock,
        Reader!ReadHeader, Reader!SkipBlock, Reader!NextChunk, Reader!ReadData, Reader!MemberRead
  <2> QED  BY <2>1, <2>2, <1>0, <1>m DEF Mounting
<1>4. CASE Reader!RefillSimple
  <2> DEFINE n == Reader!Available(vol, pos)
  <2>1. /\ nvpc \in {"first", "second"} /\ rpc # "fatal" /\ ~ hit_eof /\ rcur = rend /\ n > 0
        /\ pos' = pos + n /\ rcur' = 0 /\ rend' = n /\ vol' = vol
        /\ UNCHANGED <<hit_eof, nvpc, rpc, continued>>
    BY <1>4 DEF Reader!RefillSimple, Reader!RecordEnd
  <2>2. n \in 0 .. RB
    <3>1. vol \in 1 .. Len(volumes) /\ pos \in 0 .. Len(volumes[vol])  BY DEF RTyped
    <3> QED  BY <3>1, LoadedTypes
  <2> HIDE DEF n
  <2>3. nvpc = "second" /\ RB = 1 /\ n = 1 /\ rcur = 1 /\ rend = 1
    BY <1>0, <1>m, <2>1, <2>2
  <2>4. Consumed' = Consumed  BY <2>1, <2>3, <1>0 DEF Consumed
  <2> QED  BY <1>0, <1>m, <2>1, <2>3, <2>4 DEF Mounting
<1>5. CASE Reader!NoFirstBlock
  <2>1. nvpc = "second"  BY <1>0, <1>m, <1>5 DEF Reader!NoFirstBlock
  <2> QED  BY <1>0, <1>5, <2>1 DEF Mounting, Reader!NoFirstBlock
<1>6. CASE Reader!VolumeLabel
  <2>1. /\ nvpc = "first" /\ rcur < rend /\ rpc # "fatal" /\ rrecord[rcur].kind = "volhdr"
        /\ rcur' = rcur + 1 /\ nvpc' = "second"
        /\ UNCHANGED <<vol, pos, rend, hit_eof, continued, rpc>>
    BY <1>6 DEF Reader!VolumeLabel
  <2>2. ~ hit_eof /\ rcur = 0 /\ Consumed = 0  BY <2>1, <1>m
  <2>3. volumes[vol][1].kind = "volhdr"
    BY <2>1, <2>2, Ahead DEF Reader!block
  <2>4. Consumed' = 1  BY <2>1, <2>2, <1>0 DEF Consumed
  <2> QED  BY <1>0, <1>m, <2>1, <2>2, <2>3, <2>4 DEF Mounting
<1>7. CASE Reader!MultiVolumeHeader \/ Reader!OtherBlock
  BY <1>0, <1>7, <1>m DEF Mounting, Reader!MultiVolumeHeader, Reader!OtherBlock
<1>8. CASE Reader!AcceptVolume
  BY <1>0, <1>8, <1>m DEF Mounting, Reader!AcceptVolume
<1>9. CASE Reader!RefuseVolume
  BY <1>0, <1>9, <1>m DEF Mounting, Reader!RefuseVolume
<1>10. CASE Reader!Quit
  BY <1>0, <1>10, <1>m DEF Mounting, Reader!Quit
<1>11. CASE \E v \in DOMAIN volumes : Reader!MountVolume(v)
  <2> PICK v \in 1 .. Len(volumes) : Reader!MountVolume(v)  BY <1>11, VolumeTypes
  <2>1. Reader!Available(v, 0) = RB  BY RecordFits
  <2>2. /\ nvpc = "mount" /\ rpc # "fatal" /\ vol' = v /\ pos' = RB /\ rend' = rend
        /\ rcur' = 0 /\ nvpc' = "first" /\ continued' = Reader!NotContinued
        /\ UNCHANGED <<hit_eof, rpc>>
    BY <2>1 DEF Reader!MountVolume
  <2>3. Consumed' = 0 /\ rend = RB  BY <2>2, <1>0, <1>m DEF Consumed
  <2> QED  BY <1>0, <1>m, <2>2, <2>3 DEF Mounting, Reader!NotContinued
<1> QED
  BY <1>0, <1>1, <1>2, <1>3, <1>4, <1>5, <1>6, <1>7, <1>8, <1>9, <1>10, <1>11
  DEF Reader!Next, Reader!Read, Reader!TryNewVolume, Reader!Operator

(* The headers on the volumes.                                             *)
LEMMA HeadsWritten ==
  ASSUME RTyped, Written, NEW v \in 1 .. Len(volumes), NEW k \in 1 .. Len(volumes[v]),
         IsHead(volumes[v][k])
  PROVE  /\ volumes[v][k].name \in Names /\ volumes[v][k].size \in Nat /\ volumes[v][k].off \in Nat
         /\ volumes[v][k].off + volumes[v][k].size = size[volumes[v][k].name]
         /\ volumes[v][k].kind = "header" => volumes[v][k].off = 0
         /\ \A j \in 1 .. volumes[v][k].size : k + j <= Len(volumes[v]) =>
              volumes[v][k + j] = Data(volumes[v][k].name, volumes[v][k].off + j - 1)
<1>1. Sound(size, volumes[v], Len(volumes[v]))  BY DEF Written
<1> QED  BY <1>1 DEF Sound, HeadsTrue, RunsOn

LEMMA OnlyFirstIsMultiVol ==
  ASSUME RTyped, Written, NEW v \in 1 .. Len(volumes), NEW k \in 1 .. Len(volumes[v]),
         volumes[v][k].kind = "multivol"
  PROVE  v > 1 /\ v \in 2 .. Len(volumes) /\ k = LabelSize + 1
<1>1. v # 1  BY DEF Written
<1>2. v \in 2 .. Len(volumes)  BY <1>1, ReaderTypes
<1>3. Continues(LabelSize, volumes[v - 1], volumes[v], Len(volumes[v]))  BY <1>2 DEF Written
<1> QED  BY <1>2, <1>3 DEF Continues

LEMMA CheckedNext ==
  ASSUME RTyped, RTyped', Written, RB <= BF, Buffered, Mounting, Checked, Following, Reading
  PROVE  Checked'
<1>0. UNCHANGED <<volumes, setting>> /\ LabelSize' = LabelSize /\ LabelSize \in {0, 1}
  BY ReadingKeeps DEF vars, device, given, LabelSize, volume_label_option
<1> USE DEF Reader!fixed, Reader!medium, Reader!rbuffer, Reader!rtracking, Reader!extraction,
            Reader!Identifying, Reader!HasBlock, Reader!AtEof, Reader!NeedsBlock
<1>1. CASE nvpc' # "check"  BY <1>1 DEF Checked
<1>2. CASE Reader!MultiVolumeHeader
  <2>1. /\ nvpc \in {"first", "second"} /\ rpc # "fatal" /\ rcur < rend
        /\ Reader!block.kind = "multivol"
        /\ continued' = [name |-> Reader!block.name, size |-> Reader!block.size,
                         off |-> Reader!block.off]
        /\ rcur' = rcur + 1 /\ UNCHANGED <<vol, pos, rend>>
    BY <1>2 DEF Reader!MultiVolumeHeader, Reader!block
  <2>2. /\ Reader!block = volumes[vol][Consumed + 1] /\ Consumed + 1 \in 1 .. Len(volumes[vol])
        /\ Reader!block \in Block /\ Consumed' = Consumed + 1
    <3>1. ~ hit_eof  BY <2>1 DEF Mounting
    <3>2. /\ Reader!block = volumes[vol][Consumed + 1] /\ Reader!block \in Block
          /\ Consumed \in 0 .. Len(volumes[vol]) /\ Len(volumes[vol]) \in Nat
          /\ Consumed + (rend - rcur) <= Len(volumes[vol])
      BY <2>1, <3>1, Ahead, ReaderTypes
    <3>3. pos \in Nat /\ rend \in Nat /\ rcur \in Nat  BY ReaderTypes
    <3>4. Consumed' = Consumed + 1  BY <2>1, <3>3 DEF Consumed
    <3>5. Consumed + 1 \in 1 .. Len(volumes[vol])  BY <2>1, <3>2, <3>3
    <3> QED  BY <3>2, <3>4, <3>5
  <2>3. Reader!block.name \in Names
    <3>1. IsHead(volumes[vol][Consumed + 1])  BY <2>1, <2>2 DEF IsHead
    <3>2. vol \in 1 .. Len(volumes)  BY DEF RTyped
    <3> QED  BY <2>2, <3>1, <3>2, HeadsWritten
  <2>4. Reader!block = MultiVol(continued'.name, continued'.size, continued'.off)
    <3>1. Reader!block = [kind |-> Reader!block.kind, name |-> Reader!block.name,
                          size |-> Reader!block.size, off |-> Reader!block.off]
      BY <2>2 DEF Block
    <3> QED  BY <2>1, <3>1 DEF MultiVol
  <2>5. continued'.name # NoName /\ Consumed' > 0
    BY <2>1, <2>2, <2>3, NoNameAssumption
  <2>6. volumes'[vol'][Consumed'] = Reader!block  BY <1>0, <2>1, <2>2
  <2> QED  BY <2>4, <2>5, <2>6 DEF Checked
<1>3. CASE Reader!OtherBlock
  <2>1. /\ nvpc \in {"first", "second"} /\ rpc # "fatal" /\ rcur < rend
        /\ Reader!block.kind # "multivol"
        /\ nvpc = "first" => Reader!block.kind # "volhdr"
        /\ UNCHANGED <<vol, pos, rend, rcur, continued>>
    BY <1>3 DEF Reader!OtherBlock, Reader!block
  <2>2. /\ Reader!block = volumes[vol][Consumed + 1] /\ Consumed < Len(volumes[vol])
        /\ Consumed' = Consumed
    <3>1. ~ hit_eof  BY <2>1 DEF Mounting
    <3>2. /\ Reader!block = volumes[vol][Consumed + 1]
          /\ Consumed \in 0 .. Len(volumes[vol]) /\ Len(volumes[vol]) \in Nat
          /\ Consumed + (rend - rcur) <= Len(volumes[vol])
      BY <2>1, <3>1, Ahead
    <3>3. pos \in Nat /\ rend \in Nat /\ rcur \in Nat  BY ReaderTypes
    <3>4. Consumed' = Consumed  BY <2>1 DEF Consumed
    <3> QED  BY <2>1, <3>2, <3>3, <3>4
  <2>3. /\ continued = Reader!NotContinued
        /\ nvpc = "first" => Consumed = 0
        /\ nvpc = "second" => Consumed = 1 /\ volumes[vol][1].kind = "volhdr"
    BY <2>1 DEF Mounting
  <2>4. continued'.name = NoName  BY <2>1, <2>3 DEF Reader!NotContinued
  <2>5. \A k \in 1 .. Consumed + 1 : volumes[vol][k].kind # "multivol"
    <3>1. CASE nvpc = "first"  BY <3>1, <2>1, <2>2, <2>3
    <3>2. CASE nvpc = "second"
      <4>1. \A k \in 1 .. Consumed + 1 : k = 1 \/ k = Consumed + 1  BY <3>2, <2>3
      <4> QED  BY <3>2, <4>1, <2>1, <2>2, <2>3
    <3> QED  BY <3>1, <3>2, <2>1
  <2>6. vol > 1 => LabelSize <= Consumed
    <3>1. CASE nvpc = "first"
      <4> SUFFICES ASSUME vol > 1 PROVE LabelSize # 1  BY <3>1, <2>3, <1>0
      <4>1. vol \in 2 .. Len(volumes)  BY DEF RTyped
      <4>2. Continues(LabelSize, volumes[vol - 1], volumes[vol], Len(volumes[vol]))
        BY <4>1 DEF Written
      <4>3. Len(volumes[vol]) > 0 /\ volumes[vol][1].kind # "volhdr"
        BY <3>1, <2>1, <2>2, <2>3
      <4> QED  BY <4>2, <4>3 DEF Continues, VolHdr
    <3>2. CASE nvpc = "second"  BY <3>2, <2>3, <1>0
    <3> QED  BY <3>1, <3>2, <2>1
  <2> QED  BY <1>0, <2>1, <2>2, <2>4, <2>5, <2>6 DEF Checked
<1> QED
  BY <1>1, <1>2, <1>3
  DEF Following, Gathered, Reading, Reader!Next, Reader!Read, Reader!TryNewVolume, Reader!Operator,
      Reader!FlushRead, Reader!EndOfVolume, Reader!Opened, Reader!ReadHeader,
      Reader!SkipBlock, Reader!ZeroBlock, Reader!EndOfArchive, Reader!NextChunk,
      Reader!ReadData, Reader!UnexpectedEof, Reader!MemberRead, Reader!RefillSimple,
      Reader!NoFirstBlock, Reader!VolumeLabel, Reader!AcceptVolume, Reader!RefuseVolume,
      Reader!Quit, Reader!MountVolume

LEMMA LocatedNext ==
  ASSUME RTyped, RTyped', Written, RB <= BF, Buffered, Mounting, Checked, Located, Following,
         Reading
  PROVE  Located'
<1>0. UNCHANGED <<volumes, setting>> /\ LabelSize \in {0, 1}
  BY ReadingKeeps DEF vars, device, given, LabelSize, volume_label_option
<1> USE DEF Reader!fixed, Reader!medium, Reader!rbuffer, Reader!rtracking, Reader!extraction,
            Reader!Identifying, Reader!HasBlock, Reader!AtEof, Reader!NeedsBlock
<1>1. CASE nvpc' # "none"  BY <1>1 DEF Located
<1>2. CASE Reader!AcceptVolume
  <2>1. /\ nvpc = "check" /\ accepted' = vol /\ UNCHANGED <<vol, pos, rend, rcur>>
    BY <1>2 DEF Reader!AcceptVolume
  <2>2. Consumed' = Consumed  BY <2>1 DEF Consumed
  <2>3. ASSUME NEW k \in 1 .. Len(volumes[vol]), k > Consumed, volumes[vol][k].kind = "multivol"
        PROVE  FALSE
    <3>1. vol \in 1 .. Len(volumes) /\ Consumed \in Int
      BY ReaderTypes DEF RTyped, Consumed
    <3>2. vol > 1 /\ k = LabelSize + 1  BY <3>1, <2>3, OnlyFirstIsMultiVol
    <3>3. CASE continued.name # NoName
      <4>1. /\ Consumed > 0 /\ Consumed \in 1 .. Len(volumes[vol])
            /\ volumes[vol][Consumed].kind = "multivol"
        BY <3>1, <3>3, <2>1, <2>3, ReaderTypes DEF Checked, MultiVol
      <4>2. Consumed = LabelSize + 1  BY <3>1, <4>1, OnlyFirstIsMultiVol
      <4> QED  BY <4>2, <3>2, <2>3
    <3>4. CASE continued.name = NoName
      <4>1. LabelSize <= Consumed /\ \A i \in 1 .. Consumed + 1 : volumes[vol][i].kind # "multivol"
        BY <3>2, <3>4, <2>1 DEF Checked
      <4>2. k \in 1 .. Consumed + 1  BY <4>1, <3>1, <3>2, <1>0
      <4> QED  BY <4>1, <4>2, <2>3
    <3> QED  BY <3>3, <3>4
  <2> QED  BY <1>0, <2>1, <2>2, <2>3 DEF Located
<1>3. ASSUME nvpc = "none", ~ Reader!AcceptVolume, nvpc' = "none"
      PROVE  /\ UNCHANGED <<vol, accepted, hit_eof>>
             /\ ~ hit_eof => Consumed' >= Consumed /\ Consumed \in Int
  <2>1. pos \in Nat /\ rend \in Nat /\ rcur \in Nat /\ rcur <= rend /\ rleft \in Nat
    BY ReaderTypes DEF RTyped
  <2>2. Consumed \in Int  BY <2>1 DEF Consumed
  <2>3. CASE Reader!FlushRead
    <3>1. Consumed' = Consumed /\ UNCHANGED <<vol, accepted, hit_eof>>
      <4> DEFINE n == Reader!Available(vol, pos)
      <4>1. rcur = rend /\ pos' = pos + n /\ rcur' = 0 /\ rend' = n
        BY <2>3 DEF Reader!FlushRead, Reader!RecordEnd
      <4>2. n \in Nat
        <5>1. vol \in 1 .. Len(volumes) /\ pos \in 0 .. Len(volumes[vol])  BY DEF RTyped
        <5>2. RB \in Nat  BY DEF RTyped
        <5> QED  BY <5>1, <5>2, LoadedTypes
      <4> HIDE DEF n
      <4>3. Consumed' = Consumed  BY <4>1, <4>2, <2>1 DEF Consumed
      <4> QED  BY <4>3, <2>3 DEF Reader!FlushRead
    <3> QED  BY <3>1, <2>2
  <2>4. CASE ~ Reader!FlushRead
    <3>1. /\ UNCHANGED <<vol, accepted, hit_eof, pos, rend>>
          /\ rcur' = rcur \/ rcur' = rcur + 1 \/ rcur' = rcur + Reader!ToRead
      BY <1>3, <2>4
      DEF Reading, Reader!Next, Reader!Read, Reader!TryNewVolume, Reader!Operator,
          Reader!EndOfVolume, Reader!Opened, Reader!ReadHeader,
          Reader!SkipBlock, Reader!ZeroBlock, Reader!EndOfArchive, Reader!NextChunk,
          Reader!ReadData, Reader!UnexpectedEof, Reader!MemberRead, Reader!RefillSimple,
          Reader!NoFirstBlock, Reader!VolumeLabel, Reader!MultiVolumeHeader,
          Reader!OtherBlock, Reader!RefuseVolume, Reader!Quit, Reader!MountVolume
    <3>2. Reader!ToRead \in Nat
      BY <2>1 DEF Reader!ToRead, Reader!Least
    <3>3. rcur' >= rcur  BY <3>1, <3>2, <2>1
    <3>4. rcur' \in Nat  BY <3>1, <3>2, <2>1
    <3>5. Consumed' >= Consumed
      <4>1. pos' = pos /\ rend' = rend  BY <3>1
      <4>2. Consumed' = pos - rend + rcur'  BY <4>1 DEF Consumed
      <4>3. Consumed = pos - rend + rcur  BY DEF Consumed
      <4>4. \A a \in Nat : a >= rcur => pos - rend + a >= pos - rend + rcur  BY <2>1
      <4>5. pos - rend + rcur' >= pos - rend + rcur  BY <3>3, <3>4, <4>4
      <4> QED  BY <4>2, <4>3, <4>5
    <3> QED  BY <3>1, <3>5, <2>2
  <2> QED  BY <2>3, <2>4
<1>4. ASSUME nvpc # "none", nvpc' = "none"  PROVE Reader!AcceptVolume
  BY <1>4
  DEF Reading, Following, Gathered, Reader!Next, Reader!Read, Reader!TryNewVolume, Reader!Operator,
      Reader!FlushRead, Reader!EndOfVolume, Reader!Opened, Reader!ReadHeader,
      Reader!SkipBlock, Reader!ZeroBlock, Reader!EndOfArchive, Reader!NextChunk,
      Reader!ReadData, Reader!UnexpectedEof, Reader!MemberRead, Reader!RefillSimple,
      Reader!NoFirstBlock, Reader!VolumeLabel, Reader!MultiVolumeHeader,
      Reader!OtherBlock, Reader!RefuseVolume, Reader!Quit, Reader!MountVolume
<1>5. CASE nvpc = "none" /\ ~ Reader!AcceptVolume /\ nvpc' = "none"
  <2>1. /\ UNCHANGED <<vol, accepted, hit_eof>>
        /\ ~ hit_eof => Consumed' >= Consumed /\ Consumed \in Int
    BY <1>3, <1>5
  <2>2. Consumed' \in Int
    <3>1. pos' \in Nat /\ rend' \in Nat /\ rcur' \in Nat
      BY DEF RTyped
    <3> QED  BY <3>1 DEF Consumed
  <2>3. vol = accepted
    BY <1>5 DEF Located
  <2>4. ASSUME ~ hit_eof, NEW k \in 1 .. Len(volumes[vol]), k > Consumed'
        PROVE  volumes[vol][k].kind # "multivol"
    <3>1. k > Consumed  BY <2>1, <2>2, <2>4
    <3> QED  BY <3>1, <2>4, <1>5 DEF Located
  <2> QED  BY <1>0, <2>1, <2>3, <2>4 DEF Located
<1> QED  BY <1>1, <1>2, <1>4, <1>5

(* The member goes on with the next blocks of the volume.                  *)
LEMMA NextBlocks ==
  ASSUME RTyped, Written, Open, Following, NEW v \in 1 .. Len(volumes), NEW n \in Nat,
         OpenIn(v, n), NEW i \in 1 .. rleft, n + i <= Len(volumes[v])
  PROVE  volumes[v][n + i] = Data(rsave.name, rsave.total - rleft + i - 1)
<1> PICK k \in 1 .. n :
      /\ IsHead(volumes[v][k]) /\ volumes[v][k].name = rsave.name
      /\ volumes[v][k].size = rleft + (n - k)
      /\ volumes[v][k].size + volumes[v][k].off = rsave.total
  BY DEF OpenIn
<1>1. Len(volumes[v]) \in Nat /\ rleft \in Nat  BY VolumeTypes DEF RTyped
<1>2. k \in 1 .. Len(volumes[v])  BY <1>1
<1> DEFINE s == volumes[v][k].size
           o == volumes[v][k].off
<1>3. /\ s \in Nat /\ o \in Nat
      /\ \A j \in 1 .. s : k + j <= Len(volumes[v]) =>
           volumes[v][k + j] = Data(volumes[v][k].name, o + j - 1)
  BY <1>2, HeadsWritten
<1>4. s = rleft + (n - k) /\ s + o = rsave.total /\ volumes[v][k].name = rsave.name
  OBVIOUS
<1> HIDE DEF s, o
<1> DEFINE j == (n - k) + i
<1>5. j \in 1 .. s /\ k + j = n + i
  <2>1. i \in Nat /\ i >= 1 /\ i <= rleft /\ n - k \in Nat /\ k \in Nat  BY <1>1
  <2>2. s = rleft + (n - k) /\ s \in Nat  BY <1>3, <1>4
  <2> QED  BY <1>1, <2>1, <2>2
<1>6. rsave.total - rleft + i - 1 = o + j - 1
  <2>1. rsave.total - rleft = o + (n - k)  BY <1>1, <1>3, <1>4
  <2> HIDE DEF o
  <2> QED  BY <1>3, <2>1
<1> HIDE DEF j
<1>7. volumes[v][k + j] = Data(volumes[v][k].name, o + j - 1)  BY <1>3, <1>5
<1> QED  BY <1>4, <1>5, <1>6, <1>7

(* What is read of it.                                                     *)
LEMMA DataRead ==
  ASSUME RTyped, Written, Buffered, Mounting, Located, Following, Reader!ReadData
  PROVE  /\ keep /\ rpc = "data" /\ nvpc = "none" /\ ~ hit_eof /\ rcur < rend
         /\ Reader!ToRead \in 1 .. rleft /\ Reader!ToRead <= rend - rcur
         /\ Consumed \in Nat /\ Consumed + Reader!ToRead <= Len(volumes[vol])
         /\ OpenIn(vol, Consumed)
         /\ \A i \in 1 .. Reader!ToRead :
              rrecord[rcur + i - 1] = Data(rsave.name, rsave.total - rleft + i - 1)
<1>1. rpc = "data" /\ nvpc = "none" /\ rcur < rend
  BY DEF Reader!ReadData, Reader!HasBlock
<1>3. rcur \in Nat /\ rend \in Nat /\ rleft \in Nat  BY ReaderTypes DEF RTyped
<1>2. ~ hit_eof /\ keep /\ rleft > 0 /\ Open
  BY <1>1, <1>3 DEF Mounting, Following, Gathered, Open
<1>4. /\ Reader!ToRead \in 1 .. rleft /\ Reader!ToRead <= rend - rcur
  BY <1>1, <1>2, <1>3 DEF Reader!ToRead, Reader!Least
<1> HIDE DEF Reader!ToRead
<1>5. /\ Consumed \in 0 .. Len(volumes[vol]) /\ Len(volumes[vol]) \in Nat
      /\ Consumed + (rend - rcur) <= Len(volumes[vol])
      /\ \A i \in 0 .. (rend - rcur) - 1 : rrecord[rcur + i] = volumes[vol][Consumed + i + 1]
  BY <1>1, <1>2, Ahead
<1>6. OpenIn(vol, Consumed)  BY <1>1, <1>2 DEF Following, Gathered
<1>7. Consumed \in Nat /\ Consumed + Reader!ToRead <= Len(volumes[vol])
  BY <1>3, <1>4, <1>5
<1>8. ASSUME NEW i \in 1 .. Reader!ToRead
      PROVE  rrecord[rcur + i - 1] = Data(rsave.name, rsave.total - rleft + i - 1)
  <2>1. /\ i - 1 \in 0 .. (rend - rcur) - 1 /\ rcur + (i - 1) = rcur + i - 1
        /\ Consumed + (i - 1) + 1 = Consumed + i
        /\ i \in 1 .. rleft /\ Consumed + i <= Len(volumes[vol])
    BY <1>3, <1>4, <1>5
  <2>2. rrecord[rcur + i - 1] = volumes[vol][Consumed + i]
    <3>1. rrecord[rcur + (i - 1)] = volumes[vol][Consumed + (i - 1) + 1]  BY <2>1, <1>5
    <3> QED  BY <3>1, <2>1
  <2>3. vol \in 1 .. Len(volumes)  BY DEF RTyped
  <2>4. volumes[vol][Consumed + i] = Data(rsave.name, rsave.total - rleft + i - 1)
    BY <1>2, <1>6, <1>7, <2>1, <2>3, NextBlocks
  <2> QED  BY <2>2, <2>4
<1> QED  BY <1>1, <1>2, <1>4, <1>6, <1>7, <1>8

LEMMA RunGrows ==
  ASSUME NEW o \in Seq(Block), NEW s \in Seq(Block), NEW h \in 1 .. Len(o), Run(o, h, Len(o)),
         \A i \in 1 .. Len(s) : s[i] = Data(o[h].name, Len(o) - h + i - 1)
  PROVE  /\ Len(o \o s) = Len(o) + Len(s) /\ \A i \in 1 .. Len(o) : (o \o s)[i] = o[i]
         /\ (o \o s)[h].name = o[h].name
         /\ \A i \in h .. Len(o) + Len(s) : Run(o \o s, h, i)
<1>1. /\ Len(o) \in Nat /\ Len(s) \in Nat /\ Len(o \o s) = Len(o) + Len(s)
      /\ \A i \in 1 .. Len(o) + Len(s) :
           (o \o s)[i] = IF i <= Len(o) THEN o[i] ELSE s[i - Len(o)]
  BY ConcatProperties
<1> DEFINE os == o \o s
<1>2. \A i \in 1 .. Len(o) : os[i] = o[i]  BY <1>1
<1>3. \A j \in h + 1 .. Len(o) + Len(s) : os[j] = Data(o[h].name, j - h - 1)
  <2> SUFFICES ASSUME NEW j \in h + 1 .. Len(o) + Len(s)
               PROVE  os[j] = Data(o[h].name, j - h - 1)
    OBVIOUS
  <2>1. j \in 1 .. Len(o) + Len(s)  BY <1>1
  <2>2. CASE j <= Len(o)
    <3>1. j \in h + 1 .. Len(o)  BY <2>2
    <3>2. os[j] = o[j]  BY <2>1, <2>2, <1>1
    <3> QED  BY <3>1, <3>2 DEF Run
  <2>3. CASE j > Len(o)
    <3>1. /\ j - Len(o) \in 1 .. Len(s) /\ Len(o) - h + (j - Len(o)) - 1 = j - h - 1
          /\ ~ j <= Len(o)
      BY <2>1, <2>3, <1>1
    <3>2. os[j] = s[j - Len(o)]  BY <2>1, <3>1, <1>1
    <3> QED  BY <3>1, <3>2
  <2> QED  BY <2>2, <2>3, <1>1
<1>4. os[h] = o[h] /\ o[h].kind = "header"  BY <1>2 DEF Run
<1> HIDE DEF os
<1>5. \A i \in h .. Len(o) + Len(s) : Run(os, h, i)
  <2> SUFFICES ASSUME NEW i \in h .. Len(o) + Len(s), NEW j \in h + 1 .. i
               PROVE  os[j] = Data(os[h].name, j - h - 1)
    BY <1>4 DEF Run
  <2>1. j \in h + 1 .. Len(o) + Len(s)  BY <1>1
  <2> QED  BY <2>1, <1>3, <1>4
<1> QED  BY <1>1, <1>2, <1>4, <1>5 DEF os

(* What was delivered of the member goes on with what is read.             *)
LEMMA MemberGrows ==
  ASSUME RTyped, Written, Buffered, Mounting, Located, Following, Reader!ReadData
  PROVE  \E h \in 1 .. Len(out) :
           /\ Len(out) - h = rsave.total - rleft
           /\ Len(out') = Len(out) + Reader!ToRead
           /\ \A i \in 1 .. Len(out) : out'[i] = out[i]
           /\ out'[h].name = rsave.name
           /\ \A i \in h .. Len(out) + Reader!ToRead : Run(out', h, i)
<1>0. out \in Seq(Block) /\ Len(out) \in Nat /\ rsave \in Tracked /\ rleft \in Nat
  <2>1. out \in Seq(Block) /\ rsave \in Tracked /\ rleft \in Nat  BY DEF RTyped
  <2> QED  BY <2>1
<1> DEFINE n == Reader!ToRead
           s == [i \in 1 .. n |-> rrecord[rcur + i - 1]]
           h == Len(out) - (rsave.total - rleft)
<1>1. /\ keep /\ rpc = "data" /\ n \in 1 .. rleft
      /\ \A i \in 1 .. n : s[i] = Data(rsave.name, rsave.total - rleft + i - 1)
  BY DataRead
<1>2. out' = out \o s  BY <1>1 DEF Reader!ReadData
<1>3. /\ rsave.name \in Names /\ rleft <= rsave.total /\ rsave.total - rleft < Len(out)
      /\ out[h].name = rsave.name /\ Run(out, h, Len(out))
  BY <1>1 DEF Following, Gathered, Open
<1>4. rsave.total \in Nat  BY <1>0 DEF Tracked
<1>5. s \in Seq(Block) /\ Len(s) = n
  <2>1. n \in Nat  BY <1>0, <1>1
  <2>2. \A i \in 1 .. n : rsave.total - rleft + i - 1 \in Nat  BY <1>0, <1>3, <1>4, <2>1
  <2>3. \A i \in 1 .. n : s[i] \in Block  BY <1>1, <1>3, <2>2, BlocksAreBlocks
  <2> HIDE DEF n
  <2>4. s \in [1 .. n -> Block]  BY <2>3
  <2> HIDE DEF s
  <2> QED  BY <2>1, <2>4
<1> HIDE DEF s
<1>6. h \in 1 .. Len(out) /\ Len(out) - h = rsave.total - rleft /\ n \in Nat
  BY <1>0, <1>1, <1>3, <1>4
<1> HIDE DEF n, h
<1>7. \A i \in 1 .. Len(s) : s[i] = Data(out[h].name, Len(out) - h + i - 1)
  BY <1>1, <1>3, <1>5, <1>6
<1>8. /\ Len(out') = Len(out) + n /\ \A i \in 1 .. Len(out) : out'[i] = out[i]
      /\ out'[h].name = rsave.name
      /\ \A i \in h .. Len(out) + n : Run(out', h, i)
  BY <1>0, <1>2, <1>3, <1>5, <1>6, <1>7, RunGrows
<1> QED  BY <1>6, <1>8 DEF n

LEMMA DeliveredNext ==
  ASSUME RTyped, RTyped', Written, Buffered, Mounting, Located, Following, Delivered, Reading
  PROVE  Delivered'
<1> USE DEF Reader!fixed, Reader!medium, Reader!rbuffer, Reader!rtracking, Reader!extraction
<1>0. out \in Seq(Block) /\ Len(out) \in Nat /\ rsave \in Tracked /\ rleft \in Nat
  <2>1. out \in Seq(Block) /\ rsave \in Tracked /\ rleft \in Nat  BY DEF RTyped
  <2> QED  BY <2>1
<1>1. CASE Reader!ReadHeader
  <2>1. /\ out' = out \/ (out' = Append(out, Reader!block) /\ Reader!block.kind = "header")
    BY <1>1 DEF Reader!ReadHeader
  <2>2. CASE out' = out  BY <2>2 DEF Delivered
  <2>3. CASE out' = Append(out, Reader!block) /\ Reader!block.kind = "header"
    <3>1. Reader!block \in Block
      BY <1>1, ReaderTypes DEF Reader!ReadHeader, Reader!HasBlock
    <3>2. /\ Len(out') = Len(out) + 1 /\ out'[Len(out) + 1] = Reader!block
          /\ \A i \in 1 .. Len(out) : out'[i] = out[i]
      BY <2>3, <3>1, <1>0
    <3> SUFFICES ASSUME NEW i \in 1 .. Len(out) + 1, out'[i].kind # "header"
                 PROVE  \E h \in 1 .. i - 1 : Run(out', h, i)
      BY <3>2 DEF Delivered
    <3>3. i \in 1 .. Len(out)  BY <2>3, <3>2, <1>0
    <3>4. PICK h \in 1 .. i - 1 : Run(out, h, i)  BY <3>2, <3>3 DEF Delivered
    <3>5. Run(out', h, i)
      <4>1. h \in 1 .. Len(out) /\ \A j \in h + 1 .. i : j \in 1 .. Len(out)  BY <1>0, <3>3
      <4> QED  BY <3>2, <3>4, <4>1 DEF Run
    <3> QED  BY <3>5
  <2> QED  BY <2>1, <2>2, <2>3
<1>2. CASE Reader!ReadData
  <2> DEFINE n == Reader!ToRead
  <2>6. n \in Nat  BY <1>0, <1>2, DataRead
  <2> HIDE DEF n
  <2> PICK h \in 1 .. Len(out) :
        /\ Len(out') = Len(out) + n /\ \A i \in 1 .. Len(out) : out'[i] = out[i]
        /\ \A i \in h .. Len(out) + n : Run(out', h, i)
    BY <1>2, MemberGrows DEF n
  <2> SUFFICES ASSUME NEW i \in 1 .. Len(out) + n, out'[i].kind # "header"
               PROVE  \E g \in 1 .. i - 1 : Run(out', g, i)
    BY DEF Delivered
  <2>9. CASE i > Len(out)
    <3>1. i \in h .. Len(out) + n /\ h \in 1 .. i - 1  BY <1>0, <2>6, <2>9
    <3> QED  BY <3>1
  <2>10. CASE i <= Len(out)
    <3>1. i \in 1 .. Len(out)  BY <1>0, <2>6, <2>10
    <3>2. PICK g \in 1 .. i - 1 : Run(out, g, i)  BY <3>1 DEF Delivered
    <3>3. g \in 1 .. Len(out) /\ \A j \in g + 1 .. i : j \in 1 .. Len(out)  BY <1>0, <3>1
    <3>4. Run(out', g, i)  BY <3>2, <3>3 DEF Run
    <3> QED  BY <3>4
  <2> QED  BY <2>9, <2>10, <1>0, <2>6
<1>3. CASE out' = out  BY <1>3 DEF Delivered
<1>4. Reader!ReadHeader \/ Reader!ReadData \/ out' = out
  BY DEF Reading, Reader!Next, Reader!Read, Reader!TryNewVolume, Reader!Operator,
      Reader!FlushRead, Reader!EndOfVolume, Reader!Opened, Reader!SkipBlock, Reader!ZeroBlock,
      Reader!EndOfArchive, Reader!NextChunk, Reader!UnexpectedEof, Reader!MemberRead,
      Reader!RefillSimple, Reader!NoFirstBlock, Reader!VolumeLabel, Reader!MultiVolumeHeader,
      Reader!OtherBlock, Reader!AcceptVolume, Reader!RefuseVolume, Reader!Quit,
      Reader!MountVolume
<1> QED  BY <1>1, <1>2, <1>3, <1>4

LEMMA GatheredSame ==
  ASSUME Gathered, UNCHANGED <<volumes, size, rsave, rleft, keep, out, rpc>>
  PROVE  Gathered'
BY DEF Gathered, Open, Run

LEMMA FollowingNext ==
  ASSUME RTyped, RTyped', Written, RB <= BF, Buffered, Mounting, Checked, Located, Following,
         Reading
  PROVE  Following'
<1>0. UNCHANGED <<volumes, size, RB>> /\ Gathered
  BY ReadingKeeps DEF vars, device, given, Following
<1>t. /\ vol \in 1 .. Len(volumes) /\ Len(volumes[vol]) \in Nat /\ pos \in 0 .. Len(volumes[vol])
      /\ rcur \in Nat /\ rend \in Nat /\ RB \in Nat \ {0} /\ Consumed \in Int
      /\ out \in Seq(Block) /\ rsave \in Tracked /\ rleft \in Nat /\ Len(out) \in Nat
  <2>1. Len(volumes[vol]) \in Nat /\ pos \in Nat /\ rend \in Nat /\ rcur \in Nat  BY ReaderTypes
  <2>2. Consumed \in Int  BY <2>1 DEF Consumed
  <2>3. out \in Seq(Block)  BY DEF RTyped
  <2>4. Len(out) \in Nat  BY <2>3
  <2> QED  BY <2>1, <2>2, <2>3, <2>4 DEF RTyped
<1> USE DEF Reader!fixed, Reader!medium, Reader!rbuffer, Reader!rtracking, Reader!extraction,
            Reader!Identifying, Reader!HasBlock, Reader!AtEof, Reader!NeedsBlock
<1>1. CASE Reader!FlushRead
  <2> DEFINE n == Reader!Available(vol, pos)
  <2>1. /\ rcur = rend /\ pos' = pos + n /\ rcur' = 0 /\ rend' = n /\ nvpc' = "none"
        /\ UNCHANGED <<vol, hit_eof, rsave, rleft, keep, out, rpc>> /\ nvpc = "none"
    BY <1>1 DEF Reader!FlushRead, Reader!RecordEnd
  <2>2. n \in Nat  BY <1>t, LoadedTypes
  <2> HIDE DEF n
  <2>3. Consumed' = Consumed  BY <1>t, <2>1, <2>2 DEF Consumed
  <2>4. Gathered'  BY <1>0, <2>1, GatheredSame
  <2> QED  BY <1>0, <2>1, <2>3, <2>4 DEF Following, Open, OpenIn
<1>2. CASE Reader!EndOfVolume
  <2>1. /\ rcur = rend /\ nvpc = "none" /\ ~ hit_eof /\ Reader!Available(vol, pos) = 0
        /\ rpc \in {"open", "header", "zero", "data"} /\ nvpc' = "mount"
        /\ Reader!MultiVolumeSync
        /\ UNCHANGED <<volumes, vol, accepted, rsave, rleft, keep, out, rpc>>
    BY <1>2 DEF Reader!EndOfVolume
  <2>2. Gathered'  BY <1>0, <2>1, GatheredSame
  <2>3. Consumed = Len(volumes[vol]) /\ vol = accepted
    <3>1. pos = Len(volumes[vol])  BY <1>t, <2>1 DEF Reader!Available, Reader!Least
    <3> QED  BY <2>1, <3>1, Ahead DEF Located
  <2>4. rreal'.name = rsave.name
    BY <2>1 DEF Reader!MultiVolumeSync, Reader!NoMember
  <2>5. ASSUME rpc = "data" PROVE rreal' = rsave /\ OpenIn(vol, Consumed)
    <3>1. rsave.name # NoName  BY <1>0, <2>5, NoNameAssumption DEF Gathered, Open
    <3> QED  BY <2>1, <2>5, <3>1 DEF Reader!MultiVolumeSync, Following, Open
  <2> QED  BY <1>0, <2>1, <2>2, <2>3, <2>4, <2>5 DEF Following, OpenIn
<1>3. CASE Reader!RefillSimple \/ Reader!VolumeLabel \/ Reader!MultiVolumeHeader
           \/ Reader!OtherBlock \/ Reader!RefuseVolume
           \/ \E v \in DOMAIN volumes : Reader!MountVolume(v)
  <2>1. /\ nvpc # "none" /\ nvpc' # "none"
        /\ UNCHANGED <<volumes, accepted, rsave, rreal, rleft, keep, out, rpc>>
    BY <1>3
    DEF Reader!RefillSimple, Reader!VolumeLabel, Reader!MultiVolumeHeader, Reader!OtherBlock,
        Reader!RefuseVolume, Reader!MountVolume
  <2>2. Gathered'  BY <1>0, <2>1, GatheredSame
  <2> QED  BY <1>0, <2>1, <2>2 DEF Following, OpenIn
<1>4. CASE Reader!NoFirstBlock \/ Reader!Quit \/ Reader!UnexpectedEof
  <2>1. rpc' = "fatal"
    <3>1. CASE Reader!NoFirstBlock
      <4>1. nvpc \in {"first", "second"} /\ rcur = rend /\ rpc # "fatal"
            /\ (nvpc = "second" => rpc' = "fatal")
        BY <3>1 DEF Reader!NoFirstBlock
      <4>2. nvpc # "first"  BY <4>1, <1>t DEF Mounting
      <4> QED  BY <4>1, <4>2
    <3> QED  BY <1>4, <3>1 DEF Reader!Quit, Reader!UnexpectedEof
  <2> QED  BY <2>1 DEF Following, Gathered, Open
<1>5. CASE Reader!AcceptVolume
  <2>1. /\ nvpc = "check" /\ nvpc' = "none" /\ Reader!RightVolume
        /\ UNCHANGED <<vol, pos, rend, rcur, rsave, rleft, keep, out, rpc>>
    BY <1>5 DEF Reader!AcceptVolume
  <2>2. Gathered'  BY <1>0, <2>1, GatheredSame
  <2>3. Consumed' = Consumed  BY <2>1 DEF Consumed
  <2>4. ASSUME Open PROVE OpenIn(vol, Consumed)
    <3>1. rpc = "data" /\ rreal = rsave  BY <2>1, <2>4 DEF Following, Open, Mounting
    <3>2. rsave.name # NoName /\ rsave.left = rleft /\ rsave.total \in Nat
      BY <1>0, <1>t, <3>1, NoNameAssumption DEF Gathered, Open, Tracked
    <3>3. /\ continued.name = rsave.name /\ continued.size + continued.off = rsave.total
          /\ rsave.total - rleft = continued.off
      BY <2>1, <3>1, <3>2 DEF Reader!RightVolume
    <3>4. continued.size \in Nat /\ continued.off \in Nat  BY DEF RTyped
    <3>5. /\ Consumed > 0
          /\ volumes[vol][Consumed] = MultiVol(continued.name, continued.size, continued.off)
      BY <2>1, <3>2, <3>3 DEF Checked
    <3>6. continued.size = rleft + (Consumed - Consumed)  BY <1>t, <3>2, <3>3, <3>4
    <3>7. Consumed \in 1 .. Consumed  BY <1>t, <3>5
    <3> QED  BY <3>3, <3>5, <3>6, <3>7 DEF OpenIn, IsHead, MultiVol
  <2> QED  BY <1>0, <2>1, <2>2, <2>3, <2>4 DEF Following, Open, OpenIn
<1>6. CASE Reader!Opened \/ Reader!ZeroBlock \/ Reader!EndOfArchive \/ Reader!SkipBlock
           \/ Reader!MemberRead
  <2>1. /\ rpc' \in {"header", "zero", "done"}
        /\ rsave' = rsave \/ rsave'.name = NoName
        /\ rpc = "member" => rsave'.name = NoName
        /\ rpc \in {"open", "header", "zero", "member"}
    BY <1>6, <1>t
    DEF Reader!Opened, Reader!ZeroBlock, Reader!EndOfArchive, Reader!SkipBlock,
        Reader!MemberRead, Reader!NoMember, Tracked
  <2>2. nvpc' = "none"
    BY <1>6 DEF Reader!Opened, Reader!ZeroBlock, Reader!EndOfArchive, Reader!SkipBlock,
        Reader!MemberRead, Following, Gathered
  <2>3. rsave'.name = NoName  BY <1>0, <2>1 DEF Gathered
  <2> QED  BY <2>1, <2>2, <2>3 DEF Following, Gathered, Open
<1>7. CASE Reader!ReadHeader
  <2>1. /\ rcur < rend /\ nvpc = "none" /\ nvpc' = "none" /\ rpc = "header" /\ rpc' = "member"
        /\ Reader!block.kind \in {"header", "multivol"}
        /\ rcur' = rcur + 1
        /\ rsave' = [name |-> Reader!block.name, total |-> Reader!block.size,
                     left |-> Reader!block.size]
        /\ rleft' = Reader!block.size /\ keep' = (Reader!block.kind = "header")
        /\ out' = IF keep' THEN Append(out, Reader!block) ELSE out
        /\ UNCHANGED <<vol, pos, rend, hit_eof>>
    BY <1>7 DEF Reader!ReadHeader
  <2>2. ~ hit_eof  BY <1>t, <2>1 DEF Mounting
  <2>3. /\ Reader!block = volumes[vol][Consumed + 1] /\ Consumed + 1 \in 1 .. Len(volumes[vol])
    <3>1. /\ Reader!block = volumes[vol][Consumed + 1]
          /\ Consumed \in 0 .. Len(volumes[vol]) /\ Consumed + (rend - rcur) <= Len(volumes[vol])
      BY <2>1, <2>2, Ahead
    <3> QED  BY <1>t, <2>1, <3>1
  <2>4. Reader!block.kind = "header"
    <3>1. Consumed + 1 > Consumed  BY <1>t
    <3> QED  BY <2>1, <2>2, <2>3, <3>1 DEF Located
  <2>5. /\ Reader!block.name \in Names /\ Reader!block.size \in Nat
        /\ Reader!block.size + Reader!block.off = size[Reader!block.name]
        /\ Reader!block.off = 0
    BY <1>t, <2>3, <2>4, HeadsWritten DEF IsHead
  <2>6. Consumed' = Consumed + 1  BY <1>t, <2>1 DEF Consumed
  <2>7. OpenIn(vol, Consumed)'
    <3>1. (Consumed + 1) - (Consumed + 1) = 0 /\ Consumed + 1 \in 1 .. Consumed + 1
          /\ Reader!block.size = Reader!block.size + 0
      BY <1>t, <2>3, <2>5
    <3> QED  BY <1>0, <2>1, <2>3, <2>4, <2>5, <2>6, <3>1 DEF OpenIn, IsHead
  <2>8. Gathered'
    <3>1. Reader!block \in Block  BY <2>1, ReaderTypes
    <3>2. Len(out') = Len(out) + 1 /\ out'[Len(out')] = Reader!block
      <4> DEFINE b == Reader!block
      <4>1. out' = Append(out, b) /\ b \in Block  BY <2>1, <2>4, <3>1
      <4> HIDE DEF b
      <4>2. out \in Seq(Block)  BY <1>t
      <4>3. Len(out') = Len(out) + 1 /\ out'[Len(out) + 1] = b  BY <4>1, <4>2
      <4> QED  BY <4>3 DEF b
    <3>3. /\ rsave'.name = Reader!block.name /\ rsave'.total = Reader!block.size
          /\ rsave'.left = Reader!block.size /\ rleft' = Reader!block.size
      BY <2>1
    <3>4. rsave'.total - rleft' = 0 /\ Len(out') - 0 = Len(out')  BY <1>t, <2>5, <3>2, <3>3
    <3>5. Run(out', Len(out'), Len(out'))
      <4>1. Len(out') + 1 .. Len(out') = {}  BY <1>t, <3>2
      <4> QED  BY <2>4, <3>2, <4>1 DEF Run
    <3> QED  BY <1>0, <1>t, <2>1, <2>4, <2>5, <3>2, <3>3, <3>4, <3>5 DEF Gathered, Open
  <2> QED  BY <2>1, <2>7, <2>8 DEF Following
<1>8. CASE Reader!NextChunk
  <2>1. /\ rpc = "member" /\ rleft > 0 /\ rpc' = "data"
        /\ rsave' = [rsave EXCEPT !.left = rleft]
        /\ UNCHANGED <<vol, pos, rend, rcur, hit_eof, rleft, keep, out, nvpc>>
    BY <1>8 DEF Reader!NextChunk
  <2>2. /\ rsave'.name = rsave.name /\ rsave'.total = rsave.total /\ rsave'.left = rleft
    BY <1>t, <2>1 DEF Tracked
  <2>3. nvpc = "none"  BY <2>1 DEF Following
  <2>4. Gathered'  BY <1>0, <2>1, <2>2 DEF Gathered, Open, Run
  <2>5. Consumed' = Consumed  BY <2>1 DEF Consumed
  <2> QED  BY <1>0, <2>1, <2>2, <2>3, <2>4, <2>5 DEF Following, Open, OpenIn
<1>9. CASE Reader!ReadData
  <2> DEFINE n == Reader!ToRead
  <2>1. /\ nvpc = "none" /\ nvpc' = "none" /\ ~ hit_eof /\ rpc = "data" /\ rpc' = "member"
        /\ rcur' = rcur + n /\ rleft' = rleft - n
        /\ UNCHANGED <<vol, pos, rend, hit_eof, rsave, keep>>
    BY <1>9, DataRead DEF Reader!ReadData
  <2>2. n \in 1 .. rleft /\ OpenIn(vol, Consumed) /\ Consumed \in Nat  BY <1>9, DataRead
  <2> HIDE DEF n
  <2>3. Consumed' = Consumed + n  BY <1>t, <2>1, <2>2 DEF Consumed
  <2>4. OpenIn(vol, Consumed)'
    <3> PICK k \in 1 .. Consumed :
          /\ IsHead(volumes[vol][k]) /\ volumes[vol][k].name = rsave.name
          /\ volumes[vol][k].size = rleft + (Consumed - k)
          /\ volumes[vol][k].size + volumes[vol][k].off = rsave.total
      BY <2>2 DEF OpenIn
    <3>1. k \in 1 .. Consumed + n /\ rleft + (Consumed - k) = (rleft - n) + (Consumed + n - k)
      BY <1>t, <2>2
    <3>2. /\ volumes'[vol'] = volumes[vol] /\ rsave' = rsave /\ rleft' = rleft - n
      BY <1>0, <2>1
    <3>3. volumes[vol][k].size = (rleft - n) + (Consumed + n - k)  BY <3>1
    <3>4. /\ IsHead(volumes'[vol'][k]) /\ volumes'[vol'][k].name = rsave'.name
          /\ volumes'[vol'][k].size = rleft' + (Consumed' - k)
          /\ volumes'[vol'][k].size + volumes'[vol'][k].off = rsave'.total
          /\ k \in 1 .. Consumed'
      <4>1. rleft' + (Consumed' - k) = (rleft - n) + (Consumed + n - k)
        BY <1>t, <2>2, <2>3, <3>1, <3>2
      <4>2. k \in 1 .. Consumed'  BY <2>3, <3>1
      <4>3. volumes'[vol'][k] = volumes[vol][k]  BY <3>2
      <4> QED  BY <3>2, <3>3, <4>1, <4>2, <4>3
    <3> QED  BY <3>4 DEF OpenIn
  <2>5. Gathered'
    <3>1. /\ Open /\ rsave.name \in Names /\ rsave.total = size[rsave.name] /\ keep
          /\ rleft <= rsave.total /\ rsave.total \in Nat
      BY <1>0, <1>t, <2>1 DEF Gathered, Open, Tracked
    <3> PICK h \in 1 .. Len(out) :
          /\ Len(out) - h = rsave.total - rleft /\ Len(out') = Len(out) + n
          /\ out'[h].name = rsave.name /\ \A i \in h .. Len(out) + n : Run(out', h, i)
      BY <1>9, MemberGrows DEF n
    <3>2. Run(out', h, Len(out'))  BY <1>t, <2>2
    <3>3. /\ Len(out') - (rsave.total - (rleft - n)) = h /\ rleft - n <= rsave.total
          /\ rsave.total - (rleft - n) < Len(out')
      <4> DEFINE l == Len(out)
                 t == rsave.total
      <4>1. l - h = t - rleft /\ Len(out') = l + n  OBVIOUS
      <4>2. l \in Nat /\ t \in Nat /\ rleft <= t /\ rleft \in Nat /\ n \in 1 .. rleft /\ h \in 1 .. l
        BY <1>t, <2>2, <3>1
      <4> HIDE DEF l, t
      <4>3. /\ (l + n) - (t - (rleft - n)) = h /\ rleft - n <= t
            /\ t - (rleft - n) < l + n
        BY <4>1, <4>2
      <4> QED  BY <4>1, <4>3 DEF t
    <3> QED  BY <1>0, <2>1, <3>1, <3>2, <3>3 DEF Gathered, Open
  <2> QED  BY <2>1, <2>4, <2>5 DEF Following
<1> QED
  BY <1>1, <1>2, <1>3, <1>4, <1>5, <1>6, <1>7, <1>8, <1>9
  DEF Reading, Reader!Next, Reader!Read, Reader!TryNewVolume, Reader!Operator
-----------------------------------------------------------------------------
(* The reader starts when the writer has stopped.                          *)
LEMMA IntactStart == RTyped /\ Written /\ Reader!Init => Intact
<1> SUFFICES ASSUME RTyped, Written, Reader!Init PROVE Intact  OBVIOUS
<1>1. /\ vol = 1 /\ pos = 0 /\ accepted = 1 /\ rcur = 0 /\ rend = 0 /\ hit_eof = FALSE
      /\ rsave.name = NoName /\ nvpc = "none" /\ rpc = "open"
  BY DEF Reader!Init, Reader!NoMember
<1>2. Buffered  BY <1>1 DEF Buffered
<1>3. Mounting  BY <1>1 DEF Mounting
<1>4. Located  BY <1>1 DEF Located, Written
<1> QED  BY <1>1, <1>2, <1>3, <1>4 DEF Intact, Checked, Following, Gathered, Open

LEMMA Stands == Inv /\ Reader!Init /\ RB \in Nat \ {0} => RInv
<1> SUFFICES ASSUME Inv, Reader!Init, RB \in Nat \ {0} PROVE RInv  OBVIOUS
<1>1. RTyped  BY IdleTypes DEF Inv
<1>2. Ended /\ WholeRecords => Intact  BY <1>1, ArchiveWritten, IntactStart
<1>3. Delivered  BY DEF Reader!Init, Delivered
<1> QED  BY <1>1, <1>2, <1>3 DEF RInv

LEMMA StandsNext == (Inv /\ Reader!Init /\ RB \in Nat \ {0})' => RInv'
BY Stands, PTL

LEMMA RInvNext == RInv /\ [MVNext]_allvars => RInv'
<1> SUFFICES ASSUME RInv, [MVNext]_allvars PROVE RInv'  OBVIOUS
<1>1. Inv'
  <2>1. [Next]_vars  BY ReadingKeeps DEF MVNext, Writing, allvars
  <2> QED  BY <2>1, InvNext DEF RInv
<1>2. ASSUME UNCHANGED rvars, ~ Ended  PROVE RInv'
  <2>1. Reader!Init /\ RB \in Nat \ {0}  BY <1>2 DEF RInv, RTyped
  <2>2. Reader!Init' /\ RB' = RB
    BY <1>2, <2>1 DEF rvars, Reader!Init, Reader!RSlots, Reader!Junk, Reader!NoMember,
                      Reader!NotContinued
  <2> QED  BY <1>1, <2>1, <2>2, StandsNext
<1>3. CASE Writing
  <2>1. ~ Ended  BY <1>3, WriterStops DEF Writing, RInv
  <2> QED  BY <1>2, <1>3, <2>1 DEF Writing
<1>4. CASE Reading
  <2>1. Ended /\ UNCHANGED <<vars, RB>>  BY <1>4, ReadingKeeps DEF Reading, Ended
  <2>2. Ended' /\ (WholeRecords' <=> WholeRecords) /\ RB' = RB
    BY <2>1 DEF Ended, vars, given, dump, WholeRecords, MinRecords, Partial, ShortCounts
  <2>3. RTyped /\ RTyped'  BY <1>4, RTypedNext DEF RInv
  <2>4. ASSUME WholeRecords, RB <= BF PROVE Intact' /\ Delivered'
    <3>1. Inv /\ Intact /\ Delivered  BY <2>1, <2>4 DEF RInv
    <3>2. Written  BY <2>1, <2>4, <3>1, ArchiveWritten
    <3>3. Buffered /\ Mounting /\ Checked /\ Located /\ Following  BY <3>1 DEF Intact
    <3>4. Buffered'  BY <1>4, <2>3, <2>4, <3>2, <3>3, BufferedNext
    <3>5. Mounting'  BY <1>4, <2>3, <2>4, <3>2, <3>3, MountingNext
    <3>6. Checked'  BY <1>4, <2>3, <2>4, <3>2, <3>3, CheckedNext
    <3>7. Located'  BY <1>4, <2>3, <2>4, <3>2, <3>3, LocatedNext
    <3>8. Following'  BY <1>4, <2>3, <2>4, <3>2, <3>3, FollowingNext
    <3>9. Delivered'  BY <1>4, <2>3, <2>4, <3>1, <3>2, <3>3, DeliveredNext
    <3> QED  BY <3>4, <3>5, <3>6, <3>7, <3>8, <3>9 DEF Intact
  <2> QED  BY <1>1, <2>2, <2>3, <2>4 DEF RInv
<1>5. CASE UNCHANGED allvars
  <2>1. UNCHANGED <<vars, rvars>>  BY <1>5 DEF allvars
  <2>2. CASE ~ Ended  BY <1>2, <2>1, <2>2
  <2>3. CASE Ended
    <3>1. /\ UNCHANGED <<setting, size, volumes, pc>>
          /\ UNCHANGED <<RB, vol, pos, accepted, mistakes, rrecord, rcur, rend, hit_eof>>
          /\ UNCHANGED <<rsave, rreal, continued, nvpc, rleft, keep, out, rpc>>
      BY <2>1 DEF vars, given, device, dump, rvars
    <3>2. Ended' /\ (WholeRecords' <=> WholeRecords)
      BY <2>3, <3>1 DEF Ended, WholeRecords, MinRecords, Partial, ShortCounts
    <3>3. RTyped'  BY <3>1 DEF RInv, RTyped, Reader!RSlots
    <3>4. ASSUME Intact PROVE Intact'
      BY <3>1, <3>4
      DEF Intact, Buffered, Mounting, Checked, Located, Following, Gathered, Open, OpenIn, Run,
          Consumed, LabelSize, volume_label_option
    <3>5. ASSUME Delivered PROVE Delivered'  BY <3>1, <3>5 DEF Delivered, Run
    <3> QED  BY <1>1, <2>3, <3>1, <3>2, <3>3, <3>4, <3>5 DEF RInv
  <2> QED  BY <2>2, <2>3
<1> QED  BY <1>3, <1>4, <1>5 DEF MVNext

LEMMA RInvHolds == MVSpec => []RInv
<1>1. MVInit => RInv
  <2> SUFFICES ASSUME MVInit PROVE RInv  OBVIOUS
  <2>1. Init /\ Reader!Init  BY DEF MVInit
  <2>2. Inv  BY <2>1, InitInv, InitSafe DEF Inv
  <2>3. RB \in Nat \ {0}  BY RTypedInit DEF RTyped
  <2> QED  BY <2>1, <2>2, <2>3, Stands
<1> QED  BY <1>1, RInvNext, PTL DEF MVSpec
-----------------------------------------------------------------------------
LEMMA WholeMembers == RInv => MembersIntact
<1> SUFFICES ASSUME RInv, WholeRecords, RB <= BF, NEW i \in DOMAIN out, out[i].kind # "header"
             PROVE  out[i] = Data(out[HeaderBefore(i)].name, i - HeaderBefore(i) - 1)
  BY DEF MembersIntact
<1>1. out \in Seq(Block) /\ Delivered  BY DEF RInv, RTyped
<1>2. i \in 1 .. Len(out) /\ Len(out) \in Nat  BY <1>1
<1> PICK h \in 1 .. i - 1 : Run(out, h, i)  BY <1>1, <1>2 DEF Delivered
<1>3. out[h].kind = "header" /\ \A j \in h + 1 .. i : out[j] = Data(out[h].name, j - h - 1)
  BY DEF Run
<1> DEFINE S == {g \in 1 .. i : out[g].kind = "header"}
<1>4. h \in S  BY <1>2, <1>3
<1>5. \A g \in S : g <= h
  <2> SUFFICES ASSUME NEW g \in S, g > h PROVE FALSE  BY <1>2
  <2>1. g \in h + 1 .. i  BY <1>2
  <2>2. out[g].kind = "data"
    <3>1. out[g] = Data(out[h].name, g - h - 1)  BY <2>1, <1>3
    <3> QED  BY <3>1 DEF Data
  <2>3. out[g].kind = "header"  OBVIOUS
  <2> QED  BY <2>2, <2>3
<1>6. HeaderBefore(i) = h
  <2>1. HeaderBefore(i) = CHOOSE x \in S : \A y \in S : x >= y
    BY DEF HeaderBefore, Archive!Max
  <2>2. \E x \in S : \A y \in S : x >= y  BY <1>2, <1>4, <1>5
  <2>3. /\ HeaderBefore(i) \in S /\ \A y \in S : HeaderBefore(i) >= y  BY <2>1, <2>2
  <2> HIDE DEF S
  <2>4. HeaderBefore(i) >= h /\ HeaderBefore(i) <= h  BY <1>4, <1>5, <2>3
  <2>5. HeaderBefore(i) \in Int  BY <1>2, <2>3 DEF S
  <2> QED  BY <1>2, <2>4, <2>5
<1> QED  BY <1>2, <1>3, <1>6

LEMMA NextFits ==
  ASSUME RInv, nvpc = "check", ~ Reader!RightVolume, WholeRecords, RB <= BF
  PROVE  vol # accepted + 1
<1> SUFFICES ASSUME vol = accepted + 1 PROVE FALSE  OBVIOUS
<1>0. Ended  BY DEF RInv, Reader!Init
<1>1. RTyped /\ Intact /\ Written  BY <1>0, ArchiveWritten DEF RInv
<1>2. Buffered /\ Mounting /\ Checked /\ Following /\ Gathered  BY <1>1 DEF Intact, Following
<1>3. rpc # "fatal" /\ ~ hit_eof  BY <1>2 DEF Mounting
<1>4. rreal.name # NoName  BY DEF Reader!RightVolume
<1>5. rpc = "data"
  <2>1. rpc \in {"open", "header", "zero", "member", "data", "done", "fatal"}
    BY <1>1 DEF RTyped
  <2>2. rreal.name = rsave.name /\ rpc \notin {"member", "done"}  BY <1>2, <1>3 DEF Following
  <2> QED  BY <1>2, <1>3, <1>4, <2>1, <2>2 DEF Gathered
<1>6. /\ rreal = rsave /\ OpenIn(accepted, Len(volumes[accepted]))
      /\ rsave.left = rleft /\ rleft > 0 /\ rsave.name \in Names
      /\ rsave.total = size[rsave.name]
  BY <1>2, <1>5 DEF Following, Gathered, Open
<1> DEFINE prev == volumes[accepted]
           s == volumes[vol]
           n == Len(volumes[vol])
<1>7. /\ vol \in 1 .. Len(volumes) /\ accepted \in 1 .. Len(volumes)
      /\ Len(prev) \in Nat /\ n \in Nat /\ rleft \in Nat /\ Len(volumes) \in Nat
  BY <1>1, VolumeTypes, ReaderTypes DEF RTyped
<1>8. vol \in 2 .. Len(volumes) /\ vol - 1 = accepted /\ vol > 1  BY <1>7
<1>9. Continues(LabelSize, prev, s, n)
  <2>1. Continues(LabelSize, volumes[vol - 1], volumes[vol], Len(volumes[vol]))
    BY <1>1, <1>8 DEF Written
  <2> QED  BY <1>8, <2>1
<1> PICK k \in 1 .. Len(prev) :
      /\ IsHead(prev[k]) /\ prev[k].name = rsave.name
      /\ prev[k].size = rleft + (Len(prev) - k)
  BY <1>6 DEF OpenIn
<1>10. k + prev[k].size = Len(prev) + rleft /\ ~ k + prev[k].size <= Len(prev)
  BY <1>6, <1>7
<1>11. Consumed \in 0 .. n /\ LabelSize \in {0, 1}
  BY <1>1, <1>2, <1>3, Ahead DEF LabelSize
<1>12. \A name, m : Lacks(prev, Len(prev), name, m) =>
         rsave.name = name /\ Len(prev) + rleft = Len(prev) + m
  BY <1>10 DEF Lacks
<1> HIDE DEF prev, s, n
<1>13. CASE continued.name # NoName
  <2>1. /\ Consumed > 0
        /\ s[Consumed] = MultiVol(continued.name, continued.size, continued.off)
    BY <1>2, <1>13 DEF Checked, s
  <2>2. Consumed = LabelSize + 1
    <3>1. Consumed \in 1 .. n /\ s[Consumed].kind = "multivol"  BY <1>11, <2>1 DEF MultiVol
    <3> QED  BY <3>1, <1>1, <1>7, OnlyFirstIsMultiVol DEF s, n
  <2>3. n > LabelSize  BY <1>7, <1>11, <2>2
  <2>4. Lacks(prev, Len(prev), continued.name, continued.size)
    BY <1>9, <2>1, <2>2, <2>3 DEF Continues, MultiVol
  <2>5. continued.size \in Nat /\ continued.off \in Nat  BY <1>1 DEF RTyped
  <2>6. continued.name = rsave.name /\ continued.size = rleft
    <3>1. rsave.name = continued.name /\ Len(prev) + rleft = Len(prev) + continued.size
      BY <1>12, <2>4
    <3> QED  BY <3>1, <1>7, <2>5
  <2>7. continued.off + continued.size = size[continued.name]
    <3>1. Consumed \in 1 .. n /\ IsHead(s[Consumed])  BY <1>11, <2>1 DEF MultiVol, IsHead
    <3>2. s[Consumed].off + s[Consumed].size = size[s[Consumed].name]
      BY <3>1, <1>1, <1>7, HeadsWritten DEF s, n
    <3> QED  BY <3>2, <2>1 DEF MultiVol
  <2> QED  BY <1>6, <1>7, <2>5, <2>6, <2>7 DEF Reader!RightVolume
<1>14. CASE continued.name = NoName
  <2>1. /\ Consumed < n /\ LabelSize <= Consumed
        /\ \A j \in 1 .. Consumed + 1 : s[j].kind # "multivol"
    BY <1>2, <1>8, <1>14 DEF Checked, s, n
  <2>2. n > LabelSize /\ LabelSize + 1 \in 1 .. Consumed + 1  BY <1>7, <1>11, <2>1
  <2>3. Lacks(prev, Len(prev), NoName, 0)  BY <1>9, <2>1, <2>2 DEF Continues
  <2> QED  BY <1>6, <1>12, <2>3, NoNameAssumption
<1> QED  BY <1>13, <1>14
-----------------------------------------------------------------------------
(* An archive that is complete is read to its end: no record is ever used  *)
(* up when a block of a new volume is asked for, no block of NULs is       *)
(* passed over but the one that ends the archive, and the last volume is   *)
(* never exhausted.                                                        *)
Nonzero(n) == \A k \in 1 .. n : volumes[vol][k].kind # "zero"
Passed == IF rpc = "zero" /\ nvpc = "none" THEN Consumed - 1 ELSE Consumed
Complete ==
  /\ rpc # "fatal" /\ ~ hit_eof
  /\ nvpc # "none" => accepted < Len(volumes)
  /\ nvpc = "mount" => vol # accepted + 1
  /\ nvpc = "check" => rcur <= 2
  /\ nvpc # "mount" /\ rpc # "done" => Nonzero(Passed)

LEMMA LastVolumeSuffices ==
  ASSUME RTyped, Typed, Intact, Complete, Ending, pc = "done", BF >= 3, Reader!EndOfVolume
  PROVE  accepted < Len(volumes) /\ vol = accepted
<1>1. /\ nvpc = "none" /\ rpc \in {"open", "header", "zero", "data"} /\ rcur = rend
      /\ ~ hit_eof /\ Reader!Available(vol, pos) = 0
  BY DEF Reader!EndOfVolume, Reader!NeedsBlock
<1>2. Buffered /\ Located /\ Following /\ Gathered  BY DEF Intact, Following
<1>3. vol = accepted /\ accepted \in 1 .. Len(volumes) /\ Len(volumes) \in Nat
  BY <1>1, <1>2, ReaderTypes DEF Located, RTyped
<1> SUFFICES ASSUME accepted = Len(volumes) PROVE FALSE  BY <1>3
<1> DEFINE s == volumes[vol]
           n == Len(volumes[vol])
<1>4. Consumed = n /\ n \in Nat
  <2>1. Consumed = pos /\ pos \in 0 .. n /\ n \in Nat  BY <1>1, <1>2, Ahead DEF RTyped
  <2>2. n - pos <= 0
    BY <1>1, <2>1 DEF Reader!Available, Reader!Least, RTyped
  <2> QED  BY <2>1, <2>2
<1>5. n >= 2 /\ s[n] = Zero /\ s[n - 1] = Zero /\ Lacks(s, n, NoName, 0)
  <2>1. Mounted = s  BY <1>3 DEF Mounted
  <2>2. EndsInZeros(Mounted) /\ Lacks(Mounted, Len(Mounted), NoName, 0)
    BY DEF Ending, MarkWritten
  <2> QED  BY <2>1, <2>2 DEF EndsInZeros
<1>6. Nonzero(IF rpc = "zero" THEN n - 1 ELSE n)  BY <1>1, <1>4 DEF Complete, Passed
<1> HIDE DEF s, n
<1>7. CASE rpc \in {"open", "header"}
  <2>1. n \in 1 .. n /\ rpc # "zero"  BY <1>4, <1>5, <1>7
  <2>2. s[n].kind # "zero"  BY <1>6, <2>1 DEF Nonzero, s
  <2> QED  BY <1>5, <2>2 DEF Zero
<1>8. CASE rpc = "zero"
  <2>1. n - 1 \in 1 .. n - 1  BY <1>4, <1>5
  <2>2. s[n - 1].kind # "zero"  BY <1>6, <1>8, <2>1 DEF Nonzero, s
  <2> QED  BY <1>5, <2>2 DEF Zero
<1>9. CASE rpc = "data"
  <2>1. rleft > 0 /\ rleft \in Nat /\ OpenIn(vol, n)
    BY <1>1, <1>2, <1>4, <1>9 DEF Gathered, Following, Open, RTyped
  <2> PICK k \in 1 .. n : IsHead(s[k]) /\ s[k].size = rleft + (n - k)
    BY <2>1 DEF OpenIn, s
  <2>2. k + s[k].size = n + rleft  BY <1>4, <2>1
  <2>3. k + s[k].size <= n \/ k + s[k].size = n + 0  BY <1>5 DEF Lacks
  <2> QED  BY <2>1, <2>2, <2>3, <1>4
<1> QED  BY <1>1, <1>7, <1>8, <1>9

LEMMA CompleteNext ==
  ASSUME RInv, RTyped', Complete, Ending, pc = "done", WholeRecords, RB \in 3 .. BF, Reading
  PROVE  Complete'
<1>0. /\ RTyped /\ Typed /\ Intact /\ Written /\ BF >= 3 /\ RB <= BF /\ RB >= 3
      /\ UNCHANGED <<volumes, RB>> /\ Reader!Next
  <2>1. Inv /\ RTyped /\ Ended  BY DEF RInv, Ended
  <2>2. RB \in Nat /\ BF \in Nat  BY <2>1, WriterAssumption DEF RTyped
  <2>3. RB <= BF /\ RB >= 3 /\ BF >= 3  BY <2>2
  <2>4. Intact /\ Written /\ Typed  BY <2>1, <2>3, ArchiveWritten DEF RInv, Inv
  <2> QED  BY <2>1, <2>3, <2>4, ReadingKeeps DEF Reading, vars, device
<1>1. /\ Buffered /\ Mounting /\ Located /\ Following  BY <1>0 DEF Intact
<1>2. /\ rend \in 0 .. RB /\ rcur \in 0 .. rend /\ pos \in Nat /\ RB \in Nat
      /\ vol \in 1 .. Len(volumes) /\ accepted \in 1 .. Len(volumes) /\ Len(volumes) \in Nat
  BY <1>0, ReaderTypes DEF RTyped
<1>3. /\ nvpc # "none" => rend = RB
      /\ nvpc = "first" => rcur = 0
      /\ nvpc = "second" => rcur <= 1
  BY <1>1 DEF Mounting, Complete
<1>c. /\ rpc # "fatal" /\ ~ hit_eof
      /\ nvpc # "none" => accepted < Len(volumes)
      /\ nvpc = "mount" => vol # accepted + 1
      /\ nvpc = "check" => rcur <= 2
      /\ nvpc # "mount" /\ rpc # "done" => Nonzero(Passed)
  BY DEF Complete
<1>4. /\ nvpc # "mount" => Consumed \in Nat
      /\ nvpc # "mount" /\ rcur < rend => Reader!block = volumes[vol][Consumed + 1]
  BY <1>0, <1>1, <1>c, Ahead
(* What a step passes over.                                                *)
<1>5. ASSUME nvpc # "mount", rcur < rend, rpc # "done", rpc # "zero" \/ nvpc # "none",
             Reader!block.kind # "zero"
      PROVE  Nonzero(Consumed + 1)
  <2>1. Nonzero(Consumed) /\ Consumed \in Nat  BY <1>4, <1>5, <1>c DEF Passed
  <2>2. volumes[vol][Consumed + 1].kind # "zero"  BY <1>4, <1>5
  <2>3. \A k \in 1 .. Consumed + 1 : k \in 1 .. Consumed \/ k = Consumed + 1  BY <2>1
  <2> QED  BY <2>1, <2>2, <2>3 DEF Nonzero
<1>6. ASSUME vol' = vol, NEW n \in Nat, Nonzero(n), Passed' = n
      PROVE  Nonzero(Passed)'
  <2>1. volumes' = volumes  BY <1>0
  <2> QED  BY <2>1, <1>6 DEF Nonzero
<1> USE DEF Reader!fixed, Reader!medium, Reader!rbuffer, Reader!rtracking, Reader!extraction,
            Reader!HasBlock, Reader!AtEof, Reader!NeedsBlock, Reader!Identifying
<1>7. CASE Reader!FlushRead
  <2>1. /\ nvpc = "none" /\ nvpc' = nvpc /\ rpc' = rpc /\ rpc # "done" /\ rcur = rend
        /\ UNCHANGED <<vol, accepted, hit_eof>>
        /\ pos' - rend' + rcur' = pos
    <3>1. Reader!Available(vol, pos) \in Nat
      <4>1. pos \in 0 .. Len(volumes[vol])  BY <1>0 DEF RTyped
      <4>2. Reader!Available(vol, pos) \in 0 .. RB  BY <4>1, <1>0, <1>2, LoadedTypes
      <4> QED  BY <4>2, <1>2
    <3> HIDE DEF Reader!Available
    <3> QED  BY <1>7, <1>2, <3>1 DEF Reader!FlushRead, Reader!RecordEnd
  <2>2. Consumed' = Consumed  BY <2>1, <1>2 DEF Consumed
  <2> QED  BY <1>0, <1>c, <2>1, <2>2 DEF Complete, Passed, Nonzero
<1>8. CASE Reader!EndOfVolume
  <2>1. accepted < Len(volumes) /\ vol = accepted
    BY <1>0, <1>8, LastVolumeSuffices
  <2>2. nvpc' = "mount" /\ UNCHANGED <<vol, accepted, hit_eof, rpc>>
    BY <1>8 DEF Reader!EndOfVolume
  <2> QED  BY <1>0, <1>2, <1>c, <2>1, <2>2 DEF Complete
<1>9. CASE Reader!Opened \/ Reader!NextChunk \/ Reader!MemberRead \/ Reader!EndOfArchive
  <2>1. /\ UNCHANGED <<vol, pos, accepted, rend, rcur, hit_eof, nvpc>>
        /\ rpc' \in {"header", "data", "done"} /\ (rpc' # "done" => rpc \in {"open", "member"})
    BY <1>9 DEF Reader!Opened, Reader!NextChunk, Reader!MemberRead, Reader!EndOfArchive
  <2>2. Consumed' = Consumed  BY <2>1 DEF Consumed
  <2> QED  BY <1>0, <1>c, <2>1, <2>2 DEF Complete, Passed, Nonzero
<1>10. CASE Reader!ReadHeader \/ Reader!SkipBlock
  <2>1. /\ nvpc = "none" /\ rcur < rend /\ rpc = "header" /\ Reader!block.kind # "zero"
        /\ UNCHANGED <<vol, pos, accepted, rend, hit_eof, nvpc>>
        /\ rcur' = rcur + 1 /\ rpc' \in {"header", "member"}
    BY <1>10 DEF Reader!ReadHeader, Reader!SkipBlock
  <2>2. Nonzero(Consumed + 1)  BY <2>1, <1>5
  <2>3. Passed' = Consumed + 1 /\ Consumed \in Nat
    BY <1>2, <1>4, <2>1 DEF Passed, Consumed
  <2>4. Nonzero(Passed)'  BY <2>1, <2>2, <2>3, <1>6
  <2> QED  BY <1>0, <1>c, <2>1, <2>4 DEF Complete
<1>11. CASE Reader!ZeroBlock
  <2>1. /\ nvpc = "none" /\ rcur < rend /\ rpc = "header"
        /\ UNCHANGED <<vol, pos, accepted, rend, hit_eof, nvpc>>
        /\ rcur' = rcur + 1 /\ rpc' = "zero"
    BY <1>11 DEF Reader!ZeroBlock
  <2>2. Nonzero(Consumed)  BY <2>1, <1>c DEF Passed
  <2>3. Passed' = Consumed /\ Consumed \in Nat
    BY <1>2, <1>4, <2>1 DEF Passed, Consumed
  <2>4. Nonzero(Passed)'  BY <2>1, <2>2, <2>3, <1>6
  <2> QED  BY <1>0, <1>c, <2>1, <2>4 DEF Complete
<1>12. CASE Reader!ReadData
  <2> DEFINE n == Reader!ToRead
  <2>1. /\ rpc = "data" /\ nvpc = "none" /\ n \in 1 .. rleft /\ rleft \in Nat
        /\ n <= rend - rcur
        /\ \A i \in 1 .. n : rrecord[rcur + i - 1] = Data(rsave.name, rsave.total - rleft + i - 1)
    BY <1>0, <1>1, <1>12, DataRead DEF RTyped
  <2>2. /\ UNCHANGED <<vol, pos, accepted, rend, hit_eof, nvpc>>
        /\ rcur' = rcur + n /\ rpc' = "member"
    BY <1>12 DEF Reader!ReadData
  <2> HIDE DEF n
  <2>3. Passed' = Consumed + n /\ Consumed \in Nat /\ n \in Nat
    BY <1>2, <1>4, <2>1, <2>2 DEF Passed, Consumed
  <2>4. \A i \in 0 .. (rend - rcur) - 1 : rrecord[rcur + i] = volumes[vol][Consumed + i + 1]
    BY <1>0, <1>1, <1>c, <2>1, Ahead
  <2>5. ASSUME NEW k \in 1 .. Consumed + n  PROVE volumes[vol][k].kind # "zero"
    <3>1. CASE k <= Consumed
      <4>1. Nonzero(Consumed)  BY <2>1, <1>c DEF Passed
      <4> QED  BY <3>1, <4>1, <2>3 DEF Nonzero
    <3>2. CASE k > Consumed
      <4> DEFINE i == k - Consumed
      <4>1. /\ i \in 1 .. n /\ i - 1 \in 0 .. (rend - rcur) - 1
            /\ Consumed + (i - 1) + 1 = k /\ rcur + (i - 1) = rcur + i - 1
        BY <3>2, <1>2, <2>1, <2>3
      <4> HIDE DEF i
      <4>2. rrecord[rcur + (i - 1)] = volumes[vol][Consumed + (i - 1) + 1]  BY <2>4, <4>1
      <4>3. rrecord[rcur + i - 1] = Data(rsave.name, rsave.total - rleft + i - 1)  BY <2>1, <4>1
      <4>4. volumes[vol][k] = Data(rsave.name, rsave.total - rleft + i - 1)  BY <4>1, <4>2, <4>3
      <4> QED  BY <4>4 DEF Data
    <3> QED  BY <3>1, <3>2, <2>3
  <2>6. Nonzero(Passed)'  BY <1>0, <2>2, <2>3, <2>5 DEF Nonzero
  <2> QED  BY <1>0, <1>c, <2>1, <2>2, <2>6 DEF Complete
<1>13. CASE Reader!UnexpectedEof
  BY <1>13, <1>c DEF Reader!UnexpectedEof
<1>14. CASE Reader!RefillSimple \/ Reader!NoFirstBlock
  <2>1. nvpc \in {"first", "second"} /\ rcur = rend
    BY <1>14 DEF Reader!RefillSimple, Reader!NoFirstBlock
  <2> QED  BY <2>1, <1>0, <1>2, <1>3
<1>15. CASE Reader!VolumeLabel \/ Reader!MultiVolumeHeader
  <2>1. /\ nvpc \in {"first", "second"} /\ nvpc' \in {"second", "check"} /\ rcur < rend
        /\ Reader!block.kind # "zero"
        /\ UNCHANGED <<vol, pos, accepted, rend, hit_eof, rpc>> /\ rcur' = rcur + 1
    BY <1>15 DEF Reader!VolumeLabel, Reader!MultiVolumeHeader, Reader!block
  <2>2. rpc # "done"  BY <2>1, <1>1, <1>c DEF Following
  <2>3. Nonzero(Consumed + 1)  BY <2>1, <2>2, <1>5
  <2>4. Passed' = Consumed + 1 /\ Consumed \in Nat
    BY <1>2, <1>4, <2>1 DEF Passed, Consumed
  <2>5. Nonzero(Passed)'  BY <2>1, <2>3, <2>4, <1>6
  <2>6. rcur' <= 2  BY <2>1, <1>2, <1>3
  <2> QED  BY <1>0, <1>c, <2>1, <2>5, <2>6 DEF Complete
<1>16. CASE Reader!OtherBlock
  <2>1. /\ nvpc \in {"first", "second"} /\ nvpc' = "check"
        /\ UNCHANGED <<vol, pos, accepted, rend, rcur, hit_eof, rpc>>
    BY <1>16 DEF Reader!OtherBlock
  <2>2. Passed' = Passed /\ rcur' <= 2  BY <2>1, <1>2, <1>3 DEF Passed, Consumed
  <2> QED  BY <1>0, <1>c, <2>1, <2>2 DEF Complete, Nonzero
<1>17. CASE Reader!AcceptVolume
  <2>1. /\ nvpc = "check" /\ nvpc' = "none" /\ UNCHANGED <<vol, pos, rend, rcur, rpc>>
        /\ hit_eof' = (hit_eof \/ rcur = rend)
    BY <1>17 DEF Reader!AcceptVolume
  <2>2. ~ hit_eof'
    <3>1. rend = RB /\ rcur <= 2  BY <2>1, <1>3, <1>c
    <3>2. rcur # rend  BY <3>1, <1>0, <1>2
    <3> QED  BY <3>2, <2>1, <1>c
  <2>3. rpc # "done"  BY <2>1, <1>1, <1>c DEF Following
  <2>4. Nonzero(Consumed) /\ Consumed' = Consumed /\ Consumed \in Nat
    BY <2>1, <2>3, <1>4, <1>c DEF Passed, Consumed
  <2>5. Nonzero(Passed)'
    <3>1. Passed' <= Consumed /\ Passed' \in Int  BY <2>1, <2>4 DEF Passed
    <3>2. \A k \in 1 .. Consumed : volumes'[vol'][k].kind # "zero"
      BY <2>1, <2>4, <1>0 DEF Nonzero
    <3>3. \A k \in 1 .. Passed' : k \in 1 .. Consumed  BY <3>1, <2>4
    <3> QED  BY <3>2, <3>3 DEF Nonzero
  <2> QED  BY <1>0, <1>c, <2>1, <2>2, <2>5 DEF Complete
<1>18. CASE Reader!RefuseVolume
  <2>1. nvpc = "check" /\ nvpc' = "mount" /\ UNCHANGED <<vol, accepted, hit_eof, rpc>>
    BY <1>18 DEF Reader!RefuseVolume
  <2>2. vol # accepted + 1  BY <1>18, <1>0, NextFits DEF Reader!RefuseVolume
  <2> QED  BY <1>0, <1>c, <2>1, <2>2 DEF Complete
<1>19. CASE \E v \in DOMAIN volumes : Reader!MountVolume(v)
  <2> PICK v \in 1 .. Len(volumes) : Reader!MountVolume(v)  BY <1>0, <1>19, VolumeTypes
  <2>1. Reader!Available(v, 0) = RB  BY <1>0, RecordFits
  <2>2. /\ nvpc = "mount" /\ nvpc' = "first" /\ pos' = RB /\ rend' = rend /\ rcur' = 0
        /\ UNCHANGED <<accepted, hit_eof, rpc>>
    BY <2>1 DEF Reader!MountVolume
  <2>3. Passed' = 0  BY <1>2, <1>3, <2>2 DEF Passed, Consumed
  <2> QED  BY <1>0, <1>c, <2>2, <2>3 DEF Complete, Nonzero
<1>20. CASE Reader!Quit
  BY <1>20, <1>c, <1>2 DEF Reader!Quit
<1> QED
  BY <1>0, <1>7, <1>8, <1>9, <1>10, <1>11, <1>12, <1>13, <1>14, <1>15, <1>16, <1>17, <1>18,
     <1>19, <1>20
  DEF Reader!Next, Reader!Read, Reader!TryNewVolume, Reader!Operator

CInv ==
  /\ RInv
  /\ WholeRecords /\ BF >= 3 => Ending
  /\ pc = "done" /\ WholeRecords /\ RB \in 3 .. BF => Complete

LEMMA CompleteStart == Reader!Init => Complete
<1> SUFFICES ASSUME Reader!Init PROVE Complete  OBVIOUS
<1>1. /\ pos = 0 /\ rcur = 0 /\ rend = 0 /\ hit_eof = FALSE /\ nvpc = "none" /\ rpc = "open"
  BY DEF Reader!Init
<1> QED  BY <1>1 DEF Complete, Passed, Consumed, Nonzero

LEMMA CompleteStartNext == (Reader!Init)' => Complete'
BY CompleteStart, PTL

LEMMA SettingStays == [MVNext]_allvars => UNCHANGED <<setting, RB>> /\ [Next]_vars
<1> SUFFICES ASSUME [MVNext]_allvars PROVE UNCHANGED <<setting, RB>> /\ [Next]_vars  OBVIOUS
<1>1. [Next]_vars /\ UNCHANGED RB
  BY ReadingKeeps DEF MVNext, Writing, allvars, rvars
<1>2. UNCHANGED setting
  BY <1>1
  DEF Next, Dump, FlushWrite, VolumeChange, vars, given,
      WriteLabel, NextMember, WriteHeader, SizeLeft, FillFull, FillShort, ReadError, Pad,
      EndMember, StartEot, Eot1, Eot2, Close, FlushWhole, FlushFatal, NoMoreVolumes,
      ChangeVolume, SimpleFlushWrite, SimpleFlushFatal, AddVolumeLabel,
      AddMultiVolumeHeader, CopyChunk, VolumeChanged
<1> QED  BY <1>1, <1>2

LEMMA CInvNext == CInv /\ [MVNext]_allvars => CInv'
<1> SUFFICES ASSUME CInv, [MVNext]_allvars PROVE CInv'  OBVIOUS
<1>1. RInv /\ RInv' /\ Inv  BY RInvNext DEF CInv, RInv
<1>2. (WholeRecords' <=> WholeRecords) /\ RB' = RB /\ [Next]_vars
  BY SettingStays DEF WholeRecords, MinRecords, Partial, ShortCounts
<1>3. ASSUME WholeRecords, BF >= 3  PROVE Ending'
  BY <1>1, <1>2, <1>3, EndingNext DEF CInv
<1>4. ASSUME pc' = "done", WholeRecords, RB \in 3 .. BF  PROVE Complete'
  <2>1. BF >= 3
    <3>1. RB \in Nat /\ BF \in Nat  BY <1>1, WriterAssumption DEF RInv, RTyped
    <3> QED  BY <3>1, <1>4
  <2>2. Ending  BY <1>4, <2>1 DEF CInv
  <2>3. CASE Writing
    <3>1. ~ Ended  BY <2>3, <1>1, WriterStops DEF Writing
    <3>2. Reader!Init /\ UNCHANGED rvars  BY <2>3, <3>1, <1>1 DEF RInv, Writing
    <3>3. Reader!Init'
      BY <3>2 DEF rvars, Reader!Init, Reader!RSlots, Reader!Junk, Reader!NoMember,
                  Reader!NotContinued
    <3> QED  BY <3>3, CompleteStartNext
  <2>4. CASE Reading
    <3>1. pc = "done"  BY <2>4, <1>4, ReadingKeeps DEF vars, dump
    <3>2. Complete  BY <3>1, <1>4 DEF CInv
    <3>3. RTyped'  BY <1>1 DEF RInv
    <3> QED  BY <3>1, <3>2, <3>3, <2>2, <2>4, <1>1, <1>4, CompleteNext
  <2>5. CASE UNCHANGED allvars
    <3>1. /\ UNCHANGED <<volumes, pc, vol, pos, accepted, rcur, rend, hit_eof, nvpc, rpc>>
      BY <2>5 DEF allvars, vars, device, dump, rvars
    <3>2. Complete  BY <3>1, <1>4 DEF CInv
    <3> QED  BY <3>1, <3>2 DEF Complete, Passed, Consumed, Nonzero
  <2> QED  BY <2>3, <2>4, <2>5 DEF MVNext
<1> QED  BY <1>1, <1>2, <1>3, <1>4 DEF CInv

LEMMA CInvHolds == MVSpec => []CInv
<1>1. MVInit => CInv
  <2> SUFFICES ASSUME MVInit PROVE CInv  OBVIOUS
  <2>1. Init /\ Reader!Init /\ RInv
    <3>1. Init /\ Reader!Init  BY DEF MVInit
    <3>2. Inv  BY <3>1, InitInv, InitSafe DEF Inv
    <3>3. RB \in Nat \ {0}  BY RTypedInit DEF RTyped
    <3> QED  BY <3>1, <3>2, <3>3, Stands
  <2>2. nv = "none" /\ pc \in {"label", "next"}  BY <2>1 DEF Init
  <2>3. Ending  BY <2>2 DEF Ending, MarkStored, MarkWritten
  <2> QED  BY <2>1, <2>3, CompleteStart DEF CInv
<1> QED  BY <1>1, CInvNext, PTL DEF MVSpec
-----------------------------------------------------------------------------
(* The state of the reader keeps its types: current_block and record_end   *)
(* stay within the record, and no more is read than the volume holds       *)
(* (buffer.c:1149-1292, 1449-1530; list.c:150-290).                        *)
THEOREM ReaderTyped == MVSpec => []RTyped
BY RInvHolds, PTL DEF RInv

(* Whatever volumes the operator mounts, and in which order, no member is  *)
(* extracted with a block that is not its own at that place                *)
(* (buffer.c:1149-1292).                                                   *)
THEOREM ExtractedIntact == MVSpec => []MembersIntact
BY RInvHolds, WholeMembers, PTL

(* try_new_volume never refuses the volume that comes next                 *)
(* (buffer.c:1235-1280).                                                   *)
THEOREM NeverRefused == MVSpec => NextVolumeAccepted
<1>1. RInv /\ [MVNext]_allvars =>
        [Reader!RefuseVolume /\ WholeRecords /\ RB <= BF => vol # accepted + 1]_allvars
  BY NextFits DEF Reader!RefuseVolume
<1> QED  BY <1>1, RInvHolds, PTL DEF MVSpec, NextVolumeAccepted

(* An archive that was written completely is read to its end, through all  *)
(* its volumes, however often the operator errs: two blocks of NULs end    *)
(* the last volume, and no other record is taken for the end               *)
(* (buffer.c:348-390, 1121-1292, create.c:401).                            *)
THEOREM ReadToTheEnd == MVSpec => []CompleteArchiveRead
<1>1. CInv => CompleteArchiveRead  BY DEF CInv, CompleteArchiveRead, Complete
<1> QED  BY <1>1, CInvHolds, PTL
-----------------------------------------------------------------------------
(* What the reader has taken of the archive when nobody errs.              *)

(* A record and each volume but the last hold more than what may come      *)
(* before the payload of a volume.                                         *)
Roomy == RB > LabelSize + 1 /\ EachTook(LabelSize + 2)

(* What the first v volumes carry, and what the n first blocks of the next *)
(* one add.                                                                *)
OfFirst(v) == Payload(FlattenSeq(SubSeq(volumes, 1, v)))
Upto(v, n) == Cat(OfFirst(v - 1), Payload(FirstBlocks(volumes[v], n)))

LEMMA AppendExcept ==
  ASSUME NEW s \in Seq(Seq(Block)), NEW b \in Seq(Block), NEW t, NEW w,
         t = Append(s, <<>>), w = Append(s, b)
  PROVE  w = [t EXCEPT ![Len(s) + 1] = b]
<1> DEFINE n == Len(s) + 1
           x == [t EXCEPT ![n] = b]
<1>0. Len(s) \in Nat /\ <<>> \in Seq(Block)  OBVIOUS
<1>1. /\ t \in Seq(Seq(Block)) /\ Len(t) = n /\ t[n] = <<>>
      /\ \A k \in 1 .. n : k # n => t[k] = s[k]
  BY <1>0, AppendProperties
<1>2. /\ w \in Seq(Seq(Block)) /\ Len(w) = n /\ w[n] = b
      /\ \A k \in 1 .. n : k # n => w[k] = s[k]
  BY <1>0, AppendProperties
<1>3. x \in Seq(Seq(Block)) /\ Len(x) = n /\ x[n] = b /\ \A k \in 1 .. n : k # n => x[k] = t[k]
  <2>1. n \in 1 .. n /\ n \in Nat  BY <1>0
  <2>2. \A y \in Seq(Seq(Block)) : y = [k \in 1 .. Len(y) |-> y[k]]  OBVIOUS
  <2> HIDE DEF n
  <2>3. t = [k \in 1 .. n |-> t[k]]  BY <1>1, <2>2
  <2>4. x = [k \in 1 .. n |-> IF k = n THEN b ELSE t[k]]  BY <2>1, <2>3
  <2>5. \A k \in 1 .. n : t[k] \in Seq(Block)  BY <1>1
  <2> HIDE DEF x
  <2>6. x \in [1 .. n -> Seq(Block)]  BY <2>4, <2>5
  <2>7. x \in Seq(Seq(Block)) /\ Len(x) = n  BY <2>1, <2>6
  <2>8. x[n] = b /\ \A k \in 1 .. n : k # n => x[k] = t[k]  BY <2>1, <2>4
  <2> QED  BY <2>7, <2>8
<1> HIDE DEF x, n
<1>4. \A k \in 1 .. n : x[k] = w[k]  BY <1>1, <1>2, <1>3
<1>5. x = w  BY <1>2, <1>3, <1>4, SeqEqual
<1> QED  BY <1>5 DEF x, n

LEMMA OfFirstSteps ==
  ASSUME volumes \in Seq(Seq(Block))
  PROVE  /\ \A v \in 0 .. Len(volumes) : OfFirst(v) \in Seq(Block)
         /\ OfFirst(0) = <<>> /\ OfFirst(Len(volumes)) = OnVolumes
         /\ \A v \in 1 .. Len(volumes) : OfFirst(v) = Cat(OfFirst(v - 1), Payload(volumes[v]))
<1>0. Len(volumes) \in Nat  OBVIOUS
<1>1. \A v \in 0 .. Len(volumes) : SubSeq(volumes, 1, v) \in Seq(Seq(Block))
  <2> SUFFICES ASSUME NEW v \in 0 .. Len(volumes)
               PROVE  SubSeq(volumes, 1, v) \in Seq(Seq(Block))
    OBVIOUS
  <2>1. 1 \in Int /\ v \in Int /\ \A i \in 1 .. v : volumes[i] \in Seq(Block)  OBVIOUS
  <2> QED  BY <2>1, SubSeqProperties
<1>2. \A v \in 0 .. Len(volumes) : OfFirst(v) \in Seq(Block)
  BY <1>1, FlattenType, PayloadType DEF OfFirst
<1>3. OfFirst(0) = <<>> /\ OfFirst(Len(volumes)) = OnVolumes
  <2>1. SubSeq(volumes, 1, 0) = <<>> /\ SubSeq(volumes, 1, Len(volumes)) = volumes
    BY SubSeqEmpty, SubSeqFull
  <2>2. FlattenSeq(<<>>) = <<>>  BY DEF FlattenSeq
  <2> QED  BY <2>1, <2>2, PayloadEmpty DEF OfFirst, OnVolumes
<1>4. ASSUME NEW v \in 1 .. Len(volumes)
      PROVE  OfFirst(v) = Cat(OfFirst(v - 1), Payload(volumes[v]))
  <2> DEFINE s == SubSeq(volumes, 1, v - 1)
             t == Append(s, <<>>)
             w == SubSeq(volumes, 1, v)
             b == volumes[v]
  <2>0. v - 1 \in 0 .. Len(volumes) /\ v \in 0 .. Len(volumes) /\ b \in Seq(Block)
    BY <1>0
  <2>1. s \in Seq(Seq(Block)) /\ w \in Seq(Seq(Block))  BY <1>1, <2>0
  <2>2. w = Append(s, b)
    <3>1. 1 \in 1 .. Len(volumes)  BY <1>0
    <3> QED  BY <3>1, <1>0, SubSeqRecursiveSecond
  <2> HIDE DEF s, w, b
  <2>3. t \in Seq(Seq(Block)) /\ t # <<>> /\ FlattenSeq(t) = FlattenSeq(s) /\ Len(t) = Len(s) + 1
    <3> DEFINE t0 == Append(s, <<>>)
    <3> HIDE DEF t0
    <3>1. t0 = Append(s, <<>>)  BY DEF t0
    <3>2. t0 \in Seq(Seq(Block)) /\ t0 # <<>> /\ FlattenSeq(t0) = FlattenSeq(s) /\ Len(t0) = Len(s) + 1
      BY <2>1, <3>1, FlattenMounts
    <3> QED  BY <3>1, <3>2
  <2>4. Grown(t, w, b)
    <3>1. w = [t EXCEPT ![Len(s) + 1] = b]
      <4> DEFINE t0 == t
      <4>1. t0 = Append(s, <<>>)  OBVIOUS
      <4> HIDE DEF t0
      <4>2. w = [t0 EXCEPT ![Len(s) + 1] = b]  BY <2>0, <2>1, <2>2, <4>1, AppendExcept
      <4> QED  BY <4>1, <4>2
    <3>2. t[Len(s) + 1] = <<>>  BY <2>1
    <3>3. <<>> \o b = b  BY <2>0, ConcatEmptySeq
    <3> HIDE DEF t
    <3> QED  BY <2>3, <3>1, <3>2, <3>3 DEF Grown
  <2> HIDE DEF t
  <2>5. FlattenSeq(w) = Cat(FlattenSeq(s), b)  BY <2>0, <2>3, <2>4, FlattenGrows
  <2>6. FlattenSeq(s) \in Seq(Block)  BY <2>1, FlattenType
  <2>7. Payload(FlattenSeq(w)) = Cat(Payload(FlattenSeq(s)), Payload(b))
    BY <2>0, <2>5, <2>6, PayloadCat
  <2> QED  BY <2>7 DEF OfFirst, s, w, b
<1> QED  BY <1>2, <1>3, <1>4

(* Induction over the volumes that come later.                             *)
LEMMA OfFirstStarts ==
  ASSUME volumes \in Seq(Seq(Block)), NEW n \in 0 .. Len(volumes)
  PROVE  Starts(OfFirst(n), OnVolumes)
<1> DEFINE N == Len(volumes)
           Bad == {m \in 0 .. N : m >= n /\ ~ Starts(OfFirst(n), OfFirst(m))}
<1>0. N \in Nat  OBVIOUS
<1>t. \A m \in 0 .. N : OfFirst(m) \in Seq(Block)  BY OfFirstSteps
<1>1. ASSUME Bad # {}  PROVE  FALSE
  <2>1. Bad \subseteq Nat  OBVIOUS
  <2>2. PICK m \in Bad : \A x \in Bad : m <= x
    <3> HIDE DEF Bad
    <3> QED  BY <1>1, <2>1, LeastOfNat
  <2>3. m \in 0 .. N /\ m >= n /\ ~ Starts(OfFirst(n), OfFirst(m))  BY <2>2
  <2>4. m # n  BY <1>t, <2>3, StartsSame
  <2>5. m \in 1 .. N /\ m - 1 \in 0 .. N /\ m - 1 >= n /\ m - 1 \notin Bad
    <3>1. m \in 1 .. N /\ m - 1 \in 0 .. N /\ m - 1 >= n /\ ~ m <= m - 1  BY <1>0, <2>3, <2>4
    <3> HIDE DEF Bad
    <3> QED  BY <2>2, <3>1
  <2>6. Starts(OfFirst(n), OfFirst(m - 1))  BY <2>5
  <2>7. /\ OfFirst(m) = Cat(OfFirst(m - 1), Payload(volumes[m]))
        /\ Payload(volumes[m]) \in Seq(Block)
    BY <2>5, OfFirstSteps, PayloadType
  <2> HIDE DEF Bad
  <2>8. Starts(OfFirst(m - 1), OfFirst(m))
    <3>1. OfFirst(m - 1) \in Seq(Block)  BY <2>5, <1>t
    <3> QED  BY <3>1, <2>7, StartsCat
  <2>9. Starts(OfFirst(n), OfFirst(m))
    <3>1. /\ OfFirst(n) \in Seq(Block)
          /\ OfFirst(m - 1) \in Seq(Block)
          /\ OfFirst(m) \in Seq(Block)
      BY <2>5, <1>t
    <3> QED  BY <3>1, <2>6, <2>8, StartsFurther
  <2> QED  BY <2>3, <2>9
<1>2. N \in 0 .. N /\ N >= n  BY <1>0
<1>3. Starts(OfFirst(n), OfFirst(N))  BY <1>1, <1>2
<1> QED  BY <1>3, OfFirstSteps

(* Block by block.                                                         *)
LEMMA UptoSteps ==
  ASSUME volumes \in Seq(Seq(Block)), NEW v \in 1 .. Len(volumes)
  PROVE  /\ Upto(v, 0) = OfFirst(v - 1) /\ Upto(v, Len(volumes[v])) = OfFirst(v)
         /\ \A n \in 0 .. Len(volumes[v]) : Upto(v, n) \in Seq(Block)
         /\ \A n \in 1 .. Len(volumes[v]) :
              Upto(v, n) = Cat(Upto(v, n - 1), Payload(<<volumes[v][n]>>))
<1> DEFINE s == volumes[v]
           a == OfFirst(v - 1)
<1>0. s \in Seq(Block) /\ v - 1 \in 0 .. Len(volumes) /\ a \in Seq(Block)
  <2>1. v - 1 \in 0 .. Len(volumes)  OBVIOUS
  <2> QED  BY <2>1, OfFirstSteps
<1>1. OfFirst(v) = Cat(a, Payload(s))  BY OfFirstSteps
<1> HIDE DEF s, a
<1>2. FirstBlocks(s, 0) = <<>> /\ FirstBlocks(s, Len(s)) = s  BY <1>0, FirstBlocksEnds
<1>3. \A n : Upto(v, n) = Cat(a, Payload(FirstBlocks(s, n)))  BY DEF Upto, s, a
<1>4. Upto(v, 0) = a /\ Upto(v, Len(s)) = OfFirst(v)
  BY <1>0, <1>1, <1>2, <1>3, PayloadEmpty, CatEmpty
<1>5. ASSUME NEW n \in 0 .. Len(s)
      PROVE  Upto(v, n) \in Seq(Block) /\ Payload(FirstBlocks(s, n)) \in Seq(Block)
  <2>1. FirstBlocks(s, n) \in Seq(Block)  BY <1>0, FirstBlocksType
  <2>2. Payload(FirstBlocks(s, n)) \in Seq(Block)  BY <2>1, PayloadType
  <2> QED  BY <1>0, <1>3, <2>2, CatType
<1>6. ASSUME NEW n \in 1 .. Len(s)
      PROVE  Upto(v, n) = Cat(Upto(v, n - 1), Payload(<<s[n]>>))
  <2> DEFINE t == FirstBlocks(s, n - 1)
  <2>0. n - 1 \in 0 .. Len(s)  BY <1>0
  <2>1. FirstBlocks(s, n) = Cat(t, <<s[n]>>) /\ t \in Seq(Block) /\ <<s[n]>> \in Seq(Block)
    BY <1>0, FirstBlocksStep
  <2>2. Payload(t) \in Seq(Block) /\ Upto(v, n - 1) = Cat(a, Payload(t))
    BY <2>0, <1>3, <1>5
  <2> HIDE DEF t
  <2>3. Payload(FirstBlocks(s, n)) = Cat(Payload(t), Payload(<<s[n]>>))
    BY <2>1, PayloadCat
  <2>4. Payload(<<s[n]>>) \in Seq(Block)  BY <2>1, PayloadType
  <2> QED  BY <1>0, <1>3, <2>2, <2>3, <2>4, CatAssociative
<1>7. /\ \A n \in 0 .. Len(s) : Upto(v, n) \in Seq(Block)
      /\ \A n \in 1 .. Len(s) : Upto(v, n) = Cat(Upto(v, n - 1), Payload(<<s[n]>>))
  BY <1>5, <1>6
<1> QED  BY <1>4, <1>7 DEF s, a

(* Labels and continuation headers add nothing.                            *)
LEMMA UptoMarked ==
  ASSUME volumes \in Seq(Seq(Block)), NEW v \in 1 .. Len(volumes), NEW n \in 1 .. Len(volumes[v]),
         ~ Unmarked(volumes[v][n])
  PROVE  Upto(v, n) = Upto(v, n - 1)
<1>1. n - 1 \in 0 .. Len(volumes[v]) /\ volumes[v] \in Seq(Block)  OBVIOUS
<1>2. Upto(v, n) = Cat(Upto(v, n - 1), Payload(<<volumes[v][n]>>)) /\ Upto(v, n - 1) \in Seq(Block)
  BY <1>1, UptoSteps
<1>3. Payload(<<volumes[v][n]>>) = <<>>
  BY <1>1, PayloadNone DEF Unmarked
<1> QED  BY <1>2, <1>3, CatEmpty
-----------------------------------------------------------------------------
Between(v, n, m) == SubSeq(volumes[v], n + 1, m)

LEMMA UptoFurther ==
  ASSUME volumes \in Seq(Seq(Block)), NEW v \in 1 .. Len(volumes),
         NEW n \in 0 .. Len(volumes[v]), NEW m \in n .. Len(volumes[v])
  PROVE  /\ Between(v, n, m) \in Seq(Block) /\ Len(Between(v, n, m)) = m - n
         /\ \A i \in 1 .. m - n : Between(v, n, m)[i] = volumes[v][n + i]
         /\ Upto(v, m) = Cat(Upto(v, n), Payload(Between(v, n, m)))
<1> DEFINE s == volumes[v]
           t == Between(v, n, m)
           a == OfFirst(v - 1)
<1>0. s \in Seq(Block) /\ v - 1 \in 0 .. Len(volumes)  OBVIOUS
<1>1. n \in Nat /\ m \in Nat /\ m \in 0 .. Len(s) /\ n <= m /\ n \in 0 .. Len(s)  OBVIOUS
<1> HIDE DEF s
<1>2. t \in Seq(Block) /\ Len(t) = m - n /\ \A i \in 1 .. m - n : t[i] = s[n + i]
  <2>1. n + 1 \in Int /\ m \in Int /\ \A i \in n + 1 .. m : s[i] \in Block  BY <1>0, <1>1
  <2>2. /\ SubSeq(s, n + 1, m) \in Seq(Block)
        /\ Len(SubSeq(s, n + 1, m)) = IF n + 1 <= m THEN m - (n + 1) + 1 ELSE 0
        /\ \A i \in 1 .. m - (n + 1) + 1 : SubSeq(s, n + 1, m)[i] = s[n + 1 + i - 1]
    BY <2>1, SubSeqProperties
  <2>3. m - (n + 1) + 1 = m - n /\ \A i \in 1 .. m - n : n + 1 + i - 1 = n + i  BY <1>1
  <2>4. t = SubSeq(s, n + 1, m)  BY DEF Between, s
  <2>5. (IF n + 1 <= m THEN m - (n + 1) + 1 ELSE 0) = m - n  BY <1>1
  <2> HIDE DEF t
  <2> QED  BY <2>2, <2>3, <2>4, <2>5
<1>3. FirstBlocks(s, m) = Cat(FirstBlocks(s, n), t)
  <2>1. 1 \in 1 .. Len(s) + 1 /\ n \in 1 - 1 .. Len(s) /\ m \in n .. Len(s)  BY <1>0, <1>1
  <2>2. SubSeq(s, 1, n) \o SubSeq(s, n + 1, m) = SubSeq(s, 1, m)
    BY <1>0, <2>1, ConcatAdjacentSubSeq
  <2> QED  BY <2>2 DEF FirstBlocks, Cat, Between, s
<1>4. FirstBlocks(s, n) \in Seq(Block)  BY <1>0, <1>1, FirstBlocksType
<1>5. a \in Seq(Block)  BY <1>0, OfFirstSteps
<1> HIDE DEF t, a
<1>6. Payload(FirstBlocks(s, m)) = Cat(Payload(FirstBlocks(s, n)), Payload(t))
  BY <1>2, <1>3, <1>4, PayloadCat
<1>7. Payload(FirstBlocks(s, n)) \in Seq(Block) /\ Payload(t) \in Seq(Block)
  BY <1>2, <1>4, PayloadType
<1>8. Upto(v, m) = Cat(a, Payload(FirstBlocks(s, m))) /\ Upto(v, n) = Cat(a, Payload(FirstBlocks(s, n)))
  BY DEF Upto, a, s
<1>9. Upto(v, m) = Cat(Upto(v, n), Payload(t))
  BY <1>5, <1>6, <1>7, <1>8, CatAssociative
<1> QED  BY <1>2, <1>9 DEF s, t

LEMMA UptoStarts ==
  ASSUME volumes \in Seq(Seq(Block)), NEW v \in 1 .. Len(volumes), NEW n \in 0 .. Len(volumes[v])
  PROVE  Starts(Upto(v, n), OnVolumes)
<1> DEFINE m == Len(volumes[v])
<1>0. m \in n .. m /\ v \in 0 .. Len(volumes) /\ m \in 0 .. m
  <2>1. volumes[v] \in Seq(Block)  OBVIOUS
  <2>2. m \in Nat  BY <2>1
  <2> QED  BY <2>2
<1>1. Between(v, n, m) \in Seq(Block) /\ Upto(v, m) = Cat(Upto(v, n), Payload(Between(v, n, m)))
  BY <1>0, UptoFurther
<1>2. Upto(v, n) \in Seq(Block) /\ Upto(v, m) = OfFirst(v)  BY UptoSteps
<1>3. Payload(Between(v, n, m)) \in Seq(Block)  BY <1>1, PayloadType
<1> HIDE DEF m
<1>4. Starts(Upto(v, n), OfFirst(v))  BY <1>1, <1>2, <1>3, StartsCat
<1>5. OfFirst(v) \in Seq(Block) /\ Starts(OfFirst(v), OnVolumes)
  BY <1>0, OfFirstSteps, OfFirstStarts
<1>6. OnVolumes \in Seq(Block)  BY FlattenType, PayloadType DEF OnVolumes
<1> QED  BY <1>2, <1>4, <1>5, <1>6, StartsFurther

LEMMA SameStart ==
  ASSUME NEW s \in Seq(Block), NEW t \in Seq(Block), NEW u \in Seq(Block),
         Starts(s, u), Starts(t, u), Len(s) = Len(t)
  PROVE  s = t
<1>1. \A k \in 1 .. Len(s) : s[k] = u[k]  BY StartsElements
<1>2. \A k \in 1 .. Len(t) : t[k] = u[k]  BY StartsElements
<1>3. \A k \in 1 .. Len(s) : s[k] = t[k]  BY <1>1, <1>2
<1> QED  BY <1>3, SameBlocks

LEMMA BegunComes ==
  ASSUME size \in [Names -> Nat], NEW z \in Nat, NEW k \in 1 .. Len(Files),
         NEW c \in 0 .. size[Files[k]]
  PROVE  Starts(Begun(k, c), Archived(z)) /\ Begun(k, c) \in Seq(Block)
<1>1. Starts(Begun(k, c), Dumped[k]) /\ Begun(k, c) \in Seq(Block)  BY BegunBegins
<1>2. k \in 0 .. Len(Files)  OBVIOUS
<1>3. Starts(Dumped[k], Dumped[Len(Files)])  BY <1>2, DumpedStarts
<1>4. /\ Dumped[k] \in Seq(Block) /\ Dumped[Len(Files)] \in Seq(Block)
      /\ Archived(z) \in Seq(Block) /\ Zeros(z) \in Seq(Block)
  BY <1>2, DumpedSteps, ArchivedType, ZerosType
<1>5. Starts(Dumped[Len(Files)], Archived(z))  BY <1>4, StartsCat DEF Archived
<1>6. Starts(Dumped[k], Archived(z))  BY <1>3, <1>4, <1>5, StartsFurther
<1> QED  BY <1>1, <1>4, <1>6, StartsFurther

(* What can come after the first k members: the header of the next one, or *)
(* the end.                                                                *)
LEMMA ComesNext ==
  ASSUME size \in [Names -> Nat], NEW z \in Nat, NEW k \in 0 .. Len(Files), NEW b \in Block,
         Starts(Cat(Dumped[k], <<b>>), Archived(z))
  PROVE  IF k < Len(Files)
         THEN <<b>> = HeaderOf(Files[k + 1]) /\ b = Header(Files[k + 1], size[Files[k + 1]])
              /\ Files[k + 1] \in Names
         ELSE b = Zero /\ k = Len(Files)
<1>0. /\ <<b>> \in Seq(Block) /\ Len(<<b>>) = 1 /\ <<b>>[1] = b /\ Dumped[k] \in Seq(Block)
      /\ Archived(z) \in Seq(Block)
  BY DumpedSteps, ArchivedType
<1>1. CASE k < Len(Files)
  <2> DEFINE f == Files[k + 1]
  <2>0. k + 1 \in 1 .. Len(Files) /\ k + 1 - 1 = k  BY <1>1, FilesAreNames
  <2>1. f \in Names  BY <2>0, FilesAreNames
  <2>2. Begun(k + 1, 0) = Cat(Dumped[k], HeaderOf(f))  BY <2>0, BegunStarts
  <2>3. Starts(Begun(k + 1, 0), Archived(z)) /\ Begun(k + 1, 0) \in Seq(Block)
    <3>1. 0 \in 0 .. size[f]  BY <2>1
    <3> QED  BY <2>0, <3>1, BegunComes
  <2>4. /\ HeaderOf(f) \in Seq(Block) /\ Len(HeaderOf(f)) = 1
        /\ HeaderOf(f)[1] = Header(f, size[f])
    BY <2>1, BlockTypes
  <2> HIDE DEF f
  <2>5. /\ Len(Cat(Dumped[k], <<b>>)) = Len(Dumped[k]) + 1
        /\ Len(Cat(Dumped[k], HeaderOf(f))) = Len(Dumped[k]) + 1
    <3>1. Len(Cat(Dumped[k], <<b>>)) = Len(Dumped[k]) + Len(<<b>>)
      BY <1>0, CatElements
    <3>2. Len(Cat(Dumped[k], HeaderOf(f))) = Len(Dumped[k]) + Len(HeaderOf(f))
      BY <1>0, <2>4, CatElements
    <3> QED  BY <1>0, <2>4, <3>1, <3>2
  <2>6. Cat(Dumped[k], <<b>>) \in Seq(Block) /\ Cat(Dumped[k], HeaderOf(f)) \in Seq(Block)
    BY <1>0, <2>4, CatType
  <2>7. Cat(Dumped[k], <<b>>) = Cat(Dumped[k], HeaderOf(f))
    BY <1>0, <2>2, <2>3, <2>5, <2>6, SameStart
  <2>8. <<b>> = HeaderOf(f)  BY <1>0, <2>4, <2>7, CatCancels
  <2> QED  BY <1>0, <1>1, <2>1, <2>4, <2>8 DEF f
<1>2. CASE ~ k < Len(Files)
  <2>1. k = Len(Files)  BY <1>2, FilesAreNames
  <2>2. /\ Zeros(z) \in Seq(Block) /\ Len(Zeros(z)) = z
        /\ \A i \in 1 .. z : Zeros(z)[i] = Zero
    BY ZerosType
  <2>3. Starts(<<b>>, Zeros(z))
    <3>1. Starts(Cat(Dumped[k], <<b>>), Cat(Dumped[k], Zeros(z)))  BY <2>1 DEF Archived
    <3> QED  BY <1>0, <2>2, <3>1, StartsAfter
  <2>4. Len(<<b>>) <= Len(Zeros(z)) /\ \A i \in 1 .. Len(<<b>>) : <<b>>[i] = Zeros(z)[i]
    BY <1>0, <2>2, <2>3, StartsElements
  <2>5. 1 \in 1 .. Len(<<b>>) /\ 1 \in 1 .. z  BY <1>0, <2>2, <2>4
  <2>6. b = Zero  BY <1>0, <2>2, <2>4, <2>5
  <2> QED  BY <1>2, <2>1, <2>6
<1> QED  BY <1>1, <1>2

LEMMA ZerosEnd ==
  ASSUME volumes \in Seq(Seq(Block)), size \in [Names -> Nat], NEW z \in Nat,
         Starts(OnVolumes, Archived(z)), NEW k \in 0 .. Len(Files),
         Starts(Cat(Dumped[k], <<Zero>>), OnVolumes)
  PROVE  MembersOf(FlattenSeq(volumes)) = Dumped[k]
<1>0. /\ <<Zero>> \in Seq(Block) /\ Dumped[k] \in Seq(Block) /\ Archived(z) \in Seq(Block)
      /\ OnVolumes \in Seq(Block) /\ Cat(Dumped[k], <<Zero>>) \in Seq(Block)
  <2>1. <<Zero>> \in Seq(Block)  BY ZeroIsBlock
  <2>2. Dumped[k] \in Seq(Block)  BY DumpedSteps
  <2> QED  BY <2>1, <2>2, ArchivedType, CatType, FlattenType, PayloadType DEF OnVolumes
<1>1. Starts(Cat(Dumped[k], <<Zero>>), Archived(z))  BY <1>0, StartsFurther
<1>2. k = Len(Files)
  <2>1. Zero \in Block /\ Zero.kind = "zero"  BY ZeroIsBlock
  <2>2. IF k < Len(Files)
        THEN Zero = Header(Files[k + 1], size[Files[k + 1]])
        ELSE k = Len(Files)
    BY <1>1, <2>1, ComesNext
  <2>3. \A f, m : Zero # Header(f, m)  BY <2>1 DEF Header
  <2> QED  BY <2>2, <2>3
<1>3. PICK w \in Seq(Block) : OnVolumes = Cat(Cat(Dumped[k], <<Zero>>), w)  BY DEF Starts
<1> DEFINE u == Cat(<<Zero>>, w)
<1>4. OnVolumes = Cat(Dumped[k], u) /\ u \in Seq(Block)
  <2>1. Cat(Cat(Dumped[k], <<Zero>>), w) = Cat(Dumped[k], Cat(<<Zero>>, w))
    BY <1>0, CatAssociative
  <2>2. Cat(<<Zero>>, w) \in Seq(Block)  BY <1>0, CatType
  <2> QED  BY <1>3, <2>1, <2>2
<1> HIDE DEF u
<1>5. Zeros(z) \in Seq(Block) /\ Len(Zeros(z)) = z /\ \A i \in 1 .. z : Zeros(z)[i] = Zero
  BY ZerosType
<1>6. Starts(u, Zeros(z))
  <2>1. Starts(Cat(Dumped[k], u), Cat(Dumped[k], Zeros(z)))  BY <1>2, <1>4 DEF Archived
  <2> QED  BY <1>0, <1>4, <1>5, <2>1, StartsAfter
<1>7. Len(u) <= Len(Zeros(z)) /\ \A i \in 1 .. Len(u) : u[i] = Zeros(z)[i]
  BY <1>4, <1>5, <1>6, StartsElements
<1>8. \A i \in 1 .. Len(u) : u[i] = Zero
  <2>1. Len(u) \in Nat /\ Len(u) <= z  BY <1>4, <1>5, <1>7
  <2>2. \A i \in 1 .. Len(u) : i \in 1 .. z  BY <2>1
  <2>3. \A i \in 1 .. Len(u) : u[i] = Zeros(z)[i]  BY <1>7
  <2>4. \A i \in 1 .. z : Zeros(z)[i] = Zero  BY <1>5
  <2> QED  BY <2>2, <2>3, <2>4
<1> QED  BY <1>4, <1>8, MembersEnd
-----------------------------------------------------------------------------
(* Where the reader is on the volumes, and what it has delivered.          *)

(* What the writer leaves to a reader whose records and volumes have room. *)
Sure ==
  /\ Roomy /\ \A v \in 1 .. Len(volumes) : Labelled(v, volumes[v], Len(volumes[v]))
  /\ \E z \in Nat : Starts(OnVolumes, Archived(z))

(* The payload of the blocks that were read.                               *)
Taken == IF nvpc = "mount" \/ hit_eof THEN OfFirst(accepted) ELSE Upto(vol, Consumed)

(* Between two volumes; an empty record, taken for the end, is on the last.*)
Here == nvpc = "none" => vol = accepted /\ (hit_eof => vol = Len(volumes) /\ rcur = rend)

(* Only the label of the first volume is left to list.c.                   *)
Plain ==
  nvpc = "none" /\ ~ hit_eof =>
    \A k \in Consumed + 1 .. Len(volumes[vol]) :
      \/ Unmarked(volumes[vol][k])
      \/ k = 1 /\ volumes[vol][k].kind = "volhdr" /\ rpc \in {"open", "header"}

(* The next volume is mounted once, and its start was read.                *)
Mounts ==
  nvpc = "mount" => vol \in {accepted, accepted + 1} /\ (vol = accepted => rend = RB /\ ~ hit_eof)
Identifies ==
  nvpc \in {"first", "second", "check"} =>
    /\ ~ hit_eof /\ vol = accepted + 1
    /\ pos = Reader!Available(vol, 0) /\ rend = pos /\ rcur <= LabelSize + 1
    /\ nvpc = "first" => rcur = 0
    /\ nvpc = "second" => rcur = 1 /\ LabelSize = 1
    /\ nvpc = "check" =>
         /\ \A k \in 1 .. rcur : ~ Unmarked(volumes[vol][k])
         /\ \A k \in rcur + 1 .. Len(volumes[vol]) : Unmarked(volumes[vol][k])

(* The extraction, at p, has delivered o of what was read, t.              *)
DeliversAt(p, o, t, l, k) ==
  /\ p = "open" => o = <<>> /\ t = <<>>
  /\ p = "header" => o = t /\ \E n \in 0 .. Len(Files) : t = Dumped[n]
  /\ p \in {"member", "data"} =>
       /\ k /\ o = t
       /\ \E n \in 1 .. Len(Files) : l <= size[Files[n]] /\ t = Begun(n, size[Files[n]] - l)
  /\ p = "data" => l > 0
  /\ p \in {"zero", "done"} => o = MembersOf(FlattenSeq(volumes))
Delivers == DeliversAt(rpc, out, Taken, rleft, keep)

Fed == Buffered /\ Here /\ Plain /\ Mounts /\ Identifies /\ Delivers
Ready == RTyped /\ size \in [Names -> Nat] /\ Sure /\ Fed /\ mistakes = 0 /\ rpc # "fatal"
Rests == UNCHANGED <<volumes, size, setting, RB>>

LEMMA SureHolds ==
  ASSUME Records, RTyped, Ended, Roomy  PROVE  Sure /\ size \in [Names -> Nat]
<1>0. Typed /\ Leads /\ Carrying /\ pc # "undefined" /\ size \in [Names -> Nat]
  BY DEF Records, Writes, Typed, Ended
<1>1. /\ \A v \in 1 .. Len(volumes) - 1 : Labelled(v, volumes[v], Len(volumes[v]))
      /\ Labelled(Len(volumes), Line, Level)
  BY <1>0 DEF Leads, Roomy
<1>2. /\ Mounted = volumes[Len(volumes)] /\ Len(Mounted) \in Nat /\ Level \in Nat
      /\ Len(Mounted) <= Level /\ \A k \in 1 .. Len(Mounted) : Line[k] = Mounted[k]
  <2>1. /\ Len(Mounted) \in Nat /\ Level = Len(Mounted) + cur /\ cur \in Nat
        /\ \A k \in 1 .. Len(Mounted) : Line[k] = Mounted[k]
    BY <1>0, LineFacts DEF Typed
  <2> QED  BY <2>1 DEF Mounted
<1>3. ASSUME NEW v \in 1 .. Len(volumes)  PROVE Labelled(v, volumes[v], Len(volumes[v]))
  <2>0. Len(volumes) \in Nat  BY DEF RTyped
  <2>1. CASE v = Len(volumes)
    <3>1. \A k \in 1 .. Len(Mounted) : k \in 1 .. Level  BY <1>2
    <3>2. \A k \in 1 .. Len(Mounted) : MayStand(v, k, Mounted[k])
      BY <1>1, <1>2, <2>1, <3>1 DEF Labelled
    <3> QED  BY <1>2, <2>1, <3>2 DEF Labelled
  <2>2. CASE v # Len(volumes)
    <3>1. v \in 1 .. Len(volumes) - 1  BY <2>0, <2>2
    <3> QED  BY <1>1, <3>1
  <2> QED  BY <2>1, <2>2
<1>4. \E z \in Nat : Starts(OnVolumes, Archived(z))  BY <1>0 DEF Carrying
<1> QED  BY <1>0, <1>3, <1>4 DEF Sure

LEMMA NextFed ==
  ASSUME Rests
  PROVE  /\ Taken' = IF nvpc' = "mount" \/ hit_eof' THEN OfFirst(accepted') ELSE Upto(vol', Consumed')
         /\ Delivers' = DeliversAt(rpc', out', Taken', rleft', keep')
         /\ LabelSize' = LabelSize
<1>0. volumes' = volumes /\ size' = size /\ setting' = setting  BY DEF Rests
<1>1. LabelSize' = LabelSize  BY <1>0 DEF LabelSize, volume_label_option
<1>2. Taken' = IF nvpc' = "mount" \/ hit_eof' THEN OfFirst(accepted') ELSE Upto(vol', Consumed')
  BY <1>0 DEF Taken, OfFirst, Upto
<1>3. Delivers' = DeliversAt(rpc', out', Taken', rleft', keep')
  BY <1>0 DEF Delivers, DeliversAt, Dumped, Begun, Whole, HeaderOf
<1> QED  BY <1>1, <1>2, <1>3

(* The device, the buffer and try_new_volume are left alone.               *)
StaysThere == UNCHANGED <<vol, pos, accepted, rrecord, rcur, rend, hit_eof, nvpc>>
LEMMA FedThere ==
  ASSUME Rests, StaysThere
  PROVE  /\ Taken' = Taken
         /\ Buffered => Buffered'
         /\ Here => Here'
         /\ Mounts => Mounts'
         /\ Identifies => Identifies'
         /\ Plain /\ (rpc \in {"open", "header"} /\ ~ hit_eof => rpc' \in {"open", "header"})
              => Plain'
<1>0. volumes' = volumes /\ setting' = setting /\ RB' = RB  BY DEF Rests
<1>1. /\ vol' = vol /\ pos' = pos /\ accepted' = accepted /\ rrecord' = rrecord /\ rcur' = rcur
      /\ rend' = rend /\ hit_eof' = hit_eof /\ nvpc' = nvpc
  BY DEF StaysThere
<1>2. Consumed' = Consumed  BY <1>1 DEF Consumed
<1>3. Taken' = Taken  BY <1>1, <1>2, NextFed DEF Taken
<1>4. Buffered => Buffered'  BY <1>0, <1>1 DEF Buffered
<1>5. (Here => Here') /\ (Mounts => Mounts')  BY <1>0, <1>1 DEF Here, Mounts
<1>6. Identifies => Identifies'
  BY <1>0, <1>1, NextFed DEF Identifies, Reader!Available, Reader!Least, Unmarked
<1>7. ASSUME Plain, rpc \in {"open", "header"} /\ ~ hit_eof => rpc' \in {"open", "header"}
      PROVE  Plain'
  BY <1>0, <1>1, <1>2, <1>7 DEF Plain, Unmarked
<1> QED  BY <1>3, <1>4, <1>5, <1>6, <1>7

(* list.c without taking a block.                                          *)
LEMMA PassesFed ==
  ASSUME Ready, Rests, rpc' # "fatal",
         Reader!Opened \/ Reader!EndOfArchive \/ Reader!NextChunk \/ Reader!MemberRead
  PROVE  Fed'
<1> USE DEF Reader!fixed, Reader!medium, Reader!rbuffer, Reader!rtracking, Reader!extraction
<1>0. Fed /\ Delivers /\ StaysThere /\ volumes \in Seq(Seq(Block)) /\ size \in [Names -> Nat]
  BY DEF Ready, Fed, RTyped, StaysThere, Reader!Opened, Reader!EndOfArchive, Reader!NextChunk,
         Reader!MemberRead
<1>1. rpc \in {"open", "header"} /\ ~ hit_eof => rpc' \in {"open", "header"}
  BY DEF Reader!Opened, Reader!EndOfArchive, Reader!NextChunk, Reader!MemberRead, Reader!AtEof
<1>2. Buffered' /\ Here' /\ Plain' /\ Mounts' /\ Identifies' /\ Taken' = Taken
  BY <1>0, <1>1, FedThere DEF Fed
<1>3. DeliversAt(rpc, out, Taken, rleft, keep)  BY <1>0 DEF Delivers
<1>4. DeliversAt(rpc', out', Taken, rleft', keep')
  <2>1. CASE Reader!Opened
    <3>1. 0 \in 0 .. Len(Files) /\ Dumped[0] = <<>>  BY <1>0, FilesAreNames, DumpedSteps
    <3>2. rpc = "open" /\ rpc' = "header" /\ out' = out  BY <2>1 DEF Reader!Opened
    <3> QED  BY <1>3, <3>1, <3>2 DEF DeliversAt
  <2>2. CASE Reader!EndOfArchive
    <3>1. rpc \in {"header", "zero"} /\ rpc' = "done" /\ out' = out
      BY <2>2 DEF Reader!EndOfArchive
    <3>2. CASE rpc = "zero"  BY <1>3, <3>1, <3>2 DEF DeliversAt
    <3>3. CASE rpc = "header"
      <4>1. nvpc = "none" /\ hit_eof
        BY <2>2, <3>3 DEF Reader!EndOfArchive, Reader!AtEof, Reader!NeedsBlock
      <4>2. vol = accepted /\ vol = Len(volumes)  BY <1>0, <4>1 DEF Fed, Here
      <4>3. Taken = OnVolumes  BY <1>0, <4>1, <4>2, OfFirstSteps DEF Taken
      <4>4. PICK n \in 0 .. Len(Files) : out = Taken /\ Taken = Dumped[n]
        BY <1>3, <3>3 DEF DeliversAt
      <4>5. Dumped[n] \in Seq(Block) /\ <<>> \in Seq(Block) /\ Len(<<>>) = 0
        BY <1>0, DumpedSteps
      <4>6. OnVolumes = Cat(Dumped[n], <<>>)  BY <4>3, <4>4, <4>5, CatEmpty
      <4>7. \A i \in 1 .. Len(<<>>) : <<>>[i] = Zero  BY <4>5
      <4>8. MembersOf(FlattenSeq(volumes)) = Dumped[n]
        <5> DEFINE u == <<>>
        <5>1. u \in Seq(Block) /\ OnVolumes = Cat(Dumped[n], u) /\ \A i \in 1 .. Len(u) : u[i] = Zero
          BY <4>5, <4>6, <4>7
        <5> HIDE DEF u
        <5> QED  BY <1>0, <5>1, MembersEnd
      <4> QED  BY <3>1, <4>4, <4>8 DEF DeliversAt
    <3> QED  BY <3>1, <3>2, <3>3
  <2>3. CASE Reader!NextChunk
    <3>1. /\ rpc = "member" /\ rpc' = "data" /\ rleft > 0
          /\ UNCHANGED <<out, rleft, keep>>
      BY <2>3 DEF Reader!NextChunk
    <3> QED  BY <1>3, <3>1 DEF DeliversAt
  <2>4. CASE Reader!MemberRead
    <3>1. rpc = "member" /\ rpc' = "header" /\ rleft = 0 /\ out' = out
      BY <2>4 DEF Reader!MemberRead
    <3>2. PICK n \in 1 .. Len(Files) : out = Taken /\ Taken = Begun(n, size[Files[n]] - rleft)
      BY <1>3, <3>1 DEF DeliversAt
    <3>3. size[Files[n]] \in Nat /\ n \in 0 .. Len(Files)  BY <1>0, FilesAreNames
    <3>4. size[Files[n]] - rleft = size[Files[n]]  BY <3>1, <3>3
    <3>5. Taken = Dumped[n]  BY <1>0, <3>2, <3>4, BegunEnds
    <3> QED  BY <3>1, <3>2, <3>3, <3>5 DEF DeliversAt
  <2> QED  BY <2>1, <2>2, <2>3, <2>4
<1>5. Delivers'  BY <1>2, <1>4, NextFed
<1> QED  BY <1>2, <1>5 DEF Fed
-----------------------------------------------------------------------------
(* list.c takes p blocks of the record.                                    *)
Takes(p) ==
  /\ nvpc = "none" /\ p >= 1 /\ rcur' = rcur + p /\ p <= rend - rcur
  /\ UNCHANGED <<vol, pos, accepted, rrecord, rend, hit_eof, nvpc>>

LEMMA Takeable ==
  ASSUME Ready, nvpc = "none", rcur < rend
  PROVE  /\ ~ hit_eof /\ Consumed \in Nat /\ vol \in 1 .. Len(volumes)
         /\ Consumed + (rend - rcur) <= Len(volumes[vol])
         /\ Len(volumes[vol]) \in Nat /\ rend - rcur \in Nat
         /\ volumes \in Seq(Seq(Block)) /\ volumes[vol] \in Seq(Block)
         /\ Taken = Upto(vol, Consumed)
         /\ \A i \in 0 .. (rend - rcur) - 1 : rrecord[rcur + i] = volumes[vol][Consumed + i + 1]
         /\ Reader!block = volumes[vol][Consumed + 1]
<1>0. RTyped /\ Fed  BY DEF Ready
<1>1. ~ hit_eof
  <2>1. rcur # rend  BY <1>0 DEF RTyped
  <2> QED  BY <1>0, <2>1 DEF Fed, Here
<1>2. Buffered  BY <1>0 DEF Fed
<1>3. /\ Consumed \in 0 .. Len(volumes[vol]) /\ Len(volumes[vol]) \in Nat
      /\ Consumed + (rend - rcur) <= Len(volumes[vol])
      /\ \A i \in 0 .. (rend - rcur) - 1 : rrecord[rcur + i] = volumes[vol][Consumed + i + 1]
      /\ Reader!block = volumes[vol][Consumed + 1]
  BY <1>0, <1>1, <1>2, Ahead
<1>4. vol \in 1 .. Len(volumes) /\ volumes \in Seq(Seq(Block)) /\ volumes[vol] \in Seq(Block)
  BY <1>0 DEF RTyped
<1>5. rend - rcur \in Nat  BY <1>0 DEF RTyped
<1>6. Taken = Upto(vol, Consumed)  BY <1>1 DEF Taken
<1> QED  BY <1>1, <1>3, <1>4, <1>5, <1>6

LEMMA TakesFed ==
  ASSUME Ready, Rests, NEW p \in Nat, Takes(p)
  PROVE  /\ Taken' = Upto(vol, Consumed + p)
         /\ Buffered' /\ Here' /\ Plain' /\ Mounts' /\ Identifies'
<1>0. /\ RTyped /\ Buffered /\ Here /\ Plain
      /\ volumes' = volumes /\ setting' = setting /\ RB' = RB
  BY DEF Rests, Ready, Fed
<1>1. /\ vol' = vol /\ pos' = pos /\ accepted' = accepted /\ rrecord' = rrecord
      /\ rend' = rend /\ hit_eof' = hit_eof /\ nvpc' = "none" /\ nvpc = "none"
      /\ rcur' = rcur + p /\ p >= 1 /\ p <= rend - rcur
  BY DEF Takes
<1>2. rcur < rend  BY <1>0, <1>1 DEF RTyped
<1>3. ~ hit_eof /\ Consumed \in Nat /\ Taken = Upto(vol, Consumed)  BY <1>1, <1>2, Takeable
<1>4. Consumed' = Consumed + p
  BY <1>0, <1>1 DEF Consumed, RTyped
<1>5. Taken' = Upto(vol, Consumed + p)  BY <1>1, <1>3, <1>4, NextFed
<1>6. Buffered'  BY <1>0, <1>1 DEF Buffered
<1>7. Here' /\ Mounts' /\ Identifies'
  BY <1>0, <1>1, <1>3 DEF Here, Mounts, Identifies
<1>8. Plain'
  <2>1. \A k \in Consumed + 1 .. Len(volumes[vol]) :
          Unmarked(volumes[vol][k]) \/ k = 1
    BY <1>0, <1>1, <1>3 DEF Plain
  <2>2. \A k \in Consumed + p + 1 .. Len(volumes[vol]) :
          k \in Consumed + 1 .. Len(volumes[vol]) /\ k # 1
    BY <1>1, <1>3
  <2>3. \A k \in Consumed + p + 1 .. Len(volumes[vol]) : Unmarked(volumes[vol][k])
    BY <2>1, <2>2
  <2> QED  BY <1>0, <1>1, <1>4, <2>3 DEF Plain, Unmarked
<1> QED  BY <1>5, <1>6, <1>7, <1>8

(* The next block.                                                         *)
LEMMA NextTaken ==
  ASSUME Ready, nvpc = "none", rcur < rend, NEW b, b = Reader!block
  PROVE  /\ b \in Block
         /\ Unmarked(b) \/ (b.kind = "volhdr" /\ rpc \in {"open", "header"})
         /\ Upto(vol, Consumed + 1) = IF Unmarked(b) THEN Cat(Taken, <<b>>) ELSE Taken
         /\ Taken \in Seq(Block)
         /\ Starts(Upto(vol, Consumed + 1), OnVolumes)
         /\ \E z \in Nat : Starts(OnVolumes, Archived(z)) /\ Starts(Upto(vol, Consumed + 1), Archived(z))
<1> DEFINE n == Consumed + 1
<1>0. RTyped /\ Plain /\ Sure /\ size \in [Names -> Nat]  BY DEF Ready, Fed
<1>1. /\ ~ hit_eof /\ Consumed \in Nat /\ vol \in 1 .. Len(volumes)
      /\ n <= Len(volumes[vol]) /\ Len(volumes[vol]) \in Nat
      /\ volumes \in Seq(Seq(Block)) /\ volumes[vol] \in Seq(Block)
      /\ Taken = Upto(vol, Consumed) /\ b = volumes[vol][n]
  <2>1. /\ ~ hit_eof /\ Consumed \in Nat /\ vol \in 1 .. Len(volumes)
        /\ Consumed + (rend - rcur) <= Len(volumes[vol]) /\ Len(volumes[vol]) \in Nat
        /\ volumes \in Seq(Seq(Block)) /\ volumes[vol] \in Seq(Block)
        /\ Taken = Upto(vol, Consumed) /\ b = volumes[vol][n]
    BY Takeable
  <2>2. rend - rcur >= 1  BY <1>0 DEF RTyped
  <2>3. rend - rcur \in Nat  BY <1>0 DEF RTyped
  <2> QED  BY <2>1, <2>2, <2>3
<1>2. n \in 1 .. Len(volumes[vol]) /\ n \in 0 .. Len(volumes[vol])
      /\ n - 1 = Consumed /\ Consumed \in 0 .. Len(volumes[vol]) /\ n \in n .. Len(volumes[vol])
  BY <1>1
<1>3. b \in Block /\ <<b>> \in Seq(Block)  BY <1>1, <1>2
<1>4. Unmarked(b) \/ (b.kind = "volhdr" /\ rpc \in {"open", "header"})
  BY <1>0, <1>1, <1>2 DEF Plain
<1> HIDE DEF n
<1>5. Upto(vol, n) = Cat(Upto(vol, n - 1), Payload(<<volumes[vol][n]>>))
  BY <1>1, <1>2, UptoSteps
<1>6. Upto(vol, n) = Cat(Taken, Payload(<<b>>)) /\ Taken \in Seq(Block)
  <2>1. Taken \in Seq(Block)  BY <1>1, <1>2, UptoSteps
  <2> QED  BY <1>1, <1>2, <1>5, <2>1
<1>7. Unmarked(b) => Payload(<<b>>) = <<b>>
  <2>1. Unmarked(b) => \A k \in 1 .. Len(<<b>>) : <<b>>[k].kind \notin {"volhdr", "multivol"}
    BY DEF Unmarked
  <2> QED  BY <1>3, <2>1, PayloadAll
<1>8. ~ Unmarked(b) => Payload(<<b>>) = <<>>  BY <1>3, PayloadNone DEF Unmarked
<1>9. Upto(vol, n) = IF Unmarked(b) THEN Cat(Taken, <<b>>) ELSE Taken
  BY <1>6, <1>7, <1>8, CatEmpty
<1>10. Starts(Upto(vol, n), OnVolumes)  BY <1>1, <1>2, UptoStarts
<1>11. PICK z \in Nat : Starts(OnVolumes, Archived(z))  BY <1>0 DEF Sure
<1>12. Upto(vol, n) \in Seq(Block) /\ OnVolumes \in Seq(Block) /\ Archived(z) \in Seq(Block)
  <2>1. Upto(vol, n) \in Seq(Block)  BY <1>1, <1>2, UptoSteps
  <2>2. OnVolumes \in Seq(Block)  BY <1>1, FlattenType, PayloadType DEF OnVolumes
  <2> QED  BY <1>0, <2>1, <2>2, ArchivedType
<1>13. Starts(Upto(vol, n), Archived(z))  BY <1>10, <1>11, <1>12, StartsFurther
<1> QED  BY <1>3, <1>4, <1>6, <1>9, <1>10, <1>11, <1>13 DEF n

(* The header of a member, a label, or the end.                            *)
LEMMA HeaderFed ==
  ASSUME Ready, Rests, Reader!ReadHeader \/ Reader!SkipBlock \/ Reader!ZeroBlock
  PROVE  Fed'
<1> USE DEF Reader!fixed, Reader!medium, Reader!rbuffer, Reader!rtracking, Reader!extraction
<1> DEFINE b == Reader!block
           t == Upto(vol, Consumed + 1)
<1>0. /\ RTyped /\ size \in [Names -> Nat] /\ Delivers /\ volumes \in Seq(Seq(Block))
      /\ nvpc = "none" /\ rcur < rend /\ rpc = "header"
  BY DEF Ready, Fed, RTyped, Reader!ReadHeader, Reader!SkipBlock, Reader!ZeroBlock, Reader!HasBlock
<1>1. Takes(1)
  <2>1. 1 <= rend - rcur  BY <1>0 DEF RTyped
  <2> QED  BY <1>0, <2>1 DEF Takes, Reader!ReadHeader, Reader!SkipBlock, Reader!ZeroBlock
<1>2. Taken' = t /\ Buffered' /\ Here' /\ Plain' /\ Mounts' /\ Identifies'
  <2>1. 1 \in Nat  OBVIOUS
  <2> QED  BY <1>1, <2>1, TakesFed
<1>3. /\ b \in Block
      /\ Unmarked(b) \/ b.kind = "volhdr"
      /\ t = IF Unmarked(b) THEN Cat(Taken, <<b>>) ELSE Taken
      /\ Taken \in Seq(Block) /\ Starts(t, OnVolumes)
  BY <1>0, NextTaken
<1>4. PICK z \in Nat : Starts(OnVolumes, Archived(z)) /\ Starts(t, Archived(z))
  BY <1>0, NextTaken
<1>5. PICK n \in 0 .. Len(Files) : out = Taken /\ Taken = Dumped[n]
  BY <1>0 DEF Delivers, DeliversAt
<1> HIDE DEF b, t
<1>6. Unmarked(b) =>
        IF n < Len(Files)
        THEN <<b>> = HeaderOf(Files[n + 1]) /\ b = Header(Files[n + 1], size[Files[n + 1]])
             /\ Files[n + 1] \in Names
        ELSE b = Zero /\ n = Len(Files)
  BY <1>0, <1>3, <1>4, <1>5, ComesNext
<1>k. /\ Zero.kind = "zero" /\ \A f, m : Header(f, m).kind = "header" /\ Header(f, m).size = m
  BY DEF Zero, Header
<1>7. DeliversAt(rpc', out', t, rleft', keep')
  <2>1. CASE Reader!ReadHeader
    <3>1. /\ b.kind \in {"header", "multivol"} /\ rpc' = "member"
          /\ rleft' = b.size /\ keep' = (b.kind = "header")
          /\ out' = IF keep' THEN Append(out, b) ELSE out
      BY <2>1 DEF Reader!ReadHeader, b
    <3>2. Unmarked(b)  BY <1>3, <3>1
    <3>3. n < Len(Files)  BY <1>6, <1>k, <3>1, <3>2
    <3> DEFINE f == Files[n + 1]
    <3>4. <<b>> = HeaderOf(f) /\ b = Header(f, size[f]) /\ f \in Names  BY <1>6, <3>2, <3>3
    <3> HIDE DEF f
    <3>5. b.kind = "header" /\ b.size = size[f]  BY <1>k, <3>4
    <3>6. keep' /\ rleft' = size[f] /\ out' = Append(out, b)  BY <3>1, <3>5
    <3>7. n + 1 \in 1 .. Len(Files) /\ n + 1 - 1 = n  BY <3>3, FilesAreNames
    <3>8. t = Begun(n + 1, 0)
      <4> DEFINE m == n + 1
      <4>0. m \in 1 .. Len(Files) /\ m - 1 = n /\ f = Files[m]  BY <3>7 DEF f
      <4> HIDE DEF m
      <4>1. Begun(m, 0) = Cat(Dumped[m - 1], HeaderOf(Files[m]))  BY <1>0, <4>0, BegunStarts
      <4>2. Begun(n + 1, 0) = Cat(Dumped[n], HeaderOf(f))  BY <4>0, <4>1 DEF m
      <4>3. t = Cat(Dumped[n], <<b>>)  BY <1>3, <1>5, <3>2
      <4> QED  BY <3>4, <4>2, <4>3
    <3>9. size[f] - rleft' = 0 /\ rleft' <= size[f]  BY <1>0, <3>4, <3>6
    <3>10. out' = t
      <4>0. out \in Seq(Block)  BY <1>0 DEF RTyped
      <4>1. Append(out, b) = out \o <<b>>  BY <4>0, <1>3, AppendIsConcat
      <4> QED  BY <1>3, <1>5, <3>2, <3>6, <4>1 DEF Cat
    <3> QED  BY <3>1, <3>6, <3>7, <3>8, <3>9, <3>10 DEF DeliversAt, f
  <2>2. CASE Reader!SkipBlock
    <3>1. b.kind \in {"volhdr", "data", "junk"} /\ rpc' = "header" /\ out' = out
      BY <1>0, <2>2 DEF Reader!SkipBlock, b
    <3>2. ~ Unmarked(b)  BY <1>6, <1>k, <3>1
    <3> QED  BY <1>3, <1>5, <3>1, <3>2 DEF DeliversAt
  <2>3. CASE Reader!ZeroBlock
    <3>1. b.kind = "zero" /\ rpc' = "zero" /\ out' = out  BY <2>3 DEF Reader!ZeroBlock, b
    <3>2. Unmarked(b)  BY <3>1 DEF Unmarked
    <3>3. b = Zero  BY <1>6, <1>k, <3>1, <3>2
    <3>4. Starts(Cat(Dumped[n], <<Zero>>), OnVolumes)  BY <1>3, <1>5, <3>2, <3>3
    <3>5. MembersOf(FlattenSeq(volumes)) = Dumped[n]  BY <1>0, <1>4, <3>4, ZerosEnd
    <3> QED  BY <1>5, <3>1, <3>5 DEF DeliversAt
  <2> QED  BY <2>1, <2>2, <2>3
<1>8. Delivers'  BY <1>2, <1>7, NextFed
<1> QED  BY <1>2, <1>8 DEF Fed

(* The data of a member.                                                   *)
LEMMA DataFed ==
  ASSUME Ready, Rests, Reader!ReadData
  PROVE  Fed'
<1> USE DEF Reader!fixed, Reader!medium, Reader!rbuffer, Reader!rtracking, Reader!extraction
<1> DEFINE p == Reader!ToRead
           c == Consumed
           s == Between(vol, c, c + p)
           t == Upto(vol, c + p)
           new == [i \in 1 .. p |-> rrecord[rcur + i - 1]]
<1>0. /\ RTyped /\ size \in [Names -> Nat] /\ Delivers /\ volumes \in Seq(Seq(Block)) /\ Plain
      /\ nvpc = "none" /\ rcur < rend /\ rpc = "data" /\ rpc' = "member" /\ Sure
  BY DEF Ready, Fed, RTyped, Reader!ReadData, Reader!HasBlock
<1>1. PICK n \in 1 .. Len(Files) : rleft <= size[Files[n]] /\ Taken = Begun(n, size[Files[n]] - rleft)
  BY <1>0 DEF Delivers, DeliversAt
<1> DEFINE f == Files[n]
           d == size[f] - rleft
<1>2. out = Taken /\ keep /\ rleft > 0  BY <1>0 DEF Delivers, DeliversAt
<1>3. p \in 1 .. rleft /\ p <= rend - rcur /\ p \in Nat
  <2>1. rend - rcur \in Nat /\ rend - rcur >= 1 /\ rleft \in Nat  BY <1>0 DEF RTyped
  <2> QED  BY <1>2, <2>1 DEF Reader!ToRead, Reader!Least
<1>4. /\ out' = out \o new /\ rcur' = rcur + p /\ rleft' = rleft - p /\ keep' = keep
      /\ Takes(p)
  BY <1>0, <1>2, <1>3 DEF Reader!ReadData, Takes
<1>5. Taken' = t /\ Buffered' /\ Here' /\ Plain' /\ Mounts' /\ Identifies'
  BY <1>3, <1>4, TakesFed
<1> HIDE DEF p
<1>6. /\ ~ hit_eof /\ c \in Nat /\ vol \in 1 .. Len(volumes)
      /\ c + (rend - rcur) <= Len(volumes[vol]) /\ Len(volumes[vol]) \in Nat
      /\ rend - rcur \in Nat /\ volumes[vol] \in Seq(Block) /\ Taken = Upto(vol, c)
      /\ \A i \in 0 .. (rend - rcur) - 1 : rrecord[rcur + i] = volumes[vol][c + i + 1]
  BY <1>0, Takeable
<1> HIDE DEF c
<1>7. /\ c \in 0 .. Len(volumes[vol]) /\ c + p \in c .. Len(volumes[vol])
      /\ c + p \in 0 .. Len(volumes[vol]) /\ (c + p) - c = p
  BY <1>3, <1>6
<1>8. /\ s \in Seq(Block) /\ Len(s) = p /\ \A i \in 1 .. p : s[i] = volumes[vol][c + i]
      /\ t = Cat(Taken, Payload(s))
  <2> DEFINE m == c + p
  <2>0. m \in c .. Len(volumes[vol]) /\ m - c = p  BY <1>7
  <2> HIDE DEF m
  <2>1. /\ Between(vol, c, m) \in Seq(Block) /\ Len(Between(vol, c, m)) = m - c
        /\ \A i \in 1 .. m - c : Between(vol, c, m)[i] = volumes[vol][c + i]
        /\ Upto(vol, m) = Cat(Upto(vol, c), Payload(Between(vol, c, m)))
    BY <1>0, <1>6, <1>7, <2>0, UptoFurther
  <2> QED  BY <1>6, <2>0, <2>1 DEF m
<1> HIDE DEF s, t
<1>9. Payload(s) = s
  <2>1. \A i \in 1 .. p : c + i \in c + 1 .. Len(volumes[vol])  BY <1>3, <1>6, <1>7
  <2>2. \A k \in c + 1 .. Len(volumes[vol]) : Unmarked(volumes[vol][k])
    BY <1>0, <1>6 DEF Plain, c
  <2>3. \A i \in 1 .. Len(s) : s[i].kind \notin {"volhdr", "multivol"}
    BY <1>8, <2>1, <2>2 DEF Unmarked
  <2> QED  BY <1>8, <2>3, PayloadAll
<1>10. new = s
  <2>1. \A i \in 1 .. p : i - 1 \in 0 .. (rend - rcur) - 1 /\ rcur + (i - 1) = rcur + i - 1
                            /\ c + (i - 1) + 1 = c + i
    BY <1>0, <1>3, <1>6 DEF RTyped
  <2>2. ASSUME NEW i \in 1 .. p  PROVE rrecord[rcur + i - 1] = s[i]
    <3>1. rrecord[rcur + (i - 1)] = volumes[vol][c + (i - 1) + 1]  BY <1>6, <2>1
    <3> QED  BY <1>8, <2>1, <3>1
  <2>3. s = [i \in 1 .. p |-> s[i]]  BY <1>8
  <2>4. new = [i \in 1 .. p |-> s[i]]  BY <2>2
  <2> QED  BY <2>3, <2>4
<1> HIDE DEF new
<1>11. f \in Names /\ size[f] \in Nat /\ d \in Nat /\ d + p \in 0 .. size[f]
       /\ d + p = size[f] - rleft' /\ rleft' <= size[f] /\ rleft \in Nat
  <2>1. f \in Names /\ size[f] \in Nat /\ rleft \in Nat  BY <1>0, FilesAreNames DEF RTyped
  <2>2. rleft' = rleft - p  BY <1>4
  <2> HIDE DEF f
  <2> QED  BY <1>1, <1>3, <2>1, <2>2 DEF f
<1> HIDE DEF f, d
<1>12. Begun(n, d + p) = Cat(Taken, DataFrom(f, d, p)) /\ DataFrom(f, d, p) \in Seq(Block)
       /\ Len(DataFrom(f, d, p)) = p
  <2>1. Begun(n, d + p) = Cat(Begun(n, d), DataFrom(Files[n], d, p))
    BY <1>0, <1>3, <1>11, BegunGrows
  <2>2. DataFrom(f, d, p) \in Seq(Block) /\ Len(DataFrom(f, d, p)) = p
    BY <1>0, <1>3, <1>11, DataType
  <2> QED  BY <1>1, <2>1, <2>2 DEF f, d
<1>13. PICK z \in Nat : Starts(OnVolumes, Archived(z))  BY <1>0 DEF Sure
<1>14. Starts(Begun(n, d + p), Archived(z)) /\ Begun(n, d + p) \in Seq(Block)
  BY <1>0, <1>11, BegunComes DEF f
<1>15. Starts(t, Archived(z)) /\ t \in Seq(Block) /\ Archived(z) \in Seq(Block)
  <2>1. t \in Seq(Block) /\ Starts(t, OnVolumes)
    BY <1>0, <1>6, <1>7, UptoSteps, UptoStarts DEF t
  <2>2. OnVolumes \in Seq(Block) /\ Archived(z) \in Seq(Block)
    BY <1>0, FlattenType, PayloadType, ArchivedType DEF OnVolumes
  <2> QED  BY <1>13, <2>1, <2>2, StartsFurther
<1>16. Taken \in Seq(Block)  BY <1>0, <1>6, <1>7, UptoSteps
<1>17. Len(t) = Len(Begun(n, d + p))
  <2>1. Len(t) = Len(Taken) + Len(s)  BY <1>8, <1>9, <1>16, CatElements
  <2>2. Len(Begun(n, d + p)) = Len(Taken) + Len(DataFrom(f, d, p))  BY <1>12, <1>16, CatElements
  <2> QED  BY <1>8, <1>12, <2>1, <2>2
<1>18. t = Begun(n, d + p)  BY <1>14, <1>15, <1>17, SameStart
<1>19. out' = t  BY <1>2, <1>4, <1>8, <1>9, <1>10 DEF Cat
<1>20. DeliversAt(rpc', out', t, rleft', keep')
  <2>1. t = Begun(n, size[Files[n]] - rleft') /\ rleft' <= size[Files[n]]
    BY <1>11, <1>18 DEF f
  <2>2. keep'  BY <1>2, <1>4
  <2> QED  BY <1>0, <1>19, <2>1, <2>2 DEF DeliversAt
<1>21. Delivers'  BY <1>5, <1>20, NextFed
<1> QED  BY <1>5, <1>21 DEF Fed
-----------------------------------------------------------------------------
(* Records and volumes.                                                    *)
LEMMA FedAs ==
  ASSUME Ready, Rests, UNCHANGED <<rpc, out, rleft, keep>>, Taken' = Taken,
         Buffered', Here', Plain', Mounts', Identifies'
  PROVE  Fed'
<1>1. DeliversAt(rpc, out, Taken, rleft, keep)  BY DEF Ready, Fed, Delivers
<1>2. Delivers'  BY <1>1, NextFed
<1> QED  BY <1>2 DEF Fed

LEMMA RecordFed ==
  ASSUME Ready, Rests, Reader!FlushRead
  PROVE  Fed'
<1> USE DEF Reader!fixed, Reader!medium, Reader!rbuffer, Reader!rtracking, Reader!extraction
<1> DEFINE n == Reader!Available(vol, pos)
<1>0. /\ RTyped /\ Here /\ Plain /\ volumes' = volumes /\ setting' = setting /\ RB' = RB
  BY DEF Ready, Fed, Rests
<1>1. /\ nvpc = "none" /\ rcur = rend /\ ~ hit_eof /\ n > 0
      /\ UNCHANGED <<vol, accepted, hit_eof, nvpc, rpc, out, rleft, keep>>
      /\ rrecord' = Reader!Loaded(vol, pos, n) /\ pos' = pos + n /\ rcur' = 0 /\ rend' = n
  BY DEF Reader!FlushRead, Reader!NeedsBlock, Reader!RecordEnd
<1>2. /\ n \in Nat /\ pos \in Nat /\ rend \in Nat
      /\ \A i \in 0 .. n - 1 : Reader!Loaded(vol, pos, n)[i] = volumes[vol][pos + i + 1]
  <2>1. vol \in 1 .. Len(volumes) /\ pos \in 0 .. Len(volumes[vol]) /\ RB \in Nat
    BY <1>0 DEF RTyped
  <2> QED  BY <1>0, <2>1, LoadedTypes, ReaderTypes
<1> HIDE DEF n
<1>3. Consumed' = Consumed
  <2>1. Consumed = pos  BY <1>1, <1>2 DEF Consumed
  <2>2. Consumed' = pos' - rend' + rcur'  BY DEF Consumed
  <2>3. pos' = pos + n /\ rend' = n /\ rcur' = 0 /\ n \in Nat /\ pos \in Nat  BY <1>1, <1>2
  <2> QED  BY <2>1, <2>2, <2>3
<1>4. Taken' = Taken
  <2>1. Taken' = Upto(vol, Consumed)  BY <1>1, <1>3, NextFed
  <2> QED  BY <1>1, <2>1 DEF Taken
<1>5. Buffered'
  <2>1. pos' = pos + n /\ rend' = n /\ n \in Nat /\ pos \in Nat  BY <1>1, <1>2
  <2>2. rend' <= pos' /\ pos' - rend' = pos  BY <2>1
  <2>3. \A i \in 0 .. rend' - 1 : rrecord'[i] = volumes'[vol'][pos' - rend' + i + 1]
    BY <1>0, <1>1, <1>2, <2>2
  <2> QED  BY <2>2, <2>3 DEF Buffered
<1>6. Here' /\ Mounts' /\ Identifies'
  BY <1>0, <1>1 DEF Here, Mounts, Identifies
<1>7. Plain'  BY <1>0, <1>1, <1>3 DEF Plain, Unmarked
<1> QED  BY <1>1, <1>4, <1>5, <1>6, <1>7, FedAs

LEMMA VolumeEndFed ==
  ASSUME Ready, Rests, Reader!EndOfVolume
  PROVE  Fed'
<1> USE DEF Reader!fixed, Reader!medium, Reader!rbuffer, Reader!rtracking, Reader!extraction
<1>0. /\ RTyped /\ Here /\ volumes' = volumes /\ setting' = setting /\ RB' = RB
      /\ volumes \in Seq(Seq(Block)) /\ vol \in 1 .. Len(volumes)
  BY DEF Ready, Fed, Rests, RTyped
<1>1. /\ nvpc = "none" /\ rcur = rend /\ ~ hit_eof /\ Reader!Available(vol, pos) = 0
      /\ UNCHANGED <<vol, accepted, hit_eof, rpc, out, rleft, keep>>
      /\ nvpc' = "mount" /\ rend' = RB
  BY DEF Reader!EndOfVolume, Reader!NeedsBlock
<1>2. Consumed = Len(volumes[vol])
  <2>1. pos \in 0 .. Len(volumes[vol]) /\ Len(volumes[vol]) \in Nat /\ RB \in Nat \ {0} /\ rend \in Nat
    BY <1>0, ReaderTypes DEF RTyped
  <2>2. pos = Len(volumes[vol])  BY <1>1, <2>1 DEF Reader!Available, Reader!Least
  <2> QED  BY <1>1, <2>1, <2>2 DEF Consumed
<1>3. Taken' = Taken
  <2>1. Taken' = OfFirst(accepted)  BY <1>1, NextFed
  <2>2. Taken = Upto(vol, Len(volumes[vol]))  BY <1>1, <1>2 DEF Taken
  <2>3. vol = accepted  BY <1>0, <1>1 DEF Here
  <2> QED  BY <1>0, <2>1, <2>2, <2>3, UptoSteps
<1>4. Buffered' /\ Here' /\ Plain' /\ Identifies'
  BY <1>1 DEF Buffered, Here, Plain, Identifies
<1>5. Mounts'  BY <1>0, <1>1 DEF Mounts, Here
<1> QED  BY <1>1, <1>3, <1>4, <1>5, FedAs

LEMMA MountFed ==
  ASSUME Ready, Rests, NEW v \in DOMAIN volumes, Reader!MountVolume(v), mistakes' = 0
  PROVE  Fed'
<1> USE DEF Reader!fixed, Reader!medium, Reader!rbuffer, Reader!rtracking, Reader!extraction
<1> DEFINE n == Reader!Available(v, 0)
<1>0. /\ RTyped /\ Mounts /\ mistakes = 0 /\ volumes' = volumes /\ setting' = setting /\ RB' = RB
      /\ volumes \in Seq(Seq(Block)) /\ v \in 1 .. Len(volumes)
  BY VolumeTypes DEF Ready, Fed, Rests, RTyped
<1>1. /\ nvpc = "mount" /\ UNCHANGED <<accepted, hit_eof, rpc, out, rleft, keep>>
      /\ vol' = v /\ pos' = n /\ rrecord' = Reader!Loaded(v, 0, n) /\ rcur' = 0
      /\ rend' = (IF n = RB THEN rend ELSE n) /\ nvpc' = "first"
  BY DEF Reader!MountVolume
<1>2. v = accepted + 1 /\ v # vol
  <2>1. (v = accepted + 1 /\ v # vol) \/ mistakes' = mistakes + 1  BY DEF Reader!MountVolume
  <2> QED  BY <1>0, <2>1
<1>3. vol = accepted /\ rend = RB /\ ~ hit_eof  BY <1>0, <1>1, <1>2 DEF Mounts
<1>4. /\ n \in Nat /\ volumes[v] \in Seq(Block)
      /\ \A i \in 0 .. n - 1 : Reader!Loaded(v, 0, n)[i] = volumes[v][0 + i + 1]
  <2>1. 0 \in 0 .. Len(volumes[v]) /\ volumes[v] \in Seq(Block)  BY <1>0, VolumeTypes
  <2>2. Reader!Available(v, 0) \in 0 .. RB
        /\ \A i \in 0 .. Reader!Available(v, 0) - 1 :
             Reader!Loaded(v, 0, Reader!Available(v, 0))[i] = volumes[v][0 + i + 1]
    BY <1>0, <2>1, LoadedTypes
  <2>3. n \in Nat
    <3>1. RB \in Nat  BY <1>0 DEF RTyped
    <3> QED  BY <2>2, <3>1
  <2> QED  BY <2>1, <2>2, <2>3
<1>5. rend' = n /\ pos' = n  BY <1>1, <1>3
<1>6. n = Reader!Available(vol, 0)'  BY <1>0, <1>1 DEF Reader!Available
<1> HIDE DEF n
<1>7. Consumed' = 0  BY <1>1, <1>4, <1>5 DEF Consumed
<1>8. Taken' = Taken
  <2>1. Taken' = Upto(v, 0)  BY <1>1, <1>3, <1>7, NextFed
  <2>2. Upto(v, 0) = OfFirst(v - 1)  BY <1>0, UptoSteps
  <2>3. v - 1 = accepted  BY <1>0, <1>2 DEF RTyped
  <2> QED  BY <1>1, <2>1, <2>2, <2>3 DEF Taken
<1>9. Buffered'
  <2>1. rend' <= pos' /\ pos' - rend' = 0  BY <1>4, <1>5
  <2>2. \A i \in 0 .. n - 1 : rrecord'[i] = volumes[v][0 + i + 1]  BY <1>1, <1>4
  <2> QED  BY <1>0, <1>1, <1>5, <2>1, <2>2 DEF Buffered
<1>10. Here' /\ Plain' /\ Mounts'  BY <1>1 DEF Here, Plain, Mounts
<1>11. Identifies'
  <2>1. LabelSize \in Nat  BY DEF LabelSize
  <2>2. LabelSize' = LabelSize  BY NextFed
  <2>3. rcur' <= LabelSize' + 1  BY <1>1, <2>1, <2>2
  <2>4. vol' = accepted' + 1  BY <1>1, <1>2
  <2>5. pos' = Reader!Available(vol, 0)' /\ rend' = pos'  BY <1>5, <1>6
  <2>6. hit_eof' = FALSE  BY <1>0, <1>1, <1>3 DEF RTyped
  <2> QED  BY <1>1, <2>3, <2>4, <2>5, <2>6 DEF Identifies
<1> QED  BY <1>1, <1>8, <1>9, <1>10, <1>11, FedAs

(* There is no block for a volume that is not the last.                    *)
LEMMA Identified ==
  ASSUME Ready, nvpc \in {"first", "second", "check"}
  PROVE  /\ ~ hit_eof /\ vol = accepted + 1 /\ vol \in 1 .. Len(volumes) /\ Len(volumes[vol]) \in Nat
         /\ volumes \in Seq(Seq(Block)) /\ LabelSize \in {0, 1}
         /\ Consumed = rcur /\ rcur \in Nat /\ rend \in Nat /\ rcur <= Len(volumes[vol])
         /\ rend = IF RB < Len(volumes[vol]) THEN RB ELSE Len(volumes[vol])
         /\ rcur = rend => rcur = Len(volumes[vol]) /\ pos = rcur
         /\ rcur < rend => rrecord[rcur] = volumes[vol][rcur + 1] /\ rcur + 1 \in 1 .. Len(volumes[vol])
         /\ Taken = Upto(vol, rcur)
         /\ \A k \in 1 .. Len(volumes[vol]) : MayStand(vol, k, volumes[vol][k])
<1>0. RTyped /\ Identifies /\ Sure /\ Buffered /\ Roomy /\ RB \in Nat /\ rcur \in 0 .. rend /\ rend \in Nat
  BY ReaderTypes DEF Ready, Fed, Sure, RTyped
<1>1. /\ ~ hit_eof /\ vol = accepted + 1 /\ vol \in 1 .. Len(volumes) /\ Len(volumes[vol]) \in Nat
      /\ volumes \in Seq(Seq(Block)) /\ pos = Reader!Available(vol, 0) /\ rend = pos
      /\ rcur <= LabelSize + 1
  BY <1>0, ReaderTypes DEF Identifies, RTyped
<1>2. LabelSize \in {0, 1}  BY DEF LabelSize
<1>3. rend = IF RB < Len(volumes[vol]) THEN RB ELSE Len(volumes[vol])
  BY <1>0, <1>1 DEF Reader!Available, Reader!Least
<1>4. Consumed = rcur  BY <1>0, <1>1 DEF Consumed
<1>5. rcur <= Len(volumes[vol])  BY <1>0, <1>1, <1>3
<1>6. rcur = rend => rcur = Len(volumes[vol]) /\ pos = rcur
  <2>1. RB > LabelSize + 1  BY <1>0 DEF Roomy
  <2> QED  BY <1>0, <1>1, <1>2, <1>3, <2>1
<1>7. rcur < rend => rrecord[rcur] = volumes[vol][rcur + 1] /\ rcur + 1 \in 1 .. Len(volumes[vol])
  <2>1. rcur < rend => Reader!block = volumes[vol][Consumed + 1]  BY <1>0, <1>1, Ahead
  <2>2. rcur < rend => rcur + 1 \in 1 .. Len(volumes[vol])  BY <1>0, <1>1, <1>3
  <2> QED  BY <1>4, <2>1, <2>2 DEF Reader!block
<1>8. Taken = Upto(vol, rcur)  BY <1>1, <1>4 DEF Taken
<1>9. \A k \in 1 .. Len(volumes[vol]) : MayStand(vol, k, volumes[vol][k])
  BY <1>0, <1>1 DEF Sure, Labelled
<1> QED  BY <1>0, <1>1, <1>2, <1>3, <1>4, <1>5, <1>6, <1>7, <1>8, <1>9
-----------------------------------------------------------------------------
(* try_new_volume.                                                         *)
LEMMA NoRefill == Ready => ~ Reader!RefillSimple
<1> SUFFICES ASSUME Ready, Reader!RefillSimple PROVE FALSE  OBVIOUS
<1>1. nvpc \in {"first", "second"} /\ rcur = rend /\ Reader!Available(vol, pos) > 0
  BY DEF Reader!RefillSimple, Reader!Identifying
<1>2. pos = Len(volumes[vol]) /\ Len(volumes[vol]) \in Nat  BY <1>1, Identified
<1>3. RB \in Nat \ {0}  BY DEF Ready, RTyped
<1> QED  BY <1>1, <1>2, <1>3 DEF Reader!Available, Reader!Least

LEMMA NoBlockFed ==
  ASSUME Ready, Rests, Reader!NoFirstBlock, rpc' # "fatal"
  PROVE  Fed'
<1> USE DEF Reader!fixed, Reader!medium, Reader!rbuffer, Reader!rtracking, Reader!extraction
<1>0. RTyped  BY DEF Ready
<1>1. /\ nvpc = "first" /\ nvpc' = "mount" /\ hit_eof' = TRUE
      /\ UNCHANGED <<vol, accepted, rpc, out, rleft, keep>>
  BY DEF Reader!NoFirstBlock, Reader!Identifying
<1>2. /\ vol = accepted + 1 /\ vol \in 1 .. Len(volumes) /\ volumes \in Seq(Seq(Block))
      /\ Taken = Upto(vol, rcur)
  BY <1>1, Identified
<1>3. rcur = 0  BY <1>1 DEF Ready, Fed, Identifies
<1>4. Taken' = Taken
  <2>1. Taken' = OfFirst(accepted)  BY <1>1, NextFed
  <2>2. Upto(vol, 0) = OfFirst(vol - 1)  BY <1>2, UptoSteps
  <2>3. vol - 1 = accepted  BY <1>0, <1>2 DEF RTyped
  <2> QED  BY <1>2, <1>3, <2>1, <2>2, <2>3
<1>5. Buffered' /\ Here' /\ Plain' /\ Identifies'
  BY <1>1 DEF Buffered, Here, Plain, Identifies
<1>6. Mounts'
  <2>1. vol # accepted  BY <1>0, <1>2 DEF RTyped
  <2> QED  BY <1>1, <1>2, <2>1 DEF Mounts
<1> QED  BY <1>1, <1>4, <1>5, <1>6, FedAs

(* A label or the header of the continued member is passed, or neither.    *)
LEMMA IdentifyFed ==
  ASSUME Ready, Rests,
         Reader!VolumeLabel \/ Reader!MultiVolumeHeader \/ Reader!OtherBlock
  PROVE  Fed'
<1> USE DEF Reader!fixed, Reader!medium, Reader!rbuffer, Reader!rtracking, Reader!extraction
<1> DEFINE s == volumes[vol]
           b == rrecord[rcur]
<1>0. RTyped /\ Identifies /\ Buffered /\ volumes' = volumes /\ setting' = setting /\ RB' = RB
  BY DEF Ready, Fed, Rests
<1>1. /\ nvpc \in {"first", "second"} /\ rcur < rend
      /\ UNCHANGED <<vol, pos, accepted, rrecord, rend, hit_eof, rpc, out, rleft, keep>>
  BY DEF Reader!VolumeLabel, Reader!MultiVolumeHeader, Reader!OtherBlock, Reader!Identifying
<1>2. /\ ~ hit_eof /\ vol = accepted + 1 /\ vol \in 1 .. Len(volumes) /\ Len(s) \in Nat
      /\ volumes \in Seq(Seq(Block)) /\ LabelSize \in {0, 1} /\ rcur \in Nat
      /\ b = s[rcur + 1] /\ rcur + 1 \in 1 .. Len(s)
      /\ Taken = Upto(vol, rcur) /\ Consumed = rcur /\ rend \in Nat
      /\ \A k \in 1 .. Len(s) : MayStand(vol, k, s[k])
  BY <1>1, Identified
<1>3. /\ pos = Reader!Available(vol, 0) /\ rend = pos
      /\ nvpc = "first" => rcur = 0
      /\ nvpc = "second" => rcur = 1 /\ LabelSize = 1
  BY <1>0, <1>1 DEF Identifies
<1> HIDE DEF s, b
<1>4. /\ b.kind = "volhdr" <=> rcur + 1 <= LabelSize
      /\ b.kind = "multivol" => rcur + 1 = LabelSize + 1
  <2>1. MayStand(vol, rcur + 1, s[rcur + 1])  BY <1>2
  <2>2. MayStand(vol, rcur + 1, b)  BY <1>2, <2>1
  <2> QED  BY <2>2 DEF MayStand
<1>5. \A k \in 1 .. Len(s) : k > LabelSize =>
         s[k].kind # "volhdr" /\ (k # LabelSize + 1 => Unmarked(s[k]))
  BY <1>2 DEF MayStand, Unmarked
<1>6. \/ rcur' = rcur /\ Taken' = Upto(vol, rcur)
      \/ rcur' = rcur + 1 /\ ~ Unmarked(b) /\ Taken' = Upto(vol, rcur + 1)
  <2>1. nvpc' \in {"second", "check"} /\ ~ hit_eof'
    BY <1>1, <1>2 DEF Reader!VolumeLabel, Reader!MultiVolumeHeader, Reader!OtherBlock
  <2>2. Consumed' = pos' - rend' + rcur'  BY DEF Consumed
  <2>3. Taken' = Upto(vol, Consumed')  BY <1>1, <2>1, NextFed
  <2>4. CASE rcur' = rcur
    <3>1. pos' = pos /\ rend' = rend /\ pos \in Nat /\ rcur \in Nat /\ rend = pos
      BY <1>1, <1>2, <1>3
    <3>2. Consumed' = rcur  BY <2>2, <2>4, <3>1
    <3> QED  BY <2>3, <2>4, <3>2
  <2>5. CASE rcur' # rcur
    <3>1. rcur' = rcur + 1 /\ b.kind \in {"volhdr", "multivol"}
      BY <2>5 DEF Reader!VolumeLabel, Reader!MultiVolumeHeader, Reader!OtherBlock, b
    <3>2. pos' = pos /\ rend' = rend /\ pos \in Nat /\ rcur \in Nat /\ rend = pos
      BY <1>1, <1>2, <1>3
    <3>3. Consumed' = rcur + 1  BY <2>2, <3>1, <3>2
    <3> QED  BY <2>3, <3>1, <3>3 DEF Unmarked
  <2> QED  BY <2>4, <2>5
<1>7. Taken' = Taken
  <2>1. CASE rcur' = rcur  BY <1>2, <1>6, <2>1
  <2>2. CASE rcur' # rcur
    <3> DEFINE n == rcur + 1
    <3>1. n \in 1 .. Len(volumes[vol]) /\ n - 1 = rcur /\ ~ Unmarked(volumes[vol][n]) /\ Taken' = Upto(vol, n)
      BY <1>2, <1>6, <2>2 DEF s
    <3> HIDE DEF n
    <3>2. Upto(vol, n) = Upto(vol, n - 1)  BY <1>2, <3>1, UptoMarked
    <3> QED  BY <1>2, <3>1, <3>2
  <2> QED  BY <2>1, <2>2
<1>8. Buffered'  BY <1>0, <1>1, <1>2, <1>6 DEF Buffered
<1>9. Here' /\ Plain' /\ Mounts'
  BY <1>1 DEF Here, Plain, Mounts, Reader!VolumeLabel, Reader!MultiVolumeHeader, Reader!OtherBlock
<1>10. Identifies'
  <2>1. LabelSize' = LabelSize  BY NextFed
  <2>2. Reader!Available(vol, 0)' = Reader!Available(vol, 0)
    BY <1>0, <1>1 DEF Reader!Available, Reader!Least
  <2>3. CASE Reader!VolumeLabel
    <3>1. nvpc = "first" /\ nvpc' = "second" /\ rcur' = rcur + 1 /\ b.kind = "volhdr"
      BY <2>3 DEF Reader!VolumeLabel, b
    <3>2. rcur = 0 /\ rcur' = 1  BY <1>3, <3>1
    <3>3. LabelSize = 1  BY <1>2, <1>4, <3>1, <3>2
    <3> QED  BY <1>1, <1>2, <1>3, <2>1, <2>2, <3>1, <3>2, <3>3 DEF Identifies
  <2>4. CASE Reader!MultiVolumeHeader
    <3>1. nvpc' = "check" /\ rcur' = rcur + 1 /\ b.kind = "multivol"
      BY <2>4 DEF Reader!MultiVolumeHeader, b
    <3>2. rcur = LabelSize  BY <1>2, <1>4, <3>1
    <3>3. \A k \in 1 .. rcur + 1 : ~ Unmarked(s[k])
      <4> SUFFICES ASSUME NEW k \in 1 .. rcur + 1 PROVE ~ Unmarked(s[k])  OBVIOUS
      <4>1. CASE k = rcur + 1  BY <1>2, <3>1, <4>1 DEF Unmarked
      <4>2. CASE k # rcur + 1
        <5>1. k \in 1 .. Len(s) /\ k <= LabelSize  BY <1>2, <3>2, <4>2
        <5>2. s[k].kind = "volhdr"  BY <1>2, <5>1 DEF MayStand
        <5> QED  BY <5>2 DEF Unmarked
      <4> QED  BY <4>1, <4>2
    <3>4. \A k \in rcur + 1 + 1 .. Len(s) : Unmarked(s[k])
      <4> SUFFICES ASSUME NEW k \in rcur + 1 + 1 .. Len(s) PROVE Unmarked(s[k])  OBVIOUS
      <4>1. k \in 1 .. Len(s) /\ k > LabelSize /\ k # LabelSize + 1  BY <1>2, <3>2
      <4> QED  BY <1>5, <4>1
    <3>5. rcur + 1 <= LabelSize + 1  BY <1>2, <3>2
    <3> QED  BY <1>0, <1>1, <1>2, <1>3, <2>1, <2>2, <3>1, <3>3, <3>4, <3>5 DEF Identifies, Unmarked, s
  <2>5. CASE Reader!OtherBlock
    <3>1. nvpc' = "check" /\ rcur' = rcur /\ b.kind # "multivol" /\ (nvpc = "first" => b.kind # "volhdr")
      BY <2>5 DEF Reader!OtherBlock, b
    <3>2. rcur = LabelSize
      <4>1. CASE nvpc = "second"  BY <1>3, <4>1
      <4>2. CASE nvpc = "first"  BY <1>2, <1>3, <1>4, <3>1, <4>2
      <4> QED  BY <1>1, <4>1, <4>2
    <3>3. \A k \in 1 .. rcur : ~ Unmarked(s[k])
      <4> SUFFICES ASSUME NEW k \in 1 .. rcur PROVE ~ Unmarked(s[k])  OBVIOUS
      <4>1. k \in 1 .. Len(s) /\ k <= LabelSize  BY <1>2, <3>2
      <4>2. s[k].kind = "volhdr"  BY <1>2, <4>1 DEF MayStand
      <4> QED  BY <4>2 DEF Unmarked
    <3>4. \A k \in rcur + 1 .. Len(s) : Unmarked(s[k])
      <4> SUFFICES ASSUME NEW k \in rcur + 1 .. Len(s) PROVE Unmarked(s[k])  OBVIOUS
      <4>1. k \in 1 .. Len(s) /\ k > LabelSize /\ (k = LabelSize + 1 <=> k = rcur + 1)  BY <1>2, <3>2
      <4>2. CASE k = rcur + 1
        <5>1. s[k].kind # "volhdr" /\ s[k].kind # "multivol"  BY <1>2, <1>5, <3>1, <4>1, <4>2
        <5> QED  BY <5>1 DEF Unmarked
      <4>3. CASE k # rcur + 1  BY <1>5, <4>1, <4>3
      <4> QED  BY <4>2, <4>3
    <3>5. rcur <= LabelSize + 1  BY <1>2, <3>2
    <3> QED  BY <1>0, <1>1, <1>2, <1>3, <2>1, <2>2, <3>1, <3>3, <3>4, <3>5 DEF Identifies, Unmarked, s
  <2> QED  BY <2>3, <2>4, <2>5
<1> QED  BY <1>1, <1>7, <1>8, <1>9, <1>10, FedAs

(* Only the last volume can be used up by that.                            *)
LEMMA AcceptFed ==
  ASSUME Ready, Rests, Reader!AcceptVolume
  PROVE  Fed'
<1> USE DEF Reader!fixed, Reader!medium, Reader!rbuffer, Reader!rtracking, Reader!extraction
<1>0. RTyped /\ Identifies /\ Buffered /\ Roomy /\ volumes' = volumes /\ setting' = setting /\ RB' = RB
  BY DEF Ready, Fed, Rests, Sure
<1>1. /\ nvpc = "check" /\ nvpc' = "none" /\ accepted' = vol /\ hit_eof' = (hit_eof \/ rcur = rend)
      /\ UNCHANGED <<vol, pos, rrecord, rcur, rend, rpc, out, rleft, keep>>
  BY DEF Reader!AcceptVolume
<1>2. /\ ~ hit_eof /\ vol \in 1 .. Len(volumes) /\ Len(volumes[vol]) \in Nat
      /\ volumes \in Seq(Seq(Block)) /\ LabelSize \in {0, 1} /\ rcur \in Nat
      /\ rcur = rend => rcur = Len(volumes[vol])
      /\ Taken = Upto(vol, rcur) /\ Consumed = rcur
  BY <1>1, Identified
<1>3. /\ rcur <= LabelSize + 1
      /\ \A k \in rcur + 1 .. Len(volumes[vol]) : Unmarked(volumes[vol][k])
  BY <1>0, <1>1 DEF Identifies
<1>4. Consumed' = rcur  BY <1>1, <1>2 DEF Consumed
<1>5. hit_eof' <=> rcur = rend  BY <1>1, <1>2
<1>6. Taken' = Taken
  <2>1. CASE rcur = rend
    <3>1. Taken' = OfFirst(vol)  BY <1>1, <1>5, <2>1, NextFed
    <3> QED  BY <1>2, <2>1, <3>1, UptoSteps
  <2>2. CASE rcur # rend  BY <1>1, <1>2, <1>4, <1>5, <2>2, NextFed
  <2> QED  BY <2>1, <2>2
<1>7. Buffered'  BY <1>0, <1>1, <1>2 DEF Buffered
<1>8. Here'
  <2>1. rcur = rend => vol = Len(volumes)
    <3> SUFFICES ASSUME rcur = rend, vol # Len(volumes) PROVE FALSE  OBVIOUS
    <3>1. vol \in 1 .. Len(volumes) - 1  BY <1>2
    <3>2. Len(volumes[vol]) >= LabelSize + 2  BY <1>0, <3>1 DEF Roomy, EachTook
    <3> QED  BY <1>2, <1>3, <3>2
  <2> QED  BY <1>0, <1>1, <1>5, <2>1 DEF Here
<1>9. Plain'  BY <1>0, <1>1, <1>3, <1>4 DEF Plain, Unmarked
<1>10. Mounts' /\ Identifies'  BY <1>1 DEF Mounts, Identifies
<1> QED  BY <1>1, <1>6, <1>7, <1>8, <1>9, <1>10, FedAs

LEMMA RefuseFed ==
  ASSUME Ready, Rests, Reader!RefuseVolume
  PROVE  Fed'
<1> USE DEF Reader!fixed, Reader!medium, Reader!rbuffer, Reader!rtracking, Reader!extraction
<1>0. RTyped /\ Identifies /\ size \in [Names -> Nat]  BY DEF Ready, Fed
<1>1. /\ nvpc = "check" /\ nvpc' = "mount"
      /\ UNCHANGED <<vol, accepted, hit_eof, rcur, rpc, out, rleft, keep>>
  BY DEF Reader!RefuseVolume
<1>2. /\ ~ hit_eof /\ vol = accepted + 1 /\ vol \in 1 .. Len(volumes) /\ Len(volumes[vol]) \in Nat
      /\ volumes \in Seq(Seq(Block)) /\ LabelSize \in {0, 1} /\ rcur \in Nat
      /\ rcur <= Len(volumes[vol]) /\ Taken = Upto(vol, rcur)
  BY <1>1, Identified
<1>3. \A k \in 1 .. rcur : ~ Unmarked(volumes[vol][k])  BY <1>0, <1>1 DEF Identifies
<1>4. rcur <= LabelSize + 1  BY <1>0, <1>1 DEF Identifies
<1>5. \A n \in 1 .. rcur : Upto(vol, n) = Upto(vol, n - 1)
  <2> SUFFICES ASSUME NEW n \in 1 .. rcur PROVE Upto(vol, n) = Upto(vol, n - 1)  OBVIOUS
  <2>1. n \in 1 .. Len(volumes[vol])  BY <1>2
  <2> QED  BY <1>2, <1>3, <2>1, UptoMarked
<1>6. Upto(vol, rcur) = Upto(vol, 0)
  <2>1. rcur \in {0, 1, 2}  BY <1>2, <1>4
  <2>2. CASE rcur = 0  BY <2>2
  <2>3. CASE rcur = 1
    <3>1. 1 \in 1 .. rcur /\ 1 - 1 = 0  BY <2>3
    <3> QED  BY <1>5, <2>3, <3>1
  <2>4. CASE rcur = 2
    <3>1. 1 \in 1 .. rcur /\ 1 - 1 = 0 /\ 2 \in 1 .. rcur /\ 2 - 1 = 1  BY <2>4
    <3> QED  BY <1>5, <2>4, <3>1
  <2> QED  BY <2>1, <2>2, <2>3, <2>4
<1>7. Taken' = Taken
  <2>1. Taken' = OfFirst(accepted)  BY <1>1, NextFed
  <2>2. Upto(vol, 0) = OfFirst(vol - 1)  BY <1>2, UptoSteps
  <2>3. vol - 1 = accepted  BY <1>0, <1>2 DEF RTyped
  <2> QED  BY <1>2, <1>6, <2>1, <2>2, <2>3
<1>8. Buffered' /\ Here' /\ Plain' /\ Identifies'
  BY <1>1 DEF Buffered, Here, Plain, Identifies
<1>9. Mounts'
  <2>1. vol # accepted  BY <1>0, <1>2 DEF RTyped
  <2> QED  BY <1>1, <1>2, <2>1 DEF Mounts
<1> QED  BY <1>1, <1>7, <1>8, <1>9, FedAs
-----------------------------------------------------------------------------
(* Every step of the two runs.                                             *)
Back == Ended /\ Roomy /\ mistakes = 0 /\ rpc # "fatal" => Fed

LEMMA ReadingFed ==
  ASSUME Records, RTyped, RTyped', Back, Ended, Reading, Roomy, mistakes' = 0, rpc' # "fatal"
  PROVE  Fed'
<1> USE DEF Reader!fixed, Reader!medium, Reader!rbuffer, Reader!rtracking, Reader!extraction
<1>1. Rests  BY ReadingKeeps DEF Rests, vars, given, device
<1>2. mistakes = 0 /\ rpc # "fatal"
  <2>1. mistakes' = mistakes \/ mistakes' = mistakes + 1
    BY DEF Reading, Reader!Next, Reader!Read, Reader!TryNewVolume, Reader!Operator,
        Reader!FlushRead, Reader!EndOfVolume, Reader!Opened, Reader!ReadHeader,
        Reader!SkipBlock, Reader!ZeroBlock, Reader!EndOfArchive, Reader!NextChunk,
        Reader!ReadData, Reader!UnexpectedEof, Reader!MemberRead, Reader!RefillSimple,
        Reader!NoFirstBlock, Reader!VolumeLabel, Reader!MultiVolumeHeader, Reader!OtherBlock,
        Reader!AcceptVolume, Reader!RefuseVolume, Reader!Quit, Reader!MountVolume
  <2>2. mistakes \in Nat  BY DEF RTyped
  <2>3. mistakes = 0  BY <2>1, <2>2
  <2>4. rpc = "fatal" => rpc' = "fatal"
    BY DEF Reading, Reader!Next, Reader!Read, Reader!TryNewVolume, Reader!Operator,
        Reader!FlushRead, Reader!EndOfVolume, Reader!Opened, Reader!ReadHeader,
        Reader!SkipBlock, Reader!ZeroBlock, Reader!EndOfArchive, Reader!NextChunk,
        Reader!ReadData, Reader!UnexpectedEof, Reader!MemberRead, Reader!RefillSimple,
        Reader!NoFirstBlock, Reader!VolumeLabel, Reader!MultiVolumeHeader, Reader!OtherBlock,
        Reader!AcceptVolume, Reader!RefuseVolume, Reader!Quit, Reader!MountVolume,
        Reader!NeedsBlock, Reader!Identifying
  <2> QED  BY <2>3, <2>4
<1>3. Ready  BY <1>2, SureHolds DEF Ready, Back
<1>4. ~ Reader!UnexpectedEof /\ ~ Reader!Quit /\ ~ Reader!RefillSimple
  BY <1>3, NoRefill DEF Reader!UnexpectedEof, Reader!Quit
<1>5. Reader!Next  BY DEF Reading
<1>6. CASE Reader!FlushRead  BY <1>1, <1>3, <1>6, RecordFed
<1>7. CASE Reader!EndOfVolume  BY <1>1, <1>3, <1>7, VolumeEndFed
<1>8. CASE Reader!Opened \/ Reader!EndOfArchive \/ Reader!NextChunk \/ Reader!MemberRead
  BY <1>1, <1>3, <1>8, PassesFed
<1>9. CASE Reader!ReadHeader \/ Reader!SkipBlock \/ Reader!ZeroBlock
  BY <1>1, <1>3, <1>9, HeaderFed
<1>10. CASE Reader!ReadData  BY <1>1, <1>3, <1>10, DataFed
<1>11. CASE Reader!NoFirstBlock  BY <1>1, <1>3, <1>11, NoBlockFed
<1>12. CASE Reader!VolumeLabel \/ Reader!MultiVolumeHeader \/ Reader!OtherBlock
  BY <1>1, <1>3, <1>12, IdentifyFed
<1>13. CASE Reader!AcceptVolume  BY <1>1, <1>3, <1>13, AcceptFed
<1>14. CASE Reader!RefuseVolume  BY <1>1, <1>3, <1>14, RefuseFed
<1>15. CASE \E v \in DOMAIN volumes : Reader!MountVolume(v)
  <2> PICK v \in DOMAIN volumes : Reader!MountVolume(v)  BY <1>15
  <2> QED  BY <1>1, <1>3, MountFed
<1> QED
  BY <1>4, <1>5, <1>6, <1>7, <1>8, <1>9, <1>10, <1>11, <1>12, <1>13, <1>14, <1>15
  DEF Reader!Next, Reader!Read, Reader!TryNewVolume, Reader!Operator

(* The reader starts.                                                      *)
LEMMA BackStart == Records /\ RTyped /\ Reader!Init => Back
<1> SUFFICES ASSUME Records, RTyped, Reader!Init, Ended, Roomy PROVE Fed  BY DEF Back
<1>0. Sure /\ volumes \in Seq(Seq(Block)) /\ 1 \in 1 .. Len(volumes)
  <2>1. vol = 1  BY DEF Reader!Init
  <2> QED  BY <2>1, SureHolds DEF RTyped
<1>1. /\ vol = 1 /\ pos = 0 /\ accepted = 1 /\ rcur = 0 /\ rend = 0 /\ hit_eof = FALSE
      /\ nvpc = "none" /\ out = <<>> /\ rpc = "open"
  BY DEF Reader!Init
<1>2. Consumed = 0  BY <1>1 DEF Consumed
<1>3. Taken = <<>>
  <2>1. Taken = Upto(1, 0)  BY <1>1, <1>2 DEF Taken
  <2>2. Upto(1, 0) = OfFirst(1 - 1)  BY <1>0, UptoSteps
  <2> QED  BY <1>0, <2>1, <2>2, OfFirstSteps
<1>4. Delivers  BY <1>1, <1>3 DEF Delivers, DeliversAt
<1>5. Buffered /\ Here /\ Mounts /\ Identifies
  BY <1>1 DEF Buffered, Here, Mounts, Identifies
<1>6. Plain
  <2> SUFFICES ASSUME NEW k \in 1 .. Len(volumes[1])
               PROVE  Unmarked(volumes[1][k]) \/ (k = 1 /\ volumes[1][k].kind = "volhdr")
    BY <1>1, <1>2 DEF Plain
  <2>1. MayStand(1, k, volumes[1][k])  BY <1>0 DEF Sure, Labelled
  <2>2. LabelSize \in {0, 1}  BY DEF LabelSize
  <2> QED  BY <2>1, <2>2 DEF MayStand, Unmarked
<1> QED  BY <1>4, <1>5, <1>6 DEF Fed

LEMMA BackStartNext == (Records /\ RTyped /\ Reader!Init)' => Back'
BY BackStart, PTL

LEMMA RoomyStays == ASSUME UNCHANGED <<volumes, setting, RB>>  PROVE Roomy' = Roomy
BY DEF Roomy, EachTook, LabelSize, volume_label_option

LEMMA BackNext ==
  ASSUME RInv, RInv', Records, Records', Back, [MVNext]_allvars
  PROVE  Back'
<1>0. RTyped /\ RTyped' /\ Inv  BY DEF RInv
<1>1. CASE Writing
  <2>1. ~ Ended  BY <1>0, <1>1, WriterStops DEF Writing
  <2>2. Reader!Init /\ UNCHANGED rvars  BY <1>1, <2>1 DEF RInv, Writing
  <2>3. Reader!Init'
    BY <2>2 DEF rvars, Reader!Init, Reader!RSlots, Reader!Junk, Reader!NoMember,
                Reader!NotContinued
  <2> QED  BY <1>0, <2>3, BackStartNext
<1>2. CASE Reading
  <2> SUFFICES ASSUME Ended', Roomy', mistakes' = 0, rpc' # "fatal" PROVE Fed'  BY DEF Back
  <2>1. UNCHANGED <<volumes, setting, RB, pc>>
    BY <1>2, ReadingKeeps DEF vars, given, device, dump
  <2>2. Ended /\ Roomy  BY <2>1, RoomyStays DEF Ended
  <2> QED  BY <1>0, <1>2, <2>2, ReadingFed
<1>3. CASE UNCHANGED allvars
  <2> SUFFICES ASSUME Ended', Roomy', mistakes' = 0, rpc' # "fatal" PROVE Fed'  BY DEF Back
  <2>1. /\ Rests /\ StaysThere
        /\ UNCHANGED <<pc, rpc, out, rleft, keep, mistakes>>
    BY <1>3 DEF allvars, vars, device, dump, given, rvars, Rests, StaysThere
  <2>2. Ended /\ Roomy  BY <2>1, RoomyStays DEF Ended, Rests
  <2>3. Fed  BY <2>1, <2>2 DEF Back
  <2>4. Ready  BY <1>0, <2>1, <2>2, <2>3, SureHolds DEF Ready
  <2>5. Buffered' /\ Here' /\ Plain' /\ Mounts' /\ Identifies' /\ Taken' = Taken
    BY <2>1, <2>3, FedThere DEF Fed
  <2> QED  BY <2>1, <2>4, <2>5, FedAs
<1> QED  BY <1>1, <1>2, <1>3 DEF MVNext

LEMMA BackReads == RInv /\ Back => ReadsBack
<1> SUFFICES ASSUME RInv, Back, rpc = "done", mistakes = 0,
                    RB > LabelSize + 1,
                    \A v \in 1 .. Len(volumes) - 1 : Len(volumes[v]) > LabelSize + 1
             PROVE  out = MembersOf(FlattenSeq(volumes))
  BY DEF ReadsBack
<1>1. Ended  BY DEF RInv, Reader!Init
<1>2. Roomy
  <2>0. volumes \in Seq(Seq(Block))  BY DEF RInv, RTyped
  <2>1. ASSUME NEW v \in 1 .. Len(volumes) - 1  PROVE Len(volumes[v]) >= LabelSize + 2
    <3>1. Len(volumes[v]) > LabelSize + 1 /\ v \in 1 .. Len(volumes)  BY <2>0
    <3>2. Len(volumes[v]) \in Nat /\ LabelSize \in {0, 1}  BY <2>0, <3>1 DEF LabelSize
    <3> QED  BY <3>1, <3>2
  <2> QED  BY <2>1 DEF Roomy, EachTook
<1>3. Delivers  BY <1>1, <1>2 DEF Back, Fed
<1> QED  BY <1>3 DEF Delivers, DeliversAt

(* What is dumped is read back: when the operator never errs, extraction   *)
(* delivers the blocks of all members on the volumes, each once and in     *)
(* order, whatever the blocking factors of the two runs, the label, the    *)
(* sizes, and however the volumes end (buffer.c:348-390, 1121-1292 and     *)
(* 1449-1530, list.c:150-290), if no file shrinks to nothing.              *)
THEOREM DumpedIsReadBack ==
  ASSUME NoneShort  PROVE  MVSpec => []ReadsBack
<1>1. MVSpec => []Records
  <2>1. MVInit => Init  BY DEF MVInit
  <2>2. [MVNext]_allvars => [Next]_vars  BY SettingStays
  <2>3. Spec => []Records  BY RecordsHold
  <2> QED  BY <2>1, <2>2, <2>3, PTL DEF MVSpec, Spec
<1>2. MVSpec => []RInv  BY RInvHolds
<1>3. Records /\ RInv /\ MVInit => Back  BY BackStart DEF MVInit, RInv
<1>4. RInv /\ RInv' /\ Records /\ Records' /\ Back /\ [MVNext]_allvars => Back'  BY BackNext
<1>5. RInv /\ Back => ReadsBack  BY BackReads
<1> QED  BY <1>1, <1>2, <1>3, <1>4, <1>5, PTL DEF MVSpec
==============================================================================
