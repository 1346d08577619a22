------------------------- MODULE CompressPipesProofs -------------------------
(***************************************************************************)
(* Whatever the sizes of pipes, records and data, tar ends well only if    *)
(* nothing was lost, and always if nothing went wrong.                     *)
(***************************************************************************)
EXTENDS CompressPipesProps, TLAPS

(* The variables have their types; a process has a status when it ended.   *)
Typed ==
  /\ mode \in {"compress", "uncompress"} /\ direct \in BOOLEAN /\ input \in Nat
  /\ fds \in [Procs -> SUBSET (Pipes \X Ends)]
  /\ pipe \in [Pipes -> Nat]
  /\ pc \in [Procs -> {"none", "fork", "close", "exec", "dup", "close2", "copy", "run",
                       "flush", "wait", "ended", "replaced"}]
  /\ status \in [Procs -> {"none", "ok", "failed", "signal"}]
  /\ count \in Nat /\ taken \in Nat /\ made \in Nat /\ given \in Nat
  /\ length \in 0 .. record_size /\ archive \in Nat /\ padding \in Nat
  /\ \A p \in Procs : pc[p] # "ended" => status[p] = "none"

(* What one process does says how far the others have come.                *)
TarPlaces == {"fork", "close", "run", "wait", "ended"}
ChildBefore == {"none", "close", "exec", "fork"}
ChildPlaces == ChildBefore \cup {"dup", "close2", "copy", "wait", "ended", "replaced"}
CompressorAlive == {"close", "exec", "run", "flush"}
Placed ==
  /\ pc["tar"] \in TarPlaces
  /\ pc["child"] \in ChildPlaces
  /\ pc["compressor"] \in CompressorAlive \cup {"none", "ended"}
  /\ pc["tar"] = "fork" <=> pc["child"] = "none"
  /\ pc["child"] \in ChildBefore => pc["compressor"] = "none"
  /\ pc["compressor"] = "none" => pc["child"] \in ChildBefore \cup {"ended"}

(* Every process keeps the ends of the pipes that it is to use.            *)
HoldsEnds ==
  /\ pc["tar"] \in {"close", "run"} => Holds("tar", "parent_pipe", TarEnd)
  /\ pc["child"] \in {"close", "exec", "fork", "dup"}
       => Holds("child", "parent_pipe", Opposite(TarEnd))
  /\ pc["child"] \in {"dup", "close2", "copy"} => Holds("child", "child_pipe", Opposite(TarEnd))
  /\ pc["compressor"] \in CompressorAlive
       => /\ Holds("compressor", "parent_pipe", Opposite(TarEnd))
          /\ Replaced \/ Holds("compressor", "child_pipe", TarEnd)

(* All that was written to a pipe was read from it or is in it.            *)
Conserved ==
  /\ IF Compressing
     THEN /\ count = taken + pipe["parent_pipe"]
          /\ given = pipe["child_pipe"] + length + archive
     ELSE /\ given = count + pipe["parent_pipe"]
          /\ archive = taken + pipe["child_pipe"] + length
  /\ pc["child"] \in ChildBefore \cup {"replaced"} => pipe["child_pipe"] = 0 /\ length = 0
  /\ Compressing /\ ~ Replaced => (archive + padding) % record_size = 0

(* A process that waits, or has ended well, has seen the end of its input; *)
(* then the process before it has ended, or waits, or was never made.      *)
Well(p) == pc[p] = "ended" /\ status[p] = "ok"
AllRead ==
  IF Compressing THEN pipe["parent_pipe"] = 0 /\ pc["tar"] \in {"wait", "ended"}
  ELSE IF Replaced THEN archive = input
  ELSE pipe["child_pipe"] = 0 /\ pc["child"] \in {"wait", "ended"}
NeverMade == pc["compressor"] = "none" /\ pc["child"] = "ended"
SeenToTheEnd ==
  /\ pc["tar"] = "wait" \/ Well("tar")
       => IF Compressing THEN count = input
          ELSE pipe["parent_pipe"] = 0 /\ (pc["compressor"] = "ended" \/ NeverMade)
  /\ pc["child"] = "wait" \/ Well("child")
       => /\ length = 0
          /\ IF Compressing THEN pipe["child_pipe"] = 0 /\ pc["compressor"] = "ended"
             ELSE archive = input
  /\ pc["compressor"] = "flush" => AllRead
  /\ Well("compressor") => given = made /\ (AllRead \/ "early" \in faults)

(* A good status comes from a process to the one that waits for it; a bad  *)
(* one is somebody's fault.                                                *)
Propagates ==
  /\ Well("child") => Well("compressor")
  /\ Well("tar") => Well("compressor") /\ (Replaced \/ Well("child"))
  /\ faults = {} => \A p \in Procs : pc[p] = "ended" => status[p] = "ok"

Safe == Typed /\ Placed /\ HoldsEnds /\ Conserved /\ SeenToTheEnd /\ Propagates
-----------------------------------------------------------------------------
(* A record more: the remainder is what it was.                            *)
LEMMA WholeRecordAdded ==
  ASSUME NEW r \in Nat \ {0}, NEW x \in Nat, x % r = 0
  PROVE (x + r) % r = 0
<1> DEFINE q == x \div r
<1>1. q \in Nat /\ x = r * q
  BY SMT
<1>2. \A k \in Nat : (r * k) % r = 0
  BY SMT
<1>3. x + r = r * (q + 1)
  BY <1>1, SMT
<1> HIDE DEF q
<1> QED BY <1>1, <1>2, <1>3

-----------------------------------------------------------------------------
(* Each step of tar keeps the invariant.  TarBreaks is somebody's fault:   *)
(* the compressor that held the other end cannot have ended well before    *)
(* tar has closed its own.                                                 *)
LEMMA TarStays == ASSUME Safe, TarStep PROVE Safe'
<1> USE PipesAssumption DEF Procs, Pipes, Ends, Compressing, Opposite, TarEnd, Holds, Open, Drop, Goto,
      End, invocation, processes, compressor, disk, Replaced, Well, AllRead, NeverMade, TarPlaces, ChildPlaces,
      ChildBefore, CompressorAlive, Safe, Typed, Placed, HoldsEnds, Conserved, SeenToTheEnd, Propagates
<1>1. CASE Fork
  BY <1>1 DEF Fork, Starting
<1>2. CASE TarCloses
  BY <1>2 DEF TarCloses, Starting
<1>3. CASE TarWrites
  BY <1>3 DEF TarWrites, PipeWrite, Tar
<1>4. CASE TarBreaks
  <2>1. Typed' /\ Placed' /\ HoldsEnds' /\ Conserved' /\ SeenToTheEnd'
    BY <1>4 DEF TarBreaks, BrokenPipe, Tar
  <2>2. Propagates'
    BY <1>4 DEF TarBreaks, BrokenPipe, Tar
  <2> QED BY <2>1, <2>2
<1>5. CASE TarReads
  BY <1>5 DEF TarReads, PipeRead, Tar
<1>6. CASE CloseArchive
  <2>1. Typed' /\ Placed' /\ HoldsEnds' /\ Conserved' /\ Propagates'
    BY <1>6 DEF CloseArchive, Drained, Tar, PipeEof
  <2>2. SeenToTheEnd'
    BY <1>6 DEF CloseArchive, Drained, Tar, PipeEof
  <2> QED BY <2>1, <2>2
<1>7. CASE WaitForChild
  BY <1>7 DEF WaitForChild, ChildPid, Tar
<1> QED BY <1>1, <1>2, <1>3, <1>4, <1>5, <1>6, <1>7 DEF TarStep

(* Each step of the child: a record that is written is whole or padded.    *)
LEMMA ChildStays == ASSUME Safe, ChildStep PROVE Safe'
<1> USE PipesAssumption DEF Procs, Pipes, Ends, Compressing, Opposite, TarEnd, Holds, Open, Drop, Goto,
      End, invocation, processes, compressor, disk, Replaced, Well, AllRead, NeverMade, TarPlaces, ChildPlaces,
      ChildBefore, CompressorAlive, Safe, Typed, Placed, HoldsEnds, Conserved, SeenToTheEnd, Propagates
<1>1. CASE ChildCloses
  BY <1>1 DEF ChildCloses, Starting
<1>2. CASE ExecDirect
  BY <1>2 DEF ExecDirect, Starting
<1>3. CASE ChildExecFails
  BY <1>3 DEF ChildExecFails, Fault
<1>4. CASE ForkGrandchild
  BY <1>4 DEF ForkGrandchild, Starting
<1>5. CASE ChildDup
  BY <1>5 DEF ChildDup, Starting
<1>6. CASE ChildReady
  BY <1>6 DEF ChildReady, ClosesOtherEnd, Starting
<1>7. CASE Assemble
  BY <1>7 DEF Assemble, Room, PipeRead, Copying
<1>8. CASE WriteRecord
  <2>1. Typed' /\ Placed' /\ HoldsEnds' /\ Propagates'
    BY <1>8 DEF WriteRecord, PipeEof, Padded, Copying
  <2>2. Conserved'
    <3>1. ~ Replaced /\ ~ Replaced' /\ Compressing /\ Compressing'
      BY <1>8 DEF WriteRecord, Copying
    <3>2. \/ length = 0 /\ archive' + padding' = archive + padding
          \/ archive' + padding' = (archive + padding) + record_size
      BY <1>8 DEF WriteRecord, Padded
    <3>3. (archive' + padding') % record_size = 0
      <4>1. archive + padding \in Nat /\ (archive + padding) % record_size = 0
        BY <3>1
      <4>2. ((archive + padding) + record_size) % record_size = 0
        BY <4>1, WholeRecordAdded
      <4> QED BY <3>2, <4>1, <4>2
    <3>4. given' = pipe'["child_pipe"] + length' + archive' /\ count' = taken' + pipe'["parent_pipe"]
      BY <1>8 DEF WriteRecord, Copying
    <3>5. pc'["child"] \notin ChildBefore \cup {"replaced"}
      BY <1>8 DEF WriteRecord
    <3> QED BY <3>1, <3>3, <3>4, <3>5
  <2>3. SeenToTheEnd'
    BY <1>8 DEF WriteRecord, PipeEof, Padded, Copying
  <2> QED BY <2>1, <2>2, <2>3
<1>9. CASE WriteFails
  BY <1>9 DEF WriteFails, PipeEof, Fault, Copying
<1>10. CASE ReadArchive
  BY <1>10 DEF ReadArchive, Copying
<1>11. CASE PassOn
  BY <1>11 DEF PassOn, PipeWrite, Copying
<1>12. CASE ChildBreaks
  <2>1. Typed' /\ Placed' /\ HoldsEnds' /\ Conserved' /\ SeenToTheEnd'
    BY <1>12 DEF ChildBreaks, BrokenPipe, Copying
  <2>2. Propagates'
    BY <1>12 DEF ChildBreaks, BrokenPipe, Copying
  <2> QED BY <2>1, <2>2
<1>13. CASE ReadFails
  BY <1>13 DEF ReadFails, Fault, Copying
<1>14. CASE CloseStdout
  BY <1>14 DEF CloseStdout, Copying
<1>15. CASE ChildWaits
  BY <1>15 DEF ChildWaits, Propagated, Copying
<1>16. CASE OpenFails
  <2>1. Typed' /\ Placed'
    BY <1>16 DEF OpenFails, Fault
  <2>2. HoldsEnds' /\ Conserved'
    BY <1>16 DEF OpenFails, Fault
  <2>3. SeenToTheEnd' /\ Propagates'
    BY <1>16 DEF OpenFails, Fault
  <2> QED BY <2>1, <2>2, <2>3
<1> QED BY <1>1, <1>2, <1>3, <1>4, <1>5, <1>6, <1>7, <1>8, <1>9, <1>10, <1>11, <1>12, <1>13, <1>14, <1>15,
           <1>16 DEF ChildStep

(* Each step of the compressor, which ends by itself at the end of its     *)
(* input only.                                                             *)
LEMMA CompressorStays == ASSUME Safe, CompressorStep PROVE Safe'
<1> USE PipesAssumption DEF Procs, Pipes, Ends, Compressing, Opposite, TarEnd, Holds, Open, Drop, Goto,
      End, invocation, processes, compressor, disk, Replaced, Well, AllRead, NeverMade, TarPlaces, ChildPlaces,
      ChildBefore, CompressorAlive, Safe, Typed, Placed, HoldsEnds, Conserved, SeenToTheEnd, Propagates
<1>1. CASE GrandchildCloses
  BY <1>1 DEF GrandchildCloses, Starting
<1>2. CASE ExecGrandchild
  BY <1>2 DEF ExecGrandchild, Starting
<1>3. CASE GrandchildExecFails
  BY <1>3 DEF GrandchildExecFails, Fault
<1>4. CASE CompressorReads
  BY <1>4 DEF CompressorReads, FromFile, PipeRead, From, Make
<1>5. CASE CompressorWrites
  <2>1. Typed' /\ Placed' /\ HoldsEnds' /\ SeenToTheEnd' /\ Propagates'
    BY <1>5 DEF CompressorWrites, ToFile, PipeWrite, To
  <2>2. Conserved'
    <3>1. CASE Replaced
      BY <1>5, <3>1 DEF CompressorWrites, ToFile, PipeWrite, To
    <3>2. CASE ~ Replaced
      <4>1. pc["child"] \notin ChildBefore
        BY <1>5 DEF CompressorWrites
      <4> QED BY <1>5, <3>2, <4>1 DEF CompressorWrites, ToFile, PipeWrite, To
    <3> QED BY <3>1, <3>2
  <2> QED BY <2>1, <2>2
<1>6. CASE CompressorBreaks
  <2>1. Typed' /\ Placed' /\ HoldsEnds' /\ Conserved' /\ SeenToTheEnd'
    BY <1>6 DEF CompressorBreaks, ToFile, BrokenPipe, To
  <2>2. Propagates'
    BY <1>6 DEF CompressorBreaks, ToFile, BrokenPipe, To
  <2> QED BY <2>1, <2>2
<1>7. CASE CompressorEof
  <2>1. Typed' /\ Placed' /\ HoldsEnds' /\ Conserved' /\ Propagates'
    BY <1>7 DEF CompressorEof, FromFile, PipeEof, From, Make
  <2>2. SeenToTheEnd'
    BY <1>7 DEF CompressorEof, FromFile, PipeEof, From, Make
  <2> QED BY <2>1, <2>2
<1>8. CASE CompressorEnds
  BY <1>8 DEF CompressorEnds
<1>9. CASE CompressorFails
  <2>1. Typed' /\ Placed' /\ HoldsEnds'
    BY <1>9 DEF CompressorFails, Fault
  <2>2. Conserved' /\ SeenToTheEnd' /\ Propagates'
    BY <1>9 DEF CompressorFails, Fault
  <2> QED BY <2>1, <2>2
<1> QED BY <1>1, <1>2, <1>3, <1>4, <1>5, <1>6, <1>7, <1>8, <1>9 DEF CompressorStep

-----------------------------------------------------------------------------
(* The invariant holds from the start and for ever.                        *)
LEMMA StartsSafe == ASSUME Init PROVE Safe
<1> USE PipesAssumption DEF Procs, Pipes, Ends, Compressing, Replaced, Well
<1>1. Typed /\ Placed
  BY DEF Init, Typed, Placed, TarPlaces, ChildBefore, ChildPlaces, CompressorAlive
<1>2. HoldsEnds /\ SeenToTheEnd /\ Propagates
  BY DEF Init, HoldsEnds, SeenToTheEnd, Propagates, CompressorAlive
<1>3. Conserved
  BY DEF Init, Conserved, ChildBefore
<1> QED BY <1>1, <1>2, <1>3 DEF Safe

LEMMA StaysSafe == ASSUME Safe, [Next]_vars PROVE Safe'
<1>1. CASE UNCHANGED vars
  BY <1>1 DEF vars, invocation, processes, compressor, disk, Safe, Typed, Placed, HoldsEnds,
     Conserved, SeenToTheEnd, Propagates, Compressing, TarEnd, Holds, Replaced, Well, AllRead, NeverMade
<1> QED BY <1>1, TarStays, ChildStays, CompressorStays DEF Next

LEMMA AlwaysSafe == Spec => []Safe
BY StartsSafe, StaysSafe, PTL DEF Spec

-----------------------------------------------------------------------------
(* tar ends well only if the others did, and then nothing is in a pipe.    *)
LEMMA SafeReported == ASSUME Safe PROVE Reported
<1> SUFFICES ASSUME status["tar"] = "ok" PROVE Reported
  BY DEF Reported
<1> USE DEF Safe, Typed, Procs, Pipes, Well
<1>1. Well("tar") /\ Well("compressor") /\ (Replaced \/ Well("child"))
  BY DEF Propagates
<1>2. given = made /\ (AllRead \/ "early" \in faults)
  BY <1>1 DEF SeenToTheEnd
<1>3. Compressing => count = input /\ archive = given
  BY <1>1 DEF SeenToTheEnd, Conserved, Replaced
<1>4. ~ Compressing => count = given
  BY <1>1 DEF SeenToTheEnd, Conserved
<1>5. "early" \in faults \/ taken = input
  BY <1>1, <1>2, <1>3 DEF SeenToTheEnd, Conserved, AllRead, Replaced, Compressing
<1>6. Compressing /\ ~ Replaced => (archive + padding) % record_size = 0
  BY DEF Conserved
<1> QED BY <1>1, <1>2, <1>3, <1>4, <1>5, <1>6 DEF Reported

(* Whatever fails and whoever is faster, tar ends well only if nothing was *)
(* lost: every failure of a child reaches its exit status (system.c:449,   *)
(* sys_wait_for_child).                                                    *)
THEOREM ReportedAlways == Spec => []Reported
BY AlwaysSafe, SafeReported, PTL

(* If nothing fails, tar never reports that something did: nobody is       *)
(* killed by a pipe that its reader left too early, since each reads to    *)
(* the end of its input (system.c:171, sys_drain_input_pipe).              *)
THEOREM EndsWellAlways == Spec => []EndsWell
<1>1. Safe => EndsWell
  BY DEF Safe, Propagates, EndsWell, Procs
<1> QED BY <1>1, AlwaysSafe, PTL
==============================================================================
