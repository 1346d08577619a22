---------------------------- MODULE CompressPipes ----------------------------
(***************************************************************************)
(* tar, its child and its grandchild when an archive is compressed         *)
(* (system.c, sys_child_open_for_compress and ..._for_uncompress).  The    *)
(* compressor is the grandchild, connected with tar by parent_pipe and     *)
(* with the child, which copies whole records to or from the archive, by   *)
(* child_pipe.  If the archive is a plain file the child becomes the       *)
(* compressor, and there is no child_pipe.                                 *)
(*                                                                         *)
(* The data are counted, not looked at: pipes keep their order.  A unit is *)
(* a block.  External: the pipes, and a compressor that reads, writes and  *)
(* ends as it likes.  The exec_fatal calls are commented out in the source *)
(* and so here: if execlp fails the process goes on.                       *)
(***************************************************************************)
EXTENDS Integers, FiniteSets

CONSTANTS
  Modes,        \* "compress", "uncompress"
  record_size,  \* in units
  PipeSize,     \* capacity of a pipe
  Sizes,        \* how many units tar writes, or the archive holds
  MaxOutput,    \* bound: units the compressor writes
  Faults        \* what may go wrong: "open", "exec", "signal", "exit",
                \* "read", "write", "early"

ASSUME PipesAssumption ==
  /\ Modes \subseteq {"compress", "uncompress"}
  /\ record_size \in Nat \ {0} /\ PipeSize \in Nat \ {0}
  /\ Sizes \subseteq Nat /\ MaxOutput \in Nat

Procs == {"tar", "child", "compressor"}
Pipes == {"parent_pipe", "child_pipe"}
Ends == {"r", "w"}

VARIABLES
  mode,
  direct,     \* no grandchild: the archive is a plain file
  input,      \* the size of what tar writes, or of the archive
  fds,        \* the ends of pipes that a process holds
  pipe,       \* how much is in a pipe
  pc,
  status,     \* wait status: "signal", an exit status, or "none" before
  count,      \* how much tar has written to or read from parent_pipe
  taken,      \* how much the compressor has read,
  made,       \* ... has made of it, and
  given,      \* ... has written
  length,     \* what the child has in its record
  archive,    \* units of data written to the archive or read from it
  padding,    \* and units of NULs
  faults      \* history: what went wrong

invocation == <<mode, direct, input>>
processes == <<fds, pc, status>>
compressor == <<taken, made, given>>
disk == <<archive, padding>>
vars == <<invocation, processes, pipe, count, compressor, length, disk, faults>>

Compressing == mode = "compress"
Opposite(e) == IF e = "r" THEN "w" ELSE "r"

(* The end of a pipe that a process is to use.                             *)
TarEnd == IF Compressing THEN "w" ELSE "r"

Holds(p, q, e) == <<q, e>> \in fds[p]
Drop(p, q, e) == fds' = [fds EXCEPT ![p] = @ \ {<<q, e>>}]
Open(q, e) == \E p \in Procs : Holds(p, q, e)

Goto(p, l) == pc' = [pc EXCEPT ![p] = l]

(* A process ends, which closes what it holds.                             *)
End(p, s) ==
  /\ fds' = [fds EXCEPT ![p] = {}]
  /\ pc' = [pc EXCEPT ![p] = "ended"]
  /\ status' = [status EXCEPT ![p] = s]

Fault(f) == f \in Faults /\ faults' = faults \cup {f}

(* write(2) of a unit that stays in the pipe, or SIGPIPE; read(2) of n.    *)
PipeWrite(p, q) ==
  /\ Open(q, "r") /\ pipe[q] < PipeSize
  /\ pipe' = [pipe EXCEPT ![q] = @ + 1]

BrokenPipe(p, q) ==
  /\ ~ Open(q, "r")
  /\ End(p, "signal")

PipeRead(q, n) ==
  /\ n \in 1 .. pipe[q]
  /\ pipe' = [pipe EXCEPT ![q] = @ - n]

PipeEof(q) == pipe[q] = 0 /\ ~ Open(q, "w")

-----------------------------------------------------------------------------
(* The processes are made.                                                 *)

Starting == UNCHANGED <<invocation, status, pipe, count, compressor, length, disk, faults>>

(* xpipe (parent_pipe) and the first xfork.                                *)
Fork ==
  /\ pc["tar"] = "fork"
  /\ fds' = [fds EXCEPT !["tar"] = {"parent_pipe"} \X Ends, !["child"] = {"parent_pipe"} \X Ends]
  /\ pc' = [pc EXCEPT !["tar"] = "close", !["child"] = "close"]
  /\ Starting

(* "The parent tar is still here!  Just clean up."                         *)
TarCloses ==
  /\ pc["tar"] = "close"
  /\ Drop("tar", "parent_pipe", Opposite(TarEnd))
  /\ Goto("tar", "run")
  /\ Starting

ChildCloses ==
  /\ pc["child"] = "close"
  /\ Drop("child", "parent_pipe", TarEnd)
  /\ Goto("child", IF direct THEN "exec" ELSE "fork")
  /\ Starting

(* The child opens the file and executes the compressor: the same process  *)
(* under that name.                                                        *)
ExecDirect ==
  /\ pc["child"] = "exec"
  /\ fds' = [fds EXCEPT !["compressor"] = fds["child"], !["child"] = {}]
  /\ pc' = [pc EXCEPT !["compressor"] = "run", !["child"] = "replaced"]
  /\ Starting

(* xpipe (child_pipe) and the second xfork, also after a failed execlp.    *)
ForkGrandchild ==
  /\ pc["child"] = "fork"
  /\ LET held == fds["child"] \cup ({"child_pipe"} \X Ends)
     IN fds' = [fds EXCEPT !["child"] = held, !["compressor"] = held]
  /\ pc' = [pc EXCEPT !["child"] = "dup", !["compressor"] = "close"]
  /\ Starting

(* xdup2 of child_pipe over the end of parent_pipe, then xclose.           *)
ChildDup ==
  /\ pc["child"] = "dup"
  /\ Drop("child", "parent_pipe", Opposite(TarEnd))
  /\ Goto("child", "close2")
  /\ Starting

KeepsOpen == UNCHANGED fds                          \* a wrong ClosesOtherEnd
ClosesOtherEnd == Drop("child", "child_pipe", TarEnd)

(* xclose of the other end of child_pipe; rmtcreat or rmtopen succeeds.    *)
ChildReady ==
  /\ pc["child"] = "close2"
  /\ ClosesOtherEnd
  /\ Goto("child", "copy")
  /\ Starting

(* The archive cannot be opened, by a child that is to execute or to copy: *)
(* open_fatal.                                                             *)
OpenFails ==
  /\ pc["child"] \in {"exec", "close2"}
  /\ Fault("open") /\ End("child", "failed")
  /\ UNCHANGED <<invocation, pipe, count, compressor, length, disk>>

GrandchildCloses ==
  /\ pc["compressor"] = "close"
  /\ Drop("compressor", "child_pipe", Opposite(TarEnd))
  /\ Goto("compressor", "exec")
  /\ Starting

ExecGrandchild ==
  /\ pc["compressor"] = "exec" /\ "exec" \notin faults
  /\ Goto("compressor", "run")
  /\ UNCHANGED fds
  /\ Starting

(* The child goes on to fork a grandchild ...                              *)
ChildExecFails ==
  /\ pc["child"] = "exec"
  /\ Fault("exec") /\ Goto("child", "fork")
  /\ UNCHANGED <<invocation, fds, status, pipe, count, compressor, length, disk>>

(* ... which fails in xdup2 of the pipe end it has closed.  A program that *)
(* is missing once is missing again.                                       *)
GrandchildExecFails ==
  /\ pc["compressor"] = "exec"
  /\ Fault("exec") /\ End("compressor", "failed")
  /\ UNCHANGED <<invocation, pipe, count, compressor, length, disk>>

-----------------------------------------------------------------------------
(* The compressor.                                                         *)

From == IF Compressing THEN "parent_pipe" ELSE "child_pipe"
To == IF Compressing THEN "child_pipe" ELSE "parent_pipe"
Replaced == pc["child"] = "replaced"
FromFile == Replaced /\ ~ Compressing
ToFile == Replaced /\ Compressing

(* It makes some number of units of each it reads, and of the end.         *)
Make(n) == made + n <= MaxOutput /\ made' = made + n

CompressorReads ==
  /\ pc["compressor"] = "run"
  /\ IF FromFile THEN archive < input /\ archive' = archive + 1 /\ UNCHANGED pipe
     ELSE PipeRead(From, 1) /\ UNCHANGED archive
  /\ taken' = taken + 1
  /\ \E n \in 0 .. 1 : Make(n)
  /\ UNCHANGED <<invocation, processes, count, given, length, padding, faults>>

CompressorWrites ==
  /\ pc["compressor"] \in {"run", "flush"} /\ given < made
  /\ IF ToFile THEN archive' = archive + 1 /\ UNCHANGED pipe
     ELSE PipeWrite("compressor", To) /\ UNCHANGED archive
  /\ given' = given + 1
  /\ UNCHANGED <<invocation, processes, count, taken, made, length, padding, faults>>

CompressorBreaks ==
  /\ pc["compressor"] \in {"run", "flush"} /\ given < made /\ ~ ToFile
  /\ BrokenPipe("compressor", To)
  /\ UNCHANGED <<invocation, pipe, count, compressor, length, disk, faults>>

CompressorEof ==
  /\ pc["compressor"] = "run"
  /\ IF FromFile THEN archive = input ELSE PipeEof(From)
  /\ \E n \in 0 .. 1 : Make(n)
  /\ Goto("compressor", "flush")
  /\ UNCHANGED <<invocation, fds, status, pipe, count, taken, given, length, disk, faults>>

CompressorEnds ==
  /\ pc["compressor"] = "flush" /\ given = made
  /\ End("compressor", "ok")
  /\ UNCHANGED <<invocation, pipe, count, compressor, length, disk, faults>>

(* It is killed, reports an error, or is content with what it has read.    *)
CompressorFails ==
  /\ pc["compressor"] \in {"run", "flush"}
  /\ \/ Fault("signal") /\ End("compressor", "signal")
     \/ Fault("exit") /\ End("compressor", "failed")
     \/ Fault("early") /\ given = made /\ End("compressor", "ok")
  /\ UNCHANGED <<invocation, pipe, count, compressor, length, disk>>

-----------------------------------------------------------------------------
(* The child copies.                                                       *)

Copying == UNCHANGED <<invocation, count, compressor>>

Room == record_size - length

(* Compressing: it assembles a record from what the pipe has ...           *)
Assemble ==
  /\ pc["child"] = "copy" /\ Compressing /\ length < record_size
  /\ \E n \in 1 .. Room : PipeRead("child_pipe", n) /\ length' = length + n
  /\ UNCHANGED <<processes, disk, faults>>
  /\ Copying

(* ... and writes it, at the end of the file at full length.               *)
Padded == record_size - length

WriteRecord ==
  /\ pc["child"] = "copy" /\ Compressing
  /\ \/ length = record_size /\ UNCHANGED pc
     \/ length < record_size /\ PipeEof("child_pipe") /\ Goto("child", "wait")
  /\ archive' = archive + length
  /\ padding' = IF length > 0 THEN padding + Padded ELSE padding
  /\ length' = 0
  /\ UNCHANGED <<fds, status, pipe, faults>>
  /\ Copying

(* archive_write_error is fatal.                                           *)
WriteFails ==
  /\ pc["child"] = "copy" /\ Compressing
  /\ length = record_size \/ (length > 0 /\ PipeEof("child_pipe"))
  /\ Fault("write") /\ End("child", "failed")
  /\ UNCHANGED <<pipe, length, disk>>
  /\ Copying

(* Uncompressing: a record of the archive, or what there is of it ...      *)
ReadArchive ==
  /\ pc["child"] = "copy" /\ ~ Compressing /\ length = 0 /\ archive < input
  /\ length' = (IF input - archive < record_size THEN input - archive ELSE record_size)
  /\ archive' = archive + length'
  /\ UNCHANGED <<processes, pipe, padding, faults>>
  /\ Copying

(* ... is written to the pipe a block at a time.                           *)
PassOn ==
  /\ pc["child"] = "copy" /\ ~ Compressing /\ length > 0
  /\ PipeWrite("child", "child_pipe")
  /\ length' = length - 1
  /\ UNCHANGED <<processes, disk, faults>>
  /\ Copying

ChildBreaks ==
  /\ pc["child"] = "copy" /\ ~ Compressing /\ length > 0
  /\ BrokenPipe("child", "child_pipe")
  /\ UNCHANGED <<pipe, length, disk, faults>>
  /\ Copying

(* archive_read_error: record_start_block is 0 in the child, which never   *)
(* tries again.                                                            *)
ReadFails ==
  /\ pc["child"] = "copy" /\ ~ Compressing /\ length = 0
  /\ Fault("read") /\ End("child", "failed")
  /\ UNCHANGED <<pipe, length, disk>>
  /\ Copying

(* xclose (STDOUT_FILENO) at the end of the archive.                       *)
CloseStdout ==
  /\ pc["child"] = "copy" /\ ~ Compressing /\ length = 0 /\ archive = input
  /\ Drop("child", "child_pipe", "w")
  /\ Goto("child", "wait")
  /\ UNCHANGED <<status, pipe, length, disk, faults>>
  /\ Copying

(* "Propagate any failure of the grandchild back to the parent."  In the   *)
(* child child_pid is 0: kill sends the signal to the process group.       *)
IgnoresStatus == "ok"                               \* a wrong Propagated
Propagated == status["compressor"]

ChildWaits ==
  /\ pc["child"] = "wait" /\ pc["compressor"] = "ended"
  /\ IF Propagated = "signal"
     THEN LET alive == {p \in {"tar", "child"} : pc[p] # "ended"} IN
          /\ fds' = [p \in Procs |-> IF p \in alive THEN {} ELSE fds[p]]
          /\ pc' = [p \in Procs |-> IF p \in alive THEN "ended" ELSE pc[p]]
          /\ status' = [p \in Procs |-> IF p \in alive THEN "signal" ELSE status[p]]
     ELSE End("child", Propagated)
  /\ UNCHANGED <<pipe, length, disk, faults>>
  /\ Copying

-----------------------------------------------------------------------------
(* tar itself.                                                             *)

Tar == UNCHANGED <<invocation, compressor, length, disk, faults>>

TarWrites ==
  /\ pc["tar"] = "run" /\ Compressing /\ count < input
  /\ PipeWrite("tar", "parent_pipe")
  /\ count' = count + 1
  /\ UNCHANGED processes
  /\ Tar

TarBreaks ==
  /\ pc["tar"] = "run" /\ Compressing /\ count < input
  /\ BrokenPipe("tar", "parent_pipe")
  /\ UNCHANGED <<pipe, count>>
  /\ Tar

(* Until the end of the archive, then sys_drain_input_pipe.                *)
TarReads ==
  /\ pc["tar"] = "run" /\ ~ Compressing
  /\ \E n \in 1 .. record_size : PipeRead("parent_pipe", n) /\ count' = count + n
  /\ UNCHANGED processes
  /\ Tar

AtEot == count > 0                                  \* a wrong Drained
Drained == PipeEof("parent_pipe")

(* rmtclose (archive), then sys_wait_for_child.                            *)
CloseArchive ==
  /\ pc["tar"] = "run"
  /\ IF Compressing THEN count = input ELSE Drained
  /\ Drop("tar", "parent_pipe", TarEnd)
  /\ Goto("tar", "wait")
  /\ UNCHANGED <<status, pipe, count>>
  /\ Tar

ChildPid == IF Replaced THEN "compressor" ELSE "child"

WaitForChild ==
  /\ pc["tar"] = "wait" /\ pc[ChildPid] = "ended"
  /\ End("tar", IF status[ChildPid] = "ok" THEN "ok" ELSE "failed")
  /\ UNCHANGED <<pipe, count>>
  /\ Tar

-----------------------------------------------------------------------------
Init ==
  /\ mode \in Modes /\ direct \in BOOLEAN /\ input \in Sizes
  /\ fds = [p \in Procs |-> {}]
  /\ pipe = [q \in Pipes |-> 0]
  /\ pc = [p \in Procs |-> IF p = "tar" THEN "fork" ELSE "none"]
  /\ status = [p \in Procs |-> "none"]
  /\ count = 0 /\ taken = 0 /\ made = 0 /\ given = 0
  /\ length = 0 /\ archive = 0 /\ padding = 0
  /\ faults = {}

TarStep == Fork \/ TarCloses \/ TarWrites \/ TarBreaks \/ TarReads \/ CloseArchive \/ WaitForChild

ChildStep ==
  \/ ChildCloses \/ ExecDirect \/ ChildExecFails \/ ForkGrandchild \/ ChildDup \/ ChildReady \/ OpenFails
  \/ Assemble \/ WriteRecord \/ WriteFails \/ ReadArchive \/ PassOn \/ ChildBreaks
  \/ ReadFails \/ CloseStdout \/ ChildWaits

CompressorStep ==
  \/ GrandchildCloses \/ ExecGrandchild \/ GrandchildExecFails
  \/ CompressorReads \/ CompressorWrites \/ CompressorBreaks \/ CompressorEof
  \/ CompressorEnds \/ CompressorFails

Ended == \A p \in Procs : pc[p] \in {"ended", "replaced", "none"}

Next == TarStep \/ ChildStep \/ CompressorStep

(* Each process goes on when it can.                                       *)
Spec ==
  /\ Init /\ [][Next]_vars
  /\ WF_vars(TarStep) /\ WF_vars(ChildStep) /\ WF_vars(CompressorStep)
==============================================================================
