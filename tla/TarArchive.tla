------------------------------ MODULE TarArchive ------------------------------
(***************************************************************************)
(* What writing an archive promises, whatever the blocking factor and the  *)
(* volumes: the members one after the other, each header followed by       *)
(* exactly as many data blocks as it announces and in order, and then, at  *)
(* the end, at least two blocks of NULs.                                   *)
(***************************************************************************)
EXTENDS TarBlocks, FiniteSetsExt

CONSTANT Files            \* the members, in order

VARIABLES
  size,                   \* the size of each file
  archive,                \* the blocks written so far
  closed                  \* is the archive complete?

vars == <<size, archive, closed>>

Headers(a) == {i \in DOMAIN a : a[i].kind = "header"}

(* How many data blocks the last member still lacks.                       *)
Missing(a) ==
  IF Headers(a) = {} THEN 0
  ELSE LET h == Max(Headers(a)) IN a[h].size - (Len(a) - h)

Ended(a) == a # <<>> /\ a[Len(a)] = Zero

Init == archive = <<>> /\ closed = FALSE

AppendHeader ==
  LET taken == Cardinality(Headers(archive)) IN
  /\ ~ closed /\ ~ Ended(archive)
  /\ Missing(archive) = 0
  /\ taken < Len(Files)
  /\ archive' = Append(archive, Header(Files[taken + 1], size[Files[taken + 1]]))
  /\ UNCHANGED <<size, closed>>

AppendData(n) ==
  LET h == archive[Max(Headers(archive))] IN
  /\ ~ closed
  /\ n \in 1 .. Missing(archive)
  /\ archive' = archive \o
       [i \in 1 .. n |-> Data(h.name, h.size - Missing(archive) + i - 1)]
  /\ UNCHANGED <<size, closed>>

AppendZeros(n) ==
  /\ ~ closed
  /\ Ended(archive) \/ Missing(archive) = 0
  /\ Cardinality(Headers(archive)) = Len(Files)
  /\ archive' = archive \o [i \in 1 .. n |-> Zero]
  /\ UNCHANGED <<size, closed>>

Close ==
  /\ ~ closed
  /\ Len(archive) > 1 /\ archive[Len(archive) - 1] = Zero /\ Ended(archive)
  /\ closed' = TRUE
  /\ UNCHANGED <<size, archive>>

Next ==
  \/ AppendHeader \/ Close
  \/ \E n \in 1 .. Missing(archive) : AppendData(n)
  \/ \E n \in 1 .. Len(archive') - Len(archive) : AppendZeros(n)

Spec == Init /\ [][Next]_vars
==============================================================================
