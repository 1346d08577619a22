-------------------------- MODULE UpdateArchiveProps --------------------------
(***************************************************************************)
(* What --append, --update and --concatenate promise: what the archive     *)
(* held stays, and what is added follows it.                               *)
(***************************************************************************)
EXTENDS UpdateArchive, FiniteSetsExt

(* The blocks before the end mark.                                         *)
Ends(s) == {i \in DOMAIN s : s[i].kind = "zero"}
Body(s) == IF Ends(s) = {} THEN s ELSE SubSeq(s, 1, Min(Ends(s)) - 1)

(* Not one block of the members the archive holds is ever changed, not     *)
(* even between two writes: a run that is cut short loses none of them.    *)
OldMembersIntact ==
  [][\A i \in DOMAIN Body(original) : i \in DOMAIN file' /\ file'[i] = original[i]]_vars

(* The file needs no update: a member as recent is in the archive.         *)
InArchive(m) ==
  \E i \in DOMAIN Body(original) :
    /\ original[i].kind = "header" /\ original[i].name = m.name
    /\ original[i].off >= m.mtime

IsAdded(m) == ~ (subcommand_option = "update" /\ InArchive(m))

(* What the first n inputs add.                                            *)
Added[n \in 0 .. Len(Inputs)] ==
  IF n = 0 THEN <<>>
  ELSE Added[n - 1] \o (IF IsAdded(Inputs[n]) THEN Inputs[n].blocks ELSE <<>>)

(* The old members, then the new ones (for --update only the files that    *)
(* are newer than every copy in the archive), then an end mark.  (Another  *)
(* archive brings end marks of its own.)                                   *)
Wanted == Body(original) \o Added[Len(Inputs)]
AppendsExactly ==
  pc = "done" /\ subcommand_option # "cat" =>
    LET n == Len(file) - Len(Wanted)
    IN n >= 2 /\ file = Wanted \o [i \in 1 .. n |-> Zero]

(* What is appended "to the end of the archive" (update.c:21) is part of   *)
(* the archive: a reader, which stops at the end mark, gets to it.         *)
AddedIsReachable ==
  pc = "done" =>
    \A i \in DOMAIN Inputs : IsAdded(Inputs[i]) =>
      \A k \in DOMAIN Body(Inputs[i].blocks) :
        \E j \in DOMAIN Body(file) : file[j] = Inputs[i].blocks[k]

Termination == <>Finished
==============================================================================
