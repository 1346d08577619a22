------------------------- MODULE IncrementalDumpProps -------------------------
(* The properties of IncrementalDump.                                      *)
EXTENDS IncrementalDump

(* What a tree holds, apart from inode numbers and times.                  *)
Held(fs) ==
  [p \in {q \in DOMAIN fs : Exists(fs, q)} |->
     IF IsDir(fs, p) THEN "dir" ELSE <<fs[p].data>>]

(* When no run reported an error, restoring all archives in turn gives the *)
(* tree of the last dump back, whatever was written, removed, renamed or   *)
(* replaced between the dumps: if the tree was at rest during the last     *)
(* dump, no directory was renamed while an earlier one ran, and none of    *)
(* those kept a wrong inode number.                                        *)
RestoresTree ==
  /\ pc = "done" /\ ~ failed
  /\ Levels \notin moving /\ shuffled = {}
  /\ stale \subseteq {Levels}
  => Held(disk) = Held(taken[Levels])

(* Renames that a restore can do one by one: no directory in a renamed     *)
(* one, and nothing where it goes unless the two were exchanged.           *)
Easy(old, new) ==
  \A r \in Renamed(old, new) :
    LET p == r[1]
        q == r[2]
    IN /\ \A d \in Dirs(old) : Within(d, p) => d = p
       /\ \A d \in Dirs(new) : Within(d, q) => d = q
       /\ ~ Exists(old, q) \/ <<q, p>> \in Renamed(old, new)
       /\ \A d \in Paths : Within(q, d) => ~ IsFile(old, d)

(* A restore of dumps of a tree at rest reports no error if the renames    *)
(* were easy.                                                              *)
EasyRestored ==
  /\ pc = "done" /\ moving = {} /\ stale \subseteq {Levels}
  /\ \A k \in 2 .. Levels : Easy(taken[k - 1], taken[k])
  => ~ failed

(* rename_handler comes to an end of every chain and every cycle of        *)
(* renames, unless a directory was renamed during a dump.                  *)
RenamesEnd == pc = "looping" => shuffled # {}
==============================================================================
