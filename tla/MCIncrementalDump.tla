-------------------------- MODULE MCIncrementalDump --------------------------
(* Small trees, for TLC. *)
EXTENDS IncrementalDumpProps

Tree(f) == [p \in Paths |-> IF p = Top THEN Dir(0) ELSE IF p \in DOMAIN f THEN f[p] ELSE None]

(* Two directories with a file of the same name in each; a directory in a  *)
(* directory beside a file.                                                *)
MCTrees == {
  Tree(<<1>> :> Dir(1) @@ <<2>> :> Dir(2) @@ <<1, 1>> :> File(0, 0) @@ <<2, 1>> :> File(-1, 0)),
  Tree(<<1>> :> Dir(1) @@ <<1, 1>> :> Dir(2) @@ <<1, 2>> :> File(0, 0) @@ <<2>> :> File(-1, 0))}

(* Changes before and during each of three dumps.                          *)
MCBudgets == {
  <<0, 0, 2, 0, 0, 0>>, <<0, 0, 1, 0, 1, 0>>,
  <<0, 1, 1, 0, 0, 0>>, <<0, 0, 1, 1, 0, 0>>, <<0, 0, 0, 1, 1, 0>>}
==============================================================================
