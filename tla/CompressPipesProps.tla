-------------------------- MODULE CompressPipesProps --------------------------
(***************************************************************************)
(* What tar makes of its compressor: nothing is lost without a word, and   *)
(* everyone ends.                                                          *)
(***************************************************************************)
EXTENDS CompressPipes

(* If tar ends well, so did the compressor, and all that was written to a  *)
(* pipe arrived: the archive holds all of the compressor's output, in      *)
(* whole records if a child reblocks it (system.c:419), or tar has read    *)
(* it.  Every failure of the others is reported (system.c:449).            *)
Reported ==
  status["tar"] = "ok" =>
    /\ status["compressor"] = "ok"
    /\ IF Compressing THEN archive = made /\ count = input ELSE count = made
    /\ Compressing /\ ~ Replaced => (archive + padding) % record_size = 0
    /\ "early" \in faults \/ taken = input

(* If nothing goes wrong, tar ends well, whoever is faster.                *)
EndsWell == faults = {} /\ pc["tar"] = "ended" => status["tar"] = "ok"

(* tar, its child and the compressor all end: nobody waits for a pipe that *)
(* someone else has left open, or for a process that waits for him.        *)
AllEnd == <>(pc["tar"] = "ended" /\ Ended)
==============================================================================
