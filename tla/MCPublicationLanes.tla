------------------------- MODULE MCPublicationLanes -------------------------
(* An instance of PublicationLanes: one miner, two signed bindings with the *)
(* same window of two blocks.                                               *)
EXTENDS PublicationLanes

CONSTANTS m1, v1, v2

MCWindow == [v \in Versions |-> 2]

(* One restart, of either process.  The empty miner set and the second      *)
(* bindings are tried in the middle block, where they meet the lanes before *)
(* and after it.                                                            *)
Scope ==
    /\ laneCrashes + goStarts <= 1
    /\ staged # NoLane => \/ staged.block = 2 /\ (staged.miners = {} => staged.ver = v1)
                          \/ staged.miners = {m1} /\ staged.ver = v1
=============================================================================
