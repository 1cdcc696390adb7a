------------------------- MODULE MCWeightExecution -------------------------
(***************************************************************************)
(* Small instances of two parts of a validator, each explored in a lane    *)
(* of its own while the other stays as it started: the submission of one   *)
(* plan, and the publication of miner sets.                                *)
(***************************************************************************)
EXTENDS WeightExecution, PublicationLanes, TLC

CONSTANTS e1, e2, s1, s2, v1, v2, v3, w1, w2, m1

VARIABLE lane

(* v1 and v2 are different metagraph identities that resolve to one vector. *)
MCVectorOf == (v1 :> w1) @@ (v2 :> w1) @@ (v3 :> w2)
Symmetry == Permutations({e1, e2}) \cup Permutations({s1, s2})

(* Two signed bindings of one miner, with the same window of two blocks. *)
MCWindow == [v \in Versions |-> 2]

(* Publications: one restart, of either process.  The empty miner set is     *)
(* tried undisturbed and the second bindings at any time, in the middle      *)
(* block, where they meet the lanes before and after it.                     *)
Scope ==
    /\ laneCrashes + goStarts <= 1
    /\ staged # NoLane =>
         \/ staged.block = 2 /\ staged.miners = {m1}
         \/ /\ staged.block = 2 /\ laneCrashes + goStarts = 0
            /\ staged.miners = {} => staged.ver = v1
         \/ staged.miners = {m1} /\ staged.ver = v1

(* A lane that is not explored starts in one of its initial states. Earlier *)
(* publications are at most one, of the first block.                        *)
MCInit ==
    /\ lane \in {"weights", "publications"}
    /\ Init /\ LaneInit
    /\ issued \subseteq {[block |-> 1, miners |-> {m1}, ver |-> v1]}
    /\ lane = "weights" => store = {}

MCNext ==
    /\ UNCHANGED lane
    /\ \/ lane = "weights" /\ Next /\ UNCHANGED lvars
       \/ lane = "publications" /\ LaneNext /\ UNCHANGED vars

MCSpec == MCInit /\ [][MCNext]_<<lane, vars, lvars>>
=============================================================================
