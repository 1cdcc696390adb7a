---------------------------- MODULE MCMinerNode ----------------------------
(* The Python neuron of a miner and the lease lane of its Go agent, each in *)
(* a part of its own: a forwarded document reaches the agent as one of the  *)
(* requests SandboxLease takes from anyone.                                 *)
EXTENDS MCSandboxLease, MinerIngress

CONSTANTS va, vb

MCStake == va :> 1 @@ vb :> 2
MCDocuments == {[block |-> 1, from |-> 1, expires |-> 2, uid |-> 1],
                [block |-> 2, from |-> 1, expires |-> 5, uid |-> 2]}
MCViews == {[block |-> 1, permits |-> {va, vb}, uid |-> 1],
            [block |-> 2, permits |-> {vb}, uid |-> 2],
            [block |-> 2, permits |-> {va, vb}, uid |-> 1]}
MCLimit == [default |-> 2, op |-> 1, cancel |-> 1]
MCSpan == [default |-> 2, op |-> 1, cancel |-> 2]

VARIABLE part   \* "leases" or "ingress"

MCInit ==
    /\ Init /\ IngressInit /\ part \in {"leases", "ingress"}
    /\ part = "ingress" => inst = {}

MCNext ==
    /\ UNCHANGED part
    /\ \/ part = "leases" /\ Next /\ UNCHANGED ivars
       \/ part = "ingress" /\ IngressNext /\ UNCHANGED vars

MCSpec == MCInit /\ [][MCNext]_<<vars, ivars, part>>

(* One request through repeated bridge calls; two of any kind; three that   *)
(* meet at the gate, or that come one after the other while one view lasts. *)
IngressScope ==
    LET begun == {r \in Inbound : requests[r] # NotArrived}
        live == {r \in begun : requests[r] # Over}
    IN \/ Cardinality(begun) <= 1
       \/ /\ \A r \in live : requests[r].tries = 0
          /\ \/ Cardinality(begun) <= 2
             \/ time = 0 /\ \A r \in live : requests[r].kind = "gated"
             \/ Cardinality(live) <= 1 /\ metagraph.block = 1

(* Two handlers at a time, one at a time in an agent that was restarted, and *)
(* one fewer beside a sweep.                                                 *)
LeaseScope ==
    Cardinality({r \in Requests : req[r] # NoRequest}) + stops <= IF sweep = NoSweep THEN 2 ELSE 1

Scope == IF part = "leases" THEN LeaseScope ELSE IngressScope
=============================================================================
