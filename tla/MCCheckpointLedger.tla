------------------------- MODULE MCCheckpointLedger -------------------------
(* A chain c1, c2, c3; d1 and d2, which compete with c1 and c2; f2, which  *)
(* forks c1 at its height; r3, which goes back to it; u1, signed by too    *)
(* few keys.  Two keys sign, one of which is revoked at epoch 2.           *)
EXTENDS CheckpointLedger, TLC

CONSTANTS c1, c2, c3, d1, d2, f2, r3, u1

CheckpointHeader(seq, prev, height, block, signers) ==
    [seq |-> seq, prev |-> prev, height |-> height, block |-> block, epoch |-> 0, report |-> block,
     issued |-> 0, expires |-> 3, signers |-> signers]

MCHeader ==
    c1 :> CheckpointHeader(1, NoCheckpoint, 1, 1, {"a", "b"}) @@ c2 :> CheckpointHeader(2, c1, 2, 2, {"a", "b"})
    @@ c3 :> CheckpointHeader(3, c2, 2, 2, {"a", "b"}) @@ d1 :> CheckpointHeader(1, NoCheckpoint, 1, 3, {"a", "b"})
    @@ d2 :> CheckpointHeader(2, c1, 3, 4, {"a", "b"}) @@ f2 :> CheckpointHeader(2, c1, 1, 5, {"a", "b"})
    @@ r3 :> CheckpointHeader(3, c2, 1, 6, {"a", "b"}) @@ u1 :> CheckpointHeader(1, NoCheckpoint, 1, 7, {"a"})

MCCheckpoints == DOMAIN MCHeader

MCPolicy ==
    [from |-> 0, until |-> 4, lifetime |-> 3, skew |-> 0, age |-> 2, sequence_gap |-> 1, height_gap |-> 2,
     threshold |-> 2, roles |-> {"scorer", "auditor"},
     keys |-> [a |-> [from |-> 0, until |-> 4, revoked |-> 9, roles |-> {"scorer"}],
               b |-> [from |-> 0, until |-> 4, revoked |-> 2, roles |-> {"auditor"}]]]

(* An epoch at which both keys are valid, and one at which one is not. *)
MCContexts == {[epoch |-> e, bound |-> TRUE] : e \in {0, 2}}

(* For liveness: a chain and a competitor of its head, in one epoch. *)
LiveCheckpoints == {c1, c2, d2}
LiveContexts == {[epoch |-> 0, bound |-> TRUE]}
=============================================================================
