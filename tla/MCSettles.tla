----------------------------- MODULE MCSettles -----------------------------
(***************************************************************************)
(* What has to end on the validator's side, each in a lane of its own: the *)
(* locks of executors and signers over retries, a chain handle, the quorum *)
(* of several handles, and the relay's interrupted publications.           *)
(***************************************************************************)
EXTENDS WeightExecution, ChainHandle, RpcQuorum, MCCheckpointLedger

CONSTANTS w1, cc

VARIABLE lane

OneVector == [v \in Views |-> w1]

MCInit ==
    /\ lane \in {"locks", "handle", "quorum", "ledger"}
    /\ Init /\ ChainInit /\ QuorumInit /\ LedgerInit

(* One caller of the handle only reads; all three are busy only in the first *)
(* generation.  This bounds what callers begin, never what has to end.       *)
HandleUse ==
    /\ call'[cc].op \in {"idle", "read"}
    /\ Cardinality({u \in Callers : call'[u] # Idle}) + generation' <= 4

MCNext ==
    /\ UNCHANGED lane
    /\ \/ lane = "locks" /\ Next /\ UNCHANGED <<cvars, qvars, dvars>>
       \/ lane = "handle" /\ ChainNext /\ HandleUse /\ UNCHANGED <<vars, qvars, dvars>>
       \/ lane = "quorum" /\ QuorumNext /\ UNCHANGED <<vars, cvars, dvars>>
       \/ lane = "ledger" /\ LedgerNext /\ UNCHANGED <<vars, cvars, qvars>>

(* Nothing the fairness asks for is enabled where a lane starts. *)
MCSpec ==
    /\ MCInit /\ [][MCNext]_<<lane, vars, cvars, qvars, dvars>>
    /\ Fairness /\ ChainFair /\ QuorumFair /\ LedgerFairness

-----------------------------------------------------------------------------
(* Chain handles and the quorum over them settle: generations stay apart,  *)
(* and when every call has returned nothing is half open                   *)
(* (BittensorChain._finish_close, FinalizedRpcQuorum._finish_close).       *)
LifecyclesSettled == GenerationsApart /\ QuietIsSettled /\ QuorumSettled

(* Every close and every cleanup of a failed open returns, of a handle and *)
(* of the quorum (BittensorChain.close, FinalizedRpcQuorum.close).         *)
ClosesReturn == CloseReturns /\ QuorumCloses
=============================================================================
