----------------------------- MODULE MCDurable -----------------------------
(* The relay's ledger of checkpoints and the agent's cache of static sites,  *)
(* each in a lane of its own: neither shares state with the other.          *)
EXTENDS MCCheckpointLedger, MCStaticSites

VARIABLE lane   \* "ledger" or "sites"

MCInit == LedgerInit /\ Init /\ lane \in {"ledger", "sites"}

MCNext ==
    /\ UNCHANGED lane
    /\ \/ lane = "ledger" /\ (LedgerNext \/ UNCHANGED dvars) /\ UNCHANGED vars
       \/ lane = "sites" /\ Next /\ UNCHANGED dvars

MCSpec == MCInit /\ [][MCNext]_<<dvars, vars, lane>>

(* The output paths, which are interchangeable, are used in order. *)
PathsInOrder ==
    \A p, q \in Paths :
        p < q /\ (out[q] # <<>> \/ (run # NoRun /\ run.path = q)) => out[p] # <<>>

(* Up to two of a kill, a power loss and a restored backup, for chains of    *)
(* two records at two places; a third record undisturbed.                    *)
LedgerScope ==
    \/ /\ Len(dir.records) <= 2 /\ Cardinality({p \in Paths : out[p] # <<>>}) <= 2
       /\ kills + losses + restores <= 2
    \/ kills + losses + restores = 0 /\ backup.records = <<>>

Scope == IF lane = "ledger" THEN PathsInOrder /\ LedgerScope ELSE SiteScope
=============================================================================
