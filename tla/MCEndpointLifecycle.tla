------------------------ MODULE MCEndpointLifecycle ------------------------
(* Instances of EndpointLifecycle: one endpoint with two concurrent         *)
(* requests, and two endpoints of one artifact.                             *)
EXTENDS EndpointLifecycle, TLC

CONSTANTS e1, e2, a1, h1, h2

TwoEndpoints == {e1, e2}
OneArtifact == {a1}
SameArtifact == [e \in Endpoints |-> a1]
TwoHandlers == {h1, h2}
All == {"assign", "deactivate", "status"}

Touched == {e \in Endpoints : db[e] # NoRow \/ \E t \in Threads : Works(t, e)}
Busy == {t \in Handlers : th[t] # Idle}

(* One endpoint: one request at a time through any errors, restarts and     *)
(* exits, two with one of them; and, undisturbed, two requests for two      *)
(* endpoints of one artifact. A status request, which only reads, is        *)
(* followed through alone.                                                  *)
Scope ==
    \/ Cardinality(Touched) <= 1 /\ Cardinality(Busy) <= 1
    \/ /\ \A t \in Threads : ~At(t, "receipt")
       /\ fails + restarts + exits <= IF Cardinality(Touched) <= 1 THEN 1 ELSE 0

Symmetry == Permutations(Handlers) \cup Permutations(Endpoints)
=============================================================================
