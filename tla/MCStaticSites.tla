--------------------------- MODULE MCStaticSites ---------------------------
(* Instances of StaticSites: e1 and e2 share the file b1 and fit the quota  *)
(* together; e3 does not fit beside e2.                                     *)
EXTENDS StaticSites, TLC

CONSTANTS e1, e2, e3, b1, b2, b3, h1, h2

OneSite == {e1}
ThreeSites == {e1, e2, e3}
Files == {b1, b2, b3}
SiteFiles == [e \in Endpoints |-> CASE e = e1 -> {b1} [] e = e2 -> {b1, b2} [] e = e3 -> {b3}]
UnitSize == [b \in Blobs |-> 1]
TwoHandlers == {h1, h2}
HandlerSymmetry == Permutations(Handlers)

Touched == {e \in Endpoints : db[e] # NoRow \/ \E t \in Threads : Works(t, e)}

(* One site through every failure, crash and shutdown; the two that share a *)
(* file with a failure or a changed file; the two that compete for the      *)
(* quota undisturbed.                                                       *)
SiteScope ==
    \/ Touched \subseteq {e2} /\ rot = 0
    \/ Touched \subseteq {e1, e2} /\ restarts = 0 /\ fails + rot <= 1
    \/ Touched \subseteq {e2, e3} /\ restarts + fails + rot = 0
=============================================================================
