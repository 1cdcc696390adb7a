--------------------------- MODULE MCPlanInstall ---------------------------
(***************************************************************************)
(* Small instances of two parts of a validator, each explored in a lane    *)
(* of its own while the other stays as it started: the installation of     *)
(* plan files, and a static probe epoch.                                   *)
(***************************************************************************)
EXTENDS PlanInstall, StaticScoring

CONSTANTS e1, e2, e3

VARIABLE lane

(***************************************************************************)
(* Files: a load interleaves with undisturbed writers and other programs;  *)
(* after a power loss one more failure is followed.                        *)
(***************************************************************************)
PlanScope ==
    /\ faults + crashes > 0 => load = NoLoad
    /\ faults + crashes + foreign <= 3 /\ faults + crashes <= 2

(***************************************************************************)
(* Static epochs: a site with two replicas and one with a third; its index *)
(* may be missing or its release signed outside the key's validity.        *)
(***************************************************************************)
MCKeys == {[id |-> "key", from |-> 0, until |-> 2]}
MCTargets == {[site |-> "a", release |-> "ra", server |-> "v1", endpoints |-> {e1, e2}],
              [site |-> "b", release |-> "rb", server |-> "v1", endpoints |-> {e3}]}
MCMinerOf == (e1 :> "m1") @@ (e2 :> "m2") @@ (e3 :> "m1")

File(path, body, length) == [path |-> path, body |-> body, length |-> length, type |-> "html"]
SiteA == [files |-> {File(<<"index.html">>, "home", 3)},
          fallback |-> None]
SiteB == [files |-> {File(<<"index.html">>, "home", 1)}, fallback |-> <<"index.html">>]
Object(site, m) == [digest |-> site, oversized |-> FALSE, manifest |-> m]
SignedAt(site, at) ==
  [digest |-> "r" \o site,
   doc |-> [site |-> site, signer |-> "key", issued |-> at, signed |-> TRUE,
            implemented |-> TRUE, server |-> "v1"]]
MCDocuments ==
  {[a |-> [manifest |-> Object("a", SiteA), release |-> SignedAt("a", 1)],
    b |-> [manifest |-> m, release |-> SignedAt("b", i)]] :
      m \in {Object("b", SiteB), None}, i \in {1, 2}}

MCWrong(c) == {[c EXCEPT !.body = "x"], [c EXCEPT !.status = 500],
               [c EXCEPT !.header = <<"text", 9>>]}

\* Three kinds of epoch: the replicas of one site, anything sent and done to
\* one probe of each; all three incarnations; two probes of one replica.
MCPlans == {{<<e1, 1>>, <<e2, 1>>},
            {<<e1, 1>>, <<e2, 1>>, <<e3, 1>>},
            {<<e1, 1>>, <<e1, 2>>, <<e2, 1>>}}
PlainCodes == {"success", "body_mismatch", "attestation_fraud", "connection_failed"}
Pair == Cardinality(planned) = 2 /\ VerifiedTargets = Targets
EpochScope ==
  /\ framing => Pair
  /\ \A o \in seen : \/ Pair /\ o.request[2] = Root
                     \/ o.code \in PlainCodes /\ o.request[2] \in {Root, Unlisted}

\* The epoch is judged by the set of what was seen, so that the incarnations
\* may take their turns one after the other.
InTurn ==
  \A p \in planned \ due, d \in due :
    p[1] = d[1] \/ p[1] = e1 \/ d[1] = e3

Scope == IF lane = "files" THEN PlanScope ELSE EpochScope

(* A lane that is not explored starts in one of its initial states. *)
MCInit ==
    /\ lane \in {"files", "static"}
    /\ PlanInit /\ StaticInit
    /\ lane = "static" => inodes = <<>>
    /\ lane = "files" => /\ framing = FALSE /\ VerifiedTargets = Targets
                         /\ Cardinality(planned) = 2

MCNext ==
    /\ UNCHANGED lane
    /\ \/ lane = "files" /\ PlanNext /\ UNCHANGED svars
       \/ lane = "static" /\ StaticNext /\ InTurn' /\ UNCHANGED pvars

MCSpec == MCInit /\ [][MCNext]_<<lane, pvars, svars>>
=============================================================================
