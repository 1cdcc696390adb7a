--------------------------- MODULE StaticScoring ---------------------------
(***************************************************************************)
(* One validator epoch of a set of static sites (static_scoring.py, with   *)
(* the firing loop of static_crawl.py): hidden probes are sent one at a    *)
(* time, each to one incarnation; the miner answers and signs what it      *)
(* likes, the path may lose, cache, strip or alter the answer; at the end  *)
(* the evidence is sealed into availability, content faults, proved frauds *)
(* and recommended actions.                                                *)
(*                                                                         *)
(* Two variables only the properties read: straight, the incarnations      *)
(* whose miner has served and truthfully signed the indexed content every  *)
(* time, and liars, those that have signed a statement about another       *)
(* incarnation or request.                                                 *)
(***************************************************************************)
EXTENDS StaticProbes

CONSTANTS Refused,
          Targets,      \* deployments: [site, release, server, endpoints]
          MinerOf,      \* the miner of each endpoint
          Documents,    \* what the index may hold, per deployment
          Plans,        \* hidden plans: probes <<endpoint, slice of the epoch>>
          MinAttempts,
          Wrong(_)      \* contents a miner or the path may put for the expected

VARIABLES
  documents,  \* the fetched index objects, per deployment
  planned,    \* the plan of the epoch
  due,        \* the probes of it not fired yet
  seen,       \* the observations of the epoch
  score,      \* None, Refused or the sealed epoch
  straight, liars

svars == <<framing, documents, planned, due, seen, score, straight, liars>>

Endpoints == UNION {t.endpoints : t \in Targets}
TargetOf(e) == CHOOSE t \in Targets : e \in t.endpoints

IndexState(t) == IngestStaticIndex(t, documents[t.site].manifest, documents[t.site].release)
VerifiedTargets == {t \in Targets : IndexState(t) = "verified"}
Manifest(e) == documents[TargetOf(e).site].manifest.manifest
ExpectedOf(e, q) == ExpectedStaticResponse(Manifest(e), q[1], q[2])

(***************************************************************************)
(* Requests no incarnation answered with the index's content but all with  *)
(* one other: the index is in question, not the miners.                    *)
(***************************************************************************)
Answer(o) ==
  CASE o.code = "success" -> <<"pass">>
    [] o.code \in ContentFaults ->
         <<"fault", o.content.status, o.content.body,
           IF framing THEN o.attestation.content.header ELSE o.content.header>>
    [] OTHER -> <<"other", o.code>>

On(obs, t, q) == {o \in obs : o.endpoint \in t.endpoints /\ o.request = q}

(* Mutant: the answers of the incarnations that were asked decide. *)
SuspectOfSome(obs, t, q) ==
  /\ Cardinality({MinerOf[e] : e \in t.endpoints}) >= 2
  /\ \E v \in {Answer(o) : o \in On(obs, t, q)} : v[1] = "fault"
SuspectRequest(obs, t, q) ==
  LET values == {Answer(o) : o \in On(obs, t, q)} IN
  /\ {o.endpoint : o \in On(obs, t, q)} = t.endpoints
  /\ Cardinality({MinerOf[e] : e \in t.endpoints}) >= 2
  /\ Cardinality(values) = 1
  /\ \A v \in values : v[1] = "fault"

Suspect(obs, o) == SuspectRequest(obs, TargetOf(o.endpoint), o.request)

(***************************************************************************)
(* The derived epoch.                                                      *)
(***************************************************************************)
Counted(obs, e) == {o \in obs : o.endpoint = e /\ ~Suspect(obs, o)}
CountedAs(obs, e, who) ==
  {o \in Counted(obs, e) : StaticFailureAttribution(o.code) = who}
Faults(obs, e) == {o.nonce : o \in {x \in Counted(obs, e) : x.code \in ContentFaults}}
Frauds(obs, e) == {o.nonce : o \in {x \in obs : x.endpoint = e /\ x.status = "fraudulent"}}

SampledEndpoints(obs) == {e \in Endpoints : Counted(obs, e) # {}}
PathDownEndpoints(obs) ==
  {e \in SampledEndpoints(obs) : CountedAs(obs, e, "path") = Counted(obs, e)}
SharedOutage(obs) == 2 * Cardinality(PathDownEndpoints(obs)) > Cardinality(SampledEndpoints(obs))

Disposition(obs, e) ==
  IF TargetOf(e) \notin VerifiedTargets THEN "abstain_index"
  ELSE IF SharedOutage(obs) THEN "excluded_common_mode"
  ELSE IF Cardinality(Counted(obs, e)) < MinAttempts THEN "abstain_insufficient_attempts"
  ELSE "eligible"

Charged(obs, e) == IF SharedOutage(obs) THEN {} ELSE Faults(obs, e)

EndpointActions(obs) ==
  {[endpoint |-> e, trust_zero |-> Frauds(obs, e) # {},
    evidence |-> IF Frauds(obs, e) # {} THEN Frauds(obs, e) ELSE Charged(obs, e)] :
     e \in {x \in Endpoints : Frauds(obs, x) # {} \/ Charged(obs, x) # {}}}

DeriveStaticEpoch(obs) ==
  [status |-> IF SharedOutage(obs) THEN "common_mode_unavailable"
              ELSE IF \A e \in Endpoints : Disposition(obs, e) # "eligible"
                   THEN "no_eligible_endpoints" ELSE "scored",
   successes |-> [e \in Endpoints |-> Cardinality(CountedAs(obs, e, "none"))],
   attempts |-> [e \in Endpoints |-> Cardinality(Counted(obs, e))],
   disposition |-> [e \in Endpoints |-> Disposition(obs, e)],
   actions |-> EndpointActions(obs)]

(***************************************************************************)
(* What the scorer demands of the evidence, whoever collected it.          *)
(***************************************************************************)
(* Mutant: the binding is re-derived before the nonce. *)
AttestationStatusSwapped(o) ==
  IF o.attestation = None THEN o.status
  ELSE IF o.attestation.key # o.endpoint THEN "rejected"
  ELSE IF ~Bound(o.attestation, o) THEN "fraudulent"
  ELSE IF o.attestation.nonce # o.nonce THEN "replayed"
  ELSE IF ~o.attestation.timely \/ ~Vouches(o.attestation, o.content) THEN "rejected"
  ELSE "verified"
AttestationStatus(o) ==
  IF o.attestation = None THEN o.status
  ELSE IF o.attestation.key # o.endpoint THEN "rejected"
  ELSE IF o.attestation.nonce # o.nonce THEN "replayed"
  ELSE IF ~Bound(o.attestation, o) THEN "fraudulent"
  ELSE IF ~o.attestation.timely \/ ~Vouches(o.attestation, o.content) THEN "rejected"
  ELSE "verified"

BodyLength(m, q) == IF q[1] = "GET" THEN ExpectedStaticResponse(m, q[1], q[2]).length ELSE 0

VerifyObservation(o) ==
  /\ TargetOf(o.endpoint) \in VerifiedTargets
  /\ o.expected = ExpectedOf(o.endpoint, o.request).content
  /\ BodyLength(Manifest(o.endpoint), o.request) <= Ceiling
  /\ AttestationStatus(o) = o.status
  /\ framing /\ o.code = "success" => o.framed
  /\ framing /\ o.code \in ContentFaults => ProvedFault(o)

Probed(obs, t) ==
  LET listed == {o \in obs : /\ o.endpoint \in t.endpoints
                            /\ ExpectedOf(o.endpoint, o.request).kind
                                 \in {"file", "directory_index"}}
      paths(seq) == {o.request[2] : o \in seq}
  IN [probed |-> paths(listed), bodies |-> paths({o \in listed : o.request[1] = "GET"})]

ScoreAccepted(obs) ==
  /\ \A o1, o2 \in obs : o1.nonce = o2.nonce => o1 = o2
  /\ \A o \in obs : CanonicalObservation(o) /\ VerifyObservation(o)

\* What the sealed record is checked for once more when it is built or read.
CanonicalEpoch(obs) ==
  \A t \in VerifiedTargets :
    LET c == Probed(obs, t) IN
    /\ c.bodies \subseteq c.probed
    /\ Cardinality(c.probed) <= Cardinality(Routes(documents[t.site].manifest.manifest))

ScoreStaticEpoch(obs) ==
  IF ScoreAccepted(obs) /\ CanonicalEpoch(obs) THEN DeriveStaticEpoch(obs) ELSE Refused

(***************************************************************************)
(* The miner and the path (neither is under src/).                         *)
(***************************************************************************)
Statement(p, c) == [key |-> p.endpoint, nonce |-> p.nonce, endpoint |-> p.endpoint,
                    request |-> p.request, timely |-> TRUE, content |-> c]

Straight(p, expected) == [content |-> expected, attested |-> <<Statement(p, expected)>>]

\* A statement about another incarnation of the miner, or about another request.
Misbound(p, c) == [Statement(p, c) EXCEPT !.request = <<"GET", <<"elsewhere">>>>]

MinerAnswers(p, expected) ==
  {Straight(p, expected)}
    \union {[content |-> c, attested |-> <<Statement(p, c)>>] : c \in Wrong(expected)}
    \union {[content |-> expected, attested |-> a] :
              a \in {<<>>, <<Misbound(p, expected)>>,
                     <<[Statement(p, expected) EXCEPT !.key = None]>>,
                     <<[Statement(p, expected) EXCEPT !.timely = FALSE]>>}}

Through(y) ==
  [late |-> FALSE, failure |-> None, pinned |-> TRUE, marker |-> TRUE,
   attested |-> y.attested, content |-> y.content, framed |-> TRUE, clean |-> TRUE]

\* A cached answer is one the same miner signed for an earlier request.
Earlier(p, y) ==
  [y EXCEPT !.attested = [i \in DOMAIN @ |-> [@[i] EXCEPT !.nonce = None]]]

Deliveries(p, y) ==
  LET x == Through(y) IN
  {x, [x EXCEPT !.late = TRUE], [x EXCEPT !.failure = "connection_failed"],
   [x EXCEPT !.failure = "timeout"], [x EXCEPT !.pinned = FALSE],
   [x EXCEPT !.marker = FALSE], [x EXCEPT !.attested = <<>>],
   [x EXCEPT !.attested = @ \o @], [x EXCEPT !.framed = FALSE],
   [x EXCEPT !.clean = FALSE], Through(Earlier(p, y))}
    \union {[x EXCEPT !.content = c] : c \in Wrong(y.content)}

(***************************************************************************)
(* The epoch.                                                              *)
(***************************************************************************)
StaticInit ==
  /\ framing \in BOOLEAN
  /\ documents \in Documents
  /\ planned \in {{p \in plan : TargetOf(p[1]) \in VerifiedTargets} : plan \in Plans}
  /\ due = planned
  /\ seen = {}
  /\ score = None
  /\ straight = Endpoints
  /\ liars = {}

\* An endpoint's probes lie in successive slices of the epoch.
FireStatic(e, k) ==
  /\ <<e, k>> \in due /\ \A d \in due : d[1] = e => k <= d[2]
  /\ \E q \in HiddenChoices(Manifest(e)) :
       \E expected \in {ExpectedOf(e, q).content} :
         LET p == SendStaticProbe(e, <<e, k>>, q) IN
         \E y \in MinerAnswers(p, expected) : \E x \in Deliveries(p, y) :
            /\ seen' = seen \union {EvaluateStaticProbe(p, x, expected)}
            /\ straight' = IF y = Straight(p, expected) THEN straight ELSE straight \ {e}
            /\ liars' = IF y.attested = <<Misbound(p, expected)>> THEN liars \union {e} ELSE liars
  /\ due' = due \ {<<e, k>>}
  /\ UNCHANGED <<framing, documents, planned, score>>

\* Too late after its instant, or past the end of the epoch: never sent.
SkipStatic(e, k) ==
  /\ <<e, k>> \in due /\ \A d \in due : d[1] = e => k <= d[2]
  /\ due' = due \ {<<e, k>>}
  /\ UNCHANGED <<framing, documents, planned, seen, score, straight, liars>>

SealStatic ==
  /\ due = {} /\ score = None
  /\ score' = ScoreStaticEpoch(seen)
  /\ UNCHANGED <<framing, documents, planned, due, seen, straight, liars>>

StaticNext ==
  \/ \E d \in due : FireStatic(d[1], d[2]) \/ SkipStatic(d[1], d[2])
  \/ SealStatic

StaticSpec == StaticInit /\ [][StaticNext]_svars

-----------------------------------------------------------------------------
Sealed == score \notin {None, Refused}

(***************************************************************************)
(* Whatever a replica's miner signs and whatever the path does to it, what *)
(* the evaluator recorded is evidence the scorer accepts: two              *)
(* implementations of the same checks (evaluate_static_probe against       *)
(* canonical_observation and _verify_observation) never disagree, which    *)
(* would throw the whole epoch away.                                       *)
(***************************************************************************)
EvidenceScorable == score # Refused

(***************************************************************************)
(* Only the guilty: an incarnation whose miner always served the indexed   *)
(* content and signed it truthfully is never the subject of an action, by  *)
(* any loss, replay, stripping or alteration on the path; and trust is     *)
(* zeroed only for a miner that signed a statement about something else.   *)
(***************************************************************************)
OnlyTheGuilty ==
  Sealed => \A a \in score.actions : /\ a.endpoint \notin straight
                                     /\ a.trust_zero => a.endpoint \in liars

(***************************************************************************)
(* "Colluding hotkeys cannot suppress their own faults": outside a shared  *)
(* outage, a content the miner signed and the index contradicts is charged *)
(* when a replica of the site answered the same request with the indexed   *)
(* content, or was not asked.                                              *)
(***************************************************************************)
FaultsStick ==
  Sealed /\ score.status # "common_mode_unavailable" =>
    \A o \in {x \in seen : x.code \in ContentFaults} :
      LET same == On(seen, TargetOf(o.endpoint), o.request) IN
      \/ \E a \in score.actions : a.endpoint = o.endpoint
      \/ /\ \A x \in same : x.code # "success"
         /\ {x.endpoint : x \in same} = TargetOf(o.endpoint).endpoints

(***************************************************************************)
(* Actions are just: none against an incarnation that did nothing wrong,   *)
(* and no way for the guilty to hide (_derive_static_epoch,                *)
(* _suspect_requests).                                                     *)
(***************************************************************************)
ActionsJust == OnlyTheGuilty /\ FaultsStick

=============================================================================
