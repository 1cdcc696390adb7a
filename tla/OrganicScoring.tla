--------------------------- MODULE OrganicScoring ---------------------------
(* From the answers to hidden probes to a weight plan: the judgement of one   *)
(* answer (organic_probe.py), the availability of an endpoint in an epoch and *)
(* of a miner in a window (organic_scoring.py), the decision to submit        *)
(* (validator_decision.py) and the plan it becomes (weight_plan.py).          *)
(* Pure operators.  A fraction is a pair <<numerator, denominator>>; the       *)
(* floating-point rounding of a plan's weights is abstracted to exact values.  *)
EXTENDS ManifestChain, Sequences

------------------------------------------------------------------------------
(* One answer.  An answer records whether it came in time, how the transport  *)
(* failed, and what the response carried.                                     *)

PathCodes == {"timeout", "transport_error", "connection_failed", "tls_pin_mismatch",
              "tls_certificate_invalid", "tls_handshake_failed", "edge_generated"}
ApplicationCodes == {"response_oversized", "unexpected_status", "marker_missing"}
MinerCodes == {"attestation_missing", "attestation_invalid", "attestation_fraud"}

Attribution(code) ==
    CASE code = "none" -> "none"
      [] code \in PathCodes -> "path"
      [] code \in ApplicationCodes -> "application"
      [] code \in MinerCodes -> "miner"

(* A transport that failed (a status outside 100..599 is a transport error);  *)
(* an oversized or timed-out one proves nothing of the upstream.              *)
TransportCode(failure) ==
    IF failure \in {"response_oversized", "timeout"} THEN "transport_error" ELSE failure

(* The signature first, then what it binds, then the bytes that arrived. *)
AttestationVerdict(answer) ==
    CASE ~answer.signed -> "signature_invalid"
      [] answer.signed /\ ~answer.bound -> "fraudulent"
      [] answer.signed /\ answer.bound /\ ~answer.matches -> "content_mismatch"
      [] OTHER -> "verified"

(* The checks of evaluate_organic_probe in their order: whether one fails and *)
(* the code it fails with.                                                    *)
Checks(answer) ==
    << <<answer.late, "timeout">>,
       <<answer.failure # "none", TransportCode(answer.failure)>>,
       <<~answer.pinned, "tls_pin_mismatch">>,
       <<~answer.marked, "edge_generated">>,
       <<answer.oversized, "response_oversized">>,
       <<answer.attestations = 0, "attestation_missing">>,
       <<answer.attestations # 1, "attestation_invalid">>,
       <<AttestationVerdict(answer) = "fraudulent", "attestation_fraud">>,
       <<AttestationVerdict(answer) # "verified", "attestation_invalid">>,
       <<~answer.expected, "unexpected_status">>,
       <<~answer.found, "marker_missing">> >>

FailureCode(answer) ==
    LET failing == {i \in DOMAIN Checks(answer) : Checks(answer)[i][1]}
    IN  IF failing = {} THEN "none" ELSE Checks(answer)[Min(failing)][2]

------------------------------------------------------------------------------
(* One epoch.  An observation names its endpoint (a replica of the manifest), *)
(* the manifest, the instant it was issued, its nonce and its code.           *)

(* The observation is one the manifest allows: a published incarnation, asked *)
(* inside the manifest's horizon.                                             *)
Published(o, m) ==
    /\ o.manifest = m.id
    /\ o.replica \in m.replicas
    /\ ValidAt(m, o.at)

(* score_organic_epoch accepts the observations; one bad one refuses all. *)
EpochAccepted(manifests, observations, epoch, ticks) ==
    /\ \A o \in observations :
          /\ o.at \div ticks = epoch
          /\ \E m \in manifests : Published(o, m)
    /\ \A o, p \in observations :
          /\ o # p => o.nonce # p.nonce
          /\ (o.replica.uid = p.replica.uid) = (o.replica.hotkey = p.replica.hotkey)

Sampled(observations) == {o.replica : o \in observations}
Attempts(observations, r) == {o \in observations : o.replica = r}
Attributed(observations, r, who) ==
    {o \in Attempts(observations, r) : Attribution(o.code) = who}

PathDown(observations) ==
    {r \in Sampled(observations) :
        Attributed(observations, r, "path") = Attempts(observations, r)}

(* More than half of the sampled endpoints saw only failures of the path. *)
CommonMode(observations) ==
    Cardinality(PathDown(observations)) * 2 > Cardinality(Sampled(observations))

(* Apps of which two replicas failed the customer's own predicate. *)
Inconclusive(observations) ==
    {r.app : r \in {q \in Sampled(observations) :
        Cardinality({p \in Sampled(observations) :
            p.app = q.app /\ Attributed(observations, p, "application") # {}}) >= 2}}

Eligible(observations, minAttempts) ==
    {r \in Sampled(observations) :
        /\ ~CommonMode(observations)
        /\ r.app \notin Inconclusive(observations)
        /\ Cardinality(Attempts(observations, r)) >= minAttempts}

Availability(observations, r) ==
    <<Cardinality(Attributed(observations, r, "none")),
      Cardinality(Attempts(observations, r))>>

(* The epoch counts as scored: it has an eligible endpoint. *)
Scored(observations, minAttempts) == Eligible(observations, minAttempts) # {}

------------------------------------------------------------------------------
(* One window: a set of sealed epoch records, each with its observations.     *)

AddFraction(f, g) == <<f[1] * g[2] + g[1] * f[2], f[2] * g[2]>>

(* The eligible endpoint-epochs of a miner over the records. *)
EndpointEpochs(records, uid, hotkey, minAttempts) ==
    {<<rec, r>> \in records \X UNION {Sampled(rec.obs) : rec \in records} :
        r \in Eligible(rec.obs, minAttempts) /\ r.uid = uid /\ r.hotkey = hotkey}

(* The mean availability of a miner that has an eligible endpoint-epoch. *)
MeanAvailability(records, uid, hotkey, minAttempts) ==
    LET all == EndpointEpochs(records, uid, hotkey, minAttempts)
        sum == FoldSet(LAMBDA x, acc : AddFraction(Availability(x[1].obs, x[2]), acc),
                       <<0, 1>>, all)
    IN  <<sum[1], sum[2] * Cardinality(all)>>

(* Attestation fraud in any record, of an eligible endpoint or not. *)
Fraudulent(records, hotkey) ==
    \E rec \in records : \E o \in rec.obs :
        o.replica.hotkey = hotkey /\ o.code = "attestation_fraud"

(* One miner identity in all records; a conflict refuses the window. *)
WindowAccepted(records) ==
    /\ \A a, b \in records : a.epoch = b.epoch => a = b
    /\ \A a, b \in UNION {Sampled(rec.obs) : rec \in records} :
          (a.uid = b.uid) = (a.hotkey = b.hotkey)

------------------------------------------------------------------------------
(* The decision.  A view is a finalized metagraph: its block, epoch and       *)
(* neurons; a row judges one registered miner.                                *)

(* Every active neuron other than the validator. *)
WeightTargets(view, validator) ==
    {n \in view.neurons : n.hotkey # validator /\ n.active}

(* Mutant: fraud evidence does not cost the miner its weight. *)
RowForgiving(n, records, minAttempts) ==
    LET scored == EndpointEpochs(records, n.uid, n.hotkey, minAttempts) # {}
    IN  [uid |-> n.uid, hotkey |-> n.hotkey, class |-> IF scored THEN "scored" ELSE "unscored",
         weight |-> IF scored
                    THEN MeanAvailability(records, n.uid, n.hotkey, minAttempts) ELSE <<0, 1>>]

Row(n, records, minAttempts) ==
    LET scored == EndpointEpochs(records, n.uid, n.hotkey, minAttempts) # {}
        class == IF ~scored THEN "unscored"
                 ELSE IF Fraudulent(records, n.hotkey) THEN "fraud_evidence" ELSE "scored"
    IN  [uid |-> n.uid, hotkey |-> n.hotkey, class |-> class,
         weight |-> IF class = "scored"
                    THEN MeanAvailability(records, n.uid, n.hotkey, minAttempts) ELSE <<0, 1>>]

Rows(view, validator, records, minAttempts) ==
    {Row(n, records, minAttempts) : n \in WeightTargets(view, validator)}

Positive(rows) == {row \in rows : row.weight[1] > 0}

(* The registered view is too old, too new or on another fork. *)
Unbound(view, m, maxGap) ==
    \/ view.height < m.height
    \/ view.height - m.height > maxGap
    \/ view.fepoch < m.fepoch
    \/ view.height = m.height /\ (view.hash # m.hash \/ view.fepoch # m.fepoch)

(* Why the window must not become weights; none means submit. *)
AbstainReasons(terminal, at, end, policy, view, records, rows, limits) ==
    LET verified == terminal.status = "verified"
        m == terminal.manifest
    IN  {r \in {"unavailable", "rejected"} : terminal.status = r}
        \cup (IF verified /\ end >= EffectiveExpiry(m) THEN {"stale"} ELSE {})
        \cup (IF verified /\ ~(PolicyAdmission(m, policy, at) /\ Identities(m))
              THEN {"policy_rejected"} ELSE {})
        \cup (IF verified /\ Unbound(view, m, limits.gap) THEN {"unbound"} ELSE {})
        \cup (IF Cardinality({rec \in records : Scored(rec.obs, limits.attempts)})
                    < limits.scored THEN {"insufficient"} ELSE {})
        \cup (IF Positive(rows) = {} THEN {"no_positive"} ELSE {})

(* build_weight_plan_from_decision accepts: the validator has a permit and    *)
(* the rows are exactly the targets of the view.                              *)
PlanAccepted(view, validator, rows) ==
    /\ \E n \in view.neurons : n.hotkey = validator /\ n.active /\ n.permit
    /\ {[uid |-> row.uid, hotkey |-> row.hotkey] : row \in rows}
          = {[uid |-> n.uid, hotkey |-> n.hotkey] : n \in WeightTargets(view, validator)}
    /\ Positive(rows) # {}

(* Positive rows, each divided by their total. *)
Normalized(rows) ==
    LET total == FoldSet(LAMBDA row, acc : AddFraction(row.weight, acc), <<0, 1>>,
                         Positive(rows))
    IN  {[uid |-> row.uid, hotkey |-> row.hotkey,
          weight |-> <<row.weight[1] * total[2], row.weight[2] * total[1]>>] :
            row \in Positive(rows)}

(* A plan expires within a quarter of a tempo and before the next epoch. *)
ExpiryLimit(block, tempo) ==
    Min({block + Max({1, tempo \div 4}), ((block \div tempo) + 1) * tempo})

PlanOf(view, rows) ==
    [block |-> view.height, expires |-> ExpiryLimit(view.height, view.tempo),
     weights |-> Normalized(rows)]

=============================================================================
