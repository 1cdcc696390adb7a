---------------------------- MODULE ManifestChain ----------------------------
(* The verification of a published assignment manifest and the append-only    *)
(* acceptance state it advances (assignment_probe.py, organic_manifest.py).   *)
(* Pure operators: a manifest is a record of its header, its replicas and the *)
(* keys that signed it; a digest is the manifest's identity `id`; the schema, *)
(* the codec and the signature bytes are abstracted to being accepted.        *)
EXTENDS Integers, FiniteSets, FiniteSetsExt

(* No manifest has been accepted: build_initial_manifest_chain_state. *)
InitialState(policy) ==
    [count |-> 0, seq |-> 0, height |-> 0, hash |-> "none", fepoch |-> 0,
     issued |-> 0, digest |-> "none", policy |-> policy.id]

(* The manifest's own expiry or its earliest replica lease. *)
EffectiveExpiry(m) == Min({m.expires} \cup {r.expires : r \in m.replicas})

ValidAt(m, t) == m.issued <= t /\ t < EffectiveExpiry(m)

PolicyBinding(m, policy, t) ==
    /\ m.policy = policy.id
    /\ policy.from <= t /\ t < policy.until
    /\ policy.from <= m.issued /\ m.expires <= policy.until
    /\ m.expires - m.issued <= policy.lifetime
    /\ m.issued <= t + policy.skew

PolicyAdmission(m, policy, t) ==
    /\ PolicyBinding(m, policy, t)
    /\ t - m.issued <= policy.age

(* No nonce twice, no replica from the future, one identity per miner. *)
Identities(m) ==
    /\ \A r \in m.replicas : r.activated <= m.issued
    /\ \A r, q \in m.replicas :
          /\ r # q => r.nonce # q.nonce
          /\ (r.uid = q.uid) = (r.hotkey = q.hotkey)
          /\ r.uid = q.uid => r.key = q.key

(* Every envelope must verify; then the threshold and the roles are counted. *)
Signatures(m, policy, t) ==
    /\ m.signers # {} /\ m.signers \subseteq DOMAIN policy.keys
    /\ \A k \in m.signers :
          /\ policy.keys[k].from <= m.issued
          /\ m.expires <= policy.keys[k].until /\ t < policy.keys[k].until
          /\ t < policy.keys[k].revoked
    /\ Cardinality(m.signers) >= policy.threshold
    /\ policy.roles \subseteq UNION {policy.keys[k].roles : k \in m.signers}

(* Everything of _verify_live that does not look at the chain state. *)
Live(m, policy, t, height) ==
    /\ PolicyAdmission(m, policy, t)
    /\ Identities(m)
    /\ t < EffectiveExpiry(m)
    /\ \A r \in m.replicas : height < r.block
    /\ Signatures(m, policy, t)

(* The manifest is the one already accepted last: the state stays. *)
Reprobe(state, m) ==
    state.count > 0 /\ m.seq = state.seq /\ m.id = state.digest

(* The manifest extends the state: a first manifest, or a direct successor    *)
(* whose finalized view does not go back, jump or fork.                       *)
Extends(state, m, policy) ==
    IF state.count = 0 THEN m.seq = 1 /\ m.prev = "none"
    ELSE /\ m.seq > state.seq /\ m.seq - state.seq <= policy.seqGap
         /\ m.prev = state.digest
         /\ m.height >= state.height
         /\ m.height - state.height <= policy.heightGap
         /\ m.height = state.height =>
               m.hash = state.hash /\ m.fepoch = state.fepoch
         /\ m.fepoch >= state.fepoch
         /\ m.issued >= state.issued

(* advance_manifest_header_chain_state would not reject the manifest. *)
Advances(state, m, policy) ==
    /\ state.policy = m.policy /\ state.policy = policy.id
    /\ Reprobe(state, m) \/ Extends(state, m, policy)

Advanced(state, m) ==
    IF Reprobe(state, m) THEN state
    ELSE [count |-> state.count + 1, seq |-> m.seq, height |-> m.height,
          hash |-> m.hash, fepoch |-> m.fepoch, issued |-> m.issued,
          digest |-> m.id, policy |-> state.policy]

Verified(m, policy, state, t, height) ==
    Live(m, policy, t, height) /\ Advances(state, m, policy)

(* The synthetic predecessor a validator without history verifies against. *)
Predecessor(m, state) ==
    [state EXCEPT !.count = 1, !.seq = m.seq - 1, !.height = m.height,
                  !.hash = m.hash, !.fepoch = m.fepoch, !.issued = m.issued,
                  !.digest = m.prev]

AnchorPrior(m, state) == IF m.seq = 1 THEN state ELSE Predecessor(m, state)

(* Onboarding on the current head at any sequence, from a genesis state. *)
Anchored(m, policy, state, t, height) ==
    state.count = 0 /\ Verified(m, policy, AnchorPrior(m, state), t, height)

(* The state after onboarding counts one accepted manifest. *)
AnchoredState(m, state) ==
    IF m.seq = 1 THEN Advanced(state, m)
    ELSE [Predecessor(m, state) EXCEPT !.seq = m.seq, !.digest = m.id]

=============================================================================
