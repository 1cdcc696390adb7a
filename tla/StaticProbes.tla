---------------------------- MODULE StaticProbes ----------------------------
(***************************************************************************)
(* How a validator judges one response of a static site                    *)
(* (static_index.py, static_probe.py): which index documents it accepts,   *)
(* what the index says each request must be answered with, which requests  *)
(* it plans, and the verdict on what came back.                            *)
(*                                                                         *)
(* A path is its sequence of segments, the last one empty for a directory. *)
(* A content is the triple every check compares: status, body digest and   *)
(* the digest of the normative headers.  An attestation is the miner's     *)
(* signed statement: the key it verifies under, the probe nonce it         *)
(* answers, the incarnation and request it names, whether its instant is   *)
(* within the allowed skew, and the content it vouches for.                *)
(***************************************************************************)
EXTENDS Integers, Sequences, SequencesExt, FiniteSets, FiniteSetsExt

CONSTANTS None,
          Dotted,       \* the segments with a "." in them
          Ceiling,      \* largest body a hidden probe fetches
          MaxSiteBytes, \* largest total size of a site
          ReleaseKeys,  \* pinned release keys, [id, from, until]
          ServerPin     \* pinned server implementation

VARIABLE framing        \* TRUE: judged under the public-framing policy

Root == <<"">>
IndexDocument == "index.html"
AbsentPath == <<"0f.absent">>        \* the synthetic paths, never a route
Unlisted == <<"0f">>

(***************************************************************************)
(* The index.                                                              *)
(***************************************************************************)
WholeManifest(m) ==
  /\ \A f, g \in m.files : f.path = g.path => f = g
  /\ \A f, g \in m.files : f # g => ~IsPrefix(f.path, g.path)
  /\ MapThenSumSet(LAMBDA f : f.length, m.files) <= MaxSiteBytes
  /\ \E f \in m.files : f.path = <<IndexDocument>>
  /\ m.fallback # None => \E f \in m.files : f.path = m.fallback /\ f.type = "html"

ReleaseVerdict(r) ==
  LET keys == {k \in ReleaseKeys : k.id = r.signer} IN
  IF keys = {} THEN "signer_untrusted"
  ELSE IF \A k \in keys : ~(k.from <= r.issued /\ r.issued < k.until)
       THEN "signer_outside_validity"
  ELSE IF ~r.signed THEN "signature_invalid"
  ELSE "verified"

\* m and r are the stored objects that were fetched: their digest, and what
\* they parse to (None when they are not canonical documents of the schema).
IngestStaticIndex(t, m, r) ==
  IF m = None THEN "index_unavailable"
  ELSE IF r = None THEN "release_unavailable"
  ELSE IF m.oversized THEN "index_oversized"
  ELSE IF m.digest # t.site THEN "site_digest_mismatch"
  ELSE IF r.digest # t.release THEN "release_digest_mismatch"
  ELSE IF m.manifest = None \/ ~WholeManifest(m.manifest) THEN "index_invalid"
  ELSE IF r.doc = None THEN "release_invalid"
  ELSE IF r.doc.site # t.site THEN "release_binding_mismatch"
  ELSE IF ReleaseVerdict(r.doc) # "verified" THEN ReleaseVerdict(r.doc)
  ELSE IF ~r.doc.implemented THEN "producer_policy_unsupported"
  ELSE IF ~(r.doc.server = t.server /\ t.server = ServerPin)
       THEN "server_implementation_mismatch"
  ELSE "verified"

Base(path) == Front(path) \o <<"">>
Routes(m) == {f.path : f \in m.files}
               \union {Base(f.path) : f \in {g \in m.files : Last(g.path) = IndexDocument}}
RouteFile(m, path) ==
  CHOOSE f \in m.files :
    \/ f.path = path
    \/ Last(f.path) = IndexDocument /\ Base(f.path) = path

Response(kind, status, f, method) ==
  [kind |-> kind, length |-> f.length,
   content |-> [status |-> status, header |-> <<f.type, f.length>>,
                body |-> IF method = "GET" THEN f.body ELSE "empty"]]
NotFound == [body |-> "Not Found", length |-> 1, type |-> "text"]

ExpectedStaticResponse(m, method, path) ==
  IF path \in Routes(m)
  THEN LET f == RouteFile(m, path) IN
       Response(IF f.path = path THEN "file" ELSE "directory_index", 200, f, method)
  ELSE IF m.fallback # None /\ Last(path) \notin Dotted
  THEN Response("navigation_fallback", 200, RouteFile(m, m.fallback), method)
  ELSE Response("not_found", 404, NotFound, method)

(***************************************************************************)
(* The hidden plan.  The choice of a request comes from an HMAC under the  *)
(* validator's seed: any choice.                                           *)
(***************************************************************************)
HiddenChoices(m) ==
  {<<IF ExpectedStaticResponse(m, "GET", path).length <= Ceiling THEN "GET" ELSE "HEAD", path>> :
     path \in Routes(m) \union {AbsentPath, Unlisted}}

(***************************************************************************)
(* The verdict on one response.  p is the probe: incarnation, nonce and    *)
(* request; x what the transport returned: whether it was too late, its    *)
(* failure, whether the leaf is pinned, whether the upstream marker is     *)
(* present, the attestations, the content, whether the framing (and the    *)
(* length) are those expected, and whether no forbidden header was added.  *)
(***************************************************************************)
\* The one-time authorization of a request, and what a response is judged against.
SendStaticProbe(e, n, q) == [endpoint |-> e, nonce |-> n, request |-> q]

ContentFaults == {"body_mismatch", "header_mismatch", "status_mismatch"}
MinerCodes == ContentFaults
                \union {"attestation_fraud", "attestation_invalid", "attestation_missing"}
StaticFailureAttribution(code) ==
  IF code = "success" THEN "none" ELSE IF code \in MinerCodes THEN "miner" ELSE "path"

Bound(a, p) == a.endpoint = p.endpoint /\ a.request = p.request

\* What the statement vouches for is what arrived; under public framing the
\* headers are the edge's and are left out.
Vouches(a, c) ==
  /\ a.content.status = c.status
  /\ a.content.body = c.body
  /\ framing \/ a.content.header = c.header

ContentCode(a, x, expected) ==
  IF framing /\ a.content.header # expected.header THEN "content_altered_in_transit"
  ELSE IF x.content.status # expected.status THEN "status_mismatch"
  ELSE IF x.content.body # expected.body THEN "body_mismatch"
  ELSE IF framing THEN IF x.framed THEN "success" ELSE "content_altered_in_transit"
  ELSE IF x.content.header # expected.header THEN "header_mismatch"
  ELSE IF ~x.clean THEN "forbidden_header"
  ELSE "success"

\* <<failure code, attestation status>> in the order of the checks.
Verdict(p, x, expected) ==
  IF x.late THEN <<"timeout", "not_presented">>
  ELSE IF x.failure # None
  THEN <<IF x.failure = "timeout" THEN "transport_error" ELSE x.failure, "not_presented">>
  ELSE IF ~x.pinned THEN <<"tls_pin_mismatch", "not_presented">>
  ELSE IF ~x.marker THEN <<"edge_generated", "not_presented">>
  ELSE IF x.attested = <<>> THEN <<"attestation_missing", "not_presented">>
  ELSE IF Len(x.attested) # 1 \/ x.attested[1].key # p.endpoint
  THEN <<"attestation_invalid", "rejected">>
  ELSE LET a == x.attested[1] IN
       IF a.nonce # p.nonce THEN <<"cache_replay", "replayed">>
       ELSE IF ~Bound(a, p) THEN <<"attestation_fraud", "fraudulent">>
       ELSE IF ~a.timely THEN <<"attestation_invalid", "rejected">>
       ELSE IF ~Vouches(a, x.content) THEN <<"content_altered_in_transit", "rejected">>
       ELSE <<ContentCode(a, x, expected), "verified">>

Answered(x) == ~x.late /\ x.failure = None

\* The sealed observation: the attestation is kept unless it was rejected.
EvaluateStaticProbe(p, x, expected) ==
  LET v == Verdict(p, x, expected) IN
  [endpoint |-> p.endpoint, nonce |-> p.nonce, request |-> p.request,
   expected |-> expected, code |-> v[1], status |-> v[2],
   marker |-> Answered(x) /\ x.pinned /\ x.marker,
   content |-> IF Answered(x) THEN x.content ELSE None,
   framed |-> framing /\ Answered(x) /\ x.framed,
   attestation |-> IF v[2] \in {"fraudulent", "replayed", "verified"}
                   THEN x.attested[1] ELSE None]

\* What makes a stored observation consistent with itself.
ProvedFault(o) ==
  /\ o.status = "verified"
  /\ o.attestation.content.header = o.expected.header
  /\ o.code # "header_mismatch"
  /\ o.code = "status_mismatch" => o.content.status # o.expected.status
  /\ o.code = "body_mismatch" => /\ o.content.status = o.expected.status
                                 /\ o.content.body # o.expected.body

CanonicalObservation(o) ==
  /\ o.code = "success" =>
       /\ o.marker
       /\ o.status = "verified"
       /\ o.content.status = o.expected.status
       /\ o.content.body = o.expected.body
       /\ IF framing THEN o.framed /\ o.attestation.content.header = o.expected.header
                     ELSE o.content.header = o.expected.header
  /\ (o.status \in {"fraudulent", "replayed", "verified"}) = (o.attestation # None)
  /\ (o.status = "fraudulent") = (o.code = "attestation_fraud")
  /\ o.status = "verified" => /\ o.attestation.endpoint = o.endpoint
                              /\ o.attestation.nonce = o.nonce
                              /\ Vouches(o.attestation, o.content)
  /\ framing /\ o.code \in ContentFaults => ProvedFault(o)
  /\ StaticFailureAttribution(o.code) = "miner" => o.marker

=============================================================================
