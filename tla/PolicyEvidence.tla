--------------------------- MODULE PolicyEvidence ---------------------------
(***************************************************************************)
(* The adapters that normalise outside evidence for the final policy       *)
(* engine: wsqk_v2_policy_evidence.py with the issuer it calls,            *)
(* qid_policy_binding.py, adaptive_core_policy_evidence.py, and the two    *)
(* consumers of AI Gateway evidence, ai_gateway_policy_evidence.py (V1)    *)
(* and ai_gateway_policy_bound_evidence_v2.py (V2).                        *)
(*                                                                         *)
(* A rejection is the reason_id of the denial.  The state enumerations     *)
(* only refine it and nothing reads them; they are left out.  A text is a  *)
(* name, a hash is the value it is computed over, and what can be wrong    *)
(* with the shape of an object is a flag per check it fails.               *)
(***************************************************************************)
EXTENDS Evidence, TvaGate, FinalPolicyEngine

-----------------------------------------------------------------------------
(* Results.  authority holds the WSQK authority a result shows, if any.    *)

Denied(reasons) ==
  [outcome |-> "DENY", shape |-> "object", reason |-> Head(reasons),
   dominant |-> reasons, context |-> NoContext, authority |-> <<>>]

Accepted(context) ==
  [outcome |-> "ALLOW_EVIDENCE", shape |-> "object", reason |-> "EVIDENCE_OK",
   dominant |-> <<"EVIDENCE_OK">>, context |-> context, authority |-> <<>>]

Judged(rejection, context) ==
  IF rejection = OK THEN Accepted(context) ELSE Denied(<<rejection>>)

AcceptedAsEvidence(e) == e.outcome = "ALLOW_EVIDENCE"

(* What a host tells of the gates before: told.kind is "none", "list" or   *)
(* "iterator", told.results a sequence of results.  A result of another    *)
(* boundary may be a "dict" or another "mapping", and have no outcome.     *)

NoOutcome == "no outcome"

\* The members of s at the places of I, in order.
Picked(s, I) ==
  LET Place(k) == CHOOSE i \in I : Cardinality({j \in I : j <= i}) = k
  IN  [k \in 1..Cardinality(I) |-> s[Place(k)]]

\* _extract_earlier_denies, as far as both versions of it agree: the reasons of
\* the denials, in order.
EarlierDenies(told) ==
  LET denied == Picked(told.results,
                       {i \in DOMAIN told.results : told.results[i].outcome = "DENY"})
  IN  [i \in DOMAIN denied |->
         IF denied[i].reason = Blank THEN "DENY_POLICY" ELSE denied[i].reason]

\* Mutant: the latest denial comes first.
UnlessDeniedBeforeLatest(told, judged) ==
  IF EarlierDenies(told) # <<>> THEN Denied(Reverse(EarlierDenies(told))) ELSE judged

\* A denial of an earlier gate ends the evaluation of a later one.
UnlessDeniedBefore(told, judged) ==
  IF EarlierDenies(told) # <<>> THEN Denied(EarlierDenies(told)) ELSE judged

-----------------------------------------------------------------------------
(* WSQK v2.  An input w has kind "authority", "request", "missing_field",  *)
(* "invalid_field" or "other"; w.request is what to issue, w.authority an  *)
(* authority as in TvaGate, of kind "v2" if its contract version is.       *)

AllowedPostures == {"classical_only", "hybrid_required", "pqc_required"}

\* issue_wsqk_authority_v2: why it refuses to issue.
IssueRejection(i) ==
  FirstRejection(<<
    Reject("WSQK_MISSING_WALLET_ID", Strip(i.wallet) = Blank),
    Reject("WSQK_MISSING_ACTION", Strip(i.action) = Blank),
    Reject("WSQK_MISSING_CONTEXT_HASH", i.context = NoContext),
    Reject("WSQK_MISSING_NOW", i.unreadable = "now"),
    Reject("WSQK_INVALID_TTL", i.unreadable = "ttl" \/ i.ttl <= 0),
    Reject("WSQK_INVALID_NONCE", Strip(i.nonce) = Blank),
    Reject("WSQK_V2_INVALID_QUANTUM_POSTURE", Strip(i.posture) \notin AllowedPostures),
    FamiliesRejection(i.families) >>)

\* Mutant: the names are stripped to be checked, and issued as they came.
IssuedAuthorityUnstripped(i) ==
  LET a == [kind |-> "v2", wallet |-> i.wallet, action |-> i.action,
            context |-> i.context, issued_at |-> i.now, expires_at |-> i.now + i.ttl,
            nonce |-> i.nonce, families |-> i.families, posture |-> i.posture,
            binding |-> NoContext]
  IN  [a EXCEPT !.binding = WsqkBinding(a)]

\* The families as sorted() puts them.
FamilyOrder == <<"classical_signature", "pqc_signature", "qid_hybrid">>

\* issue_wsqk_authority_v2: what it issues.
IssuedAuthority(i) ==
  LET a == [kind |-> "v2", wallet |-> Strip(i.wallet), action |-> Strip(i.action),
            context |-> i.context, issued_at |-> i.now, expires_at |-> i.now + i.ttl,
            nonce |-> Strip(i.nonce),
            families |-> Picked(FamilyOrder,
                                {k \in 1..3 : FamilyOrder[k] \in CanonicalFamilies(i.families)}),
            posture |-> Strip(i.posture), binding |-> NoContext]
  IN  [a EXCEPT !.binding = WsqkBinding(a)]

\* normalize_wsqk_v2_policy_evidence once it has an authority.  Neither the time
\* window nor the nonce is looked at, nor whether the posture is a known one.
AuthorityRejection(a, r, expected) ==
  FirstRejection(<<
    Reject("DENY_WSQK", a.kind # "v2"),
    Reject("TVA_AUTHORITY_WALLET_MISMATCH", a.wallet # r.wallet),
    Reject("TVA_AUTHORITY_ACTION_MISMATCH", a.action # r.action),
    Reject("TVA_AUTHORITY_CONTEXT_HASH_MISMATCH", a.context # expected),
    FamiliesRejection(a.families),
    Reject("TVA_WSQK_V2_PROOF_BINDINGS_HASH_MISMATCH", a.binding # WsqkBinding(a)) >>)

JudgedAuthority(a, r, expected) ==
  [Judged(AuthorityRejection(a, r, expected), a.context) EXCEPT !.authority = <<a>>]

UnreadableAuthority ==
  [missing_field |-> "WSQK_V2_AUTHORITY_MAPPING_MISSING_FIELD",
   invalid_field |-> "WSQK_V2_AUTHORITY_MAPPING_INVALID_FIELD",
   other         |-> "DENY_WSQK"]

\* normalize_wsqk_v2_policy_evidence.  A mapping that has the fields of a request
\* is one, whatever else it holds.
WsqkEvidence(w, r, expected) ==
  CASE w.kind = "authority" -> JudgedAuthority(w.authority, r, expected)
    [] w.kind = "request"   -> IF IssueRejection(w.request) # OK
                               THEN Denied(<<IssueRejection(w.request)>>)
                               ELSE JudgedAuthority(IssuedAuthority(w.request), r, expected)
    [] OTHER                -> Denied(<<UnreadableAuthority[w.kind]>>)

-----------------------------------------------------------------------------
(* Q-ID.  An input q is a session as in Evidence inside an object that     *)
(* claims a posture: posture_shape is "given" if it is two booleans.       *)

\* Mutant: hybrid asks for no more than pqc does.
QidBindingRejectionOfPqc(posture, q) ==
  Reject("WSQK_QID_POSTURE_MISMATCH",
         posture \in {"hybrid_required", "pqc_required"} /\ ~q.pqc)

\* validate_qid_binding.  Any other name of a posture asks for nothing.
QidBindingRejection(posture, q) ==
  FirstRejection(<<
    Reject("WSQK_QID_HYBRID_REQUIRED",
           posture = "hybrid_required" /\ ~(q.classical /\ q.pqc)),
    Reject("WSQK_QID_POSTURE_MISMATCH", posture = "pqc_required" /\ ~q.pqc) >>)

\* normalize_qid_policy_binding, with what the host expects.
QidRejection(q, now, expected) ==
  FirstRejection(<<
    Reject("EQC_INVALID_QID_PROOF", ~q.is_object),
    Reject("DENY_ADAPTER_INVALID", q.hidden_authority),
    Reject("EQC_MISSING_QID_SESSION", ~q.has_session),
    Reject("WSQK_QID_BINDING_INVALID", q.posture_shape # "given"),
    QidBindingRejection(expected.posture, q),
    SessionRejection(q, now),
    Reject("QID_REPLAY_SUBJECT_MISMATCH", q.subject # expected.subject),
    Reject("EQC_QID_CONTEXT_HASH_MISMATCH",
           expected.context = NoContext \/ q.context # expected.context),
    ReplayProofRejectionOn(expected.device, q, expected.wallet, expected.nonce) >>)

\* The result names no context of its own.
QidEvidence(q, now, expected) == Judged(QidRejection(q, now, expected), NoContext)

-----------------------------------------------------------------------------
(* Adaptive Core.  An input o is a report as in Evidence: a "payload" to   *)
(* parse, an "oracle" or a "report" that was parsed before, or "other".    *)

IsOracle(o) == o.kind = "oracle" \/ (o.kind = "payload" /\ ~o.wrong_version)

\* _report_from_input.  A payload of any other interface than the oracle's is a
\* risk report, and a risk report has no window.
ReportFromInputRejection(o, now, expected, policy) ==
  CASE o.kind = "oracle"  -> Reject("EQC_INVALID_RISK_REPORT",
                                    o.expires_at < o.issued_at \/ ReportInvalid(o, now))
    [] o.kind = "report"  -> Reject("EQC_INVALID_RISK_REPORT", ReportInvalid(o, now))
    [] o.kind = "payload" -> IF IsOracle(o) THEN OracleRejection(o, now, expected, policy)
                                            ELSE ReportRejection(o, now, expected, policy)
    [] OTHER              -> "EQC_INVALID_RISK_REPORT"

\* Mutant: whose context it is, is left to the parser.
AdaptiveCoreRejectionOfParser(o, now, expected, policy) ==
  FirstRejection(<<
    Reject("DENY_POLICY", ~policy.valid),
    Reject("DENY_ADAPTER_INVALID", o.kind = "payload" /\ o.hidden_authority),
    Reject("EQC_RISK_CONTEXT_HASH_MISMATCH", expected = BadContext),
    ReportFromInputRejection(o, now, expected, policy),
    Reject("EQC_INVALID_RISK_REPORT",
           IsOracle(o) /\ (o.issued_at > now \/ o.expires_at < now)),
    Reject("EQC_RISK_SCORE_BELOW_THRESHOLD", o.score < policy.min_score) >>)

AdaptiveCoreRejection(o, now, expected, policy) ==
  FirstRejection(<<
    Reject("DENY_POLICY", ~policy.valid),
    Reject("DENY_ADAPTER_INVALID", o.kind = "payload" /\ o.hidden_authority),
    Reject("EQC_RISK_CONTEXT_HASH_MISMATCH", expected = BadContext),
    Reject("EQC_RISK_CONTEXT_HASH_MISMATCH",
           \/ o.context = BadContext
           \/ o.kind \in {"oracle", "report"} /\ o.context = NoContext),
    ReportFromInputRejection(o, now, expected, policy),
    Reject("EQC_RISK_CONTEXT_HASH_MISMATCH", o.context # expected),
    Reject("EQC_INVALID_RISK_REPORT",
           IsOracle(o) /\ (o.issued_at > now \/ o.expires_at < now)),
    Reject("EQC_RISK_SCORE_BELOW_THRESHOLD", o.score < policy.min_score) >>)

\* normalize_adaptive_core_policy_evidence
AdaptiveCoreEvidence(o, now, expected, policy, told) ==
  UnlessDeniedBefore(told,
    Judged(AdaptiveCoreRejection(o, now, expected, policy), o.context))

-----------------------------------------------------------------------------
(* AI Gateway.  Evidence g holds a handoff, a receipt and the policy       *)
(* binding that seals both.                                                *)

GatewayDecisions == {"accepted", "rejected"}

GatewayReasons ==
  {"ADAPTER_NOT_REGISTERED", "ADAPTER_VALIDATION_FAILED", "CANONICALIZATION_FAILED",
   "HASHING_FAILED", "INTERNAL_ERROR", "INVALID_ENVELOPE", "INVALID_OUTPUT",
   "MISSING_REQUIRED_FIELD", "NON_DETERMINISTIC_OUTPUT", "POLICY_DENIED",
   "SCHEMA_VIOLATION", "UNSUPPORTED_MODEL", "UNSUPPORTED_TASK"}

IsBlank(name) == Strip(name) = Blank

\* _validate_handoff_shape of V1.  A missing handoff, raw AI output and anything
\* that is no mapping are other kinds.
HandoffRejection(h, expected) ==
  FirstRejection(<<
    Reject("DENY_ADAPTER_INVALID", h.kind # "mapping" \/ h.hidden_authority),
    Reject("DENY_UNKNOWN_FIELD", h.unknown_field),
    Reject("DENY_SCHEMA_INVALID", h.missing_field),
    Reject("DENY_VERSION_MISMATCH", h.foreign_version),
    Reject("DENY_POLICY", h.decision \notin GatewayDecisions),
    Reject("DENY_SCHEMA_INVALID",
           IsBlank(h.adapter) \/ IsBlank(h.task_type) \/ IsBlank(h.reason)),
    Reject("DENY_ADAPTER_INVALID", BadContext \in {h.envelope, h.output, h.context}),
    Reject("DENY_POLICY", h.context # expected) >>)

\* _validate_receipt_shape of V1
GatewayReceiptRejection(r) ==
  FirstRejection(<<
    Reject("DENY_ADAPTER_INVALID", r.kind # "mapping" \/ r.hidden_authority),
    Reject("DENY_UNKNOWN_FIELD", r.unknown_field),
    Reject("DENY_SCHEMA_INVALID", r.missing_field),
    Reject("DENY_VERSION_MISMATCH", r.foreign_version \/ r.foreign_contract),
    Reject("DENY_ADAPTER_INVALID", r.foreign_profile),
    Reject("DENY_POLICY", r.decision \notin GatewayDecisions),
    Reject("DENY_SCHEMA_INVALID",
           \/ IsBlank(r.gateway_version) \/ IsBlank(r.adapter)
           \/ IsBlank(r.adapter_version) \/ IsBlank(r.reason)),
    Reject("DENY_ADAPTER_INVALID", BadContext \in {r.envelope, r.output}) >>)

\* _receipt_matches_handoff
ReceiptMatchesHandoff(h, r) ==
  /\ r.adapter = h.adapter
  /\ r.envelope = h.envelope
  /\ r.output = h.output
  /\ r.decision = h.decision
  /\ r.reason = h.reason

GatewayRejection(g, expected) ==
  FirstRejection(<<
    Reject("DENY_POLICY", expected = BadContext),
    HandoffRejection(g.handoff, expected),
    GatewayReceiptRejection(g.receipt),
    Reject("DENY_ADAPTER_INVALID", ~ReceiptMatchesHandoff(g.handoff, g.receipt)),
    Reject(g.handoff.reason, g.handoff.decision = "rejected") >>)

\* normalize_ai_gateway_policy_evidence
GatewayEvidence(g, expected, told) ==
  UnlessDeniedBefore(told, Judged(GatewayRejection(g, expected), g.handoff.context))

-----------------------------------------------------------------------------
(* V2: the same artifacts, in exact bytes, sealed and bound to a policy.   *)

\* _extract_earlier_denies of V2 raises: a result it does not understand is no
\* permission to go on.
Misunderstood(told) ==
  \/ told.kind = "iterator"
  \/ \E i \in DOMAIN told.results :
       \/ told.results[i].shape = "mapping"
       \/ told.results[i].outcome \notin {"DENY", "ALLOW_EVIDENCE"}

\* parse_ai_gateway_json_v1: what the bytes turn out to be, and the reason for it.
WireReason ==
  [json |-> OK, not_bytes |-> "DENY_ADAPTER_INVALID",
   duplicate_key |-> "DENY_SCHEMA_INVALID", resource_limit |-> "DENY_ADAPTER_INVALID",
   malformed |-> "DENY_SCHEMA_INVALID", not_object |-> "DENY_SCHEMA_INVALID"]

\* _validate_reason_semantics
ReasonRejection(decision, reason) ==
  Reject("DENY_POLICY",
         \/ decision \notin GatewayDecisions \/ IsBlank(reason)
         \/ decision = "accepted" /\ reason # "ACCEPTED"
         \/ decision = "rejected" /\ reason \notin GatewayReasons)

\* _require_exact_object
ObjectRejection(x) ==
  FirstRejection(<<
    Reject("DENY_SCHEMA_INVALID", x.kind \notin {"mapping", "raw_output"}),
    Reject("DENY_UNKNOWN_FIELD", x.kind = "raw_output" \/ x.unknown_field),
    Reject("DENY_SCHEMA_INVALID", x.missing_field) >>)

\* _validate_handoff
BoundHandoffRejection(h) ==
  FirstRejection(<<
    ObjectRejection(h),
    Reject("DENY_VERSION_MISMATCH", h.foreign_version),
    Reject("DENY_SCHEMA_INVALID", IsBlank(h.adapter) \/ IsBlank(h.task_type)),
    ReasonRejection(h.decision, h.reason),
    Reject("DENY_ADAPTER_INVALID", BadContext \in {h.envelope, h.output, h.context}) >>)

\* _validate_receipt
BoundReceiptRejection(r) ==
  FirstRejection(<<
    ObjectRejection(r),
    Reject("DENY_VERSION_MISMATCH",
           r.foreign_version \/ r.foreign_contract \/ r.foreign_profile),
    Reject("DENY_SCHEMA_INVALID",
           IsBlank(r.gateway_version) \/ IsBlank(r.adapter) \/ IsBlank(r.adapter_version)),
    ReasonRejection(r.decision, r.reason),
    Reject("DENY_ADAPTER_INVALID", BadContext \in {r.envelope, r.output}) >>)

\* _validate_policy_binding
BindingRejection(b) ==
  FirstRejection(<<
    ObjectRejection(b),
    Reject("DENY_VERSION_MISMATCH", b.foreign_version),
    Reject("DENY_SCHEMA_INVALID", IsBlank(b.policy_id) \/ IsBlank(b.policy_version)),
    Reject("DENY_ADAPTER_INVALID",
           BadContext \in {b.policy_hash, b.receipt_hash, b.handoff_hash} \/ b.oversized) >>)

\* Mutant: the handoff is taken to be about the context its envelope is.
ArtifactChainRejectionOfEnvelope(g, expected) ==
  FirstRejection(<<
    Reject("DENY_POLICY", g.handoff.context # g.handoff.envelope),
    Reject("DENY_ADAPTER_INVALID", ~ReceiptMatchesHandoff(g.handoff, g.receipt)),
    Reject("DENY_POLICY", \/ g.binding.receipt_hash # g.receipt
                          \/ g.binding.handoff_hash # g.handoff) >>)

\* _validate_artifact_chain: the context of the handoff is also the hash of the
\* gateway's envelope, and the binding names both artifacts.
ArtifactChainRejection(g, expected) ==
  FirstRejection(<<
    Reject("DENY_POLICY", \/ g.handoff.context # expected
                          \/ g.handoff.context # g.handoff.envelope),
    Reject("DENY_ADAPTER_INVALID", ~ReceiptMatchesHandoff(g.handoff, g.receipt)),
    Reject("DENY_POLICY", \/ g.binding.receipt_hash # g.receipt
                          \/ g.binding.handoff_hash # g.handoff) >>)

BoundGatewayRejection(g, expected, policy) ==
  FirstRejection(<<
    Reject("DENY_POLICY", \/ expected = BadContext \/ policy.hash = BadContext
                          \/ IsBlank(policy.id) \/ IsBlank(policy.version)),
    WireReason[g.wire],
    Reject("DENY_ADAPTER_INVALID",
           g.hidden_authority \/ g.handoff.hidden_authority \/ g.receipt.hidden_authority),
    Reject("DENY_VERSION_MISMATCH", g.foreign_version),
    Reject("DENY_POLICY", g.binding.kind = "missing"),
    ObjectRejection(g),
    Reject("DENY_VERSION_MISMATCH", g.foreign_source),
    Reject("DENY_ADAPTER_INVALID", g.foreign_role),
    Reject("DENY_POLICY", g.context # expected),
    BoundHandoffRejection(g.handoff),
    BoundReceiptRejection(g.receipt),
    BindingRejection(g.binding),
    ArtifactChainRejection(g, expected),
    Reject("DENY_POLICY", \/ g.binding.policy_id # policy.id
                          \/ g.binding.policy_version # policy.version
                          \/ g.binding.policy_hash # policy.hash),
    Reject(g.handoff.reason, g.handoff.decision = "rejected") >>)

\* consume_ai_gateway_policy_bound_evidence_v2
BoundGatewayEvidence(g, expected, policy, told) ==
  IF Misunderstood(told) THEN Denied(<<"ERR_INTERNAL">>)
  ELSE UnlessDeniedBefore(told,
         Judged(BoundGatewayRejection(g, expected, policy), g.handoff.context))

-----------------------------------------------------------------------------
(* What the engine sees of a result.                                       *)

\* _contains_forbidden_authority_signal: a field named authority that is set.  The
\* field in which a WSQK result shows its authority has that name.
HidesAuthority(e) == e.authority # <<>>

\* _safe_reason: the gateway's own reasons are no ReasonId.
SafeReason(reason) ==
  IF reason \in GatewayReasons THEN "UNKNOWN_EXTERNAL_REASON" ELSE reason

\* The result of a normaliser as an input of a gate.  V2's result of the gateway
\* does not say handoff_allowed.
AsEngineInput(e, says_handoff) ==
  [present |-> TRUE, final_approval |-> FALSE, hidden_authority |-> HidesAuthority(e),
   accepted_as_evidence |-> AcceptedAsEvidence(e), v4 |-> NotV4,
   handoff_allowed |-> says_handoff /\ AcceptedAsEvidence(e),
   context |-> e.context, human_review |-> FALSE, reason |-> SafeReason(Head(e.dominant))]

=============================================================================
