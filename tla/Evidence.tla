------------------------------ MODULE Evidence ------------------------------
(***************************************************************************)
(* The adapters that turn the caller's evidence into what EQC reasons on:  *)
(* integrations/qid_adapter.py (session and replay proof),                 *)
(* integrations/adaptive_core_oracle_v3_adapter.py, and for Shield the     *)
(* Orchestrator receipt boundary and the legacy bundle parser.             *)
(* Each operator is OK, or the reason the adapter rejects with.            *)
(***************************************************************************)
EXTENDS ExecutionContext

CONSTANTS
  NoContext,    \* a context_hash that is absent
  BadContext    \* a context_hash that is not lowercase sha256 hex

-----------------------------------------------------------------------------
(* Q-ID session: form is "qid_login_v2" or "shape_a".                      *)

IsV2Login(q) == q.form = "qid_login_v2"

\* The hash over response_payload (v2) or over the normalised fields (shape A).
QidProofHash(q) ==
  [form |-> q.form, subject |-> q.subject, issued_at |-> q.issued_at,
   expires_at |-> q.expires_at, context |-> q.context, device |-> q.device]

\* parse_qid_session.  A v2 login must carry a context, shape A may omit it;
\* whose context it is, is not asked here but in EQC.
SessionRejection(q, now) ==
  FirstRejection(<<
    Reject("EQC_INVALID_QID_PROOF", q.malformed),
    Reject("EQC_INVALID_QID_PROOF",
           q.context \in IF IsV2Login(q) THEN {NoContext, BadContext}
                                         ELSE {BadContext}),
    Reject("EQC_QID_SESSION_NOT_YET_VALID", now < q.issued_at),
    Reject("EQC_QID_SESSION_EXPIRED", now >= q.expires_at),
    Reject("EQC_INVALID_QID_PROOF", q.proof_hash # QidProofHash(q)),
    Reject("EQC_INVALID_QID_PROOF", q.issued_at <= 0) >>)

\* device_binding of the parsed session: v2 logins carry none.
SessionDevice(q) == IF IsV2Login(q) THEN Blank ELSE q.device

\* parse_qid_replay_proof with require_fresh, for the device the caller expects.
\* fresh is the caller's word for what a replay registry said.
ReplayProofRejectionOn(device, q, wallet, nonce) ==
  LET p == q.replay_proof
  IN  FirstRejection(<<
        Reject("QID_REPLAY_PROOF_MISSING", ~p.present),
        Reject("QID_REPLAY_PROOF_INVALID", p.malformed),
        Reject("QID_REPLAY_WALLET_MISMATCH", p.wallet # wallet),
        Reject("QID_REPLAY_SUBJECT_MISMATCH", p.subject # q.subject),
        Reject("QID_REPLAY_PROOF_HASH_MISMATCH", p.proof_hash # q.proof_hash),
        Reject("QID_REPLAY_DEVICE_MISMATCH", p.device # device),
        Reject("QID_REPLAY_NONCE_MISMATCH", p.session_nonce # nonce),
        Reject("QID_NONCE_REPLAY", ~p.fresh) >>)

\* As the orchestrator asks for it: for the device of the session.
ReplayProofRejection(q, wallet, nonce) ==
  ReplayProofRejectionOn(SessionDevice(q), q, wallet, nonce)

-----------------------------------------------------------------------------
(* Adaptive Core oracle v3.                                                *)

\* RiskReport.validate: what makes a report unusable at time now.
ReportInvalid(o, now) ==
  \/ o.generated_at <= 0 \/ o.generated_at > now
  \/ o.score < 0 \/ o.score > 100
  \/ o.reasons = {}

\* parse_risk_report.
ReportRejection(o, now, expected, policy) ==
  FirstRejection(<<
    Reject("EQC_INVALID_RISK_REPORT", o.malformed \/ o.context = NoContext),
    Reject("EQC_RISK_CONTEXT_HASH_MISMATCH", o.context # expected),
    Reject("EQC_INVALID_RISK_REPORT", o.generated_at <= 0 \/ o.generated_at > now),
    Reject("EQC_INVALID_RISK_REPORT", o.score < 0 \/ o.score > 100),
    Reject("UNKNOWN_EXTERNAL_REASON", ~(o.reasons \subseteq policy.allowed_reasons)),
    Reject("UNKNOWN_EXTERNAL_REASON", ~(o.reasons \subseteq DOMAIN policy.reason_map)),
    Reject("EQC_INVALID_RISK_REPORT", o.reasons = {}) >>)

\* parse_adaptive_core_oracle_v3, which ends in parse_risk_report.
OracleRejection(o, now, expected, policy) ==
  FirstRejection(<<
    Reject("EQC_INVALID_RISK_REPORT", o.malformed),
    Reject("DENY_VERSION_MISMATCH", o.wrong_version),
    Reject("EQC_INVALID_RISK_REPORT", o.context \in {NoContext, BadContext}),
    Reject("EQC_RISK_CONTEXT_HASH_MISMATCH", o.context # expected),
    Reject("EQC_INVALID_RISK_REPORT", o.expires_at < o.issued_at),
    Reject("EQC_INVALID_RISK_REPORT", o.issued_at > now \/ o.expires_at < now),
    ReportRejection(o, now, expected, policy) >>)

-----------------------------------------------------------------------------
(* Shield Orchestrator receipt v3.2.  component_verdicts is a sequence; a  *)
(* complete one lists the five components in canonical order.              *)

CanonicalComponents == <<"adn", "dqsn", "guardian_wallet", "qwg", "sentinel_ai">>
Components == Range(CanonicalComponents)

\* validate_component_verdict.  SKIPPED is a known decision, and not evidence.
VerdictRejection(v, receipt) ==
  FirstRejection(<<
    Reject("REJECTED_INVALID_RECEIPT",
           \/ v.malformed
           \/ v.component_id \notin Components
           \/ Strip(v.request_id) = Blank
           \/ Strip(v.request_id) # Strip(receipt.request_id)
           \/ v.context # receipt.context
           \/ v.decision \notin {"ALLOW", "ESCALATE", "DENY", "ERROR"}),
    Reject("REJECTED_AUTHORITY_BYPASS", v.metadata_authority) >>)

\* _validate_component_verdicts
VerdictsRejection(receipt) ==
  LET vs == receipt.component_verdicts
  IN  FirstRejection(
        [i \in 1..Len(vs) |-> VerdictRejection(vs[i], receipt)]
        \o << Reject("REJECTED_INVALID_RECEIPT",
                     [i \in 1..Len(vs) |-> vs[i].component_id]
                       # CanonicalComponents) >>)

\* _classify_component_verdicts: the outcome, reason and handoff the component
\* decisions force.
Classification(receipt) ==
  LET decisions == {receipt.component_verdicts[i].decision :
                      i \in 1..Len(receipt.component_verdicts)}
      Forced(outcome, reason) ==
        [final_outcome |-> outcome, dominant_reason |-> reason,
         handoff_allowed |-> outcome = "ALLOW"]
  IN  IF "DENY" \in decisions THEN Forced("DENY", "ORCH_DENY_DOMINATES")
      ELSE IF "ERROR" \in decisions
           THEN Forced("DENY", "ORCH_ERROR_INVALID_COMPONENT_VERDICT")
      ELSE IF "ESCALATE" \in decisions
           THEN Forced("HUMAN_REVIEW_REQUIRED", "ORCH_HUMAN_REVIEW_ESCALATE_PRESENT")
      ELSE Forced("ALLOW", "ORCH_OK_ALL_COMPONENTS_ALLOW")

Claimed(receipt) ==
  [final_outcome |-> receipt.final_outcome,
   dominant_reason |-> receipt.dominant_reason,
   handoff_allowed |-> receipt.handoff_allowed]

\* canonical_sha256 of the receipt with its own hash left out.
ReceiptHash(receipt) == [receipt EXCEPT !.receipt_hash = Blank]

\* reject_direct_component_verdict, validate_shield_orchestrator_receipt and
\* the request and denylist checks of verify_shield_orchestrator_receipt:
\* the rejected state, or OK.  REJECTED_OUTCOME_MISMATCH is the state
\* REJECTED_AUTHORITY_BYPASS raised by a ShieldReceiptOutcomeMismatchError, which
\* has a reason id of its own.
ReceiptRejection(s, expected, request_id, rejected_hashes) ==
  IF s.kind # "receipt"
  THEN IF s.kind = "direct_verdict" THEN "REJECTED_RAW_COMPONENT_BYPASS"
                                    ELSE "REJECTED_INVALID_RECEIPT"
  ELSE FirstRejection(<<
         Reject("REJECTED_INVALID_RECEIPT", s.malformed),
         Reject("REJECTED_CONTEXT_MISMATCH", s.context # expected),
         VerdictsRejection(s),
         Reject("REJECTED_OUTCOME_MISMATCH", Claimed(s) # Classification(s)),
         Reject("REJECTED_TAMPERED_RECEIPT", s.receipt_hash # ReceiptHash(s)),
         Reject("REJECTED_INVALID_RECEIPT", Strip(request_id) = Blank),
         Reject("REJECTED_REQUEST_MISMATCH", s.request_id # request_id),
         Reject("REJECTED_REPLAY_RISK", s.receipt_hash \in rejected_hashes) >>)

\* verify_shield_orchestrator_receipt: a ShieldReceiptVerificationState.
ReceiptState(s, expected, request_id, rejected_hashes) ==
  LET rejection == ReceiptRejection(s, expected, request_id, rejected_hashes)
  IN  IF rejection # OK THEN rejection
      ELSE CASE s.final_outcome = "DENY"  -> "VERIFIED_DENY_DOMINATES"
             [] s.final_outcome = "HUMAN_REVIEW_REQUIRED"
                                          -> "VERIFIED_HUMAN_REVIEW_REQUIRED"
             [] OTHER                     -> "VERIFIED_ALLOW_EVIDENCE_CONTINUE_CHECKS"

ReceiptAccepted(state) == state = "VERIFIED_ALLOW_EVIDENCE_CONTINUE_CHECKS"

\* The reason id that goes with each state.
ReceiptReason(state) ==
  CASE state = "VERIFIED_DENY_DOMINATES"        -> "DENY_POLICY"
    [] state = "VERIFIED_HUMAN_REVIEW_REQUIRED" -> "DENY_AUTHORITY_INSUFFICIENT"
    [] state = "REJECTED_CONTEXT_MISMATCH"      -> "EQC_SHIELD_CONTEXT_HASH_MISMATCH"
    [] state = "REJECTED_REPLAY_RISK"           -> "EQC_SHIELD_STALE"
    [] state = "REJECTED_OUTCOME_MISMATCH"      -> "EQC_CONFLICTING_EVIDENCE"
    [] ReceiptAccepted(state)                   -> "EVIDENCE_OK"
    [] OTHER                                    -> "EQC_INVALID_SHIELD_BUNDLE"

\* _shield_bundle_from_verified_receipt: the second look at a receipt that was
\* accepted, before EQC sees it.
InternalizeRejection(s) ==
  FirstRejection(<<
    Reject("EQC_INVALID_SHIELD_BUNDLE", ~s.handoff_allowed),
    Reject("EQC_CONFLICTING_EVIDENCE",
           \E i \in 1..Len(s.component_verdicts) :
             s.component_verdicts[i].decision # "ALLOW"),
    Reject("EQC_INVALID_SHIELD_BUNDLE",
           {s.component_verdicts[i].component_id :
              i \in 1..Len(s.component_verdicts)} # Components) >>)

-----------------------------------------------------------------------------
(* Shield bundle v3, the LEGACY_BUNDLE_V3_TEST_ONLY boundary.  signals and *)
(* required_layers are sets: bundles whose arrays repeat a layer or are    *)
(* not in the canonical order are malformed.                               *)

\* _parse_signal_v3, with its reasons already mapped for the wallet.
SignalRejection(g, b, expected, policy) ==
  FirstRejection(<<
    Reject("EQC_INVALID_SHIELD_BUNDLE",
           \/ g.layer \notin Components
           \/ g.context # expected
           \/ g.expires_at < g.issued_at
           \/ g.issued_at < b.issued_at
           \/ g.expires_at > b.expires_at
           \/ g.verdict \notin {"allow", "deny"}),
    Reject("UNKNOWN_EXTERNAL_REASON", g.reason \notin policy.allowed_reasons),
    Reject("UNKNOWN_EXTERNAL_REASON", g.reason \notin DOMAIN policy.reason_map) >>)

\* parse_shield_bundle_v3 behind _map_shield_adapter_reason.  now is not
\* looked at here: staleness is EQC's question.
BundleRejection(b, expected, policy) ==
  IF b.kind # "bundle" THEN "EQC_INVALID_SHIELD_BUNDLE"
  ELSE FirstRejection(<<
         Reject("EQC_INVALID_SHIELD_BUNDLE",
                \/ b.malformed
                \/ b.context # expected
                \/ b.expires_at < b.issued_at
                \/ b.required_layers = {} \/ ~(b.required_layers \subseteq Components)
                \/ b.signals = {}),
         LET failed == {SignalRejection(g, b, expected, policy) : g \in b.signals}
         IN  IF failed \subseteq {OK} THEN OK ELSE CHOOSE f \in failed : f # OK,
         Reject("EQC_INVALID_SHIELD_BUNDLE",
                ~(b.required_layers \subseteq {g.layer : g \in b.signals})),
         Reject("EQC_INVALID_SHIELD_BUNDLE", b.required_layers # Components) >>)

=============================================================================
