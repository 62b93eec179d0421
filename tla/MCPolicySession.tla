--------------------------- MODULE MCPolicySession ---------------------------
(***************************************************************************)
(* Sessions over one request: the one every normaliser accepts from 2 to   *)
(* 4, with each single defect and each pair of representative ones, under  *)
(* every way a host may tell of earlier results and read the gateway.      *)
(***************************************************************************)
EXTENDS PolicySessionRequirements

MCStrip(name) ==
  CASE name = " w"              -> "w"
    [] name = " "               -> ""
    [] name = " pqc_required "  -> "pqc_required"
    [] OTHER                    -> name

Context == ContextHash("w", "send", TRUE)
OtherContext == ContextHash("w", "send", FALSE)

Issue ==
  [wallet |-> "w", action |-> "send", context |-> Context, unreadable |-> "none",
   now |-> 2, ttl |-> 2, nonce |-> "n",
   families |-> <<"qid_hybrid", "pqc_signature">>, posture |-> "hybrid_required"]

Handoff ==
  [kind |-> "mapping", hidden_authority |-> FALSE, unknown_field |-> FALSE,
   missing_field |-> FALSE, foreign_version |-> FALSE, decision |-> "accepted",
   adapter |-> "adapter", task_type |-> "task", reason |-> "ACCEPTED",
   envelope |-> Context, output |-> "output", context |-> Context]

Receipt ==
  [kind |-> "mapping", hidden_authority |-> FALSE, unknown_field |-> FALSE,
   missing_field |-> FALSE, foreign_version |-> FALSE, foreign_contract |-> FALSE,
   foreign_profile |-> FALSE, decision |-> "accepted", gateway_version |-> "1",
   adapter |-> "adapter", adapter_version |-> "1", reason |-> "ACCEPTED",
   envelope |-> Context, output |-> "output"]

Binding ==
  [kind |-> "mapping", unknown_field |-> FALSE, missing_field |-> FALSE,
   foreign_version |-> FALSE, oversized |-> FALSE, policy_id |-> "pack",
   policy_version |-> "1", policy_hash |-> "pack hash",
   receipt_hash |-> NoContext, handoff_hash |-> NoContext]

\* The hashes are taken last, of whatever the objects then say.
Seal(p) ==
  LET q == [p EXCEPT !.wsqk.authority.binding = WsqkBinding(p.wsqk.authority),
                     !.qid.proof_hash = QidProofHash(p.qid)]
  IN  [q EXCEPT !.qid.replay_proof.proof_hash = q.qid.proof_hash,
                !.gateway.binding.receipt_hash = p.gateway.receipt,
                !.gateway.binding.handoff_hash = p.gateway.handoff]

ShieldEvidenceInput ==
  [present |-> TRUE, final_approval |-> FALSE, hidden_authority |-> FALSE,
   accepted_as_evidence |-> TRUE, v4 |-> NotV4, handoff_allowed |-> TRUE,
   context |-> Context, human_review |-> FALSE, reason |-> "EVIDENCE_OK"]

Told_(shape, outcome, reason) == [shape |-> shape, outcome |-> outcome, reason |-> reason]

CleanCase ==
  [request |-> [wallet |-> "w", action |-> "send", fields_confirmed |-> TRUE, nonce |-> "n",
                wsqk |-> [kind |-> "absent"],
                scope |-> [kind |-> "v2", families |-> <<"pqc_signature", "qid_hybrid">>,
                           posture |-> "hybrid_required"]],
   expected |-> Context, subject |-> "alice", device |-> Blank, tells |-> "list",
   consumer |-> "v2",
   policy |-> [valid |-> TRUE, min_score |-> 85, allowed_reasons |-> {"ok"},
               reason_map |-> [ok |-> "EVIDENCE_OK"]],
   gateway_policy |-> [id |-> "pack", version |-> "1", hash |-> "pack hash"],
   shield |-> [told |-> Told_("dict", "ALLOW_EVIDENCE", "EVIDENCE_OK"),
               evidence |-> ShieldEvidenceInput],
   wsqk |-> [kind |-> "request", request |-> Issue, authority |-> IssuedAuthority(Issue)],
   qid |-> [is_object |-> TRUE, hidden_authority |-> FALSE, has_session |-> TRUE,
            posture_shape |-> "given", classical |-> TRUE, pqc |-> TRUE,
            form |-> "qid_login_v2", malformed |-> FALSE, subject |-> "alice",
            issued_at |-> 2, expires_at |-> 5, context |-> Context, device |-> Blank,
            proof_hash |-> NoContext,
            replay_proof |-> [present |-> TRUE, malformed |-> FALSE, wallet |-> "w",
                              subject |-> "alice", proof_hash |-> NoContext,
                              device |-> Blank, session_nonce |-> "n", fresh |-> TRUE]],
   report |-> [kind |-> "payload", hidden_authority |-> FALSE, malformed |-> FALSE,
               wrong_version |-> FALSE, context |-> Context, issued_at |-> 2,
               expires_at |-> 4, generated_at |-> 1, score |-> 90, reasons |-> {"ok"}],
   gateway |-> [wire |-> "json", kind |-> "mapping", hidden_authority |-> FALSE,
                unknown_field |-> FALSE, missing_field |-> FALSE, foreign_version |-> FALSE,
                foreign_source |-> FALSE, foreign_role |-> FALSE, context |-> Context,
                handoff |-> Handoff, receipt |-> Receipt, binding |-> Binding]]

-----------------------------------------------------------------------------
(* Defects of the WSQK input and of the request.                           *)

DamageWsqk(p, d) ==
  CASE d = "authority"       -> [p EXCEPT !.wsqk.kind = "authority"]
    [] d = "authority_v1"    -> [p EXCEPT !.wsqk.kind = "authority",
                                          !.wsqk.authority.kind = "v1"]
    [] d = "authority_other_action" -> [p EXCEPT !.wsqk.kind = "authority",
                                                 !.wsqk.authority.action = "receive"]
    [] d = "authority_other_wallet" -> [p EXCEPT !.wsqk.kind = "authority",
                                                 !.wsqk.authority.wallet = "v"]
    [] d = "authority_other_context" -> [p EXCEPT !.wsqk.kind = "authority",
                                                  !.wsqk.authority.context = OtherContext]
    [] d = "authority_no_family"    -> [p EXCEPT !.wsqk.kind = "authority",
                                                 !.wsqk.authority.families = <<>>]
    [] d = "authority_unknown_family" -> [p EXCEPT !.wsqk.kind = "authority",
                                                   !.wsqk.authority.families = <<"magic">>]
    [] d = "authority_new_posture"  -> [p EXCEPT !.wsqk.kind = "authority",
                                                 !.wsqk.authority.posture = "none_required"]
    [] d = "missing_field"   -> [p EXCEPT !.wsqk.kind = "missing_field"]
    [] d = "invalid_field"   -> [p EXCEPT !.wsqk.kind = "invalid_field"]
    [] d = "no_wsqk"         -> [p EXCEPT !.wsqk.kind = "other"]
    [] d = "padded_issue"    -> [p EXCEPT !.wsqk.request.wallet = " w"]
    [] d = "padded_call"     -> [p EXCEPT !.request.wallet = " w",
                                          !.expected = ContextHash(" w", "send", TRUE),
                                          !.wsqk.request.context = ContextHash(" w", "send", TRUE)]
    [] d = "issue_other_context" -> [p EXCEPT !.wsqk.request.context = OtherContext]
    [] d = "issue_no_wallet" -> [p EXCEPT !.wsqk.request.wallet = " "]
    [] d = "issue_no_action" -> [p EXCEPT !.wsqk.request.action = ""]
    [] d = "issue_no_context" -> [p EXCEPT !.wsqk.request.context = NoContext]
    [] d = "issue_no_now"    -> [p EXCEPT !.wsqk.request.unreadable = "now"]
    [] d = "issue_no_ttl"    -> [p EXCEPT !.wsqk.request.ttl = 0]
    [] d = "issue_no_nonce"  -> [p EXCEPT !.wsqk.request.nonce = " "]
    [] d = "issue_no_family" -> [p EXCEPT !.wsqk.request.families = <<>>]
    [] d = "issue_posture"   -> [p EXCEPT !.wsqk.request.posture = "none_required"]
    [] d = "issue_pqc"       -> [p EXCEPT !.wsqk.request.posture = " pqc_required "]
    [] d = "issue_short"     -> [p EXCEPT !.wsqk.request.ttl = 1]
    [] d = "scope_pqc"       -> [p EXCEPT !.request.scope.posture = " pqc_required "]
    [] d = "scope_absent"    -> [p EXCEPT !.request.scope.kind = "absent"]
    [] d = "scope_families"  -> [p EXCEPT !.request.scope.families = <<"qid_hybrid">>]

WsqkDefects ==
  {"authority", "authority_v1", "authority_other_action", "authority_other_wallet",
   "authority_other_context", "authority_no_family", "authority_unknown_family",
   "authority_new_posture", "missing_field", "invalid_field", "no_wsqk", "padded_issue",
   "padded_call", "issue_other_context", "issue_no_wallet", "issue_no_action",
   "issue_no_context", "issue_no_now", "issue_no_ttl", "issue_no_nonce", "issue_no_family",
   "issue_posture", "issue_pqc", "issue_short", "scope_pqc", "scope_absent",
   "scope_families"}


-----------------------------------------------------------------------------
(* Defects of the Q-ID input.                                              *)

DamageQid(p, d) ==
  CASE d = "qid_not_object"   -> [p EXCEPT !.qid.is_object = FALSE]
    [] d = "qid_authority"    -> [p EXCEPT !.qid.hidden_authority = TRUE]
    [] d = "qid_no_session"   -> [p EXCEPT !.qid.has_session = FALSE]
    [] d = "qid_no_posture"   -> [p EXCEPT !.qid.posture_shape = "other"]
    [] d = "qid_not_pqc"      -> [p EXCEPT !.qid.pqc = FALSE]
    [] d = "qid_not_classical" -> [p EXCEPT !.qid.classical = FALSE]
    [] d = "qid_shape_a"      -> [p EXCEPT !.qid.form = "shape_a"]
    [] d = "qid_shape_a_no_context" -> [p EXCEPT !.qid.form = "shape_a",
                                                 !.qid.context = NoContext]
    [] d = "qid_malformed"    -> [p EXCEPT !.qid.malformed = TRUE]
    [] d = "qid_no_context"   -> [p EXCEPT !.qid.context = NoContext]
    [] d = "qid_other_context" -> [p EXCEPT !.qid.context = OtherContext]
    [] d = "qid_short"        -> [p EXCEPT !.qid.expires_at = 3]
    [] d = "qid_other_subject" -> [p EXCEPT !.qid.subject = "bob",
                                            !.qid.replay_proof.subject = "bob"]
    [] d = "qid_no_replay_proof" -> [p EXCEPT !.qid.replay_proof.present = FALSE]
    [] d = "qid_replay_malformed" -> [p EXCEPT !.qid.replay_proof.malformed = TRUE]
    [] d = "qid_replay_wallet" -> [p EXCEPT !.qid.replay_proof.wallet = "v"]
    [] d = "qid_replay_subject" -> [p EXCEPT !.qid.replay_proof.subject = "bob"]
    [] d = "qid_replay_nonce" -> [p EXCEPT !.qid.replay_proof.session_nonce = "m"]
    [] d = "qid_replayed"     -> [p EXCEPT !.qid.replay_proof.fresh = FALSE]
    [] d = "device_expected"  -> [p EXCEPT !.device = "phone"]
    [] d = "device_shown"     -> [p EXCEPT !.device = "phone", !.qid.form = "shape_a",
                                           !.qid.device = "phone",
                                           !.qid.replay_proof.device = "phone"]

QidDefects ==
  {"qid_not_object", "qid_authority", "qid_no_session", "qid_no_posture", "qid_not_pqc",
   "qid_not_classical", "qid_shape_a", "qid_shape_a_no_context", "qid_malformed",
   "qid_no_context", "qid_other_context", "qid_short", "qid_other_subject",
   "qid_no_replay_proof", "qid_replay_malformed", "qid_replay_wallet",
   "qid_replay_subject", "qid_replay_nonce", "qid_replayed", "device_expected",
   "device_shown"}

-----------------------------------------------------------------------------
(* Defects of the Adaptive Core input.                                     *)

DamageReport(p, d) ==
  CASE d = "oracle"           -> [p EXCEPT !.report.kind = "oracle"]
    [] d = "oracle_other"     -> [p EXCEPT !.report.kind = "oracle",
                                           !.report.context = OtherContext]
    [] d = "report"           -> [p EXCEPT !.report.kind = "report"]
    [] d = "report_other"     -> [p EXCEPT !.report.kind = "report",
                                           !.report.context = OtherContext]
    [] d = "no_report"        -> [p EXCEPT !.report.kind = "other"]
    [] d = "no_risk_policy"   -> [p EXCEPT !.policy.valid = FALSE]
    [] d = "report_authority" -> [p EXCEPT !.report.hidden_authority = TRUE]
    [] d = "report_malformed" -> [p EXCEPT !.report.malformed = TRUE]
    [] d = "relabelled"       -> [p EXCEPT !.report.wrong_version = TRUE]
    [] d = "payload_other"    -> [p EXCEPT !.report.context = OtherContext]
    [] d = "payload_no_context" -> [p EXCEPT !.report.context = NoContext]
    [] d = "payload_bad_context" -> [p EXCEPT !.report.context = BadContext]
    [] d = "generated_later"  -> [p EXCEPT !.report.generated_at = 3]
    [] d = "generated_never"  -> [p EXCEPT !.report.generated_at = 0]
    [] d = "score_low"        -> [p EXCEPT !.report.score = 84]
    [] d = "score_at_minimum" -> [p EXCEPT !.report.score = 85]
    [] d = "score_absurd"     -> [p EXCEPT !.report.score = 101]
    [] d = "no_reason"        -> [p EXCEPT !.report.reasons = {}]
    [] d = "unknown_reason"   -> [p EXCEPT !.report.reasons = {"ok", "novel"}]
    [] d = "unmapped_reason"  -> [p EXCEPT !.report.reasons = {"unmapped"}]
    [] d = "empty_window"     -> [p EXCEPT !.report.expires_at = 1]

ReportDefects ==
  {"oracle", "oracle_other", "report", "report_other", "no_report", "no_risk_policy",
   "report_authority", "report_malformed", "relabelled", "payload_other",
   "payload_no_context", "payload_bad_context", "generated_later", "generated_never",
   "score_low", "score_at_minimum", "score_absurd", "no_reason", "unknown_reason",
   "unmapped_reason", "empty_window"}

-----------------------------------------------------------------------------
(* Defects of the gateway's artifacts: of both alike, of one before it is  *)
(* sealed, and of what comes with them or was altered since.               *)

BothArtifacts(p, field, value) ==
  [p EXCEPT !.gateway.handoff[field] = value, !.gateway.receipt[field] = value]

DamageGateway(p, d) ==
  CASE d = "handoff_missing"  -> [p EXCEPT !.gateway.handoff.kind = "missing"]
    [] d = "handoff_raw"      -> [p EXCEPT !.gateway.handoff.kind = "raw_output"]
    [] d = "handoff_list"     -> [p EXCEPT !.gateway.handoff.kind = "other"]
    [] d = "handoff_authority" -> [p EXCEPT !.gateway.handoff.hidden_authority = TRUE]
    [] d = "handoff_unknown"  -> [p EXCEPT !.gateway.handoff.unknown_field = TRUE]
    [] d = "handoff_lacks"    -> [p EXCEPT !.gateway.handoff.missing_field = TRUE]
    [] d = "handoff_version"  -> [p EXCEPT !.gateway.handoff.foreign_version = TRUE]
    [] d = "no_task"          -> [p EXCEPT !.gateway.handoff.task_type = " "]
    [] d = "handoff_bad_hash" -> [p EXCEPT !.gateway.handoff.output = BadContext]
    [] d = "handoff_other"    -> [p EXCEPT !.gateway.handoff.context = OtherContext]
    [] d = "artifacts_other"  -> [BothArtifacts(p, "envelope", OtherContext)
                                    EXCEPT !.gateway.handoff.context = OtherContext]
    [] d = "envelope_other"   -> BothArtifacts(p, "envelope", OtherContext)
    [] d = "outputs_differ"   -> [p EXCEPT !.gateway.receipt.output = "another output"]
    [] d = "receipt_missing"  -> [p EXCEPT !.gateway.receipt.kind = "missing"]
    [] d = "receipt_authority" -> [p EXCEPT !.gateway.receipt.hidden_authority = TRUE]
    [] d = "receipt_unknown"  -> [p EXCEPT !.gateway.receipt.unknown_field = TRUE]
    [] d = "receipt_lacks"    -> [p EXCEPT !.gateway.receipt.missing_field = TRUE]
    [] d = "receipt_version"  -> [p EXCEPT !.gateway.receipt.foreign_version = TRUE]
    [] d = "receipt_contract" -> [p EXCEPT !.gateway.receipt.foreign_contract = TRUE]
    [] d = "receipt_profile"  -> [p EXCEPT !.gateway.receipt.foreign_profile = TRUE]
    [] d = "no_gateway_version" -> [p EXCEPT !.gateway.receipt.gateway_version = " "]
    [] d = "receipt_bad_hash" -> [p EXCEPT !.gateway.receipt.output = BadContext]
    [] d = "no_adapter"       -> BothArtifacts(p, "adapter", " ")
    [] d = "undecided"        -> BothArtifacts(p, "decision", "maybe")
    [] d = "reason_free"      -> BothArtifacts(p, "reason", "a novel reason")
    [] d = "rejected"         -> BothArtifacts(BothArtifacts(p, "decision", "rejected"),
                                               "reason", "POLICY_DENIED")
    [] d = "rejected_freely"  -> BothArtifacts(BothArtifacts(p, "decision", "rejected"),
                                               "reason", "a novel reason")
    [] d = "receipt_rejected" -> [p EXCEPT !.gateway.receipt.decision = "rejected",
                                           !.gateway.receipt.reason = "POLICY_DENIED"]

GatewayDefects ==
  {"handoff_missing", "handoff_raw", "handoff_list", "handoff_authority", "handoff_unknown",
   "handoff_lacks", "handoff_version", "no_task", "handoff_bad_hash", "handoff_other",
   "artifacts_other", "envelope_other", "outputs_differ", "receipt_missing",
   "receipt_authority", "receipt_unknown", "receipt_lacks", "receipt_version",
   "receipt_contract", "receipt_profile", "no_gateway_version", "receipt_bad_hash",
   "no_adapter", "undecided", "reason_free", "rejected", "rejected_freely",
   "receipt_rejected"}

DamageSeal(p, d) ==
  CASE d = "wire_not_bytes"   -> [p EXCEPT !.gateway.wire = "not_bytes"]
    [] d = "wire_duplicate"   -> [p EXCEPT !.gateway.wire = "duplicate_key"]
    [] d = "evidence_authority" -> [p EXCEPT !.gateway.hidden_authority = TRUE]
    [] d = "evidence_unknown" -> [p EXCEPT !.gateway.unknown_field = TRUE]
    [] d = "evidence_lacks"   -> [p EXCEPT !.gateway.missing_field = TRUE]
    [] d = "evidence_version" -> [p EXCEPT !.gateway.foreign_version = TRUE]
    [] d = "source"           -> [p EXCEPT !.gateway.foreign_source = TRUE]
    [] d = "role"             -> [p EXCEPT !.gateway.foreign_role = TRUE]
    [] d = "evidence_other"   -> [p EXCEPT !.gateway.context = OtherContext]
    [] d = "unbound"          -> [p EXCEPT !.gateway.binding.kind = "missing"]
    [] d = "binding_unknown"  -> [p EXCEPT !.gateway.binding.unknown_field = TRUE]
    [] d = "binding_version"  -> [p EXCEPT !.gateway.binding.foreign_version = TRUE]
    [] d = "binding_no_policy" -> [p EXCEPT !.gateway.binding.policy_id = " "]
    [] d = "binding_bad_hash" -> [p EXCEPT !.gateway.binding.policy_hash = BadContext]
    [] d = "binding_oversized" -> [p EXCEPT !.gateway.binding.oversized = TRUE]
    [] d = "other_policy"     -> [p EXCEPT !.gateway_policy.hash = "another hash"]
    [] d = "no_policy"        -> [p EXCEPT !.gateway_policy.id = " "]
    [] d = "altered_receipt"  -> [p EXCEPT !.gateway.receipt.adapter_version = "2"]
    [] d = "altered_handoff"  -> [p EXCEPT !.gateway.handoff.task_type = "another task"]
    [] d = "altered_authority" -> [p EXCEPT !.wsqk.kind = "authority",
                                            !.wsqk.authority.expires_at = 5]
    [] d = "altered_session"  -> [p EXCEPT !.qid.expires_at = 6]
    [] d = "altered_replay_proof" -> [p EXCEPT !.qid.replay_proof.proof_hash = NoContext]

SealDefects ==
  {"wire_not_bytes", "wire_duplicate", "evidence_authority", "evidence_unknown",
   "evidence_lacks", "evidence_version", "source", "role", "evidence_other", "unbound",
   "binding_unknown", "binding_version", "binding_no_policy", "binding_bad_hash",
   "binding_oversized", "other_policy", "no_policy", "altered_receipt", "altered_handoff",
   "altered_authority", "altered_session", "altered_replay_proof"}

-----------------------------------------------------------------------------
(* What the host does and what Shield said.                                *)

DamageHost(p, d) ==
  CASE d = "expected_bad"     -> [p EXCEPT !.expected = BadContext]
    [] d = "expected_other"   -> [p EXCEPT !.expected = OtherContext]
    [] d = "unconfirmed_call" -> [p EXCEPT !.request.fields_confirmed = FALSE]
    [] d = "shield_denied"    -> [p EXCEPT !.shield.told =
                                               Told_("dict", "DENY", "EQC_SHIELD_STALE"),
                                           !.shield.evidence.accepted_as_evidence = FALSE]
    [] d = "shield_denied_silently" -> [p EXCEPT !.shield.told = Told_("object", "DENY", Blank)]
    [] d = "shield_denied_mapping" -> [p EXCEPT !.shield.told =
                                                    Told_("mapping", "DENY", "DENY_POLICY")]
    [] d = "shield_no_outcome" -> [p EXCEPT !.shield.told =
                                                Told_("object", NoOutcome, Blank)]
    [] d = "shield_other_context" -> [p EXCEPT !.shield.evidence.context = OtherContext]

HostDefects ==
  {"expected_bad", "expected_other", "unconfirmed_call", "shield_denied",
   "shield_denied_silently", "shield_denied_mapping", "shield_no_outcome",
   "shield_other_context"}

-----------------------------------------------------------------------------
Apply(Damage(_, _), p, ds) == FoldSet(LAMBDA d, q : Damage(q, d), p, ds)

Damaged(ds) ==
  LET before == Apply(DamageGateway, Apply(DamageReport, Apply(DamageQid, Apply(DamageWsqk,
                  CleanCase, ds \cap WsqkDefects), ds \cap QidDefects),
                  ds \cap ReportDefects), ds \cap GatewayDefects)
  IN  Apply(DamageHost, Apply(DamageSeal, Seal(before), ds \cap SealDefects),
            ds \cap HostDefects)

Defects ==
  WsqkDefects \cup QidDefects \cup ReportDefects \cup GatewayDefects \cup SealDefects
  \cup HostDefects

\* One for every way a normaliser may answer, and for what the properties relate.
Representatives ==
  {"authority", "issue_pqc", "scope_pqc", "issue_other_context", "no_wsqk",
   "qid_not_pqc", "qid_not_classical", "qid_other_context", "qid_replayed",
   "report", "payload_other", "relabelled", "score_low",
   "rejected", "artifacts_other", "altered_receipt",
   "shield_denied", "shield_denied_silently", "shield_no_outcome", "expected_other"}

Name(ds, tells, consumer) == [defects |-> ds, tells |-> tells, consumer |-> consumer]

MCSessions ==
  {Name(ds, tells, consumer) :
     ds \in {{}} \cup {{d} : d \in Defects},
     tells \in {"none", "list", "iterator"}, consumer \in {"v1", "v2"}}
  \cup {Name({d, e}, tells, consumer) :
          d \in Representatives, e \in Representatives,
          tells \in {"none", "list"}, consumer \in {"v1", "v2"}}

MCCases ==
  [n \in MCSessions |->
     [Damaged(n.defects) EXCEPT !.tells = n.tells, !.consumer = n.consumer]]

MCCase(n) == MCCases[n]

=============================================================================
