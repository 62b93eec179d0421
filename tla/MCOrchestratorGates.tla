------------------------- MODULE MCOrchestratorGates -------------------------
(***************************************************************************)
(* One call, every stage: the accepted request with each single defect and *)
(* each pair of defects, under each deployment, at every time around the   *)
(* edges of its windows.                                                   *)
(***************************************************************************)
EXTENDS MCOrchestrator

\* Defects of the envelope, its confirmation and its authority.
EnvelopeDefects ==
  {"none", "head", "tail", "empty_window", "large_skew", "scope_malformed",
   "no_wsqk", "wsqk_malformed", "wsqk_wallet", "wsqk_context", "wsqk_nonce",
   "wsqk_window", "blank_nonce", "quantum_v1", "quantum_family",
   "quantum_unknown_family", "quantum_posture", "quantum_binding", "not_confirmed"}

QidDefects ==
  {"shape_a", "qid_malformed", "qid_no_context", "qid_context", "qid_early",
   "qid_expired", "qid_hash", "no_replay_proof", "replay_wallet", "replay_hash",
   "replay_nonce", "replay_stale"}

OracleDefects ==
  {"oracle_version", "oracle_context", "oracle_stale", "oracle_future",
   "oracle_low", "oracle_range", "oracle_reason", "oracle_unmapped"}

ShieldDefects ==
  {"direct_verdict", "receipt_malformed", "receipt_context", "verdict_request",
   "verdict_authority", "verdict_skipped", "component_missing", "deny",
   "deny_dressed_as_allow", "escalate", "component_error", "receipt_tampered",
   "receipt_request", "bundle", "bundle_watch", "bundle_unknown_reason",
   "bundle_stale", "bundle_layer_missing", "bundle_context"}

FourthVerdict(r, decision, outcome, reason) ==
  SealReceipt([r EXCEPT
    !.shield.component_verdicts[4].decision = decision,
    !.shield.final_outcome = outcome, !.shield.dominant_reason = reason,
    !.shield.handoff_allowed = FALSE])

Bundle(r) == [r EXCEPT !.shield.kind = "bundle"]

Other == ContextHash("w", "other", TRUE)

DamageEnvelope(r, d) ==
  CASE d = "none"            -> r
    [] d = "head"            -> [r EXCEPT !.head_defect = "DENY_SCHEMA_INVALID"]
    [] d = "tail"            -> [r EXCEPT !.tail_defect = "DENY_NONCE_INVALID"]
    [] d = "empty_window"    -> [r EXCEPT !.expires_at = 2, !.wsqk.expires_at = 2]
    [] d = "large_skew"      -> [r EXCEPT !.skew = 3]
    [] d = "scope_malformed" -> [r EXCEPT !.scope.kind = "malformed"]
    [] d = "no_wsqk"         -> [r EXCEPT !.wsqk.kind = "absent"]
    [] d = "wsqk_malformed"  -> [r EXCEPT !.wsqk.kind = "malformed"]
    [] d = "wsqk_wallet"     -> SealAuthority([r EXCEPT !.wsqk.wallet = "x"])
    [] d = "wsqk_context"    -> SealAuthority([r EXCEPT !.wsqk.context = Other])
    [] d = "wsqk_nonce"      -> SealAuthority([r EXCEPT !.wsqk.nonce = "m"])
    [] d = "wsqk_window"     -> SealAuthority([r EXCEPT !.wsqk.expires_at = 6])
    [] d = "blank_nonce"     -> Seal([r EXCEPT !.nonce = " ", !.wsqk.nonce = " ",
                                              !.qid.replay_proof.session_nonce = " "])
    [] d = "quantum_v1"      -> [QuantumAware(r) EXCEPT !.wsqk.kind = "v1"]
    [] d = "quantum_family"  -> SealAuthority([QuantumAware(r) EXCEPT
                                  !.wsqk.families = <<"pqc_signature">>])
    [] d = "quantum_unknown_family" ->
         SealAuthority([QuantumAware(r) EXCEPT !.wsqk.families = <<"other">>,
                                               !.scope.families = <<"other">>])
    [] d = "quantum_posture" -> SealAuthority([QuantumAware(r) EXCEPT
                                  !.wsqk.posture = "classical"])
    [] d = "quantum_binding" -> [QuantumAware(r) EXCEPT !.wsqk.binding = NoContext]
    [] d = "not_confirmed"   -> [r EXCEPT !.ui_confirmed = FALSE]

DamageQid(r, d) ==
  CASE d = "shape_a"         -> Seal([r EXCEPT !.qid.form = "shape_a"])
    [] d = "qid_malformed"   -> [r EXCEPT !.qid.malformed = TRUE]
    [] d = "qid_no_context"  -> Seal([r EXCEPT !.qid.context = NoContext])
    [] d = "qid_context"     -> Seal([r EXCEPT !.qid.context = Other])
    [] d = "qid_early"       -> Seal([r EXCEPT !.qid.issued_at = 3])
    [] d = "qid_expired"     -> Seal([r EXCEPT !.qid.expires_at = 3])
    [] d = "qid_hash"        -> [r EXCEPT !.qid.proof_hash = NoContext]
    [] d = "no_replay_proof" -> [r EXCEPT !.qid.replay_proof = NoReplayProof]
    [] d = "replay_wallet"   -> [r EXCEPT !.qid.replay_proof.wallet = "x"]
    [] d = "replay_hash"     -> [r EXCEPT !.qid.replay_proof.proof_hash = NoContext]
    [] d = "replay_nonce"    -> [r EXCEPT !.qid.replay_proof.session_nonce = "m"]
    [] d = "replay_stale"    -> [r EXCEPT !.qid.replay_proof.fresh = FALSE]

DamageOracle(r, d) ==
  CASE d = "oracle_version"  -> [r EXCEPT !.oracle.wrong_version = TRUE]
    [] d = "oracle_context"  -> [r EXCEPT !.oracle.context = Other]
    [] d = "oracle_stale"    -> [r EXCEPT !.oracle.expires_at = 2]
    [] d = "oracle_future"   -> [r EXCEPT !.oracle.generated_at = 3]
    [] d = "oracle_low"      -> [r EXCEPT !.oracle.score = 84]
    [] d = "oracle_range"    -> [r EXCEPT !.oracle.score = 101]
    [] d = "oracle_reason"   -> [r EXCEPT !.oracle.reasons = {"ok", "odd"}]
    [] d = "oracle_unmapped" -> [r EXCEPT !.oracle.reasons = {"new"}]

DamageShield(r, d) ==
  CASE d = "direct_verdict"    -> [r EXCEPT !.shield.kind = "direct_verdict"]
    [] d = "receipt_malformed" -> [r EXCEPT !.shield.malformed = TRUE]
    [] d = "receipt_context"   ->
         SealReceipt([r EXCEPT !.shield = Shield("receipt", "r1", Other)])
    [] d = "verdict_request"   ->
         SealReceipt([r EXCEPT !.shield.component_verdicts[2].request_id = "r0"])
    [] d = "verdict_authority" ->
         SealReceipt([r EXCEPT !.shield.component_verdicts[1].metadata_authority = TRUE])
    [] d = "verdict_skipped"   ->
         SealReceipt([r EXCEPT !.shield.component_verdicts[3].decision = "SKIPPED"])
    [] d = "component_missing" ->
         SealReceipt([r EXCEPT !.shield.component_verdicts = SubSeq(@, 1, 4)])
    [] d = "deny"              -> FourthVerdict(r, "DENY", "DENY", "ORCH_DENY_DOMINATES")
    [] d = "deny_dressed_as_allow" ->
         SealReceipt([r EXCEPT !.shield.component_verdicts[4].decision = "DENY"])
    [] d = "escalate"          ->
         FourthVerdict(r, "ESCALATE", "HUMAN_REVIEW_REQUIRED",
                  "ORCH_HUMAN_REVIEW_ESCALATE_PRESENT")
    [] d = "component_error"   ->
         FourthVerdict(r, "ERROR", "DENY", "ORCH_ERROR_INVALID_COMPONENT_VERDICT")
    [] d = "receipt_tampered"  -> [r EXCEPT !.shield.receipt_hash = NoContext]
    [] d = "receipt_request"   ->
         SealReceipt([r EXCEPT !.shield = Shield("receipt", "r0", r.shield.context)])
    [] d = "bundle"            -> Bundle(r)
    [] d = "bundle_watch"      ->
         [Bundle(r) EXCEPT !.shield.signals = {[g EXCEPT !.reason = "watch"] : g \in @}]
    [] d = "bundle_unknown_reason" ->
         [Bundle(r) EXCEPT !.shield.signals = {[g EXCEPT !.reason = "odd"] : g \in @}]
    [] d = "bundle_stale"      ->
         [Bundle(r) EXCEPT !.shield.expires_at = 3,
            !.shield.signals = {[g EXCEPT !.expires_at = 3] : g \in @}]
    [] d = "bundle_layer_missing" ->
         [Bundle(r) EXCEPT !.shield.signals = {g \in @ : g.layer # "qwg"}]
    [] d = "bundle_context"    -> [Bundle(r) EXCEPT !.shield.context = Other]

Damage(r, d) ==
  CASE d \in EnvelopeDefects -> DamageEnvelope(r, d)
    [] d \in QidDefects      -> DamageQid(r, d)
    [] d \in OracleDefects   -> DamageOracle(r, d)
    [] d \in ShieldDefects   -> DamageShield(r, d)

Defects == EnvelopeDefects \cup QidDefects \cup OracleDefects \cup ShieldDefects

\* Requests whose names or confirmation decide what their evidence binds to.
Variants ==
  {Plain("n"), Plain("n "), QuantumAware(Plain("n")),
   Request("w", "n", FALSE, ContextHash("w", "send", FALSE)),
   Request("w", "n", FALSE, ContextHash("w", "send", TRUE)),
   Request(" w", "n", TRUE, ContextHash(" w", "send", TRUE)),
   Request(" w", "n", TRUE, ContextHash("w", "send", TRUE)),
   Request(" ", "n", TRUE, ContextHash(" ", "send", TRUE))}

MCRequests ==
  Variants \cup {Damage(Damage(Plain("n"), d), e) : d \in Defects, e \in Defects}

MCDeployments ==
  {Host,
   [Host EXCEPT !.require_protected_call = TRUE, !.require_full_mode = TRUE,
                !.require_qid_replay_proof = TRUE, !.require_authenticated = TRUE],
   [Host EXCEPT !.require_authenticated = TRUE, !.shield_verifier = FALSE],
   [Host EXCEPT !.require_authenticated = TRUE, !.oracle_verifier = FALSE],
   [Host EXCEPT !.qid_verifier = FALSE],
   [Host EXCEPT !.rejected_receipts = {Plain("n").shield.receipt_hash}],
   [Host EXCEPT !.receipt_boundary = FALSE],
   [Host EXCEPT !.valid = FALSE]}

=============================================================================
