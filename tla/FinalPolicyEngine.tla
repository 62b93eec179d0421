------------------------- MODULE FinalPolicyEngine --------------------------
(***************************************************************************)
(* policy/final_policy_engine.py: the locked final policy order.           *)
(*                                                                         *)
(* Five normalised evidence results and three local gate results are       *)
(* visited in a fixed order; the first one that does not pass decides.     *)
(* Evaluate is the outcome of evaluate_final_policy_engine as one operator *)
(* (the orchestrator uses it); FinalPolicyLoop models its loop step by     *)
(* step.  An engine input is a record with fields evidence, local,         *)
(* expected_context, well_formed_context, shield_v4_required and           *)
(* well_formed_mode.                                                       *)
(***************************************************************************)
EXTENDS FailClosed

EvidenceGates == <<"shield", "wsqk_v2", "qid", "adaptive_core", "ai_gateway">>
LocalGates    == <<"replay", "wallet_policy", "human">>
Gates         == EvidenceGates \o LocalGates

RequiredAlgorithms == {"classical-ed25519", "ml-dsa"}
RequiredComponents == {"adn", "dqsn", "guardian_wallet", "qwg", "sentinel_ai"}

ALLOW == "ALLOW_FINAL_ADAMANTINEOS_DECISION"

-----------------------------------------------------------------------------
(* Normalised evidence.  v4 holds what a Shield v4 verification result      *)
(* carries; evidence of any other boundary carries NotV4.                   *)

NotV4 == [verified |-> FALSE, receipt |-> FALSE, v4_schema |-> FALSE,
          summary |-> FALSE, v4_policy |-> FALSE, orchestrator |-> {},
          components |-> {}]

\* Mutant: the component summaries are not looked at.
ShieldV4FailureWithoutComponents(v4) ==
  FirstRejection(<<
    Reject("SHIELD_V4_VERIFIED_RESULT_REQUIRED", ~v4.verified),
    Reject("SHIELD_V4_RECEIPT_REQUIRED", ~v4.receipt),
    Reject("SHIELD_V4_DOWNGRADE_REJECTED", ~v4.v4_schema),
    Reject("SHIELD_V4_VERIFICATION_SUMMARY_REQUIRED", ~v4.summary),
    Reject("SHIELD_V4_POLICY_REQUIRED", ~v4.v4_policy),
    Reject("SHIELD_V4_ORCHESTRATOR_SIGNATURE_SUMMARY_REQUIRED",
           ~(RequiredAlgorithms \subseteq v4.orchestrator)) >>)

\* _shield_v4_requirement_failure
ShieldV4Failure(v4) ==
  FirstRejection(<<
    Reject("SHIELD_V4_VERIFIED_RESULT_REQUIRED", ~v4.verified),
    Reject("SHIELD_V4_RECEIPT_REQUIRED", ~v4.receipt),
    Reject("SHIELD_V4_DOWNGRADE_REJECTED", ~v4.v4_schema),
    Reject("SHIELD_V4_VERIFICATION_SUMMARY_REQUIRED", ~v4.summary),
    Reject("SHIELD_V4_POLICY_REQUIRED", ~v4.v4_policy),
    Reject("SHIELD_V4_ORCHESTRATOR_SIGNATURE_SUMMARY_REQUIRED",
           ~(RequiredAlgorithms \subseteq v4.orchestrator)),
    Reject("SHIELD_V4_COMPONENT_SIGNATURE_SUMMARY_REQUIRED",
           \/ {c.component_id : c \in v4.components} # RequiredComponents
           \/ \E c \in v4.components :
                ~(RequiredAlgorithms \subseteq c.verified_algorithms)) >>)

\* _evaluate_evidence_gate: OK, or the state the engine stops in.
EvidenceGateState(gate, e, expected_context, shield_v4_required) ==
  FirstRejection(<<
    Reject("DENY_MISSING_EVIDENCE", ~e.present),
    Reject("DENY_AUTHORITY_BYPASS", e.final_approval \/ e.hidden_authority),
    Reject("DENY_EVIDENCE_REJECTED", ~e.accepted_as_evidence),
    Reject("DENY_SHIELD_V4_REQUIRED",
           /\ gate = "shield"
           /\ shield_v4_required
           /\ ShieldV4Failure(e.v4) # OK),
    Reject("DENY_HANDOFF_BLOCKED", ~e.handoff_allowed),
    Reject("DENY_CONTEXT_MISMATCH", e.context # expected_context),
    Reject("HUMAN_REVIEW_REQUIRED", e.human_review) >>)

LocalDenyState ==
  [replay        |-> "DENY_REPLAY_GATE",
   wallet_policy |-> "DENY_WALLET_POLICY_GATE",
   human         |-> "DENY_HUMAN_GATE"]

\* _evaluate_local_gate
LocalGateState(gate, g) ==
  FirstRejection(<<
    Reject("DENY_GATE_SHAPE_INVALID", g.gate # gate),
    Reject(LocalDenyState[gate], ~g.passed),
    Reject("HUMAN_REVIEW_REQUIRED", g.requires_human_review) >>)

GateState(in, gate) ==
  IF gate \in Range(EvidenceGates)
  THEN EvidenceGateState(gate, in.evidence[gate], in.expected_context,
                         in.shield_v4_required)
  ELSE LocalGateState(gate, in.local[gate])

\* The reason id the engine reports for the state it stopped in: a fixed one,
\* or the one the gate's input brought along.
EngineReason(in, gate, state) ==
  CASE state = "DENY_AUTHORITY_BYPASS"   -> "DENY_AUTHORITY_INVALID"
    [] state = "DENY_CONTEXT_MISMATCH"   -> "EQC_CONFLICTING_EVIDENCE"
    [] state = "DENY_SHIELD_V4_REQUIRED" -> "EQC_INVALID_SHIELD_BUNDLE"
    [] state \in {"DENY_MISSING_EVIDENCE", "DENY_GATE_SHAPE_INVALID"}
                                         -> "DENY_POLICY"
    [] OTHER -> IF gate \in Range(EvidenceGates) THEN in.evidence[gate].reason
                                                 ELSE in.local[gate].reason

\* The two preliminary checks of evaluate_final_policy_engine.
Preliminary(in) ==
  FirstRejection(<<
    Reject("DENY_CONTEXT_MISMATCH", ~in.well_formed_context),
    Reject("DENY_SHIELD_V4_REQUIRED", ~in.well_formed_mode) >>)

Stopped(state, reason, at) ==
  [state |-> state, reason |-> reason, stopped_at |-> at,
   final_approval |-> state = ALLOW]

StoppedBeforeGates(in) ==
  IF Preliminary(in) = "DENY_CONTEXT_MISMATCH"
  THEN Stopped("DENY_CONTEXT_MISMATCH", "EQC_CONFLICTING_EVIDENCE",
               "expected_context_hash")
  ELSE Stopped("DENY_SHIELD_V4_REQUIRED", "EQC_INVALID_SHIELD_BUNDLE",
               "shield_v4_required")

FinalAllow == Stopped(ALLOW, "OK_ALLOW", "final_adamantineos_decision")

GateStates(in) == [i \in 1..Len(Gates) |-> GateState(in, Gates[i])]

\* The result of the loop that stopped at position at of Gates, 0 for its end.
LoopResult(in, at) ==
  IF at = 0 THEN FinalAllow
  ELSE LET state == GateState(in, Gates[at])
       IN  Stopped(state, EngineReason(in, Gates[at], state), Gates[at])

\* The gates one after the other: the result at the first one that stops.
GatesResult(in) ==
  CHOOSE result \in {LoopResult(in, at) : at \in {FirstRejectedAt(GateStates(in))}} : TRUE

\* evaluate_final_policy_engine as one operator (in and at are bound once).
Evaluate(in) ==
  CHOOSE result \in
    {IF Preliminary(i) # OK THEN StoppedBeforeGates(i) ELSE GatesResult(i) : i \in {in}} : TRUE

=============================================================================
