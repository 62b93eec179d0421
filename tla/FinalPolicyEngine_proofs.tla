----------------------- MODULE FinalPolicyEngine_proofs -----------------------
(***************************************************************************)
(* What the final policy engine computes, for every engine input.          *)
(***************************************************************************)
EXTENDS FinalPolicyEngine, FailClosed_proofs

(***************************************************************************)
(* The gates of the engine.                                                *)
(***************************************************************************)

\* Conditions under which the shield gate accepts a Shield v4 result.
V4Accepted(v4) ==
  /\ v4.verified /\ v4.receipt /\ v4.v4_schema /\ v4.summary /\ v4.v4_policy
  /\ RequiredAlgorithms \subseteq v4.orchestrator
  /\ {c.component_id : c \in v4.components} = RequiredComponents
  /\ \A c \in v4.components : RequiredAlgorithms \subseteq c.verified_algorithms

\* The Shield v4 chain passes exactly the results all its checks accept.
LEMMA ShieldV4FailureOK ==
  ASSUME NEW v4
  PROVE  ShieldV4Failure(v4) = OK <=> V4Accepted(v4)
<1> DEFINE s == <<
       Reject("SHIELD_V4_VERIFIED_RESULT_REQUIRED", ~v4.verified),
       Reject("SHIELD_V4_RECEIPT_REQUIRED", ~v4.receipt),
       Reject("SHIELD_V4_DOWNGRADE_REJECTED", ~v4.v4_schema),
       Reject("SHIELD_V4_VERIFICATION_SUMMARY_REQUIRED", ~v4.summary),
       Reject("SHIELD_V4_POLICY_REQUIRED", ~v4.v4_policy),
       Reject("SHIELD_V4_ORCHESTRATOR_SIGNATURE_SUMMARY_REQUIRED",
              ~(RequiredAlgorithms \subseteq v4.orchestrator)),
       Reject("SHIELD_V4_COMPONENT_SIGNATURE_SUMMARY_REQUIRED",
              \/ {c.component_id : c \in v4.components} # RequiredComponents
              \/ \E c \in v4.components :
                   ~(RequiredAlgorithms \subseteq c.verified_algorithms)) >>
<1>1. ShieldV4Failure(v4) = FirstRejection(s)
  BY DEF ShieldV4Failure
<1>2. /\ Len(s) = 7
      /\ s[1] = Reject("SHIELD_V4_VERIFIED_RESULT_REQUIRED", ~v4.verified)
      /\ s[2] = Reject("SHIELD_V4_RECEIPT_REQUIRED", ~v4.receipt)
      /\ s[3] = Reject("SHIELD_V4_DOWNGRADE_REJECTED", ~v4.v4_schema)
      /\ s[4] = Reject("SHIELD_V4_VERIFICATION_SUMMARY_REQUIRED", ~v4.summary)
      /\ s[5] = Reject("SHIELD_V4_POLICY_REQUIRED", ~v4.v4_policy)
      /\ s[6] = Reject("SHIELD_V4_ORCHESTRATOR_SIGNATURE_SUMMARY_REQUIRED",
                       ~(RequiredAlgorithms \subseteq v4.orchestrator))
      /\ s[7] = Reject("SHIELD_V4_COMPONENT_SIGNATURE_SUMMARY_REQUIRED",
                  \/ {c.component_id : c \in v4.components} # RequiredComponents
                  \/ \E c \in v4.components :
                       ~(RequiredAlgorithms \subseteq c.verified_algorithms))
  OBVIOUS
<1> HIDE DEF s
<1>3. FirstRejection(s) = OK <=> \A i \in 1..7 : s[i] = OK
  BY <1>2, FirstRejectionOutcome
<1>4. (\A i \in 1..7 : s[i] = OK) <=>
        s[1] = OK /\ s[2] = OK /\ s[3] = OK /\ s[4] = OK /\ s[5] = OK
          /\ s[6] = OK /\ s[7] = OK
  OBVIOUS
<1>5. s[7] = OK <=>
        /\ {c.component_id : c \in v4.components} = RequiredComponents
        /\ \A c \in v4.components : RequiredAlgorithms \subseteq c.verified_algorithms
  BY <1>2, Zenon DEF Reject, OK
<1>6. s[6] = OK <=> RequiredAlgorithms \subseteq v4.orchestrator
  BY <1>2, Zenon DEF Reject, OK
<1>7. s[1] = OK /\ s[2] = OK /\ s[3] = OK /\ s[4] = OK /\ s[5] = OK <=>
        v4.verified /\ v4.receipt /\ v4.v4_schema /\ v4.summary /\ v4.v4_policy
  BY <1>2, Zenon DEF Reject, OK
<1> QED BY <1>1, <1>3, <1>4, <1>5, <1>6, <1>7, Zenon DEF V4Accepted

\* Conditions under which an evidence gate lets the loop go on.
EvidenceAccepted(gate, e, expected_context, shield_v4_required) ==
  /\ e.present /\ ~e.final_approval /\ ~e.hidden_authority
  /\ e.accepted_as_evidence /\ e.handoff_allowed
  /\ e.context = expected_context /\ ~e.human_review
  /\ gate = "shield" /\ shield_v4_required => V4Accepted(e.v4)

\* An evidence gate passes exactly accepted evidence, and never approves.
LEMMA EvidenceGateStateOK ==
  ASSUME NEW gate, NEW e, NEW expected, NEW required
  PROVE  LET state == EvidenceGateState(gate, e, expected, required)
         IN  /\ state = OK <=> EvidenceAccepted(gate, e, expected, required)
             /\ state # ALLOW
<1> DEFINE state == EvidenceGateState(gate, e, expected, required)
           s == <<
             Reject("DENY_MISSING_EVIDENCE", ~e.present),
             Reject("DENY_AUTHORITY_BYPASS", e.final_approval \/ e.hidden_authority),
             Reject("DENY_EVIDENCE_REJECTED", ~e.accepted_as_evidence),
             Reject("DENY_SHIELD_V4_REQUIRED",
                    /\ gate = "shield"
                    /\ required
                    /\ ShieldV4Failure(e.v4) # OK),
             Reject("DENY_HANDOFF_BLOCKED", ~e.handoff_allowed),
             Reject("DENY_CONTEXT_MISMATCH", e.context # expected),
             Reject("HUMAN_REVIEW_REQUIRED", e.human_review) >>
<1>1. state = FirstRejection(s)
  BY DEF EvidenceGateState
<1>2. /\ Len(s) = 7
      /\ s[1] = Reject("DENY_MISSING_EVIDENCE", ~e.present)
      /\ s[2] = Reject("DENY_AUTHORITY_BYPASS", e.final_approval \/ e.hidden_authority)
      /\ s[3] = Reject("DENY_EVIDENCE_REJECTED", ~e.accepted_as_evidence)
      /\ s[4] = Reject("DENY_SHIELD_V4_REQUIRED",
                       gate = "shield" /\ required /\ ShieldV4Failure(e.v4) # OK)
      /\ s[5] = Reject("DENY_HANDOFF_BLOCKED", ~e.handoff_allowed)
      /\ s[6] = Reject("DENY_CONTEXT_MISMATCH", e.context # expected)
      /\ s[7] = Reject("HUMAN_REVIEW_REQUIRED", e.human_review)
  OBVIOUS
<1> HIDE DEF s, state
<1>3. /\ FirstRejection(s) = OK <=> \A i \in 1..7 : s[i] = OK
      /\ FirstRejection(s) # OK => \E i \in 1..7 : FirstRejection(s) = s[i]
  BY <1>2, FirstRejectionOutcome
<1>4. (\A i \in 1..7 : s[i] = OK) <=>
        s[1] = OK /\ s[2] = OK /\ s[3] = OK /\ s[4] = OK /\ s[5] = OK
          /\ s[6] = OK /\ s[7] = OK
  OBVIOUS
<1>5. \A i \in 1..7 : i = 1 \/ i = 2 \/ i = 3 \/ i = 4 \/ i = 5 \/ i = 6 \/ i = 7
  OBVIOUS
<1>6. s[1] # ALLOW /\ s[2] # ALLOW /\ s[3] # ALLOW /\ s[4] # ALLOW /\ s[5] # ALLOW
        /\ s[6] # ALLOW /\ s[7] # ALLOW /\ OK # ALLOW
  BY <1>2 DEF Reject, OK, ALLOW
<1>7. state # ALLOW
  BY <1>1, <1>3, <1>5, <1>6, Zenon
<1>8. s[4] = OK <=> (gate = "shield" /\ required => V4Accepted(e.v4))
  BY <1>2, ShieldV4FailureOK, Zenon DEF Reject, OK
<1>9. s[1] = OK /\ s[2] = OK /\ s[3] = OK /\ s[5] = OK /\ s[6] = OK /\ s[7] = OK <=>
        /\ e.present /\ ~e.final_approval /\ ~e.hidden_authority
        /\ e.accepted_as_evidence /\ e.handoff_allowed
        /\ e.context = expected /\ ~e.human_review
  BY <1>2, Zenon DEF Reject, OK
<1>10. state = OK <=> EvidenceAccepted(gate, e, expected, required)
  BY <1>1, <1>3, <1>4, <1>8, <1>9, Zenon DEF EvidenceAccepted
<1> QED BY <1>7, <1>10, Zenon DEF state

\* A local gate passes exactly its own, passed and review-free results, and
\* never approves.
LEMMA LocalGateStateOK ==
  ASSUME NEW gate \in Range(LocalGates), NEW g
  PROVE  /\ LocalGateState(gate, g) = OK <=>
              g.gate = gate /\ g.passed /\ ~g.requires_human_review
         /\ LocalGateState(gate, g) # ALLOW
<1> DEFINE s == <<
       Reject("DENY_GATE_SHAPE_INVALID", g.gate # gate),
       Reject(LocalDenyState[gate], ~g.passed),
       Reject("HUMAN_REVIEW_REQUIRED", g.requires_human_review) >>
<1>1. LocalGateState(gate, g) = FirstRejection(s)
  BY DEF LocalGateState
<1>2. /\ Len(s) = 3
      /\ s[1] = Reject("DENY_GATE_SHAPE_INVALID", g.gate # gate)
      /\ s[2] = Reject(LocalDenyState[gate], ~g.passed)
      /\ s[3] = Reject("HUMAN_REVIEW_REQUIRED", g.requires_human_review)
  OBVIOUS
<1> HIDE DEF s
<1>3. /\ FirstRejection(s) = OK <=> \A i \in 1..3 : s[i] = OK
      /\ FirstRejection(s) # OK => \E i \in 1..3 : FirstRejection(s) = s[i]
  BY <1>2, FirstRejectionOutcome
<1>4. (\A i \in 1..3 : s[i] = OK) <=> s[1] = OK /\ s[2] = OK /\ s[3] = OK
  OBVIOUS
<1>5. \A i \in 1..3 : i = 1 \/ i = 2 \/ i = 3
  OBVIOUS
<1>6. gate = "replay" \/ gate = "wallet_policy" \/ gate = "human"
  BY DEF LocalGates, Range
<1>7. LocalDenyState[gate] \in
        {"DENY_REPLAY_GATE", "DENY_WALLET_POLICY_GATE", "DENY_HUMAN_GATE"}
  BY <1>6 DEF LocalDenyState
<1>8. s[1] # ALLOW /\ s[2] # ALLOW /\ s[3] # ALLOW /\ OK # ALLOW
  BY <1>2, <1>7 DEF Reject, OK, ALLOW
<1>9. s[1] = OK /\ s[2] = OK /\ s[3] = OK <=>
        g.gate = gate /\ g.passed /\ ~g.requires_human_review
  <2>1. LocalDenyState[gate] # OK
    BY <1>7 DEF OK
  <2> QED BY <1>2, <2>1, Zenon DEF Reject, OK
<1> QED BY <1>1, <1>3, <1>4, <1>5, <1>8, <1>9, Zenon

(***************************************************************************)
(* The engine.                                                             *)
(***************************************************************************)

\* The locked order, gate by gate.
LEMMA LockedOrder ==
  /\ Len(Gates) = 8
  /\ Gates[1] = "shield" /\ Gates[2] = "wsqk_v2" /\ Gates[3] = "qid"
  /\ Gates[4] = "adaptive_core" /\ Gates[5] = "ai_gateway" /\ Gates[6] = "replay"
  /\ Gates[7] = "wallet_policy" /\ Gates[8] = "human"
  /\ Range(EvidenceGates) = {"shield", "wsqk_v2", "qid", "adaptive_core", "ai_gateway"}
  /\ Range(LocalGates) = {"replay", "wallet_policy", "human"}
<1>1. /\ Len(EvidenceGates) = 5 /\ Len(LocalGates) = 3
      /\ EvidenceGates[1] = "shield" /\ EvidenceGates[2] = "wsqk_v2"
      /\ EvidenceGates[3] = "qid" /\ EvidenceGates[4] = "adaptive_core"
      /\ EvidenceGates[5] = "ai_gateway"
      /\ LocalGates[1] = "replay" /\ LocalGates[2] = "wallet_policy"
      /\ LocalGates[3] = "human"
  BY DEF EvidenceGates, LocalGates
<1>2. DOMAIN EvidenceGates = 1..5 /\ DOMAIN LocalGates = 1..3
  BY DEF EvidenceGates, LocalGates
<1>3. Range(EvidenceGates) = {"shield", "wsqk_v2", "qid", "adaptive_core", "ai_gateway"}
  BY DEF EvidenceGates, Range
<1>4. Range(LocalGates) = {"replay", "wallet_policy", "human"}
  BY DEF LocalGates, Range
<1> DEFINE S == {"shield", "wsqk_v2", "qid", "adaptive_core", "ai_gateway",
                 "replay", "wallet_policy", "human"}
<1>5. EvidenceGates \in Seq(S) /\ LocalGates \in Seq(S)
  BY DEF EvidenceGates, LocalGates
<1>6. /\ Len(Gates) = 8
      /\ \A i \in 1..8 :
           Gates[i] = IF i <= 5 THEN EvidenceGates[i] ELSE LocalGates[i - 5]
  <2> HIDE DEF S
  <2>1. /\ Len(Gates) = Len(EvidenceGates) + Len(LocalGates)
        /\ \A i \in 1..(Len(EvidenceGates) + Len(LocalGates)) :
             Gates[i] = IF i <= Len(EvidenceGates) THEN EvidenceGates[i]
                        ELSE LocalGates[i - Len(EvidenceGates)]
    BY <1>5, ConcatProperties, Zenon DEF Gates
  <2> QED BY <1>1, <2>1
<1>7. /\ Gates[1] = EvidenceGates[1] /\ Gates[2] = EvidenceGates[2]
      /\ Gates[3] = EvidenceGates[3] /\ Gates[4] = EvidenceGates[4]
      /\ Gates[5] = EvidenceGates[5] /\ Gates[6] = LocalGates[1]
      /\ Gates[7] = LocalGates[2] /\ Gates[8] = LocalGates[3]
  BY <1>6
<1> QED BY <1>1, <1>3, <1>4, <1>6, <1>7, Zenon

\* What a gate asks for: accepted evidence, or its own passed local result.
GateAccepted(in, gate) ==
  IF gate \in Range(EvidenceGates)
  THEN EvidenceAccepted(gate, in.evidence[gate], in.expected_context,
                        in.shield_v4_required)
  ELSE /\ in.local[gate].gate = gate /\ in.local[gate].passed
       /\ ~in.local[gate].requires_human_review

\* A gate passes exactly what it asks for; no gate approves by itself.
LEMMA GateStateOK ==
  ASSUME NEW in, NEW i \in 1..Len(Gates)
  PROVE  /\ GateState(in, Gates[i]) = OK <=> GateAccepted(in, Gates[i])
         /\ GateState(in, Gates[i]) # ALLOW
<1>1. CASE Gates[i] \in Range(EvidenceGates)
  BY <1>1, EvidenceGateStateOK, Zenon DEF GateState, GateAccepted
<1>2. CASE Gates[i] \notin Range(EvidenceGates)
  <2>1. i \in 1..8
    BY LockedOrder
  <2>2. i = 1 \/ i = 2 \/ i = 3 \/ i = 4 \/ i = 5 \/ i = 6 \/ i = 7 \/ i = 8
    BY <2>1
  <2>3. Gates[i] \in Range(LocalGates)
    BY <1>2, <2>2, LockedOrder
  <2> QED BY <1>2, <2>3, LocalGateStateOK, Zenon DEF GateState, GateAccepted
<1> QED BY <1>1, <1>2

\* The positions of the gate states are those of the locked order.
LEMMA GateStatesAt ==
  ASSUME NEW in
  PROVE  /\ Len(Gates) \in Nat
         /\ Len(GateStates(in)) = Len(Gates)
         /\ \A i \in 1..Len(Gates) : GateStates(in)[i] = GateState(in, Gates[i])
  BY LockedOrder DEF GateStates

\* evaluate_final_policy_engine approves exactly when the call is well-formed
\* and every one of the eight gates has what it asks for: no evidence and no
\* local gate can be left out, outvoted or made up for.
THEOREM EngineApprovesUnanimously ==
  ASSUME NEW in
  PROVE  Evaluate(in).state = ALLOW <=>
           /\ Preliminary(in) = OK
           /\ \A i \in 1..Len(Gates) : GateAccepted(in, Gates[i])
<1> DEFINE at == FirstRejectedAt(GateStates(in))
<1>1. Evaluate(in) = IF Preliminary(in) # OK THEN StoppedBeforeGates(in)
                     ELSE LoopResult(in, at)
  BY DEF Evaluate, GatesResult
<1>2. /\ at \in 0..Len(Gates)
      /\ at = 0 <=> \A i \in 1..Len(Gates) : GateState(in, Gates[i]) = OK
  BY GateStatesAt, FirstRejectedAtPosition
<1> HIDE DEF at
<1>3. StoppedBeforeGates(in).state # ALLOW
  BY DEF StoppedBeforeGates, Stopped, ALLOW
<1>4. CASE at = 0
  <2>1. LoopResult(in, at).state = ALLOW
    BY <1>4 DEF LoopResult, FinalAllow, Stopped
  <2> QED BY <1>1, <1>2, <1>3, <1>4, <2>1, GateStateOK, Zenon
<1>5. CASE at # 0
  <2>1. at \in 1..Len(Gates)
    BY <1>2, <1>5, LockedOrder
  <2>2. LoopResult(in, at).state = GateState(in, Gates[at])
    BY <1>5 DEF LoopResult, Stopped
  <2>3. GateState(in, Gates[at]) # ALLOW
    BY <2>1, GateStateOK
  <2> QED BY <1>1, <1>2, <1>3, <1>5, <2>2, <2>3, GateStateOK, Zenon
<1> QED BY <1>4, <1>5

\* A denial of a well-formed call stops at the earliest gate that lacks what it
\* asks for, in the state of that gate.
THEOREM EngineStopsAtEarliestDefect ==
  ASSUME NEW in, Preliminary(in) = OK, Evaluate(in).state # ALLOW
  PROVE  \E n \in 1..Len(Gates) :
           /\ Evaluate(in).stopped_at = Gates[n]
           /\ Evaluate(in).state = GateState(in, Gates[n])
           /\ ~GateAccepted(in, Gates[n])
           /\ \A i \in 1..(n - 1) : GateAccepted(in, Gates[i])
<1> DEFINE at == FirstRejectedAt(GateStates(in))
<1>1. Evaluate(in) = LoopResult(in, at)
  BY DEF Evaluate, GatesResult
<1>2. /\ at \in 0..Len(Gates)
      /\ at # 0 => /\ GateStates(in)[at] # OK
                   /\ \A j \in 1..(at - 1) : GateStates(in)[j] = OK
  BY GateStatesAt, FirstRejectedAtPosition
<1> HIDE DEF at
<1>3. at # 0
  BY <1>1 DEF LoopResult, FinalAllow, Stopped
<1>4. at \in 1..Len(Gates) /\ \A j \in 1..(at - 1) : j \in 1..Len(Gates)
  BY <1>2, <1>3, LockedOrder
<1>5. /\ Evaluate(in).stopped_at = Gates[at]
      /\ Evaluate(in).state = GateState(in, Gates[at])
  BY <1>1, <1>3 DEF LoopResult, Stopped
<1>6. /\ GateState(in, Gates[at]) # OK
      /\ \A j \in 1..(at - 1) : GateState(in, Gates[j]) = OK
  BY <1>2, <1>3, <1>4, GateStatesAt, Zenon
<1>7. /\ ~GateAccepted(in, Gates[at])
      /\ \A j \in 1..(at - 1) : GateAccepted(in, Gates[j])
  BY <1>4, <1>6, GateStateOK, Zenon
<1> QED BY <1>4, <1>5, <1>7, Zenon

=============================================================================
