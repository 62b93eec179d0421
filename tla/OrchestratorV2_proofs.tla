------------------------- MODULE OrchestratorV2_proofs -------------------------
(***************************************************************************)
(* For every number of calls, every set of requests and deployments, and   *)
(* any number of crashes: the type invariant of OrchestratorV2, and, over a*)
(* durable nonce store, that no two calls execute on one nonce and that    *)
(* the orchestrator implements SingleUseExecution.                         *)
(***************************************************************************)
EXTENDS OrchestratorV2Requirements, FinalPolicyEngine_proofs

(***************************************************************************)
(* Responses.                                                              *)
(***************************************************************************)

\* Every response the function can build is one.
LEMMA ResponseTypes ==
  /\ \A reason : IsResponse(OnAdapterError(reason))
  /\ \A reason : IsResponse(OnTVAError(reason))
  /\ \A reason : IsResponse(OnEnvelopeError(reason))
  /\ IsResponse(OnException)
  /\ \A class : IsResponse(OnExecutorError(class))
  /\ \A r : IsResponse(PostureDenied(r))
  /\ \A r : IsResponse(AllowResponse(r))
  /\ \A r, input :
       \A valid \in SUBSET EvidenceKinds, allowed \in SUBSET {"tva", "eqc", "wsqk"},
          nonce_consumed \in BOOLEAN :
         IsResponse(EngineDenied(r, input, valid, allowed, nonce_consumed))
<1>1. /\ \A reason : IsResponse(OnAdapterError(reason))
      /\ \A reason : IsResponse(OnTVAError(reason))
      /\ \A reason : IsResponse(OnEnvelopeError(reason))
      /\ IsResponse(OnException)
      /\ \A r : IsResponse(PostureDenied(r))
  BY DEF IsResponse, Statuses, EvidenceKinds, Response, OnAdapterError, OnTVAError,
         OnEnvelopeError, OnException, PostureDenied
<1>2. \A class : IsResponse(OnExecutorError(class))
  BY <1>1, Zenon DEF OnExecutorError
<1>3. \A protected, valid : ProtectionMode(protected, valid)
                              \in {"legacy", "minimal", "full"}
  BY DEF ProtectionMode
<1>4. \A r : IsResponse(AllowResponse(r))
  BY <1>3 DEF AllowResponse, IsResponse, Statuses, EvidenceKinds
<1>5. ASSUME NEW r, NEW input,
             NEW valid \in SUBSET EvidenceKinds,
             NEW allowed \in SUBSET {"tva", "eqc", "wsqk"},
             NEW nonce_consumed \in BOOLEAN
      PROVE  IsResponse(EngineDenied(r, input, valid, allowed, nonce_consumed))
  <2>1. (Evaluate(input).state = ALLOW) \in BOOLEAN
    OBVIOUS
  <2> QED BY <1>3, <2>1 DEF EngineDenied, IsResponse, Statuses
<1> QED BY <1>1, <1>2, <1>4, <1>5, Zenon

(***************************************************************************)
(* The shape of a step of a call.                                          *)
(***************************************************************************)

\* Call c goes on to a stage it was not yet in, or returns.
Moves(c) ==
  \/ \E stage \in Stages \ {"parse"} : Advance(c, stage)
  \/ \E response : IsResponse(response) /\ Return(c, response)

\* What no step of a call changes.
CallFrame == UNCHANGED <<deployment, clock, crashes, req, now>>

\* The stages in front of the enforcement gate, and where a call can come to
\* from them.
EarlyStages == {"parse", "posture", "qid", "replay_proof", "oracle", "shield",
                "eqc", "authority"}

EarlyStep(c) ==
  \/ ParseEnvelope(c) \/ CheckPosture(c) \/ VerifyQid(c) \/ VerifyReplayProof(c)
  \/ VerifyOracle(c) \/ VerifyShieldReceipt(c) \/ ParseShieldBundle(c)
  \/ EvaluateEqc(c) \/ ExtractAuthority(c)

EarlyMoves(c) ==
  \/ \E stage \in EarlyStages \cup {"tva"} : stage # "parse" /\ Advance(c, stage)
  \/ \E response : IsResponse(response) /\ Return(c, response)

\* A stage that decides moves early when both its ends do.
LEMMA DecideEarly ==
  ASSUME NEW c, NEW rejection,
         NEW stage \in (EarlyStages \cup {"tva"}) \ {"parse"}, NEW response,
         Decide(c, rejection, stage, response), IsResponse(response)
  PROVE  EarlyMoves(c)
BY Zenon DEF Decide, EarlyMoves

\* Nothing in front of the gate touches store, replay gate, nonce or executor.
LEMMA EarlyStepShape ==
  ASSUME NEW c, EarlyStep(c)
  PROVE  /\ pc[c] \in EarlyStages
         /\ EarlyMoves(c)
         /\ CallFrame
         /\ UNCHANGED <<used, replay_reason, consumed, effect>>
         /\ \/ UNCHANGED authentic
            \/ \E kind \in EvidenceKinds :
                 authentic' = [authentic EXCEPT ![c] = @ \cup {kind}]
<1> DEFINE Quiet == /\ CallFrame
                    /\ UNCHANGED <<used, replay_reason, consumed, effect>>
           Vouched == \/ UNCHANGED authentic
                      \/ \E kind \in EvidenceKinds :
                           authentic' = [authentic EXCEPT ![c] = @ \cup {kind}]
<1>1. ASSUME UNCHANGED <<hostVars, used, callVars>>
      PROVE  Quiet /\ Vouched
  BY <1>1 DEF hostVars, callVars, CallFrame
<1>2. ASSUME UNCHANGED <<hostVars, used, req, now, replay_reason, consumed, effect>>,
             NEW kind \in EvidenceKinds, NEW outcome, Authenticate(c, kind, outcome)
      PROVE  Quiet /\ Vouched
  BY <1>2 DEF hostVars, CallFrame, Authenticate
<1>0. /\ {} \in SUBSET EvidenceKinds /\ {"qid"} \in SUBSET EvidenceKinds
      /\ {"qid", "oracle"} \in SUBSET EvidenceKinds
      /\ EvidenceKinds \in SUBSET EvidenceKinds
      /\ {} \in SUBSET {"tva", "eqc", "wsqk"} /\ {"eqc"} \in SUBSET {"tva", "eqc", "wsqk"}
      /\ FALSE \in BOOLEAN
      /\ "qid" \in EvidenceKinds /\ "oracle" \in EvidenceKinds /\ "shield" \in EvidenceKinds
  BY DEF EvidenceKinds
<1>3. /\ "posture" \in (EarlyStages \cup {"tva"}) \ {"parse"}
      /\ "qid" \in (EarlyStages \cup {"tva"}) \ {"parse"}
      /\ "replay_proof" \in (EarlyStages \cup {"tva"}) \ {"parse"}
      /\ "oracle" \in (EarlyStages \cup {"tva"}) \ {"parse"}
      /\ "shield" \in (EarlyStages \cup {"tva"}) \ {"parse"}
      /\ "eqc" \in (EarlyStages \cup {"tva"}) \ {"parse"}
      /\ "authority" \in (EarlyStages \cup {"tva"}) \ {"parse"}
      /\ "tva" \in (EarlyStages \cup {"tva"}) \ {"parse"}
      /\ "parse" \in EarlyStages /\ "posture" \in EarlyStages /\ "qid" \in EarlyStages
      /\ "replay_proof" \in EarlyStages /\ "oracle" \in EarlyStages
      /\ "shield" \in EarlyStages /\ "eqc" \in EarlyStages /\ "authority" \in EarlyStages
  BY DEF EarlyStages
<1> SUFFICES pc[c] \in EarlyStages /\ EarlyMoves(c) /\ Quiet /\ Vouched
  OBVIOUS
<1> HIDE DEF Quiet, Vouched
<1>4. CASE ParseEnvelope(c)
  <2> DEFINE rejection == EnvelopeRejection(req[c], now[c])
             response  == OnEnvelopeError(EnvelopeRejection(req[c], now[c]))
  <2>1. /\ pc[c] \in EarlyStages
        /\ Decide(c, rejection, "posture", response)
        /\ UNCHANGED <<hostVars, used, callVars>>
    BY <1>3, <1>4 DEF ParseEnvelope
  <2>2. IsResponse(response)
    BY <1>0, ResponseTypes, Zenon
  <2> HIDE DEF rejection, response
  <2> QED BY <1>1, <1>3, <2>1, <2>2, DecideEarly, Zenon
<1>5. CASE CheckPosture(c)
  <2>1. /\ pc[c] \in EarlyStages
        /\ UNCHANGED <<hostVars, used, callVars>>
    BY <1>3, <1>5 DEF CheckPosture
  <2>2. \/ Return(c, OnTVAError(ScopeRejection(req[c])))
        \/ Return(c, OnException)
        \/ Decide(c, LatchRejection(req[c]), "qid", PostureDenied(req[c]))
    BY <1>5, Zenon DEF CheckPosture
  <2>3. EarlyMoves(c)
    <3>1. CASE Return(c, OnTVAError(ScopeRejection(req[c])))
      BY <3>1, ResponseTypes, Zenon DEF EarlyMoves
    <3>2. CASE Return(c, OnException)
      BY <3>2, ResponseTypes, Zenon DEF EarlyMoves
    <3>3. CASE Decide(c, LatchRejection(req[c]), "qid", PostureDenied(req[c]))
      <4>1. IsResponse(PostureDenied(req[c]))
        BY ResponseTypes, Zenon
      <4> QED BY <1>3, <3>3, <4>1, DecideEarly, Zenon
    <3> QED BY <2>2, <3>1, <3>2, <3>3
  <2> QED BY <1>1, <2>1, <2>3
<1>6. CASE VerifyQid(c)
  <2>1. PICK outcome \in Outcomes(deployment.qid_verifier) :
          LET rejection == QidRejection(req[c].qid, outcome, now[c])
          IN  /\ Decide(c, rejection, "replay_proof",
                        EngineDenied(req[c], EvidenceRejected(req[c], "qid", rejection),
                                     {}, {}, FALSE))
              /\ Authenticate(c, "qid", outcome)
    BY <1>6, Zenon DEF VerifyQid
  <2> DEFINE rejection == QidRejection(req[c].qid, outcome, now[c])
             response  == EngineDenied(req[c], EvidenceRejected(req[c], "qid", rejection),
                                       {}, {}, FALSE)
  <2>2. IsResponse(response)
    BY <1>0, ResponseTypes, Zenon
  <2>3. Decide(c, rejection, "replay_proof", response)
    BY <2>1, Zenon
  <2>4. /\ pc[c] \in EarlyStages
        /\ UNCHANGED <<hostVars, used, req, now, replay_reason, consumed, effect>>
    BY <1>3, <1>6 DEF VerifyQid
  <2> HIDE DEF rejection, response
  <2>5. EarlyMoves(c)
    BY <1>3, <2>2, <2>3, DecideEarly, Zenon
  <2>6. Quiet /\ Vouched
    BY <1>0, <1>2, <2>1, <2>4, Zenon
  <2> QED BY <2>4, <2>5, <2>6
<1>7. CASE VerifyReplayProof(c)
  <2> DEFINE rejection == IF ReplayProofRequired(req[c])
                          THEN ReplayProofRejection(req[c].qid, req[c].wallet,
                                                    req[c].nonce) ELSE OK
             response  == EngineDenied(req[c], ReplayProofRejected(req[c], rejection),
                                       {}, {}, FALSE)
  <2>1. /\ pc[c] \in EarlyStages
        /\ Decide(c, rejection, "oracle", response)
        /\ UNCHANGED <<hostVars, used, callVars>>
    BY <1>3, <1>7 DEF VerifyReplayProof
  <2>2. IsResponse(response)
    BY <1>0, ResponseTypes, Zenon
  <2> HIDE DEF rejection, response
  <2> QED BY <1>1, <1>3, <2>1, <2>2, DecideEarly, Zenon
<1>8. CASE VerifyOracle(c)
  <2> DEFINE Rejection(outcome) ==
               FirstRejection(<<
                 VerifierRejection(outcome, "ORACLE_AUTHENTICITY_VERIFIER_MISSING",
                                   "EQC_INVALID_RISK_REPORT"),
                 OracleRejection(req[c].oracle, now[c], RequestContext(req[c]),
                                 deployment) >>)
             Denial(outcome) ==
               EngineDenied(req[c], EvidenceRejected(req[c], "adaptive_core",
                                                     Rejection(outcome)),
                            {"qid"}, {}, FALSE)
  <2>1. PICK outcome \in LatchedOutcomes(deployment.oracle_verifier) :
          /\ Decide(c, Rejection(outcome), "shield", Denial(outcome))
          /\ Authenticate(c, "oracle", outcome)
    BY <1>8, Zenon DEF VerifyOracle
  <2>2. IsResponse(Denial(outcome))
    BY <1>0, ResponseTypes, Zenon
  <2>3. /\ pc[c] \in EarlyStages
        /\ UNCHANGED <<hostVars, used, req, now, replay_reason, consumed, effect>>
    BY <1>3, <1>8 DEF VerifyOracle
  <2> HIDE DEF Rejection, Denial
  <2>4. EarlyMoves(c)
    BY <1>3, <2>1, <2>2, DecideEarly, Zenon
  <2>5. Quiet /\ Vouched
    BY <1>0, <1>2, <2>1, <2>3, Zenon
  <2> QED BY <2>3, <2>4, <2>5
<1>9. CASE VerifyShieldReceipt(c)
  <2> DEFINE Raised(outcome) ==
               VerifierRejection(outcome, "SHIELD_AUTHENTICITY_VERIFIER_MISSING",
                                 "EQC_INVALID_SHIELD_BUNDLE")
             state  == ReceiptState(req[c].shield, RequestContext(req[c]),
                                    req[c].request_id, deployment.rejected_receipts)
             denied == EvidenceRejected(req[c], "shield", ReceiptReason(state))
             denial == EngineDenied(req[c], denied, {"qid", "oracle"}, {}, FALSE)
             second == InternalizeRejection(req[c].shield)
  <2>1. PICK outcome \in LatchedOutcomes(deployment.shield_verifier) :
          /\ IF Raised(outcome) # OK THEN Return(c, OnAdapterError(Raised(outcome)))
             ELSE IF ~ReceiptAccepted(state) THEN Return(c, denial)
             ELSE Decide(c, second, "eqc", OnAdapterError(second))
          /\ Authenticate(c, "shield", outcome)
    BY <1>9, Zenon DEF VerifyShieldReceipt
  <2>2. IsResponse(denial)
    BY <1>0, ResponseTypes, Zenon
  <2>3. IsResponse(OnAdapterError(Raised(outcome))) /\ IsResponse(OnAdapterError(second))
    BY ResponseTypes, Zenon
  <2>4. /\ pc[c] \in EarlyStages
        /\ UNCHANGED <<hostVars, used, req, now, replay_reason, consumed, effect>>
    BY <1>3, <1>9 DEF VerifyShieldReceipt
  <2> HIDE DEF Raised, state, denied, denial, second
  <2>5. EarlyMoves(c)
    <3>1. CASE Raised(outcome) # OK
      BY <2>1, <2>3, <3>1, Zenon DEF EarlyMoves
    <3>2. CASE Raised(outcome) = OK /\ ~ReceiptAccepted(state)
      BY <2>1, <2>2, <3>2, Zenon DEF EarlyMoves
    <3>3. CASE Raised(outcome) = OK /\ ReceiptAccepted(state)
      BY <1>3, <2>1, <2>3, <3>3, DecideEarly, Zenon
    <3> QED BY <3>1, <3>2, <3>3, Zenon
  <2>6. Quiet /\ Vouched
    BY <1>0, <1>2, <2>1, <2>4, Zenon
  <2> QED BY <2>4, <2>5, <2>6
<1>10. CASE ParseShieldBundle(c)
  <2> DEFINE rejection == BundleRejection(req[c].shield, RequestContext(req[c]), deployment)
             response  == EngineDenied(req[c], EvidenceRejected(req[c], "shield", rejection),
                                       {"qid", "oracle"}, {}, FALSE)
  <2>1. /\ pc[c] \in EarlyStages
        /\ Decide(c, rejection, "eqc", response)
        /\ UNCHANGED <<hostVars, used, callVars>>
    BY <1>3, <1>10 DEF ParseShieldBundle
  <2>2. IsResponse(response)
    BY <1>0, ResponseTypes, Zenon
  <2> HIDE DEF rejection, response
  <2> QED BY <1>1, <1>3, <2>1, <2>2, DecideEarly, Zenon
<1>11. CASE EvaluateEqc(c)
  <2> DEFINE rejection == EqcRejection(req[c], now[c], deployment)
             response  == EngineDenied(req[c], LocalGateFailed(req[c], "wallet_policy", rejection),
                                       EvidenceKinds, {}, FALSE)
  <2>1. /\ pc[c] \in EarlyStages
        /\ Decide(c, rejection, "authority", response)
        /\ UNCHANGED <<hostVars, used, callVars>>
    BY <1>3, <1>11 DEF EvaluateEqc
  <2>2. IsResponse(response)
    BY <1>0, ResponseTypes, Zenon
  <2> HIDE DEF rejection, response
  <2> QED BY <1>1, <1>3, <2>1, <2>2, DecideEarly, Zenon
<1>12. CASE ExtractAuthority(c)
  <2> DEFINE rejection == Reject("DENY_AUTHORITY_INVALID", ~AuthorityBinds(req[c]))
             response  == EngineDenied(req[c], EvidenceRejected(req[c], "wsqk_v2", rejection),
                                       EvidenceKinds, {"eqc"}, FALSE)
  <2>1. /\ pc[c] \in EarlyStages
        /\ Decide(c, rejection, "tva", response)
        /\ UNCHANGED <<hostVars, used, callVars>>
    BY <1>3, <1>12 DEF ExtractAuthority
  <2>2. IsResponse(response)
    BY <1>0, ResponseTypes, Zenon
  <2> HIDE DEF rejection, response
  <2> QED BY <1>1, <1>3, <2>1, <2>2, DecideEarly, Zenon
<1> QED BY <1>4, <1>5, <1>6, <1>7, <1>8, <1>9, <1>10, <1>11, <1>12, Zenon
        DEF EarlyStep

\* From the enforcement gate on.
LateStep(c) ==
  \/ FailTva(c) \/ RejectReplay(c) \/ CheckAndMark(c) \/ LookUpNonce(c)
  \/ MarkNonce(c) \/ StoreRaises(c)
  \/ DecideFinal(c) \/ Execute(c) \/ ExecutorRaises(c) \/ Reply(c)

\* What a step of a call may change, and how.
StepShape(c) ==
  /\ pc[c] \in Stages
  /\ Moves(c)
  /\ CallFrame
  /\ used' = used \/ used' = used \cup {Key(c)}
  /\ \/ authentic' = authentic
     \/ \E kind \in EvidenceKinds :
          authentic' = [authentic EXCEPT ![c] = @ \cup {kind}]
  /\ \/ replay_reason' = replay_reason
     \/ \E reason : replay_reason' = [replay_reason EXCEPT ![c] = reason]
  /\ consumed' = consumed \/ consumed' = [consumed EXCEPT ![c] = TRUE]
  /\ effect' = effect \/ effect' = [effect EXCEPT ![c] = TRUE]

\* Moving on and returning, as needed for the late stages.
LEMMA MovesForms ==
  ASSUME NEW c
  PROVE  /\ Advance(c, "mark") => Moves(c)
         /\ Advance(c, "final") => Moves(c)
         /\ Advance(c, "execute") => Moves(c)
         /\ Advance(c, "reply") => Moves(c)
         /\ \A response : IsResponse(response) /\ Return(c, response) => Moves(c)
<1>1. /\ "mark" \in Stages \ {"parse"} /\ "final" \in Stages \ {"parse"}
      /\ "execute" \in Stages \ {"parse"} /\ "reply" \in Stages \ {"parse"}
  BY DEF Stages
<1> QED BY <1>1, Zenon DEF Moves

\* The final decision moves on or returns a typed denial.
LEMMA DecideFinalMoves ==
  ASSUME NEW c \in Calls, TypeOK, DecideFinal(c)
  PROVE  Moves(c)
<1> DEFINE input   == FinalInput(req[c], replay_reason[c])
           valid   == IF replay_reason[c] = OK THEN EvidenceKinds ELSE {}
           allowed == {"eqc", "wsqk"} \cup (IF replay_reason[c] = OK THEN {"tva"} ELSE {})
           denial  == EngineDenied(req[c], input, valid, allowed, consumed[c])
<1>1. IF Evaluate(input).state = ALLOW THEN Advance(c, "execute") ELSE Return(c, denial)
  BY Zenon DEF DecideFinal
<1>2. IsResponse(denial)
  <2>1. valid \in SUBSET EvidenceKinds /\ allowed \in SUBSET {"tva", "eqc", "wsqk"}
    OBVIOUS
  <2>2. consumed[c] \in BOOLEAN
    BY DEF TypeOK
  <2> HIDE DEF input, valid, allowed
  <2> QED BY <2>1, <2>2, ResponseTypes, Zenon
<1> QED BY <1>1, <1>2, MovesForms, Zenon

\* The late stages have the shape.
LEMMA LateStepShape ==
  ASSUME NEW c \in Calls, TypeOK, LateStep(c)
  PROVE  StepShape(c)
<1>1. CASE FailTva(c)
  <2>1. Advance(c, "final")
    BY <1>1 DEF FailTva, DenyTva
  <2> QED BY <1>1, <2>1, MovesForms
          DEF FailTva, DenyTva, StepShape, CallFrame, hostVars, Stages
<1>2. CASE RejectReplay(c)
  <2>1. Advance(c, "final")
    BY <1>2 DEF RejectReplay, DenyTva
  <2> QED BY <1>2, <2>1, MovesForms
          DEF RejectReplay, ReachesStore, DenyTva, StepShape, CallFrame, hostVars, Stages
<1>3. CASE CheckAndMark(c)
  <2>1. Advance(c, "final")
    BY <1>3 DEF CheckAndMark, MarkAccepted
  <2> QED BY <1>3, <2>1, MovesForms
          DEF CheckAndMark, ReachesStore, MarkAccepted, StepShape, CallFrame, hostVars, Stages
<1>4. CASE LookUpNonce(c)
  <2>1. Advance(c, "mark")
    BY <1>4 DEF LookUpNonce
  <2> QED BY <1>4, <2>1, MovesForms
          DEF LookUpNonce, ReachesStore, StepShape, CallFrame, hostVars, callVars, Stages
<1>5. CASE MarkNonce(c)
  <2>1. Advance(c, "final")
    BY <1>5 DEF MarkNonce, MarkAccepted
  <2> QED BY <1>5, <2>1, MovesForms
          DEF MarkNonce, MarkAccepted, StepShape, CallFrame, hostVars, Stages
<1>6. CASE StoreRaises(c)
  <2>1. Moves(c)
    BY <1>6, MovesForms, ResponseTypes, Zenon DEF StoreRaises
  <2> QED BY <1>6, <2>1
          DEF StoreRaises, ReachesStore, StepShape, CallFrame, hostVars, callVars, Stages
<1>7. CASE DecideFinal(c)
  <2>1. Moves(c)
    BY <1>7, DecideFinalMoves
  <2>2. pc[c] = "final" /\ UNCHANGED <<hostVars, used, callVars>>
    BY <1>7 DEF DecideFinal
  <2> QED BY <2>1, <2>2 DEF StepShape, CallFrame, hostVars, callVars, Stages
<1>8. CASE Execute(c)
  <2>1. Advance(c, "reply")
    BY <1>8 DEF Execute
  <2> QED BY <1>8, <2>1, MovesForms
          DEF Execute, StepShape, CallFrame, hostVars, Stages
<1>9. CASE ExecutorRaises(c)
  <2>1. Moves(c)
    BY <1>9, MovesForms, ResponseTypes, Zenon DEF ExecutorRaises
  <2> QED BY <1>9, <2>1
          DEF ExecutorRaises, StepShape, CallFrame, hostVars, Stages
<1>10. CASE Reply(c)
  <2>1. Moves(c)
    BY <1>10, MovesForms, ResponseTypes, Zenon DEF Reply
  <2> QED BY <1>10, <2>1
          DEF Reply, StepShape, CallFrame, hostVars, callVars, Stages
<1> QED BY <1>1, <1>2, <1>3, <1>4, <1>5, <1>6, <1>7, <1>8, <1>9, <1>10 DEF LateStep

\* Every step of a call has the shape.
LEMMA CallStepShape ==
  ASSUME NEW c \in Calls, TypeOK, CallStep(c)
  PROVE  StepShape(c)
<1>1. EarlyStep(c) \/ LateStep(c)
  BY Zenon DEF CallStep, StageStep, RaiseStep, EarlyStep, LateStep
<1>2. CASE EarlyStep(c)
  <2>1. /\ pc[c] \in EarlyStages /\ EarlyMoves(c) /\ CallFrame
        /\ UNCHANGED <<used, replay_reason, consumed, effect>>
        /\ \/ authentic' = authentic
           \/ \E kind \in EvidenceKinds :
                authentic' = [authentic EXCEPT ![c] = @ \cup {kind}]
    BY <1>2, EarlyStepShape
  <2>2. pc[c] \in Stages
    BY <2>1 DEF EarlyStages, Stages
  <2>3. Moves(c)
    <3>1. \A stage \in EarlyStages \cup {"tva"} :
            stage # "parse" => stage \in Stages \ {"parse"}
      BY DEF EarlyStages, Stages
    <3> QED BY <2>1, <3>1, Zenon DEF EarlyMoves, Moves
  <2> QED BY <2>1, <2>2, <2>3 DEF StepShape
<1> QED BY <1>1, <1>2, LateStepShape

(***************************************************************************)
(* Type correctness.                                                       *)
(***************************************************************************)

\* Init establishes the type invariant.
LEMMA TypeInit == Init => TypeOK
<1> SUFFICES ASSUME Init PROVE TypeOK
  OBVIOUS
<1>1. clock \in 1..MaxClock /\ crashes \in 0..MaxCrashes /\ clock = 1 /\ 0 \in 0..MaxClock
  BY BoundsAssumption DEF Init
<1> QED BY <1>1 DEF Init, TypeOK

\* A step of the stated shape preserves it.
LEMMA TypeShape ==
  ASSUME NEW c \in Calls, TypeOK, StepShape(c)
  PROVE  TypeOK'
<1> USE DEF TypeOK
<1>1. /\ deployment' = deployment /\ clock' = clock /\ crashes' = crashes
      /\ req' = req /\ now' = now
  BY DEF StepShape, CallFrame
<1>2. pc[c] \in Stages /\ pc[c] # "new" /\ pc[c] # "done" /\ req[c] \in Requests
  BY DEF StepShape, Stages
<1>3. used' \subseteq {NonceKey(r) : r \in Requests}
  BY <1>2 DEF StepShape, Key
<1>4. /\ authentic' \in [Calls -> SUBSET EvidenceKinds]
      /\ DOMAIN replay_reason' = Calls
  BY DEF StepShape
<1>5. consumed' \in [Calls -> BOOLEAN] /\ effect' \in [Calls -> BOOLEAN]
  BY DEF StepShape
<1>6. ASSUME NEW stage \in Stages \ {"parse"}, Advance(c, stage)
      PROVE  /\ pc' \in [Calls -> Stages \cup {"new", "done", "lost"}]
             /\ DOMAIN resp' = Calls
             /\ \A d \in Calls :
                  /\ pc'[d] = "new" <=> req[d] = NoRequest
                  /\ IF pc'[d] = "done" THEN IsResponse(resp'[d]) ELSE resp'[d] = NoResponse
  <2>1. pc' = [pc EXCEPT ![c] = stage] /\ resp' = resp
    BY <1>6 DEF Advance
  <2>2. stage # "new" /\ stage # "done" /\ stage \in Stages
    BY <1>6 DEF Stages
  <2> QED BY <1>2, <2>1, <2>2
<1>7. ASSUME NEW response, IsResponse(response), Return(c, response)
      PROVE  /\ pc' \in [Calls -> Stages \cup {"new", "done", "lost"}]
             /\ DOMAIN resp' = Calls
             /\ \A d \in Calls :
                  /\ pc'[d] = "new" <=> req[d] = NoRequest
                  /\ IF pc'[d] = "done" THEN IsResponse(resp'[d]) ELSE resp'[d] = NoResponse
  <2>1. pc' = [pc EXCEPT ![c] = "done"] /\ resp' = [resp EXCEPT ![c] = response]
    BY <1>7 DEF Return
  <2> QED BY <1>2, <1>7, <2>1
<1>8. /\ pc' \in [Calls -> Stages \cup {"new", "done", "lost"}]
      /\ DOMAIN resp' = Calls
      /\ \A d \in Calls :
           /\ pc'[d] = "new" <=> req[d] = NoRequest
           /\ IF pc'[d] = "done" THEN IsResponse(resp'[d]) ELSE resp'[d] = NoResponse
  <2> USE DEF StepShape, Moves
  <2>1. CASE \E stage \in Stages \ {"parse"} : Advance(c, stage)
    <3>1. PICK stage \in Stages \ {"parse"} : Advance(c, stage)
      BY <2>1
    <3> QED BY <1>6, <3>1
  <2>2. CASE \E response : IsResponse(response) /\ Return(c, response)
    <3>1. PICK response : IsResponse(response) /\ Return(c, response)
      BY <2>2
    <3> QED BY <1>7, <3>1
  <2> QED BY <2>1, <2>2
<1> QED BY <1>1, <1>3, <1>4, <1>5, <1>8

\* Every step preserves it.
LEMMA TypeStep == TypeOK /\ [Next]_vars => TypeOK'
<1> SUFFICES ASSUME TypeOK, [Next]_vars PROVE TypeOK'
  OBVIOUS
<1>1. ASSUME NEW c \in Calls, Submit(c) PROVE TypeOK'
  <2>1. PICK r \in Requests : req' = [req EXCEPT ![c] = r]
    BY <1>1 DEF Submit
  <2>2. /\ pc[c] = "new" /\ pc' = [pc EXCEPT ![c] = "parse"] /\ resp' = resp
        /\ now' = [now EXCEPT ![c] = clock]
        /\ UNCHANGED <<deployment, clock, crashes, used, authentic, replay_reason,
                       consumed, effect>>
    BY <1>1 DEF Submit, Advance, hostVars
  <2>3. r # NoRequest /\ clock \in 0..MaxClock /\ clock <= clock
    BY NoRequestAssumption, BoundsAssumption DEF TypeOK
  <2>4. "parse" \in Stages
    BY DEF Stages
  <2> QED BY <2>1, <2>2, <2>3, <2>4 DEF TypeOK
<1>2. ASSUME NEW c \in Calls, CallStep(c) PROVE TypeOK'
  BY <1>2, CallStepShape, TypeShape
<1>3. CASE Crash
  <2>1. /\ pc' = [c \in Calls |-> IF InFlight(c) THEN "lost" ELSE pc[c]]
        /\ used' \subseteq used /\ crashes' = crashes + 1 /\ crashes < MaxCrashes
        /\ UNCHANGED <<deployment, clock, callVars, resp>>
    BY <1>3 DEF Crash
  <2>2. crashes' \in 0..MaxCrashes
    BY <2>1, BoundsAssumption DEF TypeOK
  <2>3. \A c \in Calls : InFlight(c) => pc[c] # "new" /\ pc[c] # "done"
    BY DEF InFlight, Stages
  <2> QED BY <2>1, <2>2, <2>3 DEF TypeOK, callVars
<1>4. CASE Tick
  <2>1. /\ clock' = clock + 1 /\ clock < MaxClock
        /\ UNCHANGED <<deployment, crashes, used, pc, callVars, resp>>
    BY <1>4 DEF Tick
  <2>2. clock' \in 1..MaxClock /\ \A c \in Calls : now[c] <= clock'
    BY <2>1, BoundsAssumption DEF TypeOK
  <2> QED BY <2>1, <2>2 DEF TypeOK, callVars
<1>5. CASE UNCHANGED vars
  BY <1>5 DEF TypeOK, vars, hostVars, callVars
<1> QED BY <1>1, <1>2, <1>3, <1>4, <1>5 DEF Next

\* The variables keep the values their declarations promise.
THEOREM TypeCorrect == Spec => []TypeOK
BY TypeInit, TypeStep, PTL DEF Spec

(***************************************************************************)
(* Single use over a durable store.                                        *)
(***************************************************************************)

\* The stages a call can be in once its nonce is spent.
Spent == {"final", "execute", "reply", "done", "lost"}

\* The inductive invariant: a spent nonce is marked, a call only gets past the
\* replay gate with a spent nonce of its own, and only executes behind it.
SingleUse ==
  \A c \in Calls :
    /\ pc[c] # "mark"
    /\ consumed[c] => Key(c) \in used /\ pc[c] \in Spent
    /\ effect[c] => consumed[c] /\ pc[c] \in {"reply", "done", "lost"}
    /\ pc[c] \in {"execute", "reply"} => consumed[c]
    /\ pc[c] = "final" /\ replay_reason[c] = OK => consumed[c]
    /\ \A d \in Calls : consumed[c] /\ consumed[d] /\ c # d => Key(c) # Key(d)

\* The final policy engine approves no input whose replay gate has not passed.
LEMMA ApprovalPassedReplay ==
  ASSUME NEW r, NEW reason, Evaluate(FinalInput(r, reason)).state = ALLOW
  PROVE  reason = OK
<1> DEFINE input == FinalInput(r, reason)
<1>1. 6 \in 1..Len(Gates) /\ Gates[6] = "replay"
  BY LockedOrder
<1>2. GateAccepted(input, "replay")
  BY <1>1, EngineApprovesUnanimously, Zenon
<1>3. "replay" \notin Range(EvidenceGates)
  BY LockedOrder
<1>4. input.local["replay"].passed
  BY <1>2, <1>3, Zenon DEF GateAccepted
<1>5. input.local["replay"] = LocalGate("replay", reason)
  <2>1. "replay" \in Range(LocalGates)
    BY LockedOrder
  <2> QED BY <2>1 DEF FinalInput, AllAccepted
<1>6. LocalGate("replay", reason).passed = (reason = OK)
  BY DEF LocalGate
<1> QED BY <1>4, <1>5, <1>6

\* Init establishes the invariant.
LEMMA SingleUseInit == Init => SingleUse
BY DEF Init, SingleUse

\* The steps that neither mark nor execute: the call moves to where it may be.
LEMMA SingleUseQuiet ==
  ASSUME NEW c \in Calls, TypeOK, SingleUse,
         NEW stage, pc' = [pc EXCEPT ![c] = stage],
         UNCHANGED <<used, req, consumed, effect>>,
         \A d \in Calls \ {c} : replay_reason'[d] = replay_reason[d],
         stage # "mark",
         consumed[c] => stage \in Spent,
         effect[c] => stage \in {"reply", "done", "lost"},
         stage \in {"execute", "reply"} => consumed[c],
         stage = "final" /\ replay_reason'[c] = OK => consumed[c]
  PROVE  SingleUse'
<1>1. \A d \in Calls : Key(d)' = Key(d)
  BY DEF Key
<1>2. pc'[c] = stage /\ \A d \in Calls \ {c} : pc'[d] = pc[d]
  BY DEF TypeOK
<1> QED BY <1>1, <1>2 DEF SingleUse

\* check_and_mark: the key is new, and the call had not spent one.
LEMMA SingleUseMark ==
  ASSUME NEW c \in Calls, TypeOK, SingleUse, CheckAndMark(c)
  PROVE  SingleUse'
<1>1. /\ pc[c] = "tva" /\ Key(c) \notin used
      /\ used' = used \cup {Key(c)}
      /\ consumed' = [consumed EXCEPT ![c] = TRUE]
      /\ pc' = [pc EXCEPT ![c] = "final"]
      /\ UNCHANGED <<req, replay_reason, effect>>
  BY DEF CheckAndMark, ReachesStore, MarkAccepted, Advance
<1>2. \A d \in Calls : Key(d)' = Key(d)
  BY <1>1 DEF Key
<1>3. /\ pc'[c] = "final" /\ consumed'[c] = TRUE
      /\ \A d \in Calls \ {c} : pc'[d] = pc[d] /\ consumed'[d] = consumed[d]
  BY <1>1 DEF TypeOK
<1>4. ~effect[c] /\ "final" \in Spent
  BY <1>1 DEF SingleUse, Spent
<1>5. \A d \in Calls \ {c} : consumed[d] => Key(d) # Key(c)
  BY <1>1 DEF SingleUse
<1> QED BY <1>1, <1>2, <1>3, <1>4, <1>5 DEF SingleUse

\* Entering the executor.
LEMMA SingleUseExecute ==
  ASSUME NEW c \in Calls, TypeOK, SingleUse,
         pc[c] = "execute", NEW stage \in {"reply", "done"},
         pc' = [pc EXCEPT ![c] = stage],
         effect' = [effect EXCEPT ![c] = TRUE],
         UNCHANGED <<used, req, replay_reason, consumed>>
  PROVE  SingleUse'
<1>1. \A d \in Calls : Key(d)' = Key(d)
  BY DEF Key
<1>2. /\ pc'[c] = stage /\ effect'[c] = TRUE
      /\ \A d \in Calls \ {c} : pc'[d] = pc[d] /\ effect'[d] = effect[d]
  BY DEF TypeOK
<1>3. consumed[c] /\ stage \in Spent /\ stage # "mark"
  BY DEF SingleUse, Spent
<1> QED BY <1>1, <1>2, <1>3 DEF SingleUse

\* Every step of a call over a durable store preserves the invariant.
LEMMA SingleUseCallStep ==
  ASSUME DurableStore, NEW c \in Calls, TypeOK, SingleUse, CallStep(c)
  PROVE  SingleUse'
<1>1. CASE EarlyStep(c)
  <2>1. /\ pc[c] \in EarlyStages /\ EarlyMoves(c)
        /\ UNCHANGED <<used, req, replay_reason, consumed, effect>>
    BY <1>1, EarlyStepShape DEF CallFrame
  <2>2. PICK stage \in EarlyStages \cup {"tva", "done"} : pc' = [pc EXCEPT ![c] = stage]
    BY <2>1 DEF EarlyMoves, Advance, Return
  <2>3. ~consumed[c] /\ ~effect[c]
    BY <2>1 DEF SingleUse, EarlyStages, Spent
  <2>4. stage # "mark" /\ stage \notin {"execute", "reply", "final"}
    BY <2>2 DEF EarlyStages
  <2> QED BY <2>1, <2>2, <2>3, <2>4, SingleUseQuiet
<1>2. ASSUME NEW reason, reason # OK, pc[c] = "tva", DenyTva(c, reason)
      PROVE  SingleUse'
  <2>1. /\ pc' = [pc EXCEPT ![c] = "final"]
        /\ replay_reason' = [replay_reason EXCEPT ![c] = reason]
        /\ UNCHANGED <<used, req, consumed, effect>>
    BY <1>2 DEF DenyTva, Advance
  <2>2. /\ replay_reason'[c] = reason
        /\ \A d \in Calls \ {c} : replay_reason'[d] = replay_reason[d]
    BY <2>1 DEF TypeOK
  <2>3. ~consumed[c] /\ ~effect[c]
    BY <1>2 DEF SingleUse, Spent
  <2> QED BY <1>2, <2>1, <2>2, <2>3, SingleUseQuiet
<1>3. CASE FailTva(c)
  BY <1>2, <1>3 DEF FailTva
<1>4. CASE RejectReplay(c)
  BY <1>2, <1>4 DEF RejectReplay, ReachesStore, OK
<1>5. CASE CheckAndMark(c)
  BY <1>5, SingleUseMark
<1>6. CASE LookUpNonce(c)
  BY <1>6 DEF LookUpNonce
<1>7. CASE MarkNonce(c)
  BY <1>7 DEF MarkNonce, SingleUse
<1>8. CASE StoreRaises(c)
  <2>1. /\ pc[c] = "tva" /\ used \subseteq used'
        /\ pc' = [pc EXCEPT ![c] = "done"]
        /\ UNCHANGED <<req, replay_reason, consumed, effect>>
    BY <1>8 DEF StoreRaises, ReachesStore, Return, callVars
  <2>2. \A d \in Calls : Key(d)' = Key(d)
    BY <2>1 DEF Key
  <2>3. /\ pc'[c] = "done"
        /\ \A d \in Calls \ {c} : pc'[d] = pc[d]
    BY <2>1 DEF TypeOK
  <2>4. ~consumed[c] /\ ~effect[c]
    BY <2>1 DEF SingleUse, Spent
  <2> QED BY <2>1, <2>2, <2>3, <2>4 DEF SingleUse
<1>9. CASE DecideFinal(c)
  <2>1. /\ pc[c] = "final"
        /\ UNCHANGED <<used, req, replay_reason, consumed, effect>>
    BY <1>9 DEF DecideFinal, callVars
  <2>2. ~effect[c]
    BY <2>1 DEF SingleUse
  <2>3. CASE Evaluate(FinalInput(req[c], replay_reason[c])).state = ALLOW
    <3>1. replay_reason[c] = OK
      BY <2>3, ApprovalPassedReplay
    <3>2. consumed[c]
      BY <2>1, <3>1 DEF SingleUse
    <3>3. pc' = [pc EXCEPT ![c] = "execute"]
      BY <1>9, <2>3, Zenon DEF DecideFinal, Advance
    <3>4. "execute" \in Spent
      BY DEF Spent
    <3> QED BY <2>1, <2>2, <3>2, <3>3, <3>4, SingleUseQuiet
  <2>4. CASE Evaluate(FinalInput(req[c], replay_reason[c])).state # ALLOW
    <3>1. pc' = [pc EXCEPT ![c] = "done"]
      BY <1>9, <2>4, Zenon DEF DecideFinal, Return
    <3>2. "done" \in Spent
      BY DEF Spent
    <3> QED BY <2>1, <2>2, <3>1, <3>2, SingleUseQuiet
  <2> QED BY <2>3, <2>4
<1>10. CASE Execute(c)
  BY <1>10, SingleUseExecute DEF Execute, Advance
<1>11. CASE ExecutorRaises(c)
  BY <1>11, SingleUseExecute DEF ExecutorRaises, Return
<1>12. CASE Reply(c)
  <2>1. /\ pc[c] = "reply" /\ pc' = [pc EXCEPT ![c] = "done"]
        /\ UNCHANGED <<used, req, replay_reason, consumed, effect>>
    BY <1>12 DEF Reply, Return, callVars
  <2>2. "done" \in Spent
    BY DEF Spent
  <2> QED BY <2>1, <2>2, SingleUseQuiet
<1> QED BY <1>1, <1>3, <1>4, <1>5, <1>6, <1>7, <1>8, <1>9, <1>10, <1>11, <1>12, Zenon
        DEF CallStep, StageStep, RaiseStep, EarlyStep

\* Every step preserves it.
LEMMA SingleUseStep ==
  ASSUME DurableStore
  PROVE  TypeOK /\ SingleUse /\ [Next]_vars => SingleUse'
<1> SUFFICES ASSUME TypeOK, SingleUse, [Next]_vars PROVE SingleUse'
  OBVIOUS
<1>1. ASSUME NEW c \in Calls, Submit(c) PROVE SingleUse'
  <2>1. PICK r \in Requests : req' = [req EXCEPT ![c] = r]
    BY <1>1 DEF Submit
  <2>2. /\ pc[c] = "new" /\ pc' = [pc EXCEPT ![c] = "parse"]
        /\ UNCHANGED <<used, replay_reason, consumed, effect>>
    BY <1>1 DEF Submit, Advance
  <2>3. /\ pc'[c] = "parse"
        /\ \A d \in Calls \ {c} : pc'[d] = pc[d] /\ Key(d)' = Key(d)
    BY <2>1, <2>2 DEF TypeOK, Key
  <2>4. ~consumed[c] /\ ~effect[c]
    BY <2>2 DEF SingleUse, Spent
  <2> QED BY <2>2, <2>3, <2>4 DEF SingleUse
<1>2. ASSUME NEW c \in Calls, CallStep(c) PROVE SingleUse'
  BY <1>2, SingleUseCallStep
<1>3. CASE Crash
  <2>1. /\ pc' = [c \in Calls |-> IF InFlight(c) THEN "lost" ELSE pc[c]]
        /\ UNCHANGED <<used, req, replay_reason, consumed, effect>>
    BY <1>3 DEF Crash, callVars
  <2>2. \A c \in Calls : Key(c)' = Key(c)
    BY <2>1 DEF Key
  <2>3. "lost" \in Spent
    BY DEF Spent
  <2> QED BY <2>1, <2>2, <2>3 DEF SingleUse
<1>4. CASE Tick
  BY <1>4 DEF Tick, callVars, SingleUse, Key
<1>5. CASE UNCHANGED vars
  BY <1>5 DEF vars, callVars, SingleUse, Key
<1> QED BY <1>1, <1>2, <1>3, <1>4, <1>5 DEF Next

\* The invariant holds over a durable store.
THEOREM SingleUseHolds ==
  ASSUME DurableStore
  PROVE  Spec => [](TypeOK /\ SingleUse)
BY TypeInit, TypeStep, SingleUseInit, SingleUseStep, PTL DEF Spec

\* Over a durable store no two calls execute on one (wallet, nonce), however
\* many calls, requests, policies and crashes there are.
THEOREM AtMostOnce ==
  ASSUME DurableStore
  PROVE  Spec => []AtMostOnceExecution
<1>1. SingleUse => AtMostOnceExecution
  BY DEF SingleUse, AtMostOnceExecution
<1> QED BY <1>1, SingleUseHolds, PTL

(***************************************************************************)
(* The orchestrator implements SingleUseExecution.                         *)
(***************************************************************************)

\* The licences granted and exercised, as the refinement maps them.
Granted   == {<<c, Key(c)>> : c \in {d \in Calls : consumed[d]}}
Exercised == {<<c, Key(c)>> : c \in {d \in Calls : effect[d]}}

\* A step that leaves store, nonces, effects and the requests of spent calls
\* alone is a stuttering step of the abstract specification.
LEMMA LicencesStutter ==
  ASSUME SingleUse, UNCHANGED <<used, consumed, effect>>,
         \A c \in Calls : consumed[c] => req'[c] = req[c]
  PROVE  UNCHANGED Licences!vars
<1>1. \A c \in Calls : consumed[c] => Key(c)' = Key(c)
  BY DEF Key
<1>2. \A c \in Calls : effect[c] => consumed[c]
  BY DEF SingleUse
<1>3. Granted' = Granted
  BY <1>1 DEF Granted
<1>4. Exercised' = Exercised
  BY <1>1, <1>2 DEF Exercised
<1> QED BY <1>3, <1>4 DEF Licences!vars, Granted, Exercised

\* check_and_mark grants the key to the call.
LEMMA LicencesGrant ==
  ASSUME TypeOK, SingleUse, NEW c \in Calls, CheckAndMark(c)
  PROVE  Licences!Next
<1>1. /\ pc[c] = "tva" /\ Key(c) \notin used
      /\ used' = used \cup {Key(c)}
      /\ consumed' = [consumed EXCEPT ![c] = TRUE]
      /\ UNCHANGED <<req, effect>>
  BY DEF CheckAndMark, ReachesStore, MarkAccepted
<1>2. \A d \in Calls : Key(d)' = Key(d)
  BY <1>1 DEF Key
<1>3. \A d \in Calls : consumed'[d] <=> consumed[d] \/ d = c
  BY <1>1 DEF TypeOK
<1>4. Granted' = Granted \cup {<<c, Key(c)>>}
  BY <1>2, <1>3 DEF Granted
<1>5. Exercised' = Exercised
  BY <1>1, <1>2 DEF Exercised
<1>6. PICK key \in {NonceKey(r) : r \in Requests} : key = Key(c)
  BY <1>1 DEF TypeOK, Key
<1>7. Licences!Grant(c, key)
  BY <1>1, <1>4, <1>5, <1>6 DEF Licences!Grant, Granted, Exercised
<1> QED BY <1>7 DEF Licences!Next

\* A store that raises after marking loses the key.
LEMMA LicencesLose ==
  ASSUME TypeOK, SingleUse, NEW c \in Calls, StoreRaises(c)
  PROVE  Licences!Next \/ UNCHANGED Licences!vars
<1>1. /\ pc[c] = "tva" /\ used' \in {used, used \cup {Key(c)}}
      /\ UNCHANGED <<req, consumed, effect>>
  BY DEF StoreRaises, ReachesStore, callVars
<1>2. CASE used' = used
  BY <1>1, <1>2, LicencesStutter
<1>3. CASE used' # used
  <2>1. Key(c) \notin used /\ used' = used \cup {Key(c)}
    BY <1>1, <1>3
  <2>2. Granted' = Granted /\ Exercised' = Exercised
    BY <1>1 DEF Granted, Exercised, Key
  <2>3. Key(c) \in {NonceKey(r) : r \in Requests}
    BY <1>1 DEF TypeOK, Key
  <2>4. Licences!Lose(Key(c))
    BY <2>1, <2>2 DEF Licences!Lose, Granted, Exercised
  <2> QED BY <2>3, <2>4 DEF Licences!Next
<1> QED BY <1>2, <1>3

\* Entering the executor exercises the call's licence.
LEMMA LicencesExercise ==
  ASSUME TypeOK, SingleUse, NEW c \in Calls, pc[c] = "execute",
         effect' = [effect EXCEPT ![c] = TRUE],
         UNCHANGED <<used, req, consumed>>
  PROVE  Licences!Next
<1>1. consumed[c] /\ ~effect[c]
  BY DEF SingleUse
<1>2. \A d \in Calls : Key(d)' = Key(d)
  BY DEF Key
<1>3. \A d \in Calls : effect'[d] <=> effect[d] \/ d = c
  BY DEF TypeOK
<1>4. Granted' = Granted
  BY <1>2 DEF Granted
<1>5. Exercised' = Exercised \cup {<<c, Key(c)>>}
  BY <1>2, <1>3 DEF Exercised
<1>6. <<c, Key(c)>> \in Granted \ Exercised
  <2>1. <<c, Key(c)>> \in Granted
    BY <1>1 DEF Granted
  <2>2. ASSUME <<c, Key(c)>> \in Exercised PROVE FALSE
    <3>1. PICK d \in Calls : effect[d] /\ <<c, Key(c)>> = <<d, Key(d)>>
      BY <2>2 DEF Exercised
    <3> QED BY <1>1, <3>1
  <2> QED BY <2>1, <2>2
<1>7. PICK key \in {NonceKey(r) : r \in Requests} : key = Key(c)
  BY DEF TypeOK, Key
<1>8. Licences!Exercise(c, key)
  BY <1>4, <1>5, <1>6, <1>7 DEF Licences!Exercise, Granted, Exercised
<1> QED BY <1>8 DEF Licences!Next

\* Every step of the orchestrator is a step of the abstract specification, or
\* none.
LEMMA LicencesStep ==
  ASSUME DurableStore
  PROVE  TypeOK /\ SingleUse /\ [Next]_vars => [Licences!Next]_(Licences!vars)
<1> SUFFICES ASSUME TypeOK, SingleUse, [Next]_vars
             PROVE  Licences!Next \/ UNCHANGED Licences!vars
  OBVIOUS
<1>1. ASSUME NEW c \in Calls, Submit(c)
      PROVE  UNCHANGED Licences!vars
  <2>1. PICK r \in Requests : req' = [req EXCEPT ![c] = r]
    BY <1>1 DEF Submit
  <2>2. pc[c] = "new" /\ UNCHANGED <<used, consumed, effect>>
    BY <1>1 DEF Submit
  <2>3. ~consumed[c]
    BY <2>2 DEF SingleUse, Spent
  <2>4. \A d \in Calls : consumed[d] => req'[d] = req[d]
    BY <2>1, <2>3 DEF TypeOK
  <2> QED BY <2>2, <2>4, LicencesStutter
<1>2. ASSUME NEW c \in Calls, CallStep(c)
      PROVE  Licences!Next \/ UNCHANGED Licences!vars
  <2>1. CASE EarlyStep(c)
    BY <2>1, EarlyStepShape, LicencesStutter DEF CallFrame
  <2>2. CASE FailTva(c) \/ RejectReplay(c)
    BY <2>2, LicencesStutter DEF FailTva, RejectReplay, DenyTva
  <2>3. CASE CheckAndMark(c)
    BY <2>3, LicencesGrant
  <2>4. CASE LookUpNonce(c) \/ MarkNonce(c)
    BY <2>4 DEF LookUpNonce, MarkNonce, SingleUse
  <2>5. CASE StoreRaises(c)
    BY <2>5, LicencesLose
  <2>6. CASE DecideFinal(c) \/ Reply(c)
    <3>1. UNCHANGED <<used, req, consumed, effect>>
      BY <2>6 DEF DecideFinal, Reply, callVars
    <3> QED BY <3>1, LicencesStutter
  <2>7. CASE Execute(c) \/ ExecutorRaises(c)
    <3>1. /\ pc[c] = "execute" /\ effect' = [effect EXCEPT ![c] = TRUE]
          /\ UNCHANGED <<used, req, consumed>>
      BY <2>7 DEF Execute, ExecutorRaises
    <3> QED BY <3>1, LicencesExercise
  <2> QED BY <1>2, <2>1, <2>2, <2>3, <2>4, <2>5, <2>6, <2>7, Zenon
          DEF CallStep, StageStep, RaiseStep, EarlyStep
<1>3. CASE Crash
  <2>1. UNCHANGED <<used, req, consumed, effect>>
    BY <1>3 DEF Crash, callVars
  <2> QED BY <2>1, LicencesStutter
<1>4. CASE Tick
  <2>1. UNCHANGED <<used, req, consumed, effect>>
    BY <1>4 DEF Tick, callVars
  <2> QED BY <2>1, LicencesStutter
<1>5. CASE UNCHANGED vars
  <2>1. UNCHANGED <<used, req, consumed, effect>>
    BY <1>5 DEF vars, callVars
  <2> QED BY <2>1, LicencesStutter
<1> QED BY <1>1, <1>2, <1>3, <1>4, <1>5 DEF Next

\* Nothing is licensed initially.
LEMMA LicencesInit == Init => Licences!Init
BY DEF Init, Licences!Init

\* Over a durable store the orchestrator implements single-use execution: a key
\* is granted once, may be lost on the way, and is exercised once, by its holder.
THEOREM Refinement ==
  ASSUME DurableStore
  PROVE  Spec => ImplementsSingleUse
<1>1. Spec => [](TypeOK /\ SingleUse)
  BY SingleUseHolds
<1>2. TypeOK /\ SingleUse /\ [Next]_vars => [Licences!Next]_(Licences!vars)
  BY LicencesStep
<1> QED BY <1>1, <1>2, LicencesInit, PTL DEF Spec, ImplementsSingleUse, Licences!Spec

\* In single-use execution itself a key has one holder, for good, and only its holder
\* executes on it.
LEMMA OneHolderAlways == Licences!Spec => []Licences!OneHolder
<1>1. Licences!Init => Licences!OneHolder
  BY DEF Licences!Init, Licences!OneHolder
<1>2. Licences!OneHolder /\ [Licences!Next]_(Licences!vars) => Licences!OneHolder'
  <2> SUFFICES ASSUME Licences!OneHolder, [Licences!Next]_(Licences!vars)
               PROVE  Licences!OneHolder'
    OBVIOUS
  <2> DEFINE holders == {<<c, Key(c)>> : c \in {d \in Calls : consumed[d]}}
             exercised == {<<c, Key(c)>> : c \in {d \in Calls : effect[d]}}
             Holds(burnt, held, done) == /\ \A l, m \in held : l[2] = m[2] => l = m
                                         /\ done \subseteq held
                                         /\ \A l \in held : l[2] \in burnt
  <2>1. Holds(used, holders, exercised)
    BY DEF Licences!OneHolder
  <2>2. SUFFICES Holds(used', holders', exercised')
    BY DEF Licences!OneHolder
  <2>3. ASSUME NEW caller \in Calls, NEW key \in {NonceKey(r) : r \in Requests},
               Licences!Grant(caller, key)
        PROVE  Holds(used', holders', exercised')
    <3>1. /\ key \notin used /\ used' = used \cup {key}
          /\ holders' = holders \cup {<<caller, key>>}
          /\ exercised' = exercised
      BY <2>3 DEF Licences!Grant
    <3> HIDE DEF holders, exercised
    <3>2. \A l \in holders : l[2] # key
      BY <2>1, <3>1
    <3>3. <<caller, key>>[2] = key
      OBVIOUS
    <3> QED BY <2>1, <3>1, <3>2, <3>3
  <2>4. ASSUME NEW caller \in Calls, NEW key \in {NonceKey(r) : r \in Requests},
               Licences!Exercise(caller, key)
        PROVE  Holds(used', holders', exercised')
    <3>1. /\ <<caller, key>> \in holders \ exercised
          /\ exercised' = exercised \cup {<<caller, key>>}
          /\ used' = used /\ holders' = holders
      BY <2>4 DEF Licences!Exercise
    <3> HIDE DEF holders, exercised
    <3> QED BY <2>1, <3>1
  <2>5. ASSUME NEW key \in {NonceKey(r) : r \in Requests}, Licences!Lose(key)
        PROVE  Holds(used', holders', exercised')
    <3>1. used' = used \cup {key} /\ holders' = holders /\ exercised' = exercised
      BY <2>5 DEF Licences!Lose
    <3> HIDE DEF holders, exercised
    <3> QED BY <2>1, <3>1
  <2>6. CASE UNCHANGED Licences!vars
    <3>1. used' = used /\ holders' = holders /\ exercised' = exercised
      BY <2>6 DEF Licences!vars
    <3> HIDE DEF holders, exercised
    <3> QED BY <2>1, <3>1
  <2> QED BY <2>3, <2>4, <2>5, <2>6 DEF Licences!Next
<1> QED BY <1>1, <1>2, PTL DEF Licences!Spec

\* So it is here: over a durable store a nonce belongs to one call for good, and only
\* that call executes on it.
THEOREM OneHolderPerNonce ==
  ASSUME DurableStore
  PROVE  Spec => []Licences!OneHolder
<1>1. Spec => Licences!Spec
  BY Refinement DEF ImplementsSingleUse
<1> QED BY <1>1, OneHolderAlways, PTL

=============================================================================
