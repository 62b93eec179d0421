------------------------ MODULE PolicySession_proofs ------------------------
(***************************************************************************)
(* For every set of sessions, whatever they are about: the strict reader   *)
(* of the gateway's evidence accepts nothing that the loose one would not, *)
(* the posture of an authority the gate serves is backed by Q-ID, what is  *)
(* accepted is about one context and one wallet, a denial that is passed   *)
(* on dominates, what is issued is served in its window and nowhere else,  *)
(* and a result handed to the engine as it is ends the evaluation.         *)
(***************************************************************************)
EXTENDS PolicySessionRequirements, FinalPolicyEngine_proofs, FiniteSetTheorems

(***************************************************************************)
(* The inductive invariant: what a normaliser said is what it says of its  *)
(* inputs at some time, and no input of it changes afterwards.             *)
(***************************************************************************)

Stages == {"wsqk_v2", "qid", "adaptive_core", "ai_gateway", "decide", "enforce", "done"}

WsqkAnswer == WsqkEvidence(in.wsqk, in.request, Expected)
QidAnswer(time) == QidEvidence(in.qid, time, QidExpected)
CoreAnswer(time) ==
  AdaptiveCoreEvidence(in.report, time, Expected, in.policy, Told(<<"wsqk_v2", "qid">>))
LooseAnswer == GatewayEvidence(in.gateway, Expected, ToldGateway)
StrictAnswer == BoundGatewayEvidence(in.gateway, Expected, in.gateway_policy, ToldGateway)
TvaAnswer(time) ==
  IF result["wsqk_v2"].authority = <<>> THEN "TVA_MISSING_AUTHORITY"
  ELSE TvaRejection([in.request EXCEPT !.wsqk = result["wsqk_v2"].authority[1]], time)

Order ==
  /\ session \in Sessions
  /\ pc \in Stages
  /\ DOMAIN result = Normalisers
  /\ pc = "wsqk_v2" => result["wsqk_v2"] = NoResult
  /\ pc \in {"wsqk_v2", "qid"} => result["qid"] = NoResult
  /\ pc \in {"wsqk_v2", "qid", "adaptive_core"} => result["adaptive_core"] = NoResult
  /\ pc \in {"wsqk_v2", "qid", "adaptive_core", "ai_gateway"} => result["ai_gateway"] = NoResult
  /\ pc # "done" => enforcement = NoResult

WsqkSaid == result["wsqk_v2"] # NoResult => result["wsqk_v2"] = WsqkAnswer
QidSaid == result["qid"] # NoResult => \E time : result["qid"] = QidAnswer(time)
CoreSaid ==
  result["adaptive_core"] # NoResult => \E time : result["adaptive_core"] = CoreAnswer(time)
GatewaySaid ==
  result["ai_gateway"] # NoResult =>
    result["ai_gateway"] = IF in.consumer = "v1" THEN LooseAnswer ELSE StrictAnswer
TvaSaid == enforcement # NoResult => \E time : enforcement = TvaAnswer(time)

IInv == Order /\ WsqkSaid /\ QidSaid /\ CoreSaid /\ GatewaySaid /\ TvaSaid

(***************************************************************************)
(* The two readers of the gateway's evidence.                              *)
(***************************************************************************)

\* What the strict reader asks of an object.
LEMMA ObjectAccepted ==
  ASSUME NEW x, ObjectRejection(x) = OK
  PROVE  x.kind = "mapping" /\ ~x.unknown_field /\ ~x.missing_field
<1> DEFINE s == <<
    Reject("DENY_SCHEMA_INVALID", x.kind \notin {"mapping", "raw_output"}),
    Reject("DENY_UNKNOWN_FIELD", x.kind = "raw_output" \/ x.unknown_field),
    Reject("DENY_SCHEMA_INVALID", x.missing_field) >>
<1>1. Len(s) = 3 /\ FirstRejection(s) = OK
  BY DEF ObjectRejection
<1>2. \A i \in 1..3 : s[i] = OK
  BY <1>1, FirstRejectionOutcome
<1>3. s[1] = OK /\ s[2] = OK /\ s[3] = OK
  BY <1>2
<1> QED BY <1>3 DEF Reject, OK

\* What the strict reader asks of the reason of a decision.
LEMMA ReasonAccepted ==
  ASSUME NEW said, NEW reason, ReasonRejection(said, reason) = OK
  PROVE  /\ said \in GatewayDecisions
         /\ ~IsBlank(reason)
         /\ said = "rejected" => reason # OK
BY DEF ReasonRejection, Reject, OK, GatewayDecisions, GatewayReasons

\* A handoff the strict reader accepts, about the context that is expected, is one
\* the loose reader accepts.
LEMMA HandoffAccepted ==
  ASSUME NEW h, NEW expected, BoundHandoffRejection(h) = OK, ~h.hidden_authority,
         h.context = expected
  PROVE  HandoffRejection(h, expected) = OK /\ (h.decision = "rejected" => h.reason # OK)
<1> DEFINE strict == <<
    ObjectRejection(h),
    Reject("DENY_VERSION_MISMATCH", h.foreign_version),
    Reject("DENY_SCHEMA_INVALID", IsBlank(h.adapter) \/ IsBlank(h.task_type)),
    ReasonRejection(h.decision, h.reason),
    Reject("DENY_ADAPTER_INVALID", BadContext \in {h.envelope, h.output, h.context}) >>
<1> DEFINE loose == <<
    Reject("DENY_ADAPTER_INVALID", h.kind # "mapping" \/ h.hidden_authority),
    Reject("DENY_UNKNOWN_FIELD", h.unknown_field),
    Reject("DENY_SCHEMA_INVALID", h.missing_field),
    Reject("DENY_VERSION_MISMATCH", h.foreign_version),
    Reject("DENY_POLICY", h.decision \notin GatewayDecisions),
    Reject("DENY_SCHEMA_INVALID",
           IsBlank(h.adapter) \/ IsBlank(h.task_type) \/ IsBlank(h.reason)),
    Reject("DENY_ADAPTER_INVALID", BadContext \in {h.envelope, h.output, h.context}),
    Reject("DENY_POLICY", h.context # expected) >>
<1>1. \A i \in 1..5 : strict[i] = OK
  <2>1. Len(strict) = 5 /\ FirstRejection(strict) = OK
    BY DEF BoundHandoffRejection
  <2> QED BY <2>1, FirstRejectionOutcome
<1>2. strict[1] = OK /\ strict[2] = OK /\ strict[3] = OK /\ strict[4] = OK /\ strict[5] = OK
  BY <1>1
<1>3. h.kind = "mapping" /\ ~h.unknown_field /\ ~h.missing_field
  BY <1>2, ObjectAccepted
<1>4. /\ h.decision \in GatewayDecisions /\ ~IsBlank(h.reason)
      /\ h.decision = "rejected" => h.reason # OK
  BY <1>2, ReasonAccepted
<1>5. ~h.foreign_version /\ ~IsBlank(h.adapter) /\ ~IsBlank(h.task_type)
      /\ BadContext \notin {h.envelope, h.output, h.context}
  BY <1>2 DEF Reject, OK
<1>6. /\ loose[1] = OK /\ loose[2] = OK /\ loose[3] = OK /\ loose[4] = OK
      /\ loose[5] = OK /\ loose[6] = OK /\ loose[7] = OK /\ loose[8] = OK
  BY <1>3, <1>4, <1>5 DEF Reject
<1>7. Len(loose) = 8 /\ \A i \in 1..8 : loose[i] = OK
  <2>1. Len(loose) = 8
    OBVIOUS
  <2>2. \A i \in 1..8 : i \in {1, 2, 3, 4, 5, 6, 7, 8}
    OBVIOUS
  <2> HIDE DEF loose
  <2> QED BY <1>6, <2>1, <2>2
<1>8. FirstRejection(loose) = OK
  BY <1>7, FirstRejectionOutcome
<1> QED BY <1>4, <1>8 DEF HandoffRejection

\* A receipt the strict reader accepts is one the loose reader accepts.
LEMMA ReceiptAcceptedByBoth ==
  ASSUME NEW r, BoundReceiptRejection(r) = OK, ~r.hidden_authority
  PROVE  GatewayReceiptRejection(r) = OK
<1> DEFINE strict == <<
    ObjectRejection(r),
    Reject("DENY_VERSION_MISMATCH",
           r.foreign_version \/ r.foreign_contract \/ r.foreign_profile),
    Reject("DENY_SCHEMA_INVALID",
           IsBlank(r.gateway_version) \/ IsBlank(r.adapter) \/ IsBlank(r.adapter_version)),
    ReasonRejection(r.decision, r.reason),
    Reject("DENY_ADAPTER_INVALID", BadContext \in {r.envelope, r.output}) >>
<1> DEFINE loose == <<
    Reject("DENY_ADAPTER_INVALID", r.kind # "mapping" \/ r.hidden_authority),
    Reject("DENY_UNKNOWN_FIELD", r.unknown_field),
    Reject("DENY_SCHEMA_INVALID", r.missing_field),
    Reject("DENY_VERSION_MISMATCH", r.foreign_version \/ r.foreign_contract),
    Reject("DENY_ADAPTER_INVALID", r.foreign_profile),
    Reject("DENY_POLICY", r.decision \notin GatewayDecisions),
    Reject("DENY_SCHEMA_INVALID",
           \/ IsBlank(r.gateway_version) \/ IsBlank(r.adapter)
           \/ IsBlank(r.adapter_version) \/ IsBlank(r.reason)),
    Reject("DENY_ADAPTER_INVALID", BadContext \in {r.envelope, r.output}) >>
<1>1. \A i \in 1..5 : strict[i] = OK
  <2>1. Len(strict) = 5 /\ FirstRejection(strict) = OK
    BY DEF BoundReceiptRejection
  <2> QED BY <2>1, FirstRejectionOutcome
<1>2. strict[1] = OK /\ strict[2] = OK /\ strict[3] = OK /\ strict[4] = OK /\ strict[5] = OK
  BY <1>1
<1>3. r.kind = "mapping" /\ ~r.unknown_field /\ ~r.missing_field
  BY <1>2, ObjectAccepted
<1>4. r.decision \in GatewayDecisions /\ ~IsBlank(r.reason)
  BY <1>2, ReasonAccepted
<1>5. /\ ~(r.foreign_version \/ r.foreign_contract \/ r.foreign_profile)
      /\ ~(IsBlank(r.gateway_version) \/ IsBlank(r.adapter) \/ IsBlank(r.adapter_version))
      /\ BadContext \notin {r.envelope, r.output}
  BY <1>2 DEF Reject, OK
<1>6. /\ loose[1] = OK /\ loose[2] = OK /\ loose[3] = OK /\ loose[4] = OK
      /\ loose[5] = OK /\ loose[6] = OK /\ loose[7] = OK /\ loose[8] = OK
  BY <1>3, <1>4, <1>5 DEF Reject
<1>7. Len(loose) = 8 /\ \A i \in 1..8 : loose[i] = OK
  <2>1. Len(loose) = 8
    OBVIOUS
  <2>2. \A i \in 1..8 : i \in {1, 2, 3, 4, 5, 6, 7, 8}
    OBVIOUS
  <2> HIDE DEF loose
  <2> QED BY <1>6, <2>1, <2>2
<1>8. FirstRejection(loose) = OK
  BY <1>7, FirstRejectionOutcome
<1> QED BY <1>8 DEF GatewayReceiptRejection

\* What the strict reader asks of the two artifacts together.
LEMMA ChainAccepted ==
  ASSUME NEW g, NEW expected, ArtifactChainRejection(g, expected) = OK
  PROVE  g.handoff.context = expected /\ ReceiptMatchesHandoff(g.handoff, g.receipt)
<1> DEFINE chain == <<
    Reject("DENY_POLICY", \/ g.handoff.context # expected
                          \/ g.handoff.context # g.handoff.envelope),
    Reject("DENY_ADAPTER_INVALID", ~ReceiptMatchesHandoff(g.handoff, g.receipt)),
    Reject("DENY_POLICY", \/ g.binding.receipt_hash # g.receipt
                          \/ g.binding.handoff_hash # g.handoff) >>
<1>1. Len(chain) = 3 /\ FirstRejection(chain) = OK
  BY DEF ArtifactChainRejection
<1>2. \A i \in 1..3 : chain[i] = OK
  BY <1>1, FirstRejectionOutcome
<1>3. chain[1] = OK /\ chain[2] = OK
  <2> HIDE DEF chain
  <2> QED BY <1>2
<1> QED BY <1>3 DEF Reject, OK

\* Evidence without an objection of the strict reader has none of the loose one.
LEMMA StrictIsStricter ==
  ASSUME NEW g, NEW expected, NEW policy, BoundGatewayRejection(g, expected, policy) = OK
  PROVE  GatewayRejection(g, expected) = OK
<1> DEFINE strict == <<
    Reject("DENY_POLICY", \/ expected = BadContext \/ policy.hash = BadContext
                          \/ IsBlank(policy.id) \/ IsBlank(policy.version)),
    WireReason[g.wire],
    Reject("DENY_ADAPTER_INVALID",
           g.hidden_authority \/ g.handoff.hidden_authority \/ g.receipt.hidden_authority),
    Reject("DENY_VERSION_MISMATCH", g.foreign_version),
    Reject("DENY_POLICY", g.binding.kind = "missing"),
    ObjectRejection(g),
    Reject("DENY_VERSION_MISMATCH", g.foreign_source),
    Reject("DENY_ADAPTER_INVALID", g.foreign_role),
    Reject("DENY_POLICY", g.context # expected),
    BoundHandoffRejection(g.handoff),
    BoundReceiptRejection(g.receipt),
    BindingRejection(g.binding),
    ArtifactChainRejection(g, expected),
    Reject("DENY_POLICY", \/ g.binding.policy_id # policy.id
                          \/ g.binding.policy_version # policy.version
                          \/ g.binding.policy_hash # policy.hash),
    Reject(g.handoff.reason, g.handoff.decision = "rejected") >>
<1> DEFINE loose == <<
    Reject("DENY_POLICY", expected = BadContext),
    HandoffRejection(g.handoff, expected),
    GatewayReceiptRejection(g.receipt),
    Reject("DENY_ADAPTER_INVALID", ~ReceiptMatchesHandoff(g.handoff, g.receipt)),
    Reject(g.handoff.reason, g.handoff.decision = "rejected") >>
<1>1. \A i \in 1..15 : strict[i] = OK
  <2>1. Len(strict) = 15
    OBVIOUS
  <2>2. FirstRejection(strict) = OK
    BY DEF BoundGatewayRejection
  <2> HIDE DEF strict
  <2> QED BY <2>1, <2>2, FirstRejectionOutcome
<1>2. /\ strict[1] = OK /\ strict[3] = OK /\ strict[10] = OK
      /\ strict[11] = OK /\ strict[13] = OK /\ strict[15] = OK
  <2> HIDE DEF strict
  <2> QED BY <1>1
<1>3. expected # BadContext
  <2>1. strict[1] = Reject("DENY_POLICY", \/ expected = BadContext \/ policy.hash = BadContext
                                         \/ IsBlank(policy.id) \/ IsBlank(policy.version))
    OBVIOUS
  <2> HIDE DEF strict
  <2> QED BY <1>2, <2>1 DEF Reject, OK
<1>4. ~g.handoff.hidden_authority /\ ~g.receipt.hidden_authority
  <2>1. strict[3] = Reject("DENY_ADAPTER_INVALID",
           g.hidden_authority \/ g.handoff.hidden_authority \/ g.receipt.hidden_authority)
    OBVIOUS
  <2> HIDE DEF strict
  <2> QED BY <1>2, <2>1 DEF Reject, OK
<1>5. BoundHandoffRejection(g.handoff) = OK /\ BoundReceiptRejection(g.receipt) = OK
      /\ ArtifactChainRejection(g, expected) = OK
      /\ Reject(g.handoff.reason, g.handoff.decision = "rejected") = OK
  BY <1>2
<1> HIDE DEF strict
<1>6. g.handoff.context = expected /\ ReceiptMatchesHandoff(g.handoff, g.receipt)
  BY <1>5, ChainAccepted
<1>7. HandoffRejection(g.handoff, expected) = OK
  BY <1>4, <1>5, <1>6, HandoffAccepted
<1>8. GatewayReceiptRejection(g.receipt) = OK
  BY <1>4, <1>5, ReceiptAcceptedByBoth
<1>9. loose[1] = OK /\ loose[2] = OK /\ loose[3] = OK /\ loose[4] = OK /\ loose[5] = OK
  BY <1>3, <1>5, <1>6, <1>7, <1>8 DEF Reject
<1>10. Len(loose) = 5 /\ \A i \in 1..5 : loose[i] = OK
  <2>1. Len(loose) = 5
    OBVIOUS
  <2>2. \A i \in 1..5 : i \in {1, 2, 3, 4, 5}
    OBVIOUS
  <2> HIDE DEF loose
  <2> QED BY <1>9, <2>1, <2>2
<1>11. FirstRejection(loose) = OK
  <2> HIDE DEF loose
  <2> QED BY <1>10, FirstRejectionOutcome
<1> QED BY <1>11 DEF GatewayRejection

\* Evidence is accepted exactly when there is no objection.
LEMMA JudgedOutcome ==
  ASSUME NEW rejection, NEW context
  PROVE  AcceptedAsEvidence(Judged(rejection, context)) <=> rejection = OK
BY DEF AcceptedAsEvidence, Judged, Accepted, Denied

\* What the strict reader accepts, told of the same results, the loose reader accepts.
LEMMA StrictEvidenceIsLooseEvidence ==
  ASSUME NEW g, NEW expected, NEW policy, NEW told,
         AcceptedAsEvidence(BoundGatewayEvidence(g, expected, policy, told))
  PROVE  AcceptedAsEvidence(GatewayEvidence(g, expected, told))
<1>1. ~Misunderstood(told) /\ EarlierDenies(told) = <<>>
  BY DEF BoundGatewayEvidence, UnlessDeniedBefore, AcceptedAsEvidence, Denied
<1>2. BoundGatewayRejection(g, expected, policy) = OK
  BY <1>1, JudgedOutcome DEF BoundGatewayEvidence, UnlessDeniedBefore
<1>3. GatewayRejection(g, expected) = OK
  BY <1>2, StrictIsStricter
<1> QED BY <1>1, <1>3, JudgedOutcome DEF GatewayEvidence, UnlessDeniedBefore

(***************************************************************************)
(* The invariant is inductive.                                             *)
(***************************************************************************)

\* Before the first step nothing was said.
LEMMA InitIInv == Init => IInv
BY DEF Init, IInv, Order, Stages, Normalisers, WsqkSaid, QidSaid, CoreSaid, GatewaySaid,
       TvaSaid

\* While the session and the results it tells of stay, so does what would be said.
LEMMA AnswersStay ==
  ASSUME session' = session
  PROVE  /\ in' = in /\ WsqkAnswer' = WsqkAnswer
         /\ result'["wsqk_v2"] = result["wsqk_v2"] =>
              \A time : QidAnswer(time)' = QidAnswer(time) /\ TvaAnswer(time)' = TvaAnswer(time)
         /\ result'["wsqk_v2"] = result["wsqk_v2"] /\ result'["qid"] = result["qid"] =>
              \A time : CoreAnswer(time)' = CoreAnswer(time)
         /\ result'["wsqk_v2"] = result["wsqk_v2"] /\ result'["qid"] = result["qid"]
              /\ result'["adaptive_core"] = result["adaptive_core"] =>
              LooseAnswer' = LooseAnswer /\ StrictAnswer' = StrictAnswer
<1>1. in' = in /\ Expected' = Expected
  BY DEF in, Expected
<1>2. WsqkAnswer' = WsqkAnswer
  BY <1>1 DEF WsqkAnswer
<1>3. ASSUME result'["wsqk_v2"] = result["wsqk_v2"], NEW time
      PROVE  QidAnswer(time)' = QidAnswer(time) /\ TvaAnswer(time)' = TvaAnswer(time)
  <2>1. QidExpected' = QidExpected
    BY <1>1, <1>3 DEF QidExpected, PostureShown
  <2> QED BY <1>1, <1>3, <2>1 DEF QidAnswer, TvaAnswer
<1>4. ASSUME NEW gates, \A i \in DOMAIN gates : result'[gates[i]] = result[gates[i]]
      PROVE  Told(gates)' = Told(gates)
  <2>1. [i \in DOMAIN gates |-> result'[gates[i]]] = [i \in DOMAIN gates |-> result[gates[i]]]
    BY <1>4
  <2> QED BY <1>1, <2>1 DEF Told
<1>5. ASSUME result'["wsqk_v2"] = result["wsqk_v2"], result'["qid"] = result["qid"], NEW time
      PROVE  CoreAnswer(time)' = CoreAnswer(time)
  <2>1. Told(<<"wsqk_v2", "qid">>)' = Told(<<"wsqk_v2", "qid">>)
    BY <1>4, <1>5
  <2> QED BY <1>1, <2>1 DEF CoreAnswer
<1>6. ASSUME result'["wsqk_v2"] = result["wsqk_v2"], result'["qid"] = result["qid"],
             result'["adaptive_core"] = result["adaptive_core"]
      PROVE  LooseAnswer' = LooseAnswer /\ StrictAnswer' = StrictAnswer
  <2>1. ToldGateway' = ToldGateway
    BY <1>4, <1>6 DEF ToldGateway
  <2> QED BY <1>1, <2>1 DEF LooseAnswer, StrictAnswer
<1>7. result'["wsqk_v2"] = result["wsqk_v2"] =>
        \A time : QidAnswer(time)' = QidAnswer(time) /\ TvaAnswer(time)' = TvaAnswer(time)
  BY <1>3, Zenon
<1>8. result'["wsqk_v2"] = result["wsqk_v2"] /\ result'["qid"] = result["qid"] =>
        \A time : CoreAnswer(time)' = CoreAnswer(time)
  BY <1>5, Zenon
<1>9. result'["wsqk_v2"] = result["wsqk_v2"] /\ result'["qid"] = result["qid"]
        /\ result'["adaptive_core"] = result["adaptive_core"] =>
        LooseAnswer' = LooseAnswer /\ StrictAnswer' = StrictAnswer
  BY <1>6, Zenon
<1> QED BY <1>1, <1>2, <1>7, <1>8, <1>9, Zenon

\* The order of the steps is kept.
LEMMA OrderStays == Order /\ [Next]_vars => Order'
<1> SUFFICES ASSUME Order, [Next]_vars PROVE Order'
  OBVIOUS
<1> USE DEF Order, Stages, Normalisers
<1>1. ASSUME UNCHANGED vars PROVE Order'
  BY <1>1 DEF vars
<1>2. ASSUME Tick PROVE Order'
  BY <1>2 DEF Tick
<1>3. ASSUME NormalizeWsqk PROVE Order'
  BY <1>3 DEF NormalizeWsqk, Answer
<1>4. ASSUME BindQid PROVE Order'
  BY <1>4 DEF BindQid, Answer
<1>5. ASSUME NormalizeAdaptiveCore PROVE Order'
  BY <1>5 DEF NormalizeAdaptiveCore, Answer
<1>6. ASSUME ConsumeGateway PROVE Order'
  BY <1>6 DEF ConsumeGateway, Answer
<1>7. ASSUME Decide PROVE Order'
  BY <1>7 DEF Decide
<1>8. ASSUME Enforce PROVE Order'
  BY <1>8 DEF Enforce
<1> QED BY <1>1, <1>2, <1>3, <1>4, <1>5, <1>6, <1>7, <1>8 DEF Next

\* A step that leaves the results and what the gate said leaves the invariant.
LEMMA NothingSaid ==
  ASSUME IInv, Order', session' = session, result' = result, enforcement' = enforcement
  PROVE  IInv'
<1>1. /\ in' = in /\ WsqkAnswer' = WsqkAnswer
      /\ \A time : QidAnswer(time)' = QidAnswer(time) /\ TvaAnswer(time)' = TvaAnswer(time)
      /\ \A time : CoreAnswer(time)' = CoreAnswer(time)
      /\ LooseAnswer' = LooseAnswer /\ StrictAnswer' = StrictAnswer
  BY AnswersStay, Zenon
<1>2. WsqkSaid' /\ GatewaySaid'
  BY <1>1 DEF IInv, WsqkSaid, GatewaySaid
<1>3. QidSaid' /\ CoreSaid' /\ TvaSaid'
  BY <1>1 DEF IInv, QidSaid, CoreSaid, TvaSaid
<1> QED BY <1>2, <1>3 DEF IInv

\* Every step keeps the invariant: what is said is what is to be said, and what was
\* said before is not touched.
LEMMA NextIInv == IInv /\ [Next]_vars => IInv'
<1> SUFFICES ASSUME IInv, [Next]_vars PROVE IInv'
  OBVIOUS
<1>1. Order /\ Order'
  BY OrderStays DEF IInv
<1>2. ASSUME UNCHANGED vars PROVE IInv'
  BY <1>1, <1>2, NothingSaid DEF vars
<1>3. ASSUME Tick PROVE IInv'
  BY <1>1, <1>3, NothingSaid DEF Tick
<1>4. ASSUME NormalizeWsqk PROVE IInv'
  <2>1. /\ session' = session /\ enforcement' = NoResult
        /\ result'["wsqk_v2"] = WsqkAnswer /\ result'["qid"] = NoResult
        /\ result'["adaptive_core"] = NoResult /\ result'["ai_gateway"] = NoResult
    BY <1>1, <1>4 DEF NormalizeWsqk, Answer, Order, Normalisers, WsqkAnswer
  <2>2. WsqkAnswer' = WsqkAnswer
    BY <2>1, AnswersStay, Zenon
  <2> QED BY <1>1, <2>1, <2>2
          DEF IInv, WsqkSaid, QidSaid, CoreSaid, GatewaySaid, TvaSaid
<1>5. ASSUME BindQid PROVE IInv'
  <2>1. /\ session' = session /\ enforcement' = NoResult
        /\ result'["wsqk_v2"] = result["wsqk_v2"] /\ result'["qid"] = QidAnswer(now)
        /\ result'["adaptive_core"] = NoResult /\ result'["ai_gateway"] = NoResult
    BY <1>1, <1>5 DEF BindQid, Answer, Order, Normalisers, QidAnswer
  <2>2. WsqkAnswer' = WsqkAnswer /\ \A time : QidAnswer(time)' = QidAnswer(time)
    BY <2>1, AnswersStay, Zenon
  <2>3. WsqkSaid'
    BY <2>1, <2>2 DEF IInv, WsqkSaid
  <2>4. QidSaid'
    BY <2>1, <2>2 DEF QidSaid
  <2> QED BY <1>1, <2>1, <2>3, <2>4 DEF IInv, CoreSaid, GatewaySaid, TvaSaid
<1>6. ASSUME NormalizeAdaptiveCore PROVE IInv'
  <2>1. /\ session' = session /\ enforcement' = NoResult
        /\ result'["wsqk_v2"] = result["wsqk_v2"] /\ result'["qid"] = result["qid"]
        /\ result'["adaptive_core"] = CoreAnswer(now) /\ result'["ai_gateway"] = NoResult
    BY <1>1, <1>6 DEF NormalizeAdaptiveCore, Answer, Order, Normalisers, CoreAnswer
  <2>2. /\ WsqkAnswer' = WsqkAnswer /\ \A time : QidAnswer(time)' = QidAnswer(time)
        /\ \A time : CoreAnswer(time)' = CoreAnswer(time)
    BY <2>1, AnswersStay, Zenon
  <2>3. WsqkSaid' /\ QidSaid'
    BY <2>1, <2>2 DEF IInv, WsqkSaid, QidSaid
  <2>4. CoreSaid'
    BY <2>1, <2>2 DEF CoreSaid
  <2> QED BY <1>1, <2>1, <2>3, <2>4 DEF IInv, GatewaySaid, TvaSaid
<1>7. ASSUME ConsumeGateway PROVE IInv'
  <2>1. /\ session' = session /\ enforcement' = NoResult
        /\ result'["wsqk_v2"] = result["wsqk_v2"] /\ result'["qid"] = result["qid"]
        /\ result'["adaptive_core"] = result["adaptive_core"]
        /\ result'["ai_gateway"] = IF in.consumer = "v1" THEN LooseAnswer ELSE StrictAnswer
    BY <1>1, <1>7 DEF ConsumeGateway, Answer, Order, Normalisers, LooseAnswer, StrictAnswer
  <2>2. /\ in' = in
        /\ WsqkAnswer' = WsqkAnswer /\ \A time : QidAnswer(time)' = QidAnswer(time)
        /\ \A time : CoreAnswer(time)' = CoreAnswer(time)
        /\ LooseAnswer' = LooseAnswer /\ StrictAnswer' = StrictAnswer
    BY <2>1, AnswersStay, Zenon
  <2>3. WsqkSaid' /\ QidSaid' /\ CoreSaid'
    BY <2>1, <2>2 DEF IInv, WsqkSaid, QidSaid, CoreSaid
  <2>4. GatewaySaid'
    BY <2>1, <2>2 DEF GatewaySaid
  <2> QED BY <1>1, <2>1, <2>3, <2>4 DEF IInv, TvaSaid
<1>8. ASSUME Decide PROVE IInv'
  BY <1>1, <1>8, NothingSaid DEF Decide
<1>9. ASSUME Enforce PROVE IInv'
  <2>1. session' = session /\ result' = result /\ enforcement' = TvaAnswer(now)
    BY <1>9 DEF Enforce, TvaAnswer
  <2>2. /\ in' = in /\ WsqkAnswer' = WsqkAnswer
        /\ \A time : QidAnswer(time)' = QidAnswer(time) /\ TvaAnswer(time)' = TvaAnswer(time)
        /\ \A time : CoreAnswer(time)' = CoreAnswer(time)
        /\ LooseAnswer' = LooseAnswer /\ StrictAnswer' = StrictAnswer
    BY <2>1, AnswersStay, Zenon
  <2>3. WsqkSaid' /\ GatewaySaid'
    BY <2>1, <2>2 DEF IInv, WsqkSaid, GatewaySaid
  <2>4. QidSaid' /\ CoreSaid'
    BY <2>1, <2>2 DEF IInv, QidSaid, CoreSaid
  <2>5. TvaSaid'
    BY <2>1, <2>2 DEF TvaSaid
  <2> QED BY <1>1, <2>3, <2>4, <2>5 DEF IInv
<1> QED BY <1>2, <1>3, <1>4, <1>5, <1>6, <1>7, <1>8, <1>9 DEF Next

\* Whatever is said, at any time, is what is to be said.
THEOREM AnswersAreTrue == Spec => []IInv
<1> QED BY InitIInv, NextIInv, PTL DEF Spec

(***************************************************************************)
(* What follows from it.                                                   *)
(***************************************************************************)

\* The policy-bound reader of the gateway's evidence accepts nothing that the reader
\* it replaces would have stopped.
THEOREM StrictIsNoWayAround == Spec => []StrictAcceptsOnlyWhatLooseAccepts
<1>1. IInv => StrictAcceptsOnlyWhatLooseAccepts
  <2> SUFFICES ASSUME IInv, in.consumer = "v2", Passed("ai_gateway")
               PROVE  AcceptedAsEvidence(LooseAnswer)
    BY DEF StrictAcceptsOnlyWhatLooseAccepts, LooseAnswer
  <2>1. AcceptedAsEvidence(StrictAnswer)
    BY DEF IInv, GatewaySaid, Passed
  <2> QED BY <2>1, StrictEvidenceIsLooseEvidence DEF StrictAnswer, LooseAnswer
<1> QED BY <1>1, AnswersAreTrue, PTL

\* What a posture asks of a session that is not rejected for it.
LEMMA PostureAccepted ==
  ASSUME NEW posture, NEW q, QidBindingRejection(posture, q) = OK
  PROVE  /\ posture = "hybrid_required" => q.classical /\ q.pqc
         /\ posture = "pqc_required" => q.pqc
<1> DEFINE s == <<
    Reject("WSQK_QID_HYBRID_REQUIRED",
           posture = "hybrid_required" /\ ~(q.classical /\ q.pqc)),
    Reject("WSQK_QID_POSTURE_MISMATCH", posture = "pqc_required" /\ ~q.pqc) >>
<1>1. Len(s) = 2 /\ FirstRejection(s) = OK
  BY DEF QidBindingRejection
<1>2. s[1] = OK /\ s[2] = OK
  <2> HIDE DEF s
  <2>1. \A i \in 1..2 : s[i] = OK
    BY <1>1, FirstRejectionOutcome
  <2> QED BY <2>1
<1> QED BY <1>2 DEF Reject, OK

\* Whose replay proof is not rejected.
LEMMA ReplayProofAccepted ==
  ASSUME NEW device, NEW q, NEW wallet, NEW nonce,
         ReplayProofRejectionOn(device, q, wallet, nonce) = OK
  PROVE  q.replay_proof.wallet = wallet
<1> DEFINE s == <<
        Reject("QID_REPLAY_PROOF_MISSING", ~q.replay_proof.present),
        Reject("QID_REPLAY_PROOF_INVALID", q.replay_proof.malformed),
        Reject("QID_REPLAY_WALLET_MISMATCH", q.replay_proof.wallet # wallet),
        Reject("QID_REPLAY_SUBJECT_MISMATCH", q.replay_proof.subject # q.subject),
        Reject("QID_REPLAY_PROOF_HASH_MISMATCH", q.replay_proof.proof_hash # q.proof_hash),
        Reject("QID_REPLAY_DEVICE_MISMATCH", q.replay_proof.device # device),
        Reject("QID_REPLAY_NONCE_MISMATCH", q.replay_proof.session_nonce # nonce),
        Reject("QID_NONCE_REPLAY", ~q.replay_proof.fresh) >>
<1>1. Len(s) = 8 /\ FirstRejection(s) = OK
  BY DEF ReplayProofRejectionOn
<1>2. s[3] = OK
  <2> HIDE DEF s
  <2>1. \A i \in 1..8 : s[i] = OK
    BY <1>1, FirstRejectionOutcome
  <2> QED BY <2>1
<1> QED BY <1>2 DEF Reject, OK

\* What Q-ID evidence without an objection has to do with what is expected of it.
LEMMA QidAccepted ==
  ASSUME NEW q, NEW time, NEW expected, QidRejection(q, time, expected) = OK
  PROVE  /\ expected.posture = "hybrid_required" => q.classical /\ q.pqc
         /\ expected.posture = "pqc_required" => q.pqc
         /\ q.context = expected.context
         /\ q.replay_proof.wallet = expected.wallet
<1> DEFINE s == <<
    Reject("EQC_INVALID_QID_PROOF", ~q.is_object),
    Reject("DENY_ADAPTER_INVALID", q.hidden_authority),
    Reject("EQC_MISSING_QID_SESSION", ~q.has_session),
    Reject("WSQK_QID_BINDING_INVALID", q.posture_shape # "given"),
    QidBindingRejection(expected.posture, q),
    SessionRejection(q, time),
    Reject("QID_REPLAY_SUBJECT_MISMATCH", q.subject # expected.subject),
    Reject("EQC_QID_CONTEXT_HASH_MISMATCH",
           expected.context = NoContext \/ q.context # expected.context),
    ReplayProofRejectionOn(expected.device, q, expected.wallet, expected.nonce) >>
<1>1. Len(s) = 9 /\ FirstRejection(s) = OK
  BY DEF QidRejection
<1>2. s[5] = OK /\ s[8] = OK /\ s[9] = OK
  <2> HIDE DEF s
  <2>1. \A i \in 1..9 : s[i] = OK
    BY <1>1, FirstRejectionOutcome
  <2> QED BY <2>1
<1>3. /\ QidBindingRejection(expected.posture, q) = OK
      /\ Reject("EQC_QID_CONTEXT_HASH_MISMATCH",
                expected.context = NoContext \/ q.context # expected.context) = OK
      /\ ReplayProofRejectionOn(expected.device, q, expected.wallet, expected.nonce) = OK
  BY <1>2
<1> HIDE DEF s
<1>4. q.context = expected.context
  BY <1>3 DEF Reject, OK
<1> QED BY <1>3, <1>4, PostureAccepted, ReplayProofAccepted

\* The gate that serves an authority for a scope serves the posture the scope names.
LEMMA ServedPosture ==
  ASSUME NEW r, NEW time, TvaRejection(r, time) = OK, r.scope.kind = "v2"
  PROVE  r.wsqk.posture = Strip(r.scope.posture)
<1> DEFINE a == r.wsqk
<1> DEFINE s == <<
        Reject("TVA_AUTHORITY_WALLET_MISMATCH", a.wallet # r.wallet),
        Reject("TVA_AUTHORITY_ACTION_MISMATCH", a.action # r.action),
        Reject("TVA_AUTHORITY_CONTEXT_HASH_MISMATCH", a.context # RequestContext(r)),
        Reject("TVA_INVALID_TIME_WINDOW", a.expires_at < a.issued_at),
        Reject("TVA_AUTHORITY_NOT_YET_VALID", time < a.issued_at),
        Reject("TVA_AUTHORITY_EXPIRED", time > a.expires_at),
        PostureRejection(a, r.scope),
        Reject("TVA_INVALID_NONCE", Strip(a.nonce) = Blank) >>
<1> DEFINE posture == <<
         Reject("TVA_WSQK_V2_REQUIRED", a.kind # "v2"),
         FamiliesRejection(a.families),
         FamiliesRejection(r.scope.families),
         Reject("TVA_WSQK_V2_EVIDENCE_FAMILY_MISMATCH",
                CanonicalFamilies(a.families) # CanonicalFamilies(r.scope.families)),
         Reject("TVA_WSQK_V2_QUANTUM_POSTURE_MISMATCH",
                a.posture # Strip(r.scope.posture)),
         Reject("TVA_WSQK_V2_PROOF_BINDINGS_HASH_MISMATCH",
                a.binding # WsqkBinding(a)) >>
<1>1. PostureRejection(a, r.scope) = OK
  <2>1. Len(s) = 8 /\ s[7] = PostureRejection(a, r.scope)
    OBVIOUS
  <2>2. FirstRejection(s) = OK
    BY DEF TvaRejection
  <2> HIDE DEF s
  <2>3. \A i \in 1..8 : s[i] = OK
    BY <2>1, <2>2, FirstRejectionOutcome
  <2>4. s[7] = OK
    BY <2>3
  <2> QED BY <2>1, <2>4
<1>2. posture[5] = OK
  <2>1. Len(posture) = 6 /\ FirstRejection(posture) = OK
    BY <1>1 DEF PostureRejection
  <2> HIDE DEF posture
  <2>2. \A i \in 1..6 : posture[i] = OK
    BY <2>1, FirstRejectionOutcome
  <2> QED BY <2>2
<1> QED BY <1>2 DEF Reject, OK

\* The posture of an authority that is served is backed by the Q-ID session that was
\* accepted before it, at whatever times the two were looked at.
THEOREM ServedPostureIsBacked == Spec => []PostureIsBacked
<1>1. IInv => PostureIsBacked
  <2> SUFFICES ASSUME IInv, enforcement = OK, in.request.scope.kind = "v2", Passed("qid"),
                      NEW asked, asked = Strip(in.request.scope.posture)
               PROVE  /\ asked \in {"hybrid_required", "pqc_required"} => in.qid.pqc
                      /\ asked = "hybrid_required" => in.qid.classical
    BY DEF PostureIsBacked
  <2> DEFINE a == result["wsqk_v2"].authority[1]
  <2> DEFINE r == [in.request EXCEPT !.wsqk = a]
  <2>1. PICK time : enforcement = TvaAnswer(time)
    BY NoResultAssumption DEF IInv, TvaSaid
  <2>2. result["wsqk_v2"].authority # <<>> /\ TvaRejection(r, time) = OK
    BY <2>1 DEF TvaAnswer, OK
  <2>3. r.scope = in.request.scope /\ r.wsqk = a
    <3>1. {"scope", "wsqk"} \subseteq DOMAIN in.request
      BY CaseAssumption DEF IInv, Order, in
    <3> QED BY <3>1
  <2>4. a.posture = asked
    BY <2>2, <2>3, ServedPosture
  <2>5. QidExpected.posture = asked
    BY <2>2, <2>4 DEF QidExpected, PostureShown
  <2>6. PICK then : result["qid"] = QidAnswer(then)
    BY DEF IInv, QidSaid, Passed
  <2>7. QidRejection(in.qid, then, QidExpected) = OK
    BY <2>6, JudgedOutcome DEF QidAnswer, QidEvidence, Passed
  <2> QED BY <2>5, <2>7, QidAccepted
<1> QED BY <1>1, AnswersAreTrue, PTL

\* Whose authority is not rejected.
LEMMA AuthorityBinding ==
  ASSUME NEW a, NEW r, NEW expected, AuthorityRejection(a, r, expected) = OK
  PROVE  a.wallet = r.wallet /\ a.context = expected
<1> DEFINE s == <<
    Reject("DENY_WSQK", a.kind # "v2"),
    Reject("TVA_AUTHORITY_WALLET_MISMATCH", a.wallet # r.wallet),
    Reject("TVA_AUTHORITY_ACTION_MISMATCH", a.action # r.action),
    Reject("TVA_AUTHORITY_CONTEXT_HASH_MISMATCH", a.context # expected),
    FamiliesRejection(a.families),
    Reject("TVA_WSQK_V2_PROOF_BINDINGS_HASH_MISMATCH", a.binding # WsqkBinding(a)) >>
<1>1. Len(s) = 6 /\ FirstRejection(s) = OK
  BY DEF AuthorityRejection
<1>2. s[2] = OK /\ s[4] = OK
  <2> HIDE DEF s
  <2>1. \A i \in 1..6 : s[i] = OK
    BY <1>1, FirstRejectionOutcome
  <2> QED BY <2>1
<1> QED BY <1>2 DEF Reject, OK

\* Whose authority WSQK evidence shows when it is accepted.
LEMMA AuthorityAccepted ==
  ASSUME NEW w, NEW r, NEW expected, AcceptedAsEvidence(WsqkEvidence(w, r, expected))
  PROVE  /\ WsqkEvidence(w, r, expected).authority[1].context = expected
         /\ WsqkEvidence(w, r, expected).authority[1].wallet = r.wallet
<1>1. PICK a : /\ WsqkEvidence(w, r, expected) = JudgedAuthority(a, r, expected)
               /\ AcceptedAsEvidence(JudgedAuthority(a, r, expected))
  BY DEF WsqkEvidence, AcceptedAsEvidence, Denied
<1>2. JudgedAuthority(a, r, expected).authority = <<a>>
  BY DEF JudgedAuthority, Judged, Accepted, Denied
<1>3. AuthorityRejection(a, r, expected) = OK
  BY <1>1 DEF JudgedAuthority, Judged, Accepted, Denied, AcceptedAsEvidence
<1>4. a.wallet = r.wallet /\ a.context = expected
  BY <1>3, AuthorityBinding
<1> QED BY <1>1, <1>2, <1>4

\* What is not stopped by an earlier denial is judged.
LEMMA NotStopped ==
  ASSUME NEW told, NEW judged, AcceptedAsEvidence(UnlessDeniedBefore(told, judged))
  PROVE  AcceptedAsEvidence(judged)
BY DEF UnlessDeniedBefore, AcceptedAsEvidence, Denied

\* Whose report is not rejected.
LEMMA CoreBinding ==
  ASSUME NEW o, NEW time, NEW expected, NEW policy,
         AdaptiveCoreRejection(o, time, expected, policy) = OK
  PROVE  o.context = expected
<1> DEFINE s == <<
    Reject("DENY_POLICY", ~policy.valid),
    Reject("DENY_ADAPTER_INVALID", o.kind = "payload" /\ o.hidden_authority),
    Reject("EQC_RISK_CONTEXT_HASH_MISMATCH", expected = BadContext),
    Reject("EQC_RISK_CONTEXT_HASH_MISMATCH",
           \/ o.context = BadContext
           \/ o.kind \in {"oracle", "report"} /\ o.context = NoContext),
    ReportFromInputRejection(o, time, expected, policy),
    Reject("EQC_RISK_CONTEXT_HASH_MISMATCH", o.context # expected),
    Reject("EQC_INVALID_RISK_REPORT",
           IsOracle(o) /\ (o.issued_at > time \/ o.expires_at < time)),
    Reject("EQC_RISK_SCORE_BELOW_THRESHOLD", o.score < policy.min_score) >>
<1>1. Len(s) = 8 /\ FirstRejection(s) = OK
  BY DEF AdaptiveCoreRejection
<1>2. s[6] = OK
  <2> HIDE DEF s
  <2>1. \A i \in 1..8 : s[i] = OK
    BY <1>1, FirstRejectionOutcome
  <2> QED BY <2>1
<1> QED BY <1>2 DEF Reject, OK

\* Whose handoff is not rejected by the loose reader.
LEMMA HandoffBinding ==
  ASSUME NEW h, NEW expected, HandoffRejection(h, expected) = OK
  PROVE  h.context = expected
<1> DEFINE s == <<
    Reject("DENY_ADAPTER_INVALID", h.kind # "mapping" \/ h.hidden_authority),
    Reject("DENY_UNKNOWN_FIELD", h.unknown_field),
    Reject("DENY_SCHEMA_INVALID", h.missing_field),
    Reject("DENY_VERSION_MISMATCH", h.foreign_version),
    Reject("DENY_POLICY", h.decision \notin GatewayDecisions),
    Reject("DENY_SCHEMA_INVALID",
           IsBlank(h.adapter) \/ IsBlank(h.task_type) \/ IsBlank(h.reason)),
    Reject("DENY_ADAPTER_INVALID", BadContext \in {h.envelope, h.output, h.context}),
    Reject("DENY_POLICY", h.context # expected) >>
<1>1. Len(s) = 8 /\ FirstRejection(s) = OK
  BY DEF HandoffRejection
<1>2. s[8] = OK
  <2> HIDE DEF s
  <2>1. \A i \in 1..8 : s[i] = OK
    BY <1>1, FirstRejectionOutcome
  <2> QED BY <2>1
<1> QED BY <1>2 DEF Reject, OK

\* Whose handoff evidence the loose reader does not reject is about.
LEMMA GatewayBinding ==
  ASSUME NEW g, NEW expected, GatewayRejection(g, expected) = OK
  PROVE  g.handoff.context = expected
<1> DEFINE s == <<
    Reject("DENY_POLICY", expected = BadContext),
    HandoffRejection(g.handoff, expected),
    GatewayReceiptRejection(g.receipt),
    Reject("DENY_ADAPTER_INVALID", ~ReceiptMatchesHandoff(g.handoff, g.receipt)),
    Reject(g.handoff.reason, g.handoff.decision = "rejected") >>
<1>1. Len(s) = 5 /\ FirstRejection(s) = OK
  BY DEF GatewayRejection
<1>2. s[2] = OK
  <2> HIDE DEF s
  <2>1. \A i \in 1..5 : s[i] = OK
    BY <1>1, FirstRejectionOutcome
  <2> QED BY <2>1
<1>3. HandoffRejection(g.handoff, expected) = OK
  BY <1>2
<1> QED BY <1>3, HandoffBinding

\* Evidence of different parties that was accepted is about one context and one wallet.
THEOREM AcceptedTogetherIsAboutOneCall == Spec => []AcceptedEvidenceIsAboutOneContext
<1>1. IInv => AcceptedEvidenceIsAboutOneContext
  <2> SUFFICES ASSUME IInv PROVE AcceptedEvidenceIsAboutOneContext
    OBVIOUS
  <2>1. Passed("wsqk_v2") => /\ result["wsqk_v2"].authority[1].context = Expected
                             /\ result["wsqk_v2"].authority[1].wallet = in.request.wallet
    BY AuthorityAccepted DEF IInv, WsqkSaid, Passed, WsqkAnswer
  <2>2. Passed("qid") => /\ in.qid.context = Expected
                         /\ in.qid.replay_proof.wallet = in.request.wallet
    <3> SUFFICES ASSUME Passed("qid")
                 PROVE  /\ in.qid.context = Expected
                        /\ in.qid.replay_proof.wallet = in.request.wallet
      OBVIOUS
    <3>1. PICK time : result["qid"] = QidAnswer(time)
      BY DEF IInv, QidSaid, Passed
    <3>2. QidRejection(in.qid, time, QidExpected) = OK
      BY <3>1, JudgedOutcome DEF QidAnswer, QidEvidence, Passed
    <3>3. in.qid.context = QidExpected.context
          /\ in.qid.replay_proof.wallet = QidExpected.wallet
      BY <3>2, QidAccepted
    <3> QED BY <3>3 DEF QidExpected
  <2>3. Passed("adaptive_core") => in.report.context = Expected
    <3> SUFFICES ASSUME Passed("adaptive_core") PROVE in.report.context = Expected
      OBVIOUS
    <3>1. PICK time : result["adaptive_core"] = CoreAnswer(time)
      BY DEF IInv, CoreSaid, Passed
    <3>2. AdaptiveCoreRejection(in.report, time, Expected, in.policy) = OK
      BY <3>1, NotStopped, JudgedOutcome DEF CoreAnswer, AdaptiveCoreEvidence, Passed
    <3> QED BY <3>2, CoreBinding
  <2>4. Passed("ai_gateway") => in.gateway.handoff.context = Expected
    <3> SUFFICES ASSUME Passed("ai_gateway") PROVE in.gateway.handoff.context = Expected
      OBVIOUS
    <3>1. AcceptedAsEvidence(LooseAnswer) \/ AcceptedAsEvidence(StrictAnswer)
      BY DEF IInv, GatewaySaid, Passed
    <3>2. AcceptedAsEvidence(LooseAnswer)
      BY <3>1, StrictEvidenceIsLooseEvidence DEF LooseAnswer, StrictAnswer
    <3>3. GatewayRejection(in.gateway, Expected) = OK
      BY <3>2, NotStopped, JudgedOutcome DEF LooseAnswer, GatewayEvidence
    <3> QED BY <3>3, GatewayBinding
  <2> DEFINE contexts ==
        (IF Passed("wsqk_v2") THEN {result["wsqk_v2"].authority[1].context} ELSE {})
        \cup (IF Passed("qid") THEN {in.qid.context} ELSE {})
        \cup (IF Passed("adaptive_core") THEN {in.report.context} ELSE {})
        \cup (IF Passed("ai_gateway") THEN {in.gateway.handoff.context} ELSE {})
  <2> DEFINE wallets ==
        (IF Passed("wsqk_v2") THEN {result["wsqk_v2"].authority[1].wallet} ELSE {})
        \cup (IF Passed("qid") THEN {in.qid.replay_proof.wallet} ELSE {})
  <2>5. contexts \subseteq {Expected} /\ wallets \subseteq {in.request.wallet}
    BY <2>1, <2>2, <2>3, <2>4
  <2> HIDE DEF contexts, wallets
  <2>6. ASSUME NEW x, NEW S, S \subseteq {x} PROVE Cardinality(S) <= 1
    <3>1. IsFiniteSet({x}) /\ Cardinality({x}) = 1
      BY FS_Singleton
    <3> QED BY <2>6, <3>1, FS_Subset
  <2>7. Cardinality(contexts) <= 1 /\ Cardinality(wallets) <= 1
    BY <2>5, <2>6
  <2> QED BY <2>7 DEF AcceptedEvidenceIsAboutOneContext, contexts, wallets
<1> QED BY <1>1, AnswersAreTrue, PTL

(***************************************************************************)
(* What the engine and the gate said, and when.                            *)
(***************************************************************************)

\* The engine is asked when every normaliser has answered, the gate at the time at
\* which the host ends; no answer changes after that.
Concluded ==
  /\ pc # "wsqk_v2" => result["wsqk_v2"] = WsqkAnswer
  /\ decision # NoResult => pc \in {"enforce", "done"} /\ decision = Evaluate(EngineInput)
  /\ pc = "done" => enforcement = TvaAnswer(now)

LEMMA NextConcluded == IInv /\ Concluded /\ [Next]_vars => Concluded'
<1> SUFFICES ASSUME IInv, Concluded, [Next]_vars PROVE Concluded'
  OBVIOUS
<1>1. DOMAIN result = Normalisers
  BY DEF IInv, Order
<1>2. session' = session => WsqkAnswer' = WsqkAnswer
  BY AnswersStay
<1>3. session' = session /\ result' = result =>
        EngineInput' = EngineInput /\ \A time : TvaAnswer(time)' = TvaAnswer(time)
  BY AnswersStay DEF EngineInput, in, Expected
<1>4. CASE UNCHANGED vars
  BY <1>2, <1>3, <1>4 DEF vars, Concluded
<1>5. CASE Tick
  BY <1>2, <1>3, <1>5 DEF Tick, Concluded
<1>6. CASE NormalizeWsqk
  BY <1>1, <1>2, <1>6 DEF NormalizeWsqk, Answer, Concluded, Normalisers, WsqkAnswer
<1>7. CASE BindQid
  BY <1>1, <1>2, <1>7 DEF BindQid, Answer, Concluded, Normalisers
<1>8. CASE NormalizeAdaptiveCore
  BY <1>1, <1>2, <1>8 DEF NormalizeAdaptiveCore, Answer, Concluded, Normalisers
<1>9. CASE ConsumeGateway
  BY <1>1, <1>2, <1>9 DEF ConsumeGateway, Answer, Concluded, Normalisers
<1>10. CASE Decide
  <2>1. /\ pc' = "enforce" /\ session' = session /\ result' = result
        /\ pc = "decide" /\ decision' = Evaluate(EngineInput)
    BY <1>10 DEF Decide
  <2>2. WsqkAnswer' = WsqkAnswer /\ EngineInput' = EngineInput
    BY <1>2, <1>3, <2>1
  <2> QED BY <2>1, <2>2 DEF Concluded
<1>11. CASE Enforce
  <2>1. /\ pc' = "done" /\ UNCHANGED <<session, now, result, decision>>
        /\ pc = "enforce" /\ enforcement' = TvaAnswer(now)
    BY <1>11 DEF Enforce, TvaAnswer
  <2>2. /\ WsqkAnswer' = WsqkAnswer /\ EngineInput' = EngineInput
        /\ \A time : TvaAnswer(time)' = TvaAnswer(time)
    BY <1>2, <1>3, <2>1
  <2>3. TvaAnswer(now)' = TvaAnswer(now)
    BY <2>1, <2>2 DEF TvaAnswer
  <2> QED BY <2>1, <2>2, <2>3 DEF Concluded
<1> QED BY <1>4, <1>5, <1>6, <1>7, <1>8, <1>9, <1>10, <1>11 DEF Next

LEMMA ConclusionsStand == Spec => []Concluded
<1>1. Init => Concluded
  BY DEF Init, Concluded
<1> QED BY <1>1, NextConcluded, AnswersAreTrue, PTL DEF Spec

(***************************************************************************)
(* What the host tells of the gates before.                                *)
(***************************************************************************)

\* As many are picked as there are places.
LEMMA PickedLength ==
  ASSUME NEW s, NEW I, IsFiniteSet(I)
  PROVE  /\ Cardinality(I) \in Nat
         /\ Len(Picked(s, I)) = Cardinality(I)
         /\ DOMAIN Picked(s, I) = 1..Cardinality(I)
<1>1. Cardinality(I) \in Nat
  BY FS_CardinalityType
<1> QED BY <1>1 DEF Picked

\* What is picked first is at the first place.
LEMMA PickedFirst ==
  ASSUME NEW s, NEW I \in SUBSET Nat, IsFiniteSet(I), I # {}
  PROVE  Cardinality(I) > 0 /\ Picked(s, I)[1] = s[Min(I)]
<1> DEFINE UpTo(i) == {j \in I : j <= i}
<1>1. /\ Min(I) \in I /\ Min(I) \in Nat
      /\ \A j \in I : Min(I) <= j /\ j \in Nat
  BY MinNat
<1>2. Cardinality(I) \in Nat /\ Cardinality(I) # 0
  BY FS_CardinalityType, FS_EmptySet
<1>3. Cardinality(UpTo(Min(I))) = 1
  <2>1. Min(I) <= Min(I)
    BY <1>1
  <2>2. ASSUME NEW j \in I, j <= Min(I) PROVE j = Min(I)
    <3>1. j \in Nat /\ Min(I) \in Nat /\ Min(I) <= j
      BY <1>1
    <3> QED BY <2>2, <3>1
  <2>3. UpTo(Min(I)) = {Min(I)}
    BY <1>1, <2>1, <2>2, Zenon
  <2> QED BY <2>3, FS_Singleton
<1>4. ASSUME NEW i \in I, Cardinality(UpTo(i)) = 1 PROVE i = Min(I)
  <2>1. IsFiniteSet(UpTo(i))
    BY FS_Subset
  <2>2. PICK x : UpTo(i) = {x}
    BY <1>4, <2>1, FS_Singleton
  <2>3. i \in UpTo(i) /\ Min(I) \in UpTo(i)
    BY <1>1
  <2> QED BY <2>2, <2>3
<1>5. (CHOOSE i \in I : Cardinality(UpTo(i)) = 1) = Min(I)
  BY <1>1, <1>3, <1>4
<1>6. 1 \in 1..Cardinality(I)
  BY <1>2
<1>7. Picked(s, I)[1] = s[CHOOSE i \in I : Cardinality(UpTo(i)) = 1]
  BY <1>6 DEF Picked
<1>8. Cardinality(I) > 0
  BY <1>2
<1> QED BY <1>5, <1>7, <1>8

\* What is at one of the places is picked, and nothing else.
LEMMA PickedMembers ==
  ASSUME NEW s, NEW I \in SUBSET Nat, IsFiniteSet(I)
  PROVE  Range(Picked(s, I)) = {s[i] : i \in I}
<1> DEFINE UpTo(i) == {j \in I : j <= i}
           n == Cardinality(I)
           rank == [i \in I |-> Cardinality(UpTo(i))]
<1>1. n \in Nat
  BY FS_CardinalityType
<1>2. ASSUME NEW i \in I
      PROVE  IsFiniteSet(UpTo(i)) /\ Cardinality(UpTo(i)) \in 1..n
  <2>1. IsFiniteSet(UpTo(i)) /\ Cardinality(UpTo(i)) \in Nat
        /\ Cardinality(UpTo(i)) <= n
    BY FS_Subset, FS_CardinalityType
  <2>2. Cardinality(UpTo(i)) # 0
    <3>1. i \in UpTo(i)
      OBVIOUS
    <3> QED BY <2>1, <3>1, FS_EmptySet
  <2> QED BY <1>1, <2>1, <2>2
<1>3. ASSUME NEW i \in I, NEW j \in I, i < j PROVE rank[i] # rank[j]
  <2>1. UpTo(i) \subseteq UpTo(j) /\ j \in UpTo(j) /\ j \notin UpTo(i)
    <3>1. i \in Nat /\ j \in Nat
      OBVIOUS
    <3>2. ASSUME NEW k \in Nat, k <= i PROVE k <= j
      BY <1>3, <3>1, <3>2
    <3>3. i <= j /\ j <= j /\ ~(j <= i)
      BY <1>3, <3>1
    <3> QED BY <3>2, <3>3, Zenon
  <2>2. UpTo(i) # UpTo(j)
    BY <2>1
  <2> HIDE DEF UpTo
  <2>3. Cardinality(UpTo(i)) # Cardinality(UpTo(j))
    BY <1>2, <2>1, <2>2, FS_Subset
  <2> QED BY <2>3
<1>4. rank \in Injection(I, 1..n)
  <2>1. rank \in [I -> 1..n]
    BY <1>2
  <2>2. \A i, j \in I : rank[i] = rank[j] => i = j
    <3> HIDE DEF rank
    <3>1. \A i, j \in I : i < j \/ j < i \/ i = j
      OBVIOUS
    <3> QED BY <1>3, <3>1
  <2> HIDE DEF rank
  <2> QED BY <2>1, <2>2 DEF Injection, IsInjective
<1>5. rank \in Surjection(I, 1..n)
  <2>1. IsFiniteSet(1..n) /\ Cardinality(1..n) = n
    BY <1>1, FS_Interval
  <2> HIDE DEF rank
  <2> QED BY <1>4, <2>1, FS_Injection
<1>6. \A k \in 1..n : \E i \in I : Cardinality(UpTo(i)) = k
  <2>1. \A k \in 1..n : \E i \in I : rank[i] = k
    <3> HIDE DEF rank
    <3> QED BY <1>5 DEF Surjection
  <2> QED BY <2>1
<1> DEFINE Place(k) == CHOOSE i \in I : Cardinality(UpTo(i)) = k
<1>7. \A k \in 1..n : Place(k) \in I
  BY <1>6
<1>8. \A i \in I : rank[i] \in 1..n /\ Place(rank[i]) = i
  <2> TAKE i \in I
  <2>1. rank[i] = Cardinality(UpTo(i)) /\ rank[i] \in 1..n
    BY <1>2
  <2>2. Place(rank[i]) \in I /\ Cardinality(UpTo(Place(rank[i]))) = rank[i]
    BY <1>6, <2>1
  <2>3. rank[Place(rank[i])] = rank[i]
    BY <2>2
  <2> HIDE DEF rank, Place
  <2> QED BY <1>4, <2>1, <2>2, <2>3 DEF Injection, IsInjective
<1>9. Picked(s, I) = [k \in 1..n |-> s[Place(k)]]
  BY DEF Picked
<1> HIDE DEF Place, rank, n
<1>10. \A x \in Range(Picked(s, I)) : \E i \in I : x = s[i]
  BY <1>7, <1>9 DEF Range
<1>11. \A i \in I : s[i] \in Range(Picked(s, I))
  BY <1>8, <1>9 DEF Range
<1> QED BY <1>10, <1>11
\* The reason a denial is told of with.
ReasonTold(e) == IF e.reason = Blank THEN "DENY_POLICY" ELSE e.reason

Denials(results) == {i \in DOMAIN results : results[i].outcome = "DENY"}

\* What is told of denials is as long as they are many and begins with the first.
LEMMA EarlierDeniesSaid ==
  ASSUME NEW told, NEW n \in Nat, DOMAIN told.results = 1..n, Denials(told.results) # {}
  PROVE  LET told_of == EarlierDenies(told)
             denials == Denials(told.results)
         IN  /\ told_of # <<>>
             /\ told_of[1] = ReasonTold(told.results[Min(denials)])
             /\ Len(told_of) = Cardinality(denials)
<1> DEFINE I == Denials(told.results)
           denied == Picked(told.results, I)
           told_of == [i \in DOMAIN denied |->
                         IF denied[i].reason = Blank THEN "DENY_POLICY" ELSE denied[i].reason]
<1>1. IsFiniteSet(I) /\ I \in SUBSET Nat
  <2>1. I \subseteq 1..n /\ 1..n \subseteq Nat
    BY DEF Denials
  <2>2. IsFiniteSet(1..n)
    <3>1. 1 \in Int /\ n \in Int
      OBVIOUS
    <3> QED BY <3>1, FS_Interval, Zenon
  <2> QED BY <2>1, <2>2, FS_Subset
<1>2. /\ Cardinality(I) \in Nat /\ Cardinality(I) > 0
      /\ DOMAIN denied = 1..Cardinality(I)
      /\ denied[1] = told.results[Min(I)]
  BY <1>1, PickedLength, PickedFirst
<1>3. EarlierDenies(told) = told_of
  BY DEF EarlierDenies, Denials
<1> HIDE DEF I, denied
<1>4. 1 \in DOMAIN denied
  BY <1>2
<1>5. told_of # <<>> /\ told_of[1] = ReasonTold(denied[1])
  BY <1>4 DEF ReasonTold
<1>6. Len(told_of) = Cardinality(I)
  BY <1>2
<1> QED BY <1>2, <1>3, <1>5, <1>6 DEF I

\* A gate that was told of denials and would not understand less, denies and repeats
\* them.
LEMMA DenialRepeated ==
  ASSUME NEW told, NEW n \in Nat, DOMAIN told.results = 1..n, Denials(told.results) # {},
         NEW judged
  PROVE  LET e == UnlessDeniedBefore(told, judged)
             denials == Denials(told.results)
         IN  /\ ~AcceptedAsEvidence(e)
             /\ e.dominant[1] = ReasonTold(told.results[Min(denials)])
             /\ Len(e.dominant) = Cardinality(denials)
<1>1. UnlessDeniedBefore(told, judged) = Denied(EarlierDenies(told))
  BY EarlierDeniesSaid DEF UnlessDeniedBefore
<1>2. Denied(EarlierDenies(told)).dominant = EarlierDenies(told)
      /\ Denied(EarlierDenies(told)).outcome = "DENY"
  BY DEF Denied
<1> QED BY <1>1, <1>2, EarlierDeniesSaid DEF AcceptedAsEvidence

\* So does V2, unless it did not understand what it was told.
LEMMA StrictRepeats ==
  ASSUME NEW told, NEW n \in Nat, DOMAIN told.results = 1..n, Denials(told.results) # {},
         NEW g, NEW expected, NEW policy,
         BoundGatewayEvidence(g, expected, policy, told).dominant # <<"ERR_INTERNAL">>
  PROVE  LET e == BoundGatewayEvidence(g, expected, policy, told)
             denials == Denials(told.results)
         IN  /\ ~AcceptedAsEvidence(e)
             /\ e.dominant[1] = ReasonTold(told.results[Min(denials)])
             /\ Len(e.dominant) = Cardinality(denials)
<1>1. Denied(<<"ERR_INTERNAL">>).dominant = <<"ERR_INTERNAL">>
  BY DEF Denied
<1>2. ~Misunderstood(told)
  BY <1>1 DEF BoundGatewayEvidence
<1> QED BY <1>2, DenialRepeated DEF BoundGatewayEvidence

\* V2 accepts only when all it was told of is evidence.
LEMMA StrictWasToldOfEvidence ==
  ASSUME NEW told, NEW n \in Nat, DOMAIN told.results = 1..n,
         NEW g, NEW expected, NEW policy,
         AcceptedAsEvidence(BoundGatewayEvidence(g, expected, policy, told))
  PROVE  \A i \in DOMAIN told.results : told.results[i].outcome = "ALLOW_EVIDENCE"
<1>1. ~Misunderstood(told)
  BY DEF BoundGatewayEvidence, AcceptedAsEvidence, Denied
<1>2. Denials(told.results) = {}
  BY <1>1, DenialRepeated DEF BoundGatewayEvidence
<1> QED BY <1>1, <1>2 DEF Misunderstood, Denials

\* What is told is a list: nothing, or the Shield result and those of the gates.
LEMMA ToldIsAList ==
  ASSUME NEW gates, NEW m \in Nat, DOMAIN gates = 1..m
  PROVE  \E n \in Nat : DOMAIN Told(gates).results = 1..n
<1> DEFINE said == [i \in DOMAIN gates |-> result[gates[i]]]
<1>1. CASE in.tells = "none"
  <2>1. Told(gates).results = <<>> /\ DOMAIN <<>> = 1..0
    BY <1>1 DEF Told
  <2> QED BY <2>1
<1>2. CASE in.tells # "none"
  <2>1. Told(gates).results = <<in.shield.told>> \o said
    BY <1>2 DEF Told
  <2>2. Len(said) = m /\ Len(<<in.shield.told>>) = 1
    OBVIOUS
  <2> HIDE DEF said
  <2>3. DOMAIN (<<in.shield.told>> \o said) = 1..(1 + m)
    BY <2>2
  <2> QED BY <2>1, <2>3
<1> QED BY <1>1, <1>2

\* A denial that the host passes on dominates: Adaptive Core and both readers of the
\* gateway's evidence deny whatever they are handed, blame what was found first, and
\* V2 accepts only after evidence.
THEOREM DenialsAreHeard == Spec => []EarlierDenialDominates
<1>1. IInv => EarlierDenialDominates
  <2> SUFFICES ASSUME IInv PROVE EarlierDenialDominates
    OBVIOUS
  <2> DEFINE told_core == Told(<<"wsqk_v2", "qid">>)
             repeats(results, e) ==
               /\ ~AcceptedAsEvidence(e)
               /\ e.dominant[1] = ReasonTold(results[Min(Denials(results))])
               /\ Len(e.dominant) = Cardinality(Denials(results))
  <2>1. ASSUME result["adaptive_core"] # NoResult, Denials(told_core.results) # {}
        PROVE  repeats(told_core.results, result["adaptive_core"])
    <3>1. PICK n \in Nat : DOMAIN told_core.results = 1..n
      <4>1. DOMAIN <<"wsqk_v2", "qid">> = 1..2 /\ 2 \in Nat
        OBVIOUS
      <4> QED BY <4>1, ToldIsAList
    <3>2. PICK time : result["adaptive_core"] = CoreAnswer(time)
      BY <2>1 DEF IInv, CoreSaid
    <3> QED BY <2>1, <3>1, <3>2, DenialRepeated DEF CoreAnswer, AdaptiveCoreEvidence
  <2>2. PICK n \in Nat : DOMAIN ToldGateway.results = 1..n
    <3>1. DOMAIN <<"wsqk_v2", "qid", "adaptive_core">> = 1..3 /\ 3 \in Nat
      OBVIOUS
    <3> QED BY <3>1, ToldIsAList DEF ToldGateway
  <2>3. ASSUME result["ai_gateway"] # NoResult
        PROVE  result["ai_gateway"] = IF in.consumer = "v1" THEN LooseAnswer ELSE StrictAnswer
    BY <2>3 DEF IInv, GatewaySaid
  <2>4. ASSUME result["ai_gateway"] # NoResult, Denials(ToldGateway.results) # {},
               result["ai_gateway"].dominant # <<"ERR_INTERNAL">>
        PROVE  repeats(ToldGateway.results, result["ai_gateway"])
    <3>1. result["ai_gateway"] = LooseAnswer \/ result["ai_gateway"] = StrictAnswer
      BY <2>3, <2>4
    <3>2. CASE result["ai_gateway"] = LooseAnswer
      <4>1. repeats(ToldGateway.results, LooseAnswer)
        BY <2>2, <2>4, DenialRepeated DEF LooseAnswer, GatewayEvidence
      <4> QED BY <3>2, <4>1
    <3>3. CASE result["ai_gateway"] = StrictAnswer
      <4>1. repeats(ToldGateway.results, StrictAnswer)
        BY <2>2, <2>4, <3>3, StrictRepeats DEF StrictAnswer
      <4> QED BY <3>3, <4>1
    <3> QED BY <3>1, <3>2, <3>3
  <2>5. ASSUME in.consumer = "v2", Passed("ai_gateway")
        PROVE  \A i \in DOMAIN ToldGateway.results :
                 ToldGateway.results[i].outcome = "ALLOW_EVIDENCE"
    <3>1. AcceptedAsEvidence(StrictAnswer)
      BY <2>3, <2>5 DEF Passed
    <3> QED BY <2>2, <3>1, StrictWasToldOfEvidence DEF StrictAnswer
  <2> HIDE DEF told_core
  <2>6. result["adaptive_core"] # NoResult /\ Denials(told_core.results) # {}
          => repeats(told_core.results, result["adaptive_core"])
    BY <2>1
  <2>7. result["ai_gateway"] # NoResult /\ Denials(ToldGateway.results) # {}
          /\ result["ai_gateway"].dominant # <<"ERR_INTERNAL">>
          => repeats(ToldGateway.results, result["ai_gateway"])
    BY <2>4
  <2>8. in.consumer = "v2" /\ Passed("ai_gateway")
          => \A i \in DOMAIN ToldGateway.results :
               ToldGateway.results[i].outcome = "ALLOW_EVIDENCE"
    BY <2>5
  <2> QED BY <2>6, <2>7, <2>8
          DEF EarlierDenialDominates, Denials, ReasonTold, Passed, told_core
<1> QED BY <1>1, AnswersAreTrue, PTL

(***************************************************************************)
(* What is issued, and where it serves.                                    *)
(***************************************************************************)

\* What a list of families is rejected for: that it is empty, or names another.
LEMMA FamiliesAccepted ==
  ASSUME NEW families, NEW n \in Nat, Len(families) = n, DOMAIN families = 1..n
  PROVE  FamiliesRejection(families) = OK
           <=> families # <<>> /\ \A f \in Range(families) : Strip(f) \in AllowedFamilies
<1> DEFINE s == [i \in 1..n |->
                   IF Strip(families[i]) = Blank THEN "WSQK_V2_INVALID_EVIDENCE_FAMILIES"
                   ELSE Reject("WSQK_V2_UNKNOWN_EVIDENCE_FAMILY",
                               Strip(families[i]) \notin AllowedFamilies)]
<1>1. FamiliesRejection(families) = OK <=> families # <<>> /\ FirstRejection(s) = OK
  BY DEF FamiliesRejection, OK
<1>2. Len(s) = n
  OBVIOUS
<1>3. FirstRejection(s) = OK <=> \A i \in 1..n : s[i] = OK
  <2> HIDE DEF s
  <2> QED BY <1>2, FirstRejectionOutcome
<1>4. \A i \in 1..n : s[i] = OK <=> Strip(families[i]) \in AllowedFamilies
  BY DEF Reject, OK, Blank, AllowedFamilies
<1> HIDE DEF s
<1> QED BY <1>1, <1>3, <1>4 DEF Range

\* What is asked of a request to issue.
LEMMA IssueAccepted ==
  ASSUME NEW i, IssueRejection(i) = OK
  PROVE  /\ i.unreadable # "now" /\ i.unreadable # "ttl" /\ ~(i.ttl <= 0)
         /\ Strip(i.nonce) # Blank
         /\ FamiliesRejection(i.families) = OK
<1> DEFINE s == <<
    Reject("WSQK_MISSING_WALLET_ID", Strip(i.wallet) = Blank),
    Reject("WSQK_MISSING_ACTION", Strip(i.action) = Blank),
    Reject("WSQK_MISSING_CONTEXT_HASH", i.context = NoContext),
    Reject("WSQK_MISSING_NOW", i.unreadable = "now"),
    Reject("WSQK_INVALID_TTL", i.unreadable = "ttl" \/ i.ttl <= 0),
    Reject("WSQK_INVALID_NONCE", Strip(i.nonce) = Blank),
    Reject("WSQK_V2_INVALID_QUANTUM_POSTURE", Strip(i.posture) \notin AllowedPostures),
    FamiliesRejection(i.families) >>
<1>1. Len(s) = 8 /\ FirstRejection(s) = OK
  BY DEF IssueRejection
<1>2. s[4] = OK /\ s[5] = OK /\ s[6] = OK /\ s[8] = OK
  <2> HIDE DEF s
  <2>1. \A k \in 1..8 : s[k] = OK
    BY <1>1, FirstRejectionOutcome
  <2> QED BY <2>1
<1>3. /\ Reject("WSQK_MISSING_NOW", i.unreadable = "now") = OK
      /\ Reject("WSQK_INVALID_TTL", i.unreadable = "ttl" \/ i.ttl <= 0) = OK
      /\ Reject("WSQK_INVALID_NONCE", Strip(i.nonce) = Blank) = OK
      /\ FamiliesRejection(i.families) = OK
  BY <1>2
<1> HIDE DEF s
<1> QED BY <1>3 DEF Reject, OK

\* What is issued for a request that is not refused.
LEMMA IssuedAs ==
  ASSUME NEW i, i.families \in Seq(STRING), IssueRejection(i) = OK,
         \A f \in Range(i.families) : Strip(Strip(f)) = Strip(f)
  PROVE  LET a == IssuedAuthority(i)
         IN  /\ a.kind = "v2" /\ a.wallet = Strip(i.wallet) /\ a.action = Strip(i.action)
             /\ a.context = i.context /\ a.nonce = Strip(i.nonce)
             /\ a.issued_at = i.now /\ a.expires_at = i.now + i.ttl
             /\ a.binding = WsqkBinding(a)
             /\ FamiliesRejection(a.families) = OK
<1> DEFINE S == CanonicalFamilies(i.families)
           I == {k \in 1..3 : FamilyOrder[k] \in S}
           a == IssuedAuthority(i)
           names == Picked(FamilyOrder, I)
<1>1. S # {} /\ S \subseteq AllowedFamilies
  <2> DEFINE n == Len(i.families)
  <2>1. n \in Nat /\ DOMAIN i.families = 1..n
    OBVIOUS
  <2>2. i.families # <<>> /\ \A f \in Range(i.families) : Strip(f) \in AllowedFamilies
    <3> HIDE DEF n
    <3>1. Len(i.families) = n
      BY DEF n
    <3> QED BY <2>1, <3>1, IssueAccepted, FamiliesAccepted
  <2>3. Range(i.families) # {}
    <3>1. 1 \in DOMAIN i.families
      BY <2>1, <2>2
    <3> QED BY <3>1 DEF Range
  <2> QED BY <2>2, <2>3 DEF CanonicalFamilies
<1>2. IsFiniteSet(I) /\ I \in SUBSET Nat
  <2>1. I \subseteq 1..3 /\ 1..3 \subseteq Nat
    OBVIOUS
  <2>2. IsFiniteSet(1..3)
    <3>1. 1 \in Int /\ 3 \in Int
      OBVIOUS
    <3> QED BY <3>1, FS_Interval, Zenon
  <2> QED BY <2>1, <2>2, FS_Subset
<1>3. {FamilyOrder[k] : k \in I} = S
  <2>1. \A f \in AllowedFamilies : \E k \in 1..3 : f = FamilyOrder[k]
    <3>1. /\ FamilyOrder[1] = "classical_signature" /\ FamilyOrder[2] = "pqc_signature"
          /\ FamilyOrder[3] = "qid_hybrid"
      BY DEF FamilyOrder
    <3>2. 1 \in 1..3 /\ 2 \in 1..3 /\ 3 \in 1..3
      OBVIOUS
    <3> QED BY <3>1, <3>2, Zenon DEF AllowedFamilies
  <2> HIDE DEF S
  <2> QED BY <1>1, <2>1
<1>4. Range(names) = S
  <2> HIDE DEF I, S
  <2> QED BY <1>2, <1>3, PickedMembers
<1>5. \A f \in S : Strip(f) = f
  BY DEF CanonicalFamilies
<1>6. FamiliesRejection(names) = OK
  <2>1. Len(names) = Cardinality(I) /\ DOMAIN names = 1..Cardinality(I)
        /\ Cardinality(I) \in Nat
    BY <1>2, PickedLength
  <2>2. names # <<>>
    <3>1. Range(<<>>) = {}
      BY DEF Range
    <3> QED BY <1>1, <1>4, <3>1
  <2>3. \A f \in Range(names) : Strip(f) \in AllowedFamilies
    BY <1>1, <1>4, <1>5
  <2> HIDE DEF names, I
  <2> QED BY <2>1, <2>2, <2>3, FamiliesAccepted
<1>7. a.families = names
  BY DEF IssuedAuthority
<1>8. /\ a.kind = "v2" /\ a.wallet = Strip(i.wallet) /\ a.action = Strip(i.action)
      /\ a.context = i.context /\ a.nonce = Strip(i.nonce)
      /\ a.issued_at = i.now /\ a.expires_at = i.now + i.ttl
      /\ a.binding = WsqkBinding(a)
  BY DEF IssuedAuthority, WsqkBinding
<1> HIDE DEF a, names
<1> QED BY <1>6, <1>7, <1>8 DEF a

\* When the normaliser accepts an authority that is well made.
LEMMA NormalizedIf ==
  ASSUME NEW a, NEW r, NEW expected, a.kind = "v2", FamiliesRejection(a.families) = OK,
         a.binding = WsqkBinding(a)
  PROVE  AuthorityRejection(a, r, expected) = OK
           <=> a.wallet = r.wallet /\ a.action = r.action /\ a.context = expected
<1> DEFINE s == <<
    Reject("DENY_WSQK", a.kind # "v2"),
    Reject("TVA_AUTHORITY_WALLET_MISMATCH", a.wallet # r.wallet),
    Reject("TVA_AUTHORITY_ACTION_MISMATCH", a.action # r.action),
    Reject("TVA_AUTHORITY_CONTEXT_HASH_MISMATCH", a.context # expected),
    FamiliesRejection(a.families),
    Reject("TVA_WSQK_V2_PROOF_BINDINGS_HASH_MISMATCH", a.binding # WsqkBinding(a)) >>
<1>1. AuthorityRejection(a, r, expected) = FirstRejection(s)
  BY DEF AuthorityRejection
<1>2. Len(s) = 6
  OBVIOUS
<1>3. /\ s[1] = OK /\ s[5] = OK /\ s[6] = OK
      /\ s[2] = OK <=> a.wallet = r.wallet
      /\ s[3] = OK <=> a.action = r.action
      /\ s[4] = OK <=> a.context = expected
  BY DEF Reject, OK
<1> HIDE DEF s
<1>4. FirstRejection(s) = OK <=> \A k \in 1..6 : s[k] = OK
  BY <1>2, FirstRejectionOutcome
<1>5. \A k \in 1..6 : k \in {1, 2, 3, 4, 5, 6}
  OBVIOUS
<1> QED BY <1>1, <1>3, <1>4, <1>5

\* When the scope accepts an authority that is well made.
LEMMA PostureIf ==
  ASSUME NEW a, NEW scope, a.kind = "v2", FamiliesRejection(a.families) = OK,
         a.binding = WsqkBinding(a)
  PROVE  PostureRejection(a, scope) = OK
           <=> (scope.kind = "v2" =>
                  /\ FamiliesRejection(scope.families) = OK
                  /\ CanonicalFamilies(scope.families) = CanonicalFamilies(a.families)
                  /\ Strip(scope.posture) = a.posture)
<1> DEFINE s == <<
         Reject("TVA_WSQK_V2_REQUIRED", a.kind # "v2"),
         FamiliesRejection(a.families),
         FamiliesRejection(scope.families),
         Reject("TVA_WSQK_V2_EVIDENCE_FAMILY_MISMATCH",
                CanonicalFamilies(a.families) # CanonicalFamilies(scope.families)),
         Reject("TVA_WSQK_V2_QUANTUM_POSTURE_MISMATCH",
                a.posture # Strip(scope.posture)),
         Reject("TVA_WSQK_V2_PROOF_BINDINGS_HASH_MISMATCH",
                a.binding # WsqkBinding(a)) >>
<1>1. PostureRejection(a, scope) = IF scope.kind # "v2" THEN OK ELSE FirstRejection(s)
  BY DEF PostureRejection
<1>2. Len(s) = 6
  OBVIOUS
<1>3. /\ s[1] = OK /\ s[2] = OK /\ s[6] = OK
      /\ s[3] = OK <=> FamiliesRejection(scope.families) = OK
      /\ s[4] = OK <=> CanonicalFamilies(scope.families) = CanonicalFamilies(a.families)
      /\ s[5] = OK <=> Strip(scope.posture) = a.posture
  BY DEF Reject, OK
<1> HIDE DEF s
<1>4. FirstRejection(s) = OK <=> \A k \in 1..6 : s[k] = OK
  BY <1>2, FirstRejectionOutcome
<1>5. \A k \in 1..6 : k \in {1, 2, 3, 4, 5, 6}
  OBVIOUS
<1> QED BY <1>1, <1>3, <1>4, <1>5

\* When the gate serves an authority that is about the call and has a nonce: within its
\* closed window, if its posture is the one the scope asks for.
LEMMA ServedIf ==
  ASSUME NEW r, NEW time \in Int,
         r.wsqk.wallet = r.wallet, r.wsqk.action = r.action,
         r.wsqk.context = RequestContext(r), Strip(r.wsqk.nonce) # Blank,
         r.wsqk.issued_at \in Int, r.wsqk.expires_at \in Int,
         r.wsqk.issued_at <= r.wsqk.expires_at
  PROVE  TvaRejection(r, time) = OK
           <=> /\ PostureRejection(r.wsqk, r.scope) = OK
               /\ time \in r.wsqk.issued_at..r.wsqk.expires_at
<1> DEFINE a == r.wsqk
           s == <<
        Reject("TVA_AUTHORITY_WALLET_MISMATCH", a.wallet # r.wallet),
        Reject("TVA_AUTHORITY_ACTION_MISMATCH", a.action # r.action),
        Reject("TVA_AUTHORITY_CONTEXT_HASH_MISMATCH", a.context # RequestContext(r)),
        Reject("TVA_INVALID_TIME_WINDOW", a.expires_at < a.issued_at),
        Reject("TVA_AUTHORITY_NOT_YET_VALID", time < a.issued_at),
        Reject("TVA_AUTHORITY_EXPIRED", time > a.expires_at),
        PostureRejection(a, r.scope),
        Reject("TVA_INVALID_NONCE", Strip(a.nonce) = Blank) >>
<1>1. TvaRejection(r, time) = FirstRejection(s)
  BY DEF TvaRejection
<1>2. Len(s) = 8
  OBVIOUS
<1>3. /\ ~(a.expires_at < a.issued_at)
      /\ ~(time < a.issued_at) <=> a.issued_at <= time
      /\ ~(time > a.expires_at) <=> time <= a.expires_at
  OBVIOUS
<1>4. /\ s[1] = OK /\ s[2] = OK /\ s[3] = OK /\ s[4] = OK /\ s[8] = OK
      /\ s[5] = OK <=> ~(time < a.issued_at)
      /\ s[6] = OK <=> ~(time > a.expires_at)
      /\ s[7] = OK <=> PostureRejection(a, r.scope) = OK
  BY <1>3 DEF Reject, OK
<1>5. time \in a.issued_at..a.expires_at <=> a.issued_at <= time /\ time <= a.expires_at
  OBVIOUS
<1> HIDE DEF s, a
<1>6. FirstRejection(s) = OK <=> \A k \in 1..8 : s[k] = OK
  BY <1>2, FirstRejectionOutcome
<1>7. \A k \in 1..8 : k \in {1, 2, 3, 4, 5, 6, 7, 8}
  OBVIOUS
<1>8. TvaRejection(r, time) = OK
        <=> PostureRejection(a, r.scope) = OK /\ time \in a.issued_at..a.expires_at
  BY <1>1, <1>3, <1>4, <1>5, <1>6, <1>7
<1> QED BY <1>8 DEF a

\* The host's clock counts.
LEMMA ClockCounts == Spec => [](now \in Nat)
<1>1. Init => now \in Nat
  BY DEF Init
<1>2. now \in Nat /\ [Next]_vars => (now \in Nat)'
  BY DEF Next, Tick, NormalizeWsqk, BindQid, NormalizeAdaptiveCore, ConsumeGateway, Decide,
         Enforce, Answer, vars
<1> QED BY <1>1, <1>2, PTL DEF Spec

\* What is issued for a call is accepted as evidence of it, and served in the closed
\* window it was issued for, to a scope that asks for just that, and never else.
THEOREM IssuedIsServed == Spec => []IssuedAuthorityServes
<1>1. IInv /\ Concluded /\ now \in Nat => IssuedAuthorityServes
  <2> DEFINE i == in.wsqk.request
             a == IssuedAuthority(i)
             r == in.request
             call == [r EXCEPT !.wsqk = a]
             for_this_call == /\ Strip(i.wallet) = r.wallet
                              /\ Strip(i.action) = r.action
                              /\ i.context = RequestContext(r)
  <2> SUFFICES ASSUME IInv, Concluded, now \in Nat,
                      in.wsqk.kind = "request", IssueRejection(i) = OK,
                      Expected = RequestContext(r)
               PROVE  /\ result["wsqk_v2"] # NoResult => (Passed("wsqk_v2") <=> for_this_call)
                      /\ pc = "done" /\ for_this_call =>
                           /\ Window(result["wsqk_v2"].authority[1]) = i.now..(i.now + i.ttl)
                           /\ enforcement = OK
                                <=> /\ ScopeIsOf(result["wsqk_v2"].authority[1])
                                    /\ now \in Window(result["wsqk_v2"].authority[1])
    BY Zenon DEF IssuedAuthorityServes
  <2>1. session \in Sessions /\ in = Case(session)
    BY DEF IInv, Order, in
  <2>2. /\ i.families \in Seq(STRING)
        /\ i.unreadable # "now" => i.now \in Int
        /\ i.unreadable # "ttl" => i.ttl \in Int
        /\ \A text \in {i.nonce} \cup Range(i.families) : Strip(Strip(text)) = Strip(text)
    BY <2>1, IssueAssumption
  <2>3. i.now \in Int /\ i.ttl \in Int /\ i.ttl > 0 /\ Strip(i.nonce) # Blank
    BY <2>2, IssueAccepted
  <2>4. /\ a.kind = "v2" /\ a.wallet = Strip(i.wallet) /\ a.action = Strip(i.action)
        /\ a.context = i.context /\ a.nonce = Strip(i.nonce)
        /\ a.issued_at = i.now /\ a.expires_at = i.now + i.ttl
        /\ a.binding = WsqkBinding(a) /\ FamiliesRejection(a.families) = OK
    BY <2>2, IssuedAs
  <2> HIDE DEF a
  <2>5. WsqkAnswer = JudgedAuthority(a, r, Expected)
    BY DEF WsqkAnswer, WsqkEvidence, a
  <2>6. WsqkAnswer.authority = <<a>> /\ (AcceptedAsEvidence(WsqkAnswer) <=> for_this_call)
    <3>1. AuthorityRejection(a, r, Expected) = OK <=> for_this_call
      BY <2>4, NormalizedIf
    <3>2. WsqkAnswer.authority = <<a>>
          /\ WsqkAnswer.outcome = Judged(AuthorityRejection(a, r, Expected), a.context).outcome
      BY <2>5 DEF JudgedAuthority, Judged, Accepted, Denied
    <3> QED BY <3>1, <3>2, JudgedOutcome DEF AcceptedAsEvidence
  <2>7. result["wsqk_v2"] # NoResult => (Passed("wsqk_v2") <=> for_this_call)
    BY <2>6 DEF IInv, WsqkSaid, Passed
  <2>8. ASSUME pc = "done", for_this_call
        PROVE  /\ Window(result["wsqk_v2"].authority[1]) = i.now..(i.now + i.ttl)
               /\ enforcement = OK
                    <=> /\ ScopeIsOf(result["wsqk_v2"].authority[1])
                        /\ now \in Window(result["wsqk_v2"].authority[1])
    <3>1. result["wsqk_v2"] = WsqkAnswer /\ enforcement = TvaAnswer(now)
      BY <2>8 DEF Concluded
    <3>2. result["wsqk_v2"].authority = <<a>> /\ result["wsqk_v2"].authority[1] = a
      BY <2>6, <3>1
    <3>3. enforcement = TvaRejection(call, now)
      BY <3>1, <3>2 DEF TvaAnswer
    <3>4. /\ call.wsqk = a /\ call.wallet = r.wallet /\ call.action = r.action
          /\ call.fields_confirmed = r.fields_confirmed /\ call.scope = r.scope
      BY <2>1, CaseAssumption
    <3>5. RequestContext(call) = RequestContext(r)
      BY <3>4 DEF RequestContext
    <3> HIDE DEF call
    <3>6. /\ call.wsqk.wallet = call.wallet /\ call.wsqk.action = call.action
          /\ call.wsqk.context = RequestContext(call) /\ Strip(call.wsqk.nonce) # Blank
      BY <2>2, <2>3, <2>4, <2>8, <3>4, <3>5
    <3>7. /\ call.wsqk.issued_at \in Int /\ call.wsqk.expires_at \in Int
          /\ call.wsqk.issued_at <= call.wsqk.expires_at /\ now \in Int
      BY <2>3, <2>4, <3>4
    <3>8. TvaRejection(call, now) = OK
            <=> PostureRejection(a, r.scope) = OK /\ now \in a.issued_at..a.expires_at
      BY <3>4, <3>6, <3>7, ServedIf
    <3>9. PostureRejection(a, r.scope) = OK <=> ScopeIsOf(a)
      BY <2>4, PostureIf DEF ScopeIsOf
    <3>10. Window(a) = a.issued_at..a.expires_at
      BY DEF Window
    <3> QED BY <2>4, <3>2, <3>3, <3>8, <3>9, <3>10
  <2> QED BY <2>7, <2>8
<1> QED BY <1>1, AnswersAreTrue, ConclusionsStand, ClockCounts, PTL

=============================================================================
