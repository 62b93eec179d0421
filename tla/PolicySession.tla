---------------------------- MODULE PolicySession ----------------------------
(***************************************************************************)
(* A host that decides one request with the normalisers of PolicyEvidence: *)
(* it asks each of them in the order of the final policy engine, tells the *)
(* later ones what the earlier ones said, hands all results to the engine, *)
(* and puts the authority it was shown in front of the TVA gate.  Time may *)
(* pass between any two of these steps.                                    *)
(*                                                                         *)
(* No module of the repository calls the normalisers in sequence; the      *)
(* sequence is the host's, from the order in docs and in the engine, and   *)
(* what a host may choose is chosen in Init.                               *)
(***************************************************************************)
EXTENDS PolicyEvidence

CONSTANTS
  Sessions,      \* names of the sessions to begin with
  Case(_),       \* what each of them is about
  NoResult,
  MaxClock       \* bound on time

\* What has not been said is no answer.
ASSUME NoResultAssumption == NoResult # OK

\* A request has the parts the gate looks for.
ASSUME CaseAssumption ==
  \A name \in Sessions :
    {"wallet", "action", "fields_confirmed", "scope", "wsqk"} \subseteq DOMAIN Case(name).request

\* A request to issue an authority names its families in a list, reads as numbers
\* where it is readable, and a name of it that was stripped is not stripped further.
ASSUME IssueAssumption ==
  \A name \in Sessions :
    LET i == Case(name).wsqk.request
    IN  Case(name).wsqk.kind = "request" =>
          /\ i.families \in Seq(STRING)
          /\ i.unreadable # "now" => i.now \in Int
          /\ i.unreadable # "ttl" => i.ttl \in Int
          /\ \A text \in {i.nonce} \cup Range(i.families) : Strip(Strip(text)) = Strip(text)

VARIABLES
  session,       \* name of the session
  now,           \* the host's clock
  pc,            \* the step the host takes next
  result,        \* gate -> what its normaliser said, NoResult before
  decision,      \* what the engine said
  enforcement    \* what the TVA gate said of the authority

vars == <<session, now, pc, result, decision, enforcement>>

Normalisers == {"wsqk_v2", "qid", "adaptive_core", "ai_gateway"}

\* wsqk, qid, report and gateway are inputs of the normalisers, request is the
\* request as in TvaGate, shield the Shield result, tells how the host tells of
\* earlier results, consumer the version of the gateway's evidence.
in == Case(session)

Expected == in.expected

Init ==
  /\ session \in Sessions
  /\ now = 1
  /\ pc = "wsqk_v2"
  /\ result = [gate \in Normalisers |-> NoResult]
  /\ decision = NoResult
  /\ enforcement = NoResult

Tick ==
  /\ pc # "done"
  /\ now < MaxClock
  /\ now' = now + 1
  /\ UNCHANGED <<session, pc, result, decision, enforcement>>

\* Asks one normaliser.
Answer(gate, evidence, next) ==
  /\ pc = gate
  /\ result' = [result EXCEPT ![gate] = evidence]
  /\ pc' = next
  /\ UNCHANGED <<session, now, decision, enforcement>>

NormalizeWsqk == Answer("wsqk_v2", WsqkEvidence(in.wsqk, in.request, Expected), "qid")

\* The posture of the WSQK result is the one Q-ID has to back.
PostureShown ==
  IF result["wsqk_v2"].authority = <<>> THEN "none"
  ELSE result["wsqk_v2"].authority[1].posture

QidExpected ==
  [posture |-> PostureShown, subject |-> in.subject, context |-> Expected,
   wallet |-> in.request.wallet, nonce |-> in.request.nonce, device |-> in.device]

BindQid == Answer("qid", QidEvidence(in.qid, now, QidExpected), "adaptive_core")

\* What the host tells of the gates before: nothing, or all of it in order.
Told(gates) ==
  [kind |-> in.tells,
   results |-> IF in.tells = "none" THEN <<>>
               ELSE <<in.shield.told>> \o [i \in DOMAIN gates |-> result[gates[i]]]]

NormalizeAdaptiveCore ==
  Answer("adaptive_core",
         AdaptiveCoreEvidence(in.report, now, Expected, in.policy,
                              Told(<<"wsqk_v2", "qid">>)),
         "ai_gateway")

ToldGateway == Told(<<"wsqk_v2", "qid", "adaptive_core">>)

ConsumeGateway ==
  Answer("ai_gateway",
         IF in.consumer = "v1" THEN GatewayEvidence(in.gateway, Expected, ToldGateway)
         ELSE BoundGatewayEvidence(in.gateway, Expected, in.gateway_policy, ToldGateway),
         "decide")

\* evaluate_final_policy_engine over the results as they are.  The local gates have
\* nothing against the request.
EngineInput ==
  [evidence |-> [gate \in Range(EvidenceGates) |->
                   IF gate = "shield" THEN in.shield.evidence
                   ELSE AsEngineInput(result[gate], gate # "ai_gateway" \/ in.consumer = "v1")],
   local |-> [gate \in Range(LocalGates) |->
                [gate |-> gate, passed |-> TRUE, requires_human_review |-> FALSE,
                 reason |-> "EVIDENCE_OK"]],
   expected_context |-> Expected, well_formed_context |-> Expected # BadContext,
   shield_v4_required |-> FALSE, well_formed_mode |-> TRUE]

Decide ==
  /\ pc = "decide"
  /\ decision' = Evaluate(EngineInput)
  /\ pc' = "enforce"
  /\ UNCHANGED <<session, now, result, enforcement>>

\* enforce_tva on the authority the WSQK result shows, whatever the engine said: the
\* nonce store behind it is that of OrchestratorV2.
Enforce ==
  /\ pc = "enforce"
  /\ enforcement' =
       IF result["wsqk_v2"].authority = <<>> THEN "TVA_MISSING_AUTHORITY"
       ELSE TvaRejection([in.request EXCEPT !.wsqk = result["wsqk_v2"].authority[1]], now)
  /\ pc' = "done"
  /\ UNCHANGED <<session, now, result, decision>>

Next ==
  \/ Tick
  \/ NormalizeWsqk \/ BindQid \/ NormalizeAdaptiveCore \/ ConsumeGateway
  \/ Decide \/ Enforce

Spec == Init /\ [][Next]_vars

=============================================================================
