--------------------------- MODULE OrchestratorV2 ---------------------------
(***************************************************************************)
(* execution/orchestrator_v2.py, orchestrate_execution_v2, as run by a     *)
(* runtime host (v2/runtime_host/host.py): several calls in flight in one  *)
(* process, sharing the injected nonce store, the policy and the           *)
(* verifiers.  Every call is one execution of the function; between its    *)
(* stages it calls out to verifiers, store and executor, so the stages of  *)
(* different calls interleave, callbacks may raise, and the process may    *)
(* crash.                                                                  *)
(***************************************************************************)
EXTENDS Eqc, TvaGate, FinalPolicyEngine, FiniteSets

CONSTANTS
  Calls,             \* the calls made in one behaviour
  Requests,          \* the request envelopes explored
  Deployments,       \* the host configurations: policy and verifiers
  DurableStore,      \* TRUE: DurableNonceStore, FALSE: InMemoryNonceStore
  StoreMayFail,      \* TRUE: check_and_mark may raise
  ExecutorErrors,    \* the exceptions executor.execute may raise
  MaxClock,          \* bound: the clock stops here
  MaxCrashes,        \* bound: crashes per behaviour
  NoRequest,         \* the request of a call that has not been made
  NoResponse,        \* the response of a call that has not returned
  ZeroContext,       \* context_hash "000...0" of the exception handlers
  Nowhere            \* no gate: the final policy engine was not consulted

ASSUME BoundsAssumption == MaxClock \in Nat \ {0} /\ MaxCrashes \in Nat
ASSUME StoreAssumption == DurableStore \in BOOLEAN /\ StoreMayFail \in BOOLEAN
ASSUME NoRequestAssumption == NoRequest \notin Requests

\* Every parser refuses times and scores that are no integers, families that are no
\* list of texts and verdicts that are no list, before it compares them.
ASSUME RequestAssumption ==
  \A r \in Requests :
    /\ {r.issued_at, r.expires_at, r.qid.issued_at, r.qid.expires_at,
        r.oracle.issued_at, r.oracle.expires_at, r.oracle.generated_at,
        r.oracle.score} \subseteq Int
    /\ r.shield.kind = "bundle" => {r.shield.issued_at, r.shield.expires_at} \subseteq Int
    /\ {r.wsqk.families, r.scope.families} \subseteq Seq(STRING)
    /\ Len(r.shield.component_verdicts) \in Nat
    /\ DOMAIN r.shield.component_verdicts = 1..Len(r.shield.component_verdicts)
    /\ {r.fields_confirmed, r.ui_confirmed} \subseteq BOOLEAN
ASSUME DeploymentAssumption == \A d \in Deployments : d.min_score \in Int

VARIABLES
  deployment,        \* the host's policy and verifiers
  clock,             \* the time callers inject
  used,              \* the keys marked in the nonce store
  crashes,           \* how often the process has crashed
  pc,                \* per call: the stage it is about to run
  req,               \* per call: its request
  now,               \* per call: the injected time, fixed for the whole call
  authentic,         \* per call: the evidence an external verifier accepted
  replay_reason,     \* per call: outcome of the replay gate (TVA)
  consumed,          \* per call: the local nonce_was_consumed
  effect,            \* per call: executor.execute has been entered
  resp               \* per call: the response returned

hostVars == <<deployment, clock, crashes>>
callVars == <<req, now, authentic, replay_reason, consumed, effect>>
vars == <<hostVars, used, pc, callVars, resp>>

EvidenceKinds == {"qid", "oracle", "shield"}

\* Stages in which a call is in flight.
Stages == {"parse", "posture", "qid", "replay_proof", "oracle", "shield", "eqc",
           "authority", "tva", "mark", "final", "execute", "reply"}

Init ==
  /\ deployment \in Deployments
  /\ clock = 1
  /\ used = {}
  /\ crashes = 0
  /\ pc = [c \in Calls |-> "new"]
  /\ req = [c \in Calls |-> NoRequest]
  /\ now = [c \in Calls |-> 0]
  /\ authentic = [c \in Calls |-> {}]
  /\ replay_reason = [c \in Calls |-> OK]
  /\ consumed = [c \in Calls |-> FALSE]
  /\ effect = [c \in Calls |-> FALSE]
  /\ resp = [c \in Calls |-> NoResponse]

-----------------------------------------------------------------------------
(* Responses.  valid holds the evidence blocks marked valid, allowed the    *)
(* tva/eqc/wsqk flags that are TRUE.                                        *)

\* _compute_protection_mode
ProtectionMode(protected, valid) ==
  IF ~protected \/ "qid" \notin valid THEN "legacy"
  ELSE IF valid = EvidenceKinds THEN "full" ELSE "minimal"

Response(status, reason, context) ==
  [status |-> status, reason |-> reason, context |-> context, mode |-> "legacy",
   valid |-> {}, allowed |-> {}, consumed |-> FALSE, stopped_at |-> Nowhere,
   coerced |-> FALSE]

\* The outer exception handlers: nothing but the reason survives.
\* Mutant (OnAdapterError): the error path reports the evidence as valid.
OnAdapterErrorOptimistic(reason) ==
  [Response("deny", reason, ZeroContext) EXCEPT !.valid = EvidenceKinds]

OnAdapterError(reason)  == Response("deny", reason, ZeroContext)
OnTVAError(reason)      == [Response("deny", reason, ZeroContext)
                              EXCEPT !.allowed = {"eqc", "wsqk"}]
OnEnvelopeError(reason) == Response("error", reason, ZeroContext)
OnException             == Response("error", "DENY_SCHEMA_INVALID", ZeroContext)

\* Which handler an exception of the executor ends in: execute is called inside
\* the same try block as every check.
OnExecutorError(class) ==
  CASE class = "AdapterError"  -> OnAdapterError("EXECUTOR_REASON")
    [] class = "TVAError"      -> OnTVAError("DENY_SCHEMA_INVALID")
    [] class = "EnvelopeError" -> OnEnvelopeError("EXECUTOR_REASON")
    [] OTHER                   -> OnException

\* Step 4 latches and registry: denied under the request's own context.
PostureDenied(r) == Response("deny", "DENY_POLICY", RequestContext(r))

\* _final_policy_denied_response_v2, with the coercion of
\* _reject_branch_invariant_result.
EngineDenied(r, input, valid, allowed, nonce_consumed) ==
  LET result  == Evaluate(input)
      coerced == result.state = ALLOW
  IN  [status |-> "deny",
       reason |-> IF coerced THEN "DENY_POLICY" ELSE result.reason,
       context |-> RequestContext(r),
       mode |-> ProtectionMode(ProtectedRequested(r), valid),
       valid |-> valid, allowed |-> allowed, consumed |-> nonce_consumed,
       stopped_at |-> IF coerced THEN "reject_branch_final_policy_invariant"
                                 ELSE result.stopped_at,
       coerced |-> coerced]

AllowResponse(r) ==
  [status |-> "allow", reason |-> "OK_ALLOW", context |-> RequestContext(r),
   mode |-> ProtectionMode(ProtectedRequested(r), EvidenceKinds),
   valid |-> EvidenceKinds, allowed |-> {"tva", "eqc", "wsqk"}, consumed |-> TRUE,
   stopped_at |-> Nowhere, coerced |-> FALSE]

-----------------------------------------------------------------------------
(* What the orchestrator feeds the final policy engine: every gate accepted *)
(* except those a branch overrides.                                         *)

RuntimeAccepted(context) ==
  [present |-> TRUE, final_approval |-> FALSE, hidden_authority |-> FALSE,
   accepted_as_evidence |-> TRUE, handoff_allowed |-> TRUE, context |-> context,
   human_review |-> FALSE, reason |-> "EVIDENCE_OK", v4 |-> NotV4]

RuntimeRejected(context, reason) ==
  [RuntimeAccepted(context) EXCEPT !.accepted_as_evidence = FALSE,
                                   !.handoff_allowed = FALSE, !.reason = reason]

LocalGate(gate, reason) ==
  [gate |-> gate, passed |-> reason = OK, requires_human_review |-> FALSE,
   reason |-> reason]

AllAccepted(r) ==
  [evidence |-> [g \in Range(EvidenceGates) |-> RuntimeAccepted(RequestContext(r))],
   local |-> [g \in Range(LocalGates) |-> LocalGate(g, OK)],
   expected_context |-> RequestContext(r), well_formed_context |-> TRUE,
   shield_v4_required |-> FALSE, well_formed_mode |-> TRUE]

\* Mutant: every branch overrides the Q-ID gate.
EvidenceRejectedAsQid(r, gate, reason) ==
  [AllAccepted(r) EXCEPT !.evidence["qid"] = RuntimeRejected(RequestContext(r), reason)]

EvidenceRejected(r, gate, reason) ==
  [AllAccepted(r) EXCEPT !.evidence[gate] = RuntimeRejected(RequestContext(r), reason)]

LocalGateFailed(r, gate, reason) ==
  [AllAccepted(r) EXCEPT !.local[gate] = LocalGate(gate, reason)]

\* A Q-ID replay proof is rejected at two gates at once.
ReplayProofRejected(r, reason) ==
  [EvidenceRejected(r, "qid", reason) EXCEPT !.local.replay = LocalGate("replay", reason)]

\* Mutant: the final decision insists on Shield v4 evidence nobody has handed in.
FinalInputOfV4(r, replay) == [AllAccepted(r) EXCEPT !.shield_v4_required = TRUE]

\* The input of the final decision: the replay gate TVA left, the human gate.
FinalInput(r, replay) ==
  [AllAccepted(r) EXCEPT
     !.local.replay = LocalGate("replay", replay),
     !.local.human  = LocalGate("human", Reject("DENY_AUTHORITY_INSUFFICIENT",
                                                ~HumanConfirmed(r)))]

-----------------------------------------------------------------------------
(* Verifier callbacks.                                                      *)

\* What calling a verifier may come to.
Outcomes(injected) ==
  IF injected THEN {"accepts", "adapter_error", "raises"} ELSE {"missing"}

\* _call_external_evidence_verifier
VerifierRejection(outcome, missing_reason, invalid_reason) ==
  FirstRejection(<<
    Reject(missing_reason, outcome = "missing"),
    Reject("VERIFIER_REASON", outcome = "adapter_error"),
    Reject(invalid_reason, outcome = "raises") >>)

\* Mutant: a v2 login passes without a verifier.
QidRejectionUnverified(q, outcome, time) ==
  FirstRejection(<<
    VerifierRejection(outcome, OK, "EQC_INVALID_QID_PROOF"),
    SessionRejection(q, time) >>)

\* The verifier and the parser of a Q-ID stage: a missing verifier stops v2
\* logins only.
QidRejection(q, outcome, time) ==
  FirstRejection(<<
    Reject("QID_AUTHENTICITY_VERIFIER_MISSING",
           IsV2Login(q) /\ outcome = "missing"),
    VerifierRejection(outcome, OK, "EQC_INVALID_QID_PROOF"),
    SessionRejection(q, time) >>)

-----------------------------------------------------------------------------
(* The stages of one call.                                                  *)

Advance(c, stage) ==
  /\ pc' = [pc EXCEPT ![c] = stage]
  /\ UNCHANGED resp

\* Mutant: a response is handed back and the call goes on all the same.
ReturnAndStay(c, response) ==
  /\ resp' = [resp EXCEPT ![c] = response]
  /\ UNCHANGED pc

Return(c, response) ==
  /\ pc' = [pc EXCEPT ![c] = "done"]
  /\ resp' = [resp EXCEPT ![c] = response]

\* A stage that passes goes on to the next one, or returns its denial.
Decide(c, rejection, stage, response) ==
  IF rejection = OK THEN Advance(c, stage) ELSE Return(c, response)

Submit(c) ==
  /\ pc[c] = "new"
  /\ req' \in {[req EXCEPT ![c] = r] : r \in Requests}
  /\ now' = [now EXCEPT ![c] = clock]
  /\ Advance(c, "parse")
  /\ UNCHANGED <<hostVars, used, authentic, replay_reason, consumed, effect>>

ParseEnvelope(c) ==
  LET rejection == EnvelopeRejection(req[c], now[c])
  IN  /\ pc[c] = "parse"
      /\ Decide(c, rejection, "posture", OnEnvelopeError(rejection))
      /\ UNCHANGED <<hostVars, used, callVars>>

\* Policy latches and the mandatory reason registry.
LatchRejection(r) ==
  Reject("DENY_POLICY",
         \/ /\ deployment.require_protected_call \/ deployment.require_full_mode
            /\ ~ProtectedRequested(r)
         \/ deployment.allowed_reasons = {})

\* authority.scope, policy.validate(), latches and registry, in this order.
CheckPosture(c) ==
  /\ pc[c] = "posture"
  /\ IF ScopeRejection(req[c]) # OK
     THEN Return(c, OnTVAError(ScopeRejection(req[c])))
     ELSE IF ~deployment.valid
     THEN Return(c, OnException)
     ELSE Decide(c, LatchRejection(req[c]), "qid", PostureDenied(req[c]))
  /\ UNCHANGED <<hostVars, used, callVars>>

\* An external verifier's acceptance is remembered.
Authenticate(c, kind, outcome) ==
  authentic' = IF outcome = "accepts"
               THEN [authentic EXCEPT ![c] = @ \cup {kind}] ELSE authentic

VerifyQid(c) ==
  /\ pc[c] = "qid"
  /\ \E outcome \in Outcomes(deployment.qid_verifier) :
       LET rejection == QidRejection(req[c].qid, outcome, now[c])
       IN  /\ Decide(c, rejection, "replay_proof",
                     EngineDenied(req[c], EvidenceRejected(req[c], "qid", rejection),
                                  {}, {}, FALSE))
           /\ Authenticate(c, "qid", outcome)
  /\ UNCHANGED <<hostVars, used, req, now, replay_reason, consumed, effect>>

ReplayProofRequired(r) ==
  ProtectedRequested(r) /\ deployment.require_qid_replay_proof

VerifyReplayProof(c) ==
  LET r == req[c]
      rejection == IF ReplayProofRequired(r)
                   THEN ReplayProofRejection(r.qid, r.wallet, r.nonce) ELSE OK
  IN  /\ pc[c] = "replay_proof"
      /\ Decide(c, rejection, "oracle",
                EngineDenied(r, ReplayProofRejected(r, rejection), {}, {}, FALSE))
      /\ UNCHANGED <<hostVars, used, callVars>>

\* Oracle and Shield receipt verifiers are called only under the latch
\* require_authenticated_external_evidence.
LatchedOutcomes(injected) ==
  IF deployment.require_authenticated THEN Outcomes(injected) ELSE {"not_called"}

VerifyOracle(c) ==
  /\ pc[c] = "oracle"
  /\ \E outcome \in LatchedOutcomes(deployment.oracle_verifier) :
       LET r == req[c]
           rejection == FirstRejection(<<
             VerifierRejection(outcome, "ORACLE_AUTHENTICITY_VERIFIER_MISSING",
                               "EQC_INVALID_RISK_REPORT"),
             OracleRejection(r.oracle, now[c], RequestContext(r), deployment) >>)
       IN  /\ Decide(c, rejection, "shield",
                     EngineDenied(r, EvidenceRejected(r, "adaptive_core", rejection),
                                  {"qid"}, {}, FALSE))
           /\ Authenticate(c, "oracle", outcome)
  /\ UNCHANGED <<hostVars, used, req, now, replay_reason, consumed, effect>>

\* ORCHESTRATOR_RECEIPT_V3_2.  What the verifier callback or the
\* internalisation objects to is raised past the final policy engine.
VerifyShieldReceipt(c) ==
  /\ pc[c] = "shield"
  /\ deployment.receipt_boundary
  /\ \E outcome \in LatchedOutcomes(deployment.shield_verifier) :
       LET r == req[c]
           raised == VerifierRejection(outcome, "SHIELD_AUTHENTICITY_VERIFIER_MISSING",
                                       "EQC_INVALID_SHIELD_BUNDLE")
           state  == ReceiptState(r.shield, RequestContext(r), r.request_id,
                                  deployment.rejected_receipts)
           denied == EvidenceRejected(r, "shield", ReceiptReason(state))
       IN  /\ IF raised # OK THEN Return(c, OnAdapterError(raised))
              ELSE IF ~ReceiptAccepted(state)
              THEN Return(c, EngineDenied(r, denied, {"qid", "oracle"}, {}, FALSE))
              ELSE Decide(c, InternalizeRejection(r.shield), "eqc",
                          OnAdapterError(InternalizeRejection(r.shield)))
           /\ Authenticate(c, "shield", outcome)
  /\ UNCHANGED <<hostVars, used, req, now, replay_reason, consumed, effect>>

\* LEGACY_BUNDLE_V3_TEST_ONLY
ParseShieldBundle(c) ==
  LET r == req[c]
      rejection == BundleRejection(r.shield, RequestContext(r), deployment)
  IN  /\ pc[c] = "shield"
      /\ ~deployment.receipt_boundary
      /\ Decide(c, rejection, "eqc",
                EngineDenied(r, EvidenceRejected(r, "shield", rejection),
                             {"qid", "oracle"}, {}, FALSE))
      /\ UNCHANGED <<hostVars, used, callVars>>

EvaluateEqc(c) ==
  LET r == req[c]
      rejection == EqcRejection(r, now[c], deployment)
  IN  /\ pc[c] = "eqc"
      /\ Decide(c, rejection, "authority",
                EngineDenied(r, LocalGateFailed(r, "wallet_policy", rejection),
                             EvidenceKinds, {}, FALSE))
      /\ UNCHANGED <<hostVars, used, callVars>>

ExtractAuthority(c) ==
  LET r == req[c]
      rejection == Reject("DENY_AUTHORITY_INVALID", ~AuthorityBinds(r))
  IN  /\ pc[c] = "authority"
      /\ Decide(c, rejection, "tva",
                EngineDenied(r, EvidenceRejected(r, "wsqk_v2", rejection),
                             EvidenceKinds, {"eqc"}, FALSE))
      /\ UNCHANGED <<hostVars, used, callVars>>

-----------------------------------------------------------------------------
(* run_with_tva: the checks of enforce_tva, then the nonce store.           *)

Key(c) == NonceKey(req[c])

\* A TVAError, caught at its call: the replay gate will fail, nothing is marked.
DenyTva(c, reason) ==
  /\ replay_reason' = [replay_reason EXCEPT ![c] = reason]
  /\ Advance(c, "final")
  /\ UNCHANGED <<hostVars, used, req, now, authentic, consumed, effect>>

\* Mutant: the nonce is reported marked, and is not.
MarkAcceptedUnmarked(c) ==
  /\ consumed' = [consumed EXCEPT ![c] = TRUE]
  /\ Advance(c, "final")
  /\ UNCHANGED <<hostVars, used, req, now, authentic, replay_reason, effect>>

\* check_and_mark has marked the nonce and returned True.
MarkAccepted(c) ==
  /\ used' = used \cup {Key(c)}
  /\ consumed' = [consumed EXCEPT ![c] = TRUE]
  /\ Advance(c, "final")
  /\ UNCHANGED <<hostVars, req, now, authentic, replay_reason, effect>>

ReachesStore(c) ==
  /\ pc[c] = "tva"
  /\ TvaRejection(req[c], now[c]) = OK

FailTva(c) ==
  /\ pc[c] = "tva"
  /\ TvaRejection(req[c], now[c]) # OK
  /\ DenyTva(c, TvaRejection(req[c], now[c]))

\* Mutant: a replayed nonce is asked about again until the store accepts it.
RejectReplayRetried(c) ==
  /\ ReachesStore(c)
  /\ Key(c) \in used
  /\ Advance(c, "tva")
  /\ UNCHANGED <<hostVars, used, callVars>>

RejectReplay(c) ==
  /\ ReachesStore(c)
  /\ Key(c) \in used
  /\ DenyTva(c, "TVA_NONCE_REPLAY")

\* Mutant: the mark does not ask whether it is there already.
CheckAndMarkAgain(c) ==
  /\ DurableStore
  /\ ReachesStore(c)
  /\ MarkAccepted(c)

\* DurableNonceStore.check_and_mark is atomic.
CheckAndMark(c) ==
  /\ DurableStore
  /\ ReachesStore(c)
  /\ Key(c) \notin used
  /\ MarkAccepted(c)

\* InMemoryNonceStore looks the key up and stores it in two steps.
LookUpNonce(c) ==
  /\ ~DurableStore
  /\ ReachesStore(c)
  /\ Key(c) \notin used
  /\ Advance(c, "mark")
  /\ UNCHANGED <<hostVars, used, callVars>>

MarkNonce(c) ==
  /\ pc[c] = "mark"
  /\ MarkAccepted(c)

\* Mutant: a store that raised is asked again.
StoreRaisesRetried(c) ==
  /\ StoreMayFail
  /\ ReachesStore(c)
  /\ used' \in {used, used \cup {Key(c)}}
  /\ Advance(c, "tva")
  /\ UNCHANGED <<hostVars, callVars>>

\* check_and_mark raises, before or after its mark has become durable: an error of
\* the storage behind it, none of the exceptions of the checks.
StoreRaises(c) ==
  /\ StoreMayFail
  /\ ReachesStore(c)
  /\ used' \in {used, used \cup {Key(c)}}
  /\ Return(c, OnException)
  /\ UNCHANGED <<hostVars, callVars>>

-----------------------------------------------------------------------------
(* The final decision and what follows it.                                  *)

\* Mutant: a denial of the human gate does not say that the nonce is spent.
DecideFinalUnreported(c) ==
  LET r     == req[c]
      input == FinalInput(r, replay_reason[c])
      tva   == replay_reason[c] = OK
  IN  /\ pc[c] = "final"
      /\ IF Evaluate(input).state = ALLOW
         THEN Advance(c, "execute")
         ELSE Return(c, EngineDenied(r, input, IF tva THEN EvidenceKinds ELSE {},
                                     {"eqc", "wsqk"} \cup (IF tva THEN {"tva"} ELSE {}),
                                     FALSE))
      /\ UNCHANGED <<hostVars, used, callVars>>

DecideFinal(c) ==
  LET r     == req[c]
      input == FinalInput(r, replay_reason[c])
      tva   == replay_reason[c] = OK
  IN  /\ pc[c] = "final"
      /\ IF Evaluate(input).state = ALLOW
         THEN Advance(c, "execute")
         ELSE Return(c, EngineDenied(r, input, IF tva THEN EvidenceKinds ELSE {},
                                     {"eqc", "wsqk"} \cup (IF tva THEN {"tva"} ELSE {}),
                                     consumed[c]))
      /\ UNCHANGED <<hostVars, used, callVars>>

Execute(c) ==
  /\ pc[c] = "execute"
  /\ effect' = [effect EXCEPT ![c] = TRUE]
  /\ Advance(c, "reply")
  /\ UNCHANGED <<hostVars, used, req, now, authentic, replay_reason, consumed>>

\* Mutant: the answers of the outer handlers carry the context of the request.
ExecutorRaisesInContext(c) ==
  /\ pc[c] = "execute"
  /\ effect' = [effect EXCEPT ![c] = TRUE]
  /\ \E class \in ExecutorErrors :
       Return(c, [OnExecutorError(class) EXCEPT !.context = RequestContext(req[c])])
  /\ UNCHANGED <<hostVars, used, req, now, authentic, replay_reason, consumed>>

\* The executor has been entered and raises.
ExecutorRaises(c) ==
  /\ pc[c] = "execute"
  /\ effect' = [effect EXCEPT ![c] = TRUE]
  /\ \E class \in ExecutorErrors : Return(c, OnExecutorError(class))
  /\ UNCHANGED <<hostVars, used, req, now, authentic, replay_reason, consumed>>

Reply(c) ==
  /\ pc[c] = "reply"
  /\ Return(c, AllowResponse(req[c]))
  /\ UNCHANGED <<hostVars, used, callVars>>

StageStep(c) ==
  \/ ParseEnvelope(c) \/ CheckPosture(c) \/ VerifyQid(c) \/ VerifyReplayProof(c)
  \/ VerifyOracle(c) \/ VerifyShieldReceipt(c) \/ ParseShieldBundle(c)
  \/ EvaluateEqc(c) \/ ExtractAuthority(c)
  \/ FailTva(c) \/ RejectReplay(c) \/ CheckAndMark(c) \/ LookUpNonce(c)
  \/ MarkNonce(c) \/ DecideFinal(c) \/ Execute(c) \/ Reply(c)

RaiseStep(c) == StoreRaises(c) \/ ExecutorRaises(c)

CallStep(c) == StageStep(c) \/ RaiseStep(c)

InFlight(c) == pc[c] \in Stages

\* The process dies: calls in flight never answer, and only a durable store
\* remembers its marks.
Crash ==
  /\ crashes < MaxCrashes
  /\ \E c \in Calls : InFlight(c)
  /\ crashes' = crashes + 1
  /\ pc' = [c \in Calls |-> IF InFlight(c) THEN "lost" ELSE pc[c]]
  /\ used' = IF DurableStore THEN used ELSE {}
  /\ UNCHANGED <<deployment, clock, callVars, resp>>

Tick ==
  /\ clock < MaxClock
  /\ clock' = clock + 1
  /\ UNCHANGED <<deployment, crashes, used, pc, callVars, resp>>

Next ==
  \/ \E c \in Calls : Submit(c) \/ CallStep(c)
  \/ Crash
  \/ Tick

Spec == Init /\ [][Next]_vars

\* The host's threads are scheduled and what they call comes back: a call in flight
\* takes its stages.  No call is owed a store or an executor that raises.
FairSpec == Spec /\ \A c \in Calls : WF_vars(StageStep(c))

=============================================================================
