--------------------- MODULE OrchestratorV2Requirements ---------------------
(***************************************************************************)
(* What a host may rely on when it runs orchestrate_execution_v2, stated   *)
(* over whole calls and without the order the code checks things in.       *)
(***************************************************************************)
EXTENDS OrchestratorV2

Statuses == {"allow", "deny", "error"}

IsResponse(x) ==
  /\ x.status \in Statuses
  /\ x.valid \subseteq EvidenceKinds
  /\ x.allowed \subseteq {"tva", "eqc", "wsqk"}
  /\ x.mode \in {"legacy", "minimal", "full"}
  /\ x.consumed \in BOOLEAN
  /\ x.coerced \in BOOLEAN

\* The variables have the values their declarations promise.
TypeOK ==
  /\ deployment \in Deployments
  /\ clock \in 1..MaxClock
  /\ crashes \in 0..MaxCrashes
  /\ used \subseteq {NonceKey(r) : r \in Requests}
  /\ pc \in [Calls -> Stages \cup {"new", "done", "lost"}]
  /\ req \in [Calls -> Requests \cup {NoRequest}]
  /\ now \in [Calls -> 0..MaxClock]
  /\ authentic \in [Calls -> SUBSET EvidenceKinds]
  /\ consumed \in [Calls -> BOOLEAN]
  /\ effect \in [Calls -> BOOLEAN]
  /\ DOMAIN replay_reason = Calls
  /\ DOMAIN resp = Calls
  /\ \A c \in Calls :
       /\ now[c] <= clock
       /\ pc[c] = "new" <=> req[c] = NoRequest
       /\ IF pc[c] = "done" THEN IsResponse(resp[c]) ELSE resp[c] = NoResponse

-----------------------------------------------------------------------------
(* What an execution presupposes.                                           *)

\* The one context an execution may be about: the human's confirmation is part
\* of it.
ConfirmedContext(r) == ContextHash(r.wallet, r.action, TRUE)

\* The executor is only ever entered for the wallet and action that all three
\* evidence sources and the authority committed to, with the human confirmation
\* bound into what they committed to, and never under a padded or blank name:
\* the parser hashes raw names, EQC hashes stripped ones
\* (envelope_v2.py:213, evaluator.py:169-171, orchestrator_v2.py:382-402).
ExecutionIsAboutOneContext ==
  \A c \in Calls : effect[c] =>
    LET r == req[c]
    IN  /\ r.ui_confirmed
        /\ {r.qid.context, r.oracle.context, r.shield.context, r.wsqk.context}
             = {ConfirmedContext(r)}
        /\ r.wsqk.wallet = r.wallet /\ r.wsqk.action = r.action
        /\ Strip(r.wallet) = r.wallet /\ r.wallet # Blank
        /\ Strip(r.action) = r.action /\ r.action # Blank

\* Every window is open at the injected time, whatever skew the caller asks
\* for: the envelope's tolerance never reaches the authority or the evidence,
\* and behind the receipt boundary the last second of the timebox is closed
\* (envelope_v2.py:258-261, tva_gate.py:120-127, evaluator.py:188-199, 257-260).
ExecutionIsFresh ==
  \A c \in Calls : effect[c] =>
    LET r == req[c]
        t == now[c]
    IN  /\ r.issued_at <= t /\ t <= r.expires_at
        /\ deployment.receipt_boundary => t < r.expires_at
        /\ ~deployment.receipt_boundary
             => r.shield.issued_at <= t /\ t < r.shield.expires_at
        /\ r.qid.issued_at <= t /\ t < r.qid.expires_at
        /\ r.oracle.issued_at <= t /\ t <= r.oracle.expires_at
        /\ r.oracle.generated_at \in 1..t

\* Nothing executes on evidence nobody vouched for: a Q-ID v2 login was accepted
\* by the injected verifier, under the authenticity latch so were oracle and
\* receipt, the oracle's score meets the policy, the receipt is untampered,
\* for this request, not on the denylist and unanimous, and a replay proof is
\* there when the policy asks for one (orchestrator_v2.py:812-1037).
ExecutionIsVouchedFor ==
  \A c \in Calls : effect[c] =>
    LET r == req[c]
        s == r.shield
        p == r.qid.replay_proof
    IN  /\ r.qid.form = "qid_login_v2" => "qid" \in authentic[c]
        /\ deployment.require_authenticated => "oracle" \in authentic[c]
        /\ deployment.require_authenticated /\ deployment.receipt_boundary
             => "shield" \in authentic[c]
        /\ r.oracle.score >= deployment.min_score
        /\ r.qid.proof_hash = QidProofHash(r.qid)
        /\ deployment.receipt_boundary =>
             /\ s.kind = "receipt"
             /\ s.request_id = r.request_id
             /\ s.receipt_hash = ReceiptHash(s)
             /\ s.receipt_hash \notin deployment.rejected_receipts
             /\ \A id \in Components : \E i \in DOMAIN s.component_verdicts :
                  s.component_verdicts[i].component_id = id
             /\ \A i \in DOMAIN s.component_verdicts :
                  s.component_verdicts[i].decision = "ALLOW"
        /\ deployment.require_qid_replay_proof =>
             /\ p.present /\ p.fresh
             /\ p.wallet = r.wallet /\ p.subject = r.qid.subject
             /\ p.session_nonce = r.nonce /\ p.proof_hash = r.qid.proof_hash

\* An authority that spends a nonce is the request's own, inside its window and,
\* when the request's scope asks for WSQK v2, one of the asked-for families and
\* posture whose binding hash covers exactly these fields.
Vetted(c) ==
  LET r == req[c]
      a == r.wsqk
  IN  /\ a.wallet = r.wallet /\ a.action = r.action
      /\ a.context = RequestContext(r)
      /\ a.nonce = r.nonce /\ Strip(a.nonce) # Blank
      /\ a.issued_at <= now[c] /\ now[c] <= a.expires_at
      /\ r.scope.kind # "malformed"
      /\ r.scope.kind = "v2" =>
           /\ a.kind = "v2"
           /\ {Strip(f) : f \in Range(a.families)}
                = {Strip(f) : f \in Range(r.scope.families)}
           /\ a.posture = Strip(r.scope.posture)
           /\ a.binding = WsqkBinding(a)
           /\ \A f \in Range(a.families) : Strip(f) \in AllowedFamilies

\* No nonce is burnt by a forged, foreign, stale or out-of-posture authority: a
\* key only enters the store in a step of a call that has passed all of TVA
\* (docs/CONTRACTS/wsqk_authority_v2.md:247, tva_gate.py:97-145).
OnlyVettedCallsBurnNonces ==
  [][\A k \in used' \ used : \E c \in Calls :
       pc'[c] # pc[c] /\ Key(c) = k /\ Vetted(c)]_vars

-----------------------------------------------------------------------------
(* The nonce store as a licence office: a marked key is a licence granted   *)
(* to the call whose check_and_mark returned True, and entering the         *)
(* executor exercises it.                                                   *)

Licences == INSTANCE SingleUseExecution
  WITH Callers   <- Calls,
       Keys      <- {NonceKey(r) : r \in Requests},
       burnt     <- used,
       holders   <- {<<c, Key(c)>> : c \in {d \in Calls : consumed[d]}},
       exercised <- {<<c, Key(c)>> : c \in {d \in Calls : effect[d]}}

\* The orchestrator over a durable store implements single-use execution.
ImplementsSingleUse == Licences!Spec

-----------------------------------------------------------------------------
(* Single use, and what responses say.                                      *)

\* Whatever interleaving, crash, retry or failing callback: no two calls reach
\* the executor on one (wallet, nonce), nonces that differ in padding included
\* (tva_gate.py:139-145, nonce_store.py:24-43).
AtMostOnceExecution ==
  \A c, d \in Calls : effect[c] /\ effect[d] /\ c # d => Key(c) # Key(d)

Done(c) == pc[c] = "done"

\* A host may act on what an answer under a context of its own says of the nonce: it
\* is reported consumed exactly when check_and_mark has accepted it, by the human
\* gate's denial behind the mark too, and then it stays spent; "allow" is only said
\* with a nonce consumed and full protection.  The handlers of exceptions, which report
\* nothing consumed, answer under the zero context (orchestrator_v2.py:1160-1244,
\* 1246-1388, docs/CONTRACTS/execution_response_v2.md:149).
ResponseTellsTheNonce ==
  \A c \in Calls : Done(c) /\ resp[c].context # ZeroContext =>
    /\ resp[c].consumed <=> consumed[c]
    /\ resp[c].consumed /\ DurableStore => Key(c) \in used
    /\ resp[c].status = "allow" => resp[c].consumed /\ resp[c].mode = "full"

\* A denial of the final policy engine comes out of the gate of the stage that
\* rejected and is never the coerced invariant violation: gates a branch has
\* not reached are fed to the engine as accepted, and must not decide
\* (orchestrator_v2.py:211-230, 826-1207).
DenialBlamesTheRightGate ==
  \A c \in Calls : Done(c) /\ resp[c].stopped_at # Nowhere =>
    LET r == req[c]
        OracleOK == OracleRejection(r.oracle, now[c], RequestContext(r), deployment) = OK
        EqcOK    == EqcRejection(r, now[c], deployment) = OK
        gate     == resp[c].stopped_at
    IN  /\ ~resp[c].coerced
        /\ resp[c].reason \notin {OK, "OK_ALLOW", "EVIDENCE_OK"}
        /\ gate = "qid" <=> resp[c].valid = {} /\ resp[c].allowed = {}
        /\ gate = "adaptive_core" =>
             ~OracleOK \/ deployment.require_authenticated
        /\ gate = "shield" => OracleOK
        /\ gate = "wallet_policy" => ~EqcOK /\ OracleOK
        /\ gate = "wsqk_v2" => EqcOK /\ ~AuthorityBinds(r)
        /\ gate \in {"replay", "human"} => EqcOK /\ AuthorityBinds(r)
        /\ gate = "replay" <=> replay_reason[c] # OK
        /\ gate = "human" =>
             /\ consumed[c] /\ resp[c].consumed
             /\ ~(r.ui_confirmed /\ r.fields_confirmed)

\* An answer under a context of its own can be acted on whatever the executor raises:
\* it says "allow" exactly when the executor was entered.  Only under the zero context,
\* in which the handlers of the checks answer for an executor that raises as one of
\* them does, is the effect left open (orchestrator_v2.py:1209-1214, 1246-1386).
AnswersUnderContextTellTheEffect ==
  \A c \in Calls : Done(c) /\ resp[c].context # ZeroContext =>
    (resp[c].status = "allow" <=> effect[c])

-----------------------------------------------------------------------------
(* What a refusal presupposes.                                              *)

\* A check finds something wrong with the request under the host's policy.
AtFault(r, t) ==
  \/ EnvelopeRejection(r, t) # OK
  \/ ScopeRejection(r) # OK \/ ~deployment.valid \/ LatchRejection(r) # OK
  \/ SessionRejection(r.qid, t) # OK
  \/ ReplayProofRequired(r) /\ ReplayProofRejection(r.qid, r.wallet, r.nonce) # OK
  \/ OracleRejection(r.oracle, t, RequestContext(r), deployment) # OK
  \/ IF deployment.receipt_boundary
     THEN \/ ~ReceiptAccepted(ReceiptState(r.shield, RequestContext(r), r.request_id,
                                           deployment.rejected_receipts))
          \/ InternalizeRejection(r.shield) # OK
     ELSE BundleRejection(r.shield, RequestContext(r), deployment) # OK
  \/ EqcRejection(r, t, deployment) # OK
  \/ ~AuthorityBinds(r)
  \/ TvaRejection(r, t) # OK
  \/ ~HumanConfirmed(r)

\* An injected verifier has not accepted its evidence, or one that is needed is missing.
Unvouched(c) ==
  \/ "qid" \notin authentic[c] /\ (deployment.qid_verifier \/ IsV2Login(req[c].qid))
  \/ deployment.require_authenticated /\ "oracle" \notin authentic[c]
  \/ /\ deployment.require_authenticated /\ deployment.receipt_boundary
     /\ "shield" \notin authentic[c]

\* Nobody is refused for nothing: a call that is answered anything but "allow" before
\* the executor is entered has a fault some check can name, a verifier against it, a
\* nonce that was refused as a replay, or a store that raised.  What every gate accepts
\* passes the engine, which is fed gates no check has run for
\* (orchestrator_v2.py:788-1244, final_policy_engine.py:285-560).
RefusedForCause ==
  \A c \in Calls : Done(c) /\ resp[c].status # "allow" /\ ~effect[c] =>
    \/ AtFault(req[c], now[c])
    \/ Unvouched(c)
    \/ replay_reason[c] = "TVA_NONCE_REPLAY"
    \/ StoreMayFail /\ resp[c] = OnException

\* A nonce is only refused as a replay after another call took it: that call was told
\* so, or its store raised with the mark made (tva_gate.py:139-145,
\* enforcement/nonce_store.py:6-65).
ReplayedForCause ==
  \A c \in Calls : replay_reason[c] = "TVA_NONCE_REPLAY" =>
    \E d \in Calls \ {c} :
      /\ req[d] # NoRequest /\ Key(d) = Key(c)
      /\ consumed[d] \/ (Done(d) /\ resp[d] = OnException)

\* Evidence is never reported valid that was not checked: the valid flags of a
\* response are covered by what the adapters accepted in this call.
ReportedEvidenceWasChecked ==
  \A c \in Calls : Done(c) =>
    LET r == req[c]
    IN  /\ "qid" \in resp[c].valid =>
             /\ SessionRejection(r.qid, now[c]) = OK
             /\ IsV2Login(r.qid) => "qid" \in authentic[c]
        /\ "oracle" \in resp[c].valid =>
             OracleRejection(r.oracle, now[c], RequestContext(r), deployment) = OK
        /\ "shield" \in resp[c].valid =>
             r.shield.context = RequestContext(r)
        /\ resp[c].mode = "full" => ProtectedRequested(r)

\* Every submitted call is answered unless the process dies under it: no
\* interleaving at the store leaves a caller waiting.
Served ==
  \A c \in Calls : InFlight(c) ~> (pc[c] \in {"done", "lost"})

=============================================================================
