--------------------------- MODULE MCOrchestrator ---------------------------
(***************************************************************************)
(* Requests, deployments and names shared by the instances of              *)
(* OrchestratorV2: a request every gate accepts at times 2 and 3, and what *)
(* can be wrong with it.                                                   *)
(***************************************************************************)
EXTENDS OrchestratorV2Requirements

MCStrip(name) ==
  CASE name = "n "       -> "n"
    [] name = " w"       -> "w"
    [] name = " "        -> ""
    [] name = " hybrid " -> "hybrid"
    [] OTHER             -> name

NoReplayProof ==
  [present |-> FALSE, malformed |-> FALSE, wallet |-> Blank, subject |-> Blank,
   proof_hash |-> NoContext, device |-> Blank, session_nonce |-> Blank, fresh |-> FALSE]

Verdict(id, r, context, decision) ==
  [component_id |-> id, malformed |-> FALSE, request_id |-> r, context |-> context,
   decision |-> decision, metadata_authority |-> FALSE]

Verdicts(r, context, decisions) ==
  [i \in 1..Len(CanonicalComponents) |->
     Verdict(CanonicalComponents[i], r, context, decisions[i])]

AllAllow == <<"ALLOW", "ALLOW", "ALLOW", "ALLOW", "ALLOW">>

\* One record serves both Shield boundaries: kind says which object it is.
Shield(kind, r, context) ==
  [kind |-> kind, malformed |-> FALSE, context |-> context, request_id |-> r,
   component_verdicts |-> Verdicts(r, context, AllAllow),
   final_outcome |-> "ALLOW", dominant_reason |-> "ORCH_OK_ALL_COMPONENTS_ALLOW",
   handoff_allowed |-> TRUE, receipt_hash |-> NoContext,
   issued_at |-> 1, expires_at |-> 6, required_layers |-> Components,
   signals |-> {[layer |-> id, context |-> context, issued_at |-> 1, expires_at |-> 6,
                 verdict |-> "allow", reason |-> "ok"] : id \in Components}]

\* Self-hashes are computed last, over whatever the object then says.
SealReceipt(r) == [r EXCEPT !.shield.receipt_hash = ReceiptHash(r.shield)]
SealQid(r) == [r EXCEPT !.qid.proof_hash = QidProofHash(r.qid)]
SealReplayProof(r) == [r EXCEPT !.qid.replay_proof.proof_hash = QidProofHash(r.qid)]
SealAuthority(r) == [r EXCEPT !.wsqk.binding = WsqkBinding(r.wsqk)]
Seal(r) == SealAuthority(SealReplayProof(SealQid(SealReceipt(r))))

\* The context a request's evidence is made for.
Request(wallet, nonce, confirmed, context) ==
  Seal([wallet |-> wallet, action |-> "send", request_id |-> "r1",
        fields_confirmed |-> confirmed, ui_confirmed |-> TRUE,
        head_defect |-> OK, tail_defect |-> OK,
        issued_at |-> 2, expires_at |-> 4, skew |-> 1, nonce |-> nonce,
        scope |-> [kind |-> "absent", families |-> <<>>, posture |-> Blank],
        wsqk |-> [kind |-> "v1", wallet |-> wallet, action |-> "send",
                  context |-> ContextHash(wallet, "send", confirmed),
                  issued_at |-> 2, expires_at |-> 4, nonce |-> nonce,
                  families |-> <<"pqc_signature", "qid_hybrid">>,
                  posture |-> "hybrid", binding |-> NoContext],
        qid |-> [form |-> "qid_login_v2", malformed |-> FALSE, subject |-> "alice",
                 issued_at |-> 1, expires_at |-> 6, context |-> context,
                 device |-> Blank, proof_hash |-> NoContext,
                 replay_proof |-> [present |-> TRUE, malformed |-> FALSE,
                   wallet |-> wallet, subject |-> "alice", proof_hash |-> NoContext,
                   device |-> Blank, session_nonce |-> nonce, fresh |-> TRUE]],
        oracle |-> [malformed |-> FALSE, wrong_version |-> FALSE, context |-> context,
                    issued_at |-> 1, expires_at |-> 6, generated_at |-> 1,
                    score |-> 90, reasons |-> {"ok"}],
        shield |-> Shield("receipt", "r1", context)])

Plain(nonce) == Request("w", nonce, TRUE, ContextHash("w", "send", TRUE))

\* A request under the names of r that carries WSQK v2 and asks for it.
QuantumAware(r) ==
  Seal([r EXCEPT !.wsqk.kind = "v2",
                 !.scope = [kind |-> "v2",
                            families |-> <<"qid_hybrid", "pqc_signature">>,
                            posture |-> " hybrid "]])

-----------------------------------------------------------------------------
Host ==
  [valid |-> TRUE, receipt_boundary |-> TRUE, min_score |-> 85,
   require_protected_call |-> FALSE, require_full_mode |-> FALSE,
   require_qid_replay_proof |-> FALSE, require_authenticated |-> FALSE,
   rejected_receipts |-> {}, allowed_reasons |-> {"ok", "watch"},
   reason_map |-> [ok |-> "EVIDENCE_OK", watch |-> "SHIELD_REASON",
                   odd |-> "SHIELD_REASON"],
   qid_verifier |-> TRUE, oracle_verifier |-> TRUE, shield_verifier |-> TRUE]

=============================================================================
