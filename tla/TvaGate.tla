------------------------------ MODULE TvaGate ------------------------------
(***************************************************************************)
(* The authority of a request and the enforcement gate in front of its     *)
(* nonce: _extract_wsqk_authority and _extract_wsqk_v2_runtime_requirements*)
(* of the orchestrator, enforcement/tva_gate.py and the binding hash of    *)
(* wsqk/issuer_v2.py.                                                      *)
(*                                                                         *)
(* A WSQK proof a has fields kind ("absent", "malformed", "v1", "v2",      *)
(* "v2_malformed"), wallet, action, context, issued_at, expires_at, nonce, *)
(* families, posture and binding; a scope has fields kind ("absent",       *)
(* "malformed", "v2"), families and posture.                               *)
(***************************************************************************)
EXTENDS ExecutionContext

AllowedFamilies == {"classical_signature", "pqc_signature", "qid_hybrid"}

\* canonical_required_evidence_families: what it returns, and how it rejects.
CanonicalFamilies(families) == {Strip(f) : f \in Range(families)}

\* Mutant: any name passes for a family.
FamiliesRejectionUnknown(families) ==
  Reject("WSQK_V2_INVALID_EVIDENCE_FAMILIES", families = <<>>)

FamiliesRejection(families) ==
  IF families = <<>> THEN "WSQK_V2_INVALID_EVIDENCE_FAMILIES"
  ELSE FirstRejection(
         [i \in 1..Len(families) |->
            LET family == Strip(families[i])
            IN  IF family = Blank THEN "WSQK_V2_INVALID_EVIDENCE_FAMILIES"
                ELSE Reject("WSQK_V2_UNKNOWN_EVIDENCE_FAMILY",
                            family \notin AllowedFamilies)])

\* compute_wsqk_v2_proof_bindings_hash
WsqkBinding(a) ==
  [wallet |-> a.wallet, action |-> a.action, context |-> a.context,
   issued_at |-> a.issued_at, expires_at |-> a.expires_at, nonce |-> a.nonce,
   families |-> CanonicalFamilies(a.families), posture |-> a.posture]

\* _protected_call_requested: a wsqk proof is present, whatever it holds.
ProtectedRequested(r) == r.wsqk.kind # "absent"

\* _extract_wsqk_v2_runtime_requirements
ScopeRejection(r) == Reject("DENY_AUTHORITY_INVALID", r.scope.kind = "malformed")

\* _extract_wsqk_authority returns an authority: a well-formed proof that
\* repeats the request's names, context, timebox and nonce exactly.
AuthorityBinds(r) ==
  /\ r.wsqk.kind \in {"v1", "v2"}
  /\ r.wsqk.wallet = r.wallet
  /\ r.wsqk.action = r.action
  /\ r.wsqk.context = RequestContext(r)
  /\ r.wsqk.nonce = r.nonce
  /\ r.wsqk.issued_at = r.issued_at
  /\ r.wsqk.expires_at = r.expires_at

\* _enforce_wsqk_v2_quantum_posture
PostureRejection(a, scope) ==
  IF scope.kind # "v2" THEN OK
  ELSE FirstRejection(<<
         Reject("TVA_WSQK_V2_REQUIRED", a.kind # "v2"),
         FamiliesRejection(a.families),
         FamiliesRejection(scope.families),
         Reject("TVA_WSQK_V2_EVIDENCE_FAMILY_MISMATCH",
                CanonicalFamilies(a.families) # CanonicalFamilies(scope.families)),
         Reject("TVA_WSQK_V2_QUANTUM_POSTURE_MISMATCH",
                a.posture # Strip(scope.posture)),
         Reject("TVA_WSQK_V2_PROOF_BINDINGS_HASH_MISMATCH",
                a.binding # WsqkBinding(a)) >>)

\* enforce_tva up to the nonce store: everything that is asked before a nonce
\* may be marked.  The closed window is not EQC's half-open one.
TvaRejection(r, now) ==
  LET a == r.wsqk
  IN  FirstRejection(<<
        Reject("TVA_AUTHORITY_WALLET_MISMATCH", a.wallet # r.wallet),
        Reject("TVA_AUTHORITY_ACTION_MISMATCH", a.action # r.action),
        Reject("TVA_AUTHORITY_CONTEXT_HASH_MISMATCH", a.context # RequestContext(r)),
        Reject("TVA_INVALID_TIME_WINDOW", a.expires_at < a.issued_at),
        Reject("TVA_AUTHORITY_NOT_YET_VALID", now < a.issued_at),
        Reject("TVA_AUTHORITY_EXPIRED", now > a.expires_at),
        PostureRejection(a, r.scope),
        Reject("TVA_INVALID_NONCE", Strip(a.nonce) = Blank) >>)

\* What check_and_mark is asked about: nonces are compared stripped.
NonceKey(r) == <<r.wsqk.wallet, Strip(r.wsqk.nonce)>>

\* _bound_human_confirmation_gate: the runtime's flag and the value bound into
\* the context must both say so.
HumanConfirmed(r) == r.ui_confirmed /\ r.fields_confirmed

=============================================================================
