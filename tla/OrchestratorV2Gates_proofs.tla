---------------------- MODULE OrchestratorV2Gates_proofs ----------------------
(***************************************************************************)
(* For every number of calls, every set of requests and deployments, any   *)
(* store and any crashes: what the gates in front of the executor have     *)
(* established when it is entered, what a nonce is spent on, what a        *)
(* response may be relied on for, what a refusal presupposes, and that     *)
(* every step of a call brings it closer to its answer.                    *)
(***************************************************************************)
EXTENDS OrchestratorV2_proofs

(***************************************************************************)
(* What each gate that passes has established, chain by chain.             *)
(***************************************************************************)

\* A list of families that is not rejected names only families there are.
LEMMA FamiliesPassed ==
  ASSUME NEW families \in Seq(STRING), FamiliesRejection(families) = OK
  PROVE  \A f \in Range(families) : Strip(f) \in AllowedFamilies
<1> DEFINE n == Len(families)
           s == [i \in 1..n |->
                   IF Strip(families[i]) = Blank THEN "WSQK_V2_INVALID_EVIDENCE_FAMILIES"
                   ELSE Reject("WSQK_V2_UNKNOWN_EVIDENCE_FAMILY",
                               Strip(families[i]) \notin AllowedFamilies)]
<1>1. FirstRejection(s) = OK
  BY DEF FamiliesRejection, OK
<1>2. n \in Nat /\ Len(s) = n
  OBVIOUS
<1>3. \A i \in 1..n : s[i] = OK
  <2> HIDE DEF s, n
  <2> QED BY <1>1, <1>2, FirstRejectionOutcome
<1>4. \A i \in 1..n : Strip(families[i]) \in AllowedFamilies
  BY <1>3 DEF Reject, OK
<1>5. DOMAIN families = 1..n
  OBVIOUS
<1> QED BY <1>4, <1>5 DEF Range

\* An authority in the posture its scope asks for.
LEMMA PosturePassed ==
  ASSUME NEW a, NEW scope, scope.kind = "v2", PostureRejection(a, scope) = OK
  PROVE  /\ a.kind = "v2"
         /\ FamiliesRejection(a.families) = OK
         /\ CanonicalFamilies(a.families) = CanonicalFamilies(scope.families)
         /\ a.posture = Strip(scope.posture)
         /\ a.binding = WsqkBinding(a)
<1> DEFINE s == <<
         Reject("TVA_WSQK_V2_REQUIRED", a.kind # "v2"),
         FamiliesRejection(a.families),
         FamiliesRejection(scope.families),
         Reject("TVA_WSQK_V2_EVIDENCE_FAMILY_MISMATCH",
                CanonicalFamilies(a.families) # CanonicalFamilies(scope.families)),
         Reject("TVA_WSQK_V2_QUANTUM_POSTURE_MISMATCH",
                a.posture # Strip(scope.posture)),
         Reject("TVA_WSQK_V2_PROOF_BINDINGS_HASH_MISMATCH",
                a.binding # WsqkBinding(a)) >>
<1>1. Len(s) = 6 /\ FirstRejection(s) = OK
  BY DEF PostureRejection
<1>2. s[1] = OK /\ s[2] = OK /\ s[4] = OK /\ s[5] = OK /\ s[6] = OK
  <2> HIDE DEF s
  <2>1. \A i \in 1..6 : s[i] = OK
    BY <1>1, FirstRejectionOutcome
  <2> QED BY <2>1
<1> QED BY <1>2 DEF Reject, OK

\* An authority the enforcement gate takes to the nonce store.
LEMMA TvaPassed ==
  ASSUME NEW r, NEW t, TvaRejection(r, t) = OK
  PROVE  /\ r.wsqk.wallet = r.wallet /\ r.wsqk.action = r.action
         /\ r.wsqk.context = RequestContext(r)
         /\ ~(t < r.wsqk.issued_at) /\ ~(t > r.wsqk.expires_at)
         /\ PostureRejection(r.wsqk, r.scope) = OK
         /\ Strip(r.wsqk.nonce) # Blank
<1> DEFINE s == <<
        Reject("TVA_AUTHORITY_WALLET_MISMATCH", r.wsqk.wallet # r.wallet),
        Reject("TVA_AUTHORITY_ACTION_MISMATCH", r.wsqk.action # r.action),
        Reject("TVA_AUTHORITY_CONTEXT_HASH_MISMATCH", r.wsqk.context # RequestContext(r)),
        Reject("TVA_INVALID_TIME_WINDOW", r.wsqk.expires_at < r.wsqk.issued_at),
        Reject("TVA_AUTHORITY_NOT_YET_VALID", t < r.wsqk.issued_at),
        Reject("TVA_AUTHORITY_EXPIRED", t > r.wsqk.expires_at),
        PostureRejection(r.wsqk, r.scope),
        Reject("TVA_INVALID_NONCE", Strip(r.wsqk.nonce) = Blank) >>
<1>1. Len(s) = 8 /\ FirstRejection(s) = OK
  BY DEF TvaRejection
<1>2. s[1] = OK /\ s[2] = OK /\ s[3] = OK /\ s[5] = OK /\ s[6] = OK /\ s[7] = OK /\ s[8] = OK
  <2> HIDE DEF s
  <2>1. \A i \in 1..8 : s[i] = OK
    BY <1>1, FirstRejectionOutcome
  <2> QED BY <2>1
<1> QED BY <1>2 DEF Reject, OK

\* A Q-ID session that is accepted.
LEMMA SessionPassed ==
  ASSUME NEW q, NEW t, SessionRejection(q, t) = OK
  PROVE  ~(t < q.issued_at) /\ ~(t >= q.expires_at) /\ q.proof_hash = QidProofHash(q)
<1> DEFINE s == <<
    Reject("EQC_INVALID_QID_PROOF", q.malformed),
    Reject("EQC_INVALID_QID_PROOF",
           q.context \in IF IsV2Login(q) THEN {NoContext, BadContext}
                                         ELSE {BadContext}),
    Reject("EQC_QID_SESSION_NOT_YET_VALID", t < q.issued_at),
    Reject("EQC_QID_SESSION_EXPIRED", t >= q.expires_at),
    Reject("EQC_INVALID_QID_PROOF", q.proof_hash # QidProofHash(q)),
    Reject("EQC_INVALID_QID_PROOF", q.issued_at <= 0) >>
<1>1. Len(s) = 6 /\ FirstRejection(s) = OK
  BY DEF SessionRejection
<1>2. s[3] = OK /\ s[4] = OK /\ s[5] = OK
  <2> HIDE DEF s
  <2>1. \A i \in 1..6 : s[i] = OK
    BY <1>1, FirstRejectionOutcome
  <2> QED BY <2>1
<1> QED BY <1>2 DEF Reject, OK

\* A replay proof that is accepted.
LEMMA ReplayProofPassed ==
  ASSUME NEW q, NEW wallet, NEW nonce, ReplayProofRejection(q, wallet, nonce) = OK
  PROVE  /\ q.replay_proof.present /\ q.replay_proof.fresh
         /\ q.replay_proof.wallet = wallet /\ q.replay_proof.subject = q.subject
         /\ q.replay_proof.session_nonce = nonce
         /\ q.replay_proof.proof_hash = q.proof_hash
<1> DEFINE p == q.replay_proof
<1> DEFINE s == <<
        Reject("QID_REPLAY_PROOF_MISSING", ~p.present),
        Reject("QID_REPLAY_PROOF_INVALID", p.malformed),
        Reject("QID_REPLAY_WALLET_MISMATCH", p.wallet # wallet),
        Reject("QID_REPLAY_SUBJECT_MISMATCH", p.subject # q.subject),
        Reject("QID_REPLAY_PROOF_HASH_MISMATCH", p.proof_hash # q.proof_hash),
        Reject("QID_REPLAY_DEVICE_MISMATCH", p.device # SessionDevice(q)),
        Reject("QID_REPLAY_NONCE_MISMATCH", p.session_nonce # nonce),
        Reject("QID_NONCE_REPLAY", ~p.fresh) >>
<1>1. Len(s) = 8 /\ FirstRejection(s) = OK
  BY DEF ReplayProofRejection, ReplayProofRejectionOn
<1>2. s[1] = OK /\ s[3] = OK /\ s[4] = OK /\ s[5] = OK /\ s[7] = OK /\ s[8] = OK
  <2> HIDE DEF s
  <2>1. \A i \in 1..8 : s[i] = OK
    BY <1>1, FirstRejectionOutcome
  <2> QED BY <2>1
<1> QED BY <1>2 DEF Reject, OK

\* An oracle report that is accepted is of this context and inside its window.
LEMMA OraclePassed ==
  ASSUME NEW o, NEW t, NEW expected, NEW policy,
         OracleRejection(o, t, expected, policy) = OK
  PROVE  o.context = expected /\ ~(o.issued_at > t) /\ ~(o.expires_at < t)
<1> DEFINE s == <<
    Reject("EQC_INVALID_RISK_REPORT", o.malformed),
    Reject("DENY_VERSION_MISMATCH", o.wrong_version),
    Reject("EQC_INVALID_RISK_REPORT", o.context \in {NoContext, BadContext}),
    Reject("EQC_RISK_CONTEXT_HASH_MISMATCH", o.context # expected),
    Reject("EQC_INVALID_RISK_REPORT", o.expires_at < o.issued_at),
    Reject("EQC_INVALID_RISK_REPORT", o.issued_at > t \/ o.expires_at < t),
    ReportRejection(o, t, expected, policy) >>
<1>1. Len(s) = 7 /\ FirstRejection(s) = OK
  BY DEF OracleRejection
<1>2. s[4] = OK /\ s[6] = OK
  <2> HIDE DEF s
  <2>1. \A i \in 1..7 : s[i] = OK
    BY <1>1, FirstRejectionOutcome
  <2> QED BY <2>1
<1> QED BY <1>2 DEF Reject, OK

\* A request EQC allows.
LEMMA EqcPassed ==
  ASSUME NEW r, NEW t, NEW policy, EqcRejection(r, t, policy) = OK
  PROVE  LET shield == ShieldEvidence(r, policy)
         IN  /\ Strip(r.wallet) # Blank /\ Strip(r.action) # Blank
             /\ r.qid.context = EqcContext(r) /\ r.oracle.context = EqcContext(r)
             /\ shield.context = EqcContext(r)
             /\ ~ReportInvalid(r.oracle, t)
             /\ ~(r.oracle.score < policy.min_score)
             /\ ~(t < shield.issued_at) /\ ~(t >= shield.expires_at)
<1> DEFINE context == EqcContext(r)
           shield  == ShieldEvidence(r, policy)
<1> DEFINE s == <<
        Reject("EQC_MISSING_WALLET_ID", Strip(r.wallet) = Blank),
        Reject("EQC_MISSING_ACTION", Strip(r.action) = Blank),
        Reject("EQC_QID_SESSION_NOT_YET_VALID", t < r.qid.issued_at),
        Reject("EQC_QID_SESSION_EXPIRED", t >= r.qid.expires_at),
        Reject("EQC_INVALID_QID_PROOF", r.qid.issued_at <= 0),
        Reject("EQC_QID_CONTEXT_HASH_MISMATCH", r.qid.context # context),
        Reject("EQC_RISK_CONTEXT_HASH_MISMATCH", r.oracle.context # context),
        Reject("EQC_INVALID_RISK_REPORT", ReportInvalid(r.oracle, t)),
        Reject("EQC_RISK_SCORE_BELOW_THRESHOLD", r.oracle.score < policy.min_score),
        Reject("EQC_SHIELD_CONTEXT_HASH_MISMATCH", shield.context # context),
        Reject("EQC_SHIELD_STALE",
               t < shield.issued_at \/ t >= shield.expires_at),
        Reject("EQC_CONFLICTING_EVIDENCE", shield.reasons # {"EVIDENCE_OK"}) >>
<1>1. Len(s) = 12 /\ FirstRejection(s) = OK
  BY DEF EqcRejection
<1>2. /\ s[1] = OK /\ s[2] = OK /\ s[6] = OK /\ s[7] = OK /\ s[8] = OK
      /\ s[9] = OK /\ s[10] = OK /\ s[11] = OK
  <2> HIDE DEF s
  <2>1. \A i \in 1..12 : s[i] = OK
    BY <1>1, FirstRejectionOutcome
  <2> QED BY <2>1
<1> HIDE DEF context, shield
<1>3. Reject("EQC_INVALID_RISK_REPORT", ReportInvalid(r.oracle, t)) = OK
  BY <1>2
<1>4. ~ReportInvalid(r.oracle, t)
  BY <1>3, Zenon DEF Reject, OK
<1>5. /\ Strip(r.wallet) # Blank /\ Strip(r.action) # Blank
      /\ r.qid.context = context /\ r.oracle.context = context /\ shield.context = context
      /\ ~(r.oracle.score < policy.min_score)
      /\ ~(t < shield.issued_at) /\ ~(t >= shield.expires_at)
  BY <1>2 DEF Reject, OK
<1> QED BY <1>4, <1>5 DEF context, shield

\* What a component verdict can be rejected with.
LEMMA VerdictRejections ==
  ASSUME NEW v, NEW receipt
  PROVE  VerdictRejection(v, receipt)
           \in {OK, "REJECTED_INVALID_RECEIPT", "REJECTED_AUTHORITY_BYPASS"}
<1> DEFINE S == {OK, "REJECTED_INVALID_RECEIPT", "REJECTED_AUTHORITY_BYPASS"}
<1> DEFINE s == <<
    Reject("REJECTED_INVALID_RECEIPT",
           \/ v.malformed
           \/ v.component_id \notin Components
           \/ Strip(v.request_id) = Blank
           \/ Strip(v.request_id) # Strip(receipt.request_id)
           \/ v.context # receipt.context
           \/ v.decision \notin {"ALLOW", "ESCALATE", "DENY", "ERROR"}),
    Reject("REJECTED_AUTHORITY_BYPASS", v.metadata_authority) >>
<1>1. \A condition : /\ Reject("REJECTED_INVALID_RECEIPT", condition) \in S
                     /\ Reject("REJECTED_AUTHORITY_BYPASS", condition) \in S
  BY DEF Reject
<1>2. Len(s) = 2 /\ s[1] \in S /\ s[2] \in S
  BY <1>1
<1>3. VerdictRejection(v, receipt) = FirstRejection(s)
  BY Zenon DEF VerdictRejection
<1> HIDE DEF s
<1>4. FirstRejection(s) # OK => \E i \in 1..2 : FirstRejection(s) = s[i]
  BY <1>2, FirstRejectionOutcome
<1> QED BY <1>2, <1>3, <1>4

\* What a receipt's component verdicts can be rejected with.
LEMMA VerdictsRejections ==
  ASSUME NEW receipt, Len(receipt.component_verdicts) \in Nat
  PROVE  VerdictsRejection(receipt)
           \in {OK, "REJECTED_INVALID_RECEIPT", "REJECTED_AUTHORITY_BYPASS"}
<1> DEFINE S == {OK, "REJECTED_INVALID_RECEIPT", "REJECTED_AUTHORITY_BYPASS"}
<1> DEFINE vs == receipt.component_verdicts
<1> DEFINE n == Len(vs)
           each == [i \in 1..n |-> VerdictRejection(vs[i], receipt)]
           last == << Reject("REJECTED_INVALID_RECEIPT",
                             [i \in 1..n |-> vs[i].component_id] # CanonicalComponents) >>
           s == each \o last
<1>1. VerdictsRejection(receipt) = FirstRejection(s)
  BY DEF VerdictsRejection
<1>2. last \in Seq(S) /\ Len(last) = 1
  <2>1. \A condition : Reject("REJECTED_INVALID_RECEIPT", condition) \in S
    BY DEF Reject
  <2> QED BY <2>1
<1>3. each \in Seq(S)
  BY VerdictRejections
<1> HIDE DEF each, last, n, S
<1>4. s \in Seq(S)
  BY <1>2, <1>3
<1>5. Len(s) \in Nat /\ \A i \in 1..Len(s) : s[i] \in S
  BY <1>4
<1> HIDE DEF s
<1>6. FirstRejection(s) # OK => \E i \in 1..Len(s) : FirstRejection(s) = s[i]
  BY <1>5, FirstRejectionOutcome
<1> QED BY <1>1, <1>5, <1>6 DEF S

\* A receipt the boundary accepts: this request's, of this context, untampered and
\* not on the denylist.
LEMMA ReceiptPassed ==
  ASSUME NEW s, NEW expected, NEW request_id, NEW rejected,
         Len(s.component_verdicts) \in Nat,
         ReceiptAccepted(ReceiptState(s, expected, request_id, rejected))
  PROVE  /\ s.kind = "receipt" /\ s.context = expected
         /\ s.receipt_hash = ReceiptHash(s)
         /\ s.request_id = request_id /\ s.receipt_hash \notin rejected
<1> DEFINE verdicts == VerdictsRejection(s)
           hash     == ReceiptHash(s)
           forged   == Claimed(s) # Classification(s)
           blank    == Strip(request_id) = Blank
           accepted == "VERIFIED_ALLOW_EVIDENCE_CONTINUE_CHECKS"
<1> DEFINE chain == <<
         Reject("REJECTED_INVALID_RECEIPT", s.malformed),
         Reject("REJECTED_CONTEXT_MISMATCH", s.context # expected),
         verdicts,
         Reject("REJECTED_OUTCOME_MISMATCH", forged),
         Reject("REJECTED_TAMPERED_RECEIPT", s.receipt_hash # hash),
         Reject("REJECTED_INVALID_RECEIPT", blank),
         Reject("REJECTED_REQUEST_MISMATCH", s.request_id # request_id),
         Reject("REJECTED_REPLAY_RISK", s.receipt_hash \in rejected) >>
<1>1. verdicts # accepted
  BY VerdictsRejections DEF OK
<1>2. Len(chain) = 8 /\ \A i \in 1..8 : chain[i] # accepted
  <2> HIDE DEF verdicts, hash, forged, blank
  <2>1. \A condition :
          /\ Reject("REJECTED_INVALID_RECEIPT", condition) # accepted
          /\ Reject("REJECTED_CONTEXT_MISMATCH", condition) # accepted
          /\ Reject("REJECTED_OUTCOME_MISMATCH", condition) # accepted
          /\ Reject("REJECTED_TAMPERED_RECEIPT", condition) # accepted
          /\ Reject("REJECTED_REQUEST_MISMATCH", condition) # accepted
          /\ Reject("REJECTED_REPLAY_RISK", condition) # accepted
    BY DEF Reject, OK
  <2> QED BY <1>1, <2>1
<1>3. ReceiptRejection(s, expected, request_id, rejected)
        = IF s.kind # "receipt"
          THEN IF s.kind = "direct_verdict" THEN "REJECTED_RAW_COMPONENT_BYPASS"
                                            ELSE "REJECTED_INVALID_RECEIPT"
          ELSE FirstRejection(chain)
  BY Zenon DEF ReceiptRejection
<1>4. FirstRejection(chain) # accepted
  <2> HIDE DEF chain
  <2>1. /\ FirstRejection(chain) = OK <=> \A i \in 1..8 : chain[i] = OK
        /\ FirstRejection(chain) # OK => \E i \in 1..8 : FirstRejection(chain) = chain[i]
    BY <1>2, FirstRejectionOutcome
  <2>2. OK # accepted
    BY DEF OK
  <2> QED BY <1>2, <2>1, <2>2
<1>5. /\ ReceiptRejection(s, expected, request_id, rejected) = OK
      /\ s.kind = "receipt"
  <2> DEFINE rejection == ReceiptRejection(s, expected, request_id, rejected)
  <2>1. rejection # accepted
    <3> HIDE DEF chain
    <3> QED BY <1>3, <1>4
  <2>2. ReceiptState(s, expected, request_id, rejected) = accepted
    BY Zenon DEF ReceiptAccepted
  <2>3. rejection # OK => ReceiptState(s, expected, request_id, rejected) = rejection
    BY Zenon DEF ReceiptState
  <2>4. rejection = OK
    BY <2>1, <2>2, <2>3, Zenon
  <2>5. s.kind # "receipt" => rejection # OK
    <3> HIDE DEF chain
    <3> QED BY <1>3 DEF OK
  <2> QED BY <2>4, <2>5
<1>6. chain[2] = OK /\ chain[5] = OK /\ chain[7] = OK /\ chain[8] = OK
  <2> HIDE DEF chain
  <2>0. Len(chain) = 8 /\ FirstRejection(chain) = OK
    BY <1>2, <1>3, <1>5, Zenon
  <2>1. \A i \in 1..8 : chain[i] = OK
    BY <2>0, FirstRejectionOutcome
  <2> QED BY <2>1
<1> HIDE DEF hash
<1>7. /\ s.context = expected /\ s.receipt_hash = hash
      /\ s.request_id = request_id /\ s.receipt_hash \notin rejected
  BY <1>6 DEF Reject, OK
<1> QED BY <1>5, <1>7 DEF hash

\* A receipt that is made internal is complete and unanimous.
LEMMA InternalizePassed ==
  ASSUME NEW s, InternalizeRejection(s) = OK
  PROVE  /\ \A id \in Components : \E i \in 1..Len(s.component_verdicts) :
              s.component_verdicts[i].component_id = id
         /\ \A i \in 1..Len(s.component_verdicts) :
              s.component_verdicts[i].decision = "ALLOW"
<1> DEFINE ids      == {s.component_verdicts[i].component_id :
                          i \in 1..Len(s.component_verdicts)}
           conflict == \E i \in 1..Len(s.component_verdicts) :
                         s.component_verdicts[i].decision # "ALLOW"
<1> DEFINE chain == <<
    Reject("EQC_INVALID_SHIELD_BUNDLE", ~s.handoff_allowed),
    Reject("EQC_CONFLICTING_EVIDENCE", conflict),
    Reject("EQC_INVALID_SHIELD_BUNDLE", ids # Components) >>
<1>1. Len(chain) = 3 /\ FirstRejection(chain) = OK
  BY DEF InternalizeRejection
<1>2. chain[2] = OK /\ chain[3] = OK
  <2> HIDE DEF chain
  <2>1. \A i \in 1..3 : chain[i] = OK
    BY <1>1, FirstRejectionOutcome
  <2> QED BY <2>1
<1> HIDE DEF conflict, ids
<1>3. Reject("EQC_CONFLICTING_EVIDENCE", conflict) = OK /\ ids = Components
  BY <1>2 DEF Reject, OK
<1>4. ~conflict
  BY <1>3, Zenon DEF Reject, OK
<1> QED BY <1>3, <1>4 DEF conflict, ids

\* A legacy bundle that is accepted is one, of this context.
LEMMA BundlePassed ==
  ASSUME NEW b, NEW expected, NEW policy, BundleRejection(b, expected, policy) = OK
  PROVE  b.kind = "bundle" /\ b.context = expected
<1>1. b.kind = "bundle"
  BY DEF BundleRejection, OK
<1> DEFINE failed == {SignalRejection(g, b, expected, policy) : g \in b.signals}
           signals == IF failed \subseteq {OK} THEN OK ELSE CHOOSE f \in failed : f # OK
           shape == \/ b.malformed
                    \/ b.context # expected
                    \/ b.expires_at < b.issued_at
                    \/ b.required_layers = {} \/ ~(b.required_layers \subseteq Components)
                    \/ b.signals = {}
           short == ~(b.required_layers \subseteq {g.layer : g \in b.signals})
<1> DEFINE chain == <<
         Reject("EQC_INVALID_SHIELD_BUNDLE", shape),
         signals,
         Reject("EQC_INVALID_SHIELD_BUNDLE", short),
         Reject("EQC_INVALID_SHIELD_BUNDLE", b.required_layers # Components) >>
<1>2. FirstRejection(chain) = OK
  BY <1>1, Zenon DEF BundleRejection
<1> HIDE DEF signals, shape, short
<1>3. Len(chain) = 4 /\ chain[1] = Reject("EQC_INVALID_SHIELD_BUNDLE", shape)
  OBVIOUS
<1> HIDE DEF chain
<1>4. \A i \in 1..4 : chain[i] = OK
  BY <1>2, <1>3, FirstRejectionOutcome
<1>5. Reject("EQC_INVALID_SHIELD_BUNDLE", shape) = OK
  BY <1>3, <1>4
<1>6. ~shape
  BY <1>5, Zenon DEF Reject, OK
<1>7. b.context = expected
  BY <1>6, Zenon DEF shape
<1> QED BY <1>1, <1>7

\* What a verifier callback that does not stop the call has come to.
LEMMA VerifierPassed ==
  ASSUME NEW outcome, NEW missing, NEW invalid, invalid # OK,
         VerifierRejection(outcome, missing, invalid) = OK
  PROVE  /\ outcome \notin {"adapter_error", "raises"}
         /\ outcome = "missing" => missing = OK
<1> DEFINE chain == <<
    Reject(missing, outcome = "missing"),
    Reject("VERIFIER_REASON", outcome = "adapter_error"),
    Reject(invalid, outcome = "raises") >>
<1>1. Len(chain) = 3 /\ FirstRejection(chain) = OK
  BY DEF VerifierRejection
<1>2. chain[1] = OK /\ chain[2] = OK /\ chain[3] = OK
  <2> HIDE DEF chain
  <2>1. \A i \in 1..3 : chain[i] = OK
    BY <1>1, FirstRejectionOutcome
  <2> QED BY <2>1
<1> QED BY <1>2 DEF Reject, OK

\* What a Q-ID stage that does not stop the call has established.
LEMMA QidStagePassed ==
  ASSUME NEW q, NEW outcome, NEW t, QidRejection(q, outcome, t) = OK
  PROVE  /\ SessionRejection(q, t) = OK
         /\ outcome \notin {"adapter_error", "raises"}
         /\ IsV2Login(q) => outcome # "missing"
<1> DEFINE verifier == VerifierRejection(outcome, OK, "EQC_INVALID_QID_PROOF")
           session  == SessionRejection(q, t)
           unheard  == IsV2Login(q) /\ outcome = "missing"
<1> DEFINE chain == << Reject("QID_AUTHENTICITY_VERIFIER_MISSING", unheard),
                       verifier, session >>
<1>1. Len(chain) = 3 /\ FirstRejection(chain) = OK
  BY DEF QidRejection
<1> HIDE DEF unheard, verifier, session
<1>2. chain[1] = OK /\ chain[2] = OK /\ chain[3] = OK
  <2> HIDE DEF chain
  <2>1. \A i \in 1..3 : chain[i] = OK
    BY <1>1, FirstRejectionOutcome
  <2> QED BY <2>1
<1>3. Reject("QID_AUTHENTICITY_VERIFIER_MISSING", unheard) = OK /\ verifier = OK /\ session = OK
  BY <1>2
<1>4. ~unheard
  BY <1>3, Zenon DEF Reject, OK
<1>5. outcome \notin {"adapter_error", "raises"}
  BY <1>3, VerifierPassed DEF verifier, OK
<1> QED BY <1>3, <1>4, <1>5 DEF unheard, session

\* What an oracle stage that does not stop the call has established.
LEMMA OracleStagePassed ==
  ASSUME NEW o, NEW outcome, NEW t, NEW expected, NEW policy,
         FirstRejection(<<
             VerifierRejection(outcome, "ORACLE_AUTHENTICITY_VERIFIER_MISSING",
                               "EQC_INVALID_RISK_REPORT"),
             OracleRejection(o, t, expected, policy) >>) = OK
  PROVE  /\ OracleRejection(o, t, expected, policy) = OK
         /\ outcome \notin {"adapter_error", "raises", "missing"}
<1> DEFINE verifier == VerifierRejection(outcome, "ORACLE_AUTHENTICITY_VERIFIER_MISSING",
                                         "EQC_INVALID_RISK_REPORT")
           report   == OracleRejection(o, t, expected, policy)
           chain    == << verifier, report >>
<1> HIDE DEF verifier, report
<1>1. Len(chain) = 2 /\ FirstRejection(chain) = OK
  BY DEF verifier, report
<1>2. verifier = OK /\ report = OK
  <2> HIDE DEF chain
  <2>1. \A i \in 1..2 : chain[i] = OK
    BY <1>1, FirstRejectionOutcome
  <2>2. chain[1] = verifier /\ chain[2] = report
    BY DEF chain
  <2> QED BY <2>1, <2>2
<1>3. outcome \notin {"adapter_error", "raises", "missing"}
  BY <1>2, VerifierPassed DEF verifier, OK
<1> QED BY <1>2, <1>3 DEF report

(***************************************************************************)
(* What the gates a call is past have established.                         *)
(***************************************************************************)

ScopeGate(c) == req[c].scope.kind # "malformed"
QidGate(c) ==
  /\ SessionRejection(req[c].qid, now[c]) = OK
  /\ IsV2Login(req[c].qid) => "qid" \in authentic[c]
ReplayProofGate(c) ==
  ReplayProofRequired(req[c]) =>
    ReplayProofRejection(req[c].qid, req[c].wallet, req[c].nonce) = OK
OracleGate(c) ==
  /\ OracleRejection(req[c].oracle, now[c], RequestContext(req[c]), deployment) = OK
  /\ deployment.require_authenticated => "oracle" \in authentic[c]
ReceiptGate(c) ==
  /\ ReceiptAccepted(ReceiptState(req[c].shield, RequestContext(req[c]),
                                  req[c].request_id, deployment.rejected_receipts))
  /\ InternalizeRejection(req[c].shield) = OK
  /\ deployment.require_authenticated => "shield" \in authentic[c]
ShieldGate(c) ==
  /\ deployment.receipt_boundary => ReceiptGate(c)
  /\ ~deployment.receipt_boundary =>
       BundleRejection(req[c].shield, RequestContext(req[c]), deployment) = OK
EqcGate(c)       == EqcRejection(req[c], now[c], deployment) = OK
AuthorityGate(c) == AuthorityBinds(req[c])
StoreGate(c)     == TvaRejection(req[c], now[c]) = OK
HumanGate(c)     == HumanConfirmed(req[c])

\* Call c is at one of these stages, or has entered the executor.
Past(c, stages) == pc[c] \in stages \/ effect[c]

\* The stages behind each gate.
BehindStore       == {"execute", "reply"}
BehindAuthority   == {"tva", "mark", "final"} \cup BehindStore
BehindEqc         == {"authority"} \cup BehindAuthority
BehindShield      == {"eqc"} \cup BehindEqc
BehindOracle      == {"shield"} \cup BehindShield
BehindReplayProof == {"oracle"} \cup BehindOracle
BehindQid         == {"replay_proof"} \cup BehindReplayProof
BehindScope       == {"qid"} \cup BehindQid

\* What holds of a call: it is past a gate only if the gate has passed it, under
\* the time and the policy the call is still about.
PassedBy(c) ==
  /\ effect[c] => pc[c] \in {"reply", "done", "lost"}
  /\ pc[c] = "reply" => effect[c]
  /\ Past(c, BehindScope) => ScopeGate(c)
  /\ Past(c, BehindQid) => QidGate(c)
  /\ Past(c, BehindReplayProof) => ReplayProofGate(c)
  /\ Past(c, BehindOracle) => OracleGate(c)
  /\ Past(c, BehindShield) => ShieldGate(c)
  /\ Past(c, BehindEqc) => EqcGate(c)
  /\ Past(c, BehindAuthority) => AuthorityGate(c)
  /\ Past(c, BehindStore) => StoreGate(c) /\ HumanGate(c) /\ consumed[c]
  /\ pc[c] = "mark" => StoreGate(c)
  /\ pc[c] \in EarlyStages \cup {"new", "tva", "mark"} => replay_reason[c] = OK
  /\ pc[c] = "final" /\ replay_reason[c] = OK => StoreGate(c) /\ consumed[c]

\* The inductive invariant.
GatesPassed == \A c \in Calls : PassedBy(c)

(***************************************************************************)
(* What a stage does to its call: it answers, or passes it on with what    *)
(* its gate has established.                                               *)
(***************************************************************************)

Passes(c, from, to) ==
  /\ pc[c] = from
  /\ pc' = [pc EXCEPT ![c] = to]
  /\ resp' = resp

\* The evidence a stage may report valid: what the stages before it accepted.
Reported(stage) ==
  CASE stage = "oracle" -> {"qid"}
    [] stage = "shield" -> {"qid", "oracle"}
    [] stage \in {"eqc", "authority", "final"} -> EvidenceKinds
    [] OTHER -> {}

\* A response that is no approval and reports no more than that.
Denies(response, r, valid) ==
  /\ response.status # "allow"
  /\ response.valid \subseteq valid
  /\ response.mode = "full" => ProtectedRequested(r)

Answers(c) ==
  \E response : Return(c, response) /\ Denies(response, req[c], Reported(pc[c]))

EarlyOutcome(c) ==
  \/ Answers(c)
  \/ Passes(c, "parse", "posture")
  \/ Passes(c, "posture", "qid") /\ ScopeGate(c)'
  \/ Passes(c, "qid", "replay_proof") /\ QidGate(c)'
  \/ Passes(c, "replay_proof", "oracle") /\ ReplayProofGate(c)'
  \/ Passes(c, "oracle", "shield") /\ OracleGate(c)'
  \/ Passes(c, "shield", "eqc") /\ ShieldGate(c)'
  \/ Passes(c, "eqc", "authority") /\ EqcGate(c)'
  \/ Passes(c, "authority", "tva") /\ AuthorityGate(c)'

\* What may be reported where.
LEMMA ReportedAt ==
  /\ {"qid"} \subseteq Reported("oracle")
  /\ {"qid", "oracle"} \subseteq Reported("shield")
  /\ EvidenceKinds \subseteq Reported("eqc")
  /\ EvidenceKinds \subseteq Reported("authority")
  /\ EvidenceKinds \subseteq Reported("final")
BY DEF Reported

\* No response the function can build but AllowResponse is an approval.
LEMMA Denials ==
  ASSUME NEW r, NEW more
  PROVE  /\ \A reason : Denies(OnAdapterError(reason), r, more)
         /\ \A reason : Denies(OnTVAError(reason), r, more)
         /\ \A reason : Denies(OnEnvelopeError(reason), r, more)
         /\ Denies(OnException, r, more)
         /\ \A class : Denies(OnExecutorError(class), r, more)
         /\ Denies(PostureDenied(r), r, more)
         /\ \A input, valid, allowed, nonce_consumed : valid \subseteq more =>
              Denies(EngineDenied(r, input, valid, allowed, nonce_consumed), r, more)
         /\ \A input, allowed, nonce_consumed :
              Denies(EngineDenied(r, input, {}, allowed, nonce_consumed), r, more)
<1>1. /\ \A reason : Denies(OnAdapterError(reason), r, more)
      /\ \A reason : Denies(OnTVAError(reason), r, more)
      /\ \A reason : Denies(OnEnvelopeError(reason), r, more)
      /\ Denies(OnException, r, more)
      /\ Denies(PostureDenied(r), r, more)
  BY DEF Denies, Response, OnAdapterError, OnTVAError, OnEnvelopeError, OnException,
         PostureDenied
<1>2. \A class : Denies(OnExecutorError(class), r, more)
  BY <1>1, Zenon DEF OnExecutorError
<1>3. ASSUME NEW input, NEW valid, NEW allowed, NEW nonce_consumed, valid \subseteq more
      PROVE  Denies(EngineDenied(r, input, valid, allowed, nonce_consumed), r, more)
  <2> DEFINE mode == ProtectionMode(ProtectedRequested(r), valid)
  <2>1. mode = "full" => ProtectedRequested(r)
    BY DEF ProtectionMode
  <2> DEFINE response == EngineDenied(r, input, valid, allowed, nonce_consumed)
  <2>2. response.status = "deny" /\ response.valid = valid /\ response.mode = mode
    <3> HIDE DEF mode
    <3> QED BY DEF EngineDenied, mode
  <2> QED BY <1>3, <2>1, <2>2 DEF Denies
<1>4. {} \subseteq more
  OBVIOUS
<1> QED BY <1>1, <1>2, <1>3, <1>4, Zenon

\* A stage that decides passes its call on without an objection, or answers with
\* its denial.
LEMMA DecideOutcome ==
  ASSUME NEW c, NEW rejection, NEW from, NEW to, NEW response, pc[c] = from,
         Decide(c, rejection, to, response),
         Denies(response, req[c], Reported(pc[c]))
  PROVE  Answers(c) \/ (Passes(c, from, to) /\ rejection = OK)
BY Zenon DEF Decide, Advance, Return, Answers, Passes

\* The outcome of a callback of a verifier that has to be asked.
LEMMA Asked ==
  ASSUME NEW injected, NEW outcome \in Outcomes(injected),
         outcome \notin {"adapter_error", "raises", "missing"}
  PROVE  outcome = "accepts"
BY DEF Outcomes

\* Every stage in front of the enforcement gate answers, or has established what
\* its gate is for.
LEMMA EarlyStepOutcome ==
  ASSUME NEW c \in Calls, TypeOK, EarlyStep(c)
  PROVE  EarlyOutcome(c)
<1> DEFINE r == req[c]
<1>0. req' = req /\ now' = now /\ deployment' = deployment
  BY EarlyStepShape DEF CallFrame
<1>1. CASE ParseEnvelope(c)
  <2> DEFINE rejection == EnvelopeRejection(req[c], now[c])
             response  == OnEnvelopeError(EnvelopeRejection(req[c], now[c]))
  <2>1. pc[c] = "parse" /\ Decide(c, rejection, "posture", response)
    BY <1>1 DEF ParseEnvelope
  <2>2. Denies(response, req[c], Reported(pc[c]))
    BY Denials, Zenon
  <2> HIDE DEF rejection, response
  <2> QED BY <2>1, <2>2, DecideOutcome, Zenon DEF EarlyOutcome
<1>2. CASE CheckPosture(c)
  <2>1. pc[c] = "posture"
    BY <1>2 DEF CheckPosture
  <2>2. \/ \E reason : Return(c, OnTVAError(reason))
        \/ Return(c, OnException)
        \/ /\ ScopeRejection(r) = OK
           /\ Decide(c, LatchRejection(r), "qid", PostureDenied(r))
    BY <1>2, Zenon DEF CheckPosture
  <2>3. /\ \A reason : Denies(OnTVAError(reason), r, Reported(pc[c]))
        /\ Denies(OnException, r, Reported(pc[c]))
        /\ Denies(PostureDenied(r), r, Reported(pc[c]))
    BY Denials, Zenon
  <2>4. CASE ScopeRejection(r) = OK /\ Decide(c, LatchRejection(r), "qid", PostureDenied(r))
    <3>1. Answers(c) \/ Passes(c, "posture", "qid")
      BY <2>1, <2>3, <2>4, DecideOutcome, Zenon
    <3>2. ScopeGate(c)'
      BY <1>0, <2>4 DEF ScopeGate, ScopeRejection, Reject, OK
    <3> QED BY <3>1, <3>2 DEF EarlyOutcome
  <2> QED BY <2>2, <2>3, <2>4, Zenon DEF EarlyOutcome, Answers
<1>3. CASE VerifyQid(c)
  <2>1. PICK outcome \in Outcomes(deployment.qid_verifier) :
          LET rejection == QidRejection(req[c].qid, outcome, now[c])
          IN  /\ Decide(c, rejection, "replay_proof",
                        EngineDenied(req[c], EvidenceRejected(req[c], "qid", rejection),
                                     {}, {}, FALSE))
              /\ Authenticate(c, "qid", outcome)
    BY <1>3, Zenon DEF VerifyQid
  <2> DEFINE rejection == QidRejection(req[c].qid, outcome, now[c])
             response  == EngineDenied(req[c], EvidenceRejected(req[c], "qid", rejection),
                                       {}, {}, FALSE)
  <2>2. pc[c] = "qid"
    BY <1>3 DEF VerifyQid
  <2>3. Denies(response, req[c], Reported(pc[c]))
    BY Denials, Zenon
  <2>4. Decide(c, rejection, "replay_proof", response)
    BY <2>1, Zenon
  <2>5. Answers(c) \/ (Passes(c, "qid", "replay_proof") /\ rejection = OK)
    <3> HIDE DEF rejection, response
    <3> QED BY <2>2, <2>3, <2>4, DecideOutcome
  <2>6. ASSUME rejection = OK PROVE QidGate(c)'
    <3>1. /\ SessionRejection(r.qid, now[c]) = OK
          /\ outcome \notin {"adapter_error", "raises"}
          /\ IsV2Login(r.qid) => outcome # "missing"
      BY <2>6, QidStagePassed, Zenon
    <3>2. IsV2Login(r.qid) => "qid" \in authentic'[c]
      <4>1. IsV2Login(r.qid) => outcome = "accepts"
        BY <3>1, Asked
      <4>2. outcome = "accepts" => authentic' = [authentic EXCEPT ![c] = @ \cup {"qid"}]
        BY <2>1, Zenon DEF Authenticate
      <4>3. authentic \in [Calls -> SUBSET EvidenceKinds]
        BY DEF TypeOK
      <4>4. outcome = "accepts" => "qid" \in authentic'[c]
        BY <4>2, <4>3
      <4> QED BY <4>1, <4>4
    <3> QED BY <1>0, <3>1, <3>2 DEF QidGate
  <2> QED BY <2>5, <2>6 DEF EarlyOutcome
<1>4. CASE VerifyReplayProof(c)
  <2> DEFINE rejection == IF ReplayProofRequired(req[c])
                          THEN ReplayProofRejection(req[c].qid, req[c].wallet,
                                                    req[c].nonce) ELSE OK
             response  == EngineDenied(req[c], ReplayProofRejected(req[c], rejection),
                                       {}, {}, FALSE)
  <2>1. pc[c] = "replay_proof" /\ Decide(c, rejection, "oracle", response)
    BY <1>4 DEF VerifyReplayProof
  <2>2. Denies(response, req[c], Reported(pc[c]))
    BY Denials, Zenon
  <2>3. Answers(c) \/ (Passes(c, "replay_proof", "oracle") /\ rejection = OK)
    <3> HIDE DEF rejection, response
    <3> QED BY <2>1, <2>2, DecideOutcome
  <2>4. ASSUME rejection = OK PROVE ReplayProofGate(c)'
    <3>1. ReplayProofRequired(r) => ReplayProofRejection(r.qid, r.wallet, r.nonce) = OK
      BY <2>4, Zenon
    <3>2. ReplayProofRequired(r)' = ReplayProofRequired(r)
      BY <1>0 DEF ReplayProofRequired
    <3> QED BY <1>0, <3>1, <3>2, Zenon DEF ReplayProofGate
  <2> QED BY <2>3, <2>4 DEF EarlyOutcome
<1>5. CASE VerifyOracle(c)
  <2> DEFINE Rejection(outcome) ==
               FirstRejection(<<
                 VerifierRejection(outcome, "ORACLE_AUTHENTICITY_VERIFIER_MISSING",
                                   "EQC_INVALID_RISK_REPORT"),
                 OracleRejection(req[c].oracle, now[c], RequestContext(req[c]),
                                 deployment) >>)
             Denial(outcome) ==
               EngineDenied(req[c], EvidenceRejected(req[c], "adaptive_core",
                                                     Rejection(outcome)),
                            {"qid"}, {}, FALSE)
  <2>1. PICK outcome \in LatchedOutcomes(deployment.oracle_verifier) :
          /\ Decide(c, Rejection(outcome), "shield", Denial(outcome))
          /\ Authenticate(c, "oracle", outcome)
    BY <1>5, Zenon DEF VerifyOracle
  <2>2. pc[c] = "oracle"
    BY <1>5 DEF VerifyOracle
  <2>3. Denies(Denial(outcome), req[c], Reported(pc[c]))
    <3>1. {"qid"} \subseteq Reported(pc[c])
      BY <2>2, ReportedAt
    <3> QED BY <3>1, Denials, Zenon
  <2>4. Answers(c) \/ (Passes(c, "oracle", "shield") /\ Rejection(outcome) = OK)
    <3> HIDE DEF Rejection, Denial
    <3> QED BY <2>1, <2>2, <2>3, DecideOutcome
  <2>5. ASSUME Rejection(outcome) = OK PROVE OracleGate(c)'
    <3>1. /\ OracleRejection(r.oracle, now[c], RequestContext(r), deployment) = OK
          /\ outcome \notin {"adapter_error", "raises", "missing"}
      <4> SUFFICES ASSUME TRUE
                   PROVE /\ OracleRejection(req[c].oracle, now[c], RequestContext(req[c]),
                                            deployment) = OK
                         /\ outcome \notin {"adapter_error", "raises", "missing"}
        OBVIOUS
      <4> QED BY <2>5, OracleStagePassed
    <3>2. deployment.require_authenticated => "oracle" \in authentic'[c]
      <4>1. deployment.require_authenticated => outcome = "accepts"
        BY <2>1, <3>1, Asked DEF LatchedOutcomes
      <4>2. outcome = "accepts" => authentic' = [authentic EXCEPT ![c] = @ \cup {"oracle"}]
        BY <2>1, Zenon DEF Authenticate
      <4>3. authentic \in [Calls -> SUBSET EvidenceKinds]
        BY DEF TypeOK
      <4>4. outcome = "accepts" => "oracle" \in authentic'[c]
        BY <4>2, <4>3
      <4> QED BY <4>1, <4>4
    <3> QED BY <1>0, <3>1, <3>2 DEF OracleGate
  <2> QED BY <2>4, <2>5 DEF EarlyOutcome
<1>6. CASE VerifyShieldReceipt(c)
  <2> DEFINE Raised(outcome) ==
               VerifierRejection(outcome, "SHIELD_AUTHENTICITY_VERIFIER_MISSING",
                                 "EQC_INVALID_SHIELD_BUNDLE")
             state  == ReceiptState(req[c].shield, RequestContext(req[c]),
                                    req[c].request_id, deployment.rejected_receipts)
             denied == EvidenceRejected(req[c], "shield", ReceiptReason(state))
             denial == EngineDenied(req[c], denied, {"qid", "oracle"}, {}, FALSE)
             second == InternalizeRejection(req[c].shield)
  <2>1. PICK outcome \in LatchedOutcomes(deployment.shield_verifier) :
          /\ IF Raised(outcome) # OK THEN Return(c, OnAdapterError(Raised(outcome)))
             ELSE IF ~ReceiptAccepted(state) THEN Return(c, denial)
             ELSE Decide(c, second, "eqc", OnAdapterError(second))
          /\ Authenticate(c, "shield", outcome)
    BY <1>6, Zenon DEF VerifyShieldReceipt
  <2>2. pc[c] = "shield" /\ deployment.receipt_boundary
    BY <1>6 DEF VerifyShieldReceipt
  <2>3. Denies(denial, req[c], Reported(pc[c]))
    <3>1. {"qid", "oracle"} \subseteq Reported(pc[c])
      BY <2>2, ReportedAt
    <3> QED BY <3>1, Denials, Zenon
  <2>4. /\ Denies(OnAdapterError(Raised(outcome)), req[c], Reported(pc[c]))
        /\ Denies(OnAdapterError(second), req[c], Reported(pc[c]))
    BY Denials, Zenon
  <2>5. CASE Raised(outcome) # OK \/ ~ReceiptAccepted(state)
    <3> HIDE DEF Raised, state, denied, denial, second
    <3> QED BY <2>1, <2>3, <2>4, <2>5, Zenon DEF EarlyOutcome, Answers
  <2>6. CASE Raised(outcome) = OK /\ ReceiptAccepted(state)
    <3>1. Answers(c) \/ (Passes(c, "shield", "eqc") /\ second = OK)
      <4> HIDE DEF Raised, state, denied, denial, second
      <4>1. Decide(c, second, "eqc", OnAdapterError(second))
        BY <2>1, <2>6, Zenon
      <4> QED BY <2>2, <2>4, <4>1, DecideOutcome
    <3>2. deployment.require_authenticated => "shield" \in authentic'[c]
      <4>1. outcome \notin {"adapter_error", "raises", "missing"}
        BY <2>6, VerifierPassed DEF OK
      <4>2. deployment.require_authenticated => outcome = "accepts"
        BY <2>1, <4>1, Asked DEF LatchedOutcomes
      <4>3. outcome = "accepts" => authentic' = [authentic EXCEPT ![c] = @ \cup {"shield"}]
        BY <2>1, Zenon DEF Authenticate
      <4>4. authentic \in [Calls -> SUBSET EvidenceKinds]
        BY DEF TypeOK
      <4>5. outcome = "accepts" => "shield" \in authentic'[c]
        BY <4>3, <4>4
      <4> QED BY <4>2, <4>5
    <3>3. ASSUME second = OK PROVE ShieldGate(c)'
      <4>1. ReceiptGate(c)'
        BY <1>0, <2>6, <3>2, <3>3 DEF ReceiptGate
      <4> QED BY <1>0, <2>2, <4>1 DEF ShieldGate
    <3> QED BY <3>1, <3>3 DEF EarlyOutcome
  <2> QED BY <2>5, <2>6
<1>7. CASE ParseShieldBundle(c)
  <2> DEFINE rejection == BundleRejection(req[c].shield, RequestContext(req[c]), deployment)
             response  == EngineDenied(req[c], EvidenceRejected(req[c], "shield", rejection),
                                       {"qid", "oracle"}, {}, FALSE)
  <2>1. /\ pc[c] = "shield" /\ ~deployment.receipt_boundary
        /\ Decide(c, rejection, "eqc", response)
    BY <1>7 DEF ParseShieldBundle
  <2>2. Denies(response, req[c], Reported(pc[c]))
    <3>1. {"qid", "oracle"} \subseteq Reported(pc[c])
      BY <2>1, ReportedAt
    <3> QED BY <3>1, Denials, Zenon
  <2>3. Answers(c) \/ (Passes(c, "shield", "eqc") /\ rejection = OK)
    <3> HIDE DEF rejection, response
    <3> QED BY <2>1, <2>2, DecideOutcome
  <2>4. ASSUME rejection = OK PROVE ShieldGate(c)'
    BY <1>0, <2>1, <2>4, Zenon DEF ShieldGate
  <2> QED BY <2>3, <2>4 DEF EarlyOutcome
<1>8. CASE EvaluateEqc(c)
  <2> DEFINE rejection == EqcRejection(req[c], now[c], deployment)
             response  == EngineDenied(req[c], LocalGateFailed(req[c], "wallet_policy", rejection),
                                       EvidenceKinds, {}, FALSE)
  <2>1. pc[c] = "eqc" /\ Decide(c, rejection, "authority", response)
    BY <1>8 DEF EvaluateEqc
  <2>2. Denies(response, req[c], Reported(pc[c]))
    <3>1. EvidenceKinds \subseteq Reported(pc[c])
      BY <2>1, ReportedAt
    <3> QED BY <3>1, Denials, Zenon
  <2>3. Answers(c) \/ (Passes(c, "eqc", "authority") /\ rejection = OK)
    <3> HIDE DEF rejection, response
    <3> QED BY <2>1, <2>2, DecideOutcome
  <2>4. ASSUME rejection = OK PROVE EqcGate(c)'
    BY <1>0, <2>4, Zenon DEF EqcGate
  <2> QED BY <2>3, <2>4 DEF EarlyOutcome
<1>9. CASE ExtractAuthority(c)
  <2> DEFINE rejection == Reject("DENY_AUTHORITY_INVALID", ~AuthorityBinds(req[c]))
             response  == EngineDenied(req[c], EvidenceRejected(req[c], "wsqk_v2", rejection),
                                       EvidenceKinds, {"eqc"}, FALSE)
  <2>1. pc[c] = "authority" /\ Decide(c, rejection, "tva", response)
    BY <1>9 DEF ExtractAuthority
  <2>2. Denies(response, req[c], Reported(pc[c]))
    <3>1. EvidenceKinds \subseteq Reported(pc[c])
      BY <2>1, ReportedAt
    <3> QED BY <3>1, Denials, Zenon
  <2>3. Answers(c) \/ (Passes(c, "authority", "tva") /\ rejection = OK)
    <3> HIDE DEF rejection, response
    <3> QED BY <2>1, <2>2, DecideOutcome
  <2>4. ASSUME rejection = OK PROVE AuthorityGate(c)'
    <3>1. AuthorityBinds(r)
      BY <2>4, Zenon DEF Reject, OK
    <3> QED BY <1>0, <3>1, Zenon DEF AuthorityGate
  <2> QED BY <2>3, <2>4 DEF EarlyOutcome
<1> QED BY <1>1, <1>2, <1>3, <1>4, <1>5, <1>6, <1>7, <1>8, <1>9, Zenon DEF EarlyStep

(***************************************************************************)
(* The invariant is inductive.                                             *)
(***************************************************************************)

\* What a gate has established stands: request, time and policy of a call are
\* fixed, and an acceptance is not taken back.
Kept(c) ==
  /\ req'[c] = req[c] /\ now'[c] = now[c] /\ deployment' = deployment
  /\ authentic[c] \subseteq authentic'[c]

LEMMA GatesKept ==
  ASSUME NEW c \in Calls, Kept(c)
  PROVE  /\ ScopeGate(c) => ScopeGate(c)'
         /\ QidGate(c) => QidGate(c)'
         /\ ReplayProofGate(c) => ReplayProofGate(c)'
         /\ OracleGate(c) => OracleGate(c)'
         /\ ShieldGate(c) => ShieldGate(c)'
         /\ EqcGate(c) => EqcGate(c)'
         /\ AuthorityGate(c) => AuthorityGate(c)'
         /\ StoreGate(c) => StoreGate(c)'
         /\ HumanGate(c) => HumanGate(c)'
<1>1. ScopeGate(c) => ScopeGate(c)'
  BY DEF Kept, ScopeGate
<1>2. QidGate(c) => QidGate(c)'
  BY DEF Kept, QidGate
<1>3. ReplayProofGate(c) => ReplayProofGate(c)'
  BY DEF Kept, ReplayProofGate, ReplayProofRequired
<1>4. OracleGate(c) => OracleGate(c)'
  BY DEF Kept, OracleGate
<1>5. ShieldGate(c) => ShieldGate(c)'
  BY DEF Kept, ShieldGate, ReceiptGate
<1>6. EqcGate(c) => EqcGate(c)'
  BY DEF Kept, EqcGate
<1>7. /\ AuthorityGate(c) => AuthorityGate(c)'
      /\ StoreGate(c) => StoreGate(c)'
      /\ HumanGate(c) => HumanGate(c)'
  BY DEF Kept, AuthorityGate, StoreGate, HumanGate
<1> QED BY <1>1, <1>2, <1>3, <1>4, <1>5, <1>6, <1>7

\* A call that does not move.
LEMMA CallKept ==
  ASSUME NEW c \in Calls, Kept(c), PassedBy(c), pc'[c] = pc[c],
         replay_reason'[c] = replay_reason[c], consumed'[c] = consumed[c],
         effect'[c] = effect[c]
  PROVE  PassedBy(c)'
BY GatesKept DEF PassedBy, Past

\* A call that is answered or lost.
LEMMA CallEnded ==
  ASSUME NEW c \in Calls, Kept(c), PassedBy(c), pc'[c] \in {"done", "lost"},
         consumed'[c] = consumed[c], effect'[c] = effect[c]
  PROVE  PassedBy(c)'
BY GatesKept DEF PassedBy, Past, BehindScope, BehindQid, BehindReplayProof, BehindOracle,
   BehindShield, BehindEqc, BehindAuthority, BehindStore, EarlyStages

\* The stages in front of the enforcement gate preserve it for their call.
LEMMA EarlyStepPassed ==
  ASSUME NEW c \in Calls, TypeOK, PassedBy(c), EarlyStep(c)
  PROVE  PassedBy(c)'
<1>1. EarlyOutcome(c)
  BY EarlyStepOutcome
<1>2. /\ Kept(c) /\ replay_reason' = replay_reason /\ consumed' = consumed
      /\ effect' = effect
  <2>1. /\ CallFrame
        /\ UNCHANGED <<used, replay_reason, consumed, effect>>
        /\ \/ UNCHANGED authentic
           \/ \E kind \in EvidenceKinds :
                authentic' = [authentic EXCEPT ![c] = @ \cup {kind}]
    BY EarlyStepShape
  <2> QED BY <2>1 DEF CallFrame, Kept, TypeOK
<1>3. CASE Answers(c)
  <2>1. pc'[c] = "done"
    BY <1>3 DEF Answers, Return, TypeOK
  <2> QED BY <1>2, <2>1, CallEnded
<1>4. CASE ~Answers(c)
  <2>1. \A from, to : Passes(c, from, to) => pc[c] = from /\ pc'[c] = to
    BY DEF Passes, TypeOK
  <2>2. ~effect[c] /\ replay_reason[c] = OK
    <3>1. pc[c] \in EarlyStages
      BY EarlyStepShape
    <3> QED BY <3>1 DEF PassedBy, EarlyStages
  <2> QED BY <1>1, <1>2, <1>4, <2>1, <2>2, GatesKept
          DEF EarlyOutcome, PassedBy, Past, BehindScope, BehindQid, BehindReplayProof,
              BehindOracle, BehindShield, BehindEqc, BehindAuthority, BehindStore, EarlyStages
<1> QED BY <1>3, <1>4

\* The final policy engine approves no input whose human gate has not passed.
LEMMA ApprovalPassedHuman ==
  ASSUME NEW r, NEW reason, Evaluate(FinalInput(r, reason)).state = ALLOW
  PROVE  HumanConfirmed(r)
<1> DEFINE input     == FinalInput(r, reason)
           objection == Reject("DENY_AUTHORITY_INSUFFICIENT", ~HumanConfirmed(r))
<1>1. 8 \in 1..Len(Gates) /\ Gates[8] = "human"
  BY LockedOrder
<1>2. GateAccepted(input, "human")
  BY <1>1, EngineApprovesUnanimously, Zenon
<1>3. "human" \notin Range(EvidenceGates) /\ "human" \in Range(LocalGates)
  BY LockedOrder
<1>4. input.local["human"].passed
  BY <1>2, <1>3, Zenon DEF GateAccepted
<1>5. input.local["human"] = LocalGate("human", objection)
  BY <1>3 DEF FinalInput, AllAccepted
<1>6. objection = OK
  <2>1. \A x : LocalGate("human", x).passed = (x = OK)
    BY DEF LocalGate
  <2> HIDE DEF objection, input
  <2> QED BY <1>4, <1>5, <2>1
<1> QED BY <1>6, Zenon DEF Reject, OK

\* A step of a call keeps what the call is about, and only ever adds acceptances.
LEMMA CallStepKeeps ==
  ASSUME NEW c \in Calls, TypeOK, CallStep(c)
  PROVE  /\ \A d \in Calls : Kept(d)
         /\ \A d \in Calls \ {c} :
              /\ pc'[d] = pc[d] /\ resp'[d] = resp[d]
              /\ replay_reason'[d] = replay_reason[d]
              /\ consumed'[d] = consumed[d] /\ effect'[d] = effect[d]
<1>1. StepShape(c)
  BY CallStepShape
<1>2. \A d \in Calls : Kept(d)
  BY <1>1 DEF StepShape, CallFrame, Kept, TypeOK
<1>3. \A d \in Calls \ {c} :
        /\ replay_reason'[d] = replay_reason[d]
        /\ consumed'[d] = consumed[d] /\ effect'[d] = effect[d]
  BY <1>1 DEF StepShape, TypeOK
<1>4. \A d \in Calls \ {c} : pc'[d] = pc[d] /\ resp'[d] = resp[d]
  BY <1>1 DEF StepShape, Moves, Advance, Return, TypeOK
<1> QED BY <1>2, <1>3, <1>4

\* The enforcement gate, the nonce store, the final decision and the executor
\* preserve it for their call.
LEMMA LateStepPassed ==
  ASSUME NEW c \in Calls, TypeOK, PassedBy(c), LateStep(c), Kept(c)
  PROVE  PassedBy(c)'
<1> USE GatesKept
<1>1. ASSUME NEW reason, reason # OK, pc[c] = "tva", DenyTva(c, reason)
      PROVE  PassedBy(c)'
  <2>1. /\ pc'[c] = "final" /\ replay_reason'[c] = reason
        /\ consumed' = consumed /\ effect' = effect
    BY <1>1 DEF DenyTva, Advance, TypeOK
  <2> QED BY <1>1, <2>1
          DEF PassedBy, Past, BehindScope, BehindQid, BehindReplayProof, BehindOracle,
              BehindShield, BehindEqc, BehindAuthority, BehindStore, EarlyStages
<1>2. CASE FailTva(c)
  BY <1>1, <1>2 DEF FailTva
<1>3. CASE RejectReplay(c)
  BY <1>1, <1>3 DEF RejectReplay, ReachesStore, OK
<1>4. ASSUME pc[c] \in {"tva", "mark"}, StoreGate(c), MarkAccepted(c)
      PROVE  PassedBy(c)'
  <2>1. /\ pc'[c] = "final" /\ replay_reason' = replay_reason
        /\ consumed'[c] /\ effect' = effect
    BY <1>4 DEF MarkAccepted, Advance, TypeOK
  <2> QED BY <1>4, <2>1
          DEF PassedBy, Past, BehindScope, BehindQid, BehindReplayProof, BehindOracle,
              BehindShield, BehindEqc, BehindAuthority, BehindStore, EarlyStages
<1>5. CASE CheckAndMark(c)
  BY <1>4, <1>5 DEF CheckAndMark, ReachesStore, StoreGate
<1>6. CASE MarkNonce(c)
  BY <1>4, <1>6 DEF MarkNonce, PassedBy
<1>7. CASE LookUpNonce(c)
  <2>1. /\ pc[c] = "tva" /\ StoreGate(c)
        /\ pc'[c] = "mark" /\ replay_reason' = replay_reason
        /\ consumed' = consumed /\ effect' = effect
    BY <1>7 DEF LookUpNonce, ReachesStore, StoreGate, Advance, TypeOK, callVars
  <2> QED BY <2>1
          DEF PassedBy, Past, BehindScope, BehindQid, BehindReplayProof, BehindOracle,
              BehindShield, BehindEqc, BehindAuthority, BehindStore, EarlyStages
<1>8. CASE StoreRaises(c)
  <2>1. pc'[c] = "done" /\ consumed' = consumed /\ effect' = effect
    BY <1>8 DEF StoreRaises, Return, TypeOK, callVars
  <2> QED BY <2>1, CallEnded
<1>9. CASE DecideFinal(c)
  <2> DEFINE approved == Evaluate(FinalInput(req[c], replay_reason[c])).state = ALLOW
  <2>1. /\ pc[c] = "final" /\ replay_reason' = replay_reason
        /\ consumed' = consumed /\ effect' = effect
    BY <1>9 DEF DecideFinal, callVars
  <2>2. CASE approved
    <3>1. replay_reason[c] = OK /\ HumanGate(c)
      BY <2>2, ApprovalPassedReplay, ApprovalPassedHuman, Zenon DEF HumanGate
    <3>2. pc' = [pc EXCEPT ![c] = "execute"]
      BY <1>9, <2>2, Zenon DEF DecideFinal, Advance
    <3>3. pc'[c] = "execute"
      BY <3>2 DEF TypeOK
    <3> HIDE DEF approved
    <3> QED BY <2>1, <3>1, <3>3
            DEF PassedBy, Past, BehindScope, BehindQid, BehindReplayProof, BehindOracle,
                BehindShield, BehindEqc, BehindAuthority, BehindStore, EarlyStages
  <2>3. CASE ~approved
    <3>1. pc' = [pc EXCEPT ![c] = "done"]
      BY <1>9, <2>3, Zenon DEF DecideFinal, Return
    <3>2. pc'[c] = "done"
      BY <3>1 DEF TypeOK
    <3> QED BY <2>1, <3>2, CallEnded
  <2> QED BY <2>2, <2>3
<1>10. CASE Execute(c) \/ ExecutorRaises(c)
  <2>1. /\ pc[c] = "execute" /\ pc'[c] \in {"reply", "done"}
        /\ consumed' = consumed /\ effect'[c]
    BY <1>10 DEF Execute, ExecutorRaises, Advance, Return, TypeOK
  <2> QED BY <2>1
          DEF PassedBy, Past, BehindScope, BehindQid, BehindReplayProof, BehindOracle,
              BehindShield, BehindEqc, BehindAuthority, BehindStore, EarlyStages
<1>11. CASE Reply(c)
  <2>1. pc'[c] = "done" /\ consumed' = consumed /\ effect' = effect
    BY <1>11 DEF Reply, Return, TypeOK, callVars
  <2> QED BY <2>1, CallEnded
<1> QED BY <1>2, <1>3, <1>5, <1>6, <1>7, <1>8, <1>9, <1>10, <1>11 DEF LateStep

\* Init establishes the invariant.
LEMMA GatesInit == Init => GatesPassed
BY DEF Init, GatesPassed, PassedBy, Past, BehindScope, BehindQid, BehindReplayProof,
   BehindOracle, BehindShield, BehindEqc, BehindAuthority, BehindStore, EarlyStages

\* Every step preserves it.
LEMMA GatesStep == TypeOK /\ GatesPassed /\ [Next]_vars => GatesPassed'
<1> SUFFICES ASSUME TypeOK, GatesPassed, [Next]_vars PROVE GatesPassed'
  OBVIOUS
<1>1. ASSUME NEW c \in Calls, Submit(c) PROVE GatesPassed'
  <2>1. PICK r \in Requests : req' = [req EXCEPT ![c] = r]
    BY <1>1 DEF Submit
  <2>2. /\ pc[c] = "new" /\ pc' = [pc EXCEPT ![c] = "parse"]
        /\ now' = [now EXCEPT ![c] = clock]
        /\ UNCHANGED <<deployment, authentic, replay_reason, consumed, effect>>
    BY <1>1 DEF Submit, Advance, hostVars
  <2>3. PassedBy(c)'
    <3>1. /\ pc'[c] = "parse" /\ replay_reason'[c] = replay_reason[c]
          /\ effect'[c] = effect[c]
      BY <2>2 DEF TypeOK
    <3>2. PassedBy(c)
      BY DEF GatesPassed
    <3> QED BY <2>2, <3>1, <3>2
            DEF PassedBy, Past, BehindScope, BehindQid, BehindReplayProof, BehindOracle,
                BehindShield, BehindEqc, BehindAuthority, BehindStore, EarlyStages
  <2>4. ASSUME NEW d \in Calls \ {c} PROVE PassedBy(d)'
    <3>1. Kept(d) /\ pc'[d] = pc[d]
      BY <2>1, <2>2 DEF Kept, TypeOK
    <3>2. PassedBy(d)
      BY DEF GatesPassed
    <3> QED BY <2>2, <3>1, <3>2, CallKept
  <2> QED BY <2>3, <2>4 DEF GatesPassed
<1>2. ASSUME NEW c \in Calls, CallStep(c) PROVE GatesPassed'
  <2>1. EarlyStep(c) \/ LateStep(c)
    BY <1>2, Zenon DEF CallStep, StageStep, RaiseStep, EarlyStep, LateStep
  <2>2. PassedBy(c)'
    BY <1>2, <2>1, CallStepKeeps, EarlyStepPassed, LateStepPassed DEF GatesPassed
  <2>3. ASSUME NEW d \in Calls \ {c} PROVE PassedBy(d)'
    BY <1>2, CallStepKeeps, CallKept DEF GatesPassed
  <2> QED BY <2>2, <2>3 DEF GatesPassed
<1>3. CASE Crash
  <2>1. /\ pc' = [c \in Calls |-> IF InFlight(c) THEN "lost" ELSE pc[c]]
        /\ UNCHANGED <<deployment, callVars>>
    BY <1>3 DEF Crash
  <2>2. ASSUME NEW c \in Calls PROVE PassedBy(c)'
    <3>1. Kept(c) /\ PassedBy(c)
      BY <2>1 DEF Kept, callVars, GatesPassed
    <3>2. pc'[c] = "lost" \/ pc'[c] = pc[c]
      BY <2>1
    <3> QED BY <2>1, <3>1, <3>2, CallKept, CallEnded DEF callVars
  <2> QED BY <2>2 DEF GatesPassed
<1>4. ASSUME UNCHANGED <<deployment, pc, callVars>> PROVE GatesPassed'
  <2>1. \A c \in Calls : Kept(c)
    BY <1>4 DEF Kept, callVars
  <2> QED BY <1>4, <2>1, CallKept DEF GatesPassed, callVars
<1>5. CASE Tick
  BY <1>4, <1>5 DEF Tick
<1>6. CASE UNCHANGED vars
  BY <1>4, <1>6 DEF vars, hostVars
<1> QED BY <1>1, <1>2, <1>3, <1>5, <1>6 DEF Next

\* The invariant holds, over either store.
THEOREM GatesHold == Spec => [](TypeOK /\ GatesPassed)
BY TypeInit, TypeStep, GatesInit, GatesStep, PTL DEF Spec

(***************************************************************************)
(* What an execution presupposes.                                          *)
(***************************************************************************)

\* A call that has been made is about one of the requests, at a time on the clock.
LEMMA CallsAreRequests ==
  ASSUME NEW c \in Calls, TypeOK, pc[c] # "new"
  PROVE  req[c] \in Requests /\ now[c] \in Int /\ deployment \in Deployments
BY BoundsAssumption DEF TypeOK

\* A call that has entered the executor has passed every gate.
LEMMA EffectPassed ==
  ASSUME NEW c \in Calls, TypeOK, GatesPassed, effect[c]
  PROVE  /\ ScopeGate(c) /\ QidGate(c) /\ ReplayProofGate(c) /\ OracleGate(c)
         /\ ShieldGate(c) /\ EqcGate(c) /\ AuthorityGate(c) /\ StoreGate(c)
         /\ HumanGate(c) /\ consumed[c]
         /\ req[c] \in Requests /\ now[c] \in Int /\ deployment \in Deployments
<1>1. PassedBy(c)
  BY DEF GatesPassed
<1>2. pc[c] # "new"
  BY <1>1 DEF PassedBy
<1> QED BY <1>1, <1>2, CallsAreRequests DEF PassedBy, Past

\* Whatever skew a caller asks for, every window is open at the injected time when
\* the executor is entered.
THEOREM Fresh == Spec => []ExecutionIsFresh
<1>1. ASSUME TypeOK, GatesPassed PROVE ExecutionIsFresh
  <2> SUFFICES ASSUME NEW c \in Calls, effect[c]
               PROVE
                 /\ req[c].issued_at <= now[c] /\ now[c] <= req[c].expires_at
                 /\ deployment.receipt_boundary => now[c] < req[c].expires_at
                 /\ ~deployment.receipt_boundary
                      => req[c].shield.issued_at <= now[c] /\ now[c] < req[c].shield.expires_at
                 /\ req[c].qid.issued_at <= now[c] /\ now[c] < req[c].qid.expires_at
                 /\ req[c].oracle.issued_at <= now[c] /\ now[c] <= req[c].oracle.expires_at
                 /\ req[c].oracle.generated_at \in 1..now[c]
    BY DEF ExecutionIsFresh
  <2> DEFINE r == req[c]
             t == now[c]
  <2>1. /\ QidGate(c) /\ OracleGate(c) /\ ShieldGate(c) /\ EqcGate(c)
        /\ AuthorityGate(c) /\ StoreGate(c)
        /\ r \in Requests /\ t \in Int
    BY <1>1, EffectPassed
  <2>2. /\ r.issued_at \in Int /\ r.expires_at \in Int
        /\ r.qid.issued_at \in Int /\ r.qid.expires_at \in Int
        /\ r.oracle.issued_at \in Int /\ r.oracle.expires_at \in Int
        /\ r.oracle.generated_at \in Int
        /\ r.shield.kind = "bundle" =>
             r.shield.issued_at \in Int /\ r.shield.expires_at \in Int
    BY <2>1, RequestAssumption
  <2>3. r.issued_at <= t /\ t <= r.expires_at
    <3>1. ~(t < r.wsqk.issued_at) /\ ~(t > r.wsqk.expires_at)
      BY <2>1, TvaPassed DEF StoreGate
    <3>2. r.wsqk.issued_at = r.issued_at /\ r.wsqk.expires_at = r.expires_at
      BY <2>1 DEF AuthorityGate, AuthorityBinds
    <3> QED BY <2>1, <2>2, <3>1, <3>2
  <2>4. LET shield == ShieldEvidence(r, deployment)
        IN  ~ReportInvalid(r.oracle, t) /\ ~(t < shield.issued_at) /\ ~(t >= shield.expires_at)
    BY <2>1, EqcPassed, Zenon DEF EqcGate
  <2>5. deployment.receipt_boundary => t < r.expires_at
    BY <2>1, <2>2, <2>4 DEF ShieldEvidence
  <2>6. ~deployment.receipt_boundary => r.shield.issued_at <= t /\ t < r.shield.expires_at
    <3>1. ~deployment.receipt_boundary => r.shield.kind = "bundle"
      BY <2>1, BundlePassed DEF ShieldGate
    <3> QED BY <2>1, <2>2, <2>4, <3>1 DEF ShieldEvidence
  <2>7. r.qid.issued_at <= t /\ t < r.qid.expires_at
    BY <2>1, <2>2, SessionPassed DEF QidGate
  <2>8. r.oracle.issued_at <= t /\ t <= r.oracle.expires_at
    BY <2>1, <2>2, OraclePassed DEF OracleGate
  <2>9. r.oracle.generated_at \in 1..t
    BY <2>1, <2>2, <2>4 DEF ReportInvalid
  <2> QED BY <2>3, <2>5, <2>6, <2>7, <2>8, <2>9
<1> QED BY <1>1, GatesHold, PTL

\* The executor is entered for the one confirmed context that every evidence
\* source and the authority committed to, under names without padding.
THEOREM AboutOneContext == Spec => []ExecutionIsAboutOneContext
<1>1. ASSUME TypeOK, GatesPassed PROVE ExecutionIsAboutOneContext
  <2> SUFFICES ASSUME NEW c \in Calls, effect[c]
               PROVE
                 /\ req[c].ui_confirmed
                 /\ {req[c].qid.context, req[c].oracle.context, req[c].shield.context,
                     req[c].wsqk.context} = {ConfirmedContext(req[c])}
                 /\ req[c].wsqk.wallet = req[c].wallet /\ req[c].wsqk.action = req[c].action
                 /\ Strip(req[c].wallet) = req[c].wallet /\ req[c].wallet # Blank
                 /\ Strip(req[c].action) = req[c].action /\ req[c].action # Blank
    BY DEF ExecutionIsAboutOneContext
  <2> DEFINE r == req[c]
  <2>1. /\ OracleGate(c) /\ EqcGate(c) /\ AuthorityGate(c) /\ HumanGate(c)
        /\ r \in Requests
    BY <1>1, EffectPassed
  <2>2. r.ui_confirmed /\ r.fields_confirmed = TRUE
    BY <2>1, RequestAssumption DEF HumanGate, HumanConfirmed
  <2>3. RequestContext(r) = ConfirmedContext(r)
    BY <2>2 DEF RequestContext, ConfirmedContext
  <2>4. r.wsqk.wallet = r.wallet /\ r.wsqk.action = r.action /\ r.wsqk.context = RequestContext(r)
    BY <2>1 DEF AuthorityGate, AuthorityBinds
  <2>5. r.oracle.context = RequestContext(r)
    BY <2>1, OraclePassed DEF OracleGate
  <2>6. /\ Strip(r.wallet) # Blank /\ Strip(r.action) # Blank
        /\ r.qid.context = EqcContext(r) /\ r.oracle.context = EqcContext(r)
        /\ ShieldEvidence(r, deployment).context = EqcContext(r)
    BY <2>1, EqcPassed, Zenon DEF EqcGate
  <2>7. ShieldEvidence(r, deployment).context = r.shield.context
    BY DEF ShieldEvidence
  <2>8. Strip(r.wallet) = r.wallet /\ Strip(r.action) = r.action
    BY <2>5, <2>6 DEF EqcContext, RequestContext, ContextHash
  <2> HIDE DEF r
  <2>9. {r.qid.context, r.oracle.context, r.shield.context, r.wsqk.context}
          = {ConfirmedContext(r)}
    BY <2>3, <2>4, <2>5, <2>6, <2>7
  <2> QED BY <2>2, <2>4, <2>6, <2>8, <2>9 DEF r
<1> QED BY <1>1, GatesHold, PTL

\* Nothing executes on evidence nobody vouched for.
THEOREM VouchedFor == Spec => []ExecutionIsVouchedFor
<1>1. ASSUME TypeOK, GatesPassed PROVE ExecutionIsVouchedFor
  <2> SUFFICES ASSUME NEW c \in Calls, effect[c]
               PROVE LET r == req[c]
                         s == r.shield
                         p == r.qid.replay_proof
                     IN  /\ r.qid.form = "qid_login_v2" => "qid" \in authentic[c]
                         /\ deployment.require_authenticated => "oracle" \in authentic[c]
                         /\ deployment.require_authenticated /\ deployment.receipt_boundary
                              => "shield" \in authentic[c]
                         /\ r.oracle.score >= deployment.min_score
                         /\ r.qid.proof_hash = QidProofHash(r.qid)
                         /\ deployment.receipt_boundary =>
                              /\ s.kind = "receipt"
                              /\ s.request_id = r.request_id
                              /\ s.receipt_hash = ReceiptHash(s)
                              /\ s.receipt_hash \notin deployment.rejected_receipts
                              /\ \A id \in Components : \E i \in DOMAIN s.component_verdicts :
                                   s.component_verdicts[i].component_id = id
                              /\ \A i \in DOMAIN s.component_verdicts :
                                   s.component_verdicts[i].decision = "ALLOW"
                         /\ deployment.require_qid_replay_proof =>
                              /\ p.present /\ p.fresh
                              /\ p.wallet = r.wallet /\ p.subject = r.qid.subject
                              /\ p.session_nonce = r.nonce /\ p.proof_hash = r.qid.proof_hash
    BY Zenon DEF ExecutionIsVouchedFor
  <2> DEFINE r == req[c]
             s == r.shield
             p == r.qid.replay_proof
  <2>1. /\ QidGate(c) /\ ReplayProofGate(c) /\ OracleGate(c) /\ ShieldGate(c)
        /\ EqcGate(c) /\ AuthorityGate(c)
        /\ r \in Requests /\ deployment \in Deployments
    BY <1>1, EffectPassed
  <2>2. /\ r.qid.form = "qid_login_v2" => "qid" \in authentic[c]
        /\ r.qid.proof_hash = QidProofHash(r.qid)
    BY <2>1, SessionPassed DEF QidGate, IsV2Login
  <2>3. deployment.require_authenticated => "oracle" \in authentic[c]
    BY <2>1 DEF OracleGate
  <2>4. deployment.require_authenticated /\ deployment.receipt_boundary
          => "shield" \in authentic[c]
    BY <2>1 DEF ShieldGate, ReceiptGate
  <2>5. r.oracle.score >= deployment.min_score
    <3>1. ~(r.oracle.score < deployment.min_score)
      BY <2>1, EqcPassed, Zenon DEF EqcGate
    <3>2. r.oracle.score \in Int /\ deployment.min_score \in Int
      BY <2>1, RequestAssumption, DeploymentAssumption
    <3> QED BY <3>1, <3>2
  <2>6. ASSUME deployment.receipt_boundary
        PROVE  /\ s.kind = "receipt"
               /\ s.request_id = r.request_id
               /\ s.receipt_hash = ReceiptHash(s)
               /\ s.receipt_hash \notin deployment.rejected_receipts
               /\ \A id \in Components : \E i \in DOMAIN s.component_verdicts :
                    s.component_verdicts[i].component_id = id
               /\ \A i \in DOMAIN s.component_verdicts :
                    s.component_verdicts[i].decision = "ALLOW"
    <3>1. /\ Len(s.component_verdicts) \in Nat
          /\ DOMAIN s.component_verdicts = 1..Len(s.component_verdicts)
      BY <2>1, RequestAssumption
    <3>2. /\ ReceiptAccepted(ReceiptState(s, RequestContext(r), r.request_id,
                                          deployment.rejected_receipts))
          /\ InternalizeRejection(s) = OK
      BY <2>1, <2>6 DEF ShieldGate, ReceiptGate
    <3>3. /\ s.kind = "receipt" /\ s.receipt_hash = ReceiptHash(s)
          /\ s.request_id = r.request_id /\ s.receipt_hash \notin deployment.rejected_receipts
      BY <3>1, <3>2, ReceiptPassed
    <3>4. /\ \A id \in Components : \E i \in 1..Len(s.component_verdicts) :
               s.component_verdicts[i].component_id = id
          /\ \A i \in 1..Len(s.component_verdicts) :
               s.component_verdicts[i].decision = "ALLOW"
      BY <3>2, InternalizePassed
    <3> HIDE DEF s
    <3> QED BY <3>1, <3>3, <3>4
  <2>7. ASSUME deployment.require_qid_replay_proof
        PROVE  /\ p.present /\ p.fresh
               /\ p.wallet = r.wallet /\ p.subject = r.qid.subject
               /\ p.session_nonce = r.nonce /\ p.proof_hash = r.qid.proof_hash
    <3>1. ReplayProofRequired(r)
      BY <2>1, <2>7 DEF ReplayProofRequired, ProtectedRequested, AuthorityGate, AuthorityBinds
    <3> QED BY <2>1, <3>1, ReplayProofPassed DEF ReplayProofGate
  <2> QED BY <2>2, <2>3, <2>4, <2>5, <2>6, <2>7, Zenon
<1> QED BY <1>1, GatesHold, PTL

(***************************************************************************)
(* What a nonce is spent on.                                               *)
(***************************************************************************)

\* A call at the nonce store has an authority worth its nonce.
LEMMA AtTheStoreVetted ==
  ASSUME NEW c \in Calls, TypeOK, GatesPassed, pc[c] \in {"tva", "mark"}, StoreGate(c)
  PROVE  Vetted(c)
<1> DEFINE r == req[c]
           a == r.wsqk
           t == now[c]
<1>1. /\ AuthorityGate(c) /\ ScopeGate(c) /\ r \in Requests /\ t \in Int
  BY CallsAreRequests
     DEF GatesPassed, PassedBy, Past, BehindScope, BehindQid, BehindReplayProof,
         BehindOracle, BehindShield, BehindEqc, BehindAuthority
<1>2. /\ a.wallet = r.wallet /\ a.action = r.action /\ a.context = RequestContext(r)
      /\ a.nonce = r.nonce /\ a.issued_at = r.issued_at /\ a.expires_at = r.expires_at
  BY <1>1 DEF AuthorityGate, AuthorityBinds
<1>3. /\ ~(t < a.issued_at) /\ ~(t > a.expires_at)
      /\ PostureRejection(a, r.scope) = OK /\ Strip(a.nonce) # Blank
  BY TvaPassed DEF StoreGate
<1>4. a.issued_at <= t /\ t <= a.expires_at
  BY <1>1, <1>2, <1>3, RequestAssumption
<1>5. ASSUME r.scope.kind = "v2"
      PROVE  /\ a.kind = "v2"
             /\ {Strip(f) : f \in Range(a.families)}
                  = {Strip(f) : f \in Range(r.scope.families)}
             /\ a.posture = Strip(r.scope.posture)
             /\ a.binding = WsqkBinding(a)
             /\ \A f \in Range(a.families) : Strip(f) \in AllowedFamilies
  <2>1. /\ a.kind = "v2" /\ FamiliesRejection(a.families) = OK
        /\ CanonicalFamilies(a.families) = CanonicalFamilies(r.scope.families)
        /\ a.posture = Strip(r.scope.posture) /\ a.binding = WsqkBinding(a)
    BY <1>3, <1>5, PosturePassed
  <2>2. \A f \in Range(a.families) : Strip(f) \in AllowedFamilies
    BY <1>1, <2>1, FamiliesPassed, RequestAssumption
  <2> QED BY <2>1, <2>2 DEF CanonicalFamilies
<1>6. r.scope.kind # "malformed"
  BY <1>1 DEF ScopeGate
<1> QED BY <1>2, <1>3, <1>4, <1>5, <1>6 DEF Vetted

\* The action of OnlyVettedCallsBurnNonces.
BurnsForVetted ==
  \A k \in used' \ used : \E c \in Calls :
    pc'[c] # pc[c] /\ Key(c) = k /\ Vetted(c)

\* Over either store, with callbacks that raise and processes that crash, a nonce is
\* only ever marked for a call whose authority has passed all of TVA.
THEOREM NoncesAreBurntForVetted == Spec => OnlyVettedCallsBurnNonces
<1>1. TypeOK /\ GatesPassed /\ [Next]_vars => [BurnsForVetted]_vars
  <2> SUFFICES ASSUME TypeOK, GatesPassed, [Next]_vars PROVE BurnsForVetted
    OBVIOUS
  <2>1. ASSUME NEW c \in Calls, MarkAccepted(c), StoreGate(c), pc[c] \in {"tva", "mark"}
        PROVE  BurnsForVetted
    <3>1. used' = used \cup {Key(c)} /\ pc'[c] = "final"
      BY <2>1 DEF MarkAccepted, Advance, TypeOK
    <3> QED BY <2>1, <3>1, AtTheStoreVetted DEF BurnsForVetted
  <2>2. ASSUME NEW c \in Calls, CheckAndMark(c) PROVE BurnsForVetted
    BY <2>1, <2>2 DEF CheckAndMark, ReachesStore, StoreGate
  <2>3. ASSUME NEW c \in Calls, MarkNonce(c) PROVE BurnsForVetted
    BY <2>1, <2>3 DEF MarkNonce, GatesPassed, PassedBy
  <2>4. ASSUME NEW c \in Calls, StoreRaises(c) PROVE BurnsForVetted
    <3>1. /\ pc[c] = "tva" /\ StoreGate(c) /\ pc'[c] = "done"
          /\ used' \subseteq used \cup {Key(c)}
      BY <2>4 DEF StoreRaises, ReachesStore, StoreGate, Return, TypeOK
    <3> QED BY <3>1, AtTheStoreVetted DEF BurnsForVetted
  <2>5. ASSUME used' \subseteq used PROVE BurnsForVetted
    BY <2>5 DEF BurnsForVetted
  <2>6. ASSUME NEW c \in Calls, EarlyStep(c) PROVE used' \subseteq used
    BY <2>6, EarlyStepShape
  <2>7. ASSUME NEW c \in Calls,
               \/ FailTva(c) \/ RejectReplay(c) \/ LookUpNonce(c)
               \/ DecideFinal(c) \/ Execute(c) \/ ExecutorRaises(c) \/ Reply(c)
        PROVE  used' \subseteq used
    BY <2>7 DEF FailTva, RejectReplay, DenyTva, LookUpNonce, DecideFinal, Execute,
       ExecutorRaises, Reply
  <2>8. ASSUME NEW c \in Calls, CallStep(c) PROVE BurnsForVetted
    BY <2>2, <2>3, <2>4, <2>5, <2>6, <2>7, <2>8, Zenon DEF CallStep, StageStep, RaiseStep, EarlyStep
  <2>9. ASSUME (\E c \in Calls : Submit(c)) \/ Crash \/ Tick \/ UNCHANGED vars
        PROVE  used' \subseteq used
    BY <2>9 DEF Submit, Crash, Tick, vars
  <2> QED BY <2>5, <2>8, <2>9 DEF Next
<1> QED BY <1>1, GatesHold, PTL DEF Spec, OnlyVettedCallsBurnNonces, BurnsForVetted

(***************************************************************************)
(* What a response may be relied on for.                                   *)
(***************************************************************************)

\* A response rests on what the gates of its call have established.
Backed(c) ==
  /\ "qid" \in resp[c].valid => QidGate(c)
  /\ "oracle" \in resp[c].valid => OracleGate(c)
  /\ "shield" \in resp[c].valid => ShieldGate(c)
  /\ resp[c].mode = "full" => ProtectedRequested(req[c])
  /\ resp[c].status = "allow" =>
       effect[c] /\ resp[c].consumed /\ resp[c].mode = "full"

ResponsesBacked == \A c \in Calls : pc[c] = "done" => Backed(c)

\* The gates that cover the evidence a stage may report.
LEMMA ReportedIsPassed ==
  ASSUME NEW c \in Calls, PassedBy(c)
  PROVE  /\ "qid" \in Reported(pc[c]) => QidGate(c)
         /\ "oracle" \in Reported(pc[c]) => OracleGate(c)
         /\ "shield" \in Reported(pc[c]) => ShieldGate(c)
<1> USE DEF PassedBy, Past, BehindQid, BehindReplayProof, BehindOracle, BehindShield,
            BehindEqc, BehindAuthority, BehindStore
<1>1. CASE pc[c] = "oracle"
  <2>1. Reported(pc[c]) = {"qid"} /\ QidGate(c)
    BY <1>1 DEF Reported
  <2> QED BY <2>1
<1>2. CASE pc[c] = "shield"
  <2>1. Reported(pc[c]) = {"qid", "oracle"} /\ QidGate(c) /\ OracleGate(c)
    BY <1>2 DEF Reported
  <2> QED BY <2>1
<1>3. CASE pc[c] \in {"eqc", "authority", "final"}
  BY <1>3
<1>4. CASE pc[c] \notin {"oracle", "shield", "eqc", "authority", "final"}
  <2>1. Reported(pc[c]) = {}
    BY <1>4, Zenon DEF Reported
  <2> QED BY <2>1
<1> QED BY <1>1, <1>2, <1>3, <1>4

\* A denial in front of the executor is backed.
LEMMA AnswerBacked ==
  ASSUME NEW c \in Calls, TypeOK, PassedBy(c), Kept(c), Answers(c), ~effect'[c]
  PROVE  Backed(c)'
<1>1. PICK response : Return(c, response) /\ Denies(response, req[c], Reported(pc[c]))
  BY Zenon DEF Answers
<1>2. resp'[c] = response
  BY <1>1 DEF Return, TypeOK
<1>3. /\ "qid" \in response.valid => QidGate(c)'
      /\ "oracle" \in response.valid => OracleGate(c)'
      /\ "shield" \in response.valid => ShieldGate(c)'
  BY <1>1, ReportedIsPassed, GatesKept DEF Denies
<1>4. /\ response.status # "allow"
      /\ response.mode = "full" => ProtectedRequested(req'[c])
  BY <1>1 DEF Denies, Kept
<1> QED BY <1>2, <1>3, <1>4 DEF Backed

\* What the executor's own exceptions are answered with.
LEMMA ExecutorErrorsAnswered ==
  ASSUME NEW class
  PROVE  /\ OnExecutorError(class).status # "allow"
         /\ OnExecutorError(class).valid = {}
         /\ OnExecutorError(class).mode # "full"
<1>1. /\ OnAdapterError("EXECUTOR_REASON").status = "deny"
      /\ OnTVAError("DENY_SCHEMA_INVALID").status = "deny"
      /\ OnEnvelopeError("EXECUTOR_REASON").status = "error"
      /\ OnException.status = "error"
  BY DEF OnAdapterError, OnTVAError, OnEnvelopeError, OnException, Response
<1>2. /\ OnAdapterError("EXECUTOR_REASON").valid = {}
      /\ OnTVAError("DENY_SCHEMA_INVALID").valid = {}
      /\ OnEnvelopeError("EXECUTOR_REASON").valid = {}
      /\ OnException.valid = {}
      /\ OnAdapterError("EXECUTOR_REASON").mode = "legacy"
      /\ OnTVAError("DENY_SCHEMA_INVALID").mode = "legacy"
      /\ OnEnvelopeError("EXECUTOR_REASON").mode = "legacy"
      /\ OnException.mode = "legacy"
  BY DEF OnAdapterError, OnTVAError, OnEnvelopeError, OnException, Response
<1>3. /\ class = "AdapterError" => OnExecutorError(class) = OnAdapterError("EXECUTOR_REASON")
      /\ class = "TVAError" => OnExecutorError(class) = OnTVAError("DENY_SCHEMA_INVALID")
      /\ class = "EnvelopeError" => OnExecutorError(class) = OnEnvelopeError("EXECUTOR_REASON")
      /\ class \notin {"AdapterError", "TVAError", "EnvelopeError"} =>
           OnExecutorError(class) = OnException
  BY DEF OnExecutorError
<1> QED BY <1>1, <1>2, <1>3

\* A step of a call that ends in a response backs it.
LEMMA StepBacked ==
  ASSUME NEW c \in Calls, TypeOK, PassedBy(c), CallStep(c), pc'[c] = "done"
  PROVE  Backed(c)'
<1>0. Kept(c)
  BY CallStepKeeps
<1>1. CASE EarlyStep(c)
  <2>1. ~effect'[c]
    <3>1. pc[c] \in EarlyStages /\ effect' = effect
      BY <1>1, EarlyStepShape
    <3> QED BY <3>1 DEF PassedBy, EarlyStages
  <2>2. Answers(c)
    <3>1. \A from, to : Passes(c, from, to) => pc'[c] = to
      BY DEF Passes, TypeOK
    <3> QED BY <1>1, <3>1, EarlyStepOutcome DEF EarlyOutcome
  <2> QED BY <1>0, <2>1, <2>2, AnswerBacked
<1>2. CASE StoreRaises(c)
  <2>1. pc[c] = "tva" /\ Return(c, OnException) /\ effect' = effect
    BY <1>2 DEF StoreRaises, ReachesStore, callVars
  <2>2. Answers(c)
    BY <2>1, Denials, Zenon DEF Answers
  <2>3. ~effect'[c]
    BY <2>1 DEF PassedBy
  <2> QED BY <1>0, <2>2, <2>3, AnswerBacked
<1>3. CASE DecideFinal(c)
  <2> DEFINE input   == FinalInput(req[c], replay_reason[c])
             valid   == IF replay_reason[c] = OK THEN EvidenceKinds ELSE {}
             allowed == {"eqc", "wsqk"} \cup (IF replay_reason[c] = OK THEN {"tva"} ELSE {})
             denial  == EngineDenied(req[c], input, valid, allowed, consumed[c])
  <2>1. pc[c] = "final" /\ effect' = effect
    BY <1>3 DEF DecideFinal, callVars
  <2>2. IF Evaluate(input).state = ALLOW THEN Advance(c, "execute") ELSE Return(c, denial)
    BY <1>3, Zenon DEF DecideFinal
  <2>3. Return(c, denial)
    <3>1. ~Advance(c, "execute")
      BY DEF Advance, TypeOK
    <3> QED BY <2>2, <3>1, Zenon
  <2>4. Denies(denial, req[c], Reported(pc[c]))
    <3>1. valid \subseteq Reported(pc[c])
      BY <2>1, ReportedAt
    <3> HIDE DEF input, valid, allowed
    <3> QED BY <3>1, Denials, Zenon
  <2>5. Answers(c)
    <3> HIDE DEF denial
    <3> QED BY <2>3, <2>4, Zenon DEF Answers
  <2>6. ~effect'[c]
    BY <2>1 DEF PassedBy
  <2> QED BY <1>0, <2>5, <2>6, AnswerBacked
<1>4. CASE ExecutorRaises(c)
  <2>1. PICK class \in ExecutorErrors : Return(c, OnExecutorError(class))
    BY <1>4 DEF ExecutorRaises
  <2>2. resp'[c] = OnExecutorError(class)
    BY <2>1 DEF Return, TypeOK
  <2> QED BY <2>2, ExecutorErrorsAnswered DEF Backed
<1>5. CASE Reply(c)
  <2>1. pc[c] = "reply" /\ resp'[c] = AllowResponse(req[c])
    BY <1>5 DEF Reply, Return, TypeOK
  <2>2. /\ QidGate(c)' /\ OracleGate(c)' /\ ShieldGate(c)' /\ AuthorityGate(c)'
        /\ effect[c]
    BY <1>0, <2>1, GatesKept DEF PassedBy, Past, BehindQid, BehindReplayProof, BehindOracle,
       BehindShield, BehindEqc, BehindAuthority, BehindStore
  <2>3. effect'[c] /\ req'[c] = req[c]
    BY <1>0, <1>5, <2>2 DEF Reply, callVars, Kept
  <2>4. ProtectedRequested(req[c])
    BY <2>2, <2>3 DEF AuthorityGate, AuthorityBinds, ProtectedRequested
  <2>5. /\ AllowResponse(req[c]).status = "allow" /\ AllowResponse(req[c]).consumed
        /\ AllowResponse(req[c]).mode = "full"
    BY <2>4 DEF AllowResponse, ProtectionMode, EvidenceKinds
  <2> QED BY <2>1, <2>2, <2>3, <2>4, <2>5 DEF Backed
<1>6. CASE FailTva(c) \/ RejectReplay(c) \/ CheckAndMark(c) \/ MarkNonce(c)
           \/ LookUpNonce(c) \/ Execute(c)
  BY <1>6 DEF FailTva, RejectReplay, DenyTva, CheckAndMark, MarkNonce, MarkAccepted,
     LookUpNonce, Execute, Advance, TypeOK
<1> QED BY <1>1, <1>2, <1>3, <1>4, <1>5, <1>6, Zenon DEF CallStep, StageStep, RaiseStep, EarlyStep

\* A response that is out stays backed.
LEMMA BackedKept ==
  ASSUME NEW c \in Calls, Kept(c), Backed(c), resp'[c] = resp[c], effect'[c] = effect[c]
  PROVE  Backed(c)'
BY GatesKept DEF Backed, Kept

\* Every step preserves it.
LEMMA ResponsesStep ==
  TypeOK /\ GatesPassed /\ ResponsesBacked /\ [Next]_vars => ResponsesBacked'
<1> SUFFICES ASSUME TypeOK, GatesPassed, ResponsesBacked, [Next]_vars
             PROVE  ResponsesBacked'
  OBVIOUS
<1>1. ASSUME NEW c \in Calls, Submit(c) PROVE ResponsesBacked'
  <2>1. PICK r \in Requests : req' = [req EXCEPT ![c] = r]
    BY <1>1 DEF Submit
  <2>2. /\ pc[c] = "new" /\ pc' = [pc EXCEPT ![c] = "parse"] /\ resp' = resp
        /\ now' = [now EXCEPT ![c] = clock]
        /\ UNCHANGED <<deployment, authentic, effect>>
    BY <1>1 DEF Submit, Advance, hostVars
  <2>3. ASSUME NEW d \in Calls, pc'[d] = "done" PROVE Backed(d)'
    <3>1. d # c /\ pc[d] = "done"
      BY <2>2, <2>3 DEF TypeOK
    <3>2. Kept(d)
      BY <2>1, <2>2, <3>1 DEF Kept, TypeOK
    <3> QED BY <2>2, <3>1, <3>2, BackedKept DEF ResponsesBacked
  <2> QED BY <2>3 DEF ResponsesBacked
<1>2. ASSUME NEW c \in Calls, CallStep(c) PROVE ResponsesBacked'
  <2>1. ASSUME NEW d \in Calls \ {c}, pc'[d] = "done" PROVE Backed(d)'
    BY <1>2, <2>1, CallStepKeeps, BackedKept DEF ResponsesBacked
  <2>2. pc'[c] = "done" => Backed(c)'
    BY <1>2, StepBacked DEF GatesPassed
  <2> QED BY <2>1, <2>2 DEF ResponsesBacked
<1>3. ASSUME UNCHANGED <<deployment, callVars, resp>>,
             \A c \in Calls : pc'[c] = "done" => pc[c] = "done"
      PROVE  ResponsesBacked'
  <2>1. \A c \in Calls : Kept(c)
    BY <1>3 DEF Kept, callVars
  <2> QED BY <1>3, <2>1, BackedKept DEF ResponsesBacked, callVars
<1>4. CASE Crash
  BY <1>3, <1>4 DEF Crash
<1>5. CASE Tick
  BY <1>3, <1>5 DEF Tick
<1>6. CASE UNCHANGED vars
  BY <1>3, <1>6 DEF vars, hostVars
<1> QED BY <1>1, <1>2, <1>4, <1>5, <1>6 DEF Next

\* Every response is backed.
THEOREM ResponsesHold == Spec => [](TypeOK /\ GatesPassed /\ ResponsesBacked)
<1>1. Init => ResponsesBacked
  BY DEF Init, ResponsesBacked
<1> QED BY <1>1, TypeInit, TypeStep, GatesInit, GatesStep, ResponsesStep, PTL DEF Spec

\* No response reports evidence valid that its call has not checked.
THEOREM EvidenceWasChecked == Spec => []ReportedEvidenceWasChecked
<1>1. ASSUME TypeOK, ResponsesBacked PROVE ReportedEvidenceWasChecked
  <2> SUFFICES ASSUME NEW c \in Calls, pc[c] = "done"
               PROVE
                 /\ "qid" \in resp[c].valid =>
                      /\ SessionRejection(req[c].qid, now[c]) = OK
                      /\ IsV2Login(req[c].qid) => "qid" \in authentic[c]
                 /\ "oracle" \in resp[c].valid =>
                      OracleRejection(req[c].oracle, now[c], RequestContext(req[c]),
                                      deployment) = OK
                 /\ "shield" \in resp[c].valid =>
                      req[c].shield.context = RequestContext(req[c])
                 /\ resp[c].mode = "full" => ProtectedRequested(req[c])
    BY DEF ReportedEvidenceWasChecked, Done
  <2>1. Backed(c) /\ req[c] \in Requests
    BY <1>1, CallsAreRequests DEF ResponsesBacked
  <2>2. ASSUME ShieldGate(c) PROVE req[c].shield.context = RequestContext(req[c])
    <3>1. Len(req[c].shield.component_verdicts) \in Nat
      BY <2>1, RequestAssumption
    <3>2. CASE deployment.receipt_boundary
      BY <2>2, <3>1, <3>2, ReceiptPassed DEF ShieldGate, ReceiptGate
    <3>3. CASE ~deployment.receipt_boundary
      BY <2>2, <3>3, BundlePassed DEF ShieldGate
    <3> QED BY <3>2, <3>3
  <2> QED BY <2>1, <2>2 DEF Backed, QidGate, OracleGate
<1> QED BY <1>1, ResponsesHold, PTL

(***************************************************************************)
(* No chain of checks stops with a reason that reads as an approval.       *)
(***************************************************************************)

Objects(reason) == reason \notin {"OK_ALLOW", "EVIDENCE_OK"}

\* A chain whose every check objects, if anything, objects.
LEMMA ChainObjects ==
  ASSUME NEW s, NEW n \in Nat, Len(s) = n, \A i \in 1..n : Objects(s[i])
  PROVE  Objects(FirstRejection(s))
<1>1. Objects(OK)
  BY DEF Objects, OK
<1>2. FirstRejection(s) # OK => \E i \in 1..n : FirstRejection(s) = s[i]
  BY FirstRejectionOutcome
<1> QED BY <1>1, <1>2

\* The same for the chains of each length in use.
LEMMA ChainOf2 ==
  ASSUME NEW a, NEW b, Objects(a), Objects(b)
  PROVE  Objects(FirstRejection(<<a, b>>))
<1> DEFINE s == <<a, b>>
<1>1. Len(s) = 2 /\ \A x \in 1..2 : Objects(s[x])
  OBVIOUS
<1> HIDE DEF s
<1>2. Objects(FirstRejection(s))
  BY <1>1, ChainObjects
<1> QED BY <1>2 DEF s

LEMMA ChainOf3 ==
  ASSUME NEW a, NEW b, NEW c, Objects(a), Objects(b), Objects(c)
  PROVE  Objects(FirstRejection(<<a, b, c>>))
<1> DEFINE s == <<a, b, c>>
<1>1. Len(s) = 3 /\ \A x \in 1..3 : Objects(s[x])
  OBVIOUS
<1> HIDE DEF s
<1>2. Objects(FirstRejection(s))
  BY <1>1, ChainObjects
<1> QED BY <1>2 DEF s

LEMMA ChainOf4 ==
  ASSUME NEW a, NEW b, NEW c, NEW d, Objects(a), Objects(b), Objects(c), Objects(d)
  PROVE  Objects(FirstRejection(<<a, b, c, d>>))
<1> DEFINE s == <<a, b, c, d>>
<1>1. Len(s) = 4 /\ \A x \in 1..4 : Objects(s[x])
  OBVIOUS
<1> HIDE DEF s
<1>2. Objects(FirstRejection(s))
  BY <1>1, ChainObjects
<1> QED BY <1>2 DEF s

LEMMA ChainOf6 ==
  ASSUME NEW a, NEW b, NEW c, NEW d, NEW e, NEW f, Objects(a), Objects(b),
         Objects(c), Objects(d), Objects(e), Objects(f)
  PROVE  Objects(FirstRejection(<<a, b, c, d, e, f>>))
<1> DEFINE s == <<a, b, c, d, e, f>>
<1>1. Len(s) = 6 /\ \A x \in 1..6 : Objects(s[x])
  OBVIOUS
<1> HIDE DEF s
<1>2. Objects(FirstRejection(s))
  BY <1>1, ChainObjects
<1> QED BY <1>2 DEF s

LEMMA ChainOf7 ==
  ASSUME NEW a, NEW b, NEW c, NEW d, NEW e, NEW f, NEW g, Objects(a), Objects(b),
         Objects(c), Objects(d), Objects(e), Objects(f), Objects(g)
  PROVE  Objects(FirstRejection(<<a, b, c, d, e, f, g>>))
<1> DEFINE s == <<a, b, c, d, e, f, g>>
<1>1. Len(s) = 7 /\ \A x \in 1..7 : Objects(s[x])
  OBVIOUS
<1> HIDE DEF s
<1>2. Objects(FirstRejection(s))
  BY <1>1, ChainObjects
<1> QED BY <1>2 DEF s

LEMMA ChainOf8 ==
  ASSUME NEW a, NEW b, NEW c, NEW d, NEW e, NEW f, NEW g, NEW h, Objects(a),
         Objects(b), Objects(c), Objects(d), Objects(e), Objects(f), Objects(g),
         Objects(h)
  PROVE  Objects(FirstRejection(<<a, b, c, d, e, f, g, h>>))
<1> DEFINE s == <<a, b, c, d, e, f, g, h>>
<1>1. Len(s) = 8 /\ \A x \in 1..8 : Objects(s[x])
  OBVIOUS
<1> HIDE DEF s
<1>2. Objects(FirstRejection(s))
  BY <1>1, ChainObjects
<1> QED BY <1>2 DEF s

\* The reasons the evidence chains stop with.
LEMMA EvidenceReasons ==
  \A condition :
    /\ Objects(Reject("EQC_INVALID_QID_PROOF", condition))
    /\ Objects(Reject("EQC_QID_SESSION_NOT_YET_VALID", condition))
    /\ Objects(Reject("EQC_QID_SESSION_EXPIRED", condition))
    /\ Objects(Reject("QID_REPLAY_PROOF_MISSING", condition))
    /\ Objects(Reject("QID_REPLAY_PROOF_INVALID", condition))
    /\ Objects(Reject("QID_REPLAY_WALLET_MISMATCH", condition))
    /\ Objects(Reject("QID_REPLAY_SUBJECT_MISMATCH", condition))
    /\ Objects(Reject("QID_REPLAY_PROOF_HASH_MISMATCH", condition))
    /\ Objects(Reject("QID_REPLAY_DEVICE_MISMATCH", condition))
    /\ Objects(Reject("QID_REPLAY_NONCE_MISMATCH", condition))
    /\ Objects(Reject("QID_NONCE_REPLAY", condition))
    /\ Objects(Reject("EQC_INVALID_RISK_REPORT", condition))
    /\ Objects(Reject("EQC_RISK_CONTEXT_HASH_MISMATCH", condition))
    /\ Objects(Reject("UNKNOWN_EXTERNAL_REASON", condition))
    /\ Objects(Reject("DENY_VERSION_MISMATCH", condition))
    /\ Objects(Reject("EQC_INVALID_SHIELD_BUNDLE", condition))
    /\ Objects(Reject("QID_AUTHENTICITY_VERIFIER_MISSING", condition))
    /\ Objects(Reject("ORACLE_AUTHENTICITY_VERIFIER_MISSING", condition))
    /\ Objects(Reject("VERIFIER_REASON", condition))
    /\ Objects(Reject(OK, condition))
BY DEF Reject, Objects, OK

\* The reasons EQC and the enforcement gate stop with.
LEMMA GateReasons ==
  \A condition :
    /\ Objects(Reject("EQC_MISSING_WALLET_ID", condition))
    /\ Objects(Reject("EQC_MISSING_ACTION", condition))
    /\ Objects(Reject("EQC_QID_CONTEXT_HASH_MISMATCH", condition))
    /\ Objects(Reject("EQC_RISK_SCORE_BELOW_THRESHOLD", condition))
    /\ Objects(Reject("EQC_SHIELD_CONTEXT_HASH_MISMATCH", condition))
    /\ Objects(Reject("EQC_SHIELD_STALE", condition))
    /\ Objects(Reject("EQC_CONFLICTING_EVIDENCE", condition))
    /\ Objects(Reject("DENY_AUTHORITY_INVALID", condition))
    /\ Objects(Reject("WSQK_V2_UNKNOWN_EVIDENCE_FAMILY", condition))
    /\ Objects(Reject("TVA_WSQK_V2_REQUIRED", condition))
    /\ Objects(Reject("TVA_WSQK_V2_EVIDENCE_FAMILY_MISMATCH", condition))
    /\ Objects(Reject("TVA_WSQK_V2_QUANTUM_POSTURE_MISMATCH", condition))
    /\ Objects(Reject("TVA_WSQK_V2_PROOF_BINDINGS_HASH_MISMATCH", condition))
    /\ Objects(Reject("TVA_AUTHORITY_WALLET_MISMATCH", condition))
    /\ Objects(Reject("TVA_AUTHORITY_ACTION_MISMATCH", condition))
    /\ Objects(Reject("TVA_AUTHORITY_CONTEXT_HASH_MISMATCH", condition))
    /\ Objects(Reject("TVA_INVALID_TIME_WINDOW", condition))
    /\ Objects(Reject("TVA_AUTHORITY_NOT_YET_VALID", condition))
    /\ Objects(Reject("TVA_AUTHORITY_EXPIRED", condition))
    /\ Objects(Reject("TVA_INVALID_NONCE", condition))
BY DEF Reject, Objects, OK

\* A verifier callback's objection.
LEMMA VerifierObjects ==
  ASSUME NEW outcome,
         NEW missing \in {OK, "ORACLE_AUTHENTICITY_VERIFIER_MISSING"},
         NEW invalid \in {"EQC_INVALID_QID_PROOF", "EQC_INVALID_RISK_REPORT"}
  PROVE  Objects(VerifierRejection(outcome, missing, invalid))
<1>1. /\ Objects(Reject(missing, outcome = "missing"))
      /\ Objects(Reject("VERIFIER_REASON", outcome = "adapter_error"))
      /\ Objects(Reject(invalid, outcome = "raises"))
  BY EvidenceReasons
<1> QED BY <1>1, ChainOf3, Zenon DEF VerifierRejection

\* The Q-ID stage's objection.
LEMMA QidObjects ==
  ASSUME NEW q, NEW outcome, NEW t
  PROVE  Objects(QidRejection(q, outcome, t))
<1>1. Objects(SessionRejection(q, t))
  BY EvidenceReasons, ChainOf6, ZenonT(60) DEF SessionRejection
<1>2. Objects(VerifierRejection(outcome, OK, "EQC_INVALID_QID_PROOF"))
  BY VerifierObjects
<1> QED BY <1>1, <1>2, EvidenceReasons, ChainOf3, Zenon DEF QidRejection

\* The replay proof's objection.
LEMMA ReplayProofObjects ==
  ASSUME NEW q, NEW wallet, NEW nonce
  PROVE  Objects(ReplayProofRejection(q, wallet, nonce))
<1>1. \A device : Objects(ReplayProofRejectionOn(device, q, wallet, nonce))
  BY EvidenceReasons, ChainOf8, ZenonT(60) DEF ReplayProofRejectionOn
<1> QED BY <1>1, Zenon DEF ReplayProofRejection

\* The oracle stage's objection.
LEMMA OracleObjects ==
  ASSUME NEW o, NEW outcome, NEW t, NEW expected, NEW policy
  PROVE  Objects(FirstRejection(<<
           VerifierRejection(outcome, "ORACLE_AUTHENTICITY_VERIFIER_MISSING",
                             "EQC_INVALID_RISK_REPORT"),
           OracleRejection(o, t, expected, policy) >>))
<1>1. Objects(ReportRejection(o, t, expected, policy))
  BY EvidenceReasons, ChainOf7, ZenonT(60) DEF ReportRejection
<1>2. Objects(OracleRejection(o, t, expected, policy))
  BY <1>1, EvidenceReasons, ChainOf7, ZenonT(60) DEF OracleRejection
<1>3. Objects(VerifierRejection(outcome, "ORACLE_AUTHENTICITY_VERIFIER_MISSING",
                                "EQC_INVALID_RISK_REPORT"))
  BY VerifierObjects
<1> QED BY <1>2, <1>3, ChainOf2, Zenon

\* The reason of a receipt that is not accepted.
LEMMA ReceiptObjects ==
  ASSUME NEW state, ~ReceiptAccepted(state)
  PROVE  ReceiptReason(state) # OK /\ Objects(ReceiptReason(state))
BY DEF ReceiptReason, Objects, OK

\* The objection to a legacy bundle.
LEMMA BundleObjects ==
  ASSUME NEW b, NEW expected, NEW policy
  PROVE  Objects(BundleRejection(b, expected, policy))
<1> DEFINE failed  == {SignalRejection(g, b, expected, policy) : g \in b.signals}
           signals == IF failed \subseteq {OK} THEN OK ELSE CHOOSE f \in failed : f # OK
<1>1. \A f \in failed : Objects(f)
  <2>1. \A g : Objects(SignalRejection(g, b, expected, policy))
    BY EvidenceReasons, ChainOf3, Zenon DEF SignalRejection
  <2> QED BY <2>1
<1>2. Objects(signals)
  <2> HIDE DEF failed
  <2>1. Objects(OK)
    BY DEF Objects, OK
  <2>2. ~(failed \subseteq {OK}) => (CHOOSE f \in failed : f # OK) \in failed
    OBVIOUS
  <2> QED BY <1>1, <2>1, <2>2
<1>3. Objects("EQC_INVALID_SHIELD_BUNDLE")
  BY DEF Objects
<1> QED BY <1>2, <1>3, EvidenceReasons, ChainOf4, Zenon DEF BundleRejection

\* EQC's objection.
LEMMA EqcObjects ==
  ASSUME NEW r, NEW t, NEW policy
  PROVE  Objects(EqcRejection(r, t, policy))
<1> DEFINE context == EqcContext(r)
           shield  == ShieldEvidence(r, policy)
<1> DEFINE s == <<
        Reject("EQC_MISSING_WALLET_ID", Strip(r.wallet) = Blank),
        Reject("EQC_MISSING_ACTION", Strip(r.action) = Blank),
        Reject("EQC_QID_SESSION_NOT_YET_VALID", t < r.qid.issued_at),
        Reject("EQC_QID_SESSION_EXPIRED", t >= r.qid.expires_at),
        Reject("EQC_INVALID_QID_PROOF", r.qid.issued_at <= 0),
        Reject("EQC_QID_CONTEXT_HASH_MISMATCH", r.qid.context # context),
        Reject("EQC_RISK_CONTEXT_HASH_MISMATCH", r.oracle.context # context),
        Reject("EQC_INVALID_RISK_REPORT", ReportInvalid(r.oracle, t)),
        Reject("EQC_RISK_SCORE_BELOW_THRESHOLD", r.oracle.score < policy.min_score),
        Reject("EQC_SHIELD_CONTEXT_HASH_MISMATCH", shield.context # context),
        Reject("EQC_SHIELD_STALE",
               t < shield.issued_at \/ t >= shield.expires_at),
        Reject("EQC_CONFLICTING_EVIDENCE", shield.reasons # {"EVIDENCE_OK"}) >>
<1> HIDE DEF context, shield
<1>1. /\ Objects(s[1]) /\ Objects(s[2]) /\ Objects(s[3]) /\ Objects(s[4])
      /\ Objects(s[5]) /\ Objects(s[6]) /\ Objects(s[7]) /\ Objects(s[8])
      /\ Objects(s[9]) /\ Objects(s[10]) /\ Objects(s[11]) /\ Objects(s[12])
  BY EvidenceReasons, GateReasons
<1>2. Len(s) = 12
  OBVIOUS
<1>3. FirstRejection(s) = EqcRejection(r, t, policy)
  BY DEF EqcRejection, context, shield
<1>4. Objects(FirstRejection(s))
  <2> HIDE DEF s
  <2>1. \A i \in 1..12 : Objects(s[i])
    BY <1>1
  <2> QED BY <1>2, <2>1, ChainObjects
<1> QED BY <1>3, <1>4

\* The objection to a list of families.
LEMMA FamiliesObject ==
  ASSUME NEW families \in Seq(STRING)
  PROVE  Objects(FamiliesRejection(families))
<1> DEFINE n == Len(families)
           s == [i \in 1..n |->
                   IF Strip(families[i]) = Blank THEN "WSQK_V2_INVALID_EVIDENCE_FAMILIES"
                   ELSE Reject("WSQK_V2_UNKNOWN_EVIDENCE_FAMILY",
                               Strip(families[i]) \notin AllowedFamilies)]
<1>1. Objects("WSQK_V2_INVALID_EVIDENCE_FAMILIES")
  BY DEF Objects
<1>2. n \in Nat /\ Len(s) = n
  OBVIOUS
<1>3. \A i \in 1..n : Objects(s[i])
  BY <1>1, GateReasons
<1>4. Objects(FirstRejection(s))
  <2> HIDE DEF s, n
  <2> QED BY <1>2, <1>3, ChainObjects
<1>5. FamiliesRejection(families)
        = IF families = <<>> THEN "WSQK_V2_INVALID_EVIDENCE_FAMILIES" ELSE FirstRejection(s)
  BY DEF FamiliesRejection
<1> HIDE DEF s
<1> QED BY <1>1, <1>4, <1>5

\* The enforcement gate's objection.
LEMMA TvaObjects ==
  ASSUME NEW r \in Requests, NEW t
  PROVE  Objects(TvaRejection(r, t))
<1>1. Objects(FamiliesRejection(r.wsqk.families)) /\ Objects(FamiliesRejection(r.scope.families))
  BY RequestAssumption, FamiliesObject
<1>2. Objects(PostureRejection(r.wsqk, r.scope))
  <2>1. Objects(OK)
    BY DEF Objects, OK
  <2> QED BY <1>1, <2>1, GateReasons, ChainOf6, ZenonT(60) DEF PostureRejection
<1> DEFINE posture == PostureRejection(r.wsqk, r.scope)
           context == RequestContext(r)
<1> DEFINE s == <<
        Reject("TVA_AUTHORITY_WALLET_MISMATCH", r.wsqk.wallet # r.wallet),
        Reject("TVA_AUTHORITY_ACTION_MISMATCH", r.wsqk.action # r.action),
        Reject("TVA_AUTHORITY_CONTEXT_HASH_MISMATCH", r.wsqk.context # context),
        Reject("TVA_INVALID_TIME_WINDOW", r.wsqk.expires_at < r.wsqk.issued_at),
        Reject("TVA_AUTHORITY_NOT_YET_VALID", t < r.wsqk.issued_at),
        Reject("TVA_AUTHORITY_EXPIRED", t > r.wsqk.expires_at),
        posture,
        Reject("TVA_INVALID_NONCE", Strip(r.wsqk.nonce) = Blank) >>
<1>3. Objects(posture)
  BY <1>2
<1> HIDE DEF posture, context
<1>4. /\ Objects(s[1]) /\ Objects(s[2]) /\ Objects(s[3]) /\ Objects(s[4])
      /\ Objects(s[5]) /\ Objects(s[6]) /\ Objects(s[7]) /\ Objects(s[8])
  BY <1>3, GateReasons
<1>5. Len(s) = 8
  OBVIOUS
<1>6. FirstRejection(s) = TvaRejection(r, t)
  BY DEF TvaRejection, posture, context
<1>7. Objects(FirstRejection(s))
  <2> HIDE DEF s
  <2>1. \A i \in 1..8 : Objects(s[i])
    BY <1>4
  <2> QED BY <1>5, <2>1, ChainObjects
<1> QED BY <1>6, <1>7

(***************************************************************************)
(* A denial blames the gate whose check failed.                            *)
(***************************************************************************)

Objection(reason) == reason # OK /\ Objects(reason)

\* What an input brings along to one of the gates.
ReasonAt(in, gate) ==
  IF gate \in Range(EvidenceGates) THEN in.evidence[gate].reason ELSE in.local[gate].reason

\* A denial of the engine, at this gate and with this report.
DeniedBy(x, gate, valid, allowed, spent) ==
  /\ x.stopped_at = gate /\ ~x.coerced /\ Objection(x.reason)
  /\ x.valid = valid /\ x.allowed = allowed /\ x.consumed = spent

\* The engine's denial of an input whose first defect is at position n.
LEMMA DeniedAt ==
  ASSUME NEW r, NEW in, NEW valid, NEW allowed, NEW spent, NEW n \in 1..8,
         Preliminary(in) = OK,
         \A i \in 1..(n - 1) : GateAccepted(in, Gates[i]),
         ~GateAccepted(in, Gates[n]), Objection(ReasonAt(in, Gates[n]))
  PROVE  DeniedBy(EngineDenied(r, in, valid, allowed, spent), Gates[n], valid, allowed, spent)
<1> DEFINE at == FirstRejectedAt(GateStates(in))
<1>1. Evaluate(in) = LoopResult(in, at)
  BY DEF Evaluate, GatesResult
<1>2. /\ at \in 0..8
      /\ at = 0 <=> \A i \in 1..8 : GateState(in, Gates[i]) = OK
      /\ at # 0 => /\ GateStates(in)[at] # OK
                   /\ \A j \in 1..(at - 1) : GateStates(in)[j] = OK
  <2>1. /\ at \in 0..Len(Gates)
        /\ at = 0 <=> \A i \in 1..Len(Gates) : GateState(in, Gates[i]) = OK
        /\ at # 0 => /\ GateStates(in)[at] # OK
                     /\ \A j \in 1..(at - 1) : GateStates(in)[j] = OK
    BY GateStatesAt, FirstRejectedAtPosition
  <2>2. Len(Gates) = 8
    BY LockedOrder
  <2> HIDE DEF at
  <2> QED BY <2>1, <2>2
<1> HIDE DEF at
<1>3. at # 0
  BY <1>2, GateStateOK, LockedOrder
<1>4. /\ ~GateAccepted(in, Gates[at])
      /\ \A j \in 1..(at - 1) : GateAccepted(in, Gates[j])
  <2>1. at \in 1..8 /\ \A j \in 1..(at - 1) : j \in 1..8
    BY <1>2, <1>3
  <2>2. /\ GateState(in, Gates[at]) # OK
        /\ \A j \in 1..(at - 1) : GateState(in, Gates[j]) = OK
    BY <1>2, <1>3, <2>1, GateStatesAt, LockedOrder, Zenon
  <2> QED BY <2>1, <2>2, GateStateOK, LockedOrder, Zenon
<1>5. at = n
  <2>1. at \in 1..8
    BY <1>2, <1>3
  <2>2. ~(at < n)
    BY <1>4, <2>1
  <2>3. ~(n < at)
    BY <1>4, <2>1
  <2> QED BY <2>1, <2>2, <2>3
<1> DEFINE gate  == Gates[n]
           state == GateState(in, gate)
<1>6. Evaluate(in) = Stopped(state, EngineReason(in, gate, state), gate)
  BY <1>1, <1>3, <1>5 DEF LoopResult
<1>7. state # ALLOW
  BY GateStateOK, LockedOrder
<1>8. Objection(EngineReason(in, gate, state))
  <2>1. \/ EngineReason(in, gate, state) \in
             {"DENY_AUTHORITY_INVALID", "EQC_CONFLICTING_EVIDENCE",
              "EQC_INVALID_SHIELD_BUNDLE", "DENY_POLICY"}
        \/ EngineReason(in, gate, state) = ReasonAt(in, gate)
    <3> HIDE DEF gate, state
    <3> QED BY DEF EngineReason, ReasonAt
  <2> QED BY <2>1 DEF Objection, Objects, OK
<1> HIDE DEF gate, state
<1>9. /\ Evaluate(in).state = state /\ Evaluate(in).stopped_at = gate
      /\ Evaluate(in).reason = EngineReason(in, gate, state)
  BY <1>6 DEF Stopped
<1> QED BY <1>7, <1>8, <1>9 DEF EngineDenied, DeniedBy, gate

\* What the runtime puts before a gate is accepted as it stands, and refused as
\* soon as a branch overrides it.
LEMMA GatesOfRuntime ==
  ASSUME NEW r, NEW in, in.expected_context = RequestContext(r),
         in.well_formed_context, in.well_formed_mode, ~in.shield_v4_required
  PROVE  /\ Preliminary(in) = OK
         /\ \A g \in Range(EvidenceGates) :
              in.evidence[g] = RuntimeAccepted(RequestContext(r)) => GateAccepted(in, g)
         /\ \A g \in Range(LocalGates) : in.local[g] = LocalGate(g, OK) => GateAccepted(in, g)
         /\ \A reason : \A g \in Range(EvidenceGates) :
              in.evidence[g] = RuntimeRejected(RequestContext(r), reason) =>
                ~GateAccepted(in, g) /\ ReasonAt(in, g) = reason
         /\ \A reason : \A g \in Range(LocalGates) :
              in.local[g] = LocalGate(g, reason) =>
                /\ reason # OK => ~GateAccepted(in, g)
                /\ ReasonAt(in, g) = reason
<1>1. Preliminary(in) = OK
  <2> DEFINE s == << Reject("DENY_CONTEXT_MISMATCH", ~in.well_formed_context),
                     Reject("DENY_SHIELD_V4_REQUIRED", ~in.well_formed_mode) >>
  <2>1. Len(s) = 2 /\ s[1] = OK /\ s[2] = OK
    BY DEF Reject
  <2>2. FirstRejection(s) = OK
    <3> HIDE DEF s
    <3>1. \A i \in 1..2 : s[i] = OK
      BY <2>1
    <3> QED BY <2>1, <3>1, FirstRejectionOutcome
  <2> QED BY <2>2 DEF Preliminary
<1>2. \A g \in Range(LocalGates) : g \notin Range(EvidenceGates)
  BY LockedOrder
<1>3. ASSUME NEW g \in Range(EvidenceGates),
             in.evidence[g] = RuntimeAccepted(RequestContext(r))
      PROVE  GateAccepted(in, g)
  BY <1>3 DEF GateAccepted, EvidenceAccepted, RuntimeAccepted
<1>4. ASSUME NEW g \in Range(LocalGates), in.local[g] = LocalGate(g, OK)
      PROVE  GateAccepted(in, g)
  <2>1. /\ LocalGate(g, OK).gate = g /\ LocalGate(g, OK).passed
        /\ ~LocalGate(g, OK).requires_human_review
    BY DEF LocalGate
  <2> QED BY <1>2, <1>4, <2>1 DEF GateAccepted
<1>5. ASSUME NEW g \in Range(EvidenceGates), NEW reason,
             in.evidence[g] = RuntimeRejected(RequestContext(r), reason)
      PROVE  ~GateAccepted(in, g) /\ ReasonAt(in, g) = reason
  <2>1. /\ ~RuntimeRejected(RequestContext(r), reason).accepted_as_evidence
        /\ RuntimeRejected(RequestContext(r), reason).reason = reason
    BY DEF RuntimeRejected, RuntimeAccepted
  <2> QED BY <1>5, <2>1 DEF GateAccepted, EvidenceAccepted, ReasonAt
<1>6. ASSUME NEW g \in Range(LocalGates), NEW reason, in.local[g] = LocalGate(g, reason)
      PROVE  /\ reason # OK => ~GateAccepted(in, g)
             /\ ReasonAt(in, g) = reason
  <2>1. /\ LocalGate(g, reason).passed = (reason = OK)
        /\ LocalGate(g, reason).reason = reason
    BY DEF LocalGate
  <2> QED BY <1>2, <1>6, <2>1 DEF GateAccepted, ReasonAt
<1> QED BY <1>1, <1>3, <1>4, <1>5, <1>6, Zenon

\* A branch that overrides one evidence gate is denied at that gate.
LEMMA EvidenceDenied ==
  ASSUME NEW r, NEW n \in 1..5, NEW reason, Objection(reason), NEW valid, NEW allowed
  PROVE  DeniedBy(EngineDenied(r, EvidenceRejected(r, Gates[n], reason), valid, allowed, FALSE),
                  Gates[n], valid, allowed, FALSE)
<1> DEFINE in == EvidenceRejected(r, Gates[n], reason)
<1>1. Gates[n] \in Range(EvidenceGates)
  BY LockedOrder
<1>2. /\ in.expected_context = RequestContext(r) /\ in.well_formed_context
      /\ in.well_formed_mode /\ ~in.shield_v4_required
      /\ in.evidence[Gates[n]] = RuntimeRejected(RequestContext(r), reason)
      /\ \A g \in Range(EvidenceGates) \ {Gates[n]} :
           in.evidence[g] = RuntimeAccepted(RequestContext(r))
  BY <1>1 DEF EvidenceRejected, AllAccepted
<1> HIDE DEF in
<1>3. Preliminary(in) = OK /\ ~GateAccepted(in, Gates[n]) /\ ReasonAt(in, Gates[n]) = reason
  BY <1>1, <1>2, GatesOfRuntime
<1>4. \A g \in Range(EvidenceGates) \ {Gates[n]} : GateAccepted(in, g)
  BY <1>2, GatesOfRuntime
<1>5. \A i \in 1..(n - 1) : Gates[i] \in Range(EvidenceGates) \ {Gates[n]}
  BY LockedOrder
<1>6. \A i \in 1..(n - 1) : GateAccepted(in, Gates[i])
  BY <1>4, <1>5
<1>7. n \in 1..8 /\ Objection(ReasonAt(in, Gates[n]))
  BY <1>3
<1>8. DeniedBy(EngineDenied(r, in, valid, allowed, FALSE), Gates[n], valid, allowed, FALSE)
  BY <1>3, <1>6, <1>7, DeniedAt, Zenon
<1> QED BY <1>8 DEF in

\* The branch of EQC is denied at the wallet policy gate.
LEMMA WalletPolicyDenied ==
  ASSUME NEW r, NEW reason, Objection(reason), NEW valid, NEW allowed
  PROVE  DeniedBy(EngineDenied(r, LocalGateFailed(r, "wallet_policy", reason), valid, allowed,
                               FALSE),
                  "wallet_policy", valid, allowed, FALSE)
<1> DEFINE in == LocalGateFailed(r, "wallet_policy", reason)
<1>1. "wallet_policy" \in Range(LocalGates) /\ "replay" \in Range(LocalGates)
  BY LockedOrder
<1>2. /\ in.expected_context = RequestContext(r) /\ in.well_formed_context
      /\ in.well_formed_mode /\ ~in.shield_v4_required
      /\ in.local["wallet_policy"] = LocalGate("wallet_policy", reason)
      /\ in.local["replay"] = LocalGate("replay", OK)
      /\ \A g \in Range(EvidenceGates) : in.evidence[g] = RuntimeAccepted(RequestContext(r))
  BY <1>1 DEF LocalGateFailed, AllAccepted
<1> HIDE DEF in
<1>3. /\ Preliminary(in) = OK /\ ~GateAccepted(in, "wallet_policy")
      /\ ReasonAt(in, "wallet_policy") = reason
  BY <1>1, <1>2, GatesOfRuntime DEF Objection
<1>4. \A g \in Range(EvidenceGates) \cup {"replay"} : GateAccepted(in, g)
  BY <1>1, <1>2, GatesOfRuntime
<1>5. \A i \in 1..6 : Gates[i] \in Range(EvidenceGates) \cup {"replay"}
  BY LockedOrder
<1>6. Gates[7] = "wallet_policy" /\ 7 \in 1..8 /\ 7 - 1 = 6
  BY LockedOrder
<1>7. \A i \in 1..6 : GateAccepted(in, Gates[i])
  BY <1>4, <1>5
<1>8. /\ \A i \in 1..(7 - 1) : GateAccepted(in, Gates[i])
      /\ ~GateAccepted(in, Gates[7]) /\ Objection(ReasonAt(in, Gates[7]))
  BY <1>3, <1>6, <1>7
<1>9. DeniedBy(EngineDenied(r, in, valid, allowed, FALSE), Gates[7], valid, allowed, FALSE)
  BY <1>3, <1>6, <1>8, DeniedAt
<1> QED BY <1>6, <1>9 DEF in

\* A replay proof is refused at two gates, and denied at the first of them.
LEMMA ReplayProofDenied ==
  ASSUME NEW r, NEW reason, Objection(reason), NEW valid, NEW allowed
  PROVE  DeniedBy(EngineDenied(r, ReplayProofRejected(r, reason), valid, allowed, FALSE),
                  "qid", valid, allowed, FALSE)
<1> DEFINE in == ReplayProofRejected(r, reason)
<1>1. {"shield", "wsqk_v2", "qid"} \subseteq Range(EvidenceGates)
  BY LockedOrder
<1>2. /\ in.expected_context = RequestContext(r) /\ in.well_formed_context
      /\ in.well_formed_mode /\ ~in.shield_v4_required
      /\ in.evidence["qid"] = RuntimeRejected(RequestContext(r), reason)
      /\ in.evidence["shield"] = RuntimeAccepted(RequestContext(r))
      /\ in.evidence["wsqk_v2"] = RuntimeAccepted(RequestContext(r))
  BY <1>1 DEF ReplayProofRejected, EvidenceRejected, AllAccepted
<1> HIDE DEF in
<1>3. Preliminary(in) = OK /\ ~GateAccepted(in, "qid") /\ ReasonAt(in, "qid") = reason
  BY <1>1, <1>2, GatesOfRuntime
<1>4. GateAccepted(in, "shield") /\ GateAccepted(in, "wsqk_v2")
  BY <1>1, <1>2, GatesOfRuntime
<1>5. Gates[1] = "shield" /\ Gates[2] = "wsqk_v2" /\ Gates[3] = "qid" /\ 3 \in 1..8
  BY LockedOrder
<1>6. \A i \in 1..(3 - 1) : GateAccepted(in, Gates[i])
  <2>1. \A i \in 1..(3 - 1) : i = 1 \/ i = 2
    OBVIOUS
  <2> QED BY <1>4, <1>5, <2>1
<1>7. DeniedBy(EngineDenied(r, in, valid, allowed, FALSE), Gates[3], valid, allowed, FALSE)
  BY <1>3, <1>5, <1>6, DeniedAt
<1> QED BY <1>5, <1>7 DEF in

\* The final decision is denied at the replay gate if TVA refused, at the human
\* gate otherwise.
LEMMA FinallyDenied ==
  ASSUME NEW r, NEW reason, Objects(reason), NEW valid, NEW allowed, NEW spent,
         Evaluate(FinalInput(r, reason)).state # ALLOW
  PROVE  LET x == EngineDenied(r, FinalInput(r, reason), valid, allowed, spent)
         IN  \/ reason # OK /\ DeniedBy(x, "replay", valid, allowed, spent)
             \/ /\ reason = OK /\ ~HumanConfirmed(r)
                /\ DeniedBy(x, "human", valid, allowed, spent)
<1> DEFINE in        == FinalInput(r, reason)
           objection == Reject("DENY_AUTHORITY_INSUFFICIENT", ~HumanConfirmed(r))
<1>1. {"replay", "wallet_policy", "human"} \subseteq Range(LocalGates)
  BY LockedOrder
<1>2. /\ in.expected_context = RequestContext(r) /\ in.well_formed_context
      /\ in.well_formed_mode /\ ~in.shield_v4_required
      /\ in.local["replay"] = LocalGate("replay", reason)
      /\ in.local["wallet_policy"] = LocalGate("wallet_policy", OK)
      /\ in.local["human"] = LocalGate("human", objection)
      /\ \A g \in Range(EvidenceGates) : in.evidence[g] = RuntimeAccepted(RequestContext(r))
  <2> HIDE DEF objection
  <2> QED BY <1>1 DEF FinalInput, AllAccepted, objection
<1> HIDE DEF in, objection
<1>3. /\ Preliminary(in) = OK
      /\ \A g \in Range(EvidenceGates) \cup {"wallet_policy"} : GateAccepted(in, g)
  BY <1>1, <1>2, GatesOfRuntime
<1>4. /\ \A i \in 1..5 : Gates[i] \in Range(EvidenceGates)
      /\ Gates[6] = "replay" /\ Gates[7] = "wallet_policy" /\ Gates[8] = "human"
  BY LockedOrder
<1>5. CASE reason # OK
  <2>1. ~GateAccepted(in, Gates[6]) /\ ReasonAt(in, Gates[6]) = reason
    BY <1>1, <1>2, <1>4, <1>5, GatesOfRuntime
  <2>2. \A i \in 1..(6 - 1) : GateAccepted(in, Gates[i])
    BY <1>3, <1>4
  <2>3. Objection(ReasonAt(in, Gates[6])) /\ 6 \in 1..8
    BY <1>5, <2>1 DEF Objection
  <2>4. DeniedBy(EngineDenied(r, in, valid, allowed, spent), Gates[6], valid, allowed, spent)
    BY <1>3, <2>1, <2>2, <2>3, DeniedAt
  <2> QED BY <1>4, <1>5, <2>4 DEF in
<1>6. CASE reason = OK
  <2>1. GateAccepted(in, "replay")
    BY <1>1, <1>2, <1>6, GatesOfRuntime
  <2>2. \A i \in 1..7 : GateAccepted(in, Gates[i])
    <3>1. \A i \in 1..7 : i \in 1..5 \/ i = 6 \/ i = 7
      OBVIOUS
    <3> QED BY <1>3, <1>4, <2>1, <3>1
  <2>3. objection # OK
    <3> SUFFICES ASSUME objection = OK PROVE FALSE
      OBVIOUS
    <3>1. GateAccepted(in, "human")
      BY <1>1, <1>2, GatesOfRuntime
    <3>2. \A i \in 1..8 : i \in 1..7 \/ i = 8
      OBVIOUS
    <3>3. \A i \in 1..Len(Gates) : GateAccepted(in, Gates[i])
      BY <1>4, <2>2, <3>1, <3>2, LockedOrder
    <3> QED BY <1>3, <3>3, EngineApprovesUnanimously DEF in
  <2>4. ~HumanConfirmed(r) /\ Objection(objection)
    BY <2>3 DEF objection, Reject, Objection, Objects
  <2>5. ~GateAccepted(in, Gates[8]) /\ ReasonAt(in, Gates[8]) = objection
    BY <1>1, <1>2, <1>4, <2>3, GatesOfRuntime
  <2>6. 8 \in 1..8 /\ \A i \in 1..(8 - 1) : GateAccepted(in, Gates[i])
    BY <2>2
  <2>7. DeniedBy(EngineDenied(r, in, valid, allowed, spent), Gates[8], valid, allowed, spent)
    BY <1>3, <2>4, <2>5, <2>6, DeniedAt
  <2> QED BY <1>4, <1>6, <2>4, <2>7 DEF in
<1> QED BY <1>5, <1>6

OraclePasses(c) ==
  OracleRejection(req[c].oracle, now[c], RequestContext(req[c]), deployment) = OK

\* A response that names a gate names the one whose check failed.
Blames(c, x) ==
  x.stopped_at # Nowhere =>
    /\ ~x.coerced /\ Objection(x.reason)
    /\ x.stopped_at = "qid" <=> x.valid = {} /\ x.allowed = {}
    /\ x.stopped_at = "adaptive_core" =>
         ~OraclePasses(c) \/ deployment.require_authenticated
    /\ x.stopped_at = "shield" => OraclePasses(c)
    /\ x.stopped_at = "wallet_policy" => ~EqcGate(c) /\ OraclePasses(c)
    /\ x.stopped_at = "wsqk_v2" => EqcGate(c) /\ ~AuthorityGate(c)
    /\ x.stopped_at \in {"replay", "human"} => EqcGate(c) /\ AuthorityGate(c)
    /\ x.stopped_at = "replay" <=> replay_reason[c] # OK
    /\ x.stopped_at = "human" => consumed[c] /\ x.consumed /\ ~HumanGate(c)

\* What enforce_tva left behind reads as no approval.
TvaObjected(c) == Objects(replay_reason[c])

DenialsBlame == \A c \in Calls : TvaObjected(c) /\ (pc[c] = "done" => Blames(c, resp[c]))

\* A stage that does not pass its call on answers with its denial.
LEMMA DecideAnswered ==
  ASSUME NEW c \in Calls, TypeOK, NEW rejection, NEW stage, stage # "done", NEW response,
         Decide(c, rejection, stage, response), pc'[c] = "done"
  PROVE  rejection # OK /\ resp'[c] = response
BY DEF Decide, Advance, Return, TypeOK

\* The same for a response that names no gate.
LEMMA NamesNoGate ==
  ASSUME NEW c, NEW r
  PROVE  /\ \A reason : Blames(c, OnAdapterError(reason))
         /\ \A reason : Blames(c, OnTVAError(reason))
         /\ \A reason : Blames(c, OnEnvelopeError(reason))
         /\ Blames(c, OnException) /\ Blames(c, PostureDenied(r))
         /\ \A class : Blames(c, OnExecutorError(class))
         /\ Blames(c, AllowResponse(r))
<1>1. /\ \A reason : OnAdapterError(reason).stopped_at = Nowhere
      /\ \A reason : OnTVAError(reason).stopped_at = Nowhere
      /\ \A reason : OnEnvelopeError(reason).stopped_at = Nowhere
      /\ OnException.stopped_at = Nowhere /\ PostureDenied(r).stopped_at = Nowhere
      /\ AllowResponse(r).stopped_at = Nowhere
  BY DEF Response, OnAdapterError, OnTVAError, OnEnvelopeError, OnException,
         PostureDenied, AllowResponse
<1>2. \A class : OnExecutorError(class).stopped_at = Nowhere
  BY <1>1, Zenon DEF OnExecutorError
<1> QED BY <1>1, <1>2, Zenon DEF Blames

\* Every stage in front of the enforcement gate that answers blames its own gate.
LEMMA EarlyStepBlames ==
  ASSUME NEW c \in Calls, TypeOK, PassedBy(c), EarlyStep(c), pc'[c] = "done"
  PROVE  Blames(c, resp'[c])
<1> DEFINE r == req[c]
<1>0. replay_reason[c] = OK
  <2>1. pc[c] \in EarlyStages
    BY EarlyStepShape
  <2> QED BY <2>1 DEF PassedBy
<1>1. CASE ParseEnvelope(c)
  <2> DEFINE rejection == EnvelopeRejection(req[c], now[c])
  <2>1. Decide(c, rejection, "posture", OnEnvelopeError(rejection))
    BY <1>1 DEF ParseEnvelope
  <2> HIDE DEF rejection
  <2>2. resp'[c] = OnEnvelopeError(rejection)
    BY <2>1, DecideAnswered
  <2> QED BY <2>2, NamesNoGate, Zenon
<1>2. CASE CheckPosture(c)
  <2>1. \/ \E reason : Return(c, OnTVAError(reason))
        \/ Return(c, OnException)
        \/ Decide(c, LatchRejection(r), "qid", PostureDenied(r))
    BY <1>2, Zenon DEF CheckPosture
  <2>2. \A response : Return(c, response) => resp'[c] = response
    BY DEF Return, TypeOK
  <2>3. Decide(c, LatchRejection(r), "qid", PostureDenied(r)) => resp'[c] = PostureDenied(r)
    BY DecideAnswered
  <2> QED BY <2>1, <2>2, <2>3, NamesNoGate, Zenon
<1>3. CASE VerifyQid(c)
  <2>1. PICK outcome \in Outcomes(deployment.qid_verifier) :
          LET rejection == QidRejection(req[c].qid, outcome, now[c])
          IN  /\ Decide(c, rejection, "replay_proof",
                        EngineDenied(req[c], EvidenceRejected(req[c], "qid", rejection),
                                     {}, {}, FALSE))
              /\ Authenticate(c, "qid", outcome)
    BY <1>3, Zenon DEF VerifyQid
  <2> DEFINE rejection == QidRejection(req[c].qid, outcome, now[c])
             response  == EngineDenied(req[c], EvidenceRejected(req[c], "qid", rejection),
                                       {}, {}, FALSE)
  <2>2. Decide(c, rejection, "replay_proof", response)
    BY <2>1, Zenon
  <2>3. Objects(rejection)
    BY QidObjects
  <2> HIDE DEF rejection
  <2>4. rejection # OK /\ resp'[c] = response
    BY <2>2, DecideAnswered
  <2>5. Gates[3] = "qid" /\ 3 \in 1..5 /\ Objection(rejection)
    BY <2>3, <2>4, LockedOrder DEF Objection
  <2>6. DeniedBy(response, "qid", {}, {}, FALSE)
    BY <2>5, EvidenceDenied
  <2> HIDE DEF response
  <2> QED BY <1>0, <2>4, <2>6 DEF Blames, DeniedBy, EvidenceKinds
<1>4. CASE VerifyReplayProof(c)
  <2> DEFINE rejection == IF ReplayProofRequired(req[c])
                          THEN ReplayProofRejection(req[c].qid, req[c].wallet,
                                                    req[c].nonce) ELSE OK
             response  == EngineDenied(req[c], ReplayProofRejected(req[c], rejection),
                                       {}, {}, FALSE)
  <2>1. Decide(c, rejection, "oracle", response)
    BY <1>4 DEF VerifyReplayProof
  <2>2. rejection # OK => Objects(rejection)
    BY ReplayProofObjects, Zenon
  <2> HIDE DEF rejection
  <2>3. rejection # OK /\ resp'[c] = response
    BY <2>1, DecideAnswered
  <2>4. DeniedBy(response, "qid", {}, {}, FALSE)
    BY <2>2, <2>3, ReplayProofDenied DEF Objection
  <2> HIDE DEF response
  <2> QED BY <1>0, <2>3, <2>4 DEF Blames, DeniedBy, EvidenceKinds
<1>5. CASE VerifyOracle(c)
  <2> DEFINE Rejection(outcome) ==
               FirstRejection(<<
                 VerifierRejection(outcome, "ORACLE_AUTHENTICITY_VERIFIER_MISSING",
                                   "EQC_INVALID_RISK_REPORT"),
                 OracleRejection(req[c].oracle, now[c], RequestContext(req[c]),
                                 deployment) >>)
             Denial(outcome) ==
               EngineDenied(req[c], EvidenceRejected(req[c], "adaptive_core",
                                                     Rejection(outcome)),
                            {"qid"}, {}, FALSE)
  <2>1. PICK outcome \in LatchedOutcomes(deployment.oracle_verifier) :
          Decide(c, Rejection(outcome), "shield", Denial(outcome))
    BY <1>5, Zenon DEF VerifyOracle
  <2>2. Objects(Rejection(outcome))
    BY OracleObjects
  <2>3. Rejection(outcome) # OK => ~OraclePasses(c) \/ deployment.require_authenticated
    <3> SUFFICES ASSUME OraclePasses(c), ~deployment.require_authenticated
                 PROVE  Rejection(outcome) = OK
      OBVIOUS
    <3>1. outcome = "not_called"
      BY <2>1 DEF LatchedOutcomes
    <3> DEFINE v == VerifierRejection(outcome, "ORACLE_AUTHENTICITY_VERIFIER_MISSING",
                                      "EQC_INVALID_RISK_REPORT")
               o == OracleRejection(req[c].oracle, now[c], RequestContext(req[c]), deployment)
    <3>2. v = OK
      <4> DEFINE s == <<
                   Reject("ORACLE_AUTHENTICITY_VERIFIER_MISSING", outcome = "missing"),
                   Reject("VERIFIER_REASON", outcome = "adapter_error"),
                   Reject("EQC_INVALID_RISK_REPORT", outcome = "raises") >>
      <4>1. Len(s) = 3 /\ \A i \in 1..3 : s[i] = OK
        BY <3>1 DEF Reject
      <4>2. v = FirstRejection(s)
        BY DEF VerifierRejection
      <4> HIDE DEF s
      <4> QED BY <4>1, <4>2, FirstRejectionOutcome
    <3>3. o = OK
      BY DEF OraclePasses
    <3> HIDE DEF v, o
    <3> DEFINE chain == <<v, o>>
    <3>4. Len(chain) = 2 /\ \A i \in 1..2 : chain[i] = OK
      BY <3>2, <3>3
    <3>5. FirstRejection(chain) = OK
      <4> HIDE DEF chain
      <4> QED BY <3>4, FirstRejectionOutcome
    <3> QED BY <3>5 DEF v, o
  <2> DEFINE rejection == Rejection(outcome)
             response  == EngineDenied(req[c], EvidenceRejected(req[c], "adaptive_core",
                                                                rejection),
                                       {"qid"}, {}, FALSE)
  <2>4. Decide(c, rejection, "shield", response) /\ Objects(rejection)
        /\ (rejection # OK => ~OraclePasses(c) \/ deployment.require_authenticated)
    BY <2>1, <2>2, <2>3
  <2> HIDE DEF rejection
  <2>5. rejection # OK /\ resp'[c] = response
    BY <2>4, DecideAnswered
  <2>6. Gates[4] = "adaptive_core" /\ 4 \in 1..5 /\ Objection(rejection)
    BY <2>4, <2>5, LockedOrder DEF Objection
  <2>7. DeniedBy(response, "adaptive_core", {"qid"}, {}, FALSE)
    BY <2>6, EvidenceDenied
  <2> HIDE DEF response
  <2> QED BY <1>0, <2>4, <2>5, <2>7 DEF Blames, DeniedBy, EvidenceKinds
<1>6. CASE VerifyShieldReceipt(c)
  <2> DEFINE Raised(outcome) ==
               VerifierRejection(outcome, "SHIELD_AUTHENTICITY_VERIFIER_MISSING",
                                 "EQC_INVALID_SHIELD_BUNDLE")
             state  == ReceiptState(req[c].shield, RequestContext(req[c]),
                                    req[c].request_id, deployment.rejected_receipts)
             denied == EvidenceRejected(req[c], "shield", ReceiptReason(state))
             denial == EngineDenied(req[c], denied, {"qid", "oracle"}, {}, FALSE)
             second == InternalizeRejection(req[c].shield)
  <2>1. PICK outcome \in LatchedOutcomes(deployment.shield_verifier) :
          IF Raised(outcome) # OK THEN Return(c, OnAdapterError(Raised(outcome)))
          ELSE IF ~ReceiptAccepted(state) THEN Return(c, denial)
          ELSE Decide(c, second, "eqc", OnAdapterError(second))
    BY <1>6, Zenon DEF VerifyShieldReceipt
  <2>2. OraclePasses(c)
    <3>1. pc[c] = "shield"
      BY <1>6 DEF VerifyShieldReceipt
    <3> QED BY <3>1 DEF PassedBy, Past, BehindOracle, OracleGate, OraclePasses
  <2>3. \A response : Return(c, response) => resp'[c] = response
    BY DEF Return, TypeOK
  <2>4. Decide(c, second, "eqc", OnAdapterError(second)) => resp'[c] = OnAdapterError(second)
    <3> HIDE DEF second
    <3> QED BY DecideAnswered
  <2>5. CASE ~ReceiptAccepted(state) /\ resp'[c] = denial
    <3>1. Gates[1] = "shield" /\ 1 \in 1..5 /\ Objection(ReceiptReason(state))
      BY <2>5, ReceiptObjects, LockedOrder DEF Objection
    <3>2. DeniedBy(denial, "shield", {"qid", "oracle"}, {}, FALSE)
      <4> HIDE DEF state
      <4> QED BY <3>1, EvidenceDenied
    <3> HIDE DEF denial
    <3> QED BY <1>0, <2>2, <2>5, <3>2 DEF Blames, DeniedBy
  <2>6. CASE \E reason : resp'[c] = OnAdapterError(reason)
    BY <2>6, NamesNoGate, Zenon
  <2> HIDE DEF Raised, state, denial, second
  <2> QED BY <2>1, <2>3, <2>4, <2>5, <2>6, Zenon
<1>7. CASE ParseShieldBundle(c)
  <2> DEFINE rejection == BundleRejection(req[c].shield, RequestContext(req[c]), deployment)
             response  == EngineDenied(req[c], EvidenceRejected(req[c], "shield", rejection),
                                       {"qid", "oracle"}, {}, FALSE)
  <2>1. pc[c] = "shield" /\ Decide(c, rejection, "eqc", response)
    BY <1>7 DEF ParseShieldBundle
  <2>2. Objects(rejection)
    BY BundleObjects
  <2> HIDE DEF rejection
  <2>3. rejection # OK /\ resp'[c] = response
    BY <2>1, DecideAnswered
  <2>4. OraclePasses(c)
    BY <2>1 DEF PassedBy, Past, BehindOracle, OracleGate, OraclePasses
  <2>5. Gates[1] = "shield" /\ 1 \in 1..5 /\ Objection(rejection)
    BY <2>2, <2>3, LockedOrder DEF Objection
  <2>6. DeniedBy(response, "shield", {"qid", "oracle"}, {}, FALSE)
    BY <2>5, EvidenceDenied
  <2> HIDE DEF response
  <2> QED BY <1>0, <2>3, <2>4, <2>6 DEF Blames, DeniedBy, EvidenceKinds
<1>8. CASE EvaluateEqc(c)
  <2> DEFINE rejection == EqcRejection(req[c], now[c], deployment)
             response  == EngineDenied(req[c], LocalGateFailed(req[c], "wallet_policy", rejection),
                                       EvidenceKinds, {}, FALSE)
  <2>1. pc[c] = "eqc" /\ Decide(c, rejection, "authority", response)
    BY <1>8 DEF EvaluateEqc
  <2>2. Objects(rejection) /\ (EqcGate(c) <=> rejection = OK)
    BY EqcObjects DEF EqcGate
  <2> HIDE DEF rejection
  <2>3. rejection # OK /\ resp'[c] = response
    BY <2>1, DecideAnswered
  <2>4. OraclePasses(c)
    BY <2>1 DEF PassedBy, Past, BehindOracle, BehindShield, OracleGate, OraclePasses
  <2>5. DeniedBy(response, "wallet_policy", EvidenceKinds, {}, FALSE)
    BY <2>2, <2>3, WalletPolicyDenied DEF Objection
  <2> HIDE DEF response
  <2> QED BY <1>0, <2>2, <2>3, <2>4, <2>5 DEF Blames, DeniedBy, EvidenceKinds
<1>9. CASE ExtractAuthority(c)
  <2> DEFINE rejection == Reject("DENY_AUTHORITY_INVALID", ~AuthorityBinds(req[c]))
             response  == EngineDenied(req[c], EvidenceRejected(req[c], "wsqk_v2", rejection),
                                       EvidenceKinds, {"eqc"}, FALSE)
  <2>1. pc[c] = "authority" /\ Decide(c, rejection, "tva", response)
    BY <1>9 DEF ExtractAuthority
  <2>2. Objects(rejection) /\ (rejection # OK => ~AuthorityGate(c))
    BY GateReasons, Zenon DEF AuthorityGate, Reject
  <2> HIDE DEF rejection
  <2>3. rejection # OK /\ resp'[c] = response
    BY <2>1, DecideAnswered
  <2>4. EqcGate(c)
    BY <2>1 DEF PassedBy, Past, BehindEqc
  <2>5. Gates[2] = "wsqk_v2" /\ 2 \in 1..5 /\ Objection(rejection)
    BY <2>2, <2>3, LockedOrder DEF Objection
  <2>6. DeniedBy(response, "wsqk_v2", EvidenceKinds, {"eqc"}, FALSE)
    BY <2>5, EvidenceDenied
  <2> HIDE DEF response
  <2> QED BY <1>0, <2>2, <2>3, <2>4, <2>6 DEF Blames, DeniedBy, EvidenceKinds
<1> QED BY <1>1, <1>2, <1>3, <1>4, <1>5, <1>6, <1>7, <1>8, <1>9, Zenon DEF EarlyStep

\* Whatever a step of a call ends in blames the right gate.
LEMMA StepBlames ==
  ASSUME NEW c \in Calls, TypeOK, PassedBy(c), TvaObjected(c), CallStep(c), pc'[c] = "done"
  PROVE  Blames(c, resp'[c])
<1>0. \A response : Return(c, response) => resp'[c] = response
  BY DEF Return, TypeOK
<1>1. CASE EarlyStep(c)
  BY <1>1, EarlyStepBlames
<1>2. CASE StoreRaises(c)
  BY <1>0, <1>2, NamesNoGate, Zenon DEF StoreRaises
<1>3. CASE DecideFinal(c)
  <2> DEFINE input   == FinalInput(req[c], replay_reason[c])
             valid   == IF replay_reason[c] = OK THEN EvidenceKinds ELSE {}
             allowed == {"eqc", "wsqk"} \cup (IF replay_reason[c] = OK THEN {"tva"} ELSE {})
             denial  == EngineDenied(req[c], input, valid, allowed, consumed[c])
  <2>1. pc[c] = "final" /\ Evaluate(input).state # ALLOW /\ resp'[c] = denial
    <3>1. /\ pc[c] = "final"
          /\ IF Evaluate(input).state = ALLOW THEN Advance(c, "execute")
             ELSE Return(c, denial)
      BY <1>3, Zenon DEF DecideFinal
    <3>2. ~Advance(c, "execute")
      BY DEF Advance, TypeOK
    <3> QED BY <1>0, <3>1, <3>2, Zenon
  <2>2. EqcGate(c) /\ AuthorityGate(c) /\ (replay_reason[c] = OK => consumed[c])
    BY <2>1 DEF PassedBy, Past, BehindEqc, BehindAuthority
  <2>3. \/ /\ replay_reason[c] # OK
           /\ DeniedBy(denial, "replay", valid, allowed, consumed[c])
        \/ /\ replay_reason[c] = OK /\ ~HumanGate(c)
           /\ DeniedBy(denial, "human", valid, allowed, consumed[c])
    <3> HIDE DEF valid, allowed
    <3> QED BY <2>1, FinallyDenied DEF TvaObjected, HumanGate
  <2>4. allowed # {}
    OBVIOUS
  <2> HIDE DEF denial, input, valid, allowed
  <2> QED BY <2>1, <2>2, <2>3, <2>4 DEF Blames, DeniedBy
<1>4. CASE ExecutorRaises(c)
  BY <1>0, <1>4, NamesNoGate, Zenon DEF ExecutorRaises
<1>5. CASE Reply(c)
  BY <1>0, <1>5, NamesNoGate, Zenon DEF Reply
<1>6. CASE FailTva(c) \/ RejectReplay(c) \/ CheckAndMark(c) \/ MarkNonce(c)
           \/ LookUpNonce(c) \/ Execute(c)
  BY <1>6 DEF FailTva, RejectReplay, DenyTva, CheckAndMark, MarkNonce, MarkAccepted,
     LookUpNonce, Execute, Advance, TypeOK
<1> QED BY <1>1, <1>2, <1>3, <1>4, <1>5, <1>6, Zenon DEF CallStep, StageStep, RaiseStep, EarlyStep

\* What blames stays so while the call's part of the state stands.
LEMMA BlamesKept ==
  ASSUME NEW c \in Calls, Kept(c), NEW x, Blames(c, x),
         replay_reason'[c] = replay_reason[c], consumed'[c] = consumed[c]
  PROVE  Blames(c, x)'
<1>1. /\ OraclePasses(c)' = OraclePasses(c) /\ EqcGate(c)' = EqcGate(c)
      /\ AuthorityGate(c)' = AuthorityGate(c) /\ HumanGate(c)' = HumanGate(c)
  BY DEF Kept, OraclePasses, EqcGate, AuthorityGate, HumanGate
<1> QED BY <1>1 DEF Blames, Kept

\* The enforcement gate leaves an objection behind, or nothing.
LEMMA StepObjects ==
  ASSUME NEW c \in Calls, TypeOK, TvaObjected(c), CallStep(c)
  PROVE  TvaObjected(c)'
<1>1. ASSUME NEW reason, Objects(reason), DenyTva(c, reason) PROVE TvaObjected(c)'
  BY <1>1 DEF DenyTva, TvaObjected, TypeOK
<1>2. CASE FailTva(c)
  <2>1. req[c] \in Requests
    BY <1>2, CallsAreRequests DEF FailTva
  <2>2. Objects(TvaRejection(req[c], now[c]))
    BY <2>1, TvaObjects
  <2> QED BY <1>1, <1>2, <2>2 DEF FailTva
<1>3. CASE RejectReplay(c)
  <2>1. Objects("TVA_NONCE_REPLAY")
    BY DEF Objects
  <2> QED BY <1>1, <1>3, <2>1 DEF RejectReplay
<1>4. CASE replay_reason' = replay_reason
  BY <1>4 DEF TvaObjected
<1>5. EarlyStep(c) => replay_reason' = replay_reason
  BY EarlyStepShape
<1>6. CheckAndMark(c) \/ LookUpNonce(c) \/ MarkNonce(c) \/ StoreRaises(c) \/ DecideFinal(c)
        \/ Execute(c) \/ ExecutorRaises(c) \/ Reply(c) => replay_reason' = replay_reason
  BY DEF CheckAndMark, LookUpNonce, MarkNonce, MarkAccepted, StoreRaises, DecideFinal,
     Execute, ExecutorRaises, Reply, callVars
<1> QED BY <1>2, <1>3, <1>4, <1>5, <1>6, Zenon DEF CallStep, StageStep, RaiseStep, EarlyStep

\* Every step preserves it.
LEMMA DenialsStep ==
  TypeOK /\ GatesPassed /\ DenialsBlame /\ [Next]_vars => DenialsBlame'
<1> SUFFICES ASSUME TypeOK, GatesPassed, DenialsBlame, [Next]_vars
             PROVE  DenialsBlame'
  OBVIOUS
<1>0. ASSUME NEW d \in Calls, Kept(d), replay_reason'[d] = replay_reason[d],
             consumed'[d] = consumed[d], resp'[d] = resp[d],
             pc'[d] = "done" => pc[d] = "done"
      PROVE  TvaObjected(d)' /\ (pc'[d] = "done" => Blames(d, resp[d])')
  <2>1. TvaObjected(d)'
    BY <1>0 DEF DenialsBlame, TvaObjected
  <2>2. ASSUME pc'[d] = "done" PROVE Blames(d, resp[d])'
    <3>1. Blames(d, resp[d])
      BY <1>0, <2>2 DEF DenialsBlame
    <3>2. \A x : Blames(d, x) => Blames(d, x)'
      BY <1>0, BlamesKept
    <3>3. \A x : x = resp[d] => Blames(d, x)'
      BY <3>1, <3>2
    <3> QED BY <1>0, <3>3
  <2> QED BY <2>1, <2>2
<1>1. ASSUME NEW c \in Calls, Submit(c) PROVE DenialsBlame'
  <2>1. PICK r \in Requests : req' = [req EXCEPT ![c] = r]
    BY <1>1 DEF Submit
  <2>2. /\ pc[c] = "new" /\ pc' = [pc EXCEPT ![c] = "parse"] /\ resp' = resp
        /\ now' = [now EXCEPT ![c] = clock]
        /\ UNCHANGED <<deployment, authentic, replay_reason, consumed>>
    BY <1>1 DEF Submit, Advance, hostVars
  <2>3. ASSUME NEW d \in Calls \ {c}
        PROVE  TvaObjected(d)' /\ (pc'[d] = "done" => Blames(d, resp[d])')
    <3>1. Kept(d) /\ pc'[d] = pc[d]
      BY <2>1, <2>2 DEF Kept, TypeOK
    <3> QED BY <1>0, <2>2, <3>1
  <2>4. TvaObjected(c)' /\ pc'[c] # "done"
    BY <2>2 DEF DenialsBlame, TvaObjected, TypeOK
  <2> QED BY <2>3, <2>4 DEF DenialsBlame
<1>2. ASSUME NEW c \in Calls, CallStep(c) PROVE DenialsBlame'
  <2>1. ASSUME NEW d \in Calls \ {c}
        PROVE  TvaObjected(d)' /\ (pc'[d] = "done" => Blames(d, resp[d])')
    BY <1>0, <1>2, CallStepKeeps
  <2>2. TvaObjected(c)'
    BY <1>2, StepObjects DEF DenialsBlame
  <2>3. ASSUME pc'[c] = "done" PROVE Blames(c, resp[c])'
    <3>1. Blames(c, resp'[c])
      BY <1>2, <2>3, StepBlames DEF DenialsBlame, GatesPassed
    <3>2. Kept(c)
      BY <1>2, CallStepKeeps
    <3>3. replay_reason'[c] = replay_reason[c] /\ consumed'[c] = consumed[c]
      <4>1. EarlyStep(c) => UNCHANGED <<replay_reason, consumed>>
        BY EarlyStepShape
      <4>2. StoreRaises(c) \/ DecideFinal(c) \/ ExecutorRaises(c) \/ Reply(c) =>
              UNCHANGED <<replay_reason, consumed>>
        BY DEF StoreRaises, DecideFinal, ExecutorRaises, Reply, callVars
      <4>3. ~(FailTva(c) \/ RejectReplay(c) \/ CheckAndMark(c) \/ MarkNonce(c)
              \/ LookUpNonce(c) \/ Execute(c))
        BY <2>3 DEF FailTva, RejectReplay, DenyTva, CheckAndMark, MarkNonce, MarkAccepted,
           LookUpNonce, Execute, Advance, TypeOK
      <4> QED BY <1>2, <4>1, <4>2, <4>3, Zenon DEF CallStep, StageStep, RaiseStep, EarlyStep
    <3>4. \A x : Blames(c, x) => Blames(c, x)'
      BY <3>2, <3>3, BlamesKept
    <3> QED BY <3>1, <3>4
  <2> QED BY <2>1, <2>2, <2>3 DEF DenialsBlame
<1>3. ASSUME UNCHANGED <<deployment, callVars, resp>>,
             \A c \in Calls : pc'[c] = "done" => pc[c] = "done"
      PROVE  DenialsBlame'
  <2>1. \A c \in Calls : Kept(c)
    BY <1>3 DEF Kept, callVars
  <2> QED BY <1>0, <1>3, <2>1 DEF DenialsBlame, callVars
<1>4. CASE Crash
  BY <1>3, <1>4 DEF Crash
<1>5. CASE Tick
  BY <1>3, <1>5 DEF Tick
<1>6. CASE UNCHANGED vars
  BY <1>3, <1>6 DEF vars, hostVars
<1> QED BY <1>1, <1>2, <1>4, <1>5, <1>6 DEF Next

\* A denial of the final policy engine names the gate whose check failed, for a
\* reason that reads as no approval; the branch of the orchestrator and the engine
\* agree, and a call denied by the human gate has spent its nonce.
THEOREM BlamesTheRightGate == Spec => []DenialBlamesTheRightGate
<1>1. Init => DenialsBlame
  <2>1. Objects(OK)
    BY DEF Objects, OK
  <2> QED BY <2>1 DEF Init, DenialsBlame, TvaObjected
<1>2. ASSUME TypeOK, DenialsBlame PROVE DenialBlamesTheRightGate
  <2> SUFFICES ASSUME NEW c \in Calls, pc[c] = "done", resp[c].stopped_at # Nowhere
               PROVE
                 LET r == req[c]
                     OracleOK == OracleRejection(r.oracle, now[c], RequestContext(r),
                                                 deployment) = OK
                     EqcOK    == EqcRejection(r, now[c], deployment) = OK
                     gate     == resp[c].stopped_at
                 IN  /\ ~resp[c].coerced
                     /\ resp[c].reason \notin {OK, "OK_ALLOW", "EVIDENCE_OK"}
                     /\ gate = "qid" <=> resp[c].valid = {} /\ resp[c].allowed = {}
                     /\ gate = "adaptive_core" =>
                          ~OracleOK \/ deployment.require_authenticated
                     /\ gate = "shield" => OracleOK
                     /\ gate = "wallet_policy" => ~EqcOK /\ OracleOK
                     /\ gate = "wsqk_v2" => EqcOK /\ ~AuthorityBinds(r)
                     /\ gate \in {"replay", "human"} => EqcOK /\ AuthorityBinds(r)
                     /\ gate = "replay" <=> replay_reason[c] # OK
                     /\ gate = "human" =>
                          /\ consumed[c] /\ resp[c].consumed
                          /\ ~(r.ui_confirmed /\ r.fields_confirmed)
    BY DEF DenialBlamesTheRightGate, Done
  <2>1. Blames(c, resp[c])
    BY <1>2 DEF DenialsBlame
  <2> QED BY <2>1 DEF Blames, OraclePasses, EqcGate, AuthorityGate, HumanGate,
                      HumanConfirmed, Objection, Objects
<1> QED BY <1>1, <1>2, DenialsStep, GatesHold, PTL DEF Spec

(***************************************************************************)
(* Nobody is refused for nothing.                                          *)
(***************************************************************************)

\* A response that leaves the effect open says nothing of its context, and one in
\* front of the executor has a cause.
Settled(c) ==
  /\ effect[c] => resp[c].status = "allow" \/ resp[c].context = ZeroContext
  /\ resp[c].status # "allow" /\ ~effect[c] =>
       \/ AtFault(req[c], now[c]) \/ Unvouched(c)
       \/ replay_reason[c] = "TVA_NONCE_REPLAY"
       \/ StoreMayFail /\ resp[c] = OnException

\* No verifier has accepted what it has not been asked about.
Unasked(c) ==
  /\ pc[c] \in {"new", "parse", "posture", "qid"} => authentic[c] = {}
  /\ pc[c] \in {"replay_proof", "oracle"} => authentic[c] \subseteq {"qid"}
  /\ pc[c] = "shield" => authentic[c] \subseteq {"qid", "oracle"}

\* The replay gate fails for what TVA objected to, or for a replay.
ReplayGateExplained(c) ==
  replay_reason[c] \in {OK, "TVA_NONCE_REPLAY", TvaRejection(req[c], now[c])}

\* The inductive invariant.
Explained(c) ==
  /\ Unasked(c) /\ ReplayGateExplained(c)
  /\ pc[c] = "done" => Settled(c)

RefusalsExplained == \A c \in Calls : Explained(c)

\* A stage that answers instead of going on has rejected.
LEMMA DecideRefused ==
  ASSUME NEW c \in Calls, TypeOK, NEW rejection, NEW stage, NEW response,
         stage # "done", Decide(c, rejection, stage, response), pc'[c] = "done"
  PROVE  rejection # OK
BY DEF Decide, Advance, TypeOK

\* A stage that goes on goes where it says.
LEMMA DecideGoes ==
  ASSUME NEW c \in Calls, TypeOK, NEW rejection, NEW stage, NEW response,
         Decide(c, rejection, stage, response), pc'[c] # "done"
  PROVE  pc'[c] = stage
BY DEF Decide, Advance, Return, TypeOK

\* A verifier that rejects has been asked, or was missing.
LEMMA VerifierRefused ==
  ASSUME NEW outcome, NEW missing, NEW invalid,
         VerifierRejection(outcome, missing, invalid) # OK
  PROVE  \/ outcome \in {"adapter_error", "raises"}
         \/ outcome = "missing" /\ missing # OK
<1> DEFINE chain == <<
    Reject(missing, outcome = "missing"),
    Reject("VERIFIER_REASON", outcome = "adapter_error"),
    Reject(invalid, outcome = "raises") >>
<1>1. Len(chain) = 3 /\ FirstRejection(chain) # OK
  BY DEF VerifierRejection
<1>2. chain[1] # OK \/ chain[2] # OK \/ chain[3] # OK
  <2> HIDE DEF chain
  <2>1. \E i \in 1..3 : chain[i] # OK
    BY <1>1, FirstRejectionOutcome
  <2> QED BY <2>1
<1> QED BY <1>2, Zenon DEF Reject

\* What a Q-ID stage rejects.
LEMMA QidStageRefused ==
  ASSUME NEW q, NEW outcome, NEW t, QidRejection(q, outcome, t) # OK
  PROVE  \/ SessionRejection(q, t) # OK
         \/ outcome \in {"adapter_error", "raises"}
         \/ IsV2Login(q) /\ outcome = "missing"
<1> DEFINE verifier == VerifierRejection(outcome, OK, "EQC_INVALID_QID_PROOF")
           session  == SessionRejection(q, t)
           unheard  == IsV2Login(q) /\ outcome = "missing"
<1> DEFINE chain == << Reject("QID_AUTHENTICITY_VERIFIER_MISSING", unheard),
                       verifier, session >>
<1>1. Len(chain) = 3 /\ FirstRejection(chain) # OK
  BY DEF QidRejection
<1> HIDE DEF unheard, verifier, session
<1>2. chain[1] # OK \/ chain[2] # OK \/ chain[3] # OK
  <2> HIDE DEF chain
  <2>1. \E i \in 1..3 : chain[i] # OK
    BY <1>1, FirstRejectionOutcome
  <2> QED BY <2>1
<1>3. unheard \/ verifier # OK \/ session # OK
  BY <1>2, Zenon DEF Reject
<1>4. verifier # OK => outcome \in {"adapter_error", "raises"}
  BY VerifierRefused DEF verifier
<1> QED BY <1>3, <1>4 DEF unheard, session

\* What an oracle stage rejects.
LEMMA OracleStageRefused ==
  ASSUME NEW o, NEW outcome, NEW t, NEW expected, NEW policy,
         FirstRejection(<<
             VerifierRejection(outcome, "ORACLE_AUTHENTICITY_VERIFIER_MISSING",
                               "EQC_INVALID_RISK_REPORT"),
             OracleRejection(o, t, expected, policy) >>) # OK
  PROVE  \/ OracleRejection(o, t, expected, policy) # OK
         \/ outcome \in {"adapter_error", "raises", "missing"}
<1> DEFINE verifier == VerifierRejection(outcome, "ORACLE_AUTHENTICITY_VERIFIER_MISSING",
                                         "EQC_INVALID_RISK_REPORT")
           report   == OracleRejection(o, t, expected, policy)
           chain    == << verifier, report >>
<1> HIDE DEF verifier, report
<1>1. Len(chain) = 2 /\ FirstRejection(chain) # OK
  BY DEF verifier, report
<1>2. verifier # OK \/ report # OK
  <2> HIDE DEF chain
  <2>1. \E i \in 1..2 : chain[i] # OK
    BY <1>1, FirstRejectionOutcome
  <2>2. chain[1] = verifier /\ chain[2] = report
    BY DEF chain
  <2> QED BY <2>1, <2>2
<1>3. verifier # OK => outcome \in {"adapter_error", "raises", "missing"}
  BY VerifierRefused DEF verifier
<1> QED BY <1>2, <1>3 DEF report

\* The outcomes of a callback that has not accepted.
LEMMA NotAsked ==
  /\ \A injected : \A outcome \in Outcomes(injected) :
       outcome \in {"adapter_error", "raises"} => injected
  /\ \A injected : \A outcome \in LatchedOutcomes(injected) :
       outcome \in {"adapter_error", "raises", "missing"} => deployment.require_authenticated
BY DEF Outcomes, LatchedOutcomes

\* What a callback leaves of the acceptances of its call.
LEMMA AuthenticLeft ==
  ASSUME NEW c \in Calls, TypeOK, NEW kind, NEW outcome, Authenticate(c, kind, outcome)
  PROVE  /\ authentic'[c] \subseteq authentic[c] \cup {kind}
         /\ outcome # "accepts" => authentic'[c] = authentic[c]
BY DEF Authenticate, TypeOK

\* A stage in front of the enforcement gate that answers has found a fault, or no
\* verifier to vouch for what it was shown.
LEMMA EarlyStepExplained ==
  ASSUME NEW c \in Calls, TypeOK, Unasked(c), EarlyStep(c)
  PROVE  /\ Unasked(c)'
         /\ pc'[c] = "done" => AtFault(req[c], now[c]) \/ Unvouched(c)'
<1> DEFINE r == req[c]
           Result == /\ Unasked(c)'
                     /\ pc'[c] = "done" => AtFault(req[c], now[c]) \/ Unvouched(c)'
<1>0. req' = req /\ now' = now /\ deployment' = deployment
  BY EarlyStepShape DEF CallFrame
<1>1. CASE ParseEnvelope(c)
  <2> DEFINE rejection == EnvelopeRejection(req[c], now[c])
             response  == OnEnvelopeError(EnvelopeRejection(req[c], now[c]))
  <2>1. /\ pc[c] = "parse" /\ Decide(c, rejection, "posture", response)
        /\ authentic' = authentic
    BY <1>1 DEF ParseEnvelope, callVars
  <2>2. /\ pc'[c] = "done" => rejection # OK
        /\ pc'[c] # "done" => pc'[c] = "posture"
    <3> HIDE DEF rejection, response
    <3> QED BY <2>1, DecideRefused, DecideGoes
  <2>3. Unasked(c)'
    BY <2>1, <2>2 DEF Unasked
  <2>4. rejection # OK => AtFault(req[c], now[c])
    BY Zenon DEF AtFault
  <2> QED BY <2>2, <2>3, <2>4
<1>2. CASE CheckPosture(c)
  <2>1. /\ pc[c] = "posture" /\ authentic' = authentic
        /\ \/ pc'[c] = "qid"
           \/ /\ pc'[c] = "done"
              /\ ScopeRejection(r) # OK \/ ~deployment.valid \/ LatchRejection(r) # OK
    BY <1>2 DEF CheckPosture, Decide, Advance, Return, TypeOK, callVars
  <2>2. Unasked(c)'
    BY <2>1 DEF Unasked
  <2> QED BY <2>1, <2>2, Zenon DEF AtFault
<1>3. CASE VerifyQid(c)
  <2>1. PICK outcome \in Outcomes(deployment.qid_verifier) :
          LET rejection == QidRejection(req[c].qid, outcome, now[c])
          IN  /\ Decide(c, rejection, "replay_proof",
                        EngineDenied(req[c], EvidenceRejected(req[c], "qid", rejection),
                                     {}, {}, FALSE))
              /\ Authenticate(c, "qid", outcome)
    BY <1>3, Zenon DEF VerifyQid
  <2> DEFINE rejection == QidRejection(req[c].qid, outcome, now[c])
             response  == EngineDenied(req[c], EvidenceRejected(req[c], "qid", rejection),
                                       {}, {}, FALSE)
  <2>2. pc[c] = "qid" /\ authentic[c] = {}
    BY <1>3 DEF VerifyQid, Unasked
  <2>3. /\ pc'[c] = "done" => rejection # OK
        /\ pc'[c] # "done" => pc'[c] = "replay_proof"
    <3>1. Decide(c, rejection, "replay_proof", response)
      BY <2>1, Zenon
    <3> HIDE DEF rejection, response
    <3> QED BY <3>1, DecideRefused, DecideGoes
  <2>4. /\ authentic'[c] \subseteq {"qid"}
        /\ outcome # "accepts" => authentic'[c] = {}
    BY <2>1, <2>2, AuthenticLeft
  <2>5. Unasked(c)'
    BY <2>3, <2>4 DEF Unasked
  <2>6. ASSUME rejection # OK PROVE AtFault(req[c], now[c]) \/ Unvouched(c)'
    <3>1. \/ SessionRejection(r.qid, now[c]) # OK
          \/ outcome \in {"adapter_error", "raises"}
          \/ IsV2Login(r.qid) /\ outcome = "missing"
      BY <2>6, QidStageRefused, Zenon
    <3>2. CASE SessionRejection(r.qid, now[c]) # OK
      BY <3>2, Zenon DEF AtFault
    <3>3. CASE outcome \in {"adapter_error", "raises"}
      BY <1>0, <2>1, <2>4, <3>3, NotAsked DEF Unvouched
    <3>4. CASE IsV2Login(r.qid) /\ outcome = "missing"
      BY <1>0, <2>4, <3>4 DEF Unvouched
    <3> QED BY <3>1, <3>2, <3>3, <3>4
  <2> QED BY <2>3, <2>5, <2>6
<1>4. CASE VerifyReplayProof(c)
  <2> DEFINE rejection == IF ReplayProofRequired(req[c])
                          THEN ReplayProofRejection(req[c].qid, req[c].wallet,
                                                    req[c].nonce) ELSE OK
             response  == EngineDenied(req[c], ReplayProofRejected(req[c], rejection),
                                       {}, {}, FALSE)
  <2>1. /\ pc[c] = "replay_proof" /\ Decide(c, rejection, "oracle", response)
        /\ authentic' = authentic
    BY <1>4 DEF VerifyReplayProof, callVars
  <2>2. /\ pc'[c] = "done" => rejection # OK
        /\ pc'[c] # "done" => pc'[c] = "oracle"
    <3> HIDE DEF rejection, response
    <3> QED BY <2>1, DecideRefused, DecideGoes
  <2>3. Unasked(c)'
    BY <2>1, <2>2 DEF Unasked
  <2>4. rejection # OK => AtFault(req[c], now[c])
    BY Zenon DEF AtFault
  <2> QED BY <2>2, <2>3, <2>4
<1>5. CASE VerifyOracle(c)
  <2> DEFINE Rejection(outcome) ==
               FirstRejection(<<
                 VerifierRejection(outcome, "ORACLE_AUTHENTICITY_VERIFIER_MISSING",
                                   "EQC_INVALID_RISK_REPORT"),
                 OracleRejection(req[c].oracle, now[c], RequestContext(req[c]),
                                 deployment) >>)
             Denial(outcome) ==
               EngineDenied(req[c], EvidenceRejected(req[c], "adaptive_core",
                                                     Rejection(outcome)),
                            {"qid"}, {}, FALSE)
  <2>1. PICK outcome \in LatchedOutcomes(deployment.oracle_verifier) :
          /\ Decide(c, Rejection(outcome), "shield", Denial(outcome))
          /\ Authenticate(c, "oracle", outcome)
    BY <1>5, Zenon DEF VerifyOracle
  <2>2. pc[c] = "oracle" /\ authentic[c] \subseteq {"qid"}
    BY <1>5 DEF VerifyOracle, Unasked
  <2>3. /\ pc'[c] = "done" => Rejection(outcome) # OK
        /\ pc'[c] # "done" => pc'[c] = "shield"
    <3> HIDE DEF Rejection, Denial
    <3> QED BY <2>1, DecideRefused, DecideGoes
  <2>4. /\ authentic'[c] \subseteq {"qid", "oracle"}
        /\ outcome # "accepts" => authentic'[c] \subseteq {"qid"}
    BY <2>1, <2>2, AuthenticLeft
  <2>5. Unasked(c)'
    BY <2>3, <2>4 DEF Unasked
  <2>6. ASSUME Rejection(outcome) # OK PROVE AtFault(req[c], now[c]) \/ Unvouched(c)'
    <3>1. \/ OracleRejection(req[c].oracle, now[c], RequestContext(req[c]), deployment) # OK
          \/ outcome \in {"adapter_error", "raises", "missing"}
      BY <2>6, OracleStageRefused, Zenon
    <3>2. CASE OracleRejection(req[c].oracle, now[c], RequestContext(req[c]), deployment) # OK
      BY <3>2, Zenon DEF AtFault
    <3>3. CASE outcome \in {"adapter_error", "raises", "missing"}
      <4>1. deployment.require_authenticated /\ "oracle" \notin authentic'[c]
        BY <2>1, <2>4, <3>3, NotAsked
      <4> QED BY <1>0, <4>1 DEF Unvouched
    <3> QED BY <3>1, <3>2, <3>3
  <2> QED BY <2>3, <2>5, <2>6
<1>6. CASE VerifyShieldReceipt(c)
  <2> DEFINE Raised(outcome) ==
               VerifierRejection(outcome, "SHIELD_AUTHENTICITY_VERIFIER_MISSING",
                                 "EQC_INVALID_SHIELD_BUNDLE")
             state == ReceiptState(req[c].shield, RequestContext(req[c]), req[c].request_id,
                                   deployment.rejected_receipts)
             internal == InternalizeRejection(req[c].shield)
             denied == EngineDenied(req[c], EvidenceRejected(req[c], "shield",
                                                             ReceiptReason(state)),
                                    {"qid", "oracle"}, {}, FALSE)
  <2>1. PICK outcome \in LatchedOutcomes(deployment.shield_verifier) :
          /\ IF Raised(outcome) # OK THEN Return(c, OnAdapterError(Raised(outcome)))
             ELSE IF ~ReceiptAccepted(state) THEN Return(c, denied)
             ELSE Decide(c, internal, "eqc", OnAdapterError(internal))
          /\ Authenticate(c, "shield", outcome)
    BY <1>6, Zenon DEF VerifyShieldReceipt
  <2>2. /\ pc[c] = "shield" /\ authentic[c] \subseteq {"qid", "oracle"}
        /\ deployment.receipt_boundary
    BY <1>6 DEF VerifyShieldReceipt, Unasked
  <2>3. /\ pc'[c] = "done" =>
             Raised(outcome) # OK \/ ~ReceiptAccepted(state) \/ internal # OK
        /\ pc'[c] # "done" => pc'[c] = "eqc"
    <3> HIDE DEF Raised, state, internal, denied
    <3> QED BY <2>1 DEF Decide, Advance, Return, TypeOK
  <2>4. outcome # "accepts" => authentic'[c] \subseteq {"qid", "oracle"}
    BY <2>1, <2>2, AuthenticLeft
  <2>5. Unasked(c)'
    BY <2>3 DEF Unasked
  <2>6. CASE Raised(outcome) # OK
    <3>1. outcome \in {"adapter_error", "raises", "missing"}
      BY <2>6, VerifierRefused
    <3>2. deployment.require_authenticated /\ "shield" \notin authentic'[c]
      BY <2>1, <2>4, <3>1, NotAsked
    <3> QED BY <1>0, <2>2, <2>5, <3>2 DEF Unvouched
  <2>7. CASE ~ReceiptAccepted(state) \/ internal # OK
    <3>1. AtFault(req[c], now[c])
      BY <2>2, <2>7, Zenon DEF AtFault
    <3> QED BY <2>5, <3>1
  <2> QED BY <2>3, <2>5, <2>6, <2>7
<1>7. CASE ParseShieldBundle(c)
  <2> DEFINE rejection == BundleRejection(req[c].shield, RequestContext(req[c]), deployment)
             response  == EngineDenied(req[c], EvidenceRejected(req[c], "shield", rejection),
                                       {"qid", "oracle"}, {}, FALSE)
  <2>1. /\ pc[c] = "shield" /\ ~deployment.receipt_boundary
        /\ Decide(c, rejection, "eqc", response)
    BY <1>7, Zenon DEF ParseShieldBundle
  <2>2. /\ pc'[c] = "done" => rejection # OK
        /\ pc'[c] # "done" => pc'[c] = "eqc"
    <3> HIDE DEF rejection, response
    <3> QED BY <2>1, DecideRefused, DecideGoes
  <2>3. Unasked(c)'
    BY <2>2 DEF Unasked
  <2>4. rejection # OK => AtFault(req[c], now[c])
    BY <2>1, Zenon DEF AtFault
  <2> QED BY <2>2, <2>3, <2>4
<1>8. CASE EvaluateEqc(c)
  <2> DEFINE rejection == EqcRejection(req[c], now[c], deployment)
             response  == EngineDenied(req[c], LocalGateFailed(req[c], "wallet_policy",
                                                               rejection),
                                       EvidenceKinds, {}, FALSE)
  <2>1. Decide(c, rejection, "authority", response)
    BY <1>8, Zenon DEF EvaluateEqc
  <2>2. /\ pc'[c] = "done" => rejection # OK
        /\ pc'[c] # "done" => pc'[c] = "authority"
    <3> HIDE DEF rejection, response
    <3> QED BY <2>1, DecideRefused, DecideGoes
  <2>3. Unasked(c)'
    BY <2>2 DEF Unasked
  <2>4. rejection # OK => AtFault(req[c], now[c])
    BY Zenon DEF AtFault
  <2> QED BY <2>2, <2>3, <2>4
<1>9. CASE ExtractAuthority(c)
  <2> DEFINE rejection == Reject("DENY_AUTHORITY_INVALID", ~AuthorityBinds(req[c]))
             response  == EngineDenied(req[c], EvidenceRejected(req[c], "wsqk_v2", rejection),
                                       EvidenceKinds, {"eqc"}, FALSE)
  <2>1. Decide(c, rejection, "tva", response)
    BY <1>9, Zenon DEF ExtractAuthority
  <2>2. /\ pc'[c] = "done" => rejection # OK
        /\ pc'[c] # "done" => pc'[c] = "tva"
    <3> HIDE DEF rejection, response
    <3> QED BY <2>1, DecideRefused, DecideGoes
  <2>3. Unasked(c)'
    BY <2>2 DEF Unasked
  <2>4. rejection # OK => AtFault(req[c], now[c])
    BY Zenon DEF AtFault, Reject
  <2> QED BY <2>2, <2>3, <2>4
<1> QED BY <1>1, <1>2, <1>3, <1>4, <1>5, <1>6, <1>7, <1>8, <1>9, Zenon DEF EarlyStep

\* What the executor's exceptions are answered with has no context.
LEMMA ExecutorErrorsUnderNoContext ==
  ASSUME NEW class
  PROVE  OnExecutorError(class).context = ZeroContext
<1>1. /\ OnAdapterError("EXECUTOR_REASON").context = ZeroContext
      /\ OnTVAError("DENY_SCHEMA_INVALID").context = ZeroContext
      /\ OnEnvelopeError("EXECUTOR_REASON").context = ZeroContext
      /\ OnException.context = ZeroContext
  BY DEF OnAdapterError, OnTVAError, OnEnvelopeError, OnException, Response
<1> QED BY <1>1, Zenon DEF OnExecutorError

\* A fault stays one, and nothing is accepted late.
LEMMA ExplainedKept ==
  ASSUME NEW c \in Calls, Explained(c), req'[c] = req[c], now'[c] = now[c],
         deployment' = deployment, authentic'[c] = authentic[c],
         replay_reason'[c] = replay_reason[c], effect'[c] = effect[c],
         resp'[c] = resp[c], pc'[c] \in {pc[c], "lost"}
  PROVE  Explained(c)'
<1>1. /\ AtFault(req[c], now[c]) => AtFault(req[c], now[c])'
      /\ Unvouched(c) => Unvouched(c)'
  BY DEF AtFault, LatchRejection, ReplayProofRequired, Unvouched
<1>2. OnException' = OnException
  OBVIOUS
<1>3. Settled(c) => Settled(c)'
  BY <1>1, <1>2 DEF Settled
<1>4. pc'[c] = "done" => pc[c] = "done"
  OBVIOUS
<1>5. Unasked(c)' /\ ReplayGateExplained(c)'
  BY DEF Explained, Unasked, ReplayGateExplained
<1> QED BY <1>3, <1>4, <1>5 DEF Explained

\* A step of a call leaves it explained.
LEMMA StepExplained ==
  ASSUME NEW c \in Calls, TypeOK, PassedBy(c), Explained(c), CallStep(c),
         TvaObjected(c)
  PROVE  Explained(c)'
<1>0. Kept(c)
  BY CallStepKeeps
<1>1. AtFault(req[c], now[c]) => AtFault(req[c], now[c])'
  BY <1>0 DEF Kept, AtFault, LatchRejection, ReplayProofRequired
<1>2. CASE EarlyStep(c)
  <2>1. /\ Unasked(c)'
        /\ pc'[c] = "done" => AtFault(req[c], now[c]) \/ Unvouched(c)'
    BY <1>2, EarlyStepExplained DEF Explained
  <2>2. replay_reason' = replay_reason /\ effect' = effect /\ pc[c] \in EarlyStages
    BY <1>2, EarlyStepShape
  <2>3. ReplayGateExplained(c)' /\ ~effect'[c]
    BY <1>0, <2>2 DEF Explained, ReplayGateExplained, Kept, PassedBy, EarlyStages
  <2> QED BY <1>1, <2>1, <2>3 DEF Explained, Settled
<1>3. ASSUME pc[c] \in {"tva", "mark", "final", "execute", "reply"},
             replay_reason'[c] \in {replay_reason[c], "TVA_NONCE_REPLAY",
                                    TvaRejection(req[c], now[c])},
             pc'[c] # "done" \/ Settled(c)',
             pc'[c] \in {"mark", "final", "execute", "reply", "done"}
      PROVE  Explained(c)'
  <2>1. Unasked(c)'
    BY <1>3 DEF Unasked
  <2>2. ReplayGateExplained(c)'
    BY <1>0, <1>3 DEF Explained, ReplayGateExplained, Kept
  <2> QED BY <1>3, <2>1, <2>2 DEF Explained
<1>4. CASE FailTva(c) \/ RejectReplay(c) \/ CheckAndMark(c) \/ LookUpNonce(c) \/ MarkNonce(c)
           \/ Execute(c)
  <2>1. /\ pc[c] \in {"tva", "mark", "execute"} /\ pc'[c] \in {"mark", "final", "reply"}
        /\ replay_reason'[c] \in {replay_reason[c], "TVA_NONCE_REPLAY",
                                  TvaRejection(req[c], now[c])}
    BY <1>4 DEF FailTva, RejectReplay, CheckAndMark, LookUpNonce, MarkNonce, Execute, DenyTva,
       MarkAccepted, ReachesStore, Advance, callVars, TypeOK
  <2> QED BY <1>3, <2>1
<1>5. CASE StoreRaises(c)
  <2>1. /\ pc[c] = "tva" /\ pc'[c] = "done" /\ resp'[c] = OnException /\ StoreMayFail
        /\ replay_reason' = replay_reason /\ ~effect'[c]
    BY <1>5 DEF StoreRaises, ReachesStore, Return, callVars, TypeOK, PassedBy
  <2>2. OnException' = OnException
    OBVIOUS
  <2>3. Settled(c)'
    BY <2>1, <2>2 DEF Settled
  <2> QED BY <1>3, <2>1, <2>3
<1>6. CASE DecideFinal(c)
  <2> DEFINE input   == FinalInput(req[c], replay_reason[c])
             valid   == IF replay_reason[c] = OK THEN EvidenceKinds ELSE {}
             allowed == {"eqc", "wsqk"} \cup (IF replay_reason[c] = OK THEN {"tva"} ELSE {})
             denial  == EngineDenied(req[c], input, valid, allowed, consumed[c])
  <2>1. /\ pc[c] = "final" /\ replay_reason' = replay_reason /\ effect' = effect
        /\ authentic' = authentic
    BY <1>6 DEF DecideFinal, callVars
  <2>2. IF Evaluate(input).state = ALLOW THEN Advance(c, "execute") ELSE Return(c, denial)
    BY <1>6, Zenon DEF DecideFinal
  <2>3. CASE Evaluate(input).state = ALLOW
    <3>1. pc'[c] = "execute"
      <4>1. Advance(c, "execute")
        BY <2>2, <2>3, Zenon
      <4> QED BY <4>1 DEF Advance, TypeOK
    <3> QED BY <1>3, <2>1, <3>1
  <2>4. CASE Evaluate(input).state # ALLOW
    <3>1. pc'[c] = "done"
      <4>1. Return(c, denial)
        BY <2>2, <2>4, Zenon
      <4> HIDE DEF denial
      <4> QED BY <4>1 DEF Return, TypeOK
    <3>2. replay_reason[c] # OK \/ ~HumanConfirmed(req[c])
      BY <2>4, FinallyDenied DEF TvaObjected
    <3>3. AtFault(req[c], now[c]) \/ replay_reason[c] = "TVA_NONCE_REPLAY"
      <4>1. ~HumanConfirmed(req[c]) => AtFault(req[c], now[c])
        BY Zenon DEF AtFault
      <4>2. replay_reason[c] # OK =>
              \/ replay_reason[c] = "TVA_NONCE_REPLAY"
              \/ TvaRejection(req[c], now[c]) # OK
        BY DEF Explained, ReplayGateExplained
      <4>3. TvaRejection(req[c], now[c]) # OK => AtFault(req[c], now[c])
        BY Zenon DEF AtFault
      <4> QED BY <3>2, <4>1, <4>2, <4>3
    <3>4. ~effect'[c]
      BY <2>1 DEF PassedBy
    <3>5. Settled(c)'
      BY <1>1, <2>1, <3>3, <3>4 DEF Settled
    <3> QED BY <1>3, <2>1, <3>1, <3>5
  <2> QED BY <2>3, <2>4
<1>7. CASE ExecutorRaises(c)
  <2>1. PICK class \in ExecutorErrors : Return(c, OnExecutorError(class))
    BY <1>7 DEF ExecutorRaises
  <2>2. /\ pc[c] = "execute" /\ pc'[c] = "done" /\ resp'[c] = OnExecutorError(class)
        /\ effect'[c] /\ replay_reason' = replay_reason
    BY <1>7, <2>1 DEF ExecutorRaises, Return, TypeOK
  <2>3. Settled(c)'
    BY <2>2, ExecutorErrorsUnderNoContext DEF Settled
  <2> QED BY <1>3, <2>2, <2>3
<1>8. CASE Reply(c)
  <2>1. /\ pc[c] = "reply" /\ pc'[c] = "done" /\ resp'[c] = AllowResponse(req[c])
        /\ replay_reason' = replay_reason
    BY <1>8 DEF Reply, Return, callVars, TypeOK
  <2>2. resp'[c].status = "allow"
    BY <2>1 DEF AllowResponse
  <2>3. Settled(c)'
    BY <2>2 DEF Settled
  <2> QED BY <1>3, <2>1, <2>3
<1> QED BY <1>2, <1>4, <1>5, <1>6, <1>7, <1>8, Zenon DEF CallStep, StageStep, RaiseStep, EarlyStep

\* Every step preserves the invariant.
LEMMA RefusalsStep ==
  TypeOK /\ GatesPassed /\ DenialsBlame /\ RefusalsExplained /\ [Next]_vars => RefusalsExplained'
<1> SUFFICES ASSUME TypeOK, GatesPassed, DenialsBlame, RefusalsExplained, [Next]_vars
             PROVE  RefusalsExplained'
  OBVIOUS
<1>1. ASSUME NEW c \in Calls, Submit(c) PROVE RefusalsExplained'
  <2>1. PICK r \in Requests : req' = [req EXCEPT ![c] = r]
    BY <1>1 DEF Submit
  <2>2. /\ pc[c] = "new" /\ pc' = [pc EXCEPT ![c] = "parse"] /\ resp' = resp
        /\ now' = [now EXCEPT ![c] = clock]
        /\ UNCHANGED <<deployment, authentic, effect, replay_reason>>
    BY <1>1 DEF Submit, Advance, hostVars
  <2>3. ASSUME NEW d \in Calls \ {c} PROVE Explained(d)'
    <3>1. /\ req'[d] = req[d] /\ now'[d] = now[d] /\ pc'[d] = pc[d]
          /\ deployment' = deployment /\ authentic'[d] = authentic[d]
          /\ effect'[d] = effect[d] /\ replay_reason'[d] = replay_reason[d]
          /\ resp'[d] = resp[d]
      BY <2>1, <2>2 DEF TypeOK
    <3> QED BY <3>1, ExplainedKept DEF RefusalsExplained
  <2>4. Explained(c)'
    <3>1. pc'[c] = "parse" /\ authentic'[c] = {} /\ replay_reason'[c] = OK
      BY <2>2 DEF TypeOK, RefusalsExplained, Explained, Unasked, GatesPassed, PassedBy
    <3> QED BY <3>1 DEF Explained, Unasked, ReplayGateExplained
  <2> QED BY <2>3, <2>4 DEF RefusalsExplained
<1>2. ASSUME NEW c \in Calls, CallStep(c) PROVE RefusalsExplained'
  <2>1. ASSUME NEW d \in Calls \ {c} PROVE Explained(d)'
    <3>1. /\ pc'[d] = pc[d] /\ resp'[d] = resp[d] /\ replay_reason'[d] = replay_reason[d]
          /\ effect'[d] = effect[d] /\ Kept(d)
      BY <1>2, CallStepKeeps
    <3>2. authentic'[d] = authentic[d]
      <4>1. StepShape(c)
        BY <1>2, CallStepShape
      <4> QED BY <4>1 DEF StepShape, TypeOK
    <3> QED BY <3>1, <3>2, ExplainedKept DEF RefusalsExplained, Kept
  <2>2. Explained(c)'
    BY <1>2, StepExplained DEF GatesPassed, DenialsBlame, RefusalsExplained
  <2> QED BY <2>1, <2>2 DEF RefusalsExplained
<1>3. ASSUME UNCHANGED <<deployment, callVars, resp>>,
             \A c \in Calls : pc'[c] \in {pc[c], "lost"}
      PROVE  RefusalsExplained'
  BY <1>3, ExplainedKept DEF RefusalsExplained, callVars
<1>4. CASE Crash
  BY <1>3, <1>4 DEF Crash
<1>5. CASE Tick
  BY <1>3, <1>5 DEF Tick
<1>6. CASE UNCHANGED vars
  BY <1>3, <1>6 DEF vars, hostVars
<1> QED BY <1>1, <1>2, <1>4, <1>5, <1>6 DEF Next

\* Every refusal is explained.
LEMMA RefusalsHold == Spec => [](TypeOK /\ GatesPassed /\ ResponsesBacked /\ RefusalsExplained)
<1>1. Init => RefusalsExplained
  BY DEF Init, RefusalsExplained, Explained, Unasked, ReplayGateExplained
<1>2. Init => DenialsBlame
  <2>1. Objects(OK)
    BY DEF Objects, OK
  <2> QED BY <2>1 DEF Init, DenialsBlame, TvaObjected
<1> QED BY <1>1, <1>2, DenialsStep, RefusalsStep, ResponsesHold, PTL DEF Spec

\* A call that is not approved in front of the executor has a fault, a verifier against
\* it, a nonce that was taken, or a store that raised.
THEOREM RefusedForACause == Spec => []RefusedForCause
<1>1. ASSUME RefusalsExplained PROVE RefusedForCause
  BY <1>1 DEF RefusalsExplained, Explained, Settled, RefusedForCause, Done
<1> QED BY <1>1, RefusalsHold, PTL

\* Whatever exceptions the executor raises, a response under a context of its own says
\* "allow" exactly when the executor was entered.
THEOREM AnswersTell == Spec => []AnswersUnderContextTellTheEffect
<1>1. ASSUME RefusalsExplained, ResponsesBacked PROVE AnswersUnderContextTellTheEffect
  BY <1>1 DEF RefusalsExplained, Explained, Settled, ResponsesBacked, Backed,
     AnswersUnderContextTellTheEffect, Done
<1> QED BY <1>1, RefusalsHold, PTL

(***************************************************************************)
(* A replay repeats what another call took.                                *)
(***************************************************************************)

\* Call d took key k: it was told so, or its store raised with the mark made.
Took(d, k) ==
  /\ req[d] # NoRequest /\ Key(d) = k
  /\ consumed[d] \/ (Done(d) /\ resp[d] = OnException)

\* The inductive invariant: over either store, every mark has an owner, and a call
\* refused as a replay has one in front of it.
MarksOwned ==
  /\ \A k \in used : \E d \in Calls : Took(d, k)
  /\ ReplayedForCause

\* The chain of checks in front of the store never says what only the store can say.
LEMMA ChainSaysNoReplay ==
  ASSUME NEW s, NEW n \in Nat, Len(s) = n, \A i \in 1..n : s[i] # "TVA_NONCE_REPLAY"
  PROVE  FirstRejection(s) # "TVA_NONCE_REPLAY"
<1>1. FirstRejection(s) # OK => \E i \in 1..n : FirstRejection(s) = s[i]
  BY FirstRejectionOutcome
<1> QED BY <1>1 DEF OK

LEMMA FamiliesSayNoReplay ==
  ASSUME NEW families \in Seq(STRING)
  PROVE  FamiliesRejection(families) # "TVA_NONCE_REPLAY"
<1> DEFINE n == Len(families)
           s == [i \in 1..n |->
                   IF Strip(families[i]) = Blank THEN "WSQK_V2_INVALID_EVIDENCE_FAMILIES"
                   ELSE Reject("WSQK_V2_UNKNOWN_EVIDENCE_FAMILY",
                               Strip(families[i]) \notin AllowedFamilies)]
<1>1. n \in Nat /\ Len(s) = n
  OBVIOUS
<1>2. \A i \in 1..n : s[i] # "TVA_NONCE_REPLAY"
  BY DEF Reject, OK
<1>3. FirstRejection(s) # "TVA_NONCE_REPLAY"
  <2> HIDE DEF s, n
  <2> QED BY <1>1, <1>2, ChainSaysNoReplay
<1>4. FamiliesRejection(families)
        = IF families = <<>> THEN "WSQK_V2_INVALID_EVIDENCE_FAMILIES" ELSE FirstRejection(s)
  BY DEF FamiliesRejection
<1> HIDE DEF s
<1> QED BY <1>3, <1>4

LEMMA TvaSaysNoReplay ==
  ASSUME NEW r \in Requests, NEW t
  PROVE  TvaRejection(r, t) # "TVA_NONCE_REPLAY"
<1> DEFINE asked     == FamiliesRejection(r.wsqk.families)
           wanted    == FamiliesRejection(r.scope.families)
           chosen    == CanonicalFamilies(r.wsqk.families) # CanonicalFamilies(r.scope.families)
           posed     == r.wsqk.posture # Strip(r.scope.posture)
           bound     == r.wsqk.binding # WsqkBinding(r.wsqk)
           p == << Reject("TVA_WSQK_V2_REQUIRED", r.wsqk.kind # "v2"), asked, wanted,
                   Reject("TVA_WSQK_V2_EVIDENCE_FAMILY_MISMATCH", chosen),
                   Reject("TVA_WSQK_V2_QUANTUM_POSTURE_MISMATCH", posed),
                   Reject("TVA_WSQK_V2_PROOF_BINDINGS_HASH_MISMATCH", bound) >>
<1>1. asked # "TVA_NONCE_REPLAY" /\ wanted # "TVA_NONCE_REPLAY"
  BY RequestAssumption, FamiliesSayNoReplay
<1>2. PostureRejection(r.wsqk, r.scope) = IF r.scope.kind # "v2" THEN OK ELSE FirstRejection(p)
  BY DEF PostureRejection
<1> HIDE DEF asked, wanted, chosen, posed, bound
<1>3. FirstRejection(p) # "TVA_NONCE_REPLAY"
  <2>1. Len(p) = 6
    OBVIOUS
  <2>2. \A i \in 1..6 : p[i] # "TVA_NONCE_REPLAY"
    BY <1>1 DEF Reject, OK
  <2> HIDE DEF p
  <2> QED BY <2>1, <2>2, ChainSaysNoReplay
<1> DEFINE posture == PostureRejection(r.wsqk, r.scope)
           context == RequestContext(r)
           s == <<
        Reject("TVA_AUTHORITY_WALLET_MISMATCH", r.wsqk.wallet # r.wallet),
        Reject("TVA_AUTHORITY_ACTION_MISMATCH", r.wsqk.action # r.action),
        Reject("TVA_AUTHORITY_CONTEXT_HASH_MISMATCH", r.wsqk.context # context),
        Reject("TVA_INVALID_TIME_WINDOW", r.wsqk.expires_at < r.wsqk.issued_at),
        Reject("TVA_AUTHORITY_NOT_YET_VALID", t < r.wsqk.issued_at),
        Reject("TVA_AUTHORITY_EXPIRED", t > r.wsqk.expires_at),
        posture,
        Reject("TVA_INVALID_NONCE", Strip(r.wsqk.nonce) = Blank) >>
<1>4. posture # "TVA_NONCE_REPLAY"
  BY <1>2, <1>3 DEF OK
<1>5. FirstRejection(s) = TvaRejection(r, t)
  BY DEF TvaRejection
<1> HIDE DEF posture, context, p
<1>6. Len(s) = 8
  OBVIOUS
<1>7. \A i \in 1..8 : s[i] # "TVA_NONCE_REPLAY"
  BY <1>4 DEF Reject, OK
<1>8. FirstRejection(s) # "TVA_NONCE_REPLAY"
  <2> HIDE DEF s
  <2> QED BY <1>6, <1>7, ChainSaysNoReplay
<1> QED BY <1>5, <1>8

\* What a call has taken it keeps.
LEMMA TookKept ==
  ASSUME NEW d \in Calls, NEW k, Took(d, k), req'[d] = req[d],
         consumed[d] => consumed'[d], Done(d) => Done(d)' /\ resp'[d] = resp[d]
  PROVE  Took(d, k)'
<1>1. OnException' = OnException
  OBVIOUS
<1> QED BY <1>1 DEF Took, Key

\* A step in which nothing is marked and nobody is refused as a replay.
LEMMA OwnedQuiet ==
  ASSUME TypeOK, MarksOwned, used' \subseteq used,
         \A d \in Calls : req'[d] = req[d] \/ (pc[d] = "new" /\ replay_reason[d] = OK
                                                /\ ~consumed[d]),
         \A d \in Calls : consumed[d] => consumed'[d],
         \A d \in Calls : Done(d) => Done(d)' /\ resp'[d] = resp[d],
         \A d \in Calls : replay_reason'[d] = "TVA_NONCE_REPLAY" =>
                            replay_reason[d] = "TVA_NONCE_REPLAY"
  PROVE  MarksOwned'
<1>1. ASSUME NEW d \in Calls, NEW k, Took(d, k) PROVE Took(d, k)'
  <2>1. req'[d] = req[d]
    BY <1>1 DEF Took, TypeOK, Done
  <2> QED BY <1>1, <2>1, TookKept
<1>2. \A k \in used' : \E d \in Calls : Took(d, k)'
  BY <1>1 DEF MarksOwned
<1>3. ASSUME NEW c \in Calls, replay_reason'[c] = "TVA_NONCE_REPLAY"
      PROVE  \E d \in Calls \ {c} : Took(d, Key(c))'
  <2>1. replay_reason[c] = "TVA_NONCE_REPLAY" /\ req'[c] = req[c]
    BY <1>3 DEF OK
  <2>2. PICK d \in Calls \ {c} : Took(d, Key(c))
    BY <2>1 DEF MarksOwned, ReplayedForCause, Took
  <2>3. Key(c)' = Key(c)
    BY <2>1 DEF Key
  <2> QED BY <1>1, <2>2, <2>3 DEF Took
<1> QED BY <1>2, <1>3 DEF MarksOwned, ReplayedForCause, Took

\* A call that marks becomes the owner of its mark.
LEMMA OwnedMark ==
  ASSUME TypeOK, MarksOwned, NEW c \in Calls, pc[c] \in {"tva", "mark"},
         used' \subseteq used \cup {Key(c)}, req' = req, replay_reason' = replay_reason,
         \A d \in Calls : consumed[d] => consumed'[d],
         \A d \in Calls \ {c} : pc'[d] = pc[d] /\ resp'[d] = resp[d],
         consumed'[c] \/ (Done(c)' /\ resp'[c] = OnException)
  PROVE  MarksOwned'
<1>0. OnException' = OnException
  OBVIOUS
<1>1. ASSUME NEW d \in Calls, NEW k, Took(d, k) PROVE Took(d, k)'
  <2>1. Done(d) => Done(d)' /\ resp'[d] = resp[d]
    BY DEF Done
  <2> QED BY <1>1, <2>1, TookKept
<1>2. Took(c, Key(c))'
  <2>1. req[c] # NoRequest
    BY DEF TypeOK
  <2> QED BY <1>0, <2>1 DEF Took, Key
<1>3. \A d \in Calls : Key(d)' = Key(d)
  BY DEF Key
<1>4. \A k \in used' : \E d \in Calls : Took(d, k)'
  BY <1>1, <1>2, <1>3 DEF MarksOwned
<1>5. ASSUME NEW e \in Calls, replay_reason'[e] = "TVA_NONCE_REPLAY"
      PROVE  \E d \in Calls \ {e} : Took(d, Key(e))'
  <2>1. PICK d \in Calls \ {e} : Took(d, Key(e))
    BY <1>5 DEF MarksOwned, ReplayedForCause, Took
  <2> QED BY <1>1, <1>3, <2>1 DEF Took
<1> QED BY <1>4, <1>5 DEF MarksOwned, ReplayedForCause, Took

\* No call has spent its nonce in front of the final decision.
NotYetSpent ==
  \A c \in Calls : pc[c] \in EarlyStages \cup {"new", "tva", "mark"} => ~consumed[c]

LEMMA NotYetSpentStep == TypeOK /\ NotYetSpent /\ [Next]_vars => NotYetSpent'
<1> SUFFICES ASSUME TypeOK, NotYetSpent, [Next]_vars PROVE NotYetSpent'
  OBVIOUS
<1>1. ASSUME NEW c \in Calls, Submit(c) PROVE NotYetSpent'
  BY <1>1 DEF Submit, Advance, NotYetSpent, TypeOK
<1>2. ASSUME NEW c \in Calls, CallStep(c) PROVE NotYetSpent'
  <2>1. StepShape(c) /\ \A d \in Calls \ {c} : pc'[d] = pc[d] /\ consumed'[d] = consumed[d]
    BY <1>2, CallStepShape, CallStepKeeps
  <2>2. CASE consumed' = consumed
    <3>1. pc[c] \in EarlyStages \cup {"new", "tva", "mark"} \/ pc[c] \in {"final", "execute", "reply"}
      BY <2>1 DEF StepShape, Stages, EarlyStages
    <3>2. pc[c] \in {"final", "execute", "reply"} =>
            pc'[c] \notin EarlyStages \cup {"new", "tva", "mark"}
      <4>1. pc[c] \in {"final", "execute", "reply"} =>
              DecideFinal(c) \/ Execute(c) \/ ExecutorRaises(c) \/ Reply(c)
        <5>1. EarlyStep(c) => pc[c] \in EarlyStages
          BY EarlyStepShape
        <5> QED BY <1>2, <5>1, Zenon DEF CallStep, StageStep, RaiseStep, EarlyStep, EarlyStages, FailTva, RejectReplay,
               CheckAndMark, LookUpNonce, MarkNonce, StoreRaises, ReachesStore
      <4>2. DecideFinal(c) \/ Execute(c) \/ ExecutorRaises(c) \/ Reply(c) =>
              pc'[c] \in {"execute", "reply", "done"}
        BY DEF DecideFinal, Execute, ExecutorRaises, Reply, Advance, Return, TypeOK
      <4> QED BY <4>1, <4>2 DEF EarlyStages
    <3> QED BY <2>1, <2>2, <3>1, <3>2 DEF NotYetSpent
  <2>3. CASE consumed' # consumed
    <3>1. CheckAndMark(c) \/ MarkNonce(c)
      <4>1. EarlyStep(c) => consumed' = consumed
        BY EarlyStepShape
      <4>2. FailTva(c) \/ RejectReplay(c) \/ LookUpNonce(c) \/ StoreRaises(c) \/ DecideFinal(c)
            \/ Execute(c) \/ ExecutorRaises(c) \/ Reply(c) => consumed' = consumed
        BY DEF FailTva, RejectReplay, LookUpNonce, StoreRaises, DecideFinal, Execute,
           ExecutorRaises, Reply, DenyTva, callVars
      <4> QED BY <1>2, <2>3, <4>1, <4>2, Zenon DEF CallStep, StageStep, RaiseStep, EarlyStep
    <3>2. pc'[c] = "final"
      BY <3>1 DEF CheckAndMark, MarkNonce, MarkAccepted, Advance, TypeOK
    <3> QED BY <2>1, <3>2 DEF NotYetSpent, EarlyStages
  <2> QED BY <2>2, <2>3
<1>3. CASE Crash
  BY <1>3 DEF Crash, NotYetSpent, callVars, EarlyStages
<1>4. CASE Tick \/ UNCHANGED vars
  BY <1>4 DEF Tick, vars, callVars, NotYetSpent
<1> QED BY <1>1, <1>2, <1>3, <1>4 DEF Next

\* Every step preserves the invariant.
LEMMA MarksOwnedStep ==
  TypeOK /\ GatesPassed /\ NotYetSpent /\ MarksOwned /\ [Next]_vars => MarksOwned'
<1> SUFFICES ASSUME TypeOK, GatesPassed, NotYetSpent, MarksOwned, [Next]_vars
             PROVE  MarksOwned'
  OBVIOUS
<1>1. ASSUME NEW c \in Calls, Submit(c) PROVE MarksOwned'
  <2>1. PICK r \in Requests : req' = [req EXCEPT ![c] = r]
    BY <1>1 DEF Submit
  <2>2. /\ pc[c] = "new" /\ pc' = [pc EXCEPT ![c] = "parse"] /\ resp' = resp
        /\ UNCHANGED <<used, consumed, replay_reason>>
    BY <1>1 DEF Submit, Advance
  <2>3. replay_reason[c] = OK
    BY <2>2 DEF GatesPassed, PassedBy
  <2>4. \A d \in Calls : Done(d) => Done(d)' /\ resp'[d] = resp[d]
    BY <2>2 DEF Done, TypeOK
  <2>5. \A d \in Calls : req'[d] = req[d] \/ (pc[d] = "new" /\ replay_reason[d] = OK
                                               /\ ~consumed[d])
    BY <2>1, <2>2, <2>3 DEF TypeOK, NotYetSpent
  <2> QED BY <2>2, <2>4, <2>5, OwnedQuiet
<1>2. ASSUME NEW c \in Calls, CallStep(c) PROVE MarksOwned'
  <2>1. StepShape(c)
    BY <1>2, CallStepShape
  <2>2. /\ req' = req
        /\ \A d \in Calls : consumed[d] => consumed'[d]
        /\ \A d \in Calls \ {c} : /\ pc'[d] = pc[d] /\ resp'[d] = resp[d]
                                  /\ replay_reason'[d] = replay_reason[d]
    BY <1>2, <2>1, CallStepKeeps DEF StepShape, CallFrame, TypeOK
  <2>3. pc[c] \in Stages /\ pc[c] # "done" /\ req[c] \in Requests
    BY <2>1 DEF StepShape, Stages, TypeOK
  <2>4. \A d \in Calls : Done(d) => Done(d)' /\ resp'[d] = resp[d]
    BY <2>2, <2>3 DEF Done
  <2>5. ASSUME used' = used, replay_reason'[c] = "TVA_NONCE_REPLAY" =>
                               replay_reason[c] = "TVA_NONCE_REPLAY"
        PROVE  MarksOwned'
    BY <2>2, <2>4, <2>5, OwnedQuiet
  <2>6. CASE EarlyStep(c)
    BY <2>5, <2>6, EarlyStepShape
  <2>7. CASE FailTva(c)
    <3>1. replay_reason'[c] = TvaRejection(req[c], now[c]) /\ used' = used
      BY <2>7 DEF FailTva, DenyTva, TypeOK
    <3> QED BY <2>3, <2>5, <3>1, TvaSaysNoReplay
  <2>8. CASE RejectReplay(c)
    <3>1. /\ pc[c] = "tva" /\ Key(c) \in used /\ used' = used /\ consumed' = consumed
      BY <2>8 DEF RejectReplay, ReachesStore, DenyTva
    <3>2. PICK owner \in Calls : Took(owner, Key(c))
      BY <3>1 DEF MarksOwned
    <3>3. owner # c
      <4>1. ~consumed[c]
        BY <3>1 DEF NotYetSpent
      <4> QED BY <3>1, <3>2, <4>1 DEF Took, Done
    <3>4. ASSUME NEW d \in Calls, NEW k, Took(d, k) PROVE Took(d, k)'
      BY <2>2, <2>4, <3>4, TookKept
    <3>5. \A d \in Calls : Key(d)' = Key(d)
      BY <2>2 DEF Key
    <3>6. \A k \in used' : \E d \in Calls : Took(d, k)'
      BY <3>1, <3>4 DEF MarksOwned
    <3>7. ASSUME NEW e \in Calls, replay_reason'[e] = "TVA_NONCE_REPLAY"
          PROVE  \E d \in Calls \ {e} : Took(d, Key(e))'
      <4>1. CASE e = c
        BY <3>2, <3>3, <3>4, <3>5, <4>1 DEF Took
      <4>2. CASE e # c
        <5>1. PICK d \in Calls \ {e} : Took(d, Key(e))
          BY <2>2, <3>7, <4>2 DEF MarksOwned, ReplayedForCause, Took
        <5> QED BY <3>4, <3>5, <5>1 DEF Took
      <4> QED BY <4>1, <4>2
    <3> QED BY <3>6, <3>7 DEF MarksOwned, ReplayedForCause, Took
  <2>9. CASE CheckAndMark(c) \/ MarkNonce(c)
    <3>1. /\ pc[c] \in {"tva", "mark"} /\ used' = used \cup {Key(c)}
          /\ consumed'[c] /\ replay_reason' = replay_reason
      BY <2>9 DEF CheckAndMark, MarkNonce, ReachesStore, MarkAccepted, TypeOK
    <3> QED BY <2>2, <3>1, OwnedMark
  <2>10. CASE StoreRaises(c)
    <3>1. /\ pc[c] = "tva" /\ used' \subseteq used \cup {Key(c)}
          /\ replay_reason' = replay_reason
          /\ Done(c)' /\ resp'[c] = OnException
      BY <2>10 DEF StoreRaises, ReachesStore, Return, Done, callVars, TypeOK
    <3> QED BY <2>2, <3>1, OwnedMark
  <2>11. CASE LookUpNonce(c) \/ DecideFinal(c) \/ Execute(c) \/ ExecutorRaises(c) \/ Reply(c)
    <3>1. used' = used /\ replay_reason' = replay_reason
      BY <2>11 DEF LookUpNonce, DecideFinal, Execute, ExecutorRaises, Reply, callVars
    <3> QED BY <2>5, <3>1
  <2> QED BY <1>2, <2>6, <2>7, <2>8, <2>9, <2>10, <2>11, Zenon DEF CallStep, StageStep, RaiseStep, EarlyStep
<1>3. ASSUME UNCHANGED <<callVars, resp>>, used' \subseteq used,
             \A d \in Calls : Done(d) => Done(d)'
      PROVE  MarksOwned'
  BY <1>3, OwnedQuiet DEF callVars
<1>4. CASE Crash
  <2>1. \A d \in Calls : Done(d) => Done(d)'
    BY <1>4 DEF Crash, Done, InFlight, Stages
  <2> QED BY <1>3, <1>4, <2>1 DEF Crash
<1>5. CASE Tick
  BY <1>3, <1>5 DEF Tick, Done
<1>6. CASE UNCHANGED vars
  BY <1>3, <1>6 DEF vars, Done
<1> QED BY <1>1, <1>2, <1>4, <1>5, <1>6 DEF Next

\* Over either store a nonce is only refused as a replay after another call took it.
THEOREM ReplayedForACause == Spec => []ReplayedForCause
<1>1. Init => MarksOwned
  BY DEF Init, MarksOwned, ReplayedForCause, OK
<1>2. Init => NotYetSpent
  BY DEF Init, NotYetSpent
<1>3. MarksOwned => ReplayedForCause
  BY DEF MarksOwned
<1> QED BY <1>1, <1>2, <1>3, NotYetSpentStep, MarksOwnedStep, GatesHold, PTL DEF Spec

(***************************************************************************)
(* What a response says of the nonce.                                      *)
(***************************************************************************)

Truthful(c) == resp[c].context = ZeroContext \/ (resp[c].consumed <=> consumed[c])

ConsumptionReported == \A c \in Calls : pc[c] = "done" => Truthful(c)

\* A stage that decides and ends the call has answered with its denial.
LEMMA DecideAnswers ==
  ASSUME NEW c \in Calls, TypeOK, NEW rejection, NEW stage \in Stages, NEW response,
         Decide(c, rejection, stage, response), pc'[c] = "done"
  PROVE  resp'[c] = response
<1>1. ~Advance(c, stage)
  BY DEF Advance, TypeOK, Stages
<1>2. Return(c, response)
  BY <1>1 DEF Decide
<1> QED BY <1>2 DEF Return, TypeOK

\* No answer but those of the final decision and of the executor says that a nonce is
\* consumed.
LEMMA EarlyAnswersUnconsumed ==
  ASSUME NEW c \in Calls, TypeOK, EarlyStep(c), pc'[c] = "done"
  PROVE  ~resp'[c].consumed
<1>1. /\ \A reason : ~OnAdapterError(reason).consumed
      /\ \A reason : ~OnTVAError(reason).consumed
      /\ \A reason : ~OnEnvelopeError(reason).consumed
      /\ ~OnException.consumed
      /\ ~PostureDenied(req[c]).consumed
  BY DEF Response, OnAdapterError, OnTVAError, OnEnvelopeError, OnException, PostureDenied
<1>2. \A input, valid, allowed : ~EngineDenied(req[c], input, valid, allowed, FALSE).consumed
  BY DEF EngineDenied
<1>3. {"posture", "qid", "replay_proof", "oracle", "shield", "eqc", "authority", "tva"}
        \subseteq Stages
  BY DEF Stages
<1>4. \A response : Return(c, response) => resp'[c] = response
  BY DEF Return, TypeOK
<1>5. CASE ParseEnvelope(c)
  BY <1>1, <1>3, <1>5, DecideAnswers DEF ParseEnvelope
<1>6. CASE CheckPosture(c)
  <2>1. CASE ScopeRejection(req[c]) # OK
    BY <1>1, <1>4, <1>6, <2>1, Zenon DEF CheckPosture
  <2>2. CASE ScopeRejection(req[c]) = OK /\ ~deployment.valid
    BY <1>1, <1>4, <1>6, <2>2, Zenon DEF CheckPosture
  <2>3. CASE ScopeRejection(req[c]) = OK /\ deployment.valid
    <3>1. Decide(c, LatchRejection(req[c]), "qid", PostureDenied(req[c]))
      BY <1>6, <2>3, Zenon DEF CheckPosture
    <3> QED BY <1>1, <1>3, <3>1, DecideAnswers
  <2> QED BY <2>1, <2>2, <2>3
<1>7. CASE VerifyQid(c)
  <2>1. PICK outcome \in Outcomes(deployment.qid_verifier) :
          Decide(c, QidRejection(req[c].qid, outcome, now[c]), "replay_proof",
                 EngineDenied(req[c],
                   EvidenceRejected(req[c], "qid", QidRejection(req[c].qid, outcome, now[c])),
                   {}, {}, FALSE))
    BY <1>7, Zenon DEF VerifyQid
  <2> QED BY <1>2, <1>3, <2>1, DecideAnswers
<1>8. CASE VerifyReplayProof(c)
  <2> DEFINE rejection == IF ReplayProofRequired(req[c])
                          THEN ReplayProofRejection(req[c].qid, req[c].wallet, req[c].nonce)
                          ELSE OK
  <2>1. Decide(c, rejection, "oracle",
               EngineDenied(req[c], ReplayProofRejected(req[c], rejection), {}, {}, FALSE))
    BY <1>8, Zenon DEF VerifyReplayProof
  <2> HIDE DEF rejection
  <2> QED BY <1>2, <1>3, <2>1, DecideAnswers
<1>9. CASE VerifyOracle(c)
  <2>1. PICK rejection : Decide(c, rejection, "shield",
               EngineDenied(req[c], EvidenceRejected(req[c], "adaptive_core", rejection),
                            {"qid"}, {}, FALSE))
    BY <1>9, Zenon DEF VerifyOracle
  <2> QED BY <1>2, <1>3, <2>1, DecideAnswers
<1>10. CASE VerifyShieldReceipt(c)
  <2>1. PICK raised, state :
          IF raised # OK THEN Return(c, OnAdapterError(raised))
          ELSE IF ~ReceiptAccepted(state)
          THEN Return(c, EngineDenied(req[c],
                 EvidenceRejected(req[c], "shield", ReceiptReason(state)),
                 {"qid", "oracle"}, {}, FALSE))
          ELSE Decide(c, InternalizeRejection(req[c].shield), "eqc",
                      OnAdapterError(InternalizeRejection(req[c].shield)))
    BY <1>10, Zenon DEF VerifyShieldReceipt
  <2>2. CASE raised # OK
    BY <1>1, <1>4, <2>1, <2>2, Zenon
  <2>3. CASE raised = OK /\ ~ReceiptAccepted(state)
    BY <1>2, <1>4, <2>1, <2>3, Zenon
  <2>4. CASE raised = OK /\ ReceiptAccepted(state)
    <3>1. Decide(c, InternalizeRejection(req[c].shield), "eqc",
                 OnAdapterError(InternalizeRejection(req[c].shield)))
      BY <2>1, <2>4, Zenon
    <3> QED BY <1>1, <1>3, <3>1, DecideAnswers
  <2> QED BY <2>2, <2>3, <2>4
<1>11. CASE ParseShieldBundle(c)
  <2>1. PICK rejection : Decide(c, rejection, "eqc",
               EngineDenied(req[c], EvidenceRejected(req[c], "shield", rejection),
                            {"qid", "oracle"}, {}, FALSE))
    BY <1>11, Zenon DEF ParseShieldBundle
  <2> QED BY <1>2, <1>3, <2>1, DecideAnswers
<1>12. CASE EvaluateEqc(c)
  <2>1. PICK rejection : Decide(c, rejection, "authority",
               EngineDenied(req[c], LocalGateFailed(req[c], "wallet_policy", rejection),
                            EvidenceKinds, {}, FALSE))
    BY <1>12, Zenon DEF EvaluateEqc
  <2> QED BY <1>2, <1>3, <2>1, DecideAnswers
<1>13. CASE ExtractAuthority(c)
  <2>1. PICK rejection : Decide(c, rejection, "tva",
               EngineDenied(req[c], EvidenceRejected(req[c], "wsqk_v2", rejection),
                            EvidenceKinds, {"eqc"}, FALSE))
    BY <1>13, Zenon DEF ExtractAuthority
  <2> QED BY <1>2, <1>3, <2>1, DecideAnswers
<1> QED BY <1>5, <1>6, <1>7, <1>8, <1>9, <1>10, <1>11, <1>12, <1>13, Zenon DEF EarlyStep

\* A step that ends a call answers truthfully.
LEMMA StepTruthful ==
  ASSUME NEW c \in Calls, TypeOK, PassedBy(c), NotYetSpent, CallStep(c), pc'[c] = "done"
  PROVE  Truthful(c)'
<1>0. ZeroContext' = ZeroContext
  OBVIOUS
<1>1. CASE EarlyStep(c)
  <2>1. pc[c] \in EarlyStages /\ consumed' = consumed
    BY <1>1, EarlyStepShape
  <2>2. ~consumed'[c]
    BY <2>1 DEF NotYetSpent
  <2> QED BY <1>1, <2>2, EarlyAnswersUnconsumed DEF Truthful
<1>2. CASE StoreRaises(c)
  <2>1. resp'[c] = OnException
    BY <1>2 DEF StoreRaises, Return, TypeOK
  <2> QED BY <1>0, <2>1 DEF OnException, Response, Truthful
<1>3. CASE DecideFinal(c)
  <2> DEFINE input   == FinalInput(req[c], replay_reason[c])
             valid   == IF replay_reason[c] = OK THEN EvidenceKinds ELSE {}
             allowed == {"eqc", "wsqk"} \cup (IF replay_reason[c] = OK THEN {"tva"} ELSE {})
             denial  == EngineDenied(req[c], input, valid, allowed, consumed[c])
  <2>1. IF Evaluate(input).state = ALLOW THEN Advance(c, "execute") ELSE Return(c, denial)
    BY <1>3, Zenon DEF DecideFinal
  <2>2. Return(c, denial) /\ consumed' = consumed
    <3>1. ~Advance(c, "execute")
      BY DEF Advance, TypeOK
    <3>2. consumed' = consumed
      BY <1>3 DEF DecideFinal, callVars
    <3> QED BY <2>1, <3>1, <3>2, Zenon
  <2>3. denial.consumed = consumed[c]
    <3> HIDE DEF input, valid, allowed
    <3> QED BY DEF EngineDenied, denial
  <2> HIDE DEF denial
  <2> QED BY <2>2, <2>3 DEF Return, TypeOK, Truthful
<1>4. CASE ExecutorRaises(c)
  <2>1. PICK class \in ExecutorErrors : resp'[c] = OnExecutorError(class)
    BY <1>4 DEF ExecutorRaises, Return, TypeOK
  <2>2. OnExecutorError(class).context = ZeroContext
    BY DEF OnExecutorError, OnAdapterError, OnTVAError, OnEnvelopeError, OnException, Response
  <2> QED BY <1>0, <2>1, <2>2 DEF Truthful
<1>5. CASE Reply(c)
  <2>1. pc[c] = "reply" /\ consumed' = consumed /\ resp'[c] = AllowResponse(req[c])
    BY <1>5 DEF Reply, Return, TypeOK, callVars
  <2>2. consumed[c]
    BY <2>1 DEF PassedBy, Past, BehindStore
  <2> QED BY <2>1, <2>2 DEF AllowResponse, Truthful
<1>6. CASE FailTva(c) \/ RejectReplay(c) \/ CheckAndMark(c) \/ MarkNonce(c)
           \/ LookUpNonce(c) \/ Execute(c)
  BY <1>6 DEF FailTva, RejectReplay, DenyTva, CheckAndMark, MarkNonce, MarkAccepted,
     LookUpNonce, Execute, Advance, TypeOK
<1> QED BY <1>1, <1>2, <1>3, <1>4, <1>5, <1>6, Zenon DEF CallStep, StageStep, RaiseStep, EarlyStep

\* Every step preserves the invariant: an answer that is out stays true.
LEMMA ConsumptionStep ==
  TypeOK /\ GatesPassed /\ NotYetSpent /\ ConsumptionReported /\ [Next]_vars
    => ConsumptionReported'
<1> SUFFICES ASSUME TypeOK, GatesPassed, NotYetSpent, ConsumptionReported, [Next]_vars
             PROVE  ConsumptionReported'
  OBVIOUS
<1>0. ASSUME NEW d \in Calls, pc[d] = "done", resp'[d] = resp[d], consumed'[d] = consumed[d]
      PROVE  Truthful(d)'
  BY <1>0 DEF ConsumptionReported, Truthful
<1>1. ASSUME NEW c \in Calls, Submit(c) PROVE ConsumptionReported'
  BY <1>0, <1>1 DEF Submit, Advance, TypeOK, ConsumptionReported
<1>2. ASSUME NEW c \in Calls, CallStep(c) PROVE ConsumptionReported'
  <2>1. ASSUME NEW d \in Calls \ {c}, pc'[d] = "done" PROVE Truthful(d)'
    BY <1>0, <1>2, <2>1, CallStepKeeps
  <2>2. pc'[c] = "done" => Truthful(c)'
    BY <1>2, StepTruthful DEF GatesPassed
  <2> QED BY <2>1, <2>2 DEF ConsumptionReported
<1>3. CASE Crash
  BY <1>0, <1>3 DEF Crash, callVars, ConsumptionReported
<1>4. CASE Tick \/ UNCHANGED vars
  BY <1>0, <1>4 DEF Tick, vars, callVars, ConsumptionReported
<1> QED BY <1>1, <1>2, <1>3, <1>4 DEF Next

\* Whatever the store and the executor raise, an answer under a context of its own says
\* of the nonce what is so: consumed exactly when the call's mark was accepted, for good
\* over a durable store, and always with "allow".
THEOREM ResponsesTell == Spec => []ResponseTellsTheNonce
<1>1. ASSUME ResponsesBacked, ConsumptionReported,
             DurableStore => SingleUse
      PROVE  ResponseTellsTheNonce
  <2>1. \A c \in Calls : DurableStore /\ consumed[c] => Key(c) \in used
    BY <1>1 DEF SingleUse
  <2> QED BY <1>1, <2>1 DEF ResponsesBacked, Backed, ConsumptionReported, Truthful,
          ResponseTellsTheNonce, Done
<1>2. Init => NotYetSpent /\ ConsumptionReported
  BY DEF Init, NotYetSpent, ConsumptionReported
<1>3. Spec => []ConsumptionReported
  BY <1>2, NotYetSpentStep, ConsumptionStep, GatesHold, PTL DEF Spec
<1>4. CASE DurableStore
  <2>1. Spec => [](TypeOK /\ SingleUse)
    BY <1>4, SingleUseHolds
  <2>2. ResponsesBacked /\ ConsumptionReported /\ SingleUse => ResponseTellsTheNonce
    BY <1>1
  <2> QED BY <1>3, <2>1, <2>2, ResponsesHold, PTL
<1>5. CASE ~DurableStore
  <2>1. ResponsesBacked /\ ConsumptionReported => ResponseTellsTheNonce
    BY <1>1, <1>5
  <2> QED BY <1>3, <2>1, ResponsesHold, PTL
<1> QED BY <1>4, <1>5

(***************************************************************************)
(* Every step of a call leads on.                                          *)
(***************************************************************************)

\* The stages a call has still to run, at most.
Left == [parse |-> 13, posture |-> 12, qid |-> 11, replay_proof |-> 10, oracle |-> 9,
         shield |-> 8, eqc |-> 7, authority |-> 6, tva |-> 5, mark |-> 4, final |-> 3,
         execute |-> 2, reply |-> 1, done |-> 0, lost |-> 0]

LeadOn ==
  \A c \in Calls :
    /\ CallStep(c) => Left[pc'[c]] < Left[pc[c]]
    /\ pc[c] # "new" => Left[pc'[c]] <= Left[pc[c]] /\ Left[pc[c]] \in 0..13

\* Whatever the verifiers, the store and the executor do, no step of a call repeats a
\* stage and no step of anyone else sets it back: a call that has been submitted is over
\* after thirteen steps of its own.
THEOREM EveryStageLeadsOn == Spec => [][LeadOn]_vars
<1> USE DEF Left
<1>1. ASSUME NEW c \in Calls, TypeOK, CallStep(c) PROVE Left[pc'[c]] < Left[pc[c]]
  <2>1. CASE EarlyStep(c)
    <3>1. EarlyOutcome(c) /\ pc[c] \in EarlyStages
      BY <1>1, <2>1, EarlyStepOutcome, EarlyStepShape
    <3>2. Answers(c) => pc'[c] = "done"
      BY <1>1 DEF Answers, Return, TypeOK
    <3>3. \A from, to : Passes(c, from, to) => pc[c] = from /\ pc'[c] = to
      BY <1>1 DEF Passes, TypeOK
    <3>4. CASE Answers(c)
      BY <3>1, <3>2, <3>4 DEF EarlyStages
    <3>5. CASE ~Answers(c)
      <4>1. \/ pc[c] = "parse" /\ pc'[c] = "posture"
            \/ pc[c] = "posture" /\ pc'[c] = "qid"
            \/ pc[c] = "qid" /\ pc'[c] = "replay_proof"
            \/ pc[c] = "replay_proof" /\ pc'[c] = "oracle"
            \/ pc[c] = "oracle" /\ pc'[c] = "shield"
            \/ pc[c] = "shield" /\ pc'[c] = "eqc"
            \/ pc[c] = "eqc" /\ pc'[c] = "authority"
            \/ pc[c] = "authority" /\ pc'[c] = "tva"
        BY <3>1, <3>3, <3>5 DEF EarlyOutcome
      <4> QED BY <4>1
    <3> QED BY <3>4, <3>5
  <2>2. CASE LateStep(c)
    <3>1. \/ pc[c] = "tva" /\ pc'[c] \in {"mark", "final", "done"}
          \/ pc[c] = "mark" /\ pc'[c] = "final"
          \/ pc[c] = "final" /\ pc'[c] \in {"execute", "done"}
          \/ pc[c] = "execute" /\ pc'[c] \in {"reply", "done"}
          \/ pc[c] = "reply" /\ pc'[c] = "done"
      BY <1>1, <2>2 DEF LateStep, FailTva, RejectReplay, CheckAndMark, LookUpNonce, MarkNonce,
         StoreRaises, DecideFinal, Execute, ExecutorRaises, Reply, ReachesStore, DenyTva,
         MarkAccepted, Advance, Return, TypeOK
    <3> QED BY <3>1
  <2> QED BY <1>1, <2>1, <2>2, Zenon DEF CallStep, StageStep, RaiseStep, EarlyStep, LateStep
<1>2. ASSUME TypeOK PROVE \A c \in Calls : pc[c] # "new" => Left[pc[c]] \in 0..13
  <2> TAKE c \in Calls
  <2>1. pc[c] \in Stages \cup {"new", "done", "lost"}
    BY <1>2 DEF TypeOK
  <2> QED BY <2>1 DEF Stages
<1>3. ASSUME TypeOK, TypeOK', [Next]_vars,
             NEW c \in Calls, pc[c] # "new"
      PROVE  Left[pc'[c]] <= Left[pc[c]]
  <2>1. Left[pc[c]] \in 0..13
    BY <1>2, <1>3
  <2>2. CASE \E d \in Calls : Submit(d)
    BY <1>3, <2>1, <2>2 DEF Submit, Advance, TypeOK
  <2>3. ASSUME NEW d \in Calls, CallStep(d) PROVE Left[pc'[c]] <= Left[pc[c]]
    <3>1. CASE d = c
      <4>1. pc'[c] # "new"
        <5>1. StepShape(c)
          BY <1>3, <2>3, <3>1, CallStepShape
        <5> QED BY <1>3, <3>1, <5>1 DEF StepShape, Moves, Advance, Return, TypeOK, Stages
      <4>2. Left[pc'[c]] \in 0..13
        <5>1. pc'[c] \in Stages \cup {"new", "done", "lost"}
          BY <1>3 DEF TypeOK
        <5> QED BY <4>1, <5>1 DEF Stages
      <4> QED BY <1>1, <1>3, <2>1, <2>3, <3>1, <4>2
    <3>2. CASE d # c
      BY <1>3, <2>1, <2>3, <3>2, CallStepKeeps
    <3> QED BY <3>1, <3>2
  <2>4. CASE Crash
    BY <1>3, <2>1, <2>4 DEF Crash, TypeOK
  <2>5. CASE Tick \/ UNCHANGED vars
    BY <2>1, <2>5 DEF Tick, vars
  <2> QED BY <1>3, <2>2, <2>3, <2>4, <2>5 DEF Next
<1>4. TypeOK /\ TypeOK' /\ [Next]_vars => [LeadOn]_vars
  BY <1>1, <1>2, <1>3 DEF LeadOn
<1> QED BY <1>4, TypeCorrect, PTL DEF Spec

=============================================================================
