-------------------------------- MODULE Eqc --------------------------------
(***************************************************************************)
(* eqc/evaluator.py, evaluate_eqc_v2: the multi-evidence gate.             *)
(*                                                                         *)
(* EQC sees evidence the adapters have accepted.  It recomputes the        *)
(* context from stripped names, so it repeats none of the adapters'        *)
(* context comparisons: evidence bound to a padded name fails here.        *)
(* A request record r has fields wallet, action, fields_confirmed,         *)
(* issued_at, expires_at, qid, oracle and shield (see Evidence).           *)
(***************************************************************************)
EXTENDS Evidence

\* Mutant: the envelope's tolerance widens the window of the Shield evidence.
ShieldEvidenceSkewed(r, policy) ==
  [context |-> r.shield.context, issued_at |-> r.issued_at - r.skew,
   expires_at |-> r.expires_at + r.skew, reasons |-> {"EVIDENCE_OK"}]

\* The Shield evidence EQC is handed: from an accepted receipt, five
\* EVIDENCE_OK signals over the request's own timebox; from a bundle, its own
\* window and its mapped reasons.
ShieldEvidence(r, policy) ==
  IF policy.receipt_boundary
  THEN [context |-> r.shield.context, issued_at |-> r.issued_at,
        expires_at |-> r.expires_at, reasons |-> {"EVIDENCE_OK"}]
  ELSE [context |-> r.shield.context, issued_at |-> r.shield.issued_at,
        expires_at |-> r.shield.expires_at,
        reasons |-> {policy.reason_map[g.reason] : g \in r.shield.signals}]

\* Mutant: names are hashed as they came.
EqcContextUnstripped(r) == RequestContext(r)

EqcContext(r) == ContextHash(Strip(r.wallet), Strip(r.action), r.fields_confirmed)

\* evaluate_eqc_v2: OK for Verdict.ALLOW, or reason_ids[0] of the denial.  A
\* blank wallet or action is noted first and denied with whatever follows.
EqcRejection(r, now, policy) ==
  LET context == EqcContext(r)
      shield  == ShieldEvidence(r, policy)
  IN  FirstRejection(<<
        Reject("EQC_MISSING_WALLET_ID", Strip(r.wallet) = Blank),
        Reject("EQC_MISSING_ACTION", Strip(r.action) = Blank),
        Reject("EQC_QID_SESSION_NOT_YET_VALID", now < r.qid.issued_at),
        Reject("EQC_QID_SESSION_EXPIRED", now >= r.qid.expires_at),
        Reject("EQC_INVALID_QID_PROOF", r.qid.issued_at <= 0),
        Reject("EQC_QID_CONTEXT_HASH_MISMATCH", r.qid.context # context),
        Reject("EQC_RISK_CONTEXT_HASH_MISMATCH", r.oracle.context # context),
        Reject("EQC_INVALID_RISK_REPORT", ReportInvalid(r.oracle, now)),
        Reject("EQC_RISK_SCORE_BELOW_THRESHOLD", r.oracle.score < policy.min_score),
        Reject("EQC_SHIELD_CONTEXT_HASH_MISMATCH", shield.context # context),
        Reject("EQC_SHIELD_STALE",
               now < shield.issued_at \/ now >= shield.expires_at),
        Reject("EQC_CONFLICTING_EVIDENCE", shield.reasons # {"EVIDENCE_OK"}) >>)

=============================================================================
