-------------------------- MODULE ExecutionContext --------------------------
(***************************************************************************)
(* eqc/context_hash.py and execution/envelope_v2.py: the context every     *)
(* piece of evidence binds to, and the strict parser of the execution      *)
(* request envelope v2.                                                    *)
(*                                                                         *)
(* Names (wallets, actions, nonces, request ids, ...) are strings; Strip   *)
(* is Python's str.strip on the names in use.  A hash is the record it is  *)
(* computed over, so two hashes are equal exactly when their inputs are.   *)
(***************************************************************************)
EXTENDS FailClosed

CONSTANTS
  Strip(_),     \* str.strip() on the names of the instance
  MaxSkew       \* _MAX_TIMEBOX_SKEW_SECONDS

\* compute_context_hash over wallet_id, action and fields; of the fields only
\* the bound human confirmation matters to any decision.  request_id,
\* device_id, app_id, session_id and the timebox are not bound.
ContextHash(wallet, action, confirmed) ==
  [wallet |-> wallet, action |-> action, confirmed |-> confirmed]

\* The context the parser binds the request to: names are not stripped.
RequestContext(r) == ContextHash(r.wallet, r.action, r.fields_confirmed)

\* parse_execution_request_envelope_v2.  head_defect and tail_defect are the
\* first structural error before and after the timebox (OK when there is none).
EnvelopeRejection(r, now) ==
  FirstRejection(<<
    r.head_defect,
    Reject("DENY_TIMEBOX_INVALID", r.expires_at <= r.issued_at),
    Reject("DENY_TIMEBOX_INVALID", r.skew < 0 \/ r.skew > MaxSkew),
    Reject("DENY_TIMEBOX_NOT_YET_VALID", now < r.issued_at - r.skew),
    Reject("DENY_TIMEBOX_EXPIRED", now > r.expires_at + r.skew),
    r.tail_defect >>)

=============================================================================
