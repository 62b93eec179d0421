-------------------------- MODULE ShieldV4Contract --------------------------
(***************************************************************************)
(* contracts/shield_orchestrator_receipt_v4.py: what a Shield v4 receipt   *)
(* has to be before anyone looks for the keys it is signed with.           *)
(*                                                                         *)
(* A receipt and each of its component verdicts is an artifact: it has a   *)
(* context, a request_id, a window, a registry version, a payload_hash     *)
(* over its unsigned fields and a bundle of signatures over that hash.     *)
(* Shape errors that no property tells apart are flags of the artifact.    *)
(* A digest is the value it is computed over.                              *)
(***************************************************************************)
EXTENDS ShieldV4WorkBudget

CONSTANTS
  SupportedComponents,   \* SUPPORTED_COMPONENTS, a sequence of identifiers
  NotAHash               \* a context_hash that is not lowercase sha256 hex

ASSUME ComponentsAssumption ==
  SupportedComponents \in Seq(STRING) /\ SupportedComponents # <<>>

Orchestrator == "shield_orchestrator"
ArtifactIds == Append(SupportedComponents, Orchestrator)

\* Every signer has a name of its own.
ASSUME SignersAssumption == IsInjective(ArtifactIds)

AllowedAlgorithms == <<"classical-ed25519", "ml-dsa", "fn-dsa">>
RequiredAlgorithms == {"classical-ed25519", "ml-dsa"}
PostQuantum(algorithm) == algorithm # "classical-ed25519"

Decisions == {"ALLOW", "ESCALATE", "DENY", "ERROR", "SKIPPED"}
Outcomes == {"ALLOW", "DENY", "HUMAN_REVIEW_REQUIRED"}

-----------------------------------------------------------------------------
(* A rejection of the contract is named after what its callers make of the *)
(* exception: DOWNGRADE, AUTHORITY_BYPASS and HASH_MISMATCH are error      *)
(* classes; CONTRACT is the base class, and CONTRACT_CONTEXT and           *)
(* CONTRACT_POLICY are base class errors whose message says "context", or  *)
(* "policy" or "signature bundle".                                         *)

ContextRejection(context, expected) ==
  Reject("CONTRACT_CONTEXT", context = NotAHash \/ context # expected)

\* _preflight_component_verdict_contract.  The request_id of a component has to
\* be there, whose request it names is not asked.
ComponentRejection(v, expected) ==
  FirstRejection(<<
    Reject("CONTRACT", v.malformed \/ v.id \notin Range(SupportedComponents)),
    Reject("CONTRACT_POLICY", v.policy_mismatch),
    Reject("CONTRACT", v.decision \notin Decisions),
    ContextRejection(v.context, expected),
    Reject("CONTRACT", v.request_id = Blank \/ v.registry_version <= 0),
    Reject("AUTHORITY_BYPASS", v.metadata_authority) >>)

\* _preflight_component_set
ComponentSetRejection(vs, expected) ==
  FirstRejection(
    << Reject("CONTRACT", Len(vs) # Len(SupportedComponents)) >>
    \o [i \in 1..Len(vs) |->
          LET rejection == ComponentRejection(vs[i], expected)
          IN  IF rejection # OK THEN rejection
              ELSE Reject("CONTRACT", \E j \in 1..(i - 1) : vs[j].id = vs[i].id)])

\* _validate_component_signature_results: what the orchestrator says it verified.
ResultsRejection(results) ==
  FirstRejection(
    << Reject("CONTRACT", Len(results) # Len(SupportedComponents)) >>
    \o [i \in 1..Len(results) |->
          LET result == results[i]
          IN  FirstRejection(<<
                Reject("CONTRACT",
                       \/ result.malformed
                       \/ result.id \notin Range(SupportedComponents)
                       \/ \E j \in 1..(i - 1) : results[j].id = result.id),
                Reject("CONTRACT_POLICY", result.policy_mismatch),
                Reject("CONTRACT",
                       \/ ~(result.algorithms \subseteq Range(AllowedAlgorithms))
                       \/ ~(RequiredAlgorithms \subseteq result.algorithms)) >>)])

\* _expected_final_outcome
ExpectedOutcome(vs) ==
  LET decisions == {vs[i].decision : i \in DOMAIN vs}
  IN  IF decisions \cap {"DENY", "ERROR"} # {} THEN "DENY"
      ELSE IF decisions \cap {"ESCALATE", "SKIPPED"} # {} THEN "HUMAN_REVIEW_REQUIRED"
      ELSE "ALLOW"

\* _preflight_bounded_shield_v4_receipt_contract
ContractRejection(r, expected) ==
  FirstRejection(<<
    Reject("CONTRACT", r.kind = "not_a_receipt"),
    Reject("DOWNGRADE", r.kind = "v3"),
    Reject("CONTRACT", r.malformed),
    Reject("CONTRACT_POLICY", r.policy_mismatch),
    Reject("CONTRACT", r.outcome \notin Outcomes),
    ContextRejection(r.context, expected),
    Reject("CONTRACT", r.request_id = Blank \/ r.registry_version <= 0),
    Reject("AUTHORITY_BYPASS", r.handoff_authority),
    ResultsRejection(r.results),
    ComponentSetRejection(r.components, expected),
    Reject("CONTRACT", r.outcome # ExpectedOutcome(r.components)),
    Reject("AUTHORITY_BYPASS", r.outcome # "ALLOW" /\ r.handoff_allowed) >>)

-----------------------------------------------------------------------------
(* Digests.                                                                *)

\* signed_payload_hash of a component verdict and of a receipt: the domain and
\* the fields that are neither a hash nor a signature.
ComponentDigest(v) ==
  <<"component_verdict", [v EXCEPT !.payload_hash = Blank, !.bundle = Blank]>>

UnsignedReceipt(r) ==
  [r EXCEPT !.payload_hash = Blank, !.receipt_hash = Blank, !.bundle = Blank]

ReceiptDigest(r) == <<"orchestrator_receipt", UnsignedReceipt(r)>>

\* validate_preflighted_shield_v4_receipt_integrity.  uncanonical is what
\* to_canonical_json makes of the receipt: OK, or a base class error whose
\* message names the path of the value it refuses.
IntegrityRejection(r) ==
  FirstRejection(<<
    r.uncanonical,
    Reject("CONTRACT", r.oversized),
    Reject("CONTRACT_POLICY", \E i \in DOMAIN r.components : r.components[i].bundle.oversized),
    Reject("CONTRACT_POLICY", r.bundle.oversized),
    Reject("HASH_MISMATCH", \E i \in DOMAIN r.components :
             r.components[i].payload_hash # ComponentDigest(r.components[i])),
    Reject("HASH_MISMATCH", r.receipt_hash # UnsignedReceipt(r)),
    Reject("HASH_MISMATCH", r.payload_hash # ReceiptDigest(r)) >>)

=============================================================================
