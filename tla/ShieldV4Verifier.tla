-------------------------- MODULE ShieldV4Verifier --------------------------
(***************************************************************************)
(* integrations/shield_orchestrator_receipt_v4_verifier.py up to the first *)
(* call of a signature backend: bundles, trusted keys, windows, replay.    *)
(*                                                                         *)
(* A rejection is the name of its cause; StateOf and AuditReasonOf are     *)
(* what the verifier and its audit transcript make of a cause.             *)
(***************************************************************************)
EXTENDS ShieldV4Contract

CONSTANTS
  MaxSignatures,        \* MAX_SIGNATURES_PER_BUNDLE
  MaxCallbacks,         \* MAX_VERIFICATION_CALLS
  MaxPostQuantum,       \* MAX_PQC_VERIFICATION_CALLS
  MaxRegistryEntries,   \* MAX_TRUSTED_REGISTRY_ENTRIES
  MaxIdentifiers        \* MAX_REPLAY_IDENTIFIERS, MAX_DENYLIST_ENTRIES

ASSUME LimitsAssumption ==
  {MaxSignatures, MaxCallbacks, MaxPostQuantum, MaxRegistryEntries, MaxIdentifiers}
    \subseteq Nat

-----------------------------------------------------------------------------
(* Signature bundles.                                                      *)

\* One entry of _preflight_bundle, after the entries before it.
EntryRejection(bundle, i, payload_hash) ==
  LET e       == bundle.entries[i]
      earlier == {bundle.entries[j] : j \in 1..(i - 1)}
  IN  FirstRejection(<<
        Reject("BUNDLE",
               \/ e.malformed
               \/ e.algorithm \notin Range(AllowedAlgorithms)
               \/ \E f \in earlier : f.algorithm = e.algorithm),
        Reject("BUNDLE_DUPLICATE_KEY",
               \E f \in earlier : f.key_id = e.key_id /\ f.key_version = e.key_version),
        Reject("BUNDLE", e.signature = "unencoded"),
        Reject("BUNDLE_TAMPERED", e.hash # payload_hash),
        Reject("BUNDLE", e.foreign_domain) >>)

\* _preflight_bundle
BundleRejection(artifact) ==
  LET es == artifact.bundle.entries
      algorithms == [i \in 1..Len(es) |-> es[i].algorithm]
  IN  FirstRejection(
        << Reject("BUNDLE", artifact.bundle.malformed),
           Reject("BUNDLE", Len(es) = 0 \/ Len(es) > MaxSignatures) >>
        \o [i \in 1..Len(es) |-> EntryRejection(artifact.bundle, i, artifact.payload_hash)]
        \o << Reject("BUNDLE", algorithms # SelectSeq(AllowedAlgorithms,
                                              LAMBDA a : a \in Range(algorithms))),
              Reject("BUNDLE", ~(RequiredAlgorithms \subseteq Range(algorithms))) >>)

\* _preflight_receipt_bundles
BundlesRejection(r) ==
  FirstRejection([i \in 1..Len(r.components) |-> BundleRejection(r.components[i])]
                 \o << BundleRejection(r) >>)

-----------------------------------------------------------------------------
(* The trusted keys.                                                       *)

KeyIdentity(k) == [role |-> k.role, key_id |-> k.key_id,
                   key_version |-> k.key_version, algorithm |-> k.algorithm]

KeyRejection(keys, i) ==
  LET k == keys[i]
  IN  FirstRejection(<<
        Reject("REGISTRY", \/ k.malformed
                           \/ k.role \notin Range(ArtifactIds)
                           \/ k.key_version <= 0
                           \/ k.algorithm \notin Range(AllowedAlgorithms)),
        Reject("FRESHNESS", k.dates_malformed),
        Reject("REGISTRY", \/ k.not_before >= k.not_after
                           \/ k.status \notin {"active", "revoked"}
                           \/ \E j \in 1..(i - 1) :
                                KeyIdentity(keys[j]) = KeyIdentity(k)) >>)

\* load_trusted_shield_v4_key_registry
RegistryRejection(registry) ==
  FirstRejection(
    << Reject("REGISTRY", \/ registry.malformed
                          \/ registry.version <= 0
                          \/ Len(registry.keys) = 0
                          \/ Len(registry.keys) > MaxRegistryEntries) >>
    \o [i \in 1..Len(registry.keys) |-> KeyRejection(registry.keys, i)])

\* Mutant: the caller's minimum is not looked at.
VersionsRejectionOfAnyAge(r, registry, minimum) ==
  Reject("REGISTRY", r.registry_version # registry.version)

\* _enforce_registry_versions
VersionsRejection(r, registry, minimum) ==
  Reject("REGISTRY",
         \/ registry.version < minimum
         \/ r.registry_version # registry.version
         \/ \E i \in DOMAIN r.components :
              r.components[i].registry_version # registry.version)

\* Mutant: a receipt is stale in its last second.
CoversHalfOpen(artifact, now) == artifact.not_before <= now /\ now < artifact.not_after

\* The window of a receipt is closed at both ends.
Covers(artifact, now) ==
  /\ artifact.not_before < artifact.not_after
  /\ artifact.not_before <= now /\ now <= artifact.not_after

\* _enforce_freshness
FreshnessRejection(r, now) ==
  Reject("FRESHNESS",
         \/ r.dates_malformed
         \/ ~Covers(r, now)
         \/ \E i \in DOMAIN r.components : ~Covers(r.components[i], now))

\* The artifact an id stands for: a component verdict, or the receipt itself.
Artifact(r, id) ==
  IF id = Orchestrator THEN r
  ELSE r.components[SelectInSeq(r.components, LAMBDA v : v.id = id)]

\* Mutant: the key of any role will do.
TrustedKeysOfAnyRole(registry, role, e) ==
  {k \in Range(registry.keys) :
     k.key_id = e.key_id /\ k.key_version = e.key_version /\ k.algorithm = e.algorithm}

\* _find_key: the key an entry names, for the role of the artifact.
TrustedKeys(registry, role, e) ==
  {k \in Range(registry.keys) :
     KeyIdentity(k) = [role |-> role, key_id |-> e.key_id,
                       key_version |-> e.key_version, algorithm |-> e.algorithm]}

KeyUsable(k, artifact, now) ==
  /\ k.status = "active"
  /\ k.not_before <= now /\ now <= k.not_after
  /\ k.not_before <= artifact.not_before /\ artifact.not_before <= k.not_after
  /\ k.not_before <= artifact.not_after /\ artifact.not_after <= k.not_after

Callbacks(r) ==
  {s \in Range(ArtifactIds) \X (1..MaxSignatures) :
     s[2] \in DOMAIN Artifact(r, s[1]).bundle.entries}

EntryAt(r, slot) == Artifact(r, slot[1]).bundle.entries[slot[2]]

\* _resolve_verification_bundles.  No two keys share an identity and no window
\* is empty any more, so which entry fails first does not show.
ResolveRejection(r, registry, now) ==
  FirstRejection(<<
    Reject("SIGNATURE_POLICY",
           \/ Cardinality(Callbacks(r)) > MaxCallbacks
           \/ Cardinality({s \in Callbacks(r) : PostQuantum(EntryAt(r, s).algorithm)})
                > MaxPostQuantum),
    Reject("REGISTRY",
           \E s \in Callbacks(r) :
             ~\E k \in TrustedKeys(registry, s[1], EntryAt(r, s)) :
                KeyUsable(k, Artifact(r, s[1]), now)) >>)

\* _cross_check_component_signature_results, with both sides normalised: what
\* the orchestrator attests is what is about to be verified.
CrossCheckRejection(r) ==
  Reject("SIGNATURE_POLICY",
         \E i \in DOMAIN r.results :
           r.results[i].algorithms #
             {e.algorithm : e \in Range(Artifact(r, r.results[i].id).bundle.entries)})

-----------------------------------------------------------------------------
(***************************************************************************)
(* _verify_shield_v4_orchestrator_receipt up to its first callback.  p     *)
(* holds the receipt and what the caller passes with it: the expected      *)
(* context and request_id, the trusted registry, the denylist, whether     *)
(* there is a backend, and input_defect, which of these values (if any) is *)
(* not usable.  minimum is the least registry version the caller accepts,  *)
(* seen are the request ids its iterable yields when it is read.           *)
(***************************************************************************)
InputRejection(p) ==
  FirstRejection(<<
    Reject("INVALID_INPUT", p.input_defect \in {"context", "request_id", "blank_request_id"}),
    Reject("INVALID_TIME", p.input_defect = "time"),
    Reject("INVALID_INPUT", p.input_defect = "minimum") >>)

\* What the receipt says of itself, and whether it was asked for.
ReceiptRejection(p, seen) ==
  LET r == p.receipt
  IN  FirstRejection(<<
        ContractRejection(r, p.context),
        BundlesRejection(r),
        Reject("REQUEST_MISMATCH", r.request_id # p.request_id),
        Reject("NO_BACKEND", ~p.backend),
        Reject("INVALID_REPLAY_INPUT",
               \/ p.input_defect = "identifiers"
               \/ IdentifiersRefused(seen, MaxIdentifiers)
               \/ IdentifiersRefused(p.denylist, MaxIdentifiers)),
        Reject("REPLAY", r.request_id \in seen \/ r.receipt_hash \in p.denylist) >>)

\* Whether its keys are trusted and its hashes right: the expensive part.
TrustRejection(p, now, minimum) ==
  LET r == p.receipt
  IN  FirstRejection(<<
        RegistryRejection(p.registry),
        VersionsRejection(r, p.registry, minimum),
        Reject("FRESHNESS", p.input_defect = "date"),
        FreshnessRejection(r, now),
        ResolveRejection(r, p.registry, now),
        CrossCheckRejection(r),
        IntegrityRejection(r) >>)

PreflightRejection(p, now, minimum, seen) ==
  LET input   == InputRejection(p)
      receipt == ReceiptRejection(p, seen)
  IN  IF input # OK THEN input
      ELSE IF receipt # OK THEN receipt
      ELSE TrustRejection(p, now, minimum)

-----------------------------------------------------------------------------
(* What is reported of a cause: the state of the result, which              *)
(* _classify_contract_error and the handlers choose by the class of the    *)
(* exception, and the reason of the audit records, which comes from the    *)
(* message of a contract error (_audit_reason_for_contract_error) or else  *)
(* from the state (_reason_for_result).                                    *)

Report(cause) ==
  CASE cause \in {"CONTRACT_POLICY", "BUNDLE"} ->
                           <<"REJECTED_INVALID_RECEIPT", "V4_POLICY_INVALID">>
    [] cause \in {"BUNDLE_DUPLICATE_KEY", "SIGNATURE_POLICY"} ->
                           <<"REJECTED_SIGNATURE_POLICY", "V4_POLICY_INVALID">>
    [] cause = "CONTRACT_CONTEXT" ->
                           <<"REJECTED_CONTEXT_MISMATCH", "V4_CONTEXT_MISMATCH">>
    [] cause \in {"INVALID_TIME", "FRESHNESS"} ->
                           <<"REJECTED_FRESHNESS_WINDOW", "V4_FRESHNESS_INVALID">>
    [] cause \in {"HASH_MISMATCH", "BUNDLE_TAMPERED"} ->
                           <<"REJECTED_TAMPERED_RECEIPT", "V4_HASH_MISMATCH">>
    [] cause = "DOWNGRADE" -> <<"REJECTED_DOWNGRADE", "V4_DOWNGRADE_REJECTED">>
    [] cause = "AUTHORITY_BYPASS" ->
                           <<"REJECTED_AUTHORITY_BYPASS", "V4_AUTHORITY_BYPASS">>
    [] cause = "REQUEST_MISMATCH" ->
                           <<"REJECTED_REQUEST_MISMATCH", "V4_REQUEST_MISMATCH">>
    [] cause = "REPLAY"    -> <<"REJECTED_REPLAY_RISK", "V4_REPLAY_REJECTED">>
    [] cause = "REGISTRY"  -> <<"REJECTED_KEY_REGISTRY", "V4_REGISTRY_INVALID">>
    [] cause = "NO_BACKEND" ->
                           <<"REJECTED_SIGNATURE_INVALID", "V4_BACKEND_UNAVAILABLE">>
    [] cause = "BACKEND_FAILURE" ->
                           <<"REJECTED_SIGNATURE_INVALID", "V4_BACKEND_FAILURE">>
    [] cause = "SIGNATURE_INVALID" ->
                           <<"REJECTED_SIGNATURE_INVALID", "V4_SIGNATURE_INVALID">>
    [] OTHER ->            <<"REJECTED_INVALID_RECEIPT", "V4_CONTRACT_INVALID">>
                           \* INVALID_INPUT, CONTRACT, INVALID_REPLAY_INPUT

\* Mutant: what is no denial is an approval.
VerifiedStateOfTwo(r) ==
  IF r.outcome = "DENY" THEN "VERIFIED_DENY_DOMINATES"
  ELSE "VERIFIED_ALLOW_EVIDENCE_CONTINUE_CHECKS"

\* _state_for_final_outcome
VerifiedState(r) ==
  CASE r.outcome = "DENY"                  -> "VERIFIED_DENY_DOMINATES"
    [] r.outcome = "HUMAN_REVIEW_REQUIRED" -> "VERIFIED_HUMAN_REVIEW_REQUIRED"
    [] OTHER                               -> "VERIFIED_ALLOW_EVIDENCE_CONTINUE_CHECKS"

StateOf(cause, r) == IF cause = OK THEN VerifiedState(r) ELSE Report(cause)[1]

AuditReasons ==
  {"V4_VERIFY_OK", "V4_CONTRACT_INVALID", "V4_CONTEXT_MISMATCH", "V4_REQUEST_MISMATCH",
   "V4_HASH_MISMATCH", "V4_DOWNGRADE_REJECTED", "V4_AUTHORITY_BYPASS",
   "V4_POLICY_INVALID", "V4_REGISTRY_INVALID", "V4_FRESHNESS_INVALID",
   "V4_REPLAY_REJECTED", "V4_SIGNATURE_INVALID", "V4_BACKEND_UNAVAILABLE",
   "V4_BACKEND_FAILURE"}

AuditReasonOf(cause) == IF cause = OK THEN "V4_VERIFY_OK" ELSE Report(cause)[2]

=============================================================================
