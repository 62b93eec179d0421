-------------------------- MODULE ShieldV4Documented --------------------------
(***************************************************************************)
(* A sentence of the repository's documents about the Shield v4 verifier   *)
(* that the code does not live up to, as a property.                       *)
(***************************************************************************)
EXTENDS ShieldV4Requirements

\* A bundle with more signatures than one may have, or with two of one algorithm.
Overcounted(bundle) ==
  \/ Len(bundle.entries) > MaxSignatures
  \/ \E i, j \in DOMAIN bundle.entries :
       i # j /\ bundle.entries[i].algorithm = bundle.entries[j].algorithm

\* docs/CONTRACTS/shield_v4_performance_dos_envelope_v1.md:77, "Work-budget, shape,
\* size, cycle, overcount, and duplicate-algorithm failures use the existing
\* contract-invalid rejection and audit reason".  What a bundle is rejected for in
\* _preflight_bundle is rejected as an invalid receipt, but recorded as
\* V4_POLICY_INVALID (shield_orchestrator_receipt_v4_verifier.py:1256).
CountFailuresAreContractInvalid ==
  \A n \in DOMAIN log :
    LET p == Submitted[log[n].transport]
    IN  /\ ContractRejection(p.receipt, p.context) = OK
        /\ BundlesRejection(p.receipt) = "BUNDLE"
        /\ \E a \in Artifacts(p.receipt) : Overcounted(a.bundle)
        => Last(log[n].records).reason = "V4_CONTRACT_INVALID"

=============================================================================
