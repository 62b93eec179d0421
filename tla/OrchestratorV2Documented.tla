---------------------- MODULE OrchestratorV2Documented ----------------------
(***************************************************************************)
(* Sentences of the repository's documents about orchestrate_execution_v2  *)
(* that the code does not live up to, as properties.                       *)
(***************************************************************************)
EXTENDS OrchestratorV2Requirements

\* docs/CONTRACTS/execution_response_v2.md:149, nonce.consumed is "Whether nonce
\* was consumed (single-use)".  The handlers of orchestrator_v2.py:1246-1388
\* report False after the executor has raised, though the nonce is spent.
ResponseReportsConsumption ==
  \A c \in Calls : Done(c) => (resp[c].consumed <=> consumed[c])

\* docs/CONTRACTS/runtime_host_boundary_v1.md:60, "On DENY: nonce is not
\* consumed".  orchestrator_v2.py:1160 marks the nonce before the human gate
\* has been evaluated at 1184.
DenialLeavesNonceUnused ==
  \A c \in Calls : Done(c) /\ resp[c].status = "deny" => ~consumed[c]

\* docs/V2_RUNTIME_UNTRUSTED_MODEL.md:64, section 4: "DENY: executor is never
\* called".  executor.execute stands inside the try of the checks
\* (orchestrator_v2.py:1209), so that an AdapterError or a TVAError of the
\* executor ends in their handlers (1246-1388), which answer "deny".
DenialNeverExecutes ==
  \A c \in Calls : Done(c) /\ resp[c].status = "deny" => ~effect[c]

=============================================================================
