----------------------- MODULE PolicySessionDocumented -----------------------
(***************************************************************************)
(* A sentence of the repository about the normalisers' results that the    *)
(* code does not live up to, as a property.                                *)
(***************************************************************************)
EXTENDS PolicySessionRequirements

\* integrations/wsqk_v2_policy_evidence.py:37, the result is "Normalized WSQK v2
\* evidence for the future AdamantineOS policy engine", qid_policy_binding.py:35 says
\* the same of Q-ID's, and docs/EXTERNAL_INTERFACES.md:266 has "every normalized
\* evidence object that reaches the final policy engine" carry the context hash.  The
\* engine takes the field in which a WSQK result shows its authority for hidden
\* authority (final_policy_engine.py:153), and a Q-ID result has no context_hash.
EngineTakesNormalizedEvidence ==
  decision # NoResult /\ (\A gate \in Normalisers : Passed(gate)) =>
    \A gate \in {"wsqk_v2", "qid"} : GateState(EngineInput, gate) = OK

=============================================================================
