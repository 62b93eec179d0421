---------------------- MODULE MCOrchestratorDocumented ----------------------
(***************************************************************************)
(* Small instances on which the documented sentences fail: one plain       *)
(* request, or one that its human has not confirmed, at the strict host.   *)
(***************************************************************************)
EXTENDS MCOrchestrator, OrchestratorV2Documented

MCPlain       == {Plain("n")}
MCUnconfirmed == {[Plain("n") EXCEPT !.ui_confirmed = FALSE]}

MCDeployments == {Host}

=============================================================================
