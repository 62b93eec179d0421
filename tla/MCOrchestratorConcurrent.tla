----------------------- MODULE MCOrchestratorConcurrent -----------------------
(***************************************************************************)
(* Two calls against one nonce store: requests that ask for the same       *)
(* nonce, literally or up to padding, one the human gate denies after the  *)
(* nonce is spent, and one whose authority names another nonce.            *)
(***************************************************************************)
EXTENDS MCOrchestrator

Unconfirmed == [Plain("n") EXCEPT !.ui_confirmed = FALSE]

Foreign == SealAuthority([Plain("m") EXCEPT !.wsqk.nonce = "n"])

MCRequests == {Plain("n"), Plain("n "), Unconfirmed, Foreign}

MCDeployments == {Host}

=============================================================================
