---------------------- MODULE MCPolicySessionDocumented ----------------------
(***************************************************************************)
(* The session with which nothing is wrong, which every normaliser accepts.*)
(***************************************************************************)
EXTENDS MCPolicySession, PolicySessionDocumented

MCClean == {Name({}, "list", "v1")}

=============================================================================
