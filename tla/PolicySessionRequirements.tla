---------------------- MODULE PolicySessionRequirements ----------------------
(***************************************************************************)
(* What the normalisers owe each other, the engine and the TVA gate.       *)
(***************************************************************************)
EXTENDS PolicySession

\* Of a gate that was asked: its result shows an authority.
Shows(gate) == result[gate].authority # <<>>

\* A gate was asked, and its result is evidence.
Passed(gate) == result[gate] # NoResult /\ AcceptedAsEvidence(result[gate])

-----------------------------------------------------------------------------
\* An earlier denial dominates (prior_gate_results, adaptive_core_policy_evidence.py
\* lines 259-265, ai_gateway_policy_evidence.py 395-401): once the host has been
\* told of a denial and passes it on, Adaptive Core and the gateway deny whatever
\* they are handed, and blame what was found first; nor does V2 accept unless it
\* was told of evidence only.
EarlierDenialDominates ==
  LET Blamed(e) == IF e.reason = Blank THEN "DENY_POLICY" ELSE e.reason
      Heard(told, gate) ==
        LET denials == {i \in DOMAIN told : told[i].outcome = "DENY"}
        IN  result[gate] # NoResult /\ told # <<>> =>
              /\ denials # {} /\ result[gate].dominant # <<"ERR_INTERNAL">> =>
                   /\ ~Passed(gate)
                   /\ result[gate].dominant[1] = Blamed(told[Min(denials)])
                   /\ Len(result[gate].dominant) = Cardinality(denials)
              /\ gate = "ai_gateway" /\ in.consumer = "v2" /\ Passed(gate) =>
                   \A i \in DOMAIN told : told[i].outcome = "ALLOW_EVIDENCE"
  IN  /\ Heard(Told(<<"wsqk_v2", "qid">>).results, "adaptive_core")
      /\ Heard(ToldGateway.results, "ai_gateway")

\* The policy-bound consumer (V2) is a stricter reader of the same artifacts than V1:
\* "without V1 fallback" (ai_gateway_policy_bound_evidence_v2.py line 437) leaves
\* nothing that V2 would let pass and V1 would have stopped.
StrictAcceptsOnlyWhatLooseAccepts ==
  in.consumer = "v2" /\ Passed("ai_gateway") =>
    AcceptedAsEvidence(GatewayEvidence(in.gateway, Expected, ToldGateway))

\* The inputs that different parties let pass name one context and one wallet,
\* although each normaliser is asked on its own and at its own time: the session
\* proof Q-ID accepts "must carry the same context_hash" (docs/EXTERNAL_INTERFACES.md
\* line 256), and "adapter boundaries still validate their own context bindings
\* first" (line 268).  What their results carry is PolicySessionDocumented's subject.
AcceptedEvidenceIsAboutOneContext ==
  LET contexts == (IF Passed("wsqk_v2") THEN {result["wsqk_v2"].authority[1].context} ELSE {})
                  \cup (IF Passed("qid") THEN {in.qid.context} ELSE {})
                  \cup (IF Passed("adaptive_core") THEN {in.report.context} ELSE {})
                  \cup (IF Passed("ai_gateway") THEN {in.gateway.handoff.context} ELSE {})
      wallets  == (IF Passed("wsqk_v2") THEN {result["wsqk_v2"].authority[1].wallet} ELSE {})
                  \cup (IF Passed("qid") THEN {in.qid.replay_proof.wallet} ELSE {})
  IN  Cardinality(contexts) <= 1 /\ Cardinality(wallets) <= 1

-----------------------------------------------------------------------------
Window(a) == a.issued_at..a.expires_at

\* The scope asks for exactly what the authority was issued for.
ScopeIsOf(a) ==
  LET scope == in.request.scope
  IN  scope.kind = "v2" =>
        /\ FamiliesRejection(scope.families) = OK
        /\ CanonicalFamilies(scope.families) = CanonicalFamilies(a.families)
        /\ Strip(scope.posture) = a.posture

\* What issue_wsqk_authority_v2 issues for this call is accepted as evidence and then
\* served by the gate, at any time of its closed window and at no other: the issuer
\* strips and sorts, the normaliser and the gate recompute the binding
\* (issuer_v2.py line 103, wsqk_v2_policy_evidence.py 274, tva_gate.py 17).
IssuedAuthorityServes ==
  LET i == in.wsqk.request
      a == result["wsqk_v2"].authority[1]
      for_this_call == /\ Strip(i.wallet) = in.request.wallet
                       /\ Strip(i.action) = in.request.action
                       /\ i.context = RequestContext(in.request)
  IN  in.wsqk.kind = "request" /\ IssueRejection(i) = OK
      /\ Expected = RequestContext(in.request) =>
        /\ result["wsqk_v2"] # NoResult => (Passed("wsqk_v2") <=> for_this_call)
        /\ pc = "done" /\ for_this_call =>
             /\ Window(a) = i.now..(i.now + i.ttl)
             /\ enforcement = OK <=> ScopeIsOf(a) /\ now \in Window(a)

\* The posture an executed authority promises was backed by Q-ID: of a call whose
\* scope asks for a posture, whose authority passes the gate and whose Q-ID evidence
\* was accepted, the Q-ID session claims at least that posture (wsqk/qid_binding.py line
\* 15, tva_gate.py line 17), though the gate never sees the session and
\* Q-ID never sees the scope.
PostureIsBacked ==
  enforcement = OK /\ in.request.scope.kind = "v2" /\ Passed("qid") =>
    LET asked == Strip(in.request.scope.posture)
    IN  /\ asked \in {"hybrid_required", "pqc_required"} => in.qid.pqc
        /\ asked = "hybrid_required" => in.qid.classical

=============================================================================
