------------------------- MODULE MCFinalPolicyLoop -------------------------
(***************************************************************************)
(* Instance of FinalPolicyLoop: a clean input with every single defect,    *)
(* and with every pair of defects, of every gate.                          *)
(***************************************************************************)
EXTENDS FinalPolicyLoop

CleanV4Result ==
  [verified |-> TRUE, receipt |-> TRUE, v4_schema |-> TRUE, summary |-> TRUE,
   v4_policy |-> TRUE, orchestrator |-> RequiredAlgorithms,
   components |-> {[component_id |-> id, verified_algorithms |-> RequiredAlgorithms]
                     : id \in RequiredComponents}]

CleanResult ==
  [present |-> TRUE, final_approval |-> FALSE, hidden_authority |-> FALSE,
   accepted_as_evidence |-> TRUE, handoff_allowed |-> TRUE, context |-> "ctx",
   human_review |-> FALSE, reason |-> "EVIDENCE_REASON", v4 |-> CleanV4Result]

CleanInput(v4_required) ==
  [evidence |-> [g \in Range(EvidenceGates) |-> CleanResult],
   local |-> [g \in Range(LocalGates) |->
                [gate |-> g, passed |-> TRUE, requires_human_review |-> FALSE,
                 reason |-> "LOCAL_REASON"]],
   expected_context |-> "ctx", well_formed_context |-> TRUE,
   shield_v4_required |-> v4_required, well_formed_mode |-> TRUE]

EvidenceDefects ==
  {"absent", "final_approval", "hidden_authority", "rejected", "handoff_blocked",
   "context", "human_review"}

V4Defects ==
  {"v3_result", "no_receipt", "downgrade", "no_summary", "no_policy",
   "orchestrator_one_signature", "component_missing", "component_one_signature",
   "component_extra"}

LocalDefects == {"wrong_gate", "failed", "review"}

DamageEvidence(e, kind) ==
  CASE kind = "absent"           -> [e EXCEPT !.present = FALSE]
    [] kind = "final_approval"   -> [e EXCEPT !.final_approval = TRUE]
    [] kind = "hidden_authority" -> [e EXCEPT !.hidden_authority = TRUE]
    [] kind = "rejected"         -> [e EXCEPT !.accepted_as_evidence = FALSE]
    [] kind = "handoff_blocked"  -> [e EXCEPT !.handoff_allowed = FALSE]
    [] kind = "context"          -> [e EXCEPT !.context = "other"]
    [] kind = "human_review"     -> [e EXCEPT !.human_review = TRUE]
    [] kind = "v3_result"        -> [e EXCEPT !.v4 = NotV4]
    [] kind = "no_receipt"       -> [e EXCEPT !.v4.receipt = FALSE]
    [] kind = "downgrade"        -> [e EXCEPT !.v4.v4_schema = FALSE]
    [] kind = "no_summary"       -> [e EXCEPT !.v4.summary = FALSE]
    [] kind = "no_policy"        -> [e EXCEPT !.v4.v4_policy = FALSE]
    [] kind = "orchestrator_one_signature" ->
         [e EXCEPT !.v4.orchestrator = {"classical-ed25519"}]
    [] kind = "component_missing" ->
         [e EXCEPT !.v4.components = {c \in @ : c.component_id # "adn"}]
    [] kind = "component_one_signature" ->
         [e EXCEPT !.v4.components =
            {[c EXCEPT !.verified_algorithms =
                IF c.component_id = "qwg" THEN {"ml-dsa"} ELSE @] : c \in @}]
    [] kind = "component_extra" ->
         [e EXCEPT !.v4.components = @ \cup
            {[component_id |-> "other", verified_algorithms |-> RequiredAlgorithms]}]

DamageLocal(g, kind) ==
  CASE kind = "wrong_gate" -> [g EXCEPT !.gate = "other"]
    [] kind = "failed"     -> [g EXCEPT !.passed = FALSE]
    [] kind = "review"     -> [g EXCEPT !.requires_human_review = TRUE]

Defects ==
  (Range(EvidenceGates) \X EvidenceDefects)
    \cup ({"shield"} \X V4Defects)
    \cup (Range(LocalGates) \X LocalDefects)
    \cup ({"call"} \X {"context", "mode", "none"})

Damage(in, d) ==
  CASE d[1] \in Range(EvidenceGates) ->
         [in EXCEPT !.evidence[d[1]] = DamageEvidence(@, d[2])]
    [] d[1] \in Range(LocalGates) ->
         [in EXCEPT !.local[d[1]] = DamageLocal(@, d[2])]
    [] d = <<"call", "context">> -> [in EXCEPT !.well_formed_context = FALSE]
    [] d = <<"call", "mode">>    -> [in EXCEPT !.well_formed_mode = FALSE]
    [] OTHER -> in

MCInputs ==
  {Damage(Damage(CleanInput(v4), d1), d2) :
     v4 \in BOOLEAN, d1 \in Defects, d2 \in Defects}

=============================================================================
