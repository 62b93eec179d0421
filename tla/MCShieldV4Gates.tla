--------------------------- MODULE MCShieldV4Gates ---------------------------
(***************************************************************************)
(* One verification of five components under the source's own limits: the  *)
(* clean receipt with each single defect and each pair of representative   *)
(* ones, and inputs of every small shape.  A name is the set of defects    *)
(* and the shape of the input.                                             *)
(*                                                                         *)
(* The defects are tabulated with the stage of the documented verification *)
(* order that owns them (0: before it, 5 to 7: the waves of callbacks) and *)
(* the cause each is rejected for when it is alone.                        *)
(***************************************************************************)
EXTENDS MCShieldV4

MCSupportedComponents == <<"adn", "dqsn", "guardian_wallet", "qwg", "sentinel_ai">>

Owner(stage, causes) == [stage |-> stage, cause |-> causes]

HarmlessDefects ==
  {"plain", "deny", "human_review", "optional", "optional_once",
   "denylist_of_another", "ends_now", "component_request"}

Cause ==
  [d \in {"input_context", "blank_request_id"} |-> Owner(0, "INVALID_INPUT")]
  @@ [d \in {"input_time"} |-> Owner(0, "INVALID_TIME")]
  @@ [d \in {"not_a_receipt", "malformed", "outcome_unknown", "no_registry_version",
             "result_missing", "result_malformed", "result_twice", "result_incomplete",
             "component_missing", "component_twice", "component_decision",
             "outcome_mismatch"} |-> Owner(2, "CONTRACT")]
  @@ [d \in {"v3"} |-> Owner(2, "DOWNGRADE")]
  @@ [d \in {"policy_mismatch", "component_policy", "result_policy"} |->
        Owner(2, "CONTRACT_POLICY")]
  @@ [d \in {"context_other", "context_not_hash", "component_context"} |->
        Owner(2, "CONTRACT_CONTEXT")]
  @@ [d \in {"handoff_authority", "component_metadata", "deny_with_handoff"} |->
        Owner(2, "AUTHORITY_BYPASS")]
  @@ [d \in {"bundle_malformed", "bundle_empty", "bundle_four", "bundle_no_mldsa",
             "bundle_unordered", "duplicate_algorithm", "foreign_domain", "unencoded"} |->
        Owner(2, "BUNDLE")]
  @@ [d \in {"duplicate_key"} |-> Owner(2, "BUNDLE_DUPLICATE_KEY")]
  @@ [d \in {"other_hash"} |-> Owner(2, "BUNDLE_TAMPERED")]
  @@ [d \in {"request_mismatch"} |-> Owner(3, "REQUEST_MISMATCH")]
  @@ [d \in {"no_backend"} |-> Owner(3, "NO_BACKEND")]
  @@ [d \in {"identifiers"} |-> Owner(3, "INVALID_REPLAY_INPUT")]
  @@ [d \in {"denylisted"} |-> Owner(3, "REPLAY")]
  @@ [d \in {"registry_malformed", "registry_version", "registry_twice", "key_revoked",
             "key_missing", "key_expired", "key_late", "key_empty_window"} |->
        Owner(3, "REGISTRY")]
  @@ [d \in {"key_dates", "receipt_dates", "component_early", "component_stale",
             "component_empty_window"} |-> Owner(3, "FRESHNESS")]
  @@ [d \in {"unattested"} |-> Owner(3, "SIGNATURE_POLICY")]
  @@ [d \in {"altered_component", "altered_receipt"} |-> Owner(4, "HASH_MISMATCH")]
  @@ [d \in {"uncanonical", "oversized"} |-> Owner(4, "CONTRACT")]
  @@ [d \in {"uncanonical_context"} |-> Owner(4, "CONTRACT_CONTEXT")]
  @@ [d \in {"bundle_oversized"} |-> Owner(4, "CONTRACT_POLICY")]
  @@ [d \in {"forged_classical"} |-> Owner(5, "SIGNATURE_INVALID")]
  @@ [d \in {"forged_mldsa"} |-> Owner(6, "SIGNATURE_INVALID")]
  @@ [d \in {"forged_fn"} |-> Owner(7, "SIGNATURE_INVALID")]

Defects == HarmlessDefects \cup DOMAIN Cause

-----------------------------------------------------------------------------
(* Inputs as objects.                                                      *)

Scalar(size) == [kind |-> "scalar", size |-> size]
Foreign == [kind |-> "foreign"]
Container(ats) ==
  [kind |-> "container", items |-> [i \in DOMAIN ats |-> [key |-> i - 1, at |-> ats[i]]]]

Graph(nodes) == [root |-> 1, node |-> nodes]

\* The graphs of three objects with at most two items each, and a fourth object
\* below the third.
Containers == {Container(ats) : ats \in UNION {[1..n -> 1..3] : n \in 0..2}}
Leaves == {Scalar(1), Scalar(3), Scalar(4), Foreign}
SmallGraphs ==
  {Graph(<<first, second, third, Scalar(0)>>) :
     first \in Containers, second \in Containers \cup Leaves,
     third \in {Container(<<4>>)} \cup Leaves}

Shared == Graph(<<Container(<<2, 2>>), Container(<<3>>), Scalar(1)>>)
Exploding == Graph(<<Container(<<2, 2>>), Container(<<3, 3>>), Scalar(0)>>)

-----------------------------------------------------------------------------
(* What is wrong with a receipt when it is signed.                         *)

Outcome(p, decision, outcome) ==
  [p EXCEPT !.receipt.components[5].decision = decision,
            !.receipt.outcome = outcome, !.receipt.handoff_allowed = FALSE]

Fn == Entry("fn-dsa")
Attested(result) == [result EXCEPT !.algorithms = Range(AllowedAlgorithms)]

DamageReceipt(p, d) ==
  LET r == p.receipt
  IN CASE d = "deny"         -> Outcome(p, "ERROR", "DENY")
       [] d = "human_review" -> Outcome(p, "SKIPPED", "HUMAN_REVIEW_REQUIRED")
       [] d = "deny_with_handoff" ->
            [Outcome(p, "DENY", "DENY") EXCEPT !.receipt.handoff_allowed = TRUE]
       [] d = "outcome_mismatch" -> Outcome(p, "ESCALATE", "DENY")
       [] d = "outcome_unknown"  -> [p EXCEPT !.receipt.outcome = "MAYBE"]
       [] d = "component_decision" -> [p EXCEPT !.receipt.components[1].decision = "MAYBE"]
       [] d = "component_request" -> [p EXCEPT !.receipt.components[1].request_id = "other"]
       [] d = "not_a_receipt" -> [p EXCEPT !.receipt.kind = "not_a_receipt"]
       [] d = "v3"            -> [p EXCEPT !.receipt.kind = "v3"]
       [] d = "malformed"     -> [p EXCEPT !.receipt.malformed = TRUE]
       [] d = "policy_mismatch"  -> [p EXCEPT !.receipt.policy_mismatch = TRUE]
       [] d = "component_policy" -> [p EXCEPT !.receipt.components[1].policy_mismatch = TRUE]
       [] d = "result_policy"    -> [p EXCEPT !.receipt.results[1].policy_mismatch = TRUE]
       [] d = "context_other"    -> [p EXCEPT !.receipt.context = "other"]
       [] d = "context_not_hash" -> [p EXCEPT !.receipt.context = NotAHash]
       [] d = "component_context" -> [p EXCEPT !.receipt.components[1].context = "other"]
       [] d = "no_registry_version" -> [p EXCEPT !.receipt.registry_version = 0]
       [] d = "handoff_authority"  -> [p EXCEPT !.receipt.handoff_authority = TRUE]
       [] d = "component_metadata" ->
            [p EXCEPT !.receipt.components[1].metadata_authority = TRUE]
       [] d = "result_missing"   -> [p EXCEPT !.receipt.results = Front(@)]
       [] d = "result_malformed" -> [p EXCEPT !.receipt.results[1].malformed = TRUE]
       [] d = "result_twice"     -> [p EXCEPT !.receipt.results[2].id = "adn"]
       [] d = "result_incomplete" ->
            [p EXCEPT !.receipt.results[1].algorithms = {"classical-ed25519"}]
       [] d = "component_missing" -> [p EXCEPT !.receipt.components = Front(@)]
       [] d = "component_twice"   -> [p EXCEPT !.receipt.components[2].id = "adn"]
       [] d = "component_early"   -> [p EXCEPT !.receipt.components[1].not_before = 3]
       [] d = "component_stale"   -> [p EXCEPT !.receipt.components[1].not_before = 0,
                                               !.receipt.components[1].not_after = 1]
       [] d = "ends_now"          -> [p EXCEPT !.receipt.components[1].not_before = 1,
                                               !.receipt.components[1].not_after = 2]
       [] d = "component_empty_window" -> [p EXCEPT !.receipt.components[1].not_after = 2]
       [] d = "receipt_dates"     -> [p EXCEPT !.receipt.dates_malformed = TRUE]
       [] d = "unattested"        -> [p EXCEPT !.receipt.components[3].bundle.entries =
                                                 Append(@, Fn)]
       [] d = "optional_once"     -> [p EXCEPT !.receipt.components[3].bundle.entries =
                                                 Append(@, Fn),
                                               !.receipt.results[3] = Attested(@)]
       [] d \in {"optional", "forged_fn"} ->
            LET forge(i) == IF d = "forged_fn" /\ i = 2
                            THEN [Fn EXCEPT !.signature = "forged"] ELSE Fn
            IN  [p EXCEPT !.receipt.bundle.entries = Append(@, Fn),
                          !.receipt.results = [i \in DOMAIN r.results |-> Attested(r.results[i])],
                          !.receipt.components =
                             [i \in DOMAIN r.components |->
                                [r.components[i] EXCEPT !.bundle.entries = Append(@, forge(i))]]]
       [] d = "bundle_malformed" -> [p EXCEPT !.receipt.components[4].bundle.malformed = TRUE]
       [] d = "bundle_empty"     -> [p EXCEPT !.receipt.bundle.entries = <<>>]
       [] d = "bundle_four"      -> [p EXCEPT !.receipt.bundle.entries = @ \o @]
       [] d = "bundle_no_mldsa"  ->
            [p EXCEPT !.receipt.components[4].bundle.entries = <<@[1], Fn>>]
       [] d = "bundle_unordered" -> [p EXCEPT !.receipt.bundle.entries = Reverse(@)]
       [] d = "duplicate_algorithm" ->
            [p EXCEPT !.receipt.components[4].bundle.entries =
               <<@[1], @[2], [@[2] EXCEPT !.key_id = "another"]>>]
       [] d = "duplicate_key"    ->
            [p EXCEPT !.receipt.components[4].bundle.entries =
               <<@[1], [@[2] EXCEPT !.key_id = "classical-ed25519"]>>]
       [] d = "foreign_domain"   ->
            [p EXCEPT !.receipt.components[4].bundle.entries[1].foreign_domain = TRUE]
       [] d = "unencoded"        ->
            [p EXCEPT !.receipt.bundle.entries[2].signature = "unencoded"]
       [] d = "bundle_oversized" -> [p EXCEPT !.receipt.components[5].bundle.oversized = TRUE]
       [] d = "uncanonical"      -> [p EXCEPT !.receipt.uncanonical = "CONTRACT"]
       [] d = "uncanonical_context" -> [p EXCEPT !.receipt.uncanonical = "CONTRACT_CONTEXT"]
       [] d = "oversized"        -> [p EXCEPT !.receipt.oversized = TRUE]
       [] d = "forged_classical" ->
            [p EXCEPT !.receipt.bundle.entries[1].signature = "forged"]
       [] d = "forged_mldsa"     ->
            [p EXCEPT !.receipt.components[4].bundle.entries[2].signature = "forged"]

-----------------------------------------------------------------------------
(* What is wrong with what comes with it, and what was altered since.      *)

\* Keys 1, 7 and 13 are adn's for the three algorithms.
DamageCall(p, d) ==
  CASE d = "plain"           -> [p EXCEPT !.audited = FALSE]
    [] d = "input_context"   -> [p EXCEPT !.audited = FALSE, !.input_defect = "context"]
    [] d = "input_time"      -> [p EXCEPT !.audited = FALSE, !.input_defect = "time"]
    [] d = "blank_request_id" -> [p EXCEPT !.input_defect = "blank_request_id"]
    [] d = "request_mismatch" -> [p EXCEPT !.request_id = "other"]
    [] d = "no_backend"      -> [p EXCEPT !.backend = FALSE]
    [] d = "identifiers"     -> [p EXCEPT !.input_defect = "identifiers"]
    [] d = "registry_malformed" -> [p EXCEPT !.registry.malformed = TRUE]
    [] d = "registry_version" -> [p EXCEPT !.registry.version = 2]
    [] d = "registry_twice"  -> [p EXCEPT !.registry.keys = Append(@, @[1])]
    [] d = "key_revoked"     -> [p EXCEPT !.registry.keys[7].status = "revoked"]
    [] d = "key_missing"     -> [p EXCEPT !.registry.keys = Tail(@)]
    [] d = "key_expired"     -> [p EXCEPT !.registry.keys[1].not_after = 3]
    [] d = "key_late"        -> [p EXCEPT !.registry.keys[7].not_before = 3]
    [] d = "key_empty_window" -> [p EXCEPT !.registry.keys[13].not_before = 5]
    [] d = "key_dates"       -> [p EXCEPT !.registry.keys[13].dates_malformed = TRUE]
    [] d = "denylisted"      -> [p EXCEPT !.denylist = {p.receipt.receipt_hash}]
    [] d = "denylist_of_another" ->
         [p EXCEPT !.denylist = {[p.receipt.receipt_hash EXCEPT !.request_id = "other"]}]
    [] d = "other_hash"      ->
         [p EXCEPT !.receipt.bundle.entries[2].hash = p.receipt.components[1].payload_hash]
    [] d = "altered_component" -> [p EXCEPT !.receipt.components[2].request_id = "altered"]
    [] d = "altered_receipt" -> [p EXCEPT !.receipt.handoff_allowed = FALSE]

ReceiptDefects ==
  {"deny", "human_review", "component_request", "optional", "optional_once", "ends_now",
   "uncanonical", "oversized", "uncanonical_context", "bundle_oversized", "unattested",
   "receipt_dates", "component_early", "component_stale", "component_empty_window",
   "forged_classical", "forged_mldsa", "forged_fn"}
  \cup ({d \in DOMAIN Cause : Cause[d].stage = 2} \ {"other_hash"})

Apply(Damage(_, _), p, ds) == FoldSet(LAMBDA d, q : Damage(q, d), p, ds)

Damaged(ds) ==
  Apply(DamageCall, Sign(Apply(DamageReceipt, CleanSubmission, ds \cap ReceiptDefects)),
        ds \ ReceiptDefects)

\* One defect for every way a call may end and every stage it may end in, no two of
\* which are about the same field.
Representatives ==
  {"blank_request_id", "plain", "v3", "component_context", "result_policy",
   "outcome_mismatch", "duplicate_key", "foreign_domain", "other_hash", "request_mismatch",
   "no_backend", "denylisted", "key_revoked", "receipt_dates", "unattested",
   "altered_component", "uncanonical_context", "bundle_oversized", "forged_classical",
   "forged_mldsa", "forged_fn"}

\* Both of these add a third signature to the same bundle.
Pairs == {{d, e} : d, e \in Representatives} \ {{"unattested", "forged_fn"}}

Name(ds, json) == [defects |-> ds, json |-> json]

MCNames ==
  {Name(ds, SmallJson) : ds \in {{}} \cup {{d} : d \in Defects}
                              \cup Pairs}
  \cup {Name({d}, json) : d \in Representatives, json \in {Shared, Exploding}}
  \cup {Name({"not_a_receipt"}, json) : json \in SmallGraphs}

NotAReceipt == [CleanSubmission EXCEPT !.receipt.kind = "not_a_receipt"]

MCSubmitted ==
  [n \in MCNames |->
     [(IF n.defects = {"not_a_receipt"} THEN NotAReceipt ELSE Damaged(n.defects))
        EXCEPT !.json = n.json]]

-----------------------------------------------------------------------------
\* The verification order of docs/CONTRACTS/shield_v4_performance_dos_envelope_v1.md
\* (lines 52-67): of several things wrong with a submission, one that the order puts
\* first decides, and what is wrong later changes nothing; a backend that fails is
\* only seen when nothing before the callbacks is wrong; and when all that is out of
\* the ordinary is harmless, the result is verified.
DocumentedOrder ==
  \A c \in Calls : pc[c] \in {"decided", "appending", "returned", "recorded"} =>
    LET wrong  == {Cause[d] : d \in name[c].defects \ HarmlessDefects}
                  \cup (IF FitsBudget(name[c].json) THEN {} ELSE {Owner(1, "CONTRACT")})
                  \cup (IF now[c] < 2 THEN {Owner(3, "FRESHNESS")} ELSE {})
        stages == {w.stage : w \in wrong}
    IN  IF cause[c] = "BACKEND_FAILURE" THEN stages \subseteq 5..7
        ELSE IF wrong = {} THEN cause[c] = OK
        ELSE cause[c] \in {w.cause : w \in {v \in wrong : v.stage = Min(stages)}}

=============================================================================
