----------------------------- MODULE MCShieldV4 -----------------------------
(***************************************************************************)
(* Receipts for the Shield v4 runs: the one nothing is wrong with, over    *)
(* whatever SupportedComponents are, and how it is signed.  Artifacts are  *)
(* fresh from 2 to 4, keys valid from 1 to 5.                              *)
(***************************************************************************)
EXTENDS ShieldV4Requirements

Entry(algorithm) ==
  [malformed |-> FALSE, algorithm |-> algorithm, key_id |-> algorithm, key_version |-> 1,
   hash |-> <<>>, foreign_domain |-> FALSE, signature |-> "genuine"]

Required == <<Entry("classical-ed25519"), Entry("ml-dsa")>>
WithOptional == Append(Required, Entry("fn-dsa"))

Unsigned == [malformed |-> FALSE, oversized |-> FALSE, entries |-> Required]

Verdict(id) ==
  [id |-> id, malformed |-> FALSE, policy_mismatch |-> FALSE, decision |-> "ALLOW",
   context |-> "context", request_id |-> "request", registry_version |-> 1,
   not_before |-> 2, not_after |-> 4, metadata_authority |-> FALSE,
   payload_hash |-> <<>>, bundle |-> Unsigned]

Result(id) ==
  [id |-> id, malformed |-> FALSE, policy_mismatch |-> FALSE, algorithms |-> RequiredAlgorithms]

CleanReceipt ==
  [kind |-> "receipt", malformed |-> FALSE, policy_mismatch |-> FALSE, outcome |-> "ALLOW",
   context |-> "context", request_id |-> "request", registry_version |-> 1,
   not_before |-> 2, not_after |-> 4, dates_malformed |-> FALSE,
   handoff_authority |-> FALSE, handoff_allowed |-> TRUE,
   results |-> [i \in DOMAIN SupportedComponents |-> Result(SupportedComponents[i])],
   components |-> [i \in DOMAIN SupportedComponents |-> Verdict(SupportedComponents[i])],
   uncanonical |-> OK, oversized |-> FALSE,
   payload_hash |-> <<>>, receipt_hash |-> <<>>, bundle |-> Unsigned]

TrustedKey(role, algorithm) ==
  [malformed |-> FALSE, role |-> role, key_id |-> algorithm, key_version |-> 1,
   algorithm |-> algorithm, dates_malformed |-> FALSE,
   not_before |-> 1, not_after |-> 5, status |-> "active"]

CleanRegistry ==
  [malformed |-> FALSE, version |-> 1,
   keys |-> [k \in 1..(Len(ArtifactIds) * Len(AllowedAlgorithms)) |->
               TrustedKey(SlotArtifact(k), SlotAlgorithm(k))]]

\* A list with one text in it.
SmallJson ==
  [root |-> 1,
   node |-> <<[kind |-> "container", items |-> <<[key |-> 0, at |-> 2]>>],
              [kind |-> "scalar", size |-> 1]>>]

CleanSubmission ==
  [receipt |-> CleanReceipt, json |-> SmallJson, audited |-> TRUE, input_defect |-> "none",
   context |-> "context", request_id |-> "request", registry |-> CleanRegistry,
   denylist |-> {}, backend |-> TRUE]

-----------------------------------------------------------------------------
(* What the signers do, each with what is there when it is its turn.       *)

SignBundle(bundle, digest) ==
  [bundle EXCEPT !.entries =
     [i \in DOMAIN bundle.entries |-> [bundle.entries[i] EXCEPT !.hash = digest]]]

SignVerdict(v) ==
  [v EXCEPT !.payload_hash = ComponentDigest(v), !.bundle = SignBundle(@, ComponentDigest(v))]

SignReceipt(r) ==
  LET s == [r EXCEPT !.components = [i \in DOMAIN r.components |-> SignVerdict(r.components[i])]]
  IN  [s EXCEPT !.receipt_hash = UnsignedReceipt(s), !.payload_hash = ReceiptDigest(s),
                !.bundle = SignBundle(@, ReceiptDigest(s))]

Sign(p) == [p EXCEPT !.receipt = SignReceipt(@)]

=============================================================================
