------------------------ MODULE ShieldV4Requirements ------------------------
(***************************************************************************)
(* What a host may rely on when it takes Shield v4 receipts for evidence,  *)
(* stated over what was submitted, what the backend answered, what the     *)
(* sink holds and what was returned, and not over the order of the checks. *)
(***************************************************************************)
EXTENDS ShieldV4Audit

\* The variables have the values their declarations promise, and a call that
\* has an answer is at an end.
TypeOK ==
  /\ clock \in 1..MaxClock /\ crashes \in 0..MaxCrashes /\ faults \in 0..MaxFaults
  /\ pc \in [Calls -> Stages \cup Ends \cup {"new"}]
  /\ name \in [Calls -> Names \cup {NoName}]
  /\ now \in [Calls -> 0..MaxClock]
  /\ slot \in [Calls -> 0..(Slots + 1)]
  /\ DOMAIN transcript = Calls /\ DOMAIN cause = Calls /\ DOMAIN copy = Calls
  /\ floor \in Nat /\ minimum \in [Calls -> Nat]
  /\ \A c \in Calls :
       /\ name[c] = NoName <=> pc[c] = "new"
       /\ seen_before[c] \subseteq seen
       /\ copy[c].verdict \in {"copying", "copied", "over_budget"}

-----------------------------------------------------------------------------
(* What is copied.                                                         *)

\* The step-by-step copy comes to the verdict the whole input deserves: it refuses
\* an object that is shared only for what it unfolds into, one that contains itself
\* always, and never holds more than its budget on the way to either
\* (shield_v4_work_budget.py:67-157).
SnapshotDecidesTheBudget ==
  \A c \in Calls :
    /\ copy[c].verdict = "copied" => FitsBudget(P(c).json)
    /\ copy[c].verdict = "over_budget" => ~FitsBudget(P(c).json)
    /\ copy[c].nodes <= MaxNodes /\ copy[c].bytes <= MaxBytes
    /\ Len(copy[c].path) <= MaxDepth

-----------------------------------------------------------------------------
(* What was looked at.                                                     *)

\* All waves went through.
Verified(c) == slot[c] = Slots + 1

Artifacts(r) == {Artifact(r, id) : id \in Range(ArtifactIds)}

\* Everything that can be told without a backend: the receipt is the one that was
\* asked for, says what its components say, is fresh in every part, and every
\* signature in it, needed or not, names an active key of its signer.
Checkable(p, t, least) ==
  LET r == p.receipt
      decisions == {r.components[i].decision : i \in DOMAIN r.components}
  IN  /\ {r.components[i].id : i \in DOMAIN r.components} = Range(SupportedComponents)
      /\ r.request_id = p.request_id
      /\ \A a \in Artifacts(r) : a.context = p.context
      /\ r.outcome = "ALLOW" <=> decisions = {"ALLOW"}
      /\ "DENY" \in decisions => r.outcome = "DENY"
      /\ r.handoff_allowed => r.outcome = "ALLOW"
      /\ r.registry_version = p.registry.version /\ p.registry.version >= least
      /\ r.receipt_hash \notin p.denylist
      /\ \A id \in Range(ArtifactIds) :
           LET a  == Artifact(r, id)
               es == a.bundle.entries
           IN  /\ a.not_before <= t /\ t <= a.not_after
               /\ \A algorithm \in RequiredAlgorithms :
                    \E i \in DOMAIN es : es[i].algorithm = algorithm
               /\ \A i, j \in DOMAIN es : i # j => es[i].algorithm # es[j].algorithm
               /\ \A i \in DOMAIN es :
                    \E k \in Range(p.registry.keys) :
                      /\ k.role = id /\ k.algorithm = es[i].algorithm
                      /\ k.key_id = es[i].key_id /\ k.key_version = es[i].key_version
                      /\ k.status = "active"
                      /\ {t, a.not_before, a.not_after} \subseteq k.not_before..k.not_after

\* What every signature is over: the artifact as it stands, in its own domain.
Untampered(r) ==
  /\ r.payload_hash = ReceiptDigest(r)
  /\ r.receipt_hash = UnsignedReceipt(r)
  /\ \A i \in DOMAIN r.components :
       r.components[i].payload_hash = ComponentDigest(r.components[i])
  /\ \A a \in {r} \cup Range(r.components) : \A i \in DOMAIN a.bundle.entries :
       a.bundle.entries[i].hash = a.payload_hash

\* No callback occurs until every bundle and key of the whole receipt has passed:
\* whatever the first component signed, a backend is not asked while the last one
\* may still fall (docs/CONTRACTS/shield_v4_performance_dos_envelope_v1.md:69).
NoCallbackBeforePreflight ==
  \A c \in Calls : Validated(c) \/ transcript[c] # <<>> =>
    Checkable(P(c), now[c], minimum[c]) /\ Untampered(P(c).receipt)

\* The slots of the signatures a receipt carries.
SignedSlots(r) ==
  {k \in 1..Slots : SlotAlgorithm(k) \in
     {e.algorithm : e \in Range(Artifact(r, SlotArtifact(k)).bundle.entries)}}

\* Called(c): the slots a backend was called for, in order.
Called(c) == [i \in 1..Len(transcript[c]) |-> transcript[c][i].slot]

\* A verified result means that the backend was asked exactly once about every
\* signature in the receipt, all classical ones before any post-quantum one, and
\* said yes each time; a rejected one that it was asked no further after the first
\* no.  Its budget of callbacks never stops it half-way
\* (verifier _verify_global_algorithm_waves, lines 1013-1061).
VerifiedMeansEverySignature ==
  \A c \in Calls :
    LET n == Len(transcript[c])
    IN  /\ \A i \in 1..(n - 1) : /\ Called(c)[i] < Called(c)[i + 1]
                                 /\ transcript[c][i].rejection = OK
        /\ Verified(c) => /\ Range(Called(c)) = SignedSlots(P(c).receipt)
                          /\ n > 0 /\ transcript[c][n].rejection = OK
                          /\ cause[c] = OK
        /\ Validated(c) /\ cause[c] # OK =>
             n > 0 /\ transcript[c][n].rejection = cause[c]

-----------------------------------------------------------------------------
(* What comes of it.                                                       *)

\* The calls whose verification has come to an end, before or after the sink.
Concluded(c) ==
  pc[c] \in {"decided", "failed", "appending", "appending_failure", "returned",
            "recorded", "sink_error", "audited_error"}

AllGenuine(r) ==
  \A k \in SignedSlots(r) : \A e \in Matching(r, k) : e.signature = "genuine"

\* What a verification with a backend that works is to answer, worked out at once: the
\* input, its budget, its preflight and then its signatures, in this order.
Answer(p, t, least, ids) ==
  LET input     == IF p.audited THEN OK ELSE InputRejection(p)
      preflight == PreflightRejection(p, t, least, ids)
  IN  IF input # OK THEN input
      ELSE IF ~FitsBudget(p.json) THEN "CONTRACT"
      ELSE IF preflight # OK THEN preflight
      ELSE IF AllGenuine(p.receipt) THEN OK ELSE "SIGNATURE_INVALID"

\* However the steps of other calls, of the host and of the sink fall between its own,
\* a verification answers what Answer says for the ids the host had recorded at one
\* moment of it, no earlier than its beginning; a backend that fails is blamed only when
\* it did, and only when nothing in front of the callbacks is wrong: a good receipt is
\* not rejected for anything else, nor is a bad one rejected for something worse
\* (verifier lines 1221-1340, audit lines 554-644).
VerdictIsDetermined ==
  \A c \in Calls : Concluded(c) =>
    \E ids \in {i \in SUBSET seen : seen_before[c] \subseteq i} :
      LET verdict == Answer(P(c), now[c], minimum[c], ids)
      IN  \/ cause[c] = verdict
          \/ /\ cause[c] = "BACKEND_FAILURE" /\ faults > 0
             /\ verdict \in {OK, "SIGNATURE_INVALID"}

\* Calls that are asked the same thing answer the same, unless one of them ran into the
\* request ids the other left, or into a backend that failed: there is no other state
\* through which one verification could influence another
\* (shield_v4_verification_audit.py:554-644, verifier _VerificationCallBudget).
OnlyReplayTellsCallsApart ==
  \A c, d \in Calls :
    /\ Concluded(c) /\ Concluded(d) /\ cause[c] # cause[d]
    /\ name[c] = name[d] /\ now[c] = now[d] /\ minimum[c] = minimum[d]
    => {cause[c], cause[d]} \cap {"REPLAY", "INVALID_REPLAY_INPUT", "BACKEND_FAILURE"} # {}

-----------------------------------------------------------------------------
(* What is recorded.                                                        *)

\* A batch tells the verification: one signature record per callback made, in
\* order and none for a callback that did not happen, at most the last of them
\* failed; a terminal record exactly when the receipt had passed its preflight,
\* and passed only if every callback did; no reason given with a pass but
\* V4_VERIFY_OK; and it never outgrows what the sink contract allows
\* (docs/CONTRACTS/shield_v4_verification_audit_v1.md:60-112).
Tells(b) ==
  LET rs == b.records
      n  == Len(rs)
      signatures == {i \in 1..n : rs[i].kind = "signature"}
  IN  /\ n \in 1..MaxAuditRecords
      /\ \A i \in 1..n : rs[i].kind = "preflight" <=> i = 1
      /\ \A i \in 1..n : rs[i].passed <=> rs[i].reason = "V4_VERIFY_OK"
      /\ ~rs[1].passed <=> n = 1
      /\ rs[1].passed =>
           /\ rs[n].kind = "artifact" /\ signatures = 2..(n - 1)
           /\ rs[n].reason = rs[n - 1].reason
           /\ \A i \in signatures : ~rs[i].passed => i = n - 1
           /\ \A i, j \in signatures : i < j => rs[i].slot < rs[j].slot
           /\ rs[n].passed =>
                {rs[i].slot : i \in signatures}
                  = SignedSlots(Submitted[b.transport].receipt)

\* Every batch the sink holds tells the verification it comes from, as above.
BatchTellsTheVerification == \A b \in Range(log) : Tells(b)

\* The result of a call as its caller sees it.
ResultState(c) == StateOf(cause[c], P(c).receipt)
Returned(c) == pc[c] \in {"returned", "recorded"}

\* A receipt of another context; or one with a value that has no canonical form
\* below a path that says "context", which is reported in the same words.
ContextMismatch(p) ==
  \/ p.receipt.context # p.context
  \/ \E i \in DOMAIN p.receipt.components : p.receipt.components[i].context # p.context
  \/ p.receipt.uncanonical = "CONTRACT_CONTEXT"

\* The reason in the audit records is worked out from the message of an
\* exception, the state of the result from its class: they agree on what passed,
\* and a result that blames the context or a signature, or that lets its reader
\* continue, is about something the receipt or the backend did (verifier
\* _classify_contract_error, _audit_reason_for_contract_error; audit
\* _reason_for_result).  That V4_POLICY_INVALID is recorded of a bundle that is
\* reported as an invalid receipt is the subject of ShieldV4Documented.
ReasonsAgree ==
  \A c \in Calls : pc[c] = "decided" =>
    LET state == ResultState(c)
        r     == P(c).receipt
    IN  /\ cause[c] = OK <=> AuditReasonOf(cause[c]) = "V4_VERIFY_OK"
        /\ state = "REJECTED_CONTEXT_MISMATCH" => ContextMismatch(P(c))
        /\ state = "REJECTED_SIGNATURE_INVALID" => transcript[c] # <<>> \/ ~P(c).backend
        /\ state = "VERIFIED_ALLOW_EVIDENCE_CONTINUE_CHECKS" =>
             \A i \in DOMAIN r.components : r.components[i].decision = "ALLOW"

\* A date that says nothing, or a window that is not open at time t.
NotCurrent(p, t) ==
  \/ p.receipt.dates_malformed
  \/ \E k \in Range(p.registry.keys) : k.dates_malformed
  \/ \E a \in {p.receipt} \cup Range(p.receipt.components) :
       ~(a.not_before <= t /\ t <= a.not_after) \/ a.not_before >= a.not_after

\* What a batch blames a rejection on is so, as anyone can see who has what was
\* submitted: a signature that is not genuine is one of the slot recorded last.
BlamesWhatIsSo(b) ==
  LET p == Submitted[b.transport]
      r == p.receipt
      reason == Last(b.records).reason
      slot_asked == b.records[Len(b.records) - 1].slot
  IN  /\ reason = "V4_CONTEXT_MISMATCH" => ContextMismatch(p)
      /\ reason = "V4_REQUEST_MISMATCH" => r.request_id # p.request_id
      /\ reason = "V4_HASH_MISMATCH" => ~Untampered(r)
      /\ reason = "V4_FRESHNESS_INVALID" => NotCurrent(p, b.time)
      /\ reason = "V4_SIGNATURE_INVALID" =>
           \E e \in Matching(r, slot_asked) : e.signature # "genuine"
      /\ reason = "V4_BACKEND_FAILURE" => faults > 0

\* A receipt was accepted before: its batch is further up in the log, unless it was
\* accepted through the entry point that keeps none.
AcceptedBefore(id, n) ==
  \/ \E i \in 1..(n - 1) : log[i].request_id = id /\ Last(log[i].records).passed
  \/ \E c \in Calls :
       pc[c] = "recorded" /\ ~P(c).audited /\ P(c).receipt.request_id = id

\* Whoever reads the log can believe what it says of a rejection, in particular that
\* a replay repeats an acceptance further up: the order of the checks, a host that
\* records while another verification is under way and a sink that loses or repeats
\* batches never make one fault pass for another (verifier lines 1221-1340, audit
\* lines 422-442 and 524-549).
RejectionsAreTrue ==
  \A n \in DOMAIN log :
    LET p == Submitted[log[n].transport]
    IN  /\ BlamesWhatIsSo(log[n])
        /\ Last(log[n].records).reason = "V4_REPLAY_REJECTED" =>
             \/ p.receipt.receipt_hash \in p.denylist
             \/ AcceptedBefore(log[n].request_id, n)

\* Evidence is what was submitted, when, and what came of it.
Evidence == Names \X (1..MaxClock) \X AuditReasons
EvidenceOf(c) == <<name[c], now[c], AuditReasonOf(cause[c])>>

Recorded == {<<b.transport, b.time, Last(b.records).reason>> : b \in Range(log)}

\* The calls that have their result from an audited verification.
Publishers == {c \in Calls : Returned(c) /\ P(c).audited}
Published == {<<c, EvidenceOf(c)>> : c \in Publishers}

Publication == INSTANCE RecordedPublication
  WITH Callers <- Calls, recorded <- Recorded, published <- Published

\* No evidence result escapes a sink that did not acknowledge the very batch that
\* tells of it as durable, whatever is lost, stored twice, acknowledged for
\* another call or cut off by a crash (shield_v4_verification_audit.py:524-549).
ImplementsRecordedPublication == Publication!Spec

-----------------------------------------------------------------------------
(* Replay, which is the caller's to keep and the verifier's to ask.         *)

\* A request id whose acceptance was recorded before a verification began is not
\* accepted by it, nor is a registry older than one recorded before: two results
\* for one request can only come from overlapping calls or from a host that went
\* down before it recorded the first (docs/ADAMANTINEOS_SHIELD_V4_THREAT_MODEL.md:132).
NothingRecordedIsAcceptedAgain ==
  \A c \in Calls : Verified(c) =>
    /\ P(c).receipt.request_id \notin seen_before[c]
    /\ P(c).registry.version >= minimum[c]

\* Whatever happens to the process, what a host counts as seen has its verified
\* batch in the log: no request is blocked by a verification nobody can find.
SeenIsRecorded ==
  \A id \in seen : \E c \in Calls :
    /\ pc[c] = "recorded" /\ P(c).receipt.request_id = id
    /\ P(c).audited => \E b \in Range(log) :
                          b.request_id = id /\ Last(b.records).passed

-----------------------------------------------------------------------------
(* How much work it is.                                                    *)

\* The steps a verification has still to make, at most: two for every node the budget
\* has left and one for every container to be left, one for every slot of the waves.
WorkLeft(c) ==
  CASE pc[c] = "copying"   -> 2 * (MaxNodes - copy[c].nodes) + Len(copy[c].path) + Slots + 5
    [] pc[c] = "preflight" -> Slots + 4
    [] pc[c] = "waves"     -> Slots - slot[c] + 3
    [] pc[c] \in {"decided", "failed"} -> 2
    [] pc[c] \in {"appending", "appending_failure"} -> 1
    [] OTHER -> 0

MaxWork == 2 * MaxNodes + Slots + 5

\* What a step of a call may change of it.
Progress(c) == <<pc[c], copy[c], cause[c], slot[c], transcript[c]>>

\* Whatever is submitted, a verification is over after MaxWork steps: none of its steps
\* repeats work or is for nothing, and no step of anyone else gives it more to do
\* (docs/CONTRACTS/shield_v4_performance_dos_envelope_v1.md:23-47, shield_v4_work_budget.py:67-157).
EveryStepCounts ==
  [][\A c \in Calls :
       /\ pc[c] \in Stages /\ Progress(c)' # Progress(c) => WorkLeft(c)' < WorkLeft(c)
       /\ WorkLeft(c)' \in 0..MaxWork]_vars

-----------------------------------------------------------------------------
\* A verification ends, whatever the objects it is handed: the copy of a receipt
\* that contains itself runs into a budget, and every rejection still gets to the
\* sink (shield_v4_work_budget.py:67-157).
EveryVerificationEnds ==
  \A c \in Calls : pc[c] # "new" ~> pc[c] \in Ends

=============================================================================
