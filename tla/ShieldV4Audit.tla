---------------------------- MODULE ShieldV4Audit ----------------------------
(***************************************************************************)
(* integrations/shield_v4_verification_audit.py around the verifier:       *)
(* several verifications run at the same time, each copies its receipt     *)
(* node by node, checks it, calls the signature backend once per signature *)
(* and, on the audited entry point, returns its result only when a sink    *)
(* has acknowledged the batch of records that tells what happened.         *)
(*                                                                         *)
(* The sink, the backend and the replay state (the request ids a host has  *)
(* seen, the least registry version it accepts) belong to the caller.      *)
(***************************************************************************)
EXTENDS ShieldV4Verifier

CONSTANTS
  Calls,         \* verifications that may be in flight
  Names,         \* names of what may be submitted
  NoName,        \* none of them
  Submitted,     \* [Names -> what is submitted: see ShieldV4Verifier, and json,
                 \*   audited: which of the two entry points is called]
  MaxAuditRecords,   \* MAX_AUDIT_RECORDS
  MaxFaults,     \* how often backend or sink may misbehave
  MaxCrashes,
  MaxClock

ASSUME BoundsAssumption ==
  /\ MaxClock \in Nat \ {0} /\ MaxFaults \in Nat /\ MaxCrashes \in Nat
  /\ MaxAuditRecords \in Nat
ASSUME NoNameAssumption == NoName \notin Names

\* What is submitted is a graph of objects.  What the contract takes for a list, a date
\* or a version is one: anything else is malformed, and an expected context that is no
\* hash is an input_defect.  The errors of to_canonical_json are of the base class.
\* Identifiers have no blanks around them (one that has passes a check of its stripped
\* form and ends in a KeyError of the preflight, verifier line 635).
Decoded(p) ==
  LET r == p.receipt
  IN  /\ IsGraph(p.json)
      /\ r.registry_version \in Int /\ p.registry.version \in Int
      /\ r.components \in Seq(Range(r.components))
      /\ r.results \in Seq(Range(r.results))
      /\ p.registry.keys \in Seq(Range(p.registry.keys))
      /\ r.bundle.entries \in Seq(Range(r.bundle.entries))
      /\ r.not_before \in Int /\ r.not_after \in Int
      /\ \A v \in Range(r.components) : /\ v.bundle.entries \in Seq(Range(v.bundle.entries))
                                       /\ v.not_before \in Int /\ v.not_after \in Int
      /\ \A k \in Range(p.registry.keys) : k.not_before \in Int /\ k.not_after \in Int
      /\ r.uncanonical \in {OK, "CONTRACT", "CONTRACT_CONTEXT", "CONTRACT_POLICY"}
      /\ p.context # NotAHash

ASSUME SubmissionAssumption == \A n \in Names : Decoded(Submitted[n])

VARIABLES
  clock,         \* the time callers pass as verification_time
  seen,          \* the request ids the host passes as seen_request_ids
  floor,         \* what it passes as minimum_key_registry_version
  log,           \* the batches the sink holds durably, in order
  faults,
  crashes,
  pc,            \* stage of each call
  name,          \* what it was submitted with
  now,           \* verification_time
  minimum,       \* minimum_key_registry_version
  seen_before,   \* the ids the host had recorded when the call began
  copy,          \* the bounded snapshot in progress
  cause,         \* why it is rejected, OK if it is not
  slot,          \* position in the algorithm waves, 0 before validated_receipt
  transcript     \* what the observer was told of callbacks

hostVars == <<clock, seen, floor, crashes>>
callVars == <<name, now, minimum, seen_before>>
vars == <<hostVars, log, faults, pc, callVars, copy, cause, slot, transcript>>

P(c) == Submitted[name[c]]

Stages == {"copying", "preflight", "waves", "decided", "failed", "appending",
           "appending_failure"}
Ends == {"returned", "recorded", "refused", "sink_error", "audited_error", "lost"}

Init ==
  /\ clock = 1
  /\ seen = {}
  /\ floor = 1
  /\ log = <<>>
  /\ faults = 0
  /\ crashes = 0
  /\ pc = [c \in Calls |-> "new"]
  /\ name = [c \in Calls |-> NoName]
  /\ now = [c \in Calls |-> 0]
  /\ minimum = [c \in Calls |-> 0]
  /\ seen_before = [c \in Calls |-> {}]
  /\ copy = [c \in Calls |-> NoCopy]
  /\ cause = [c \in Calls |-> OK]
  /\ slot = [c \in Calls |-> 0]
  /\ transcript = [c \in Calls |-> <<>>]

-----------------------------------------------------------------------------
\* The audited entry point raises ValueError for an unusable parameter, before
\* there is anything to record; the other one answers with a rejection.
AuditRefuses(p) ==
  p.audited /\ p.input_defect \in
    {"time", "date", "context", "transport", "request_id", "minimum"}

Submit(c, n) ==
  LET p == Submitted[n]
      rejection == IF p.audited THEN OK ELSE InputRejection(p)
  IN  /\ pc[c] = "new"
      /\ pc' = [pc EXCEPT ![c] = IF AuditRefuses(p) THEN "refused"
                                 ELSE IF rejection # OK THEN "decided" ELSE "copying"]
      /\ name' = [name EXCEPT ![c] = n]
      /\ now' = [now EXCEPT ![c] = clock]
      /\ minimum' = [minimum EXCEPT ![c] = floor]
      /\ seen_before' = [seen_before EXCEPT ![c] = seen]
      /\ cause' = [cause EXCEPT ![c] = rejection]
      /\ UNCHANGED <<hostVars, log, faults, copy, slot, transcript>>

\* bounded_json_snapshot.  Over budget the verifier rejects; the wrapper, whose
\* snapshot is its own, treats the exception like any other.
Copy(c) ==
  /\ pc[c] = "copying"
  /\ \E next \in {CopyStep(copy[c], P(c).json)} :
       /\ copy' = [copy EXCEPT ![c] = next]
       /\ \/ /\ next.verdict = "copying"
             /\ UNCHANGED <<pc, cause>>
          \/ /\ next.verdict = "copied"
             /\ pc' = [pc EXCEPT ![c] = "preflight"]
             /\ UNCHANGED cause
          \/ /\ next.verdict = "over_budget"
             /\ pc' = [pc EXCEPT ![c] = IF P(c).audited THEN "failed" ELSE "decided"]
             /\ cause' = [cause EXCEPT ![c] = "CONTRACT"]
  /\ UNCHANGED <<hostVars, log, faults, callVars, slot, transcript>>

\* Mutant: an id counts as seen from the moment some verification of it has passed
\* its preflight, not from when the host has recorded it.
PreflightMarking(c) ==
  LET marked == {P(d).receipt.request_id : d \in {e \in Calls \ {c} : slot[e] > 0}}
  IN  /\ pc[c] = "preflight"
      /\ \E rejection \in {PreflightRejection(P(c), now[c], minimum[c], seen \cup marked)} :
           /\ pc' = [pc EXCEPT ![c] = IF rejection = OK THEN "waves" ELSE "decided"]
           /\ slot' = [slot EXCEPT ![c] = IF rejection = OK THEN 1 ELSE 0]
           /\ cause' = [cause EXCEPT ![c] = rejection]
      /\ UNCHANGED <<hostVars, log, faults, callVars, copy, transcript>>

\* Everything up to the first callback (the rejection is bound once).  The replay
\* state is read here, and is the host's again afterwards.
Preflight(c) ==
  /\ pc[c] = "preflight"
  /\ \E rejection \in {PreflightRejection(P(c), now[c], minimum[c], seen)} :
       /\ pc' = [pc EXCEPT ![c] = IF rejection = OK THEN "waves" ELSE "decided"]
       /\ slot' = [slot EXCEPT ![c] = IF rejection = OK THEN 1 ELSE 0]
       /\ cause' = [cause EXCEPT ![c] = rejection]
  /\ UNCHANGED <<hostVars, log, faults, callVars, copy, transcript>>

-----------------------------------------------------------------------------
(* _verify_global_algorithm_waves: for each algorithm, for each bundle.    *)

Slots == Len(AllowedAlgorithms) * Len(ArtifactIds)

SlotAlgorithm(k) == AllowedAlgorithms[((k - 1) \div Len(ArtifactIds)) + 1]
SlotArtifact(k) == ArtifactIds[((k - 1) % Len(ArtifactIds)) + 1]

\* The entries of the slot's bundle that use the slot's algorithm.
Matching(r, k) ==
  {e \in Range(Artifact(r, SlotArtifact(k)).bundle.entries) :
     e.algorithm = SlotAlgorithm(k)}

\* Mutant: the last call of the budget counts as one too many.
BudgetSpentEarly(observations, algorithm) == Len(observations) + 1 >= MaxCallbacks

\* Mutant: one budget for all verifications of the process.
BudgetSpentOfAll(observations, algorithm) ==
  Cardinality(UNION {{d} \X DOMAIN transcript[d] : d \in Calls}) + 1 > MaxCallbacks

\* _VerificationCallBudget.before_callback
BudgetSpent(observations, algorithm) ==
  LET pqc == {i \in DOMAIN observations : PostQuantum(SlotAlgorithm(observations[i].slot))}
  IN  \/ Len(observations) + 1 > MaxCallbacks
      \/ PostQuantum(algorithm) /\ Cardinality(pqc) + 1 > MaxPostQuantum

\* Mutant: a backend that raises has said no.
AnswerRejectionOfException(answer) ==
  CASE answer = "true"     -> OK
    [] answer = "not_bool" -> "BACKEND_FAILURE"
    [] OTHER               -> "SIGNATURE_INVALID"

\* _invoke_resolved_signature: what the verifier makes of an answer.
AnswerRejection(answer) ==
  CASE answer = "true"  -> OK
    [] answer = "false" -> "SIGNATURE_INVALID"
    [] OTHER            -> "BACKEND_FAILURE"    \* it raised, or no bool

Advance(c) ==
  /\ slot' = [slot EXCEPT ![c] = @ + 1]
  /\ pc' = [pc EXCEPT ![c] = IF slot[c] = Slots THEN "decided" ELSE "waves"]

\* A bundle without the algorithm is passed over.
SkipSlot(c) ==
  /\ pc[c] = "waves"
  /\ Matching(P(c).receipt, slot[c]) = {}
  /\ Advance(c)
  /\ UNCHANGED <<hostVars, log, faults, callVars, copy, cause, transcript>>

\* A backend that works says whether the signature is genuine; one that does not
\* raises, or answers something that is no bool.
Answers(e) ==
  {IF e.signature = "genuine" THEN "true" ELSE "false"}
    \cup (IF faults < MaxFaults THEN {"raises", "not_bool"} ELSE {})

Callback(c) ==
  /\ pc[c] = "waves"
  /\ \E e \in Matching(P(c).receipt, slot[c]) : \E answer \in Answers(e) :
       LET spent     == BudgetSpent(transcript[c], SlotAlgorithm(slot[c]))
           rejection == IF spent THEN "SIGNATURE_POLICY" ELSE AnswerRejection(answer)
       IN  /\ cause' = [cause EXCEPT ![c] = rejection]
           /\ transcript' = [transcript EXCEPT ![c] = IF spent THEN @ ELSE
                               Append(@, [slot |-> slot[c], rejection |-> rejection])]
           /\ faults' = IF answer \in {"true", "false"} THEN faults ELSE faults + 1
           /\ IF rejection = OK THEN Advance(c)
              ELSE /\ pc' = [pc EXCEPT ![c] = "decided"]
                   /\ UNCHANGED slot
  /\ UNCHANGED <<hostVars, log, callVars, copy>>

-----------------------------------------------------------------------------
(* The transcript, and the sink.                                           *)

AuditRecord(kind, at, rejection) ==
  [kind |-> kind, slot |-> at, reason |-> AuditReasonOf(rejection), passed |-> rejection = OK]

\* validated_receipt was called: the signatures were looked at.
Validated(c) == slot[c] > 0

\* Mutant: a terminal record whether or not the receipt was looked at.
RecordsWithTerminal(c) ==
  << AuditRecord("preflight", 0, IF Validated(c) THEN OK ELSE cause[c]),
     AuditRecord("artifact", 0, cause[c]) >>

\* The records of a verification that came to a result, and of one that failed.
Records(c) ==
  IF pc[c] \in {"failed", "appending_failure"} THEN << AuditRecord("preflight", 0, "CONTRACT") >>
  ELSE << AuditRecord("preflight", 0, IF Validated(c) THEN OK ELSE cause[c]) >>
       \o [i \in 1..Len(transcript[c]) |->
             AuditRecord("signature", transcript[c][i].slot, transcript[c][i].rejection)]
       \o (IF Validated(c) THEN << AuditRecord("artifact", 0, cause[c]) >> ELSE <<>>)

\* A batch says nothing of the call it comes from but its inputs and its second:
\* equal verifications have equal batches, and equal hashes.
Batch(c) ==
  [transport |-> name[c], request_id |-> P(c).request_id, time |-> now[c],
   minimum |-> minimum[c], records |-> Records(c)]

\* serialize_audit_record and audit_batch_sha256 refuse their own records.
BatchRefused(records) ==
  \/ Len(records) > MaxAuditRecords
  \/ \E i \in DOMAIN records : (records[i].reason = "V4_VERIFY_OK") # records[i].passed

\* sink.append_batch.  The sink of a host may lose a batch or store it twice.
AppendBatch(c) ==
  /\ pc[c] \in {"decided", "failed"}
  /\ P(c).audited
  /\ \E batch \in {Batch(c)}, stored \in 0..2 :
       /\ stored # 1 => faults < MaxFaults
       /\ faults' = IF stored = 1 THEN faults ELSE faults + 1
       /\ IF BatchRefused(batch.records)
          THEN /\ pc' = [pc EXCEPT ![c] = "sink_error"]
               /\ UNCHANGED log
          ELSE /\ pc' = [pc EXCEPT ![c] = IF @ = "failed" THEN "appending_failure"
                                          ELSE "appending"]
               /\ log' = log \o [i \in 1..stored |-> batch]
  /\ UNCHANGED <<hostVars, callVars, copy, cause, slot, transcript>>

\* What may come back: an acknowledgement of this or of another batch, perhaps
\* with another count or not durable (a sink that raises counts as that).  The
\* sink does not call durable what it does not hold.
Acknowledgements(batch) ==
  {ack \in [batch : Range(log) \cup {batch}, miscounted : BOOLEAN, durable : BOOLEAN] :
     ack.durable => ack.batch \in Range(log)}

\* Mutant: durable is not asked for.
AcknowledgesUnstored(ack, batch) == ack.batch = batch /\ ~ack.miscounted

\* Mutant: any batch will do.
AcknowledgesAnother(ack, batch) == ~ack.miscounted /\ ack.durable

\* _append_required_audit: what counts as one.
Acknowledges(ack, batch) ==
  /\ ack.batch = batch
  /\ ~ack.miscounted
  /\ ack.durable

\* Mutant: the caller is kept waiting for a batch that was lost.
AcknowledgeWaiting(c) ==
  /\ pc[c] \in {"appending", "appending_failure"}
  /\ Batch(c) \in Range(log)
  /\ pc' = [pc EXCEPT ![c] = IF @ = "appending" THEN "returned" ELSE "audited_error"]
  /\ UNCHANGED <<hostVars, log, faults, callVars, copy, cause, slot, transcript>>

\* verify_shield_v4_orchestrator_receipt_with_audit returns, or raises
\* ShieldV4AuditedVerificationError or ShieldV4AuditSinkError.
Acknowledge(c) ==
  /\ pc[c] \in {"appending", "appending_failure"}
  /\ \E batch \in {Batch(c)} : \E ack \in Acknowledgements(batch) :
       IF Acknowledges(ack, batch)
       THEN /\ pc' = [pc EXCEPT ![c] = IF @ = "appending" THEN "returned" ELSE "audited_error"]
            /\ UNCHANGED faults
       ELSE /\ batch \in Range(log) => faults < MaxFaults
            /\ pc' = [pc EXCEPT ![c] = "sink_error"]
            /\ faults' = IF batch \in Range(log) THEN faults + 1 ELSE faults
  /\ UNCHANGED <<hostVars, log, callVars, copy, cause, slot, transcript>>

\* verify_shield_v4_orchestrator_receipt, the entry point without a sink.
Return(c) ==
  /\ pc[c] = "decided"
  /\ ~P(c).audited
  /\ pc' = [pc EXCEPT ![c] = "returned"]
  /\ UNCHANGED <<hostVars, log, faults, callVars, copy, cause, slot, transcript>>

-----------------------------------------------------------------------------
(* The host.                                                               *)

\* A host records the request id and the registry version of a verified result.
RecordResult(c) ==
  LET r == P(c).receipt
  IN  /\ pc[c] = "returned"
      /\ cause[c] = OK
      /\ pc' = [pc EXCEPT ![c] = "recorded"]
      /\ seen' = seen \cup {r.request_id}
      /\ floor' = IF r.registry_version > floor THEN r.registry_version ELSE floor
      /\ UNCHANGED <<clock, crashes, log, faults, callVars, copy, cause, slot, transcript>>

\* Mutant: the replay state goes down with the process.
CrashForgetful ==
  /\ crashes < MaxCrashes
  /\ crashes' = crashes + 1
  /\ seen' = {}
  /\ pc' = [c \in Calls |-> IF pc[c] \in Stages \cup {"returned"} THEN "lost" ELSE pc[c]]
  /\ UNCHANGED <<clock, floor, log, faults, callVars, copy, cause, slot, transcript>>

\* The process stops: what is in flight is gone, what was recorded stays.
Crash ==
  /\ crashes < MaxCrashes
  /\ crashes' = crashes + 1
  /\ pc' = [c \in Calls |-> IF pc[c] \in Stages \cup {"returned"} THEN "lost" ELSE pc[c]]
  /\ UNCHANGED <<clock, seen, floor, log, faults, callVars, copy, cause, slot, transcript>>

Tick ==
  /\ clock < MaxClock
  /\ clock' = clock + 1
  /\ UNCHANGED <<seen, floor, crashes, log, faults, pc, callVars, copy, cause, slot, transcript>>

Step(c) ==
  \/ Copy(c)
  \/ Preflight(c)
  \/ SkipSlot(c)
  \/ Callback(c)
  \/ AppendBatch(c)
  \/ Acknowledge(c)
  \/ Return(c)

Next ==
  \/ \E c \in Calls :
       \/ \E n \in Names : Submit(c, n)
       \/ Step(c)
       \/ RecordResult(c)
  \/ Crash
  \/ Tick

Spec == Init /\ [][Next]_vars

\* Backend and sink come back, and the thread of a call is scheduled.
Fairness == \A c \in Calls : WF_vars(Step(c))

LiveSpec == Spec /\ Fairness

=============================================================================
