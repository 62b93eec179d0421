# AdamantineOS in TLA+

AdamantineOS decides whether a wallet action may be executed. A caller hands in
a request envelope with evidence from three outside parties (a Q-ID session, an
Adaptive Core risk report, a Shield receipt or bundle) and a WSQK authority; the
core checks everything in a fixed order, marks a single-use nonce, lets the
final policy engine decide, and calls the injected executor. Everything else
(crypto, storage, transport, user interface) is injected or left to the host.

These modules model the decision core, check it with TLC on small instances and
prove its main properties with TLAPS. Paths below are relative to the
repository; `v1/` stands for `src/adamantine/v1/`.

## 1. Inventory

| component | source | state | operations |
|---|---|---|---|
| Orchestrator v2 | `v1/execution/orchestrator_v2.py` | locals of one call | `orchestrate_execution_v2`: 11 stages, four exception handlers |
| Runtime host v2 | `src/adamantine/v2/runtime_host/host.py` | injected executor, store, policy, verifiers | `handle` |
| Nonce stores | `v1/enforcement/nonce_store.py` | the set of marked `(wallet, nonce)` | `check_and_mark` |
| TVA gate | `v1/enforcement/tva_gate.py`, `boundary.py` | none | `enforce_tva`, `run_with_tva` |
| Final policy engine | `v1/policy/final_policy_engine.py` | gates visited so far | `evaluate_final_policy_engine` |
| EQC | `v1/eqc/evaluator.py`, `context_hash.py` | none | `evaluate_eqc_v2`, `compute_context_hash` |
| Envelope v2 | `v1/execution/envelope_v2.py` | none | strict parser, timebox and skew |
| Q-ID adapter | `v1/integrations/qid_adapter.py` | none | session, replay proof |
| Oracle v3 adapter | `v1/integrations/adaptive_core_oracle_v3_adapter.py` | none | risk report |
| Shield receipt v3.2 | `v1/contracts/shield_orchestrator_receipt.py`, `v1/integrations/shield_orchestrator_receipt_verifier.py` | denylist of the caller | validate, verify |
| Shield bundle v3 | `v1/integrations/shield_v3_adapter.py` | none | parse, for the legacy boundary |
| WSQK v2 | `v1/wsqk/issuer_v2.py`, `v1/contracts/authority.py` | none | binding hash, issue |
| Risk policy, reason registry | `v1/policy/risk_policy.py`, `v1/contracts/*` | latches, reason map | `validate`, look-ups |
| Response v2 | `v1/execution/response_v2.py` | none | build and check a response |
| Shield v4 work budget | `v1/integrations/shield_v4_work_budget.py` | depth, nodes, bytes and active objects of one copy | `bounded_json_snapshot`, call budget |
| Shield v4 contract | `v1/contracts/shield_orchestrator_receipt_v4.py` | none | validate a receipt |
| Shield v4 verifier | `v1/integrations/shield_orchestrator_receipt_v4_verifier.py` | caller-owned seen set, minimum registry version | preflight, algorithm waves |
| Shield v4 audit | `v1/integrations/shield_v4_verification_audit.py` | transcript; caller-owned sink | audited verification, batch, append, acknowledgement |
| Policy evidence | `v1/integrations/{wsqk_v2_policy_evidence,qid_policy_binding,adaptive_core_policy_evidence}.py`, `v1/wsqk/qid_binding.py` | none | normalise WSQK, Q-ID and Adaptive Core evidence |
| AI gateway consumers | `v1/integrations/ai_gateway_policy_evidence.py`, `ai_gateway_policy_bound_evidence_v2.py` | none | consume a handoff: V1, and the policy-bound V2 |
| Upgrade gateway | `v1/integrations/adaptive_core_upgrade_gateway_v1.py` | none | proposal, receipt, decision |
| Orchestrator v1 | `v1/execution/orchestrator_v1.py` | locals of one call | the older path |

**How they interact.** The orchestrator is a straight line of calls. The only
state shared by calls is the nonce store and the policy. It leaves the line in
six places: the Q-ID, oracle and receipt verifier callbacks, `check_and_mark`,
`executor.execute` and the return to the host. At each of them other calls may
run, the callee may raise and the process may die. `now` is injected once and
used to the end.

The Shield v4 verifier copies its receipt under a budget, decides everything it
can without a callback (preflight), then calls the signature backend once per
matching signature, all classical ones before all post-quantum ones. The
audited entry point wraps this in a transcript and returns only when a sink
acknowledges the batch. What was seen (request ids, least registry version) is
kept by the host, which reads it before and writes it after: two verifications
overlap on it, and a crash may come between the durable batch and the write.

The policy path is a sequence the host runs: WSQK, Q-ID, Adaptive Core, gateway,
then the final policy engine and the TVA gate. Each normaliser is stateless and
sees the others only through `prior_gate_results`, which the host passes on or not.

**What is hard.** The order of checks (an early gate must not be reported for a
late one, nor the other way round); closed against half-open windows; raw against
stripped names; what is still true about the nonce after an exception; two calls
racing for a nonce; a crash between mark and execution; copying an object graph
that may contain itself; what a batch says against what happened; two
readers of one artifact that must not disagree in the wrong direction. `PROJECT.json` lists
these hazards line by line with the properties that cover them.

**What makes each part correct.** Engine: approval is unanimous and a denial names
the earliest defect. Store: one acceptance per key, for good. Orchestrator:
executes at most once per nonce, only for one context, with every window open
and every piece of evidence vouched for; only vetted calls reach the store; a
response says what happened. Work budget: what is copied is within every limit, and what
is within every limit is copied. Verifier: no callback before preflight,
acceptance only with every signature of every artifact, the same reason in
result and record. Audit: nothing is published that the sink does not hold;
what was recorded stays refused. Normalisers: what they accept together is
about one call, an earlier denial dominates, the strict consumer is no way
around the loose one, and what the issuer issues is served.

## 2. Modules

| module | models |
|---|---|
| `FailClosed` | an ordered chain of checks; its outcome is the first rejection |
| `ExecutionContext` | context hash, envelope v2 timebox |
| `Evidence` | the four evidence adapters |
| `Eqc` | `evaluate_eqc_v2` |
| `TvaGate` | authority extraction, WSQK v2 posture, `enforce_tva` up to the store |
| `FinalPolicyEngine` | the engine as one operator, `Evaluate` |
| `FinalPolicyLoop` | its loop, one gate per step, with `evaluation_order` |
| `OrchestratorV2` | calls in flight, one action per stage, store, executor, crash, clock |
| `OrchestratorV2Requirements` | the properties |
| `OrchestratorV2Documented` | sentences of the docs the code does not satisfy |
| `SingleUseExecution` | the abstract promise: a licence is granted once and exercised once |
| `ShieldV4WorkBudget` | the bounded copy, as a stack machine over an object graph |
| `ShieldV4Contract` | the receipt contract |
| `ShieldV4Verifier` | everything up to the first callback, and the classification of a rejection |
| `ShieldV4Audit` | verifications in flight: copy, preflight, waves, batch, acknowledgement, host, crash |
| `ShieldV4Requirements` | the properties |
| `ShieldV4Documented`, `PolicySessionDocumented` | sentences of the docs the code does not satisfy |
| `RecordedPublication` | the abstract promise: published only once recorded |
| `PolicyEvidence` | the normalisers, both gateway consumers, issuer v2 |
| `PolicySession` | one request through all of them, the engine and the gate, while time passes |
| `PolicySessionRequirements` | the properties |
| `MC*` | instances for TLC |
| `*_proofs` | theorems |

`Eqc` extends `Evidence`, which extends `ExecutionContext`; `OrchestratorV2`
composes `Eqc`, `TvaGate` and `FinalPolicyEngine`; `OrchestratorV2Requirements`
instantiates `SingleUseExecution` with a refinement mapping. `ShieldV4Audit` extends
verifier, contract and budget; `ShieldV4Requirements` maps it to
`RecordedPublication`. `PolicyEvidence` extends `FinalPolicyEngine`, `TvaGate` and
`Evidence`; `PolicySession` composes them.

### State and code

| variable of `OrchestratorV2` | in the code |
|---|---|
| `deployment` | the policy and which verifiers `RuntimeHostV2` was given |
| `clock`, `now[c]` | the host's clock; the `now` argument of call `c` |
| `used` | the keys in the nonce store |
| `pc[c]` | the stage `orchestrate_execution_v2` is about to run; `new`, `done` and `lost` (killed by a crash) are outside it |
| `req[c]`, `resp[c]` | payload and returned response |
| `authentic[c]` | which evidence an external verifier accepted |
| `replay_reason[c]`, `consumed[c]` | `replay_gate`, `nonce_was_consumed` |
| `effect[c]` | `executor.execute` has been entered |

Stages, actions and lines of `orchestrator_v2.py`: `ParseEnvelope` 677-681,
`CheckPosture` 683-804, `VerifyQid` 806-849, `VerifyReplayProof` 851-885,
`VerifyOracle` 887-930, `VerifyShieldReceipt` 932-994, `ParseShieldBundle`
996-1069, `EvaluateEqc` 1071-1109, `ExtractAuthority` 1111-1143, the TVA actions
1145-1179, `DecideFinal` 1181-1207, `Execute` 1209, `Reply` 1211-1244, the
handlers 1246-1388. TVA takes two steps over `InMemoryNonceStore`
(`LookUpNonce`, `MarkNonce`) and one over `DurableNonceStore` (`CheckAndMark`),
whose contract demands atomicity and crash safety. `StoreRaises` covers both
orders of mark and failure.

| variable of `ShieldV4Audit` | in the code |
|---|---|
| `clock`, `now[c]` | the host's clock; `verification_time` |
| `seen`, `floor` | what the host passes as `seen_request_ids` and `minimum_key_registry_version` |
| `seen_before[c]`, `minimum[c]` | what the host had recorded when it called; the `minimum` argument |
| `copy[c]` | `_SnapshotBudget` and the stack of a copy |
| `cause[c]`, `slot[c]` | the rejection in flight; the position in the algorithm waves |
| `transcript[c]` | what the observer was told of callbacks |
| `log` | the batches the sink holds |

`Submit` is the entry of both functions, `Copy` one item of the snapshot,
`Preflight` everything up to `validated_receipt`, `SkipSlot` and `Callback` one turn of
`_verify_global_algorithm_waves`, `AppendBatch` and `Acknowledge` the sink,
`Return` the plain entry point, `RecordResult` and `Crash` the host.

| variable of `PolicySession` | in the code |
|---|---|
| `session` | which inputs, options and versions the host uses |
| `now` | the `now` each step is called with |
| `pc` | the host's next step: a normaliser, `decide`, `enforce` |
| `result` | what each normaliser returned |
| `decision`, `enforcement` | what `evaluate_final_policy_engine` and `enforce_tva` said |

No module of the repository calls the normalisers in sequence: the sequence is
the host's (external), in the order of the engine's gates.

### Abstractions

- A name is a string, and `Strip` a function on the names of the instance. A hash
  is the record it is computed over: equal exactly when the inputs are. A
  signature check is what the verifier callback answers.
- Errors of shape (missing key, wrong type, unknown field) are one flag per
  object (`malformed`, `head_defect`, `tail_defect`): they all reject with the
  same reason at the same place.
- Of the context's `fields` only the human confirmation is kept: no other field
  is read by a decision.
- Reason ids that come from outside (a verifier's, an executor's, a mapped
  Shield reason) are one token each.
- Metrics, evidence digests and the layout of responses are left out.
- Shield v4: a receipt is a record whose hashes are the values they are
  computed over; a signature is `genuine` or `forged`, its verification external. A
  budget counts bytes of keys and scalars, not characters.
- The sink may lose or repeat a batch or acknowledge another one, but does not
  call durable what it does not hold: durability is its contract.
- Policy evidence: the state enumerations that refine a denial reason are left
  out (nothing reads them); the canonical JSON parser has one outcome per kind
  of rejection the consumers tell apart.

Inputs outside the instances, where the code does something the models do not show:

- `StoreRaises` is a storage error. A store that raises an exception of the checks
  instead ends in their handlers: a `TVAError` is denied by the replay gate
  (`orchestrator_v2.py:1175`), the others from line 1246 on.
- Identifiers in a v4 receipt have no blanks around them. The contract strips
  them only to test membership (line 426): a padded component id passes and ends in a
  `KeyError` of the preflight (verifier line 635).
- A `verification_time` of blanks is blamed on the registry, not on freshness, by the
  plain entry point; malformed public keys are judged before dates.
- Contexts are records, so that the stripping of `issuer_v2.py:113` has nothing to do.
- A V1 gateway handoff is not `rejected` with the free-form reason "OK".
- Hidden authority inside lists (`adaptive_core_policy_evidence.py:271`) is not told from
  hidden authority elsewhere.

## 3. Runs

| run | question | instance | states |
|---|---|---|---|
| `final_policy` | does the engine approve exactly clean inputs and blame the earliest defect? | a clean input, all single and all pairs of 56 defects, v4 required or not | 10,888 |
| `orchestrator_gates` | what executes, who denies and why, which calls touch the store, which answers tell the effect? | 1 call, all single and pairs of 58 defects, 8 deployments, failing store, executor raising what the checks raise, clock 1..5 | 1.5 million |
| `orchestrator_concurrent` | single use, honest answers about the nonce, no refusal as a replay without one, an answer for every call, under races, a crash, a failing store and an executor that raises anything | 2 calls, 4 requests, 1 crash, clock 1..2 | 18,314 |
| `shield_v4_gates` | what is copied, what is asked of the backend, what is reported, and is it so? | 1 verification of 5 components under the source's call and record limits, all single and pairs of 22 representative defects, every object graph of a few shapes | 49,050 |
| `shield_v4_audit` | records and what they blame, acknowledgement, replay, registry rollback, is an answer determined, what calls do to one another, the work of each, termination | 2 overlapping calls, failing backend and sink, 1 crash | 77,230 |
| `policy_session` | do the normalisers, the engine and the gate agree about one call? | all defects of any input, all pairs of 20 representative ones, earlier results untold, told as a list or as an iterator, both gateway consumers, clock 1..5 | 97,462 |
| `doc_*` | six documented sentences the code violates | 1 or 2 calls | small |

**Bounds.** `MaxClock` bounds time: the windows of the accepted request open at 2 and
close at 4 (skew 1, evidence 1..6), so 1..5 lets every comparison go both ways,
and the receipt boundary's half-open end fall between two ticks. `MaxSkew` is 2
so that one skew is legal and 3 is not (the code's constant is larger; nothing
else depends on it). Pairs of defects show the *order* of two checks: an
operator that swaps two checks differs on the pair. Two calls are enough
for the races of `orchestrator_concurrent`: each of its properties relates at most two
calls, a winner and a loser of one key, and its safety properties are proved for
any number.
`MaxCrashes` 1 puts a crash between any two steps; with the durable store a
second meets the same state. The four requests are one nonce, the same
nonce padded, a request the human gate denies after marking, and one whose
authority names another nonce. Deadlock is not checked: calls end.

`shield_v4_gates` keeps the source's limits on callbacks (18, of which 12 post-quantum),
records (24) and identifiers, so that they are shown never to cut a legal
receipt short, and shrinks depth, nodes and bytes to 3, 5, 6: a limit is met,
passed by one and missed by one, by trees, shared objects and one that contains
itself. `shield_v4_audit` has one component and so 6 callbacks, 4 of them
post-quantum: enough for every wave to have a successor. Two overlapping calls of
four submissions (receipts under registry 1 and 2, a forged signature, a list that
contains itself; any of them twice) are enough
for the races on `seen` and `floor`, which are pairwise. In `policy_session` every property relates
at most two inputs, so pairs suffice; the WSQK window is 1..4 within a clock of 5.

**Coverage.** `orchestrator_gates` runs the in-memory store, the others the
durable one; together they fire every action.

**Fairness.** `FairSpec` asks weak fairness of each call's steps and of nothing
else: no crash, no tick and no new call is ever required. It stands for a host
that schedules its threads and callbacks that return or raise
(`executor.py`, `boundary.py` call them synchronously). The steps it asks for are
those of the stages (`StageStep`); that store or executor raises (`RaiseStep`) is
possible at any time and never required, so that an error cannot pass for progress.
`shield_v4_audit` asks weak fairness of `Step(c)`, a verification's own steps: its
thread is scheduled, and backend and sink return or raise (both are called
synchronously). No submission, host record, crash or tick is required.

**Reading `ResponseTellsTheNonce`.** What an answer says of the nonce holds of those
under a context of their own: consumed means marked, and marked is for good. The handlers
of exceptions answer under the zero context; they say "not consumed" whatever was
marked, and "deny" whatever was executed. What they say is refuted by
`doc_nonce_consumed` and `doc_deny_executes`. Of the effect
`AnswersUnderContextTellTheEffect` says as much: "allow" under the context of
the request exactly when the executor was entered, whatever that raises. In both
runs the store may fail; in `orchestrator_gates` the executor raises the two exceptions
the checks raise, in `orchestrator_concurrent` these and any other.

**Reading `VerdictIsDetermined`.** `Answer` is what a verification should say, worked
out at once from what was submitted. It is evaluated for the ids recorded at *some* moment
of the call, since the host may record others while it runs. `DocumentedOrder` checks
the same order against the contract's words, on a table of defects;
`OnlyReplayTellsCallsApart` draws the conclusion for two calls: no budget, flag or answer
of one reaches another.

### Findings

1. `doc_nonce_consumed`: after an executor exception the response reports the nonce as
   not consumed; it is spent.
2. `doc_denial_nonce`: a call denied by the human gate has spent its nonce; the
   host contract says a denial does not, unless the core contract says otherwise.
3. `doc_memory_store`: two threads over `InMemoryNonceStore` can both execute
   on one nonce. The docs mean this store for tests and local use, and
   `select_nonce_store` would refuse it in production, but the host does not call it.
4. `doc_deny_executes`: an executor that raises `AdapterError` or `TVAError` has been
   entered, and the answer is "deny", under which, by
   `V2_RUNTIME_UNTRUSTED_MODEL.md:64`, it is never called.
5. `doc_contract_reason`: a component that signs too often, or twice with one algorithm,
   is recorded as `V4_POLICY_INVALID`; the performance contract keeps the
   contract reason for overcounts and duplicates.
6. `doc_normalized_evidence`: what the normalisers accept is not what the engine takes.
   It reads a result's `authority` field as hidden authority
   (`final_policy_engine.py:153`), and an accepted WSQK result shows one: handed on as it
   is, good evidence ends in `DENY_AUTHORITY_BYPASS`, though its docstring
   calls it evidence for that engine.
7. The same run: an accepted Q-ID result has no `context_hash`, which
   `EXTERNAL_INTERFACES.md:266` asks of every normalized evidence object.

In `policy_session` the host therefore hands on the fields of these results, not the results.

One more disagreement has no run. For a malformed `authority.scope` the handler of
`TVAError` (`orchestrator_v2.py:1301`) reports the EQC gate as passed though it never ran,
where `execution_response_v2.md:120` has `allowed` say whether the gate passed;
`OnTVAError` reproduces it.

### What else the models show

A host has to know these.

- Behind the legacy, test-only boundary a Shield signal is decided by its reasons:
  verdict `deny` with an acceptable reason does not block.
- A V2 gateway result has no `handoff_allowed`; the engine wants it.
- Shield results have no `outcome`: V1 and Adaptive Core do not see such a denial
  among the earlier results, V2 refuses the list.
- The WSQK normaliser checks neither window nor nonce; the gate does.
- Equal verifications in one second have equal batches, hence equal hashes: a
  sink cannot tell a repetition from a second verification.
- A crash between the durable batch and the host's own record lets a receipt be
  accepted again; so do two calls that overlap. `NothingRecordedIsAcceptedAgain` says
  exactly this much.

## 4. Theorems

| theorem | says | assumes |
|---|---|---|
| `EngineApprovesUnanimously`, `EngineStopsAtEarliestDefect` | what `Evaluate` computes, for every input | nothing |
| `ApprovalUnanimous`, `DenialEarliest` | the two properties of `final_policy` for every set of inputs | a result differs from `Undecided` |
| `TypeCorrect` | `TypeOK` for every instance | bounds are naturals, `NoRequest` is no request |
| `AtMostOnce` | no two calls execute on one key | the store is durable |
| `Refinement` | the orchestrator implements `SingleUseExecution` | the store is durable |
| `OneHolderPerNonce` | a nonce belongs to one call for good, and only that call executes on it | the store is durable |
| `Fresh` | `ExecutionIsFresh` | `RequestAssumption`, `DeploymentAssumption` |
| `AboutOneContext` | `ExecutionIsAboutOneContext` | the same |
| `VouchedFor` | `ExecutionIsVouchedFor` | the same |
| `NoncesAreBurntForVetted` | `OnlyVettedCallsBurnNonces` | the same |
| `EvidenceWasChecked` | `ReportedEvidenceWasChecked` | the same |
| `BlamesTheRightGate` | `DenialBlamesTheRightGate` | the same |
| `ResponsesTell` | `ResponseTellsTheNonce`, whatever the executor raises, over either store | the same |
| `AnswersTell` | `AnswersUnderContextTellTheEffect`, whatever the executor raises | `RequestAssumption`, `DeploymentAssumption` |
| `RefusedForACause` | `RefusedForCause` | the same |
| `ReplayedForACause` | `ReplayedForCause`, over either store | the same |
| `EveryStageLeadsOn` | a call is over after at most thirteen steps of its own | the same |
| `ShieldV4Audit_proofs!TypeCorrect` | `TypeOK` of the audited verifier | bounds are naturals, `NoName` is no name, components are a sequence of names, what is submitted is `Decoded` |
| `RecordedStaysRefused` | `NothingRecordedIsAcceptedAgain` | the same |
| `SeenStaysRecorded` | `SeenIsRecorded` | the same |
| `ShieldV4Audit_proofs!Refinement` | the audited verifier implements `RecordedPublication` | the same |
| `PreflightComesFirst` | `NoCallbackBeforePreflight` | the same, limits are naturals, and the signers have different names |
| `EverySignatureIsAsked` | `VerifiedMeansEverySignature` | the same |
| `OneStory` | `ReasonsAgree` | the same |
| `LogTellsTheVerification` | `BatchTellsTheVerification` | the same |
| `BlameIsTrue` | `RejectionsAreTrue` | the same |
| `AnswerIsDetermined` | `VerdictIsDetermined` | the same |
| `NothingElseIsShared` | `OnlyReplayTellsCallsApart` | the same |
| `WorkIsFinite` | `EveryStepCounts`: at most `MaxWork` steps | the same |
| `SnapshotDecides` | `SnapshotDecidesTheBudget` | what is submitted is a graph of objects |
| `CopyDecides` | the same of one copy, step by step, for every graph | limits are naturals, depth and nodes not 0 |
| `StrictIsNoWayAround` | `StrictAcceptsOnlyWhatLooseAccepts`, for all evidence and all earlier results | `NoResult` is no acceptance |
| `ServedPostureIsBacked` | `PostureIsBacked`, at whatever times the steps run | the same, and a request has its parts |
| `AcceptedTogetherIsAboutOneCall` | `AcceptedEvidenceIsAboutOneContext` | the same |
| `DenialsAreHeard` | `EarlierDenialDominates` | the same |
| `IssuedIsServed` | `IssuedAuthorityServes` | the same, and `IssueAssumption` |

`Decoded` says of a submission what the decoder has settled before the contract
compares anything: its objects are a graph (`IsGraph`), lists are lists, dates and
versions integers; anything else is one of its flags. `IssueAssumption` says the
like of a request to issue, and that stripping a name twice strips it once.

**Chains.** `FirstRejectedAtPosition` and `FirstRejectionOutcome` say once what an
ordered chain of checks returns; each gate's chain then gives "passes exactly
when ...". `MinNat` supplies the least position from well-foundedness of the
naturals.

**Loop.** The invariant `IInv`: while undecided every visited gate has passed, and
visited is the locked order so far; once decided the result is `Evaluate`'s.

**Single use.** `AtMostOnceExecution` is not inductive. `SingleUse` adds: a spent nonce
is in the store and its call is past the gate; a call that is to execute, or
sits before the final decision with a passed replay gate, has spent its own nonce;
two spent nonces have different keys. The step that needs the engine is
`DecideFinal`: `ApprovalPassedReplay` shows, from `EngineApprovesUnanimously`,
that no input whose replay gate failed is approved, so an approved call has a
spent nonce. Stages in front of the gate are handled together
(`EarlyStepShape`): they touch neither store nor executor. The refinement maps
spent nonces to granted and entered executors to exercised licences; a
store that raises after marking loses a licence.

**Gates.** `RequestAssumption` and `DeploymentAssumption` say what the parsers and the
policy's constructor have settled before any comparison: times and scores are
integers, families are lists of texts, confirmations are Booleans. From it, the
chain of each gate yields what its passing establishes (`TvaPassed`, `EqcPassed`,
`ReceiptPassed`, ...). That a call *was* checked is not yet that it *is* in
order: the executor runs stages later. `GatesPassed` carries it over: a call is past a
gate only if the gate passed it, under the time and the policy the call still has,
and what a verifier accepted is never taken back. It is inductive because
a call fixes request and time and no call touches another's (`CallStepKeeps`);
`EarlyStepOutcome` does the stages in front of the store, `LateStepPassed` the rest.
The four properties of an execution or a mark follow state by state, over
either store, since they do not need `DurableStore`.

**Answers.** `ResponsesBacked` adds that a response rests on the gates behind its
call. `ConsumptionReported` says of every answer, under whatever store, that it is given
under the zero context or reports the mark as it was (`Truthful`). It is inductive
once a call in front of the store is known to have taken none (`EarlyAnswersUnconsumed`)
and one behind it to have taken its own; that a mark stays in a durable store
is `SingleUse`. `DenialsBlame` is about the reason of
a denial: `DeniedAt` turns the engine's "earliest defect" into the gate each
branch's input is denied at, `Objects` that no chain ever stops with a
reason that reads as an approval, and the gate's place among the stages why
everything in front of it had passed.

**Refusals.** The properties above are about what is let through; a gate that refused
everything would satisfy them. `RefusedForCause` is the other direction, and not
inductive: a call may be refused by the engine, stages after the check that failed, or by
an engine that is fed gates nobody asked. `RefusalsExplained` says of every stage
what its refusals rest on: a verifier is only held against a call if it was not
satisfied (`Unasked`), a replay gate that failed had the store or a TVA check against it
(`ReplayGateExplained`), and whatever is answered is settled by a fault
(`Settled`). The step that needs the engine is again `DecideFinal`, now read from
left to right: an input all of whose gates are clean is approved. `ReplayedForCause` turns to
the other calls. A call could meet its own mark, or one nobody
made, and `MarksOwned` excludes it: every mark in the store has a taker, who was told so
or whose store raised on it. A call that looks its nonce up has taken none
(`NotYetSpent`), so the taker is another one.

**Audited verifier: what is on record.** `IInv` adds to the type invariant what each
stage has behind it (`StageInv`: a call past preflight was checked against the
`seen` and the minimum it began with; one that has returned from the audited entry
point has its batch in the log) and `SeenIsRecorded`. It needs both: a crash may come
between batch and record, so `seen` alone says nothing about the log, and a sink may
acknowledge another call's batch, so `returned` alone does not either. The
refinement maps the log to what is recorded, returned audited calls to publications
and a crash to `Forget`.

**Audited verifier: what is asked.** The five properties of callbacks and records are
about the past of a call, which its state shows only as a transcript and the slot it
has reached. `AskedInv` says what that past must have been: a call past preflight
passed every check in front of the first callback; each slot of the waves that
lies behind it had no signature to ask about, or has its entry in the transcript;
all of them but the last were answered yes; and what ended a call is what the
last answer or the check says. That the receipt is still what was checked
is carried by `Accepted`: the preflight that passed, under the time and the minimum the
call began with, which nothing takes back (`AskedKept`). The budget of callbacks takes counting: a
slot stands for one algorithm and one signer, so the signed slots inject into the
callbacks that preflight has counted (`WithinBudget`), and before a signed slot there
is always room for one more (`BudgetSuffices`): `BudgetSpent` never stops a call.
The log is handled apart (`LogNext`): it is only ever
written by an append, of the batch of a call whose transcript is final.

`RejectionsAreTrue` says what a reader of the log may conclude from a rejection, from
the submission and the log alone. Each cause the checks can come to is tied to what was
submitted (`Grounds`, through every chain of `PreflightOutcome`); `REPLAY` also to the
order of the checks (`FirstRejectionFollows`): a request id is only looked up when it is
the one that was asked for, so the id in the batch is the one that was seen. That id
then leads back to the log by `SeenIsRecorded`, to a place in front of the append
(`SeenIsAccepted`), and log and recorded calls only grow (`AppendKeeps`,
`AcceptedKept`). A freshness rejection blames a window only because the audited entry
point refuses an unusable time before it keeps records (`AuditRefuses`), which is
therefore part of `AskedInv`.

**Audited verifier: what it answers.** `DeterminedInv` ties each stage to the part of `Answer`
behind it: the input passed, the copy fitted, preflight said OK *for some ids between those
recorded at the beginning and those recorded now* (`Moments`), and a slot answered yes has
only genuine signatures (`YesIsGenuine`). The ids are why it is kept: other calls
record theirs in between, `seen` only grows (`SeenGrows`), and a moment of a call
remains one. At the end the waves have asked about every signature, or
stopped at one that is forged or whose backend failed (`WavesAnswer`).
`OnlyReplayTellsCallsApart` needs no invariant of its own: two answers are compared
through `Answer`, whose only free argument are the ids (`PreflightApart`).

**Work.** `EveryStepCounts` is a measure: two steps for every node the budget has left, one
for every container still open, one for every slot. `Compacts` bounds the
stack by the nodes counted, so that the measure starts within `MaxWork` and no graph, cyclic
or shared, can raise it; `WorkShrinks` shows each step of a call to lower it and each step
of another call, of the host or of a crash not to raise it.

**Bounded copy.** `SnapshotDecidesTheBudget` compares a stack machine, which counts as it
goes, with a definition that never runs: the *places* of the tree an input unfolds into,
each the sequence of items that lead to it. `CopyInv` ties them: the stack is the
way to a place; what was counted are the nodes and bytes of the places
visited so far, which are those at or before the stack in the order of a walk
(`Visited`); each was allowed. A step takes exactly one new place (`OnePlaceVisited`)
or leaves a container whose places are all visited (`LeavingVisitsNothing`), so at
the end everything was visited, counted once per way to it. The other direction,
that nothing is refused in vain (`RefusedRightly`), has one hard case: the
copy refuses an object it is already inside of, the definition knows only depth.
`Unbounded` goes round the circle until it is too deep. The machine's memory of
active objects so refuses nothing that would have fitted.

**Policy session.** `IInv` says that what has been said is what the normaliser says of its
inputs at some time; the properties then follow from facts about the
normalisers alone, through the chains of `FailClosed_proofs`: each check of the loose
consumer is among, or follows from, those of the strict one. `DenialsAreHeard`
needs what the code's loops over earlier results compute: `Picked` chooses the
denials of a sequence in order, and its first is the first denial there is.
`IssuedIsServed` follows an authority from issuer to gate: what the issuer
stripped is what normaliser and gate compare, its families are canonical
already, its binding is recomputed to the same value, and of the gate's
checks only the window is left.

**Only model-checked.** `Served` and `EveryVerificationEnds`: liveness under fairness is
beyond the prover, since both ask that a stage can always be left (ENABLED). What is left
of them without fairness is proved: a call never makes more than thirteen steps
(`EveryStageLeadsOn`), a verification never more than `MaxWork` (`WorkIsFinite`).
`DocumentedOrder`: it compares the order in which things are found wrong with
a table of the instance's own defects, so it has no meaning beyond that instance;
its general form, `VerdictIsDetermined`, is proved. The `doc_*` runs, which exhibit counterexamples.

## 5. Not modelled, and the plan

Left for later, in this order: the upgrade gateway, a stateless proposal-and-receipt check
of the same form as the consumers in `PolicyEvidence`; orchestrator v1, superseded by v2
on the protected path, which shares `TvaGate` and `Evidence`; the combined context hash
and issuer v1, pure functions no modelled path calls.

Left out: metrics, fixtures and harnesses, JSON canonicalisation, third-party
cryptography and the protocol declarations of the mobile adapters, which keep no
state and decide nothing.

## 6. Running it

    tlc -config OrchestratorConcurrent.cfg MCOrchestratorConcurrent.tla
    tlapm OrchestratorV2_proofs.tla
