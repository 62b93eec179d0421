------------------------- MODULE ShieldV4Audit_proofs -------------------------
(***************************************************************************)
(* For every number of verifications, every set of submissions, any number *)
(* of crashes and of backend or sink failures: what is published is on     *)
(* record, what was recorded is not accepted again, what counts as seen    *)
(* can be found in the log, what the log blames is so, what a verification *)
(* answers is determined, and how much work it is.                         *)
(***************************************************************************)
EXTENDS ShieldV4Requirements, ShieldV4WorkBudget_proofs

(***************************************************************************)
(* The inductive invariant.                                                *)
(***************************************************************************)

\* What TypeOK leaves out: a call that has begun has a time, a copy keeps the
\* fields of one, transcripts and the log are sequences.
Typed ==
  /\ TypeOK
  /\ \A c \in Calls :
       /\ pc[c] # "new" => now[c] # 0
       /\ DOMAIN copy[c] = {"path", "nodes", "bytes", "verdict"}
       /\ Len(transcript[c]) \in Nat
  /\ seen_before \in [Calls -> SUBSET seen]
  /\ \E S : log \in Seq(S)

\* A receipt whose signatures are looked at is the one asked for, was not
\* recorded before, and its registry is not older than the one recorded before.
Admitted(c) ==
  /\ P(c).receipt.request_id = P(c).request_id
  /\ P(c).receipt.request_id \notin seen_before[c]
  /\ P(c).registry.version >= minimum[c]

\* What holds of a call at each stage.
StageInv(c) ==
  /\ pc[c] \in {"new", "copying", "preflight"} => slot[c] = 0
  /\ pc[c] = "waves" => slot[c] \in 1..Slots
  /\ slot[c] = 0 => Len(transcript[c]) = 0
  /\ pc[c] \in {"failed", "appending_failure"} => slot[c] = 0 /\ cause[c] = "CONTRACT"
  /\ pc[c] \in {"decided", "appending", "returned", "recorded"} /\ cause[c] = OK
       => slot[c] # 0
  /\ pc[c] \in {"failed", "appending", "appending_failure"} => P(c).audited
  /\ Returned(c) /\ P(c).audited => Batch(c) \in Range(log)
  /\ slot[c] # 0 => Admitted(c)

IInv == Typed /\ (\A c \in Calls : StageInv(c)) /\ SeenIsRecorded

(***************************************************************************)
(* Lemmas about the operators.                                             *)
(***************************************************************************)

\* There are three waves over at least one artifact.
LEMMA SlotsNat == Slots \in Nat /\ Slots > 0
<1>1. Len(ArtifactIds) \in Nat /\ Len(ArtifactIds) > 0
  <2>1. SupportedComponents \in Seq(STRING)
    BY ComponentsAssumption
  <2>2. SupportedComponents \in Seq(STRING \cup {Orchestrator})
    BY <2>1
  <2> QED BY <2>2 DEF ArtifactIds
<1>2. Len(AllowedAlgorithms) = 3
  BY DEF AllowedAlgorithms
<1>3. Slots = 3 * Len(ArtifactIds)
  BY <1>2, Zenon DEF Slots
<1> QED BY <1>1, <1>3

\* Whatever the cause, the reason that is recorded is one of the published ones.
LEMMA ReasonType == ASSUME NEW x PROVE AuditReasonOf(x) \in AuditReasons
BY DEF AuditReasonOf, AuditReasons, Report

(***************************************************************************)
(* What a preflight that rejects nothing has looked at.                    *)
(***************************************************************************)

\* A chain whose checks stay within a set of causes stays within it.
LEMMA ChainWithin ==
  ASSUME NEW s, NEW n \in Nat, Len(s) = n, NEW S, OK \in S, \A i \in 1..n : s[i] \in S
  PROVE  FirstRejection(s) \in S
BY FirstRejectionOutcome

\* The signers: the components in their order, and the orchestrator.
LEMMA Signers ==
  /\ Len(SupportedComponents) \in Nat /\ Len(SupportedComponents) > 0
  /\ Len(ArtifactIds) = Len(SupportedComponents) + 1
  /\ DOMAIN SupportedComponents = 1..Len(SupportedComponents)
  /\ DOMAIN ArtifactIds = 1..Len(ArtifactIds)
  /\ Range(ArtifactIds) = Range(SupportedComponents) \cup {Orchestrator}
<1> DEFINE n == Len(SupportedComponents)
           T == STRING \cup {Orchestrator}
<1>1. SupportedComponents \in Seq(T) /\ Orchestrator \in T /\ SupportedComponents # <<>>
  <2>1. SupportedComponents \in Seq(STRING)
    BY ComponentsAssumption
  <2>2. SupportedComponents \in Seq(T)
    BY <2>1
  <2> QED BY <2>2, ComponentsAssumption
<1> HIDE DEF T
<1>2. n \in Nat /\ n > 0 /\ DOMAIN SupportedComponents = 1..n
  <2>1. Len(SupportedComponents) \in Nat \ {0}
    BY <1>1, EmptySeq
  <2> QED BY <1>1, <2>1, LenProperties
<1>3. /\ ArtifactIds \in Seq(T) /\ Len(ArtifactIds) = n + 1
      /\ \A i \in 1..n : ArtifactIds[i] = SupportedComponents[i]
      /\ ArtifactIds[n + 1] = Orchestrator
  BY <1>1, AppendProperties DEF ArtifactIds
<1>4. DOMAIN ArtifactIds = 1..(n + 1)
  BY <1>3, LenProperties
<1> HIDE DEF n
<1>5. 1..(n + 1) = 1..n \cup {n + 1}
  BY <1>2
<1>6. Range(ArtifactIds) = Range(SupportedComponents) \cup {Orchestrator}
  BY <1>2, <1>3, <1>4, <1>5 DEF Range
<1> QED BY <1>2, <1>3, <1>4, <1>6 DEF n

\* The causes that blame nothing in particular.
Plain ==
  {OK, "CONTRACT", "CONTRACT_POLICY", "DOWNGRADE", "AUTHORITY_BYPASS", "BUNDLE",
   "BUNDLE_DUPLICATE_KEY", "INVALID_REPLAY_INPUT", "INVALID_INPUT", "REGISTRY",
   "SIGNATURE_POLICY"}

\* Some causes more, if there is a reason for them.
Blamed(causes, condition) == IF condition THEN Plain \cup causes ELSE Plain

\* A hash that is signed is another one than that of what it comes with.
ForeignHash(artifact) ==
  \E i \in DOMAIN artifact.bundle.entries :
    artifact.bundle.entries[i].hash # artifact.payload_hash

\* What a preflight may blame that reads the ids at time t.
Grounds(p, t, ids) ==
  LET r == p.receipt
  IN  UNION {Blamed({"CONTRACT_CONTEXT"}, ContextMismatch(p)),
             Blamed({"NO_BACKEND"}, ~p.backend),
             Blamed({"HASH_MISMATCH", "BUNDLE_TAMPERED"}, ~Untampered(r)),
             Blamed({"REQUEST_MISMATCH"}, r.request_id # p.request_id),
             Blamed({"REPLAY"}, /\ r.request_id = p.request_id
                                /\ \/ r.request_id \in ids
                                   \/ r.receipt_hash \in p.denylist),
             Blamed({"FRESHNESS"}, p.input_defect = "date" \/ NotCurrent(p, t)),
             Blamed({"INVALID_TIME"}, p.input_defect = "time")}

\* A component verdict that is not rejected is of a known component, has a known
\* decision and the expected context.
LEMMA ComponentOutcome ==
  ASSUME NEW v, NEW expected
  PROVE  /\ ComponentRejection(v, expected) = OK =>
              /\ v.id \in Range(SupportedComponents)
              /\ v.decision \in Decisions /\ v.context = expected
         /\ \/ ComponentRejection(v, expected) \in Plain
            \/ /\ ComponentRejection(v, expected) = "CONTRACT_CONTEXT"
               /\ v.context = NotAHash \/ v.context # expected
<1> DEFINE s == <<
    Reject("CONTRACT", v.malformed \/ v.id \notin Range(SupportedComponents)),
    Reject("CONTRACT_POLICY", v.policy_mismatch),
    Reject("CONTRACT", v.decision \notin Decisions),
    ContextRejection(v.context, expected),
    Reject("CONTRACT", v.request_id = Blank \/ v.registry_version <= 0),
    Reject("AUTHORITY_BYPASS", v.metadata_authority) >>
           S == IF v.context = NotAHash \/ v.context # expected
                THEN Plain \cup {"CONTRACT_CONTEXT"} ELSE Plain
<1>1. ComponentRejection(v, expected) = FirstRejection(s)
  BY Zenon DEF ComponentRejection
<1>2. Len(s) = 6
  OBVIOUS
<1>3. /\ s[1] = Reject("CONTRACT", v.malformed \/ v.id \notin Range(SupportedComponents))
      /\ s[3] = Reject("CONTRACT", v.decision \notin Decisions)
      /\ s[4] = ContextRejection(v.context, expected)
  OBVIOUS
<1>4. OK \in S /\ \A i \in 1..6 : s[i] \in S
  BY DEF Reject, ContextRejection, Plain
<1> HIDE DEF s
<1>5. FirstRejection(s) = OK => s[1] = OK /\ s[3] = OK /\ s[4] = OK
  <2>1. 6 \in Nat /\ 1 \in 1..6 /\ 3 \in 1..6 /\ 4 \in 1..6
    OBVIOUS
  <2> QED BY <1>2, <2>1, FirstRejectionOutcome
<1>6. FirstRejection(s) \in S
  <2>1. 6 \in Nat
    OBVIOUS
  <2> HIDE DEF S
  <2> QED BY <1>2, <1>4, <2>1, ChainWithin
<1> QED BY <1>1, <1>3, <1>5, <1>6 DEF Reject, ContextRejection, OK

\* The verdicts of a receipt that is not rejected: one of each component.
LEMMA ComponentSetOutcome ==
  ASSUME NEW vs, vs \in Seq(Range(vs)), NEW expected
  PROVE  /\ ComponentSetRejection(vs, expected) = OK =>
              /\ {vs[i].id : i \in DOMAIN vs} = Range(SupportedComponents)
              /\ \A i \in DOMAIN vs : vs[i].decision \in Decisions /\ vs[i].context = expected
              /\ vs # <<>>
         /\ \/ ComponentSetRejection(vs, expected) \in Plain
            \/ /\ ComponentSetRejection(vs, expected) = "CONTRACT_CONTEXT"
               /\ \E i \in DOMAIN vs : vs[i].context = NotAHash \/ vs[i].context # expected
<1> DEFINE n == Len(vs)
           a == Reject("CONTRACT", Len(vs) # Len(SupportedComponents))
           h == << a >>
           g == [i \in 1..n |->
                   LET rejection == ComponentRejection(vs[i], expected)
                   IN  IF rejection # OK THEN rejection
                       ELSE Reject("CONTRACT", \E j \in 1..(i - 1) : vs[j].id = vs[i].id)]
           S == IF \E i \in DOMAIN vs : vs[i].context = NotAHash \/ vs[i].context # expected
                THEN Plain \cup {"CONTRACT_CONTEXT"} ELSE Plain
<1>1. n \in Nat /\ DOMAIN vs = 1..n
  BY LenProperties
<1>2. ComponentSetRejection(vs, expected) = FirstRejection(h \o g)
  BY Zenon DEF ComponentSetRejection
<1>3. \A i \in 1..n :
        g[i] = IF ComponentRejection(vs[i], expected) # OK
               THEN ComponentRejection(vs[i], expected)
               ELSE Reject("CONTRACT", \E j \in 1..(i - 1) : vs[j].id = vs[i].id)
  OBVIOUS
<1>4. g \in [1..n -> Range(g)]
  BY DEF Range
<1>9. Len(h) = 1 /\ h[1] = a /\ h \in Seq({a})
  OBVIOUS
<1> HIDE DEF g, n, h, a
<1>5. /\ FirstRejection(h \o g) = OK <=> a = OK /\ \A i \in 1..n : g[i] = OK
      /\ FirstRejection(h \o g) # OK =>
              \/ FirstRejection(h \o g) = a
              \/ \E i \in 1..n : FirstRejection(h \o g) = g[i]
  <2>1. Len(h) = 1 /\ h \in Seq({h[1]}) /\ n \in Nat
    BY <1>1, <1>9
  <2>2. /\ FirstRejection(h \o g) = OK <=> h[1] = OK /\ \A i \in 1..n : g[i] = OK
        /\ FirstRejection(h \o g) # OK =>
                \/ FirstRejection(h \o g) = h[1]
                \/ \E i \in 1..n : FirstRejection(h \o g) = g[i]
    BY <2>1, <1>4, HeadAndEachOutcome
  <2> QED BY <2>2, <1>9
<1>6. OK \in S /\ a \in S /\ \A i \in 1..n : g[i] \in S
  <2>1. OK \in S /\ "CONTRACT" \in S
    BY DEF Plain
  <2>2. a \in S
    BY <2>1 DEF a, Reject
  <2>3. ASSUME NEW i \in 1..n PROVE g[i] \in S
    <3>1. \/ ComponentRejection(vs[i], expected) \in Plain
          \/ /\ ComponentRejection(vs[i], expected) = "CONTRACT_CONTEXT"
             /\ vs[i].context = NotAHash \/ vs[i].context # expected
      BY ComponentOutcome
    <3>2. ComponentRejection(vs[i], expected) \in S
      <4>1. CASE vs[i].context = NotAHash \/ vs[i].context # expected
        <5>1. \E j \in DOMAIN vs : vs[j].context = NotAHash \/ vs[j].context # expected
          BY <1>1, <4>1
        <5> QED BY <3>1, <5>1
      <4>2. CASE ComponentRejection(vs[i], expected) \in Plain
        BY <4>2
      <4> QED BY <3>1, <4>1, <4>2
    <3> HIDE DEF S
    <3> QED BY <1>3, <2>1, <3>2 DEF Reject
  <2> QED BY <2>1, <2>2, <2>3
<1>7. FirstRejection(h \o g) \in S
  BY <1>5, <1>6
<1>8. ASSUME a = OK, \A i \in 1..n : g[i] = OK
      PROVE  /\ {vs[i].id : i \in 1..n} = Range(SupportedComponents)
             /\ \A i \in 1..n : vs[i].decision \in Decisions /\ vs[i].context = expected
             /\ vs # <<>>
  <2>1. n = Len(SupportedComponents)
    BY <1>8 DEF a, n, Reject, OK
  <2>2. \A i \in 1..n : /\ ComponentRejection(vs[i], expected) = OK
                        /\ ~\E j \in 1..(i - 1) : vs[j].id = vs[i].id
    BY <1>3, <1>8 DEF Reject, OK
  <2>3. \A i \in 1..n : /\ vs[i].id \in Range(SupportedComponents)
                        /\ vs[i].decision \in Decisions /\ vs[i].context = expected
    BY <2>2, ComponentOutcome
  <2> DEFINE ids == [i \in 1..n |-> vs[i].id]
             known == Range(SupportedComponents)
  <2>4. ids \in [1..n -> known] /\ \A i, j \in 1..n : ids[i] = ids[j] => i = j
    <3>1. \A i, j \in 1..n : i < j => ids[i] # ids[j]
      BY <1>1, <2>2
    <3> QED BY <1>1, <2>3, <3>1
  <2>5. IsFiniteSet(known) /\ Cardinality(known) <= n /\ Cardinality(1..n) = n
        /\ IsFiniteSet(1..n)
    <3>1. IsFiniteSet(1..n) /\ Cardinality(1..n) = n
      BY <1>1, FS_Interval
    <3>2. SupportedComponents \in Surjection(1..n, known)
      <4>1. DOMAIN SupportedComponents = 1..n
        BY <2>1, Signers
      <4>2. SupportedComponents = [i \in 1..n |-> SupportedComponents[i]]
        BY <4>1, ComponentsAssumption
      <4>3. SupportedComponents \in [1..n -> known]
        BY <4>1, <4>2 DEF Range
      <4>4. \A id \in known : \E i \in 1..n : SupportedComponents[i] = id
        BY <4>1 DEF Range
      <4> QED BY <4>3, <4>4 DEF Surjection
    <3> QED BY <3>1, <3>2, FS_Surjection
  <2>6. ids \in Injection(1..n, known)
    BY <2>4 DEF Injection, IsInjective
  <2>7. n <= Cardinality(known)
        /\ (n = Cardinality(known) <=> ids \in Surjection(1..n, known))
    BY <2>5, <2>6, FS_Injection
  <2>8. ids \in Surjection(1..n, known)
    BY <1>1, <2>5, <2>7, FS_CardinalityType
  <2>9. {vs[i].id : i \in 1..n} = known
    BY <2>3, <2>8 DEF Surjection
  <2>10. vs # <<>>
    BY <2>1, Signers, EmptySeq DEF n
  <2> QED BY <2>3, <2>9, <2>10
<1> QED BY <1>1, <1>2, <1>5, <1>7, <1>8

\* Chains all of whose causes are plain.
LEMMA PlainChains ==
  /\ OK \in Plain
  /\ \A s \in Seq(Plain) : FirstRejection(s) \in Plain
  /\ \A s, t \in Seq(Plain) : s \o t \in Seq(Plain)
  /\ \A condition : \A reason \in Plain : Reject(reason, condition) \in Plain
<1>1. OK \in Plain
  BY DEF Plain
<1>2. ASSUME NEW s \in Seq(Plain) PROVE FirstRejection(s) \in Plain
  <2>1. Len(s) \in Nat /\ \A i \in 1..Len(s) : s[i] \in Plain
    BY LenProperties, ElementOfSeq
  <2> QED BY <1>1, <2>1, ChainWithin
<1>3. ASSUME NEW s \in Seq(Plain), NEW t \in Seq(Plain) PROVE s \o t \in Seq(Plain)
  BY ConcatProperties
<1>4. ASSUME NEW condition, NEW reason \in Plain PROVE Reject(reason, condition) \in Plain
  BY <1>1 DEF Reject
<1> QED BY <1>1, <1>2, <1>3, <1>4

\* Chains all of whose causes are in one set.
LEMMA ChainsWithin ==
  ASSUME NEW S, OK \in S
  PROVE  /\ \A s \in Seq(S) : FirstRejection(s) \in S
         /\ \A s, t \in Seq(S) : s \o t \in Seq(S)
<1>1. ASSUME NEW s \in Seq(S) PROVE FirstRejection(s) \in S
  <2>1. Len(s) \in Nat /\ \A i \in 1..Len(s) : s[i] \in S
    BY LenProperties, ElementOfSeq
  <2> QED BY <2>1, ChainWithin
<1>2. ASSUME NEW s \in Seq(S), NEW t \in Seq(S) PROVE s \o t \in Seq(S)
  BY ConcatProperties
<1> QED BY <1>1, <1>2

\* What the orchestrator says it verified is refused for no other cause.
LEMMA ResultsPlain ==
  ASSUME NEW results, results \in Seq(Range(results))
  PROVE  ResultsRejection(results) \in Plain
<1> DEFINE n == Len(results)
           h == << Reject("CONTRACT", Len(results) # Len(SupportedComponents)) >>
           checks(i) == <<
                Reject("CONTRACT",
                       \/ results[i].malformed
                       \/ results[i].id \notin Range(SupportedComponents)
                       \/ \E j \in 1..(i - 1) : results[j].id = results[i].id),
                Reject("CONTRACT_POLICY", results[i].policy_mismatch),
                Reject("CONTRACT",
                       \/ ~(results[i].algorithms \subseteq Range(AllowedAlgorithms))
                       \/ ~(RequiredAlgorithms \subseteq results[i].algorithms)) >>
           g == [i \in 1..n |-> FirstRejection(checks(i))]
<1>1. ResultsRejection(results) = FirstRejection(h \o g)
  BY Zenon DEF ResultsRejection
<1>2. OK \in Plain /\ "CONTRACT" \in Plain /\ "CONTRACT_POLICY" \in Plain
  BY DEF Plain
<1>3. h \in Seq(Plain)
  <2>1. Reject("CONTRACT", Len(results) # Len(SupportedComponents)) \in Plain
    BY <1>2, PlainChains
  <2> QED BY <2>1
<1>4. g \in Seq(Plain)
  <2>1. ASSUME NEW i \in 1..n PROVE FirstRejection(checks(i)) \in Plain
    <3>1. /\ checks(i)[1] \in {OK, "CONTRACT"} /\ checks(i)[2] \in {OK, "CONTRACT_POLICY"}
          /\ checks(i)[3] \in {OK, "CONTRACT"}
      BY Zenon DEF Reject
    <3>2. checks(i) = << checks(i)[1], checks(i)[2], checks(i)[3] >>
      OBVIOUS
    <3>3. checks(i) \in Seq(Plain)
      <4> HIDE DEF checks
      <4>1. checks(i)[1] \in Plain /\ checks(i)[2] \in Plain /\ checks(i)[3] \in Plain
        BY <1>2, <3>1
      <4>2. << checks(i)[1], checks(i)[2], checks(i)[3] >> \in Seq(Plain)
        BY <4>1
      <4> QED BY <3>2, <4>2
    <3> HIDE DEF checks
    <3> QED BY <3>3, PlainChains
  <2>2. n \in Nat
    BY LenProperties
  <2> HIDE DEF checks, n
  <2> QED BY <2>1, <2>2
<1> HIDE DEF h, g
<1> QED BY <1>1, <1>3, <1>4, PlainChains

\* A receipt that the contract does not reject.
LEMMA ContractOutcome ==
  ASSUME NEW r, NEW expected, r.components \in Seq(Range(r.components)),
         r.results \in Seq(Range(r.results))
  PROVE  /\ ContractRejection(r, expected) = OK =>
              /\ r.context = expected
              /\ {r.components[i].id : i \in DOMAIN r.components} = Range(SupportedComponents)
              /\ \A i \in DOMAIN r.components : /\ r.components[i].decision \in Decisions
                                                /\ r.components[i].context = expected
              /\ r.components # <<>>
              /\ r.outcome = ExpectedOutcome(r.components)
              /\ r.outcome # "ALLOW" => ~r.handoff_allowed
         /\ \/ ContractRejection(r, expected) \in Plain
            \/ /\ ContractRejection(r, expected) = "CONTRACT_CONTEXT"
               /\ \/ r.context = NotAHash \/ r.context # expected
                  \/ \E i \in DOMAIN r.components :
                       \/ r.components[i].context = NotAHash
                       \/ r.components[i].context # expected
<1> DEFINE s == <<
    Reject("CONTRACT", r.kind = "not_a_receipt"),
    Reject("DOWNGRADE", r.kind = "v3"),
    Reject("CONTRACT", r.malformed),
    Reject("CONTRACT_POLICY", r.policy_mismatch),
    Reject("CONTRACT", r.outcome \notin Outcomes),
    ContextRejection(r.context, expected),
    Reject("CONTRACT", r.request_id = Blank \/ r.registry_version <= 0),
    Reject("AUTHORITY_BYPASS", r.handoff_authority),
    ResultsRejection(r.results),
    ComponentSetRejection(r.components, expected),
    Reject("CONTRACT", r.outcome # ExpectedOutcome(r.components)),
    Reject("AUTHORITY_BYPASS", r.outcome # "ALLOW" /\ r.handoff_allowed) >>
           elsewhere == \/ r.context = NotAHash \/ r.context # expected
                        \/ \E i \in DOMAIN r.components :
                             \/ r.components[i].context = NotAHash
                             \/ r.components[i].context # expected
           S == IF elsewhere THEN Plain \cup {"CONTRACT_CONTEXT"} ELSE Plain
<1>1. ContractRejection(r, expected) = FirstRejection(s)
  BY Zenon DEF ContractRejection
<1>2. Len(s) = 12
  OBVIOUS
<1>3. /\ s[6] = ContextRejection(r.context, expected)
      /\ s[10] = ComponentSetRejection(r.components, expected)
      /\ s[11] = Reject("CONTRACT", r.outcome # ExpectedOutcome(r.components))
      /\ s[12] = Reject("AUTHORITY_BYPASS", r.outcome # "ALLOW" /\ r.handoff_allowed)
  OBVIOUS
<1>4. OK \in S /\ \A i \in 1..12 : s[i] \in S
  <2>1. ResultsRejection(r.results) \in S
    BY ResultsPlain
  <2>2. ComponentSetRejection(r.components, expected) \in S
    BY ComponentSetOutcome
  <2>3. ContextRejection(r.context, expected) \in S
    BY DEF ContextRejection, Reject, Plain
  <2>4. {OK, "CONTRACT", "DOWNGRADE", "CONTRACT_POLICY", "AUTHORITY_BYPASS"} \subseteq S
    BY DEF Plain
  <2> HIDE DEF S
  <2>5. \A condition : \A reason \in {"CONTRACT", "DOWNGRADE", "CONTRACT_POLICY",
                                      "AUTHORITY_BYPASS"} : Reject(reason, condition) \in S
    BY <2>4 DEF Reject
  <2>6. /\ s[1] \in S /\ s[2] \in S /\ s[3] \in S /\ s[4] \in S /\ s[5] \in S /\ s[6] \in S
        /\ s[7] \in S /\ s[8] \in S /\ s[9] \in S /\ s[10] \in S /\ s[11] \in S
        /\ s[12] \in S
    BY <2>1, <2>2, <2>3, <2>5
  <2>7. \A i \in 1..12 : \/ i = 1 \/ i = 2 \/ i = 3 \/ i = 4 \/ i = 5 \/ i = 6
                         \/ i = 7 \/ i = 8 \/ i = 9 \/ i = 10 \/ i = 11 \/ i = 12
    OBVIOUS
  <2> HIDE DEF s
  <2> QED BY <2>4, <2>6, <2>7
<1> HIDE DEF s
<1>5. FirstRejection(s) = OK => s[6] = OK /\ s[10] = OK /\ s[11] = OK /\ s[12] = OK
  <2>1. 12 \in Nat /\ 6 \in 1..12 /\ 10 \in 1..12 /\ 11 \in 1..12 /\ 12 \in 1..12
    OBVIOUS
  <2> QED BY <1>2, <2>1, FirstRejectionOutcome
<1>6. FirstRejection(s) \in S
  <2>1. 12 \in Nat
    OBVIOUS
  <2> HIDE DEF S
  <2> QED BY <1>2, <1>4, <2>1, ChainWithin
<1>7. ASSUME FirstRejection(s) = OK
      PROVE  /\ r.context = expected
             /\ ComponentSetRejection(r.components, expected) = OK
             /\ r.outcome = ExpectedOutcome(r.components)
             /\ r.outcome # "ALLOW" => ~r.handoff_allowed
  BY <1>3, <1>5, <1>7 DEF Reject, ContextRejection, OK
<1> QED BY <1>1, <1>6, <1>7, ComponentSetOutcome

\* An entry of a bundle that is not rejected signs the artifact it comes with, in an
\* algorithm no earlier entry uses.
LEMMA EntryOutcome ==
  ASSUME NEW bundle, NEW i, NEW payload_hash
  PROVE  /\ EntryRejection(bundle, i, payload_hash) = OK =>
              /\ bundle.entries[i].hash = payload_hash
              /\ \A j \in 1..(i - 1) :
                   bundle.entries[j].algorithm # bundle.entries[i].algorithm
         /\ EntryRejection(bundle, i, payload_hash)
              \in Blamed({"BUNDLE_TAMPERED"}, bundle.entries[i].hash # payload_hash)
<1> DEFINE e == bundle.entries[i]
           earlier == {bundle.entries[j] : j \in 1..(i - 1)}
           s == <<
        Reject("BUNDLE",
               \/ e.malformed
               \/ e.algorithm \notin Range(AllowedAlgorithms)
               \/ \E f \in earlier : f.algorithm = e.algorithm),
        Reject("BUNDLE_DUPLICATE_KEY",
               \E f \in earlier : f.key_id = e.key_id /\ f.key_version = e.key_version),
        Reject("BUNDLE", e.signature = "unencoded"),
        Reject("BUNDLE_TAMPERED", e.hash # payload_hash),
        Reject("BUNDLE", e.foreign_domain) >>
           S == Blamed({"BUNDLE_TAMPERED"}, e.hash # payload_hash)
<1>1. EntryRejection(bundle, i, payload_hash) = FirstRejection(s)
  BY Zenon DEF EntryRejection
<1>2. Len(s) = 5
  OBVIOUS
<1>3. /\ s[1] = OK => ~\E f \in earlier : f.algorithm = e.algorithm
      /\ s[4] = OK => e.hash = payload_hash
  BY DEF Reject, OK
<1>4. /\ s[1] \in {OK, "BUNDLE"} /\ s[2] \in {OK, "BUNDLE_DUPLICATE_KEY"}
      /\ s[3] \in {OK, "BUNDLE"} /\ s[4] = Reject("BUNDLE_TAMPERED", e.hash # payload_hash)
      /\ s[5] \in {OK, "BUNDLE"}
  BY Zenon DEF Reject
<1> HIDE DEF s
<1>5. OK \in S /\ \A k \in 1..5 : s[k] \in S
  <2>1. \A k \in 1..5 : k = 1 \/ k = 2 \/ k = 3 \/ k = 4 \/ k = 5
    OBVIOUS
  <2>2. {OK, "BUNDLE", "BUNDLE_DUPLICATE_KEY"} \subseteq S
    BY DEF Plain, Blamed
  <2>3. s[4] \in S
    BY <1>4, <2>2 DEF Reject, Blamed
  <2> HIDE DEF S
  <2> QED BY <1>4, <2>1, <2>2, <2>3
<1>6. FirstRejection(s) \in S /\ (FirstRejection(s) = OK => s[1] = OK /\ s[4] = OK)
  <2>1. 5 \in Nat /\ 1 \in 1..5 /\ 4 \in 1..5
    OBVIOUS
  <2> HIDE DEF S
  <2> QED BY <1>2, <1>5, <2>1, ChainWithin, FirstRejectionOutcome
<1> QED BY <1>1, <1>3, <1>6

\* A bundle that is not rejected has room for its signatures in the budget, each over
\* the payload and of an algorithm of its own, and those of the required algorithms.
LEMMA BundleOutcome ==
  ASSUME NEW artifact, artifact.bundle.entries \in Seq(Range(artifact.bundle.entries))
  PROVE  /\ BundleRejection(artifact) = OK =>
              LET es == artifact.bundle.entries
              IN  /\ DOMAIN es \subseteq 1..MaxSignatures
                  /\ \A i \in DOMAIN es : es[i].hash = artifact.payload_hash
                  /\ \A i, j \in DOMAIN es : i # j => es[i].algorithm # es[j].algorithm
                  /\ \A algorithm \in RequiredAlgorithms :
                       \E i \in DOMAIN es : es[i].algorithm = algorithm
         /\ BundleRejection(artifact)
              \in Blamed({"BUNDLE_TAMPERED"}, ForeignHash(artifact))
<1> DEFINE es == artifact.bundle.entries
           n == Len(es)
           algorithms == [i \in 1..n |-> es[i].algorithm]
           h == << Reject("BUNDLE", artifact.bundle.malformed),
                   Reject("BUNDLE", n = 0 \/ n > MaxSignatures) >>
           g == [i \in 1..n |-> EntryRejection(artifact.bundle, i, artifact.payload_hash)]
           ordered == SelectSeq(AllowedAlgorithms, LAMBDA a : a \in Range(algorithms))
           t == << Reject("BUNDLE", algorithms # ordered),
                   Reject("BUNDLE", ~(RequiredAlgorithms \subseteq Range(algorithms))) >>
           S == Blamed({"BUNDLE_TAMPERED"}, ForeignHash(artifact))
<1>1. BundleRejection(artifact) = FirstRejection((h \o g) \o t)
  BY Zenon DEF BundleRejection
<1>2. n \in Nat /\ DOMAIN es = 1..n
  BY LenProperties
<1>3. DOMAIN algorithms = 1..n /\ \A i \in 1..n : algorithms[i] = es[i].algorithm
  OBVIOUS
<1>4. \A i \in 1..n : g[i] = EntryRejection(artifact.bundle, i, artifact.payload_hash)
  OBVIOUS
<1> HIDE DEF algorithms, ordered, n
<1>5. OK \in S /\ "BUNDLE" \in S
  BY DEF Plain, Blamed
<1> HIDE DEF S
<1>6. h \in Seq(S) /\ Len(h) = 2 /\ h[2] = Reject("BUNDLE", n = 0 \/ n > MaxSignatures)
  <2>1. /\ Reject("BUNDLE", artifact.bundle.malformed) \in S
        /\ Reject("BUNDLE", n = 0 \/ n > MaxSignatures) \in S
    BY <1>5 DEF Reject
  <2> QED BY <2>1
<1>7. t \in Seq(S) /\ Len(t) = 2
      /\ t[2] = Reject("BUNDLE", ~(RequiredAlgorithms \subseteq Range(algorithms)))
  BY <1>5 DEF Reject
<1>8. g \in Seq(S) /\ Len(g) = n
  <2>1. ASSUME NEW i \in 1..n PROVE g[i] \in S
    <3>1. es[i].hash # artifact.payload_hash => ForeignHash(artifact)
      BY <1>2 DEF ForeignHash
    <3>2. g[i] \in Blamed({"BUNDLE_TAMPERED"}, es[i].hash # artifact.payload_hash)
      BY <1>4, EntryOutcome
    <3> QED BY <3>1, <3>2 DEF Blamed, S
  <2> QED BY <1>2, <2>1
<1> HIDE DEF h, g, t, es
<1>9. h \o g \in Seq(S) /\ Len(h \o g) = 2 + n
      /\ \A i \in 1..(2 + n) : (h \o g)[i] = IF i <= 2 THEN h[i] ELSE g[i - 2]
  <2>1. h \in Seq(S) /\ g \in Seq(S) /\ Len(h) = 2 /\ Len(g) = n
    BY <1>6, <1>8
  <2>2. /\ h \o g \in Seq(S) /\ Len(h \o g) = Len(h) + Len(g)
        /\ \A i \in 1..(Len(h) + Len(g)) :
              (h \o g)[i] = IF i <= Len(h) THEN h[i] ELSE g[i - Len(h)]
    BY <2>1, ConcatProperties
  <2> QED BY <2>1, <2>2
<1>10. FirstRejection((h \o g) \o t) \in S
  <2>1. (h \o g) \o t \in Seq(S)
    BY <1>7, <1>9, <1>5, ChainsWithin
  <2> QED BY <2>1, <1>5, ChainsWithin
<1>11. ASSUME FirstRejection((h \o g) \o t) = OK
       PROVE  h[2] = OK /\ (\A i \in 1..n : g[i] = OK) /\ t[2] = OK
  <2>1. (\A i \in 1..Len(h \o g) : (h \o g)[i] = OK) /\ (\A i \in 1..Len(t) : t[i] = OK)
    BY <1>7, <1>9, <1>11, ConcatOutcome
  <2>2. 2 \in 1..(2 + n) /\ \A i \in 1..n : i + 2 \in 1..(2 + n) /\ ~(i + 2 <= 2)
                                            /\ i + 2 - 2 = i
    BY <1>2
  <2>3. h[2] = OK /\ t[2] = OK
    BY <1>7, <1>9, <2>1, <2>2
  <2>4. ASSUME NEW i \in 1..n PROVE g[i] = OK
    <3>1. (h \o g)[i + 2] = OK
      BY <1>9, <2>1, <2>2
    <3>2. (h \o g)[i + 2] = g[i + 2 - 2]
      BY <1>9, <2>2
    <3> QED BY <2>2, <3>1, <3>2
  <2> QED BY <2>3, <2>4
<1>12. ASSUME FirstRejection((h \o g) \o t) = OK
       PROVE  /\ DOMAIN es \subseteq 1..MaxSignatures
              /\ \A i \in DOMAIN es : es[i].hash = artifact.payload_hash
              /\ \A i, j \in DOMAIN es : i # j => es[i].algorithm # es[j].algorithm
              /\ \A algorithm \in RequiredAlgorithms :
                   \E i \in DOMAIN es : es[i].algorithm = algorithm
  <2>1. h[2] = OK /\ (\A i \in 1..n : g[i] = OK) /\ t[2] = OK
    BY <1>11, <1>12
  <2>2. n <= MaxSignatures
    BY <1>2, <1>6, <2>1, LimitsAssumption DEF Reject, OK
  <2>3. \A i \in 1..n : EntryRejection(artifact.bundle, i, artifact.payload_hash) = OK
    BY <1>4, <2>1
  <2>4. \A i \in 1..n : /\ es[i].hash = artifact.payload_hash
                        /\ \A j \in 1..(i - 1) : es[j].algorithm # es[i].algorithm
    BY <2>3, EntryOutcome DEF es
  <2>5. \A i, j \in 1..n : i # j => es[i].algorithm # es[j].algorithm
    <3>1. \A i, j \in 1..n : j < i => es[i].algorithm # es[j].algorithm
      BY <1>2, <2>4
    <3> QED BY <1>2, <3>1
  <2>6. RequiredAlgorithms \subseteq Range(algorithms)
    BY <1>7, <2>1 DEF Reject, OK
  <2>7. \A algorithm \in RequiredAlgorithms : \E i \in 1..n : es[i].algorithm = algorithm
    BY <1>3, <2>6 DEF Range
  <2>8. 1..n \subseteq 1..MaxSignatures
    BY <1>2, <2>2, LimitsAssumption
  <2> QED BY <1>2, <2>4, <2>5, <2>7, <2>8 DEF es
<1> QED BY <1>1, <1>10, <1>12 DEF es, S

\* The bundles of a receipt pass when each of them does.
LEMMA BundlesOutcome ==
  ASSUME NEW r, r.components \in Seq(Range(r.components)),
         r.bundle.entries \in Seq(Range(r.bundle.entries)),
         \A v \in Range(r.components) : v.bundle.entries \in Seq(Range(v.bundle.entries))
  PROVE  /\ BundlesRejection(r) = OK =>
              /\ BundleRejection(r) = OK
              /\ \A i \in DOMAIN r.components : BundleRejection(r.components[i]) = OK
         /\ BundlesRejection(r) \in
              Blamed({"BUNDLE_TAMPERED"}, \E a \in {r} \cup Range(r.components) : ForeignHash(a))
<1> DEFINE n == Len(r.components)
           g == [i \in 1..n |-> BundleRejection(r.components[i])]
           t == << BundleRejection(r) >>
           S == Blamed({"BUNDLE_TAMPERED"}, \E a \in {r} \cup Range(r.components) : ForeignHash(a))
<1>1. BundlesRejection(r) = FirstRejection(g \o t)
  BY Zenon DEF BundlesRejection
<1>2. n \in Nat /\ DOMAIN r.components = 1..n
  BY LenProperties
<1>3. \A i \in 1..n : BundleRejection(r.components[i]) \in S
  <2> SUFFICES ASSUME NEW i \in 1..n PROVE BundleRejection(r.components[i]) \in S
    OBVIOUS
  <2>1. r.components[i] \in Range(r.components)
    BY <1>2 DEF Range
  <2>2. BundleRejection(r.components[i])
          \in Blamed({"BUNDLE_TAMPERED"}, ForeignHash(r.components[i]))
    BY <2>1, BundleOutcome
  <2> QED BY <2>1, <2>2 DEF Blamed
<1>4. BundleRejection(r) \in S /\ OK \in S
  <2>1. BundleRejection(r) \in Blamed({"BUNDLE_TAMPERED"}, ForeignHash(r))
    BY BundleOutcome
  <2> QED BY <2>1 DEF Blamed, Plain
<1> HIDE DEF S
<1>5. g \in Seq(S) /\ Len(g) = n /\ \A i \in 1..n : g[i] = BundleRejection(r.components[i])
  BY <1>2, <1>3
<1>6. t \in Seq(S) /\ Len(t) = 1 /\ t[1] = BundleRejection(r)
  BY <1>4
<1> HIDE DEF g, t, n
<1>7. FirstRejection(g \o t) \in S
  BY <1>5, <1>4, <1>6, ChainsWithin
<1>8. FirstRejection(g \o t) = OK => (\A i \in 1..n : g[i] = OK) /\ t[1] = OK
  <2>1. g \in Seq(S) /\ t \in Seq(S)
    BY <1>5, <1>6
  <2>2. FirstRejection(g \o t) = OK <=> /\ \A i \in 1..Len(g) : g[i] = OK
                                       /\ \A i \in 1..Len(t) : t[i] = OK
    BY <2>1, ConcatOutcome
  <2> QED BY <1>5, <1>6, <2>2
<1> QED BY <1>1, <1>2, <1>5, <1>6, <1>7, <1>8 DEF S

\* The artifact of a component is the first verdict of that component.
LEMMA ArtifactOf ==
  ASSUME NEW r, r.components \in Seq(Range(r.components)), NEW id
  PROVE  \/ id = Orchestrator /\ Artifact(r, id) = r
         \/ id # Orchestrator /\ id \notin {r.components[i].id : i \in DOMAIN r.components}
         \/ \E i \in DOMAIN r.components :
              r.components[i].id = id /\ Artifact(r, id) = r.components[i]
<1> DEFINE vs == r.components
           n == Len(vs)
           I == {i \in 1..n : vs[i].id = id}
<1>1. n \in Nat /\ DOMAIN vs = 1..n
  BY LenProperties
<1>2. id # Orchestrator /\ I # {} => Artifact(r, id) = vs[Min(I)]
  BY DEF Artifact, SelectInSeq
<1>3. CASE id # Orchestrator /\ I # {}
  <2>1. Min(I) \in I
    <3>1. I \in SUBSET Nat
      OBVIOUS
    <3> HIDE DEF I
    <3> QED BY <1>3, <3>1, MinNat
  <2> QED BY <1>1, <1>2, <1>3, <2>1
<1>4. CASE id # Orchestrator /\ I = {}
  BY <1>1, <1>4
<1>5. CASE id = Orchestrator
  BY <1>5 DEF Artifact
<1> QED BY <1>3, <1>4, <1>5

\* A registry with a date that says nothing.
LEMMA RegistryOutcome ==
  ASSUME NEW registry, registry.keys \in Seq(Range(registry.keys))
  PROVE  RegistryRejection(registry)
           \in Blamed({"FRESHNESS"}, \E k \in Range(registry.keys) : k.dates_malformed)
<1> DEFINE keys == registry.keys
           n == Len(keys)
           a == Reject("REGISTRY", \/ registry.malformed
                                   \/ registry.version <= 0
                                   \/ Len(registry.keys) = 0
                                   \/ Len(registry.keys) > MaxRegistryEntries)
           h == << a >>
           g == [i \in 1..n |-> KeyRejection(keys, i)]
           S == Blamed({"FRESHNESS"}, \E k \in Range(registry.keys) : k.dates_malformed)
<1>1. RegistryRejection(registry) = FirstRejection(h \o g)
  BY Zenon DEF RegistryRejection
<1>2. n \in Nat /\ DOMAIN keys = 1..n
  BY LenProperties
<1>3. OK \in S /\ "REGISTRY" \in S
  BY DEF Plain, Blamed
<1>4. ASSUME NEW i \in 1..n PROVE KeyRejection(keys, i) \in S
  <2> DEFINE k == keys[i]
             s == <<
        Reject("REGISTRY", \/ k.malformed
                           \/ k.role \notin Range(ArtifactIds)
                           \/ k.key_version <= 0
                           \/ k.algorithm \notin Range(AllowedAlgorithms)),
        Reject("FRESHNESS", k.dates_malformed),
        Reject("REGISTRY", \/ k.not_before >= k.not_after
                           \/ k.status \notin {"active", "revoked"}
                           \/ \E j \in 1..(i - 1) :
                                KeyIdentity(keys[j]) = KeyIdentity(k)) >>
  <2>1. KeyRejection(keys, i) = FirstRejection(s)
    BY Zenon DEF KeyRejection
  <2>2. /\ s[1] \in {OK, "REGISTRY"} /\ s[2] = Reject("FRESHNESS", k.dates_malformed)
        /\ s[3] \in {OK, "REGISTRY"}
    BY Zenon DEF Reject
  <2>3. s = << s[1], s[2], s[3] >>
    OBVIOUS
  <2> HIDE DEF s
  <2>4. s[2] \in S
    <3>1. k \in Range(registry.keys)
      BY <1>2 DEF Range
    <3> HIDE DEF k
    <3> QED BY <1>3, <2>2, <3>1 DEF Reject, Blamed
  <2>5. s[1] \in S /\ s[3] \in S
    BY <1>3, <2>2
  <2> HIDE DEF S
  <2>6. << s[1], s[2], s[3] >> \in Seq(S)
    BY <2>4, <2>5
  <2> QED BY <1>3, <2>1, <2>3, <2>6, ChainsWithin
<1> HIDE DEF S
<1>5. h \in Seq(S)
  <2>1. a \in {OK, "REGISTRY"}
    BY Zenon DEF Reject
  <2> HIDE DEF a
  <2> QED BY <1>3, <2>1
<1>6. g \in Seq(S)
  <2> HIDE DEF n
  <2> QED BY <1>2, <1>4
<1> HIDE DEF h, g
<1> QED BY <1>1, <1>3, <1>5, <1>6, ChainsWithin DEF S

\* A receipt that keeps its integrity has the hashes of what it says.
LEMMA IntegrityOutcome ==
  ASSUME NEW r, r.uncanonical \in {OK, "CONTRACT", "CONTRACT_CONTEXT", "CONTRACT_POLICY"}
  PROVE  /\ IntegrityRejection(r) = OK =>
              /\ \A i \in DOMAIN r.components :
                   r.components[i].payload_hash = ComponentDigest(r.components[i])
              /\ r.receipt_hash = UnsignedReceipt(r) /\ r.payload_hash = ReceiptDigest(r)
         /\ IntegrityRejection(r) \in
              Blamed({"CONTRACT_CONTEXT"}, r.uncanonical = "CONTRACT_CONTEXT")
                \cup Blamed({"HASH_MISMATCH"}, ~Untampered(r))
<1> DEFINE s == <<
    r.uncanonical,
    Reject("CONTRACT", r.oversized),
    Reject("CONTRACT_POLICY", \E i \in DOMAIN r.components : r.components[i].bundle.oversized),
    Reject("CONTRACT_POLICY", r.bundle.oversized),
    Reject("HASH_MISMATCH", \E i \in DOMAIN r.components :
             r.components[i].payload_hash # ComponentDigest(r.components[i])),
    Reject("HASH_MISMATCH", r.receipt_hash # UnsignedReceipt(r)),
    Reject("HASH_MISMATCH", r.payload_hash # ReceiptDigest(r)) >>
           S == Blamed({"CONTRACT_CONTEXT"}, r.uncanonical = "CONTRACT_CONTEXT")
                  \cup Blamed({"HASH_MISMATCH"}, ~Untampered(r))
           altered(i) == r.components[i].payload_hash # ComponentDigest(r.components[i])
<1>1. IntegrityRejection(r) = FirstRejection(s)
  BY Zenon DEF IntegrityRejection
<1>2. Len(s) = 7
  OBVIOUS
<1>3. /\ s[5] = OK => \A i \in DOMAIN r.components :
                        r.components[i].payload_hash = ComponentDigest(r.components[i])
      /\ s[6] = OK => r.receipt_hash = UnsignedReceipt(r)
      /\ s[7] = OK => r.payload_hash = ReceiptDigest(r)
  BY DEF Reject, OK
<1>4. /\ s[1] = r.uncanonical /\ s[2] \in {OK, "CONTRACT"} /\ s[3] \in {OK, "CONTRACT_POLICY"}
      /\ s[4] \in {OK, "CONTRACT_POLICY"}
      /\ s[5] = Reject("HASH_MISMATCH", \E i \in DOMAIN r.components : altered(i))
      /\ s[6] = Reject("HASH_MISMATCH", r.receipt_hash # UnsignedReceipt(r))
      /\ s[7] = Reject("HASH_MISMATCH", r.payload_hash # ReceiptDigest(r))
  BY Zenon DEF Reject
<1> HIDE DEF s
<1>5. OK \in S /\ \A k \in 1..7 : s[k] \in S
  <2>1. \A k \in 1..7 : k = 1 \/ k = 2 \/ k = 3 \/ k = 4 \/ k = 5 \/ k = 6 \/ k = 7
    OBVIOUS
  <2>2. {OK, "CONTRACT", "CONTRACT_POLICY"} \subseteq S
    BY DEF Plain, Blamed
  <2>3. r.uncanonical \in S
    BY DEF Plain, Blamed
  <2>4. \A condition : (condition => ~Untampered(r)) => Reject("HASH_MISMATCH", condition) \in S
    BY <2>2 DEF Reject, Blamed
  <2> HIDE DEF S
  <2>5. s[5] \in S /\ s[6] \in S /\ s[7] \in S
    <3>1. (\E i \in DOMAIN r.components : altered(i)) => ~Untampered(r)
      BY DEF Untampered
    <3>2. r.receipt_hash # UnsignedReceipt(r) => ~Untampered(r)
      BY DEF Untampered
    <3>3. r.payload_hash # ReceiptDigest(r) => ~Untampered(r)
      BY DEF Untampered
    <3>4. s[5] \in S
      BY <1>4, <2>4, <3>1
    <3>5. s[6] \in S
      BY <1>4, <2>4, <3>2
    <3>6. s[7] \in S
      BY <1>4, <2>4, <3>3
    <3> QED BY <3>4, <3>5, <3>6
  <2> QED BY <1>4, <2>1, <2>2, <2>3, <2>5
<1>6. FirstRejection(s) \in S
      /\ (FirstRejection(s) = OK => s[5] = OK /\ s[6] = OK /\ s[7] = OK)
  <2>1. 7 \in Nat /\ 5 \in 1..7 /\ 6 \in 1..7 /\ 7 \in 1..7
    OBVIOUS
  <2> HIDE DEF S
  <2> QED BY <1>2, <1>5, <2>1, ChainWithin, FirstRejectionOutcome
<1> QED BY <1>1, <1>3, <1>6

\* Keys that are trusted, in time for an artifact, and within the callback budget.
LEMMA ResolveOutcome ==
  ASSUME NEW r, NEW registry, NEW t
  PROVE  /\ ResolveRejection(r, registry, t) = OK =>
              /\ ~(Cardinality(Callbacks(r)) > MaxCallbacks)
              /\ ~(Cardinality({s \in Callbacks(r) : PostQuantum(EntryAt(r, s).algorithm)})
                     > MaxPostQuantum)
              /\ \A s \in Callbacks(r) :
                   \E k \in TrustedKeys(registry, s[1], EntryAt(r, s)) :
                     KeyUsable(k, Artifact(r, s[1]), t)
         /\ ResolveRejection(r, registry, t) \in Plain
<1> DEFINE over == \/ Cardinality(Callbacks(r)) > MaxCallbacks
                   \/ Cardinality({s \in Callbacks(r) : PostQuantum(EntryAt(r, s).algorithm)})
                        > MaxPostQuantum
           untrusted == \E s \in Callbacks(r) :
                          ~\E k \in TrustedKeys(registry, s[1], EntryAt(r, s)) :
                             KeyUsable(k, Artifact(r, s[1]), t)
           s == << Reject("SIGNATURE_POLICY", over), Reject("REGISTRY", untrusted) >>
<1>1. ResolveRejection(r, registry, t) = FirstRejection(s)
  BY Zenon DEF ResolveRejection
<1>2. s[1] = Reject("SIGNATURE_POLICY", over) /\ s[2] = Reject("REGISTRY", untrusted)
      /\ Len(s) = 2
  OBVIOUS
<1> HIDE DEF s, over, untrusted
<1>3. (s[1] = OK => ~over) /\ (s[2] = OK => ~untrusted)
      /\ s[1] \in Plain /\ s[2] \in Plain /\ OK \in Plain
  BY <1>2 DEF Reject, OK, Plain
<1>4. FirstRejection(s) \in Plain /\ (FirstRejection(s) = OK => s[1] = OK /\ s[2] = OK)
  <2>1. 2 \in Nat /\ 1 \in 1..2 /\ 2 \in 1..2 /\ \A i \in 1..2 : i = 1 \/ i = 2
    OBVIOUS
  <2> QED BY <1>2, <1>3, <2>1, ChainWithin, FirstRejectionOutcome
<1> QED BY <1>1, <1>3, <1>4 DEF over, untrusted

\* What the expensive part of a preflight has looked at when it rejects nothing.
LEMMA TrustOutcome ==
  ASSUME NEW p, Decoded(p), NEW t, NEW least
  PROVE  /\ TrustRejection(p, t, least) = OK =>
              /\ VersionsRejection(p.receipt, p.registry, least) = OK
              /\ FreshnessRejection(p.receipt, t) = OK
              /\ ResolveRejection(p.receipt, p.registry, t) = OK
              /\ IntegrityRejection(p.receipt) = OK
         /\ \A ids : TrustRejection(p, t, least) \in Grounds(p, t, ids)
<1> DEFINE r == p.receipt
           s == << RegistryRejection(p.registry),
                   VersionsRejection(r, p.registry, least),
                   Reject("FRESHNESS", p.input_defect = "date"),
                   FreshnessRejection(r, t),
                   ResolveRejection(r, p.registry, t),
                   CrossCheckRejection(r),
                   IntegrityRejection(r) >>
           S == UNION {Blamed({"CONTRACT_CONTEXT"}, ContextMismatch(p)),
                       Blamed({"HASH_MISMATCH", "BUNDLE_TAMPERED"}, ~Untampered(r)),
                       Blamed({"FRESHNESS"}, p.input_defect = "date" \/ NotCurrent(p, t))}
<1>1. TrustRejection(p, t, least) = FirstRejection(s)
  BY Zenon DEF TrustRejection
<1>2. Len(s) = 7
      /\ s[2] = VersionsRejection(r, p.registry, least) /\ s[4] = FreshnessRejection(r, t)
      /\ s[5] = ResolveRejection(r, p.registry, t) /\ s[7] = IntegrityRejection(r)
  OBVIOUS
<1>3. /\ s[1] = RegistryRejection(p.registry) /\ s[2] \in {OK, "REGISTRY"}
      /\ s[3] = Reject("FRESHNESS", p.input_defect = "date")
      /\ s[6] \in {OK, "SIGNATURE_POLICY"}
  BY Zenon DEF Reject, VersionsRejection, CrossCheckRejection
<1> HIDE DEF s
<1>4. OK \in S /\ \A k \in 1..7 : s[k] \in S
  <2>1. \A k \in 1..7 : k = 1 \/ k = 2 \/ k = 3 \/ k = 4 \/ k = 5 \/ k = 6 \/ k = 7
    OBVIOUS
  <2>2. Plain \subseteq S /\ {OK, "REGISTRY", "SIGNATURE_POLICY"} \subseteq Plain
    BY DEF Plain, Blamed
  <2>3. \A condition : (condition => p.input_defect = "date" \/ NotCurrent(p, t)) =>
          Blamed({"FRESHNESS"}, condition) \subseteq S
    BY DEF Blamed
  <2>4. s[1] \in S
    <3>1. (\E k \in Range(p.registry.keys) : k.dates_malformed) => NotCurrent(p, t)
      BY DEF NotCurrent
    <3>2. s[1] \in Blamed({"FRESHNESS"}, \E k \in Range(p.registry.keys) : k.dates_malformed)
      BY <1>3, RegistryOutcome DEF Decoded
    <3> HIDE DEF S
    <3> QED BY <2>3, <3>1, <3>2
  <2>5. s[5] \in Plain
    BY <1>2, ResolveOutcome
  <2>6. s[7] \in S
    <3>1. r.uncanonical = "CONTRACT_CONTEXT" => ContextMismatch(p)
      BY DEF ContextMismatch
    <3>2. s[7] \in Blamed({"CONTRACT_CONTEXT"}, r.uncanonical = "CONTRACT_CONTEXT")
                     \cup Blamed({"HASH_MISMATCH"}, ~Untampered(r))
      BY <1>2, IntegrityOutcome DEF Decoded
    <3> QED BY <3>1, <3>2 DEF Blamed
  <2>7. s[3] \in S /\ s[4] \in S
    <3>1. \A condition : (condition => p.input_defect = "date" \/ NotCurrent(p, t)) =>
            Reject("FRESHNESS", condition) \in S
      BY <2>2 DEF Reject, Blamed
    <3> HIDE DEF S
    <3>2. s[3] \in S
      BY <1>3, <3>1
    <3>3. \/ r.dates_malformed
          \/ ~Covers(r, t)
          \/ \E i \in DOMAIN r.components : ~Covers(r.components[i], t)
          => NotCurrent(p, t)
      <4>1. /\ r.not_before \in Int /\ r.not_after \in Int
            /\ \A v \in Range(r.components) : v.not_before \in Int /\ v.not_after \in Int
        BY DEF Decoded
      <4>2. \A i \in DOMAIN r.components : r.components[i] \in Range(r.components)
        BY DEF Range
      <4>3. \A a \in {r} \cup Range(r.components) : ~Covers(a, t) =>
              ~(a.not_before <= t /\ t <= a.not_after) \/ a.not_before >= a.not_after
        BY <4>1 DEF Covers
      <4> QED BY <4>2, <4>3 DEF NotCurrent
    <3>4. s[4] = Reject("FRESHNESS", \/ r.dates_malformed
                                     \/ ~Covers(r, t)
                                     \/ \E i \in DOMAIN r.components : ~Covers(r.components[i], t))
      BY <1>2 DEF FreshnessRejection
    <3>5. s[4] \in S
      BY <3>1, <3>3, <3>4
    <3> QED BY <3>2, <3>5
  <2> HIDE DEF S
  <2> QED BY <1>3, <2>1, <2>2, <2>4, <2>5, <2>6, <2>7
<1>5. FirstRejection(s) \in S
      /\ (FirstRejection(s) = OK => s[2] = OK /\ s[4] = OK /\ s[5] = OK /\ s[7] = OK)
  <2>1. 7 \in Nat /\ 2 \in 1..7 /\ 4 \in 1..7 /\ 5 \in 1..7 /\ 7 \in 1..7
    OBVIOUS
  <2>2. Len(s) = 7
    BY <1>2
  <2> HIDE DEF S
  <2> QED BY <1>4, <2>1, <2>2, ChainWithin, FirstRejectionOutcome
<1>6. \A ids : S \subseteq Grounds(p, t, ids)
  BY DEF Grounds
<1> HIDE DEF S
<1> QED BY <1>1, <1>2, <1>5, <1>6

\* What can be blamed, and when.
LEMMA GroundsHold ==
  ASSUME NEW p, NEW t, NEW ids
  PROVE  /\ Plain \subseteq Grounds(p, t, ids)
         /\ \A x \in Grounds(p, t, ids) :
              /\ x = "CONTRACT_CONTEXT" => ContextMismatch(p)
              /\ x = "NO_BACKEND" => ~p.backend
              /\ x \in {"HASH_MISMATCH", "BUNDLE_TAMPERED"} => ~Untampered(p.receipt)
              /\ x = "REQUEST_MISMATCH" => p.receipt.request_id # p.request_id
              /\ x = "REPLAY" => /\ p.receipt.request_id = p.request_id
                                 /\ \/ p.receipt.request_id \in ids
                                    \/ p.receipt.receipt_hash \in p.denylist
              /\ x = "FRESHNESS" => p.input_defect = "date" \/ NotCurrent(p, t)
              /\ x = "INVALID_TIME" => p.input_defect = "time"
              /\ x \notin {"SIGNATURE_INVALID", "BACKEND_FAILURE"}
<1> DEFINE r == p.receipt
           replay == /\ r.request_id = p.request_id
                     /\ \/ r.request_id \in ids
                        \/ r.receipt_hash \in p.denylist
           date == p.input_defect = "date" \/ NotCurrent(p, t)
           context == ContextMismatch(p)
           tampered == ~Untampered(r)
<1>2. \A x : x \in Grounds(p, t, ids) <=>
        \/ x \in Blamed({"CONTRACT_CONTEXT"}, context)
        \/ x \in Blamed({"NO_BACKEND"}, ~p.backend)
        \/ x \in Blamed({"HASH_MISMATCH", "BUNDLE_TAMPERED"}, tampered)
        \/ x \in Blamed({"REQUEST_MISMATCH"}, r.request_id # p.request_id)
        \/ x \in Blamed({"REPLAY"}, replay)
        \/ x \in Blamed({"FRESHNESS"}, date)
        \/ x \in Blamed({"INVALID_TIME"}, p.input_defect = "time")
  BY Zenon DEF Grounds
<1> HIDE DEF replay, date, context, tampered, r
<1>1. ASSUME NEW x
      PROVE  /\ x \in Blamed({"CONTRACT_CONTEXT"}, context)
                  <=> x \in Plain \/ (context /\ x = "CONTRACT_CONTEXT")
             /\ x \in Blamed({"NO_BACKEND"}, ~p.backend)
                  <=> x \in Plain \/ (~p.backend /\ x = "NO_BACKEND")
             /\ x \in Blamed({"HASH_MISMATCH", "BUNDLE_TAMPERED"}, tampered)
                  <=> x \in Plain \/ (tampered /\ x \in {"HASH_MISMATCH", "BUNDLE_TAMPERED"})
             /\ x \in Blamed({"REQUEST_MISMATCH"}, r.request_id # p.request_id)
                  <=> x \in Plain \/ (r.request_id # p.request_id /\ x = "REQUEST_MISMATCH")
             /\ x \in Blamed({"REPLAY"}, replay) <=> x \in Plain \/ (replay /\ x = "REPLAY")
             /\ x \in Blamed({"FRESHNESS"}, date) <=> x \in Plain \/ (date /\ x = "FRESHNESS")
             /\ x \in Blamed({"INVALID_TIME"}, p.input_defect = "time")
                  <=> x \in Plain \/ (p.input_defect = "time" /\ x = "INVALID_TIME")
  BY DEF Blamed
<1>3. ASSUME NEW x
      PROVE  x \in Grounds(p, t, ids) <=>
               \/ x \in Plain
               \/ context /\ x = "CONTRACT_CONTEXT"
               \/ ~p.backend /\ x = "NO_BACKEND"
               \/ tampered /\ x \in {"HASH_MISMATCH", "BUNDLE_TAMPERED"}
               \/ r.request_id # p.request_id /\ x = "REQUEST_MISMATCH"
               \/ replay /\ x = "REPLAY"
               \/ date /\ x = "FRESHNESS"
               \/ p.input_defect = "time" /\ x = "INVALID_TIME"
  BY <1>1, <1>2
<1>4. Plain \subseteq Grounds(p, t, ids)
  BY <1>3
<1>5. ASSUME NEW x \in Grounds(p, t, ids)
      PROVE  /\ x = "CONTRACT_CONTEXT" => context
             /\ x = "NO_BACKEND" => ~p.backend
             /\ x \in {"HASH_MISMATCH", "BUNDLE_TAMPERED"} => tampered
             /\ x = "REQUEST_MISMATCH" => r.request_id # p.request_id
             /\ x = "REPLAY" => replay
             /\ x = "FRESHNESS" => date
             /\ x = "INVALID_TIME" => p.input_defect = "time"
             /\ x \notin {"SIGNATURE_INVALID", "BACKEND_FAILURE"}
  BY <1>3 DEF Plain, OK
<1> QED BY <1>4, <1>5 DEF replay, date, context, tampered, r

\* A receipt that says what it should is refused for the ids that were seen last, and
\* only if it is the one that was asked for.
LEMMA ReceiptOutcome ==
  ASSUME NEW p, Decoded(p), NEW ids
  PROVE  /\ ReceiptRejection(p, ids) = OK =>
              /\ ContractRejection(p.receipt, p.context) = OK
              /\ BundlesRejection(p.receipt) = OK
              /\ p.receipt.request_id = p.request_id
              /\ p.receipt.request_id \notin ids
              /\ p.receipt.receipt_hash \notin p.denylist
         /\ \A t : ReceiptRejection(p, ids) \in Grounds(p, t, ids)
<1> DEFINE r == p.receipt
           replayed == r.request_id \in ids \/ r.receipt_hash \in p.denylist
           s == << ContractRejection(r, p.context),
                   BundlesRejection(r),
                   Reject("REQUEST_MISMATCH", r.request_id # p.request_id),
                   Reject("NO_BACKEND", ~p.backend),
                   Reject("INVALID_REPLAY_INPUT",
                          \/ p.input_defect = "identifiers"
                          \/ IdentifiersRefused(ids, MaxIdentifiers)
                          \/ IdentifiersRefused(p.denylist, MaxIdentifiers)),
                   Reject("REPLAY", replayed) >>
<1>1. ReceiptRejection(p, ids) = FirstRejection(s)
  BY Zenon DEF ReceiptRejection
<1>2. Len(s) = 6
      /\ s[1] = ContractRejection(r, p.context) /\ s[2] = BundlesRejection(r)
  OBVIOUS
<1>3. /\ s[3] = OK => r.request_id = p.request_id
      /\ s[6] = OK => ~replayed
  BY DEF Reject, OK
<1>4. /\ s[3] = Reject("REQUEST_MISMATCH", r.request_id # p.request_id)
      /\ s[4] = Reject("NO_BACKEND", ~p.backend)
      /\ s[5] \in {OK, "INVALID_REPLAY_INPUT"} /\ s[6] = Reject("REPLAY", replayed)
  BY Zenon DEF Reject
<1> HIDE DEF s
<1>5. ASSUME NEW t
      PROVE  /\ OK \in Grounds(p, t, ids)
             /\ \A k \in 1..6 : (k = 6 => s[3] = OK) => s[k] \in Grounds(p, t, ids)
  <2> DEFINE G == Grounds(p, t, ids)
  <2>1. \A k \in 1..6 : k = 1 \/ k = 2 \/ k = 3 \/ k = 4 \/ k = 5 \/ k = 6
    OBVIOUS
  <2>2. Plain \subseteq G /\ {OK, "INVALID_REPLAY_INPUT"} \subseteq Plain
    BY GroundsHold DEF Plain
  <2>3. s[1] \in G
    <3>1. \/ s[1] \in Plain
          \/ /\ s[1] = "CONTRACT_CONTEXT"
             /\ \/ r.context = NotAHash \/ r.context # p.context
                \/ \E i \in DOMAIN r.components : \/ r.components[i].context = NotAHash
                                                  \/ r.components[i].context # p.context
      <4>1. r.components \in Seq(Range(r.components)) /\ r.results \in Seq(Range(r.results))
        BY DEF Decoded
      <4> HIDE DEF r
      <4> QED BY <1>2, <4>1, ContractOutcome
    <3>2. p.context # NotAHash
      BY DEF Decoded
    <3>3. s[1] \in Plain \/ (s[1] = "CONTRACT_CONTEXT" /\ ContextMismatch(p))
      BY <3>1, <3>2 DEF ContextMismatch
    <3>4. ContextMismatch(p) => "CONTRACT_CONTEXT" \in G
      BY DEF Grounds, Blamed
    <3> HIDE DEF G
    <3> QED BY <2>2, <3>3, <3>4
  <2>4. s[2] \in G
    <3>1. s[2] \in Blamed({"BUNDLE_TAMPERED"}, \E a \in {r} \cup Range(r.components) : ForeignHash(a))
      <4>1. /\ r.components \in Seq(Range(r.components))
            /\ r.bundle.entries \in Seq(Range(r.bundle.entries))
            /\ \A v \in Range(r.components) : v.bundle.entries \in Seq(Range(v.bundle.entries))
        BY DEF Decoded
      <4> HIDE DEF r
      <4> QED BY <1>2, <4>1, BundlesOutcome DEF Blamed
    <3>2. (\E a \in {r} \cup Range(r.components) : ForeignHash(a)) => ~Untampered(r)
      BY DEF ForeignHash, Untampered
    <3>3. s[2] \in Plain \/ (s[2] = "BUNDLE_TAMPERED" /\ ~Untampered(r))
      BY <3>1, <3>2 DEF Blamed
    <3>4. ~Untampered(r) => "BUNDLE_TAMPERED" \in G
      BY DEF Grounds, Blamed
    <3> HIDE DEF G
    <3> QED BY <2>2, <3>3, <3>4
  <2>5. s[3] \in G /\ s[4] \in G
    <3>1. r.request_id # p.request_id => "REQUEST_MISMATCH" \in G
      BY DEF Grounds, Blamed
    <3>2. ~p.backend => "NO_BACKEND" \in G
      BY DEF Grounds, Blamed
    <3> HIDE DEF G
    <3> QED BY <1>4, <2>2, <3>1, <3>2 DEF Reject
  <2>6. s[3] = OK => s[6] \in G
    <3>1. r.request_id = p.request_id /\ replayed => "REPLAY" \in G
      BY DEF Grounds, Blamed
    <3> HIDE DEF G, replayed
    <3> QED BY <1>3, <1>4, <2>2, <3>1 DEF Reject
  <2> HIDE DEF G
  <2>7. OK \in G /\ \A k \in 1..6 : (k = 6 => s[3] = OK) => s[k] \in G
    BY <1>4, <2>1, <2>2, <2>3, <2>4, <2>5, <2>6
  <2> QED BY <2>7 DEF G
<1>6. FirstRejection(s) = OK => s[1] = OK /\ s[2] = OK /\ s[3] = OK /\ s[6] = OK
  <2>1. 6 \in Nat /\ 1 \in 1..6 /\ 2 \in 1..6 /\ 3 \in 1..6 /\ 6 \in 1..6
    OBVIOUS
  <2> QED BY <1>2, <2>1, FirstRejectionOutcome
<1>7. ASSUME NEW t PROVE FirstRejection(s) \in Grounds(p, t, ids)
  <2>1. CASE FirstRejection(s) = OK
    BY <1>5, <2>1
  <2>2. CASE FirstRejection(s) # OK
    <3>1. 6 \in Nat
      OBVIOUS
    <3>2. PICK i \in 1..6 : FirstRejection(s) = s[i] /\ \A j \in 1..(i - 1) : s[j] = OK
      BY <1>2, <2>2, <3>1, FirstRejectionFollows
    <3>3. i = 6 => s[3] = OK
      BY <3>2
    <3> QED BY <1>5, <3>2, <3>3
  <2> QED BY <2>1, <2>2
<1> HIDE DEF replayed
<1>8. ReceiptRejection(p, ids) = OK =>
        /\ ContractRejection(r, p.context) = OK /\ BundlesRejection(r) = OK
        /\ r.request_id = p.request_id /\ ~replayed
  BY <1>1, <1>2, <1>3, <1>6
<1> QED BY <1>1, <1>7, <1>8 DEF replayed

\* The parameters of a call are refused for a cause of their own.
LEMMA InputOutcome ==
  ASSUME NEW p
  PROVE  InputRejection(p) \in Blamed({"INVALID_TIME"}, p.input_defect = "time")
<1> DEFINE s == <<
    Reject("INVALID_INPUT", p.input_defect \in {"context", "request_id", "blank_request_id"}),
    Reject("INVALID_TIME", p.input_defect = "time"),
    Reject("INVALID_INPUT", p.input_defect = "minimum") >>
           S == Blamed({"INVALID_TIME"}, p.input_defect = "time")
<1>1. InputRejection(p) = FirstRejection(s) /\ Len(s) = 3
  BY Zenon DEF InputRejection
<1>2. s[1] \in {OK, "INVALID_INPUT"} /\ s[2] = Reject("INVALID_TIME", p.input_defect = "time")
      /\ s[3] \in {OK, "INVALID_INPUT"}
  BY Zenon DEF Reject
<1>3. 3 \in Nat /\ \A i \in 1..3 : i = 1 \/ i = 2 \/ i = 3
  OBVIOUS
<1>4. {OK, "INVALID_INPUT"} \subseteq S
  BY DEF Plain, Blamed
<1> HIDE DEF s
<1>5. s[2] \in S
  BY <1>2, <1>4 DEF Reject, Blamed
<1> HIDE DEF S
<1>6. OK \in S /\ \A i \in 1..3 : s[i] \in S
  BY <1>2, <1>3, <1>4, <1>5
<1>7. FirstRejection(s) \in S
  BY <1>1, <1>3, <1>6, ChainWithin
<1> QED BY <1>1, <1>7 DEF S

\* A preflight that rejects nothing has gone through both of its parts, and one that
\* rejects has grounds to.
LEMMA PreflightOutcome ==
  ASSUME NEW p, Decoded(p), NEW t, NEW least, NEW ids
  PROVE  /\ PreflightRejection(p, t, least, ids) = OK =>
              ReceiptRejection(p, ids) = OK /\ TrustRejection(p, t, least) = OK
         /\ PreflightRejection(p, t, least, ids) \in Grounds(p, t, ids)
<1> DEFINE input == InputRejection(p)
           receipt == ReceiptRejection(p, ids)
           trust == TrustRejection(p, t, least)
<1>1. input \in Grounds(p, t, ids)
  <2>1. input \in Blamed({"INVALID_TIME"}, p.input_defect = "time")
    BY InputOutcome
  <2> HIDE DEF input
  <2> QED BY <2>1, Zenon DEF Grounds
<1>2. receipt \in Grounds(p, t, ids) /\ trust \in Grounds(p, t, ids)
  BY ReceiptOutcome, TrustOutcome
<1>4. PreflightRejection(p, t, least, ids)
        = IF input # OK THEN input ELSE IF receipt # OK THEN receipt ELSE trust
  BY Zenon DEF PreflightRejection
<1> HIDE DEF input, receipt, trust
<1>5. PreflightRejection(p, t, least, ids) = OK => receipt = OK /\ trust = OK
  BY <1>4
<1>6. PreflightRejection(p, t, least, ids) \in {input, receipt, trust}
  BY <1>4
<1> QED BY <1>1, <1>2, <1>5, <1>6 DEF receipt, trust

\* What has been looked at of each artifact, when a preflight rejects nothing.
LEMMA ArtifactChecks ==
  ASSUME NEW p, Decoded(p), NEW t, NEW least, NEW ids,
         PreflightRejection(p, t, least, ids) = OK, NEW id \in Range(ArtifactIds)
  PROVE  LET a == Artifact(p.receipt, id)
         IN  /\ BundleRejection(a) = OK /\ a.bundle.entries \in Seq(Range(a.bundle.entries))
             /\ a.context = p.context
             /\ Covers(a, t) /\ a.not_before \in Int /\ a.not_after \in Int
<1> DEFINE r == p.receipt
<1>1. ReceiptRejection(p, ids) = OK /\ TrustRejection(p, t, least) = OK
  BY PreflightOutcome
<1>2. ContractRejection(r, p.context) = OK /\ BundlesRejection(r) = OK
  BY <1>1, ReceiptOutcome
<1>3. FreshnessRejection(r, t) = OK
  BY <1>1, TrustOutcome
<1>4. Covers(r, t) /\ \A i \in DOMAIN r.components : Covers(r.components[i], t)
  BY <1>3 DEF FreshnessRejection, Reject, OK
<1>5. /\ r.components \in Seq(Range(r.components)) /\ r.results \in Seq(Range(r.results))
      /\ r.bundle.entries \in Seq(Range(r.bundle.entries))
      /\ r.not_before \in Int /\ r.not_after \in Int
      /\ \A v \in Range(r.components) : v.bundle.entries \in Seq(Range(v.bundle.entries))
      /\ \A v \in Range(r.components) : v.not_before \in Int /\ v.not_after \in Int
  BY DEF Decoded
<1> HIDE DEF r
<1>6. BundleRejection(r) = OK
      /\ \A i \in DOMAIN r.components : BundleRejection(r.components[i]) = OK
  BY <1>2, <1>5, BundlesOutcome
<1>7. /\ r.context = p.context
      /\ {r.components[i].id : i \in DOMAIN r.components} = Range(SupportedComponents)
      /\ \A i \in DOMAIN r.components : r.components[i].context = p.context
  BY <1>2, <1>5, ContractOutcome
<1>8. \/ Artifact(r, id) = r
      \/ \E i \in DOMAIN r.components : Artifact(r, id) = r.components[i]
  <2>1. id = Orchestrator \/ id \in {r.components[i].id : i \in DOMAIN r.components}
    BY <1>7, Signers
  <2> QED BY <1>5, <2>1, ArtifactOf
<1>9. CASE Artifact(r, id) = r
  BY <1>4, <1>5, <1>6, <1>7, <1>9 DEF r
<1>10. ASSUME NEW i \in DOMAIN r.components, Artifact(r, id) = r.components[i]
       PROVE  LET a == Artifact(r, id)
              IN  /\ BundleRejection(a) = OK
                  /\ a.bundle.entries \in Seq(Range(a.bundle.entries))
                  /\ a.context = p.context
                  /\ Covers(a, t) /\ a.not_before \in Int /\ a.not_after \in Int
  <2>1. r.components[i] \in Range(r.components)
    BY DEF Range
  <2> QED BY <1>4, <1>5, <1>6, <1>7, <1>10, <2>1
<1> QED BY <1>8, <1>9, <1>10 DEF r

\* What can be told without a backend is told before a backend is asked.
LEMMA PreflightChecks ==
  ASSUME NEW p, Decoded(p), NEW t \in Int, NEW least \in Nat, NEW ids,
         PreflightRejection(p, t, least, ids) = OK
  PROVE  Checkable(p, t, least) /\ Untampered(p.receipt)
<1> DEFINE r == p.receipt
           decisions == {r.components[i].decision : i \in DOMAIN r.components}
           ofContext == \A a \in Artifacts(r) : a.context = p.context
           inTime(id) == LET a == Artifact(r, id) IN a.not_before <= t /\ t <= a.not_after
           signed(id) == \A algorithm \in RequiredAlgorithms :
                           \E i \in DOMAIN Artifact(r, id).bundle.entries :
                             Artifact(r, id).bundle.entries[i].algorithm = algorithm
           once(id) == LET es == Artifact(r, id).bundle.entries
                       IN  \A i, j \in DOMAIN es : i # j => es[i].algorithm # es[j].algorithm
           trusted(id) ==
             LET a  == Artifact(r, id)
                 es == a.bundle.entries
             IN  \A i \in DOMAIN es :
                    \E k \in Range(p.registry.keys) :
                      /\ k.role = id /\ k.algorithm = es[i].algorithm
                      /\ k.key_id = es[i].key_id /\ k.key_version = es[i].key_version
                      /\ k.status = "active"
                      /\ {t, a.not_before, a.not_after} \subseteq k.not_before..k.not_after
<1>1. ReceiptRejection(p, ids) = OK /\ TrustRejection(p, t, least) = OK
  BY PreflightOutcome
<1>2. /\ ContractRejection(r, p.context) = OK /\ BundlesRejection(r) = OK
      /\ r.request_id = p.request_id /\ r.receipt_hash \notin p.denylist
  BY <1>1, ReceiptOutcome
<1>3. /\ VersionsRejection(r, p.registry, least) = OK
      /\ ResolveRejection(r, p.registry, t) = OK /\ IntegrityRejection(r) = OK
  BY <1>1, TrustOutcome
<1>4. /\ r.components \in Seq(Range(r.components)) /\ r.results \in Seq(Range(r.results))
      /\ p.registry.version \in Int
      /\ \A k \in Range(p.registry.keys) : k.not_before \in Int /\ k.not_after \in Int
      /\ r.uncanonical \in {OK, "CONTRACT", "CONTRACT_CONTEXT", "CONTRACT_POLICY"}
      /\ r.bundle.entries \in Seq(Range(r.bundle.entries))
      /\ \A v \in Range(r.components) : v.bundle.entries \in Seq(Range(v.bundle.entries))
  BY DEF Decoded
<1>5. \A id \in Range(ArtifactIds) :
        LET a == Artifact(r, id)
        IN  /\ BundleRejection(a) = OK /\ a.bundle.entries \in Seq(Range(a.bundle.entries))
            /\ a.context = p.context
            /\ Covers(a, t) /\ a.not_before \in Int /\ a.not_after \in Int
  BY ArtifactChecks
<1>6. r.registry_version = p.registry.version /\ p.registry.version >= least
  BY <1>3, <1>4 DEF VersionsRejection, Reject, OK
<1> HIDE DEF r
<1>7. /\ {r.components[i].id : i \in DOMAIN r.components} = Range(SupportedComponents)
      /\ r.outcome = ExpectedOutcome(r.components)
      /\ r.outcome # "ALLOW" => ~r.handoff_allowed
      /\ r.components # <<>>
      /\ \A i \in DOMAIN r.components : r.components[i].decision \in Decisions
  BY <1>2, <1>4, ContractOutcome
<1>8. (r.outcome = "ALLOW" <=> decisions = {"ALLOW"})
      /\ ("DENY" \in decisions => r.outcome = "DENY")
  <2>1. decisions \subseteq Decisions
    BY <1>7
  <2>2. decisions # {}
    <3>1. Len(r.components) \in Nat \ {0}
      BY <1>4, <1>7, EmptySeq
    <3>2. 1 \in DOMAIN r.components
      BY <1>4, <3>1, LenProperties
    <3> QED BY <3>2
  <2>3. r.outcome = IF decisions \cap {"DENY", "ERROR"} # {} THEN "DENY"
                    ELSE IF decisions \cap {"ESCALATE", "SKIPPED"} # {}
                         THEN "HUMAN_REVIEW_REQUIRED" ELSE "ALLOW"
    BY <1>7 DEF ExpectedOutcome
  <2> HIDE DEF decisions
  <2>4. CASE decisions \cap {"DENY", "ERROR"} # {}
    BY <2>3, <2>4
  <2>5. CASE decisions \cap {"DENY", "ERROR"} = {} /\ decisions \cap {"ESCALATE", "SKIPPED"} # {}
    BY <2>3, <2>5
  <2>6. CASE decisions \cap {"DENY", "ERROR"} = {} /\ decisions \cap {"ESCALATE", "SKIPPED"} = {}
    <3>1. decisions = {"ALLOW"}
      BY <2>1, <2>2, <2>6 DEF Decisions
    <3> QED BY <2>3, <2>6, <3>1
  <2> QED BY <2>4, <2>5, <2>6
<1>9. ASSUME NEW id \in Range(ArtifactIds)
      PROVE  /\ inTime(id) /\ signed(id) /\ once(id)
             /\ LET a == Artifact(r, id)
                IN  \A i \in DOMAIN a.bundle.entries :
                      /\ a.bundle.entries[i].hash = a.payload_hash
                      /\ i \in 1..MaxSignatures
  <2> DEFINE a == Artifact(r, id)
  <2>1. /\ BundleRejection(a) = OK /\ a.bundle.entries \in Seq(Range(a.bundle.entries))
        /\ Covers(a, t)
    BY <1>5
  <2> HIDE DEF a
  <2>2. /\ DOMAIN a.bundle.entries \subseteq 1..MaxSignatures
        /\ \A i \in DOMAIN a.bundle.entries : a.bundle.entries[i].hash = a.payload_hash
        /\ \A i, j \in DOMAIN a.bundle.entries :
             i # j => a.bundle.entries[i].algorithm # a.bundle.entries[j].algorithm
        /\ \A algorithm \in RequiredAlgorithms :
             \E i \in DOMAIN a.bundle.entries : a.bundle.entries[i].algorithm = algorithm
    BY <2>1, BundleOutcome
  <2> QED BY <2>1, <2>2 DEF Covers, a
<1>10. ASSUME NEW id \in Range(ArtifactIds) PROVE trusted(id)
  <2> DEFINE a == Artifact(r, id)
             es == a.bundle.entries
  <2> SUFFICES ASSUME NEW i \in DOMAIN es
               PROVE  \E k \in Range(p.registry.keys) :
                        /\ k.role = id /\ k.algorithm = es[i].algorithm
                        /\ k.key_id = es[i].key_id /\ k.key_version = es[i].key_version
                        /\ k.status = "active"
                        /\ {t, a.not_before, a.not_after} \subseteq k.not_before..k.not_after
    OBVIOUS
  <2>1. <<id, i>> \in Callbacks(r) /\ EntryAt(r, <<id, i>>) = es[i]
    BY <1>9 DEF Callbacks, EntryAt
  <2>2. PICK k \in TrustedKeys(p.registry, id, es[i]) : KeyUsable(k, a, t)
    <3>1. \E k \in TrustedKeys(p.registry, <<id, i>>[1], EntryAt(r, <<id, i>>)) :
             KeyUsable(k, Artifact(r, <<id, i>>[1]), t)
      BY <1>3, <2>1, ResolveOutcome
    <3>2. <<id, i>>[1] = id
      OBVIOUS
    <3> QED BY <2>1, <3>1, <3>2
  <2>3. /\ k \in Range(p.registry.keys)
        /\ k.role = id /\ k.algorithm = es[i].algorithm
        /\ k.key_id = es[i].key_id /\ k.key_version = es[i].key_version
    BY DEF TrustedKeys, KeyIdentity
  <2>4. /\ k.not_before \in Int /\ k.not_after \in Int
        /\ a.not_before \in Int /\ a.not_after \in Int
    BY <1>4, <1>5, <2>3
  <2>5. k.status = "active"
        /\ {t, a.not_before, a.not_after} \subseteq k.not_before..k.not_after
    BY <2>2, <2>4 DEF KeyUsable
  <2> QED BY <2>3, <2>5
<1>11. ofContext
  BY <1>5 DEF Artifacts
<1>12. Checkable(p, t, least)
  BY <1>2, <1>6, <1>7, <1>8, <1>9, <1>10, <1>11, Zenon DEF Checkable, r
<1>13. Untampered(r)
  <2>1. \A a \in {r} \cup Range(r.components) : \A i \in DOMAIN a.bundle.entries :
          a.bundle.entries[i].hash = a.payload_hash
    <3>1. \A a \in {r} \cup Range(r.components) :
            BundleRejection(a) = OK /\ a.bundle.entries \in Seq(Range(a.bundle.entries))
      BY <1>2, <1>4, BundlesOutcome DEF Range
    <3> QED BY <3>1, BundleOutcome
  <2> QED BY <1>3, <1>4, <2>1, IntegrityOutcome DEF Untampered
<1> QED BY <1>12, <1>13 DEF r

\* A preflight that rejects nothing has asked for the request id, for the ids that
\* were seen, and for the least registry version.
LEMMA PreflightAdmits ==
  ASSUME NEW p, Decoded(p), NEW t, NEW least \in Nat, NEW ids,
         PreflightRejection(p, t, least, ids) = OK
  PROVE  /\ p.receipt.request_id = p.request_id
         /\ p.receipt.request_id \notin ids
         /\ p.registry.version >= least
<1>1. ReceiptRejection(p, ids) = OK /\ TrustRejection(p, t, least) = OK
  BY PreflightOutcome
<1>2. p.receipt.request_id = p.request_id /\ p.receipt.request_id \notin ids
  BY <1>1, ReceiptOutcome
<1>3. VersionsRejection(p.receipt, p.registry, least) = OK
  BY <1>1, TrustOutcome
<1>4. p.registry.version \in Int
  BY DEF Decoded
<1> QED BY <1>2, <1>3, <1>4 DEF VersionsRejection, Reject, OK

(***************************************************************************)
(* Lemmas about the records and the log.                                   *)
(***************************************************************************)

\* The records of a verification that did not fail, one by one.
LEMMA RecordsShape ==
  ASSUME NEW c \in Calls, pc[c] \notin {"failed", "appending_failure"},
         Len(transcript[c]) \in Nat
  PROVE  LET k  == Len(transcript[c])
             rs == Records(c)
         IN  /\ rs[1] = AuditRecord("preflight", 0, IF Validated(c) THEN OK ELSE cause[c])
             /\ \A i \in 1..k :
                  rs[i + 1] = AuditRecord("signature", transcript[c][i].slot,
                                          transcript[c][i].rejection)
             /\ Validated(c) => /\ Len(rs) = k + 2
                                /\ rs[k + 2] = AuditRecord("artifact", 0, cause[c])
             /\ ~Validated(c) => Len(rs) = k + 1
<1> DEFINE k == Len(transcript[c])
           preflight == AuditRecord("preflight", 0, IF Validated(c) THEN OK ELSE cause[c])
           signature(i) == AuditRecord("signature", transcript[c][i].slot,
                                       transcript[c][i].rejection)
           artifact == AuditRecord("artifact", 0, cause[c])
           h == << preflight >>
           s == [i \in 1..k |-> signature(i)]
           t == IF Validated(c) THEN << artifact >> ELSE <<>>
           R == {preflight, artifact} \cup {signature(i) : i \in 1..k}
<1>1. Records(c) = (h \o s) \o t
  BY Zenon DEF Records
<1> HIDE DEF preflight, signature, artifact
<1>2. /\ h \in Seq(R) /\ Len(h) = 1 /\ h[1] = preflight
      /\ s \in Seq(R) /\ Len(s) = k /\ \A i \in 1..k : s[i] = signature(i)
  OBVIOUS
<1>3. /\ t \in Seq(R) /\ Len(t) \in Nat
      /\ Validated(c) => Len(t) = 1 /\ t[1] = artifact
      /\ ~Validated(c) => Len(t) = 0
  <2>1. CASE Validated(c)
    <3>1. t = << artifact >>
      BY <2>1
    <3>2. << artifact >> \in Seq(R) /\ Len(<< artifact >>) = 1 /\ << artifact >>[1] = artifact
      OBVIOUS
    <3> HIDE DEF t, R
    <3> QED BY <2>1, <3>1, <3>2
  <2>2. CASE ~Validated(c)
    <3>1. t = <<>>
      BY <2>2
    <3>2. <<>> \in Seq(R) /\ Len(<<>>) = 0
      OBVIOUS
    <3> HIDE DEF t, R
    <3> QED BY <2>2, <3>1, <3>2
  <2> QED BY <2>1, <2>2
<1> HIDE DEF h, s, t, R
<1>4. /\ h \o s \in Seq(R) /\ Len(h \o s) = k + 1
      /\ \A i \in 1..(k + 1) : (h \o s)[i] = IF i <= 1 THEN h[i] ELSE s[i - 1]
  BY <1>2, ConcatProperties
<1> DEFINE u == h \o s
<1>11. u \in Seq(R) /\ Len(u) = k + 1
  BY <1>4
<1> HIDE DEF u
<1> DEFINE q == Len(t)
           m == k + 1
<1>5. /\ Len(u \o t) = m + q
      /\ \A i \in 1..(m + q) : (u \o t)[i] = IF i <= m THEN u[i] ELSE t[i - m]
  <2>1. /\ Len(u \o t) = Len(u) + Len(t)
        /\ \A i \in 1..(Len(u) + Len(t)) :
             (u \o t)[i] = IF i <= Len(u) THEN u[i] ELSE t[i - Len(u)]
    BY <1>3, <1>11, ConcatProperties
  <2>2. Len(u) = m
    BY <1>11
  <2> HIDE DEF m
  <2> QED BY <2>1, <2>2
<1>12. q \in Nat /\ (Validated(c) => q = 1 /\ t[1] = artifact) /\ (~Validated(c) => q = 0)
  BY <1>3
<1> HIDE DEF q
<1>6. k \in Nat
  OBVIOUS
<1> HIDE DEF k
<1>7. u[1] = preflight /\ \A i \in 1..k : u[i + 1] = signature(i)
  <2>1. \A i \in 1..(k + 1) : u[i] = IF i <= 1 THEN h[i] ELSE s[i - 1]
    BY <1>4 DEF u
  <2>2. u[1] = preflight
    BY <1>2, <1>6, <2>1
  <2>3. ASSUME NEW i \in 1..k PROVE u[i + 1] = signature(i)
    <3>1. i + 1 \in 1..(k + 1) /\ ~(i + 1 <= 1) /\ (i + 1) - 1 = i
      BY <1>6
    <3>2. u[i + 1] = s[i]
      BY <2>1, <3>1
    <3> QED BY <1>2, <3>2
  <2> QED BY <2>2, <2>3
<1>8. (u \o t)[1] = preflight /\ \A i \in 1..k : (u \o t)[i + 1] = signature(i)
  <2>1. 1 \in 1..(m + q) /\ 1 <= m
    BY <1>6, <1>12
  <2>2. \A i \in 1..k : i + 1 \in 1..(m + q) /\ i + 1 <= m
    BY <1>6, <1>12
  <2> HIDE DEF m
  <2> QED BY <1>5, <1>7, <2>1, <2>2
<1>9. ASSUME Validated(c) PROVE Len(u \o t) = k + 2 /\ (u \o t)[k + 2] = artifact
  <2>1. q = 1 /\ t[1] = artifact
    BY <1>9, <1>12
  <2>2. k + 2 \in 1..(m + q) /\ ~(k + 2 <= m) /\ (k + 2) - m = 1 /\ m + q = k + 2
    BY <1>6, <2>1
  <2> HIDE DEF m
  <2> QED BY <1>5, <2>1, <2>2
<1>10. ~Validated(c) => Len(u \o t) = k + 1
  BY <1>5, <1>6, <1>12
<1> QED BY <1>1, <1>8, <1>9, <1>10 DEF u, preflight, signature, artifact, k

\* The last record of a verification tells its result.
LEMMA RecordsEnd ==
  ASSUME NEW c \in Calls, slot[c] \in Nat, Len(transcript[c]) \in Nat, StageInv(c)
  PROVE  Last(Records(c)).reason = AuditReasonOf(cause[c])
         /\ Last(Records(c)).passed = (cause[c] = OK)
<1>1. CASE pc[c] \in {"failed", "appending_failure"}
  <2>1. cause[c] = "CONTRACT"
    BY <1>1 DEF StageInv
  <2>2. Records(c) = << AuditRecord("preflight", 0, "CONTRACT") >>
    BY <1>1, Zenon DEF Records
  <2>3. Last(Records(c)) = AuditRecord("preflight", 0, "CONTRACT")
    BY <2>2 DEF Last
  <2> QED BY <2>1, <2>3 DEF AuditRecord
<1>2. CASE pc[c] \notin {"failed", "appending_failure"}
  <2> DEFINE k  == Len(transcript[c])
             rs == Records(c)
  <2>1. /\ rs[1] = AuditRecord("preflight", 0, IF Validated(c) THEN OK ELSE cause[c])
        /\ Validated(c) => Len(rs) = k + 2 /\ rs[k + 2] = AuditRecord("artifact", 0, cause[c])
        /\ ~Validated(c) => Len(rs) = k + 1
    BY <1>2, RecordsShape
  <2>2. ~Validated(c) => k = 0
    BY DEF Validated, StageInv
  <2>3. \E kind \in {"artifact", "preflight"} : rs[Len(rs)] = AuditRecord(kind, 0, cause[c])
    BY <2>1, <2>2
  <2> QED BY <2>3 DEF Last, AuditRecord
<1> QED BY <1>1, <1>2

\* A log to which a batch is appended some times holds what it held, and the batch.
LEMMA LogGrows ==
  ASSUME NEW S, NEW s \in Seq(S), NEW batch, NEW t \in Seq({batch})
  PROVE  /\ s \o t \in Seq(S \cup {batch})
         /\ Range(s \o t) \in {Range(s), Range(s) \cup {batch}}
<1> DEFINE n == Len(t)
           T == S \cup {batch}
<1>1. /\ s \in Seq(T) /\ t \in Seq(T) /\ \A i \in 1..n : t[i] = batch
      /\ n \in Nat /\ Len(s) \in Nat /\ DOMAIN s = 1..Len(s)
  OBVIOUS
<1> HIDE DEF n, T
<1>3. /\ s \o t \in Seq(T)
      /\ Len(s \o t) = Len(s) + n
      /\ \A i \in 1..(Len(s) + n) :
           (s \o t)[i] = IF i <= Len(s) THEN s[i] ELSE t[i - Len(s)]
  BY <1>1, ConcatProperties DEF n
<1>4. DOMAIN (s \o t) = 1..(Len(s) + n)
  BY <1>3
<1>5. \A i \in 1..Len(s) : (s \o t)[i] = s[i] /\ i \in 1..(Len(s) + n)
  BY <1>1, <1>3
<1>6. \A i \in 1..(Len(s) + n) : i \notin 1..Len(s) => (s \o t)[i] = batch
  BY <1>1, <1>3
<1>7. n # 0 => Len(s) + n \in 1..(Len(s) + n) /\ Len(s) + n \notin 1..Len(s)
  BY <1>1
<1>8. n = 0 => 1..(Len(s) + n) = 1..Len(s)
  BY <1>1
<1>9. Range(s \o t) = Range(s) \cup (IF n = 0 THEN {} ELSE {batch})
  BY <1>1, <1>4, <1>5, <1>6, <1>7, <1>8 DEF Range
<1> QED BY <1>3, <1>9 DEF T

\* What an append does to the log.
LEMMA AppendLog ==
  ASSUME NEW S, log \in Seq(S), NEW c \in Calls, AppendBatch(c)
  PROVE  /\ \E T : log' \in Seq(T)
         /\ Range(log') \in {Range(log), Range(log) \cup {Batch(c)}}
<1>1. PICK batch \in {Batch(c)}, stored \in 0..2 :
        IF BatchRefused(batch.records) THEN UNCHANGED log
        ELSE log' = log \o [i \in 1..stored |-> batch]
  BY Zenon DEF AppendBatch
<1>2. CASE BatchRefused(batch.records)
  <2>1. log' = log
    BY <1>1, <1>2
  <2> QED BY <2>1
<1>3. CASE ~BatchRefused(batch.records)
  <2> DEFINE copies == [i \in 1..stored |-> batch]
  <2>1. log' = log \o copies
    BY <1>1, <1>3
  <2>2. copies \in Seq({batch}) /\ batch = Batch(c)
    OBVIOUS
  <2> HIDE DEF copies
  <2>3. /\ log \o copies \in Seq(S \cup {batch})
        /\ Range(log \o copies) \in {Range(log), Range(log) \cup {batch}}
    BY <2>2, LogGrows
  <2> QED BY <2>1, <2>2, <2>3, Zenon
<1> QED BY <1>2, <1>3

(***************************************************************************)
(* Typed is inductive.                                                     *)
(***************************************************************************)

\* A step of the copy keeps the fields of a copy and comes to one of the verdicts.
LEMMA CopyStepTypes ==
  ASSUME NEW copied, NEW json,
         DOMAIN copied = {"path", "nodes", "bytes", "verdict"},
         copied.verdict \in {"copying", "copied", "over_budget"}
  PROVE  /\ DOMAIN CopyStep(copied, json) = {"path", "nodes", "bytes", "verdict"}
         /\ CopyStep(copied, json).verdict \in {"copying", "copied", "over_budget"}
<1>1. ASSUME NEW before, DOMAIN before = {"path", "nodes", "bytes", "verdict"},
             NEW object, NEW key
      PROVE  /\ DOMAIN Take(before, json, object, key) = {"path", "nodes", "bytes", "verdict"}
             /\ Take(before, json, object, key).verdict \in {"copying", "copied", "over_budget"}
  BY <1>1 DEF Take, OverBudget
<1> QED BY <1>1 DEF CopyStep

\* The invariant holds initially.
LEMMA InitTyped == Init => IInv
<1> SUFFICES ASSUME Init PROVE IInv
  OBVIOUS
<1>1. Typed
  <2>1. <<>> \in Seq({})
    OBVIOUS
  <2> QED BY <2>1, SlotsNat, BoundsAssumption, NoNameAssumption
     DEF Init, Typed, TypeOK, Stages, Ends, NoCopy
<1>2. \A c \in Calls : StageInv(c)
  BY DEF Init, StageInv, Returned, OK
<1>3. SeenIsRecorded
  BY DEF Init, SeenIsRecorded
<1> QED BY <1>1, <1>2, <1>3 DEF IInv

\* What a step of a call that has begun may do to the state: it goes on with that
\* call, and neither its inputs nor the host change.
GoesOn(c) ==
  /\ pc[c] # "new" /\ pc'[c] # "new"
  /\ pc' \in [Calls -> Stages \cup Ends \cup {"new"}]
  /\ \A d \in Calls \ {c} : pc'[d] = pc[d]
  /\ slot' \in [Calls -> 0..(Slots + 1)]
  /\ DOMAIN cause' = Calls
  /\ DOMAIN copy' = Calls
  /\ \A d \in Calls : /\ DOMAIN copy'[d] = {"path", "nodes", "bytes", "verdict"}
                      /\ copy'[d].verdict \in {"copying", "copied", "over_budget"}
  /\ DOMAIN transcript' = Calls
  /\ \A d \in Calls : Len(transcript'[d]) \in Nat
  /\ faults' \in 0..MaxFaults
  /\ \E S : log' \in Seq(S)
  /\ UNCHANGED <<hostVars, callVars>>

LEMMA GoesOnTyped ==
  ASSUME Typed, NEW c \in Calls, GoesOn(c)
  PROVE  Typed'
BY DEF Typed, TypeOK, GoesOn, hostVars, callVars

\* A step that changes neither the log nor what an action does not mention.
LEMMA StepGoesOn ==
  ASSUME Typed, NEW c \in Calls, StageInv(c), Step(c)
  PROVE  GoesOn(c)
<1> DEFINE S0 == CHOOSE S : log \in Seq(S)
<1>0. log \in Seq(S0)
  BY Zenon DEF Typed
<1> HIDE DEF S0
<1> USE DEF Typed, TypeOK, GoesOn, Stages, Ends
<1> USE SlotsNat, BoundsAssumption
<1>2. CASE Copy(c)
  <2>1. PICK next : /\ next = CopyStep(copy[c], P(c).json)
                    /\ copy' = [copy EXCEPT ![c] = next]
                    /\ pc' = pc \/ \E stage \in Stages : pc' = [pc EXCEPT ![c] = stage]
                    /\ cause' = cause \/ cause' = [cause EXCEPT ![c] = "CONTRACT"]
    BY <1>2 DEF Copy
  <2>2. /\ DOMAIN copy[c] = {"path", "nodes", "bytes", "verdict"}
        /\ copy[c].verdict \in {"copying", "copied", "over_budget"}
    OBVIOUS
  <2>3. /\ DOMAIN next = {"path", "nodes", "bytes", "verdict"}
        /\ next.verdict \in {"copying", "copied", "over_budget"}
    <3>1. /\ DOMAIN CopyStep(copy[c], P(c).json) = {"path", "nodes", "bytes", "verdict"}
          /\ CopyStep(copy[c], P(c).json).verdict \in {"copying", "copied", "over_budget"}
      BY <2>2, CopyStepTypes
    <3> QED BY <2>1, <3>1, Zenon
  <2>4. /\ pc[c] = "copying"
        /\ UNCHANGED <<hostVars, callVars, log, faults, slot, transcript>>
    BY <1>2 DEF Copy
  <2>5. /\ DOMAIN copy' = Calls
        /\ \A d \in Calls : /\ DOMAIN copy'[d] = {"path", "nodes", "bytes", "verdict"}
                            /\ copy'[d].verdict \in {"copying", "copied", "over_budget"}
    BY <2>1, <2>3
  <2>6. /\ pc'[c] # "new"
        /\ pc' \in [Calls -> Stages \cup Ends \cup {"new"}]
        /\ \A d \in Calls \ {c} : pc'[d] = pc[d]
    <3>1. PICK stage \in Stages : pc' = [pc EXCEPT ![c] = stage]
      <4>1. CASE pc' = pc
        <5>1. pc' = [pc EXCEPT ![c] = "copying"]
          BY <2>4, <4>1
        <5> QED BY <5>1
      <4> QED BY <2>1, <4>1
    <3> QED BY <3>1
  <2>7. DOMAIN cause' = Calls
    BY <2>1
  <2> QED BY <1>0, <2>4, <2>5, <2>6, <2>7
<1>3. CASE Preflight(c)
  BY <1>0, <1>3 DEF Preflight
<1>1. pc[c] = "waves" => slot[c] + 1 \in 0..(Slots + 1)
  BY DEF StageInv
<1>4. CASE SkipSlot(c)
  <2>1. slot' \in [Calls -> 0..(Slots + 1)]
    BY <1>1, <1>4 DEF SkipSlot, Advance
  <2>2. /\ pc[c] = "waves"
        /\ pc' = [pc EXCEPT ![c] = IF slot[c] = Slots THEN "decided" ELSE "waves"]
        /\ UNCHANGED <<hostVars, log, faults, callVars, copy, cause, transcript>>
    BY <1>4 DEF SkipSlot, Advance
  <2> QED BY <1>0, <2>1, <2>2
<1>5. CASE Callback(c)
  <2>1. PICK spent, rejection, answer :
          /\ cause' = [cause EXCEPT ![c] = rejection]
          /\ transcript' = [transcript EXCEPT ![c] = IF spent THEN @ ELSE
                               Append(@, [slot |-> slot[c], rejection |-> rejection])]
          /\ faults' = IF answer \in {"true", "false"} THEN faults ELSE faults + 1
          /\ IF rejection = OK THEN Advance(c)
             ELSE /\ pc' = [pc EXCEPT ![c] = "decided"]
                  /\ UNCHANGED slot
          /\ answer \notin {"true", "false"} => faults < MaxFaults
    BY <1>5 DEF Callback, Answers
  <2>2. pc[c] = "waves" /\ UNCHANGED <<hostVars, log, callVars, copy>>
    BY <1>5 DEF Callback
  <2>3. /\ pc'[c] # "new"
        /\ pc' \in [Calls -> Stages \cup Ends \cup {"new"}]
        /\ \A d \in Calls \ {c} : pc'[d] = pc[d]
    BY <2>1 DEF Advance
  <2>4. slot' \in [Calls -> 0..(Slots + 1)]
    BY <1>1, <2>1, <2>2 DEF Advance
  <2>5. faults' \in 0..MaxFaults
    BY <2>1
  <2>6. DOMAIN transcript' = Calls /\ \A d \in Calls : Len(transcript'[d]) \in Nat
    BY <2>1
  <2>7. DOMAIN cause' = Calls
    BY <2>1
  <2> QED BY <1>0, <2>2, <2>3, <2>4, <2>5, <2>6, <2>7
<1>6. CASE AppendBatch(c)
  <2>1. /\ pc[c] # "new"
        /\ \E stage \in Stages \cup Ends : pc' = [pc EXCEPT ![c] = stage]
        /\ faults' \in 0..MaxFaults
        /\ UNCHANGED <<hostVars, callVars, copy, cause, slot, transcript>>
    BY <1>6 DEF AppendBatch
  <2>2. \E S : log' \in Seq(S)
    BY <1>0, <1>6, AppendLog, Zenon
  <2> QED BY <2>1, <2>2
<1>7. CASE Acknowledge(c)
  <2>1. PICK batch, ack :
          IF Acknowledges(ack, batch)
          THEN /\ pc' = [pc EXCEPT ![c] = IF @ = "appending" THEN "returned"
                                         ELSE "audited_error"]
               /\ UNCHANGED faults
          ELSE /\ batch \in Range(log) => faults < MaxFaults
               /\ pc' = [pc EXCEPT ![c] = "sink_error"]
               /\ faults' = IF batch \in Range(log) THEN faults + 1 ELSE faults
    BY <1>7, Zenon DEF Acknowledge
  <2>2. \E stage \in Ends : pc' = [pc EXCEPT ![c] = stage]
    BY <2>1
  <2>3. faults' \in 0..MaxFaults
    BY <2>1
  <2>4. /\ pc[c] # "new"
        /\ UNCHANGED <<hostVars, log, callVars, copy, cause, slot, transcript>>
    BY <1>7 DEF Acknowledge
  <2> QED BY <1>0, <2>2, <2>3, <2>4
<1>8. CASE Return(c)
  BY <1>0, <1>8 DEF Return
<1> QED BY <1>2, <1>3, <1>4, <1>5, <1>6, <1>7, <1>8 DEF Step

\* What is submitted of a call that has begun is something the contract can read.
LEMMA SubmissionIsDecoded ==
  ASSUME Typed, NEW c \in Calls, pc[c] # "new"
  PROVE  name[c] \in Names /\ Decoded(P(c))
<1>1. name[c] \in Names
  BY DEF Typed, TypeOK
<1> QED BY <1>1, SubmissionAssumption DEF P

\* Every step keeps the types.
LEMMA TypedNext ==
  ASSUME IInv, [Next]_vars
  PROVE  Typed'
<1>1. Typed /\ \A c \in Calls : StageInv(c)
  BY DEF IInv
<1>2. ASSUME NEW c \in Calls, NEW n \in Names, Submit(c, n) PROVE Typed'
  BY <1>1, <1>2, NoNameAssumption, BoundsAssumption
     DEF Submit, Typed, TypeOK, Stages, Ends, hostVars
<1>3. ASSUME NEW c \in Calls, Step(c) PROVE Typed'
  BY <1>1, <1>3, StepGoesOn, GoesOnTyped
<1>4. ASSUME NEW c \in Calls, RecordResult(c) PROVE Typed'
  <2>1. /\ pc[c] = "returned"
        /\ pc' = [pc EXCEPT ![c] = "recorded"]
        /\ seen' = seen \cup {P(c).receipt.request_id}
        /\ floor' = IF P(c).receipt.registry_version > floor
                    THEN P(c).receipt.registry_version ELSE floor
        /\ UNCHANGED <<clock, crashes, log, faults, callVars, copy, cause, slot, transcript>>
    BY <1>4 DEF RecordResult
  <2>2. P(c).receipt.registry_version \in Int
    BY <1>1, <2>1, SubmissionIsDecoded DEF Decoded
  <2>3. floor' \in Nat
    BY <1>1, <2>1, <2>2 DEF Typed, TypeOK
  <2>4. seen \subseteq seen'
    BY <2>1
  <2>5. pc' \in [Calls -> Stages \cup Ends \cup {"new"}]
        /\ \A d \in Calls : pc'[d] = "new" <=> pc[d] = "new"
    BY <1>1, <2>1 DEF Typed, TypeOK, Stages, Ends
  <2>6. seen_before \in [Calls -> SUBSET seen']
    BY <1>1, <2>4 DEF Typed
  <2> QED BY <1>1, <2>1, <2>3, <2>4, <2>5, <2>6 DEF Typed, TypeOK, callVars
<1>5. CASE Crash
  <2>1. pc' \in [Calls -> Stages \cup Ends \cup {"new"}]
        /\ \A d \in Calls : pc'[d] = "new" <=> pc[d] = "new"
    BY <1>1, <1>5 DEF Crash, Typed, TypeOK, Stages, Ends
  <2>2. crashes' \in 0..MaxCrashes
    BY <1>1, <1>5, BoundsAssumption DEF Crash, Typed, TypeOK
  <2> QED BY <1>1, <1>5, <2>1, <2>2 DEF Crash, Typed, TypeOK, callVars
<1>6. CASE Tick
  BY <1>1, <1>6, BoundsAssumption DEF Tick, Typed, TypeOK, callVars
<1>7. CASE UNCHANGED vars
  BY <1>1, <1>7 DEF vars, hostVars, callVars, Typed, TypeOK
<1> QED BY <1>2, <1>3, <1>4, <1>5, <1>6, <1>7 DEF Next

(***************************************************************************)
(* What holds at each stage goes on to hold.                               *)
(***************************************************************************)

\* The record of d is not touched.
RecordKept(d) ==
  /\ slot'[d] = slot[d] /\ cause'[d] = cause[d] /\ transcript'[d] = transcript[d]
  /\ name'[d] = name[d] /\ now'[d] = now[d] /\ minimum'[d] = minimum[d]
  /\ seen_before'[d] = seen_before[d]

\* A batch is the same as long as its call's record is, whichever stage the call
\* goes to, unless it fails.
LEMMA BatchKept ==
  ASSUME NEW d \in Calls, RecordKept(d),
         pc'[d] \in {"failed", "appending_failure"} <=> pc[d] \in {"failed", "appending_failure"}
  PROVE  P(d)' = P(d) /\ Batch(d)' = Batch(d)
<1>1. P(d)' = P(d)
  BY DEF RecordKept, P
<1>2. Validated(d)' = Validated(d)
  BY DEF RecordKept, Validated
<1>3. Records(d)' = Records(d)
  BY <1>2, Zenon DEF RecordKept, Records, AuditRecord
<1> QED BY <1>1, <1>3 DEF RecordKept, Batch

\* A call that stays where it is keeps its invariant, and so does one that is lost.
LEMMA StageKept ==
  ASSUME NEW d \in Calls, StageInv(d), RecordKept(d), Range(log) \subseteq Range(log'),
         pc'[d] \in {pc[d], "lost"}
  PROVE  StageInv(d)'
<1>1. P(d)' = P(d)
  BY DEF RecordKept, P
<1>2. slot'[d] # 0 => Admitted(d)'
  BY <1>1 DEF StageInv, RecordKept, Admitted
<1>3. CASE pc'[d] = pc[d]
  <2>1. Batch(d)' = Batch(d)
    BY <1>3, BatchKept
  <2> QED BY <1>1, <1>2, <1>3, <2>1 DEF StageInv, RecordKept, Returned
<1>4. CASE pc'[d] = "lost"
  BY <1>2, <1>4 DEF StageInv, RecordKept, Returned
<1> QED BY <1>3, <1>4

\* The other calls, and the log, during a step of c.
LEMMA OthersKept ==
  ASSUME Typed, NEW c \in Calls,
         Step(c) \/ RecordResult(c) \/ \E n \in Names : Submit(c, n)
  PROVE  /\ \A d \in Calls \ {c} : RecordKept(d) /\ pc'[d] = pc[d]
         /\ Range(log) \subseteq Range(log')
<1> USE DEF Typed, TypeOK, RecordKept, callVars
<1>1. CASE Copy(c)
  BY <1>1 DEF Copy
<1>2. CASE Preflight(c)
  BY <1>2 DEF Preflight
<1>3. CASE SkipSlot(c)
  BY <1>3 DEF SkipSlot, Advance
<1>4. CASE Callback(c)
  BY <1>4 DEF Callback, Advance
<1>5. CASE AppendBatch(c)
  <2>1. Range(log) \subseteq Range(log')
    <3>1. PICK S : log \in Seq(S)
      BY Zenon
    <3>2. Range(log') \in {Range(log), Range(log) \cup {Batch(c)}}
      BY <1>5, <3>1, AppendLog, Zenon
    <3> QED BY <3>2
  <2>2. /\ \A d \in Calls \ {c} : pc'[d] = pc[d]
        /\ UNCHANGED <<callVars, cause, slot, transcript>>
    BY <1>5 DEF AppendBatch
  <2> QED BY <2>1, <2>2
<1>6. CASE Acknowledge(c)
  <2>1. /\ \A d \in Calls \ {c} : pc'[d] = pc[d]
        /\ UNCHANGED <<log, callVars, cause, slot, transcript>>
    BY <1>6 DEF Acknowledge
  <2> QED BY <2>1
<1>7. CASE Return(c)
  BY <1>7 DEF Return
<1>8. CASE RecordResult(c)
  BY <1>8 DEF RecordResult
<1>9. CASE \E n \in Names : Submit(c, n)
  BY <1>9 DEF Submit
<1> QED BY <1>1, <1>2, <1>3, <1>4, <1>5, <1>6, <1>7, <1>8, <1>9 DEF Step

\* The next signature of a receipt that was admitted.
LEMMA StageAdvances ==
  ASSUME Typed, NEW c \in Calls, StageInv(c), pc[c] = "waves", Advance(c), UNCHANGED callVars
  PROVE  StageInv(c)'
<1>1. slot[c] \in 1..Slots /\ Admitted(c)
  BY DEF StageInv
<1>2. /\ slot'[c] = slot[c] + 1
      /\ pc'[c] = IF slot[c] = Slots THEN "decided" ELSE "waves"
  BY DEF Advance, Typed, TypeOK
<1>3. Admitted(c)'
  BY <1>1 DEF Admitted, P, callVars
<1> QED BY <1>1, <1>2, <1>3, SlotsNat DEF StageInv, Returned

\* The call that makes the step.
LEMMA StepStage ==
  ASSUME Typed, NEW c \in Calls, StageInv(c), Typed',
         Step(c) \/ RecordResult(c) \/ \E n \in Names : Submit(c, n)
  PROVE  StageInv(c)'
<1> USE DEF Typed, TypeOK
<1>1. CASE Copy(c)
  <2>1. /\ pc[c] = "copying" /\ (RecordKept(c) \/ cause'[c] = "CONTRACT")
        /\ slot'[c] = slot[c] /\ transcript'[c] = transcript[c] /\ P(c)' = P(c)
        /\ slot[c] = 0
        /\ \/ pc'[c] \in {"copying", "preflight"}
           \/ pc'[c] = "failed" /\ P(c).audited /\ cause'[c] = "CONTRACT"
           \/ pc'[c] = "decided" /\ cause'[c] = "CONTRACT"
    BY <1>1 DEF Copy, StageInv, RecordKept, callVars, P
  <2> QED BY <2>1 DEF StageInv, OK, Returned
<1>2. CASE Preflight(c)
  <2>1. PICK rejection \in {PreflightRejection(P(c), now[c], minimum[c], seen)} :
          /\ pc' = [pc EXCEPT ![c] = IF rejection = OK THEN "waves" ELSE "decided"]
          /\ slot' = [slot EXCEPT ![c] = IF rejection = OK THEN 1 ELSE 0]
          /\ cause' = [cause EXCEPT ![c] = rejection]
    BY <1>2, Zenon DEF Preflight
  <2>2. /\ pc[c] = "preflight" /\ slot[c] = 0 /\ Len(transcript[c]) = 0
        /\ UNCHANGED <<callVars, transcript>>
        /\ P(c)' = P(c)
    BY <1>2 DEF Preflight, StageInv, P, callVars
  <2>3. CASE rejection = OK
    <3>1. Decoded(P(c))
      BY <2>2, SubmissionIsDecoded
    <3>2. minimum[c] \in Nat /\ seen_before[c] \subseteq seen
      OBVIOUS
    <3>3. PreflightRejection(P(c), now[c], minimum[c], seen) = OK
      BY <2>3
    <3>4. /\ P(c).receipt.request_id = P(c).request_id
          /\ P(c).receipt.request_id \notin seen
          /\ P(c).registry.version >= minimum[c]
      BY <3>1, <3>2, <3>3, PreflightAdmits, Zenon
    <3>5. Admitted(c)'
      BY <2>2, <3>2, <3>4 DEF Admitted, callVars
    <3>6. pc'[c] = "waves" /\ slot'[c] = 1
      BY <2>1, <2>3
    <3> QED BY <3>5, <3>6, SlotsNat DEF StageInv, Returned
  <2>4. CASE rejection # OK
    <3>1. pc'[c] = "decided" /\ slot'[c] = 0 /\ cause'[c] # OK
      BY <2>1, <2>4
    <3> QED BY <2>2, <3>1 DEF StageInv, Returned
  <2> QED BY <2>3, <2>4
<1>3. CASE SkipSlot(c)
  <2>1. pc[c] = "waves" /\ Advance(c) /\ UNCHANGED callVars
    BY <1>3 DEF SkipSlot
  <2> QED BY <2>1, StageAdvances
<1>4. CASE Callback(c)
  <2>1. pc[c] = "waves" /\ UNCHANGED callVars
    BY <1>4 DEF Callback
  <2>2. CASE Advance(c)
    BY <2>1, <2>2, StageAdvances
  <2>3. CASE pc'[c] = "decided" /\ slot'[c] = slot[c]
    <3>1. slot[c] # 0 /\ Admitted(c)
      BY <2>1 DEF StageInv
    <3>2. Admitted(c)'
      BY <2>1, <3>1 DEF Admitted, P, callVars
    <3> QED BY <2>3, <3>1, <3>2 DEF StageInv, Returned
  <2>4. Advance(c) \/ (pc'[c] = "decided" /\ slot'[c] = slot[c])
    BY <1>4 DEF Callback
  <2> QED BY <2>2, <2>3, <2>4
<1>5. CASE AppendBatch(c)
  <2>1. /\ pc[c] \in {"decided", "failed"} /\ P(c).audited
        /\ pc'[c] \in {"sink_error",
                       IF pc[c] = "failed" THEN "appending_failure" ELSE "appending"}
        /\ UNCHANGED <<callVars, cause, slot, transcript>>
    BY <1>5 DEF AppendBatch
  <2>2. P(c)' = P(c) /\ (slot[c] # 0 => Admitted(c)')
    BY <2>1 DEF StageInv, Admitted, P, callVars
  <2> QED BY <2>1, <2>2 DEF StageInv, Returned
<1>6. CASE Acknowledge(c)
  <2>1. PICK batch \in {Batch(c)} : \E ack \in Acknowledgements(batch) :
          IF Acknowledges(ack, batch)
          THEN pc' = [pc EXCEPT ![c] = IF @ = "appending" THEN "returned"
                                       ELSE "audited_error"]
          ELSE pc' = [pc EXCEPT ![c] = "sink_error"]
    BY <1>6, Zenon DEF Acknowledge
  <2> PICK ack \in Acknowledgements(batch) :
          IF Acknowledges(ack, batch)
          THEN pc' = [pc EXCEPT ![c] = IF @ = "appending" THEN "returned"
                                       ELSE "audited_error"]
          ELSE pc' = [pc EXCEPT ![c] = "sink_error"]
    BY <2>1, Zenon
  <2>2. /\ pc[c] \in {"appending", "appending_failure"}
        /\ UNCHANGED <<log, callVars, cause, slot, transcript>>
    BY <1>6 DEF Acknowledge
  <2>3. RecordKept(c)
    BY <2>2 DEF RecordKept, callVars
  <2>4. P(c)' = P(c) /\ (slot[c] # 0 => Admitted(c)')
    BY <2>2 DEF StageInv, Admitted, P, callVars
  <2>5. CASE Acknowledges(ack, batch) /\ pc[c] = "appending"
    <3>1. Batch(c) \in Range(log)
      BY <2>5 DEF Acknowledges, Acknowledgements
    <3>2. pc'[c] = "returned"
      BY <2>5
    <3>3. Batch(c)' = Batch(c)
      BY <2>3, <2>5, <3>2, BatchKept
    <3> QED BY <2>2, <2>4, <2>5, <3>1, <3>2, <3>3 DEF StageInv, Returned
  <2>6. CASE ~(Acknowledges(ack, batch) /\ pc[c] = "appending")
    <3>1. pc'[c] \in {"sink_error", "audited_error"}
      BY <2>2, <2>6
    <3> QED BY <2>2, <2>4, <3>1 DEF StageInv, Returned
  <2> QED BY <2>5, <2>6
<1>7. CASE Return(c)
  <2>1. /\ pc[c] = "decided" /\ pc'[c] = "returned" /\ ~P(c).audited
        /\ UNCHANGED <<callVars, cause, slot, transcript>>
    BY <1>7 DEF Return
  <2>2. P(c)' = P(c) /\ (slot[c] # 0 => Admitted(c)')
    BY <2>1 DEF StageInv, Admitted, P, callVars
  <2> QED BY <2>1, <2>2 DEF StageInv, Returned
<1>8. CASE RecordResult(c)
  <2>1. /\ pc[c] = "returned" /\ pc'[c] = "recorded"
        /\ UNCHANGED <<log, callVars, cause, slot, transcript>>
    BY <1>8 DEF RecordResult
  <2>2. RecordKept(c)
    BY <2>1 DEF RecordKept, callVars
  <2>3. P(c)' = P(c) /\ Batch(c)' = Batch(c)
    BY <2>1, <2>2, BatchKept
  <2>4. slot[c] # 0 => Admitted(c)'
    BY <2>1, <2>3 DEF StageInv, Admitted, callVars
  <2> QED BY <2>1, <2>3, <2>4 DEF StageInv, Returned
<1>9. CASE \E n \in Names : Submit(c, n)
  <2>1. /\ slot[c] = 0 /\ Len(transcript[c]) = 0
        /\ slot' = slot /\ transcript' = transcript
        /\ \/ pc'[c] \in {"refused", "copying"}
           \/ pc'[c] = "decided" /\ cause'[c] # OK
    BY <1>9 DEF Submit, StageInv
  <2> QED BY <2>1 DEF StageInv, Returned
<1> QED BY <1>1, <1>2, <1>3, <1>4, <1>5, <1>6, <1>7, <1>8, <1>9 DEF Step

\* No step but the crash touches calls other than its own, and the crash leaves
\* recorded results alone; what is in the log stays there.
LEMMA RecordedKept ==
  ASSUME Typed, [Next]_vars
  PROVE  /\ \A d \in Calls : pc[d] = "recorded" => pc'[d] = "recorded" /\ P(d)' = P(d)
         /\ Range(log) \subseteq Range(log')
<1>1. ASSUME NEW c \in Calls,
             Step(c) \/ RecordResult(c) \/ \E n \in Names : Submit(c, n)
      PROVE  /\ \A d \in Calls : pc[d] = "recorded" => pc'[d] = "recorded" /\ P(d)' = P(d)
             /\ Range(log) \subseteq Range(log')
  <2>1. pc[c] # "recorded"
    BY <1>1 DEF Step, Copy, Preflight, SkipSlot, Callback, AppendBatch, Acknowledge,
                Return, RecordResult, Submit
  <2>2. /\ \A d \in Calls \ {c} : RecordKept(d) /\ pc'[d] = pc[d]
        /\ Range(log) \subseteq Range(log')
    BY <1>1, OthersKept
  <2> QED BY <2>1, <2>2 DEF RecordKept, P
<1>2. CASE Crash
  BY <1>2 DEF Crash, callVars, P, Stages, Typed, TypeOK
<1>3. CASE Tick
  BY <1>3 DEF Tick, callVars, P
<1>4. CASE UNCHANGED vars
  BY <1>4 DEF vars, callVars, P
<1> QED BY <1>1, <1>2, <1>3, <1>4 DEF Next

\* The log holds the verified batch of a result that is being recorded.
LEMMA ResultIsRecorded ==
  ASSUME Typed, NEW c \in Calls, StageInv(c), Returned(c), cause[c] = OK
  PROVE  P(c).audited => \E b \in Range(log) :
           b.request_id = P(c).receipt.request_id /\ Last(b.records).passed
<1> SUFFICES ASSUME P(c).audited
             PROVE  \E b \in Range(log) :
                      b.request_id = P(c).receipt.request_id /\ Last(b.records).passed
  OBVIOUS
<1>1. Batch(c) \in Range(log)
  BY DEF StageInv
<1>2. slot[c] # 0 /\ P(c).receipt.request_id = P(c).request_id
  BY DEF StageInv, Admitted, Returned
<1>3. slot[c] \in Nat /\ Len(transcript[c]) \in Nat
  BY SlotsNat DEF Typed, TypeOK
<1>4. Last(Records(c)).passed
  BY <1>3, RecordsEnd
<1>5. Batch(c).request_id = P(c).request_id /\ Batch(c).records = Records(c)
  BY DEF Batch
<1> QED BY <1>1, <1>2, <1>4, <1>5

LEMMA SeenNext ==
  ASSUME IInv, [Next]_vars
  PROVE  SeenIsRecorded'
<1>1. Typed /\ (\A c \in Calls : StageInv(c)) /\ SeenIsRecorded
  BY DEF IInv
<1>2. ASSUME NEW id \in seen
      PROVE  \E c \in Calls :
               /\ pc'[c] = "recorded" /\ P(c)'.receipt.request_id = id
               /\ P(c)'.audited => \E b \in Range(log') :
                                     b.request_id = id /\ Last(b.records).passed
  <2>1. PICK c \in Calls :
          /\ pc[c] = "recorded" /\ P(c).receipt.request_id = id
          /\ P(c).audited => \E b \in Range(log) :
                               b.request_id = id /\ Last(b.records).passed
    BY <1>1 DEF SeenIsRecorded
  <2>2. pc'[c] = "recorded" /\ P(c)' = P(c) /\ Range(log) \subseteq Range(log')
    BY <1>1, <2>1, RecordedKept
  <2> QED BY <2>1, <2>2
<1>3. ASSUME NEW c \in Calls, RecordResult(c)
      PROVE  /\ seen' = seen \cup {P(c).receipt.request_id}
             /\ pc'[c] = "recorded" /\ P(c)' = P(c)
             /\ P(c).audited => \E b \in Range(log') :
                   b.request_id = P(c).receipt.request_id /\ Last(b.records).passed
  <2>1. /\ pc[c] = "returned" /\ cause[c] = OK /\ pc'[c] = "recorded"
        /\ seen' = seen \cup {P(c).receipt.request_id}
        /\ log' = log /\ UNCHANGED callVars
    BY <1>1, <1>3 DEF RecordResult, Typed, TypeOK
  <2>2. P(c).audited => \E b \in Range(log) :
                   b.request_id = P(c).receipt.request_id /\ Last(b.records).passed
    BY <1>1, <2>1, ResultIsRecorded DEF Returned
  <2> QED BY <2>1, <2>2 DEF P, callVars
<1>4. seen' = seen \/ \E c \in Calls : RecordResult(c)
  <2>1. ASSUME NEW c \in Calls, Step(c) \/ \E n \in Names : Submit(c, n) PROVE seen' = seen
    BY <2>1 DEF Step, Copy, Preflight, SkipSlot, Callback, AppendBatch, Acknowledge,
                Return, Submit, hostVars
  <2> QED BY <2>1 DEF Next, Crash, Tick, vars, hostVars
<1>5. CASE seen' = seen
  BY <1>2, <1>5 DEF SeenIsRecorded
<1>6. ASSUME NEW c \in Calls, RecordResult(c) PROVE SeenIsRecorded'
  BY <1>2, <1>3, <1>6 DEF SeenIsRecorded
<1> QED BY <1>4, <1>5, <1>6

LEMMA StageNext ==
  ASSUME IInv, [Next]_vars
  PROVE  \A d \in Calls : StageInv(d)'
<1>1. Typed /\ (\A c \in Calls : StageInv(c)) /\ Typed'
  BY TypedNext DEF IInv
<1>2. ASSUME NEW c \in Calls, NEW d \in Calls,
             Step(c) \/ RecordResult(c) \/ \E n \in Names : Submit(c, n)
      PROVE  StageInv(d)'
  <2>1. CASE d = c
    BY <1>1, <1>2, <2>1, StepStage
  <2>2. CASE d # c
    BY <1>1, <1>2, <2>2, OthersKept, StageKept
  <2> QED BY <2>1, <2>2
<1>3. ASSUME NEW d \in Calls, Crash \/ Tick \/ UNCHANGED vars PROVE StageInv(d)'
  <2>1. RecordKept(d) /\ log' = log /\ pc'[d] \in {pc[d], "lost"}
    BY <1>3 DEF Crash, Tick, vars, callVars, RecordKept
  <2> QED BY <1>1, <2>1, StageKept
<1> QED BY <1>2, <1>3 DEF Next

\* The invariant is inductive.
LEMMA Inductive == Spec => []IInv
<1>1. IInv /\ [Next]_vars => IInv'
  BY TypedNext, StageNext, SeenNext DEF IInv
<1> QED BY InitTyped, <1>1, PTL DEF Spec

(***************************************************************************)
(* What a host may rely on.                                                *)
(***************************************************************************)

\* Every variable keeps its type (shield_v4_verification_audit.py:554-644).
THEOREM TypeCorrect == Spec => []TypeOK
<1>1. IInv => TypeOK
  BY DEF IInv, Typed
<1> QED BY <1>1, Inductive, PTL

\* Neither a recorded request id nor an older registry is accepted by a
\* verification that begins after the record (verifier lines 1281-1317).
THEOREM RecordedStaysRefused == Spec => []NothingRecordedIsAcceptedAgain
<1>1. IInv => NothingRecordedIsAcceptedAgain
  <2> SUFFICES ASSUME IInv, NEW c \in Calls, Verified(c)
               PROVE  /\ P(c).receipt.request_id \notin seen_before[c]
                      /\ P(c).registry.version >= minimum[c]
    BY DEF NothingRecordedIsAcceptedAgain
  <2>1. slot[c] # 0
    BY SlotsNat DEF Verified
  <2> QED BY <2>1 DEF IInv, StageInv, Admitted
<1> QED BY <1>1, Inductive, PTL

\* What a host counts as seen has its verified batch in the log, whatever the sink
\* loses and whenever the process dies (audit lines 525-551).
THEOREM SeenStaysRecorded == Spec => []SeenIsRecorded
<1>1. IInv => SeenIsRecorded
  BY DEF IInv
<1> QED BY <1>1, Inductive, PTL

(***************************************************************************)
(* What is known of the callbacks.                                         *)
(***************************************************************************)

\* The preflight that let a call through to its callbacks.
Accepted(c) ==
  \E ids \in SUBSET seen : PreflightRejection(P(c), now[c], minimum[c], ids) = OK

Observations ==
  Seq([slot : 1..Slots, rejection : {OK, "SIGNATURE_INVALID", "BACKEND_FAILURE"}])

\* Callbacks are observed slot by slot, and nothing but callbacks.
InOrder(observations) ==
  \A i, j \in 1..Len(observations) : i < j => observations[i].slot < observations[j].slot

SlotsOf(observations) == {observations[i].slot : i \in 1..Len(observations)}

AllOK(observations, n) == \A i \in 1..n : observations[i].rejection = OK

\* Every signature before the slot was asked for and is genuine.
Going(c) ==
  /\ cause[c] = OK
  /\ AllOK(transcript[c], Len(transcript[c]))
  /\ SlotsOf(transcript[c]) = SignedSlots(P(c).receipt) \cap 1..(slot[c] - 1)

\* The last one that was asked for is not, or the backend did not say.
Stopped(c) ==
  LET n == Len(transcript[c])
  IN  /\ n > 0 /\ transcript[c][n].rejection = cause[c] /\ slot[c] <= Slots
      /\ cause[c] \in {"SIGNATURE_INVALID", "BACKEND_FAILURE"}
      /\ AllOK(transcript[c], n - 1)
      /\ cause[c] = "SIGNATURE_INVALID" =>
           \E e \in Matching(P(c).receipt, transcript[c][n].slot) : e.signature # "genuine"
      /\ cause[c] = "BACKEND_FAILURE" => faults > 0

\* Whatever is reported of a preflight has its reason in what was submitted, or in
\* what the host had seen.
Explained(c) == \E ids \in SUBSET seen : cause[c] \in Grounds(P(c), now[c], ids)

\* What holds of the callbacks of a call.
AskedInv(c) ==
  /\ transcript[c] \in Observations /\ InOrder(transcript[c])
  /\ slot[c] # 0 => Accepted(c) /\ (Going(c) \/ Stopped(c))
  /\ pc[c] = "waves" => Going(c)
  /\ cause[c] = OK /\ slot[c] # 0 /\ pc[c] # "lost" => pc[c] = "waves" \/ Verified(c)
  /\ slot[c] = 0 /\ pc[c] # "new" => Explained(c)
  /\ pc[c] \notin {"new", "refused", "lost"} => ~AuditRefuses(P(c))

(***************************************************************************)
(* The budget of callbacks is never spent.                                 *)
(***************************************************************************)

\* A slot stands for one algorithm and one signer, and no other slot for both.
LEMMA SlotPlaces ==
  /\ \A k \in 1..Slots : SlotArtifact(k) \in Range(ArtifactIds)
  /\ \A k \in 1..Slots : SlotAlgorithm(k) \in Range(AllowedAlgorithms)
  /\ \A j, k \in 1..Slots :
       SlotAlgorithm(j) = SlotAlgorithm(k) /\ SlotArtifact(j) = SlotArtifact(k) => j = k
<1> DEFINE m == Len(ArtifactIds)
           place(k) == ((k - 1) % m) + 1
           wave(k) == ((k - 1) \div m) + 1
<1>1. m \in Nat /\ m > 0 /\ DOMAIN ArtifactIds = 1..m
  BY Signers
<1>2. Len(AllowedAlgorithms) = 3 /\ DOMAIN AllowedAlgorithms = 1..3
  BY DEF AllowedAlgorithms
<1>3. Slots = 3 * m
  BY <1>2, Zenon DEF Slots
<1>4. /\ \A j, k \in 1..3 : AllowedAlgorithms[j] = AllowedAlgorithms[k] => j = k
      /\ \A j, k \in 1..m : ArtifactIds[j] = ArtifactIds[k] => j = k
  <2>1. \A j, k \in 1..m : ArtifactIds[j] = ArtifactIds[k] => j = k
    BY <1>1, SignersAssumption DEF IsInjective
  <2>2. \A j, k \in 1..3 : AllowedAlgorithms[j] = AllowedAlgorithms[k] => j = k
    <3>1. \A k \in 1..3 : k = 1 \/ k = 2 \/ k = 3
      OBVIOUS
    <3> QED BY <3>1 DEF AllowedAlgorithms
  <2> QED BY <2>1, <2>2
<1>5. \A k \in 1..Slots : /\ SlotArtifact(k) = ArtifactIds[place(k)]
                          /\ SlotAlgorithm(k) = AllowedAlgorithms[wave(k)]
  BY DEF SlotArtifact, SlotAlgorithm
<1> HIDE DEF m
<1>6. ASSUME NEW k \in 1..Slots PROVE place(k) \in 1..m /\ wave(k) \in 1..3
  <2> DEFINE a == k - 1
  <2>1. a \in Nat /\ a < 3 * m
    BY <1>1, <1>3
  <2> HIDE DEF a
  <2>2. a \div m \in Nat /\ a % m \in 0..(m - 1)
    BY <1>1, <2>1
  <2>3. a \div m < 3
    BY <1>1, <2>1
  <2> QED BY <1>1, <2>2, <2>3 DEF a
<1>7. ASSUME NEW j \in 1..Slots, NEW k \in 1..Slots, place(j) = place(k), wave(j) = wave(k)
      PROVE  j = k
  <2> DEFINE a == j - 1
             b == k - 1
  <2>1. a \in Nat /\ b \in Nat
    BY <1>1, <1>3
  <2>2. (a \div m) + 1 = (b \div m) + 1 /\ (a % m) + 1 = (b % m) + 1
    BY <1>7
  <2>6. a = b => j = k
    BY <2>1, <1>3, <1>1
  <2> HIDE DEF a, b
  <2>3. a \div m \in Nat /\ a % m \in Nat /\ b \div m \in Nat /\ b % m \in Nat
    BY <1>1, <2>1
  <2>4. a \div m = b \div m /\ a % m = b % m
    BY <2>2, <2>3
  <2>5. a = b
    BY <1>1, <2>1, <2>4
  <2> QED BY <2>5, <2>6
<1> HIDE DEF place, wave
<1>8. ASSUME NEW k \in 1..Slots
      PROVE  /\ SlotArtifact(k) \in Range(ArtifactIds)
             /\ SlotAlgorithm(k) \in Range(AllowedAlgorithms)
  <2>1. place(k) \in DOMAIN ArtifactIds /\ wave(k) \in DOMAIN AllowedAlgorithms
    BY <1>1, <1>2, <1>6
  <2> QED BY <1>5, <2>1 DEF Range
<1>9. ASSUME NEW j \in 1..Slots, NEW k \in 1..Slots,
             SlotAlgorithm(j) = SlotAlgorithm(k), SlotArtifact(j) = SlotArtifact(k)
      PROVE  j = k
  <2>1. place(j) = place(k) /\ wave(j) = wave(k)
    BY <1>4, <1>5, <1>6, <1>9
  <2> QED BY <1>7, <2>1
<1> QED BY <1>8, <1>9

\* The signers are finitely many, and so are the callbacks of a receipt.
LEMMA CallbacksFinite == ASSUME NEW r PROVE IsFiniteSet(Callbacks(r))
<1> DEFINE n == Len(ArtifactIds)
           ids == Range(ArtifactIds)
           places == ids \X (1..MaxSignatures)
<1>1. n \in Nat /\ DOMAIN ArtifactIds = 1..n
  BY Signers
<1>2. IsFiniteSet(ids)
  <2>1. IsFiniteSet(1..n)
    BY <1>1, FS_Interval
  <2>2. ids = {ArtifactIds[i] : i \in 1..n}
    BY <1>1 DEF Range
  <2>3. IsFiniteSet({ArtifactIds[i] : i \in 1..n})
    <3> DEFINE f == [i \in 1..n |-> ArtifactIds[i]]
    <3>1. f \in Surjection(1..n, {ArtifactIds[i] : i \in 1..n})
      BY DEF Surjection
    <3> HIDE DEF f
    <3> QED BY <2>1, <3>1, FS_Surjection
  <2> QED BY <2>2, <2>3
<1>3. IsFiniteSet(1..MaxSignatures)
  <2>1. MaxSignatures \in Nat
    BY LimitsAssumption
  <2> QED BY <2>1, FS_Interval
<1>4. IsFiniteSet(places)
  BY <1>2, <1>3, FS_Product
<1>5. Callbacks(r) \subseteq places
  BY DEF Callbacks
<1> QED BY <1>4, <1>5, FS_Subset

\* The entry of a signed slot is one of the callbacks the preflight has counted.
LEMMA SlotEntry ==
  ASSUME NEW p, Decoded(p), NEW t, NEW least, NEW ids,
         PreflightRejection(p, t, least, ids) = OK, NEW k \in SignedSlots(p.receipt)
  PROVE  \E s \in Callbacks(p.receipt) :
           /\ s[1] = SlotArtifact(k)
           /\ EntryAt(p.receipt, s).algorithm = SlotAlgorithm(k)
<1> DEFINE id == SlotArtifact(k)
           a == Artifact(p.receipt, id)
           es == a.bundle.entries
<1>1. k \in 1..Slots /\ id \in Range(ArtifactIds)
  BY SlotPlaces DEF SignedSlots
<1>2. BundleRejection(a) = OK /\ es \in Seq(Range(es))
  BY <1>1, ArtifactChecks
<1>3. DOMAIN es \subseteq 1..MaxSignatures
  BY <1>2, BundleOutcome
<1>4. SlotAlgorithm(k) \in {e.algorithm : e \in Range(es)}
  BY DEF SignedSlots
<1>5. PICK i \in DOMAIN es : es[i].algorithm = SlotAlgorithm(k)
  BY <1>4 DEF Range
<1> DEFINE s == <<id, i>>
<1>6. s[1] = id /\ s[2] = i
  OBVIOUS
<1>7. s \in Callbacks(p.receipt) /\ EntryAt(p.receipt, s) = es[i]
  BY <1>1, <1>3, <1>6 DEF Callbacks, EntryAt
<1> HIDE DEF s
<1> QED BY <1>5, <1>6, <1>7

\* A set of signed slots is within the limits the preflight has checked.
LEMMA WithinBudget ==
  ASSUME NEW p, Decoded(p), NEW t, NEW least, NEW ids,
         PreflightRejection(p, t, least, ids) = OK, NEW K \in SUBSET SignedSlots(p.receipt)
  PROVE  /\ IsFiniteSet(K)
         /\ ~(Cardinality(K) > MaxCallbacks)
         /\ (\A k \in K : PostQuantum(SlotAlgorithm(k))) => ~(Cardinality(K) > MaxPostQuantum)
<1> DEFINE r == p.receipt
           of(k) == CHOOSE s \in Callbacks(r) :
                      /\ s[1] = SlotArtifact(k)
                      /\ EntryAt(r, s).algorithm = SlotAlgorithm(k)
           f == [k \in K |-> of(k)]
           pq == {s \in Callbacks(r) : PostQuantum(EntryAt(r, s).algorithm)}
<1>1. \A k \in K : /\ of(k) \in Callbacks(r) /\ of(k)[1] = SlotArtifact(k)
                   /\ EntryAt(r, of(k)).algorithm = SlotAlgorithm(k)
  <2> SUFFICES ASSUME NEW k \in K
               PROVE  \E s \in Callbacks(r) : /\ s[1] = SlotArtifact(k)
                                              /\ EntryAt(r, s).algorithm = SlotAlgorithm(k)
    OBVIOUS
  <2> QED BY SlotEntry
<1>2. \A j, k \in K : of(j) = of(k) => j = k
  <2>1. \A k \in K : k \in 1..Slots
    BY DEF SignedSlots
  <2> QED BY <1>1, <2>1, SlotPlaces
<1> HIDE DEF of
<1>3. f \in Injection(K, Callbacks(r))
  BY <1>1, <1>2 DEF Injection, IsInjective
<1>4. IsFiniteSet(Callbacks(r)) /\ IsFiniteSet(pq)
  <2>1. IsFiniteSet(Callbacks(r))
    BY CallbacksFinite
  <2>2. pq \subseteq Callbacks(r)
    OBVIOUS
  <2> QED BY <2>1, <2>2, FS_Subset
<1>5. TrustRejection(p, t, least) = OK
  BY PreflightOutcome
<1>6. ~(Cardinality(Callbacks(r)) > MaxCallbacks) /\ ~(Cardinality(pq) > MaxPostQuantum)
  BY <1>5, TrustOutcome, ResolveOutcome
<1>7. IsFiniteSet(K) /\ Cardinality(K) <= Cardinality(Callbacks(r))
  BY <1>3, <1>4, FS_Injection
<1>8. ASSUME \A k \in K : PostQuantum(SlotAlgorithm(k))
      PROVE  Cardinality(K) <= Cardinality(pq)
  <2>1. \A k \in K : of(k) \in pq
    BY <1>1, <1>8
  <2>2. f \in Injection(K, pq)
    BY <1>2, <2>1 DEF Injection, IsInjective
  <2> QED BY <1>4, <2>2, FS_Injection
<1>9. /\ Cardinality(K) \in Nat /\ Cardinality(Callbacks(r)) \in Nat /\ Cardinality(pq) \in Nat
      /\ MaxCallbacks \in Nat /\ MaxPostQuantum \in Nat
  <2>1. Cardinality(K) \in Nat /\ Cardinality(Callbacks(r)) \in Nat /\ Cardinality(pq) \in Nat
    BY <1>4, <1>7, FS_CardinalityType
  <2> QED BY <2>1, LimitsAssumption
<1> HIDE DEF f, pq, r
<1> QED BY <1>6, <1>7, <1>8, <1>9

\* Observations in order are as many as the slots they are of.
LEMMA ObservationsCount ==
  ASSUME NEW obs \in Observations, InOrder(obs), NEW I \in SUBSET (1..Len(obs)),
         NEW K, \A i \in I : obs[i].slot \in K, IsFiniteSet(K)
  PROVE  /\ IsFiniteSet(I) /\ Cardinality(I) \in Nat /\ Cardinality(K) \in Nat
         /\ Cardinality(I) <= Cardinality(K)
<1> DEFINE n == Len(obs)
           f == [i \in I |-> obs[i].slot]
<1>1. n \in Nat /\ \A i \in 1..n : obs[i].slot \in Int
  <2>1. obs \in Seq([slot : 1..Slots, rejection : {OK, "SIGNATURE_INVALID", "BACKEND_FAILURE"}])
    BY DEF Observations
  <2>2. n \in Nat /\ \A i \in 1..n :
          obs[i] \in [slot : 1..Slots, rejection : {OK, "SIGNATURE_INVALID", "BACKEND_FAILURE"}]
    BY <2>1, LenProperties, ElementOfSeq
  <2> QED BY <2>2
<1>2. \A i, j \in I : obs[i].slot = obs[j].slot => i = j
  <2>1. \A i, j \in 1..n : i < j => obs[i].slot < obs[j].slot
    BY DEF InOrder
  <2> QED BY <1>1, <2>1
<1>3. f \in Injection(I, K)
  BY <1>2 DEF Injection, IsInjective
<1> HIDE DEF f
<1>4. IsFiniteSet(I) /\ Cardinality(I) <= Cardinality(K)
  BY <1>3, FS_Injection
<1> QED BY <1>4, FS_CardinalityType

\* Before a signed slot there is room for its callback.
LEMMA BudgetSuffices ==
  ASSUME NEW p, Decoded(p), NEW t, NEW least, NEW ids,
         PreflightRejection(p, t, least, ids) = OK, NEW k \in SignedSlots(p.receipt),
         NEW obs \in Observations, InOrder(obs),
         SlotsOf(obs) = SignedSlots(p.receipt) \cap 1..(k - 1)
  PROVE  ~BudgetSpent(obs, SlotAlgorithm(k))
<1> DEFINE r == p.receipt
           n == Len(obs)
           J == SlotsOf(obs)
           pq(K) == {j \in K : PostQuantum(SlotAlgorithm(j))}
           pqc == {i \in 1..n : PostQuantum(SlotAlgorithm(obs[i].slot))}
<1>1. n \in Nat /\ DOMAIN obs = 1..n
  BY DEF Observations
<1>2. k \in Int /\ k \notin J /\ J \subseteq SignedSlots(r)
  BY DEF SignedSlots
<1>3. IsFiniteSet(J) /\ IsFiniteSet(J \cup {k}) /\ IsFiniteSet(pq(J)) /\ IsFiniteSet(pq(J) \cup {k})
  <2>1. J \cup {k} \in SUBSET SignedSlots(r)
    BY <1>2
  <2>2. IsFiniteSet(J \cup {k})
    BY <2>1, WithinBudget
  <2>3. J \subseteq J \cup {k} /\ pq(J) \subseteq J \cup {k} /\ pq(J) \cup {k} \subseteq J \cup {k}
    OBVIOUS
  <2> HIDE DEF J, pq
  <2> QED BY <2>2, <2>3, FS_Subset
<1>4. ~(n + 1 > MaxCallbacks)
  <2>1. n <= Cardinality(J) /\ Cardinality(J) \in Nat
    <3>1. \A i \in 1..n : obs[i].slot \in J
      BY DEF SlotsOf
    <3>2. 1..n \in SUBSET (1..n)
      OBVIOUS
    <3>3. Cardinality(1..n) <= Cardinality(J) /\ Cardinality(J) \in Nat
      BY <1>3, <3>1, <3>2, ObservationsCount
    <3>4. Cardinality(1..n) = n
      BY <1>1, FS_Interval
    <3> QED BY <3>3, <3>4
  <2>2. Cardinality(J \cup {k}) = Cardinality(J) + 1
    BY <1>2, <1>3, FS_AddElement
  <2>3. ~(Cardinality(J \cup {k}) > MaxCallbacks)
    <3>1. J \cup {k} \in SUBSET SignedSlots(r)
      BY <1>2
    <3> QED BY <3>1, WithinBudget
  <2> HIDE DEF J
  <2> QED BY <1>1, <2>1, <2>2, <2>3, LimitsAssumption
<1>5. ASSUME PostQuantum(SlotAlgorithm(k))
      PROVE  ~(Cardinality(pqc) + 1 > MaxPostQuantum)
  <2>1. Cardinality(pqc) <= Cardinality(pq(J)) /\ Cardinality(pqc) \in Nat
        /\ Cardinality(pq(J)) \in Nat
    <3>1. \A i \in pqc : obs[i].slot \in pq(J)
      BY DEF SlotsOf
    <3>2. pqc \in SUBSET (1..n)
      OBVIOUS
    <3> HIDE DEF pqc, pq, J
    <3>3. /\ IsFiniteSet(pqc) /\ Cardinality(pq(J)) \in Nat
          /\ Cardinality(pqc) <= Cardinality(pq(J))
      BY <1>3, <3>1, <3>2, ObservationsCount
    <3> QED BY <3>3, FS_CardinalityType
  <2>2. Cardinality(pq(J) \cup {k}) = Cardinality(pq(J)) + 1
    <3>1. k \notin pq(J)
      BY <1>2
    <3> HIDE DEF pq, J
    <3> QED BY <1>3, <3>1, FS_AddElement
  <2>3. ~(Cardinality(pq(J) \cup {k}) > MaxPostQuantum)
    <3>1. /\ pq(J) \cup {k} \in SUBSET SignedSlots(r)
          /\ \A j \in pq(J) \cup {k} : PostQuantum(SlotAlgorithm(j))
      BY <1>2, <1>5
    <3> HIDE DEF pq, J
    <3> QED BY <3>1, WithinBudget
  <2> HIDE DEF J, pq, pqc
  <2> QED BY <2>1, <2>2, <2>3, LimitsAssumption
<1> QED BY <1>1, <1>4, <1>5 DEF BudgetSpent

\* Whoever passes the preflight has signed in the first slot.
LEMMA FirstSlotSigned ==
  ASSUME NEW p, Decoded(p), NEW t, NEW least, NEW ids,
         PreflightRejection(p, t, least, ids) = OK
  PROVE  1 \in SignedSlots(p.receipt)
<1> DEFINE m == Len(ArtifactIds)
           id == SlotArtifact(1)
           es == Artifact(p.receipt, id).bundle.entries
<1>1. 1 \in 1..Slots /\ id \in Range(ArtifactIds)
  BY SlotsNat, SlotPlaces
<1>2. SlotAlgorithm(1) = "classical-ed25519"
  <2>1. m \in Nat /\ m > 0
    BY Signers
  <2>2. SlotAlgorithm(1) = AllowedAlgorithms[((1 - 1) \div m) + 1]
    BY DEF SlotAlgorithm
  <2> HIDE DEF m
  <2>3. ((1 - 1) \div m) + 1 = 1
    BY <2>1
  <2> QED BY <2>2, <2>3 DEF AllowedAlgorithms
<1>3. \E i \in DOMAIN es : es[i].algorithm = "classical-ed25519"
  <2>1. /\ BundleRejection(Artifact(p.receipt, id)) = OK
        /\ es \in Seq(Range(es))
    BY <1>1, ArtifactChecks
  <2>2. "classical-ed25519" \in RequiredAlgorithms
    BY DEF RequiredAlgorithms
  <2> QED BY <2>1, <2>2, BundleOutcome
<1>4. SlotAlgorithm(1) \in {e.algorithm : e \in Range(es)}
  BY <1>2, <1>3 DEF Range
<1> QED BY <1>1, <1>4 DEF SignedSlots

(***************************************************************************)
(* What is known of the callbacks goes on to hold.                         *)
(***************************************************************************)

\* Initially nothing was asked.
LEMMA InitAsked == Init => \A c \in Calls : AskedInv(c)
<1> SUFFICES ASSUME Init, NEW c \in Calls PROVE AskedInv(c)
  OBVIOUS
<1>1. /\ transcript[c] = <<>> /\ slot[c] = 0 /\ pc[c] = "new"
  BY DEF Init
<1>2. <<>> \in Observations /\ InOrder(<<>>)
  BY DEF Observations, InOrder
<1> QED BY <1>1, <1>2 DEF AskedInv

\* As long as its record is kept, whether a call goes on to another end or is lost.
LEMMA AskedKept ==
  ASSUME NEW d \in Calls, AskedInv(d), RecordKept(d), seen \subseteq seen',
         pc'[d] = "new" <=> pc[d] = "new", pc'[d] = "waves" => pc[d] = "waves",
         pc[d] \in {"waves", "lost", "refused"} => pc'[d] \in {pc[d], "lost"},
         faults > 0 => faults' > 0
  PROVE  AskedInv(d)'
<1>1. P(d)' = P(d)
  BY DEF RecordKept, P
<1>2. Accepted(d) => Accepted(d)'
  BY <1>1 DEF Accepted, RecordKept
<1>3. (Going(d) => Going(d)') /\ (Stopped(d) => Stopped(d)')
  BY <1>1 DEF Going, Stopped, RecordKept
<1>4. Explained(d) => Explained(d)'
  BY <1>1 DEF Explained, RecordKept
<1>5. Verified(d) => Verified(d)'
  BY DEF Verified, RecordKept
<1>6. AuditRefuses(P(d))' = AuditRefuses(P(d))
  BY <1>1 DEF AuditRefuses
<1>7. pc'[d] \notin {"new", "refused", "lost"} => pc[d] \notin {"new", "refused", "lost"}
  OBVIOUS
<1> QED BY <1>2, <1>3, <1>4, <1>5, <1>6, <1>7 DEF AskedInv, RecordKept

\* The signatures are looked at from the first slot on.
LEMMA AskedPreflight ==
  ASSUME Typed, NEW c \in Calls, StageInv(c), AskedInv(c), Preflight(c)
  PROVE  AskedInv(c)'
<1>1. PICK rejection \in {PreflightRejection(P(c), now[c], minimum[c], seen)} :
        /\ pc' = [pc EXCEPT ![c] = IF rejection = OK THEN "waves" ELSE "decided"]
        /\ slot' = [slot EXCEPT ![c] = IF rejection = OK THEN 1 ELSE 0]
        /\ cause' = [cause EXCEPT ![c] = rejection]
  BY Zenon DEF Preflight
<1>2. /\ pc[c] = "preflight" /\ slot[c] = 0 /\ Len(transcript[c]) = 0
      /\ UNCHANGED <<callVars, transcript>> /\ seen' = seen
      /\ P(c)' = P(c)
  BY DEF Preflight, StageInv, P, callVars, hostVars
<1>3. /\ pc'[c] = IF rejection = OK THEN "waves" ELSE "decided"
      /\ slot'[c] = IF rejection = OK THEN 1 ELSE 0
      /\ cause'[c] = rejection
  BY <1>1 DEF Typed, TypeOK
<1>4. transcript'[c] \in Observations /\ InOrder(transcript'[c])
  BY <1>2 DEF AskedInv
<1>7. ~AuditRefuses(P(c))'
  BY <1>2 DEF AskedInv, AuditRefuses
<1>5. CASE rejection = OK
  <2>1. Accepted(c)'
    BY <1>1, <1>2, <1>5 DEF Accepted, callVars
  <2>2. Going(c)'
    <3>1. SlotsOf(transcript'[c]) = {} /\ 1..(slot'[c] - 1) = {}
      BY <1>2, <1>3, <1>5 DEF SlotsOf
    <3>2. AllOK(transcript'[c], Len(transcript'[c]))
      BY <1>2 DEF AllOK
    <3> QED BY <1>3, <1>5, <3>1, <3>2 DEF Going
  <2> QED BY <1>3, <1>4, <1>5, <1>7, <2>1, <2>2 DEF AskedInv
<1>6. CASE rejection # OK
  <2>1. Decoded(P(c))
    BY <1>2, SubmissionIsDecoded
  <2>2. rejection \in Grounds(P(c), now[c], seen)
    BY <2>1, PreflightOutcome
  <2>3. Explained(c)'
    BY <1>2, <1>3, <2>2 DEF Explained, callVars
  <2> QED BY <1>3, <1>4, <1>6, <1>7, <2>3 DEF AskedInv
<1> QED BY <1>5, <1>6

\* What a step of the waves leaves alone.
LEMMA WavesKeep ==
  ASSUME Typed, NEW c \in Calls, StageInv(c), AskedInv(c), pc[c] = "waves",
         UNCHANGED <<hostVars, callVars>>
  PROVE  /\ slot[c] \in 1..Slots /\ Going(c) /\ Accepted(c) /\ Accepted(c)'
         /\ P(c)' = P(c) /\ Decoded(P(c)) /\ ~AuditRefuses(P(c))'
<1>1. slot[c] \in 1..Slots /\ slot[c] # 0
  BY SlotsNat DEF StageInv
<1>2. Going(c) /\ Accepted(c)
  BY <1>1 DEF AskedInv
<1>3. P(c)' = P(c) /\ Accepted(c)'
  BY <1>2 DEF Accepted, P, callVars, hostVars
<1>4. Decoded(P(c)) /\ ~AuditRefuses(P(c))'
  BY <1>3, SubmissionIsDecoded DEF AskedInv, AuditRefuses
<1> QED BY <1>1, <1>2, <1>3, <1>4

\* On to the next slot, with all signatures up to this one found genuine.
LEMMA AskedAdvances ==
  ASSUME Typed, NEW c \in Calls, StageInv(c), AskedInv(c), pc[c] = "waves",
         UNCHANGED <<hostVars, callVars>>, Advance(c), cause'[c] = OK,
         transcript'[c] \in Observations, InOrder(transcript'[c]),
         AllOK(transcript'[c], Len(transcript'[c])),
         SlotsOf(transcript'[c]) = SignedSlots(P(c).receipt) \cap 1..slot[c]
  PROVE  AskedInv(c)'
<1>1. slot[c] \in 1..Slots /\ Accepted(c)' /\ P(c)' = P(c) /\ ~AuditRefuses(P(c))'
  BY WavesKeep
<1>2. /\ slot'[c] = slot[c] + 1
      /\ pc'[c] = IF slot[c] = Slots THEN "decided" ELSE "waves"
  BY DEF Advance, Typed, TypeOK
<1>3. slot'[c] - 1 = slot[c] /\ slot'[c] # 0
  BY <1>1, <1>2, SlotsNat
<1>4. Going(c)'
  BY <1>1, <1>3 DEF Going
<1>5. pc'[c] = "waves" \/ Verified(c)'
  BY <1>2 DEF Verified
<1> QED BY <1>1, <1>3, <1>4, <1>5 DEF AskedInv

\* A bundle without the algorithm is passed over.
LEMMA AskedSkip ==
  ASSUME Typed, NEW c \in Calls, StageInv(c), AskedInv(c), SkipSlot(c)
  PROVE  AskedInv(c)'
<1>1. /\ pc[c] = "waves" /\ Matching(P(c).receipt, slot[c]) = {} /\ Advance(c)
      /\ UNCHANGED <<hostVars, callVars>> /\ cause'[c] = cause[c]
      /\ transcript'[c] = transcript[c]
  BY DEF SkipSlot
<1>2. slot[c] \in 1..Slots /\ Going(c)
  BY <1>1, WavesKeep
<1>3. slot[c] \notin SignedSlots(P(c).receipt)
  BY <1>1 DEF SignedSlots, Matching
<1>4. \A k \in SignedSlots(P(c).receipt) : k \in Int
  BY DEF SignedSlots
<1>5. SignedSlots(P(c).receipt) \cap 1..(slot[c] - 1)
        = SignedSlots(P(c).receipt) \cap 1..slot[c]
  BY <1>2, <1>3, <1>4
<1>6. /\ cause'[c] = OK /\ AllOK(transcript'[c], Len(transcript'[c]))
      /\ SlotsOf(transcript'[c]) = SignedSlots(P(c).receipt) \cap 1..slot[c]
      /\ transcript'[c] \in Observations /\ InOrder(transcript'[c])
  BY <1>1, <1>2, <1>5 DEF Going, AskedInv
<1> QED BY <1>1, <1>6, AskedAdvances

\* One more observation, of a later slot.
LEMMA ObservationAppended ==
  ASSUME NEW obs \in Observations, InOrder(obs),
         NEW o \in [slot : 1..Slots, rejection : {OK, "SIGNATURE_INVALID", "BACKEND_FAILURE"}],
         \A j \in SlotsOf(obs) : j < o.slot
  PROVE  LET obs2 == Append(obs, o)
         IN  /\ obs2 \in Observations /\ InOrder(obs2)
             /\ Len(obs2) = Len(obs) + 1 /\ Len(obs) \in Nat
             /\ obs2[Len(obs2)] = o
             /\ SlotsOf(obs2) = SlotsOf(obs) \cup {o.slot}
             /\ \A i \in 1..Len(obs) : obs2[i] = obs[i]
<1> DEFINE n == Len(obs)
           obs2 == Append(obs, o)
           O == [slot : 1..Slots, rejection : {OK, "SIGNATURE_INVALID", "BACKEND_FAILURE"}]
<1>1. obs \in Seq(O) /\ o \in O
  BY DEF Observations
<1> HIDE DEF O
<1>2. /\ obs2 \in Seq(O) /\ Len(obs2) = n + 1 /\ n \in Nat
      /\ \A i \in 1..n : obs2[i] = obs[i]
      /\ obs2[n + 1] = o
  BY <1>1, AppendProperties
<1> HIDE DEF n, obs2
<1>3. \A i \in 1..(n + 1) : i \in 1..n \/ i = n + 1
  BY <1>2
<1>4. \A i \in 1..n : i \in 1..(n + 1) /\ obs[i].slot < o.slot
  BY <1>2 DEF SlotsOf, n
<1>5. n + 1 \in 1..(n + 1)
  BY <1>2
<1>6. SlotsOf(obs2) = SlotsOf(obs) \cup {o.slot}
  BY <1>2, <1>3, <1>4, <1>5 DEF SlotsOf, n
<1>7. InOrder(obs2)
  <2> SUFFICES ASSUME NEW i \in 1..(n + 1), NEW j \in 1..(n + 1), i < j
               PROVE  obs2[i].slot < obs2[j].slot
    BY <1>2 DEF InOrder
  <2>1. CASE j \in 1..n
    <3>1. i \in 1..n
      BY <1>2, <2>1
    <3> QED BY <1>2, <2>1, <3>1 DEF InOrder, n
  <2>2. CASE j = n + 1
    <3>1. i \in 1..n
      BY <1>2, <2>2
    <3> QED BY <1>2, <1>4, <2>2, <3>1
  <2> QED BY <1>3, <2>1, <2>2
<1>8. obs2 \in Observations
  BY <1>2 DEF Observations, O
<1> QED BY <1>2, <1>6, <1>7, <1>8 DEF n, obs2

\* A callback is within the budget, and what it answers is observed.
LEMMA AskedCallback ==
  ASSUME Typed, NEW c \in Calls, StageInv(c), AskedInv(c), Callback(c)
  PROVE  AskedInv(c)'
<1> DEFINE obs == transcript[c]
           k == slot[c]
           spent == BudgetSpent(obs, SlotAlgorithm(k))
           S == SignedSlots(P(c).receipt)
<1>1. PICK e \in Matching(P(c).receipt, slot[c]) : \E answer \in Answers(e) :
         LET rejection == IF spent THEN "SIGNATURE_POLICY" ELSE AnswerRejection(answer)
         IN  /\ cause' = [cause EXCEPT ![c] = rejection]
             /\ transcript' = [transcript EXCEPT ![c] = IF spent THEN @ ELSE
                                 Append(@, [slot |-> slot[c], rejection |-> rejection])]
             /\ faults' = IF answer \in {"true", "false"} THEN faults ELSE faults + 1
             /\ IF rejection = OK THEN Advance(c)
                ELSE /\ pc' = [pc EXCEPT ![c] = "decided"]
                     /\ UNCHANGED slot
  BY Zenon DEF Callback
<1>2. pc[c] = "waves" /\ UNCHANGED <<hostVars, callVars>>
  BY DEF Callback
<1>3. /\ slot[c] \in 1..Slots /\ Going(c) /\ Accepted(c) /\ Accepted(c)'
      /\ P(c)' = P(c) /\ Decoded(P(c)) /\ ~AuditRefuses(P(c))'
  BY <1>2, WavesKeep
<1>4. k \in S
  BY <1>3 DEF SignedSlots, Matching
<1>5. obs \in Observations /\ InOrder(obs) /\ SlotsOf(obs) = S \cap 1..(k - 1)
      /\ AllOK(obs, Len(obs))
  BY <1>3 DEF AskedInv, Going
<1>6. ~spent
  <2>1. PICK ids : PreflightRejection(P(c), now[c], minimum[c], ids) = OK
    BY <1>3 DEF Accepted
  <2> HIDE DEF obs
  <2> QED BY <1>3, <1>4, <1>5, <2>1, BudgetSuffices
<1> HIDE DEF spent
<1>7. PICK rejection \in {OK, "SIGNATURE_INVALID", "BACKEND_FAILURE"} :
        /\ cause' = [cause EXCEPT ![c] = rejection]
        /\ transcript' = [transcript EXCEPT ![c] =
                            Append(@, [slot |-> slot[c], rejection |-> rejection])]
        /\ IF rejection = OK THEN Advance(c)
           ELSE /\ pc' = [pc EXCEPT ![c] = "decided"]
                /\ UNCHANGED slot
        /\ rejection = "SIGNATURE_INVALID" => e.signature # "genuine"
        /\ rejection = "BACKEND_FAILURE" => faults' > 0
  <2>1. PICK answer \in Answers(e) :
         LET rejection == AnswerRejection(answer)
         IN  /\ cause' = [cause EXCEPT ![c] = rejection]
             /\ transcript' = [transcript EXCEPT ![c] =
                                 Append(@, [slot |-> slot[c], rejection |-> rejection])]
             /\ faults' = IF answer \in {"true", "false"} THEN faults ELSE faults + 1
             /\ IF rejection = OK THEN Advance(c)
                ELSE /\ pc' = [pc EXCEPT ![c] = "decided"]
                     /\ UNCHANGED slot
    BY <1>1, <1>6
  <2>2. AnswerRejection(answer) \in {OK, "SIGNATURE_INVALID", "BACKEND_FAILURE"}
    BY DEF AnswerRejection
  <2>3. AnswerRejection(answer) = "SIGNATURE_INVALID" => e.signature # "genuine"
    BY DEF AnswerRejection, Answers, OK
  <2>4. AnswerRejection(answer) = "BACKEND_FAILURE" => faults' > 0
    <3>1. AnswerRejection(answer) = "BACKEND_FAILURE" => answer \notin {"true", "false"}
      BY DEF AnswerRejection, OK
    <3>2. faults \in Nat
      BY BoundsAssumption DEF Typed, TypeOK
    <3> QED BY <2>1, <3>1, <3>2
  <2> QED BY <2>1, <2>2, <2>3, <2>4
<1>8. cause'[c] = rejection
      /\ transcript'[c] = Append(obs, [slot |-> k, rejection |-> rejection])
  BY <1>7 DEF Typed, TypeOK
<1>9. /\ transcript'[c] \in Observations /\ InOrder(transcript'[c])
      /\ Len(transcript'[c]) = Len(obs) + 1 /\ Len(obs) \in Nat
      /\ transcript'[c][Len(transcript'[c])].rejection = rejection
      /\ transcript'[c][Len(transcript'[c])].slot = k
      /\ SlotsOf(transcript'[c]) = SlotsOf(obs) \cup {k}
      /\ \A i \in 1..Len(obs) : transcript'[c][i] = obs[i]
  <2> DEFINE o == [slot |-> k, rejection |-> rejection]
  <2>1. o \in [slot : 1..Slots, rejection : {OK, "SIGNATURE_INVALID", "BACKEND_FAILURE"}]
    BY <1>3, <1>7
  <2>2. o.slot = k /\ o.rejection = rejection
    OBVIOUS
  <2>3. \A j \in SlotsOf(obs) : j < o.slot
    BY <1>3, <1>5
  <2>4. transcript'[c] = Append(obs, o)
    BY <1>8
  <2> HIDE DEF o
  <2>5. LET obs2 == Append(obs, o)
        IN  /\ obs2 \in Observations /\ InOrder(obs2)
            /\ Len(obs2) = Len(obs) + 1 /\ Len(obs) \in Nat
            /\ obs2[Len(obs2)] = o
            /\ SlotsOf(obs2) = SlotsOf(obs) \cup {o.slot}
            /\ \A i \in 1..Len(obs) : obs2[i] = obs[i]
    BY <1>5, <2>1, <2>3, ObservationAppended
  <2> QED BY <2>2, <2>4, <2>5
<1>10. AllOK(transcript'[c], Len(transcript'[c]) - 1)
  BY <1>5, <1>9 DEF AllOK
<1>11. CASE rejection = OK
  <2>1. SlotsOf(transcript'[c]) = S \cap 1..k
    <3>1. \A j \in S : j \in Int
      BY DEF SignedSlots
    <3> QED BY <1>3, <1>4, <1>5, <1>9, <3>1
  <2>2. AllOK(transcript'[c], Len(transcript'[c]))
    BY <1>9, <1>10, <1>11 DEF AllOK
  <2>3. Advance(c) /\ cause'[c] = OK
    BY <1>7, <1>8, <1>11
  <2> QED BY <1>2, <1>9, <2>1, <2>2, <2>3, AskedAdvances
<1>12. CASE rejection # OK
  <2>1. pc'[c] = "decided" /\ slot'[c] = slot[c] /\ slot[c] # 0 /\ cause'[c] # OK
    BY <1>3, <1>7, <1>8, <1>12, SlotsNat DEF Typed, TypeOK
  <2>2. Stopped(c)'
    <3>1. Len(transcript'[c]) > 0
      BY <1>9
    <3>2. slot'[c] <= Slots
      BY <1>3, <2>1, SlotsNat
    <3>3. rejection = "SIGNATURE_INVALID" =>
            \E f \in Matching(P(c)'.receipt, k) : f.signature # "genuine"
      BY <1>3, <1>7
    <3> QED BY <1>7, <1>8, <1>9, <1>10, <1>12, <3>1, <3>2, <3>3 DEF Stopped
  <2> QED BY <1>3, <1>9, <2>1, <2>2 DEF AskedInv
<1> QED BY <1>11, <1>12

\* A fault that has happened has happened.
LEMMA FaultsGrow ==
  ASSUME Typed, [Next]_vars
  PROVE  faults > 0 => faults' > 0
<1>1. faults \in Nat
  BY BoundsAssumption DEF Typed, TypeOK
<1>2. ASSUME NEW c \in Calls,
             Step(c) \/ RecordResult(c) \/ \E n \in Names : Submit(c, n)
      PROVE  faults' = faults \/ faults' = faults + 1
  <2>1. CASE Callback(c)
    BY <2>1 DEF Callback
  <2>2. CASE AppendBatch(c)
    BY <2>2 DEF AppendBatch
  <2>3. CASE Acknowledge(c)
    BY <2>3 DEF Acknowledge
  <2>4. CASE Copy(c) \/ Preflight(c) \/ SkipSlot(c) \/ Return(c) \/ RecordResult(c)
             \/ \E n \in Names : Submit(c, n)
    BY <2>4 DEF Copy, Preflight, SkipSlot, Return, RecordResult, Submit
  <2> QED BY <1>2, <2>1, <2>2, <2>3, <2>4 DEF Step
<1>3. faults' = faults \/ faults' = faults + 1
  BY <1>2 DEF Next, Crash, Tick, vars
<1> QED BY <1>1, <1>3

\* Whatever a call does, what is known of its callbacks goes on to hold.
LEMMA AskedStep ==
  ASSUME Typed, NEW c \in Calls, StageInv(c), AskedInv(c), Typed',
         Step(c) \/ RecordResult(c) \/ \E n \in Names : Submit(c, n)
  PROVE  AskedInv(c)'
<1> USE DEF Typed, TypeOK
<1>7. faults > 0 => faults' > 0
  BY FaultsGrow DEF Next
<1>1. CASE Copy(c)
  <2>1. /\ pc[c] = "copying" /\ slot'[c] = 0 /\ transcript'[c] = transcript[c]
        /\ cause'[c] \in {cause[c], "CONTRACT"} /\ P(c)' = P(c)
        /\ pc'[c] \in {"copying", "preflight", "failed", "decided"}
        /\ now'[c] = now[c] /\ seen' = seen
    BY <1>1 DEF Copy, StageInv, callVars, hostVars, P
  <2>2. Explained(c)'
    <3>1. PICK ids \in SUBSET seen : cause[c] \in Grounds(P(c), now[c], ids)
      BY <2>1 DEF AskedInv, StageInv, Explained
    <3>2. "CONTRACT" \in Grounds(P(c), now[c], ids)
      BY GroundsHold DEF Plain
    <3> QED BY <2>1, <3>1, <3>2 DEF Explained
  <2>3. ~AuditRefuses(P(c))'
    BY <2>1 DEF AskedInv, AuditRefuses
  <2> QED BY <2>1, <2>2, <2>3 DEF AskedInv
<1>2. CASE Preflight(c)
  BY <1>2, AskedPreflight
<1>3. CASE SkipSlot(c)
  BY <1>3, AskedSkip
<1>4. CASE Callback(c)
  BY <1>4, AskedCallback
<1>5. CASE AppendBatch(c) \/ Acknowledge(c) \/ Return(c) \/ RecordResult(c)
  <2>1. /\ pc[c] \notin {"new", "waves", "lost", "refused"}
        /\ pc'[c] \notin {"new", "waves", "lost"}
        /\ UNCHANGED <<callVars, cause, slot, transcript>> /\ seen \subseteq seen'
    <3>1. CASE AppendBatch(c)
      BY <3>1 DEF AppendBatch, hostVars
    <3>2. CASE Acknowledge(c)
      <4>1. /\ pc[c] \in {"appending", "appending_failure"}
            /\ UNCHANGED <<hostVars, callVars, cause, slot, transcript>>
        BY <3>2 DEF Acknowledge
      <4>2. \E stage \in {"returned", "audited_error", "sink_error"} :
              pc' = [pc EXCEPT ![c] = stage]
        BY <3>2 DEF Acknowledge
      <4> QED BY <4>1, <4>2 DEF hostVars
    <3>3. CASE Return(c)
      BY <3>3 DEF Return, hostVars
    <3>4. CASE RecordResult(c)
      BY <3>4 DEF RecordResult
    <3> QED BY <1>5, <3>1, <3>2, <3>3, <3>4
  <2>2. RecordKept(c)
    BY <2>1 DEF RecordKept, callVars
  <2> QED BY <1>7, <2>1, <2>2, AskedKept
<1>6. CASE \E n \in Names : Submit(c, n)
  <2>1. PICK n \in Names : Submit(c, n)
    BY <1>6
  <2>2. /\ slot'[c] = 0 /\ transcript'[c] = transcript[c]
        /\ cause'[c] \in {OK, InputRejection(Submitted[n])}
        /\ pc'[c] \notin {"waves", "new"} /\ P(c)' = Submitted[n]
        /\ AuditRefuses(Submitted[n]) => pc'[c] = "refused"
    BY <2>1 DEF Submit, StageInv, P
  <2>3. Explained(c)'
    <3> DEFINE G == Grounds(Submitted[n], now'[c], {})
    <3>1. OK \in G
      BY GroundsHold DEF Plain
    <3>2. InputRejection(Submitted[n]) \in G
      <4>1. InputRejection(Submitted[n])
              \in Blamed({"INVALID_TIME"}, Submitted[n].input_defect = "time")
        BY InputOutcome
      <4> QED BY <4>1, Zenon DEF Grounds
    <3> HIDE DEF G
    <3>3. cause'[c] \in G /\ {} \in SUBSET seen'
      BY <2>2, <3>1, <3>2
    <3> QED BY <2>2, <3>3 DEF Explained, G
  <2>4. pc'[c] # "refused" => ~AuditRefuses(P(c))'
    BY <2>2 DEF AuditRefuses
  <2> QED BY <2>2, <2>3, <2>4 DEF AskedInv
<1> QED BY <1>1, <1>2, <1>3, <1>4, <1>5, <1>6 DEF Step

\* So it does for every call in every step.
LEMMA AskedNext ==
  ASSUME IInv, \A c \in Calls : AskedInv(c), [Next]_vars
  PROVE  \A d \in Calls : AskedInv(d)'
<1>1. Typed /\ (\A c \in Calls : StageInv(c)) /\ Typed'
  BY TypedNext DEF IInv
<1>2. \A d \in Calls : RecordKept(d) => (pc'[d] = "new" <=> pc[d] = "new")
  BY <1>1 DEF Typed, TypeOK, RecordKept
<1>3. seen \subseteq seen'
  <2>1. ASSUME NEW c \in Calls, Step(c) \/ \E n \in Names : Submit(c, n) PROVE seen' = seen
    BY <2>1 DEF Step, Copy, Preflight, SkipSlot, Callback, AppendBatch, Acknowledge,
                Return, Submit, hostVars
  <2>2. ASSUME NEW c \in Calls, RecordResult(c) PROVE seen \subseteq seen'
    BY <2>2 DEF RecordResult
  <2> QED BY <2>1, <2>2 DEF Next, Crash, Tick, vars, hostVars
<1>6. faults > 0 => faults' > 0
  BY <1>1, FaultsGrow
<1>4. ASSUME NEW c \in Calls, NEW d \in Calls,
             Step(c) \/ RecordResult(c) \/ \E n \in Names : Submit(c, n)
      PROVE  AskedInv(d)'
  <2>1. CASE d = c
    BY <1>1, <1>4, <2>1, AskedStep
  <2>2. CASE d # c
    <3>1. RecordKept(d) /\ pc'[d] = pc[d]
      BY <1>1, <1>4, <2>2, OthersKept
    <3> QED BY <1>2, <1>3, <1>6, <3>1, AskedKept
  <2> QED BY <2>1, <2>2
<1>5. ASSUME NEW d \in Calls, Crash \/ Tick \/ UNCHANGED vars PROVE AskedInv(d)'
  <2>1. RecordKept(d) /\ pc'[d] \in {pc[d], "lost"}
    BY <1>5 DEF Crash, Tick, vars, callVars, RecordKept
  <2> QED BY <1>2, <1>3, <1>6, <2>1, AskedKept
<1> QED BY <1>4, <1>5 DEF Next

\* What is known of the callbacks holds of every call at any time.
LEMMA AskedInductive == Spec => [](\A c \in Calls : AskedInv(c))
<1> DEFINE Asked == \A c \in Calls : AskedInv(c)
<1>1. IInv /\ Asked /\ [Next]_vars => Asked'
  BY AskedNext
<1>2. Init => Asked
  BY InitAsked
<1> HIDE DEF Asked
<1>3. Spec => []Asked
  BY <1>1, <1>2, Inductive, PTL DEF Spec
<1> QED BY <1>3 DEF Asked

(***************************************************************************)
(* What is copied.                                                         *)
(***************************************************************************)

\* The copy of each call is the one of what it was submitted with.
CopiesInv ==
  \A c \in Calls :
    /\ CopyInv(P(c).json, copy[c])
    /\ pc[c] = "new" => copy[c] = NoCopy
    /\ pc[c] = "copying" => copy[c].verdict = "copying"

\* It is kept with the copy and what was submitted, wherever the call goes next.
LEMMA CopyKept ==
  ASSUME CopiesInv, NEW d \in Calls, copy'[d] = copy[d], name'[d] = name[d],
         pc'[d] \in {"new", "copying"} => pc'[d] = pc[d]
  PROVE  /\ CopyInv(P(d)'.json, copy'[d])
         /\ pc'[d] = "new" => copy'[d] = NoCopy
         /\ pc'[d] = "copying" => copy'[d].verdict = "copying"
<1>1. P(d)' = P(d)
  BY DEF P
<1> QED BY <1>1 DEF CopiesInv

\* A step of the copy keeps it: what was submitted is a graph.
LEMMA CopyStepKeepsIt ==
  ASSUME Typed, CopiesInv, NEW c \in Calls, Copy(c)
  PROVE  CopiesInv'
<1>1. pc[c] = "copying" /\ name[c] \in Names /\ IsGraph(P(c).json)
  BY SubmissionIsDecoded DEF Copy, Decoded
<1>2. /\ name' = name /\ copy' = [copy EXCEPT ![c] = CopyStep(copy[c], P(c).json)]
      /\ \A d \in Calls \ {c} : pc'[d] = pc[d] /\ copy'[d] = copy[d]
      /\ copy'[c] = CopyStep(copy[c], P(c).json)
      /\ pc'[c] = "copying" => copy'[c].verdict = "copying"
      /\ pc'[c] # "new"
  BY <1>1 DEF Copy, callVars, Typed, TypeOK
<1>3. P(c)' = P(c)
  BY <1>2 DEF P
<1>4. CopyInv(P(c)'.json, copy'[c])
  <2> DEFINE json == P(c).json
             before == copy[c]
  <2>1. IsGraph(json) /\ CopyInv(json, before) /\ before.verdict = "copying"
    BY <1>1 DEF CopiesInv
  <2> HIDE DEF json, before
  <2>2. CopyInv(json, CopyStep(before, json))
    BY <2>1, CopyDecides
  <2> QED BY <1>2, <1>3, <2>2 DEF json, before
<1>5. ASSUME NEW d \in Calls \ {c}
      PROVE  /\ CopyInv(P(d)'.json, copy'[d])
             /\ pc'[d] = "new" => copy'[d] = NoCopy
             /\ pc'[d] = "copying" => copy'[d].verdict = "copying"
  BY <1>2, CopyKept
<1> QED BY <1>2, <1>4, <1>5 DEF CopiesInv

\* So does every step.
LEMMA CopiesNext ==
  ASSUME IInv, CopiesInv, [Next]_vars
  PROVE  CopiesInv'
<1>1. Typed
  BY DEF IInv
<1>2. ASSUME NEW c \in Calls, NEW n \in Names, Submit(c, n) PROVE CopiesInv'
  <2>1. /\ pc[c] = "new" /\ pc'[c] # "new" /\ copy' = copy
        /\ \A d \in Calls \ {c} : pc'[d] = pc[d] /\ name'[d] = name[d]
    BY <1>1, <1>2 DEF Submit, Typed, TypeOK
  <2>2. copy'[c] = NoCopy
    BY <2>1 DEF CopiesInv
  <2>3. CopyInv(P(c)'.json, copy'[c]) /\ copy'[c].verdict = "copying"
    BY <2>2, CopyBegins DEF NoCopy
  <2>4. ASSUME NEW d \in Calls \ {c}
        PROVE  /\ CopyInv(P(d)'.json, copy'[d])
               /\ pc'[d] = "new" => copy'[d] = NoCopy
               /\ pc'[d] = "copying" => copy'[d].verdict = "copying"
    BY <2>1, CopyKept
  <2> QED BY <2>1, <2>3, <2>4 DEF CopiesInv
<1>3. ASSUME NEW c \in Calls, Step(c) \/ RecordResult(c), ~Copy(c) PROVE CopiesInv'
  <2>1. copy' = copy /\ name' = name /\ pc'[c] \notin {"new", "copying"}
        /\ \A d \in Calls \ {c} : pc'[d] = pc[d]
    <3>1. CASE Preflight(c)
      BY <1>1, <3>1 DEF Preflight, callVars, Typed, TypeOK
    <3>2. CASE SkipSlot(c)
      BY <1>1, <3>2 DEF SkipSlot, Advance, callVars, Typed, TypeOK
    <3>3. CASE Callback(c)
      BY <1>1, <3>3 DEF Callback, Advance, callVars, Typed, TypeOK
    <3>4. CASE AppendBatch(c)
      BY <1>1, <3>4 DEF AppendBatch, callVars, Typed, TypeOK
    <3>5. CASE Acknowledge(c)
      <4>1. copy' = copy /\ name' = name
        BY <3>5 DEF Acknowledge, callVars
      <4>2. \E stage \in {"returned", "audited_error", "sink_error"} :
              pc' = [pc EXCEPT ![c] = stage]
        BY <3>5 DEF Acknowledge
      <4> QED BY <1>1, <4>1, <4>2 DEF Typed, TypeOK
    <3>6. CASE Return(c)
      BY <1>1, <3>6 DEF Return, callVars, Typed, TypeOK
    <3>7. CASE RecordResult(c)
      BY <1>1, <3>7 DEF RecordResult, callVars, Typed, TypeOK
    <3> QED BY <1>3, <3>1, <3>2, <3>3, <3>4, <3>5, <3>6, <3>7 DEF Step
  <2>2. \A d \in Calls : pc'[d] \in {"new", "copying"} => pc'[d] = pc[d]
    BY <2>1
  <2> QED BY <2>1, <2>2, CopyKept DEF CopiesInv
<1>4. CASE Crash \/ Tick \/ UNCHANGED vars
  <2>1. copy' = copy /\ name' = name
    BY <1>4 DEF Crash, Tick, vars, callVars
  <2>2. \A d \in Calls : pc'[d] \in {pc[d], "lost"}
    BY <1>1, <1>4 DEF Crash, Tick, vars, Typed, TypeOK
  <2>3. \A d \in Calls : pc'[d] \in {"new", "copying"} => pc'[d] = pc[d]
    BY <2>2
  <2> QED BY <2>1, <2>3, CopyKept DEF CopiesInv
<1> QED BY <1>1, <1>2, <1>3, <1>4, CopyStepKeepsIt DEF Next

LEMMA CopiesInductive == Spec => []CopiesInv
<1>1. Init => CopiesInv
  <2> SUFFICES ASSUME Init PROVE CopiesInv
    OBVIOUS
  <2>1. \A c \in Calls : copy[c] = NoCopy
    BY DEF Init
  <2>2. \A c \in Calls : CopyInv(P(c).json, NoCopy)
    BY CopyBegins
  <2> QED BY <2>1, <2>2 DEF CopiesInv, NoCopy
<1>2. IInv /\ CopiesInv /\ [Next]_vars => CopiesInv'
  BY CopiesNext
<1> QED BY <1>1, <1>2, Inductive, PTL DEF Spec

\* Whatever graph of objects is submitted, however its parts are shared: what is copied
\* fits the budget as the tree it unfolds into, what is refused does not, and the copy
\* is within the budget all the way (shield_v4_work_budget.py:67-157).
THEOREM SnapshotDecides == Spec => []SnapshotDecidesTheBudget
<1>1. CopiesInv => SnapshotDecidesTheBudget
  <2> SUFFICES ASSUME CopiesInv, NEW c \in Calls
               PROVE  /\ copy[c].verdict = "copied" => FitsBudget(P(c).json)
                      /\ copy[c].verdict = "over_budget" => ~FitsBudget(P(c).json)
                      /\ copy[c].nodes <= MaxNodes /\ copy[c].bytes <= MaxBytes
                      /\ Len(copy[c].path) <= MaxDepth
    BY DEF SnapshotDecidesTheBudget
  <2>1. CopyInv(P(c).json, copy[c])
    BY DEF CopiesInv
  <2> QED BY <2>1 DEF CopyInv, Opened
<1> QED BY <1>1, CopiesInductive, PTL

(***************************************************************************)
(* What a host may rely on of the callbacks and their records.             *)
(***************************************************************************)

\* A call whose signatures were looked at has gone through its preflight.
LEMMA LookedAt ==
  ASSUME IInv, NEW c \in Calls, AskedInv(c), slot[c] # 0
  PROVE  /\ Decoded(P(c)) /\ now[c] \in Int /\ minimum[c] \in Nat
         /\ \E ids : PreflightRejection(P(c), now[c], minimum[c], ids) = OK
<1>1. Typed /\ StageInv(c)
  BY DEF IInv
<1>2. pc[c] # "new"
  BY <1>1 DEF StageInv
<1>3. Decoded(P(c)) /\ now[c] \in Int /\ minimum[c] \in Nat
  BY <1>1, <1>2, SubmissionIsDecoded, BoundsAssumption DEF Typed, TypeOK
<1>4. Accepted(c)
  BY DEF AskedInv
<1> QED BY <1>3, <1>4 DEF Accepted

\* No backend is asked before every bundle and every key of the whole receipt has
\* passed (verifier lines 1228-1345, 1013-1061).
THEOREM PreflightComesFirst == Spec => []NoCallbackBeforePreflight
<1>1. IInv /\ (\A c \in Calls : AskedInv(c)) => NoCallbackBeforePreflight
  <2> SUFFICES ASSUME IInv, \A d \in Calls : AskedInv(d), NEW c \in Calls,
                      Validated(c) \/ transcript[c] # <<>>
               PROVE  Checkable(P(c), now[c], minimum[c]) /\ Untampered(P(c).receipt)
    BY DEF NoCallbackBeforePreflight
  <2>1. slot[c] # 0
    <3>1. CASE Validated(c)
      BY <3>1 DEF Validated
    <3>2. CASE transcript[c] # <<>>
      <4>1. transcript[c] \in Observations
        BY DEF AskedInv
      <4>2. Len(transcript[c]) # 0
        BY <3>2, <4>1, EmptySeq DEF Observations
      <4> QED BY <4>2 DEF IInv, StageInv
    <3> QED BY <3>1, <3>2
  <2>2. Decoded(P(c)) /\ now[c] \in Int /\ minimum[c] \in Nat
    BY <2>1, LookedAt
  <2>3. PICK ids : PreflightRejection(P(c), now[c], minimum[c], ids) = OK
    BY <2>1, LookedAt
  <2> QED BY <2>2, <2>3, PreflightChecks
<1> QED BY <1>1, Inductive, AskedInductive, PTL

\* A verified result means that the backend has said yes about every signature of
\* the receipt, asked once for each, wave by wave, and never out of budget
\* (verifier lines 1013-1061).
THEOREM EverySignatureIsAsked == Spec => []VerifiedMeansEverySignature
<1>1. IInv /\ (\A c \in Calls : AskedInv(c)) => VerifiedMeansEverySignature
  <2> SUFFICES ASSUME IInv, \A d \in Calls : AskedInv(d), NEW c \in Calls
               PROVE  LET n == Len(transcript[c])
                      IN  /\ \A i \in 1..(n - 1) : /\ Called(c)[i] < Called(c)[i + 1]
                                                   /\ transcript[c][i].rejection = OK
                          /\ Verified(c) => /\ Range(Called(c)) = SignedSlots(P(c).receipt)
                                            /\ n > 0 /\ transcript[c][n].rejection = OK
                                            /\ cause[c] = OK
                          /\ Validated(c) /\ cause[c] # OK =>
                               n > 0 /\ transcript[c][n].rejection = cause[c]
    BY DEF VerifiedMeansEverySignature
  <2> DEFINE n == Len(transcript[c])
  <2>1. n \in Nat /\ AskedInv(c)
    <3>1. AskedInv(c)
      OBVIOUS
    <3>2. transcript[c] \in Observations
      BY <3>1 DEF AskedInv
    <3> QED BY <3>1, <3>2, LenProperties DEF Observations
  <2>2. /\ DOMAIN Called(c) = 1..n /\ \A i \in 1..n : Called(c)[i] = transcript[c][i].slot
        /\ Range(Called(c)) = SlotsOf(transcript[c])
    BY DEF Called, SlotsOf, Range
  <2>3. slot[c] # 0 => Going(c) \/ Stopped(c)
    BY <2>1 DEF AskedInv
  <2>4. slot[c] = 0 => n = 0
    BY DEF IInv, StageInv
  <2>5. \A i \in 1..(n - 1) : /\ Called(c)[i] < Called(c)[i + 1]
                              /\ transcript[c][i].rejection = OK
    <3> SUFFICES ASSUME NEW i \in 1..(n - 1)
                 PROVE  /\ Called(c)[i] < Called(c)[i + 1]
                        /\ transcript[c][i].rejection = OK
      OBVIOUS
    <3>1. i \in 1..n /\ i + 1 \in 1..n /\ i < i + 1 /\ slot[c] # 0
      BY <2>1, <2>4
    <3>2. Called(c)[i] < Called(c)[i + 1]
      BY <2>1, <2>2, <3>1 DEF AskedInv, InOrder
    <3> QED BY <2>3, <3>1, <3>2 DEF Going, Stopped, AllOK
  <2>6. ASSUME Verified(c)
        PROVE  /\ Range(Called(c)) = SignedSlots(P(c).receipt)
               /\ n > 0 /\ transcript[c][n].rejection = OK
               /\ cause[c] = OK
    <3>1. slot[c] = Slots + 1 /\ slot[c] # 0 /\ ~(slot[c] <= Slots) /\ slot[c] - 1 = Slots
      BY <2>6, SlotsNat DEF Verified
    <3>2. Going(c)
      BY <2>3, <3>1 DEF Stopped
    <3>3. SlotsOf(transcript[c]) = SignedSlots(P(c).receipt)
      BY <3>1, <3>2 DEF Going, SignedSlots
    <3>4. PICK ids : PreflightRejection(P(c), now[c], minimum[c], ids) = OK
      BY <3>1, LookedAt
    <3>5. 1 \in SignedSlots(P(c).receipt)
      BY <3>1, <3>4, LookedAt, FirstSlotSigned
    <3>6. n > 0
      BY <2>1, <3>3, <3>5 DEF SlotsOf
    <3> QED BY <2>1, <2>2, <3>2, <3>3, <3>6 DEF Going, AllOK
  <2>7. Validated(c) /\ cause[c] # OK => n > 0 /\ transcript[c][n].rejection = cause[c]
    BY <2>3 DEF Validated, Going, Stopped
  <2> QED BY <2>5, <2>6, <2>7
<1> QED BY <1>1, Inductive, AskedInductive, PTL

\* What the two reports of a rejection have in common.
LEMMA ReportsAgree ==
  ASSUME NEW x, x # OK
  PROVE  /\ AuditReasonOf(x) # "V4_VERIFY_OK"
         /\ Report(x)[1] = "REJECTED_CONTEXT_MISMATCH" => x = "CONTRACT_CONTEXT"
         /\ Report(x)[1] = "REJECTED_SIGNATURE_INVALID" =>
              x \in {"NO_BACKEND", "BACKEND_FAILURE", "SIGNATURE_INVALID"}
         /\ Report(x)[1] # "VERIFIED_ALLOW_EVIDENCE_CONTINUE_CHECKS"
BY DEF AuditReasonOf, Report

\* The reason in the records and the state of the result agree on what passed, and
\* a result that blames context or signature is about what the receipt or the
\* backend did (verifier _audit_reason_for_contract_error, audit _reason_for_result).
THEOREM OneStory == Spec => []ReasonsAgree
<1>1. IInv /\ (\A c \in Calls : AskedInv(c)) => ReasonsAgree
  <2> SUFFICES ASSUME IInv, \A d \in Calls : AskedInv(d), NEW c \in Calls, pc[c] = "decided"
               PROVE  LET state == ResultState(c)
                          r     == P(c).receipt
                      IN  /\ cause[c] = OK <=> AuditReasonOf(cause[c]) = "V4_VERIFY_OK"
                          /\ state = "REJECTED_CONTEXT_MISMATCH" => ContextMismatch(P(c))
                          /\ state = "REJECTED_SIGNATURE_INVALID" =>
                               transcript[c] # <<>> \/ ~P(c).backend
                          /\ state = "VERIFIED_ALLOW_EVIDENCE_CONTINUE_CHECKS" =>
                               \A i \in DOMAIN r.components : r.components[i].decision = "ALLOW"
    BY DEF ReasonsAgree
  <2> DEFINE state == ResultState(c)
             r     == P(c).receipt
             x     == cause[c]
  <2>1. StageInv(c) /\ AskedInv(c)
    BY DEF IInv
  <2>2. x # OK => state = Report(x)[1]
    BY DEF ResultState, StateOf
  <2>3. x = OK => state = VerifiedState(r) /\ AuditReasonOf(x) = "V4_VERIFY_OK" /\ slot[c] # 0
    BY <2>1 DEF ResultState, StateOf, AuditReasonOf, StageInv
  <2>4. x # OK => \/ slot[c] = 0 /\ Explained(c)
                  \/ /\ x \in {"SIGNATURE_INVALID", "BACKEND_FAILURE"}
                     /\ Len(transcript[c]) > 0
    BY <2>1 DEF AskedInv, Going, Stopped
  <2>5. CASE x # OK
    <3>1. state = "REJECTED_CONTEXT_MISMATCH" => ContextMismatch(P(c))
      <4>1. state = "REJECTED_CONTEXT_MISMATCH" => x = "CONTRACT_CONTEXT"
        BY <2>2, <2>5, ReportsAgree
      <4>2. Explained(c) /\ x = "CONTRACT_CONTEXT" => ContextMismatch(P(c))
        BY GroundsHold DEF Explained
      <4> QED BY <2>4, <2>5, <4>1, <4>2
    <3>2. state = "REJECTED_SIGNATURE_INVALID" => transcript[c] # <<>> \/ ~P(c).backend
      <4>1. state = "REJECTED_SIGNATURE_INVALID" =>
              x \in {"NO_BACKEND", "BACKEND_FAILURE", "SIGNATURE_INVALID"}
        BY <2>2, <2>5, ReportsAgree
      <4>2. Len(transcript[c]) > 0 => transcript[c] # <<>>
        OBVIOUS
      <4>3. Explained(c) /\ x = "NO_BACKEND" => ~P(c).backend
        BY GroundsHold DEF Explained
      <4>4. Explained(c) => x \notin {"SIGNATURE_INVALID", "BACKEND_FAILURE"}
        BY GroundsHold DEF Explained
      <4> QED BY <2>4, <2>5, <4>1, <4>2, <4>3, <4>4
    <3> HIDE DEF state, x
    <3>3. /\ AuditReasonOf(x) # "V4_VERIFY_OK"
          /\ state # "VERIFIED_ALLOW_EVIDENCE_CONTINUE_CHECKS"
      BY <2>2, <2>5, ReportsAgree
    <3> QED BY <2>5, <3>1, <3>2, <3>3 DEF state, x
  <2>6. CASE x = OK
    <3>1. state \in {"VERIFIED_DENY_DOMINATES", "VERIFIED_HUMAN_REVIEW_REQUIRED",
                     "VERIFIED_ALLOW_EVIDENCE_CONTINUE_CHECKS"}
      BY <2>3, <2>6 DEF VerifiedState
    <3>2. ASSUME state = "VERIFIED_ALLOW_EVIDENCE_CONTINUE_CHECKS"
          PROVE  \A i \in DOMAIN r.components : r.components[i].decision = "ALLOW"
      <4>1. r.outcome \notin {"DENY", "HUMAN_REVIEW_REQUIRED"}
        BY <2>3, <2>6, <3>2 DEF VerifiedState
      <4>2. Decoded(P(c)) /\ now[c] \in Int /\ minimum[c] \in Nat
        BY <2>1, <2>3, <2>6, LookedAt
      <4>3. PICK ids : PreflightRejection(P(c), now[c], minimum[c], ids) = OK
        BY <2>1, <2>3, <2>6, LookedAt
      <4>4. Checkable(P(c), now[c], minimum[c])
        BY <4>2, <4>3, PreflightChecks
      <4>5. r.outcome = ExpectedOutcome(r.components)
        <5>1. ReceiptRejection(P(c), ids) = OK
          BY <4>2, <4>3, PreflightOutcome
        <5>2. ContractRejection(r, P(c).context) = OK
          BY <4>2, <5>1, ReceiptOutcome
        <5>3. r.components \in Seq(Range(r.components)) /\ r.results \in Seq(Range(r.results))
          BY <4>2 DEF Decoded
        <5> QED BY <5>2, <5>3, ContractOutcome
      <4>6. r.outcome = "ALLOW"
        BY <4>1, <4>5 DEF ExpectedOutcome
      <4>7. {r.components[i].decision : i \in DOMAIN r.components} = {"ALLOW"}
        BY <4>4, <4>6 DEF Checkable
      <4> QED BY <4>7
    <3> QED BY <2>3, <2>6, <3>1, <3>2
  <2> QED BY <2>5, <2>6
<1> QED BY <1>1, Inductive, AskedInductive, PTL

(***************************************************************************)
(* What the log says.                                                      *)
(***************************************************************************)

\* A record passes when nothing was rejected, and its reason says so.
LEMMA RecordSays ==
  ASSUME NEW kind, NEW at, NEW rejection
  PROVE  LET record == AuditRecord(kind, at, rejection)
         IN  /\ record.kind = kind /\ record.slot = at
             /\ record.reason = AuditReasonOf(rejection)
             /\ record.passed <=> rejection = OK
             /\ record.passed <=> record.reason = "V4_VERIFY_OK"
<1>1. AuditReasonOf(rejection) = "V4_VERIFY_OK" <=> rejection = OK
  <2>1. CASE rejection = OK
    BY <2>1 DEF AuditReasonOf
  <2>2. CASE rejection # OK
    BY <2>2, ReportsAgree
  <2> QED BY <2>1, <2>2
<1> QED BY <1>1 DEF AuditRecord

\* The batch of a receipt that was looked at.
LEMMA ValidatedTells ==
  ASSUME IInv, NEW c \in Calls, AskedInv(c), pc[c] = "decided", Validated(c),
         ~BatchRefused(Records(c))
  PROVE  Tells(Batch(c))
<1> DEFINE k == Len(transcript[c])
           tr == transcript[c]
           rs == Records(c)
           n == Len(rs)
           signatures == {i \in 1..n : rs[i].kind = "signature"}
<1>1. k \in Nat /\ StageInv(c) /\ tr \in Observations /\ InOrder(tr)
  BY DEF AskedInv, IInv, Typed
<1>2. /\ rs[1] = AuditRecord("preflight", 0, OK)
      /\ \A i \in 1..k : rs[i + 1] = AuditRecord("signature", tr[i].slot, tr[i].rejection)
      /\ n = k + 2
      /\ rs[n] = AuditRecord("artifact", 0, cause[c])
  BY <1>1, RecordsShape
<1>3. slot[c] # 0 /\ (Going(c) \/ Stopped(c))
  BY DEF Validated, AskedInv
<1>4. Batch(c).records = rs /\ Batch(c).transport = name[c]
  BY DEF Batch
<1>5. n \in 1..MaxAuditRecords
  BY <1>1, <1>2, BoundsAssumption DEF BatchRefused
<1> HIDE DEF rs, n, k
<1>6. /\ 1 \in 1..n /\ n \in 1..n /\ n # 1 /\ n \in Nat
      /\ \A i \in 1..k : i + 1 \in 1..n /\ i + 1 # 1 /\ i + 1 # n
      /\ \A i \in 1..n : i = 1 \/ i = n \/ (i - 1 \in 1..k /\ (i - 1) + 1 = i)
  BY <1>1, <1>2 DEF k
<1>7. /\ rs[1].kind = "preflight" /\ rs[1].passed
      /\ rs[1].passed <=> rs[1].reason = "V4_VERIFY_OK"
      /\ rs[1].reason = AuditReasonOf(OK)
  BY <1>2, RecordSays
<1>8. /\ rs[n].kind = "artifact" /\ rs[n].reason = AuditReasonOf(cause[c])
      /\ rs[n].passed <=> cause[c] = OK
      /\ rs[n].passed <=> rs[n].reason = "V4_VERIFY_OK"
  BY <1>2, RecordSays
<1>9. \A i \in 1..k : /\ rs[i + 1].kind = "signature" /\ rs[i + 1].slot = tr[i].slot
                      /\ rs[i + 1].reason = AuditReasonOf(tr[i].rejection)
                      /\ rs[i + 1].passed <=> tr[i].rejection = OK
                      /\ rs[i + 1].passed <=> rs[i + 1].reason = "V4_VERIFY_OK"
  BY <1>2, RecordSays
<1>10. /\ \A i \in 1..n : rs[i].kind = "preflight" <=> i = 1
       /\ \A i \in 1..n : rs[i].passed <=> rs[i].reason = "V4_VERIFY_OK"
  BY <1>6, <1>7, <1>8, <1>9
<1>11. /\ signatures = {i + 1 : i \in 1..k}
       /\ 2..(n - 1) = {i + 1 : i \in 1..k}
  <2>1. signatures = {i + 1 : i \in 1..k}
    BY <1>6, <1>7, <1>8, <1>9
  <2>2. ASSUME NEW j PROVE j \in 2..(n - 1) <=> j \in {i + 1 : i \in 1..k}
    <3>1. n - 1 = k + 1 /\ k \in Nat
      BY <1>1, <1>2 DEF k
    <3>2. ASSUME j \in 2..(n - 1) PROVE j \in {i + 1 : i \in 1..k}
      <4>1. j - 1 \in 1..k /\ j = (j - 1) + 1
        BY <3>1, <3>2
      <4> QED BY <4>1
    <3>3. ASSUME NEW i \in 1..k, j = i + 1 PROVE j \in 2..(n - 1)
      BY <3>1, <3>3
    <3> QED BY <3>2, <3>3
  <2> QED BY <2>1, <2>2
<1>12. rs[n].reason = rs[n - 1].reason
  <2>1. CASE k = 0
    <3>1. cause[c] = OK /\ n - 1 = 1
      BY <1>2, <1>3, <2>1 DEF Going, Stopped, k
    <3> QED BY <1>7, <1>8, <3>1
  <2>2. CASE k # 0
    <3>1. k \in 1..k /\ n - 1 = k + 1
      BY <1>1, <1>2, <2>2 DEF k
    <3>2. tr[k].rejection = cause[c]
      BY <1>3, <3>1 DEF Going, Stopped, AllOK, k
    <3> QED BY <1>8, <1>9, <3>1, <3>2
  <2> QED BY <2>1, <2>2
<1>13. \A i \in signatures : ~rs[i].passed => i = n - 1
  <2> SUFFICES ASSUME NEW i \in 1..k, tr[i].rejection # OK PROVE i + 1 = n - 1
    BY <1>9, <1>11
  <2>1. i \notin 1..(k - 1)
    BY <1>3 DEF Going, Stopped, AllOK, k
  <2> QED BY <1>1, <1>2, <2>1 DEF k
<1>14. \A i, j \in signatures : i < j => rs[i].slot < rs[j].slot
  <2> SUFFICES ASSUME NEW i \in 1..k, NEW j \in 1..k, i + 1 < j + 1
               PROVE  tr[i].slot < tr[j].slot
    BY <1>9, <1>11
  <2> QED BY <1>1 DEF InOrder, k
<1>15. ASSUME rs[n].passed
       PROVE  {rs[i].slot : i \in signatures} = SignedSlots(Submitted[name[c]].receipt)
  <2>1. {rs[i].slot : i \in signatures} = {tr[i].slot : i \in 1..k}
    <3>1. {rs[i].slot : i \in signatures} = {rs[i + 1].slot : i \in 1..k}
      BY <1>11
    <3> QED BY <1>9, <3>1
  <2>2. cause[c] = OK /\ Verified(c)
    BY <1>3, <1>8, <1>15 DEF AskedInv
  <2>3. Going(c) /\ slot[c] - 1 = Slots
    BY <1>3, <2>2, SlotsNat DEF Stopped, OK, Verified
  <2>4. SlotsOf(tr) = SignedSlots(P(c).receipt)
    BY <2>3 DEF Going, SignedSlots
  <2> QED BY <2>1, <2>4 DEF SlotsOf, P, k
<1> HIDE DEF signatures
<1>16. Tells(Batch(c))
  BY <1>4, <1>5, <1>6, <1>7, <1>8, <1>10, <1>11, <1>12, <1>13, <1>14, <1>15
     DEF Tells, signatures, n
<1> QED BY <1>16

\* The batch of a receipt that was not.
LEMMA RejectedTells ==
  ASSUME IInv, NEW c \in Calls, pc[c] \in {"decided", "failed"}, ~Validated(c),
         ~BatchRefused(Records(c))
  PROVE  Tells(Batch(c))
<1> DEFINE rs == Records(c)
<1>1. StageInv(c) /\ Len(transcript[c]) \in Nat /\ slot[c] = 0
  BY SlotsNat DEF IInv, Typed, TypeOK, Validated
<1>2. Len(rs) = 1 /\ cause[c] # OK /\ rs[1] = AuditRecord("preflight", 0, cause[c])
  <2>1. CASE pc[c] = "failed"
    <3>1. rs = << AuditRecord("preflight", 0, "CONTRACT") >> /\ cause[c] = "CONTRACT"
      BY <1>1, <2>1 DEF Records, StageInv
    <3> QED BY <3>1 DEF OK
  <2>2. CASE pc[c] = "decided"
    <3>1. Len(transcript[c]) = 0 /\ cause[c] # OK
      BY <1>1, <2>2 DEF StageInv
    <3>2. Len(rs) = 0 + 1 /\ rs[1] = AuditRecord("preflight", 0, cause[c])
      BY <1>1, <2>2, <3>1, RecordsShape
    <3> QED BY <3>1, <3>2
  <2> QED BY <2>1, <2>2
<1>3. Batch(c).records = rs
  BY DEF Batch
<1>4. 1 \in 1..MaxAuditRecords
  BY <1>2, BoundsAssumption DEF BatchRefused
<1>5. /\ rs[1].kind = "preflight" /\ ~rs[1].passed
      /\ rs[1].passed <=> rs[1].reason = "V4_VERIFY_OK"
  BY <1>2, RecordSays
<1> HIDE DEF rs
<1>6. \A i : i \in 1..1 <=> i = 1
  OBVIOUS
<1> QED BY <1>2, <1>3, <1>4, <1>5, <1>6 DEF Tells

\* The log is only ever written by an append.
LEMMA LogWritten ==
  ASSUME [Next]_vars
  PROVE  log' = log \/ \E c \in Calls : AppendBatch(c)
<1>1. ASSUME NEW c \in Calls,
             Step(c) \/ RecordResult(c) \/ \E n \in Names : Submit(c, n)
      PROVE  log' = log \/ AppendBatch(c)
  BY <1>1 DEF Step, Copy, Preflight, SkipSlot, Callback, Acknowledge, Return,
              RecordResult, Submit
<1> QED BY <1>1 DEF Next, Crash, Tick, vars

\* A batch that is appended tells its verification, like those before it.
LEMMA LogNext ==
  ASSUME IInv, \A c \in Calls : AskedInv(c), BatchTellsTheVerification, [Next]_vars
  PROVE  BatchTellsTheVerification'
<1>1. CASE log' = log
  BY <1>1 DEF BatchTellsTheVerification, Tells
<1>2. ASSUME NEW c \in Calls, AppendBatch(c) PROVE BatchTellsTheVerification'
  <2>1. PICK S : log \in Seq(S)
    BY Zenon DEF IInv, Typed
  <2>2. CASE BatchRefused(Records(c))
    <3>1. log' = log
      BY <1>2, <2>2 DEF AppendBatch, Batch
    <3> QED BY <1>1, <3>1
  <2>3. CASE ~BatchRefused(Records(c))
    <3>1. Range(log') \in {Range(log), Range(log) \cup {Batch(c)}}
      BY <1>2, <2>1, AppendLog, Zenon
    <3>2. pc[c] \in {"decided", "failed"} /\ AskedInv(c)
      BY <1>2 DEF AppendBatch
    <3>3. pc[c] = "failed" => ~Validated(c)
      BY DEF IInv, StageInv, Validated
    <3>4. Tells(Batch(c))
      BY <2>3, <3>2, <3>3, ValidatedTells, RejectedTells
    <3>5. \A b \in Range(log') : Tells(b)
      BY <3>1, <3>4 DEF BatchTellsTheVerification
    <3> QED BY <3>5 DEF BatchTellsTheVerification, Tells
  <2> QED BY <2>2, <2>3
<1>3. log' = log \/ \E c \in Calls : AppendBatch(c)
  BY LogWritten
<1> QED BY <1>1, <1>2, <1>3

\* Every batch in the log tells the verification it comes from: one record for each
\* callback, in order, the last of them alone failed, and nothing passed that was
\* not asked for (audit lines 263-345, 524-549).
THEOREM LogTellsTheVerification == Spec => []BatchTellsTheVerification
<1> DEFINE Asked == \A c \in Calls : AskedInv(c)
<1>1. IInv /\ Asked /\ BatchTellsTheVerification /\ [Next]_vars => BatchTellsTheVerification'
  BY LogNext
<1>2. Init => BatchTellsTheVerification
  BY DEF Init, BatchTellsTheVerification, Range
<1>3. Spec => []Asked
  BY AskedInductive
<1> HIDE DEF Asked
<1> QED BY <1>1, <1>2, <1>3, Inductive, PTL DEF Spec

(***************************************************************************)
(* What the log blames.                                                    *)
(***************************************************************************)

\* The causes a reason stands for.
LEMMA CausesOf ==
  ASSUME NEW x
  PROVE  /\ AuditReasonOf(x) = "V4_CONTEXT_MISMATCH" => x = "CONTRACT_CONTEXT"
         /\ AuditReasonOf(x) = "V4_REQUEST_MISMATCH" => x = "REQUEST_MISMATCH"
         /\ AuditReasonOf(x) = "V4_HASH_MISMATCH" => x \in {"HASH_MISMATCH", "BUNDLE_TAMPERED"}
         /\ AuditReasonOf(x) = "V4_FRESHNESS_INVALID" => x \in {"FRESHNESS", "INVALID_TIME"}
         /\ AuditReasonOf(x) = "V4_SIGNATURE_INVALID" => x = "SIGNATURE_INVALID"
         /\ AuditReasonOf(x) = "V4_BACKEND_FAILURE" => x = "BACKEND_FAILURE"
         /\ AuditReasonOf(x) = "V4_REPLAY_REJECTED" => x = "REPLAY"
BY DEF AuditReasonOf, Report

\* The replay of a request id the host had seen, of the call that asked for it.
Replays(p) == p.receipt.request_id = p.request_id /\ p.receipt.request_id \in seen

\* A batch blames what is so when it is appended.
LEMMA BatchBlames ==
  ASSUME IInv, NEW c \in Calls, AskedInv(c), pc[c] \in {"decided", "failed"}, P(c).audited
  PROVE  /\ BlamesWhatIsSo(Batch(c))
         /\ Last(Batch(c).records).reason = "V4_REPLAY_REJECTED" =>
              P(c).receipt.receipt_hash \in P(c).denylist \/ Replays(P(c))
<1> DEFINE p == P(c)
           x == cause[c]
           reason == Last(Records(c)).reason
           k == Len(transcript[c])
<1>1. StageInv(c) /\ slot[c] \in Nat /\ k \in Nat
  BY SlotsNat DEF IInv, Typed, TypeOK
<1>2. reason = AuditReasonOf(x)
  BY <1>1, RecordsEnd
<1>3. /\ Batch(c).records = Records(c) /\ Submitted[Batch(c).transport] = p
      /\ Batch(c).time = now[c]
  BY DEF Batch, P
<1>4. CASE slot[c] = 0
  <2>1. PICK ids \in SUBSET seen : x \in Grounds(p, now[c], ids)
    BY <1>4 DEF AskedInv, Explained
  <2>2. p.input_defect # "date" /\ p.input_defect # "time"
    BY DEF AskedInv, AuditRefuses
  <2> HIDE DEF x, p
  <2>3. /\ x = "CONTRACT_CONTEXT" => ContextMismatch(p)
        /\ x \in {"HASH_MISMATCH", "BUNDLE_TAMPERED"} => ~Untampered(p.receipt)
        /\ x = "REQUEST_MISMATCH" => p.receipt.request_id # p.request_id
        /\ x = "REPLAY" => p.receipt.receipt_hash \in p.denylist \/ Replays(p)
        /\ x \in {"FRESHNESS", "INVALID_TIME"} => NotCurrent(p, now[c])
        /\ x \notin {"SIGNATURE_INVALID", "BACKEND_FAILURE"}
    BY <2>1, <2>2, GroundsHold DEF Replays
  <2> HIDE DEF reason
  <2>4. /\ reason = "V4_CONTEXT_MISMATCH" => ContextMismatch(p)
        /\ reason = "V4_REQUEST_MISMATCH" => p.receipt.request_id # p.request_id
        /\ reason = "V4_HASH_MISMATCH" => ~Untampered(p.receipt)
        /\ reason = "V4_FRESHNESS_INVALID" => NotCurrent(p, now[c])
        /\ reason # "V4_SIGNATURE_INVALID" /\ reason # "V4_BACKEND_FAILURE"
        /\ reason = "V4_REPLAY_REJECTED" =>
             p.receipt.receipt_hash \in p.denylist \/ Replays(p)
    BY <1>2, <2>3, CausesOf
  <2> QED BY <1>3, <2>4 DEF BlamesWhatIsSo, reason, p
<1>5. CASE slot[c] # 0
  <2>1. Going(c) \/ Stopped(c)
    BY <1>5 DEF AskedInv
  <2>2. CASE x = OK
    <3>1. reason = "V4_VERIFY_OK"
      BY <1>2, <2>2 DEF AuditReasonOf
    <3> HIDE DEF reason
    <3>2. reason \notin {"V4_CONTEXT_MISMATCH", "V4_REQUEST_MISMATCH", "V4_HASH_MISMATCH",
                         "V4_FRESHNESS_INVALID", "V4_SIGNATURE_INVALID",
                         "V4_BACKEND_FAILURE", "V4_REPLAY_REJECTED"}
      BY <3>1
    <3> QED BY <1>3, <3>2 DEF BlamesWhatIsSo, reason
  <2>3. CASE x # OK
    <3>1. /\ k > 0 /\ x \in {"SIGNATURE_INVALID", "BACKEND_FAILURE"}
          /\ x = "SIGNATURE_INVALID" =>
               \E e \in Matching(p.receipt, transcript[c][k].slot) : e.signature # "genuine"
          /\ x = "BACKEND_FAILURE" => faults > 0
      BY <2>1, <2>3 DEF Going, Stopped
    <3>2. Validated(c) /\ pc[c] \notin {"failed", "appending_failure"}
      BY <1>1, <1>5 DEF Validated, StageInv
    <3>3. /\ Len(Records(c)) = k + 2
          /\ \A i \in 1..k : Records(c)[i + 1] = AuditRecord("signature", transcript[c][i].slot,
                                                             transcript[c][i].rejection)
      BY <1>1, <3>2, RecordsShape
    <3>4. k \in 1..k /\ Len(Records(c)) - 1 = k + 1
      BY <1>1, <3>1, <3>3
    <3>5. Records(c)[Len(Records(c)) - 1].slot = transcript[c][k].slot
      <4>1. Records(c)[Len(Records(c)) - 1]
              = AuditRecord("signature", transcript[c][k].slot, transcript[c][k].rejection)
        BY <3>3, <3>4
      <4> QED BY <4>1, RecordSays
    <3> HIDE DEF reason, x, k
    <3>6. /\ reason \notin {"V4_CONTEXT_MISMATCH", "V4_REQUEST_MISMATCH", "V4_HASH_MISMATCH",
                            "V4_FRESHNESS_INVALID", "V4_REPLAY_REJECTED"}
          /\ reason = "V4_SIGNATURE_INVALID" => x = "SIGNATURE_INVALID"
          /\ reason = "V4_BACKEND_FAILURE" => x = "BACKEND_FAILURE"
      BY <1>2, <3>1, CausesOf
    <3> QED BY <1>3, <3>1, <3>5, <3>6 DEF BlamesWhatIsSo, reason
  <2> QED BY <2>2, <2>3
<1> QED BY <1>4, <1>5

\* What the batch at place n says is so.
Backed(b, n) ==
  /\ BlamesWhatIsSo(b)
  /\ Last(b.records).reason = "V4_REPLAY_REJECTED" =>
       \/ Submitted[b.transport].receipt.receipt_hash \in Submitted[b.transport].denylist
       \/ AcceptedBefore(b.request_id, n)

\* An append leaves what is there in its place.
LEMMA AppendKeeps ==
  ASSUME NEW S, log \in Seq(S), NEW c \in Calls, AppendBatch(c)
  PROVE  /\ DOMAIN log = 1..Len(log) /\ Len(log) \in Nat
         /\ DOMAIN log \subseteq DOMAIN log'
         /\ \A n \in DOMAIN log : log'[n] = log[n]
         /\ \A n \in DOMAIN log' \ DOMAIN log :
              log'[n] = Batch(c) /\ n \in Nat /\ n > Len(log)
<1>1. PICK batch \in {Batch(c)}, stored \in 0..2 :
        IF BatchRefused(batch.records) THEN UNCHANGED log
        ELSE log' = log \o [i \in 1..stored |-> batch]
  BY Zenon DEF AppendBatch
<1>2. DOMAIN log = 1..Len(log) /\ Len(log) \in Nat
  BY LenProperties
<1>3. CASE BatchRefused(batch.records)
  <2>1. log' = log
    BY <1>1, <1>3
  <2> QED BY <1>2, <2>1
<1>4. CASE ~BatchRefused(batch.records)
  <2> DEFINE copies == [i \in 1..stored |-> batch]
             T == S \cup {batch}
  <2>1. copies \in Seq(T) /\ Len(copies) = stored /\ stored \in Nat
        /\ \A i \in 1..stored : copies[i] = batch
    OBVIOUS
  <2>2. log \in Seq(T) /\ log' = log \o copies
    <3>1. log' = log \o copies
      BY <1>1, <1>4, Zenon
    <3> QED BY <3>1
  <2> HIDE DEF copies, T
  <2>3. /\ log \o copies \in Seq(T) /\ Len(log \o copies) = Len(log) + stored
        /\ \A i \in 1..(Len(log) + stored) :
             (log \o copies)[i] = IF i <= Len(log) THEN log[i] ELSE copies[i - Len(log)]
    BY <2>1, <2>2, ConcatProperties
  <2>4. DOMAIN log' = 1..(Len(log) + stored)
    BY <2>2, <2>3, LenProperties
  <2>5. \A i \in 1..Len(log) : log'[i] = log[i] /\ i \in 1..(Len(log) + stored)
    BY <1>2, <2>1, <2>2, <2>3
  <2>6. ASSUME NEW i \in 1..(Len(log) + stored), i \notin 1..Len(log)
        PROVE  log'[i] = batch /\ i \in Nat /\ i > Len(log)
    <3>1. i \in Nat /\ i > Len(log) /\ ~(i <= Len(log)) /\ i - Len(log) \in 1..stored
      BY <1>2, <2>1, <2>6
    <3> QED BY <2>1, <2>2, <2>3, <3>1
  <2> QED BY <1>1, <1>2, <2>4, <2>5, <2>6
<1> QED BY <1>3, <1>4

\* What was accepted before stays accepted before.
LEMMA AcceptedKept ==
  ASSUME Typed, [Next]_vars, NEW id, NEW m \in Nat, NEW n \in Nat, m <= n,
         \A i \in 1..(m - 1) : log'[i] = log[i], AcceptedBefore(id, m)
  PROVE  AcceptedBefore(id, n)'
<1>1. CASE \E i \in 1..(m - 1) : log[i].request_id = id /\ Last(log[i].records).passed
  <2>1. PICK i \in 1..(m - 1) : log[i].request_id = id /\ Last(log[i].records).passed
    BY <1>1
  <2>2. log'[i] = log[i] /\ i \in 1..(n - 1)
    OBVIOUS
  <2>3. log'[i].request_id = id /\ Last(log'[i].records).passed
    BY <2>1, <2>2
  <2> QED BY <2>2, <2>3 DEF AcceptedBefore
<1>2. ASSUME NEW c \in Calls,
             pc[c] = "recorded" /\ ~P(c).audited /\ P(c).receipt.request_id = id
      PROVE  AcceptedBefore(id, n)'
  <2>1. pc'[c] = "recorded" /\ P(c)' = P(c)
    BY <1>2, RecordedKept
  <2> QED BY <1>2, <2>1 DEF AcceptedBefore
<1> QED BY <1>1, <1>2 DEF AcceptedBefore

\* A request id the host has seen was accepted before, as the log stands.
LEMMA SeenIsAccepted ==
  ASSUME IInv, NEW id \in seen
  PROVE  Len(log) \in Nat /\ AcceptedBefore(id, Len(log) + 1)
<1>1. PICK S : log \in Seq(S)
  BY Zenon DEF IInv, Typed
<1>2. Len(log) \in Nat /\ DOMAIN log = 1..Len(log)
  BY <1>1, LenProperties
<1>3. PICK c \in Calls :
        /\ pc[c] = "recorded" /\ P(c).receipt.request_id = id
        /\ P(c).audited => \E b \in Range(log) : b.request_id = id /\ Last(b.records).passed
  BY DEF IInv, SeenIsRecorded
<1>4. CASE ~P(c).audited
  BY <1>2, <1>3, <1>4 DEF AcceptedBefore
<1>5. CASE P(c).audited
  <2>1. PICK i \in 1..Len(log) : log[i].request_id = id /\ Last(log[i].records).passed
    BY <1>2, <1>3, <1>5 DEF Range
  <2>2. (Len(log) + 1) - 1 = Len(log)
    BY <1>2
  <2> QED BY <1>2, <2>1, <2>2 DEF AcceptedBefore
<1> QED BY <1>4, <1>5

\* What the log blames was so and stays so, and what is appended is so.
LEMMA RejectionsNext ==
  ASSUME IInv, \A c \in Calls : AskedInv(c), RejectionsAreTrue, [Next]_vars
  PROVE  RejectionsAreTrue'
<1>1. PICK S : log \in Seq(S)
  BY Zenon DEF IInv, Typed
<1>2. Typed /\ Len(log) \in Nat /\ DOMAIN log = 1..Len(log) /\ (faults > 0 => faults' > 0)
  BY <1>1, LenProperties, FaultsGrow DEF IInv
<1>3. ASSUME NEW b, BlamesWhatIsSo(b) PROVE BlamesWhatIsSo(b)'
  BY <1>2, <1>3 DEF BlamesWhatIsSo
<1>4. ASSUME NEW n \in DOMAIN log, \A i \in DOMAIN log : log'[i] = log[i]
      PROVE  \E b : b = log'[n] /\ Backed(b, n)'
  <2>1. PICK b : b = log[n]
    OBVIOUS
  <2>2. BlamesWhatIsSo(b)
    BY <2>1 DEF RejectionsAreTrue
  <2>3. Last(b.records).reason = "V4_REPLAY_REJECTED" =>
          \/ Submitted[b.transport].receipt.receipt_hash \in Submitted[b.transport].denylist
          \/ AcceptedBefore(b.request_id, n)
    BY <2>1 DEF RejectionsAreTrue
  <2>4. AcceptedBefore(b.request_id, n) => AcceptedBefore(b.request_id, n)'
    <3>1. n \in Nat /\ n <= n /\ \A i \in 1..(n - 1) : log'[i] = log[i]
      BY <1>2, <1>4
    <3> QED BY <1>2, <3>1, AcceptedKept
  <2> QED BY <1>3, <1>4, <2>1, <2>2, <2>3, <2>4 DEF Backed
<1>5. CASE log' = log
  <2>1. \A n \in DOMAIN log' : \E b : b = log'[n] /\ Backed(b, n)'
    BY <1>4, <1>5
  <2> QED BY <2>1 DEF RejectionsAreTrue, Backed, BlamesWhatIsSo, AcceptedBefore
<1>6. ASSUME NEW c \in Calls, AppendBatch(c)
      PROVE  \A n \in DOMAIN log' : \E b : b = log'[n] /\ Backed(b, n)'
  <2>1. /\ \A n \in DOMAIN log : log'[n] = log[n]
        /\ \A n \in DOMAIN log' \ DOMAIN log :
              log'[n] = Batch(c) /\ n \in Nat /\ n > Len(log)
    BY <1>1, <1>6, AppendKeeps
  <2>2. pc[c] \in {"decided", "failed"} /\ P(c).audited
    BY <1>6 DEF AppendBatch
  <2>3. /\ BlamesWhatIsSo(Batch(c))
        /\ Last(Batch(c).records).reason = "V4_REPLAY_REJECTED" =>
              P(c).receipt.receipt_hash \in P(c).denylist \/ Replays(P(c))
    BY <2>2, BatchBlames
  <2>4. ASSUME NEW n \in DOMAIN log' \ DOMAIN log
        PROVE  \E b : b = log'[n] /\ Backed(b, n)'
    <3>1. PICK b : b = Batch(c)
      OBVIOUS
    <3>2. /\ b = log'[n] /\ Submitted[b.transport] = P(c) /\ b.request_id = P(c).request_id
          /\ n \in Nat /\ n > Len(log)
      BY <2>1, <3>1 DEF Batch, P
    <3>3. Replays(P(c)) => AcceptedBefore(b.request_id, n)'
      <4> SUFFICES ASSUME Replays(P(c)) PROVE AcceptedBefore(b.request_id, n)'
        OBVIOUS
      <4>1. b.request_id \in seen
        BY <3>2 DEF Replays
      <4>2. AcceptedBefore(b.request_id, Len(log) + 1)
        BY <4>1, SeenIsAccepted
      <4>3. /\ Len(log) + 1 \in Nat /\ Len(log) + 1 <= n
            /\ \A i \in 1..((Len(log) + 1) - 1) : log'[i] = log[i]
        BY <1>2, <2>1, <3>2
      <4> DEFINE m == Len(log) + 1
      <4>4. AcceptedBefore(b.request_id, m) /\ m \in Nat /\ m <= n
            /\ \A i \in 1..(m - 1) : log'[i] = log[i]
        BY <4>2, <4>3
      <4> HIDE DEF m
      <4> QED BY <1>2, <3>2, <4>4, AcceptedKept
    <3>4. BlamesWhatIsSo(b)'
      BY <1>3, <2>3, <3>1
    <3> QED BY <2>3, <3>1, <3>2, <3>3, <3>4 DEF Backed
  <2> QED BY <1>4, <2>1, <2>4
<1>7. ASSUME NEW c \in Calls, AppendBatch(c) PROVE RejectionsAreTrue'
  BY <1>6, <1>7 DEF RejectionsAreTrue, Backed, BlamesWhatIsSo, AcceptedBefore
<1>8. log' = log \/ \E c \in Calls : AppendBatch(c)
  BY LogWritten
<1> QED BY <1>5, <1>7, <1>8

\* What the log blames is so, and a replay in it repeats an acceptance further up:
\* the order of the checks, a host that records while another verification is under
\* way and a sink that loses or repeats batches never make one fault pass for another
\* (verifier lines 1221-1340, audit lines 422-442 and 524-549).
THEOREM BlameIsTrue == Spec => []RejectionsAreTrue
<1> DEFINE Asked == \A c \in Calls : AskedInv(c)
<1>1. IInv /\ Asked /\ RejectionsAreTrue /\ [Next]_vars => RejectionsAreTrue'
  BY RejectionsNext
<1>2. Init => RejectionsAreTrue
  BY DEF Init, RejectionsAreTrue
<1>3. Spec => []Asked
  BY AskedInductive
<1> HIDE DEF Asked
<1> QED BY <1>1, <1>2, <1>3, Inductive, PTL DEF Spec

(***************************************************************************)
(* The refinement.                                                         *)
(***************************************************************************)

\* A batch of a call that has begun is evidence of its result.
LEMMA BatchEvidence ==
  ASSUME Typed, NEW c \in Calls, StageInv(c), pc[c] # "new"
  PROVE  /\ <<Batch(c).transport, Batch(c).time, Last(Batch(c).records).reason>>
              = EvidenceOf(c)
         /\ EvidenceOf(c) \in Evidence
<1>1. slot[c] \in Nat /\ Len(transcript[c]) \in Nat
  BY SlotsNat DEF Typed, TypeOK
<1>2. Last(Records(c)).reason = AuditReasonOf(cause[c])
  BY <1>1, RecordsEnd
<1>3. Batch(c).transport = name[c] /\ Batch(c).time = now[c] /\ Batch(c).records = Records(c)
  BY DEF Batch
<1>4. name[c] \in Names /\ now[c] \in 1..MaxClock
  BY BoundsAssumption DEF Typed, TypeOK
<1>5. AuditReasonOf(cause[c]) \in AuditReasons
  BY ReasonType
<1> QED BY <1>2, <1>3, <1>4, <1>5 DEF EvidenceOf, Evidence

\* What is published of the calls but c does not change with a step of c.
LEMMA OthersPublished ==
  ASSUME Typed, NEW c \in Calls,
         Step(c) \/ RecordResult(c) \/ \E n \in Names : Submit(c, n)
  PROVE  \A d \in Calls \ {c} :
           (d \in Publishers' <=> d \in Publishers) /\ EvidenceOf(d)' = EvidenceOf(d)
<1> SUFFICES ASSUME NEW d \in Calls \ {c}
             PROVE  (d \in Publishers' <=> d \in Publishers) /\ EvidenceOf(d)' = EvidenceOf(d)
  OBVIOUS
<1>1. RecordKept(d) /\ pc'[d] = pc[d]
  BY OthersKept
<1>2. P(d)' = P(d) /\ EvidenceOf(d)' = EvidenceOf(d)
  BY <1>1 DEF RecordKept, P, EvidenceOf
<1> QED BY <1>1, <1>2 DEF Publishers, Returned

\* Two ways in which a step of c can leave the published results or add to them.
LEMMA PublishedKept ==
  ASSUME Typed, NEW c \in Calls,
         Step(c) \/ RecordResult(c) \/ \E n \in Names : Submit(c, n),
         c \in Publishers' <=> c \in Publishers,
         c \in Publishers => EvidenceOf(c)' = EvidenceOf(c)
  PROVE  Published' = Published
<1>1. Publishers' = Publishers
  BY OthersPublished DEF Publishers
<1>2. \A d \in Publishers : EvidenceOf(d)' = EvidenceOf(d)
  BY OthersPublished DEF Publishers
<1> QED BY <1>1, <1>2 DEF Published

LEMMA PublishedGrows ==
  ASSUME Typed, NEW c \in Calls, Step(c), c \notin Publishers, c \in Publishers'
  PROVE  Published' = Published \cup {<<c, EvidenceOf(c)'>>}
<1>1. Publishers' = Publishers \cup {c}
  BY OthersPublished DEF Publishers
<1>2. \A d \in Publishers : EvidenceOf(d)' = EvidenceOf(d)
  BY OthersPublished DEF Publishers
<1>3. Published' = {<<d, EvidenceOf(d)'>> : d \in Publishers \cup {c}}
  BY <1>1 DEF Published
<1> QED BY <1>2, <1>3 DEF Published

\* A step of a call records its evidence, publishes it, or does neither.
LEMMA StepPublishes ==
  ASSUME IInv, NEW c \in Calls,
         Step(c) \/ RecordResult(c) \/ \E n \in Names : Submit(c, n)
  PROVE  [Publication!Next]_(Publication!vars)
<1>1. Typed /\ StageInv(c)
  BY DEF IInv
<1> USE DEF Publication!vars
<1>2. CASE AppendBatch(c)
  <2>1. pc[c] # "new" /\ c \notin Publishers /\ c \notin Publishers'
    <3>1. /\ pc[c] \in {"decided", "failed"}
          /\ pc'[c] \in {"sink_error", "appending", "appending_failure"}
      BY <1>1, <1>2 DEF AppendBatch, Typed, TypeOK
    <3> QED BY <3>1 DEF Publishers, Returned
  <2>2. Published' = Published
    BY <1>1, <1>2, <2>1, PublishedKept DEF Step
  <2>3. Range(log') \in {Range(log), Range(log) \cup {Batch(c)}}
    BY <1>1, <1>2, AppendLog DEF Typed
  <2>4. CASE Range(log') = Range(log)
    BY <2>2, <2>4 DEF Recorded
  <2>5. CASE Range(log') = Range(log) \cup {Batch(c)}
    <3>1. Recorded' = Recorded \cup {EvidenceOf(c)}
      BY <1>1, <2>1, <2>5, BatchEvidence DEF Recorded
    <3>2. EvidenceOf(c) \in Evidence
      BY <1>1, <2>1, BatchEvidence
    <3>3. Publication!Record(EvidenceOf(c))
      BY <2>2, <3>1 DEF Publication!Record
    <3> QED BY <3>2, <3>3 DEF Publication!Next
  <2> QED BY <2>3, <2>4, <2>5
<1>3. CASE Acknowledge(c)
  <2>1. /\ pc[c] \in {"appending", "appending_failure"}
        /\ UNCHANGED <<log, callVars, cause, slot, transcript>>
    BY <1>3 DEF Acknowledge
  <2>2. c \notin Publishers /\ Recorded' = Recorded
    BY <2>1 DEF Publishers, Returned, Recorded
  <2>3. CASE c \in Publishers'
    <3>1. StageInv(c)'
      BY <1>1, <1>3, StepStage, StepGoesOn, GoesOnTyped DEF Step
    <3>2. Batch(c)' \in Range(log) /\ pc'[c] \in {"returned", "recorded"}
      BY <2>1, <2>3, <3>1 DEF StageInv, Publishers, Returned
    <3>3. pc[c] = "appending" /\ RecordKept(c)
      BY <1>1, <1>3, <2>1, <3>2 DEF Acknowledge, RecordKept, callVars, Typed, TypeOK
    <3>4. Batch(c)' = Batch(c)
      BY <3>2, <3>3, BatchKept
    <3>5. EvidenceOf(c) \in Recorded /\ EvidenceOf(c) \in Evidence
      BY <1>1, <3>2, <3>3, <3>4, BatchEvidence DEF Recorded
    <3>6. EvidenceOf(c)' = EvidenceOf(c)
      BY <3>3 DEF RecordKept, EvidenceOf
    <3>7. Published' = Published \cup {<<c, EvidenceOf(c)>>}
      BY <1>1, <1>3, <2>2, <2>3, <3>6, PublishedGrows DEF Step
    <3>8. Publication!Publish(c, EvidenceOf(c))
      BY <2>2, <3>5, <3>7 DEF Publication!Publish
    <3> QED BY <3>5, <3>8 DEF Publication!Next
  <2>4. CASE c \notin Publishers'
    BY <1>1, <1>3, <2>2, <2>4, PublishedKept DEF Step
  <2> QED BY <2>3, <2>4
<1>4. CASE RecordResult(c)
  <2>1. /\ pc[c] = "returned" /\ pc'[c] = "recorded"
        /\ UNCHANGED <<log, callVars, cause>>
    BY <1>1, <1>4 DEF RecordResult, Typed, TypeOK
  <2>2. /\ c \in Publishers' <=> c \in Publishers
        /\ EvidenceOf(c)' = EvidenceOf(c) /\ Recorded' = Recorded
    BY <2>1 DEF Publishers, Returned, P, EvidenceOf, Recorded, callVars
  <2> QED BY <1>1, <1>4, <2>2, PublishedKept
<1>5. CASE \/ Copy(c) \/ Preflight(c) \/ SkipSlot(c) \/ Callback(c) \/ Return(c)
           \/ \E n \in Names : Submit(c, n)
  <2>1. c \notin Publishers /\ log' = log
    BY <1>5 DEF Publishers, Returned, Copy, Preflight, SkipSlot, Callback, Return, Submit
  <2>2. c \notin Publishers'
    <3>1. CASE Return(c)
      <4>1. ~P(c)'.audited
        BY <3>1 DEF Return, P, callVars
      <4> QED BY <4>1 DEF Publishers
    <3>2. CASE \/ Copy(c) \/ Preflight(c) \/ SkipSlot(c) \/ Callback(c)
               \/ \E n \in Names : Submit(c, n)
      <4>1. pc'[c] \notin {"returned", "recorded"}
        <5> USE <1>1 DEF Typed, TypeOK
        <5>1. CASE Copy(c)
          BY <5>1 DEF Copy
        <5>2. CASE Preflight(c)
          BY <5>2 DEF Preflight
        <5>3. CASE SkipSlot(c)
          BY <5>3 DEF SkipSlot, Advance
        <5>4. CASE Callback(c)
          BY <5>4 DEF Callback, Advance
        <5>5. CASE \E n \in Names : Submit(c, n)
          BY <5>5 DEF Submit
        <5> QED BY <3>2, <5>1, <5>2, <5>3, <5>4, <5>5
      <4> QED BY <4>1 DEF Publishers, Returned
    <3> QED BY <1>5, <3>1, <3>2
  <2> QED BY <1>1, <1>5, <2>1, <2>2, PublishedKept DEF Step, Recorded
<1> QED BY <1>2, <1>3, <1>4, <1>5 DEF Step

\* A crash makes the callers forget whose results were not recorded yet.
LEMMA CrashForgets ==
  ASSUME Typed, Crash
  PROVE  Publication!Next
<1> DEFINE gone == {c \in Calls : pc[c] = "returned"}
<1>1. /\ pc' = [c \in Calls |-> IF pc[c] \in Stages \cup {"returned"} THEN "lost" ELSE pc[c]]
      /\ UNCHANGED <<log, callVars, cause>>
  BY DEF Crash
<1>2. Recorded' = Recorded
  BY <1>1 DEF Recorded
<1>3. Publishers' = Publishers \ gone
  BY <1>1 DEF Publishers, Returned, P, callVars, Stages
<1>4. \A c \in Calls : EvidenceOf(c)' = EvidenceOf(c)
  BY <1>1 DEF EvidenceOf, callVars
<1>5. Published' = {p \in Published : p[1] \notin gone}
  <2>1. \A c \in Publishers : <<c, EvidenceOf(c)>>[1] = c
    OBVIOUS
  <2>2. Published' = {<<c, EvidenceOf(c)>> : c \in Publishers \ gone}
    BY <1>3, <1>4 DEF Published, Publishers
  <2> QED BY <2>1, <2>2 DEF Published
<1>6. Publication!Forget(gone)
  BY <1>2, <1>5 DEF Publication!Forget
<1> QED BY <1>6 DEF Publication!Next

\* Every step is a step of the abstract specification, or none.
LEMMA PublicationStep == IInv /\ [Next]_vars => [Publication!Next]_(Publication!vars)
<1> SUFFICES ASSUME IInv, [Next]_vars
             PROVE  [Publication!Next]_(Publication!vars)
  OBVIOUS
<1>1. CASE Tick \/ UNCHANGED vars
  <2>1. UNCHANGED <<log, pc, callVars, cause>>
    BY <1>1 DEF Tick, vars, hostVars, callVars
  <2> QED BY <2>1 DEF Publication!vars, Recorded, Published, Publishers, EvidenceOf,
                      Returned, P, callVars
<1>2. CASE Crash
  BY <1>2, CrashForgets DEF IInv
<1> QED BY <1>1, <1>2, StepPublishes DEF Next

\* Nothing is recorded or published initially.
LEMMA PublicationInit == Init => Publication!Init
BY DEF Init, Publication!Init, Recorded, Published, Publishers, Returned, Range

\* No evidence result is published but what the sink holds for good, whatever the
\* sink, the backend and the process do (shield_v4_verification_audit.py:524-549).
THEOREM Refinement == Spec => ImplementsRecordedPublication
<1>1. IInv /\ [Next]_vars => [Publication!Next]_(Publication!vars)
  BY PublicationStep
<1> QED BY <1>1, Inductive, PublicationInit, PTL
        DEF Spec, ImplementsRecordedPublication, Publication!Spec

(***************************************************************************)
(* What a verification answers is determined.                              *)
(***************************************************************************)

\* What the host had recorded at one moment of a verification.
Moments(c) == {ids \in SUBSET seen : seen_before[c] \subseteq ids}

PreflightAt(c, ids) == PreflightRejection(P(c), now[c], minimum[c], ids)

\* The audited entry point refuses what the other one answers with a rejection.
InputPasses(c) == P(c).audited \/ InputRejection(P(c)) = OK

\* A slot whose callback went well has no signature that is not genuine.
YesIsGenuine(c) ==
  \A i \in 1..Len(transcript[c]) : transcript[c][i].rejection = OK =>
    \A e \in Matching(P(c).receipt, transcript[c][i].slot) : e.signature = "genuine"

\* Where a verification ended that asked no backend.
EndedEarly(c) ==
  \/ ~P(c).audited /\ cause[c] = InputRejection(P(c)) /\ cause[c] # OK
  \/ InputPasses(c) /\ copy[c].verdict = "over_budget" /\ cause[c] = "CONTRACT"
  \/ /\ InputPasses(c) /\ copy[c].verdict = "copied" /\ cause[c] # OK
     /\ \E ids \in Moments(c) : cause[c] = PreflightAt(c, ids)

\* What a call has behind it at each stage.
DeterminedInv(c) ==
  /\ pc[c] \in {"copying", "preflight"} \/ slot[c] # 0 => InputPasses(c)
  /\ pc[c] = "preflight" \/ slot[c] # 0 => copy[c].verdict = "copied"
  /\ slot[c] # 0 => \E ids \in Moments(c) : PreflightAt(c, ids) = OK
  /\ Concluded(c) /\ slot[c] = 0 => EndedEarly(c)
  /\ YesIsGenuine(c)

\* It is kept with the record and the copy of a call.
LEMMA DeterminedKept ==
  ASSUME NEW d \in Calls, DeterminedInv(d), RecordKept(d), copy'[d] = copy[d],
         seen \subseteq seen',
         pc'[d] \in {"copying", "preflight"} => pc'[d] = pc[d],
         Concluded(d)' => Concluded(d)
  PROVE  DeterminedInv(d)'
<1>1. P(d)' = P(d) /\ Moments(d) \subseteq Moments(d)'
  BY DEF RecordKept, P, Moments
<1>2. \A ids : PreflightAt(d, ids)' = PreflightAt(d, ids)
  BY <1>1 DEF PreflightAt, RecordKept
<1>3. InputPasses(d)' = InputPasses(d)
  BY <1>1 DEF InputPasses
<1>4. EndedEarly(d) => EndedEarly(d)'
  BY <1>1, <1>2, <1>3 DEF EndedEarly, RecordKept
<1>5. YesIsGenuine(d) => YesIsGenuine(d)'
  BY <1>1 DEF YesIsGenuine, RecordKept
<1> QED BY <1>1, <1>2, <1>3, <1>4, <1>5 DEF DeterminedInv, RecordKept

\* Before the callbacks there are none to account for.
LEMMA NothingAsked ==
  ASSUME NEW c \in Calls, Len(transcript'[c]) = 0
  PROVE  YesIsGenuine(c)'
BY DEF YesIsGenuine

\* The signature of a slot that was admitted is the only one there.
LEMMA OneSignature ==
  ASSUME NEW p, Decoded(p), NEW t \in Int, NEW least \in Nat, NEW ids,
         PreflightRejection(p, t, least, ids) = OK, NEW k \in 1..Slots,
         NEW e \in Matching(p.receipt, k), NEW f \in Matching(p.receipt, k)
  PROVE  e = f
<1> DEFINE es == Artifact(p.receipt, SlotArtifact(k)).bundle.entries
<1>1. Checkable(p, t, least) /\ SlotArtifact(k) \in Range(ArtifactIds)
  BY PreflightChecks, SlotPlaces
<1>2. \A i, j \in DOMAIN es : i # j => es[i].algorithm # es[j].algorithm
  BY <1>1 DEF Checkable
<1>3. PICK i, j \in DOMAIN es : e = es[i] /\ f = es[j]
  BY DEF Matching, Range
<1>4. es[i].algorithm = es[j].algorithm
  BY <1>3 DEF Matching
<1> QED BY <1>2, <1>3, <1>4

\* The preflight is decided by the ids the host has recorded when it is made.
LEMMA DeterminedPreflight ==
  ASSUME Typed, NEW c \in Calls, StageInv(c), DeterminedInv(c), Preflight(c)
  PROVE  DeterminedInv(c)'
<1>1. PICK rejection \in {PreflightRejection(P(c), now[c], minimum[c], seen)} :
        /\ pc' = [pc EXCEPT ![c] = IF rejection = OK THEN "waves" ELSE "decided"]
        /\ slot' = [slot EXCEPT ![c] = IF rejection = OK THEN 1 ELSE 0]
        /\ cause' = [cause EXCEPT ![c] = rejection]
  BY Zenon DEF Preflight
<1>2. /\ pc[c] = "preflight" /\ Len(transcript[c]) = 0
      /\ UNCHANGED <<callVars, transcript, copy>> /\ seen' = seen
      /\ P(c)' = P(c)
  BY DEF Preflight, StageInv, P, callVars, hostVars
<1>3. /\ pc'[c] = IF rejection = OK THEN "waves" ELSE "decided"
      /\ slot'[c] = IF rejection = OK THEN 1 ELSE 0
      /\ cause'[c] = rejection
  BY <1>1 DEF Typed, TypeOK
<1>4. \E ids \in Moments(c)' : PreflightAt(c, ids)' = rejection
  <2>1. seen \in Moments(c)'
    BY <1>2 DEF Moments, callVars, Typed, TypeOK
  <2>2. PreflightRejection(P(c)', now'[c], minimum'[c], seen) = rejection
    BY <1>1, <1>2 DEF callVars
  <2> QED BY <2>1, <2>2 DEF PreflightAt
<1>5. InputPasses(c)' /\ copy'[c].verdict = "copied"
  BY <1>2 DEF DeterminedInv, InputPasses
<1>6. YesIsGenuine(c)'
  BY <1>2, NothingAsked
<1>7. CASE rejection = OK
  BY <1>3, <1>4, <1>5, <1>6, <1>7 DEF DeterminedInv
<1>8. CASE rejection # OK
  <2>1. EndedEarly(c)'
    BY <1>3, <1>4, <1>5, <1>8 DEF EndedEarly
  <2> QED BY <1>3, <1>5, <1>6, <1>8, <2>1 DEF DeterminedInv
<1> QED BY <1>7, <1>8

\* On to the next slot, or to the end: nothing that was found out before changes.
LEMMA DeterminedWaves ==
  ASSUME Typed, NEW c \in Calls, StageInv(c), DeterminedInv(c), pc[c] = "waves",
         UNCHANGED <<hostVars, callVars, copy>>, pc'[c] \in {"waves", "decided"},
         slot'[c] # 0, YesIsGenuine(c)'
  PROVE  DeterminedInv(c)'
<1>1. slot[c] # 0 /\ P(c)' = P(c) /\ Moments(c)' = Moments(c)
  BY SlotsNat DEF StageInv, P, callVars, Moments, hostVars
<1>2. \A ids : PreflightAt(c, ids)' = PreflightAt(c, ids)
  BY <1>1 DEF PreflightAt, callVars
<1>3. InputPasses(c)' = InputPasses(c)
  BY <1>1 DEF InputPasses
<1> QED BY <1>1, <1>2, <1>3 DEF DeterminedInv

\* A callback that goes well is about the one signature of its slot.
LEMMA DeterminedCallback ==
  ASSUME Typed, NEW c \in Calls, StageInv(c), AskedInv(c), DeterminedInv(c), Callback(c)
  PROVE  DeterminedInv(c)'
<1> DEFINE obs == transcript[c]
           r == P(c).receipt
<1>1. PICK e \in Matching(P(c).receipt, slot[c]) : \E answer \in Answers(e) :
         LET spent     == BudgetSpent(transcript[c], SlotAlgorithm(slot[c]))
             rejection == IF spent THEN "SIGNATURE_POLICY" ELSE AnswerRejection(answer)
         IN  /\ cause' = [cause EXCEPT ![c] = rejection]
             /\ transcript' = [transcript EXCEPT ![c] = IF spent THEN @ ELSE
                                 Append(@, [slot |-> slot[c], rejection |-> rejection])]
             /\ faults' = IF answer \in {"true", "false"} THEN faults ELSE faults + 1
             /\ IF rejection = OK THEN Advance(c)
                ELSE /\ pc' = [pc EXCEPT ![c] = "decided"]
                     /\ UNCHANGED slot
  BY Zenon DEF Callback
<1>2. pc[c] = "waves" /\ UNCHANGED <<hostVars, callVars, copy>>
  BY DEF Callback
<1>3. /\ slot[c] \in 1..Slots /\ P(c)' = P(c) /\ Accepted(c) /\ Decoded(P(c))
  BY <1>2, WavesKeep
<1>4. slot'[c] # 0 /\ pc'[c] \in {"waves", "decided"}
  BY <1>1, <1>3, SlotsNat DEF Advance, Typed, TypeOK
<1>5. PICK answer \in Answers(e),
           rejection \in {OK, "SIGNATURE_INVALID", "BACKEND_FAILURE", "SIGNATURE_POLICY"} :
        /\ transcript'[c] \in {obs, Append(obs, [slot |-> slot[c], rejection |-> rejection])}
        /\ rejection = OK => answer = "true"
  <2>1. \A answer : AnswerRejection(answer) = OK => answer = "true"
    BY DEF AnswerRejection, OK
  <2>2. "SIGNATURE_POLICY" # OK
    BY DEF OK
  <2>3. PICK answer \in Answers(e) :
          LET spent     == BudgetSpent(transcript[c], SlotAlgorithm(slot[c]))
              rejection == IF spent THEN "SIGNATURE_POLICY" ELSE AnswerRejection(answer)
          IN  transcript' = [transcript EXCEPT ![c] = IF spent THEN @ ELSE
                               Append(@, [slot |-> slot[c], rejection |-> rejection])]
    BY <1>1
  <2> DEFINE spent == BudgetSpent(transcript[c], SlotAlgorithm(slot[c]))
             rejection == IF spent THEN "SIGNATURE_POLICY" ELSE AnswerRejection(answer)
             o == [slot |-> slot[c], rejection |-> rejection]
  <2>4. transcript'[c] = IF spent THEN obs ELSE Append(obs, o)
    BY <2>3 DEF Typed, TypeOK
  <2>5. /\ rejection = OK => answer = "true"
        /\ rejection \in {OK, "SIGNATURE_INVALID", "BACKEND_FAILURE", "SIGNATURE_POLICY"}
    BY <2>1, <2>2 DEF AnswerRejection
  <2> HIDE DEF spent
  <2>6. transcript'[c] \in {obs, Append(obs, o)}
    BY <2>4
  <2> HIDE DEF rejection
  <2> QED BY <2>5, <2>6
<1>6. rejection = OK => \A f \in Matching(r, slot[c]) : f.signature = "genuine"
  <2> SUFFICES ASSUME rejection = OK, NEW f \in Matching(r, slot[c])
               PROVE  f.signature = "genuine"
    OBVIOUS
  <2>1. e.signature = "genuine"
    BY <1>5 DEF Answers
  <2>2. PICK ids : PreflightRejection(P(c), now[c], minimum[c], ids) = OK
    BY <1>3 DEF Accepted
  <2>3. now[c] \in Int /\ minimum[c] \in Nat
    BY BoundsAssumption DEF Typed, TypeOK
  <2>4. e = f
    BY <1>3, <2>2, <2>3, OneSignature
  <2> QED BY <2>1, <2>4
<1>7. YesIsGenuine(c)'
  <2>1. CASE transcript'[c] = obs
    BY <1>3, <2>1 DEF DeterminedInv, YesIsGenuine
  <2>2. CASE transcript'[c] = Append(obs, [slot |-> slot[c], rejection |-> rejection])
    <3> DEFINE o == [slot |-> slot[c], rejection |-> rejection]
               n == Len(obs)
    <3>1. PICK S : obs \in Seq(S)
      BY DEF AskedInv, Observations
    <3>2. obs \in Seq(S \cup {o}) /\ o \in S \cup {o}
      BY <3>1
    <3>3. transcript'[c] = Append(obs, o) /\ o.slot = slot[c] /\ o.rejection = rejection
      BY <2>2
    <3> HIDE DEF o
    <3>4. /\ Len(transcript'[c]) = n + 1 /\ n \in Nat /\ transcript'[c][n + 1] = o
          /\ \A i \in 1..n : transcript'[c][i] = obs[i]
      BY <3>2, <3>3, AppendProperties
    <3>5. \A i \in 1..n : obs[i].rejection = OK =>
            \A f \in Matching(r, obs[i].slot) : f.signature = "genuine"
      BY DEF DeterminedInv, YesIsGenuine
    <3>6. \A i \in 1..(n + 1) : i \in 1..n \/ i = n + 1
      BY <3>4
    <3> HIDE DEF n
    <3> QED BY <1>3, <1>6, <3>3, <3>4, <3>5, <3>6 DEF YesIsGenuine
  <2> QED BY <1>5, <2>1, <2>2
<1> QED BY <1>2, <1>4, <1>7, DeterminedWaves

\* Whatever a call does, what it has behind it decides what it answers.
LEMMA DeterminedStep ==
  ASSUME Typed, NEW c \in Calls, StageInv(c), AskedInv(c), CopiesInv, DeterminedInv(c), Typed',
         Step(c) \/ RecordResult(c) \/ \E n \in Names : Submit(c, n)
  PROVE  DeterminedInv(c)'
<1> USE DEF Typed, TypeOK
<1>1. CASE Copy(c)
  <2>1. PICK next :
          /\ copy' = [copy EXCEPT ![c] = next]
          /\ \/ /\ next.verdict = "copying"
                /\ UNCHANGED <<pc, cause>>
             \/ /\ next.verdict = "copied"
                /\ pc' = [pc EXCEPT ![c] = "preflight"]
                /\ UNCHANGED cause
             \/ /\ next.verdict = "over_budget"
                /\ pc' = [pc EXCEPT ![c] = IF P(c).audited THEN "failed" ELSE "decided"]
                /\ cause' = [cause EXCEPT ![c] = "CONTRACT"]
    BY <1>1, Zenon DEF Copy
  <2>2. /\ pc[c] = "copying" /\ slot'[c] = 0 /\ Len(transcript'[c]) = 0 /\ P(c)' = P(c)
    BY <1>1 DEF Copy, StageInv, callVars, P
  <2>3. InputPasses(c)' /\ YesIsGenuine(c)'
    BY <2>2, NothingAsked DEF DeterminedInv, InputPasses
  <2>4. copy'[c] = next
    BY <2>1
  <2>5. CASE pc'[c] = "copying"
    BY <2>2, <2>3, <2>5 DEF DeterminedInv, Concluded
  <2>6. CASE pc'[c] = "preflight" /\ next.verdict = "copied"
    BY <2>2, <2>3, <2>4, <2>6 DEF DeterminedInv, Concluded
  <2>7. CASE pc'[c] \in {"decided", "failed"} /\ next.verdict = "over_budget"
             /\ cause'[c] = "CONTRACT"
    BY <2>2, <2>3, <2>4, <2>7 DEF DeterminedInv, EndedEarly
  <2>8. \/ pc'[c] = "copying"
        \/ pc'[c] = "preflight" /\ next.verdict = "copied"
        \/ pc'[c] \in {"decided", "failed"} /\ next.verdict = "over_budget"
           /\ cause'[c] = "CONTRACT"
    BY <2>1, <2>2
  <2> QED BY <2>5, <2>6, <2>7, <2>8
<1>2. CASE Preflight(c)
  BY <1>2, DeterminedPreflight
<1>3. CASE SkipSlot(c)
  <2>1. /\ pc[c] = "waves" /\ Advance(c) /\ UNCHANGED <<hostVars, callVars, copy, transcript>>
    BY <1>3 DEF SkipSlot
  <2>2. slot[c] \in 1..Slots /\ pc'[c] \in {"waves", "decided"} /\ slot'[c] # 0
    BY <2>1, SlotsNat DEF StageInv, Advance
  <2>3. YesIsGenuine(c)'
    BY <2>1 DEF DeterminedInv, YesIsGenuine, P, callVars
  <2> QED BY <2>1, <2>2, <2>3, DeterminedWaves
<1>4. CASE Callback(c)
  BY <1>4, DeterminedCallback
<1>5. CASE AppendBatch(c) \/ Acknowledge(c) \/ Return(c) \/ RecordResult(c)
  <2>1. /\ Concluded(c) /\ pc'[c] \notin {"copying", "preflight"}
        /\ UNCHANGED <<callVars, cause, slot, transcript, copy>> /\ seen \subseteq seen'
    <3>1. CASE AppendBatch(c)
      BY <3>1 DEF AppendBatch, hostVars, Concluded
    <3>2. CASE Acknowledge(c)
      <4>1. /\ pc[c] \in {"appending", "appending_failure"}
            /\ UNCHANGED <<hostVars, callVars, cause, slot, transcript, copy>>
        BY <3>2 DEF Acknowledge
      <4>2. \E stage \in {"returned", "audited_error", "sink_error"} :
              pc' = [pc EXCEPT ![c] = stage]
        BY <3>2 DEF Acknowledge
      <4> QED BY <4>1, <4>2 DEF hostVars, Concluded
    <3>3. CASE Return(c)
      BY <3>3 DEF Return, hostVars, Concluded
    <3>4. CASE RecordResult(c)
      BY <3>4 DEF RecordResult, Concluded
    <3> QED BY <1>5, <3>1, <3>2, <3>3, <3>4
  <2>2. RecordKept(c) /\ copy'[c] = copy[c]
    BY <2>1 DEF RecordKept, callVars
  <2> QED BY <2>1, <2>2, DeterminedKept
<1>6. CASE \E n \in Names : Submit(c, n)
  <2>1. PICK n \in Names : Submit(c, n)
    BY <1>6
  <2>2. /\ slot'[c] = 0 /\ Len(transcript'[c]) = 0 /\ P(c)' = Submitted[n]
        /\ LET p == Submitted[n]
               rejection == IF p.audited THEN OK ELSE InputRejection(p)
           IN  /\ cause'[c] = rejection
               /\ pc'[c] = IF AuditRefuses(p) THEN "refused"
                           ELSE IF rejection # OK THEN "decided" ELSE "copying"
    BY <2>1 DEF Submit, StageInv, P
  <2>3. YesIsGenuine(c)'
    BY <2>2, NothingAsked
  <2>4. InputPasses(c)' = (Submitted[n].audited \/ InputRejection(Submitted[n]) = OK)
    BY <2>2 DEF InputPasses
  <2>5. CASE pc'[c] \in {"refused", "copying"}
    BY <2>2, <2>3, <2>4, <2>5 DEF DeterminedInv, Concluded
  <2>6. CASE pc'[c] = "decided"
    <3>1. ~P(c)'.audited /\ cause'[c] = InputRejection(P(c)') /\ cause'[c] # OK
      BY <2>2, <2>6
    <3>2. EndedEarly(c)'
      BY <3>1 DEF EndedEarly
    <3> QED BY <2>2, <2>3, <2>6, <3>2 DEF DeterminedInv
  <2> QED BY <2>2, <2>5, <2>6
<1> QED BY <1>1, <1>2, <1>3, <1>4, <1>5, <1>6 DEF Step

\* What the host counts as seen only grows.
LEMMA SeenGrows ==
  ASSUME [Next]_vars
  PROVE  seen \subseteq seen'
<1>1. ASSUME NEW c \in Calls, Step(c) \/ \E n \in Names : Submit(c, n) PROVE seen' = seen
  BY <1>1 DEF Step, Copy, Preflight, SkipSlot, Callback, AppendBatch, Acknowledge,
              Return, Submit, hostVars
<1>2. ASSUME NEW c \in Calls, RecordResult(c) PROVE seen \subseteq seen'
  BY <1>2 DEF RecordResult
<1> QED BY <1>1, <1>2 DEF Next, Crash, Tick, vars, hostVars

\* A step of a call is none of another one's copy.
LEMMA OtherCopiesKept ==
  ASSUME Typed, NEW c \in Calls,
         Step(c) \/ RecordResult(c) \/ \E n \in Names : Submit(c, n)
  PROVE  \A d \in Calls \ {c} : copy'[d] = copy[d]
<1>1. copy' = copy \/ \E next : copy' = [copy EXCEPT ![c] = next]
  BY DEF Step, Copy, Preflight, SkipSlot, Callback, AppendBatch, Acknowledge, Return,
         RecordResult, Submit
<1> QED BY <1>1 DEF Typed, TypeOK

LEMMA DeterminedNext ==
  ASSUME IInv, CopiesInv, \A c \in Calls : AskedInv(c) /\ DeterminedInv(c), [Next]_vars
  PROVE  \A d \in Calls : DeterminedInv(d)'
<1>1. Typed /\ (\A c \in Calls : StageInv(c)) /\ Typed'
  BY TypedNext DEF IInv
<1>2. seen \subseteq seen'
  BY SeenGrows
<1>3. ASSUME NEW c \in Calls, NEW d \in Calls,
             Step(c) \/ RecordResult(c) \/ \E n \in Names : Submit(c, n)
      PROVE  DeterminedInv(d)'
  <2>1. CASE d = c
    BY <1>1, <1>3, <2>1, DeterminedStep
  <2>2. CASE d # c
    <3>1. RecordKept(d) /\ pc'[d] = pc[d] /\ copy'[d] = copy[d]
      BY <1>1, <1>3, <2>2, OthersKept, OtherCopiesKept
    <3>2. Concluded(d)' => Concluded(d)
      BY <3>1 DEF Concluded
    <3> QED BY <1>2, <3>1, <3>2, DeterminedKept
  <2> QED BY <2>1, <2>2
<1>4. ASSUME NEW d \in Calls, Crash \/ Tick \/ UNCHANGED vars PROVE DeterminedInv(d)'
  <2>1. RecordKept(d) /\ pc'[d] \in {pc[d], "lost"} /\ copy'[d] = copy[d]
    BY <1>4 DEF Crash, Tick, vars, callVars, RecordKept
  <2>2. Concluded(d)' => Concluded(d)
    BY <2>1 DEF Concluded
  <2> QED BY <1>2, <2>1, <2>2, DeterminedKept
<1> QED BY <1>3, <1>4 DEF Next

LEMMA DeterminedInductive == Spec => [](\A c \in Calls : DeterminedInv(c))
<1> DEFINE Asked == \A c \in Calls : AskedInv(c)
           Determined == \A c \in Calls : DeterminedInv(c)
<1>1. IInv /\ Asked /\ CopiesInv /\ Determined /\ [Next]_vars => Determined'
  BY DeterminedNext
<1>2. Init => Determined
  <2> SUFFICES ASSUME Init, NEW c \in Calls PROVE DeterminedInv(c)
    OBVIOUS
  <2>1. pc[c] = "new" /\ slot[c] = 0 /\ transcript[c] = <<>>
    BY DEF Init
  <2> QED BY <2>1 DEF DeterminedInv, Concluded, YesIsGenuine
<1>3. Spec => []Asked
  BY AskedInductive
<1> HIDE DEF Asked, Determined
<1>4. Spec => []Determined
  BY <1>1, <1>2, <1>3, Inductive, CopiesInductive, PTL DEF Spec
<1> QED BY <1>4 DEF Determined

\* What the waves came to, of a receipt whose preflight rejected nothing.
LEMMA WavesAnswer ==
  ASSUME IInv, NEW c \in Calls, AskedInv(c), DeterminedInv(c), Concluded(c), slot[c] # 0
  PROVE  LET answer == IF AllGenuine(P(c).receipt) THEN OK ELSE "SIGNATURE_INVALID"
         IN  \/ cause[c] = answer
             \/ cause[c] = "BACKEND_FAILURE" /\ faults > 0
<1> DEFINE obs == transcript[c]
           n == Len(obs)
           r == P(c).receipt
<1>1. /\ obs \in Observations /\ (Going(c) \/ Stopped(c)) /\ YesIsGenuine(c)
      /\ cause[c] = OK => Verified(c)
  BY DEF AskedInv, DeterminedInv, Concluded
<1>2. n \in Nat /\ \A i \in 1..n : obs[i].slot \in 1..Slots
  <2> DEFINE O == [slot : 1..Slots, rejection : {OK, "SIGNATURE_INVALID", "BACKEND_FAILURE"}]
  <2>1. obs \in Seq(O) /\ \A o \in O : o.slot \in 1..Slots
    BY <1>1 DEF Observations
  <2> HIDE DEF O
  <2>2. n \in Nat /\ \A i \in 1..n : obs[i] \in O
    BY <2>1, LenProperties, ElementOfSeq
  <2> QED BY <2>1, <2>2
<1>3. CASE cause[c] = OK
  <2>1. Going(c) /\ slot[c] = Slots + 1
    BY <1>1, <1>3, SlotsNat DEF Stopped, Verified, OK
  <2>2. SlotsOf(obs) = SignedSlots(r) /\ AllOK(obs, n)
    <3>1. SignedSlots(r) \subseteq 1..Slots /\ slot[c] - 1 = Slots
      BY <2>1, SlotsNat DEF SignedSlots
    <3> QED BY <2>1, <3>1 DEF Going
  <2>3. AllGenuine(r)
    BY <1>1, <2>2 DEF AllGenuine, YesIsGenuine, AllOK, SlotsOf
  <2> QED BY <1>3, <2>3
<1>4. CASE cause[c] # OK
  <2>1. Stopped(c)
    BY <1>1, <1>4 DEF Going
  <2>2. CASE cause[c] = "SIGNATURE_INVALID"
    <3>1. n \in 1..n
      BY <1>2, <2>1 DEF Stopped
    <3>2. PICK e \in Matching(r, obs[n].slot) : e.signature # "genuine"
      BY <2>1, <2>2 DEF Stopped
    <3>3. obs[n].slot \in SignedSlots(r)
      BY <1>2, <3>1 DEF SignedSlots, Matching
    <3>4. ~AllGenuine(r)
      BY <3>2, <3>3 DEF AllGenuine
    <3> QED BY <2>2, <3>4
  <2>3. CASE cause[c] = "BACKEND_FAILURE"
    BY <2>1, <2>3 DEF Stopped
  <2> QED BY <2>1, <2>2, <2>3 DEF Stopped
<1> QED BY <1>3, <1>4

\* At one moment of every verification that has come to an end, what it answered was
\* the answer.
LEMMA MomentAnswers ==
  ASSUME IInv, CopiesInv, NEW c \in Calls, AskedInv(c), DeterminedInv(c), Concluded(c)
  PROVE  \E ids \in Moments(c) :
           LET verdict == Answer(P(c), now[c], minimum[c], ids)
           IN  \/ cause[c] = verdict
               \/ /\ cause[c] = "BACKEND_FAILURE" /\ faults > 0
                  /\ verdict \in {OK, "SIGNATURE_INVALID"}
<1> DEFINE input == IF P(c).audited THEN OK ELSE InputRejection(P(c))
           waves == IF AllGenuine(P(c).receipt) THEN OK ELSE "SIGNATURE_INVALID"
           fits == FitsBudget(P(c).json)
<1>1. \A ids : Answer(P(c), now[c], minimum[c], ids)
                 = IF input # OK THEN input
                   ELSE IF ~fits THEN "CONTRACT"
                   ELSE IF PreflightAt(c, ids) # OK THEN PreflightAt(c, ids)
                   ELSE waves
  BY Zenon DEF Answer, PreflightAt
<1>2. /\ copy[c].verdict = "copied" => fits
      /\ copy[c].verdict = "over_budget" => ~fits
  BY DEF CopiesInv, CopyInv
<1>3. seen_before[c] \in Moments(c)
  BY DEF Moments, IInv, Typed
<1>4. InputPasses(c) => input = OK
  BY DEF InputPasses
<1>5. waves \in {OK, "SIGNATURE_INVALID"}
  OBVIOUS
<1>6. CASE slot[c] # 0
  <2>1. InputPasses(c) /\ fits /\ \E ids \in Moments(c) : PreflightAt(c, ids) = OK
    BY <1>2, <1>6 DEF DeterminedInv
  <2>2. PICK ids \in Moments(c) : PreflightAt(c, ids) = OK
    BY <2>1
  <2>3. cause[c] = waves \/ (cause[c] = "BACKEND_FAILURE" /\ faults > 0)
    BY <1>6, WavesAnswer
  <2> HIDE DEF input, waves, fits
  <2>4. Answer(P(c), now[c], minimum[c], ids) = waves
    BY <1>1, <1>4, <2>1, <2>2
  <2> QED BY <1>5, <2>3, <2>4
<1>7. CASE slot[c] = 0
  <2>1. EndedEarly(c)
    BY <1>7 DEF DeterminedInv
  <2>2. CASE ~P(c).audited /\ cause[c] = InputRejection(P(c)) /\ cause[c] # OK
    <3>1. cause[c] = input /\ input # OK
      BY <2>2
    <3> HIDE DEF input, waves, fits
    <3>2. Answer(P(c), now[c], minimum[c], seen_before[c]) = cause[c]
      BY <1>1, <3>1
    <3> QED BY <1>3, <3>2
  <2>3. CASE InputPasses(c) /\ copy[c].verdict = "over_budget" /\ cause[c] = "CONTRACT"
    <3> HIDE DEF input, waves, fits
    <3>1. Answer(P(c), now[c], minimum[c], seen_before[c]) = cause[c]
      BY <1>1, <1>2, <1>4, <2>3
    <3> QED BY <1>3, <3>1
  <2>4. CASE /\ InputPasses(c) /\ copy[c].verdict = "copied" /\ cause[c] # OK
             /\ \E ids \in Moments(c) : cause[c] = PreflightAt(c, ids)
    <3> HIDE DEF input, waves, fits
    <3>1. PICK ids \in Moments(c) : cause[c] = PreflightAt(c, ids)
      BY <2>4
    <3>2. Answer(P(c), now[c], minimum[c], ids) = cause[c]
      BY <1>1, <1>2, <1>4, <2>4, <3>1
    <3> QED BY <3>1, <3>2
  <2> QED BY <2>1, <2>2, <2>3, <2>4 DEF EndedEarly
<1> QED BY <1>6, <1>7

\* However the steps of all calls fall, a verification answers what the input, its
\* budget, its preflight and its signatures, in this order, are worth
\* (verifier lines 1221-1340).
THEOREM AnswerIsDetermined == Spec => []VerdictIsDetermined
<1> DEFINE Asked == \A c \in Calls : AskedInv(c)
           Determined == \A c \in Calls : DeterminedInv(c)
<1>1. IInv /\ Asked /\ CopiesInv /\ Determined => VerdictIsDetermined
  BY MomentAnswers DEF VerdictIsDetermined, Moments
<1>2. (Spec => []Asked) /\ (Spec => []Determined)
  BY AskedInductive, DeterminedInductive
<1> HIDE DEF Asked, Determined
<1> QED BY <1>1, <1>2, Inductive, CopiesInductive, PTL

(***************************************************************************)
(* What one verification can do to the answer of another.                  *)
(***************************************************************************)

\* The causes that depend on what the host passes as seen.
Remembered == {"REPLAY", "INVALID_REPLAY_INPUT"}

\* Chains that differ only in checks of these causes come to the same, unless one of
\* these checks is the one that rejects.
LEMMA ChainsApart ==
  ASSUME NEW s, NEW t, NEW n \in Nat, Len(s) = n, Len(t) = n,
         \A i \in 1..n : s[i] = t[i] \/ {s[i], t[i]} \subseteq Remembered \cup {OK}
  PROVE  \/ FirstRejection(s) = FirstRejection(t)
         \/ FirstRejection(s) \in Remembered \/ FirstRejection(t) \in Remembered
<1> DEFINE a == FirstRejection(s)
           b == FirstRejection(t)
<1>1. /\ a = OK <=> \A i \in 1..n : s[i] = OK
      /\ b = OK <=> \A i \in 1..n : t[i] = OK
      /\ a # OK => \E i \in 1..n : a = s[i] /\ \A j \in 1..(i - 1) : s[j] = OK
      /\ b # OK => \E i \in 1..n : b = t[i] /\ \A j \in 1..(i - 1) : t[j] = OK
  BY FirstRejectionOutcome, FirstRejectionFollows
<1> HIDE DEF a, b
<1> SUFFICES ASSUME a \notin Remembered, b \notin Remembered PROVE a = b
  BY DEF a, b
<1>2. CASE a = OK
  <2>1. \A i \in 1..n : s[i] = OK
    BY <1>1, <1>2
  <2>2. \A i \in 1..n : t[i] \in Remembered \cup {OK}
    BY <2>1
  <2> QED BY <1>1, <1>2, <2>2
<1>3. CASE b = OK
  <2>1. \A i \in 1..n : t[i] = OK
    BY <1>1, <1>3
  <2>2. \A i \in 1..n : s[i] \in Remembered \cup {OK}
    BY <2>1
  <2> QED BY <1>1, <1>3, <2>2
<1>4. CASE a # OK /\ b # OK
  <2>1. PICK i \in 1..n : a = s[i] /\ \A j \in 1..(i - 1) : s[j] = OK
    BY <1>1, <1>4
  <2>2. PICK k \in 1..n : b = t[k] /\ \A j \in 1..(k - 1) : t[j] = OK
    BY <1>1, <1>4
  <2>3. s[i] = t[i] /\ s[k] = t[k]
    BY <1>4, <2>1, <2>2
  <2>4. ~(i < k) /\ ~(k < i)
    <3>1. ~(i \in 1..(k - 1)) /\ ~(k \in 1..(i - 1))
      BY <1>4, <2>1, <2>2, <2>3
    <3> QED BY <3>1
  <2>5. i = k
    BY <2>4
  <2> QED BY <2>1, <2>2, <2>3, <2>5
<1> QED BY <1>2, <1>3, <1>4

\* The ids of the host make a difference to a preflight only as a replay.
LEMMA PreflightApart ==
  ASSUME NEW p, NEW t, NEW least, NEW ids, NEW others
  PROVE  LET a == PreflightRejection(p, t, least, ids)
             b == PreflightRejection(p, t, least, others)
         IN  a = b \/ a \in Remembered \/ b \in Remembered
<1> DEFINE chain(i) ==
             << ContractRejection(p.receipt, p.context),
                BundlesRejection(p.receipt),
                Reject("REQUEST_MISMATCH", p.receipt.request_id # p.request_id),
                Reject("NO_BACKEND", ~p.backend),
                Reject("INVALID_REPLAY_INPUT",
                       \/ p.input_defect = "identifiers"
                       \/ IdentifiersRefused(i, MaxIdentifiers)
                       \/ IdentifiersRefused(p.denylist, MaxIdentifiers)),
                Reject("REPLAY", \/ p.receipt.request_id \in i
                                 \/ p.receipt.receipt_hash \in p.denylist) >>
<1>1. \A i : ReceiptRejection(p, i) = FirstRejection(chain(i))
  BY Zenon DEF ReceiptRejection
<1>2. ASSUME NEW i
      PROVE  /\ Len(chain(i)) = 6
             /\ chain(i)[5] \in {OK, "INVALID_REPLAY_INPUT"}
             /\ chain(i)[6] \in {OK, "REPLAY"}
  BY Zenon DEF Reject
<1>3. /\ chain(ids)[1] = chain(others)[1] /\ chain(ids)[2] = chain(others)[2]
      /\ chain(ids)[3] = chain(others)[3] /\ chain(ids)[4] = chain(others)[4]
  OBVIOUS
<1> HIDE DEF chain
<1>4. \A k \in 1..6 : k = 1 \/ k = 2 \/ k = 3 \/ k = 4 \/ k = 5 \/ k = 6
  OBVIOUS
<1>5. \A k \in 1..6 : \/ chain(ids)[k] = chain(others)[k]
                      \/ {chain(ids)[k], chain(others)[k]} \subseteq Remembered \cup {OK}
  BY <1>2, <1>3, <1>4 DEF Remembered
<1>6. OK \notin Remembered /\ 6 \in Nat
  BY DEF OK, Remembered
<1>7. LET a == ReceiptRejection(p, ids)
          b == ReceiptRejection(p, others)
      IN  a = b \/ a \in Remembered \/ b \in Remembered
  <2> DEFINE x == chain(ids)
             y == chain(others)
  <2>1. Len(x) = 6 /\ Len(y) = 6
    BY <1>2
  <2>2. \A k \in 1..6 : x[k] = y[k] \/ {x[k], y[k]} \subseteq Remembered \cup {OK}
    BY <1>5
  <2>3. ReceiptRejection(p, ids) = FirstRejection(x)
        /\ ReceiptRejection(p, others) = FirstRejection(y)
    BY <1>1
  <2> HIDE DEF x, y
  <2>4. \/ FirstRejection(x) = FirstRejection(y)
        \/ FirstRejection(x) \in Remembered \/ FirstRejection(y) \in Remembered
    BY <1>6, <2>1, <2>2, ChainsApart
  <2> QED BY <2>3, <2>4
<1> DEFINE input == InputRejection(p)
           trust == TrustRejection(p, t, least)
<1>8. \A i : PreflightRejection(p, t, least, i)
               = IF input # OK THEN input
                 ELSE IF ReceiptRejection(p, i) # OK THEN ReceiptRejection(p, i) ELSE trust
  BY Zenon DEF PreflightRejection
<1> HIDE DEF input, trust
<1> QED BY <1>6, <1>7, <1>8

\* Nor do they to an answer.
LEMMA AnswersApart ==
  ASSUME NEW p, NEW t, NEW least, NEW ids, NEW others
  PROVE  LET a == Answer(p, t, least, ids)
             b == Answer(p, t, least, others)
         IN  a = b \/ a \in Remembered \/ b \in Remembered
<1> DEFINE input == IF p.audited THEN OK ELSE InputRejection(p)
           waves == IF AllGenuine(p.receipt) THEN OK ELSE "SIGNATURE_INVALID"
           fits == FitsBudget(p.json)
<1>1. \A i : Answer(p, t, least, i)
               = IF input # OK THEN input
                 ELSE IF ~fits THEN "CONTRACT"
                 ELSE IF PreflightRejection(p, t, least, i) # OK
                      THEN PreflightRejection(p, t, least, i)
                      ELSE waves
  BY Zenon DEF Answer
<1>2. LET a == PreflightRejection(p, t, least, ids)
          b == PreflightRejection(p, t, least, others)
      IN  a = b \/ a \in Remembered \/ b \in Remembered
  BY PreflightApart
<1>3. OK \notin Remembered
  BY DEF OK, Remembered
<1> HIDE DEF input, waves, fits
<1> QED BY <1>1, <1>2, <1>3

\* Verifications share nothing but what the host has recorded: neither a budget nor a
\* backend's answer of one reaches another (audit lines 554-644).
THEOREM NothingElseIsShared == Spec => []OnlyReplayTellsCallsApart
<1>1. VerdictIsDetermined => OnlyReplayTellsCallsApart
  <2> SUFFICES ASSUME VerdictIsDetermined, NEW c \in Calls, NEW d \in Calls,
                      Concluded(c), Concluded(d), cause[c] # cause[d],
                      name[c] = name[d], now[c] = now[d], minimum[c] = minimum[d],
                      "BACKEND_FAILURE" \notin {cause[c], cause[d]}
               PROVE  {cause[c], cause[d]} \cap Remembered # {}
    BY DEF OnlyReplayTellsCallsApart, Remembered
  <2>1. PICK ids : cause[c] = Answer(P(c), now[c], minimum[c], ids)
    BY DEF VerdictIsDetermined
  <2>2. PICK others : cause[d] = Answer(P(d), now[d], minimum[d], others)
    BY DEF VerdictIsDetermined
  <2>3. cause[d] = Answer(P(c), now[c], minimum[c], others)
    BY <2>2 DEF P
  <2> QED BY <2>1, <2>3, AnswersApart
<1> QED BY <1>1, AnswerIsDetermined, PTL

(***************************************************************************)
(* How much work a verification is.                                        *)
(***************************************************************************)

\* A copy has a stack no higher than the nodes it has counted.
Compact(copied) ==
  /\ DOMAIN copied = {"path", "nodes", "bytes", "verdict"}
  /\ \E S : copied.path \in Seq(S)
  /\ copied.nodes \in Nat /\ copied.nodes <= MaxNodes
  /\ Len(copied.path) <= copied.nodes

\* An object that is taken is counted, and is at most one container more to leave.
LEMMA TakeCounts ==
  ASSUME NEW before, Compact(before), NEW json, NEW object, NEW key
  PROVE  LET next == Take(before, json, object, key)
         IN  /\ Compact(next)
             /\ next.verdict # "over_budget" =>
                  next.nodes = before.nodes + 1 /\ Len(next.path) <= Len(before.path) + 1
<1> DEFINE next == Take(before, json, object, key)
           entry == [at |-> object, taken |-> 0]
<1>1. PICK S : before.path \in Seq(S)
  BY DEF Compact
<1>2. before.path \in Seq(S \cup {entry}) /\ entry \in S \cup {entry}
  BY <1>1
<1> HIDE DEF entry
<1>3. /\ Append(before.path, entry) \in Seq(S \cup {entry})
      /\ Len(Append(before.path, entry)) = Len(before.path) + 1
      /\ Len(before.path) \in Nat
  BY <1>2, AppendProperties, LenProperties
<1>4. CASE Refused(before, json, object, key)
  <2>1. /\ DOMAIN next = DOMAIN before /\ next.verdict = "over_budget"
        /\ next.path = before.path /\ next.nodes = before.nodes
    BY <1>4 DEF Take, OverBudget, Compact
  <2> HIDE DEF next
  <2>2. Compact(next)
    BY <2>1 DEF Compact
  <2> QED BY <2>1, <2>2 DEF next
<1>5. CASE ~Refused(before, json, object, key)
  <2>1. /\ DOMAIN next = {"path", "nodes", "bytes", "verdict"}
        /\ next.path \in {before.path, Append(before.path, entry)}
        /\ next.nodes = before.nodes + 1
    BY <1>5 DEF Take, entry
  <2>2. before.nodes + 1 <= MaxNodes
    BY <1>5, BudgetAssumption DEF Refused, Compact
  <2> HIDE DEF next
  <2>3. Compact(next)
    BY <1>1, <1>3, <2>1, <2>2 DEF Compact
  <2> QED BY <1>3, <2>1, <2>3 DEF next
<1> QED BY <1>4, <1>5

\* The steps a copy has still to make, at most.
CopyLeft(copied) == 2 * (MaxNodes - copied.nodes) + Len(copied.path)

\* Every step of a copy is one of them.
LEMMA CopyStepCounts ==
  ASSUME NEW before, Compact(before), NEW json
  PROVE  LET next == CopyStep(before, json)
         IN  /\ Compact(next)
             /\ next.verdict # "over_budget" => CopyLeft(next) < CopyLeft(before)
<1> DEFINE next == CopyStep(before, json)
<1>1. PICK S : before.path \in Seq(S)
  BY DEF Compact
<1>2. /\ Len(before.path) \in Nat /\ before.nodes \in Nat /\ before.nodes <= MaxNodes
      /\ DOMAIN before = {"path", "nodes", "bytes", "verdict"} /\ MaxNodes \in Nat
      /\ Len(before.path) <= before.nodes
  BY <1>1, BudgetAssumption, LenProperties DEF Compact
<1>3. ASSUME NEW other, Compact(other), other.nodes = before.nodes,
             Len(other.path) = Len(before.path), NEW object, NEW key,
             next = Take(other, json, object, key)
      PROVE  Compact(next) /\ (next.verdict # "over_budget" => CopyLeft(next) < CopyLeft(before))
  <2> HIDE DEF next
  <2>1. /\ Compact(next)
        /\ next.verdict # "over_budget" =>
             next.nodes = before.nodes + 1 /\ Len(next.path) <= Len(before.path) + 1
    BY <1>3, TakeCounts
  <2>2. next.nodes \in Nat /\ Len(next.path) \in Nat
    BY <2>1, LenProperties DEF Compact
  <2> QED BY <1>2, <2>1, <2>2 DEF CopyLeft
<1>4. CASE before.path = <<>>
  <2>1. next = Take(before, json, json.root, 0)
    BY <1>4 DEF CopyStep
  <2> QED BY <1>3, <2>1
<1>5. CASE before.path # <<>>
  <2> DEFINE n == Len(before.path)
             top == Last(before.path)
             items == json.node[top.at].items
             other == [before EXCEPT !.path[Len(before.path)].taken = @ + 1]
             left == [before EXCEPT !.path = Front(@),
                                    !.verdict = IF Len(before.path) = 1 THEN "copied" ELSE @]
  <2>1. next = IF top.taken < Len(items)
               THEN Take(other, json, items[top.taken + 1].at, items[top.taken + 1].key)
               ELSE left
    BY <1>5, Zenon DEF CopyStep
  <2>2. n \in Nat \ {0}
    BY <1>1, <1>5, EmptySeq
  <2>3. CASE next = Take(other, json, items[top.taken + 1].at, items[top.taken + 1].key)
    <3> DEFINE path == [before.path EXCEPT ![n].taken = @ + 1]
    <3>1. path \in Seq(Range(path)) /\ Len(path) = n
      <4>1. DOMAIN path = 1..n
        BY <1>1, LenProperties
      <4>2. path = [i \in 1..n |-> path[i]]
        BY <4>1
      <4> HIDE DEF path
      <4>3. path \in [1..n -> Range(path)]
        BY <4>1, <4>2 DEF Range
      <4> QED BY <1>2, <4>3
    <3>2. /\ other.path = path /\ other.nodes = before.nodes
          /\ DOMAIN other = {"path", "nodes", "bytes", "verdict"}
      BY <1>2
    <3> HIDE DEF path, other
    <3>3. Compact(other)
      BY <1>2, <3>1, <3>2 DEF Compact
    <3> QED BY <1>3, <2>3, <3>1, <3>2, <3>3
  <2>4. CASE next = left
    <3>1. Front(before.path) \in Seq(S) /\ Len(Front(before.path)) = n - 1
      <4>1. SubSeq(before.path, 1, n - 1) \in Seq(S)
            /\ Len(SubSeq(before.path, 1, n - 1)) = n - 1
        BY <1>1, <2>2, SubSeqProperties
      <4> QED BY <4>1 DEF Front
    <3>2. /\ left.path = Front(before.path) /\ left.nodes = before.nodes
          /\ DOMAIN left = {"path", "nodes", "bytes", "verdict"}
      BY <1>2
    <3> HIDE DEF left, n
    <3>3. Compact(left) /\ CopyLeft(left) < CopyLeft(before)
      BY <1>2, <2>2, <3>1, <3>2 DEF Compact, CopyLeft, n
    <3> QED BY <2>4, <3>3
  <2> QED BY <2>1, <2>3, <2>4
<1> QED BY <1>4, <1>5

\* The copies of all calls are compact at all times.
Compacts == \A c \in Calls : Compact(copy[c])

LEMMA CompactsNext ==
  ASSUME Typed, Compacts, [Next]_vars
  PROVE  Compacts'
<1>1. ASSUME NEW c \in Calls, Copy(c) PROVE Compacts'
  <2>1. copy' = [copy EXCEPT ![c] = CopyStep(copy[c], P(c).json)]
    BY <1>1 DEF Copy
  <2>2. Compact(copy[c])
    BY DEF Compacts
  <2>3. Compact(CopyStep(copy[c], P(c).json))
    BY <2>2, CopyStepCounts
  <2> QED BY <2>1, <2>3 DEF Compacts, Typed, TypeOK
<1>2. CASE copy' = copy
  BY <1>2 DEF Compacts
<1>3. copy' = copy \/ \E c \in Calls : Copy(c)
  <2>1. ASSUME NEW c \in Calls,
               (Step(c) /\ ~Copy(c)) \/ RecordResult(c) \/ \E n \in Names : Submit(c, n)
        PROVE  copy' = copy
    BY <2>1 DEF Step, Preflight, SkipSlot, Callback, AppendBatch, Acknowledge, Return,
                RecordResult, Submit
  <2> QED BY <2>1 DEF Next, Crash, Tick, vars
<1> QED BY <1>1, <1>2, <1>3

LEMMA CompactsInductive == Spec => []Compacts
<1>1. Init => Compacts
  <2>1. Compact(NoCopy)
    <3>1. <<>> \in Seq({}) /\ Len(<<>>) = 0
      OBVIOUS
    <3> QED BY <3>1, BudgetAssumption DEF Compact, NoCopy
  <2> QED BY <2>1 DEF Init, Compacts
<1>2. IInv => Typed
  BY DEF IInv
<1>3. Typed /\ Compacts /\ [Next]_vars => Compacts'
  BY CompactsNext
<1> QED BY <1>1, <1>2, <1>3, Inductive, PTL DEF Spec

\* The numbers the work is reckoned in.
LEMMA WorkNumbers ==
  ASSUME IInv, Compacts, NEW c \in Calls
  PROVE  /\ MaxNodes \in Nat /\ Slots \in Nat /\ Slots > 0
         /\ copy[c].nodes \in Nat /\ copy[c].nodes <= MaxNodes
         /\ Len(copy[c].path) \in Nat /\ Len(copy[c].path) <= copy[c].nodes
         /\ CopyLeft(copy[c]) \in 0..(2 * MaxNodes)
         /\ pc[c] = "waves" => slot[c] \in 1..Slots
         /\ WorkLeft(c) = CASE pc[c] = "copying"   -> CopyLeft(copy[c]) + Slots + 5
                            [] pc[c] = "preflight" -> Slots + 4
                            [] pc[c] = "waves"     -> Slots - slot[c] + 3
                            [] pc[c] \in {"decided", "failed"} -> 2
                            [] pc[c] \in {"appending", "appending_failure"} -> 1
                            [] OTHER -> 0
<1>1. MaxNodes \in Nat /\ Slots \in Nat /\ Slots > 0
  BY SlotsNat, BudgetAssumption
<1>2. Compact(copy[c])
  BY DEF Compacts
<1>3. /\ copy[c].nodes \in Nat /\ copy[c].nodes <= MaxNodes
      /\ Len(copy[c].path) \in Nat /\ Len(copy[c].path) <= copy[c].nodes
  BY <1>2, LenProperties DEF Compact
<1>4. CopyLeft(copy[c]) \in 0..(2 * MaxNodes)
  BY <1>1, <1>3 DEF CopyLeft
<1>5. pc[c] = "waves" => slot[c] \in 1..Slots
  BY DEF IInv, StageInv
<1> QED BY <1>1, <1>3, <1>4, <1>5, Zenon DEF WorkLeft, CopyLeft

\* There is never more work left than MaxWork.
WorkIsBounded == \A c \in Calls : WorkLeft(c) \in 0..MaxWork

LEMMA WorkBound ==
  ASSUME IInv, Compacts
  PROVE  WorkIsBounded
<1> SUFFICES ASSUME NEW c \in Calls PROVE WorkLeft(c) \in 0..MaxWork
  BY DEF WorkIsBounded
<1> DEFINE left == CopyLeft(copy[c])
<1>1. /\ MaxNodes \in Nat /\ Slots \in Nat /\ Slots > 0
      /\ left \in 0..(2 * MaxNodes)
      /\ pc[c] = "waves" => slot[c] \in 1..Slots
      /\ WorkLeft(c) = CASE pc[c] = "copying"   -> left + Slots + 5
                         [] pc[c] = "preflight" -> Slots + 4
                         [] pc[c] = "waves"     -> Slots - slot[c] + 3
                         [] pc[c] \in {"decided", "failed"} -> 2
                         [] pc[c] \in {"appending", "appending_failure"} -> 1
                         [] OTHER -> 0
  BY WorkNumbers
<1> HIDE DEF left
<1>2. CASE pc[c] = "waves"
  BY <1>1, <1>2 DEF MaxWork
<1>3. CASE pc[c] # "waves"
  BY <1>1, <1>3 DEF MaxWork
<1> QED BY <1>2, <1>3

\* Each step of a call is one of those it has left.
LEMMA StepWork ==
  ASSUME IInv, Compacts, NEW c \in Calls, Step(c)
  PROVE  WorkLeft(c)' < WorkLeft(c)
<1> DEFINE left == CopyLeft(copy[c])
           leftAfter == CopyLeft(copy'[c])
<1>0. /\ DOMAIN copy = Calls /\ pc \in [Calls -> Stages \cup Ends \cup {"new"}]
      /\ slot \in [Calls -> 0..(Slots + 1)]
  BY DEF IInv, Typed, TypeOK
<1>1. /\ Slots \in Nat /\ Slots > 0 /\ left \in Nat
      /\ pc[c] = "waves" => slot[c] \in 1..Slots
  BY WorkNumbers
<1>2. /\ pc[c] = "copying" => WorkLeft(c) = left + Slots + 5
      /\ pc[c] = "preflight" => WorkLeft(c) = Slots + 4
      /\ pc[c] = "waves" => WorkLeft(c) = Slots - slot[c] + 3
      /\ pc[c] \in {"decided", "failed"} => WorkLeft(c) = 2
      /\ pc[c] \in {"appending", "appending_failure"} => WorkLeft(c) = 1
  BY DEF WorkLeft, CopyLeft
<1>9. /\ pc'[c] = "copying" => WorkLeft(c)' = leftAfter + Slots + 5
      /\ pc'[c] = "preflight" => WorkLeft(c)' = Slots + 4
      /\ pc'[c] = "waves" => WorkLeft(c)' = Slots - slot'[c] + 3
      /\ pc'[c] \in {"decided", "failed"} => WorkLeft(c)' = 2
      /\ pc'[c] \in {"appending", "appending_failure"} => WorkLeft(c)' = 1
      /\ pc'[c] \in Ends => WorkLeft(c)' = 0
  BY DEF WorkLeft, CopyLeft, Ends
<1> HIDE DEF left, leftAfter
<1>3. CASE Copy(c)
  <2> DEFINE next == CopyStep(copy[c], P(c).json)
  <2>1. /\ pc[c] = "copying" /\ copy'[c] = next
        /\ \/ pc'[c] = "copying" /\ next.verdict = "copying"
           \/ pc'[c] \in {"preflight", "decided", "failed"}
    BY <1>0, <1>3 DEF Copy
  <2>2. Compact(copy[c])
    BY DEF Compacts
  <2>3. Compact(next) /\ (next.verdict # "over_budget" => CopyLeft(next) < CopyLeft(copy[c]))
    BY <2>2, CopyStepCounts
  <2> HIDE DEF next
  <2>4. CopyLeft(next) \in Int /\ leftAfter = CopyLeft(next)
    <3>1. next.nodes \in Nat /\ Len(next.path) \in Nat
      BY <2>3, LenProperties DEF Compact
    <3> QED BY <2>1, <3>1, BudgetAssumption DEF CopyLeft, leftAfter
  <2>5. pc'[c] = "copying" => leftAfter < left
    BY <2>1, <2>3, <2>4 DEF left
  <2> QED BY <1>1, <1>2, <1>9, <2>1, <2>4, <2>5
<1>4. CASE Preflight(c)
  <2>1. pc[c] = "preflight" /\ \/ pc'[c] = "waves" /\ slot'[c] = 1
                               \/ pc'[c] = "decided"
    BY <1>0, <1>4 DEF Preflight
  <2> QED BY <1>1, <1>2, <1>9, <2>1 DEF Ends
<1>5. CASE SkipSlot(c) \/ Callback(c)
  <2>1. pc[c] = "waves" /\ \/ pc'[c] = "waves" /\ slot'[c] = slot[c] + 1
                           \/ pc'[c] = "decided"
    <3>1. CASE Advance(c)
      BY <1>0, <1>5, <3>1 DEF SkipSlot, Callback, Advance
    <3>2. CASE ~Advance(c)
      <4>1. pc[c] = "waves" /\ pc' = [pc EXCEPT ![c] = "decided"]
        BY <1>5, <3>2 DEF SkipSlot, Callback
      <4> QED BY <1>0, <4>1
    <3> QED BY <3>1, <3>2
  <2> QED BY <1>1, <1>2, <1>9, <2>1 DEF Ends
<1>6. CASE AppendBatch(c)
  <2>1. /\ pc[c] \in {"decided", "failed"}
        /\ pc'[c] \in {"appending", "appending_failure", "sink_error"}
    BY <1>0, <1>6 DEF AppendBatch
  <2> QED BY <1>1, <1>2, <1>9, <2>1 DEF Ends
<1>7. CASE Acknowledge(c)
  <2>1. \E stage \in {"returned", "audited_error", "sink_error"} :
          pc' = [pc EXCEPT ![c] = stage]
    BY <1>7 DEF Acknowledge
  <2>2. /\ pc[c] \in {"appending", "appending_failure"}
        /\ pc'[c] \in {"returned", "audited_error", "sink_error"}
    BY <1>0, <1>7, <2>1 DEF Acknowledge
  <2> QED BY <1>1, <1>2, <1>9, <2>2 DEF Ends
<1>8. CASE Return(c)
  <2>1. pc[c] = "decided" /\ pc'[c] = "returned"
    BY <1>0, <1>8 DEF Return
  <2> QED BY <1>1, <1>2, <1>9, <2>1 DEF Ends
<1> QED BY <1>3, <1>4, <1>5, <1>6, <1>7, <1>8 DEF Step

\* Nobody else gives a call more to do, and what is cut off has nothing left.
LEMMA WorkShrinks ==
  ASSUME IInv, Compacts, [Next]_vars, NEW c \in Calls, pc[c] \in Stages,
         Progress(c)' # Progress(c)
  PROVE  WorkLeft(c)' < WorkLeft(c)
<1>1. CASE Step(c)
  BY <1>1, StepWork
<1>2. ASSUME NEW d \in Calls \ {c},
             Step(d) \/ RecordResult(d) \/ \E n \in Names : Submit(d, n)
      PROVE  FALSE
  <2>1. RecordKept(c) /\ pc'[c] = pc[c] /\ copy'[c] = copy[c]
    BY <1>2, OthersKept, OtherCopiesKept DEF IInv
  <2> QED BY <2>1 DEF Progress, RecordKept
<1>3. ~RecordResult(c) /\ ~\E n \in Names : Submit(c, n)
  BY DEF RecordResult, Submit, Stages
<1>4. CASE Crash
  <2>1. WorkLeft(c) > 0
    <3> DEFINE left == CopyLeft(copy[c])
    <3>1. /\ Slots \in Nat /\ left \in 0..(2 * MaxNodes) /\ MaxNodes \in Nat
          /\ pc[c] = "waves" => slot[c] \in 1..Slots
          /\ WorkLeft(c) = CASE pc[c] = "copying"   -> left + Slots + 5
                             [] pc[c] = "preflight" -> Slots + 4
                             [] pc[c] = "waves"     -> Slots - slot[c] + 3
                             [] pc[c] \in {"decided", "failed"} -> 2
                             [] pc[c] \in {"appending", "appending_failure"} -> 1
                             [] OTHER -> 0
      BY WorkNumbers
    <3> HIDE DEF left
    <3> QED BY <3>1 DEF Stages
  <2>2. pc'[c] = "lost"
    BY <1>4 DEF Crash
  <2> QED BY <2>1, <2>2 DEF WorkLeft
<1>5. CASE Tick \/ UNCHANGED vars
  BY <1>5 DEF Tick, vars, Progress
<1> QED BY <1>1, <1>2, <1>3, <1>4, <1>5 DEF Next

\* No verification makes more than MaxWork steps, whatever it is handed: each of its
\* steps leaves it with less to do (shield_v4_work_budget.py:67-157, verifier lines
\* 1013-1061).
THEOREM WorkIsFinite == Spec => EveryStepCounts
<1> DEFINE Shrinks == \A c \in Calls :
             pc[c] \in Stages /\ Progress(c)' # Progress(c) => WorkLeft(c)' < WorkLeft(c)
           Counts == \A c \in Calls :
             /\ pc[c] \in Stages /\ Progress(c)' # Progress(c) => WorkLeft(c)' < WorkLeft(c)
             /\ WorkLeft(c)' \in 0..MaxWork
<1>1. IInv /\ Compacts /\ [Next]_vars => Shrinks
  BY WorkShrinks
<1>2. IInv /\ Compacts => WorkIsBounded
  BY WorkBound
<1>3. Shrinks /\ WorkIsBounded' => Counts
  BY DEF WorkIsBounded
<1> HIDE DEF Shrinks, Counts
<1>4. Spec => [][Counts]_vars
  BY <1>1, <1>2, <1>3, Inductive, CompactsInductive, PTL DEF Spec
<1> QED BY <1>4 DEF EveryStepCounts, Counts

=============================================================================
