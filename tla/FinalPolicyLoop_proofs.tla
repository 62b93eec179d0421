------------------------ MODULE FinalPolicyLoop_proofs ------------------------
(***************************************************************************)
(* For every set of engine inputs: the loop of evaluate_final_policy_engine*)
(* approves exactly the inputs with eight clean gates, and denies at the   *)
(* earliest gate that is not clean.  That it computes Evaluate, which the  *)
(* orchestrator's model calls, is a part of the inductive invariant.       *)
(***************************************************************************)
EXTENDS FinalPolicyLoop, FinalPolicyEngine_proofs

(***************************************************************************)
(* What the engine asks for is what the requirements call clean.           *)
(***************************************************************************)

\* The two preliminary checks are the well-formedness of the call.
LEMMA PreliminaryOK ==
  ASSUME NEW in
  PROVE  Preliminary(in) = OK <=> WellFormedCall(in)
<1> DEFINE s == << Reject("DENY_CONTEXT_MISMATCH", ~in.well_formed_context),
                   Reject("DENY_SHIELD_V4_REQUIRED", ~in.well_formed_mode) >>
<1>1. Preliminary(in) = FirstRejection(s)
  BY DEF Preliminary
<1>2. /\ Len(s) = 2
      /\ s[1] = Reject("DENY_CONTEXT_MISMATCH", ~in.well_formed_context)
      /\ s[2] = Reject("DENY_SHIELD_V4_REQUIRED", ~in.well_formed_mode)
  OBVIOUS
<1> HIDE DEF s
<1>3. FirstRejection(s) = OK <=> \A i \in 1..2 : s[i] = OK
  BY <1>2, FirstRejectionOutcome
<1>4. (\A i \in 1..2 : s[i] = OK) <=> s[1] = OK /\ s[2] = OK
  OBVIOUS
<1> QED BY <1>1, <1>2, <1>3, <1>4, Zenon DEF Reject, OK, WellFormedCall

\* A v4 result passes the chain exactly when all six parties signed twice.
LEMMA V4AcceptedIsClean ==
  ASSUME NEW v4
  PROVE  V4Accepted(v4) <=> CleanV4(v4)
<1>1. ({c.component_id : c \in v4.components} = RequiredComponents) <=>
        /\ \A id \in RequiredComponents : \E c \in v4.components : c.component_id = id
        /\ \A c \in v4.components : c.component_id \in RequiredComponents
  <2>1. \A R : ({c.component_id : c \in v4.components} = R) <=>
          /\ \A id \in R : \E c \in v4.components : c.component_id = id
          /\ \A c \in v4.components : c.component_id \in R
    OBVIOUS
  <2> QED BY <2>1
<1>2. \E a : a \in RequiredAlgorithms
  BY DEF RequiredAlgorithms
<1> QED BY <1>1, <1>2, Zenon DEF V4Accepted, CleanV4

\* A gate passes exactly when it is clean.
LEMMA AcceptedIsClean ==
  ASSUME NEW in, NEW gate
  PROVE  GateAccepted(in, gate) <=> CleanGate(in, gate)
BY V4AcceptedIsClean, Zenon
   DEF GateAccepted, EvidenceAccepted, CleanGate, CleanEvidence, CleanLocal

(***************************************************************************)
(* The loop.                                                               *)
(***************************************************************************)

\* The first n gates have passed.
Passed(n) == \A i \in 1..n : GateState(input, Gates[i]) = OK

\* What has been visited is the locked order up to here.
VisitedInOrder ==
  \A i \in 1..Len(visited) : visited[i] = Gates[i]

Names == Range(EvidenceGates) \cup Range(LocalGates)

\* The inductive invariant: while undecided, every visited gate has passed;
\* once decided, the result is Evaluate's, and a denial of a well-formed call
\* was reached at the last gate visited.
IInv ==
  /\ input \in Inputs
  /\ result = Undecided =>
       /\ visited \in Seq(Names)
       /\ Len(visited) <= Len(Gates)
       /\ VisitedInOrder
       /\ Passed(Len(visited))
       /\ visited # <<>> => Preliminary(input) = OK
  /\ result # Undecided =>
       /\ result = Evaluate(input)
       /\ Preliminary(input) = OK /\ result.state # ALLOW =>
            /\ visited \in Seq(Names)
            /\ Len(visited) \in 1..Len(Gates)
            /\ VisitedInOrder
            /\ result.stopped_at = Gates[Len(visited)]
            /\ GateState(input, Gates[Len(visited)]) # OK
            /\ Passed(Len(visited) - 1)

\* Where the loop stops is the position Evaluate uses.
LEMMA StopPosition ==
  ASSUME NEW in, NEW n \in 0..Len(Gates),
         \A j \in 1..(IF n = 0 THEN Len(Gates) ELSE n - 1) :
           GateState(in, Gates[j]) = OK,
         n # 0 => GateState(in, Gates[n]) # OK
  PROVE  FirstRejectedAt(GateStates(in)) = n
<1> DEFINE s == GateStates(in)
<1>0. Len(s) = 8 /\ 8 \in Nat
  BY LockedOrder, GateStatesAt
<1>1. /\ FirstRejectedAt(s) \in 0..8
      /\ FirstRejectedAt(s) = 0 <=> \A i \in 1..8 : s[i] = OK
      /\ FirstRejectedAt(s) # 0 =>
           /\ s[FirstRejectedAt(s)] # OK
           /\ \A j \in 1..(FirstRejectedAt(s) - 1) : s[j] = OK
  <2> HIDE DEF s
  <2> QED BY <1>0, FirstRejectedAtPosition, Zenon
<1>2. \A i \in 1..8 : s[i] = GateState(in, Gates[i])
  BY LockedOrder, GateStatesAt
<1>3. /\ n \in 0..8
      /\ \A j \in 1..(IF n = 0 THEN 8 ELSE n - 1) : s[j] = OK
      /\ n # 0 => s[n] # OK
  BY <1>2, LockedOrder
<1> HIDE DEF s
<1> QED BY <1>1, <1>3 DEF s

\* A loop that ends undisturbed, or stops at gate n, has computed Evaluate.
LEMMA LoopIsEvaluate ==
  ASSUME NEW in, Preliminary(in) = OK,
         NEW n \in 0..Len(Gates),
         \A j \in 1..(IF n = 0 THEN Len(Gates) ELSE n - 1) :
           GateState(in, Gates[j]) = OK,
         n # 0 => GateState(in, Gates[n]) # OK
  PROVE  Evaluate(in) = LoopResult(in, n)
<1>1. FirstRejectedAt(GateStates(in)) = n
  BY StopPosition
<1>2. Evaluate(in) = IF Preliminary(in) # OK THEN StoppedBeforeGates(in)
                     ELSE LoopResult(in, FirstRejectedAt(GateStates(in)))
  BY DEF Evaluate, GatesResult
<1> QED BY <1>1, <1>2

\* Visiting one more gate keeps the order.
LEMMA VisitNext ==
  ASSUME Visiting, IInv, visited' = Append(visited, NextGate)
  PROVE  LET n == Len(visited) + 1
         IN  /\ n \in 1..Len(Gates)
             /\ NextGate = Gates[n]
             /\ visited' \in Seq(Names)
             /\ Len(visited') = n
             /\ VisitedInOrder'
             /\ visited' # <<>>
<1> DEFINE n == Len(visited) + 1
<1>1. /\ visited \in Seq(Names) /\ Len(visited) \in Nat /\ Len(visited) < 8
      /\ \A i \in 1..Len(visited) : visited[i] = Gates[i]
  BY LockedOrder DEF Visiting, IInv, VisitedInOrder
<1>2. n \in 1..8
  BY <1>1
<1>3. NextGate = Gates[n] /\ NextGate \in Names
  <2>1. n = 1 \/ n = 2 \/ n = 3 \/ n = 4 \/ n = 5 \/ n = 6 \/ n = 7 \/ n = 8
    BY <1>2
  <2> HIDE DEF n
  <2>2. Gates[n] \in Names
    BY <2>1, LockedOrder DEF Names
  <2>3. NextGate = Gates[n]
    BY DEF NextGate, n
  <2> QED BY <2>2, <2>3
<1>4. /\ visited' \in Seq(Names)
      /\ Len(visited') = n
      /\ \A i \in 1..Len(visited) : visited'[i] = visited[i]
      /\ visited'[n] = NextGate
  BY <1>1, <1>3, AppendProperties
<1>5. \A i \in 1..Len(visited') : visited'[i] = Gates[i]
  BY <1>1, <1>2, <1>3, <1>4
<1>6. visited' # <<>>
  BY <1>2, <1>4
<1> QED BY <1>2, <1>3, <1>4, <1>5, <1>6, LockedOrder DEF VisitedInOrder

\* Init establishes the invariant.
LEMMA IInvInit == Init => IInv
<1> SUFFICES ASSUME Init PROVE IInv
  OBVIOUS
<1>1. visited \in Seq(Names) /\ Len(visited) = 0 /\ result = Undecided
  BY DEF Init
<1> QED BY <1>1, LockedOrder DEF Init, IInv, VisitedInOrder, Passed

\* Every step preserves it.
LEMMA IInvStep == IInv /\ [Next]_vars => IInv'
<1> SUFFICES ASSUME IInv, [Next]_vars PROVE IInv'
  OBVIOUS
<1>1. CASE RejectPreliminary
  <2>1. input' = input /\ input \in Inputs /\ Preliminary(input) # OK
    BY <1>1 DEF RejectPreliminary, IInv
  <2>2. result' = StoppedBeforeGates(input) /\ result' # Undecided
    BY <1>1, <2>1, UndecidedAssumption DEF RejectPreliminary
  <2>3. Evaluate(input) = StoppedBeforeGates(input)
    BY <2>1 DEF Evaluate
  <2> QED BY <2>1, <2>2, <2>3 DEF IInv
<1>2. CASE PassGate
  <2>1. /\ input' = input /\ result' = result /\ Visiting
        /\ visited' = Append(visited, NextGate) /\ GateState(input, NextGate) = OK
    BY <1>2 DEF PassGate
  <2> DEFINE n == Len(visited) + 1
  <2>2. /\ n \in 1..8 /\ NextGate = Gates[n] /\ visited' \in Seq(Names)
        /\ Len(visited') = n /\ VisitedInOrder'
    BY <2>1, VisitNext, LockedOrder
  <2>3. result = Undecided /\ Preliminary(input) = OK
    BY <2>1 DEF Visiting
  <2>4. \A i \in 1..n : GateState(input, Gates[i]) = OK
    <3>1. \A i \in 1..Len(visited) : GateState(input, Gates[i]) = OK
      BY <2>3 DEF IInv, Passed
    <3>2. \A i \in 1..n : i \in 1..Len(visited) \/ i = n
      BY <2>2
    <3> QED BY <2>1, <2>2, <3>1, <3>2, Zenon
  <2> HIDE DEF n
  <2> QED BY <2>1, <2>2, <2>3, <2>4, LockedOrder DEF IInv, Passed
<1>3. CASE StopAtGate
  <2>1. /\ input' = input /\ Visiting /\ visited' = Append(visited, NextGate)
        /\ GateState(input, NextGate) # OK
    BY <1>3 DEF StopAtGate
  <2> DEFINE n == Len(visited) + 1
  <2>2. /\ n \in 1..8 /\ NextGate = Gates[n] /\ visited' \in Seq(Names)
        /\ Len(visited') = n /\ VisitedInOrder'
    BY <2>1, VisitNext, LockedOrder
  <2>3. Preliminary(input) = OK /\ input \in Inputs /\ result = Undecided
    BY <2>1 DEF Visiting, IInv
  <2>4. \A i \in 1..(n - 1) : GateState(input, Gates[i]) = OK
    BY <2>2, <2>3 DEF IInv, Passed
  <2>5. result' = LoopResult(input, n)
    <3> HIDE DEF n
    <3>1. n # 0
      BY <2>2
    <3> QED BY <1>3, <2>2, <3>1, Zenon DEF StopAtGate, LoopResult
  <2> HIDE DEF n
  <2>6. result' # Undecided /\ result'.stopped_at = Gates[n]
    BY <2>2, <2>3, <2>5, UndecidedAssumption, LockedOrder DEF LoopResult, Stopped
  <2>7. Evaluate(input) = LoopResult(input, n)
    <3>1. n \in 0..Len(Gates) /\ n # 0
      BY <2>2, LockedOrder
    <3> QED BY <2>1, <2>2, <2>3, <2>4, <3>1, LoopIsEvaluate
  <2> QED BY <2>1, <2>2, <2>3, <2>4, <2>5, <2>6, <2>7, LockedOrder DEF IInv, Passed
<1>4. CASE Approve
  <2>1. /\ input' = input /\ result = Undecided /\ Len(visited) = 8
        /\ result' = FinalAllow /\ input \in Inputs
    BY <1>4, LockedOrder DEF Approve, IInv
  <2>2. Preliminary(input) = OK
    <3>1. visited # <<>>
      BY <2>1
    <3> QED BY <2>1, <3>1 DEF IInv
  <2>3. \A i \in 1..8 : GateState(input, Gates[i]) = OK
    BY <2>1 DEF IInv, Passed
  <2>4. result' = LoopResult(input, 0)
    BY <2>1 DEF LoopResult
  <2>5. Evaluate(input) = LoopResult(input, 0)
    BY <2>2, <2>3, LoopIsEvaluate, LockedOrder
  <2>6. result' # Undecided /\ result'.state = ALLOW
    BY <2>1, <2>4, UndecidedAssumption, LockedOrder DEF FinalAllow, Stopped
  <2> QED BY <2>1, <2>4, <2>5, <2>6 DEF IInv
<1>5. CASE UNCHANGED vars
  BY <1>5 DEF IInv, vars, VisitedInOrder, Passed
<1> QED BY <1>1, <1>2, <1>3, <1>4, <1>5 DEF Next

\* The invariant holds in every behaviour of the loop.
THEOREM IInvHolds == Spec => []IInv
BY IInvInit, IInvStep, PTL DEF Spec

(***************************************************************************)
(* What follows from it.                                                   *)
(***************************************************************************)

\* The engine approves exactly the inputs with eight clean gates.
THEOREM ApprovalUnanimous == Spec => []ApprovalIsUnanimous
<1>1. IInv => ApprovalIsUnanimous
  <2> SUFFICES ASSUME IInv, result # Undecided
               PROVE  (result.state = ALLOW) <=>
                        (WellFormedCall(input)
                           /\ \A i \in 1..Len(Gates) : CleanGate(input, Gates[i]))
    BY Zenon DEF ApprovalIsUnanimous
  <2>1. result = Evaluate(input)
    BY DEF IInv
  <2>2. Evaluate(input).state = ALLOW <=>
          /\ Preliminary(input) = OK
          /\ \A i \in 1..Len(Gates) : GateAccepted(input, Gates[i])
    BY EngineApprovesUnanimously, Zenon
  <2> QED BY <2>1, <2>2, PreliminaryOK, AcceptedIsClean, Zenon
<1> QED BY <1>1, IInvHolds, PTL

\* A denial names the earliest gate that is not clean, and the evaluation order
\* reported is the locked order up to it.
THEOREM DenialEarliest == Spec => []DenialNamesEarliestDefect
<1>1. IInv => DenialNamesEarliestDefect
  <2> DEFINE n == Len(visited)
  <2> SUFFICES ASSUME IInv, result # Undecided, result.state # ALLOW,
                      WellFormedCall(input)
               PROVE  /\ visited = SubSeq(Gates, 1, n)
                      /\ result.stopped_at = Gates[n]
                      /\ ~CleanGate(input, Gates[n])
                      /\ \A i \in 1..(n - 1) : CleanGate(input, Gates[i])
    BY Zenon DEF DenialNamesEarliestDefect
  <2>1. Preliminary(input) = OK
    BY PreliminaryOK
  <2>2. /\ visited \in Seq(Names) /\ n \in 1..8
        /\ \A i \in 1..n : visited[i] = Gates[i]
        /\ result.stopped_at = Gates[n]
        /\ GateState(input, Gates[n]) # OK
        /\ \A i \in 1..(n - 1) : GateState(input, Gates[i]) = OK
    BY <2>1, LockedOrder DEF IInv, VisitedInOrder, Passed
  <2> HIDE DEF n
  <2>3. \A i \in 1..(n - 1) : i \in 1..8
    BY <2>2
  <2>4. \A i \in 1..8 : GateState(input, Gates[i]) = OK <=> CleanGate(input, Gates[i])
    BY LockedOrder, GateStateOK, AcceptedIsClean
  <2>5. visited = SubSeq(Gates, 1, n)
    <3>1. Len(visited) = n /\ visited = [i \in 1..n |-> visited[i]]
      BY <2>2 DEF n
    <3>2. SubSeq(Gates, 1, n) = [i \in 1..n |-> Gates[i]]
      BY <2>2
    <3> QED BY <2>2, <3>1, <3>2
  <2> QED BY <2>2, <2>3, <2>4, <2>5
<1> QED BY <1>1, IInvHolds, PTL

=============================================================================
