-------------------------- MODULE FinalPolicyLoop ---------------------------
(***************************************************************************)
(* The loop of evaluate_final_policy_engine: gates are visited one at a    *)
(* time in the locked order, visited is its evaluation_order, and the      *)
(* first gate that does not pass ends it.                                  *)
(***************************************************************************)
EXTENDS FinalPolicyEngine

CONSTANTS
  Inputs,       \* the engine inputs explored
  Undecided     \* the result before the loop has ended

\* A result that has been reached is not mistaken for none.
ASSUME UndecidedAssumption ==
  \A in \in Inputs :
    /\ StoppedBeforeGates(in) # Undecided
    /\ \A at \in 0..Len(Gates) : LoopResult(in, at) # Undecided

VARIABLES input, visited, result

vars == <<input, visited, result>>

Init ==
  /\ input \in Inputs
  /\ visited = <<>>
  /\ result = Undecided

\* A malformed expected_context_hash or shield_v4_required ends the
\* evaluation before any gate is looked at.
RejectPreliminary ==
  /\ result = Undecided
  /\ visited = <<>>
  /\ Preliminary(input) # OK
  /\ result' = StoppedBeforeGates(input)
  /\ visited' = <<result'.stopped_at>>
  /\ UNCHANGED input

Visiting ==
  /\ result = Undecided
  /\ Preliminary(input) = OK
  /\ Len(visited) < Len(Gates)

NextGate == Gates[Len(visited) + 1]

\* Mutant: a gate that wants a human review does not end the loop.
PassGateToReview ==
  /\ Visiting
  /\ GateState(input, NextGate) \in {OK, "HUMAN_REVIEW_REQUIRED"}
  /\ visited' = Append(visited, NextGate)
  /\ UNCHANGED <<input, result>>

PassGate ==
  /\ Visiting
  /\ GateState(input, NextGate) = OK
  /\ visited' = Append(visited, NextGate)
  /\ UNCHANGED <<input, result>>

StopAtGate ==
  /\ Visiting
  /\ GateState(input, NextGate) # OK
  /\ visited' = Append(visited, NextGate)
  /\ result' = LET state == GateState(input, NextGate)
               IN  Stopped(state, EngineReason(input, NextGate, state), NextGate)
  /\ UNCHANGED input

Approve ==
  /\ result = Undecided
  /\ Len(visited) = Len(Gates)
  /\ result' = FinalAllow
  /\ visited' = Append(visited, result'.stopped_at)
  /\ UNCHANGED input

Next == RejectPreliminary \/ PassGate \/ StopAtGate \/ Approve

Spec == Init /\ [][Next]_vars

-----------------------------------------------------------------------------
(* What an approval requires, written without any order of evaluation.     *)

\* Evidence that gives no boundary a reason to object.
CleanEvidence(in, gate) ==
  LET e == in.evidence[gate]
  IN  /\ e.present /\ e.accepted_as_evidence /\ e.handoff_allowed
      /\ ~e.final_approval /\ ~e.hidden_authority /\ ~e.human_review
      /\ e.context = in.expected_context

\* What "Shield v4 required" means: a verified v4 receipt under the v4 policy
\* whose orchestrator and all five components carry both required signatures.
CleanV4(v4) ==
  /\ v4.verified /\ v4.receipt /\ v4.v4_schema /\ v4.summary /\ v4.v4_policy
  /\ \A a \in RequiredAlgorithms :
       /\ a \in v4.orchestrator
       /\ \A c \in v4.components : a \in c.verified_algorithms
  /\ \A id \in RequiredComponents : \E c \in v4.components : c.component_id = id
  /\ \A c \in v4.components : c.component_id \in RequiredComponents

CleanLocal(in, gate) ==
  LET g == in.local[gate]
  IN  g.gate = gate /\ g.passed /\ ~g.requires_human_review

CleanGate(in, gate) ==
  IF gate \in Range(EvidenceGates)
  THEN /\ CleanEvidence(in, gate)
       /\ gate = "shield" /\ in.shield_v4_required
            => CleanV4(in.evidence[gate].v4)
  ELSE CleanLocal(in, gate)

WellFormedCall(in) == in.well_formed_context /\ in.well_formed_mode

\* The engine approves exactly the inputs in which every one of the eight gates
\* is clean: no evidence result and no local gate can make up for another
\* (final_policy_engine.py:445-542).
ApprovalIsUnanimous ==
  result # Undecided =>
    ((result.state = ALLOW)
       <=> (WellFormedCall(input)
              /\ \A i \in 1..Len(Gates) : CleanGate(input, Gates[i])))

\* A denial names the earliest gate that is not clean, and evaluation_order is
\* exactly the gates up to it: a later gate can neither hide an earlier defect
\* nor be reported as visited (final_policy_engine.py:505-531).
DenialNamesEarliestDefect ==
  result # Undecided /\ result.state # ALLOW /\ WellFormedCall(input) =>
    LET n == Len(visited)
    IN  /\ visited = SubSeq(Gates, 1, n)
        /\ result.stopped_at = Gates[n]
        /\ ~CleanGate(input, Gates[n])
        /\ \A i \in 1..(n - 1) : CleanGate(input, Gates[i])

=============================================================================
