------------------------ MODULE RecordedPublication ------------------------
(***************************************************************************)
(* What an audited verifier promises: evidence may be recorded any number  *)
(* of times and is published to a caller only once it is recorded, where   *)
(* it stays.  A caller may lose what was published to it.                  *)
(***************************************************************************)
CONSTANTS Callers, Evidence

VARIABLES
  recorded,    \* the evidence that is on record for good
  published    \* pairs <<caller, evidence>>

vars == <<recorded, published>>

Init ==
  /\ recorded = {}
  /\ published = {}

Record(evidence) ==
  /\ recorded' = recorded \cup {evidence}
  /\ UNCHANGED published

Publish(caller, evidence) ==
  /\ evidence \in recorded
  /\ published' = published \cup {<<caller, evidence>>}
  /\ UNCHANGED recorded

\* Some callers are gone, with what they were told.
Forget(callers) ==
  /\ published' = {p \in published : p[1] \notin callers}
  /\ UNCHANGED recorded

Next ==
  \/ \E evidence \in Evidence :
       Record(evidence) \/ \E caller \in Callers : Publish(caller, evidence)
  \/ \E callers \in SUBSET Callers : Forget(callers)

Spec == Init /\ [][Next]_vars

=============================================================================
