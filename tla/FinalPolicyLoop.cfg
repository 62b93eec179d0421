CONSTANTS
  Inputs <- MCInputs
  Undecided = Undecided
SPECIFICATION Spec
INVARIANTS
  ApprovalIsUnanimous
  DenialNamesEarliestDefect
\* the loop ends
CHECK_DEADLOCK FALSE
