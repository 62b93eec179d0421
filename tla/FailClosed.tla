----------------------------- MODULE FailClosed -----------------------------
(***************************************************************************)
(* The idiom every boundary of AdamantineOS is written in: a chain of      *)
(* checks in a fixed order, each of which may stop the evaluation with a   *)
(* stable ReasonId.  A chain is a sequence of Reject(reason, condition)    *)
(* entries; its outcome is the reason of the first entry that rejects, or  *)
(* OK when none does.                                                      *)
(***************************************************************************)
EXTENDS Integers, SequencesExt

OK == "OK"

\* A text that is empty once stripped.
Blank == ""

\* One check of a chain: the reason it stops with, and when.
Reject(reason, condition) == IF condition THEN reason ELSE OK

\* Position of the first check that rejects, 0 when every check passes.
FirstRejectedAt(checks) == SelectInSeq(checks, LAMBDA outcome : outcome # OK)

\* The comprehension binds the chain to s once, however often s is used.
FirstRejection(checks) ==
  CHOOSE outcome \in {IF FirstRejectedAt(s) = 0 THEN OK ELSE s[FirstRejectedAt(s)] :
                       s \in {checks}} : TRUE

=============================================================================
