------------------------- MODULE SingleUseExecution -------------------------
(***************************************************************************)
(* What authorisation promises, with every gate, message and store left    *)
(* out: a key is a licence that is handed to at most one caller, once and  *)
(* for all, may be lost on the way, and is exercised at most once, by the  *)
(* caller who holds it.                                                    *)
(***************************************************************************)
CONSTANTS Callers, Keys

VARIABLES
  burnt,      \* the keys that can no longer be granted
  holders,    \* pairs <<caller, key>>: licences granted
  exercised   \* pairs <<caller, key>>: licences used to execute

vars == <<burnt, holders, exercised>>

Init ==
  /\ burnt = {}
  /\ holders = {}
  /\ exercised = {}

Grant(caller, key) ==
  /\ key \notin burnt
  /\ burnt' = burnt \cup {key}
  /\ holders' = holders \cup {<<caller, key>>}
  /\ UNCHANGED exercised

\* A key is used up and nobody obtains it.
Lose(key) ==
  /\ key \notin burnt
  /\ burnt' = burnt \cup {key}
  /\ UNCHANGED <<holders, exercised>>

Exercise(caller, key) ==
  /\ <<caller, key>> \in holders \ exercised
  /\ exercised' = exercised \cup {<<caller, key>>}
  /\ UNCHANGED <<burnt, holders>>

Next ==
  \/ \E caller \in Callers, key \in Keys : Grant(caller, key) \/ Exercise(caller, key)
  \/ \E key \in Keys : Lose(key)

Spec == Init /\ [][Next]_vars

\* A key has one holder, and only holders of burnt keys exercise them.
OneHolder ==
  /\ \A l, m \in holders : l[2] = m[2] => l = m
  /\ exercised \subseteq holders
  /\ \A l \in holders : l[2] \in burnt

=============================================================================
