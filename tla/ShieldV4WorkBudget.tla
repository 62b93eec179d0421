------------------------- MODULE ShieldV4WorkBudget -------------------------
(***************************************************************************)
(* integrations/shield_v4_work_budget.py: the copy of an untrusted receipt *)
(* that is taken node by node before anything else looks at it.            *)
(*                                                                         *)
(* An input is a graph json, since the objects a caller passes in may be   *)
(* shared or contain themselves: json.root is where it starts and          *)
(* json.node maps each object to                                           *)
(*   [kind |-> "scalar", size |-> bytes of its text]                       *)
(*   [kind |-> "container", items |-> Seq([key |-> bytes, at |-> object])] *)
(*   [kind |-> "foreign"]   a value of a type JSON does not have           *)
(* A list is a container whose keys have no bytes.                         *)
(***************************************************************************)
EXTENDS FailClosed

CONSTANTS
  MaxDepth,    \* MAX_CONTAINER_DEPTH
  MaxNodes,    \* MAX_CONTAINER_NODES
  MaxBytes,    \* MAX_SNAPSHOT_SCALAR_BYTES
  MaxText      \* MAX_TEXT_FIELD_BYTES

ASSUME BudgetAssumption ==
  /\ MaxDepth \in Nat \ {0} /\ MaxNodes \in Nat \ {0}
  /\ MaxBytes \in Nat /\ MaxText \in Nat

\* There are finitely many objects, and every item leads to one of them.
IsGraph(json) ==
  /\ IsFiniteSet(DOMAIN json.node) /\ json.root \in DOMAIN json.node
  /\ \A object \in DOMAIN json.node :
       LET n == json.node[object]
       IN  \/ n.kind = "scalar" /\ n.size \in Nat
           \/ n.kind = "container" /\ n.items \in Seq(Range(n.items))
              /\ \A i \in DOMAIN n.items :
                   n.items[i].key \in Nat /\ n.items[i].at \in DOMAIN json.node
           \/ n.kind = "foreign"

-----------------------------------------------------------------------------
(***************************************************************************)
(* The state of a copy: path is the stack of containers being copied, each *)
(* with the number of its items already taken; the objects on it are       *)
(* active_container_ids, which the code's finally clauses keep in step     *)
(* with the call stack.                                                    *)
(***************************************************************************)
NoCopy == [path |-> <<>>, nodes |-> 0, bytes |-> 0, verdict |-> "copying"]

Active(copy) == {copy.path[i].at : i \in DOMAIN copy.path}

OverBudget(copy) == [copy EXCEPT !.verdict = "over_budget"]

\* Mutant: one level more.
TooDeepLater(copy) == Len(copy.path) > MaxDepth

TooDeep(copy) == Len(copy.path) + 1 > MaxDepth

\* snapshot(value, depth): what the budget refuses about one object, which is
\* reached under a key of so many bytes.
Refused(copy, json, object, key) ==
  LET n     == json.node[object]
      bytes == copy.bytes + key + (IF n.kind = "scalar" THEN n.size ELSE 0)
  IN  \/ key > MaxText
      \/ TooDeep(copy)
      \/ copy.nodes + 1 > MaxNodes
      \/ n.kind = "foreign"
      \/ n.kind = "scalar" /\ n.size > MaxText
      \/ bytes > MaxBytes
      \/ n.kind = "container" /\ (object \in Active(copy) \/ Len(n.items) > MaxNodes)

\* Mutant: only scalars count as nodes.
TakeUncounted(copy, json, object, key) ==
  LET n == json.node[object]
  IN  IF Refused(copy, json, object, key) THEN OverBudget(copy)
      ELSE [path    |-> IF n.kind = "container"
                        THEN Append(copy.path, [at |-> object, taken |-> 0])
                        ELSE copy.path,
            nodes   |-> IF n.kind = "scalar" THEN copy.nodes + 1 ELSE copy.nodes,
            bytes   |-> copy.bytes + key + (IF n.kind = "scalar" THEN n.size ELSE 0),
            verdict |-> IF n.kind = "scalar" /\ copy.path = <<>> THEN "copied"
                        ELSE "copying"]

\* A scalar is copied at once, a container is entered.
Take(copy, json, object, key) ==
  LET n == json.node[object]
  IN  IF Refused(copy, json, object, key) THEN OverBudget(copy)
      ELSE [path    |-> IF n.kind = "container"
                        THEN Append(copy.path, [at |-> object, taken |-> 0])
                        ELSE copy.path,
            nodes   |-> copy.nodes + 1,
            bytes   |-> copy.bytes + key + (IF n.kind = "scalar" THEN n.size ELSE 0),
            verdict |-> IF n.kind = "scalar" /\ copy.path = <<>> THEN "copied"
                        ELSE "copying"]

\* One step of _snapshot_dict or _snapshot_list: the next item of the innermost
\* container, or its end.
CopyStep(copy, json) ==
  IF copy.path = <<>> THEN Take(copy, json, json.root, 0)
  ELSE LET top   == Last(copy.path)
           items == json.node[top.at].items
       IN  IF top.taken < Len(items)
           THEN Take([copy EXCEPT !.path[Len(copy.path)].taken = @ + 1], json,
                     items[top.taken + 1].at, items[top.taken + 1].key)
           ELSE [copy EXCEPT !.path = Front(@),
                             !.verdict = IF Len(copy.path) = 1 THEN "copied" ELSE @]

-----------------------------------------------------------------------------
(***************************************************************************)
(* What a copy is to decide.  An input unfolds into a tree, in which an    *)
(* object occurs once for every way to it: a place in the tree is the      *)
(* sequence of the items that lead to it from the root.                    *)
(***************************************************************************)
Items(json) ==
  UNION {{[at |-> object, item |-> i] : i \in DOMAIN json.node[object].items} :
           object \in {o \in DOMAIN json.node : json.node[o].kind = "container"}}

\* What is below an item.
Below(json, step) == json.node[step.at].items[step.item]

\* The places as deep as MaxDepth: one more level than there may be.
Places(json) ==
  {q \in UNION {[1..k -> Items(json)] : k \in 0..MaxDepth} :
     \A k \in DOMAIN q :
       q[k].at = IF k = 1 THEN json.root ELSE Below(json, q[k - 1]).at}

ObjectAt(json, q) == IF q = <<>> THEN json.root ELSE Below(json, Last(q)).at
KeyAt(json, q) == IF q = <<>> THEN 0 ELSE Below(json, Last(q)).key
TextAt(json, q) ==
  LET n == json.node[ObjectAt(json, q)] IN IF n.kind = "scalar" THEN n.size ELSE 0

\* What may be at a place.
Allowed(json, q) ==
  /\ Len(q) < MaxDepth
  /\ KeyAt(json, q) <= MaxText /\ TextAt(json, q) <= MaxText
  /\ json.node[ObjectAt(json, q)].kind # "foreign"

\* Each byte of a key or a scalar, at its place.
BytesAt(json, places) == UNION {{q} \X (1..(KeyAt(json, q) + TextAt(json, q))) : q \in places}

\* The tree has no more than MaxDepth levels, MaxNodes nodes and MaxBytes bytes of
\* keys and scalars, none of them longer than MaxText, and nothing else in it.
FitsBudget(json) ==
  LET places == Places(json)
  IN  /\ \A q \in places : Allowed(json, q)
      /\ Cardinality(places) <= MaxNodes
      /\ Cardinality(BytesAt(json, places)) <= MaxBytes

-----------------------------------------------------------------------------
\* bounded_identifier_set: a caller's iterable of texts that are not empty, at most
\* maximum of them.
IdentifiersRefused(identifiers, maximum) == Cardinality(identifiers) > maximum

=============================================================================
