---------------------- MODULE ShieldV4WorkBudget_proofs ----------------------
(***************************************************************************)
(* For every graph of objects: the copy that is taken node by node comes   *)
(* to the verdict that the tree it unfolds into deserves.                  *)
(***************************************************************************)
EXTENDS ShieldV4WorkBudget, FailClosed_proofs, FiniteSetTheorems

(***************************************************************************)
(* The tree an input unfolds into.                                         *)
(***************************************************************************)

\* What is known of an item.
LEMMA ItemOf ==
  ASSUME NEW json, IsGraph(json), NEW s \in Items(json)
  PROVE  /\ s.at \in DOMAIN json.node /\ json.node[s.at].kind = "container"
         /\ s.item \in 1..Len(json.node[s.at].items)
         /\ s = [at |-> s.at, item |-> s.item]
         /\ Below(json, s).at \in DOMAIN json.node /\ Below(json, s).key \in Nat
<1>0. PICK object \in {o \in DOMAIN json.node : json.node[o].kind = "container"} :
        s \in {[at |-> object, item |-> i] : i \in DOMAIN json.node[object].items}
  BY DEF Items
<1>1. PICK i \in DOMAIN json.node[object].items : s = [at |-> object, item |-> i]
  BY <1>0
<1>2. /\ json.node[object].items \in Seq(Range(json.node[object].items))
      /\ json.node[object].items[i].key \in Nat
      /\ json.node[object].items[i].at \in DOMAIN json.node
  BY <1>0, <1>1 DEF IsGraph
<1>3. DOMAIN json.node[object].items = 1..Len(json.node[object].items)
  BY <1>2
<1> QED BY <1>0, <1>1, <1>2, <1>3 DEF Below

\* The items of a container are items.
LEMMA IsItem ==
  ASSUME NEW json, IsGraph(json), NEW object \in DOMAIN json.node,
         json.node[object].kind = "container"
  PROVE  /\ Len(json.node[object].items) \in Nat
         /\ \A i \in 1..Len(json.node[object].items) :
              [at |-> object, item |-> i] \in Items(json)
<1> DEFINE items == json.node[object].items
<1>1. items \in Seq(Range(items))
  BY DEF IsGraph
<1>2. Len(items) \in Nat /\ DOMAIN items = 1..Len(items)
  BY <1>1
<1>3. ASSUME NEW i \in 1..Len(items) PROVE [at |-> object, item |-> i] \in Items(json)
  <2> DEFINE of(o) == {[at |-> o, item |-> j] : j \in DOMAIN json.node[o].items}
  <2>1. [at |-> object, item |-> i] \in of(object)
    BY <1>2
  <2>2. of(object) \in {of(o) : o \in {o \in DOMAIN json.node : json.node[o].kind = "container"}}
    OBVIOUS
  <2> QED BY <2>1, <2>2 DEF Items
<1> QED BY <1>2, <1>3

\* There are finitely many items.
LEMMA ItemsFinite ==
  ASSUME NEW json, IsGraph(json)
  PROVE  IsFiniteSet(Items(json))
<1> DEFINE containers == {o \in DOMAIN json.node : json.node[o].kind = "container"}
           of(object) == {[at |-> object, item |-> i] : i \in DOMAIN json.node[object].items}
           all == {of(object) : object \in containers}
<1>1. ASSUME NEW object \in containers PROVE IsFiniteSet(of(object))
  <2> DEFINE n == Len(json.node[object].items)
             f == [i \in 1..n |-> [at |-> object, item |-> i]]
  <2>1. n \in Nat /\ DOMAIN json.node[object].items = 1..n
    <3>1. json.node[object].items \in Seq(Range(json.node[object].items))
      BY DEF IsGraph
    <3> QED BY <3>1
  <2>2. IsFiniteSet(1..n)
    <3>1. 1 \in Int /\ n \in Int
      BY <2>1
    <3> HIDE DEF n
    <3> QED BY <3>1, FS_Interval
  <2>3. f \in Surjection(1..n, of(object))
    BY <2>1 DEF Surjection
  <2> QED BY <2>2, <2>3, FS_Surjection
<1>2. IsFiniteSet(containers)
  <2>1. IsFiniteSet(DOMAIN json.node) /\ containers \subseteq DOMAIN json.node
    BY DEF IsGraph
  <2> QED BY <2>1, FS_Subset
<1>3. IsFiniteSet(all)
  <2> DEFINE f == [object \in containers |-> of(object)]
  <2>1. f \in Surjection(containers, all)
    <3> HIDE DEF containers, of
    <3> QED BY DEF Surjection
  <2> QED BY <1>2, <2>1, FS_Surjection
<1>4. \A S \in all : IsFiniteSet(S)
  BY <1>1
<1>5. Items(json) = UNION all
  BY DEF Items
<1> HIDE DEF all
<1> QED BY <1>3, <1>4, <1>5, FS_UNION

\* A place is a sequence of items, each below the one before.
LEMMA PlaceOf ==
  ASSUME NEW json, NEW q
  PROVE  q \in Places(json) <=>
           \E n \in 0..MaxDepth :
             /\ q \in [1..n -> Items(json)]
             /\ \A k \in 1..n :
                  q[k].at = IF k = 1 THEN json.root ELSE Below(json, q[k - 1]).at
<1>1. ASSUME q \in Places(json)
      PROVE  \E n \in 0..MaxDepth :
             /\ q \in [1..n -> Items(json)]
             /\ \A k \in 1..n :
                  q[k].at = IF k = 1 THEN json.root ELSE Below(json, q[k - 1]).at
  <2>1. PICK n \in 0..MaxDepth : q \in [1..n -> Items(json)]
    BY <1>1 DEF Places
  <2>2. DOMAIN q = 1..n
    BY <2>1
  <2> QED BY <1>1, <2>1, <2>2 DEF Places
<1>2. ASSUME NEW n \in 0..MaxDepth, q \in [1..n -> Items(json)],
             \A k \in 1..n :
               q[k].at = IF k = 1 THEN json.root ELSE Below(json, q[k - 1]).at
      PROVE  q \in Places(json)
  <2>1. DOMAIN q = 1..n
    BY <1>2
  <2> QED BY <1>2, <2>1 DEF Places
<1> QED BY <1>1, <1>2

\* What is known of a place.
LEMMA PlaceHas ==
  ASSUME NEW json, IsGraph(json), NEW q \in Places(json)
  PROVE  /\ Len(q) \in 0..MaxDepth
         /\ q \in [1..Len(q) -> Items(json)] /\ DOMAIN q = 1..Len(q)
         /\ q = <<>> <=> Len(q) = 0
         /\ q \in Seq(Items(json))
         /\ \A k \in 1..Len(q) :
              q[k].at = IF k = 1 THEN json.root ELSE Below(json, q[k - 1]).at
         /\ ObjectAt(json, q) \in DOMAIN json.node
         /\ KeyAt(json, q) \in Nat /\ TextAt(json, q) \in Nat
<1>1. PICK n \in 0..MaxDepth :
        /\ q \in [1..n -> Items(json)]
        /\ \A k \in 1..n : q[k].at = IF k = 1 THEN json.root ELSE Below(json, q[k - 1]).at
  BY PlaceOf
<1>2. n \in Nat
  BY BudgetAssumption
<1>3. Len(q) = n /\ DOMAIN q = 1..n /\ q \in Seq(Items(json)) /\ (q = <<>> <=> n = 0)
  BY <1>1, <1>2
<1>4. ObjectAt(json, q) \in DOMAIN json.node /\ KeyAt(json, q) \in Nat
  <2>1. CASE q = <<>>
    BY <2>1 DEF ObjectAt, KeyAt, IsGraph
  <2>2. CASE q # <<>>
    <3>1. Last(q) = q[n] /\ q[n] \in Items(json)
      BY <1>1, <1>2, <1>3, <2>2 DEF Last
    <3> QED BY <2>2, <3>1, ItemOf DEF ObjectAt, KeyAt
  <2> QED BY <2>1, <2>2
<1>5. TextAt(json, q) \in Nat
  BY <1>4 DEF TextAt, IsGraph
<1> QED BY <1>1, <1>3, <1>4, <1>5

\* The root has a place.
LEMMA RootPlace ==
  ASSUME NEW json
  PROVE  <<>> \in Places(json) /\ ObjectAt(json, <<>>) = json.root /\ KeyAt(json, <<>>) = 0
<1>1. 0 \in 0..MaxDepth
  BY BudgetAssumption
<1>2. <<>> \in [1..0 -> Items(json)] /\ \A k \in 1..0 : FALSE
  OBVIOUS
<1> QED BY <1>1, <1>2, PlaceOf DEF ObjectAt, KeyAt

\* So has whatever is an item of what has one, down to MaxDepth.
LEMMA PlaceBelow ==
  ASSUME NEW json, IsGraph(json), NEW q \in Places(json), Len(q) < MaxDepth,
         NEW s \in Items(json), s.at = ObjectAt(json, q)
  PROVE  /\ Append(q, s) \in Places(json)
         /\ Len(Append(q, s)) = Len(q) + 1
         /\ ObjectAt(json, Append(q, s)) = Below(json, s).at
         /\ KeyAt(json, Append(q, s)) = Below(json, s).key
<1> DEFINE n == Len(q)
           r == Append(q, s)
<1>1. /\ n \in 0..MaxDepth /\ q \in [1..n -> Items(json)] /\ q \in Seq(Items(json))
      /\ q = <<>> <=> n = 0
      /\ \A k \in 1..n : q[k].at = IF k = 1 THEN json.root ELSE Below(json, q[k - 1]).at
  BY PlaceHas
<1>2. n \in Nat /\ MaxDepth \in Nat /\ n + 1 \in 0..MaxDepth
  BY <1>1, BudgetAssumption
<1>3. /\ r \in [1..(n + 1) -> Items(json)] /\ Len(r) = n + 1 /\ r # <<>>
      /\ r[n + 1] = s /\ \A k \in 1..n : r[k] = q[k]
  <2>1. Len(q) = n /\ n \in Nat
    BY <1>2
  <2> HIDE DEF n
  <2>2. /\ r \in Seq(Items(json)) /\ Len(r) = n + 1
        /\ r[n + 1] = s /\ \A k \in 1..n : r[k] = q[k]
    BY <1>1, <2>1
  <2> HIDE DEF r
  <2>3. r # <<>> /\ r \in [1..(n + 1) -> Items(json)]
    <3>1. n + 1 # 0 /\ Len(<<>>) = 0
      BY <2>1
    <3>2. DOMAIN r = 1..(n + 1)
      BY <2>1, <2>2
    <3> QED BY <2>2, <3>1, <3>2
  <2> QED BY <2>1, <2>2, <2>3
<1>4. s.at = IF n + 1 = 1 THEN json.root ELSE Below(json, q[n]).at
  <2>1. CASE n = 0
    BY <1>1, <2>1 DEF ObjectAt
  <2>2. CASE n # 0
    BY <1>1, <1>2, <2>2 DEF ObjectAt, Last
  <2> QED BY <2>1, <2>2
<1> HIDE DEF n, r
<1>5. \A k \in 1..(n + 1) : r[k].at = IF k = 1 THEN json.root ELSE Below(json, r[k - 1]).at
  <2> TAKE k \in 1..(n + 1)
  <2>1. CASE k = n + 1
    <3>1. k # 1 => n \in 1..n /\ k - 1 = n
      BY <1>2, <2>1
    <3> QED BY <1>2, <1>3, <1>4, <2>1, <3>1
  <2>2. CASE k # n + 1
    <3>1. k \in 1..n /\ (k # 1 => k - 1 \in 1..n)
      BY <1>2, <2>2
    <3> QED BY <1>1, <1>3, <3>1
  <2> QED BY <2>1, <2>2
<1>6. r \in Places(json)
  BY <1>2, <1>3, <1>5, PlaceOf
<1>7. Last(r) = s
  BY <1>3 DEF Last
<1> QED BY <1>3, <1>6, <1>7 DEF ObjectAt, KeyAt, r, n

(***************************************************************************)
(* Counting its places and its bytes.                                      *)
(***************************************************************************)

\* There are finitely many places.
LEMMA PlacesFinite ==
  ASSUME NEW json, IsGraph(json)
  PROVE  IsFiniteSet(Places(json))
<1> DEFINE pairs == (1..MaxDepth) \X Items(json)
           graph(q) == {<<i, q[i]>> : i \in DOMAIN q}
           f == [q \in Places(json) |-> graph(q)]
<1>1. IsFiniteSet(SUBSET pairs)
  <2>1. 1 \in Int /\ MaxDepth \in Int
    BY BudgetAssumption
  <2>2. IsFiniteSet(1..MaxDepth)
    BY <2>1, FS_Interval
  <2>3. IsFiniteSet(pairs)
    BY <2>2, ItemsFinite, FS_Product
  <2> QED BY <2>3, FS_SUBSET
<1>2. ASSUME NEW q \in Places(json) PROVE graph(q) \in SUBSET pairs
  <2>1. Len(q) \in 0..MaxDepth /\ q \in [1..Len(q) -> Items(json)] /\ DOMAIN q = 1..Len(q)
    BY PlaceHas
  <2>2. MaxDepth \in Nat
    BY BudgetAssumption
  <2>3. ASSUME NEW i \in DOMAIN q PROVE <<i, q[i]>> \in pairs
    BY <2>1, <2>2
  <2> QED BY <2>3
<1>3. ASSUME NEW q \in Places(json), NEW r \in Places(json), graph(q) = graph(r)
      PROVE  q = r
  <2>1. /\ Len(q) \in Nat /\ q \in [1..Len(q) -> Items(json)] /\ DOMAIN q = 1..Len(q)
        /\ Len(r) \in Nat /\ r \in [1..Len(r) -> Items(json)] /\ DOMAIN r = 1..Len(r)
    BY PlaceHas, BudgetAssumption
  <2>2. ASSUME NEW i \in DOMAIN q PROVE i \in DOMAIN r /\ q[i] = r[i]
    <3>1. <<i, q[i]>> \in graph(r)
      BY <1>3
    <3>2. PICK j \in DOMAIN r : <<i, q[i]>> = <<j, r[j]>>
      BY <3>1
    <3> QED BY <3>2
  <2>3. ASSUME NEW i \in DOMAIN r PROVE i \in DOMAIN q
    <3>1. <<i, r[i]>> \in graph(q)
      BY <1>3
    <3>2. PICK j \in DOMAIN q : <<i, r[i]>> = <<j, q[j]>>
      BY <3>1
    <3> QED BY <3>2
  <2>4. DOMAIN q = DOMAIN r
    BY <2>2, <2>3
  <2> HIDE DEF graph
  <2> QED BY <2>1, <2>2, <2>4
<1>4. f \in Injection(Places(json), SUBSET pairs)
  <2> HIDE DEF graph, pairs
  <2> QED BY <1>2, <1>3 DEF Injection, IsInjective
<1> HIDE DEF f, pairs
<1> QED BY <1>1, <1>4, FS_Injection

\* What is written at a place: the bytes of its key and of its text.
BytesHere(json, q) == {q} \X (1..(KeyAt(json, q) + TextAt(json, q)))

\* It has the size it says.
LEMMA BytesHereCounted ==
  ASSUME NEW json, IsGraph(json), NEW q \in Places(json)
  PROVE  /\ IsFiniteSet(BytesHere(json, q))
         /\ Cardinality(BytesHere(json, q)) = KeyAt(json, q) + TextAt(json, q)
<1> DEFINE n == KeyAt(json, q) + TextAt(json, q)
<1>1. n \in Nat /\ 1 \in Int /\ n \in Int
  BY PlaceHas
<1> HIDE DEF n
<1>2. IsFiniteSet(1..n) /\ Cardinality(1..n) = IF 1 > n THEN 0 ELSE n - 1 + 1
  BY <1>1, FS_Interval, Zenon
<1>3. Cardinality(1..n) = n
  BY <1>1, <1>2
<1>4. IsFiniteSet({q}) /\ Cardinality({q}) = 1
  BY FS_Singleton
<1>5. IsFiniteSet({q} \X (1..n)) /\ Cardinality({q} \X (1..n)) = Cardinality({q}) * Cardinality(1..n)
  BY <1>2, <1>4, FS_Product
<1>6. Cardinality({q} \X (1..n)) = n
  BY <1>1, <1>3, <1>4, <1>5
<1> QED BY <1>5, <1>6 DEF BytesHere, n

\* So there are finitely many.
LEMMA BytesFinite ==
  ASSUME NEW json, IsGraph(json), NEW V \in SUBSET Places(json)
  PROVE  /\ IsFiniteSet(V) /\ Cardinality(V) \in Nat
         /\ IsFiniteSet(BytesAt(json, V)) /\ Cardinality(BytesAt(json, V)) \in Nat
<1> DEFINE all == {BytesHere(json, q) : q \in V}
           f == [q \in V |-> BytesHere(json, q)]
<1>1. IsFiniteSet(V)
  BY PlacesFinite, FS_Subset
<1>2. f \in Surjection(V, all)
  BY DEF Surjection
<1>3. IsFiniteSet(all)
  <2> HIDE DEF f, all
  <2> QED BY <1>1, <1>2, FS_Surjection
<1>4. \A S \in all : IsFiniteSet(S)
  BY BytesHereCounted
<1>5. BytesAt(json, V) = UNION all
  BY DEF BytesAt, BytesHere
<1>6. IsFiniteSet(BytesAt(json, V))
  <2> HIDE DEF all
  <2> QED BY <1>3, <1>4, <1>5, FS_UNION
<1> QED BY <1>1, <1>6, FS_CardinalityType

\* One place more adds itself and its bytes.
LEMMA OnePlaceMore ==
  ASSUME NEW json, IsGraph(json), NEW V \in SUBSET Places(json),
         NEW q \in Places(json), q \notin V
  PROVE  /\ Cardinality(V \cup {q}) = Cardinality(V) + 1
         /\ Cardinality(BytesAt(json, V \cup {q}))
              = Cardinality(BytesAt(json, V)) + KeyAt(json, q) + TextAt(json, q)
<1>1. Cardinality(V \cup {q}) = Cardinality(V) + 1
  BY BytesFinite, FS_AddElement
<1> DEFINE A == BytesAt(json, V)
           B == BytesHere(json, q)
<1>2. BytesAt(json, V \cup {q}) = A \cup B
  BY DEF BytesAt, BytesHere
<1>3. A \cap B = {}
  <2> SUFFICES ASSUME NEW x \in A, x \in B PROVE FALSE
    OBVIOUS
  <2>1. PICK r \in V : x \in {r} \X (1..(KeyAt(json, r) + TextAt(json, r)))
    BY DEF BytesAt
  <2>2. x[1] = r /\ x[1] = q
    BY <2>1 DEF BytesHere
  <2> QED BY <2>2
<1>4. /\ IsFiniteSet(A) /\ Cardinality(A) \in Nat
      /\ IsFiniteSet(B) /\ Cardinality(B) = KeyAt(json, q) + TextAt(json, q)
  BY BytesFinite, BytesHereCounted
<1>5. KeyAt(json, q) \in Nat /\ TextAt(json, q) \in Nat
  BY PlaceHas
<1> HIDE DEF A, B
<1>6. Cardinality(A \cup B) = Cardinality(A) + Cardinality(B) - Cardinality(A \cap B)
  BY <1>4, FS_Union
<1>7. Cardinality(A \cap B) = 0
  BY <1>3, FS_EmptySet
<1>8. Cardinality(A \cup B) = Cardinality(A) + KeyAt(json, q) + TextAt(json, q)
  BY <1>4, <1>5, <1>6, <1>7
<1> QED BY <1>1, <1>2, <1>8 DEF A

\* Fewer places have fewer bytes.
LEMMA FewerPlaces ==
  ASSUME NEW json, IsGraph(json), NEW W \in SUBSET Places(json), NEW V \in SUBSET W
  PROVE  /\ Cardinality(V) <= Cardinality(W)
         /\ Cardinality(BytesAt(json, V)) <= Cardinality(BytesAt(json, W))
<1>1. BytesAt(json, V) \subseteq BytesAt(json, W)
  BY DEF BytesAt
<1> QED BY <1>1, BytesFinite, FS_Subset

(***************************************************************************)
(* What a refusal says of the whole tree.                                  *)
(***************************************************************************)

\* One place that may not be there is enough.
LEMMA NotAllowed ==
  ASSUME NEW json, NEW q \in Places(json), ~Allowed(json, q)
  PROVE  ~FitsBudget(json)
  BY DEF FitsBudget

\* Objects that lead from the root back among themselves have no lowest level.
LEMMA Unbounded ==
  ASSUME NEW json, IsGraph(json), NEW C \in SUBSET DOMAIN json.node, json.root \in C,
         \A object \in C : \E s \in Items(json) : s.at = object /\ Below(json, s).at \in C
  PROVE  ~FitsBudget(json)
<1> DEFINE reached == {n \in 0..MaxDepth : \E q \in Places(json) : Len(q) = n /\ ObjectAt(json, q) \in C}
           missed == (0..MaxDepth) \ reached
<1>0. MaxDepth \in Nat
  BY BudgetAssumption
<1>1. 0 \in reached
  <2>1. Len(<<>>) = 0
    OBVIOUS
  <2> QED BY <1>0, <2>1, RootPlace
<1>2. missed = {}
  <2> SUFFICES ASSUME missed # {} PROVE FALSE
    OBVIOUS
  <2>1. missed \in SUBSET Nat
    OBVIOUS
  <2> DEFINE n == Min(missed)
  <2>2. n \in missed /\ \A m \in missed : n <= m
    <3> HIDE DEF missed
    <3> QED BY <2>1, MinNat
  <2>3. n \in 1..MaxDepth /\ n - 1 \in 0..MaxDepth
    <3>1. n \in 0..MaxDepth /\ n # 0
      BY <1>1, <2>2
    <3> HIDE DEF n
    <3> QED BY <1>0, <3>1
  <2>4. n - 1 \in reached
    <3>1. n - 1 \notin missed
      <4> HIDE DEF missed, n
      <4> QED BY <2>1, <2>2, <2>3
    <3> QED BY <2>3, <3>1
  <2> HIDE DEF n
  <2>5. PICK q \in Places(json) : Len(q) = n - 1 /\ ObjectAt(json, q) \in C
    BY <2>4
  <2>6. PICK s \in Items(json) : s.at = ObjectAt(json, q) /\ Below(json, s).at \in C
    BY <2>5
  <2>7. Len(q) < MaxDepth
    BY <1>0, <2>3, <2>5
  <2>8. /\ Append(q, s) \in Places(json) /\ Len(Append(q, s)) = Len(q) + 1
        /\ ObjectAt(json, Append(q, s)) = Below(json, s).at
    BY <2>6, <2>7, PlaceBelow
  <2>9. Len(q) + 1 = n
    BY <2>3, <2>5
  <2>10. n \in reached
    <3> DEFINE r == Append(q, s)
    <3>1. r \in Places(json) /\ Len(r) = n /\ ObjectAt(json, r) \in C
      BY <2>6, <2>8, <2>9
    <3>2. n \in 0..MaxDepth
      BY <1>0, <2>3
    <3> HIDE DEF r
    <3> QED BY <3>1, <3>2
  <2> QED BY <2>2, <2>10
<1>3. MaxDepth \in reached
  <2>1. MaxDepth \in 0..MaxDepth
    BY <1>0
  <2> QED BY <1>2, <2>1
<1>4. PICK q \in Places(json) : Len(q) = MaxDepth
  BY <1>3
<1>5. ~Allowed(json, q)
  BY <1>0, <1>4 DEF Allowed
<1> QED BY <1>5, NotAllowed

\* A container has a place for each of its items.
LEMMA ManyItems ==
  ASSUME NEW json, IsGraph(json), NEW q \in Places(json), Len(q) < MaxDepth,
         json.node[ObjectAt(json, q)].kind = "container",
         Len(json.node[ObjectAt(json, q)].items) > MaxNodes
  PROVE  ~FitsBudget(json)
<1> DEFINE object == ObjectAt(json, q)
           n == Len(json.node[object].items)
           item(i) == [at |-> object, item |-> i]
           f == [i \in 1..n |-> Append(q, item(i))]
<1>1. object \in DOMAIN json.node
  BY PlaceHas
<1>2. n \in Nat /\ \A i \in 1..n : item(i) \in Items(json)
  BY <1>1, IsItem
<1>3. ASSUME NEW i \in 1..n
      PROVE  Append(q, item(i)) \in Places(json)
  <2>1. item(i) \in Items(json) /\ item(i).at = ObjectAt(json, q)
    BY <1>2
  <2> HIDE DEF item
  <2> QED BY <2>1, PlaceBelow
<1>4. ASSUME NEW i \in 1..n, NEW j \in 1..n, Append(q, item(i)) = Append(q, item(j))
      PROVE  i = j
  <2>1. q \in Seq(Items(json)) /\ Len(q) \in Nat
    BY PlaceHas, BudgetAssumption
  <2>2. item(i) \in Items(json) /\ item(j) \in Items(json)
    BY <1>2
  <2> HIDE DEF item
  <2>3. Append(q, item(i))[Len(q) + 1] = item(i) /\ Append(q, item(j))[Len(q) + 1] = item(j)
    BY <2>1, <2>2
  <2>4. item(i) = item(j)
    BY <1>4, <2>3
  <2> QED BY <2>4 DEF item
<1> HIDE DEF item, n
<1>5. f \in Injection(1..n, Places(json))
  BY <1>3, <1>4 DEF Injection, IsInjective
<1>6. IsFiniteSet(Places(json)) /\ Cardinality(Places(json)) \in Nat
  BY PlacesFinite, FS_CardinalityType
<1>7. Cardinality(1..n) <= Cardinality(Places(json))
  <2> HIDE DEF f
  <2> QED BY <1>5, <1>6, FS_Injection
<1>8. Cardinality(1..n) = n
  <2>1. 1 \in Int /\ n \in Int
    BY <1>2
  <2>2. Cardinality(1..n) = IF 1 > n THEN 0 ELSE n - 1 + 1
    BY <2>1, FS_Interval, Zenon
  <2> QED BY <1>2, <2>2
<1>9. n > MaxNodes /\ MaxNodes \in Nat
  BY BudgetAssumption DEF n
<1>10. ~(Cardinality(Places(json)) <= MaxNodes)
  BY <1>2, <1>6, <1>7, <1>8, <1>9
<1> QED BY <1>10 DEF FitsBudget

\* V is what has been counted so far, and has no place in it that may not be there.
Counted(json, copy, V) ==
  /\ Cardinality(V) = copy.nodes /\ Cardinality(BytesAt(json, V)) = copy.bytes
  /\ copy.nodes <= MaxNodes /\ copy.bytes <= MaxBytes
  /\ \A q \in V : Allowed(json, q)

\* Everything counted is a tree that fits.
LEMMA AllCounted ==
  ASSUME NEW json, NEW copy, Counted(json, copy, Places(json))
  PROVE  FitsBudget(json)
  BY DEF Counted, FitsBudget

\* The size of what is at a place.
LEMMA TextHere ==
  ASSUME NEW json, NEW q
  PROVE  TextAt(json, q) = IF json.node[ObjectAt(json, q)].kind = "scalar"
                           THEN json.node[ObjectAt(json, q)].size ELSE 0
  BY DEF TextAt

\* What is refused at a place keeps the whole from fitting.
LEMMA RefusedRightly ==
  ASSUME NEW json, IsGraph(json), NEW copy, NEW V \in SUBSET Places(json),
         Counted(json, copy, V),
         NEW q \in Places(json), q \notin V, Len(copy.path) = Len(q),
         json.node[ObjectAt(json, q)].kind = "container" /\ ObjectAt(json, q) \in Active(copy) =>
           ~FitsBudget(json),
         Refused(copy, json, ObjectAt(json, q), KeyAt(json, q))
  PROVE  ~FitsBudget(json)
<1> DEFINE object == ObjectAt(json, q)
           n == json.node[object]
           W == V \cup {q}
<1>1. Len(q) \in Nat /\ KeyAt(json, q) \in Nat /\ TextAt(json, q) \in Nat
  BY PlaceHas, BudgetAssumption
<1>2. MaxDepth \in Nat /\ MaxNodes \in Nat /\ MaxBytes \in Nat /\ MaxText \in Nat
  BY BudgetAssumption
<1>3. W \in SUBSET Places(json)
  OBVIOUS
<1>4. /\ IsFiniteSet(W) /\ Cardinality(W) \in Nat /\ Cardinality(BytesAt(json, W)) \in Nat
      /\ Cardinality(Places(json)) \in Nat /\ Cardinality(BytesAt(json, Places(json))) \in Nat
      /\ copy.nodes \in Nat /\ copy.bytes \in Nat
  <2> HIDE DEF W
  <2> QED BY <1>3, BytesFinite DEF Counted
<1>5. /\ Cardinality(W) = copy.nodes + 1
      /\ Cardinality(BytesAt(json, W)) = copy.bytes + KeyAt(json, q) + TextAt(json, q)
  BY OnePlaceMore DEF Counted
<1>6. /\ Cardinality(W) <= Cardinality(Places(json))
      /\ Cardinality(BytesAt(json, W)) <= Cardinality(BytesAt(json, Places(json)))
  <2> HIDE DEF W
  <2> QED BY <1>3, FewerPlaces
<1> HIDE DEF W
<1>7. CASE KeyAt(json, q) > MaxText
  <2>1. ~Allowed(json, q)
    BY <1>1, <1>2, <1>7 DEF Allowed
  <2> QED BY <2>1, NotAllowed
<1>8. CASE TooDeep(copy)
  <2>1. ~(Len(q) < MaxDepth)
    BY <1>1, <1>2, <1>8 DEF TooDeep
  <2>2. ~Allowed(json, q)
    BY <2>1 DEF Allowed
  <2> QED BY <2>2, NotAllowed
<1>9. CASE copy.nodes + 1 > MaxNodes
  <2>1. ~(Cardinality(Places(json)) <= MaxNodes)
    BY <1>2, <1>4, <1>5, <1>6, <1>9
  <2> QED BY <2>1 DEF FitsBudget
<1>10. CASE n.kind = "foreign"
  <2>1. ~Allowed(json, q)
    BY <1>10 DEF Allowed
  <2> QED BY <2>1, NotAllowed
<1>11. CASE n.kind = "scalar" /\ n.size > MaxText
  <2>1. TextAt(json, q) > MaxText
    BY <1>11, TextHere
  <2>2. ~Allowed(json, q)
    BY <1>1, <1>2, <2>1 DEF Allowed
  <2> QED BY <2>2, NotAllowed
<1>12. CASE copy.bytes + KeyAt(json, q) + (IF n.kind = "scalar" THEN n.size ELSE 0) > MaxBytes
  <2>1. copy.bytes + KeyAt(json, q) + TextAt(json, q) > MaxBytes
    BY <1>12, TextHere
  <2>2. ~(Cardinality(BytesAt(json, Places(json))) <= MaxBytes)
    BY <1>1, <1>2, <1>4, <1>5, <1>6, <2>1
  <2> QED BY <2>2 DEF FitsBudget
<1>13. CASE n.kind = "container" /\ object \in Active(copy)
  BY <1>13
<1>14. CASE n.kind = "container" /\ Len(n.items) > MaxNodes /\ ~TooDeep(copy)
  <2>1. Len(q) < MaxDepth
    BY <1>1, <1>2, <1>14 DEF TooDeep
  <2> QED BY <1>14, <2>1, ManyItems
<1> QED BY <1>7, <1>8, <1>9, <1>10, <1>11, <1>12, <1>13, <1>14 DEF Refused

\* What is not refused is counted with the rest.
LEMMA TakenRightly ==
  ASSUME NEW json, IsGraph(json), NEW copy, NEW V \in SUBSET Places(json),
         Counted(json, copy, V),
         NEW q \in Places(json), q \notin V, Len(copy.path) = Len(q),
         ~Refused(copy, json, ObjectAt(json, q), KeyAt(json, q)),
         NEW next,
         next.nodes = copy.nodes + 1,
         next.bytes = copy.bytes + KeyAt(json, q) + TextAt(json, q)
  PROVE  /\ Counted(json, next, V \cup {q}) /\ Len(q) < MaxDepth
         /\ json.node[ObjectAt(json, q)].kind \in {"scalar", "container"}
<1> DEFINE object == ObjectAt(json, q)
           n == json.node[object]
<1>1. /\ Len(q) \in Nat /\ KeyAt(json, q) \in Nat /\ TextAt(json, q) \in Nat
      /\ object \in DOMAIN json.node
  BY PlaceHas, BudgetAssumption
<1>2. MaxDepth \in Nat /\ MaxNodes \in Nat /\ MaxBytes \in Nat /\ MaxText \in Nat
  BY BudgetAssumption
<1>3. copy.nodes \in Nat /\ copy.bytes \in Nat
  BY BytesFinite DEF Counted
<1>4. /\ ~(KeyAt(json, q) > MaxText) /\ ~(Len(q) + 1 > MaxDepth)
      /\ ~(copy.nodes + 1 > MaxNodes) /\ n.kind # "foreign"
      /\ ~(n.kind = "scalar" /\ n.size > MaxText)
      /\ ~(copy.bytes + KeyAt(json, q) + TextAt(json, q) > MaxBytes)
  BY TextHere DEF Refused, TooDeep
<1>5. Len(q) < MaxDepth /\ KeyAt(json, q) <= MaxText
      /\ next.nodes <= MaxNodes /\ next.bytes <= MaxBytes
  BY <1>1, <1>2, <1>3, <1>4
<1>6. n.kind \in {"scalar", "container"}
  BY <1>1, <1>4 DEF IsGraph
<1>7. TextAt(json, q) <= MaxText
  <2>1. CASE n.kind = "scalar"
    <3>1. TextAt(json, q) = n.size
      BY <2>1, TextHere
    <3> QED BY <1>1, <1>2, <1>4, <2>1, <3>1
  <2>2. CASE n.kind # "scalar"
    <3>1. TextAt(json, q) = 0
      BY <2>2, TextHere
    <3> QED BY <1>2, <3>1
  <2> QED BY <2>1, <2>2
<1>8. Allowed(json, q)
  BY <1>4, <1>5, <1>7 DEF Allowed
<1>9. /\ Cardinality(V \cup {q}) = next.nodes
      /\ Cardinality(BytesAt(json, V \cup {q})) = next.bytes
  BY OnePlaceMore DEF Counted
<1> QED BY <1>5, <1>6, <1>8, <1>9 DEF Counted

(***************************************************************************)
(* What a stack of containers says has been copied.                        *)
(***************************************************************************)

\* The item a container on the stack has come to, and the way they are.
ItemTaken(entry) == [at |-> entry.at, item |-> entry.taken]
Trail(path) == [k \in 1..Len(path) |-> ItemTaken(path[k])]

\* A stack is a way from the root: every container on it is the item the one before
\* has come to.
Opened(json, path) ==
  /\ path \in Seq([at : DOMAIN json.node, taken : Nat])
  /\ Len(path) <= MaxDepth
  /\ \A k \in 1..Len(path) :
       /\ json.node[path[k].at].kind = "container"
       /\ path[k].taken <= Len(json.node[path[k].at].items)
       /\ path[k].at = IF k = 1 THEN json.root ELSE Below(json, ItemTaken(path[k - 1])).at
       /\ k < Len(path) => path[k].taken >= 1

\* A place shares its first n items with the way of a stack.
Follows(q, path, n) == \A i \in 1..n : q[i] = ItemTaken(path[i])

\* The places that were copied: where a place leaves the way, it leaves it for an
\* item that has been taken.
Visited(json, path) ==
  {q \in Places(json) :
     \A j \in 1..Len(path) :
       j \in DOMAIN q /\ Follows(q, path, j - 1) => q[j].item <= path[j].taken}

\* What is known of a stack.
LEMMA StackHas ==
  ASSUME NEW json, IsGraph(json), NEW path, Opened(json, path)
  PROVE  /\ Len(path) \in 0..MaxDepth /\ Len(path) \in Nat /\ DOMAIN path = 1..Len(path)
         /\ path = <<>> <=> Len(path) = 0
         /\ \A k \in 1..Len(path) :
              /\ path[k] \in [at : DOMAIN json.node, taken : Nat]
              /\ path[k].at \in DOMAIN json.node /\ path[k].taken \in Nat
              /\ Len(json.node[path[k].at].items) \in Nat
              /\ path[k].taken >= 1 => ItemTaken(path[k]) \in Items(json)
<1>1. /\ path \in Seq([at : DOMAIN json.node, taken : Nat])
      /\ Len(path) <= MaxDepth /\ MaxDepth \in Nat
  BY BudgetAssumption DEF Opened
<1>2. ASSUME NEW k \in 1..Len(path)
      PROVE  /\ path[k] \in [at : DOMAIN json.node, taken : Nat]
             /\ path[k].at \in DOMAIN json.node /\ path[k].taken \in Nat
             /\ Len(json.node[path[k].at].items) \in Nat
             /\ path[k].taken >= 1 => ItemTaken(path[k]) \in Items(json)
  <2>1. /\ path[k] \in [at : DOMAIN json.node, taken : Nat]
        /\ path[k].at \in DOMAIN json.node /\ path[k].taken \in Nat
    <3> DEFINE E == [at : DOMAIN json.node, taken : Nat]
    <3>1. path \in Seq(E)
      BY <1>1
    <3>2. path[k] \in E
      <4> HIDE DEF E
      <4> QED BY <3>1
    <3> QED BY <3>2
  <2>2. /\ json.node[path[k].at].kind = "container"
        /\ path[k].taken <= Len(json.node[path[k].at].items)
    BY DEF Opened
  <2>3. /\ Len(json.node[path[k].at].items) \in Nat
        /\ \A i \in 1..Len(json.node[path[k].at].items) :
             [at |-> path[k].at, item |-> i] \in Items(json)
    BY <2>1, <2>2, IsItem
  <2>4. path[k].taken >= 1 => path[k].taken \in 1..Len(json.node[path[k].at].items)
    BY <2>1, <2>2, <2>3
  <2> QED BY <2>1, <2>3, <2>4 DEF ItemTaken
<1>3. Len(path) \in Nat /\ DOMAIN path = 1..Len(path) /\ (path = <<>> <=> Len(path) = 0)
  BY <1>1
<1> QED BY <1>1, <1>2, <1>3

\* Where its innermost container has taken an item, a stack leads to a place.
LEMMA TrailIsPlace ==
  ASSUME NEW json, IsGraph(json), NEW path, Opened(json, path), path # <<>>,
         path[Len(path)].taken >= 1
  PROVE  /\ Trail(path) \in Places(json) /\ Len(Trail(path)) = Len(path)
         /\ \A k \in 1..Len(path) : Trail(path)[k] = ItemTaken(path[k])
         /\ ObjectAt(json, Trail(path)) = Below(json, ItemTaken(path[Len(path)])).at
         /\ KeyAt(json, Trail(path)) = Below(json, ItemTaken(path[Len(path)])).key
<1> DEFINE n == Len(path)
           q == Trail(path)
<1>1. n \in 0..MaxDepth /\ n \in Nat /\ n # 0
  BY StackHas
<1>2. ASSUME NEW k \in 1..n
      PROVE  /\ ItemTaken(path[k]) \in Items(json)
             /\ path[k].at = IF k = 1 THEN json.root ELSE Below(json, ItemTaken(path[k - 1])).at
  <2>1. path[k].taken >= 1
    <3>1. k # n => k < Len(path)
      BY <1>1
    <3> QED BY <3>1 DEF Opened
  <2> QED BY <2>1, StackHas DEF Opened
<1>3. q \in [1..n -> Items(json)] /\ \A k \in 1..n : q[k] = ItemTaken(path[k])
  BY <1>2 DEF Trail
<1>4. Len(q) = n /\ q # <<>> /\ Last(q) = ItemTaken(path[n])
  <2>1. n \in 1..n
    BY <1>1
  <2>2. q \in Seq(Items(json)) /\ Len(q) = n
    <3> HIDE DEF q, n
    <3> QED BY <1>1, <1>3
  <2> HIDE DEF q, n
  <2>3. q # <<>>
    BY <1>1, <2>2
  <2> QED BY <1>3, <2>1, <2>2, <2>3 DEF Last
<1> HIDE DEF q, n
<1>5. \A k \in 1..n : q[k].at = IF k = 1 THEN json.root ELSE Below(json, q[k - 1]).at
  <2> TAKE k \in 1..n
  <2>1. q[k].at = path[k].at
    BY <1>3 DEF ItemTaken
  <2>2. k # 1 => q[k - 1] = ItemTaken(path[k - 1])
    <3>1. k # 1 => k - 1 \in 1..n
      BY <1>1
    <3> QED BY <1>3, <3>1
  <2> QED BY <1>2, <2>1, <2>2
<1>6. q \in Places(json)
  BY <1>1, <1>3, <1>5, PlaceOf
<1> QED BY <1>3, <1>4, <1>6 DEF ObjectAt, KeyAt, q, n

\* path with the next item of its innermost container.
Onward(path) == [path EXCEPT ![Len(path)].taken = @ + 1]

LEMMA OnwardIsOpened ==
  ASSUME NEW json, IsGraph(json), NEW path, Opened(json, path), path # <<>>,
         path[Len(path)].taken < Len(json.node[path[Len(path)].at].items)
  PROVE  /\ Opened(json, Onward(path)) /\ Len(Onward(path)) = Len(path) /\ Onward(path) # <<>>
         /\ \A k \in 1..(Len(path) - 1) : Onward(path)[k] = path[k]
         /\ Onward(path)[Len(path)].at = path[Len(path)].at
         /\ Onward(path)[Len(path)].taken = path[Len(path)].taken + 1
<1> DEFINE n == Len(path)
           on == Onward(path)
           E == [at : DOMAIN json.node, taken : Nat]
<1>1. n \in 0..MaxDepth /\ n \in Nat /\ n # 0 /\ n \in 1..n /\ DOMAIN path = 1..n
  BY StackHas
<1>2. /\ path[n] \in E /\ path[n].taken \in Nat /\ path[n].at \in DOMAIN json.node
      /\ Len(json.node[path[n].at].items) \in Nat
  BY <1>1, StackHas
<1>3. path \in Seq(E) /\ Len(path) = n
  BY DEF Opened
<1>4. /\ on = [path EXCEPT ![n] = [path[n] EXCEPT !.taken = path[n].taken + 1]]
      /\ path[n].taken < Len(json.node[path[n].at].items)
  BY DEF Onward
<1> HIDE DEF n, on
<1> DEFINE e == [path[n] EXCEPT !.taken = path[n].taken + 1]
<1>5. e \in E /\ e.at = path[n].at /\ e.taken = path[n].taken + 1
  BY <1>2
<1> HIDE DEF e, E
<1>6. /\ on \in Seq(E) /\ Len(on) = n /\ on[n] = e
      /\ \A k \in 1..n : k # n => on[k] = path[k]
  BY <1>1, <1>3, <1>4, <1>5 DEF e
<1>7. on # <<>>
  BY <1>1, <1>6
<1>8. \A k \in 1..(n - 1) : k \in 1..n /\ on[k] = path[k]
  BY <1>1, <1>6
<1>9. ASSUME NEW k \in 1..n
      PROVE  /\ json.node[on[k].at].kind = "container"
             /\ on[k].taken <= Len(json.node[on[k].at].items)
             /\ on[k].at = IF k = 1 THEN json.root ELSE Below(json, ItemTaken(on[k - 1])).at
             /\ k < n => on[k].taken >= 1
  <2>1. /\ json.node[path[k].at].kind = "container"
        /\ path[k].taken <= Len(json.node[path[k].at].items)
        /\ path[k].at = IF k = 1 THEN json.root ELSE Below(json, ItemTaken(path[k - 1])).at
        /\ k < n => path[k].taken >= 1
    BY DEF Opened, n
  <2>2. on[k].at = path[k].at
    BY <1>5, <1>6
  <2>3. k # 1 => on[k - 1] = path[k - 1]
    <3>1. k # 1 => k - 1 \in 1..(n - 1)
      BY <1>1
    <3> QED BY <1>8, <3>1
  <2>4. CASE k = n
    <3>1. on[k].taken = path[n].taken + 1
      BY <1>5, <1>6, <2>4
    <3>2. on[k].taken <= Len(json.node[on[k].at].items)
      BY <1>2, <1>4, <2>2, <2>4, <3>1
    <3> QED BY <1>1, <2>1, <2>2, <2>3, <2>4, <3>2
  <2>5. CASE k # n
    BY <1>6, <2>1, <2>2, <2>3, <2>5
  <2> QED BY <2>4, <2>5
<1>10. Opened(json, on)
  <2>1. n <= MaxDepth
    BY <1>1, BudgetAssumption
  <2> QED BY <1>6, <1>9, <2>1 DEF Opened, E
<1> QED BY <1>1, <1>5, <1>6, <1>7, <1>8, <1>10 DEF n, on

(***************************************************************************)
(* What one step of a copy adds.                                           *)
(***************************************************************************)

\* An item more: everything below it is what was not visited before.
LEMMA OneItemMore ==
  ASSUME NEW json, IsGraph(json), NEW path, Opened(json, path), path # <<>>,
         path[Len(path)].taken < Len(json.node[path[Len(path)].at].items),
         NEW q \in Places(json)
  PROVE  /\ q \in Visited(json, Onward(path)) <=>
              \/ q \in Visited(json, path)
              \/ Len(path) \in DOMAIN q /\ Follows(q, Onward(path), Len(path))
         /\ ~(/\ q \in Visited(json, path)
              /\ Len(path) \in DOMAIN q /\ Follows(q, Onward(path), Len(path)))
<1> DEFINE n == Len(path)
           on == Onward(path)
<1>1. /\ Opened(json, on) /\ Len(on) = n
      /\ \A k \in 1..(n - 1) : on[k] = path[k]
      /\ on[n].at = path[n].at /\ on[n].taken = path[n].taken + 1
  BY OnwardIsOpened
<1>2. n \in Nat /\ n # 0 /\ n \in 1..n /\ path[n].taken \in Nat
  BY StackHas
<1>3. /\ Len(q) \in Nat /\ q \in [1..Len(q) -> Items(json)] /\ DOMAIN q = 1..Len(q)
      /\ \A k \in 1..Len(q) : q[k].at = IF k = 1 THEN json.root ELSE Below(json, q[k - 1]).at
  BY PlaceHas, BudgetAssumption
<1>4. ASSUME NEW j \in 1..n PROVE Follows(q, on, j - 1) <=> Follows(q, path, j - 1)
  <2>1. \A i \in 1..(j - 1) : on[i] = path[i]
    <3> TAKE i \in 1..(j - 1)
    <3>1. i \in 1..(n - 1)
      BY <1>2
    <3> QED BY <1>1, <3>1
  <2> QED BY <2>1 DEF Follows
<1>5. \A k \in 1..Len(q) : q[k].item \in Nat /\ q[k].item >= 1 /\ q[k] = [at |-> q[k].at, item |-> q[k].item]
  <2> TAKE k \in 1..Len(q)
  <2>1. q[k] \in Items(json)
    BY <1>3
  <2>2. /\ q[k].item \in 1..Len(json.node[q[k].at].items)
        /\ q[k] = [at |-> q[k].at, item |-> q[k].item]
        /\ q[k].at \in DOMAIN json.node /\ json.node[q[k].at].kind = "container"
    BY <2>1, ItemOf
  <2> QED BY <2>2
<1>6. path[n].at = IF n = 1 THEN json.root ELSE Below(json, ItemTaken(path[n - 1])).at
  BY <1>2 DEF Opened
<1> HIDE DEF n, on
<1>7. ASSUME n \in DOMAIN q, Follows(q, path, n - 1) PROVE q[n].at = path[n].at
  <2>1. CASE n = 1
    BY <1>3, <1>6, <1>7, <2>1
  <2>2. CASE n # 1
    <3>1. n - 1 \in 1..(n - 1)
      BY <1>2, <2>2
    <3>2. q[n - 1] = ItemTaken(path[n - 1])
      BY <1>7, <3>1 DEF Follows
    <3> QED BY <1>3, <1>6, <1>7, <2>2, <3>2
  <2> QED BY <2>1, <2>2
<1>8. n \in DOMAIN q /\ Follows(q, on, n) <=>
        n \in DOMAIN q /\ Follows(q, path, n - 1) /\ q[n].item = path[n].taken + 1
  <2>1. ASSUME n \in DOMAIN q, Follows(q, on, n)
        PROVE  Follows(q, path, n - 1) /\ q[n].item = path[n].taken + 1
    <3>1. Follows(q, on, n - 1)
      <4>1. \A i \in 1..(n - 1) : i \in 1..n
        BY <1>2
      <4> QED BY <2>1, <4>1 DEF Follows
    <3>2. q[n] = ItemTaken(on[n])
      BY <1>2, <2>1 DEF Follows
    <3> QED BY <1>1, <1>2, <1>4, <3>1, <3>2 DEF ItemTaken
  <2>2. ASSUME n \in DOMAIN q, Follows(q, path, n - 1), q[n].item = path[n].taken + 1
        PROVE  Follows(q, on, n)
    <3>1. q[n] = ItemTaken(on[n])
      <4>1. q[n].at = on[n].at /\ q[n].item = on[n].taken
        BY <1>1, <1>7, <2>2
      <4>2. q[n] = [at |-> q[n].at, item |-> q[n].item]
        BY <1>3, <1>5, <2>2
      <4> QED BY <4>1, <4>2 DEF ItemTaken
    <3>2. Follows(q, on, n - 1)
      BY <1>2, <1>4, <2>2
    <3>3. \A i \in 1..n : i = n \/ i \in 1..(n - 1)
      BY <1>2
    <3> QED BY <3>1, <3>2, <3>3 DEF Follows
  <2> QED BY <2>1, <2>2
<1>9. \A j \in 1..n : j = n \/ (j \in 1..(n - 1) /\ on[j] = path[j])
  <2> TAKE j \in 1..n
  <2>1. j = n \/ j \in 1..(n - 1)
    BY <1>2
  <2> QED BY <1>1, <2>1
<1>10. ASSUME q \in Visited(json, path), n \in DOMAIN q, Follows(q, on, n) PROVE FALSE
  <2>1. q[n].item <= path[n].taken
    BY <1>2, <1>8, <1>10 DEF Visited, n
  <2> QED BY <1>2, <1>8, <1>10, <2>1
<1>11. ASSUME q \in Visited(json, path) PROVE q \in Visited(json, on)
  <2> SUFFICES ASSUME NEW j \in 1..n, j \in DOMAIN q, Follows(q, on, j - 1)
               PROVE  q[j].item <= on[j].taken
    BY <1>1 DEF Visited
  <2>1. q[j].item <= path[j].taken
    BY <1>4, <1>11 DEF Visited, n
  <2>2. CASE j = n
    <3>1. q[n].item \in Nat
      BY <1>3, <1>5, <2>2
    <3> QED BY <1>1, <1>2, <2>1, <2>2, <3>1
  <2>3. CASE j # n
    BY <1>9, <2>1, <2>3
  <2> QED BY <2>2, <2>3
<1>12. ASSUME n \in DOMAIN q, Follows(q, on, n) PROVE q \in Visited(json, on)
  <2> SUFFICES ASSUME NEW j \in 1..n, j \in DOMAIN q
               PROVE  q[j].item <= on[j].taken
    BY <1>1 DEF Visited
  <2>1. q[j].item = on[j].taken
    <3>1. q[j] = ItemTaken(on[j])
      BY <1>12 DEF Follows
    <3> QED BY <3>1 DEF ItemTaken
  <2>2. q[j].item \in Nat
    BY <1>3, <1>5
  <2> QED BY <2>1, <2>2
<1>13. ASSUME q \in Visited(json, on), q \notin Visited(json, path)
       PROVE  n \in DOMAIN q /\ Follows(q, on, n)
  <2>1. PICK j \in 1..n : /\ j \in DOMAIN q /\ Follows(q, path, j - 1)
                          /\ ~(q[j].item <= path[j].taken)
    BY <1>13 DEF Visited, n
  <2>2. q[j].item <= on[j].taken
    BY <1>1, <1>4, <1>13, <2>1 DEF Visited
  <2>3. j = n
    BY <1>9, <2>1, <2>2
  <2>4. q[n].item \in Nat
    BY <1>3, <1>5, <2>1, <2>3
  <2>5. q[n].item = path[n].taken + 1
    BY <1>1, <1>2, <2>1, <2>2, <2>3, <2>4
  <2> QED BY <1>8, <2>1, <2>3, <2>5
<1> QED BY <1>10, <1>11, <1>12, <1>13 DEF n, on

\* Two places of one length that follow the same way are one.
LEMMA SamePlace ==
  ASSUME NEW json, IsGraph(json), NEW q \in Places(json), NEW r \in Places(json),
         Len(q) = Len(r), \A i \in 1..Len(q) : q[i] = r[i]
  PROVE  q = r
<1>1. /\ q \in [1..Len(q) -> Items(json)] /\ r \in [1..Len(r) -> Items(json)]
  BY PlaceHas
<1> QED BY <1>1

\* What the next item leads to is the one place its copying adds: a scalar has
\* nothing below it, and of a container nothing has been taken yet.
LEMMA OnePlaceVisited ==
  ASSUME NEW json, IsGraph(json), NEW path, Opened(json, path), path # <<>>,
         path[Len(path)].taken < Len(json.node[path[Len(path)].at].items),
         Len(path) < MaxDepth,
         NEW object, object = ObjectAt(json, Trail(Onward(path))),
         NEW next,
         \/ next = Onward(path) /\ json.node[object].kind = "scalar"
         \/ /\ next = Append(Onward(path), [at |-> object, taken |-> 0])
            /\ json.node[object].kind = "container"
  PROVE  /\ Opened(json, next) /\ next # <<>>
         /\ Visited(json, next) = Visited(json, path) \cup {Trail(Onward(path))}
<1> DEFINE n == Len(path)
           on == Onward(path)
           q0 == Trail(on)
           E == [at : DOMAIN json.node, taken : Nat]
           entry == [at |-> object, taken |-> 0]
<1>1. /\ Opened(json, on) /\ Len(on) = n /\ on # <<>>
      /\ on[n].taken = path[n].taken + 1
  BY OnwardIsOpened
<1>2. n \in Nat /\ n # 0 /\ n \in 1..n /\ path[n].taken \in Nat /\ n < MaxDepth /\ MaxDepth \in Nat
  BY StackHas, BudgetAssumption
<1>3. on[Len(on)].taken >= 1
  BY <1>1, <1>2
<1>4. /\ q0 \in Places(json) /\ Len(q0) = n
      /\ \A k \in 1..n : q0[k] = ItemTaken(on[k])
      /\ object = Below(json, ItemTaken(on[n])).at
  BY <1>1, <1>3, TrailIsPlace
<1>5. DOMAIN q0 = 1..n /\ Follows(q0, on, n) /\ object \in DOMAIN json.node
  BY <1>4, PlaceHas DEF Follows
<1>6. \A q \in Places(json) :
        /\ q \in Visited(json, on) <=> q \in Visited(json, path) \/ (n \in DOMAIN q /\ Follows(q, on, n))
        /\ ~(q \in Visited(json, path) /\ n \in DOMAIN q /\ Follows(q, on, n))
  BY OneItemMore
<1>7. /\ Visited(json, path) \in SUBSET Places(json) /\ Visited(json, on) \in SUBSET Places(json)
      /\ Visited(json, next) \in SUBSET Places(json)
  BY DEF Visited
<1> HIDE DEF n, on, q0
<1>8. ASSUME NEW q \in Places(json), Follows(q, on, n), n \in DOMAIN q, n + 1 \notin DOMAIN q
      PROVE  q = q0
  <2>1. Len(q) \in Nat /\ DOMAIN q = 1..Len(q)
    BY PlaceHas, BudgetAssumption
  <2>2. Len(q) = n
    <3> DEFINE m == Len(q)
    <3>1. n \in 1..m /\ n + 1 \notin 1..m /\ m \in Nat
      BY <1>8, <2>1
    <3> HIDE DEF m
    <3>2. m = n
      BY <1>2, <3>1
    <3> QED BY <3>2 DEF m
  <2>3. \A i \in 1..Len(q) : q[i] = q0[i]
    BY <1>4, <1>8, <2>2 DEF Follows
  <2> QED BY <1>4, <2>2, <2>3, SamePlace
<1>9. ASSUME NEW q \in Places(json), Follows(q, on, n), n \in DOMAIN q, n + 1 \in DOMAIN q
      PROVE  json.node[object].kind = "container" /\ q[n + 1].item >= 1 /\ q[n + 1].item \in Nat
  <2>1. /\ Len(q) \in Nat /\ DOMAIN q = 1..Len(q) /\ q \in [1..Len(q) -> Items(json)]
        /\ \A k \in 1..Len(q) : q[k].at = IF k = 1 THEN json.root ELSE Below(json, q[k - 1]).at
    BY PlaceHas, BudgetAssumption
  <2>2. n + 1 \in 1..Len(q) /\ n + 1 # 1 /\ (n + 1) - 1 = n
    BY <1>2, <1>9, <2>1
  <2>3. q[n + 1].at = Below(json, q[n]).at
    BY <2>1, <2>2
  <2>4. q[n] = ItemTaken(on[n])
    BY <1>2, <1>9 DEF Follows
  <2>5. q[n + 1].at = object
    BY <1>4, <2>3, <2>4
  <2>6. q[n + 1] \in Items(json)
    BY <2>1, <2>2
  <2>7. /\ json.node[q[n + 1].at].kind = "container"
        /\ q[n + 1].item \in 1..Len(json.node[q[n + 1].at].items)
    BY <2>6, ItemOf
  <2> QED BY <2>5, <2>7
<1>10. CASE next = on /\ json.node[object].kind = "scalar"
  <2>1. \A q \in Places(json) : q \in Visited(json, on) <=> q \in Visited(json, path) \/ q = q0
    <3> TAKE q \in Places(json)
    <3>1. n \in DOMAIN q /\ Follows(q, on, n) <=> q = q0
      BY <1>2, <1>5, <1>8, <1>9, <1>10
    <3> QED BY <1>6, <3>1
  <2> QED BY <1>1, <1>4, <1>7, <1>10, <2>1 DEF on, q0
<1>11. CASE next = Append(on, entry) /\ json.node[object].kind = "container"
  <2>1. on \in Seq(E) /\ Len(on) = n /\ entry \in E
    BY <1>1, <1>5 DEF Opened
  <2>2. entry.at = object /\ entry.taken = 0
    OBVIOUS
  <2> HIDE DEF E, entry
  <2>3. /\ next \in Seq(E) /\ Len(next) = n + 1 /\ next[n + 1] = entry
        /\ \A k \in 1..n : next[k] = on[k]
    BY <1>2, <1>11, <2>1
  <2>4. next # <<>>
    BY <1>2, <2>3
  <2>5. ASSUME NEW k \in 1..(n + 1)
        PROVE  /\ json.node[next[k].at].kind = "container"
               /\ next[k].taken <= Len(json.node[next[k].at].items)
               /\ next[k].at = IF k = 1 THEN json.root ELSE Below(json, ItemTaken(next[k - 1])).at
               /\ k < n + 1 => next[k].taken >= 1
    <3>1. CASE k = n + 1
      <4>1. Len(json.node[object].items) \in Nat
        BY <1>5, <1>11, IsItem
      <4>2. k # 1 /\ k - 1 = n /\ next[k - 1] = on[n]
        BY <1>2, <2>3, <3>1
      <4>3. next[k].taken <= Len(json.node[next[k].at].items)
        BY <2>2, <2>3, <3>1, <4>1
      <4> QED BY <1>2, <1>4, <1>11, <2>2, <2>3, <3>1, <4>2, <4>3
    <3>2. CASE k # n + 1
      <4>1. k \in 1..n /\ next[k] = on[k] /\ (k # 1 => next[k - 1] = on[k - 1])
        BY <1>2, <2>3, <3>2
      <4>2. /\ json.node[on[k].at].kind = "container"
            /\ on[k].taken <= Len(json.node[on[k].at].items)
            /\ on[k].at = IF k = 1 THEN json.root ELSE Below(json, ItemTaken(on[k - 1])).at
            /\ k < n => on[k].taken >= 1
        BY <1>1, <4>1 DEF Opened
      <4>3. on[k].taken >= 1
        <5>1. k < n \/ k = n
          BY <1>2, <4>1
        <5> QED BY <1>1, <1>3, <4>2, <5>1
      <4> QED BY <4>1, <4>2, <4>3
    <3> QED BY <3>1, <3>2
  <2>6. Opened(json, next)
    <3>1. n + 1 <= MaxDepth
      BY <1>2
    <3> QED BY <2>3, <2>5, <3>1 DEF Opened, E
  <2>7. \A k \in 1..n : \A q : Follows(q, next, k) <=> Follows(q, on, k)
    <3> TAKE k \in 1..n
    <3>1. \A i \in 1..k : next[i] = on[i]
      BY <1>2, <2>3
    <3> QED BY <3>1 DEF Follows
  <2>8. \A q : Follows(q, next, 0) <=> Follows(q, on, 0)
    BY DEF Follows
  <2>9. \A j \in 1..n : \A q : Follows(q, next, j - 1) <=> Follows(q, on, j - 1)
    <3> TAKE j \in 1..n
    <3>1. j - 1 = 0 \/ j - 1 \in 1..n
      BY <1>2
    <3> QED BY <2>7, <2>8, <3>1
  <2>10. ASSUME NEW q \in Places(json)
         PROVE  q \in Visited(json, next) <=>
                  q \in Visited(json, on) /\ ~(n + 1 \in DOMAIN q /\ Follows(q, on, n))
    <3>1. DOMAIN q = 1..Len(q) /\ Len(q) \in Nat
      BY PlaceHas, BudgetAssumption
    <3>2. \A j \in 1..(n + 1) : j \in 1..n \/ j = n + 1
      BY <1>2
    <3>3. \A j \in 1..n : j \in 1..(n + 1)
      BY <1>2
    <3>4. n + 1 \in 1..(n + 1) /\ (n + 1) - 1 = n /\ n \in 1..n
      BY <1>2
    <3>5. next[n + 1].taken = 0
      BY <2>2, <2>3
    <3>6. n + 1 \in DOMAIN q => n \in DOMAIN q
      BY <1>2, <3>1
    <3>7. n + 1 \in DOMAIN q /\ Follows(q, on, n) => ~(q[n + 1].item <= next[n + 1].taken)
      BY <1>9, <3>5, <3>6
    <3>8. q \in Visited(json, next) <=>
            \A j \in 1..(n + 1) :
              j \in DOMAIN q /\ Follows(q, next, j - 1) => q[j].item <= next[j].taken
      BY <2>3 DEF Visited
    <3>9. q \in Visited(json, on) <=>
            \A j \in 1..n :
              j \in DOMAIN q /\ Follows(q, next, j - 1) => q[j].item <= next[j].taken
      BY <1>1, <2>3, <2>9 DEF Visited
    <3>10. Follows(q, next, n) <=> Follows(q, on, n)
      BY <2>7, <3>4
    <3> QED BY <3>2, <3>3, <3>4, <3>7, <3>8, <3>9, <3>10
  <2>11. \A q \in Places(json) : q \in Visited(json, next) <=> q \in Visited(json, path) \/ q = q0
    <3> TAKE q \in Places(json)
    <3>1. DOMAIN q = 1..Len(q) /\ Len(q) \in Nat
      BY PlaceHas, BudgetAssumption
    <3>2. n + 1 \in DOMAIN q => n \in DOMAIN q
      BY <1>2, <3>1
    <3>3. n + 1 \notin DOMAIN q0 /\ n \in DOMAIN q0
      BY <1>2, <1>5
    <3> QED BY <1>5, <1>6, <1>8, <2>10, <3>2, <3>3
  <2> QED BY <1>4, <1>7, <2>4, <2>6, <2>11 DEF on, q0
<1> QED BY <1>10, <1>11 DEF on, q0

\* Where the innermost container has no item left, leaving it visits nothing.
LEMMA LeavingVisitsNothing ==
  ASSUME NEW json, IsGraph(json), NEW path, Opened(json, path), path # <<>>,
         ~(path[Len(path)].taken < Len(json.node[path[Len(path)].at].items))
  PROVE  /\ Opened(json, Front(path)) /\ Len(Front(path)) = Len(path) - 1
         /\ Visited(json, Front(path)) = Visited(json, path)
<1> DEFINE n == Len(path)
           E == [at : DOMAIN json.node, taken : Nat]
           front == Front(path)
<1>1. n \in Nat /\ n # 0 /\ n \in 1..n /\ path[n].taken \in Nat
      /\ Len(json.node[path[n].at].items) \in Nat
  BY StackHas
<1>2. path \in Seq(E) /\ n <= MaxDepth /\ MaxDepth \in Nat
  BY BudgetAssumption DEF Opened
<1>3. path[n].taken = Len(json.node[path[n].at].items)
  <2>1. path[n].taken <= Len(json.node[path[n].at].items)
    BY <1>1 DEF Opened
  <2> QED BY <1>1, <2>1
<1>4. /\ front \in Seq(E) /\ Len(front) = n - 1
      /\ \A k \in 1..(n - 1) : k \in 1..n /\ front[k] = path[k]
  <2>1. front = SubSeq(path, 1, n - 1)
    BY DEF Front
  <2>2. Len(path) = n /\ n - 1 \in Nat /\ n - 1 <= n
    BY <1>1
  <2> HIDE DEF E, front, n
  <2>3. \A k \in 1..(n - 1) : k \in 1..n /\ 1 + k - 1 = k
    BY <1>1
  <2>4. Len(front) = n - 1 /\ \A k \in 1..(n - 1) : front[k] = path[1 + k - 1]
    BY <1>1, <1>2, <2>1, <2>2
  <2>5. front \in Seq(E)
    BY <1>1, <1>2, <2>1, <2>2
  <2> QED BY <2>3, <2>4, <2>5
<1>5. path[n].at = IF n = 1 THEN json.root ELSE Below(json, ItemTaken(path[n - 1])).at
  BY <1>1 DEF Opened
<1>6. ASSUME NEW k \in 1..(n - 1)
      PROVE  /\ json.node[front[k].at].kind = "container"
             /\ front[k].taken <= Len(json.node[front[k].at].items)
             /\ front[k].at = IF k = 1 THEN json.root ELSE Below(json, ItemTaken(front[k - 1])).at
             /\ k < n - 1 => front[k].taken >= 1
  <2>1. k \in 1..n /\ k < n /\ front[k] = path[k] /\ (k # 1 => front[k - 1] = path[k - 1])
    <3>1. k # 1 => k - 1 \in 1..(n - 1)
      BY <1>1
    <3>2. k < n
      BY <1>1
    <3> QED BY <1>4, <3>1, <3>2
  <2> QED BY <2>1 DEF Opened
<1>7. Opened(json, front)
  <2>1. n - 1 <= MaxDepth
    BY <1>1, <1>2
  <2> HIDE DEF front, n
  <2> QED BY <1>4, <1>6, <2>1 DEF Opened, E
<1>8. ASSUME NEW j \in 1..(n - 1), NEW q
      PROVE  Follows(q, front, j - 1) <=> Follows(q, path, j - 1)
  <2>1. \A i \in 1..(j - 1) : front[i] = path[i]
    <3> TAKE i \in 1..(j - 1)
    <3>1. i \in 1..(n - 1)
      BY <1>1
    <3> QED BY <1>4, <3>1
  <2> QED BY <2>1 DEF Follows
<1>9. ASSUME NEW q \in Places(json)
      PROVE  q \in Visited(json, front) <=> q \in Visited(json, path)
  <2>1. /\ Len(q) \in Nat /\ DOMAIN q = 1..Len(q) /\ q \in [1..Len(q) -> Items(json)]
        /\ \A k \in 1..Len(q) : q[k].at = IF k = 1 THEN json.root ELSE Below(json, q[k - 1]).at
    BY PlaceHas, BudgetAssumption
  <2>2. ASSUME n \in DOMAIN q, Follows(q, path, n - 1)
        PROVE  q[n].item <= path[n].taken
    <3>1. q[n].at = path[n].at
      <4>1. CASE n = 1
        BY <1>5, <2>1, <2>2, <4>1
      <4>2. CASE n # 1
        <5>1. n - 1 \in 1..(n - 1)
          <6> HIDE DEF n
          <6> QED BY <1>1, <4>2
        <5>2. q[n - 1] = ItemTaken(path[n - 1])
          <6> HIDE DEF n
          <6> QED BY <2>2, <5>1 DEF Follows
        <5>3. q[n].at = Below(json, q[n - 1]).at
          BY <2>1, <2>2, <4>2
        <5> QED BY <1>5, <4>2, <5>2, <5>3
      <4> QED BY <4>1, <4>2
    <3>2. q[n] \in Items(json)
      BY <2>1, <2>2
    <3>3. q[n].item \in 1..Len(json.node[q[n].at].items)
      BY <3>2, ItemOf
    <3>4. q[n].item <= Len(json.node[path[n].at].items)
      BY <1>1, <3>1, <3>3
    <3> QED BY <1>3, <3>4
  <2>3. \A j \in 1..n : j = n \/ j \in 1..(n - 1)
    BY <1>1
  <2>4. q \in Visited(json, path) <=>
          \A j \in 1..n : j \in DOMAIN q /\ Follows(q, path, j - 1) => q[j].item <= path[j].taken
    BY DEF Visited
  <2>5. q \in Visited(json, front) <=>
          \A j \in 1..(n - 1) : j \in DOMAIN q /\ Follows(q, path, j - 1) => q[j].item <= path[j].taken
    <3>1. q \in Visited(json, front) <=>
            \A j \in 1..(n - 1) : j \in DOMAIN q /\ Follows(q, front, j - 1) => q[j].item <= front[j].taken
      <4> HIDE DEF front, n
      <4> QED BY <1>4 DEF Visited
    <3> HIDE DEF front, n
    <3> QED BY <1>4, <1>8, <3>1
  <2> HIDE DEF front, n
  <2> QED BY <1>4, <2>2, <2>3, <2>4, <2>5
<1>10. Visited(json, front) \in SUBSET Places(json) /\ Visited(json, path) \in SUBSET Places(json)
  BY DEF Visited
<1> HIDE DEF front, n
<1>11. Visited(json, front) = Visited(json, path)
  BY <1>9, <1>10
<1> QED BY <1>4, <1>7, <1>11 DEF front, n

\* Nothing is taken, and everything is.
LEMMA EmptyStack ==
  ASSUME NEW json
  PROVE  /\ Opened(json, <<>>) /\ Visited(json, <<>>) = Places(json)
         /\ BytesAt(json, {}) = {}
<1>1. Len(<<>>) = 0 /\ 1..0 = {}
  OBVIOUS
<1>2. \A E : <<>> \in Seq(E)
  OBVIOUS
<1>3. Opened(json, <<>>)
  BY <1>1, <1>2, BudgetAssumption DEF Opened
<1>4. Visited(json, <<>>) = Places(json)
  BY <1>1 DEF Visited
<1>5. BytesAt(json, {}) = {}
  BY DEF BytesAt
<1> QED BY <1>3, <1>4, <1>5

\* Of a container at the root, only the root is visited at first; a scalar is the
\* only place there is.
LEMMA RootVisited ==
  ASSUME NEW json, IsGraph(json)
  PROVE  /\ json.node[json.root].kind = "container" =>
              /\ Opened(json, << [at |-> json.root, taken |-> 0] >>)
              /\ Visited(json, << [at |-> json.root, taken |-> 0] >>) = {<<>>}
         /\ json.node[json.root].kind = "scalar" => Places(json) = {<<>>}
<1> DEFINE entry == [at |-> json.root, taken |-> 0]
           path == << entry >>
<1>1. json.root \in DOMAIN json.node
  BY DEF IsGraph
<1>2. <<>> \in Places(json) /\ Len(<<>>) = 0 /\ DOMAIN <<>> = {}
  BY RootPlace
<1>3. ASSUME NEW q \in Places(json), q # <<>>
      PROVE  /\ 1 \in DOMAIN q /\ q[1].item >= 1 /\ q[1].item \in Nat
             /\ json.node[json.root].kind = "container"
  <2>1. /\ Len(q) \in Nat /\ Len(q) # 0 /\ DOMAIN q = 1..Len(q) /\ q \in [1..Len(q) -> Items(json)]
        /\ \A k \in 1..Len(q) : q[k].at = IF k = 1 THEN json.root ELSE Below(json, q[k - 1]).at
    BY <1>3, PlaceHas, BudgetAssumption
  <2>2. 1 \in 1..Len(q)
    BY <2>1
  <2>3. q[1] \in Items(json) /\ q[1].at = json.root
    BY <2>1, <2>2
  <2>4. json.node[q[1].at].kind = "container" /\ q[1].item \in 1..Len(json.node[q[1].at].items)
    BY <2>3, ItemOf
  <2> QED BY <2>1, <2>2, <2>3, <2>4
<1>4. ASSUME json.node[json.root].kind = "container"
      PROVE  Opened(json, path) /\ Visited(json, path) = {<<>>}
  <2>1. entry \in [at : DOMAIN json.node, taken : Nat] /\ entry.at = json.root /\ entry.taken = 0
    BY <1>1
  <2>2. Len(json.node[json.root].items) \in Nat
    BY <1>1, <1>4, IsItem
  <2> HIDE DEF entry
  <2>3. /\ path \in Seq([at : DOMAIN json.node, taken : Nat]) /\ Len(path) = 1 /\ path[1] = entry
    <3> DEFINE E == [at : DOMAIN json.node, taken : Nat]
    <3>1. entry \in E
      BY <2>1
    <3> HIDE DEF E
    <3>2. path \in Seq(E) /\ Len(path) = 1 /\ path[1] = entry
      BY <3>1
    <3> QED BY <3>2 DEF E
  <2> HIDE DEF path
  <2>4. \A k \in 1..1 : k = 1
    OBVIOUS
  <2>5. Opened(json, path)
    <3>1. 1 <= MaxDepth
      BY BudgetAssumption
    <3> QED BY <1>4, <2>1, <2>2, <2>3, <2>4, <3>1 DEF Opened
  <2>6. ASSUME NEW q \in Visited(json, path) PROVE q = <<>>
    <3> SUFFICES ASSUME q # <<>> PROVE FALSE
      OBVIOUS
    <3>1. q \in Places(json)
      BY DEF Visited
    <3>2. 1 \in DOMAIN q /\ q[1].item >= 1 /\ q[1].item \in Nat
      BY <1>3, <3>1
    <3>3. 1 \in 1..1 /\ 1 - 1 = 0 /\ Follows(q, path, 0)
      BY DEF Follows
    <3>4. q[1].item <= path[1].taken
      BY <2>3, <3>2, <3>3 DEF Visited
    <3> QED BY <2>1, <2>3, <3>2, <3>4
  <2>7. <<>> \in Visited(json, path)
    BY <1>2 DEF Visited
  <2> QED BY <2>5, <2>6, <2>7
<1>5. ASSUME json.node[json.root].kind = "scalar" PROVE Places(json) = {<<>>}
  <2>1. \A q \in Places(json) : q = <<>>
    BY <1>3, <1>5
  <2> QED BY <1>2, <2>1
<1> QED BY <1>4, <1>5

(***************************************************************************)
(* What a copy is at any moment.                                           *)
(***************************************************************************)

\* The places copied so far.
Copied(json, path) == IF path = <<>> THEN {} ELSE Visited(json, path)

\* It has the fields of a copy.
IsCopy(copy) ==
  copy = [path |-> copy.path, nodes |-> copy.nodes, bytes |-> copy.bytes,
          verdict |-> copy.verdict]

\* While it goes on, what is counted is what was visited; its verdict is the one the
\* whole tree deserves.
CopyInv(json, copy) ==
  /\ IsCopy(copy)
  /\ copy.verdict \in {"copying", "copied", "over_budget"}
  /\ Opened(json, copy.path)
  /\ copy.nodes <= MaxNodes /\ copy.bytes <= MaxBytes
  /\ copy.verdict = "copying" => Counted(json, copy, Copied(json, copy.path))
  /\ copy.verdict = "copied" => FitsBudget(json)
  /\ copy.verdict = "over_budget" => ~FitsBudget(json)

\* It is so at first.
LEMMA CopyBegins ==
  ASSUME NEW json
  PROVE  CopyInv(json, NoCopy)
<1>1. Cardinality({}) = 0
  BY FS_EmptySet
<1>2. Counted(json, NoCopy, {})
  BY <1>1, EmptyStack, BudgetAssumption DEF Counted, NoCopy
<1>3. Copied(json, <<>>) = {}
  BY DEF Copied
<1> QED BY <1>2, <1>3, EmptyStack, BudgetAssumption DEF CopyInv, IsCopy, NoCopy

\* A copy has gone on to next with what is at place q: a scalar is copied, a container
\* entered.
WentOn(json, copy, V, q, next) ==
  /\ IsCopy(next)
  /\ Counted(json, next, V \cup {q}) /\ Len(q) < MaxDepth
  /\ \/ /\ json.node[ObjectAt(json, q)].kind = "scalar"
        /\ next.path = copy.path
        /\ next.verdict = IF copy.path = <<>> THEN "copied" ELSE "copying"
     \/ /\ json.node[ObjectAt(json, q)].kind = "container"
        /\ next.path = Append(copy.path, [at |-> ObjectAt(json, q), taken |-> 0])
        /\ next.verdict = "copying"

\* Take at a place that was not counted yet: refused, the tree does not fit; and if
\* it is taken, the place is counted.
LEMMA TakeAt ==
  ASSUME NEW json, IsGraph(json), NEW copy, NEW V \in SUBSET Places(json),
         Counted(json, copy, V), Opened(json, copy.path),
         IsCopy(copy), copy.verdict = "copying",
         NEW q \in Places(json), q \notin V, Len(copy.path) = Len(q),
         json.node[ObjectAt(json, q)].kind = "container" /\ ObjectAt(json, q) \in Active(copy) =>
           ~FitsBudget(json),
         NEW next, next = Take(copy, json, ObjectAt(json, q), KeyAt(json, q))
  PROVE  CopyInv(json, next) \/ WentOn(json, copy, V, q, next)
<1> DEFINE object == ObjectAt(json, q)
           key == KeyAt(json, q)
<1>1. CASE Refused(copy, json, object, key)
  <2>1. ~FitsBudget(json)
    BY <1>1, RefusedRightly
  <2>2. next = OverBudget(copy)
    BY <1>1 DEF Take
  <2>3. /\ IsCopy(next)
        /\ next.path = copy.path /\ next.nodes = copy.nodes /\ next.bytes = copy.bytes
        /\ next.verdict = "over_budget"
    BY <2>2 DEF OverBudget, IsCopy
  <2>4. CopyInv(json, next)
    BY <2>1, <2>3 DEF CopyInv, Counted
  <2> QED BY <2>2, <2>4
<1>2. CASE ~Refused(copy, json, object, key)
  <2>1. /\ IsCopy(next)
        /\ next.nodes = copy.nodes + 1
        /\ next.bytes = copy.bytes + key +
             (IF json.node[object].kind = "scalar" THEN json.node[object].size ELSE 0)
        /\ next.path = IF json.node[object].kind = "container"
                       THEN Append(copy.path, [at |-> object, taken |-> 0]) ELSE copy.path
        /\ next.verdict = IF json.node[object].kind = "scalar" /\ copy.path = <<>>
                          THEN "copied" ELSE "copying"
    BY <1>2 DEF Take, IsCopy
  <2>2. next.bytes = copy.bytes + KeyAt(json, q) + TextAt(json, q)
    BY <2>1, TextHere
  <2>3. /\ Counted(json, next, V \cup {q}) /\ Len(q) < MaxDepth
        /\ json.node[object].kind \in {"scalar", "container"}
    BY <1>2, <2>1, <2>2, TakenRightly
  <2>4. CASE json.node[object].kind = "scalar"
    BY <2>1, <2>3, <2>4 DEF WentOn
  <2>5. CASE json.node[object].kind = "container"
    BY <2>1, <2>3, <2>5 DEF WentOn
  <2> QED BY <2>3, <2>4, <2>5
<1> QED BY <1>1, <1>2

\* It stays so when the root is taken,
LEMMA RootStep ==
  ASSUME NEW json, IsGraph(json), NEW copy, CopyInv(json, copy), copy.verdict = "copying",
         copy.path = <<>>
  PROVE  CopyInv(json, CopyStep(copy, json))
<1> DEFINE next == CopyStep(copy, json)
<1> SUFFICES CopyInv(json, next)
  OBVIOUS
<1>1. next = Take(copy, json, json.root, 0)
  BY DEF CopyStep
<1>2. /\ <<>> \in Places(json) /\ ObjectAt(json, <<>>) = json.root /\ KeyAt(json, <<>>) = 0
      /\ Len(<<>>) = 0
  BY RootPlace
<1>3. Copied(json, copy.path) = {}
  BY DEF Copied
<1>4. Active(copy) = {}
  BY DEF Active
<1> HIDE DEF next
<1>5. CopyInv(json, next) \/ WentOn(json, copy, {}, <<>>, next)
  <2> DEFINE r == <<>>
             V == {}
  <2>1. /\ r \in Places(json) /\ r \notin V /\ Len(copy.path) = Len(r)
        /\ ObjectAt(json, r) = json.root /\ KeyAt(json, r) = 0
        /\ V \in SUBSET Places(json)
    BY <1>2
  <2>2. /\ Counted(json, copy, V) /\ Opened(json, copy.path) /\ IsCopy(copy)
    BY <1>3 DEF CopyInv
  <2>3. ObjectAt(json, r) \notin Active(copy)
    BY <1>4
  <2>4. next = Take(copy, json, ObjectAt(json, r), KeyAt(json, r))
    BY <1>1, <2>1
  <2> HIDE DEF r, V
  <2>5. CopyInv(json, next) \/ WentOn(json, copy, V, r, next)
    BY <2>1, <2>2, <2>3, <2>4, TakeAt
  <2> QED BY <2>5 DEF r, V
<1>6. CASE /\ Counted(json, next, {<<>>}) /\ IsCopy(next)
           /\ json.node[json.root].kind = "scalar" /\ next.path = <<>> /\ next.verdict = "copied"
  <2>1. Counted(json, next, Places(json))
    BY <1>6, RootVisited
  <2>2. FitsBudget(json)
    BY <2>1, AllCounted
  <2> QED BY <1>6, <2>1, <2>2, EmptyStack DEF CopyInv, Counted
<1>7. CASE /\ Counted(json, next, {<<>>}) /\ IsCopy(next)
           /\ json.node[json.root].kind = "container"
           /\ next.path = Append(<<>>, [at |-> json.root, taken |-> 0])
           /\ next.verdict = "copying"
  <2> DEFINE path == << [at |-> json.root, taken |-> 0] >>
  <2>1. next.path = path /\ path # <<>>
    BY <1>7
  <2>2. Opened(json, path) /\ Visited(json, path) = {<<>>}
    BY <1>7, RootVisited
  <2> HIDE DEF path
  <2>3. Copied(json, next.path) = {<<>>}
    BY <2>1, <2>2 DEF Copied
  <2> QED BY <1>7, <2>1, <2>2, <2>3 DEF CopyInv, Counted
<1>8. {} \cup {<<>>} = {<<>>}
  OBVIOUS
<1> QED BY <1>2, <1>5, <1>6, <1>7, <1>8 DEF WentOn

\* when an item is taken,
LEMMA ItemStep ==
  ASSUME NEW json, IsGraph(json), NEW copy, CopyInv(json, copy), copy.verdict = "copying",
         copy.path # <<>>,
         copy.path[Len(copy.path)].taken < Len(json.node[copy.path[Len(copy.path)].at].items)
  PROVE  CopyInv(json, CopyStep(copy, json))
<1> DEFINE path == copy.path
           n == Len(path)
           on == Onward(path)
           q == Trail(on)
           items == json.node[path[n].at].items
           V == Visited(json, path)
           more == [copy EXCEPT !.path = on]
           next == CopyStep(copy, json)
<1> SUFFICES CopyInv(json, next)
  OBVIOUS
<1>1. /\ Opened(json, path) /\ path # <<>> /\ path[n].taken < Len(items)
      /\ Counted(json, copy, V)
      /\ copy = [path |-> path, nodes |-> copy.nodes, bytes |-> copy.bytes, verdict |-> "copying"]
  BY DEF CopyInv, Copied, IsCopy
<1>2. /\ Opened(json, on) /\ Len(on) = n /\ on # <<>>
      /\ on[n].at = path[n].at /\ on[n].taken = path[n].taken + 1
      /\ \A k \in 1..(n - 1) : on[k] = path[k]
  BY OnwardIsOpened, <1>1
<1>3. /\ n \in Nat /\ n # 0 /\ n \in 1..n /\ path[n].taken \in Nat
      /\ n <= MaxDepth /\ MaxDepth \in Nat
  BY <1>1, StackHas, BudgetAssumption
<1>4. /\ q \in Places(json) /\ Len(q) = n
      /\ \A k \in 1..n : q[k] = ItemTaken(on[k])
      /\ ObjectAt(json, q) = Below(json, ItemTaken(on[n])).at
      /\ KeyAt(json, q) = Below(json, ItemTaken(on[n])).key
  <2>1. on[Len(on)].taken >= 1
    BY <1>2, <1>3
  <2> HIDE DEF on, q, n
  <2> QED BY <1>2, <2>1, TrailIsPlace DEF q
<1>5. Below(json, ItemTaken(on[n])) = items[path[n].taken + 1]
  BY <1>2 DEF Below, ItemTaken
<1>6. next = Take(more, json, ObjectAt(json, q), KeyAt(json, q))
  <2>1. Last(path) = path[n]
    BY DEF Last
  <2>2. [copy EXCEPT !.path[Len(copy.path)].taken = @ + 1] = more
    BY DEF Onward
  <2>3. next = Take([copy EXCEPT !.path[Len(copy.path)].taken = @ + 1], json,
                    items[path[n].taken + 1].at, items[path[n].taken + 1].key)
    BY <1>1, <2>1 DEF CopyStep
  <2> QED BY <1>4, <1>5, <2>2, <2>3
<1>7. q \notin V /\ V \in SUBSET Places(json)
  <2>1. Len(path) \in DOMAIN q /\ Follows(q, on, Len(path))
    <3>1. DOMAIN q = 1..n
      BY <1>4, PlaceHas
    <3> QED BY <1>3, <1>4, <3>1 DEF Follows
  <2>2. ~(q \in Visited(json, path) /\ Len(path) \in DOMAIN q /\ Follows(q, on, Len(path)))
    BY <1>1, <1>4, OneItemMore
  <2> QED BY <2>1, <2>2 DEF Visited
<1>8. /\ IsCopy(more) /\ more.verdict = "copying"
      /\ more.path = on /\ more.nodes = copy.nodes /\ more.bytes = copy.bytes
  BY <1>1 DEF IsCopy
<1>9. Counted(json, more, V)
  BY <1>1, <1>8 DEF Counted
<1> HIDE DEF more, next, on, q, V
<1>10. json.node[ObjectAt(json, q)].kind = "container" /\ ObjectAt(json, q) \in Active(more) =>
         ~FitsBudget(json)
  <2> SUFFICES ASSUME ObjectAt(json, q) \in Active(more) PROVE ~FitsBudget(json)
    OBVIOUS
  <2> DEFINE C == Active(more)
  <2>1. C = {on[i].at : i \in 1..n}
    <3>1. DOMAIN on = 1..n
      BY <1>2, StackHas
    <3> QED BY <1>8, <3>1 DEF Active
  <2>2. C \in SUBSET DOMAIN json.node
    BY <1>2, <2>1, StackHas
  <2>3. json.root \in C
    <3>1. 1 \in 1..n
      BY <1>3
    <3>2. on[1].at = json.root
      <4> HIDE DEF n
      <4> QED BY <1>2, <3>1 DEF Opened
    <3> QED BY <2>1, <3>1, <3>2
  <2>4. ASSUME NEW object \in C
        PROVE  \E s \in Items(json) : s.at = object /\ Below(json, s).at \in C
    <3>1. PICK i \in 1..n : object = on[i].at
      BY <2>1
    <3> HIDE DEF n, C
    <3>2. on[i].taken >= 1
      <4>1. i < n \/ i = n
        BY <1>3, <3>1
      <4>2. on[n].taken >= 1
        BY <1>2, <1>3
      <4>3. i < n => on[i].taken >= 1
        BY <1>2, <3>1 DEF Opened
      <4> QED BY <4>1, <4>2, <4>3
    <3>3. ItemTaken(on[i]) \in Items(json) /\ ItemTaken(on[i]).at = object
      BY <1>2, <3>1, <3>2, StackHas DEF ItemTaken
    <3>4. Below(json, ItemTaken(on[i])).at \in C
      <4>1. CASE i = n
        BY <1>4, <4>1 DEF C
      <4>2. CASE i # n
        <5>1. i + 1 \in 1..n /\ i + 1 # 1 /\ (i + 1) - 1 = i
          BY <1>3, <3>1, <4>2
        <5>2. on[i + 1].at = Below(json, ItemTaken(on[i])).at
          BY <1>2, <5>1 DEF Opened
        <5> QED BY <2>1, <5>1, <5>2
      <4> QED BY <4>1, <4>2
    <3> QED BY <3>3, <3>4
  <2> HIDE DEF C
  <2> QED BY <2>2, <2>3, <2>4, Unbounded
<1> HIDE DEF n
<1>11. CopyInv(json, next) \/ WentOn(json, more, V, q, next)
  <2>1. /\ V \in SUBSET Places(json) /\ Counted(json, more, V) /\ Opened(json, more.path)
        /\ IsCopy(more) /\ more.verdict = "copying"
    BY <1>2, <1>7, <1>8, <1>9
  <2>2. q \in Places(json) /\ q \notin V /\ Len(more.path) = Len(q)
    BY <1>2, <1>4, <1>7, <1>8
  <2>3. next = Take(more, json, ObjectAt(json, q), KeyAt(json, q))
    BY <1>6
  <2> QED BY <2>1, <2>2, <2>3, <1>10, TakeAt
<1>12. CASE /\ Counted(json, next, V \cup {q}) /\ Len(q) < MaxDepth
            /\ IsCopy(next) /\ next.verdict = "copying"
            /\ \/ /\ json.node[ObjectAt(json, q)].kind = "scalar" /\ next.path = on
               \/ /\ json.node[ObjectAt(json, q)].kind = "container"
                  /\ next.path = Append(on, [at |-> ObjectAt(json, q), taken |-> 0])
  <2>1. /\ Opened(json, next.path) /\ next.path # <<>>
        /\ Visited(json, next.path) = Visited(json, path) \cup {q}
    <3> DEFINE object == ObjectAt(json, q)
               after == next.path
    <3>1. Len(path) < MaxDepth
      BY <1>4, <1>12 DEF n
    <3>2. object = ObjectAt(json, Trail(Onward(path)))
      BY DEF q, on
    <3>3. \/ after = Onward(path) /\ json.node[object].kind = "scalar"
          \/ /\ after = Append(Onward(path), [at |-> object, taken |-> 0])
             /\ json.node[object].kind = "container"
      BY <1>12 DEF on
    <3>4. path[Len(path)].taken < Len(json.node[path[Len(path)].at].items)
      BY <1>1 DEF n
    <3> HIDE DEF object, after, path
    <3>5. /\ Opened(json, after) /\ after # <<>>
          /\ Visited(json, after) = Visited(json, path) \cup {Trail(Onward(path))}
      BY <1>1, <3>1, <3>2, <3>3, <3>4, OnePlaceVisited
    <3> QED BY <3>5 DEF after, q, on
  <2>2. Copied(json, next.path) = V \cup {q}
    BY <2>1 DEF Copied, V
  <2> QED BY <1>12, <2>1, <2>2 DEF CopyInv, Counted
<1> QED BY <1>2, <1>8, <1>11, <1>12 DEF WentOn

\* and when a container is left.
LEMMA LeavingStep ==
  ASSUME NEW json, IsGraph(json), NEW copy, CopyInv(json, copy), copy.verdict = "copying",
         copy.path # <<>>,
         ~(copy.path[Len(copy.path)].taken < Len(json.node[copy.path[Len(copy.path)].at].items))
  PROVE  CopyInv(json, CopyStep(copy, json))
<1> DEFINE path == copy.path
           n == Len(path)
           next == CopyStep(copy, json)
<1> SUFFICES CopyInv(json, next)
  OBVIOUS
<1>1. /\ Opened(json, path) /\ Counted(json, copy, Visited(json, path))
      /\ copy = [path |-> path, nodes |-> copy.nodes, bytes |-> copy.bytes, verdict |-> "copying"]
  BY DEF CopyInv, Copied, IsCopy
<1>2. n \in Nat /\ n # 0
  BY <1>1, StackHas
<1>3. /\ Opened(json, Front(path)) /\ Len(Front(path)) = n - 1
      /\ Visited(json, Front(path)) = Visited(json, path)
  BY <1>1, LeavingVisitsNothing
<1>4. next = [copy EXCEPT !.path = Front(@), !.verdict = IF Len(copy.path) = 1 THEN "copied" ELSE @]
  <2>1. Last(path) = path[n]
    BY DEF Last
  <2> QED BY <2>1 DEF CopyStep
<1>5. /\ IsCopy(next)
      /\ next.path = Front(path) /\ next.nodes = copy.nodes /\ next.bytes = copy.bytes
      /\ next.verdict = IF n = 1 THEN "copied" ELSE "copying"
  BY <1>1, <1>4 DEF IsCopy
<1> HIDE DEF next
<1>6. Counted(json, next, Visited(json, Front(path)))
  BY <1>1, <1>3, <1>5 DEF Counted
<1>7. Front(path) = <<>> <=> n = 1
  <2>1. Front(path) = <<>> <=> Len(Front(path)) = 0
    BY <1>3, StackHas
  <2> HIDE DEF path, n
  <2> QED BY <1>2, <1>3, <2>1
<1>8. CASE n = 1
  <2>1. FitsBudget(json)
    <3>1. Front(path) = <<>>
      BY <1>7, <1>8
    <3>2. Counted(json, next, Places(json))
      BY <1>6, <3>1, EmptyStack
    <3> QED BY <3>2, AllCounted
  <2> HIDE DEF n, path
  <2> QED BY <1>3, <1>5, <1>6, <1>8, <2>1 DEF CopyInv, Counted
<1>9. CASE n # 1
  <2> HIDE DEF n, path
  <2>1. Copied(json, next.path) = Visited(json, Front(path))
    BY <1>5, <1>7, <1>9 DEF Copied
  <2> QED BY <1>3, <1>5, <1>6, <1>9, <2>1 DEF CopyInv, Counted
<1> QED BY <1>8, <1>9

\* So the copy decides what it is to decide.
THEOREM CopyDecides ==
  ASSUME NEW json, IsGraph(json), NEW copy, CopyInv(json, copy), copy.verdict = "copying"
  PROVE  CopyInv(json, CopyStep(copy, json))
  BY RootStep, ItemStep, LeavingStep

=============================================================================
