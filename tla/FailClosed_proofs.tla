-------------------------- MODULE FailClosed_proofs --------------------------
(***************************************************************************)
(* What a chain of checks returns, for every chain.                        *)
(***************************************************************************)
EXTENDS FailClosed, SequenceTheorems, WellFoundedInduction, TLAPS

\* A nonempty set of naturals has a least member, and Min picks it.
LEMMA MinNat ==
  ASSUME NEW I \in SUBSET Nat, I # {}
  PROVE  Min(I) \in I /\ \A j \in I : Min(I) <= j
<1>1. PICK m \in I : \A n \in I : m <= n
  <2>1. PICK m \in I : \A n \in I : ~(<<n, m>> \in OpToRel(<, Nat))
    BY NatLessThanWellFounded, WFMin
  <2>2. OpToRel(<, Nat) = {ss \in Nat \X Nat : ss[1] < ss[2]}
    BY Zenon DEF OpToRel
  <2>3. \A n \in I : <<n, m>> \notin {ss \in Nat \X Nat : ss[1] < ss[2]}
    BY <2>1, <2>2, Zenon
  <2>4. ASSUME NEW n \in I, n < m PROVE FALSE
    <3>1. <<n, m>> \in Nat \X Nat /\ <<n, m>>[1] = n /\ <<n, m>>[2] = m
      OBVIOUS
    <3> QED BY <2>3, <2>4, <3>1
  <2>5. \A n \in I : n \in Nat /\ m \in Nat
    OBVIOUS
  <2> QED BY <2>4, <2>5
<1> QED BY <1>1 DEF Min

\* FirstRejectedAt is the position of the first rejection, 0 when there is none.
LEMMA FirstRejectedAtPosition ==
  ASSUME NEW s, NEW n \in Nat, Len(s) = n
  PROVE  /\ FirstRejectedAt(s) \in 0..n
         /\ FirstRejectedAt(s) = 0 <=> \A i \in 1..n : s[i] = OK
         /\ FirstRejectedAt(s) # 0 =>
              /\ s[FirstRejectedAt(s)] # OK
              /\ \A j \in 1..(FirstRejectedAt(s) - 1) : s[j] = OK
<1> DEFINE I == {i \in 1..n : s[i] # OK}
<1>1. FirstRejectedAt(s) = IF I # {} THEN Min(I) ELSE 0
  BY DEF FirstRejectedAt, SelectInSeq
<1>2. CASE I = {}
  BY <1>1, <1>2
<1>3. CASE I # {}
  <2>1. Min(I) \in I /\ \A j \in I : Min(I) <= j
    BY <1>3, MinNat
  <2>2. FirstRejectedAt(s) = Min(I)
    BY <1>1, <1>3
  <2> HIDE <1>1
  <2>3. \A j \in 1..(Min(I) - 1) : j \in 1..n /\ ~(Min(I) <= j)
    BY <2>1
  <2>4. \A j \in 1..(Min(I) - 1) : s[j] = OK
    BY <2>1, <2>3
  <2> QED BY <2>1, <2>2, <2>4
<1> QED BY <1>2, <1>3

\* The outcome of a chain is OK, or that of the first check that rejects.
LEMMA FirstRejectionOutcome ==
  ASSUME NEW s, NEW n \in Nat, Len(s) = n
  PROVE  /\ FirstRejection(s) = OK <=> \A i \in 1..n : s[i] = OK
         /\ FirstRejection(s) # OK => \E i \in 1..n : FirstRejection(s) = s[i]
<1>1. FirstRejection(s) = IF FirstRejectedAt(s) = 0 THEN OK ELSE s[FirstRejectedAt(s)]
  BY DEF FirstRejection
<1> QED BY <1>1, FirstRejectedAtPosition

\* The check that rejects comes after checks that do not.
LEMMA FirstRejectionFollows ==
  ASSUME NEW s, NEW n \in Nat, Len(s) = n, FirstRejection(s) # OK
  PROVE  \E i \in 1..n : FirstRejection(s) = s[i] /\ \A j \in 1..(i - 1) : s[j] = OK
<1>1. FirstRejection(s) = IF FirstRejectedAt(s) = 0 THEN OK ELSE s[FirstRejectedAt(s)]
  BY DEF FirstRejection
<1>2. FirstRejectedAt(s) # 0
  BY <1>1
<1>3. FirstRejectedAt(s) \in 1..n /\ \A j \in 1..(FirstRejectedAt(s) - 1) : s[j] = OK
  BY <1>2, FirstRejectedAtPosition
<1> QED BY <1>1, <1>2, <1>3

\* Two chains one after the other pass when both do, and stop where one of them does.
LEMMA ConcatOutcome ==
  ASSUME NEW S, NEW s \in Seq(S), NEW t \in Seq(S)
  PROVE  /\ FirstRejection(s \o t) = OK <=> /\ \A i \in 1..Len(s) : s[i] = OK
                                           /\ \A i \in 1..Len(t) : t[i] = OK
         /\ FirstRejection(s \o t) # OK =>
              \/ \E i \in 1..Len(s) : FirstRejection(s \o t) = s[i]
              \/ \E i \in 1..Len(t) : FirstRejection(s \o t) = t[i]
<1> DEFINE m == Len(s)
           n == Len(t)
           u == s \o t
<1>1. m \in Nat /\ n \in Nat /\ m + n \in Nat
  BY LenProperties
<1>2. /\ Len(u) = m + n
      /\ \A i \in 1..(m + n) : u[i] = IF i <= m THEN s[i] ELSE t[i - m]
  BY ConcatProperties
<1> HIDE DEF u
<1>3. /\ FirstRejection(u) = OK <=> \A i \in 1..(m + n) : u[i] = OK
      /\ FirstRejection(u) # OK => \E i \in 1..(m + n) : FirstRejection(u) = u[i]
  BY <1>1, <1>2, FirstRejectionOutcome
<1> HIDE DEF m, n
<1>4. \A i \in 1..m : i \in 1..(m + n) /\ u[i] = s[i]
  BY <1>1, <1>2
<1>5. \A i \in 1..n : m + i \in 1..(m + n) /\ u[m + i] = t[i]
  <2> SUFFICES ASSUME NEW i \in 1..n PROVE m + i \in 1..(m + n) /\ u[m + i] = t[i]
    OBVIOUS
  <2> DEFINE k == m + i
  <2>1. k \in 1..(m + n) /\ ~(k <= m) /\ k - m = i
    BY <1>1
  <2> HIDE DEF k
  <2>2. u[k] = t[k - m]
    BY <1>2, <2>1
  <2>3. k \in 1..(m + n) /\ u[k] = t[i]
    BY <2>1, <2>2
  <2> QED BY <2>3 DEF k
<1>6. \A i \in 1..(m + n) : \/ i \in 1..m /\ u[i] = s[i]
                            \/ i - m \in 1..n /\ u[i] = t[i - m]
  BY <1>1, <1>2
<1>7. (\A i \in 1..(m + n) : u[i] = OK)
        <=> (\A i \in 1..m : s[i] = OK) /\ (\A i \in 1..n : t[i] = OK)
  BY <1>4, <1>5, <1>6
<1>8. FirstRejection(u) # OK => \/ \E i \in 1..m : FirstRejection(u) = s[i]
                               \/ \E i \in 1..n : FirstRejection(u) = t[i]
  BY <1>3, <1>6
<1> QED BY <1>3, <1>7, <1>8 DEF u, m, n

\* A check, then one for each member of a list.
LEMMA HeadAndEachOutcome ==
  ASSUME NEW h, Len(h) = 1, h \in Seq({h[1]}), NEW n \in Nat, NEW T, NEW g \in [1..n -> T]
  PROVE  /\ FirstRejection(h \o g) = OK <=> h[1] = OK /\ \A i \in 1..n : g[i] = OK
         /\ FirstRejection(h \o g) # OK =>
              \/ FirstRejection(h \o g) = h[1]
              \/ \E i \in 1..n : FirstRejection(h \o g) = g[i]
<1> DEFINE S == {h[1]} \cup T
<1>1. g \in Seq(S) /\ Len(g) = n /\ h \in Seq(S)
  OBVIOUS
<1> HIDE DEF S
<1>2. /\ FirstRejection(h \o g) = OK <=> /\ \A i \in 1..Len(h) : h[i] = OK
                                         /\ \A i \in 1..Len(g) : g[i] = OK
      /\ FirstRejection(h \o g) # OK =>
            \/ \E i \in 1..Len(h) : FirstRejection(h \o g) = h[i]
            \/ \E i \in 1..Len(g) : FirstRejection(h \o g) = g[i]
  BY <1>1, ConcatOutcome
<1>3. \A i : i \in 1..1 <=> i = 1
  OBVIOUS
<1>4. 1..Len(h) = 1..1 /\ 1..Len(g) = 1..n
  BY <1>1
<1> QED BY <1>2, <1>3, <1>4

=============================================================================
