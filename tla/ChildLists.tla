---------------------------- MODULE ChildLists ----------------------------
(***************************************************************************)
(* The vectors of children of web/step.cpp, which never hold a step twice: *)
(* what erase and insert make of them, how a set is put into one, and      *)
(* which of some positions is the first.  That there is a first one serves *)
(* instead of induction, in the proofs about ProofEngine too.              *)
(***************************************************************************)
EXTENDS Integers, SequencesExt, FiniteSetTheorems, SequenceTheorems, WellFoundedInduction, TLAPS

(* A child erased from, or inserted into, a vector of children *)
LEMMA Erased ==
    ASSUME NEW S, NEW q \in Seq(S), NEW i \in 1..Len(q), IsInjective(q)
    PROVE  /\ RemoveAt(q, i) \in Seq(S)
           /\ IsInjective(RemoveAt(q, i))
           /\ ToSet(RemoveAt(q, i)) = ToSet(q) \ {q[i]}
           /\ Len(RemoveAt(q, i)) = Len(q) - 1
<1> DEFINE a == SubSeq(q, 1, i - 1)
           b == SubSeq(q, i + 1, Len(q))
           r == a \o b
           was(j) == IF j < i THEN j ELSE j + 1
<1>1. a \in Seq(S) /\ Len(a) = i - 1 /\ \A j \in 1..(i - 1) : a[j] = q[j]
  BY SubSeqProperties
<1>2. b \in Seq(S) /\ Len(b) = Len(q) - i /\ \A j \in 1..(Len(q) - i) : b[j] = q[i + j]
  BY SubSeqProperties
<1> HIDE DEF a, b
<1>3. /\ r \in Seq(S) /\ Len(r) = Len(a) + Len(b)
      /\ \A j \in 1..(Len(a) + Len(b)) : r[j] = IF j <= Len(a) THEN a[j] ELSE b[j - Len(a)]
  BY <1>1, <1>2, ConcatProperties
<1> HIDE DEF r
<1>n. i \in Nat /\ Len(q) \in Nat /\ Len(r) = Len(q) - 1
  BY <1>1, <1>2, <1>3
<1>4. \A j \in 1..Len(r) : was(j) \in 1..Len(q) /\ was(j) # i /\ r[j] = q[was(j)]
  <2> TAKE j \in 1..Len(r)
  <2>1. CASE j < i
    BY <1>1, <1>2, <1>3, <1>n, <2>1
  <2>2. CASE j >= i
    <3>1. r[j] = b[j - (i - 1)]
      BY <1>1, <1>2, <1>3, <1>n, <2>2
    <3>2. j - (i - 1) \in 1..(Len(q) - i)
      BY <1>n, <2>2
    <3>3. b[j - (i - 1)] = q[i + (j - (i - 1))]
      BY <1>2, <3>2
    <3>4. i + (j - (i - 1)) = j + 1
      BY <1>n
    <3> QED  BY <1>n, <2>2, <3>1, <3>3, <3>4
  <2> QED  BY <1>n, <2>1, <2>2
<1>5. \A j \in 1..Len(q) : j # i => \E k \in 1..Len(r) : was(k) = j
  <2> TAKE j \in 1..Len(q)
  <2> HAVE j # i
  <2>1. CASE j < i
    <3>1. j \in 1..Len(r) /\ was(j) = j
      BY <1>n, <2>1
    <3> QED  BY <3>1
  <2>2. CASE j > i
    <3>1. j - 1 \in 1..Len(r) /\ was(j - 1) = j
      BY <1>n, <2>2
    <3> QED  BY <3>1
  <2> QED  BY <1>n, <2>1, <2>2
<1>6. \A j, k \in 1..Len(r) : was(j) = was(k) => j = k
  OBVIOUS
<1> HIDE DEF was
<1>7. DOMAIN q = 1..Len(q) /\ DOMAIN r = 1..Len(r)
  BY <1>3
<1>8. IsInjective(r)
  BY <1>4, <1>6, <1>7 DEF IsInjective
<1>9. ToSet(r) = ToSet(q) \ {q[i]}
  <2>1. ToSet(r) \subseteq ToSet(q) \ {q[i]}
    BY <1>4, <1>7 DEF ToSet, IsInjective
  <2>2. ToSet(q) \ {q[i]} \subseteq ToSet(r)
    BY SMTT(30), <1>4, <1>5, <1>7 DEF ToSet
  <2> QED  BY <2>1, <2>2
<1> QED  BY <1>3, <1>8, <1>9, <1>n DEF RemoveAt, r, a, b

LEMMA Inserted ==
    ASSUME NEW S, NEW q \in Seq(S), NEW i \in 1..(Len(q) + 1), NEW e \in S, IsInjective(q), e \notin ToSet(q)
    PROVE  /\ InsertAt(q, i, e) \in Seq(S)
           /\ IsInjective(InsertAt(q, i, e))
           /\ ToSet(InsertAt(q, i, e)) = ToSet(q) \union {e}
<1> DEFINE a == SubSeq(q, 1, i - 1)
           b == SubSeq(q, i, Len(q))
           c == a \o <<e>>
           r == c \o b
           was(j) == IF j < i THEN j ELSE j - 1
<1>1. a \in Seq(S) /\ Len(a) = i - 1 /\ \A j \in 1..(i - 1) : a[j] = q[j]
  BY SubSeqProperties
<1>2. b \in Seq(S) /\ Len(b) = Len(q) - i + 1 /\ \A j \in 1..(Len(q) - i + 1) : b[j] = q[i + j - 1]
  BY SubSeqProperties
<1> HIDE DEF a, b
<1>3. <<e>> \in Seq(S) /\ Len(<<e>>) = 1 /\ <<e>>[1] = e
  OBVIOUS
<1>4. /\ c \in Seq(S) /\ Len(c) = Len(a) + 1
      /\ \A j \in 1..(Len(a) + 1) : c[j] = IF j <= Len(a) THEN a[j] ELSE <<e>>[j - Len(a)]
  BY <1>1, <1>3, ConcatProperties
<1> HIDE DEF c
<1>5. /\ r \in Seq(S) /\ Len(r) = Len(c) + Len(b)
      /\ \A j \in 1..(Len(c) + Len(b)) : r[j] = IF j <= Len(c) THEN c[j] ELSE b[j - Len(c)]
  BY <1>2, <1>4, ConcatProperties
<1> HIDE DEF r
<1>6. c[i] = e
  BY <1>1, <1>3, <1>4
<1>7. i \in 1..Len(r) /\ r[i] = e
  BY <1>1, <1>2, <1>4, <1>5, <1>6
<1>8. \A j \in 1..Len(r) : j # i => was(j) \in 1..Len(q) /\ r[j] = q[was(j)]
  BY SMTT(30), <1>1, <1>2, <1>4, <1>5
<1>9. \A j \in 1..Len(q) : \E k \in 1..Len(r) : k # i /\ was(k) = j
  <2> TAKE j \in 1..Len(q)
  <2>1. CASE j < i
    BY <1>1, <1>2, <1>4, <1>5, <2>1
  <2>2. CASE j >= i
    <3>1. j + 1 \in 1..Len(r) /\ was(j + 1) = j /\ j + 1 # i
      BY <1>1, <1>2, <1>4, <1>5, <2>2
    <3> QED  BY <3>1
  <2> QED  BY <2>1, <2>2
<1>10. \A j, k \in 1..Len(r) : j # i /\ k # i /\ was(j) = was(k) => j = k
  OBVIOUS
<1> HIDE DEF was
<1>11. DOMAIN q = 1..Len(q) /\ DOMAIN r = 1..Len(r)
  BY <1>5
<1>12. IsInjective(r)
  BY <1>7, <1>8, <1>10, <1>11 DEF IsInjective, ToSet
<1>13. ToSet(r) = ToSet(q) \union {e}
  BY SMTT(30), <1>7, <1>8, <1>9, <1>11 DEF ToSet
<1> QED  BY <1>5, <1>12, <1>13 DEF InsertAt, r, a, b, c

(* A vector of as many different members as a set has *)
LEMMA Enumerated ==
    ASSUME NEW S, IsFiniteSet(S), NEW f \in [1..Cardinality(S) -> S], IsInjective(f)
    PROVE  f \in Seq(S) /\ ToSet(f) = S
<1> DEFINE n == Cardinality(S)
<1>1. n \in Nat
  BY FS_CardinalityType
<1>2. IsFiniteSet(1..n) /\ Cardinality(1..n) = n
  BY <1>1, FS_Interval
<1> HIDE DEF n
<1>3. f \in [1..n -> S]
  BY DEF n
<1>4. f \in Injection(1..n, S)
  BY <1>3 DEF Injection
<1>5. f \in Surjection(1..n, S)
  BY <1>2, <1>4, FS_Injection DEF n
<1>6. ToSet(f) = S
  BY <1>3, <1>5 DEF Surjection, ToSet
<1>7. f \in Seq(S)
  BY <1>1, <1>3, SeqDef
<1> QED  BY <1>6, <1>7

LEMMA Listed ==
    ASSUME NEW S, IsFiniteSet(S)
    PROVE  SetToSeq(S) \in Seq(S) /\ IsInjective(SetToSeq(S)) /\ ToSet(SetToSeq(S)) = S
<1>1. \E g \in [1..Cardinality(S) -> S] : IsInjective(g)
  BY FS_CardinalityType DEF ExistsBijection, Bijection, Injection
<1>2. SetToSeq(S) \in [1..Cardinality(S) -> S] /\ IsInjective(SetToSeq(S))
  BY <1>1 DEF SetToSeq
<1> QED  BY <1>2, Enumerated

(* A set of positions, or of numbers of any kind, has a first one. *)
LEMMA Least ==
    ASSUME NEW S \in SUBSET Nat, S # {}
    PROVE  \E n \in S : \A m \in S : n <= m
<1> DEFINE R  == StrictSubsetOrdering(Nat)
           Up == {1..n : n \in S}
<1>1. IsWellFoundedOn(R, FiniteSubsetsOf(Nat))
  BY FS_StrictSubsetOrderingWellFounded
<1>2. Up \subseteq FiniteSubsetsOf(Nat) /\ Up # {}
  <2>1. \A n \in Nat : 1..n \in FiniteSubsetsOf(Nat)
    BY FS_Interval, SMT DEF FiniteSubsetsOf
  <2> QED  BY <2>1
<1>3. \E x \in Up : \A y \in Up : ~(<<y, x>> \in R)
  <2> HIDE DEF R, Up
  <2> QED  BY <1>1, <1>2, WFMin
<1>4. PICK n \in S : \A m \in S : ~(<<1..m, 1..n>> \in R)
  BY <1>3
<1>5. ASSUME NEW m \in S, m < n
      PROVE  FALSE
  <2>1. 1..m \in SUBSET Nat /\ 1..n \in SUBSET Nat /\ 1..m \subseteq 1..n
    BY <1>5, SMT
  <2>2. n \in 1..n /\ n \notin 1..m
    BY <1>5, SMT
  <2>3. <<1..m, 1..n>> \in R
    BY <2>1, <2>2 DEF StrictSubsetOrdering
  <2> QED  BY <1>4, <2>3
<1> QED  BY <1>5, SMT

=============================================================================
