-------------------------- MODULE ProofEngineProofs --------------------------
(***************************************************************************)
(* Proofs about ProofEngine, for any library and any bounds: the types, the *)
(* agreement of the stacks, the refinement of Checkpoints, that no distinct *)
(* variable constraint is lost, and that trees and labels describe the      *)
(* stack.                                                                   *)
(***************************************************************************)
EXTENDS ProofEngine, ChildLists

(* Cutting a sequence *)
LEMMA ResizedIsPrefix ==
    ASSUME NEW S, NEW s \in Seq(S), NEW n \in Nat
    PROVE  /\ Resized(s, n) \in Seq(S)
           /\ Len(Resized(s, n)) = IF n <= Len(s) THEN n ELSE Len(s)
           /\ \A i \in 1..Len(Resized(s, n)) : Resized(s, n)[i] = s[i]
<1> DEFINE m == IF n <= Len(s) THEN n ELSE Len(s)
<1>1. m \in 0..Len(s)
  OBVIOUS
<1>2. \A i \in 1..m : s[i] \in S
  BY <1>1
<1>3. /\ SubSeq(s, 1, m) \in Seq(S)
      /\ Len(SubSeq(s, 1, m)) = m
      /\ \A i \in 1..m : SubSeq(s, 1, m)[i] = s[i]
  <2>1. m \in Int /\ 1 \in Int
    BY <1>1
  <2> HIDE DEF m
  <2>2. /\ SubSeq(s, 1, m) \in Seq(S)
        /\ Len(SubSeq(s, 1, m)) = IF 1 <= m THEN m - 1 + 1 ELSE 0
        /\ \A i \in 1..(m - 1 + 1) : SubSeq(s, 1, m)[i] = s[1 + i - 1]
    BY <1>2, <2>1, SubSeqProperties
  <2> QED  BY <1>1, <2>2
<1> QED  BY <1>3 DEF Resized

LEMMA ResizedIsEqual ==
    ASSUME NEW S, NEW s \in Seq(S), NEW t \in Seq(S), NEW n \in Nat,
           n <= Len(s), n <= Len(t), \A i \in 1..n : s[i] = t[i]
    PROVE  Resized(s, n) = Resized(t, n)
<1>1. /\ Resized(s, n) \in Seq(S) /\ Resized(t, n) \in Seq(S)
      /\ Len(Resized(s, n)) = n /\ Len(Resized(t, n)) = n
      /\ \A i \in 1..n : Resized(s, n)[i] = Resized(t, n)[i]
  BY ResizedIsPrefix
<1> QED  BY <1>1, SeqEqual

(* What comes after the cut does not count, nor does a longer cut before. *)
LEMMA ResizedAppend ==
    ASSUME NEW S, NEW s \in Seq(S), NEW e \in S, NEW n \in 0..Len(s)
    PROVE  Resized(Append(s, e), n) = Resized(s, n)
<1>1. /\ Append(s, e) \in Seq(S) /\ Len(Append(s, e)) = Len(s) + 1
      /\ \A i \in 1..n : Append(s, e)[i] = s[i]
  BY AppendProperties
<1>2. n \in Nat /\ n <= Len(s) /\ n <= Len(Append(s, e))
  BY <1>1
<1> HIDE DEF Resized
<1> QED  BY <1>1, <1>2, ResizedIsEqual

LEMMA ResizedTwice ==
    ASSUME NEW S, NEW s \in Seq(S), NEW m \in 0..Len(s), NEW n \in 0..m
    PROVE  Resized(Resized(s, m), n) = Resized(s, n)
<1>1. /\ Resized(s, m) \in Seq(S) /\ Len(Resized(s, m)) = m
      /\ \A i \in 1..n : Resized(s, m)[i] = s[i]
  BY ResizedIsPrefix
<1> QED  BY <1>1, ResizedIsEqual

LEMMA ResizedPush ==
    ASSUME NEW S, NEW s \in Seq(S), NEW e \in S, NEW m \in 0..Len(s), NEW n \in 0..m
    PROVE  Resized(Append(Resized(s, m), e), n) = Resized(s, n)
<1> DEFINE t == Resized(s, m)
<1>1. t \in Seq(S) /\ Len(t) = m
  BY ResizedIsPrefix
<1>2. Resized(t, n) = Resized(s, n)
  BY ResizedTwice
<1> HIDE DEF t
<1>3. Resized(Append(t, e), n) = Resized(t, n)
  BY <1>1, ResizedAppend
<1> QED  BY <1>2, <1>3 DEF t

LEMMA ResizedFull ==
    ASSUME NEW S, NEW s \in Seq(S)
    PROVE  Resized(s, Len(s)) = s
BY SubSeqFull DEF Resized

LEMMA FrontIsPrefix ==
    ASSUME NEW S, NEW s \in Seq(S), s # <<>>
    PROVE  /\ Front(s) \in Seq(S) /\ Len(s) \in Nat \ {0} /\ Len(Front(s)) = Len(s) - 1
           /\ \A i \in 1..(Len(s) - 1) : Front(s)[i] = s[i]
           /\ Last(s) = s[Len(s)] /\ Last(s) \in S
<1>1. Len(s) \in Nat \ {0}
  BY EmptySeq
<1>2. Front(s) = Resized(s, Len(s) - 1)
  BY <1>1 DEF Front, Resized
<1> QED  BY <1>1, <1>2, ResizedIsPrefix DEF Last

-----------------------------------------------------------------------------
(* A checkpoint records sizes that are not above the present ones, nor      *)
(* above those of the checkpoints set after it.                             *)
Below(c, d) == c.stack <= d.stack /\ c.proof <= d.proof /\ c.saved <= d.saved

Present == [stack |-> Len(stack), proof |-> Len(proof), saved |-> Len(saved)]

Nested ==
    /\ \A k \in 1..Len(checkpoints) : \A j \in 1..k : Below(checkpoints[j], checkpoints[k])
    /\ ~broken => \A k \in 1..Len(checkpoints) : Below(checkpoints[k], Present)

LEMMA BelowTransitive ==
    ASSUME NEW c \in Sizes, NEW d \in Sizes, NEW e \in Sizes, Below(c, d), Below(d, e)
    PROVE  Below(c, e)
BY DEF Below, Sizes

TreesSeq == \E S : trees \in Seq(S)

IInv == TypeOK /\ TreesSeq /\ StacksAgree /\ Nested

LEMMA InitIInv == Init => IInv
<1> SUFFICES ASSUME Init PROVE IInv
  OBVIOUS
<1>1. TypeOK
  <2>1. \A S : <<>> \in Seq(S) /\ 1..Len(<<>>) = {}
    BY EmptySeq
  <2>2. \A i \in 1..Len(trees) : trees[i].sentence \in Sentences
    BY <2>1 DEF Init
  <2> QED  BY <2>1, <2>2 DEF Init, TypeOK
<1>2. TreesSeq
  BY EmptySeq DEF Init, TreesSeq
<1>3. StacksAgree /\ Nested
  BY DEF Init, StacksAgree, Nested
<1> QED  BY <1>1, <1>2, <1>3 DEF IInv

-----------------------------------------------------------------------------
(* The parts of the invariant about the stacks, for the operations that     *)
(* push: their trees, and what is below the present sizes.                  *)
TreesOK == \A i \in 1..Len(trees) : trees[i].sentence \in Sentences

LEMMA KeptTree ==
    ASSUME TreesSeq, NEW s \in Sentences, NEW l, NEW n \in Nat,
           TreesOK, KeepTree(s, l, Resized(trees, n)), UNCHANGED genProofTree
    PROVE  /\ TreesSeq' /\ TreesOK'
           /\ genProofTree => Len(trees') = (IF n <= Len(trees) THEN n ELSE Len(trees)) + 1
<1>1. PICK S : trees \in Seq(S)
  BY DEF TreesSeq
<1>2. CASE ~genProofTree
  BY <1>2 DEF KeepTree, TreesSeq, TreesOK
<1>3. CASE genProofTree
  <2> DEFINE tree == [sentence |-> s, labels |-> IF client = "executor" THEN l ELSE <<>>]
             T    == S \union {tree}
             kept == Resized(trees, n)
  <2>1. kept \in Seq(T)
    <3>1. kept \in Seq(S)
      BY <1>1, ResizedIsPrefix
    <3> QED  BY <3>1, SeqMonotonic
  <2>2. /\ Len(kept) = IF n <= Len(trees) THEN n ELSE Len(trees)
        /\ \A i \in 1..Len(kept) : kept[i] = trees[i]
    BY <1>1, ResizedIsPrefix
  <2>3. trees' = Append(kept, tree)
    BY <1>3 DEF KeepTree
  <2>4. tree.sentence \in Sentences
    OBVIOUS
  <2> HIDE DEF kept, tree
  <2>5. /\ Append(kept, tree) \in Seq(T) /\ Len(Append(kept, tree)) = Len(kept) + 1
        /\ \A i \in 1..Len(kept) : Append(kept, tree)[i] = kept[i]
        /\ Append(kept, tree)[Len(kept) + 1] = tree
    BY <2>1, AppendProperties
  <2>6. TreesSeq'
    BY <2>3, <2>5 DEF TreesSeq
  <2>7. Len(kept) \in Nat /\ Len(kept) <= Len(trees)
    BY <1>1, <2>1, <2>2
  <2>8. \A i \in 1..(Len(kept) + 1) : trees'[i].sentence \in Sentences
    BY <1>1, <2>2, <2>3, <2>4, <2>5, <2>7 DEF TreesOK
  <2> QED  BY <2>2, <2>3, <2>5, <2>6, <2>8 DEF TreesOK
<1> QED  BY <1>2, <1>3

LEMMA NestedKept ==
    ASSUME Nested, UNCHANGED <<checkpoints, broken>>,
           ~broken => \A k \in 1..Len(checkpoints) : Below(checkpoints[k], Present')
    PROVE  Nested'
BY DEF Nested

(* process_sentence *)
LEMMA Pushed ==
    ASSUME IInv, NEW s \in Sentences, NEW label \in Labels, ProcessSentence(s, label),
           UNCHANGED <<genProofTree, saved, checkpoints, broken>>
    PROVE  /\ stack' \in Seq(Sentences) /\ Len(stack') = Len(stack) + 1
           /\ dists' \in Seq(SUBSET Pairs)
           /\ proof' \in Seq(Labels) /\ Len(proof') = Len(proof) + 1
           /\ TreesOK' /\ TreesSeq' /\ StacksAgree' /\ Nested'
<1>1. /\ stack' \in Seq(Sentences) /\ Len(stack') = Len(stack) + 1
      /\ dists' \in Seq(SUBSET Pairs) /\ Len(dists') = Len(dists) + 1
      /\ proof' \in Seq(Labels) /\ Len(proof') = Len(proof) + 1
  BY AppendProperties DEF ProcessSentence, IInv, TypeOK
<1>2. /\ TreesSeq' /\ TreesOK'
      /\ genProofTree => Len(trees') = Len(trees) + 1
  <2>1. PICK S : trees \in Seq(S)
    BY DEF IInv, TreesSeq
  <2>2. Resized(trees, Len(trees)) = trees /\ Len(trees) \in Nat
    BY <2>1, ResizedFull
  <2>3. KeepTree(s, <<label>>, Resized(trees, Len(trees)))
    BY <2>2 DEF ProcessSentence
  <2>4. TreesSeq /\ TreesOK
    BY DEF IInv, TypeOK, TreesOK
  <2> QED  BY <2>2, <2>3, <2>4, KeptTree
<1>3. StacksAgree'
  <2>1. /\ Len(stack) \in Nat /\ Len(trees) \in Nat
        /\ Len(dists) = Len(stack) /\ (genProofTree => Len(trees) >= Len(stack))
    BY DEF IInv, TypeOK, TreesSeq, StacksAgree
  <2> QED  BY <1>1, <1>2, <2>1 DEF StacksAgree
<1>4. Nested'
  <2>1. ~broken => \A k \in 1..Len(checkpoints) : Below(checkpoints[k], Present')
    <3> SUFFICES ASSUME ~broken, NEW k \in 1..Len(checkpoints) PROVE Below(checkpoints[k], Present')
      OBVIOUS
    <3>1. Below(checkpoints[k], Present) /\ checkpoints[k] \in Sizes
      BY ElementOfSeq DEF IInv, Nested, TypeOK
    <3>2. Len(stack) \in Nat /\ Len(proof) \in Nat /\ Len(saved) \in Nat
      BY DEF IInv, TypeOK
    <3> QED  BY <1>1, <3>1, <3>2 DEF Below, Present, Sizes
  <2> QED  BY <2>1, NestedKept DEF IInv
<1> QED  BY <1>1, <1>2, <1>3, <1>4

(* process_assertion: what stays is never below a checkpoint, unless the    *)
(* engine breaks.                                                           *)
LEMMA AssertionSizes ==
    ASSUME IInv, NEW a \in Assertions, Accepted(a, Len(stack) - Mandatory(a))
    PROVE  /\ Mandatory(a) \in Nat
           /\ Len(stack) - Mandatory(a) \in 0..Len(stack)
           /\ ~broken /\ ~Underflow(Len(stack) - Mandatory(a)) =>
                 \A k \in 1..Len(checkpoints) : checkpoints[k].stack <= Len(stack) - Mandatory(a)
<1>1. Mandatory(a) \in Nat /\ Len(stack) \in Nat
  BY LibraryAssumption DEF Mandatory, IInv, TypeOK
<1>2. Len(stack) - Mandatory(a) \in 0..Len(stack)
  BY <1>1 DEF Accepted
<1>3. ASSUME ~broken, ~Underflow(Len(stack) - Mandatory(a)), NEW k \in 1..Len(checkpoints)
      PROVE  checkpoints[k].stack <= Len(stack) - Mandatory(a)
  <2>1. checkpoints \in Seq(Sizes) /\ checkpoints # <<>>
    BY <1>3, EmptySeq DEF IInv, TypeOK
  <2>2. /\ Len(checkpoints) \in Nat \ {0} /\ Last(checkpoints) \in Sizes
        /\ Last(checkpoints) = checkpoints[Len(checkpoints)]
    BY <2>1, FrontIsPrefix
  <2>3. Len(checkpoints) \in 1..Len(checkpoints) /\ k \in 1..Len(checkpoints)
    BY <1>3, <2>2
  <2>4. Below(checkpoints[k], Last(checkpoints))
    BY <2>2, <2>3 DEF IInv, Nested
  <2>5. checkpoints[k] \in Sizes
    BY <1>3, <2>1, ElementOfSeq
  <2>6. checkpoints[k].stack \in Nat /\ Last(checkpoints).stack \in Nat
    BY <2>2, <2>5 DEF Sizes
  <2> QED  BY <1>2, <1>3, <2>1, <2>4, <2>6 DEF Underflow, Below
<1> QED  BY <1>1, <1>2, <1>3

LEMMA NewDistsTyped ==
    ASSUME IInv, NEW a \in Assertions, NEW base \in Nat
    PROVE  NewDists(a, base) \in SUBSET Pairs
<1>1. Floats[a] \in Nat /\ Imposed[a] \subseteq Pairs
  BY LibraryAssumption
<1>2. dists \in Seq(SUBSET Pairs)
  BY DEF IInv, TypeOK
<1>3. \A i \in (base + Floats[a] + 1)..Len(dists) : dists[i] \in SUBSET Pairs
  BY <1>1, <1>2, ElementOfSeq
<1>4. From(dists, base + Floats[a]) \in Seq(SUBSET Pairs)
  <2>1. base + Floats[a] + 1 \in Int /\ Len(dists) \in Int
    BY <1>1, <1>2
  <2> QED  BY <1>3, <2>1, SubSeqProperties DEF From
<1>5. ToSet(From(dists, base + Floats[a])) \subseteq SUBSET Pairs
  BY <1>4, ElementOfSeq DEF ToSet
<1> QED  BY <1>1, <1>5 DEF NewDists

LEMMA AssertionPushed ==
    ASSUME IInv, NEW a \in Assertions, ProcessAssertion(a)
    PROVE  /\ stack' \in Seq(Sentences) /\ dists' \in Seq(SUBSET Pairs)
           /\ proof' \in Seq(Labels) /\ broken' \in BOOLEAN
           /\ TreesOK' /\ TreesSeq' /\ StacksAgree' /\ Nested'
<1> DEFINE base   == Len(stack) - Mandatory(a)
           thesis == Thesis[a][From(stack, base)]
<1>1. Accepted(a, base) /\ thesis \in Sentences /\ ~broken
  BY DEF ProcessAssertion, Accepted, Room
<1>2. base \in 0..Len(stack) /\ base \in Nat
  BY <1>1, AssertionSizes
<1>3. /\ stack \in Seq(Sentences) /\ dists \in Seq(SUBSET Pairs) /\ proof \in Seq(Labels)
      /\ Len(dists) = Len(stack) /\ (genProofTree => Len(trees) >= Len(stack))
      /\ TreesOK /\ TreesSeq
  BY DEF IInv, TypeOK, StacksAgree, TreesOK
<1>4. /\ Resized(stack, base) \in Seq(Sentences) /\ Len(Resized(stack, base)) = base
      /\ Resized(dists, base) \in Seq(SUBSET Pairs) /\ Len(Resized(dists, base)) = base
  BY <1>2, <1>3, ResizedIsPrefix
<1> HIDE DEF base, thesis
<1>5. CASE Underflow(base)
  <2>1. /\ stack' = Resized(stack, base) /\ dists' = Resized(dists, base)
        /\ broken' = TRUE /\ UNCHANGED <<proof, trees, checkpoints, genProofTree>>
    BY <1>5 DEF ProcessAssertion, base, setup
  <2>2. TreesOK' /\ TreesSeq'
    BY <1>3, <2>1 DEF TreesOK, TreesSeq
  <2>3. StacksAgree'
    <3>1. Len(trees) \in Nat
      BY <1>3 DEF TreesSeq
    <3> QED  BY <1>2, <1>3, <1>4, <2>1, <3>1 DEF StacksAgree
  <2>4. Nested'
    BY <2>1 DEF IInv, Nested
  <2> QED  BY <1>3, <1>4, <2>1, <2>2, <2>3, <2>4
<1>6. CASE ~Underflow(base)
  <2>1. /\ stack' = Append(Resized(stack, base), thesis)
        /\ dists' = Append(Resized(dists, base), NewDists(a, base))
        /\ KeepTree(thesis, Postorder(a, base), Resized(trees, base))
        /\ proof' = Append(proof, a)
        /\ UNCHANGED <<broken, checkpoints, genProofTree, saved>>
    BY <1>6 DEF ProcessAssertion, base, thesis, setup, TreesBelow
  <2>2. NewDists(a, base) \in SUBSET Pairs
    BY <1>2, NewDistsTyped
  <2>3. a \in Labels
    BY DEF Labels
  <2>4. /\ stack' \in Seq(Sentences) /\ Len(stack') = base + 1
        /\ dists' \in Seq(SUBSET Pairs) /\ Len(dists') = base + 1
        /\ proof' \in Seq(Labels) /\ Len(proof') = Len(proof) + 1
    BY <1>1, <1>3, <1>4, <2>1, <2>2, <2>3, AppendProperties
  <2>5. /\ TreesSeq' /\ TreesOK'
        /\ genProofTree => Len(trees') = (IF base <= Len(trees) THEN base ELSE Len(trees)) + 1
    BY <1>1, <1>2, <1>3, <2>1, KeptTree
  <2>6. StacksAgree'
    <3>1. Len(trees) \in Nat /\ Len(stack) \in Nat
      BY <1>3 DEF TreesSeq
    <3> QED  BY <1>2, <1>3, <2>1, <2>4, <2>5, <3>1 DEF StacksAgree
  <2>7. Nested'
    <3> SUFFICES ASSUME NEW k \in 1..Len(checkpoints) PROVE Below(checkpoints[k], Present')
      BY <2>1, NestedKept DEF IInv
    <3>1. checkpoints[k].stack <= base
      BY <1>1, <1>6, AssertionSizes DEF base
    <3>2. Below(checkpoints[k], Present) /\ checkpoints[k] \in Sizes
      BY <1>1, ElementOfSeq DEF IInv, Nested, TypeOK
    <3>3. Len(proof) \in Nat /\ Len(saved) \in Nat
      BY DEF IInv, TypeOK
    <3> QED  BY <1>2, <2>1, <2>4, <3>1, <3>2, <3>3 DEF Below, Present, Sizes
  <2> QED  BY <2>1, <2>4, <2>5, <2>6, <2>7 DEF IInv, TypeOK
<1> QED  BY <1>5, <1>6

(* create_new_hypothesis: the label found for a sentence.  The hypotheses   *)
(* asked for before keep theirs.                                            *)
Grown(new, old) == Len(old) <= Len(new) /\ \A k \in 1..Len(old) : new[k] = old[k]

LEMMA HypothesisFound ==
    ASSUME IInv, NEW s \in Sentences, ProcessNewHypothesis(s)
    PROVE  /\ hyps' \in Seq(Sentences) /\ Grown(hyps', hyps)
           /\ \E k \in DOMAIN hyps' : hyps'[k] = s
<1>0. hyps \in Seq(Sentences) /\ Len(hyps) \in Nat
  BY DEF IInv, TypeOK
<1>1. CASE s \in ToSet(hyps)
  BY <1>0, <1>1 DEF ProcessNewHypothesis, ToSet, Grown
<1>2. CASE s \notin ToSet(hyps)
  <2>1. hyps' = Append(hyps, s)
    BY <1>2 DEF ProcessNewHypothesis
  <2>2. /\ hyps' \in Seq(Sentences) /\ Len(hyps') = Len(hyps) + 1
        /\ \A k \in 1..Len(hyps) : hyps'[k] = hyps[k]
        /\ hyps'[Len(hyps) + 1] = s
    BY <1>0, <2>1, AppendProperties
  <2>3. Len(hyps) + 1 \in DOMAIN hyps'
    BY <1>0, <2>2
  <2> QED  BY <1>0, <2>2, <2>3 DEF Grown
<1> QED  BY <1>1, <1>2

LEMMA NewLabel ==
    ASSUME IInv, NEW s \in Sentences, ProcessNewHypothesis(s)
    PROVE  /\ hyps' \in Seq(Sentences)
           /\ Temp(CHOOSE k \in DOMAIN hyps' : hyps'[k] = s) \in Labels \cap [1..1 -> Nat]
<1>1. hyps' \in Seq(Sentences) /\ \E k \in DOMAIN hyps' : hyps'[k] = s
  BY HypothesisFound
<1> DEFINE k == CHOOSE k \in DOMAIN hyps' : hyps'[k] = s
<1>2. k \in DOMAIN hyps' /\ DOMAIN hyps' \subseteq Nat
  BY <1>1
<1> HIDE DEF k
<1>3. Temp(k) \in [1..1 -> Nat]
  BY <1>2 DEF Temp
<1> QED  BY <1>1, <1>3 DEF Labels, k

(* commit and rollback: the checkpoints that remain *)
LEMMA FrontNested ==
    ASSUME IInv, checkpoints # <<>>
    PROVE  /\ Front(checkpoints) \in Seq(Sizes) /\ Last(checkpoints) \in Sizes
           /\ \A k \in 1..Len(Front(checkpoints)) :
                 /\ k \in 1..Len(checkpoints) /\ Front(checkpoints)[k] = checkpoints[k]
                 /\ Below(checkpoints[k], Last(checkpoints))
           /\ ~broken => Below(Last(checkpoints), Present)
<1>1. checkpoints \in Seq(Sizes)
  BY DEF IInv, TypeOK
<1>2. /\ Front(checkpoints) \in Seq(Sizes) /\ Len(checkpoints) \in Nat \ {0}
      /\ Len(Front(checkpoints)) = Len(checkpoints) - 1
      /\ \A i \in 1..(Len(checkpoints) - 1) : Front(checkpoints)[i] = checkpoints[i]
      /\ Last(checkpoints) = checkpoints[Len(checkpoints)] /\ Last(checkpoints) \in Sizes
  BY <1>1, FrontIsPrefix
<1>3. Len(checkpoints) \in 1..Len(checkpoints)
  BY <1>2
<1> QED  BY <1>2, <1>3 DEF IInv, Nested

LEMMA CheckpointNested ==
    ASSUME IInv, Checkpoint
    PROVE  checkpoints' \in Seq(Sizes) /\ Nested'
<1>1. checkpoints \in Seq(Sizes) /\ Present \in Sizes
  BY DEF IInv, TypeOK, Present, Sizes
<1>2. checkpoints' = Append(checkpoints, Present) /\ Present' = Present /\ ~broken /\ ~broken'
  BY DEF Checkpoint, Present
<1>3. /\ checkpoints' \in Seq(Sizes) /\ Len(checkpoints') = Len(checkpoints) + 1
      /\ \A i \in 1..Len(checkpoints) : checkpoints'[i] = checkpoints[i]
      /\ checkpoints'[Len(checkpoints) + 1] = Present
  BY <1>1, <1>2, AppendProperties
<1>4. Below(Present, Present)
  BY <1>1 DEF Below, Sizes
<1>5. \A k \in 1..Len(checkpoints') : Below(checkpoints'[k], Present)
  BY <1>1, <1>2, <1>3, <1>4 DEF IInv, Nested
<1>6. \A k \in 1..Len(checkpoints') : \A j \in 1..k : Below(checkpoints'[j], checkpoints'[k])
  <2> SUFFICES ASSUME NEW k \in 1..Len(checkpoints'), NEW j \in 1..k
               PROVE  Below(checkpoints'[j], checkpoints'[k])
    OBVIOUS
  <2>1. CASE k = Len(checkpoints) + 1
    <3>1. j \in 1..Len(checkpoints')
      BY <1>1
    <3> QED  BY <1>3, <1>5, <2>1, <3>1
  <2>2. CASE k # Len(checkpoints) + 1
    <3>1. k \in 1..Len(checkpoints) /\ j \in 1..Len(checkpoints)
      BY <1>1, <1>3, <2>2
    <3> QED  BY <1>3, <3>1 DEF IInv, Nested
  <2> QED  BY <2>1, <2>2
<1> QED  BY <1>2, <1>3, <1>5, <1>6 DEF Nested

LEMMA FrontKeepsNested ==
    ASSUME IInv, checkpoints # <<>>, checkpoints' = Front(checkpoints), ~broken, ~broken',
           Below(Last(checkpoints), Present') , Present' \in Sizes
    PROVE  checkpoints' \in Seq(Sizes) /\ Nested'
<1>1. checkpoints' \in Seq(Sizes) /\ Last(checkpoints) \in Sizes
  BY FrontNested
<1>2. ASSUME NEW k \in 1..Len(checkpoints')
      PROVE  /\ Below(checkpoints'[k], Present')
             /\ \A j \in 1..k : Below(checkpoints'[j], checkpoints'[k])
  <2>1. \A j \in 1..k : j \in 1..Len(checkpoints')
    BY <1>1
  <2>2. \A j \in 1..k : j \in 1..Len(checkpoints) /\ checkpoints'[j] = checkpoints[j]
    BY <2>1, FrontNested
  <2>3. /\ k \in 1..Len(checkpoints) /\ checkpoints'[k] = checkpoints[k]
        /\ Below(checkpoints[k], Last(checkpoints))
    BY FrontNested
  <2>4. checkpoints[k] \in Sizes
    BY <2>3, ElementOfSeq DEF IInv, TypeOK
  <2>5. Below(checkpoints[k], Present')
    BY <1>1, <2>3, <2>4, BelowTransitive
  <2> QED  BY <2>2, <2>3, <2>5 DEF IInv, Nested
<1> QED  BY <1>1, <1>2 DEF Nested

-----------------------------------------------------------------------------
(* What rollback leaves *)
LEMMA RollbackSizes ==
    ASSUME IInv, Rollback
    PROVE  /\ stack' \in Seq(Sentences) /\ dists' \in Seq(SUBSET Pairs)
           /\ proof' \in Seq(Labels) /\ saved' \in Seq(Sentences)
           /\ Len(stack') = Last(checkpoints).stack /\ Len(dists') = Last(checkpoints).stack
           /\ Len(proof') = Last(checkpoints).proof /\ Len(saved') = Last(checkpoints).saved
           /\ Len(stack') <= Len(stack)
<1>1. checkpoints # <<>> /\ ~broken
  BY DEF Rollback
<1>2. Last(checkpoints) \in Sizes /\ Below(Last(checkpoints), Present)
  BY <1>1, FrontNested
<1>3. /\ Last(checkpoints).stack \in Nat /\ Last(checkpoints).stack <= Len(stack)
      /\ Last(checkpoints).proof \in Nat /\ Last(checkpoints).proof <= Len(proof)
      /\ Last(checkpoints).saved \in Nat /\ Last(checkpoints).saved <= Len(saved)
  BY <1>2 DEF Sizes, Below, Present
<1>4. /\ stack \in Seq(Sentences) /\ dists \in Seq(SUBSET Pairs) /\ Len(dists) = Len(stack)
      /\ proof \in Seq(Labels) /\ saved \in Seq(Sentences)
  BY DEF IInv, TypeOK, StacksAgree
<1>5. /\ stack' = Resized(stack, Last(checkpoints).stack)
      /\ dists' = Resized(dists, Last(checkpoints).stack)
      /\ proof' = Resized(proof, Last(checkpoints).proof)
      /\ saved' = Resized(saved, Last(checkpoints).saved)
  BY DEF Rollback
<1> QED  BY <1>3, <1>4, <1>5, ResizedIsPrefix

(* The trees do not change, and the stacks agree at the same or a smaller   *)
(* size.                                                                    *)
LEMMA TreesKept ==
    ASSUME IInv, UNCHANGED <<trees, genProofTree>>, Len(dists') = Len(stack'),
           Len(stack') \in Nat, Len(stack') <= Len(stack)
    PROVE  TreesSeq' /\ StacksAgree' /\ TreesOK'
<1>1. Len(trees) \in Nat /\ Len(stack) \in Nat
  BY DEF IInv, TypeOK, TreesSeq
<1>2. StacksAgree'
  BY <1>1 DEF IInv, StacksAgree
<1> QED  BY <1>2 DEF IInv, TypeOK, TreesSeq, TreesOK

LEMMA NextIInv == IInv /\ [Next]_vars => IInv'
<1> SUFFICES ASSUME IInv, [Next]_vars PROVE IInv'
  OBVIOUS
<1> USE DEF TreesOK
<1>1. CASE \E h \in Hypotheses : ProcessHypothesis(h)
  <2>1. PICK h \in Hypotheses : ProcessHypothesis(h)
    BY <1>1
  <2>2. Statement[h] \in Sentences /\ h \in Labels
    BY LibraryAssumption DEF Labels
  <2>3. ProcessSentence(Statement[h], h) /\ UNCHANGED <<setup, saved, checkpoints, hyps, broken>>
    BY <2>1 DEF ProcessHypothesis
  <2> QED  BY <2>2, <2>3, Pushed DEF IInv, TypeOK, setup
<1>2. CASE \E s \in Wanted : ProcessNewHypothesis(s)
  <2>1. PICK s \in Sentences : ProcessNewHypothesis(s)
    BY <1>2, LibraryAssumption
  <2> DEFINE l == Temp(CHOOSE k \in DOMAIN hyps' : hyps'[k] = s)
  <2>2. l \in Labels /\ hyps' \in Seq(Sentences)
    BY <2>1, NewLabel
  <2>3. ProcessSentence(s, l) /\ UNCHANGED <<setup, saved, checkpoints, broken>>
    BY <2>1 DEF ProcessNewHypothesis
  <2> HIDE DEF l
  <2> QED  BY <2>2, <2>3, Pushed DEF IInv, TypeOK, setup
<1>3. CASE \E a \in Assertions : ProcessAssertion(a)
  <2>1. PICK a \in Assertions : ProcessAssertion(a)
    BY <1>3
  <2>2. UNCHANGED <<setup, saved, checkpoints, hyps>>
    BY <2>1 DEF ProcessAssertion
  <2> QED  BY <2>1, <2>2, AssertionPushed DEF IInv, TypeOK, setup
<1>4. CASE SaveStep
  <2>1. saved' \in Seq(Sentences) /\ broken' \in BOOLEAN /\ (~broken' => Len(saved) <= Len(saved'))
    <3>1. /\ stack \in Seq(Sentences) /\ saved \in Seq(Sentences) /\ broken = FALSE
      BY <1>4 DEF SaveStep, IInv, TypeOK
    <3>2. ASSUME NEW s \in Sentences, saved' = Append(saved, s)
          PROVE  saved' \in Seq(Sentences) /\ Len(saved) <= Len(saved')
      BY <3>1, <3>2, AppendProperties
    <3>3. stack # <<>> => Last(stack) \in Sentences
      BY <3>1, FrontIsPrefix
    <3> QED  BY <1>4, <3>1, <3>2, <3>3 DEF SaveStep
  <2>2. UNCHANGED <<setup, stack, dists, proof, trees, checkpoints, hyps>> /\ ~broken
    BY <1>4 DEF SaveStep
  <2>3. TreesSeq' /\ StacksAgree' /\ TreesOK'
    BY <2>2 DEF IInv, TypeOK, TreesSeq, StacksAgree, setup
  <2>4. Nested'
    <3> SUFFICES ASSUME ~broken', NEW k \in 1..Len(checkpoints) PROVE Below(checkpoints[k], Present')
      BY <2>2 DEF IInv, Nested
    <3>1. Below(checkpoints[k], Present) /\ checkpoints[k] \in Sizes
      BY <2>2, ElementOfSeq DEF IInv, Nested, TypeOK
    <3>2. Len(saved) \in Nat /\ Len(saved') \in Nat
      BY <2>1 DEF IInv, TypeOK
    <3> QED  BY <2>1, <2>2, <3>1, <3>2 DEF Below, Present, Sizes
  <2> QED  BY <2>1, <2>2, <2>3, <2>4 DEF IInv, TypeOK, setup
<1>5. CASE \E k \in 1..MaxSaved : ProcessSavedStep(k)
  <2>1. PICK k \in 1..MaxSaved : ProcessSavedStep(k)
    BY <1>5
  <2>2. saved[k] \in Sentences /\ None \in Labels
    BY <2>1 DEF ProcessSavedStep, Labels, IInv, TypeOK
  <2>3. ProcessSentence(saved[k], None) /\ UNCHANGED <<setup, saved, checkpoints, hyps, broken>>
    BY <2>1 DEF ProcessSavedStep
  <2> QED  BY <2>2, <2>3, Pushed DEF IInv, TypeOK, setup
<1>6. CASE Checkpoint
  <2>1. checkpoints' \in Seq(Sizes) /\ Nested'
    BY <1>6, CheckpointNested
  <2>2. UNCHANGED <<setup, stack, dists, proof, saved, trees, hyps, broken>>
    BY <1>6 DEF Checkpoint
  <2> QED  BY <2>1, <2>2 DEF IInv, TypeOK, TreesSeq, StacksAgree, setup
<1>7. CASE Commit
  <2>1. /\ UNCHANGED <<setup, stack, dists, proof, saved, trees, hyps, broken>>
        /\ ~broken /\ checkpoints # <<>> /\ checkpoints' = Front(checkpoints)
    BY <1>7 DEF Commit
  <2>2. Below(Last(checkpoints), Present') /\ Present' \in Sizes /\ ~broken'
    BY <2>1, FrontNested DEF Present, Sizes, IInv, TypeOK
  <2>3. checkpoints' \in Seq(Sizes) /\ Nested'
    BY <2>1, <2>2, FrontKeepsNested
  <2> QED  BY <2>1, <2>3 DEF IInv, TypeOK, TreesSeq, StacksAgree, setup
<1>8. CASE Rollback
  <2>1. /\ UNCHANGED <<setup, trees, hyps, broken>>
        /\ ~broken /\ checkpoints # <<>> /\ checkpoints' = Front(checkpoints)
    BY <1>8 DEF Rollback
  <2>2. Last(checkpoints) \in Sizes
    BY <2>1, FrontNested
  <2>3. Below(Last(checkpoints), Present') /\ Present' \in Sizes /\ ~broken'
    BY <1>8, <2>1, <2>2, RollbackSizes DEF Present, Sizes, Below
  <2>4. checkpoints' \in Seq(Sizes) /\ Nested'
    BY <2>1, <2>3, FrontKeepsNested
  <2>5. TreesSeq' /\ StacksAgree' /\ TreesOK'
    BY <1>8, <2>1, <2>2, RollbackSizes, TreesKept DEF setup, Sizes
  <2> QED  BY <1>8, <2>1, <2>4, <2>5, RollbackSizes DEF IInv, TypeOK, setup
<1>9. CASE UNCHANGED vars
  BY <1>9 DEF vars, setup, IInv, TypeOK, TreesSeq, StacksAgree, Nested, Present
<1>10. CASE \E a \in Assertions : AbortAssertion(a)
  <2>1. broken' /\ UNCHANGED <<setup, stack, dists, proof, saved, trees, checkpoints, hyps>>
    BY <1>10 DEF AbortAssertion
  <2> QED  BY <2>1 DEF setup, IInv, TypeOK, TreesSeq, StacksAgree, Nested, Present
<1> QED  BY <1>1, <1>2, <1>3, <1>4, <1>5, <1>6, <1>7, <1>8, <1>9, <1>10 DEF Next

LEMMA Invariance == Spec => []IInv
BY InitIInv, NextIInv, PTL DEF Spec

(* For any library, bounds and order of calls the engine's variables keep   *)
(* their types; new labels and theses included.                             *)
THEOREM TypeCorrect == Spec => []TypeOK
BY Invariance, PTL DEF IInv

(* Every entry of the stack has its constraints and, if trees are kept, a   *)
(* tree: no iterator of process_assertion leaves its vector.                *)
THEOREM StacksStayInStep == Spec => []StacksAgree
BY Invariance, PTL DEF IInv

-----------------------------------------------------------------------------
(* The refinement of Checkpoints *)
Kept == [k \in 1..Len(checkpoints) |-> Snapshot(checkpoints[k])]

KeptOK ==
    /\ State \in States /\ Kept \in Seq(States) /\ Len(Kept) = Len(checkpoints)
    /\ \A k \in 1..Len(checkpoints) : Kept[k] = Snapshot(checkpoints[k])

LEMMA KeptSeq == IInv => KeptOK
<1> SUFFICES ASSUME IInv PROVE KeptOK
  OBVIOUS
<1>1. checkpoints \in Seq(Sizes) /\ Len(checkpoints) \in Nat
  BY DEF IInv, TypeOK
<1>2. ASSUME NEW k \in 1..Len(checkpoints) PROVE Snapshot(checkpoints[k]) \in States
  <2>1. checkpoints[k] \in Sizes
    BY <1>1, ElementOfSeq
  <2>2. /\ stack \in Seq(Sentences) /\ dists \in Seq(SUBSET Pairs)
        /\ proof \in Seq(Labels) /\ saved \in Seq(Sentences)
    BY DEF IInv, TypeOK
  <2> QED  BY <2>1, <2>2, ResizedIsPrefix DEF Snapshot, States, Sizes
<1>3. State \in States
  BY DEF State, States, IInv, TypeOK
<1> HIDE DEF States
<1>4. Kept \in [1..Len(checkpoints) -> States]
  BY <1>2 DEF Kept
<1> QED  BY <1>1, <1>3, <1>4 DEF Kept, KeptOK

LEMMA KeptUnchanged ==
    ASSUME UNCHANGED checkpoints,
           \A k \in 1..Len(checkpoints) : Snapshot(checkpoints[k])' = Snapshot(checkpoints[k])
    PROVE  UNCHANGED Kept
BY DEF Kept

(* The sizes of a checkpoint are sizes the stacks still reach. *)
LEMMA CheckpointFits ==
    ASSUME IInv, ~broken, NEW k \in 1..Len(checkpoints)
    PROVE  /\ checkpoints[k].stack \in 0..Len(stack) /\ Len(stack) = Len(dists)
           /\ checkpoints[k].proof \in 0..Len(proof)
           /\ checkpoints[k].saved \in 0..Len(saved)
<1>1. checkpoints[k] \in Sizes
  BY ElementOfSeq DEF IInv, TypeOK
<1>2. Below(checkpoints[k], Present)
  BY DEF IInv, Nested
<1>3. Len(stack) \in Nat /\ Len(proof) \in Nat /\ Len(saved) \in Nat /\ Len(stack) = Len(dists)
  BY DEF IInv, TypeOK, StacksAgree
<1> QED  BY <1>1, <1>2, <1>3 DEF Below, Present, Sizes

LEMMA PushedKept ==
    ASSUME IInv, ~broken, NEW s \in Sentences, NEW label \in Labels, ProcessSentence(s, label),
           UNCHANGED <<saved, checkpoints>>
    PROVE  UNCHANGED Kept
<1> SUFFICES ASSUME NEW k \in 1..Len(checkpoints)
             PROVE  Snapshot(checkpoints[k])' = Snapshot(checkpoints[k])
  BY KeptUnchanged
<1>1. /\ stack' = Append(stack, s) /\ dists' = Append(dists, {}) /\ proof' = Append(proof, label)
      /\ stack \in Seq(Sentences) /\ dists \in Seq(SUBSET Pairs) /\ proof \in Seq(Labels)
  BY DEF ProcessSentence, IInv, TypeOK
<1> DEFINE c == checkpoints[k]
<1>2. /\ c.stack \in 0..Len(stack) /\ c.stack \in 0..Len(dists) /\ c.proof \in 0..Len(proof)
      /\ c' = c
  BY CheckpointFits
<1> HIDE DEF c, Resized
<1>3. Resized(stack', c.stack) = Resized(stack, c.stack)
  BY <1>1, <1>2, ResizedAppend
<1>4. Resized(dists', c.stack) = Resized(dists, c.stack)
  <2>1. {} \in SUBSET Pairs
    OBVIOUS
  <2> QED  BY <1>1, <1>2, <2>1, ResizedAppend
<1>5. Resized(proof', c.proof) = Resized(proof, c.proof)
  BY <1>1, <1>2, ResizedAppend
<1> QED  BY <1>2, <1>3, <1>4, <1>5 DEF Snapshot, c

LEMMA AssertionKept ==
    ASSUME IInv, NEW a \in Assertions, ProcessAssertion(a), ~broken'
    PROVE  UNCHANGED Kept
<1> DEFINE base   == Len(stack) - Mandatory(a)
           thesis == Thesis[a][From(stack, base)]
<1>1. Accepted(a, base) /\ thesis \in Sentences /\ ~broken
  BY DEF ProcessAssertion, Accepted, Room
<1>2. base \in 0..Len(stack) /\ Len(stack) = Len(dists) /\ base \in Nat
  BY <1>1, AssertionSizes DEF IInv, StacksAgree
<1> HIDE DEF base, thesis
<1>3. ~Underflow(base)
  BY DEF ProcessAssertion, base
<1>4. /\ stack' = Append(Resized(stack, base), thesis)
      /\ dists' = Append(Resized(dists, base), NewDists(a, base))
      /\ proof' = Append(proof, a)
      /\ UNCHANGED <<checkpoints, saved>>
  BY <1>3 DEF ProcessAssertion, base, thesis
<1>5. /\ stack \in Seq(Sentences) /\ dists \in Seq(SUBSET Pairs) /\ proof \in Seq(Labels)
      /\ a \in Labels
  BY DEF IInv, TypeOK, Labels
<1>6. NewDists(a, base) \in SUBSET Pairs
  BY <1>2, NewDistsTyped
<1> SUFFICES ASSUME NEW k \in 1..Len(checkpoints)
             PROVE  Snapshot(checkpoints[k])' = Snapshot(checkpoints[k])
  BY <1>4, KeptUnchanged
<1> DEFINE c == checkpoints[k]
<1>7. /\ c.stack \in 0..base /\ c.proof \in 0..Len(proof)
      /\ c' = c
  <2>1. /\ c.stack \in 0..Len(stack) /\ c.proof \in 0..Len(proof)
    BY <1>1, CheckpointFits
  <2>2. c.stack <= base
    BY <1>1, <1>3, AssertionSizes DEF base
  <2> QED  BY <1>2, <1>4, <2>1, <2>2
<1> HIDE DEF c, Resized, NewDists
<1>8. base \in 0..Len(stack) /\ base \in 0..Len(dists)
  BY <1>2
<1>9. Resized(stack', c.stack) = Resized(stack, c.stack)
  BY <1>1, <1>4, <1>5, <1>7, <1>8, ResizedPush
<1>10. Resized(dists', c.stack) = Resized(dists, c.stack)
  BY <1>4, <1>5, <1>6, <1>7, <1>8, ResizedPush
<1>11. Resized(proof', c.proof) = Resized(proof, c.proof)
  BY <1>4, <1>5, <1>7, ResizedAppend
<1> QED  BY <1>4, <1>7, <1>9, <1>10, <1>11 DEF Snapshot, c

LEMMA SavedKept ==
    ASSUME IInv, SaveStep, ~broken'
    PROVE  UNCHANGED Kept
<1>1. /\ UNCHANGED <<stack, dists, proof, checkpoints>> /\ ~broken
      /\ \E s \in Sentences : saved' = Append(saved, s)
  <2>1. stack # <<>> => Last(stack) \in Sentences
    BY FrontIsPrefix DEF IInv, TypeOK
  <2> QED  BY <2>1 DEF SaveStep
<1>2. PICK s \in Sentences : saved' = Append(saved, s)
  BY <1>1
<1> SUFFICES ASSUME NEW k \in 1..Len(checkpoints)
             PROVE  Snapshot(checkpoints[k])' = Snapshot(checkpoints[k])
  BY <1>1, KeptUnchanged
<1> DEFINE c == checkpoints[k]
<1>3. c.saved \in 0..Len(saved) /\ c' = c /\ saved \in Seq(Sentences)
  BY <1>1, CheckpointFits DEF IInv, TypeOK
<1> HIDE DEF c, Resized
<1>4. Resized(saved', c.saved) = Resized(saved, c.saved)
  BY <1>2, <1>3, ResizedAppend
<1> QED  BY <1>1, <1>3, <1>4 DEF Snapshot, c

(* commit and rollback drop the last snapshot, and a rollback returns to it. *)
LEMMA FrontKept ==
    ASSUME IInv, checkpoints # <<>>, checkpoints' = Front(checkpoints), Kept' \in Seq(States),
           \A k \in 1..Len(checkpoints') : Kept'[k] = Kept[k],
           Len(Kept') = Len(checkpoints')
    PROVE  /\ Kept # <<>> /\ Kept' = Front(Kept)
           /\ Last(Kept) = Snapshot(Last(checkpoints))
<1>1. checkpoints \in Seq(Sizes)
  BY DEF IInv, TypeOK
<1>2. /\ Len(checkpoints) \in Nat \ {0} /\ Len(checkpoints') = Len(checkpoints) - 1
      /\ Last(checkpoints) = checkpoints[Len(checkpoints)]
  BY <1>1, FrontIsPrefix
<1>3. /\ Kept \in Seq(States) /\ Len(Kept) = Len(checkpoints)
      /\ \A k \in 1..Len(checkpoints) : Kept[k] = Snapshot(checkpoints[k])
  BY KeptSeq DEF KeptOK
<1> HIDE DEF Kept, States
<1>4. Kept # <<>>
  BY <1>2, <1>3, EmptySeq
<1>5. /\ Front(Kept) \in Seq(States) /\ Len(Front(Kept)) = Len(Kept) - 1
      /\ \A i \in 1..(Len(Kept) - 1) : Front(Kept)[i] = Kept[i]
      /\ Last(Kept) = Kept[Len(Kept)]
  BY <1>3, <1>4, FrontIsPrefix
<1>6. Kept' = Front(Kept)
  <2>1. Len(Kept') = Len(Front(Kept))
    BY <1>2, <1>3, <1>5
  <2>2. \A k \in 1..Len(Kept') : Kept'[k] = Front(Kept)[k]
    BY <1>2, <1>3, <1>5
  <2> QED  BY <1>5, <2>1, <2>2, SeqEqual
<1>7. Len(checkpoints) \in 1..Len(checkpoints)
  BY <1>2
<1>8. Last(Kept) = Snapshot(Last(checkpoints))
  <2>1. Kept[Len(checkpoints)] = Snapshot(checkpoints[Len(checkpoints)])
    BY <1>3, <1>7
  <2>2. Last(Kept) = Kept[Len(checkpoints)]
    BY <1>3, <1>5
  <2> QED  BY <1>2, <2>1, <2>2
<1> QED  BY <1>4, <1>6, <1>8

LEMMA CheckpointKept ==
    ASSUME IInv, IInv', Checkpoint
    PROVE  Kept' = Append(Kept, State) /\ UNCHANGED State
<1>1. /\ checkpoints' = Append(checkpoints, Present)
      /\ UNCHANGED <<stack, dists, proof, saved>>
  BY DEF Checkpoint, Present
<1>2. checkpoints \in Seq(Sizes) /\ Present \in Sizes
  BY DEF IInv, TypeOK, Present, Sizes
<1>3. /\ Len(checkpoints') = Len(checkpoints) + 1 /\ Len(checkpoints) \in Nat
      /\ \A i \in 1..Len(checkpoints) : checkpoints'[i] = checkpoints[i]
      /\ checkpoints'[Len(checkpoints) + 1] = Present
  BY <1>1, <1>2, AppendProperties
<1>4. Snapshot(Present) = State
  <2>1. /\ stack \in Seq(Sentences) /\ dists \in Seq(SUBSET Pairs) /\ Len(dists) = Len(stack)
        /\ proof \in Seq(Labels) /\ saved \in Seq(Sentences)
    BY DEF IInv, TypeOK, StacksAgree
  <2> QED  BY <2>1, ResizedFull DEF Snapshot, State, Present
<1>5. /\ State \in States /\ Kept \in Seq(States) /\ Len(Kept) = Len(checkpoints)
      /\ \A k \in 1..Len(checkpoints) : Kept[k] = Snapshot(checkpoints[k])
  BY KeptSeq DEF KeptOK
<1>6. /\ Kept' \in Seq(States) /\ Len(Kept') = Len(checkpoints')
      /\ \A k \in 1..Len(checkpoints') : Kept'[k] = Snapshot(checkpoints'[k])
  <2>1. KeptOK'
    BY KeptSeq, PTL
  <2> QED  BY <1>1, <2>1 DEF KeptOK, Snapshot
<1> HIDE DEF Kept, States, State
<1>7. /\ Append(Kept, State) \in Seq(States) /\ Len(Append(Kept, State)) = Len(Kept) + 1
      /\ \A i \in 1..Len(Kept) : Append(Kept, State)[i] = Kept[i]
      /\ Append(Kept, State)[Len(Kept) + 1] = State
  BY <1>5, AppendProperties
<1>8. \A k \in 1..(Len(checkpoints) + 1) : Kept'[k] = Append(Kept, State)[k]
  <2> SUFFICES ASSUME NEW k \in 1..(Len(checkpoints) + 1) PROVE Kept'[k] = Append(Kept, State)[k]
    OBVIOUS
  <2>1. CASE k = Len(checkpoints) + 1
    BY <1>3, <1>4, <1>5, <1>6, <1>7, <2>1
  <2>2. CASE k # Len(checkpoints) + 1
    <3>1. k \in 1..Len(checkpoints)
      BY <1>3, <2>2
    <3> QED  BY <1>3, <1>5, <1>6, <1>7, <3>1
  <2> QED  BY <2>1, <2>2
<1>9. Kept' = Append(Kept, State)
  BY <1>3, <1>5, <1>6, <1>7, <1>8, SeqEqual
<1> QED  BY <1>1, <1>9 DEF State

LEMMA RollbackKept ==
    ASSUME IInv, IInv', Rollback
    PROVE  Kept # <<>> /\ Kept' = Front(Kept) /\ State' = Last(Kept)
<1>1. /\ checkpoints # <<>> /\ checkpoints' = Front(checkpoints) /\ ~broken
      /\ stack' = Resized(stack, Last(checkpoints).stack)
      /\ dists' = Resized(dists, Last(checkpoints).stack)
      /\ proof' = Resized(proof, Last(checkpoints).proof)
      /\ saved' = Resized(saved, Last(checkpoints).saved)
  BY DEF Rollback
<1>2. KeptOK /\ KeptOK'
  BY KeptSeq, PTL
<1>3. ASSUME NEW k \in 1..Len(checkpoints') PROVE Kept'[k] = Kept[k]
  <2> DEFINE c == checkpoints[k]
             d == Last(checkpoints)
  <2>1. /\ k \in 1..Len(checkpoints) /\ checkpoints'[k] = c /\ Below(c, d)
        /\ Below(d, Present) /\ d \in Sizes
    BY <1>1, FrontNested
  <2>2. c \in Sizes
    BY <2>1, ElementOfSeq DEF IInv, TypeOK
  <2>3. /\ stack \in Seq(Sentences) /\ dists \in Seq(SUBSET Pairs) /\ Len(dists) = Len(stack)
        /\ proof \in Seq(Labels) /\ saved \in Seq(Sentences)
    BY DEF IInv, TypeOK, StacksAgree
  <2>4. Kept'[k] = Snapshot(checkpoints[k])'
    BY <1>2 DEF KeptOK
  <2>5. Kept[k] = Snapshot(c)
    BY <1>2, <2>1 DEF KeptOK
  <2> HIDE DEF c, d, Resized
  <2>6. /\ c.stack \in 0..d.stack /\ d.stack \in 0..Len(stack)
        /\ c.proof \in 0..d.proof /\ d.proof \in 0..Len(proof)
        /\ c.saved \in 0..d.saved /\ d.saved \in 0..Len(saved)
    BY <2>1, <2>2, <2>3 DEF Below, Present, Sizes
  <2>7. /\ Resized(Resized(stack, d.stack), c.stack) = Resized(stack, c.stack)
        /\ Resized(Resized(dists, d.stack), c.stack) = Resized(dists, c.stack)
    BY <2>3, <2>6, ResizedTwice
  <2>8. /\ Resized(Resized(proof, d.proof), c.proof) = Resized(proof, c.proof)
        /\ Resized(Resized(saved, d.saved), c.saved) = Resized(saved, c.saved)
    BY <2>3, <2>6, ResizedTwice
  <2>9. Snapshot(checkpoints[k])' = Snapshot(c)
    BY <1>1, <2>1, <2>7, <2>8 DEF Snapshot, d
  <2> QED  BY <2>4, <2>5, <2>9
<1>4. Kept' \in Seq(States) /\ Len(Kept') = Len(checkpoints')
  BY <1>2 DEF KeptOK
<1>5. Kept # <<>> /\ Kept' = Front(Kept) /\ Last(Kept) = Snapshot(Last(checkpoints))
  <2> HIDE DEF Kept, States
  <2> QED  BY <1>1, <1>3, <1>4, FrontKept
<1>6. State' = Snapshot(Last(checkpoints))
  BY <1>1 DEF State, Snapshot
<1> QED  BY <1>5, <1>6

LEMMA CommitKept ==
    ASSUME IInv, IInv', Commit
    PROVE  Kept # <<>> /\ Kept' = Front(Kept) /\ UNCHANGED State
<1>1. /\ checkpoints # <<>> /\ checkpoints' = Front(checkpoints)
      /\ UNCHANGED <<stack, dists, proof, saved>>
  BY DEF Commit
<1>2. KeptOK /\ KeptOK'
  BY KeptSeq, PTL
<1>3. ASSUME NEW k \in 1..Len(checkpoints') PROVE Kept'[k] = Kept[k]
  <2>1. k \in 1..Len(checkpoints) /\ checkpoints'[k] = checkpoints[k]
    BY <1>1, FrontNested
  <2>2. Kept'[k] = Snapshot(checkpoints[k])' /\ Kept[k] = Snapshot(checkpoints[k])
    BY <1>2, <2>1 DEF KeptOK
  <2> QED  BY <1>1, <2>1, <2>2 DEF Snapshot
<1>4. Kept' \in Seq(States) /\ Len(Kept') = Len(checkpoints')
  BY <1>2 DEF KeptOK
<1>5. Kept # <<>> /\ Kept' = Front(Kept)
  <2> HIDE DEF Kept, States
  <2> QED  BY <1>1, <1>3, <1>4, FrontKept
<1> QED  BY <1>1, <1>5 DEF State

-----------------------------------------------------------------------------
LEMMA RefinedInit == Init => Abstract!Init
<1> SUFFICES ASSUME Init PROVE Abstract!Init
  OBVIOUS
<1>1. Len(checkpoints) = 0
  BY DEF Init
<1>2. KeptOK
  BY InitIInv, KeptSeq
<1>3. Kept = <<>>
  <2> HIDE DEF Kept, States
  <2> QED  BY <1>1, <1>2, EmptySeq DEF KeptOK
<1> QED  BY <1>3 DEF Init, Abstract!Init, State, Kept

(* Whatever leaves the snapshots alone is work of the client. *)
LEMMA RefinedWork ==
    ASSUME IInv', ~broken, broken' \/ UNCHANGED Kept, broken \in BOOLEAN, broken' \in BOOLEAN
    PROVE  Abstract!Next
<1>1. CASE broken'
  BY <1>1 DEF Abstract!Next, Abstract!Fail
<1>2. CASE ~broken'
  <2>1. KeptOK'
    BY KeptSeq, PTL
  <2>2. State' \in States
    BY <2>1 DEF KeptOK
  <2>3. UNCHANGED broken /\ UNCHANGED Kept
    BY <1>2
  <2>4. Abstract!Work
    <3> HIDE DEF States, State
    <3> QED  BY <2>2, <2>3 DEF Abstract!Work, Kept
  <2> QED  BY <2>4 DEF Abstract!Next
<1> QED  BY <1>1, <1>2

LEMMA RefinedNext ==
    IInv /\ IInv' /\ [Next]_vars
        => [Abstract!Next]_<<State, [k \in 1..Len(checkpoints) |-> Snapshot(checkpoints[k])], broken>>
<1> SUFFICES ASSUME IInv, IInv', [Next]_vars
             PROVE  Abstract!Next \/ UNCHANGED <<State, Kept, broken>>
  BY DEF Kept
<1>0. broken \in BOOLEAN /\ broken' \in BOOLEAN
  BY DEF IInv, TypeOK
<1>1. CASE \E h \in Hypotheses : ProcessHypothesis(h)
  <2>1. PICK h \in Hypotheses : ProcessHypothesis(h)
    BY <1>1
  <2>2. /\ Statement[h] \in Sentences /\ h \in Labels /\ ~broken
        /\ ProcessSentence(Statement[h], h) /\ UNCHANGED <<saved, checkpoints>>
    BY <2>1, LibraryAssumption DEF Labels, ProcessHypothesis, Room
  <2> QED  BY <1>0, <2>2, PushedKept, RefinedWork
<1>2. CASE \E s \in Wanted : ProcessNewHypothesis(s)
  <2>1. PICK s \in Sentences : ProcessNewHypothesis(s)
    BY <1>2, LibraryAssumption
  <2> DEFINE l == Temp(CHOOSE k \in DOMAIN hyps' : hyps'[k] = s)
  <2>2. l \in Labels
    BY <2>1, NewLabel
  <2>3. ProcessSentence(s, l) /\ UNCHANGED <<saved, checkpoints>> /\ ~broken
    BY <2>1 DEF ProcessNewHypothesis, Room
  <2> HIDE DEF l
  <2> QED  BY <1>0, <2>2, <2>3, PushedKept, RefinedWork
<1>3. CASE \E a \in Assertions : ProcessAssertion(a)
  <2>1. PICK a \in Assertions : ProcessAssertion(a)
    BY <1>3
  <2>2. ~broken
    BY <2>1 DEF ProcessAssertion, Room
  <2> QED  BY <1>0, <2>1, <2>2, AssertionKept, RefinedWork
<1>4. CASE SaveStep
  BY <1>0, <1>4, SavedKept, RefinedWork DEF SaveStep
<1>5. CASE \E k \in 1..MaxSaved : ProcessSavedStep(k)
  <2>1. PICK k \in 1..MaxSaved : ProcessSavedStep(k)
    BY <1>5
  <2>2. /\ saved[k] \in Sentences /\ None \in Labels /\ ~broken
        /\ ProcessSentence(saved[k], None) /\ UNCHANGED <<saved, checkpoints>>
    BY <2>1 DEF ProcessSavedStep, Labels, IInv, TypeOK, Room
  <2> QED  BY <1>0, <2>2, PushedKept, RefinedWork
<1>6. CASE Checkpoint
  <2>1. Kept' = Append(Kept, State) /\ UNCHANGED <<State, broken>> /\ ~broken
    BY <1>6, CheckpointKept DEF Checkpoint
  <2> QED  BY <2>1 DEF Abstract!Next, Abstract!Checkpoint, Kept
<1>7. CASE Commit
  <2>1. /\ Kept # <<>> /\ Kept' = Front(Kept) /\ UNCHANGED State
        /\ UNCHANGED broken /\ ~broken
    BY <1>7, CommitKept DEF Commit
  <2>2. Abstract!Commit
    BY <2>1 DEF Abstract!Commit, Kept, Front, Abstract!Front
  <2> QED  BY <2>1, <2>2 DEF Abstract!Next
<1>8. CASE Rollback
  <2>1. /\ Kept # <<>> /\ Kept' = Front(Kept) /\ State' = Last(Kept)
        /\ UNCHANGED broken /\ ~broken
    BY <1>8, RollbackKept DEF Rollback
  <2>2. Abstract!Rollback
    BY <2>1 DEF Abstract!Rollback, Kept, Front, Abstract!Front, Last, Abstract!Last
  <2> QED  BY <2>1, <2>2 DEF Abstract!Next
<1>9. CASE UNCHANGED vars
  BY <1>9 DEF vars, State, Kept, Snapshot
<1>10. CASE \E a \in Assertions : AbortAssertion(a)
  <2>1. ~broken /\ broken'
    BY <1>10 DEF AbortAssertion, Room
  <2> QED  BY <1>0, <2>1, RefinedWork
<1> QED  BY <1>1, <1>2, <1>3, <1>4, <1>5, <1>6, <1>7, <1>8, <1>9, <1>10 DEF Next

(* For any library, bounds and nesting, a rollback gives back the stack,    *)
(* the constraints, the proof and the saved steps of the moment of the      *)
(* checkpoint; a commit leaves the outer checkpoints as they were.          *)
THEOREM RollbackRestores == Spec => ImplementsCheckpoints
BY RefinedInit, RefinedNext, Invariance, PTL DEF Spec, ImplementsCheckpoints, Abstract!Spec

-----------------------------------------------------------------------------
(* Distinct variable constraints: what the entries carry is what the labels *)
(* of the proof asked for, now and at the moment of every checkpoint.       *)
Carried(d) == UNION ToSet(d)
Asked(l)   == UNION {Imposed[a] : a \in ToSet(l) \cap Assertions}

Complete(st) == Carried(st.dists) = Asked(st.proof)

(* The state and the snapshots *)
Moments == {State} \union {Kept[k] : k \in 1..Len(Kept)}

Whole == ~broken => \A st \in Moments : Complete(st)

LEMMA AppendSet ==
    ASSUME NEW S, NEW s \in Seq(S), NEW e \in S
    PROVE  ToSet(Append(s, e)) = ToSet(s) \union {e}
<1>1. /\ Append(s, e) \in Seq(S) /\ Len(Append(s, e)) = Len(s) + 1 /\ Len(s) \in Nat
      /\ \A i \in 1..Len(s) : Append(s, e)[i] = s[i]
      /\ Append(s, e)[Len(s) + 1] = e
  BY AppendProperties
<1>2. DOMAIN Append(s, e) = DOMAIN s \union {Len(s) + 1} /\ DOMAIN s = 1..Len(s)
  BY <1>1
<1> QED  BY <1>1, <1>2 DEF ToSet

LEMMA CarriedAppend ==
    ASSUME NEW d \in Seq(SUBSET Pairs), NEW e \in SUBSET Pairs
    PROVE  Carried(Append(d, e)) = Carried(d) \union e
<1>1. ToSet(Append(d, e)) = ToSet(d) \union {e}
  BY AppendSet
<1> QED  BY <1>1 DEF Carried

LEMMA AskedAppend ==
    ASSUME NEW l \in Seq(Labels), NEW x \in Labels
    PROVE  Asked(Append(l, x)) = Asked(l) \union (IF x \in Assertions THEN Imposed[x] ELSE {})
<1>1. ToSet(Append(l, x)) = ToSet(l) \union {x}
  BY AppendSet
<1> HIDE DEF Labels
<1>2. CASE x \in Assertions
  <2>1. ToSet(Append(l, x)) \cap Assertions = (ToSet(l) \cap Assertions) \union {x}
    BY <1>1, <1>2
  <2> QED  BY <1>2, <2>1 DEF Asked
<1>3. CASE x \notin Assertions
  <2>1. ToSet(Append(l, x)) \cap Assertions = ToSet(l) \cap Assertions
    BY <1>1, <1>3
  <2> QED  BY <1>3, <2>1 DEF Asked
<1> QED  BY <1>2, <1>3

(* The entries below a cut, those of the floating hypotheses, which carry   *)
(* nothing, and those above: together they are all.                         *)
LEMMA CarriedCut ==
    ASSUME NEW d \in Seq(SUBSET Pairs), NEW m \in Nat, NEW n \in Nat, m <= n, n <= Len(d),
           \A i \in (m + 1)..n : d[i] = {}
    PROVE  Carried(d) = Carried(Resized(d, m)) \union Carried(From(d, n))
<1> DEFINE low  == Resized(d, m)
           high == From(d, n)
<1>1. Len(d) \in Nat /\ DOMAIN d = 1..Len(d)
  OBVIOUS
<1>2. /\ DOMAIN low = 1..m
      /\ \A i \in 1..m : low[i] = d[i]
  <2>1. low \in Seq(SUBSET Pairs) /\ Len(low) = m /\ \A i \in 1..Len(low) : low[i] = d[i]
    BY <1>1, ResizedIsPrefix
  <2> QED  BY <2>1
<1>3. /\ DOMAIN high = 1..(Len(d) - n)
      /\ \A i \in 1..(Len(d) - n) : high[i] = d[n + i]
  <2> DEFINE p == n + 1
  <2>1. p \in Int /\ Len(d) \in Int /\ p >= 1 /\ high = SubSeq(d, p, Len(d)) /\ p = n + 1
    BY <1>1 DEF From
  <2> HIDE DEF p, high
  <2>2. \A i \in p..Len(d) : d[i] \in SUBSET Pairs
    BY <1>1, <2>1, ElementOfSeq
  <2>3. /\ high \in Seq(SUBSET Pairs)
        /\ Len(high) = IF p <= Len(d) THEN Len(d) - p + 1 ELSE 0
        /\ \A i \in 1..(Len(d) - p + 1) : high[i] = d[p + i - 1]
    BY <2>1, <2>2, SubSeqProperties
  <2>4. Len(high) = Len(d) - n
    <3>1. p <= Len(d) \/ p = Len(d) + 1
      BY <2>1
    <3> QED  BY <2>1, <2>3, <3>1
  <2>5. DOMAIN high = 1..Len(high)
    BY <2>3, LenProperties
  <2>6. Len(d) - p + 1 = Len(d) - n /\ \A i \in Int : p + i - 1 = n + i
    BY <2>1
  <2>7. \A i \in 1..(Len(d) - n) : high[i] = d[n + i]
    BY <2>3, <2>6, SMTT(30)
  <2> QED  BY <2>4, <2>5, <2>7
<1> HIDE DEF low, high
<1>4. ASSUME NEW x \in Carried(d)
      PROVE  x \in Carried(low) \union Carried(high)
  <2>1. PICK i \in 1..Len(d) : x \in d[i]
    BY <1>1 DEF Carried, ToSet
  <2>2. CASE i <= m
    BY <1>2, <2>1, <2>2 DEF Carried, ToSet
  <2>3. CASE i \in (m + 1)..n
    <3>1. d[i] = {}
      BY <2>3
    <3> QED  BY <2>1, <3>1
  <2>4. CASE i > n
    <3>1. /\ i - n \in 1..(Len(d) - n) /\ n + (i - n) = i
          /\ i - n \in DOMAIN high
      BY <1>1, <1>3, <2>1, <2>4
    <3>2. high[i - n] = d[i]
      BY <1>3, <3>1
    <3> QED  BY <1>3, <2>1, <3>1, <3>2 DEF Carried, ToSet
  <2> QED  BY <2>1, <2>2, <2>3, <2>4
<1>5. ASSUME NEW x \in Carried(low)
      PROVE  x \in Carried(d)
  <2>1. PICK i \in 1..m : x \in low[i]
    BY <1>2 DEF Carried, ToSet
  <2>2. i \in DOMAIN d /\ low[i] = d[i]
    BY <1>1, <1>2
  <2> QED  BY <2>1, <2>2 DEF Carried, ToSet
<1>6. ASSUME NEW x \in Carried(high)
      PROVE  x \in Carried(d)
  <2>1. PICK i \in 1..(Len(d) - n) : x \in high[i]
    BY <1>3 DEF Carried, ToSet
  <2>2. n + i \in DOMAIN d /\ high[i] = d[n + i]
    BY <1>1, <1>3
  <2> QED  BY <2>1, <2>2 DEF Carried, ToSet
<1>7. Carried(d) = Carried(low) \union Carried(high)
  BY <1>4, <1>5, <1>6
<1> QED  BY <1>7 DEF low, high

(* What leaves the snapshots alone adds one moment at most. *)
LEMMA NewMoment ==
    ASSUME UNCHANGED Kept
    PROVE  Moments' \subseteq Moments \union {State'} /\ State \in Moments
<1> HIDE DEF Kept, State
<1> QED  BY DEF Moments

LEMMA WholeNow ==
    ASSUME Whole, ~broken
    PROVE  Carried(dists) = Asked(proof)
<1>1. Complete(State)
  <2> HIDE DEF Kept, State, Complete
  <2> QED  BY DEF Whole, Moments
<1> QED  BY <1>1 DEF Complete, State

LEMMA StaysWhole ==
    ASSUME Whole, ~broken, UNCHANGED Kept, Carried(dists') = Asked(proof')
    PROVE  Whole'
<1>1. Complete(State')
  BY DEF Complete, State
<1>2. Moments' \subseteq Moments \union {State'}
  BY NewMoment
<1> HIDE DEF Moments, State, Kept
<1>3. \A st \in Moments' : Complete(st)
  BY <1>1, <1>2 DEF Whole
<1> QED  BY <1>3 DEF Whole, Complete

(* A sentence is pushed with a label that asks for nothing. *)
LEMMA PushedWhole ==
    ASSUME IInv, Whole, ~broken, NEW s \in Sentences, NEW label \in Labels \ Assertions,
           ProcessSentence(s, label), UNCHANGED <<saved, checkpoints>>
    PROVE  Whole'
<1>1. UNCHANGED Kept
  BY PushedKept
<1>2. /\ dists' = Append(dists, {}) /\ proof' = Append(proof, label)
      /\ dists \in Seq(SUBSET Pairs) /\ proof \in Seq(Labels)
  BY DEF ProcessSentence, IInv, TypeOK
<1>3. {} \in SUBSET Pairs
  OBVIOUS
<1>4. Carried(dists') = Carried(dists)
  BY <1>2, <1>3, CarriedAppend
<1>5. Asked(proof') = Asked(proof)
  BY <1>2, AskedAppend
<1> QED  BY <1>1, <1>4, <1>5, StaysWhole, WholeNow

LEMMA AssertionWhole ==
    ASSUME IInv, Whole, NEW a \in Assertions, ProcessAssertion(a)
    PROVE  Whole'
<1> SUFFICES ASSUME ~broken' PROVE Whole'
  BY DEF Whole
<1>1. UNCHANGED Kept
  BY AssertionKept
<1> DEFINE base == Len(stack) - Mandatory(a)
           mine == NewDists(a, base)
<1>2. Accepted(a, base) /\ ~broken /\ ~Constrained(a, base) /\ ~Underflow(base)
  BY DEF ProcessAssertion, Room
<1>3. /\ base \in 0..Len(stack) /\ Len(stack) = Len(dists) /\ base \in Nat
      /\ Floats[a] \in Nat /\ base + Floats[a] <= Len(dists) /\ a \in Labels
  <2>1. Floats[a] \in Nat /\ Esses[a] \in Nat
    BY LibraryAssumption
  <2> QED  BY <1>2, <2>1, AssertionSizes DEF IInv, StacksAgree, Mandatory, Labels
<1>4. /\ dists' = Append(Resized(dists, base), mine) /\ proof' = Append(proof, a)
      /\ dists \in Seq(SUBSET Pairs) /\ proof \in Seq(Labels)
  BY <1>2 DEF ProcessAssertion, IInv, TypeOK
<1>5. mine \in SUBSET Pairs
  BY <1>3, NewDistsTyped
<1>6. mine = Imposed[a] \union Carried(From(dists, base + Floats[a]))
  BY DEF NewDists, Carried
<1>7. \A i \in 1..Floats[a] : dists[base + i] = {}
  BY <1>2 DEF Constrained
<1> HIDE DEF base, mine
<1>8. Carried(dists) = Carried(Resized(dists, base)) \union Carried(From(dists, base + Floats[a]))
  <2>1. PICK n \in Nat : n = base + Floats[a]
    BY <1>3
  <2>2. \A i \in (base + 1)..n : dists[i] = {}
    <3> SUFFICES ASSUME NEW i \in (base + 1)..n PROVE dists[i] = {}
      OBVIOUS
    <3>1. i - base \in 1..Floats[a] /\ base + (i - base) = i
      BY <1>3, <2>1
    <3>2. dists[base + (i - base)] = {}
      BY <1>7, <3>1
    <3> QED  BY <3>1, <3>2
  <2>3. base <= n /\ n <= Len(dists)
    BY <1>3, <2>1
  <2>4. Carried(dists) = Carried(Resized(dists, base)) \union Carried(From(dists, n))
    <3>1. dists \in Seq(SUBSET Pairs) /\ base \in Nat
      BY <1>3, <1>4
    <3> QED  BY <2>1, <2>2, <2>3, <3>1, CarriedCut, SMTT(30)
  <2> QED  BY <2>1, <2>4
<1>9. Carried(dists') = Carried(Resized(dists, base)) \union mine
  <2>1. Resized(dists, base) \in Seq(SUBSET Pairs)
    BY <1>3, <1>4, ResizedIsPrefix
  <2> QED  BY <1>4, <1>5, <2>1, CarriedAppend
<1>10. Asked(proof') = Asked(proof) \union Imposed[a]
  BY <1>3, <1>4, AskedAppend
<1>11. Carried(dists) = Asked(proof)
  BY <1>2, WholeNow
<1>12. Carried(dists') = Asked(proof')
  BY <1>6, <1>8, <1>9, <1>10, <1>11
<1> QED  BY <1>1, <1>2, <1>12, StaysWhole

(* A snapshot becomes the state, or the state a snapshot: nothing is new. *)
LEMMA OldMoments ==
    ASSUME IInv, IInv', Checkpoint \/ Commit \/ Rollback
    PROVE  Moments' \subseteq Moments /\ ~broken
<1>1. ~broken
  BY DEF Checkpoint, Commit, Rollback
<1>2. KeptOK
  BY KeptSeq
<1>3. Kept \in Seq(States) /\ State \in States
  BY <1>2 DEF KeptOK
<1> HIDE DEF Kept, State, States
<1>4. CASE Checkpoint
  <2>1. Kept' = Append(Kept, State) /\ State' = State
    BY <1>4, CheckpointKept
  <2>2. /\ Len(Kept') = Len(Kept) + 1 /\ Len(Kept) \in Nat
        /\ \A i \in 1..Len(Kept) : Kept'[i] = Kept[i]
        /\ Kept'[Len(Kept) + 1] = State
    BY <1>3, <2>1, AppendProperties
  <2>3. ASSUME NEW k \in 1..Len(Kept') PROVE Kept'[k] \in Moments
    <3>1. k \in 1..Len(Kept) \/ k = Len(Kept) + 1
      BY <2>2
    <3> QED  BY <2>2, <3>1 DEF Moments
  <2> QED  BY <1>1, <2>1, <2>3 DEF Moments
<1>5. CASE Commit \/ Rollback
  <2>1. Kept # <<>> /\ Kept' = Front(Kept) /\ (State' = State \/ State' = Last(Kept))
    BY <1>5, CommitKept, RollbackKept
  <2>2. /\ Len(Kept) \in Nat \ {0} /\ Len(Kept') = Len(Kept) - 1
        /\ \A i \in 1..(Len(Kept) - 1) : Kept'[i] = Kept[i]
        /\ Last(Kept) = Kept[Len(Kept)]
    BY <1>3, <2>1, FrontIsPrefix
  <2>3. ASSUME NEW k \in 1..Len(Kept') PROVE Kept'[k] \in Moments
    <3>1. k \in 1..Len(Kept) /\ Kept'[k] = Kept[k]
      BY <2>2
    <3> QED  BY <3>1 DEF Moments
  <2>4. State' \in Moments
    <3>1. Len(Kept) \in 1..Len(Kept)
      BY <2>2
    <3> QED  BY <2>1, <2>2, <3>1 DEF Moments
  <2> QED  BY <1>1, <2>3, <2>4 DEF Moments
<1> QED  BY <1>4, <1>5

LEMMA NextWhole == IInv /\ IInv' /\ Whole /\ [Next]_vars => Whole'
<1> SUFFICES ASSUME IInv, IInv', Whole, [Next]_vars PROVE Whole'
  OBVIOUS
<1>1. ASSUME NEW h \in Hypotheses, ProcessHypothesis(h) PROVE Whole'
  <2>1. /\ Statement[h] \in Sentences /\ h \in Labels \ Assertions /\ ~broken
        /\ ProcessSentence(Statement[h], h) /\ UNCHANGED <<saved, checkpoints>>
    BY <1>1, LibraryAssumption, LabelAssumption DEF Labels, ProcessHypothesis, Room
  <2> QED  BY <2>1, PushedWhole
<1>2. ASSUME NEW s \in Wanted, ProcessNewHypothesis(s) PROVE Whole'
  <2> DEFINE l == Temp(CHOOSE k \in DOMAIN hyps' : hyps'[k] = s)
  <2>1. s \in Sentences
    BY LibraryAssumption
  <2>2. l \in [1..1 -> Nat]
    BY <1>2, <2>1, NewLabel
  <2>3. l \in Labels \ Assertions
    BY <2>2, LabelAssumption DEF Labels
  <2>4. ProcessSentence(s, l) /\ UNCHANGED <<saved, checkpoints>> /\ ~broken
    BY <1>2 DEF ProcessNewHypothesis, Room
  <2> HIDE DEF l
  <2> QED  BY <2>1, <2>3, <2>4, PushedWhole
<1>3. ASSUME NEW a \in Assertions, ProcessAssertion(a) PROVE Whole'
  BY <1>3, AssertionWhole
<1>4. ASSUME NEW a \in Assertions, AbortAssertion(a) PROVE Whole'
  BY <1>4 DEF AbortAssertion, Whole
<1>5. CASE SaveStep
  <2>1. CASE broken'
    BY <2>1 DEF Whole
  <2>2. CASE ~broken'
    <3>1. UNCHANGED Kept /\ UNCHANGED <<dists, proof>> /\ ~broken
      BY <1>5, <2>2, SavedKept DEF SaveStep
    <3> QED  BY <3>1, StaysWhole, WholeNow
  <2> QED  BY <2>1, <2>2
<1>6. ASSUME NEW k \in 1..MaxSaved, ProcessSavedStep(k) PROVE Whole'
  <2>1. /\ saved[k] \in Sentences /\ None \in Labels \ Assertions /\ ~broken
        /\ ProcessSentence(saved[k], None) /\ UNCHANGED <<saved, checkpoints>>
    BY <1>6, NoneAssumption DEF ProcessSavedStep, Labels, IInv, TypeOK, Room
  <2> QED  BY <2>1, PushedWhole
<1>7. CASE Checkpoint \/ Commit \/ Rollback
  <2>1. Moments' \subseteq Moments /\ ~broken
    BY <1>7, OldMoments
  <2> HIDE DEF Moments
  <2> QED  BY <2>1 DEF Whole, Complete
<1>8. CASE UNCHANGED vars
  BY <1>8 DEF vars, Whole, Moments, State, Kept, Snapshot, Complete
<1> QED  BY <1>1, <1>2, <1>3, <1>4, <1>5, <1>6, <1>7, <1>8 DEF Next

LEMMA InitWhole == Init => Whole
<1> SUFFICES ASSUME Init PROVE Whole
  OBVIOUS
<1>1. dists = <<>> /\ proof = <<>> /\ checkpoints = <<>>
  BY DEF Init
<1>2. ToSet(dists) = {} /\ ToSet(proof) = {} /\ Len(checkpoints) = 0
  BY <1>1 DEF ToSet
<1>3. Complete(State)
  BY <1>2 DEF Complete, State, Carried, Asked
<1>4. \A k \in 1..Len(Kept) : Complete(Kept[k])
  <2>1. Len(Kept) = 0
    BY <1>2, InitIInv, KeptSeq DEF KeptOK
  <2> QED  BY <2>1
<1> QED  BY <1>3, <1>4 DEF Whole, Moments

(* For any library, bounds, nesting of checkpoints and order of calls no    *)
(* distinct variable constraint is lost on the way to the thesis: what the  *)
(* entries of the stack carry together is what the assertions named in the  *)
(* proof impose, although saved steps are pushed without theirs, floating   *)
(* hypotheses are popped without a look at theirs, and rollbacks cut both.  *)
THEOREM NoConstraintLost == Spec => []DistsComplete
<1>1. IInv /\ Whole => DistsComplete
  BY WholeNow DEF Carried, Asked, DistsComplete
<1> QED  BY <1>1, InitWhole, NextWhole, Invariance, PTL DEF Spec

-----------------------------------------------------------------------------
(* Running labels again.  A function that is defined by recursion exists,   *)
(* and is the only one, because a first number where that fails would not   *)
(* be the first.                                                            *)
Runs(r, new, labels, n) ==
    r = [m \in 0..n |-> IF m = 0 THEN <<>> ELSE Rerun(new, r[m - 1], labels[m])]

LEMMA RunExists ==
    ASSUME NEW new, NEW labels, NEW n \in Nat
    PROVE  \E r : Runs(r, new, labels, n)
<1> DEFINE Bad == {m \in Nat : ~\E r : Runs(r, new, labels, m)}
<1> SUFFICES ASSUME Bad # {} PROVE FALSE
  OBVIOUS
<1>1. PICK m \in Bad : \A k \in Bad : m <= k
  <2>1. Bad \in SUBSET Nat
    OBVIOUS
  <2> HIDE DEF Bad
  <2> QED  BY <2>1, Least
<1>2. m # 0
  <2> DEFINE r == [k \in 0..0 |-> <<>>]
  <2>1. Runs(r, new, labels, 0)
    BY DEF Runs
  <2> QED  BY <1>1, <2>1
<1>3. m \in Nat /\ m - 1 \in Nat /\ m - 1 \notin Bad
  BY <1>1, <1>2
<1>4. PICK r : Runs(r, new, labels, m - 1)
  BY <1>3
<1> HIDE DEF Bad
<1> DEFINE s == [k \in 0..m |-> IF k = m THEN Rerun(new, r[m - 1], labels[m]) ELSE r[k]]
<1>5. \A k \in 0..m : s[k] = IF k = 0 THEN <<>> ELSE Rerun(new, s[k - 1], labels[k])
  <2> SUFFICES ASSUME NEW k \in 0..m
               PROVE  s[k] = IF k = 0 THEN <<>> ELSE Rerun(new, s[k - 1], labels[k])
    OBVIOUS
  <2>1. CASE k = m
    <3>1. k # 0 /\ k - 1 \in 0..m /\ k - 1 # m
      BY <1>2, <1>3, <2>1
    <3>2. s[k - 1] = r[m - 1] /\ s[k] = Rerun(new, r[m - 1], labels[m])
      BY <2>1, <3>1
    <3> QED  BY <2>1, <3>1, <3>2
  <2>2. CASE k # m
    <3>1. k \in 0..(m - 1) /\ (k # 0 => k - 1 \in 0..m /\ k - 1 # m)
      BY <1>3, <2>2
    <3>2. r[k] = IF k = 0 THEN <<>> ELSE Rerun(new, r[k - 1], labels[k])
      BY <1>4, <3>1 DEF Runs
    <3>3. s[k] = r[k] /\ (k # 0 => s[k - 1] = r[k - 1])
      BY <2>2, <3>1
    <3> QED  BY <3>2, <3>3
  <2> QED  BY <2>1, <2>2
<1>6. s = [k \in 0..m |-> s[k]]
  OBVIOUS
<1>7. Runs(s, new, labels, m)
  <2> HIDE DEF s
  <2> QED  BY <1>5, <1>6 DEF Runs
<1>8. m \in Bad
  BY <1>1
<1> QED  BY <1>7, <1>8 DEF Bad

(* The stack after some labels depends on these labels only, and on the     *)
(* hypotheses that they name.                                               *)
LEMMA SameRun ==
    ASSUME NEW r, NEW new, NEW labels, NEW n \in Nat, Runs(r, new, labels, n),
           NEW s, NEW old, NEW others, NEW m \in Nat, Runs(s, old, others, m),
           NEW k \in 0..n, k <= m,
           \A i \in 1..k : \A st : Rerun(new, st, labels[i]) = Rerun(old, st, others[i])
    PROVE  r[k] = s[k]
<1> DEFINE Bad == {i \in 0..k : r[i] # s[i]}
<1> SUFFICES ASSUME Bad # {} PROVE FALSE
  BY SMT
<1>1. PICK i \in Bad : \A j \in Bad : i <= j
  <2>1. Bad \in SUBSET Nat
    BY SMT
  <2> HIDE DEF Bad
  <2> QED  BY <2>1, Least
<1>2. i \in 0..k /\ r[i] # s[i] /\ i \in 0..n /\ i \in 0..m
  BY <1>1
<1>3. i # 0
  BY <1>2 DEF Runs
<1>4. i \in 1..k /\ i - 1 \in 0..k /\ i - 1 \notin Bad
  BY <1>1, <1>2, <1>3
<1>5. r[i - 1] = s[i - 1]
  BY <1>4
<1> HIDE DEF Bad
<1>6. r[i] = Rerun(new, r[i - 1], labels[i]) /\ s[i] = Rerun(old, s[i - 1], others[i])
  <2> HIDE DEF Rerun
  <2> QED  BY <1>2, <1>3 DEF Runs
<1>7. Rerun(new, s[i - 1], labels[i]) = Rerun(old, s[i - 1], others[i])
  BY <1>4
<1> QED  BY <1>2, <1>5, <1>6, <1>7

LEMMA ReplayRuns ==
    ASSUME NEW new, NEW S, NEW labels \in Seq(S)
    PROVE  \E r : Runs(r, new, labels, Len(labels)) /\ Replay(new, labels) = r[Len(labels)]
<1>1. Len(labels) \in Nat
  OBVIOUS
<1> DEFINE after == CHOOSE r : Runs(r, new, labels, Len(labels))
<1>2. Runs(after, new, labels, Len(labels))
  BY <1>1, RunExists
<1>3. Replay(new, labels) = after[Len(labels)]
  BY DEF Replay, Runs
<1> QED  BY <1>2, <1>3

LEMMA ReplayEmpty ==
    ASSUME NEW new
    PROVE  Replay(new, <<>>) = <<>>
<1>1. <<>> \in Seq({}) /\ Len(<<>>) = 0
  BY EmptySeq
<1>2. PICK r : Runs(r, new, <<>>, 0) /\ Replay(new, <<>>) = r[0]
  BY <1>1, ReplayRuns
<1> QED  BY <1>2 DEF Runs

LEMMA ReplayAppend ==
    ASSUME NEW new, NEW S, NEW labels \in Seq(S), NEW l \in S
    PROVE  Replay(new, Append(labels, l)) = Rerun(new, Replay(new, labels), l)
<1> DEFINE n    == Len(labels)
           more == Append(labels, l)
<1>1. /\ n \in Nat /\ more \in Seq(S) /\ Len(more) = n + 1
      /\ \A i \in 1..n : more[i] = labels[i]
      /\ more[n + 1] = l
  BY AppendProperties
<1> HIDE DEF more
<1>2. PICK r : Runs(r, new, labels, n) /\ Replay(new, labels) = r[n]
  BY ReplayRuns
<1>3. PICK s : Runs(s, new, more, n + 1) /\ Replay(new, more) = s[n + 1]
  BY <1>1, ReplayRuns
<1> HIDE DEF n, Rerun
<1>4. /\ n + 1 \in Nat /\ n \in 0..(n + 1) /\ n \in 0..n /\ n <= n + 1
      /\ n + 1 # 0 /\ n + 1 \in 0..(n + 1) /\ (n + 1) - 1 = n
  BY <1>1
<1>5. s[n] = r[n]
  <2>1. \A i \in 1..n : \A st : Rerun(new, st, labels[i]) = Rerun(new, st, more[i])
    BY <1>1
  <2>2. r[n] = s[n]
    BY <1>1, <1>2, <1>3, <1>4, <2>1, SameRun
  <2> QED  BY <2>2
<1>6. s[n + 1] = Rerun(new, s[n], l)
  BY <1>1, <1>3, <1>4 DEF Runs
<1> QED  BY <1>2, <1>3, <1>5, <1>6 DEF more

LEMMA ReplayNew ==
    ASSUME NEW new, NEW old, NEW S, NEW labels \in Seq(S),
           \A i \in 1..Len(labels) : \A st : Rerun(new, st, labels[i]) = Rerun(old, st, labels[i])
    PROVE  Replay(new, labels) = Replay(old, labels)
<1>1. Len(labels) \in Nat
  OBVIOUS
<1>2. PICK r : Runs(r, new, labels, Len(labels)) /\ Replay(new, labels) = r[Len(labels)]
  BY ReplayRuns
<1>3. PICK s : Runs(s, old, labels, Len(labels)) /\ Replay(old, labels) = s[Len(labels)]
  BY ReplayRuns
<1> HIDE DEF Rerun
<1>4. Len(labels) \in 0..Len(labels) /\ Len(labels) <= Len(labels)
  BY <1>1
<1>5. r[Len(labels)] = s[Len(labels)]
  BY <1>1, <1>2, <1>3, <1>4, SameRun
<1> QED  BY <1>2, <1>3, <1>5

(* Labels whose meaning the engine knows: new hypotheses have numbers. *)
Named == Hypotheses \union Assertions \union {Temp(k) : k \in 1..Len(hyps)}

Replays(st) == Replay(hyps, st.proof) = st.stack /\ \A i \in 1..Len(st.proof) : st.proof[i] \in Named

(* Provers: the labels of the proof, now and at the moment of every         *)
(* checkpoint, gave the stack.                                              *)
Traced == client = "prover" /\ ~broken => \A st \in Moments : Replays(st)

LEMMA TempLabel ==
    ASSUME NEW k \in Nat
    PROVE  Temp(k) \notin Hypotheses /\ Temp(k) \notin Assertions /\ Temp(k)[1] = k
<1>1. Temp(k) \in [1..1 -> Nat] /\ Temp(k)[1] = k
  BY DEF Temp
<1> QED  BY <1>1, LabelAssumption

(* More hypotheses do not change what the labels mean. *)
LEMMA NamedKept ==
    ASSUME hyps \in Seq(Sentences), hyps' \in Seq(Sentences), Grown(hyps', hyps), NEW l \in Named
    PROVE  /\ \A st : Rerun(hyps', st, l) = Rerun(hyps, st, l)
           /\ l \in Named'
<1>0. Len(hyps) \in Nat /\ Len(hyps') \in Nat /\ Len(hyps) <= Len(hyps')
  BY DEF Grown
<1>1. CASE l \in Hypotheses \union Assertions
  BY <1>1 DEF Rerun, Named
<1>2. CASE l \in {Temp(k) : k \in 1..Len(hyps)}
  <2>1. PICK k \in 1..Len(hyps) : l = Temp(k)
    BY <1>2
  <2>2. k \in Nat /\ k \in 1..Len(hyps') /\ hyps'[k] = hyps[k]
    BY <1>0 DEF Grown
  <2>3. l \notin Hypotheses /\ l \notin Assertions /\ l[1] = k
    BY <2>1, <2>2, TempLabel
  <2> QED  BY <2>1, <2>2, <2>3 DEF Rerun, Named
<1> QED  BY <1>1, <1>2 DEF Named

LEMMA MomentsTyped ==
    ASSUME IInv
    PROVE  \A st \in Moments : st.proof \in Seq(Labels)
<1>1. KeptOK
  BY KeptSeq
<1>2. Moments \subseteq States
  <2>1. Kept \in Seq(States) /\ State \in States
    BY <1>1 DEF KeptOK
  <2> HIDE DEF Kept, State, States
  <2> QED  BY <2>1, ElementOfSeq DEF Moments
<1> QED  BY <1>2 DEF States

(* A label is added, and the stack is what it makes of the stack before. *)
LEMMA StaysTraced ==
    ASSUME IInv, Traced, client = "prover", ~broken, UNCHANGED Kept,
           hyps' \in Seq(Sentences), Grown(hyps', hyps),
           NEW l \in Labels, l \in Named', proof' = Append(proof, l),
           stack' = Rerun(hyps', stack, l)
    PROVE  Traced'
<1>1. /\ \A st \in Moments : Replays(st) /\ st.proof \in Seq(Labels)
      /\ hyps \in Seq(Sentences) /\ proof \in Seq(Labels)
  BY MomentsTyped DEF Traced, IInv, TypeOK
<1> HIDE DEF Named, Labels, Rerun
<1>2. ASSUME NEW st \in Moments
      PROVE  /\ Replay(hyps', st.proof) = st.stack
             /\ \A i \in 1..Len(st.proof) : st.proof[i] \in Named'
  <2>1. /\ Replay(hyps, st.proof) = st.stack /\ st.proof \in Seq(Labels)
        /\ \A i \in 1..Len(st.proof) : st.proof[i] \in Named
    BY <1>1 DEF Replays
  <2>2. \A i \in 1..Len(st.proof) :
            (\A x : Rerun(hyps', x, st.proof[i]) = Rerun(hyps, x, st.proof[i])) /\ st.proof[i] \in Named'
    BY <1>1, <2>1, NamedKept
  <2>3. Replay(hyps', st.proof) = Replay(hyps, st.proof)
    BY <2>1, <2>2, ReplayNew
  <2> QED  BY <2>1, <2>2, <2>3
<1>3. Moments' \subseteq Moments \union {State'} /\ State \in Moments
  BY NewMoment
<1>4. State.proof = proof /\ State.stack = stack /\ State'.proof = proof' /\ State'.stack = stack'
  BY DEF State
<1> HIDE DEF Moments, State
<1>5. Replay(hyps', proof) = stack /\ \A i \in 1..Len(proof) : proof[i] \in Named'
  BY <1>2, <1>3, <1>4
<1>6. Replay(hyps', proof') = stack'
  BY <1>1, <1>5, ReplayAppend
<1>7. \A i \in 1..Len(proof') : proof'[i] \in Named'
  <2>1. /\ Len(proof') = Len(proof) + 1 /\ Len(proof) \in Nat
        /\ \A i \in 1..Len(proof) : proof'[i] = proof[i]
        /\ proof'[Len(proof) + 1] = l
    BY <1>1, AppendProperties
  <2> SUFFICES ASSUME NEW i \in 1..Len(proof') PROVE proof'[i] \in Named'
    OBVIOUS
  <2>2. i \in 1..Len(proof) \/ i = Len(proof) + 1
    BY <2>1
  <2> QED  BY <1>5, <2>1, <2>2
<1> QED  BY <1>2, <1>3, <1>4, <1>6, <1>7 DEF Traced, Replays

(* Whatever leaves the proof, the stack and the hypotheses alone *)
LEMMA NoNewTrace ==
    ASSUME Traced, Moments' \subseteq Moments, UNCHANGED <<client, hyps>>, ~broken
    PROVE  Traced'
<1> HIDE DEF Moments, Replay
<1> QED  BY DEF Traced, Replays, Named

LEMMA NextTraced == IInv /\ IInv' /\ Traced /\ [Next]_vars => Traced'
<1> SUFFICES ASSUME IInv, IInv', Traced, [Next]_vars, client' = "prover", ~broken' PROVE Traced'
  BY DEF Traced
<1>0. /\ hyps \in Seq(Sentences) /\ hyps' \in Seq(Sentences) /\ Grown(hyps, hyps)
      /\ stack \in Seq(Sentences) /\ proof \in Seq(Labels)
  BY DEF IInv, TypeOK, Grown
<1>1. ASSUME NEW h \in Hypotheses, ProcessHypothesis(h) PROVE Traced'
  <2>1. /\ Statement[h] \in Sentences /\ h \in Labels /\ ~broken /\ client = "prover"
        /\ ProcessSentence(Statement[h], h) /\ UNCHANGED <<saved, checkpoints, hyps>>
    BY <1>1, LibraryAssumption DEF Labels, ProcessHypothesis, Room, setup
  <2>2. UNCHANGED Kept
    BY <2>1, PushedKept
  <2>3. proof' = Append(proof, h) /\ stack' = Rerun(hyps', stack, h) /\ h \in Named'
    BY <2>1 DEF ProcessSentence, Rerun, Named
  <2> QED  BY <1>0, <2>1, <2>2, <2>3, StaysTraced
<1>2. ASSUME NEW s \in Wanted, ProcessNewHypothesis(s) PROVE Traced'
  <2> DEFINE k == CHOOSE k \in DOMAIN hyps' : hyps'[k] = s
  <2>1. s \in Sentences
    BY LibraryAssumption
  <2>2. Temp(k) \in Labels
    BY <1>2, <2>1, NewLabel
  <2>3. /\ ProcessSentence(s, Temp(k)) /\ UNCHANGED <<saved, checkpoints>> /\ ~broken
        /\ client = "prover"
    BY <1>2 DEF ProcessNewHypothesis, Room
  <2>4. Grown(hyps', hyps) /\ \E j \in DOMAIN hyps' : hyps'[j] = s
    BY <1>0, <1>2, <2>1, HypothesisFound
  <2>5. k \in DOMAIN hyps' /\ hyps'[k] = s /\ DOMAIN hyps' = 1..Len(hyps')
    BY <1>0, <2>4
  <2> HIDE DEF k
  <2>6. k \in Nat /\ k \in 1..Len(hyps')
    BY <1>0, <2>5
  <2>7. Temp(k) \notin Hypotheses /\ Temp(k) \notin Assertions /\ Temp(k)[1] = k
    BY <2>6, TempLabel
  <2>8. /\ proof' = Append(proof, Temp(k)) /\ stack' = Rerun(hyps', stack, Temp(k))
        /\ Temp(k) \in Named'
    <3> HIDE DEF Temp
    <3> QED  BY <2>3, <2>5, <2>6, <2>7 DEF ProcessSentence, Rerun, Named
  <2>9. UNCHANGED Kept
    BY <2>1, <2>2, <2>3, PushedKept
  <2> QED  BY <1>0, <2>2, <2>3, <2>4, <2>8, <2>9, StaysTraced
<1>3. ASSUME NEW a \in Assertions, ProcessAssertion(a) PROVE Traced'
  <2>1. UNCHANGED Kept
    BY <1>3, AssertionKept
  <2>2. a \in Labels /\ a \notin Hypotheses /\ a \in Named'
    BY LabelAssumption DEF Labels, Named
  <2>3. /\ ~broken /\ client = "prover" /\ hyps' = hyps
        /\ proof' = Append(proof, a) /\ stack' = Rerun(hyps', stack, a)
    BY <1>3, <2>2 DEF ProcessAssertion, Room, Rerun, setup
  <2> QED  BY <1>0, <2>1, <2>2, <2>3, StaysTraced
<1>4. ASSUME NEW a \in Assertions, AbortAssertion(a) PROVE FALSE
  BY <1>4 DEF AbortAssertion
<1>5. ASSUME SaveStep \/ \E k \in 1..MaxSaved : ProcessSavedStep(k) PROVE FALSE
  BY <1>5 DEF SaveStep, ProcessSavedStep, setup
<1>6. CASE Checkpoint \/ Commit \/ Rollback
  <2>1. UNCHANGED <<client, hyps>>
    BY <1>6 DEF Checkpoint, Commit, Rollback, setup
  <2> QED  BY <1>6, <2>1, OldMoments, NoNewTrace
<1>7. CASE UNCHANGED vars
  <2>1. UNCHANGED <<client, hyps, broken>> /\ Moments' = Moments
    BY <1>7 DEF vars, Moments, State, Kept, Snapshot
  <2> QED  BY <2>1, NoNewTrace
<1> QED  BY <1>1, <1>2, <1>3, <1>4, <1>5, <1>6, <1>7 DEF Next

LEMMA InitTraced == Init => Traced
<1> SUFFICES ASSUME Init PROVE Traced
  OBVIOUS
<1>1. proof = <<>> /\ stack = <<>> /\ checkpoints = <<>> /\ Len(checkpoints) = 0
  BY DEF Init
<1>2. Replays(State)
  <2>1. State.proof = <<>> /\ State.stack = <<>> /\ 1..Len(<<>>) = {}
    BY <1>1 DEF State
  <2> QED  BY <2>1, ReplayEmpty DEF Replays
<1>3. Len(Kept) = 0
  BY <1>1, InitIInv, KeptSeq DEF KeptOK
<1> HIDE DEF Kept, State, Replays
<1> QED  BY <1>2, <1>3 DEF Traced, Moments

-----------------------------------------------------------------------------
(* Flattening.  What FlattenSeq makes of the first piece, the first two ... *)
Flats(f, pieces, n) ==
    f = [i \in 1..n |-> IF i = 1 THEN pieces[i] ELSE f[i - 1] \o pieces[i]]

LEMMA FlatsExist ==
    ASSUME NEW pieces, NEW n \in Nat
    PROVE  \E f : Flats(f, pieces, n)
<1> DEFINE Bad == {m \in Nat : ~\E f : Flats(f, pieces, m)}
<1> SUFFICES ASSUME Bad # {} PROVE FALSE
  OBVIOUS
<1>1. PICK m \in Bad : \A k \in Bad : m <= k
  <2>1. Bad \in SUBSET Nat
    OBVIOUS
  <2> HIDE DEF Bad
  <2> QED  BY <2>1, Least
<1>2. m # 0
  <2> DEFINE f == [k \in 1..0 |-> <<>>]
  <2>1. 1..0 = {}
    OBVIOUS
  <2>2. Flats(f, pieces, 0)
    BY <2>1 DEF Flats
  <2> QED  BY <1>1, <2>2
<1>3. m \in Nat /\ m - 1 \in Nat /\ m - 1 \notin Bad
  BY <1>1, <1>2
<1>4. PICK f : Flats(f, pieces, m - 1)
  BY <1>3
<1> HIDE DEF Bad
<1> DEFINE g == [k \in 1..m |-> IF k # m THEN f[k]
                                ELSE IF k = 1 THEN pieces[k] ELSE f[k - 1] \o pieces[k]]
<1>5. \A k \in 1..m : g[k] = IF k = 1 THEN pieces[k] ELSE g[k - 1] \o pieces[k]
  <2> SUFFICES ASSUME NEW k \in 1..m
               PROVE  g[k] = IF k = 1 THEN pieces[k] ELSE g[k - 1] \o pieces[k]
    OBVIOUS
  <2>1. k # 1 => k - 1 \in 1..m /\ k - 1 # m /\ g[k - 1] = f[k - 1]
    BY <1>3
  <2>2. CASE k = m
    BY <2>1, <2>2
  <2>3. CASE k # m
    <3>1. k \in 1..(m - 1)
      BY <1>3, <2>3
    <3>2. f[k] = IF k = 1 THEN pieces[k] ELSE f[k - 1] \o pieces[k]
      BY <1>4, <3>1 DEF Flats
    <3>3. g[k] = f[k]
      BY <2>3
    <3> QED  BY <2>1, <3>2, <3>3
  <2> QED  BY <2>2, <2>3
<1>6. g = [k \in 1..m |-> g[k]]
  OBVIOUS
<1>7. Flats(g, pieces, m)
  <2> HIDE DEF g
  <2> QED  BY <1>5, <1>6 DEF Flats
<1>8. m \in Bad
  BY <1>1
<1> QED  BY <1>7, <1>8 DEF Bad

LEMMA SameFlats ==
    ASSUME NEW f, NEW pieces, NEW n \in Nat, Flats(f, pieces, n),
           NEW g, NEW others, NEW m \in Nat, Flats(g, others, m),
           NEW k \in 1..n, k <= m, \A i \in 1..k : pieces[i] = others[i]
    PROVE  f[k] = g[k]
<1> DEFINE Bad == {i \in 1..k : f[i] # g[i]}
<1> SUFFICES ASSUME Bad # {} PROVE FALSE
  BY SMT
<1>1. PICK i \in Bad : \A j \in Bad : i <= j
  <2>1. Bad \in SUBSET Nat
    BY SMT
  <2> HIDE DEF Bad
  <2> QED  BY <2>1, Least
<1>2. i \in 1..k /\ f[i] # g[i] /\ i \in 1..n /\ i \in 1..m /\ pieces[i] = others[i]
  BY <1>1
<1>3. /\ f[i] = IF i = 1 THEN pieces[i] ELSE f[i - 1] \o pieces[i]
      /\ g[i] = IF i = 1 THEN others[i] ELSE g[i - 1] \o others[i]
  BY <1>2 DEF Flats
<1>4. i # 1
  BY <1>2, <1>3
<1>5. i - 1 \in 1..k /\ i - 1 \notin Bad
  BY <1>1, <1>2, <1>4
<1>6. f[i - 1] = g[i - 1]
  BY <1>5
<1> QED  BY <1>2, <1>3, <1>4, <1>6

LEMMA FlattenEmpty == FlattenSeq(<<>>) = <<>>
BY EmptySeq DEF FlattenSeq

LEMMA FlattenFlats ==
    ASSUME NEW S, NEW pieces \in Seq(S), pieces # <<>>
    PROVE  \E f : Flats(f, pieces, Len(pieces)) /\ FlattenSeq(pieces) = f[Len(pieces)]
<1>1. Len(pieces) \in Nat /\ Len(pieces) # 0
  BY EmptySeq
<1> DEFINE flatten == CHOOSE f : Flats(f, pieces, Len(pieces))
<1>2. Flats(flatten, pieces, Len(pieces))
  BY <1>1, FlatsExist
<1>3. FlattenSeq(pieces) = flatten[Len(pieces)]
  BY <1>1 DEF FlattenSeq, Flats
<1> QED  BY <1>2, <1>3

LEMMA FlattenAppend ==
    ASSUME NEW S, NEW pieces \in Seq(Seq(S)), NEW e \in Seq(S)
    PROVE  FlattenSeq(Append(pieces, e)) = FlattenSeq(pieces) \o e
<1> DEFINE n    == Len(pieces)
           more == Append(pieces, e)
<1>1. /\ n \in Nat /\ more \in Seq(Seq(S)) /\ Len(more) = n + 1
      /\ \A i \in 1..n : more[i] = pieces[i]
      /\ more[n + 1] = e
  BY AppendProperties
<1> HIDE DEF more
<1>2. more # <<>>
  BY <1>1, EmptySeq
<1>3. PICK g : Flats(g, more, n + 1) /\ FlattenSeq(more) = g[n + 1]
  BY <1>1, <1>2, FlattenFlats
<1>4. g[n + 1] = IF n + 1 = 1 THEN e ELSE g[(n + 1) - 1] \o e
  <2>1. n + 1 \in 1..(n + 1)
    BY <1>1
  <2> QED  BY <1>1, <1>3, <2>1 DEF Flats
<1>5. CASE pieces = <<>>
  <2>1. n = 0 /\ FlattenSeq(pieces) = <<>>
    BY <1>5, EmptySeq, FlattenEmpty
  <2>2. FlattenSeq(more) = e
    BY <1>3, <1>4, <2>1
  <2> QED  BY <2>1, <2>2, ConcatEmptySeq DEF more
<1>6. CASE pieces # <<>>
  <2>1. n # 0 /\ n \in 1..n /\ n \in 1..(n + 1) /\ n + 1 # 1 /\ (n + 1) - 1 = n
    BY <1>1, <1>6, EmptySeq
  <2>2. PICK f : Flats(f, pieces, n) /\ FlattenSeq(pieces) = f[n]
    BY <1>6, FlattenFlats
  <2> HIDE DEF n
  <2>3. f[n] = g[n]
    <3>1. n + 1 \in Nat /\ n <= n + 1 /\ \A i \in 1..n : pieces[i] = more[i]
      BY <1>1
    <3> QED  BY <1>1, <1>3, <2>1, <2>2, <3>1, SameFlats
  <2> QED  BY <1>3, <1>4, <2>1, <2>2, <2>3 DEF more
<1> QED  BY <1>5, <1>6

(* The pieces after some of them *)
Above(s, b) == [i \in 1..(Len(s) - b) |-> s[b + i]]

LEMMA AboveTyped ==
    ASSUME NEW S, NEW s \in Seq(S), NEW b \in 0..Len(s)
    PROVE  /\ Above(s, b) \in Seq(S) /\ Len(Above(s, b)) = Len(s) - b
           /\ \A i \in 1..(Len(s) - b) : Above(s, b)[i] = s[b + i]
<1>1. Len(s) - b \in Nat
  OBVIOUS
<1>2. \A i \in 1..(Len(s) - b) : s[b + i] \in S
  <2>1. \A i \in 1..(Len(s) - b) : b + i \in 1..Len(s)
    OBVIOUS
  <2> QED  BY <2>1, ElementOfSeq
<1>3. Above(s, b) \in [1..(Len(s) - b) -> S]
  BY <1>2 DEF Above
<1>4. Above(s, b) \in Seq(S)
  BY <1>1, <1>3, SeqDef
<1> QED  BY <1>1, <1>3, <1>4 DEF Above

LEMMA AppendCut ==
    ASSUME NEW S, NEW s \in Seq(S), NEW e \in S, NEW b \in 0..Len(s)
    PROVE  /\ Resized(Append(s, e), b) = Resized(s, b)
           /\ Above(Append(s, e), b) = Append(Above(s, b), e)
<1> DEFINE t == Append(s, e)
           a == Above(s, b)
<1>1. /\ t \in Seq(S) /\ Len(t) = Len(s) + 1 /\ Len(s) \in Nat
      /\ \A i \in 1..Len(s) : t[i] = s[i]
      /\ t[Len(s) + 1] = e
  BY AppendProperties
<1>2. /\ a \in Seq(S) /\ Len(a) = Len(s) - b
      /\ \A i \in 1..(Len(s) - b) : a[i] = s[b + i]
  BY AboveTyped
<1> HIDE DEF t, a
<1>3. /\ Append(a, e) \in Seq(S) /\ Len(Append(a, e)) = Len(s) - b + 1
      /\ \A i \in 1..(Len(s) - b) : Append(a, e)[i] = s[b + i]
      /\ Append(a, e)[Len(s) - b + 1] = e
  BY <1>2, AppendProperties
<1>4. b \in 0..Len(t)
  BY <1>1
<1>5. /\ Above(t, b) \in Seq(S) /\ Len(Above(t, b)) = Len(t) - b
      /\ \A i \in 1..(Len(t) - b) : Above(t, b)[i] = t[b + i]
  BY <1>1, <1>4, AboveTyped
<1>6. Above(t, b) = Append(a, e)
  <2>1. Len(Above(t, b)) = Len(Append(a, e)) /\ Len(Above(t, b)) = Len(s) - b + 1
    BY <1>1, <1>3, <1>5
  <2>2. ASSUME NEW i \in 1..Len(Above(t, b)) PROVE Above(t, b)[i] = Append(a, e)[i]
    <3>1. Above(t, b)[i] = t[b + i]
      BY <1>5
    <3>2. CASE i = Len(s) - b + 1
      <4>1. b + i = Len(s) + 1
        BY <1>1, <3>2
      <4> QED  BY <1>1, <1>3, <3>1, <3>2, <4>1
    <3>3. CASE i # Len(s) - b + 1
      <4>1. i \in 1..(Len(s) - b + 1)
        BY <2>1
      <4>2. i \in 1..(Len(s) - b) /\ b + i \in 1..Len(s)
        BY <1>1, <3>3, <4>1
      <4> QED  BY <1>1, <1>3, <3>1, <4>2
    <3> QED  BY <3>2, <3>3
  <2> QED  BY <1>3, <1>5, <2>1, <2>2, SeqEqual
<1> QED  BY <1>6, ResizedAppend DEF t, a

LEMMA FrontAndLast ==
    ASSUME NEW S, NEW s \in Seq(S), s # <<>>
    PROVE  \E t \in Seq(S), e \in S : s = Append(t, e) /\ Len(s) = Len(t) + 1
<1> DEFINE t == Front(s)
           e == Last(s)
<1>1. /\ t \in Seq(S) /\ Len(s) \in Nat \ {0} /\ Len(t) = Len(s) - 1
      /\ \A i \in 1..(Len(s) - 1) : t[i] = s[i]
      /\ e = s[Len(s)] /\ e \in S
  BY FrontIsPrefix
<1> HIDE DEF t, e
<1>2. /\ Append(t, e) \in Seq(S) /\ Len(Append(t, e)) = Len(t) + 1
      /\ \A i \in 1..Len(t) : Append(t, e)[i] = t[i]
      /\ Append(t, e)[Len(t) + 1] = e
  BY <1>1, AppendProperties
<1>3. Len(s) = Len(t) + 1 /\ Len(s) = Len(Append(t, e))
  BY <1>1, <1>2
<1>4. \A i \in 1..Len(s) : s[i] = Append(t, e)[i]
  BY <1>1, <1>2, <1>3
<1>5. s = Append(t, e)
  BY <1>2, <1>3, <1>4, SeqEqual
<1> QED  BY <1>1, <1>3, <1>5

LEMMA FlattenTyped ==
    ASSUME NEW S, NEW pieces \in Seq(Seq(S))
    PROVE  FlattenSeq(pieces) \in Seq(S)
<1> DEFINE Bad == {n \in Nat : \E s \in Seq(Seq(S)) : Len(s) = n /\ FlattenSeq(s) \notin Seq(S)}
<1> SUFFICES ASSUME Bad # {} PROVE FALSE
  OBVIOUS
<1>1. PICK n \in Bad : \A m \in Bad : n <= m
  <2>1. Bad \in SUBSET Nat
    OBVIOUS
  <2> HIDE DEF Bad
  <2> QED  BY <2>1, Least
<1>2. PICK s \in Seq(Seq(S)) : Len(s) = n /\ FlattenSeq(s) \notin Seq(S)
  BY <1>1
<1>3. s # <<>>
  BY <1>2, FlattenEmpty, EmptySeq
<1>4. PICK t \in Seq(Seq(S)), e \in Seq(S) : s = Append(t, e) /\ Len(s) = Len(t) + 1
  BY <1>3, FrontAndLast
<1>5. FlattenSeq(t) \in Seq(S)
  <2>1. Len(t) \in Nat /\ Len(t) < n
    BY <1>2, <1>4
  <2>2. Len(t) \notin Bad
    <3> HIDE DEF Bad
    <3>1. \A m \in Bad : n <= m
      BY <1>1
    <3>2. n \in Nat
      BY <1>2
    <3> QED  BY <2>1, <3>1, <3>2
  <2> QED  BY <2>1, <2>2
<1>6. FlattenSeq(s) = FlattenSeq(t) \o e
  BY <1>4, FlattenAppend
<1> QED  BY <1>2, <1>5, <1>6, ConcatProperties

(* The first pieces and the others can be flattened separately. *)
LEMMA FlattenCut ==
    ASSUME NEW S, NEW pieces \in Seq(Seq(S)), NEW b \in 0..Len(pieces)
    PROVE  FlattenSeq(pieces) = FlattenSeq(Resized(pieces, b)) \o FlattenSeq(Above(pieces, b))
<1> DEFINE Right(s) == FlattenSeq(s) = FlattenSeq(Resized(s, b)) \o FlattenSeq(Above(s, b))
           Bad == {n \in Nat : \E s \in Seq(Seq(S)) : Len(s) = n /\ b \in 0..n /\ ~Right(s)}
<1>0. Len(pieces) \in Nat
  OBVIOUS
<1> SUFFICES ASSUME Bad # {} PROVE FALSE
  BY <1>0, Zenon
<1>1. PICK n \in Bad : \A m \in Bad : n <= m
  <2>1. Bad \in SUBSET Nat
    OBVIOUS
  <2> HIDE DEF Bad
  <2> QED  BY <2>1, Least
<1>2. PICK s \in Seq(Seq(S)) : Len(s) = n /\ b \in 0..n /\ ~Right(s)
  BY <1>1
<1>3. b \in Nat /\ n \in Nat /\ b <= n
  BY <1>2
<1>4. CASE b = n
  <2>1. Resized(s, b) = s
    BY <1>2, <1>4, ResizedFull
  <2>2. Above(s, b) = <<>>
    <3>1. Above(s, b) \in Seq(Seq(S)) /\ Len(Above(s, b)) = Len(s) - b
      BY <1>2, AboveTyped
    <3>2. Len(Above(s, b)) = 0
      BY <1>2, <1>3, <1>4, <3>1
    <3> QED  BY <3>1, <3>2, EmptySeq
  <2>3. FlattenSeq(s) \in Seq(S)
    BY FlattenTyped
  <2> QED  BY <1>2, <2>1, <2>2, <2>3, FlattenEmpty, ConcatEmptySeq
<1>5. CASE b # n
  <2>1. s # <<>>
    BY <1>2, <1>3, <1>5, EmptySeq
  <2>2. PICK t \in Seq(Seq(S)), e \in Seq(S) : s = Append(t, e) /\ Len(s) = Len(t) + 1
    BY <2>1, FrontAndLast
  <2>3. Len(t) \in Nat /\ Len(t) < n /\ b \in 0..Len(t)
    <3>1. Len(t) \in Nat /\ n = Len(t) + 1
      <4> HIDE DEF Right, Bad
      <4> QED  BY <1>2, <2>2
    <3> QED  BY <1>3, <1>5, <3>1
  <2>4. Right(t)
    <3>1. Len(t) \notin Bad
      <4> HIDE DEF Bad
      <4>1. \A m \in Bad : n <= m
        BY <1>1
      <4> QED  BY <1>3, <2>3, <4>1
    <3> QED  BY <2>3, <3>1
  <2> DEFINE low  == FlattenSeq(Resized(t, b))
             high == FlattenSeq(Above(t, b))
  <2>5. Resized(s, b) = Resized(t, b) /\ Above(s, b) = Append(Above(t, b), e)
    BY <2>2, <2>3, AppendCut
  <2>6. Resized(t, b) \in Seq(Seq(S)) /\ Above(t, b) \in Seq(Seq(S))
    BY <2>3, ResizedIsPrefix, AboveTyped
  <2>7. low \in Seq(S) /\ high \in Seq(S)
    BY <2>6, FlattenTyped
  <2>8. FlattenSeq(s) = FlattenSeq(t) \o e
    BY <2>2, FlattenAppend
  <2>9. FlattenSeq(Above(s, b)) = high \o e
    BY <2>5, <2>6, FlattenAppend
  <2>10. FlattenSeq(t) = low \o high
    BY <2>4
  <2> HIDE DEF low, high
  <2>11. (low \o high) \o e = low \o (high \o e)
    <3> HIDE DEF Right, Bad
    <3>1. e \in Seq(S)
      OBVIOUS
    <3> QED  BY <2>7, <3>1, SMTT(30)
  <2>12. FlattenSeq(s) = low \o FlattenSeq(Above(s, b))
    BY <2>8, <2>9, <2>10, <2>11
  <2> QED  BY <1>2, <2>5, <2>12 DEF low
<1> QED  BY <1>4, <1>5

(* Executors: the trees are those of the stack, and hold the labels of the  *)
(* proof.                                                                   *)
Pieces == [i \in DOMAIN trees |-> trees[i].labels]

Walked ==
    genProofTree /\ client = "executor" /\ ~broken =>
        /\ Pieces \in Seq(Seq(Labels))
        /\ stack = [i \in DOMAIN trees |-> trees[i].sentence]
        /\ proof = FlattenSeq(Pieces)

LEMMA PiecesTyped ==
    ASSUME IInv
    PROVE  /\ Len(trees) \in Nat /\ DOMAIN trees = 1..Len(trees)
           /\ DOMAIN Pieces = 1..Len(trees)
           /\ \A i \in 1..Len(trees) : Pieces[i] = trees[i].labels
<1>1. PICK S : trees \in Seq(S)
  BY DEF IInv, TreesSeq
<1> QED  BY <1>1, LenProperties DEF Pieces

(* A tree takes the place of those above a base. *)
LEMMA TreeGrown ==
    ASSUME IInv, Pieces \in Seq(Seq(Labels)), stack = [i \in DOMAIN trees |-> trees[i].sentence],
           NEW n \in 0..Len(trees), NEW s \in Sentences, NEW l \in Seq(Labels),
           trees' = Append(Resized(trees, n), [sentence |-> s, labels |-> l]),
           stack' = Append(Resized(stack, n), s)
    PROVE  /\ Pieces' = Append(Resized(Pieces, n), l) /\ Pieces' \in Seq(Seq(Labels))
           /\ stack' = [i \in DOMAIN trees' |-> trees'[i].sentence]
<1> DEFINE tree == [sentence |-> s, labels |-> l]
<1>1. PICK S : trees \in Seq(S)
  BY DEF IInv, TreesSeq
<1>2. /\ Len(trees) \in Nat /\ n \in Nat /\ n <= Len(trees)
      /\ DOMAIN trees = 1..Len(trees) /\ Len(Pieces) = Len(trees)
      /\ stack \in Seq(Sentences) /\ Len(stack) = Len(trees)
      /\ \A i \in 1..Len(trees) : Pieces[i] = trees[i].labels /\ stack[i] = trees[i].sentence
  <2>1. /\ Len(trees) \in Nat /\ DOMAIN trees = 1..Len(trees) /\ DOMAIN Pieces = 1..Len(trees)
        /\ \A i \in 1..Len(trees) : Pieces[i] = trees[i].labels
    BY PiecesTyped
  <2>2. stack \in Seq(Sentences) /\ DOMAIN stack = 1..Len(trees)
    BY <2>1 DEF IInv, TypeOK
  <2>3. Len(stack) = Len(trees) /\ Len(Pieces) = Len(trees)
    <3> HIDE DEF Pieces
    <3> QED  BY <2>1, <2>2, LenProperties
  <2> QED  BY <2>1, <2>2, <2>3
<1> DEFINE T == S \union {tree}
<1>3. trees \in Seq(T)
  BY <1>1, SeqMonotonic
<1>4. /\ Resized(trees, n) \in Seq(T) /\ Len(Resized(trees, n)) = n
      /\ \A i \in 1..n : Resized(trees, n)[i] = trees[i]
  BY <1>2, <1>3, ResizedIsPrefix
<1>5. /\ Resized(stack, n) \in Seq(Sentences) /\ Len(Resized(stack, n)) = n
      /\ \A i \in 1..n : Resized(stack, n)[i] = stack[i]
  BY <1>2, ResizedIsPrefix
<1> HIDE DEF Pieces
<1>6. /\ Resized(Pieces, n) \in Seq(Seq(Labels)) /\ Len(Resized(Pieces, n)) = n
      /\ \A i \in 1..n : Resized(Pieces, n)[i] = Pieces[i]
  BY <1>2, ResizedIsPrefix
<1>7. tree.sentence = s /\ tree.labels = l /\ tree \in T
  OBVIOUS
<1> HIDE DEF tree, T
<1>8. /\ DOMAIN trees' = 1..(n + 1)
      /\ \A i \in 1..n : trees'[i] = trees[i]
      /\ trees'[n + 1] = tree
  <2>1. PICK q : q = Resized(trees, n)
    OBVIOUS
  <2>2. trees' = Append(q, tree) /\ q \in Seq(T) /\ Len(q) = n /\ \A i \in 1..n : q[i] = trees[i]
    BY <1>4, <2>1 DEF tree
  <2>3. /\ Append(q, tree) \in Seq(T) /\ Len(Append(q, tree)) = Len(q) + 1
        /\ \A i \in 1..Len(q) : Append(q, tree)[i] = q[i]
        /\ Append(q, tree)[Len(q) + 1] = tree
    BY <1>7, <2>2, AppendProperties
  <2>4. trees' \in [1..(n + 1) -> T]
    BY <2>2, <2>3, LenProperties
  <2> QED  BY <2>2, <2>3, <2>4
<1>9. /\ \A i \in 1..n : stack'[i] = stack[i]
      /\ stack'[n + 1] = s
      /\ stack' = [i \in 1..(n + 1) |-> stack'[i]]
  <2>1. PICK q : q = Resized(stack, n)
    OBVIOUS
  <2>2. stack' = Append(q, s) /\ q \in Seq(Sentences) /\ Len(q) = n /\ \A i \in 1..n : q[i] = stack[i]
    BY <1>5, <2>1
  <2>3. /\ Append(q, s) \in Seq(Sentences) /\ Len(Append(q, s)) = Len(q) + 1
        /\ \A i \in 1..Len(q) : Append(q, s)[i] = q[i]
        /\ Append(q, s)[Len(q) + 1] = s
    BY <2>2, AppendProperties
  <2>4. stack' \in [1..(n + 1) -> Sentences]
    BY <2>2, <2>3, LenProperties
  <2> QED  BY <2>2, <2>3, <2>4
<1>10. PICK more : more = Append(Resized(Pieces, n), l)
  OBVIOUS
<1>11. /\ more \in Seq(Seq(Labels))
       /\ \A i \in 1..n : more[i] = Pieces[i]
       /\ more[n + 1] = l
       /\ more = [i \in 1..(n + 1) |-> more[i]]
  <2>1. PICK q : q = Resized(Pieces, n)
    OBVIOUS
  <2>2. more = Append(q, l) /\ q \in Seq(Seq(Labels)) /\ Len(q) = n /\ \A i \in 1..n : q[i] = Pieces[i]
    BY <1>6, <1>10, <2>1
  <2>3. /\ more \in Seq(Seq(Labels)) /\ Len(more) = Len(q) + 1
        /\ \A i \in 1..Len(q) : more[i] = q[i]
        /\ more[Len(q) + 1] = l
    BY <2>2, AppendProperties
  <2>4. more \in [1..(n + 1) -> Seq(Labels)]
    BY <2>2, <2>3, LenProperties
  <2> QED  BY <2>2, <2>3, <2>4
<1>12. \A i \in 1..(n + 1) : i \in 1..n \/ i = n + 1
  BY <1>2
<1>13. \A i \in 1..n : i \in 1..Len(trees)
  BY <1>2
<1>14. \A i \in 1..(n + 1) : more[i] = trees'[i].labels /\ stack'[i] = trees'[i].sentence
  <2> TAKE i \in 1..(n + 1)
  <2>1. CASE i \in 1..n
    <3>1. i \in 1..Len(trees)
      BY <1>13, <2>1
    <3>2. Pieces[i] = trees[i].labels /\ stack[i] = trees[i].sentence
      BY <1>2, <3>1
    <3> QED  BY <1>8, <1>9, <1>11, <2>1, <3>2
  <2>2. CASE i = n + 1
    BY <1>7, <1>8, <1>9, <1>11, <2>2
  <2> QED  BY <1>12, <2>1, <2>2
<1>15. Pieces' = [i \in 1..(n + 1) |-> trees'[i].labels]
  BY <1>8 DEF Pieces
<1>16. Pieces' = more /\ stack' = [i \in 1..(n + 1) |-> trees'[i].sentence]
  BY <1>9, <1>11, <1>14, <1>15
<1> QED  BY <1>8, <1>10, <1>11, <1>16

LEMMA PushedWalked ==
    ASSUME IInv, Walked, ~broken, NEW s \in Sentences, NEW label \in Labels, ProcessSentence(s, label),
           UNCHANGED setup
    PROVE  Walked'
<1> SUFFICES ASSUME genProofTree, client = "executor" PROVE Walked'
  BY DEF Walked, setup
<1>1. /\ Pieces \in Seq(Seq(Labels)) /\ stack = [i \in DOMAIN trees |-> trees[i].sentence]
      /\ proof = FlattenSeq(Pieces)
  BY DEF Walked
<1>2. /\ trees' = Append(trees, [sentence |-> s, labels |-> <<label>>])
      /\ stack' = Append(stack, s) /\ proof' = Append(proof, label)
  BY DEF ProcessSentence, KeepTree
<1>3. Len(trees) \in Nat /\ Len(trees) \in 0..Len(trees) /\ Resized(trees, Len(trees)) = trees
  <2>1. PICK S : trees \in Seq(S)
    BY DEF IInv, TreesSeq
  <2> QED  BY <2>1, ResizedFull
<1>4. /\ Len(stack) = Len(trees) /\ Resized(stack, Len(trees)) = stack
      /\ Len(Pieces) = Len(trees) /\ Resized(Pieces, Len(trees)) = Pieces
  <2>1. stack \in Seq(Sentences) /\ DOMAIN stack = 1..Len(trees)
    BY <1>1, PiecesTyped DEF IInv, TypeOK
  <2>2. Len(stack) = Len(trees)
    BY <1>3, <2>1, LenProperties
  <2>3. Len(Pieces) = Len(trees)
    <3>1. DOMAIN Pieces = 1..Len(trees)
      BY PiecesTyped
    <3> HIDE DEF Pieces
    <3> QED  BY <1>1, <1>3, <3>1, LenProperties
  <2> QED  BY <1>1, <2>1, <2>2, <2>3, ResizedFull
<1>5. <<label>> \in Seq(Labels)
  OBVIOUS
<1> HIDE DEF Labels, Pieces
<1>6. /\ Pieces' = Append(Pieces, <<label>>) /\ Pieces' \in Seq(Seq(Labels))
      /\ stack' = [i \in DOMAIN trees' |-> trees'[i].sentence]
  BY <1>1, <1>2, <1>3, <1>4, <1>5, TreeGrown
<1>7. FlattenSeq(Append(Pieces, <<label>>)) = proof \o <<label>>
  BY <1>1, <1>5, FlattenAppend
<1>8. proof \in Seq(Labels)
  BY DEF IInv, TypeOK
<1>9. Append(proof, label) = proof \o <<label>>
  BY <1>8, AppendIsConcat
<1> QED  BY <1>2, <1>6, <1>7, <1>9 DEF Walked

LEMMA AssertionWalked ==
    ASSUME IInv, Walked, NEW a \in Assertions, ProcessAssertion(a)
    PROVE  Walked'
<1> DEFINE base   == Len(stack) - Mandatory(a)
           thesis == Thesis[a][From(stack, base)]
           labels == Postorder(a, base)
           above  == FlattenSeq(Above(Pieces, base))
<1> SUFFICES ASSUME genProofTree, client = "executor", ~broken' PROVE Walked'
  BY DEF Walked, ProcessAssertion, setup
<1>0. Accepted(a, base) /\ thesis \in Sentences /\ ~broken /\ ~Underflow(base)
  BY DEF ProcessAssertion, Accepted, Room
<1>1. /\ Pieces \in Seq(Seq(Labels)) /\ stack = [i \in DOMAIN trees |-> trees[i].sentence]
      /\ proof = FlattenSeq(Pieces)
  BY <1>0 DEF Walked
<1>2. base \in 0..Len(stack) /\ base \in Nat
  BY <1>0, AssertionSizes
<1>3. Len(trees) \in Nat /\ Len(stack) = Len(trees) /\ Len(Pieces) = Len(trees)
  <2>1. /\ stack \in Seq(Sentences) /\ DOMAIN stack = 1..Len(trees)
        /\ Len(trees) \in Nat /\ DOMAIN Pieces = 1..Len(trees)
    BY <1>1, PiecesTyped DEF IInv, TypeOK
  <2> HIDE DEF Pieces
  <2> QED  BY <1>1, <2>1, LenProperties
<1>4. /\ stack' = Append(Resized(stack, base), thesis)
      /\ trees' = Append(Resized(trees, base), [sentence |-> thesis, labels |-> labels])
      /\ proof' = Append(proof, a)
  BY <1>0 DEF ProcessAssertion, KeepTree, TreesBelow
<1>5. labels = above \o <<a>>
  <2>1. \A i \in 1..(Len(trees) - base) : Pieces[base + i] = trees[base + i].labels
    <3>1. \A i \in 1..(Len(trees) - base) : base + i \in 1..Len(trees)
      BY <1>2, <1>3
    <3> QED  BY <3>1, PiecesTyped
  <2>2. Above(Pieces, base) = [i \in 1..(Len(trees) - base) |-> trees[base + i].labels]
    <3> HIDE DEF Pieces, base
    <3> QED  BY <1>3, <2>1 DEF Above
  <2> HIDE DEF base
  <2> QED  BY <2>2 DEF Postorder
<1> HIDE DEF base, thesis, labels, Pieces
<1>6. /\ Resized(Pieces, base) \in Seq(Seq(Labels)) /\ Above(Pieces, base) \in Seq(Seq(Labels))
      /\ base \in 0..Len(Pieces) /\ base \in 0..Len(trees)
  BY <1>1, <1>2, <1>3, ResizedIsPrefix, AboveTyped
<1> DEFINE below == FlattenSeq(Resized(Pieces, base))
<1>7. above \in Seq(Labels) /\ below \in Seq(Labels) /\ <<a>> \in Seq(Labels) /\ a \in Labels
  <2>1. a \in Labels
    BY DEF Labels
  <2>2. <<a>> \in Seq(Labels)
    BY <2>1
  <2> QED  BY <1>6, <2>1, <2>2, FlattenTyped
<1>8. proof = below \o above
  BY <1>1, <1>6, FlattenCut
<1> HIDE DEF Labels
<1>9. labels \in Seq(Labels)
  BY <1>5, <1>7, ConcatProperties
<1>10. /\ Pieces' = Append(Resized(Pieces, base), labels) /\ Pieces' \in Seq(Seq(Labels))
       /\ stack' = [i \in DOMAIN trees' |-> trees'[i].sentence]
  BY <1>0, <1>1, <1>4, <1>6, <1>9, TreeGrown
<1>11. FlattenSeq(Pieces') = below \o labels
  BY <1>6, <1>9, <1>10, FlattenAppend
<1> HIDE DEF above, below
<1>12. below \o (above \o <<a>>) = (below \o above) \o <<a>>
  BY <1>7, SMTT(30)
<1>13. Append(proof, a) = proof \o <<a>>
  <2>1. proof \in Seq(Labels)
    BY DEF IInv, TypeOK
  <2> QED  BY <1>7, <2>1, AppendIsConcat
<1>14. proof' = FlattenSeq(Pieces')
  BY <1>4, <1>5, <1>8, <1>11, <1>12, <1>13
<1> QED  BY <1>10, <1>14 DEF Walked

LEMMA NextWalked == IInv /\ Walked /\ [Next]_vars => Walked'
<1> SUFFICES ASSUME IInv, Walked, [Next]_vars PROVE Walked'
  OBVIOUS
<1>1. ASSUME NEW h \in Hypotheses, ProcessHypothesis(h) PROVE Walked'
  <2>1. /\ Statement[h] \in Sentences /\ h \in Labels /\ ~broken
        /\ ProcessSentence(Statement[h], h) /\ UNCHANGED setup
    BY <1>1, LibraryAssumption DEF Labels, ProcessHypothesis, Room
  <2> QED  BY <2>1, PushedWalked
<1>2. ASSUME NEW s \in Wanted, ProcessNewHypothesis(s) PROVE Walked'
  BY <1>2 DEF ProcessNewHypothesis, Walked, setup
<1>3. ASSUME NEW a \in Assertions, ProcessAssertion(a) PROVE Walked'
  BY <1>3, AssertionWalked
<1>4. ASSUME NEW a \in Assertions, AbortAssertion(a) PROVE Walked'
  BY <1>4 DEF AbortAssertion, Walked
<1>5. CASE SaveStep
  <2>1. UNCHANGED <<client, genProofTree, stack, proof, trees>> /\ ~broken
    BY <1>5 DEF SaveStep, setup
  <2> QED  BY <2>1 DEF Walked, Pieces
<1>6. ASSUME NEW k \in 1..MaxSaved, ProcessSavedStep(k) PROVE Walked'
  <2>1. /\ saved[k] \in Sentences /\ None \in Labels /\ ~broken
        /\ ProcessSentence(saved[k], None) /\ UNCHANGED setup
    BY <1>6 DEF ProcessSavedStep, Labels, IInv, TypeOK, Room
  <2> QED  BY <2>1, PushedWalked
<1>7. CASE Checkpoint \/ Commit \/ Rollback
  BY <1>7 DEF Checkpoint, Commit, Rollback, Walked, setup
<1>8. CASE UNCHANGED vars
  BY <1>8 DEF vars, Walked, Pieces
<1> QED  BY <1>1, <1>2, <1>3, <1>4, <1>5, <1>6, <1>7, <1>8 DEF Next

LEMMA InitWalked == Init => Walked
<1> SUFFICES ASSUME Init PROVE Walked
  OBVIOUS
<1>1. trees = <<>> /\ stack = <<>> /\ proof = <<>> /\ DOMAIN <<>> = {}
  BY DEF Init
<1>2. Pieces = <<>> /\ stack = [i \in DOMAIN trees |-> trees[i].sentence]
  BY <1>1 DEF Pieces
<1>3. Pieces \in Seq(Seq(Labels))
  BY <1>2, EmptySeq
<1> QED  BY <1>1, <1>2, <1>3, FlattenEmpty DEF Walked

(* For any library, bounds, nesting of checkpoints and order of calls: the  *)
(* trees of an executor are those of the stack and list the labels in the   *)
(* order of the proof, saved steps and assertions included; and the labels  *)
(* of a prover, run again, give its stack, whatever was rolled back, and    *)
(* whatever hypotheses were asked for in attempts that failed.              *)
THEOREM StackIsDescribed == Spec => []StackDescribed
<1>1. Traced => LabelsReplay
  <2>1. State \in Moments /\ State.proof = proof /\ State.stack = stack
    BY DEF Moments, State
  <2> HIDE DEF State, Moments, Replay
  <2> QED  BY <2>1 DEF Traced, Replays, LabelsReplay
<1>2. Walked => TreesMatch
  BY DEF Walked, TreesMatch, Pieces
<1> QED  BY <1>1, <1>2, InitTraced, NextTraced, InitWalked, NextWalked, Invariance, PTL
         DEF Spec, StackDescribed

=============================================================================
