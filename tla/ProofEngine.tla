----------------------------- MODULE ProofEngine -----------------------------
(***************************************************************************)
(* The stack machine that runs Metamath proofs (mm/engine.h).  A label of   *)
(* a hypothesis pushes its sentence; a label of an assertion pops the       *)
(* sentences that match its hypotheses and pushes its thesis, or is refused *)
(* with a ProofException before anything has changed.  Next to the stack    *)
(* the engine keeps, entry by entry, the distinct variable constraints that *)
(* the entry rests on and, on demand, its proof tree.                       *)
(*                                                                         *)
(* It has two kinds of clients.  An executor (mm/proof.h) runs a proof of   *)
(* the library; it may save the sentence on top of the stack and push it    *)
(* again.  A prover (LibraryToolbox::proving_helper) looks for a proof; it   *)
(* sets checkpoints, commits or rolls back, and may ask for new hypotheses. *)
(*                                                                         *)
(* What unification does is a table here: Thesis[a] gives the outcome of a   *)
(* for the sentences it is applied to, None when it refuses them.           *)
(***************************************************************************)
EXTENDS Integers, SequencesExt

CONSTANTS
    Sentences,     \* the sentences
    Assertions,    \* the labels of the assertions of the library
    Hypotheses,    \* the labels of its hypotheses
    Statement,     \* hypothesis -> its sentence
    Wanted,        \* the sentences provers ask as new hypotheses
    Floats,        \* assertion -> the number of its floating hypotheses
    Esses,         \* assertion -> the number of its essential hypotheses
    Thesis,        \* assertion -> what it proves from given sentences
    Pairs,         \* pairs of variables
    Imposed,       \* assertion -> the pairs it requires to be distinct
    None,          \* no sentence, no label
    MaxProof,      \* bound: the length of the proof
    MaxSaved,      \* bound: the saved steps
    MaxCheckpoints,\* bound: the checkpoints set at a time
    MaxTrees       \* bound: the proof trees kept

Mandatory(a) == Floats[a] + Esses[a]

ASSUME LibraryAssumption ==
    /\ Statement \in [Hypotheses -> Sentences]
    /\ Floats \in [Assertions -> Nat] /\ Esses \in [Assertions -> Nat]
    /\ Imposed \in [Assertions -> SUBSET Pairs]
    /\ Wanted \subseteq Sentences

ASSUME NoneAssumption == None \notin Sentences \union Assertions \union Hypotheses

(* A label names one thing, and new hypotheses have labels of their own. *)
ASSUME LabelAssumption ==
    /\ Assertions \cap Hypotheses = {}
    /\ \A l \in Assertions \union Hypotheses : l \notin [1..1 -> Nat]

ASSUME BoundsAssumption == {MaxProof, MaxSaved, MaxCheckpoints, MaxTrees} \subseteq Nat

VARIABLES
    client,       \* "executor" or "prover"
    genProofTree, \* gen_proof_tree
    stack,        \* the sentences
    dists,        \* dists_stack: the constraints of each entry
    proof,        \* the labels so far
    saved,        \* saved_steps
    trees,        \* tree_stack: sentence and labels, in postorder, of each tree
    checkpoints,  \* the sizes of stack, proof and saved at each checkpoint
    hyps,         \* new_hypotheses: sentences, by the number of their label
    broken        \* an exception other than ProofException, or a crash

vars == <<client, genProofTree, stack, dists, proof, saved, trees, checkpoints, hyps, broken>>

setup == <<client, genProofTree>>

-----------------------------------------------------------------------------
(* The label of a new hypothesis; SemiCreativeProofEngineImpl::get_sentence *)
(* finds its sentence again.                                                *)
Temp(k) == <<k>>

(* vector::resize to a smaller size *)
Resized(s, n) == SubSeq(s, 1, IF n <= Len(s) THEN n ELSE Len(s))

From(s, base) == SubSeq(s, base + 1, Len(s))

(* check_stack_underflow, once the stack is of the given size *)
Underflow_Never(size) == FALSE
Underflow(size) == checkpoints # <<>> /\ size < Last(checkpoints).stack

(* The labels are kept for executors only: nobody reads a prover's trees. *)
KeepTree(s, labels, kept) ==
    trees' = IF ~genProofTree THEN trees
             ELSE Append(kept, [sentence |-> s,
                                labels |-> IF client = "executor" THEN labels ELSE <<>>])

(* process_sentence *)
ProcessSentence(s, label) ==
    /\ stack' = Append(stack, s)
    /\ dists' = Append(dists, {})
    /\ KeepTree(s, <<label>>, trees)
    /\ proof' = Append(proof, label)

Room == Len(proof) < MaxProof /\ Len(trees) < MaxTrees /\ ~broken

-----------------------------------------------------------------------------
Init ==
    /\ client \in {"executor", "prover"} /\ genProofTree \in BOOLEAN
    /\ stack = <<>> /\ dists = <<>> /\ proof = <<>> /\ saved = <<>> /\ trees = <<>>
    /\ checkpoints = <<>> /\ hyps = <<>>
    /\ broken = FALSE

(* process_label for a hypothesis of the library *)
ProcessHypothesis(h) ==
    /\ Room
    /\ ProcessSentence(Statement[h], h)
    /\ UNCHANGED <<setup, saved, checkpoints, hyps, broken>>

(* process_new_hypothesis: create_new_hypothesis has one label per sentence *)
ProcessNewHypothesis(s) ==
    /\ Room /\ client = "prover"
    /\ hyps' = IF s \in ToSet(hyps) THEN hyps ELSE Append(hyps, s)
    /\ ProcessSentence(s, Temp(CHOOSE k \in DOMAIN hyps' : hyps'[k] = s))
    /\ UNCHANGED <<setup, saved, checkpoints, broken>>

(* The constraints of the new entry: those of the entries taken for the     *)
(* essential hypotheses and those of the assertion itself.                  *)
NewDists_Own(a, base) == Imposed[a]
NewDists(a, base) == Imposed[a] \union UNION ToSet(From(dists, base + Floats[a]))

(* The labels of the trees taken as children, then that of the assertion *)
Postorder(a, base) ==
    FlattenSeq([i \in 1..(Len(trees) - base) |-> trees[base + i].labels]) \o <<a>>

(* The trees that stay *)
TreesBelow_All(base) == trees
TreesBelow(base) == Resized(trees, base)

(* Neither the size of the stack nor the match raises a ProofException. *)
Accepted(a, base) == base >= 0 /\ Thesis[a][From(stack, base)] \in Sentences

(* An entry taken for a floating hypothesis rests on constraints. *)
Constrained(a, base) == \E i \in 1..Floats[a] : dists[base + i] # {}

(* The assert on these entries (engine.h:175) ends the program, unless a    *)
(* hypothesis before such an entry is refused first.                        *)
AbortAssertion(a) ==
    LET base == Len(stack) - Mandatory(a)
    IN  /\ Room /\ base >= 0 /\ Constrained(a, base)
        /\ broken' = TRUE
        /\ UNCHANGED <<setup, stack, dists, proof, saved, trees, checkpoints, hyps>>

(* process_assertion: the stack is cut before the check for an underflow. *)
ProcessAssertion(a) ==
    LET base   == Len(stack) - Mandatory(a)
        thesis == Thesis[a][From(stack, base)]
    IN  /\ Room /\ Accepted(a, base) /\ ~Constrained(a, base)
        /\ IF Underflow(base)
           THEN /\ stack' = Resized(stack, base) /\ dists' = Resized(dists, base)
                /\ broken' = TRUE
                /\ UNCHANGED <<proof, trees>>
           ELSE /\ stack' = Append(Resized(stack, base), thesis)
                /\ dists' = Append(Resized(dists, base), NewDists(a, base))
                /\ KeepTree(thesis, Postorder(a, base), TreesBelow(base))
                /\ proof' = Append(proof, a)
                /\ UNCHANGED broken
        /\ UNCHANGED <<setup, saved, checkpoints, hyps>>

(* save_step reads stack.back() without a test: on an empty stack the       *)
(* program fails, or saves what it finds there.                             *)
SaveStep ==
    /\ client = "executor" /\ ~broken /\ Len(saved) < MaxSaved
    /\ IF stack # <<>>
       THEN saved' = Append(saved, Last(stack)) /\ UNCHANGED broken
       ELSE \/ \E s \in Sentences : saved' = Append(saved, s) /\ UNCHANGED broken
            \/ broken' = TRUE /\ UNCHANGED saved
    /\ UNCHANGED <<setup, stack, dists, proof, trees, checkpoints, hyps>>

(* A number that is too large is refused (vector::at). *)
ProcessSavedStep(k) ==
    /\ Room /\ client = "executor" /\ k \in DOMAIN saved
    /\ ProcessSentence(saved[k], None)
    /\ UNCHANGED <<setup, saved, checkpoints, hyps, broken>>

Checkpoint ==
    /\ client = "prover" /\ ~broken /\ Len(checkpoints) < MaxCheckpoints
    /\ checkpoints' = Append(checkpoints,
                             [stack |-> Len(stack), proof |-> Len(proof), saved |-> Len(saved)])
    /\ UNCHANGED <<setup, stack, dists, proof, saved, trees, hyps, broken>>

(* proving_helper commits and rolls back what it has checkpointed. *)
Commit ==
    /\ client = "prover" /\ ~broken /\ checkpoints # <<>>
    /\ checkpoints' = Front(checkpoints)
    /\ UNCHANGED <<setup, stack, dists, proof, saved, trees, hyps, broken>>

Rollback_KeepDists ==
    /\ client = "prover" /\ ~broken /\ checkpoints # <<>>
    /\ stack' = Resized(stack, Last(checkpoints).stack)
    /\ proof' = Resized(proof, Last(checkpoints).proof)
    /\ saved' = Resized(saved, Last(checkpoints).saved)
    /\ checkpoints' = Front(checkpoints)
    /\ UNCHANGED <<setup, dists, trees, hyps, broken>>

(* The trees, and the new hypotheses, stay. *)
Rollback ==
    /\ client = "prover" /\ ~broken /\ checkpoints # <<>>
    /\ stack' = Resized(stack, Last(checkpoints).stack)
    /\ dists' = Resized(dists, Last(checkpoints).stack)
    /\ proof' = Resized(proof, Last(checkpoints).proof)
    /\ saved' = Resized(saved, Last(checkpoints).saved)
    /\ checkpoints' = Front(checkpoints)
    /\ UNCHANGED <<setup, trees, hyps, broken>>

Next ==
    \/ \E h \in Hypotheses : ProcessHypothesis(h)
    \/ \E s \in Wanted : ProcessNewHypothesis(s)
    \/ \E a \in Assertions : ProcessAssertion(a) \/ AbortAssertion(a)
    \/ SaveStep
    \/ \E k \in 1..MaxSaved : ProcessSavedStep(k)
    \/ Checkpoint \/ Commit \/ Rollback

Spec == Init /\ [][Next]_vars

-----------------------------------------------------------------------------
Labels == Assertions \union Hypotheses \union {None} \union [1..1 -> Nat]

Sizes == [stack : Nat, proof : Nat, saved : Nat]

TypeOK ==
    /\ client \in {"executor", "prover"} /\ genProofTree \in BOOLEAN /\ broken \in BOOLEAN
    /\ stack \in Seq(Sentences)
    /\ dists \in Seq(SUBSET Pairs)
    /\ proof \in Seq(Labels)
    /\ saved \in Seq(Sentences)
    /\ \A i \in 1..Len(trees) : trees[i].sentence \in Sentences
    /\ checkpoints \in Seq(Sizes)
    /\ hyps \in Seq(Sentences)

(* Every entry has its constraints, and every iterator that                 *)
(* process_assertion forms from the size of the stack is within the trees   *)
(* (engine.h:229-233), whatever was rolled back before.                     *)
StacksAgree ==
    /\ Len(dists) = Len(stack)
    /\ genProofTree => Len(trees) >= Len(stack)

(* No constraint is lost on the way to the thesis, although saved steps are *)
(* pushed without theirs and rollbacks cut: the entries together carry what  *)
(* the assertions in the proof impose (final_checks compares the last one    *)
(* with the theorem, proof.h:83).                                           *)
DistsComplete ==
    ~broken => UNION ToSet(dists) = UNION {Imposed[a] : a \in ToSet(proof) \cap Assertions}

(* The trees of an executor are those of the stack, and compress, which     *)
(* walks them (proof.cpp:241-247), meets the labels in the order in which   *)
(* the proof has them.                                                      *)
TreesMatch ==
    genProofTree /\ client = "executor" /\ ~broken =>
        /\ stack = [i \in DOMAIN trees |-> trees[i].sentence]
        /\ proof = FlattenSeq([i \in DOMAIN trees |-> trees[i].labels])

(* Running the labels again gives the same stack: Step's answer to `prove'  *)
(* passes get_proof_labels on to an UncompressedProofOperator               *)
(* (step.cpp:535-541).                                                      *)
Rerun(new, st, l) ==
    IF l \in Hypotheses THEN Append(st, Statement[l])
    ELSE IF l \in Assertions
    THEN LET base == Len(st) - Mandatory(l)
         IN  Append(Resized(st, base), Thesis[l][From(st, base)])
    ELSE Append(st, new[l[1]])

Replay(new, labels) ==
    LET after[n \in 0..Len(labels)] ==
            IF n = 0 THEN <<>> ELSE Rerun(new, after[n - 1], labels[n])
    IN  after[Len(labels)]

LabelsReplay ==
    client = "prover" /\ ~broken => Replay(hyps, proof) = stack

(* What is kept beside the stack, trees and labels, describes it. *)
StackDescribed == TreesMatch /\ LabelsReplay

(* Every prover that fails gives the engine back as it found it, however    *)
(* deep its own attempts were nested: see the specification Checkpoints.    *)
State == [stack |-> stack, dists |-> dists, proof |-> proof, saved |-> saved]

Snapshot(c) ==
    [stack |-> Resized(stack, c.stack), dists |-> Resized(dists, c.stack),
     proof |-> Resized(proof, c.proof), saved |-> Resized(saved, c.saved)]

States == [stack : Seq(Sentences), dists : Seq(SUBSET Pairs), proof : Seq(Labels), saved : Seq(Sentences)]

Abstract == INSTANCE Checkpoints WITH
    Values <- States,
    Empty  <- [stack |-> <<>>, dists |-> <<>>, proof |-> <<>>, saved |-> <<>>],
    value  <- State,
    kept   <- [k \in 1..Len(checkpoints) |-> Snapshot(checkpoints[k])],
    failed <- broken

ImplementsCheckpoints == Abstract!Spec

=============================================================================
