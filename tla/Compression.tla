----------------------------- MODULE Compression -----------------------------
(***************************************************************************)
(* The two forms of a proof, over a library that stays as it is: a proof   *)
(* of a theorem is written label by label, and whenever what is written    *)
(* proves something it is compressed in both ways and uncompressed again.  *)
(***************************************************************************)
EXTENDS Metamath

CONSTANTS
    ProofLib,   \* the library
    Context,    \* the hypotheses and distinct variables of the theorem to prove
    MaxSteps,   \* bound: the labels of its proof
    MaxStack,   \* bound: the entries of the stack
    Width,      \* bound: the bits of a code
    MaxDigits   \* bound: the characters of a code

VARIABLES steps,   \* the labels written
          engine,  \* the engine that executes them
          chars    \* the characters of a compressed proof

proofVars == <<steps, engine, chars>>

Proved == Len(engine.stack) = 1 /\ Last(engine.dists) \subseteq DistsOf(Context)

(* The theorem that says what was proved. *)
ThesisLabel == Max(DOMAIN ProofLib.sentences)
Theorem == [Context EXCEPT !.thesis = ThesisLabel]
Now == [ProofLib EXCEPT !.sentences[ThesisLabel] = engine.stack[1]]

ProofInit == steps = <<>> /\ engine = Start /\ chars = <<>>

Write(label) ==
    /\ Len(steps) < MaxSteps /\ chars = <<>>
    /\ LET next == ExecLabel(ProofLib, Context, FALSE, engine, label)
       IN next.outcome = "ok" /\ Len(next.stack) <= MaxStack /\ engine' = next
    /\ steps' = Append(steps, label)
    /\ UNCHANGED chars

Type(c) ==
    /\ Len(chars) < MaxDigits /\ steps = <<>>
    /\ chars' = Append(chars, c)
    /\ UNCHANGED <<steps, engine>>

ProofNext == (\E label \in (DOMAIN ProofLib.sentences) \ {ThesisLabel} : Write(label)) \/ (\E c \in {0, 1, 19, 20, 21, 24, 25} : Type(c))

ProofSpec == ProofInit /\ [][ProofNext]_proofVars

-----------------------------------------------------------------------------
(* A proof that is accepted is accepted again after it was compressed with *)
(* or without references to earlier steps, and once it is uncompressed; no *)
(* sentence is recalled that was not saved, and what was not shared comes  *)
(* back label by label (UncompressedProofOperator::compress,               *)
(* CompressedProofOperator::uncompress).                                   *)
Survives(proof, un) ==
    /\ CheckSyntax(Now, Theorem, proof) /\ Execute(Now, Theorem, proof).outcome = "ok"
    /\ un.outcome = "ok" /\ Execute(Now, Theorem, Labelled(un.labels)).outcome = "ok"
    /\ 0 \notin ToSet(proof.codes) => un.labels = steps
Faithful(plain, shared) ==
    shared.found /\ \A proof \in {plain, shared.proof} : Survives(proof, Uncompress(Now, Theorem, proof.refs, proof.codes))
CompressionFaithful ==
    Proved => Faithful(CompressNoBackrefs(Now, Theorem, steps), CompressBackrefs(Now, Theorem, steps))

(* is_trivial says the same of both forms of a proof without hypotheses    *)
(* that are essential steps twice.                                         *)
TrivialityAgrees ==
    Proved => LET plain == CompressNoBackrefs(Now, Theorem, steps)
              IN IsTrivialLabels(Theorem, steps) = IsTrivialCodes(Theorem, plain.codes)

(* A code is read back as it was written, and whatever is read without     *)
(* overflow would be written in the same characters: no code has two forms *)
(* (CompressedEncoder::push_code, CompressedDecoder::push_char).  The first *)
(* half does not depend on what was typed: it is asked once.               *)
CodesRoundTrip ==
    LET read == Decoded(Width, chars)
    IN /\ chars = <<0>> => \A x \in 0 .. 2 ^ Width - 2 : Decoded(Width, PushCode(x)).codes = <<x>>
       /\ ~read.refused /\ read.current = 0 /\ ~read.wrapped =>
            FlattenSeq([i \in DOMAIN read.codes |-> PushCode(read.codes[i])]) = chars

(* Every form of a proof says the same. *)
ProofFormsAgree == CompressionFaithful /\ TrivialityAgrees /\ CodesRoundTrip

=============================================================================
