------------------------------- MODULE Reader -------------------------------
(***************************************************************************)
(* Reading a database (mm/reader.cpp) into a library (mm/library.cpp), one *)
(* statement at a time, with every proof executed as it is met.            *)
(*                                                                         *)
(* Labels are numbers in the order of their creation.  Comments are left   *)
(* out.  A database is refused with an exception, or the reader fails on   *)
(* it: an assertion, or a read of what is not there.                       *)
(***************************************************************************)
EXTENDS Metamath

CONSTANTS
    Constants,    \* the symbols declared as constants when the model starts
    Variables,    \* and as variables, in the outermost block
    FirstTypes,   \* and the floating hypotheses there
    Statements,   \* bound: what $c, $v, $f, $e, $d, $a and $p statements say
    MaxNamed,     \* bound: the labels of a proof
    Codes,        \* bound: the codes of a compressed proof
    MaxLength,    \* bound: the symbols of a sentence in the reference
    MaxLabels,    \* bound: the labels created
    MaxRead       \* bound: the statements read, braces included

VARIABLES
    frames,   \* stack: the open blocks, outermost first
    lib,      \* the library
    pending,  \* label, or NoLabel
    read,     \* how many statements were read
    reading   \* "yes", "refused", "broken" or "done"

readVars == <<frames, lib, pending, read, reading>>

EmptyFrame == [vars |-> {}, types |-> <<>>, hyps |-> <<>>, dists |-> {}]

ReadInit ==
    /\ frames = <<[EmptyFrame EXCEPT !.vars = Variables, !.types = [l \in DOMAIN FirstTypes |-> l]]>>
    /\ lib = [consts |-> Constants, symbols |-> Constants \union Variables,
              sentences |-> FirstTypes, asses |-> [l \in {} |-> l]]
    /\ pending = NoLabel /\ read = 0 /\ reading = "yes"

-----------------------------------------------------------------------------
CheckVar(tok) == \E i \in DOMAIN frames : tok \in frames[i].vars
CheckType(l) == \E i \in DOMAIN frames : l \in ToSet(frames[i].types)
Types == FlattenSeq([i \in DOMAIN frames |-> frames[i].types])
Hyps == FlattenSeq([i \in DOMAIN frames |-> frames[i].hyps])
Dists == UNION {frames[i].dists : i \in DOMAIN frames}

CollectVars(sent) == {tok \in ToSet(sent) : CheckVar(tok)}

CollectMandVars(sent) == CollectVars(sent) \union UNION {CollectVars(lib.sentences[h]) : h \in ToSet(Hyps)}

VarOfType(l) == lib.sentences[l][2]

(* collect_opt_vars: the variables of the floating hypotheses that a proof names. *)
CollectOptVars(labels, mandVars) == {VarOfType(l) : l \in {m \in ToSet(labels) : CheckType(m)}} \ mandVars

CollectFloats(vars) == SelectSeq(Types, LAMBDA l : VarOfType(l) \in vars)
CollectOptHyps(optVars) == {l \in ToSet(Types) : VarOfType(l) \in optVars}

CollectMandDists(vars) == {d \in Dists : d \subseteq vars}
CollectOptDists(optVars, mandVars) == {d \in Dists : d \subseteq optVars \union mandVars /\ ~(d \subseteq mandVars)}

Assertion(thesis, sent, theorem, proof, labels) ==
    LET vars == CollectMandVars(sent)
        optVars == CollectOptVars(labels, vars)
    IN [thesis |-> thesis, floats |-> CollectFloats(vars), esses |-> Hyps, opts |-> CollectOptHyps(optVars),
        mandDists |-> CollectMandDists(vars), optDists |-> CollectOptDists(optVars, vars),
        theorem |-> theorem, proof |-> proof]

-----------------------------------------------------------------------------
Stop(how) == reading' = how /\ pending' = NoLabel /\ UNCHANGED <<frames, lib>>

(* Statements change the innermost block, which may not be there. *)
InBlock(frame, library) ==
    IF frames = <<>> THEN Stop("broken")
    ELSE frames' = Append(Front(frames), frame) /\ lib' = library /\ pending' = NoLabel /\ UNCHANGED reading

Block == Last(frames)

ReadLabel(l) ==
    /\ l <= MaxLabels
    /\ IF l \in DOMAIN lib.sentences THEN Stop("refused")
       ELSE /\ l = Len(lib.sentences) + 1
            /\ lib' = [lib EXCEPT !.sentences = Append(@, <<>>)]
            /\ pending' = l
            /\ UNCHANGED <<frames, reading>>

OpenBlock == frames' = Append(frames, EmptyFrame) /\ UNCHANGED <<lib, pending, reading>>

CloseBlock ==
    IF frames = <<>> THEN Stop("refused")
    ELSE frames' = Front(frames) /\ UNCHANGED <<lib, pending, reading>>

ParseC(toks) ==
    IF pending # NoLabel \/ Len(frames) # 1 \/ toks[1] \in lib.symbols THEN Stop("refused")
    ELSE /\ lib' = [lib EXCEPT !.symbols = @ \union {toks[1]}, !.consts = @ \union {toks[1]}]
         /\ UNCHANGED <<frames, pending, reading>>

ParseV(toks) ==
    IF pending # NoLabel \/ toks[1] \in lib.consts \/ CheckVar(toks[1]) THEN Stop("refused")
    ELSE InBlock([Block EXCEPT !.vars = @ \union {toks[1]}], [lib EXCEPT !.symbols = @ \union {toks[1]}])

ParseF(toks) ==
    IF pending = NoLabel \/ toks[1] \notin lib.consts \/ ~CheckVar(toks[2]) THEN Stop("refused")
    ELSE InBlock([Block EXCEPT !.types = Append(@, pending)], [lib EXCEPT !.sentences[pending] = toks])

(* The first symbol that is not declared, or no variable any more, ends it; *)
(* the latter fails an assertion.                                          *)
Checked(toks, action) ==
    LET bad == {i \in DOMAIN toks : toks[i] \notin lib.consts /\ ~CheckVar(toks[i])}
    IN IF pending = NoLabel THEN Stop("refused")
       ELSE IF bad # {} THEN Stop(IF toks[Min(bad)] \in lib.symbols THEN "broken" ELSE "refused")
       ELSE IF toks[1] \notin lib.consts THEN Stop("refused")
       ELSE action

ParseE(toks) ==
    Checked(toks, InBlock([Block EXCEPT !.hyps = Append(@, pending)], [lib EXCEPT !.sentences[pending] = toks]))

ParseD(toks) ==
    IF pending # NoLabel \/ (\E t \in ToSet(toks) : ~CheckVar(t)) \/ ~IsInjective(toks) THEN Stop("refused")
    ELSE InBlock([Block EXCEPT !.dists = @ \union {{toks[i], toks[j]} : <<i, j>> \in
                                                   {<<a, b>> \in (DOMAIN toks) \X (DOMAIN toks) : a < b}}], lib)

AddAssertion(ass) ==
    /\ lib' = [lib EXCEPT !.sentences[pending] = ass.sentence,
                          !.asses = @ @@ (pending :> ass.body)]
    /\ pending' = NoLabel
    /\ UNCHANGED <<frames, reading>>

(* An axiom has no proof; nor has a theorem whose proof is a question mark. *)
Incomplete == Labelled(<<NoLabel>>)

ParseA(toks) ==
    Checked(toks, AddAssertion([sentence |-> toks, body |-> Assertion(pending, toks, FALSE, Incomplete, <<>>)]))

(* The proof is checked against the library with the sentence in it, and executed. *)
ParseP(toks, proof) ==
    LET named == IF proof.compressed THEN proof.refs ELSE proof.labels
        ass == Assertion(pending, toks, TRUE, proof, named)
        now == [lib EXCEPT !.sentences[pending] = toks]
        verdict == IF proof = Incomplete THEN "ok"
                   ELSE IF ~(ToSet(named) \subseteq DOMAIN lib.sentences) \/ ~CheckSyntax(now, ass, proof) THEN "refused"
                   ELSE Execute(now, ass, proof).outcome
    IN Checked(toks,
               \/ verdict = "ok" /\ AddAssertion([sentence |-> toks, body |-> ass])
               \/ \E how \in OutcomesOf(verdict) \ {"ok"} : Stop(how))

(* The last frame is kept for later, then popped. *)
EndOfFile ==
    /\ IF frames = <<>> THEN Stop("broken")
       ELSE IF Len(frames) > 1 THEN Stop("refused")
       ELSE reading' = "done" /\ UNCHANGED <<frames, lib, pending>>

Proofs == LET labels == 1 .. Len(lib.sentences)
              small == UNION {[1..n -> labels] : n \in 1..MaxNamed}
          IN {Labelled(p) : p \in small} \union {Incomplete}
             \union {Coded(<<l>>, c) : l \in DOMAIN lib.asses, c \in Codes}

ReadStatement ==
    \/ OpenBlock \/ CloseBlock
    \/ \E s \in Statements.c : ParseC(s)
    \/ \E s \in Statements.v : ParseV(s)
    \/ \E s \in Statements.f : ParseF(s)
    \/ \E s \in Statements.e : ParseE(s)
    \/ \E s \in Statements.d : ParseD(s)
    \/ \E s \in Statements.a : ParseA(s)
    \/ \E s \in Statements.p, proof \in Proofs : ParseP(s, proof)

ReadNext ==
    /\ reading = "yes"
    /\ \/ read < MaxRead /\ read' = read + 1 /\ ReadStatement
       \/ UNCHANGED read /\ \E l \in 1..MaxLabels : ReadLabel(l)
       \/ EndOfFile /\ UNCHANGED read

ReadSpec == ReadInit /\ [][ReadNext]_readVars

-----------------------------------------------------------------------------
(* What follows from given sentences by axioms alone, through sentences of *)
(* bounded length: the reference for what a theorem may say.               *)
ProvedBy(ass) == ass.proof # Incomplete

Substitutions(a, known) ==
    LET ass == lib.asses[a] IN
    {m \in [{VarOfType(l) : l \in ToSet(ass.floats)} -> known] :
        /\ \A l \in ToSet(ass.floats) : m[VarOfType(l)][1] = lib.sentences[l][1]
        /\ \A h \in ToSet(ass.esses) : DoSubst(lib.sentences[h], m) \in known}

Distinct(a, m, dists) ==
    \A x, y \in DOMAIN m :
        x # y /\ {x, y} \in lib.asses[a].mandDists =>
            \A u \in VariablesIn(lib, m[x]), v \in VariablesIn(lib, m[y]) : u # v /\ {u, v} \in dists

RECURSIVE Consequences(_, _, _)
Consequences(known, axioms, dists) ==
    LET new == UNION {{DoSubst(lib.sentences[a], m) : m \in {n \in Substitutions(a, known) : Distinct(a, n, dists)}} : a \in axioms}
        short == {s \in new : Len(s) <= MaxLength}
    IN IF short \subseteq known THEN known ELSE Consequences(known \union short, axioms, dists)

Derivable(l) ==
    LET ass == lib.asses[l]
        axioms == {a \in DOMAIN lib.asses : ~ProvedBy(lib.asses[a])}
    IN Consequences({lib.sentences[h] : h \in HypsOf(ass)}, axioms, DistsOf(ass))

(* Every variable of an assertion has one type: Metamath asks for it, the  *)
(* reader does not.                                                        *)
Typed(ass) ==
    \A v \in UNION {VariablesIn(lib, lib.sentences[l]) : l \in ToSet(ass.esses) \union {ass.thesis}} :
        Cardinality({l \in ToSet(ass.floats) : VarOfType(l) = v}) = 1

Theorems == {l \in DOMAIN lib.asses : ProvedBy(lib.asses[l])}

(* A theorem whose proof was accepted follows from its hypotheses by the   *)
(* axioms read so far, with its distinct variables and whatever blocks     *)
(* were open (parse_p and everything that it calls).                       *)
TheoremsDerivable ==
    (\A l \in DOMAIN lib.asses : Typed(lib.asses[l])) =>
        \A l \in Theorems : lib.sentences[l] \in Derivable(l)

=============================================================================
