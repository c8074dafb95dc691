------------------------------ MODULE StepProof -------------------------------
(***************************************************************************)
(* The proof that the editor prints (Step::prove and the request `prove'   *)
(* of web/step.cpp, the results of web/strategy.cpp).  Steps are written   *)
(* from below, each over the last of those that have no parent; every one  *)
(* is searched before anything is proved.  Formulae are in Polish notation *)
(* with one connective, I; sentences of the type t are theorems.           *)
(***************************************************************************)
EXTENDS Metamath

CONSTANTS
    EditorLib,      \* the library
    Implies,        \* the label that forms an implication
    ModusPonens,    \* and the one of mp_rp
    EditorVars,     \* the variables of steps
    Formulas,       \* bound: the sentences of steps, and what is substituted beside variables, without their types
    Tautologies,    \* the assertions that stand for the proofs of formulae of these numbers (get_sat_prover)
    AntidistPairs,
    Temporaries,    \* bound: by depth, the temporary variables of the tree search, which looks no deeper
    MaxTreeSteps    \* bound: the steps

VARIABLE forest     \* the steps without parent, with those below them

OfType(type, formula) == <<type>> \o formula
SizeOf(steps) == FoldLeft(LAMBDA n, step : n + step.size, 0, steps)
RuleAss(l) == EditorLib.asses[l]
VarsOf(l) == {EditorLib.sentences[RuleAss(l).floats[i]][2] : i \in DOMAIN RuleAss(l).floats}
SubstInto(l, map) == DoSubst(EditorLib.sentences[l], map)

-----------------------------------------------------------------------------
(* create_strategies: unification, then propositional logic, then the tree *)
(* search.                                                                 *)
Permitted(l, map) ==
    \A d \in PropagateDists(EditorLib, RuleAss(l), map) : Cardinality(d) = 2 /\ d \notin AntidistPairs

Unifications(children, sent) ==
    {r \in UNION {[ass : {l}, perm : Permutations(DOMAIN children), map : [VarsOf(l) -> {OfType("w", f) : f \in Formulas \union {<<v>> : v \in EditorVars}}]] :
                     l \in {l \in DOMAIN EditorLib.asses \ Tautologies : Len(RuleAss(l).esses) = Len(children)}} :
        /\ SubstInto(r.ass, r.map) = sent
        /\ \A i \in DOMAIN children : SubstInto(RuleAss(r.ass).esses[r.perm[i]], r.map) = children[i].sent
        /\ Permitted(r.ass, r.map)}

Antecedents_Reversed(children, k, sent) ==
    OfType("t", FoldLeft(LAMBDA wff, child : <<"I">> \o Tail(child.sent) \o wff, Tail(sent), Reverse(SubSeq(children, 1, k))))
(* The implication of the sentence from the first k children, the last of them outermost. *)
Antecedents(children, k, sent) ==
    OfType("t", FoldLeft(LAMBDA wff, child : <<"I">> \o Tail(child.sent) \o wff, Tail(sent), SubSeq(children, 1, k)))
TruthProvers(children, sent) == {l \in Tautologies : EditorLib.sentences[l] = Antecedents(children, Len(children), sent)}

(* UctStrategy: what the search (Uct) may find, as a tree of assertions    *)
(* over the children.  A variable that the thesis of an assertion does not *)
(* have is made a temporary one, and nothing replaces it later.            *)
AllTemporaries == UNION Range(Temporaries)
IsFormula(f) ==
    LET Missing(k) == 1 + Cardinality({i \in 1 .. k : f[i] = "I"}) - Cardinality({i \in 1 .. k : f[i] # "I"})
    IN \A k \in 0 .. Len(f) : Missing(k) = 0 <=> k = Len(f)
Parts(sent) == {f \in {SubSeq(sent, i, j) : <<i, j>> \in (2 .. Len(sent)) \X (2 .. Len(sent))} : IsFormula(f)}
NodeMaps(l, sent, depth) ==
    LET thesis == ToSet(EditorLib.sentences[l])
        matching == [VarsOf(l) \cap thesis -> {OfType("w", f) : f \in Parts(sent)}]
        refreshing == {m \in [VarsOf(l) \ thesis -> {OfType("w", <<v>>) : v \in Temporaries[depth]}] : IsInjective(m)}
    IN {m @@ f : m \in matching, f \in refreshing}

RECURSIVE Searched(_, _, _)
Below(children, l, map, above) ==
    LET hyps == [i \in DOMAIN RuleAss(l).esses |-> SubstInto(RuleAss(l).esses[i], map)]
        proofs == [i \in DOMAIN hyps |-> IF hyps[i] \in ToSet(above) THEN {} ELSE Searched(children, hyps[i], above)]
    IN {b \in [DOMAIN hyps -> UNION Range(proofs)] : \A i \in DOMAIN hyps : b[i] \in proofs[i]}
Searched(children, sent, above) ==
    LET given == {i \in DOMAIN children : children[i].sent = sent}
        depth == Len(above) + 1
        theorems == {l \in DOMAIN EditorLib.asses \ Tautologies : EditorLib.sentences[l][1] = sent[1]}
        applied == {<<l, m>> \in UNION {{l} \X NodeMaps(l, sent, depth) : l \in theorems} :
                       SubstInto(l, m) = sent /\ Permitted(l, m)}
    IN IF given # {} THEN {[hyp |-> Min(given)]}
       ELSE IF depth > Len(Temporaries) THEN {}
       ELSE UNION {{[hyp |-> 0, ass |-> a[1], map |-> a[2], below |-> b] : b \in Below(children, a[1], a[2], Append(above, sent))} : a \in applied}

(* The search may also give up, but not where the sentence is a child's. *)
WinningStrategies(children, sent) ==
    LET unified == Unifications(children, sent)
        tautology == TruthProvers(children, sent)
        searched == {[type |-> "uct", found |-> node] : node \in Searched(children, sent, <<>>)}
    IN IF unified # {} THEN {[type |-> "unification", ass |-> r.ass, perm |-> r.perm, map |-> r.map] : r \in unified}
       ELSE IF tautology # {} THEN {[type |-> "wff", prover |-> CHOOSE l \in tautology : TRUE]}
       ELSE IF \E i \in DOMAIN children : children[i].sent = sent THEN searched
       ELSE searched \union {[type |-> "none"]}

EditorInit == forest = <<>>

AddStep(n, sent) ==
    LET children == SubSeq(forest, Len(forest) - n + 1, Len(forest))
    IN /\ SizeOf(forest) < MaxTreeSteps
       /\ \E strategy \in WinningStrategies(children, sent) :
             forest' = Append(SubSeq(forest, 1, Len(forest) - n),
                              [sent |-> sent, strategy |-> strategy, children |-> children, size |-> 1 + SizeOf(children)])

EditorNext == \E n \in 0 .. Len(forest), f \in Formulas : AddStep(n, OfType("t", f))

EditorSpec == EditorInit /\ [][EditorNext]_forest

-----------------------------------------------------------------------------
(* The engine with the labels it has processed and its new hypotheses. *)
FreshEngine == [engine |-> Start, labels |-> <<>>, hyps |-> <<>>]
NewHypLabel(i) == 100 + i

ProcessLabels(st, labels) ==
    [st EXCEPT !.engine = FoldLeft(LAMBDA e, l : ExecLabel(EditorLib, <<>>, TRUE, e, l), @, labels), !.labels = @ \o labels]

(* A sentence becomes a hypothesis once. *)
AddHypothesis(st, sent) ==
    LET hyps == IF sent \in ToSet(st.hyps) THEN st.hyps ELSE Append(st.hyps, sent)
        label == NewHypLabel(CodeOf(hyps, sent))
    IN IF st.engine.outcome # "ok" THEN st
       ELSE [engine |-> ProcessSent(st.engine, sent, label), labels |-> Append(st.labels, label), hyps |-> hyps]

(* type_proving_helper: the labels of a formula, from its end. *)
TypeLabels(formula) ==
    LET Symbol(built, tok) ==
            IF tok = "I" THEN <<built[1] \o built[2] \o <<Implies>> >> \o Tail(Tail(built))
            ELSE << <<CHOOSE l \in DOMAIN EditorLib.sentences : EditorLib.sentences[l] = <<"w", tok>> >> >> \o built
    IN FoldLeft(Symbol, <<>>, Reverse(formula))[1]

(* A prover applies an assertion to what the provers of its hypotheses     *)
(* leave; the one of a step may also take the sentence as a hypothesis.    *)
RECURSIVE OfStep(_)
Searching(step, node) ==
    IF node.hyp # 0 THEN OfStep(step.children[node.hyp]) ELSE [step |-> step, peeled |-> 0, node |-> node]
OfStep(step) ==
    IF step.strategy.type = "uct" THEN Searching(step, step.strategy.found) ELSE [step |-> step, peeled |-> 0]
Peeled(step, k) == [step |-> step, peeled |-> k]

Inverted(perm) == [j \in DOMAIN perm |-> CHOOSE i \in DOMAIN perm : perm[i] = j]

(* The prove of the three results: UnificationStrategyResult,              *)
(* UctStrategyResult, WffStrategyResult.                                   *)
Application(prover) ==
    LET step == prover.step  k == prover.peeled  n == Len(step.children) IN
    IF step.strategy.type = "uct"
    THEN [ass |-> prover.node.ass, map |-> prover.node.map,
          provers |-> [i \in DOMAIN prover.node.below |-> Searching(step, prover.node.below[i])]]
    ELSE IF step.strategy.type = "unification"
    THEN LET at == Inverted(step.strategy.perm)
         IN [ass |-> step.strategy.ass, map |-> step.strategy.map, provers |-> [j \in DOMAIN at |-> OfStep(step.children[at[j]])]]
    ELSE IF k = n THEN [ass |-> step.strategy.prover, map |-> << >>, provers |-> <<>>]
    ELSE [ass |-> ModusPonens,
          map |-> [u |-> OfType("w", Tail(step.children[k + 1].sent)), v |-> OfType("w", Tail(Antecedents(step.children, k, step.sent)))],
          provers |-> <<OfStep(step.children[k + 1]), Peeled(step, k + 1)>>]

RECURSIVE Prove(_, _), ProvingHelper(_, _)
Prove(st, prover) ==
    IF prover.step.strategy.type = "none" THEN AddHypothesis(st, prover.step.sent)
    ELSE ProvingHelper(st, Application(prover))
ProvingHelper(st, app) ==
    LET Float(s, l) == ProcessLabels(s, TypeLabels(Tail(app.map[EditorLib.sentences[l][2]])))
    IN ProcessLabels(FoldLeft(Prove, FoldLeft(Float, st, RuleAss(app.ass).floats), app.provers), <<app.ass>>)

-----------------------------------------------------------------------------
(* The theorem that is printed, and the one that is read: the hypotheses   *)
(* and the distinct variables are those of the engine.                     *)
ThesisOf == 100
FloatsOf(vars) ==
    SetToSortSeq({l \in DOMAIN EditorLib.sentences : EditorLib.sentences[l] \in {<<"w", v>> : v \in vars}}, LAMBDA a, b : a < b)

PrintedTheorem(st) ==
    LET thesis == st.engine.stack[1]
        vars == UNION {VariablesIn(EditorLib, s) : s \in {thesis} \union ToSet(st.hyps)}
        dists == st.engine.dists[1]
    IN [thesis |-> ThesisOf, floats |-> FloatsOf(vars), esses |-> [i \in DOMAIN st.hyps |-> NewHypLabel(i)],
        opts |-> ToSet(FloatsOf(EditorVars \ vars)),
        mandDists |-> {d \in dists : d \subseteq vars}, optDists |-> {d \in dists : ~(d \subseteq vars)}]

LibWith(st) ==
    [EditorLib EXCEPT !.sentences = @ @@ (ThesisOf :> st.engine.stack[1])
                                      @@ [l \in {NewHypLabel(i) : i \in DOMAIN st.hyps} |-> st.hyps[l - 100]]]

PrintedProof(st) == CompressBackrefs(LibWith(st), PrintedTheorem(st), st.labels)

-----------------------------------------------------------------------------
RECURSIVE HypsUsed(_), OpenSteps(_)
HypsUsed(node) == IF node.hyp # 0 THEN {node.hyp} ELSE UNION {HypsUsed(node.below[i]) : i \in DOMAIN node.below}
Used(step) == IF step.strategy.type = "uct" THEN HypsUsed(step.strategy.found) ELSE DOMAIN step.children
OpenSteps(step) ==
    IF step.strategy.type = "none" THEN {step.sent} ELSE UNION {OpenSteps(step.children[i]) : i \in Used(step)}

Verifies(st, printed) ==
    /\ printed.found /\ CheckSyntax(LibWith(st), PrintedTheorem(st), printed.proof)
    /\ Execute(LibWith(st), PrintedTheorem(st), printed.proof).outcome = "ok"

NamesTemporaries(labels) == \E l \in ToSet(labels), v \in AllTemporaries : l \in DOMAIN EditorLib.sentences /\ EditorLib.sentences[l] = OfType("w", <<v>>)

ProvesRoot(st, root) ==
    /\ st.engine.outcome = "ok"
    /\ st.engine.stack = <<root.sent>>
    /\ ToSet(st.hyps) = OpenSteps(root)
    /\ st.engine.dists[1] \cap AntidistPairs = {}
    /\ Verifies(st, PrintedProof(st)) <=> ~NamesTemporaries(st.labels)

(* What the editor prints for a step proves its sentence from those of the *)
(* steps below it that have no proof, without a constraint the user has    *)
(* excluded, and would be accepted by the reader if and only if it names   *)
(* no temporary variable, which a proof found by the tree search may       *)
(* (Step::prove, and the request `prove' of Step::answer_api1).            *)
EditorProves == Len(forest) = 1 => ProvesRoot(Prove(FreshEngine, OfStep(forest[1])), forest[1])

=============================================================================
