------------------------------- MODULE MCLogic ------------------------------
(* The provers for TLC: a behaviour is a run of the SAT solver, the writing *)
(* of one proof in natural deduction, a question to a library and the tree *)
(* search for an answer, a refutation of another prover that is read, a    *)
(* formula on its way to one and back, or the unfolding of definitions.    *)
EXTENDS Minisat, NaturalDeduction, Uct, Z3Proofs, Tstp, Prenex, Definitions

VARIABLE part

p_ == Var(1)
q_ == Var(2)
r_ == Var(3)
AWff == Imp(p_, q_)
SomeWffs ==
    {AWff, Or(p_, Not(p_)), Imp(And(p_, q_), p_), Imp(Xor(p_, q_), Nand(p_, q_)),
     Imp(And(Or(p_, q_), Or(p_, Not(q_))), p_), Imp(And(Imp(p_, q_), Imp(q_, r_)), Imp(p_, r_)),
     Or3(p_, q_, Nand(p_, q_)), Imp(And3(p_, q_, Truth), Or3(p_, Falsum, q_)),
     Or(Iff(p_, q_), Xor(q_, p_)), Iff(Imp(p_, q_), Or(q_, Not(p_))), Xor(Iff(p_, q_), Xor(q_, r_))}

(* So few clauses are learnt from them that with a limit above zero none   *)
(* would be a reason when others are forgotten.                            *)
LearntsLimit == -6

(* A formula with a part whose clauses repeat a literal. *)
RepeatedPart == {Imp(And(Or(p_, q_), Or(p_, Not(q_))), And(p_, p_))}

vx == V("x")
vy == V("y")
P(t) == Pred("P", <<t>>)
SomeFormals == [P |-> <<"p1">>, f |-> <<"f1">>]
SomeTerms == {vx, vy, Fun("f", <<vx>>)}
SomeFormulas ==
    {P(vx), P(vy), Eq(vx, vy), Eq(vx, vx), All(vx, P(vx)), Ex(vx, P(vx)), All(vx, Eq(vx, vy)), All(vx, Eq(vx, vx)), Ex(vx, P(vy)),
     Falsum, Not(P(vx)), Or(P(vx), Falsum), Or(Falsum, Falsum), And(P(vx), P(vy)), Imp(P(vx), P(vx))}

-----------------------------------------------------------------------------
(* A library: four syntax axioms and a theorem about syntax, of which wal  *)
(* has its floating hypotheses in another order than its sentence; rules   *)
(* with and without variables of their own, one with distinct variables,   *)
(* one that is discouraged and one with a trivial proof.                   *)
AnAxiom(head, body, floats) ==
    [head |-> head, body |-> body, hyps |-> <<>>, floats |-> floats, dists |-> {},
     theorem |-> FALSE, trivial |-> FALSE, discouraged |-> FALSE]
Implies(a, b) == <<"(">> \o a \o <<"->">> \o b \o <<")">>
phi_ == <<"ph">>
psi_ == <<"ps">>
SomeAsses ==
    [wn |-> AnAxiom("wff", <<"-.", "ph">>, phi_),
     wi |-> AnAxiom("wff", Implies(phi_, psi_), <<"ph", "ps">>),
     wal |-> AnAxiom("wff", <<"A.", "x", "ph">>, <<"ph", "x">>),
     weq |-> AnAxiom("wff", <<"x", "=", "y">>, <<"x", "y">>),
     wnn |-> [AnAxiom("wff", <<"-.", "-.", "ph">>, phi_) EXCEPT !.theorem = TRUE],
     mp |-> [AnAxiom("|-", psi_, <<"ph", "ps">>) EXCEPT !.hyps = <<phi_, Implies(phi_, psi_)>>],
     id |-> AnAxiom("|-", Implies(phi_, phi_), phi_),
     idOLD |-> [AnAxiom("|-", Implies(phi_, phi_), phi_) EXCEPT !.discouraged = TRUE],
     idi |-> [AnAxiom("|-", phi_, phi_) EXCEPT !.hyps = <<phi_>>, !.theorem = TRUE, !.trivial = TRUE],
     a1i |-> [AnAxiom("|-", Implies(psi_, phi_), <<"ph", "ps">>) EXCEPT !.hyps = <<phi_>>],
     ax5 |-> [AnAxiom("|-", Implies(phi_, <<"A.", "x", "ph">>), <<"ph", "x">>) EXCEPT !.dists = {{"ph", "x"}}],
     wa |-> AnAxiom("wff", <<"&", "ph", "ps">>, <<"ph", "ps">>),
     pm |-> [AnAxiom("|-", <<"&", "ph", "ps">>, <<"ph", "ps">>) EXCEPT !.hyps = <<phi_, psi_>>],
     notnot |-> [AnAxiom("|-", <<"-.", "-.", "ph">>, phi_) EXCEPT !.hyps = <<phi_>>],
     gen |-> [AnAxiom("|-", <<"A.", "x", "ph">>, <<"ph", "x">>) EXCEPT !.hyps = <<phi_>>]]
SomeOrder == <<"wn", "wi", "mp", "wal", "weq", "wnn", "id", "idOLD", "idi", "a1i", "ax5", "gen", "notnot", "wa", "pm">>
SomeVars == <<"ph", "ps", "x", "y">>
SomeTemps == <<"n1", "n2", "n3", "n4">>
VarTypes == [ph |-> "wff", ps |-> "wff", x |-> "setvar", y |-> "setvar", n1 |-> "wff", n2 |-> "wff", n3 |-> "wff", n4 |-> "wff"]
TermTypes == [l \in DOMAIN SomeAsses |-> SomeAsses[l].head]
SomeAskable == {phi_, Implies(phi_, phi_), <<"x", "=", "y">>, <<"-.", "-.", "ph">>, <<"&", "A.", "x", "ph", "-.", "-.", "ph">>,
  Implies(psi_, <<"A.", "x", "ps">>), <<"(", "x", ")">>}
SomeRenaming == {<<"x", "=", "x">>, <<"-.", "ps">>}

-----------------------------------------------------------------------------
(* Problems for Z3, with what it may rewrite by. *)
Z3Problem(hyps, thesis) == [hyps |-> hyps, thesis |-> thesis]
SomeProblems ==
    {Z3Problem(<<>>, Or(p_, Not(p_))),
     Z3Problem(<<<<"or", p_, Not(q_), r_>>, Not(p_), q_>>, r_),
     Z3Problem(<<Iff(p_, q_), Iff(q_, r_)>>, Iff(Or(r_, p_), Or(r_, q_))),
     Z3Problem(<<<<"and", p_, q_, r_>>, Imp(p_, r_)>>, r_)}
KnownRewrites == {Iff(Not(Or(p_, Not(p_))), Falsum), <<"eq", Not(r_), Imp(r_, Falsum)>>}
SomeRewrites == KnownRewrites \union {Iff(Not(Not(p_)), p_)}
SomeTautologies == {<<"or", Not(p_), q_, Not(Iff(p_, q_))>>}

-----------------------------------------------------------------------------
(* Refutations: a rule and its premise, and an equation. *)
tx == <<"X">>
ta_ == <<"a">>
tf(t) == <<"f", t>>
tp(t) == <<"pred", "p", t>>
tq == <<"pred", "q">>
Leaf1(sign, atom) == <<"literal", <<sign, atom>>>>
SomeAxioms ==
    {<<<<"parens", <<"or", Leaf1("atom", tp(tx)), <<"atom", tq>>>>>>, Leaf1("negparens", tp(tf(tx)))>>,
     <<Leaf1("atom", <<"eq", tf(tx), ta_>>), <<"or", Leaf1("neg", tp(ta_)), <<"neg", <<"neq", tx, ta_>>>>>>>>}
SomeLiteralTrees == {<<"atom", tp(tx)>>, <<"atom", tp(tf(tx))>>, <<"atom", <<"eq", tf(tx), ta_>>>>, <<"neg", tq>>}
SomeFotTerms == {tx, tf(ta_)}
SomeSubsts == {[x \in {"X"} |-> ta_], [x \in {"X", "Y"} |-> IF x = "X" THEN tf(<<"Y">>) ELSE tx]}
SomeWrongTrees == {Leaf1("atom", <<"pred", FalseName>>), <<"or", <<"parens", Leaf1("atom", tq)>>, <<"atom", tq>>>>}

-----------------------------------------------------------------------------
(* The beginning of set theory: its syntax, and what defines it.  dfcleq   *)
(* and dfbi1 are theorems; two others look like definitions of E. but are  *)
(* not the first without hypotheses.                                       *)
sx == Leaf("setvar", "x")
sy == Leaf("setvar", "y")
sz == Leaf("setvar", "z")
wph == Leaf("wff", "ph")
wps == Leaf("wff", "ps")
cA == Leaf("class", "A")
cB == Leaf("class", "B")
Cv1(v) == <<"cv", v>>
AConstructor(label, type, args, binds, body) == [label |-> label, type |-> type, args |-> args, binds |-> binds, body |-> body]
SomeSyntax ==
  <<AConstructor("cv", "class", <<"setvar">>, {}, 0),
    AConstructor("wn", "wff", <<"wff">>, {}, 0),
    AConstructor("wi", "wff", <<"wff", "wff">>, {}, 0),
    AConstructor("wal", "wff", <<"setvar", "wff">>, {<<1, 0>>}, 2),
    AConstructor("wb", "wff", <<"wff", "wff">>, {}, 0),
    AConstructor("wa", "wff", <<"wff", "wff">>, {}, 0),
    AConstructor("wex", "wff", <<"setvar", "wff">>, {<<1, 0>>}, 2),
    AConstructor("wnf", "wff", <<"setvar", "wff">>, {<<1, 0>>}, 2),
    AConstructor("wcel", "wff", <<"class", "class">>, {}, 0),
    AConstructor("wceq", "wff", <<"class", "class">>, {}, 0),
    AConstructor("wsb", "wff", <<"setvar", "setvar", "wff">>, {<<2, 0>>}, 3),
    AConstructor("cab", "class", <<"setvar", "wff">>, {<<1, 0>>}, 2),
    AConstructor("cvv", "class", <<>>, {}, 0),
    AConstructor("cin", "class", <<"class", "class">>, {}, 0),
    AConstructor("wral", "wff", <<"setvar", "class", "wff">>, {<<1, 2>>}, 3),
    AConstructor("crab", "class", <<"setvar", "class", "wff">>, {<<1, 2>>}, 3),
    AConstructor("copab", "class", <<"setvar", "setvar", "wff">>, {<<1, 0>>, <<2, 0>>}, 3)>>
Stated(label, hyps, stated) == [label |-> label, hyps |-> hyps, stated |-> stated]
WaOf(a, b) == <<"wa", a, b>>
SomeStatements ==
  <<Stated("dfbi1", <<>>, <<"wb", <<"wb", wph, wps>>, <<"wn", <<"wi", <<"wi", wph, wps>>, <<"wn", <<"wi", wps, wph>>>>>>>>>>),
    Stated("exbii", <<<<"wb", wph, wps>>>>, <<"wb", <<"wex", sx, wph>>, <<"wex", sx, wps>>>>),
    Stated("df-an", <<>>, <<"wb", WaOf(wph, wps), <<"wn", <<"wi", wph, <<"wn", wps>>>>>>>>),
    Stated("df-ex", <<>>, <<"wb", <<"wex", sx, wph>>, <<"wn", <<"wal", sx, <<"wn", wph>>>>>>>>),
    Stated("alnex", <<>>, <<"wb", <<"wex", sx, <<"wn", wph>>>>, <<"wn", <<"wal", sx, wph>>>>>>),
    Stated("df-sb", <<>>, <<"wb", <<"wsb", sy, sx, wph>>,
        WaOf(<<"wi", <<"wceq", Cv1(sx), Cv1(sy)>>, wph>>, <<"wex", sx, WaOf(<<"wceq", Cv1(sx), Cv1(sy)>>, wph)>>)>>),
    Stated("df-clab", <<>>, <<"wb", <<"wcel", Cv1(sx), <<"cab", sy, wph>>>>, <<"wsb", sx, sy, wph>>>>),
    Stated("dfcleq", <<>>, <<"wb", <<"wceq", cA, cB>>, <<"wal", sx, <<"wb", <<"wcel", Cv1(sx), cA>>, <<"wcel", Cv1(sx), cB>>>>>>>>),
    Stated("df-clel", <<>>, <<"wb", <<"wcel", cA, cB>>, <<"wex", sz, WaOf(<<"wceq", Cv1(sz), cA>>, <<"wcel", Cv1(sz), cB>>)>>>>),
    Stated("df-v", <<>>, <<"wceq", <<"cvv">>, <<"cab", sx, <<"wceq", Cv1(sx), Cv1(sx)>>>>>>),
    Stated("df-in", <<>>, <<"wceq", <<"cin", cA, cB>>, <<"cab", sx, WaOf(<<"wcel", Cv1(sx), cA>>, <<"wcel", Cv1(sx), cB>>)>>>>),
    Stated("df-ral", <<>>, <<"wb", <<"wral", sx, cA, wph>>, <<"wal", sx, <<"wi", <<"wcel", Cv1(sx), cA>>, wph>>>>>>),
    Stated("df-rab", <<>>, <<"wceq", <<"crab", sx, cA, wph>>, <<"cab", sx, WaOf(<<"wcel", Cv1(sx), cA>>, wph)>>>>)>>
SomeRelations == {{<<1, 2>>}, {<<1, 1>>, <<2, 1>>, <<2, 2>>}}

-----------------------------------------------------------------------------
SomeSetVars == <<"x", "y">>
-----------------------------------------------------------------------------
libraryVars == <<toolboxVars, uctVars>>
Only(name) == part = name /\ UNCHANGED part

Init == /\ part \in {"sat", "proof", "library", "z3", "tstp", "formulas", "definitions"}
        /\ SatInit /\ NdInit /\ ToolboxInit /\ UctInit /\ Z3Init /\ TstpInit /\ FormInit /\ DefInit
        /\ part # "tstp" => Cardinality(lines[1].clause) = 2
        /\ part # "z3" => problem = Z3Problem(<<>>, Or(p_, Not(p_)))
        /\ part # "sat" => wff = AWff /\ unitFirst
        /\ part # "formulas" => formula = <<"wff", "ph">>
        /\ part # "definitions" => sought = 0 /\ tree = wff1

laterVars == <<z3Vars, tstpVars, formVars, defVars>>
Next == \/ Only("sat") /\ SatNext /\ UNCHANGED <<ndVars, libraryVars, laterVars>>
        \/ Only("proof") /\ NdNext /\ UNCHANGED <<satVars, libraryVars, laterVars>>
        \/ Only("library") /\ search = "none" /\ ToolboxNext /\ UNCHANGED <<satVars, ndVars, uctVars, laterVars>>
        \/ Only("library") /\ UctNext /\ UNCHANGED <<satVars, ndVars, toolboxVars, laterVars>>
        \/ Only("z3") /\ Z3Next /\ UNCHANGED <<satVars, ndVars, libraryVars, tstpVars, formVars, defVars>>
        \/ Only("tstp") /\ TstpNext /\ UNCHANGED <<satVars, ndVars, libraryVars, z3Vars, formVars, defVars>>
        \/ Only("formulas") /\ FormNext /\ UNCHANGED <<satVars, ndVars, libraryVars, z3Vars, tstpVars, defVars>>
        \/ Only("definitions") /\ DefNext /\ UNCHANGED <<satVars, ndVars, libraryVars, z3Vars, tstpVars, formVars>>

Spec == Init /\ [][Next]_<<part, satVars, ndVars, libraryVars, laterVars>>

(* The solver answers right, has a reason for whatever it deduced, and     *)
(* both provers make proofs of its answers: Solver::solve_,                *)
(* CNFProblem::solve, get_sat_prover and get_adv_truth_prover.             *)
SolverRight == AnswerRight /\ TrailJustified /\ ProversProve

(* What is read from Z3 means what Z3 said: its proofs, which are made     *)
(* proofs of set.mm (z3prover.cpp), and its formulae (z3prover2.cpp,       *)
(* z3prover3.cpp); the prenex form of a formula means what it means.       *)
Z3Right == Z3Converts /\ FormulasReturn /\ PrenexRight

=============================================================================
