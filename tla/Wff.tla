-------------------------------- MODULE Wff ---------------------------------
(***************************************************************************)
(* Propositional formulae that prove themselves (provers/wff.cpp, wff.h).  *)
(*                                                                         *)
(* A formula is a tuple: its connective, then its arguments.  A prover is  *)
(* modelled by the sentence it proves, or by NoProof if it fails; a        *)
(* registered prover is a rule whose hypotheses its arguments must meet    *)
(* to the letter.  Every class of wff.cpp is the record of its rules and   *)
(* clauses, written with the letters ph, ps, ch; what the classes do with  *)
(* them is written once, below, over all of them.                          *)
(***************************************************************************)
EXTENDS Naturals, Sequences, FiniteSets, SequencesExt

NoProof == <<"null">>

ph == <<"ph">>
ps == <<"ps">>
ch == <<"ch">>
th == <<"th">>
ta == <<"ta">>

Truth == <<"T">>
Falsum == <<"F">>
Var(n) == <<"var", n>>
Not(a) == <<"not", a>>
Imp(a, b) == <<"imp", a, b>>
Iff(a, b) == <<"iff", a, b>>
And(a, b) == <<"and", a, b>>
Or(a, b) == <<"or", a, b>>
Nand(a, b) == <<"nand", a, b>>
Xor(a, b) == <<"xor", a, b>>
And3(a, b, c) == <<"and3", a, b, c>>
Or3(a, b, c) == <<"or3", a, b, c>>

Letters == <<"ph", "ps", "ch">>

IsVar(f) == f[1] = "var"
Args(f) == IF IsVar(f) THEN <<>> ELSE Tail(f)

RECURSIVE Inst(_, _)
Inst(t, s) == IF IsVar(t) THEN t
              ELSE IF Len(t) = 1 THEN IF t[1] \in DOMAIN s THEN s[t[1]] ELSE t
              ELSE <<t[1]>> \o [i \in 1 .. Len(t) - 1 |-> Inst(t[i + 1], s)]

(* The arguments of a formula as the values of the letters of its class. *)
Given(f) == [l \in {Letters[i] : i \in DOMAIN Args(f)} |-> Args(f)[CHOOSE i \in 1..3 : Letters[i] = l]]

Rule(hyps, thesis) == [hyps |-> hyps, thesis |-> thesis]

(* build_registered_prover: one proof for each hypothesis, of exactly that hypothesis. *)
Build(rule, s, proofs) ==
    IF /\ Len(proofs) = Len(rule.hyps)
       /\ \A i \in DOMAIN proofs : proofs[i] = Inst(rule.hyps[i], s)
    THEN Inst(rule.thesis, s) ELSE NoProof

Yes(f) == <<TRUE, f>>
No(f) == <<FALSE, f>>

-----------------------------------------------------------------------------
(* The classes. *)
TTrue == [truth |-> Rule(<<>>, Truth),
          impNot |-> Rule(<<>>, Iff(Truth, Truth)),
          subst |-> Rule(<<>>, Imp(ph, Iff(Truth, Truth))),
          clauses |-> {<<Yes(Truth)>>}]

TFalse == [falsity |-> Rule(<<>>, Not(Falsum)),
           impNot |-> Rule(<<>>, Iff(Falsum, Falsum)),
           subst |-> Rule(<<>>, Imp(ph, Iff(Falsum, Falsum))),
           clauses |-> {<<No(Falsum)>>}]

TVar == [impNot |-> Rule(<<>>, Iff(ph, ph)),
         pos |-> <<Rule(<<>>, Imp(Truth, Imp(ph, Iff(Truth, ph)))),
                   Rule(<<>>, Truth),
                   Rule(<<Truth, Imp(Truth, Imp(ph, Iff(Truth, ph)))>>, Imp(ph, Iff(Truth, ph))),
                   Rule(<<Imp(ph, Iff(Truth, ph))>>, Imp(ph, Iff(ph, Truth)))>>,
         neg |-> <<Rule(<<>>, Imp(Not(Falsum), Imp(Not(ph), Iff(Falsum, ph)))),
                   Rule(<<>>, Not(Falsum)),
                   Rule(<<Not(Falsum), Imp(Not(Falsum), Imp(Not(ph), Iff(Falsum, ph)))>>, Imp(Not(ph), Iff(Falsum, ph))),
                   Rule(<<Imp(Not(ph), Iff(Falsum, ph))>>, Imp(Not(ph), Iff(ph, Falsum)))>>,
         indep |-> Rule(<<>>, Imp(ps, Iff(ph, ph))),
         clauses |-> {}]

TNot == [falsity |-> Rule(<<ph>>, Not(Not(ph))),
         impNot |-> Rule(<<Iff(ph, ps)>>, Iff(Not(ph), Not(ps))),
         subst |-> Rule(<<Imp(ph, Iff(ps, ch))>>, Imp(ph, Iff(Not(ps), Not(ch)))),
         clauses |-> {<<No(ph), No(Not(ph))>>, <<Yes(ph), Yes(Not(ph))>>}]

TImp == [truth1 |-> Rule(<<ps>>, Imp(ph, ps)),
         truth2 |-> Rule(<<Not(ph)>>, Imp(ph, ps)),
         falsity1 |-> Rule(<<>>, Imp(ph, Imp(Not(ps), Not(Imp(ph, ps))))),
         falsity2 |-> Rule(<<ph, Imp(ph, Imp(Not(ps), Not(Imp(ph, ps))))>>, Imp(Not(ps), Not(Imp(ph, ps)))),
         falsity3 |-> Rule(<<Imp(Not(ps), Not(Imp(ph, ps))), Not(ps)>>, Not(Imp(ph, ps))),
         impNot |-> Rule(<<Iff(ph, ps), Iff(ch, th)>>, Iff(Imp(ph, ch), Imp(ps, th))),
         subst |-> Rule(<<Imp(ph, Iff(ps, ch)), Imp(ph, Iff(th, ta))>>, Imp(ph, Iff(Imp(ps, th), Imp(ch, ta)))),
         clauses |-> {<<No(ph), Yes(ps), No(Imp(ph, ps))>>,
                      <<Yes(ph), Yes(Imp(ph, ps))>>, <<No(ps), Yes(Imp(ph, ps))>>}]

(* The convertible classes give the first step towards implications and negations. *)
TBiimp == LET me == Iff(ph, ps) IN
    [half |-> Not(Imp(Imp(ph, ps), Not(Imp(ps, ph)))),
     clauses |-> {<<No(ph), No(ps), Yes(me)>>, <<Yes(ph), Yes(ps), Yes(me)>>,
                  <<Yes(ph), No(ps), No(me)>>, <<No(ph), Yes(ps), No(me)>>}]

TAnd == LET me == And(ph, ps) IN
    [half |-> Not(Imp(ph, Not(ps))),
     clauses |-> {<<No(ph), No(ps), Yes(me)>>, <<Yes(ph), No(me)>>, <<Yes(ps), No(me)>>}]

TOr == LET me == Or(ph, ps) IN
    [half |-> Imp(Not(ph), ps),
     clauses |-> {<<Yes(ph), Yes(ps), No(me)>>, <<No(ph), Yes(me)>>, <<No(ps), Yes(me)>>}]

TNand == LET me == Nand(ph, ps) IN
    [half |-> Not(And(ph, ps)),
     clauses |-> {<<No(ph), No(ps), No(me)>>, <<Yes(ph), Yes(me)>>, <<Yes(ps), Yes(me)>>}]

TXor == LET me == Xor(ph, ps) IN
    [half |-> Not(Iff(ph, ps)),
     clauses |-> {<<No(ph), No(ps), No(me)>>, <<Yes(ph), Yes(ps), No(me)>>,
                  <<Yes(ph), No(ps), Yes(me)>>, <<No(ph), Yes(ps), Yes(me)>>}]

TAnd3 == LET me == And3(ph, ps, ch)  intermediate == And(ph, ps) IN
    [half |-> And(And(ph, ps), ch),
     clauses |-> {<<No(ph), No(ps), Yes(intermediate)>>, <<Yes(ph), No(intermediate)>>, <<Yes(ps), No(intermediate)>>,
                  <<No(intermediate), No(ch), Yes(me)>>, <<Yes(intermediate), No(me)>>, <<Yes(ch), No(me)>>}]

TOr3 == LET me == Or3(ph, ps, ch)  intermediate == Or(ph, ps) IN
    [half |-> Or(Or(ph, ps), ch),
     clauses |-> {<<Yes(ph), Yes(ps), No(intermediate)>>, <<No(ph), Yes(intermediate)>>, <<No(ps), Yes(intermediate)>>,
                  <<Yes(intermediate), Yes(ch), No(me)>>, <<No(intermediate), Yes(me)>>, <<No(ch), Yes(me)>>}]

Class == [T |-> TTrue, F |-> TFalse, var |-> TVar, not |-> TNot, imp |-> TImp, iff |-> TBiimp, and |-> TAnd,
          or |-> TOr, nand |-> TNand, xor |-> TXor, and3 |-> TAnd3, or3 |-> TOr3]

Of(f) == Class[f[1]]
Convertible(f) == f[1] \in {"iff", "and", "or", "nand", "xor", "and3", "or3"}
Half(f) == Inst(Of(f).half, Given(f))

-----------------------------------------------------------------------------
RECURSIVE ImpNot(_), IsTrue(_), IsFalse(_), Subst_At(_, _, _), VariablesOf(_)

(* imp_not_form: the formula in implications and negations only. *)
ImpNot(f) == IF Convertible(f) THEN ImpNot(Half(f))
             ELSE IF IsVar(f) THEN f
             ELSE <<f[1]>> \o [i \in DOMAIN Args(f) |-> ImpNot(Args(f)[i])]

IsTrue(f) == CASE Convertible(f) -> IsTrue(ImpNot(f))
               [] f[1] = "not"   -> IsFalse(f[2])
               [] f[1] = "imp"   -> IsTrue(f[3]) \/ IsFalse(f[2])
               [] OTHER          -> f = Truth

IsFalse(f) == CASE Convertible(f) -> IsFalse(ImpNot(f))
                [] f[1] = "not"   -> IsTrue(f[2])
                [] f[1] = "imp"   -> IsTrue(f[2]) /\ IsFalse(f[3])
                [] OTHER          -> f = Falsum

(* subst: a variable becomes true or false. *)
Subst_At(f, v, positive) ==
    IF Convertible(f) THEN Subst_At(ImpNot(f), v, positive)
    ELSE IF IsVar(f) THEN IF f # v THEN f ELSE IF positive THEN Truth ELSE Falsum
    ELSE <<f[1]>> \o [i \in DOMAIN Args(f) |-> Subst_At(Args(f)[i], v, positive)]

VariablesOf(f) == IF IsVar(f) THEN {f} ELSE UNION {VariablesOf(Args(f)[i]) : i \in DOMAIN Args(f)}

RECURSIVE ImpNotProof(_), TruthProof(_), FalsityProof(_), SubstProof(_, _, _)

(* get_imp_not_prover: that the formula is equivalent to its form in       *)
(* implications and negations.                                             *)
ImpNotProof(f) ==
    CASE Convertible(f) ->
            Build(Rule(<<Iff(ph, ps), Iff(ps, ch)>>, Iff(ph, ch)),
                  [ph |-> f, ps |-> Half(f), ch |-> ImpNot(f)],
                  <<Iff(f, Half(f)), ImpNotProof(Half(f))>>)
      [] IsVar(f) -> Build(TVar.impNot, [ph |-> f], <<>>)
      [] f[1] = "not" -> Build(TNot.impNot, [ph |-> f[2], ps |-> ImpNot(f[2])], <<ImpNotProof(f[2])>>)
      [] f[1] = "imp" -> Build(TImp.impNot, [ph |-> f[2], ps |-> ImpNot(f[2]), ch |-> f[3], th |-> ImpNot(f[3])],
                               <<ImpNotProof(f[2]), ImpNotProof(f[3])>>)
      [] OTHER -> Build(Of(f).impNot, [x \in {} |-> f], <<>>)

(* get_truth_prover, for a formula whose is_true says that it is seen to be true at once. *)
TruthProof(f) ==
    CASE Convertible(f) -> Build(Rule(<<Iff(ps, ph), ph>>, ps), [ph |-> ImpNot(f), ps |-> f],
                                 <<ImpNotProof(f), TruthProof(ImpNot(f))>>)
      [] f = Truth -> Build(TTrue.truth, [x \in {} |-> f], <<>>)
      [] f[1] = "not" -> FalsityProof(f[2])
      [] f[1] = "imp" -> IF IsTrue(f[3]) THEN Build(TImp.truth1, Given(f), <<TruthProof(f[3])>>)
                         ELSE IF IsFalse(f[2]) THEN Build(TImp.truth2, Given(f), <<FalsityProof(f[2])>>)
                         ELSE NoProof
      [] OTHER -> NoProof

FalsityProof(f) ==
    CASE Convertible(f) -> Build(Rule(<<Iff(ps, ph), Not(ph)>>, Not(ps)), [ph |-> ImpNot(f), ps |-> f],
                                 <<ImpNotProof(f), FalsityProof(ImpNot(f))>>)
      [] f = Falsum -> Build(TFalse.falsity, [x \in {} |-> f], <<>>)
      [] f[1] = "not" -> Build(TNot.falsity, Given(f), <<TruthProof(f[2])>>)
      [] f[1] = "imp" ->
            Build(TImp.falsity3, Given(f),
                  <<Build(TImp.falsity2, Given(f), <<TruthProof(f[2]), Build(TImp.falsity1, Given(f), <<>>)>>),
                    FalsityProof(f[3])>>)
      [] OTHER -> NoProof

Antecedent(v, positive) == IF positive THEN v ELSE Not(v)

(* get_subst_prover: where the variable has that value, the formula is equivalent to its substitution. *)
SubstProof(f, v, positive) ==
    LET ant == Antecedent(v, positive)
        At(g) == Subst_At(g, v, positive)
        steps == IF positive THEN TVar.pos ELSE TVar.neg
        first == Build(steps[1], [ph |-> f], <<>>)
        value == Build(steps[2], [ph |-> f], <<>>)
    IN CASE IsVar(f) /\ f = v -> Build(steps[4], [ph |-> f], <<Build(steps[3], [ph |-> f], <<value, first>>)>>)
         [] IsVar(f) /\ f # v -> Build(TVar.indep, [ps |-> ant, ph |-> f], <<>>)
         [] f[1] = "not" -> Build(TNot.subst, [ph |-> ant, ps |-> f[2], ch |-> At(f[2])], <<SubstProof(f[2], v, positive)>>)
         [] f[1] = "imp" -> Build(TImp.subst, [ph |-> ant, ps |-> f[2], ch |-> At(f[2]), th |-> f[3], ta |-> At(f[3])],
                                  <<SubstProof(f[2], v, positive), SubstProof(f[3], v, positive)>>)
         [] f \in {Truth, Falsum} -> Build(Of(f).subst, [ph |-> ant], <<>>)
         [] OTHER -> NoProof

-----------------------------------------------------------------------------
(* adv_truth_internal: both values of every variable are tried, in order. *)
ByCase(f, v, positive, case) ==
    Build(Rule(<<ch, Imp(ph, Iff(ps, ch))>>, Imp(ph, ps)),
          [ph |-> Antecedent(v, positive), ps |-> f, ch |-> Subst_At(f, v, positive)],
          <<case.proof, SubstProof(f, v, positive)>>)
BothCases(f, v, ifTrue, ifFalse) ==
    IF ~ifTrue.found \/ ~ifFalse.found THEN [found |-> FALSE, proof |-> NoProof]
    ELSE [found |-> TRUE,
          proof |-> Build(Rule(<<Imp(ph, ps), Imp(Not(ph), ps)>>, ps), [ph |-> v, ps |-> f],
                          <<ByCase(f, v, TRUE, ifTrue), ByCase(f, v, FALSE, ifFalse)>>)]
RECURSIVE Split(_, _)
Split(f, vars) ==
    IF vars = <<>> THEN [found |-> IsTrue(f), proof |-> TruthProof(f)]
    ELSE BothCases(f, Head(vars), Split(Subst_At(f, Head(vars), TRUE), Tail(vars)),
                                  Split(Subst_At(f, Head(vars), FALSE), Tail(vars)))

(* get_adv_truth_prover *)
ForOriginal(f, real) ==
    IF ~real.found THEN real
    ELSE [found |-> TRUE, proof |-> Build(Rule(<<ps, Iff(ph, ps)>>, ph), [ph |-> f, ps |-> ImpNot(f)],
                                          <<real.proof, ImpNotProof(f)>>)]
AdvTruth(f) == ForOriginal(f, Split(ImpNot(f), SetToSeq(VariablesOf(f))))

-----------------------------------------------------------------------------
(* get_tseitin_form: the clauses that define every part of the formula by  *)
(* its parts.  A literal is a sign and a part, a clause a list of them; in *)
(* a context the prover of a clause concludes that it implies the clause.  *)
RECURSIVE TseitinForm(_)
TseitinForm(f) ==
    LET Lits(c) == [i \in DOMAIN c |-> <<c[i][1], Inst(c[i][2], Given(f))>>]
    IN UNION {TseitinForm(Args(f)[i]) : i \in DOMAIN Args(f)} \union {Lits(c) : c \in Of(f).clauses}

(* get_tseitin_cnf_problem: and the clause that the formula holds. *)
TseitinProblem(f) == TseitinForm(f) \union {<<Yes(f)>>}

(* collect_tseitin_vars: the parts that the clauses speak of are the variables of the problem. *)
TseitinVars(clauses) == {c[i][2] : <<c, i>> \in {<<d, j>> \in clauses \X (1..3) : j \in DOMAIN d}}

=============================================================================
