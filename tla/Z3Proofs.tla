------------------------------ MODULE Z3Proofs ------------------------------
(***************************************************************************)
(* Refutations found by Z3 become proofs of the library                    *)
(* (provers/z3prover.cpp).                                                 *)
(*                                                                         *)
(* An expression of Z3 is a tuple as in Wff, but conjunctions and          *)
(* disjunctions have any number of arguments, and formulae may be equal    *)
(* (`eq').  A proof of Z3 is a rule, the proofs of its premises and its    *)
(* thesis; the rules of Z3 are external, and a behaviour lets Z3 infer a   *)
(* few theses from a problem.  Every proof found on the way is converted,  *)
(* its premises before it: the outcome is the sentence proved, or NoProof  *)
(* when a prover, a check or a throw ends the conversion.                  *)
(***************************************************************************)
EXTENDS Wff

CONSTANTS Z3Problems,     \* hypotheses and thesis, as Z3Adapter::add_formula is given them
          Rewrites,     \* the equivalences Z3 may rewrite by
          InLibrary,    \* those of them that are assertions of the library
          Tautologies,  \* what Z3 may infer from nothing
          MaxSteps      \* theses that Z3 infers in a behaviour

VARIABLES problem, steps
z3Vars == <<problem, steps>>

-----------------------------------------------------------------------------
(* parse_expr: left to right, two at a time. *)
RECURSIVE ParseExpr(_)
Joined(kind, parts) == FoldLeft(LAMBDA a, b : <<kind, a, b>>, Head(parts), Tail(parts))
ParseExpr(e) ==
    CASE e[1] \in {"T", "F", "var"} -> e
      [] e[1] \in {"and", "or"} -> Joined(e[1], [i \in 1 .. Len(e) - 1 |-> ParseExpr(e[i + 1])])
      [] e[1] = "eq" -> Iff(ParseExpr(e[2]), ParseExpr(e[3]))
      [] OTHER -> <<e[1]>> \o [i \in 1 .. Len(e) - 1 |-> ParseExpr(e[i + 1])]

Parsed(es) == [i \in DOMAIN es |-> ParseExpr(es[i])]
Theses(proofs) == [i \in DOMAIN proofs |-> ParseExpr(proofs[i].thesis)]

(* add_formula: the hypotheses first, then the thesis, of which Z3 gets the negation. *)
HypsOf(pr) == Append(Parsed(pr.hyps), Not(ParseExpr(pr.thesis)))
Abs(pr) == Joined("and", HypsOf(pr))
Target(pr) == IF pr.hyps = <<>> THEN ParseExpr(pr.thesis)
              ELSE Imp(Joined("and", Parsed(pr.hyps)), ParseExpr(pr.thesis))

(* build_checked_prover *)
CheckedAs(abs, thesis, proof) == IF proof = Imp(abs, thesis) THEN proof ELSE NoProof

-----------------------------------------------------------------------------
Under(f) == Imp(ph, f)
Sides2(abs, a, b) == [ph |-> abs, ps |-> a, ch |-> b]
Sides4(abs, a, b, c, d) == [ph |-> abs, ps |-> a, ch |-> b, th |-> c, ta |-> d]

(* A mutant: the clauses that became false are kept. *)
SimplifyOr_Keeps(clauses) ==
    [proof |-> Build(Rule(<<>>, Imp(ph, ph)), [ph |-> Joined("or", clauses)], <<>>),
     first |-> Joined("or", clauses), second |-> Joined("or", clauses)]

(* simplify_or: the disjunction of the clauses without those that are false. *)
SimplifyOr(clauses) ==
    LET Add(st, new) ==
            CASE st.second = Falsum ->
                    [proof |-> Build(Rule(<<Imp(ph, Falsum)>>, Imp(Or(ph, ps), ps)), [ph |-> st.first, ps |-> new], <<st.proof>>),
                     first |-> Or(st.first, new), second |-> new]
              [] st.second # Falsum /\ new = Falsum ->
                    [proof |-> Build(Rule(<<Imp(ph, ps)>>, Imp(Or(ph, Falsum), ps)), [ph |-> st.first, ps |-> st.second], <<st.proof>>),
                     first |-> Or(st.first, new), second |-> st.second]
              [] OTHER ->
                    [proof |-> Build(Rule(<<Imp(ph, ps)>>, Imp(Or(ph, ch), Or(ps, ch))),
                                     [ph |-> st.first, ps |-> st.second, ch |-> new], <<st.proof>>),
                     first |-> Or(st.first, new), second |-> Or(st.second, new)]
        start == [proof |-> Build(Rule(<<>>, Imp(ph, ph)), [ph |-> Head(clauses)], <<>>),
                  first |-> Head(clauses), second |-> Head(clauses)]
    IN FoldLeft(Add, start, Tail(clauses))

(* A binary connective between proofs of (ps -> ch) or (ps <-> ch), folded from the left. *)
FoldRule(rule, kind, abs, olds, news, proofs) ==
    LET Add(st, i) ==
            [proof |-> Build(rule, Sides4(abs, st.old, st.new, olds[i], news[i]), <<st.proof, proofs[i]>>),
             old |-> <<kind, st.old, olds[i]>>, new |-> <<kind, st.new, news[i]>>]
    IN FoldLeft(Add, [proof |-> proofs[1], old |-> olds[1], new |-> news[1]], [i \in 1 .. Len(olds) - 1 |-> i + 1]).proof

(* join_or_imp *)
JoinOrImp(abs, olds, news, proofs) ==
    FoldRule(Rule(<<Under(Imp(ps, ch)), Under(Imp(th, ta))>>, Under(Imp(Or(ps, th), Or(ch, ta)))),
             "or", abs, olds, news, proofs)

-----------------------------------------------------------------------------
(* Asserted: the hypothesis is taken out of the conjunction of all, from the right. *)
RECURSIVE TakeOut(_, _, _, _, _)
TakeOut(abs, proof, cur, left, w) ==
    IF left = 0 THEN proof
    ELSE IF cur[3] = w THEN Build(Rule(<<Under(And(ps, ch))>>, Under(ch)), Sides2(abs, cur[2], w), <<proof>>)
    ELSE TakeOut(abs, Build(Rule(<<Under(And(ps, ch))>>, Under(ps)), Sides2(abs, cur[2], cur[3]), <<proof>>),
                 cur[2], left - 1, w)
Asserted(pr, w) ==
    TakeOut(Abs(pr), Build(Rule(<<>>, Imp(ph, ph)), [ph |-> Abs(pr)], <<>>), Abs(pr), Len(pr.hyps), w)

ModusPonens(abs, p, c) ==
    LET by == p.prem[2].thesis[1]
        connective == IF by = "imp" THEN "imp" ELSE "iff"
    IN IF by \notin {"eq", "iff", "imp"} THEN NoProof
       ELSE Build(Rule(<<Under(ps), Under(<<connective, ps, ch>>)>>, Under(ch)),
                  Sides2(abs, ParseExpr(p.prem[1].thesis), ParseExpr(p.thesis)), c)

(* What holds by itself holds under the hypotheses. *)
Weakened(abs, w, proof) == Build(Rule(<<ps>>, Under(ps)), [ph |-> abs, ps |-> w], <<proof>>)
Rewrite(abs, p) == Weakened(abs, ParseExpr(p.thesis), IF p.thesis \in InLibrary THEN ParseExpr(p.thesis) ELSE NoProof)
DefAxiom(abs, p) == Weakened(abs, ParseExpr(p.thesis), AdvTruth(ParseExpr(p.thesis)).proof)

Transitivity(abs, p, c) ==
    LET w1 == ParseExpr(p.prem[1].thesis)  w2 == ParseExpr(p.prem[2].thesis)
    IN Build(Rule(<<Under(Iff(ps, ch)), Under(Iff(ch, th))>>, Under(Iff(ps, th))),
             [th |-> w2[3]] @@ Sides2(abs, w1[2], w1[3]), c)

(* Every argument that changes is given the proof of the first premise. *)
Monotonicity(abs, p, c) ==
    LET olds == Tail(p.thesis[2])  news == Tail(p.thesis[3])  op == p.thesis[2][1]
        Proof(i) == IF olds[i] = news[i] THEN Build(Rule(<<>>, Under(Iff(ps, ps))), [ph |-> abs, ps |-> ParseExpr(olds[i])], <<>>)
                    ELSE c[1]
        rule == Rule(<<Under(Iff(ps, ch)), Under(Iff(th, ta))>>, Under(Iff(<<op, ps, th>>, <<op, ch, ta>>)))
    IN CASE p.thesis[1] # "iff" -> NoProof
         [] p.thesis[1] = "iff" /\ op = "not" ->
                Build(Rule(<<Under(Iff(ps, ch))>>, Under(Iff(Not(ps), Not(ch)))),
                      Sides2(abs, ParseExpr(olds[1]), ParseExpr(news[1])), <<c[1]>>)
         [] p.thesis[1] = "iff" /\ op \in {"and", "or", "iff", "imp"} ->
                FoldRule(rule, op, abs, Parsed(olds), Parsed(news), [i \in DOMAIN olds |-> Proof(i)])
         [] OTHER -> NoProof

(* Literals of the first premise that a later premise refutes become false. *)
ClausesOf(e) == IF e[1] = "or" THEN Parsed(Tail(e)) ELSE <<ParseExpr(e)>>
Eliminate(abs, clause, elims, c) ==
    LET At(w) == CHOOSE i \in DOMAIN elims : elims[i] = w /\ \A j \in 1 .. i - 1 : elims[j] # w
        Has(w) == \E i \in DOMAIN elims : elims[i] = w
    IN CASE Has(Not(clause)) ->
                [new |-> Falsum, proof |-> Build(Rule(<<Under(Not(ps))>>, Under(Imp(ps, Falsum))),
                                                 [ph |-> abs, ps |-> clause], <<c[At(Not(clause)) + 1]>>)]
         [] ~Has(Not(clause)) /\ clause[1] = "not" /\ Has(Tail(clause)[1]) ->
                [new |-> Falsum, proof |-> Build(Rule(<<Under(ps)>>, Under(Imp(Not(ps), Falsum))),
                                                 [ph |-> abs, ps |-> clause[2]], <<c[At(clause[2]) + 1]>>)]
         [] OTHER -> [new |-> clause, proof |-> Build(Rule(<<>>, Under(Imp(ps, ps))), [ph |-> abs, ps |-> clause], <<>>)]

Resolved(abs, c, olds, news, proofs, simplified) ==
    LET old == Joined("or", olds)  new == Joined("or", news)
        some == Build(Rule(<<Under(ps), Under(Imp(ps, ch))>>, Under(ch)), Sides2(abs, old, new),
                      <<c[1], JoinOrImp(abs, olds, news, proofs)>>)
    IN Build(Rule(<<Under(ps), Imp(ps, ch)>>, Under(ch)), Sides2(abs, new, simplified.second), <<some, simplified.proof>>)

UnitResolution(abs, p, c) ==
    LET olds == ClausesOf(p.prem[1].thesis)
        done == [i \in DOMAIN olds |-> Eliminate(abs, olds[i], Tail(Theses(p.prem)), c)]
        news == [i \in DOMAIN olds |-> done[i].new]
    IN Resolved(abs, c, olds, news, [i \in DOMAIN olds |-> done[i].proof], SimplifyOr(news))

(* From the right, the disjuncts are refuted until the target is met; only *)
(* if that is the leftmost one is the result checked.                      *)
RECURSIVE OrElimFrom(_, _, _, _, _)
OrElimFrom(abs, proof, wff, left, target) ==
    IF left = 0 THEN CheckedAs(abs, Not(target), proof)
    ELSE IF wff[3] = target THEN Build(Rule(<<Under(Not(Or(ps, ch)))>>, Under(Not(ch))), Sides2(abs, wff[2], target), <<proof>>)
    ELSE OrElimFrom(abs, Build(Rule(<<Under(Not(Or(ps, ch)))>>, Under(Not(ps))), Sides2(abs, wff[2], wff[3]), <<proof>>),
                wff[2], left - 1, target)
NotOrElimination(abs, p, c) ==
    OrElimFrom(abs, c[1], ParseExpr(p.prem[1].thesis[2]), Len(p.prem[1].thesis[2]) - 2, ParseExpr(p.thesis[2]))

IffFalse(abs, p, c) ==
    Build(Rule(<<Under(Not(ps))>>, Under(Iff(ps, Falsum))), [ph |-> abs, ps |-> ParseExpr(p.prem[1].thesis)[2]], <<c[1]>>)

(* Lemmas, hypotheses and every other rule: a truth table of the whole. *)
Oracle(abs, p) == AdvTruth(Imp(abs, ParseExpr(p.thesis))).proof

ByRule(pr, abs, p, c) ==
    CASE p.rule = "asserted" -> Asserted(pr, ParseExpr(p.thesis))
      [] p.rule = "mp"       -> ModusPonens(abs, p, c)
      [] p.rule = "rewrite"  -> Rewrite(abs, p)
      [] p.rule = "trans"    -> Transitivity(abs, p, c)
      [] p.rule = "mono"     -> Monotonicity(abs, p, c)
      [] p.rule = "unit"     -> UnitResolution(abs, p, c)
      [] p.rule = "def"      -> DefAxiom(abs, p)
      [] p.rule = "orelim"   -> NotOrElimination(abs, p, c)
      [] p.rule = "ifffalse" -> IffFalse(abs, p, c)
      [] OTHER               -> Oracle(abs, p)
(* Two rules end without build_checked_prover, or see to it themselves. *)
CheckedIfAsked(abs, p, proof) == IF p.rule \in {"asserted", "orelim"} THEN proof ELSE CheckedAs(abs, ParseExpr(p.thesis), proof)
ConvertProof(pr, abs, p) ==
    CheckedIfAsked(abs, p, ByRule(pr, abs, p, [i \in DOMAIN p.prem |-> p.prem[i].converted]))
WithConversion(pr, p) == [rule |-> p.rule, prem |-> p.prem, thesis |-> p.thesis, converted |-> ConvertProof(pr, Abs(pr), p)]

(* The end: the negation of the target is absurd. *)
Concluding(pr, proof) ==
    IF pr.hyps = <<>> THEN Build(Rule(<<Imp(Not(ph), Falsum)>>, ph), [ph |-> Target(pr)], <<proof>>)
    ELSE Build(Rule(<<Imp(And(ph, Not(ps)), Falsum)>>, Imp(ph, ps)),
               [ph |-> Joined("and", Parsed(pr.hyps)), ps |-> ParseExpr(pr.thesis)], <<proof>>)

-----------------------------------------------------------------------------
(* What Z3 infers (external). *)
Proof(rule, prem, thesis) == [rule |-> rule, prem |-> prem, thesis |-> thesis]
Kind(p) == p.thesis[1]
Complement(l) == IF l[1] = "not" THEN l[2] ELSE Not(l)
OrOf(ls) == IF ls = <<>> THEN Falsum ELSE IF Len(ls) = 1 THEN ls[1] ELSE <<"or">> \o ls

RECURSIVE OpenHyps(_)
OpenHyps(p) == CASE p.rule = "hyp" -> {p.thesis}
                 [] p.rule = "lemma" -> {}
                 [] OTHER -> UNION {OpenHyps(p.prem[i]) : i \in DOMAIN p.prem}

AssertedOf(pr) == {Proof("asserted", <<>>, e) : e \in Range(pr.hyps) \union {Not(pr.thesis)}}
FromNothing(pr) ==
    {Proof("rewrite", <<>>, e) : e \in Rewrites} \union {Proof("def", <<>>, e) : e \in Tautologies}
    \union {Proof("hyp", <<>>, Complement(pr.thesis))}

FromOne(p) ==
    CASE Kind(p) = "not" /\ p.thesis[2][1] = "or" -> {Proof("orelim", <<p>>, Not(l)) : l \in Range(Tail(p.thesis[2]))}
      [] Kind(p) = "not" /\ p.thesis[2][1] # "or" -> {Proof("ifffalse", <<p>>, Iff(p.thesis[2], Falsum))}
      [] Kind(p) = "and" -> {Proof("andelim", <<p>>, l) : l \in Range(Tail(p.thesis))}
      [] p.thesis = Falsum /\ OpenHyps(p) # {} ->
            {Proof("lemma", <<p>>, OrOf([i \in 1 .. Cardinality(OpenHyps(p)) |-> Complement(SetToSeq(OpenHyps(p))[i])]))}
      [] Kind(p) = "iff" -> {Proof("mono", <<p>>, Iff(Not(p.thesis[2]), Not(p.thesis[3]))),
                             Proof("mono", <<p>>, Iff(<<"or", Var(3), p.thesis[2], Var(1)>>, <<"or", Var(3), p.thesis[3], Var(1)>>)),
                             Proof("mono", <<p>>, Iff(Imp(p.thesis[2], Var(1)), Imp(p.thesis[3], Var(1))))}
      [] OTHER -> {}

FromTwo(p, q) ==
    (IF Kind(q) \in {"iff", "eq", "imp"} /\ q.thesis[2] = p.thesis THEN {Proof("mp", <<p, q>>, q.thesis[3])} ELSE {})
    \union (IF Kind(p) = "iff" /\ Kind(q) = "iff"
            THEN {Proof("mono", <<p, q>>, Iff(<<"and", p.thesis[2], q.thesis[2]>>, <<"and", p.thesis[3], q.thesis[3]>>))}
                 \union (IF p.thesis[3] = q.thesis[2] THEN {Proof("trans", <<p, q>>, Iff(p.thesis[2], q.thesis[3]))} ELSE {})
            ELSE {})

(* The disjuncts of one that the others, at most three, refute. *)
UnitsOf(p, qs) ==
    LET ls == IF Kind(p) = "or" THEN Tail(p.thesis) ELSE <<p.thesis>>
        Refuted(l) == \E q \in qs : Complement(l) = q.thesis \/ l = Complement(q.thesis)
        left == SelectSeq(ls, LAMBDA l : ~Refuted(l))
    IN IF Len(left) + Cardinality(qs) = Len(ls) THEN {Proof("unit", <<p>> \o SetToSeq(qs), OrOf(left))} ELSE {}

Z3Init == problem \in Z3Problems /\ steps = {WithConversion(problem, p) : p \in AssertedOf(problem)}
Known(p) == \E q \in steps : q.rule = p.rule /\ q.prem = p.prem /\ q.thesis = p.thesis

Z3Infers ==
    /\ Cardinality(steps) < MaxSteps + Len(problem.hyps) + 1
    /\ \E p \in FromNothing(problem) \union UNION {FromOne(q) : q \in steps}
                \union UNION {FromTwo(r[1], r[2]) : r \in {t \in steps \X steps : t[1] # t[2]}}
                \union UNION {UnitsOf(r[1], r[2]) : r \in steps \X UNION {kSubset(k, steps) : k \in 1..3}} :
          ~Known(p) /\ steps' = steps \union {WithConversion(problem, p)}
    /\ UNCHANGED problem

Z3Next == Z3Infers

-----------------------------------------------------------------------------
(* What the conversion handles: no hypothesis is left open, the rewrites   *)
(* are in the library, and at most one argument changes at a time.         *)
RECURSIVE Handled(_)
Handled(p) ==
    /\ OpenHyps(p) = {}
    /\ p.rule = "rewrite" => p.thesis \in InLibrary
    /\ p.rule = "mono" => Len(p.prem) = 1
    /\ p.rule \notin {"lemma", "andelim"} => \A i \in DOMAIN p.prem : Handled(p.prem[i])

(* A proof of Z3 converts into exactly what it claims, under all the       *)
(* hypotheses, or into nothing; it does convert unless it leaves a         *)
(* hypothesis open, rewrites by what the library lacks, or changes several *)
(* arguments at once (z3prover.cpp:379 takes the proof of the first for    *)
(* all); and a converted refutation ends with the target.                  *)
Z3Converts ==
    \A p \in steps :
       /\ p.converted \in {NoProof, Imp(Abs(problem), ParseExpr(p.thesis))}
       /\ Handled(p) => p.converted # NoProof
       /\ p.converted # NoProof /\ p.thesis = Falsum => Concluding(problem, p.converted) = Target(problem)

=============================================================================
