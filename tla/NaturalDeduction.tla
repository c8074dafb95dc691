-------------------------- MODULE NaturalDeduction --------------------------
(***************************************************************************)
(* Proofs in natural deduction (provers/ndproof.cpp), as they are read     *)
(* from GAPT (gapt.cpp), checked, and translated into proofs of set.mm     *)
(* (ndproof_to_mm.cpp).                                                    *)
(*                                                                         *)
(* A proof is written leaves first: stack holds the subproofs that no rule *)
(* has used yet, each an object of one of the classes of ndproof.h whose   *)
(* check accepted it.  Of a subproof stay its thesis (antecedents and      *)
(* succedent), the sentence convert_proof proves from it when every name   *)
(* is known, the names that occur in its formulae (vocab), those that its  *)
(* rules mention beside them (needs), and flags: "lax" if a                *)
(* ForallIntroRule generalized over an eigenvar that is free in the        *)
(* predicate, "same" if the eigenvar of one is the bound variable and      *)
(* occurs in the predicate, "vacuous" if a rule substituted for a variable *)
(* that does not occur.                                                    *)
(***************************************************************************)
EXTENDS FirstOrder

CONSTANTS Formulas,  \* the formulae that are written down
          NdTerms,   \* terms, the variables among them
          MaxAnts,   \* antecedents of a sequent
          MaxProof   \* rules of a proof

VARIABLES stack, rules
ndVars == <<stack, rules>>

Vars == {t \in NdTerms : IsVar(t)}

(* decode_idx: GAPT numbers antecedents -1, -2, ...; 0 is a succedent and is refused. *)
Idx == -MaxAnts .. 0
Decode(i) == -i
Refers(i, ants) == i < 0 /\ Decode(i) =< Len(ants)

Without(ants, i) == RemoveAt(ants, i)

-----------------------------------------------------------------------------
(* Rule chains of ndproof_to_mm. *)
RECURSIVE Conj(_)
Conj(ants) == IF ants = <<>> THEN Truth ELSE And(Convert(Head(ants)), Conj(Tail(ants)))

ConvertNdsequent(seq) == Imp(Conj(seq.ants), Convert(seq.suc))

RECURSIVE ConjNotFree(_, _)
ConjNotFree(ants, v) ==
    IF ants = <<>> THEN Build(Rule(<<>>, NotFree(x_, Truth)), [x |-> v], <<>>)
    ELSE Build(Rule(<<NotFree(x_, ph), NotFree(x_, ps)>>, NotFree(x_, And(ph, ps))),
               [x |-> v, ph |-> Convert(Head(ants)), ps |-> Conj(Tail(ants))],
               <<NotFreeProver(Head(ants), v), ConjNotFree(Tail(ants), v)>>)

(* Brings antecedent k to the front of a proved sequent. *)
SelectAntecedent(ants, suc, proof, k) ==
    LET n == Len(ants)
        moved[i \in 0 .. k - 1] ==
            IF i = 0 THEN Build(Rule(<<>>, Iff(ph, ph)), [ph |-> Conj(SubSeq(ants, k, n))], <<>>)
            ELSE Build(Rule(<<Iff(ph, And(ps, ch))>>, Iff(And(et, ph), And(ps, And(et, ch)))),
                       [ch |-> Conj(SubSeq(ants, k - i + 1, k - 1) \o SubSeq(ants, k + 1, n)), ps |-> Convert(ants[k]),
                        ph |-> Conj(SubSeq(ants, k - i + 1, n)), et |-> Convert(ants[k - i])], <<moved[i - 1]>>)
    IN IF k = 1 THEN proof
       ELSE Build(Rule(<<Iff(ph, And(ps, et)), Imp(ph, ch)>>, Imp(And(ps, et), ch)),
                  [ph |-> Conj(ants), ch |-> Convert(suc), ps |-> Convert(ants[k]), et |-> Conj(Without(ants, k))],
                  <<moved[k - 1], proof>>)

SelectAntecedents_NoShift(ants, suc, proof, k, l) ==
    SelectAntecedent(<<ants[l]>> \o Without(ants, l), suc, SelectAntecedent(ants, suc, proof, l), k)

SelectAntecedents(ants, suc, proof, k, l) ==
    SelectAntecedent(<<ants[l]>> \o Without(ants, l), suc, SelectAntecedent(ants, suc, proof, l), IF l < k THEN k ELSE k + 1)

MergedFrom(left, right) ==
    LET n == Len(left)
        merged[i \in 0 .. n] ==
            IF i = 0 THEN Build(Rule(<<>>, Iff(ph, And(Truth, ph))), [ph |-> Conj(right)], <<>>)
            ELSE Build(Rule(<<Iff(ph, And(ps, ch))>>, Iff(And(et, ph), And(And(et, ps), ch))),
                       [ph |-> Conj(SubSeq(left, n - i + 2, n) \o right), ps |-> Conj(SubSeq(left, n - i + 2, n)),
                        ch |-> Conj(right), et |-> Convert(left[n - i + 1])], <<merged[i - 1]>>)
    IN merged[n]

(* From ( L /\ R ) -> suc, the sequent whose antecedents are those of L, then those of R. *)
MergeAntecedents(left, right, suc, proof) ==
    Build(Rule(<<Iff(ps, And(ph, th)), Imp(And(ph, th), ch)>>, Imp(ps, ch)),
          [ph |-> Conj(left), th |-> Conj(right), ps |-> Conj(left \o right), ch |-> Convert(suc)],
          <<MergedFrom(left, right), proof>>)

MergeAntecedents3(left, middle, right, suc, proof) ==
    LET n == Len(left)
        rest(i) == SubSeq(left, n - i + 2, n)
        merged[i \in 0 .. n] ==
            IF i = 0 THEN Build(Rule(<<Iff(ph, And(ps, ch))>>, Iff(ph, And(Truth, And(ps, ch)))),
                                [ph |-> Conj(middle \o right), ps |-> Conj(middle), ch |-> Conj(right)],
                                <<MergedFrom(middle, right)>>)
            ELSE Build(Rule(<<Iff(ph, And(ps, And(ch, th)))>>, Iff(And(et, ph), And(And(et, ps), And(ch, th)))),
                       [ph |-> Conj(rest(i) \o middle \o right), ps |-> Conj(rest(i)), ch |-> Conj(middle),
                        th |-> Conj(right), et |-> Convert(left[n - i + 1])], <<merged[i - 1]>>)
    IN Build(Rule(<<Iff(ps, And(ph, And(th, et))), Imp(And(ph, And(th, et)), ch)>>, Imp(ps, ch)),
             [ph |-> Conj(left), th |-> Conj(middle), et |-> Conj(right), ps |-> Conj(left \o middle \o right), ch |-> Convert(suc)],
             <<merged[n], proof>>)

-----------------------------------------------------------------------------
(* convert_proof, class by class: p is the thesis of the subproof and c its translation; l, r those of two subproofs. *)
LogicalAxiomMm(f) == Build(Rule(<<>>, Imp(And(ph, Truth), ph)), [ph |-> Convert(f)], <<>>)

EqualityIntroMm(t) == Build(Rule(<<>>, Imp(Truth, Eq(A_, A_))), [A |-> Convert(t)], <<>>)

WeakeningMm(p, c, f) ==
    Build(Rule(<<Imp(ph, ps)>>, Imp(And(ch, ph), ps)), [ph |-> Conj(p.ants), ps |-> Convert(p.suc), ch |-> Convert(f)], <<c>>)

ContractionMm(p, c, k, l, ants) ==
    Build(Rule(<<Imp(And(ph, And(ph, ps)), ch)>>, Imp(And(ph, ps), ch)),
          [ph |-> Convert(p.ants[k]), ps |-> Conj(ants), ch |-> Convert(p.suc)], <<SelectAntecedents(p.ants, p.suc, c, k, l)>>)

AndElimMm(p, c, side, kept, other) ==
    Build(Rule(<<Imp(ph, IF side = 1 THEN And(ps, ch) ELSE And(ch, ps))>>, Imp(ph, ps)),
          [ph |-> Conj(p.ants), ps |-> Convert(kept), ch |-> Convert(other)], <<c>>)

OrIntroMm(p, c, side, f) ==
    Build(Rule(<<Imp(ph, ps)>>, Imp(ph, IF side = 1 THEN Or(ps, ch) ELSE Or(ch, ps))),
          [ph |-> Conj(p.ants), ps |-> Convert(p.suc), ch |-> Convert(f)], <<c>>)

ImpIntroMm(p, c, k) ==
    Build(Rule(<<Imp(And(ph, ps), ch)>>, Imp(ps, Imp(ph, ch))),
          [ph |-> Convert(p.ants[k]), ps |-> Conj(Without(p.ants, k)), ch |-> Convert(p.suc)],
          <<SelectAntecedent(p.ants, p.suc, c, k)>>)

BottomElimMm(p, c, f) == Build(Rule(<<Imp(ph, Falsum)>>, Imp(ph, ps)), [ph |-> Conj(p.ants), ps |-> Convert(f)], <<c>>)

(* Unlike ExistsElimRule, ForallIntroRule has no case for an eigenvariable that is the bound variable. *)
ForallIntroMm(p, c, v, eigenvar, f) ==
    Build(Rule(<<NotFree(y_, ph), NotFree(y_, ch), Iff(Subst(Cv(y_), x_, ch), ps), Imp(ph, ps)>>, Imp(ph, All(x_, ch))),
          [ph |-> Conj(p.ants), ch |-> Convert(f), ps |-> Convert(ReplaceIn(f, v, eigenvar)), x |-> v, y |-> eigenvar],
          <<ConjNotFree(p.ants, eigenvar), NotFreeProver(f, eigenvar), ReplaceProver(f, v, eigenvar), c>>)

ForallElimMm(p, c, v, t, f) ==
    Build(Rule(<<IsSet(A_), Imp(ph, All(x_, ch)), Iff(Subst(A_, x_, ch), ps)>>, Imp(ph, ps)),
          [A |-> Convert(t), x |-> v, ph |-> Conj(p.ants), ch |-> Convert(f), ps |-> Convert(ReplaceIn(f, v, t))],
          <<Sethood(t), c, ReplaceProver(f, v, t)>>)

ExistsIntroMm(p, c, v, t, f) ==
    Build(Rule(<<Iff(Subst(A_, x_, ch), ps), Imp(ph, ps)>>, Imp(ph, Ex(x_, ch))),
          [A |-> Convert(t), x |-> v, ph |-> Conj(p.ants), ch |-> Convert(f), ps |-> Convert(ReplaceIn(f, v, t))],
          <<ReplaceProver(f, v, t), c>>)

AndIntroMm(l, c, r, d) ==
    MergeAntecedents(l.ants, r.ants, And(l.suc, r.suc),
        Build(Rule(<<Imp(ph, ch), Imp(ps, et)>>, Imp(And(ph, ps), And(ch, et))),
              [ph |-> Conj(l.ants), ps |-> Conj(r.ants), ch |-> Convert(l.suc), et |-> Convert(r.suc)], <<c, d>>))

NegElimMm(l, c, r, d) ==
    MergeAntecedents(l.ants, r.ants, Falsum,
        Build(Rule(<<Imp(ph, Not(ch)), Imp(ps, ch)>>, Imp(And(ph, ps), Falsum)),
              [ph |-> Conj(l.ants), ps |-> Conj(r.ants), ch |-> Convert(r.suc)], <<c, d>>))

ImpElimMm(l, c, r, d, suc) ==
    MergeAntecedents(l.ants, r.ants, suc,
        Build(Rule(<<Imp(ph, Imp(ps, ch)), Imp(et, ps)>>, Imp(And(ph, et), ch)),
              [ph |-> Conj(l.ants), et |-> Conj(r.ants), ps |-> Convert(r.suc), ch |-> Convert(suc)], <<c, d>>))

ExistsElimMm(l, c, r, d, k, eigenvar) ==
    LET ants == Without(r.ants, k)
        v == l.suc[2]
        f == l.suc[3]
        right == SelectAntecedent(r.ants, r.suc, d, k)
        s == [x |-> v, y |-> eigenvar, ph |-> Conj(l.ants), ps |-> Conj(ants), th |-> Convert(f),
              et |-> Convert(ReplaceIn(f, v, eigenvar)), ch |-> Convert(r.suc)]
    IN MergeAntecedents(l.ants, ants, r.suc,
         IF v # eigenvar
         THEN Build(Rule(<<Imp(ph, Ex(x_, th)), Iff(Subst(Cv(y_), x_, th), et), Imp(And(et, ps), ch),
                           NotFree(y_, ch), NotFree(y_, th), NotFree(y_, ps)>>, Imp(And(ph, ps), ch)), s,
                    <<c, ReplaceProver(f, v, eigenvar), right, NotFreeProver(r.suc, eigenvar),
                      NotFreeProver(f, eigenvar), ConjNotFree(ants, eigenvar)>>)
         ELSE Build(Rule(<<Imp(ph, Ex(x_, th)), Imp(And(th, ps), ch), NotFree(x_, ch), NotFree(x_, ps)>>, Imp(And(ph, ps), ch)), s,
                    <<c, right, NotFreeProver(r.suc, v), ConjNotFree(ants, v)>>))

EqualityElimMm(l, c, r, d, v, form, reversed, suc) ==
    LET a == l.suc[2]
        b == l.suc[3]
        sides == <<Iff(Subst(A_, x_, ch), th), Iff(Subst(B_, x_, ch), et)>>
    IN MergeAntecedents(l.ants, r.ants, suc,
         Build(IF reversed THEN Rule(<<Imp(ph, Eq(A_, B_)), Imp(ps, et)>> \o sides, Imp(And(ph, ps), th))
                           ELSE Rule(<<Imp(ph, Eq(A_, B_)), Imp(ps, th)>> \o sides, Imp(And(ph, ps), et)),
               [ph |-> Conj(l.ants), ps |-> Conj(r.ants), x |-> v, A |-> Convert(a), B |-> Convert(b), ch |-> Convert(form),
                th |-> Convert(ReplaceIn(form, v, a)), et |-> Convert(ReplaceIn(form, v, b))],
               <<c, d, ReplaceProver(form, v, a), ReplaceProver(form, v, b)>>))

ExcludedMiddleMm(l, c, r, d, k, j) ==
    MergeAntecedents(Without(l.ants, k), Without(r.ants, j), l.suc,
        Build(Rule(<<Imp(And(ps, ph), ch), Imp(And(Not(ps), et), ch)>>, Imp(And(ph, et), ch)),
              [ps |-> Convert(l.ants[k]), ph |-> Conj(Without(l.ants, k)), et |-> Conj(Without(r.ants, j)), ch |-> Convert(l.suc)],
              <<SelectAntecedent(l.ants, l.suc, c, k), SelectAntecedent(r.ants, r.suc, d, j)>>))

OrElimMm(l, c, m, d, r, e, k, j) ==
    LET middle == Without(m.ants, k)
        right == Without(r.ants, j)
    IN MergeAntecedents3(l.ants, middle, right, r.suc,
         Build(Rule(<<Imp(ph, Or(ps, ch)), Imp(And(ps, et), th), Imp(And(ch, ta), th)>>, Imp(And(ph, And(et, ta)), th)),
               [ph |-> Conj(l.ants), et |-> Conj(middle), ta |-> Conj(right), ps |-> Convert(m.ants[k]),
                ch |-> Convert(r.ants[j]), th |-> Convert(r.suc)],
               <<c, SelectAntecedent(m.ants, m.suc, d, k), SelectAntecedent(r.ants, r.suc, e, j)>>))

-----------------------------------------------------------------------------
(* The classes of proofs, with their fields; thesis and subproofs are those of the stack. *)
Bodies == {q[3] : q \in {f \in Formulas : Quantified(f)}}

StructuralRules == [class : {"LogicalAxiom", "Weakening"}, form : Formulas]
                   \union [class : {"Contraction"}, contr_idx1 : Idx, contr_idx2 : Idx]
ConjunctionRules == [class : {"AndIntro", "AndElim1", "AndElim2"}]
DisjunctionRules == [class : {"OrIntro1", "OrIntro2"}, disjunct : Formulas]
                    \union [class : {"OrElim"}, middle_idx : Idx, right_idx : Idx]
ImplicationRules == [class : {"NegElim", "ImpElim"}] \union [class : {"ImpIntro"}, ant_idx : Idx]
                    \union [class : {"BottomElim"}, form : Formulas]
QuantifierRules == [class : {"ForallIntro"}, var : Vars, eigenvar : Vars] \union [class : {"ForallElim"}, subst_term : NdTerms]
                   \union [class : {"ExistsIntro"}, form : Bodies, var : Vars, subst_term : NdTerms]
                   \union [class : {"ExistsElim"}, idx : Idx, eigenvar : Vars]
EqualityRules == [class : {"EqualityIntro"}, t : NdTerms] \union [class : {"EqualityElim"}, var : Vars, form : Formulas]
ClassicalRules == [class : {"ExcludedMiddle"}, left_idx : Idx, right_idx : Idx]

-----------------------------------------------------------------------------
(* Building a proof. *)
Thesis(ants, suc) == [ants |-> ants, suc |-> suc]

Subformulae_None(rule) == {}

(* get_subformulae: formulae of a rule that are in no thesis. *)
Subformulae(rule) == IF rule.class = "EqualityElim" THEN {rule.form} ELSE {}

(* collect_vars_functs_preds: the names of a proof, from its theses and subformulae alone. *)
Vocabulary(rule, used, thesis) ==
    UNION {Symbols(f) : f \in Range(thesis.ants) \union {thesis.suc} \union Subformulae(rule)}
    \union UNION {p.vocab : p \in Range(used)}

(* What convert_proof looks up beside the formulae of the theses. *)
Mentioned(rule) ==
    CASE rule.class \in {"ForallElim", "ExistsIntro"} -> Symbols(rule.subst_term)
      [] rule.class \in {"ForallIntro", "ExistsElim"} -> Symbols(rule.eigenvar)
      [] rule.class = "EqualityElim" -> Symbols(rule.var)
      [] OTHER -> {}

(* The proof of `thesis' by `rule' from the top subproofs `used'; flags are inherited. *)
Conclude(rule, used, thesis, mm, flags) ==
    /\ rules < MaxProof
    /\ Len(stack) - Len(used) =< 2 * (MaxProof - rules - 1)   \* the bound leaves rules to join them all
    /\ Len(thesis.ants) =< MaxAnts
    /\ stack' = SubSeq(stack, 1, Len(stack) - Len(used))
                 \o <<[seq |-> thesis, mm |-> mm, vocab |-> Vocabulary(rule, used, thesis),
                       needs |-> Mentioned(rule) \union UNION {p.needs : p \in Range(used)},
                       flags |-> flags \union UNION {p.flags : p \in Range(used)}]>>
    /\ rules' = rules + 1

(* read_gapt allocates what was collected; any other name makes a look-up throw. *)
Converted(p) == IF p.needs \subseteq p.vocab THEN p.mm ELSE NoProof

Top(n) == SubSeq(stack, Len(stack) - n + 1, Len(stack))
Infer(rule, used, ants, suc, mm) == Conclude(rule, used, Thesis(ants, suc), mm, {})
Vacuous(f, v) == IF HasFreeVar(f, v) THEN {} ELSE {"vacuous"}

NdInit == stack = <<>> /\ rules = 0

(* The checks of the rules: l, m, r are the theses of the subproofs and c, d, e their translations. *)
LogicalAxiom(o) == o.class = "LogicalAxiom" /\ Infer(o, <<>>, <<o.form>>, o.form, LogicalAxiomMm(o.form))

EqualityIntro(o) == o.class = "EqualityIntro" /\ Infer(o, <<>>, <<>>, Eq(o.t, o.t), EqualityIntroMm(o.t))

Weakening(o, u, p, c) ==
    o.class = "Weakening" /\ Infer(o, u, <<o.form>> \o p.ants, p.suc, WeakeningMm(p, c, o.form))

Contraction(o, u, p, c) ==
    /\ o.class = "Contraction"
    /\ Refers(o.contr_idx1, p.ants) /\ Refers(o.contr_idx2, p.ants)
    /\ LET k == Decode(o.contr_idx1)
           l == Decode(o.contr_idx2)
           rest == SelectSeq([n \in DOMAIN p.ants |-> n], LAMBDA n : n \notin {k, l})
           ants == [n \in DOMAIN rest |-> p.ants[rest[n]]]
       IN /\ k # l
          /\ p.ants[k] = p.ants[l]
          /\ Infer(o, u, <<p.ants[k]>> \o ants, p.suc, ContractionMm(p, c, k, l, ants))

AndElim(o, u, p, c) ==
    LET side == IF o.class = "AndElim1" THEN 1 ELSE 2
    IN /\ o.class \in {"AndElim1", "AndElim2"}
       /\ p.suc[1] = "and"
       /\ Infer(o, u, p.ants, p.suc[side + 1], AndElimMm(p, c, side, p.suc[side + 1], p.suc[4 - side]))

OrIntro(o, u, p, c) ==
    LET side == IF o.class = "OrIntro1" THEN 1 ELSE 2
        suc == IF side = 1 THEN Or(p.suc, o.disjunct) ELSE Or(o.disjunct, p.suc)
    IN /\ o.class \in {"OrIntro1", "OrIntro2"}
       /\ suc \in Formulas
       /\ Infer(o, u, p.ants, suc, OrIntroMm(p, c, side, o.disjunct))

ImpIntro(o, u, p, c) ==
    /\ o.class = "ImpIntro"
    /\ Refers(o.ant_idx, p.ants)
    /\ LET k == Decode(o.ant_idx)
           suc == Imp(p.ants[k], p.suc)
       IN suc \in Formulas /\ Infer(o, u, Without(p.ants, k), suc, ImpIntroMm(p, c, k))

BottomElim(o, u, p, c) ==
    o.class = "BottomElim" /\ p.suc = Falsum /\ Infer(o, u, p.ants, o.form, BottomElimMm(p, c, o.form))

(* The second test of ForallIntroRule::check for the eigenvariable repeats a condition that  *)
(* has already been refused: the eigenvariable may occur free in the predicate f.            *)
ForallIntro(o, u, p, c, f) ==
    /\ o.class = "ForallIntro"
    /\ All(o.var, f) \in Formulas
    /\ \A n \in DOMAIN p.ants : ~HasFreeVar(p.ants[n], o.eigenvar)
    /\ ~Captures(f, o.var, o.eigenvar)
    /\ ReplaceIn(f, o.var, o.eigenvar) = p.suc
    /\ Conclude(o, u, Thesis(p.ants, All(o.var, f)), ForallIntroMm(p, c, o.var, o.eigenvar, f),
                Vacuous(f, o.var)
                \union IF HasFreeVar(f, o.eigenvar) THEN {IF o.var = o.eigenvar THEN "same" ELSE "lax"} ELSE {})

ForallElim(o, u, p, c) ==
    /\ o.class = "ForallElim"
    /\ p.suc[1] = "all"
    /\ LET v == p.suc[2]
           f == p.suc[3]
       IN /\ ~Captures(f, v, o.subst_term)
          /\ Conclude(o, u, Thesis(p.ants, ReplaceIn(f, v, o.subst_term)), ForallElimMm(p, c, v, o.subst_term, f), Vacuous(f, v))

ExistsIntro(o, u, p, c) ==
    /\ o.class = "ExistsIntro"
    /\ Ex(o.var, o.form) \in Formulas
    /\ ~Captures(o.form, o.var, o.subst_term)
    /\ ReplaceIn(o.form, o.var, o.subst_term) = p.suc
    /\ Conclude(o, u, Thesis(p.ants, Ex(o.var, o.form)), ExistsIntroMm(p, c, o.var, o.subst_term, o.form), Vacuous(o.form, o.var))

AndIntro(o, u, l, c, r, d) ==
    /\ o.class = "AndIntro"
    /\ And(l.suc, r.suc) \in Formulas
    /\ Infer(o, u, l.ants \o r.ants, And(l.suc, r.suc), AndIntroMm(l, c, r, d))

NegElim(o, u, l, c, r, d) ==
    o.class = "NegElim" /\ l.suc = Not(r.suc) /\ Infer(o, u, l.ants \o r.ants, Falsum, NegElimMm(l, c, r, d))

ImpElim(o, u, l, c, r, d) ==
    /\ o.class = "ImpElim"
    /\ l.suc[1] = "imp"
    /\ l.suc[2] = r.suc
    /\ Infer(o, u, l.ants \o r.ants, l.suc[3], ImpElimMm(l, c, r, d, l.suc[3]))

ExistsElim(o, u, l, c, r, d) ==
    /\ o.class = "ExistsElim"
    /\ Refers(o.idx, r.ants)
    /\ l.suc[1] = "ex"
    /\ LET k == Decode(o.idx)
           ants == Without(r.ants, k)
           v == l.suc[2]
           f == l.suc[3]
       IN /\ \A n \in DOMAIN ants : ~HasFreeVar(ants[n], o.eigenvar)
          /\ ~HasFreeVar(r.suc, o.eigenvar)
          /\ v # o.eigenvar => ~HasFreeVar(f, o.eigenvar)
          /\ ~Captures(f, v, o.eigenvar)
          /\ ReplaceIn(f, v, o.eigenvar) = r.ants[k]
          /\ Conclude(o, u, Thesis(l.ants \o ants, r.suc), ExistsElimMm(l, c, r, d, k, o.eigenvar), Vacuous(f, v))

(* check_reversed: the equation is used in the direction that fits; if both do, from left to right. *)
EqualityElim(o, u, l, c, r, d, reversed) ==
    /\ o.class = "EqualityElim"
    /\ l.suc[1] = "eq"
    /\ LET a == l.suc[2]
           b == l.suc[3]
           suc == ReplaceIn(o.form, o.var, IF reversed THEN a ELSE b)
       IN /\ ~Captures(o.form, o.var, a)
          /\ ~Captures(o.form, o.var, b)
          /\ r.suc = ReplaceIn(o.form, o.var, IF reversed THEN b ELSE a)
          /\ reversed => ~(r.suc = ReplaceIn(o.form, o.var, a) /\ suc = ReplaceIn(o.form, o.var, b))
          /\ Conclude(o, u, Thesis(l.ants \o r.ants, suc), EqualityElimMm(l, c, r, d, o.var, o.form, reversed, suc),
                      Vacuous(o.form, o.var))

ExcludedMiddle(o, u, l, c, r, d) ==
    /\ o.class = "ExcludedMiddle"
    /\ Refers(o.left_idx, l.ants) /\ Refers(o.right_idx, r.ants)
    /\ LET k == Decode(o.left_idx)
           n == Decode(o.right_idx)
       IN /\ l.suc = r.suc
          /\ r.ants[n] = Not(l.ants[k])
          /\ Infer(o, u, Without(l.ants, k) \o Without(r.ants, n), l.suc, ExcludedMiddleMm(l, c, r, d, k, n))

OrElim(o, u, l, c, m, d, r, e) ==
    /\ o.class = "OrElim"
    /\ Refers(o.middle_idx, m.ants) /\ Refers(o.right_idx, r.ants)
    /\ LET k == Decode(o.middle_idx)
           n == Decode(o.right_idx)
       IN /\ l.suc = Or(m.ants[k], r.ants[n])
          /\ m.suc = r.suc
          /\ Infer(o, u, l.ants \o Without(m.ants, k) \o Without(r.ants, n), r.suc, OrElimMm(l, c, m, d, r, e, k, n))

-----------------------------------------------------------------------------
(* parse_gapt_proof: an object of any class on top of as many subproofs as the class has. *)
Leaves ==
    \/ \E o \in StructuralRules : LogicalAxiom(o)
    \/ \E o \in EqualityRules : EqualityIntro(o)

Unary(u) ==
    LET p == u[1].seq
        c == u[1].mm
    IN \/ \E o \in StructuralRules : Weakening(o, u, p, c) \/ Contraction(o, u, p, c)
       \/ \E o \in ConjunctionRules : AndElim(o, u, p, c)
       \/ \E o \in DisjunctionRules : OrIntro(o, u, p, c)
       \/ \E o \in ImplicationRules : ImpIntro(o, u, p, c) \/ BottomElim(o, u, p, c)
       \/ \E o \in QuantifierRules :
              ForallElim(o, u, p, c) \/ ExistsIntro(o, u, p, c) \/ \E f \in Bodies : ForallIntro(o, u, p, c, f)

Binary(u) ==
    LET l == u[1].seq
        c == u[1].mm
        r == u[2].seq
        d == u[2].mm
    IN \/ \E o \in ConjunctionRules : AndIntro(o, u, l, c, r, d)
       \/ \E o \in ImplicationRules : NegElim(o, u, l, c, r, d) \/ ImpElim(o, u, l, c, r, d)
       \/ \E o \in QuantifierRules : ExistsElim(o, u, l, c, r, d)
       \/ \E o \in EqualityRules, reversed \in BOOLEAN : EqualityElim(o, u, l, c, r, d, reversed)
       \/ \E o \in ClassicalRules : ExcludedMiddle(o, u, l, c, r, d)

Ternary(u) == \E o \in DisjunctionRules : OrElim(o, u, u[1].seq, u[1].mm, u[2].seq, u[2].mm, u[3].seq, u[3].mm)

NdNext ==
    \/ Leaves
    \/ Len(stack) >= 1 /\ Unary(Top(1))
    \/ Len(stack) >= 2 /\ Binary(Top(2))
    \/ Len(stack) >= 3 /\ Ternary(Top(3))

NdSpec == NdInit /\ [][NdNext]_ndVars

-----------------------------------------------------------------------------
(* Truth in the structures with two elements. *)
Domain == {1, 2}
Structures == [pred : SUBSET Domain, value : [Vars -> Domain], fun : [Domain -> Domain]]

RECURSIVE Denotes(_, _), TrueIn(_, _)
Denotes(t, m) == IF IsVar(t) THEN m.value[t] ELSE m.fun[Denotes(t[3][1], m)]
TrueIn(f, m) ==
    LET with(d) == [m EXCEPT !.value = [@ EXCEPT ![f[2]] = d]]
    IN CASE f = Truth -> TRUE
         [] f = Falsum -> FALSE
         [] f[1] = "pred" -> Denotes(f[3][1], m) \in m.pred
         [] f[1] = "eq" -> Denotes(f[2], m) = Denotes(f[3], m)
         [] f[1] = "not" -> ~TrueIn(f[2], m)
         [] f[1] = "and" -> TrueIn(f[2], m) /\ TrueIn(f[3], m)
         [] f[1] = "or" -> TrueIn(f[2], m) \/ TrueIn(f[3], m)
         [] f[1] = "imp" -> TrueIn(f[2], m) => TrueIn(f[3], m)
         [] f[1] = "all" -> \A d \in Domain : TrueIn(f[3], with(d))
         [] f[1] = "ex" -> \E d \in Domain : TrueIn(f[3], with(d))

SequentHolds(seq) ==
    \A m \in Structures : (\A n \in DOMAIN seq.ants : TrueIn(seq.ants[n], m)) => TrueIn(seq.suc, m)

Built == {stack[n] : n \in DOMAIN stack}

(* Every proof that NDProof::check accepts proves a sequent that holds, as long as no rule   *)
(* introduced a universal quantifier over an eigenvariable that stays free in the predicate: *)
(* the conditions on eigenvariables and captures, rule by rule, are enough together.         *)
ChecksSound == \A p \in Built : "lax" \notin p.flags => SequentHolds(p.seq)

(* ForallIntroRule::check has a line that refuses such an eigenvariable                      *)
(* (provers/ndproof.cpp:472-474): were it effective, whatever is accepted would hold.        *)
AcceptedHolds == \A p \in Built : SequentHolds(p.seq)

(* convert_proof gives a proof of exactly the sentence convert_ndsequent promises, whatever  *)
(* rules, positions of antecedents and quantifiers the proof uses.  It gives none where a    *)
(* universal quantifier was introduced over an eigenvariable that occurs in the predicate:   *)
(* rightly if it is another variable, and as a limit of the code if it is the bound one.     *)
(* And it may throw for a name that the proof mentions and read_gapt did not collect, but    *)
(* only if a rule of the proof substitutes for a variable that does not occur.               *)
ConversionExact ==
    \A p \in Built :
        IF p.flags \cap {"lax", "same"} # {} THEN Converted(p) = NoProof
        ELSE /\ Converted(p) \in {ConvertNdsequent(p.seq), NoProof}
             /\ "vacuous" \notin p.flags => Converted(p) = ConvertNdsequent(p.seq)
=============================================================================
