------------------------------- MODULE WffSat -------------------------------
(***************************************************************************)
(* From a refutation to a proof (provers/sat.cpp, wffsat.cpp, wffblock.cpp)*)
(*                                                                         *)
(* The negation of the formula is given to the SAT solver as clauses.      *)
(* When the solver refutes it, the clauses it learnt are derived again,    *)
(* each by unit propagation from the clauses before, and every derivation  *)
(* becomes calls that push and pop proofs on a stack.  Of the calls only   *)
(* the order matters, so a prover is here the sequence of its calls, and   *)
(* the stack holds what is proved.                                         *)
(***************************************************************************)
EXTENDS Wff

Negate(l) == <<~l[1], l[2]>>

LitToWff(l) == IF l[1] THEN l[2] ELSE Not(l[2])

(* clause_to_pwff, and the disjunction that the provers of wffblock.cpp build of their orands. *)
Disjunction(orands) == IF orands = <<>> THEN Falsum ELSE FoldLeft(LAMBDA a, b : Or(a, b), Head(orands), Tail(orands))
ClauseToWff(c) == Disjunction([i \in DOMAIN c |-> LitToWff(c[i])])

-----------------------------------------------------------------------------
(* wffblock.cpp.  ret is the proof so far, structure what is left of the   *)
(* disjunction; the last orand is eliminated first.                        *)
Locally(f) == Imp(ph, Imp(ps, f))
Given2(glob, loc, a, b) == [ph |-> glob, ps |-> loc, ch |-> a, th |-> b]

(* The last orand changes places with the one before it. *)
Swapped(ret, left, right, eliminating, glob, loc) ==
    IF eliminating = 1
    THEN <<Build(Rule(<<Locally(Or(ch, th))>>, Locally(Or(th, ch))), Given2(glob, loc, left, right), <<ret>>),
           Or(right, left)>>
    ELSE <<Build(Rule(<<Locally(Or(Or(ch, th), ta))>>, Locally(Or(Or(ch, ta), th))),
                 [ta |-> right] @@ Given2(glob, loc, left[2], left[3]), <<ret>>),
           Or(Or(left[2], right), left[3])>>

Eliminated(ret, left, right, sign, prover, glob, loc) ==
    IF sign
    THEN Build(Rule(<<Locally(Or(ch, th)), Locally(Not(th))>>, Locally(ch)), Given2(glob, loc, left, right), <<ret, prover>>)
    ELSE Build(Rule(<<Locally(Or(ch, Not(th))), Locally(th)>>, Locally(ch)),
               Given2(glob, loc, left, right[2]), <<ret, prover>>)

(* From a proof and the disjunction it is of, both after the orands above were eliminated. *)
UnitRes(orands, orandSign, idx, orProver, provers, glob, loc) ==
    LET InPlace(at, i) ==
            IF i > idx THEN at ELSE Swapped(at[1], at[2][2], at[2][3], i, glob, loc)
        Without(at, i) == <<Eliminated(at[1], at[2][2], at[2][3], orandSign[i], provers[i], glob, loc), at[2][2]>>
        Step(at, i) == Without(InPlace(at, i), i)
    IN FoldLeft(Step, <<orProver, Disjunction(orands)>>, Reverse([i \in 1 .. Len(orands) - 1 |-> i]))[1]

(* not_or_elim_prover: of a disjunction that does not hold, the orand at idx does not. *)
RECURSIVE NotOrElimFrom(_, _, _, _, _, _)
NotOrElimFrom(ret, structure, eliminating, idx, sign, loc) ==
    LET In(f) == Imp(ph, f)
        left == structure[2]  right == structure[3]
        Sides(a, b) == [ph |-> loc, ps |-> a, ch |-> b]
    IN CASE eliminating = 0 -> ret
         [] eliminating # 0 /\ eliminating = idx ->
                IF sign THEN Build(Rule(<<In(Not(Or(ps, ch)))>>, In(Not(ch))), Sides(left, right), <<ret>>)
                ELSE Build(Rule(<<In(Not(Or(ps, Not(ch))))>>, In(ch)), Sides(left, right[2]), <<ret>>)
         [] eliminating = 1 /\ idx # 1 /\ ~sign ->
                Build(Rule(<<In(Not(Or(Not(ps), ch)))>>, In(ps)), Sides(left[2], right), <<ret>>)
         [] OTHER -> NotOrElimFrom(Build(Rule(<<In(Not(Or(ps, ch)))>>, In(Not(ps))), Sides(left, right), <<ret>>),
                                   left, eliminating - 1, idx, sign, loc)

NotOrElim(orands, idx, sign, notOrProver, loc) ==
    IF Len(orands) = 1
    THEN IF sign THEN notOrProver
         ELSE Build(Rule(<<Imp(ph, Not(Not(ps)))>>, Imp(ph, ps)), [ph |-> loc, ps |-> orands[1][2]], <<notOrProver>>)
    ELSE NotOrElimFrom(notOrProver, Disjunction(orands), Len(orands) - 1, idx, sign, loc)

Absurdum(concl, pos, neg, glob, loc) ==
    Build(Rule(<<Imp(ph, Imp(Not(ps), ch)), Imp(ph, Imp(Not(ps), Not(ch)))>>, Imp(ph, ps)),
          [ph |-> glob, ps |-> loc, ch |-> concl], <<pos, neg>>)

ImpIntr(concl, proof, glob, loc) ==
    Build(Rule(<<Imp(ph, ch)>>, Imp(ph, Imp(ps, ch))), [ph |-> glob, ps |-> loc, ch |-> concl], <<proof>>)

-----------------------------------------------------------------------------
(* CNFCallbackImpl: what a call does to the stack of proofs.  Positions    *)
(* count from zero, as in the code.                                        *)
Orands(c) == [i \in DOMAIN c |-> LitToWff(c[i])]
Drop(stack, n) == SubSeq(stack, 1, Len(stack) - n)

ProveClause(stack, c, context, glob) ==
    Append(stack, ImpIntr(ClauseToWff(c), Imp(glob, ClauseToWff(c)), glob, Not(ClauseToWff(context))))

ProveNotOrElim(stack, idx, context, glob) ==
    LET loc == Not(ClauseToWff(context))
        lit == context[idx + 1]
        self == Build(Rule(<<>>, Imp(ph, ph)), [ph |-> loc], <<>>)
    IN Append(stack, Build(Rule(<<Imp(ps, ch)>>, Imp(ph, Imp(ps, ch))),
                           [ph |-> glob, ps |-> loc, ch |-> LitToWff(Negate(lit))],
                           <<NotOrElim(Orands(context), idx, lit[1], self, loc)>>))

ProveImpIntr(stack, c, context, glob) ==
    Append(Front(stack), ImpIntr(ClauseToWff(c), Last(stack), glob, Not(ClauseToWff(context))))

ProveUnitRes(stack, c, idx, context, glob) ==
    LET kept == Drop(stack, Len(c))
        others == [i \in 1 .. Len(c) - 1 |-> IF i <= idx THEN c[i][1] ELSE c[i + 1][1]]
        top == SubSeq(stack, Len(stack) - Len(c) + 1, Len(stack))
    IN Append(kept, UnitRes(Orands(c), others, idx, Head(top), Tail(top), glob, Not(ClauseToWff(context))))

ProveAbsurdum_Swapped(stack, l, context, glob) ==
    Append(Drop(stack, 2), Absurdum(l[2], Last(stack), stack[Len(stack) - 1], glob, ClauseToWff(context)))

ProveAbsurdum(stack, l, context, glob) ==
    Append(Drop(stack, 2), Absurdum(l[2], stack[Len(stack) - 1], Last(stack), glob, ClauseToWff(context)))

(* A prover runs its calls on the stack. *)
Call(stack, op, glob) ==
    CASE op.call = "clause" -> ProveClause(stack, op.of, op.context, glob)
      [] op.call = "elim"   -> ProveNotOrElim(stack, op.of, op.context, glob)
      [] op.call = "intr"   -> ProveImpIntr(stack, op.of, op.context, glob)
      [] op.call = "res"    -> ProveUnitRes(stack, op.of, op.idx, op.context, glob)
      [] op.call = "absurd" -> ProveAbsurdum(stack, op.of, op.context, glob)

RunProver(calls, glob) == FoldLeft(LAMBDA stack, op : Call(stack, op, glob), <<>>, calls)

Op(call, of, context) == <<[call |-> call, of |-> of, context |-> context]>>

-----------------------------------------------------------------------------
(* do_unit_propagation.  True literals are kept in the order found, each   *)
(* with the calls that prove it in the context of the clause to derive.    *)
(* A clause of the base has the calls that prove it in a context.          *)
IndexOf(lits, l) == CHOOSE i \in DOMAIN lits : lits[i] = l
Holds(lits, l) == \E i \in DOMAIN lits : lits[i] = l

(* The literals of the clause are assumed not to hold. *)
Assumed(clause) ==
    LET Assume(st, i) ==
            IF Holds(st.lits, Negate(clause[i])) THEN st
            ELSE [lits |-> Append(st.lits, Negate(clause[i])),
                  provers |-> Append(st.provers, Op("elim", i - 1, clause))]
    IN FoldLeft(Assume, [lits |-> <<>>, provers |-> <<>>], [i \in DOMAIN clause |-> i])

CallsFor(base, i, context) ==
    IF base[i].derived THEN base[i].calls \o Op("intr", base[i].clause, context)
    ELSE Op("clause", base[i].clause, context)

(* The positions in a clause whose literals are not known to be false; two *)
(* of them, even for the same literal, and nothing can be deduced.         *)
Unsolved(c, lits) == {i \in DOMAIN c : ~Holds(lits, Negate(c[i]))}
Useless(c, lits) == \/ \E i \in DOMAIN c : Holds(lits, c[i])
                    \/ Cardinality(Unsolved(c, lits)) > 1

(* The clause gives its unsolved literal, or its last one, which is then a contradiction. *)
Deduce(base, i, st, context) ==
    LET c == base[i].clause
        at == IF Unsolved(c, st.lits) = {} THEN Len(c) ELSE CHOOSE j \in Unsolved(c, st.lits) : TRUE
        Known(j) == st.provers[IndexOf(st.lits, Negate(c[j]))]
        used == FlattenSeq([j \in 1 .. Len(c) - 1 |-> Known(IF j < at THEN j ELSE j + 1)])
        calls == CallsFor(base, i, context) \o used
                    \o <<[call |-> "res", of |-> c, idx |-> at - 1, context |-> context]>>
    IN [lits |-> Append(st.lits, c[at]), provers |-> Append(st.provers, calls)]

(* Both a literal and its negation hold: the positive one goes first. *)
Contradiction(new, old, l, context) ==
    [refuted |-> TRUE, calls |-> (IF l[1] THEN new \o old ELSE old \o new) \o Op("absurd", <<TRUE, l[2]>>, context)]

RECURSIVE PropagateFrom(_, _, _, _, _), WithDeduced(_, _, _, _)
PropagateFrom(base, i, st, again, context) ==
    IF i > Len(base)
    THEN IF again THEN PropagateFrom(base, 1, st, FALSE, context) ELSE [refuted |-> FALSE, calls |-> <<>>]
    ELSE IF Useless(base[i].clause, st.lits) THEN PropagateFrom(base, i + 1, st, again, context)
    ELSE WithDeduced(base, i, Deduce(base, i, st, context), context)
WithDeduced(base, i, st, context) ==
    IF ~Holds(st.lits, Negate(Last(st.lits))) THEN PropagateFrom(base, i + 1, st, TRUE, context)
    ELSE Contradiction(Last(st.provers), st.provers[IndexOf(st.lits, Negate(Last(st.lits)))], Last(st.lits), context)

DoUnitPropagation(base, clause) == PropagateFrom(base, 1, Assumed(clause), FALSE, clause)

(* The second half of solve: every clause in the log is derived again, until the empty one; *)
(* what the solver removed is kept all the same.                                            *)
Replay(problem, log) ==
    LET Add(st, entry) ==
            IF ~st.refuted \/ st.done \/ ~entry[1] THEN st
            ELSE LET prop == DoUnitPropagation(st.base, entry[2])
                 IN [refuted |-> prop.refuted, done |-> entry[2] = <<>>,
                     calls |-> prop.calls,
                     base |-> Append(st.base, [clause |-> entry[2], derived |-> TRUE, calls |-> prop.calls])]
        start == [refuted |-> TRUE, done |-> FALSE, calls |-> <<>>,
                  base |-> [i \in DOMAIN problem |-> [clause |-> problem[i], derived |-> FALSE, calls |-> <<>>]]]
    IN FoldLeft(Add, start, Append(log, <<TRUE, <<>>>>))

(* get_sat_prover, once the solver has refuted the problem. *)
SatProof(f, problem, refutation) ==
    LET stack == RunProver(Replay(problem, refutation).calls, Not(f))
    IN IF Len(stack) # 1 THEN NoProof
       ELSE Build(Rule(<<Imp(Not(ph), Falsum)>>, ph), [ph |-> f], stack)

=============================================================================
