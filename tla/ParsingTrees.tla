---------------------------- MODULE ParsingTrees -----------------------------
(***************************************************************************)
(* Flat and nested parsing trees, substitutions and matching               *)
(* (parsing/parser.h, algos.h and the unilateral half of unif.h).          *)
(*                                                                         *)
(* A nested tree has its children.  A substitution is a function from some *)
(* of the variables to trees.                                              *)
(***************************************************************************)
EXTENDS FlatTrees, FiniteSets, SequencesExt

CONSTANT TypeOfTerm  \* the types of the labels that are no variables

TypeOfLabel(lab) == IF lab \in TreeVars THEN TypeOfVar[lab] ELSE TypeOfTerm[lab]

RECURSIVE Siblings(_, _, _)
Siblings(t, i, end) == IF i = end THEN <<>> ELSE <<i>> \o Siblings(t, NextSibling(t, i), end)
Children(t, i) == Siblings(t, i + 1, NextSibling(t, i))

RECURSIVE Pt2ToPt(_), PtToPt2(_, _)
Pt2ToPt(t) == [lab |-> t[1].lab, children |-> [k \in DOMAIN Children(t, 1) |-> Pt2ToPt(View(t, Children(t, 1)[k]))]]
PtToPt2(out, pt) == CloseNode(FoldLeft(PtToPt2, OpenNode(out, pt.lab), pt.children), Len(out) + 1)

RECURSIVE Substitute(_, _), Substitute2From(_, _, _, _)
Substitute(pt, s) ==
    IF pt.lab \in DOMAIN s THEN s[pt.lab]
    ELSE [pt EXCEPT !.children = [k \in DOMAIN @ |-> Substitute(@[k], s)]]

Substitute2From(out, t, i, s) ==
    IF t[i].lab \in DOMAIN s THEN out \o s[t[i].lab]
    ELSE LET below == FoldLeft(LAMBDA o, child : Substitute2From(o, t, child, s), OpenNode(out, t[i].lab), Children(t, i))
         IN CloseNode(below, Len(out) + 1)

Substitute2(t, s) == Substitute2From(<<>>, t, 1, s)

(* compose: a variable that the second substitution brings back to itself  *)
(* is dropped, so that the second may say more about it.                   *)
Compose(first, second) ==
    LET applied == [v \in DOMAIN first |-> Substitute(first[v], second)]
        kept == {v \in DOMAIN first : applied[v].lab # v}
    IN [v \in kept \union DOMAIN second |-> IF v \in kept THEN applied[v] ELSE second[v]]

-----------------------------------------------------------------------------
(* The unilateral unificator: the variables of the first trees only. *)
RECURSIVE MatchFrom(_, _, _, _, _)
MatchFrom(subst, t1, i, t2, j) ==
    IF i > Len(t1) \/ j > Len(t2) THEN [failed |-> ~(i > Len(t1) /\ j > Len(t2)), subst |-> subst]
    ELSE LET v == t1[i].lab
             refused == [failed |-> TRUE, subst |-> subst]
         IN IF v \notin TreeVars THEN IF v # t2[j].lab THEN refused ELSE MatchFrom(subst, t1, i + 1, t2, j + 1)
            ELSE IF TypeOfLabel(v) # TypeOfLabel(t2[j].lab) THEN refused
            ELSE IF v \in DOMAIN subst /\ subst[v] # View(t2, j) THEN refused
            ELSE MatchFrom((v :> View(t2, j)) @@ subst, t1, i + 1, t2, NextSibling(t2, j))

AddUnilateral_Fresh(u, t1, t2) ==
    LET m == MatchFrom(<< >>, t1, 1, t2, 1) IN IF u.failed \/ m.failed THEN [failed |-> TRUE, subst |-> << >>] ELSE m

AddUnilateral(u, t1, t2) ==
    IF u.failed THEN u
    ELSE LET m == MatchFrom(u.subst, t1, 1, t2, 1)
         IN IF m.failed THEN [failed |-> TRUE, subst |-> << >>] ELSE m

=============================================================================
