----------------------------- MODULE Unification -----------------------------
(***************************************************************************)
(* Unification of parsing trees (parsing/unif.h): a unificator is given    *)
(* pairs of trees and is asked for a substitution.                         *)
(***************************************************************************)
EXTENDS ParsingTrees

CONSTANTS
    Trees,      \* bound: the flat trees that are unified
    MaxPairs    \* bound: the pairs given to a unificator

VARIABLES pairs,  \* the pairs given, in order
          bi,     \* the bilateral unificator
          uni     \* the unilateral one

unifVars == <<pairs, bi, uni>>

-----------------------------------------------------------------------------
(* DisjointSet, by path compression and rank. *)
MakeSet(djs, v) ==
    IF v \in DOMAIN djs.parent THEN djs ELSE [parent |-> djs.parent @@ (v :> v), rank |-> djs.rank @@ (v :> 0)]

RECURSIVE RootOf(_, _)
RootOf(djs, v) == IF djs.parent[v] = v THEN v ELSE RootOf(djs, djs.parent[v])

RECURSIVE FindSet(_, _)
FindSet(djs, v) ==
    IF djs.parent[v] = v THEN djs
    ELSE [FindSet(djs, djs.parent[v]) EXCEPT !.parent[v] = RootOf(djs, v)]

(* The root that loses is put under the other. *)
UnionSet(djs, l1, l2) ==
    IF djs.rank[l1] < djs.rank[l2] THEN [djs EXCEPT !.parent[l1] = l2]
    ELSE [djs EXCEPT !.parent[l2] = l1, !.rank[l1] = IF @ = djs.rank[l2] THEN @ + 1 ELSE @]

(* NaiveIncrementalCycleDetector: depth first, where a variable without a node is a leaf. *)
RECURSIVE RunOn(_, _, _)
RunOn(deps, st, v) ==
    IF ~st.acyclic \/ v \notin DOMAIN deps \/ v \in ToSet(st.topoSort) THEN st
    ELSE IF v \in st.visiting THEN [st EXCEPT !.acyclic = FALSE]
    ELSE LET below == FoldLeft(LAMBDA s, w : RunOn(deps, s, w), [st EXCEPT !.visiting = @ \union {v}], SetToSeq(deps[v]))
         IN [below EXCEPT !.topoSort = Append(@, v), !.visiting = @ \ {v}]

FindTopoSort(deps) ==
    FoldLeft(LAMBDA st, v : RunOn(deps, st, v), [acyclic |-> TRUE, visiting |-> {}, topoSort |-> <<>>],
             SetToSeq(DOMAIN deps))

-----------------------------------------------------------------------------
(* The bilateral unificator. *)
NewUnificator == [failed |-> FALSE, subst |-> << >>, djs |-> [parent |-> << >>, rank |-> << >>], deps |-> << >>]
Failed == [NewUnificator EXCEPT !.failed = TRUE]

(* What a variable is bound to; if it is bound already, both are unified. *)
RECURSIVE ProcessTree(_, _, _)
Bind_Overwrite(b, v, t) == [b EXCEPT !.subst = (v :> t) @@ @, !.deps = (v :> CollectVariables(t)) @@ @]
Bind(b, v, t) ==
    IF v \in DOMAIN b.subst THEN ProcessTree(b, b.subst[v], t)
    ELSE [b EXCEPT !.subst = @ @@ (v :> t), !.deps = @ @@ (v :> CollectVariables(t))]

ProcessTree(b, t1, t2) ==
    LET l1 == t1[1].lab
        l2 == t2[1].lab
        c1 == Children(t1, 1)
        c2 == Children(t2, 1)
        sets == MakeSet(MakeSet(b.djs, l1), l2)
        found == FindSet(FindSet(sets, l1), l2)
        r1 == RootOf(found, l1)
        r2 == RootOf(found, l2)
        joined == UnionSet(found, r1, r2)
        root == RootOf(joined, r1)
    IN CASE b.failed -> b
         [] ~b.failed /\ l1 = l2 ->
                FoldLeft(LAMBDA st, k : ProcessTree(st, View(t1, c1[k]), View(t2, c2[k])), b, [k \in DOMAIN c1 |-> k])
         [] ~b.failed /\ l1 # l2 /\ TypeOfLabel(l1) # TypeOfLabel(l2) -> Failed
         [] OTHER ->
                IF l1 \in TreeVars /\ l2 \in TreeVars
                THEN IF r1 = r2 THEN [b EXCEPT !.djs = found]
                     ELSE Bind([b EXCEPT !.djs = joined], IF root = r1 THEN r2 ELSE r1, <<Node(root, 0)>>)
                ELSE IF l1 \in TreeVars THEN Bind(b, l1, t2)
                ELSE IF l2 \in TreeVars THEN Bind(b, l2, t1)
                ELSE Failed

AddBilateral(b, t1, t2) == ProcessTree(b, t1, t2)

(* unify2: variables are substituted in the order of their dependencies. *)
Unify2(b) ==
    LET topo == FindTopoSort(b.deps)
        Put(s, v) == (v :> Substitute2(b.subst[v], s)) @@ s
    IN IF b.failed \/ ~topo.acyclic THEN [found |-> FALSE, subst |-> << >>]
       ELSE [found |-> TRUE, subst |-> FoldLeft(Put, << >>, topo.topoSort)]

-----------------------------------------------------------------------------
(* The slow algorithm (UNIFICATOR_SELF_TEST): the first disagreement of    *)
(* the nested trees decides the next substitution.                         *)
RECURSIVE Occurs(_, _), SlowStep(_, _), Slow(_, _, _)
Occurs(v, pt) == pt.lab = v \/ \E k \in DOMAIN pt.children : Occurs(v, pt.children[k])

Equal == [kind |-> "equal", subst |-> << >>]
SlowStep(p, q) ==
    IF p.lab = q.lab
    THEN FoldLeft(LAMBDA r, k : IF r # Equal THEN r ELSE SlowStep(p.children[k], q.children[k]),
                  Equal, [k \in DOMAIN p.children |-> k])
    ELSE IF p.lab \in TreeVars /\ ~Occurs(p.lab, q) THEN [kind |-> "differ", subst |-> (p.lab :> q)]
    ELSE IF q.lab \in TreeVars /\ ~Occurs(q.lab, p) THEN [kind |-> "differ", subst |-> (q.lab :> p)]
    ELSE [kind |-> "clash", subst |-> << >>]

Slow(p, q, subst) ==
    LET step == SlowStep(p, q) IN
    CASE step.kind = "equal" -> [found |-> TRUE, subst |-> subst]
      [] step.kind = "clash" -> [found |-> FALSE, subst |-> << >>]
      [] OTHER -> Slow(Substitute(p, step.subst), Substitute(q, step.subst), Compose(subst, step.subst))

UnifInit == pairs = <<>> /\ bi = NewUnificator /\ uni = [failed |-> FALSE, subst |-> << >>]

(* add_parsing_trees2, of the same trees to a unificator of either kind. *)
AddTrees(t1, t2) ==
    /\ Len(pairs) < MaxPairs
    /\ pairs' = Append(pairs, <<t1, t2>>)
    /\ bi' = AddBilateral(bi, t1, t2)
    /\ uni' = AddUnilateral(uni, t1, t2)

UnifNext == \E t1, t2 \in Trees : AddTrees(t1, t2)

UnifSpec == UnifInit /\ [][UnifNext]_unifVars

-----------------------------------------------------------------------------
(* The pairs as one pair of nested trees. *)
Side(k) == [lab |-> "pairs", children |-> [i \in DOMAIN pairs |-> Pt2ToPt(pairs[i][k])]]

(* The reference: what small trees may be put for the variables of the pairs. *)
Occurring == UNION {CollectVariables(pairs[i][1] \o pairs[i][2]) : i \in DOMAIN pairs}
Small(type) == {t \in Trees : Len(t) <= 2 /\ TypeOfLabel(t[1].lab) = type}
WellTyped == {s \in [Occurring -> UNION {Small(TypeOfVar[v]) : v \in Occurring}] :
                \A v \in Occurring : s[v] \in Small(TypeOfVar[v])}
Value(t, s) == Substitute2(t, s)
Unifies(s) == \A i \in DOMAIN pairs : Value(pairs[i][1], s) = Value(pairs[i][2], s)

(* The bilateral unificator finds a unifier when there is one, and every   *)
(* other is an instance of it; the slow algorithm agrees when types leave  *)
(* it free to (BilateralUnificator::unify2).                               *)
MostGeneral ==
    LET answer == Unify2(bi)
        full == [v \in Occurring |-> IF v \in DOMAIN answer.subst THEN answer.subst[v] ELSE <<Node(v, 0)>>]
    IN IF answer.found
       THEN /\ Unifies(answer.subst)
            /\ \A s \in {w \in WellTyped : Unifies(w)} : \A v \in Occurring : Value(full[v], s) = s[v]
       ELSE ~ \E s \in WellTyped : Unifies(s)

SlowAgrees ==
    LET slow == Slow(Side(1), Side(2), << >>)
        fast == Unify2(bi)
        nested == [v \in DOMAIN fast.subst |-> Pt2ToPt(fast.subst[v])]
    IN /\ fast.found => /\ slow.found
                        /\ Substitute(Side(1), nested) = Substitute(Side(2), nested)
       /\ slow.found => Substitute(Side(1), slow.subst) = Substitute(Side(2), slow.subst)

(* The unilateral one finds what makes the first trees equal to the second *)
(* as they stand, whenever there is such a thing.                          *)
MatchesExactly ==
    LET Fits(s) == \A i \in DOMAIN pairs : Value(pairs[i][1], s) = pairs[i][2]
    IN IF uni.failed THEN ~ \E s \in WellTyped : Fits(s) ELSE Fits(uni.subst)

(* Flat and nested trees say the same, whatever is substituted in them. *)
TreeFormsAgree ==
    \A i \in DOMAIN pairs : \A k \in 1..2 :
        LET t == pairs[i][k] IN
        /\ PtToPt2(<<>>, Pt2ToPt(t)) = t
        /\ ~uni.failed => Pt2ToPt(Value(t, uni.subst)) = Substitute(Pt2ToPt(t), [v \in DOMAIN uni.subst |-> Pt2ToPt(uni.subst[v])])

(* Both bilateral algorithms solve the pairs, and in the same way. *)
UnifiersRight == MostGeneral /\ SlowAgrees

=============================================================================
