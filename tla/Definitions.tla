----------------------------- MODULE Definitions -----------------------------
(***************************************************************************)
(* Unfolding the definitions of set.mm, and the substitution rules that    *)
(* its syntax constructors should have (provers/subst.cpp).                *)
(*                                                                         *)
(* A tree is a tuple: a label and its children; a leaf is                  *)
(* <<"v", type, name>>.  A new temporary variable is named by a number     *)
(* that no other has.  A behaviour builds a class or formula step by step; *)
(* every one on the way is unfolded.  Others only seek the rules of a      *)
(* constructor; whether the library has them is left out.                  *)
(***************************************************************************)
EXTENDS Integers, Sequences, FiniteSets, SequencesExt

CONSTANTS Library,      \* the assertions in order: [hyps, stated], the tree of a thesis
          Syntax,       \* the constructors in order: [label, type, args, binds, body], with 0 for no body
          Relations,    \* bound: what membership may be between the elements of a model
          MaxHeight     \* bound: the steps that build a tree

VARIABLES sought,       \* the constructor whose rules are sought, or 0
          tree,         \* the class or formula
          height
defVars == <<sought, tree, height>>

Leaf(type, name) == <<"v", type, name>>
IsLeaf(t) == t[1] = "v"
TypeOf(t) == IF IsLeaf(t) THEN t[2]
             ELSE LET at == CHOOSE i \in DOMAIN Syntax : Syntax[i].label = t[1] IN Syntax[at].type
Subtrees(t) == IF IsLeaf(t) THEN <<>> ELSE Tail(t)
ByParts(t, children) == IF IsLeaf(t) THEN t ELSE <<t[1]>> \o children

RECURSIVE LeavesOf(_)
LeavesOf(t) == IF IsLeaf(t) THEN {t} ELSE UNION {LeavesOf(Subtrees(t)[i]) : i \in DOMAIN Subtrees(t)}

RECURSIVE WithLeaves(_, _)
WithLeaves(t, map) == IF IsLeaf(t) THEN IF t \in DOMAIN map THEN map[t] ELSE t
                      ELSE <<t[1]>> \o [i \in DOMAIN Subtrees(t) |-> WithLeaves(Subtrees(t)[i], map)]

-----------------------------------------------------------------------------
(* compute_equalities and compute_type_adaptors *)
EqualityOf == [wff |-> "wb", class |-> "wceq"]
NotFreeOf == [wff |-> "wnf", class |-> "wnfc"]
Adapted(t) == IF TypeOf(t) = "setvar" THEN <<"cv", t>> ELSE t

(* create_equality_pt, create_not_free_pt, and the other shapes. *)
EqualityPt(s, t) == <<EqualityOf[TypeOf(Adapted(s))], Adapted(s), Adapted(t)>>
NotFreePt(x, t) == <<NotFreeOf[TypeOf(Adapted(t))], x, Adapted(t)>>
ImplicationPt(s, t) == <<"wi", s, t>>
ForallPt(x, t) == <<"wal", x, t>>
RestrForallPt(x, range, t) == <<"wral", x, range, t>>

-----------------------------------------------------------------------------
(* get_defless_labels, and compute_defs: the first assertion without       *)
(* hypotheses that says what the constructor is equal to.                  *)
DeflessLabels == {"cv", "wn", "wi", "wal", "cab", "wcel"}
HardcodedLabels == [wb |-> "dfbi1", wceq |-> "dfcleq"]

Defines(ass, c) ==
    /\ ass.hyps = <<>>
    /\ ass.stated[1] = EqualityOf[c.type]
    /\ ass.stated[2][1] = c.label

ComputeDef(c) ==
    LET Considered(i) == IF c.label \in DOMAIN HardcodedLabels
                         THEN CHOOSE j \in DOMAIN Library : Library[j].label = HardcodedLabels[c.label] ELSE i
        found == {i \in DOMAIN Library : Defines(Library[Considered(i)], c)}
        stated == Library[Considered(CHOOSE i \in found : \A j \in found : i <= j)].stated
    IN IF found = {} THEN <<>>
       ELSE <<[vars |-> Subtrees(stated[2]), body |-> stated[3],
               fresh |-> SetToSeq(LeavesOf(stated[3]) \ Range(Subtrees(stated[2])))]>>

Defs == LET defined == {i \in DOMAIN Syntax : Syntax[i].label \notin DeflessLabels /\ ComputeDef(Syntax[i]) # <<>>}
        IN [l \in {Syntax[i].label : i \in defined} |->
               ComputeDef(Syntax[CHOOSE i \in defined : Syntax[i].label = l])[1]]

-----------------------------------------------------------------------------
(* subst_defs, with the number of the next temporary variable. *)
FreshFor_Kept(def, next) == [x \in Range(def.fresh) |-> x]
FreshFor(def, next) == [x \in Range(def.fresh) |->
    Leaf(x[2], ToString(next + CHOOSE i \in DOMAIN def.fresh : def.fresh[i] = x))]

Unfolded(def, children, next) ==
    WithLeaves(def.body, [x \in Range(def.vars) |-> children[CHOOSE i \in DOMAIN def.vars : def.vars[i] = x]]
                         @@ FreshFor(def, next))

StatementOf(label) == Library[CHOOSE i \in DOMAIN Library : Library[i].label = label].stated

(* The variable that df-clel binds is not among those that are substituted. *)
ByDfClel(a, b) ==
    LET left == StatementOf("df-clel")[2]
    IN WithLeaves(StatementOf("df-clel")[3], left[2] :> a @@ left[3] :> b)
ByDfClab(x, cab) ==
    LET left == StatementOf("df-clab")[2]
    IN WithLeaves(StatementOf("df-clab")[3], left[2][2] :> x @@ left[3][2] :> cab[2] @@ left[3][3] :> cab[3])

RECURSIVE SubstDefs(_, _, _)
Membership(x, right, defs) ==
    IF right.tree[1] = "cab" THEN SubstDefs(ByDfClab(x, right.tree), right.next, defs)
    ELSE [tree |-> <<"wcel", <<"cv", x>>, right.tree>>, next |-> right.next]
ThenSubst(st, sub) == [children |-> Append(st.children, sub.tree), next |-> sub.next]
Recurring(t, st) == [tree |-> ByParts(t, st.children), next |-> st.next]
SubstDefs(t, next, defs) ==
    IF t[1] \in DOMAIN defs
    THEN SubstDefs(Unfolded(defs[t[1]], Subtrees(t), next), next + Len(defs[t[1]].fresh), defs)
    ELSE IF t[1] = "wcel" /\ t[2][1] # "cv" THEN SubstDefs(ByDfClel(t[2], t[3]), next, defs)
    ELSE IF t[1] = "wcel" THEN Membership(t[2][2], SubstDefs(t[3], next, defs), defs)
    ELSE Recurring(t, FoldLeft(LAMBDA st, child : ThenSubst(st, SubstDefs(child, st.next, defs)),
                               [children |-> <<>>, next |-> next], Subtrees(t)))

-----------------------------------------------------------------------------
(* compute_bound_vars: which arguments of a constructor its definition     *)
(* puts in the scope of which, in the order of the constructors.           *)
BoundOf(known, t, vars) ==
    LET ArgsIn(s) == {i \in DOMAIN vars : TypeOf(vars[i]) # "setvar" /\ vars[i] \in LeavesOf(s)}
    IN {<<i, j>> \in (DOMAIN vars) \X (DOMAIN vars) :
           \E dep \in known[t[1]] : Subtrees(t)[dep[1]] = vars[i] /\ j \in ArgsIn(Subtrees(t)[dep[2]])}
RECURSIVE BoundInside(_, _, _)
BoundInside(known, t, vars) ==
    UNION {BoundInside(known, Subtrees(t)[i], vars) : i \in DOMAIN Subtrees(t)}
    \union (IF t[1] \in DOMAIN known THEN BoundOf(known, t, vars) ELSE {})

PrimitiveBound == [l \in DeflessLabels |-> IF l \in {"wal", "cab"} THEN {<<1, 2>>} ELSE {}]
BoundVars(defs) ==
    FoldLeft(LAMBDA known, c : IF c.label \notin DOMAIN defs THEN known
                               ELSE known @@ c.label :> BoundInside(known, defs[c.label].body, defs[c.label].vars),
             PrimitiveBound, Syntax)

-----------------------------------------------------------------------------
(* subst_search_main: two instances of a constructor, which differ in what *)
(* it does not bind; the hypotheses that make them equal.  The variables   *)
(* of the second instance have primed names.                               *)
LeftArgs(c) == [i \in DOMAIN c.args |-> Leaf(c.args[i], ToString(i))]
Binds(c, i) == \E b \in c.binds : b[1] = i
RightArgs(c) == [i \in DOMAIN c.args |-> IF Binds(c, i) THEN LeftArgs(c)[i] ELSE Leaf(c.args[i], ToString(i) \o "'")]

(* The equality of the bodies is wanted for every value of the bound       *)
(* variables, from the last; those do not occur in their ranges.           *)
Quantified2(c, left, hyp) ==
    LET bound == SetToSortSeq(c.binds, LAMBDA a, b : a[1] < b[1])
        Over(h, b) == IF b[2] = 0 THEN ForallPt(left[b[1]], h) ELSE RestrForallPt(left[b[1]], left[b[2]], h)
    IN FoldRight(LAMBDA b, h : Over(h, b), bound, hyp)

NotFreeHyps_None(c, left, right) == {}
NotFreeHyps(c, left, right) ==
    UNION {{NotFreePt(left[x[1]], left[b[2]]), NotFreePt(left[x[1]], right[b[2]])} :
              x \in c.binds, b \in {d \in c.binds : d[2] # 0}}

SoughtRule(c, left, right, pivots) ==
    [equal |-> {IF i = c.body THEN Quantified2(c, left, EqualityPt(left[i], right[i])) ELSE EqualityPt(left[i], right[i]) : i \in pivots},
     notFree |-> NotFreeHyps(c, left, right),
     thesis |-> EqualityPt(<<c.label>> \o left, <<c.label>> \o right)]

GlobalRule(c) == SoughtRule(c, LeftArgs(c), RightArgs(c), {i \in DOMAIN c.args : ~Binds(c, i)})

(* The local rule for one argument, a range as well; the conditions on the *)
(* ranges are computed for the body only, and not asked for.               *)
LocalRule(c, pivot) ==
    LET right == [i \in DOMAIN c.args |-> IF i = pivot THEN RightArgs(c)[i] ELSE LeftArgs(c)[i]]
    IN [SoughtRule(c, LeftArgs(c), right, {pivot}) EXCEPT !.notFree = {}]

-----------------------------------------------------------------------------
(* Trees over two set variables, of which z is the one that df-clel binds. *)
x1 == Leaf("setvar", "x")
z1 == Leaf("setvar", "z")
wff1 == Leaf("wff", "ph")
class1 == Leaf("class", "A")

DefInit ==
    /\ height = 0
    /\ \/ sought = 0 /\ tree \in {wff1, class1, <<"cv", x1>>, <<"cv", z1>>, <<"cvv">>}
       \/ sought \in DOMAIN Syntax /\ Syntax[sought].args # <<>> /\ tree = wff1

Grows ==
    /\ sought = 0
    /\ height < MaxHeight
    /\ height' = height + 1
    /\ UNCHANGED sought
    /\ \/ /\ TypeOf(tree) = "wff"
          /\ \E x \in {x1, z1} : tree' \in {<<"wn", tree>>, <<"wa", tree, wff1>>, <<"wex", x, tree>>, <<"cab", x, tree>>}
       \/ /\ TypeOf(tree) = "class"
          /\ \E c \in {class1, <<"cv", x1>>, <<"cv", z1>>} :
                tree' \in {<<"wcel", tree, c>>, <<"wcel", c, tree>>, <<"wceq", tree, c>>, <<"cin", c, tree>>}

DefNext == Grows

-----------------------------------------------------------------------------
(* Models of two elements: membership is any extensional relation; what a  *)
(* variable for formulae or classes stands for depends on the values of    *)
(* some set variables.                                                     *)
Elements == 1..2
Ext(m, u) == {e \in Elements : <<e, u>> \in m.member}
Where(env, x, u) == (x :> u) @@ env

Combined(label, v) ==   \* of the arguments' meanings
    CASE label = "wn" -> ~v[1]
      [] label = "wi" -> v[1] => v[2]
      [] label = "wa" -> v[1] /\ v[2]
      [] label \in {"wb", "wceq"} -> v[1] = v[2]
      [] label = "cin" -> v[1] \intersect v[2]
      [] label = "cvv" -> Elements
BoundBy(label, v) ==      \* of the other arguments' meanings for every element
    CASE label = "wal" -> \A u \in Elements : v[u][1]
      [] label = "wex" -> \E u \in Elements : v[u][1]
      [] label = "cab" -> {u \in Elements : v[u][1]}
      [] label = "wral" -> \A u \in Elements : u \in v[u][1] => v[u][2]
      [] label = "crab" -> {u \in Elements : u \in v[u][1] /\ v[u][2]}
      [] label \in {"wnf", "wnfc"} -> \A u, w \in Elements : v[u][1] = v[w][1]
MemberOf(m, v) == \E u \in v[2] : Ext(m, u) = v[1]

RECURSIVE Meaning(_, _, _)
Meanings(ts, m, env) == [i \in DOMAIN ts |-> Meaning(ts[i], m, env)]
Meaning(t, m, env) ==
    CASE t[1] = "v" -> IF t[2] = "wff" THEN m.wffs[t][[d \in m.deps |-> env[d]]] ELSE m.classes[t][[d \in m.deps |-> env[d]]]
      [] t[1] = "cv" -> Ext(m, env[t[2]])
      [] t[1] = "wcel" -> MemberOf(m, Meanings(Tail(t), m, env))
      [] t[1] = "wsb" -> Meaning(t[4], m, Where(env, t[3], env[t[2]]))
      [] t[1] = "copab" -> {e \in Elements \X Elements : Meaning(t[4], m, Where(Where(env, t[2], e[1]), t[3], e[2]))}
      [] t[1] \in {"wal", "wex", "cab", "wral", "crab", "wnf", "wnfc"} ->
            BoundBy(t[1], [u \in Elements |-> Meanings(SubSeq(t, 3, Len(t)), m, Where(env, t[2], u))])
      [] OTHER -> Combined(t[1], Meanings(Tail(t), m, env))

ModelsFor(leaves, deps, relations) ==
    LET Of2(type) == {l \in leaves : l[2] = type}
        parameters == [deps -> Elements]
    IN [member : relations, deps : {deps}, wffs : [Of2("wff") -> [parameters -> BOOLEAN]],
        classes : [Of2("class") -> [parameters -> SUBSET Elements]]]
Environments(leaves) == [{l \in leaves : l[2] = "setvar"} -> Elements]

(* A rule holds wherever its variables are different. *)
Valid(rule, leaves, deps) ==
    \A m \in ModelsFor(leaves, deps, {{<<1, 2>>}}) :
       (\A nf \in rule.notFree, env \in Environments(leaves) : Meaning(nf, m, env)) =>
       \A env \in Environments(leaves) : (\A eq \in rule.equal : Meaning(eq, m, env)) => Meaning(rule.thesis, m, env)

RuleHolds(c, rule) == Valid(rule, Range(LeftArgs(c)) \union Range(RightArgs(c)), {LeftArgs(c)[b[1]] : b \in c.binds})
RangesOf(c) == {b[2] : b \in c.binds} \ {0}
IfNotFree(c, rule, right) == [rule EXCEPT !.notFree = NotFreeHyps(c, LeftArgs(c), right)]
RulesValid(c) ==
    /\ RuleHolds(c, GlobalRule(c))
    /\ \A i \in {j \in DOMAIN c.args : ~Binds(c, j)} :
          /\ RuleHolds(c, LocalRule(c, i)) <=> i \notin RangesOf(c)
          /\ RuleHolds(c, IfNotFree(c, LocalRule(c, i), RightArgs(c)))
BindsFound(c, known) ==
    c.label \in DOMAIN known => known[c.label] = {<<b[1], j>> : b \in c.binds, j \in {c.body} \union RangesOf(c)}

-----------------------------------------------------------------------------
RECURSIVE InPrimitives(_)
InPrimitives(t) == IsLeaf(t) \/ (t[1] \in DeflessLabels \ {"cab"} /\ \A i \in DOMAIN Subtrees(t) : InPrimitives(Subtrees(t)[i]))

(* The variable that df-clel binds occurs where it is unfolded. *)
RECURSIVE DfClelCaptures(_)
DfClelCaptures(t) ==
    \/ t[1] = "wcel" /\ t[2][1] # "cv" /\ z1 \in LeavesOf(t)
    \/ \E i \in DOMAIN Subtrees(t) : DfClelCaptures(Subtrees(t)[i])

SomeModels == {[member |-> r, deps |-> {x1},
                wffs |-> wff1 :> [at \in [{x1} -> Elements] |-> at[x1] = 1],
                classes |-> class1 :> [at \in [{x1} -> Elements] |-> {3 - at[x1]}]] : r \in Relations}
SameMeaning(t, unfolded) ==
    \A m \in SomeModels, env \in [{x1, z1} -> Elements], u \in Elements :
       Meaning(t, m, env) = Meaning(unfolded, m, env @@ [l \in LeavesOf(unfolded) |-> u])

UnfoldsTo(t, unfolded) ==
    /\ TypeOf(t) = "wff" => InPrimitives(unfolded)
    /\ t # unfolded /\ ~DfClelCaptures(t) => SameMeaning(t, unfolded)

(* Unfolding ends in primitive notions and means what the formula or class *)
(* meant, also where a definition binds a name that its arguments use, but *)
(* for the name that df-clel binds (subst.cpp:803-808 does not replace     *)
(* it).  The global rule that is sought for a constructor is true, and so  *)
(* is the local one for each argument but a range: that one needs what     *)
(* subst.cpp:431 computes for the body alone, that the bound variable is   *)
(* not free in the ranges.  compute_bound_vars finds what a constructor    *)
(* binds in its body, and in its ranges too, which it does not bind (the   *)
(* FIXME at subst.cpp:706).                                                *)
DefinitionsUnfold ==
    IF sought # 0 THEN RulesValid(Syntax[sought]) /\ BindsFound(Syntax[sought], BoundVars(Defs))
    ELSE UnfoldsTo(tree, SubstDefs(tree, 0, Defs).tree)

=============================================================================
