-------------------------------- MODULE Tstp --------------------------------
(***************************************************************************)
(* Refutations of first order provers (provers/tstp/tstp_parser.cpp).      *)
(*                                                                         *)
(* A line is a name, a clause and, if it is not an axiom, an annotation:   *)
(* the inference that gives it.  Lines are read and checked one by one;    *)
(* what reads them throws or asserts at the first that is wrong.  Syntax   *)
(* trees are tuples, their production first.                               *)
(***************************************************************************)
EXTENDS Naturals, Sequences, FiniteSets, SequencesExt

CONSTANTS TermVars,      \* the identifiers that begin with an upper case letter
          Axioms,        \* the axioms of a refutation: sequences of clause trees
          LiteralTrees,  \* bound: the literals of annotations,
          FotTerms,      \*   their terms,
          Substs,        \*   and substitutions
          WrongTrees,    \* bound: clauses that a line may have, right or wrong
          MaxLines       \* bound: the length of a refutation

VARIABLES lines, idMap, refused
tstpVars == <<lines, idMap, refused>>

EqualName == "$equal"
FalseName == "$false"
Nothing == <<"nothing">>
Wrong == {Nothing}

-----------------------------------------------------------------------------
(* Terms are functors with their arguments, atoms predicates with theirs.  *)
(* A literal is a sign and an atom, a clause a set of literals in which    *)
(* $false is left out.                                                     *)
ClauseOf(literals) == literals \ {<<TRUE, <<FalseName>>>>}
Opposite(l) == <<~l[1], l[2]>>

AtomOf(tree) ==
    CASE tree[1] = "pred" -> <<TRUE, Tail(tree)>>
      [] tree[1] = "eq"   -> <<TRUE, <<EqualName, tree[2], tree[3]>>>>
      [] tree[1] = "neq"  -> <<FALSE, <<EqualName, tree[2], tree[3]>>>>

LiteralOf(tree) == IF tree[1] = "atom" THEN AtomOf(tree[2]) ELSE Opposite(AtomOf(tree[2]))

(* The literals are collected along the left; parentheses are known around *)
(* the whole clause only.                                                  *)
RECURSIVE LiteralsOf(_)
LiteralsOf(tree) ==
    CASE tree[1] = "literal" -> {LiteralOf(tree[2])}
      [] tree[1] = "or"      -> IF LiteralsOf(tree[2]) = Wrong THEN Wrong
                                ELSE LiteralsOf(tree[2]) \union {LiteralOf(tree[3])}
      [] tree[1] = "parens"  -> Wrong
RECURSIVE ReconstructClause(_)
ReconstructClause(tree) == IF tree[1] = "parens" THEN ReconstructClause(tree[2]) ELSE ClauseOf(LiteralsOf(tree))

RECURSIVE SubstTerm(_, _)
SubstTerm(t, subst) ==
    IF t[1] \in TermVars THEN IF t[1] \in DOMAIN subst THEN subst[t[1]] ELSE t
    ELSE <<t[1]>> \o [i \in 1 .. Len(t) - 1 |-> SubstTerm(t[i + 1], subst)]
SubstAtom(a, subst) == <<a[1]>> \o [i \in 1 .. Len(a) - 1 |-> SubstTerm(a[i + 1], subst)]

(* replace: what was at the path, and the whole with the term in its place. *)
RECURSIVE TermAt(_, _, _)
TermAt(t, path, new) ==
    IF path = <<>> THEN <<t, new>>
    ELSE IF Head(path) + 1 \notin 1 .. Len(t) - 1 THEN Nothing
    ELSE LET at == Head(path) + 2
             inner == TermAt(t[at], Tail(path), new)
         IN IF inner = Nothing THEN Nothing ELSE <<inner[1], [t EXCEPT ![at] = inner[2]]>>

(* Once the first clause has the literal, nobody asks whether the second has the opposite. *)
Resolve_BothSigns(c, d, l) == IF l \notin c THEN Wrong ELSE (c \union d) \ {l, Opposite(l)}
Resolve(c, d, l) == IF l \notin c THEN Wrong ELSE (c \ {l}) \union (d \ {Opposite(l)})

-----------------------------------------------------------------------------
(* An annotation is an expression: an identifier, an application, a list,  *)
(* a substitution of terms for variables under the name of a line, or a    *)
(* literal or a term.  reconstruct_inference takes it apart.               *)
NoInference == [rule |-> "none", hyps |-> <<>>]
Malformed == [rule |-> "malformed", hyps |-> <<>>]

ReconstructRefl(args) ==
    IF Len(args) = 1 /\ args[1][1] = "list" /\ Len(args[1]) = 2 /\ args[1][2][1] = "fot"
    THEN [rule |-> "refl", hyps |-> <<>>, term |-> args[1][2][2]] ELSE Malformed

ReconstructEquality(args) ==
    IF /\ Len(args) = 1 /\ args[1][1] = "list" /\ Len(args[1]) = 4
       /\ args[1][2][1] = "cnf" /\ args[1][3][1] = "path" /\ Len(args[1][3]) > 1 /\ args[1][4][1] = "fot"
    THEN [rule |-> "equality", hyps |-> <<>>, literal |-> LiteralOf(args[1][2][2]),
          path |-> Tail(args[1][3]), term |-> args[1][4][2]]
    ELSE Malformed

ReconstructSubst(args) ==
    IF Len(args) = 2 /\ args[1] = <<"list">> /\ args[2][1] = "dict"
    THEN [rule |-> "subst", hyps |-> <<args[2][2]>>, subst |-> args[2][3]] ELSE Malformed

ReconstructResolve(args) ==
    IF /\ Len(args) = 2 /\ args[1][1] = "list" /\ Len(args[1]) = 2 /\ args[1][2][1] = "cnf"
       /\ args[2][1] = "list" /\ Len(args[2]) = 3 /\ \A i \in 2..3 : args[2][i][1] = "id"
    THEN [rule |-> "resolve", hyps |-> <<args[2][2][2], args[2][3][2]>>, literal |-> LiteralOf(args[1][2][2])]
    ELSE Malformed

(* A tautology of an unknown name has no inference, as if the line were an *)
(* axiom: the exception is made but not thrown (tstp_parser.cpp:715).      *)
ReconstructTautology(args) ==
    IF ~(Len(args) = 1 /\ args[1][1] = "list" /\ Len(args[1]) = 3 /\ args[1][2][1] = "id") THEN Malformed
    ELSE CASE args[1][2][2] = "refl"     -> ReconstructRefl(<<args[1][3]>>)
           [] args[1][2][2] = "equality" -> ReconstructEquality(<<args[1][3]>>)
           [] OTHER -> NoInference

ReconstructInference(e) ==
    IF ~(e[1] = "app" /\ Len(e) >= 4 /\ e[3][1] = "id") THEN Malformed
    ELSE LET kind == <<e[2], e[3][2]>>  args == SubSeq(e, 4, Len(e)) IN
         CASE kind = <<"introduced", "tautology">> -> ReconstructTautology(args)
           [] kind = <<"inference", "subst">>      -> ReconstructSubst(args)
           [] kind = <<"inference", "resolve">>    -> ReconstructResolve(args)
           [] OTHER -> Malformed

(* compute_thesis: the clause that the inference gives, or Nothing. *)
ComputeThesis(inf, hyps) ==
    CASE inf.rule = "refl"    -> ClauseOf({<<TRUE, <<EqualName, inf.term, inf.term>>>>})
      [] inf.rule = "subst"   -> ClauseOf({<<l[1], SubstAtom(l[2], inf.subst)>> : l \in hyps[1]})
      [] inf.rule = "resolve" -> Resolve(hyps[1], hyps[2], inf.literal)
      [] inf.rule = "equality" ->
            LET res == TermAt(inf.literal[2], inf.path, inf.term) IN
            IF res = Nothing THEN Wrong
            ELSE ClauseOf({<<FALSE, <<EqualName, res[1], inf.term>>>>, Opposite(inf.literal), <<inf.literal[1], res[2]>>})

-----------------------------------------------------------------------------
Line(name, clause, inference) == [name |-> name, clause |-> clause, inference |-> inference]
TstpInit ==
    \E trees \in Axioms :
       /\ lines = [i \in DOMAIN trees |-> Line(ToString(i), ReconstructClause(trees[i]), NoInference)]
       /\ idMap = [n \in {ToString(i) : i \in DOMAIN trees} |-> CHOOSE i \in DOMAIN trees : ToString(i) = n]
       /\ refused = FALSE

ThesisOf(inf) == ComputeThesis(inf, [i \in DOMAIN inf.hyps |-> lines[idMap[inf.hyps[i]]].clause])

(* reconstruct_clause, and the comparison of parse_tstp_file_main: the     *)
(* hypotheses are looked up before the name is given to the line.          *)
Refuses(inf, clause) ==
    \/ inf = Malformed
    \/ Range(inf.hyps) \ DOMAIN idMap # {}
    \/ Nothing \in clause
    \/ /\ inf # NoInference
       /\ clause # ThesisOf(inf)

ReadLine(name, tree, annotation) ==
    LET inf == ReconstructInference(annotation)
        clause == ReconstructClause(tree)
    IN IF Refuses(inf, clause) THEN refused' = TRUE /\ UNCHANGED <<lines, idMap>>
       ELSE /\ lines' = Append(lines, Line(name, clause, inf))
            /\ idMap' = [n \in DOMAIN idMap \union {name} |-> IF n = name THEN Len(lines) + 1 ELSE idMap[n]]
            /\ UNCHANGED refused

-----------------------------------------------------------------------------
(* What provers write (external): a clause, and annotations of every kind, *)
(* among them some with a missing part or an unknown name.                 *)
TreeOfAtom(a) == IF a[1] = EqualName THEN <<"eq", a[2], a[3]>> ELSE <<"pred">> \o a
TreeOfClause(c) ==
    LET leaf(l) == <<IF l[1] THEN "atom" ELSE "neg", TreeOfAtom(l[2])>>
        ls == SetToSeq(c)
    IN IF c = {} THEN <<"literal", <<"atom", <<"pred", FalseName>>>>>>
       ELSE FoldLeft(LAMBDA tree, l : <<"or", tree, leaf(l)>>, <<"literal", leaf(Head(ls))>>, Tail(ls))

Id(name) == <<"id", name>>
TautologyOf(name, rest) == <<"app", "introduced", Id("tautology"), <<"list", Id(name), rest>>>>
Annotations(names) ==
    {TautologyOf("refl", <<"list", <<"fot", t>>>>) : t \in FotTerms}
    \union {TautologyOf(n, <<"list", <<"fot", t>>>>) : <<n, t>> \in {"equality"} \X FotTerms}
    \union {TautologyOf("equality", <<"list", <<"cnf", x[1]>>, <<"path">> \o x[2], <<"fot", x[3]>>>>) :
               x \in LiteralTrees \X {<<0>>, <<1>>, <<0, 0>>} \X FotTerms}
    \union {<<"app", "inference", Id("subst"), <<"list">>, <<"dict", x[1], x[2]>>>> : x \in names \X Substs}
    \union {<<"app", "inference", Id("resolve"), <<"list", <<"cnf", x[1]>>>>, <<"list", Id(x[2]), Id(x[3])>>>> :
               x \in LiteralTrees \X names \X (names \union {"missing"})}
    \union {<<"app", "inference", Id("simplify"), <<"list">>, <<"list">>>>, TautologyOf("assume", <<"list">>)}

ThesisTrees(annotation) ==
    LET inf == ReconstructInference(annotation) IN
    IF inf \in {Malformed, NoInference} THEN {}
    ELSE IF Range(inf.hyps) \subseteq DOMAIN idMap
    THEN {TreeOfClause(c) : c \in {ThesisOf(inf)} \ {Wrong}}
    ELSE {}

TstpNext ==
    /\ ~refused
    /\ Len(lines) < MaxLines
    /\ \E annotation \in Annotations(DOMAIN idMap) :
          \E tree \in ThesisTrees(annotation) \union WrongTrees, name \in {ToString(Len(lines) + 1), "1"} :
             ReadLine(name, tree, annotation)

-----------------------------------------------------------------------------
(* The interpretations in a domain of two elements of a constant, a        *)
(* function, a proposition and a predicate; equality is equality.          *)
Interpretations == [a : {0, 1}, f : [{0, 1} -> {0, 1}], q : BOOLEAN, p : SUBSET {0, 1}]
RECURSIVE ValueOf(_, _, _)
ValueOf(t, i, vars) == IF t[1] \in TermVars THEN vars[t[1]] ELSE IF t[1] = "a" THEN i.a ELSE i.f[ValueOf(t[2], i, vars)]
AtomHolds(a, i, vars) ==
    CASE a[1] = EqualName -> ValueOf(a[2], i, vars) = ValueOf(a[3], i, vars)
      [] a[1] = FalseName -> FALSE
      [] a[1] = "q" -> i.q
      [] a[1] = "p" -> ValueOf(a[2], i, vars) \in i.p
HoldsIn(c, i) == \A vars \in [TermVars -> {0, 1}] : \E l \in c : AtomHolds(l[2], i, vars) = l[1]

(* In every interpretation in which the lines without an inference hold,   *)
(* every accepted line holds.  A resolution whose literal is missing in    *)
(* the second clause (tstp_parser.cpp:499) still gives a consequence; a    *)
(* tautology of unknown name (tstp_parser.cpp:715) counts as an axiom,     *)
(* since nothing tells it from one.                                        *)
RefutationsHold ==
    (\E k \in DOMAIN lines : lines[k].inference # NoInference) =>
       \A i \in Interpretations :
          (\A k \in DOMAIN lines : lines[k].inference = NoInference => HoldsIn(lines[k].clause, i))
             => \A k \in DOMAIN lines : HoldsIn(lines[k].clause, i)

=============================================================================
