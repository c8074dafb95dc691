------------------------------- MODULE Toolbox -------------------------------
(***************************************************************************)
(* The library toolbox (mm/toolbox.h, toolbox.cpp): the grammar and the    *)
(* parsed sentences of a library, the search for the assertions that prove *)
(* a thesis from given hypotheses, and the provers that apply them to an   *)
(* engine that works with trees (mm/ptengine.cpp).                         *)
(*                                                                         *)
(* A sentence is a type and a body; a variable is its own label and symbol. *)
(* Names, printing and the accessors of a Library are left out; the tables *)
(* of the constructor are definitions over the library.                    *)
(***************************************************************************)
EXTENDS ParsingTrees

CONSTANTS
    TbAsses,    \* label -> [head, body, hyps, floats, dists, theorem, trivial, discouraged]
    TbOrder,    \* their labels in the order of the library
    TbVars,     \* the variables of the library in order (the final stack frame)
    TempVars,   \* the temporary variables in the order in which they are handed out
    ImpLabel,   \* the label "wi" (get_imp_label)
    Askable,    \* bound: the bodies that are asked for
    Renaming,   \* bound: the bodies that template variables may be proved to be
    MaxAsked    \* bound: the hypotheses of a question

Turnstile == "|-"
Alias == "wff"  \* get_turnstile_alias

ASSUME ToolboxAssumption ==
    /\ ToSet(TbOrder) = DOMAIN TbAsses /\ ToSet(TbVars) \subseteq TreeVars
    /\ \A l \in DOMAIN TbAsses : TbAsses[l].head = TypeOfTerm[l]
    /\ MaxAsked \in Nat

VARIABLES
    parses,     \* the answers of the parser, computed once
    question    \* the hypotheses, the thesis and the antidistinct pairs of a search

toolboxVars == <<parses, question>>

Ass(l) == TbAsses[l]
IsConstant(sym) == sym \notin TreeVars

-----------------------------------------------------------------------------
(* compute_derivations: variables, and axioms that are nothing but syntax. *)
IsDerivation(l) ==
    LET ass == Ass(l)
        VarsAt(i) == ass.body[i] \in TreeVars
    IN /\ ass.hyps = <<>> /\ ass.dists = {} /\ ~ass.theorem /\ ass.head # Turnstile
       /\ \A i, j \in DOMAIN ass.body : VarsAt(i) /\ i # j => ass.body[i] # ass.body[j]

Derivation(head, label, body) == [head |-> head, label |-> label, body |-> body]
TypesForVars(body) == [i \in DOMAIN body |-> IF IsConstant(body[i]) THEN body[i] ELSE TypeOfVar[body[i]]]
Derivations ==
    [i \in DOMAIN TbVars |-> Derivation(TypeOfVar[TbVars[i]], TbVars[i], <<TbVars[i]>>)] \o
    LET syntax == SelectSeq(TbOrder, IsDerivation)
    IN [i \in DOMAIN syntax |-> Derivation(Ass(syntax[i]).head, syntax[i], TypesForVars(Ass(syntax[i]).body))]

(* The parser is one for the derivations; the theses and the hypotheses of *)
(* the library are parsed when the toolbox is built, and must be parsed.   *)
LR(t, s) == INSTANCE Parsing WITH Grammars <- {}, MaxTokens <- 0, grammar <- Derivations, target <- t, sentence <- s
NoParse == [lab |-> "none", children |-> <<>>]
RECURSIVE AsNested(_)
AsNested(tree) == [lab |-> tree.label, children |-> [k \in DOMAIN tree.children |-> AsNested(tree.children[k])]]
ParseSentence(automaton, type, body) ==
    LET parsed == AsNested(LR(IF type = Turnstile THEN Alias ELSE type, body)!LRParseOf(automaton))
    IN IF parsed = NoParse THEN <<>> ELSE PtToPt2(<<>>, parsed)

AskedSentences == {Turnstile, Alias} \X Askable
RenamingSentences == {Alias} \X Renaming
LibrarySentences ==
    {<<Ass(l).head, Ass(l).body>> : l \in DOMAIN TbAsses}
        \union UNION {{<<Turnstile, Ass(l).hyps[i]>> : i \in DOMAIN Ass(l).hyps} : l \in DOMAIN TbAsses}

ParsedThesis(l) == parses[<<Ass(l).head, Ass(l).body>>]
ParsedHyp(l, i) == parses[<<Turnstile, Ass(l).hyps[i]>>]

-----------------------------------------------------------------------------
(* The engine on trees.  An exception leaves everything behind. *)
Engine == [raised |-> FALSE, stack |-> <<>>, marks |-> <<>>]
Throw(e) == [e EXCEPT !.raised = TRUE]
PushTree(e, head, tree, dists) == [e EXCEPT !.stack = Append(@, [head |-> head, tree |-> tree, dists |-> dists])]
Mark(e) == IF e.raised THEN e ELSE [e EXCEPT !.marks = Append(@, Len(e.stack))]
Unmark(e) == IF e.raised THEN e ELSE [e EXCEPT !.marks = Front(@)]
RollBack(e) == [e EXCEPT !.marks = Front(@), !.stack = SubSeq(@, 1, Last(e.marks))]

(* propagate_dists: only pairs of variables that are both substituted. *)
DistsBetween(l, subst) ==
    LET among == {<<a, b>> \in (DOMAIN subst) \X (DOMAIN subst) : a # b /\ {a, b} \in Ass(l).dists}
    IN {{p[1], p[2]} : p \in UNION {CollectVariables(subst[ab[1]]) \X CollectVariables(subst[ab[2]]) : ab \in among}}
NoDiagonal(dists) == \A d \in dists : Cardinality(d) = 2

(* process_assertion.  The type of what a floating hypothesis is for is    *)
(* looked for in its tree, not in its first symbol.                        *)
Refused(l, floats, hyps, subst) ==
    \/ \E i \in DOMAIN floats : TypeOfLabel(floats[i].tree[1].lab) # TypeOfVar[Ass(l).floats[i]]
    \/ \E i \in DOMAIN hyps : hyps[i].head # Turnstile \/ hyps[i].tree # Substitute2(ParsedHyp(l, i), subst)
Concluded(e, base, l, subst, dists) ==
    IF ~NoDiagonal(dists) THEN Throw(e)
    ELSE PushTree([e EXCEPT !.stack = SubSeq(@, 1, base)], Ass(l).head, Substitute2(ParsedThesis(l), subst), dists)
WithOperands(e, l, floats, hyps, subst) ==
    IF Refused(l, floats, hyps, subst) THEN Throw(e)
    ELSE Concluded(e, Len(e.stack) - Len(floats) - Len(hyps), l, subst,
                   UNION {hyp.dists : hyp \in ToSet(hyps)} \union DistsBetween(l, subst))
OnTop(e, l, floats, hyps) ==
    WithOperands(e, l, floats, hyps,
                 [v \in ToSet(Ass(l).floats) |-> floats[CHOOSE i \in DOMAIN floats : Ass(l).floats[i] = v].tree])
ApplyAss(e, l) ==
    LET FromTop(k, n) == SubSeq(e.stack, Len(e.stack) - k + 1, Len(e.stack) - k + n)
        hyps == Len(Ass(l).hyps)
        floats == Len(Ass(l).floats)
    IN IF Len(e.stack) < floats + hyps THEN Throw(e) ELSE OnTop(e, l, FromTop(floats + hyps, floats), FromTop(hyps, hyps))

ProcessLabel(e, l) ==
    IF e.raised THEN e ELSE IF l \in TreeVars THEN PushTree(e, TypeOfVar[l], <<Node(l, 0)>>, {}) ELSE ApplyAss(e, l)

-----------------------------------------------------------------------------
(* Provers: from an engine to what they made of it and whether they proved. *)
Proved(e) == [engine |-> e, res |-> TRUE]
NotProved(e) == [engine |-> e, res |-> FALSE]
NullProver(e) == NotProved(e)
TrivialProver(e, l) == Proved(ProcessLabel(e, l))
CascadeProvers(first, second) == IF first.res \/ first.engine.raised THEN first ELSE second
CheckedProver(done, thesis) ==
    IF done.res /\ ~done.engine.raised /\ Last(done.engine.stack).tree # thesis THEN NotProved(Throw(done.engine)) ELSE done

(* type_proving_helper: the children in the order in which their variables *)
(* are floating hypotheses of the syntax axiom; a variable may have a      *)
(* prover of its own, here the tree it proves.                             *)
RECURSIVE UnwindTree(_, _, _)
UnwindTree_AsWritten(e, t, provers) ==
    IF t[1].lab \in DOMAIN provers THEN PushTree(e, TypeOfVar[t[1].lab], provers[t[1].lab], {})
    ELSE ProcessLabel(FoldLeft(LAMBDA f, i : UnwindTree(f, View(t, i), provers), e, Children(t, 1)), t[1].lab)
Shape(l) == SelectSeq(Ass(l).body, LAMBDA sym : ~IsConstant(sym))
ChildOf(t, v) == View(t, Children(t, 1)[CHOOSE i \in DOMAIN Children(t, 1) : Shape(t[1].lab)[i] = v])
UnwindTree(e, t, provers) ==
    IF t[1].lab \notin TreeVars
    THEN ProcessLabel(FoldLeft(LAMBDA f, v : UnwindTree(f, ChildOf(t, v), provers), e, Ass(t[1].lab).floats), t[1].lab)
    ELSE IF t[1].lab \in DOMAIN provers /\ ~e.raised THEN PushTree(e, TypeOfVar[t[1].lab], provers[t[1].lab], {})
    ELSE ProcessLabel(e, t[1].lab)

(* proving_helper: the floating hypotheses, the hypotheses in the order of *)
(* the assertion, then its label; what is refused is rolled back, but an   *)
(* exception from below leaves the checkpoint where it is.                 *)
InvertPerm(perm) == [i \in DOMAIN perm |-> CHOOSE j \in DOMAIN perm : perm[j] = i]
ProveFloats(e, found, provers) ==
    FoldLeft(LAMBDA f, v : UnwindTree(f, found.subst[v], provers), Mark(e), Ass(found.label).floats)
ProveThesis(hyps, label) ==
    LET done == ProcessLabel(hyps.engine, label)
    IN IF hyps.engine.raised THEN hyps
       ELSE IF ~hyps.res \/ done.raised THEN NotProved(RollBack(hyps.engine))
       ELSE Proved(Unmark(done))
ProvingHelper(e, found, provers, HypProver(_, _)) ==
    LET AndHyp(r, i) == IF r.res THEN HypProver(r.engine, i) ELSE r
    IN ProveThesis(FoldLeft(AndHyp, Proved(ProveFloats(e, found, provers)), InvertPerm(found.perm)), found.label)

-----------------------------------------------------------------------------
(* unify_assertion: the i-th hypothesis is matched with the perm[i]-th of  *)
(* the assertion, for every permutation in lexicographic order.            *)
RECURSIVE LexPerms(_)
LexPerms(S) ==
    LET sorted == SetToSortSeq(S, <)
        Beginning(x) == LET rest == LexPerms(S \ {x}) IN [k \in DOMAIN rest |-> <<x>> \o rest[k]]
    IN IF S = {} THEN <<<<>>>> ELSE FlattenSeq([i \in DOMAIN sorted |-> Beginning(sorted[i])])

Unifier(l, perm, asked) ==
    FoldLeft(LAMBDA u, i : AddUnilateral(u, ParsedHyp(l, perm[i]), asked.hyps[i]),
             AddUnilateral([failed |-> FALSE, subst |-> << >>], ParsedThesis(l), asked.thesis), [i \in DOMAIN perm |-> i])

(* The constraints must be possible, and none of the antidistinct pairs. *)
AllowedDists(dists, antidists) == NoDiagonal(dists) /\ dists \cap antidists = {}

Suits(l, unifier, antidists) == ~unifier.failed /\ AllowedDists(DistsBetween(l, unifier.subst), antidists)
Match(l, perm, unifier) == [label |-> l, perm |-> perm, subst |-> unifier.subst]
MatchWith(l, perm, unifier, antidists) == IF Suits(l, unifier, antidists) THEN <<Match(l, perm, unifier)>> ELSE <<>>
MatchesOf(l, asked, upToPerms) ==
    LET MatchBy(perm) == MatchWith(l, perm, Unifier(l, perm, asked), asked.antidists)
        EveryMatch(perms) == FlattenSeq([k \in DOMAIN perms |-> MatchBy(perms[k])])
        Restricted(found) == IF upToPerms \/ found = <<>> THEN found ELSE <<found[1]>>
    IN IF \/ Ass(l).discouraged \/ Len(Ass(l).hyps) # Len(asked.hyps) \/ Ass(l).head # asked.head
          \/ AddUnilateral([failed |-> FALSE, subst |-> << >>], ParsedThesis(l), asked.thesis).failed
       THEN <<>> ELSE Restricted(EveryMatch(LexPerms(DOMAIN asked.hyps)))

(* A question of which something does not parse has no answer. *)
UnifyAssertion(asked, justFirst, upToPerms) ==
    LET Answer(all) == IF justFirst /\ all # <<>> THEN <<all[1]>> ELSE all
    IN IF asked.thesis = <<>> \/ \E i \in DOMAIN asked.hyps : asked.hyps[i] = <<>> THEN <<>>
       ELSE Answer(FlattenSeq([i \in DOMAIN TbOrder |-> MatchesOf(TbOrder[i], asked, upToPerms)]))

-----------------------------------------------------------------------------
(* compute_vars, compute_labels_to_theses *)
VarsOfHyps(l) == UNION {CollectVariables(ParsedHyp(l, i)) : i \in DOMAIN Ass(l).hyps}
UnconstVars(l) == VarsOfHyps(l) \ CollectVariables(ParsedThesis(l))

AnyRoot == "any"
RootLabel(t, i) == IF t[i].lab \in TreeVars THEN AnyRoot ELSE t[i].lab
ConsequentRoot(t) == RootLabel(t, Children(t, 1)[2])
IsImp(t) == t[1].lab = ImpLabel
RootTheses(root) ==
    SelectSeq(TbOrder, LAMBDA l : Ass(l).head = Turnstile /\ ~IsImp(ParsedThesis(l)) /\ RootLabel(ParsedThesis(l), 1) = root)
ImpConTheses(root) ==
    SelectSeq(TbOrder, LAMBDA l : Ass(l).head = Turnstile /\ IsImp(ParsedThesis(l)) /\ ConsequentRoot(ParsedThesis(l)) = root)

(* build_refreshing_subst_map: for each an unused temporary of its type. *)
RefreshingMap(vars, used) ==
    LET Unused(taken, v) == SelectSeq(TempVars, LAMBDA t : t \notin taken /\ TypeOfVar[t] = TypeOfVar[v])
        Take(r, v) ==
            LET left == Unused(r.used, v)
            IN IF left = <<>> THEN [r EXCEPT !.enough = FALSE]
               ELSE [r EXCEPT !.map = (v :> <<Node(left[1], 0)>>) @@ @, !.used = @ \union {left[1]}]
    IN FoldLeft(Take, [map |-> << >>, used |-> used, enough |-> TRUE], SelectSeq(TbVars, LAMBDA v : v \in vars))

-----------------------------------------------------------------------------
NotBuilt == << >>
NoQuestion == [head |-> Turnstile, hyps |-> <<>>, thesis |-> <<>>, antidists |-> {}, asked |-> FALSE]

(* The constructor: a sentence of the library that cannot be parsed is an exception. *)
ComputeEverything ==
    /\ parses = NotBuilt
    /\ LET automaton == LR(Alias, <<>>)!AutomatonOf(Derivations)
       IN parses' = [s \in LibrarySentences \union AskedSentences \union RenamingSentences |->
                        ParseSentence(automaton, s[1], s[2])]
    /\ \A s \in LibrarySentences : parses'[s] # <<>>
    /\ UNCHANGED question

AskThesis(head, body) ==
    /\ parses # NotBuilt /\ ~question.asked
    /\ question' = [question EXCEPT !.head = head, !.thesis = parses[<<head, body>>], !.asked = TRUE]
    /\ UNCHANGED parses

AskHypothesis(body) ==
    /\ question.asked /\ Len(question.hyps) < MaxAsked
    /\ question' = [question EXCEPT !.hyps = Append(@, parses[<<Turnstile, body>>])]
    /\ UNCHANGED parses

AskAntidists(v, w) ==
    /\ question.asked /\ question.antidists = {} /\ v # w
    /\ question' = [question EXCEPT !.antidists = {{v, w}}]
    /\ UNCHANGED parses

ToolboxInit == parses = NotBuilt /\ question = NoQuestion
ToolboxNext ==
    \/ ComputeEverything
    \/ \E body \in Askable, head \in {Turnstile, Alias} : AskThesis(head, body)
    \/ \E body \in Askable : AskHypothesis(body)
    \/ \E v, w \in TreeVars \cap UNION {ToSet(body) : body \in Askable} : AskAntidists(v, w)

-----------------------------------------------------------------------------
AskedTrees == {question.thesis} \union ToSet(question.hyps)
Pieces == UNION {{View(t, i) : i \in DOMAIN t} : t \in AskedTrees}

(* The hypotheses are proved by pushing them; one of them may fail. *)
HypProver(e, i) == Proved(PushTree(e, Turnstile, question.hyps[i], {}))
FailingAt(k, e, i) == IF i = k THEN NullProver(e) ELSE HypProver(e, i)

ProvesAsked(done, thesis) ==
    /\ done.res /\ ~done.engine.raised /\ done.engine.marks = <<>> /\ Len(done.engine.stack) = 1
    /\ done.engine.stack[1].head = question.head /\ done.engine.stack[1].tree = thesis

(* Whatever is found is accepted by the engine, proves the thesis from     *)
(* these hypotheses and asks for no antidistinct pair; when a hypothesis   *)
(* cannot be proved the engine is as before, and the next match can be     *)
(* tried (LibraryToolbox::proving_helper).                                 *)
RefusedWithout(i, found, done) ==
    LET Failing(e, j) == FailingAt(i, e, j)
        AgainAfter(failed) ==
            failed = NotProved(Engine)
                /\ CascadeProvers(failed, ProvingHelper(failed.engine, found, << >>, HypProver)) = done
    IN AgainAfter(ProvingHelper(Engine, found, << >>, Failing))
AppliesWhenDone(found, done) ==
    /\ ProvesAsked(CheckedProver(done, question.thesis), question.thesis)
    /\ done.engine.stack[1].dists \cap question.antidists = {}
    /\ \A i \in DOMAIN question.hyps : RefusedWithout(i, found, done)
FoundApplies(all) == \A found \in ToSet(all) : AppliesWhenDone(found, ProvingHelper(Engine, found, << >>, HypProver))

(* No assertion that fits is left out, however the hypotheses are ordered. *)
Possible ==
    {l \in DOMAIN TbAsses : ~Ass(l).discouraged /\ Ass(l).head = question.head /\ Len(Ass(l).hyps) = Len(question.hyps)}
SubstsOver(vars) == {s \in [vars -> Pieces] : \A v \in vars : TypeOfLabel(s[v][1].lab) = TypeOfVar[v]}
Fits(l, s, perm) ==
    /\ Substitute2(ParsedThesis(l), s) = question.thesis
    /\ \A i \in DOMAIN perm : Substitute2(ParsedHyp(l, perm[i]), s) = question.hyps[i]
    /\ AllowedDists(DistsBetween(l, s), question.antidists)
FoundComplete(all) ==
    \A l \in Possible :
        \A s \in SubstsOver(CollectVariables(ParsedThesis(l)) \union VarsOfHyps(l)), perm \in Permutations(DOMAIN question.hyps) :
            Fits(l, s, perm) => [label |-> l, perm |-> perm, subst |-> s] \in all

(* A registered prover finds its template once and is then used with other *)
(* formulae for the variables of the template (build_registered_prover).   *)
RegisteredWith(first, provers) ==
    LET Instance(e, i) == Proved(PushTree(e, Turnstile, Substitute2(question.hyps[i], provers), {}))
        Replaced == [w \in DOMAIN first.subst |-> Substitute2(first.subst[w], provers)]
        Right(done) == IF NoDiagonal(DistsBetween(first.label, Replaced))
                       THEN ProvesAsked(done, Substitute2(question.thesis, provers))
                       ELSE done = NotProved(Engine)
    IN Right(ProvingHelper(Engine, first, provers, Instance))
RegisteredApplies(first) ==
    \A v \in TreeVars \cap ToSet(TbVars), body \in Renaming :
        RegisteredWith(first, IF TypeOfVar[v] = Alias THEN v :> parses[<<Alias, body>>] ELSE << >>)

FindsExactly(all) ==
    /\ FoundApplies(all) /\ FoundComplete(ToSet(all))
    /\ all # <<>> => RegisteredApplies(all[1])
AnswersRight == question.asked /\ <<>> \notin AskedTrees => FindsExactly(UnifyAssertion(question, FALSE, TRUE))

=============================================================================
