--------------------------------- MODULE Uct ---------------------------------
(***************************************************************************)
(* The tree search for a proof (provers/uct.cpp), as UctStrategy runs it   *)
(* (web/strategy.cpp): visit after visit from the root, until the root is  *)
(* proved.                                                                 *)
(*                                                                         *)
(* A sentence node has a step node for each assertion tried so far, a step *)
(* node a sentence node for each hypothesis of its assertion.  A visit goes *)
(* down to one new node; where the code draws a random number, a visit has *)
(* several outcomes.  Values are only ever reported and are left out.      *)
(***************************************************************************)
EXTENDS Toolbox

CONSTANT MaxVisits   \* bound: visits of the root (10000 in UctStrategy)

VARIABLES
    search,   \* "none", "running", "PROVED", "STUCK" or "ASSERT"
    root,     \* the sentence node of the thesis
    usedVars, \* the temporary variables of the prover
    visits    \* how many visits were made

uctVars == <<search, root, usedVars, visits>>

-----------------------------------------------------------------------------
(* is_assertion_useful, and the order in which assertions are tried: those *)
(* with fewer hypotheses first, and of these the longer ones.              *)
IsAssertionUseful(l) == Ass(l).head = Turnstile /\ ~(Ass(l).theorem /\ Ass(l).trivial) /\ ~Ass(l).discouraged
Position(l) == CHOOSE i \in DOMAIN TbOrder : TbOrder[i] = l
TriedBefore(l, m) ==
    LET hyps == Len(Ass(l).hyps) - Len(Ass(m).hyps)
        size == Len(Ass(m).body) - Len(Ass(l).body)
    IN \/ hyps < 0
       \/ hyps = 0 /\ size < 0
       \/ hyps = 0 /\ size = 0 /\ Position(l) < Position(m)
FilterAssertions(labels) == SetToSortSeq({l \in ToSet(labels) : IsAssertionUseful(l)}, TriedBefore)

(* The assertions for a sentence: those with its root, then those with any. *)
AssRange(sentence) ==
    LET Both(List(_), label) ==
            FilterAssertions(List(label)) \o IF label = AnyRoot THEN <<>> ELSE FilterAssertions(List(AnyRoot))
    IN IF IsImp(sentence) THEN Both(ImpConTheses, ConsequentRoot(sentence)) ELSE Both(RootTheses, RootLabel(sentence, 1))

NewSentenceNode(sentence) ==
    [sentence |-> sentence, visits |-> 0, exhausted |-> FALSE, hyp |-> 0, children |-> <<>>, next |-> 1]
NewStepNode(label, subst) ==
    [label |-> label, subst |-> subst, children |-> <<>>, active |-> <<>>, exhausted |-> FALSE]

Outcome(res, node, used) == [res |-> res, node |-> node, used |-> used]

(* Which assertions have the sentence as an instance of their thesis. *)
ThesisMatch(l, sentence) == AddUnilateral([failed |-> FALSE, subst |-> << >>], ParsedThesis(l), sentence)
CheckSubstMap(l, subst) == AllowedDists(DistsBetween(l, subst), question.antidists)
Applies(l, sentence) ==
    LET match == ThesisMatch(l, sentence) IN ~match.failed /\ CheckSubstMap(l, match.subst)

-----------------------------------------------------------------------------
RECURSIVE VisitSentence(_, _, _), VisitStep(_, _, _)

(* On the first visit only the hypotheses are looked at.                   *)
FirstVisit(node, used) ==
    LET among == {i \in DOMAIN question.hyps : question.hyps[i] = node.sentence}
        first == CHOOSE i \in among : \A j \in among : i <= j
    IN IF among # {} THEN {Outcome("PROVED", [node EXCEPT !.exhausted = TRUE, !.hyp = first], used)}
       ELSE {Outcome("CONTINUE", node, used)}

(* A new child when there is none, or one for every three visits. *)
WithStep(node, label, at) ==
    [node EXCEPT !.next = at + 1, !.children = Append(@, NewStepNode(label, ThesisMatch(label, node.sentence).subst))]
FirstUsable(node, range, usable) ==
    IF usable = {} THEN [node EXCEPT !.next = Len(range) + 1]
    ELSE CHOOSE grown \in {WithStep(node, range[i], i) : i \in usable} : \A i \in usable : grown.next <= i + 1
TryAssertions(node, range) ==
    FirstUsable(node, range, {i \in node.next .. Len(range) : Applies(range[i], node.sentence)})
CreateStep(node) ==
    IF Len(node.children) > 0 /\ Len(node.children) >= node.visits \div 3 THEN node
    ELSE TryAssertions(node, AssRange(node.sentence))

(* A dead child is erased; a proved one evicts the others. *)
AfterStep(node, i, step) ==
    CASE step.res = "DEAD" -> Outcome("CONTINUE", [node EXCEPT !.children = RemoveAt(@, i)], step.used)
      [] step.res = "PROVED" ->
            Outcome("PROVED", [node EXCEPT !.exhausted = TRUE, !.children = <<step.node>>], step.used)
      [] OTHER -> Outcome(step.res, [node EXCEPT !.children[i] = step.node], step.used)

(* The child just created is the one that is visited. *)
VisitChildren(node, created, above, used) ==
    LET chosen == IF created THEN {Len(node.children)} ELSE DOMAIN node.children
    IN IF chosen = {} THEN {Outcome("STUCK", node, used)}
       ELSE UNION {{AfterStep(node, i, step) : step \in VisitStep(node.children[i], Append(above, node.sentence), used)} :
                        i \in chosen}
VisitGrown(grown, before, above, used) == VisitChildren(grown, Len(grown.children) > before, above, used)
VisitSentence(node, above, used) ==
    IF node.exhausted THEN {Outcome("ASSERT", node, used)}
    ELSE IF node.visits = 0 THEN FirstVisit([node EXCEPT !.visits = 1], used)
    ELSE VisitGrown(CreateStep([node EXCEPT !.visits = @ + 1]), Len(node.children), above, used)

(* visit_child: a proved child is not active any more. *)
DoneWith(node, used) ==
    IF node.active = <<>> THEN Outcome("PROVED", [node EXCEPT !.exhausted = TRUE], used) ELSE Outcome("CONTINUE", node, used)
AfterChild_StaysActive(node, i, child) ==
    IF child.res = "PROVED" /\ Len(node.active) = 1
    THEN DoneWith([node EXCEPT !.children[node.active[i]] = child.node, !.active = <<>>], child.used)
    ELSE Outcome(IF child.res = "PROVED" THEN "CONTINUE" ELSE child.res,
                 [node EXCEPT !.children[node.active[i]] = child.node], child.used)

AfterChild(node, i, child) ==
    IF child.res = "PROVED"
    THEN DoneWith([node EXCEPT !.children[node.active[i]] = child.node, !.active = RemoveAt(@, i)], child.used)
    ELSE Outcome(child.res, [node EXCEPT !.children[node.active[i]] = child.node], child.used)

VisitChild(node, i, above, used) ==
    {AfterChild(node, i, child) : child \in VisitSentence(node.children[node.active[i]], above, used)}

(* create_children: hypotheses over new variables where the thesis says    *)
(* nothing; not one may be a sentence that is already on the way to here.  *)
(* They are visited once, the last first.                                  *)
VisitOnce(born, above, used) ==
    LET VisitNext(outcomes, i) ==
            UNION {IF o.res # "CONTINUE" THEN {o} ELSE VisitChild(o.node, i, above, o.used) : o \in outcomes}
    IN FoldLeft(VisitNext, {Outcome("CONTINUE", born, used)}, Reverse([i \in DOMAIN born.children |-> i]))
WithHyps(node, hyps, above, used) ==
    IF ToSet(hyps) \cap ToSet(above) # {} THEN {Outcome("DEAD", [node EXCEPT !.exhausted = TRUE], used)}
    ELSE IF hyps = <<>> THEN {Outcome("PROVED", [node EXCEPT !.exhausted = TRUE], used)}
    ELSE VisitOnce([node EXCEPT !.children = [i \in DOMAIN hyps |-> NewSentenceNode(hyps[i])],
                                !.active = [i \in DOMAIN hyps |-> i]], above, used)
WithSubst(node, subst, above, used) ==
    WithHyps([node EXCEPT !.subst = subst],
             [i \in DOMAIN Ass(node.label).hyps |-> Substitute2(ParsedHyp(node.label, i), subst)], above, used)
Refreshed(node, fresh, above, used) ==
    IF fresh.enough THEN WithSubst(node, fresh.map @@ node.subst, above, fresh.used) ELSE {}
CreateChildren(node, above, used) == Refreshed(node, RefreshingMap(UnconstVars(node.label), used), above, used)

VisitStep(node, above, used) ==
    IF node.exhausted THEN {Outcome("ASSERT", node, used)}
    ELSE IF node.children = <<>> THEN CreateChildren(node, above, used)
    ELSE UNION {VisitChild(node, i, above, used) : i \in DOMAIN node.active}

-----------------------------------------------------------------------------
(* replay_proof: from below, floating hypotheses first. *)
RECURSIVE ReplaySentence(_, _)
ReplayStep(e, step) ==
    LET typed == FoldLeft(LAMBDA f, v : UnwindTree(f, step.subst[v], << >>), e, Ass(step.label).floats)
    IN ProcessLabel(FoldLeft(ReplaySentence, typed, step.children), step.label)
ReplaySentence(e, node) ==
    IF node.children # <<>> THEN ReplayStep(e, node.children[1])
    ELSE PushTree(e, Turnstile, question.hyps[node.hyp], {})

-----------------------------------------------------------------------------
UctInit == search = "none" /\ root = << >> /\ usedVars = {} /\ visits = 0

(* UctStrategy has the step of a question with a thesis that parses. *)
Searchable == question.asked /\ question.head = Turnstile /\ <<>> \notin {question.thesis} \union ToSet(question.hyps)
Begin ==
    /\ search = "none" /\ Searchable
    /\ search' = "running" /\ root' = NewSentenceNode(question.thesis)
    /\ UNCHANGED <<usedVars, visits>>

Visit ==
    /\ search = "running" /\ visits < MaxVisits
    /\ visits' = visits + 1
    /\ \E o \in VisitSentence(root, <<>>, usedVars) :
            /\ root' = o.node /\ usedVars' = o.used
            /\ search' = IF o.res = "CONTINUE" THEN "running" ELSE o.res

UctNext == Begin \/ Visit

-----------------------------------------------------------------------------
RECURSIVE NodesOf(_)
NodesOf(node) ==
    {node} \union UNION {UNION {NodesOf(step.children[k]) : k \in DOMAIN step.children} : step \in ToSet(node.children)}

(* No node that is done is visited again: what is active in a step is what *)
(* is not proved yet, and a node is exhausted only by a proof (the asserts *)
(* on exhausted in SentenceNode::visit and StepNode::visit).               *)
OnlyOpenVisited ==
    /\ search # "ASSERT"
    /\ search = "running" =>
         \A node \in NodesOf(root) : \A step \in ToSet(node.children) :
            /\ ~step.exhausted \/ node.exhausted
            /\ step.children # <<>> => ToSet(step.active) = {k \in DOMAIN step.children : ~step.children[k].exhausted}

(* A proof that is found can be replayed: every label is accepted, exactly *)
(* the thesis is proved, from the hypotheses of the question, and no       *)
(* antidistinct pair is asked for although variables were made up on the   *)
(* way (SentenceNode::replay_proof, StepNode::replay_proof).               *)
ProvesTheQuestion(e) ==
    /\ ~e.raised /\ Len(e.stack) = 1 /\ e.stack[1].head = Turnstile /\ e.stack[1].tree = question.thesis
    /\ e.stack[1].dists \cap question.antidists = {}
ProofsReplay == search = "PROVED" => ProvesTheQuestion(ReplaySentence(Engine, root))

(* The answers of the toolbox do not change while a search runs. *)
ToolboxRight == search = "none" => AnswersRight

SearchSound == OnlyOpenVisited /\ ProofsReplay

=============================================================================
