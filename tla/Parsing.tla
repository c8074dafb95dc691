------------------------------- MODULE Parsing -------------------------------
(***************************************************************************)
(* The two parsers (parsing/earley.h, parsing/lr.h) for the derivations of *)
(* a grammar: a sequence of rules, each with a head, a label and a body of *)
(* symbols.  A symbol is not terminal if it is the head of a rule.  Bodies *)
(* are not empty.                                                          *)
(***************************************************************************)
EXTENDS Naturals, Sequences, FiniteSets, SequencesExt

CONSTANTS
    Grammars,   \* bound: the grammars
    MaxTokens   \* bound: the length of a sentence

VARIABLES grammar, target, sentence

parsingVars == <<grammar, target, sentence>>

Rules == DOMAIN grammar
Heads(g) == {g[r].head : r \in DOMAIN g}
Symbols(g) == UNION {ToSet(g[r].body) : r \in DOMAIN g}

NoTree == [label |-> "none", children |-> <<>>]
Leaf(r, children) == [label |-> grammar[r].label, children |-> children]

(* reconstruct_sentence *)
RECURSIVE Reconstruct(_)
Reconstruct(tree) ==
    LET rule == grammar[CHOOSE r \in Rules : grammar[r].label = tree.label]
        Hole(i) == Cardinality({j \in 1..i : rule.body[j] \in Heads(grammar)})
    IN FlattenSeq([i \in DOMAIN rule.body |->
            IF rule.body[i] \in Heads(grammar) THEN Reconstruct(tree.children[Hole(i)]) ELSE <<rule.body[i]>>])

(* ParsingTree::validate *)
RECURSIVE Valid(_, _)
Valid(tree, type) ==
    \E r \in Rules :
        LET holes == SelectSeq(grammar[r].body, LAMBDA s : s \in Heads(grammar)) IN
        /\ grammar[r].label = tree.label /\ grammar[r].head = type
        /\ Len(holes) = Len(tree.children)
        /\ \A i \in DOMAIN holes : Valid(tree.children[i], holes[i])

-----------------------------------------------------------------------------
(* Earley.  An item is a rule, where it began, how far it is, and the items *)
(* that its symbols were completed by, which make no difference between    *)
(* items; buckets[i] lists the items whose point is after i symbols.       *)
Item(r, initial, current, children) == [rule |-> r, initial |-> initial, current |-> current, children |-> children]
Body(item) == grammar[item.rule].body
Finished(item) == item.current = Len(Body(item))
NextSymbol(item) == Body(item)[item.current + 1]

AddItem(bucket, item) ==
    IF \E k \in DOMAIN bucket : [bucket[k] EXCEPT !.children = <<>>] = [item EXCEPT !.children = <<>>]
    THEN bucket ELSE Append(bucket, item)

(* One item of bucket i: completion, prediction or scan. *)
Complete_Here(buckets, i, j) ==
    LET done == buckets[i][j]
        Promote(bs, waiting) ==
            IF ~Finished(waiting) /\ NextSymbol(waiting) = grammar[done.rule].head
            THEN [bs EXCEPT ![i] = AddItem(@, [waiting EXCEPT !.current = @ + 1, !.children = Append(@, <<i, j>>)])]
            ELSE bs
    IN FoldLeft(Promote, buckets, buckets[i])

Complete(buckets, i, j) ==
    LET done == buckets[i][j]
        Promote(bs, waiting) ==
            IF ~Finished(waiting) /\ NextSymbol(waiting) = grammar[done.rule].head
            THEN [bs EXCEPT ![i] = AddItem(@, [waiting EXCEPT !.current = @ + 1, !.children = Append(@, <<i, j>>)])]
            ELSE bs
    IN FoldLeft(Promote, buckets, buckets[done.initial])

Predict(buckets, i, symbol) ==
    LET New(bs, r) == [bs EXCEPT ![i] = AddItem(@, Item(r, i, 0, <<>>))]
    IN FoldLeft(New, buckets, SelectSeq([r \in Rules |-> r], LAMBDA r : grammar[r].head = symbol))

Scan(buckets, i, item) ==
    IF i <= Len(sentence) /\ NextSymbol(item) = sentence[i]
    THEN [buckets EXCEPT ![i + 1] = AddItem(@, [item EXCEPT !.current = @ + 1])]
    ELSE buckets

RECURSIVE EarleyFrom(_, _, _), TreeOf(_, _)
EarleyFrom(buckets, i, j) ==
    IF i > Len(sentence) + 1 THEN buckets
    ELSE IF j > Len(buckets[i]) THEN EarleyFrom(buckets, i + 1, 1)
    ELSE LET item == buckets[i][j]
         IN EarleyFrom(IF Finished(item) THEN Complete(buckets, i, j)
                       ELSE IF NextSymbol(item) \in Heads(grammar) THEN Predict(buckets, i, NextSymbol(item))
                       ELSE Scan(buckets, i, item), i, j + 1)

TreeOf(buckets, item) ==
    Leaf(item.rule, [k \in DOMAIN item.children |-> TreeOf(buckets, buckets[item.children[k][1]][item.children[k][2]])])

EarleyParse ==
    LET start == [i \in 1 .. Len(sentence) + 1 |-> <<>>]
        buckets == EarleyFrom(Predict(start, 1, target), 1, 1)
        last == buckets[Len(sentence) + 1]
        accepted == {j \in DOMAIN last : last[j].initial = 1 /\ Finished(last[j]) /\ grammar[last[j].rule].head = target}
    IN IF accepted = {} THEN NoTree ELSE TreeOf(buckets, last[Min(accepted)])

-----------------------------------------------------------------------------
(* LR without look-ahead.  A state of the automaton is a set of rules with *)
(* a position; the states are their own numbers.                           *)
At(g, pos) == g[pos[1]].body[pos[2] + 1]
AtEnd(g, pos) == pos[2] = Len(g[pos[1]].body)

RECURSIVE Saturate(_, _)
Saturate(g, state) ==
    LET next == {At(g, pos) : pos \in {p \in state : ~AtEnd(g, p)}}
        more == {<<r, 0>> : r \in {q \in DOMAIN g : g[q].head \in next}}
    IN IF more \subseteq state THEN state ELSE Saturate(g, state \union more)

NextPossibleSymbols(g, state) == {At(g, pos) : pos \in {p \in state : ~AtEnd(g, p)}}
EvolveState(g, state, sym) ==
    Saturate(g, {<<pos[1], pos[2] + 1>> : pos \in {p \in state : ~AtEnd(g, p) /\ At(g, p) = sym}})

(* initialize: from the state before every rule. *)
InitialState(g) == {<<r, 0>> : r \in DOMAIN g}
RECURSIVE StatesFrom(_, _)
StatesFrom(g, known) ==
    LET new == UNION {{EvolveState(g, s, sym) : sym \in NextPossibleSymbols(g, s)} : s \in known}
    IN IF new \subseteq known THEN known ELSE StatesFrom(g, known \union new)

AutomatonOf(g) ==
    [s \in StatesFrom(g, {InitialState(g)}) |->
        [shifts |-> [sym \in NextPossibleSymbols(g, s) |-> EvolveState(g, s, sym)],
         reductions |-> SelectSeq([r \in DOMAIN g |-> r], LAMBDA r : <<r, Len(g[r].body)>> \in s)]]
Automaton == [g \in Grammars |-> AutomatonOf(g)]

(* do_parsing: a shift if there is one, then every reduction, each undone  *)
(* if the rest fails.  A reduction from which the automaton cannot go on   *)
(* ends the search for good.                                               *)
VarNum(r) == Cardinality({i \in DOMAIN grammar[r].body : grammar[r].body[i] \in Heads(grammar)})
Fails == [found |-> FALSE, halt |-> FALSE, labels |-> <<>>]
Halts == [Fails EXCEPT !.halt = TRUE]

(* The whole sentence is one tree of the target. *)
Accepts(at, left, below, head) == at > Len(sentence) /\ left = 1 /\ Len(below) = 1 /\ head = target

RECURSIVE DoParsing(_, _, _, _, _), Reduce(_, _, _, _, _, _)
DoParsing(automaton, stack, at, size, labels) ==
    LET row == automaton[Last(stack)]
        shifted == IF at <= Len(sentence) /\ sentence[at] \in DOMAIN row.shifts
                   THEN DoParsing(automaton, Append(stack, row.shifts[sentence[at]]), at + 1, size, labels)
                   ELSE Fails
    IN IF shifted.found \/ shifted.halt THEN shifted
       ELSE FoldLeft(LAMBDA res, r : IF res.found \/ res.halt THEN res ELSE Reduce(automaton, stack, at, size, labels, r),
                     Fails, row.reductions)

Reduce(automaton, stack, at, size, labels, r) ==
    LET symNum == Len(grammar[r].body)
        left == size + 1 - VarNum(r)
        below == SubSeq(stack, 1, Len(stack) - symNum)
        goto == automaton[Last(below)].shifts
        head == grammar[r].head
    IN IF Accepts(at, left, below, head)
       THEN [found |-> TRUE, halt |-> FALSE, labels |-> Append(labels, r)]
       ELSE IF head \notin DOMAIN goto THEN Halts
       ELSE DoParsing(automaton, Append(below, goto[head]), at, left, Append(labels, r))

(* get_parsing_tree: the reductions build the tree from below. *)
BuildTree(labels) ==
    LET Step(stack, r) == LET base == Len(stack) - VarNum(r)
                          IN Append(SubSeq(stack, 1, base), Leaf(r, SubSeq(stack, base + 1, Len(stack))))
    IN FoldLeft(Step, <<>>, labels)

LRAnswerOf(automaton) == DoParsing(automaton, <<InitialState(grammar)>>, 1, 0, <<>>)
LRParseOf(automaton) ==
    LET answer == LRAnswerOf(automaton) IN IF answer.found THEN BuildTree(answer.labels)[1] ELSE NoTree
LRAnswer == LRAnswerOf(Automaton[grammar])
LRParse == LRParseOf(Automaton[grammar])

-----------------------------------------------------------------------------
ParsingInit == grammar \in Grammars /\ target \in Heads(grammar) /\ sentence = <<>>

Read(sym) == Len(sentence) < MaxTokens /\ sentence' = Append(sentence, sym) /\ UNCHANGED <<grammar, target>>

ParsingNext == \E sym \in Symbols(grammar) \ Heads(grammar) : Read(sym)

ParsingSpec == ParsingInit /\ [][ParsingNext]_parsingVars

-----------------------------------------------------------------------------
(* The reference: what a symbol derives. *)
RECURSIVE Derives(_, _), DerivesBody(_, _)
Derives(sym, s) == IF sym \notin Heads(grammar) THEN s = <<sym>>
                   ELSE \E r \in Rules : grammar[r].head = sym /\ DerivesBody(grammar[r].body, s)
DerivesBody(body, s) ==
    IF Len(body) = 1 THEN Derives(body[1], s)
    ELSE \E n \in 1 .. Len(s) - Len(body) + 1 :
            Derives(body[1], SubSeq(s, 1, n)) /\ DerivesBody(Tail(body), SubSeq(s, n + 1, Len(s)))

Parses(tree) == Valid(tree, target) /\ Reconstruct(tree) = sentence

(* The Earley parser parses exactly what the target derives, and what it   *)
(* returns is a tree of that sentence (EarleyParser::parse).               *)
EarleyExact == IF Derives(target, sentence) THEN Parses(EarleyParse) ELSE EarleyParse = NoTree

(* What the LR parser returns is a tree of the sentence, whatever had to be *)
(* undone.  It may give up on a sentence that the target derives, for the  *)
(* first reduction that leads nowhere ends the search although another     *)
(* move was left to try; where the automaton never has two moves it parses *)
(* all that the target derives (LRParsingHelper::do_parsing).              *)
LRSound == LRAnswer.found => Parses(LRParse)
Shifts(row) == DOMAIN row.shifts \ Heads(grammar)
MovesCompete ==
    \E state \in DOMAIN Automaton[grammar] :
       LET row == Automaton[grammar][state]
       IN row.reductions # <<>> /\ (Len(row.reductions) > 1 \/ Shifts(row) # {})
LRComplete == Derives(target, sentence) => LRAnswer.found \/ (LRAnswer.halt /\ MovesCompete)

(* The Earley parser is right on every sentence; the LR parser is never    *)
(* wrong, and gives up only in a grammar where moves compete.              *)
ParsersExact == EarleyExact /\ LRSound /\ LRComplete

=============================================================================
