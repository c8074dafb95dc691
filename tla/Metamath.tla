------------------------------ MODULE Metamath ------------------------------
(***************************************************************************)
(* Metamath proofs (mm/proof.cpp, proof.h, sentengine.cpp): how they are   *)
(* executed on sentences, compressed and uncompressed.                     *)
(*                                                                         *)
(* A library has its constants, the sentence of every label, and for the   *)
(* labels of assertions the mandatory hypotheses (floats, then esses), the *)
(* optional ones, the pairs of distinct variables and the proof.  A proof  *)
(* is a list of labels, or a list of codes with the labels it refers to.   *)
(***************************************************************************)
EXTENDS Naturals, Sequences, FiniteSets, SequencesExt

(* The label of a step that was saved. *)
NoLabel == 0

Mand(ass) == ass.floats \o ass.esses
HypsOf(ass) == ToSet(Mand(ass)) \union ass.opts
DistsOf(ass) == ass.mandDists \union ass.optDists

VariablesIn(lib, sent) == ToSet(sent) \ lib.consts

-----------------------------------------------------------------------------
(* sentengine.cpp.  A substitution maps a variable to the sentence of a    *)
(* floating hypothesis; its first symbol is the type.                      *)
DoSubst(sent, map) ==
    FlattenSeq([i \in DOMAIN sent |-> IF sent[i] \in DOMAIN map THEN Tail(map[sent[i]]) ELSE <<sent[i]>>])

(* check_match, symbol by symbol of the hypothesis: VectorMap::at throws   *)
(* out_of_range for a variable without substitution.  A sentence that is   *)
(* too short is read past its end; whatever is there, its end is not met.  *)
CheckMatch(lib, onStack, templ, map) ==
    LET Expected(tok) == IF tok \in lib.consts THEN <<tok>> ELSE Tail(map[tok])
        Compare(st, tok) ==
            IF st.verdict # "match" THEN st
            ELSE IF tok \notin lib.consts \union DOMAIN map THEN [st EXCEPT !.verdict = "out_of_range"]
            ELSE LET to == st.at + Len(Expected(tok))
                 IN [at |-> to,
                     verdict |-> IF to <= Len(onStack) + 1 /\ SubSeq(onStack, st.at, to - 1) = Expected(tok)
                                 THEN "match" ELSE "refused"]
        end == FoldLeft(Compare, [at |-> 1, verdict |-> "match"], templ)
    IN IF end.verdict = "match" /\ end.at # Len(onStack) + 1 THEN "refused" ELSE end.verdict

PropagateDists_None(lib, ass, map) == {}

(* propagate_dists: a pair is a set of two variables, or of one if both are the same. *)
PropagateDists(lib, ass, map) ==
    UNION {{{u, v} : <<u, v>> \in VariablesIn(lib, map[x]) \X VariablesIn(lib, map[y])} :
                <<x, y>> \in {<<a, b>> \in (DOMAIN map) \X (DOMAIN map) : a # b /\ {a, b} \in ass.mandDists}}

-----------------------------------------------------------------------------
(* The engine, as a record.  outcome is "ok", "refused" by a               *)
(* ProofException, "broken": an assertion of the code fails, or what is    *)
(* read is not there; or "undefined" (see FinalChecks).                    *)
Start == [stack |-> <<>>, dists |-> <<>>, saved |-> <<>>, trees |-> <<>>, last |-> <<>>,
          outcome |-> "ok", carriedOn |-> FALSE]

Above(seq, base) == SubSeq(seq, base + 1, Len(seq))

Push(st, base, sent, dists, tree) ==
    [st EXCEPT !.stack = Append(SubSeq(@, 1, base), sent), !.dists = Append(SubSeq(@, 1, base), dists),
               !.trees = Append(SubSeq(@, 1, base), tree), !.last = <<tree>>]

ProcessSent(st, sent, label) ==
    Push(st, Len(st.stack), sent, {}, [sentence |-> sent, label |-> label, children |-> <<>>])

(* The first floating hypothesis for a variable is the one that counts. *)
SubstMap(lib, ass, args) ==
    LET VarOf(i) == lib.sentences[ass.floats[i]][2]
    IN [v \in {VarOf(i) : i \in DOMAIN ass.floats} |->
            args[CHOOSE i \in DOMAIN ass.floats : VarOf(i) = v /\ \A j \in 1 .. i - 1 : VarOf(j) # v]]

(* process_assertion, and process_label around it: when out_of_range comes *)
(* out of the match, the sentence of the assertion itself is pushed.       *)
ProcessAss(lib, st, label) ==
    LET ass == lib.asses[label]
        nf == Len(ass.floats)
        base == Len(st.stack) - nf - Len(ass.esses)
        args == Above(st.stack, base)
        Bare(i) == st.dists[base + i] = {}
        Fits(i) == args[i][1] = lib.sentences[ass.floats[i]][1]
        wrong == {i \in 1..nf : ~Bare(i) \/ ~Fits(i)}
        map == SubstMap(lib, ass, args)
        verdicts == [i \in DOMAIN ass.esses |-> CheckMatch(lib, args[nf + i], lib.sentences[ass.esses[i]], map)]
        failed == {i \in DOMAIN verdicts : verdicts[i] # "match"}
        dists == UNION {st.dists[base + nf + i] : i \in DOMAIN ass.esses} \union PropagateDists(lib, ass, map)
        thesis == DoSubst(lib.sentences[label], map)
    IN CASE base < 0 -> [st EXCEPT !.outcome = "refused"]
         [] base >= 0 /\ wrong # {} -> [st EXCEPT !.outcome = IF Bare(Min(wrong)) THEN "refused" ELSE "broken"]
         [] OTHER ->
            IF failed # {}
            THEN IF verdicts[Min(failed)] = "refused" THEN [st EXCEPT !.outcome = "refused"]
                 ELSE [ProcessSent(st, lib.sentences[label], label) EXCEPT !.carriedOn = TRUE]
            ELSE IF \E d \in dists : Cardinality(d) = 1 THEN [st EXCEPT !.outcome = "refused"]
            ELSE Push(st, base, thesis, dists,
                      [sentence |-> thesis, label |-> label, children |-> Above(st.trees, base)])

(* ProofExecutor::process_label; relax is relax_checks. *)
ExecLabel(lib, ass, relax, st, label) ==
    IF st.outcome # "ok" THEN st
    ELSE IF label \in DOMAIN lib.asses THEN ProcessAss(lib, st, label)
    ELSE IF ~relax /\ label \notin HypsOf(ass) THEN [st EXCEPT !.outcome = "refused"]
    ELSE ProcessSent(st, lib.sentences[label], label)

(* get_dists returns its set by value: includes() is given the beginning   *)
(* of one set and the end of another.  Constraints that are allowed are    *)
(* all met before either end; after one that is not, it may read past the  *)
(* first set, and what it then does is undefined.                          *)
FinalChecks(lib, ass, st) ==
    IF st.outcome # "ok" THEN st
    ELSE IF Len(st.stack) # 1 \/ st.stack[1] # lib.sentences[ass.thesis] THEN [st EXCEPT !.outcome = "refused"]
    ELSE IF Last(st.dists) \subseteq DistsOf(ass) THEN st
    ELSE [st EXCEPT !.outcome = "undefined"]

(* The outcomes of undefined behaviour: a greater pair is met, and the     *)
(* proof is refused, or the end never is.                                  *)
OutcomesOf(outcome) == IF outcome = "undefined" THEN {"refused", "broken"} ELSE {outcome}

(* The label that a code stands for, or none. *)
LabelOf(ass, refs, code) == (Mand(ass) \o refs)[code]
SavedOf(ass, refs, code) == code - Len(Mand(ass)) - Len(refs)

ExecCode(lib, ass, refs, st, code) ==
    LET k == SavedOf(ass, refs, code) IN
    CASE st.outcome # "ok" -> st
      [] st.outcome = "ok" /\ code = 0 ->
            IF st.stack = <<>> THEN [st EXCEPT !.outcome = "broken"]
            ELSE [st EXCEPT !.saved = Append(@, Last(st.stack))]
      [] st.outcome = "ok" /\ code > 0 /\ k <= 0 -> ExecLabel(lib, ass, FALSE, st, LabelOf(ass, refs, code))
      [] OTHER -> IF k \in DOMAIN st.saved THEN ProcessSent(st, st.saved[k], NoLabel)
                  ELSE [st EXCEPT !.outcome = "refused"]

RunLabels(lib, ass, relax, labels) ==
    FoldLeft(LAMBDA st, label : ExecLabel(lib, ass, relax, st, label), Start, labels)
RunCodes(lib, ass, refs, codes) ==
    FoldLeft(LAMBDA st, code : ExecCode(lib, ass, refs, st, code), Start, codes)

Execute(lib, ass, proof) ==
    FinalChecks(lib, ass, IF proof.compressed THEN RunCodes(lib, ass, proof.refs, proof.codes)
                          ELSE RunLabels(lib, ass, FALSE, proof.labels))

-----------------------------------------------------------------------------
Labelled(labels) == [compressed |-> FALSE, labels |-> labels]
Coded(refs, codes) == [compressed |-> TRUE, refs |-> refs, codes |-> codes]

(* check_syntax; a label of a list may be a mandatory hypothesis, one that *)
(* codes refer to an optional one.                                         *)
CheckSyntaxLabels(lib, ass, labels) == ToSet(labels) \subseteq DOMAIN lib.asses \union ToSet(Mand(ass))

CheckSyntaxCodes(lib, ass, refs, codes) ==
    /\ ToSet(refs) \subseteq DOMAIN lib.asses \union ass.opts
    /\ \A i \in DOMAIN codes :
            codes[i] <= Len(Mand(ass)) + Len(refs) + Cardinality({j \in 1 .. i : codes[j] = 0})

CheckSyntax(lib, ass, proof) ==
    IF proof.compressed THEN CheckSyntaxCodes(lib, ass, proof.refs, proof.codes)
    ELSE CheckSyntaxLabels(lib, ass, proof.labels)

(* is_trivial: at most one step that is not a floating hypothesis. *)
IsTrivialCodes(ass, codes) ==
    /\ 0 \notin ToSet(codes)
    /\ Cardinality({i \in DOMAIN codes : codes[i] > Len(ass.floats)}) <= 1
IsTrivialLabels(ass, labels) == Cardinality({i \in DOMAIN labels : labels[i] \notin ToSet(ass.floats)}) <= 1

HypNum(lib, label) == IF label \in DOMAIN lib.asses THEN Len(Mand(lib.asses[label])) ELSE 0

(* uncompress of codes.  opening holds where, among the labels, the proof  *)
(* of each entry of the stack begins; a saved step is the labels that      *)
(* proved it.                                                              *)
UncompressStep(lib, ass, refs, st, code) ==
    LET k == SavedOf(ass, refs, code)
        label == LabelOf(ass, refs, code)
        n == HypNum(lib, label)
        at == Len(st.opening) - n
    IN CASE st.outcome # "ok" -> st
         [] st.outcome = "ok" /\ code = 0 ->
                IF st.opening = <<>> THEN [st EXCEPT !.outcome = "broken"]
                ELSE [st EXCEPT !.saved = Append(@, Above(st.labels, Last(st.opening)))]
         [] st.outcome = "ok" /\ code > 0 /\ k <= 0 ->
                IF at < 0 THEN [st EXCEPT !.outcome = "refused"]
                ELSE [st EXCEPT !.opening = Append(SubSeq(@, 1, at), IF n = 0 THEN Len(st.labels) ELSE @[at + 1]),
                                !.labels = Append(@, label)]
         [] OTHER ->
                IF k \notin DOMAIN st.saved THEN [st EXCEPT !.outcome = "refused"]
                ELSE [st EXCEPT !.opening = Append(@, Len(st.labels)), !.labels = @ \o st.saved[k]]

Uncompress(lib, ass, refs, codes) ==
    LET start == [opening |-> <<>>, labels |-> <<>>, saved |-> <<>>, outcome |-> "ok"]
        end == FoldLeft(LAMBDA st, code : UncompressStep(lib, ass, refs, st, code), start, codes)
    IN IF end.outcome = "ok" /\ Len(end.opening) # 1 THEN [end EXCEPT !.outcome = "refused"] ELSE end

-----------------------------------------------------------------------------
(* compress.  order lists the labels that have a code, sents the sentences *)
(* whose trees were closed.                                                *)
CodeOf(order, label) == CHOOSE i \in DOMAIN order : order[i] = label
Numbered(order, label) == IF label \in ToSet(order) THEN order ELSE Append(order, label)

RECURSIVE Phase1(_, _), Phase2(_, _, _)
Phase1(st, tree) ==
    IF tree.children # <<>> /\ tree.sentence \in st.sents
    THEN [st EXCEPT !.dupl = @ \union {tree.sentence}]
    ELSE LET below == FoldLeft(Phase1, st, tree.children)
         IN [below EXCEPT !.order = Numbered(@, tree.label), !.sents = @ \union {tree.sentence}]

(* The same walk; a duplicate sentence is saved the first time and then    *)
(* recalled.  found fails if one was never saved (map::at throws).         *)
Phase2(order, dupl, arg) ==
    LET st == arg[1]  tree == arg[2] IN
    IF tree.children # <<>> /\ tree.sentence \in st.sents
    THEN IF tree.sentence \in ToSet(st.kept)
         THEN [st EXCEPT !.codes = Append(@, Len(order) + CodeOf(st.kept, tree.sentence))]
         ELSE [st EXCEPT !.found = FALSE]
    ELSE LET below == FoldLeft(LAMBDA s, child : Phase2(order, dupl, <<s, child>>), st, tree.children)
             save == tree.sentence \in dupl \ ToSet(below.kept)
         IN [below EXCEPT !.codes = @ \o <<CodeOf(order, tree.label)>> \o (IF save THEN <<0>> ELSE <<>>),
                          !.kept = IF save THEN Append(@, tree.sentence) ELSE @,
                          !.sents = @ \union {tree.sentence}]

CompressNoBackrefs_Floats(lib, ass, labels) ==
    LET order == FoldLeft(Numbered, ass.floats, labels)
    IN Coded(Above(order, Len(ass.floats)), [i \in DOMAIN labels |-> CodeOf(order, labels[i])])

(* CS_NO_BACKREFS *)
CompressNoBackrefs(lib, ass, labels) ==
    LET order == FoldLeft(Numbered, Mand(ass), labels)
    IN Coded(Above(order, Len(Mand(ass))), [i \in DOMAIN labels |-> CodeOf(order, labels[i])])

(* CS_BACKREFS_ON_IDENTICAL_SENTENCE: on the last tree that the relaxed execution made. *)
CompressBackrefs(lib, ass, labels) ==
    LET tree == RunLabels(lib, ass, TRUE, labels).last[1]
        one == Phase1([order |-> Mand(ass), sents |-> {}, dupl |-> {}], tree)
        two == Phase2(one.order, one.dupl, <<[codes |-> <<>>, kept |-> <<>>, sents |-> {}, found |-> TRUE], tree>>)
    IN [proof |-> Coded(Above(one.order, Len(Mand(ass))), two.codes), found |-> two.found]

-----------------------------------------------------------------------------
(* CompressedEncoder and CompressedDecoder.  A character is its position   *)
(* in the alphabet, from 0: the low digit is one of twenty, A to T, the    *)
(* digits before it are one of five, U to Y, and Z is code 0.  Codes have  *)
(* a width; the largest is INVALID_CODE.                                   *)
RECURSIVE HighDigits(_)
HighDigits(x) == IF x = 0 THEN <<>> ELSE Append(HighDigits((x - 1) \div 5), 20 + ((x - 1) % 5))

PushCode(x) == IF x = 0 THEN <<25>> ELSE Append(HighDigits((x - 1) \div 20), (x - 1) % 20)

PushChar(width, st, c) ==
    LET next == IF c < 20 THEN st.current * 20 + c + 1 ELSE st.current * 5 + c - 19
        cut == next % 2 ^ width
    IN IF st.refused THEN st
       ELSE IF c = 25 THEN IF st.current # 0 THEN [st EXCEPT !.refused = TRUE] ELSE [st EXCEPT !.codes = Append(@, 0)]
       ELSE [codes |-> IF c < 20 THEN Append(st.codes, cut) ELSE st.codes, current |-> IF c < 20 THEN 0 ELSE cut,
             refused |-> c < 20 /\ cut = 2 ^ width - 1, wrapped |-> st.wrapped \/ next # cut]

Decoded(width, chars) ==
    FoldLeft(LAMBDA st, c : PushChar(width, st, c),
             [codes |-> <<>>, current |-> 0, refused |-> FALSE, wrapped |-> FALSE], chars)

=============================================================================
