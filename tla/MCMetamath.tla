----------------------------- MODULE MCMetamath -----------------------------
(* The library core for TLC: a behaviour drives the proof engine, reads a  *)
(* database, writes a proof of a fixed library, feeds unificators, parsers *)
(* and the matching without parsing, shares temporary variables, or splits *)
(* a file into tokens, has comments interpreted, or prints the proof of a  *)
(* tree of steps.                                                          *)
EXTENDS ProofEngine, Reader, Compression, Unification, Parsing, OldUnification, TempVars, Tokens,
        Addenda, StepProof

VARIABLE part

otherVars == <<readVars, proofVars, unifVars, parsingVars, matchVars, tempVars, tokenVars, addendaVars, forest>>

-----------------------------------------------------------------------------
(* The engine: a library with one formula, a theorem about it, and three   *)
(* assertions.                                                             *)
CONSTANTS w, p,         \* sentences: a formula, and a theorem
          fw, ep,       \* hypotheses: w is a formula, p is a theorem
          ax, mp, both  \* assertions

MCStatement == fw :> w @@ ep :> p
MCFloats    == ax :> 1 @@ mp :> 1 @@ both :> 0
MCEsses     == ax :> 0 @@ mp :> 1 @@ both :> 2
MCImposed   == ax :> {"xy"} @@ mp :> {"yz"} @@ both :> {}

Table(n, f) == [args \in [1..n -> Sentences] |-> IF args \in DOMAIN f THEN f[args] ELSE None]

MCThesis == ax   :> Table(1, <<w>> :> p)
         @@ mp   :> Table(2, <<w, p>> :> p)
         @@ both :> Table(2, <<p, p>> :> p)

-----------------------------------------------------------------------------
(* The reader: $w z$ and $t ...$ are the sentences, as "wff" and "|-" are. *)
ReadStatements ==
    [c |-> {<<"Q">>, <<"x">>}, v |-> {<<"z">>}, f |-> {<<"w", "z">>}, e |-> {<<"t", "x">>}, d |-> {<<"x", "y">>},
     a |-> {<<"w", "P">>, <<"t", "x", "y">>, <<"t", "z">>},
     p |-> {<<"t", "x">>, <<"t", "P", "y">>, <<"t", "x", "x">>, <<"t", "y", "x">>}]
ReadCodes == {<<1, 2, 3>>, <<1, 0, 2, 3>>, <<1>>, <<0>>}
TypesOfXY == <<<<"w", "x">>, <<"w", "y">>>>

-----------------------------------------------------------------------------
(* The library of a theorem to prove: 1 and 3 are floating hypotheses, 2   *)
(* is essential; 4 makes a formula, 5 proves it, 6 and 7 are rules, 13     *)
(* asks for distinct variables; the others are hypotheses of these.        *)
Axiom(floats, esses, distinct) ==
    [thesis |-> 0, floats |-> floats, esses |-> esses, opts |-> {}, mandDists |-> distinct, optDists |-> {}]
SmallLib ==
    [consts |-> {"w", "t", "N"},
     sentences |-> <<<<"w", "x">>, <<"t", "x">>, <<"w", "y">>, <<"w", "N", "u">>, <<"t", "u">>, <<"t", "N", "u">>,
                     <<"t", "u">>, <<"w", "u">>, <<"t", "u">>, <<"w", "v">>, <<"t", "u">>, <<"w", "v">>,
                     <<"t", "u", "v">>, <<>> >>,
     asses |-> 4 :> Axiom(<<8>>, <<>>, {}) @@ 5 :> Axiom(<<8>>, <<>>, {}) @@ 6 :> Axiom(<<8>>, <<9, 11>>, {})
               @@ 7 :> Axiom(<<8>>, <<9>>, {}) @@ 13 :> Axiom(<<8, 12>>, <<>>, {{"u", "v"}})]
SmallContext ==
    [thesis |-> 0, floats |-> <<1>>, esses |-> <<2>>, opts |-> {3}, mandDists |-> {}, optDists |-> {{"x", "y"}}]

-----------------------------------------------------------------------------
Just(lab) == <<Node(lab, 0)>>
Of1(t) == <<Node("g", Len(t))>> \o t
Of2(t, u) == <<Node("f", Len(t) + Len(u))>> \o t \o u
VarTypes == [x |-> "w", y |-> "w", z |-> "w", u |-> "s"]
TermTypes == [g |-> "w", f |-> "w", a |-> "w"]
SomeTrees == {Just("x"), Just("y"), Just("z"), Just("u"), Of1(Just("x")), Of2(Just("x"), Just("y")), Of2(Just("y"), Of1(Just("a")))}

Symmetric == Permutations(Allocators)
SomeRefreshable == {<<Just("x"), Of2(Just("y"), Just("x"))>>, <<Just("u")>>}

-----------------------------------------------------------------------------
(* A fragment of set theory, two grammars where reductions compete, and an *)
(* ambiguous one.                                                          *)
R(head, label, body) == [head |-> head, label |-> label, body |-> body]
SomeGrammars ==
    {<<R("c", "cv", <<"s">>), R("c", "cab", <<"{", "s", "|", "w", "}">>), R("s", "x", <<"x">>), R("w", "weq", <<"c", "=", "c">>),
       R("w", "wi", <<"(", "w", "w", ")">>), R("w", "ph", <<"p">>)>>,
     <<R("A", "t", <<"a">>), R("S", "u", <<"a">>), R("U", "b", <<"S", "b">>)>>,
     <<R("A", "t", <<"a">>), R("S", "u", <<"a">>), R("U", "b", <<"S", "b">>), R("U", "c", <<"A", "c">>),
       R("U", "d", <<"U", "A">>), R("U", "e", <<"U", "S", "c">>)>>,
     <<R("E", "plus", <<"E", "+", "E">>), R("E", "one", <<"1">>), R("E", "two", <<"1", "1">>)>>}

-----------------------------------------------------------------------------
(* Files: f holds two tokens, g includes f between comments. *)
I(kind, body) == [kind |-> kind, body |-> body]
SomeItems ==
    {I("token", <<"a">>), I("token", <<"(">>), I("space", <<" ">>), I("keyword", <<"$", "b">>), I("keyword", <<"$", "$">>),
     I("comment", <<>>), I("comment", <<"!", "$">>), I("comment", <<"$", "$", "a">>), I("comment", <<"$", "(">>),
     I("include", <<"f">>), I("include", <<"g">>), I("stray", <<"!">>), I("stray", <<"$", ")">>),
     I("cut", <<"$">>), I("cut", <<"$", "[", "f">>)}
SomeFiles == (<<"f">> :> <<I("token", <<"a">>), I("space", <<" ">>), I("token", <<"b">>)>>)
          @@ (<<"g">> :> <<I("comment", <<"a">>), I("include", <<"f">>), I("comment", <<>>), I("token", <<"a">>)>>)

-----------------------------------------------------------------------------
(* The comments that are interpreted: pieces of instructions, remarks that *)
(* look like strings and strings that look like remarks.                   *)
L(kind, text) == [kind |-> kind, text |-> text]
Blank == L("blank", <<" ">>)
Word(x) == L("word", <<x>>)
Str(x) == L("string", <<"'", x, "'">>)
SomePhrases ==
    {<<Blank>>, <<L("end", <<";">>)>>, <<L("word", <<"x", "/">>)>>, <<L("word", <<"/", "x">>)>>,
     <<L("string", <<"\"", "'", ";", "/", "*", "\"">>)>>,
     <<L("remark", <<"/", "*", "'", "*", "*", "/">>)>>, <<L("remark", <<"/", "*", "/", "*", ";", "*", "/">>)>>,
     <<Word("syntax"), Blank, Str("w")>>, <<Blank, Word("as"), Blank, Str("t"), L("end", <<";">>)>>,
     <<Word("syntax"), Blank, Str("w"), Blank, Word("as"), Blank, Str("u"), L("end", <<";">>)>>,
     <<Word("syntax"), Blank, Str("w"), L("end", <<";">>)>>,
     <<Word("syntax"), Blank, Str("w"), Blank, Word("as"), Blank, Str("t"), L("end", <<";">>)>>,
     <<Word("definition"), L("end", <<";">>)>>,
     <<Word("unambiguous"), Blank, L("string", <<"'", "\\", "n", "'">>), Blank, Word("+"), Blank, Str("\\")>>,
     <<Word("htmldef"), Blank, Str("w"), Blank, Word("as"), Blank, Str("x"), L("end", <<";">>)>>}
SomeOpenings == [t |-> <<" ", "$", "t", " ">>, j |-> <<"$", "j">>, none |-> <<"x", "$", "j">>]
SomeSymbols == {<<"w">>, <<"t">>}

-----------------------------------------------------------------------------
(* The editor: 1 to 3 are the variables of steps, 4 and 5 those of         *)
(* assertions; 6 forms an implication, 9 is mp_rp, 11 asks for distinct    *)
(* variables, 12 stands for the proof of a tautology, and 14 has a         *)
(* variable in one of its hypotheses, 13 and 17, that its thesis has not;  *)
(* 15 and 16 are temporary variables.                                      *)
SomeEditorLib ==
    [consts |-> {"w", "t", "I"},
     sentences |-> <<<<"w", "p">>, <<"w", "q">>, <<"w", "r">>, <<"w", "u">>, <<"w", "v">>, <<"w", "I", "u", "v">>,
                     <<"t", "u">>, <<"t", "I", "u", "v">>, <<"t", "v">>, <<"t", "I", "u", "u">>,
                     <<"t", "I", "u", "I", "v", "v">>, <<"t", "I", "I", "r", "r", "I", "p", "p">>,
                     <<"t", "I", "u", "u">>, <<"t", "I", "p", "I", "v", "v">>, <<"w", "n1">>, <<"w", "n2">>,
                     <<"t", "p">> >>,
     asses |-> 6 :> Axiom(<<4, 5>>, <<>>, {}) @@ 9 :> Axiom(<<4, 5>>, <<7, 8>>, {}) @@ 10 :> Axiom(<<4>>, <<>>, {})
               @@ 11 :> Axiom(<<4, 5>>, <<>>, {{"u", "v"}}) @@ 12 :> Axiom(<<>>, <<>>, {})
               @@ 14 :> Axiom(<<1, 4, 5>>, <<13, 17>>, {})]
SomeTemporaries == <<{"n1"}, {"n2"}>>
SomeFormulas ==
    {<<"p">>, <<"I", "p", "p">>, <<"I", "r", "r">>, <<"I", "I", "r", "r", "I", "p", "p">>, <<"I", "p", "I", "q", "q">>}
PairsExcluded == {{"p", "q"}}

-----------------------------------------------------------------------------
MCInit ==
    /\ part \in {"engine", "read", "prove", "unify", "parse", "match", "temps", "tokens", "addenda", "editor"}
    /\ Init /\ ReadInit /\ ProofInit /\ UnifInit /\ ParsingInit /\ MatchInit /\ TempInit
    /\ part # "engine" => client = "executor" /\ genProofTree
    /\ part # "parse" => target = "w" /\ Len(grammar) = 6
    /\ part # "match" => allowEmpty
    /\ TokenInit /\ AddendaInit /\ EditorInit
    /\ part # "tokens" => written = <<>>

Only(name) == part = name /\ UNCHANGED part

MCNext ==
    \/ Only("engine") /\ Next /\ UNCHANGED otherVars
    \/ Only("read") /\ ReadNext /\ UNCHANGED <<vars, proofVars, unifVars, parsingVars, matchVars, tempVars, tokenVars, addendaVars, forest>>
    \/ Only("prove") /\ ProofNext /\ UNCHANGED <<vars, readVars, unifVars, parsingVars, matchVars, tempVars, tokenVars, addendaVars, forest>>
    \/ Only("unify") /\ UnifNext /\ UNCHANGED <<vars, readVars, proofVars, parsingVars, matchVars, tempVars, tokenVars, addendaVars, forest>>
    \/ Only("parse") /\ ParsingNext /\ UNCHANGED <<vars, readVars, proofVars, unifVars, matchVars, tempVars, tokenVars, addendaVars, forest>>
    \/ Only("match") /\ MatchNext /\ UNCHANGED <<vars, readVars, proofVars, unifVars, parsingVars, tempVars, tokenVars, addendaVars, forest>>
    \/ Only("temps") /\ TempNext /\ UNCHANGED <<vars, readVars, proofVars, unifVars, parsingVars, matchVars, tokenVars, addendaVars, forest>>
    \/ Only("tokens") /\ TokenNext /\ UNCHANGED <<vars, readVars, proofVars, unifVars, parsingVars, matchVars, tempVars, addendaVars, forest>>
    \/ Only("addenda") /\ AddendaNext /\ UNCHANGED <<vars, readVars, proofVars, unifVars, parsingVars, matchVars, tempVars, tokenVars, forest>>
    \/ Only("editor") /\ EditorNext /\ UNCHANGED <<vars, readVars, proofVars, unifVars, parsingVars, matchVars, tempVars, tokenVars, addendaVars>>

MCSpec == MCInit /\ [][MCNext]_<<part, vars, otherVars>>

(* Unification and matching, of trees in both directions or one, or of     *)
(* sentences that are not parsed, find what there is to find, and nothing  *)
(* else.                                                                   *)
MatchingRight == UnifiersRight /\ MatchesExactly /\ TreeFormsAgree /\ MatchesComplete

(* A file is split into its tokens and comments, whatever it includes, and *)
(* its comments say what was written in them; the Earley parser parses     *)
(* what its grammar derives, the LR parser nothing else, and all of it     *)
(* where no moves of its automaton compete.                                *)
SyntaxExact == TokensExact /\ TokenizersAgree /\ AddendaExact /\ ParsersExact

(* A proof keeps what it proves through compression and back, and the one  *)
(* the editor prints proves the sentence of its step.                      *)
ProofsWritten == ProofFormsAgree /\ EditorProves

=============================================================================
