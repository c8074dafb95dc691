------------------------------- MODULE Addenda --------------------------------
(***************************************************************************)
(* The comments of a database that the reader interprets (mm/reader.cpp):  *)
(* the last $t comment holds the typesetting, all $j comments together say *)
(* how sentences are parsed.  A character is here a letter or a word; the  *)
(* comments are written as phrases of lexical items.                       *)
(***************************************************************************)
EXTENDS Naturals, Sequences, SequencesExt

CONSTANTS
    Phrases,        \* bound: what is written at once: sequences of items, each with a kind and its text
    Openings,       \* bound: how comments begin
    KnownSymbols,   \* the symbols of the library
    MaxPhrases      \* bound: the phrases of all the comments

VARIABLES
    t_comment, j_comment,   \* the texts the reader keeps
    opened,                 \* how the comment that is being written began, or ""
    phrases,                \* the phrases written
    said                    \* what is written in this comment, and in those that are kept

addendaVars == <<t_comment, j_comment, opened, phrases, said>>

Blanks == {" "}
Quotes == {"'", "\""}
Spelled(items) == FlattenSeq([i \in DOMAIN items |-> items[i].text])

-----------------------------------------------------------------------------
(* process_comment, of the whole text of a comment. *)
ProcessComment(text) ==
    LET visible == {i \in DOMAIN text : text[i] \notin Blanks}
        letters == {i \in visible : text[i] # "$"}
        first == Min(letters)
        begins == letters # {} /\ \E i \in visible : i < first
        rest == SubSeq(text, first + 1, Len(text))
    IN [t |-> IF begins /\ text[first] = "t" THEN rest ELSE t_comment,
        j |-> IF begins /\ text[first] = "j" THEN j_comment \o rest ELSE j_comment]

-----------------------------------------------------------------------------
(* parse_comment: instructions, each a sequence of tokens; the first part  *)
(* of a token says whether it is a string.                                 *)
NothingParsed == [mode |-> "normal", code |-> <<>>, tokens |-> <<>>, token |-> <<>>, thrown |-> FALSE]
PushLetter(st, c) == [st EXCEPT !.token = Append(@, c)]
EndToken(st, isString) == [st EXCEPT !.tokens = Append(@, <<isString, st.token>>), !.token = <<>>]
EndWord(st) == IF st.token = <<>> THEN st ELSE EndToken(st, FALSE)
EndInstruction(st) == [st EXCEPT !.code = Append(@, st.tokens), !.tokens = <<>>, !.mode = "normal"]

NormalChar(st, c) ==
    CASE c \in Blanks -> EndWord(st)
      [] c = ";" -> EndInstruction(EndWord(st))
      [] c = "/" -> [st EXCEPT !.mode = "slash"]
      [] c \in Quotes -> IF st.token # <<>> THEN [st EXCEPT !.thrown = TRUE] ELSE [st EXCEPT !.mode = c]
      [] OTHER -> PushLetter(st, c)

AfterStar_Forgets(c) == IF c = "/" THEN "normal" ELSE "comment"
AfterStar(c) == IF c = "/" THEN "normal" ELSE IF c = "*" THEN "star" ELSE "comment"

CommentChar(st, c) ==
    CASE st.thrown -> st
      [] ~st.thrown /\ st.mode = "normal" -> NormalChar(st, c)
      [] ~st.thrown /\ st.mode = "comment" -> IF c = "*" THEN [st EXCEPT !.mode = "star"] ELSE st
      [] ~st.thrown /\ st.mode = "star" -> [st EXCEPT !.mode = AfterStar(c)]
      [] ~st.thrown /\ st.mode = "slash" ->
            IF c = "*" THEN [st EXCEPT !.mode = "comment"] ELSE NormalChar([PushLetter(st, "/") EXCEPT !.mode = "normal"], c)
      [] ~st.thrown /\ st.mode \in Quotes ->
            IF c = st.mode THEN [EndToken(st, TRUE) EXCEPT !.mode = "string over"] ELSE PushLetter(st, c)
      [] ~st.thrown /\ st.mode = "string over" ->
            IF c = ";" THEN EndInstruction(st)
            ELSE IF c \in Blanks THEN [st EXCEPT !.mode = "normal"] ELSE [st EXCEPT !.thrown = TRUE]

ParseComment(text) == FoldLeft(CommentChar, NothingParsed, text)

-----------------------------------------------------------------------------
(* escape_string_literal and decode_string: strings with a plus between. *)
Escaped(text) ==
    LET Char(st, c) ==
            IF ~st.escape THEN IF c = "\\" THEN [st EXCEPT !.escape = TRUE] ELSE [st EXCEPT !.text = Append(@, c)]
            ELSE [text |-> Append(st.text, IF c = "n" THEN "newline" ELSE c), escape |-> FALSE,
                  thrown |-> st.thrown \/ c \notin {"n", "\\"}]
        end == FoldLeft(Char, [text |-> <<>>, escape |-> FALSE, thrown |-> FALSE], text)
    IN [text |-> end.text, thrown |-> end.thrown \/ end.escape]

DecodeString(tokens, escape) ==
    LET Value(tok) == IF escape THEN Escaped(tok[2]) ELSE [text |-> tok[2], thrown |-> FALSE]
        strings == [i \in 1 .. (Len(tokens) + 1) \div 2 |-> Value(tokens[2 * i - 1])]
    IN [text |-> FlattenSeq([i \in DOMAIN strings |-> strings[i].text]),
        thrown |-> \/ Len(tokens) % 2 = 0
                   \/ \E i \in DOMAIN tokens : tokens[i][1] # (i % 2 = 1) \/ (i % 2 = 0 /\ tokens[i][2] # <<"+">>)
                   \/ \E i \in DOMAIN strings : strings[i].thrown]

(* What one instruction adds to an addendum, or that it throws. *)
NoAddendum == [syntax |-> << >>, unambiguous |-> <<>>, defs |-> << >>, outcome |-> "ok"]
Throws(add) == [add EXCEPT !.outcome = "thrown"]
As(tokens, from) == ~tokens[from][1] /\ tokens[from + 1][1] /\ tokens[from][2] = <<"as">>

SyntaxInstruction(add, tokens) ==
    IF Len(tokens) \notin {2, 4} \/ ~tokens[2][1] \/ (Len(tokens) = 4 /\ ~As(tokens, 3)) THEN Throws(add)
    ELSE LET tok1 == tokens[2][2]
             tok2 == IF Len(tokens) = 4 THEN tokens[4][2] ELSE tok1
         IN IF ~({tok1, tok2} \subseteq KnownSymbols) THEN Throws(add)
            ELSE [add EXCEPT !.syntax = tok1 :> tok2 @@ @]

IgnoredCommands == {<<"definition">>}   \* and fourteen others
ParseJInstruction(add, tokens) ==
    IF add.outcome # "ok" THEN add
    ELSE IF tokens = <<>> \/ tokens[1][1] THEN Throws(add)
    ELSE CASE tokens[1][2] = <<"syntax">> -> SyntaxInstruction(add, tokens)
           [] tokens[1][2] = <<"unambiguous">> ->
                LET value == DecodeString(Tail(tokens), TRUE)
                IN IF value.thrown THEN Throws(add) ELSE [add EXCEPT !.unambiguous = value.text]
           [] tokens[1][2] \in IgnoredCommands -> add
           [] OTHER -> Throws(add)

(* The definitions of the symbols are three such tables; the instructions  *)
(* that set one string do it as `unambiguous' does.                        *)
DefInstruction(add, tokens) ==
    IF Len(tokens) < 4 \/ Len(tokens) % 2 # 0 \/ ~tokens[2][1] \/ ~As(tokens, 3) THEN Throws(add)
    ELSE LET value == DecodeString(SubSeq(tokens, 4, Len(tokens)), FALSE)
         IN IF value.thrown \/ tokens[2][2] \notin KnownSymbols THEN Throws(add)
            ELSE [add EXCEPT !.defs = tokens[2][2] :> value.text @@ @]

(* An unknown command throws a pointer, which no handler expects. *)
ParseTInstruction(add, tokens) ==
    IF add.outcome # "ok" THEN add
    ELSE IF tokens = <<>> \/ tokens[1][1] THEN Throws(add)
    ELSE IF tokens[1][2] = <<"htmldef">> THEN DefInstruction(add, tokens)
    ELSE [add EXCEPT !.outcome = "pointer thrown"]

(* What Reader::run makes of the comments it kept. *)
ParsingAddendum ==
    LET parsed == ParseComment(j_comment)
    IN IF parsed.thrown THEN Throws(NoAddendum) ELSE FoldLeft(ParseJInstruction, NoAddendum, parsed.code)
TypesettingAddendum ==
    LET parsed == ParseComment(t_comment)
    IN IF parsed.thrown THEN Throws(NoAddendum) ELSE FoldLeft(ParseTInstruction, NoAddendum, parsed.code)

-----------------------------------------------------------------------------
AddendaInit ==
    /\ t_comment = <<>> /\ j_comment = <<>>
    /\ opened = "" /\ phrases = 0
    /\ said = [now |-> <<>>, t |-> <<>>, j |-> <<>>]

BeginComment(prefix) ==
    /\ opened = "" /\ opened' = prefix
    /\ said' = [said EXCEPT !.now = <<>>]
    /\ UNCHANGED <<t_comment, j_comment, phrases>>

WritePhrase(phrase) ==
    /\ opened # "" /\ phrases < MaxPhrases
    /\ phrases' = phrases + 1
    /\ said' = [said EXCEPT !.now = @ \o phrase]
    /\ UNCHANGED <<t_comment, j_comment, opened>>

EndComment ==
    /\ opened # "" /\ opened' = ""
    /\ LET kept == ProcessComment(Openings[opened] \o Spelled(said.now))
       IN t_comment' = kept.t /\ j_comment' = kept.j
    /\ said' = [said EXCEPT !.t = IF opened = "t" THEN said.now ELSE @, !.j = IF opened = "j" THEN @ \o said.now ELSE @]
    /\ UNCHANGED phrases

AddendaNext ==
    \/ \E prefix \in DOMAIN Openings : BeginComment(prefix)
    \/ \E phrase \in Phrases : WritePhrase(phrase)
    \/ EndComment

AddendaSpec == AddendaInit /\ [][AddendaNext]_addendaVars

-----------------------------------------------------------------------------
(* The reference: the instructions that a sequence of items means.  open   *)
(* says that the last word may go on, over that a string has just ended.   *)
Understood(items) ==
    LET Item(res, item) ==
            IF res.fails THEN res
            ELSE IF item.kind = "blank" THEN [res EXCEPT !.open = FALSE, !.over = FALSE]
            ELSE IF item.kind = "end" THEN
                [res EXCEPT !.code = Append(@, res.words), !.words = <<>>, !.open = FALSE, !.over = FALSE]
            ELSE IF res.over \/ (item.kind = "string" /\ res.open) THEN [res EXCEPT !.fails = TRUE]
            ELSE IF item.kind = "remark" THEN res
            ELSE IF item.kind = "string" THEN
                [res EXCEPT !.words = Append(@, <<TRUE, Tail(Front(item.text))>>), !.over = TRUE]
            ELSE IF res.open THEN [res EXCEPT !.words = Append(Front(@), <<FALSE, Last(@)[2] \o item.text>>)]
            ELSE [res EXCEPT !.words = Append(@, <<FALSE, item.text>>), !.open = TRUE]
    IN FoldLeft(Item, [code |-> <<>>, words |-> <<>>, open |-> FALSE, over |-> FALSE, fails |-> FALSE], items)

(* What is read from the comments, cut and joined as they are, is what was *)
(* written in the last $t comment and in all $j comments in order: no end  *)
(* of a string, a remark or a comment is taken for that of another         *)
(* (Reader::process_comment, Reader::parse_comment).                       *)
CodeExact(text, items) ==
    LET parsed == ParseComment(text)
        meant == Understood(items)
    IN parsed.thrown = meant.fails /\ (~meant.fails => parsed.code = meant.code)

(* The instructions that can be obeyed. *)
AWord(x) == <<FALSE, <<x>> >>
AString(text) == <<TRUE, text>>
Joined(tokens) == /\ Len(tokens) % 2 = 1
                  /\ \A i \in DOMAIN tokens : IF i % 2 = 1 THEN tokens[i][1] ELSE tokens[i] = AWord("+")
Escapes(text) == LET Before(i) == Cardinality({j \in 1 .. i - 1 : \A k \in j .. i - 1 : text[k] = "\\"})
                 IN {i \in DOMAIN text : text[i] = "\\" /\ Before(i) % 2 = 0}
WellEscaped(text) == \A i \in Escapes(text) : i < Len(text) /\ text[i + 1] \in {"n", "\\"}

AboutSyntax(tokens, sym) ==
    \/ tokens = <<AWord("syntax"), AString(sym)>>
    \/ \E other \in KnownSymbols : tokens = <<AWord("syntax"), AString(sym), AWord("as"), AString(other)>>
LegalJ(tokens) ==
    \/ \E sym \in KnownSymbols : AboutSyntax(tokens, sym)
    \/ /\ Len(tokens) > 0 /\ tokens[1] = AWord("unambiguous") /\ Joined(Tail(tokens))
       /\ \A i \in 2 .. Len(tokens) : tokens[i][1] => WellEscaped(tokens[i][2])
    \/ \E command \in IgnoredCommands : Len(tokens) > 0 /\ tokens[1] = <<FALSE, command>>
LegalT(tokens) ==
    \E sym \in KnownSymbols : /\ IsPrefix(<<AWord("htmldef"), AString(sym), AWord("as")>>, tokens)
                             /\ Joined(SubSeq(tokens, 4, Len(tokens)))
Obeyed(items, Legal(_)) ==
    LET meant == Understood(items) IN ~meant.fails /\ \A i \in DOMAIN meant.code : Legal(meant.code[i])

(* A comment is interpreted if and only if all its instructions can be     *)
(* obeyed, and of two that speak of the same symbol the last one counts    *)
(* (Reader::parse_j_code, Reader::parse_t_code).                           *)
LastWord(code) ==
    \A i \in DOMAIN code, sym \in KnownSymbols :
       AboutSyntax(code[i], sym) /\ (\A j \in i + 1 .. Len(code) : ~AboutSyntax(code[j], sym))
          => ParsingAddendum.syntax[sym] = Last(code[i])[2]

AddendaExact ==
    opened = "" =>
        /\ CodeExact(t_comment, said.t) /\ CodeExact(j_comment, said.j)
        /\ (TypesettingAddendum.outcome = "ok") = Obeyed(said.t, LegalT)
        /\ (ParsingAddendum.outcome = "ok") = Obeyed(said.j, LegalJ)
        /\ ParsingAddendum.outcome = "ok" => LastWord(Understood(said.j).code)

=============================================================================
