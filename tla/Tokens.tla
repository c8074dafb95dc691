------------------------------- MODULE Tokens -------------------------------
(***************************************************************************)
(* The tokenizer of databases (mm/tokenizer.cpp).  A file is written as a  *)
(* sequence of items, which the tokenizer reads one character at a time; a *)
(* file it includes is read by a tokenizer of its own, the cascade.        *)
(***************************************************************************)
EXTENDS Naturals, Sequences, SequencesExt

CONSTANTS
    Items,      \* bound: what is written, each with a kind and its characters
    Files,      \* the files that can be included: sequences of items
    MaxItems    \* bound: the length of the file

VARIABLES
    written,    \* the file
    readers,    \* the tokenizers, the one that is reading last
    returned,   \* what next() has returned: whether it is a comment, and the text
    outcome     \* "running", "ended" or "thrown"

tokenVars == <<written, readers, returned, outcome>>

Whites == {" "}
ValidChars == {"a", "b", "f", "g", "(", ")", "[", "]"}

Rendered(item) ==
    CASE item.kind = "comment" -> <<"$", "(">> \o item.body \o <<"$", ")">>
      [] item.kind = "include" -> <<"$", "[", " ">> \o item.body \o <<" ", "$", "]">>
      [] OTHER -> item.body
Text(items) == FlattenSeq([i \in DOMAIN items |-> Rendered(items[i])])

-----------------------------------------------------------------------------
(* mode is where next() is: in the text, after a dollar, or in a comment or *)
(* inclusion, where found says that the last character was a dollar.       *)
FileTokenizer(text) == [rest |-> text, white |-> TRUE, buf |-> <<>>, mode |-> "text", found |-> FALSE, content |-> <<>>]

fin == Last(readers)
Becomes(reader) == readers' = Append(Front(readers), reader)
Consumed == [fin EXCEPT !.rest = Tail(@)]
(* The next character, if there is one, in this mode. *)
GetChar(mode, chars) == outcome = "running" /\ fin.mode = mode /\ fin.rest # <<>> /\ Head(fin.rest) \in chars

Throw == outcome' = "thrown" /\ UNCHANGED <<written, readers, returned>>
Return(comment, text) == returned' = Append(returned, <<comment, text>>)

(* finalize_token *)
FinalizeToken == [fin EXCEPT !.buf = <<>>, !.white = TRUE]

FileEnd ==
    /\ outcome = "running" /\ fin.rest = <<>>
    /\ IF fin.mode # "text" THEN Throw
       ELSE IF ~fin.white
       THEN Becomes(FinalizeToken) /\ Return(FALSE, fin.buf) /\ UNCHANGED <<written, outcome>>
       ELSE IF Len(readers) > 1
       THEN readers' = Front(readers) /\ UNCHANGED <<written, returned, outcome>>   \* delete cascade
       ELSE outcome' = "ended" /\ UNCHANGED <<written, readers, returned>>

PlainChar ==
    /\ GetChar("text", ValidChars)
    /\ Becomes([Consumed EXCEPT !.buf = Append(@, Head(fin.rest)), !.white = FALSE])
    /\ UNCHANGED <<written, returned, outcome>>

Whitespace ==
    /\ GetChar("text", Whites)
    /\ IF fin.white THEN Becomes(Consumed) /\ UNCHANGED returned
       ELSE Becomes([Consumed EXCEPT !.buf = <<>>, !.white = TRUE]) /\ Return(FALSE, fin.buf)
    /\ UNCHANGED <<written, outcome>>

Dollar ==
    /\ GetChar("text", {"$"})
    /\ IF fin.white THEN Becomes([Consumed EXCEPT !.mode = "dollar"]) /\ UNCHANGED <<written, returned, outcome>>
       ELSE Throw

Forbidden == GetChar("text", {"!"}) /\ Throw

(* The character after a dollar: a comment, an inclusion or a token. *)
Opening ==
    /\ GetChar("dollar", {"(", "["})
    /\ Becomes([Consumed EXCEPT !.mode = IF Head(fin.rest) = "(" THEN "comment" ELSE "inclusion",
                                !.found = FALSE, !.content = <<>>])
    /\ UNCHANGED <<written, returned, outcome>>

Keyword ==
    /\ GetChar("dollar", {"$"} \union (ValidChars \ {"(", "[", ")", "]"}))
    /\ Becomes([Consumed EXCEPT !.mode = "text", !.buf = @ \o <<"$", Head(fin.rest)>>, !.white = FALSE])
    /\ UNCHANGED <<written, returned, outcome>>

BadDollar == GetChar("dollar", {")", "]", "!"} \union Whites) /\ Throw

(* A character in a comment or an inclusion.  A dollar is kept back until  *)
(* the next character says whether it is part of the content.              *)
Closer == [comment |-> ")", inclusion |-> "]"]
Opener == [comment |-> "(", inclusion |-> "["]
Within(mode) == GetChar(mode, {"$", "!"} \union Whites \union ValidChars)

Content_Forgetful(mode) ==
    LET c == Head(fin.rest) IN
    /\ Within(mode) /\ ~(fin.found /\ c \in {Opener[mode], Closer[mode]})
    /\ Becomes([Consumed EXCEPT !.found = (c = "$" /\ ~fin.found), !.content = @ \o (IF fin.found THEN <<"$">> ELSE <<>>)
                                                      \o (IF c = "$" THEN <<>> ELSE <<c>>)])
    /\ UNCHANGED <<written, returned, outcome>>

Content(mode) ==
    LET c == Head(fin.rest) IN
    /\ Within(mode) /\ ~(fin.found /\ c \in {Opener[mode], Closer[mode]})
    /\ Becomes([Consumed EXCEPT !.found = (c = "$"), !.content = @ \o (IF fin.found THEN <<"$">> ELSE <<>>)
                                                      \o (IF c = "$" THEN <<>> ELSE <<c>>)])
    /\ UNCHANGED <<written, returned, outcome>>

Reopened(mode) == Within(mode) /\ fin.found /\ Head(fin.rest) = Opener[mode] /\ Throw

CloseComment ==
    /\ Within("comment") /\ fin.found /\ Head(fin.rest) = ")"
    /\ Becomes([Consumed EXCEPT !.mode = "text", !.white = TRUE])
    /\ IF fin.content = <<>> THEN UNCHANGED returned ELSE Return(TRUE, fin.content)
    /\ UNCHANGED <<written, outcome>>

(* The file name is trimmed, and relative to the outermost file; the names *)
(* here have no blanks within.                                             *)
Trimmed(content) == SelectSeq(content, LAMBDA c : c \notin Whites)
CloseInclusion ==
    /\ Within("inclusion") /\ fin.found /\ Head(fin.rest) = "]"
    /\ readers' = Front(readers) \o <<[Consumed EXCEPT !.mode = "text", !.white = TRUE],
                                      FileTokenizer(Text(Files[Trimmed(fin.content)]))>>
    /\ UNCHANGED <<written, returned, outcome>>

-----------------------------------------------------------------------------
(* tokenize(), of one string. *)
Tokenize(text) ==
    LET Char(res, c) ==
            IF res.thrown \/ c \notin ValidChars \union Whites THEN [res EXCEPT !.thrown = TRUE]
            ELSE IF c \in ValidChars THEN [res EXCEPT !.tok = Append(@, c)]
            ELSE IF res.tok = <<>> THEN res
            ELSE [res EXCEPT !.toks = Append(@, res.tok), !.tok = <<>>]
    IN FoldLeft(Char, [toks |-> <<>>, tok |-> <<>>, thrown |-> FALSE], Append(text, " "))

-----------------------------------------------------------------------------
(* An item that is cut short is the last of its file. *)
Written == {items \in BoundedSeq(Items, MaxItems) : \A i \in 1 .. Len(items) - 1 : items[i].kind # "cut"}

TokenInit ==
    /\ written \in Written
    /\ readers = <<FileTokenizer(Text(written))>>
    /\ returned = <<>> /\ outcome = "running"

TokenNext ==
    \/ FileEnd \/ PlainChar \/ Whitespace \/ Dollar \/ Forbidden \/ Opening \/ Keyword \/ BadDollar
    \/ \E mode \in {"comment", "inclusion"} : Content(mode) \/ Reopened(mode)
    \/ CloseComment \/ CloseInclusion

TokenSpec == TokenInit /\ [][TokenNext]_tokenVars

-----------------------------------------------------------------------------
(* The reference: what a sequence of items means.  open says that the last *)
(* token may go on; the token a failure interrupts is never returned.      *)
Interrupted(res) == [toks |-> IF res.open THEN Front(res.toks) ELSE res.toks, open |-> FALSE, fails |-> TRUE]
Reopens(body) == \E i \in 1 .. Len(body) - 1 : body[i] = "$" /\ body[i + 1] = "("

RECURSIVE Meaning(_)
Meaning(items) ==
    LET Item(res, item) ==
            IF res.fails THEN res
            ELSE IF item.kind = "space" THEN [res EXCEPT !.open = FALSE]
            ELSE IF item.kind = "token" THEN
                IF res.open THEN [res EXCEPT !.toks = Append(Front(@), <<FALSE, Last(@)[2] \o item.body>>)]
                ELSE [res EXCEPT !.toks = Append(@, <<FALSE, item.body>>), !.open = TRUE]
            ELSE IF res.open \/ item.kind \in {"stray", "cut"} THEN Interrupted(res)
            ELSE IF item.kind = "keyword" THEN [res EXCEPT !.toks = Append(@, <<FALSE, item.body>>), !.open = TRUE]
            ELSE IF item.kind = "comment" THEN
                IF Reopens(item.body) THEN Interrupted(res)
                ELSE [res EXCEPT !.toks = IF item.body = <<>> THEN @ ELSE Append(@, <<TRUE, item.body>>)]
            ELSE LET included == Meaning(Files[item.body])
                 IN [toks |-> res.toks \o included.toks, open |-> FALSE, fails |-> included.fails]
    IN FoldLeft(Item, [toks |-> <<>>, open |-> FALSE, fails |-> FALSE], items)

(* The tokenizer returns the tokens and comments that were written, those  *)
(* of an included file in its place, and throws where the file is not well *)
(* formed: a token is lost, split, joined with the one in another file or  *)
(* taken for the end of a file nowhere (FileTokenizer::next).              *)
TokensExact ==
    outcome # "running" =>
        LET meant == Meaning(written)
        IN returned = meant.toks /\ (outcome = "thrown" <=> meant.fails)

(* Without dollars, tokenize() finds the same tokens. *)
TokenizersAgree ==
    outcome = "ended" /\ (\A i \in DOMAIN written : written[i].kind \in {"token", "space"}) =>
        LET split == Tokenize(Text(written))
        IN ~split.thrown /\ returned = [i \in DOMAIN split.toks |-> <<FALSE, split.toks[i]>>]

=============================================================================
