--------------------------- MODULE OldUnification ---------------------------
(***************************************************************************)
(* Matching a template with a sentence, symbol by symbol, without parsing  *)
(* either (old/unification.cpp).                                           *)
(***************************************************************************)
EXTENDS Naturals, Sequences, FiniteSets, SequencesExt

CONSTANTS
    TokConsts,    \* constants
    TokVars,      \* variables
    MaxTempl,     \* bound: the symbols of a template
    MaxSent       \* and of a sentence

VARIABLES templ, sent, allowEmpty

matchVars == <<templ, sent, allowEmpty>>

(* unify_old_internal: a variable without match takes every prefix of what *)
(* is left, the shortest first.                                            *)
RECURSIVE UnifyOldInternal(_, _, _)
UnifyOldInternal(s, t, match) ==
    IF t = <<>> THEN IF s = <<>> THEN <<match>> ELSE <<>>
    ELSE LET tok == t[1]
             Skips(n) == UnifyOldInternal(SubSeq(s, n + 1, Len(s)), Tail(t), match @@ (tok :> SubSeq(s, 1, n)))
         IN IF tok \in TokConsts
            THEN IF s # <<>> /\ s[1] = tok THEN UnifyOldInternal(Tail(s), Tail(t), match) ELSE <<>>
            ELSE IF tok \in DOMAIN match
            THEN IF IsPrefix(match[tok], s)
                 THEN UnifyOldInternal(SubSeq(s, Len(match[tok]) + 1, Len(s)), Tail(t), match) ELSE <<>>
            ELSE FlattenSeq([i \in 1 .. Len(s) + 1 |-> IF i = 1 /\ ~allowEmpty THEN <<>> ELSE Skips(i - 1)])

(* unify_old_internal_quick: the constants alone, in order. *)
RECURSIVE Quick(_, _)

Quick(s, t) ==
    IF t = <<>> THEN TRUE
    ELSE IF t[1] \notin TokConsts THEN Quick(s, Tail(t))
    ELSE IF s = <<>> THEN FALSE
    ELSE IF s[1] = t[1] THEN Quick(Tail(s), Tail(t)) ELSE Quick(Tail(s), t)

UnifyOld == IF Quick(sent, templ) THEN UnifyOldInternal(sent, templ, << >>) ELSE <<>>

MatchInit == templ = <<>> /\ sent = <<>> /\ allowEmpty \in BOOLEAN

ExtendTempl(tok) == Len(templ) < MaxTempl /\ sent = <<>> /\ templ' = Append(templ, tok) /\ UNCHANGED <<sent, allowEmpty>>
ExtendSent(tok) == Len(sent) < MaxSent /\ sent' = Append(sent, tok) /\ UNCHANGED <<templ, allowEmpty>>

MatchNext == \E tok \in TokConsts \union TokVars : ExtendTempl(tok) \/ ExtendSent(tok)

MatchSpec == MatchInit /\ [][MatchNext]_matchVars

-----------------------------------------------------------------------------
Pieces == {SubSeq(sent, i, j) : i \in 1 .. Len(sent) + 1, j \in 0 .. Len(sent)}
Replaced(m) == FlattenSeq([i \in DOMAIN templ |-> IF templ[i] \in TokConsts THEN <<templ[i]>> ELSE m[templ[i]]])

(* The matches are the ways to replace the variables of the template that  *)
(* give the sentence, each of them once, and the quick test never rules    *)
(* one out (unify_old).                                                    *)
MatchesComplete ==
    /\ IsInjective(UnifyOld)
    /\ ToSet(UnifyOld) = {m \in [ToSet(templ) \ TokConsts -> Pieces] :
                            Replaced(m) = sent /\ (allowEmpty \/ \A v \in DOMAIN m : m[v] # <<>>)}

=============================================================================
