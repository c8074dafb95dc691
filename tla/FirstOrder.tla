----------------------------- MODULE FirstOrder -----------------------------
(***************************************************************************)
(* First order terms and formulae (provers/fof.cpp), and the provers that  *)
(* carry them over to set.mm (provers/fof_to_mm.cpp, setmm.cpp).           *)
(*                                                                         *)
(* A term is a variable or a functor applied to terms; a formula of fof is *)
(* a tuple headed by its class.  Formulae of set.mm are those of Wff; the  *)
(* arguments of a functor or predicate become explicit substitutions for   *)
(* its formal parameters.  A prover is the sentence it proves, or NoProof: *)
(* it failed, or an exception was thrown.                                  *)
(***************************************************************************)
EXTENDS Wff

CONSTANTS Formals   \* the parameters of each functor and predicate (alloc_functor, alloc_predicate)

V(n) == <<"var", n>>
Fun(n, args) == <<"fun", n, args>>
Pred(n, args) == <<"pred", n, args>>
Eq(s, t) == <<"eq", s, t>>
All(v, f) == <<"all", v, f>>
Ex(v, f) == <<"ex", v, f>>

Quantified(f) == f[1] \in {"all", "ex"}
Applied(f) == f[1] \in {"fun", "pred"}
Parts(f) == IF Applied(f) THEN f[3] ELSE Tail(f)
IsTerm(f) == IsVar(f) \/ f[1] = "fun"

(* collect_vars_functs, collect_vars_functs_preds: the names in a term or formula, bound variables too. *)
RECURSIVE TermSymbols(_)
TermSymbols(t) == IF IsVar(t) THEN {t} ELSE {<<"fun", t[2]>>} \union UNION {TermSymbols(arg) : arg \in Range(t[3])}

AtomSymbols(f) ==
    IF f[1] = "pred" THEN {<<"pred", f[2]>>} \union UNION {TermSymbols(arg) : arg \in Range(f[3])}
    ELSE UNION {TermSymbols(side) : side \in Range(Tail(f))}

RECURSIVE Symbols(_)
Symbols(f) ==
    IF IsTerm(f) THEN TermSymbols(f)
    ELSE IF f[1] \in {"pred", "eq", "T", "F"} THEN AtomSymbols(f)
    ELSE IF Quantified(f) THEN {f[2]} \union Symbols(f[3])
    ELSE UNION {Symbols(part) : part \in Range(Tail(f))}

RECURSIVE HasFreeVar(_, _)
HasFreeVar(f, v) ==
    IF IsVar(f) THEN f = v
    ELSE IF Quantified(f) THEN f[2] # v /\ HasFreeVar(f[3], v)
    ELSE \E i \in DOMAIN Parts(f) : HasFreeVar(Parts(f)[i], v)

Captures_Never(f, v, t) == FALSE

(* replace refuses a term that has the bound variable of any quantifier on its way. *)
RECURSIVE Captures(_, _, _)
Captures(f, v, t) ==
    IF IsVar(f) THEN FALSE
    ELSE IF Quantified(f) THEN f[2] # v /\ (HasFreeVar(t, f[2]) \/ Captures(f[3], v, t))
    ELSE \E i \in DOMAIN Parts(f) : Captures(Parts(f)[i], v, t)

RECURSIVE ReplaceIn(_, _, _)
ReplaceIn(f, v, t) ==
    IF IsVar(f) THEN IF f = v THEN t ELSE f
    ELSE IF Quantified(f) THEN IF f[2] = v THEN f ELSE <<f[1], f[2], ReplaceIn(f[3], v, t)>>
    ELSE LET parts == [i \in DOMAIN Parts(f) |-> ReplaceIn(Parts(f)[i], v, t)]
         IN IF Applied(f) THEN <<f[1], f[2], parts>> ELSE <<f[1]>> \o parts

-----------------------------------------------------------------------------
(* fof_to_mm_ctx: the same formula in the language of set.mm. *)
Cv(t) == <<"cv", t>>
Subst(a, v, f) == <<"sub", a, v, f>>
ClassSubst(a, v, b) == <<"csub", a, v, b>>
NotFree(v, f) == <<"nf", v, f>>
NotFreeClass(v, a) == <<"nfc", v, a>>
IsSet(a) == <<"set", a>>
Replaced(a, v, f, g) == Iff(Subst(a, v, f), g)
ReplacedClass(a, v, b, c) == Eq(ClassSubst(a, v, b), c)

Formal(f, i) == V(Formals[f[2]][i])

RECURSIVE Convert(_), ConvertFrom(_, _)
ConvertFrom(f, i) ==
    IF i > Len(f[3]) THEN V(f[2])
    ELSE (IF f[1] = "fun" THEN ClassSubst(Convert(f[3][i]), Formal(f, i), ConvertFrom(f, i + 1))
                          ELSE Subst(Convert(f[3][i]), Formal(f, i), ConvertFrom(f, i + 1)))
Convert(f) ==
    IF IsVar(f) THEN Cv(f)
    ELSE IF Applied(f) THEN ConvertFrom(f, 1)
    ELSE IF Quantified(f) THEN <<f[1], f[2], Convert(f[3])>>
    ELSE <<f[1]>> \o [i \in 1 .. Len(f) - 1 |-> Convert(f[i + 1])]

x_ == <<"x">>
y_ == <<"y">>
A_ == <<"A">>
B_ == <<"B">>
C_ == <<"C">>
D_ == <<"D">>
E_ == <<"E">>
et == <<"et">>

(* prover_checker throws unless the prover proves the sentence that is expected. *)
Checked(proof, sentence) == IF proof = sentence THEN proof ELSE NoProof

RECURSIVE Sethood(_)
Sethood(t) ==
    IF IsVar(t) THEN IsSet(Cv(t))
    ELSE LET step[i \in 0 .. Len(t[3])] ==
                 IF i = 0 THEN IsSet(V(t[2]))
                 ELSE LET at == Len(t[3]) + 1 - i
                      IN Build(Rule(<<IsSet(B_)>>, IsSet(ClassSubst(A_, x_, B_))),
                               [A |-> Convert(t[3][at]), x |-> Formal(t, at), B |-> ConvertFrom(t, at + 1)],
                               <<step[i - 1]>>)
         IN Checked(step[Len(t[3])], IsSet(Convert(t)))

(* not_free_prover: a proof that v is not free in f, from the structure of f. *)
RECURSIVE NotFreeProver(_, _), NotFreeFrom(_, _, _)
NotFreeFrom(f, v, i) ==
    IF i > Len(f[3]) THEN IF f[1] = "fun" THEN NotFreeClass(v, V(f[2])) ELSE NotFree(v, V(f[2]))
    ELSE LET s == [x |-> v, A |-> Convert(f[3][i]), y |-> Formal(f, i), B |-> ConvertFrom(f, i + 1), ph |-> ConvertFrom(f, i + 1)]
             rule == IF f[1] = "fun" THEN Rule(<<NotFreeClass(x_, B_), NotFreeClass(x_, A_)>>, NotFreeClass(x_, ClassSubst(A_, y_, B_)))
                                     ELSE Rule(<<NotFree(x_, ph), NotFreeClass(x_, A_)>>, NotFree(x_, Subst(A_, y_, ph)))
         IN Build(rule, s, <<NotFreeFrom(f, v, i + 1), NotFreeProver(f[3][i], v)>>)
NotFreeProver(f, v) ==
    LET args == [i \in 1 .. Len(f) - 1 |-> NotFreeProver(f[i + 1], v)]
        s == [x |-> v, ph |-> Convert(f[2]), ps |-> Convert(f[Len(f)])]
        body == [x |-> v, y |-> f[2], ph |-> Convert(f[3])]
        proof ==
          CASE IsVar(f) -> IF f = v THEN NoProof ELSE NotFreeClass(v, Cv(f))
            [] Applied(f) -> NotFreeFrom(f, v, 1)
            [] Quantified(f) ->
                 IF f[2] = v THEN Build(Rule(<<>>, NotFree(x_, <<f[1], x_, ph>>)), body, <<>>)
                 ELSE Build(Rule(<<NotFree(x_, ph)>>, NotFree(x_, <<f[1], y_, ph>>)), body, <<NotFreeProver(f[3], v)>>)
            [] f[1] = "eq" ->
                 Build(Rule(<<NotFreeClass(x_, A_), NotFreeClass(x_, B_)>>, NotFree(x_, Eq(A_, B_))),
                       [x |-> v, A |-> Convert(f[2]), B |-> Convert(f[3])], args)
            [] Len(f) = 1 -> Build(Rule(<<>>, NotFree(x_, f)), [x |-> v], <<>>)
            [] f[1] = "not" -> Build(Rule(<<NotFree(x_, ph)>>, NotFree(x_, Not(ph))), s, args)
            [] OTHER -> Build(Rule(<<NotFree(x_, ph), NotFree(x_, ps)>>, NotFree(x_, <<f[1], ph, ps>>)), s, args)
    IN Checked(proof, IF IsTerm(f) THEN NotFreeClass(v, Convert(f)) ELSE NotFree(v, Convert(f)))

(* internal_not_free_prover: the same for the formal parameter of a functor or predicate. *)
InternalNotFree(t, formal) == NotFreeProver(t, formal)

(* replace_prover: [. term / v ]. f is what f.replace(v, term) becomes. *)
RECURSIVE ReplaceProver(_, _, _), ReplaceFrom(_, _, _, _)
ReplaceFrom(f, v, t, i) ==
    LET class == f[1] = "fun"
        base == [x |-> v, A |-> Convert(t), ph |-> ConvertFrom(f, i), B |-> ConvertFrom(f, i)]
    IN IF i > Len(f[3])
       THEN Build(IF class THEN Rule(<<IsSet(A_), NotFreeClass(x_, B_)>>, ReplacedClass(A_, x_, B_, B_))
                           ELSE Rule(<<IsSet(A_), NotFree(x_, ph)>>, Replaced(A_, x_, ph, ph)),
                  base, <<Sethood(t), NotFreeFrom(f, v, i)>>)
       ELSE LET arg == f[3][i]
                g == ReplaceIn(f, v, t)
                s == [x |-> v, A |-> Convert(t), B |-> Convert(arg), C |-> Convert(g[3][i]), y |-> Formal(f, i),
                      D |-> ConvertFrom(f, i + 1), E |-> ConvertFrom(g, i + 1),
                      ph |-> ConvertFrom(f, i + 1), ps |-> ConvertFrom(g, i + 1)]
                hyps == <<IsSet(A_), NotFreeClass(y_, A_), ReplacedClass(A_, x_, B_, C_)>>
            IN Build(IF class THEN Rule(hyps \o <<ReplacedClass(A_, x_, D_, E_)>>,
                                        ReplacedClass(A_, x_, ClassSubst(B_, y_, D_), ClassSubst(C_, y_, E_)))
                              ELSE Rule(hyps \o <<Replaced(A_, x_, ph, ps)>>,
                                        Replaced(A_, x_, Subst(B_, y_, ph), Subst(C_, y_, ps))),
                     s, <<Sethood(t), InternalNotFree(t, Formal(f, i)), ReplaceProver(arg, v, t), ReplaceFrom(f, v, t, i + 1)>>)
ReplaceProver(f, v, t) ==
    LET g == ReplaceIn(f, v, t)
        arg(i) == ReplaceProver(f[i], v, t)
        s == [x |-> v, A |-> Convert(t), ph |-> Convert(f[2]), ps |-> Convert(f[Len(f)]),
              ch |-> Convert(g[2]), et |-> Convert(g[Len(g)])]
        body == [x |-> v, A |-> Convert(t), y |-> f[2], ph |-> Convert(f[3]), ps |-> Convert(g[3])]
        both == <<Replaced(A_, x_, ph, ch), Replaced(A_, x_, ps, et)>>
        proof ==
          CASE IsVar(f) -> IF f = v THEN Build(Rule(<<IsSet(A_)>>, ReplacedClass(A_, x_, Cv(x_), A_)), [x |-> v, A |-> Convert(t)], <<Sethood(t)>>)
                           ELSE Build(Rule(<<IsSet(A_)>>, ReplacedClass(A_, x_, Cv(y_), Cv(y_))), [x |-> v, A |-> Convert(t), y |-> f], <<Sethood(t)>>)
            [] Applied(f) -> ReplaceFrom(f, v, t, 1)
            [] Quantified(f) ->
                 IF f[2] = v THEN Build(Rule(<<IsSet(A_)>>, Replaced(A_, x_, <<f[1], x_, ph>>, <<f[1], x_, ph>>)), body, <<Sethood(t)>>)
                 ELSE Build(Rule(<<NotFreeClass(y_, A_), Replaced(A_, x_, ph, ps)>>, Replaced(A_, x_, <<f[1], y_, ph>>, <<f[1], y_, ps>>)),
                            body, <<NotFreeProver(t, f[2]), arg(3)>>)
            [] f[1] = "eq" ->
                 Build(Rule(<<IsSet(A_), ReplacedClass(A_, x_, B_, D_), ReplacedClass(A_, x_, C_, E_)>>, Replaced(A_, x_, Eq(B_, C_), Eq(D_, E_))),
                       [x |-> v, A |-> Convert(t), B |-> Convert(f[2]), D |-> Convert(g[2]), C |-> Convert(f[3]), E |-> Convert(g[3])],
                       <<Sethood(t), arg(2), arg(3)>>)
            [] Len(f) = 1 -> Build(Rule(<<IsSet(A_)>>, Replaced(A_, x_, f, f)), [x |-> v, A |-> Convert(t)], <<Sethood(t)>>)
            [] f[1] = "not" -> Build(Rule(<<IsSet(A_), Replaced(A_, x_, ph, ch)>>, Replaced(A_, x_, Not(ph), Not(ch))), s, <<Sethood(t), arg(2)>>)
            [] f[1] = "imp" -> Build(Rule(<<IsSet(A_)>> \o both, Replaced(A_, x_, Imp(ph, ps), Imp(ch, et))), s, <<Sethood(t), arg(2), arg(3)>>)
            [] OTHER -> Build(Rule(both, Replaced(A_, x_, <<f[1], ph, ps>>, <<f[1], ch, et>>)), s, <<arg(2), arg(3)>>)
    IN Checked(proof, IF IsTerm(f) THEN ReplacedClass(Convert(t), v, Convert(f), Convert(g))
                                                  ELSE Replaced(Convert(t), v, Convert(f), Convert(g)))
=============================================================================
