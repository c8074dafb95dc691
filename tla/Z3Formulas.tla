----------------------------- MODULE Z3Formulas ------------------------------
(***************************************************************************)
(* Formulae on their way to first order provers and back                   *)
(* (provers/z3prover2.cpp, z3prover3.cpp, tstp/tstp.cpp).                  *)
(*                                                                         *)
(* In set.mm a variable is bound by its name; a variable of Z3 counts the  *)
(* binders between it and its own, and a quantifier binds several names.   *)
(* A behaviour builds a formula, gives it to Z3, and lets Z3 rearrange it  *)
(* (external): merge quantifiers, gather conjuncts and disjuncts, name the *)
(* equality of formulae in one of two ways, instantiate quantifiers.       *)
(***************************************************************************)
EXTENDS Naturals, Sequences, FiniteSets, SequencesExt

CONSTANTS SetVars,      \* the set variables that every wff variable may depend on, in order
          WffVars,      \* the wff variables
          MaxDepth      \* bound: the height of a formula

VARIABLES formula,      \* in set.mm: <<connective, arguments>>
          expr,         \* in Z3, once it is given; <<>> before
          instantiated
formVars == <<formula, expr, instantiated>>

NoExpr == <<>>
Connectives == {"imp", "and", "or", "iff"}
Quantifiers == {"all", "ex"}
Mapped(e, Op(_)) == <<e[1]>> \o [i \in 1 .. Len(e) - 1 |-> Op(e[i + 1])]

-----------------------------------------------------------------------------
(* z3::forall and z3::exists make the constant a variable of the binder    *)
(* (external).                                                             *)
RECURSIVE Abstracted(_, _, _)
Abstracted(e, name, depth) ==
    CASE e[1] = "const" -> IF e[2] = name THEN <<"bound", depth>> ELSE e
      [] e[1] = "bound" -> e
      [] e[1] = "pred" -> <<"pred", e[2], [i \in DOMAIN e[3] |-> Abstracted(e[3][i], name, depth)]>>
      [] e[1] \in Quantifiers -> <<e[1], e[2], Abstracted(e[3], name, depth + Len(e[2]))>>
      [] OTHER -> Mapped(e, LAMBDA a : Abstracted(a, name, depth))

(* convert_to_z3: every wff variable becomes a predicate of all the set variables. *)
RECURSIVE ConvertToZ3(_)
ConvertToZ3(f) ==
    CASE f[1] = "cv" -> <<"const", f[2]>>
      [] f[1] = "wff" -> <<"pred", f[2], [i \in DOMAIN SetVars |-> <<"const", SetVars[i]>>]>>
      [] f[1] \in Quantifiers -> <<f[1], <<f[2]>>, Abstracted(ConvertToZ3(f[3]), f[2], 0)>>
      [] f[1] = "iff" -> <<"eq", ConvertToZ3(f[2]), ConvertToZ3(f[3])>>
      [] OTHER -> Mapped(f, ConvertToZ3)

(* convert_to_tstp: the same, with the names kept: X for x, ph(X,...) for ph. *)
RECURSIVE ConvertToTstp(_)
ConvertToTstp(f) ==
    CASE f[1] = "cv" -> f
      [] f[1] = "wff" -> <<"pred", f[2], [i \in DOMAIN SetVars |-> <<"cv", SetVars[i]>>]>>
      [] f[1] \in Quantifiers -> <<f[1], <<"cv", f[2]>>, ConvertToTstp(f[3])>>
      [] OTHER -> Mapped(f, ConvertToTstp)

-----------------------------------------------------------------------------
(* The names of the binders that are open, the innermost last. *)
NameOf_Outermost(stack, idx) == stack[1 + idx]
NameOf(stack, idx) == stack[Len(stack) - idx]

IsFormula(e) == e[1] \notin {"const", "bound"}

(* The quantifier that binds several names is written as one for each, the last name innermost. *)
Unmerged(kind, names, body, Var(_)) == FoldRight(LAMBDA name, g : <<kind, Var(name), g>>, names, body)

(* expr_to_pt: a predicate loses its arguments, and a constant and a       *)
(* variable of the same name are the same.                                 *)
RECURSIVE ExprToPt(_, _)
ExprToPt(e, stack) ==
    CASE e[1] = "const" -> <<"cv", e[2]>>
      [] e[1] = "bound" -> <<"cv", NameOf(stack, e[2])>>
      [] e[1] = "pred" -> <<"wff", e[2]>>
      [] e[1] = "eq" /\ IsFormula(e[2]) -> <<"iff", ExprToPt(e[2], stack), ExprToPt(e[3], stack)>>
      [] e[1] \in {"and", "or"} ->
            FoldLeft(LAMBDA f, g : <<e[1], f, ExprToPt(g, stack)>>, ExprToPt(e[2], stack), SubSeq(e, 3, Len(e)))
      [] e[1] \in Quantifiers -> Unmerged(e[1], e[2], ExprToPt(e[3], stack \o e[2]), LAMBDA name : name)
      [] OTHER -> Mapped(e, LAMBDA a : ExprToPt(a, stack))

(* FormulaRecostructor: constants become functors without arguments; it    *)
(* takes every equality for one of terms, and throws where it is not, and  *)
(* at more than two conjuncts.                                             *)
Bullet == "bullet"
Thrown == <<"thrown">>
Threw(parts) == \E i \in DOMAIN parts : parts[i] = Thrown

RECURSIVE ReconstructTerm(_, _)
ReconstructTerm(e, stack) ==
    CASE e[1] = "const" -> <<"functor", e[2], <<>>>>
      [] e[1] = "bound" -> <<"variable", IF e[2] = 0 /\ stack = <<>> THEN Bullet ELSE NameOf(stack, e[2])>>
      [] e[1] = "pred" -> <<"functor", e[2], [i \in DOMAIN e[3] |-> ReconstructTerm(e[3][i], stack)]>>
      [] OTHER -> Thrown

RECURSIVE ReconstructFormula(_, _)
ReconstructFormula(e, stack) ==
    CASE e[1] = "pred" -> <<"pred", e[2], [i \in DOMAIN e[3] |-> ReconstructTerm(e[3][i], stack)]>>
      [] e[1] \in Quantifiers ->
            LET body == ReconstructFormula(e[3], stack \o e[2])
            IN IF body = Thrown THEN Thrown ELSE Unmerged(e[1], e[2], body, LAMBDA name : <<"variable", name>>)
      [] e[1] = "eq" -> LET sides == <<ReconstructTerm(e[2], stack), ReconstructTerm(e[3], stack)>>
                        IN IF Threw(sides) THEN Thrown ELSE <<"eq">> \o sides
      [] e[1] \in {"and", "or"} /\ Len(e) # 3 -> Thrown
      [] OTHER -> LET parts == [i \in 1 .. Len(e) - 1 |-> ReconstructFormula(e[i + 1], stack)]
                  IN IF Threw(parts) THEN Thrown ELSE <<e[1]>> \o parts

-----------------------------------------------------------------------------
AtomicFormulas == {<<"wff", v>> : v \in WffVars} \union {<<"eq", <<"cv", x>>, <<"cv", y>>>> : x, y \in Range(SetVars)}
RECURSIVE Height(_)
Height(f) == IF f[1] \in {"wff", "eq"} THEN 0
             ELSE 1 + (IF f[1] \in Connectives /\ Height(f[2]) > Height(f[3]) THEN Height(f[2]) ELSE Height(f[Len(f)]))

FormInit == formula \in AtomicFormulas /\ expr = NoExpr /\ instantiated = FALSE

Builds ==
    /\ expr = NoExpr
    /\ Height(formula) < MaxDepth
    /\ \/ formula' = <<"not", formula>>
       \/ \E kind \in Quantifiers, x \in Range(SetVars) : formula' = <<kind, x, formula>>
       \/ \E kind \in Connectives, atom \in AtomicFormulas : formula' \in {<<kind, formula, atom>>, <<kind, atom, formula>>}
    /\ UNCHANGED <<expr, instantiated>>

Gives == expr = NoExpr /\ expr' = ConvertToZ3(formula) /\ UNCHANGED <<formula, instantiated>>

(* What Z3 does at the root of an expression, and then anywhere in it. *)
RECURSIVE Lowered(_, _, _)
Lowered(e, depth, term) ==   \* the outermost of the open binders is filled
    CASE e[1] = "bound" -> IF e[2] = depth THEN term ELSE e
      [] e[1] = "const" -> e
      [] e[1] = "pred" -> <<"pred", e[2], [i \in DOMAIN e[3] |-> Lowered(e[3][i], depth, term)]>>
      [] e[1] \in Quantifiers -> <<e[1], e[2], Lowered(e[3], depth + Len(e[2]), term)>>
      [] OTHER -> Mapped(e, LAMBDA a : Lowered(a, depth, term))

Rearranged(e) ==
    CASE e[1] \in Quantifiers /\ e[3][1] = e[1] -> {<<e[1], e[2] \o e[3][2], e[3][3]>>}
      [] e[1] \in {"and", "or"} /\ e[2][1] = e[1] -> {e[2] \o SubSeq(e, 3, Len(e))}
      [] e[1] = "eq" /\ IsFormula(e[2]) -> {<<"iff", e[2], e[3]>>}
      [] OTHER -> {}
RECURSIVE SomewhereRearranged(_)
SomewhereRearranged(e) ==
    Rearranged(e) \union
    (IF e[1] \in {"const", "bound", "pred"} THEN {}
     ELSE IF e[1] \in Quantifiers THEN {<<e[1], e[2], b>> : b \in SomewhereRearranged(e[3])}
     ELSE UNION {{[e EXCEPT ![i] = a] : a \in SomewhereRearranged(e[i])} : i \in 2 .. Len(e)})

Rearranges == expr # NoExpr /\ expr' \in SomewhereRearranged(expr) /\ UNCHANGED <<formula, instantiated>>

Instantiates ==
    /\ expr # NoExpr
    /\ expr[1] \in Quantifiers
    /\ Len(expr[2]) = 1
    /\ \E x \in Range(SetVars) : expr' = Lowered(expr[3], 0, <<"const", x>>)
    /\ instantiated' = TRUE
    /\ UNCHANGED formula

FormNext == Builds \/ Gives \/ Rearranges \/ Instantiates

-----------------------------------------------------------------------------
(* Names that bind turned into counts; one quantifier for each name, and   *)
(* one equality for formulae.                                              *)
Kind1(e) == IF e[1] = "iff" THEN "eq" ELSE e[1]
Counted(name, names) ==
    IF name \notin Range(names) THEN <<"const", name>>
    ELSE <<"bound", Len(names) - CHOOSE i \in DOMAIN names : names[i] = name /\ \A j \in i + 1 .. Len(names) : names[j] # name>>

RECURSIVE Rebound(_, _)
Rebound(f, names) ==
    CASE f[1] \in {"variable", "cv"} -> Counted(f[2], names)
      [] f[1] = "functor" /\ f[3] = <<>> -> <<"const", f[2]>>
      [] f[1] \in {"pred", "functor"} /\ f[3] # <<>> -> <<"pred", f[2], [i \in DOMAIN f[3] |-> Rebound(f[3][i], names)]>>
      [] f[1] \in Quantifiers -> <<f[1], f[2][2], Rebound(f[3], Append(names, f[2][2]))>>
      [] OTHER -> <<Kind1(f)>> \o [i \in 1 .. Len(f) - 1 |-> Rebound(f[i + 1], names)]

RECURSIVE Plain(_)
Plain(e) ==
    CASE e[1] \in {"const", "bound", "pred"} -> e
      [] e[1] \in Quantifiers -> Unmerged(e[1], e[2], Plain(e[3]), LAMBDA name : name)
      [] OTHER -> <<Kind1(e)>> \o [i \in 1 .. Len(e) - 1 |-> Plain(e[i + 1])]

(* A formula given to Z3 comes back as it was, however Z3 gathers its      *)
(* conjuncts and merges its quantifiers, as long as none is instantiated   *)
(* (z3prover2.cpp:14-18 says as much); what FormulaRecostructor accepts    *)
(* means what the expression meant, instantiated or not; and the text for  *)
(* the other provers binds the same variables as the expression for Z3.    *)
FormulasReturn ==
    expr # NoExpr =>
       /\ ~instantiated => ExprToPt(expr, <<>>) = formula
       /\ ReconstructFormula(expr, <<>>) # Thrown => Rebound(ReconstructFormula(expr, <<>>), <<>>) = Plain(expr)
       /\ Rebound(ConvertToTstp(formula), <<>>) = Plain(ConvertToZ3(formula))

=============================================================================
