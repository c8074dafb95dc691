-------------------------------- MODULE Prenex ---------------------------------
(***************************************************************************)
(* The quantifiers of a formula moved to its front, with the parameters of *)
(* its wff variables (ReconstructFOF::find_params of provers/tstp/tstp.cpp, *)
(* the command quant_cnf).  A quantifier gets a fresh variable, here its   *)
(* place in the prefix.                                                    *)
(***************************************************************************)
EXTENDS Z3Formulas

\* Pairs of a set variable and a wff variable that are distinct.
KnownDists == {<<"x", "ps">>}

NothingFound == [open |-> << >>, params |-> << >>, quants |-> <<>>, outcome |-> "ok"]
Dual(kind) == IF kind = "all" THEN "ex" ELSE "all"
WithOutcome(found, outcome) == [found EXCEPT !.outcome = outcome]

Turned_Never(kind, i, neg) == neg
(* Whether an argument is under an odd number of negations. *)
Turned(kind, i, neg) == IF kind = "not" \/ (kind = "imp" /\ i = 1) THEN ~neg ELSE neg

(* What quantifiers are moved out of; any other wff is kept whole, for     *)
(* recognize("wff ph") accepts it: it counts as a wff variable with the    *)
(* name of its outermost constructor.                                      *)
Opaque(f) == f[1] \notin {"not", "imp", "and", "or"} \union Quantifiers
VariableOf(f) == IF f[1] = "wff" THEN f[2] ELSE f[1]

(* A wff variable may depend on all open variables that are not distinct   *)
(* from it, and must depend on the same wherever it occurs.                *)
AtVariable(found, v) ==
    LET vars == {x \in DOMAIN found.open : <<x, v>> \notin KnownDists}
    IN IF v \in DOMAIN found.params /\ found.params[v] # vars THEN WithOutcome(found, "assert")
       ELSE [found EXCEPT !.params = (v :> vars) @@ @]

Opened(found, kind, x, neg) ==
    [found EXCEPT !.quants = Append(@, IF neg THEN Dual(kind) ELSE kind), !.open = (x :> Len(found.quants) + 1) @@ @]

RECURSIVE FindParams(_, _, _)
FindParams(found, f, neg) ==
    IF found.outcome # "ok" THEN found
    ELSE IF f[1] \in Quantifiers
    THEN IF f[2] \in DOMAIN found.open THEN WithOutcome(found, "assert")
         ELSE [FindParams(Opened(found, f[1], f[2], neg), f[3], neg) EXCEPT !.open = found.open]
    ELSE IF Opaque(f) THEN AtVariable(found, VariableOf(f))
    ELSE FoldLeft(LAMBDA part, i : FindParams(part, f[i + 1], Turned(f[1], i, neg)), found, [i \in 1 .. Len(f) - 1 |-> i])

(* What it returns: the formula without its quantifiers. *)
RECURSIVE Body(_)
Body(f) == IF f[1] \in Quantifiers THEN Body(f[3]) ELSE IF Opaque(f) THEN f ELSE Mapped(f, Body)

-----------------------------------------------------------------------------
(* The reference: truth over two individuals.  A wff variable is the set   *)
(* of the assignments where it holds.                                      *)
Assignments == [Range(SetVars) -> {0, 1}]
IndependentOf(x, holds) == \A e, g \in Assignments : (\A y \in Range(SetVars) \ {x} : e[y] = g[y]) => (e \in holds <=> g \in holds)
ReadingsOf(v) == {holds \in SUBSET Assignments : \A x \in Range(SetVars) : <<x, v>> \in KnownDists => IndependentOf(x, holds)}
Readings == {m \in [WffVars -> SUBSET Assignments] : \A v \in WffVars : m[v] \in ReadingsOf(v)}
ReadingsFor(vars) == {m \in Readings : \A v \in WffVars \ vars : m[v] = {}}

RECURSIVE TruthOf(_, _, _)
TruthOf(f, env, m) ==
    CASE f[1] = "wff" -> env \in m[f[2]]
      [] f[1] = "eq"  -> env[f[2][2]] = env[f[3][2]]
      [] f[1] = "iff" -> TruthOf(f[2], env, m) <=> TruthOf(f[3], env, m)
      [] f[1] = "not" -> ~TruthOf(f[2], env, m)
      [] f[1] = "imp" -> TruthOf(f[2], env, m) => TruthOf(f[3], env, m)
      [] f[1] = "and" -> TruthOf(f[2], env, m) /\ TruthOf(f[3], env, m)
      [] f[1] = "or"  -> TruthOf(f[2], env, m) \/ TruthOf(f[3], env, m)
      [] f[1] = "all" -> \A d \in {0, 1} : TruthOf(f[3], [env EXCEPT ![f[2]] = d], m)
      [] f[1] = "ex"  -> \E d \in {0, 1} : TruthOf(f[3], [env EXCEPT ![f[2]] = d], m)

RECURSIVE QuantifiedNames(_)
QuantifiedNames(f) ==
    CASE Opaque(f) -> <<>>
      [] f[1] \in Quantifiers -> <<f[2]>> \o QuantifiedNames(f[3])
      [] OTHER -> FlattenSeq([i \in 1 .. Len(f) - 1 |-> QuantifiedNames(f[i + 1])])

(* The prefix takes one value after another; the parameters of a wff       *)
(* variable have these, its other variables are those of the surroundings. *)
ParametersChosen(found, names, values, env, v) ==
    [x \in Range(SetVars) |-> IF x \in found.params[v] THEN values[CHOOSE i \in DOMAIN names : names[i] = x] ELSE env[x]]
RECURSIVE BodyTrue(_, _, _)
BodyTrue(f, envs, m) ==
    CASE f[1] = "not" -> ~BodyTrue(f[2], envs, m)
      [] f[1] = "imp" -> BodyTrue(f[2], envs, m) => BodyTrue(f[3], envs, m)
      [] f[1] = "and" -> BodyTrue(f[2], envs, m) /\ BodyTrue(f[3], envs, m)
      [] f[1] = "or"  -> BodyTrue(f[2], envs, m) \/ BodyTrue(f[3], envs, m)
      [] Opaque(f)    -> TruthOf(f, envs[VariableOf(f)], m)
RECURSIVE PrenexTrue(_, _, _, _, _, _)
PrenexTrue(found, body, names, values, env, m) ==
    LET Then(d) == PrenexTrue(found, body, names, Append(values, d), env, m)
    IN IF Len(values) = Len(names)
       THEN BodyTrue(body, [v \in DOMAIN found.params |-> ParametersChosen(found, names, values, env, v)], m)
       ELSE IF found.quants[Len(values) + 1] = "all" THEN Then(0) /\ Then(1) ELSE Then(0) \/ Then(1)

(* Whenever every variable is quantified once and no assertion fails, the  *)
(* prefix with the body means what the formula meant, whatever the wff     *)
(* variables say about their parameters, and also where an equality or a   *)
(* biconditional is kept whole (ReconstructFOF::find_params).              *)
PrenexRight ==
    LET found == FindParams(NothingFound, formula, FALSE)
        names == QuantifiedNames(formula)
    IN expr = NoExpr /\ names # <<>> /\ IsInjective(names) /\ found.outcome = "ok" =>
          \A m \in ReadingsFor(DOMAIN found.params), env \in Assignments :
             TruthOf(formula, env, m) = PrenexTrue(found, Body(formula), names, <<>>, env, m)

=============================================================================
