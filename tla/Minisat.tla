------------------------------ MODULE Minisat -------------------------------
(***************************************************************************)
(* The SAT solver that logs its refutation (libs/minisat/Solver.cc, as     *)
(* changed for this program), run on the clauses of a negated formula as   *)
(* CNFProblem::solve of provers/sat.cpp runs it.                           *)
(*                                                                         *)
(* A clause of the solver is a set of literals.  Watched literals and      *)
(* activities only decide which unit clause is seen first, which variable  *)
(* is chosen and which half of the learnt clauses is forgotten: any may    *)
(* be.  The constructor's restart_first (100) and the limit of learnt      *)
(* clauses that solve_ computes (a third of the clauses) are constants:    *)
(* with the values of the code no problem of the bound would reach them.   *)
(***************************************************************************)
EXTENDS WffSat

CONSTANTS Wffs,            \* bound: the formulae to prove
          restart_first,   \* conflicts before the first restart
          max_learnts      \* learnt clauses, beyond the assigned literals, before some are forgotten

VARIABLES
    wff,        \* the formula
    unitFirst,  \* whether the clause that it does not hold came before the others
    added,      \* how many clauses of the problem the solver has been given
    clauses,
    learnts,
    trail,      \* the literals assigned, with level and reason
    level,      \* decisionLevel()
    phase,      \* variable -> polarity, the value it will be given
    simplified, \* simpDB_assigns: literals assigned at the last simplify()
    conflictC,  \* conflicts since the last restart
    restarts,   \* curr_restarts
    answer,     \* "none", "sat" or "unsat"
    refutation  \* the log: <<TRUE, clause>> for a clause derived, <<FALSE, clause>> for one removed

givenVars == <<wff, unitFirst>>
searchVars == <<level, phase, simplified, conflictC, restarts>>
satVars == <<givenVars, added, clauses, learnts, trail, searchVars, answer, refutation>>

RECURSIVE Listed(_)
Listed(S) == IF S = {} THEN <<>> ELSE LET x == CHOOSE x \in S : TRUE IN <<x>> \o Listed(S \ {x})

(* build_cnf_problem: the map orders the clauses by the sign of their first *)
(* literal, then by the addresses of variables.  Two orders stand for all:  *)
(* the clause of the formula itself is the first or the last it can be.     *)
ProblemOf(f, first) ==
    LET S == TseitinForm(Not(f))
        whole == <<<<Yes(Not(f))>>>>
        positive == Listed({c \in S : c[1][1]})
    IN Listed({c \in S : ~c[1][1]}) \o (IF first THEN whole \o positive ELSE positive \o whole)

Problems == [f \in Wffs |-> [first \in BOOLEAN |-> ProblemOf(f, first)]]
AtomsOf == [f \in Wffs |-> TseitinVars(ToSet(Problems[f][TRUE]))]
Problem == Problems[wff][unitFirst]
Atoms == AtomsOf[wff]

True(l) == \E i \in DOMAIN trail : trail[i].lit = l
False(l) == True(Negate(l))
Entry(l) == trail[CHOOSE i \in DOMAIN trail : trail[i].lit = l]
NAssigns == Len(trail)
Database == clauses \union learnts

UnitFor_Eager(c, l) == l \in c /\ ~True(l) /\ ~False(l)
UnitFor(c, l) == l \in c /\ ~True(l) /\ ~False(l) /\ \A k \in c \ {l} : False(k)
Propagated == ~ \E c \in Database : (\A l \in c : False(l)) \/ (\E l \in c : UnitFor(c, l))

NewVars == [v \in Atoms |-> FALSE]

SolverInit == /\ clauses = {} /\ learnts = {} /\ trail = <<>> /\ level = 0
              /\ simplified = -1 /\ conflictC = 0 /\ restarts = 0
              /\ answer = "none" /\ refutation = <<>>

SatInit == wff \in Wffs /\ unitFirst \in BOOLEAN /\ added = 0 /\ phase = NewVars /\ SolverInit

-----------------------------------------------------------------------------
Enqueue(tr, l, at, reason) == Append(tr, [lit |-> l, level |-> at, reason |-> reason])
Derived(lits) == <<<<TRUE, lits>>>>
Removed(lits) == <<<<FALSE, lits>>>>

(* addClause_: satisfied clauses are dropped, false literals and repeated *)
(* ones removed; only the removal of false ones is logged.                *)
AddClause ==
    /\ answer = "none" /\ added < Len(Problem) /\ Propagated
    /\ added' = added + 1
    /\ LET c == Problem[added + 1]
           left == SelectSeq(c, LAMBDA l : ~False(l))
       IN IF \E l \in ToSet(c) : True(l) \/ Negate(l) \in ToSet(c)
          THEN UNCHANGED <<clauses, trail, answer, refutation>>
          ELSE /\ refutation' = IF left # c THEN refutation \o Derived(Listed(ToSet(left))) \o Removed(c) ELSE refutation
               /\ answer' = IF left = <<>> THEN "unsat" ELSE answer
               /\ trail' = IF Cardinality(ToSet(left)) = 1 THEN Enqueue(trail, left[1], 0, {}) ELSE trail
               /\ clauses' = IF Cardinality(ToSet(left)) > 1 THEN clauses \union {ToSet(left)} ELSE clauses
    /\ UNCHANGED <<givenVars, learnts, searchVars>>

(* propagate, one literal at a time. *)
Propagate(c, l) ==
    /\ answer = "none" /\ UnitFor(c, l)
    /\ trail' = Enqueue(trail, l, level, c)
    /\ UNCHANGED <<givenVars, added, clauses, learnts, searchVars, answer, refutation>>

(* cancelUntil: what stays assigned, and the polarities that are saved. *)
KeptTo(n) == SelectSeq(trail, LAMBDA e : e.level <= n)
SavedTo(n) ==
    [v \in DOMAIN phase |->
        LET undone == {i \in DOMAIN trail : trail[i].lit[2] = v /\ trail[i].level > n}
        IN IF undone = {} THEN phase[v] ELSE \E i \in undone : trail[i].lit[1]]

-----------------------------------------------------------------------------
(* analyze: from the conflict back along the trail, until one literal of   *)
(* the present level is left.  open holds the true literals of this level  *)
(* still to be resolved, lower the false ones of levels below.             *)
RECURSIVE FirstUip(_, _, _)
FirstUip(i, open, lower) ==
    LET e == trail[i]
        others == {Negate(l) : l \in e.reason \ {e.lit}}
    IN IF e.lit \notin open THEN FirstUip(i - 1, open, lower)
       ELSE IF open = {e.lit} THEN [uip |-> Negate(e.lit), lower |-> lower]
       ELSE FirstUip(i - 1, (open \ {e.lit}) \union {l \in others : Entry(l).level = level},
                     lower \union {Negate(l) : l \in {m \in others : Entry(m).level \in 1 .. level - 1}})

(* litRedundant: a literal that the others of the learnt clause imply. *)
RECURSIVE Redundant(_, _)
Redundant(l, learnt) ==
    LET e == Entry(Negate(l)) IN
    /\ e.reason # {}
    /\ \A k \in e.reason \ {e.lit} : Entry(Negate(k)).level = 0 \/ k \in learnt \/ Redundant(k, learnt)

Analyze(confl) ==
    LET first == {Negate(l) : l \in confl}
        uip == FirstUip(Len(trail), {l \in first : Entry(l).level = level},
                        {Negate(l) : l \in {m \in first : Entry(m).level \in 1 .. level - 1}})
    IN [uip |-> uip.uip, rest |-> {l \in uip.lower : ~Redundant(l, uip.lower)}]

(* A conflict in search: learn, jump back, assert.  At level zero the problem is refuted. *)
Conflict(c) ==
    /\ answer = "none" /\ \A l \in c : False(l)
    /\ IF level = 0
       THEN answer' = "unsat" /\ UNCHANGED <<learnts, trail, level, phase, conflictC, refutation>>
       ELSE LET learnt == Analyze(c)
                all == {learnt.uip} \union learnt.rest
                back == CHOOSE n \in 0 .. level - 1 :
                            /\ \A l \in learnt.rest : Entry(Negate(l)).level <= n
                            /\ n # 0 => \E l \in learnt.rest : Entry(Negate(l)).level = n
            IN /\ level' = back
               /\ phase' = SavedTo(back)
               /\ conflictC' = conflictC + 1
               /\ trail' = Enqueue(KeptTo(back), learnt.uip, back, IF learnt.rest = {} THEN {} ELSE all)
               /\ learnts' = IF learnt.rest = {} THEN learnts ELSE learnts \union {all}
               /\ refutation' = refutation \o Derived(<<learnt.uip>> \o Listed(learnt.rest))
               /\ UNCHANGED answer
    /\ UNCHANGED <<givenVars, added, clauses, simplified, restarts>>

-----------------------------------------------------------------------------
(* search, when nothing is left to propagate: restart, or simplify at the  *)
(* top level, forget learnt clauses and go on.                             *)
Searching == answer = "none" /\ added = Len(Problem) /\ Propagated

(* luby: the sequence 1 1 2 1 1 2 4 ..., of powers of restart_inc = 2. *)
RECURSIVE LubyIn(_, _, _), LubyFrom(_, _, _)
LubyIn(x, size, seq) ==
    IF size - 1 = x THEN 2^seq ELSE LET half == (size - 1) \div 2 IN LubyIn(x % half, half, seq - 1)
LubyFrom(x, size, seq) == IF size < x + 1 THEN LubyFrom(x, 2 * size + 1, seq + 1) ELSE LubyIn(x, size, seq)
Luby(x) == LubyFrom(x, 1, 0)

Exhausted == conflictC >= Luby(restarts) * restart_first

Restart ==
    /\ Searching /\ Exhausted
    /\ restarts' = restarts + 1 /\ conflictC' = 0
    /\ level' = 0 /\ trail' = KeptTo(0) /\ phase' = SavedTo(0)
    /\ UNCHANGED <<givenVars, added, clauses, learnts, simplified, answer, refutation>>

Satisfied(c) == \E l \in c : True(l)
Locked(c) == \E i \in DOMAIN trail : trail[i].reason = c

(* removeClause, for each of S: a clause that is a reason is one no more. *)
RemovedAll(S) == FoldLeft(LAMBDA log, c : log \o Removed(Listed(c)), <<>>, Listed(S))
Unlocked(S) == [i \in DOMAIN trail |-> IF trail[i].reason \in S THEN [trail[i] EXCEPT !.reason = {}] ELSE trail[i]]

(* simplify is skipped when nothing was assigned since, or (here: perhaps) *)
(* when too little was propagated since; the first time it is not.         *)
Simplify ==
    LET old(S) == {c \in S : Satisfied(c)}
    IN /\ Searching /\ ~Exhausted /\ level = 0 /\ NAssigns # simplified
       /\ simplified' = NAssigns
       /\ learnts' = learnts \ old(learnts) /\ clauses' = clauses \ old(clauses)
       /\ trail' = Unlocked(old(Database))
       /\ refutation' = refutation \o RemovedAll(old(learnts)) \o RemovedAll(old(clauses))
       /\ UNCHANGED <<givenVars, added, level, phase, conflictC, restarts, answer>>

Forgettable_Reasons == {c \in learnts : Cardinality(c) > 2}

(* reduceDB: binary clauses and reasons are never forgotten. *)
Forgettable == {c \in learnts : Cardinality(c) > 2 /\ ~Locked(c)}

ReduceDB == /\ learnts' \in IF Cardinality(learnts) - NAssigns >= max_learnts
                             THEN {learnts \ S : S \in SUBSET Forgettable} ELSE {learnts}
            /\ refutation' = refutation \o RemovedAll(learnts \ learnts')

Continue == Searching /\ ~Exhausted /\ (level = 0 => simplified # -1) /\ ReduceDB

(* pickBranchLit *)
Decide(v) ==
    /\ Continue
    /\ ~True(Yes(v)) /\ ~False(Yes(v))
    /\ level' = level + 1
    /\ trail' = Enqueue(trail, <<phase[v], v>>, level + 1, {})
    /\ UNCHANGED <<givenVars, added, clauses, phase, simplified, conflictC, restarts, answer>>

ModelFound ==
    /\ Continue
    /\ NAssigns = Cardinality(Atoms)
    /\ answer' = "sat"
    /\ UNCHANGED <<givenVars, added, clauses, trail, searchVars>>

SatNext == \/ AddClause \/ Restart \/ Simplify \/ ModelFound
           \/ \E c \in Database : Conflict(c) \/ \E l \in c : Propagate(c, l)
           \/ \E v \in Atoms : Decide(v)

SatSpec == SatInit /\ [][SatNext]_satVars

-----------------------------------------------------------------------------
RECURSIVE Value(_, _)
Value(f, valuation) ==
    LET At(i) == Value(f[i], valuation) IN
    CASE IsVar(f) -> valuation[f]
      [] f = Truth -> TRUE
      [] f = Falsum -> FALSE
      [] f[1] = "not" -> ~At(2)
      [] f[1] = "imp" -> At(2) => At(3)
      [] f[1] = "iff" -> At(2) <=> At(3)
      [] f[1] = "and" -> At(2) /\ At(3)
      [] f[1] = "or" -> At(2) \/ At(3)
      [] f[1] = "nand" -> ~(At(2) /\ At(3))
      [] f[1] = "xor" -> ~(At(2) <=> At(3))
      [] f[1] = "and3" -> At(2) /\ At(3) /\ At(4)
      [] f[1] = "or3" -> At(2) \/ At(3) \/ At(4)

Tautology(f) == \A valuation \in [VariablesOf(f) -> BOOLEAN] : Value(f, valuation)

(* The clauses of get_tseitin_form hold together exactly when every part   *)
(* of the formula has the value its own parts give it.                     *)
TseitinFaithful ==
      LET parts == TseitinVars(TseitinForm(wff)) \union VariablesOf(wff)
          given(valuation) == [p \in parts |-> Value(p, [v \in VariablesOf(wff) |-> valuation[v]])]
      IN \A valuation \in [parts -> BOOLEAN] :
            (\A c \in TseitinForm(wff) : \E i \in DOMAIN c : valuation[c[i][2]] = c[i][1]) <=> valuation = given(valuation)

(* The solver refutes the negation of a tautology and of nothing else, and *)
(* when it finds a model of the negation, its values of the variables make *)
(* the formula false (Solver::search, TWff::get_tseitin_form).             *)
AnswerRight ==
    /\ answer = "unsat" => Tautology(wff)
    /\ answer = "sat" => ~Value(wff, [v \in VariablesOf(wff) |-> True(Yes(v))])
    /\ added = 1 => TseitinFaithful

(* A literal that a clause implied keeps its reason until it is unassigned, *)
(* or forever at the top level, where nothing asks for it again: whatever   *)
(* restart, simplify, reduceDB and the jumps back do, no clause on which    *)
(* analyze may come back is removed; and every level below the present one  *)
(* has its decision (Solver::locked, cancelUntil).                          *)
TrailJustified ==
    /\ \A i \in DOMAIN trail :
          LET e == trail[i] IN
          /\ e.reason # {} => /\ e.level > 0 => e.reason \in Database
                              /\ \A l \in e.reason \ {e.lit} : \E j \in 1 .. i - 1 : trail[j].lit = Negate(l)
          /\ Negate(e.lit) \notin {trail[j].lit : j \in DOMAIN trail}
    /\ \A n \in 1 .. level : Cardinality({i \in DOMAIN trail : trail[i].level = n /\ trail[i].reason = {}}) = 1

(* Every refutation can be derived again by unit propagation from the      *)
(* clauses of the problem, as CNFProblem::solve asserts.                   *)
RefutationReplays == answer = "unsat" => Replay(Problem, refutation).refuted

(* What get_sat_prover makes of a refutation is a proof of the formula:    *)
(* every call finds on the stack what it needs, and one proof is left.     *)
SatProofProves == answer = "unsat" => SatProof(wff, Problem, refutation) = wff

(* Without the solver: get_adv_truth_prover answers for every formula      *)
(* whether it is a tautology, and proves the formula itself if it is one:  *)
(* all rules, substitutions and case splits fit together.  (A matter of the *)
(* formula alone: it is asked once, with the first clause.)                *)
FoundForTautologies(result) == (result.found <=> Tautology(wff)) /\ (result.found => result.proof = wff)
WffProves == added = 1 => FoundForTautologies(AdvTruth(wff))

(* Both provers prove the formula, with the solver and without it. *)
ProversProve == RefutationReplays /\ SatProofProves /\ WffProves

=============================================================================
