# mmpp in TLA+

`mmpp` is a Metamath toolkit in C++: a reader and a library for `.mm` files, a
proof engine, parsers and unification, provers that search or translate proofs
from other calculi, and a web editor in which a proof is a tree of *steps*, each
of which the server tries to prove from its children in the background.  This
directory models it in TLA+: modules that follow the source function by
function, TLC configurations that check them on small instances, and theorems
that TLAPS proves for every value of the constants.  `PROJECT.json` maps each
definition to the lines it stands for; paths here are relative to the sources.

* [1. The system](#1-the-system)
* [2. Modules and runs](#2-modules-and-runs)
* [3. The server: scheduler, search, tree](#3-the-server-scheduler-search-tree)
* [4. The browser and the requests](#4-the-browser-and-the-requests)
* [5. The library core](#5-the-library-core)
* [6. The provers](#6-the-provers)
* [7. What is proved](#7-what-is-proved)
* [8. What is only model-checked](#8-what-is-only-model-checked)
* [9. Findings](#9-findings)
* [10. Not modelled, and what is left](#10-not-modelled-and-what-is-left)

## 1. The system

| Component | Source | State | Operations | Talks to |
|---|---|---|---|---|
| Coroutine thread manager | `utils/threadmanager.*` | FIFO list, deadline heap, `running`, `running_coros`, threads | add, add timed, dequeue, execute, re-enqueue, stop, join | called by worksets; resumes strategy bodies |
| Step search | `web/step.cpp`, `web/strategy.cpp` | priority, `current_data`, active strategies, winner | restart, launch, report, reload, print the proof | adds coroutines; strategies call back, also while they are destroyed; a child's change restarts the parent asynchronously |
| Step tree | `web/step.cpp`, `web/workset.*` | parent and children links, mutexes | set sentence, orphan, reparent, destroy, dump, load, prove | its workset and its neighbours (locks) |
| Workset, event queue | `web/workset.*` | steps by id, event queue, antidists | create, dispatch, queue poll, destroy | HTTP callbacks on any server thread |
| Sessions, HTTP server | `web/web.*`, `web/httpd*` | sessions, tickets, worksets; per request phase, POST data, answer | ticket login, create, list and destroy worksets; first call, data, finish | libmicrohttpd |
| Web client | `resources/static/ts/*` | operation queue, mirror of the tree, views | edit operations, event polling, redrawing | HTTP |
| Proof engine | `mm/engine.*` | stack, distinct variables, trees, labels, saved steps, checkpoints | hypothesis, assertion, save, checkpoint, commit, rollback | provers, strategies, proof operations |
| Proofs | `mm/proof.*`, `mm/sentengine.*` | compressed and uncompressed proofs | compress, uncompress, execute, encode, decode | engine, reader |
| Reader, tokenizer, library | `mm/reader.*`, `mm/tokenizer.*`, `mm/library.*` | scopes, comment automaton, tables by id | statements, scopes, comments, included files | each other |
| Temporaries | `mm/tempgen.*`, `mm/toolbox.cpp` | labels, free lists, stacked frames | take, release, refresh an assertion | toolbox, provers |
| Toolbox | `mm/toolbox.*` | grammar, parsed sentences, caches | unify assertion, build a prover, prove a type | library, parsers, engine |
| Parsing, unification | `parsing/*`, `old/unification.cpp` | charts, LR automaton, disjoint sets, substitutions | parse, unify, match, compose | toolbox |
| Provers | `provers/*`, `libs/minisat/*` | formulae, search trees, refutations | solve, replay, convert, visit, unfold | engine, toolbox |

What is hard about them: HTTP threads, workers and a timed thread share steps,
each with a recursive mutex, and some paths lock parent before child, others
child before parent; wake-ups are `notify_one` and `stop()` takes no lock.
Strategies run on a snapshot of a step that may be replaced meanwhile, and they
report through destructors as well.  A child's change reaches its parent's search
through a coroutine of its own; events reach the browser through a long poll with
a timeout, and the browser edits its own tree before the server's.  The engine
cuts several stacks back to a checkpoint together.  Scanners, codecs, automata and
the translations between calculi have many cases that no test of the
repository reaches.  The hazards, each at its line, are listed in `PROJECT.json`
with the properties that cover them.

## 2. Modules and runs

| Module | Code | Run |
|---|---|---|
| `CoroutineThreadManager`, abstract `CoroutinePool` | scheduler | `ctm_safety`, `ctm_live`, `ctm_stop` |
| `StepSearch` | background search of steps | `ss` |
| `StepTree` | tree, mutexes, requests | `st_tree`, `st_deadlock` |
| `ClientTree`, `WebRequests` | browser's tree and queue; server's requests | `web` |
| `EventFeed` | event queue, long poll, views | `feed` |
| `ProofEngine`, abstract `Checkpoints` | engine | `mm` |
| `Metamath`, `Reader`, `Compression`, `Tokens`, `Addenda` | proofs, reader, library, tokenizer, comments | `mm` |
| `FlatTrees`, `ParsingTrees`, `Unification`, `OldUnification`, `Parsing` | trees, unifiers, parsers | `mm` |
| `TempVars`, `StepProof` | temporaries; the proof the editor prints | `mm` |
| `Wff`, `WffSat`, `Minisat` | formulae, replay of refutations, SAT solver | `logic`, `sat_repeated` |
| `FirstOrder`, `NaturalDeduction` | first order formulae, natural deduction | `logic`, `nd_forall` |
| `Toolbox`, `Uct` | toolbox, tree search | `logic` |
| `Z3Proofs`, `Z3Formulas`, `Tstp`, `Prenex`, `Definitions` | translations from and to other provers; definitions | `logic` |

`MCStepSearch`, `MCTreeEditing`, `MCWeb`, `MCLogic` and `MCMetamath` give the
constants their values for TLC.  The last two put independent components in
one run: a variable `part` chooses, in the initial state, which of them a behaviour
is about, and the others keep their initial state.  The modules named `...Proofs`
hold the theorems; `ChildLists` has the lemmas that they share, on vectors of children
(for `StepSearch` and `StepTree`) and on the first of some numbers.

| Run | Expected | Properties |
|---|---|---|
| `ctm_safety` | pass | `OnePlace`, `RunningCorosExact`, `WorkConserving`, `TimerOrder`, `ImplementsPool` |
| `ctm_live` | pass | `CorosServed`, `StopReaches` |
| `ctm_stop` | violation | `StopTerminates` |
| `ss` | pass | `CurrentDataOnly`, `SnapshotFits`, `StatusAnnounced`, `Settles` |
| `st_tree` | pass | `Forest`, `LinksAgree`, `CirclesGoUp`, `ClientKeepsChildren` |
| `st_deadlock` | violation | `NoDeadlock` |
| `web` | pass | `TreesAgree`, `PatienceRewarded`, `TicketGrantsOnce`, `PostDataComplete`, `HealthyServerStaysUp`, `IdsNeverReused` |
| `feed` | pass | `StaleViewsArePursued`, `ViewCatchesUp` |
| `logic` | pass | `SolverRight`, `ChecksSound`, `ConversionExact`, `ToolboxRight`, `SearchSound`, `Z3Right`, `RefutationsHold`, `DefinitionsUnfold` |
| `sat_repeated`, `nd_forall` | violation | `RefutationReplays`; `AcceptedHolds` |
| `mm` | pass | `StacksAgree`, `DistsComplete`, `StackDescribed`, `ImplementsCheckpoints`, `TheoremsDerivable`, `ProofsWritten`, `MatchingRight`, `SyntaxExact`, `TemporariesOwned` |

`CHECK_DEADLOCK FALSE` everywhere: the scheduler stops, bounded edits run out,
threads do deadlock (that is a finding), and an algorithm ends.

## 3. The server: scheduler, search, tree

### `CoroutineThreadManager`

One worker is a program counter walking through `thread_fn` and
`dequeue_coroutine`; the timed thread walks through `timed_fn`; the destructor
through `stop` and `join`.  A section under `obj_mutex` is one step; the timed
mutex is held over several (`TimedHeld`).  `running` is read outside the mutexes,
in a step of its own wherever a stop can come in between.  Condition variables
may wake up spuriously.  A body yields or returns at every `Execute`, at a cost
between 1 and `MaxCost`; a debt is carried over to later turns.

* `ctm_safety`: two workers, two coroutines of which one keeps itself alive
  (`SelfOwned`) and one dies with its owner, deadlines now and one tick later,
  quantum 1 and costs up to 2, so that debts occur.  No coroutine is in two places
  at once, the counter is exact, no worker parks beside work nobody will take,
  timers fire in order, and the threads implement `CoroutinePool`: a FIFO of
  coroutines, each served by one worker at a time.
* `ctm_live`: two coroutines that add themselves again with a delay; a sleeping
  coroutine reaches the list, a listed one is resumed or discarded, and `stop()`
  reaches every thread outside two windows.  Costs of up to 2 with quantum 1 make
  debts; delays of 1 and 2 and two moments let an earlier deadline be added while the
  timed thread waits for a later one.  Fairness: weak for the clock and for
  `stop()`; strong for each worker and for the timed thread, which may find a mutex taken
  again and again, for the operating system leaves no thread waiting for ever at a short
  section that others keep entering.  Clients, the decision to stop and spurious wake-ups are not fair.
* `ctm_stop` finds `StopTerminates` violated (section 9).

### `StepSearch`

| Code | Model |
|---|---|
| `current_priority`, `current_data`, `active_strategies`, `winning_strategy` | `priority`, `data`, `active`, `winner` |
| `restart_search` up to its loop; the loop; its end | `BeginRestart`; `ReadSentence`, `ReadTree`; `LaunchFirst` |
| the recursive mutex of the step during all that | `lock`, `reading` |
| `after_new_sentence`: the coroutine for the parent | `telling`, `TellParent`, `pending`, `RestartCoroutine` |
| a strategy object on its way through the scheduler | `strat`: sleeping, queued, running, reporting |
| `maybe_notify_update` and the `get` it makes the client send | `Notify`, `shown` |
| the edits, `set_antidists` and `workset_reload` | `SetSentence`, `Orphan`, `Reparent`, `SetAntidists`, `Reload...` |

A strategy is a bounded computation that ends in success or failure; which, is a
free choice.  A sentence parses or it does not; the antidistinct pairs are an
opaque value.  `ss`: a chain of three steps or lonely ones, two edits of any kind,
three strategy objects, one worker.  A strategy that outlives a restart changes
nothing (`CurrentDataOnly`); a search nobody is about to restart is about the
present sentences of the present children (`SnapshotFits`); the last event told
the truth (`StatusAnnounced`); after the last edit every search is decided on what
the tree then says (`Settles`).  Two edits are the least with which one of
them finds the other's restart under way; three steps give a step both a parent
and a child.  Fairness: threads weakly; `Take` and `Finish` strongly, since the
scheduler starves no coroutine (`CorosServed`) and every strategy is bounded.
`LastPriority` is 1 instead of 2; every priority has one strategy in the code.

### `StepTree`

A request has two parts, as in the code.  The first, under the mutex of the
workset, finds the step (`Dispatch`, `Enter`) and answers `get` and `dump`.  The
others are answered by a callback once the POST data is there, with a shared
pointer to the step but no mutex (`Start` and after it).  Mutexes are taken
in the order of the code and released when their guards go out of scope; `path` is
the recursion of `dump`, `prove`, `workset_reload` and `reaches_by_parents`.  Weak
pointers are modelled: a step is `Alive` while the workset, a request or a waiting
coroutine refers to it, and `ParentOf` is `parent.lock()`.

`st_tree` has two settings.  Two HTTP threads edit, dump and reload three steps
from every shape of tree: both ends of each link agree (an assertion of `orphan`
relies on it), there is no cycle, and threads wait for each other in a circle only
if one of them orphans, reparents or destroys.  Three steps give a chain whose
ends and middle can be edited at once.  And a client that waits for its answers
does everything there is to do, beside a worker, from a new workset: no step is
left with a child that no longer exists (`ClientKeepsChildren`; `patient` says
which of the two clients it is, and does not change).  With two
requests under way that does not hold, for a step destroyed between the two parts
of a reparent is adopted and soon gone; the web client queues its operations
(`op_queue.ts`).  `MaxPending` bounds the restarts that wait.

`AdoptSelf = FALSE` leaves out one request: a step named as its own new parent.
`README.md:372` of the program offers only steps not descending from the moved one
as new parents; `reaches_by_parents` starts above the step, so that the server
itself would make a step without a parent its own child.

## 4. The browser and the requests

`ClientTree`: the browser edits its own tree at once and lets a queue of operations
repeat every edit on the server, one request at a time; a move is two operations of
that queue, and the requests that create and destroy steps are not in it.  `kill_node`
calls itself for every child; the stack of its calls is `dying` (`KillNode`, `KillChild`,
`KillLeaf`), and nothing else happens until it is empty.
`TreesAgree`: once the queue is empty and every answer has come, the server has the
tree the user sees, unless a request was lost or refused or a move threw: the second half
of a move redraws the child before it sends its request, and a place too far behind the
end of the list throws there (tree_editor.ts:267), so that the request is never queued
(`RunAttach`).  `PatienceRewarded`: for a user who waits for the queue before each click
nothing is refused and nothing throws.  Four clicks over four nodes are enough for a move
with clicks between its halves.

`WebRequests`: the callbacks of libmicrohttpd for every connection, tickets,
sessions, the guest session and worksets.  A ticket is worth one session
(`TicketGrantsOnce`); a callback sees all the POST data or it was too much, and then
it runs all the same (`PostDataComplete`); identifiers are never used twice
(`IdsNeverReused`).  `HealthyServerStaysUp` names the states without which no request
brings the server down: a session with a gap in its worksets (`json_list_worksets` counts
from 0 to the size, and no one catches `at()`), or the callback of a request whose workset
was destroyed meanwhile; a workset whose library was not loaded (`get_sentence`,
`get_assertion` and the pairs of variables use null pointers, workset.cpp:103, 115, 187, 336);
or the request for the proof of an axiom, which has none.  Requests on a step are
`StepTree`'s and are left out here.  Two connections, a user and the guest, two identifiers for
worksets, and up to three pieces of POST data where the maximum is one; the connections
are symmetric.  `web` runs both modules beside each other.

`EventFeed`: a changed step appends an event; the client's poll takes the first or
waits a second; every event makes the browser fetch the step anew.  A poll whose second
is over answers `nothing` without looking at the queue again (`PollTimeout`).
`StaleViewsArePursued`: an old view will be refreshed by an event, a fetch or an
answer on its way, unless an answer was lost or overtaken or an object that stopped
receiving took the event; these excuses are recorded where they happen.
`ViewCatchesUp` is its liveness, under `FeedFairness`: server threads run, a poll
ends within its second, and answers that are not lost arrive.  Updates and the
loading of a new object are not fair.

## 5. The library core

`mm` checks these parts, one per behaviour.

* **`ProofEngine`**: stack, constraints, labels, saved steps, checkpoints and trees
  are sequences as in the code; `stack_resize` is `Resized`.  What unification yields
  is the table `Thesis`; `Imposed` is what an assertion requires of its variables.
  Executors save steps and never set checkpoints; provers do the opposite and may
  ask for new hypotheses.  After an exception that is no `ProofException` the engine is
  `broken` and not used again.  `save_step` on an empty stack (engine.h:153) is
  undefined: both outcomes are allowed.  The assertion at engine.h:175 is an assumption
  on the tables.  Proofs have up to four labels, two nested checkpoints, two saved
  steps.  `StacksAgree`; `DistsComplete` (saved steps are pushed without their
  constraints, and none is lost); `StackDescribed` (trees list the labels in the
  order of the proof, on which `compress` relies, and a prover's labels, run again,
  give its stack); `ImplementsCheckpoints`, a value with snapshots.
* **`Metamath`, `Reader`**: databases of up to four statements beside those of a
  context; whatever theorem is accepted follows from its hypotheses by the axioms
  read so far, with its distinct variables (`TheoremsDerivable`).  The check that no more
  constraints were used than declared compares iterators of two copies of a set
  (proof.h:83): for constraints that are too wide the outcome is open (`OutcomesOf`), and the
  property is about the theorems that are accepted in the defined cases.  What the reader does
  beyond that is modelled and not refused: an unmatched `$}` pops the outermost frame
  (reader.cpp:37), `check_syntax` of uncompressed proofs refuses optional hypotheses
  (proof.cpp:261-271), a variable may have several active `$f`.
* **`Compression`, `StepProof`**: every proof of up to seven steps keeps what it says
  through both compressions and back, every code of nine bits is read as it was
  written; the proof the editor prints for trees of up to four steps proves the root
  from the steps without a proof (`ProofsWritten`).  A step is proved by unification, by
  an implication that is a tautology, or by the tree search; what the search may find is
  any tree of assertions over the children, of bounded depth, in which a variable that the
  thesis of an assertion does not have is a temporary one.  Such a proof may name temporary
  variables that no database has (uct.cpp:461-463, 526): the property says that the reader
  would accept what is printed if and only if it names none.  The prover of tautologies is
  opaque here (`WffSat` has it), and an assertion stands for its proofs.  Numbers of
  compressed steps that do not fit wrap as in the code, and the property is about the others.
* **`FlatTrees`, `ParsingTrees`, `Unification`, `OldUnification`**: seven trees in pairs;
  both unificators, matching and composition on both forms of trees, and matching of
  unparsed sentences find what there is and nothing else (`MatchingRight`).
* **`Parsing`, `Tokens`, `Addenda`**: for four grammars and five tokens, the Earley parser
  accepts exactly what the grammar derives.  The LR parser accepts nothing else, but not
  all of it: the first reduction from which its automaton cannot go on ends the search,
  although other moves are left (lr.h:193-201), so that it refuses `a b` where A and S
  both derive `a` and only S may stand before `b`.  It accepts everything in a grammar whose
  automaton never has two moves, as that of the first grammar.  A file is split into what
  was written, whatever it includes; comments are read as what was said, a comment is
  interpreted if and only if each of its instructions can be obeyed, and the last one
  about a symbol counts (`SyntaxExact`).
  A file that cannot be opened (an uninitialized character is read for ever) or
  includes itself is left out; instructions that do not end are dropped, comments of
  type `j` are concatenated, and a remark inside a word joins its parts, as in the code.
* **`TempVars`**: two allocators, three labels, two frames each.  One request to the
  generator is one step, under its mutex; refreshing an assertion and releasing a
  frame take one for each variable.  The variables of an assertion are a `std::set`; the
  model renames them in any order.  Every temporary variable is free or has one
  owner, and a refreshed assertion is a renaming by variables its allocator holds and
  no other refreshed assertion has (`TemporariesOwned`).  A frame is released by a
  thread that has no more use for what was refreshed in it (apps/learning.cpp:202-218).
  Some tools take variables without an allocator and never give them back (`unframed`).

## 6. The provers

`logic` checks these parts, one per behaviour.

* **`Minisat`, `WffSat`, `Wff`**: eleven formulae of up to three variables.  The solver's
  answer is right whichever unit clause it sees first, whichever variable it decides on
  and whichever learnt clauses it forgets; the refutation it logs is derived again by unit
  propagation and becomes a proof of the formula; and no clause is removed that the
  analysis of a conflict may still ask for (`SolverRight`).  `restart_first` is 1 instead of
  100 and `max_learnts` is negative: so small a problem has few conflicts, and fewer learnt
  clauses than assigned literals.  The last of the formulae is there because clauses of
  three literals are learnt from it, of which some are reasons while others are forgotten.
* **`NaturalDeduction`, `FirstOrder`**: the rules as records, one form for each, as they
  are read, checked and converted; every proof of up to four rules over a language
  with two variables, a function and a predicate.  What `NDProof::check` accepts holds in
  every structure of two elements (`ChecksSound`, for proofs without the rule instance of
  section 9).  The vocabulary that is collected from the subformulae is the one the proof
  mentions, and the conversion gives exactly the sentence promised, or fails where a
  substitution has nothing to replace (`ConversionExact`).
* **`Toolbox`, `Uct`**: a library of fifteen assertions, questions of up to two
  hypotheses, six visits (the program allows ten thousand).  `ToolboxRight`: an assertion
  is offered if and only if it applies, and its prover proves the thesis.
  `SearchSound`: no node that is done is visited again, and the proof found can be
  replayed.  Values are only reported and left out; a random choice has every outcome.
  With so small a library a node can run out of assertions and of live children:
  `visit` then reads past the end of an empty list, which is the outcome `STUCK`.
* **`Z3Proofs`, `Z3Formulas`, `Prenex`**: a proof of Z3 converts into exactly what it
  claims or into nothing; formulae come back from Z3 as they went unless
  quantifiers were instantiated (z3prover2.cpp:14-18 says as much); a prenex form means
  what the formula meant if every variable is quantified once, also where an equality or a
  biconditional is taken for a variable named by its constructor and kept whole
  (tstp.cpp:182) (`Z3Right`).  The conclusion of a rule is compared with what Z3 claims only
  where the code does so.
* **`Tstp`**: in every interpretation in which the lines without inference hold, every
  accepted line holds (`RefutationsHold`).  A tautology of an unknown name is accepted
  unread (tstp_parser.cpp:715) and counts as an axiom.  Characters and tokens are left
  out.
* **`Definitions`**: unfolding keeps the meaning (`DefinitionsUnfold`), in two models that
  differ in the relation that membership is, with one interpretation of the variables for
  formulae and classes, but where `df-clel` captures the one name it does not replace
  (subst.cpp:803).  The rules that are sought for a constructor are judged in the same way: the
  global rule is valid, the rule for an argument is valid if and only if the argument is no
  range, and with the condition that the bound variable is not free in the ranges every
  rule is; the code seeks the rules without it (subst.cpp:378-470).  What
  `compute_bound_vars` finds is what the body binds and, beyond it, the ranges (the FIXME
  at subst.cpp:706).

## 7. What is proved

All theorems have the specification of their module as hypothesis and hold for
every value of the constants that the named `ASSUME`s of that module admit: finite
sets of workers and threads, `None` outside the sets it is added to, bounds that
are numbers, tables of the right types.  TLC evaluates these assumptions on every
run.  Each safety theorem is proved from an inductive invariant `IInv`, which TLC
has checked on the instance of the run before it was proved; the proofs have one
lemma or step per action.

| Theorem | Module | Property |
|---|---|---|
| `TypeCorrect`, `OnePlaceHolds`, `RunningCorosCounts` | `CoroutineThreadManagerProofs` | types, `OnePlace`, `RunningCorosExact` |
| `TimersInOrder`, `WorkIsConserved`, `PoolImplemented` | `CoroutineThreadManagerProofs` | `TimerOrder`, `WorkConserving`, `ImplementsPool` |
| `TypeCorrect`, `StacksStayInStep`, `RollbackRestores` | `ProofEngineProofs` | types, `StacksAgree`, `ImplementsCheckpoints` |
| `NoConstraintLost`, `StackIsDescribed` | `ProofEngineProofs` | `DistsComplete`, `StackDescribed` |
| `LinksStayConsistent`, `StepsStayForest`, `DownwardsNeverDeadlock`, `ChildrenStayAlive` | `StepTreeProofs` | `LinksAgree`, `Forest`, `CirclesGoUp`, `ClientKeepsChildren` |
| `LateStrategiesIgnored`, `SearchAnnounced`, `SearchFitsTree` | `StepSearchProofs` | `CurrentDataOnly`, `StatusAnnounced`, `SnapshotFits` |
| `ServerFollows`, `PatienceIsRewarded` | `ClientTreeProofs` | `TreesAgree`, `PatienceRewarded` |
| `OldViewsPursued` | `WebProofs` | `StaleViewsArePursued` |
| `TicketsGrantOnce`, `PostDataIsComplete`, `ServerStaysUp`, `IdsStayFresh` | `WebProofs` | `TicketGrantsOnce`, `PostDataComplete`, `HealthyServerStaysUp`, `IdsNeverReused` |
| `VariablesHaveOneOwner` | `TempVarsProofs` | `TemporariesOwned` |

**Scheduler.**  `IInv` adds to the properties that a worker holds runtime data exactly
during a turn (`TurnsHold`), that the entry being listed is still in the heap
(`TopSleeps`), and that whatever is in a place was added (`Accounted`), without which
adding a coroutine could duplicate it.  A step moves one coroutine between places
(`Moving`) or leaves all places alone (`Standing`); only the former need an argument
of their own.  `TimersInOrder` needs `TopDue`: while the timed thread is about to list
an entry, that entry is due and no other in the heap is due before it, for its mutex
keeps clients out.  `WorkIsConserved` counts: the workers that are on the way to the list
(`Takers`) are at least as many as the listed coroutines, or nobody waits.
`PoolImplemented` maps every step to a step of `CoroutinePool` or to none; the coroutine
that has been listed but not yet popped counts as awake.

**Engine.**  `StacksAgree` is nearly inductive.  The refinement needs `Nested`: the sizes
in a checkpoint are not above those in the checkpoints after it, nor above the
present ones, unless the engine is broken.  Then whatever an operation pushes lies
beyond every checkpoint (`ResizedAppend`), what an assertion pops does too, for
otherwise `Underflow` breaks the engine (`AssertionSizes`), and cutting twice is cutting
once at the smaller size (`ResizedTwice`), so that the snapshots of the outer
checkpoints (`Kept`) survive a rollback.  `NoConstraintLost` needs that every snapshot is
complete and not only the present state (`Whole`): a rollback makes one of them present.
`StackIsDescribed` says the same of every moment, that its labels, run again, give its stack
(`Traced`), and besides that they are all known, so that hypotheses asked for later do not
change what they mean.  For executors, the labels of the trees one after the other are the
proof (`Walked`); an assertion flattens those it takes and leaves the others as they were
(`FlattenCut`).  Both functions are defined by recursion: that they exist, and are what one
expects, is shown of the first number where they would not be (`RunExists`, `FlatsExist`).

**Tree.**  `IInv` is `LinksAgree`, `Forest` and, for each thread, where its operation
is (`Placed`), the mutexes it holds (`Holds`) and what it relies on because of them
(`Linked`): its own step stays linked or loose as it found it, and the ancestors that
`reaches_by_parents` has climbed remain a chain without the step to adopt.  None of these
is inductive without the others.  That a thread keeps what it relies on through the
steps of all others is one lemma (`Spared`), from three facts each action guarantees: it
leaves the thread's record alone, it changes links only of steps it has locked, and a step
nobody refers to never comes back (`NoReturn`).  For `CirclesGoUp`, of a circle of threads
that only go down, a smallest one is chosen: the steps they wait for would form a set
in which every step has its parent, against `Forest`.  These theorems assume
`~AdoptSelf` (section 3); without it `Forest` is false.  `ChildrenStayAlive` is about a
patient client and needs `Calm`: one request is under way at a time, and its steps are
still in the workset; the children of steps of the workset are in the workset; and a step
about to be erased has lost its parent there (`Fits`).  A worker changes no link.

**Search.**  `IInv` adds `LinksAgree` (as a fact about `StepSearch`), and for each step:
strategies waited for are about the data of the step (`Waiting`); a restart that is reading
holds the mutex and has dropped everything (`ReadingAlone`); what it has read so far is what
the tree says unless another restart is due (`UpToDate`); what is launched has read every
child (`Whole`); and a step whose parent is to be told keeps its mutex until it
is (`Told`).  `UpToDate` is the heart: the children are read one mutex at a time, and any
that changes behind the reader's back makes a restart due.

**Browser's tree.**  At no moment but the last are the two trees equal: what the server
lacks is still in the queue.  So the invariant says that the queue leads from the one tree to
the other (`OnItsWay`): there is a path of trees along it, and each operation the server
accepts goes from one to the next.  An answer cuts the path at its beginning, an edit of the
client makes it longer at its end.  Which steps exist is followed through what is being
created, killed and destroyed (`Tracked`); `Loose`, `Queued` and `Killing` say that a node is
only ever in one of these stages.  As long as nothing went wrong the server accepts every
operation on the path, so that `PatienceIsRewarded` follows from the path and from what the
queue of a user who waits looks like (`Patient`): one node is being created
(`BeingCreated`), or one is being moved to a place that is still there and not below itself
(`BeingMoved`), or one tree is being killed, whose requests to destroy come last
(`BeingKilled`).

**Requests and events.**  A ticket waits for a session nobody was told of
(`TicketsFresh`), data is kept up to one piece more than the maximum (`DataKept`),
identifiers lie below the counter (`IdsBelow`), and an upload belongs to a session and
names a workset that it has or had (`UploadsNamed`, `CookiesKnown`): a server that it brings
down has lost that workset.  For `EventFeed`: one object receives at a
time, an object not loaded polls nothing, and no answer is newer than its step.

**Temporaries.**  `IInv` says with sets what the property counts: the lists of free
variables (`FreeOnce`) and the frames (`HeldOnce`) have nothing twice, and the free, the held
and those taken without an allocator are disjoint and all there are (`Shared`).  A thread in
the middle of a refreshing has a renaming so far, by variables of its last frame that no
other refreshed assertion has (`Refreshing` in `Busy`); a thread in the middle of a release has
forgotten what was refreshed in the frame (`Usable`), and counts as releasing only what it
still lists (`Released`).  The counting is done last (`OwnedOnce`).

## 8. What is only model-checked

* **Liveness and fairness**: `CorosServed`, `StopReaches`, `Settles`, `ViewCatchesUp`.  The
  prover has no rules for `ENABLED`.
* **Properties of recursive operators**: whatever is about trees, formulae, proofs and
  grammars (`TheoremsDerivable`, `ProofsWritten`, `MatchingRight`, `SyntaxExact` and all of
  `logic`).  The modules with recursive operators lose the arithmetic prover, and induction
  over data would need theorems whose parameter is an operator.  Functions of a number
  that are defined by recursion can be reasoned about (a least number, or set of
  circles or threads), and are where the labels of a proof are concerned.
  `FlatTrees` was split from `ParsingTrees` so that what needs no recursion (substituting
  variables for variables in a flat tree) can be reasoned about.

## 9. Findings

* `ctm_stop`: `stop()` clears `running` and notifies without the mutexes.  A thread that has
  read `running` and found nothing to do, but does not wait yet, misses both notifications,
  and `join()` waits for ever.  There is a second such window for a worker that was woken:
  it reads `running` (threadmanager.cpp:183) before it looks at the list and waits again.
  `StopReaches`, which holds, says that a stop outside these windows reaches every thread.
* `st_deadlock`: `set_sentence` and then `orphan` of a step deadlock with the worker that
  restarts the parent, although the comments at step.cpp:63 and 296-298 say otherwise.
* `sat_repeated`: unit propagation in `provers/sat.cpp` counts positions, so that a clause
  with a repeated literal, as `ph and ph` yields, deduces nothing, and the refutation
  cannot be replayed as the code asserts.
* `nd_forall`: the test of the eigenvariable in `ForallIntroRule::check` is never reached, so
  that from P(x,x) the check accepts P(x,y) for all y.

What the models have and no document speaks of is noted at the definitions, among
it: unification goes on with other permutations of the hypotheses even where they were not
asked for (toolbox.cpp:660); `z3prover.cpp:379` takes the proof of the first changed
argument for all, and the conversion fails; a universal quantifier whose eigenvariable is the
bound variable and occurs in the predicate is accepted and cannot be converted;
`set_antidists` does not reload orphans; a move in the browser may throw between its own
edit and the request (tree_editor.ts:267); requests on a workset that is not loaded use null
pointers (workset.cpp:103, 115, 187, 336); the LR parser gives up where it could try another
move (lr.h:193-201); `final_checks` compares iterators of different sets (proof.h:83), where
`apps/verify.cpp:96` expects a refusal; the editor may print a proof that names temporary
variables (uct.cpp:461-463, 526); tstp.cpp:196 is never reached for formulae, since `wff ph`
matches all of them; the test at tstp_parser.cpp:498 never fails, since its flag is already
set; and the rules for the ranges of a constructor are sought without their condition
(subst.cpp:378-470).

## 10. Not modelled, and what is left

Vendored code (`libs/json.h` and others; of `libs/minisat` activities, assumptions and garbage
collection); JSON rendering and printing; the Qt viewer; the command line tools and tests, which
drive the components above one after the other; identifiers and small utilities; the
unfinished Boost.Beast server.  Z3, GAPT and the TSTP provers are external: what they
may answer is a free choice among a few answers that follow.  The owners of a workset,
shared pointers on several threads, are not counted by any module, so that a workset
destroyed by its own worker is not covered.  Loading a dump deeper than two steps, listeners
of steps (none is registered), the comments of assertions and the cache files of the
parser are left out.

Left for later: more of the toolbox (`mm/toolbox.h`) and of the TSTP parser.
