----------------------------- MODULE StepSearch -----------------------------
(***************************************************************************)
(* The background search of the proof editor (web/step.cpp and the shell   *)
(* of web/strategy.cpp).  Every step of the tree is searched from its own  *)
(* sentence and those of its children.  Each modification restarts the     *)
(* search of the step it concerns; a new sentence restarts the parent's    *)
(* too, but from a coroutine of its own.  The strategies of one priority   *)
(* are launched when those of the previous one have failed.  A strategy    *)
(* works on the data it was created with, may go on running after it was   *)
(* dropped, and reports when it ends, whether anybody still waits for it   *)
(* or not.                                                                 *)
(*                                                                         *)
(* Every step has a recursive mutex, held during a whole operation; `lock' *)
(* names the thread that holds it, by the step whose search that thread is *)
(* restarting.  Reading a child's sentence takes the child's mutex, so the *)
(* children may change between two readings, and a child even between the  *)
(* reading of its sentence and that of its parsing tree.  Operations that  *)
(* need two mutexes take them at once here; the order in which the code    *)
(* takes them is the subject of StepTree.                                  *)
(***************************************************************************)
EXTENDS Integers, SequencesExt

CONSTANTS
    Steps,         \* the steps of the workset
    Root,          \* the root step, created with do_not_search
    None,          \* no step, no result
    Reloader,      \* the thread that runs workset_reload
    Sentences,     \* the sentences a client may set
    Parsing,       \* those that parse
    Antidists,     \* the values given to set_antidists
    LastPriority,  \* the last priority that has a strategy (2 in the code)
    Strats,        \* the strategy objects; at most one waits for each step
    Workers,       \* the number of workers that run them
    Trees,         \* the trees a client may have built before, child -> parent
    MaxEdits       \* bound: the modifications made by clients

ASSUME StepsAssumption     == /\ IsFiniteSet(Steps) /\ Root \in Steps
                              /\ None \notin Steps /\ Reloader \notin Steps \union {None}
ASSUME SentencesAssumption == Parsing \subseteq Sentences /\ None \notin Antidists
ASSUME BoundsAssumption    == {LastPriority, Workers, MaxEdits} \subseteq Nat
ASSUME TreesAssumption     == Trees \subseteq [Steps -> Steps \union {None}]

VARIABLES
    sentence,    \* step -> its sentence
    parent,      \* step -> its parent, or None
    children,    \* step -> the sequence of its children
    antidists,   \* the antidistinct pairs of the workset
    lock,        \* step -> the thread that holds its mutex, or None
    reading,     \* steps whose restart_search is reading the children
    telling,     \* steps whose parent is told once their restart is over
    priority,    \* step -> current_priority
    data,        \* step -> current_data
    active,      \* step -> active_strategies
    winner,      \* step -> the data the winning strategy proved, or None
    shown,       \* step -> what the last step_updated event announced
    pending,     \* step -> restarts waiting in coroutines of their own
    strat,       \* strategy -> what it works on and where it is
    frames,      \* the recursion of workset_reload, innermost last
    edits        \* modifications so far

tree   == <<sentence, parent, children>>
search == <<priority, data, active, winner, shown, strat>>
vars   == <<tree, antidists, lock, reading, telling, search, pending, frames, edits>>

-----------------------------------------------------------------------------
Free == [step |-> None, data |-> None, at |-> "free", success |-> FALSE]

NoData(x) == [thesis |-> x, hyps |-> <<>>, trees |-> <<>>, antidists |-> None]

(* What jsonize(Step) tells the client of the search *)
Status(s) == [searching |-> active[s] # {}, result |-> winner[s]]

Notify_Never(s) == UNCHANGED shown

(* maybe_notify_update: the client asks for the status when the event comes *)
Notify(s) ==
    shown' = [shown EXCEPT ![s] = [searching |-> active'[s] # {}, result |-> winner'[s]]]

TellParent_Silent(s) == UNCHANGED pending

(* The coroutine of after_new_sentence that restarts the parent *)
TellParent(s) ==
    pending' = IF parent[s] = None THEN pending
               ELSE [pending EXCEPT ![parent[s]] = @ + 1]

OnWorker(i) == strat[i].at \in {"running", "reporting"}

(* Dropping the references of active_strategies destroys every strategy    *)
(* that no worker is running; what their destructors report is ignored.    *)
Dropped(S) == [i \in Strats |-> IF i \in S /\ ~OnWorker(i) THEN Free ELSE strat[i]]

(* The steps to which reaches_by_parents answers yes *)
AncestorsOf(s) ==
    LET above[n \in Nat] == IF n = 0 THEN {s} ELSE {parent[t] : t \in above[n - 1]} \ {None}
    IN  UNION {above[n] : n \in 1..Cardinality(Steps)}

Unlocked(S) == \A s \in S : lock[s] = None

-----------------------------------------------------------------------------

(* create_strategies and launch_strategies, on top of the strategies that   *)
(* remain in `base': one strategy at each priority up to LastPriority.      *)
(* Bound: a launch waits until an object of Strats is free.                 *)
Launch(s, d, p, base) ==
    IF p > LastPriority
    THEN /\ strat' = base
         /\ active' = [active EXCEPT ![s] = {}]
    ELSE LET free == {j \in Strats : base[j] = Free}
             i == CHOOSE j \in free : TRUE
         IN  /\ free # {}
             /\ strat' = [base EXCEPT ![i] =
                            [step |-> s, data |-> d, success |-> FALSE,
                             at |-> IF p = 0 THEN "sleeping" ELSE "queued"]]
             /\ active' = [active EXCEPT ![s] = {i}]

(* restart_search up to the loop over the children.  It leaves `reading'    *)
(* set if the loop is entered; the root is not searched.                    *)
BeginRestart(s) ==
    IF s = Root THEN UNCHANGED <<search, reading>>
    ELSE /\ priority' = [priority EXCEPT ![s] = 0]
         /\ strat' = Dropped(active[s])
         /\ active' = [active EXCEPT ![s] = {}]
         /\ winner' = [winner EXCEPT ![s] = None]
         /\ data' = [data EXCEPT ![s] = NoData(sentence'[s])]
         /\ IF sentence'[s] \in Parsing
            THEN reading' = reading \union {s} /\ UNCHANGED shown
            ELSE UNCHANGED reading /\ Notify(s)

(* A thread that holds the mutexes of `held' restarts the search of s.  It  *)
(* gives them back at once unless it has to read the children.              *)
Restart(s, held) ==
    /\ Unlocked(held)
    /\ BeginRestart(s)
    /\ lock' = [t \in Steps |-> IF t \in held /\ s \in reading' THEN s ELSE lock[t]]

(* What follows the loop in the callers of restart_search *)
EndRestart(s) ==
    /\ reading' = reading \ {s}
    /\ telling' = telling \ {s}
    /\ lock' = [t \in Steps |-> IF lock[t] = s THEN None ELSE lock[t]]
    /\ IF s \in telling THEN TellParent(s) ELSE UNCHANGED pending

-----------------------------------------------------------------------------
(* Every search of the tree a client built before has ended in failure. *)
InitialChildren(t, s) ==
    SetToSeqs({c \in Steps : t[c] = s})

SettledData(s) ==
    LET kids  == children[s]
        bad   == {k \in DOMAIN kids : sentence[kids[k]] \notin Parsing}
        upto  == IF bad = {} THEN Len(kids) ELSE CHOOSE k \in bad : \A l \in bad : k <= l
        terms == [k \in 1..upto |-> sentence[kids[k]]]
    IN  IF s = Root \/ sentence[s] \notin Parsing THEN NoData(sentence[s])
        ELSE [thesis |-> sentence[s], hyps |-> terms, trees |-> terms,
              antidists |-> IF bad = {} THEN antidists ELSE None]

Init ==
    /\ sentence \in [Steps -> Sentences]
    /\ parent \in Trees
    /\ children \in {f \in [Steps -> SeqOf(Steps, Cardinality(Steps))] :
                        \A s \in Steps : f[s] \in InitialChildren(parent, s)}
    /\ antidists \in Antidists
    /\ lock = [s \in Steps |-> None]
    /\ reading = {} /\ telling = {}
    /\ data = [s \in Steps |-> SettledData(s)]
    /\ priority = [s \in Steps |-> IF data[s].antidists = None THEN 0 ELSE LastPriority + 1]
    /\ active = [s \in Steps |-> {}]
    /\ winner = [s \in Steps |-> None]
    /\ shown = [s \in Steps |-> Status(s)]
    /\ pending = [s \in Steps |-> 0]
    /\ strat = [i \in Strats |-> Free]
    /\ frames = <<>>
    /\ edits = 0

-----------------------------------------------------------------------------
(* set_sentence, then after_new_sentence *)
SetSentence(s) ==
    /\ edits < MaxEdits /\ edits' = edits + 1
    /\ \E x \in Sentences : sentence' = [sentence EXCEPT ![s] = x]
    /\ Restart(s, {s})
    /\ IF s \in reading'
       THEN telling' = telling \union {s} /\ UNCHANGED pending
       ELSE TellParent(s) /\ UNCHANGED telling
    /\ UNCHANGED <<parent, children, antidists, frames>>

Position(seq, s) == CHOOSE k \in DOMAIN seq : seq[k] = s

(* orphan: after_orphaning restarts the old parent *)
Orphan(s) ==
    /\ edits < MaxEdits /\ edits' = edits + 1
    /\ parent[s] # None
    /\ parent' = [parent EXCEPT ![s] = None]
    /\ children' = [children EXCEPT ![parent[s]] = RemoveAt(@, Position(@, s))]
    /\ UNCHANGED sentence
    /\ Restart(parent[s], {s, parent[s]})
    /\ UNCHANGED <<antidists, telling, pending, frames>>

(* reparent: after_adopting restarts the new parent.  The test of           *)
(* reaches_by_parents does not exclude s = p: StepTree has that case.       *)
Reparent(s, p) ==
    /\ edits < MaxEdits /\ edits' = edits + 1
    /\ parent[s] = None /\ s # p /\ s \notin AncestorsOf(p)
    /\ parent' = [parent EXCEPT ![s] = p]
    /\ \E idx \in 1..(Len(children[p]) + 1) :
          children' = [children EXCEPT ![p] = InsertAt(@, idx, s)]
    /\ UNCHANGED sentence
    /\ Restart(p, {s, p})
    /\ UNCHANGED <<antidists, telling, pending, frames>>

(* The coroutine that restarts the parent of a step with a new sentence *)
RestartCoroutine(s) ==
    /\ pending[s] > 0
    /\ pending' = [pending EXCEPT ![s] = @ - 1]
    /\ UNCHANGED tree
    /\ Restart(s, {s})
    /\ UNCHANGED <<antidists, telling, frames, edits>>

-----------------------------------------------------------------------------
(* The loop of restart_search: the sentence, then the parsing tree of the   *)
(* next child, each under the child's mutex.                                *)
NextChild(s) == children[s][Len(data[s].trees) + 1]

MoreChildren(s) == Len(data[s].trees) < Len(children[s])

ChildFree(s) == lock[NextChild(s)] \in {None, lock[s]}

ReadSentence(s) ==
    /\ s \in reading
    /\ MoreChildren(s) /\ Len(data[s].hyps) = Len(data[s].trees) /\ ChildFree(s)
    /\ data' = [data EXCEPT ![s].hyps = Append(@, sentence[NextChild(s)])]
    /\ UNCHANGED <<tree, antidists, lock, reading, telling, priority, active,
                   winner, shown, strat, pending, frames, edits>>

(* A child that does not parse ends the restart without any strategy. *)
ReadTree(s) ==
    /\ s \in reading
    /\ MoreChildren(s) /\ Len(data[s].hyps) > Len(data[s].trees) /\ ChildFree(s)
    /\ data' = [data EXCEPT ![s].trees = Append(@, sentence[NextChild(s)])]
    /\ UNCHANGED <<tree, antidists, priority, active, winner, strat, frames, edits>>
    /\ IF sentence[NextChild(s)] \in Parsing
       THEN UNCHANGED <<lock, reading, telling, shown, pending>>
       ELSE Notify(s) /\ EndRestart(s)

(* The end of restart_search *)
LaunchFirst(s) ==
    /\ s \in reading /\ ~MoreChildren(s)
    /\ data' = [data EXCEPT ![s].antidists = antidists]
    /\ Launch(s, data'[s], 0, strat)
    /\ UNCHANGED winner
    /\ Notify(s)
    /\ EndRestart(s)
    /\ UNCHANGED <<tree, antidists, priority, frames, edits>>

-----------------------------------------------------------------------------
(* set_antidists; workset_reload then walks the tree from the root, in      *)
(* depth, holding the mutexes of the steps it is in.                        *)
Frame(s, n) == [step |-> s, next |-> n]

Top == Last(frames)

(* The innermost call goes on with the n-th child. *)
GoOn(n) == [frames EXCEPT ![Len(frames)] = Frame(Top.step, n)]

SetAntidists ==
    /\ edits < MaxEdits /\ edits' = edits + 1
    /\ frames = <<>>
    /\ antidists' \in Antidists
    /\ frames' = <<Frame(Root, 0)>>
    /\ UNCHANGED <<tree, lock, reading, telling, search, pending>>

ReloadEnter ==
    /\ frames # <<>> /\ Top.next = 0 /\ lock[Top.step] = None
    /\ lock' = [lock EXCEPT ![Top.step] = Reloader]
    /\ frames' = GoOn(1)
    /\ UNCHANGED tree
    /\ BeginRestart(Top.step)
    /\ UNCHANGED <<antidists, telling, pending, edits>>

ReloadNext ==
    /\ frames # <<>> /\ Top.next > 0 /\ Top.step \notin reading
    /\ IF Top.next <= Len(children[Top.step])
       THEN /\ frames' = Append(GoOn(Top.next + 1), Frame(children[Top.step][Top.next], 0))
            /\ UNCHANGED lock
       ELSE /\ frames' = Front(frames)
            /\ lock' = [lock EXCEPT ![Top.step] = None]
    /\ UNCHANGED <<tree, antidists, reading, telling, search, pending, edits>>

-----------------------------------------------------------------------------
Move(i, from, to) ==
    /\ strat[i].at = from
    /\ strat' = [strat EXCEPT ![i].at = to]
    /\ UNCHANGED <<tree, antidists, lock, reading, telling, priority, data,
                   active, winner, shown, pending, frames, edits>>

Waited_Anyway(i) == strat[i].step # None

(* find_if in report_result; the shared pointer that keeps a strategy alive *)
Waited(i) == i \in active[strat[i].step]

NextPriority_Same(s) == priority[s]
NextPriority(s) == priority[s] + 1

(* The 200 ms are over. *)
Wake(i) == Move(i, "sleeping", "queued")

Take(i) ==
    /\ Cardinality({j \in Strats : OnWorker(j)}) < Workers
    /\ Move(i, "queued", "running")

Finish(i) ==
    /\ strat[i].at = "running"
    /\ \E b \in BOOLEAN : strat' = [strat EXCEPT ![i].at = "reporting", ![i].success = b]
    /\ UNCHANGED <<tree, antidists, lock, reading, telling, priority, data,
                   active, winner, shown, pending, frames, edits>>

(* A strategy that yields is destroyed if its step has dropped it. *)
Yield(i) ==
    /\ strat[i].at = "running"
    /\ strat' = [strat EXCEPT ![i] = IF Waited(i) THEN [@ EXCEPT !.at = "queued"] ELSE Free]
    /\ UNCHANGED <<tree, antidists, lock, reading, telling, priority, data,
                   active, winner, shown, pending, frames, edits>>

(* report_result; the strategy is over, whatever its step does with it. *)
Report(i) ==
    LET s == strat[i].step
        over == [strat EXCEPT ![i] = Free]
    IN  /\ strat[i].at = "reporting"
        /\ lock[s] = None
        /\ IF ~Waited(i)
           THEN strat' = over /\ UNCHANGED <<active, winner, priority, shown>>
           ELSE IF strat[i].success
           THEN /\ strat' = [Dropped(active[s]) EXCEPT ![i] = Free]
                /\ active' = [active EXCEPT ![s] = {}]
                /\ winner' = [winner EXCEPT ![s] = strat[i].data]
                /\ UNCHANGED priority
                /\ Notify(s)
           ELSE /\ priority' = [priority EXCEPT ![s] = NextPriority(s)]
                /\ Launch(s, data[s], priority'[s], over)
                /\ UNCHANGED winner
                /\ Notify(s)
        /\ UNCHANGED <<tree, antidists, lock, reading, telling, data, pending, frames, edits>>

-----------------------------------------------------------------------------
Client ==
    \/ \E s \in Steps : SetSentence(s) \/ Orphan(s)
    \/ \E s, p \in Steps : Reparent(s, p)
    \/ SetAntidists

Searching(s) == RestartCoroutine(s) \/ ReadSentence(s) \/ ReadTree(s) \/ LaunchFirst(s)

Reloading == ReloadEnter \/ ReloadNext

Next ==
    \/ Client
    \/ \E s \in Steps : Searching(s)
    \/ Reloading
    \/ \E i \in Strats : Wake(i) \/ Take(i) \/ Finish(i) \/ Yield(i) \/ Report(i)

(* Threads and the clock go on.  The scheduler starves no coroutine, hence  *)
(* Take; every strategy is a bounded computation, hence Finish.             *)
Fairness ==
    /\ WF_vars(Reloading)
    /\ \A s \in Steps : WF_vars(Searching(s))
    /\ \A i \in Strats : /\ WF_vars(Wake(i)) /\ WF_vars(Report(i))
                         /\ SF_vars(Take(i)) /\ SF_vars(Finish(i))

Spec == Init /\ [][Next]_vars /\ Fairness

-----------------------------------------------------------------------------
(* The strategies a step waits for, and the proof it has found, are those   *)
(* of the data of its last restart: a strategy that outlives a restart      *)
(* changes nothing (restart_search and report_result, step.cpp:86-95 and    *)
(* 158-169).                                                                *)
CurrentDataOnly ==
    \A s \in Steps :
        /\ \A i \in active[s] : strat[i].step = s /\ strat[i].data = data[s]
        /\ winner[s] # None => winner[s] = data[s] /\ active[s] = {}

RestartDue(s) == pending[s] > 0 \/ \E c \in telling : parent[c] = s

Sentential(s) == [k \in DOMAIN children[s] |-> sentence[children[s][k]]]

(* When nobody is at work on a step and no restart of it is due, its search *)
(* and its proof are about its present sentence and the present sentences   *)
(* of its present children, in their order, and all of them parse           *)
(* (step.cpp:97-115, with the restarts of orphan, reparent, set_sentence).  *)
SnapshotFits ==
    \A s \in Steps :
        lock[s] = None /\ ~RestartDue(s) /\ (active[s] # {} \/ winner[s] # None) =>
            /\ data[s].thesis = sentence[s] /\ sentence[s] \in Parsing
            /\ data[s].hyps = Sentential(s) /\ data[s].trees = Sentential(s)
            /\ \A c \in Steps : parent[c] = s => sentence[c] \in Parsing

(* A client that asks for a step at each step_updated event knows whether   *)
(* it is searched and what was found (the calls of maybe_notify_update).    *)
StatusAnnounced == \A s \in Steps : lock[s] = None => shown[s] = Status(s)

(* Every strategy has failed on the data of s, or one has succeeded. *)
Decided(s) ==
    /\ lock[s] = None /\ pending[s] = 0 /\ active[s] = {}
    /\ IF sentence[s] \in Parsing /\ \A c \in Steps : parent[c] = s => sentence[c] \in Parsing
       THEN /\ data[s].thesis = sentence[s] /\ data[s].hyps = Sentential(s)
            /\ winner[s] # None \/ priority[s] = LastPriority + 1
       ELSE winner[s] = None

(* Once the clients stop editing, the search of every step is decided, with *)
(* all the strategies tried in their order, on what the tree then says.     *)
Settles == <>[](\A s \in Steps \ {Root} : Decided(s))

=============================================================================
