------------------------------ MODULE StepTree ------------------------------
(***************************************************************************)
(* The tree of steps and its locks (web/step.cpp, web/workset.cpp).  The   *)
(* threads of the HTTP server answer a request in two parts.  The first,   *)
(* under the mutex of the workset, finds the step and takes its mutex; it  *)
(* answers `get' and `dump' at once and leaves the others to a callback    *)
(* that runs when the POST data is complete, holding a shared pointer to   *)
(* the step but no mutex.  The callback takes the mutex of the step again, *)
(* and those of other steps as it goes, each operation in its own order.   *)
(* The workers of the thread manager restart the searches of parents.      *)
(*                                                                         *)
(* The links are kept as the code keeps them: a weak pointer to the parent *)
(* and a vector of weak pointers to the children.  A step lives as long as *)
(* the workset, a request or a waiting restart refers to it.  What the     *)
(* search does with the sentences is the subject of StepSearch.            *)
(***************************************************************************)
EXTENDS Integers, SequencesExt

CONSTANTS
    LastId,       \* bound: the last identifier given to a step
    Created,      \* the steps that exist at first
    Http,         \* the threads of the HTTP server
    Pool,         \* the workers of the thread manager
    None,
    Ops,          \* the operations clients ask for
    AdoptSelf,    \* whether a client may name a step as its own new parent
    Trees,        \* the trees clients may have built before, child -> parent
    MaxPending    \* bound: the restarts of parents that wait at a time

Root    == 0
Ids     == 0..LastId
Threads == Http \union Pool

Reading  == {"get", "dump"}
OnStep   == {"set_sentence", "orphan", "reparent", "destroy", "prove"}
OnWorkset == {"create", "create_from_dump", "set_antidists"}

ASSUME IdsAssumption     == LastId \in Nat /\ Created \in 1..(LastId + 1)
ASSUME BoundsAssumption  == MaxPending \in Nat /\ AdoptSelf \in BOOLEAN
ASSUME ThreadsAssumption ==
    Http \intersect Pool = {} /\ IsFiniteSet(Threads) /\ None \notin Threads \union Ids
ASSUME OpsAssumption     == Ops \subseteq Reading \union OnStep \union OnWorkset
ASSUME TreesAssumption   ==
    \A tree \in Trees :
        /\ tree \in [Ids -> Ids \union {None}]
        /\ \A s \in Ids : tree[s] # None => s < Created /\ tree[s] < Created
        /\ \A S \in SUBSET Ids : S # {} => \E s \in S : tree[s] \notin S

VARIABLES
    steps,      \* the identifiers in the workset's map
    nextId,     \* id_dist
    parent,     \* step -> its weak pointer to the parent
    children,   \* step -> its weak pointers to the children
    pending,    \* step -> restarts waiting in coroutines
    lock,       \* step -> the thread that holds its mutex, or None
    worksetLock,\* the thread that holds the workset's mutex, or None
    thread,     \* thread -> its operation and where it is in it
    patient     \* whether clients wait for every answer before they ask again

vars == <<steps, nextId, parent, children, pending, lock, worksetLock, thread, patient>>

links == <<parent, children>>
stock == <<steps, nextId>>

-----------------------------------------------------------------------------
(* `asked' and `under' are the identifiers in the request, `self' and       *)
(* `other' the shared pointers found for them.  `path' is the recursion of  *)
(* an operation, or the ancestors it has locked; `next' of a frame is the   *)
(* child it visits next.                                                    *)
Frame(s) == [step |-> s, next |-> 1]

Pointers(t) == {thread[t].self, thread[t].other} \union {f.step : f \in ToSet(thread[t].path)}

(* Some shared pointer refers to the step. *)
Alive(s) == s \in steps \/ pending[s] > 0 \/ \E t \in Threads : s \in Pointers(t)

(* this->parent.lock() *)
ParentOf(s) == IF parent[s] # None /\ Alive(parent[s]) THEN parent[s] ELSE None

At(t, pc) == thread[t].pc = pc
Op(t)     == thread[t].op
Self(t)   == thread[t].self
Other(t)  == thread[t].other
Path(t)   == thread[t].path
Top(t)    == Last(Path(t))

Onward(t, n) == [Path(t) EXCEPT ![Len(Path(t))] = [step |-> Top(t).step, next |-> n]]

MoreChildren(t) == Top(t).next <= Len(children[Top(t).step])
Child(t)        == children[Top(t).step][Top(t).next]

Free(t, s)    == lock[s] \in {None, t}
Locked(t, s)  == lock' = [lock EXCEPT ![s] = t]

(* The operation goes on: where it is, its other step and its recursion.    *)
Now(t, pc, other, path) ==
    thread' = [thread EXCEPT ![t] =
        [pc |-> pc, op |-> Op(t), asked |-> thread[t].asked, under |-> thread[t].under,
         index |-> thread[t].index, self |-> Self(t), other |-> other, path |-> path]]

Go(t, pc)       == Now(t, pc, Other(t), Path(t))
Visit(t, s, pc) == Now(t, pc, Other(t), <<Frame(s)>>)

(* The request or restart that a thread begins *)
Begun(pc, op, asked, under, index, self) ==
    [pc |-> pc, op |-> op, asked |-> asked, under |-> under, index |-> index,
     self |-> self, other |-> None, path |-> <<>>]

Idle == Begun("idle", "none", Root, Root, 1, None)

(* The guards go out of scope: every mutex of the thread is free again. *)
Unlocked(t, kept) == lock' = [s \in Ids |-> IF lock[s] = t /\ s \notin kept THEN None ELSE lock[s]]

Done(t) ==
    /\ thread' = [thread EXCEPT ![t] = Idle]
    /\ Unlocked(t, {})
    /\ worksetLock' = IF worksetLock = t THEN None ELSE worksetLock

Tellers == {t \in Http : Op(t) = "set_sentence"}

Waiting == FoldFunction(+, 0, pending) + Cardinality(Tellers)

-----------------------------------------------------------------------------
Init ==
    /\ parent \in Trees
    /\ steps = 0..(Created - 1)
    /\ nextId = Created
    /\ children = [p \in Ids |-> SetToSeq({c \in Ids : parent[c] = p})]
    /\ pending = [s \in Ids |-> 0]
    /\ lock = [s \in Ids |-> None]
    /\ worksetLock = None
    /\ thread = [t \in Threads |-> Idle]
    /\ patient \in BOOLEAN

(* A client may name any step it has heard of, destroyed ones included. *)
Request(t) ==
    /\ At(t, "idle")
    /\ patient => \A u \in Http : At(u, "idle")
    /\ \E op \in Ops, s, p \in 0..(nextId - 1), i \in 1..(LastId + 1) :
          /\ op \in OnWorkset => s = Root
          /\ IF op = "reparent" THEN AdoptSelf \/ s # p ELSE p = s /\ i = 1
          /\ op = "set_sentence" => Waiting < MaxPending
          /\ thread' = [thread EXCEPT ![t] =
                Begun(IF op \in OnWorkset THEN "workset" ELSE "dispatch", op, s, p, i, None)]
    /\ UNCHANGED <<stock, links, pending, lock, worksetLock>>

(* Workset::answer_api1 finds the step, or throws a 404. *)
Dispatch(t) ==
    /\ At(t, "dispatch") /\ worksetLock = None
    /\ IF thread[t].asked \in steps
       THEN /\ worksetLock' = t
            /\ thread' = [thread EXCEPT ![t] =
                  Begun("enter", Op(t), thread[t].asked, thread[t].under, thread[t].index, thread[t].asked)]
            /\ UNCHANGED lock
       ELSE Done(t)
    /\ UNCHANGED <<stock, links, pending>>

(* Step::answer_api1: `get' and `dump' are answered here, under both        *)
(* mutexes; the others throw WaitForPost, which releases them.              *)
Enter(t) ==
    /\ At(t, "enter") /\ Free(t, Self(t))
    /\ IF Op(t) \in Reading
       THEN /\ Locked(t, Self(t))
            /\ Visit(t, Self(t), IF Op(t) = "get" THEN "read" ELSE "walk")
            /\ UNCHANGED worksetLock
       ELSE /\ worksetLock' = None
            /\ Go(t, "start")
            /\ UNCHANGED lock
    /\ UNCHANGED <<stock, links, pending>>

(* A worker takes the coroutine that restarts a parent. *)
RestartCoroutine(t) ==
    /\ At(t, "idle")
    /\ \E s \in Ids : /\ pending[s] > 0
                      /\ pending' = [pending EXCEPT ![s] = @ - 1]
                      /\ thread' = [thread EXCEPT ![t] = Begun("start", "restart", Root, Root, 1, s)]
    /\ UNCHANGED <<stock, links, lock, worksetLock>>

-----------------------------------------------------------------------------

(* The callbacks on the workset *)
Create(t) ==
    /\ At(t, "workset") /\ Op(t) = "create" /\ worksetLock = None
    /\ nextId <= LastId
    /\ steps' = steps \union {nextId}
    /\ nextId' = nextId + 1
    /\ Done(t)
    /\ UNCHANGED <<links, pending>>

(* A dump of two steps: nobody knows them yet, their mutexes are free. *)
CreateStepsFromDump(t) ==
    /\ At(t, "workset") /\ Op(t) = "create_from_dump" /\ worksetLock = None
    /\ nextId < LastId
    /\ steps' = steps \union {nextId, nextId + 1}
    /\ nextId' = nextId + 2
    /\ parent' = [parent EXCEPT ![nextId + 1] = nextId]
    /\ children' = [children EXCEPT ![nextId] = <<nextId + 1>>]
    /\ Done(t)
    /\ UNCHANGED pending

SetAntidists(t) ==
    /\ At(t, "workset") /\ Op(t) = "set_antidists" /\ worksetLock = None
    /\ worksetLock' = t
    /\ thread' = [thread EXCEPT ![t] = Begun("start", "set_antidists", Root, Root, 1, Root)]
    /\ UNCHANGED <<stock, links, pending, lock>>

-----------------------------------------------------------------------------
(* The callbacks on a step, and restart_search, take its mutex first. *)
StartSearch(t) ==
    /\ Op(t) \in {"set_sentence", "restart"}
    /\ Visit(t, Self(t), "read")
    /\ Locked(t, Self(t)) /\ UNCHANGED worksetLock

StartWalk(t) ==
    /\ Op(t) \in {"prove", "set_antidists"}
    /\ Visit(t, Self(t), "walk")
    /\ Locked(t, Self(t)) /\ UNCHANGED worksetLock

StartOrphan(t) ==
    /\ Op(t) = "orphan"
    /\ IF ParentOf(Self(t)) = None THEN Done(t)
       ELSE /\ Now(t, "couple", ParentOf(Self(t)), <<>>)
            /\ Locked(t, Self(t)) /\ UNCHANGED worksetLock

StartReparent(t) ==
    /\ Op(t) = "reparent"
    /\ Go(t, "resolve")
    /\ Locked(t, Self(t)) /\ UNCHANGED worksetLock

StartDestroy_Child(t) ==
    /\ Op(t) = "destroy"
    /\ IF children[Self(t)] # <<>> THEN Done(t)
       ELSE Go(t, "erase") /\ Locked(t, Self(t)) /\ UNCHANGED worksetLock

StartDestroy(t) ==
    /\ Op(t) = "destroy"
    /\ IF ParentOf(Self(t)) # None \/ children[Self(t)] # <<>> THEN Done(t)
       ELSE Go(t, "erase") /\ Locked(t, Self(t)) /\ UNCHANGED worksetLock

Start(t) ==
    /\ At(t, "start") /\ Free(t, Self(t))
    /\ StartSearch(t) \/ StartWalk(t) \/ StartOrphan(t) \/ StartReparent(t) \/ StartDestroy(t)
    /\ UNCHANGED <<stock, links, pending>>

(* restart_search, or jsonize: the mutex of each child for a moment.  A     *)
(* sentence that does not parse ends the search early; the root has none.   *)
ReadChild(t) ==
    /\ At(t, "read") /\ MoreChildren(t) /\ (Op(t) = "get" \/ Top(t).step # Root)
    /\ Alive(Child(t)) /\ Free(t, Child(t))
    /\ Now(t, "read", Other(t), Onward(t, Top(t).next + 1))
    /\ UNCHANGED <<stock, links, pending, lock, worksetLock>>

FinishRead_RestartParent(t) ==
    /\ At(t, "read") /\ (Op(t) = "get" => ~MoreChildren(t))
    /\ IF Op(t) = "set_sentence" /\ Other(t) = None /\ ParentOf(Self(t)) # None
       THEN /\ Now(t, "couple", ParentOf(Self(t)), <<>>)
            /\ UNCHANGED <<lock, worksetLock, pending>>
       ELSE Done(t) /\ UNCHANGED pending
    /\ UNCHANGED <<stock, links>>

(* set_sentence then leaves the parent's search to a coroutine. *)
FinishRead(t) ==
    /\ At(t, "read") /\ (Op(t) = "get" => ~MoreChildren(t))
    /\ IF Op(t) = "set_antidists"
       THEN /\ Now(t, "walk", Other(t), Onward(t, 1))
            /\ UNCHANGED <<lock, worksetLock, pending>>
       ELSE /\ Done(t)
            /\ pending' = IF Op(t) = "set_sentence" /\ ParentOf(Self(t)) # None
                          THEN [pending EXCEPT ![ParentOf(Self(t))] = @ + 1] ELSE pending
    /\ UNCHANGED <<stock, links>>

(* dump, prove and workset_reload: down to the next child, keeping the      *)
(* mutexes of the steps above.                                              *)
WalkDown(t) ==
    /\ At(t, "walk") /\ MoreChildren(t) /\ Alive(Child(t)) /\ Free(t, Child(t))
    /\ Locked(t, Child(t))
    /\ Now(t, IF Op(t) = "set_antidists" THEN "read" ELSE "walk", Other(t),
           Append(Onward(t, Top(t).next + 1), Frame(Child(t))))
    /\ UNCHANGED <<stock, links, pending, worksetLock>>

WalkUp(t) ==
    /\ At(t, "walk") /\ ~MoreChildren(t)
    /\ IF Len(Path(t)) = 1 THEN Done(t)
       ELSE /\ Now(t, "walk", Other(t), Front(Path(t)))
            /\ Unlocked(t, {f.step : f \in ToSet(Front(Path(t)))})
            /\ UNCHANGED worksetLock
    /\ UNCHANGED <<stock, links, pending>>

-----------------------------------------------------------------------------
Resolve_Adopted(t) ==
    /\ At(t, "resolve") /\ worksetLock = None
    /\ IF thread[t].under \in steps
       THEN /\ Now(t, "couple", thread[t].under, <<>>)
            /\ UNCHANGED <<lock, worksetLock>>
       ELSE Done(t)
    /\ UNCHANGED <<stock, links, pending>>

(* The callback of reparent looks the new parent up in the workset.         *)
Resolve(t) ==
    /\ At(t, "resolve") /\ worksetLock = None
    /\ IF thread[t].under \in steps /\ ParentOf(Self(t)) = None
       THEN /\ Now(t, "couple", thread[t].under, <<>>)
            /\ UNCHANGED <<lock, worksetLock>>
       ELSE Done(t)
    /\ UNCHANGED <<stock, links, pending>>

Position(seq, s) == CHOOSE i \in DOMAIN seq : seq[i] = s

(* orphan, with both mutexes; after_orphaning restarts the parent. *)
Orphan(t) ==
    /\ At(t, "couple") /\ Op(t) = "orphan" /\ Free(t, Other(t))
    /\ Locked(t, Other(t))
    /\ parent' = [parent EXCEPT ![Self(t)] = None]
    /\ children' = [children EXCEPT ![Other(t)] = RemoveAt(@, Position(@, Self(t)))]
    /\ Visit(t, Other(t), "read")
    /\ UNCHANGED <<stock, pending, worksetLock>>

(* reparent, with both mutexes: the index, then reaches_by_parents *)
Reparent(t) ==
    /\ At(t, "couple") /\ Op(t) = "reparent" /\ Free(t, Other(t))
    /\ IF thread[t].index > Len(children[Other(t)]) + 1 THEN Done(t)
       ELSE Locked(t, Other(t)) /\ Visit(t, Other(t), "climb") /\ UNCHANGED worksetLock
    /\ UNCHANGED <<stock, links, pending>>

(* reaches_by_parents: one ancestor more, whose mutex it keeps *)
Climb(t) ==
    LET up == ParentOf(Top(t).step)
    IN  /\ At(t, "climb") /\ up # None
        /\ IF up = Self(t) THEN Done(t)
           ELSE /\ Free(t, up) /\ Locked(t, up)
                /\ Now(t, "climb", Other(t), Append(Path(t), Frame(up)))
                /\ UNCHANGED worksetLock
        /\ UNCHANGED <<stock, links, pending>>

Adopt_Unchecked(t) ==
    /\ At(t, "climb")
    /\ parent' = [parent EXCEPT ![Self(t)] = Other(t)]
    /\ children' = [children EXCEPT ![Other(t)] = InsertAt(@, thread[t].index, Self(t))]
    /\ Unlocked(t, {Self(t), Other(t)})
    /\ Visit(t, Other(t), "read")
    /\ UNCHANGED <<stock, pending, worksetLock>>

(* It returned false; after_adopting restarts the new parent. *)
Adopt(t) ==
    /\ At(t, "climb") /\ ParentOf(Top(t).step) = None
    /\ parent' = [parent EXCEPT ![Self(t)] = Other(t)]
    /\ children' = [children EXCEPT ![Other(t)] = InsertAt(@, thread[t].index, Self(t))]
    /\ Unlocked(t, {Self(t), Other(t)})
    /\ Visit(t, Other(t), "read")
    /\ UNCHANGED <<stock, pending, worksetLock>>

(* destroy: Workset::destroy_step keeps the root. *)
Erase(t) ==
    /\ At(t, "erase") /\ worksetLock = None
    /\ steps' = steps \ ({Self(t)} \ {Root})
    /\ Done(t)
    /\ UNCHANGED <<nextId, links, pending>>

-----------------------------------------------------------------------------
Edit(t) == Orphan(t) \/ Reparent(t) \/ Climb(t) \/ Adopt(t) \/ Resolve(t) \/ Erase(t)

Answer(t) == Start(t) \/ ReadChild(t) \/ FinishRead(t) \/ WalkDown(t) \/ WalkUp(t) \/ Edit(t)

Next ==
    \/ \E t \in Http : Request(t) \/ Dispatch(t) \/ Enter(t)
    \/ \E t \in Http : Create(t) \/ CreateStepsFromDump(t) \/ SetAntidists(t)
    \/ \E t \in Pool : RestartCoroutine(t)
    \/ \E t \in Threads : Answer(t)

Spec == Init /\ [][Next /\ UNCHANGED patient]_vars

-----------------------------------------------------------------------------
(* The two ends of every link agree, and no step is twice among a step's    *)
(* children: orphan relies on it (assert at step.cpp:308), whatever other   *)
(* threads do between the look at the parent and the lock.                  *)
LinksAgree ==
    \A p \in Ids : Alive(p) =>
        /\ IsInjective(children[p])
        /\ ToSet(children[p]) = {c \in Ids : parent[c] = p}

(* No step descends from itself (reaches_by_parents): in every set of steps *)
(* some step has its parent outside, or none.  The walks of dump, prove,    *)
(* workset_reload and reaches_by_parents end.                               *)
Forest == \A S \in SUBSET Ids : S # {} => \E s \in S : ParentOf(s) \notin S

(* A step of the workset has no dangling pointer among its children: the    *)
(* code follows them without a test (step.cpp:108, 559, 626, 640).          *)
ChildrenAlive == \A p \in steps : \A c \in ToSet(children[p]) : Alive(c)

(* A client that waits for its answers never leaves a step with a child     *)
(* that no longer exists.  Clients that do not could have one request adopt *)
(* the step that another destroys.                                          *)
ClientKeepsChildren == patient => ChildrenAlive

(* What a thread waits for *)
Wants(t) ==
    CASE thread[t].pc \in {"dispatch", "workset", "resolve", "erase"} -> {worksetLock}
      [] thread[t].pc \in {"enter", "start"} -> {lock[Self(t)]}
      [] thread[t].pc = "couple" -> {lock[Other(t)]}
      [] thread[t].pc = "climb" /\ ParentOf(Top(t).step) \notin {None, Self(t)} -> {lock[ParentOf(Top(t).step)]}
      [] thread[t].pc = "read" /\ MoreChildren(t) /\ (Op(t) = "get" \/ Top(t).step # Root) -> {lock[Child(t)]}
      [] thread[t].pc = "walk" /\ MoreChildren(t) -> {lock[Child(t)]}
      [] OTHER -> {}

(* The threads of T wait for each other in a circle. *)
Circle(T) == T # {} /\ \A t \in T : \E u \in T \ {t} : u \in Wants(t)

(* No threads wait for each other (step.cpp:63 "Restart search from a       *)
(* coroutine to avoid deadlocks", 296-298 "we can lock both this and the    *)
(* parent without fear of deadlocks").                                      *)
NoDeadlock == \A T \in SUBSET Threads : ~Circle(T)

(* What does not orphan, reparent or destroy goes down the tree, from the   *)
(* workset and from parent to child: however the tree changes meanwhile,    *)
(* such operations alone never block each other (step.cpp:63-68, 110, 559,  *)
(* 626 and 640).                                                            *)
Upwards == {"orphan", "reparent", "destroy"}

CirclesGoUp == \A T \in SUBSET Threads : Circle(T) => \E t \in T : Op(t) \in Upwards

=============================================================================
