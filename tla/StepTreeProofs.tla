--------------------------- MODULE StepTreeProofs ---------------------------
(***************************************************************************)
(* However many threads edit, walk and search the tree of steps at once:   *)
(* both ends of every link agree (LinksAgree), no step descends from       *)
(* itself (Forest), and threads wait for each other in a circle only when  *)
(* one of them orphans, reparents or destroys (CirclesGoUp), provided that *)
(* no client names a step as its own new parent; and a client that waits   *)
(* for its answers leaves no pointer to a dead child (ClientKeepsChildren).*)
(*                                                                         *)
(* The invariant says what a thread may rely on between two of its steps,  *)
(* because it holds the mutexes: its own step stays linked, or loose, as   *)
(* it found it; the ancestors that reaches_by_parents has climbed remain a *)
(* chain that does not contain the step to adopt; and the steps a walk     *)
(* goes down remain parent and child.  Forest and LinksAgree follow only   *)
(* together with these facts of all threads.                               *)
(***************************************************************************)
EXTENDS StepTree, ChildLists, WellFoundedInduction

Places == {"idle", "workset", "dispatch", "enter", "start", "couple", "resolve",
           "climb", "erase", "read", "walk"}

AllOps == Reading \union OnStep \union OnWorkset \union {"restart", "none"}

Frames == [step : Ids, next : Nat \ {0}]

Operations == [pc : Places, op : AllOps, asked : Ids, under : Ids, index : Nat \ {0},
               self : Ids \union {None}, other : Ids \union {None}, path : Seq(Frames)]

TypeOK ==
    /\ steps \in SUBSET Ids /\ Root \in steps
    /\ nextId \in 1..(LastId + 1)
    /\ parent \in [Ids -> Ids \union {None}]
    /\ children \in [Ids -> Seq(Ids)]
    /\ pending \in [Ids -> Nat]
    /\ lock \in [Ids -> Threads \union {None}]
    /\ worksetLock \in Threads \union {None}
    /\ thread \in [Threads -> Operations]

(* Nobody has heard of the steps that are still to come. *)
Known ==
    \A s \in Ids :
        /\ Alive(s) => s < nextId
        /\ parent[s] # None => s < nextId /\ parent[s] < nextId
        /\ lock[s] # None => s < nextId
        /\ s >= nextId => children[s] = <<>>

(* Where the operation of a thread is, and for whom *)
Placed(t) ==
    /\ ~At(t, "idle") /\ ~At(t, "dispatch") /\ ~At(t, "workset") => Self(t) \in Ids
    /\ At(t, "idle") \/ At(t, "dispatch") \/ At(t, "workset") => worksetLock # t
    /\ At(t, "idle") => Op(t) = "none"
    /\ At(t, "couple") => Other(t) \in Ids /\ Op(t) \in {"orphan", "reparent"}
    /\ At(t, "resolve") => Op(t) = "reparent"
    /\ At(t, "climb") => Other(t) \in Ids /\ Op(t) = "reparent"
    /\ At(t, "erase") => Op(t) = "destroy"
    /\ Op(t) = "reparent" => thread[t].asked # thread[t].under /\ Self(t) \in {None, thread[t].asked}

(* The mutexes it holds *)
Holds(t) ==
    /\ At(t, "couple") \/ At(t, "resolve") \/ At(t, "climb") \/ At(t, "erase") => lock[Self(t)] = t
    /\ At(t, "read") \/ At(t, "walk") \/ At(t, "climb") =>
          Path(t) # <<>> /\ \A i \in 1..Len(Path(t)) : lock[Path(t)[i].step] = t
    /\ Op(t) \notin Upwards =>
          \A s \in Ids : lock[s] = t =>
              (At(t, "read") \/ At(t, "walk")) /\ \E i \in 1..Len(Path(t)) : Path(t)[i].step = s

(* What it relies on *)
Linked(t) ==
    /\ At(t, "couple") /\ Op(t) = "orphan" => parent[Self(t)] = Other(t)
    /\ (At(t, "couple") /\ Op(t) = "reparent") \/ At(t, "climb") =>
          ParentOf(Self(t)) = None /\ Self(t) # Other(t)
    /\ At(t, "climb") =>
          /\ Path(t)[1].step = Other(t)
          /\ \A i \in 1..Len(Path(t)) : Path(t)[i].step # Self(t)
          /\ \A i \in 1..(Len(Path(t)) - 1) : parent[Path(t)[i].step] = Path(t)[i + 1].step
          /\ thread[t].index <= Len(children[Other(t)]) + 1
    /\ (At(t, "read") \/ At(t, "walk")) /\ Op(t) \notin Upwards =>
          \A i \in 1..(Len(Path(t)) - 1) : parent[Path(t)[i + 1].step] = Path(t)[i].step

Sound(t) == Placed(t) /\ Holds(t) /\ Linked(t)

IInv == TypeOK /\ Known /\ LinksAgree /\ Forest /\ \A t \in Threads : Sound(t)

-----------------------------------------------------------------------------
(* What a thread finds again after the steps of the others *)
Spares(u) ==
    /\ thread'[u] = thread[u]
    /\ worksetLock' = u => worksetLock = u
    /\ \A s \in Ids : /\ lock'[s] = u <=> lock[s] = u
                      /\ lock[s] = u => parent'[s] = parent[s] /\ children'[s] = children[s]

(* A step that nobody refers to any more never comes back. *)
NoReturn == \A s \in Ids : Alive(s)' => Alive(s) \/ (s \in steps' /\ s >= nextId)

LEMMA Parents ==
    ASSUME TypeOK, Known, NoReturn, NEW s \in Ids, parent'[s] = parent[s]
    PROVE  ParentOf(s)' \in {ParentOf(s), None}
BY DEF TypeOK, Known, NoReturn, ParentOf, Ids

LEMMA PathTyped ==
    ASSUME TypeOK, NEW t \in Threads
    PROVE  /\ Path(t) \in Seq(Frames) /\ Len(Path(t)) \in Nat
           /\ \A i \in 1..Len(Path(t)) : Path(t)[i].step \in Ids /\ Path(t)[i].next \in Nat \ {0}
<1>1. Path(t) \in Seq(Frames)
  BY DEF TypeOK, Operations, Path
<1>2. \A i \in 1..Len(Path(t)) : Path(t)[i] \in Frames
  BY <1>1
<1> QED  BY <1>1, <1>2 DEF Frames

LEMMA Spared ==
    ASSUME TypeOK, Known, NoReturn, NEW u \in Threads, Sound(u), Spares(u)
    PROVE  Sound(u)'
<1>1. Placed(u)'
  BY DEF Sound, Placed, Spares, At, Self, Other, Op
<1>2. /\ At(u, "couple") \/ At(u, "resolve") \/ At(u, "climb") \/ At(u, "erase") =>
            lock[Self(u)] = u /\ lock'[Self(u)] = u /\ parent'[Self(u)] = parent[Self(u)] /\ Self(u) \in Ids
      /\ At(u, "read") \/ At(u, "walk") \/ At(u, "climb") =>
            \A i \in 1..Len(Path(u)) :
                /\ lock'[Path(u)[i].step] = u
                /\ parent'[Path(u)[i].step] = parent[Path(u)[i].step]
                /\ children'[Path(u)[i].step] = children[Path(u)[i].step]
  BY PathTyped DEF Sound, Placed, Holds, Spares, At
<1>3. Path(u)' = Path(u) /\ Self(u)' = Self(u) /\ Other(u)' = Other(u) /\ Op(u)' = Op(u)
      /\ \A pc : At(u, pc)' <=> At(u, pc)
  BY DEF Spares, Path, Self, Other, Op, At
<1>4. Holds(u)'
  <2>1. \A s \in Ids : lock'[s] = u => lock[s] = u
    BY DEF Spares
  <2> QED  BY <1>2, <1>3, <2>1 DEF Sound, Holds
<1>5. Linked(u)'
  <2>1. ASSUME NEW s \in Ids, s = Self(u), (At(u, "couple") /\ Op(u) = "reparent") \/ At(u, "climb")
        PROVE  ParentOf(s)' = None /\ s # Other(u)
    <3>1. ParentOf(s) = None /\ s # Other(u)
      BY <2>1 DEF Sound, Linked
    <3>2. parent'[s] = parent[s]
      BY <1>2, <2>1
    <3> QED  BY <3>1, <3>2, Parents
  <2>2. ASSUME At(u, "climb")
        PROVE  /\ Path(u)[1].step = Other(u)
               /\ \A i \in 1..Len(Path(u)) : Path(u)[i].step # Self(u)
               /\ \A i \in 1..(Len(Path(u)) - 1) : parent'[Path(u)[i].step] = Path(u)[i + 1].step
               /\ thread[u].index <= Len(children'[Other(u)]) + 1
    <3>1. Path(u) # <<>>
      BY <2>2 DEF Sound, Holds
    <3>2. 1 \in 1..Len(Path(u))
      BY <3>1, PathTyped
    <3>3. children'[Path(u)[1].step] = children[Path(u)[1].step]
      BY <1>2, <2>2, <3>2
    <3>4. /\ Path(u)[1].step = Other(u)
          /\ \A i \in 1..Len(Path(u)) : Path(u)[i].step # Self(u)
          /\ \A i \in 1..(Len(Path(u)) - 1) : parent[Path(u)[i].step] = Path(u)[i + 1].step
          /\ thread[u].index <= Len(children[Other(u)]) + 1
      BY <2>2 DEF Sound, Linked
    <3>5. \A i \in 1..(Len(Path(u)) - 1) : i \in 1..Len(Path(u))
      BY PathTyped
    <3>6. \A i \in 1..(Len(Path(u)) - 1) : parent'[Path(u)[i].step] = Path(u)[i + 1].step
      BY <1>2, <2>2, <3>4, <3>5
    <3> QED  BY <3>3, <3>4, <3>6
  <2>3. ASSUME At(u, "read") \/ At(u, "walk"), Op(u) \notin Upwards
        PROVE  \A i \in 1..(Len(Path(u)) - 1) : parent'[Path(u)[i + 1].step] = Path(u)[i].step
    <3>1. \A i \in 1..(Len(Path(u)) - 1) : i + 1 \in 1..Len(Path(u))
      BY PathTyped
    <3>2. \A i \in 1..(Len(Path(u)) - 1) : parent[Path(u)[i + 1].step] = Path(u)[i].step
      BY <2>3 DEF Sound, Linked
    <3> QED  BY <1>2, <2>3, <3>1, <3>2
  <2>4. At(u, "couple") /\ Op(u) = "orphan" => parent'[Self(u)] = Other(u)
    BY <1>2 DEF Sound, Linked
  <2>5. thread'[u].index = thread[u].index
    BY DEF Spares
  <2>6. At(u, "couple") \/ At(u, "climb") => Self(u) \in Ids
    BY <1>2
  <2>7. (At(u, "couple") /\ Op(u) = "reparent") \/ At(u, "climb") =>
           (ParentOf(Self(u)) = None /\ Self(u) # Other(u))'
    BY <1>3, <2>1, <2>6
  <2> QED  BY <1>3, <2>2, <2>3, <2>4, <2>5, <2>7 DEF Linked
<1> QED  BY <1>1, <1>4, <1>5 DEF Sound

(* Where no link changes *)
LEMMA Still ==
    ASSUME TypeOK, Known, NoReturn, LinksAgree, Forest, UNCHANGED links
    PROVE  LinksAgree' /\ Forest'
<1>1. parent' = parent /\ children' = children
  BY DEF links
<1>2. LinksAgree'
  <2> SUFFICES ASSUME NEW p \in Ids, Alive(p)'
               PROVE  IsInjective(children[p]) /\ ToSet(children[p]) = {c \in Ids : parent[c] = p}
    BY <1>1 DEF LinksAgree
  <2>1. CASE Alive(p)
    BY <2>1 DEF LinksAgree
  <2>2. CASE p >= nextId
    <3>1. children[p] = <<>> /\ \A c \in Ids : parent[c] # p
      BY <2>2, ThreadsAssumption DEF Known, TypeOK, Ids
    <3> QED  BY <3>1 DEF IsInjective, ToSet
  <2> QED  BY <2>1, <2>2 DEF NoReturn
<1>3. Forest'
  <2> SUFFICES ASSUME NEW S \in SUBSET Ids, S # {}
               PROVE  \E s \in S : ParentOf(s)' \notin S
    BY DEF Forest
  <2>1. PICK s \in S : ParentOf(s) \notin S
    BY DEF Forest
  <2>2. ParentOf(s)' \in {ParentOf(s), None}
    BY <1>1, Parents
  <2> QED  BY <2>1, <2>2, ThreadsAssumption
<1> QED  BY <1>2, <1>3

(* The invariant after a step of one thread, from what the step does *)
LEMMA Kept ==
    ASSUME IInv, NEW t \in Threads, TypeOK', Known', NoReturn, LinksAgree', Forest', Sound(t)',
           \A u \in Threads \ {t} : Spares(u)
    PROVE  IInv'
BY Spared DEF IInv

(* What a thread may come to refer to *)
Refers(r) ==
    /\ r \in Operations
    /\ {r.self, r.other} \ {None} \subseteq {s \in Ids : Alive(s)}
    /\ \A i \in 1..Len(r.path) : Alive(r.path[i].step)

(* A thread takes and releases mutexes of steps it refers to. *)
Mutexes(t) ==
    /\ lock' \in [Ids -> Threads \union {None}]
    /\ \A s \in Ids : lock'[s] # lock[s] => lock[s] \in {None, t} /\ lock'[s] \in {None, t}
    /\ \A s \in Ids : lock'[s] # None => lock[s] # None \/ Alive(s)
    /\ worksetLock' \in {worksetLock, None, t}

LEMMA Referred ==
    ASSUME TypeOK, NEW t \in Threads, NEW r, Refers(r), thread' = [thread EXCEPT ![t] = r],
           \A s \in Ids : pending'[s] > 0 => Alive(s),
           \A s \in Ids : s \in steps' => s \in steps \/ s >= nextId
    PROVE  NoReturn
<1>1. \A u \in Threads \ {t} : Pointers(u)' = Pointers(u)
  BY DEF TypeOK, Pointers
<1>2. ASSUME NEW s \in Ids, s \in Pointers(t)'
      PROVE  Alive(s)
  <2>1. thread'[t] = r
    BY DEF TypeOK
  <2>2. Pointers(t)' = {r.self, r.other} \union {f.step : f \in ToSet(r.path)}
    BY <2>1 DEF Pointers
  <2>3. DOMAIN r.path = 1..Len(r.path)
    BY DEF Refers, Operations
  <2>4. CASE s \in {r.self, r.other}
    BY <2>4, ThreadsAssumption DEF Refers
  <2>5. CASE s \in {f.step : f \in ToSet(r.path)}
    BY <2>3, <2>5 DEF Refers, ToSet
  <2> QED  BY <1>2, <2>2, <2>4, <2>5
<1> QED  BY <1>1, <1>2 DEF NoReturn, Alive

(* A step that changes no link *)
LEMMA Plain ==
    ASSUME IInv, NEW t \in Threads, NEW r, Refers(r), thread' = [thread EXCEPT ![t] = r],
           UNCHANGED <<nextId, links>>, steps' \subseteq steps, Root \in steps',
           pending' \in [Ids -> Nat], \A s \in Ids : pending'[s] > 0 => Alive(s),
           Mutexes(t), Sound(t)'
    PROVE  IInv'
<1>1. NoReturn
  BY Referred DEF IInv, Refers, TypeOK
<1>2. TypeOK'
  BY DEF IInv, TypeOK, Refers, Mutexes, links
<1>3. Known'
  <2> SUFFICES ASSUME NEW s \in Ids
               PROVE  /\ Alive(s)' => s < nextId
                      /\ parent[s] # None => s < nextId /\ parent[s] < nextId
                      /\ lock'[s] # None => s < nextId
                      /\ s >= nextId => children[s] = <<>>
    BY DEF Known, links
  <2>1. Alive(s)' => Alive(s)
    BY <1>1 DEF NoReturn, Alive
  <2> QED  BY <2>1 DEF IInv, Known, Mutexes
<1>4. LinksAgree' /\ Forest'
  BY <1>1, Still DEF IInv
<1>5. \A u \in Threads \ {t} : Spares(u)
  BY ThreadsAssumption DEF IInv, TypeOK, Spares, Mutexes, links
<1> QED  BY <1>1, <1>2, <1>3, <1>4, <1>5, Kept

LEMMA IdleRefers == Refers(Idle)
BY IdsAssumption DEF Refers, Idle, Begun, Operations, Places, AllOps, Ids, Root

LEMMA LockedMutexes ==
    ASSUME TypeOK, NEW t \in Threads, NEW s \in Ids, Alive(s), Free(t, s), Locked(t, s),
           worksetLock' \in {worksetLock, None, t}
    PROVE  Mutexes(t)
BY DEF TypeOK, Mutexes, Locked, Free

LEMMA UnlockedMutexes ==
    ASSUME TypeOK, NEW t \in Threads, NEW kept, Unlocked(t, kept), worksetLock' \in {worksetLock, None, t}
    PROVE  Mutexes(t)
BY ThreadsAssumption DEF TypeOK, Mutexes, Unlocked

LEMMA SameMutexes ==
    ASSUME TypeOK, NEW t \in Threads, UNCHANGED lock, worksetLock' \in {worksetLock, None, t}
    PROVE  Mutexes(t)
BY DEF TypeOK, Mutexes

LEMMA DoneSound ==
    ASSUME TypeOK, NEW t \in Threads, Done(t)
    PROVE  Sound(t)' /\ Mutexes(t) /\ thread' = [thread EXCEPT ![t] = Idle]
<1>1. thread'[t] = Idle
  BY DEF TypeOK, Done
<1>2. worksetLock' # t /\ \A s \in Ids : lock'[s] # t
  BY ThreadsAssumption DEF TypeOK, Done, Unlocked
<1>3. worksetLock' \in {worksetLock, None, t}
  BY DEF Done
<1>4. Mutexes(t)
  BY <1>3, UnlockedMutexes DEF Done
<1>5. Sound(t)'
  BY <1>1, <1>2 DEF Sound, Placed, Holds, Linked, At, Op, Self, Other, Path, Idle, Begun
<1> QED  BY <1>4, <1>5 DEF Done

(* An operation that ends, or fails, without a change to the links *)
LEMMA Ended ==
    ASSUME IInv, NEW t \in Threads, Done(t), UNCHANGED <<nextId, links>>,
           steps' \subseteq steps, Root \in steps',
           pending' \in [Ids -> Nat], \A s \in Ids : pending'[s] > 0 => Alive(s)
    PROVE  IInv'
BY DoneSound, IdleRefers, Plain DEF IInv

-----------------------------------------------------------------------------
LEMMA InitIInv == Init => IInv
<1> SUFFICES ASSUME Init PROVE IInv
  OBVIOUS
<1>1. TypeOK
  <2>1. \A p \in Ids : SetToSeq({c \in Ids : parent[c] = p}) \in Seq(Ids)
    <3> TAKE p \in Ids
    <3> DEFINE S == {c \in Ids : parent[c] = p}
    <3>1. IsFiniteSet(Ids)
      BY IdsAssumption, FS_Interval DEF Ids
    <3>2. IsFiniteSet(S)
      BY <3>1, FS_Subset
    <3>3. SetToSeq(S) \in Seq(S)
      BY <3>2, Listed
    <3> QED  BY <3>3
  <2>2. steps \in SUBSET Ids /\ Root \in steps /\ nextId \in 1..(LastId + 1)
    BY IdsAssumption DEF Init, Ids, Root
  <2>3. thread \in [Threads -> Operations]
    BY IdleRefers DEF Init, Refers
  <2> QED  BY <2>1, <2>2, <2>3, TreesAssumption DEF Init, TypeOK
<1>2. \A s \in Ids : Alive(s) => s \in steps
  <2>1. \A t \in Threads : Pointers(t) = {None}
    BY DEF Init, Pointers, Idle, Begun, ToSet
  <2> QED  BY <2>1, ThreadsAssumption DEF Init, Alive
<1>3. /\ parent \in Trees /\ steps = 0..(Created - 1) /\ nextId = Created
      /\ children = [p \in Ids |-> SetToSeq({c \in Ids : parent[c] = p})]
      /\ lock = [s \in Ids |-> None] /\ worksetLock = None
      /\ thread = [t \in Threads |-> Idle]
  BY DEF Init
<1>4. \A p \in Ids : /\ IsInjective(children[p])
                     /\ ToSet(children[p]) = {c \in Ids : parent[c] = p}
  <2> TAKE p \in Ids
  <2> DEFINE S == {c \in Ids : parent[c] = p}
  <2>1. IsFiniteSet(Ids)
    BY IdsAssumption, FS_Interval DEF Ids
  <2>2. IsFiniteSet(S)
    BY <2>1, FS_Subset
  <2>3. IsInjective(SetToSeq(S)) /\ ToSet(SetToSeq(S)) = S
    BY <2>2, Listed
  <2> QED  BY <1>3, <2>3
<1>5. Known
  <2> SUFFICES ASSUME NEW s \in Ids
               PROVE  /\ Alive(s) => s < nextId
                      /\ parent[s] # None => s < nextId /\ parent[s] < nextId
                      /\ lock[s] # None => s < nextId
                      /\ s >= nextId => children[s] = <<>>
    BY DEF Known
  <2>1. Alive(s) => s < nextId
    BY <1>2, <1>3, IdsAssumption
  <2>2. parent[s] # None => s < nextId /\ parent[s] < nextId
    BY <1>3, TreesAssumption
  <2>3. s >= nextId => children[s] = <<>>
    <3>1. ASSUME s >= nextId
          PROVE  ToSet(children[s]) = {}
      <4>1. ASSUME NEW c \in Ids, parent[c] = s
            PROVE  FALSE
        <5>1. parent[c] # None /\ parent[c] \in Int
          BY <4>1, ThreadsAssumption DEF Ids
        <5>2. parent[c] < Created /\ Created \in Int /\ nextId = Created
          BY <1>3, <5>1, TreesAssumption, IdsAssumption
        <5> QED  BY <3>1, <4>1, <5>1, <5>2
      <4> QED  BY <1>4, <4>1
    <3>2. children[s] \in Seq(Ids)
      BY <1>1 DEF TypeOK
    <3>3. children[s] # <<>> => 1 \in DOMAIN children[s]
      BY <3>2
    <3> QED  BY <3>1, <3>3 DEF ToSet
  <2> QED  BY <1>3, <2>1, <2>2, <2>3
<1>6. Forest
  <2> SUFFICES ASSUME NEW S \in SUBSET Ids, S # {}
               PROVE  \E s \in S : ParentOf(s) \notin S
    BY DEF Forest
  <2>1. PICK s \in S : parent[s] \notin S
    BY <1>3, TreesAssumption
  <2> QED  BY <2>1, ThreadsAssumption DEF ParentOf
<1>7. \A t \in Threads : Sound(t)
  <2> TAKE t \in Threads
  <2>1. thread[t] = Idle /\ worksetLock # t /\ \A s \in Ids : lock[s] # t
    BY <1>3, ThreadsAssumption
  <2> QED  BY <2>1 DEF Sound, Placed, Holds, Linked, At, Op, Self, Other, Path, Idle, Begun
<1> QED  BY <1>1, <1>4, <1>5, <1>6, <1>7 DEF IInv, LinksAgree

-----------------------------------------------------------------------------
(* A thread refers to its steps. *)
LEMMA OwnAlive ==
    ASSUME TypeOK, NEW t \in Threads
    PROVE  /\ Self(t) \in Ids => Alive(Self(t))
           /\ Other(t) \in Ids => Alive(Other(t))
           /\ \A i \in 1..Len(Path(t)) : Alive(Path(t)[i].step)
<1>1. \A i \in 1..Len(Path(t)) : Path(t)[i].step \in Pointers(t)
  <2> TAKE i \in 1..Len(Path(t))
  <2>1. i \in DOMAIN Path(t)
    BY PathTyped
  <2> QED  BY <2>1 DEF Pointers, ToSet, Path
<1> QED  BY <1>1 DEF Alive, Pointers, Self, Other

LEMMA NowAt ==
    ASSUME TypeOK, NEW t \in Threads, NEW pc, NEW other, NEW path, Now(t, pc, other, path)
    PROVE  /\ \A x : At(t, x)' <=> pc = x
           /\ Op(t)' = Op(t) /\ Self(t)' = Self(t) /\ Other(t)' = other /\ Path(t)' = path
           /\ thread'[t].asked = thread[t].asked /\ thread'[t].under = thread[t].under
           /\ thread'[t].index = thread[t].index
BY DEF TypeOK, Now, At, Op, Self, Other, Path

(* An operation that goes on, without a change to the links *)
LEMMA Gone ==
    ASSUME IInv, NEW t \in Threads, NEW pc \in Places, NEW other, NEW path \in Seq(Frames),
           Now(t, pc, other, path), other \in {None} \union {s \in Ids : Alive(s)},
           \A i \in 1..Len(path) : Alive(path[i].step),
           UNCHANGED <<stock, links, pending>>, Mutexes(t)
    PROVE  NoReturn /\ (Sound(t)' => IInv')
<1> DEFINE r == [pc |-> pc, op |-> Op(t), asked |-> thread[t].asked, under |-> thread[t].under,
                 index |-> thread[t].index, self |-> Self(t), other |-> other, path |-> path]
<1>1. r \in Operations
  BY DEF IInv, TypeOK, Operations, Op, Self
<1>2. Refers(r)
  <2>1. r.self = Self(t) /\ r.other = other /\ r.path = path
    OBVIOUS
  <2>2. Self(t) \in Ids \union {None}
    BY DEF IInv, TypeOK, Operations, Self
  <2>3. Self(t) # None => Self(t) \in Ids /\ Alive(Self(t))
    BY <2>2, OwnAlive DEF IInv
  <2> HIDE DEF r
  <2> QED  BY <1>1, <2>1, <2>3 DEF Refers
<1>3. thread' = [thread EXCEPT ![t] = r]
  BY DEF Now
<1> HIDE DEF r
<1>4. /\ UNCHANGED <<nextId, links>> /\ steps' \subseteq steps /\ Root \in steps'
      /\ pending' \in [Ids -> Nat] /\ \A s \in Ids : pending'[s] > 0 => Alive(s)
      /\ \A s \in Ids : s \in steps' => s \in steps \/ s >= nextId
  BY DEF IInv, TypeOK, stock, Alive
<1>5. NoReturn
  BY <1>2, <1>3, <1>4, Referred DEF IInv
<1> QED  BY <1>2, <1>3, <1>4, <1>5, Plain

LEMMA RequestKeeps ==
    ASSUME ~AdoptSelf, IInv, NEW t \in Http, Request(t)
    PROVE  IInv'
<1>1. t \in Threads /\ At(t, "idle")
  BY DEF Request, Threads
<1>2. PICK op \in Ops, s, p \in 0..(nextId - 1), i \in 1..(LastId + 1) :
          /\ IF op = "reparent" THEN AdoptSelf \/ s # p ELSE p = s /\ i = 1
          /\ thread' = [thread EXCEPT ![t] =
                Begun(IF op \in OnWorkset THEN "workset" ELSE "dispatch", op, s, p, i, None)]
  BY DEF Request
<1> DEFINE r == Begun(IF op \in OnWorkset THEN "workset" ELSE "dispatch", op, s, p, i, None)
<1>3. r \in Operations
  <2>1. s \in Ids /\ p \in Ids /\ i \in Nat \ {0} /\ op \in AllOps
    BY IdsAssumption, OpsAssumption DEF IInv, TypeOK, Ids, AllOps
  <2> QED  BY <2>1 DEF Begun, Operations, Places
<1>4. Refers(r)
  BY <1>3 DEF Refers, Begun
<1>5. worksetLock # t /\ \A x \in Ids : lock[x] # t
  BY <1>1 DEF IInv, Sound, Placed, Holds, At, Upwards
<1>6. /\ UNCHANGED <<stock, links, pending, lock, worksetLock>>
      /\ thread'[t] = r
  BY <1>1, <1>2 DEF Request, IInv, TypeOK
<1>7. Mutexes(t)
  BY <1>1, <1>6, SameMutexes DEF IInv
<1>8. Sound(t)'
  BY <1>2, <1>5, <1>6 DEF Sound, Placed, Holds, Linked, At, Op, Self, Other, Path, Begun
<1> QED  BY <1>1, <1>2, <1>4, <1>6, <1>7, <1>8, Plain DEF IInv, TypeOK, stock, Alive

LEMMA DispatchKeeps ==
    ASSUME IInv, NEW t \in Http, Dispatch(t)
    PROVE  IInv'
<1>1. t \in Threads /\ At(t, "dispatch") /\ UNCHANGED <<stock, links, pending>>
  BY DEF Dispatch, Threads
<1>2. steps' = steps /\ Root \in steps' /\ nextId' = nextId /\ pending' \in [Ids -> Nat]
      /\ \A s \in Ids : pending'[s] > 0 => Alive(s)
  BY <1>1 DEF IInv, TypeOK, stock, Alive
<1>3. CASE thread[t].asked \in steps
  <2> DEFINE r == Begun("enter", Op(t), thread[t].asked, thread[t].under, thread[t].index, thread[t].asked)
  <2>1. /\ worksetLock' = t /\ UNCHANGED lock
        /\ thread' = [thread EXCEPT ![t] = r]
    BY <1>3 DEF Dispatch
  <2>2. r \in Operations /\ thread'[t] = r
    BY <1>1, <2>1 DEF IInv, TypeOK, Operations, Begun, Places, Op
  <2>3. Refers(r)
    BY <1>3, <2>2 DEF Refers, Begun, Alive, IInv, TypeOK
  <2>4. Op(t) \notin Upwards => \A x \in Ids : lock[x] # t
    BY <1>1 DEF IInv, Sound, Holds, At
  <2>5. thread[t].asked \in Ids /\ (Op(t) = "reparent" => thread[t].asked # thread[t].under)
    BY <1>1, <1>3 DEF IInv, TypeOK, Sound, Placed
  <2>6. Sound(t)'
    BY <2>1, <2>2, <2>4, <2>5 DEF Sound, Placed, Holds, Linked, At, Op, Self, Other, Path, Begun
  <2>7. Mutexes(t)
    BY <1>1, <2>1, SameMutexes DEF IInv
  <2> QED  BY <1>1, <1>2, <2>1, <2>3, <2>6, <2>7, Plain
<1>4. CASE thread[t].asked \notin steps
  BY <1>1, <1>2, <1>4, Ended DEF Dispatch
<1> QED  BY <1>3, <1>4

LEMMA EnterKeeps ==
    ASSUME IInv, NEW t \in Http, Enter(t)
    PROVE  IInv'
<1>1. t \in Threads /\ At(t, "enter") /\ UNCHANGED <<stock, links, pending>> /\ Free(t, Self(t))
  BY DEF Enter, Threads
<1>2. TypeOK /\ Sound(t) /\ Self(t) \in Ids /\ Alive(Self(t)) /\ Other(t) \in {None} \union {s \in Ids : Alive(s)}
  <2>1. TypeOK /\ Sound(t) /\ Self(t) \in Ids /\ Other(t) \in Ids \union {None}
    BY <1>1 DEF IInv, TypeOK, Operations, Other, Sound, Placed, At
  <2> QED  BY <1>1, <2>1, OwnAlive
<1>3. Op(t) \notin Upwards => \A x \in Ids : lock[x] # t
  BY <1>1, <1>2 DEF Sound, Holds, At
<1>4. CASE Op(t) \in Reading
  <2> DEFINE pc == IF Op(t) = "get" THEN "read" ELSE "walk"
             path == <<Frame(Self(t))>>
  <2>1. Locked(t, Self(t)) /\ Now(t, pc, Other(t), path) /\ UNCHANGED worksetLock
    BY <1>4 DEF Enter, Visit
  <2>2. path \in Seq(Frames) /\ Len(path) = 1 /\ path[1].step = Self(t) /\ pc \in Places
    BY <1>2 DEF Frame, Frames, Places
  <2>3. Mutexes(t)
    BY <1>1, <1>2, <2>1, LockedMutexes
  <2>4. lock'[Self(t)] = t /\ \A x \in Ids : lock'[x] = t => x = Self(t)
    BY <1>2, <1>3, <1>4, <2>1 DEF Locked, TypeOK, Reading, Upwards
  <2> HIDE DEF path
  <2>5. Sound(t)'
    BY SMTT(30), <1>1, <1>2, <1>4, <2>1, <2>2, <2>4, NowAt DEF Sound, Placed, Holds, Linked, Reading
  <2> QED  BY <1>1, <1>2, <2>1, <2>2, <2>3, <2>5, Gone
<1>5. CASE Op(t) \notin Reading
  <2>1. Now(t, "start", Other(t), Path(t)) /\ worksetLock' = None /\ UNCHANGED lock
    BY <1>5 DEF Enter, Go
  <2>2. Mutexes(t)
    BY <1>1, <1>2, <2>1, SameMutexes
  <2>3. Sound(t)'
    BY <1>1, <1>2, <1>3, <2>1, NowAt DEF Sound, Placed, Holds, Linked
  <2> QED  BY <1>1, <1>2, <2>1, <2>2, <2>3, PathTyped, OwnAlive, Gone DEF Places
<1> QED  BY <1>4, <1>5

LEMMA RestartKeeps ==
    ASSUME IInv, NEW t \in Pool, RestartCoroutine(t)
    PROVE  IInv'
<1>1. t \in Threads /\ At(t, "idle") /\ UNCHANGED <<stock, links, lock, worksetLock>>
  BY DEF RestartCoroutine, Threads
<1>2. PICK s \in Ids : /\ pending[s] > 0
                      /\ pending' = [pending EXCEPT ![s] = @ - 1]
                      /\ thread' = [thread EXCEPT ![t] = Begun("start", "restart", Root, Root, 1, s)]
  BY DEF RestartCoroutine
<1> DEFINE r == Begun("start", "restart", Root, Root, 1, s)
<1>3. r \in Operations /\ thread'[t] = r
  BY <1>1, <1>2, IdsAssumption DEF IInv, TypeOK, Operations, Begun, Places, AllOps, Ids, Root
<1>4. Refers(r)
  BY <1>2, <1>3 DEF Refers, Begun, Alive
<1>5. \A x \in Ids : lock[x] # t
  BY <1>1 DEF IInv, Sound, Placed, Holds, At, Upwards
<1>6. Sound(t)'
  BY <1>1, <1>3, <1>5 DEF Sound, Placed, Holds, Linked, At, Op, Self, Other, Path, Begun
<1>7. Mutexes(t)
  BY <1>1, SameMutexes DEF IInv
<1>8. pending' \in [Ids -> Nat] /\ \A x \in Ids : pending'[x] > 0 => Alive(x)
  BY <1>2 DEF IInv, TypeOK, Alive
<1>9. steps' \subseteq steps /\ Root \in steps' /\ UNCHANGED <<nextId, links>>
  BY <1>1 DEF IInv, TypeOK, stock
<1> QED  BY <1>1, <1>2, <1>4, <1>6, <1>7, <1>8, <1>9, Plain

LEMMA SetAntidistsKeeps ==
    ASSUME IInv, NEW t \in Http, SetAntidists(t)
    PROVE  IInv'
<1>1. /\ t \in Threads /\ At(t, "workset") /\ Op(t) = "set_antidists"
      /\ UNCHANGED <<stock, links, pending, lock>> /\ worksetLock' = t
      /\ thread' = [thread EXCEPT ![t] = Begun("start", "set_antidists", Root, Root, 1, Root)]
  BY DEF SetAntidists, Threads
<1> DEFINE r == Begun("start", "set_antidists", Root, Root, 1, Root)
<1>2. r \in Operations /\ thread'[t] = r
  BY <1>1, IdsAssumption DEF IInv, TypeOK, Operations, Begun, Places, AllOps, OnWorkset, Ids, Root
<1>3. Refers(r)
  BY <1>2 DEF Refers, Begun, Alive, IInv, TypeOK
<1>4. \A x \in Ids : lock[x] # t
  BY <1>1 DEF IInv, Sound, Holds, At, Upwards
<1>5. Sound(t)'
  BY <1>1, <1>2, <1>4, IdsAssumption DEF Sound, Placed, Holds, Linked, At, Op, Self, Other, Path, Begun, Ids, Root
<1>6. Mutexes(t)
  BY <1>1, SameMutexes DEF IInv
<1>7. steps' \subseteq steps /\ Root \in steps' /\ UNCHANGED <<nextId, links>> /\ pending' \in [Ids -> Nat]
      /\ \A x \in Ids : pending'[x] > 0 => Alive(x)
  BY <1>1 DEF IInv, TypeOK, stock, Alive
<1> QED  BY <1>1, <1>3, <1>5, <1>6, <1>7, Plain

-----------------------------------------------------------------------------
LEMMA StartKeeps ==
    ASSUME IInv, NEW t \in Threads, Start(t)
    PROVE  IInv'
<1>1. At(t, "start") /\ UNCHANGED <<stock, links, pending>> /\ Free(t, Self(t))
  BY DEF Start
<1>2. /\ TypeOK /\ Sound(t) /\ Self(t) \in Ids /\ Alive(Self(t))
      /\ Other(t) \in {None} \union {s \in Ids : Alive(s)}
  <2>1. TypeOK /\ Sound(t) /\ Self(t) \in Ids /\ Other(t) \in Ids \union {None}
    BY <1>1 DEF IInv, TypeOK, Operations, Other, Sound, Placed, At
  <2> QED  BY <1>1, <2>1, OwnAlive
<1>3. ParentOf(Self(t)) \in {None} \union {s \in Ids : Alive(s)}
  BY <1>2 DEF TypeOK, ParentOf
<1>4. Op(t) \notin Upwards => \A x \in Ids : lock[x] # t
  BY <1>1, <1>2 DEF Sound, Holds, At
<1>5. Done(t) => IInv'
  BY <1>1, Ended DEF IInv, TypeOK, stock, Alive
<1>6. CASE Locked(t, Self(t)) /\ UNCHANGED worksetLock
  <2>1. Mutexes(t)
    BY <1>1, <1>2, <1>6, LockedMutexes
  <2>2. lock'[Self(t)] = t /\ (Op(t) \notin Upwards => \A x \in Ids : lock'[x] = t => x = Self(t))
    BY <1>2, <1>4, <1>6 DEF Locked, TypeOK
  <2>3. UNCHANGED parent
    BY <1>1 DEF links
  <2>4. ASSUME NEW pc \in {"read", "walk"}, Visit(t, Self(t), pc), Op(t) # "reparent"
        PROVE  IInv'
    <3> DEFINE path == <<Frame(Self(t))>>
    <3>1. Now(t, pc, Other(t), path)
      BY <2>4 DEF Visit
    <3>2. path \in Seq(Frames) /\ Len(path) = 1 /\ path[1].step = Self(t) /\ path # <<>> /\ pc \in Places
      BY <1>2 DEF Frame, Frames, Places
    <3> HIDE DEF path
    <3>3. Sound(t)'
      BY <1>1, <1>2, <1>6, <2>2, <2>4, <3>1, <3>2, NowAt DEF Sound, Placed, Holds, Linked
    <3> QED  BY <1>1, <1>2, <2>1, <3>1, <3>2, <3>3, Gone
  <2>5. CASE StartOrphan(t) /\ ParentOf(Self(t)) # None
    <3>1. Now(t, "couple", ParentOf(Self(t)), <<>>) /\ Op(t) = "orphan"
      BY <2>5, <1>6, ThreadsAssumption DEF StartOrphan, Done, Unlocked, Locked
    <3>2. ParentOf(Self(t)) \in Ids /\ parent'[Self(t)] = ParentOf(Self(t))
      BY <1>3, <2>3, <2>5 DEF ParentOf
    <3> DEFINE o == ParentOf(Self(t))
               none == <<>>
    <3>3. /\ none \in Seq(Frames) /\ "couple" \in Places
          /\ \A i \in 1..Len(none) : Alive(none[i].step)
      BY DEF Places
    <3> HIDE DEF o, none
    <3>4. Now(t, "couple", o, none) /\ o \in Ids /\ parent'[Self(t)] = o
      BY <3>1, <3>2 DEF o, none
    <3>5. Sound(t)'
      BY <1>1, <1>2, <1>6, <2>2, <3>1, <3>4, NowAt DEF Sound, Placed, Holds, Linked, Upwards
    <3>6. o \in {None} \union {s \in Ids : Alive(s)}
      BY <1>3 DEF o
    <3> QED  BY <1>1, <2>1, <3>3, <3>4, <3>5, <3>6, Gone
  <2>6. CASE StartReparent(t)
    <3>1. Now(t, "resolve", Other(t), Path(t)) /\ Op(t) = "reparent"
      BY <2>6 DEF StartReparent, Go
    <3>2. Sound(t)'
      BY <1>1, <1>2, <1>6, <2>2, <3>1, NowAt DEF Sound, Placed, Holds, Linked, Upwards
    <3> QED  BY <1>1, <1>2, <2>1, <3>1, <3>2, PathTyped, OwnAlive, Gone DEF Places
  <2>7. CASE StartDestroy(t) /\ ~Done(t)
    <3>1. Now(t, "erase", Other(t), Path(t)) /\ Op(t) = "destroy"
      BY <2>7 DEF StartDestroy, Go
    <3>2. Sound(t)'
      BY <1>1, <1>2, <1>6, <2>2, <3>1, NowAt DEF Sound, Placed, Holds, Linked, Upwards
    <3> QED  BY <1>1, <1>2, <2>1, <3>1, <3>2, PathTyped, OwnAlive, Gone DEF Places
  <2>8. StartSearch(t) => IInv'
    BY <2>4 DEF StartSearch
  <2>9. StartWalk(t) => IInv'
    BY <2>4 DEF StartWalk
  <2> QED  BY <1>5, <2>5, <2>6, <2>7, <2>8, <2>9 DEF Start, StartOrphan
<1>7. Done(t) \/ (Locked(t, Self(t)) /\ UNCHANGED worksetLock)
  BY DEF Start, StartSearch, StartWalk, StartOrphan, StartReparent, StartDestroy
<1> QED  BY <1>5, <1>6, <1>7

(* The recursion moves on at its last frame. *)
LEMMA OnwardTyped ==
    ASSUME TypeOK, NEW t \in Threads, Path(t) # <<>>, NEW n \in Nat \ {0}
    PROVE  /\ Onward(t, n) \in Seq(Frames) /\ Len(Onward(t, n)) = Len(Path(t))
           /\ \A i \in 1..Len(Path(t)) : Onward(t, n)[i].step = Path(t)[i].step
           /\ Len(Path(t)) \in 1..Len(Path(t)) /\ Top(t) = Path(t)[Len(Path(t))]
           /\ Top(t).step \in Ids /\ Top(t).next \in Nat \ {0}
<1>1. Len(Path(t)) \in 1..Len(Path(t)) /\ Top(t) = Path(t)[Len(Path(t))]
  BY PathTyped DEF Top, Last
<1>2. Top(t).step \in Ids /\ Top(t).next \in Nat \ {0}
  BY <1>1, PathTyped
<1> DEFINE f == [step |-> Top(t).step, next |-> n]
<1>3. f \in Frames /\ f.step = Top(t).step
  BY <1>2 DEF Frames
<1> HIDE DEF f
<1>4. Onward(t, n) = [Path(t) EXCEPT ![Len(Path(t))] = f]
  BY DEF Onward, f
<1>5. Onward(t, n) \in Seq(Frames) /\ Len(Onward(t, n)) = Len(Path(t))
  BY <1>1, <1>3, <1>4, PathTyped, ExceptSeq
<1>6. \A i \in 1..Len(Path(t)) : Onward(t, n)[i].step = Path(t)[i].step
  BY <1>1, <1>3, <1>4, PathTyped, ExceptSeq
<1> QED  BY <1>1, <1>2, <1>5, <1>6

LEMMA ReadKeeps ==
    ASSUME IInv, NEW t \in Threads, ReadChild(t) \/ FinishRead(t)
    PROVE  IInv'
<1>1. TypeOK /\ Sound(t) /\ At(t, "read") /\ Self(t) \in Ids /\ Other(t) \in {None} \union {s \in Ids : Alive(s)}
  <2>1. TypeOK /\ Sound(t) /\ At(t, "read") /\ Self(t) \in Ids /\ Other(t) \in Ids \union {None}
    BY DEF ReadChild, FinishRead, IInv, TypeOK, Operations, Other, Sound, Placed, At
  <2> QED  BY <2>1, OwnAlive
<1>2. Path(t) # <<>> /\ Len(Path(t)) \in 1..Len(Path(t)) /\ Top(t).next \in Nat \ {0}
  BY <1>1, OnwardTyped DEF Sound, Holds
<1>3. ASSUME NEW pc \in {"read", "walk"}, NEW n \in Nat \ {0}, Now(t, pc, Other(t), Onward(t, n)),
             UNCHANGED <<stock, links, pending, lock, worksetLock>>
      PROVE  IInv'
  <2> DEFINE path == Onward(t, n)
  <2>1. /\ path \in Seq(Frames) /\ Len(path) = Len(Path(t)) /\ path # <<>>
        /\ \A i \in 1..Len(Path(t)) : path[i].step = Path(t)[i].step
    <3>1. /\ path \in Seq(Frames) /\ Len(path) = Len(Path(t))
          /\ \A i \in 1..Len(Path(t)) : path[i].step = Path(t)[i].step
      BY <1>1, <1>2, OnwardTyped
    <3> HIDE DEF path
    <3>2. path # <<>>
      BY <1>2, <3>1
    <3> QED  BY <3>1, <3>2
  <2> HIDE DEF path
  <2>2. Now(t, pc, Other(t), path) /\ pc \in Places
    BY <1>3 DEF path, Places
  <2>3. Mutexes(t)
    BY <1>1, <1>3, SameMutexes
  <2>4. UNCHANGED <<parent, lock, worksetLock>>
    BY <1>3 DEF links
  <2>5. \A i \in 1..(Len(Path(t)) - 1) : i \in 1..Len(Path(t)) /\ i + 1 \in 1..Len(Path(t))
    BY <1>2
  <2>6. Holds(t)'
    BY <1>1, <1>3, <2>1, <2>2, <2>4, NowAt DEF Sound, Holds
  <2>7. Linked(t)'
    <3>1. Op(t) \notin Upwards =>
             \A i \in 1..(Len(Path(t)) - 1) : parent'[path[i + 1].step] = path[i].step
      BY <1>1, <2>1, <2>4, <2>5 DEF Sound, Linked
    <3>2. /\ At(t, pc)' /\ ~At(t, "couple")' /\ ~At(t, "climb")' /\ Op(t)' = Op(t) /\ Path(t)' = path
      BY <1>1, <2>2, NowAt
    <3> QED  BY <2>1, <3>1, <3>2 DEF Linked
  <2>8. Placed(t)'
    BY <1>1, <1>3, <2>2, <2>4, NowAt DEF Sound, Placed
  <2>9. \A i \in 1..Len(path) : Alive(path[i].step)
    BY <1>1, <2>1, OwnAlive
  <2> QED  BY <1>1, <1>3, <2>1, <2>2, <2>3, <2>6, <2>7, <2>8, <2>9, Gone DEF Sound
<1>4. CASE ReadChild(t)
  BY <1>2, <1>3, <1>4 DEF ReadChild
<1>5. CASE FinishRead(t) /\ Op(t) = "set_antidists"
  BY <1>3, <1>5 DEF FinishRead
<1>6. CASE FinishRead(t) /\ Op(t) # "set_antidists"
  <2>1. Done(t) /\ UNCHANGED <<stock, links>>
    BY <1>6 DEF FinishRead
  <2>2. pending' \in [Ids -> Nat] /\ \A s \in Ids : pending'[s] > 0 => Alive(s)
    <3> DEFINE p == ParentOf(Self(t))
    <3>1. p # None => p \in Ids /\ Alive(p)
      BY <1>1 DEF ParentOf, TypeOK
    <3>2. pending' = IF Op(t) = "set_sentence" /\ p # None THEN [pending EXCEPT ![p] = @ + 1] ELSE pending
      BY <1>6 DEF FinishRead
    <3> HIDE DEF p
    <3> QED  BY <1>1, <3>1, <3>2 DEF TypeOK, Alive
  <2> QED  BY <2>1, <2>2, Ended DEF IInv, TypeOK, stock
<1> QED  BY <1>4, <1>5, <1>6

LEMMA WalkDownKeeps ==
    ASSUME IInv, NEW t \in Threads, WalkDown(t)
    PROVE  IInv'
<1>1. /\ At(t, "walk") /\ UNCHANGED <<stock, links, pending, worksetLock>>
      /\ MoreChildren(t) /\ Alive(Child(t)) /\ Free(t, Child(t)) /\ Locked(t, Child(t))
  BY DEF WalkDown
<1>2. TypeOK /\ Sound(t) /\ Self(t) \in Ids /\ Other(t) \in {None} \union {s \in Ids : Alive(s)}
  <2>1. TypeOK /\ Sound(t) /\ Self(t) \in Ids /\ Other(t) \in Ids \union {None}
    BY <1>1 DEF IInv, TypeOK, Operations, Other, Sound, Placed, At
  <2> QED  BY <2>1, OwnAlive
<1>3. Path(t) # <<>> /\ Len(Path(t)) \in 1..Len(Path(t)) /\ Top(t).next \in Nat \ {0}
      /\ Top(t) = Path(t)[Len(Path(t))] /\ Top(t).step \in Ids
  BY <1>1, <1>2, OnwardTyped DEF Sound, Holds
<1> DEFINE c == Child(t)
           top == Onward(t, Top(t).next + 1)
           path == Append(top, Frame(c))
           pc == IF Op(t) = "set_antidists" THEN "read" ELSE "walk"
<1>4. c \in Ids /\ parent[c] = Top(t).step
  <2>1. children[Top(t).step] \in Seq(Ids) /\ Top(t).next \in 1..Len(children[Top(t).step])
    BY <1>1, <1>2, <1>3 DEF TypeOK, MoreChildren
  <2>2. c \in Ids /\ c \in ToSet(children[Top(t).step])
    BY <2>1 DEF Child, ToSet
  <2>3. Alive(Top(t).step)
    BY <1>2, <1>3, OwnAlive
  <2> QED  BY <1>3, <2>2, <2>3 DEF IInv, LinksAgree
<1>5. /\ top \in Seq(Frames) /\ Len(top) = Len(Path(t))
      /\ \A i \in 1..Len(Path(t)) : top[i].step = Path(t)[i].step
  BY <1>2, <1>3, OnwardTyped
<1>6. Frame(c) \in Frames /\ Frame(c).step = c /\ pc \in Places
  BY <1>4 DEF Frame, Frames, Places
<1>7. Now(t, pc, Other(t), path) /\ Alive(c) /\ Free(t, c) /\ Locked(t, c)
  BY <1>1 DEF WalkDown
<1> HIDE DEF c, top
<1>8. /\ path \in Seq(Frames) /\ path # <<>> /\ Len(path) = Len(Path(t)) + 1
      /\ \A i \in 1..Len(Path(t)) : path[i].step = Path(t)[i].step
      /\ path[Len(Path(t)) + 1].step = c
  BY <1>3, <1>5, <1>6, AppendProperties
<1> HIDE DEF path
<1>9. \A i \in 1..Len(path) : i \in 1..Len(Path(t)) \/ i = Len(Path(t)) + 1
  BY <1>3, <1>8
<1>10. \A i \in 1..Len(path) : Alive(path[i].step) /\ lock'[path[i].step] = t
  <2>1. \A i \in 1..Len(Path(t)) : Alive(Path(t)[i].step) /\ lock[Path(t)[i].step] = t
                                  /\ Path(t)[i].step \in Ids
    BY <1>1, <1>2, OwnAlive, PathTyped DEF Sound, Holds
  <2>2. \A s \in Ids : lock[s] = t => lock'[s] = t
    BY <1>2, <1>7 DEF Locked, TypeOK
  <2>3. lock'[c] = t
    BY <1>2, <1>4, <1>7 DEF Locked, TypeOK
  <2> QED  BY <1>7, <1>8, <1>9, <2>1, <2>2, <2>3
<1>11. Mutexes(t)
  BY <1>1, <1>2, <1>4, <1>7, LockedMutexes
<1>12. /\ ~At(t, "idle")' /\ ~At(t, "dispatch")' /\ ~At(t, "workset")' /\ ~At(t, "couple")' /\ ~At(t, "climb")'
       /\ ~At(t, "resolve")' /\ ~At(t, "erase")' /\ (At(t, "read") \/ At(t, "walk"))'
       /\ Op(t)' = Op(t) /\ Path(t)' = path /\ Self(t)' = Self(t)
       /\ thread'[t].asked = thread[t].asked /\ thread'[t].under = thread[t].under
  BY <1>2, <1>7, NowAt
<1>13. Placed(t)'
  BY <1>2, <1>12 DEF Sound, Placed
<1>14. Holds(t)'
  <2>1. Op(t) \notin Upwards =>
          \A s \in Ids : lock'[s] = t => \E i \in 1..Len(path) : path[i].step = s
    <3> SUFFICES ASSUME Op(t) \notin Upwards, NEW s \in Ids, lock'[s] = t
                 PROVE  \E i \in 1..Len(path) : path[i].step = s
      OBVIOUS
    <3>1. CASE s = c
      BY <1>3, <1>8, <3>1
    <3>2. CASE s # c
      <4>1. lock[s] = t
        BY <1>2, <1>7, <3>2 DEF Locked, TypeOK
      <4>2. PICK i \in 1..Len(Path(t)) : Path(t)[i].step = s
        BY <1>2, <4>1 DEF Sound, Holds
      <4> QED  BY <1>3, <1>8, <4>2
    <3> QED  BY <3>1, <3>2
  <2> QED  BY <1>8, <1>10, <1>12, <2>1 DEF Holds
<1>15. Linked(t)'
  <2>1. Op(t) \notin Upwards =>
          \A i \in 1..(Len(path) - 1) : parent'[path[i + 1].step] = path[i].step
    <3> SUFFICES ASSUME Op(t) \notin Upwards, NEW i \in 1..(Len(path) - 1)
                 PROVE  parent[path[i + 1].step] = path[i].step
      BY <1>1 DEF links
    <3>1. CASE i = Len(Path(t))
      BY <1>3, <1>4, <1>8, <3>1
    <3>2. CASE i # Len(Path(t))
      <4>1. i \in 1..(Len(Path(t)) - 1) /\ i \in 1..Len(Path(t)) /\ i + 1 \in 1..Len(Path(t))
        BY <1>3, <1>8, <3>2
      <4> QED  BY <1>1, <1>2, <1>8, <4>1 DEF Sound, Linked
    <3> QED  BY <3>1, <3>2
  <2> QED  BY <1>12, <2>1 DEF Linked
<1> QED  BY <1>1, <1>2, <1>6, <1>7, <1>8, <1>10, <1>11, <1>13, <1>14, <1>15, Gone DEF Sound

LEMMA WalkUpKeeps ==
    ASSUME IInv, NEW t \in Threads, WalkUp(t)
    PROVE  IInv'
<1>1. At(t, "walk") /\ UNCHANGED <<stock, links, pending>>
  BY DEF WalkUp
<1>2. TypeOK /\ Sound(t) /\ Self(t) \in Ids /\ Other(t) \in {None} \union {s \in Ids : Alive(s)}
  <2>1. TypeOK /\ Sound(t) /\ Self(t) \in Ids /\ Other(t) \in Ids \union {None}
    BY <1>1 DEF IInv, TypeOK, Operations, Other, Sound, Placed, At
  <2> QED  BY <2>1, OwnAlive
<1>3. CASE Len(Path(t)) = 1
  BY <1>1, <1>3, Ended DEF WalkUp, IInv, TypeOK, stock, Alive
<1>4. CASE Len(Path(t)) # 1
  <2> DEFINE path == Front(Path(t))
             kept == {f.step : f \in ToSet(path)}
  <2>1. Now(t, "walk", Other(t), path) /\ Unlocked(t, kept) /\ UNCHANGED worksetLock
    BY <1>4 DEF WalkUp
  <2>2. Path(t) # <<>> /\ Len(Path(t)) \in Nat /\ Len(Path(t)) >= 2
    <3>1. Path(t) # <<>>
      BY <1>1, <1>2 DEF Sound, Holds
    <3>2. Len(Path(t)) \in 1..Len(Path(t)) /\ Len(Path(t)) \in Nat
      BY <1>2, <3>1, OnwardTyped, PathTyped
    <3> QED  BY <1>4, <3>1, <3>2
  <2>3. /\ path \in Seq(Frames) /\ Len(path) = Len(Path(t)) - 1
        /\ \A i \in 1..Len(path) : i \in 1..Len(Path(t)) /\ path[i] = Path(t)[i]
    BY <1>2, <2>2, PathTyped, SubSeqProperties DEF Front
  <2> HIDE DEF path
  <2>4. path # <<>> /\ \A s : s \in kept <=> \E i \in 1..Len(path) : path[i].step = s
    BY <2>2, <2>3 DEF ToSet
  <2>5. Mutexes(t)
    BY <1>2, <2>1, UnlockedMutexes
  <2>6. \A s \in Ids : lock'[s] = t <=> lock[s] = t /\ s \in kept
    BY <1>2, <2>1, ThreadsAssumption DEF Unlocked
  <2> HIDE DEF kept
  <2>7. /\ ~At(t, "idle")' /\ ~At(t, "dispatch")' /\ ~At(t, "workset")' /\ ~At(t, "couple")' /\ ~At(t, "climb")'
        /\ ~At(t, "resolve")' /\ ~At(t, "erase")' /\ At(t, "walk")'
        /\ Op(t)' = Op(t) /\ Path(t)' = path /\ Self(t)' = Self(t)
        /\ thread'[t].asked = thread[t].asked /\ thread'[t].under = thread[t].under
    BY <1>2, <2>1, NowAt
  <2>8. Placed(t)'
    BY <1>2, <2>7 DEF Sound, Placed
  <2>9. \A i \in 1..Len(path) : Alive(path[i].step) /\ path[i].step \in Ids /\ lock'[path[i].step] = t
    <3>1. \A i \in 1..Len(Path(t)) : Alive(Path(t)[i].step) /\ Path(t)[i].step \in Ids /\ lock[Path(t)[i].step] = t
      BY <1>1, <1>2, OwnAlive, PathTyped DEF Sound, Holds
    <3> QED  BY <2>3, <2>4, <2>6, <3>1
  <2>10. Holds(t)'
    BY <2>4, <2>6, <2>7, <2>9 DEF Holds
  <2>11. Linked(t)'
    <3>1. \A i \in 1..(Len(path) - 1) : /\ i \in 1..(Len(Path(t)) - 1) /\ path[i] = Path(t)[i]
                                         /\ path[i + 1] = Path(t)[i + 1]
      BY <2>2, <2>3
    <3>2. Op(t) \notin Upwards => \A i \in 1..(Len(path) - 1) : parent[path[i + 1].step] = path[i].step
      BY <1>1, <1>2, <3>1 DEF Sound, Linked
    <3> QED  BY <1>1, <2>7, <3>2 DEF Linked, links
  <2> QED  BY <1>1, <1>2, <2>1, <2>3, <2>5, <2>8, <2>9, <2>10, <2>11, Gone DEF Sound, Places
<1> QED  BY <1>3, <1>4

-----------------------------------------------------------------------------
LEMMA ResolveKeeps ==
    ASSUME IInv, NEW t \in Threads, Resolve(t)
    PROVE  IInv'
<1>1. At(t, "resolve") /\ UNCHANGED <<stock, links, pending>>
  BY DEF Resolve
<1>2. TypeOK /\ Known /\ Sound(t) /\ Self(t) \in Ids /\ lock[Self(t)] = t /\ Op(t) = "reparent"
      /\ Self(t) # thread[t].under
  <2>1. TypeOK /\ Known /\ Sound(t) /\ Self(t) \in Ids /\ lock[Self(t)] = t /\ Op(t) = "reparent"
    BY <1>1 DEF IInv, Sound, Placed, Holds, At
  <2> QED  BY <2>1, ThreadsAssumption DEF Sound, Placed
<1>3. CASE thread[t].under \in steps /\ ParentOf(Self(t)) = None
  <2> DEFINE none == <<>>
             o == thread[t].under
  <2>1. Now(t, "couple", o, none) /\ UNCHANGED <<lock, worksetLock>>
    BY <1>3 DEF Resolve
  <2>2. none \in Seq(Frames) /\ "couple" \in Places /\ \A i \in 1..Len(none) : Alive(none[i].step)
    BY DEF Places
  <2>3. o \in Ids /\ o \in {None} \union {s \in Ids : Alive(s)}
    BY <1>2, <1>3 DEF TypeOK, Alive
  <2>4. Mutexes(t)
    BY <1>2, <2>1, SameMutexes
  <2> HIDE DEF none
  <2>5. NoReturn /\ (Sound(t)' => IInv')
    <3> HIDE DEF o
    <3> QED  BY <1>1, <2>1, <2>2, <2>3, <2>4, Gone
  <2>6. ASSUME NEW s \in Ids, s = Self(t)
        PROVE  ParentOf(s)' = None
    <3>1. parent'[s] = parent[s] /\ ParentOf(s) = None
      BY <1>1, <1>3, <2>6 DEF links
    <3> QED  BY <1>2, <2>5, <3>1, Parents
  <2>7. (ParentOf(Self(t)) = None)'
    <3>1. Self(t)' = Self(t)
      BY <1>2, <2>1, NowAt
    <3> QED  BY <1>2, <2>6, <3>1
  <2>8. Sound(t)'
    <3>1. /\ At(t, "couple")' /\ \A x \in Places \ {"couple"} : ~At(t, x)'
          /\ Op(t)' = Op(t) /\ Self(t)' = Self(t) /\ Other(t)' = o
          /\ thread'[t].asked = thread[t].asked /\ thread'[t].under = thread[t].under
      BY <1>2, <2>1, NowAt
    <3>2. Placed(t)'
      BY <1>2, <2>3, <3>1 DEF Sound, Placed, Places
    <3>3. Holds(t)'
      BY <1>2, <2>1, <3>1 DEF Holds, Upwards, Places
    <3>4. Linked(t)'
      BY <1>2, <2>7, <3>1 DEF Linked, Places, Upwards
    <3> QED  BY <3>2, <3>3, <3>4 DEF Sound
  <2> QED  BY <2>5, <2>8
<1>4. CASE ~(thread[t].under \in steps /\ ParentOf(Self(t)) = None)
  BY <1>1, <1>4, Ended DEF Resolve, IInv, TypeOK, stock, Alive
<1> QED  BY <1>3, <1>4

LEMMA EraseKeeps ==
    ASSUME IInv, NEW t \in Threads, Erase(t)
    PROVE  IInv'
BY Ended DEF Erase, IInv, TypeOK, Alive

LEMMA ReparentKeeps ==
    ASSUME IInv, NEW t \in Threads, Reparent(t)
    PROVE  IInv'
<1>1. At(t, "couple") /\ Op(t) = "reparent" /\ Free(t, Other(t)) /\ UNCHANGED <<stock, links, pending>>
  BY DEF Reparent
<1>2. /\ TypeOK /\ Known /\ Sound(t) /\ Self(t) \in Ids /\ lock[Self(t)] = t
      /\ Other(t) \in Ids /\ Alive(Other(t)) /\ ParentOf(Self(t)) = None /\ Self(t) # Other(t)
  <2>1. /\ TypeOK /\ Known /\ Sound(t) /\ Self(t) \in Ids /\ lock[Self(t)] = t /\ Other(t) \in Ids
        /\ ParentOf(Self(t)) = None /\ Self(t) # Other(t)
    BY <1>1 DEF IInv, Sound, Placed, Holds, Linked, At
  <2> QED  BY <2>1, OwnAlive
<1>3. CASE thread[t].index <= Len(children[Other(t)]) + 1
  <2> DEFINE path == <<Frame(Other(t))>>
             o == Other(t)
  <2>1. thread[t].index \in Nat /\ Len(children[Other(t)]) \in Nat
    <3>1. thread[t] \in Operations /\ children[Other(t)] \in Seq(Ids)
      BY <1>2 DEF TypeOK
    <3>2. thread[t].index \in Nat
      BY <3>1 DEF Operations
    <3> QED  BY <3>1, <3>2
  <2>2. Locked(t, o) /\ Now(t, "climb", o, path) /\ UNCHANGED worksetLock
    BY <1>3, <2>1 DEF Reparent, Visit
  <2>3. /\ path \in Seq(Frames) /\ "climb" \in Places /\ Len(path) = 1 /\ path[1].step = o /\ path # <<>>
        /\ \A i \in 1..Len(path) : path[i].step = o /\ Alive(path[i].step)
        /\ 1..(Len(path) - 1) = {}
    BY <1>2 DEF Places, Frame, Frames
  <2>4. Mutexes(t)
    BY <1>1, <1>2, <2>2, LockedMutexes
  <2> HIDE DEF path
  <2>5. NoReturn /\ (Sound(t)' => IInv')
    BY <1>1, <1>2, <2>2, <2>3, <2>4, Gone
  <2>6. ASSUME NEW s \in Ids, s = Self(t)
        PROVE  ParentOf(s)' = None
    <3>1. parent'[s] = parent[s] /\ ParentOf(s) = None
      BY <1>1, <1>2, <2>6 DEF links
    <3> QED  BY <1>2, <2>5, <3>1, Parents
  <2>7. (ParentOf(Self(t)) = None)'
    <3>1. Self(t)' = Self(t)
      BY <1>2, <2>2, NowAt
    <3> QED  BY <1>2, <2>6, <3>1
  <2>8. Sound(t)'
    <3>1. /\ At(t, "climb")' /\ \A x \in Places \ {"climb"} : ~At(t, x)'
          /\ Op(t)' = Op(t) /\ Self(t)' = Self(t) /\ Other(t)' = o /\ Path(t)' = path
          /\ thread'[t].asked = thread[t].asked /\ thread'[t].under = thread[t].under
          /\ thread'[t].index = thread[t].index
      BY <1>2, <2>2, NowAt
    <3>2. Placed(t)'
      BY <1>1, <1>2, <3>1 DEF Sound, Placed, Places
    <3>3. lock'[Self(t)] = t /\ lock'[o] = t
      BY <1>2, <2>2 DEF Locked, TypeOK
    <3> HIDE DEF o
    <3>4. Holds(t)'
      BY <1>1, <2>3, <3>1, <3>3 DEF Holds, Upwards, Places
    <3>5. o # Self(t) /\ thread[t].index <= Len(children'[o]) + 1
      BY <1>1, <1>2, <1>3 DEF o, links
    <3>6. Linked(t)'
      BY <2>3, <2>7, <3>1, <3>5 DEF Linked, Places
    <3> QED  BY <3>2, <3>4, <3>6 DEF Sound
  <2> QED  BY <2>5, <2>8
<1>4. CASE ~(thread[t].index <= Len(children[Other(t)]) + 1)
  <2>1. thread[t].index > Len(children[Other(t)]) + 1
    BY <1>2, <1>4 DEF TypeOK, Operations
  <2> QED  BY <1>1, <2>1, Ended DEF Reparent, IInv, TypeOK, stock, Alive
<1> QED  BY <1>3, <1>4

(* The ancestors that reaches_by_parents has locked *)
LEMMA Climbing ==
    ASSUME IInv, NEW t \in Threads, At(t, "climb")
    PROVE  /\ TypeOK /\ Known /\ Sound(t) /\ Self(t) \in Ids /\ lock[Self(t)] = t /\ Op(t) = "reparent"
           /\ Other(t) \in Ids /\ Alive(Other(t)) /\ ParentOf(Self(t)) = None /\ Self(t) # Other(t)
           /\ Path(t) \in Seq(Frames) /\ Path(t) # <<>> /\ Len(Path(t)) \in Nat
           /\ 1 \in 1..Len(Path(t)) /\ Len(Path(t)) \in 1..Len(Path(t))
           /\ Path(t)[1].step = Other(t) /\ Top(t) = Path(t)[Len(Path(t))]
           /\ \A i \in 1..Len(Path(t)) : /\ Path(t)[i].step \in Ids /\ Alive(Path(t)[i].step)
                                         /\ Path(t)[i].step # Self(t) /\ lock[Path(t)[i].step] = t
           /\ \A i \in 1..(Len(Path(t)) - 1) : parent[Path(t)[i].step] = Path(t)[i + 1].step
           /\ thread[t].index \in 1..(Len(children[Other(t)]) + 1)
<1>1. /\ TypeOK /\ Known /\ Sound(t) /\ Self(t) \in Ids /\ lock[Self(t)] = t /\ Op(t) = "reparent"
      /\ Other(t) \in Ids /\ ParentOf(Self(t)) = None /\ Self(t) # Other(t)
      /\ Path(t) # <<>> /\ \A i \in 1..Len(Path(t)) : lock[Path(t)[i].step] = t
      /\ Path(t)[1].step = Other(t)
      /\ \A i \in 1..Len(Path(t)) : Path(t)[i].step # Self(t)
      /\ \A i \in 1..(Len(Path(t)) - 1) : parent[Path(t)[i].step] = Path(t)[i + 1].step
      /\ thread[t].index <= Len(children[Other(t)]) + 1
  BY DEF IInv, Sound, Placed, Holds, Linked, At
<1>2. Len(Path(t)) \in 1..Len(Path(t)) /\ Top(t) = Path(t)[Len(Path(t))]
  BY <1>1, PathTyped DEF Top, Last
<1>3. /\ Path(t) \in Seq(Frames) /\ Len(Path(t)) \in Nat
      /\ \A i \in 1..Len(Path(t)) : Path(t)[i].step \in Ids /\ Alive(Path(t)[i].step)
      /\ Alive(Other(t))
  BY <1>1, PathTyped, OwnAlive
<1>4. 1 \in 1..Len(Path(t))
  BY <1>2, <1>3
<1>5. thread[t].index \in Nat \ {0} /\ Len(children[Other(t)]) \in Nat
  BY <1>1 DEF TypeOK, Operations
<1>6. thread[t].index \in 1..(Len(children[Other(t)]) + 1)
  BY <1>1, <1>5
<1> QED  BY <1>1, <1>2, <1>3, <1>4, <1>6

LEMMA ClimbKeeps ==
    ASSUME IInv, NEW t \in Threads, Climb(t)
    PROVE  IInv'
<1> DEFINE up == ParentOf(Top(t).step)
<1>1. At(t, "climb") /\ up # None /\ UNCHANGED <<stock, links, pending>>
  BY DEF Climb
<1>2. up \in Ids /\ Alive(up) /\ parent[Top(t).step] = up
  <2>1. Top(t).step \in Ids /\ TypeOK
    BY <1>1, Climbing
  <2> QED  BY <1>1, <2>1 DEF TypeOK, ParentOf
<1>3. CASE up = Self(t)
  BY <1>1, <1>3, Ended DEF Climb, IInv, TypeOK, stock, Alive
<1>4. CASE up # Self(t)
  <2> DEFINE path == Append(Path(t), Frame(up))
  <2>1. Free(t, up) /\ Locked(t, up) /\ Now(t, "climb", Other(t), path) /\ UNCHANGED worksetLock
    BY <1>4 DEF Climb
  <2> HIDE DEF up
  <2>2. Frame(up) \in Frames /\ Frame(up).step = up
    BY <1>2 DEF Frame, Frames
  <2>3. /\ path \in Seq(Frames) /\ path # <<>> /\ Len(path) = Len(Path(t)) + 1
        /\ \A i \in 1..Len(Path(t)) : path[i] = Path(t)[i]
        /\ path[Len(Path(t)) + 1].step = up
    BY <1>1, <2>2, Climbing, AppendProperties
  <2> HIDE DEF path
  <2>4. \A i \in 1..Len(path) : i \in 1..Len(Path(t)) \/ i = Len(Path(t)) + 1
    BY <1>1, <2>3, Climbing
  <2>5. Mutexes(t)
    BY <1>1, <1>2, <2>1, Climbing, LockedMutexes
  <2>6. \A s \in Ids : lock[s] = t => lock'[s] = t
    BY <2>1 DEF IInv, TypeOK, Locked
  <2>7. lock'[up] = t
    BY <1>2, <2>1 DEF IInv, TypeOK, Locked
  <2>8. \A i \in 1..Len(path) : Alive(path[i].step) /\ path[i].step # Self(t) /\ lock'[path[i].step] = t
    BY SMTT(30), <1>1, <1>2, <1>4, <2>3, <2>4, <2>6, <2>7, Climbing
  <2>9. NoReturn /\ (Sound(t)' => IInv')
    <3>1. Other(t) \in {None} \union {s \in Ids : Alive(s)}
      BY <1>1, Climbing
    <3> QED  BY <1>1, <2>1, <2>3, <2>5, <2>8, <3>1, Gone DEF Places
  <2>10. ASSUME NEW s \in Ids, s = Self(t)
        PROVE  ParentOf(s)' = None
    <3>1. parent'[s] = parent[s] /\ ParentOf(s) = None /\ TypeOK /\ Known
      BY <1>1, <2>10, Climbing DEF links
    <3> QED  BY <2>9, <3>1, Parents
  <2>11. (ParentOf(Self(t)) = None)'
    <3>1. Self(t)' = Self(t) /\ Self(t) \in Ids
      BY <1>1, <2>1, Climbing, NowAt
    <3> QED  BY <2>10, <3>1
  <2>12. Sound(t)'
    <3>1. /\ At(t, "climb")' /\ \A x \in Places \ {"climb"} : ~At(t, x)'
          /\ Op(t)' = Op(t) /\ Self(t)' = Self(t) /\ Other(t)' = Other(t) /\ Path(t)' = path
          /\ thread'[t].asked = thread[t].asked /\ thread'[t].under = thread[t].under
          /\ thread'[t].index = thread[t].index
      BY <1>1, <2>1, Climbing, NowAt
    <3>2. Placed(t)'
      BY <1>1, <3>1, Climbing DEF Sound, Placed, Places
    <3>3. lock'[Self(t)] = t
      BY <1>1, <2>6, Climbing
    <3>4. Holds(t)'
      BY <1>1, <2>3, <2>8, <3>1, <3>3, Climbing DEF Holds, Upwards, Places
    <3>5. \A i \in 1..(Len(path) - 1) : parent'[path[i].step] = path[i + 1].step
      <4> SUFFICES ASSUME NEW i \in 1..(Len(path) - 1)
                   PROVE  parent[path[i].step] = path[i + 1].step
        BY <1>1 DEF links
      <4>1. CASE i = Len(Path(t))
        BY <1>1, <1>2, <2>3, <4>1, Climbing
      <4>2. CASE i # Len(Path(t))
        <5>1. i \in 1..(Len(Path(t)) - 1) /\ i \in 1..Len(Path(t)) /\ i + 1 \in 1..Len(Path(t))
          BY <1>1, <2>3, <4>2, Climbing
        <5> QED  BY <1>1, <2>3, <5>1, Climbing
      <4> QED  BY <4>1, <4>2
    <3>6. path[1].step = Other(t) /\ thread[t].index <= Len(children'[Other(t)]) + 1
      <4>1. path[1].step = Other(t) /\ thread[t].index \in 1..(Len(children[Other(t)]) + 1)
        BY <1>1, <2>3, Climbing
      <4>2. Len(children[Other(t)]) \in Nat
        BY <1>1, Climbing DEF TypeOK
      <4> QED  BY <1>1, <4>1, <4>2 DEF links
    <3>7. Self(t) # Other(t)
      BY <1>1, Climbing
    <3>8. Linked(t)'
      BY <2>8, <2>11, <3>1, <3>5, <3>6, <3>7 DEF Linked, Places
    <3> QED  BY <3>2, <3>4, <3>8 DEF Sound
  <2> QED  BY <2>9, <2>12
<1> QED  BY <1>3, <1>4

-----------------------------------------------------------------------------
(* The steps that change links *)
LEMMA Moved ==
    ASSUME IInv, NEW t \in Threads, NEW o \in Ids, Alive(o), Visit(t, o, "read"), Op(t) \in Upwards,
           Self(t) \in Ids, Other(t) \in Ids, lock'[o] = t, worksetLock' = worksetLock,
           UNCHANGED <<stock, pending>>
    PROVE  NoReturn /\ thread' \in [Threads -> Operations] /\ Sound(t)'
           /\ \A u \in Threads \ {t} : thread'[u] = thread[u]
<1> DEFINE path == <<Frame(o)>>
           r == [pc |-> "read", op |-> Op(t), asked |-> thread[t].asked, under |-> thread[t].under,
                 index |-> thread[t].index, self |-> Self(t), other |-> Other(t), path |-> path]
<1>1. TypeOK /\ Sound(t) /\ thread' = [thread EXCEPT ![t] = r] /\ Now(t, "read", Other(t), path)
  BY DEF IInv, Visit, Now
<1>2. path \in Seq(Frames) /\ Len(path) = 1 /\ path # <<>> /\ \A i \in 1..Len(path) : path[i].step = o
  BY DEF Frame, Frames
<1> HIDE DEF path
<1>3. r \in Operations
  BY <1>1, <1>2 DEF TypeOK, Operations, Places, Op
<1>4. Refers(r)
  <2>1. r.self = Self(t) /\ r.other = Other(t) /\ r.path = path
    OBVIOUS
  <2> HIDE DEF r
  <2> QED  BY <1>1, <1>2, <1>3, <2>1, OwnAlive DEF Refers
<1> HIDE DEF r
<1>5. NoReturn
  BY <1>1, <1>4, Referred DEF TypeOK, stock, Alive
<1>6. /\ At(t, "read")' /\ \A x \in Places \ {"read"} : ~At(t, x)'
      /\ Op(t)' = Op(t) /\ Self(t)' = Self(t) /\ Path(t)' = path
      /\ thread'[t].asked = thread[t].asked /\ thread'[t].under = thread[t].under
  BY <1>1, NowAt
<1>7. Placed(t)'
  BY <1>1, <1>6 DEF Sound, Placed, Places
<1>8. Holds(t)'
  BY <1>2, <1>6 DEF Holds, Places
<1>9. Linked(t)'
  BY <1>6 DEF Linked, Places
<1> QED  BY <1>1, <1>3, <1>5, <1>7, <1>8, <1>9 DEF Sound, TypeOK

LEMMA FewerLinks ==
    ASSUME Forest, \A s \in Ids : ParentOf(s)' \in {ParentOf(s), None}
    PROVE  Forest'
<1> SUFFICES ASSUME NEW S \in SUBSET Ids, S # {}
             PROVE  \E s \in S : ParentOf(s)' \notin S
  BY DEF Forest
<1>1. PICK s \in S : ParentOf(s) \notin S
  BY DEF Forest
<1> QED  BY <1>1, ThreadsAssumption

LEMMA OrphanKeeps ==
    ASSUME IInv, NEW t \in Threads, Orphan(t)
    PROVE  IInv'
<1> DEFINE s == Self(t)
           o == Other(t)
           q == RemoveAt(children[o], Position(children[o], s))
<1>1. /\ TypeOK /\ Known /\ LinksAgree /\ Sound(t) /\ s \in Ids /\ o \in Ids /\ Alive(o)
      /\ lock[s] = t /\ parent[s] = o /\ Free(t, o) /\ Op(t) \in Upwards
  <2>1. /\ TypeOK /\ Known /\ LinksAgree /\ Sound(t) /\ s \in Ids /\ o \in Ids
        /\ lock[s] = t /\ parent[s] = o /\ Free(t, o) /\ Op(t) \in Upwards
    <3>1. At(t, "couple") /\ Op(t) = "orphan" /\ Free(t, o)
      BY DEF Orphan
    <3>2. TypeOK /\ Known /\ LinksAgree /\ Sound(t)
      BY DEF IInv
    <3>3. s \in Ids /\ o \in Ids
      BY <3>1, <3>2 DEF Sound, Placed, At
    <3> QED  BY <3>1, <3>2, <3>3 DEF Sound, Holds, Linked, Upwards
  <2> QED  BY <2>1, OwnAlive
<1>2. /\ parent' = [parent EXCEPT ![s] = None] /\ children' = [children EXCEPT ![o] = q]
      /\ lock' = [lock EXCEPT ![o] = t] /\ Visit(t, o, "read") /\ UNCHANGED <<stock, pending, worksetLock>>
  BY <1>1 DEF Orphan, Locked, TypeOK
<1>3. q \in Seq(Ids) /\ IsInjective(q) /\ ToSet(q) = {c \in Ids : parent[c] = o} \ {s}
  <2>1. IsInjective(children[o]) /\ ToSet(children[o]) = {c \in Ids : parent[c] = o} /\ children[o] \in Seq(Ids)
    BY <1>1 DEF LinksAgree, TypeOK
  <2>2. \E i \in DOMAIN children[o] : children[o][i] = s
    BY <1>1, <2>1 DEF ToSet
  <2> DEFINE i == Position(children[o], s)
  <2>3. i \in DOMAIN children[o] /\ children[o][i] = s
    BY <2>2 DEF Position
  <2> HIDE DEF i
  <2>4. i \in 1..Len(children[o])
    BY <2>1, <2>3
  <2> QED  BY <2>1, <2>3, <2>4, Erased DEF i
<1> HIDE DEF q
<1>4. NoReturn /\ thread' \in [Threads -> Operations] /\ Sound(t)' /\ \A u \in Threads \ {t} : thread'[u] = thread[u]
  <2>1. lock'[o] = t
    BY <1>1, <1>2 DEF TypeOK
  <2> QED  BY <1>1, <1>2, <2>1, Moved
<1> HIDE DEF s, o
<1>5. TypeOK'
  BY <1>1, <1>2, <1>3, <1>4 DEF TypeOK, stock
<1>6. Known'
  <2> SUFFICES ASSUME NEW x \in Ids
               PROVE  /\ Alive(x)' => x < nextId
                      /\ parent'[x] # None => x < nextId /\ parent'[x] < nextId
                      /\ lock'[x] # None => x < nextId
                      /\ x >= nextId => children'[x] = <<>>
    BY <1>2 DEF Known, stock
  <2>1. Alive(x)' => Alive(x)
    BY <1>2, <1>4 DEF NoReturn, Alive, stock
  <2>2. o < nextId /\ nextId \in Int
    BY <1>1 DEF Known, TypeOK
  <2> QED  BY <1>1, <1>2, <2>1, <2>2 DEF Known, TypeOK, Ids
<1>7. LinksAgree'
  <2> SUFFICES ASSUME NEW p \in Ids, Alive(p)'
               PROVE  IsInjective(children'[p]) /\ ToSet(children'[p]) = {c \in Ids : parent'[c] = p}
    BY DEF LinksAgree
  <2>1. Alive(p)
    BY <1>2, <1>4 DEF NoReturn, Alive, stock
  <2>2. IsInjective(children[p]) /\ ToSet(children[p]) = {c \in Ids : parent[c] = p}
    BY <1>1, <2>1 DEF LinksAgree
  <2>3. {c \in Ids : parent'[c] = p} = {c \in Ids : parent[c] = p} \ {s}
    BY <1>1, <1>2, ThreadsAssumption DEF TypeOK
  <2>4. CASE p = o
    <3>1. children'[p] = q
      BY <1>1, <1>2, <2>4 DEF TypeOK
    <3> QED  BY <1>3, <2>3, <2>4, <3>1
  <2>5. CASE p # o
    <3>1. children'[p] = children[p] /\ s \notin {c \in Ids : parent[c] = p}
      BY <1>1, <1>2, <2>5 DEF TypeOK
    <3> QED  BY <2>2, <2>3, <3>1
  <2> QED  BY <2>4, <2>5
<1>8. Forest'
  <2>1. ASSUME NEW x \in Ids
        PROVE  ParentOf(x)' \in {ParentOf(x), None}
    <3>1. CASE x = s
      BY <1>1, <1>2, <3>1 DEF ParentOf, TypeOK
    <3>2. CASE x # s
      <4>1. parent'[x] = parent[x]
        BY <1>1, <1>2, <3>2 DEF TypeOK
      <4> QED  BY <1>1, <1>4, <4>1, Parents
    <3> QED  BY <3>1, <3>2
  <2> QED  BY <2>1, FewerLinks DEF IInv
<1>9. \A u \in Threads \ {t} : Spares(u)
  BY <1>1, <1>2, <1>4, ThreadsAssumption DEF Spares, Free, TypeOK
<1> QED  BY <1>4, <1>5, <1>6, <1>7, <1>8, <1>9, Kept

LEMMA AdoptKeeps ==
    ASSUME IInv, NEW t \in Threads, Adopt(t)
    PROVE  IInv'
<1> DEFINE s == Self(t)
           o == Other(t)
           q == InsertAt(children[o], thread[t].index, s)
<1>1. /\ TypeOK /\ Known /\ LinksAgree /\ Forest /\ Sound(t) /\ At(t, "climb")
      /\ s \in Ids /\ o \in Ids /\ Alive(o) /\ s # o /\ Op(t) \in Upwards
      /\ lock[s] = t /\ lock[o] = t /\ ParentOf(s) = None
  <2>1. At(t, "climb") /\ Path(t)[1].step = o /\ 1 \in 1..Len(Path(t))
    BY Climbing DEF Adopt
  <2> QED  BY <2>1, Climbing DEF IInv, Upwards
<1>2. /\ parent' = [parent EXCEPT ![s] = o] /\ children' = [children EXCEPT ![o] = q]
      /\ Unlocked(t, {s, o}) /\ Visit(t, o, "read") /\ UNCHANGED <<stock, pending, worksetLock>>
  BY <1>1 DEF Adopt, TypeOK
<1>3. q \in Seq(Ids) /\ IsInjective(q) /\ ToSet(q) = {c \in Ids : parent[c] = o} \union {s}
  <2>1. IsInjective(children[o]) /\ ToSet(children[o]) = {c \in Ids : parent[c] = o} /\ children[o] \in Seq(Ids)
    BY <1>1 DEF LinksAgree, TypeOK
  <2>2. s \notin ToSet(children[o])
    BY <1>1, <2>1, ThreadsAssumption DEF ParentOf
  <2>3. thread[t].index \in 1..(Len(children[o]) + 1)
    BY <1>1, Climbing
  <2> QED  BY <1>1, <2>1, <2>2, <2>3, Inserted
<1> HIDE DEF q
<1>4. NoReturn /\ thread' \in [Threads -> Operations] /\ Sound(t)' /\ \A u \in Threads \ {t} : thread'[u] = thread[u]
  <2>1. lock'[o] = t
    BY <1>1, <1>2 DEF Unlocked
  <2> QED  BY <1>1, <1>2, <2>1, Moved
<1>5. \A p \in Ids : p # o /\ Alive(p) => parent[s] # p
  BY <1>1, ThreadsAssumption DEF ParentOf
<1>6. \E C \in SUBSET Ids :
         /\ o \in C /\ s \notin C
         /\ \A x \in C : ParentOf(x) \in C \union {None}
  <2> DEFINE C == {Path(t)[i].step : i \in 1..Len(Path(t))}
  <2>1. C \in SUBSET Ids /\ o \in C /\ s \notin C
    BY <1>1, Climbing
  <2>2. ASSUME NEW i \in 1..Len(Path(t))
        PROVE  ParentOf(Path(t)[i].step) \in C \union {None}
    <3>1. CASE i = Len(Path(t))
      BY <1>1, <3>1, Climbing DEF Adopt
    <3>2. CASE i # Len(Path(t))
      <4>1. i \in 1..(Len(Path(t)) - 1) /\ i + 1 \in 1..Len(Path(t))
        BY <1>1, <3>2, Climbing
      <4>2. parent[Path(t)[i].step] = Path(t)[i + 1].step
        BY <1>1, <4>1, Climbing
      <4>3. Path(t)[i + 1].step \in C
        BY <4>1
      <4> HIDE DEF C
      <4> QED  BY <4>2, <4>3 DEF ParentOf
    <3> QED  BY <3>1, <3>2
  <2>3. \A x \in C : ParentOf(x) \in C \union {None}
    BY <2>2
  <2> HIDE DEF C
  <2> QED  BY <2>1, <2>3
<1> HIDE DEF s, o
<1>7. TypeOK'
  BY <1>1, <1>2, <1>3, <1>4 DEF TypeOK, stock, Unlocked
<1>8. Known'
  <2> SUFFICES ASSUME NEW x \in Ids
               PROVE  /\ Alive(x)' => x < nextId
                      /\ parent'[x] # None => x < nextId /\ parent'[x] < nextId
                      /\ lock'[x] # None => x < nextId
                      /\ x >= nextId => children'[x] = <<>>
    BY <1>2 DEF Known, stock
  <2>1. Alive(x)' => Alive(x)
    BY <1>2, <1>4 DEF NoReturn, Alive, stock
  <2>2. o < nextId /\ s < nextId /\ nextId \in Int
    BY <1>1, ThreadsAssumption DEF Known, TypeOK
  <2> QED  BY <1>1, <1>2, <2>1, <2>2 DEF Known, TypeOK, Ids, Unlocked
<1>9. LinksAgree'
  <2> SUFFICES ASSUME NEW p \in Ids, Alive(p)'
               PROVE  IsInjective(children'[p]) /\ ToSet(children'[p]) = {c \in Ids : parent'[c] = p}
    BY DEF LinksAgree
  <2>1. Alive(p)
    BY <1>2, <1>4 DEF NoReturn, Alive, stock
  <2>2. IsInjective(children[p]) /\ ToSet(children[p]) = {c \in Ids : parent[c] = p}
    BY <1>1, <2>1 DEF LinksAgree
  <2>3. CASE p = o
    <3>1. children'[p] = q
      BY <1>1, <1>2, <2>3 DEF TypeOK
    <3>2. {c \in Ids : parent'[c] = p} = {c \in Ids : parent[c] = p} \union {s}
      BY <1>1, <1>2, <2>3 DEF TypeOK
    <3> QED  BY <1>3, <2>3, <3>1, <3>2
  <2>4. CASE p # o
    <3>1. children'[p] = children[p] /\ {c \in Ids : parent'[c] = p} = {c \in Ids : parent[c] = p}
      BY <1>1, <1>2, <1>5, <2>1, <2>4 DEF TypeOK
    <3> QED  BY <2>2, <3>1
  <2> QED  BY <2>3, <2>4
<1>10. Forest'
  <2> SUFFICES ASSUME NEW S \in SUBSET Ids, S # {}, \A x \in S : ParentOf(x)' \in S
               PROVE  FALSE
    BY DEF Forest
  <2>1. ASSUME NEW x \in Ids, x # s
        PROVE  ParentOf(x)' \in {ParentOf(x), None}
    <3>1. parent'[x] = parent[x]
      BY <1>1, <1>2, <2>1 DEF TypeOK
    <3> QED  BY <1>1, <1>4, <3>1, Parents
  <2>2. \A x \in S : x # s => ParentOf(x) \in S
    <3> SUFFICES ASSUME NEW x \in S, x # s
                 PROVE  ParentOf(x) \in S
      OBVIOUS
    <3>1. ParentOf(x)' \in {ParentOf(x), None} /\ ParentOf(x)' \in S
      BY <2>1
    <3> QED  BY <3>1, ThreadsAssumption
  <2>3. CASE s \notin S
    <3>1. \A x \in S : ParentOf(x) \in S
      BY <2>2, <2>3
    <3> QED  BY <1>1, <3>1 DEF Forest
  <2>4. CASE s \in S
    <3>1. PICK e \in S : e = s
      BY <2>4
    <3>2. parent'[e] = o
      BY <1>1, <1>2, <3>1 DEF TypeOK
    <3>3. o \in S
      <4>1. ParentOf(e)' \in {o, None} /\ ParentOf(e)' \in S
        BY <3>2 DEF ParentOf
      <4> QED  BY <4>1, ThreadsAssumption
    <3>4. PICK C \in SUBSET Ids :
             o \in C /\ s \notin C /\ \A x \in C : ParentOf(x) \in C \union {None}
      BY <1>6
    <3>5. \A x \in S \intersect C : ParentOf(x) \in S \intersect C
      BY <2>2, <3>4, ThreadsAssumption
    <3> QED  BY <1>1, <3>3, <3>4, <3>5 DEF Forest
  <2> QED  BY <2>3, <2>4
<1>11. \A u \in Threads \ {t} : Spares(u)
  BY <1>1, <1>2, <1>4, ThreadsAssumption DEF Spares, TypeOK, Unlocked
<1> QED  BY <1>4, <1>7, <1>8, <1>9, <1>10, <1>11, Kept

-----------------------------------------------------------------------------
(* The steps that bring new identifiers *)
LEMMA NewIdle ==
    ASSUME IInv, NEW t \in Threads, Done(t), UNCHANGED pending, NEW n \in SUBSET Ids,
           steps' = steps \union n, \A s \in n : s >= nextId
    PROVE  /\ NoReturn /\ Sound(t)' /\ Mutexes(t) /\ thread' \in [Threads -> Operations]
           /\ \A u \in Threads \ {t} : thread'[u] = thread[u]
<1>1. Sound(t)' /\ Mutexes(t) /\ thread' = [thread EXCEPT ![t] = Idle]
  BY DoneSound DEF IInv
<1>2. NoReturn
  BY <1>1, IdleRefers, Referred DEF IInv, TypeOK, Alive
<1>3. Idle \in Operations
  BY IdleRefers DEF Refers
<1> QED  BY <1>1, <1>2, <1>3 DEF IInv, TypeOK

LEMMA CreateKeeps ==
    ASSUME IInv, NEW t \in Http, Create(t)
    PROVE  IInv'
<1>1. /\ t \in Threads /\ TypeOK /\ Known /\ Done(t) /\ UNCHANGED <<links, pending>>
      /\ steps' = steps \union {nextId} /\ nextId' = nextId + 1 /\ nextId \in Ids /\ nextId \in Nat
      /\ nextId' \in 1..(LastId + 1)
  BY SMTT(30), IdsAssumption DEF Create, Threads, IInv, TypeOK, Ids
<1>2. /\ NoReturn /\ Sound(t)' /\ Mutexes(t) /\ thread' \in [Threads -> Operations]
      /\ \A u \in Threads \ {t} : thread'[u] = thread[u]
  <2> DEFINE new == {nextId}
  <2>1. new \in SUBSET Ids /\ steps' = steps \union new /\ \A s \in new : s >= nextId
    BY <1>1
  <2> HIDE DEF new
  <2> QED  BY <1>1, <2>1, NewIdle
<1>3. TypeOK'
  BY <1>1, <1>2 DEF TypeOK, links, Mutexes
<1>4. Known'
  <2> SUFFICES ASSUME NEW x \in Ids
               PROVE  /\ Alive(x)' => x < nextId'
                      /\ parent[x] # None => x < nextId' /\ parent[x] < nextId'
                      /\ lock'[x] # None => x < nextId'
                      /\ x >= nextId' => children[x] = <<>>
    BY <1>1 DEF Known, links
  <2>1. Alive(x)' => Alive(x) \/ x = nextId
    BY <1>1, <1>2 DEF NoReturn, Alive
  <2>2. x \in Int /\ (parent[x] # None => parent[x] \in Int)
    BY <1>1 DEF TypeOK, Ids
  <2> QED  BY <1>1, <1>2, <2>1, <2>2 DEF Known, Mutexes
<1>5. LinksAgree' /\ Forest'
  BY <1>1, <1>2, Still DEF IInv
<1>6. \A u \in Threads \ {t} : Spares(u)
  BY <1>1, <1>2, ThreadsAssumption DEF Spares, Mutexes, links
<1> QED  BY <1>1, <1>2, <1>3, <1>4, <1>5, <1>6, Kept

LEMMA CreateStepsFromDumpKeeps ==
    ASSUME IInv, NEW t \in Http, CreateStepsFromDump(t)
    PROVE  IInv'
<1> DEFINE n == nextId
           m == nextId + 1
<1>1. /\ t \in Threads /\ TypeOK /\ Known /\ LinksAgree /\ Forest /\ Done(t) /\ UNCHANGED pending
      /\ steps' = steps \union {n, m} /\ nextId' = nextId + 2 /\ n \in Ids /\ m \in Ids /\ n \in Nat
      /\ nextId' \in 1..(LastId + 1) /\ n = nextId /\ m = nextId + 1
      /\ parent' = [parent EXCEPT ![m] = n] /\ children' = [children EXCEPT ![n] = <<m>>]
  <2>1. /\ TypeOK /\ Known /\ LinksAgree /\ Forest /\ Done(t) /\ UNCHANGED pending
        /\ steps' = steps \union {n, m} /\ nextId' = nextId + 2 /\ nextId < LastId
        /\ parent' = [parent EXCEPT ![m] = n] /\ children' = [children EXCEPT ![n] = <<m>>]
    BY DEF CreateStepsFromDump, IInv
  <2>2. nextId \in 1..(LastId + 1) /\ LastId \in Nat /\ nextId < LastId
    BY <2>1, IdsAssumption DEF TypeOK
  <2>3. n \in Ids /\ m \in Ids /\ n \in Nat /\ nextId + 2 \in 1..(LastId + 1)
    BY <2>2 DEF Ids
  <2> QED  BY <2>1, <2>3 DEF Threads
<1>2. /\ NoReturn /\ Sound(t)' /\ Mutexes(t) /\ thread' \in [Threads -> Operations]
      /\ \A u \in Threads \ {t} : thread'[u] = thread[u]
  <2> DEFINE new == {n, m}
  <2>1. new \in SUBSET Ids /\ steps' = steps \union new /\ \A s \in new : s >= nextId
    BY <1>1
  <2> HIDE DEF new
  <2> QED  BY <1>1, <2>1, NewIdle
<1> HIDE DEF n, m
<1>3. TypeOK'
  <2>1. <<m>> \in Seq(Ids)
    BY <1>1
  <2> QED  BY <1>1, <1>2, <2>1 DEF TypeOK, Mutexes
<1>4. /\ \A x \in Ids : x \in Int /\ (parent[x] # None => parent[x] \in Int)
      /\ parent[n] = None /\ parent[m] = None /\ children[n] = <<>> /\ children[m] = <<>>
      /\ \A x \in Ids : parent[x] # n /\ parent[x] # m
      /\ lock[n] = None /\ lock[m] = None /\ n # m
  <2>1. \A x \in Ids : x \in Int /\ (parent[x] # None => parent[x] \in Int)
    BY <1>1 DEF TypeOK, Ids
  <2>2. n # None /\ m # None
    BY <1>1, ThreadsAssumption
  <2>3. \A x \in {n, m} : parent[x] = None /\ children[x] = <<>> /\ lock[x] = None
    BY <1>1, <2>1 DEF Known
  <2>4. \A x \in Ids : parent[x] # n /\ parent[x] # m
    BY <1>1, <2>1, <2>2 DEF Known
  <2> QED  BY <1>1, <2>1, <2>3, <2>4
<1>5. Known'
  <2> SUFFICES ASSUME NEW x \in Ids
               PROVE  /\ Alive(x)' => x < nextId'
                      /\ parent'[x] # None => x < nextId' /\ parent'[x] < nextId'
                      /\ lock'[x] # None => x < nextId'
                      /\ x >= nextId' => children'[x] = <<>>
    BY <1>1 DEF Known
  <2>1. Alive(x)' => Alive(x) \/ x \in {n, m}
    BY <1>1, <1>2 DEF NoReturn, Alive
  <2>2. Alive(x)' => x < nextId'
    BY <1>1, <1>4, <2>1 DEF Known
  <2>3. parent'[x] # None => x < nextId' /\ parent'[x] < nextId'
    BY <1>1, <1>4 DEF Known, TypeOK
  <2>4. lock'[x] # None => x < nextId'
    <3>1. lock'[x] # None => lock[x] # None \/ Alive(x)
      BY <1>2 DEF Mutexes
    <3> QED  BY <1>1, <1>4, <3>1 DEF Known
  <2>5. x >= nextId' => children'[x] = <<>>
    BY <1>1, <1>4 DEF Known, TypeOK
  <2> QED  BY <2>2, <2>3, <2>4, <2>5
<1>6. LinksAgree'
  <2> SUFFICES ASSUME NEW p \in Ids, Alive(p)'
               PROVE  IsInjective(children'[p]) /\ ToSet(children'[p]) = {c \in Ids : parent'[c] = p}
    BY DEF LinksAgree
  <2>1. CASE p = n
    <3>1. children'[p] = <<m>>
      BY <1>1, <2>1 DEF TypeOK
    <3>2. {c \in Ids : parent'[c] = p} = {m}
      BY <1>1, <1>4, <2>1 DEF TypeOK
    <3>3. DOMAIN <<m>> = {1} /\ <<m>>[1] = m
      OBVIOUS
    <3>4. IsInjective(<<m>>) /\ ToSet(<<m>>) = {m}
      BY <3>3 DEF IsInjective, ToSet
    <3> QED  BY <3>1, <3>2, <3>4
  <2>2. CASE p = m
    <3>1. children'[p] = <<>> /\ {c \in Ids : parent'[c] = p} = {}
      BY <1>1, <1>4, <2>2 DEF TypeOK
    <3> QED  BY <3>1 DEF IsInjective, ToSet
  <2>3. CASE p \notin {n, m}
    <3>1. Alive(p)
      BY <1>1, <1>2, <2>3 DEF NoReturn, Alive
    <3>2. children'[p] = children[p] /\ {c \in Ids : parent'[c] = p} = {c \in Ids : parent[c] = p}
      BY <1>1, <1>4, <2>3, ThreadsAssumption DEF TypeOK
    <3> QED  BY <1>1, <3>1, <3>2 DEF LinksAgree
  <2> QED  BY <2>1, <2>2, <2>3
<1>7. Forest'
  <2> SUFFICES ASSUME NEW S \in SUBSET Ids, S # {}, \A x \in S : ParentOf(x)' \in S
               PROVE  FALSE
    BY DEF Forest
  <2>1. ASSUME NEW x \in S
        PROVE  x # n /\ x # m
    <3>1. CASE x = n
      <4>1. parent'[x] = None
        BY <1>1, <1>4, <3>1 DEF TypeOK
      <4> QED  BY <4>1, ThreadsAssumption DEF ParentOf
    <3>2. CASE x = m
      <4>1. parent'[x] = n
        BY <1>1, <3>2 DEF TypeOK
      <4>2. PICK y \in S : y = n
        <5>1. ParentOf(x)' \in {n, None} /\ ParentOf(x)' \in S
          BY <4>1 DEF ParentOf
        <5> QED  BY <5>1, ThreadsAssumption
      <4>3. parent'[y] = None
        BY <1>1, <1>4, <4>2 DEF TypeOK
      <4> QED  BY <4>3, ThreadsAssumption DEF ParentOf
    <3> QED  BY <3>1, <3>2
  <2>2. ASSUME NEW x \in S
        PROVE  ParentOf(x) \in S
    <3>1. parent'[x] = parent[x]
      BY <1>1, <2>1 DEF TypeOK
    <3>2. ParentOf(x)' \in {ParentOf(x), None} /\ ParentOf(x)' \in S
      BY <1>1, <1>2, <3>1, Parents
    <3> QED  BY <3>2, ThreadsAssumption
  <2> QED  BY <1>1, <2>2 DEF Forest
<1>8. \A u \in Threads \ {t} : Spares(u)
  <2> TAKE u \in Threads \ {t}
  <2>1. \A x \in Ids : lock[x] = u => x # n /\ x # m
    BY <1>4, ThreadsAssumption
  <2>2. \A x \in Ids : x # n /\ x # m => parent'[x] = parent[x] /\ children'[x] = children[x]
    BY <1>1 DEF TypeOK
  <2>3. /\ \A x \in Ids : lock'[x] = u <=> lock[x] = u
        /\ worksetLock' = u => worksetLock = u
    BY <1>2, ThreadsAssumption DEF Mutexes
  <2> QED  BY <1>2, <2>1, <2>2, <2>3 DEF Spares
<1> QED  BY <1>1, <1>2, <1>3, <1>5, <1>6, <1>7, <1>8, Kept

-----------------------------------------------------------------------------
LEMMA NextIInv ==
    ASSUME ~AdoptSelf
    PROVE  IInv /\ [Next]_vars => IInv'
<1> SUFFICES ASSUME IInv, [Next]_vars PROVE IInv'
  OBVIOUS
<1>1. CASE UNCHANGED vars
  <2>1. \A s \in Ids : Alive(s)' <=> Alive(s)
    BY <1>1 DEF vars, Alive, Pointers, Threads, Ids
  <2>2. \A s \in Ids : ParentOf(s)' = ParentOf(s)
    BY <1>1, <2>1 DEF vars, IInv, TypeOK, ParentOf
  <2>3. TypeOK' /\ Known'
    BY <1>1, <2>1 DEF vars, IInv, TypeOK, Known
  <2>4. LinksAgree' /\ Forest'
    BY <1>1, <2>1, <2>2 DEF vars, IInv, LinksAgree, Forest
  <2>5. NoReturn /\ \A u \in Threads : Spares(u)
    BY <1>1, <2>1 DEF vars, NoReturn, Spares
  <2>6. \A u \in Threads : Sound(u)'
    BY <2>5, Spared DEF IInv
  <2> QED  BY <2>3, <2>4, <2>6 DEF IInv
<1>2. ASSUME NEW t \in Http, Request(t) \/ Dispatch(t) \/ Enter(t)
      PROVE  IInv'
  BY <1>2, RequestKeeps, DispatchKeeps, EnterKeeps
<1>3. ASSUME NEW t \in Http, Create(t) \/ CreateStepsFromDump(t) \/ SetAntidists(t)
      PROVE  IInv'
  BY <1>3, CreateKeeps, CreateStepsFromDumpKeeps, SetAntidistsKeeps
<1>4. ASSUME NEW t \in Pool, RestartCoroutine(t)
      PROVE  IInv'
  BY <1>4, RestartKeeps
<1>5. ASSUME NEW t \in Threads, Answer(t)
      PROVE  IInv'
  BY <1>5, StartKeeps, ReadKeeps, WalkDownKeeps, WalkUpKeeps, OrphanKeeps, ReparentKeeps, ClimbKeeps,
     AdoptKeeps, ResolveKeeps, EraseKeeps DEF Answer, Edit
<1> QED  BY <1>1, <1>2, <1>3, <1>4, <1>5 DEF Next

LEMMA Invariance ==
    ASSUME ~AdoptSelf
    PROVE  Spec => []IInv
<1>1. IInv /\ [Next /\ UNCHANGED patient]_vars => IInv'
  BY NextIInv
<1> QED  BY <1>1, InitIInv, PTL DEF Spec

-----------------------------------------------------------------------------
(* Whatever the threads do at once, the two ends of every link agree: the   *)
(* assertion of orphan (step.cpp:308) never fails.                          *)
THEOREM LinksStayConsistent ==
    ASSUME ~AdoptSelf
    PROVE  Spec => []LinksAgree
<1>1. IInv => LinksAgree
  BY DEF IInv
<1> QED  BY <1>1, Invariance, PTL

(* No step comes to descend from itself: the walks along the links end.     *)
THEOREM StepsStayForest ==
    ASSUME ~AdoptSelf
    PROVE  Spec => []Forest
<1>1. IInv => Forest
  BY DEF IInv
<1> QED  BY <1>1, Invariance, PTL

-----------------------------------------------------------------------------
(* A circle holds a smallest one, where everyone is waited for. *)
LEMMA SmallestCircle ==
    ASSUME NEW T \in SUBSET Threads, Circle(T)
    PROVE  \E U \in SUBSET T : U # {} /\ \A u \in U : \E t \in U \ {u} : u \in Wants(t)
<1> DEFINE All == {U \in SUBSET T : Circle(U)}
           R   == StrictSubsetOrdering(Threads)
<1>1. All \subseteq FiniteSubsetsOf(Threads) /\ All # {}
  BY FS_Subset, ThreadsAssumption DEF FiniteSubsetsOf
<1>2. IsWellFoundedOn(R, FiniteSubsetsOf(Threads))
  BY FS_StrictSubsetOrderingWellFounded
<1>3. \A U, V : <<U, V>> \in R <=> U \in SUBSET Threads /\ V \in SUBSET Threads /\ U \subseteq V /\ U # V
  BY DEF StrictSubsetOrdering
<1> HIDE DEF R, All
<1>4. PICK U \in All : \A V \in All : <<V, U>> \notin R
  BY <1>1, <1>2, WFMin
<1>5. U \in SUBSET T /\ Circle(U)
  BY <1>4 DEF All
<1>6. ASSUME NEW u \in U, \A t \in U \ {u} : u \notin Wants(t)
      PROVE  FALSE
  <2> DEFINE V == U \ {u}
  <2>1. V # {}
    BY <1>5 DEF Circle
  <2>2. \A t \in V : \E w \in V \ {t} : w \in Wants(t)
    BY <1>5, <1>6 DEF Circle
  <2>3. V \in All
    BY <1>5, <2>1, <2>2 DEF All, Circle
  <2>4. <<V, U>> \in R
    BY <1>3, <1>5, <1>6
  <2> QED  BY <1>4, <2>3, <2>4
<1> QED  BY <1>5, <1>6 DEF Circle

(* What a thread that only goes down the tree waits for *)
LEMMA WantsDown ==
    ASSUME IInv, NEW t \in Threads, Op(t) \notin Upwards, NEW u \in Wants(t)
    PROVE  \/ (At(t, "dispatch") \/ At(t, "workset")) /\ u = worksetLock
           \/ (At(t, "enter") \/ At(t, "start")) /\ u = lock[Self(t)] /\ Self(t) \in Ids
           \/ (At(t, "read") \/ At(t, "walk")) /\ MoreChildren(t) /\ u = lock[Child(t)]
<1>1. Placed(t)
  BY DEF IInv, Sound
<1> QED  BY <1>1 DEF Placed, Wants, At, Upwards

(* The child a walk looks at *)
LEMMA ChildOf ==
    ASSUME IInv, NEW t \in Threads, At(t, "read") \/ At(t, "walk"), MoreChildren(t)
    PROVE  /\ Child(t) \in Ids /\ ParentOf(Child(t)) = Top(t).step /\ Top(t).step \in Ids
           /\ Len(Path(t)) \in 1..Len(Path(t)) /\ Top(t) = Path(t)[Len(Path(t))] /\ Len(Path(t)) \in Nat
<1>1. TypeOK /\ LinksAgree /\ Path(t) # <<>>
  BY DEF IInv, Sound, Holds
<1>2. Len(Path(t)) \in 1..Len(Path(t)) /\ Top(t) = Path(t)[Len(Path(t))] /\ Len(Path(t)) \in Nat
  BY <1>1, PathTyped DEF Top, Last
<1>3. Top(t).step \in Ids /\ Top(t).next \in Nat \ {0} /\ Alive(Top(t).step)
  BY <1>1, <1>2, PathTyped, OwnAlive
<1>4. children[Top(t).step] \in Seq(Ids) /\ Top(t).next \in 1..Len(children[Top(t).step])
  BY <1>1, <1>3 DEF TypeOK, MoreChildren
<1>5. Child(t) \in Ids /\ Child(t) \in ToSet(children[Top(t).step])
  BY <1>4 DEF Child, ToSet
<1>6. parent[Child(t)] = Top(t).step
  BY <1>1, <1>3, <1>5 DEF LinksAgree
<1>7. ParentOf(Child(t)) = Top(t).step
  BY <1>3, <1>6, ThreadsAssumption DEF ParentOf
<1> QED  BY <1>2, <1>3, <1>5, <1>7

(* Threads that go down and all wait for each other would hold a set of     *)
(* steps where everyone has its parent in the set.                          *)
LEMMA NobodyWaits ==
    ASSUME IInv, NEW T \in SUBSET Threads, T # {}, \A t \in T : Op(t) \notin Upwards,
           \A u \in T : \E t \in T \ {u} : u \in Wants(t)
    PROVE  FALSE
<1>1. /\ TypeOK /\ LinksAgree /\ Forest
      /\ \A t \in T : /\ \A s \in Ids : lock[s] = t =>
                            (At(t, "read") \/ At(t, "walk")) /\ \E i \in 1..Len(Path(t)) : Path(t)[i].step = s
                      /\ At(t, "dispatch") \/ At(t, "workset") => worksetLock # t
  BY DEF IInv, Sound, Placed, Holds
<1>2. ASSUME NEW t \in T, NEW u \in Wants(t)
      PROVE  \/ (At(t, "dispatch") \/ At(t, "workset")) /\ u = worksetLock
             \/ (At(t, "enter") \/ At(t, "start")) /\ u = lock[Self(t)] /\ Self(t) \in Ids
             \/ (At(t, "read") \/ At(t, "walk")) /\ MoreChildren(t) /\ u = lock[Child(t)] /\ Child(t) \in Ids
  BY <1>2, WantsDown, ChildOf
<1>3. ASSUME NEW t \in T
      PROVE  ~At(t, "dispatch") /\ ~At(t, "workset")
  <2>1. PICK v \in T : t \in Wants(v)
    OBVIOUS
  <2>2. t = worksetLock \/ \E s \in Ids : t = lock[s]
    BY <1>2, <2>1
  <2> QED  BY <1>1, <2>2 DEF At
<1>4. ASSUME NEW t \in T
      PROVE  ~At(t, "enter") /\ ~At(t, "start")
  <2>1. PICK v \in T : t \in Wants(v)
    OBVIOUS
  <2>2. \E s \in Ids : t = lock[s]
    BY <1>2, <1>3, <2>1
  <2> QED  BY <1>1, <2>2 DEF At
<1>5. ASSUME NEW u \in T
      PROVE  \E t \in T \ {u} : (At(t, "read") \/ At(t, "walk")) /\ MoreChildren(t) /\ lock[Child(t)] = u
  BY <1>2, <1>3, <1>4
<1> DEFINE Waited(t) == (At(t, "read") \/ At(t, "walk")) /\ MoreChildren(t) /\ lock[Child(t)] \in T
           Below(u, i) == \E j \in 1..i : \E t \in T : Waited(t) /\ Path(u)[j].step = Child(t)
           S == {x \in Ids : \E u \in T : \E i \in 1..Len(Path(u)) : Path(u)[i].step = x /\ Below(u, i)}
<1>6. ASSUME NEW u \in T, At(u, "read") \/ At(u, "walk"), MoreChildren(u)
      PROVE  Top(u).step \in S
  <2>1. PICK t \in T : Waited(t) /\ lock[Child(t)] = u
    BY <1>5
  <2>2. Child(t) \in Ids
    BY <2>1, ChildOf
  <2>3. PICK j \in 1..Len(Path(u)) : Path(u)[j].step = Child(t)
    BY <1>1, <2>1, <2>2
  <2>4. Len(Path(u)) \in 1..Len(Path(u)) /\ Top(u) = Path(u)[Len(Path(u))] /\ Top(u).step \in Ids
    BY <1>6, ChildOf
  <2>5. Below(u, Len(Path(u)))
    BY <2>1, <2>3
  <2> QED  BY <2>4, <2>5
<1>7. S # {}
  <2>1. PICK u \in T : TRUE
    OBVIOUS
  <2>2. PICK t \in T : (At(t, "read") \/ At(t, "walk")) /\ MoreChildren(t)
    BY <1>5, <2>1
  <2> QED  BY <1>6, <2>2
<1>8. ASSUME NEW x \in S
      PROVE  ParentOf(x) \in S
  <2>0. PICK u \in T : \E i \in 1..Len(Path(u)) : Path(u)[i].step = x /\ Below(u, i)
    OBVIOUS
  <2>1. PICK i \in 1..Len(Path(u)) : Path(u)[i].step = x /\ Below(u, i)
    BY <2>0
  <2>2. PICK j \in 1..i, t \in T : Waited(t) /\ Path(u)[j].step = Child(t)
    BY <2>1
  <2>3. Len(Path(u)) \in Nat
    BY <1>1, PathTyped
  <2>4. CASE j = i
    <3>1. x = Child(t) /\ ParentOf(x) = Top(t).step
      BY <2>1, <2>2, <2>4, ChildOf
    <3> QED  BY <1>6, <2>2, <3>1
  <2>5. CASE j # i
    <3>1. i - 1 \in 1..(Len(Path(u)) - 1) /\ i - 1 \in 1..Len(Path(u)) /\ j \in 1..(i - 1) /\ (i - 1) + 1 = i
      BY <2>2, <2>3, <2>5
    <3> DEFINE y == Path(u)[i - 1].step
    <3>2. y \in Ids /\ Alive(y)
      BY <1>1, <3>1, PathTyped, OwnAlive
    <3>3. At(u, "read") \/ At(u, "walk")
      <4>1. PICK v \in T : lock[Child(v)] = u /\ Child(v) \in Ids
        BY <1>5, ChildOf
      <4> QED  BY <1>1, <4>1
    <3>4. parent[x] = y
      BY <2>1, <3>1, <3>3 DEF IInv, Sound, Linked
    <3>5. ParentOf(x) = y
      BY <3>2, <3>4, ThreadsAssumption DEF ParentOf
    <3>6. Below(u, i - 1)
      BY <2>2, <3>1
    <3> QED  BY <3>1, <3>2, <3>5, <3>6
  <2> QED  BY <2>4, <2>5
<1>9. S \in SUBSET Ids
  OBVIOUS
<1> HIDE DEF S
<1> QED  BY <1>1, <1>7, <1>8, <1>9 DEF Forest

(* Operations that only go down the tree, from the workset and from parent  *)
(* to child, never block each other, however the tree changes meanwhile: a  *)
(* deadlock always has someone in it that orphans, reparents or destroys.   *)
THEOREM DownwardsNeverDeadlock ==
    ASSUME ~AdoptSelf
    PROVE  Spec => []CirclesGoUp
<1>1. IInv => CirclesGoUp
  <2> SUFFICES ASSUME IInv, NEW T \in SUBSET Threads, Circle(T), \A t \in T : Op(t) \notin Upwards
               PROVE  FALSE
    BY DEF CirclesGoUp
  <2>1. PICK U \in SUBSET T : U # {} /\ \A u \in U : \E t \in U \ {u} : u \in Wants(t)
    BY SmallestCircle
  <2> QED  BY <2>1, NobodyWaits
<1> QED  BY <1>1, Invariance, PTL

-----------------------------------------------------------------------------
(* What holds of a thread beside a client that waits for its answers: the   *)
(* step of its request is still in the workset, and the one to be destroyed *)
(* has no parent there.  Workers only restart.                              *)
Fits(t) ==
    /\ t \in Pool => Op(t) \in {"none", "restart"}
    /\ t \in Http => \/ At(t, "idle") \/ At(t, "dispatch") \/ At(t, "workset")
                     \/ Self(t) \in steps
    /\ t \in Http /\ At(t, "erase") => parent[Self(t)] \notin steps

OneAtATime == \A t, u \in Http : At(t, "idle") \/ At(u, "idle") \/ t = u

(* The children of a step of the workset are in the workset. *)
ChildrenStay == \A c \in Ids : parent[c] \in steps => c \in steps

Calm == patient => OneAtATime /\ ChildrenStay /\ \A t \in Threads : Fits(t)

(* A step of one thread: no other request is under way, and workers leave the tree alone. *)
LEMMA Turn ==
    ASSUME TypeOK, patient, Calm, UNCHANGED patient, NEW t \in Threads, NEW r, thread' = [thread EXCEPT ![t] = r],
           t \in Http => ~At(t, "idle") \/ \A u \in Http : At(u, "idle"),
           t \in Pool => UNCHANGED <<steps, parent>>,
           Fits(t)', ChildrenStay'
    PROVE  Calm'
<1>1. \A u \in Threads \ {t} : thread'[u] = thread[u]
  BY DEF TypeOK
<1>2. t \in Http => \A u \in Http \ {t} : At(u, "idle")
  BY DEF Calm, OneAtATime
<1>3. OneAtATime'
  <2> SUFFICES ASSUME NEW u \in Http, NEW w \in Http, u # w
               PROVE  At(u, "idle")' \/ At(w, "idle")'
    BY DEF OneAtATime
  <2>1. CASE t \in Http
    BY <1>1, <1>2, <2>1 DEF At, Threads
  <2>2. CASE t \notin Http
    BY <1>1, <2>2 DEF At, Threads, Calm, OneAtATime
  <2> QED  BY <2>1, <2>2
<1>4. ASSUME NEW u \in Threads \ {t}
      PROVE  Fits(u)'
  <2>1. Op(u)' = Op(u) /\ Self(u)' = Self(u) /\ \A pc : At(u, pc)' <=> At(u, pc)
    BY <1>1 DEF Op, Self, At
  <2>2. Fits(u)
    BY DEF Calm
  <2>3. CASE t \in Pool
    BY <2>1, <2>2, <2>3 DEF Fits
  <2>4. CASE t \in Http
    <3>1. u \in Http => At(u, "idle") /\ ~At(u, "erase")
      BY <1>2, <2>4 DEF At
    <3> QED  BY <2>1, <2>2, <3>1 DEF Fits
  <2> QED  BY <2>3, <2>4 DEF Threads
<1> QED  BY <1>3, <1>4 DEF Calm

(* Where no step comes or goes and no parent changes *)
LEMMA SameTree ==
    ASSUME patient, Calm, UNCHANGED <<steps, parent>>
    PROVE  ChildrenStay'
BY DEF Calm, ChildrenStay

LEMMA Continues ==
    ASSUME TypeOK, patient, Calm, UNCHANGED <<patient, steps, parent>>, NEW t \in Threads, NEW pc, NEW other, NEW path,
           Now(t, pc, other, path), ~At(t, "idle"), ~At(t, "dispatch"), ~At(t, "workset"),
           pc = "erase" => parent[Self(t)] \notin steps
    PROVE  Calm'
<1>1. Fits(t) /\ \A x : At(t, x)' <=> pc = x
  BY NowAt DEF Calm
<1>2. Op(t)' = Op(t) /\ Self(t)' = Self(t)
  BY NowAt
<1>3. Fits(t)'
  BY <1>1, <1>2 DEF Fits
<1> QED  BY <1>3, SameTree, Turn DEF Now

LEMMA Ends ==
    ASSUME TypeOK, patient, Calm, UNCHANGED patient, NEW t \in Threads, Done(t), ~At(t, "idle"),
           t \in Pool => UNCHANGED <<steps, parent>>, ChildrenStay'
    PROVE  Calm'
<1>1. thread' = [thread EXCEPT ![t] = Idle] /\ thread'[t] = Idle
  BY DEF Done, TypeOK
<1>2. Fits(t)'
  BY <1>1 DEF Fits, Idle, Begun, At, Op
<1> QED  BY <1>1, <1>2, Turn

LEMMA StartCalm ==
    ASSUME TypeOK, patient, Calm, UNCHANGED patient, NEW t \in Threads, Start(t)
    PROVE  Calm'
<1>1. At(t, "start") /\ ~At(t, "idle") /\ ~At(t, "dispatch") /\ ~At(t, "workset") /\ UNCHANGED <<steps, parent>>
  BY DEF Start, At, stock, links
<1>2. ChildrenStay'
  BY <1>1, SameTree
<1>3. CASE StartSearch(t) \/ StartWalk(t)
  BY <1>1, <1>3, Continues DEF StartSearch, StartWalk, Visit
<1>4. CASE StartOrphan(t)
  BY <1>1, <1>2, <1>4, Continues, Ends DEF StartOrphan
<1>5. CASE StartReparent(t)
  BY <1>1, <1>5, Continues DEF StartReparent, Go
<1>6. CASE StartDestroy(t)
  <2>1. CASE Done(t)
    BY <1>1, <1>2, <2>1, Ends
  <2>2. CASE ~Done(t)
    <3>1. ParentOf(Self(t)) = None /\ Go(t, "erase")
      BY <1>6, <2>2 DEF StartDestroy
    <3>2. parent[Self(t)] \notin steps
      BY <3>1, ThreadsAssumption DEF ParentOf, Alive, TypeOK
    <3> QED  BY <1>1, <3>1, <3>2, Continues DEF Go
  <2> QED  BY <2>1, <2>2
<1> QED  BY <1>3, <1>4, <1>5, <1>6 DEF Start

(* The steps of an operation that leave the tree as it is *)
LEMMA LookCalm ==
    ASSUME TypeOK, patient, Calm, UNCHANGED patient, NEW t \in Threads,
           ReadChild(t) \/ FinishRead(t) \/ WalkDown(t) \/ WalkUp(t) \/ Resolve(t) \/ Reparent(t) \/ Climb(t)
    PROVE  Calm'
<1>1. ~At(t, "idle") /\ ~At(t, "dispatch") /\ ~At(t, "workset") /\ UNCHANGED <<steps, parent>>
  BY DEF ReadChild, FinishRead, WalkDown, WalkUp, Resolve, Reparent, Climb, At, stock, links
<1>2. ChildrenStay'
  BY <1>1, SameTree
<1>3. CASE Done(t)
  BY <1>1, <1>2, <1>3, Ends
<1>4. CASE ~Done(t)
  <2>1. \E pc \in {"read", "walk", "couple", "climb"} : \E other, path : Now(t, pc, other, path)
    BY <1>4 DEF ReadChild, FinishRead, WalkDown, WalkUp, Resolve, Reparent, Climb, Visit
  <2> QED  BY <1>1, <2>1, Continues
<1> QED  BY <1>3, <1>4

(* Orphan and Adopt: the step that gets a parent is in the workset. *)
LEMMA LinkCalm ==
    ASSUME IInv, patient, Calm, UNCHANGED patient, NEW t \in Threads, Orphan(t) \/ Adopt(t)
    PROVE  Calm'
<1>1. TypeOK /\ Placed(t) /\ Fits(t)
  BY DEF IInv, Sound, Calm
<1>2. t \in Http /\ ~At(t, "idle") /\ ~At(t, "dispatch") /\ ~At(t, "workset") /\ Self(t) \in steps
  BY <1>1 DEF Orphan, Adopt, Placed, Fits, At, Threads
<1>3. steps' = steps /\ parent' \in {[parent EXCEPT ![Self(t)] = None], [parent EXCEPT ![Self(t)] = Other(t)]}
  BY DEF Orphan, Adopt, stock
<1>4. ChildrenStay'
  <2> SUFFICES ASSUME NEW c \in Ids, parent'[c] \in steps
               PROVE  c \in steps
    BY <1>3 DEF ChildrenStay
  <2>1. CASE c = Self(t)
    BY <1>2, <2>1
  <2>2. CASE c # Self(t)
    <3>1. parent'[c] = parent[c]
      BY <1>1, <1>3, <2>2 DEF TypeOK
    <3> QED  BY <3>1 DEF Calm, ChildrenStay
  <2> QED  BY <2>1, <2>2
<1>5. \E other, path : Now(t, "read", other, path)
  BY DEF Orphan, Adopt, Visit
<1>6. PICK other, path : Now(t, "read", other, path)
  BY <1>5
<1>7. Self(t)' = Self(t) /\ Op(t)' = Op(t) /\ ~At(t, "erase")'
  BY <1>1, <1>6, NowAt
<1>8. Fits(t)'
  BY <1>1, <1>2, <1>3, <1>7 DEF Fits
<1>9. t \notin Pool
  BY <1>2, ThreadsAssumption
<1> QED  BY <1>1, <1>2, <1>4, <1>6, <1>8, <1>9, Turn DEF Now

LEMMA EraseCalm ==
    ASSUME IInv, patient, Calm, UNCHANGED patient, NEW t \in Threads, Erase(t)
    PROVE  Calm'
<1>1. TypeOK /\ Placed(t) /\ Fits(t) /\ At(t, "erase") /\ Done(t)
  BY DEF IInv, Sound, Calm, Erase
<1>2. t \in Http /\ ~At(t, "idle") /\ t \notin Pool
  BY <1>1, ThreadsAssumption DEF Placed, Fits, At, Threads
<1>3. parent[Self(t)] \notin steps
  BY <1>1, <1>2 DEF Fits
<1>4. ChildrenStay'
  <2> SUFFICES ASSUME NEW c \in Ids, parent[c] \in steps \ ({Self(t)} \ {Root})
               PROVE  c \in steps \ ({Self(t)} \ {Root})
    BY DEF ChildrenStay, Erase, links
  <2> QED  BY <1>3 DEF Calm, ChildrenStay
<1> QED  BY <1>1, <1>2, <1>4, Ends

(* The client asks, and its request finds the step. *)
LEMMA AskCalm ==
    ASSUME TypeOK, patient, Calm, UNCHANGED patient, NEW t \in Http, Request(t) \/ Dispatch(t) \/ Enter(t)
    PROVE  Calm'
<1>1. t \in Threads /\ t \notin Pool /\ Fits(t) /\ UNCHANGED <<steps, parent>> /\ ChildrenStay'
  BY ThreadsAssumption, SameTree DEF Threads, Calm, Request, Dispatch, Enter, stock, links
<1>2. CASE Request(t)
  <2>1. PICK op \in Ops, s, p \in 0..(nextId - 1), i \in 1..(LastId + 1) :
            thread' = [thread EXCEPT ![t] =
                Begun(IF op \in OnWorkset THEN "workset" ELSE "dispatch", op, s, p, i, None)]
    BY <1>2 DEF Request
  <2>2. thread'[t] = Begun(IF op \in OnWorkset THEN "workset" ELSE "dispatch", op, s, p, i, None)
    BY <1>1, <2>1 DEF TypeOK
  <2>3. Fits(t)'
    BY <1>1, <2>2 DEF Fits, At, Begun
  <2>4. \A u \in Http : At(u, "idle")
    BY <1>2 DEF Request
  <2> QED  BY <1>1, <2>1, <2>3, <2>4, Turn
<1>3. CASE Dispatch(t)
  <2>1. ~At(t, "idle")
    BY <1>3 DEF Dispatch, At
  <2>2. CASE thread[t].asked \in steps
    <3> DEFINE r == Begun("enter", Op(t), thread[t].asked, thread[t].under, thread[t].index, thread[t].asked)
    <3>1. thread' = [thread EXCEPT ![t] = r] /\ thread'[t] = r
      BY <1>1, <1>3, <2>2 DEF Dispatch, TypeOK
    <3>2. Fits(t)'
      BY <1>1, <2>2, <3>1 DEF Fits, At, Self, Begun
    <3> QED  BY <1>1, <2>1, <3>1, <3>2, Turn
  <2>3. CASE thread[t].asked \notin steps
    BY <1>1, <1>3, <2>1, <2>3, Ends DEF Dispatch
  <2> QED  BY <2>2, <2>3
<1>4. CASE Enter(t)
  <2>1. ~At(t, "idle") /\ ~At(t, "dispatch") /\ ~At(t, "workset")
    BY <1>4 DEF Enter, At
  <2> QED  BY <1>1, <1>4, <2>1, Continues DEF Enter, Visit, Go
<1> QED  BY <1>2, <1>3, <1>4

(* The callbacks on the workset: new steps have no family but each other. *)
LEMMA WorksetCalm ==
    ASSUME IInv, patient, Calm, UNCHANGED patient, NEW t \in Http,
           Create(t) \/ CreateStepsFromDump(t) \/ SetAntidists(t)
    PROVE  Calm'
<1>1. TypeOK /\ Known /\ t \in Threads /\ t \notin Pool /\ ~At(t, "idle")
  BY ThreadsAssumption DEF IInv, Threads, Create, CreateStepsFromDump, SetAntidists, At
<1>2. ASSUME NEW c \in Ids, NEW n \in Ids, nextId <= n, parent[c] = n
      PROVE  FALSE
  <2>1. parent[c] # None
    BY <1>2, ThreadsAssumption
  <2>2. parent[c] < nextId
    BY <1>1, <2>1 DEF Known
  <2>3. nextId \in Int
    BY <1>1, IdsAssumption DEF TypeOK
  <2> QED  BY <1>2, <2>2, <2>3, IdsAssumption DEF Ids
<1>3. CASE Create(t)
  <2>1. nextId \in Ids /\ nextId <= nextId
    BY <1>1, <1>3, IdsAssumption DEF TypeOK, Ids, Create
  <2>2. ChildrenStay'
    BY <1>2, <1>3, <2>1 DEF Create, Calm, ChildrenStay, links
  <2> QED  BY <1>1, <1>3, <2>2, Ends DEF Create
<1>4. CASE CreateStepsFromDump(t)
  <2>1. nextId \in Ids /\ nextId + 1 \in Ids /\ nextId <= nextId /\ nextId <= nextId + 1
    BY <1>1, <1>4, IdsAssumption DEF TypeOK, Ids, CreateStepsFromDump
  <2>2. steps' = steps \union {nextId, nextId + 1} /\ parent' = [parent EXCEPT ![nextId + 1] = nextId] /\ Done(t)
    BY <1>4 DEF CreateStepsFromDump
  <2>3. ChildrenStay'
    <3> SUFFICES ASSUME NEW c \in Ids, parent'[c] \in steps'
                 PROVE  c \in steps'
      BY DEF ChildrenStay
    <3>1. CASE c = nextId + 1
      BY <2>2, <3>1
    <3>2. CASE c # nextId + 1
      <4>1. parent'[c] = parent[c]
        BY <2>2, <3>2
      <4>2. parent[c] \in steps
        BY <1>2, <2>1, <2>2, <4>1
      <4> QED  BY <2>2, <4>2 DEF Calm, ChildrenStay
    <3> QED  BY <3>1, <3>2
  <2> QED  BY <1>1, <2>2, <2>3, Ends
<1>5. CASE SetAntidists(t)
  <2> DEFINE r == Begun("start", "set_antidists", Root, Root, 1, Root)
  <2>1. thread' = [thread EXCEPT ![t] = r] /\ thread'[t] = r /\ UNCHANGED <<steps, parent>>
    BY <1>1, <1>5 DEF SetAntidists, TypeOK, stock, links
  <2>2. Fits(t)'
    BY <1>1, <2>1 DEF Fits, At, Self, Begun, TypeOK
  <2> QED  BY <1>1, <2>1, <2>2, SameTree, Turn
<1> QED  BY <1>3, <1>4, <1>5

LEMMA RestartCalm ==
    ASSUME TypeOK, patient, Calm, UNCHANGED patient, NEW t \in Pool, RestartCoroutine(t)
    PROVE  Calm'
<1>1. t \in Threads /\ t \notin Http /\ UNCHANGED <<steps, parent>>
  BY ThreadsAssumption DEF Threads, RestartCoroutine, stock, links
<1>2. PICK s \in Ids : thread' = [thread EXCEPT ![t] = Begun("start", "restart", Root, Root, 1, s)]
  BY DEF RestartCoroutine
<1>3. Op(t)' = "restart"
  BY <1>1, <1>2 DEF TypeOK, Op, Begun
<1>4. Fits(t)'
  BY <1>1, <1>3 DEF Fits
<1> QED  BY <1>1, <1>2, <1>4, SameTree, Turn

(* A client that waits for its answers leaves no step with a child that no  *)
(* longer exists, whatever it asks for and whatever workers do meanwhile:   *)
(* prove, dump, restart_search and workset_reload follow the pointers to    *)
(* children without a test (step.cpp:108, 559, 626, 640).                   *)
THEOREM ChildrenStayAlive ==
    ASSUME ~AdoptSelf
    PROVE  Spec => []ClientKeepsChildren
<1>1. Init => Calm
  <2> SUFFICES ASSUME Init
               PROVE  OneAtATime /\ ChildrenStay /\ \A t \in Threads : Fits(t)
    BY DEF Calm
  <2>1. \A t \in Threads : thread[t] = Idle
    BY DEF Init
  <2>2. OneAtATime /\ \A t \in Threads : Fits(t)
    BY <2>1 DEF OneAtATime, Fits, At, Op, Idle, Begun, Threads
  <2>3. ChildrenStay
    <3> SUFFICES ASSUME NEW c \in Ids, parent[c] \in steps
                 PROVE  c \in steps
      BY DEF ChildrenStay
    <3>1. parent[c] # None
      BY ThreadsAssumption, IdsAssumption DEF Init, Ids
    <3>2. c < Created
      BY <3>1, TreesAssumption DEF Init
    <3> QED  BY <3>2, IdsAssumption DEF Init, Ids
  <2> QED  BY <2>2, <2>3
<1>2. IInv /\ Calm /\ [Next /\ UNCHANGED patient]_vars => Calm'
  <2> SUFFICES ASSUME IInv, Calm, [Next /\ UNCHANGED patient]_vars, patient
               PROVE  Calm'
    BY DEF Calm, vars
  <2>1. CASE UNCHANGED vars
    BY <2>1 DEF vars, Calm, OneAtATime, ChildrenStay, Fits, At, Op, Self
  <2>2. CASE Next /\ UNCHANGED patient
    <3>1. TypeOK
      BY DEF IInv
    <3>2. ASSUME NEW t \in Threads, Answer(t)
          PROVE  Calm'
      BY <2>2, <3>1, <3>2, StartCalm, LookCalm, LinkCalm, EraseCalm DEF Answer, Edit
    <3>3. ASSUME NEW t \in Http, Request(t) \/ Dispatch(t) \/ Enter(t)
          PROVE  Calm'
      BY <2>2, <3>1, <3>3, AskCalm
    <3>4. ASSUME NEW t \in Http, Create(t) \/ CreateStepsFromDump(t) \/ SetAntidists(t)
          PROVE  Calm'
      BY <2>2, <3>4, WorksetCalm
    <3>5. ASSUME NEW t \in Pool, RestartCoroutine(t)
          PROVE  Calm'
      BY <2>2, <3>1, <3>5, RestartCalm
    <3> QED  BY <2>2, <3>2, <3>3, <3>4, <3>5 DEF Next
  <2> QED  BY <2>1, <2>2
<1>3. IInv /\ Calm => ClientKeepsChildren
  <2> SUFFICES ASSUME IInv, Calm, patient, NEW p \in steps, NEW c \in ToSet(children[p])
               PROVE  Alive(c)
    BY DEF ClientKeepsChildren, ChildrenAlive
  <2>1. p \in Ids /\ Alive(p)
    BY DEF IInv, TypeOK, Alive
  <2>2. c \in Ids /\ parent[c] = p
    BY <2>1 DEF IInv, LinksAgree
  <2> QED  BY <2>2 DEF Calm, ChildrenStay, Alive
<1>4. Spec => []IInv
  BY Invariance
<1> QED  BY <1>1, <1>2, <1>3, <1>4, PTL DEF Spec

=============================================================================
