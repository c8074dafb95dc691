-------------------------- MODULE StepSearchProofs --------------------------
(***************************************************************************)
(* Whatever the clients edit, and however long dropped strategies go on:   *)
(* a step waits only for strategies that work on the data of its last      *)
(* restart, and accepts no other proof (CurrentDataOnly); clients are told *)
(* of every change of its search (StatusAnnounced); and unless a restart   *)
(* is due, the data are those of the tree (SnapshotFits).                  *)
(*                                                                         *)
(* The third needs to know that a restart that is reading keeps its step   *)
(* locked, that what it has read so far is up to date unless it will be    *)
(* done again, and that the mutex of a step whose parent must be told is   *)
(* kept until the parent is.                                               *)
(***************************************************************************)
EXTENDS StepSearch, ChildLists, WellFoundedInduction

Data == [thesis : Sentences, hyps : Seq(Sentences), trees : Seq(Sentences),
         antidists : Antidists \union {None}]

Places == {"free", "sleeping", "queued", "running", "reporting"}

Objects == [step : Steps \union {None}, data : Data \union {None}, at : Places, success : BOOLEAN]

(* Every strategy that is not free belongs to a step. *)
Strategies == {r \in Objects : r.at # "free" => r.step \in Steps}

Frames == [step : Steps, next : Nat]

TypeOK ==
    /\ sentence \in [Steps -> Sentences]
    /\ parent \in [Steps -> Steps \union {None}]
    /\ children \in [Steps -> Seq(Steps)]
    /\ antidists \in Antidists
    /\ lock \in [Steps -> Steps \union {None, Reloader}]
    /\ reading \in SUBSET Steps /\ telling \in SUBSET Steps
    /\ priority \in [Steps -> Nat]
    /\ data \in [Steps -> Data]
    /\ active \in [Steps -> SUBSET Strats]
    /\ winner \in [Steps -> Data \union {None}]
    /\ shown \in [Steps -> [searching : BOOLEAN, result : Data \union {None}]]
    /\ pending \in [Steps -> Nat]
    /\ strat \in [Strats -> Strategies]
    /\ frames \in Seq(Frames)

(* Both ends of every link agree. *)
LinksAgree ==
    \A s \in Steps : IsInjective(children[s]) /\ ToSet(children[s]) = {c \in Steps : parent[c] = s}

(* What a strategy that is waited for works on *)
Waiting(s) ==
    \A i \in active[s] : strat[i].step = s /\ strat[i].data = data[s] /\ strat[i].at # "free"

(* A restart that is reading has dropped what was there and keeps the step. *)
ReadingAlone(s) ==
    s \in reading => /\ s # Root /\ lock[s] \in {s, Reloader}
                     /\ active[s] = {} /\ winner[s] = None
                     /\ Len(data[s].trees) <= Len(data[s].hyps)
                     /\ Len(data[s].hyps) <= Len(data[s].trees) + 1
                     /\ Len(data[s].hyps) <= Len(children[s])

Idle(s) == active[s] = {} /\ winner[s] = None

(* What has been read is what the tree says, unless a restart is due. *)
UpToDate(s) ==
    ~RestartDue(s) /\ (s \in reading \/ ~Idle(s)) =>
        /\ data[s].thesis = sentence[s] /\ sentence[s] \in Parsing
        /\ \A k \in 1..Len(data[s].hyps) : data[s].hyps[k] = sentence[children[s][k]]
        /\ \A k \in 1..Len(data[s].trees) : /\ data[s].trees[k] = sentence[children[s][k]]
                                            /\ sentence[children[s][k]] \in Parsing

(* What has been read is everything. *)
Whole(s) ==
    ~Idle(s) => Len(data[s].hyps) = Len(children[s]) /\ Len(data[s].trees) = Len(children[s])

Told(s) == s \in telling => s \in reading /\ lock[s] = s

Searched(s) ==
    /\ Waiting(s) /\ ReadingAlone(s) /\ UpToDate(s) /\ Whole(s) /\ Told(s)
    /\ s = Root => Idle(s)
    /\ winner[s] # None => winner[s] = data[s] /\ active[s] = {}
    /\ s \in reading \/ shown[s] = Status(s)

IInv == TypeOK /\ LinksAgree /\ \A s \in Steps : Searched(s)

-----------------------------------------------------------------------------

(* A step that an action leaves alone, as far as its search is concerned *)
Untouched(s) ==
    /\ reading' \intersect {s} = reading \intersect {s}
    /\ telling' \intersect {s} = telling \intersect {s}
    /\ s \in reading => lock'[s] = lock[s]
    /\ data'[s] = data[s] /\ active'[s] = active[s] /\ winner'[s] = winner[s] /\ shown'[s] = shown[s]
    /\ \A i \in active[s] : /\ strat'[i].step = strat[i].step /\ strat'[i].data = strat[i].data
                            /\ strat'[i].at # "free"
    /\ children'[s] = children[s]

(* No sentence that its search is about has changed, unless it is restarted. *)
StillDue(s) ==
    \/ RestartDue(s)'
    \/ /\ ~RestartDue(s) /\ sentence'[s] = sentence[s]
       /\ \A k \in 1..Len(children[s]) : sentence'[children[s][k]] = sentence[children[s][k]]

LEMMA Spared ==
    ASSUME TypeOK, NEW s \in Steps, Searched(s), Untouched(s), StillDue(s)
    PROVE  Searched(s)'
<1>1. Waiting(s)' /\ ReadingAlone(s)' /\ Whole(s)' /\ Told(s)'
  BY DEF Searched, Untouched, Waiting, ReadingAlone, Whole, Idle, Told
<1>2. UpToDate(s)'
  <2> SUFFICES ASSUME ~RestartDue(s)', s \in reading \/ ~Idle(s)
               PROVE  (/\ data[s].thesis = sentence[s] /\ sentence[s] \in Parsing
                       /\ \A k \in 1..Len(data[s].hyps) : data[s].hyps[k] = sentence[children[s][k]]
                       /\ \A k \in 1..Len(data[s].trees) :
                             data[s].trees[k] = sentence[children[s][k]] /\ sentence[children[s][k]] \in Parsing)'
    BY DEF UpToDate, Untouched, Idle
  <2>1. /\ ~RestartDue(s) /\ sentence'[s] = sentence[s]
        /\ \A k \in 1..Len(children[s]) : sentence'[children[s][k]] = sentence[children[s][k]]
    BY DEF StillDue
  <2>2. /\ data[s].thesis = sentence[s] /\ sentence[s] \in Parsing
        /\ \A k \in 1..Len(data[s].hyps) : data[s].hyps[k] = sentence[children[s][k]]
        /\ \A k \in 1..Len(data[s].trees) : /\ data[s].trees[k] = sentence[children[s][k]]
                                            /\ sentence[children[s][k]] \in Parsing
    BY <2>1 DEF Searched, UpToDate
  <2>3. /\ Len(data[s].hyps) \in Nat /\ Len(data[s].trees) \in Nat /\ Len(children[s]) \in Nat
        /\ Len(data[s].hyps) <= Len(children[s]) /\ Len(data[s].trees) <= Len(children[s])
    <3>1. data[s].hyps \in Seq(Sentences) /\ data[s].trees \in Seq(Sentences) /\ children[s] \in Seq(Steps)
      BY DEF TypeOK, Data
    <3>2. CASE s \in reading
      BY <3>1, <3>2 DEF Searched, ReadingAlone
    <3>3. CASE ~Idle(s)
      BY <3>1, <3>3 DEF Searched, Whole
    <3> QED  BY <3>2, <3>3
  <2> QED  BY <2>1, <2>2, <2>3 DEF Untouched
<1> QED  BY <1>1, <1>2 DEF Searched, Untouched, Idle, Status

-----------------------------------------------------------------------------
(* The restart of s leaves the other steps alone and drops what s had. *)
LEMMA Begins ==
    ASSUME TypeOK, \A t \in Steps : Searched(t), NEW s \in Steps, lock[s] = None,
           sentence' \in [Steps -> Sentences], BeginRestart(s)
    PROVE  /\ reading' \in SUBSET Steps
           /\ priority' \in [Steps -> Nat]
           /\ data' \in [Steps -> Data]
           /\ active' \in [Steps -> SUBSET Strats]
           /\ winner' \in [Steps -> Data \union {None}]
           /\ shown' \in [Steps -> [searching : BOOLEAN, result : Data \union {None}]]
           /\ strat' \in [Strats -> Strategies]
           /\ s \notin reading /\ s \notin telling
           /\ Idle(s)'
           /\ s \in reading' => /\ s # Root /\ data'[s] = NoData(sentence'[s]) /\ sentence'[s] \in Parsing
           /\ s \in reading' \/ shown'[s] = Status(s)'
           /\ \A t \in Steps \ {s} :
                 /\ reading' \intersect {t} = reading \intersect {t}
                 /\ data'[t] = data[t] /\ active'[t] = active[t] /\ winner'[t] = winner[t] /\ shown'[t] = shown[t]
                 /\ \A i \in active[t] : /\ strat'[i].step = strat[i].step /\ strat'[i].data = strat[i].data
                                         /\ strat'[i].at # "free"
<1>1. s \notin reading /\ s \notin telling
  BY StepsAssumption DEF Searched, ReadingAlone, Told
<1>2. CASE s = Root
  <2>1. UNCHANGED <<priority, data, active, winner, shown, strat, reading>>
    BY <1>2 DEF BeginRestart, search
  <2>2. Idle(s) /\ shown[s] = Status(s)
    BY <1>1, <1>2 DEF Searched
  <2>3. Idle(s)' /\ shown'[s] = Status(s)'
    BY <2>1, <2>2 DEF Idle, Status
  <2>4. \A t \in Steps : \A i \in active[t] : strat[i].at # "free"
    BY DEF Searched, Waiting
  <2> QED  BY <1>1, <2>1, <2>3, <2>4 DEF TypeOK
<1>3. CASE s # Root
  <2>1. /\ priority' = [priority EXCEPT ![s] = 0]
        /\ strat' = Dropped(active[s])
        /\ active' = [active EXCEPT ![s] = {}]
        /\ winner' = [winner EXCEPT ![s] = None]
        /\ data' = [data EXCEPT ![s] = NoData(sentence'[s])]
        /\ IF sentence'[s] \in Parsing
           THEN reading' = reading \union {s} /\ UNCHANGED shown
           ELSE UNCHANGED reading /\ Notify(s)
    BY <1>3 DEF BeginRestart
  <2>2. NoData(sentence'[s]) \in Data /\ Free \in Strategies
    BY DEF NoData, Data, Free, Strategies, Objects, Places
  <2>3. /\ priority' \in [Steps -> Nat] /\ data' \in [Steps -> Data]
        /\ active' \in [Steps -> SUBSET Strats] /\ winner' \in [Steps -> Data \union {None}]
        /\ reading' \in SUBSET Steps
    BY <2>1, <2>2 DEF TypeOK
  <2>4. strat' \in [Strats -> Strategies]
    BY <2>1, <2>2 DEF TypeOK, Dropped
  <2>5. active'[s] = {} /\ winner'[s] = None /\ data'[s] = NoData(sentence'[s])
    BY <2>1 DEF TypeOK
  <2>6. shown' \in [Steps -> [searching : BOOLEAN, result : Data \union {None}]]
    <3>1. CASE shown' = shown
      BY <3>1 DEF TypeOK
    <3>2. CASE Notify(s)
      <4> DEFINE new == [searching |-> active'[s] # {}, result |-> winner'[s]]
      <4>1. new \in [searching : BOOLEAN, result : Data \union {None}]
        BY <2>3
      <4>2. shown' = [shown EXCEPT ![s] = new]
        BY <3>2 DEF Notify
      <4> HIDE DEF new
      <4> QED  BY <4>1, <4>2 DEF TypeOK
    <3> QED  BY <2>1, <3>1, <3>2
  <2>7. s \in reading' \/ shown'[s] = Status(s)'
    <3>1. ASSUME Notify(s)
          PROVE  shown'[s] = Status(s)'
      BY <3>1 DEF TypeOK, Notify, Status
    <3> QED  BY <2>1, <3>1
  <2>8. ASSUME NEW t \in Steps \ {s}
        PROVE  /\ reading' \intersect {t} = reading \intersect {t}
               /\ data'[t] = data[t] /\ active'[t] = active[t] /\ winner'[t] = winner[t] /\ shown'[t] = shown[t]
               /\ \A i \in active[t] : strat'[i] = strat[i] /\ strat[i].at # "free"
    <3>1. \A i \in active[t] : i \in Strats /\ i \notin active[s] /\ strat[i].at # "free"
      <4>1. Waiting(s) /\ Waiting(t) /\ active[t] \subseteq Strats
        BY DEF Searched, TypeOK
      <4>2. \A i \in active[t] : strat[i].step = t /\ strat[i].at # "free"
        BY <4>1 DEF Waiting
      <4>3. \A i \in active[s] : strat[i].step = s
        BY <4>1 DEF Waiting
      <4> QED  BY <4>1, <4>2, <4>3
    <3>2. \A i \in active[t] : strat'[i] = strat[i]
      BY <2>1, <3>1 DEF Dropped
    <3> QED  BY <2>1, <3>1, <3>2 DEF TypeOK, Notify
  <2> QED  BY <1>1, <1>3, <2>1, <2>3, <2>4, <2>5, <2>6, <2>7, <2>8 DEF Idle
<1> QED  BY <1>2, <1>3

(* The step itself, once its restart has begun *)
LEMMA Begun ==
    ASSUME TypeOK, sentence' \in [Steps -> Sentences], children' \in [Steps -> Seq(Steps)], NEW s \in Steps,
           Idle(s)',
           s \in reading' => /\ s # Root /\ data'[s] = NoData(sentence'[s]) /\ sentence'[s] \in Parsing
                             /\ lock'[s] \in {s, Reloader},
           s \in telling' => s \in reading' /\ lock'[s] = s,
           s \in reading' \/ shown'[s] = Status(s)'
    PROVE  Searched(s)'
<1>1. s \in reading' => /\ data'[s].thesis = sentence'[s] /\ data'[s].hyps = <<>> /\ data'[s].trees = <<>>
  BY DEF NoData
<1>2. Len(<<>>) = 0 /\ Len(children'[s]) \in Nat
  OBVIOUS
<1> QED  BY <1>1, <1>2 DEF Searched, Waiting, ReadingAlone, UpToDate, Whole, Told, Idle

-----------------------------------------------------------------------------
(* The strategies launched for s work on its data. *)
LEMMA Launched ==
    ASSUME TypeOK, NEW s \in Steps, NEW d \in Data, NEW p, NEW base \in [Strats -> Strategies], Launch(s, d, p, base)
    PROVE  /\ strat' \in [Strats -> Strategies]
           /\ active' \in [Steps -> SUBSET Strats]
           /\ \A i \in active'[s] : strat'[i].step = s /\ strat'[i].data = d /\ strat'[i].at # "free"
           /\ \A t \in Steps \ {s} : active'[t] = active[t]
           /\ \A i \in Strats : base[i].at # "free" => strat'[i] = base[i]
<1>1. CASE p > LastPriority
  BY <1>1 DEF Launch, TypeOK
<1>2. CASE ~(p > LastPriority)
  <2> DEFINE free == {j \in Strats : base[j] = Free}
             new == [step |-> s, data |-> d, success |-> FALSE, at |-> IF p = 0 THEN "sleeping" ELSE "queued"]
  <2>1. PICK i \in free : strat' = [base EXCEPT ![i] = new] /\ active' = [active EXCEPT ![s] = {i}]
    BY <1>2 DEF Launch
  <2>2. new \in Strategies /\ new.step = s /\ new.data = d /\ new.at # "free"
    BY DEF Strategies, Objects, Places
  <2>3. base[i].at = "free" /\ i \in Strats
    BY DEF Free
  <2> HIDE DEF new
  <2>4. strat' \in [Strats -> Strategies] /\ strat'[i] = new /\ \A j \in Strats \ {i} : strat'[j] = base[j]
    BY <2>1, <2>2, <2>3
  <2>5. active' \in [Steps -> SUBSET Strats] /\ active'[s] = {i} /\ \A t \in Steps \ {s} : active'[t] = active[t]
    BY <2>1, <2>3 DEF TypeOK
  <2> QED  BY <2>2, <2>3, <2>4, <2>5
<1> QED  BY <1>1, <1>2

(* The members of a vector of children are steps, and their positions numbers. *)
LEMMA Children ==
    ASSUME TypeOK, NEW s \in Steps
    PROVE  /\ children[s] \in Seq(Steps) /\ Len(children[s]) \in Nat
           /\ \A k \in 1..Len(children[s]) : children[s][k] \in Steps
BY DEF TypeOK

LEMMA ChildOf ==
    ASSUME TypeOK, LinksAgree, NEW s \in Steps, NEW k \in 1..Len(children[s])
    PROVE  children[s][k] \in Steps /\ parent[children[s][k]] = s
<1>1. children[s][k] \in ToSet(children[s])
  BY Children DEF ToSet
<1> QED  BY <1>1 DEF LinksAgree

(* A step is told that its child has a new sentence. *)
LEMMA Tells ==
    ASSUME TypeOK, NEW s \in Steps, TellParent(s)
    PROVE  /\ pending' \in [Steps -> Nat]
           /\ parent[s] # None => pending'[parent[s]] > 0
           /\ \A t \in Steps : /\ parent[s] # t => pending'[t] = pending[t]
                               /\ pending[t] > 0 => pending'[t] > 0
BY DEF TypeOK, TellParent

LEMMA SetSentenceKeeps ==
    ASSUME IInv, NEW s \in Steps, SetSentence(s)
    PROVE  IInv'
<1>1. PICK x \in Sentences : sentence' = [sentence EXCEPT ![s] = x]
  BY DEF SetSentence
<1>2. /\ TypeOK /\ LinksAgree /\ \A t \in Steps : Searched(t)
      /\ UNCHANGED <<parent, children, antidists, frames>>
      /\ lock[s] = None /\ BeginRestart(s)
      /\ lock' = [t \in Steps |-> IF t \in {s} /\ s \in reading' THEN s ELSE lock[t]]
      /\ IF s \in reading' THEN telling' = telling \union {s} /\ UNCHANGED pending
         ELSE TellParent(s) /\ UNCHANGED telling
  BY DEF SetSentence, Restart, Unlocked, IInv
<1>3. sentence' \in [Steps -> Sentences] /\ \A t \in Steps \ {s} : sentence'[t] = sentence[t]
  BY <1>1, <1>2 DEF TypeOK
<1>4. lock' \in [Steps -> Steps \union {None, Reloader}] /\ (s \in reading' => lock'[s] = s)
      /\ \A t \in Steps \ {s} : lock'[t] = lock[t]
  BY <1>2 DEF TypeOK
<1>5. TypeOK'
  <2>1. pending' \in [Steps -> Nat] /\ telling' \in SUBSET Steps
    BY <1>2, Tells DEF TypeOK
  <2> QED  BY <1>2, <1>3, <1>4, <2>1, Begins DEF TypeOK
<1>6. LinksAgree'
  BY <1>2 DEF LinksAgree
<1>7. Searched(s)'
  <2>1. s \in telling' => s \in reading'
    BY <1>2, <1>3, Begins
  <2> QED  BY <1>2, <1>3, <1>4, <1>5, <2>1, Begins, Begun DEF TypeOK
<1>8. ASSUME NEW t \in Steps \ {s}
      PROVE  Searched(t)'
  <2>1. Untouched(t)
    BY <1>2, <1>3, <1>4, Begins DEF Untouched
  <2>2. StillDue(t)
    <3>1. CASE parent[s] = t
      <4>1. t # None
        BY StepsAssumption
      <4> QED  BY <1>2, <3>1, <4>1, Tells DEF StillDue, RestartDue
    <3>2. CASE parent[s] # t
      <4>1. \A k \in 1..Len(children[t]) : children[t][k] # s /\ children[t][k] \in Steps
        BY <1>2, <3>2, ChildOf
      <4>2. RestartDue(t) => RestartDue(t)'
        BY <1>2, Tells DEF RestartDue
      <4> QED  BY <1>3, <4>1, <4>2 DEF StillDue
    <3> QED  BY <3>1, <3>2
  <2> QED  BY <1>2, <2>1, <2>2, Spared
<1> QED  BY <1>5, <1>6, <1>7, <1>8 DEF IInv

LEMMA CoroutineKeeps ==
    ASSUME IInv, NEW s \in Steps, RestartCoroutine(s)
    PROVE  IInv'
<1>1. /\ TypeOK /\ LinksAgree /\ \A t \in Steps : Searched(t)
      /\ UNCHANGED <<sentence, parent, children, antidists, telling, frames>>
      /\ lock[s] = None /\ BeginRestart(s)
      /\ lock' = [t \in Steps |-> IF t \in {s} /\ s \in reading' THEN s ELSE lock[t]]
      /\ pending[s] > 0 /\ pending' = [pending EXCEPT ![s] = @ - 1]
  BY DEF RestartCoroutine, Restart, Unlocked, IInv, tree
<1>2. /\ lock' \in [Steps -> Steps \union {None, Reloader}] /\ (s \in reading' => lock'[s] = s)
      /\ \A t \in Steps \ {s} : lock'[t] = lock[t] /\ pending'[t] = pending[t]
      /\ pending' \in [Steps -> Nat]
  BY <1>1 DEF TypeOK
<1>3. sentence' \in [Steps -> Sentences]
  BY <1>1 DEF TypeOK
<1>4. TypeOK'
  BY <1>1, <1>2, <1>3, Begins DEF TypeOK
<1>5. LinksAgree'
  BY <1>1 DEF LinksAgree
<1>6. Searched(s)'
  <2>1. /\ s \notin telling' /\ Idle(s)'
        /\ s \in reading' => s # Root /\ data'[s] = NoData(sentence'[s]) /\ sentence'[s] \in Parsing
        /\ s \in reading' \/ shown'[s] = Status(s)'
    BY <1>1, <1>3, Begins
  <2>2. children' \in [Steps -> Seq(Steps)]
    BY <1>4 DEF TypeOK
  <2> QED  BY <1>1, <1>2, <1>3, <2>1, <2>2, Begun
<1>7. ASSUME NEW t \in Steps \ {s}
      PROVE  Searched(t)'
  <2>1. Untouched(t)
    BY <1>1, <1>2, <1>3, Begins DEF Untouched
  <2>2. StillDue(t)
    BY <1>1, <1>2 DEF StillDue, RestartDue
  <2> QED  BY <1>1, <2>1, <2>2, Spared
<1> QED  BY <1>4, <1>5, <1>6, <1>7 DEF IInv
LEMMA OrphanKeeps ==
    ASSUME IInv, NEW s \in Steps, Orphan(s)
    PROVE  IInv'
<1>1. PICK q \in Steps : q = parent[s]
  BY DEF Orphan, IInv, TypeOK
<1>2. /\ TypeOK /\ LinksAgree /\ \A t \in Steps : Searched(t)
      /\ parent' = [parent EXCEPT ![s] = None]
      /\ children' = [children EXCEPT ![q] = RemoveAt(@, Position(@, s))]
      /\ UNCHANGED <<sentence, antidists, telling, pending, frames>>
      /\ lock[s] = None /\ lock[q] = None /\ BeginRestart(q)
      /\ lock' = [t \in Steps |-> IF t \in {s, q} /\ q \in reading' THEN q ELSE lock[t]]
  BY <1>1 DEF Orphan, Restart, Unlocked, IInv
<1>3. PICK k \in 1..Len(children[q]) : k = Position(children[q], s) /\ children[q][k] = s
  <2>1. s \in ToSet(children[q]) /\ DOMAIN children[q] = 1..Len(children[q])
    BY <1>1, <1>2, Children DEF LinksAgree
  <2> QED  BY <2>1 DEF Position, ToSet
<1>4. DEFINE rest == RemoveAt(children[q], k)
<1>5. rest \in Seq(Steps) /\ IsInjective(rest) /\ ToSet(rest) = ToSet(children[q]) \ {s}
  BY <1>2, <1>3, Children, Erased DEF LinksAgree
<1>6. children' = [children EXCEPT ![q] = rest]
  BY <1>2, <1>3
<1> HIDE DEF rest
<1>7. /\ children' \in [Steps -> Seq(Steps)] /\ children'[q] = rest
      /\ \A t \in Steps \ {q} : children'[t] = children[t]
      /\ parent' \in [Steps -> Steps \union {None}] /\ parent'[s] = None
      /\ \A t \in Steps \ {s} : parent'[t] = parent[t]
      /\ lock' \in [Steps -> Steps \union {None, Reloader}] /\ (q \in reading' => lock'[q] = q)
      /\ \A t \in Steps : lock[t] # None => lock'[t] = lock[t]
      /\ sentence' \in [Steps -> Sentences]
  BY SMTT(30), <1>2, <1>5, <1>6 DEF TypeOK
<1>8. TypeOK'
  BY <1>2, <1>7, Begins DEF TypeOK
<1>9. LinksAgree'
  <2> SUFFICES ASSUME NEW t \in Steps
               PROVE  IsInjective(children'[t]) /\ ToSet(children'[t]) = {c \in Steps : parent'[c] = t}
    BY DEF LinksAgree
  <2>1. t # None
    BY StepsAssumption
  <2>2. CASE t = q
    BY <1>2, <1>5, <1>7, <2>1, <2>2 DEF LinksAgree
  <2>3. CASE t # q
    BY <1>1, <1>2, <1>7, <2>1, <2>3 DEF LinksAgree
  <2> QED  BY <2>2, <2>3
<1>10. Searched(q)'
  BY <1>2, <1>7, <1>8, Begins, Begun
<1>11. ASSUME NEW t \in Steps \ {q}
       PROVE  Searched(t)'
  <2>1. t \in reading => lock'[t] = lock[t]
    BY <1>2, <1>7, StepsAssumption DEF Searched, ReadingAlone
  <2>2. Untouched(t)
    <3>1. /\ reading' \intersect {t} = reading \intersect {t}
          /\ data'[t] = data[t] /\ active'[t] = active[t] /\ winner'[t] = winner[t] /\ shown'[t] = shown[t]
          /\ \A i \in active[t] : /\ strat'[i].step = strat[i].step /\ strat'[i].data = strat[i].data
                                  /\ strat'[i].at # "free"
      BY <1>2, <1>7, Begins
    <3> QED  BY <1>2, <1>7, <2>1, <3>1 DEF Untouched
  <2>3. s \notin telling
    BY <1>2, StepsAssumption DEF Searched, Told
  <2>4. RestartDue(t)' <=> RestartDue(t)
    BY <1>2, <1>7, <2>3 DEF RestartDue, TypeOK
  <2> QED  BY <1>2, <2>2, <2>4, Spared DEF StillDue
<1> QED  BY <1>8, <1>9, <1>10, <1>11 DEF IInv

LEMMA ReparentKeeps ==
    ASSUME IInv, NEW s \in Steps, NEW q \in Steps, Reparent(s, q)
    PROVE  IInv'
<1>1. PICK k \in 1..(Len(children[q]) + 1) : children' = [children EXCEPT ![q] = InsertAt(@, k, s)]
  BY DEF Reparent
<1>2. /\ TypeOK /\ LinksAgree /\ \A t \in Steps : Searched(t)
      /\ parent[s] = None /\ parent' = [parent EXCEPT ![s] = q]
      /\ UNCHANGED <<sentence, antidists, telling, pending, frames>>
      /\ lock[s] = None /\ lock[q] = None /\ BeginRestart(q)
      /\ lock' = [t \in Steps |-> IF t \in {s, q} /\ q \in reading' THEN q ELSE lock[t]]
  BY DEF Reparent, Restart, Unlocked, IInv
<1>3. DEFINE more == InsertAt(children[q], k, s)
<1>4. more \in Seq(Steps) /\ IsInjective(more) /\ ToSet(more) = ToSet(children[q]) \union {s}
  <2>1. s \notin ToSet(children[q])
    BY <1>2, StepsAssumption DEF LinksAgree
  <2> QED  BY <1>2, <2>1, Children, Inserted DEF LinksAgree
<1>5. children' = [children EXCEPT ![q] = more]
  BY <1>1
<1> HIDE DEF more
<1>6. /\ children' \in [Steps -> Seq(Steps)] /\ children'[q] = more
      /\ \A t \in Steps \ {q} : children'[t] = children[t]
      /\ parent' \in [Steps -> Steps \union {None}] /\ parent'[s] = q
      /\ \A t \in Steps \ {s} : parent'[t] = parent[t]
      /\ lock' \in [Steps -> Steps \union {None, Reloader}] /\ (q \in reading' => lock'[q] = q)
      /\ \A t \in Steps : lock[t] # None => lock'[t] = lock[t]
      /\ sentence' \in [Steps -> Sentences]
  BY <1>2, <1>4, <1>5 DEF TypeOK
<1>7. TypeOK'
  BY <1>2, <1>6, Begins DEF TypeOK
<1>8. LinksAgree'
  <2> SUFFICES ASSUME NEW t \in Steps
               PROVE  IsInjective(children'[t]) /\ ToSet(children'[t]) = {c \in Steps : parent'[c] = t}
    BY DEF LinksAgree
  <2>1. t # None
    BY StepsAssumption
  <2>2. CASE t = q
    BY <1>2, <1>4, <1>6, <2>1, <2>2 DEF LinksAgree
  <2>3. CASE t # q
    <3>1. \A c \in Steps : parent'[c] = t <=> parent[c] = t
      BY <1>2, <1>6, <2>1, <2>3
    <3> QED  BY <1>2, <1>6, <2>3, <3>1 DEF LinksAgree
  <2> QED  BY <2>2, <2>3
<1>9. Searched(q)'
  BY <1>2, <1>6, <1>7, Begins, Begun
<1>10. ASSUME NEW t \in Steps \ {q}
       PROVE  Searched(t)'
  <2>1. t \in reading => lock'[t] = lock[t]
    BY <1>2, <1>6, StepsAssumption DEF Searched, ReadingAlone
  <2>2. Untouched(t)
    <3>1. /\ reading' \intersect {t} = reading \intersect {t}
          /\ data'[t] = data[t] /\ active'[t] = active[t] /\ winner'[t] = winner[t] /\ shown'[t] = shown[t]
          /\ \A i \in active[t] : /\ strat'[i].step = strat[i].step /\ strat'[i].data = strat[i].data
                                  /\ strat'[i].at # "free"
      BY <1>2, <1>6, Begins
    <3> QED  BY <1>2, <1>6, <2>1, <3>1 DEF Untouched
  <2>3. s \notin telling
    BY <1>2, StepsAssumption DEF Searched, Told
  <2>4. RestartDue(t)' <=> RestartDue(t)
    BY <1>2, <1>6, <2>3 DEF RestartDue, TypeOK
  <2> QED  BY <1>2, <2>2, <2>4, Spared DEF StillDue
<1> QED  BY <1>7, <1>8, <1>9, <1>10 DEF IInv

-----------------------------------------------------------------------------
(* What the end of a restart gives back, and to whom it is told *)
LEMMA Ends ==
    ASSUME TypeOK, \A t \in Steps : Searched(t), NEW s \in reading, EndRestart(s), UNCHANGED tree
    PROVE  /\ reading' \in SUBSET Steps /\ telling' \in SUBSET Steps
           /\ s \notin reading' /\ s \notin telling'
           /\ lock' \in [Steps -> Steps \union {None, Reloader}]
           /\ pending' \in [Steps -> Nat]
           /\ \A t \in Steps \ {s} : /\ reading' \intersect {t} = reading \intersect {t}
                                     /\ telling' \intersect {t} = telling \intersect {t}
                                     /\ t \in reading => lock'[t] = lock[t]
           /\ \A t \in Steps : RestartDue(t) => RestartDue(t)'
<1>1. /\ s \in Steps /\ reading' = reading \ {s} /\ telling' = telling \ {s} /\ parent' = parent
      /\ lock' = [t \in Steps |-> IF lock[t] = s THEN None ELSE lock[t]]
      /\ IF s \in telling THEN TellParent(s) ELSE UNCHANGED pending
  BY DEF EndRestart, TypeOK, tree
<1>2. pending' \in [Steps -> Nat]
  BY <1>1, Tells DEF TypeOK
<1>3. ASSUME NEW t \in Steps \ {s}, t \in reading
      PROVE  lock'[t] = lock[t]
  <2>1. lock[t] \in {t, Reloader}
    BY <1>3 DEF Searched, ReadingAlone
  <2> QED  BY <1>1, <2>1, StepsAssumption
<1>4. ASSUME NEW t \in Steps, RestartDue(t)
      PROVE  RestartDue(t)'
  <2>1. CASE pending[t] > 0
    BY <1>1, <2>1, Tells DEF RestartDue
  <2>2. CASE \E c \in telling \ {s} : parent[c] = t
    BY <1>1, <2>2 DEF RestartDue
  <2>3. CASE s \in telling /\ parent[s] = t
    <3>1. t # None
      BY StepsAssumption
    <3> QED  BY <1>1, <2>3, <3>1, Tells DEF RestartDue
  <2> QED  BY <1>4, <2>1, <2>2, <2>3 DEF RestartDue
<1> QED  BY <1>1, <1>2, <1>3, <1>4 DEF TypeOK

LEMMA ReadSentenceKeeps ==
    ASSUME IInv, NEW s \in Steps, ReadSentence(s)
    PROVE  IInv'
<1> DEFINE hyps == Append(data[s].hyps, sentence[NextChild(s)])
<1>1. /\ TypeOK /\ LinksAgree /\ \A t \in Steps : Searched(t)
      /\ s \in reading /\ MoreChildren(s) /\ Len(data[s].hyps) = Len(data[s].trees)
      /\ data' = [data EXCEPT ![s].hyps = hyps]
      /\ UNCHANGED <<sentence, parent, children, antidists, lock, reading, telling, priority, active,
                     winner, shown, strat, pending, frames>>
  BY DEF ReadSentence, IInv, tree
<1>2. data[s] \in Data /\ data[s].hyps \in Seq(Sentences) /\ data[s].trees \in Seq(Sentences)
      /\ Len(data[s].hyps) \in Nat /\ Len(data[s].trees) \in Nat
  BY <1>1 DEF TypeOK, Data
<1>3. Len(data[s].hyps) + 1 \in 1..Len(children[s]) /\ NextChild(s) = children[s][Len(data[s].hyps) + 1]
  BY <1>1, <1>2, Children DEF MoreChildren, NextChild
<1>4. NextChild(s) \in Steps /\ sentence[NextChild(s)] \in Sentences
  BY <1>1, <1>3, Children DEF TypeOK
<1>5. /\ hyps \in Seq(Sentences) /\ Len(hyps) = Len(data[s].hyps) + 1
      /\ \A k \in 1..Len(data[s].hyps) : hyps[k] = data[s].hyps[k]
      /\ hyps[Len(data[s].hyps) + 1] = sentence[NextChild(s)]
  BY <1>2, <1>4, AppendProperties
<1> HIDE DEF hyps
<1>6. /\ data' \in [Steps -> Data] /\ data'[s].hyps = hyps /\ data'[s].trees = data[s].trees
      /\ data'[s].thesis = data[s].thesis
      /\ \A t \in Steps \ {s} : data'[t] = data[t]
  <2>1. data \in [Steps -> Data] /\ antidists \in Antidists
    BY <1>1 DEF TypeOK
  <2> QED  BY <1>1, <1>5, <2>1 DEF Data
<1>7. TypeOK'
  BY <1>1, <1>6 DEF TypeOK
<1>8. LinksAgree'
  BY <1>1 DEF LinksAgree
<1>9. \A t \in Steps : RestartDue(t)' <=> RestartDue(t)
  BY <1>1 DEF RestartDue
<1>10. Searched(s)'
  <2>1. Searched(s)
    BY <1>1
  <2>2. ReadingAlone(s)'
    BY <1>1, <1>2, <1>3, <1>5, <1>6, <2>1 DEF Searched, ReadingAlone
  <2>3. UpToDate(s)'
    <3> SUFFICES ASSUME ~RestartDue(s)
                 PROVE  /\ data'[s].thesis = sentence[s] /\ sentence[s] \in Parsing
                        /\ \A k \in 1..Len(hyps) : hyps[k] = sentence[children[s][k]]
                        /\ \A k \in 1..Len(data[s].trees) : /\ data[s].trees[k] = sentence[children[s][k]]
                                                            /\ sentence[children[s][k]] \in Parsing
      BY <1>1, <1>6, <1>9 DEF UpToDate
    <3>1. /\ data[s].thesis = sentence[s] /\ sentence[s] \in Parsing
          /\ \A k \in 1..Len(data[s].hyps) : data[s].hyps[k] = sentence[children[s][k]]
          /\ \A k \in 1..Len(data[s].trees) : /\ data[s].trees[k] = sentence[children[s][k]]
                                              /\ sentence[children[s][k]] \in Parsing
      BY <1>1, <2>1 DEF Searched, UpToDate
    <3>2. ASSUME NEW k \in 1..Len(hyps)
          PROVE  hyps[k] = sentence[children[s][k]]
      <4>1. CASE k \in 1..Len(data[s].hyps)
        BY <1>5, <3>1, <4>1
      <4>2. CASE k = Len(data[s].hyps) + 1
        BY <1>3, <1>5, <4>2
      <4> QED  BY <1>2, <1>5, <4>1, <4>2
    <3> QED  BY <1>6, <3>1, <3>2
  <2>4. Idle(s) /\ Idle(s)'
    BY <1>1, <2>1 DEF Searched, ReadingAlone, Idle
  <2> QED  BY <1>1, <2>1, <2>2, <2>3, <2>4 DEF Searched, Waiting, Whole, Told, Idle
<1>11. ASSUME NEW t \in Steps \ {s}
       PROVE  Searched(t)'
  <2>1. Searched(t) /\ Waiting(t)
    BY <1>1 DEF Searched
  <2>2. Untouched(t)
    BY <1>1, <1>6, <2>1 DEF Untouched, Waiting
  <2> QED  BY <1>1, <1>9, <2>1, <2>2, Spared DEF StillDue
<1> QED  BY <1>7, <1>8, <1>10, <1>11 DEF IInv
LEMMA ReadTreeKeeps ==
    ASSUME IInv, NEW s \in Steps, ReadTree(s)
    PROVE  IInv'
<1> DEFINE trees == Append(data[s].trees, sentence[NextChild(s)])
           known == Len(data[s].trees)
<1>1. /\ TypeOK /\ LinksAgree /\ \A t \in Steps : Searched(t)
      /\ s \in reading /\ MoreChildren(s) /\ Len(data[s].hyps) > known
      /\ data' = [data EXCEPT ![s].trees = trees]
      /\ UNCHANGED <<sentence, parent, children, antidists, priority, active, winner, strat, frames>>
      /\ UNCHANGED tree
      /\ IF sentence[NextChild(s)] \in Parsing
         THEN UNCHANGED <<lock, reading, telling, shown, pending>>
         ELSE Notify(s) /\ EndRestart(s)
  BY DEF ReadTree, IInv, tree
<1>2. data[s] \in Data /\ data[s].hyps \in Seq(Sentences) /\ data[s].trees \in Seq(Sentences)
      /\ Len(data[s].hyps) \in Nat /\ known \in Nat
  BY <1>1 DEF TypeOK, Data
<1>3. known + 1 \in 1..Len(children[s]) /\ NextChild(s) = children[s][known + 1]
  BY <1>1, <1>2, Children DEF MoreChildren, NextChild
<1>4. NextChild(s) \in Steps /\ sentence[NextChild(s)] \in Sentences
  BY <1>1, <1>3, Children DEF TypeOK
<1>5. /\ trees \in Seq(Sentences) /\ Len(trees) = known + 1
      /\ \A k \in 1..known : trees[k] = data[s].trees[k]
      /\ trees[known + 1] = sentence[NextChild(s)]
  BY <1>2, <1>4, AppendProperties
<1> HIDE DEF trees
<1>6. /\ data' \in [Steps -> Data] /\ data'[s].hyps = data[s].hyps /\ data'[s].trees = trees
      /\ data'[s].thesis = data[s].thesis
      /\ \A t \in Steps \ {s} : data'[t] = data[t]
  <2>1. data \in [Steps -> Data] /\ antidists \in Antidists
    BY <1>1 DEF TypeOK
  <2> QED  BY <1>1, <1>5, <2>1 DEF Data
<1>7. Searched(s) /\ Idle(s) /\ Idle(s)' /\ LinksAgree'
  BY <1>1 DEF Searched, ReadingAlone, Idle, LinksAgree
<1>8. CASE sentence[NextChild(s)] \in Parsing
  <2>1. TypeOK'
    BY <1>1, <1>6, <1>8 DEF TypeOK
  <2>2. \A t \in Steps : RestartDue(t)' <=> RestartDue(t)
    BY <1>1, <1>8 DEF RestartDue
  <2>3. ReadingAlone(s)'
    BY <1>1, <1>2, <1>3, <1>5, <1>6, <1>7, <1>8 DEF Searched, ReadingAlone
  <2>4. UpToDate(s)'
    <3> SUFFICES ASSUME ~RestartDue(s)
                 PROVE  /\ data'[s].thesis = sentence[s] /\ sentence[s] \in Parsing
                        /\ \A k \in 1..Len(data[s].hyps) : data[s].hyps[k] = sentence[children[s][k]]
                        /\ \A k \in 1..Len(trees) : /\ trees[k] = sentence[children[s][k]]
                                                    /\ sentence[children[s][k]] \in Parsing
      BY <1>1, <1>6, <1>8, <2>2 DEF UpToDate
    <3>1. /\ data[s].thesis = sentence[s] /\ sentence[s] \in Parsing
          /\ \A k \in 1..Len(data[s].hyps) : data[s].hyps[k] = sentence[children[s][k]]
          /\ \A k \in 1..known : /\ data[s].trees[k] = sentence[children[s][k]]
                                 /\ sentence[children[s][k]] \in Parsing
      BY <1>1, <1>7 DEF Searched, UpToDate
    <3>2. ASSUME NEW k \in 1..Len(trees)
          PROVE  trees[k] = sentence[children[s][k]] /\ sentence[children[s][k]] \in Parsing
      <4>1. CASE k \in 1..known
        BY <1>5, <3>1, <4>1
      <4>2. CASE k = known + 1
        BY <1>3, <1>5, <1>8, <4>2
      <4> QED  BY <1>2, <1>5, <4>1, <4>2
    <3> QED  BY <1>6, <3>1, <3>2
  <2>5. Searched(s)'
    BY <1>1, <1>7, <1>8, <2>3, <2>4 DEF Searched, Waiting, Whole, Told, Idle
  <2>6. ASSUME NEW t \in Steps \ {s}
        PROVE  Searched(t)'
    <3>1. Searched(t) /\ Waiting(t)
      BY <1>1 DEF Searched
    <3>2. Untouched(t)
      BY <1>1, <1>6, <1>8, <3>1 DEF Untouched, Waiting
    <3> QED  BY <1>1, <2>2, <3>1, <3>2, Spared DEF StillDue
  <2> QED  BY <1>7, <2>1, <2>5, <2>6 DEF IInv
<1>9. CASE sentence[NextChild(s)] \notin Parsing
  <2> DEFINE new == [searching |-> active'[s] # {}, result |-> winner'[s]]
  <2>1. new \in [searching : BOOLEAN, result : Data \union {None}] /\ new = Status(s)'
    BY <1>1 DEF TypeOK, Status
  <2>2. shown' = [shown EXCEPT ![s] = new] /\ EndRestart(s)
    BY <1>1, <1>9 DEF Notify
  <2> HIDE DEF new
  <2>3. shown' \in [Steps -> [searching : BOOLEAN, result : Data \union {None}]] /\ shown'[s] = Status(s)'
        /\ \A t \in Steps \ {s} : shown'[t] = shown[t]
    BY <1>1, <2>1, <2>2 DEF TypeOK
  <2>4. TypeOK'
    BY <1>1, <1>6, <2>2, <2>3, Ends DEF TypeOK
  <2>5. Searched(s)'
    BY <1>1, <1>7, <2>2, <2>3, <2>4, Begun, Ends DEF TypeOK
  <2>6. ASSUME NEW t \in Steps \ {s}
        PROVE  Searched(t)'
    <3>1. Searched(t) /\ Waiting(t)
      BY <1>1 DEF Searched
    <3>2. Untouched(t)
      <4>1. /\ reading' \intersect {t} = reading \intersect {t}
            /\ telling' \intersect {t} = telling \intersect {t}
            /\ t \in reading => lock'[t] = lock[t]
        BY <1>1, <2>2, Ends
      <4> QED  BY <1>1, <1>6, <2>3, <3>1, <4>1 DEF Untouched, Waiting
    <3>3. StillDue(t)
      BY <1>1, <2>2, Ends DEF StillDue
    <3> QED  BY <1>1, <3>1, <3>2, <3>3, Spared
  <2> QED  BY <1>7, <2>4, <2>5, <2>6 DEF IInv
<1> QED  BY <1>8, <1>9

LEMMA LaunchFirstKeeps ==
    ASSUME IInv, NEW s \in Steps, LaunchFirst(s)
    PROVE  IInv'
<1>1. /\ TypeOK /\ LinksAgree /\ \A t \in Steps : Searched(t)
      /\ s \in reading /\ ~MoreChildren(s)
      /\ data' = [data EXCEPT ![s].antidists = antidists]
      /\ Launch(s, data'[s], 0, strat)
      /\ UNCHANGED <<sentence, parent, children, antidists, priority, winner, frames>>
      /\ UNCHANGED tree
      /\ Notify(s) /\ EndRestart(s)
  BY DEF LaunchFirst, IInv, tree
<1>2. /\ data' \in [Steps -> Data] /\ data'[s].hyps = data[s].hyps /\ data'[s].trees = data[s].trees
      /\ data'[s].thesis = data[s].thesis
      /\ \A t \in Steps \ {s} : data'[t] = data[t]
  <2>1. data \in [Steps -> Data] /\ antidists \in Antidists
    BY <1>1 DEF TypeOK
  <2> QED  BY <1>1, <2>1 DEF Data
<1>3. /\ strat' \in [Strats -> Strategies] /\ active' \in [Steps -> SUBSET Strats]
      /\ \A i \in active'[s] : strat'[i].step = s /\ strat'[i].data = data'[s] /\ strat'[i].at # "free"
      /\ \A t \in Steps \ {s} : active'[t] = active[t]
      /\ \A i \in Strats : strat[i].at # "free" => strat'[i] = strat[i]
  <2>1. strat \in [Strats -> Strategies] /\ data'[s] \in Data
    BY <1>1, <1>2 DEF TypeOK
  <2> QED  BY <1>1, <2>1, Launched
<1>4. Searched(s) /\ LinksAgree' /\ winner'[s] = None /\ s # Root
  BY <1>1 DEF Searched, ReadingAlone, LinksAgree
<1> DEFINE new == [searching |-> active'[s] # {}, result |-> winner'[s]]
<1>5. new \in [searching : BOOLEAN, result : Data \union {None}] /\ new = Status(s)'
  BY <1>1 DEF TypeOK, Status
<1>6. shown' = [shown EXCEPT ![s] = new]
  BY <1>1 DEF Notify
<1> HIDE DEF new
<1>7. shown' \in [Steps -> [searching : BOOLEAN, result : Data \union {None}]] /\ shown'[s] = Status(s)'
      /\ \A t \in Steps \ {s} : shown'[t] = shown[t]
  BY <1>1, <1>5, <1>6 DEF TypeOK
<1>8. TypeOK'
  BY <1>1, <1>2, <1>3, <1>7, Ends DEF TypeOK
<1>9. Searched(s)'
  <2>1. s \notin reading' /\ s \notin telling' /\ (RestartDue(s) => RestartDue(s)')
    BY <1>1, Ends
  <2>2. Len(data[s].hyps) = Len(children[s]) /\ Len(data[s].trees) = Len(children[s])
    <3>1. data[s].hyps \in Seq(Sentences) /\ data[s].trees \in Seq(Sentences) /\ children[s] \in Seq(Steps)
      BY <1>1 DEF TypeOK, Data
    <3> QED  BY <1>1, <1>4, <3>1 DEF Searched, ReadingAlone, MoreChildren
  <2>3. UpToDate(s)'
    BY <1>1, <1>2, <1>4, <2>1 DEF Searched, UpToDate
  <2> QED  BY <1>1, <1>2, <1>3, <1>4, <1>7, <2>1, <2>2, <2>3 DEF Searched, Waiting, ReadingAlone, Whole, Told
<1>10. ASSUME NEW t \in Steps \ {s}
       PROVE  Searched(t)'
  <2>1. Searched(t) /\ Waiting(t)
    BY <1>1 DEF Searched
  <2>2. Untouched(t)
    <3>1. /\ reading' \intersect {t} = reading \intersect {t}
          /\ telling' \intersect {t} = telling \intersect {t}
          /\ t \in reading => lock'[t] = lock[t]
      BY <1>1, Ends
    <3>2. \A i \in active[t] : i \in Strats /\ strat[i].at # "free"
      BY <1>1, <2>1 DEF Waiting, TypeOK
    <3> QED  BY <1>1, <1>2, <1>3, <1>7, <3>1, <3>2 DEF Untouched
  <2>3. StillDue(t)
    BY <1>1, Ends DEF StillDue
  <2> QED  BY <1>1, <2>1, <2>2, <2>3, Spared
<1> QED  BY <1>4, <1>8, <1>9, <1>10 DEF IInv
-----------------------------------------------------------------------------
(* Actions that leave the tree, the mutexes and what the searches are about *)
LEMMA Quiet ==
    ASSUME IInv, TypeOK',
           UNCHANGED <<sentence, parent, children, reading, telling, data, active, winner, shown, pending>>,
           \A s \in reading : lock'[s] = lock[s],
           \A s \in Steps : \A i \in active[s] : /\ strat'[i].step = strat[i].step
                                                 /\ strat'[i].data = strat[i].data
                                                 /\ strat'[i].at # "free"
    PROVE  IInv'
<1>1. LinksAgree'
  BY DEF IInv, LinksAgree
<1>2. ASSUME NEW s \in Steps
      PROVE  Searched(s)'
  <2>1. Untouched(s) /\ TypeOK /\ Searched(s)
    BY DEF Untouched, IInv
  <2>2. StillDue(s)
    BY DEF StillDue, RestartDue
  <2> QED  BY <2>1, <2>2, Spared
<1> QED  BY <1>1, <1>2 DEF IInv

LEMMA Waits ==
    ASSUME IInv, NEW s \in Steps, NEW i \in active[s]
    PROVE  i \in Strats /\ strat[i].step = s /\ strat[i].data = data[s] /\ strat[i].at # "free"
BY DEF IInv, TypeOK, Searched, Waiting

LEMMA SetAntidistsKeeps ==
    ASSUME IInv, SetAntidists
    PROVE  IInv'
<1>1. Frame(Root, 0) \in Frames
  BY StepsAssumption DEF Frame, Frames
<1>2. frames' \in Seq(Frames)
  BY <1>1 DEF SetAntidists
<1>3. TypeOK'
  BY <1>2 DEF SetAntidists, IInv, TypeOK, tree, search
<1> QED  BY <1>3, Quiet, Waits DEF SetAntidists, tree, search

LEMMA FramesTyped ==
    ASSUME TypeOK, frames # <<>>
    PROVE  /\ Len(frames) \in Nat /\ Len(frames) \in 1..Len(frames)
           /\ Top.step \in Steps /\ Top.next \in Nat
           /\ \A n \in Nat : GoOn(n) \in Seq(Frames)
<1>1. frames \in Seq(Frames) /\ Len(frames) \in Nat /\ Len(frames) \in 1..Len(frames)
  BY DEF TypeOK
<1>2. frames[Len(frames)] \in Frames
  BY <1>1
<1>3. Top.step \in Steps /\ Top.next \in Nat
  BY <1>2 DEF Top, Last, Frames
<1>4. ASSUME NEW n \in Nat
      PROVE  GoOn(n) \in Seq(Frames)
  <2>1. Frame(Top.step, n) \in Frames
    BY <1>3 DEF Frame, Frames
  <2> QED  BY <1>1, <2>1, ExceptSeq DEF GoOn
<1> QED  BY <1>1, <1>3, <1>4

LEMMA ReloadEnterKeeps ==
    ASSUME IInv, ReloadEnter
    PROVE  IInv'
<1>1. PICK s \in Steps : s = Top.step
  BY FramesTyped DEF ReloadEnter, IInv
<1>2. /\ TypeOK /\ LinksAgree /\ \A t \in Steps : Searched(t)
      /\ UNCHANGED <<sentence, parent, children, antidists, telling, pending>>
      /\ lock[s] = None /\ lock' = [lock EXCEPT ![s] = Reloader] /\ BeginRestart(s)
      /\ frames # <<>> /\ frames' = GoOn(1)
  BY <1>1 DEF ReloadEnter, IInv, tree
<1>3. /\ lock' \in [Steps -> Steps \union {None, Reloader}] /\ lock'[s] = Reloader
      /\ \A t \in Steps \ {s} : lock'[t] = lock[t]
      /\ sentence' \in [Steps -> Sentences]
  BY <1>2 DEF TypeOK
<1>4. frames' \in Seq(Frames)
  BY <1>2, FramesTyped
<1>5. TypeOK'
  BY <1>2, <1>3, <1>4, Begins DEF TypeOK
<1>6. LinksAgree'
  BY <1>2 DEF LinksAgree
<1>7. Searched(s)'
  BY <1>2, <1>3, <1>5, Begins, Begun DEF TypeOK
<1>8. ASSUME NEW t \in Steps \ {s}
      PROVE  Searched(t)'
  <2>1. Untouched(t)
    BY <1>2, <1>3, Begins DEF Untouched
  <2>2. StillDue(t)
    BY <1>2 DEF StillDue, RestartDue
  <2> QED  BY <1>2, <2>1, <2>2, Spared
<1> QED  BY <1>5, <1>6, <1>7, <1>8 DEF IInv

LEMMA ReloadNextKeeps ==
    ASSUME IInv, ReloadNext
    PROVE  IInv'
<1>1. PICK s \in Steps : s = Top.step /\ s \notin reading
  BY FramesTyped DEF ReloadNext, IInv
<1>2. TypeOK /\ frames # <<>> /\ Top.next \in Nat /\ Top.next > 0
  BY FramesTyped DEF ReloadNext, IInv
<1>3. UNCHANGED <<sentence, parent, children, antidists, reading, telling, priority, data, active, winner,
                  shown, strat, pending>>
  BY DEF ReloadNext, tree, search
<1>4. frames' \in Seq(Frames) /\ lock' \in {lock, [lock EXCEPT ![s] = None]}
  <2>1. CASE Top.next <= Len(children[s])
    <3>1. Top.next + 1 \in Nat
      BY <1>2
    <3>2. GoOn(Top.next + 1) \in Seq(Frames)
      BY <1>2, <3>1, FramesTyped
    <3>3. children[s][Top.next] \in Steps
      BY <1>2, <2>1, Children
    <3>4. Frame(children[s][Top.next], 0) \in Frames
      BY <3>3 DEF Frame, Frames
    <3>5. frames' = Append(GoOn(Top.next + 1), Frame(children[s][Top.next], 0)) /\ lock' = lock
      BY <1>1, <2>1 DEF ReloadNext
    <3> QED  BY <3>2, <3>4, <3>5, AppendProperties
  <2>2. CASE ~(Top.next <= Len(children[s]))
    <3>1. frames' = Front(frames) /\ lock' = [lock EXCEPT ![s] = None]
      BY <1>1, <2>2 DEF ReloadNext
    <3>2. frames \in Seq(Frames) /\ Len(frames) \in Nat
      BY <1>2 DEF TypeOK
    <3>3. \A n \in 1..(Len(frames) - 1) : frames[n] \in Frames
      BY <3>2
    <3>4. Front(frames) \in Seq(Frames)
      BY <3>2, <3>3, SubSeqProperties DEF Front
    <3> QED  BY <3>1, <3>4
  <2> QED  BY <2>1, <2>2
<1>5. TypeOK'
  BY <1>2, <1>3, <1>4 DEF TypeOK
<1>6. \A t \in reading : lock'[t] = lock[t]
  BY <1>1, <1>2, <1>4 DEF TypeOK
<1> QED  BY <1>3, <1>5, <1>6, Quiet, Waits

LEMMA MoveKeeps ==
    ASSUME IInv, NEW i \in Strats, NEW from \in Places \ {"free"}, NEW to \in Places \ {"free"}, Move(i, from, to)
    PROVE  IInv'
<1>1. /\ strat' = [strat EXCEPT ![i].at = to] /\ TypeOK
      /\ UNCHANGED <<sentence, parent, children, antidists, lock, reading, telling, priority, data,
                     active, winner, shown, pending, frames>>
  BY DEF Move, tree, IInv
<1>2. strat \in [Strats -> Objects] /\ \A j \in Strats : strat[j].at # "free" => strat[j].step \in Steps
  BY <1>1 DEF TypeOK, Strategies
<1>3. /\ strat' \in [Strats -> Objects] /\ strat'[i].at = to
      /\ strat'[i].step = strat[i].step /\ strat'[i].data = strat[i].data
      /\ \A j \in Strats \ {i} : strat'[j] = strat[j]
  BY <1>1, <1>2 DEF Objects
<1>4. strat[i].at = from
  BY DEF Move
<1>5. strat' \in [Strats -> Strategies]
  BY <1>2, <1>3, <1>4 DEF Strategies
<1>6. TypeOK'
  BY <1>1, <1>5 DEF TypeOK
<1> QED  BY <1>1, <1>3, <1>6, Quiet, Waits

LEMMA FinishKeeps ==
    ASSUME IInv, NEW i \in Strats, Finish(i)
    PROVE  IInv'
<1>1. PICK b \in BOOLEAN : strat' = [strat EXCEPT ![i].at = "reporting", ![i].success = b]
  BY DEF Finish
<1>2. /\ TypeOK
      /\ UNCHANGED <<sentence, parent, children, antidists, lock, reading, telling, priority, data,
                     active, winner, shown, pending, frames>>
  BY DEF Finish, tree, IInv
<1>3. strat \in [Strats -> Objects] /\ \A j \in Strats : strat[j].at # "free" => strat[j].step \in Steps
  BY <1>2 DEF TypeOK, Strategies
<1>4. /\ strat' \in [Strats -> Objects] /\ strat'[i].at = "reporting"
      /\ strat'[i].step = strat[i].step /\ strat'[i].data = strat[i].data
      /\ \A j \in Strats \ {i} : strat'[j] = strat[j]
  BY <1>1, <1>3 DEF Objects, Places
<1>5. strat[i].at # "free"
  BY DEF Finish
<1>6. strat' \in [Strats -> Strategies]
  BY <1>3, <1>4, <1>5 DEF Strategies
<1>7. TypeOK'
  BY <1>2, <1>6 DEF TypeOK
<1> QED  BY <1>2, <1>4, <1>7, Quiet, Waits

LEMMA YieldKeeps ==
    ASSUME IInv, NEW i \in Strats, Yield(i)
    PROVE  IInv'
<1>1. /\ strat' = [strat EXCEPT ![i] = IF Waited(i) THEN [@ EXCEPT !.at = "queued"] ELSE Free] /\ TypeOK
      /\ UNCHANGED <<sentence, parent, children, antidists, lock, reading, telling, priority, data,
                     active, winner, shown, pending, frames>>
  BY DEF Yield, tree, IInv
<1>2. Free \in Strategies /\ "queued" \in Places
  BY DEF Free, Strategies, Objects, Places
<1>3. strat \in [Strats -> Objects] /\ \A j \in Strats : strat[j].at # "free" => strat[j].step \in Steps
  BY <1>1 DEF TypeOK, Strategies
<1>4. /\ strat' \in [Strats -> Objects]
      /\ Waited(i) => /\ strat'[i].at = "queued"
                      /\ strat'[i].step = strat[i].step /\ strat'[i].data = strat[i].data
      /\ \A j \in Strats \ {i} : strat'[j] = strat[j]
  BY <1>1, <1>2, <1>3 DEF Objects, Strategies
<1>5. strat' \in [Strats -> Strategies]
  <2>1. strat[i].at # "free"
    BY DEF Yield
  <2>2. strat'[i] \in Strategies
    <3>1. CASE Waited(i)
      BY <1>3, <1>4, <2>1, <3>1 DEF Strategies
    <3>2. CASE ~Waited(i)
      BY <1>1, <1>2, <3>2 DEF TypeOK
    <3> QED  BY <3>1, <3>2
  <2> QED  BY <1>1, <1>4, <2>2 DEF TypeOK
<1>6. \A s \in Steps : i \in active[s] => Waited(i)
  BY Waits DEF Waited
<1>7. TypeOK'
  BY <1>1, <1>5 DEF TypeOK
<1> QED  BY <1>1, <1>4, <1>6, <1>7, Quiet, Waits
LEMMA ReportKeeps ==
    ASSUME IInv, NEW i \in Strats, Report(i)
    PROVE  IInv'
<1> DEFINE s == strat[i].step
           over == [strat EXCEPT ![i] = Free]
<1>1. /\ TypeOK /\ LinksAgree /\ \A t \in Steps : Searched(t)
      /\ strat[i].at = "reporting" /\ lock[s] = None
      /\ UNCHANGED <<sentence, parent, children, antidists, lock, reading, telling, data, pending, frames>>
  BY DEF Report, tree, IInv
<1>2. Free \in Strategies /\ over \in [Strats -> Strategies]
      /\ \A j \in Strats \ {i} : over[j] = strat[j]
  BY <1>1 DEF Free, Strategies, Objects, Places, TypeOK
<1>3. CASE ~Waited(i)
  <2>1. strat' = over /\ UNCHANGED <<active, winner, priority, shown>>
    BY <1>3 DEF Report
  <2>2. \A t \in Steps : i \notin active[t]
    BY <1>3, Waits DEF Waited
  <2>3. TypeOK'
    BY <1>1, <1>2, <2>1 DEF TypeOK
  <2> QED  BY <1>1, <1>2, <2>1, <2>2, <2>3, Quiet, Waits
<1>4. CASE Waited(i) /\ s \in Steps
  <2>1. PICK q \in Steps : q = s
    BY <1>4
  <2>2. i \in active[q] /\ strat[i].data = data[q] /\ Searched(q) /\ lock[q] = None
    BY <1>1, <1>4, <2>1, Waits DEF Waited
  <2>3. q \notin reading /\ q # Root /\ winner[q] = None /\ q \notin telling
    BY <2>2, StepsAssumption DEF Searched, ReadingAlone, Idle, Told
  (* What has to be shown of the step, and of the other steps *)
  <2>4. ASSUME /\ strat' \in [Strats -> Strategies] /\ active' \in [Steps -> SUBSET Strats]
               /\ winner' \in [Steps -> Data \union {None}] /\ priority' \in [Steps -> Nat]
               /\ Notify(q)
               /\ \A j \in active'[q] : strat'[j].step = q /\ strat'[j].data = data[q] /\ strat'[j].at # "free"
               /\ winner'[q] # None => winner'[q] = data[q] /\ active'[q] = {}
               /\ \A t \in Steps \ {q} :
                     /\ active'[t] = active[t] /\ winner'[t] = winner[t]
                     /\ \A j \in active[t] : strat'[j] = strat[j]
        PROVE  IInv'
    <3> DEFINE new == [searching |-> active'[q] # {}, result |-> winner'[q]]
    <3>1. new \in [searching : BOOLEAN, result : Data \union {None}] /\ new = Status(q)'
      BY <2>4 DEF Status
    <3>2. shown' = [shown EXCEPT ![q] = new]
      BY <2>4 DEF Notify
    <3> HIDE DEF new
    <3>3. shown' \in [Steps -> [searching : BOOLEAN, result : Data \union {None}]] /\ shown'[q] = Status(q)'
          /\ \A t \in Steps \ {q} : shown'[t] = shown[t]
      BY <1>1, <3>1, <3>2 DEF TypeOK
    <3>4. TypeOK'
      BY <1>1, <2>4, <3>3 DEF TypeOK
    <3>5. LinksAgree'
      BY <1>1 DEF LinksAgree
    <3>6. \A t \in Steps : RestartDue(t)' <=> RestartDue(t)
      BY <1>1 DEF RestartDue
    <3>7. Searched(q)'
      <4>1. Whole(q)' /\ UpToDate(q)'
        BY <1>1, <2>2, <3>6 DEF Searched, Whole, UpToDate, Idle
      <4> QED  BY <1>1, <2>3, <2>4, <3>3, <4>1 DEF Searched, Waiting, ReadingAlone, Told
    <3>8. ASSUME NEW t \in Steps \ {q}
          PROVE  Searched(t)'
      <4>1. Untouched(t)
        BY <1>1, <2>4, <3>3, Waits DEF Untouched
      <4> QED  BY <1>1, <3>6, <4>1, Spared DEF StillDue
    <3> QED  BY <3>4, <3>5, <3>7, <3>8 DEF IInv
  <2>5. \A t \in Steps \ {q} : \A j \in active[t] : j \in Strats /\ j # i /\ j \notin active[q] /\ strat[j].at # "free"
    BY <2>2, Waits
  <2>6. CASE strat[i].success
    <3>1. /\ strat' = [Dropped(active[q]) EXCEPT ![i] = Free]
          /\ active' = [active EXCEPT ![q] = {}]
          /\ winner' = [winner EXCEPT ![q] = data[q]]
          /\ UNCHANGED priority /\ Notify(q)
      BY <1>4, <2>1, <2>2, <2>6 DEF Report
    <3>2. Dropped(active[q]) \in [Strats -> Strategies]
      BY <1>1, <1>2 DEF Dropped, TypeOK
    <3>3. strat' \in [Strats -> Strategies]
      BY <1>2, <3>1, <3>2
    <3>4. ASSUME NEW t \in Steps \ {q}, NEW j \in active[t]
          PROVE  strat'[j] = strat[j]
      <4>1. j \in Strats /\ j # i /\ j \notin active[q]
        BY <2>5
      <4> QED  BY <3>1, <3>2, <4>1 DEF Dropped
    <3> QED  BY <1>1, <2>4, <3>1, <3>3, <3>4 DEF TypeOK
  <2>7. CASE ~strat[i].success
    <3>1. /\ priority' = [priority EXCEPT ![q] = NextPriority(q)]
          /\ Launch(q, data[q], priority'[q], over)
          /\ UNCHANGED winner /\ Notify(q)
      BY <1>4, <2>1, <2>7 DEF Report
    <3>2. priority' \in [Steps -> Nat] /\ data[q] \in Data
      BY <1>1, <3>1 DEF NextPriority, TypeOK
    <3>3. /\ strat' \in [Strats -> Strategies] /\ active' \in [Steps -> SUBSET Strats]
          /\ \A j \in active'[q] : strat'[j].step = q /\ strat'[j].data = data[q] /\ strat'[j].at # "free"
          /\ \A t \in Steps \ {q} : active'[t] = active[t]
          /\ \A j \in Strats : over[j].at # "free" => strat'[j] = over[j]
      <4> HIDE DEF over
      <4> QED  BY <1>1, <1>2, <3>1, <3>2, Launched
    <3>4. \A t \in Steps \ {q} : \A j \in active[t] : strat'[j] = strat[j]
      BY <1>2, <2>5, <3>3
    <3> QED  BY <1>1, <2>3, <2>4, <3>1, <3>2, <3>3, <3>4 DEF TypeOK
  <2> QED  BY <2>6, <2>7
<1>5. Waited(i) => s \in Steps
  <2>1. strat[i] \in Strategies
    BY <1>1 DEF TypeOK
  <2> QED  BY <1>1, <2>1 DEF Strategies, Objects
<1> QED  BY <1>3, <1>4, <1>5
-----------------------------------------------------------------------------
LEMMA Settled ==
    ASSUME sentence \in [Steps -> Sentences], children \in [Steps -> Seq(Steps)], antidists \in Antidists,
           NEW s \in Steps
    PROVE  SettledData(s) \in Data
<1> DEFINE kids  == children[s]
           bad   == {k \in DOMAIN kids : sentence[kids[k]] \notin Parsing}
           upto  == IF bad = {} THEN Len(kids) ELSE CHOOSE k \in bad : \A l \in bad : k <= l
           terms == [k \in 1..upto |-> sentence[kids[k]]]
<1>1. kids \in Seq(Steps) /\ Len(kids) \in Nat /\ DOMAIN kids = 1..Len(kids)
  OBVIOUS
<1>2. bad \in SUBSET Nat /\ \A k \in bad : k \in 1..Len(kids)
  BY <1>1
<1>3. upto \in Nat /\ upto <= Len(kids)
  <2>1. CASE bad = {}
    BY <1>1, <2>1
  <2>2. CASE bad # {}
    <3> HIDE DEF bad
    <3>1. upto \in bad
      BY <1>2, <2>2, Least
    <3>2. upto \in 1..Len(kids)
      BY <1>2, <3>1
    <3> HIDE DEF kids, upto
    <3> QED  BY <1>1, <3>2
  <2> QED  BY <2>1, <2>2
<1>4. \A k \in 1..Len(kids) : sentence[kids[k]] \in Sentences
  BY <1>1
<1> HIDE DEF kids
<1>5. terms \in Seq(Sentences)
  <2> HIDE DEF upto
  <2>1. \A k \in 1..upto : sentence[kids[k]] \in Sentences
    BY <1>1, <1>3, <1>4
  <2> QED  BY <1>3, <2>1, SeqDef
<1>6. SettledData(s) = IF s = Root \/ sentence[s] \notin Parsing THEN NoData(sentence[s])
                       ELSE [thesis |-> sentence[s], hyps |-> terms, trees |-> terms,
                             antidists |-> IF bad = {} THEN antidists ELSE None]
  BY DEF SettledData, kids
<1> HIDE DEF terms, bad
<1> QED  BY <1>5, <1>6 DEF Data, NoData

LEMMA InitSearches == Init => IInv
<1> SUFFICES ASSUME Init
             PROVE  IInv
  OBVIOUS
<1>1. ASSUME NEW s \in Steps
      PROVE  /\ children[s] \in Seq(Steps) /\ IsInjective(children[s])
             /\ ToSet(children[s]) = {c \in Steps : parent[c] = s}
  <2> DEFINE S == {c \in Steps : parent[c] = s}
  <2>1. children[s] \in SetToSeqs(S)
    BY DEF Init, InitialChildren
  <2>2. IsFiniteSet(S)
    BY FS_Subset, StepsAssumption
  <2>3. children[s] \in [1..Cardinality(S) -> S] /\ IsInjective(children[s])
    <3> HIDE DEF S
    <3> QED  BY <2>1 DEF SetToSeqs, IsInjective
  <2>4. children[s] \in Seq(S) /\ ToSet(children[s]) = S
    <3> HIDE DEF S
    <3> QED  BY <2>2, <2>3, Enumerated
  <2> QED  BY <2>3, <2>4
<1>2. children \in [Steps -> Seq(Steps)]
  <2>1. children = [s \in Steps |-> children[s]]
    BY DEF Init
  <2> QED  BY <1>1, <2>1
<1>3. sentence \in [Steps -> Sentences] /\ parent \in [Steps -> Steps \union {None}] /\ antidists \in Antidists
  BY TreesAssumption DEF Init
<1>4. data \in [Steps -> Data]
  BY <1>2, <1>3, Settled DEF Init
<1>5. Free \in Strategies
  BY DEF Free, Strategies, Objects, Places
<1>6. TypeOK
  <2>1. priority \in [Steps -> Nat]
    BY BoundsAssumption DEF Init
  <2>2. winner \in [Steps -> Data \union {None}] /\ active \in [Steps -> SUBSET Strats]
        /\ \A s \in Steps : active[s] = {} /\ winner[s] = None
    BY DEF Init
  <2>3. shown \in [Steps -> [searching : BOOLEAN, result : Data \union {None}]]
    BY <2>2 DEF Init, Status
  <2>4. frames \in Seq(Frames) /\ reading = {} /\ telling = {} /\ strat \in [Strats -> Strategies]
        /\ lock \in [Steps -> Steps \union {None, Reloader}] /\ pending \in [Steps -> Nat]
    BY <1>5 DEF Init
  <2> QED  BY <1>2, <1>3, <1>4, <2>1, <2>2, <2>3, <2>4 DEF TypeOK
<1>7. LinksAgree
  BY <1>1 DEF LinksAgree
<1>8. ASSUME NEW s \in Steps
      PROVE  Searched(s)
  <2>1. reading = {} /\ telling = {} /\ active[s] = {} /\ winner[s] = None /\ shown[s] = Status(s)
    BY DEF Init
  <2> QED  BY <2>1 DEF Searched, Waiting, ReadingAlone, UpToDate, Whole, Told, Idle
<1> QED  BY <1>6, <1>7, <1>8 DEF IInv

LEMMA NextSearches == IInv /\ [Next]_vars => IInv'
<1> SUFFICES ASSUME IInv, [Next]_vars
             PROVE  IInv'
  OBVIOUS
<1>1. ASSUME NEW s \in Steps, SetSentence(s)
      PROVE  IInv'
  BY <1>1, SetSentenceKeeps
<1>2. ASSUME NEW s \in Steps, Orphan(s)
      PROVE  IInv'
  BY <1>2, OrphanKeeps
<1>3. ASSUME NEW s \in Steps, NEW q \in Steps, Reparent(s, q)
      PROVE  IInv'
  BY <1>3, ReparentKeeps
<1>4. CASE SetAntidists
  BY <1>4, SetAntidistsKeeps
<1>5. ASSUME NEW s \in Steps, Searching(s)
      PROVE  IInv'
  BY <1>5, CoroutineKeeps, ReadSentenceKeeps, ReadTreeKeeps, LaunchFirstKeeps DEF Searching
<1>6. CASE Reloading
  BY <1>6, ReloadEnterKeeps, ReloadNextKeeps DEF Reloading
<1>7. ASSUME NEW i \in Strats, Wake(i) \/ Take(i) \/ Finish(i) \/ Yield(i) \/ Report(i)
      PROVE  IInv'
  <2>1. {"sleeping", "queued", "running"} \subseteq Places \ {"free"}
    BY DEF Places
  <2>2. CASE Wake(i)
    BY <2>1, <2>2, MoveKeeps DEF Wake
  <2>3. CASE Take(i)
    BY <2>1, <2>3, MoveKeeps DEF Take
  <2> QED  BY <1>7, <2>2, <2>3, FinishKeeps, YieldKeeps, ReportKeeps
<1>8. CASE UNCHANGED vars
  <2>1. TypeOK'
    BY <1>8 DEF vars, tree, search, IInv, TypeOK
  <2> QED  BY <1>8, <2>1, Quiet, Waits DEF vars, tree, search
<1> QED  BY <1>1, <1>2, <1>3, <1>4, <1>5, <1>6, <1>7, <1>8 DEF Next, Client

-----------------------------------------------------------------------------
(* A strategy that outlives a restart of its step changes nothing: what a  *)
(* step waits for, and the proof it shows, are about the data of its last  *)
(* restart (report_result, step.cpp:158-169).                              *)
THEOREM LateStrategiesIgnored == Spec => []CurrentDataOnly
<1>1. IInv => CurrentDataOnly
  BY DEF IInv, CurrentDataOnly, Searched, Waiting
<1> QED  BY <1>1, InitSearches, NextSearches, PTL DEF Spec

(* Clients are told of every change of a search by the time the mutex of   *)
(* the step is released (the calls of maybe_notify_update).                *)
THEOREM SearchAnnounced == Spec => []StatusAnnounced
<1>1. IInv => StatusAnnounced
  BY StepsAssumption DEF IInv, StatusAnnounced, Searched, ReadingAlone
<1> QED  BY <1>1, InitSearches, NextSearches, PTL DEF Spec

(* Nobody at work on a step, and no restart of it due: what it searches,   *)
(* or has found, is about the sentences of the tree, which all parse       *)
(* (step.cpp:97-115).                                                      *)
THEOREM SearchFitsTree == Spec => []SnapshotFits
<1>1. IInv => SnapshotFits
  <2> SUFFICES ASSUME IInv, NEW s \in Steps, lock[s] = None, ~RestartDue(s), active[s] # {} \/ winner[s] # None
               PROVE  /\ data[s].thesis = sentence[s] /\ sentence[s] \in Parsing
                      /\ data[s].hyps = Sentential(s) /\ data[s].trees = Sentential(s)
                      /\ \A c \in Steps : parent[c] = s => sentence[c] \in Parsing
    BY DEF SnapshotFits
  <2>1. /\ TypeOK /\ LinksAgree /\ Searched(s) /\ ~Idle(s)
        /\ data[s].hyps \in Seq(Sentences) /\ data[s].trees \in Seq(Sentences)
        /\ children[s] \in Seq(Steps)
    BY DEF IInv, Idle, TypeOK, Data
  <2>2. /\ data[s].thesis = sentence[s] /\ sentence[s] \in Parsing
        /\ \A k \in 1..Len(data[s].hyps) : data[s].hyps[k] = sentence[children[s][k]]
        /\ \A k \in 1..Len(data[s].trees) : /\ data[s].trees[k] = sentence[children[s][k]]
                                            /\ sentence[children[s][k]] \in Parsing
        /\ Len(data[s].hyps) = Len(children[s]) /\ Len(data[s].trees) = Len(children[s])
    BY <2>1 DEF Searched, UpToDate, Whole
  <2>3. Sentential(s) \in Seq(Sentences) /\ Len(Sentential(s)) = Len(children[s])
        /\ \A k \in 1..Len(children[s]) : Sentential(s)[k] = sentence[children[s][k]]
    <3>1. DOMAIN children[s] = 1..Len(children[s]) /\ Len(children[s]) \in Nat
      BY <2>1
    <3>2. \A k \in 1..Len(children[s]) : sentence[children[s][k]] \in Sentences
      BY <2>1, Children DEF TypeOK
    <3>3. Sentential(s) = [k \in 1..Len(children[s]) |-> sentence[children[s][k]]]
      BY <3>1 DEF Sentential
    <3>4. Sentential(s) \in Seq(Sentences)
      BY <3>1, <3>2, <3>3, SeqDef
    <3> QED  BY <3>1, <3>3, <3>4
  <2>4. data[s].hyps = Sentential(s) /\ data[s].trees = Sentential(s)
    BY <2>1, <2>2, <2>3, SeqEqual
  <2>5. ASSUME NEW c \in Steps, parent[c] = s
        PROVE  sentence[c] \in Parsing
    <3>1. c \in ToSet(children[s])
      BY <2>1, <2>5 DEF LinksAgree
    <3> QED  BY <2>1, <2>2, <3>1 DEF ToSet
  <2> QED  BY <2>2, <2>4, <2>5
<1> QED  BY <1>1, InitSearches, NextSearches, PTL DEF Spec

=============================================================================
