-------------------- MODULE CoroutineThreadManagerProofs --------------------
(***************************************************************************)
(* For any number of workers, coroutines, delays and any quantum: the type *)
(* invariant, the exclusivity of every place a coroutine can be in and the *)
(* exactness of running_coros, from one inductive invariant; and from that *)
(* the order of the timers, that no worker parks beside unclaimed work,    *)
(* and the refinement of CoroutinePool.                                    *)
(***************************************************************************)
EXTENDS CoroutineThreadManager, FiniteSetTheorems, SequenceTheorems, TLAPS

TurnLabels == {"lock", "exec", "finish"}

(* A worker holds runtime data exactly during a turn. *)
TurnsHold == \A w \in Workers :
                IF wpc[w] \in TurnLabels THEN tmp[w] \in Entry ELSE tmp[w] = Idle

(* What timed_fn is listing is still in the heap. *)
TopSleeps == tpc \in {"enqueue", "pop"} => top \in timed

(* Whatever is in some place was added, so it is not added again. *)
Accounted == /\ \A c \in Coros : Pending(c) => c \in added
             /\ \A e \in timed : e.coro \in added
             /\ \A w \in InTurn : HeldBy(w) \in added

IInv == TypeOK /\ TurnsHold /\ TopSleeps /\ Accounted /\ OnePlace /\ RunningCorosExact

-----------------------------------------------------------------------------
(* Lists of runtime data *)

(* Appending adds one name, and keeps the names distinct if it is new. *)
LEMMA AppendNames ==
    ASSUME NEW s \in Seq(Entry), NEW e \in Entry
    PROVE  /\ Append(s, e) \in Seq(Entry)
           /\ Names(Append(s, e)) = Names(s) \union {e.coro}
           /\ Distinct(s) /\ e.coro \notin Names(s) => Distinct(Append(s, e))
<1>1. /\ Append(s, e) \in Seq(Entry)
      /\ Len(Append(s, e)) = Len(s) + 1
      /\ Append(s, e)[Len(s) + 1] = e
      /\ \A i \in 1..Len(s) : Append(s, e)[i] = s[i]
      /\ Len(s) \in Nat
  OBVIOUS
<1>2. Names(Append(s, e)) = Names(s) \union {e.coro}
  <2>1. 1..Len(Append(s, e)) = 1..Len(s) \union {Len(s) + 1}
    BY <1>1
  <2>2. QED BY <1>1, <2>1 DEF Names
<1>3. ASSUME Distinct(s), e.coro \notin Names(s)
      PROVE  Distinct(Append(s, e))
  <2>1. SUFFICES ASSUME NEW i \in 1..Len(Append(s, e)), NEW j \in 1..Len(Append(s, e)),
                        Append(s, e)[i].coro = Append(s, e)[j].coro
                 PROVE  i = j
    BY DEF Distinct
  <2>2. CASE i \in 1..Len(s) /\ j \in 1..Len(s)
    BY <1>1, <1>3, <2>1, <2>2 DEF Distinct
  <2>3. CASE i = Len(s) + 1 /\ j \in 1..Len(s)
    BY <1>1, <1>3, <2>1, <2>3 DEF Names
  <2>4. CASE j = Len(s) + 1 /\ i \in 1..Len(s)
    BY <1>1, <1>3, <2>1, <2>4 DEF Names
  <2>5. QED BY <1>1, <2>2, <2>3, <2>4
<1>4. QED BY <1>1, <1>2, <1>3

(* Popping the front removes one name from a list without duplicates. *)
LEMMA TailNames ==
    ASSUME NEW s \in Seq(Entry), s # <<>>, Distinct(s)
    PROVE  /\ Head(s) \in Entry
           /\ Tail(s) \in Seq(Entry)
           /\ Names(Tail(s)) = Names(s) \ {Head(s).coro}
           /\ Head(s).coro \in Names(s)
           /\ Distinct(Tail(s))
<1>1. /\ Head(s) \in Entry /\ Tail(s) \in Seq(Entry)
      /\ Len(s) \in Nat /\ Len(s) >= 1
      /\ Len(Tail(s)) = Len(s) - 1
      /\ Head(s) = s[1]
      /\ \A i \in 1..Len(Tail(s)) : Tail(s)[i] = s[i + 1]
  OBVIOUS
<1>2. Distinct(Tail(s))
  BY <1>1 DEF Distinct
<1>3. ASSUME NEW n \in Names(Tail(s))
      PROVE  n \in Names(s) \ {Head(s).coro}
  <2>1. PICK i \in 1..Len(Tail(s)) : n = Tail(s)[i].coro
    BY DEF Names
  <2>2. i + 1 \in 1..Len(s) /\ n = s[i + 1].coro /\ i + 1 # 1
    BY <1>1, <2>1
  <2>3. QED BY <1>1, <2>2 DEF Names, Distinct
<1>4. ASSUME NEW n \in Names(s) \ {Head(s).coro}
      PROVE  n \in Names(Tail(s))
  <2>1. PICK i \in 1..Len(s) : n = s[i].coro
    BY DEF Names
  <2>2. i # 1
    BY <1>1, <2>1
  <2>3. i - 1 \in 1..Len(Tail(s)) /\ Tail(s)[i - 1] = s[i]
    BY <1>1, <2>1, <2>2
  <2>4. QED BY <2>1, <2>3 DEF Names
<1>5. Head(s).coro \in Names(s)
  BY <1>1 DEF Names
<1>6. QED BY <1>1, <1>2, <1>3, <1>4, <1>5

(* notify_one wakes at most one parked worker and moves nobody else. *)
LEMMA NotifyOneEffect ==
    ASSUME NEW p \in [Workers -> WorkerLabels], NEW q \in NotifyOne(p)
    PROVE  /\ q \in [Workers -> WorkerLabels]
           /\ \A w \in Workers : q[w] = p[w] \/ (p[w] = "waiting" /\ q[w] = "woken")
BY DEF NotifyOne, WorkerLabels

-----------------------------------------------------------------------------
(* Kinds of steps.  Most steps move no coroutine between places.           *)

(* The part of the state the bookkeeping of places looks at stays. *)
PlacesKept ==
    /\ ready' = ready /\ timed' = timed
    /\ tmp' \in [Workers -> Entry \union {Idle}]
    /\ \A w \in Workers : \/ tmp'[w] = tmp[w]
                          \/ /\ wpc[w] \in TurnLabels /\ tmp'[w] \in Entry
                             /\ tmp'[w].coro = tmp[w].coro
    /\ runningCoros' = runningCoros /\ added' = added
    /\ wpc' \in [Workers -> WorkerLabels]
    /\ \A w \in Workers : \/ wpc'[w] = wpc[w]
                          \/ {wpc[w], wpc'[w]} \subseteq TurnLabels
                          \/ {wpc[w], wpc'[w]} \intersect TurnLabels = {}

(* The step of the timed thread keeps what is known of its top. *)
TopKept == /\ tpc' \in TimedLabels /\ top' \in Deadline \union {NoTop}
           /\ \/ tpc' = tpc /\ top' = top
              \/ tpc # "pop" /\ tpc' \notin {"enqueue", "pop"}
              \/ tpc # "pop" /\ tpc' = "enqueue" /\ top' \in timed

LEMMA InTurnKept ==
    ASSUME TypeOK, PlacesKept
    PROVE  InTurn' = InTurn
BY DEF TypeOK, PlacesKept, InTurn, TurnLabels

LEMMA KeepPlaces ==
    ASSUME IInv, PlacesKept, TopKept
    PROVE  /\ (TurnsHold /\ TopSleeps /\ Accounted /\ OnePlace /\ RunningCorosExact)'
           /\ ready' \in Seq(Entry) /\ runningCoros' \in Nat /\ timed' \subseteq Deadline
           /\ tmp' \in [Workers -> Entry \union {Idle}] /\ added' \subseteq Coros
           /\ wpc' \in [Workers -> WorkerLabels] /\ tpc' \in TimedLabels
           /\ top' \in Deadline \union {NoTop}
<1>1. InTurn' = InTurn
  BY InTurnKept DEF IInv
<1>2. (\A c : Pending(c)' <=> Pending(c)) /\ Distinct(ready)' = Distinct(ready)
  BY DEF PlacesKept, Pending, Names, Distinct
<1>3. \A w \in Workers : HeldBy(w)' = HeldBy(w)
  BY DEF PlacesKept, HeldBy
<1>4. TurnsHold'
  BY DEF IInv, TurnsHold, PlacesKept, TurnLabels
<1>5. TopSleeps'
  BY DEF IInv, TopSleeps, PlacesKept, TopKept
<1>6. InTurn \subseteq Workers
  BY DEF InTurn
<1>7. Accounted'
  BY <1>1, <1>2, <1>3, <1>6 DEF IInv, Accounted, PlacesKept
<1>8. OnePlace'
  <2>1. /\ Distinct(ready)'
        /\ (\A v, w \in InTurn : HeldBy(v) = HeldBy(w) => v = w)'
        /\ (\A w \in InTurn : ~Pending(HeldBy(w)))'
        /\ (\A e, f \in timed : e.coro = f.coro => e = f)'
    BY <1>1, <1>2, <1>3, <1>6 DEF IInv, OnePlace, PlacesKept
  <2>2. ASSUME NEW e \in timed
        PROVE  \/ (tpc = "pop" /\ e = top)'
               \/ ~(Pending(e.coro)' \/ \E w \in InTurn' : HeldBy(w)' = e.coro)
    <3>1. \/ tpc = "pop" /\ e = top
          \/ ~(Pending(e.coro) \/ \E w \in InTurn : HeldBy(w) = e.coro)
      BY DEF IInv, OnePlace
    <3>2. tpc = "pop" => tpc' = tpc /\ top' = top
      BY DEF TopKept
    <3>3. QED BY <1>1, <1>2, <1>3, <1>6, <3>1, <3>2
  <2>3. QED BY <2>1, <2>2 DEF OnePlace, PlacesKept
<1>9. RunningCorosExact'
  BY <1>1 DEF IInv, RunningCorosExact, PlacesKept
<1>10. QED
  BY <1>4, <1>5, <1>7, <1>8, <1>9 DEF IInv, TypeOK, PlacesKept, TopKept

-----------------------------------------------------------------------------
(* One lemma per step that moves a coroutine from a place to another.      *)

LEMMA AddCoroutineKeeps ==
    ASSUME IInv, NEW c \in Coros, AddCoroutine(c)
    PROVE  IInv'
<1> DEFINE e == Fresh(c)
<1>1. e \in Entry /\ e.coro = c
  BY DEF Fresh, Entry
<1>2. ~Pending(c) /\ (\A f \in timed : f.coro # c) /\ \A w \in InTurn : HeldBy(w) # c
  BY DEF AddCoroutine, IInv, Accounted
<1>3. /\ ready' = Append(ready, e) /\ wpc' \in NotifyOne(wpc)
      /\ added' = added \union {c}
      /\ UNCHANGED <<running, runningCoros, timed, now, tmp, reenq, hold, tpc, top,
                     spc, owned, ended>>
  BY DEF AddCoroutine, Enqueue, timedVars
<1>4. /\ wpc' \in [Workers -> WorkerLabels]
      /\ \A w \in Workers : wpc'[w] = wpc[w] \/ (wpc[w] = "waiting" /\ wpc'[w] = "woken")
  BY <1>3, NotifyOneEffect DEF IInv, TypeOK
<1>5. /\ ready' \in Seq(Entry) /\ Names(ready') = Names(ready) \union {c}
      /\ Distinct(ready')
  BY <1>1, <1>2, <1>3, AppendNames DEF IInv, TypeOK, OnePlace, Pending
<1>6. InTurn' = InTurn /\ InTurn \subseteq Workers
  BY <1>4 DEF InTurn
<1>7. \A w \in Workers : HeldBy(w)' = HeldBy(w)
  BY <1>3 DEF HeldBy
<1>8. \A d : Pending(d)' <=> (Pending(d) \/ d = c)
  BY <1>5 DEF Pending
<1>9. TypeOK'
  BY <1>3, <1>4, <1>5 DEF IInv, TypeOK
<1>10. TurnsHold' /\ TopSleeps'
  BY <1>3, <1>4 DEF IInv, TurnsHold, TurnLabels, TopSleeps
<1>11. Accounted'
  BY <1>3, <1>6, <1>7, <1>8 DEF IInv, Accounted
<1>12. OnePlace'
  BY <1>2, <1>3, <1>5, <1>6, <1>7, <1>8 DEF IInv, OnePlace
<1>13. RunningCorosExact'
  BY <1>3, <1>6 DEF IInv, RunningCorosExact
<1>14. QED BY <1>9, <1>10, <1>11, <1>12, <1>13 DEF IInv

LEMMA TimedEnqueueKeeps ==
    ASSUME IInv, TimedEnqueue
    PROVE  IInv'
<1> DEFINE c == top.coro
           e == Fresh(c)
<1>1. top \in timed /\ top \in Deadline /\ c \in Coros /\ e \in Entry /\ e.coro = c /\ tpc = "enqueue"
  BY DEF TimedEnqueue, IInv, TopSleeps, TypeOK, Fresh, Entry, Deadline
<1>2. ~Pending(c) /\ \A w \in InTurn : HeldBy(w) # c
  BY <1>1 DEF IInv, OnePlace
<1>3. /\ ready' = Append(ready, e) /\ wpc' \in NotifyOne(wpc) /\ tpc' = "pop"
      /\ UNCHANGED <<running, runningCoros, timed, now, tmp, reenq, hold, top,
                     spc, added, owned, ended>>
  BY DEF TimedEnqueue, Enqueue, TimedUnchanged
<1>4. /\ wpc' \in [Workers -> WorkerLabels]
      /\ \A w \in Workers : wpc'[w] = wpc[w] \/ (wpc[w] = "waiting" /\ wpc'[w] = "woken")
  BY <1>3, NotifyOneEffect DEF IInv, TypeOK
<1>5. /\ ready' \in Seq(Entry) /\ Names(ready') = Names(ready) \union {c}
      /\ Distinct(ready')
  BY <1>1, <1>2, <1>3, AppendNames DEF IInv, TypeOK, OnePlace, Pending
<1>6. InTurn' = InTurn /\ InTurn \subseteq Workers
  BY <1>4 DEF InTurn
<1>7. \A w \in Workers : HeldBy(w)' = HeldBy(w)
  BY <1>3 DEF HeldBy
<1>8. \A d : Pending(d)' <=> (Pending(d) \/ d = c)
  BY <1>5 DEF Pending
<1>9. TypeOK'
  BY <1>3, <1>4, <1>5 DEF IInv, TypeOK, TimedLabels
<1>10. TurnsHold' /\ TopSleeps'
  BY <1>1, <1>3, <1>4 DEF IInv, TurnsHold, TurnLabels, TopSleeps
<1>11. Accounted'
  BY <1>1, <1>3, <1>6, <1>7, <1>8 DEF IInv, Accounted
<1>12. OnePlace'
  <2>1. ASSUME NEW f \in timed
        PROVE  f = top \/ ~(Pending(f.coro)' \/ \E w \in InTurn' : HeldBy(w)' = f.coro)
    BY <1>1, <1>6, <1>7, <1>8, <2>1 DEF IInv, OnePlace
  <2>2. QED BY <1>2, <1>3, <1>5, <1>6, <1>7, <1>8, <2>1 DEF IInv, OnePlace
<1>13. RunningCorosExact'
  BY <1>3, <1>6 DEF IInv, RunningCorosExact
<1>14. QED BY <1>9, <1>10, <1>11, <1>12, <1>13 DEF IInv

(* The invariant makes the pop complete the move that the enqueue began.   *)
LEMMA TimedPopKeeps ==
    ASSUME IInv, TimedPop
    PROVE  IInv'
<1>1. /\ tpc = "pop" /\ tpc' = "loop" /\ timed' = timed \ {top} /\ top' = NoTop
      /\ UNCHANGED <<ready, wpc, running, runningCoros, now, tmp, reenq, hold,
                     spc, added, owned, ended>>
  BY DEF TimedPop, TimedUnchanged
<1>2. InTurn' = InTurn /\ \A w \in Workers : HeldBy(w)' = HeldBy(w)
  BY <1>1 DEF InTurn, HeldBy
<1>3. \A d : Pending(d)' <=> Pending(d)
  BY <1>1 DEF Pending, Names
<1>4. InTurn \subseteq Workers
  BY DEF InTurn
<1>5. OnePlace'
  <2>1. \A f \in timed' : ~(Pending(f.coro)' \/ \E w \in InTurn' : HeldBy(w)' = f.coro)
    BY <1>1, <1>2, <1>3, <1>4 DEF IInv, OnePlace
  <2>2. Distinct(ready)'
    BY <1>1 DEF IInv, OnePlace, Distinct
  <2>3. QED BY <1>1, <1>2, <1>3, <1>4, <2>1, <2>2 DEF IInv, OnePlace
<1>6. TypeOK'
  BY <1>1 DEF IInv, TypeOK, TimedLabels
<1>7. TurnsHold' /\ TopSleeps'
  BY <1>1 DEF IInv, TurnsHold, TopSleeps
<1>8. Accounted'
  BY <1>1, <1>2, <1>3, <1>4 DEF IInv, Accounted
<1>9. RunningCorosExact'
  BY <1>1, <1>2 DEF IInv, RunningCorosExact
<1>10. QED BY <1>5, <1>6, <1>7, <1>8, <1>9 DEF IInv

LEMMA AddTimedCoroutineKeeps ==
    ASSUME IInv, NEW c \in Coros, NEW d \in Delays, AddTimedCoroutine(c, d)
    PROVE  IInv'
<1> DEFINE e == [coro |-> c, due |-> now + d]
<1>1. e \in Deadline
  BY TimeAssumption DEF IInv, TypeOK, Deadline
<1>2. ~Pending(c) /\ (\A f \in timed : f.coro # c) /\ \A w \in InTurn : HeldBy(w) # c
  BY DEF AddTimedCoroutine, IInv, Accounted
<1>3. /\ timed' = timed \union {e} /\ tpc' = NotifyTimed(tpc) /\ ~TimedHeld
      /\ added' = added \union {c}
      /\ UNCHANGED <<running, ready, runningCoros, now, wpc, tmp, reenq, hold, top,
                     spc, owned, ended>>
  BY DEF AddTimedCoroutine, workerVars
<1>4. tpc \notin {"enqueue", "pop"} /\ tpc' \notin {"enqueue", "pop"} /\ tpc' \in TimedLabels
  BY <1>3 DEF TimedHeld, NotifyTimed, TimedLabels, IInv, TypeOK
<1>5. InTurn' = InTurn /\ \A w \in Workers : HeldBy(w)' = HeldBy(w)
  BY <1>3 DEF InTurn, HeldBy
<1>6. \A x : Pending(x)' <=> Pending(x)
  BY <1>3 DEF Pending, Names
<1>7. InTurn \subseteq Workers
  BY DEF InTurn
<1>8. OnePlace'
  <2>1. \A f \in timed' : ~(Pending(f.coro)' \/ \E w \in InTurn' : HeldBy(w)' = f.coro)
    BY <1>2, <1>3, <1>4, <1>5, <1>6, <1>7 DEF IInv, OnePlace
  <2>2. Distinct(ready)'
    BY <1>3 DEF IInv, OnePlace, Distinct
  <2>3. \A f, g \in timed' : f.coro = g.coro => f = g
    BY <1>2, <1>3 DEF IInv, OnePlace
  <2>4. QED BY <1>3, <1>5, <1>6, <1>7, <2>1, <2>2, <2>3 DEF IInv, OnePlace
<1>9. TypeOK'
  BY <1>1, <1>3, <1>4 DEF IInv, TypeOK
<1>10. TurnsHold' /\ TopSleeps'
  BY <1>3, <1>4 DEF IInv, TurnsHold, TopSleeps
<1>11. Accounted'
  BY <1>3, <1>5, <1>6, <1>7 DEF IInv, Accounted
<1>12. RunningCorosExact'
  BY <1>3, <1>5 DEF IInv, RunningCorosExact
<1>13. QED BY <1>8, <1>9, <1>10, <1>11, <1>12 DEF IInv

(* A worker takes the head of the list. *)
Taking(w) ==
    /\ running /\ ready # <<>> /\ wpc[w] \in {"dequeue", "awake"}
    /\ Take(w)
    /\ UNCHANGED <<running, timed, now, reenq, hold, timedVars, spc, added,
                   owned, ended>>

(* The head of the list moves to the worker that takes it.                 *)
LEMMA TakeKeeps ==
    ASSUME IInv, NEW w \in Workers, Taking(w)
    PROVE  IInv'
<1> DEFINE e == Head(ready)
           c == e.coro
<1>1. /\ tmp' = [tmp EXCEPT ![w] = e] /\ ready' = Tail(ready)
      /\ runningCoros' = runningCoros + 1 /\ wpc' = [wpc EXCEPT ![w] = "lock"]
      /\ UNCHANGED <<running, timed, now, reenq, hold, tpc, top, spc, added,
                     owned, ended>>
  BY DEF Taking, Take, Goto, timedVars
<1>2. /\ e \in Entry /\ ready' \in Seq(Entry) /\ Distinct(ready')
      /\ Names(ready') = Names(ready) \ {c} /\ Pending(c) /\ c \in Coros
  BY <1>1, TailNames DEF Taking, IInv, TypeOK, OnePlace, Pending, Entry
<1>3. \A d : Pending(d)' <=> (Pending(d) /\ d # c)
  BY <1>2 DEF Pending
<1>4. w \notin InTurn /\ InTurn' = InTurn \union {w} /\ InTurn \subseteq Workers
  BY <1>1 DEF Taking, InTurn, IInv, TypeOK
<1>5. /\ HeldBy(w)' = c
      /\ \A v \in InTurn : HeldBy(v)' = HeldBy(v) /\ HeldBy(v) # c
  BY <1>1, <1>2, <1>4 DEF HeldBy, IInv, TypeOK, OnePlace
<1>6. TypeOK'
  BY <1>1, <1>2 DEF IInv, TypeOK, WorkerLabels
<1>7. TurnsHold' /\ TopSleeps'
  BY <1>1, <1>2 DEF IInv, TypeOK, TurnsHold, TurnLabels, TopSleeps
<1>8. Accounted'
  BY <1>1, <1>2, <1>3, <1>4, <1>5 DEF IInv, Accounted
<1>9. OnePlace'
  <2>1. (\A u, v \in InTurn : HeldBy(u) = HeldBy(v) => u = v)'
    BY <1>4, <1>5 DEF IInv, OnePlace
  <2>2. (\A v \in InTurn : ~Pending(HeldBy(v)))'
    BY <1>3, <1>4, <1>5 DEF IInv, OnePlace
  <2>3. ASSUME NEW f \in timed
        PROVE  \/ (tpc = "pop" /\ f = top)'
               \/ ~(Pending(f.coro)' \/ \E v \in InTurn' : HeldBy(v)' = f.coro)
    BY <1>1, <1>2, <1>3, <1>4, <1>5, <2>3 DEF IInv, OnePlace
  <2>4. QED BY <1>1, <1>2, <2>1, <2>2, <2>3 DEF IInv, OnePlace
<1>10. RunningCorosExact'
  <2>1. IsFiniteSet(InTurn)
    BY <1>4, WorkersAssumption, FS_Subset
  <2>2. Cardinality(InTurn \union {w}) = Cardinality(InTurn) + 1
    BY <1>4, <2>1, FS_AddElement
  <2>3. QED BY <1>1, <1>4, <2>2 DEF IInv, RunningCorosExact
<1>11. QED BY <1>6, <1>7, <1>8, <1>9, <1>10 DEF IInv

(* A worker in its turn is counted, so the counter can be decremented. *)
LEMMA LeaveTurn ==
    ASSUME IInv, NEW w \in InTurn
    PROVE  runningCoros - 1 \in Nat /\ Cardinality(InTurn \ {w}) = runningCoros - 1
<1>1. IsFiniteSet(InTurn)
  BY WorkersAssumption, FS_Subset DEF InTurn
<1>2. Cardinality(InTurn \ {w}) = Cardinality(InTurn) - 1 /\ IsFiniteSet(InTurn \ {w})
  BY <1>1, FS_RemoveElement
<1>3. Cardinality(InTurn \ {w}) \in Nat
  BY <1>2, FS_CardinalityType
<1>4. QED BY <1>2, <1>3 DEF IInv, RunningCorosExact

(* What a worker that yields or discards its coroutine does to the turns. *)
LEMMA TurnEnds ==
    ASSUME IInv, NEW w \in InTurn,
           tmp' = [tmp EXCEPT ![w] = Idle],
           wpc' \in [Workers -> WorkerLabels], wpc'[w] = "release",
           \A v \in Workers \ {w} : wpc'[v] = wpc[v] \/ (wpc[v] = "waiting" /\ wpc'[v] = "woken")
    PROVE  /\ InTurn' = InTurn \ {w}
           /\ \A v \in InTurn' : HeldBy(v)' = HeldBy(v) /\ HeldBy(v) # HeldBy(w)
           /\ TurnsHold'
           /\ tmp' \in [Workers -> Entry \union {Idle}]
           /\ tmp[w] \in Entry /\ HeldBy(w) \in Coros
<1>1. InTurn' = InTurn \ {w}
  BY DEF InTurn
<1>2. \A v \in InTurn' : HeldBy(v)' = HeldBy(v) /\ HeldBy(v) # HeldBy(w)
  BY <1>1 DEF InTurn, HeldBy, IInv, TypeOK, OnePlace
<1>3. TurnsHold'
  BY DEF TurnsHold, IInv, TypeOK, InTurn, TurnLabels
<1>4. tmp[w] \in Entry
  BY DEF IInv, TurnsHold, InTurn, TurnLabels
<1>5. QED BY <1>1, <1>2, <1>3, <1>4 DEF IInv, TypeOK, InTurn, HeldBy, Entry

LEMMA ReenqueueKeeps ==
    ASSUME IInv, NEW w \in Workers, Reenqueue(w)
    PROVE  IInv'
<1> DEFINE e == tmp[w]
           c == HeldBy(w)
           p == [wpc EXCEPT ![w] = "release"]
<1>1. /\ ready' = Append(ready, e) /\ runningCoros' = runningCoros - 1
      /\ tmp' = [tmp EXCEPT ![w] = Idle] /\ wpc' \in NotifyOne(p)
      /\ w \in InTurn
      /\ UNCHANGED <<running, timed, now, reenq, hold, tpc, top, spc, added, owned, ended>>
  BY DEF Reenqueue, TurnOver, InTurn, timedVars
<1>2. p \in [Workers -> WorkerLabels]
  BY DEF IInv, TypeOK, WorkerLabels
<1>3. /\ wpc' \in [Workers -> WorkerLabels]
      /\ \A v \in Workers : wpc'[v] = p[v] \/ (p[v] = "waiting" /\ wpc'[v] = "woken")
  BY <1>1, <1>2, NotifyOneEffect
<1>4. /\ wpc'[w] = "release"
      /\ \A v \in Workers \ {w} : wpc'[v] = wpc[v] \/ (wpc[v] = "waiting" /\ wpc'[v] = "woken")
  BY <1>3 DEF IInv, TypeOK
<1>5. /\ InTurn' = InTurn \ {w}
      /\ \A v \in InTurn' : HeldBy(v)' = HeldBy(v) /\ HeldBy(v) # c
      /\ TurnsHold'
      /\ tmp' \in [Workers -> Entry \union {Idle}]
      /\ e \in Entry /\ c \in Coros
  BY <1>1, <1>3, <1>4, TurnEnds
<1>6. ~Pending(c) /\ e.coro = c
  BY <1>1 DEF IInv, OnePlace, HeldBy
<1>7. /\ ready' \in Seq(Entry) /\ Distinct(ready') /\ Names(ready') = Names(ready) \union {c}
  BY <1>1, <1>5, <1>6, AppendNames DEF IInv, TypeOK, OnePlace, Pending
<1>8. \A d : Pending(d)' <=> (Pending(d) \/ d = c)
  BY <1>7 DEF Pending
<1>9. TypeOK'
  BY <1>1, <1>3, <1>5, <1>7, LeaveTurn DEF IInv, TypeOK
<1>10. TopSleeps'
  BY <1>1 DEF IInv, TopSleeps
<1>11. Accounted'
  BY <1>1, <1>5, <1>8 DEF IInv, Accounted
<1>12. OnePlace'
  <2>1. (\A u, v \in InTurn : HeldBy(u) = HeldBy(v) => u = v)'
    BY <1>5 DEF IInv, OnePlace
  <2>2. (\A v \in InTurn : ~Pending(HeldBy(v)))'
    BY <1>5, <1>8 DEF IInv, OnePlace
  <2>3. ASSUME NEW f \in timed
        PROVE  \/ (tpc = "pop" /\ f = top)'
               \/ ~(Pending(f.coro)' \/ \E v \in InTurn' : HeldBy(v)' = f.coro)
    BY <1>1, <1>5, <1>8, <2>3 DEF IInv, OnePlace
  <2>4. QED BY <1>1, <1>7, <2>1, <2>2, <2>3 DEF IInv, OnePlace
<1>13. RunningCorosExact'
  BY <1>1, <1>5, LeaveTurn DEF RunningCorosExact
<1>14. QED BY <1>5, <1>9, <1>10, <1>11, <1>12, <1>13 DEF IInv

LEMMA DiscardKeeps ==
    ASSUME IInv, NEW w \in Workers, Discard(w)
    PROVE  IInv'
<1>1. /\ runningCoros' = runningCoros - 1 /\ tmp' = [tmp EXCEPT ![w] = Idle]
      /\ wpc' = [wpc EXCEPT ![w] = "release"] /\ reenq' = [reenq EXCEPT ![w] = TRUE]
      /\ w \in InTurn
      /\ UNCHANGED <<running, ready, timed, now, hold, tpc, top, spc, added, owned, ended>>
  BY DEF Discard, TurnOver, Goto, InTurn, timedVars
<1>2. wpc' \in [Workers -> WorkerLabels] /\ wpc'[w] = "release"
      /\ \A v \in Workers \ {w} : wpc'[v] = wpc[v]
  BY <1>1 DEF IInv, TypeOK, WorkerLabels
<1>3. /\ InTurn' = InTurn \ {w}
      /\ \A v \in InTurn' : HeldBy(v)' = HeldBy(v) /\ HeldBy(v) # HeldBy(w)
      /\ TurnsHold'
      /\ tmp' \in [Workers -> Entry \union {Idle}]
  BY <1>1, <1>2, TurnEnds
<1>4. \A d : Pending(d)' <=> Pending(d)
  BY <1>1 DEF Pending, Names
<1>5. TypeOK'
  BY <1>1, <1>2, <1>3, LeaveTurn DEF IInv, TypeOK
<1>6. TopSleeps' /\ Accounted'
  BY <1>1, <1>3, <1>4 DEF IInv, TopSleeps, Accounted
<1>7. OnePlace'
  <2>1. Distinct(ready)'
    BY <1>1 DEF IInv, OnePlace, Distinct
  <2>2. ASSUME NEW f \in timed
        PROVE  \/ (tpc = "pop" /\ f = top)'
               \/ ~(Pending(f.coro)' \/ \E v \in InTurn' : HeldBy(v)' = f.coro)
    BY <1>1, <1>3, <1>4, <2>2 DEF IInv, OnePlace
  <2>3. QED BY <1>1, <1>3, <1>4, <2>1, <2>2 DEF IInv, OnePlace
<1>8. RunningCorosExact'
  BY <1>1, <1>3, LeaveTurn DEF RunningCorosExact
<1>9. QED BY <1>3, <1>5, <1>6, <1>7, <1>8 DEF IInv

-----------------------------------------------------------------------------
(* The remaining steps keep every coroutine where it is.                   *)

(* A coroutine changes its place. *)
Moving == \/ \E c \in Coros : AddCoroutine(c)
          \/ \E c \in Coros, d \in Delays : AddTimedCoroutine(c, d)
          \/ \E w \in Workers : Taking(w) \/ Reenqueue(w) \/ Discard(w)
          \/ TimedEnqueue \/ TimedPop

Standing == PlacesKept /\ TopKept

LEMMA TakeKinds ==
    ASSUME IInv, NEW w \in Workers, Take(w), wpc[w] \in {"dequeue", "awake"},
           running => ready # <<>>,
           UNCHANGED <<running, timed, now, reenq, hold, timedVars, spc, added,
                       owned, ended>>
    PROVE  Taking(w) \/ Standing
<1>1. CASE ~running
  BY <1>1 DEF Take, Goto, Standing, PlacesKept, TopKept, timedVars, IInv, TypeOK,
              WorkerLabels, TurnLabels
<1>2. CASE running
  BY <1>2 DEF Taking
<1>3. QED BY <1>1, <1>2 DEF IInv, TypeOK

LEMMA WorkerStepKinds ==
    ASSUME IInv, NEW w \in Workers, WorkerStep(w) \/ SpuriousWakeUp(w)
    PROVE  Moving \/ Standing
<1> USE DEF IInv, TypeOK, timedVars, Standing, PlacesKept, TopKept, Goto, WorkerLabels, TurnLabels
<1>1. CASE WorkerLoop(w) BY <1>1 DEF WorkerLoop
<1>2. CASE Dequeue(w)
  <2>1. CASE ready = <<>> BY <1>2, <2>1 DEF Dequeue
  <2>2. CASE ready # <<>>
    <3>1. Taking(w) \/ Standing
      <4> HIDE DEF IInv, Standing, TypeOK, PlacesKept, TopKept, Goto, timedVars
      <4>1. QED BY <1>2, <2>2, TakeKinds DEF Dequeue
    <3>2. QED BY <3>1 DEF Moving
  <2>3. QED BY <2>1, <2>2
<1>3. CASE WakeUp(w) BY <1>3 DEF WakeUp
<1>4. CASE LockCoroutine(w)
  <2>1. tmp[w] \in Entry /\ HeldBy(w) \in Coros
    BY <1>4 DEF LockCoroutine, TurnsHold, HeldBy, Entry
  <2>2. CASE Alive(HeldBy(w))
    <3>1. Credit(tmp[w], Quantum) \in Entry /\ Credit(tmp[w], Quantum).coro = tmp[w].coro
      BY <2>1, QuantumAssumption DEF Entry, Credit
    <3>2. tmp' = [tmp EXCEPT ![w] = Credit(tmp[w], Quantum)] /\ wpc' = [wpc EXCEPT ![w] = "exec"]
      BY <1>4, <2>2 DEF LockCoroutine
    <3>3. QED BY <1>4, <2>1, <2>2, <3>1, <3>2 DEF LockCoroutine
  <2>3. CASE ~Alive(HeldBy(w))
    BY <1>4, <2>3 DEF LockCoroutine
  <2>4. QED BY <2>2, <2>3
<1>5. CASE Execute(w)
  <2>1. tmp[w] \in Entry /\ HeldBy(w) \in Coros
    BY <1>5 DEF Execute, TurnsHold, HeldBy, Entry
  <2>2. PICK cost \in 1..MaxCost : tmp' = [tmp EXCEPT ![w] = Credit(@, -cost)]
    BY <1>5 DEF Execute
  <2>3. Standing
    BY <1>5, <2>1, <2>2, CostAssumption DEF Execute, Entry, Credit
  <2>4. QED BY <2>3
<1>6. CASE Reenqueue(w) \/ Discard(w) BY <1>6 DEF Moving
<1>7. CASE Release(w) BY <1>7 DEF Release
<1>8. CASE SpuriousWakeUp(w) BY <1>8 DEF SpuriousWakeUp
<1>9. QED
  BY <1>1, <1>2, <1>3, <1>4, <1>5, <1>6, <1>7, <1>8 DEF WorkerStep

LEMMA TimedStepKinds ==
    ASSUME IInv, TimedStep \/ TimedSpurious
    PROVE  Moving \/ Standing
<1> USE DEF IInv, TypeOK, TimedUnchanged, Standing, PlacesKept, TopKept, TimedLabels
<1>1. CASE TimedStart BY <1>1 DEF TimedStart
<1>2. CASE TimedLoop BY <1>2 DEF TimedLoop
<1>3. CASE TimedWaitEmpty BY <1>3 DEF TimedWaitEmpty
<1>4. CASE TimedCheck BY <1>4 DEF TimedCheck
<1>5. CASE TimedEnqueue \/ TimedPop BY <1>5 DEF Moving
<1>6. CASE TimedTimeout BY <1>6 DEF TimedTimeout
<1>7. CASE TimedWakeUp BY <1>7 DEF TimedWakeUp
<1>8. CASE TimedSpurious
  <2>1. tpc' \in {"wokenEmpty", "wokenUntil"} /\ tpc \in {"waitEmpty", "waitUntil"}
    BY <1>8 DEF TimedSpurious, NotifyTimed
  <2>2. QED BY <1>8, <2>1 DEF TimedSpurious
<1>9. QED
  BY <1>1, <1>2, <1>3, <1>4, <1>5, <1>6, <1>7, <1>8 DEF TimedStep

LEMMA StopStepKinds ==
    ASSUME IInv, StopFlag \/ StopStep
    PROVE  Standing
<1> USE DEF IInv, TypeOK, StopUnchanged, Standing, PlacesKept, TopKept, StopLabels
<1>1. CASE StopFlag BY <1>1 DEF StopFlag
<1>2. CASE StopNotifyWorkers
  BY <1>2 DEF StopNotifyWorkers, WorkerLabels, TurnLabels
<1>3. CASE StopNotifyTimed
  <2>1. \/ tpc' = tpc
        \/ tpc \in {"waitEmpty", "waitUntil"} /\ tpc' \in {"wokenEmpty", "wokenUntil"}
    BY <1>3 DEF StopNotifyTimed, NotifyTimed
  <2>2. QED BY <1>3, <2>1 DEF StopNotifyTimed, TimedLabels
<1>4. CASE Join BY <1>4 DEF Join
<1>5. QED BY <1>1, <1>2, <1>3, <1>4 DEF StopStep

LEMMA Kinds ==
    ASSUME IInv, [Next]_vars
    PROVE  Moving \/ Standing
<1> USE DEF IInv, TypeOK, Standing, PlacesKept, TopKept, workerVars, timedVars
<1>1. CASE \E c \in Coros : AddCoroutine(c) BY <1>1 DEF Moving
<1>2. CASE \E c \in Coros : DropOwner(c) BY <1>2 DEF DropOwner
<1>3. CASE \E c \in Coros, d \in Delays : AddTimedCoroutine(c, d) BY <1>3 DEF Moving
<1>4. CASE \E w \in Workers : WorkerStep(w) \/ SpuriousWakeUp(w)
  BY <1>4, WorkerStepKinds
<1>5. CASE TimedStep \/ TimedSpurious BY <1>5, TimedStepKinds
<1>6. CASE StopFlag \/ StopStep BY <1>6, StopStepKinds
<1>7. CASE Tick BY <1>7 DEF Tick
<1>8. CASE UNCHANGED vars BY <1>8 DEF vars
<1>9. QED
  BY <1>1, <1>2, <1>3, <1>4, <1>5, <1>6, <1>7, <1>8 DEF Next

(* The part of the state that the bookkeeping of places never looks at. *)
Rest == /\ running \in BOOLEAN /\ now \in Nat /\ spc \in StopLabels
        /\ reenq \in [Workers -> BOOLEAN]
        /\ hold \in [Workers -> Coros \union {None}]
        /\ owned \subseteq Coros /\ ended \subseteq Coros

LEMMA RestTyped ==
    ASSUME IInv, [Next]_vars
    PROVE  Rest'
<1> USE DEF IInv, TypeOK, Rest, workerVars, timedVars
<1>1. CASE \E c \in Coros : AddCoroutine(c) \/ DropOwner(c)
  BY <1>1 DEF AddCoroutine, DropOwner
<1>2. CASE \E c \in Coros, d \in Delays : AddTimedCoroutine(c, d)
  BY <1>2 DEF AddTimedCoroutine
<1>3. ASSUME NEW w \in Workers, WorkerStep(w) \/ SpuriousWakeUp(w)
      PROVE  Rest'
  <2>1. CASE WorkerLoop(w) \/ Release(w) \/ SpuriousWakeUp(w)
    BY <2>1 DEF WorkerLoop, Release, SpuriousWakeUp
  <2>2. CASE Dequeue(w) \/ WakeUp(w)
    BY <2>2 DEF Dequeue, WakeUp
  <2>3. CASE LockCoroutine(w)
    <3>1. HeldBy(w) \in Coros
      BY <2>3 DEF LockCoroutine, TurnsHold, TurnLabels, HeldBy, Entry
    <3>2. QED BY <2>3, <3>1 DEF LockCoroutine
  <2>4. CASE Execute(w)
    <3>1. HeldBy(w) \in Coros
      BY <2>4 DEF Execute, TurnsHold, TurnLabels, HeldBy, Entry
    <3>2. QED BY <2>4, <3>1 DEF Execute
  <2>5. CASE Reenqueue(w) \/ Discard(w)
    BY <2>5 DEF Reenqueue, Discard
  <2>6. QED BY <1>3, <2>1, <2>2, <2>3, <2>4, <2>5 DEF WorkerStep
<1>4. CASE TimedStep \/ TimedSpurious
  BY <1>4 DEF TimedStep, TimedSpurious, TimedUnchanged, TimedStart, TimedLoop,
              TimedWaitEmpty, TimedCheck, TimedEnqueue, TimedPop, TimedTimeout,
              TimedWakeUp
<1>5. CASE StopFlag \/ StopStep
  BY <1>5 DEF StopStep, StopUnchanged, StopFlag, StopNotifyWorkers,
              StopNotifyTimed, Join, StopLabels
<1>6. CASE Tick BY <1>6 DEF Tick
<1>7. CASE UNCHANGED vars BY <1>7 DEF vars
<1>8. QED
  BY <1>1, <1>2, <1>3, <1>4, <1>5, <1>6, <1>7 DEF Next

LEMMA InitEstablishes == Init => IInv
<1> SUFFICES ASSUME Init PROVE IInv
  OBVIOUS
<1>1. InTurn = {} /\ Names(ready) = {} /\ Distinct(ready)
  BY DEF Init, InTurn, Names, Distinct
<1>2. TypeOK
  BY DEF Init, TypeOK, WorkerLabels, TimedLabels, StopLabels
<1>3. TurnsHold /\ TopSleeps /\ Accounted /\ OnePlace
  BY <1>1 DEF Init, TurnsHold, TurnLabels, TopSleeps, Accounted, OnePlace, Pending
<1>4. RunningCorosExact
  BY <1>1, FS_EmptySet DEF Init, RunningCorosExact
<1>5. QED BY <1>2, <1>3, <1>4 DEF IInv

LEMMA NextKeeps == IInv /\ [Next]_vars => IInv'
<1> SUFFICES ASSUME IInv, [Next]_vars PROVE IInv'
  OBVIOUS
<1>1. CASE Standing
  BY <1>1, KeepPlaces, RestTyped DEF Standing, Rest, IInv, TypeOK
<1>2. CASE Moving
  BY <1>2, AddCoroutineKeeps, AddTimedCoroutineKeeps, TakeKeeps, ReenqueueKeeps,
     DiscardKeeps, TimedEnqueueKeeps, TimedPopKeeps DEF Moving
<1>3. QED BY <1>1, <1>2, Kinds

LEMMA Inductive == Spec => []IInv
BY InitEstablishes, NextKeeps, PTL DEF Spec

(* The variables of the manager and the locals of its threads keep their   *)
(* types; in particular the unsigned running_coros never wraps below zero. *)
THEOREM TypeCorrect == Spec => []TypeOK
<1>1. IInv => TypeOK
  BY DEF IInv
<1>2. QED BY <1>1, Inductive, PTL

(* With any number of workers, no coroutine is ever in two places: thread_fn *)
(* never resumes one that another worker is resuming, and the list of        *)
(* waiting coroutines holds none twice.                                      *)
THEOREM OnePlaceHolds == Spec => []OnePlace
<1>1. IInv => OnePlace
  BY DEF IInv
<1>2. QED BY <1>1, Inductive, PTL

(* running_coros, as get_stats reports it, is always the number of workers *)
(* between dequeue_coroutine and the end of the turn.                      *)
THEOREM RunningCorosCounts == Spec => []RunningCorosExact
<1>1. IInv => RunningCorosExact
  BY DEF IInv
<1>2. QED BY <1>1, Inductive, PTL

-----------------------------------------------------------------------------
(* The order of the timers.                                                *)

(* What timed_fn is about to list is due, and is the first in the heap.    *)
TopDue == tpc = "enqueue" => top.due <= now /\ \A f \in timed : top.due <= f.due

LEMMA TopDueKept ==
    ASSUME IInv, TopDue, [Next]_vars
    PROVE  TopDue'
<1>1. CASE tpc' # "enqueue"
  BY <1>1 DEF TopDue
<1>2. CASE tpc' = tpc /\ top' = top /\ timed' = timed /\ now' \in Nat /\ now <= now'
  <2>1. tpc = "enqueue" => top \in Deadline
    BY DEF IInv, TypeOK, TopSleeps
  <2>2. QED BY <1>2, <2>1 DEF TopDue, IInv, TypeOK, Deadline
<1>3. CASE TimedCheck
  BY <1>3 DEF TimedCheck, TopDue, TimedUnchanged
<1>4. now \in Nat
  BY DEF IInv, TypeOK
<1> USE DEF workerVars, timedVars
<1>5. CASE \E c \in Coros : AddCoroutine(c) \/ DropOwner(c)
  BY <1>2, <1>4, <1>5 DEF AddCoroutine, DropOwner
<1>6. CASE \E c \in Coros, d \in Delays : AddTimedCoroutine(c, d)
  BY <1>1, <1>6 DEF AddTimedCoroutine, NotifyTimed, TimedHeld
<1>7. CASE \E w \in Workers : WorkerStep(w) \/ SpuriousWakeUp(w)
  BY <1>2, <1>4, <1>7 DEF WorkerStep, WorkerLoop, Dequeue, WakeUp, LockCoroutine,
     Execute, Reenqueue, Discard, Release, SpuriousWakeUp
<1>8. CASE TimedStep \/ TimedSpurious
  BY <1>1, <1>3, <1>8 DEF TimedStep, TimedSpurious, NotifyTimed, TimedStart,
     TimedLoop, TimedWaitEmpty, TimedEnqueue, TimedPop, TimedTimeout, TimedWakeUp
<1>9. CASE StopFlag \/ StopStep
  BY <1>1, <1>2, <1>4, <1>9 DEF StopFlag, StopStep, StopNotifyWorkers,
     StopNotifyTimed, Join, NotifyTimed, StopUnchanged
<1>10. CASE Tick BY <1>2, <1>4, <1>10 DEF Tick
<1>11. CASE UNCHANGED vars BY <1>2, <1>4, <1>11 DEF vars
<1>12. QED
  BY <1>5, <1>6, <1>7, <1>8, <1>9, <1>10, <1>11 DEF Next

(* Only three steps list a coroutine, and two of them none that sleeps: a  *)
(* coroutine is added once, and a worker's is not in the heap.             *)
LEMMA ListedFromHeap ==
    ASSUME IInv, [Next]_vars, tpc = "enqueue",
           NEW e \in timed, Pending(e.coro)', ~Pending(e.coro)
    PROVE  e = top
<1> DEFINE c == e.coro
<1>1. c \in added /\ c \in Coros /\ e \in Deadline
  BY DEF IInv, Accounted, TypeOK, Deadline
<1>2. \A w \in InTurn : HeldBy(w) # c
  BY DEF IInv, OnePlace
<1>3. ~Standing
  BY DEF Standing, PlacesKept, Pending, Names
<1>4. ASSUME NEW d \in Entry, ready' = Append(ready, d)
      PROVE  c = d.coro
  BY <1>4, AppendNames DEF IInv, TypeOK, Pending
<1>5. ASSUME NEW b \in Coros, AddCoroutine(b)
      PROVE  FALSE
  <2>1. Fresh(b) \in Entry /\ Fresh(b).coro = b
    BY DEF Fresh, Entry
  <2>2. QED BY <1>1, <1>4, <1>5, <2>1 DEF AddCoroutine, Enqueue
<1>6. ASSUME NEW b \in Coros, NEW d \in Delays, AddTimedCoroutine(b, d)
      PROVE  FALSE
  BY <1>6 DEF AddTimedCoroutine, TimedHeld
<1>7. ASSUME NEW w \in Workers, Taking(w)
      PROVE  FALSE
  BY <1>7, TailNames DEF Taking, Take, Pending, IInv, TypeOK, OnePlace
<1>8. ASSUME NEW w \in Workers, Reenqueue(w)
      PROVE  FALSE
  <2>1. w \in InTurn /\ tmp[w] \in Entry
    BY <1>8 DEF Reenqueue, TurnOver, InTurn, IInv, TurnsHold, TurnLabels
  <2>2. QED BY <1>2, <1>4, <1>8, <2>1 DEF Reenqueue, HeldBy
<1>9. ASSUME NEW w \in Workers, Discard(w)
      PROVE  FALSE
  BY <1>9 DEF Discard, Pending, Names
<1>10. CASE TimedEnqueue
  <2>1. top \in timed /\ Fresh(top.coro) \in Entry /\ Fresh(top.coro).coro = top.coro
    BY DEF IInv, TopSleeps, TypeOK, Deadline, Fresh, Entry
  <2>2. top.coro = c
    BY <1>4, <1>10, <2>1 DEF TimedEnqueue, Enqueue
  <2>3. QED BY <2>1, <2>2 DEF IInv, OnePlace
<1>11. CASE TimedPop
  BY <1>11 DEF TimedPop
<1>12. QED
  BY <1>3, <1>5, <1>6, <1>7, <1>8, <1>9, <1>10, <1>11, Kinds DEF Moving

(* timed_fn hands the coroutines of the heap to the workers at or after    *)
(* their deadlines and in the order of the deadlines, whatever clients add *)
(* to the heap while it waits.                                             *)
THEOREM TimersInOrder == Spec => TimerOrder
<1>1. Init => TopDue
  BY DEF Init, TopDue
<1>2. IInv /\ TopDue /\ [Next]_vars => TopDue'
  BY TopDueKept
<1>3. IInv /\ TopDue /\ [Next]_vars =>
        [\A e \in timed : Pending(e.coro)' /\ ~Pending(e.coro) /\ tpc = "enqueue"
            => e.due <= now /\ \A f \in timed : e.due <= f.due]_vars
  BY ListedFromHeap DEF TopDue
<1>4. QED
  BY <1>1, <1>2, <1>3, Inductive, PTL DEF Spec, TimerOrder

-----------------------------------------------------------------------------
(* No worker parks for nothing.                                            *)

(* The workers that will look at the list before they park. *)
Takers == {w \in Workers : wpc[w] \in {"loop", "dequeue", "woken", "awake", "release"}}

LEMMA TakersFinite ==
    /\ IsFiniteSet(Takers) /\ Takers \subseteq Workers
    /\ Cardinality(Takers) \in Nat
<1>1. Takers \subseteq Workers
  BY DEF Takers
<1>2. QED BY <1>1, WorkersAssumption, FS_Subset, FS_CardinalityType

(* As many takers for a list that is not longer *)
LEMMA TakersSuffice ==
    ASSUME TypeOK, WorkConserving, running' => running, Waiting' \subseteq Waiting,
           Takers \subseteq Takers', IsFiniteSet(Takers'),
           Len(ready') \in Nat, Len(ready') <= Len(ready)
    PROVE  WorkConserving'
<1>1. Cardinality(Takers) <= Cardinality(Takers') /\ Cardinality(Takers') \in Nat
  BY FS_Subset, FS_CardinalityType
<1>2. Cardinality(Takers) \in Nat /\ Len(ready) \in Nat
  BY TakersFinite DEF TypeOK
<1>3. QED BY <1>1, <1>2 DEF WorkConserving, Takers

(* A coroutine is listed and a parked worker, if there is one, is woken. *)
LEMMA NotifySuffices ==
    ASSUME TypeOK, WorkConserving, running' = running,
           NEW p \in [Workers -> WorkerLabels], wpc' \in NotifyOne(p),
           \A w \in Workers : \/ p[w] = wpc[w]
                              \/ wpc[w] = "exec" /\ p[w] = "release",
           Len(ready') = Len(ready) + 1
    PROVE  WorkConserving'
<1>1. Len(ready) \in Nat
  BY DEF TypeOK
<1>2. CASE \A w \in Workers : p[w] # "waiting"
  <2>1. wpc' = p
    BY <1>2 DEF NotifyOne
  <2>2. Waiting' = {}
    BY <1>2, <2>1 DEF Waiting
  <2>3. QED BY <2>2 DEF WorkConserving
<1>3. CASE ~\A w \in Workers : p[w] # "waiting"
  <2>1. PICK w \in Workers : p[w] = "waiting" /\ wpc' = [p EXCEPT ![w] = "woken"]
    BY <1>3 DEF NotifyOne
  <2>2. wpc[w] = "waiting" /\ w \notin Takers
    BY <2>1 DEF Takers
  <2>3. w \in Takers' /\ Takers \subseteq Takers'
    BY <2>1, <2>2 DEF Takers, TypeOK
  <2>4. IsFiniteSet(Takers) /\ IsFiniteSet(Takers')
    BY WorkersAssumption, FS_Subset, TakersFinite DEF Takers
  <2>5. /\ Cardinality(Takers \union {w}) = Cardinality(Takers) + 1
        /\ IsFiniteSet(Takers \union {w})
    BY <2>2, <2>4, FS_AddElement
  <2>6. /\ Cardinality(Takers \union {w}) <= Cardinality(Takers')
        /\ Cardinality(Takers') \in Nat /\ Cardinality(Takers) \in Nat
    BY <2>3, <2>4, <2>5, FS_Subset, FS_CardinalityType
  <2>7. Waiting # {}
    BY <2>2 DEF Waiting
  <2>8. QED BY <1>1, <2>5, <2>6, <2>7 DEF WorkConserving, Takers
<1>4. QED BY <1>2, <1>3

LEMMA TakingConserves ==
    ASSUME IInv, WorkConserving, NEW w \in Workers, Taking(w)
    PROVE  WorkConserving'
<1>1. /\ wpc' = [wpc EXCEPT ![w] = "lock"] /\ running' = running /\ running
      /\ ready' = Tail(ready) /\ ready # <<>> /\ w \in Takers
  BY DEF Taking, Take, Goto, Takers
<1>2. Len(ready') = Len(ready) - 1 /\ Len(ready) \in Nat
  BY <1>1 DEF IInv, TypeOK
<1>3. Takers' = Takers \ {w} /\ Waiting' \subseteq Waiting
  BY <1>1 DEF Takers, Waiting, IInv, TypeOK
<1>4. Cardinality(Takers') = Cardinality(Takers) - 1
  BY <1>1, <1>3, TakersFinite, FS_RemoveElement
<1>5. QED
  BY <1>1, <1>2, <1>3, <1>4, TakersFinite DEF WorkConserving, Takers

LEMMA StepConserves ==
    ASSUME IInv, WorkConserving, [Next]_vars
    PROVE  WorkConserving'
<1> USE DEF workerVars, timedVars, Goto
<1>1. /\ IsFiniteSet(Takers') /\ Len(ready) \in Nat
      /\ wpc \in [Workers -> WorkerLabels] /\ TypeOK
  BY WorkersAssumption, FS_Subset DEF Takers, IInv, TypeOK
<1>2. CASE UNCHANGED <<running, wpc, ready>>
  BY <1>2 DEF WorkConserving, Waiting
<1>3. ASSUME NEW c \in Coros, AddCoroutine(c)
      PROVE  WorkConserving'
  <2>1. Len(ready') = Len(ready) + 1
    BY <1>3 DEF AddCoroutine, Enqueue, IInv, TypeOK
  <2>2. wpc' \in NotifyOne(wpc) /\ running' = running
    BY <1>3 DEF AddCoroutine, Enqueue
  <2>3. QED BY <1>1, <2>1, <2>2, NotifySuffices
<1>4. CASE TimedEnqueue
  <2>1. Len(ready') = Len(ready) + 1
    BY <1>4 DEF TimedEnqueue, Enqueue, IInv, TypeOK
  <2>2. wpc' \in NotifyOne(wpc) /\ running' = running
    BY <1>4 DEF TimedEnqueue, Enqueue, TimedUnchanged
  <2>3. QED BY <1>1, <2>1, <2>2, NotifySuffices
<1>5. ASSUME NEW w \in Workers, WorkerStep(w) \/ SpuriousWakeUp(w)
      PROVE  WorkConserving'
  <2>1. CASE Taking(w)
    BY <2>1, TakingConserves
  <2>2. ASSUME ~Taking(w), Dequeue(w)
        PROVE  WorkConserving'
    <3>1. CASE ready = <<>> /\ running
      <4>1. /\ wpc' = [wpc EXCEPT ![w] = "waiting"] /\ ready' = <<>>
        BY <2>2, <3>1 DEF Dequeue
      <4>2. Len(ready') = 0 /\ Cardinality(Takers') \in Nat
        BY <1>1, <4>1, FS_CardinalityType
      <4>3. QED BY <4>2 DEF WorkConserving, Takers
    <3>2. CASE ~running
      <4>1. running' = running
        BY <2>2 DEF Dequeue
      <4>2. QED BY <3>2, <4>1 DEF WorkConserving
    <3>3. CASE ready # <<>> /\ running
      BY <2>2, <3>3 DEF Dequeue, Taking
    <3>4. QED BY <3>1, <3>2, <3>3
  <2>3. CASE Reenqueue(w)
    <3>1. Len(ready') = Len(ready) + 1
      BY <2>3 DEF Reenqueue, IInv, TypeOK
    <3>2. /\ wpc' \in NotifyOne([wpc EXCEPT ![w] = "release"])
          /\ running' = running /\ wpc[w] = "exec"
      BY <2>3 DEF Reenqueue, TurnOver
    <3>3. [wpc EXCEPT ![w] = "release"] \in [Workers -> WorkerLabels]
      BY <1>1 DEF WorkerLabels
    <3>4. \A v \in Workers : LET p == [wpc EXCEPT ![w] = "release"]
                             IN  p[v] = wpc[v] \/ (wpc[v] = "exec" /\ p[v] = "release")
      BY <1>1, <3>2
    <3>5. QED BY <1>1, <3>1, <3>2, <3>3, <3>4, NotifySuffices
  <2>4. CASE LockCoroutine(w) \/ Execute(w) \/ Discard(w) \/ Release(w)
                \/ WakeUp(w) \/ SpuriousWakeUp(w)
    <3>1. ready' = ready /\ running' = running
      BY <2>4 DEF LockCoroutine, Execute, Discard, Release, WakeUp, SpuriousWakeUp
    <3>2. Takers \subseteq Takers' /\ Waiting' \subseteq Waiting
      BY <1>1, <2>4 DEF LockCoroutine, Execute, Discard, TurnOver, Release, WakeUp, SpuriousWakeUp,
         Takers, Waiting
    <3>3. QED BY <1>1, <3>1, <3>2, TakersSuffice
  <2>5. CASE WorkerLoop(w)
    <3>1. CASE ~running
      BY <2>5, <3>1 DEF WorkerLoop, WorkConserving
    <3>2. CASE running
      <4>1. /\ wpc' = [wpc EXCEPT ![w] = "dequeue"] /\ wpc[w] = "loop"
            /\ ready' = ready /\ running' = running
        BY <2>5, <3>2 DEF WorkerLoop
      <4>2. Takers \subseteq Takers' /\ Waiting' \subseteq Waiting
        BY <1>1, <4>1 DEF Takers, Waiting
      <4>3. QED BY <1>1, <4>1, <4>2, TakersSuffice
    <3>3. QED BY <3>1, <3>2
  <2>6. QED BY <1>5, <2>1, <2>2, <2>3, <2>4, <2>5 DEF WorkerStep
<1>6. CASE StopFlag \/ StopStep
  <2>1. CASE StopNotifyWorkers
    <3>1. Waiting' = {}
      BY <2>1 DEF StopNotifyWorkers, Waiting
    <3>2. QED BY <3>1 DEF WorkConserving
  <2>2. CASE StopFlag
    BY <2>2 DEF StopFlag, WorkConserving
  <2>3. CASE StopNotifyTimed \/ Join
    BY <1>2, <2>3 DEF StopNotifyTimed, Join, StopUnchanged
  <2>4. QED BY <1>6, <2>1, <2>2, <2>3 DEF StopStep
<1>7. CASE \E c \in Coros : DropOwner(c)
  BY <1>2, <1>7 DEF DropOwner
<1>8. CASE \E c \in Coros, d \in Delays : AddTimedCoroutine(c, d)
  BY <1>2, <1>8 DEF AddTimedCoroutine
<1>9. CASE (TimedStep /\ ~TimedEnqueue) \/ TimedSpurious
  BY <1>2, <1>9 DEF TimedStep, TimedSpurious, TimedUnchanged, TimedStart,
     TimedLoop, TimedWaitEmpty, TimedCheck, TimedPop, TimedTimeout, TimedWakeUp
<1>10. CASE Tick \/ UNCHANGED vars
  BY <1>2, <1>10 DEF Tick, vars
<1>11. QED
  BY <1>3, <1>4, <1>5, <1>6, <1>7, <1>8, <1>9, <1>10 DEF Next

(* One notify_one per listed coroutine is enough for any number of workers: *)
(* while one is parked on can_go, every listed coroutine has a worker that  *)
(* will look at the list before it parks, until the pool stops.             *)
THEOREM WorkIsConserved == Spec => []WorkConserving
<1>1. Init => WorkConserving
  BY DEF Init, WorkConserving, Waiting
<1>2. IInv /\ WorkConserving /\ [Next]_vars => WorkConserving'
  BY StepConserves
<1>3. QED BY <1>1, <1>2, Inductive, PTL DEF Spec

-----------------------------------------------------------------------------
(* The pool without threads.                                               *)

LEMMA ListedLists ==
    ASSUME NEW s \in Seq(Entry)
    PROVE  /\ Listed(s) \in Seq(Coros) /\ Len(Listed(s)) = Len(s)
           /\ s # <<>> => /\ Listed(s) # <<>> /\ Head(Listed(s)) = Head(s).coro
                          /\ Listed(Tail(s)) = Tail(Listed(s))
           /\ \A e \in Entry : Listed(Append(s, e)) = Append(Listed(s), e.coro)
<1>1. Len(s) \in Nat /\ \A i \in 1..Len(s) : s[i].coro \in Coros
  <2>1. Len(s) \in Nat /\ \A i \in 1..Len(s) : s[i] \in Entry
    OBVIOUS
  <2>2. \A e \in Entry : e.coro \in Coros
    BY DEF Entry
  <2>3. QED BY <2>1, <2>2
<1>2. /\ Listed(s) \in Seq(Coros) /\ Len(Listed(s)) = Len(s)
      /\ \A i \in 1..Len(s) : Listed(s)[i] = s[i].coro
  BY <1>1 DEF Listed
<1>3. ASSUME s # <<>>
      PROVE  /\ Listed(s) # <<>> /\ Head(Listed(s)) = Head(s).coro
             /\ Listed(Tail(s)) = Tail(Listed(s))
  <2>1. Len(s) >= 1 /\ Listed(s) # <<>>
    BY <1>2, <1>3
  <2>2. Head(Listed(s)) = Head(s).coro
    BY <1>2, <2>1
  <2>3. /\ Tail(s) \in Seq(Entry) /\ Len(Tail(s)) = Len(s) - 1
        /\ \A i \in 1..Len(s) - 1 : Tail(s)[i] = s[i + 1]
    BY <1>3
  <2>4. /\ Tail(Listed(s)) \in Seq(Coros) /\ Len(Tail(Listed(s))) = Len(s) - 1
        /\ \A i \in 1..Len(s) - 1 : Tail(Listed(s))[i] = Listed(s)[i + 1]
    BY <1>2, <2>1
  <2>5. \A i \in 1..Len(s) - 1 : Listed(Tail(s))[i] = Tail(Listed(s))[i]
    BY <1>1, <1>2, <2>3, <2>4 DEF Listed
  <2>6. Listed(Tail(s)) \in Seq(Coros) /\ Len(Listed(Tail(s))) = Len(s) - 1
    BY <1>1, <2>3 DEF Listed
  <2>7. QED BY <2>1, <2>2, <2>4, <2>5, <2>6, SeqEqual
<1>4. ASSUME NEW e \in Entry
      PROVE  Listed(Append(s, e)) = Append(Listed(s), e.coro)
  <2>1. e.coro \in Coros
    BY DEF Entry
  <2>2. /\ Append(s, e) \in Seq(Entry) /\ Len(Append(s, e)) = Len(s) + 1
        /\ \A i \in 1..Len(s) + 1 : Append(s, e)[i] = IF i = Len(s) + 1 THEN e ELSE s[i]
    BY <1>1
  <2>3. /\ Append(Listed(s), e.coro) \in Seq(Coros)
        /\ Len(Append(Listed(s), e.coro)) = Len(s) + 1
        /\ \A i \in 1..Len(s) + 1 :
              Append(Listed(s), e.coro)[i] = IF i = Len(s) + 1 THEN e.coro ELSE Listed(s)[i]
    BY <1>2, <2>1
  <2>4. \A i \in 1..Len(s) + 1 : Listed(Append(s, e))[i] = Append(Listed(s), e.coro)[i]
    BY <1>2, <2>2, <2>3 DEF Listed
  <2>5. Listed(Append(s, e)) \in Seq(Coros) /\ Len(Listed(Append(s, e))) = Len(s) + 1
    BY <1>1, <2>1, <2>2 DEF Listed
  <2>6. QED BY <2>3, <2>4, <2>5, SeqEqual
<1>5. QED BY <1>2, <1>3, <1>4

(* What the pool sees of the heap and of the workers *)
Asleep == {e.coro : e \in IF tpc = "pop" THEN timed \ {top} ELSE timed}
Served == {HeldBy(w) : w \in InTurn}

LEMMA SubmitSimulated ==
    ASSUME IInv, NEW c \in Coros, AddCoroutine(c)
    PROVE  Pool!Submit(c)
<1>1. Fresh(c) \in Entry /\ Fresh(c).coro = c
  BY DEF Fresh, Entry
<1>2. Listed(ready') = Append(Listed(ready), c)
  BY <1>1, ListedLists DEF AddCoroutine, Enqueue, IInv, TypeOK
<1>3. /\ c \notin added /\ added' = added \union {c} /\ wpc' \in NotifyOne(wpc)
      /\ UNCHANGED <<timed, tpc, top, tmp, runningCoros>>
  BY DEF AddCoroutine, Enqueue, timedVars
<1>4. InTurn' = InTurn
  BY <1>3, NotifyOneEffect DEF InTurn, IInv, TypeOK
<1>5. Served' = Served /\ Asleep' = Asleep
  BY <1>3, <1>4 DEF Served, Asleep, HeldBy
<1>6. QED BY <1>2, <1>3, <1>5 DEF Pool!Submit, Served, Asleep

LEMMA SubmitLaterSimulated ==
    ASSUME IInv, NEW c \in Coros, NEW d \in Delays, AddTimedCoroutine(c, d)
    PROVE  Pool!SubmitLater(c)
<1>1. /\ c \notin added /\ added' = added \union {c} /\ ready' = ready
      /\ timed' = timed \union {[coro |-> c, due |-> now + d]}
      /\ tpc # "pop" /\ tpc' # "pop"
      /\ UNCHANGED <<wpc, tmp, runningCoros>>
  BY DEF AddTimedCoroutine, workerVars, TimedHeld, NotifyTimed
<1>2. Served' = Served
  BY <1>1 DEF Served, HeldBy, InTurn
<1>3. Asleep' = Asleep \union {c}
  <2> DEFINE d0 == [coro |-> c, due |-> now + d]
  <2>1. d0.coro = c /\ timed' = timed \union {d0}
    BY <1>1
  <2> HIDE DEF d0
  <2>2. Asleep = {e.coro : e \in timed} /\ Asleep' = {e.coro : e \in timed'}
    BY <1>1 DEF Asleep
  <2>3. QED BY <2>1, <2>2
<1>4. QED BY <1>1, <1>2, <1>3 DEF Pool!SubmitLater, Served, Asleep

LEMMA WakeSimulated ==
    ASSUME IInv, TimedEnqueue, NEW c \in Coros, c = top.coro
    PROVE  Pool!Wake(c)
<1>1. top \in timed /\ Fresh(c) \in Entry /\ Fresh(c).coro = c
  BY DEF TimedEnqueue, IInv, TopSleeps, TypeOK, Fresh, Entry, Deadline
<1>2. Listed(ready') = Append(Listed(ready), c)
  BY <1>1, ListedLists DEF TimedEnqueue, Enqueue, IInv, TypeOK
<1>3. /\ tpc = "enqueue" /\ tpc' = "pop" /\ wpc' \in NotifyOne(wpc)
      /\ UNCHANGED <<timed, top, tmp, runningCoros, added>>
  BY DEF TimedEnqueue, Enqueue, TimedUnchanged
<1>4. InTurn' = InTurn
  BY <1>3, NotifyOneEffect DEF InTurn, IInv, TypeOK
<1>5. Served' = Served
  BY <1>3, <1>4 DEF Served, HeldBy
<1>6. c \in Asleep /\ Asleep' = Asleep \ {c}
  BY <1>1, <1>3 DEF Asleep, IInv, OnePlace
<1>7. QED BY <1>1, <1>2, <1>3, <1>5, <1>6 DEF Pool!Wake, Served, Asleep

LEMMA ServeSimulated ==
    ASSUME IInv, NEW w \in Workers, Taking(w)
    PROVE  Pool!Serve
<1> DEFINE e == Head(ready)
<1>1. /\ tmp' = [tmp EXCEPT ![w] = e] /\ ready' = Tail(ready) /\ ready # <<>>
      /\ runningCoros' = runningCoros + 1 /\ wpc' = [wpc EXCEPT ![w] = "lock"]
      /\ wpc[w] \in {"dequeue", "awake"}
      /\ UNCHANGED <<timed, tpc, top, added>>
  BY DEF Taking, Take, Goto, timedVars
<1>2. /\ Listed(ready) # <<>> /\ Head(Listed(ready)) = e.coro
      /\ Listed(ready') = Tail(Listed(ready))
  BY <1>1, ListedLists DEF IInv, TypeOK
<1>3. w \notin InTurn /\ InTurn' = InTurn \union {w} /\ InTurn \subseteq Workers
  BY <1>1 DEF InTurn, IInv, TypeOK
<1>4. /\ HeldBy(w)' = e.coro
      /\ \A v \in InTurn : HeldBy(v)' = HeldBy(v)
  BY <1>1, <1>3 DEF HeldBy, IInv, TypeOK
<1>5. Served' = Served \union {e.coro} /\ Asleep' = Asleep
  BY <1>1, <1>3, <1>4 DEF Served, Asleep
<1>6. e.coro \notin Served
  BY <1>1, TailNames DEF Served, IInv, TypeOK, OnePlace, Pending
<1>7. runningCoros < Cardinality(Workers)
  <2>1. InTurn \subseteq Workers /\ InTurn # Workers
    BY <1>3
  <2>2. Cardinality(InTurn) < Cardinality(Workers)
    BY <2>1, WorkersAssumption, FS_Subset, FS_CardinalityType
  <2>3. QED BY <2>2 DEF IInv, RunningCorosExact
<1>8. QED BY <1>1, <1>2, <1>5, <1>6, <1>7 DEF Pool!Serve, Served, Asleep

(* A worker lets go of its coroutine. *)
LEMMA ServedLess ==
    ASSUME IInv, NEW w \in InTurn,
           tmp' = [tmp EXCEPT ![w] = Idle],
           wpc' \in [Workers -> WorkerLabels], wpc'[w] = "release",
           \A v \in Workers \ {w} : wpc'[v] = wpc[v] \/ (wpc[v] = "waiting" /\ wpc'[v] = "woken")
    PROVE  Served' = Served \ {HeldBy(w)} /\ HeldBy(w) \in Served /\ HeldBy(w) \in Coros
<1>1. /\ InTurn' = InTurn \ {w} /\ HeldBy(w) \in Coros
      /\ \A v \in InTurn' : HeldBy(v)' = HeldBy(v) /\ HeldBy(v) # HeldBy(w)
  BY TurnEnds
<1>2. QED BY <1>1 DEF Served

LEMMA YieldSimulated ==
    ASSUME IInv, NEW w \in Workers, Reenqueue(w)
    PROVE  HeldBy(w) \in Coros /\ Pool!Yield(HeldBy(w))
<1> DEFINE p == [wpc EXCEPT ![w] = "release"]
<1>1. /\ ready' = Append(ready, tmp[w]) /\ runningCoros' = runningCoros - 1
      /\ tmp' = [tmp EXCEPT ![w] = Idle] /\ wpc' \in NotifyOne(p) /\ w \in InTurn
      /\ UNCHANGED <<timed, tpc, top, added>>
  BY DEF Reenqueue, TurnOver, InTurn, timedVars
<1>2. p \in [Workers -> WorkerLabels]
  BY DEF IInv, TypeOK, WorkerLabels
<1>3. /\ wpc' \in [Workers -> WorkerLabels]
      /\ \A v \in Workers : wpc'[v] = p[v] \/ (p[v] = "waiting" /\ wpc'[v] = "woken")
  BY <1>1, <1>2, NotifyOneEffect
<1>4. /\ wpc'[w] = "release"
      /\ \A v \in Workers \ {w} : wpc'[v] = wpc[v] \/ (wpc[v] = "waiting" /\ wpc'[v] = "woken")
  BY <1>3 DEF IInv, TypeOK
<1>5. Served' = Served \ {HeldBy(w)} /\ HeldBy(w) \in Served /\ HeldBy(w) \in Coros
  BY <1>1, <1>3, <1>4, ServedLess
<1>6. tmp[w] \in Entry
  BY <1>1 DEF IInv, TurnsHold, InTurn, TurnLabels
<1>7. Listed(ready') = Append(Listed(ready), HeldBy(w))
  BY <1>1, <1>6, ListedLists DEF IInv, TypeOK, HeldBy
<1>8. Asleep' = Asleep
  BY <1>1 DEF Asleep
<1>9. QED BY <1>1, <1>5, <1>7, <1>8 DEF Pool!Yield, Served, Asleep

LEMMA LeaveSimulated ==
    ASSUME IInv, NEW w \in Workers, Discard(w)
    PROVE  HeldBy(w) \in Coros /\ Pool!Leave(HeldBy(w))
<1>1. /\ runningCoros' = runningCoros - 1 /\ tmp' = [tmp EXCEPT ![w] = Idle]
      /\ wpc' = [wpc EXCEPT ![w] = "release"] /\ w \in InTurn
      /\ UNCHANGED <<ready, timed, tpc, top, added>>
  BY DEF Discard, TurnOver, Goto, InTurn, timedVars
<1>2. wpc' \in [Workers -> WorkerLabels] /\ wpc'[w] = "release"
      /\ \A v \in Workers \ {w} : wpc'[v] = wpc[v]
  BY <1>1 DEF IInv, TypeOK, WorkerLabels
<1>3. Served' = Served \ {HeldBy(w)} /\ HeldBy(w) \in Served /\ HeldBy(w) \in Coros
  BY <1>1, <1>2, ServedLess
<1>4. Asleep' = Asleep
  BY <1>1 DEF Asleep
<1>5. QED BY <1>1, <1>3, <1>4 DEF Pool!Leave, Served, Asleep

LEMMA PopInvisible ==
    ASSUME IInv, TimedPop
    PROVE  UNCHANGED Pool!vars
<1>1. /\ tpc = "pop" /\ tpc' = "loop" /\ timed' = timed \ {top}
      /\ UNCHANGED <<ready, wpc, runningCoros, tmp, added>>
  BY DEF TimedPop, TimedUnchanged
<1>2. Asleep' = Asleep /\ Served' = Served
  BY <1>1 DEF Asleep, Served, HeldBy, InTurn
<1>3. QED BY <1>1, <1>2 DEF Pool!vars, Asleep, Served

LEMMA StandingInvisible ==
    ASSUME IInv, Standing
    PROVE  UNCHANGED Pool!vars
<1>1. InTurn' = InTurn /\ InTurn \subseteq Workers
  BY InTurnKept DEF Standing, IInv, InTurn
<1>2. Served' = Served
  BY <1>1 DEF Standing, PlacesKept, Served, HeldBy
<1>3. Asleep' = Asleep
  BY DEF Asleep, Standing, PlacesKept, TopKept
<1>4. QED BY <1>2, <1>3 DEF Pool!vars, Asleep, Served, Standing, PlacesKept

(* Threads, mutexes, condition variables, weak pointers and budgets        *)
(* implement the pool: every step of every thread, of every client and of  *)
(* the destructor is one step of CoroutinePool or invisible to it, so the  *)
(* order of service and the bound on what is served at a time hold for any *)
(* number of workers.                                                      *)
THEOREM PoolImplemented == Spec => ImplementsPool
<1>1. Init => Pool!Init
  <2> SUFFICES ASSUME Init PROVE Pool!Init
    OBVIOUS
  <2>2. InTurn = {} /\ timed = {} /\ tpc # "pop"
    BY DEF Init, InTurn
  <2>3. Listed(ready) = <<>>
    BY DEF Init, Listed
  <2>4. QED BY <2>2, <2>3 DEF Pool!Init, Init
<1>2. IInv /\ [Next]_vars => [Pool!Next]_(Pool!vars)
  <2> SUFFICES ASSUME IInv, [Next]_vars PROVE Pool!Next \/ UNCHANGED Pool!vars
    OBVIOUS
  <2>2. CASE Standing
    BY <2>2, StandingInvisible
  <2>3. CASE \E c \in Coros : AddCoroutine(c)
    BY <2>3, SubmitSimulated DEF Pool!Next
  <2>4. CASE \E c \in Coros, d \in Delays : AddTimedCoroutine(c, d)
    BY <2>4, SubmitLaterSimulated DEF Pool!Next
  <2>5. ASSUME NEW w \in Workers, Taking(w) \/ Reenqueue(w) \/ Discard(w)
        PROVE  Pool!Next
    BY <2>5, ServeSimulated, YieldSimulated, LeaveSimulated DEF Pool!Next
  <2>6. CASE TimedEnqueue
    <3>1. top.coro \in Coros
      BY <2>6 DEF TimedEnqueue, IInv, TopSleeps, TypeOK, Deadline
    <3>2. PICK c \in Coros : c = top.coro
      BY <3>1
    <3>3. Pool!Wake(c)
      BY <2>6, <3>2, WakeSimulated
    <3>4. QED BY <3>3 DEF Pool!Next
  <2>7. CASE TimedPop
    BY <2>7, PopInvisible
  <2>8. Moving \/ Standing
    BY Kinds
  <2>9. QED BY <2>2, <2>3, <2>4, <2>5, <2>6, <2>7, <2>8 DEF Moving
<1>3. QED
  BY <1>1, <1>2, Inductive, PTL DEF Spec, ImplementsPool, Pool!Spec

=============================================================================
