----------------------- MODULE CoroutineThreadManager -----------------------
(***************************************************************************)
(* The cooperative scheduler of utils/threadmanager.cpp: a pool of worker  *)
(* threads that take suspended coroutines from one FIFO list, a timed      *)
(* thread that moves coroutines from a deadline heap to that list, and a   *)
(* stopper (the destructor) that asks every thread to leave and joins it.  *)
(*                                                                         *)
(* Atomicity.  A section under obj_mutex is one step: nothing else looks   *)
(* at the list inside it, unless it reads `running' first (ObjHeld).  For  *)
(* timed_mutex is held across several steps of the timed thread            *)
(* (TimedHeld), because obj_mutex is taken inside it.  The flag `running'  *)
(* is written outside both mutexes, so that what stop() does may come      *)
(* between a read of it and what the thread does next.                     *)
(***************************************************************************)
EXTENDS Integers, Sequences, FiniteSets

CONSTANTS
    Workers,   \* the threads running thread_fn
    Coros,     \* the coroutines that clients ever add
    SelfOwned, \* those that keep a reference to themselves until they end
    None,      \* no coroutine
    Quantum,   \* BUDGET_QUANTUM, in time units
    MaxCost,   \* bound: the longest time between two yields of a body
    Delays,    \* the wait times given to add_timed_coroutine
    MaxTime    \* bound: the last value of the clock

ASSUME WorkersAssumption == IsFiniteSet(Workers)
ASSUME CorosAssumption   == None \notin Coros /\ SelfOwned \subseteq Coros
ASSUME QuantumAssumption == Quantum \in Nat \ {0}
ASSUME CostAssumption    == MaxCost \in Nat \ {0}
ASSUME TimeAssumption    == MaxTime \in Nat /\ Delays \subseteq Nat

VARIABLES
    running,       \* the atomic flag cleared by stop()
    ready,         \* `coros': the FIFO list of runtime data
    runningCoros,  \* the atomic counter of coroutines held by workers
    timed,         \* `timed_coros': the heap, as a set of deadlines
    now,           \* the system clock
    wpc,           \* where each worker is in thread_fn
    tmp,           \* each worker's local runtime data
    reenq,         \* each worker's local `reenqueue', TRUE out of a turn
    hold,          \* each worker's `strong_coro'
    tpc,           \* where the timed thread is in timed_fn
    top,           \* the heap entry the timed thread looks at
    spc,           \* where the destructor is in stop()
    added,         \* coroutines handed to the manager so far
    owned,         \* coroutines some client still has a shared_ptr to
    ended          \* coroutines whose body has returned

vars == <<running, ready, runningCoros, timed, now, wpc, tmp, reenq, hold,
          tpc, top, spc, added, owned, ended>>

workerVars == <<wpc, tmp, reenq, hold>>
timedVars  == <<tpc, top>>

-----------------------------------------------------------------------------
(* Runtime data *)

Entry     == [coro : Coros, budget : Int]
Deadline  == [coro : Coros, due : Nat]
Idle      == [coro |-> None, budget |-> 0]
NoTop     == [coro |-> None, due |-> 0]
Fresh(c)  == [coro |-> c, budget |-> 0]
Credit(e, time) == [coro |-> e.coro, budget |-> e.budget + time]

Names(s)    == {s[i].coro : i \in 1..Len(s)}
Distinct(s) == \A i, j \in 1..Len(s) : s[i].coro = s[j].coro => i = j
Pending(c)  == c \in Names(ready)
Sleeping(c) == \E e \in timed : e.coro = c
HeldBy(w)   == tmp[w].coro
InTurn      == {w \in Workers : wpc[w] \in {"lock", "exec", "finish"}}

(* A weak_ptr locks while a client or a worker still has a shared_ptr. *)
Alive(c) == c \in owned \/ \E w \in Workers : hold[w] = c


(* dequeue_coroutine has read `running' after a wait, and keeps obj_mutex  *)
(* while it looks at the list again.                                       *)
ObjHeld == \E w \in Workers : wpc[w] = "awake"

(* timed_fn keeps timed_mutex except while it waits on timed_cond. *)
TimedHeld == tpc \in {"loop", "check", "enqueue", "pop"}

Waiting == {w \in Workers : wpc[w] = "waiting"}

(* can_go.notify_one(): the program counters it can lead to from p. *)
NotifyOne(p) ==
    LET parked == {w \in Workers : p[w] = "waiting"}
    IN  IF parked = {} THEN {p}
        ELSE {[p EXCEPT ![w] = "woken"] : w \in parked}


(* timed_cond notifications: the program counter they lead to from p. *)
NotifyTimed(p) == CASE p = "waitEmpty" -> "wokenEmpty"
                    [] p = "waitUntil" -> "wokenUntil"
                    [] OTHER           -> p

-----------------------------------------------------------------------------
Init ==
    /\ running = TRUE
    /\ ready = <<>>
    /\ runningCoros = 0
    /\ timed = {}
    /\ now = 0
    /\ wpc = [w \in Workers |-> "loop"]
    /\ tmp = [w \in Workers |-> Idle]
    /\ reenq = [w \in Workers |-> TRUE]
    /\ hold = [w \in Workers |-> None]
    /\ tpc = "start"
    /\ top = NoTop
    /\ spc = "idle"
    /\ added = {}
    /\ owned = Coros
    /\ ended = {}

-----------------------------------------------------------------------------
(* Clients: web threads, and coroutine bodies that schedule others. *)

(* Fault: only the first coroutine of the list is worth a notification. *)
Enqueue_WhenEmpty(e) ==
    /\ ready' = Append(ready, e)
    /\ wpc' \in IF ready = <<>> THEN NotifyOne(wpc) ELSE {wpc}

(* enqueue_coroutine with reenqueueing = false *)
Enqueue(e) ==
    /\ ready' = Append(ready, e)
    /\ wpc' \in NotifyOne(wpc)

AddCoroutine(c) ==
    /\ c \notin added
    /\ spc # "joined"
    /\ ~ObjHeld
    /\ added' = added \union {c}
    /\ Enqueue(Fresh(c))
    /\ UNCHANGED <<running, runningCoros, timed, now, tmp, reenq, hold,
                   timedVars, spc, owned, ended>>

AddTimedCoroutine(c, d) ==
    /\ c \notin added
    /\ spc # "joined"
    /\ now + d <= MaxTime
    /\ ~TimedHeld
    /\ added' = added \union {c}
    /\ timed' = timed \union {[coro |-> c, due |-> now + d]}
    /\ tpc' = NotifyTimed(tpc)
    /\ UNCHANGED <<running, ready, runningCoros, now, workerVars, top, spc,
                   owned, ended>>

(* A client drops its shared_ptr to the coroutine. *)
DropOwner(c) ==
    /\ c \in added \intersect (owned \ SelfOwned)
    /\ owned' = owned \ {c}
    /\ UNCHANGED <<running, ready, runningCoros, timed, now, workerVars,
                   timedVars, spc, added, ended>>

-----------------------------------------------------------------------------
(* thread_fn *)

Goto(w, l) == wpc' = [wpc EXCEPT ![w] = l]

(* while (this->running) *)
WorkerLoop(w) ==
    /\ wpc[w] = "loop"
    /\ Goto(w, IF running THEN "dequeue" ELSE "done")
    /\ UNCHANGED <<running, ready, runningCoros, timed, now, tmp, reenq, hold,
                   timedVars, spc, added, owned, ended>>

(* Fault: the coroutine taken is not counted. *)
Take_Uncounted(w) ==
    /\ running
    /\ tmp' = [tmp EXCEPT ![w] = Head(ready)]
    /\ ready' = Tail(ready)
    /\ Goto(w, "lock")
    /\ UNCHANGED runningCoros

(* The end of dequeue_coroutine, once the list is known not to be empty *)
Take(w) ==
    IF running
    THEN /\ tmp' = [tmp EXCEPT ![w] = Head(ready)]
         /\ ready' = Tail(ready)
         /\ runningCoros' = runningCoros + 1
         /\ Goto(w, "lock")
    ELSE /\ Goto(w, "loop")
         /\ UNCHANGED <<ready, runningCoros, tmp>>

(* The empty list is waited for without another look at `running'. *)
Dequeue(w) ==
    /\ wpc[w] = "awake" \/ (wpc[w] = "dequeue" /\ ~ObjHeld)
    /\ IF ready = <<>>
       THEN /\ Goto(w, "waiting")
            /\ UNCHANGED <<ready, runningCoros, tmp>>
       ELSE Take(w)
    /\ UNCHANGED <<running, timed, now, reenq, hold, timedVars, spc, added,
                   owned, ended>>

(* can_go.wait returned, with the mutex: `running' is looked at first, and  *)
(* only then the list.                                                     *)
WakeUp(w) ==
    /\ wpc[w] = "woken" /\ ~ObjHeld
    /\ Goto(w, IF running THEN "awake" ELSE "loop")
    /\ UNCHANGED <<running, ready, runningCoros, timed, now, tmp, reenq, hold,
                   timedVars, spc, added, owned, ended>>

(* A condition variable may return from wait without a notification. *)
SpuriousWakeUp(w) ==
    /\ wpc[w] = "waiting"
    /\ Goto(w, "woken")
    /\ UNCHANGED <<running, ready, runningCoros, timed, now, tmp, reenq, hold,
                   timedVars, spc, added, owned, ended>>

(* Fault: what was spent is not credited again. *)
LockCoroutine_NoCredit(w) ==
    /\ wpc[w] = "lock"
    /\ IF Alive(HeldBy(w))
       THEN hold' = [hold EXCEPT ![w] = HeldBy(w)] /\ Goto(w, "exec")
       ELSE Goto(w, "finish") /\ UNCHANGED hold
    /\ UNCHANGED <<tmp, running, ready, runningCoros, timed, now, reenq, timedVars,
                   spc, added, owned, ended>>

(* tmp.coroutine.lock(), and the quantum credited to a live coroutine *)
LockCoroutine(w) ==
    /\ wpc[w] = "lock"
    /\ IF Alive(HeldBy(w))
       THEN /\ hold' = [hold EXCEPT ![w] = HeldBy(w)]
            /\ tmp' = [tmp EXCEPT ![w] = Credit(@, Quantum)]
            /\ Goto(w, "exec")
       ELSE /\ Goto(w, "finish")
            /\ UNCHANGED <<tmp, hold>>
    /\ UNCHANGED <<running, ready, runningCoros, timed, now, reenq, timedVars,
                   spc, added, owned, ended>>

(* One call of execute(): the body runs until it yields or returns; an auto *)
(* coroutine lets go of itself when it returns; nothing is left to run      *)
(* once the body has returned, and execute() says so.                       *)
Execute(w) ==
    LET c == HeldBy(w) IN
    /\ wpc[w] = "exec"
    /\ tmp[w].budget > 0
    /\ \E cost \in 1..MaxCost : tmp' = [tmp EXCEPT ![w] = Credit(@, -cost)]
    /\ reenq' = [reenq EXCEPT ![w] = c \notin ended]
    /\ \/ UNCHANGED <<ended, owned>>
       \/ /\ c \notin ended
          /\ ended' = ended \union {c}
          /\ owned' = IF c \in SelfOwned THEN owned \ {c} ELSE owned
    /\ UNCHANGED <<running, ready, runningCoros, timed, now, wpc, hold,
                   timedVars, spc, added>>


TurnOver(w) == wpc[w] = "exec" /\ tmp[w].budget <= 0

(* Fault: push_front in place of push_back. *)
Reenqueue_Front(w) ==
    /\ TurnOver(w) /\ ~ObjHeld
    /\ reenq[w]
    /\ ready' = <<tmp[w]>> \o ready
    /\ runningCoros' = runningCoros - 1
    /\ tmp' = [tmp EXCEPT ![w] = Idle]
    /\ wpc' \in NotifyOne([wpc EXCEPT ![w] = "release"])
    /\ UNCHANGED <<running, timed, now, reenq, hold, timedVars, spc, added,
                   owned, ended>>

(* enqueue_coroutine with reenqueueing = true *)
Reenqueue(w) ==
    /\ TurnOver(w) /\ ~ObjHeld
    /\ reenq[w]
    /\ ready' = Append(ready, tmp[w])
    /\ runningCoros' = runningCoros - 1
    /\ tmp' = [tmp EXCEPT ![w] = Idle]
    /\ wpc' \in NotifyOne([wpc EXCEPT ![w] = "release"])
    /\ UNCHANGED <<running, timed, now, reenq, hold, timedVars, spc, added,
                   owned, ended>>

(* The coroutine is over, or its owner is gone: it is not put back. *)
Discard(w) ==
    /\ wpc[w] = "finish" \/ (TurnOver(w) /\ ~reenq[w])
    /\ runningCoros' = runningCoros - 1
    /\ tmp' = [tmp EXCEPT ![w] = Idle]
    /\ reenq' = [reenq EXCEPT ![w] = TRUE]
    /\ Goto(w, "release")
    /\ UNCHANGED <<running, ready, timed, now, hold, timedVars, spc, added,
                   owned, ended>>

(* strong_coro goes out of scope. *)
Release(w) ==
    /\ wpc[w] = "release"
    /\ hold' = [hold EXCEPT ![w] = None]
    /\ Goto(w, "loop")
    /\ UNCHANGED <<running, ready, runningCoros, timed, now, tmp, reenq,
                   timedVars, spc, added, owned, ended>>

-----------------------------------------------------------------------------
(* timed_fn *)

TimedUnchanged == UNCHANGED <<running, runningCoros, now, tmp, reenq, hold,
                              spc, added, owned, ended>>

(* The lock is taken (only short critical sections compete for it). *)
TimedStart ==
    /\ tpc = "start"
    /\ tpc' = "loop"
    /\ UNCHANGED <<ready, timed, wpc, top>> /\ TimedUnchanged

(* while (this->running) *)
TimedLoop ==
    /\ tpc = "loop"
    /\ tpc' = IF running THEN "check" ELSE "done"
    /\ UNCHANGED <<ready, timed, wpc, top>> /\ TimedUnchanged

(* The empty heap is waited for without another look at `running'. *)
TimedWaitEmpty ==
    /\ tpc = "check"
    /\ timed = {}
    /\ tpc' = "waitEmpty"
    /\ UNCHANGED <<ready, timed, wpc, top>> /\ TimedUnchanged

(* Fault: CTMComp with the comparison the other way round. *)
TimedCheck_LatestFirst ==
    /\ tpc = "check"
    /\ \E e \in timed :
         /\ \A f \in timed : e.due >= f.due
         /\ top' = e
         /\ tpc' = IF e.due <= now THEN "enqueue" ELSE "waitUntil"
    /\ UNCHANGED <<ready, timed, wpc>> /\ TimedUnchanged

(* timed_coros.top() is any entry with the earliest deadline. *)
TimedCheck ==
    /\ tpc = "check"
    /\ \E e \in timed :
         /\ \A f \in timed : e.due <= f.due
         /\ top' = e
         /\ tpc' = IF e.due <= now THEN "enqueue" ELSE "waitUntil"
    /\ UNCHANGED <<ready, timed, wpc>> /\ TimedUnchanged

(* enqueue_coroutine, called with timed_mutex held, *)
TimedEnqueue ==
    /\ tpc = "enqueue" /\ ~ObjHeld
    /\ Enqueue(Fresh(top.coro))
    /\ tpc' = "pop"
    /\ UNCHANGED <<timed, top>> /\ TimedUnchanged

(* Fault: the due coroutine is left in the heap. *)
TimedPop_Missing ==
    /\ tpc = "pop"
    /\ top' = NoTop
    /\ tpc' = "loop"
    /\ UNCHANGED <<ready, timed, wpc>> /\ TimedUnchanged

(* and only then timed_coros.pop() *)
TimedPop ==
    /\ tpc = "pop"
    /\ timed' = timed \ {top}
    /\ top' = NoTop
    /\ tpc' = "loop"
    /\ UNCHANGED <<ready, wpc>> /\ TimedUnchanged

TimedTimeout ==
    /\ tpc = "waitUntil"
    /\ top.due <= now
    /\ tpc' = "wokenUntil"
    /\ UNCHANGED <<ready, timed, wpc, top>> /\ TimedUnchanged

TimedSpurious ==
    /\ tpc \in {"waitEmpty", "waitUntil"}
    /\ tpc' = NotifyTimed(tpc)
    /\ UNCHANGED <<ready, timed, wpc, top>> /\ TimedUnchanged

(* A wait returned: leave if stopped; else look at the heap again, after *)
(* a timed wait through the test of the outer loop.                      *)
TimedWakeUp ==
    /\ tpc \in {"wokenEmpty", "wokenUntil"}
    /\ tpc' = IF ~running THEN "done"
              ELSE IF tpc = "wokenEmpty" THEN "check" ELSE "loop"
    /\ top' = NoTop
    /\ UNCHANGED <<ready, timed, wpc>> /\ TimedUnchanged

-----------------------------------------------------------------------------
(* stop(), called by the destructor, takes no mutex. *)

StopUnchanged == UNCHANGED <<ready, runningCoros, timed, now, tmp, reenq,
                             hold, top, added, owned, ended>>

StopFlag ==
    /\ spc = "idle"
    /\ running' = FALSE
    /\ spc' = "flagged"
    /\ UNCHANGED <<wpc, tpc>> /\ StopUnchanged

(* Fault: notify_one in place of notify_all. *)
StopNotifyWorkers_One ==
    /\ spc = "flagged"
    /\ wpc' \in NotifyOne(wpc)
    /\ spc' = "notified"
    /\ UNCHANGED <<running, tpc>> /\ StopUnchanged

StopNotifyWorkers ==
    /\ spc = "flagged"
    /\ wpc' = [w \in Workers |-> IF wpc[w] = "waiting" THEN "woken"
                                                       ELSE wpc[w]]
    /\ spc' = "notified"
    /\ UNCHANGED <<running, tpc>> /\ StopUnchanged

StopNotifyTimed ==
    /\ spc = "notified"
    /\ tpc' = NotifyTimed(tpc)
    /\ spc' = "joining"
    /\ UNCHANGED <<running, wpc>> /\ StopUnchanged

Join ==
    /\ spc = "joining"
    /\ \A w \in Workers : wpc[w] = "done"
    /\ tpc = "done"
    /\ spc' = "joined"
    /\ UNCHANGED <<running, wpc, tpc>> /\ StopUnchanged

-----------------------------------------------------------------------------
Tick ==
    /\ now < MaxTime
    /\ now' = now + 1
    /\ UNCHANGED <<running, ready, runningCoros, timed, workerVars, timedVars,
                   spc, added, owned, ended>>

WorkerStep(w) == \/ WorkerLoop(w) \/ Dequeue(w) \/ WakeUp(w)
                 \/ LockCoroutine(w) \/ Execute(w)
                 \/ Reenqueue(w) \/ Discard(w) \/ Release(w)

TimedStep == \/ TimedStart \/ TimedLoop \/ TimedWaitEmpty \/ TimedCheck
             \/ TimedEnqueue \/ TimedPop \/ TimedTimeout \/ TimedWakeUp

StopStep == StopNotifyWorkers \/ StopNotifyTimed \/ Join

Next ==
    \/ \E c \in Coros : AddCoroutine(c) \/ DropOwner(c)
    \/ \E c \in Coros, d \in Delays : AddTimedCoroutine(c, d)
    \/ \E w \in Workers : WorkerStep(w) \/ SpuriousWakeUp(w)
    \/ TimedStep \/ TimedSpurious
    \/ StopFlag \/ StopStep
    \/ Tick

Spec == Init /\ [][Next]_vars

(* Every thread that can run does: the operating system schedules threads, *)
(* a body yields within MaxCost and the clock advances.  The mutexes are   *)
(* held for short sections, and a thread that asks for one gets it though  *)
(* others ask as well, which is why fairness is strong.  Nobody has to     *)
(* add, drop or stop anything, and no spurious wakeup has to come.         *)
FairSpec == /\ Spec
            /\ \A w \in Workers : SF_vars(WorkerStep(w))
            /\ SF_vars(TimedStep)
            /\ WF_vars(StopStep)
            /\ WF_vars(Tick)

-----------------------------------------------------------------------------
WorkerLabels == {"loop", "dequeue", "waiting", "woken", "awake", "lock", "exec",
                 "finish", "release", "done"}
TimedLabels  == {"start", "loop", "check", "enqueue", "pop", "waitEmpty",
                 "waitUntil", "wokenEmpty", "wokenUntil", "done"}
StopLabels   == {"idle", "flagged", "notified", "joining", "joined"}

(* Types of the variables of threadmanager.h and of its threads' locals. *)
TypeOK ==
    /\ running \in BOOLEAN
    /\ ready \in Seq(Entry)
    /\ runningCoros \in Nat
    /\ timed \subseteq Deadline
    /\ now \in Nat
    /\ wpc \in [Workers -> WorkerLabels]
    /\ tmp \in [Workers -> Entry \union {Idle}]
    /\ reenq \in [Workers -> BOOLEAN]
    /\ hold \in [Workers -> Coros \union {None}]
    /\ tpc \in TimedLabels
    /\ top \in Deadline \union {NoTop}
    /\ spc \in StopLabels
    /\ added \subseteq Coros
    /\ owned \subseteq Coros
    /\ ended \subseteq Coros

(* A coroutine is never in two places, so no two workers ever resume it at *)
(* once: it is in the heap, once in the list, or held by one worker.  Only *)
(* while timed_fn is between its enqueue and its pop may the entry on top  *)
(* of the heap already be listed or running as well.                       *)
OnePlace ==
    /\ Distinct(ready)
    /\ \A v, w \in InTurn : HeldBy(v) = HeldBy(w) => v = w
    /\ \A w \in InTurn : ~Pending(HeldBy(w))
    /\ \A e, f \in timed : e.coro = f.coro => e = f
    /\ \A e \in timed : (tpc = "pop" /\ e = top)
                          \/ ~(Pending(e.coro) \/ \E w \in InTurn : HeldBy(w) = e.coro)

(* running_coros, which the two decrements of thread_fn and of             *)
(* enqueue_coroutine keep together, counts the workers that hold one.      *)
RunningCorosExact == runningCoros = Cardinality(InTurn)

(* No worker stays parked on can_go while a listed coroutine has nobody on *)
(* the way to take it, although every enqueue notifies one waiter only and *)
(* a busy worker may take what a woken one was notified for.               *)
WorkConserving ==
    running /\ Waiting # {} =>
        Len(ready) <= Cardinality({w \in Workers :
                          wpc[w] \in {"loop", "dequeue", "woken", "awake", "release"}})

(* The timed thread never lists a coroutine before its deadline, nor out   *)
(* of the order of the deadlines in the heap.                              *)
TimerOrder ==
    [][\A e \in timed : Pending(e.coro)' /\ ~Pending(e.coro) /\ tpc = "enqueue"
          => e.due <= now /\ \A f \in timed : e.due <= f.due]_vars

(* A coroutine that was handed to the manager is resumed again and again,  *)
(* once it is due, whatever its debt, however many others are put back     *)
(* meanwhile and whatever is added to the heap, until it is over or dead   *)
(* and leaves the manager: unless the pool stops.                          *)
Resumed(c) == \E w \in Workers : HeldBy(w) = c /\ wpc[w] = "exec" /\ tmp[w].budget > 0
Absent(c)  == ~Pending(c) /\ ~Sleeping(c) /\ \A w \in Workers : HeldBy(w) # c
CorosServed == \A c \in Coros : []<>(Resumed(c) \/ Absent(c) \/ ~running)

(* stop() returns, unless at the moment it clears `running' some thread    *)
(* has read the flag and not yet looked at its list or heap, at the top of *)
(* its loop or after a wait: parked and busy workers, those that were      *)
(* notified, and the timed thread at any other place, all leave.           *)
InWindow == (\E w \in Workers : wpc[w] \in {"dequeue", "awake"}) \/ tpc = "check"
StopReaches == (spc = "flagged" /\ ~InWindow) ~> (spc = "joined")

(* stop() returns: the destructor joins every thread of the pool.          *)
StopTerminates == (spc = "flagged") ~> (spc = "joined")

-----------------------------------------------------------------------------
(* The coroutines of a list of runtime data *)
Listed(s) == [i \in 1..Len(s) |-> s[i].coro]

(* A coroutine that timed_fn has listed but not yet popped counts as awake. *)
Pool == INSTANCE CoroutinePool WITH
    Capacity <- Cardinality(Workers),
    known    <- added,
    sleeping <- {e.coro : e \in IF tpc = "pop" THEN timed \ {top} ELSE timed},
    waiting  <- Listed(ready),
    serving  <- {HeldBy(w) : w \in InTurn},
    load     <- runningCoros

(* Every step of the threads is a step of the pool, or invisible to it. *)
ImplementsPool == Pool!Spec

=============================================================================
