--------------------------- MODULE CoroutinePool ---------------------------
(***************************************************************************)
(* What CoroutineThreadManager promises its clients, without threads,      *)
(* mutexes, condition variables or budgets: a coroutine is submitted once, *)
(* now or for later; waiting coroutines are served in the order in which   *)
(* they came to wait; at most Capacity of them are served at a time; one   *)
(* that yields waits again behind all others; one that is over leaves.     *)
(***************************************************************************)
EXTENDS Naturals, Sequences

CONSTANTS Coros, Capacity

VARIABLES
    known,      \* submitted so far
    sleeping,   \* submitted for later
    waiting,    \* waiting to be served, first come first
    serving,    \* being served
    load        \* the number being served, as get_stats reports it

vars == <<known, sleeping, waiting, serving, load>>

Init == known = {} /\ sleeping = {} /\ waiting = <<>> /\ serving = {} /\ load = 0

Submit(c) ==
    /\ c \notin known
    /\ known' = known \union {c}
    /\ waiting' = Append(waiting, c)
    /\ UNCHANGED <<sleeping, serving, load>>

SubmitLater(c) ==
    /\ c \notin known
    /\ known' = known \union {c}
    /\ sleeping' = sleeping \union {c}
    /\ UNCHANGED <<waiting, serving, load>>

Wake(c) ==
    /\ c \in sleeping
    /\ sleeping' = sleeping \ {c}
    /\ waiting' = Append(waiting, c)
    /\ UNCHANGED <<known, serving, load>>

Serve ==
    /\ waiting # <<>>
    /\ load < Capacity
    /\ Head(waiting) \notin serving
    /\ waiting' = Tail(waiting)
    /\ serving' = serving \union {Head(waiting)}
    /\ load' = load + 1
    /\ UNCHANGED <<known, sleeping>>

Yield(c) ==
    /\ c \in serving
    /\ serving' = serving \ {c}
    /\ load' = load - 1
    /\ waiting' = Append(waiting, c)
    /\ UNCHANGED <<known, sleeping>>

Leave(c) ==
    /\ c \in serving
    /\ serving' = serving \ {c}
    /\ load' = load - 1
    /\ UNCHANGED <<known, sleeping, waiting>>

Next == \/ Serve
        \/ \E c \in Coros : \/ Submit(c) \/ SubmitLater(c) \/ Wake(c)
                            \/ Yield(c) \/ Leave(c)

Spec == Init /\ [][Next]_vars

=============================================================================
