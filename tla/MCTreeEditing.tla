---------------------------- MODULE MCTreeEditing ----------------------------
(* StepTree for TLC, in two settings: threads of the HTTP server that edit  *)
(* a tree of three steps together, and a client that waits for its answers  *)
(* and does everything there is to do, beside a worker, from a new workset. *)
EXTENDS StepTree, TLC

VARIABLE client  \* the thread that serves the only client, or None

Link(pairs) == [s \in Ids |-> IF s \in DOMAIN pairs THEN pairs[s] ELSE None]

Chain == {Link(1 :> 0 @@ 2 :> 1)}
Fork  == {Link(1 :> 0 @@ 2 :> 0)}
Alone == {[s \in Ids |-> None]}
Trio  == Chain \union Fork \union Alone

Symmetry == Permutations(Http) \union Permutations(Pool)

(* The other thread is then the worker. *)
OneClient(c) == INSTANCE StepTree WITH
    Created <- 1, Http <- {c}, Pool <- Http \ {c}, Trees <- Alone, MaxPending <- 2,
    Ops <- {"get", "dump", "create", "create_from_dump", "set_sentence", "orphan", "reparent", "destroy", "prove",
            "set_antidists"}

Together == Init /\ ~patient /\ client = None /\ [][Next /\ UNCHANGED <<client, patient>>]_<<client, vars>>

MCInit == \/ client = None /\ Init /\ ~patient
          \/ \E c \in Http : client = c /\ OneClient(c)!Init /\ patient

MCNext == /\ \/ client = None /\ Next
             \/ \E c \in Http : client = c /\ OneClient(c)!Next
          /\ UNCHANGED <<client, patient>>

MCSpec == MCInit /\ [][MCNext]_<<client, vars>>

=============================================================================
