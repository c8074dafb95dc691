------------------------------- MODULE MCWeb --------------------------------
(* The browser's tree and the requests to the server for TLC, side by side: *)
(* a behaviour is one of the one or of the other.                           *)
EXTENDS ClientTree, WebRequests, TLC

VARIABLE part

Shape(links) == [n \in Nodes |-> IF n \in DOMAIN links THEN links[n] ELSE None]

TwoNodes == {Shape([n \in 1..2 |-> 0]), Shape([n \in 1..2 |-> n - 1])}

Alike == Permutations(Conns)

Init == part \in {"tree", "requests"} /\ TreeInit /\ WebInit

Next == \/ part = "tree" /\ TreeNext /\ UNCHANGED <<part, webVars>>
        \/ part = "requests" /\ WebNext /\ UNCHANGED <<part, treeVars>>

Spec == Init /\ [][Next]_<<part, treeVars, webVars>>

=============================================================================
