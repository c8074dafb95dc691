---------------------------- MODULE MCStepSearch ----------------------------
(* StepSearch for TLC: the trees that clients may have built. *)
EXTENDS StepSearch

CONSTANTS a, b

Lonely == [s \in Steps |-> None]
Chain  == [s \in Steps |-> IF s = a THEN Root ELSE IF s = b THEN a ELSE None]

Forests == {Chain, Lonely}

=============================================================================
