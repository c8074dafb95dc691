----------------------------- MODULE Checkpoints -----------------------------
(* What a client may expect of checkpoints: a value that changes, and the   *)
(* values it had when checkpoints were set, innermost last.  A rollback     *)
(* gives exactly the last of them back.  An engine that has failed promises *)
(* nothing.                                                                 *)
EXTENDS SequencesExt

CONSTANTS Values, Empty

VARIABLES value, kept, failed

Init == value = Empty /\ kept = <<>> /\ failed = FALSE

Work == value' \in Values /\ UNCHANGED <<kept, failed>>

Checkpoint == kept' = Append(kept, value) /\ UNCHANGED <<value, failed>>

Commit == kept # <<>> /\ kept' = Front(kept) /\ UNCHANGED <<value, failed>>

Rollback == kept # <<>> /\ value' = Last(kept) /\ kept' = Front(kept) /\ UNCHANGED failed

Fail == failed' = TRUE

Next == ~failed /\ (Work \/ Checkpoint \/ Commit \/ Rollback \/ Fail)

Spec == Init /\ [][Next]_<<value, kept, failed>>

=============================================================================
