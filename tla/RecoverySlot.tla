----------------------------- MODULE RecoverySlot -----------------------------
(***************************************************************************)
(* What the recovery store promises the guard and the next start (the      *)
(* RecoveryStore trait, core/recovery/store.rs): one place that holds      *)
(* nothing, one whole record, or something only a person may touch; it     *)
(* changes at once or not at all.                                          *)
(***************************************************************************)
CONSTANTS Operations, DurableStates, Missing, Unreadable

VARIABLE slot

Records == [operation: Operations, state: DurableStates]

\* A record replaces nothing, or a record of the same operation.
Publish ==
    /\ slot # Unreadable
    /\ slot' \in Records
    /\ slot # Missing => slot'.operation = slot.operation

Clear ==
    /\ slot \in Records
    /\ slot' = Missing

Spoil == slot' = Unreadable

Init == slot \in Records \cup {Missing, Unreadable}

Next == Publish \/ Clear \/ Spoil

Spec == Init /\ [][Next]_slot

=============================================================================
