---------------------------- MODULE MachineContract ----------------------------
(***************************************************************************)
(* One operation driven the way the core crate asks of its caller: the     *)
(* caller asks next_step (core/operation.rs) for one instruction, carries  *)
(* it out, and reports the result to the state machine as an event         *)
(* (core/machine.rs), which makes the milestone of the event durable       *)
(* before it moves.  The application gives the machine a store that saves  *)
(* nothing; this module is the contract of the crate by itself, with the   *)
(* guard of core/recovery/store.rs as its store.                           *)
(***************************************************************************)
EXTENDS OperationMachine

VARIABLES state,    \* the state of the machine
          durable,  \* the milestone on disk, or "none"
          facts,    \* what the caller knows
          region    \* the region in force, by its role in the operation

vars == <<state, durable, facts, region>>

TypeOK ==
    /\ state \in States
    /\ durable \in DurableStates \cup {"none"}
    /\ facts \in Facts
    /\ region \in {"original", "temporary"}

Init ==
    /\ state = "Idle"
    /\ durable = "none"
    /\ facts = FactsAtRequest
    /\ region = "original"

-------------------------------------------------------------------------------
\* An accepted event moves the state once its milestone is durable.
Accepted(e) ==
    /\ CanApply(state, e)
    /\ state' = Advance(state, e)
    /\ durable' = IF DurableStateForEvent(e) = "none" THEN durable
                  ELSE DurableStateForEvent(e)

AppliedFirst(e) ==   \* mutated
    /\ CanApply(state, e)
    /\ state' = Advance(state, e)
    /\ durable' \in {durable} \cup ({DurableStateForEvent(e)} \ {"none"})
Applied(e) == Accepted(e)

\* The milestone cannot be saved, or not be read again: the state stays.
NotSaved(e) ==
    /\ CanApply(state, e)
    /\ DurableStateForEvent(e) # "none"
    /\ durable' \in {durable, DurableStateForEvent(e)}
    /\ UNCHANGED state

Report(e) == Applied(e) \/ NotSaved(e)

Asked == NextStep(state, facts)

\* Up to the publication nothing is owed, and the user can still leave.
Prepare ==
    /\ \E e \in {"BeginResolvingProduct", "ProductResolved", "BeginPreparing",
                 "BeginSavingRecoveryState", "RecoveryStateSaved",
                 "FailBeforeRegionChange", "Cancel"} : Report(e)
    /\ UNCHANGED <<facts, region>>

WriteTemporary ==
    /\ state = "SwitchingRegion"
    /\ region' = "temporary"
    /\ UNCHANGED <<state, durable, facts>>

\* A read-back that names one of the two regions is true; it can also find a
\* third one, whatever the write did.
ReadBack ==
    /\ \/ region = "temporary" /\ Report("SwitchFinishedSwitched")
       \/ region = "original" /\ Report("SwitchFinishedPreserved")
       \/ Report("SwitchFinishedConflict")
    /\ UNCHANGED <<facts, region>>

Resolve ==
    /\ \/ Report("BeginRefreshingStoreContext") /\ UNCHANGED facts
       \/ /\ Asked = "ResolveUnderTemporaryRegion"
          /\ facts' = [facts EXCEPT !.resolved = TRUE]
          /\ UNCHANGED <<state, durable>>
    /\ UNCHANGED region

StartInstall ==
    /\ \/ Asked = "StartInstall" /\ Report("BeginInstall")
       \/ Report("InstallRequestAccepted")
       \/ Report("ObservationStarted")
    /\ UNCHANGED <<facts, region>>

Observe(observation) ==
    /\ Report(ObservationEvent(observation))
    /\ facts' = [facts EXCEPT
                   !.lastObservation = observation,
                   !.progressSeen = @ \/ observation = "Installing",
                   !.silent = FALSE]
    /\ UNCHANGED region

\* Time passes between two questions.
Tick ==
    /\ state \in {"InstallRequested", "InstallObserved", "Installing", "RegionRestoredEarly"}
    /\ \/ facts' = [facts EXCEPT !.holdElapsed = TRUE]
       \/ facts' = [facts EXCEPT !.silent = TRUE]
    /\ UNCHANGED <<state, durable, region>>

WriteOriginal ==
    /\ Asked = "RestoreRegionEarly" \/ state = "RestoringRegion"
    /\ region' = "original"
    /\ UNCHANGED <<state, durable, facts>>

\* A restore counts when the read-back agrees and the milestone is durable.
RestoreEarly ==
    /\ Asked = "RestoreRegionEarly"
    /\ region = "original"
    /\ \/ /\ Applied("EarlyRegionRestoreConfirmed")
          /\ facts' = [facts EXCEPT !.restoredEarly = TRUE]
       \/ NotSaved("EarlyRegionRestoreConfirmed") /\ UNCHANGED facts
    /\ UNCHANGED region

Restore ==
    /\ \/ Asked = "RestoreRegion" /\ Report("BeginRestoringRegion")
       \/ region = "original" /\ Report("OriginalRegionRestored")
    /\ UNCHANGED <<facts, region>>

AskUser ==
    /\ \/ Asked = "AskUserAfterTimeout" /\ Report("ObservationTimedOut")
       \/ \E e \in {"ResumeObserver", "RestoreAfterAffirmed", "ForceRestore"} : Report(e)
    /\ UNCHANGED <<facts, region>>

Finish == Asked = "Finish" /\ Report("Complete") /\ UNCHANGED <<facts, region>>

Fail ==
    /\ \E e \in {"CompletionBecameUncertain", "FailWithTemporaryRegion", "RestoreConflict",
                 "RestoreFailed"} : Report(e)
    /\ UNCHANGED <<facts, region>>

Next ==
    \/ Prepare \/ WriteTemporary \/ ReadBack \/ Resolve \/ StartInstall
    \/ \E observation \in Observations : Observe(observation)
    \/ Tick \/ WriteOriginal \/ RestoreEarly \/ Restore \/ AskUser \/ Finish \/ Fail

Spec == Init /\ [][Next]_vars

-------------------------------------------------------------------------------
\* Wherever the process dies, the milestone on disk owes the original region
\* for as long as the temporary one is in force: it was written before the
\* state moved, and no milestone of a return is written before the return
\* (machine.rs apply, durable_state_for_event).
MilestoneCoversRegion ==
    region = "temporary" => durable \notin {"none", "RegionRestoredEarly", "Restored"}

\* No path through the machine, by failure, cancellation, timeout or the
\* user's answer, ends an operation with the temporary region in force: above
\* all not while the first write may be landing (machine.rs
\* requires_recovery and next_state).
EndOwesNothing == state \in TerminalStates => region = "original"

\* The machine is never ahead of the disk: a state that needs recovery has a
\* milestone, and a state that claims the return has the milestone of the
\* return or of a doubt that came after it (machine.rs apply).
StateHasMilestone ==
    /\ state \in RecoveryStates => durable # "none"
    /\ state = "RegionRestoredEarly" =>
         durable \in {"RegionRestoredEarly", "CompletionUncertain"}
    /\ state = "Restored" =>
         durable \in {"Restored", "RegionRestoredEarly", "CompletionUncertain"}

-------------------------------------------------------------------------------
\* "Clear the recovery record and finish" (operation.rs:67), of a module whose
\* caller "receives one instruction, carries it out, and reports the result
\* back as an event" (operation.rs:6): whenever the instruction is to finish,
\* the machine can take the event that finishes.
FinishIsLegal == Asked = "Finish" => CanApply(state, "Complete")
===============================================================================
