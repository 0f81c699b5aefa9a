--------------------------- MODULE OperationMachine ---------------------------
(***************************************************************************)
(* The state machine of one guarded installation (core/machine.rs) and the *)
(* decision which single step comes next (core/operation.rs), as operators *)
(* without state.  The modules that run an operation keep the current      *)
(* state in a variable of theirs and move it with Advance.                 *)
(***************************************************************************)

\* States after which nothing more happens.
TerminalStates == {"Completed", "FailedBeforeRegionChange", "Cancelled"}

\* States in which the recovery record must stay available.  SwitchingRegion
\* is one of them because the record is published before the writer runs.
RecoveryStates ==
    {"SwitchingRegion", "RegionSwitched", "RefreshingStoreContext",
     "StartingInstall", "InstallRequested", "InstallObserved", "Installing",
     "RegionRestoredEarly", "CompletionUncertain", "Installed",
     "RestoringRegion", "Restored", "FailedWithTemporaryRegion",
     "RestoreConflict", "RestoreFailed"}

States ==
    TerminalStates \cup RecoveryStates \cup
    {"Idle", "ResolvingProduct", "ProductResolved", "Preparing",
     "SavingRecoveryState"}

\* What the backend can be observed to report.
Observations == {"Installing", "Completed", "CompletionUncertain"}

\* The events; an event that carries a value is one name per value.
Events ==
    {"BeginResolvingProduct", "ProductResolved", "BeginPreparing",
     "BeginSavingRecoveryState", "RecoveryStateSaved",
     "SwitchFinishedSwitched", "SwitchFinishedPreserved",
     "SwitchFinishedConflict", "BeginRefreshingStoreContext", "BeginInstall",
     "InstallRequestAccepted", "ObservationStarted", "ObservedInstalling",
     "ObservedCompleted", "ObservedUncertain", "ObservationTimedOut",
     "EarlyRegionRestoreConfirmed", "CompletionBecameUncertain",
     "ResumeObserver", "RestoreAfterAffirmed", "ForceRestore",
     "BeginRestoringRegion", "OriginalRegionRestored", "Complete",
     "FailBeforeRegionChange", "FailWithTemporaryRegion", "RestoreConflict",
     "RestoreFailed", "Cancel"}

ObservationEvent(observation) ==
    CASE observation = "Installing" -> "ObservedInstalling"
      [] observation = "Completed"  -> "ObservedCompleted"
      [] OTHER                      -> "ObservedUncertain"

\* The straight part of the table: one event, one state, one successor.
StraightMoves ==
    { <<"Idle", "BeginResolvingProduct", "ResolvingProduct">>,
      <<"ResolvingProduct", "ProductResolved", "ProductResolved">>,
      <<"ProductResolved", "BeginPreparing", "Preparing">>,
      <<"Preparing", "BeginSavingRecoveryState", "SavingRecoveryState">>,
      <<"SavingRecoveryState", "RecoveryStateSaved", "SwitchingRegion">>,
      <<"SwitchingRegion", "SwitchFinishedSwitched", "RegionSwitched">>,
      <<"SwitchingRegion", "SwitchFinishedPreserved", "FailedBeforeRegionChange">>,
      <<"SwitchingRegion", "SwitchFinishedConflict", "RestoreConflict">>,
      <<"RegionSwitched", "BeginRefreshingStoreContext", "RefreshingStoreContext">>,
      <<"RefreshingStoreContext", "BeginInstall", "StartingInstall">>,
      <<"StartingInstall", "InstallRequestAccepted", "InstallRequested">>,
      <<"InstallRequested", "ObservationStarted", "InstallObserved">>,
      <<"CompletionUncertain", "ResumeObserver", "InstallObserved">>,
      <<"InstallObserved", "ObservedInstalling", "Installing">>,
      <<"Installing", "ObservedInstalling", "Installing">>,
      <<"Installing", "EarlyRegionRestoreConfirmed", "RegionRestoredEarly">>,
      <<"RegionRestoredEarly", "ObservedInstalling", "RegionRestoredEarly">>,
      <<"RegionRestoredEarly", "ObservedCompleted", "Restored">>,
      <<"InstallObserved", "ObservedCompleted", "Installed">>,
      <<"Installing", "ObservedCompleted", "Installed">>,
      <<"CompletionUncertain", "RestoreAfterAffirmed", "RestoringRegion">>,
      <<"CompletionUncertain", "ForceRestore", "RestoringRegion">>,
      <<"Installed", "BeginRestoringRegion", "RestoringRegion">>,
      <<"FailedWithTemporaryRegion", "BeginRestoringRegion", "RestoringRegion">>,
      <<"RestoringRegion", "OriginalRegionRestored", "Restored">>,
      <<"RestoringRegion", "RestoreFailed", "RestoreFailed">>,
      <<"Restored", "Complete", "Completed">> }

\* The guarded part of the table: an event accepted from a whole class of
\* states.
UncertainEvents ==
    {"ObservedUncertain", "CompletionBecameUncertain", "ObservationTimedOut"}

StatesBeforeSwitched ==   \* mutated
    (States \ (RecoveryStates \cup TerminalStates)) \cup {"SwitchingRegion"}
BeforeRegionStates == States \ (RecoveryStates \cup TerminalStates)

ClassMoves(s, e, t) ==
    \/ /\ s \in {"InstallRequested", "InstallObserved", "Installing", "RegionRestoredEarly"}
       /\ e \in UncertainEvents
       /\ t = "CompletionUncertain"
    \/ s \in BeforeRegionStates /\ e = "FailBeforeRegionChange" /\ t = "FailedBeforeRegionChange"
    \/ s \in BeforeRegionStates /\ e = "Cancel" /\ t = "Cancelled"
    \/ s \in RecoveryStates /\ e = "FailWithTemporaryRegion" /\ t = "FailedWithTemporaryRegion"
    \/ s \in RecoveryStates /\ e = "RestoreConflict" /\ t = "RestoreConflict"

Moves(s, e, t) == <<s, e, t>> \in StraightMoves \/ ClassMoves(s, e, t)

CanApply(s, e) == \E t \in States : Moves(s, e, t)

\* A refused event leaves the state where it was.
Advance(s, e) == IF CanApply(s, e) THEN CHOOSE t \in States : Moves(s, e, t) ELSE s

-------------------------------------------------------------------------------
\* The recovery milestones, in the order in which an operation can write them.
DurableStates ==
    {"Prepared", "RegionSwitched", "InstallRequested", "CompletionUncertain",
     "RegionRestoredEarly", "RestoringRegion", "Restored"}

\* The milestone an event asks to be durable before the state moves, or
\* "none".
MilestoneForgotten(e) ==   \* mutated
    CASE e = "RecoveryStateSaved"     -> "Prepared"
      [] e = "OriginalRegionRestored" -> "Restored"
      [] e = "InstallRequestAccepted" -> "InstallRequested"
      [] OTHER                        -> "none"
DurableStateForEvent(e) ==
    CASE e = "RecoveryStateSaved"          -> "Prepared"
      [] e = "SwitchFinishedSwitched"      -> "RegionSwitched"
      [] e = "InstallRequestAccepted"      -> "InstallRequested"
      [] e = "EarlyRegionRestoreConfirmed" -> "RegionRestoredEarly"
      [] e \in UncertainEvents             -> "CompletionUncertain"
      [] e \in {"BeginRestoringRegion", "RestoreAfterAffirmed", "ForceRestore"}
                                           -> "RestoringRegion"
      [] e = "OriginalRegionRestored"      -> "Restored"
      [] OTHER                             -> "none"

-------------------------------------------------------------------------------
\* What the caller knows when it asks for the next step.  The clock readings
\* are kept as the two questions the policy asks of them: whether the hold of
\* the temporary region has elapsed since the request, and whether the
\* backend has been silent for longer than the quiet threshold.  The overall
\* deadline is disabled in the policy the application uses.
Facts ==
    [lastObservation : Observations \cup {"none"},
     progressSeen    : BOOLEAN,
     holdElapsed     : BOOLEAN,
     silent          : BOOLEAN,
     restoredEarly   : BOOLEAN,
     resolved        : BOOLEAN]

FactsAtRequest ==
    [lastObservation |-> "none", progressSeen |-> FALSE, holdElapsed |-> FALSE,
     silent |-> FALSE, restoredEarly |-> FALSE, resolved |-> FALSE]

AdmitsEarlyRestore(facts) == facts.progressSeen /\ facts.holdElapsed

Steps ==
    {"ResolveUnderTemporaryRegion", "StartInstall", "KeepObserving",
     "RestoreRegionEarly", "RestoreRegion", "AskUserAfterTimeout", "Finish",
     "Wait"}

\* An outcome needs a restore only while the temporary region is in force.
StepForOutcome(facts) == IF facts.restoredEarly THEN "Finish" ELSE "RestoreRegion"

ObservingStep(facts) ==
    CASE facts.lastObservation = "Completed" -> StepForOutcome(facts)
      [] facts.lastObservation # "Completed" /\ facts.silent -> "AskUserAfterTimeout"
      [] /\ facts.lastObservation # "Completed"
         /\ ~facts.silent
         /\ ~facts.restoredEarly
         /\ AdmitsEarlyRestore(facts) -> "RestoreRegionEarly"
      [] OTHER -> "KeepObserving"

NextStep(state, facts) ==
    CASE state = "RefreshingStoreContext" ->
            IF facts.resolved THEN "StartInstall" ELSE "ResolveUnderTemporaryRegion"
      [] state \in {"InstallRequested", "InstallObserved", "Installing"} -> ObservingStep(facts)
      [] state = "RegionRestoredEarly" ->
            IF facts.silent THEN "AskUserAfterTimeout" ELSE "KeepObserving"
      [] state = "CompletionUncertain" -> "AskUserAfterTimeout"
      [] state \in {"Installed", "FailedWithTemporaryRegion"} -> StepForOutcome(facts)
      [] state = "Restored" -> "Finish"
      [] OTHER -> "Wait"
===============================================================================
