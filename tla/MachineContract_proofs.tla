------------------------ MODULE MachineContract_proofs ------------------------
(***************************************************************************)
(* The contract of the core state machine holds for every driver that      *)
(* follows it, however long the operation runs.                            *)
(***************************************************************************)
EXTENDS MachineContract, TLAPS

\* What the three properties need of the states before and after the switch:
\* nothing but the preparation is on disk when the switch begins, and a state
\* that is not in the middle of a switch has the original region in force.
Inv ==
    /\ TypeOK
    /\ MilestoneCoversRegion
    /\ StateHasMilestone
    /\ state \in BeforeRegionStates => durable \in {"none", "Prepared"}
    /\ state = "SwitchingRegion" => durable \in {"Prepared", "RegionSwitched"}
    /\ state \in BeforeRegionStates \cup TerminalStates \cup {"Restored", "RegionRestoredEarly"}
         => region = "original"

USE DEF TypeOK, MilestoneCoversRegion, StateHasMilestone, Inv

\* Reporting an event moves the state along the table with its milestone on
\* disk, or leaves the state and perhaps the milestone behind.
LEMMA ReportMoves ==
  ASSUME NEW e, Report(e)
  PROVE  \/ /\ state' \in States /\ Moves(state, e, state')
            /\ durable' = IF DurableStateForEvent(e) = "none" THEN durable
                          ELSE DurableStateForEvent(e)
         \/ /\ state' = state /\ CanApply(state, e)
            /\ DurableStateForEvent(e) # "none"
            /\ durable' \in {durable, DurableStateForEvent(e)}
BY DEF Report, Applied, Accepted, NotSaved, Advance, CanApply

LEMMA InvHolds == Spec => []Inv
<1>1. Init => Inv
  BY DEF Init, FactsAtRequest, Facts, States, BeforeRegionStates, RecoveryStates,
         TerminalStates
<1>2. Inv /\ [Next]_vars => Inv'
  <2> SUFFICES ASSUME Inv, [Next]_vars PROVE Inv'
    OBVIOUS
  <2> USE DEF States, BeforeRegionStates, RecoveryStates, TerminalStates, DurableStates,
              UncertainEvents, DurableStateForEvent
  <2>1. CASE Prepare
    <3>1. PICK e \in {"BeginResolvingProduct", "ProductResolved", "BeginPreparing",
                 "BeginSavingRecoveryState", "RecoveryStateSaved",
                 "FailBeforeRegionChange", "Cancel"} : Report(e)
      BY <2>1 DEF Prepare
    <3> QED
      BY <2>1, <3>1, ReportMoves DEF Prepare, Moves, StraightMoves, ClassMoves, CanApply
  <2>2. CASE WriteTemporary
    BY <2>2 DEF WriteTemporary
  <2>3. CASE ReadBack
    BY <2>3, ReportMoves DEF ReadBack, Moves, StraightMoves, ClassMoves, CanApply
  <2>4. CASE Resolve
    <3>1. CASE Report("BeginRefreshingStoreContext") /\ UNCHANGED facts
      BY <2>4, <3>1, ReportMoves
      DEF Resolve, Moves, StraightMoves, ClassMoves, CanApply
    <3>2. CASE /\ facts' = [facts EXCEPT !.resolved = TRUE]
               /\ UNCHANGED <<state, durable>>
      BY <2>4, <3>2 DEF Resolve, Facts
    <3> QED
      BY <2>4, <3>1, <3>2 DEF Resolve
  <2>5. CASE StartInstall
    BY <2>5, ReportMoves DEF StartInstall, Moves, StraightMoves, ClassMoves, CanApply
  <2>6. ASSUME NEW observation \in Observations, Observe(observation) PROVE Inv'
    <3>1. facts' \in Facts
      BY <2>6 DEF Observe, Facts, Observations
    <3> QED
      BY <2>6, <3>1, ReportMoves
      DEF Observe, ObservationEvent, Observations, Moves, StraightMoves, ClassMoves, CanApply
  <2>7. CASE Tick
    BY <2>7 DEF Tick, Facts
  <2>8. CASE WriteOriginal
    BY <2>8 DEF WriteOriginal
  <2>9. CASE RestoreEarly
    <3>1. facts' \in Facts
      BY <2>9 DEF RestoreEarly, Facts
    <3>2. Report("EarlyRegionRestoreConfirmed")
      BY <2>9 DEF RestoreEarly, Report
    <3> QED
      BY <2>9, <3>1, <3>2, ReportMoves
      DEF RestoreEarly, Moves, StraightMoves, ClassMoves, CanApply
  <2>10. CASE Restore
    BY <2>10, ReportMoves DEF Restore, Moves, StraightMoves, ClassMoves, CanApply
  <2>11. CASE AskUser
    BY <2>11, ReportMoves DEF AskUser, Moves, StraightMoves, ClassMoves, CanApply
  <2>12. CASE Finish
    BY <2>12, ReportMoves DEF Finish, Moves, StraightMoves, ClassMoves, CanApply
  <2>13. CASE Fail
    BY <2>13, ReportMoves DEF Fail, Moves, StraightMoves, ClassMoves, CanApply
  <2>14. CASE UNCHANGED vars
    BY <2>14 DEF vars
  <2> QED
    BY <2>1, <2>2, <2>3, <2>4, <2>5, <2>6, <2>7, <2>8, <2>9, <2>10, <2>11, <2>12,
       <2>13, <2>14 DEF Next
<1> QED
  BY <1>1, <1>2, PTL DEF Spec

\* A crash at any step of a driven operation finds on disk that the original
\* region is owed, if it is (machine.rs apply and durable_state_for_event).
THEOREM MilestonesCover == Spec => []MilestoneCoversRegion
<1>1. Inv => MilestoneCoversRegion
  OBVIOUS
<1> QED
  BY <1>1, InvHolds, PTL

\* No end of a driven operation leaves the temporary region in force
\* (machine.rs requires_recovery and next_state).
THEOREM EndsOweNothing == Spec => []EndOwesNothing
<1>1. Inv => EndOwesNothing
  BY DEF EndOwesNothing
<1> QED
  BY <1>1, InvHolds, PTL

\* The state of the machine never runs ahead of the disk (machine.rs apply).
THEOREM StatesHaveMilestones == Spec => []StateHasMilestone
<1>1. Inv => StateHasMilestone
  OBVIOUS
<1> QED
  BY <1>1, InvHolds, PTL
===============================================================================
