------------------------- MODULE GuardedInstall_proofs -------------------------
(***************************************************************************)
(* What a guarded installation promises about the region and its record,   *)
(* proved for any regions, any number of operations, crashes and changes   *)
(* by the user, and any number of restore attempts.                        *)
(***************************************************************************)
EXTENDS GuardedInstall, TLAPS

-------------------------------------------------------------------------------
(* Facts about the state machine.                                          *)

\* An accepted event leads to the successor its table gives.
LEMMA AdvanceMoves ==
  ASSUME NEW s, NEW e, CanApply(s, e)
  PROVE  Advance(s, e) \in States /\ Moves(s, e, Advance(s, e))
BY DEF Advance, CanApply

\* A refused event changes nothing.
LEMMA RefusedStays ==
  ASSUME NEW s, NEW e, ~CanApply(s, e)
  PROVE  Advance(s, e) = s
BY DEF Advance

LEMMA AdvanceType ==
  ASSUME NEW s \in States, NEW e
  PROVE  Advance(s, e) \in States
BY AdvanceMoves, RefusedStays

\* The table gives every state and event at most one successor, so that the
\* choice in Advance is no choice (machine.rs next_state is a function).
THEOREM MovesIsFunction ==
  ASSUME NEW s, NEW e, NEW t, NEW u, Moves(s, e, t), Moves(s, e, u)
  PROVE  t = u
<1>1. CASE <<s, e, t>> \in StraightMoves /\ <<s, e, u>> \in StraightMoves
  BY <1>1 DEF StraightMoves
<1>2. CASE ClassMoves(s, e, t) /\ ClassMoves(s, e, u)
  BY <1>2 DEF ClassMoves, UncertainEvents
<1>3. ASSUME NEW x, NEW y, <<s, e, x>> \in StraightMoves, ClassMoves(s, e, y)
      PROVE  FALSE
  BY <1>3 DEF StraightMoves, ClassMoves, UncertainEvents
<1> QED
  BY <1>1, <1>2, <1>3 DEF Moves

\* Only the two confirmed restores lead into the states that claim the return
\* of the original region.
LEMMA OnlyRestoresReturn ==
  ASSUME NEW s, NEW e, s \notin {"RegionRestoredEarly", "Restored"},
         e \notin {"EarlyRegionRestoreConfirmed", "OriginalRegionRestored"}
  PROVE  Advance(s, e) \notin {"RegionRestoredEarly", "Restored"}
<1>1. CASE CanApply(s, e)
  BY <1>1, AdvanceMoves DEF Moves, StraightMoves, ClassMoves
<1> QED
  BY <1>1, RefusedStays

-------------------------------------------------------------------------------
(* The inductive invariant.                                                *)

\* Where the running code works on a record it holds.
RecoveryWithRecord ==
    {"probing", "uiPublish", "uiWrite", "uiRead", "uiMilestone", "uiClear", "verifying"}
Working == ThreadSteps \cup RecoveryWithRecord

HoldsRecord == pc \in Working => held \in Records

\* The record held is the one on disk, up to its milestone and identity: a
\* publication that failed half-way may have left another of the two behind.
HeldIsOnDisk == pc \in Working \ {"saving"} => record # NoRecord /\ SameIdentity(record, held)

\* A takeover starts from the record as it is.
TakeoverReadsDisk == pc \in {"probing", "following"} => held = record

\* Up to the request the milestone is the one of the preparation.
BeforeRequest == {"saving", "writing", "readBack", "clearPreserved", "resolving",
                  "identifying", "measuring", "starting"}
PreparedOnly ==
    /\ pc \in BeforeRequest => held.state = "Prepared"
    /\ pc = "writing" => record.state = "Prepared"

\* An operation that knows of its early restore has nothing left to do but to
\* observe, to decide and to clear its record, and the machine claims the
\* return only of an operation that knows of it.
Returned == {"RegionRestoredEarly", "Restored"}
ReturnIsKnown ==
    /\ facts.restoredEarly => pc \in {"observing", "deciding", "clearing"}
    /\ machine \in Returned => facts.restoredEarly \/ pc = "clearing"

\* Past a read-back of the original region nothing is owed.
NothingOwedPastReadBack ==
    /\ pc \in {"clearPreserved", "milestone", "clearing", "uiMilestone", "uiClear"}
         => owed = NoRegion
    /\ facts.restoredEarly => owed = NoRegion

\* The invariant comes in layers, each inductive under those before it.
TypeInv == TypeOK /\ HoldsRecord
DiskInv == HeldIsOnDisk /\ TakeoverReadsDisk /\ PreparedOnly /\ QuestionHasRecord
DebtInv == TemporaryRegionIsRecorded /\ RestoredClaimIsTrue /\ NothingOwedPastReadBack

-------------------------------------------------------------------------------
(* Type correctness.  The invariant is cut along the frames the actions    *)
(* share, so that each frame is treated once.                              *)

RegionType  == region \in Regions /\ owed \in Regions \cup {NoRegion}
RecordType  == record \in Records \cup {NoRecord}
HistoryType == written \in BOOLEAN /\ journal \in Entries \cup {NoEntry}
KnowsType   == held \in Records \cup {NoRecord} /\ facts \in Facts /\ HoldsRecord
ControlType ==
    /\ pc \in ThreadSteps \cup RecoverySteps \cup Rest
    /\ purpose \in Purposes /\ attempt \in 0 .. RestoreAttempts - 1
    /\ expected \in BOOLEAN /\ baseline \in {"unknown", "without", "with"}
    /\ resumed \in BOOLEAN
AroundType ==
    /\ install \in {"none", "running", "finished", "failed"} /\ present \in BOOLEAN
    /\ found \in BOOLEAN /\ admits \in BOOLEAN /\ authorised \in Regions \cup {NoRegion}
    /\ already \in SUBSET Ops
    /\ ops \in 0 .. MaxOperations /\ crashes \in 0 .. MaxCrashes /\ moves \in 0 .. MaxMoves
MachineType == machine \in States /\ refused \in BOOLEAN

LEMMA TypeParts ==
  TypeInv <=> /\ RegionType /\ RecordType /\ HistoryType /\ KnowsType
              /\ ControlType /\ AroundType /\ MachineType /\ touched \in BOOLEAN
BY DEF TypeInv, TypeOK, RegionType, RecordType, HistoryType, KnowsType, ControlType,
       AroundType, MachineType

LEMMA TypePartsNext ==
  ASSUME RegionType', RecordType', HistoryType', KnowsType', ControlType', AroundType',
         MachineType', touched' \in BOOLEAN
  PROVE  TypeInv'
BY DEF TypeInv, TypeOK, RegionType, RecordType, HistoryType, KnowsType, ControlType,
       AroundType, MachineType

USE RegionAssumption, RecordAssumption, BoundAssumption, AttemptsAssumption

LEMMA FactsAtRequestType == FactsAtRequest \in Facts
BY DEF FactsAtRequest, Facts

LEMMA AfterType ==
  ASSUME NEW s \in States, NEW e
  PROVE  s ++ e \in States
BY AdvanceType DEF ++

LEMMA OpenedType == Opened \in States
<1>1. "Idle" \in States
  BY DEF States
<1> DEFINE resolving == "Idle" ++ "BeginResolvingProduct"
           resolved  == resolving ++ "ProductResolved"
           preparing == resolved ++ "BeginPreparing"
<1>2. resolving \in States
  BY <1>1, AfterType
<1>3. resolved \in States
  BY <1>2, AfterType
<1>4. preparing \in States
  BY <1>3, AfterType
<1> QED
  BY <1>4, AfterType DEF Opened

LEMMA ReplayedType == Replayed \in States /\ ReplayedEarly \in States
BY OpenedType, AfterType DEF Replayed, ReplayedEarly

\* The thread works on a record.
LEMMA ThreadHolds ==
  ASSUME TypeInv, pc \in ThreadSteps
  PROVE  /\ held \in Records /\ held.op \in Ops /\ held.state \in DurableStates
         /\ held.original \in Regions /\ held.temporary \in Regions
BY DEF TypeInv, HoldsRecord, Working, Records

LEMMA RegionKeptType == ASSUME TypeInv, RegionKept PROVE RegionType'
BY DEF TypeInv, TypeOK, RegionKept, RegionType

LEMMA AroundKeptType == ASSUME TypeInv, AroundKept PROVE AroundType'
BY DEF TypeInv, TypeOK, AroundKept, world, answers, bounds, AroundType

LEMMA RecordKeptType == ASSUME TypeInv, UNCHANGED record PROVE RecordType'
BY DEF TypeInv, TypeOK, RecordType

LEMMA PublishedType ==
  ASSUME TypeInv, NEW r \in Records, Published(r) \/ NotPublished(r)
  PROVE  RecordType'
BY DEF TypeInv, TypeOK, Published, NotPublished, RecordType

LEMMA ClearedType ==
  ASSUME TypeInv, NEW r, Cleared(r) \/ NotCleared
  PROVE  RecordType'
BY DEF TypeInv, TypeOK, Cleared, NotCleared, RecordType

LEMMA AcceptsType == ASSUME TypeInv, NEW e, Accepts(e) PROVE refused' \in BOOLEAN
BY DEF TypeInv, TypeOK, Accepts

LEMMA Raise1Type == ASSUME TypeInv, NEW e, Raise1(e) PROVE MachineType'
BY AfterType, AcceptsType DEF TypeInv, TypeOK, Raise1, MachineType

LEMMA Raise2Type == ASSUME TypeInv, NEW e1, NEW e2, Raise2(e1, e2) PROVE MachineType'
BY AfterType DEF TypeInv, TypeOK, Raise2, MachineType

LEMMA MachineKeptType == ASSUME TypeInv, MachineKept PROVE MachineType'
BY DEF TypeInv, TypeOK, MachineKept, MachineType

LEMMA SilentType == ASSUME TypeInv, Silent PROVE HistoryType'
BY DEF TypeInv, TypeOK, Silent, HistoryType

LEMMA TellType ==
  ASSUME TypeInv, pc \in ThreadSteps, NEW result \in Results, Tell(result)
  PROVE  HistoryType'
<1>1. held.op \in Ops
  BY ThreadHolds
<1>2. held.op \in 0 .. MaxOperations /\ 0 \in 0 .. MaxOperations
  BY <1>1 DEF Ops
<1>3. [id |-> IF resumed THEN 0 ELSE held.op, about |-> held.op, result |-> result] \in Entries
  BY <1>1, <1>2 DEF Entries
<1>4. journal' \in Entries \cup {NoEntry}
  BY <1>3 DEF Tell, TypeInv, TypeOK
<1> QED
  BY <1>4 DEF Tell, TypeInv, TypeOK, HistoryType

LEMMA GotoType ==
  ASSUME TypeInv, NEW step \in ThreadSteps \cup Rest, Goto(step)
  PROVE  ControlType' /\ pc' = step
BY DEF TypeInv, TypeOK, Goto, EvidenceKept, ControlType

LEMMA RestoreType ==
  ASSUME TypeInv, NEW why \in Purposes, Restore(why) \/ Clear(why)
  PROVE  ControlType'
<1>1. 0 \in 0 .. RestoreAttempts - 1
  OBVIOUS
<1> QED
  BY <1>1 DEF TypeInv, TypeOK, Restore, Clear, EvidenceKept, ControlType, ThreadSteps

LEMMA FactsKeptType ==
  ASSUME TypeInv, pc \in ThreadSteps, FactsKept
  PROVE  KnowsType' /\ held' \in Records
BY ThreadHolds DEF TypeInv, TypeOK, FactsKept, KnowsType, HoldsRecord

LEMMA StopType ==
  ASSUME TypeInv, NEW step \in Rest, Stop(step)
  PROVE  ControlType' /\ KnowsType' /\ machine' \in States
<1>1. 0 \in 0 .. RestoreAttempts - 1
  OBVIOUS
<1>2. "Idle" \in States
  BY DEF States
<1>3. ControlType'
  BY <1>1 DEF Stop, Dropped, ControlType, Purposes
<1>4. KnowsType'
  BY FactsAtRequestType
  DEF Stop, Dropped, KnowsType, HoldsRecord, Working, ThreadSteps, RecoveryWithRecord, Rest
<1> QED
  BY <1>2, <1>3, <1>4 DEF Stop, Dropped

LEMMA FailUnderTemporaryType ==
  ASSUME TypeInv, pc \in ThreadSteps, FailUnderTemporary
  PROVE  MachineType' /\ ControlType' /\ HistoryType' /\ KnowsType'
BY Raise1Type, RestoreType, TellType, FactsKeptType
DEF FailUnderTemporary, Purposes, Results

LEMMA GiveUpType ==
  ASSUME TypeInv, pc \in ThreadSteps, GiveUp
  PROVE  MachineType' /\ ControlType' /\ HistoryType' /\ KnowsType'
<1>1. CASE purpose = "early" /\ Goto("observing") /\ MachineKept /\ Silent /\ FactsKept
  BY <1>1, GotoType, MachineKeptType, SilentType, FactsKeptType DEF ThreadSteps
<1>2. CASE /\ Accepts("RestoreFailed") /\ Stop("idle")
           /\ Tell(IF purpose = "rollback" THEN "Failed" ELSE "RecoveryRequired")
  BY <1>2, AcceptsType, StopType, TellType DEF Rest, Results, MachineType
<1>3. CASE Stop("idle") /\ Silent /\ UNCHANGED refused
  BY <1>3, StopType, SilentType DEF Rest, MachineType, TypeInv, TypeOK
<1> QED
  BY <1>1, <1>2, <1>3 DEF GiveUp

LEMMA MissedAttemptType ==
  ASSUME TypeInv, pc \in ThreadSteps, MissedAttempt
  PROVE  MachineType' /\ ControlType' /\ HistoryType' /\ KnowsType'
<1>1. CASE AttemptsLeft /\ TryAgain
  <2>1. MachineType' /\ HistoryType' /\ KnowsType'
    BY <1>1, MachineKeptType, SilentType, FactsKeptType DEF TryAgain
  <2>2. attempt' \in 0 .. RestoreAttempts - 1
    BY <1>1 DEF AttemptsLeft, TryAgain, TypeInv, TypeOK
  <2> QED
    BY <1>1, <2>1, <2>2 DEF TryAgain, EvidenceKept, ControlType, TypeInv, TypeOK, ThreadSteps
<1> QED
  BY <1>1, GiveUpType DEF MissedAttempt

\* One action of the operation thread at a time.
LEMMA ThreadType == ASSUME TypeInv, ThreadStep PROVE TypeInv'
<1> USE TypePartsNext
<1>1. CASE SavePrepared
  <2>1. pc \in ThreadSteps /\ held \in Records
    BY <1>1, ThreadHolds DEF SavePrepared, ThreadSteps
  <2>2. RegionType' /\ AroundType' /\ touched' \in BOOLEAN
    BY <1>1, RegionKeptType, AroundKeptType DEF SavePrepared
  <2>3. RecordType'
    BY <1>1, <2>1, PublishedType, RecordKeptType DEF SavePrepared
  <2>4. CASE Raise1("RecoveryStateSaved") /\ Goto("writing") /\ Silent /\ FactsKept
    BY <2>1, <2>2, <2>3, <2>4, Raise1Type, GotoType, SilentType, FactsKeptType DEF ThreadSteps
  <2>5. CASE Accepts("RecoveryStateSaved") /\ Stop("idle") /\ Tell("Failed")
    BY <2>1, <2>2, <2>3, <2>5, AcceptsType, StopType, TellType DEF Rest, Results, MachineType
  <2> QED
    BY <1>1, <2>4, <2>5 DEF SavePrepared
<1>2. CASE WriteTemporary
  <2>1. pc \in ThreadSteps
    BY <1>2 DEF WriteTemporary, ThreadSteps
  <2>2. RegionType'
    BY <1>2, <2>1, ThreadHolds, RegionKeptType DEF WriteTemporary, RegionType
  <2> QED
    BY <1>2, <2>1, <2>2, MachineKeptType, FactsKeptType, SilentType, AroundKeptType, GotoType,
       RecordKeptType, TypeParts
    DEF WriteTemporary, ThreadSteps
<1>3. CASE ReadBack
  <2>1. pc \in ThreadSteps
    BY <1>3 DEF ReadBack, ThreadSteps
  <2>2. RegionType' /\ AroundType' /\ RecordType' /\ touched' \in BOOLEAN
    BY <1>3, RegionKeptType, AroundKeptType, RecordKeptType, TypeParts DEF ReadBack
  <2>3. CASE /\ Raise2("FailWithTemporaryRegion", "BeginRestoringRegion")
             /\ Restore("rollback") /\ Silent /\ FactsKept
    BY <2>1, <2>2, <2>3, Raise2Type, RestoreType, SilentType, FactsKeptType DEF Purposes
  <2>4. CASE /\ Raise2("SwitchFinishedSwitched", "BeginRefreshingStoreContext")
             /\ Goto("resolving") /\ Silent /\ FactsKept
    BY <2>1, <2>2, <2>4, Raise2Type, GotoType, SilentType, FactsKeptType DEF ThreadSteps
  <2>5. CASE MachineKept /\ Goto("clearPreserved") /\ Silent /\ FactsKept
    BY <2>1, <2>2, <2>5, MachineKeptType, GotoType, SilentType, FactsKeptType DEF ThreadSteps
  <2>6. CASE Accepts("SwitchFinishedConflict") /\ Stop("idle") /\ Tell("Failed")
    BY <2>1, <2>2, <2>6, AcceptsType, StopType, TellType DEF Rest, Results, MachineType
  <2> QED
    BY <1>3, <2>3, <2>4, <2>5, <2>6 DEF ReadBack
<1>4. CASE ClearPreserved
  <2>1. pc \in ThreadSteps
    BY <1>4 DEF ClearPreserved, ThreadSteps
  <2>2. RecordType' /\ refused' \in BOOLEAN
    BY <1>4, ClearedType, AcceptsType DEF ClearPreserved, TypeInv, TypeOK
  <2> QED
    BY <1>4, <2>1, <2>2, StopType, TellType, RegionKeptType, AroundKeptType, TypeParts
    DEF ClearPreserved, Rest, Results, MachineType
<1>5. CASE Resolve
  <2>1. pc \in ThreadSteps
    BY <1>5 DEF Resolve, ThreadSteps
  <2>2. RegionType' /\ AroundType' /\ RecordType' /\ touched' \in BOOLEAN
    BY <1>5, RegionKeptType, AroundKeptType, RecordKeptType, TypeParts DEF Resolve
  <2>3. CASE FailUnderTemporary
    BY <2>1, <2>2, <2>3, FailUnderTemporaryType
  <2>4. CASE /\ \/ expected' = TRUE /\ pc' = "identifying"
                \/ expected' = FALSE /\ pc' = "measuring"
             /\ MachineKept /\ Silent /\ FactsKept
             /\ UNCHANGED <<purpose, attempt, baseline, resumed>>
    <3>1. ControlType'
      BY <2>4 DEF ControlType, TypeInv, TypeOK, ThreadSteps
    <3> QED
      BY <2>1, <2>2, <2>4, <3>1, MachineKeptType, SilentType, FactsKeptType
  <2> QED
    BY <1>5, <2>3, <2>4 DEF Resolve
<1>6. CASE RecordIdentity
  <2>1. pc \in ThreadSteps /\ held \in Records
    BY <1>6, ThreadHolds DEF RecordIdentity, ThreadSteps
  <2> DEFINE identified == [held EXCEPT !.family = TRUE]
  <2>2. identified \in Records
    BY <2>1 DEF Records
  <2>3. RecordType' /\ held' \in Records /\ facts' \in Facts
    BY <1>6, <2>1, <2>2, PublishedType DEF RecordIdentity, TypeInv, TypeOK
  <2>4. KnowsType'
    BY <2>3 DEF KnowsType, HoldsRecord
  <2> QED
    BY <1>6, <2>1, <2>3, <2>4, GotoType, MachineKeptType, SilentType, RegionKeptType,
       AroundKeptType, TypeParts
    DEF RecordIdentity, ThreadSteps
<1>7. CASE TakeBaseline
  <2>1. pc \in ThreadSteps
    BY <1>7 DEF TakeBaseline, ThreadSteps
  <2>2. RegionType' /\ AroundType' /\ RecordType' /\ touched' \in BOOLEAN
    BY <1>7, RegionKeptType, AroundKeptType, RecordKeptType, TypeParts DEF TakeBaseline
  <2>3. CASE FailUnderTemporary
    BY <2>1, <2>2, <2>3, FailUnderTemporaryType
  <2>4. ASSUME NEW snapshot \in {"unknown", IF present THEN "with" ELSE "without"},
               /\ baseline' = snapshot
               /\ facts' = [facts EXCEPT !.resolved = TRUE]
               /\ pc' = "starting" /\ MachineKept /\ Silent
               /\ UNCHANGED <<held, purpose, attempt, expected, resumed>>
        PROVE  TypeInv'
    <3>1. ControlType'
      BY <2>4 DEF ControlType, TypeInv, TypeOK, ThreadSteps
    <3>2. KnowsType'
      BY <2>1, <2>4, ThreadHolds DEF KnowsType, HoldsRecord, TypeInv, TypeOK, Facts
    <3> QED
      BY <2>2, <2>4, <3>1, <3>2, MachineKeptType, SilentType
  <2> QED
    BY <1>7, <2>3, <2>4 DEF TakeBaseline
<1>8. CASE StartInstall
  <2>1. pc \in ThreadSteps /\ held.op \in Ops
    BY <1>8, ThreadHolds DEF StartInstall, ThreadSteps
  <2>2. RegionType' /\ RecordType' /\ KnowsType' /\ touched' \in BOOLEAN
    BY <1>8, <2>1, RegionKeptType, RecordKeptType, FactsKeptType, TypeParts DEF StartInstall
  <2>3. AroundType'
    <3>1. install' \in {"none", "running", "finished", "failed"} /\ already' \in SUBSET Ops
      BY <1>8, <2>1 DEF StartInstall, Requested, TypeInv, TypeOK
    <3> QED
      BY <1>8, <3>1 DEF StartInstall, AroundType, TypeInv, TypeOK, answers, bounds
  <2>4. CASE /\ machine' = machine ++ "BeginInstall" ++ "InstallRequestAccepted"
                                   ++ "ObservationStarted"
             /\ refused' = (refused \/ machine' # "InstallObserved")
             /\ Goto("observing") /\ Silent
    <3>1. machine' \in States
      BY <2>4, AfterType, TypeParts DEF MachineType
    <3>2. MachineType'
      BY <2>4, <3>1, TypeParts DEF MachineType
    <3> QED
      BY <2>2, <2>3, <2>4, <3>2, GotoType, SilentType DEF ThreadSteps
  <2>5. CASE Raise1("BeginInstall") /\ Restore("unwind") /\ Tell("Failed")
    BY <2>1, <2>2, <2>3, <2>5, Raise1Type, RestoreType, TellType DEF Purposes, Results
  <2> QED
    BY <1>8, <2>4, <2>5 DEF StartInstall
<1>9. CASE Observe
  <2>1. pc \in ThreadSteps
    BY <1>9 DEF Observe, ThreadSteps
  <2>2. RegionType' /\ AroundType' /\ RecordType' /\ touched' \in BOOLEAN
    BY <1>9, RegionKeptType, AroundKeptType, RecordKeptType, TypeParts DEF Observe
  <2>3. ASSUME NEW observation \in Observations, RecordObservation(observation)
        PROVE  TypeInv'
    <3>1. facts' \in Facts
      BY <2>3 DEF RecordObservation, TypeInv, TypeOK, Facts
    <3>2. KnowsType'
      BY <2>1, <2>3, <3>1, ThreadHolds DEF RecordObservation, KnowsType, HoldsRecord
    <3> QED
      BY <2>2, <2>3, <3>2, Raise1Type, GotoType, SilentType DEF RecordObservation, ThreadSteps
  <2>4. CASE /\ Raise1("FailWithTemporaryRegion")
             /\ StatedFailureEnds /\ Tell("Failed") /\ FactsKept
    BY <2>1, <2>2, <2>4, Raise1Type, RestoreType, TellType, FactsKeptType
    DEF StatedFailureEnds, Purposes, Results
  <2>5. CASE Accepts("CompletionBecameUncertain") /\ Stop("idle") /\ Tell("Failed")
    BY <2>1, <2>2, <2>5, AcceptsType, StopType, TellType DEF Rest, Results, MachineType
  <2> QED
    BY <1>9, <2>3, <2>4, <2>5 DEF Observe, ConfirmedCompletion, Observations
<1>10. CASE Decide
  <2>1. pc \in ThreadSteps
    BY <1>10 DEF Decide, ThreadSteps
  <2>2. RegionType' /\ AroundType' /\ RecordType' /\ touched' \in BOOLEAN
    BY <1>10, RegionKeptType, AroundKeptType, RecordKeptType, TypeParts DEF Decide
  <2>3. CASE MachineKept /\ Goto("observing") /\ Silent /\ FactsKept
    BY <2>1, <2>2, <2>3, MachineKeptType, GotoType, SilentType, FactsKeptType DEF ThreadSteps
  <2>4. CASE MachineKept /\ Restore("early") /\ Silent /\ FactsKept
    BY <2>1, <2>2, <2>4, MachineKeptType, RestoreType, SilentType, FactsKeptType DEF Purposes
  <2>5. CASE Raise1("BeginRestoringRegion") /\ Restore("outcome") /\ Silent /\ FactsKept
    BY <2>1, <2>2, <2>5, Raise1Type, RestoreType, SilentType, FactsKeptType DEF Purposes
  <2>6. CASE Raise1("Complete") /\ Clear("finish") /\ Silent /\ FactsKept
    BY <2>1, <2>2, <2>6, Raise1Type, RestoreType, SilentType, FactsKeptType DEF Purposes
  <2>7. CASE /\ UNCHANGED refused \/ Accepts("ObservationTimedOut")
             /\ Stop(IF facts.restoredEarly THEN "idle" ELSE "asked")
             /\ Tell("CompletionUncertain")
    <3>1. refused' \in BOOLEAN
      BY <2>7, AcceptsType, TypeParts DEF MachineType
    <3> QED
      BY <2>1, <2>2, <2>7, <3>1, StopType, TellType DEF Rest, Results, MachineType
  <2> QED
    BY <1>10, <2>3, <2>4, <2>5, <2>6, <2>7 DEF Decide
<1>11. CASE RestoreWrite
  <2>1. pc \in ThreadSteps
    BY <1>11 DEF RestoreWrite, ThreadSteps
  <2>2. RegionType' /\ AroundType' /\ RecordType' /\ touched' \in BOOLEAN
    BY <1>11, <2>1, ThreadHolds, RegionKeptType, AroundKeptType, RecordKeptType, TypeParts
    DEF RestoreWrite, RegionType
  <2>3. CASE Goto("restoreRead") /\ MachineKept /\ Silent /\ FactsKept
    BY <2>1, <2>2, <2>3, MachineKeptType, GotoType, SilentType, FactsKeptType DEF ThreadSteps
  <2> QED
    BY <1>11, <2>1, <2>2, <2>3, MissedAttemptType DEF RestoreWrite
<1>12. CASE RestoreRead
  <2>1. pc \in ThreadSteps
    BY <1>12 DEF RestoreRead, ThreadSteps
  <2>2. RegionType' /\ AroundType' /\ RecordType' /\ touched' \in BOOLEAN
    BY <1>12, RegionKeptType, AroundKeptType, RecordKeptType, TypeParts DEF RestoreRead
  <2>3. CASE Goto("milestone") /\ MachineKept /\ Silent /\ FactsKept
    BY <2>1, <2>2, <2>3, MachineKeptType, GotoType, SilentType, FactsKeptType DEF ThreadSteps
  <2> QED
    BY <1>12, <2>1, <2>2, <2>3, MissedAttemptType DEF RestoreRead
<1>13. CASE RestoreMilestone
  <2>1. pc \in ThreadSteps /\ held \in Records
    BY <1>13, ThreadHolds DEF RestoreMilestone, ThreadSteps
  <2> DEFINE restored ==
               WithState(held, IF purpose = "early" THEN "RegionRestoredEarly" ELSE "Restored")
  <2>2. restored \in Records
    BY <2>1 DEF WithState, Records, DurableStates
  <2>3. RegionType' /\ AroundType' /\ RecordType' /\ touched' \in BOOLEAN
    BY <1>13, <2>2, PublishedType, RegionKeptType, AroundKeptType, TypeParts
    DEF RestoreMilestone
  <2>4. CASE GiveUp
    BY <2>1, <2>3, <2>4, GiveUpType
  <2>5. ASSUME held' = restored, facts' \in Facts, Silent PROVE KnowsType' /\ HistoryType'
    BY <2>2, <2>5, SilentType DEF KnowsType, HoldsRecord
  <2> HIDE DEF restored
  <2>6. CASE /\ held' = restored /\ Silent
             /\ facts' = [facts EXCEPT !.restoredEarly = TRUE]
             /\ Raise1("EarlyRegionRestoreConfirmed") /\ Goto("observing")
    <3>1. facts' \in Facts
      BY <2>6 DEF TypeInv, TypeOK, Facts
    <3> QED
      BY <2>3, <2>5, <2>6, <3>1, Raise1Type, GotoType DEF ThreadSteps
  <2>7. CASE /\ held' = restored /\ Silent /\ UNCHANGED facts /\ Goto("clearing")
             /\ \/ Raise2("OriginalRegionRestored", "Complete")
                \/ Raise1("OriginalRegionRestored")
                \/ MachineKept
    <3>1. facts' \in Facts
      BY <2>7 DEF TypeInv, TypeOK
    <3> QED
      BY <2>3, <2>5, <2>7, <3>1, Raise1Type, Raise2Type, MachineKeptType, GotoType
      DEF ThreadSteps
  <2> QED
    BY <1>13, <2>4, <2>6, <2>7 DEF RestoreMilestone, restored
<1>14. CASE ClearRecord
  <2>1. pc \in ThreadSteps
    BY <1>14 DEF ClearRecord, ThreadSteps
  <2>2. RegionType' /\ AroundType' /\ RecordType' /\ touched' \in BOOLEAN
    BY <1>14, RegionKeptType, AroundKeptType, ClearedType, TypeParts DEF ClearRecord
  <2>3. HistoryType'
    BY <1>14, <2>1, TellType, SilentType DEF ClearRecord, JournalResult, Results
  <2>4. MachineType' /\ ControlType' /\ KnowsType'
    BY <1>14, StopType, TypeParts DEF ClearRecord, Rest, MachineType
  <2> QED
    BY <2>2, <2>3, <2>4
<1>15. CASE FollowResumed
  <2>1. pc \in ThreadSteps /\ held \in Records
    BY <1>15, ThreadHolds DEF FollowResumed, ThreadSteps
  <2>2. RegionType' /\ AroundType' /\ RecordType'
    BY <1>15, RegionKeptType, AroundKeptType, RecordKeptType DEF FollowResumed
  <2> DEFINE early == held.state = "RegionRestoredEarly"
  <2>3. CASE /\ machine' = IF early THEN ReplayedEarly ELSE Replayed
             /\ refused' =
                  (refused \/ machine' # IF early THEN "RegionRestoredEarly" ELSE "InstallObserved")
             /\ facts' = [FactsAtRequest EXCEPT !.resolved = TRUE, !.restoredEarly = early]
             /\ expected' = held.family /\ baseline' = "without" /\ resumed' = TRUE
             /\ touched' = TRUE /\ written' = FALSE
             /\ pc' = "observing" /\ UNCHANGED <<held, purpose, attempt, journal>>
    <3>1. MachineType'
      BY <2>3, ReplayedType, TypeParts DEF MachineType
    <3>2. KnowsType'
      BY <2>1, <2>3, FactsAtRequestType DEF KnowsType, HoldsRecord, Facts
    <3>3. ControlType'
      BY <2>1, <2>3 DEF ControlType, TypeInv, TypeOK, ThreadSteps, Records
    <3>4. HistoryType' /\ touched' \in BOOLEAN
      BY <2>3 DEF HistoryType, TypeInv, TypeOK
    <3> QED
      BY <2>2, <3>1, <3>2, <3>3, <3>4
  <2>4. CASE /\ Stop(IF early THEN "idle" ELSE "asked")
             /\ UNCHANGED <<refused, touched, written, journal>>
    BY <2>2, <2>4, StopType, TypeParts DEF Rest, MachineType, HistoryType
  <2> QED
    BY <1>15, <2>3, <2>4 DEF FollowResumed
<1> QED
  BY <1>1, <1>2, <1>3, <1>4, <1>5, <1>6, <1>7, <1>8, <1>9, <1>10, <1>11, <1>12, <1>13,
     <1>14, <1>15 DEF ThreadStep

LEMMA InspectsType ==
  ASSUME TypeInv, NEW answer \in Answers, Inspects(answer)
  PROVE  /\ RecordType'
         /\ answer \in {"open", "decide"} => record \in Records
BY DEF Inspects, Answers, TypeInv, TypeOK, RecordType

\* Steps of the window leave an operation's own state alone.
LEMMA WindowType ==
  ASSUME TypeInv, UNCHANGED <<world, thread, already, refused, bounds>>,
         pc' \in RecoverySteps \cup {"following", "idle"},
         found' \in BOOLEAN, admits' \in BOOLEAN, authorised' \in Regions \cup {NoRegion}
  PROVE  /\ MachineType' /\ ControlType' /\ AroundType'
         /\ touched' \in BOOLEAN /\ facts' \in Facts
BY DEF TypeInv, TypeOK, world, thread, bounds, MachineType, ControlType, AroundType,
       ThreadSteps, Rest

LEMMA WindowOnlyType == ASSUME TypeInv, WindowOnly PROVE HistoryType'
BY DEF TypeInv, TypeOK, WindowOnly, HistoryType

LEMMA HeldType ==
  ASSUME facts' \in Facts, held' \in Records \cup {NoRecord},
         pc' \in Working => held' \in Records
  PROVE  KnowsType'
BY DEF KnowsType, HoldsRecord

\* The steps of the recovery dialogue share a frame.
LEMMA RecoveryFrame ==
  ASSUME TypeInv, UNCHANGED <<world, thread, already, refused, bounds, found, admits>>,
         RegionType', RecordType', HistoryType',
         \/ /\ pc' \in RecoverySteps /\ held' \in Records
            /\ authorised' \in Regions \cup {NoRegion}
         \/ UiStops
  PROVE  TypeInv'
<1>1. found' \in BOOLEAN /\ admits' \in BOOLEAN
  BY DEF TypeInv, TypeOK
<1>2. CASE /\ pc' \in RecoverySteps /\ held' \in Records
           /\ authorised' \in Regions \cup {NoRegion}
  BY <1>1, <1>2, WindowType, HeldType, TypePartsNext
<1>3. CASE UiStops
  BY <1>1, <1>3, WindowType, HeldType, TypePartsNext
  DEF UiStops, RecoverySteps, Working, ThreadSteps, RecoveryWithRecord
<1> QED
  BY <1>2, <1>3

\* One action of the recovery dialogue at a time.
LEMMA RecoveryType == ASSUME TypeInv, RecoveryStep PROVE TypeInv'
<1> USE TypePartsNext
<1>0. ASSUME NEW r \in Records, NEW s \in DurableStates PROVE WithState(r, s) \in Records
  BY <1>0 DEF WithState, Records
<1>1. CASE Probe
  <2>1. held \in Records
    BY <1>1 DEF Probe, TypeInv, HoldsRecord, Working, RecoveryWithRecord
  <2>2. /\ found' \in BOOLEAN /\ admits' \in BOOLEAN /\ authorised' \in Regions \cup {NoRegion}
        /\ pc' \in {"following", "settling"}
        /\ held' \in Records \cup {NoRecord} /\ (pc' = "following" => held' \in Records)
    BY <1>1, <2>1 DEF Probe, TypeInv, TypeOK, Records
  <2>3. MachineType' /\ ControlType' /\ AroundType' /\ touched' \in BOOLEAN /\ facts' \in Facts
    BY <1>1, <2>2, WindowType DEF Probe, WindowOnly, RecoverySteps
  <2>4. KnowsType'
    BY <2>2, <2>3, HeldType DEF Working, ThreadSteps, RecoveryWithRecord
  <2> QED
    BY <1>1, <2>3, <2>4, RegionKeptType, RecordKeptType, WindowOnlyType DEF Probe
<1>2. CASE Settle
  <2> DEFINE entry == [id |-> record.op, about |-> record.op,
                       result |-> IF found THEN "Installed" ELSE "CompletionUncertain"]
  <2>1. PICK answer \in Answers :
          /\ Inspects(answer)
          /\ \/ /\ answer = "none"
                /\ pc' = "idle" /\ UNCHANGED <<held, authorised, journal>>
             \/ /\ answer = "decide"
                /\ \/ pc' = "uiPublish" /\ held' = record /\ authorised' = region
                   \/ pc' = "reinspecting" /\ UNCHANGED <<held, authorised>>
                /\ UNCHANGED journal
             \/ /\ answer = "open"
                /\ pc' = "verifying" /\ held' = record /\ UNCHANGED authorised
                /\ journal' = entry \/ UNCHANGED journal
             \/ /\ answer \in {"cleaned", "error"}
                /\ pc' = "reinspecting" /\ UNCHANGED <<held, authorised, journal>>
    BY <1>2 DEF Settle
  <2>2. RegionType' /\ RecordType' /\ (answer \in {"open", "decide"} => record \in Records)
    BY <1>2, <2>1, InspectsType, RegionKeptType DEF Settle
  <2>3. record \in Records => entry \in Entries
    <3>1. ASSUME record \in Records PROVE record.op \in Ops /\ record.op \in 0 .. MaxOperations
      BY <3>1 DEF Records, Ops
    <3> QED
      BY <3>1 DEF Entries, Results
  <2>4. HistoryType'
    <3> HIDE DEF entry
    <3> QED
      BY <1>2, <2>1, <2>2, <2>3, TypeParts DEF Settle, HistoryType
  <2>5. /\ pc' \in RecoverySteps \cup {"idle"} /\ authorised' \in Regions \cup {NoRegion}
        /\ held' \in Records \cup {NoRecord} /\ (pc' \in Working => held' \in Records)
        /\ found' \in BOOLEAN /\ admits' \in BOOLEAN
    <3> HIDE DEF entry
    <3> QED
      BY <1>2, <2>1, <2>2
      DEF Settle, RecoverySteps, Working, ThreadSteps, RecoveryWithRecord, TypeInv, TypeOK
  <2>6. MachineType' /\ ControlType' /\ AroundType' /\ touched' \in BOOLEAN /\ facts' \in Facts
    BY <1>2, <2>5, WindowType DEF Settle
  <2>7. KnowsType'
    BY <2>5, <2>6, HeldType
  <2> QED
    BY <2>2, <2>4, <2>6, <2>7
<1>3. CASE RecoveryPublish
  <2>1. held \in Records
    BY <1>3 DEF RecoveryPublish, TypeInv, HoldsRecord, Working, RecoveryWithRecord
  <2>2. WithState(held, "RestoringRegion") \in Records
    BY <1>0, <2>1 DEF DurableStates
  <2>3. RecordType' /\ RegionType' /\ HistoryType'
    BY <1>3, <2>2, PublishedType, RecordKeptType, RegionKeptType, WindowOnlyType
    DEF RecoveryPublish, UiKept
  <2>4. UNCHANGED <<world, thread, already, refused, bounds, found, admits>>
    BY <1>3 DEF RecoveryPublish, UiKept, WindowOnly
  <2>5. \/ /\ pc' \in RecoverySteps /\ held' \in Records
           /\ authorised' \in Regions \cup {NoRegion}
        \/ UiStops
    BY <1>3, <2>2 DEF RecoveryPublish, RecoverySteps, TypeInv, TypeOK
  <2> QED
    BY <2>3, <2>4, <2>5, RecoveryFrame
<1>4. CASE RecoveryWrite
  <2>1. held \in Records
    BY <1>4 DEF RecoveryWrite, TypeInv, HoldsRecord, Working, RecoveryWithRecord
  <2>2. RegionType'
    BY <1>4, <2>1, RegionKeptType DEF RecoveryWrite, RegionType, Records
  <2>3. RecordType' /\ HistoryType'
    BY <1>4, RecordKeptType, WindowOnlyType DEF RecoveryWrite
  <2>4. UNCHANGED <<world, thread, already, refused, bounds, found, admits>>
    BY <1>4 DEF RecoveryWrite, WindowOnly, answers
  <2>5. pc' \in RecoverySteps /\ held' \in Records /\ authorised' \in Regions \cup {NoRegion}
    BY <1>4, <2>1 DEF RecoveryWrite, RecoverySteps, answers, TypeInv, TypeOK
  <2> QED
    BY <2>2, <2>3, <2>4, <2>5, RecoveryFrame
<1>5. CASE RecoveryRead
  <2>1. held \in Records
    BY <1>5 DEF RecoveryRead, TypeInv, HoldsRecord, Working, RecoveryWithRecord
  <2>2. RecordType' /\ RegionType' /\ HistoryType'
    BY <1>5, RecordKeptType, RegionKeptType, WindowOnlyType DEF RecoveryRead, UiKept
  <2>3. UNCHANGED <<world, thread, already, refused, bounds, found, admits>>
    BY <1>5 DEF RecoveryRead, UiKept, WindowOnly
  <2>4. \/ /\ pc' \in RecoverySteps /\ held' \in Records
           /\ authorised' \in Regions \cup {NoRegion}
        \/ UiStops
    BY <1>5, <2>1 DEF RecoveryRead, RecoverySteps, TypeInv, TypeOK
  <2> QED
    BY <2>2, <2>3, <2>4, RecoveryFrame
<1>6. CASE RecoveryMilestone
  <2>1. held \in Records
    BY <1>6 DEF RecoveryMilestone, TypeInv, HoldsRecord, Working, RecoveryWithRecord
  <2>2. WithState(held, "Restored") \in Records
    BY <1>0, <2>1 DEF DurableStates
  <2>3. RecordType' /\ RegionType' /\ HistoryType'
    BY <1>6, <2>2, PublishedType, RegionKeptType, WindowOnlyType DEF RecoveryMilestone, UiKept
  <2>4. UNCHANGED <<world, thread, already, refused, bounds, found, admits>>
    BY <1>6 DEF RecoveryMilestone, UiKept, WindowOnly
  <2>5. \/ /\ pc' \in RecoverySteps /\ held' \in Records
           /\ authorised' \in Regions \cup {NoRegion}
        \/ UiStops
    BY <1>6, <2>2 DEF RecoveryMilestone, RecoverySteps, TypeInv, TypeOK
  <2> QED
    BY <2>3, <2>4, <2>5, RecoveryFrame
<1>7. CASE RecoveryClear \/ VerifyAndClear
  <2>1. RecordType' /\ RegionType' /\ HistoryType'
    BY <1>7, ClearedType, RegionKeptType, WindowOnlyType
    DEF RecoveryClear, VerifyAndClear, UiKept
  <2>2. UNCHANGED <<world, thread, already, refused, bounds, found, admits>> /\ UiStops
    BY <1>7 DEF RecoveryClear, VerifyAndClear, UiKept, WindowOnly
  <2> QED
    BY <2>1, <2>2, RecoveryFrame
<1>8. CASE Reinspect
  <2>1. RecordType' /\ RegionType' /\ HistoryType' /\ admits' \in BOOLEAN
    BY <1>8, InspectsType, RegionKeptType, WindowOnlyType DEF Reinspect, Admits
  <2>2. MachineType' /\ ControlType' /\ AroundType' /\ touched' \in BOOLEAN /\ facts' \in Facts
    BY <1>8, <2>1, WindowType, TypeParts DEF Reinspect, WindowOnly, AroundType
  <2>3. KnowsType'
    BY <1>8, <2>2, HeldType, TypeParts
    DEF Reinspect, KnowsType, Working, ThreadSteps, RecoveryWithRecord
  <2> QED
    BY <2>1, <2>2, <2>3
<1> QED
  BY <1>1, <1>2, <1>3, <1>4, <1>5, <1>6, <1>7, <1>8 DEF RecoveryStep

LEMMA ForgottenType ==
  ASSUME TypeInv, Forgotten, RecordType', crashes' \in 0 .. MaxCrashes
  PROVE  TypeInv'
<1>1. 0 \in 0 .. RestoreAttempts - 1
  OBVIOUS
<1>2. "Idle" \in States
  BY DEF States
<1>3. ControlType' /\ MachineType'
  BY <1>1, <1>2, TypeParts DEF Forgotten, Dropped, ControlType, MachineType, Purposes, Rest
<1>4. KnowsType'
  BY FactsAtRequestType
  DEF Forgotten, Dropped, KnowsType, HoldsRecord, Working, ThreadSteps, RecoveryWithRecord
<1>5. AroundType' /\ HistoryType' /\ touched' \in BOOLEAN
  BY DEF Forgotten, AroundType, HistoryType, world, TypeInv, TypeOK
<1>6. RegionType'
  BY RegionKeptType DEF Forgotten
<1> QED
  BY <1>3, <1>4, <1>5, <1>6, TypePartsNext

LEMMA TypeStep == TypeInv /\ [Next]_vars => TypeInv'
<1> SUFFICES ASSUME TypeInv, [Next]_vars PROVE TypeInv'
  OBVIOUS
<1> USE TypePartsNext
<1>1. ASSUME NEW target \in Regions, BeginOperation(target) PROVE TypeInv'
  <2>1. RegionType' /\ RecordType' /\ HistoryType' /\ touched' \in BOOLEAN
    BY <1>1, RegionKeptType, RecordKeptType
    DEF BeginOperation, HistoryType, TypeInv, TypeOK
  <2>2. AroundType' /\ ops + 1 \in Ops
    BY <1>1 DEF BeginOperation, AroundType, TypeInv, TypeOK, world, answers, Ops
  <2>3. CASE /\ held' = Prepared(ops + 1, region, target)
             /\ machine' = Opened /\ refused' = (refused \/ Opened # "SavingRecoveryState")
             /\ Goto("saving") /\ UNCHANGED facts
    <3>1. Prepared(ops + 1, region, target) \in Records
      BY <1>1, <2>2 DEF Prepared, Records, DurableStates, TypeInv, TypeOK
    <3>2. KnowsType'
      BY <2>3, <3>1, HeldType DEF TypeInv, TypeOK
    <3>3. MachineType'
      BY <2>3, OpenedType, TypeParts DEF MachineType
    <3> QED
      BY <2>1, <2>2, <2>3, <3>2, <3>3, GotoType DEF ThreadSteps
  <2>4. CASE Stop("idle") /\ UNCHANGED refused
    BY <2>1, <2>2, <2>4, StopType, TypeParts DEF Rest, MachineType
  <2> QED
    BY <1>1, <2>3, <2>4 DEF BeginOperation
<1>2. CASE ThreadStep
  BY <1>2, ThreadType
<1>3. CASE Launch
  <2>1. PICK answer \in Answers :
          /\ Inspects(answer)
          /\ admits' = Admits(answer)
          /\ \/ answer \in {"open", "decide"} /\ pc' = "probing" /\ held' = record
             \/ answer \notin {"open", "decide"} /\ pc' = "idle" /\ UNCHANGED held
    BY <1>3 DEF Launch
  <2>2. RegionType' /\ RecordType' /\ HistoryType'
        /\ (answer \in {"open", "decide"} => record \in Records)
    BY <1>3, <2>1, InspectsType, RegionKeptType, WindowOnlyType DEF Launch
  <2>3. /\ pc' \in RecoverySteps \cup {"idle"} /\ authorised' \in Regions \cup {NoRegion}
        /\ held' \in Records \cup {NoRecord} /\ (pc' \in Working => held' \in Records)
        /\ found' \in BOOLEAN /\ admits' \in BOOLEAN
    BY <1>3, <2>1, <2>2
    DEF Launch, RecoverySteps, Working, ThreadSteps, RecoveryWithRecord, TypeInv, TypeOK, Admits
  <2>4. MachineType' /\ ControlType' /\ AroundType' /\ touched' \in BOOLEAN /\ facts' \in Facts
    BY <1>3, <2>3, WindowType DEF Launch, WindowOnly
  <2> QED
    BY <2>2, <2>3, <2>4, HeldType
<1>4. CASE RecoveryStep
  BY <1>4, RecoveryType
<1>5. CASE AnswerDeadline
  <2>1. PICK answer \in Answers :
          /\ Inspects(answer)
          /\ \/ /\ answer = "decide" /\ held' = record
                /\ \/ pc' = "following" /\ UNCHANGED authorised
                   \/ pc' = "uiPublish" /\ authorised' = region
             \/ pc' = "idle" /\ UNCHANGED <<held, authorised>>
    BY <1>5 DEF AnswerDeadline, NothingToDecide
  <2>2. RegionType' /\ RecordType' /\ HistoryType'
        /\ (answer \in {"open", "decide"} => record \in Records)
    BY <1>5, <2>1, InspectsType, RegionKeptType, WindowOnlyType DEF AnswerDeadline
  <2>3. /\ pc' \in {"following", "uiPublish", "idle"} /\ authorised' \in Regions \cup {NoRegion}
        /\ held' \in Records \cup {NoRecord} /\ (pc' \in Working => held' \in Records)
        /\ found' \in BOOLEAN /\ admits' \in BOOLEAN
    BY <1>5, <2>1, <2>2
    DEF AnswerDeadline, Working, ThreadSteps, RecoveryWithRecord, TypeInv, TypeOK
  <2>4. MachineType' /\ ControlType' /\ AroundType' /\ touched' \in BOOLEAN /\ facts' \in Facts
    BY <1>5, <2>3, WindowType DEF AnswerDeadline, WindowOnly, RecoverySteps
  <2> QED
    BY <2>2, <2>3, <2>4, HeldType
<1>6. CASE Close \/ Crash
  <2>1. RecordType'
    BY <1>6, RecordKeptType, InspectsType DEF Close, Crash, Answers
  <2> QED
    BY <1>6, <2>1, ForgottenType DEF Close, Crash, TypeInv, TypeOK
<1>7. CASE InstallEnds
  <2>1. present' \in BOOLEAN
    BY <1>7 DEF InstallEnds, TypeInv, TypeOK
  <2>2. install' \in {"none", "running", "finished", "failed"}
    BY <1>7 DEF InstallEnds
  <2> QED
    BY <1>7, <2>1, <2>2
    DEF InstallEnds, RegionKept, thread, answers, bounds, TypeInv, TypeOK, HoldsRecord
<1>8. CASE UserMoves
  BY <1>8 DEF UserMoves, thread, world, answers, TypeInv, TypeOK, HoldsRecord
<1>9. CASE UNCHANGED vars
  BY <1>9 DEF vars, thread, world, answers, bounds, TypeInv, TypeOK, HoldsRecord
<1> QED
  BY <1>1, <1>2, <1>3, <1>4, <1>5, <1>6, <1>7, <1>8, <1>9 DEF Next

LEMMA TypeInit == Init => TypeInv
<1> SUFFICES ASSUME Init PROVE TypeInv
  OBVIOUS
<1>1. 0 \in 0 .. RestoreAttempts - 1 /\ 0 \in 0 .. MaxOperations
      /\ 0 \in 0 .. MaxCrashes /\ 0 \in 0 .. MaxMoves
  OBVIOUS
<1>2. "Idle" \in States
  BY DEF States
<1> QED
  BY <1>1, <1>2, FactsAtRequestType
  DEF Init, TypeInv, TypeOK, HoldsRecord, Working, ThreadSteps, RecoveryWithRecord, Rest,
      Purposes

\* Every variable keeps its type, and the code that works on a record has one
\* in hand: no step of an operation, of the recovery dialogue or of a crash
\* leaves a thread with nothing to name the region it has to put back
\* (install.rs Operation, recovery.rs execute_gui_recovery).
THEOREM TypesHold == Spec => []TypeOK
<1>1. TypeInv => TypeOK
  BY DEF TypeInv
<1> QED
  BY <1>1, TypeInit, TypeStep, PTL DEF Spec

LEMMA TypeInvHolds == Spec => []TypeInv
BY TypeInit, TypeStep, PTL DEF Spec

-------------------------------------------------------------------------------
(* An early restore is the last word of an operation about the region.     *)

LEMMA StaysUnreturned ==
  ASSUME NEW s, NEW e, s \notin Returned,
         e \notin {"EarlyRegionRestoreConfirmed", "OriginalRegionRestored"}
  PROVE  s ++ e \notin Returned
BY OnlyRestoresReturn DEF ++, Returned

LEMMA OpenedUnreturned == Opened \notin Returned /\ Replayed \notin Returned
<1>1. "Idle" \notin Returned
  BY DEF Returned
<1> DEFINE resolving == "Idle" ++ "BeginResolvingProduct"
           resolved  == resolving ++ "ProductResolved"
           preparing == resolved ++ "BeginPreparing"
           switching == Opened ++ "RecoveryStateSaved"
           switched  == switching ++ "SwitchFinishedSwitched"
           refreshed == switched ++ "BeginRefreshingStoreContext"
           starting  == refreshed ++ "BeginInstall"
           requested == starting ++ "InstallRequestAccepted"
<1>2. resolving \notin Returned
  BY <1>1, StaysUnreturned
<1>3. resolved \notin Returned
  BY <1>2, StaysUnreturned
<1>4. preparing \notin Returned
  BY <1>3, StaysUnreturned
<1>5. Opened \notin Returned
  BY <1>4, StaysUnreturned DEF Opened
<1>6. switching \notin Returned /\ switched \notin Returned
  BY <1>5, StaysUnreturned
<1>7. refreshed \notin Returned /\ starting \notin Returned
  BY <1>6, StaysUnreturned
<1>8. requested \notin Returned
  BY <1>7, StaysUnreturned
<1> QED
  BY <1>5, <1>8, StaysUnreturned DEF Replayed

\* What an operation forgets when its thread ends it no longer claims.
LEMMA DroppedReturn == ASSUME Dropped PROVE ReturnIsKnown'
BY DEF Dropped, FactsAtRequest, ReturnIsKnown, Returned

\* Before the observation, and while the region is restored, nothing claims
\* the return.
LEMMA UnreturnedBefore ==
  ASSUME ReturnIsKnown, pc \notin {"observing", "deciding", "clearing"}
  PROVE  ~facts.restoredEarly /\ machine \notin Returned
BY DEF ReturnIsKnown

LEMMA UnreturnedAfter ==
  ASSUME ~facts'.restoredEarly, machine' \notin Returned
  PROVE  ReturnIsKnown'
BY DEF ReturnIsKnown

LEMMA ReturnStep == TypeInv /\ ReturnIsKnown /\ [Next]_vars => ReturnIsKnown'
<1> SUFFICES ASSUME TypeInv, ReturnIsKnown, [Next]_vars PROVE ReturnIsKnown'
  OBVIOUS
<1>0. facts \in Facts
  BY DEF TypeInv, TypeOK
<1>1. ASSUME NEW target \in Regions, BeginOperation(target) PROVE ReturnIsKnown'
  BY <1>1, UnreturnedBefore, UnreturnedAfter, OpenedUnreturned, DroppedReturn
  DEF BeginOperation, Stop
<1>2. CASE SavePrepared \/ WriteTemporary \/ ReadBack \/ ClearPreserved
  BY <1>2, UnreturnedBefore, UnreturnedAfter, StaysUnreturned, DroppedReturn
  DEF SavePrepared, WriteTemporary, ReadBack, ClearPreserved, Stop, Raise1, Raise2,
      MachineKept, FactsKept
<1>3. CASE Resolve \/ RecordIdentity \/ TakeBaseline \/ StartInstall
  BY <1>0, <1>3, UnreturnedBefore, UnreturnedAfter, StaysUnreturned
  DEF Resolve, RecordIdentity, TakeBaseline, StartInstall, FailUnderTemporary, Raise1,
      MachineKept, FactsKept, Facts
<1>4. CASE Observe
  <2>1. ASSUME NEW observation \in Observations, RecordObservation(observation)
        PROVE  ReturnIsKnown'
    <3>1. facts'.restoredEarly = facts.restoredEarly /\ pc' = "deciding"
      BY <1>0, <2>1 DEF RecordObservation, Facts, Goto
    <3>2. machine \notin Returned => machine' \notin Returned
      BY <2>1, StaysUnreturned DEF RecordObservation, Raise1, ObservationEvent
    <3> QED
      BY <1>4, <3>1, <3>2 DEF ReturnIsKnown, Observe
  <2>2. CASE Raise1("FailWithTemporaryRegion") /\ StatedFailureEnds /\ FactsKept
    BY <1>4, <2>2, StaysUnreturned
    DEF ReturnIsKnown, Observe, StatedFailureEnds, Raise1, Restore, Clear, FactsKept
  <2>3. CASE Stop("idle")
    BY <2>3, DroppedReturn DEF Stop
  <2> QED
    BY <1>4, <2>1, <2>2, <2>3 DEF Observe, ConfirmedCompletion, Observations
<1>5. CASE Decide
  <2>1. CASE MachineKept /\ Goto("observing") /\ FactsKept
    BY <1>5, <2>1 DEF ReturnIsKnown, Decide, MachineKept, Goto, FactsKept
  <2>2. CASE NextStep(machine, facts) = "RestoreRegionEarly"
             /\ MachineKept /\ Restore("early") /\ FactsKept
    BY <1>5, <2>2
    DEF ReturnIsKnown, Decide, MachineKept, Restore, FactsKept, NextStep, ObservingStep,
        StepForOutcome
  <2>3. CASE NextStep(machine, facts) = "RestoreRegion"
             /\ Raise1("BeginRestoringRegion") /\ Restore("outcome") /\ FactsKept
    <3>1. ~facts.restoredEarly
      BY <2>3 DEF NextStep, ObservingStep, StepForOutcome
    <3>2. machine \notin Returned
      BY <1>5, <3>1 DEF ReturnIsKnown, Decide
    <3> QED
      BY <2>3, <3>1, <3>2, StaysUnreturned, UnreturnedAfter DEF Raise1, FactsKept
  <2>4. CASE Raise1("Complete") /\ Clear("finish") /\ FactsKept
    BY <1>5, <2>4, StaysUnreturned
    DEF ReturnIsKnown, Decide, Raise1, Clear, FactsKept
  <2>5. CASE Stop(IF facts.restoredEarly THEN "idle" ELSE "asked")
    BY <2>5, DroppedReturn DEF Stop
  <2> QED
    BY <1>5, <2>1, <2>2, <2>3, <2>4, <2>5 DEF Decide
<1>6. ASSUME pc \in {"restoring", "restoreRead", "milestone"}, GiveUp PROVE ReturnIsKnown'
  BY <1>6, UnreturnedBefore, UnreturnedAfter, DroppedReturn
  DEF GiveUp, MachineKept, FactsKept, Stop
<1>7. CASE RestoreWrite \/ RestoreRead
  BY <1>6, <1>7, UnreturnedBefore, UnreturnedAfter
  DEF RestoreWrite, RestoreRead, MissedAttempt, TryAgain, MachineKept, FactsKept
<1>8. CASE RestoreMilestone
  <2>1. CASE GiveUp
    BY <1>6, <1>8, <2>1 DEF RestoreMilestone
  <2>2. CASE facts' = [facts EXCEPT !.restoredEarly = TRUE] /\ Goto("observing")
    BY <1>0, <2>2 DEF ReturnIsKnown, Goto, Facts
  <2>3. CASE Goto("clearing")
    BY <2>3 DEF ReturnIsKnown, Goto
  <2> QED
    BY <1>8, <2>1, <2>2, <2>3 DEF RestoreMilestone
<1>9. CASE ClearRecord
  BY <1>9, DroppedReturn DEF ClearRecord, Stop
<1>10. CASE FollowResumed
  <2>1. FactsAtRequest \in Facts
    BY FactsAtRequestType
  <2> QED
    BY <1>10, <2>1, OpenedUnreturned, DroppedReturn
    DEF FollowResumed, ReturnIsKnown, Stop, Facts
<1>11. CASE Launch \/ RecoveryStep \/ AnswerDeadline
  <2>1. UNCHANGED thread /\ pc \notin {"observing", "deciding", "clearing"}
    BY <1>11
    DEF Launch, AnswerDeadline, RecoveryStep, Probe, Settle, RecoveryPublish, RecoveryWrite,
        RecoveryRead, RecoveryMilestone, RecoveryClear, VerifyAndClear, Reinspect, UiKept,
        WindowOnly
  <2> QED
    BY <2>1, UnreturnedBefore, UnreturnedAfter DEF thread
<1>12. CASE Close \/ Crash
  BY <1>12, DroppedReturn DEF Close, Crash, Forgotten
<1>13. CASE InstallEnds \/ UserMoves \/ UNCHANGED vars
  BY <1>13 DEF InstallEnds, UserMoves, vars, thread, ReturnIsKnown
<1> QED
  BY <1>1, <1>2, <1>3, <1>4, <1>5, <1>7, <1>8, <1>9, <1>10, <1>11, <1>12, <1>13
  DEF Next, ThreadStep

LEMMA ReturnHolds == Spec => []ReturnIsKnown
<1>1. Init => ReturnIsKnown
  BY DEF Init, FactsAtRequest, ReturnIsKnown, Returned
<1> QED
  BY <1>1, ReturnStep, TypeInvHolds, PTL DEF Spec

\* Whatever comes after a confirmed early restore, a failure the backend
\* states, a completion, a deadline or a takeover by a later run, the
\* operation never writes a region again (operation.rs:76-79, install.rs
\* observe).
THEOREM EarlyRestoreIsFinal == Spec => []ReturnedRegionStaysPut
<1>1. ReturnIsKnown => ReturnedRegionStaysPut
  BY DEF ReturnIsKnown, ReturnedRegionStaysPut
<1> QED
  BY <1>1, ReturnHolds, PTL

-------------------------------------------------------------------------------
(* The record an operation works on is the one on disk.                    *)

\* A thread or a dialogue that goes on, with the record in place.
LEMMA GoesOn ==
  ASSUME HeldIsOnDisk, pc \in Working \ {"saving"}, UNCHANGED <<record, held>>
  PROVE  record' # NoRecord /\ SameIdentity(record, held)'
BY DEF HeldIsOnDisk, SameIdentity

\* One that has just read the record.
LEMMA ReadsRecord ==
  ASSUME record # NoRecord, UNCHANGED record, held' = record,
         pc' \in {"probing", "following", "uiPublish", "verifying"}
  PROVE  DiskInv'
BY DEF DiskInv, HeldIsOnDisk, TakeoverReadsDisk, PreparedOnly, QuestionHasRecord,
       BeforeRequest, SameIdentity

\* One that comes to rest.
LEMMA Rests ==
  ASSUME pc' \in {"idle", "off", "settling", "reinspecting"}
  PROVE  DiskInv'
BY DEF DiskInv, HeldIsOnDisk, TakeoverReadsDisk, PreparedOnly, QuestionHasRecord, Working,
       ThreadSteps, RecoveryWithRecord, BeforeRequest

LEMMA StopRests == ASSUME Stop("idle") PROVE DiskInv'
BY Rests DEF Stop

\* One that goes on past the request.
LEMMA GoesOnAfter ==
  ASSUME record' # NoRecord, SameIdentity(record, held)',
         pc' \notin BeforeRequest \cup {"probing", "following", "asked"}
  PROVE  DiskInv'
BY DEF DiskInv, HeldIsOnDisk, TakeoverReadsDisk, PreparedOnly, QuestionHasRecord,
       BeforeRequest

\* One that goes on before it.
LEMMA GoesOnBefore ==
  ASSUME record' # NoRecord, SameIdentity(record, held)', held'.state = "Prepared",
         pc' \in BeforeRequest \ {"writing"}
  PROVE  DiskInv'
BY DEF DiskInv, HeldIsOnDisk, TakeoverReadsDisk, PreparedOnly, QuestionHasRecord,
       BeforeRequest

LEMMA FailsUnderTemporary ==
  ASSUME DiskInv, pc \in Working \ {"saving"}, UNCHANGED record, FailUnderTemporary
  PROVE  DiskInv'
BY GoesOn, GoesOnAfter DEF DiskInv, FailUnderTemporary, Restore, FactsKept, BeforeRequest

\* Giving up keeps the record on disk, the old one or the newer.
LEMMA GivesUp ==
  ASSUME DiskInv, pc \in Working \ {"saving"}, GiveUp,
         record' # NoRecord, SameIdentity(record', held)
  PROVE  DiskInv'
<1>1. CASE Goto("observing") /\ FactsKept
  BY <1>1, GoesOnAfter DEF Goto, FactsKept, BeforeRequest, SameIdentity
<1>2. CASE Stop("idle")
  BY <1>2, StopRests
<1> QED
  BY <1>1, <1>2 DEF GiveUp

LEMMA MissesAttempt ==
  ASSUME DiskInv, pc \in Working \ {"saving"}, UNCHANGED record, MissedAttempt
  PROVE  DiskInv'
<1>1. record # NoRecord /\ SameIdentity(record, held)
  BY DEF DiskInv, HeldIsOnDisk
<1>2. CASE TryAgain
  BY <1>2, GoesOn, GoesOnAfter DEF DiskInv, TryAgain, FactsKept, BeforeRequest
<1> QED
  BY <1>1, <1>2, GivesUp DEF MissedAttempt

LEMMA DiskStep == TypeInv /\ DiskInv /\ [Next]_vars => DiskInv'
<1> SUFFICES ASSUME TypeInv, DiskInv, [Next]_vars PROVE DiskInv'
  OBVIOUS
<1>1. ASSUME NEW target \in Regions, BeginOperation(target) PROVE DiskInv'
  <2>1. CASE held' = Prepared(ops + 1, region, target) /\ Goto("saving")
    BY <2>1
    DEF Prepared, Goto, DiskInv, HeldIsOnDisk, TakeoverReadsDisk, PreparedOnly,
        QuestionHasRecord
  <2>2. CASE Stop("idle")
    BY <2>2, StopRests
  <2> QED
    BY <1>1, <2>1, <2>2 DEF BeginOperation
<1>2. CASE SavePrepared
  <2>1. held \in Records /\ held.state = "Prepared"
    BY <1>2, ThreadHolds
    DEF SavePrepared, ThreadSteps, DiskInv, PreparedOnly, BeforeRequest
  <2>2. CASE Published(held) /\ Goto("writing") /\ FactsKept
    BY <2>1, <2>2
    DEF Published, Goto, FactsKept, DiskInv, HeldIsOnDisk, TakeoverReadsDisk, PreparedOnly,
        QuestionHasRecord, SameIdentity
  <2>3. CASE Stop("idle")
    BY <2>3, StopRests
  <2> QED
    BY <1>2, <2>2, <2>3 DEF SavePrepared
<1>3. CASE WriteTemporary \/ ReadBack
  <2>1. /\ UNCHANGED record /\ held.state = "Prepared"
        /\ pc \in Working \ {"saving"}
    BY <1>3
    DEF WriteTemporary, ReadBack, Working, ThreadSteps, DiskInv, PreparedOnly, BeforeRequest
  <2>2. CASE /\ FactsKept
             /\ Goto("readBack") \/ Goto("resolving") \/ Goto("clearPreserved")
    BY <2>1, <2>2, GoesOn, GoesOnBefore DEF FactsKept, Goto, BeforeRequest, DiskInv
  <2>3. CASE FactsKept /\ Restore("rollback")
    BY <2>1, <2>3, GoesOn, GoesOnAfter DEF FactsKept, Restore, BeforeRequest, DiskInv
  <2>4. CASE Stop("idle")
    BY <2>4, StopRests
  <2> QED
    BY <1>3, <2>2, <2>3, <2>4 DEF WriteTemporary, ReadBack
<1>4. CASE ClearPreserved \/ ClearRecord
  BY <1>4, StopRests DEF ClearPreserved, ClearRecord
<1>5. CASE Resolve \/ TakeBaseline
  <2>1. /\ UNCHANGED record /\ held.state = "Prepared"
        /\ pc \in Working \ {"saving"}
    BY <1>5
    DEF Resolve, TakeBaseline, Working, ThreadSteps, DiskInv, PreparedOnly, BeforeRequest
  <2>2. CASE FailUnderTemporary
    BY <2>1, <2>2, FailsUnderTemporary
  <2>3. CASE UNCHANGED held /\ pc' \in {"identifying", "measuring", "starting"}
    BY <2>1, <2>3, GoesOn, GoesOnBefore DEF BeforeRequest, DiskInv
  <2> QED
    BY <1>5, <2>2, <2>3 DEF Resolve, TakeBaseline, FactsKept
<1>6. CASE RecordIdentity
  <2> DEFINE identified == [held EXCEPT !.family = TRUE]
  <2>1. /\ held \in Records /\ held.state = "Prepared"
        /\ record # NoRecord /\ SameIdentity(record, held)
    BY <1>6, ThreadHolds
    DEF RecordIdentity, ThreadSteps, Working, DiskInv, HeldIsOnDisk, PreparedOnly, BeforeRequest
  <2>2. /\ identified \in Records /\ identified.state = "Prepared"
        /\ SameIdentity(identified, held)
    BY <2>1 DEF Records, SameIdentity
  <2>3. /\ record' \in {record, identified} /\ held' \in {held, identified}
        /\ pc' = "measuring"
    BY <1>6 DEF RecordIdentity, Published, NotPublished, Goto
  <2>4. record' # NoRecord /\ SameIdentity(record, held)' /\ held'.state = "Prepared"
    <3> HIDE DEF identified
    <3> QED
      BY <2>1, <2>2, <2>3 DEF SameIdentity
  <2> QED
    BY <2>3, <2>4, GoesOnBefore DEF BeforeRequest
<1>7. CASE StartInstall \/ Observe
  <2>1. UNCHANGED record /\ pc \in Working \ {"saving"}
    BY <1>7 DEF StartInstall, Observe, Working, ThreadSteps
  <2>2. CASE UNCHANGED held /\ pc' \in {"observing", "deciding", "restoring", "clearing"}
    BY <2>1, <2>2, GoesOn, GoesOnAfter DEF BeforeRequest, DiskInv
  <2>3. CASE Stop("idle")
    BY <2>3, StopRests
  <2> QED
    BY <1>7, <2>2, <2>3
    DEF StartInstall, Observe, RecordObservation, StatedFailureEnds, Goto, Restore, Clear,
        FactsKept
<1>8. CASE Decide
  <2>1. /\ UNCHANGED record /\ record # NoRecord
        /\ pc \in Working \ {"saving"}
    BY <1>8 DEF Decide, Working, ThreadSteps, DiskInv, HeldIsOnDisk
  <2>2. CASE UNCHANGED held /\ pc' \in {"observing", "restoring", "clearing"}
    BY <2>1, <2>2, GoesOn, GoesOnAfter DEF BeforeRequest, DiskInv
  <2>3. CASE Stop("idle")
    BY <2>3, StopRests
  <2>4. CASE Stop("asked")
    BY <2>1, <2>4
    DEF Stop, DiskInv, HeldIsOnDisk, TakeoverReadsDisk, PreparedOnly, QuestionHasRecord,
        Working, ThreadSteps, RecoveryWithRecord, BeforeRequest
  <2> QED
    BY <1>8, <2>2, <2>3, <2>4 DEF Decide, Goto, Restore, Clear, FactsKept
<1>9. CASE RestoreWrite \/ RestoreRead
  <2>1. UNCHANGED record /\ pc \in Working \ {"saving"}
    BY <1>9 DEF RestoreWrite, RestoreRead, Working, ThreadSteps
  <2>2. CASE UNCHANGED held /\ pc' \in {"restoreRead", "milestone"}
    BY <2>1, <2>2, GoesOn, GoesOnAfter DEF BeforeRequest, DiskInv
  <2> QED
    BY <1>9, <2>1, <2>2, MissesAttempt DEF RestoreWrite, RestoreRead, Goto, FactsKept
<1>10. CASE RestoreMilestone
  <2> DEFINE restored ==
               WithState(held, IF purpose = "early" THEN "RegionRestoredEarly" ELSE "Restored")
  <2>1. /\ pc \in Working \ {"saving"} /\ held \in Records
        /\ record # NoRecord /\ SameIdentity(record, held)
    BY <1>10, ThreadHolds
    DEF RestoreMilestone, Working, ThreadSteps, DiskInv, HeldIsOnDisk
  <2>2. restored \in Records /\ SameIdentity(restored, held)
    BY <2>1 DEF Records, WithState, DurableStates, SameIdentity
  <2>3. \/ record' \in {record, restored} /\ GiveUp
        \/ record' = restored /\ held' = restored /\ pc' \in {"observing", "clearing"}
    BY <1>10 DEF RestoreMilestone, Published, NotPublished, Goto
  <2> HIDE DEF restored
  <2>4. CASE record' \in {record, restored} /\ GiveUp
    BY <2>1, <2>2, <2>4, GivesUp
  <2>5. CASE record' = restored /\ held' = restored /\ pc' \in {"observing", "clearing"}
    BY <2>2, <2>5, GoesOnAfter DEF SameIdentity, BeforeRequest
  <2> QED
    BY <2>3, <2>4, <2>5
<1>11. CASE FollowResumed
  <2>1. UNCHANGED record /\ record # NoRecord /\ pc \in Working \ {"saving"}
    BY <1>11 DEF FollowResumed, Working, ThreadSteps, DiskInv, HeldIsOnDisk
  <2>2. CASE UNCHANGED held /\ pc' = "observing"
    BY <2>1, <2>2, GoesOn, GoesOnAfter DEF BeforeRequest, DiskInv
  <2>3. CASE Stop("idle")
    BY <2>3, StopRests
  <2>4. CASE Stop("asked")
    BY <2>1, <2>4
    DEF Stop, DiskInv, HeldIsOnDisk, TakeoverReadsDisk, PreparedOnly, QuestionHasRecord,
        Working, ThreadSteps, RecoveryWithRecord, BeforeRequest
  <2> QED
    BY <1>11, <2>2, <2>3, <2>4 DEF FollowResumed
<1>12. CASE Launch
  <2>1. \/ record # NoRecord /\ UNCHANGED record /\ pc' = "probing" /\ held' = record
        \/ pc' = "idle"
    BY <1>12 DEF Launch, Inspects
  <2> QED
    BY <2>1, ReadsRecord, Rests
<1>13. CASE Probe
  <2>1. record # NoRecord /\ held = record /\ UNCHANGED record
    BY <1>13
    DEF Probe, DiskInv, HeldIsOnDisk, TakeoverReadsDisk, Working, RecoveryWithRecord
  <2>2. (UNCHANGED held /\ pc' = "following") \/ pc' = "settling"
    BY <1>13 DEF Probe
  <2> QED
    BY <2>1, <2>2, ReadsRecord, Rests
<1>14. CASE Settle
  <2>1. \/ /\ record # NoRecord /\ UNCHANGED record /\ held' = record
           /\ pc' \in {"uiPublish", "verifying"}
        \/ pc' \in {"idle", "reinspecting"}
    BY <1>14 DEF Settle, Inspects
  <2> QED
    BY <2>1, ReadsRecord, Rests
<1>15. CASE RecoveryPublish \/ RecoveryMilestone
  <2>1. held \in Records
    BY <1>15
    DEF RecoveryPublish, RecoveryMilestone, TypeInv, HoldsRecord, Working, RecoveryWithRecord
  <2>2. \/ /\ record' = held' /\ record' \in Records /\ pc' \in {"uiWrite", "uiClear"}
        \/ pc' = "reinspecting"
    BY <1>15, <2>1
    DEF RecoveryPublish, RecoveryMilestone, Published, UiStops, WithState, Records,
        DurableStates
  <2> QED
    BY <2>2, GoesOnAfter, Rests DEF SameIdentity, BeforeRequest
<1>16. CASE RecoveryWrite \/ RecoveryRead
  <2>1. UNCHANGED record /\ pc \in Working \ {"saving"}
    BY <1>16 DEF RecoveryWrite, RecoveryRead, Working, RecoveryWithRecord
  <2>2. \/ UNCHANGED held /\ pc' \in {"uiRead", "uiMilestone"}
        \/ pc' = "reinspecting"
    BY <1>16 DEF RecoveryWrite, RecoveryRead, UiStops
  <2> QED
    BY <2>1, <2>2, GoesOn, GoesOnAfter, Rests DEF BeforeRequest, DiskInv
<1>17. CASE RecoveryClear \/ VerifyAndClear \/ Reinspect
  BY <1>17, Rests DEF RecoveryClear, VerifyAndClear, Reinspect, UiStops
<1>18. CASE AnswerDeadline
  <2>1. \/ /\ record # NoRecord /\ UNCHANGED record /\ held' = record
           /\ pc' \in {"following", "uiPublish"}
        \/ pc' = "idle"
    BY <1>18 DEF AnswerDeadline, Inspects, NothingToDecide
  <2> QED
    BY <2>1, ReadsRecord, Rests
<1>19. CASE Close \/ Crash
  BY <1>19, Rests DEF Close, Crash, Forgotten
<1>20. CASE InstallEnds \/ UserMoves \/ UNCHANGED vars
  BY <1>20
  DEF InstallEnds, UserMoves, vars, DiskInv, HeldIsOnDisk, TakeoverReadsDisk, PreparedOnly,
      QuestionHasRecord, SameIdentity
<1> QED
  BY <1>1, <1>2, <1>3, <1>4, <1>5, <1>6, <1>7, <1>8, <1>9, <1>10, <1>11, <1>12, <1>13,
     <1>14, <1>15, <1>16, <1>17, <1>18, <1>19, <1>20
  DEF Next, ThreadStep, RecoveryStep

LEMMA DiskHolds == Spec => []DiskInv
<1>1. Init => DiskInv
  BY DEF Init, DiskInv, HeldIsOnDisk, TakeoverReadsDisk, PreparedOnly, QuestionHasRecord,
         Working, ThreadSteps, RecoveryWithRecord, BeforeRequest
<1> QED
  BY <1>1, DiskStep, TypeInvHolds, PTL DEF Spec

\* The user is never asked about an operation whose record is gone
\* (install.rs AskUserAfterTimeout and resumed_install_not_followed).
THEOREM QuestionsHaveRecords == Spec => []QuestionHasRecord
<1>1. DiskInv => QuestionHasRecord
  BY DEF DiskInv
<1> QED
  BY <1>1, DiskHolds, PTL

\* No installation begins but under a published record of its own operation
\* (install.rs execute).
THEOREM InstallsHaveRecords == Spec => InstallHasRecord
<1>1. DiskInv /\ [Next]_vars =>
        [install # "running" /\ install' = "running" =>
           record # NoRecord /\ SameIdentity(record, held)]_vars
  <2> SUFFICES ASSUME DiskInv, [Next]_vars, install # "running", install' = "running"
               PROVE  record # NoRecord /\ SameIdentity(record, held)
    OBVIOUS
  <2>1. StartInstall
    BY DEF Next, BeginOperation, ThreadStep, SavePrepared, WriteTemporary, ReadBack,
       ClearPreserved, Resolve, RecordIdentity, TakeBaseline, Observe, Decide, RestoreWrite,
       RestoreRead, RestoreMilestone, ClearRecord, FollowResumed, Launch, RecoveryStep, Probe,
       Settle, RecoveryPublish, RecoveryWrite, RecoveryRead, RecoveryMilestone, RecoveryClear,
       VerifyAndClear, Reinspect, AnswerDeadline, Close, Crash, InstallEnds, UserMoves, vars,
       world, AroundKept, WindowOnly, UiKept, Forgotten
  <2> QED
    BY <2>1 DEF StartInstall, DiskInv, HeldIsOnDisk, Working, ThreadSteps
<1> QED
  BY <1>1, DiskHolds, PTL DEF Spec, InstallHasRecord

-------------------------------------------------------------------------------
(* The debt: what is owed is on disk, and nothing on disk denies it.       *)

PastReadBack == {"clearPreserved", "milestone", "clearing", "uiMilestone", "uiClear"}

LEMMA NothingOwed == ASSUME owed' = NoRegion PROVE DebtInv'
BY DEF DebtInv, TemporaryRegionIsRecorded, RestoredClaimIsTrue, NothingOwedPastReadBack

\* A region in force that is the original one is not owed.
LEMMA OriginalInForce ==
  ASSUME DebtInv, NEW r, record # NoRecord => record.original = r.original,
         region = r.original
  PROVE  owed = NoRegion
BY DEF DebtInv, TemporaryRegionIsRecorded

\* A debt goes on while the region stays and the record is at most replaced by
\* one of the same operation that claims no return.
LEMMA OwedGoesOn ==
  ASSUME DebtInv, owed # NoRegion, RegionKept,
         \/ UNCHANGED record
         \/ /\ record' # NoRecord /\ SameIdentity(record, record')
            /\ record'.state \notin Returned,
         pc' \notin PastReadBack, ~facts'.restoredEarly
  PROVE  DebtInv'
BY DEF DebtInv, TemporaryRegionIsRecorded, RestoredClaimIsTrue, NothingOwedPastReadBack,
       RegionKept, SameIdentity, Returned, PastReadBack

LEMMA PublicationOwes ==
  ASSUME DebtInv, owed # NoRegion, NEW r \in Records, r.state \notin Returned,
         Published(r) \/ NotPublished(r)
  PROVE  \/ UNCHANGED record
         \/ /\ record' # NoRecord /\ SameIdentity(record, record')
            /\ record'.state \notin Returned
BY DEF DebtInv, TemporaryRegionIsRecorded, Published, NotPublished, MayPublish

LEMMA DroppedEarly == ASSUME Dropped PROVE ~facts'.restoredEarly
BY DEF Dropped, FactsAtRequest

LEMMA InspectionOwes ==
  ASSUME DebtInv, owed # NoRegion, NEW answer \in Answers, Inspects(answer)
  PROVE  UNCHANGED record
BY DEF DebtInv, TemporaryRegionIsRecorded, Inspects, Answers, OriginalActive

LEMMA DebtStep == TypeInv /\ ReturnIsKnown /\ DiskInv /\ DebtInv /\ [Next]_vars => DebtInv'
<1> SUFFICES ASSUME TypeInv, ReturnIsKnown, DiskInv, DebtInv, [Next]_vars PROVE DebtInv'
  OBVIOUS
<1> SUFFICES ASSUME owed' # NoRegion PROVE DebtInv'
  BY NothingOwed
<1>0. /\ owed # NoRegion => pc \notin PastReadBack /\ ~facts.restoredEarly
      /\ facts \in Facts
  BY DEF DebtInv, NothingOwedPastReadBack, PastReadBack, TypeInv, TypeOK
<1>1. ASSUME NEW target \in Regions, BeginOperation(target) PROVE DebtInv'
  BY <1>0, <1>1, OwedGoesOn, DroppedEarly
  DEF BeginOperation, RegionKept, Goto, Stop, PastReadBack
<1>2. CASE SavePrepared
  <2>1. held \in Records /\ held.state \notin Returned
    BY <1>2, ThreadHolds
    DEF SavePrepared, ThreadSteps, DiskInv, PreparedOnly, BeforeRequest, Returned
  <2>2. owed # NoRegion
    BY <1>2 DEF SavePrepared, RegionKept
  <2>3. \/ UNCHANGED record
        \/ /\ record' # NoRecord /\ SameIdentity(record, record')
           /\ record'.state \notin Returned
    BY <1>2, <2>1, <2>2, PublicationOwes DEF SavePrepared
  <2>4. pc' \in {"writing", "idle"} /\ ~facts'.restoredEarly
    BY <1>0, <1>2, <2>2, DroppedEarly DEF SavePrepared, Goto, Stop, FactsKept
  <2> QED
    BY <1>2, <2>2, <2>3, <2>4, OwedGoesOn DEF SavePrepared, PastReadBack
<1>3. CASE WriteTemporary
  <2>1. /\ record # NoRecord /\ SameIdentity(record, held) /\ record.state = "Prepared"
        /\ pc' = "readBack" /\ UNCHANGED <<record, facts>>
    BY <1>3
    DEF WriteTemporary, Goto, FactsKept, DiskInv, HeldIsOnDisk, PreparedOnly, Working,
        ThreadSteps
  <2>2. ~facts'.restoredEarly
    BY <1>3, <2>1 DEF WriteTemporary, ReturnIsKnown
  <2>3. CASE RegionKept
    BY <1>3, <2>1, <2>2, <2>3, OwedGoesOn DEF RegionKept, PastReadBack
  <2>4. CASE /\ region' = held.temporary
             /\ owed' = IF held.temporary = held.original THEN NoRegion ELSE held.original
    BY <2>1, <2>2, <2>4
    DEF DebtInv, TemporaryRegionIsRecorded, RestoredClaimIsTrue, NothingOwedPastReadBack,
        SameIdentity
  <2> QED
    BY <1>3, <2>3, <2>4 DEF WriteTemporary
<1>4. CASE ReadBack
  <2>1. owed # NoRegion /\ RegionKept /\ UNCHANGED record
    BY <1>4 DEF ReadBack, RegionKept
  <2>2. region # held.original
    BY <1>4, <2>1, OriginalInForce
    DEF ReadBack, DiskInv, HeldIsOnDisk, SameIdentity, Working, ThreadSteps
  <2>3. pc' \in {"restoring", "resolving", "idle"} /\ ~facts'.restoredEarly
    BY <1>0, <1>4, <2>1, <2>2, DroppedEarly DEF ReadBack, Goto, Restore, Stop, FactsKept
  <2> QED
    BY <2>1, <2>3, OwedGoesOn DEF PastReadBack
<1>5. CASE ClearPreserved \/ RestoreMilestone \/ ClearRecord \/ RecoveryMilestone \/ RecoveryClear
  BY <1>0, <1>5
  DEF ClearPreserved, RestoreMilestone, ClearRecord, RecoveryMilestone, RecoveryClear, UiKept,
      RegionKept, PastReadBack
<1>6. CASE Resolve \/ TakeBaseline \/ StartInstall
  <2>1. owed # NoRegion /\ RegionKept /\ UNCHANGED record
    BY <1>6 DEF Resolve, TakeBaseline, StartInstall, RegionKept
  <2>2. /\ pc' \in {"identifying", "measuring", "starting", "observing", "restoring"}
        /\ ~facts'.restoredEarly
    BY <1>0, <1>6, <2>1
    DEF Resolve, TakeBaseline, StartInstall, FailUnderTemporary, Goto, Restore, FactsKept, Facts
  <2> QED
    BY <2>1, <2>2, OwedGoesOn DEF PastReadBack
<1>7. CASE RecordIdentity
  <2> DEFINE identified == [held EXCEPT !.family = TRUE]
  <2>1. owed # NoRegion /\ RegionKept /\ pc' = "measuring" /\ UNCHANGED facts
    BY <1>7 DEF RecordIdentity, RegionKept, Goto
  <2>2. identified \in Records /\ identified.state \notin Returned
    BY <1>7, ThreadHolds
    DEF RecordIdentity, ThreadSteps, DiskInv, PreparedOnly, BeforeRequest, Records, Returned
  <2>3. Published(identified) \/ NotPublished(identified)
    BY <1>7 DEF RecordIdentity
  <2> HIDE DEF identified
  <2> QED
    BY <1>0, <2>1, <2>2, <2>3, PublicationOwes, OwedGoesOn DEF PastReadBack
<1>8. CASE Observe
  <2>1. owed # NoRegion /\ RegionKept /\ UNCHANGED record
    BY <1>8 DEF Observe, RegionKept
  <2>2. pc' \in {"deciding", "restoring", "idle"} /\ ~facts'.restoredEarly
    BY <1>0, <1>8, <2>1, DroppedEarly
    DEF Observe, RecordObservation, StatedFailureEnds, Goto, Restore, Stop, FactsKept, Facts
  <2> QED
    BY <2>1, <2>2, OwedGoesOn DEF PastReadBack
<1>9. CASE Decide
  <2>1. owed # NoRegion /\ RegionKept /\ UNCHANGED record
    BY <1>9 DEF Decide, RegionKept
  <2>2. NextStep(machine, facts) # "Finish"
    BY <1>0, <1>9, <2>1
    DEF Decide, ReturnIsKnown, Returned, NextStep, ObservingStep, StepForOutcome
  <2>3. pc' \in {"observing", "restoring", "idle", "asked"} /\ ~facts'.restoredEarly
    BY <1>0, <1>9, <2>1, <2>2, DroppedEarly DEF Decide, Goto, Restore, Stop, FactsKept
  <2> QED
    BY <2>1, <2>3, OwedGoesOn DEF PastReadBack
<1>10. CASE RestoreWrite \/ RestoreRead
  <2>1. owed # NoRegion /\ RegionKept /\ UNCHANGED record
    BY <1>10 DEF RestoreWrite, RestoreRead, RegionKept
  <2>2. ~(pc = "restoreRead" /\ ReadsOriginal)
    BY <2>1, OriginalInForce
    DEF ReadsOriginal, DiskInv, HeldIsOnDisk, SameIdentity, Working, ThreadSteps
  <2>3. pc' \in {"restoreRead", "restoring", "observing", "idle"} /\ ~facts'.restoredEarly
    BY <1>0, <1>10, <2>1, <2>2, DroppedEarly
    DEF RestoreWrite, RestoreRead, MissedAttempt, TryAgain, GiveUp, Goto, Stop, FactsKept
  <2> QED
    BY <2>1, <2>3, OwedGoesOn DEF PastReadBack
<1>11. CASE FollowResumed
  <2>1. owed # NoRegion /\ RegionKept /\ UNCHANGED record
    BY <1>11 DEF FollowResumed, RegionKept
  <2>2. held.state # "RegionRestoredEarly"
    BY <1>11, <2>1
    DEF FollowResumed, DiskInv, TakeoverReadsDisk, DebtInv, TemporaryRegionIsRecorded,
        RestoredClaimIsTrue
  <2>3. pc' \in {"observing", "idle", "asked"} /\ ~facts'.restoredEarly
    BY <1>11, <2>2, DroppedEarly, FactsAtRequestType DEF FollowResumed, Stop, Facts
  <2> QED
    BY <2>1, <2>3, OwedGoesOn DEF PastReadBack
<1>12. CASE Launch \/ Settle \/ Reinspect \/ AnswerDeadline
  <2>1. owed # NoRegion /\ RegionKept /\ UNCHANGED facts
    BY <1>12
    DEF Launch, Settle, Reinspect, AnswerDeadline, RegionKept, WindowOnly, thread
  <2>2. UNCHANGED record
    BY <1>12, <2>1, InspectionOwes DEF Launch, Settle, Reinspect, AnswerDeadline
  <2>3. pc' \notin PastReadBack
    BY <1>12 DEF Launch, Settle, Reinspect, AnswerDeadline, NothingToDecide, PastReadBack
  <2> QED
    BY <1>0, <2>1, <2>2, <2>3, OwedGoesOn
<1>13. CASE Probe
  BY <1>0, <1>13, OwedGoesOn DEF Probe, RegionKept, WindowOnly, thread, PastReadBack
<1>14. CASE RecoveryPublish
  <2> DEFINE restoring == WithState(held, "RestoringRegion")
  <2>1. owed # NoRegion /\ RegionKept /\ UNCHANGED facts /\ pc' \in {"uiWrite", "reinspecting"}
    BY <1>14 DEF RecoveryPublish, UiKept, UiStops, RegionKept, WindowOnly, thread
  <2>2. restoring \in Records /\ restoring.state \notin Returned
    BY <1>14
    DEF RecoveryPublish, TypeInv, HoldsRecord, Working, RecoveryWithRecord, Records, WithState,
        DurableStates, Returned
  <2>3. Published(restoring) \/ NotPublished(restoring) \/ UNCHANGED record
    BY <1>14 DEF RecoveryPublish
  <2> HIDE DEF restoring
  <2> QED
    BY <1>0, <2>1, <2>2, <2>3, PublicationOwes, OwedGoesOn DEF PastReadBack
<1>15. CASE RecoveryWrite
  BY <1>0, <1>15, OwedGoesOn DEF RecoveryWrite, RegionKept, WindowOnly, thread, PastReadBack
<1>16. CASE RecoveryRead \/ VerifyAndClear
  <2>1. owed # NoRegion /\ RegionKept /\ UNCHANGED facts
    BY <1>16 DEF RecoveryRead, VerifyAndClear, UiKept, RegionKept, WindowOnly, thread
  <2>2. region # held.original
    BY <1>16, <2>1, OriginalInForce
    DEF RecoveryRead, VerifyAndClear, DiskInv, HeldIsOnDisk, SameIdentity, Working,
        RecoveryWithRecord, ThreadSteps
  <2>3. UNCHANGED record /\ pc' = "reinspecting"
    BY <1>16, <2>2 DEF RecoveryRead, VerifyAndClear, NotCleared, UiStops
  <2> QED
    BY <1>0, <2>1, <2>3, OwedGoesOn DEF PastReadBack
<1>17. CASE Close \/ Crash
  <2>1. owed # NoRegion /\ RegionKept
    BY <1>17 DEF Close, Crash, Forgotten, RegionKept
  <2>2. UNCHANGED record
    BY <1>17, <2>1, InspectionOwes DEF Close, Crash, Answers
  <2> QED
    BY <1>17, <2>1, <2>2, OwedGoesOn, DroppedEarly DEF Close, Crash, Forgotten, PastReadBack
<1>18. CASE UserMoves
  BY <1>18 DEF UserMoves
<1>19. CASE InstallEnds \/ UNCHANGED vars
  BY <1>0, <1>19, OwedGoesOn DEF InstallEnds, RegionKept, vars, thread
<1> QED
  BY <1>1, <1>2, <1>3, <1>4, <1>5, <1>6, <1>7, <1>8, <1>9, <1>10, <1>11, <1>12, <1>13,
     <1>14, <1>15, <1>16, <1>17, <1>18, <1>19
  DEF Next, ThreadStep, RecoveryStep

LEMMA DebtHolds == Spec => [](TypeInv /\ ReturnIsKnown /\ DiskInv /\ DebtInv)
<1>1. Init => DebtInv
  BY NothingOwed
  DEF Init, DebtInv, TemporaryRegionIsRecorded, RestoredClaimIsTrue, NothingOwedPastReadBack
<1> QED
  BY <1>1, DebtStep, TypeInvHolds, ReturnHolds, DiskHolds, PTL DEF Spec

\* A region that a switch replaced is named by the published record until it
\* is back in force, through any number of operations, failed publications,
\* failed restores, crashes and restarts (README.md:71, region.rs
\* switch_region).
THEOREM OriginalIsRecorded == Spec => []TemporaryRegionIsRecorded
<1>1. DebtInv => TemporaryRegionIsRecorded
  BY DEF DebtInv
<1> QED
  BY <1>1, DebtHolds, PTL

\* No crash ever leaves a record that claims a return which did not happen
\* (install.rs restore_region, startup.rs execute).
THEOREM RestoredClaimsAreTrue == Spec => []RestoredClaimIsTrue
<1>1. DebtInv => RestoredClaimIsTrue
  BY DEF DebtInv
<1> QED
  BY <1>1, DebtHolds, PTL

-------------------------------------------------------------------------------
(* How the record and the region move, and the abstract promise.           *)

\* The record and the region never change in one step, and a record that is
\* replaced is replaced by one of the same operation.
LEMMA RecordMoves ==
  ASSUME TypeInv, [Next]_vars, record' # record
  PROVE  /\ RegionKept
         /\ record # NoRecord /\ record' # NoRecord => SameIdentity(record, record')
<1>1. ~(\E target \in Regions : BeginOperation(target))
  BY DEF BeginOperation
<1>2. CASE SavePrepared \/ ClearPreserved \/ RecordIdentity \/ RestoreMilestone \/ ClearRecord
  <2>1. held \in Records
    BY <1>2, ThreadHolds
    DEF SavePrepared, ClearPreserved, RecordIdentity, RestoreMilestone, ClearRecord, ThreadSteps
  <2> QED
    BY <1>2, <2>1
    DEF SavePrepared, ClearPreserved, RecordIdentity, RestoreMilestone, ClearRecord, Published,
        NotPublished, MayPublish, Cleared, NotCleared, SameIdentity
<1>3. CASE Launch \/ Settle \/ Reinspect \/ AnswerDeadline
  <2>1. ASSUME NEW answer \in Answers, Inspects(answer) PROVE record' \in {record, NoRecord}
    BY <2>1 DEF Inspects, Answers
  <2>2. RegionKept
    BY <1>3 DEF Launch, Settle, Reinspect, AnswerDeadline
  <2>3. PICK answer \in Answers : Inspects(answer)
    BY <1>3 DEF Launch, Settle, Reinspect, AnswerDeadline
  <2> QED
    BY <2>1, <2>2, <2>3
<1>4. CASE RecoveryPublish \/ RecoveryMilestone \/ RecoveryClear \/ VerifyAndClear
  BY <1>4
  DEF RecoveryPublish, RecoveryMilestone, RecoveryClear, VerifyAndClear, UiKept, Published,
      NotPublished, MayPublish, Cleared, NotCleared
<1>5. CASE Close
  BY <1>5 DEF Close, Forgotten, Inspects
<1> QED
  BY <1>1, <1>2, <1>3, <1>4, <1>5
  DEF Next, ThreadStep, RecoveryStep, WriteTemporary, ReadBack, Resolve, TakeBaseline,
      StartInstall, Observe, Decide, RestoreWrite, RestoreRead, FollowResumed, Probe,
      RecoveryWrite, RecoveryRead, Crash, Forgotten, InstallEnds, UserMoves, vars

\* The region moves only to one of the two regions of the record on disk, or
\* where the user puts it.
LEMMA RegionMoves ==
  ASSUME TypeInv, DiskInv, [Next]_vars, ~RegionKept
  PROVE  /\ UNCHANGED record
         /\ \/ /\ record # NoRecord /\ region' = record.temporary
               /\ owed' = IF record.temporary = record.original THEN NoRegion
                          ELSE record.original
            \/ record # NoRecord /\ region' = record.original /\ owed' = NoRegion
            \/ region' \in Regions \ {region} /\ owed' = NoRegion
<1>1. CASE WriteTemporary \/ RestoreWrite \/ RecoveryWrite
  <2>1. record # NoRecord /\ SameIdentity(record, held)
    BY <1>1
    DEF WriteTemporary, RestoreWrite, RecoveryWrite, DiskInv, HeldIsOnDisk, Working,
        ThreadSteps, RecoveryWithRecord
  <2> QED
    BY <1>1, <2>1 DEF WriteTemporary, RestoreWrite, RecoveryWrite, SameIdentity
<1>2. CASE UserMoves
  BY <1>2 DEF UserMoves
<1> QED
  BY <1>1, <1>2
  DEF Next, BeginOperation, ThreadStep, RecoveryStep, SavePrepared, ReadBack, ClearPreserved,
      Resolve, RecordIdentity, TakeBaseline, StartInstall, Observe, Decide, RestoreRead,
      RestoreMilestone, ClearRecord, FollowResumed, Launch, Probe, Settle, RecoveryPublish,
      RecoveryRead, RecoveryMilestone, RecoveryClear, VerifyAndClear, Reinspect,
      AnswerDeadline, UiKept, Close, Crash, Forgotten, InstallEnds, vars, RegionKept

\* A record is forgotten only when its region is not owed.
LEMMA ForgottenOwesNothing ==
  ASSUME TypeInv, DebtInv, DebtInv', [Next]_vars, record # NoRecord, record' = NoRecord
  PROVE  owed = NoRegion
<1>1. RegionKept
  BY RecordMoves
<1> QED
  BY <1>1 DEF DebtInv, TemporaryRegionIsRecorded, RegionKept

\* A published record is replaced only within its operation and forgotten
\* only when nothing is owed, whichever of the operation, the recovery of a
\* later start and the inspections removes it (storage.rs publish and
\* clear_verified, startup.rs inspect and execute).
THEOREM RecordsOutliveDebts == Spec => RecordOutlivesDebt
<1>1. TypeInv /\ DebtInv /\ DebtInv' /\ [Next]_vars =>
        [record # NoRecord /\ record' # record =>
           IF record' = NoRecord THEN owed = NoRegion ELSE SameIdentity(record, record')]_vars
  BY RecordMoves, ForgottenOwesNothing
<1> QED
  BY <1>1, DebtHolds, PTL DEF Spec, RecordOutlivesDebt

\* A guarded installation with its crashes, takeovers and recoveries is an
\* implementation of the promise: nothing it does to the region or the record
\* is more than saving, switching, putting back and forgetting.
THEOREM InstallKeepsPromise == Spec => ImplementsPromise
<1> DEFINE saved == IF record = NoRecord THEN NothingSaved
                    ELSE [original |-> record.original, temporary |-> record.temporary]
<1>1. Init => Promise!Init
  BY DEF Init, Promise!Init, NothingSaved
<1>2. TypeInv /\ TypeInv' /\ DiskInv /\ DebtInv /\ DebtInv' /\ [Next]_vars
        => [Promise!Next]_(Promise!vars)
  <2> SUFFICES ASSUME TypeInv, TypeInv', DiskInv, DebtInv, DebtInv', [Next]_vars
               PROVE  [Promise!Next]_(Promise!vars)
    OBVIOUS
  <2>1. ASSUME NEW r \in Records
        PROVE  /\ [original |-> r.original, temporary |-> r.temporary] \in Promise!Changes
               /\ [original |-> r.original, temporary |-> r.temporary] # NothingSaved
    BY <2>1 DEF Records, Promise!Changes, NothingSaved
  <2>2. record \in Records \cup {NoRecord} /\ record' \in Records \cup {NoRecord}
    BY DEF TypeInv, TypeOK
  <2>3. CASE ~RegionKept
    BY <2>1, <2>2, <2>3, RegionMoves
    DEF Promise!Next, Promise!Switch, Promise!PutBack, Promise!UserMoves, NothingSaved
  <2>4. CASE RegionKept /\ record' = record
    BY <2>4 DEF RegionKept, Promise!vars
  <2>5. CASE RegionKept /\ record = NoRecord /\ record' # NoRecord
    BY <2>1, <2>2, <2>5 DEF RegionKept, Promise!Next, Promise!Save, NothingSaved
  <2>6. CASE RegionKept /\ record # NoRecord /\ record' = NoRecord
    BY <2>1, <2>2, <2>6, ForgottenOwesNothing
    DEF RegionKept, Promise!Next, Promise!Forget, NothingSaved
  <2>7. CASE RegionKept /\ record # NoRecord /\ record' # NoRecord /\ record' # record
    BY <2>7, RecordMoves DEF RegionKept, Promise!vars, SameIdentity
  <2> QED
    BY <2>3, <2>4, <2>5, <2>6, <2>7
<1> QED
  BY <1>1, <1>2, DebtHolds, PTL DEF Spec, ImplementsPromise, Promise!Spec

-------------------------------------------------------------------------------
(* The machine follows the code: the state of the operation at every step. *)

SwitchingSteps == {"writing", "readBack", "clearPreserved"}
PreparingSteps == {"resolving", "identifying", "measuring", "starting"}
RestoringSteps == {"restoring", "restoreRead", "milestone"}

\* Only the ways out after a stated failure leave the state open: they raise
\* no event any more.
StateFits ==
    /\ pc = "saving" => machine = "SavingRecoveryState"
    /\ pc \in SwitchingSteps => machine = "SwitchingRegion"
    /\ pc \in PreparingSteps => machine = "RefreshingStoreContext"
    /\ pc = "observing" => machine \in {"InstallObserved", "Installing", "RegionRestoredEarly"}
    /\ pc \in RestoringSteps =>
         /\ purpose = "early" => machine = "Installing"
         /\ purpose \in {"rollback", "outcome"} => machine = "RestoringRegion"

\* What the last observation made of it, before the next step is decided.
ObservationFits ==
    pc = "deciding" =>
        /\ facts.lastObservation = "Installing" =>
             machine \in {"Installing", "RegionRestoredEarly"}
        /\ facts.lastObservation = "Completed" => machine \in {"Installed", "Restored"}
        /\ facts.lastObservation \notin {"Installing", "Completed"} =>
             machine = "CompletionUncertain"

\* An operation that knows of its early restore is past it in the machine too.
ReturnIsInMachine ==
    facts.restoredEarly /\ pc # "clearing" =>
        machine \in {"RegionRestoredEarly", "Restored", "CompletionUncertain"}

MachineInv == StateFits /\ ObservationFits /\ ReturnIsInMachine /\ NeverRefused

\* An entry of the table is what Advance does.
LEMMA MoveApplies ==
  ASSUME NEW s, NEW e, NEW t \in States, Moves(s, e, t)
  PROVE  CanApply(s, e) /\ s ++ e = t
<1>1. CanApply(s, e)
  BY DEF CanApply
<1> QED
  BY <1>1, AdvanceMoves, MovesIsFunction DEF ++

LEMMA StraightMove ==
  ASSUME NEW s, NEW e, NEW t, <<s, e, t>> \in StraightMoves
  PROVE  CanApply(s, e) /\ s ++ e = t
<1>1. t \in States
  BY DEF StraightMoves, States, TerminalStates, RecoveryStates
<1> QED
  BY <1>1, MoveApplies DEF Moves

\* The ways of the machine through the switch and up to the request.
LEMMA SwitchMoves ==
  /\ Opened = "SavingRecoveryState"
  /\ CanApply("SavingRecoveryState", "RecoveryStateSaved")
  /\ "SavingRecoveryState" ++ "RecoveryStateSaved" = "SwitchingRegion"
  /\ CanApply("SwitchingRegion", "SwitchFinishedSwitched")
  /\ "SwitchingRegion" ++ "SwitchFinishedSwitched" = "RegionSwitched"
  /\ CanApply("SwitchingRegion", "SwitchFinishedPreserved")
  /\ CanApply("SwitchingRegion", "SwitchFinishedConflict")
  /\ CanApply("RegionSwitched", "BeginRefreshingStoreContext")
  /\ "RegionSwitched" ++ "BeginRefreshingStoreContext" = "RefreshingStoreContext"
<1>1. /\ "Idle" ++ "BeginResolvingProduct" = "ResolvingProduct"
      /\ "ResolvingProduct" ++ "ProductResolved" = "ProductResolved"
      /\ "ProductResolved" ++ "BeginPreparing" = "Preparing"
      /\ "Preparing" ++ "BeginSavingRecoveryState" = "SavingRecoveryState"
  BY StraightMove DEF StraightMoves
<1> QED
  BY <1>1, StraightMove DEF StraightMoves, Opened

LEMMA RequestMoves ==
  /\ CanApply("RefreshingStoreContext", "BeginInstall")
  /\ "RefreshingStoreContext" ++ "BeginInstall" = "StartingInstall"
  /\ "StartingInstall" ++ "InstallRequestAccepted" = "InstallRequested"
  /\ "InstallRequested" ++ "ObservationStarted" = "InstallObserved"
BY StraightMove DEF StraightMoves

LEMMA ReplayMoves == Replayed = "InstallObserved" /\ ReplayedEarly = "RegionRestoredEarly"
<1>1. Replayed = "InstallObserved"
  BY SwitchMoves, RequestMoves DEF Replayed
<1>2. /\ "InstallObserved" ++ "ObservedInstalling" = "Installing"
      /\ "Installing" ++ "EarlyRegionRestoreConfirmed" = "RegionRestoredEarly"
  BY StraightMove DEF StraightMoves
<1> QED
  BY <1>1, <1>2 DEF ReplayedEarly

\* What an observation makes of a state that is being observed.
Observed == {"InstallObserved", "Installing", "RegionRestoredEarly"}

LEMMA ObservationMoves ==
  ASSUME NEW s \in Observed, NEW observation \in Observations
  PROVE  LET e == ObservationEvent(observation) IN
         /\ CanApply(s, e)
         /\ observation = "Installing" =>
              s ++ e = IF s = "RegionRestoredEarly" THEN s ELSE "Installing"
         /\ observation = "Completed" =>
              s ++ e = IF s = "RegionRestoredEarly" THEN "Restored" ELSE "Installed"
         /\ observation = "CompletionUncertain" => s ++ e = "CompletionUncertain"
<1>1. CASE observation = "Installing"
  BY <1>1, StraightMove DEF Observed, ObservationEvent, StraightMoves
<1>2. CASE observation = "Completed"
  BY <1>2, StraightMove DEF Observed, ObservationEvent, StraightMoves
<1>3. CASE observation = "CompletionUncertain"
  <2>1. Moves(s, "ObservedUncertain", "CompletionUncertain")
    BY DEF Observed, Moves, ClassMoves, UncertainEvents
  <2>2. "CompletionUncertain" \in States
    BY DEF States, RecoveryStates
  <2> QED
    BY <1>3, <2>1, <2>2, MoveApplies DEF ObservationEvent
<1> QED
  BY <1>1, <1>2, <1>3 DEF Observations

\* A deadline and a lost backend are events of every observed state.
LEMMA UncertainMoves ==
  ASSUME NEW s \in Observed, NEW e \in UncertainEvents
  PROVE  CanApply(s, e)
<1>1. Moves(s, e, "CompletionUncertain")
  BY DEF Observed, Moves, ClassMoves
<1> QED
  BY <1>1 DEF CanApply, States, RecoveryStates

\* A failure under the temporary region is one of every recovery state.
LEMMA FailureMoves ==
  ASSUME NEW s \in RecoveryStates
  PROVE  /\ CanApply(s, "FailWithTemporaryRegion")
         /\ s ++ "FailWithTemporaryRegion" = "FailedWithTemporaryRegion"
<1>1. Moves(s, "FailWithTemporaryRegion", "FailedWithTemporaryRegion")
  BY DEF Moves, ClassMoves
<1>2. "FailedWithTemporaryRegion" \in States
  BY DEF States, RecoveryStates
<1> QED
  BY <1>1, <1>2, MoveApplies

\* The ways back to the original region.
LEMMA RestoreMoves ==
  /\ CanApply("Installing", "EarlyRegionRestoreConfirmed")
  /\ "Installing" ++ "EarlyRegionRestoreConfirmed" = "RegionRestoredEarly"
  /\ CanApply("FailedWithTemporaryRegion", "BeginRestoringRegion")
  /\ "FailedWithTemporaryRegion" ++ "BeginRestoringRegion" = "RestoringRegion"
  /\ CanApply("Installed", "BeginRestoringRegion")
  /\ "Installed" ++ "BeginRestoringRegion" = "RestoringRegion"
  /\ CanApply("RestoringRegion", "RestoreFailed")
  /\ CanApply("RestoringRegion", "OriginalRegionRestored")
  /\ "RestoringRegion" ++ "OriginalRegionRestored" = "Restored"
  /\ CanApply("Restored", "Complete")
BY StraightMove DEF StraightMoves

\* A step that neither observes nor remembers an early restore.
LEMMA FitsUnobserved ==
  ASSUME ~facts'.restoredEarly, pc' # "deciding", StateFits', ~refused'
  PROVE  MachineInv'
BY DEF MachineInv, ObservationFits, ReturnIsInMachine, NeverRefused

\* A thread that ends.
LEMMA StopFits ==
  ASSUME NEW step \in Rest, Stop(step), ~refused'
  PROVE  MachineInv'
<1>1. StateFits' /\ pc' # "deciding"
  BY DEF Stop, StateFits, Rest, SwitchingSteps, PreparingSteps, RestoringSteps
<1>2. ~facts'.restoredEarly
  BY DroppedEarly DEF Stop
<1> QED
  BY <1>1, <1>2, FitsUnobserved

LEMMA FailureFits ==
  ASSUME ~facts.restoredEarly, ~refused, machine \in RecoveryStates, FailUnderTemporary
  PROVE  MachineInv'
<1>1. ~refused'
  BY FailureMoves DEF FailUnderTemporary, Raise1, Accepts
<1>2. StateFits' /\ pc' # "deciding" /\ ~facts'.restoredEarly
  BY DEF FailUnderTemporary, Restore, FactsKept, StateFits, SwitchingSteps, PreparingSteps,
         RestoringSteps
<1> QED
  BY <1>1, <1>2, FitsUnobserved

LEMMA GiveUpFits ==
  ASSUME MachineInv, pc \in RestoringSteps, ~facts.restoredEarly, GiveUp
  PROVE  MachineInv'
<1>1. CASE purpose = "early" /\ Goto("observing") /\ MachineKept /\ FactsKept
  <2>1. StateFits'
    BY <1>1
    DEF MachineInv, StateFits, Goto, MachineKept, SwitchingSteps, PreparingSteps,
        RestoringSteps
  <2>2. ~refused' /\ ~facts'.restoredEarly /\ pc' # "deciding"
    BY <1>1 DEF MachineInv, NeverRefused, Goto, MachineKept, FactsKept
  <2> QED
    BY <2>1, <2>2, FitsUnobserved
<1>2. CASE /\ purpose \in {"rollback", "outcome"}
           /\ Accepts("RestoreFailed") /\ Stop("idle")
  <2>1. ~refused'
    BY <1>2, RestoreMoves DEF MachineInv, StateFits, NeverRefused, Accepts
  <2> QED
    BY <1>2, <2>1, StopFits DEF Rest
<1>3. CASE Stop("idle") /\ UNCHANGED refused
  BY <1>3, StopFits DEF MachineInv, NeverRefused, Rest
<1> QED
  BY <1>1, <1>2, <1>3 DEF GiveUp

LEMMA MissedAttemptFits ==
  ASSUME MachineInv, pc \in RestoringSteps, ~facts.restoredEarly, MissedAttempt
  PROVE  MachineInv'
<1>1. CASE TryAgain
  <2>1. StateFits'
    BY <1>1
    DEF MachineInv, StateFits, TryAgain, MachineKept, SwitchingSteps, PreparingSteps,
        RestoringSteps
  <2>2. ~refused' /\ ~facts'.restoredEarly /\ pc' # "deciding"
    BY <1>1 DEF MachineInv, NeverRefused, TryAgain, MachineKept, FactsKept
  <2> QED
    BY <2>1, <2>2, FitsUnobserved
<1> QED
  BY <1>1, GiveUpFits DEF MissedAttempt

LEMMA MachineStep == TypeInv /\ ReturnIsKnown /\ MachineInv /\ [Next]_vars => MachineInv'
<1> SUFFICES ASSUME TypeInv, ReturnIsKnown, MachineInv, [Next]_vars PROVE MachineInv'
  OBVIOUS
<1>0. ~refused /\ facts \in Facts
  BY DEF MachineInv, NeverRefused, TypeInv, TypeOK
<1>1. ASSUME NEW target \in Regions, BeginOperation(target) PROVE MachineInv'
  <2>1. CASE /\ machine' = Opened /\ refused' = (refused \/ Opened # "SavingRecoveryState")
             /\ Goto("saving") /\ UNCHANGED facts
    <3>1. StateFits' /\ ~refused' /\ pc' # "deciding"
      BY <1>0, <2>1, SwitchMoves
      DEF StateFits, Goto, SwitchingSteps, PreparingSteps, RestoringSteps
    <3>2. ~facts'.restoredEarly
      BY <1>1, <2>1, UnreturnedBefore DEF BeginOperation
    <3> QED
      BY <3>1, <3>2, FitsUnobserved
  <2>2. CASE Stop("idle") /\ UNCHANGED refused
    BY <1>0, <2>2, StopFits DEF Rest
  <2> QED
    BY <1>1, <2>1, <2>2 DEF BeginOperation
<1>2. CASE SavePrepared
  <2>1. machine = "SavingRecoveryState" /\ ~facts.restoredEarly
    BY <1>2, UnreturnedBefore DEF SavePrepared, MachineInv, StateFits
  <2>2. CASE Raise1("RecoveryStateSaved") /\ Goto("writing") /\ FactsKept
    <3>1. machine' = "SwitchingRegion" /\ ~refused'
      BY <1>0, <2>1, <2>2, SwitchMoves DEF Raise1, Accepts
    <3>2. StateFits' /\ pc' # "deciding" /\ ~facts'.restoredEarly
      BY <2>1, <2>2, <3>1
      DEF StateFits, Goto, FactsKept, SwitchingSteps, PreparingSteps, RestoringSteps
    <3> QED
      BY <3>1, <3>2, FitsUnobserved
  <2>3. CASE Accepts("RecoveryStateSaved") /\ Stop("idle")
    BY <1>0, <2>1, <2>3, SwitchMoves, StopFits DEF Accepts, Rest
  <2> QED
    BY <1>2, <2>2, <2>3 DEF SavePrepared
<1>3. CASE WriteTemporary
  <2>1. StateFits'
    BY <1>3
    DEF WriteTemporary, Goto, MachineKept, MachineInv, StateFits, SwitchingSteps,
        PreparingSteps, RestoringSteps
  <2>2. ~refused' /\ pc' # "deciding" /\ ~facts'.restoredEarly
    BY <1>0, <1>3, UnreturnedBefore DEF WriteTemporary, Goto, MachineKept, FactsKept
  <2> QED
    BY <2>1, <2>2, FitsUnobserved
<1>4. CASE ReadBack
  <2>1. machine = "SwitchingRegion" /\ ~facts.restoredEarly
    BY <1>4, UnreturnedBefore DEF ReadBack, MachineInv, StateFits, SwitchingSteps
  <2>2. CASE /\ Raise2("FailWithTemporaryRegion", "BeginRestoringRegion")
             /\ Restore("rollback") /\ FactsKept
    <3>1. machine' = "RestoringRegion" /\ ~refused'
      BY <1>0, <2>1, <2>2, FailureMoves, RestoreMoves DEF Raise2, RecoveryStates
    <3>2. StateFits' /\ pc' # "deciding" /\ ~facts'.restoredEarly
      BY <2>1, <2>2, <3>1
      DEF StateFits, Restore, FactsKept, SwitchingSteps, PreparingSteps, RestoringSteps
    <3> QED
      BY <3>1, <3>2, FitsUnobserved
  <2>3. CASE /\ Raise2("SwitchFinishedSwitched", "BeginRefreshingStoreContext")
             /\ Goto("resolving") /\ FactsKept
    <3>1. machine' = "RefreshingStoreContext" /\ ~refused'
      BY <1>0, <2>1, <2>3, SwitchMoves DEF Raise2
    <3>2. StateFits' /\ pc' # "deciding" /\ ~facts'.restoredEarly
      BY <2>1, <2>3, <3>1
      DEF StateFits, Goto, FactsKept, SwitchingSteps, PreparingSteps, RestoringSteps
    <3> QED
      BY <3>1, <3>2, FitsUnobserved
  <2>4. CASE MachineKept /\ Goto("clearPreserved") /\ FactsKept
    <3>1. StateFits' /\ pc' # "deciding" /\ ~facts'.restoredEarly /\ ~refused'
      BY <1>0, <2>1, <2>4
      DEF StateFits, Goto, MachineKept, FactsKept, SwitchingSteps, PreparingSteps,
          RestoringSteps
    <3> QED
      BY <3>1, FitsUnobserved
  <2>5. CASE Accepts("SwitchFinishedConflict") /\ Stop("idle")
    BY <1>0, <2>1, <2>5, SwitchMoves, StopFits DEF Accepts, Rest
  <2> QED
    BY <1>4, <2>2, <2>3, <2>4, <2>5 DEF ReadBack
<1>5. CASE ClearPreserved
  <2>1. ~refused'
    BY <1>0, <1>5, SwitchMoves
    DEF ClearPreserved, Accepts, MachineInv, StateFits, SwitchingSteps
  <2> QED
    BY <1>5, <2>1, StopFits DEF ClearPreserved, Rest
<1>6. CASE Resolve \/ RecordIdentity \/ TakeBaseline
  <2>1. machine = "RefreshingStoreContext" /\ ~facts.restoredEarly
    BY <1>6, UnreturnedBefore
    DEF Resolve, RecordIdentity, TakeBaseline, MachineInv, StateFits, PreparingSteps
  <2>2. CASE FailUnderTemporary
    BY <1>0, <2>1, <2>2, FailureFits DEF RecoveryStates
  <2>3. CASE /\ MachineKept /\ pc' \in PreparingSteps
             /\ facts' \in {facts, [facts EXCEPT !.resolved = TRUE]}
    <3>1. StateFits' /\ pc' # "deciding" /\ ~refused'
      BY <1>0, <2>1, <2>3
      DEF StateFits, MachineKept, SwitchingSteps, PreparingSteps, RestoringSteps
    <3>2. ~facts'.restoredEarly
      BY <1>0, <2>1, <2>3 DEF Facts
    <3> QED
      BY <3>1, <3>2, FitsUnobserved
  <2> QED
    BY <1>6, <2>2, <2>3
    DEF Resolve, RecordIdentity, TakeBaseline, Goto, FactsKept, PreparingSteps
<1>7. CASE StartInstall
  <2>1. machine = "RefreshingStoreContext" /\ ~facts.restoredEarly /\ FactsKept
    BY <1>7, UnreturnedBefore DEF StartInstall, MachineInv, StateFits, PreparingSteps
  <2>2. CASE /\ machine' = machine ++ "BeginInstall" ++ "InstallRequestAccepted"
                                   ++ "ObservationStarted"
             /\ refused' = (refused \/ machine' # "InstallObserved")
             /\ Goto("observing")
    <3>1. machine' = "InstallObserved" /\ ~refused'
      BY <1>0, <2>1, <2>2, RequestMoves
    <3>2. StateFits' /\ pc' # "deciding" /\ ~facts'.restoredEarly
      BY <2>1, <2>2, <3>1
      DEF StateFits, Goto, FactsKept, SwitchingSteps, PreparingSteps, RestoringSteps
    <3> QED
      BY <3>1, <3>2, FitsUnobserved
  <2>3. CASE Raise1("BeginInstall") /\ Restore("unwind")
    <3>1. ~refused'
      BY <1>0, <2>1, <2>3, RequestMoves DEF Raise1, Accepts
    <3>2. StateFits' /\ pc' # "deciding" /\ ~facts'.restoredEarly
      BY <2>1, <2>3
      DEF StateFits, Restore, FactsKept, SwitchingSteps, PreparingSteps, RestoringSteps
    <3> QED
      BY <3>1, <3>2, FitsUnobserved
  <2> QED
    BY <1>7, <2>2, <2>3 DEF StartInstall
<1>8. CASE Observe
  <2>1. machine \in Observed /\ machine \in RecoveryStates
    BY <1>8 DEF Observe, MachineInv, StateFits, Observed, RecoveryStates
  <2>2. ASSUME NEW observation \in Observations, RecordObservation(observation)
        PROVE  MachineInv'
    <3>1. /\ facts'.lastObservation = observation
          /\ facts'.restoredEarly = facts.restoredEarly /\ pc' = "deciding"
      BY <1>0, <2>2 DEF RecordObservation, Facts, Goto
    <3>2. ~refused'
      BY <1>0, <2>1, <2>2, ObservationMoves DEF RecordObservation, Raise1, Accepts
    <3>3. machine' = machine ++ ObservationEvent(observation)
      BY <2>2 DEF RecordObservation, Raise1
    <3>4. ObservationFits'
      BY <2>1, <3>1, <3>3, ObservationMoves DEF ObservationFits, Observations, Observed
    <3>5. facts.restoredEarly => machine = "RegionRestoredEarly"
      BY <1>8, <2>1 DEF Observe, MachineInv, ReturnIsInMachine, Observed
    <3>6. ReturnIsInMachine'
      BY <2>1, <3>1, <3>3, <3>5, ObservationMoves DEF ReturnIsInMachine, Observations
    <3>7. StateFits'
      BY <3>1 DEF StateFits, SwitchingSteps, PreparingSteps, RestoringSteps
    <3> QED
      BY <3>2, <3>4, <3>6, <3>7 DEF MachineInv, NeverRefused
  <2>3. CASE Raise1("FailWithTemporaryRegion") /\ StatedFailureEnds /\ FactsKept
    <3>1. ~refused'
      BY <1>0, <2>1, <2>3, FailureMoves DEF Raise1, Accepts
    <3>2. StateFits' /\ ObservationFits' /\ ReturnIsInMachine'
      BY <2>3
      DEF StatedFailureEnds, Restore, Clear, FactsKept, StateFits, ObservationFits,
          ReturnIsInMachine, SwitchingSteps, PreparingSteps, RestoringSteps
    <3> QED
      BY <3>1, <3>2 DEF MachineInv, NeverRefused
  <2>4. CASE Accepts("CompletionBecameUncertain") /\ Stop("idle")
    BY <1>0, <2>1, <2>4, UncertainMoves, StopFits DEF Accepts, UncertainEvents, Rest
  <2> QED
    BY <1>8, <2>2, <2>3, <2>4 DEF Observe, ConfirmedCompletion, Observations
<1>9. CASE Decide
  <2> DEFINE step == NextStep(machine, facts)
  <2>0. machine \in {"Installing", "RegionRestoredEarly", "Installed", "Restored",
                     "CompletionUncertain"}
    BY <1>9 DEF Decide, MachineInv, ObservationFits
  <2>1. CASE /\ step \in {"KeepObserving", "Wait"}
             /\ MachineKept /\ Goto("observing") /\ FactsKept
    <3>1. machine \in {"Installing", "RegionRestoredEarly"}
      BY <1>9, <2>0, <2>1
      DEF Decide, MachineInv, ObservationFits, NextStep, StepForOutcome
    <3>2. StateFits' /\ ObservationFits' /\ ~refused'
      BY <1>0, <2>1, <3>1
      DEF StateFits, ObservationFits, Goto, MachineKept, SwitchingSteps, PreparingSteps,
          RestoringSteps
    <3>3. ReturnIsInMachine'
      BY <1>9, <2>1 DEF Decide, MachineInv, ReturnIsInMachine, MachineKept, FactsKept
    <3> QED
      BY <3>2, <3>3 DEF MachineInv, NeverRefused
  <2>2. CASE /\ step = "RestoreRegionEarly"
             /\ MachineKept /\ Restore("early") /\ FactsKept
    <3>1. machine = "Installing" /\ ~facts.restoredEarly
      BY <2>0, <2>2 DEF NextStep, ObservingStep, StepForOutcome
    <3>2. StateFits' /\ pc' # "deciding" /\ ~refused' /\ ~facts'.restoredEarly
      BY <1>0, <2>2, <3>1
      DEF StateFits, Restore, MachineKept, FactsKept, SwitchingSteps, PreparingSteps,
          RestoringSteps
    <3> QED
      BY <3>2, FitsUnobserved
  <2>3. CASE /\ step = "RestoreRegion"
             /\ Raise1("BeginRestoringRegion") /\ Restore("outcome") /\ FactsKept
    <3>1. machine = "Installed" /\ ~facts.restoredEarly
      BY <1>9, <2>0, <2>3
      DEF Decide, MachineInv, ObservationFits, NextStep, ObservingStep, StepForOutcome
    <3>2. machine' = "RestoringRegion" /\ ~refused'
      BY <1>0, <2>3, <3>1, RestoreMoves DEF Raise1, Accepts
    <3>3. StateFits' /\ pc' # "deciding" /\ ~facts'.restoredEarly
      BY <2>3, <3>1, <3>2
      DEF StateFits, Restore, FactsKept, SwitchingSteps, PreparingSteps, RestoringSteps
    <3> QED
      BY <3>2, <3>3, FitsUnobserved
  <2>4. CASE step = "Finish" /\ Raise1("Complete") /\ Clear("finish") /\ FactsKept
    <3>1. machine = "Restored"
      BY <1>9, <2>0, <2>4
      DEF Decide, MachineInv, ObservationFits, ReturnIsInMachine, NextStep, ObservingStep,
          StepForOutcome
    <3>2. ~refused'
      BY <1>0, <2>4, <3>1, RestoreMoves DEF Raise1, Accepts
    <3>3. StateFits' /\ ObservationFits' /\ ReturnIsInMachine'
      BY <2>4
      DEF Clear, StateFits, ObservationFits, ReturnIsInMachine, SwitchingSteps,
          PreparingSteps, RestoringSteps
    <3> QED
      BY <3>2, <3>3 DEF MachineInv, NeverRefused
  <2>5. CASE /\ step = "AskUserAfterTimeout"
             /\ IF machine = "CompletionUncertain"
                THEN UNCHANGED refused
                ELSE Accepts("ObservationTimedOut")
             /\ Stop(IF facts.restoredEarly THEN "idle" ELSE "asked")
    <3>1. machine \in Observed \cup {"CompletionUncertain"}
      BY <2>0, <2>5 DEF NextStep, StepForOutcome, Observed
    <3>2. ~refused'
      BY <1>0, <2>5, <3>1, UncertainMoves DEF Accepts, UncertainEvents
    <3> QED
      BY <2>5, <3>2, StopFits DEF Rest
  <2> QED
    BY <1>9, <2>1, <2>2, <2>3, <2>4, <2>5 DEF Decide
<1>10. CASE RestoreWrite \/ RestoreRead
  <2>1. pc \in RestoringSteps /\ ~facts.restoredEarly
    BY <1>10, UnreturnedBefore DEF RestoreWrite, RestoreRead, RestoringSteps
  <2>2. CASE MissedAttempt
    BY <2>1, <2>2, MissedAttemptFits
  <2>3. CASE /\ Goto("restoreRead") \/ Goto("milestone")
             /\ MachineKept /\ FactsKept
    <3>1. StateFits'
      BY <2>1, <2>3
      DEF MachineInv, StateFits, Goto, MachineKept, SwitchingSteps, PreparingSteps,
          RestoringSteps
    <3>2. ~refused' /\ pc' # "deciding" /\ ~facts'.restoredEarly
      BY <1>0, <2>1, <2>3 DEF Goto, MachineKept, FactsKept
    <3> QED
      BY <3>1, <3>2, FitsUnobserved
  <2> QED
    BY <1>10, <2>2, <2>3 DEF RestoreWrite, RestoreRead
<1>11. CASE RestoreMilestone
  <2>1. pc \in RestoringSteps /\ ~facts.restoredEarly
    BY <1>11, UnreturnedBefore DEF RestoreMilestone, RestoringSteps
  <2>2. CASE GiveUp
    BY <2>1, <2>2, GiveUpFits
  <2>3. CASE /\ purpose = "early"
             /\ facts' = [facts EXCEPT !.restoredEarly = TRUE]
             /\ Raise1("EarlyRegionRestoreConfirmed") /\ Goto("observing")
    <3>1. machine' = "RegionRestoredEarly" /\ ~refused'
      BY <1>0, <2>1, <2>3, RestoreMoves DEF Raise1, Accepts, MachineInv, StateFits
    <3>2. StateFits' /\ ObservationFits' /\ ReturnIsInMachine'
      BY <2>3, <3>1
      DEF Goto, StateFits, ObservationFits, ReturnIsInMachine, SwitchingSteps,
          PreparingSteps, RestoringSteps
    <3> QED
      BY <3>1, <3>2 DEF MachineInv, NeverRefused
  <2>4. CASE /\ Goto("clearing") /\ UNCHANGED facts
             /\ \/ /\ purpose = "outcome"
                   /\ Raise2("OriginalRegionRestored", "Complete")
                \/ /\ purpose = "rollback"
                   /\ Raise1("OriginalRegionRestored")
                \/ MachineKept
    <3>1. ~refused'
      BY <1>0, <2>1, <2>4, RestoreMoves
      DEF Raise1, Raise2, Accepts, MachineKept, MachineInv, StateFits
    <3>2. StateFits' /\ pc' # "deciding" /\ ~facts'.restoredEarly
      BY <2>1, <2>4 DEF Goto, StateFits, SwitchingSteps, PreparingSteps, RestoringSteps
    <3> QED
      BY <3>1, <3>2, FitsUnobserved
  <2> QED
    BY <1>11, <2>2, <2>3, <2>4 DEF RestoreMilestone
<1>12. CASE ClearRecord
  BY <1>0, <1>12, StopFits DEF ClearRecord, Rest
<1>13. CASE FollowResumed
  <2> DEFINE early == held.state = "RegionRestoredEarly"
  <2>1. CASE /\ machine' = IF early THEN ReplayedEarly ELSE Replayed
             /\ refused' =
                  (refused \/ machine' # IF early THEN "RegionRestoredEarly" ELSE "InstallObserved")
             /\ facts' = [FactsAtRequest EXCEPT !.resolved = TRUE, !.restoredEarly = early]
             /\ pc' = "observing"
    <3>1. machine' = (IF early THEN "RegionRestoredEarly" ELSE "InstallObserved") /\ ~refused'
      BY <1>0, <2>1, ReplayMoves
    <3>2. facts'.restoredEarly = early
      BY <2>1, FactsAtRequestType DEF Facts
    <3>3. StateFits' /\ ObservationFits' /\ ReturnIsInMachine'
      BY <2>1, <3>1, <3>2
      DEF StateFits, ObservationFits, ReturnIsInMachine, SwitchingSteps, PreparingSteps,
          RestoringSteps
    <3> QED
      BY <3>1, <3>3 DEF MachineInv, NeverRefused
  <2>2. CASE Stop(IF early THEN "idle" ELSE "asked") /\ UNCHANGED refused
    BY <1>0, <2>2, StopFits DEF Rest
  <2> QED
    BY <1>13, <2>1, <2>2 DEF FollowResumed
<1>14. CASE Launch \/ RecoveryStep \/ AnswerDeadline
  <2>1. /\ UNCHANGED thread /\ UNCHANGED refused
        /\ pc \in {"off", "asked"} \cup RecoverySteps
        /\ pc' \in {"idle", "following", "asked"} \cup RecoverySteps
    BY <1>14
    DEF Launch, AnswerDeadline, NothingToDecide, RecoveryStep, Probe, Settle, RecoveryPublish,
        RecoveryWrite, RecoveryRead, RecoveryMilestone, RecoveryClear, VerifyAndClear,
        Reinspect, UiKept, UiStops, WindowOnly, RecoverySteps
  <2>2. ~facts'.restoredEarly /\ ~refused'
    BY <1>0, <2>1, UnreturnedBefore DEF thread, RecoverySteps
  <2>3. StateFits' /\ pc' # "deciding"
    BY <2>1 DEF StateFits, RecoverySteps, SwitchingSteps, PreparingSteps, RestoringSteps
  <2> QED
    BY <2>2, <2>3, FitsUnobserved
<1>15. CASE Close \/ Crash
  <2>1. StateFits' /\ pc' # "deciding"
    BY <1>15
    DEF Close, Crash, Forgotten, StateFits, SwitchingSteps, PreparingSteps, RestoringSteps
  <2>2. ~facts'.restoredEarly /\ ~refused'
    BY <1>0, <1>15, DroppedEarly DEF Close, Crash, Forgotten
  <2> QED
    BY <2>1, <2>2, FitsUnobserved
<1>16. CASE InstallEnds \/ UserMoves \/ UNCHANGED vars
  <2>1. UNCHANGED <<pc, machine, facts, purpose, refused>>
    BY <1>16 DEF InstallEnds, UserMoves, vars, thread
  <2> QED
    BY <2>1
    DEF MachineInv, StateFits, ObservationFits, ReturnIsInMachine, NeverRefused
<1> QED
  BY <1>1, <1>2, <1>3, <1>4, <1>5, <1>6, <1>7, <1>8, <1>9, <1>10, <1>11, <1>12, <1>13,
     <1>14, <1>15, <1>16
  DEF Next, ThreadStep

LEMMA MachineHolds == Spec => []MachineInv
<1>1. Init => MachineInv
  BY DEF Init, FactsAtRequest, MachineInv, StateFits, ObservationFits, ReturnIsInMachine,
         NeverRefused, SwitchingSteps, PreparingSteps, RestoringSteps
<1> QED
  BY <1>1, MachineStep, TypeInvHolds, ReturnHolds, PTL DEF Spec

\* No path of the operation, through a failed publication, an early restore
\* that did not become durable, a deadline, a takeover after a crash or any
\* number of attempts, hands its machine an event the table refuses
\* (install.rs advance and its callers, machine.rs next_state).
THEOREM MachineNeverRefuses == Spec => []NeverRefused
<1>1. MachineInv => NeverRefused
  BY DEF MachineInv
<1> QED
  BY <1>1, MachineHolds, PTL

-------------------------------------------------------------------------------
(* The history: nothing that touched the region ends untold.               *)

\* A window at rest or in a recovery, and a takeover that has not begun, owe
\* the history nothing.
RestIsTold == pc \in Rest \cup RecoverySteps \cup {"following"} /\ touched => written

\* The two ways out that say nothing at their end have said it before.
WayOutIsTold ==
    pc \in RestoringSteps \cup {"clearing"} /\ purpose \in {"unwind", "stated"} => written

HistoryInv == RestIsTold /\ WayOutIsTold

LEMMA Told == ASSUME NEW result, Tell(result) PROVE written'
BY DEF Tell

LEMMA ToldFits == ASSUME written' \/ (~touched' /\ pc' \in Rest) PROVE HistoryInv'
BY DEF HistoryInv, RestIsTold, WayOutIsTold, Rest, RestoringSteps

\* A thread that goes on, but not on one of the two silent ways out.
LEMMA GoesOnFits ==
  ASSUME pc' \in ThreadSteps \ {"following"},
         pc' \in RestoringSteps \cup {"clearing"} => purpose' \notin {"unwind", "stated"}
  PROVE  HistoryInv'
BY DEF HistoryInv, RestIsTold, WayOutIsTold, Rest, RecoverySteps, ThreadSteps

LEMMA FailureTold == ASSUME FailUnderTemporary PROVE HistoryInv'
BY Told, ToldFits DEF FailUnderTemporary

LEMMA GiveUpTold == ASSUME HistoryInv, pc \in RestoringSteps, GiveUp PROVE HistoryInv'
<1>1. CASE Goto("observing")
  BY <1>1, GoesOnFits DEF Goto, ThreadSteps, RestoringSteps
<1>2. CASE Tell(IF purpose = "rollback" THEN "Failed" ELSE "RecoveryRequired")
  BY <1>2, Told, ToldFits
<1>3. CASE purpose \in {"unwind", "stated"} /\ Silent
  BY <1>3, ToldFits DEF HistoryInv, WayOutIsTold, Silent
<1> QED
  BY <1>1, <1>2, <1>3 DEF GiveUp

LEMMA HistoryStep == TypeInv /\ HistoryInv /\ [Next]_vars => HistoryInv'
<1> SUFFICES ASSUME TypeInv, HistoryInv, [Next]_vars PROVE HistoryInv'
  OBVIOUS
<1>1. ASSUME NEW target \in Regions, BeginOperation(target) PROVE HistoryInv'
  <2>1. ~touched' /\ pc' \in {"saving", "idle"}
    BY <1>1 DEF BeginOperation, Goto, Stop
  <2> QED
    BY <2>1, ToldFits, GoesOnFits DEF Rest, ThreadSteps, RestoringSteps
<1>2. CASE SavePrepared \/ WriteTemporary \/ ClearPreserved
  <2>1. CASE Goto("writing") \/ Goto("readBack")
    BY <2>1, GoesOnFits DEF Goto, ThreadSteps, RestoringSteps
  <2>2. CASE Tell("Failed")
    BY <2>2, Told, ToldFits
  <2> QED
    BY <1>2, <2>1, <2>2 DEF SavePrepared, WriteTemporary, ClearPreserved
<1>3. CASE ReadBack
  <2>1. CASE Restore("rollback") \/ Goto("resolving") \/ Goto("clearPreserved")
    BY <2>1, GoesOnFits DEF Restore, Goto, ThreadSteps, RestoringSteps
  <2>2. CASE Tell("Failed")
    BY <2>2, Told, ToldFits
  <2> QED
    BY <1>3, <2>1, <2>2 DEF ReadBack
<1>4. CASE Resolve \/ RecordIdentity \/ TakeBaseline
  <2>1. CASE FailUnderTemporary
    BY <2>1, FailureTold
  <2>2. CASE pc' \in PreparingSteps
    BY <2>2, GoesOnFits DEF PreparingSteps, ThreadSteps, RestoringSteps
  <2> QED
    BY <1>4, <2>1, <2>2 DEF Resolve, RecordIdentity, TakeBaseline, Goto, PreparingSteps
<1>5. CASE StartInstall
  <2>1. CASE Goto("observing")
    BY <2>1, GoesOnFits DEF Goto, ThreadSteps, RestoringSteps
  <2>2. CASE Tell("Failed")
    BY <2>2, Told, ToldFits
  <2> QED
    BY <1>5, <2>1, <2>2 DEF StartInstall
<1>6. CASE Observe
  <2>1. ASSUME NEW observation, RecordObservation(observation) PROVE HistoryInv'
    BY <2>1, GoesOnFits DEF RecordObservation, Goto, ThreadSteps, RestoringSteps
  <2>2. CASE Tell("Failed")
    BY <2>2, Told, ToldFits
  <2> QED
    BY <1>6, <2>1, <2>2 DEF Observe
<1>7. CASE Decide
  <2>1. CASE Goto("observing") \/ Restore("early") \/ Restore("outcome") \/ Clear("finish")
    BY <2>1, GoesOnFits DEF Goto, Restore, Clear, ThreadSteps, RestoringSteps
  <2>2. CASE Tell("CompletionUncertain")
    BY <2>2, Told, ToldFits
  <2> QED
    BY <1>7, <2>1, <2>2 DEF Decide
<1>8. CASE RestoreWrite \/ RestoreRead \/ RestoreMilestone
  <2>1. pc \in RestoringSteps
    BY <1>8 DEF RestoreWrite, RestoreRead, RestoreMilestone, RestoringSteps
  <2>2. CASE GiveUp
    BY <2>1, <2>2, GiveUpTold
  <2>3. CASE /\ pc' \in RestoringSteps \cup {"clearing", "observing"}
             /\ UNCHANGED purpose /\ Silent
    BY <2>1, <2>3
    DEF HistoryInv, RestIsTold, WayOutIsTold, Silent, Rest, RecoverySteps, RestoringSteps
  <2> QED
    BY <1>8, <2>2, <2>3
    DEF RestoreWrite, RestoreRead, RestoreMilestone, MissedAttempt, TryAgain, Goto,
        RestoringSteps
<1>9. CASE ClearRecord
  <2>1. written'
    BY <1>9, Told DEF ClearRecord, HistoryInv, WayOutIsTold, Silent
  <2> QED
    BY <2>1, ToldFits
<1>10. CASE FollowResumed
  <2>1. CASE pc' = "observing"
    BY <2>1, GoesOnFits DEF ThreadSteps, RestoringSteps
  <2>2. CASE pc' \in {"idle", "asked"} /\ UNCHANGED <<touched, written>>
    BY <1>10, <2>2
    DEF FollowResumed, HistoryInv, RestIsTold, WayOutIsTold, RestoringSteps
  <2> QED
    BY <1>10, <2>1, <2>2 DEF FollowResumed, Stop
<1>11. CASE Launch \/ RecoveryStep \/ AnswerDeadline
  <2>1. /\ UNCHANGED <<touched, written>>
        /\ pc \in {"off", "asked"} \cup RecoverySteps
        /\ pc' \in {"idle", "following", "asked"} \cup RecoverySteps
    BY <1>11
    DEF Launch, AnswerDeadline, NothingToDecide, RecoveryStep, Probe, Settle, RecoveryPublish,
        RecoveryWrite, RecoveryRead, RecoveryMilestone, RecoveryClear, VerifyAndClear,
        Reinspect, UiKept, UiStops, WindowOnly, RecoverySteps, thread
  <2> QED
    BY <2>1
    DEF HistoryInv, RestIsTold, WayOutIsTold, Rest, RecoverySteps, RestoringSteps
<1>12. CASE Close \/ Crash
  BY <1>12, ToldFits DEF Close, Crash, Forgotten, Rest
<1>13. CASE InstallEnds \/ UserMoves \/ UNCHANGED vars
  <2>1. UNCHANGED <<pc, purpose, touched, written>>
    BY <1>13 DEF InstallEnds, UserMoves, vars, thread
  <2> QED
    BY <2>1 DEF HistoryInv, RestIsTold, WayOutIsTold
<1> QED
  BY <1>1, <1>2, <1>3, <1>4, <1>5, <1>6, <1>7, <1>8, <1>9, <1>10, <1>11, <1>12, <1>13
  DEF Next, ThreadStep

\* An operation that published a record or changed the region never comes to
\* rest without its entry in the history, not when it gives up a restore, not
\* when the user is asked instead, not after a takeover that found nothing to
\* follow (install.rs fail, write_journal_entry and the ways out of observe).
THEOREM HistoryIsTold == Spec => []HistoryTold
<1>1. Init => HistoryInv
  BY ToldFits DEF Init, HistoryInv, RestIsTold, WayOutIsTold, RestoringSteps
<1>2. HistoryInv => HistoryTold
  BY DEF HistoryInv, RestIsTold, HistoryTold, Rest
<1> QED
  BY <1>1, <1>2, HistoryStep, TypeInvHolds, PTL DEF Spec

-------------------------------------------------------------------------------
(* The evidence for an entry that says "installed".                        *)

\* A completion is believed, and a recorded package found, only of a package
\* that is there; nothing in the model takes one away.
EvidenceInv ==
    /\ facts.lastObservation = "Completed" => present
    /\ found => present

LEMMA DroppedObservation == ASSUME Dropped PROVE facts'.lastObservation = "none"
BY DEF Dropped, FactsAtRequest

\* A step keeps the evidence when it learns nothing new of the package.
LEMMA EvidenceKeeps ==
  ASSUME EvidenceInv, present => present', found' => found,
         facts'.lastObservation \in {facts.lastObservation, "none"}
  PROVE  EvidenceInv'
BY DEF EvidenceInv

LEMMA EvidenceStep == TypeInv /\ EvidenceInv /\ [Next]_vars => EvidenceInv'
<1> SUFFICES ASSUME TypeInv, EvidenceInv, [Next]_vars PROVE EvidenceInv'
  OBVIOUS
<1>0. facts \in Facts /\ present \in BOOLEAN
  BY DEF TypeInv, TypeOK
<1>1. ASSUME AroundKept, FactsKept \/ Dropped PROVE EvidenceInv'
  BY <1>1, EvidenceKeeps, DroppedObservation DEF AroundKept, world, answers, FactsKept
<1>2. ASSUME NEW target \in Regions, BeginOperation(target) PROVE EvidenceInv'
  <2>1. UNCHANGED <<present, found>>
    BY <1>2 DEF BeginOperation, world, answers
  <2>2. UNCHANGED facts \/ Dropped
    BY <1>2 DEF BeginOperation, Stop
  <2> QED
    BY <2>1, <2>2, EvidenceKeeps, DroppedObservation
<1>3. CASE SavePrepared \/ WriteTemporary \/ ReadBack \/ ClearPreserved \/ Resolve \/ Decide
  BY <1>1, <1>3
  DEF SavePrepared, WriteTemporary, ReadBack, ClearPreserved, Resolve, Decide, Stop,
      FailUnderTemporary
<1>4. CASE RecordIdentity \/ TakeBaseline \/ StartInstall
  <2>1. UNCHANGED <<present, found>>
    BY <1>4 DEF RecordIdentity, TakeBaseline, StartInstall, AroundKept, world, answers
  <2>2. facts'.lastObservation = facts.lastObservation
    BY <1>0, <1>4
    DEF RecordIdentity, TakeBaseline, StartInstall, FailUnderTemporary, FactsKept, Facts
  <2> QED
    BY <2>1, <2>2, EvidenceKeeps
<1>5. CASE Observe
  <2>1. UNCHANGED <<present, found>>
    BY <1>5 DEF Observe, AroundKept, world, answers
  <2>2. ASSUME NEW observation \in Observations, observation = "Completed" => present,
               RecordObservation(observation)
        PROVE  EvidenceInv'
    <3>1. facts'.lastObservation = observation
      BY <1>0, <2>2 DEF RecordObservation, Facts
    <3> QED
      BY <2>1, <2>2, <3>1 DEF EvidenceInv
  <2>3. CASE FactsKept \/ Stop("idle")
    BY <1>1, <1>5, <2>3 DEF Observe, Stop
  <2> QED
    BY <1>5, <2>2, <2>3 DEF Observe, ConfirmedCompletion, Observations
<1>6. CASE RestoreWrite \/ RestoreRead
  BY <1>1, <1>6 DEF RestoreWrite, RestoreRead, MissedAttempt, TryAgain, GiveUp, Stop
<1>7. CASE RestoreMilestone
  <2>1. CASE GiveUp
    BY <1>1, <1>7, <2>1 DEF RestoreMilestone, GiveUp, Stop
  <2>2. CASE facts' \in {facts, [facts EXCEPT !.restoredEarly = TRUE]}
    <3>1. facts'.lastObservation = facts.lastObservation
      BY <1>0, <2>2 DEF Facts
    <3> QED
      BY <1>7, <3>1, EvidenceKeeps DEF RestoreMilestone, AroundKept, world, answers
  <2> QED
    BY <1>7, <2>1, <2>2 DEF RestoreMilestone
<1>8. CASE ClearRecord
  BY <1>1, <1>8 DEF ClearRecord, Stop
<1>9. CASE FollowResumed
  <2>1. CASE Dropped
    BY <1>1, <1>9, <2>1 DEF FollowResumed
  <2>2. CASE facts' = [FactsAtRequest EXCEPT !.resolved = TRUE,
                                             !.restoredEarly = held.state = "RegionRestoredEarly"]
    <3>1. facts'.lastObservation = "none"
      BY <2>2 DEF FactsAtRequest
    <3> QED
      BY <1>9, <3>1, EvidenceKeeps DEF FollowResumed, AroundKept, world, answers
  <2> QED
    BY <1>9, <2>1, <2>2 DEF FollowResumed, Stop
<1>10. CASE Probe
  <2>1. held.family \in BOOLEAN
    BY <1>10 DEF Probe, TypeInv, HoldsRecord, Working, RecoveryWithRecord, Records
  <2>2. UNCHANGED <<present, facts>>
    BY <1>10 DEF Probe, WindowOnly, world, thread
  <2>3. found' => found \/ present
    BY <1>0, <1>10, <2>1 DEF Probe
  <2> QED
    BY <2>2, <2>3 DEF EvidenceInv
<1>11. CASE Launch \/ (RecoveryStep /\ ~Probe) \/ AnswerDeadline
  <2>1. UNCHANGED <<present, facts>> /\ (found' => found)
    BY <1>11
    DEF Launch, RecoveryStep, Settle, RecoveryPublish, RecoveryWrite, RecoveryRead,
        RecoveryMilestone, RecoveryClear, VerifyAndClear, Reinspect, AnswerDeadline, UiKept,
        WindowOnly, world, thread, answers
  <2> QED
    BY <2>1, EvidenceKeeps
<1>12. CASE Close \/ Crash
  <2>1. UNCHANGED present /\ ~found' /\ Dropped
    BY <1>12 DEF Close, Crash, Forgotten, world
  <2> QED
    BY <2>1, EvidenceKeeps, DroppedObservation
<1>13. CASE InstallEnds \/ UserMoves \/ UNCHANGED vars
  <2>1. UNCHANGED <<facts, found>> /\ (present => present')
    BY <1>0, <1>13 DEF InstallEnds, UserMoves, vars, world, thread, answers
  <2> QED
    BY <2>1, EvidenceKeeps
<1> QED
  BY <1>2, <1>3, <1>4, <1>5, <1>6, <1>7, <1>8, <1>9, <1>10, <1>11, <1>12, <1>13
  DEF Next, ThreadStep

LEMMA EvidenceHolds == Spec => []EvidenceInv
<1>1. Init => EvidenceInv
  BY DEF Init, EvidenceInv, FactsAtRequest
<1> QED
  BY <1>1, EvidenceStep, TypeInvHolds, PTL DEF Spec

\* The two places that write "installed".
LEMMA InstalledMoves ==
  ASSUME [Next]_vars, journal' # journal, journal'.result = "Installed"
  PROVE  \/ ClearRecord /\ facts.lastObservation = "Completed"
         \/ Settle /\ found /\ Inspects("open")
<1>1. ASSUME NEW result, result # "Installed", Tell(result) \/ Silent PROVE FALSE
  BY <1>1 DEF Tell, Silent
<1>2. CASE ThreadStep
  <2>1. ~(Silent \/ Tell("Failed") \/ Tell("RecoveryRequired") \/ Tell("CompletionUncertain"))
    BY <1>1
  <2>2. ~FailUnderTemporary /\ ~GiveUp
    BY <2>1 DEF FailUnderTemporary, GiveUp
  <2>3. ~(\E observation \in Observations : RecordObservation(observation))
    BY <2>1 DEF RecordObservation
  <2>4. ClearRecord
    BY <1>2, <2>1, <2>2, <2>3
    DEF ThreadStep, SavePrepared, WriteTemporary, ReadBack, ClearPreserved, Resolve,
        RecordIdentity, TakeBaseline, StartInstall, Observe, Decide, RestoreWrite,
        RestoreRead, RestoreMilestone, MissedAttempt, TryAgain, FollowResumed,
        ConfirmedCompletion, Observations
  <2>5. Tell(JournalResult)
    BY <2>1, <2>4 DEF ClearRecord
  <2>6. JournalResult = "Installed"
    BY <1>1, <2>5
  <2> QED
    BY <2>4, <2>6 DEF JournalResult
<1>3. CASE RecoveryStep
  <2>1. Settle
    BY <1>3
    DEF RecoveryStep, Probe, RecoveryPublish, RecoveryWrite, RecoveryRead, RecoveryMilestone,
        RecoveryClear, VerifyAndClear, Reinspect, UiKept, WindowOnly
  <2> QED
    BY <2>1 DEF Settle
<1> QED
  BY <1>2, <1>3
  DEF Next, BeginOperation, Launch, AnswerDeadline, WindowOnly, Close, Crash, Forgotten,
      InstallEnds, UserMoves, vars

\* The history says "installed" only of a package that is there, and only once
\* the original region is no longer owed: when the operation saw it through,
\* and when a later start finds the outcome of one that never learned of it
\* (journal.rs:31, install.rs confirmed_completion, recovery.rs
\* record_operation_without_outcome).
THEOREM InstalledIsEvident == Spec => InstalledHasEvidence
<1>1. EvidenceInv /\ DebtInv /\ [Next]_vars =>
        [journal' # journal /\ journal'.result = "Installed" => present /\ owed = NoRegion]_vars
  <2> SUFFICES ASSUME EvidenceInv, DebtInv, [Next]_vars,
                      journal' # journal, journal'.result = "Installed"
               PROVE  present /\ owed = NoRegion
    OBVIOUS
  <2>1. CASE ClearRecord /\ facts.lastObservation = "Completed"
    BY <2>1 DEF ClearRecord, EvidenceInv, DebtInv, NothingOwedPastReadBack
  <2>2. CASE found /\ Inspects("open")
    BY <2>2 DEF Inspects, EvidenceInv, DebtInv, RestoredClaimIsTrue
  <2> QED
    BY <2>1, <2>2, InstalledMoves
<1> QED
  BY <1>1, EvidenceHolds, DebtHolds, PTL DEF Spec, InstalledHasEvidence
===============================================================================
