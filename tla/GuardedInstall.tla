---------------------------- MODULE GuardedInstall ----------------------------
(***************************************************************************)
(* One guarded installation from the user's command to its end, with every *)
(* crash and restart in between: the operation thread (gui/install.rs),    *)
(* the core region switch (core/region.rs), the recovery of the next start *)
(* (core/recovery/startup.rs, gui/recovery.rs, gui/window.rs) and the one  *)
(* recovery record they share (core/recovery, platform/storage.rs).        *)
(*                                                                         *)
(* At most one of the operation thread and the recovery dialogue of the    *)
(* window is at work at a time, and pc says where it is; a closed window   *)
(* is pc = "off".  Every read, write and publication that a crash or the   *)
(* user can slip between is a step of its own.                             *)
(***************************************************************************)
EXTENDS OperationMachine, Naturals

CONSTANTS Regions, NoRegion, NoRecord,
          MaxOperations,    \* how many operations the user begins
          MaxCrashes,       \* how often the process dies at work
          MaxMoves,         \* how often the user changes the region by hand
          RestoreAttempts   \* writes of the original region before giving up

Ops == 1 .. MaxOperations

Records ==
    [op : Ops, original : Regions, temporary : Regions,
     state : DurableStates, family : BOOLEAN]

ASSUME RegionAssumption   == NoRegion \notin Regions
ASSUME RecordAssumption   == NoRecord \notin Records \cup [original : Regions, temporary : Regions]
ASSUME BoundAssumption    == MaxOperations \in Nat /\ MaxCrashes \in Nat /\ MaxMoves \in Nat
ASSUME AttemptsAssumption == RestoreAttempts \in Nat \ {0}

Results == {"Installed", "Failed", "CompletionUncertain", "RecoveryRequired"}

\* An entry of the history: id 0 stands for an identity made up at a takeover.
Entries == [id : 0 .. MaxOperations, about : Ops, result : Results]
NoEntry == [id |-> 0, about |-> 0, result |-> "none"]

VARIABLES
    region,      \* the Windows region
    record,      \* the published recovery record
    journal,     \* the entry the history took last: nothing here reads older ones
    install,     \* what the package manager does for the last request
    present,     \* whether the package is installed
    pc,          \* where the running code is
    held,        \* the record as the running code last wrote or read it
    machine,     \* the state of the operation
    facts,       \* what the operation knows when it asks for the next step
    expected,    \* whether the operation knows the package identity
    baseline,    \* what the snapshot before the request said of the package
    purpose,     \* why the region is being restored or the record removed
    attempt,     \* writes of the original region that did not work
    resumed,     \* whether the operation was taken over
    touched,     \* whether the operation owes the history an entry
    written,     \* whether it has written that entry
    found,       \* whether the recorded package was there with nothing in flight
    authorised,  \* the region the user agreed to replace
    admits,      \* whether the window offers a new operation
    owed,        \* history: the original region not in force because of a switch
    already,     \* history: operations whose package was there at the request
    refused,     \* history: whether the machine ever refused an event
    ops, crashes, moves

world   == <<install, present>>
thread  == <<machine, facts, expected, baseline, purpose, attempt, resumed, touched>>
answers == <<found, authorised, admits>>
bounds  == <<ops, crashes, moves>>
vars    == <<region, record, journal, world, pc, held, thread, written, answers,
             owed, already, refused, bounds>>

ThreadSteps ==
    {"saving", "writing", "readBack", "clearPreserved", "resolving", "identifying",
     "measuring", "starting", "observing", "deciding", "restoring", "restoreRead",
     "milestone", "clearing", "following"}
RecoverySteps ==
    {"probing", "settling", "uiPublish", "uiWrite", "uiRead", "uiMilestone",
     "uiClear", "verifying", "reinspecting"}
Rest == {"off", "idle", "asked"}

Purposes == {"none", "rollback", "unwind", "early", "outcome", "stated", "finish"}

TypeOK ==
    /\ region \in Regions
    /\ record \in Records \cup {NoRecord}
    /\ journal \in Entries \cup {NoEntry}
    /\ install \in {"none", "running", "finished", "failed"}
    /\ present \in BOOLEAN
    /\ pc \in ThreadSteps \cup RecoverySteps \cup Rest
    /\ held \in Records \cup {NoRecord}
    /\ machine \in States
    /\ facts \in Facts
    /\ expected \in BOOLEAN
    /\ baseline \in {"unknown", "without", "with"}
    /\ purpose \in Purposes
    /\ attempt \in 0 .. RestoreAttempts - 1
    /\ resumed \in BOOLEAN /\ touched \in BOOLEAN /\ written \in BOOLEAN
    /\ found \in BOOLEAN /\ admits \in BOOLEAN
    /\ authorised \in Regions \cup {NoRegion}
    /\ owed \in Regions \cup {NoRegion}
    /\ already \in SUBSET Ops
    /\ refused \in BOOLEAN
    /\ ops \in 0 .. MaxOperations /\ crashes \in 0 .. MaxCrashes /\ moves \in 0 .. MaxMoves

Init ==
    /\ region \in Regions /\ owed = NoRegion
    /\ record = NoRecord /\ journal = NoEntry
    /\ install = "none" /\ present \in BOOLEAN
    /\ pc = "off" /\ held = NoRecord
    /\ machine = "Idle" /\ facts = FactsAtRequest
    /\ expected = FALSE /\ baseline = "unknown"
    /\ purpose = "none" /\ attempt = 0
    /\ resumed = FALSE /\ touched = FALSE /\ written = FALSE
    /\ found = FALSE /\ authorised = NoRegion /\ admits = FALSE
    /\ already = {} /\ refused = FALSE
    /\ ops = 0 /\ crashes = 0 /\ moves = 0

-------------------------------------------------------------------------------
\* The recovery record on disk.

SameIdentity(r, s) ==
    r.op = s.op /\ r.original = s.original /\ r.temporary = s.temporary

Prepared(op, original, temporary) ==
    [op |-> op, original |-> original, temporary |-> temporary,
     state |-> "Prepared", family |-> FALSE]

WithState(r, s) == [r EXCEPT !.state = s]

\* A record is replaced only by a later one of the same operation.
MayPublishAnything(r) == TRUE   \* mutated
MayPublish(r) == record # NoRecord => SameIdentity(record, r)

PublishedUnverified(r) == MayPublish(r) /\ record' \in {record, r}   \* mutated
Published(r) == MayPublish(r) /\ record' = r

\* A publication can fail before the file is moved into place, or after it,
\* when the record just written cannot be read again.
RemovedFirst(r) == MayPublish(r) /\ record' \in {record, NoRecord, r}   \* mutated
NotPublished(r) == record' = record \/ Published(r)

\* Only the record the caller holds is removed.
Cleared(r) == record = r /\ record' = NoRecord
NotCleared == UNCHANGED record

\* The region in force is compared with the original of the record first.
TemporaryActive == region = record.temporary   \* mutated
OriginalActive == region = record.original

\* An inspection and its five answers; anything unreadable, and a record that
\* cannot be removed, is the answer "error".
Inspects(answer) ==
    CASE answer = "none"    -> record = NoRecord /\ UNCHANGED record
      [] answer = "open"    -> /\ record # NoRecord /\ OriginalActive
                               /\ record.state = "RegionRestoredEarly"
                               /\ UNCHANGED record
      [] answer = "cleaned" -> /\ record # NoRecord /\ OriginalActive
                               /\ record.state # "RegionRestoredEarly"
                               /\ record' = NoRecord
      [] answer = "decide"  -> /\ record # NoRecord /\ ~OriginalActive
                               /\ UNCHANGED record
      [] answer = "error"   -> UNCHANGED record

Answers == {"none", "open", "cleaned", "decide", "error"}
Admits(answer) == answer \in {"none", "cleaned"}

-------------------------------------------------------------------------------
\* The machine, the history entry and the ways out of a step.

\* Several events in a row; s ++ e is the state after one.
s ++ e == Advance(s, e)

Accepts(e) == refused' = (refused \/ ~CanApply(machine, e))

Raise1(e) == machine' = machine ++ e /\ Accepts(e)

Raise2(e1, e2) ==
    /\ machine' = machine ++ e1 ++ e2
    /\ refused' = (refused \/ ~CanApply(machine, e1) \/ ~CanApply(machine ++ e1, e2))

MachineKept == UNCHANGED <<machine, refused>>

Opened ==
    "Idle" ++ "BeginResolvingProduct" ++ "ProductResolved" ++ "BeginPreparing"
           ++ "BeginSavingRecoveryState"

\* A takeover replays what the run before it did.
Replayed ==
    Opened ++ "RecoveryStateSaved" ++ "SwitchFinishedSwitched"
           ++ "BeginRefreshingStoreContext" ++ "BeginInstall"
           ++ "InstallRequestAccepted" ++ "ObservationStarted"

ReplayedUnobserved == Replayed ++ "EarlyRegionRestoreConfirmed"   \* mutated
ReplayedEarly == Replayed ++ "ObservedInstalling" ++ "EarlyRegionRestoreConfirmed"

\* The operation writes one entry; the history may refuse to take it.
Tell(result) ==
    IF written
    THEN UNCHANGED <<written, journal>>
    ELSE /\ written' = TRUE
         /\ \/ journal' = [id |-> IF resumed THEN 0 ELSE held.op, about |-> held.op,
                            result |-> result]
            \/ UNCHANGED journal

Silent == UNCHANGED <<written, journal>>

\* How the last observation reads in the history.
JournalResult ==
    CASE facts.lastObservation = "Completed"  -> "Installed"
      [] facts.lastObservation = "Installing" -> "RecoveryRequired"
      [] OTHER                                -> "CompletionUncertain"

EvidenceKept == UNCHANGED <<expected, baseline, resumed>>
Goto(step)   == pc' = step /\ UNCHANGED <<purpose, attempt>> /\ EvidenceKept
Restore(why) == pc' = "restoring" /\ purpose' = why /\ attempt' = 0 /\ EvidenceKept
Clear(why)   == pc' = "clearing" /\ purpose' = why /\ UNCHANGED attempt /\ EvidenceKept

FactsKept  == UNCHANGED <<held, facts>>
RegionKept == UNCHANGED <<region, owed>>
AroundKept == UNCHANGED <<world, answers, already, bounds>>

\* What an operation knows goes with its thread.
Dropped ==
    /\ held' = NoRecord /\ machine' = "Idle" /\ facts' = FactsAtRequest
    /\ expected' = FALSE /\ baseline' = "unknown" /\ resumed' = FALSE
    /\ purpose' = "none" /\ attempt' = 0

Stop(step) == pc' = step /\ Dropped

-------------------------------------------------------------------------------
\* The operation thread: the guarded switch.

\* The user's command.  The record is prepared in memory with the region read
\* here; a failure up to this point touches nothing and ends in the log only.
BeginOperation(target) ==
    /\ pc = "idle" /\ admits /\ ops < MaxOperations
    /\ ops' = ops + 1
    /\ touched' = FALSE /\ written' = FALSE
    /\ \/ /\ held' = Prepared(ops + 1, region, target)
          /\ machine' = Opened /\ refused' = (refused \/ Opened # "SavingRecoveryState")
          /\ Goto("saving") /\ UNCHANGED facts
       \/ Stop("idle") /\ UNCHANGED refused
    /\ RegionKept
    /\ UNCHANGED <<record, journal, world, answers, already, crashes, moves>>

\* The core protocol reads the region again; the record has to name what it
\* finds.  Nothing is written to Windows unless the publication succeeded.
SavePrepared ==
    /\ pc = "saving"
    /\ touched' = TRUE
    /\ \/ /\ held.original = region
          /\ Published(held)
          /\ Raise1("RecoveryStateSaved")
          /\ Goto("writing") /\ Silent /\ FactsKept
       \/ /\ \/ held.original = region /\ NotPublished(held)
             \/ \* an unreadable region, or one the record does not name
                UNCHANGED record
          /\ Accepts("RecoveryStateSaved")
          /\ Stop("idle") /\ Tell("Failed")
    /\ RegionKept /\ AroundKept

\* The one write of the temporary region.  The writer's own answer decides
\* nothing: the write may have landed or not.
WriteTemporary ==
    /\ pc = "writing"
    /\ \/ /\ region' = held.temporary
          /\ owed' = IF held.temporary = held.original THEN NoRegion ELSE held.original
       \/ RegionKept
    /\ Goto("readBack")
    /\ MachineKept /\ FactsKept /\ Silent /\ AroundKept /\ UNCHANGED <<record, touched>>

ReadBack ==
    /\ pc = "readBack"
    /\ \/ \* unreadable: the write has probably landed
          /\ Raise2("FailWithTemporaryRegion", "BeginRestoringRegion")
          /\ Restore("rollback") /\ Silent /\ FactsKept
       \/ /\ region = held.temporary
          /\ Raise2("SwitchFinishedSwitched", "BeginRefreshingStoreContext")
          /\ Goto("resolving") /\ Silent /\ FactsKept
       \/ /\ region = held.original /\ region # held.temporary
          /\ MachineKept
          /\ Goto("clearPreserved") /\ Silent /\ FactsKept
       \/ /\ region \notin {held.original, held.temporary}
          /\ Accepts("SwitchFinishedConflict")
          /\ Stop("idle") /\ Tell("Failed")
    /\ RegionKept /\ AroundKept /\ UNCHANGED <<record, touched>>

\* The write did not take: the record goes, and its operation fails.
ClearPreserved ==
    /\ pc = "clearPreserved"
    /\ \/ Cleared(held) /\ Accepts("SwitchFinishedPreserved")
       \/ NotCleared /\ UNCHANGED refused
    /\ Stop("idle") /\ Tell("Failed")
    /\ RegionKept /\ AroundKept /\ UNCHANGED touched

-------------------------------------------------------------------------------
\* The operation thread: from the confirmed temporary region to the request.

FailUnderTemporaryUntold ==   \* mutated
    /\ Raise1("FailWithTemporaryRegion")
    /\ Restore("unwind") /\ Silent /\ FactsKept
FailUnderTemporary ==
    /\ Raise1("FailWithTemporaryRegion")
    /\ Restore("unwind") /\ Tell("Failed") /\ FactsKept

\* The product is looked up under the temporary region; its card may carry
\* the identity that proves completion, or not.
Resolve ==
    /\ pc = "resolving"
    /\ NextStep(machine, facts) = "ResolveUnderTemporaryRegion"
    /\ \/ FailUnderTemporary
       \/ /\ \/ expected' = TRUE /\ pc' = "identifying"
             \/ expected' = FALSE /\ pc' = "measuring"
          /\ MachineKept /\ Silent /\ FactsKept
          /\ UNCHANGED <<purpose, attempt, baseline, resumed>>
    /\ RegionKept /\ AroundKept /\ UNCHANGED <<record, touched>>

\* The identity goes into the record; a refused write is not fatal.
RecordIdentity ==
    /\ pc = "identifying"
    /\ LET identified == [held EXCEPT !.family = TRUE]
       IN  \/ Published(identified) /\ held' = identified
           \/ NotPublished(identified) /\ UNCHANGED held
    /\ Goto("measuring") /\ MachineKept /\ Silent
    /\ RegionKept /\ AroundKept /\ UNCHANGED <<facts, touched>>

AlreadyInstalled(snapshot) == expected /\ snapshot = "with"

\* The packages present before the request, if Windows lists them.
TakeBaseline ==
    /\ pc = "measuring"
    /\ \E snapshot \in {"unknown", IF present THEN "with" ELSE "without"} :
          \/ /\ AlreadyInstalled(snapshot)
             /\ FailUnderTemporary
          \/ /\ ~AlreadyInstalled(snapshot)
             /\ baseline' = snapshot
             /\ facts' = [facts EXCEPT !.resolved = TRUE]
             /\ pc' = "starting" /\ MachineKept /\ Silent
             /\ UNCHANGED <<held, purpose, attempt, expected, resumed>>
    /\ RegionKept /\ AroundKept /\ UNCHANGED <<record, touched>>

Requested ==
    /\ install' = "running"
    /\ already' = IF present THEN already \cup {held.op} ELSE already

StartInstall ==
    /\ pc = "starting"
    /\ NextStep(machine, facts) = "StartInstall"
    /\ \/ /\ machine' = machine ++ "BeginInstall" ++ "InstallRequestAccepted"
                                ++ "ObservationStarted"
          /\ refused' = (refused \/ machine' # "InstallObserved")
          /\ Requested
          /\ Goto("observing") /\ Silent
       \/ \* refused, or accepted without progress to follow it by
          /\ Raise1("BeginInstall")
          /\ Requested \/ UNCHANGED <<install, already>>
          /\ Restore("unwind") /\ Tell("Failed")
    /\ FactsKept /\ RegionKept
    /\ UNCHANGED <<record, present, answers, touched, bounds>>

-------------------------------------------------------------------------------
\* The operation thread: observing.

\* The facts after one observation.  Silence is counted from the last change.
RecordObservation(observation) ==
    /\ \E hold, silent \in BOOLEAN :
          /\ facts.holdElapsed => hold
          /\ silent => facts.lastObservation = observation
          /\ facts' = [facts EXCEPT
                         !.lastObservation = observation,
                         !.progressSeen = @ \/ observation = "Installing",
                         !.holdElapsed = hold,
                         !.silent = silent]
    /\ Raise1(ObservationEvent(observation))
    /\ Goto("deciding") /\ Silent /\ UNCHANGED held

\* A finished request is a completion only with evidence: the identity is
\* known, it was absent before, and it is present and healthy now.
BelievedCompletion ==   \* mutated
    IF expected /\ baseline = "without" THEN "Completed" ELSE "CompletionUncertain"
ConfirmedCompletion ==
    IF expected /\ baseline = "without" /\ present THEN "Completed" ELSE "CompletionUncertain"

\* A stated failure ends the operation; the region goes back unless it has.
StatedFailureRestores == Restore("stated")   \* mutated
StatedFailureEnds ==
    \/ facts.restoredEarly /\ Clear("stated")
    \/ ~facts.restoredEarly /\ Restore("stated")

Observe ==
    /\ pc = "observing"
    /\ \/ /\ install = "running"
          /\ RecordObservation("Installing")
       \/ /\ install = "finished"
          /\ RecordObservation(ConfirmedCompletion)
       \/ \* no success and no failure code either, or no second snapshot
          /\ install \in {"finished", "failed"}
          /\ RecordObservation("CompletionUncertain")
       \/ \* the backend stated a failure
          /\ install = "failed"
          /\ Raise1("FailWithTemporaryRegion")
          /\ StatedFailureEnds /\ Tell("Failed") /\ FactsKept
       \/ \* the backend did not answer
          /\ Accepts("CompletionBecameUncertain")
          /\ Stop("idle") /\ Tell("Failed")
    /\ RegionKept /\ AroundKept /\ UNCHANGED <<record, touched>>

Decide ==
    /\ pc = "deciding"
    /\ LET step == NextStep(machine, facts) IN
       \/ /\ step \in {"KeepObserving", "Wait"}
          /\ MachineKept
          /\ Goto("observing") /\ Silent /\ FactsKept
       \/ /\ step = "RestoreRegionEarly"
          /\ MachineKept
          /\ Restore("early") /\ Silent /\ FactsKept
       \/ /\ step = "RestoreRegion"
          /\ Raise1("BeginRestoringRegion")
          /\ Restore("outcome") /\ Silent /\ FactsKept
       \/ /\ step = "Finish"
          /\ Raise1("Complete")
          /\ Clear("finish") /\ Silent /\ FactsKept
       \/ \* a deadline restores nothing: it asks while there is something to ask
          /\ step = "AskUserAfterTimeout"
          /\ IF machine = "CompletionUncertain"
             THEN UNCHANGED refused
             ELSE Accepts("ObservationTimedOut")
          /\ Stop(IF facts.restoredEarly THEN "idle" ELSE "asked")
          /\ Tell("CompletionUncertain")
    /\ RegionKept /\ AroundKept /\ UNCHANGED <<record, touched>>

-------------------------------------------------------------------------------
\* The operation thread: putting the original region back.

\* Every attempt failed.  The record stays for the next start; an early
\* restore is simply due again at the next observation.
GiveUp ==
    \/ /\ purpose = "early"
       /\ Goto("observing") /\ MachineKept /\ Silent /\ FactsKept
    \/ /\ purpose \in {"rollback", "outcome"}
       /\ Accepts("RestoreFailed") /\ Stop("idle")
       /\ Tell(IF purpose = "rollback" THEN "Failed" ELSE "RecoveryRequired")
    \/ /\ purpose \in {"unwind", "stated"}
       /\ Stop("idle") /\ Silent /\ UNCHANGED refused

AttemptsLeftOneMore == attempt < RestoreAttempts   \* mutated
AttemptsLeft == attempt + 1 < RestoreAttempts

TryAgainUncounted ==   \* mutated
    /\ pc' = "restoring" /\ UNCHANGED <<attempt, purpose>>
    /\ EvidenceKept /\ MachineKept /\ Silent /\ FactsKept
TryAgain ==
    /\ pc' = "restoring" /\ attempt' = attempt + 1 /\ UNCHANGED purpose
    /\ EvidenceKept /\ MachineKept /\ Silent /\ FactsKept

MissedAttempt ==
    \/ AttemptsLeft /\ TryAgain
    \/ ~AttemptsLeft /\ GiveUp

\* The original region is written whatever region is in force.  A write that
\* Windows refused is not read back.
RestoreWrite ==
    /\ pc = "restoring"
    /\ \/ region' = held.original /\ owed' = NoRegion
       \/ RegionKept
    /\ \/ Goto("restoreRead") /\ MachineKept /\ Silent /\ FactsKept
       \/ MissedAttempt
    /\ AroundKept /\ UNCHANGED <<record, touched>>

TrustsTheWriter == TRUE   \* mutated
ReadsOriginal == region = held.original

RestoreRead ==
    /\ pc = "restoreRead"
    /\ \/ /\ ReadsOriginal
          /\ Goto("milestone") /\ MachineKept /\ Silent /\ FactsKept
       \/ MissedAttempt
    /\ RegionKept /\ AroundKept /\ UNCHANGED <<record, touched>>

\* The read-back agreed; a restore counts once its milestone is durable.
RestoreMilestone ==
    /\ pc = "milestone"
    /\ LET restored ==
             WithState(held, IF purpose = "early" THEN "RegionRestoredEarly" ELSE "Restored")
       IN  \/ NotPublished(restored) /\ GiveUp
           \/ /\ Published(restored) /\ held' = restored
              /\ \/ /\ purpose = "early"
                    /\ facts' = [facts EXCEPT !.restoredEarly = TRUE]
                    /\ Raise1("EarlyRegionRestoreConfirmed") /\ Goto("observing")
                 \/ /\ purpose = "outcome"
                    /\ Raise2("OriginalRegionRestored", "Complete")
                    /\ Goto("clearing") /\ UNCHANGED facts
                 \/ /\ purpose = "rollback"
                    /\ Raise1("OriginalRegionRestored")
                    /\ Goto("clearing") /\ UNCHANGED facts
                 \/ /\ purpose \in {"unwind", "stated"}
                    /\ MachineKept
                    /\ Goto("clearing") /\ UNCHANGED facts
              /\ Silent
    /\ RegionKept /\ AroundKept /\ UNCHANGED touched

\* The record goes if it can, and an operation that has not told its outcome
\* yet tells it now.
ClearRecord ==
    /\ pc = "clearing"
    /\ Cleared(held) \/ NotCleared
    /\ Stop("idle") /\ UNCHANGED refused
    /\ \/ purpose = "rollback" /\ Tell("Failed")
       \/ purpose \in {"outcome", "finish"} /\ Tell(JournalResult)
       \/ purpose \in {"unwind", "stated"} /\ Silent
    /\ RegionKept /\ AroundKept /\ UNCHANGED touched

-------------------------------------------------------------------------------
\* Taking an installation over.

\* The taking-over thread asks the package manager once more.  If the
\* installation is gone it reports that and leaves the record as it is.
FollowResumed ==
    /\ pc = "following"
    /\ LET early == held.state = "RegionRestoredEarly" IN
       \/ /\ install = "running"
          /\ machine' = IF early THEN ReplayedEarly ELSE Replayed
          /\ refused' =
               (refused \/ machine' # IF early THEN "RegionRestoredEarly" ELSE "InstallObserved")
          /\ facts' = [FactsAtRequest EXCEPT !.resolved = TRUE, !.restoredEarly = early]
          /\ expected' = held.family /\ baseline' = "without" /\ resumed' = TRUE
          /\ touched' = TRUE /\ written' = FALSE
          /\ pc' = "observing" /\ UNCHANGED <<held, purpose, attempt>>
       \/ /\ Stop(IF early THEN "idle" ELSE "asked")
          /\ UNCHANGED <<refused, touched, written>>
    /\ RegionKept /\ AroundKept /\ UNCHANGED <<record, journal>>

ThreadStep ==
    \/ SavePrepared \/ WriteTemporary \/ ReadBack \/ ClearPreserved
    \/ Resolve \/ RecordIdentity \/ TakeBaseline \/ StartInstall
    \/ Observe \/ Decide
    \/ RestoreWrite \/ RestoreRead \/ RestoreMilestone \/ ClearRecord
    \/ FollowResumed

-------------------------------------------------------------------------------
\* The window: what a start makes of a record, and the answers of the user.

WindowOnly ==
    UNCHANGED <<journal, world, thread, written, already, refused, bounds>>

Launch ==
    /\ pc = "off"
    /\ \E answer \in Answers :
          /\ Inspects(answer)
          /\ admits' = Admits(answer)
          /\ \/ /\ answer \in {"open", "decide"}
                /\ pc' = "probing" /\ held' = record
             \/ /\ answer \notin {"open", "decide"}
                /\ pc' = "idle" /\ UNCHANGED held
    /\ RegionKept /\ WindowOnly /\ UNCHANGED <<found, authorised>>

\* The package manager is asked whether the recorded installation is still in
\* flight.  "No" is also its answer when its catalogue cannot be opened.
Probe ==
    /\ pc = "probing"
    /\ \/ install = "running" /\ pc' = "following" /\ UNCHANGED <<held, found>>
       \/ /\ pc' = "settling" /\ held' = NoRecord
          /\ found' \in {FALSE, held.family /\ present}
    /\ RegionKept /\ WindowOnly /\ UNCHANGED <<record, authorised, admits>>

\* Nothing was taken over.  The record is inspected again, and the user is
\* asked if the region is not the original one.
Settle ==
    /\ pc = "settling"
    /\ found' = FALSE
    /\ \E answer \in Answers :
          /\ Inspects(answer)
          /\ \/ /\ answer = "none"
                /\ pc' = "idle" /\ UNCHANGED <<held, authorised, journal>>
             \/ /\ answer = "decide"
                /\ \/ pc' = "uiPublish" /\ held' = record /\ authorised' = region
                   \/ pc' = "reinspecting" /\ UNCHANGED <<held, authorised>>
                /\ UNCHANGED journal
             \/ /\ answer = "open"
                /\ pc' = "verifying" /\ held' = record /\ UNCHANGED authorised
                /\ \/ journal' = [id |-> record.op, about |-> record.op,
                                  result |-> IF found THEN "Installed" ELSE "CompletionUncertain"]
                   \/ UNCHANGED journal
             \/ /\ answer \in {"cleaned", "error"}
                /\ pc' = "reinspecting" /\ UNCHANGED <<held, authorised, journal>>
    /\ RegionKept
    /\ UNCHANGED <<world, thread, written, already, refused, bounds, admits>>

UiStops ==
    /\ pc' = "reinspecting" /\ held' = NoRecord /\ authorised' = NoRegion
UiKept == RegionKept /\ WindowOnly /\ UNCHANGED <<found, admits>>

\* A restore the user agreed to writes only over the region agreed to, and
\* only after the attempt is durable.
RecoveryPublish ==
    /\ pc = "uiPublish"
    /\ LET restoring == WithState(held, "RestoringRegion") IN
       \/ /\ region = authorised
          /\ Published(restoring)
          /\ pc' = "uiWrite" /\ held' = restoring /\ UNCHANGED authorised
       \/ /\ region = authorised
          /\ NotPublished(restoring) /\ UiStops
       \/ \* unreadable, or another region by now
          UNCHANGED record /\ UiStops
    /\ UiKept

RecoveryWrite ==
    /\ pc = "uiWrite"
    /\ \/ region' = held.original /\ owed' = NoRegion
       \/ RegionKept
    /\ pc' = "uiRead"
    /\ WindowOnly /\ UNCHANGED <<record, held, answers>>

RecoveryRead ==
    /\ pc = "uiRead"
    /\ \/ region = held.original /\ pc' = "uiMilestone" /\ UNCHANGED <<held, authorised>>
       \/ UiStops
    /\ UiKept /\ UNCHANGED record

RecoveryMilestone ==
    /\ pc = "uiMilestone"
    /\ LET restored == WithState(held, "Restored") IN
       \/ Published(restored) /\ pc' = "uiClear" /\ held' = restored /\ UNCHANGED authorised
       \/ NotPublished(restored) /\ UiStops
    /\ UiKept

RecoveryClear ==
    /\ pc = "uiClear"
    /\ Cleared(held) \/ NotCleared
    /\ UiStops /\ UiKept

\* A record whose outcome has just been told goes after a fresh read-back.
VerifyAndClear ==
    /\ pc = "verifying"
    /\ \/ region = held.original /\ Cleared(held)
       \/ NotCleared
    /\ UiStops /\ UiKept

Reinspect ==
    /\ pc = "reinspecting"
    /\ \E answer \in Answers : Inspects(answer) /\ admits' = Admits(answer)
    /\ pc' = "idle"
    /\ RegionKept /\ WindowOnly /\ UNCHANGED <<held, found, authorised>>

\* Without a record there is nothing to restore and nothing to resume.
AsksAgain == UNCHANGED <<pc, held, authorised>>   \* mutated
NothingToDecide == pc' = "idle" /\ UNCHANGED <<held, authorised>>

\* The deadline question: wait by taking the installation over, or restore.
AnswerDeadline ==
    /\ pc = "asked"
    /\ \E answer \in Answers :
          /\ Inspects(answer)
          /\ \/ /\ answer = "decide" /\ held' = record
                /\ \/ pc' = "following" /\ UNCHANGED authorised
                   \/ pc' = "uiPublish" /\ authorised' = region
             \/ answer # "decide" /\ NothingToDecide
    /\ RegionKept /\ WindowOnly /\ UNCHANGED <<found, admits>>

RecoveryStep ==
    \/ Probe \/ Settle \/ RecoveryPublish \/ RecoveryWrite \/ RecoveryRead
    \/ RecoveryMilestone \/ RecoveryClear \/ VerifyAndClear \/ Reinspect

-------------------------------------------------------------------------------
\* The world around the process.

Forgotten ==
    /\ pc' = "off" /\ Dropped
    /\ touched' = FALSE /\ written' = FALSE
    /\ found' = FALSE /\ authorised' = NoRegion /\ admits' = FALSE
    /\ RegionKept
    /\ UNCHANGED <<journal, world, already, refused, ops, moves>>

\* The user closes a window with nothing at work.  A window whose last
\* operation ended in need of recovery inspects the record before it goes.
Close ==
    /\ \/ pc \in {"idle", "asked"} /\ UNCHANGED record
       \/ pc = "idle" /\ Inspects("cleaned")
    /\ Forgotten /\ UNCHANGED crashes

\* The process dies, or is closed, at work.
Crash ==
    /\ pc \in ThreadSteps \cup RecoverySteps /\ crashes < MaxCrashes
    /\ Forgotten /\ UNCHANGED record /\ crashes' = crashes + 1

\* The package manager ends the installation, whether or not anyone watches;
\* a package can be delivered without being registered.
InstallEnds ==
    /\ install = "running"
    /\ \/ install' = "finished" /\ present' \in {present, TRUE}
       \/ install' = "failed" /\ UNCHANGED present
    /\ RegionKept
    /\ UNCHANGED <<record, journal, pc, held, thread, written, answers, already, refused, bounds>>

\* The user changes the region in the Windows settings.
UserMoves ==
    /\ moves < MaxMoves /\ moves' = moves + 1
    /\ region' \in Regions \ {region} /\ owed' = NoRegion
    /\ UNCHANGED <<record, journal, world, pc, held, thread, written, answers, already,
                   refused, ops, crashes>>

Next ==
    \/ \E target \in Regions : BeginOperation(target)
    \/ ThreadStep
    \/ Launch \/ RecoveryStep \/ AnswerDeadline
    \/ Close \/ Crash \/ InstallEnds \/ UserMoves

Spec == Init /\ [][Next]_vars

\* The scheduler runs the threads, and the package manager ends what it began.
\* Nothing is assumed of the user, of crashes or of writes that land.
Fairness ==
    /\ WF_vars(ThreadStep)
    /\ WF_vars(RecoveryStep)
    /\ WF_vars(InstallEnds)

FairSpec == Spec /\ Fairness

-------------------------------------------------------------------------------
\* Safety.

\* The original region is on disk for as long as it is owed: through every
\* step of an operation, every failed publication and every crash, a region
\* that a switch replaced is named by the published record (README.md:71,
\* region.rs switch_region, PendingRestoreGuard).
TemporaryRegionIsRecorded ==
    owed # NoRegion =>
        /\ record # NoRecord
        /\ record.original = owed
        /\ record.temporary = region
        /\ region # owed

\* A milestone that says the original region came back is true when a crash
\* leaves it to the next start, which may remove the record on its word
\* (install.rs restore_region, startup.rs execute).
RestoredClaimIsTrue ==
    /\ record # NoRecord
    /\ record.state \in {"RegionRestoredEarly", "Restored"}
    => owed = NoRegion

\* No path of the operation, fresh or taken over, leads it to an event its
\* state machine refuses (install.rs advance and its callers).
NeverRefused == ~refused

\* An operation that published a record or changed the region has told the
\* history how it ended when it stops (install.rs fail, write_journal_entry
\* and the ways out of observe).
HistoryTold == pc \in {"idle", "asked"} /\ touched => written

\* The history says "installed" only of a package that is there, and only
\* once the original region is no longer owed, whichever of the operation and
\* the next start writes it (journal.rs:31, confirmed_completion,
\* record_operation_without_outcome).
InstalledHasEvidence ==
    [][journal' # journal /\ journal'.result = "Installed" => present /\ owed = NoRegion]_vars

\* Once an early restore is confirmed the operation never writes a region
\* again, not when the backend states a failure, not at its completion and
\* not after a takeover (operation.rs step_for_outcome, install.rs observe).
ReturnedRegionStaysPut ==
    facts.restoredEarly => pc \notin {"writing", "restoring", "restoreRead", "milestone"}

\* The user is asked about an operation only while its record is there to be
\* acted upon (install.rs AskUserAfterTimeout, resumed_install_not_followed,
\* window.rs resolve_uncertain_operation).
QuestionHasRecord == pc = "asked" => record # NoRecord

\* A record is replaced only by a later record of the same operation, and
\* never forgotten while its region is owed (storage.rs publish and clear).
RecordOutlivesDebt ==
    [][record # NoRecord /\ record' # record =>
         IF record' = NoRecord THEN owed = NoRegion ELSE SameIdentity(record, record')]_vars

\* An installation begins only under a published record of its own operation
\* (install.rs execute: switch, resolve, identity, request in this order).
InstallHasRecord ==
    [][install # "running" /\ install' = "running" =>
         record # NoRecord /\ SameIdentity(record, held)]_vars

\* What the application promises about the region, for all of this.
NothingSaved == NoRecord
Promise == INSTANCE RegionPromise WITH
    Nothing <- NothingSaved,
    saved <- IF record = NoRecord THEN NothingSaved
             ELSE [original |-> record.original, temporary |-> record.temporary]
ImplementsPromise == Promise!Spec

-------------------------------------------------------------------------------
\* Liveness.

\* A thread that works on an operation, and a recovery the user answered,
\* come to rest: no loop of early restores that do not become durable, of
\* attempts or of observations outlives the installation (install.rs observe).
OperationEnds == pc \in ThreadSteps \cup RecoverySteps ~> pc \in Rest

-------------------------------------------------------------------------------
\* What documents and comments say, and the code does not do.

\* A record the next start takes for over, and removes (Inspects "cleaned").
LooksOver ==
    record # NoRecord /\ OriginalActive /\ record.state # "RegionRestoredEarly"

\* "A valid record is removed only after a fresh read-back confirms the
\* original region *and* its own milestone says the operation is over"
\* (startup.rs:295), "the utility notices and resumes observing rather than
\* treating the operation as abandoned" (README.md:375): when the process dies
\* while it observes a running installation, it leaves no record that the next
\* start takes for over. It does between the write of an early restore and its
\* milestone.
ObservedIsNotOver ==
    [][(/\ machine \in {"InstallObserved", "Installing"} /\ install = "running"
        /\ pc \in ThreadSteps /\ pc' = "off")
         => ~LooksOver \/ record.original = record.temporary]_vars

\* "The recovery record is published by the region guard, not by the machine.
\* The machine's milestones would otherwise be written twice"
\* (install.rs:1195): while an accepted request is observed, the guard has
\* made a milestone past the mere preparation durable.
MilestonesReachTheRecord ==
    pc = "observing" /\ machine \in {"InstallObserved", "Installing"}
        => record.state # "Prepared"

\* "Identity shared by this operation's record and its journal entry"
\* (install.rs:354).
EntryNamesItsRecord == journal.id = journal.about

\* "an operation refuses to start at all when the package is already there -
\* so an identity present now appeared while that operation was running"
\* (install.rs recorded_package_present).
InstalledIsOurs == journal.result = "Installed" => journal.about \notin already
===============================================================================
