--------------------------- MODULE OperationTrace ---------------------------
(***************************************************************************)
(* What one guarded installation leaves to be read afterwards: the lines   *)
(* of the diagnostic log (gui/install_trace.rs, core/log.rs) and the entry *)
(* of the history, in the order gui/install.rs writes them between its     *)
(* other effects, with a crash between any two and a takeover after it.    *)
(*                                                                         *)
(* The states of the operation and the choice of its next step are those   *)
(* of OperationMachine and GuardedInstall; here any step they may choose   *)
(* can be the next. A log line that cannot be written is not modelled      *)
(* here: LogFile is about that.                                            *)
(***************************************************************************)
EXTENDS Integers, Sequences, FiniteSets

CONSTANTS
    MaxOps,     \* bound on operation identities
    MaxPolls,   \* bound on the answers of the package manager
    MaxCrashes  \* bound on the deaths of the process

TraceAssumption == MaxOps \in Nat /\ MaxPolls \in Nat /\ MaxCrashes \in Nat

Ops == 1 .. MaxOps
NoRecord == [op |-> 0, state |-> "none"]
Results == {"Installed", "CompletionUncertain", "RecoveryRequired", "Failed"}

VARIABLES
    region,     \* home: the original one, away: the temporary one, other: the user's
    record,     \* the published recovery record
    journal,    \* the history
    log,        \* the diagnostic log
    pc, then,   \* where the thread is, and where it goes once the outcome is told
    result,     \* the outcome being told
    purpose,    \* why the region is being restored
    op,         \* identity of the operation
    touched, told, exitTold, early, seen,  \* as the operation keeps them
    running,    \* whether the package manager took the request
    published,  \* history: operations whose record was published
    ids, polls, crashes, moved

thread == <<pc, then, result, purpose, op, touched, told, exitTold, early, seen>>
bounds == <<ids, polls, crashes, moved>>
vars   == <<region, record, journal, log, thread, running, published, bounds>>

Line(code, what) == [op |-> op, code |-> code, what |-> what]

\* The events of the trace, each with what a reader tells it by.
StartedLine(id, what) == [op |-> id, code |-> "started", what |-> what]
RecordLine == Line("recovery_record", "written")
SwitchLine(what) == Line("region_switch", what)
ProductLine(what) == Line("product", what)
IdentityLine(what) == Line("identity", what)
SelectedLine == Line("selected", "none")
BackendLine(what) == Line("backend", what)
ObservationLine(what) == Line("observation", what)
RestoreLine(what) == Line("restore", what)
DiagnosticLine == Line("diagnostic", "none")
EntryLine(what) == Line("entry", what)
FinishedLine(what) == Line("finished", what)

Codes == {"started", "recovery_record", "region_switch", "product", "identity", "selected",
          "backend", "observation", "restore", "diagnostic", "finished", "entry"}

Logs(line) == log' = Append(log, line)
LogsBoth(first, second) == log' = log \o <<first, second>>

\* What an operation's own state is until it does something.
Fresh == touched' = FALSE /\ told' = FALSE /\ exitTold' = FALSE /\ early' = FALSE /\ seen' = "none"

-----------------------------------------------------------------------------
Init ==
    /\ region = "home" /\ record = NoRecord /\ journal = <<>> /\ log = <<>>
    /\ pc = "idle" /\ then = "idle" /\ result = "none" /\ purpose = "none" /\ op = 0
    /\ touched = FALSE /\ told = FALSE /\ exitTold = FALSE /\ early = FALSE /\ seen = "none"
    /\ running = FALSE /\ published = {}
    /\ ids = 0 /\ polls = 0 /\ crashes = 0 /\ moved = FALSE

Begin ==
    /\ pc = "idle" /\ record = NoRecord /\ region = "home" /\ ids < MaxOps
    /\ ids' = ids + 1 /\ op' = ids + 1
    /\ Fresh
    /\ Logs(StartedLine(ids + 1, "fresh"))
    /\ pc' = "preparing" /\ running' = FALSE
    /\ UNCHANGED <<region, record, journal, then, result, purpose, published, polls, crashes, moved>>

\* The lines before a failure, its own, and an entry if the machine was touched.
Fail(lines, next) ==
    /\ log' = log \o lines \o <<DiagnosticLine>>
    /\ IF touched
       THEN then' = next /\ result' = "Failed" /\ pc' = "telling"
       ELSE pc' = next /\ UNCHANGED <<then, result>>
    /\ UNCHANGED <<op, touched, early, seen>>

\* The record cannot be prepared, or the region cannot be read.
PrepareFails ==
    /\ pc = "preparing"
    /\ Fail(<<>>, "idle")
    /\ UNCHANGED <<region, record, journal, purpose, told, exitTold, running, published, bounds>>

PrepareUntold ==   \* mutated
    /\ pc = "preparing"
    /\ touched' = TRUE
    /\ pc' = "saving"
    /\ UNCHANGED <<region, record, journal, log, then, result, purpose, op, told, exitTold, early, seen,
                   running, published, bounds>>
Prepare ==
    /\ pc = "preparing"
    /\ touched' = TRUE
    /\ Logs(RecordLine)
    /\ pc' = "saving"
    /\ UNCHANGED <<region, record, journal, then, result, purpose, op, told, exitTold, early, seen,
                   running, published, bounds>>

Publish ==
    /\ record' = [op |-> op, state |-> "Unrestored"]
    /\ published' = published \cup {op}

\* A publication that fails may have moved the record into place.
SaveFails ==
    /\ pc = "saving"
    /\ Publish \/ UNCHANGED <<record, published>>
    /\ Fail(<<SwitchLine("failed")>>, "idle")
    /\ UNCHANGED <<region, journal, purpose, told, exitTold, running, bounds>>

Save ==
    /\ pc = "saving"
    /\ Publish
    /\ pc' = "writing"
    /\ UNCHANGED <<region, journal, log, then, result, purpose, op, touched, told, exitTold, early,
                   seen, running, bounds>>

Write ==
    /\ pc = "writing"
    /\ region' \in {region, "away"}
    /\ pc' = "readBack"
    /\ UNCHANGED <<record, journal, log, then, result, purpose, op, touched, told, exitTold, early,
                   seen, running, published, bounds>>

\* The write may have landed: the region is put back before the failure is told.
ReadBackFails ==
    /\ pc = "readBack"
    /\ Logs(SwitchLine("failed"))
    /\ pc' = "restoring" /\ purpose' = "rollback"
    /\ UNCHANGED <<region, record, journal, then, result, op, touched, told, exitTold, early, seen,
                   running, published, bounds>>

Switched ==
    /\ pc = "readBack" /\ region = "away"
    /\ Logs(SwitchLine("switched"))
    /\ pc' = "resolving"
    /\ UNCHANGED <<region, record, journal, then, result, purpose, op, touched, told, exitTold, early,
                   seen, running, published, bounds>>

\* The original region, with the record cleared or not, or a third one.
NotSwitched ==
    /\ pc = "readBack" /\ region # "away"
    /\ \/ region = "home" /\ record' = NoRecord /\ Fail(<<SwitchLine("preserved")>>, "idle")
       \/ region = "home" /\ UNCHANGED record /\ Fail(<<SwitchLine("failed")>>, "idle")
       \/ region = "other" /\ UNCHANGED record /\ Fail(<<SwitchLine("conflict")>>, "idle")
    /\ UNCHANGED <<region, journal, purpose, told, exitTold, running, published, bounds>>

-----------------------------------------------------------------------------
\* Under the temporary region.
FailsAndUnwinds(lines) == Fail(lines, "restoring") /\ purpose' = "unwind"

NotResolved ==
    /\ pc = "resolving"
    /\ \/ FailsAndUnwinds(<<ProductLine("not_resolved")>>)
       \/ FailsAndUnwinds(<<ProductLine("resolved")>>)   \* a kind not supported
    /\ UNCHANGED <<region, record, journal, told, exitTold, running, published, bounds>>

\* The identity goes to the record if the card names one.
Resolve ==
    /\ pc = "resolving"
    /\ \/ Logs(ProductLine("resolved"))
       \/ \E saved \in {"saved", "not_saved"} :
             LogsBoth(ProductLine("resolved"), IdentityLine(saved))
    /\ pc' = "measuring"
    /\ UNCHANGED <<region, record, journal, then, result, purpose, op, touched, told, exitTold, early,
                   seen, running, published, bounds>>

AlreadyInstalled ==
    /\ pc = "measuring"
    /\ FailsAndUnwinds(<<>>)
    /\ UNCHANGED <<region, record, journal, told, exitTold, running, published, bounds>>

Select ==
    /\ pc = "measuring"
    /\ Logs(SelectedLine)
    /\ pc' = "starting"
    /\ UNCHANGED <<region, record, journal, then, result, purpose, op, touched, told, exitTold, early,
                   seen, running, published, bounds>>

Refused ==
    /\ pc = "starting"
    /\ exitTold' = TRUE
    /\ FailsAndUnwinds(<<BackendLine("refused")>>)
    /\ UNCHANGED <<region, record, journal, told, running, published, bounds>>

\* The package manager has the request before its answer is logged.
Requested ==
    /\ pc = "starting" /\ ~running
    /\ running' = TRUE
    /\ UNCHANGED <<region, record, journal, log, thread, published, bounds>>

Accepted ==
    /\ pc = "starting" /\ running
    /\ Logs(BackendLine("accepted"))
    /\ pc' = "observing"
    /\ UNCHANGED <<region, record, journal, then, result, purpose, op, touched, told, exitTold, early,
                   seen, running, published, bounds>>

-----------------------------------------------------------------------------
\* Observation.
Poll == pc = "observing" /\ polls < MaxPolls /\ polls' = polls + 1

NotObserved ==
    /\ Poll
    /\ Fail(<<>>, "idle")
    /\ UNCHANGED <<region, record, journal, purpose, told, exitTold, running, published, ids, crashes,
                   moved>>

\* The line of an observation that changed, and of an end not told before.
ExitLines == IF exitTold THEN <<>> ELSE <<BackendLine("finished")>>
ObservationLines(what) == IF what = seen THEN <<>> ELSE <<ObservationLine(what)>>

Observe(what) ==
    /\ Poll
    /\ IF what = "installing"
       THEN log' = log \o ObservationLines(what) /\ UNCHANGED <<running, exitTold>>
       ELSE /\ log' = log \o ExitLines \o ObservationLines(what)
            /\ running' = FALSE /\ exitTold' = TRUE
    /\ seen' = what
    /\ pc' = "deciding"
    /\ UNCHANGED <<region, record, journal, then, result, purpose, op, touched, told, early, published,
                   ids, crashes, moved>>

\* The package manager says that it failed.
Stated ==
    /\ Poll /\ ~exitTold
    /\ Fail(ExitLines, IF early THEN "clearing" ELSE "restoring")
    /\ exitTold' = TRUE /\ running' = FALSE /\ purpose' = "stated"
    /\ UNCHANGED <<region, record, journal, told, published, ids, crashes, moved>>

KeepObserving ==
    /\ pc = "deciding" /\ seen # "completed"
    /\ pc' = "observing"
    /\ UNCHANGED <<region, record, journal, log, then, result, purpose, op, touched, told, exitTold,
                   early, seen, running, published, bounds>>

Restores(why) ==
    /\ pc' = "restoring" /\ purpose' = why
    /\ UNCHANGED <<region, record, journal, log, then, result, op, touched, told, exitTold, early, seen,
                   running, published, bounds>>

RestoreEarly == pc = "deciding" /\ seen = "installing" /\ ~early /\ Restores("early")
RestoreForGood == pc = "deciding" /\ seen = "completed" /\ ~early /\ Restores("outcome")

Finish ==
    /\ pc = "deciding" /\ seen = "completed" /\ early
    /\ pc' = "clearing" /\ purpose' = "outcome"
    /\ UNCHANGED <<region, record, journal, log, then, result, op, touched, told, exitTold, early, seen,
                   running, published, bounds>>

Tells(outcome, next) == pc' = "telling" /\ result' = outcome /\ then' = next

AskUser ==
    /\ pc = "deciding" /\ seen # "completed"
    /\ Tells("CompletionUncertain", "idle")
    /\ UNCHANGED <<region, record, journal, log, purpose, op, touched, told, exitTold, early, seen,
                   running, published, bounds>>

-----------------------------------------------------------------------------
\* The restoration, for all its purposes.
RestoreWrites ==
    /\ pc = "restoring"
    /\ region' = "home"
    /\ pc' = "milestone"
    /\ UNCHANGED <<record, journal, log, then, result, purpose, op, touched, told, exitTold, early,
                   seen, running, published, bounds>>

Milestone == IF purpose = "early" THEN "RegionRestoredEarly" ELSE "Restored"

WithMilestone == [record EXCEPT !.state = Milestone]

MilestoneSaved ==
    /\ pc = "milestone"
    /\ record' = WithMilestone
    /\ pc' = "restored"
    /\ UNCHANGED <<region, journal, log, then, result, purpose, op, touched, told, exitTold, early, seen,
                   running, published, bounds>>

Restored ==
    /\ pc = "restored"
    /\ Logs(RestoreLine("restored"))
    /\ early' = (early \/ purpose = "early")
    /\ pc' = IF purpose = "early" THEN "observing" ELSE "clearing"
    /\ UNCHANGED <<region, record, journal, then, result, purpose, op, touched, told, exitTold, seen,
                   running, published, bounds>>

\* Every write failed, or the milestone could not be saved, moved or not.
NotRestored ==
    /\ \/ pc \in {"restoring", "milestone"} /\ UNCHANGED record
       \/ pc = "milestone" /\ record' = WithMilestone
    /\ CASE purpose = "early" ->
                Logs(RestoreLine("failed")) /\ pc' = "observing" /\ UNCHANGED <<then, result>>
         [] purpose \in {"unwind", "stated"} ->
                Logs(RestoreLine("failed")) /\ pc' = "idle" /\ UNCHANGED <<then, result>>
         [] purpose = "rollback" ->
                /\ LogsBoth(RestoreLine("failed"), DiagnosticLine)
                /\ Tells("Failed", "idle")
         [] purpose = "outcome" ->
                Logs(RestoreLine("failed")) /\ Tells("RecoveryRequired", "failing")
    /\ UNCHANGED <<region, journal, purpose, op, touched, told, exitTold, early, seen, running,
                   published, bounds>>

Clear ==
    /\ pc = "clearing"
    /\ record' \in {record, NoRecord}
    /\ CASE purpose \in {"unwind", "stated"} -> pc' = "idle" /\ UNCHANGED <<log, then, result>>
         [] purpose = "rollback" -> Logs(DiagnosticLine) /\ Tells("Failed", "idle")
         [] purpose = "outcome" -> Tells("Installed", "idle") /\ UNCHANGED log
    /\ UNCHANGED <<region, journal, purpose, op, touched, told, exitTold, early, seen, running,
                   published, bounds>>

-----------------------------------------------------------------------------
\* The outcome: once, however often it is told.
Tell ==
    /\ pc = "telling"
    /\ IF told
       THEN pc' = then /\ UNCHANGED <<log, told>>
       ELSE Logs(FinishedLine(result)) /\ told' = TRUE /\ pc' = "appending"
    /\ UNCHANGED <<region, record, journal, then, result, purpose, op, touched, exitTold, early, seen,
                   running, published, bounds>>

\* The history is replaced, or its file cannot be read or written.
AppendEntry ==
    /\ pc = "appending"
    /\ \/ journal' = Append(journal, [op |-> op, result |-> result]) /\ pc' = "appended"
       \/ UNCHANGED journal /\ pc' = "notAppended"
    /\ UNCHANGED <<region, record, log, then, result, purpose, op, touched, told, exitTold, early, seen,
                   running, published, bounds>>

EntryTold ==
    /\ pc \in {"appended", "notAppended"}
    /\ Logs(EntryLine(IF pc = "appended" THEN "written" ELSE "not_written"))
    /\ pc' = then
    /\ UNCHANGED <<region, record, journal, then, result, purpose, op, touched, told, exitTold, early,
                   seen, running, published, bounds>>

\* The failure after an outcome that was told.
FailAfterOutcome ==
    /\ pc = "failing"
    /\ Fail(<<>>, "idle")
    /\ UNCHANGED <<region, record, journal, purpose, told, exitTold, running, published, bounds>>

-----------------------------------------------------------------------------
Crash ==
    /\ pc \notin {"idle", "off"} /\ crashes < MaxCrashes
    /\ crashes' = crashes + 1
    /\ pc' = IF record = NoRecord THEN "idle" ELSE "off"
    /\ UNCHANGED <<region, record, journal, log, then, result, purpose, op, touched, told, exitTold,
                   early, seen, running, published, ids, polls, moved>>

\* The next start finds the installation going on. With none it leaves the
\* record to the recovery dialogue, which is not followed here.
TakeOver ==
    /\ pc = "off" /\ running /\ record.state \in {"Unrestored", "RegionRestoredEarly"} /\ ids < MaxOps
    /\ ids' = ids + 1 /\ op' = ids + 1
    /\ touched' = TRUE /\ told' = FALSE /\ exitTold' = FALSE /\ seen' = "none"
    /\ early' = (record.state = "RegionRestoredEarly")
    /\ Logs(StartedLine(ids + 1, "resumed"))
    /\ pc' = "observing"
    /\ UNCHANGED <<region, record, journal, then, result, purpose, running, published, polls, crashes,
                   moved>>

\* The user chooses another region in Windows; the one in force when an
\* operation reads it is what home stands for.
UserMoves ==
    /\ ~moved /\ pc # "preparing"
    /\ moved' = TRUE /\ region' = "other"
    /\ UNCHANGED <<record, journal, log, thread, running, published, ids, polls, crashes>>

Switch == Prepare \/ PrepareFails \/ Save \/ SaveFails \/ Write \/ ReadBackFails \/ Switched \/ NotSwitched
Start == Resolve \/ NotResolved \/ AlreadyInstalled \/ Select \/ Requested \/ Accepted \/ Refused
Follow == \/ \E what \in {"installing", "completed", "uncertain"} : Observe(what)
          \/ NotObserved \/ Stated \/ KeepObserving \/ RestoreEarly \/ RestoreForGood \/ Finish \/ AskUser
Restore == RestoreWrites \/ MilestoneSaved \/ Restored \/ NotRestored \/ Clear
Outcome == Tell \/ AppendEntry \/ EntryTold \/ FailAfterOutcome

Next == Begin \/ Switch \/ Start \/ Follow \/ Restore \/ Outcome \/ Crash \/ TakeOver \/ UserMoves

Spec == Init /\ [][Next]_vars

-----------------------------------------------------------------------------
Logged(o, code) == \E i \in DOMAIN log : log[i].op = o /\ log[i].code = code
Times(o, what(_)) == Cardinality({i \in DOMAIN log : log[i].op = o /\ what(log[i])})

IsOutcome(line) == line.code = "finished"
IsEntry(line) == line.code = "entry"
IsExit(line) == line.code = "backend" /\ line.what # "accepted"

LogLines == [op: Ops, code: Codes,
             what: {"fresh", "resumed", "written", "failed", "switched", "preserved", "conflict",
                    "resolved", "not_resolved", "saved", "not_saved", "none", "accepted", "refused",
                    "finished", "installing", "completed", "uncertain", "restored", "not_written"}
                   \cup Results]

TypeOK ==
    /\ region \in {"home", "away", "other"}
    /\ record \in [op: 0 .. MaxOps, state: {"none", "Unrestored", "RegionRestoredEarly", "Restored"}]
    /\ journal \in Seq([op: Ops, result: Results])
    /\ log \in Seq(LogLines)
    /\ {pc, then} \subseteq
          {"idle", "off", "preparing", "saving", "writing", "readBack", "resolving", "measuring",
           "starting", "observing", "deciding", "restoring", "milestone", "restored", "clearing", "telling",
           "appending", "appended", "notAppended", "failing"}
    /\ result \in Results \cup {"none"}
    /\ purpose \in {"none", "rollback", "unwind", "early", "outcome", "stated"}
    /\ op \in 0 .. MaxOps /\ published \subseteq Ops
    /\ seen \in {"none", "installing", "completed", "uncertain"}
    /\ {touched, told, exitTold, early, running, moved} \subseteq BOOLEAN
    /\ ids \in 0 .. MaxOps /\ polls \in 0 .. MaxPolls /\ crashes \in 0 .. MaxCrashes

\* A temporary region can be traced: the operation that holds the record said
\* in the log which regions it was about to change, before it did, and whatever
\* crashed since. (install.rs switch_region)
TouchIsTold == region = "away" => record.op # 0 /\ Logged(record.op, "recovery_record")

\* An operation has one outcome in the log and in the history and one end of
\* its backend, through every path on which several failures are told.
\* (install.rs write_journal_entry, observe)
OncePerOperation ==
    \A o \in Ops :
        /\ Times(o, IsOutcome) <= 1 /\ Times(o, IsEntry) <= 1 /\ Times(o, IsExit) <= 1
        /\ Cardinality({i \in DOMAIN journal : journal[i].op = o}) <= 1

\* An operation that is over has told an outcome if it touched the machine, and
\* none if not. (install.rs fail, observe)
EndIsTold ==
    pc = "idle" /\ op # 0 /\ crashes = 0 => (Logged(op, "finished") <=> touched)

\* What the history says of an operation is what the log said of it before, and
\* an entry the log calls written is there. (install.rs write_journal_entry)
HistoryAgrees ==
    /\ \A i \in DOMAIN journal : \E j \in DOMAIN log :
          log[j].op = journal[i].op /\ log[j].code = "finished" /\ log[j].what = journal[i].result
    /\ \A j \in DOMAIN log : log[j].code = "entry" /\ log[j].what = "written" =>
          \E i \in DOMAIN journal : journal[i].op = log[j].op

\* The temporary region is in force under no record that says it was restored,
\* early or for good, which a restart would believe. (install.rs restore_region)
MilestoneIsTrue == region = "away" => record.state = "Unrestored"

\* log.rs: "The recovery record was published before Windows was touched."
RecordWrittenIsWritten ==
    pc = "idle" /\ op # 0 /\ Logged(op, "recovery_record") => op \in published

\* log.rs: "The guarded operation reached a state it cannot leave."
RegionKept == region' = region \/ region' = "other"
FinishedIsLast == [][Logged(op, "finished") => RegionKept]_vars

\* install.rs: "Every attempt to write the original region failed." says why an
\* operation asks for recovery.
RecoveryIsNeeded ==
    pc = "telling" /\ result = "RecoveryRequired" => region # "home"
=============================================================================
