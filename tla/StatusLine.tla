----------------------------- MODULE StatusLine -----------------------------
(***************************************************************************)
(* The one sentence under the commands of the Installation tab: what the   *)
(* gates of gui/state.rs admit, the sentence gui/render.rs makes of the    *)
(* same state, and the sentence on the screen, which the handlers of       *)
(* gui/command.rs, window.rs and menu.rs replace, each when it sees fit.   *)
(*                                                                         *)
(* One product, one region and one file stand for all: a field is filled   *)
(* or it is not. A sentence is its name. A dialogue holds the messages of  *)
(* the workers back (gui/state.rs), so each handler is one step.           *)
(***************************************************************************)
EXTENDS Naturals

CONSTANT MaxChosen   \* bound on the files chosen in a behaviour

StatusAssumption == MaxChosen \in Nat

VARIABLES
    app,       \* AppState, as far as the sentence reads it
    workers    \* what is under way outside of the window

vars == <<app, workers>>

\* resolution: of the product of the link. file: the file draft and what was
\* said of it. recovers: recovery_admits_new_operation. report: of App
\* Installer and the Store, nothing is there, the Store alone, or all that an
\* installation needs. verdict: the delivery answer kept. running:
\* running_operation is set. opstate: what the operation said last. failure:
\* operation_failure is set. handoff: the stage on show. download: an
\* installer was asked for. status: operation_status.
\* What an operation says of itself: it looks the product up, one of its other
\* stages, its end, or a stage that has no sentence.
Working == {"looking", "underway", "done", "unsaid"}
Stages == {"SwitchingRegion", "HandedOff", "RestoringRegion", "Restored",
           "FailedRegionSafe", "FailedWithTemporaryRegion"}

Sentences == {"initial", "notice", "input_error", "source_choose_region",
    "source_recovery_pending", "source_refused_here", "source_ready",
    "file_recovery_pending", "file_store_not_confirmed", "file_choose_region",
    "file_ready", "none", "inspecting", "failed", "refused", "resolving",
    "region_status", "card_confirmed", "card_missing", "prerequisites",
    "prerequisites_met", "operation_started", "failure", "uncertain", "resumed",
    "recovery_outcome", "handoff_failed", "handoff_did_not_happen", "declined",
    "download_asked", "download_ready", "download_failed", "other"}
    \cup Working \cup (Stages \ {"FailedRegionSafe", "FailedWithTemporaryRegion"})

AppStates ==
    [selected: {"link", "file"}, text: {"empty", "junk", "product"},
     resolution: {"idle", "accepted", "resolving", "resolved", "failed"},
     file: {"none", "inspecting", "failed", "refused", "admitted"},
     region: BOOLEAN, recovers: BOOLEAN,
     report: {"unchecked", "none", "store", "all"},
     verdict: {"Unknown", "Deliverable", "Refused"}, running: BOOLEAN,
     opstate: Working \cup {"none", "uncertain"}, failure: BOOLEAN,
     handoff: Stages \cup {"none"}, download: BOOLEAN, status: Sentences]

\* Inspections whose answers are to come, files chosen so far, the delivery
\* question, the startup checks, the record of the last run, the threads of
\* the operation and the handoff, and whether the handoff's region is in force.
WorkerStates ==
    [inspections: 0 .. MaxChosen, chosen: 0 .. MaxChosen, asking: BOOLEAN,
     checking: BOOLEAN, owed: BOOLEAN, installing: BOOLEAN,
     handing: {"none", "forth", "back"}, held: BOOLEAN]

-----------------------------------------------------------------------------
(* The gates.                                                              *)

HandoffOffersRestore(a) == a.handoff \in {"HandedOff", "FailedWithTemporaryRegion"}

HandoffBlocks(a) == a.handoff \notin {"none", "Restored", "FailedRegionSafe"}

HasProduct(a) == a.resolution # "idle"

\* The answer kept speaks of the one question there is.
DeviceVerdict(a) == IF HasProduct(a) /\ a.region THEN a.verdict ELSE "Unknown"

AdmitsInstallation(report) == report = "all"
AdmitsHandoff(report) == report \in {"store", "all"}

InstallIsAvailable(a) ==
    /\ a.recovers /\ DeviceVerdict(a) # "Refused" /\ ~HandoffBlocks(a)
    /\ AdmitsInstallation(a.report) /\ HasProduct(a) /\ a.region /\ ~a.running

HandoffIsAvailable(a) ==
    /\ a.selected = "file" /\ a.recovers /\ ~HandoffBlocks(a)
    /\ AdmitsHandoff(a.report) /\ a.file = "admitted" /\ a.region /\ ~a.running

PrimaryCommandIsAvailable(a) == InstallIsAvailable(a) \/ HandoffIsAvailable(a)

DownloadIsAvailable(a) ==
    /\ ~a.running /\ ~a.download /\ ~HandoffOffersRestore(a)
    /\ a.selected = "link" /\ HasProduct(a) /\ DeviceVerdict(a) # "Refused"
    /\ a.failure \/ a.opstate = "uncertain"

\* The caption of the button that restores the region and asks for an installer.
RestoreCaption(a) ==
    IF a.download THEN "downloading"
    ELSE IF DownloadIsAvailable(a) THEN "download" ELSE "restore"

-----------------------------------------------------------------------------
(* The sentence of a state: the first that applies.                        *)

HandoffFailureStatus(a) == IF a.failure THEN "handoff_failed" ELSE "handoff_did_not_happen"

HandoffStatus(a) ==
    IF a.handoff \in {"FailedRegionSafe", "FailedWithTemporaryRegion"}
    THEN HandoffFailureStatus(a) ELSE a.handoff

StartedStatus == "operation_started"

\* A handoff on show owns the sentence, then a failure, then the operation.
BusyStatus(a) ==
    IF a.handoff # "none" THEN HandoffStatus(a)
    ELSE IF a.failure THEN "failure"
    ELSE IF a.opstate \in {"none", "unsaid"} THEN StartedStatus
    ELSE a.opstate

StoreSourceStatus(a) ==
    CASE a.text = "product" -> "source_syntax_accepted"
      [] a.text = "empty" -> "initial"
      [] a.text = "junk" -> "input_error"

StoreTextStatus(a) ==
    IF a.text # "product" THEN StoreSourceStatus(a)
    ELSE IF ~a.region THEN "source_choose_region"
    ELSE IF a.running THEN BusyStatus(a)
    ELSE IF ~a.recovers THEN "source_recovery_pending"
    ELSE IF ~AdmitsInstallation(a.report) THEN "prerequisites"
    ELSE IF DeviceVerdict(a) = "Refused" THEN "source_refused_here"
    ELSE "source_ready"

FileSourceStatus(a) ==
    IF a.file # "admitted" THEN a.file
    ELSE IF a.handoff # "none" \/ a.running THEN BusyStatus(a)
    ELSE IF ~a.recovers THEN "file_recovery_pending"
    ELSE IF ~AdmitsHandoff(a.report) THEN "file_store_not_confirmed"
    ELSE IF ~a.region THEN "file_choose_region"
    ELSE "file_ready"

SourceStatus(a) == IF a.selected = "link" THEN StoreTextStatus(a) ELSE FileSourceStatus(a)

ResolutionStatus(a) ==
    CASE a.resolution = "resolved" -> "card_confirmed"
      [] a.resolution = "failed" -> "card_missing"
      [] OTHER -> SourceStatus(a)

\* What is over and said nothing leaves the sentence to the draft.
OperationStatus(a) ==
    IF a.handoff = "none" /\ ~a.failure /\ ~a.running /\ a.opstate \in {"none", "unsaid"}
    THEN ResolutionStatus(a)
    ELSE BusyStatus(a)

-----------------------------------------------------------------------------
(* The draft.                                                              *)

Show(a, sentence) == app' = [a EXCEPT !.status = sentence]

ForgetsAnyHandoff(a) == [a EXCEPT !.handoff = "none"]   \* mutated

ForgetFinishedHandoff(a) ==
    IF HandoffBlocks(a) \/ HandoffOffersRestore(a) THEN a
    ELSE [a EXCEPT !.handoff = "none"]

\* The sentence is the link's, whichever source is selected.
BeginResolutionIfReady(a) ==
    LET parsed == a.text = "product"
        known == IF ~parsed THEN "idle" ELSE IF a.region THEN "resolving" ELSE "accepted"
    IN  Show([a EXCEPT !.resolution = known],
             IF ~parsed THEN StoreSourceStatus(a)
             ELSE IF a.region THEN "resolving" ELSE "region_status")

\* The delivery question goes with the draft, unless it was answered.
Ask(a) == workers' =
    [workers EXCEPT !.asking = @ \/ (a.text = "product" /\ a.region /\ a.verdict = "Unknown")]

SetStoreText ==
    \E typed \in {"empty", "junk", "product"} :
        LET a == [ForgetFinishedHandoff(app) EXCEPT !.text = typed, !.selected = "link"]
        IN  BeginResolutionIfReady(a) /\ Ask(a)

SelectTemporaryRegion ==
    \E chosen \in BOOLEAN :
        LET a == [app EXCEPT !.region = chosen]
        IN  BeginResolutionIfReady(a) /\ Ask(a)

SelectSource ==
    /\ \E source \in {"link", "file"} :
           LET a == [app EXCEPT !.selected = source] IN Show(a, SourceStatus(a))
    /\ UNCHANGED workers

SelectLanguage == Show(app, SourceStatus(app)) /\ UNCHANGED workers

ProductResolved ==
    /\ app.resolution = "resolving"
    /\ \E answer \in {"resolved", "failed"} :
           LET a == [app EXCEPT !.resolution = answer] IN Show(a, ResolutionStatus(a))
    /\ UNCHANGED workers

\* Kept only if the question is still asked.
DeviceAnswered ==
    /\ workers.asking
    /\ workers' = [workers EXCEPT !.asking = FALSE]
    /\ IF HasProduct(app) /\ app.region
       THEN \E answer \in {"Unknown", "Deliverable", "Refused"} :
                LET a == [app EXCEPT !.verdict = answer] IN Show(a, SourceStatus(a))
       ELSE UNCHANGED app

\* A file that is none is only said to be so.
TakeFile(a, sentence) ==
    /\ Show([ForgetFinishedHandoff(a) EXCEPT !.selected = "file", !.resolution = "idle",
                                             !.file = "inspecting"], sentence)
    /\ workers.chosen < MaxChosen
    /\ workers' = [workers EXCEPT !.inspections = @ + 1, !.chosen = @ + 1]

DispatchFileCandidate ==
    \/ TakeFile(app, "inspecting")
    \/ Show(app, "other") /\ UNCHANGED workers

ClearFile ==
    /\ app.selected = "file"
    /\ LET a == [app EXCEPT !.file = "none", !.resolution = "idle"] IN Show(a, SourceStatus(a))
    /\ UNCHANGED workers

\* Every answer about the path shown is taken, that of an earlier choice too.
StubInspected ==
    /\ workers.inspections > 0
    /\ workers' = [workers EXCEPT !.inspections = @ - 1]
    /\ IF app.file = "none" THEN UNCHANGED app
       ELSE \E answer \in {"failed", "refused", "admitted"} :
                LET a == [app EXCEPT !.file = answer, !.resolution = "idle"]
                IN  Show(a, SourceStatus(a))

\* The commands of the page and the history that only say something.
SaySomething == Show(app, "other") /\ UNCHANGED workers

-----------------------------------------------------------------------------
(* The machine: what the start finds and what is asked again.              *)

\* A missing prerequisite is said unless a record is the more urgent thing.
StartupChecked ==
    /\ workers.checking
    /\ workers' = [workers EXCEPT !.checking = FALSE]
    /\ \E report \in {"none", "store", "all"} :
           LET a == [app EXCEPT !.report = report]
           IN  IF a.recovers /\ report # "all" THEN Show(a, "prerequisites")
               ELSE IF InstallIsAvailable(a) THEN Show(a, SourceStatus(a))
               ELSE app' = a

RecheckPrerequisites ==
    /\ \E report \in {"none", "store", "all"} :
           Show([app EXCEPT !.report = report],
                IF report = "all" THEN "prerequisites_met" ELSE "prerequisites")
    /\ UNCHANGED workers

\* The record of the last run is taken over, settled, or left as it is.
SettlePendingRecovery ==
    /\ workers.owed
    /\ \/ /\ Show([app EXCEPT !.running = TRUE], "resumed")
          /\ workers' = [workers EXCEPT !.owed = FALSE, !.installing = TRUE]
       \/ /\ \E admits \in BOOLEAN, silent \in BOOLEAN :
                 LET a == [app EXCEPT !.recovers = admits,
                                      !.status = IF silent THEN @ ELSE "recovery_outcome"]
                 IN  IF InstallIsAvailable(a) THEN Show(a, SourceStatus(a)) ELSE app' = a
          /\ workers' = [workers EXCEPT !.owed = FALSE]

-----------------------------------------------------------------------------
(* The installation.                                                       *)

\* The failure of the operation before is left where it is.
BeginInstallation ==
    /\ app.selected = "link" /\ InstallIsAvailable(app)
    /\ LET a == [app EXCEPT !.handoff = "none", !.resolution = "resolving",
                            !.running = TRUE, !.opstate = "none"]
       IN  Show(a, OperationStatus(a))
    /\ workers' = [workers EXCEPT !.installing = TRUE]

ApplyInstallationUpdate(said, failed, over) ==
    [app EXCEPT !.opstate = said, !.failure = failed, !.running = ~over]

StillThere == workers.installing /\ UNCHANGED workers
LastReport == workers.installing /\ workers' = [workers EXCEPT !.installing = FALSE]

\* The product the operation found is the answer to its own question.
InstallProgress ==
    \/ /\ StillThere
       /\ \E said \in Working :
              LET a == ApplyInstallationUpdate(said, FALSE, FALSE) IN Show(a, OperationStatus(a))
    \/ /\ StillThere
       /\ LET a == ApplyInstallationUpdate("looking", FALSE, FALSE)
              found == IF a.resolution = "resolving" THEN "resolved" ELSE a.resolution
          IN  Show([a EXCEPT !.resolution = found], OperationStatus(a))
    \/ /\ LastReport
       /\ \E said \in Working \cup {"uncertain"}, failed \in BOOLEAN :
              LET a == ApplyInstallationUpdate(said, failed, TRUE)
              IN  /\ failed \/ said \in {"done", "unsaid"}
                  /\ Show(a, OperationStatus(a))

\* A deadline with the temporary region in force is answered in a dialogue:
\* the thread that asked is gone, and waiting starts another.
ResolveUncertainOperation ==
    /\ workers.installing
    /\ \E failed \in BOOLEAN :
           LET a == ApplyInstallationUpdate("uncertain", failed, failed)
           IN  \/ /\ Show([a EXCEPT !.running = TRUE], "resumed")
                  /\ UNCHANGED workers
               \/ /\ Show([a EXCEPT !.running = FALSE], "uncertain")
                  /\ workers' = [workers EXCEPT !.installing = FALSE]
               \/ /\ \E admits \in BOOLEAN :
                         Show([a EXCEPT !.running = FALSE, !.recovers = admits], "recovery_outcome")
                  /\ workers' = [workers EXCEPT !.installing = FALSE]

-----------------------------------------------------------------------------
(* The handoff, and the installer asked for.                               *)

BeginHandoff ==
    /\ HandoffIsAvailable(app)
    /\ \/ Show(app, "declined") /\ UNCHANGED workers
       \/ /\ LET a == [app EXCEPT !.failure = FALSE, !.handoff = "SwitchingRegion"]
             IN  Show(a, OperationStatus(a))
          /\ workers' = [workers EXCEPT !.handing = "forth"]

BeginRegionRestore ==
    /\ HandoffOffersRestore(app)
    /\ LET a == [app EXCEPT !.failure = FALSE, !.handoff = "RestoringRegion"]
       IN  Show(a, OperationStatus(a))
    /\ workers' = [workers EXCEPT !.handing = "back"]

BeginInstallerDownload ==
    /\ ~HandoffOffersRestore(app) /\ DownloadIsAvailable(app)
    /\ Show([app EXCEPT !.download = TRUE, !.failure = FALSE], "download_asked")
    /\ UNCHANGED workers

ApplyHandoffUpdate(stage, failed) ==
    IF app.handoff = "none" THEN [app EXCEPT !.failure = failed]
    ELSE [app EXCEPT !.failure = failed, !.handoff = stage]

\* The stages each thread ends with, and what each leaves in force.
HandoffProgress ==
    /\ workers.handing # "none"
    /\ \/ /\ LET a == ApplyHandoffUpdate(
                     IF workers.handing = "forth" THEN "SwitchingRegion" ELSE "RestoringRegion", FALSE)
             IN  Show(a, OperationStatus(a))
          /\ UNCHANGED workers
       \/ \E ended \in {"FailedRegionSafe", "FailedWithTemporaryRegion"}
                       \cup (IF workers.handing = "forth" THEN {"HandedOff"} ELSE {"Restored"}) :
              /\ LET a == ApplyHandoffUpdate(
                         ended, ended \in {"FailedRegionSafe", "FailedWithTemporaryRegion"})
                 IN  Show(a, OperationStatus(a))
              /\ workers' = [workers EXCEPT !.handing = "none",
                     !.held = ended \in {"HandedOff", "FailedWithTemporaryRegion"}]

InstallerDownloaded ==
    /\ app.download
    /\ LET a == [app EXCEPT !.download = FALSE]
       IN  \/ TakeFile(a, "download_ready")
           \/ Show(a, "download_failed") /\ UNCHANGED workers

-----------------------------------------------------------------------------
\* WM_CREATE: the record is inspected and its notice written over the sentence
\* of the draft; the delivery question of a launch with a product is asked.
Init ==
    \E typed \in {"empty", "product"}, places \in BOOLEAN, admits \in BOOLEAN :
        /\ app = [selected |-> "link", text |-> typed,
                  resolution |-> IF typed = "product" THEN "accepted" ELSE "idle",
                  file |-> "none", region |-> places, recovers |-> admits,
                  report |-> "unchecked", verdict |-> "Unknown", running |-> FALSE,
                  opstate |-> "none", failure |-> FALSE, handoff |-> "none",
                  download |-> FALSE,
                  status |-> IF ~admits THEN "notice"
                             ELSE IF typed = "empty" THEN "initial"
                             ELSE IF places THEN "source_recovery_pending"
                             ELSE "source_choose_region"]
        /\ workers = [inspections |-> 0, chosen |-> 0, asking |-> typed = "product" /\ places,
                      checking |-> TRUE, owed |-> ~admits, installing |-> FALSE,
                      handing |-> "none", held |-> FALSE]

Draft == SetStoreText \/ SelectTemporaryRegion \/ SelectSource \/ SelectLanguage
         \/ DispatchFileCandidate \/ ClearFile \/ SaySomething
Commands == BeginInstallation \/ BeginHandoff \/ BeginRegionRestore
            \/ BeginInstallerDownload \/ RecheckPrerequisites
Answers == ProductResolved \/ DeviceAnswered \/ StubInspected \/ StartupChecked
           \/ SettlePendingRecovery \/ InstallProgress \/ ResolveUncertainOperation
           \/ HandoffProgress \/ InstallerDownloaded

Next == Draft \/ Commands \/ Answers

Spec == Init /\ [][Next]_vars

-----------------------------------------------------------------------------
\* One sentence, of those the window has; one thread of each kind.
TypeOK == app \in AppStates /\ workers \in WorkerStates

\* The sentence of a link or a file says that its command is ready whenever the
\* gate of that command is open: "The order matches the gate". A condition the
\* gate does not have, tested too early or too strictly, would name a reason
\* that is none. (render.rs store_text_status, file_source_status; state.rs
\* install_is_available, handoff_is_available)
SentenceFollowsGate ==
    /\ app.selected = "link" /\ InstallIsAvailable(app) => SourceStatus(app) = "source_ready"
    /\ HandoffIsAvailable(app) /\ app.handoff = "none" => SourceStatus(app) = "file_ready"

\* The sentence on the screen never offers a command while an operation runs,
\* nor the file's while a handoff is on show, whoever wrote it last.
\* (render.rs operation_status, window.rs, command.rs)
NeverReadyWhileBusy ==
    /\ app.status = "source_ready" => ~app.running
    /\ app.status = "file_ready" => ~app.running /\ app.handoff = "none"

\* While a handoff has left the temporary region in force and nobody works on
\* it, the window keeps the button that gives the region back, whatever is
\* drafted or begun meanwhile. (state.rs region_restore_is_available,
\* command.rs forget_finished_handoff, begin_installation)
HeldRegionHasItsButton ==
    workers.held /\ workers.handing = "none" => HandoffOffersRestore(app)

\* A handoff that failed says so, with what failed, and one that goes on does
\* not show the failure of another. (window.rs apply_handoff_update,
\* command.rs begin_handoff, begin_region_restore)
FailureIsOfTheHandoff ==
    /\ app.handoff \in {"SwitchingRegion", "HandedOff", "RestoringRegion", "Restored"}
       => ~app.failure
    /\ workers.handing # "none" => HandoffBlocks(app)

-----------------------------------------------------------------------------
(* What the comments say of the sentence.                                  *)

\* "A status that says 'unavailable' while the button is enabled is worse than
\* no status at all" (render.rs store_text_status).
UnavailableWhileEnabled ==
    app.status \in {"source_choose_region", "source_recovery_pending", "source_refused_here",
                    "file_choose_region", "file_recovery_pending", "file_store_not_confirmed"}
    => ~PrimaryCommandIsAvailable(app)

\* "The order matches the gate: a machine that cannot start an operation is
\* reported before anything about the draft" (render.rs store_text_status).
ReadyIsNotHeld == app.status = "source_ready" => ~HandoffBlocks(app)

\* "a handoff that still holds the region has to give it back before anything
\* else, so the second meaning only appears when it does not" (render.rs
\* render).
RestoreIsNamed == HandoffOffersRestore(app) => RestoreCaption(app) = "restore"

\* "A started operation says so." (render.rs started_or_draft_status)
StartedSaysSo ==
    [][~app.running /\ app'.running /\ app'.opstate = "none" => app'.status # "failure"]_vars

\* "a real blocking notice keeps the gate closed and must survive" (window.rs
\* WM_CREATE): an answer nobody asked the user for does not take its place.
NoticeSurvives ==
    [][app.status = "notice" /\ workers.owed /\ workers.asking /\ ~workers'.asking
       => app'.status = "notice"]_vars
=============================================================================
