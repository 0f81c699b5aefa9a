---------------------------- MODULE ProgressParts ----------------------------
(***************************************************************************)
(* What must come to an end, side by side: the machine of the core crate,  *)
(* the starts of the program, the search for a region, the scan for        *)
(* updates, the handoff, the operation beside its window, the sweep of old *)
(* installers, and the dialogue about the record of an earlier run.        *)
(*                                                                         *)
(* A behaviour here moves one part, chosen at the start. Threads that were *)
(* started run, the window takes the messages that reach it, and nothing   *)
(* is owed by the user, by Windows or by the Store.                        *)
(***************************************************************************)
EXTENDS MachineContract, TLC

CONSTANTS
    s1, s2, here,                                      \* of the starts
    p1, p2, r1, r2, r3, NoProduct, NoSurvey,             \* of the search
    a1, a2, m1, m2, Nothing,                             \* of the scan
    home, abroad, NoRegion, installer, other, Unrecorded, \* of handoff and session
    name, stub, Truncated, NoFile, NoPath                \* of the installers

VARIABLES
    part,   \* the one part that moves in a behaviour
    at, argument, code, handles, windows, shown, raised,
    serves, text, selected, showAll, survey, pass, inbox,
    catalogue, scanRegion, current, view, taken, scan, saved, startup,
    scanInbox, from, moves,
    handoffRegion, owed, record, handoffFile, handoffThread, posts, window,
    admits, undecided, begun, started, entries, kept,
    sessionRegion, sessionRecord, threads, ops, posted, setAside, ui,
    recovering, sessionShown, running, sessionAdmits, sessionOwed,
    overtaken,
    installersRunning, files, staging, writes, download, unvisited,
    executing, leftover, refused, chosen, selections, inspectors, inspected,
    held, said,
    pc, dialogueRegion, dialogueRecord, handoff, history, dialogueShown,
    status, gate, ready, dialogueOwed, wrote

machineVars == <<state, durable, facts, region>>
launchesVars == <<at, argument, code, handles, windows, shown, raised>>
searchVars == <<serves, text, selected, showAll, survey, pass, inbox>>
scanVars == <<catalogue, scanRegion, current, view, taken, scan, saved,
    startup, scanInbox, from, moves>>
handoffVars == <<handoffRegion, owed, record, handoffFile, handoffThread,
    posts, window, admits, undecided, begun, started, entries, kept>>
sessionVars == <<sessionRegion, sessionRecord, threads, ops, posted,
    setAside, ui, recovering, sessionShown, running, sessionAdmits,
    sessionOwed, overtaken>>
installersVars == <<installersRunning, files, staging, writes, download,
    unvisited, executing, leftover, refused, chosen, selections, inspectors,
    inspected, held, said>>
dialogueVars == <<pc, dialogueRegion, dialogueRecord, handoff, history,
    dialogueShown, status, gate, ready, dialogueOwed, wrote>>

Parts == {"machine", "launches", "search", "scan", "handoff", "session",
          "installers", "dialogue"}
Still == "still"   \* any value: the variables of a part that rests

\* Two starts of the program in one session.
Launching == INSTANCE Launches WITH
    Starts <- {s1, s2}, Sessions <- {here},
    SessionOf <- [s \in {s1, s2} |-> here]

\* Two passes of one worker.
Survey == INSTANCE MarketSurvey WITH
    Products <- {p1, p2}, Regions <- {r1, r2, r3}, Markets <- {r1, r2, r3},
    Curated <- {r1, r2}, Concurrency <- 1, MaxPasses <- 2

\* Two scans of one worker each.
Scan == INSTANCE UpdatesScan WITH
    Applications <- {a1, a2}, Markets <- {m1, m2}, Reference <- {m1, m2},
    Concurrency <- 1, MaxScans <- 2, MaxMoves <- 0, region <- scanRegion,
    inbox <- scanInbox

\* One handoff of a file that is admissible or another.
Handing == INSTANCE Handoff WITH
    Regions <- {home, abroad}, Files <- {installer, other},
    Admissible <- {installer}, NoRecord <- Unrecorded, MaxHandoffs <- 1,
    file <- handoffFile, thread <- handoffThread, region <- handoffRegion

\* The window beside the thread of one operation.
Session == INSTANCE WindowSession WITH
    Regions <- {home, abroad}, MaxOperations <- 1, MaxPosted <- 2,
    NoRecord <- Unrecorded, region <- sessionRegion,
    record <- sessionRecord, shown <- sessionShown, admits <- sessionAdmits,
    owed <- sessionOwed

\* One download name and one installer.
Installers == INSTANCE InstallerFile WITH
    Names <- {name}, Elsewhere <- {}, StoreSigned <- {stub},
    OtherSigned <- {}, Unsigned <- {}, Inspectors <- {1}, MaxWrites <- 1,
    MaxSelections <- 1, running <- installersRunning

\* The recovery a start offers.
Dialogue == INSTANCE RecoveryDialogue WITH
    region <- dialogueRegion, record <- dialogueRecord,
    shown <- dialogueShown, owed <- dialogueOwed

------------------------------------------------------------------------------
SearchBegins ==
    /\ serves = p1 :> {r2, r3} @@ p2 :> {r1}
    /\ text = p1 /\ selected = r1
    /\ Survey!Init

ScanBegins ==
    /\ scanRegion = m1 /\ saved \in {Nothing, [market |-> m2, listed |-> {a2}]}
    /\ catalogue = a1 :> [known |-> TRUE, serves |-> {m2}, same |-> FALSE]
                @@ a2 :> [known |-> TRUE, serves |-> {m1, m2}, same |-> FALSE]
    /\ Scan!Init

launchesStill ==
    /\ at = Still /\ argument = Still /\ code = Still /\ handles = Still
    /\ windows = Still /\ shown = Still /\ raised = Still

searchStill ==
    /\ serves = Still /\ text = Still /\ selected = Still /\ showAll = Still
    /\ survey = Still /\ pass = Still /\ inbox = Still

scanStill ==
    /\ catalogue = Still /\ scanRegion = Still /\ current = Still
    /\ view = Still /\ taken = Still /\ scan = Still /\ saved = Still
    /\ startup = Still /\ scanInbox = Still /\ from = Still /\ moves = Still

handoffStill ==
    /\ handoffRegion = Still /\ owed = Still /\ record = Still
    /\ handoffFile = Still /\ handoffThread = Still /\ posts = Still
    /\ window = Still /\ admits = Still /\ undecided = Still /\ begun = Still
    /\ started = Still /\ entries = Still /\ kept = Still

sessionStill ==
    /\ sessionRegion = Still /\ sessionRecord = Still /\ threads = Still
    /\ ops = Still /\ posted = Still /\ setAside = Still /\ ui = Still
    /\ recovering = Still /\ sessionShown = Still /\ running = Still
    /\ sessionAdmits = Still /\ sessionOwed = Still /\ overtaken = Still

installersStill ==
    /\ installersRunning = Still /\ files = Still /\ staging = Still
    /\ writes = Still /\ download = Still /\ unvisited = Still
    /\ executing = Still /\ leftover = Still /\ refused = Still /\ chosen = Still
    /\ selections = Still /\ inspectors = Still /\ inspected = Still
    /\ held = Still /\ said = Still

dialogueStill ==
    /\ pc = Still /\ dialogueRegion = Still /\ dialogueRecord = Still
    /\ handoff = Still /\ history = Still /\ dialogueShown = Still
    /\ status = Still /\ gate = Still /\ ready = Still /\ dialogueOwed = Still
    /\ wrote = Still

Turn(p) == part = p /\ UNCHANGED part

PartsInit ==
    /\ part \in Parts
    /\ IF part = "launches" THEN Launching!Init ELSE launchesStill
    /\ IF part = "search" THEN SearchBegins ELSE searchStill
    /\ IF part = "scan" THEN ScanBegins ELSE scanStill
    /\ IF part = "handoff" THEN Handing!Init /\ handoffRegion = home /\ handoffFile = installer ELSE handoffStill
    /\ IF part = "session" THEN Session!Init /\ sessionRegion = home ELSE sessionStill
    /\ IF part = "installers" THEN Installers!Init ELSE installersStill
    /\ IF part = "dialogue" THEN Dialogue!Init ELSE dialogueStill
    /\ Init

MachineStep ==
    /\ Turn("machine") /\ Next
    /\ UNCHANGED <<launchesVars, searchVars, scanVars, handoffVars,
                 sessionVars, installersVars, dialogueVars>>

LaunchingStep ==
    /\ Turn("launches") /\ Launching!Next
    /\ UNCHANGED <<searchVars, scanVars, handoffVars, sessionVars,
                 installersVars, dialogueVars, machineVars>>

SurveyStep ==
    /\ Turn("search") /\ Survey!Next
    /\ UNCHANGED <<launchesVars, scanVars, handoffVars, sessionVars,
                 installersVars, dialogueVars, machineVars>>

ScanStep ==
    /\ Turn("scan") /\ Scan!Next
    /\ UNCHANGED <<launchesVars, searchVars, handoffVars, sessionVars,
                 installersVars, dialogueVars, machineVars>>

HandingStep ==
    /\ Turn("handoff") /\ Handing!Next
    /\ UNCHANGED <<launchesVars, searchVars, scanVars, sessionVars,
                 installersVars, dialogueVars, machineVars>>

SessionStep ==
    /\ Turn("session") /\ Session!Next
    /\ UNCHANGED <<launchesVars, searchVars, scanVars, handoffVars,
                 installersVars, dialogueVars, machineVars>>

InstallersStep ==
    /\ Turn("installers") /\ Installers!Next
    /\ UNCHANGED <<launchesVars, searchVars, scanVars, handoffVars,
                 sessionVars, dialogueVars, machineVars>>

DialogueStep ==
    /\ Turn("dialogue") /\ Dialogue!Next
    /\ UNCHANGED <<launchesVars, searchVars, scanVars, handoffVars,
                 sessionVars, installersVars, machineVars>>

partsVars == <<part, launchesVars, searchVars, scanVars, handoffVars,
    sessionVars, installersVars, dialogueVars, machineVars>>

\* These may come to rest for good; the others always have a step to take.
Rest ==
    part \in {"machine", "launches", "search", "scan", "handoff",
             "session"} /\ UNCHANGED partsVars

PartsNext ==
    \/ MachineStep
    \/ LaunchingStep
    \/ SurveyStep
    \/ ScanStep
    \/ HandingStep
    \/ SessionStep
    \/ InstallersStep
    \/ DialogueStep
    \/ Rest

\* The fairness each module states for itself.
PartsFairness ==
    /\ \A s \in {s1, s2} : WF_launchesVars(part = "launches" /\ Launching!Step(s))
    /\ WF_searchVars(part = "search" /\ Survey!TakeReport)
    /\ WF_searchVars(part = "search" /\ \E g \in DOMAIN pass :
          Survey!ClosePass(g) \/ \E w \in Survey!Workers : Survey!WorkerStep(g, w))
    /\ WF_scanVars(part = "scan" /\ Scan!TakeMessage)
    /\ WF_scanVars(part = "scan" /\ \E g \in DOMAIN scan : Scan!ScanStep(g))
    /\ WF_handoffVars(part = "handoff" /\ (Handing!RunStep \/ Handing!RestoreStep))
    /\ WF_handoffVars(part = "handoff" /\ Handing!ApplyHandoffUpdate)
    /\ \A t \in Session!Ops : WF_sessionVars(part = "session" /\ Session!ThreadStep(t))
    /\ SF_sessionVars(part = "session" /\ Session!ApplyInstallationUpdate)
    /\ WF_sessionVars(part = "session" /\ Session!HoldUntilModalEnds)
    /\ WF_sessionVars(part = "session" /\ Session!Returns)
    /\ WF_sessionVars(part = "session" /\ Session!ProcessEnds)
    /\ WF_installersVars(part = "installers" /\ Installers!SweepEntry)
    /\ WF_dialogueVars(part = "dialogue" /\ Dialogue!Program)

PartsSpec == PartsInit /\ [][PartsNext]_partsVars /\ PartsFairness

------------------------------------------------------------------------------
(* Every start ends, or shows a window and waits for the user, whatever    *)
(* the processes beside it do (window.rs run).                             *)
Starting(s) == part = "launches" /\ at[s] = "acquiring"
Settled(s) == part = "launches" /\ at[s] \in {"running", "exited"}
StartsSettle == \A s \in {s1, s2} : Starting(s) ~> Settled(s)

PassIsShown == part = "search" /\ Survey!Searching
ScanIsShown == part = "scan" /\ view.kind = "Scanning"
HandoffIsUnderWay ==
    part = "handoff" /\ window \in {"SwitchingRegion", "RestoringRegion"}
OperationHolds ==
    part = "session" /\ running /\ ui # "closed" /\ ~overtaken
RecoveryIsDecided == part = "dialogue" /\ pc \in {"over", "followed"}

(* What the window shows as under way gives way: a search ends or its      *)
(* question is dropped, also when markets are silent (work.rs:403), a scan *)
(* ends in an answer (work.rs:329), both threads of a handoff end with a   *)
(* stage the user can act on (handoff.rs:155-466), an operation releases   *)
(* the window unless a message that a dialogue held back is posted again   *)
(* behind its end (state.rs:29, :94), and the recovery a start offers ends *)
(* however often the region is changed meanwhile (window.rs                *)
(* settle_pending_recovery).                                               *)
UnderWayEnds ==
    /\ PassIsShown ~> ~PassIsShown
    /\ ScanIsShown ~> ~ScanIsShown
    /\ HandoffIsUnderWay ~> ~HandoffIsUnderWay
    /\ OperationHolds ~> ~OperationHolds
    /\ (part = "dialogue") ~> RecoveryIsDecided

(* An installer an earlier process left, and that no longer runs, goes in  *)
(* this one, unless a download takes its name, the user runs it again, the *)
(* process ends, or the sweep comes to it and cannot delete it             *)
(* (work.rs:63-70, installer_download.rs:111-144).                         *)
Left(n) == part = "installers" /\ n \in leftover /\ n \notin refused
LeftoversGo == \A n \in {name} : Left(n) ~> ~Left(n)

ASSUME PartsFit ==
    /\ Survey!SurveyAssumption /\ Scan!ScanAssumption
    /\ Handing!HandoffAssumption /\ Handing!RecordAssumption
    /\ Session!SessionAssumption /\ Installers!InstallerAssumption
==============================================================================
