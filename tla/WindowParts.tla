----------------------------- MODULE WindowParts -----------------------------
(***************************************************************************)
(* The window, side by side: the draft the user makes, the sentence below  *)
(* it, the tables of updates and of the history, the layout, the           *)
(* prerequisites, and the dialogue about the record of an earlier run. Its *)
(* region box is in StoreParts, over the search it shows.                  *)
(*                                                                         *)
(* A behaviour here moves one part, chosen at the start, while the others  *)
(* rest.                                                                   *)
(***************************************************************************)
EXTENDS RecoveryDialogue, Naturals

CONSTANTS
    one, two, Junk, NoProduct,      \* what the draft may name
    here, there, NoRegion,         \* a region that is a market, one that is none
    picked, fetched, NoPath,       \* installer files
    Products, Regions, Markets, Paths, MaxRequests,
    MaxChosen,                     \* of the sentence
    TableLanguages, Found, Histories,   \* of the tables
    MaxChanges, MaxChecks, MaxRestarts   \* of the prerequisites

VARIABLES
    part,   \* the one part that moves in a behaviour
    selected, text, chosen, inspected, draftRegion, resolution, nextId,
    confirmed, device, download, operation, failed, resolvers, inspecting,
    asking,
    app, workers,
    tablesLanguage, tab, updates, update, table, journal, entry, list,
    headings, scanning, startup,
    size, dpi, menu, desktop, laid, placed, direction, ex, alignment,
    layoutLanguage, layoutTab, layoutSource, running, layoutShown, focus,
    installed, writable, file, at, answer, report, everHad, everLacked,
    together, refusedOnce, changes, checks, restarts

draftVars == <<selected, text, chosen, inspected, draftRegion, resolution,
    nextId, confirmed, device, download, operation, failed, resolvers,
    inspecting, asking>>
statusVars == <<app, workers>>
tablesVars == <<tablesLanguage, tab, updates, update, table, journal, entry,
    list, headings, scanning, startup>>
layoutVars == <<size, dpi, menu, desktop, laid, placed, direction, ex,
    alignment, layoutLanguage, layoutTab, layoutSource, running, layoutShown,
    focus>>
dialogueVars == <<pc, region, record, handoff, history, shown, status, gate,
    ready, owed, wrote>>
needsVars == <<installed, writable, file, at, answer, report, everHad,
    everLacked, together, refusedOnce, changes, checks, restarts>>

Parts == {"draft", "picked draft", "status", "file status", "tables", "layout",
           "prerequisites", "dialogue"}
WindowSizes == {<<1040, 576>>, <<1400, 900>>, <<800, 420>>, <<0, 0>>}
WorkAreas == {<<1920, 1040>>, <<1024, 560>>}
Still == "still"   \* any value: the variables of a part that rests

Draft == INSTANCE DraftSession WITH Fetched <- fetched, region <- draftRegion

\* The sentence of a window that chooses no file, and of one that chooses one and
\* keeps link and region; nothing is known there of a delivery, and no record is left.
Status == INSTANCE StatusLine

\* Rows that differ at the same length, and histories of up to three entries.
ScanLists == {<<>>, <<"a">>, <<"b">>, <<"a", "b">>}
KeptHistories == {<<>>, <<"x">>, <<"x", "y">>, <<"x", "y", "z">>}
Shown == INSTANCE ShownTables WITH
    Languages <- TableLanguages, language <- tablesLanguage

\* Three scalings, four sizes and two work areas.
Layout == INSTANCE WindowLayout WITH
    Dpis <- {96, 120, 192}, Sizes <- WindowSizes, Desktops <- WorkAreas,
    FrameWidth <- 16, FrameHeight <- 39, MenuHeight <- 20, ComboHeight <- 23,
    language <- layoutLanguage, tab <- layoutTab, source <- layoutSource,
    shown <- layoutShown

Needing == INSTANCE Prerequisites

------------------------------------------------------------------------------
draftStill ==
    /\ selected = Still /\ text = Still /\ chosen = Still /\ inspected = Still
    /\ draftRegion = Still /\ resolution = Still /\ nextId = Still
    /\ confirmed = Still /\ device = Still /\ download = Still
    /\ operation = Still /\ failed = Still /\ resolvers = Still
    /\ inspecting = Still /\ asking = Still

statusStill ==
    /\ app = Still /\ workers = Still

tablesStill ==
    /\ tablesLanguage = Still /\ tab = Still /\ updates = Still
    /\ update = Still /\ table = Still /\ journal = Still /\ entry = Still
    /\ list = Still /\ headings = Still /\ scanning = Still /\ startup = Still

layoutStill ==
    /\ size = Still /\ dpi = Still /\ menu = Still /\ desktop = Still
    /\ laid = Still /\ placed = Still /\ direction = Still /\ ex = Still
    /\ alignment = Still /\ layoutLanguage = Still /\ layoutTab = Still
    /\ layoutSource = Still /\ running = Still /\ layoutShown = Still
    /\ focus = Still

needsStill ==
    /\ installed = Still /\ writable = Still /\ file = Still /\ at = Still
    /\ answer = Still /\ report = Still /\ everHad = Still
    /\ everLacked = Still /\ together = Still /\ refusedOnce = Still
    /\ changes = Still /\ checks = Still /\ restarts = Still

Turn(p) == part = p /\ UNCHANGED part

PartsInit ==
    /\ part \in Parts
    /\ CASE part = "draft" -> Draft!Init /\ draftRegion = here
         [] part = "picked draft" -> Draft!Init
         [] OTHER -> draftStill
    /\ CASE part = "status" -> Status!Init
         [] part = "file status" -> Status!Init /\ ~workers.owed
         [] OTHER -> statusStill
    /\ IF part = "tables" THEN Shown!Init ELSE tablesStill
    /\ IF part = "layout" THEN Layout!Init ELSE layoutStill
    /\ IF part = "prerequisites" THEN Needing!Init ELSE needsStill
    /\ Init
    /\ part # "dialogue" =>
         region = "original" /\ record = "none" /\ ~handoff /\ ~history /\ ~ready

DraftStep ==
    /\ Turn("draft") /\ Draft!Next
    /\ draftRegion' # there /\ chosen' # picked
    /\ UNCHANGED <<statusVars, tablesVars, layoutVars, needsVars,
                 dialogueVars>>

PickedStep ==
    /\ Turn("picked draft") /\ Draft!Next
    /\ text' = text /\ nextId' <= 2
    /\ UNCHANGED <<statusVars, tablesVars, layoutVars, needsVars,
                 dialogueVars>>

StatusStep ==
    /\ Turn("status") /\ Status!Next
    /\ workers'.chosen = 0 /\ app'.report # "none" /\ app'.text # "junk"
    /\ UNCHANGED <<draftVars, tablesVars, layoutVars, needsVars,
                 dialogueVars>>

FileStatusStep ==
    /\ Turn("file status") /\ Status!Next
    /\ app'.report # "none" /\ app'.verdict = "Unknown"
    /\ app'.text = app.text /\ app'.region = app.region
    /\ UNCHANGED <<draftVars, tablesVars, layoutVars, needsVars,
                 dialogueVars>>

ShownStep ==
    /\ Turn("tables") /\ Shown!Next
    /\ UNCHANGED <<draftVars, statusVars, layoutVars, needsVars,
                 dialogueVars>>

LayoutStep ==
    /\ Turn("layout") /\ Layout!Next
    /\ UNCHANGED <<draftVars, statusVars, tablesVars, needsVars,
                 dialogueVars>>

DialogueStep ==
    /\ Turn("dialogue") /\ Next
    /\ UNCHANGED <<draftVars, statusVars, tablesVars, layoutVars,
                 needsVars>>

NeedingStep ==
    /\ Turn("prerequisites") /\ Needing!Next
    /\ UNCHANGED <<draftVars, statusVars, tablesVars, layoutVars,
                 dialogueVars>>

partsVars == <<part, draftVars, statusVars, tablesVars, layoutVars,
    needsVars, dialogueVars>>

\* These may come to rest for good; the others always have a step to take.
Rest ==
    part \in {"draft", "prerequisites"} /\ UNCHANGED partsVars

PartsNext ==
    \/ DraftStep
    \/ PickedStep
    \/ StatusStep
    \/ FileStatusStep
    \/ ShownStep
    \/ LayoutStep
    \/ DialogueStep
    \/ NeedingStep
    \/ Rest

PartsSpec == PartsInit /\ [][PartsNext]_partsVars

------------------------------------------------------------------------------
(* The draft.  What an operation would install is what the text says, and  *)
(* what the window waits for is on its way; a verdict is of the file now   *)
(* chosen, and a late answer never makes a known verdict unknown again     *)
(* (resolve.rs:280, command.rs:933, window.rs:1030, :1283).                *)
DraftIsTrue ==
    /\ [](part = "draft" =>
            /\ Draft!TypeOK
            /\ Draft!CardIsOfDraft /\ Draft!WaitsForSomebody)
    /\ [](part \in {"draft", "picked draft"} => Draft!VerdictIsOfChosen)
    /\ [][(part \in {"draft", "picked draft"}) => (Draft!AnswerStays)]_draftVars

(* What the window shows.  The sentence says ready when the gate is open   *)
(* and never beside work, the button that gives the region back stays, and *)
(* a failure is that of the handoff on show (render.rs store_text_status,  *)
(* operation_status).  The highlighted row is the one the button opens, an *)
(* empty journal is empty, rows and headings follow the language           *)
(* (render.rs:386, journal.rs:18, controls.rs:396).                        *)
ShownIsTrue ==
    /\ part \in {"status", "file status"} =>
         /\ Status!TypeOK
         /\ Status!SentenceFollowsGate /\ Status!NeverReadyWhileBusy
         /\ Status!HeldRegionHasItsButton /\ Status!FailureIsOfTheHandoff
    /\ part = "tables" =>
         /\ Shown!TypeOK
         /\ Shown!HighlightIsOpened /\ Shown!EmptyMeansEmpty
         /\ Shown!TablesSpeakTheLanguage

(* The layout.  Whatever was cached, every control stands where the        *)
(* present client area, scaling and direction put it; every window carries *)
(* the styles of the language in force; no visible control covers another, *)
(* leaves the window or crosses the outline of a panel (layout.rs:117-184, *)
(* direction.rs:228).                                                      *)
LayoutHolds ==
    part = "layout" =>
        /\ Layout!TypeOK
        /\ Layout!LayoutIsCurrent /\ Layout!ReadsAsItsLanguage
        /\ Layout!Apart /\ Layout!PanelsHold

(* The prerequisites.  A machine is admitted only on packages found there, *)
(* and "an unanswered question is not a negative answer": a package is     *)
(* listed as missing only if it was (prerequisite.rs admits_installation,  *)
(* prerequisites.rs family_state, metadata.rs prerequisite_state).         *)
PrerequisitesAreTrue ==
    part = "prerequisites" =>
        /\ Needing!TypeOK
        /\ Needing!AdmittedWasThere /\ Needing!MissingWasMissing

ASSUME PartsFit ==
    /\ Draft!DraftAssumption /\ Status!StatusAssumption /\ Shown!TablesAssumption
    /\ Layout!LayoutAssumption /\ Needing!BoundAssumption
==============================================================================
