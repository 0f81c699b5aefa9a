------------------------------ MODULE FileParts ------------------------------
(***************************************************************************)
(* The files of the program side by side: the recovery record, the         *)
(* history, the diagnostic log, what the log and the history together tell *)
(* of the operations, and the downloaded installers.                       *)
(*                                                                         *)
(* No step of one part reads or writes what belongs to another, so a       *)
(* behaviour of the program is, for each part, a behaviour of that part    *)
(* with pauses, and a property of one part holds of all of them together   *)
(* if it holds when the others rest. A behaviour here moves one part;      *)
(* which one, is chosen at the start.                                      *)
(***************************************************************************)
EXTENDS RecoveryFile, TLC

CONSTANTS
    HistoryEntries, Jobs, HistoryCrashes,   \* of the history
    LogWriters, LoneWriter, MaxFile, KeptRotations, MaxRecords,  \* of the log
    MaxOps, MaxPolls, TraceCrashes,         \* of the lines of an operation
    Names, Elsewhere, StoreSigned, OtherSigned, Unsigned, Truncated,
    NoInstaller, NoPath, Inspectors, MaxWrites, MaxSelections
                                            \* of the installers

VARIABLES
    part,   \* the one part that moves in a behaviour
    file, job, view, selected, inbox, crashes, ended, kept, alone,
    names, contents, created, begun, writer, removed, stopped,
    region, record, journal, log, pc, then, result, purpose, op, touched,
    told, exitTold, early, seen, running, tracePublished, ids, polls,
    traceCrashes, moved,
    installersRunning, files, staging, writes, download, unvisited,
    executing, leftover, refused, chosen, selections, inspectors, inspected,
    held, said

recoveryVars == <<published, temporary, orphans, owner, keeper, disturbed>>
historyVars == <<file, job, view, selected, inbox, crashes, ended, kept,
    alone>>
logVars == <<names, contents, created, begun, writer, removed, stopped>>
traceVars == <<region, record, journal, log, pc, then, result, purpose, op,
    touched, told, exitTold, early, seen, running, tracePublished, ids,
    polls, traceCrashes, moved>>
installersVars == <<installersRunning, files, staging, writes, download,
    unvisited, executing, leftover, refused, chosen, selections, inspectors,
    inspected, held, said>>

Parts == {"recovery", "history", "log", "log of one", "trace",
          "installers"}
Still == "still"   \* any value: the variables of a part that rests

\* The history.
History == INSTANCE JournalFile WITH
    Entries <- HistoryEntries, MaxCrashes <- HistoryCrashes

\* The log of several threads, and the log of one, which keeps more of it.
Log == INSTANCE LogFile WITH Writers <- LogWriters

\* What the log and the history tell of operations with a crash.
Trace == INSTANCE OperationTrace WITH
    MaxCrashes <- TraceCrashes, published <- tracePublished,
    crashes <- traceCrashes

\* The installers.
Installers == INSTANCE InstallerFile WITH
    NoFile <- NoInstaller, running <- installersRunning

------------------------------------------------------------------------------
logStill ==
    /\ names = Still /\ contents = Still /\ created = Still /\ begun = Still
    /\ writer = Still /\ removed = Still /\ stopped = Still

traceStill ==
    /\ region = Still /\ record = Still /\ journal = Still /\ log = Still
    /\ pc = Still /\ then = Still /\ result = Still /\ purpose = Still
    /\ op = Still /\ touched = Still /\ told = Still /\ exitTold = Still
    /\ early = Still /\ seen = Still /\ running = Still
    /\ tracePublished = Still /\ ids = Still /\ polls = Still
    /\ traceCrashes = Still /\ moved = Still

installersStill ==
    /\ installersRunning = Still /\ files = Still /\ staging = Still
    /\ writes = Still /\ download = Still /\ unvisited = Still
    /\ executing = Still /\ leftover = Still /\ refused = Still /\ chosen = Still
    /\ selections = Still /\ inspectors = Still /\ inspected = Still
    /\ held = Still /\ said = Still

Turn(p) == part = p /\ UNCHANGED part

PartsInit ==
    /\ part \in Parts
    /\ History!Init
    /\ CASE part = "log" -> Log!Init
         [] part = "log of one" -> Log!Init
         [] OTHER -> logStill
    /\ IF part = "trace" THEN Trace!Init ELSE traceStill
    /\ IF part = "installers" THEN Installers!Init ELSE installersStill
    /\ Init /\ (part # "recovery" => published = Missing /\ orphans = 0)

RecoveryStep ==
    /\ Turn("recovery") /\ Next
    /\ UNCHANGED <<historyVars, logVars, traceVars, installersVars>>

HistoryStep ==
    /\ Turn("history") /\ History!Next
    /\ UNCHANGED <<logVars, traceVars, installersVars, recoveryVars>>

LogStep ==
    /\ Turn("log") /\ Log!Next
    /\ begun' < MaxRecords
    /\ UNCHANGED <<historyVars, traceVars, installersVars, recoveryVars>>

OwnLogStep ==
    /\ Turn("log of one") /\ Log!Next
    /\ \A w \in LogWriters \ {LoneWriter} : writer'[w] = writer[w]
    /\ UNCHANGED <<historyVars, traceVars, installersVars, recoveryVars>>

TraceStep ==
    /\ Turn("trace") /\ Trace!Next
    /\ UNCHANGED <<historyVars, logVars, installersVars, recoveryVars>>

InstallersStep ==
    /\ Turn("installers") /\ Installers!Next
    /\ UNCHANGED <<historyVars, logVars, traceVars, recoveryVars>>

partsVars == <<part, historyVars, logVars, traceVars, installersVars,
    recoveryVars>>

\* These may come to rest for good; the others always have a step to take.
Rest ==
    part \in {"history", "trace"} /\ UNCHANGED partsVars

PartsNext ==
    \/ RecoveryStep
    \/ HistoryStep
    \/ LogStep
    \/ OwnLogStep
    \/ TraceStep
    \/ InstallersStep
    \/ Rest

PartsSpec == PartsInit /\ [][PartsNext]_partsVars

------------------------------------------------------------------------------
\* The threads that reach the history are alike.
JobSymmetry == Permutations(Jobs)

(* The history.  As long as no two writers met, every entry moved in and   *)
(* not removed is there, whatever was refused, died or is stale in the     *)
(* window, and no entry is there twice even if they met; what this program *)
(* cannot read is never overwritten; a deletion that succeeds read the     *)
(* file without its entry, and the entry is still away when the window is  *)
(* told, unless two writers met (storage.rs:309-347, install.rs:1008,      *)
(* work.rs:127-131).                                                       *)
HistoryIsKept ==
    /\ [](History!TypeOK /\ History!AloneNothingIsLost /\ History!NoEntryTwice)
    /\ History!EvidenceSurvives
    /\ History!DoneIsDone

Logging == part \in {"log", "log of one"}

(* The diagnostic log.  Its rotations are in the order of their age and    *)
(* within their bound, although threads rotate beside each other; a lone   *)
(* writer keeps the latest files (diagnostic_log.rs:80-130 append, rotate).*)
(* What it tells of an operation is true: regions before they are touched, *)
(* one outcome, the same as the history's, a milestone that a restart may  *)
(* believe, whichever of the steps failed (install.rs:630-760).            *)
DiagnosticsAreTrue ==
    /\ Logging => Log!TypeOK /\ Log!RotationsAreOlder /\ Log!SizeIsBounded
    /\ part = "log of one" => Log!KeepsTheLatest
    /\ part = "trace" =>
         /\ Trace!TypeOK
         /\ Trace!TouchIsTold /\ Trace!OncePerOperation /\ Trace!EndIsTold
         /\ Trace!HistoryAgrees /\ Trace!MilestoneIsTrue

(* The downloaded installers.  An inspection that admits a file speaks of  *)
(* one file, the digest and the trusted signature of the same bytes        *)
(* (stub.rs:42-46), and the name a download ends under never holds part of *)
(* a file (installer_download.rs:164-183), although the path is written,   *)
(* renamed over or swept between any two reads.                            *)
InstallersAreWhole ==
    part = "installers" =>
        /\ Installers!TypeOK
        /\ Installers!AdmittedSpeaksOfOneFile /\ Installers!NamedIsWhole

ASSUME PartsFit ==
    /\ History!JournalAssumption /\ Installers!InstallerAssumption
    /\ Log!LogAssumption /\ Trace!TraceAssumption
==============================================================================
