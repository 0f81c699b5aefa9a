---------------------------- MODULE OperationParts ----------------------------
(***************************************************************************)
(* What a handoff and an installation do, side by side: the handoff of a   *)
(* file to an installer, the window beside its operations, the evidence    *)
(* that an installation was completed, and the uninstall records it        *)
(* leaves.                                                                 *)
(*                                                                         *)
(* One handoff is of a file that is admissible or another; two of them no  *)
(* third region disturbs.                                                  *)
(*                                                                         *)
(* Each of these modules is a view of the program of its own, with its own *)
(* bounds; GuardedInstall, which has one operation in full, is a run by    *)
(* itself. A behaviour here moves one view, chosen at the start, while the *)
(* others rest.                                                            *)
(***************************************************************************)
EXTENDS Handoff

CONSTANTS
    home, abroad, elsewhere, \* regions: the user's own, a market, another
    Nothing, installer,
    SessionRegions, MaxOperations, MaxPosted,   \* of the session
    Ours, Foreign, NoSnapshot, Legible, Fractions, MaxJobs, MaxElsewhere,
    MaxRuns,                 \* of the evidence
    KeysOf, MaxChanges       \* of the uninstall records

VARIABLES
    part,   \* the one part that moves in a behaviour
    sessionRegion, sessionRecord, threads, ops, posted, setAside, ui,
    recovering, sessionShown, running, sessionAdmits, sessionOwed, overtaken,
    listed, jobs, pc, taken, expected, baseline, handle, sink, percent,
    detail, evidenceRecord, result, cause, found, before, claimed,
    evidenceElsewhere, runs,
    path, uninstallRecord, changes, uninstallExpected, backend, phase, walk,
    uninstallBaseline, followUp, outcome, uninstallBefore, matched, standing,
    disturbed

handoffVars == <<region, owed, record, file, thread, posts, window, admits,
    undecided, begun, started, entries, kept>>
sessionVars == <<sessionRegion, sessionRecord, threads, ops, posted,
    setAside, ui, recovering, sessionShown, running, sessionAdmits,
    sessionOwed, overtaken>>
evidenceVars == <<listed, jobs, pc, taken, expected, baseline, handle, sink,
    percent, detail, evidenceRecord, result, cause, found, before, claimed,
    evidenceElsewhere, runs>>
uninstallVars == <<path, uninstallRecord, changes, uninstallExpected,
    backend, phase, walk, uninstallBaseline, followUp, outcome,
    uninstallBefore, matched, standing, disturbed>>

Parts == {"handoff", "two handoffs", "session", "evidence", "two runs",
          "uninstall"}
Still == "still"   \* any value: the variables of a part that rests

\* The window beside the threads of its operations.
Session == INSTANCE WindowSession WITH
    Regions <- SessionRegions, region <- sessionRegion,
    record <- sessionRecord, shown <- sessionShown, admits <- sessionAdmits,
    owed <- sessionOwed

\* Packages, the package manager's installations and a run that asks for one; or two
\* runs, without a package that names another product.
Evidence == INSTANCE CompletionEvidence WITH
    elsewhere <- evidenceElsewhere, record <- evidenceRecord

\* The uninstall records before and after an installation.
Uninstall == INSTANCE UninstallEvidence WITH
    record <- uninstallRecord, expected <- uninstallExpected, baseline <- uninstallBaseline,
    before <- uninstallBefore

------------------------------------------------------------------------------
SessionBegins == Session!Init /\ sessionRegion = home

\* Every entry there is at the start is complete.
UninstallBegins ==
    /\ Uninstall!Init
    /\ \A s \in Uninstall!Scopes : \A k \in DOMAIN uninstallRecord[s] :
           uninstallRecord[s][k] # {"key"}

sessionStill ==
    /\ sessionRegion = Still /\ sessionRecord = Still /\ threads = Still
    /\ ops = Still /\ posted = Still /\ setAside = Still /\ ui = Still
    /\ recovering = Still /\ sessionShown = Still /\ running = Still
    /\ sessionAdmits = Still /\ sessionOwed = Still /\ overtaken = Still

evidenceStill ==
    /\ listed = Still /\ jobs = Still /\ pc = Still /\ taken = Still
    /\ expected = Still /\ baseline = Still /\ handle = Still /\ sink = Still
    /\ percent = Still /\ detail = Still /\ evidenceRecord = Still
    /\ result = Still /\ cause = Still /\ found = Still /\ before = Still
    /\ claimed = Still /\ evidenceElsewhere = Still /\ runs = Still

uninstallStill ==
    /\ path = Still /\ uninstallRecord = Still /\ changes = Still
    /\ uninstallExpected = Still /\ backend = Still /\ phase = Still
    /\ walk = Still /\ uninstallBaseline = Still /\ followUp = Still
    /\ outcome = Still /\ uninstallBefore = Still /\ matched = Still
    /\ standing = Still /\ disturbed = Still

Turn(p) == part = p /\ UNCHANGED part

PartsInit ==
    /\ part \in Parts
    /\ IF part = "session" THEN SessionBegins ELSE sessionStill
    /\ CASE part = "evidence" -> Evidence!Init
         [] part = "two runs" -> Evidence!Init /\ \A p \in Foreign : listed[p] = "absent"
         [] OTHER -> evidenceStill
    /\ IF part = "uninstall" THEN UninstallBegins ELSE uninstallStill
    /\ Init /\ region = home /\ file = installer

HandingStep ==
    /\ Turn("handoff") /\ Next
    /\ begun' \in {0, 1}
    /\ UNCHANGED <<sessionVars, evidenceVars, uninstallVars>>

HandingTwiceStep ==
    /\ Turn("two handoffs") /\ Next
    /\ elsewhere \notin {region', thread'.temporary}
    /\ UNCHANGED <<sessionVars, evidenceVars, uninstallVars>>

SessionStep ==
    /\ Turn("session") /\ Session!Next
    /\ \A t \in Session!Ops :
           threads'[t].mine # NoRecord => threads'[t].mine.temporary = abroad
    /\ UNCHANGED <<evidenceVars, uninstallVars, handoffVars>>

EvidenceStep ==
    /\ Turn("evidence") /\ Evidence!Next
    /\ runs' = 1
    /\ UNCHANGED <<sessionVars, uninstallVars, handoffVars>>

EvidenceTwiceStep ==
    /\ Turn("two runs") /\ Evidence!Next
    /\ \A p \in Foreign : listed'[p] = "absent"
    /\ UNCHANGED <<sessionVars, uninstallVars, handoffVars>>

UninstallStep ==
    /\ Turn("uninstall") /\ Uninstall!Next
    /\ UNCHANGED <<sessionVars, evidenceVars, handoffVars>>

partsVars == <<part, sessionVars, evidenceVars, uninstallVars, handoffVars>>

\* These may come to rest for good; the others always have a step to take.
Rest ==
    part \in {"handoff", "two handoffs", "session", "evidence",
             "two runs"} /\ UNCHANGED partsVars

PartsNext ==
    \/ HandingStep
    \/ HandingTwiceStep
    \/ SessionStep
    \/ EvidenceStep
    \/ EvidenceTwiceStep
    \/ UninstallStep
    \/ Rest

PartsSpec == PartsInit /\ [][PartsNext]_partsVars

------------------------------------------------------------------------------
(* The window beside the threads of its operations.  One operation holds   *)
(* the region at a time, the recovery a deadline's answer sets off has it  *)
(* to itself, a region taken away is named by the published record while   *)
(* the window is open, and an operation shown as running has a thread or a *)
(* message on its way, unless a message posted again came after its end    *)
(* (install.rs:734, store.rs:83, window.rs:468, :616, :1457, state.rs:94). *)
SessionIsCovered ==
    part = "session" =>
        /\ Session!TypeOK
        /\ Session!OneHolder /\ Session!DecisionIsAlone
        /\ Session!OneOperationIsCovered /\ Session!RunningIsReal

Evidencing == part \in {"evidence", "two runs"}

(* What an installation is believed on.  Installed is written on the       *)
(* package manager's success and a healthy package, a stated failure is    *)
(* written as one, and a record goes only with an outcome (gui/install.rs  *)
(* confirmed_completion, observe; backend.rs stated_failure).  A record    *)
(* that was there before is no evidence, and one that is there is not      *)
(* passed over, unless a view was disturbed in between (win32.rs:38,       *)
(* uninstall.rs:37).                                                       *)
EvidenceIsSound ==
    /\ [](Evidencing =>
            /\ Evidence!TypeOK
            /\ Evidence!InstalledIsProven /\ Evidence!StatedFailureIsFailed)
    /\ [][Evidencing => (Evidence!EndsWithOutcome)]_evidenceVars
    /\ [](part = "uninstall" =>
            /\ Uninstall!TypeOK
            /\ Uninstall!FreshUnlessDisturbed /\ Uninstall!AbsenceIsReal)

\* Two subkeys in one view of the registry, one in another, none in the third.
UninstallKeys ==
    [s \in {"CurrentUser", "LocalMachine64", "LocalMachine32"} |->
        CASE s = "CurrentUser" -> {1}
          [] s = "LocalMachine64" -> {1, 2}
          [] OTHER -> {}]

ASSUME PartsFit ==
    /\ Session!SessionAssumption
    /\ Evidence!EvidenceAssumption
    /\ Uninstall!UninstallAssumption
==============================================================================
