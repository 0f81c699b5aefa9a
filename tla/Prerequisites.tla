--------------------------- MODULE Prerequisites ---------------------------
(***************************************************************************)
(* What an installation needs on the machine (core/prerequisite.rs): the   *)
(* check a worker runs at the start and the window again from its menu     *)
(* (platform/prerequisites.rs), and the interface metadata that every      *)
(* check and every connection to the package manager puts beside the       *)
(* executable (platform/winget/metadata.rs), none of them knowing of the   *)
(* others. The user installs and removes packages meanwhile, and the       *)
(* process may end in the middle of a copy.                                *)
(***************************************************************************)
EXTENDS Naturals, FiniteSets

CONSTANTS
    MaxChanges,   \* bound on what the user installs and removes
    MaxChecks,    \* bound on the checks and connections
    MaxRestarts   \* bound on the ends of the process

BoundAssumption == MaxChanges \in Nat /\ MaxChecks \in Nat /\ MaxRestarts \in Nat

\* The worker of the start, the window, and a thread that connects.
Checkers == {"startup", "menu"}
Actors == Checkers \cup {"connection"}
Packages == {"AppInstaller", "MicrosoftStore"}
Needs == Packages \cup {"ComMetadata"}
States == {"Satisfied", "Missing", "Unknown"}

VARIABLES
    installed,  \* the packages there are
    writable,   \* whether the directory of the executable takes a file
    file,       \* the metadata beside the executable: absent, partial, whole
    at,         \* what each actor does
    answer,     \* what each has found
    report,     \* what the window knows
    everHad,    \* history: packages there at some time of this process
    everLacked, \* history: packages missing at some time of this process
    together,   \* history: whether all were there at one time of this process
    refusedOnce,\* history: the directory refused a copy that had a source
    changes, checks, restarts

machine == <<installed, everHad, everLacked, together, changes>>
vars == <<machine, writable, file, at, answer, report, refusedOnce, checks, restarts>>

Unchecked == [n \in Needs |-> "Unknown"]

Steps == {"none", "installer", "store", "looking", "sourcing", "copying", "copied", "done"}

-----------------------------------------------------------------------------
Init ==
    /\ installed \in SUBSET Packages /\ writable \in BOOLEAN
    /\ file \in {"absent", "whole"}
    /\ at = [a \in Actors |-> IF a = "startup" THEN "installer" ELSE "none"]
    /\ answer = [a \in Actors |-> Unchecked] /\ report = Unchecked
    /\ everHad = installed /\ everLacked = Packages \ installed
    /\ together = (installed = Packages) /\ refusedOnce = FALSE
    /\ changes = 0 /\ checks = 0 /\ restarts = 0

\* The user installs or removes a package.
Change(p) ==
    /\ changes < MaxChanges
    /\ changes' = changes + 1
    /\ installed' = IF p \in installed THEN installed \ {p} ELSE installed \cup {p}
    /\ everHad' = everHad \cup installed' /\ everLacked' = everLacked \cup (Packages \ installed')
    /\ together' = (together \/ installed' = Packages)
    /\ UNCHANGED <<writable, file, at, answer, report, refusedOnce, checks, restarts>>

\* The menu item; the window does nothing else until it is done.
Recheck ==
    /\ at["menu"] = "none" /\ checks < MaxChecks
    /\ checks' = checks + 1
    /\ at' = [at EXCEPT !["menu"] = "installer"]
    /\ UNCHANGED <<machine, writable, file, answer, report, refusedOnce, restarts>>

\* The probe of a pending installation, a resolution or an operation.
Connect ==
    /\ at["connection"] = "none" /\ checks < MaxChecks
    /\ checks' = checks + 1
    /\ at' = [at EXCEPT !["connection"] = "looking"]
    /\ UNCHANGED <<machine, writable, file, answer, report, refusedOnce, restarts>>

\* The runtime or the package API answers nothing at all.
Unanswered(a) ==
    /\ a \in Checkers /\ at[a] = "installer"
    /\ answer' = [answer EXCEPT ![a] = Unchecked]
    /\ at' = [at EXCEPT ![a] = "done"]
    /\ UNCHANGED <<machine, writable, file, report, refusedOnce, checks, restarts>>

FamilyState(p) == {IF p \in installed THEN "Satisfied" ELSE "Missing", "Unknown"}

Ask(a, step, p, next) ==
    /\ at[a] = step
    /\ \E found \in FamilyState(p) : answer' = [answer EXCEPT ![a][p] = found]
    /\ at' = [at EXCEPT ![a] = next]
    /\ UNCHANGED <<machine, writable, file, report, refusedOnce, checks, restarts>>

AskForInstaller(a) == Ask(a, "installer", "AppInstaller", "store")
AskForStore(a) == Ask(a, "store", "MicrosoftStore", "looking")

\* What a placement amounts to among the prerequisites.
PlacementState(placement) ==
    CASE placement = "Present" -> "Satisfied"
      [] placement = "DirectoryNotWritable" -> "Missing"
      [] placement \in {"SourcePackageMissing", "Undetermined"} -> "Unknown"

Placed(a, placement) ==
    /\ answer' = [answer EXCEPT ![a]["ComMetadata"] = PlacementState(placement)]
    /\ at' = [at EXCEPT ![a] = "done"]

\* Any file of the name will do.
Look(a) ==
    /\ at[a] = "looking"
    /\ IF file # "absent"
       THEN Placed(a, "Present")
       ELSE at' = [at EXCEPT ![a] = "sourcing"] /\ UNCHANGED answer
    /\ UNCHANGED <<machine, writable, file, report, refusedOnce, checks, restarts>>

FindSource(a) ==
    /\ at[a] = "sourcing"
    /\ \/ "AppInstaller" \in installed /\ at' = [at EXCEPT ![a] = "copying"] /\ UNCHANGED answer
       \/ Placed(a, "SourcePackageMissing")
    /\ UNCHANGED <<machine, writable, file, report, refusedOnce, checks, restarts>>

Copying == {a \in Actors : at[a] = "copied"}

\* A copy opens the target and fills it, over what may be there by now; one
\* that is being filled is not opened.
BeginCopy(a) ==
    /\ at[a] = "copying"
    /\ \/ /\ writable /\ Copying = {}
          /\ file' = "partial"
          /\ at' = [at EXCEPT ![a] = "copied"]
          /\ UNCHANGED <<answer, refusedOnce>>
       \/ /\ ~writable
          /\ Placed(a, "DirectoryNotWritable")
          /\ refusedOnce' = TRUE
          /\ UNCHANGED file
       \/ Placed(a, "Undetermined") /\ UNCHANGED <<file, refusedOnce>>
    /\ UNCHANGED <<machine, writable, report, checks, restarts>>

EndCopy(a) ==
    /\ at[a] = "copied"
    /\ \/ file' = "whole" /\ Placed(a, "Present")
       \/ file' \in {"absent", "partial"} /\ Placed(a, "Undetermined")
    /\ UNCHANGED <<machine, writable, report, refusedOnce, checks, restarts>>

-----------------------------------------------------------------------------
\* The answer of the worker reaches the window when no menu holds it.
StartupChecked ==
    /\ at["startup"] = "done" /\ at["menu"] = "none"
    /\ report' = answer["startup"]
    /\ at' = [at EXCEPT !["startup"] = "none"]
    /\ UNCHANGED <<machine, writable, file, answer, refusedOnce, checks, restarts>>

Rechecked ==
    /\ at["menu"] = "done"
    /\ report' = answer["menu"]
    /\ at' = [at EXCEPT !["menu"] = "none"]
    /\ UNCHANGED <<machine, writable, file, answer, refusedOnce, checks, restarts>>

\* The package manager is activated, whatever the placement.
Activate ==
    /\ at["connection"] = "done"
    /\ at' = [at EXCEPT !["connection"] = "none"]
    /\ UNCHANGED <<machine, writable, file, answer, report, refusedOnce, checks, restarts>>

\* The process ends wherever it is, and begins again.
Restart ==
    /\ restarts < MaxRestarts
    /\ restarts' = restarts + 1
    /\ at' = [a \in Actors |-> IF a = "startup" THEN "installer" ELSE "none"]
    /\ answer' = [a \in Actors |-> Unchecked] /\ report' = Unchecked
    /\ everHad' = installed /\ everLacked' = Packages \ installed
    /\ together' = (installed = Packages) /\ refusedOnce' = FALSE
    /\ UNCHANGED <<installed, changes, writable, file, checks>>

Check(a) == Unanswered(a) \/ AskForInstaller(a) \/ AskForStore(a)
Place(a) == Look(a) \/ FindSource(a) \/ BeginCopy(a) \/ EndCopy(a)

Next ==
    \/ \E p \in Packages : Change(p)
    \/ Recheck \/ Connect
    \/ \E a \in Actors : Check(a) \/ Place(a)
    \/ StartupChecked \/ Rechecked \/ Activate \/ Restart

Spec == Init /\ [][Next]_vars

-----------------------------------------------------------------------------
\* The gates, and what the window lists as missing.
NothingMissing == \A n \in Needs : report[n] # "Missing"   \* mutated
AdmitsInstallation == \A n \in Needs : report[n] = "Satisfied"
AdmitsHandoff == report["MicrosoftStore"] = "Satisfied"
Unsatisfied == {n \in Needs : report[n] # "Satisfied"}

\* Each with the sentence of what is missing or of what could not be learnt.
Listed == {<<n, IF report[n] = "Missing" THEN "missing" ELSE "unknown">> : n \in Unsatisfied}

TypeOK ==
    /\ installed \subseteq Packages /\ writable \in BOOLEAN /\ file \in {"absent", "partial", "whole"}
    /\ at \in [Actors -> Steps] /\ answer \in [Actors -> [Needs -> States]]
    /\ report \in [Needs -> States]
    /\ everHad \subseteq Packages /\ everLacked \subseteq Packages /\ {together, refusedOnce} \subseteq BOOLEAN
    /\ changes \in 0 .. MaxChanges /\ checks \in 0 .. MaxChecks /\ restarts \in 0 .. MaxRestarts
    /\ Cardinality(Copying) <= 1 /\ (Copying # {} => file = "partial")

\* A machine is admitted only on packages this process found there, a handoff
\* on the Store alone, and neither before the first answer, whichever check
\* answers last. (prerequisite.rs admits_installation, admits_handoff, unchecked)
AdmittedWasThere ==
    /\ AdmitsInstallation => Packages \subseteq everHad
    /\ AdmitsHandoff => "MicrosoftStore" \in everHad

\* "An unanswered question is not a negative answer": a package is listed as
\* missing only if it was; the directory is to blame only if there was a file
\* to copy and it refused it. (prerequisites.rs family_state, metadata.rs
\* prerequisite_state)
MissingWasMissing ==
    /\ \A p \in Packages : <<p, "missing">> \in Listed => p \in everLacked
    /\ <<"ComMetadata", "missing">> \in Listed => refusedOnce /\ "AppInstaller" \in everHad

\* metadata.rs: "The file is beside the executable, whether it was already
\* there or just copied."
PresentIsWhole ==
    at["connection"] = "done" /\ answer["connection"]["ComMetadata"] = "Satisfied" => file = "whole"

\* prerequisite.rs: "The state of every prerequisite at one moment."
AtOneMoment == AdmitsInstallation => together
=============================================================================
