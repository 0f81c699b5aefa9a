-------------------------- MODULE CompletionEvidence --------------------------
(***************************************************************************)
(* What proves that an installation was completed: the catalogue's product *)
(* (platform/winget/resolver.rs), the package manager's operation          *)
(* (platform/winget/backend.rs), the packages Windows lists for the user   *)
(* (platform/packaged.rs, core observe/packaged.rs), and the steps of      *)
(* gui/install.rs that set them against each other, in the run that began  *)
(* the installation and in a later one that takes it over or only finds    *)
(* its record.                                                             *)
(*                                                                         *)
(* The region and the record's milestones are the subject of               *)
(* GuardedInstall; here a record is only the identity it names.  Packages  *)
(* are the entries Windows may list under the family that was asked for:   *)
(* those of Ours carry no product identifier or the right one.             *)
(***************************************************************************)
EXTENDS Naturals, Sequences

CONSTANTS Ours,          \* packages of the family that speak for the product
          Foreign,       \* packages of the family that name another product
          NoSnapshot,
          Legible,       \* whether Windows lets every listed package be read
          Fractions,     \* installation progress reported, in thousandths
          MaxJobs,       \* installations of the product, by anyone
          MaxElsewhere,  \* changes of the package list by anything else
          MaxRuns        \* starts of the program

EvidenceAssumption ==
    /\ Legible \in BOOLEAN /\ Fractions \subseteq Nat
    /\ MaxJobs \in Nat /\ MaxElsewhere \in Nat /\ MaxRuns \in Nat \ {0}

Packages == Ours \cup Foreign
Health   == {"absent", "partial", "healthy"}

\* A package that cannot be read is not in a snapshot, and one whose status
\* cannot be read is in it without a status.
Snapshots == [Packages -> Health \cup {"opaque"}]

Phases    == {"queued", "installing", "postInstall"}
JobStates == Phases \cup {"ok", "refused", "notHere", "lost"}
Jobs      == [owner : {"us", "other"}, state : JobStates]

InstallKindEvidence == {"none", "identity", "msStore", "win32"}

Causes ==
    {"none", "resolverUnavailable", "sourceUnavailable", "answerMismatch",
     "productNotFound", "kindNotSupported", "alreadyInstalled", "rejected",
     "regionNotApplied", "notOffered", "alreadyInstalling", "observationFailed",
     "productNotOnThisDevice", "unknownFailure", "uncertain", "restoreFailed",
     "backendUnavailable"}

Results == {"none", "Installed", "Failed", "CompletionUncertain", "RecoveryRequired"}

Steps ==
    {"off", "connecting", "resolving", "identifying", "measuring", "requesting",
     "following", "over", "probing", "settling", "joining"}
ThreadSteps == Steps \ {"off", "over", "probing", "settling"}

VARIABLES
    listed,    \* the packages of the family, as Windows has them
    jobs,      \* installations of the product the package manager was asked for
    pc,        \* where the operation is
    taken,     \* whether this run took the installation over
    expected,  \* whether the operation knows the package identity
    baseline,  \* the packages before the request
    handle,    \* the job followed, 0 when there is none
    sink,      \* the progress the package manager last reported of it
    percent,   \* the percentage shown, 0 while there is none
    detail,    \* what the backend kept of the last answer
    record,    \* the recovery record and the identity it names
    result,    \* what the history says of the operation
    cause,     \* what the window says of it
    found,     \* whether the recorded package was there at the next start
    before,    \* history: packages of Ours when the snapshot was due
    claimed,   \* history: packages of Ours when a result was found
    elsewhere, runs

window == <<percent, result, cause>>
proof  == <<taken, expected, baseline, handle, sink, detail>>
past   == <<before, claimed>>
bounds == <<elsewhere, runs>>
vars   == <<listed, jobs, pc, window, proof, record, found, past, bounds>>

NonePresent == [p \in Ours |-> "absent"]

TypeOK ==
    /\ listed \in [Packages -> Health]
    /\ jobs \in Seq(Jobs) /\ Len(jobs) <= MaxJobs
    /\ pc \in Steps
    /\ taken \in BOOLEAN /\ expected \in BOOLEAN /\ found \in BOOLEAN
    /\ baseline \in Snapshots \cup {NoSnapshot}
    /\ handle \in 0 .. Len(jobs)
    /\ sink \in Fractions \cup {0}
    /\ percent \in 0 .. 100
    /\ detail \in {"none", "ok", "refused", "notHere"}
    /\ record \in {"none", "bare", "named"}
    /\ result \in Results /\ cause \in Causes
    /\ before \in [Ours -> Health] /\ claimed \in [Ours -> Health]
    /\ elsewhere \in 0 .. MaxElsewhere /\ runs \in 0 .. MaxRuns

Init ==
    /\ listed \in [Packages -> Health]
    /\ jobs = <<>> /\ pc = "off"
    /\ taken = FALSE /\ expected = FALSE /\ baseline = NoSnapshot /\ handle = 0
    /\ sink = 0 /\ detail = "none"
    /\ percent = 0 /\ result = "none" /\ cause = "none"
    /\ record = "none" /\ found = FALSE
    /\ before = NonePresent /\ claimed = NonePresent
    /\ elsewhere = 0 /\ runs = 1

-------------------------------------------------------------------------------
\* The packages of the user.

\* What a snapshot may say of one package.
Readings(health) ==
    IF health = "absent" \/ Legible THEN {health} ELSE {health, "opaque", "absent"}

IsSnapshot(snapshot) == \A p \in Packages : snapshot[p] \in Readings(listed[p])

\* The family decides, and a product identifier only speaks against.
Matches(snapshot, p) == p \in Ours /\ snapshot[p] # "absent"

Contains(snapshot) == \E p \in Packages : Matches(snapshot, p)

\* Windows lists a family's packages in no particular order, and the first one
\* that matches is asked about.
AnyMatch(snapshot, p) == Matches(snapshot, p)   \* mutated
HealthyMatch(snapshot, p) == Matches(snapshot, p) /\ snapshot[p] = "healthy"

EvaluatePackagedObservation(follow) ==
    IF Contains(baseline) THEN {"alreadyPresent"}
    ELSE IF ~Contains(follow) THEN {"installing"}
    ELSE {IF HealthyMatch(follow, p) THEN "completed" ELSE "installing" :
          p \in {q \in Packages : Matches(follow, q)}}

\* Without the identity, the snapshot before or the snapshot now, a success the
\* package manager reports stays unproven.
ConfirmedCompletion(follow) ==
    IF ~expected \/ baseline = NoSnapshot \/ follow = NoSnapshot THEN {"uncertain"}
    ELSE {IF o = "completed" THEN o ELSE "uncertain" : o \in EvaluatePackagedObservation(follow)}

AlreadyInstalled == expected /\ baseline' # NoSnapshot /\ Contains(baseline')

-------------------------------------------------------------------------------
\* The package manager, as its client sees it.

InFlight == {j \in DOMAIN jobs : jobs[j].state \in Phases}

\* Activation fails, or the catalogue does, or the source does not connect.
ConnectFailures == {"serverUnavailable", "metadataMissing", "sourceUnavailable"}

\* A resolver that cannot be reached is not a source that cannot be reached.
UnavailableToFailure(failure) ==
    IF failure = "sourceUnavailable" THEN failure ELSE "resolverUnavailable"

\* A search names nothing, or fails; else it names the product.
LookupFailures(nothing, failed) == {nothing, failed}

\* Only the Store's own installer type leaves something to prove.
InstallSupported(evidence) == evidence = "msStore"

\* Zero is the manager's first value, not progress.  In percent, rounded.
PercentFrom(fraction) ==
    LET rounded == (fraction + 5) \div 10 IN IF rounded > 100 THEN 100 ELSE rounded

\* The last percentage known stays in sight.
ShownPercent(fraction) == IF PercentFrom(fraction) = 0 THEN percent ELSE PercentFrom(fraction)

\* Only an Ok that nothing contradicts leaves the question open.
StatedFailure(d) ==
    IF d \in {"none", "ok"} THEN {}
    ELSE IF d = "notHere" THEN {"productNotOnThisDevice"}
    ELSE {"unknownFailure"}

-------------------------------------------------------------------------------
\* The operation.

WorldKept == UNCHANGED <<listed, jobs, bounds>>
ProofKept == UNCHANGED <<proof, percent, found, past>>

\* The region is put back and the record removed, or one of them fails.
RecordEnds == record' \in {"none", record}

\* The operation ends and says why.  A result is written once.
EndsWith(told, why) ==
    /\ pc' = "over" /\ cause' = why
    /\ result' = IF result = "none" THEN told ELSE result

\* The user's command, admitted when no record is published.  The record is
\* saved with the switch of the region.
BeginInstallation ==
    /\ pc = "off" /\ record = "none"
    /\ pc' = "connecting"
    /\ UNCHANGED <<result, cause, record>> /\ ProofKept /\ WorldKept

Connect ==
    /\ pc = "connecting"
    /\ \/ pc' = "resolving" /\ record' = "bare" /\ UNCHANGED <<result, cause>>
       \/ /\ pc' = "over" /\ cause' = "backendUnavailable"
          /\ UNCHANGED <<result, record>>
    /\ ProofKept /\ WorldKept

\* The card is asked for again under the temporary region, over a connection
\* of its own.  Its identity is known when the catalogue names one family.
ResolveUnderTemporaryRegion ==
    /\ pc = "resolving"
    /\ \/ /\ \E why \in {UnavailableToFailure(f) : f \in ConnectFailures}
                        \cup LookupFailures("productNotFound", "answerMismatch") :
                EndsWith("Failed", why)
          /\ RecordEnds /\ UNCHANGED expected
       \/ \E evidence \in InstallKindEvidence :
             IF InstallSupported(evidence)
             THEN /\ expected' \in BOOLEAN
                  /\ pc' = IF expected' THEN "identifying" ELSE "measuring"
                  /\ UNCHANGED <<result, cause, record>>
             ELSE /\ EndsWith("Failed", "kindNotSupported") /\ RecordEnds
                  /\ UNCHANGED expected
    /\ UNCHANGED <<taken, baseline, handle, sink, detail, percent, found, past>> /\ WorldKept

\* The record names the identity before the request, if it can be written.
RecordIdentity ==
    /\ pc = "identifying"
    /\ record' \in {record, "named"} /\ pc' = "measuring"
    /\ UNCHANGED <<result, cause>> /\ ProofKept /\ WorldKept

TakeBaseline ==
    /\ pc = "measuring"
    /\ \/ baseline' \in Snapshots /\ IsSnapshot(baseline')
       \/ baseline' = NoSnapshot
    /\ before' = [p \in Ours |-> listed[p]]
    /\ IF AlreadyInstalled
       THEN EndsWith("Failed", "alreadyInstalled") /\ RecordEnds
       ELSE pc' = "requesting" /\ UNCHANGED <<result, cause, record>>
    /\ UNCHANGED <<taken, expected, handle, sink, detail, percent, found, claimed>> /\ WorldKept

StartFailures ==
    LookupFailures("notOffered", "rejected")
        \cup {"backendUnavailable", "regionNotApplied"}
        \cup IF InFlight = {} THEN {} ELSE {"alreadyInstalling"}

\* The manager refuses, or accepts and is followed, or accepts and cannot be
\* followed: the caller takes the last for a refusal.
StartInstall ==
    /\ pc = "requesting"
    /\ detail' = "none"
    /\ \/ /\ \E why \in StartFailures : EndsWith("Failed", why)
          /\ RecordEnds /\ UNCHANGED <<jobs, handle, sink>>
       \/ /\ InFlight = {} /\ Len(jobs) < MaxJobs
          /\ jobs' = Append(jobs, [owner |-> "us", state |-> "queued"])
          /\ sink' = 0
          /\ \/ /\ handle' = Len(jobs') /\ pc' = "following"
                /\ UNCHANGED <<result, cause, record>>
             \/ /\ EndsWith("Failed", "observationFailed") /\ RecordEnds
                /\ UNCHANGED handle
    /\ UNCHANGED <<listed, bounds, taken, expected, baseline, percent, found, past>>

Followed == jobs[handle].state

\* The package manager still works: its last report is shown.
ObserveInstalling ==
    /\ pc = "following" /\ Followed \in Phases
    /\ percent' = ShownPercent(sink)
    /\ UNCHANGED <<pc, result, cause, record, proof, found, past>> /\ WorldKept

\* It has said nothing new for too long: the user is asked, the record stays.
AskUserAfterTimeout ==
    /\ pc = "following" /\ Followed \in Phases
    /\ EndsWith("CompletionUncertain", "uncertain")
    /\ UNCHANGED record /\ ProofKept /\ WorldKept

\* The status cannot be read.
ObservationFails ==
    /\ pc = "following"
    /\ EndsWith("Failed", "observationFailed")
    /\ UNCHANGED record /\ ProofKept /\ WorldKept

\* The operation is over and has no result, or one that cannot be read.
ObserveNothing ==
    /\ pc = "following" /\ Followed = "lost"
    /\ EndsWith("CompletionUncertain", "uncertain")
    /\ UNCHANGED record /\ ProofKept /\ WorldKept

\* The result is kept with its numbers.  A failure it states ends the
\* operation; without one the operation stays uncertain.
ObserveFailure ==
    /\ pc = "following" /\ Followed \in {"refused", "notHere"}
    /\ detail' = Followed
    /\ IF StatedFailure(Followed) # {}
       THEN /\ \E why \in StatedFailure(Followed) : EndsWith("Failed", why)
            /\ RecordEnds
       ELSE EndsWith("CompletionUncertain", "uncertain") /\ UNCHANGED record
    /\ UNCHANGED <<taken, expected, baseline, handle, sink, percent, found, past>> /\ WorldKept

\* A successful status: the packages decide.
ObserveSuccess ==
    /\ pc = "following" /\ Followed = "ok"
    /\ detail' = "ok"
    /\ \E follow \in Snapshots \cup {NoSnapshot} :
          /\ follow # NoSnapshot => IsSnapshot(follow)
          /\ \E answer \in ConfirmedCompletion(follow) :
                IF answer = "completed"
                THEN /\ claimed' = [p \in Ours |-> listed[p]]
                     /\ \/ EndsWith("Installed", "none") /\ RecordEnds
                        \/ EndsWith("RecoveryRequired", "restoreFailed") /\ UNCHANGED record
                ELSE /\ EndsWith("CompletionUncertain", "uncertain")
                     /\ UNCHANGED <<claimed, record>>
    /\ UNCHANGED <<taken, expected, baseline, handle, sink, percent, found, before>> /\ WorldKept

-------------------------------------------------------------------------------
\* A later run.

\* The process ends, at work or not, and the program is started again.  What
\* the record says is all it knows.
NextRun ==
    /\ runs < MaxRuns /\ runs' = runs + 1
    /\ pc' = IF record = "none" THEN "off" ELSE "probing"
    /\ taken' = FALSE /\ expected' = FALSE /\ baseline' = NoSnapshot /\ handle' = 0
    /\ sink' = 0 /\ detail' = "none" /\ found' = FALSE
    /\ percent' = 0 /\ result' = "none" /\ cause' = "none"
    /\ before' = NonePresent /\ claimed' = NonePresent
    /\ UNCHANGED <<listed, jobs, record, elsewhere>>

\* Whether the installation is still in flight, asked of the catalogue of
\* everything that is.  A question that fails counts as "no" to the window;
\* the packages are asked only when the manager itself said "no".
RecordedPackagePresent(snapshot) ==
    record = "named" /\ snapshot # NoSnapshot /\ Contains(snapshot)

ProbeResumableInstall ==
    /\ pc = "probing"
    /\ \/ InFlight # {} /\ pc' = "joining" /\ UNCHANGED <<found, claimed>>
       \/ pc' = "settling" /\ found' = FALSE /\ UNCHANGED claimed
       \/ /\ pc' = "settling"
          /\ \E snapshot \in Snapshots \cup {NoSnapshot} :
                /\ snapshot # NoSnapshot => IsSnapshot(snapshot)
                /\ found' = RecordedPackagePresent(snapshot)
          /\ claimed' = [p \in Ours |-> listed[p]]
    /\ UNCHANGED <<window, record, proof, before>> /\ WorldKept

\* Nothing to take over.  With the original region in force the history is
\* given the entry the run before never wrote, and the record removed; other
\* records are removed without one, or stay.
Settle ==
    /\ pc = "settling"
    /\ pc' = "over"
    /\ result' \in {"none", IF found THEN "Installed" ELSE "CompletionUncertain"}
    /\ RecordEnds
    /\ UNCHANGED cause /\ ProofKept /\ WorldKept

\* The thread that follows asks again for itself.
FollowResumedInstall ==
    /\ pc = "joining"
    /\ \/ /\ \E why \in {"backendUnavailable", "uncertain"} :
                pc' = "over" /\ cause' = why
          /\ UNCHANGED proof
       \/ /\ handle' \in InFlight
          /\ pc' = "following" /\ taken' = TRUE /\ expected' = (record = "named")
          /\ baseline' = [p \in Packages |-> "absent"]
          /\ sink' = 0
          /\ UNCHANGED <<detail, cause>>
    /\ UNCHANGED <<result, record, percent, found, past>> /\ WorldKept

-------------------------------------------------------------------------------
\* What goes on in Windows.

Client == UNCHANGED <<pc, taken, expected, baseline, handle, detail, window, record, found, past>>

\* The package manager works on, and the packages follow its work.
JobMoves ==
    /\ \E j \in InFlight, s \in JobStates \ {"queued"} :
          /\ s = "installing" => jobs[j].state = "queued"
          /\ s = "postInstall" => jobs[j].state = "installing"
          /\ s = "ok" => jobs[j].state # "queued"
          /\ jobs' = [jobs EXCEPT ![j].state = s]
          /\ \/ UNCHANGED listed
             \/ /\ s \in {"postInstall", "refused"}
                /\ \E p \in Ours : listed[p] = "absent" /\ listed' = [listed EXCEPT ![p] = "partial"]
             \/ /\ s = "ok"
                /\ \E p \in Ours : listed' = [listed EXCEPT ![p] = "healthy"]
    /\ UNCHANGED <<sink, bounds>> /\ Client

\* Its reports arrive on a thread of its own, the last one whenever it likes.
Report ==
    /\ handle # 0 /\ Followed # "queued"
    /\ sink' \in Fractions
    /\ UNCHANGED <<listed, jobs, bounds>> /\ Client

\* The user, the Store and other programs change the packages or ask the
\* package manager for the same product.
Elsewhere ==
    /\ elsewhere < MaxElsewhere /\ elsewhere' = elsewhere + 1
    /\ \/ /\ \E p \in Packages, h \in Health : listed' = [listed EXCEPT ![p] = h]
          /\ UNCHANGED jobs
       \/ /\ InFlight = {} /\ Len(jobs) < MaxJobs
          /\ jobs' = Append(jobs, [owner |-> "other", state |-> "queued"])
          /\ UNCHANGED listed
    /\ UNCHANGED <<sink, runs>> /\ Client

Follow ==
    \/ ObserveInstalling \/ ObserveNothing \/ ObserveFailure \/ ObserveSuccess
    \/ AskUserAfterTimeout \/ ObservationFails

Next ==
    \/ BeginInstallation \/ Connect \/ ResolveUnderTemporaryRegion \/ RecordIdentity
    \/ TakeBaseline \/ StartInstall \/ Follow
    \/ NextRun \/ ProbeResumableInstall \/ Settle \/ FollowResumedInstall
    \/ JobMoves \/ Report \/ Elsewhere

Spec == Init /\ [][Next]_vars

-------------------------------------------------------------------------------
\* Properties.

\* A run that began an installation and writes Installed has the package
\* manager's success and a healthy package; when every package can be read,
\* the product was not there before the request (gui/install.rs
\* confirmed_completion, core evaluate_packaged_observation).
InstalledIsProven ==
    result = "Installed" /\ handle # 0 =>
        /\ Followed = "ok"
        /\ \E p \in Ours : claimed[p] = "healthy"
        /\ Legible /\ ~taken => \A p \in Ours : before[p] = "absent"

\* A failure the package manager states is written as one, and is never left
\* to the user as an unknown outcome (backend.rs stated_failure).
StatedFailureIsFailed == detail \in {"refused", "notHere"} => result \in {"none", "Failed"}

\* While the operation lives, its record goes only with an outcome that was
\* stated or proven: an uncertain one keeps it for the next start
\* (gui/install.rs observe).
EndsWithOutcome ==
    pc \in ThreadSteps /\ record # "none" /\ record' = "none" =>
        result' \in {"Installed", "Failed"}
UncertainKeepsRecord == [][EndsWithOutcome]_vars

-------------------------------------------------------------------------------
\* What the code says of itself and does not do.

\* "The install never started, so the temporary region has no reason to stay a
\* moment longer" (gui/install.rs:485).
RefusedWasNotStarted ==
    pc = "over" /\ result = "Failed" /\ handle = 0 =>
        \A j \in InFlight : jobs[j].owner # "us"

\* "A prior presence is explicit rather than being reported as a fresh
\* installation completion" (observe/packaged.rs).
PriorPresenceIsTold ==
    result = "Installed" /\ handle # 0 /\ ~taken => \A p \in Ours : before[p] = "absent"

\* "The result is Installed only when the identity the record was waiting for
\* is present now - proof this operation finished" (gui/install.rs:1023).
PresentMeansFinished ==
    result = "Installed" /\ handle = 0 => \E p \in Ours : claimed[p] = "healthy"

\* "Take over an installation that outlived the process which started it"
\* (gui/install.rs:209).
TakesOverItsOwn == taken => jobs[handle].owner = "us"

\* "The installation is over - nothing was left to take over" (window.rs:734).
SettledIsOver ==
    pc = "over" /\ handle = 0 /\ result \in {"Installed", "CompletionUncertain"} =>
        \A j \in InFlight : jobs[j].owner # "us"
===============================================================================
