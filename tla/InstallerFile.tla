--------------------------- MODULE InstallerFile ---------------------------
(***************************************************************************)
(* The files of Microsoft's installers: the folder the downloads are kept  *)
(* in and the threads that write and empty it                              *)
(* (platform/installer_download.rs), the inspection of a chosen file       *)
(* (platform/stub.rs), the rule that admits it (core/source.rs), and the   *)
(* selection the window makes of a file that arrived (gui/window.rs).      *)
(***************************************************************************)
EXTENDS Naturals, FiniteSets

CONSTANTS
    Names,           \* names an installer may be kept under in the folder
    Elsewhere,       \* files the user keeps in other places
    StoreSigned,     \* whole contents the Store signed,
    OtherSigned,     \* another publisher signed,
    Unsigned,        \* nobody signed
    Truncated,       \* part of a content
    NoFile, NoPath,
    Inspectors,      \* bound on the inspections under way at once
    MaxWrites,       \* bound on the files written in a behaviour
    MaxSelections    \* bound on the selections of a behaviour

Whole == StoreSigned \cup OtherSigned \cup Unsigned
Contents == Whole \cup {Truncated}
Paths == Names \cup Elsewhere

InstallerAssumption ==
    /\ Truncated \notin Whole /\ NoFile \notin Contents
    /\ Names \cap Elsewhere = {} /\ NoPath \notin Paths
    /\ MaxWrites \in Nat /\ MaxSelections \in Nat

SignatureStatus == {"Trusted", "Unsigned", "Invalid", "RevocationUnavailable",
                    "VerificationUnavailable"}

\* What identifies a file: its bytes, and when they were written.
Files == [body: Contents \cup {NoFile}, stamp: 0 .. MaxWrites]
NotThere == [body |-> NoFile, stamp |-> 0]

Inspections ==
    [path: Paths \cup {NoPath}, file: Files,
     status: SignatureStatus \cup {"none", "failed"},
     signer: {"none", "store", "other"}, selection: 0 .. MaxSelections]

NoInspection == [path |-> NoPath, file |-> NotThere, status |-> "none",
                 signer |-> "none", selection |-> 0]

VARIABLES
    running,      \* the process runs; the window is there
    files,        \* what lies under each path
    staging,      \* the file a download is written to first, by final name
    writes,       \* number of files written
    download,     \* the download under way and its answer
    unvisited,    \* entries of the folder a sweep has yet to come to
    executing,    \* files an installer runs from: Windows keeps them
    leftover,     \* history: installers of an earlier process, not run since
    refused,      \* history: names the sweep of this process passed over
    chosen,       \* the file selected
    selections,   \* number of selections made
    inspectors,   \* the inspections under way
    inspected,    \* the inspection shown
    held,         \* a handoff holds the region for an installer
    said          \* what the window last said of a download

vars == <<running, files, staging, writes, download, unvisited, executing,
          leftover, refused, chosen, selections, inspectors, inspected, held,
          said>>

folder == <<files, staging, writes, leftover, refused>>
draft == <<chosen, selections, inspectors, inspected, said>>

Downloads == [at: {"idle", "fetching", "staging", "renaming", "arrived", "failed"},
              name: Names \cup {NoPath}, body: Contents \cup {NoFile}]

NoDownload == [at |-> "idle", name |-> NoPath, body |-> NoFile]

FreeInspector == [at |-> "free", found |-> NoInspection]

Entries == Names \X {"final", "partial"}

-----------------------------------------------------------------------------
(* The download of one installer, on a thread of its own.                  *)

Fail == download' = [download EXCEPT !.at = "failed"]

\* One at a time: the next waits until the window has taken the answer.
BeginInstallerDownload ==
    /\ running /\ download.at = "idle"
    /\ download' = [NoDownload EXCEPT !.at = "fetching"]
    /\ said' = "other"
    /\ UNCHANGED <<running, folder, unvisited, executing, held, chosen,
                   selections, inspectors, inspected>>

\* No transport, another status than 200, a body cut short or too large: no
\* file. Otherwise the whole body, under the name the host offers if it is
\* only a name, and under one made of the Product ID if not.
Fetch ==
    /\ download.at = "fetching"
    /\ \/ Fail
       \/ \E name \in Names, body \in Whole :
              download' = [at |-> "staging", name |-> name, body |-> body]
    /\ UNCHANGED <<running, folder, unvisited, executing, held, draft>>

\* The whole body, or a failure that takes the staging file away again.
WriteInPlace ==   \* mutated
    /\ download.at = "staging" /\ writes < MaxWrites
    /\ writes' = writes + 1
    /\ \E body \in {download.body, Truncated} :
           /\ files' = [files EXCEPT ![download.name] =
                            [body |-> body, stamp |-> writes + 1]]
           /\ leftover' = leftover \ {download.name}
           /\ download' = [download EXCEPT !.at =
                               IF body = Truncated THEN "failed" ELSE "arrived"]
    /\ UNCHANGED <<running, staging, refused, unvisited, executing, held, draft>>
WriteStaging ==
    /\ download.at = "staging"
    /\ \/ /\ staging' = [staging EXCEPT ![download.name] = download.body]
          /\ download' = [download EXCEPT !.at = "renaming"]
       \/ /\ staging' \in {[staging EXCEPT ![download.name] = left] :
                           left \in {NoFile, Truncated}}
          /\ Fail
    /\ UNCHANGED <<running, files, writes, leftover, refused, unvisited,
                   executing, held, draft>>

\* The rename takes a whole file's place in one operation. It fails when the
\* staging file was swept away, and over a file that is executing.
RenameStaging ==
    /\ download.at = "renaming"
    /\ \/ /\ staging[download.name] # NoFile /\ download.name \notin executing
          /\ writes < MaxWrites
          /\ files' = [files EXCEPT ![download.name] =
                           [body |-> staging[download.name], stamp |-> writes + 1]]
          /\ writes' = writes + 1
          /\ leftover' = leftover \ {download.name}
          /\ download' = [download EXCEPT !.at = "arrived"]
       \/ Fail /\ UNCHANGED <<files, writes, leftover>>
    /\ staging' = [staging EXCEPT ![download.name] = NoFile]
    /\ UNCHANGED <<running, refused, unvisited, executing, held, draft>>

-----------------------------------------------------------------------------
(* The sweep of the folder, at every start.                                *)

DeletesPartial(n) ==
    /\ staging' = [staging EXCEPT ![n] = NoFile]
    /\ UNCHANGED <<files, leftover, refused>>

DeletesInstaller(n) ==
    /\ n \notin executing
    /\ files' = [files EXCEPT ![n] = NotThere]
    /\ leftover' = leftover \ {n}
    /\ UNCHANGED <<staging, refused>>

\* What cannot be deleted stays, and nobody is told: a file that is executing
\* or that Windows keeps for another reason, an entry that cannot be read, or
\* every entry of a folder that cannot be.
PassesOver(n) ==
    /\ refused' = refused \cup {n}
    /\ UNCHANGED <<files, staging, leftover>>

SweepEntry ==
    \E entry \in unvisited :
        /\ unvisited' = unvisited \ {entry}
        /\ \/ entry[2] = "partial" /\ DeletesPartial(entry[1])
           \/ entry[2] = "final" /\ DeletesInstaller(entry[1])
           \/ entry[2] = "final" /\ PassesOver(entry[1])
           \/ entry[2] = "partial" /\ UNCHANGED <<files, staging, leftover, refused>>
        /\ UNCHANGED <<running, writes, download, executing, held, draft>>

-----------------------------------------------------------------------------
(* The inspection of a chosen file: its identity, its signature, and its   *)
(* identity again. The threads carry no generation.                        *)

\* What Windows says of the bytes it reads; the network may fail it.
Verdicts(body) ==
    {<<"RevocationUnavailable", "none">>, <<"VerificationUnavailable", "none">>}
    \cup (IF body \in StoreSigned THEN {<<"Trusted", "store">>, <<"Trusted", "none">>}
          ELSE IF body \in OtherSigned THEN {<<"Trusted", "other">>}
          ELSE IF body \in Unsigned THEN {<<"Unsigned", "none">>}
          ELSE IF body = Truncated THEN {<<"Invalid", "none">>} ELSE {})

\* The one gate to running a file: trusted, by a signer the Store's policy knows.
Admitted(inspection) ==
    inspection.status = "Trusted" /\ inspection.signer = "store"

Moves(i, to) == inspectors' = [inspectors EXCEPT ![i] = to]

Inspects(i, at) ==
    /\ inspectors[i].at = at
    /\ UNCHANGED <<running, folder, download, unvisited, executing, held,
                   chosen, selections, inspected, said>>

Answer(i, inspection) == Moves(i, [at |-> "told", found |-> inspection])

ReadFailed(i) == Answer(i, [inspectors[i].found EXCEPT !.status = "failed"])

ReadIdentity(i) ==
    /\ Inspects(i, "read")
    /\ LET found == inspectors[i].found
       IN  \/ ReadFailed(i)
           \/ /\ files[found.path] # NotThere
              /\ Moves(i, [at |-> "verify",
                           found |-> [found EXCEPT !.file = files[found.path]]])

VerifyAuthenticode(i) ==
    /\ Inspects(i, "verify")
    /\ LET found == inspectors[i].found
       IN  \E verdict \in Verdicts(files[found.path].body) :
               Moves(i, [at |-> "again",
                         found |-> [found EXCEPT !.status = verdict[1],
                                                 !.signer = verdict[2]]])

ReadAgain(i) ==
    /\ Inspects(i, "again")
    /\ LET found == inspectors[i].found
       IN  \/ ReadFailed(i)
           \/ files[found.path] = found.file /\ Answer(i, found)

\* The window takes an answer about the path it has selected.
StubInspected(i) ==
    /\ running /\ inspectors[i].at = "told"
    /\ Moves(i, FreeInspector)
    /\ IF inspectors[i].found.path = chosen
       THEN inspected' = inspectors[i].found /\ said' = "other"
       ELSE UNCHANGED <<inspected, said>>
    /\ UNCHANGED <<running, folder, download, unvisited, executing, held,
                   chosen, selections>>

-----------------------------------------------------------------------------
(* The window.                                                             *)

\* A path that is a file is selected, and inspected on a thread of its own;
\* another leaves the selection as it was.
DispatchFileCandidate(path) ==
    IF files[path] = NotThere
    THEN UNCHANGED <<chosen, selections, inspected, inspectors>>
    ELSE \E i \in Inspectors :
             /\ inspectors[i] = FreeInspector
             /\ selections < MaxSelections
             /\ chosen' = path /\ inspected' = NoInspection
             /\ selections' = selections + 1
             /\ Moves(i, [at |-> "read", found |->
                    [NoInspection EXCEPT !.path = path, !.selection = selections + 1]])

ChooseFile ==
    /\ running
    /\ \E path \in Paths : DispatchFileCandidate(path)
    /\ said' = "other"
    /\ UNCHANGED <<running, folder, download, unvisited, executing, held>>

ClearFile ==
    /\ running /\ chosen # NoPath
    /\ chosen' = NoPath /\ inspected' = NoInspection /\ said' = "other"
    /\ UNCHANGED <<running, folder, download, unvisited, executing, held,
                   selections, inspectors>>

\* Whatever became of the selection, the window says the installer is chosen.
InstallerDownloaded ==
    /\ running /\ download.at \in {"arrived", "failed"}
    /\ download' = NoDownload
    /\ IF download.at = "arrived"
       THEN DispatchFileCandidate(download.name) /\ said' = "ready"
       ELSE said' = "other" /\ UNCHANGED <<chosen, selections, inspected, inspectors>>
    /\ UNCHANGED <<running, folder, unvisited, executing, held>>

\* The handoff inspects the file itself, and runs what was confirmed
\* (module Handoff).
LaunchInstaller ==
    /\ running /\ ~held
    /\ inspected.path = chosen /\ Admitted(inspected)
    /\ files[chosen].body = inspected.file.body
    /\ executing' = executing \cup {chosen}
    /\ leftover' = leftover \ {chosen}
    /\ held' = TRUE
    /\ UNCHANGED <<running, files, staging, writes, refused, download, unvisited,
                   draft>>

\* The window would sweep here, but compares two stages that both offer the
\* restoration: the branch is never taken.
EndHandoff ==
    /\ running /\ held
    /\ held' = FALSE
    /\ UNCHANGED <<running, folder, download, unvisited, executing, draft>>

InstallerExits ==
    /\ \E path \in executing : executing' = executing \ {path}
    /\ UNCHANGED <<running, folder, download, unvisited, held, draft>>

\* The process ends, however it does: its threads end with it.
Stop ==
    /\ running /\ running' = FALSE
    /\ download' = NoDownload /\ unvisited' = {} /\ held' = FALSE
    /\ chosen' = NoPath /\ inspected' = NoInspection /\ said' = "other"
    /\ inspectors' = [i \in Inspectors |-> FreeInspector]
    /\ leftover' = {} /\ refused' = {}
    /\ staging' \in {staging} \cup
           IF download.at # "staging" THEN {}
           ELSE {[staging EXCEPT ![download.name] = Truncated]}
    /\ UNCHANGED <<files, writes, executing, selections>>

NoSweep == unvisited' = {}   \* mutated
SweepAtStart == unvisited' = Entries

Start ==
    /\ ~running /\ running' = TRUE
    /\ SweepAtStart
    /\ leftover' = {n \in Names \ executing : files[n] # NotThere}
    /\ UNCHANGED <<files, staging, writes, refused, download, executing, held,
                   draft>>

\* Another program writes a file of the user's.
FileChanges ==
    /\ writes < MaxWrites
    /\ \E path \in Elsewhere \ executing, body \in Whole :
           files' = [files EXCEPT ![path] = [body |-> body, stamp |-> writes + 1]]
    /\ writes' = writes + 1
    /\ UNCHANGED <<running, staging, leftover, refused, download, unvisited,
                   executing, held, draft>>

Init ==
    /\ running = TRUE
    /\ files \in [Paths -> {NotThere} \cup [body : Whole, stamp : {0}]]
    /\ staging = [n \in Names |-> NoFile]
    /\ writes = 0 /\ download = NoDownload
    /\ unvisited = Entries /\ executing = {} /\ held = FALSE
    /\ leftover = {n \in Names : files[n] # NotThere} /\ refused = {}
    /\ chosen = NoPath /\ selections = 0
    /\ inspectors = [i \in Inspectors |-> FreeInspector]
    /\ inspected = NoInspection /\ said = "other"

DownloadStep == Fetch \/ WriteStaging \/ RenameStaging

InspectStep ==
    \E i \in Inspectors : ReadIdentity(i) \/ VerifyAuthenticode(i) \/ ReadAgain(i)

Next ==
    \/ BeginInstallerDownload \/ DownloadStep \/ SweepEntry \/ InspectStep
    \/ ChooseFile \/ ClearFile \/ InstallerDownloaded
    \/ \E i \in Inspectors : StubInspected(i)
    \/ LaunchInstaller \/ EndHandoff \/ InstallerExits
    \/ Stop \/ Start \/ FileChanges

Spec == Init /\ [][Next]_vars

\* The sweep's thread goes on while the process runs.
FairSpec == Spec /\ WF_vars(SweepEntry)

-----------------------------------------------------------------------------
TypeOK ==
    /\ running \in BOOLEAN /\ held \in BOOLEAN
    /\ files \in [Paths -> Files]
    /\ staging \in [Names -> Contents \cup {NoFile}]
    /\ writes \in 0 .. MaxWrites /\ selections \in 0 .. MaxSelections
    /\ download \in Downloads
    /\ unvisited \subseteq Entries /\ executing \subseteq Paths
    /\ leftover \subseteq Names /\ refused \subseteq Names
    /\ chosen \in Paths \cup {NoPath}
    /\ \A i \in Inspectors :
           /\ inspectors[i].at \in {"free", "read", "verify", "again", "told"}
           /\ inspectors[i].found \in Inspections
    /\ inspected \in Inspections
    /\ said \in {"ready", "other"}

(* An inspection that admits a file speaks of one file: the bytes of its   *)
(* digest are the bytes whose signature was trusted, although the path may *)
(* be written, renamed over or swept between the reads (stub.rs:42-46).    *)
AdmittedSpeaksOfOneFile ==
    /\ Admitted(inspected) => inspected.file.body \in StoreSigned
    /\ \A i \in Inspectors :
           inspectors[i].at = "told" /\ Admitted(inspectors[i].found)
               => inspectors[i].found.file.body \in StoreSigned

(* The name a download ends under never holds part of a file, whatever the *)
(* write, a sweep or the end of the process leaves behind                  *)
(* (installer_download.rs:164-183).                                        *)
NamedIsWhole ==
    \A n \in Names : files[n].body # Truncated

(* An installer an earlier process left, and that no longer runs, goes in  *)
(* this one, unless a download takes its name, the user runs it again, the *)
(* process ends, or the sweep comes to it and cannot delete it             *)
(* (work.rs:63-70, installer_download.rs:111-144).                         *)
LeftoversGo ==
    \A n \in Names :
        n \in leftover ~> n \notin leftover \/ n \in refused

-----------------------------------------------------------------------------
(* Sentences of the source that the code does not keep.                    *)

(* "The inspection must still be about the file the user has selected"     *)
(* (state.rs:559): the answer to an earlier selection of the same path is  *)
(* taken for the one under way.                                            *)
InspectionIsOfThisSelection ==
    inspected # NoInspection => inspected.selection = selections

(* "The Microsoft Store installer has been downloaded and selected as the  *)
(* source" (lang/en.toml): said of a file that could not be selected.      *)
ReadyMeansSelected ==
    [][ said' = "ready" /\ download # NoDownload /\ download' = NoDownload
        => chosen' = download.name ]_vars

=============================================================================
