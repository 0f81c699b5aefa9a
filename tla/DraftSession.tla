---------------------------- MODULE DraftSession ----------------------------
(***************************************************************************)
(* The draft of an operation on the Installation tab: the two sources and  *)
(* the temporary region (core/source.rs, gui/state.rs), the questions the  *)
(* window asks about them on threads of their own - the product's card     *)
(* (core/resolve.rs), the delivery to this device, the inspection of a     *)
(* file, the download of an installer - and the answers, which arrive in   *)
(* any order after the draft may have changed (gui/command.rs, window.rs). *)
(***************************************************************************)
EXTENDS Naturals, FiniteSets

CONSTANTS
    Products, Junk, NoProduct,     \* what the text parses to; unparsable text
    Regions, Markets, NoRegion,    \* regions; those of them that are markets
    Paths, Fetched, NoPath,        \* installer files; the downloaded one
    MaxRequests                    \* bound on the resolutions begun

DraftAssumption ==
    /\ {Junk, NoProduct} \cap Products = {} /\ Junk # NoProduct
    /\ Markets \subseteq Regions /\ NoRegion \notin Regions
    /\ Fetched \in Paths /\ NoPath \notin Paths
    /\ MaxRequests \in Nat

VARIABLES
    selected,      \* the source the primary command follows
    text,          \* the link draft
    chosen,        \* the file draft
    inspected,     \* the inspection on show, and of which path
    region,        \* the selected temporary region
    resolution,    \* ProductResolutionSession
    nextId,
    confirmed,     \* installation_backend_confirmed
    device,        \* the last delivery answer stored, and its subject
    download,      \* the product an installer was asked for
    operation,     \* whether one runs, and the request it began with
    failed,        \* the last operation ended with a failure
    resolvers,     \* requests at the resolver
    inspecting,    \* inspections under way, by path
    asking         \* delivery questions under way, by subject

vars == <<selected, text, chosen, inspected, region, resolution, nextId,
          confirmed, device, download, operation, failed, resolvers,
          inspecting, asking>>

source == <<selected, text, chosen, inspected>>
resolving == <<resolution, nextId, resolvers>>
work == <<download, operation, failed>>

Sources == {"StoreText", "InstallerFile"}
Phases == {"Idle", "SyntaxAccepted", "Resolving", "Resolved", "Failed"}
Verdicts == {"Deliverable", "Refused", "Unknown"}
Inspections == {"none", "admitted", "refused", "failed"}
Subjects == Products \X Markets

Requests == [id: 1 .. MaxRequests, product: Products, market: Markets]

NoRequest == [id |-> 0, product |-> NoProduct, market |-> NoRegion]

Idle == [phase |-> "Idle", request |-> NoRequest, product |-> NoProduct,
         supported |-> FALSE]

Accepted(product) == [Idle EXCEPT !.phase = "SyntaxAccepted", !.product = product]

Begun(request) == [Idle EXCEPT !.phase = "Resolving", !.request = request,
                               !.product = request.product]

NoInspection == [path |-> NoPath, verdict |-> "none"]

-----------------------------------------------------------------------------
(* What the draft amounts to.                                              *)

\* The exact identifier the user supplied.
AcceptedProduct == resolution.product

\* The card probe and the region search fall back to the link draft.
SearchableProduct ==
    IF AcceptedProduct # NoProduct THEN AcceptedProduct
    ELSE IF text \in Products THEN text ELSE NoProduct

AsksAbout(subject) == AcceptedProduct = subject[1] /\ region = subject[2]

DeviceVerdict ==
    IF device.subject = <<AcceptedProduct, region>> THEN device.verdict
    ELSE "Unknown"

InstallIsAvailable ==
    /\ DeviceVerdict # "Refused"
    /\ AcceptedProduct # NoProduct
    /\ region # NoRegion
    /\ ~operation.running

AdmittedInstallerFile == chosen # NoPath /\ inspected = [path |-> chosen, verdict |-> "admitted"]

HandoffIsAvailable ==
    /\ selected = "InstallerFile"
    /\ AdmittedInstallerFile
    /\ region # NoRegion
    /\ ~operation.running

PrimaryCommandIsAvailable == InstallIsAvailable \/ HandoffIsAvailable

-----------------------------------------------------------------------------
(* The link draft and the region.                                          *)

\* The delivery question is asked unless its answer is the one stored. More
\* than two of the same at once are two.
AskDeviceCompatibility(product, market) ==
    asking' = IF /\ <<product, market>> \in Subjects
                 /\ device.subject # <<product, market>>
              THEN [asking EXCEPT ![<<product, market>>] = IF @ < 2 THEN @ + 1 ELSE 2]
              ELSE asking

\* A text that parses is accepted; with a market selected it is also asked.
BeginResolutionIfReady(typed, market) ==
    IF typed \in Products /\ market \in Markets
    THEN LET request == [id |-> nextId, product |-> typed, market |-> market]
         IN  /\ nextId <= MaxRequests
             /\ resolution' = Begun(request)
             /\ nextId' = nextId + 1
             /\ resolvers' = resolvers \cup {request}
    ELSE /\ resolution' = IF typed \in Products THEN Accepted(typed) ELSE Idle
         /\ UNCHANGED <<nextId, resolvers>>

SetStoreText(typed) ==
    /\ text' = typed /\ selected' = "StoreText"
    /\ AskDeviceCompatibility(typed, region)
    /\ BeginResolutionIfReady(typed, region)
    /\ UNCHANGED <<chosen, inspected, region, confirmed, device, inspecting, work>>

SelectTemporaryRegion(choice) ==
    /\ region' = choice
    /\ AskDeviceCompatibility(SearchableProduct, choice)
    /\ BeginResolutionIfReady(text, choice)
    /\ UNCHANGED <<source, confirmed, device, inspecting, work>>

\* A search narrowed the list past the selected region, or none is selected:
\* the first one listed takes its place, and nothing is asked about it.
KeepSelectionReachable ==
    /\ SearchableProduct # NoProduct
    /\ region' \in IF region = NoRegion THEN Regions ELSE Markets \ {region}
    /\ UNCHANGED <<source, resolving, confirmed, device, inspecting, asking, work>>

SelectSource ==
    /\ selected' \in Sources \ {selected}
    /\ UNCHANGED <<text, chosen, inspected, region, resolving, confirmed, device,
                   inspecting, asking, work>>

-----------------------------------------------------------------------------
(* The file draft.                                                         *)

\* A picked, dropped or downloaded file drops the resolution and the verdict.
SelectInstallerStub(path) ==
    /\ chosen' = path /\ selected' = "InstallerFile"
    /\ inspected' = NoInspection
    /\ resolution' = Idle
    /\ inspecting' = [inspecting EXCEPT ![path] = IF @ < 2 THEN @ + 1 ELSE 2]

DispatchFileCandidate ==
    /\ \E path \in Paths \ {Fetched} : SelectInstallerStub(path)
    /\ UNCHANGED <<text, region, nextId, resolvers, confirmed, device, asking, work>>

ClearFile ==
    /\ selected = "InstallerFile"
    /\ chosen' = NoPath /\ selected' = "StoreText"
    /\ inspected' = NoInspection
    /\ resolution' = Idle
    /\ UNCHANGED <<text, region, nextId, resolvers, confirmed, device,
                   inspecting, asking, work>>

\* An answer counts when its path is still the chosen one.
StubInspected(path) ==
    /\ inspecting[path] > 0
    /\ inspecting' = [inspecting EXCEPT ![path] = @ - 1]
    /\ IF chosen = path
       THEN /\ resolution' = Idle
            /\ \E v \in Inspections \ {"none"} :
                   inspected' = [path |-> path, verdict |-> v]
       ELSE UNCHANGED <<resolution, inspected>>
    /\ UNCHANGED <<selected, text, chosen, region, nextId, resolvers, confirmed,
                   device, asking, work>>

-----------------------------------------------------------------------------
(* Answers about the product.                                              *)

AnyIsActive(request) == resolution.phase = "Resolving"   \* mutated

IsActive(request) == resolution.phase = "Resolving" /\ resolution.request = request

\* complete: a failure and a mismatching answer end as Failed alike.
Complete(request) ==
    resolution' \in {[resolution EXCEPT !.phase = "Failed"]} \cup
        {[resolution EXCEPT !.phase = "Resolved", !.request = request,
                            !.product = request.product, !.supported = b] :
            b \in BOOLEAN}

ProductResolved(request) ==
    /\ request \in resolvers
    /\ resolvers' = resolvers \ {request}
    /\ IF IsActive(request)
       THEN Complete(request) /\ confirmed' = resolution'.supported
       ELSE UNCHANGED <<resolution, confirmed>>
    /\ UNCHANGED <<source, region, nextId, device, inspecting, asking, work>>

\* An answer to another question than the current one is not stored.
DeviceAnswered(subject) ==
    /\ asking[subject] > 0
    /\ asking' = [asking EXCEPT ![subject] = @ - 1]
    /\ IF AsksAbout(subject)
       THEN \E v \in Verdicts : device' = [subject |-> subject, verdict |-> v]
       ELSE UNCHANGED device
    /\ UNCHANGED <<source, region, resolving, confirmed, inspecting, work>>

-----------------------------------------------------------------------------
(* The operation, and the second path after it.                            *)

\* The resolve belongs to the operation: no resolver is asked.
BeginInstallation ==
    /\ selected = "StoreText" /\ InstallIsAvailable /\ region \in Markets
    /\ nextId <= MaxRequests
    /\ LET request == [id |-> nextId, product |-> AcceptedProduct, market |-> region]
       IN  /\ resolution' = Begun(request)
           /\ operation' = [running |-> TRUE, request |-> request]
    /\ nextId' = nextId + 1
    /\ UNCHANGED <<source, region, confirmed, device, download, failed, resolvers,
                   inspecting, asking>>

\* The card the operation found lands where any other answer does.
OperationResolved ==
    /\ operation.running /\ IsActive(operation.request)
    /\ \E b \in BOOLEAN :
           resolution' = [resolution EXCEPT !.phase = "Resolved", !.supported = b]
    /\ UNCHANGED <<source, region, nextId, resolvers, confirmed, device,
                   inspecting, asking, work>>

OperationEnds ==
    /\ operation.running
    /\ operation' = [operation EXCEPT !.running = FALSE]
    /\ failed' \in BOOLEAN
    /\ UNCHANGED <<source, region, resolving, confirmed, device, download,
                   inspecting, asking>>

BeginInstallerDownload ==
    /\ ~operation.running /\ failed /\ download = NoProduct
    /\ selected = "StoreText"
    /\ AcceptedProduct # NoProduct /\ DeviceVerdict # "Refused"
    /\ download' = AcceptedProduct
    /\ failed' = FALSE
    /\ UNCHANGED <<source, region, resolving, confirmed, device, operation,
                   inspecting, asking>>

\* What arrives takes the route of a picked file, whatever the draft is by now.
InstallerDownloaded ==
    /\ download # NoProduct
    /\ download' = NoProduct
    /\ \/ SelectInstallerStub(Fetched)
       \/ UNCHANGED <<selected, chosen, inspected, resolution, inspecting>>
    /\ UNCHANGED <<text, region, nextId, resolvers, confirmed, device, asking,
                   operation, failed>>

-----------------------------------------------------------------------------
Init ==
    /\ selected = "StoreText" /\ chosen = NoPath /\ inspected = NoInspection
    /\ text \in Products \cup {Junk}
    /\ region \in Regions \cup {NoRegion}
    /\ resolution = IF text \in Products THEN Accepted(text) ELSE Idle
    /\ nextId = 1 /\ confirmed = FALSE
    /\ device = [subject |-> <<NoProduct, NoRegion>>, verdict |-> "Unknown"]
    /\ download = NoProduct
    /\ operation = [running |-> FALSE, request |-> NoRequest]
    /\ failed = FALSE
    /\ resolvers = {}
    /\ inspecting = [p \in Paths |-> 0]
    /\ asking = [s \in Subjects |-> IF s = <<text, region>> THEN 1 ELSE 0]

User ==
    \/ \E typed \in Products \cup {Junk} : SetStoreText(typed)
    \/ \E choice \in Regions \cup {NoRegion} : SelectTemporaryRegion(choice)
    \/ SelectSource \/ DispatchFileCandidate \/ ClearFile
    \/ BeginInstallation \/ BeginInstallerDownload

Answers ==
    \/ \E path \in Paths : StubInspected(path)
    \/ \E request \in resolvers : ProductResolved(request)
    \/ \E subject \in Subjects : DeviceAnswered(subject)
    \/ OperationResolved \/ OperationEnds \/ InstallerDownloaded
    \/ KeepSelectionReachable

Next == User \/ Answers

Spec == Init /\ [][Next]_vars

-----------------------------------------------------------------------------
TypeOK ==
    /\ selected \in Sources /\ text \in Products \cup {Junk}
    /\ chosen \in Paths \cup {NoPath}
    /\ inspected \in [path: Paths \cup {NoPath}, verdict: Inspections]
    /\ region \in Regions \cup {NoRegion}
    /\ resolution \in [phase: Phases, request: Requests \cup {NoRequest},
                       product: Products \cup {NoProduct}, supported: BOOLEAN]
    /\ nextId \in 1 .. MaxRequests + 1 /\ confirmed \in BOOLEAN
    /\ device \in [subject: (Products \cup {NoProduct}) \X (Markets \cup {NoRegion}),
                   verdict: Verdicts]
    /\ download \in Products \cup {NoProduct}
    /\ operation \in [running: BOOLEAN, request: Requests \cup {NoRequest}]
    /\ failed \in BOOLEAN /\ resolvers \subseteq Requests
    /\ inspecting \in [Paths -> 0 .. 2] /\ asking \in [Subjects -> 0 .. 2]

(* What an operation would install is what the text says, and the card is  *)
(* the answer to the last question asked: no superseded resolution, file   *)
(* or download survives in between (resolve.rs:280 complete).              *)
CardIsOfDraft ==
    /\ AcceptedProduct \in {text, NoProduct}
    /\ resolution.phase \in {"Resolving", "Resolved", "Failed"}
           => /\ resolution.request.id = nextId - 1
              /\ resolution.request.product = text

(* What the window says it waits for is on its way: an inspection that is  *)
(* still missing and a card that is being retrieved have a thread that     *)
(* will answer, or belong to an operation (command.rs:933-937).            *)
WaitsForSomebody ==
    /\ chosen # NoPath /\ inspected.path # chosen => inspecting[chosen] > 0
    /\ resolution.phase = "Resolving"
           => resolution.request \in resolvers \cup {operation.request}

(* The verdict on a file is never that of an earlier one: late inspections *)
(* change nothing (window.rs:1030, state.rs:557).                          *)
VerdictIsOfChosen == inspected.path \in {NoPath, chosen}

DeviceIsCurrent == device.subject = <<AcceptedProduct, region>>

(* While the question stays the same, its stored answer is replaced by     *)
(* answers to the same question only: no late answer makes a known verdict *)
(* unknown again (window.rs:1283-1287).                                    *)
AnswerStays ==
    DeviceIsCurrent /\ AcceptedProduct' = AcceptedProduct /\ region' = region
        => DeviceIsCurrent'
CurrentAnswerStays == [][AnswerStays]_vars

-----------------------------------------------------------------------------
(* Sentences of the source that the code does not keep.                    *)

(* "The exact identifier the user supplied, once it parses" (state.rs:587):*)
(* a file chosen and cleared, or inspected late, drops it for good.        *)
ValidDraftIsAccepted ==
    selected = "StoreText" /\ text \in Products => AcceptedProduct = text

(* "Invalidate a request when its source draft, ID, or market changes"     *)
(* (resolve.rs:252): the region a search moves away keeps its request.     *)
RequestFollowsMarket ==
    resolution.phase = "Resolving" => resolution.request.market = region

(* "The answer decides whether an installation may start at all, so it is  *)
(* asked before the region changes" (command.rs:393).                      *)
AskedBeforeInstall ==
    [][ operation'.running /\ ~operation.running
        => LET subject == <<operation'.request.product, operation'.request.market>>
           IN  asking[subject] > 0 \/ device.subject = subject ]_vars

(* "Whether the primary command has anything to start at all"              *)
(* (state.rs:514): the command follows the selected source, so with the    *)
(* file source selected it can be offered for the link and start nothing.  *)
ButtonStartsSomething ==
    PrimaryCommandIsAvailable
        => IF selected = "StoreText" THEN InstallIsAvailable ELSE HandoffIsAvailable

(* "The backend is confirmed per product, not per machine"                 *)
(* (window.rs:1075): a card the operation found keeps the last one's word. *)
CardSaysItsOwn == resolution.phase = "Resolved" => confirmed = resolution.supported

=============================================================================
