------------------------- MODULE WindowParts_proofs -------------------------
(***************************************************************************)
(* The window, for any number of products, regions, files, languages and   *)
(* lists: the dialogue about the record of an earlier run, the draft, the  *)
(* prerequisites, the sentence below the commands and the tables. Each     *)
(* part has an invariant of its own, and a step of the composition is a    *)
(* step of one part or leaves it alone.                                    *)
(***************************************************************************)
EXTENDS WindowParts, TLAPS, SequenceTheorems, FiniteSetTheorems

------------------------------------------------------------------------------
(* The dialogue admits nothing over a record, writes no region before its  *)
(* milestone is published and claims no removal that did not happen. The   *)
(* induction carries what each step of an execution has established about  *)
(* the record, and that an outcome is told only when the execution is over.*)

\* What the steps of an execution have established.
StepsAreGrounded ==
  /\ pc \in {"writing", "readingBack", "confirming"} => record = "RestoringRegion"
  /\ pc = "clearing" => record = "Restored"
  /\ pc \in {"readingBack", "confirming", "clearing"} => wrote
  /\ wrote => pc \in {"readingBack", "confirming", "clearing", "reinspect", "over"}

\* Outcomes are told, and the gate is opened, at the end.
ToldAtTheEnd ==
  /\ status \in {"restored", "recorded", "retained"} => pc \in {"reinspect", "over"}
  /\ gate => pc = "over"

IInv == TypeOK /\ StepsAreGrounded /\ ToldAtTheEnd
        /\ GateIsSafe /\ MilestoneBeforeWrite /\ OutcomeIsTrue

\* An inspection keeps the record or removes it, and admits only without one.
LEMMA InspectedKeeps ==
    ASSUME NEW found \in Findings, Inspected(found),
           record \in States \cup {NoRecord}
    PROVE  /\ record' \in {record, NoRecord}
           /\ Admits(found) => record' = NoRecord
BY DEF Inspected, Admits, Findings

\* A publication ends the execution or leaves the milestone behind.
LEMMA PublishLeaves ==
    ASSUME NEW state \in States, NEW next, Publish(state, next)
    PROVE  \/ /\ record' \in {record, state}
              /\ status' = "preserved" /\ pc' = "reinspect"
           \/ record' = state /\ pc' = next /\ status' = status
BY DEF Publish, Tell

LEMMA InitIInv == Init => IInv
<1> SUFFICES ASSUME Init PROVE IInv
    OBVIOUS
<1>1. TypeOK
    BY DEF Init, TypeOK, Places, States
<1>2. StepsAreGrounded /\ ToldAtTheEnd
    BY DEF Init, StepsAreGrounded, ToldAtTheEnd
<1>3. GateIsSafe /\ MilestoneBeforeWrite /\ OutcomeIsTrue
    BY DEF Init, GateIsSafe, MilestoneBeforeWrite, OutcomeIsTrue
<1> QED  BY <1>1, <1>2, <1>3 DEF IInv

LEMMA NextKeepsIInv == IInv /\ [Next]_vars => IInv'
<1> SUFFICES ASSUME IInv, [Next]_vars PROVE IInv'
    OBVIOUS
<1> USE DEF IInv, TypeOK, StepsAreGrounded, ToldAtTheEnd, GateIsSafe,
            MilestoneBeforeWrite, OutcomeIsTrue, NoRecord, States, Places, fixed
<1>1. CASE Create
    <2>1. PICK found \in Findings : Inspected(found) /\ gate' = Admits(found)
                /\ status' = (IF gate' /\ ready THEN "source" ELSE Notice(found))
                /\ pc' = (IF found \in {"decision", "withoutOutcome"}
                          THEN "probing" ELSE "over")
        BY <1>1 DEF Create
    <2>2. record' \in {record, NoRecord} /\ (gate' => record' = NoRecord)
        BY <2>1, InspectedKeeps
    <2>3. status' \in {"source", "required", "cleaned", "blocked"}
        BY <2>1 DEF Notice, Findings
    <2>4. gate' \in BOOLEAN
        BY <2>1 DEF Admits
    <2>5. gate' => pc' = "over"
        <3> SUFFICES ASSUME found \in {"nothing", "cleaned"} PROVE pc' = "over"
            BY <2>1, Zenon DEF Admits
        <3> QED  BY <2>1
    <2> QED  BY <1>1, <2>1, <2>2, <2>3, <2>4, <2>5 DEF Create
<1>2. CASE FollowResumed
    BY <1>2 DEF FollowResumed
<1>3. CASE Settle
    <2>1. PICK found \in Findings : Inspected(found)
                /\ pc' = (CASE found = "decision" -> "asking"
                            [] found = "withoutOutcome" -> "recording"
                            [] found = "nothing" -> "over"
                            [] OTHER -> "reinspect")
                /\ owed' = (found = "withoutOutcome")
        BY <1>3 DEF Settle
    <2>2. record' \in {record, NoRecord}
        BY <2>1, InspectedKeeps
    <2>3. pc' \in {"asking", "recording", "reinspect", "over"}
        BY <2>1
    <2>4. pc' = "asking" => region # "original"
        BY <2>1 DEF Inspected
    <2> QED  BY <1>3, <2>2, <2>3, <2>4 DEF Settle
<1>4. CASE KeepCurrentRegion \/ AskToRestore
    BY <1>4 DEF KeepCurrentRegion, AskToRestore, Tell
<1>5. CASE ReadRegion
    BY <1>5 DEF ReadRegion, Tell, Conflict
<1>6. CASE PublishRestoring
    <2>1. \/ /\ record' \in {record, "RestoringRegion"}
             /\ status' = "preserved" /\ pc' = "reinspect"
          \/ record' = "RestoringRegion" /\ pc' = "writing" /\ status' = status
        BY <1>6, PublishLeaves DEF PublishRestoring
    <2> QED  BY <1>6, <2>1 DEF PublishRestoring
<1>7. CASE WriteRegion
    BY <1>7 DEF WriteRegion
<1>8. CASE ReadBack
    BY <1>8 DEF ReadBack, Tell, Conflict
<1>9. CASE PublishRestored
    <2>1. \/ /\ record' \in {record, "Restored"}
             /\ status' = "preserved" /\ pc' = "reinspect"
          \/ record' = "Restored" /\ pc' = "clearing" /\ status' = status
        BY <1>9, PublishLeaves DEF PublishRestored
    <2> QED  BY <1>9, <2>1 DEF PublishRestored
<1>10. CASE ClearRestored
    BY <1>10 DEF ClearRestored, ClearFails, Tell
<1>11. CASE RecordWithoutOutcome
    <2>1. history' \in BOOLEAN
        BY <1>11, Zenon DEF RecordWithoutOutcome
    <2> QED  BY <1>11, <2>1 DEF RecordWithoutOutcome
<1>12. CASE VerifyOriginal
    BY <1>12 DEF VerifyOriginal, Tell, Conflict
<1>13. CASE ClearWithoutOutcome
    BY <1>13 DEF ClearWithoutOutcome, ClearFails, Tell
<1>14. CASE Reinspect
    <2>1. PICK found \in Findings : Inspected(found) /\ gate' = Admits(found)
                /\ status' = (IF gate' /\ ready THEN "source" ELSE status)
        BY <1>14 DEF Reinspect
    <2>2. record' \in {record, NoRecord} /\ (gate' => record' = NoRecord)
        BY <2>1, InspectedKeeps
    <2>3. gate' \in BOOLEAN
        BY <2>1 DEF Admits
    <2> QED  BY <1>14, <2>1, <2>2, <2>3 DEF Reinspect
<1>15. CASE RegionChanges
    BY <1>15 DEF RegionChanges
<1>16. CASE UNCHANGED vars
    BY <1>16 DEF vars
<1> QED
    BY <1>1, <1>2, <1>3, <1>4, <1>5, <1>6, <1>7, <1>8, <1>9, <1>10, <1>11, <1>12,
       <1>13, <1>14, <1>15, <1>16 DEF Next, Program

\* The induction.
THEOREM Invariance == Init /\ [][Next]_vars => []IInv
<1> QED  BY InitIInv, NextKeepsIInv, PTL

\* A step of the window's parts is a step of the dialogue or leaves it alone.
LEMMA DialogueMoves == ASSUME [PartsNext]_partsVars PROVE [Next]_vars
BY DEF PartsNext, DraftStep, PickedStep, StatusStep, FileStatusStep, ShownStep,
       LayoutStep, DialogueStep, NeedingStep, Rest, partsVars, dialogueVars, vars

\* The dialogue of the start (window.rs) is what it is beside the other parts of
\* the window: whatever render.rs and state.rs do for them, it goes its own way.
THEOREM PartsRunTheDialogue == PartsSpec => Init /\ [][Next]_vars
<1>1. PartsInit => Init
    BY DEF PartsInit
<1>2. [PartsNext]_partsVars => [Next]_vars
    BY DialogueMoves
<1> QED  BY <1>1, <1>2, PTL DEF PartsSpec

\* A new operation is admitted only where no record is published.
THEOREM DialogueAdmitsSafely == PartsSpec => []GateIsSafe
<1>1. IInv => GateIsSafe
    BY DEF IInv
<1> QED  BY <1>1, Invariance, PartsRunTheDialogue, PTL

\* No region is written before the record names the restoration.
THEOREM DialoguePublishesFirst == PartsSpec => []MilestoneBeforeWrite
<1>1. IInv => MilestoneBeforeWrite
    BY DEF IInv
<1> QED  BY <1>1, Invariance, PartsRunTheDialogue, PTL

\* A removal that is told has happened, and a region left alone is.
THEOREM DialogueTellsTheOutcome == PartsSpec => []OutcomeIsTrue
<1>1. IInv => OutcomeIsTrue
    BY DEF IInv
<1> QED  BY <1>1, Invariance, PartsRunTheDialogue, PTL

------------------------------------------------------------------------------
(* The draft.                                                              *)

Drafting == part \in {"draft", "picked draft"}

\* The draft as a whole, whichever of the two parts moves.
DraftInv ==
    /\ Draft!TypeOK
    /\ Draft!CardIsOfDraft
    /\ Draft!WaitsForSomebody
    /\ Draft!VerdictIsOfChosen

\* What the question about the card has come to.
Resolutions ==
    [phase: Draft!Phases, request: Draft!Requests \cup {Draft!NoRequest},
     product: Products \cup {NoProduct}, supported: BOOLEAN]

CardOf(typed) ==
    /\ resolution \in Resolutions
    /\ nextId \in 1 .. MaxRequests + 1
    /\ resolvers \subseteq Draft!Requests
    /\ resolution.product \in {typed, NoProduct}
    /\ resolution.phase \in {"Resolving", "Resolved", "Failed"}
           => resolution.request.id = nextId - 1 /\ resolution.request.product = typed

\* The inspection of a file that is still missing is under way.
FileOf(path) ==
    /\ path \in Paths \cup {NoPath}
    /\ inspected \in [path: Paths \cup {NoPath}, verdict: Draft!Inspections]
    /\ inspecting \in [Paths -> 0 .. 2]
    /\ path # NoPath /\ inspected.path # path => inspecting[path] > 0
    /\ inspected.path \in {NoPath, path}

RestOfDraft ==
    /\ selected \in Draft!Sources /\ text \in Products \cup {Junk}
    /\ draftRegion \in Regions \cup {NoRegion}
    /\ confirmed \in BOOLEAN /\ failed \in BOOLEAN
    /\ download \in Products \cup {NoProduct}
    /\ operation \in [running: BOOLEAN, request: Draft!Requests \cup {Draft!NoRequest}]

Questions ==
    /\ device \in [subject: (Products \cup {NoProduct}) \X (Markets \cup {NoRegion}),
                   verdict: Draft!Verdicts]
    /\ asking \in [Draft!Subjects -> 0 .. 2]

CardIsAwaited ==
    resolution.phase = "Resolving"
        => resolution.request \in resolvers \cup {operation.request}

LEMMA DraftParts ==
    DraftInv <=> CardOf(text) /\ FileOf(chosen) /\ RestOfDraft /\ Questions /\ CardIsAwaited
BY DEF DraftInv, Draft!TypeOK, Draft!CardIsOfDraft, Draft!WaitsForSomebody,
       Draft!VerdictIsOfChosen, Draft!AcceptedProduct, CardOf, FileOf, RestOfDraft,
       Questions, CardIsAwaited, Resolutions

LEMMA DraftConstants ==
    /\ Junk \notin Products /\ NoProduct \notin Products /\ Junk # NoProduct
    /\ Markets \subseteq Regions /\ NoRegion \notin Regions
    /\ fetched \in Paths /\ NoPath \notin Paths /\ MaxRequests \in Nat
BY PartsFit DEF Draft!DraftAssumption

\* A draft that names no product, and one that names one.
LEMMA NothingKnown ==
    /\ Draft!Idle \in Resolutions
    /\ Draft!Idle.phase = "Idle" /\ Draft!Idle.product = NoProduct
    /\ \A product \in Products :
           /\ Draft!Accepted(product) \in Resolutions
           /\ Draft!Accepted(product).phase = "SyntaxAccepted"
           /\ Draft!Accepted(product).product = product
<1>1. /\ Draft!Idle \in Resolutions
      /\ Draft!Idle.phase = "Idle" /\ Draft!Idle.product = NoProduct
    BY DEF Draft!Idle, Resolutions, Draft!Phases
<1>2. ASSUME NEW product \in Products
      PROVE  /\ Draft!Accepted(product) \in Resolutions
             /\ Draft!Accepted(product).phase = "SyntaxAccepted"
             /\ Draft!Accepted(product).product = product
    BY DEF Draft!Accepted, Draft!Idle, Resolutions, Draft!Phases
<1> QED  BY <1>1, <1>2

\* A resolution begins for what is typed now, and somebody will answer it.
LEMMA ResolutionBegins ==
    ASSUME NEW typed \in Products \cup {Junk}, NEW market,
           CardOf(text), Draft!BeginResolutionIfReady(typed, market)
    PROVE  CardOf(typed)' /\ CardIsAwaited'
<1> USE DraftConstants DEF Resolutions, Draft!Phases
<1>1. CASE typed \in Products /\ market \in Markets
    <2> DEFINE request == [id |-> nextId, product |-> typed, market |-> market]
    <2>1. /\ nextId <= MaxRequests
          /\ resolution' = Draft!Begun(request)
          /\ nextId' = nextId + 1
          /\ resolvers' = resolvers \cup {request}
        BY <1>1 DEF Draft!BeginResolutionIfReady
    <2>2. request \in Draft!Requests
        BY <1>1, <2>1 DEF Draft!Requests, CardOf
    <2>3. resolution' = [phase |-> "Resolving", request |-> request,
                         product |-> typed, supported |-> FALSE]
        BY <2>1 DEF Draft!Begun, Draft!Idle
    <2>4. resolution' \in Resolutions
        BY <1>1, <2>2, <2>3
    <2>5. nextId' \in 1 .. MaxRequests + 1 /\ resolvers' \subseteq Draft!Requests
        BY <2>1, <2>2 DEF CardOf
    <2>6. resolution'.request.id = nextId' - 1
        BY <2>1, <2>3 DEF CardOf
    <2>7. resolution'.product = typed /\ resolution'.request.product = typed
        BY <2>3
    <2>8. resolution'.request \in resolvers'
        BY <2>1, <2>3
    <2> QED
        BY <2>4, <2>5, <2>6, <2>7, <2>8 DEF CardOf, CardIsAwaited
<1>2. CASE ~(typed \in Products /\ market \in Markets)
    <2>1. nextId' = nextId /\ resolvers' = resolvers
        BY <1>2 DEF Draft!BeginResolutionIfReady
    <2>2. /\ resolution' \in Resolutions
          /\ resolution'.product \in {typed, NoProduct}
          /\ resolution'.phase \in {"Idle", "SyntaxAccepted"}
        BY <1>2, NothingKnown DEF Draft!BeginResolutionIfReady
    <2> QED
        BY <2>1, <2>2 DEF CardOf, CardIsAwaited
<1> QED  BY <1>1, <1>2

\* A question more is a question of the same kind.
LEMMA DeviceAsked ==
    ASSUME NEW product, NEW market, Questions,
           Draft!AskDeviceCompatibility(product, market)
    PROVE  asking' \in [Draft!Subjects -> 0 .. 2]
BY DEF Draft!AskDeviceCompatibility, Questions

\* Another file is on show, and its inspection begins.
LEMMA FileTaken ==
    ASSUME NEW path \in Paths, CardOf(text), FileOf(chosen), Draft!SelectInstallerStub(path),
           text' = text, nextId' = nextId, resolvers' = resolvers
    PROVE  CardOf(text)' /\ FileOf(chosen)' /\ CardIsAwaited' /\ selected' \in Draft!Sources
<1>1. CardOf(text)' /\ CardIsAwaited' /\ selected' \in Draft!Sources
    BY DEF Draft!SelectInstallerStub, CardOf, CardIsAwaited, Draft!Idle, Resolutions,
           Draft!Phases, Draft!Sources
<1>2. FileOf(chosen)'
    BY DraftConstants DEF Draft!SelectInstallerStub, FileOf, Draft!NoInspection,
           Draft!Inspections
<1> QED  BY <1>1, <1>2

LEMMA DraftInit == Draft!Init => DraftInv
<1> SUFFICES ASSUME Draft!Init PROVE DraftInv
    OBVIOUS
<1> USE DraftConstants DEF Draft!Init
<1>1. CardOf(text)
    BY NothingKnown DEF CardOf
<1>2. FileOf(chosen)
    BY DEF FileOf, Draft!NoInspection, Draft!Inspections
<1>3. RestOfDraft
    BY DEF RestOfDraft, Draft!Sources
<1>4. Questions
    BY DEF Questions, Draft!Verdicts
<1>5. CardIsAwaited
    BY DEF CardIsAwaited, Draft!Idle, Draft!Accepted
<1> QED  BY <1>1, <1>2, <1>3, <1>4, <1>5, DraftParts

\* A question that is answered is still there once more or no more.
LEMMA OneLess ==
    ASSUME NEW S, NEW f \in [S -> 0 .. 2], NEW x \in S, f[x] > 0
    PROVE  [f EXCEPT ![x] = @ - 1] \in [S -> 0 .. 2]
OBVIOUS

\* What the user does.
LEMMA UserKeepsDraft == ASSUME DraftInv, Draft!User PROVE DraftInv'
<1> USE DraftConstants
<1>0. CardOf(text) /\ FileOf(chosen) /\ RestOfDraft /\ Questions /\ CardIsAwaited
    BY DraftParts
<1>1. CASE \E typed \in Products \cup {Junk} : Draft!SetStoreText(typed)
    <2>1. PICK typed \in Products \cup {Junk} : Draft!SetStoreText(typed)
        BY <1>1
    <2>2. CardOf(typed)' /\ CardIsAwaited'
        <3>1. PICK market : market = draftRegion
            OBVIOUS
        <3> QED  BY <1>0, <2>1, <3>1, ResolutionBegins DEF Draft!SetStoreText
    <2>3. asking' \in [Draft!Subjects -> 0 .. 2]
        <3>1. PICK market : market = draftRegion
            OBVIOUS
        <3> QED  BY <1>0, <2>1, <3>1, DeviceAsked DEF Draft!SetStoreText
    <2>4. FileOf(chosen)' /\ RestOfDraft' /\ Questions'
        BY <1>0, <2>1, <2>3 DEF Draft!SetStoreText, Draft!work, FileOf, RestOfDraft,
           Questions, Draft!Sources
    <2>5. CardOf(text)'
        BY <2>1, <2>2 DEF Draft!SetStoreText, CardOf
    <2> QED  BY <2>2, <2>4, <2>5, DraftParts, PTL
<1>2. CASE \E choice \in Regions \cup {NoRegion} : Draft!SelectTemporaryRegion(choice)
    <2>1. PICK choice \in Regions \cup {NoRegion} : Draft!SelectTemporaryRegion(choice)
        BY <1>2
    <2>2. PICK typed \in Products \cup {Junk} : typed = text
        BY <1>0 DEF RestOfDraft
    <2>3. CardOf(typed)' /\ CardIsAwaited'
        BY <1>0, <2>1, <2>2, ResolutionBegins DEF Draft!SelectTemporaryRegion
    <2>4. asking' \in [Draft!Subjects -> 0 .. 2]
        <3>1. PICK product : product = Draft!SearchableProduct
            OBVIOUS
        <3> QED  BY <1>0, <2>1, <3>1, DeviceAsked DEF Draft!SelectTemporaryRegion
    <2>5. FileOf(chosen)' /\ RestOfDraft' /\ Questions' /\ text' = text
        BY <1>0, <2>1, <2>4 DEF Draft!SelectTemporaryRegion, Draft!work, Draft!source,
           FileOf, RestOfDraft, Questions
    <2>6. CardOf(text)'
        BY <2>2, <2>3, <2>5 DEF CardOf
    <2> QED  BY <2>3, <2>5, <2>6, DraftParts, PTL
<1>3. CASE Draft!SelectSource
    <2>1. CardOf(text)' /\ CardIsAwaited'
        BY <1>0, <1>3 DEF Draft!SelectSource, Draft!resolving, Draft!work, CardOf,
           CardIsAwaited
    <2>2. FileOf(chosen)' /\ RestOfDraft' /\ Questions'
        BY <1>0, <1>3 DEF Draft!SelectSource, Draft!work, FileOf, RestOfDraft, Questions
    <2> QED  BY <2>1, <2>2, DraftParts, PTL
<1>4. CASE Draft!DispatchFileCandidate
    <2>1. PICK path \in Paths : Draft!SelectInstallerStub(path)
        BY <1>4 DEF Draft!DispatchFileCandidate
    <2>2. CardOf(text)' /\ FileOf(chosen)' /\ CardIsAwaited' /\ selected' \in Draft!Sources
        BY <1>0, <1>4, <2>1, FileTaken DEF Draft!DispatchFileCandidate
    <2>3. RestOfDraft' /\ Questions'
        BY <1>0, <1>4, <2>2 DEF Draft!DispatchFileCandidate, Draft!work, RestOfDraft, Questions
    <2> QED  BY <2>2, <2>3, DraftParts, PTL
<1>5. CASE Draft!ClearFile
    <2>1. CardOf(text)' /\ CardIsAwaited'
        BY <1>0, <1>5 DEF Draft!ClearFile, Draft!Idle, CardOf, CardIsAwaited, Resolutions,
           Draft!Phases
    <2>2. FileOf(chosen)'
        BY <1>0, <1>5 DEF Draft!ClearFile, Draft!NoInspection, Draft!Inspections, FileOf
    <2>3. RestOfDraft' /\ Questions'
        BY <1>0, <1>5 DEF Draft!ClearFile, Draft!work, Draft!Sources, RestOfDraft, Questions
    <2> QED  BY <2>1, <2>2, <2>3, DraftParts, PTL
<1>6. CASE Draft!BeginInstallation
    <2> DEFINE request == [id |-> nextId, product |-> resolution.product,
                           market |-> draftRegion]
    <2>1. /\ nextId <= MaxRequests /\ draftRegion \in Markets
          /\ resolution.product # NoProduct
          /\ resolution' = Draft!Begun(request)
          /\ operation' = [running |-> TRUE, request |-> request]
          /\ nextId' = nextId + 1
        BY <1>6 DEF Draft!BeginInstallation, Draft!InstallIsAvailable, Draft!AcceptedProduct
    <2>2. resolution.product = text /\ text \in Products
        BY <1>0, <2>1 DEF CardOf, Resolutions
    <2>3. request \in Draft!Requests
        BY <1>0, <2>1, <2>2 DEF CardOf, Draft!Requests
    <2>4. resolution' = [phase |-> "Resolving", request |-> request, product |-> text,
                         supported |-> FALSE]
        BY <2>1, <2>2 DEF Draft!Begun, Draft!Idle
    <2>5. /\ text' = text /\ resolvers' = resolvers
          /\ FileOf(chosen)' /\ Questions'
        BY <1>0, <1>6 DEF Draft!BeginInstallation, Draft!source, FileOf, Questions
    <2>6. resolution' \in Resolutions
        BY <2>2, <2>3, <2>4 DEF Resolutions, Draft!Phases
    <2>7. nextId' \in 1 .. MaxRequests + 1 /\ resolution'.request.id = nextId' - 1
        BY <1>0, <2>1, <2>4 DEF CardOf
    <2>8. resolution'.product = text' /\ resolution'.request.product = text'
        BY <2>2, <2>4, <2>5
    <2>9. CardOf(text)'
        BY <1>0, <2>5, <2>6, <2>7, <2>8 DEF CardOf
    <2>10. CardIsAwaited'
        BY <2>1, <2>4 DEF CardIsAwaited
    <2>11. RestOfDraft'
        BY <1>0, <1>6, <2>1, <2>3 DEF Draft!BeginInstallation, Draft!source, RestOfDraft
    <2> QED  BY <2>5, <2>9, <2>10, <2>11, DraftParts, PTL
<1>7. CASE Draft!BeginInstallerDownload
    <2>1. CardOf(text)' /\ CardIsAwaited'
        BY <1>0, <1>7 DEF Draft!BeginInstallerDownload, Draft!resolving, Draft!source, CardOf,
           CardIsAwaited
    <2>2. FileOf(chosen)' /\ Questions'
        BY <1>0, <1>7 DEF Draft!BeginInstallerDownload, Draft!source, FileOf, Questions
    <2>3. RestOfDraft'
        BY <1>0, <1>7 DEF Draft!BeginInstallerDownload, Draft!source, RestOfDraft, CardOf,
           Resolutions, Draft!AcceptedProduct
    <2> QED  BY <2>1, <2>2, <2>3, DraftParts, PTL
<1> QED  BY <1>1, <1>2, <1>3, <1>4, <1>5, <1>6, <1>7 DEF Draft!User

\* What the threads answer.
LEMMA AnswersKeepDraft == ASSUME DraftInv, Draft!Answers PROVE DraftInv'
<1> USE DraftConstants
<1>0. CardOf(text) /\ FileOf(chosen) /\ RestOfDraft /\ Questions /\ CardIsAwaited
    BY DraftParts
<1>1. CASE \E path \in Paths : Draft!StubInspected(path)
    <2>1. PICK path \in Paths : Draft!StubInspected(path)
        BY <1>1
    <2>2. /\ selected' = selected /\ text' = text /\ chosen' = chosen
          /\ draftRegion' = draftRegion /\ nextId' = nextId /\ resolvers' = resolvers
          /\ confirmed' = confirmed /\ device' = device /\ asking' = asking
          /\ download' = download /\ operation' = operation /\ failed' = failed
        BY <2>1 DEF Draft!StubInspected, Draft!work
    <2>3. resolution' \in {resolution, Draft!Idle}
        BY <2>1 DEF Draft!StubInspected
    <2>4. CardOf(text)' /\ CardIsAwaited'
        BY <1>0, <2>2, <2>3, NothingKnown DEF CardOf, CardIsAwaited
    <2>5. inspecting' \in [Paths -> 0 .. 2]
        BY <1>0, <2>1, OneLess DEF Draft!StubInspected, FileOf
    <2>6. FileOf(chosen)'
        <3>1. CASE chosen = path
            <4>1. PICK v \in Draft!Inspections : inspected' = [path |-> path, verdict |-> v]
                BY <2>1, <3>1 DEF Draft!StubInspected
            <4> QED  BY <1>0, <2>2, <2>5, <3>1, <4>1 DEF FileOf
        <3>2. CASE chosen # path
            <4>1. inspected' = inspected /\ inspecting' = [inspecting EXCEPT ![path] = @ - 1]
                BY <2>1, <3>2 DEF Draft!StubInspected
            <4> QED  BY <1>0, <2>2, <2>5, <3>2, <4>1 DEF FileOf
        <3> QED  BY <3>1, <3>2
    <2>7. RestOfDraft' /\ Questions'
        BY <1>0, <2>2 DEF RestOfDraft, Questions
    <2> QED  BY <2>4, <2>6, <2>7, DraftParts, PTL
<1>2. CASE \E request \in resolvers : Draft!ProductResolved(request)
    <2>1. PICK request \in resolvers : Draft!ProductResolved(request)
        BY <1>2
    <2>2. /\ FileOf(chosen)' /\ Questions' /\ text' = text /\ nextId' = nextId
          /\ operation' = operation /\ resolvers' = resolvers \ {request}
        BY <1>0, <2>1 DEF Draft!ProductResolved, Draft!source, Draft!work, FileOf, Questions
    <2>3. CASE ~Draft!IsActive(request)
        <3>1. resolution' = resolution /\ confirmed' = confirmed
            BY <2>1, <2>3 DEF Draft!ProductResolved
        <3>2. CardOf(text)' /\ CardIsAwaited'
            BY <1>0, <2>2, <2>3, <3>1 DEF CardOf, CardIsAwaited, Draft!IsActive
        <3>3. RestOfDraft'
            BY <1>0, <2>1, <3>1 DEF Draft!ProductResolved, Draft!source, Draft!work, RestOfDraft
        <3> QED  BY <2>2, <3>2, <3>3, DraftParts, PTL
    <2>4. CASE Draft!IsActive(request)
        <3>1. /\ resolution.phase = "Resolving" /\ resolution.request = request
              /\ Draft!Complete(request) /\ confirmed' = resolution'.supported
            BY <2>1, <2>4 DEF Draft!ProductResolved, Draft!IsActive
        <3>2. request \in Draft!Requests /\ request.product = text /\ text \in Products
            BY <1>0, <3>1 DEF CardOf, Draft!Requests
        <3>3. PICK phase \in {"Failed", "Resolved"}, product \in {resolution.product, text},
                   supported \in BOOLEAN :
              resolution' = [phase |-> phase, request |-> request, product |-> product,
                             supported |-> supported]
            <4>1. resolution = [phase |-> "Resolving", request |-> request,
                                product |-> resolution.product,
                                supported |-> resolution.supported]
                BY <1>0, <3>1 DEF CardOf, Resolutions
            <4>2. resolution.supported \in BOOLEAN
                BY <1>0 DEF CardOf, Resolutions
            <4> QED  BY <3>1, <3>2, <4>1, <4>2 DEF Draft!Complete
        <3>4. resolution' \in Resolutions /\ confirmed' \in BOOLEAN
            BY <1>0, <3>1, <3>2, <3>3 DEF CardOf, Resolutions, Draft!Phases
        <3>5. CardOf(text)' /\ CardIsAwaited'
            BY <1>0, <2>2, <3>1, <3>2, <3>3, <3>4 DEF CardOf, CardIsAwaited
        <3>6. RestOfDraft'
            BY <1>0, <2>1, <3>4 DEF Draft!ProductResolved, Draft!source, Draft!work, RestOfDraft
        <3> QED  BY <2>2, <3>5, <3>6, DraftParts, PTL
    <2> QED  BY <2>3, <2>4
<1>3. CASE \E subject \in Draft!Subjects : Draft!DeviceAnswered(subject)
    <2>1. PICK subject \in Draft!Subjects : Draft!DeviceAnswered(subject)
        BY <1>3
    <2>2. CardOf(text)' /\ FileOf(chosen)' /\ RestOfDraft' /\ CardIsAwaited'
        BY <1>0, <2>1 DEF Draft!DeviceAnswered, Draft!source, Draft!resolving, Draft!work,
           CardOf, FileOf, RestOfDraft, CardIsAwaited
    <2>3. asking' \in [Draft!Subjects -> 0 .. 2]
        BY <1>0, <2>1, OneLess DEF Draft!DeviceAnswered, Questions
    <2>4. Questions'
        BY <1>0, <2>1, <2>3 DEF Draft!DeviceAnswered, Questions, Draft!Subjects
    <2> QED  BY <2>2, <2>4, DraftParts, PTL
<1>4. CASE Draft!OperationResolved
    <2>1. PICK b \in BOOLEAN : resolution' = [resolution EXCEPT !.phase = "Resolved",
                                                                !.supported = b]
        BY <1>4 DEF Draft!OperationResolved
    <2>2. resolution.phase = "Resolving"
        BY <1>4 DEF Draft!OperationResolved, Draft!IsActive
    <2>3. /\ resolution' \in Resolutions
          /\ resolution'.phase = "Resolved"
          /\ resolution'.request = resolution.request
          /\ resolution'.product = resolution.product
        BY <1>0, <2>1 DEF CardOf, Resolutions, Draft!Phases
    <2>4. CardOf(text)' /\ CardIsAwaited'
        BY <1>0, <1>4, <2>2, <2>3 DEF Draft!OperationResolved, Draft!source, CardOf,
           CardIsAwaited
    <2>5. FileOf(chosen)' /\ RestOfDraft' /\ Questions'
        BY <1>0, <1>4 DEF Draft!OperationResolved, Draft!source, Draft!work, FileOf,
           RestOfDraft, Questions
    <2> QED  BY <2>4, <2>5, DraftParts, PTL
<1>5. CASE Draft!OperationEnds
    <2>1. /\ operation' = [operation EXCEPT !.running = FALSE]
          /\ failed' \in BOOLEAN
        BY <1>5, Zenon DEF Draft!OperationEnds
    <2>2. CardOf(text)' /\ FileOf(chosen)' /\ Questions'
        BY <1>0, <1>5 DEF Draft!OperationEnds, Draft!source, Draft!resolving, CardOf, FileOf,
           Questions
    <2>3. CardIsAwaited'
        BY <1>0, <1>5, <2>1 DEF Draft!OperationEnds, Draft!resolving, CardIsAwaited, RestOfDraft
    <2>4. RestOfDraft'
        BY <1>0, <1>5, <2>1 DEF Draft!OperationEnds, Draft!source, RestOfDraft
    <2> QED  BY <2>2, <2>3, <2>4, DraftParts, PTL
<1>6. CASE Draft!InstallerDownloaded
    <2>1. /\ text' = text /\ draftRegion' = draftRegion /\ nextId' = nextId
          /\ resolvers' = resolvers /\ operation' = operation
          /\ confirmed' = confirmed /\ failed' = failed
          /\ download' = NoProduct /\ Questions'
        BY <1>0, <1>6 DEF Draft!InstallerDownloaded, Questions
    <2>2. CardOf(text)' /\ FileOf(chosen)' /\ CardIsAwaited' /\ selected' \in Draft!Sources
        <3>1. CASE Draft!SelectInstallerStub(fetched)
            BY <1>0, <2>1, <3>1, FileTaken
        <3>2. CASE UNCHANGED <<selected, chosen, inspected, resolution, inspecting>>
            BY <1>0, <2>1, <3>2 DEF CardOf, FileOf, CardIsAwaited, RestOfDraft
        <3> QED  BY <1>6, <3>1, <3>2 DEF Draft!InstallerDownloaded
    <2>3. RestOfDraft'
        BY <1>0, <2>1, <2>2 DEF RestOfDraft
    <2> QED  BY <2>1, <2>2, <2>3, DraftParts, PTL
<1>7. CASE Draft!KeepSelectionReachable
    <2>1. draftRegion' \in Regions
        BY <1>7 DEF Draft!KeepSelectionReachable
    <2>2. CardOf(text)' /\ FileOf(chosen)' /\ Questions' /\ CardIsAwaited'
        BY <1>0, <1>7 DEF Draft!KeepSelectionReachable, Draft!source, Draft!resolving,
           Draft!work, CardOf, FileOf, Questions, CardIsAwaited
    <2>3. RestOfDraft'
        BY <1>0, <1>7, <2>1 DEF Draft!KeepSelectionReachable, Draft!source, Draft!work,
           RestOfDraft
    <2> QED  BY <2>2, <2>3, DraftParts, PTL
<1> QED  BY <1>1, <1>2, <1>3, <1>4, <1>5, <1>6, <1>7 DEF Draft!Answers

\* Nothing else moves the draft.
LEMMA DraftRests == ASSUME DraftInv, UNCHANGED draftVars PROVE DraftInv'
<1>1. CardOf(text) /\ FileOf(chosen) /\ RestOfDraft /\ Questions /\ CardIsAwaited
    BY DraftParts
<1>2. CardOf(text)' /\ FileOf(chosen)'
    BY <1>1 DEF draftVars, CardOf, FileOf
<1>3. RestOfDraft' /\ Questions' /\ CardIsAwaited'
    BY <1>1 DEF draftVars, RestOfDraft, Questions, CardIsAwaited
<1> QED  BY <1>2, <1>3, DraftParts, PTL

LEMMA DraftStepKeepsInv == ASSUME DraftInv, [Draft!Next]_draftVars PROVE DraftInv'
<1>1. CASE Draft!Next
    BY <1>1, UserKeepsDraft, AnswersKeepDraft DEF Draft!Next
<1>2. CASE UNCHANGED draftVars
    BY <1>2, DraftRests
<1> QED  BY <1>1, <1>2

\* A stored answer is replaced by an answer to the same question only.
LEMMA DraftAnswerStays == ASSUME DraftInv, Draft!Next PROVE Draft!AnswerStays
<1> USE DEF Draft!AnswerStays, Draft!DeviceIsCurrent, Draft!AcceptedProduct
<1>1. CASE device' = device
    BY <1>1
<1>2. CASE \E subject \in Draft!Subjects : Draft!DeviceAnswered(subject)
    <2>1. PICK subject \in Draft!Subjects : Draft!DeviceAnswered(subject)
        BY <1>2
    <2>2. CASE Draft!AsksAbout(subject)
        <3>1. subject = <<resolution.product, draftRegion>>
            BY <2>2 DEF Draft!AsksAbout, Draft!Subjects
        <3> QED  BY <2>1, <2>2, <3>1 DEF Draft!DeviceAnswered
    <2>3. CASE ~Draft!AsksAbout(subject)
        BY <2>1, <2>3, <1>1 DEF Draft!DeviceAnswered
    <2> QED  BY <2>2, <2>3
<1>3. (~\E subject \in Draft!Subjects : Draft!DeviceAnswered(subject)) => device' = device
    <2>1. Draft!User => device' = device
        BY DEF Draft!User, Draft!SetStoreText, Draft!SelectTemporaryRegion, Draft!SelectSource,
           Draft!DispatchFileCandidate, Draft!ClearFile, Draft!BeginInstallation,
           Draft!BeginInstallerDownload
    <2>2. Draft!Answers /\ (~\E subject \in Draft!Subjects : Draft!DeviceAnswered(subject))
              => device' = device
        BY DEF Draft!Answers, Draft!StubInspected, Draft!ProductResolved,
           Draft!OperationResolved, Draft!OperationEnds, Draft!InstallerDownloaded,
           Draft!KeepSelectionReachable
    <2> QED  BY <2>1, <2>2 DEF Draft!Next
<1> QED  BY <1>1, <1>2, <1>3

LEMMA DraftMoves ==
    ASSUME [PartsNext]_partsVars
    PROVE  part' = part /\ (Drafting => [Draft!Next]_draftVars)
BY DEF PartsNext, DraftStep, PickedStep, StatusStep, FileStatusStep, ShownStep,
       LayoutStep, DialogueStep, NeedingStep, Rest, Turn, partsVars, Drafting

(* What an operation would install is what the text says, and what the     *)
(* window waits for is on its way; a verdict is of the file now chosen,    *)
(* and a late answer never makes a known verdict unknown again, whatever   *)
(* products, regions and files there are and however many resolutions      *)
(* were begun (resolve.rs:280, command.rs:933, window.rs:1030, :1283).     *)
THEOREM DraftHolds == PartsSpec => DraftIsTrue
<1> DEFINE Inv == Drafting => DraftInv
           Stays == part \in {"draft", "picked draft"} => Draft!AnswerStays
<1>1. PartsInit => Inv
    BY DraftInit DEF PartsInit, Drafting
<1>2. Inv /\ [PartsNext]_partsVars => Inv'
    BY DraftMoves, DraftStepKeepsInv DEF Drafting
<1>3. Inv => /\ part = "draft" => /\ Draft!TypeOK
                                  /\ Draft!CardIsOfDraft /\ Draft!WaitsForSomebody
             /\ part \in {"draft", "picked draft"} => Draft!VerdictIsOfChosen
    BY DEF Drafting, DraftInv
<1>4. Inv /\ [PartsNext]_partsVars => [Stays]_draftVars
    BY DraftMoves, DraftAnswerStays DEF Drafting
<1> QED
    BY <1>1, <1>2, <1>3, <1>4, PTL DEF PartsSpec, DraftIsTrue

------------------------------------------------------------------------------
(* The prerequisites.                                                      *)

\* What an answer says was so at some time of this process.
AnswerIsGrounded(found) ==
    /\ \A p \in Needing!Packages :
           /\ found[p] = "Satisfied" => p \in everHad
           /\ found[p] = "Missing" => p \in everLacked
    /\ found["ComMetadata"] = "Missing" => refusedOnce /\ "AppInstaller" \in everHad

NeedsTyped ==
    /\ installed \subseteq Needing!Packages /\ writable \in BOOLEAN
    /\ file \in {"absent", "partial", "whole"}
    /\ at \in [Needing!Actors -> Needing!Steps]
    /\ answer \in [Needing!Actors -> [Needing!Needs -> Needing!States]]
    /\ report \in [Needing!Needs -> Needing!States]
    /\ everHad \subseteq Needing!Packages /\ everLacked \subseteq Needing!Packages
    /\ together \in BOOLEAN /\ refusedOnce \in BOOLEAN
    /\ changes \in 0 .. MaxChanges /\ checks \in 0 .. MaxChecks
    /\ restarts \in 0 .. MaxRestarts

\* One copy at a time has the file open, and it is not whole meanwhile.
OneCopy ==
    /\ \A a, b \in Needing!Actors : at[a] = "copied" /\ at[b] = "copied" => a = b
    /\ (\E a \in Needing!Actors : at[a] = "copied") => file = "partial"

History ==
    /\ installed \subseteq everHad /\ Needing!Packages \ installed \subseteq everLacked
    /\ \A a \in Needing!Actors : at[a] = "copying" => "AppInstaller" \in everHad

Grounded ==
    /\ \A a \in Needing!Actors : AnswerIsGrounded(answer[a])
    /\ AnswerIsGrounded(report)

NeedsInv == NeedsTyped /\ OneCopy /\ History /\ Grounded

LEMMA NeedsConstants == MaxChanges \in Nat /\ MaxChecks \in Nat /\ MaxRestarts \in Nat
BY PartsFit DEF Needing!BoundAssumption

LEMMA NothingIsKnown ==
    /\ Needing!Unchecked \in [Needing!Needs -> Needing!States]
    /\ AnswerIsGrounded(Needing!Unchecked)
BY DEF Needing!Unchecked, Needing!States, Needing!Needs, Needing!Packages, AnswerIsGrounded

LEMMA NeedsInit == Needing!Init => NeedsInv
<1> SUFFICES ASSUME Needing!Init PROVE NeedsInv
    OBVIOUS
<1>1. NeedsTyped
    <2>1. together \in BOOLEAN /\ refusedOnce \in BOOLEAN /\ writable \in BOOLEAN
        BY Zenon DEF Needing!Init
    <2>2. /\ at \in [Needing!Actors -> Needing!Steps]
          /\ answer \in [Needing!Actors -> [Needing!Needs -> Needing!States]]
          /\ report \in [Needing!Needs -> Needing!States]
        BY NothingIsKnown DEF Needing!Init, Needing!Steps
    <2>3. /\ installed \subseteq Needing!Packages /\ everHad \subseteq Needing!Packages
          /\ everLacked \subseteq Needing!Packages
          /\ file \in {"absent", "partial", "whole"}
        BY DEF Needing!Init
    <2>4. /\ changes \in 0 .. MaxChanges /\ checks \in 0 .. MaxChecks
          /\ restarts \in 0 .. MaxRestarts
        BY NeedsConstants DEF Needing!Init
    <2> QED  BY <2>1, <2>2, <2>3, <2>4 DEF NeedsTyped
<1>2. OneCopy /\ History
    BY DEF OneCopy, History, Needing!Actors, Needing!Init
<1>3. Grounded
    BY NothingIsKnown DEF Grounded, Needing!Init
<1> QED  BY <1>1, <1>2, <1>3 DEF NeedsInv

\* An actor goes on, and may have found something by then.
Moves(a, next, found) ==
    /\ at' = [at EXCEPT ![a] = next]
    /\ answer' = [answer EXCEPT ![a] = found]

MachineStays ==
    /\ installed' = installed /\ everHad' = everHad /\ everLacked' = everLacked
    /\ together' = together /\ changes' = changes /\ writable' = writable
    /\ report' = report /\ checks' = checks /\ restarts' = restarts

LEMMA MoveKeeps ==
    ASSUME NeedsInv, NEW a \in Needing!Actors, NEW next \in Needing!Steps,
           NEW found \in [Needing!Needs -> Needing!States],
           Moves(a, next, found), MachineStays,
           file' \in {"absent", "partial", "whole"}, refusedOnce' \in BOOLEAN,
           refusedOnce => refusedOnce',
           AnswerIsGrounded(found)',
           next = "copying" => "AppInstaller" \in everHad,
           OneCopy'
    PROVE  NeedsInv'
<1> USE DEF NeedsInv, Moves, MachineStays
<1>1. NeedsTyped'
    BY DEF NeedsTyped
<1>2. History'
    BY DEF History, NeedsTyped
<1>3. Grounded'
    <2>1. AnswerIsGrounded(report)'
        BY DEF Grounded, AnswerIsGrounded
    <2>2. ASSUME NEW b \in Needing!Actors, b # a PROVE AnswerIsGrounded(answer[b])'
        BY <2>2 DEF Grounded, AnswerIsGrounded, NeedsTyped
    <2>3. answer'[a] = found
        BY DEF NeedsTyped
    <2>4. AnswerIsGrounded(answer[a])'
        BY <2>3 DEF AnswerIsGrounded
    <2> QED  BY <2>1, <2>2, <2>4 DEF Grounded
<1> QED  BY <1>1, <1>2, <1>3

\* What has the file open goes on having it.
LEMMA CopyGoesOn ==
    ASSUME NeedsInv, NEW a \in Needing!Actors, NEW next \in Needing!Steps \ {"copied"},
           at' = [at EXCEPT ![a] = next],
           \/ file' = file
           \/ at[a] = "copied"
    PROVE  OneCopy'
BY DEF NeedsInv, OneCopy, NeedsTyped

\* What has been found of a need joins what was known.
LEMMA OneMore ==
    ASSUME NEW old \in [Needing!Needs -> Needing!States], AnswerIsGrounded(old),
           NEW n \in Needing!Needs, NEW found \in Needing!States,
           everHad' = everHad, everLacked' = everLacked, refusedOnce => refusedOnce',
           n \in Needing!Packages /\ found = "Satisfied" => n \in everHad,
           n \in Needing!Packages /\ found = "Missing" => n \in everLacked,
           n = "ComMetadata" /\ found = "Missing"
               => refusedOnce' /\ "AppInstaller" \in everHad,
           NEW new, new = [old EXCEPT ![n] = found]
    PROVE  new \in [Needing!Needs -> Needing!States] /\ AnswerIsGrounded(new)'
<1>1. new \in [Needing!Needs -> Needing!States] /\ new[n] = found
    OBVIOUS
<1>2. \A m \in Needing!Needs \ {n} : new[m] = old[m]
    OBVIOUS
<1>3. ASSUME NEW p \in Needing!Packages
      PROVE  /\ new[p] = "Satisfied" => p \in everHad'
             /\ new[p] = "Missing" => p \in everLacked'
    BY <1>1, <1>2, <1>3 DEF AnswerIsGrounded, Needing!Needs
<1>4. new["ComMetadata"] = "Missing" => refusedOnce' /\ "AppInstaller" \in everHad'
    BY <1>1, <1>2 DEF AnswerIsGrounded, Needing!Needs
<1> QED  BY <1>1, <1>3, <1>4 DEF AnswerIsGrounded

\* An actor finds one thing and goes on, or goes on without.
LEMMA FindKeeps ==
    ASSUME NeedsInv, NEW a \in Needing!Actors, NEW next \in Needing!Steps,
           NEW n \in Needing!Needs, NEW found \in Needing!States,
           answer' = [answer EXCEPT ![a][n] = found], at' = [at EXCEPT ![a] = next],
           MachineStays, file' \in {"absent", "partial", "whole"},
           refusedOnce' \in BOOLEAN, refusedOnce => refusedOnce',
           n \in Needing!Packages /\ found = "Satisfied" => n \in everHad,
           n \in Needing!Packages /\ found = "Missing" => n \in everLacked,
           n = "ComMetadata" /\ found = "Missing"
               => refusedOnce' /\ "AppInstaller" \in everHad,
           next # "copying", OneCopy'
    PROVE  NeedsInv'
<1>1. PICK old : old = answer[a]
    OBVIOUS
<1>2. old \in [Needing!Needs -> Needing!States] /\ AnswerIsGrounded(old)
    BY <1>1 DEF NeedsInv, NeedsTyped, Grounded
<1>3. PICK new : new = [old EXCEPT ![n] = found]
    OBVIOUS
<1>4. new \in [Needing!Needs -> Needing!States] /\ AnswerIsGrounded(new)'
    BY <1>2, <1>3, OneMore DEF MachineStays
<1>5. Moves(a, next, new)
    BY <1>1, <1>3 DEF Moves
<1> QED  BY <1>4, <1>5, MoveKeeps

\* An actor goes on and has found nothing new.
LEMMA PassKeeps ==
    ASSUME NeedsInv, NEW a \in Needing!Actors, NEW next \in Needing!Steps,
           answer' = answer, at' = [at EXCEPT ![a] = next],
           MachineStays, file' \in {"absent", "partial", "whole"},
           refusedOnce' = refusedOnce,
           next = "copying" => "AppInstaller" \in everHad, OneCopy'
    PROVE  NeedsInv'
<1>1. PICK old : old = answer[a]
    OBVIOUS
<1>2. old \in [Needing!Needs -> Needing!States] /\ AnswerIsGrounded(old)'
    BY <1>1 DEF NeedsInv, NeedsTyped, Grounded, MachineStays, AnswerIsGrounded
<1>3. Moves(a, next, old)
    BY <1>1 DEF Moves, NeedsInv, NeedsTyped
<1>4. refusedOnce' \in BOOLEAN
    BY DEF NeedsInv, NeedsTyped
<1> QED  BY <1>2, <1>3, <1>4, MoveKeeps

\* The user's hand, and what begins.
LEMMA ChangeKeeps ==
    ASSUME NeedsInv, NEW p \in Needing!Packages, Needing!Change(p) PROVE NeedsInv'
<1> USE DEF NeedsInv, Needing!Change
<1>1. together' \in BOOLEAN
    BY Zenon
<1>2. /\ installed' \subseteq Needing!Packages /\ everHad' \subseteq Needing!Packages
      /\ everLacked' \subseteq Needing!Packages
      /\ everHad \subseteq everHad' /\ everLacked \subseteq everLacked'
      /\ installed' \subseteq everHad' /\ Needing!Packages \ installed' \subseteq everLacked'
    BY DEF NeedsTyped
<1>3. changes' \in 0 .. MaxChanges
    BY NeedsConstants DEF NeedsTyped
<1>4. /\ writable' = writable /\ file' = file /\ at' = at /\ answer' = answer
      /\ report' = report /\ refusedOnce' = refusedOnce /\ checks' = checks
      /\ restarts' = restarts
    OBVIOUS
<1>5. NeedsTyped'
    BY <1>1, <1>2, <1>3, <1>4 DEF NeedsTyped
<1>6. OneCopy' /\ History'
    BY <1>2, <1>4 DEF OneCopy, History
<1>7. Grounded'
    BY <1>2, <1>4 DEF Grounded, AnswerIsGrounded
<1> QED  BY <1>5, <1>6, <1>7

LEMMA BeginsChecking ==
    ASSUME NeedsInv, Needing!Recheck \/ Needing!Connect PROVE NeedsInv'
<1>1. PICK a \in Needing!Actors, next \in {"installer", "looking"} :
          at' = [at EXCEPT ![a] = next]
    BY DEF Needing!Recheck, Needing!Connect, Needing!Actors, Needing!Checkers
<1>2. /\ checks' \in 0 .. MaxChecks
      /\ installed' = installed /\ everHad' = everHad /\ everLacked' = everLacked
      /\ together' = together /\ changes' = changes /\ writable' = writable
      /\ report' = report /\ restarts' = restarts /\ file' = file
      /\ answer' = answer /\ refusedOnce' = refusedOnce
    BY NeedsConstants DEF Needing!Recheck, Needing!Connect, Needing!machine, NeedsInv, NeedsTyped
<1>3. OneCopy'
    BY <1>1, <1>2, CopyGoesOn DEF Needing!Steps
<1>4. NeedsTyped'
    BY <1>1, <1>2 DEF NeedsInv, NeedsTyped, Needing!Steps
<1>5. History' /\ Grounded'
    BY <1>1, <1>2 DEF NeedsInv, NeedsTyped, History, Grounded, AnswerIsGrounded
<1> QED  BY <1>3, <1>4, <1>5 DEF NeedsInv

LEMMA ReportKeeps ==
    ASSUME NeedsInv, Needing!StartupChecked \/ Needing!Rechecked \/ Needing!Activate
    PROVE  NeedsInv'
<1>1. PICK a \in Needing!Actors : at' = [at EXCEPT ![a] = "none"]
    BY DEF Needing!StartupChecked, Needing!Rechecked, Needing!Activate, Needing!Actors,
           Needing!Checkers
<1>2. /\ checks' = checks
      /\ installed' = installed /\ everHad' = everHad /\ everLacked' = everLacked
      /\ together' = together /\ changes' = changes /\ writable' = writable
      /\ restarts' = restarts /\ file' = file
      /\ answer' = answer /\ refusedOnce' = refusedOnce
    BY DEF Needing!StartupChecked, Needing!Rechecked, Needing!Activate, Needing!machine
<1>3. report' = report \/ \E b \in Needing!Actors : report' = answer[b]
    BY DEF Needing!StartupChecked, Needing!Rechecked, Needing!Activate, Needing!Actors,
           Needing!Checkers
<1>4. OneCopy'
    BY <1>1, <1>2, CopyGoesOn DEF Needing!Steps
<1>5. NeedsTyped'
    BY <1>1, <1>2, <1>3 DEF NeedsInv, NeedsTyped, Needing!Steps
<1>6. History'
    BY <1>1, <1>2 DEF NeedsInv, NeedsTyped, History
<1>7. Grounded'
    BY <1>2, <1>3 DEF NeedsInv, Grounded, AnswerIsGrounded
<1> QED  BY <1>4, <1>5, <1>6, <1>7 DEF NeedsInv

LEMMA RestartKeeps == ASSUME NeedsInv, Needing!Restart PROVE NeedsInv'
<1> USE DEF Needing!Restart
<1>1. NeedsTyped'
    <2>1. together' \in BOOLEAN /\ refusedOnce' \in BOOLEAN
        BY Zenon
    <2>2. restarts' \in 0 .. MaxRestarts
        BY NeedsConstants DEF NeedsInv, NeedsTyped
    <2>3. /\ at' \in [Needing!Actors -> Needing!Steps]
          /\ answer' \in [Needing!Actors -> [Needing!Needs -> Needing!States]]
          /\ report' \in [Needing!Needs -> Needing!States]
        BY NothingIsKnown DEF Needing!Steps
    <2>4. /\ installed' \subseteq Needing!Packages /\ everHad' \subseteq Needing!Packages
          /\ everLacked' \subseteq Needing!Packages
        BY DEF NeedsInv, NeedsTyped
    <2> QED  BY <2>1, <2>2, <2>3, <2>4 DEF NeedsInv, NeedsTyped
<1>2. OneCopy' /\ History'
    BY DEF OneCopy, History
<1>3. Grounded'
    BY NothingIsKnown DEF Grounded, AnswerIsGrounded, Needing!Unchecked, Needing!Needs,
       Needing!Packages
<1> QED  BY <1>1, <1>2, <1>3 DEF NeedsInv

\* A check asks for a package, or is not answered at all.
LEMMA CheckKeeps ==
    ASSUME NeedsInv, NEW a \in Needing!Actors, Needing!Check(a) PROVE NeedsInv'
<1>1. CASE Needing!Unanswered(a)
    <2>1. MachineStays /\ file' = file /\ refusedOnce' = refusedOnce
        BY <1>1 DEF Needing!Unanswered, Needing!machine, MachineStays
    <2>2. PICK found : found = Needing!Unchecked
        OBVIOUS
    <2>3. Moves(a, "done", found)
        BY <1>1, <2>2 DEF Needing!Unanswered, Moves
    <2>4. found \in [Needing!Needs -> Needing!States] /\ AnswerIsGrounded(found)'
        BY <2>2, NothingIsKnown DEF AnswerIsGrounded, Needing!Unchecked, Needing!Needs,
           Needing!Packages
    <2>5. OneCopy'
        BY <1>1, <2>1, CopyGoesOn DEF Needing!Unanswered, Needing!Steps
    <2>6. file' \in {"absent", "partial", "whole"} /\ refusedOnce' \in BOOLEAN
        BY <2>1 DEF NeedsInv, NeedsTyped
    <2> QED
        BY <2>1, <2>3, <2>4, <2>5, <2>6, MoveKeeps DEF Needing!Steps
<1>2. ASSUME NEW step \in Needing!Steps, NEW p \in Needing!Packages,
             NEW next \in {"store", "looking"}, Needing!Ask(a, step, p, next)
      PROVE  NeedsInv'
    <2>1. MachineStays /\ file' = file /\ refusedOnce' = refusedOnce
        BY <1>2 DEF Needing!Ask, Needing!machine, MachineStays
    <2>2. PICK found \in Needing!FamilyState(p) : answer' = [answer EXCEPT ![a][p] = found]
        BY <1>2 DEF Needing!Ask
    <2>3. /\ found \in Needing!States
          /\ found = "Satisfied" => p \in everHad
          /\ found = "Missing" => p \in everLacked
        BY <2>2 DEF Needing!FamilyState, Needing!States, NeedsInv, History
    <2>4. OneCopy'
        BY <1>2, <2>1, CopyGoesOn DEF Needing!Ask, Needing!Steps
    <2>5. file' \in {"absent", "partial", "whole"} /\ refusedOnce' \in BOOLEAN
        BY <2>1 DEF NeedsInv, NeedsTyped
    <2>6. p \in Needing!Needs /\ p # "ComMetadata" /\ at' = [at EXCEPT ![a] = next]
        BY <1>2 DEF Needing!Needs, Needing!Packages, Needing!Ask
    <2>7. next \in Needing!Steps /\ next # "copying"
        BY <1>2 DEF Needing!Steps
    <2> QED
        BY <2>1, <2>2, <2>3, <2>4, <2>5, <2>6, <2>7, FindKeeps
<1>3. "AppInstaller" \in Needing!Packages /\ "MicrosoftStore" \in Needing!Packages
      /\ "installer" \in Needing!Steps /\ "store" \in Needing!Steps
    BY DEF Needing!Packages, Needing!Steps
<1> QED
    BY <1>1, <1>2, <1>3 DEF Needing!Check, Needing!AskForInstaller, Needing!AskForStore

\* What a placement amounts to, with what is to blame for it.
LEMMA PlacedKeeps ==
    ASSUME NeedsInv, NEW a \in Needing!Actors,
           NEW placement \in {"Present", "DirectoryNotWritable", "SourcePackageMissing",
                              "Undetermined"},
           Needing!Placed(a, placement), MachineStays,
           file' \in {"absent", "partial", "whole"},
           file' = file \/ at[a] = "copied",
           refusedOnce' \in BOOLEAN, refusedOnce => refusedOnce',
           placement = "DirectoryNotWritable" => refusedOnce' /\ "AppInstaller" \in everHad
    PROVE  NeedsInv'
<1>1. PICK found : found = Needing!PlacementState(placement)
    OBVIOUS
<1>2. found \in Needing!States /\ (found = "Missing" => placement = "DirectoryNotWritable")
    BY <1>1 DEF Needing!PlacementState, Needing!States
<1>3. /\ answer' = [answer EXCEPT ![a]["ComMetadata"] = found]
      /\ at' = [at EXCEPT ![a] = "done"]
    BY <1>1 DEF Needing!Placed
<1>4. "ComMetadata" \in Needing!Needs /\ "ComMetadata" \notin Needing!Packages
    BY DEF Needing!Needs, Needing!Packages
<1>5. "done" \in Needing!Steps \ {"copied"}
    BY DEF Needing!Steps
<1>6. OneCopy'
    BY <1>3, <1>5, CopyGoesOn
<1> QED
    BY <1>2, <1>3, <1>4, <1>5, <1>6, FindKeeps

LEMMA PlaceKeeps ==
    ASSUME NeedsInv, NEW a \in Needing!Actors, Needing!Place(a) PROVE NeedsInv'
<1>0. /\ file \in {"absent", "partial", "whole"} /\ refusedOnce \in BOOLEAN
      /\ at[a] = "copying" => "AppInstaller" \in everHad
      /\ "AppInstaller" \in installed => "AppInstaller" \in everHad
    BY DEF NeedsInv, NeedsTyped, History
<1>1. CASE Needing!Look(a)
    <2>1. MachineStays /\ file' = file /\ refusedOnce' = refusedOnce
        BY <1>1 DEF Needing!Look, Needing!machine, MachineStays
    <2>2. CASE Needing!Placed(a, "Present")
        BY <1>0, <2>1, <2>2, PlacedKeeps
    <2>3. CASE at' = [at EXCEPT ![a] = "sourcing"] /\ answer' = answer
        <3>1. OneCopy'
            BY <2>1, <2>3, CopyGoesOn DEF Needing!Steps
        <3> QED  BY <1>0, <2>1, <2>3, <3>1, PassKeeps DEF Needing!Steps
    <2> QED  BY <1>1, <2>2, <2>3 DEF Needing!Look
<1>2. CASE Needing!FindSource(a)
    <2>1. MachineStays /\ file' = file /\ refusedOnce' = refusedOnce
        BY <1>2 DEF Needing!FindSource, Needing!machine, MachineStays
    <2>2. CASE Needing!Placed(a, "SourcePackageMissing")
        BY <1>0, <2>1, <2>2, PlacedKeeps
    <2>3. CASE /\ "AppInstaller" \in installed
               /\ at' = [at EXCEPT ![a] = "copying"] /\ answer' = answer
        <3>1. OneCopy'
            BY <2>1, <2>3, CopyGoesOn DEF Needing!Steps
        <3> QED  BY <1>0, <2>1, <2>3, <3>1, PassKeeps DEF Needing!Steps
    <2> QED  BY <1>2, <2>2, <2>3 DEF Needing!FindSource
<1>3. CASE Needing!BeginCopy(a)
    <2>1. MachineStays /\ at[a] = "copying"
        BY <1>3 DEF Needing!BeginCopy, Needing!machine, MachineStays
    <2>2. CASE Needing!Placed(a, "Undetermined") /\ file' = file /\ refusedOnce' = refusedOnce
        BY <1>0, <2>1, <2>2, PlacedKeeps
    <2>3. CASE Needing!Placed(a, "DirectoryNotWritable") /\ refusedOnce' = TRUE /\ file' = file
        BY <1>0, <2>1, <2>3, PlacedKeeps
    <2>4. CASE /\ Needing!Copying = {} /\ file' = "partial"
               /\ at' = [at EXCEPT ![a] = "copied"]
               /\ answer' = answer /\ refusedOnce' = refusedOnce
        <3>1. \A b \in Needing!Actors : at'[b] = "copied" => b = a
            BY <2>4 DEF Needing!Copying, NeedsInv, NeedsTyped
        <3>2. OneCopy'
            BY <2>4, <3>1 DEF OneCopy
        <3> QED  BY <1>0, <2>1, <2>4, <3>2, PassKeeps DEF Needing!Steps
    <2> QED  BY <1>3, <2>2, <2>3, <2>4 DEF Needing!BeginCopy
<1>4. CASE Needing!EndCopy(a)
    <2>1. MachineStays /\ refusedOnce' = refusedOnce /\ at[a] = "copied"
        BY <1>4 DEF Needing!EndCopy, Needing!machine, MachineStays
    <2>2. CASE file' = "whole" /\ Needing!Placed(a, "Present")
        BY <1>0, <2>1, <2>2, PlacedKeeps
    <2>3. CASE file' \in {"absent", "partial"} /\ Needing!Placed(a, "Undetermined")
        BY <1>0, <2>1, <2>3, PlacedKeeps
    <2> QED  BY <1>4, <2>2, <2>3 DEF Needing!EndCopy
<1> QED  BY <1>1, <1>2, <1>3, <1>4 DEF Needing!Place

LEMMA NeedsRest == ASSUME NeedsInv, UNCHANGED needsVars PROVE NeedsInv'
<1>1. NeedsTyped' /\ OneCopy' /\ History'
    BY DEF needsVars, NeedsInv, NeedsTyped, OneCopy, History
<1>2. Grounded'
    BY DEF needsVars, NeedsInv, Grounded, AnswerIsGrounded
<1> QED  BY <1>1, <1>2 DEF NeedsInv

LEMMA NeedsStepKeepsInv == ASSUME NeedsInv, [Needing!Next]_needsVars PROVE NeedsInv'
BY ChangeKeeps, BeginsChecking, ReportKeeps, RestartKeeps, CheckKeeps, PlaceKeeps, NeedsRest
   DEF Needing!Next

\* The instance counts as this module does.
LEMMA NeedsCountAgrees ==
    ASSUME NeedsInv
    PROVE  /\ Needing!Cardinality(Needing!Copying) <= 1
           /\ Needing!Copying # {} => file = "partial"
<1> DEFINE C == Needing!Copying
<1>1. C # {} => file = "partial"
    BY DEF NeedsInv, OneCopy, Needing!Copying
<1>2. \A a, b \in C : a = b
    BY DEF NeedsInv, OneCopy, Needing!Copying
<1>3. Cardinality(C) <= 1
    <2>1. CASE C = {}
        BY <2>1, FS_EmptySet
    <2>2. CASE C # {}
        <3>1. PICK a : C = {a}
            BY <1>2, <2>2
        <3>2. Cardinality({a}) = 1
            BY FS_Singleton
        <3> QED  BY <3>1, <3>2
    <2> QED  BY <2>1, <2>2
<1>4. Needing!Cardinality(C) = Cardinality(C)
    BY DEF Needing!Cardinality, Cardinality
<1> QED  BY <1>1, <1>3, <1>4

LEMMA NeedsSay ==
    ASSUME NeedsInv
    PROVE  Needing!TypeOK /\ Needing!AdmittedWasThere /\ Needing!MissingWasMissing
<1>1. Needing!TypeOK
    BY NeedsCountAgrees DEF NeedsInv, NeedsTyped, Needing!TypeOK
<1>2. Needing!AdmittedWasThere
    BY DEF NeedsInv, Grounded, AnswerIsGrounded, Needing!AdmittedWasThere,
       Needing!AdmitsInstallation, Needing!AdmitsHandoff, Needing!Needs, Needing!Packages
<1>3. \A n : <<n, "missing">> \in Needing!Listed => n \in Needing!Needs /\ report[n] = "Missing"
    BY DEF Needing!Listed, Needing!Unsatisfied
<1>4. Needing!MissingWasMissing
    BY <1>3 DEF NeedsInv, Grounded, AnswerIsGrounded, Needing!MissingWasMissing
<1> QED  BY <1>1, <1>2, <1>4

LEMMA NeedsMove ==
    ASSUME [PartsNext]_partsVars
    PROVE  part' = part /\ (part = "prerequisites" => [Needing!Next]_needsVars)
BY DEF PartsNext, DraftStep, PickedStep, StatusStep, FileStatusStep, ShownStep,
       LayoutStep, DialogueStep, NeedingStep, Rest, Turn, partsVars

(* A machine is admitted only on packages this process found there, and a  *)
(* package is listed as missing only if it was, however often the user     *)
(* installs and removes packages, the three actors ask and the process     *)
(* ends (prerequisite.rs admits_installation, prerequisites.rs             *)
(* family_state, metadata.rs prerequisite_state).                          *)
THEOREM PrerequisitesHold == PartsSpec => []PrerequisitesAreTrue
<1> DEFINE Inv == part = "prerequisites" => NeedsInv
<1>1. PartsInit => Inv
    BY NeedsInit DEF PartsInit
<1>2. Inv /\ [PartsNext]_partsVars => Inv'
    BY NeedsMove, NeedsStepKeepsInv
<1>3. Inv => PrerequisitesAreTrue
    BY NeedsSay DEF PrerequisitesAreTrue
<1> QED
    BY <1>1, <1>2, <1>3, PTL DEF PartsSpec

------------------------------------------------------------------------------
(* The sentence.                                                           *)

Offering(a) == a.handoff \in {"HandedOff", "FailedWithTemporaryRegion"}
Blocking(a) == a.handoff \notin {"none", "Restored", "FailedRegionSafe"}

\* What the state of the window and the threads outside of it know of one
\* another, whatever the sentence is.
Agree(a, w) ==
    /\ a \in Status!AppStates /\ w \in Status!WorkerStates
    /\ w.inspections <= w.chosen
    /\ a.resolution # "idle" => a.text = "product"
    /\ w.held /\ w.handing = "none" => Offering(a)
    /\ w.handing # "none" => Blocking(a)
    /\ a.handoff \in {"SwitchingRegion", "HandedOff", "RestoringRegion", "Restored"}
           => ~a.failure
    /\ w.installing => a.running /\ a.handoff = "none"
    /\ w.owed => ~a.recovers /\ ~w.installing /\ w.handing = "none" /\ a.handoff = "none"

\* A sentence that may stand over a state.
May(a, sentence) ==
    /\ sentence \in Status!Sentences
    /\ sentence = "source_ready" => ~a.running
    /\ sentence = "file_ready" => ~a.running /\ a.handoff = "none"

StatusInv == Agree(app, workers) /\ May(app, app.status)

LEMMA ChosenIsANumber == MaxChosen \in Nat
BY PartsFit DEF Status!StatusAssumption

\* The sentence of a state may stand over it.
LEMMA BusyMay ==
    ASSUME NEW a \in Status!AppStates, a.handoff # "none" \/ a.failure \/ a.running
                                        \/ a.opstate \notin {"none", "unsaid"}
    PROVE  May(a, Status!BusyStatus(a))
BY DEF May, Status!AppStates, Status!BusyStatus, Status!HandoffStatus,
       Status!HandoffFailureStatus, Status!StartedStatus, Status!Sentences, Status!Stages,
       Status!Working

LEMMA LinkMay ==
    ASSUME NEW a \in Status!AppStates
    PROVE  May(a, Status!StoreTextStatus(a))
<1>1. CASE a.text # "product"
    BY <1>1 DEF May, Status!StoreTextStatus, Status!StoreSourceStatus, Status!AppStates,
       Status!Sentences
<1>2. CASE a.text = "product" /\ a.region /\ a.running
    BY <1>2, BusyMay DEF Status!StoreTextStatus
<1>3. CASE a.text = "product" /\ ~(a.region /\ a.running)
    BY <1>3 DEF May, Status!StoreTextStatus, Status!Sentences
<1> QED  BY <1>1, <1>2, <1>3

LEMMA FileMay ==
    ASSUME NEW a \in Status!AppStates
    PROVE  May(a, Status!FileSourceStatus(a))
<1>1. CASE a.file # "admitted"
    BY <1>1 DEF May, Status!FileSourceStatus, Status!AppStates, Status!Sentences
<1>2. CASE a.file = "admitted" /\ (a.handoff # "none" \/ a.running)
    BY <1>2, BusyMay DEF Status!FileSourceStatus
<1>3. CASE a.file = "admitted" /\ ~(a.handoff # "none" \/ a.running)
    BY <1>3 DEF May, Status!FileSourceStatus, Status!Sentences
<1> QED  BY <1>1, <1>2, <1>3

LEMMA SourceMay ==
    ASSUME NEW a \in Status!AppStates
    PROVE  May(a, Status!SourceStatus(a))
BY LinkMay, FileMay DEF Status!SourceStatus

LEMMA ResolutionMay ==
    ASSUME NEW a \in Status!AppStates
    PROVE  May(a, Status!ResolutionStatus(a))
<1>1. CASE a.resolution \in {"resolved", "failed"}
    BY <1>1 DEF May, Status!ResolutionStatus, Status!Sentences
<1>2. CASE a.resolution \notin {"resolved", "failed"}
    BY <1>2, SourceMay DEF Status!ResolutionStatus
<1> QED  BY <1>1, <1>2

LEMMA OperationMay ==
    ASSUME NEW a \in Status!AppStates
    PROVE  May(a, Status!OperationStatus(a))
BY BusyMay, ResolutionMay DEF Status!OperationStatus, Status!AppStates

LEMMA PlainMay ==
    ASSUME NEW a, NEW sentence \in Status!Sentences \ {"source_ready", "file_ready"}
    PROVE  May(a, sentence)
BY DEF May

\* A state in agreement with a sentence that may stand over it.
LEMMA ShowKeeps ==
    ASSUME NEW a, NEW sentence, Agree(a, workers)', May(a, sentence),
           Status!Show(a, sentence)
    PROVE  StatusInv'
<1>1. PICK b : b = [a EXCEPT !.status = sentence]
    OBVIOUS
<1>2. PICK w : w = workers'
    OBVIOUS
<1>3. Agree(a, w) /\ app' = b
    BY <1>1, <1>2 DEF Status!Show, Agree
<1>4. /\ b \in Status!AppStates /\ b.status = sentence
      /\ b.text = a.text /\ b.resolution = a.resolution /\ b.handoff = a.handoff
      /\ b.failure = a.failure /\ b.running = a.running /\ b.recovers = a.recovers
    BY <1>1, <1>3 DEF Agree, May, Status!AppStates
<1>5. Agree(b, w) /\ May(b, b.status)
    BY <1>3, <1>4 DEF Agree, May, Offering, Blocking
<1> QED  BY <1>2, <1>3, <1>5 DEF StatusInv, Agree, May

LEMMA ShowStays ==
    ASSUME StatusInv, NEW a \in Status!AppStates, NEW w \in Status!WorkerStates,
           NEW sentence, Agree(a, w), workers' = w, May(a, sentence), Status!Show(a, sentence)
    PROVE  StatusInv'
<1>1. Agree(a, workers)'
    BY DEF Agree
<1> QED  BY <1>1, ShowKeeps

LEMMA StatusInit == Status!Init => StatusInv
<1> SUFFICES ASSUME Status!Init PROVE StatusInv
    OBVIOUS
<1>1. PICK typed \in {"empty", "product"}, places \in BOOLEAN, admits \in BOOLEAN :
        /\ app = [selected |-> "link", text |-> typed,
                  resolution |-> IF typed = "product" THEN "accepted" ELSE "idle",
                  file |-> "none", region |-> places, recovers |-> admits,
                  report |-> "unchecked", verdict |-> "Unknown", running |-> FALSE,
                  opstate |-> "none", failure |-> FALSE, handoff |-> "none",
                  download |-> FALSE,
                  status |-> IF ~admits THEN "notice"
                             ELSE IF typed = "empty" THEN "initial"
                             ELSE IF places THEN "source_recovery_pending"
                             ELSE "source_choose_region"]
        /\ workers = [inspections |-> 0, chosen |-> 0, asking |-> typed = "product" /\ places,
                      checking |-> TRUE, owed |-> ~admits, installing |-> FALSE,
                      handing |-> "none", held |-> FALSE]
    BY Zenon DEF Status!Init
<1>2. (typed = "product" /\ places) \in BOOLEAN /\ (~admits) \in BOOLEAN
    OBVIOUS
<1>3. workers \in Status!WorkerStates
    BY <1>1, <1>2, ChosenIsANumber DEF Status!WorkerStates
<1>4. app \in Status!AppStates
    BY <1>1 DEF Status!AppStates, Status!Sentences, Status!Stages, Status!Working
<1>5. May(app, app.status)
    BY <1>1, <1>4 DEF May, Status!AppStates
<1>6. Agree(app, workers)
    <2>1. /\ workers.inspections = 0 /\ workers.chosen = 0 /\ workers.installing = FALSE
          /\ workers.handing = "none" /\ workers.held = FALSE
          /\ app.handoff = "none" /\ app.failure = FALSE /\ app.running = FALSE
        BY <1>1
    <2>2. app.resolution # "idle" => app.text = "product"
        BY <1>1
    <2>3. workers.owed => ~app.recovers
        <3>1. workers.owed = ~admits /\ app.recovers = admits
            BY <1>1
        <3> QED  BY <3>1
    <2> QED  BY <1>3, <1>4, <2>1, <2>2, <2>3 DEF Agree
<1> QED  BY <1>5, <1>6 DEF StatusInv

\* The draft.
LEMMA Forgetting ==
    ASSUME NEW w, NEW a, Agree(a, w), NEW b, b = Status!ForgetFinishedHandoff(a)
    PROVE  /\ Agree(b, w)
           /\ b.text = a.text /\ b.region = a.region /\ b.status = a.status
<1>1. CASE b = a
    BY <1>1
<1>2. CASE ~Blocking(a) /\ b = [a EXCEPT !.handoff = "none"]
    <2>1. /\ b \in Status!AppStates /\ b.handoff = "none"
          /\ b.text = a.text /\ b.region = a.region /\ b.status = a.status
          /\ b.resolution = a.resolution /\ b.failure = a.failure
          /\ b.running = a.running /\ b.recovers = a.recovers
        BY <1>2 DEF Agree, Status!AppStates
    <2> QED
        BY <1>2, <2>1 DEF Agree, Offering, Blocking
<1> QED
    BY <1>1, <1>2 DEF Status!ForgetFinishedHandoff, Status!HandoffBlocks, Blocking

\* A resolution begins or ends with the draft, and its sentence is the link's.
LEMMA ResolutionShown ==
    ASSUME StatusInv, NEW a, NEW w, Agree([a EXCEPT !.resolution = "idle"], w),
           a \in Status!AppStates,
           workers' = w, Status!BeginResolutionIfReady(a)
    PROVE  StatusInv'
<1>1. PICK known \in {"idle", "resolving", "accepted"} :
          /\ known # "idle" => a.text = "product"
          /\ Status!Show([a EXCEPT !.resolution = known],
                 IF a.text # "product" THEN Status!StoreSourceStatus(a)
                 ELSE IF a.region THEN "resolving" ELSE "region_status")
    BY DEF Status!BeginResolutionIfReady
<1>2. PICK b : b = [a EXCEPT !.resolution = known]
    OBVIOUS
<1>3. PICK c : c = [a EXCEPT !.resolution = "idle"]
    OBVIOUS
<1>4. /\ b \in Status!AppStates /\ b.resolution = known
      /\ b.text = c.text /\ b.text = a.text /\ b.handoff = c.handoff
      /\ b.failure = c.failure /\ b.running = c.running /\ b.recovers = c.recovers
    BY <1>1, <1>2, <1>3 DEF Status!AppStates
<1>5. Agree(b, w)
    BY <1>1, <1>3, <1>4 DEF Agree, Offering, Blocking
<1>6. PICK sentence : sentence = (IF a.text # "product" THEN Status!StoreSourceStatus(a)
                                  ELSE IF a.region THEN "resolving" ELSE "region_status")
    OBVIOUS
<1>7. sentence \in Status!Sentences \ {"source_ready", "file_ready"}
    BY <1>6 DEF Status!StoreSourceStatus, Status!Sentences, Status!AppStates
<1>8. May(b, sentence)
    BY <1>7, PlainMay
<1> QED
    BY <1>1, <1>2, <1>4, <1>5, <1>6, <1>8, ShowStays DEF Agree

LEMMA Asked ==
    ASSUME NEW a \in Status!AppStates, NEW b, Agree(b, workers), Status!Ask(a)
    PROVE  Agree(b, workers)'
<1>1. PICK asked : asked = (workers.asking \/ (a.text = "product" /\ a.region
                                               /\ a.verdict = "Unknown"))
    OBVIOUS
<1>2. asked \in BOOLEAN
    BY <1>1, Zenon
<1>3. PICK w : w = workers
    OBVIOUS
<1>4. PICK v : v = [w EXCEPT !.asking = asked]
    OBVIOUS
<1>5. workers' = v
    BY <1>1, <1>3, <1>4 DEF Status!Ask
<1>6. /\ v \in Status!WorkerStates /\ v.inspections = w.inspections /\ v.chosen = w.chosen
      /\ v.held = w.held /\ v.handing = w.handing /\ v.installing = w.installing
      /\ v.owed = w.owed
    BY <1>2, <1>3, <1>4 DEF Agree, Status!WorkerStates
<1>7. Agree(b, v)
    BY <1>3, <1>6 DEF Agree
<1> QED  BY <1>5, <1>7 DEF Agree

LEMMA TextSet == ASSUME StatusInv, Status!SetStoreText PROVE StatusInv'
<1>1. PICK b : b = Status!ForgetFinishedHandoff(app)
    OBVIOUS
<1>2. PICK v : v = workers
    OBVIOUS
<1>3. Agree(b, v)
    <2>1. PICK a0 : a0 = app
        OBVIOUS
    <2> QED  BY <1>1, <1>2, <2>1, Forgetting DEF StatusInv
<1>4. PICK typed \in {"empty", "junk", "product"} :
         /\ Status!BeginResolutionIfReady([b EXCEPT !.text = typed, !.selected = "link"])
         /\ Status!Ask([b EXCEPT !.text = typed, !.selected = "link"])
    BY <1>1 DEF Status!SetStoreText
<1>5. PICK a : a = [b EXCEPT !.text = typed, !.selected = "link"]
    OBVIOUS
<1>6. PICK c : c = [a EXCEPT !.resolution = "idle"]
    OBVIOUS
<1>7. /\ a \in Status!AppStates /\ c \in Status!AppStates /\ c.resolution = "idle"
      /\ c.handoff = b.handoff /\ c.failure = b.failure /\ c.running = b.running
      /\ c.recovers = b.recovers
    BY <1>3, <1>5, <1>6 DEF Agree, Status!AppStates
<1>8. Agree(c, v)
    BY <1>3, <1>7 DEF Agree, Offering, Blocking
<1>9. Agree(c, workers)'
    BY <1>2, <1>4, <1>5, <1>7, <1>8, Asked
<1>10. PICK w : w = workers'
    OBVIOUS
<1> QED  BY <1>4, <1>5, <1>6, <1>7, <1>9, <1>10, ResolutionShown

LEMMA RegionSet == ASSUME StatusInv, Status!SelectTemporaryRegion PROVE StatusInv'
<1>1. PICK b : b = app
    OBVIOUS
<1>2. PICK v : v = workers
    OBVIOUS
<1>3. Agree(b, v)
    BY <1>1, <1>2 DEF StatusInv
<1>4. PICK given \in BOOLEAN :
         /\ Status!BeginResolutionIfReady([b EXCEPT !.region = given])
         /\ Status!Ask([b EXCEPT !.region = given])
    BY <1>1 DEF Status!SelectTemporaryRegion
<1>5. PICK a : a = [b EXCEPT !.region = given]
    OBVIOUS
<1>6. PICK c : c = [a EXCEPT !.resolution = "idle"]
    OBVIOUS
<1>7. /\ a \in Status!AppStates /\ c \in Status!AppStates /\ c.resolution = "idle"
      /\ c.handoff = b.handoff /\ c.failure = b.failure /\ c.running = b.running
      /\ c.recovers = b.recovers
    BY <1>3, <1>5, <1>6 DEF Agree, Status!AppStates
<1>8. Agree(c, v)
    BY <1>3, <1>7 DEF Agree, Offering, Blocking
<1>9. Agree(c, workers)'
    BY <1>2, <1>4, <1>5, <1>7, <1>8, Asked
<1>10. PICK w : w = workers'
    OBVIOUS
<1> QED  BY <1>4, <1>5, <1>6, <1>7, <1>9, <1>10, ResolutionShown

\* A sentence of the same state, or of one that differs where nothing agrees.
LEMMA Unheard ==
    ASSUME NEW b, NEW w, Agree(b, w), NEW a \in Status!AppStates,
           a.resolution \in {"idle", b.resolution}, a.text = b.text,
           a.handoff = b.handoff, a.failure = b.failure, a.running = b.running,
           a.recovers = b.recovers
    PROVE  Agree(a, w)
BY DEF Agree, Offering, Blocking

LEMMA SentenceSaid ==
    ASSUME StatusInv,
           Status!SelectSource \/ Status!SelectLanguage \/ Status!SaySomething
               \/ Status!ClearFile \/ Status!ProductResolved
    PROVE  StatusInv'
<1>1. PICK b : b = app
    OBVIOUS
<1>2. PICK w : w = workers
    OBVIOUS
<1>3. Agree(b, w) /\ workers' = w
    BY <1>1, <1>2 DEF StatusInv, Status!SelectSource, Status!SelectLanguage,
       Status!SaySomething, Status!ClearFile, Status!ProductResolved
<1>4. b \in Status!AppStates /\ w \in Status!WorkerStates
    BY <1>3 DEF Agree
<1>5. CASE Status!SelectSource
    <2>1. PICK origin \in {"link", "file"} :
             Status!Show([b EXCEPT !.selected = origin],
                         Status!SourceStatus([b EXCEPT !.selected = origin]))
        BY <1>1, <1>5 DEF Status!SelectSource
    <2>2. PICK a : a = [b EXCEPT !.selected = origin]
        OBVIOUS
    <2>3. /\ a \in Status!AppStates /\ a.resolution = b.resolution /\ a.text = b.text
          /\ a.handoff = b.handoff /\ a.failure = b.failure /\ a.running = b.running
          /\ a.recovers = b.recovers
        BY <1>4, <2>2 DEF Status!AppStates
    <2>4. Agree(a, w)
        BY <1>3, <2>3, Unheard
    <2> QED  BY <1>3, <1>4, <2>1, <2>2, <2>3, <2>4, SourceMay, ShowStays
<1>6. CASE Status!SelectLanguage
    BY <1>1, <1>3, <1>4, <1>6, SourceMay, ShowStays DEF Status!SelectLanguage
<1>7. CASE Status!SaySomething
    <2>1. May(b, "other")
        BY PlainMay DEF Status!Sentences
    <2> QED  BY <1>1, <1>3, <1>4, <1>7, <2>1, ShowStays DEF Status!SaySomething
<1>8. CASE Status!ClearFile
    <2>1. PICK a : a = [b EXCEPT !.file = "none", !.resolution = "idle"]
        OBVIOUS
    <2>2. /\ a \in Status!AppStates /\ a.resolution = "idle" /\ a.text = b.text
          /\ a.handoff = b.handoff /\ a.failure = b.failure /\ a.running = b.running
          /\ a.recovers = b.recovers
        BY <1>4, <2>1 DEF Status!AppStates
    <2>3. Agree(a, w)
        BY <1>3, <2>2, Unheard
    <2>4. Status!Show(a, Status!SourceStatus(a))
        BY <1>1, <1>8, <2>1 DEF Status!ClearFile
    <2> QED  BY <1>3, <1>4, <2>2, <2>3, <2>4, SourceMay, ShowStays
<1>9. CASE Status!ProductResolved
    <2>1. PICK answered \in {"resolved", "failed"} :
             Status!Show([b EXCEPT !.resolution = answered],
                         Status!ResolutionStatus([b EXCEPT !.resolution = answered]))
        BY <1>1, <1>9 DEF Status!ProductResolved
    <2>2. PICK a : a = [b EXCEPT !.resolution = answered]
        OBVIOUS
    <2>3. /\ a \in Status!AppStates /\ a.text = b.text
          /\ a.handoff = b.handoff /\ a.failure = b.failure /\ a.running = b.running
          /\ a.recovers = b.recovers
        BY <1>4, <2>2 DEF Status!AppStates
    <2>4. b.text = "product"
        BY <1>1, <1>3, <1>9 DEF Status!ProductResolved, Agree
    <2>5. Agree(a, w)
        BY <1>3, <2>3, <2>4 DEF Agree, Offering, Blocking
    <2> QED  BY <1>3, <1>4, <2>1, <2>2, <2>3, <2>5, ResolutionMay, ShowStays
<1> QED  BY <1>5, <1>6, <1>7, <1>8, <1>9

\* What the machine says when it is asked at the start and again.
LEMMA WorkersEqual ==
    ASSUME NEW a, NEW w, Agree(a, w), NEW v \in Status!WorkerStates,
           v.inspections <= v.chosen, v.held = w.held, v.handing = w.handing,
           v.installing = w.installing, v.owed = w.owed
    PROVE  Agree(a, v)
BY DEF Agree

LEMMA DeviceSaid == ASSUME StatusInv, Status!DeviceAnswered PROVE StatusInv'
<1>1. PICK b : b = app
    OBVIOUS
<1>2. PICK w : w = workers
    OBVIOUS
<1>3. Agree(b, w) /\ May(b, b.status)
    BY <1>1, <1>2 DEF StatusInv
<1>4. PICK v : v = [w EXCEPT !.asking = FALSE]
    OBVIOUS
<1>5. /\ v \in Status!WorkerStates /\ v.inspections = w.inspections /\ v.chosen = w.chosen
      /\ v.held = w.held /\ v.handing = w.handing /\ v.installing = w.installing
      /\ v.owed = w.owed
    BY <1>3, <1>4 DEF Agree, Status!WorkerStates
<1>6. Agree(b, v) /\ workers' = v
    BY <1>2, <1>3, <1>4, <1>5, WorkersEqual DEF Agree, Status!DeviceAnswered
<1>7. CASE app' = app
    BY <1>1, <1>3, <1>6, <1>7 DEF StatusInv
<1>8. CASE app' # app
    <2>1. PICK answered \in {"Unknown", "Deliverable", "Refused"} :
             Status!Show([b EXCEPT !.verdict = answered],
                         Status!SourceStatus([b EXCEPT !.verdict = answered]))
        BY <1>1, <1>8 DEF Status!DeviceAnswered
    <2>2. PICK a : a = [b EXCEPT !.verdict = answered]
        OBVIOUS
    <2>3. /\ a \in Status!AppStates /\ a.resolution = b.resolution /\ a.text = b.text
          /\ a.handoff = b.handoff /\ a.failure = b.failure /\ a.running = b.running
          /\ a.recovers = b.recovers
        BY <1>3, <2>2 DEF Agree, Status!AppStates
    <2>4. Agree(a, v)
        BY <1>6, <2>3, Unheard
    <2> QED  BY <1>5, <1>6, <2>1, <2>2, <2>3, <2>4, SourceMay, ShowStays
<1> QED  BY <1>7, <1>8

LEMMA FileShown ==
    ASSUME StatusInv, NEW b, NEW w, Agree(b, w), workers = w,
           NEW sentence \in Status!Sentences \ {"source_ready", "file_ready"},
           Status!TakeFile(b, sentence)
    PROVE  StatusInv'
<1>1. PICK c : c = Status!ForgetFinishedHandoff(b)
    OBVIOUS
<1>2. Agree(c, w)
    BY <1>1, Forgetting
<1>3. PICK a : a = [c EXCEPT !.selected = "file", !.resolution = "idle", !.file = "inspecting"]
    OBVIOUS
<1>4. /\ a \in Status!AppStates /\ a.resolution = "idle" /\ a.text = c.text
      /\ a.handoff = c.handoff /\ a.failure = c.failure /\ a.running = c.running
      /\ a.recovers = c.recovers
    <2>1. PICK d : d = [c EXCEPT !.selected = "file", !.resolution = "idle"]
        OBVIOUS
    <2>2. /\ d \in Status!AppStates /\ d.resolution = "idle" /\ d.text = c.text
          /\ d.handoff = c.handoff /\ d.failure = c.failure /\ d.running = c.running
          /\ d.recovers = c.recovers
        BY <1>2, <2>1 DEF Agree, Status!AppStates
    <2>3. a = [d EXCEPT !.file = "inspecting"]
        BY <1>2, <1>3, <2>1 DEF Agree, Status!AppStates
    <2> QED  BY <2>2, <2>3 DEF Status!AppStates
<1>5. Agree(a, w)
    BY <1>2, <1>4, Unheard
<1>6. PICK v : v = [w EXCEPT !.inspections = @ + 1, !.chosen = @ + 1]
    OBVIOUS
<1>7. /\ Status!Show(a, sentence) /\ w.chosen < MaxChosen /\ workers' = v
    BY <1>1, <1>3, <1>6 DEF Status!TakeFile
<1>8. /\ w.inspections \in Nat /\ w.chosen \in Nat /\ w.inspections <= w.chosen
    BY <1>2, ChosenIsANumber DEF Agree, Status!WorkerStates
<1>9. /\ v.inspections = w.inspections + 1 /\ v.chosen = w.chosen + 1
      /\ v.held = w.held /\ v.handing = w.handing /\ v.installing = w.installing
      /\ v.owed = w.owed
    BY <1>2, <1>6 DEF Agree, Status!WorkerStates
<1>10. w.inspections + 1 \in 0 .. MaxChosen /\ w.chosen + 1 \in 0 .. MaxChosen
    BY <1>7, <1>8, ChosenIsANumber
<1>11. v \in Status!WorkerStates
    BY <1>2, <1>6, <1>10 DEF Agree, Status!WorkerStates
<1>12. Agree(a, v)
    BY <1>5, <1>8, <1>9, <1>11, WorkersEqual
<1>13. May(a, sentence)
    BY PlainMay
<1> QED  BY <1>4, <1>7, <1>11, <1>12, <1>13, ShowStays

LEMMA FilesComeAndGo ==
    ASSUME StatusInv, Status!DispatchFileCandidate \/ Status!InstallerDownloaded
    PROVE  StatusInv'
<1>1. PICK b : b = app
    OBVIOUS
<1>2. PICK w : w = workers
    OBVIOUS
<1>3. Agree(b, w) /\ b \in Status!AppStates /\ w \in Status!WorkerStates
    BY <1>1, <1>2 DEF StatusInv, Agree
<1>4. {"inspecting", "other", "download_ready", "download_failed"}
          \subseteq Status!Sentences \ {"source_ready", "file_ready"}
    BY DEF Status!Sentences
<1>5. CASE Status!DispatchFileCandidate
    <2>1. CASE Status!TakeFile(b, "inspecting")
        BY <1>2, <1>3, <1>4, <2>1, FileShown
    <2>2. CASE Status!Show(b, "other") /\ workers' = w
        BY <1>3, <1>4, <2>2, PlainMay, ShowStays
    <2> QED  BY <1>1, <1>2, <1>5, <2>1, <2>2 DEF Status!DispatchFileCandidate
<1>6. CASE Status!InstallerDownloaded
    <2>1. PICK a : a = [b EXCEPT !.download = FALSE]
        OBVIOUS
    <2>2. /\ a \in Status!AppStates /\ a.resolution = b.resolution /\ a.text = b.text
          /\ a.handoff = b.handoff /\ a.failure = b.failure /\ a.running = b.running
          /\ a.recovers = b.recovers
        BY <1>3, <2>1 DEF Status!AppStates
    <2>3. Agree(a, w)
        BY <1>3, <2>2, Unheard
    <2>4. CASE Status!TakeFile(a, "download_ready")
        BY <1>2, <1>4, <2>3, <2>4, FileShown
    <2>5. CASE Status!Show(a, "download_failed") /\ workers' = w
        BY <1>3, <1>4, <2>2, <2>3, <2>5, PlainMay, ShowStays
    <2> QED  BY <1>1, <1>2, <1>6, <2>1, <2>4, <2>5 DEF Status!InstallerDownloaded
<1> QED  BY <1>5, <1>6

LEMMA StubSaid == ASSUME StatusInv, Status!StubInspected PROVE StatusInv'
<1>1. PICK b : b = app
    OBVIOUS
<1>2. PICK w : w = workers
    OBVIOUS
<1>3. Agree(b, w) /\ May(b, b.status) /\ b \in Status!AppStates
    BY <1>1, <1>2 DEF StatusInv, Agree
<1>4. PICK v : v = [w EXCEPT !.inspections = @ - 1]
    OBVIOUS
<1>5. /\ w.inspections \in 1 .. MaxChosen /\ w.chosen \in 0 .. MaxChosen
      /\ w.inspections <= w.chosen /\ workers' = v
    BY <1>2, <1>3, <1>4, ChosenIsANumber DEF Agree, Status!WorkerStates, Status!StubInspected
<1>6. /\ v.inspections = w.inspections - 1 /\ v.chosen = w.chosen
      /\ v.held = w.held /\ v.handing = w.handing /\ v.installing = w.installing
      /\ v.owed = w.owed
    BY <1>3, <1>4 DEF Agree, Status!WorkerStates
<1>7. w.inspections - 1 \in 0 .. MaxChosen /\ w.inspections - 1 <= w.chosen
    BY <1>5, ChosenIsANumber
<1>8. v \in Status!WorkerStates
    BY <1>3, <1>4, <1>7 DEF Agree, Status!WorkerStates
<1>9. Agree(b, v)
    BY <1>3, <1>6, <1>7, <1>8, WorkersEqual
<1>10. CASE app' = app
    BY <1>1, <1>3, <1>5, <1>9, <1>10 DEF StatusInv
<1>11. CASE app' # app
    <2>1. PICK answered \in {"failed", "refused", "admitted"} :
             Status!Show([b EXCEPT !.file = answered, !.resolution = "idle"],
                         Status!SourceStatus([b EXCEPT !.file = answered,
                                                       !.resolution = "idle"]))
        BY <1>1, <1>11 DEF Status!StubInspected
    <2>2. PICK a : a = [b EXCEPT !.file = answered, !.resolution = "idle"]
        OBVIOUS
    <2>3. /\ a \in Status!AppStates /\ a.resolution = "idle" /\ a.text = b.text
          /\ a.handoff = b.handoff /\ a.failure = b.failure /\ a.running = b.running
          /\ a.recovers = b.recovers
        BY <1>3, <2>2 DEF Status!AppStates
    <2>4. Agree(a, v)
        BY <1>9, <2>3, Unheard
    <2> QED  BY <1>5, <1>8, <2>1, <2>2, <2>3, <2>4, SourceMay, ShowStays
<1> QED  BY <1>10, <1>11

\* A sentence that stays over a state that agrees.
LEMMA StandsKeeps ==
    ASSUME NEW a, NEW w, Agree(a, w), May(a, a.status), app' = a, workers' = w
    PROVE  StatusInv'
BY DEF StatusInv

LEMMA StartSaid == ASSUME StatusInv, Status!StartupChecked PROVE StatusInv'
<1>1. PICK b : b = app
    OBVIOUS
<1>2. PICK w : w = workers
    OBVIOUS
<1>3. Agree(b, w) /\ May(b, b.status)
    BY <1>1, <1>2 DEF StatusInv
<1>4. PICK v : v = [w EXCEPT !.checking = FALSE]
    OBVIOUS
<1>5. /\ v \in Status!WorkerStates /\ v.inspections = w.inspections /\ v.chosen = w.chosen
      /\ v.held = w.held /\ v.handing = w.handing /\ v.installing = w.installing
      /\ v.owed = w.owed
    BY <1>3, <1>4 DEF Agree, Status!WorkerStates
<1>6. workers' = v /\ v.inspections <= v.chosen
    BY <1>2, <1>3, <1>4, <1>5 DEF Status!StartupChecked, Agree
<1>7. PICK found \in {"none", "store", "all"} :
          \/ Status!Show([b EXCEPT !.report = found], "prerequisites")
          \/ Status!Show([b EXCEPT !.report = found],
                         Status!SourceStatus([b EXCEPT !.report = found]))
          \/ app' = [b EXCEPT !.report = found]
    BY <1>1 DEF Status!StartupChecked
<1>8. PICK a : a = [b EXCEPT !.report = found]
    OBVIOUS
<1>9. /\ a \in Status!AppStates /\ a.resolution = b.resolution /\ a.text = b.text
      /\ a.handoff = b.handoff /\ a.failure = b.failure /\ a.running = b.running
      /\ a.recovers = b.recovers /\ a.status = b.status
    BY <1>3, <1>8 DEF Agree, Status!AppStates
<1>10. Agree(a, v)
    BY <1>3, <1>5, <1>6, <1>9, Unheard, WorkersEqual
<1>11. May(a, "prerequisites") /\ May(a, Status!SourceStatus(a)) /\ May(a, a.status)
    <2>1. May(a, a.status)
        BY <1>3, <1>9 DEF May
    <2>2. May(a, "prerequisites")
        BY PlainMay DEF Status!Sentences
    <2> QED  BY <1>9, <2>1, <2>2, SourceMay
<1> QED  BY <1>5, <1>6, <1>7, <1>8, <1>9, <1>10, <1>11, ShowStays, StandsKeeps

LEMMA RecheckSaid == ASSUME StatusInv, Status!RecheckPrerequisites PROVE StatusInv'
<1>1. PICK b : b = app
    OBVIOUS
<1>2. PICK w : w = workers
    OBVIOUS
<1>3. Agree(b, w) /\ workers' = w
    BY <1>1, <1>2 DEF StatusInv, Status!RecheckPrerequisites
<1>4. PICK found \in {"none", "store", "all"},
           sentence \in {"prerequisites", "prerequisites_met"} :
          Status!Show([b EXCEPT !.report = found], sentence)
    BY <1>1 DEF Status!RecheckPrerequisites
<1>5. PICK a : a = [b EXCEPT !.report = found]
    OBVIOUS
<1>6. /\ a \in Status!AppStates /\ a.resolution = b.resolution /\ a.text = b.text
      /\ a.handoff = b.handoff /\ a.failure = b.failure /\ a.running = b.running
      /\ a.recovers = b.recovers
    BY <1>3, <1>5 DEF Agree, Status!AppStates
<1>7. Agree(a, w)
    BY <1>3, <1>6, Unheard
<1>8. May(a, sentence)
    BY PlainMay DEF Status!Sentences
<1>9. w \in Status!WorkerStates
    BY <1>3 DEF Agree
<1> QED  BY <1>3, <1>4, <1>5, <1>6, <1>7, <1>8, <1>9, ShowStays

\* The record of the last run. Nothing else is under way by then.
LEMMA RecoverySaid == ASSUME StatusInv, Status!SettlePendingRecovery PROVE StatusInv'
<1>1. PICK b : b = app
    OBVIOUS
<1>2. PICK w : w = workers
    OBVIOUS
<1>3. Agree(b, w) /\ May(b, b.status) /\ w.owed
    BY <1>1, <1>2 DEF StatusInv, Status!SettlePendingRecovery
<1>4. CASE /\ Status!Show([b EXCEPT !.running = TRUE], "resumed")
           /\ workers' = [w EXCEPT !.owed = FALSE, !.installing = TRUE]
    <2>1. PICK a : a = [b EXCEPT !.running = TRUE]
        OBVIOUS
    <2>2. PICK v : v = [w EXCEPT !.owed = FALSE, !.installing = TRUE]
        OBVIOUS
    <2>3. /\ a \in Status!AppStates /\ a.resolution = b.resolution /\ a.text = b.text
          /\ a.handoff = b.handoff /\ a.failure = b.failure /\ a.running = TRUE
          /\ a.recovers = b.recovers
        BY <1>3, <2>1 DEF Agree, Status!AppStates
    <2>4. /\ v \in Status!WorkerStates /\ v.inspections = w.inspections /\ v.chosen = w.chosen
          /\ v.held = w.held /\ v.handing = w.handing /\ v.installing = TRUE
          /\ v.owed = FALSE
        BY <1>3, <2>2 DEF Agree, Status!WorkerStates
    <2>5. Agree(a, v)
        BY <1>3, <2>3, <2>4 DEF Agree, Offering, Blocking
    <2>6. May(a, "resumed")
        BY PlainMay DEF Status!Sentences
    <2> QED  BY <1>4, <2>1, <2>2, <2>3, <2>4, <2>5, <2>6, ShowStays
<1>5. CASE \E admits \in BOOLEAN, silent \in BOOLEAN :
              LET a == [b EXCEPT !.recovers = admits,
                                 !.status = IF silent THEN @ ELSE "recovery_outcome"]
              IN  /\ \/ Status!Show(a, Status!SourceStatus(a))
                     \/ app' = a
                  /\ workers' = [w EXCEPT !.owed = FALSE]
    <2>1. PICK admits \in BOOLEAN, silent \in BOOLEAN :
              LET a == [b EXCEPT !.recovers = admits,
                                 !.status = IF silent THEN @ ELSE "recovery_outcome"]
              IN  /\ \/ Status!Show(a, Status!SourceStatus(a))
                     \/ app' = a
                  /\ workers' = [w EXCEPT !.owed = FALSE]
        BY <1>5
    <2>2. PICK a : a = [b EXCEPT !.recovers = admits,
                                 !.status = IF silent THEN @ ELSE "recovery_outcome"]
        OBVIOUS
    <2>3. PICK v : v = [w EXCEPT !.owed = FALSE]
        OBVIOUS
    <2>4. /\ a \in Status!AppStates /\ a.resolution = b.resolution /\ a.text = b.text
          /\ a.handoff = b.handoff /\ a.failure = b.failure /\ a.running = b.running
          /\ a.status \in {b.status, "recovery_outcome"}
        <3>1. PICK said \in Status!Sentences :
                  /\ said = IF silent THEN b.status ELSE "recovery_outcome"
                  /\ said \in {b.status, "recovery_outcome"}
            BY <1>3 DEF Agree, Status!AppStates, Status!Sentences
        <3>2. a = [b EXCEPT !.recovers = admits, !.status = said]
            BY <2>2, <3>1
        <3> QED  BY <1>3, <3>1, <3>2 DEF Agree, Status!AppStates
    <2>5. /\ v \in Status!WorkerStates /\ v.inspections = w.inspections /\ v.chosen = w.chosen
          /\ v.held = w.held /\ v.handing = w.handing /\ v.installing = w.installing
          /\ v.owed = FALSE
        BY <1>3, <2>3 DEF Agree, Status!WorkerStates
    <2>6. Agree(a, v)
        BY <1>3, <2>4, <2>5 DEF Agree, Offering, Blocking
    <2>7. May(a, a.status) /\ May(a, Status!SourceStatus(a))
        BY <1>3, <2>4, SourceMay DEF May, Status!Sentences
    <2> QED  BY <2>1, <2>2, <2>3, <2>4, <2>5, <2>6, <2>7, ShowStays, StandsKeeps
<1>6. Status!SettlePendingRecovery =>
         \/ /\ Status!Show([b EXCEPT !.running = TRUE], "resumed")
            /\ workers' = [w EXCEPT !.owed = FALSE, !.installing = TRUE]
         \/ \E admits \in BOOLEAN, silent \in BOOLEAN :
              LET a == [b EXCEPT !.recovers = admits,
                                 !.status = IF silent THEN @ ELSE "recovery_outcome"]
              IN  /\ \/ Status!Show(a, Status!SourceStatus(a))
                     \/ app' = a
                  /\ workers' = [w EXCEPT !.owed = FALSE]
    BY <1>1, <1>2 DEF Status!SettlePendingRecovery
<1> QED  BY <1>4, <1>5, <1>6

\* The installation.
LEMMA InstallationBegins == ASSUME StatusInv, Status!BeginInstallation PROVE StatusInv'
<1>1. PICK b : b = app
    OBVIOUS
<1>2. PICK w : w = workers
    OBVIOUS
<1>3. Agree(b, w) /\ ~Blocking(b) /\ b.recovers /\ b.resolution # "idle"
    BY <1>1, <1>2 DEF StatusInv, Status!BeginInstallation, Status!InstallIsAvailable,
       Status!HandoffBlocks, Blocking, Status!HasProduct
<1>4. PICK a : a = [b EXCEPT !.handoff = "none", !.resolution = "resolving",
                             !.running = TRUE, !.opstate = "none"]
    OBVIOUS
<1>5. PICK v : v = [w EXCEPT !.installing = TRUE]
    OBVIOUS
<1>6. Status!Show(a, Status!OperationStatus(a)) /\ workers' = v
    BY <1>1, <1>2, <1>4, <1>5 DEF Status!BeginInstallation
<1>7. a \in Status!AppStates
    BY <1>3, <1>4 DEF Agree, Status!AppStates
<1>8. /\ a.handoff = "none" /\ a.resolution = "resolving" /\ a.running = TRUE
      /\ a.text = b.text /\ a.failure = b.failure /\ a.recovers = b.recovers
    BY <1>3, <1>4 DEF Agree, Status!AppStates
<1>9. /\ v \in Status!WorkerStates /\ v.inspections = w.inspections /\ v.chosen = w.chosen
      /\ v.held = w.held /\ v.handing = w.handing /\ v.installing = TRUE
      /\ v.owed = w.owed
    BY <1>3, <1>5 DEF Agree, Status!WorkerStates
<1>10. Agree(a, v)
    BY <1>3, <1>7, <1>8, <1>9 DEF Agree, Offering, Blocking
<1> QED  BY <1>6, <1>7, <1>9, <1>10, OperationMay, ShowStays

\* What an operation says of itself, while its thread is there and at its end.
LEMMA UpdateApplies ==
    ASSUME NEW b \in Status!AppStates, b = app, NEW said \in Status!Working \cup {"uncertain"},
           NEW fails \in BOOLEAN, NEW over \in BOOLEAN,
           NEW a, a = Status!ApplyInstallationUpdate(said, fails, over)
    PROVE  /\ a \in Status!AppStates /\ a.failure = fails /\ a.running = ~over
           /\ a.resolution = b.resolution /\ a.text = b.text
           /\ a.handoff = b.handoff /\ a.recovers = b.recovers
<1>1. PICK goes \in BOOLEAN : goes = ~over
    OBVIOUS
<1>2. a = [b EXCEPT !.opstate = said, !.failure = fails, !.running = goes]
    BY <1>1 DEF Status!ApplyInstallationUpdate
<1>3. PICK c : c = [b EXCEPT !.opstate = said, !.failure = fails]
    OBVIOUS
<1>4. /\ c \in Status!AppStates /\ c.failure = fails
      /\ c.resolution = b.resolution /\ c.text = b.text
      /\ c.handoff = b.handoff /\ c.recovers = b.recovers
    BY <1>3 DEF Status!AppStates
<1>5. a = [c EXCEPT !.running = goes]
    BY <1>2, <1>3 DEF Status!AppStates
<1>6. /\ a \in Status!AppStates /\ a.running = goes /\ a.failure = c.failure
      /\ a.resolution = c.resolution /\ a.text = c.text
      /\ a.handoff = c.handoff /\ a.recovers = c.recovers
    <2> HIDE <1>2, <1>3, <1>4
    <2>1. c \in Status!AppStates
        BY <1>4
    <2> QED  BY <2>1, <1>5 DEF Status!AppStates
<1> QED  BY <1>1, <1>4, <1>6

LEMMA StillInstalling ==
    ASSUME NEW b, NEW w, Agree(b, w), w.installing, NEW a \in Status!AppStates,
           a.running = TRUE, a.resolution = b.resolution, a.text = b.text,
           a.handoff = b.handoff, a.recovers = b.recovers
    PROVE  Agree(a, w)
BY DEF Agree, Offering, Blocking

\* The last report of the thread, after which nothing of it is there.
LEMMA LastInstalling ==
    ASSUME NEW b, NEW w, Agree(b, w), w.installing, NEW a \in Status!AppStates,
           a.resolution = b.resolution, a.text = b.text, a.handoff = b.handoff,
           NEW v, v = [w EXCEPT !.installing = FALSE]
    PROVE  v \in Status!WorkerStates /\ Agree(a, v)
<1>1. /\ v \in Status!WorkerStates /\ v.inspections = w.inspections /\ v.chosen = w.chosen
      /\ v.held = w.held /\ v.handing = w.handing /\ v.installing = FALSE
      /\ v.owed = w.owed
    BY DEF Agree, Status!WorkerStates
<1> QED
    BY <1>1 DEF Agree, Offering, Blocking

LEMMA ProgressSaid == ASSUME StatusInv, Status!InstallProgress PROVE StatusInv'
<1>1. PICK b : b = app
    OBVIOUS
<1>2. PICK w : w = workers
    OBVIOUS
<1>3. Agree(b, w) /\ w.installing /\ b \in Status!AppStates /\ w \in Status!WorkerStates
    BY <1>1, <1>2 DEF StatusInv, Status!InstallProgress, Status!StillThere,
       Status!LastReport, Agree
<1>4. CASE /\ Status!StillThere
           /\ \E said \in Status!Working :
                 LET a == Status!ApplyInstallationUpdate(said, FALSE, FALSE)
                 IN  Status!Show(a, Status!OperationStatus(a))
    <2>1. PICK said \in Status!Working :
             LET a == Status!ApplyInstallationUpdate(said, FALSE, FALSE)
             IN  Status!Show(a, Status!OperationStatus(a))
        BY <1>4
    <2>2. PICK a : a = Status!ApplyInstallationUpdate(said, FALSE, FALSE)
        OBVIOUS
    <2>3. /\ a \in Status!AppStates /\ a.running = TRUE
          /\ a.resolution = b.resolution /\ a.text = b.text
          /\ a.handoff = b.handoff /\ a.recovers = b.recovers
        <3>1. PICK no \in BOOLEAN : no = FALSE
            OBVIOUS
        <3>2. a = Status!ApplyInstallationUpdate(said, no, no)
            BY <2>2, <3>1
        <3>3. said \in Status!Working \cup {"uncertain"}
            OBVIOUS
        <3>4. /\ a \in Status!AppStates /\ a.running = ~no
              /\ a.resolution = b.resolution /\ a.text = b.text
              /\ a.handoff = b.handoff /\ a.recovers = b.recovers
            BY <1>1, <1>3, <3>2, <3>3, UpdateApplies
        <3> QED  BY <3>1, <3>4
    <2>4. Agree(a, w)
        BY <1>3, <2>3, StillInstalling
    <2> QED
        BY <1>2, <1>3, <1>4, <2>1, <2>2, <2>3, <2>4, OperationMay, ShowStays
        DEF Status!StillThere
<1>5. CASE /\ Status!StillThere
           /\ LET a == Status!ApplyInstallationUpdate("looking", FALSE, FALSE)
                  found == IF a.resolution = "resolving" THEN "resolved" ELSE a.resolution
              IN  Status!Show([a EXCEPT !.resolution = found], Status!OperationStatus(a))
    <2>1. PICK a : a = Status!ApplyInstallationUpdate("looking", FALSE, FALSE)
        OBVIOUS
    <2>2. "looking" \in Status!Working
        BY DEF Status!Working
    <2>3. /\ a \in Status!AppStates /\ a.running = TRUE
          /\ a.resolution = b.resolution /\ a.text = b.text
          /\ a.handoff = b.handoff /\ a.recovers = b.recovers
        <3>1. PICK no \in BOOLEAN : no = FALSE
            OBVIOUS
        <3>2. a = Status!ApplyInstallationUpdate("looking", no, no)
            BY <2>1, <3>1
        <3>3. "looking" \in Status!Working \cup {"uncertain"}
            BY <2>2
        <3>4. /\ a \in Status!AppStates /\ a.running = ~no
              /\ a.resolution = b.resolution /\ a.text = b.text
              /\ a.handoff = b.handoff /\ a.recovers = b.recovers
            BY <1>1, <1>3, <3>2, <3>3, UpdateApplies
        <3> QED  BY <3>1, <3>4
    <2>4. Agree(a, w)
        BY <1>3, <2>3, StillInstalling
    <2>5. PICK found : found = (IF a.resolution = "resolving" THEN "resolved"
                                ELSE a.resolution)
        OBVIOUS
    <2>6. PICK c : c = [a EXCEPT !.resolution = found]
        OBVIOUS
    <2>7. /\ c \in Status!AppStates /\ c.resolution = found /\ c.running = a.running
          /\ c.text = a.text /\ c.handoff = a.handoff /\ c.recovers = a.recovers
          /\ c.failure = a.failure
        BY <2>3, <2>5, <2>6 DEF Status!AppStates
    <2>8. Agree(c, w)
        BY <2>4, <2>5, <2>7 DEF Agree, Offering, Blocking
    <2>9. May(c, Status!OperationStatus(a))
        BY <2>3, <2>7, OperationMay DEF May
    <2>10. Status!Show(c, Status!OperationStatus(a)) /\ workers' = w
        BY <1>2, <1>5, <2>1, <2>5, <2>6 DEF Status!StillThere
    <2> QED  BY <1>3, <2>7, <2>8, <2>9, <2>10, ShowStays
<1>6. CASE /\ Status!LastReport
           /\ \E said \in Status!Working \cup {"uncertain"}, fails \in BOOLEAN :
                 LET a == Status!ApplyInstallationUpdate(said, fails, TRUE)
                 IN  Status!Show(a, Status!OperationStatus(a))
    <2>1. PICK said \in Status!Working \cup {"uncertain"}, fails \in BOOLEAN :
             LET a == Status!ApplyInstallationUpdate(said, fails, TRUE)
             IN  Status!Show(a, Status!OperationStatus(a))
        BY <1>6
    <2>2. PICK a : a = Status!ApplyInstallationUpdate(said, fails, TRUE)
        OBVIOUS
    <2>3. /\ a \in Status!AppStates
          /\ a.resolution = b.resolution /\ a.text = b.text /\ a.handoff = b.handoff
        <3>1. PICK yes \in BOOLEAN : yes = TRUE
            OBVIOUS
        <3>2. a = Status!ApplyInstallationUpdate(said, fails, yes)
            BY <2>2, <3>1
        <3> QED  BY <1>1, <1>3, <3>2, UpdateApplies
    <2>4. PICK v : v = [w EXCEPT !.installing = FALSE]
        OBVIOUS
    <2>5. v \in Status!WorkerStates /\ Agree(a, v)
        BY <1>3, <2>3, <2>4, LastInstalling
    <2>6. workers' = v /\ Status!Show(a, Status!OperationStatus(a))
        BY <1>2, <1>6, <2>1, <2>2, <2>4 DEF Status!LastReport
    <2> QED  BY <2>3, <2>5, <2>6, OperationMay, ShowStays
<1> QED  BY <1>4, <1>5, <1>6 DEF Status!InstallProgress

LEMMA UncertainSaid == ASSUME StatusInv, Status!ResolveUncertainOperation PROVE StatusInv'
<1>1. PICK b : b = app
    OBVIOUS
<1>2. PICK w : w = workers
    OBVIOUS
<1>3. Agree(b, w) /\ w.installing /\ b \in Status!AppStates /\ w \in Status!WorkerStates
    BY <1>1, <1>2 DEF StatusInv, Status!ResolveUncertainOperation, Agree
<1>4. PICK fails \in BOOLEAN :
         LET a == Status!ApplyInstallationUpdate("uncertain", fails, fails)
         IN  \/ /\ Status!Show([a EXCEPT !.running = TRUE], "resumed")
                /\ UNCHANGED workers
             \/ /\ Status!Show([a EXCEPT !.running = FALSE], "uncertain")
                /\ workers' = [workers EXCEPT !.installing = FALSE]
             \/ /\ \E admits \in BOOLEAN :
                       Status!Show([a EXCEPT !.running = FALSE, !.recovers = admits],
                                   "recovery_outcome")
                /\ workers' = [workers EXCEPT !.installing = FALSE]
    BY DEF Status!ResolveUncertainOperation
<1>5. PICK a : a = Status!ApplyInstallationUpdate("uncertain", fails, fails)
    OBVIOUS
<1>6. /\ a \in Status!AppStates
      /\ a.resolution = b.resolution /\ a.text = b.text
      /\ a.handoff = b.handoff /\ a.recovers = b.recovers
    BY <1>1, <1>3, <1>5, UpdateApplies
<1>7. PICK v : v = [w EXCEPT !.installing = FALSE]
    OBVIOUS
<1>8. {"resumed", "uncertain", "recovery_outcome"}
          \subseteq Status!Sentences \ {"source_ready", "file_ready"}
    BY DEF Status!Sentences
<1>9. CASE Status!Show([a EXCEPT !.running = TRUE], "resumed") /\ workers' = w
    <2>1. PICK c : c = [a EXCEPT !.running = TRUE]
        OBVIOUS
    <2>2. /\ c \in Status!AppStates /\ c.running = TRUE
          /\ c.resolution = a.resolution /\ c.text = a.text
          /\ c.handoff = a.handoff /\ c.recovers = a.recovers
        BY <1>6, <2>1 DEF Status!AppStates
    <2>3. Agree(c, w)
        BY <1>3, <1>6, <2>2, StillInstalling
    <2> QED  BY <1>3, <1>8, <1>9, <2>1, <2>2, <2>3, PlainMay, ShowStays
<1>10. CASE Status!Show([a EXCEPT !.running = FALSE], "uncertain") /\ workers' = v
    <2>1. PICK c : c = [a EXCEPT !.running = FALSE]
        OBVIOUS
    <2>2. /\ c \in Status!AppStates /\ c.resolution = a.resolution /\ c.text = a.text
          /\ c.handoff = a.handoff
        BY <1>6, <2>1 DEF Status!AppStates
    <2>3. v \in Status!WorkerStates /\ Agree(c, v)
        BY <1>3, <1>6, <1>7, <2>2, LastInstalling
    <2> QED  BY <1>8, <1>10, <2>1, <2>2, <2>3, PlainMay, ShowStays
<1>11. CASE /\ \E admits \in BOOLEAN :
                   Status!Show([a EXCEPT !.running = FALSE, !.recovers = admits],
                               "recovery_outcome")
            /\ workers' = v
    <2>1. PICK admits \in BOOLEAN :
              Status!Show([a EXCEPT !.running = FALSE, !.recovers = admits],
                          "recovery_outcome")
        BY <1>11
    <2>2. PICK c : c = [a EXCEPT !.running = FALSE, !.recovers = admits]
        OBVIOUS
    <2>3. /\ c \in Status!AppStates /\ c.resolution = a.resolution /\ c.text = a.text
          /\ c.handoff = a.handoff
        BY <1>6, <2>2 DEF Status!AppStates
    <2>4. v \in Status!WorkerStates /\ Agree(c, v)
        BY <1>3, <1>6, <1>7, <2>3, LastInstalling
    <2> QED  BY <1>8, <1>11, <2>1, <2>2, <2>3, <2>4, PlainMay, ShowStays
<1> QED  BY <1>2, <1>4, <1>5, <1>7, <1>9, <1>10, <1>11

\* The handoff, and the installer asked for.
LEMMA HandoffSaid ==
    ASSUME StatusInv, Status!BeginHandoff \/ Status!BeginRegionRestore PROVE StatusInv'
<1>1. PICK b : b = app
    OBVIOUS
<1>2. PICK w : w = workers
    OBVIOUS
<1>3. Agree(b, w) /\ b \in Status!AppStates /\ w \in Status!WorkerStates
    BY <1>1, <1>2 DEF StatusInv, Agree
<1>4. CASE Status!Show(b, "declined") /\ workers' = w
    <2>1. May(b, "declined")
        BY PlainMay DEF Status!Sentences
    <2> QED  BY <1>3, <1>4, <2>1, ShowStays
<1>5. ASSUME NEW stage \in {"SwitchingRegion", "RestoringRegion"},
             NEW way \in {"forth", "back"},
             LET a == [b EXCEPT !.failure = FALSE, !.handoff = stage]
             IN  Status!Show(a, Status!OperationStatus(a)),
             workers' = [w EXCEPT !.handing = way], ~w.owed, ~w.installing
      PROVE  StatusInv'
    <2>1. PICK a : a = [b EXCEPT !.failure = FALSE, !.handoff = stage]
        OBVIOUS
    <2>2. PICK v : v = [w EXCEPT !.handing = way]
        OBVIOUS
    <2>3. /\ a \in Status!AppStates /\ a.resolution = b.resolution /\ a.text = b.text
          /\ a.handoff = stage /\ a.failure = FALSE /\ a.recovers = b.recovers
        <3>1. stage \in Status!Stages
            BY <1>5 DEF Status!Stages
        <3>2. PICK no \in BOOLEAN : no = FALSE
            OBVIOUS
        <3>3. a = [b EXCEPT !.failure = no, !.handoff = stage]
            BY <2>1, <3>2
        <3>4. /\ a \in Status!AppStates /\ a.resolution = b.resolution
              /\ a.text = b.text /\ a.handoff = stage /\ a.failure = no
              /\ a.recovers = b.recovers
            BY <1>3, <3>1, <3>3 DEF Status!AppStates
        <3> QED  BY <3>2, <3>4
    <2>4. /\ v \in Status!WorkerStates /\ v.inspections = w.inspections /\ v.chosen = w.chosen
          /\ v.handing = way /\ v.installing = w.installing /\ v.owed = w.owed
        BY <1>3, <1>5, <2>2 DEF Status!WorkerStates
    <2>5. Agree(a, v)
        BY <1>3, <1>5, <2>3, <2>4 DEF Agree, Offering, Blocking
    <2> QED  BY <1>5, <2>1, <2>2, <2>3, <2>4, <2>5, OperationMay, ShowStays
<1>6. CASE Status!BeginHandoff
    <2>1. b.recovers /\ ~b.running
        BY <1>1, <1>6 DEF Status!BeginHandoff, Status!HandoffIsAvailable
    <2>2. ~w.owed /\ ~w.installing
        BY <1>3, <2>1 DEF Agree
    <2> QED
        BY <1>1, <1>2, <1>4, <1>5, <1>6, <2>2 DEF Status!BeginHandoff
<1>7. CASE Status!BeginRegionRestore
    <2>1. b.handoff # "none"
        BY <1>1, <1>7 DEF Status!BeginRegionRestore, Status!HandoffOffersRestore
    <2>2. ~w.owed /\ ~w.installing
        BY <1>3, <2>1 DEF Agree
    <2> QED
        BY <1>1, <1>2, <1>5, <1>7, <2>2 DEF Status!BeginRegionRestore
<1> QED  BY <1>6, <1>7

LEMMA DownloadSaid == ASSUME StatusInv, Status!BeginInstallerDownload PROVE StatusInv'
<1>1. PICK b : b = app
    OBVIOUS
<1>2. PICK w : w = workers
    OBVIOUS
<1>3. Agree(b, w) /\ b \in Status!AppStates /\ w \in Status!WorkerStates
    BY <1>1, <1>2 DEF StatusInv, Agree
<1>4. PICK a : a = [b EXCEPT !.download = TRUE, !.failure = FALSE]
    OBVIOUS
<1>5. Status!Show(a, "download_asked") /\ workers' = w
    BY <1>1, <1>2, <1>4 DEF Status!BeginInstallerDownload
<1>6. /\ a \in Status!AppStates /\ a.resolution = b.resolution /\ a.text = b.text
      /\ a.handoff = b.handoff /\ a.failure = FALSE /\ a.running = b.running
      /\ a.recovers = b.recovers
    BY <1>3, <1>4 DEF Status!AppStates
<1>7. Agree(a, w)
    BY <1>3, <1>6 DEF Agree, Offering, Blocking
<1>8. May(a, "download_asked")
    BY PlainMay DEF Status!Sentences
<1> QED  BY <1>3, <1>5, <1>6, <1>7, <1>8, ShowStays

LEMMA StageApplies ==
    ASSUME NEW b \in Status!AppStates, b = app, b.handoff # "none",
           NEW stage \in Status!Stages, NEW fails \in BOOLEAN,
           NEW a, a = Status!ApplyHandoffUpdate(stage, fails)
    PROVE  /\ a \in Status!AppStates /\ a.failure = fails /\ a.handoff = stage
           /\ a.resolution = b.resolution /\ a.text = b.text
           /\ a.running = b.running /\ a.recovers = b.recovers
<1>1. a = [b EXCEPT !.failure = fails, !.handoff = stage]
    BY DEF Status!ApplyHandoffUpdate
<1> QED  BY <1>1 DEF Status!AppStates

\* Membership in a set is true or false.
LEMMA Truth ==
    ASSUME NEW e, NEW S
    PROVE  \E b \in BOOLEAN : b = (e \in S)
<1>1. CASE e \in S
    <2>1. TRUE = (e \in S)
        BY <1>1, SMT
    <2> QED  BY <2>1, Zenon
<1>2. CASE e \notin S
    <2>1. FALSE = (e \in S)
        BY <1>2, SMT
    <2> QED  BY <2>1, Zenon
<1> QED  BY <1>1, <1>2

LEMMA StageSaid == ASSUME StatusInv, Status!HandoffProgress PROVE StatusInv'
<1>1. PICK b : b = app
    OBVIOUS
<1>2. PICK w : w = workers
    OBVIOUS
<1>3. Agree(b, w) /\ b \in Status!AppStates /\ w \in Status!WorkerStates /\ w.handing # "none"
    BY <1>1, <1>2 DEF StatusInv, Agree, Status!HandoffProgress
<1>4. b.handoff # "none" /\ ~w.owed /\ ~w.installing
    BY <1>3 DEF Agree, Blocking
<1>5. CASE /\ LET a == Status!ApplyHandoffUpdate(
                         IF w.handing = "forth" THEN "SwitchingRegion" ELSE "RestoringRegion",
                         FALSE)
              IN  Status!Show(a, Status!OperationStatus(a))
           /\ UNCHANGED workers
    <2>1. PICK stage \in {"SwitchingRegion", "RestoringRegion"} :
              stage = IF w.handing = "forth" THEN "SwitchingRegion" ELSE "RestoringRegion"
        OBVIOUS
    <2>2. PICK no \in BOOLEAN : no = FALSE
        OBVIOUS
    <2>3. PICK a : a = Status!ApplyHandoffUpdate(stage, no)
        OBVIOUS
    <2>4. stage \in Status!Stages
        BY DEF Status!Stages
    <2>5. /\ a \in Status!AppStates /\ a.failure = FALSE /\ a.handoff = stage
          /\ a.resolution = b.resolution /\ a.text = b.text
          /\ a.running = b.running /\ a.recovers = b.recovers
        BY <1>1, <1>3, <1>4, <2>2, <2>3, <2>4, StageApplies
    <2>6. Agree(a, w)
        BY <1>3, <1>4, <2>5 DEF Agree, Offering, Blocking
    <2>7. Status!Show(a, Status!OperationStatus(a)) /\ workers' = w
        BY <1>2, <1>5, <2>1, <2>2, <2>3
    <2> QED  BY <1>3, <2>5, <2>6, <2>7, OperationMay, ShowStays
<1>6. ASSUME NEW ended \in Status!Stages \ {"SwitchingRegion", "RestoringRegion"},
             NEW fails \in BOOLEAN,
             fails = (ended \in {"FailedRegionSafe", "FailedWithTemporaryRegion"}),
             LET a == Status!ApplyHandoffUpdate(ended, fails)
             IN  Status!Show(a, Status!OperationStatus(a)),
             NEW still \in BOOLEAN,
             still = (ended \in {"HandedOff", "FailedWithTemporaryRegion"}),
             workers' = [w EXCEPT !.handing = "none", !.held = still]
      PROVE  StatusInv'
    <2>1. PICK a : a = Status!ApplyHandoffUpdate(ended, fails)
        OBVIOUS
    <2>2. PICK v : v = [w EXCEPT !.handing = "none", !.held = still]
        OBVIOUS
    <2>3. /\ a \in Status!AppStates /\ a.failure = fails /\ a.handoff = ended
          /\ a.resolution = b.resolution /\ a.text = b.text
          /\ a.running = b.running /\ a.recovers = b.recovers
        BY <1>1, <1>3, <1>4, <2>1, StageApplies
    <2>4. /\ v \in Status!WorkerStates /\ v.inspections = w.inspections /\ v.chosen = w.chosen
          /\ v.handing = "none" /\ v.held = still
          /\ v.installing = w.installing /\ v.owed = w.owed
        BY <1>3, <2>2 DEF Status!WorkerStates
    <2>5. v.held => Offering(a)
        BY <1>6, <2>3, <2>4 DEF Offering
    <2>6. a.handoff \in {"SwitchingRegion", "HandedOff", "RestoringRegion", "Restored"}
              => ~a.failure
        BY <1>6, <2>3
    <2>7. Agree(a, v)
        BY <1>3, <1>4, <2>3, <2>4, <2>5, <2>6 DEF Agree
    <2> QED  BY <1>6, <2>1, <2>2, <2>3, <2>4, <2>7, OperationMay, ShowStays
<1>7. CASE \E ended \in {"FailedRegionSafe", "FailedWithTemporaryRegion"}
                         \cup (IF w.handing = "forth" THEN {"HandedOff"} ELSE {"Restored"}) :
              /\ LET a == Status!ApplyHandoffUpdate(
                         ended, ended \in {"FailedRegionSafe", "FailedWithTemporaryRegion"})
                 IN  Status!Show(a, Status!OperationStatus(a))
              /\ workers' = [w EXCEPT !.handing = "none",
                     !.held = ended \in {"HandedOff", "FailedWithTemporaryRegion"}]
    <2>1. PICK ended \in {"FailedRegionSafe", "FailedWithTemporaryRegion"}
                         \cup (IF w.handing = "forth" THEN {"HandedOff"} ELSE {"Restored"}) :
              /\ LET a == Status!ApplyHandoffUpdate(
                         ended, ended \in {"FailedRegionSafe", "FailedWithTemporaryRegion"})
                 IN  Status!Show(a, Status!OperationStatus(a))
              /\ workers' = [w EXCEPT !.handing = "none",
                     !.held = ended \in {"HandedOff", "FailedWithTemporaryRegion"}]
        BY <1>7
    <2>2. ended \in Status!Stages \ {"SwitchingRegion", "RestoringRegion"}
        BY <2>1 DEF Status!Stages
    <2>3. PICK fails \in BOOLEAN :
              fails = (ended \in {"FailedRegionSafe", "FailedWithTemporaryRegion"})
        BY Truth
    <2>4. PICK still \in BOOLEAN :
              still = (ended \in {"HandedOff", "FailedWithTemporaryRegion"})
        BY Truth
    <2>5. /\ LET a == Status!ApplyHandoffUpdate(ended, fails)
             IN  Status!Show(a, Status!OperationStatus(a))
          /\ workers' = [w EXCEPT !.handing = "none", !.held = still]
        BY <2>1, <2>3, <2>4
    <2> QED  BY <1>6, <2>2, <2>3, <2>4, <2>5
<1> QED  BY <1>2, <1>5, <1>7 DEF Status!HandoffProgress

LEMMA StatusRests == ASSUME StatusInv, UNCHANGED statusVars PROVE StatusInv'
BY DEF statusVars, StatusInv, Agree, May

LEMMA StatusStepKeepsInv == ASSUME StatusInv, [Status!Next]_statusVars PROVE StatusInv'
<1>1. CASE Status!Draft
    BY <1>1, TextSet, RegionSet, SentenceSaid, FilesComeAndGo DEF Status!Draft
<1>2. CASE Status!Commands
    BY <1>2, InstallationBegins, HandoffSaid, DownloadSaid, RecheckSaid DEF Status!Commands
<1>3. CASE Status!Answers
    BY <1>3, SentenceSaid, DeviceSaid, StubSaid, StartSaid, RecoverySaid, ProgressSaid,
       UncertainSaid, StageSaid, FilesComeAndGo DEF Status!Answers
<1> QED  BY <1>1, <1>2, <1>3, StatusRests DEF Status!Next

LEMMA StatusSays ==
    ASSUME StatusInv
    PROVE  /\ Status!TypeOK
           /\ Status!SentenceFollowsGate /\ Status!NeverReadyWhileBusy
           /\ Status!HeldRegionHasItsButton /\ Status!FailureIsOfTheHandoff
<1>1. Status!TypeOK
    BY DEF StatusInv, Agree, Status!TypeOK
<1>2. Status!SentenceFollowsGate
    <2>1. app.resolution # "idle" => app.text = "product"
        BY DEF StatusInv, Agree
    <2>2. CASE app.selected = "link" /\ Status!InstallIsAvailable(app)
        BY <2>1, <2>2 DEF Status!InstallIsAvailable, Status!HasProduct, Status!SourceStatus,
           Status!StoreTextStatus, Status!SentenceFollowsGate, Status!HandoffIsAvailable
    <2>3. CASE Status!HandoffIsAvailable(app)
        BY <2>3 DEF Status!HandoffIsAvailable, Status!SourceStatus, Status!FileSourceStatus,
           Status!SentenceFollowsGate
    <2> QED  BY <2>2, <2>3 DEF Status!SentenceFollowsGate
<1>3. Status!NeverReadyWhileBusy
    BY DEF StatusInv, May, Status!NeverReadyWhileBusy
<1>4. Status!HeldRegionHasItsButton
    BY DEF StatusInv, Agree, Offering, Status!HeldRegionHasItsButton,
       Status!HandoffOffersRestore
<1>5. Status!FailureIsOfTheHandoff
    BY DEF StatusInv, Agree, Blocking, Status!FailureIsOfTheHandoff, Status!HandoffBlocks
<1> QED  BY <1>1, <1>2, <1>3, <1>4, <1>5

------------------------------------------------------------------------------
(* The tables of the journal and of the updates.                           *)

RowOf(rows, i) == i \in {0} \cup DOMAIN rows

UpdatesTyped ==
    /\ updates \in Shown!Views /\ update \in Nat
    /\ table \in [rows: Found, selected: Nat, focus: Nat]
    /\ RowOf(table.rows, table.selected) /\ RowOf(table.rows, table.focus)
    /\ scanning \in BOOLEAN /\ startup \in {"running", "done", "late"}
    /\ tab \in Shown!Tabs

\* What is picked is picked in the list on show; a list that replaces another
\* is one that nothing was picked in.
PickedIsShown ==
    /\ updates.kind # "Ready" => updates.rows = <<>>
    /\ startup # "late" =>
           /\ scanning => updates.kind = "Scanning"
           /\ updates.kind # "Ready" => update = 0
           /\ tab = "Updates" => table.rows = updates.rows
           /\ table.selected = update
           /\ table.rows # updates.rows => update = 0

\* The journal's table is as the last rendering left it.
JournalIsShown ==
    /\ journal \in Shown!Journals
    /\ journal.kind # "Ready" => journal.rows = <<>>
    /\ RowOf(journal.rows, entry)
    /\ journal.rows # <<>> => entry # 0
    /\ tablesLanguage \in TableLanguages /\ headings = tablesLanguage
    /\ list = Shown!Fresh(Shown!JournalRows(journal, tablesLanguage))

ShownInv == UpdatesTyped /\ PickedIsShown /\ JournalIsShown

LEMMA ListsAreSequences ==
    /\ <<>> \in Found /\ <<>> \in Histories
    /\ \A rows \in Found \cup Histories :
           /\ Len(rows) \in Nat /\ DOMAIN rows = 1 .. Len(rows)
           /\ rows = <<>> <=> Len(rows) = 0
<1>1. <<>> \in Found /\ <<>> \in Histories
    BY PartsFit DEF Shown!TablesAssumption
<1>2. ASSUME NEW rows \in Found \cup Histories
      PROVE  /\ Len(rows) \in Nat /\ DOMAIN rows = 1 .. Len(rows)
             /\ rows = <<>> <=> Len(rows) = 0
    <2>1. PICK S : rows \in Seq(S)
        BY PartsFit DEF Shown!TablesAssumption
    <2>2. Len(rows) \in Nat /\ DOMAIN rows = 1 .. Len(rows)
        BY <2>1
    <2>3. rows = <<>> <=> Len(rows) = 0
        BY <2>1, EmptySeq
    <2> QED  BY <2>2, <2>3
<1> QED  BY <1>1, <1>2

LEMMA NobodyPicks == \A rows \in Found \cup Histories : 0 \notin DOMAIN rows
BY ListsAreSequences

LEMMA ShownInit == Shown!Init => ShownInv
<1> SUFFICES ASSUME Shown!Init PROVE ShownInv
    OBVIOUS
<1> USE ListsAreSequences DEF Shown!Init, Shown!NoRows, Shown!Fresh
<1>1. UpdatesTyped
    BY DEF UpdatesTyped, Shown!Views, RowOf, Shown!Tabs
<1>2. PickedIsShown
    BY DEF PickedIsShown
<1>3. JournalIsShown
    <2>1. Shown!JournalRows(journal, tablesLanguage) = <<>>
        BY DEF Shown!JournalRows
    <2> QED  BY <2>1 DEF JournalIsShown, Shown!Journals, RowOf
<1> QED  BY <1>1, <1>2, <1>3 DEF ShownInv

\* A rendering shows the journal there is.
LEMMA JournalRendered ==
    ASSUME NEW left, Shown!RebuildJournalList(left), Shown!RefreshColumnHeadings,
           journal' \in Shown!Journals, tablesLanguage' \in TableLanguages,
           journal'.kind # "Ready" => journal'.rows = <<>>,
           RowOf(journal.rows, entry)', journal'.rows # <<>> => entry' # 0
    PROVE  JournalIsShown'
BY DEF JournalIsShown, Shown!RebuildJournalList, Shown!RefreshColumnHeadings

\* Rendering the updates when neither they nor what is picked has changed.
LEMMA UpdatesRendered ==
    ASSUME ShownInv, Shown!RefreshUpdateTable(table),
           updates' = updates, update' = update, scanning' = scanning, startup' = startup,
           tab' \in Shown!Tabs
    PROVE  UpdatesTyped' /\ PickedIsShown'
<1> USE DEF ShownInv, Shown!RefreshUpdateTable, Shown!Fresh
<1>1. table' \in {table, [rows |-> updates.rows, selected |-> 0, focus |-> 0]}
    OBVIOUS
<1>2. UpdatesTyped'
    BY <1>1 DEF UpdatesTyped, RowOf, Shown!Views
<1>3. PickedIsShown'
    BY DEF PickedIsShown, UpdatesTyped
<1> QED  BY <1>2, <1>3

\* What a step leaves of the journal and of the language.
LEMMA JournalStays ==
    ASSUME ShownInv, Shown!Render \/ \E shownList, shownTable : Shown!RenderOver(shownList, shownTable),
           journal' = journal, entry' = entry, tablesLanguage' \in TableLanguages
    PROVE  JournalIsShown'
<1>1. PICK left : Shown!RebuildJournalList(left) /\ Shown!RefreshColumnHeadings
    BY DEF Shown!Render, Shown!RenderOver
<1>2. /\ journal' \in Shown!Journals
      /\ journal'.kind # "Ready" => journal'.rows = <<>>
      /\ RowOf(journal.rows, entry)'
      /\ journal'.rows # <<>> => entry' # 0
    BY DEF ShownInv, JournalIsShown, RowOf
<1> QED  BY <1>1, <1>2, JournalRendered

\* A row of the journal, or the empty space when none can be selected.
LEMMA EntryPicked ==
    ASSUME ShownInv, NEW i \in DOMAIN list.rows, Shown!JournalItemChanged(i)
    PROVE  ShownInv'
<1>1. Shown!RebuildJournalList(Shown!Picked(list, i)) /\ Shown!RefreshUpdateTable(table)
      /\ Shown!RefreshColumnHeadings
    BY DEF Shown!JournalItemChanged, Shown!RenderOver
<1>2. /\ updates' = updates /\ update' = update /\ scanning' = scanning /\ startup' = startup
      /\ tab' = tab /\ journal' = journal /\ tablesLanguage' = tablesLanguage
      /\ entry' = IF journal.kind = "Ready" /\ i \in DOMAIN journal.rows THEN i ELSE 0
    BY DEF Shown!JournalItemChanged, Shown!scan
<1>3. UpdatesTyped' /\ PickedIsShown'
    BY <1>1, <1>2, UpdatesRendered DEF ShownInv, UpdatesTyped
<1>4. i \in DOMAIN journal.rows
    BY DEF ShownInv, JournalIsShown, Shown!Fresh, Shown!JournalRows
<1>5. journal.rows \in Histories
    BY DEF ShownInv, JournalIsShown, Shown!Journals
<1>6. journal.kind = "Ready" /\ entry' = i /\ i # 0
    <2>1. journal.rows # <<>>
        BY <1>4, <1>5, ListsAreSequences
    <2>2. journal.kind = "Ready"
        BY <2>1 DEF ShownInv, JournalIsShown
    <2>3. i # 0
        BY <1>4, <1>5, NobodyPicks
    <2> QED  BY <1>2, <1>4, <2>2, <2>3
<1>7. RowOf(journal.rows, entry)'
    BY <1>2, <1>4, <1>6 DEF RowOf
<1>8. journal' \in Shown!Journals /\ tablesLanguage' \in TableLanguages
    BY <1>2 DEF ShownInv, JournalIsShown
<1>9. JournalIsShown'
    BY <1>1, <1>2, <1>6, <1>7, <1>8, JournalRendered
<1> QED  BY <1>3, <1>9 DEF ShownInv

LEMMA JournalPicks ==
    ASSUME ShownInv, Shown!PickEntry \/ Shown!ArrowDownJournal PROVE ShownInv'
<1>1. /\ list.selected = 0 /\ list.focus = 0
      /\ DOMAIN list.rows = DOMAIN journal.rows
      /\ list.rows = [i \in DOMAIN journal.rows |-> list.rows[i]]
    BY DEF ShownInv, JournalIsShown, Shown!Fresh, Shown!JournalRows
<1>2. CASE Shown!PickEntry
    <2>1. PICK i \in Shown!Pickable(list) : Shown!JournalItemChanged(i)
        BY <1>2 DEF Shown!PickEntry
    <2>2. i \in DOMAIN list.rows
        BY <1>1, <2>1 DEF Shown!Pickable
    <2> QED  BY <2>1, <2>2, EntryPicked
<1>3. CASE Shown!ArrowDownJournal
    <2>1. journal.rows \in Histories
        BY DEF ShownInv, JournalIsShown, Shown!Journals
    <2>2. PICK n \in Nat : DOMAIN journal.rows = 1 .. n
        BY <2>1, ListsAreSequences
    <2>3. list.rows \in Seq({list.rows[j] : j \in DOMAIN journal.rows})
        BY <1>1, <2>2, SeqDef
    <2>4. Len(list.rows) = n
        BY <1>1, <2>2, <2>3
    <2>5. list.rows # <<>>
        BY <1>3 DEF Shown!ArrowDownJournal
    <2>6. n # 0
        BY <2>3, <2>4, <2>5, EmptySeq
    <2>7. Shown!Below(list) = 1
        BY <1>1, <2>2, <2>4, <2>6 DEF Shown!Below
    <2>8. 1 \in DOMAIN list.rows
        BY <1>1, <2>2, <2>6
    <2>9. PICK i : i = Shown!Below(list)
        OBVIOUS
    <2>10. Shown!JournalItemChanged(i)
        BY <1>3, <2>9 DEF Shown!ArrowDownJournal
    <2> QED  BY <2>7, <2>8, <2>9, <2>10, EntryPicked
<1> QED  BY <1>2, <1>3

\* A row of the updates, or the empty space.
LEMMA UpdatePicked ==
    ASSUME ShownInv, tab = "Updates", NEW i \in {0} \cup DOMAIN table.rows,
           Shown!UpdatesItemChanged(i),
           i = 0 => table.selected # 0 \/ table.rows = <<>>
    PROVE  ShownInv'
<1>1. /\ updates' = updates /\ update' = i /\ scanning' = scanning /\ startup' = startup
      /\ tab' = tab /\ journal' = journal /\ entry' = entry
      /\ tablesLanguage' = tablesLanguage
      /\ Shown!RenderOver(list, Shown!Picked(table, i))
    BY DEF Shown!UpdatesItemChanged, Shown!scan
<1>2. JournalIsShown'
    <2>1. tablesLanguage' \in TableLanguages
        BY <1>1 DEF ShownInv, JournalIsShown
    <2> QED  BY <1>1, <2>1, JournalStays
<1>3. PICK focus1 \in {i, table.focus} :
         Shown!Picked(table, i) = [rows |-> table.rows, selected |-> i, focus |-> focus1]
    <2>1. table = [rows |-> table.rows, selected |-> table.selected, focus |-> table.focus]
        BY DEF ShownInv, UpdatesTyped
    <2>2. PICK left : left = Shown!Picked(table, i)
        OBVIOUS
    <2>3. left = [rows |-> table.rows, selected |-> i,
                  focus |-> IF i = 0 THEN table.focus ELSE i]
        BY <2>1, <2>2 DEF Shown!Picked
    <2> QED  BY <2>2, <2>3
<1>4. table' = IF table.rows # updates.rows
               THEN [rows |-> updates.rows, selected |-> 0, focus |-> 0]
               ELSE [rows |-> table.rows, selected |-> i, focus |-> focus1]
    BY <1>1, <1>3 DEF Shown!RenderOver, Shown!RefreshUpdateTable, Shown!Fresh
<1>5. i \in Nat
    BY ListsAreSequences DEF ShownInv, UpdatesTyped
<1>6. UpdatesTyped'
    BY <1>1, <1>4, <1>5 DEF ShownInv, UpdatesTyped, RowOf, Shown!Views
<1>7. PickedIsShown'
    <2>1. startup # "late" => table.rows = updates.rows
        BY DEF ShownInv, PickedIsShown
    <2>2. updates.kind # "Ready" => updates.rows = <<>>
        BY DEF ShownInv, PickedIsShown
    <2>3. startup # "late" /\ updates.kind # "Ready" => i = 0
        <3>1. DOMAIN <<>> = {}
            OBVIOUS
        <3> QED  BY <2>1, <2>2, <3>1
    <2> QED
        BY <1>1, <1>4, <2>1, <2>2, <2>3 DEF ShownInv, PickedIsShown
<1> QED  BY <1>2, <1>6, <1>7 DEF ShownInv

LEMMA UpdatePicks ==
    ASSUME ShownInv, Shown!PickUpdate \/ Shown!ArrowDownUpdates PROVE ShownInv'
<1>0. table.rows \in Found /\ RowOf(table.rows, table.focus) /\ table.focus \in Nat
    BY DEF ShownInv, UpdatesTyped
<1>1. CASE Shown!PickUpdate
    <2>1. PICK i \in Shown!Pickable(table) : Shown!UpdatesItemChanged(i)
        BY <1>1 DEF Shown!PickUpdate
    <2>2. i \in {0} \cup DOMAIN table.rows /\ (i = 0 => table.selected # 0)
        BY <1>0, <2>1, NobodyPicks DEF Shown!Pickable
    <2> QED  BY <1>1, <2>1, <2>2, UpdatePicked DEF Shown!PickUpdate
<1>2. CASE Shown!ArrowDownUpdates
    <2>1. PICK i : i = Shown!Below(table)
        OBVIOUS
    <2>2. Len(table.rows) # 0
        BY <1>0, <1>2, ListsAreSequences DEF Shown!ArrowDownUpdates
    <2>3. PICK n \in Nat : Len(table.rows) = n /\ DOMAIN table.rows = 1 .. n
        BY <1>0, ListsAreSequences
    <2>4. i \in 1 .. n
        BY <1>0, <2>1, <2>2, <2>3 DEF Shown!Below, RowOf
    <2> QED
        BY <1>2, <2>1, <2>3, <2>4, UpdatePicked DEF Shown!ArrowDownUpdates
<1> QED  BY <1>1, <1>2

\* The commands that turn the page or the language, and the journal's own.
LEMMA PageTurns ==
    ASSUME ShownInv, Shown!SelectTab \/ Shown!SelectLanguage PROVE ShownInv'
<1>1. /\ updates' = updates /\ update' = update /\ scanning' = scanning /\ startup' = startup
      /\ journal' = journal /\ entry' = entry
      /\ tab' \in Shown!Tabs /\ tablesLanguage' \in TableLanguages
      /\ Shown!Render
    BY DEF Shown!SelectTab, Shown!SelectLanguage, Shown!scan, ShownInv, UpdatesTyped,
           JournalIsShown
<1>2. JournalIsShown'
    BY <1>1, JournalStays
<1>3. Shown!RefreshUpdateTable(table)
    BY <1>1 DEF Shown!Render, Shown!RenderOver
<1> QED  BY <1>1, <1>2, <1>3, UpdatesRendered DEF ShownInv

LEMMA JournalReplaced ==
    ASSUME ShownInv, Shown!ConfirmDelete \/ Shown!ConfirmClear \/ Shown!JournalLoaded
    PROVE  ShownInv'
<1>1. /\ updates' = updates /\ update' = update /\ scanning' = scanning /\ startup' = startup
      /\ tab' = tab /\ tablesLanguage' = tablesLanguage
      /\ Shown!Render
    BY DEF Shown!ConfirmDelete, Shown!ConfirmClear, Shown!JournalLoaded, Shown!scan
<1>2. /\ Shown!RefreshUpdateTable(table) /\ Shown!RebuildJournalList(list)
      /\ Shown!RefreshColumnHeadings
    BY <1>1 DEF Shown!Render, Shown!RenderOver
<1>3. PICK kind \in {"Loading", "Failed", "Ready"}, rows \in Histories :
          /\ journal' = [kind |-> kind, rows |-> rows]
          /\ kind # "Ready" => rows = <<>>
          /\ entry' = IF rows = <<>> THEN 0 ELSE 1
    BY ListsAreSequences DEF Shown!ConfirmDelete, Shown!ConfirmClear, Shown!JournalLoaded,
       Shown!NoRows, Shown!Ready
<1>4. rows # <<>> => 1 \in DOMAIN rows
    BY ListsAreSequences
<1>5. /\ journal' \in Shown!Journals
      /\ journal'.kind # "Ready" => journal'.rows = <<>>
      /\ RowOf(journal.rows, entry)' /\ (journal'.rows # <<>> => entry' # 0)
      /\ tablesLanguage' \in TableLanguages
    BY <1>1, <1>3, <1>4 DEF Shown!Journals, RowOf, ShownInv, JournalIsShown
<1>6. JournalIsShown'
    BY <1>2, <1>5, JournalRendered
<1>7. UpdatesTyped' /\ PickedIsShown'
    BY <1>1, <1>2, UpdatesRendered DEF ShownInv, UpdatesTyped
<1> QED  BY <1>6, <1>7 DEF ShownInv

\* Another list of updates is there, drawn when the page is open.
LEMMA UpdatesReplaced ==
    ASSUME ShownInv, NEW view \in Shown!Views, updates' = view,
           view.kind # "Ready" => view.rows = <<>>,
           Shown!Render, tab' = tab, journal' = journal, entry' = entry,
           tablesLanguage' = tablesLanguage,
           update' \in {0, update}, startup' \in {"running", "done", "late"},
           scanning' \in BOOLEAN,
           startup' # "late" =>
               /\ update = 0 \/ (tab = "Updates" /\ update' = 0 /\ view.rows = <<>>)
               /\ startup # "late" /\ (scanning' => view.kind = "Scanning")
    PROVE  ShownInv'
<1>1. JournalIsShown'
    <2>1. tablesLanguage' \in TableLanguages
        BY DEF ShownInv, JournalIsShown
    <2> QED  BY <2>1, JournalStays
<1>2. table' = IF tab = "Updates" /\ table.rows # view.rows
               THEN [rows |-> view.rows, selected |-> 0, focus |-> 0] ELSE table
    BY DEF Shown!Render, Shown!RenderOver, Shown!RefreshUpdateTable, Shown!Fresh
<1>3. UpdatesTyped'
    BY <1>2 DEF ShownInv, UpdatesTyped, RowOf, Shown!Views
<1>4. PickedIsShown'
    <2>1. SUFFICES ASSUME startup' # "late"
                   PROVE  /\ tab = "Updates" => table'.rows = view.rows
                          /\ table'.selected = update' /\ update' = 0
        BY DEF PickedIsShown
    <2>2. startup # "late" /\ table.selected = update
        BY <2>1 DEF ShownInv, PickedIsShown
    <2>3. tab = "Updates" => table'.rows = view.rows
        BY <1>2
    <2>4. update' = 0
        BY <2>1
    <2>5. table.selected = 0 => table'.selected = 0
        BY <1>2
    <2>6. CASE update = 0
        BY <2>2, <2>3, <2>4, <2>5, <2>6
    <2>7. CASE tab = "Updates" /\ view.rows = <<>>
        <3>1. table.rows = <<>> => table.selected = 0
            <4>1. DOMAIN <<>> = {}
                OBVIOUS
            <4> QED  BY <4>1 DEF ShownInv, UpdatesTyped, RowOf
        <3>2. table'.selected = 0
            BY <1>2, <2>7, <3>1
        <3> QED  BY <2>3, <2>4, <3>2
    <2> QED  BY <2>1, <2>6, <2>7
<1> QED  BY <1>1, <1>3, <1>4 DEF ShownInv

LEMMA UpdatesMove ==
    ASSUME ShownInv, Shown!BeginUpdatesScan \/ Shown!UpdatesScanned \/ Shown!StartupChecked
    PROVE  ShownInv'
<1>0. /\ tab' = tab /\ journal' = journal /\ entry' = entry /\ Shown!Render
      /\ tablesLanguage' = tablesLanguage
    BY DEF Shown!BeginUpdatesScan, Shown!UpdatesScanned, Shown!StartupChecked
<1>1. PICK view : view = updates'
    OBVIOUS
<1>2. CASE Shown!BeginUpdatesScan
    <2>1. /\ view = [kind |-> "Scanning", rows |-> <<>>] /\ update' = 0 /\ scanning' = TRUE
          /\ startup' = startup /\ tab = "Updates"
        BY <1>1, <1>2 DEF Shown!BeginUpdatesScan, Shown!NoRows
    <2>2. view \in Shown!Views /\ startup \in {"running", "done", "late"}
        BY <2>1, ListsAreSequences DEF Shown!Views, ShownInv, UpdatesTyped
    <2> QED  BY <1>0, <1>1, <2>1, <2>2, UpdatesReplaced
<1>3. CASE Shown!UpdatesScanned
    <2>1. PICK kind \in {"Scanning", "Unavailable", "Ready"}, rows \in Found :
              view = [kind |-> kind, rows |-> rows] /\ (kind # "Ready" => rows = <<>>)
        BY <1>1, <1>3, ListsAreSequences DEF Shown!UpdatesScanned, Shown!NoRows, Shown!Ready
    <2>2. /\ scanning = TRUE /\ startup' = startup
          /\ scanning' \in BOOLEAN /\ (scanning' => view.kind = "Scanning")
          /\ update' \in {0, update}
        <3>1. scanning /\ scanning' = (updates'.kind = "Scanning") /\ startup' = startup
              /\ update' = IF updates'.kind = "Ready" THEN update ELSE 0
            BY <1>3 DEF Shown!UpdatesScanned
        <3>2. scanning' \in BOOLEAN
            BY <3>1, Zenon
        <3>3. scanning' => view.kind = "Scanning"
            BY <1>1, <3>1
        <3> QED  BY <3>1, <3>2, <3>3 DEF ShownInv, UpdatesTyped
    <2>3. startup # "late" => update = 0
        BY <2>2 DEF ShownInv, PickedIsShown
    <2>4. view \in Shown!Views /\ startup \in {"running", "done", "late"}
        BY <2>1 DEF Shown!Views, ShownInv, UpdatesTyped
    <2> QED  BY <1>0, <1>1, <2>1, <2>2, <2>3, <2>4, UpdatesReplaced
<1>4. CASE Shown!StartupChecked
    <2>1. /\ startup = "running" /\ update' = update /\ scanning' = scanning
          /\ view = updates \/ \E rows \in Found : view = Shown!Ready(rows)
          /\ startup' = IF updates.kind = "Idle" \/ view = updates THEN "done" ELSE "late"
        BY <1>1, <1>4 DEF Shown!StartupChecked
    <2>2. CASE view = updates
        <3>1. updates' = updates /\ startup' = "done"
            BY <1>1, <2>1, <2>2
        <3>2. Shown!RefreshUpdateTable(table)
            BY <1>0 DEF Shown!Render, Shown!RenderOver
        <3>3. tablesLanguage' \in TableLanguages
            BY <1>0 DEF ShownInv, JournalIsShown
        <3>4. table' \in {table, [rows |-> updates.rows, selected |-> 0, focus |-> 0]}
            BY <3>1, <3>2 DEF Shown!RefreshUpdateTable, Shown!Fresh
        <3>5. UpdatesTyped'
            BY <1>0, <2>1, <3>1, <3>4 DEF ShownInv, UpdatesTyped, RowOf, Shown!Views
        <3>6. PickedIsShown'
            BY <1>0, <2>1, <3>1, <3>2 DEF ShownInv, PickedIsShown, UpdatesTyped,
               Shown!RefreshUpdateTable, Shown!Fresh
        <3> QED  BY <1>0, <3>3, <3>5, <3>6, JournalStays DEF ShownInv
    <2>3. CASE view # updates
        <3>1. PICK rows \in Found : view = [kind |-> "Ready", rows |-> rows]
            BY <2>1, <2>3 DEF Shown!Ready
        <3>2. view \in Shown!Views /\ view.kind = "Ready"
            BY <3>1 DEF Shown!Views
        <3>3. startup' # "late" => updates.kind = "Idle" /\ update = 0 /\ ~scanning'
            BY <2>1, <2>3 DEF ShownInv, PickedIsShown
        <3>4. scanning' \in BOOLEAN /\ startup' \in {"running", "done", "late"}
            BY <2>1 DEF ShownInv, UpdatesTyped
        <3> QED  BY <1>0, <1>1, <2>1, <3>2, <3>3, <3>4, UpdatesReplaced
    <2> QED  BY <2>2, <2>3
<1> QED  BY <1>2, <1>3, <1>4

LEMMA TablesRest == ASSUME ShownInv, UNCHANGED tablesVars PROVE ShownInv'
BY DEF tablesVars, ShownInv, UpdatesTyped, PickedIsShown, JournalIsShown, RowOf,
       Shown!JournalRows

LEMMA ShownStepKeepsInv == ASSUME ShownInv, [Shown!Next]_tablesVars PROVE ShownInv'
BY JournalPicks, UpdatePicks, PageTurns, JournalReplaced, UpdatesMove, TablesRest
   DEF Shown!Next

LEMMA TablesSay ==
    ASSUME ShownInv
    PROVE  /\ Shown!TypeOK
           /\ Shown!HighlightIsOpened /\ Shown!EmptyMeansEmpty
           /\ Shown!TablesSpeakTheLanguage
<1>1. Shown!TypeOK
    <2>1. DOMAIN list.rows = DOMAIN journal.rows /\ list.selected = 0 /\ list.focus = 0
        BY DEF ShownInv, JournalIsShown, Shown!Fresh, Shown!JournalRows
    <2> QED
        BY <2>1 DEF ShownInv, UpdatesTyped, JournalIsShown, RowOf, Shown!TypeOK
<1>2. Shown!HighlightIsOpened
    <2>1. SUFFICES ASSUME tab = "Updates", startup # "late"
                   PROVE  /\ table.rows = updates.rows /\ table.selected = update
                          /\ Shown!UpdatesDetails = "entry" <=> table.selected # 0
        BY DEF Shown!HighlightIsOpened
    <2>2. /\ table.rows = updates.rows /\ table.selected = update
          /\ updates.kind # "Ready" => update = 0
        BY <2>1 DEF ShownInv, PickedIsShown
    <2>3. updates.rows \in Found /\ updates.kind \in {"Idle", "Scanning", "Unavailable", "Ready"}
          /\ RowOf(updates.rows, update)
        BY <2>2 DEF ShownInv, UpdatesTyped, Shown!Views
    <2>4. 0 \notin DOMAIN updates.rows /\ DOMAIN <<>> = {}
        BY <2>3, NobodyPicks
    <2>5. Shown!UpdatesDetails = "entry" <=> update # 0
        BY <2>2, <2>3, <2>4 DEF Shown!UpdatesDetails, Shown!SelectedUpdate, RowOf
    <2> QED  BY <2>2, <2>5
<1>3. Shown!EmptyMeansEmpty
    <2>1. journal.kind \in {"Loading", "Failed", "Ready"} /\ journal.rows \in Histories
        BY DEF ShownInv, JournalIsShown, Shown!Journals
    <2> QED
        BY <2>1 DEF ShownInv, JournalIsShown, RowOf, Shown!EmptyMeansEmpty,
           Shown!JournalDetails, Shown!SelectedEntry
<1>4. Shown!TablesSpeakTheLanguage
    BY DEF ShownInv, JournalIsShown, Shown!Fresh, Shown!TablesSpeakTheLanguage
<1> QED  BY <1>1, <1>2, <1>3, <1>4

LEMMA ShownMoves ==
    ASSUME [PartsNext]_partsVars
    PROVE  /\ part' = part
           /\ part \in {"status", "file status"} => [Status!Next]_statusVars
           /\ part = "tables" => [Shown!Next]_tablesVars
BY DEF PartsNext, DraftStep, PickedStep, StatusStep, FileStatusStep, ShownStep,
       LayoutStep, DialogueStep, NeedingStep, Rest, Turn, partsVars

(* The sentence says ready when the gate is open and never beside work,    *)
(* the button that gives the region back stays, and a failure is that of   *)
(* the handoff on show, however many files are chosen (render.rs           *)
(* store_text_status, operation_status; state.rs                           *)
(* region_restore_is_available).  The highlighted row is the one the       *)
(* button opens, an empty journal is empty, rows and headings follow the   *)
(* language, whatever lists are found and loaded (render.rs:386,           *)
(* journal.rs:18, controls.rs:396).                                        *)
THEOREM ShownHolds == PartsSpec => []ShownIsTrue
<1> DEFINE Inv == /\ part \in {"status", "file status"} => StatusInv
                  /\ part = "tables" => ShownInv
<1>1. PartsInit => Inv
    BY StatusInit, ShownInit DEF PartsInit
<1>2. Inv /\ [PartsNext]_partsVars => Inv'
    BY ShownMoves, StatusStepKeepsInv, ShownStepKeepsInv
<1>3. Inv => ShownIsTrue
    BY StatusSays, TablesSay DEF ShownIsTrue
<1> QED
    BY <1>1, <1>2, <1>3, PTL DEF PartsSpec
==============================================================================
