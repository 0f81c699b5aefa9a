-------------------------- MODULE RecoveryDialogue --------------------------
(***************************************************************************)
(* What a start says and does about the record of an earlier run:          *)
(* WM_CREATE inspects it, a probe asks whether its installation still      *)
(* runs, and settle_pending_recovery (gui/window.rs) then asks the user,   *)
(* carries out the answer step by step (core/recovery/startup.rs) and      *)
(* tells what came of it (gui/recovery.rs).  Windows' region may be        *)
(* changed by others at any time, also while the question is open; every   *)
(* read, publication and removal may fail.                                 *)
(*                                                                         *)
(* The files behind the record are RecoveryFile's, the other sentences of  *)
(* the status StatusLine's.                                                *)
(***************************************************************************)

States == {"Prepared", "RegionSwitched", "InstallRequested", "CompletionUncertain",
           "RegionRestoredEarly", "RestoringRegion", "Restored"}
Places == {"original", "temporary", "other"}
NoRecord == "none"

(* outcome_is_still_open                                                   *)
OpenStates == {"RegionRestoredEarly"}

VARIABLES
  pc,       \* where the dialogue stands
  region,   \* Windows' region
  record,   \* the published record: its milestone
  handoff,  \* the record is of a handoff
  history,  \* the history has an entry of the operation
  shown,    \* the region the question named
  status,   \* the kind of sentence in the status
  gate,     \* recovery_admits_new_operation
  ready,    \* all else a new installation needs is there
  owed,     \* ghost: the record was found without outcome
  wrote     \* ghost: the dialogue called the writer

vars == <<pc, region, record, handoff, history, shown, status, gate, ready, owed, wrote>>
fixed == <<handoff, ready>>

(***************************************************************************)
(* inspect_startup_recovery: the record, the region, and the removal of a  *)
(* record whose region is back and whose outcome is known.                 *)
(***************************************************************************)
Inspected(found) ==
  \/ found = "error" /\ UNCHANGED record
  \/ found = "nothing" /\ record = NoRecord /\ UNCHANGED record
  \/ /\ record # NoRecord /\ region # "original"
     /\ found = "decision" /\ UNCHANGED record
  \/ /\ record \in OpenStates /\ region = "original"
     /\ found = "withoutOutcome" /\ UNCHANGED record
  \/ /\ record \in States \ OpenStates /\ region = "original"
     /\ found = "cleaned" /\ record' = NoRecord

Findings == {"error", "nothing", "decision", "withoutOutcome", "cleaned"}

UnknownAdmits(found) == found # "decision" /\ found # "withoutOutcome"   \* mutated

Admits(found) == found \in {"nothing", "cleaned"}

(* The notice about what was found.                                        *)
Notice(found) ==
  CASE found = "error" -> "blocked"
    [] found = "cleaned" -> "cleaned"
    [] found \in {"decision", "withoutOutcome"} -> "required"
    [] OTHER -> "source"

(***************************************************************************)
(* The start and the probe.                                                *)
(***************************************************************************)
Create ==
  /\ pc = "create"
  /\ \E found \in Findings :
       /\ Inspected(found)
       /\ gate' = Admits(found)
       /\ status' = IF gate' /\ ready THEN "source" ELSE Notice(found)
       /\ pc' = IF found \in {"decision", "withoutOutcome"} THEN "probing" ELSE "over"
  /\ UNCHANGED <<region, history, shown, owed, wrote, fixed>>

(* The installation still runs and is taken over; a handoff has none that  *)
(* could be.                                                               *)
FollowResumed ==
  /\ pc = "probing" /\ ~handoff
  /\ status' = "resumed" /\ pc' = "followed"
  /\ UNCHANGED <<region, record, history, shown, gate, owed, wrote, fixed>>

(* Nothing to take over: the record is inspected again.                    *)
Settle ==
  /\ pc = "probing"
  /\ \E found \in Findings :
       /\ Inspected(found)
       /\ pc' = CASE found = "decision" -> "asking"
                  [] found = "withoutOutcome" -> "recording"
                  [] found = "nothing" -> "over"
                  [] OTHER -> "reinspect"
       /\ owed' = (found = "withoutOutcome")
  /\ shown' = region
  /\ UNCHANGED <<region, history, status, gate, wrote, fixed>>

(***************************************************************************)
(* The execution of an action. Tell is recovery_execution_status.          *)
(***************************************************************************)
Tell(outcome) == status' = outcome /\ pc' = "reinspect"

KeepCurrentRegion ==
  /\ pc = "asking"
  /\ Tell("retained")
  /\ UNCHANGED <<region, record, history, shown, gate, owed, wrote, fixed>>

AskToRestore ==
  /\ pc = "asking"
  /\ pc' = "reading"
  /\ UNCHANGED <<region, record, history, shown, status, gate, owed, wrote, fixed>>

Conflict == Tell("conflict")

(* The writer runs only if the region is still the one that was shown.     *)
ReadRegion ==
  /\ pc = "reading"
  /\ \/ Tell("preserved")
     \/ region # shown /\ Conflict
     \/ region = shown /\ pc' = "publishing" /\ UNCHANGED status
  /\ UNCHANGED <<region, record, history, shown, gate, owed, wrote, fixed>>

PublishUnchecked(state, next) ==   \* mutated
  record' \in {record, state} /\ pc' = next /\ UNCHANGED status

(* A publication that fails may have been moved into place.                *)
Publish(state, next) ==
  \/ record' \in {record, state} /\ Tell("preserved")
  \/ record' = state /\ pc' = next /\ UNCHANGED status

PublishRestoring ==
  /\ pc = "publishing"
  /\ Publish("RestoringRegion", "writing")
  /\ UNCHANGED <<region, history, shown, gate, owed, wrote, fixed>>

WriteRegion ==
  /\ pc = "writing"
  /\ region' \in {region, "original"}
  /\ wrote' = TRUE
  /\ pc' = "readingBack"
  /\ UNCHANGED <<record, history, shown, status, gate, owed, fixed>>

ReadBack ==
  /\ pc = "readingBack"
  /\ \/ Tell("preserved")
     \/ region # "original" /\ Conflict
     \/ region = "original" /\ pc' = "confirming" /\ UNCHANGED status
  /\ UNCHANGED <<region, record, history, shown, gate, owed, wrote, fixed>>

PublishRestored ==
  /\ pc = "confirming"
  /\ Publish("Restored", "clearing")
  /\ UNCHANGED <<region, history, shown, gate, owed, wrote, fixed>>

NotCleared == Tell("restored") /\ UNCHANGED <<record, history>>   \* mutated

ClearFails == Tell("preserved") /\ UNCHANGED <<record, history>>

(* A restored handoff gets its history entry here, which may not succeed.  *)
ClearRestored ==
  /\ pc = "clearing"
  /\ \/ ClearFails
     \/ /\ record' = NoRecord
        /\ history' \in {history, history \/ handoff}
        /\ Tell("restored")
  /\ UNCHANGED <<region, shown, gate, owed, wrote, fixed>>

(***************************************************************************)
(* A record without outcome: its entry is written, or not, and the record  *)
(* is removed if the region is still the original one.                     *)
(***************************************************************************)
RecordWithoutOutcome ==
  /\ pc = "recording"
  /\ history' \in {history, TRUE}
  /\ pc' = "verifying"
  /\ UNCHANGED <<region, record, shown, status, gate, owed, wrote, fixed>>

VerifyOriginal ==
  /\ pc = "verifying"
  /\ \/ Tell("preserved")
     \/ region # "original" /\ Conflict
     \/ region = "original" /\ pc' = "clearingOpen" /\ UNCHANGED status
  /\ UNCHANGED <<region, record, history, shown, gate, owed, wrote, fixed>>

ClearWithoutOutcome ==
  /\ pc = "clearingOpen"
  /\ \/ ClearFails
     \/ record' = NoRecord /\ Tell("recorded") /\ UNCHANGED history
  /\ UNCHANGED <<region, shown, gate, owed, wrote, fixed>>

(***************************************************************************)
(* The last inspection sets the gate.                                      *)
(***************************************************************************)
Reinspect ==
  /\ pc = "reinspect"
  /\ \E found \in Findings :
       /\ Inspected(found)
       /\ gate' = Admits(found)
       /\ status' = IF gate' /\ ready THEN "source" ELSE status
  /\ pc' = "over"
  /\ UNCHANGED <<region, history, shown, owed, wrote, fixed>>

(* Windows' region is changed elsewhere.                                   *)
RegionChanges ==
  /\ region' \in Places \ {region}
  /\ UNCHANGED <<pc, record, history, shown, status, gate, owed, wrote, fixed>>

(* Whatever an earlier run left.                                           *)
Init ==
  /\ pc = "create"
  /\ region \in Places
  /\ record \in States \cup {NoRecord}
  /\ handoff \in BOOLEAN /\ history \in BOOLEAN /\ ready \in BOOLEAN
  /\ handoff => record \notin OpenStates
  /\ shown = "none"
  /\ status = "source"
  /\ gate = FALSE /\ owed = FALSE /\ wrote = FALSE

Program ==
  \/ Create \/ FollowResumed \/ Settle
  \/ KeepCurrentRegion \/ AskToRestore
  \/ ReadRegion \/ PublishRestoring \/ WriteRegion \/ ReadBack
  \/ PublishRestored \/ ClearRestored
  \/ RecordWithoutOutcome \/ VerifyOriginal \/ ClearWithoutOutcome
  \/ Reinspect

Next == Program \/ RegionChanges

(* The probe's thread ends, the user answers, the window's thread goes on. *)
Spec == Init /\ [][Next]_vars /\ WF_vars(Program)

(***************************************************************************)
(* Properties.                                                             *)
(***************************************************************************)
TypeOK ==
  /\ pc \in {"create", "probing", "followed", "asking", "reading", "publishing", "writing",
             "readingBack", "confirming", "clearing", "recording", "verifying",
             "clearingOpen", "reinspect", "over"}
  /\ region \in Places /\ shown \in Places \cup {"none"}
  /\ pc \in {"asking", "reading", "publishing"} => shown \in {"temporary", "other"}
  /\ record \in States \cup {NoRecord}
  /\ status \in {"source", "required", "cleaned", "blocked", "resumed", "retained",
                 "conflict", "preserved", "restored", "recorded"}
  /\ {handoff, history, gate, ready, owed, wrote} \subseteq BOOLEAN

(* A new operation is admitted only where no record is published, whatever *)
(* failed on the way there (startup.rs:99).                                *)
GateIsSafe == gate => record = NoRecord

(* Once the writer was called, the record names the restoration, so that a *)
(* crash at any later step meets a record that knows of it; it goes only   *)
(* after the read-back (startup.rs:217).                                   *)
MilestoneBeforeWrite ==
  wrote => record \in {"RestoringRegion", "Restored", NoRecord}

(* The texts that say the record was removed are true, and the one that    *)
(* says the region was left unchanged is (en.toml:497-501).                *)
OutcomeIsTrue ==
  /\ status \in {"restored", "recorded"} => record = NoRecord
  /\ status = "restored" => wrote
  /\ status = "retained" => ~wrote

(* The dialogue ends, however often others change the region meanwhile     *)
(* (window.rs settle_pending_recovery).                                    *)
Settles == <>(pc \in {"over", "followed"})

(* What a test asserts of the text (recovery.rs:282): "a conflict must     *)
(* state that nothing happened", and startup.rs:194 "so no writer call was *)
(* made".                                                                  *)
ConflictWritesNothing == status = "conflict" => ~wrote

(* What the text of a conflict and of a failure says (en.toml:446, :502):  *)
(* the record is preserved.                                                *)
PreservedIsThere == status \in {"conflict", "preserved"} => record # NoRecord

(* What the comment says of a record without outcome (window.rs:735): it   *)
(* is owed its history entry, "after that it may go".                      *)
EntryBeforeRemoval == owed /\ record = NoRecord => history

(* What the comment in the arm without a question says (window.rs:758):    *)
(* the notice has already said what was found; it says that a new          *)
(* installation is blocked (en.toml:494).                                  *)
RequiredIsBlocked == status = "required" => ~gate
=============================================================================
