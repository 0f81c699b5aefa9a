------------------------------ MODULE Handoff ------------------------------
(***************************************************************************)
(* One installer file handed to Microsoft Store under a temporary region:  *)
(* the thread that switches and launches (gui/handoff.rs run), the thread  *)
(* that puts the region back (restore), the window that shows where the    *)
(* handoff stands (gui/window.rs), and the next start, which finds the     *)
(* record a closed or killed process left.                                 *)
(***************************************************************************)
EXTENDS Naturals, Sequences, FiniteSets

CONSTANTS
    Regions, NoRegion,
    Files,           \* what the chosen path may hold
    Admissible,      \* of them, what the Store signer rule admits
    NoFile, NoRecord,
    MaxHandoffs      \* bound on the handoffs of a behaviour

ASSUME HandoffAssumption ==
    /\ NoRegion \notin Regions
    /\ Admissible \subseteq Files /\ NoFile \notin Files
    /\ MaxHandoffs \in Nat \ {0}

Handoffs == 1 .. MaxHandoffs

Stages == {"SwitchingRegion", "HandedOff", "RestoringRegion", "Restored",
           "FailedRegionSafe", "FailedWithTemporaryRegion"}

DurableStates == {"Prepared", "RegionSwitched", "RestoringRegion", "Restored"}

Results == {"Failed", "HandedOffToInstaller"}

Records == [original: Regions, temporary: Regions, state: DurableStates,
            handoff: Handoffs]

ASSUME RecordAssumption ==
    NoRecord \notin Records \cup [original: Regions, temporary: Regions]

VARIABLES
    region,      \* the region in force
    owed,        \* history: the region taken and not given back
    record,      \* the published recovery record
    file,        \* what the chosen path holds now
    thread,      \* the thread at work for a handoff, or for its recovery
    posts,       \* stages posted and not yet handled
    window,      \* the stage shown; "none", "starting", or the process is gone
    admits,      \* recovery_admits_new_operation
    undecided,   \* a start found a record and has not settled it yet
    begun,       \* number of handoffs begun
    started,     \* history: handoffs whose installer was started
    entries,     \* results in the history, by handoff
    kept         \* a downloaded installer lies in its folder

vars == <<region, owed, record, file, thread, posts, window, admits, undecided,
          begun, started, entries, kept>>

\* The worlds an action of the thread may leave alone.
shown == <<window, admits, undecided, begun, kept>>
disk == <<region, owed, record>>

Threads ==
    [at: {"idle", "inspect", "read", "save", "write", "readback", "unwind",
          "mark", "launch", "putback", "putcheck", "putmark", "reject",
          "load", "classify", "verify", "compare", "rewrite", "recheck",
          "finish", "remove", "tell"},
     who: {"nobody", "run", "restore", "start"},
     handoff: 0 .. MaxHandoffs,
     confirmed: Files \cup {NoFile},
     temporary: Regions \cup {NoRegion},
     pending: Records \cup {NoRecord},
     expected: Regions \cup {NoRegion}]

Idle == [at |-> "idle", who |-> "nobody", handoff |-> 0, confirmed |-> NoFile,
         temporary |-> NoRegion, pending |-> NoRecord, expected |-> NoRegion]

RequiresRecovery == {"HandedOff", "RestoringRegion", "FailedWithTemporaryRegion"}
OffersRegionRestore == {"HandedOff", "FailedWithTemporaryRegion"}
Finished == {"Restored", "FailedRegionSafe"}
Gone == {"closed", "off"}

-----------------------------------------------------------------------------
(* What the steps share.                                                   *)

Goes(where) == thread' = [thread EXCEPT !.at = where]

Post(stage) == posts' = Append(posts, stage)

Ends(stage) == thread' = Idle /\ Post(stage)

\* The history is written best-effort.
Tells(handoff, result) ==
    entries' \in {entries, [entries EXCEPT ![handoff] = @ \cup {result}]}

Publish(pending) ==
    /\ record # NoRecord => record.handoff = pending.handoff
    /\ record' = pending
    /\ UNCHANGED <<region, owed>>

\* One that fails may have moved the record into place.
NotPublished(pending) == UNCHANGED disk \/ Publish(pending)

ClearVerified(pending) ==
    /\ record = pending
    /\ record' = NoRecord
    /\ UNCHANGED <<region, owed>>

WriteTemporary ==
    /\ region' = thread.temporary
    /\ owed' = IF thread.temporary = thread.pending.original THEN NoRegion
               ELSE thread.pending.original
    /\ UNCHANGED record

WriteOriginal ==
    /\ region' = thread.pending.original
    /\ owed' = NoRegion
    /\ UNCHANGED record

-----------------------------------------------------------------------------
(* The handoff's thread (handoff.rs run).                                  *)

Run(at) == thread.at = at /\ UNCHANGED <<file, shown>>

\* A file that cannot be inspected, is refused, or is not the confirmed one
\* stops the handoff before anything is written.
AdmitConfirmed(f) == f \in Admissible /\ f = thread.confirmed

Inspect ==
    /\ Run("inspect")
    /\ UNCHANGED <<disk, started, entries>>
    /\ \/ Ends("FailedRegionSafe")
       \/ AdmitConfirmed(file) /\ Goes("read") /\ UNCHANGED posts

ReadOriginal ==
    /\ Run("read")
    /\ UNCHANGED <<disk, started, entries>>
    /\ \/ Ends("FailedRegionSafe")
       \/ /\ thread' = [thread EXCEPT !.at = "save", !.pending =
                            [original |-> region, temporary |-> thread.temporary,
                             state |-> "Prepared", handoff |-> thread.handoff]]
          /\ UNCHANGED posts

\* A switch that cannot be classified: one entry, and the record stays.
SwitchFails ==
    /\ Tells(thread.handoff, "Failed")
    /\ Ends("FailedWithTemporaryRegion")
    /\ UNCHANGED started

\* switch_region reads the original again: the guard takes no other.
SavePrepared ==
    /\ Run("save")
    /\ \/ SwitchFails /\ UNCHANGED disk
       \/ /\ region = thread.pending.original
          /\ Publish(thread.pending)
          /\ SwitchFails
       \/ /\ region = thread.pending.original
          /\ Publish(thread.pending)
          /\ Goes("write")
          /\ UNCHANGED <<posts, started, entries>>

\* A writer error does not stop the read-back.
Write ==
    /\ Run("write")
    /\ WriteTemporary \/ UNCHANGED disk
    /\ Goes("readback")
    /\ UNCHANGED <<posts, started, entries>>

ReadBack ==
    /\ Run("readback")
    /\ UNCHANGED <<disk, started>>
    /\ \/ SwitchFails
       \/ /\ region = thread.temporary
          /\ Goes("mark") /\ UNCHANGED <<posts, entries>>
       \/ /\ region # thread.temporary /\ region = thread.pending.original
          /\ Goes("unwind") /\ UNCHANGED <<posts, entries>>

Unwind ==
    /\ Run("unwind")
    /\ \/ SwitchFails /\ UNCHANGED disk
       \/ /\ ClearVerified(thread.pending)
          /\ Ends("FailedRegionSafe")
          /\ UNCHANGED <<started, entries>>

\* The milestone of the switch; a failure to publish it is ignored.
MarkSwitched ==
    /\ Run("mark")
    /\ UNCHANGED <<posts, started, entries>>
    /\ LET switched == [thread.pending EXCEPT !.state = "RegionSwitched"]
       IN  \/ Goes("launch") /\ NotPublished(switched)
           \/ /\ Publish(switched)
              /\ thread' = [thread EXCEPT !.at = "launch", !.pending = switched]

LaunchConfirmed ==   \* mutated
    /\ Run("launch")
    /\ UNCHANGED <<disk, entries>>
    /\ \/ Ends("FailedWithTemporaryRegion") /\ UNCHANGED started
       \/ started' = started \cup {thread.handoff} /\ Ends("HandedOff")
       \/ Goes("putback") /\ UNCHANGED <<posts, started>>
ReportFirst ==   \* mutated
    /\ Run("launch")
    /\ UNCHANGED <<disk, entries>>
    /\ \/ Ends("FailedWithTemporaryRegion") /\ UNCHANGED started
       \/ /\ AdmitConfirmed(file)
          /\ \/ started' = started \cup {thread.handoff} /\ Ends("HandedOff")
             \/ /\ Goes("putback") /\ Post("FailedWithTemporaryRegion")
                /\ UNCHANGED started
\* The file answers once more, with nothing between the answer and the launch.
Launch ==
    /\ Run("launch")
    /\ UNCHANGED <<disk, entries>>
    /\ \/ Ends("FailedWithTemporaryRegion") /\ UNCHANGED started
       \/ /\ AdmitConfirmed(file)
          /\ \/ started' = started \cup {thread.handoff} /\ Ends("HandedOff")
             \/ Goes("putback") /\ UNCHANGED <<posts, started>>

\* A rejected launch: one attempt to put the region back, without a loop.
PutBack ==
    /\ Run("putback")
    /\ \/ WriteOriginal /\ Goes("putcheck")
       \/ Goes("reject") /\ UNCHANGED disk
    /\ UNCHANGED <<posts, started, entries>>

PutCheck ==
    /\ Run("putcheck")
    /\ \/ Goes("reject")
       \/ region = thread.pending.original /\ Goes("putmark")
    /\ UNCHANGED <<disk, posts, started, entries>>

PutMark ==
    /\ Run("putmark")
    /\ LET restored == [thread.pending EXCEPT !.state = "Restored"]
       IN  \/ Goes("reject") /\ NotPublished(restored)
           \/ /\ Publish(restored)
              /\ thread' = [thread EXCEPT !.at = "reject", !.pending = restored]
    /\ UNCHANGED <<posts, started, entries>>

Reject ==
    /\ Run("reject")
    /\ Tells(thread.handoff, "Failed")
    /\ IF thread.pending.state = "Restored"
       THEN /\ ClearVerified(thread.pending) \/ UNCHANGED disk
            /\ Ends("FailedRegionSafe")
       ELSE Ends("FailedWithTemporaryRegion") /\ UNCHANGED disk
    /\ UNCHANGED started

RunStep ==
    \/ Inspect \/ ReadOriginal \/ SavePrepared \/ Write \/ ReadBack \/ Unwind
    \/ MarkSwitched \/ Launch \/ PutBack \/ PutCheck \/ PutMark \/ Reject

-----------------------------------------------------------------------------
(* Putting the region back: the button's thread (handoff.rs restore), or   *)
(* the dialog of the next start, on the window's own thread; both through  *)
(* execute_pending_recovery_action.                                        *)

\* What an inspection finds, and what it cleans.
Inspection ==
    \/ admits' = FALSE /\ UNCHANGED disk
    \/ record = NoRecord /\ admits' = TRUE /\ UNCHANGED disk
    \/ /\ record # NoRecord /\ region = record.original
       /\ ClearVerified(record) /\ admits' = TRUE

Unshown == <<file, undecided, begun, kept, started>>

Load ==
    /\ thread.at = "load"
    /\ UNCHANGED <<file, shown, disk, started, entries>>
    /\ \/ thread' = Idle /\ posts' = posts \o <<"RestoringRegion", "FailedRegionSafe">>
       \/ /\ record = NoRecord
          /\ thread' = Idle /\ posts' = posts \o <<"RestoringRegion", "Restored">>
       \/ /\ record # NoRecord
          /\ thread' = [thread EXCEPT !.at = "classify", !.pending = record]
          /\ Post("RestoringRegion")

\* The record stays for another attempt, or for the next start.
StaysPending ==
    IF thread.who = "restore"
    THEN Ends("FailedWithTemporaryRegion") /\ UNCHANGED <<disk, window, admits>>
    ELSE thread' = Idle /\ window' = "none" /\ Inspection /\ UNCHANGED posts

\* So it does if its next milestone failed after the move.
StaysPublished(pending) ==
    /\ Publish(pending)
    /\ IF thread.who = "restore"
       THEN Ends("FailedWithTemporaryRegion") /\ UNCHANGED <<window, admits>>
       ELSE /\ thread' = Idle /\ window' = "none" /\ admits' = FALSE
            /\ UNCHANGED posts

Classify ==
    /\ thread.at = "classify"
    /\ UNCHANGED <<Unshown, entries>>
    /\ \/ StaysPending
       \/ /\ UNCHANGED <<disk, posts, window, admits>>
          /\ IF region = thread.pending.original
             THEN Goes("verify")
             ELSE thread' = [thread EXCEPT !.at = "compare", !.expected = region]

\* The original region is active: read back again, then remove the record.
VerifyAndClear ==
    /\ thread.at = "verify"
    /\ UNCHANGED <<Unshown, entries>>
    /\ \/ StaysPending
       \/ /\ region = thread.pending.original
          /\ ClearVerified(thread.pending)
          /\ Goes("tell") /\ UNCHANGED <<posts, window, admits>>

\* A region that moved since it was classified is left alone.
CompareAndPublish ==
    /\ thread.at = "compare"
    /\ UNCHANGED <<Unshown, entries>>
    /\ LET restoring == [thread.pending EXCEPT !.state = "RestoringRegion"]
       IN  \/ StaysPending
           \/ region = thread.expected /\ StaysPublished(restoring)
           \/ /\ region = thread.expected
              /\ Publish(restoring)
              /\ thread' = [thread EXCEPT !.at = "rewrite", !.pending = restoring]
              /\ UNCHANGED <<posts, window, admits>>

Rewrite ==
    /\ thread.at = "rewrite"
    /\ WriteOriginal \/ UNCHANGED disk
    /\ Goes("recheck")
    /\ UNCHANGED <<Unshown, entries, posts, window, admits>>

RecheckNothing ==   \* mutated
    /\ thread.at = "recheck"
    /\ UNCHANGED <<Unshown, entries>>
    /\ \/ StaysPending
       \/ Goes("finish") /\ UNCHANGED <<disk, posts, window, admits>>
Recheck ==
    /\ thread.at = "recheck"
    /\ UNCHANGED <<Unshown, entries>>
    /\ \/ StaysPending
       \/ /\ region = thread.pending.original
          /\ Goes("finish") /\ UNCHANGED <<disk, posts, window, admits>>

PublishRestored ==
    /\ thread.at = "finish"
    /\ UNCHANGED <<Unshown, entries>>
    /\ LET restored == [thread.pending EXCEPT !.state = "Restored"]
       IN  \/ StaysPending \/ StaysPublished(restored)
           \/ /\ Publish(restored)
              /\ thread' = [thread EXCEPT !.at = "remove", !.pending = restored]
              /\ UNCHANGED <<posts, window, admits>>

Remove ==
    /\ thread.at = "remove"
    /\ UNCHANGED <<Unshown, entries>>
    /\ \/ StaysPending
       \/ /\ ClearVerified(thread.pending)
          /\ Goes("tell") /\ UNCHANGED <<posts, window, admits>>

\* Both routes write the same entry; the start then inspects again.
TellRestored ==
    /\ thread.at = "tell"
    /\ Tells(thread.pending.handoff, "HandedOffToInstaller")
    /\ UNCHANGED Unshown
    /\ IF thread.who = "restore"
       THEN Ends("Restored") /\ UNCHANGED <<disk, window, admits>>
       ELSE thread' = Idle /\ window' = "none" /\ Inspection /\ UNCHANGED posts

RestoreStep ==
    \/ Load \/ Classify \/ VerifyAndClear \/ CompareAndPublish \/ Rewrite
    \/ Recheck \/ PublishRestored \/ Remove \/ TellRestored

-----------------------------------------------------------------------------
(* The window.                                                             *)

\* A region the recovery still admits, an inspected file, a confirmation.
BeginHandoff ==
    /\ window \in Finished \cup {"none"} /\ admits /\ begun < MaxHandoffs
    /\ window' = "SwitchingRegion"
    /\ begun' = begun + 1
    /\ \E f \in Admissible, r \in Regions :
           thread' = [Idle EXCEPT !.at = "inspect", !.who = "run",
                                  !.handoff = begun + 1, !.confirmed = f,
                                  !.temporary = r]
    /\ Post("SwitchingRegion")
    /\ kept' \in {kept, TRUE}
    /\ UNCHANGED <<disk, file, admits, undecided, started, entries>>

BeginRegionRestore ==
    /\ window \in OffersRegionRestore
    /\ window' = "RestoringRegion"
    /\ thread' = [Idle EXCEPT !.at = "load", !.who = "restore"]
    /\ UNCHANGED <<disk, file, posts, admits, undecided, begun, started,
                   entries, kept>>

\* The history is read again and the installers are deleted when the region
\* could be restored before the message and cannot be after it.
ApplyHandoffUpdate ==
    /\ posts # <<>> /\ window \notin Gone \cup {"none", "starting"}
    /\ window' = Head(posts) /\ posts' = Tail(posts)
    /\ kept' = (kept /\ ~( /\ window \in OffersRegionRestore
                           /\ Head(posts) \notin OffersRegionRestore))
    /\ UNCHANGED <<disk, file, thread, admits, undecided, begun, started, entries>>

\* A new draft replaces the message of a finished handoff.
ForgetFinishedHandoff ==
    /\ window \in Finished /\ posts = <<>>
    /\ window' = "none"
    /\ UNCHANGED <<disk, file, thread, posts, admits, undecided, begun, started,
                   entries, kept>>

\* Closing asks while the stage shown requires recovery; the user says yes.
RequestWindowClose ==
    /\ window \notin Gone \cup {"starting"}
    /\ window' = "closed"
    /\ thread' = Idle /\ posts' = <<>> /\ undecided' = FALSE
    /\ UNCHANGED <<disk, file, admits, begun, started, entries, kept>>

Crash ==
    /\ window \notin Gone
    /\ window' = "off"
    /\ thread' = Idle /\ posts' = <<>> /\ undecided' = FALSE
    /\ UNCHANGED <<disk, file, admits, begun, started, entries, kept>>

\* The next start inspects, sweeps the installers, and has a record probed.
Start ==
    /\ window \in Gone
    /\ window' = "none"
    /\ Inspection
    /\ undecided' = (record' # NoRecord)
    /\ kept' = FALSE
    /\ UNCHANGED <<file, thread, posts, begun, started, entries>>

\* The answer of the probe: inspected again, and the user is asked.
SettlePendingRecovery ==
    /\ window = "none" /\ undecided
    /\ undecided' = FALSE
    /\ UNCHANGED <<file, posts, begun, started, entries, kept>>
    /\ \/ Inspection /\ UNCHANGED <<thread, window>>
       \/ /\ record # NoRecord /\ region # record.original
          /\ thread' = [Idle EXCEPT !.at = "compare", !.who = "start",
                                    !.pending = record, !.expected = region]
          /\ window' = "starting"
          /\ UNCHANGED <<disk, admits>>

\* The user, or Windows, chooses a region.
UserMoves ==
    /\ region' \in Regions \ {region}
    /\ owed' = NoRegion
    /\ UNCHANGED <<record, file, thread, posts, shown, started, entries>>

\* The path comes to hold other bytes; not between the last look and the launch.
FileChanges ==
    /\ file' \in Files \ {file}
    /\ UNCHANGED <<disk, thread, posts, shown, started, entries>>

Init ==
    /\ region \in Regions /\ owed = NoRegion /\ record = NoRecord
    /\ file \in Files
    /\ thread = Idle /\ posts = <<>>
    /\ window = "none" /\ admits = TRUE /\ undecided = FALSE
    /\ begun = 0 /\ started = {}
    /\ entries = [h \in Handoffs |-> {}]
    /\ kept = FALSE

Next ==
    \/ RunStep \/ RestoreStep
    \/ BeginHandoff \/ BeginRegionRestore \/ ApplyHandoffUpdate
    \/ ForgetFinishedHandoff \/ RequestWindowClose \/ Crash
    \/ Start \/ SettlePendingRecovery
    \/ UserMoves \/ FileChanges

Spec == Init /\ [][Next]_vars

\* A thread that was started goes on, and the window handles what was posted.
Fairness == WF_vars(RunStep \/ RestoreStep) /\ WF_vars(ApplyHandoffUpdate)

FairSpec == Spec /\ Fairness

-----------------------------------------------------------------------------
TypeOK ==
    /\ region \in Regions /\ owed \in Regions \cup {NoRegion}
    /\ record \in Records \cup {NoRecord}
    /\ file \in Files
    /\ thread \in Threads
    /\ posts \in Seq(Stages)
    /\ window \in Stages \cup Gone \cup {"none", "starting"}
    /\ admits \in BOOLEAN /\ undecided \in BOOLEAN /\ kept \in BOOLEAN
    /\ begun \in 0 .. MaxHandoffs /\ started \subseteq Handoffs
    /\ entries \in [Handoffs -> SUBSET Results]

(* The region taken for a handoff is on disk before it is taken, stays     *)
(* there as long as it is owed, and no handoff replaces the record of      *)
(* another (handoff.rs run and restore, core/region.rs, startup.rs).       *)
Promise == INSTANCE RegionPromise WITH
    Nothing <- NoRecord,
    saved <- IF record = NoRecord THEN NoRecord
             ELSE [original |-> record.original, temporary |-> record.temporary]
ImplementsPromise == Promise!Spec

(* An installer is started only while the record of its own handoff is     *)
(* published and says where the region came from, and only if the path     *)
(* holds the confirmed and admitted bytes (handoff.rs:305-330).            *)
LaunchIsCovered ==
    [][ \A h \in started' \ started :
            /\ record # NoRecord /\ record.handoff = h
            /\ record.temporary = thread.temporary
            /\ file \in Admissible /\ file = thread.confirmed ]_vars

(* When run says the region is safe, it owes the user nothing: the region  *)
(* was not taken, or was put back and read back (handoff.rs:370). What an  *)
(* earlier handoff still owes is under that one's record.                  *)
RunEndsSafely ==
    [][ thread.who = "run" /\ thread'.who = "nobody" /\ posts' # posts
            /\ posts' # <<>> /\ posts'[Len(posts')] = "FailedRegionSafe"
        => owed = NoRegion \/ record.handoff # thread.handoff ]_vars

(* A handoff is covered from its launch to the end of its run: both of the *)
(* above.                                                                  *)
HandoffIsCovered == LaunchIsCovered /\ RunEndsSafely

(* A command that starts a thread is only offered when none is at work and *)
(* nothing it posted is waiting (state.rs:504-547): the stages shown and   *)
(* the threads never cross.                                                *)
NobodyElseWorks ==
    window \in OffersRegionRestore \cup Finished \cup {"none"}
        => thread = Idle /\ posts = <<>>

(* A stage that says work is under way gives way: every branch of both     *)
(* threads ends with a stage the user can act on (handoff.rs:155-466).     *)
WindowIsReleased ==
    window \in {"SwitchingRegion", "RestoringRegion"}
        ~> window \notin {"SwitchingRegion", "RestoringRegion"}

-----------------------------------------------------------------------------
(* Sentences of the source that the code does not keep.                    *)

(* "The installer was started under the temporary region and took over"    *)
(* (journal.rs:33): restore writes it for a handoff that started nothing.  *)
HandedOffWasStarted ==
    \A h \in Handoffs : "HandedOffToInstaller" \in entries[h] => h \in started

(* "Write this handoff's one history entry" (handoff.rs:522).              *)
OneEntry == \A h \in Handoffs : Cardinality(entries[h]) <= 1

(* FailedRegionSafe: "nothing is pending" (handoff.rs:55).                 *)
SafeMeansNothingPending == window = "FailedRegionSafe" => record = NoRecord

(* FailedWithTemporaryRegion: "a recovery record is still published"       *)
(* (handoff.rs:57).                                                        *)
TemporaryMeansPublished ==
    [][ thread.who = "run" /\ thread'.who = "nobody" /\ posts' # posts
            /\ posts' # <<>> /\ posts'[Len(posts')] = "FailedWithTemporaryRegion"
        => record # NoRecord ]_vars

(* "Ask before closing while a handoff still holds the temporary region"   *)
(* (window.rs:539).                                                        *)
AskedBeforeClosing ==
    [][ window' = "closed" /\ window \in Stages \ RequiresRecovery
        => owed = NoRegion ]_vars

(* "They are deleted when the handoff ends" (README.md:296).               *)
InstallersAreSwept == window = "Restored" => ~kept

(* "rather than leaving a handoff with no trace at all" (handoff.rs:472):  *)
(* the record of a started handoff goes only into an entry, or into the    *)
(* hands of the step that writes one.                                      *)
StartedLeavesTrace ==
    [][ record # NoRecord /\ record' = NoRecord /\ record.handoff \in started
        => thread'.at = "tell" \/ entries[record.handoff] # {} ]_vars

=============================================================================
