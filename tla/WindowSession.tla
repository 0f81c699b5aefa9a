---------------------------- MODULE WindowSession ----------------------------
(***************************************************************************)
(* The window beside the threads of the operations it began: the messages  *)
(* they post, the dialogues that hold those messages back, the question at *)
(* a deadline, the closing of the window with its own recovery, and the    *)
(* one record and region they all share (gui/window.rs, gui/state.rs,      *)
(* gui/install.rs).  GuardedInstall has one operation in full detail; here *)
(* an operation is reduced to what it writes and posts, and a second one   *)
(* may begin as soon as the window admits it.                              *)
(***************************************************************************)
EXTENDS Naturals, Sequences

CONSTANTS
    Regions, NoRegion, NoRecord,
    MaxOperations,   \* bound on the operations begun
    MaxPosted        \* bound on the messages under way

Ops == 1 .. MaxOperations

DurableStates == {"Prepared", "RegionRestoredEarly", "RestoringRegion", "Restored"}

Records == [op: Ops, original: Regions, temporary: Regions, state: DurableStates]

SessionAssumption ==
    /\ NoRegion \notin Regions /\ NoRecord \notin Records
    /\ MaxOperations \in Nat /\ MaxPosted \in Nat \ {0, 1}

\* The states of the machine, as far as the window tells them apart: whether
\* they require recovery, and whether they are terminal.
Kinds == {"none", "before", "covered", "over"}

Updates == [kind: Kinds \ {"none"}, failed: BOOLEAN, awaiting: BOOLEAN]

\* After it an operation reports nothing further.
Final(u) == u.kind = "over" \/ u.failed \/ u.awaiting

VARIABLES
    region, record,
    threads,     \* one per operation
    ops,         \* operations begun
    posted,      \* the window's message queue, as far as operations fill it
    setAside,    \* messages held back by a dialogue
    ui,          \* what the window's thread is doing
    recovering,  \* the recovery the window carries out itself
    shown,       \* operation_state and whether operation_failure is set
    running,     \* running_operation
    admits,      \* recovery_admits_new_operation
    owed,        \* history: the region the user had, unless it is back
    overtaken    \* history: the end of the operation got ahead of an update

vars == <<region, record, threads, ops, posted, setAside, ui, recovering, shown,
          running, admits, owed, overtaken>>

messages == <<posted, setAside>>
window == <<ui, recovering, shown, running, admits, overtaken>>

Steps == {"none", "reading", "saving", "publishing", "writing", "readBack", "dropping",
          "working", "restoring", "readingBack", "marking", "clearing", "resuming", "over"}
Holding == {"writing", "readBack", "dropping", "working", "restoring", "readingBack",
            "marking", "clearing", "resuming"}
Reasons == {"none", "rollback", "unwind", "outcome", "early"}
Dialogues == {"closing", "deciding", "otherDialogue"}
Recovery == {"publish", "rewrite", "recheck", "mark", "clear"}

NoRecovery == [record |-> NoRecord, agreed |-> NoRegion, exits |-> FALSE]
NotBegun == [pc |-> "none", mine |-> NoRecord, why |-> "none", early |-> "no",
             resumed |-> FALSE]

-----------------------------------------------------------------------------
(* The record and the region.                                              *)

SameIdentity(r, s) ==
    r.op = s.op /\ r.original = s.original /\ r.temporary = s.temporary

\* A record is replaced only by a later one of the same operation.
Published(r) == (record # NoRecord => SameIdentity(record, r)) /\ record' = r

NotPublished(r) == UNCHANGED record \/ Published(r)

Cleared(r) == record = r /\ record' = NoRecord

OriginalActive == region = record.original

Inspects(answer) ==
    CASE answer = "none"    -> record = NoRecord /\ UNCHANGED record
      [] answer = "cleaned" -> /\ record # NoRecord /\ OriginalActive
                               /\ record.state # "RegionRestoredEarly"
                               /\ record' = NoRecord
      [] answer = "open"    -> /\ record # NoRecord /\ OriginalActive
                               /\ record.state = "RegionRestoredEarly"
                               /\ UNCHANGED record
      [] answer = "decide"  -> record # NoRecord /\ ~OriginalActive /\ UNCHANGED record
      [] answer = "error"   -> UNCHANGED record

Answers == {"none", "cleaned", "open", "decide", "error"}
Admits(answer) == answer \in {"none", "cleaned"}

\* A write of Windows lands or not.
Writes(r) ==
    \/ /\ region' = r
       /\ owed' = IF owed = r THEN NoRegion
                  ELSE IF owed = NoRegion /\ r # region THEN region ELSE owed
    \/ UNCHANGED <<region, owed>>

RegionKept == UNCHANGED <<region, owed>>

-----------------------------------------------------------------------------
(* An operation's thread.                                                  *)

Update(kind) == [kind |-> kind, failed |-> FALSE, awaiting |-> FALSE]
Failure(kind) == [kind |-> kind, failed |-> TRUE, awaiting |-> FALSE]
Deadline == [kind |-> "covered", failed |-> FALSE, awaiting |-> TRUE]
NotFollowed == [Deadline EXCEPT !.failed = TRUE]

\* A destroyed window refuses messages.
Post(updates) ==
    IF ui = "leaving" THEN UNCHANGED messages
    ELSE /\ Len(posted) + Len(setAside) + Len(updates) <= MaxPosted
         /\ posted' = posted \o updates
         /\ UNCHANGED setAside

Silent == UNCHANGED messages

At(t, step) == threads[t].pc = step
Goto(t, step) == threads' = [threads EXCEPT ![t].pc = step]
Knows(t, step, r) == threads' = [threads EXCEPT ![t].pc = step, ![t].mine = r]
Restore(t, why) == threads' = [threads EXCEPT ![t].pc = "restoring", ![t].why = why]
ThreadOnly == UNCHANGED <<ops, window>>

\* The record is prepared with the region read here.
ReadOriginal(t) ==
    /\ At(t, "reading")
    /\ \/ /\ Post(<<Update("before"), Update("covered")>>)
          /\ threads' = [threads EXCEPT ![t].pc = "saving", ![t].mine.original = region]
       \/ Post(<<Failure("before")>>) /\ Goto(t, "over")
    /\ RegionKept /\ UNCHANGED record /\ ThreadOnly

\* The switch reads it again, and the record has to name what it finds.
SavePrepared(t) ==
    /\ At(t, "saving")
    /\ \/ threads[t].mine.original = region /\ Goto(t, "publishing") /\ Silent
       \/ Post(<<Failure("covered")>>) /\ Goto(t, "over")
    /\ RegionKept /\ UNCHANGED record /\ ThreadOnly

PublishHopefully(t) ==   \* mutated
    /\ At(t, "publishing")
    /\ NotPublished(threads[t].mine) /\ Goto(t, "writing") /\ Silent
    /\ RegionKept /\ ThreadOnly

Publish(t) ==
    /\ At(t, "publishing")
    /\ \/ Published(threads[t].mine) /\ Goto(t, "writing") /\ Silent
       \/ /\ NotPublished(threads[t].mine)
          /\ Post(<<Failure("covered")>>) /\ Goto(t, "over")
    /\ RegionKept /\ ThreadOnly

WriteTemporary(t) ==
    /\ At(t, "writing")
    /\ Writes(threads[t].mine.temporary)
    /\ Goto(t, "readBack") /\ Silent
    /\ UNCHANGED record /\ ThreadOnly

ReadBack(t) ==
    /\ At(t, "readBack")
    /\ LET mine == threads[t].mine IN
       \/ /\ region = mine.temporary
          /\ Post(<<Update("covered")>>) /\ Goto(t, "working")
       \/ /\ region = mine.original /\ region # mine.temporary
          /\ Goto(t, "dropping") /\ Silent
       \/ /\ region \notin {mine.original, mine.temporary}
          /\ Post(<<Failure("covered")>>) /\ Goto(t, "over")
       \/ \* unreadable
          Post(<<Update("covered")>>) /\ Restore(t, "rollback")
    /\ RegionKept /\ UNCHANGED record /\ ThreadOnly

\* The write did not take: the record goes, and the operation fails.
Drop(t) ==
    /\ At(t, "dropping")
    /\ Cleared(threads[t].mine) \/ UNCHANGED record
    /\ Post(<<Failure("covered")>>) /\ Goto(t, "over")
    /\ RegionKept /\ ThreadOnly

\* The deadline: the window asks while the temporary region is in force.
AskAfterTimeout(t) ==
    /\ Goto(t, "over")
    /\ Post(<<IF threads[t].early = "done" THEN Failure("covered") ELSE Deadline>>)

\* Resolving, requesting and observing, reduced to how they may end. A failure
\* is posted first and the region put back after it.
Work(t) ==
    /\ At(t, "working")
    /\ \/ /\ Post(<<Failure("covered")>>)
          /\ IF threads[t].early = "done" THEN Goto(t, "clearing") ELSE Restore(t, "unwind")
       \/ \* the backend did not answer
          Post(<<Failure("covered")>>) /\ Goto(t, "over")
       \/ threads[t].early = "no" /\ Restore(t, "early") /\ Silent
       \/ /\ threads[t].early # "done"
          /\ Post(<<Update("covered")>>) /\ Restore(t, "outcome")
       \/ /\ threads[t].early = "done"
          /\ Post(<<Update("over")>>) /\ Goto(t, "clearing")
       \/ AskAfterTimeout(t)
    /\ RegionKept /\ UNCHANGED record /\ ThreadOnly

WriteOriginal(t) ==
    /\ At(t, "restoring")
    /\ Writes(threads[t].mine.original)
    /\ Goto(t, "readingBack") /\ Silent
    /\ UNCHANGED record /\ ThreadOnly

\* An early restore that failed is not tried again here.
GiveUp(t) ==
    CASE threads[t].why = "early"  ->
             /\ threads' = [threads EXCEPT ![t].pc = "working", ![t].early = "tried"]
             /\ Silent
      [] threads[t].why = "unwind" -> Goto(t, "over") /\ Silent
      [] OTHER -> Goto(t, "over") /\ Post(<<Failure("covered")>>)

ConfirmOriginal(t) ==
    /\ At(t, "readingBack")
    /\ \/ region = threads[t].mine.original /\ Goto(t, "marking") /\ Silent
       \/ GiveUp(t)
    /\ RegionKept /\ UNCHANGED record /\ ThreadOnly

MarkRestored(t) ==
    /\ At(t, "marking")
    /\ LET early == threads[t].why = "early"
           marked == [threads[t].mine EXCEPT !.state =
                          IF early THEN "RegionRestoredEarly" ELSE "Restored"]
       IN  \/ /\ Published(marked)
              /\ IF early
                 THEN /\ threads' = [threads EXCEPT ![t].pc = "working",
                                                    ![t].mine = marked, ![t].early = "done"]
                      /\ Post(<<Update("covered")>>)
                 ELSE /\ Knows(t, "clearing", marked)
                      /\ IF threads[t].why = "outcome" THEN Post(<<Update("over")>>) ELSE Silent
           \/ NotPublished(marked) /\ GiveUp(t)
    /\ RegionKept /\ ThreadOnly

ClearRecord(t) ==
    /\ At(t, "clearing")
    /\ Cleared(threads[t].mine) \/ UNCHANGED record
    /\ Goto(t, "over")
    /\ IF threads[t].why = "rollback" THEN Post(<<Failure("covered")>>) ELSE Silent
    /\ RegionKept /\ ThreadOnly

\* A takeover replays the machine from its beginning, or cannot follow.
Resume(t) ==
    /\ At(t, "resuming")
    /\ \/ Post(<<Update("before"), Update("covered")>>) /\ Goto(t, "working")
       \/ Post(<<NotFollowed>>) /\ Goto(t, "over")
    /\ RegionKept /\ UNCHANGED record /\ ThreadOnly

ThreadStep(t) ==
    /\ ui # "closed"
    /\ \/ ReadOriginal(t) \/ SavePrepared(t) \/ Publish(t) \/ WriteTemporary(t)
       \/ ReadBack(t) \/ Drop(t) \/ Work(t) \/ WriteOriginal(t) \/ ConfirmOriginal(t)
       \/ MarkRestored(t) \/ ClearRecord(t) \/ Resume(t)

-----------------------------------------------------------------------------
(* The window: its queue and its dialogues.                                *)

WindowOnly == UNCHANGED <<threads, ops>> /\ RegionKept

BeginInstallation ==
    /\ ui = "idle" /\ admits /\ ~running /\ ops < MaxOperations
    /\ ops' = ops + 1
    /\ \E temporary \in Regions :
           threads' = [threads EXCEPT ![ops + 1] =
               [NotBegun EXCEPT !.pc = "reading",
                    !.mine = [op |-> ops + 1, original |-> region,
                              temporary |-> temporary, state |-> "Prepared"]]]
    /\ running' = TRUE /\ shown' = [shown EXCEPT !.kind = "none"]
    /\ overtaken' = FALSE
    /\ RegionKept /\ UNCHANGED <<record, messages, ui, recovering, admits>>

\* The operation is forgotten once it is over or has failed; an update that
\* awaits an answer asks for it at once.
ApplyInstallationUpdate ==
    /\ ui = "idle" /\ posted # <<>>
    /\ LET update == Head(posted)
       IN  /\ shown' = [kind |-> update.kind, failed |-> update.failed]
           /\ running' = ~(update.kind = "over" \/ update.failed)
           /\ ui' = IF update.awaiting THEN "deciding" ELSE "idle"
    /\ posted' = Tail(posted)
    /\ WindowOnly /\ UNCHANGED <<record, setAside, recovering, admits, overtaken>>

\* A dialogue's own message loop hands posted messages to the window, which
\* sets them aside.
HoldUntilModalEnds ==
    /\ ui \in Dialogues /\ posted # <<>>
    /\ setAside' = Append(setAside, Head(posted))
    /\ posted' = Tail(posted)
    /\ WindowOnly /\ UNCHANGED <<record, window>>

\* They are posted again, behind what has arrived in between.
PostAgain ==
    /\ posted' = posted \o setAside
    /\ setAside' = <<>>
    /\ overtaken' = (\/ overtaken
                     \/ setAside # <<>> /\ \E i \in DOMAIN posted : Final(posted[i]))

OpenDialogue ==
    /\ ui = "idle" /\ ui' = "otherDialogue"
    /\ WindowOnly
    /\ UNCHANGED <<record, messages, recovering, shown, running, admits, overtaken>>

EndDialogue ==
    /\ ui = "otherDialogue" /\ PostAgain
    /\ ui' = "idle"
    /\ WindowOnly /\ UNCHANGED <<record, recovering, shown, running, admits>>

BeginRecovery(exits) ==
    /\ ui' = "publish"
    /\ recovering' = [record |-> record, agreed |-> region, exits |-> exits]

\* A deadline's answer: wait by taking the operation over, or restore. Each
\* operation is taken over once here.
AnswerDeadline ==
    /\ ui = "deciding" /\ PostAgain
    /\ \E answer \in Answers :
        /\ Inspects(answer)
        /\ \/ /\ answer # "decide"
              /\ ui' = "idle" /\ running' = FALSE /\ UNCHANGED <<threads, recovering>>
           \/ /\ answer = "decide" /\ BeginRecovery(FALSE)
              /\ UNCHANGED <<threads, running>>
           \/ /\ answer = "decide" /\ ~threads[record.op].resumed
              /\ ui' = "idle" /\ UNCHANGED recovering
              /\ \/ /\ threads' = [threads EXCEPT ![record.op] =
                           [NotBegun EXCEPT !.pc = "resuming", !.mine = record,
                                            !.resumed = TRUE]]
                    /\ running' = TRUE
                 \/ running' = FALSE /\ UNCHANGED threads
    /\ RegionKept /\ UNCHANGED <<ops, shown, admits>>

-----------------------------------------------------------------------------
(* Closing.                                                                *)

\* A state that requires recovery is checked against the record first.
RequestWindowClose ==
    /\ ui = "idle"
    /\ IF shown.kind = "covered"
       THEN \E answer \in Answers :
                /\ Inspects(answer)
                /\ ui' = IF Admits(answer) THEN "leaving" ELSE "closing"
       ELSE ui' = "leaving" /\ UNCHANGED record
    /\ WindowOnly /\ UNCHANGED <<messages, recovering, shown, running, admits, overtaken>>

AnswerClosing ==
    /\ ui = "closing" /\ PostAgain
    /\ \/ ui' = "idle" /\ UNCHANGED <<record, recovering>>
       \/ \E answer \in Answers :
              /\ Inspects(answer)
              /\ ui' = IF answer = "error" THEN "idle" ELSE "leaving"
              /\ UNCHANGED recovering
       \/ \E answer \in Answers :
              /\ Inspects(answer)
              /\ IF answer = "decide" THEN BeginRecovery(TRUE)
                 ELSE ui' = "leaving" /\ UNCHANGED recovering
    /\ WindowOnly /\ UNCHANGED <<shown, running, admits>>

\* The recovery of the next start, carried out by this window: the region
\* agreed to is still in force, the attempt is durable, the region is written
\* and read, the milestone is durable, the record goes.
Recovered(done) ==
    /\ recovering' = [NoRecovery EXCEPT !.exits = recovering.exits /\ done]
    /\ IF recovering.exits
       THEN ui' = (IF done THEN "leaving" ELSE "idle") /\ UNCHANGED running
       ELSE ui' = "reinspecting" /\ running' = FALSE

Goes(step) == ui' = step /\ UNCHANGED <<recovering, running>>
Carries(step, r) ==
    ui' = step /\ recovering' = [recovering EXCEPT !.record = r] /\ UNCHANGED running

RecoverRegion ==
    /\ LET r == recovering.record
           restoring == [r EXCEPT !.state = "RestoringRegion"]
           restored == [r EXCEPT !.state = "Restored"]
       IN  \/ /\ ui = "publish" /\ RegionKept
              /\ \/ /\ region = recovering.agreed
                    /\ Published(restoring) /\ Carries("rewrite", restoring)
                 \/ NotPublished(restoring) /\ Recovered(FALSE)
           \/ /\ ui = "rewrite" /\ Writes(r.original)
              /\ Goes("recheck") /\ UNCHANGED record
           \/ /\ ui = "recheck" /\ RegionKept /\ UNCHANGED record
              /\ IF region = r.original THEN Goes("mark") ELSE Recovered(FALSE)
           \/ /\ ui = "mark" /\ RegionKept
              /\ \/ Published(restored) /\ Carries("clear", restored)
                 \/ NotPublished(restored) /\ Recovered(FALSE)
           \/ /\ ui = "clear" /\ RegionKept
              /\ \/ Cleared(r) /\ Recovered(TRUE)
                 \/ UNCHANGED record /\ Recovered(FALSE)
    /\ UNCHANGED <<threads, ops, messages, shown, admits, overtaken>>

Reinspect ==
    /\ ui = "reinspecting" /\ ui' = "idle"
    /\ \E answer \in Answers : Inspects(answer) /\ admits' = Admits(answer)
    /\ WindowOnly /\ UNCHANGED <<messages, recovering, shown, running, overtaken>>

\* The process ends some time after its window, and every thread with it.
ProcessEnds ==
    /\ ui = "leaving" /\ ui' = "closed"
    /\ WindowOnly
    /\ UNCHANGED <<record, messages, recovering, shown, running, admits, overtaken>>

-----------------------------------------------------------------------------
Init ==
    /\ region \in Regions /\ record = NoRecord
    /\ threads = [t \in Ops |-> NotBegun] /\ ops = 0
    /\ posted = <<>> /\ setAside = <<>>
    /\ ui = "idle" /\ recovering = NoRecovery
    /\ shown = [kind |-> "none", failed |-> FALSE] /\ running = FALSE /\ admits = TRUE
    /\ owed = NoRegion /\ overtaken = FALSE

Handles == ApplyInstallationUpdate \/ HoldUntilModalEnds
Returns == EndDialogue \/ AnswerDeadline \/ AnswerClosing \/ RecoverRegion \/ Reinspect

Next ==
    \/ \E t \in Ops : ThreadStep(t)
    \/ Handles \/ Returns
    \/ BeginInstallation \/ OpenDialogue \/ RequestWindowClose \/ ProcessEnds

Spec == Init /\ [][Next]_vars

\* Threads run, messages are dispatched, and a dialogue is answered; that a
\* dialogue stays open or the window asks to be closed again is the user's.
Fairness ==
    /\ \A t \in Ops : WF_vars(ThreadStep(t))
    /\ SF_vars(ApplyInstallationUpdate) /\ WF_vars(HoldUntilModalEnds)
    /\ WF_vars(Returns) /\ WF_vars(ProcessEnds)

FairSpec == Spec /\ Fairness

-----------------------------------------------------------------------------
ThreadStates ==
    [pc: Steps, mine: Records \cup {NoRecord}, why: Reasons,
     early: {"no", "tried", "done"}, resumed: BOOLEAN]

TypeOK ==
    /\ region \in Regions /\ record \in Records \cup {NoRecord}
    /\ threads \in [Ops -> ThreadStates] /\ ops \in 0 .. MaxOperations
    /\ posted \in Seq(Updates) /\ setAside \in Seq(Updates)
    /\ Len(posted) + Len(setAside) <= MaxPosted
    /\ ui \in Dialogues \cup Recovery \cup {"idle", "reinspecting", "leaving", "closed"}
    /\ recovering \in [record: Records \cup {NoRecord},
                       agreed: Regions \cup {NoRegion}, exits: BOOLEAN]
    /\ shown \in [kind: Kinds, failed: BOOLEAN]
    /\ running \in BOOLEAN /\ admits \in BOOLEAN
    /\ owed \in Regions \cup {NoRegion} /\ overtaken \in BOOLEAN

Holds(t) == threads[t].pc \in Holding
Works(t) == threads[t].pc \notin {"none", "over"}

(* Two operations never hold the region at once: a failure is posted before*)
(* the region is back (install.rs:734), so the window may begin the next   *)
(* operation while the first still works, and only the identity of the     *)
(* record in between (store.rs:83) keeps the second one out.               *)
OneHolder ==
    ui \notin {"leaving", "closed"}
        => \A s, t \in Ops : Holds(s) /\ Holds(t) => s = t

(* The recovery a deadline's answer sets off has the record and the region *)
(* to itself (window.rs:468: the thread that ran the operation has         *)
(* finished).                                                              *)
DecisionIsAlone ==
    ui = "deciding" \/ (ui \in Recovery /\ ~recovering.exits)
        => \A t \in Ops : ~Holds(t)

Covered == owed # NoRegion => record # NoRecord /\ record.original = owed

(* While one operation was begun and the window is open, a region it took  *)
(* away is named by the published record, although the window may recover  *)
(* beside the operation's thread (window.rs:616).                          *)
OneOperationIsCovered == ops = 1 /\ ui \notin {"leaving", "closed"} => Covered

(* An operation shown as running has a thread, or a message on its way: it *)
(* is forgotten when nothing more can be reported (window.rs:1457). The    *)
(* one exception is an update that a dialogue held back and posted again   *)
(* behind the operation's end (state.rs:94).                               *)
RunningIsReal ==
    running /\ ui = "idle" /\ posted = <<>> /\ ~overtaken => \E t \in Ops : Works(t)

(* Every operation releases the window, however its messages were held back*)
(* by dialogues (state.rs:29), unless its end was overtaken by it.         *)
WindowIsReleased == running /\ ~overtaken ~> ~running \/ overtaken \/ ui = "closed"

-----------------------------------------------------------------------------
(* Sentences of the source that the code does not keep.                    *)

(* "it writes the original region to disk before it changes anything"      *)
(* (README.md:71): a second operation can read the first one's temporary   *)
(* region as the original.                                                 *)
CoveredWhileOpen == ui \notin {"leaving", "closed"} => Covered

(* "If the process died or the machine rebooted, the next start finds the  *)
(* recovery record" (README.md:369): closing can clean the record of an    *)
(* operation that is about to write the region.                            *)
CoveredAfterClose == ui = "closed" => Covered

(* "No new installation begins until that record is resolved"              *)
(* (README.md:371).                                                        *)
NoneBeginsOverRecord == [][ops' # ops => record = NoRecord]_vars

(* Restoring and exiting "now does what it says, through the same protocol *)
(* the next start would use" (window.rs:618): the operation's thread is    *)
(* still there and may publish the record again.                           *)
RemovedStaysRemoved ==
    [][ui = "leaving" /\ recovering.exits => record' = record]_vars

(* "a finished, uncertain, or failed operation still shows what it ended   *)
(* with" (window.rs:1457): an update posted again behind the end is shown  *)
(* in its place, and the operation runs for ever.                          *)
EndStaysShown ==
    running /\ ui = "idle" /\ posted = <<>> => \E t \in Ops : Works(t)
=============================================================================
