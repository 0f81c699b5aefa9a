----------------------------- MODULE JournalFile -----------------------------
(***************************************************************************)
(* journal.json and everybody who writes it: the threads of operations     *)
(* that append an entry, the threads that delete one entry or clear the    *)
(* history, and the window that shows a copy (platform/storage.rs,         *)
(* gui/install.rs, gui/handoff.rs, gui/work.rs, gui/window.rs). Nothing    *)
(* locks the file: a writer reads it, replaces it by a move, and reads it  *)
(* again. Orphaned temporary files are left out, nothing reads them.       *)
(***************************************************************************)
EXTENDS Naturals, SequencesExt, FiniteSets

CONSTANTS
    Entries,      \* history entries, one per operation that ended
    Jobs,         \* the threads that reach the file at one time
    Nothing,
    MaxCrashes    \* bound on the deaths of the process

JournalAssumption ==
    Nothing \notin Entries /\ IsFiniteSet(Jobs) /\ MaxCrashes \in Nat

VARIABLES
    file,      \* journal.json; a missing file reads as an empty history
    job,       \* what each thread is doing
    view,      \* AppState::journal, the JournalView
    selected,  \* selected_journal_index, from 1; 0 is None
    inbox,     \* posted messages, in order
    crashes,   \* deaths of the process so far
    ended,     \* history: operations that ended
    kept,      \* history: entries written and not removed since
    alone      \* history: no two writers were ever under way together

vars == <<file, job, view, selected, inbox, crashes, ended, kept, alone>>

Histories == Seq(Entries)

Files == [readable: BOOLEAN, entries: Histories]

JobKinds == {"append", "delete", "clear", "load"}

\* "reading" is the caller's load, "guarding" the one replace begins with;
\* one that is "telling" has its answer, and has not told the window.
JobSteps ==
    {"idle", "reading", "guarding", "writing", "moving", "checking", "telling"}

JobStates ==
    [kind: JobKinds, at: JobSteps, entry: Entries \cup {Nothing},
     records: Histories, announced: BOOLEAN, ok: BOOLEAN]

Views == [kind: {"Loading", "Ready", "Failed"}, entries: Histories]

Loading == [kind |-> "Loading", entries |-> <<>>]

Message(kind, ok, entries) == [kind |-> kind, ok |-> ok, entries |-> entries]

StartedJob(kind, at, entry, announced) ==
    [kind |-> kind, at |-> at, entry |-> entry, records |-> <<>>,
     announced |-> announced, ok |-> FALSE]

IdleJob == StartedJob("load", "idle", Nothing, TRUE)

Idle == {j \in Jobs : job[j].at = "idle"}

Writers == {j \in Jobs \ Idle : job[j].kind # "load"}

-----------------------------------------------------------------------------
(* What the window starts, and what it is told.                            *)

StartLoad(j) == job' = [job EXCEPT ![j] = StartedJob("load", "reading", Nothing, TRUE)]

StartWriter(j, started) ==
    /\ job' = [job EXCEPT ![j] = started]
    /\ alone' = (alone /\ Writers = {})

SelectEntry ==
    /\ view.kind = "Ready"
    /\ selected' \in DOMAIN view.entries \ {selected}
    /\ UNCHANGED <<file, job, view, inbox, crashes, ended, kept, alone>>

\* The record is copied before the question and sent once it is confirmed.
ConfirmDelete(j) ==
    /\ view.kind = "Ready" /\ selected # 0
    /\ view' = Loading /\ selected' = 0
    /\ StartWriter(j, StartedJob("delete", "reading", view.entries[selected], TRUE))
    /\ UNCHANGED <<file, inbox, crashes, ended, kept>>

ConfirmClear(j) ==
    /\ view.kind = "Ready" /\ view.entries # <<>>
    /\ view' = Loading /\ selected' = 0
    /\ StartWriter(j, StartedJob("clear", "guarding", Nothing, TRUE))
    /\ UNCHANGED <<file, inbox, crashes, ended, kept>>

\* An operation ends, and writes one entry. One that completed tells the
\* window first; one that failed, or a handoff, writes first.
OperationEnds(j) ==
    /\ \E e \in Entries \ ended, tellsFirst \in BOOLEAN :
           /\ ended' = ended \cup {e}
           /\ inbox' = IF tellsFirst
                       THEN Append(inbox, Message("Ended", TRUE, <<>>))
                       ELSE inbox
           /\ StartWriter(j, StartedJob("append", "reading", e, tellsFirst))
    /\ UNCHANGED <<file, view, selected, crashes, kept>>

JournalLoaded(message) ==
    /\ view' = IF message.ok
               THEN [kind |-> "Ready", entries |-> message.entries]
               ELSE [kind |-> "Failed", entries |-> <<>>]
    /\ selected' = IF message.entries = <<>> THEN 0 ELSE 1
    /\ UNCHANGED job

\* A refused deletion only changes the status line.
JournalDeleted(message) ==
    /\ IF message.ok THEN \E j \in Idle : StartLoad(j) ELSE UNCHANGED job
    /\ UNCHANGED <<view, selected>>

OperationIsOver ==
    /\ \E j \in Idle : StartLoad(j)
    /\ UNCHANGED <<view, selected>>

TakeMessage ==
    /\ inbox # <<>>
    /\ inbox' = Tail(inbox)
    /\ \/ Head(inbox).kind = "Loaded" /\ JournalLoaded(Head(inbox))
       \/ Head(inbox).kind = "Deleted" /\ JournalDeleted(Head(inbox))
       \/ Head(inbox).kind = "Ended" /\ OperationIsOver
    /\ UNCHANGED <<file, crashes, ended, kept, alone>>

-----------------------------------------------------------------------------
(* The threads.                                                            *)

Window == <<view, selected, crashes, ended>>

Reaches(j, step) == job' = [job EXCEPT ![j].at = step]

\* The answer is there; the others may reach the file before it is told.
Answers(j, ok, records) ==
    job' = [job EXCEPT ![j].at = "telling", ![j].ok = ok, ![j].records = records]

GivesUp(j) == Answers(j, FALSE, <<>>)

\* An append tells only that its operation is over.
Answer(j) ==
    CASE job[j].kind = "load"   -> <<Message("Loaded", job[j].ok, job[j].records)>>
      [] job[j].kind = "append" -> IF job[j].announced THEN <<>>
                                   ELSE <<Message("Ended", TRUE, <<>>)>>
      [] OTHER                  -> <<Message("Deleted", job[j].ok, <<>>)>>

Tells(j) ==
    /\ job[j].at = "telling"
    /\ inbox' = inbox \o Answer(j)
    /\ job' = [job EXCEPT ![j] = IdleJob]
    /\ UNCHANGED <<Window, file, kept, alone>>

LoadForView(j) ==
    /\ job[j].at = "reading" /\ job[j].kind = "load"
    /\ \/ GivesUp(j)
       \/ file.readable /\ Answers(j, TRUE, file.entries)
    /\ UNCHANGED <<Window, file, inbox, kept, alone>>

HeadRemoved(entries, e) == Tail(entries)   \* mutated

\* Only the record that matches is removed, the first of them.
Position(entries, e) ==
    CHOOSE i \in DOMAIN entries :
        entries[i] = e /\ \A k \in 1 .. i - 1 : entries[k] # e

Removed(entries, e) == RemoveAt(entries, Position(entries, e))

ReadBeforeAppend(j) ==
    /\ job[j].at = "reading" /\ job[j].kind = "append"
    /\ \/ GivesUp(j)
       \/ /\ file.readable
          /\ job' = [job EXCEPT ![j].at = "guarding",
                                ![j].records = Append(file.entries, job[j].entry)]
    /\ UNCHANGED <<Window, file, inbox, kept, alone>>

ReadBeforeDelete(j) ==
    /\ job[j].at = "reading" /\ job[j].kind = "delete"
    /\ \/ GivesUp(j)
       \/ /\ file.readable /\ Contains(file.entries, job[j].entry)
          /\ job' = [job EXCEPT ![j].at = "guarding",
                                ![j].records = Removed(file.entries, job[j].entry)]
    /\ UNCHANGED <<Window, file, inbox, kept, alone>>

\* A history that cannot be read is evidence: replace stops.
MayReplace == file.readable

GuardReplace(j) ==
    /\ job[j].at = "guarding"
    /\ \/ GivesUp(j)
       \/ MayReplace /\ Reaches(j, "writing")
    /\ UNCHANGED <<Window, file, inbox, kept, alone>>

\* The temporary file is written and synced, or removed again.
WriteTemporary(j) ==
    /\ job[j].at = "writing"
    /\ GivesUp(j) \/ Reaches(j, "moving")
    /\ UNCHANGED <<Window, file, inbox, kept, alone>>

KeptAfter(writer) ==
    CASE writer.kind = "append" -> kept \cup {writer.entry}
      [] writer.kind = "delete" -> kept \ {writer.entry}
      [] writer.kind = "clear"  -> {}

MoveIntoPlace(j) ==
    /\ job[j].at = "moving"
    /\ \/ GivesUp(j) /\ UNCHANGED <<file, kept>>
       \/ /\ file' = [readable |-> TRUE, entries |-> job[j].records]
          /\ kept' = KeptAfter(job[j])
          /\ Reaches(j, "checking")
    /\ UNCHANGED <<Window, inbox, alone>>

ReadsBack(j) == file.readable /\ file.entries = job[j].records

CheckReplaced(j) ==
    /\ job[j].at = "checking"
    /\ \/ GivesUp(j)
       \/ ReadsBack(j) /\ Answers(j, TRUE, <<>>)
    /\ UNCHANGED <<Window, file, inbox, kept, alone>>

JobStep(j) ==
    \/ LoadForView(j)
    \/ ReadBeforeAppend(j)
    \/ ReadBeforeDelete(j)
    \/ GuardReplace(j)
    \/ WriteTemporary(j)
    \/ MoveIntoPlace(j)
    \/ CheckReplaced(j)
    \/ Tells(j)

-----------------------------------------------------------------------------
(* The world.                                                              *)

\* Another version of the program, or an editor, leaves a history this one
\* cannot read; not between a writer's look at the file and its move.
Tamper ==
    /\ file.readable
    /\ \A j \in Jobs : job[j].at \notin {"writing", "moving"}
    /\ file' = [file EXCEPT !.readable = FALSE]
    /\ UNCHANGED <<job, view, selected, inbox, crashes, ended, kept, alone>>

\* The process dies and the program is started again.
Restart ==
    /\ crashes < MaxCrashes
    /\ crashes' = crashes + 1
    /\ \E j \in Jobs :
           job' = [k \in Jobs |-> IF k = j
                                  THEN StartedJob("load", "reading", Nothing, TRUE)
                                  ELSE IdleJob]
    /\ view' = Loading /\ selected' = 0
    /\ inbox' = <<>>
    /\ UNCHANGED <<file, ended, kept, alone>>

Init ==
    /\ file = [readable |-> TRUE, entries |-> <<>>]
    /\ \E j \in Jobs :
           job = [k \in Jobs |-> IF k = j
                                 THEN StartedJob("load", "reading", Nothing, TRUE)
                                 ELSE IdleJob]
    /\ view = Loading
    /\ selected = 0
    /\ inbox = <<>>
    /\ crashes = 0
    /\ ended = {}
    /\ kept = {}
    /\ alone = TRUE

Next ==
    \/ SelectEntry
    \/ \E j \in Idle : ConfirmDelete(j) \/ ConfirmClear(j) \/ OperationEnds(j)
    \/ TakeMessage
    \/ \E j \in Jobs : JobStep(j)
    \/ Tamper
    \/ Restart

Spec == Init /\ [][Next]_vars

-----------------------------------------------------------------------------
TypeOK ==
    /\ file \in Files
    /\ job \in [Jobs -> JobStates]
    /\ view \in Views
    /\ selected \in 0 .. Len(view.entries)
    /\ crashes \in 0 .. MaxCrashes
    /\ ended \subseteq Entries /\ kept \subseteq ended
    /\ alone \in BOOLEAN

(* A history this program cannot read is never overwritten, whoever writes *)
(* and however the writers interleave (storage.rs:310).                    *)
EvidenceSurvives == [][ ~file.readable => file' = file ]_vars

(* As long as no two writers were under way together, the file holds every *)
(* entry that was moved in and not removed since, and nothing else: no     *)
(* refusal, crash or stale list in the window loses one or brings one back *)
(* (storage.rs:309-347, install.rs:1008).                                  *)
AloneNothingIsLost == alone => ToSet(file.entries) = kept

(* No entry is listed twice, even by writers that overlap.                 *)
NoEntryTwice == IsInjective(file.entries)

\* The read-back of a deletion found what it wrote.
DeletionRead(j) ==
    /\ job[j].kind = "delete"
    /\ job[j].at = "checking" /\ job'[j].at = "telling" /\ job'[j].ok

\* The window is told that a deletion was done.
DeletionTold(j) ==
    /\ job[j].kind = "delete" /\ job[j].ok
    /\ job[j].at = "telling" /\ job'[j].at = "idle"
    /\ inbox' = inbox \o Answer(j)

(* A deletion that succeeds is one: its entry is not in the file when it   *)
(* reads it back, although others moved their own file since it moved its  *)
(* own (storage.rs:333), and not when the window is told, unless two       *)
(* writers met (work.rs:127-131).                                          *)
DoneIsDone ==
    [][ \A j \in Jobs :
            DeletionRead(j) \/ (alone /\ DeletionTold(j))
                => ~Contains(file.entries, job[j].entry) ]_vars

-----------------------------------------------------------------------------
(* Sentences of the program that the code does not keep.                   *)

(* "Delete only this local journal entry?" (lang/en.toml:563): a deletion  *)
(* removes its entry and no other. An entry appended between its read and  *)
(* its move goes too (storage.rs:339).                                     *)
DeletesOnlyItsEntry ==
    [][ \A j \in Jobs :
            job[j].kind = "delete" /\ job[j].at = "moving"
                /\ job'[j].at = "checking"
            => ToSet(file.entries) \ ToSet(file'.entries) \subseteq {job[j].entry} ]_vars

(* "Nothing was changed." (lang/en.toml:554), shown when a deletion is     *)
(* refused: a deletion that moved its file is not refused. It is when the  *)
(* read-back fails (storage.rs:333).                                       *)
RefusedChangesNothing ==
    [][ \A j \in Jobs :
            (/\ job[j].kind = "delete" /\ alone
             /\ job[j].at = "checking" /\ job'[j].at = "telling")
                => job'[j].ok ]_vars

(* "The local journal entry was deleted." (lang/en.toml:552): it is not in *)
(* the file when the window is told, whoever writes. An append that read   *)
(* before the deletion may move its own list in after the read-back and    *)
(* before the message (storage.rs:333, work.rs:127-131).                   *)
ToldIsDone ==
    [][ \A j \in Jobs :
            DeletionTold(j) => ~Contains(file.entries, job[j].entry) ]_vars

(* "Loading the local operation journal" (lang/en.toml:54): while this is  *)
(* shown somebody is loading it. Nobody is after a refused deletion, and   *)
(* the list stays away until something else loads it (window.rs:1340).     *)
LoadingIsLoading ==
    view.kind = "Loading" => inbox # <<>> \/ Idle # Jobs

(* "Reading the journal only at startup would leave a product installed    *)
(* just now missing from the tab until the next launch" (window.rs:1107):  *)
(* when all is quiet the list is that of the file. An operation that       *)
(* completed tells the window before it writes its entry (install.rs:764). *)
QuietListIsCurrent ==
    inbox = <<>> /\ Idle = Jobs /\ view.kind = "Ready" /\ file.readable
        => ToSet(file.entries) \subseteq ToSet(view.entries)

=============================================================================
