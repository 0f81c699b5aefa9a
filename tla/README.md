# WinStoreRegion in TLA+

WinStoreRegion switches the Windows region, installs a Store product under the
switched region, and puts the original region back. It "writes the original
region to disk before it changes anything, and restores it even after a crash
or a restart" (`README.md:70`). This directory models the program as far as a
model checker can reach it, checks it with TLC on small instances, and proves
with TLAPS, for every instance, what matters most.

The code is read as two crates: `core` is `src/crates/winstoreregion-core/src`
(pure decisions behind traits), `app` is `src/apps/winstoreregion/src` (the
threads, the window and the Windows adapters).

## 1. The system

| Component | State it keeps | Operations | Talks to |
|---|---|---|---|
| State machine, `core/machine.rs` | one of 23 operation states | `apply` 29 kinds of event; persists the event's milestone first | operation thread, a milestone store |
| Step policy, `core/operation.rs`, `core/observe/timeout.rs` | none (facts come from the caller) | `next_step`, early-restore and silence rules | operation thread |
| Region switch, `core/region.rs` | none | `switch_region`: read, save, write once, read back, clean up | region adapter, record guard |
| Recovery record and guard, `core/recovery/record.rs`, `store.rs` | the record in memory | save, replace, update milestone, clear | recovery file |
| Recovery file, `app/platform/storage.rs` | `pending-restore.json` and its temporaries | `publish` (refuses another operation's record, verifies what it wrote), `load`, `clear_verified`, cleanup | disk |
| Startup recovery, `core/recovery/startup.rs`, `app/gui/recovery.rs` | none | inspect (five answers), keep, clear, restore | recovery file, region |
| Recovery dialogue, `app/gui/window.rs` at `WM_CREATE` and after the probe | the gate, the notice on show | ask, act, inspect again | startup recovery, history, winget |
| Installation thread, `app/gui/install.rs` | machine, facts, record, package baseline, whether the outcome was told | the whole guarded operation, fresh or taken over | all of the above, winget, history, log, window (messages) |
| Window session, `app/gui/window.rs`, `state.rs`, `command.rs` | the gate for new operations, running operation, last state, messages set aside | start, apply updates, dialogues, deadline question, close | threads (answering by posted messages), recovery file |
| History, `core/journal.rs`, `app/platform/storage.rs`, `app/gui/journal.rs` | `journal.json`, the list on show | append, delete, clear: read, modify, replace | installation, handoff and window threads |
| Log and trace, `core/log.rs`, `app/platform/diagnostic_log.rs`, `app/gui/install_trace.rs` | rotated log files | append, rotate | every thread |
| Winget backend, `app/platform/winget/backend.rs` | the operation it follows | start, resume, observe | the package manager, a service that outlives the process |
| Observers, `core/observe/packaged.rs`, `win32.rs`, `app/platform/packaged.rs`, `uninstall.rs` | none | evidence from two snapshots | installation thread |
| Store-installer handoff, `app/gui/handoff.rs`, `app/platform/handoff.rs` | a stage | switch, launch an admitted file, restore on request | region switch, recovery file, history |
| Installer files, `core/source.rs`, `app/platform/stub.rs`, `installer_download.rs` | the download folder, the chosen file, its inspection | download, sweep, inspect, admit | handoff |
| Market survey, `core/availability.rs`, `app/gui/work.rs`, `command.rs` | answers, generation, cancel flag, shared index | worker passes that can be superseded | window, market probe |
| Updates scan, `app/gui/work.rs`, `app/platform/storage.rs` | list, counter, clock, saved scan | worker scans, startup checks | window, market probe |
| Market probe, `app/platform/market_probe.rs` | none | package lists and versions for one market and this machine | survey, scan |
| Draft and resolution, `core/source.rs`, `core/resolve.rs`, `app/gui/state.rs` | link, file, region, request number | resolve, probe, inspect | resolver threads |
| Prerequisites, `core/prerequisite.rs`, `app/platform/prerequisites.rs`, `winget/metadata.rs` | the last report | the check at the start and from the menu | Windows |
| Presentation, `app/gui/render.rs`, `layout.rs`, `controls.rs`, `direction.rs` | what the controls hold | render, lay out | window state |
| Starts, `app/main.rs`, `app/gui/window.rs` `run`, `core/launch.rs` | the session's mutex | classify, acquire, run, end | other starts |

What is hard in it:

- the region, the record on disk, the package manager and the process change
  independently, and the process may die between any two of them;
- a publication can fail after the new file is already in place;
- the installation outlives the process, so the next start may find it running,
  finished, failed, or unknown;
- the original region returns *during* the installation (early restore), so
  "the region is back" and "the operation is over" are different facts;
- the retries of a restore, an early restore due again and again, and an
  observation loop with no overall deadline must still come to an end;
- files are checked and used in two steps, by threads that no lock keeps apart;
- answers arrive late, out of order, or for a question that was dropped;
- what the user is shown and asked about may be gone when the answer arrives.

`PROJECT.json` lists these at their lines, under `hazards`, with the properties
that cover each.

### What makes each component correct

- *Machine and policy.* A milestone is durable before the state moves; no path
  to a final state leaves the temporary region in force.
- *Switch, record, recovery.* The original region is on disk for as long as it is
  owed; a record is removed only when nothing is owed and replaced only by one
  of the same operation; "restored" on disk is true; memory and file agree.
- *Installation thread.* Each way to end tells the history once; "installed" is
  said only with evidence; nothing is written after a confirmed early return;
  the machine never refuses an event; the thread ends.
- *Window.* It asks only while there is a record to act upon, two operations never
  hold the region at once, what it shows as running is running, and every
  operation releases it.
- *Handoff.* It obeys the promise about the region; nothing but the admitted bytes
  runs, under the record of its own handoff; its stages offer a command only
  when no thread works.
- *History, log, installers.* No lost entries for a lone writer, rotations in
  order, true lines, no half-written file under a final name.
- *Survey, scan, probe, draft.* Late answers of an old pass are not counted; a
  complete answer is complete; a refusal is a stated one.
- *Presentation.* The sentence agrees with the gate, the box with the draft, the
  highlighted row with the one the button opens; controls stand apart.
- *Starts.* One owner of a session at a time, and every start comes to an end.

### What is modelled

`PROJECT.json` gives each component its modules, its status and what is left out.

- **Modelled**: state machine, step policy, region switch, record guard, startup
  recovery, installation thread, recovery dialogue, window session, recovery file,
  history, winget backend, Win32 observer, handoff, installer admission and
  download, market survey, updates scan, market probe, resolution, prerequisites.
- **Partly**: the timeout policy (its two questions, hold elapsed and silence, without
  milliseconds; the overall deadline is disabled by the only policy in use); the
  recovery record (identity, regions, milestone; not its JSON); the packaged
  observer (without the AppX event reader, which nobody calls); input and launch
  parsing (the four outcomes, not the recognition of links); log and diagnostics
  (what is written when, not its text); the region adapter (outcomes of a read and a
  write); presentation (which rectangles, sentences, rows and selections; not painting,
  menus, wording or the clipboard); entry point and build (the starts and the
  direction of a language).
- **Not modelled**: the store page fallback (hands a fixed address to the shell: no
  state, order or retry), time (a stateless conversion no modelled decision turns
  on), the generated winget bindings (what a call may answer is a choice of the
  modules that call it).

Called by nothing in the application, and therefore outside the actions:
`detach_or_cancel`, `allows_install_start`, `select_install_backend`,
`classify_store_stub`, the AppX event reader, and the adapter of the Win32 observer
(which `UninstallEvidence` models for its own tests' sake).

## 2. The modules

| Module | Kind | Models |
|---|---|---|
| `OperationMachine` | operators | the transition table, the milestones of events, the facts and `next_step` |
| `MachineContract` | specification | the core crate by itself: a caller that follows `next_step` and reports events, with a milestone store that may fail |
| `RegionPromise` | abstract specification | what the program owes the user about the region |
| `GuardedInstall` | specification | installation thread, region switch, recovery of the next start, the record they share, crashes, the package manager, the user; refines `RegionPromise` |
| `GuardedInstallMC` | instance for TLC | the symmetry of regions |
| `Handoff` | specification | both threads of a handoff, the window's stages and messages, closing, the next start; refines `RegionPromise` |
| `WindowSession` | specification | the window beside the threads of several operations: messages, dialogues, the deadline's question, closing with its own recovery |
| `RecoverySlot` | abstract specification | what the recovery store promises: one place with nothing, one whole record, or something unreadable |
| `RecoveryFile` | specification | publication, removal and cleanup as single steps, a keeper beside a living owner, crashes; refines `RecoverySlot` |
| `RecoveryDialogue` | specification | what a start says and does about a record it finds |
| `JournalFile` | specification | the history's file under several threads, its view and selection |
| `LogFile` | specification | appending to and rotating the log by several threads |
| `OperationTrace` | specification | which log line and history entry an operation writes when |
| `InstallerFile` | specification | the download folder, its threads, the inspection of a chosen file |
| `CompletionEvidence` | specification | packages, the package manager's installations, the backend, the outcome |
| `UninstallEvidence` | specification | the walk over the uninstall keys and the comparison of two |
| `MarketSurvey`, `UpdatesScan` | specifications | passes and scans with generations, workers and posted answers |
| `Catalogue` | specification | the requests of the market probe and the verdict made of them |
| `DraftSession` | specification | the draft, its requests and their answers in any order |
| `Prerequisites` | specification | the questions of the report while the machine changes, the copied metadata |
| `StatusLine`, `RegionBox`, `ShownTables`, `WindowLayout` | specifications | what the window shows |
| `Launches` | specification | several starts in several sessions |
| `FileParts`, `OperationParts`, `StoreParts`, `WindowParts`, `ProgressParts` | side by side | several of the above in one run each |
| `*_proofs` | proofs | the theorems about the module of that name; those of a suite hold the theorems about its parts |

`GuardedInstall` and `MachineContract` extend `OperationMachine`; `RegionBox` extends
`MarketSurvey`. `GuardedInstall` and `Handoff` are shown to implement `RegionPromise`
under the mapping that hides everything but the region, the two regions named by the record
(`saved`) and the debt (`owed`).

### Side by side

Most components share no state that their module does not already contain, so
they are checked several at a time: a module such as `FileParts` extends one
component, instantiates the others with their bounds, and has a variable
`part`. A behaviour moves the one part chosen at the start while the others rest.
No step of one part reads or writes a variable of another, so a behaviour of all of them
is for each part a behaviour of that part with pauses, and a property of one
part that TLC finds here holds of all together. The parts are views with
bounds of their own: `GuardedInstall`, which has one operation in full, is not repeated
in them. Each combined property (`SessionIsCovered`, `DraftIsTrue`, ...) is a conjunction
of named properties of the component's module, where each has its comment. The type
invariant of the extended component is a theorem rather than a part of the suite.

### How `GuardedInstall` corresponds to the code

`pc` says where the running code is. The operation thread and the recovery
dialogue never overlap in the behaviours modelled here, so one `pc` serves both.
A step ends wherever the code reads or writes something a crash, the user or the
package manager can touch.

| `pc` | Code | Action |
|---|---|---|
| `off` | no window | `Launch` (`WM_CREATE`, `window.rs:860`) |
| `idle` | window, nothing at work | `BeginOperation` (`command.rs begin_installation`, up to the prepared record), `Close` |
| `saving`, `writing`, `readBack`, `clearPreserved` | `core/region.rs switch_region` called from `install.rs` | `SavePrepared`, `WriteTemporary`, `ReadBack`, `ClearPreserved` |
| `resolving`, `identifying`, `measuring` | `resolve_under_temporary_region` | `Resolve`, `RecordIdentity`, `TakeBaseline` |
| `starting` | `start_install` | `StartInstall` |
| `observing`, `deciding` | the two halves of the loop in `observe` | `Observe`, `Decide` |
| `restoring`, `restoreRead`, `milestone` | `write_original_region`, `restore_region` | `RestoreWrite`, `RestoreRead`, `RestoreMilestone`; `purpose` is the call site |
| `clearing` | `clear_record` and what its call site does next | `ClearRecord` |
| `asked` | the deadline question | `AnswerDeadline` (`resolve_uncertain_operation`) |
| `probing`, `following` | `probe_resumable_install`, `follow_resumed_install` | `Probe`, `FollowResumed` |
| `settling`, `reinspecting` | `settle_pending_recovery` | `Settle`, `Reinspect` |
| `uiPublish` ... `uiClear` | `execute_pending_recovery_action`, restore | `RecoveryPublish`, `RecoveryWrite`, `RecoveryRead`, `RecoveryMilestone`, `RecoveryClear` |
| `verifying` | `clear_verified_recovery_record` | `VerifyAndClear` |

The variables are the world (`region`, `record`, `journal`, `install`,
`present`), the thread (`machine`, `facts`, `held`, `expected`, `baseline`,
`purpose`, `attempt`, `resumed`, `touched`, `written`), the window (`found`,
`authorised`, `admits`), and history variables the code does not have: `owed`
(the region a switch took from the user), `already` (operations whose package was
there at the request) and `refused` (whether `apply` ever returned an error, which
the code drops).

Failures are choices. A read may fail or answer; a write may land or not,
whatever it answers; a publication fails before or after the move; a removal, a
history entry, a snapshot, a lookup, a request and an observation may fail. The
clock is the two questions the policy asks: whether the hold has elapsed (it
stays elapsed) and whether the backend has been silent for the threshold (only
while the observation repeats itself).

The other modules are read the same way: an action carries the name of the function it
stands for, its comment the place, and `map` in `PROJECT.json` the lines. A thread is
a `pc` or an `at`; a step ends where a file, the region, a lock or the window's
queue can be touched by somebody else.

## 3. What TLC checks

| Run | Bounds | Distinct states | Shows |
|---|---|---|---|
| `GuardedInstallSafety` | 3 regions, 2 operations, 1 crash, 1 hand-made move, 2 attempts | 1.8 million | the safety of one installation, and `ImplementsPromise` |
| `GuardedInstallLiveness` | 2 regions, 1 operation, 1 crash, 2 attempts | 93 thousand | `OperationEnds` |
| `FileParts` | below | 1.6 million | the files: recovery record (refining `RecoverySlot`), history, log, trace, installers |
| `OperationParts` | below | 2.3 million | handoffs (refining `RegionPromise`), the window's session, evidence of completion |
| `StoreParts` | below | 1.7 million | starts, market survey with the region box over it, updates scan, catalogue |
| `WindowParts` | below | 0.52 million | recovery dialogue, draft, status line, tables, layout, prerequisites |
| `ProgressParts` | below | 0.13 million | the core machine, and everything that must come to an end |
| `ObservedIsNotOver`, `MilestonesReachTheRecord`, `EntryNamesItsRecord`, `InstalledIsOurs`, `FinishIsLegal` | 2 regions, 1 operation, 1 crash | | a counterexample each, section 5 |

### The properties

Of `GuardedInstall` (`GuardedInstallSafety`, `GuardedInstallLiveness`):

- `TemporaryRegionIsRecorded`: a region a switch replaced is named by the
  published record, with the region now in force as its temporary one;
- `RestoredClaimIsTrue`: a milestone that claims the return is true, because
  the next start may remove the record on its word;
- `RecordOutlivesDebt`: the record is replaced only within its operation and
  removed only when nothing is owed;
- `InstallHasRecord`: nothing is requested without the record of this operation;
- `ReturnedRegionStaysPut`: after a confirmed early restore the thread writes no
  region again, on any path and after any takeover;
- `QuestionHasRecord`: the deadline question is asked only over a record;
- `NeverRefused`: the thread never leads its machine to an event it refuses;
- `HistoryTold`: an operation at rest that published a record has told its outcome;
- `InstalledHasEvidence`: "installed" enters the history only with the package
  present and nothing owed;
- `ImplementsPromise`: all of this is a behaviour of `RegionPromise`;
- `OperationEnds`: threads and recoveries come to rest.

Of the suites, with the conjuncts each property is made of:

| Run | Property | Of | Made of |
|---|---|---|---|
| `FileParts` | `ImplementsSlot`, `GuardKnowsFile`, `RemovedWasKnown` | `RecoveryFile` | the store's promise; memory and file agree between publications; a removal deletes what its caller knows |
| | `HistoryIsKept` | `JournalFile` | `AloneNothingIsLost`, `NoEntryTwice`, `EvidenceSurvives`, `DoneIsDone` (at the read-back, and at the telling unless two writers met) |
| | `DiagnosticsAreTrue` | `LogFile`, `OperationTrace` | `RotationsAreOlder`, `SizeIsBounded`, `KeepsTheLatest` (of a lone writer); `TouchIsTold`, `OncePerOperation`, `EndIsTold`, `HistoryAgrees`, `MilestoneIsTrue` |
| | `InstallersAreWhole` | `InstallerFile` | `AdmittedSpeaksOfOneFile`, `NamedIsWhole` |
| `OperationParts` | `ImplementsPromise`, `NobodyElseWorks` | `Handoff` | the refinement; a command is offered only when no thread works |
| | `HandoffIsCovered` | `Handoff` | `LaunchIsCovered`, `RunEndsSafely` |
| | `SessionIsCovered` | `WindowSession` | `OneHolder`, `DecisionIsAlone`, `OneOperationIsCovered`, `RunningIsReal`: of the open window |
| | `EvidenceIsSound` | `CompletionEvidence`, `UninstallEvidence` | `InstalledIsProven`, `StatedFailureIsFailed`, `EndsWithOutcome`; `FreshUnlessDisturbed`, `AbsenceIsReal` |
| `StoreParts` | `OneOwner` | `Launches` | one owner of the session |
| | `SurveyIsTrue` | `MarketSurvey`, `RegionBox` | `AnswersAreAboutTheDraft`, `ProgressIsOfThisPass`, `ConclusiveIsTheWholeAnswer`; `ListIsOffered`, `ShownIsSelected`, `StatusIsTrue`, `CardIsOfTheLink` |
| | `ScanIsTrue` | `UpdatesScan` | `ReadyListIsWhole`, `ListedNeedAnotherRegion` |
| | `CatalogueIsTrue` | `Catalogue` | `VerdictIsOfTheWholeList`, `OfferedCanBeReceived`, `RefusalIsStated` |
| `WindowParts` | `GateIsSafe`, `MilestoneBeforeWrite`, `OutcomeIsTrue` | `RecoveryDialogue` | admits nothing over a record; publishes before it writes; tells what happened |
| | `DraftIsTrue` | `DraftSession` | `CardIsOfDraft`, `WaitsForSomebody`, `VerdictIsOfChosen`, `AnswerStays` |
| | `ShownIsTrue` | `StatusLine`, `ShownTables` | `SentenceFollowsGate`, `NeverReadyWhileBusy`, `HeldRegionHasItsButton`, `FailureIsOfTheHandoff`; `HighlightIsOpened`, `EmptyMeansEmpty`, `TablesSpeakTheLanguage` |
| | `LayoutHolds` | `WindowLayout` | `LayoutIsCurrent`, `ReadsAsItsLanguage`, `Apart`, `PanelsHold` |
| | `PrerequisitesAreTrue` | `Prerequisites` | `AdmittedWasThere`, `MissingWasMissing` |
| `ProgressParts` | `MilestoneCoversRegion`, `EndOwesNothing`, `StateHasMilestone` | `MachineContract` | milestones, final states and region agree |
| | `StartsSettle` | `Launches` | every start ends or shows a window |
| | `UnderWayEnds` | `MarketSurvey`, `UpdatesScan`, `Handoff`, `WindowSession`, `RecoveryDialogue` | what the window shows as under way gives way, and the dialogue ends |
| | `LeftoversGo` | `InstallerFile` | an installer an earlier process left goes, unless the sweep cannot delete it |

Each property has a mutant in `PROJECT.json`: a plausible bug in one mapped
definition (the definitions marked `\* mutated`) under which it fails in its own
run.

### The bounds

`GuardedInstall`. Three regions give the original, the temporary and one foreign to
the record, which is all any comparison in the code tells apart. Two operations
let the record, the facts or the history entry of the first meet the second. One
crash reaches every point of an operation and of a recovery, and one crash of
either is a restart with each kind of record; a graceful `Close` adds further restarts
without a bound. One hand-made move reaches each step at which the region can
change under the code. Two attempts have a first, a last and a repetition (the code has
three, `install.rs:46`). Regions are symmetric: nothing compares them except for
equality. Counters `ops`, `crashes` and `moves` exist only for these bounds, and the
proofs need none of them to be small.

The suites. Constants of a part that a theorem is about are constants of the suite and get
their values in the `.cfg`; those of the other parts stand in the `INSTANCE ... WITH`, and
what a run leaves out of a part in the conjuncts beside its `Next`:

| Part | Bounds | Why they are enough |
|---|---|---|
| recovery file | 2 operations, 2 milestones, 2 orphans | a foreign record, a later milestone, a cleanup with something to leave |
| history | 2 entries, 2 threads, 1 crash | each race here is of two read-modify-writes |
| log | 2 writers (or 1, with more records), 2 rotations, files of 1 record | two rotations of one size check; a rotation that drops a file |
| trace | 2 operations, 1 poll, 1 crash | lines of one operation meet those of the next |
| installers | 1 download name, 1 file elsewhere, 1 inspection at once, 1 selection, 2 writes from outside | a file replaced between the two reads, and swept between any two |
| handoff | 1 handoff over 3 regions and 2 files; 2 handoffs without the third region | the record of one meets the next; a region moved by hand |
| session | 2 operations, 2 regions, 2 messages | a second operation begins while the first still holds the region |
| evidence | 1 run beside a foreign package and another client's installation; 2 runs | a takeover, a package that was there, an installation that is not ours |
| uninstall | 3 keys in two views, 2 changes | a record skipped and one read twice |
| survey | 3 markets, 2 products, 2 passes of 2 workers | an answer of the superseded pass, two workers at one counter |
| scan | 2 applications, 2 markets, 1 scan of 2 workers, 1 move of the region (2 scans for liveness) | an overtaking report; the region moves under a scan; that a later scan replaces it is left to `ScanHolds` |
| catalogue | lists of up to 2 packages, two version fields | a list whose first entry decides wrongly |
| draft | 2 products, 2 requests, 2 files | the older request answers last |
| region box | 3 regions, 1 product, 2 passes whose first thread takes all markets | a list narrowed under a selection; a report that moves the selection |
| status line, tables | 1 chosen file; lists of up to 2, histories of up to 3 | each gate beside each sentence; a list that replaces one with a row picked |
| layout | 3 scalings, 4 sizes, 2 work areas, all tabs and languages | least size, design size and larger ones at each scaling |
| prerequisites | 1 change, 1 further check, 1 restart | the machine changes between two questions |
| launches | 3 starts (2 for liveness) in a session | a third start meets an owner that ends while the second looks |

Deadlock is checked in every run but `FinishIsLegal`. In a suite, `Rest` lets the parts that may come
to rest for good (an operation that is over, a closed window) do so; the others
always have a step to take. In `StoreParts` every part may: a survey, a scan and a verdict end.

### Fairness

`GuardedInstall` assumes weak fairness of `ThreadStep` and `RecoveryStep` (the scheduler
runs a thread that can run, and no call in these steps blocks for ever: each is a
file, region or catalogue call that answers or fails) and of `InstallEnds` (the
package manager ends what it began). Nothing is assumed of the user, of
crashes, or of writes that would have to succeed. `InstallEnds` is needed: the policy
has no overall deadline (`timeout.rs:144`), so an installation that keeps
reporting would be observed for ever, by design. The dialogue in `Settle` is under
`RecoveryStep`: the property says that a question answered comes to rest.

`ProgressParts` states the fairness of each module again for its part: weak fairness of
every thread (a start, a worker of a pass, the closing of a pass, both handoff threads, an
operation's thread, the sweep's next entry), of the window's dispatch of each
kind of message, and of the program's own steps in a dialogue. One is strong:
`ApplyInstallationUpdate` of the session, because opening a dialogue disables it again and
again; the message queue is served in order whenever the window is idle, and the user does
not open dialogues faster than that for ever. The user's choices, the Store's answers
and the region moved by hand are assumed to do nothing at all.

## 4. What is proved

TLAPS proves the following for any set of regions, files, starts, milestones, products,
markets, applications, packages, uninstall records, languages and lists, any numbers of operations,
handoffs, passes, scans, requests, crashes and moves, any finite number of threads where threads
are counted, and any positive number of attempts.

| Theorem | Module | States |
|---|---|---|
| `MilestonesCover`, `EndsOweNothing`, `StatesHaveMilestones` | `MachineContract_proofs` | the three invariants of `MachineContract` |
| `PromiseType`, `PromiseKept` | `RegionPromise_proofs` | the abstract promise keeps `OwedIsSaved` |
| `MovesIsFunction` | `GuardedInstall_proofs` | an event has at most one successor in a state, so `Advance` chooses nothing |
| `TypesHold` | | `TypeOK` |
| `EarlyRestoreIsFinal` | | `ReturnedRegionStaysPut` |
| `QuestionsHaveRecords`, `InstallsHaveRecords` | | `QuestionHasRecord`, `InstallHasRecord` |
| `OriginalIsRecorded`, `RestoredClaimsAreTrue`, `RecordsOutliveDebts` | | the three properties about debt |
| `InstallKeepsPromise` | | `GuardedInstall` implements `RegionPromise` |
| `MachineNeverRefuses` | | `NeverRefused` |
| `HistoryIsTold` | | `HistoryTold` |
| `InstalledIsEvident` | | `InstalledHasEvidence` |
| `HandoffTypes` | `OperationParts_proofs` | `TypeOK` |
| `CommandsFindNobody` | | `NobodyElseWorks` |
| `HandoffKeepsPromise` | | `Handoff` implements `RegionPromise` |
| `LaunchesAreCovered`, `RunsEndSafely`, `HandoffsAreCovered` | | `HandoffIsCovered` and its two halves |
| `EvidenceHolds` | | `EvidenceIsSound`: the invariants of `CompletionEvidence` and `UninstallEvidence`, and the action property `EndsWithOutcome` |
| `SessionHolds` | | `SessionIsCovered`: the four theorems of `WindowSession_proofs`, of the part |
| `FileTypesHold`, `GuardAlwaysKnows`, `RemovalsAreKnown` | `FileParts_proofs` | `TypeOK`, `GuardKnowsFile`, `RemovedWasKnown` |
| `FileImplementsSlot` | | `RecoveryFile` implements `RecoverySlot` |
| `HistoryKept` | | `HistoryIsKept`: the invariants and both action properties of `JournalFile` |
| `InstallersStayWhole` | | `InstallersAreWhole`: the invariants of `InstallerFile` |
| `DiagnosticsHold` | | `DiagnosticsAreTrue`: the invariants of `LogFile`, of the log of a lone writer, and of `OperationTrace` |
| `PartsRunTheDialogue`, `DialogueAdmitsSafely`, `DialoguePublishesFirst`, `DialogueTellsTheOutcome` | `WindowParts_proofs` | the suite takes the steps of the dialogue; `GateIsSafe`, `MilestoneBeforeWrite`, `OutcomeIsTrue` |
| `DraftHolds` | | `DraftIsTrue`: the invariants and the action property of `DraftSession` |
| `PrerequisitesHold` | | `PrerequisitesAreTrue`: the invariants of `Prerequisites` |
| `ShownHolds` | | `ShownIsTrue`: the invariants of `StatusLine` and `ShownTables` |
| `SessionTypes` | `WindowSession_proofs` | `TypeOK` |
| `RegionHasOneHolder`, `DecisionsAreAlone`, `SingleOperationIsCovered`, `RunningHasAThread` | | `OneHolder`, `DecisionIsAlone`, `OneOperationIsCovered`, `RunningIsReal`: the conjuncts of `SessionIsCovered` |
| `SessionHasOneOwner` | `StoreParts_proofs` | `OneOwner` |
| `ScanHolds` | | `ScanIsTrue`: the invariants of `UpdatesScan` |
| `SurveyHolds` | | `SurveyIsTrue`: the invariants of `MarketSurvey` and `RegionBox` |

Every safety property of `GuardedInstallSafety` is thus proved, and so is every invariant and action
property of the suites but two, `CatalogueIsTrue` and `LayoutHolds`.

Assumptions. Each module names its own, `<Module>Assumption`, `BoundAssumption` or the like. Those of
the modules that are extended are assumed there; those of the instantiated parts are one assumption
of the suite, `PartsFit`, from which the proofs take the conjunct of their part. They say that markers
are not regions, records, products, files or surveys; that the admissible files are files, the curated
markets markets and those regions; that each start has a session; that a name is no path elsewhere and a
truncated body not whole; that lists are sequences and there is a language; that applications, regions, subkeys of a view,
and the threads of the history and the log are finitely many; and that the bounds are natural numbers,
positive where a thread or a file of no room would be meant. TLC evaluates them in every run.

`RegionPromise` and `WindowSession` carry theirs as a hypothesis of their theorems
(`PromiseAssumption`, `SessionAssumption`), so that the theorems can be used of an instance. The refinements
discharge the one. `SessionHolds` discharges the other: `OperationParts_proofs` instantiates
`WindowSession_proofs` (`Proved`) with the variables of the part, shows that the part takes the steps
of a session, and takes the rest from `PartsFit`. What carries over from `PartsSpec`, here and in
`PartsRunTheDialogue`, is `Init /\ [][Next]_vars`: the suites' safety runs state no fairness, and no theorem needs any.

### The guarded installation

None of the properties about debt, the machine or the history is inductive. The
invariant of `GuardedInstall_proofs` comes in layers, each inductive under those
before it:

1. `TypeInv`: types, and a record in hand at every step that works on one.
2. `ReturnIsKnown`: only an operation that knows of its early restore is in a
   state that claims it, and it then only observes, decides and clears. Without it a
   takeover could write the region again.
3. `DiskInv`: the record in hand and the one on disk have the same identity at
   every step after the publication. They need not be equal: a publication that
   failed after its move leaves a milestone on disk that memory does not have. Up
   to the request both say `Prepared`.
4. `DebtInv`: the debt is recorded, claims are true, and past a read-back that found
   the original region nothing is owed. The last part carries `Restored` and
   `RegionRestoredEarly` through the publication, and lets the record go.
5. `MachineInv`: the joint range of `pc`, `purpose`, `machine` and `facts`. `StateFits`
   lists the states the machine can be in at each step, `ObservationFits` ties the last
   observation to the state it led to, `ReturnIsInMachine` the known return to the
   states that claim it. `NeverRefused` alone is not inductive, because whether an
   event is refused depends on all three: a stated failure after an early restore,
   a milestone that failed, and the events a takeover replays.
6. `HistoryInv`: at rest the outcome is told (`RestIsTold`), and on the two silent ways
   out, a failure stated before its restore and a replayed one, it was told before
   they were taken (`WayOutIsTold`).
7. `EvidenceInv`: a completion is believed and a recorded package found only of a package
   that is there. With layer 4 it gives both halves of `InstalledHasEvidence`.

The user's moves are why `owed` is a variable and not a function of region and
record: a region the user chose by hand is not owed to them, and the proof of
`RestoredClaimIsTrue` turns on it.

### The handoff

The handoff's part of `OperationParts_proofs` has the same order over different hazards:

1. `TypeInv`: types; a thread is at a step of its own function and knows what it was
   called with (`ThreadFits`, `HoldsRecord`); the window shows which function is at work
   (`WindowShowsThread`); and what is posted and not yet handled is the first message of that
   function, its last, or both (`PostsFit`). The last two are what `NobodyElseWorks`
   needs: a stage that offers a command is only ever the last message of a thread
   that is gone.
2. `DiskInv`: the record held is the one on disk (`HeldIsOnDisk`): the same record in a
   restoration, and in a run the same up to its milestone (`Alike`), because a publication that fails
   may have moved the milestone into place; only the run at work publishes for the newest handoff (`RecordIsBegun`), and a run claims the return in
   its last step only (`RunNotRestored`).
3. `DebtInv`: what is owed is recorded (`OwedIsRecorded`), and past a read-back of the original
   region nothing is owed.

The steps are reduced to what they do to the region and its record (`StepMovesDisk`),
so the refinement and the debt are each argued once per such move rather than once per action.

### The window session

None of the four properties says why it holds: the window begins a second operation while
the first still works, and yet two never hold the region, and a question at a deadline
finds nobody at work. `WindowSession_proofs` makes the reason an invariant, in layers:

1. `TypeInv`: types, and that a thread works for its own operation only.
2. `SessionInv`. `OneVoice`: an operation tells its end once, so there is at most one thread
   yet to tell it (`Live`) or one message that does, and neither while the window shows
   nothing running; a thread that told its end goes on only to put the region back.
   `AskedAlone`: the message that asks a question is the last thing of a thread that is gone.
   `DecidedLast`: nothing that ends an operation is under way while it is decided.
   `HoldersRecorded`: whoever holds the region is named by the record. `OneHolder` and
   `DecisionIsAlone` follow.
3. `CoveredInv`, while one operation was begun: what is owed is what its record says, and
   the region is back at every step that was reached over a read-back, of the thread or
   of the recovery the window carries out beside it.
4. `RealInv`: the end of an operation is the last message of its queue, and what is shown as
   running has a thread that will tell it or told it. A dialogue that ends posts what it held back
   behind what came meanwhile (`state.rs:94`); where that was the end, the history variable
   `overtaken` says so until the next operation begins, and `RunningIsReal` says nothing. It is
   the only exception, and what happens in it is `EndStaysShown` in section 5.

A thread's step is reduced to what it says (`Quiet`, `Says`) and what it does to the
record (`Keeps`, `Names`, `Removes`), so that each layer is argued over two or three such moves.

### The history

Threads read, change and replace one file without a lock, so none of the promises of
`HistoryIsKept` follows from the step that could break it. `HistoryInv` says what is under way:

- `JobFits`: what a writer carries by its kind. It carries entries of ended operations,
  each once; a deletion carries a list without its entry; nothing is about to be
  replaced that cannot be read. That gives `EvidenceSurvives`, and, since the
  read-back compares with that list, the first half of `DoneIsDone`. Between the read-back
  and the message to the window another writer can move its own list in, so the second half is about
  writers that never met, and rests on `AloneIsExact`; `ToldIsDone` in section 5 is the sentence
  without that condition.
- `EntriesAreNew`: an entry on its way into the file is neither in the file nor in
  the list of any other thread, nor on its way twice. `NoEntryTwice` needs it: a list
  read before is moved in over the file, whatever it holds by then.
- `AloneIsExact`: as long as writers never met, the file holds what should be kept
  and the one writer carries what should be kept after it.

`AppendTold` and `RemovedTold` say what the two changes of a list do to its entries.
A step that leaves the file alone is argued once (`JobKeepsInv`), and the
two that touch it (the move and the restart) on their own.

### The installers

An inspection reads a path, has a signature verified through the path, and reads the path
again; between any two of these the file is written, renamed over or swept. `InstallersInv` has
the reason why the comparison of the two reads suffices: every write has a number of
its own, no larger than those so far (`InspectionFits`), so a path that
reads again as it did held the same file throughout, and the signature was trusted for it.
The number stands for the time of modification in `StubFileIdentity` (`stub.rs:97-109`); that
a file is put back with its old bytes and its old time is left out. `DownloadFits` says that what is
renamed into place was completed under its staging name, or has gone from there.

### The log and the trace

What the log and the history say of an operation is read long after it was written, so
`TraceInv` says of every line and entry whose operation it is of, and of each step of the thread what was
told by then: `LinesFit` and `EntriesFit` (one outcome, entry and end for each operation, none before its
flag), `StepsFit` (the flags at each `pc`, whatever failed on the way there) and `RegionFits` (a temporary
region has a record behind it, and the record a line).

The log file's size is checked in one step and written to in another, by several threads. What stays
bounded is therefore not the file, but the file with what is to come to it: `SizesFit` adds the records
of a file to the threads that have yet to write theirs, and `FilesFit` the files created to the records that
may yet need one. The bound is `MaxFile` and the other threads, one record each. For a
lone writer `LoneFits` follows the names through each phase of a rotation, `Rotated(i)` being one that has
come down to the file `i`; `KeepsTheLatest` is what it says when no phase is under way.

### The evidence

`EvidenceInv` adds to the invariants of `CompletionEvidence` that nothing is said before an operation
is over, that an installation is followed by its number in the last step only, and `MeasuredIsTrue`: a
snapshot taken before the request shows the operation's own packages as they were.

The walk over the uninstall keys goes by index while other programs add and remove keys.
`UninstallInv` has the reason why a snapshot is still of use: it names every record that was there since the
walk began and that the walk has passed (`BaselineNames`, `FollowUpNames`), unless a subkey
went from the view in hand, which the history variable `disturbed` notes. "Passed" is a comparison of ranks, and
the lemmas before it say what adding or removing a key does to the rank of another.

### The scan and the survey

Both are passes of several threads over one counter, and both post answers that may come late.

- `ScanFits`: in every scan, the answers counted and the threads asking are together the applications taken, and
  a thread leaves only when none is left. So a scan that closes has asked them all, and
  one that is over never moves again; a list shown as an answer is of such a scan, the last one, or
  of the remembered file (`ViewFits`).
- `SearchFits`: in the pass asked last, the answers counted, those posted and the markets being asked are
  together the markets taken, and each market taken is known, posted or being asked (`CurrentFits`); a pass's last
  report is behind all its answers (`BoxFits`); every pass moved on from is cancelled
  (`StraysStopped`). With `Truthful`, a market missing from a conclusive answer does not offer the product.
- `ScreenInv`: the box has the list and the language of the last rendering, and names the region selected or none.

### What the window shows

- `DraftInv`: the card is of the text, a waiting question has a thread or a message on its way, and so
  has a chosen file whose inspection is missing.
- `NeedsInv`: each answer is grounded in what this process found there or lacking, at whatever time, and one copy of the
  metadata at a time has the file open.
- `StatusInv`: the window and the threads agree (`Agree`): who installs is shown as running and no handoff
  is; a handoff's thread has a stage that blocks; a region owed from an earlier run keeps the gate
  shut. `May` says which sentences may stand over that.
- `ShownInv`: what is picked is picked in the list on show (`PickedIsShown`), until the late list of the startup
  checks, the exception section 5 names; the journal's rows are those of the last rendering.

### The recovery file, the dialogue and the starts

The recovery part of `FileParts_proofs` carries one invariant: types; `StepsAreGrounded`, what each
step between a check and its effect may rely on (whatever is about to be replaced is
nothing or of the same operation, although a keeper may clean up beside it); and
`SidesAgree`, that memory and file agree as long as the keeper stays away from a
living operation. The dialogue's part of `WindowParts_proofs` carries what each step of an execution has
established and that outcomes are told and the gate is opened at the end only.
The first part of `StoreParts_proofs` says that an owner keeps its handle, so a start that finds the mutex
free finds no other owner.

Each layer was checked by TLC before it was proved. The proofs have one step per
action; frame lemmas (`RegionKept...`, `AroundKept...`, `Published...`) treat what the
actions share once.

### What is only model-checked

- *Liveness*: `OperationEnds`, `StartsSettle`, `UnderWayEnds`, `LeftoversGo`. Fairness and
  `ENABLED` are beyond this prover.
- *`CatalogueIsTrue`*: the verdict is read out of lists with `SelectSeq` and `FlattenSeq`,
  which are defined by recursion; what they compute for every list is an induction over data.
- *`LayoutHolds`*: the geometry multiplies by a scaling and divides with rounding, over all
  rectangles of the window; the run checks each scaling, size, tab and language of the bounds.
- *That the parts of a suite do not touch each other*: it is the shape of the modules
  (`UNCHANGED` of all other variables), not a theorem.

## 5. Where documents and code differ

Five runs end in a counterexample, each to a sentence of the repository; the
`findings` of `PROJECT.json` quote them.

- `ObservedIsNotOver`: a crash between the write of an early restore and
  its milestone leaves the original region under a record that says `Prepared`, while the
  installation is running. That is a record the next start takes for over and removes (`LooksOver`).
- `MilestonesReachTheRecord`: the machine's milestones are written by nobody on
  the installation path, not "twice" as the comment says.
- `EntryNamesItsRecord`: the history entry of an installation taken over has an
  identity no record had.
- `InstalledIsOurs`: without a snapshot before the request, a package that was
  already there can be recorded as installed by the operation.
- `FinishIsLegal`: after an early restore and a failure the policy says
  `Finish`, which the machine refuses. The application does not run into it
  (`NeverRefused`, now a theorem), because it returns on a stated failure before asking.

The other modules hold more such sentences, each as a definition with its
quotation, most of them in a section of their own at the end of the module. TLC finds a counterexample to each when it is given
as an invariant or property of the module's `Spec` under the bounds of its suite, or under those named
in the last column. No run of the project repeats them.

| Module | Definition | Code | What happens | Bounds |
|---|---|---|---|---|
| `MarketSurvey` | `SelectionIsListed` | `command.rs:585` | narrowing the list again keeps a selection that is no longer listed |  |
| `MarketSurvey` | `SelectedMarketIsAsked` | `command.rs:267` | a market selected while a one-market pass runs is asked by nobody |  |
| `MarketSurvey` | `KnowledgeIsKept` | `availability.rs:174` | a later silence replaces a known answer |  |
| `UpdatesScan` | `AgeIsOfTheShownList` | `window.rs:1183` | a finished scan is shown with the age of the remembered one |  |
| `UpdatesScan` | `ScanAsksHere` | `command.rs:308` | the market asked is a copy of the region that operations and the user do not renew |  |
| `JournalFile` | `DeletesOnlyItsEntry` | `storage.rs:339` | a deletion replaces the file by what it read, without an entry appended in between |  |
| `JournalFile` | `ToldIsDone` | `work.rs:127` | an append that read before moves its list in between the read-back of a deletion and its message: the entry said to be deleted is in the file |  |
| `JournalFile` | `RefusedChangesNothing` | `storage.rs:333` | a deletion is told as refused when only the read-back failed and the entry is gone |  |
| `JournalFile` | `LoadingIsLoading` | `window.rs:1340` | after a refused deletion the tab says that it loads, and no thread does |  |
| `JournalFile` | `QuietListIsCurrent` | `install.rs:764` | the list is loaded on the terminal message, before the entry is in the file |  |
| `RecoveryFile` | `CleanupOnlyReclaims` | `recovery.rs:26` | the inspection at closing removes the temporary file of a living publication |  |
| `RecoveryFile` | `RemovedWasValidated` | `storage.rs:137` | a milestone published between check and deletion is deleted unseen |  |
| `Handoff` | `HandedOffWasStarted` | `handoff.rs:452` | the entry that the installer took over is written for a launch that was rejected |  |
| `Handoff` | `OneEntry` | `handoff.rs:452` | a failed handoff that is put back writes two entries |  |
| `Handoff` | `SafeMeansNothingPending` | `handoff.rs:394` | a restore that cannot read the record reports a safe region under the temporary one |  |
| `Handoff` | `TemporaryMeansPublished` | `handoff.rs:269` | a switch whose record could not be published reports a published record |  |
| `Handoff` | `AskedBeforeClosing` | `handoff.rs:45` | closing asks nothing between the write of the region and the launch |  |
| `Handoff` | `InstallersAreSwept` | `window.rs:1130` | the branch that sweeps at the end of a handoff is never taken |  |
| `Handoff` | `StartedLeavesTrace` | `startup.rs:316` | the next start removes the record of a handoff whose region is back, and writes no entry |  |
| `DraftSession` | `ValidDraftIsAccepted` | `command.rs:768` | a link that parses stays without a product after a file was chosen and dropped |  |
| `DraftSession` | `RequestFollowsMarket` | `command.rs:523` | a selection moved by a narrowed list begins no request for its market | both regions as markets |
| `DraftSession` | `AskedBeforeInstall` | `command.rs:523` | and its delivery is never asked about | both regions as markets |
| `DraftSession` | `ButtonStartsSomething` | `state.rs:516` | the primary button is enabled by the source that is not selected |  |
| `DraftSession` | `CardSaysItsOwn` | `window.rs:1476` | the card of an operation is shown with the confirmation of an earlier card |  |
| `WindowSession` | `CoveredWhileOpen` | `install.rs:734` | a failure is posted before the restore: a second operation takes the temporary region for its original | 3 regions, 2 operations |
| `WindowSession` | `CoveredAfterClose` | `window.rs:586` | closing removes a record just published, and the thread writes the region after it |  |
| `WindowSession` | `NoneBeginsOverRecord` | `state.rs:472` | the gate is not computed again when an operation ends and leaves its record |  |
| `WindowSession` | `RemovedStaysRemoved` | `window.rs:631` | the living thread publishes the record again after restore-and-exit removed it |  |
| `WindowSession` | `EndStaysShown` | `state.rs:94` | an update held back by a dialogue is posted again behind the operation's end and shows it running for ever |  |
| `CompletionEvidence` | `RefusedWasNotStarted` | `backend.rs:154` | a failed progress handler is returned as a refusal after the installation was accepted |  |
| `CompletionEvidence` | `PriorPresenceIsTold` | `packaged.rs:58` | a package that was there unread is reported as completed | `Legible` false |
| `CompletionEvidence` | `PresentMeansFinished` | `install.rs:207` | a package half deployed is written as installed |  |
| `CompletionEvidence` | `TakesOverItsOwn` | `backend.rs:248` | any client's installation of the product is taken over |  |
| `CompletionEvidence` | `SettledIsOver` | `install.rs:185` | a package manager that cannot be asked is taken for one with nothing in flight |  |
| `InstallerFile` | `InspectionIsOfThisSelection` | `window.rs:1039` | selecting the same path again accepts the first inspection's answer | 2 inspectors, 2 selections |
| `InstallerFile` | `ReadyMeansSelected` | `window.rs:1268` | "downloaded and selected" replaces the error of a file that was swept |  |
| `Catalogue` | `UnreadIsPermissive` | `availability.rs:392` | a version field read as zero makes the product incompatible, not permitted |  |
| `Catalogue` | `HighestVersionWins` | `availability.rs:510` | the catalogue's rank wins, not the highest version |  |
| `WindowLayout` | `StatusClearsProgress` | `layout.rs:117` | with the menu bar the status box runs into the progress bar at the least size |  |
| `WindowLayout` | `FramedInStep` | `controls.rs:691` | one bordered control is missing from the list of frames |  |
| `WindowLayout` | `KeyboardStays` | `command.rs:344` | changing the tab past its strip leaves the keyboard on a hidden button |  |
| `WindowLayout` | `PlacedOnDesktop` | `window.rs:283` | the size is capped at the desktop and then raised to the design size again |  |
| `StatusLine` | `UnavailableWhileEnabled` | `window.rs:1195` | the sentence is not renewed when the button of a selected file becomes enabled |  |
| `StatusLine` | `ReadyIsNotHeld` | `render.rs:1172` | the sentence says ready while a handoff holds the region |  |
| `StatusLine` | `RestoreIsNamed` | `render.rs:94` | the button that gives the region back says that it downloads |  |
| `StatusLine` | `StartedSaysSo` | `command.rs:77` | the failure of the operation before is said of the one just started |  |
| `StatusLine` | `NoticeSurvives` | `window.rs:1294` | the answer about the launched product replaces a blocking notice |  |
| `LogFile` | `KeepsTheLatest` | `diagnostic_log.rs:105` | two threads rotate a full file twice and drop one too many | two writers |
| `LogFile` | `OneRecordPerLine` | `diagnostic_log.rs:80` | another thread's line comes between a line and its end | files of 2 records |
| `OperationTrace` | `RecordWrittenIsWritten` | `install.rs:554` | the line is written before the record is published |  |
| `OperationTrace` | `FinishedIsLast` | `install.rs:630` | a failure is logged as finished before the region is put back |  |
| `OperationTrace` | `RecoveryIsNeeded` | `install.rs:775` | recovery is said to be required of a region that is home, when its milestone failed |  |
| `Prerequisites` | `PresentIsWhole` | `metadata.rs:65` | part of a copied metadata file counts as present |  |
| `Prerequisites` | `AtOneMoment` | `prerequisites.rs:35` | answers of different moments make one report | 2 changes |
| `RegionBox` | `SelectionIsShown` | `command.rs:522` | the box stays blank while the state selects a region |  |
| `RegionBox` | `InputShowsDraft` | `command.rs:636` | an entry repeated from the journal changes the draft and not the field |  |
| `RegionBox` | `CompleteIsConclusive` | `render.rs:752` | the sentence drops "incomplete" although markets were silent |  |
| `ShownTables` | `EntryIsHighlighted` | `journal.rs:143` | every rendering drops the highlighted journal row |  |
| `ShownTables` | `ArrowMovesOn` | `journal.rs:143` | and with it the row an arrow key starts from |  |
| `ShownTables` | `OpenedIsHighlighted` | `window.rs:1184` | the list of the startup checks comes under a selection made in another |  |
| `UninstallEvidence` | `NeverPassedOff` | `uninstall.rs:160` | a key removed beside the walk hides the next record, which then looks new |  |
| `RecoveryDialogue` | `ConflictWritesNothing` | `startup.rs:279` | a conflict is also returned after the write |  |
| `RecoveryDialogue` | `PreservedIsThere` | `window.rs:764` | the record said to be preserved is removed by the inspection that follows |  |
| `RecoveryDialogue` | `EntryBeforeRemoval` | `window.rs:740` | the record goes whether or not its history entry was written |  |
| `RecoveryDialogue` | `RequiredIsBlocked` | `window.rs:760` | the window says blocked and admits an installation |  |
| `Launches` | `InputReachesAField` | `window.rs:92` | a second start drops the input it was given |  |
| `Launches` | `ZeroMeansAWindow` | `window.rs:323` | exit code 0 without a window |  |
| `Launches` | `OneInstance` | `window.rs:313` | two sessions of one user run two instances over one record | two sessions |

One thing no property covers: `write_original_region` (`install.rs:1100`) writes the
original region without comparing the one in force first, so a region the user chose by hand
during an installation is overwritten. No sentence of the repository says
otherwise, and the promise is about the region taken from the user.

## 6. What is left

Two properties of the passing runs have no theorem, `CatalogueIsTrue` and `LayoutHolds`, for the reasons
in section 4. A theorem of either would have to start from a statement about single rows (what one package of a list
contributes, where one rectangle stands) and leave the list and the whole layout to TLC.

Left out for good: Windows calls, COM and the generated bindings, HTTP, parsing of
links and metadata, JSON, the text of log lines, painting and wording. They are data
or I/O: what they can answer is a choice in the modules that call them.

## 7. Running it

    tlc -workers 4 -config GuardedInstallSafety.cfg GuardedInstallMC.tla
    tlc -workers 4 -config OperationParts.cfg OperationParts.tla
    tlc -config ProgressParts.cfg ProgressParts.tla
    tlapm GuardedInstall_proofs.tla
    tlapm StoreParts_proofs.tla

`PROJECT.json` names the module and configuration of each run, the source lines of
each definition, the mutants, the findings, the hazards and the theorems.
