---------------------------- MODULE RecoveryFile ----------------------------
(***************************************************************************)
(* pending-restore.json as platform/storage.rs keeps it: a publication     *)
(* checks the identity, writes a temporary file, moves it into place and   *)
(* reads it back; a removal reads the record and then deletes the file.    *)
(* The owner is the thread of an operation with its PendingRestoreGuard    *)
(* (core/recovery/store.rs). The keeper is whoever inspects and recovers:  *)
(* the next start, or the window beside a living operation                 *)
(* (gui/recovery.rs, core/recovery/startup.rs).                            *)
(***************************************************************************)
EXTENDS Naturals

CONSTANTS
    Operations,      \* identities of operations
    DurableStates,   \* milestones a record names
    Prepared,        \* the first of them
    Missing,         \* no published file
    Unreadable,      \* a file this program cannot read
    Nothing,         \* no record in memory, no temporary file
    Partial,         \* a temporary file cut short
    MaxOrphans       \* bound on temporary files left behind

ASSUME FileAssumption ==
    /\ Prepared \in DurableStates /\ MaxOrphans \in Nat
    /\ Missing # Unreadable /\ Nothing # Partial
    /\ \A r \in [operation: Operations, state: DurableStates] :
           r \notin {Missing, Unreadable, Nothing, Partial}

VARIABLES
    published,   \* the published file
    temporary,   \* the temporary file of the publication under way
    orphans,     \* temporary files of earlier attempts
    owner,       \* the operation's thread and its guard
    keeper,      \* the inspection and recovery
    disturbed    \* history: the keeper met a living operation

vars == <<published, temporary, orphans, owner, keeper, disturbed>>

Records == [operation: Operations, state: DurableStates]

Owners ==
    [at: {"gone", "ready", "checking", "creating", "writing", "moving",
          "readback", "clearing", "removing"},
     pending: Records \cup {Nothing},   \* the guard's copy
     next: Records \cup {Nothing},      \* what is being published
     saved: BOOLEAN,                    \* the first publication succeeded
     doubt: BOOLEAN]                    \* the last one failed after its move

NoOwner ==
    [at |-> "gone", pending |-> Nothing, next |-> Nothing, saved |-> FALSE,
     doubt |-> FALSE]

Keepers ==
    [at: {"idle", "cleaning", "loading", "deciding", "checking", "removing"},
     pending: Records \cup {Nothing}]

NoKeeper == [at |-> "idle", pending |-> Nothing]

-----------------------------------------------------------------------------
(* The owner.                                                              *)

Beside == disturbed' = (disturbed \/ keeper.at # "idle")

\* save_prepared publishes the record the guard was made with.
BeginOperation ==
    /\ owner.at = "gone"
    /\ \E op \in Operations :
           LET record == [operation |-> op, state |-> Prepared]
           IN  owner' = [NoOwner EXCEPT !.at = "checking", !.pending = record,
                                        !.next = record]
    /\ Beside
    /\ UNCHANGED <<published, temporary, orphans, keeper>>

UpdateStateEarly ==   \* mutated
    /\ owner.at = "ready"
    /\ \E s \in DurableStates :
           owner' = [owner EXCEPT !.at = "checking",
                                  !.pending = [owner.pending EXCEPT !.state = s],
                                  !.next = [owner.pending EXCEPT !.state = s]]
    /\ UNCHANGED <<published, temporary, orphans, keeper, disturbed>>

UpdateState ==
    /\ owner.at = "ready"
    /\ \E s \in DurableStates :
           owner' = [owner EXCEPT !.at = "checking",
                                  !.next = [owner.pending EXCEPT !.state = s]]
    /\ UNCHANGED <<published, temporary, orphans, keeper, disturbed>>

\* A failed publication keeps the prior copy; the first ends the operation.
Refuse(moved) ==
    owner' = IF owner.saved
             THEN [owner EXCEPT !.at = "ready", !.next = Nothing,
                                !.doubt = @ \/ moved]
             ELSE NoOwner

AnyIdentity == published # Unreadable   \* mutated

SameIdentity ==
    /\ published # Unreadable
    /\ published # Missing => published.operation = owner.next.operation

CheckIdentity ==
    /\ owner.at = "checking"
    /\ \/ Refuse(FALSE)
       \/ SameIdentity /\ owner' = [owner EXCEPT !.at = "creating"]
    /\ UNCHANGED <<published, temporary, orphans, keeper, disturbed>>

CreateTemporary ==
    /\ owner.at = "creating"
    /\ \/ Refuse(FALSE) /\ UNCHANGED temporary
       \/ temporary' = Partial /\ owner' = [owner EXCEPT !.at = "writing"]
    /\ UNCHANGED <<published, orphans, keeper, disturbed>>

\* The failed attempt is removed, or left for the next inspection.
Discard ==
    /\ temporary' = Nothing
    /\ orphans' \in {orphans,
                     IF temporary # Nothing /\ orphans < MaxOrphans
                     THEN orphans + 1 ELSE orphans}

WriteTemporary ==
    /\ owner.at = "writing"
    /\ \/ Refuse(FALSE) /\ Discard
       \/ /\ temporary' = IF temporary = Nothing THEN Nothing ELSE owner.next
          /\ owner' = [owner EXCEPT !.at = "moving"]
          /\ UNCHANGED orphans
    /\ UNCHANGED <<published, keeper, disturbed>>

MoveIntoPlace ==
    /\ owner.at = "moving"
    /\ \/ Refuse(FALSE) /\ Discard /\ UNCHANGED published
       \/ /\ temporary # Nothing
          /\ published' = temporary /\ temporary' = Nothing
          /\ owner' = [owner EXCEPT !.at = "readback"]
          /\ UNCHANGED orphans
    /\ UNCHANGED <<keeper, disturbed>>

ReadBack ==
    /\ owner.at = "readback"
    /\ \/ Refuse(TRUE)
       \/ /\ published = owner.next
          /\ owner' = [owner EXCEPT !.at = "ready", !.pending = owner.next,
                                    !.next = Nothing, !.saved = TRUE,
                                    !.doubt = FALSE]
    /\ UNCHANGED <<published, temporary, orphans, keeper, disturbed>>

\* clear_verified consumes the guard, whatever comes of it.
BeginClear ==
    /\ owner.at = "ready"
    /\ owner' = [owner EXCEPT !.at = "clearing"]
    /\ UNCHANGED <<published, temporary, orphans, keeper, disturbed>>

AnyRecord(pending) == published \in Records   \* mutated

IsVerified(pending) == published = pending

VerifyBeforeClear ==
    /\ owner.at = "clearing"
    /\ \/ owner' = NoOwner
       \/ IsVerified(owner.pending) /\ owner' = [owner EXCEPT !.at = "removing"]
    /\ UNCHANGED <<published, temporary, orphans, keeper, disturbed>>

RemoveFile == published' \in {published, Missing}

OwnerRemoves ==
    /\ owner.at = "removing"
    /\ RemoveFile
    /\ owner' = NoOwner
    /\ UNCHANGED <<temporary, orphans, keeper, disturbed>>

\* An operation may end and leave its record.
OwnerLeaves ==
    /\ owner.at = "ready"
    /\ owner' = NoOwner
    /\ UNCHANGED <<published, temporary, orphans, keeper, disturbed>>

OwnerStep ==
    \/ BeginOperation \/ UpdateState
    \/ CheckIdentity \/ CreateTemporary \/ WriteTemporary \/ MoveIntoPlace
    \/ ReadBack
    \/ BeginClear \/ VerifyBeforeClear \/ OwnerRemoves
    \/ OwnerLeaves

-----------------------------------------------------------------------------
(* The keeper.                                                             *)

Inspect ==
    /\ keeper.at = "idle"
    /\ keeper' = [keeper EXCEPT !.at = "cleaning"]
    /\ disturbed' = (disturbed \/ owner.at # "gone")
    /\ UNCHANGED <<published, temporary, orphans, owner>>

\* Every temporary file goes, that of a living publication too.
CleanTemporaryFiles ==
    /\ keeper.at = "cleaning"
    /\ \/ orphans > 0 /\ orphans' = orphans - 1 /\ UNCHANGED <<temporary, keeper>>
       \/ /\ temporary # Nothing /\ temporary' = Nothing
          /\ UNCHANGED <<orphans, keeper>>
       \/ /\ keeper' = [keeper EXCEPT !.at = "loading"]
          /\ UNCHANGED <<orphans, temporary>>
    /\ UNCHANGED <<published, owner, disturbed>>

LoadRecord ==
    /\ keeper.at = "loading"
    /\ keeper' \in {NoKeeper} \cup
           {[at |-> "deciding", pending |-> r] : r \in Records \cap {published}}
    /\ UNCHANGED <<published, temporary, orphans, owner, disturbed>>

\* The region is the original one, or was written back; or nothing is done.
Decide ==
    /\ keeper.at = "deciding"
    /\ keeper' \in {NoKeeper, [keeper EXCEPT !.at = "checking"]}
    /\ UNCHANGED <<published, temporary, orphans, owner, disturbed>>

KeeperVerifies ==
    /\ keeper.at = "checking"
    /\ \/ keeper' = NoKeeper
       \/ IsVerified(keeper.pending) /\ keeper' = [keeper EXCEPT !.at = "removing"]
    /\ UNCHANGED <<published, temporary, orphans, owner, disturbed>>

KeeperRemoves ==
    /\ keeper.at = "removing"
    /\ RemoveFile
    /\ keeper' = NoKeeper
    /\ UNCHANGED <<temporary, orphans, owner, disturbed>>

KeeperStep ==
    \/ Inspect \/ CleanTemporaryFiles \/ LoadRecord
    \/ Decide \/ KeeperVerifies \/ KeeperRemoves

-----------------------------------------------------------------------------
(* The world.                                                              *)

\* The process dies; its temporary file stays.
Crash ==
    /\ owner' = NoOwner /\ keeper' = NoKeeper
    /\ temporary' = Nothing
    /\ orphans' = IF temporary # Nothing /\ orphans < MaxOrphans
                  THEN orphans + 1 ELSE orphans
    /\ UNCHANGED <<published, disturbed>>

\* Another version, or an editor, leaves a file this one cannot read; not
\* between a look at the file and the step that relies on it.
Spoil ==
    /\ owner.at \in {"gone", "ready", "checking", "clearing"}
    /\ keeper.at # "removing"
    /\ published' = Unreadable
    /\ disturbed' = TRUE
    /\ UNCHANGED <<temporary, orphans, owner, keeper>>

Init ==
    /\ published \in Records \cup {Missing, Unreadable}
    /\ temporary = Nothing
    /\ orphans \in 0 .. MaxOrphans
    /\ owner = NoOwner
    /\ keeper = NoKeeper
    /\ disturbed = FALSE

Next == OwnerStep \/ KeeperStep \/ Crash \/ Spoil

Spec == Init /\ [][Next]_vars

-----------------------------------------------------------------------------
TypeOK ==
    /\ published \in Records \cup {Missing, Unreadable}
    /\ temporary \in Records \cup {Nothing, Partial}
    /\ orphans \in 0 .. MaxOrphans
    /\ owner \in Owners
    /\ keeper \in Keepers
    /\ disturbed \in BOOLEAN

(* The files, moves, read-backs and crashes implement the store's promise: *)
(* a record is replaced whole and by its own operation only, and an        *)
(* unreadable one is left alone (storage.rs:90-138).                       *)
Slot == INSTANCE RecoverySlot WITH slot <- published

ImplementsSlot == Slot!Spec

(* What the guard has in memory is what is on disk, unless a publication   *)
(* failed after its move: a failed one keeps the prior copy on both sides  *)
(* (store.rs:86). Between two publications, with no keeper beside.         *)
GuardKnowsFile ==
    owner.at \in {"ready", "clearing"} /\ ~owner.doubt /\ ~disturbed
        => published = owner.pending

IsRemoval == published \in Records /\ published' = Missing

(* Without a keeper beside a living operation, what a removal deletes is   *)
(* the record its caller knows, to the last milestone (storage.rs:132).    *)
RemovedWasKnown ==
    [][ IsRemoval /\ ~disturbed
            => published \in {owner.pending, keeper.pending} ]_vars

-----------------------------------------------------------------------------
(* Sentences of the source that the code does not keep when the window     *)
(* inspects beside a living operation.                                     *)

(* "A temporary file is never the published record, so this can only       *)
(* reclaim space" (storage.rs:69). It can take the file a publication is   *)
(* about to move, and fail it.                                             *)
CleanupOnlyReclaims == owner.at = "moving" => temporary # Nothing

(* "Remove one validated record" (store.rs:55): what is removed was        *)
(* validated. A publication between the check and the deletion is not.     *)
RemovedWasValidated ==
    [][ IsRemoval
            => published \in {owner.pending, keeper.pending} ]_vars

=============================================================================
