-------------------------- MODULE FileParts_proofs --------------------------
(***************************************************************************)
(* The files of the program keep what they promise, for every value of the *)
(* constants; five parts of FileParts, an induction each.                  *)
(*                                                                         *)
(* The recovery file keeps the promise of its store, for every set of      *)
(* operations and milestones and any number of temporary files: IInv       *)
(* carries the types, what each step of a publication has established      *)
(* about the file it is about to replace, and, as long as no keeper met a  *)
(* living operation, that memory and disk agree.                           *)
(*                                                                         *)
(* The history keeps its entries, for every number of threads, entries and *)
(* crashes: HistoryInv says what each writer carries, that an entry on its *)
(* way into the file is in nobody else's hands, and what a writer that is  *)
(* alone will leave behind.                                                *)
(*                                                                         *)
(* The installers stay whole, for every set of names, bodies and           *)
(* inspectors: InstallersInv says that a write has a number of its own, so *)
(* that a file which reads again as it was is the file a signature was     *)
(* trusted for.                                                            *)
(*                                                                         *)
(* The log of an operation is true, for every number of operations,        *)
(* answers and crashes: TraceInv says of every line and entry whose it is, *)
(* and of every place of the thread what was told by then.                 *)
(*                                                                         *)
(* The log file is bounded and in order, for every number of threads,      *)
(* records and rotations: LogInv counts the records to come together with  *)
(* those that are there, LoneFits follows the names through a rotation.    *)
(***************************************************************************)
EXTENDS FileParts, TLAPS, SequenceTheorems, FiniteSetTheorems

(***************************************************************************)
(* The recovery record.                                                    *)
(***************************************************************************)
Publishing == {"checking", "creating", "writing", "moving", "readback"}

\* Whatever is about to be replaced is nothing or of the same operation.
StepsAreGrounded ==
    /\ owner.at # "gone" => owner.pending \in Records
    /\ owner.at \in Publishing => owner.next \in Records
    /\ owner.at \in {"creating", "writing", "moving"} =>
           /\ published # Unreadable
           /\ published # Missing => published.operation = owner.next.operation
    /\ owner.at = "moving" => temporary \in {Nothing, owner.next}
    /\ owner.at = "removing" => published # Unreadable
    /\ keeper.at # "idle" /\ keeper.at \notin {"cleaning", "loading"} =>
           keeper.pending \in Records
    /\ keeper.at = "removing" => published # Unreadable

\* Memory and disk agree while the keeper stays away from the operation.
SidesAgree ==
    ~disturbed =>
        /\ owner.at = "gone" \/ keeper.at = "idle"
        /\ owner.at \in {"ready", "clearing"} => owner.saved
        /\ owner.at \notin {"gone", "readback"} /\ owner.saved /\ ~owner.doubt
               => published = owner.pending
        /\ owner.at = "removing" => published = owner.pending
        /\ keeper.at = "removing" => published = keeper.pending

IInv == TypeOK /\ StepsAreGrounded /\ SidesAgree

LEMMA RecordsDiffer ==
    ASSUME NEW r \in Records
    PROVE  r \notin {Missing, Unreadable, Nothing, Partial}
BY FileAssumption DEF Records

LEMMA InitIInv == Init => IInv
<1> SUFFICES ASSUME Init PROVE IInv
    OBVIOUS
<1>1. TypeOK
    BY FileAssumption DEF Init, TypeOK, NoOwner, NoKeeper, Owners, Keepers
<1>2. StepsAreGrounded
    BY DEF Init, StepsAreGrounded, NoOwner, NoKeeper, Publishing
<1>3. SidesAgree
    BY DEF Init, SidesAgree, NoOwner, NoKeeper
<1> QED  BY <1>1, <1>2, <1>3 DEF IInv

\* A refused publication leaves the file as it was; after the move, in doubt.
LEMMA RefusedKeepsIInv ==
    ASSUME IInv, NEW afterMove \in BOOLEAN, Refuse(afterMove),
           owner.at \in Publishing, afterMove \/ owner.at # "readback",
           temporary' \in Records \cup {Nothing, Partial},
           orphans' \in 0 .. MaxOrphans,
           UNCHANGED <<published, keeper, disturbed>>
    PROVE  IInv'
<1> USE DEF IInv
<1>1. CASE ~owner.saved
    <2>1. owner' = NoOwner
        BY <1>1 DEF Refuse
    <2> QED
        BY <2>1 DEF NoOwner, TypeOK, StepsAreGrounded, SidesAgree, Owners,
                    Publishing
<1>2. CASE owner.saved
    <2>1. owner' = [owner EXCEPT !.at = "ready", !.next = Nothing,
                                 !.doubt = owner.doubt \/ afterMove]
        BY <1>2 DEF Refuse
    <2>2. TypeOK'
        BY <2>1 DEF TypeOK, Owners
    <2>3. StepsAreGrounded'
        BY <2>1 DEF TypeOK, Owners, StepsAreGrounded, Publishing
    <2>4. SidesAgree'
        BY <1>2, <2>1 DEF TypeOK, Owners, SidesAgree, Publishing
    <2> QED  BY <2>2, <2>3, <2>4
<1> QED  BY <1>1, <1>2 DEF TypeOK, Owners

LEMMA StepIInv == IInv /\ [Next]_vars => IInv'
<1> SUFFICES ASSUME IInv, [Next]_vars PROVE IInv'
    OBVIOUS
<1> USE DEF IInv
<1>1. CASE BeginOperation
    <2>1. PICK o \in Operations :
              owner' = [NoOwner EXCEPT
                  !.at = "checking",
                  !.pending = [operation |-> o, state |-> Prepared],
                  !.next = [operation |-> o, state |-> Prepared]]
        BY <1>1 DEF BeginOperation
    <2>2. [operation |-> o, state |-> Prepared] \in Records
        BY FileAssumption DEF Records
    <2>3. TypeOK'
        BY <1>1, <2>1, <2>2
           DEF BeginOperation, Beside, TypeOK, NoOwner, Owners
    <2>4. StepsAreGrounded'
        BY <1>1, <2>1, <2>2
           DEF BeginOperation, NoOwner, StepsAreGrounded, Publishing
    <2>5. SidesAgree'
        BY <1>1, <2>1 DEF BeginOperation, Beside, NoOwner, SidesAgree, TypeOK
    <2> QED  BY <2>3, <2>4, <2>5
<1>2. CASE UpdateState
    <2>1. PICK s \in DurableStates :
              owner' = [owner EXCEPT
                  !.at = "checking",
                  !.next = [owner.pending EXCEPT !.state = s]]
        BY <1>2 DEF UpdateState
    <2>2. [owner.pending EXCEPT !.state = s] \in Records
        BY <1>2 DEF UpdateState, StepsAreGrounded, Records
    <2>3. TypeOK'
        BY <1>2, <2>1, <2>2 DEF UpdateState, TypeOK, Owners
    <2>4. StepsAreGrounded'
        BY <1>2, <2>1, <2>2
           DEF UpdateState, TypeOK, Owners, StepsAreGrounded, Publishing
    <2>5. SidesAgree'
        BY <1>2, <2>1 DEF UpdateState, TypeOK, Owners, SidesAgree
    <2> QED  BY <2>3, <2>4, <2>5
<1>3. CASE CheckIdentity
    <2>1. CASE Refuse(FALSE)
        BY <1>3, <2>1, RefusedKeepsIInv DEF CheckIdentity, TypeOK, Publishing
    <2>2. CASE /\ SameIdentity
              /\ owner' = [owner EXCEPT !.at = "creating"]
        <3>1. TypeOK'
            BY <1>3, <2>2 DEF CheckIdentity, SameIdentity, TypeOK, Owners, Keepers, StepsAreGrounded, Publishing
        <3>2. StepsAreGrounded'
            BY <1>3, <2>2 DEF CheckIdentity, SameIdentity, TypeOK, Owners, StepsAreGrounded, Publishing
        <3>3. SidesAgree'
            BY <1>3, <2>2 DEF CheckIdentity, SameIdentity, TypeOK, Owners, StepsAreGrounded, SidesAgree, Publishing
        <3> QED  BY <3>1, <3>2, <3>3
    <2> QED  BY <1>3, <2>1, <2>2 DEF CheckIdentity
<1>4. CASE CreateTemporary
    <2>1. CASE Refuse(FALSE) /\ UNCHANGED temporary
        BY <1>4, <2>1, RefusedKeepsIInv DEF CreateTemporary, TypeOK, Publishing
    <2>2. CASE /\ temporary' = Partial
              /\ owner' = [owner EXCEPT !.at = "writing"]
        <3>1. TypeOK'
            BY <1>4, <2>2 DEF CreateTemporary, TypeOK, Owners, Keepers, StepsAreGrounded, Publishing
        <3>2. StepsAreGrounded'
            BY <1>4, <2>2 DEF CreateTemporary, TypeOK, Owners, StepsAreGrounded, Publishing
        <3>3. SidesAgree'
            BY <1>4, <2>2 DEF CreateTemporary, TypeOK, Owners, StepsAreGrounded, SidesAgree, Publishing
        <3> QED  BY <3>1, <3>2, <3>3
    <2> QED  BY <1>4, <2>1, <2>2 DEF CreateTemporary
<1>5. CASE WriteTemporary
    <2>1. CASE Refuse(FALSE) /\ Discard /\ UNCHANGED published
        <3>1. temporary' = Nothing /\ orphans' \in 0 .. MaxOrphans
            BY <2>1, FileAssumption DEF Discard, TypeOK
        <3> QED
            BY <1>5, <2>1, <3>1, RefusedKeepsIInv
               DEF WriteTemporary, Publishing
    <2>2. CASE /\ temporary' = IF temporary = Nothing THEN Nothing
                              ELSE owner.next
              /\ owner' = [owner EXCEPT !.at = "moving"]
              /\ UNCHANGED orphans
        <3>1. TypeOK'
            BY <1>5, <2>2 DEF WriteTemporary, TypeOK, Owners, Keepers, StepsAreGrounded, Publishing
        <3>2. StepsAreGrounded'
            BY <1>5, <2>2 DEF WriteTemporary, TypeOK, Owners, StepsAreGrounded, Publishing
        <3>3. SidesAgree'
            BY <1>5, <2>2 DEF WriteTemporary, TypeOK, Owners, StepsAreGrounded, SidesAgree, Publishing
        <3> QED  BY <3>1, <3>2, <3>3
    <2> QED  BY <1>5, <2>1, <2>2 DEF WriteTemporary
<1>6. CASE MoveIntoPlace
    <2>1. CASE Refuse(FALSE) /\ Discard /\ UNCHANGED published
        <3>1. temporary' = Nothing /\ orphans' \in 0 .. MaxOrphans
            BY <2>1, FileAssumption DEF Discard, TypeOK
        <3> QED
            BY <1>6, <2>1, <3>1, RefusedKeepsIInv
               DEF MoveIntoPlace, Publishing
    <2>2. CASE /\ temporary # Nothing
              /\ published' = temporary /\ temporary' = Nothing
              /\ owner' = [owner EXCEPT !.at = "readback"]
              /\ UNCHANGED orphans
        <3>1. TypeOK'
            BY <1>6, <2>2, RecordsDiffer DEF MoveIntoPlace, TypeOK, Owners, Keepers, StepsAreGrounded, Publishing
        <3>2. StepsAreGrounded'
            BY <1>6, <2>2, RecordsDiffer DEF MoveIntoPlace, TypeOK, Owners, StepsAreGrounded, Publishing
        <3>3. SidesAgree'
            BY <1>6, <2>2, RecordsDiffer DEF MoveIntoPlace, TypeOK, Owners, StepsAreGrounded, SidesAgree, Publishing
        <3> QED  BY <3>1, <3>2, <3>3
    <2> QED  BY <1>6, <2>1, <2>2 DEF MoveIntoPlace
<1>7. CASE ReadBack
    <2>1. CASE Refuse(TRUE)
        BY <1>7, <2>1, RefusedKeepsIInv DEF ReadBack, TypeOK, Publishing
    <2>2. CASE /\ published = owner.next
              /\ owner' = [owner EXCEPT !.at = "ready", !.pending = owner.next,
                                        !.next = Nothing, !.saved = TRUE,
                                        !.doubt = FALSE]
        <3>1. TypeOK'
            BY <1>7, <2>2 DEF ReadBack, TypeOK, Owners, Keepers, StepsAreGrounded, Publishing
        <3>2. StepsAreGrounded'
            BY <1>7, <2>2 DEF ReadBack, TypeOK, Owners, StepsAreGrounded, Publishing
        <3>3. SidesAgree'
            BY <1>7, <2>2 DEF ReadBack, TypeOK, Owners, StepsAreGrounded, SidesAgree, Publishing
        <3> QED  BY <3>1, <3>2, <3>3
    <2> QED  BY <1>7, <2>1, <2>2 DEF ReadBack
<1>8. CASE BeginClear
    <2>1. TypeOK'
        BY <1>8 DEF BeginClear, TypeOK, Owners, Keepers, StepsAreGrounded, Publishing
    <2>2. StepsAreGrounded'
        BY <1>8 DEF BeginClear, TypeOK, Owners, StepsAreGrounded, Publishing
    <2>3. SidesAgree'
        BY <1>8 DEF BeginClear, TypeOK, Owners, StepsAreGrounded, SidesAgree, Publishing
    <2> QED  BY <2>1, <2>2, <2>3
<1>9. CASE VerifyBeforeClear
    <2>1. CASE owner' = NoOwner
        BY <1>9, <2>1 DEF VerifyBeforeClear, NoOwner, TypeOK, Owners,
                          StepsAreGrounded, SidesAgree, Publishing
    <2>2. CASE /\ IsVerified(owner.pending)
              /\ owner' = [owner EXCEPT !.at = "removing"]
        <3>1. TypeOK'
            BY <1>9, <2>2, RecordsDiffer DEF VerifyBeforeClear, IsVerified, TypeOK, Owners, Keepers, StepsAreGrounded, Publishing
        <3>2. StepsAreGrounded'
            BY <1>9, <2>2, RecordsDiffer DEF VerifyBeforeClear, IsVerified, TypeOK, Owners, StepsAreGrounded, Publishing
        <3>3. SidesAgree'
            BY <1>9, <2>2, RecordsDiffer DEF VerifyBeforeClear, IsVerified, TypeOK, Owners, StepsAreGrounded, SidesAgree, Publishing
        <3> QED  BY <3>1, <3>2, <3>3
    <2> QED  BY <1>9, <2>1, <2>2 DEF VerifyBeforeClear
<1>10. CASE OwnerRemoves
    BY <1>10, FileAssumption
       DEF OwnerRemoves, RemoveFile, NoOwner, NoKeeper, TypeOK, StepsAreGrounded,
           SidesAgree, Owners, Keepers, Publishing
<1>11. CASE OwnerLeaves
    BY <1>11
       DEF OwnerLeaves, NoOwner, NoKeeper, TypeOK, StepsAreGrounded,
           SidesAgree, Owners, Keepers, Publishing
<1>12. CASE Inspect
    BY <1>12
       DEF Inspect, NoOwner, NoKeeper, TypeOK, StepsAreGrounded,
           SidesAgree, Owners, Keepers, Publishing
<1>13. CASE CleanTemporaryFiles
    BY <1>13, FileAssumption
       DEF CleanTemporaryFiles, NoOwner, NoKeeper, TypeOK, StepsAreGrounded,
           SidesAgree, Owners, Keepers, Publishing
<1>14. CASE LoadRecord
    BY <1>14, FileAssumption
       DEF LoadRecord, NoOwner, NoKeeper, TypeOK, StepsAreGrounded,
           SidesAgree, Owners, Keepers, Publishing
<1>15. CASE Decide
    BY <1>15
       DEF Decide, NoOwner, NoKeeper, TypeOK, StepsAreGrounded,
           SidesAgree, Owners, Keepers, Publishing
<1>16. CASE KeeperVerifies
    <2>1. CASE keeper' = NoKeeper
        BY <1>16, <2>1 DEF KeeperVerifies, NoKeeper, TypeOK, Keepers,
                           StepsAreGrounded, SidesAgree, Publishing
    <2>2. CASE /\ IsVerified(keeper.pending)
              /\ keeper' = [keeper EXCEPT !.at = "removing"]
        <3>1. published # Unreadable
            BY <1>16, <2>2, RecordsDiffer, FileAssumption
               DEF KeeperVerifies, IsVerified, TypeOK, Keepers,
                   StepsAreGrounded
        <3> QED
            BY <1>16, <2>2, <3>1
               DEF KeeperVerifies, IsVerified, TypeOK, Keepers,
                   StepsAreGrounded, SidesAgree, Publishing
    <2> QED  BY <1>16, <2>1, <2>2 DEF KeeperVerifies
<1>17. CASE KeeperRemoves
    BY <1>17, FileAssumption
       DEF KeeperRemoves, RemoveFile, NoOwner, NoKeeper, TypeOK, StepsAreGrounded,
           SidesAgree, Owners, Keepers, Publishing
<1>18. CASE Crash
    BY <1>18, FileAssumption
       DEF Crash, NoOwner, NoKeeper, TypeOK, StepsAreGrounded,
           SidesAgree, Owners, Keepers, Publishing
<1>19. CASE Spoil
    BY <1>19
       DEF Spoil, NoOwner, NoKeeper, TypeOK, StepsAreGrounded,
           SidesAgree, Owners, Keepers, Publishing
<1>20. CASE UNCHANGED vars
    BY <1>20 DEF vars, TypeOK, StepsAreGrounded, SidesAgree, Publishing
<1> QED
    BY <1>1, <1>2, <1>3, <1>4, <1>5, <1>6, <1>7, <1>8, <1>9, <1>10, <1>11,
       <1>12, <1>13, <1>14, <1>15, <1>16, <1>17, <1>18, <1>19, <1>20
       DEF Next, OwnerStep, KeeperStep

THEOREM InvariantHolds == Spec => []IInv
BY InitIInv, StepIInv, PTL DEF Spec

(* The file, the guard and the keeper keep their types.                    *)
THEOREM FileTypesHold == Spec => []TypeOK
BY InvariantHolds, PTL DEF IInv

(* Memory and disk agree between two publications, unless one failed after *)
(* its move or a keeper met the operation (store.rs:86).                   *)
THEOREM GuardAlwaysKnows == Spec => []GuardKnowsFile
<1>1. IInv => GuardKnowsFile
    BY DEF IInv, SidesAgree, GuardKnowsFile
<1> QED  BY <1>1, InvariantHolds, PTL

(* A removal deletes the record its caller knows (storage.rs:132).         *)
THEOREM RemovalsAreKnown == Spec => RemovedWasKnown
<1>1. ASSUME IInv, [Next]_vars, IsRemoval, ~disturbed
      PROVE  published \in {owner.pending, keeper.pending}
    <2> USE FileAssumption DEF IInv, TypeOK, StepsAreGrounded, SidesAgree,
            IsRemoval, Publishing
    <2>1. CASE MoveIntoPlace
        BY <1>1, <2>1, RecordsDiffer DEF MoveIntoPlace, Refuse, Discard
    <2>2. CASE OwnerRemoves
        BY <1>1, <2>2 DEF OwnerRemoves, RemoveFile
    <2>3. CASE KeeperRemoves
        BY <1>1, <2>3 DEF KeeperRemoves, RemoveFile
    <2>4. CASE Spoil
        BY <1>1, <2>4 DEF Spoil
    <2>5. CASE UNCHANGED published
        BY <1>1, <2>5, RecordsDiffer
    <2> QED
        BY <1>1, <2>1, <2>2, <2>3, <2>4, <2>5
           DEF Next, OwnerStep, KeeperStep, vars, BeginOperation, UpdateState,
               CheckIdentity, CreateTemporary, WriteTemporary, ReadBack,
               BeginClear, VerifyBeforeClear, OwnerLeaves, Inspect,
               CleanTemporaryFiles, LoadRecord, Decide, KeeperVerifies, Crash
<1>2. IInv /\ [Next]_vars
          => [IsRemoval /\ ~disturbed
                => published \in {owner.pending, keeper.pending}]_vars
    BY <1>1
<1> QED  BY <1>2, InvariantHolds, PTL DEF Spec, RemovedWasKnown

(* The store's promise: a record is replaced whole, by its own operation   *)
(* only, and an unreadable one is left alone (store.rs:36-62).             *)
THEOREM FileImplementsSlot == Spec => ImplementsSlot
<1>1. Init => Slot!Init
    BY DEF Init, Slot!Init, Records, Slot!Records
<1>2. ASSUME IInv, [Next]_vars PROVE [Slot!Next]_published
    <2> USE <1>2, FileAssumption DEF IInv, TypeOK, StepsAreGrounded,
            Publishing, Records, Slot!Records, Slot!Next
    <2>1. CASE MoveIntoPlace
        BY <2>1, RecordsDiffer DEF MoveIntoPlace, Slot!Publish
    <2>2. CASE OwnerRemoves
        BY <2>2 DEF OwnerRemoves, RemoveFile, Slot!Clear
    <2>3. CASE KeeperRemoves
        BY <2>3 DEF KeeperRemoves, RemoveFile, Slot!Clear
    <2>4. CASE Spoil
        BY <2>4 DEF Spoil, Slot!Spoil
    <2>5. CASE UNCHANGED published
        BY <2>5
    <2> QED
        BY <2>1, <2>2, <2>3, <2>4, <2>5
           DEF Next, OwnerStep, KeeperStep, vars, BeginOperation, UpdateState,
               CheckIdentity, CreateTemporary, WriteTemporary, ReadBack,
               BeginClear, VerifyBeforeClear, OwnerLeaves, Inspect,
               CleanTemporaryFiles, LoadRecord, Decide, KeeperVerifies, Crash
<1> QED  BY <1>1, <1>2, InvariantHolds, PTL DEF Spec, ImplementsSlot, Slot!Spec

------------------------------------------------------------------------------
(***************************************************************************)
(* The history.  What is under way is of its kind, and of the entries of   *)
(* operations that ended.                                                  *)
(***************************************************************************)
Replacing == {"guarding", "writing", "moving"}

\* A list without repetition, of operations that ended.
Told(entries) ==
    /\ History!IsInjective(entries)
    /\ History!ToSet(entries) \subseteq ended

Posts ==
    {m \in [kind: {"Loaded", "Deleted", "Ended"}, ok: BOOLEAN,
            entries: Seq(HistoryEntries)] : m.ok \/ m.entries = <<>>}

JobFits(state) ==
    /\ state.at = "idle" => state.kind = "load"
    /\ state.kind = "load" => state.at \in {"idle", "reading", "telling"}
    /\ state.at = "telling" =>
           /\ state.kind # "load" => state.records = <<>>
           /\ ~state.ok => state.records = <<>>
    /\ state.kind = "clear" => state.at # "reading" /\ state.records = <<>>
    /\ state.at \in {"idle", "reading"} => state.records = <<>>
    /\ state.kind = "append" => state.entry \in ended
    /\ state.kind = "delete" /\ state.at # "reading" =>
           state.entry \notin History!ToSet(state.records)
    /\ state.at \in {"writing", "moving"} => file.readable
    /\ Told(state.records)

\* An entry on its way into the file is in nobody else's hands.
OnItsWay(j) == job[j].kind = "append" /\ job[j].at \in Replacing \cup {"reading"}

EntriesAreNew ==
    \A j \in Jobs : OnItsWay(j) =>
        /\ job[j].entry \notin History!ToSet(file.entries)
        /\ \A k \in Jobs \ {j} :
               /\ job[j].entry \notin History!ToSet(job[k].records)
               /\ OnItsWay(k) => job[k].entry # job[j].entry

\* A deletion that succeeded, and has not told the window.
IsDone(state) ==
    state.kind = "delete" /\ state.at = "telling" /\ state.ok

\* A writer that is alone carries what will be kept, and what it removed is
\* not among it.
AloneIsExact ==
    alone =>
        /\ History!ToSet(file.entries) = kept
        /\ \A j, k \in History!Writers : j = k
        /\ \A j \in Jobs : job[j].at \in Replacing =>
               History!ToSet(job[j].records) = History!KeptAfter(job[j])
        /\ \A j \in Jobs : IsDone(job[j]) => job[j].entry \notin kept

HistoryInv ==
    /\ History!TypeOK
    /\ inbox \in Seq(Posts)
    /\ Told(file.entries)
    /\ \A j \in Jobs : JobFits(job[j])
    /\ EntriesAreNew
    /\ AloneIsExact

LEMMA AppendTold ==
    ASSUME NEW s \in Seq(HistoryEntries), NEW e \in HistoryEntries
    PROVE  /\ Append(s, e) \in Seq(HistoryEntries)
           /\ History!ToSet(Append(s, e)) = History!ToSet(s) \cup {e}
           /\ History!IsInjective(s) /\ e \notin History!ToSet(s)
                => History!IsInjective(Append(s, e))
<1> DEFINE t == Append(s, e)
<1>1. /\ t \in Seq(HistoryEntries) /\ Len(t) = Len(s) + 1
      /\ DOMAIN t = 1 .. Len(s) + 1 /\ DOMAIN s = 1 .. Len(s) /\ Len(s) \in Nat
      /\ \A i \in 1 .. Len(s) : t[i] = s[i]
      /\ t[Len(s) + 1] = e
  OBVIOUS
<1>2. History!ToSet(t) = History!ToSet(s) \cup {e}
  <2>1. ASSUME NEW x \in History!ToSet(t) PROVE x \in History!ToSet(s) \cup {e}
    BY <2>1, <1>1 DEF History!ToSet
  <2>2. ASSUME NEW x \in History!ToSet(s) PROVE x \in History!ToSet(t)
    <3>1. PICK i \in 1 .. Len(s) : x = s[i]
      BY <2>2, <1>1 DEF History!ToSet
    <3> QED  BY <3>1, <1>1 DEF History!ToSet
  <2>3. e \in History!ToSet(t)
    BY <1>1 DEF History!ToSet
  <2> QED  BY <2>1, <2>2, <2>3
<1>3. ASSUME History!IsInjective(s), e \notin History!ToSet(s)
      PROVE  History!IsInjective(t)
  <2>1. \A i \in 1 .. Len(s) : s[i] # e
    BY <1>3, <1>1 DEF History!ToSet
  <2>2. \A a, b \in 1 .. Len(s) : s[a] = s[b] => a = b
    BY <1>3, <1>1 DEF History!IsInjective
  <2> SUFFICES ASSUME NEW a \in 1 .. Len(s) + 1, NEW b \in 1 .. Len(s) + 1,
                      t[a] = t[b]
               PROVE  a = b
    BY <1>1 DEF History!IsInjective
  <2> QED  BY <1>1, <2>1, <2>2
<1> QED  BY <1>1, <1>2, <1>3

LEMMA RemovedTold ==
    ASSUME NEW s \in Seq(HistoryEntries), History!IsInjective(s),
           NEW e, History!Contains(s, e)
    PROVE  /\ History!Removed(s, e) \in Seq(HistoryEntries)
           /\ History!IsInjective(History!Removed(s, e))
           /\ History!ToSet(History!Removed(s, e)) = History!ToSet(s) \ {e}
<1> DEFINE First(i) == s[i] = e /\ \A k \in 1 .. i - 1 : s[k] # e
           p == History!Position(s, e)
           t == History!Removed(s, e)
<1>1. DOMAIN s = 1 .. Len(s) /\ Len(s) \in Nat
  OBVIOUS
<1>2. \A a, b \in 1 .. Len(s) : s[a] = s[b] => a = b
  BY <1>1 DEF History!IsInjective
<1>3. p \in 1 .. Len(s) /\ First(p)
  <2>1. \E i \in DOMAIN s : First(i)
    BY <1>1, <1>2 DEF History!Contains
  <2> QED  BY <2>1, <1>1 DEF History!Position
<1> HIDE DEF p
<1>4. t = SubSeq(s, 1, p - 1) \o SubSeq(s, p + 1, Len(s))
  BY DEF p, History!Removed, History!RemoveAt
<1>5. /\ t \in Seq(HistoryEntries) /\ Len(t) = Len(s) - 1
      /\ DOMAIN t = 1 .. Len(s) - 1
      /\ \A k \in 1 .. Len(s) - 1 : t[k] = IF k < p THEN s[k] ELSE s[k + 1]
  <2> DEFINE l == SubSeq(s, 1, p - 1)
             r == SubSeq(s, p + 1, Len(s))
  <2>1. /\ l \in Seq(HistoryEntries) /\ Len(l) = p - 1
        /\ \A k \in 1 .. p - 1 : l[k] = s[k]
    BY <1>1, <1>3
  <2>2. /\ r \in Seq(HistoryEntries) /\ Len(r) = Len(s) - p
        /\ \A k \in 1 .. Len(s) - p : r[k] = s[k + p]
    <3>1. /\ p + 1 \in Int /\ Len(s) \in Int
          /\ \A i \in p + 1 .. Len(s) : s[i] \in HistoryEntries
      BY <1>1, <1>3
    <3>2. /\ r \in Seq(HistoryEntries)
          /\ Len(r) = IF p + 1 <= Len(s) THEN Len(s) - (p + 1) + 1 ELSE 0
          /\ \A k \in 1 .. Len(s) - (p + 1) + 1 : r[k] = s[(p + 1) + k - 1]
      BY <3>1, SubSeqProperties
    <3>3. \A k \in 1 .. Len(s) - p :
              k \in 1 .. Len(s) - (p + 1) + 1 /\ (p + 1) + k - 1 = k + p
      BY <1>1, <1>3
    <3>4. (IF p + 1 <= Len(s) THEN Len(s) - (p + 1) + 1 ELSE 0) = Len(s) - p
      <4>1. p \in Int /\ Len(s) \in Int /\ p <= Len(s)
        BY <1>1, <1>3
      <4>2. CASE p + 1 <= Len(s)
        BY <4>1, <4>2
      <4>3. CASE ~(p + 1 <= Len(s))
        <5>1. p = Len(s)
          BY <4>1, <4>3
        <5> QED  BY <4>1, <4>3, <5>1
      <4> QED  BY <4>2, <4>3
    <3> HIDE DEF r
    <3>5. Len(r) = Len(s) - p
      BY <3>2, <3>4
    <3>6. ASSUME NEW k \in 1 .. Len(s) - p PROVE r[k] = s[k + p]
      BY <3>2, <3>3
    <3> QED  BY <3>2, <3>5, <3>6
  <2> HIDE DEF l, r, t
  <2>3. t = l \o r
    BY <1>4 DEF l, r
  <2>4. /\ t \in Seq(HistoryEntries) /\ Len(t) = Len(s) - 1
        /\ DOMAIN t = 1 .. Len(s) - 1
        /\ \A k \in 1 .. Len(s) - 1 :
               t[k] = IF k <= Len(l) THEN l[k] ELSE r[k - Len(l)]
    <3>1. /\ t \in Seq(HistoryEntries) /\ Len(t) = Len(l) + Len(r)
          /\ \A k \in 1 .. Len(l) + Len(r) :
                 t[k] = IF k <= Len(l) THEN l[k] ELSE r[k - Len(l)]
      BY <2>1, <2>2, <2>3, ConcatProperties
    <3>2. Len(l) + Len(r) = Len(s) - 1
      BY <2>1, <2>2, <1>1, <1>3
    <3> QED  BY <3>1, <3>2
  <2>6. ASSUME NEW k \in 1 .. Len(s) - 1
        PROVE  t[k] = IF k < p THEN s[k] ELSE s[k + 1]
    <3>1. CASE k < p
      BY <3>1, <2>1, <2>4, <1>1, <1>3
    <3>2. CASE k >= p
      <4>1. t[k] = r[k - (p - 1)] /\ k - (p - 1) \in 1 .. Len(s) - p
        BY <3>2, <2>1, <2>4, <1>1, <1>3
      <4>2. r[k - (p - 1)] = s[(k - (p - 1)) + p]
        BY <4>1, <2>2
      <4> QED  BY <3>2, <4>1, <4>2, <1>1, <1>3
    <3> QED  BY <3>1, <3>2, <1>1, <1>3
  <2> QED  BY <2>4, <2>6
<1> HIDE DEF t
<1>6. History!IsInjective(t)
  <2> SUFFICES ASSUME NEW a \in 1 .. Len(s) - 1, NEW b \in 1 .. Len(s) - 1,
                      t[a] = t[b]
               PROVE  a = b
    BY <1>5 DEF History!IsInjective
  <2> QED  BY <1>1, <1>2, <1>3, <1>5
<1>7. ASSUME NEW x \in History!ToSet(t) PROVE x \in History!ToSet(s) \ {e}
  <2>1. PICK k \in 1 .. Len(s) - 1 : x = t[k]
    BY <1>5, <1>7 DEF History!ToSet
  <2>2. x \in History!ToSet(s)
    BY <1>1, <1>3, <1>5, <2>1 DEF History!ToSet
  <2>3. x # e
    BY <1>1, <1>2, <1>3, <1>5, <2>1
  <2> QED  BY <2>2, <2>3
<1>8. ASSUME NEW x \in History!ToSet(s) \ {e} PROVE x \in History!ToSet(t)
  <2>1. PICK i \in 1 .. Len(s) : x = s[i]
    BY <1>1, <1>8 DEF History!ToSet
  <2>2. CASE i < p
    BY <2>1, <2>2, <1>1, <1>3, <1>5 DEF History!ToSet
  <2>3. CASE i > p
    <3>1. i - 1 \in 1 .. Len(s) - 1 /\ t[i - 1] = x
      BY <2>1, <2>3, <1>1, <1>3, <1>5
    <3> QED  BY <3>1, <1>5 DEF History!ToSet
  <2> QED  BY <1>1, <1>3, <1>8, <2>1, <2>2, <2>3
<1> QED  BY <1>5, <1>6, <1>7, <1>8 DEF t

\* A thread takes a step and the file stays as it is: enough that what it
\* carries is of its kind, and new to the others.
LEMMA JobKeepsInv ==
    ASSUME HistoryInv, NEW j \in Jobs, NEW s \in History!JobStates,
           job' = [job EXCEPT ![j] = s],
           UNCHANGED <<file, kept>>,
           ended \subseteq ended', ended' \subseteq HistoryEntries,
           alone' \in BOOLEAN, crashes' \in 0 .. HistoryCrashes,
           view' \in History!Views, selected' \in 0 .. Len(view'.entries),
           inbox' \in Seq(Posts),
           JobFits(s)',
           s.kind = "append" /\ s.at \in Replacing \cup {"reading"} =>
               /\ s.entry \notin History!ToSet(file.entries)
               /\ \A k \in Jobs \ {j} :
                      /\ s.entry \notin History!ToSet(job[k].records)
                      /\ OnItsWay(k) => job[k].entry # s.entry,
           \A k \in Jobs \ {j} : OnItsWay(k) =>
               job[k].entry \notin History!ToSet(s.records),
           alone' => /\ alone
                     /\ s.kind # "load" => History!Writers \subseteq {j}
                     /\ s.at \in Replacing =>
                            History!ToSet(s.records) = History!KeptAfter(s)
                     /\ IsDone(s) => s.entry \notin kept
    PROVE  HistoryInv'
<1> USE DEF HistoryInv
<1>0. job \in [Jobs -> History!JobStates]
  BY DEF History!TypeOK
<1>1. /\ job' \in [Jobs -> History!JobStates]
      /\ job'[j] = s
      /\ \A k \in Jobs \ {j} : job'[k] = job[k]
  BY <1>0
<1>2. History!TypeOK'
  BY <1>1 DEF History!TypeOK
<1>3. Told(file.entries)'
  BY DEF Told
<1>4. \A k \in Jobs : JobFits(job[k])'
  <2> SUFFICES ASSUME NEW k \in Jobs PROVE JobFits(job[k])'
    OBVIOUS
  <2>1. CASE k = j
    BY <1>1, <2>1 DEF JobFits, Told
  <2>2. CASE k # j
    BY <1>1, <2>2 DEF JobFits, Told
  <2> QED  BY <2>1, <2>2
<1>5. EntriesAreNew'
  <2> SUFFICES ASSUME NEW k \in Jobs, OnItsWay(k)'
               PROVE  /\ (job[k].entry \notin History!ToSet(file.entries))'
                      /\ \A i \in Jobs \ {k} :
                            /\ (job[k].entry \notin History!ToSet(job[i].records))'
                            /\ (OnItsWay(i) => job[i].entry # job[k].entry)'
    BY DEF EntriesAreNew
  <2>1. CASE k = j
    <3>1. /\ s.entry \notin History!ToSet(file.entries)
          /\ \A i \in Jobs \ {j} :
                  /\ s.entry \notin History!ToSet(job[i].records)
                  /\ OnItsWay(i) => job[i].entry # s.entry
      BY <1>1, <2>1 DEF OnItsWay
    <3> QED  BY <1>1, <2>1, <3>1 DEF OnItsWay
  <2>2. CASE k # j
    <3>1. OnItsWay(k)
      BY <1>1, <2>2 DEF OnItsWay
    <3>2. /\ job[k].entry \notin History!ToSet(file.entries)
          /\ \A i \in Jobs \ {k} :
                /\ job[k].entry \notin History!ToSet(job[i].records)
                /\ OnItsWay(i) => job[i].entry # job[k].entry
      BY <3>1 DEF EntriesAreNew
    <3>3. ASSUME NEW i \in Jobs \ {k}
          PROVE  /\ (job[k].entry \notin History!ToSet(job[i].records))'
                 /\ (OnItsWay(i) => job[i].entry # job[k].entry)'
      <4>1. CASE i = j
        BY <1>1, <2>2, <3>1, <4>1 DEF OnItsWay
      <4>2. CASE i # j
        BY <1>1, <2>2, <3>2, <4>2 DEF OnItsWay
      <4> QED  BY <4>1, <4>2
    <3> QED  BY <1>1, <2>2, <3>2, <3>3
  <2> QED  BY <2>1, <2>2
<1>6. AloneIsExact'
  <2> SUFFICES ASSUME alone'
               PROVE  /\ (History!ToSet(file.entries) = kept)'
                      /\ \A k, l \in History!Writers' : k = l
                      /\ \A k \in Jobs : job'[k].at \in Replacing =>
                             (History!ToSet(job[k].records) = History!KeptAfter(job[k]))'
                      /\ \A k \in Jobs : IsDone(job'[k]) => job'[k].entry \notin kept
    BY DEF AloneIsExact, IsDone
  <2>1. /\ History!ToSet(file.entries) = kept
        /\ \A k, l \in History!Writers : k = l
        /\ \A k \in Jobs : job[k].at \in Replacing =>
               History!ToSet(job[k].records) = History!KeptAfter(job[k])
        /\ \A k \in Jobs : IsDone(job[k]) => job[k].entry \notin kept
    BY DEF AloneIsExact
  <2>2. \A k, l \in History!Writers' : k = l
    <3>1. \A k \in Jobs : k \in History!Writers' <=>
              job'[k].at # "idle" /\ job'[k].kind # "load"
      BY DEF History!Writers, History!Idle
    <3>2. \A k \in Jobs : k \in History!Writers <=>
              job[k].at # "idle" /\ job[k].kind # "load"
      BY DEF History!Writers, History!Idle
    <3>3. \A k \in Jobs \ {j} : k \in History!Writers' <=> k \in History!Writers
      BY <1>1, <3>1, <3>2
    <3>4. j \in History!Writers' => s.kind # "load"
      BY <1>1, <3>1
    <3>5. History!Writers' \subseteq Jobs /\ History!Writers \subseteq Jobs
      BY DEF History!Writers
    <3> QED  BY <2>1, <3>3, <3>4, <3>5
  <2>3. ASSUME NEW k \in Jobs, job'[k].at \in Replacing
        PROVE  (History!ToSet(job[k].records) = History!KeptAfter(job[k]))'
    <3>1. CASE k = j
      BY <1>1, <2>3, <3>1 DEF History!KeptAfter
    <3>2. CASE k # j
      BY <1>1, <2>1, <2>3, <3>2 DEF History!KeptAfter
    <3> QED  BY <3>1, <3>2
  <2>4. ASSUME NEW k \in Jobs, IsDone(job'[k]) PROVE job'[k].entry \notin kept
    <3>1. CASE k = j
      BY <1>1, <2>4, <3>1
    <3>2. CASE k # j
      BY <1>1, <2>1, <2>4, <3>2
    <3> QED  BY <3>1, <3>2
  <2> QED  BY <2>1, <2>2, <2>3, <2>4
<1> QED  BY <1>2, <1>3, <1>4, <1>5, <1>6

LEMMA LoadIs ==
    LET s == History!StartedJob("load", "reading", Nothing, TRUE)
    IN  /\ s \in History!JobStates
        /\ s.kind = "load" /\ s.at = "reading" /\ s.records = <<>>
BY DEF History!StartedJob, History!JobStates, History!JobKinds, History!JobSteps,
       History!Histories

LEMMA IdleIs ==
    /\ History!IdleJob \in History!JobStates
    /\ History!IdleJob.kind = "load" /\ History!IdleJob.at = "idle"
    /\ History!IdleJob.records = <<>>
BY DEF History!IdleJob, History!StartedJob, History!JobStates, History!JobKinds,
       History!JobSteps, History!Histories

LEMMA EmptyTold == Told(<<>>) /\ History!ToSet(<<>>) = {}
BY DEF Told, History!ToSet, History!IsInjective

LEMMA PostIs ==
    /\ \A ok \in BOOLEAN : History!Message("Deleted", ok, <<>>) \in Posts
    /\ History!Message("Ended", TRUE, <<>>) \in Posts
    /\ \A ok \in BOOLEAN : History!Message("Loaded", ok, <<>>) \in Posts
    /\ \A entries \in Seq(HistoryEntries) :
           History!Message("Loaded", TRUE, entries) \in Posts
BY DEF History!Message, Posts

LEMMA HistoryInit == History!Init => HistoryInv
<1> SUFFICES ASSUME History!Init PROVE HistoryInv
  OBVIOUS
<1>0. /\ file = [readable |-> TRUE, entries |-> <<>>]
      /\ view = History!Loading /\ selected = 0 /\ inbox = <<>>
      /\ crashes = 0 /\ ended = {} /\ kept = {} /\ alone = TRUE
  BY DEF History!Init
<1>1. PICK j \in Jobs :
        job = [k \in Jobs |->
                 IF k = j
                 THEN History!StartedJob("load", "reading", Nothing, TRUE)
                 ELSE History!IdleJob]
  BY DEF History!Init
<1>2. /\ job \in [Jobs -> History!JobStates]
      /\ \A k \in Jobs : /\ job[k].kind = "load"
                         /\ job[k].at \in {"idle", "reading"}
                         /\ job[k].records = <<>>
  <2> DEFINE s == History!StartedJob("load", "reading", Nothing, TRUE)
  <2>1. s \in History!JobStates /\ s.kind = "load" /\ s.at = "reading" /\ s.records = <<>>
    BY LoadIs
  <2>2. /\ History!IdleJob \in History!JobStates
        /\ History!IdleJob.kind = "load" /\ History!IdleJob.at = "idle"
        /\ History!IdleJob.records = <<>>
    BY IdleIs
  <2> HIDE DEF s
  <2>3. job = [k \in Jobs |-> IF k = j THEN s ELSE History!IdleJob]
    BY <1>1 DEF s
  <2> QED  BY <2>1, <2>2, <2>3
<1>3. History!ToSet(<<>>) = {} /\ Told(<<>>)
  BY EmptyTold
<1>4. History!TypeOK
  <2>1. file \in History!Files
    BY <1>0 DEF History!Files, History!Histories
  <2>2. view \in History!Views /\ selected \in 0 .. Len(view.entries)
    BY <1>0 DEF History!Views, History!Loading, History!Histories
  <2>3. crashes \in 0 .. HistoryCrashes
    BY <1>0, PartsFit DEF History!JournalAssumption
  <2> QED  BY <1>0, <1>2, <2>1, <2>2, <2>3 DEF History!TypeOK
<1>5. \A k \in Jobs : JobFits(job[k])
  BY <1>2, <1>3 DEF JobFits
<1>6. EntriesAreNew
  BY <1>2 DEF EntriesAreNew, OnItsWay
<1>7. AloneIsExact
  <2>1. History!ToSet(file.entries) = kept
    BY <1>0, <1>3
  <2>2. History!Writers = {}
    BY <1>2 DEF History!Writers
  <2>3. \A k \in Jobs : job[k].at \notin Replacing /\ ~IsDone(job[k])
    BY <1>2 DEF Replacing, IsDone
  <2> QED  BY <2>1, <2>2, <2>3 DEF AloneIsExact
<1>8. inbox \in Seq(Posts) /\ Told(file.entries)
  BY <1>0, <1>3
<1> QED  BY <1>4, <1>5, <1>6, <1>7, <1>8 DEF HistoryInv

\* A thread that has its answer, and one that gives up: it carries no list
\* any more, or the one it is to show.
LEMMA AnswersKeepsInv ==
    ASSUME HistoryInv, NEW j \in Jobs, NEW ok \in BOOLEAN,
           NEW t \in {<<>>, file.entries},
           History!Answers(j, ok, t), job[j].at # "idle",
           job[j].kind # "load" \/ ~ok => t = <<>>,
           ok /\ job[j].kind = "delete" =>
               job[j].entry \notin History!ToSet(file.entries),
           UNCHANGED <<file, kept, ended, alone, crashes, view, selected, inbox>>
    PROVE  HistoryInv'
<1> USE DEF HistoryInv
<1>0. PICK s : s = [job[j] EXCEPT !.at = "telling", !.ok = ok, !.records = t]
  OBVIOUS
<1>1. /\ job \in [Jobs -> History!JobStates] /\ job[j] \in History!JobStates
      /\ t \in Seq(HistoryEntries) /\ Told(t)
  <2>1. file.entries \in Seq(HistoryEntries) /\ <<>> \in Seq(HistoryEntries)
    BY DEF History!TypeOK, History!Files, History!Histories
  <2>2. Told(file.entries) /\ Told(<<>>)
    BY EmptyTold
  <2>3. job \in [Jobs -> History!JobStates]
    BY DEF History!TypeOK
  <2> QED  BY <2>1, <2>2, <2>3
<1>2. /\ s \in History!JobStates /\ s.at = "telling" /\ s.ok = ok
      /\ s.kind = job[j].kind /\ s.entry = job[j].entry /\ s.records = t
  BY <1>0, <1>1 DEF History!JobStates, History!JobSteps, History!Histories
<1>3. job' = [job EXCEPT ![j] = s]
  BY <1>0, <1>1 DEF History!Answers
<1>4. JobFits(job[j])
  OBVIOUS
<1>5. JobFits(s)'
  <2>1. Told(t)'
    BY <1>1 DEF Told
  <2>2. s.kind # "load" => s.records = <<>>
    BY <1>2
  <2>3. s.kind = "delete" => s.entry \notin History!ToSet(s.records)
    BY <2>2, EmptyTold
  <2> QED  BY <1>2, <1>4, <2>1, <2>2, <2>3 DEF JobFits
<1>6. s.at \notin Replacing \cup {"reading"}
  BY <1>2 DEF Replacing
<1>7. \A k \in Jobs \ {j} : OnItsWay(k) =>
          job[k].entry \notin History!ToSet(s.records)
  BY <1>2, EmptyTold DEF EntriesAreNew
<1>8. alone' => /\ alone
                /\ s.kind # "load" => History!Writers \subseteq {j}
                /\ IsDone(s) => s.entry \notin kept
  <2>1. s.kind # "load" => j \in History!Writers
    BY <1>2 DEF History!Writers, History!Idle
  <2>2. alone /\ IsDone(s) => s.entry \notin kept
    BY <1>2 DEF IsDone, AloneIsExact
  <2> QED  BY <2>1, <2>2 DEF AloneIsExact
<1>9. /\ ended' \subseteq HistoryEntries /\ alone' \in BOOLEAN
      /\ crashes' \in 0 .. HistoryCrashes
      /\ view' \in History!Views /\ selected' \in 0 .. Len(view'.entries)
      /\ inbox' \in Seq(Posts)
  BY DEF History!TypeOK
<1> HIDE DEF HistoryInv
<1> QED
  BY <1>2, <1>3, <1>5, <1>6, <1>7, <1>8, <1>9, JobKeepsInv

LEMMA GivesUpKeepsInv ==
    ASSUME HistoryInv, NEW j \in Jobs, History!GivesUp(j), job[j].at # "idle",
           UNCHANGED <<file, kept, ended, alone, crashes, view, selected, inbox>>
    PROVE  HistoryInv'
BY AnswersKeepsInv DEF History!GivesUp

\* A thread that tells the window, and is gone.
LEMMA TellsKeepsInv ==
    ASSUME HistoryInv, NEW j \in Jobs, History!Tells(j)
    PROVE  HistoryInv'
<1> DEFINE s == History!IdleJob
<1>1. s \in History!JobStates /\ s.kind = "load" /\ s.at = "idle" /\ s.records = <<>>
  BY IdleIs
<1>2. History!ToSet(<<>>) = {} /\ History!IsInjective(<<>>)
  BY EmptyTold DEF Told
<1>3. /\ job' = [job EXCEPT ![j] = s] /\ job[j].at = "telling"
      /\ UNCHANGED <<file, kept, ended, alone, crashes, view, selected>>
  BY DEF History!Tells, History!Window
<1> HIDE DEF s
<1>4. JobFits(s)'
  BY <1>1, <1>2 DEF JobFits, Told
<1>5. inbox' \in Seq(Posts)
  <2>1. inbox \in Seq(Posts) /\ job[j] \in History!JobStates /\ JobFits(job[j])
    BY DEF HistoryInv, History!TypeOK
  <2>2. /\ job[j].ok \in BOOLEAN /\ job[j].records \in Seq(HistoryEntries)
        /\ ~job[j].ok => job[j].records = <<>>
    BY <1>3, <2>1 DEF History!JobStates, History!Histories, JobFits
  <2>3. History!Message("Loaded", job[j].ok, job[j].records) \in Posts
    <3>1. CASE job[j].ok = TRUE
      BY <2>2, <3>1, PostIs
    <3>2. CASE job[j].ok = FALSE
      BY <2>2, <3>2, PostIs
    <3> QED  BY <2>2, <3>1, <3>2
  <2>4. /\ History!Message("Deleted", job[j].ok, <<>>) \in Posts
        /\ History!Message("Ended", TRUE, <<>>) \in Posts
    BY <2>2, PostIs
  <2>5. /\ \A m \in Posts : <<m>> \in Seq(Posts)
        /\ <<>> \in Seq(Posts)
    OBVIOUS
  <2>6. History!Answer(j) \in Seq(Posts)
    BY <2>3, <2>4, <2>5 DEF History!Answer
  <2>7. inbox' = inbox \o History!Answer(j)
    BY DEF History!Tells
  <2> QED  BY <2>1, <2>6, <2>7, ConcatProperties
<1>6. /\ ended \subseteq HistoryEntries /\ alone \in BOOLEAN
      /\ crashes \in 0 .. HistoryCrashes /\ view \in History!Views
      /\ selected \in 0 .. Len(view.entries)
  BY DEF HistoryInv, History!TypeOK
<1> QED
  BY <1>1, <1>2, <1>3, <1>4, <1>5, <1>6, JobKeepsInv DEF Replacing, IsDone

\* A thread that starts, or goes on with what it has.
LEMMA LoadKeepsInv ==
    ASSUME HistoryInv, NEW j \in Jobs, History!StartLoad(j),
           UNCHANGED <<file, kept, ended, alone, crashes>>,
           view' \in History!Views, selected' \in 0 .. Len(view'.entries),
           inbox' \in Seq(Posts)
    PROVE  HistoryInv'
<1> DEFINE s == History!StartedJob("load", "reading", Nothing, TRUE)
<1>1. s \in History!JobStates /\ s.kind = "load" /\ s.at = "reading" /\ s.records = <<>>
  BY LoadIs
<1>2. History!ToSet(<<>>) = {} /\ History!IsInjective(<<>>)
  BY EmptyTold DEF Told
<1>3. job' = [job EXCEPT ![j] = s]
  BY DEF History!StartLoad
<1> HIDE DEF s
<1>4. JobFits(s)'
  BY <1>1, <1>2 DEF JobFits, Told
<1>5. /\ ended \subseteq HistoryEntries /\ alone \in BOOLEAN
      /\ crashes \in 0 .. HistoryCrashes
  BY DEF HistoryInv, History!TypeOK
<1> QED
  BY <1>1, <1>2, <1>3, <1>4, <1>5, JobKeepsInv DEF Replacing, IsDone

\* A writer that takes up its work: nobody else was writing, or nobody is
\* alone any more.
LEMMA WriterKeepsInv ==
    ASSUME HistoryInv, NEW j \in History!Idle, NEW s \in History!JobStates,
           History!StartWriter(j, s), s.records = <<>>,
           \/ s.kind = "delete" /\ s.at = "reading"
           \/ s.kind = "clear" /\ s.at = "guarding"
           \/ s.kind = "append" /\ s.at = "reading" /\ s.entry \in ended' \ ended,
           UNCHANGED <<file, kept, crashes>>,
           ended \subseteq ended', ended' \subseteq HistoryEntries,
           view' \in History!Views, selected' \in 0 .. Len(view'.entries),
           inbox' \in Seq(Posts)
    PROVE  HistoryInv'
<1> USE DEF HistoryInv
<1>1. j \in Jobs /\ job[j].at = "idle"
  BY DEF History!Idle
<1>2. job' = [job EXCEPT ![j] = s] /\ alone' = (alone /\ History!Writers = {})
  BY DEF History!StartWriter
<1>3. alone' \in BOOLEAN /\ crashes' \in 0 .. HistoryCrashes
  BY <1>2 DEF History!TypeOK
<1>4. JobFits(s)'
  BY EmptyTold DEF JobFits, Told
<1>5. ASSUME s.kind = "append"
      PROVE  /\ s.entry \notin History!ToSet(file.entries)
             /\ \A k \in Jobs \ {j} :
                    /\ s.entry \notin History!ToSet(job[k].records)
                    /\ OnItsWay(k) => job[k].entry # s.entry
  <2>1. s.entry \notin ended
    BY <1>5
  <2>2. \A k \in Jobs : JobFits(job[k])
    OBVIOUS
  <2> QED  BY <2>1, <2>2 DEF Told, JobFits, OnItsWay
<1>6. \A k \in Jobs \ {j} : OnItsWay(k) =>
          job[k].entry \notin History!ToSet(s.records)
  BY EmptyTold
<1>7. alone' => /\ alone
                /\ s.kind # "load" => History!Writers \subseteq {j}
                /\ s.at \in Replacing =>
                       History!ToSet(s.records) = History!KeptAfter(s)
                /\ ~IsDone(s)
  BY <1>2, EmptyTold DEF Replacing, History!KeptAfter, IsDone
<1> QED
  BY <1>1, <1>2, <1>3, <1>4, <1>5, <1>6, <1>7, JobKeepsInv

LEMMA ConfirmsKeepInv ==
    ASSUME HistoryInv, NEW j \in History!Idle,
           History!ConfirmDelete(j) \/ History!ConfirmClear(j)
    PROVE  HistoryInv'
<1>1. /\ UNCHANGED <<file, inbox, crashes, ended, kept>>
      /\ view' = History!Loading /\ selected' = 0
  BY DEF History!ConfirmDelete, History!ConfirmClear
<1>2. view' \in History!Views /\ selected' \in 0 .. Len(view'.entries)
  BY <1>1 DEF History!Views, History!Loading, History!Histories
<1>3. ended' \subseteq HistoryEntries /\ inbox' \in Seq(Posts)
  BY <1>1 DEF HistoryInv, History!TypeOK
<1>4. CASE History!ConfirmDelete(j)
  <2> DEFINE s == History!StartedJob("delete", "reading", view.entries[selected], TRUE)
  <2>1. view.entries[selected] \in HistoryEntries
    <3>1. view.entries \in Seq(HistoryEntries) /\ selected \in 1 .. Len(view.entries)
      BY <1>4 DEF History!ConfirmDelete, HistoryInv, History!TypeOK, History!Views,
                  History!Histories
    <3> QED  BY <3>1
  <2>2. /\ s \in History!JobStates
        /\ s.kind = "delete" /\ s.at = "reading" /\ s.records = <<>>
    BY <2>1 DEF History!StartedJob, History!JobStates, History!JobKinds,
                History!JobSteps, History!Histories
  <2>3. History!StartWriter(j, s)
    BY <1>4 DEF History!ConfirmDelete
  <2> HIDE DEF s
  <2> QED  BY <1>1, <1>2, <1>3, <2>2, <2>3, WriterKeepsInv
<1>5. CASE History!ConfirmClear(j)
  <2> DEFINE s == History!StartedJob("clear", "guarding", Nothing, TRUE)
  <2>1. /\ s \in History!JobStates
        /\ s.kind = "clear" /\ s.at = "guarding" /\ s.records = <<>>
    BY DEF History!StartedJob, History!JobStates, History!JobKinds,
           History!JobSteps, History!Histories
  <2>2. History!StartWriter(j, s)
    BY <1>5 DEF History!ConfirmClear
  <2> HIDE DEF s
  <2> QED  BY <1>1, <1>2, <1>3, <2>1, <2>2, WriterKeepsInv
<1> QED  BY <1>4, <1>5

LEMMA EndKeepsInv ==
    ASSUME HistoryInv, NEW j \in History!Idle, History!OperationEnds(j)
    PROVE  HistoryInv'
<1>1. PICK e \in HistoryEntries \ ended, tellsFirst \in BOOLEAN :
        /\ ended' = ended \cup {e}
        /\ inbox' = IF tellsFirst
                    THEN Append(inbox, History!Message("Ended", TRUE, <<>>))
                    ELSE inbox
        /\ History!StartWriter(j, History!StartedJob("append", "reading", e, tellsFirst))
  BY DEF History!OperationEnds
<1> DEFINE s == History!StartedJob("append", "reading", e, tellsFirst)
<1>2. /\ s \in History!JobStates
      /\ s.kind = "append" /\ s.at = "reading" /\ s.records = <<>>
      /\ s.entry = e
  BY DEF History!StartedJob, History!JobStates, History!JobKinds,
         History!JobSteps, History!Histories
<1>3. History!StartWriter(j, s)
  BY <1>1
<1> HIDE DEF s
<1>4. inbox' \in Seq(Posts)
  <2>1. inbox \in Seq(Posts)
    BY DEF HistoryInv
  <2>2. Append(inbox, History!Message("Ended", TRUE, <<>>)) \in Seq(Posts)
    <3>1. \A m \in Posts : Append(inbox, m) \in Seq(Posts)
      BY <2>1
    <3> QED  BY <3>1, PostIs
  <2> QED  BY <1>1, <2>1, <2>2
<1>5. /\ UNCHANGED <<file, kept, crashes, view, selected>>
      /\ ended \subseteq ended' /\ ended' \subseteq HistoryEntries
      /\ view' \in History!Views /\ selected' \in 0 .. Len(view'.entries)
  BY <1>1 DEF History!OperationEnds, HistoryInv, History!TypeOK
<1>6. s.entry \in ended' \ ended
  BY <1>1, <1>2
<1> QED  BY <1>2, <1>3, <1>4, <1>5, <1>6, WriterKeepsInv

\* Nothing but the window's copy, its selection and its messages changes.
LEMMA WindowKeepsInv ==
    ASSUME HistoryInv, UNCHANGED <<file, job, crashes, ended, kept, alone>>,
           view' \in History!Views, selected' \in 0 .. Len(view'.entries),
           inbox' \in Seq(Posts)
    PROVE  HistoryInv'
<1> USE DEF HistoryInv
<1>1. History!TypeOK'
  BY DEF History!TypeOK
<1>2. Told(file.entries)' /\ \A k \in Jobs : JobFits(job[k])'
  BY DEF Told, JobFits
<1>3. EntriesAreNew'
  BY DEF EntriesAreNew, OnItsWay
<1>4. AloneIsExact'
  <2>1. History!Writers' = History!Writers
    BY DEF History!Writers, History!Idle
  <2> QED  BY <2>1 DEF AloneIsExact, History!KeptAfter
<1> QED  BY <1>1, <1>2, <1>3, <1>4

LEMMA SelectKeepsInv ==
    ASSUME HistoryInv, History!SelectEntry
    PROVE  HistoryInv'
<1>1. /\ UNCHANGED <<file, job, view, inbox, crashes, ended, kept, alone>>
      /\ selected' \in DOMAIN view.entries
  BY DEF History!SelectEntry
<1>2. view \in History!Views /\ view.entries \in Seq(HistoryEntries)
  BY DEF HistoryInv, History!TypeOK, History!Views, History!Histories
<1>3. selected' \in 0 .. Len(view'.entries)
  BY <1>1, <1>2
<1>4. inbox' \in Seq(Posts)
  BY <1>1 DEF HistoryInv
<1> QED  BY <1>1, <1>2, <1>3, <1>4, WindowKeepsInv

LEMMA MessageKeepsInv ==
    ASSUME HistoryInv, History!TakeMessage
    PROVE  HistoryInv'
<1> DEFINE m == Head(inbox)
<1>1. /\ inbox # <<>> /\ inbox' = Tail(inbox)
      /\ UNCHANGED <<file, crashes, ended, kept, alone>>
  BY DEF History!TakeMessage
<1>2. m \in Posts /\ inbox' \in Seq(Posts)
  <2>1. inbox \in Seq(Posts)
    BY DEF HistoryInv
  <2> QED  BY <1>1, <2>1, HeadTailProperties
<1> HIDE DEF m
<1>3. view \in History!Views /\ selected \in 0 .. Len(view.entries)
  BY DEF HistoryInv, History!TypeOK
<1>4. CASE History!JournalLoaded(m)
  <2>1. UNCHANGED job
    BY <1>4 DEF History!JournalLoaded
  <2>2. /\ view' = IF m.ok THEN [kind |-> "Ready", entries |-> m.entries]
                           ELSE [kind |-> "Failed", entries |-> <<>>]
        /\ selected' = IF m.entries = <<>> THEN 0 ELSE 1
    BY <1>4 DEF History!JournalLoaded
  <2>3. m.entries \in Seq(HistoryEntries) /\ (m.ok \/ m.entries = <<>>)
    BY <1>2 DEF Posts
  <2>4. view' \in History!Views /\ view'.entries = m.entries
    <3>1. CASE m.ok
      BY <3>1, <2>2, <2>3 DEF History!Views, History!Histories
    <3>2. CASE ~m.ok
      BY <3>2, <2>2, <2>3 DEF History!Views, History!Histories
    <3> QED  BY <3>1, <3>2
  <2>5. selected' \in 0 .. Len(m.entries)
    <3>1. CASE m.entries = <<>>
      BY <3>1, <2>2
    <3>2. CASE m.entries # <<>>
      <4>1. Len(m.entries) \in Nat \ {0}
        BY <3>2, <2>3, EmptySeq
      <4> QED  BY <3>2, <4>1, <2>2
    <3> QED  BY <3>1, <3>2
  <2> QED  BY <1>1, <1>2, <2>1, <2>4, <2>5, WindowKeepsInv
<1>5. CASE UNCHANGED <<job, view, selected>>
  BY <1>1, <1>2, <1>3, <1>5, WindowKeepsInv
<1>6. CASE /\ \E j \in History!Idle : History!StartLoad(j)
           /\ UNCHANGED <<view, selected>>
  <2>1. PICK j \in Jobs : History!StartLoad(j)
    BY <1>6 DEF History!Idle
  <2> QED  BY <1>1, <1>2, <1>3, <1>6, <2>1, LoadKeepsInv
<1> QED
  BY <1>4, <1>5, <1>6 DEF m, History!TakeMessage, History!JournalDeleted,
                          History!OperationIsOver

\* A thread that reaches its next step with what it carries.
LEMMA ReachKeepsInv ==
    ASSUME HistoryInv, NEW j \in Jobs, NEW step \in Replacing \cup {"checking"},
           History!Reaches(j, step),
           job[j].at \in Replacing, file.readable,
           UNCHANGED <<file, kept, ended, alone, crashes, view, selected, inbox>>
    PROVE  HistoryInv'
<1> USE DEF HistoryInv
<1>0. PICK s : s = [job[j] EXCEPT !.at = step]
  OBVIOUS
<1>1. job \in [Jobs -> History!JobStates] /\ job[j] \in History!JobStates
  BY DEF History!TypeOK
<1>2. /\ s \in History!JobStates /\ s.at = step
      /\ s.kind = job[j].kind /\ s.entry = job[j].entry
      /\ s.records = job[j].records
  BY <1>0, <1>1 DEF History!JobStates, History!JobSteps, Replacing
<1>3. job' = [job EXCEPT ![j] = s]
  BY <1>0, <1>1 DEF History!Reaches
<1>4. JobFits(job[j]) /\ job[j].kind # "load"
  BY DEF JobFits, Replacing
<1>5. JobFits(s)'
  <2>1. Told(s.records)'
    BY <1>2, <1>4 DEF JobFits, Told
  <2>2. /\ job[j].at \notin {"idle", "reading"}
        /\ s.at \notin {"idle", "reading", "telling"}
    BY <1>2 DEF Replacing
  <2> QED  BY <1>2, <1>4, <2>1, <2>2 DEF JobFits
<1>6. job[j].kind = "append" => OnItsWay(j)
  BY DEF OnItsWay
<1>7. s.kind = "append" =>
          /\ s.entry \notin History!ToSet(file.entries)
          /\ \A k \in Jobs \ {j} :
                 /\ s.entry \notin History!ToSet(job[k].records)
                 /\ OnItsWay(k) => job[k].entry # s.entry
  BY <1>2, <1>6 DEF EntriesAreNew
<1>8. \A k \in Jobs \ {j} : OnItsWay(k) =>
          job[k].entry \notin History!ToSet(s.records)
  BY <1>2 DEF EntriesAreNew
<1>9. alone' =>
          /\ alone
          /\ s.kind # "load" => History!Writers \subseteq {j}
          /\ s.at \in Replacing =>
                 History!ToSet(s.records) = History!KeptAfter(s)
          /\ ~IsDone(s)
  <2>1. j \in History!Writers
    BY <1>4 DEF History!Writers, History!Idle, Replacing
  <2>2. History!KeptAfter(s) = History!KeptAfter(job[j])
    BY <1>2 DEF History!KeptAfter
  <2>3. ~IsDone(s)
    BY <1>2 DEF IsDone, Replacing
  <2> QED  BY <1>2, <2>1, <2>2, <2>3 DEF AloneIsExact
<1>10. /\ ended' \subseteq HistoryEntries /\ alone' \in BOOLEAN
       /\ crashes' \in 0 .. HistoryCrashes
       /\ view' \in History!Views /\ selected' \in 0 .. Len(view'.entries)
       /\ inbox' \in Seq(Posts)
  BY DEF History!TypeOK
<1> HIDE DEF HistoryInv
<1> QED
  BY <1>2, <1>3, <1>5, <1>7, <1>8, <1>9, <1>10, JobKeepsInv

\* A writer has read the file: it carries the list the file is to become.
LEMMA ReadKeepsInv ==
    ASSUME HistoryInv, NEW j \in Jobs, NEW t \in Seq(HistoryEntries),
           job' = [job EXCEPT ![j].at = "guarding", ![j].records = t],
           job[j].at = "reading", job[j].kind \in {"append", "delete"},
           History!IsInjective(t),
           job[j].kind = "append" =>
               History!ToSet(t) = History!ToSet(file.entries) \cup {job[j].entry},
           job[j].kind = "delete" =>
               History!ToSet(t) = History!ToSet(file.entries) \ {job[j].entry},
           UNCHANGED <<file, kept, ended, alone, crashes, view, selected, inbox>>
    PROVE  HistoryInv'
<1> USE DEF HistoryInv
<1>0. PICK s : s = [job[j] EXCEPT !.at = "guarding", !.records = t]
  OBVIOUS
<1>1. job \in [Jobs -> History!JobStates] /\ job[j] \in History!JobStates
  BY DEF History!TypeOK
<1>2. /\ s \in History!JobStates /\ s.at = "guarding"
      /\ s.kind = job[j].kind /\ s.entry = job[j].entry /\ s.records = t
  BY <1>0, <1>1 DEF History!JobStates, History!JobSteps, History!Histories
<1>3. job' = [job EXCEPT ![j] = s]
  BY <1>0, <1>1
<1>4. JobFits(job[j])
  OBVIOUS
<1>5. History!ToSet(file.entries) \subseteq ended
  BY DEF Told
<1>6. JobFits(s)'
  <2>1. History!ToSet(t) \subseteq ended
    BY <1>4, <1>5 DEF JobFits
  <2>2. Told(t)'
    BY <2>1 DEF Told
  <2>3. job[j].kind = "delete" => job[j].entry \notin History!ToSet(t)
    OBVIOUS
  <2> QED  BY <1>2, <2>2, <2>3, <1>4 DEF JobFits
<1>7. job[j].kind = "append" => OnItsWay(j)
  BY DEF OnItsWay
<1>8. s.kind = "append" =>
          /\ s.entry \notin History!ToSet(file.entries)
          /\ \A k \in Jobs \ {j} :
                 /\ s.entry \notin History!ToSet(job[k].records)
                 /\ OnItsWay(k) => job[k].entry # s.entry
  BY <1>2, <1>7 DEF EntriesAreNew
<1>9. ASSUME NEW k \in Jobs \ {j}, OnItsWay(k)
      PROVE  job[k].entry \notin History!ToSet(s.records)
  <2>1. /\ job[k].entry \notin History!ToSet(file.entries)
        /\ OnItsWay(j) => job[j].entry # job[k].entry
    BY <1>9 DEF EntriesAreNew
  <2> QED  BY <1>2, <1>7, <2>1
<1>10. alone' =>
          /\ alone
          /\ s.kind # "load" => History!Writers \subseteq {j}
          /\ s.at \in Replacing =>
                 History!ToSet(s.records) = History!KeptAfter(s)
          /\ ~IsDone(s)
  <2>1. j \in History!Writers
    BY DEF History!Writers, History!Idle
  <2>2. alone => History!ToSet(file.entries) = kept
    BY DEF AloneIsExact
  <2>3. alone => History!ToSet(t) = History!KeptAfter(s)
    BY <1>2, <2>2 DEF History!KeptAfter
  <2>4. ~IsDone(s)
    BY <1>2 DEF IsDone
  <2> QED  BY <1>2, <2>1, <2>3, <2>4 DEF AloneIsExact
<1>11. /\ ended' \subseteq HistoryEntries /\ alone' \in BOOLEAN
       /\ crashes' \in 0 .. HistoryCrashes
       /\ view' \in History!Views /\ selected' \in 0 .. Len(view'.entries)
       /\ inbox' \in Seq(Posts)
  BY DEF History!TypeOK
<1> HIDE DEF HistoryInv
<1> QED
  BY <1>2, <1>3, <1>6, <1>8, <1>9, <1>10, <1>11, JobKeepsInv

LEMMA LoadForViewKeepsInv ==
    ASSUME HistoryInv, NEW j \in Jobs, History!LoadForView(j)
    PROVE  HistoryInv'
<1>1. /\ UNCHANGED <<file, kept, ended, alone, crashes, view, selected, inbox>>
      /\ job[j].at = "reading" /\ job[j].kind = "load"
  BY DEF History!LoadForView, History!Window
<1>2. CASE History!GivesUp(j)
  BY <1>1, <1>2, GivesUpKeepsInv
<1>3. CASE History!Answers(j, TRUE, file.entries)
  BY <1>1, <1>3, AnswersKeepsInv
<1> QED  BY <1>2, <1>3 DEF History!LoadForView

LEMMA ReadsKeepInv ==
    ASSUME HistoryInv, NEW j \in Jobs,
           History!ReadBeforeAppend(j) \/ History!ReadBeforeDelete(j)
    PROVE  HistoryInv'
<1>1. /\ UNCHANGED <<file, kept, ended, alone, crashes, view, selected, inbox>>
      /\ job[j].at = "reading"
  BY DEF History!ReadBeforeAppend, History!ReadBeforeDelete, History!Window
<1>2. CASE History!GivesUp(j)
  BY <1>1, <1>2, GivesUpKeepsInv
<1>3. /\ file.entries \in Seq(HistoryEntries)
      /\ History!IsInjective(file.entries)
      /\ job[j].kind = "append" => job[j].entry \in HistoryEntries
  BY DEF HistoryInv, History!TypeOK, History!Files, History!Histories, Told,
         JobFits
<1>4. CASE History!ReadBeforeAppend(j) /\ ~History!GivesUp(j)
  <2> DEFINE t == Append(file.entries, job[j].entry)
  <2>1. /\ job[j].at = "reading" /\ job[j].kind = "append" /\ UNCHANGED inbox
        /\ job' = [job EXCEPT ![j].at = "guarding", ![j].records = t]
    BY <1>4 DEF History!ReadBeforeAppend
  <2>2. job[j].entry \notin History!ToSet(file.entries)
    BY <2>1 DEF HistoryInv, EntriesAreNew, OnItsWay
  <2>3. /\ t \in Seq(HistoryEntries) /\ History!IsInjective(t)
        /\ History!ToSet(t) = History!ToSet(file.entries) \cup {job[j].entry}
    BY <1>3, <2>1, <2>2, AppendTold
  <2> HIDE DEF t
  <2> QED  BY <1>1, <2>1, <2>3, ReadKeepsInv
<1>5. CASE History!ReadBeforeDelete(j) /\ ~History!GivesUp(j)
  <2> DEFINE t == History!Removed(file.entries, job[j].entry)
  <2>1. /\ job[j].at = "reading" /\ job[j].kind = "delete" /\ UNCHANGED inbox
        /\ History!Contains(file.entries, job[j].entry)
        /\ job' = [job EXCEPT ![j].at = "guarding", ![j].records = t]
    BY <1>5 DEF History!ReadBeforeDelete
  <2>2. /\ t \in Seq(HistoryEntries) /\ History!IsInjective(t)
        /\ History!ToSet(t) = History!ToSet(file.entries) \ {job[j].entry}
    BY <1>3, <2>1, RemovedTold
  <2> HIDE DEF t
  <2> QED  BY <1>1, <2>1, <2>2, ReadKeepsInv
<1> QED  BY <1>2, <1>4, <1>5

LEMMA GuardKeepsInv ==
    ASSUME HistoryInv, NEW j \in Jobs,
           History!GuardReplace(j) \/ History!WriteTemporary(j)
    PROVE  HistoryInv'
<1>1. /\ UNCHANGED <<file, kept, ended, alone, crashes, view, selected, inbox>>
      /\ job[j].at \in Replacing
  BY DEF History!GuardReplace, History!WriteTemporary, History!Window, Replacing
<1>2. CASE History!GivesUp(j)
  BY <1>1, <1>2, GivesUpKeepsInv DEF Replacing
<1>3. CASE ~History!GivesUp(j)
  <2>1. file.readable
    BY <1>3 DEF History!GuardReplace, History!WriteTemporary, History!MayReplace,
                HistoryInv, JobFits
  <2>2. History!Reaches(j, "writing") \/ History!Reaches(j, "moving")
    BY <1>3 DEF History!GuardReplace, History!WriteTemporary
  <2> QED  BY <1>1, <2>1, <2>2, ReachKeepsInv DEF Replacing
<1> QED  BY <1>2, <1>3

\* The move: what the writer carries becomes the file.
LEMMA MoveKeepsInv ==
    ASSUME HistoryInv, NEW j \in Jobs, History!MoveIntoPlace(j)
    PROVE  HistoryInv'
<1>1. /\ job[j].at = "moving"
      /\ UNCHANGED <<ended, alone, crashes, view, selected, inbox>>
  BY DEF History!MoveIntoPlace, History!Window
<1>2. CASE History!GivesUp(j) /\ UNCHANGED <<file, kept>>
  BY <1>1, <1>2, GivesUpKeepsInv
<1>3. CASE ~(History!GivesUp(j) /\ UNCHANGED <<file, kept>>)
  <2>1. /\ file' = [readable |-> TRUE, entries |-> job[j].records]
        /\ kept' = History!KeptAfter(job[j])
        /\ job' = [job EXCEPT ![j].at = "checking"]
        /\ UNCHANGED inbox
    BY <1>3 DEF History!MoveIntoPlace, History!Reaches
  <2>2. /\ job \in [Jobs -> History!JobStates] /\ job[j] \in History!JobStates
        /\ kept \subseteq ended /\ ended \subseteq HistoryEntries
    BY DEF HistoryInv, History!TypeOK
  <2>3. PICK s : s = [job[j] EXCEPT !.at = "checking"]
    OBVIOUS
  <2>4. /\ s \in History!JobStates /\ s.at = "checking"
        /\ s.kind = job[j].kind /\ s.entry = job[j].entry
        /\ s.records = job[j].records
    BY <2>2, <2>3 DEF History!JobStates, History!JobSteps
  <2>5. /\ job' \in [Jobs -> History!JobStates] /\ job'[j] = s
        /\ \A k \in Jobs \ {j} : job'[k] = job[k]
    BY <2>1, <2>2, <2>3, <2>4
  <2>6. JobFits(job[j]) /\ \A k \in Jobs : JobFits(job[k])
    BY DEF HistoryInv
  <2>7. job[j].kind \in {"append", "delete", "clear"}
    BY <1>1, <2>2, <2>6 DEF JobFits, History!JobStates, History!JobKinds
  <2>8. kept' \subseteq ended
    BY <2>1, <2>2, <2>6, <2>7 DEF JobFits, History!KeptAfter
  <2>9. History!TypeOK'
    <3>1. file' \in History!Files
      BY <2>1, <2>2 DEF History!Files, History!JobStates
    <3> QED  BY <1>1, <2>5, <2>8, <3>1 DEF HistoryInv, History!TypeOK
  <2>10. Told(file.entries)'
    BY <1>1, <2>1, <2>6 DEF JobFits, Told
  <2>11. ASSUME NEW k \in Jobs PROVE JobFits(job[k])'
    <3>1. CASE k = j
      <4>1. Told(s.records)'
        BY <1>1, <2>4, <2>6 DEF JobFits, Told
      <4>2. JobFits(s)'
        BY <1>1, <2>1, <2>4, <2>6, <2>7, <4>1 DEF JobFits
      <4> QED  BY <2>5, <3>1, <4>2 DEF JobFits, Told
    <3>2. CASE k # j
      <4>1. JobFits(job[k]) /\ job'[k] = job[k]
        BY <2>5, <2>6, <3>2
      <4>2. Told(job[k].records)'
        BY <1>1, <4>1 DEF JobFits, Told
      <4> QED  BY <1>1, <2>1, <4>1, <4>2 DEF JobFits
    <3> QED  BY <3>1, <3>2
  <2>12. EntriesAreNew'
    <3> SUFFICES ASSUME NEW k \in Jobs, OnItsWay(k)'
                 PROVE  /\ (job[k].entry \notin History!ToSet(file.entries))'
                        /\ \A i \in Jobs \ {k} :
                              /\ (job[k].entry \notin History!ToSet(job[i].records))'
                              /\ (OnItsWay(i) => job[i].entry # job[k].entry)'
      BY DEF EntriesAreNew
    <3>1. k # j /\ OnItsWay(k)
      BY <2>4, <2>5 DEF OnItsWay, Replacing
    <3>2. \A i \in Jobs \ {k} :
              /\ job[k].entry \notin History!ToSet(job[i].records)
              /\ OnItsWay(i) => job[i].entry # job[k].entry
      BY <3>1 DEF HistoryInv, EntriesAreNew
    <3>3. job'[k] = job[k]
      BY <2>5, <3>1
    <3>4. \A i \in Jobs : /\ job'[i].records = job[i].records
                          /\ job'[i].entry = job[i].entry
                          /\ OnItsWay(i)' => OnItsWay(i)
      BY <1>1, <2>4, <2>5 DEF OnItsWay, Replacing
    <3> QED  BY <2>1, <3>1, <3>2, <3>3, <3>4
  <2>13. AloneIsExact'
    <3> SUFFICES ASSUME alone
                 PROVE  /\ (History!ToSet(file.entries) = kept)'
                        /\ \A k, l \in History!Writers' : k = l
                        /\ \A k \in Jobs : /\ job'[k].at \notin Replacing
                                            /\ ~IsDone(job'[k])
      BY <1>1 DEF AloneIsExact, IsDone
    <3>1. /\ \A k, l \in History!Writers : k = l
          /\ History!ToSet(job[j].records) = History!KeptAfter(job[j])
      BY <1>1 DEF HistoryInv, AloneIsExact, Replacing
    <3>2. \A k \in Jobs : k \in History!Writers <=>
              job[k].at # "idle" /\ job[k].kind # "load"
      BY DEF History!Writers, History!Idle
    <3>3. \A k \in Jobs : k \in History!Writers' <=>
              job'[k].at # "idle" /\ job'[k].kind # "load"
      BY DEF History!Writers, History!Idle
    <3>4. j \in History!Writers /\ History!Writers' \subseteq History!Writers
      <4>1. j \in History!Writers
        BY <1>1, <2>7, <3>2
      <4>2. \A k \in Jobs \ {j} : k \in History!Writers' => k \in History!Writers
        BY <2>5, <3>2, <3>3
      <4> QED  BY <4>1, <4>2 DEF History!Writers
    <3>5. ASSUME NEW k \in Jobs
          PROVE  job'[k].at \notin Replacing /\ ~IsDone(job'[k])
      <4>1. CASE k = j
        BY <2>4, <2>5, <4>1 DEF Replacing, IsDone
      <4>2. CASE k # j
        <5>1. k \notin History!Writers
          BY <3>1, <3>4, <4>2
        <5>2. job[k].at = "idle" \/ job[k].kind = "load"
          BY <3>2, <5>1
        <5>3. job[k].at \notin Replacing /\ ~IsDone(job[k])
          BY <2>6, <5>2 DEF JobFits, Replacing, IsDone
        <5> QED  BY <2>5, <4>2, <5>3
      <4> QED  BY <4>1, <4>2
    <3>6. (History!ToSet(file.entries) = kept)'
      BY <2>1, <3>1
    <3> QED  BY <3>1, <3>4, <3>5, <3>6
  <2> QED
    BY <2>1, <2>9, <2>10, <2>11, <2>12, <2>13 DEF HistoryInv
<1> QED  BY <1>2, <1>3

\* A deletion reads back a list without its entry.
LEMMA ReadBackIsDone ==
    ASSUME HistoryInv, NEW j \in Jobs,
           job[j].at = "checking", job[j].kind = "delete", History!ReadsBack(j)
    PROVE  job[j].entry \notin History!ToSet(file.entries)
BY DEF HistoryInv, JobFits, History!ReadsBack

LEMMA CheckKeepsInv ==
    ASSUME HistoryInv, NEW j \in Jobs, History!CheckReplaced(j)
    PROVE  HistoryInv'
<1>1. /\ UNCHANGED <<file, kept, ended, alone, crashes, view, selected, inbox>>
      /\ job[j].at = "checking"
  BY DEF History!CheckReplaced, History!Window
<1>2. CASE History!GivesUp(j)
  BY <1>1, <1>2, GivesUpKeepsInv
<1>3. CASE History!ReadsBack(j) /\ History!Answers(j, TRUE, <<>>)
  BY <1>1, <1>3, ReadBackIsDone, AnswersKeepsInv
<1> QED  BY <1>2, <1>3 DEF History!CheckReplaced

LEMMA TamperKeepsInv ==
    ASSUME HistoryInv, History!Tamper
    PROVE  HistoryInv'
<1>1. /\ file' = [file EXCEPT !.readable = FALSE]
      /\ \A j \in Jobs : job[j].at \notin {"writing", "moving"}
      /\ UNCHANGED <<job, view, selected, inbox, crashes, ended, kept, alone>>
  BY DEF History!Tamper
<1>2. file' \in History!Files /\ file'.entries = file.entries
  BY <1>1 DEF HistoryInv, History!TypeOK, History!Files
<1>3. History!TypeOK'
  BY <1>1, <1>2 DEF HistoryInv, History!TypeOK
<1>4. ASSUME NEW k \in Jobs PROVE JobFits(job[k])'
  <2>1. JobFits(job[k])
    BY DEF HistoryInv
  <2>2. Told(job[k].records)'
    BY <1>1, <2>1 DEF JobFits, Told
  <2> QED  BY <1>1, <2>1, <2>2 DEF JobFits
<1>5. EntriesAreNew'
  BY <1>1, <1>2 DEF HistoryInv, EntriesAreNew, OnItsWay
<1>6. AloneIsExact'
  <2>1. History!Writers' = History!Writers
    BY <1>1 DEF History!Writers, History!Idle
  <2> QED  BY <1>1, <1>2, <2>1 DEF HistoryInv, AloneIsExact, History!KeptAfter
<1>7. Told(file.entries)' /\ inbox' \in Seq(Posts)
  BY <1>1, <1>2 DEF HistoryInv, Told
<1> QED  BY <1>3, <1>4, <1>5, <1>6, <1>7 DEF HistoryInv

\* The process is gone with its threads; the file stays.
LEMMA RestartKeepsInv ==
    ASSUME HistoryInv, History!Restart
    PROVE  HistoryInv'
<1>1. PICK j \in Jobs :
        job' = [k \in Jobs |->
                 IF k = j
                 THEN History!StartedJob("load", "reading", Nothing, TRUE)
                 ELSE History!IdleJob]
  BY DEF History!Restart
<1>2. /\ job' \in [Jobs -> History!JobStates]
      /\ \A k \in Jobs : /\ job'[k].kind = "load"
                         /\ job'[k].at \in {"idle", "reading"}
                         /\ job'[k].records = <<>>
  <2> DEFINE s == History!StartedJob("load", "reading", Nothing, TRUE)
  <2>1. s \in History!JobStates /\ s.kind = "load" /\ s.at = "reading" /\ s.records = <<>>
    BY LoadIs
  <2>2. /\ History!IdleJob \in History!JobStates
        /\ History!IdleJob.kind = "load" /\ History!IdleJob.at = "idle"
        /\ History!IdleJob.records = <<>>
    BY IdleIs
  <2> HIDE DEF s
  <2>3. job' = [k \in Jobs |-> IF k = j THEN s ELSE History!IdleJob]
    BY <1>1 DEF s
  <2> QED  BY <2>1, <2>2, <2>3
<1>3. /\ view' = History!Loading /\ selected' = 0 /\ inbox' = <<>>
      /\ crashes < HistoryCrashes /\ crashes' = crashes + 1
      /\ UNCHANGED <<file, ended, kept, alone>>
  BY DEF History!Restart
<1>4. History!TypeOK'
  <2>1. view' \in History!Views /\ selected' \in 0 .. Len(view'.entries)
    BY <1>3 DEF History!Views, History!Loading, History!Histories
  <2>2. crashes' \in 0 .. HistoryCrashes
    BY <1>3, PartsFit DEF HistoryInv, History!TypeOK, History!JournalAssumption
  <2> QED  BY <1>2, <1>3, <2>1, <2>2 DEF HistoryInv, History!TypeOK
<1>5. History!ToSet(<<>>) = {} /\ Told(<<>>)'
  BY EmptyTold DEF Told
<1>6. ASSUME NEW k \in Jobs PROVE JobFits(job[k])'
  <2>1. Told(job[k].records)'
    BY <1>2, <1>5 DEF Told
  <2> QED  BY <1>2, <2>1 DEF JobFits
<1>7. EntriesAreNew'
  BY <1>2 DEF EntriesAreNew, OnItsWay
<1>8. AloneIsExact'
  <2>1. alone => (History!ToSet(file.entries) = kept)'
    BY <1>3 DEF HistoryInv, AloneIsExact
  <2>2. History!Writers' = {}
    BY <1>2 DEF History!Writers
  <2>3. \A k \in Jobs : job'[k].at \notin Replacing /\ ~IsDone(job[k])'
    BY <1>2 DEF Replacing, IsDone
  <2> QED  BY <1>3, <2>1, <2>2, <2>3 DEF AloneIsExact
<1>9. inbox' \in Seq(Posts) /\ Told(file.entries)'
  BY <1>3 DEF HistoryInv, Told
<1> QED  BY <1>4, <1>6, <1>7, <1>8, <1>9 DEF HistoryInv

LEMMA HistoryStepKeepsInv == HistoryInv /\ [History!Next]_historyVars => HistoryInv'
<1> SUFFICES ASSUME HistoryInv, [History!Next]_historyVars PROVE HistoryInv'
  OBVIOUS
<1>1. CASE UNCHANGED historyVars
  <2>1. UNCHANGED <<file, job, view, selected, inbox, crashes, ended, kept, alone>>
    BY <1>1 DEF historyVars
  <2>2. /\ view \in History!Views /\ selected \in 0 .. Len(view.entries)
        /\ inbox \in Seq(Posts)
    BY DEF HistoryInv, History!TypeOK
  <2> QED  BY <2>1, <2>2, WindowKeepsInv
<1>2. CASE History!SelectEntry
  BY <1>2, SelectKeepsInv
<1>3. CASE \E j \in History!Idle :
             \/ History!ConfirmDelete(j)
             \/ History!ConfirmClear(j)
             \/ History!OperationEnds(j)
  BY <1>3, ConfirmsKeepInv, EndKeepsInv
<1>4. CASE History!TakeMessage
  BY <1>4, MessageKeepsInv
<1>5. CASE \E j \in Jobs : History!JobStep(j)
  BY <1>5, LoadForViewKeepsInv, ReadsKeepInv, GuardKeepsInv, MoveKeepsInv,
     CheckKeepsInv, TellsKeepsInv DEF History!JobStep
<1>6. CASE History!Tamper
  BY <1>6, TamperKeepsInv
<1>7. CASE History!Restart
  BY <1>7, RestartKeepsInv
<1> QED
  BY <1>1, <1>2, <1>3, <1>4, <1>5, <1>6, <1>7 DEF History!Next

LEMMA PartsMoveHistory == [PartsNext]_partsVars => [History!Next]_historyVars
BY DEF PartsNext, partsVars, RecoveryStep, HistoryStep, LogStep, OwnLogStep,
       TraceStep, InstallersStep, Rest

LEMMA HistoryHolds == PartsSpec => []HistoryInv
<1>1. PartsInit => HistoryInv
  BY HistoryInit DEF PartsInit
<1>2. HistoryInv /\ [PartsNext]_partsVars => HistoryInv'
  BY HistoryStepKeepsInv, PartsMoveHistory
<1> QED  BY <1>1, <1>2, PTL DEF PartsSpec

LEMMA EvidenceStep ==
    HistoryInv /\ [History!Next]_historyVars => (~file.readable => file' = file)
<1> SUFFICES ASSUME HistoryInv, [History!Next]_historyVars, ~file.readable
             PROVE  file' = file
  OBVIOUS
<1>1. \A j \in Jobs : job[j].at # "moving"
  BY DEF HistoryInv, JobFits
<1>2. ASSUME History!TakeMessage PROVE file' = file
  BY <1>2 DEF History!TakeMessage
<1>3. ASSUME NEW j \in Jobs, History!JobStep(j) PROVE file' = file
  BY <1>1, <1>3 DEF History!JobStep, History!LoadForView, History!ReadBeforeAppend,
     History!ReadBeforeDelete, History!GuardReplace, History!WriteTemporary,
     History!MoveIntoPlace, History!CheckReplaced, History!Tells
<1>4. ASSUME NEW j \in History!Idle,
             \/ History!ConfirmDelete(j)
             \/ History!ConfirmClear(j)
             \/ History!OperationEnds(j)
      PROVE  file' = file
  BY <1>4 DEF History!ConfirmDelete, History!ConfirmClear, History!OperationEnds
<1> QED
  BY <1>2, <1>3, <1>4 DEF History!Next, historyVars, History!SelectEntry,
                          History!Tamper, History!Restart

\* Only the thread itself reads back what it wrote.
LEMMA ReadingBackIsChecking ==
    ASSUME HistoryInv, History!Next, NEW j \in Jobs, History!DeletionRead(j)
    PROVE  History!ReadsBack(j)
<1> USE DEF History!DeletionRead
<1>0. job \in [Jobs -> History!JobStates]
  BY DEF HistoryInv, History!TypeOK
<1>1. ASSUME NEW i \in History!Idle, NEW s, job' = [job EXCEPT ![i] = s]
      PROVE  FALSE
  <2>1. i \in Jobs /\ i # j
    BY DEF History!Idle
  <2> QED  BY <1>0, <1>1, <2>1
<1>2. ASSUME UNCHANGED job PROVE FALSE
  BY <1>2
<1>3. ASSUME History!TakeMessage PROVE FALSE
  BY <1>1, <1>2, <1>3 DEF History!TakeMessage, History!JournalLoaded,
     History!JournalDeleted, History!OperationIsOver, History!StartLoad
<1>4. ASSUME NEW i \in History!Idle,
             \/ History!ConfirmDelete(i)
             \/ History!ConfirmClear(i)
             \/ History!OperationEnds(i)
      PROVE  FALSE
  BY <1>1, <1>4 DEF History!ConfirmDelete, History!ConfirmClear,
                    History!OperationEnds, History!StartWriter
<1>5. ASSUME History!Restart PROVE FALSE
  <2>1. job'[j].at \in {"idle", "reading"}
    <3>1. PICK i \in Jobs :
            job' = [k \in Jobs |->
                     IF k = i
                     THEN History!StartedJob("load", "reading", Nothing, TRUE)
                     ELSE History!IdleJob]
      BY <1>5 DEF History!Restart
    <3> QED  BY <3>1, LoadIs, IdleIs
  <2> QED  BY <2>1
<1>6. ASSUME History!SelectEntry \/ History!Tamper PROVE FALSE
  BY <1>2, <1>6 DEF History!SelectEntry, History!Tamper
<1>7. ASSUME NEW i \in Jobs, History!JobStep(i) PROVE History!ReadsBack(j)
  <2>1. CASE i # j
    <3>1. job'[j] = job[j]
      BY <1>0, <1>7, <2>1 DEF History!JobStep, History!LoadForView,
         History!ReadBeforeAppend, History!ReadBeforeDelete, History!GuardReplace,
         History!WriteTemporary, History!MoveIntoPlace, History!CheckReplaced,
         History!Tells, History!GivesUp, History!Answers, History!Reaches
    <3> QED  BY <3>1
  <2>2. CASE i = j
    <3>1. History!CheckReplaced(j)
      BY <1>7, <2>2 DEF History!JobStep, History!LoadForView,
         History!ReadBeforeAppend, History!ReadBeforeDelete, History!GuardReplace,
         History!WriteTemporary, History!MoveIntoPlace, History!Tells
    <3>2. ~History!GivesUp(j)
      <4>1. History!GivesUp(j) => ~job'[j].ok
        BY <1>0 DEF History!GivesUp, History!Answers, History!JobStates
      <4> QED  BY <4>1
    <3> QED  BY <3>1, <3>2 DEF History!CheckReplaced
  <2> QED  BY <2>1, <2>2
<1> QED
  BY <1>3, <1>4, <1>5, <1>6, <1>7 DEF History!Next

LEMMA DoneStep ==
    ASSUME HistoryInv, History!Next, NEW j \in Jobs,
           History!DeletionRead(j) \/ (alone /\ History!DeletionTold(j))
    PROVE  ~History!Contains(file.entries, job[j].entry)
<1>1. CASE History!DeletionRead(j)
  BY <1>1, ReadingBackIsChecking, ReadBackIsDone
     DEF History!DeletionRead, History!Contains, History!ToSet
<1>2. CASE alone /\ History!DeletionTold(j)
  <2>1. IsDone(job[j])
    BY <1>2 DEF IsDone, History!DeletionTold
  <2>2. job[j].entry \notin kept /\ History!ToSet(file.entries) = kept
    BY <1>2, <2>1 DEF HistoryInv, AloneIsExact
  <2> QED  BY <2>2 DEF History!Contains, History!ToSet
<1> QED  BY <1>1, <1>2

\* Unless two writers met, the history keeps what was moved into it. Also if
\* they met it lists nothing twice, keeps what it cannot read, and a deletion
\* succeeds only if it read the file without its entry; unless they met, the
\* window is told of it while the entry is away (storage.rs:309-347,
\* work.rs:127-131).
THEOREM HistoryKept == PartsSpec => HistoryIsKept
<1>1. HistoryInv => /\ History!TypeOK
                    /\ History!AloneNothingIsLost
                    /\ History!NoEntryTwice
  BY DEF HistoryInv, AloneIsExact, Told, History!AloneNothingIsLost,
         History!NoEntryTwice
<1>2. HistoryInv /\ [PartsNext]_partsVars
        => [~file.readable => file' = file]_(History!vars)
  BY PartsMoveHistory, EvidenceStep
<1>3. HistoryInv /\ [PartsNext]_partsVars
        => [\A j \in Jobs :
                History!DeletionRead(j) \/ (alone /\ History!DeletionTold(j))
                    => ~History!Contains(file.entries, job[j].entry)]_(History!vars)
  <2> SUFFICES ASSUME HistoryInv, History!Next
               PROVE  \A j \in Jobs :
                          History!DeletionRead(j) \/ (alone /\ History!DeletionTold(j))
                            => ~History!Contains(file.entries, job[j].entry)
    BY PartsMoveHistory DEF historyVars, History!vars
  <2> QED  BY DoneStep
<1>4. PartsSpec => [](History!TypeOK /\ History!AloneNothingIsLost
                                     /\ History!NoEntryTwice)
  BY <1>1, HistoryHolds, PTL
<1>5. PartsSpec => History!EvidenceSurvives
  BY <1>2, HistoryHolds, PTL DEF PartsSpec, History!EvidenceSurvives
<1>6. PartsSpec => History!DoneIsDone
  BY <1>3, HistoryHolds, PTL DEF PartsSpec, History!DoneIsDone
<1> QED  BY <1>4, <1>5, <1>6 DEF HistoryIsKept

------------------------------------------------------------------------------
(***************************************************************************)
(* The downloaded installers.                                              *)
(***************************************************************************)
InspectorStates ==
    [at: {"free", "read", "verify", "again", "told"}, found: Installers!Inspections]

\* What was read of a path is no newer than the last write, and what a
\* signature was trusted for is what is there, if what was read is still there.
InspectionFits(inspector) ==
    LET found == inspector.found IN
    /\ inspector.at # "free" => found.path \in Installers!Paths
    /\ inspector.at \in {"verify", "again"} =>
           found.file # Installers!NotThere /\ found.file.stamp <= writes
    /\ inspector.at \in {"read", "verify"} => found.status = "none"
    /\ inspector.at = "again" /\ Installers!Admitted(found)
           /\ files[found.path] = found.file
           => found.file.body \in StoreSigned
    /\ inspector.at = "told" /\ Installers!Admitted(found)
           => found.file.body \in StoreSigned

AdmittedFits(inspection) ==
    Installers!Admitted(inspection) =>
        /\ inspection.file.body \in StoreSigned
        /\ inspection.path \in Installers!Paths

DownloadFits ==
    /\ download.at \in {"staging", "renaming", "arrived"} => download.name \in Names
    /\ download.at \in {"staging", "renaming"} => download.body \in Installers!Whole
    /\ download.at = "renaming" =>
           staging[download.name] \in {NoInstaller, download.body}

InstallersInv ==
    /\ Installers!TypeOK
    /\ inspectors \in [Inspectors -> InspectorStates]
    /\ \A p \in Installers!Paths : files[p].stamp <= writes
    /\ \A i \in Inspectors : InspectionFits(inspectors[i])
    /\ DownloadFits
    /\ Installers!NamedIsWhole
    /\ AdmittedFits(inspected)

LEMMA FileFacts ==
    /\ Installers!NotThere \in Installers!Files
    /\ Installers!NotThere.body = NoInstaller /\ Installers!NotThere.stamp = 0
    /\ \A b \in Installers!Contents, n \in 0 .. MaxWrites :
          /\ [body |-> b, stamp |-> n] \in Installers!Files
          /\ [body |-> b, stamp |-> n].body = b /\ [body |-> b, stamp |-> n].stamp = n
    /\ NoInstaller \notin Installers!Contents /\ Truncated \notin Installers!Whole
    /\ Installers!Whole \subseteq Installers!Contents
    /\ StoreSigned \subseteq Installers!Whole
    /\ Truncated \in Installers!Contents
    /\ Names \subseteq Installers!Paths
    /\ MaxWrites \in Nat /\ MaxSelections \in Nat
    /\ NoPath \notin Installers!Paths
BY PartsFit DEF Installers!InstallerAssumption, Installers!NotThere, Installers!Files,
   Installers!Contents, Installers!Whole, Installers!Paths

LEMMA FreeFacts ==
    /\ Installers!NoInspection \in Installers!Inspections
    /\ ~Installers!Admitted(Installers!NoInspection)
    /\ Installers!NoInspection.status = "none"
    /\ Installers!FreeInspector \in InspectorStates
    /\ Installers!FreeInspector.at = "free"
<1>1. /\ Installers!NoInspection \in Installers!Inspections
      /\ Installers!NoInspection.status = "none"
  BY FileFacts DEF Installers!NoInspection, Installers!Inspections
<1> QED
  BY <1>1 DEF Installers!FreeInspector, InspectorStates, Installers!Admitted

\* What was inspected stays true, whatever is written or swept meanwhile: a
\* write has a number of its own, and what is gone is no file.
LEMMA FilesKeepInspections ==
    ASSUME InstallersInv, UNCHANGED inspectors,
           writes' \in Nat, writes <= writes',
           \A p \in Installers!Paths :
               \/ files'[p] = files[p]
               \/ files'[p] = Installers!NotThere
               \/ files'[p].stamp > writes
    PROVE  \A i \in Inspectors : InspectionFits(inspectors[i])'
<1> SUFFICES ASSUME NEW i \in Inspectors PROVE InspectionFits(inspectors[i])'
  OBVIOUS
<1>1. InspectionFits(inspectors[i]) /\ inspectors[i].found \in Installers!Inspections
  BY DEF InstallersInv, Installers!TypeOK
<1>2. writes \in Nat /\ inspectors[i].found.file.stamp \in Nat
  BY <1>1, FileFacts DEF InstallersInv, Installers!TypeOK, Installers!Inspections,
                         Installers!Files
<1>3. inspectors[i].at # "free" =>
          inspectors[i].found.path \in Installers!Paths
  BY <1>1 DEF InspectionFits
<1>4. inspectors[i].at = "again" /\ files'[inspectors[i].found.path] = inspectors[i].found.file
        => files[inspectors[i].found.path] = inspectors[i].found.file
  BY <1>1, <1>2, <1>3 DEF InspectionFits
<1> QED
  BY <1>1, <1>2, <1>3, <1>4 DEF InspectionFits, Installers!Admitted

\* An inspection goes on, beside files that stay as they are.
LEMMA InspectorKeepsInv ==
    ASSUME InstallersInv, NEW i \in Inspectors, NEW s \in InspectorStates,
           inspectors' = [inspectors EXCEPT ![i] = s],
           InspectionFits(s),
           UNCHANGED <<installersRunning, files, staging, writes, leftover, refused,
                       unvisited, executing, held>>,
           download' \in Installers!Downloads, DownloadFits',
           chosen' \in Installers!Paths \cup {NoPath},
           selections' \in 0 .. MaxSelections,
           inspected' \in Installers!Inspections,
           AdmittedFits(inspected)',
           said' \in {"ready", "other"}
    PROVE  InstallersInv'
<1>1. inspectors' \in [Inspectors -> InspectorStates]
  BY DEF InstallersInv
<1>2. Installers!TypeOK'
  <2>1. \A k \in Inspectors :
           /\ inspectors'[k].at \in {"free", "read", "verify", "again", "told"}
           /\ inspectors'[k].found \in Installers!Inspections
    BY <1>1 DEF InspectorStates
  <2> QED  BY <2>1 DEF InstallersInv, Installers!TypeOK
<1>3. ASSUME NEW k \in Inspectors PROVE InspectionFits(inspectors[k])'
  <2>1. InspectionFits(s)'
    BY DEF InspectionFits
  <2>2. CASE k = i
    <3>1. inspectors'[k] = s
      BY <2>2 DEF InstallersInv
    <3> QED  BY <2>1, <3>1 DEF InspectionFits
  <2>3. CASE k # i
    <3>1. inspectors'[k] = inspectors[k] /\ InspectionFits(inspectors[k])
      BY <2>3 DEF InstallersInv
    <3> QED  BY <3>1 DEF InspectionFits
  <2> QED  BY <2>2, <2>3
<1>4. /\ \A p \in Installers!Paths : (files[p].stamp <= writes)'
      /\ Installers!NamedIsWhole'
  BY DEF InstallersInv, Installers!NamedIsWhole
<1> QED  BY <1>1, <1>2, <1>3, <1>4 DEF InstallersInv

\* Steps that touch neither a file nor an inspection.
LEMMA AsideKeepsInv ==
    ASSUME InstallersInv, UNCHANGED <<files, writes, selections, inspectors>>,
           installersRunning' \in BOOLEAN, held' \in BOOLEAN,
           staging' \in [Names -> Installers!Contents \cup {NoInstaller}],
           download' \in Installers!Downloads, DownloadFits',
           unvisited' \subseteq Installers!Entries,
           executing' \subseteq Installers!Paths, leftover' \subseteq Names, refused' \subseteq Names,
           chosen' \in Installers!Paths \cup {NoPath},
           inspected' \in {inspected, Installers!NoInspection},
           said' \in {"ready", "other"}
    PROVE  InstallersInv'
<1>1. inspected' \in Installers!Inspections
  BY FreeFacts DEF InstallersInv, Installers!TypeOK
<1>2. Installers!TypeOK'
  BY <1>1 DEF InstallersInv, Installers!TypeOK
<1>3. ASSUME NEW k \in Inspectors PROVE InspectionFits(inspectors[k])'
  <2>1. InspectionFits(inspectors[k])
    BY DEF InstallersInv
  <2> QED  BY <2>1 DEF InspectionFits
<1>4. AdmittedFits(inspected)'
  <2>1. CASE inspected' = inspected
    BY <2>1 DEF InstallersInv, Installers!Admitted, AdmittedFits
  <2>2. CASE inspected' = Installers!NoInspection
    BY <2>2, FreeFacts DEF Installers!Admitted, AdmittedFits
  <2> QED  BY <2>1, <2>2
<1> QED
  BY <1>2, <1>3, <1>4 DEF InstallersInv, Installers!NamedIsWhole

\* Steps that write or take away files.
LEMMA FilesKeepInv ==
    ASSUME InstallersInv, writes' \in 0 .. MaxWrites, writes <= writes',
           files' \in [Installers!Paths -> Installers!Files],
           \A p \in Installers!Paths :
               \/ files'[p] = files[p]
               \/ files'[p] = Installers!NotThere
               \/ files'[p].stamp = writes + 1 /\ writes' = writes + 1,
           \A n \in Names : files'[n].body # Truncated,
           staging' \in [Names -> Installers!Contents \cup {NoInstaller}],
           download' \in Installers!Downloads, DownloadFits',
           leftover' \subseteq Names, refused' \subseteq Names, unvisited' \subseteq Installers!Entries,
           UNCHANGED <<installersRunning, executing, held, chosen, selections,
                       inspectors, inspected, said>>
    PROVE  InstallersInv'
<1>0. writes \in Nat /\ writes' \in Nat /\ MaxWrites \in Nat
  BY FileFacts DEF InstallersInv, Installers!TypeOK
<1>1. Installers!TypeOK'
  BY DEF InstallersInv, Installers!TypeOK
<1>2. \A i \in Inspectors : InspectionFits(inspectors[i])'
  <2>1. \A p \in Installers!Paths :
               \/ files'[p] = files[p]
               \/ files'[p] = Installers!NotThere
               \/ files'[p].stamp > writes
    BY <1>0
  <2> QED  BY <1>0, <2>1, FilesKeepInspections
<1>3. \A p \in Installers!Paths : files'[p].stamp <= writes'
  <2> SUFFICES ASSUME NEW p \in Installers!Paths PROVE files'[p].stamp <= writes'
    OBVIOUS
  <2>1. files[p].stamp <= writes /\ files[p].stamp \in Nat
    BY FileFacts DEF InstallersInv, Installers!TypeOK, Installers!Files
  <2>2. Installers!NotThere.stamp = 0
    BY FileFacts
  <2> QED  BY <1>0, <2>1, <2>2
<1>4. AdmittedFits(inspected)'
  BY DEF InstallersInv, Installers!Admitted, AdmittedFits
<1>5. Installers!NamedIsWhole'
  BY DEF Installers!NamedIsWhole
<1> QED
  BY <1>1, <1>2, <1>3, <1>4, <1>5 DEF InstallersInv

\* The parts that a step leaves alone keep their types.
LEMMA KeptFacts ==
    ASSUME InstallersInv
    PROVE  /\ installersRunning \in BOOLEAN /\ held \in BOOLEAN
           /\ files \in [Installers!Paths -> Installers!Files]
           /\ staging \in [Names -> Installers!Contents \cup {NoInstaller}]
           /\ writes \in 0 .. MaxWrites /\ selections \in 0 .. MaxSelections
           /\ download \in Installers!Downloads /\ DownloadFits
           /\ unvisited \subseteq Installers!Entries
           /\ executing \subseteq Installers!Paths
           /\ leftover \subseteq Names /\ refused \subseteq Names
           /\ chosen \in Installers!Paths \cup {NoPath}
           /\ inspected \in Installers!Inspections
           /\ said \in {"ready", "other"}
           /\ \A n \in Names : files[n].body # Truncated
           /\ inspectors \in [Inspectors -> InspectorStates]
           /\ AdmittedFits(inspected)
BY DEF InstallersInv, Installers!TypeOK, Installers!NamedIsWhole

LEMMA DownloadKeepsInv ==
    ASSUME InstallersInv,
           Installers!BeginInstallerDownload \/ Installers!Fetch \/ Installers!WriteStaging
    PROVE  InstallersInv'
<1> USE KeptFacts
<1>1. /\ UNCHANGED <<installersRunning, files, writes, selections, inspectors,
                     unvisited, executing, leftover, refused, chosen, inspected, held>>
      /\ said' \in {"ready", "other"}
  BY DEF Installers!BeginInstallerDownload, Installers!Fetch, Installers!WriteStaging,
         Installers!folder, Installers!draft
<1>2. /\ download' \in Installers!Downloads /\ DownloadFits'
      /\ staging' \in [Names -> Installers!Contents \cup {NoInstaller}]
  <2>1. CASE Installers!BeginInstallerDownload
    <3>1. /\ download' = [at |-> "fetching", name |-> NoPath, body |-> NoInstaller]
          /\ UNCHANGED staging
      BY <2>1 DEF Installers!BeginInstallerDownload, Installers!NoDownload, Installers!folder
    <3> QED  BY <3>1 DEF Installers!Downloads, DownloadFits
  <2>2. CASE Installers!Fetch
    <3>1. UNCHANGED staging
      BY <2>2 DEF Installers!Fetch, Installers!folder
    <3>2. CASE Installers!Fail
      <4>1. download' = [download EXCEPT !.at = "failed"]
        BY <3>2 DEF Installers!Fail
      <4> QED  BY <3>1, <4>1 DEF Installers!Downloads, DownloadFits
    <3>3. CASE \E name \in Names, body \in Installers!Whole :
                  download' = [at |-> "staging", name |-> name, body |-> body]
      BY <3>1, <3>3, FileFacts DEF Installers!Downloads, DownloadFits
    <3> QED  BY <2>2, <3>2, <3>3 DEF Installers!Fetch
  <2>3. CASE Installers!WriteStaging
    <3>1. /\ download.at = "staging" /\ download.name \in Names
          /\ download.body \in Installers!Whole
      BY <2>3 DEF Installers!WriteStaging, DownloadFits
    <3>2. CASE /\ staging' = [staging EXCEPT ![download.name] = download.body]
               /\ download' = [download EXCEPT !.at = "renaming"]
      <4>1. staging'[download.name] = download.body
        BY <3>1, <3>2
      <4>2. /\ download'.name = download.name /\ download'.body = download.body
            /\ download' \in Installers!Downloads
        BY <3>2 DEF Installers!Downloads
      <4>3. staging' \in [Names -> Installers!Contents \cup {NoInstaller}]
        BY <3>1, <3>2, FileFacts
      <4> QED  BY <3>1, <4>1, <4>2, <4>3 DEF DownloadFits
    <3>3. CASE /\ staging' \in {[staging EXCEPT ![download.name] = left] :
                                left \in {NoInstaller, Truncated}}
               /\ Installers!Fail
      <4>1. download' = [download EXCEPT !.at = "failed"]
        BY <3>3 DEF Installers!Fail
      <4>2. download' \in Installers!Downloads /\ download'.at = "failed"
        BY <4>1 DEF Installers!Downloads
      <4>3. staging' \in [Names -> Installers!Contents \cup {NoInstaller}]
        BY <3>1, <3>3, FileFacts
      <4> QED  BY <4>2, <4>3 DEF DownloadFits
    <3> QED  BY <2>3, <3>2, <3>3 DEF Installers!WriteStaging
  <2> QED  BY <2>1, <2>2, <2>3
<1> QED  BY <1>1, <1>2, AsideKeepsInv

LEMMA RenameKeepsInv ==
    ASSUME InstallersInv, Installers!RenameStaging
    PROVE  InstallersInv'
<1> USE KeptFacts
<1>1. /\ download.at = "renaming" /\ download.name \in Names
      /\ download.body \in Installers!Whole
      /\ staging[download.name] \in {NoInstaller, download.body}
      /\ staging' = [staging EXCEPT ![download.name] = NoInstaller]
      /\ UNCHANGED <<installersRunning, refused, unvisited, executing, held, chosen,
                     selections, inspectors, inspected, said>>
  BY DEF Installers!RenameStaging, DownloadFits, Installers!draft
<1>2. staging' \in [Names -> Installers!Contents \cup {NoInstaller}]
  BY <1>1
<1>3. CASE Installers!Fail /\ UNCHANGED <<files, writes, leftover>>
  <2>1. download' = [download EXCEPT !.at = "failed"]
    BY <1>3 DEF Installers!Fail
  <2>2. download' \in Installers!Downloads /\ DownloadFits'
    BY <2>1 DEF Installers!Downloads, DownloadFits
  <2> QED  BY <1>1, <1>2, <1>3, <2>2, AsideKeepsInv
<1>4. CASE ~(Installers!Fail /\ UNCHANGED <<files, writes, leftover>>)
  <2>1. /\ staging[download.name] # NoInstaller
        /\ writes < MaxWrites /\ writes' = writes + 1
        /\ files' = [files EXCEPT ![download.name] =
                        [body |-> staging[download.name], stamp |-> writes + 1]]
        /\ leftover' = leftover \ {download.name}
        /\ download' = [download EXCEPT !.at = "arrived"]
    BY <1>4 DEF Installers!RenameStaging
  <2>2. download' \in Installers!Downloads /\ DownloadFits'
    <3>1. /\ download' \in Installers!Downloads /\ download'.at = "arrived"
          /\ download'.name = download.name
      BY <2>1 DEF Installers!Downloads
    <3> QED  BY <1>1, <3>1 DEF DownloadFits
  <2>3. writes' \in 0 .. MaxWrites /\ writes <= writes' /\ writes + 1 \in 0 .. MaxWrites
    BY <2>1, FileFacts
  <2>4. PICK new : new = [body |-> download.body, stamp |-> writes + 1]
    OBVIOUS
  <2>5. /\ new \in Installers!Files /\ new.stamp = writes + 1
        /\ new.body # Truncated
    BY <1>1, <2>3, <2>4, FileFacts
  <2>6. files' = [files EXCEPT ![download.name] = new]
    BY <1>1, <2>1, <2>4
  <2>7. files' \in [Installers!Paths -> Installers!Files]
    BY <1>1, <2>5, <2>6, FileFacts
  <2>8. \A p \in Installers!Paths :
            files'[p] = files[p] \/ (files'[p].stamp = writes + 1 /\ writes' = writes + 1)
    BY <1>1, <2>1, <2>5, <2>6, FileFacts
  <2>9. \A n \in Names : files'[n].body # Truncated
    BY <1>1, <2>5, <2>6, FileFacts
  <2>10. leftover' \subseteq Names
    BY <2>1
  <2> QED
    BY <1>1, <1>2, <2>2, <2>3, <2>7, <2>8, <2>9, <2>10, FilesKeepInv
<1> QED  BY <1>3, <1>4

LEMMA SweepKeepsInv ==
    ASSUME InstallersInv, Installers!SweepEntry
    PROVE  InstallersInv'
<1> USE KeptFacts
<1>1. PICK entry \in unvisited :
        /\ unvisited' = unvisited \ {entry}
        /\ staging' \in {staging, [staging EXCEPT ![entry[1]] = NoInstaller]}
        /\ files' \in {files, [files EXCEPT ![entry[1]] = Installers!NotThere]}
        /\ leftover' \in {leftover, leftover \ {entry[1]}}
        /\ refused' \in {refused, refused \cup {entry[1]}}
  BY DEF Installers!SweepEntry, Installers!DeletesPartial,
         Installers!DeletesInstaller, Installers!PassesOver
<1>2. UNCHANGED <<installersRunning, writes, download, executing, held, chosen,
                  selections, inspectors, inspected, said>>
  BY DEF Installers!SweepEntry, Installers!draft
<1>3. entry[1] \in Names /\ entry[1] \in Installers!Paths
  BY FileFacts DEF Installers!Entries
<1>4. /\ unvisited' \subseteq Installers!Entries
      /\ leftover' \subseteq Names /\ refused' \subseteq Names
      /\ staging' \in [Names -> Installers!Contents \cup {NoInstaller}]
      /\ \A n \in Names : staging'[n] \in {staging[n], NoInstaller}
  BY <1>1, <1>3
<1>5. download' \in Installers!Downloads /\ DownloadFits'
  BY <1>2, <1>4 DEF DownloadFits
<1>6. files' = files \/ files' = [files EXCEPT ![entry[1]] = Installers!NotThere]
  BY <1>1
<1>7. /\ files' \in [Installers!Paths -> Installers!Files]
      /\ \A p \in Installers!Paths : files'[p] = files[p] \/ files'[p] = Installers!NotThere
  BY <1>3, <1>6, FileFacts
<1>8. \A n \in Names : files'[n].body # Truncated
  BY <1>7, FileFacts
<1>9. writes' \in 0 .. MaxWrites /\ writes <= writes'
  BY <1>2, FileFacts
<1> QED  BY <1>2, <1>4, <1>5, <1>7, <1>8, <1>9, FilesKeepInv

LEMMA StartKeepsInv ==
    ASSUME InstallersInv,
           \/ Installers!Start \/ Installers!EndHandoff
           \/ Installers!LaunchInstaller \/ Installers!InstallerExits
           \/ Installers!ClearFile
    PROVE  InstallersInv'
<1> USE KeptFacts
<1>1. /\ UNCHANGED <<files, staging, writes, download, selections, inspectors>>
      /\ installersRunning' \in BOOLEAN /\ held' \in BOOLEAN
      /\ unvisited' \in {unvisited, Installers!Entries}
      /\ inspected' \in {inspected, Installers!NoInspection}
      /\ said' \in {"ready", "other"}
  BY DEF Installers!Start, Installers!SweepAtStart, Installers!EndHandoff,
         Installers!LaunchInstaller, Installers!InstallerExits, Installers!ClearFile,
         Installers!folder, Installers!draft
<1>2. /\ leftover' \subseteq Names /\ refused' \subseteq Names
      /\ chosen' \in Installers!Paths \cup {NoPath}
  BY DEF Installers!Start, Installers!EndHandoff, Installers!LaunchInstaller,
         Installers!InstallerExits, Installers!ClearFile, Installers!folder,
         Installers!draft
<1>3. executing' \subseteq Installers!Paths
  <2>1. CASE Installers!LaunchInstaller
    <3>1. chosen = inspected.path /\ Installers!Admitted(inspected)
      BY <2>1 DEF Installers!LaunchInstaller
    <3>2. chosen \in Installers!Paths
      BY <3>1 DEF AdmittedFits
    <3> QED  BY <2>1, <3>2 DEF Installers!LaunchInstaller
  <2>2. CASE ~Installers!LaunchInstaller
    BY <2>2 DEF Installers!Start, Installers!EndHandoff, Installers!InstallerExits,
                Installers!ClearFile
  <2> QED  BY <2>1, <2>2
<1>4. DownloadFits'
  BY <1>1 DEF DownloadFits
<1> QED  BY <1>1, <1>2, <1>3, <1>4, AsideKeepsInv

LEMMA InspectKeepsInv ==
    ASSUME InstallersInv, NEW i \in Inspectors,
           \/ Installers!ReadIdentity(i)
           \/ Installers!VerifyAuthenticode(i)
           \/ Installers!ReadAgain(i)
    PROVE  InstallersInv'
<1> USE KeptFacts
<1> DEFINE found == inspectors[i].found
<1>1. /\ UNCHANGED <<installersRunning, files, staging, writes, leftover, refused, download,
                     unvisited, executing, held, chosen, selections, inspected, said>>
      /\ download' \in Installers!Downloads /\ DownloadFits'
      /\ AdmittedFits(inspected)'
  <2>1. UNCHANGED <<installersRunning, files, staging, writes, leftover, refused, download,
                    unvisited, executing, held, chosen, selections, inspected, said>>
    BY DEF Installers!ReadIdentity, Installers!VerifyAuthenticode, Installers!ReadAgain,
           Installers!Inspects, Installers!folder
  <2>2. DownloadFits'
    BY <2>1 DEF DownloadFits
  <2>3. AdmittedFits(inspected)'
    BY <2>1 DEF AdmittedFits, Installers!Admitted
  <2> QED  BY <2>1, <2>2, <2>3
<1>2. /\ inspectors[i].at \in {"read", "verify", "again"}
      /\ found \in Installers!Inspections /\ found.path \in Installers!Paths
      /\ found.file \in Installers!Files
      /\ files[found.path] \in Installers!Files
      /\ files[found.path].stamp <= writes
  <2>1. inspectors[i].at \in {"read", "verify", "again"}
    BY DEF Installers!ReadIdentity, Installers!VerifyAuthenticode, Installers!ReadAgain,
           Installers!Inspects
  <2>2. InspectionFits(inspectors[i]) /\ inspectors[i] \in InspectorStates
    BY DEF InstallersInv
  <2>3. found.path \in Installers!Paths
    BY <2>1, <2>2 DEF InspectionFits
  <2> QED
    BY <2>1, <2>2, <2>3 DEF InspectorStates, Installers!Inspections, InstallersInv
<1>3. InspectionFits(inspectors[i])
  BY DEF InstallersInv
<1>4. CASE Installers!ReadFailed(i)
  <2>1. PICK f : f = [found EXCEPT !.status = "failed"]
    OBVIOUS
  <2>2. /\ f \in Installers!Inspections /\ f.path = found.path
        /\ f.status = "failed"
    BY <1>2, <2>1 DEF Installers!Inspections
  <2>3. PICK s : s = [at |-> "told", found |-> f]
    OBVIOUS
  <2>4. s \in InspectorStates /\ s.at = "told" /\ s.found = f
    BY <2>2, <2>3 DEF InspectorStates
  <2>5. inspectors' = [inspectors EXCEPT ![i] = s]
    BY <1>4, <2>1, <2>3 DEF Installers!ReadFailed, Installers!Answer, Installers!Moves
  <2>6. InspectionFits(s)
    BY <1>2, <2>2, <2>4 DEF InspectionFits, Installers!Admitted
  <2> QED  BY <1>1, <2>4, <2>5, <2>6, InspectorKeepsInv
<1>5. CASE Installers!ReadIdentity(i) /\ ~Installers!ReadFailed(i)
  <2>1. PICK f : f = [found EXCEPT !.file = files[found.path]]
    OBVIOUS
  <2>2. /\ f \in Installers!Inspections /\ f.path = found.path
        /\ f.status = found.status /\ f.file = files[found.path]
    BY <1>2, <2>1 DEF Installers!Inspections
  <2>3. PICK s : s = [at |-> "verify", found |-> f]
    OBVIOUS
  <2>4. s \in InspectorStates /\ s.at = "verify" /\ s.found = f
    BY <2>2, <2>3 DEF InspectorStates
  <2>5. /\ inspectors[i].at = "read"
        /\ files[found.path] # Installers!NotThere
        /\ inspectors' = [inspectors EXCEPT ![i] = s]
    BY <1>5, <2>1, <2>3 DEF Installers!ReadIdentity, Installers!Moves, Installers!Inspects
  <2>6. found.status = "none"
    BY <1>3, <2>5 DEF InspectionFits
  <2>7. InspectionFits(s)
    BY <1>2, <2>2, <2>4, <2>5, <2>6 DEF InspectionFits, Installers!Admitted
  <2> QED  BY <1>1, <2>4, <2>5, <2>7, InspectorKeepsInv
<1>6. CASE Installers!VerifyAuthenticode(i)
  <2>1. PICK verdict \in Installers!Verdicts(files[found.path].body) :
            inspectors' = [inspectors EXCEPT ![i] =
                [at |-> "again",
                 found |-> [found EXCEPT !.status = verdict[1], !.signer = verdict[2]]]]
    BY <1>6 DEF Installers!VerifyAuthenticode, Installers!Moves
  <2>2. /\ verdict[1] \in Installers!SignatureStatus
        /\ verdict[2] \in {"none", "store", "other"}
        /\ verdict[1] = "Trusted" /\ verdict[2] = "store" =>
               files[found.path].body \in StoreSigned
    BY DEF Installers!Verdicts, Installers!SignatureStatus
  <2>3. PICK f : f = [found EXCEPT !.status = verdict[1], !.signer = verdict[2]]
    OBVIOUS
  <2>4. /\ f \in Installers!Inspections /\ f.path = found.path /\ f.file = found.file
        /\ f.status = verdict[1] /\ f.signer = verdict[2]
    BY <1>2, <2>2, <2>3 DEF Installers!Inspections
  <2>5. PICK s : s = [at |-> "again", found |-> f]
    OBVIOUS
  <2>6. s \in InspectorStates /\ s.at = "again" /\ s.found = f
    BY <2>4, <2>5 DEF InspectorStates
  <2>7. inspectors' = [inspectors EXCEPT ![i] = s]
    BY <2>1, <2>3, <2>5
  <2>8. found.file # Installers!NotThere /\ found.file.stamp <= writes
    BY <1>3, <1>6 DEF InspectionFits, Installers!VerifyAuthenticode, Installers!Inspects
  <2>9. InspectionFits(s)
    BY <1>2, <2>2, <2>4, <2>6, <2>8 DEF InspectionFits, Installers!Admitted
  <2> QED  BY <1>1, <2>6, <2>7, <2>9, InspectorKeepsInv
<1>7. CASE Installers!ReadAgain(i) /\ ~Installers!ReadFailed(i)
  <2>1. PICK s : s = [at |-> "told", found |-> found]
    OBVIOUS
  <2>2. s \in InspectorStates /\ s.at = "told" /\ s.found = found
    BY <1>2, <2>1 DEF InspectorStates
  <2>3. /\ inspectors[i].at = "again" /\ files[found.path] = found.file
        /\ inspectors' = [inspectors EXCEPT ![i] = s]
    BY <1>7, <2>1 DEF Installers!ReadAgain, Installers!Answer, Installers!Moves,
                      Installers!Inspects
  <2>4. InspectionFits(s)
    BY <1>2, <1>3, <2>2, <2>3 DEF InspectionFits, Installers!Admitted
  <2> QED  BY <1>1, <2>2, <2>3, <2>4, InspectorKeepsInv
<1> QED  BY <1>4, <1>5, <1>6, <1>7

LEMMA StubInspectedKeepsInv ==
    ASSUME InstallersInv, NEW i \in Inspectors, Installers!StubInspected(i)
    PROVE  InstallersInv'
<1> USE KeptFacts
<1>1. /\ UNCHANGED <<installersRunning, files, staging, writes, leftover, refused, download,
                     unvisited, executing, held, chosen, selections>>
      /\ inspectors[i].at = "told"
      /\ inspectors' = [inspectors EXCEPT ![i] = Installers!FreeInspector]
      /\ inspected' \in {inspected, inspectors[i].found}
      /\ said' \in {"ready", "other"}
  BY DEF Installers!StubInspected, Installers!Moves, Installers!folder
<1>2. InspectionFits(inspectors[i]) /\ inspectors[i].found \in Installers!Inspections
  BY DEF InstallersInv, InspectorStates
<1>3. InspectionFits(Installers!FreeInspector)
  BY FreeFacts DEF InspectionFits
<1>4. AdmittedFits(inspected)' /\ inspected' \in Installers!Inspections
  <2>1. AdmittedFits(inspectors[i].found)
    BY <1>1, <1>2 DEF InspectionFits, AdmittedFits
  <2>2. CASE inspected' = inspected
    BY <2>2 DEF AdmittedFits, Installers!Admitted
  <2>3. CASE inspected' = inspectors[i].found
    BY <1>2, <2>1, <2>3 DEF AdmittedFits, Installers!Admitted
  <2> QED  BY <1>1, <2>2, <2>3
<1>5. DownloadFits'
  BY <1>1 DEF DownloadFits
<1> QED  BY <1>1, <1>3, <1>4, <1>5, FreeFacts, InspectorKeepsInv

\* A file is selected, by the user or because it has arrived.
LEMMA SelectionKeepsInv ==
    ASSUME InstallersInv, NEW path \in Installers!Paths,
           Installers!DispatchFileCandidate(path),
           UNCHANGED <<installersRunning, files, staging, writes, leftover, refused,
                       unvisited, executing, held>>,
           download' \in Installers!Downloads, DownloadFits',
           said' \in {"ready", "other"}
    PROVE  InstallersInv'
<1> USE KeptFacts
<1>1. CASE UNCHANGED <<chosen, selections, inspected, inspectors>>
  BY <1>1, AsideKeepsInv
<1>2. CASE ~UNCHANGED <<chosen, selections, inspected, inspectors>>
  <2>1. PICK i \in Inspectors :
          /\ selections < MaxSelections
          /\ chosen' = path /\ inspected' = Installers!NoInspection
          /\ selections' = selections + 1
          /\ inspectors' = [inspectors EXCEPT ![i] =
                [at |-> "read",
                 found |-> [Installers!NoInspection EXCEPT
                               !.path = path, !.selection = selections + 1]]]
    BY <1>2 DEF Installers!DispatchFileCandidate, Installers!Moves
  <2>2. selections' \in 0 .. MaxSelections
    BY <2>1, FileFacts
  <2>3. PICK f : f = [Installers!NoInspection EXCEPT
                         !.path = path, !.selection = selections + 1]
    OBVIOUS
  <2>4. /\ f \in Installers!Inspections /\ f.path = path /\ f.status = "none"
    BY <2>1, <2>2, <2>3, FreeFacts DEF Installers!Inspections
  <2>5. PICK s : s = [at |-> "read", found |-> f]
    OBVIOUS
  <2>6. s \in InspectorStates /\ s.at = "read" /\ s.found = f
    BY <2>4, <2>5 DEF InspectorStates
  <2>7. inspectors' = [inspectors EXCEPT ![i] = s]
    BY <2>1, <2>3, <2>5
  <2>8. InspectionFits(s)
    BY <2>4, <2>6 DEF InspectionFits
  <2>9. AdmittedFits(inspected)' /\ inspected' \in Installers!Inspections
    BY <2>1, FreeFacts DEF AdmittedFits, Installers!Admitted
  <2> QED  BY <2>1, <2>2, <2>6, <2>7, <2>8, <2>9, InspectorKeepsInv
<1> QED  BY <1>1, <1>2

LEMMA ChoiceKeepsInv ==
    ASSUME InstallersInv, Installers!ChooseFile \/ Installers!InstallerDownloaded
    PROVE  InstallersInv'
<1> USE KeptFacts
<1>1. CASE Installers!ChooseFile
  <2>1. PICK path \in Installers!Paths : Installers!DispatchFileCandidate(path)
    BY <1>1 DEF Installers!ChooseFile
  <2>2. /\ UNCHANGED <<installersRunning, files, staging, writes, leftover, refused, download,
                       unvisited, executing, held>>
        /\ said' = "other"
    BY <1>1 DEF Installers!ChooseFile, Installers!folder
  <2>3. DownloadFits'
    BY <2>2 DEF DownloadFits
  <2> QED  BY <2>1, <2>2, <2>3, SelectionKeepsInv
<1>2. CASE Installers!InstallerDownloaded
  <2>1. /\ UNCHANGED <<installersRunning, files, staging, writes, leftover, refused,
                       unvisited, executing, held>>
        /\ download' = [at |-> "idle", name |-> NoPath, body |-> NoInstaller]
        /\ said' \in {"ready", "other"}
    BY <1>2 DEF Installers!InstallerDownloaded, Installers!folder, Installers!NoDownload
  <2>2. download' \in Installers!Downloads /\ DownloadFits'
    BY <2>1 DEF Installers!Downloads, DownloadFits
  <2>3. CASE UNCHANGED <<chosen, selections, inspected, inspectors>>
    BY <2>1, <2>2, <2>3, AsideKeepsInv
  <2>4. CASE ~UNCHANGED <<chosen, selections, inspected, inspectors>>
    <3>1. /\ download.at = "arrived"
          /\ Installers!DispatchFileCandidate(download.name)
      BY <1>2, <2>4 DEF Installers!InstallerDownloaded
    <3>2. download.name \in Installers!Paths
      BY <3>1, FileFacts DEF DownloadFits
    <3> QED  BY <2>1, <2>2, <3>1, <3>2, SelectionKeepsInv
  <2> QED  BY <2>3, <2>4
<1> QED  BY <1>1, <1>2

LEMMA StopKeepsInv ==
    ASSUME InstallersInv, Installers!Stop
    PROVE  InstallersInv'
<1> USE KeptFacts
<1>1. /\ installersRunning' = FALSE /\ held' = FALSE
      /\ download' = [at |-> "idle", name |-> NoPath, body |-> NoInstaller]
      /\ unvisited' = {} /\ leftover' = {} /\ refused' = {} /\ chosen' = NoPath /\ said' = "other"
      /\ inspected' = Installers!NoInspection
      /\ inspectors' = [i \in Inspectors |-> Installers!FreeInspector]
      /\ UNCHANGED <<files, writes, executing, selections>>
  BY DEF Installers!Stop, Installers!NoDownload
<1>2. staging' \in [Names -> Installers!Contents \cup {NoInstaller}]
  <2>1. CASE staging' = staging
    BY <2>1
  <2>2. CASE staging' # staging
    <3>1. /\ download.at = "staging"
          /\ staging' = [staging EXCEPT ![download.name] = Truncated]
      BY <2>2 DEF Installers!Stop
    <3> QED  BY <3>1, FileFacts
  <2> QED  BY <2>1, <2>2
<1>3. download' \in Installers!Downloads /\ DownloadFits'
  BY <1>1 DEF Installers!Downloads, DownloadFits
<1>4. /\ inspectors' \in [Inspectors -> InspectorStates]
      /\ \A i \in Inspectors : inspectors'[i] = Installers!FreeInspector
  BY <1>1, FreeFacts
<1>5. Installers!TypeOK'
  <2>1. \A i \in Inspectors :
           /\ inspectors'[i].at \in {"free", "read", "verify", "again", "told"}
           /\ inspectors'[i].found \in Installers!Inspections
    BY <1>4, FreeFacts DEF InspectorStates
  <2> QED  BY <1>1, <1>2, <1>3, <2>1, FreeFacts DEF Installers!TypeOK
<1>6. \A i \in Inspectors : InspectionFits(inspectors[i])'
  BY <1>4, FreeFacts DEF InspectionFits
<1>7. AdmittedFits(inspected)' /\ Installers!NamedIsWhole'
  BY <1>1, FreeFacts DEF AdmittedFits, Installers!Admitted, Installers!NamedIsWhole
<1>8. \A p \in Installers!Paths : files'[p].stamp <= writes'
  BY <1>1 DEF InstallersInv
<1> QED  BY <1>3, <1>4, <1>5, <1>6, <1>7, <1>8 DEF InstallersInv

LEMMA UserFileKeepsInv ==
    ASSUME InstallersInv, Installers!FileChanges
    PROVE  InstallersInv'
<1> USE KeptFacts
<1>1. /\ writes < MaxWrites /\ writes' = writes + 1
      /\ UNCHANGED <<installersRunning, staging, leftover, refused, download, unvisited, executing,
                     held, chosen, selections, inspectors, inspected, said>>
  BY DEF Installers!FileChanges, Installers!draft
<1>2. PICK path \in Elsewhere, body \in Installers!Whole :
          files' = [files EXCEPT ![path] = [body |-> body, stamp |-> writes + 1]]
  BY DEF Installers!FileChanges
<1>3. writes' \in 0 .. MaxWrites /\ writes <= writes' /\ writes + 1 \in 0 .. MaxWrites
  BY <1>1, FileFacts
<1>4. PICK new : new = [body |-> body, stamp |-> writes + 1]
  OBVIOUS
<1>5. new \in Installers!Files /\ new.stamp = writes + 1 /\ new.body # Truncated
  BY <1>3, <1>4, FileFacts
<1>6. /\ files' = [files EXCEPT ![path] = new]
      /\ path \in Installers!Paths
  BY <1>2, <1>4 DEF Installers!Paths
<1>7. /\ files' \in [Installers!Paths -> Installers!Files]
      /\ \A p \in Installers!Paths : files'[p] = files[p] \/ files'[p].stamp = writes + 1
  BY <1>5, <1>6
<1>8. \A n \in Names : files'[n].body # Truncated
  BY <1>5, <1>6, FileFacts
<1>9. DownloadFits'
  BY <1>1 DEF DownloadFits
<1> QED  BY <1>1, <1>3, <1>7, <1>8, <1>9, FilesKeepInv

LEMMA InstallersInit == Installers!Init => InstallersInv
<1> SUFFICES ASSUME Installers!Init PROVE InstallersInv
  OBVIOUS
<1>1. /\ installersRunning = TRUE /\ held = FALSE /\ writes = 0 /\ selections = 0
      /\ download = [at |-> "idle", name |-> NoPath, body |-> NoInstaller]
      /\ unvisited = Installers!Entries /\ executing = {} /\ chosen = NoPath
      /\ leftover \subseteq Names /\ refused = {} /\ said = "other"
      /\ inspected = Installers!NoInspection
      /\ inspectors = [i \in Inspectors |-> Installers!FreeInspector]
      /\ staging = [n \in Names |-> NoInstaller]
  BY DEF Installers!Init, Installers!NoDownload
<1>2. /\ files \in [Installers!Paths -> Installers!Files]
      /\ \A p \in Installers!Paths : files[p].stamp = 0 /\ files[p].body # Truncated
  <2>1. files \in [Installers!Paths -> {Installers!NotThere}
                      \cup [body : Installers!Whole, stamp : {0}]]
    BY DEF Installers!Init
  <2>2. ASSUME NEW f \in {Installers!NotThere} \cup [body : Installers!Whole, stamp : {0}]
        PROVE  f \in Installers!Files /\ f.stamp = 0 /\ f.body # Truncated
    <3>1. CASE f = Installers!NotThere
      BY <3>1, FileFacts
    <3>2. CASE f \in [body : Installers!Whole, stamp : {0}]
      BY <3>2, FileFacts DEF Installers!Files
    <3> QED  BY <3>1, <3>2
  <2> QED  BY <2>1, <2>2
<1>3. /\ inspectors \in [Inspectors -> InspectorStates]
      /\ \A i \in Inspectors : inspectors[i] = Installers!FreeInspector
  BY <1>1, FreeFacts
<1>4. download \in Installers!Downloads /\ DownloadFits
  BY <1>1 DEF Installers!Downloads, DownloadFits
<1>5. Installers!TypeOK
  <2>1. \A i \in Inspectors :
           /\ inspectors[i].at \in {"free", "read", "verify", "again", "told"}
           /\ inspectors[i].found \in Installers!Inspections
    BY <1>3, FreeFacts DEF InspectorStates
  <2>2. writes \in 0 .. MaxWrites /\ selections \in 0 .. MaxSelections
    BY <1>1, FileFacts
  <2>3. staging \in [Names -> Installers!Contents \cup {NoInstaller}]
    BY <1>1
  <2> QED  BY <1>1, <1>2, <1>4, <2>1, <2>2, <2>3, FreeFacts DEF Installers!TypeOK
<1>6. \A i \in Inspectors : InspectionFits(inspectors[i])
  BY <1>3, FreeFacts DEF InspectionFits
<1>7. AdmittedFits(inspected) /\ Installers!NamedIsWhole
  BY <1>1, <1>2, FreeFacts, FileFacts DEF AdmittedFits, Installers!NamedIsWhole
<1>8. \A p \in Installers!Paths : files[p].stamp <= writes
  BY <1>1, <1>2
<1> QED  BY <1>3, <1>4, <1>5, <1>6, <1>7, <1>8 DEF InstallersInv

LEMMA InstallersStepKeepsInv ==
    InstallersInv /\ [Installers!Next]_installersVars => InstallersInv'
<1> SUFFICES ASSUME InstallersInv, [Installers!Next]_installersVars
             PROVE  InstallersInv'
  OBVIOUS
<1>1. CASE UNCHANGED installersVars
  <2>1. UNCHANGED <<installersRunning, files, staging, writes, download, unvisited,
                    executing, leftover, refused, chosen, selections, inspectors, inspected,
                    held, said>>
    BY <1>1 DEF installersVars
  <2>2. DownloadFits'
    BY <2>1 DEF InstallersInv, DownloadFits
  <2> QED  BY <2>1, <2>2, KeptFacts, AsideKeepsInv
<1>2. CASE Installers!Next
  BY <1>2, DownloadKeepsInv, RenameKeepsInv, SweepKeepsInv, StartKeepsInv, InspectKeepsInv,
     StubInspectedKeepsInv, ChoiceKeepsInv, StopKeepsInv, UserFileKeepsInv
     DEF Installers!Next, Installers!DownloadStep, Installers!InspectStep
<1> QED  BY <1>1, <1>2

\* An installer is admitted for the bytes it was trusted for, and the name a
\* download ends under holds a whole file (stub.rs:42-46,
\* installer_download.rs:164-183).
THEOREM InstallersStayWhole == PartsSpec => []InstallersAreWhole
<1> DEFINE Inv == part = "installers" => InstallersInv
<1>1. PartsInit => Inv
  BY InstallersInit DEF PartsInit
<1>2. Inv /\ [PartsNext]_partsVars => Inv'
  <2> SUFFICES ASSUME Inv, [PartsNext]_partsVars, part' = "installers"
               PROVE  InstallersInv'
    OBVIOUS
  <2>1. part = "installers" /\ [Installers!Next]_installersVars
    BY DEF PartsNext, partsVars, RecoveryStep, HistoryStep, LogStep, OwnLogStep,
           TraceStep, InstallersStep, Rest, Turn
  <2> QED  BY <2>1, InstallersStepKeepsInv
<1>3. Inv => InstallersAreWhole
  <2>1. InstallersInv => Installers!AdmittedSpeaksOfOneFile
    BY DEF InstallersInv, AdmittedFits, InspectionFits, Installers!AdmittedSpeaksOfOneFile
  <2> QED  BY <2>1 DEF InstallersInv, InstallersAreWhole
<1> QED  BY <1>1, <1>2, <1>3, PTL DEF PartsSpec

(***************************************************************************)
(* What the log and the history tell of an operation.                      *)
(*                                                                         *)
(* The invariant keeps four things apart: what the lines that are there    *)
(* say, what the entries say, what the thread knows of both where it is,   *)
(* and what the region and the record have behind them. Most steps only    *)
(* add lines that are neither an outcome nor an entry, and one lemma says  *)
(* what those leave alone.                                                 *)
(***************************************************************************)
Kinds == {"outcome", "entry", "exit"}

IsOf(kind, line) ==
    \/ kind = "outcome" /\ Trace!IsOutcome(line)
    \/ kind = "entry" /\ Trace!IsEntry(line)
    \/ kind = "exit" /\ Trace!IsExit(line)

Once(kind, lines) ==
    \A i, j \in DOMAIN lines :
        /\ lines[i].op = lines[j].op
        /\ IsOf(kind, lines[i]) /\ IsOf(kind, lines[j])
        => i = j

NoneOf(kind, o, lines) ==
    \A i \in DOMAIN lines : lines[i].op = o => ~IsOf(kind, lines[i])

Says(o, code, lines) ==
    \E i \in DOMAIN lines : lines[i].op = o /\ lines[i].code = code

Telling == {"telling", "appending", "appended", "notAppended"}
Recording == {"appending", "appended", "notAppended"}
Requesting == {"preparing", "saving", "writing", "readBack", "resolving", "measuring", "starting"}
PuttingBack == {"restoring", "milestone", "restored", "clearing"}

\* The lines: no outcome, entry or end of the backend of an operation twice, and
\* none of the one in hand before its flags say so.
LinesFit ==
    /\ \A i \in DOMAIN log : log[i].op <= op
    /\ \A kind \in Kinds : Once(kind, log)
    /\ ~told => NoneOf("outcome", op, log)
    /\ ~told \/ pc \in Recording => NoneOf("entry", op, log)
    /\ ~exitTold => NoneOf("exit", op, log)
    /\ told => Says(op, "finished", log)

\* The entries: one for an operation, of an outcome that the log told before.
EntriesFit ==
    /\ \A i \in DOMAIN journal : journal[i].op <= op
    /\ \A i, j \in DOMAIN journal : journal[i].op = journal[j].op => i = j
    /\ ~told \/ pc = "appending" => \A i \in DOMAIN journal : journal[i].op # op
    /\ pc = "appending" => \E j \in DOMAIN log :
           log[j].op = op /\ log[j].code = "finished" /\ log[j].what = result
    /\ pc = "appended" => \E i \in DOMAIN journal : journal[i].op = op
    /\ Trace!HistoryAgrees

\* What the place of the thread says of its flags, whatever failed on the way.
StepsFit ==
    /\ op = ids
    /\ pc \notin {"idle", "off"} => op # 0
    /\ pc \in Requesting => ~exitTold
    /\ pc = "preparing" => ~touched /\ ~told
    /\ pc \notin {"idle", "off", "preparing"} => touched
    /\ pc \in Recording \cup {"failing"} => told
    /\ pc \in Telling =>
           /\ then \in {"idle", "restoring", "clearing", "failing"} /\ result # "none"
           /\ then \in {"restoring", "clearing"} => purpose \in {"unwind", "stated"}
           /\ then = "clearing" => early
    /\ pc \in PuttingBack =>
           /\ purpose # "none" /\ (pc = "clearing" => purpose # "early")
           /\ purpose \in {"unwind", "stated"} => told
    /\ pc = "idle" /\ op # 0 /\ traceCrashes = 0 => (told <=> touched)

\* The temporary region has a record behind it, and the record a line.
RegionFits ==
    /\ region = "away" => record.op # 0 /\ record.state = "Unrestored"
    /\ record.op # 0 => Says(record.op, "recovery_record", log)
    /\ pc = "saving" => Says(op, "recovery_record", log)
    /\ pc = "writing" => record = [op |-> op, state |-> "Unrestored"]
    /\ pc \in {"milestone", "restored", "clearing"} \/ early => region # "away"
    /\ pc \in {"preparing", "saving", "writing"} => ~early


TraceInv == Trace!TypeOK /\ LinesFit /\ EntriesFit /\ StepsFit /\ RegionFits

LEMMA TraceConstants == MaxOps \in Nat /\ MaxPolls \in Nat /\ TraceCrashes \in Nat
BY PartsFit DEF Trace!TraceAssumption

\* What lines that are added to a log leave of what it says.
Plain(lines) == \A i \in DOMAIN lines : \A kind \in Kinds : ~IsOf(kind, lines[i])

LEMMA Joined ==
    ASSUME NEW L, NEW l \in Seq(L), NEW s \in Seq(L)
    PROVE  /\ l \o s \in Seq(L)
           /\ \A i \in DOMAIN l : i \in DOMAIN (l \o s) /\ (l \o s)[i] = l[i]
           /\ \A i \in DOMAIN s : Len(l) + i \in DOMAIN (l \o s) /\ (l \o s)[Len(l) + i] = s[i]
           /\ \A i \in DOMAIN (l \o s) :
                  \/ i \in DOMAIN l
                  \/ i > Len(l) /\ i - Len(l) \in DOMAIN s /\ (l \o s)[i] = s[i - Len(l)]
OBVIOUS

LEMMA JoinedSays ==
    ASSUME NEW L, NEW l \in Seq(L), NEW s \in Seq(L), NEW o, NEW code,
           Says(o, code, l) \/ Says(o, code, s)
    PROVE  Says(o, code, l \o s)
<1>1. CASE Says(o, code, l)
    <2>1. PICK i \in DOMAIN l : l[i].op = o /\ l[i].code = code
        BY <1>1 DEF Says
    <2>2. i \in DOMAIN (l \o s) /\ (l \o s)[i] = l[i]
        BY Joined
    <2> QED  BY <2>1, <2>2 DEF Says
<1>2. CASE Says(o, code, s)
    <2>1. PICK i \in DOMAIN s : s[i].op = o /\ s[i].code = code
        BY <1>2 DEF Says
    <2>2. Len(l) + i \in DOMAIN (l \o s) /\ (l \o s)[Len(l) + i] = s[i]
        BY Joined
    <2> QED  BY <2>1, <2>2 DEF Says
<1> QED  BY <1>1, <1>2

LEMMA JoinedNone ==
    ASSUME NEW L, NEW l \in Seq(L), NEW s \in Seq(L), NEW o, NEW kind,
           NoneOf(kind, o, l), NoneOf(kind, o, s)
    PROVE  NoneOf(kind, o, l \o s)
<1> SUFFICES ASSUME NEW i \in DOMAIN (l \o s), (l \o s)[i].op = o
             PROVE  ~IsOf(kind, (l \o s)[i])
    BY DEF NoneOf
<1>1. CASE i \in DOMAIN l
    BY <1>1, Joined DEF NoneOf
<1>2. CASE i - Len(l) \in DOMAIN s /\ (l \o s)[i] = s[i - Len(l)]
    BY <1>2 DEF NoneOf
<1> QED  BY <1>1, <1>2, Joined

LEMMA JoinedOnce ==
    ASSUME NEW L, NEW l \in Seq(L), NEW s \in Seq(L), NEW o, NEW kind,
           \A i \in DOMAIN s : s[i].op = o,
           Once(kind, l), Once(kind, s), NoneOf(kind, o, l) \/ NoneOf(kind, o, s)
    PROVE  Once(kind, l \o s)
<1> DEFINE both == l \o s
<1> SUFFICES ASSUME NEW i \in DOMAIN both, NEW j \in DOMAIN both,
                    both[i].op = both[j].op, IsOf(kind, both[i]), IsOf(kind, both[j])
             PROVE  i = j
    BY DEF Once
<1>1. CASE i \in DOMAIN l /\ j \in DOMAIN l
    BY <1>1, Joined DEF Once
<1>2. ASSUME NEW a \in DOMAIN both, NEW b \in DOMAIN both, a \in DOMAIN l, b \notin DOMAIN l,
             both[a].op = both[b].op, IsOf(kind, both[a]), IsOf(kind, both[b])
      PROVE  FALSE
    <2>1. both[a] = l[a] /\ b - Len(l) \in DOMAIN s /\ both[b] = s[b - Len(l)]
        BY <1>2, Joined
    <2> QED  BY <1>2, <2>1 DEF NoneOf
<1>3. CASE i \notin DOMAIN l /\ j \notin DOMAIN l
    <2>1. /\ i - Len(l) \in DOMAIN s /\ both[i] = s[i - Len(l)]
          /\ j - Len(l) \in DOMAIN s /\ both[j] = s[j - Len(l)]
        BY <1>3, Joined
    <2>2. i - Len(l) = j - Len(l)
        BY <2>1 DEF Once
    <2>3. i \in Int /\ j \in Int /\ Len(l) \in Int
        BY Joined
    <2> QED  BY <2>2, <2>3
<1> QED  BY <1>1, <1>2, <1>3

\* What a step adds to the log: lines of the operation in hand that are neither
\* its outcome nor its entry, and the end of its backend at most once.
Quiet(line) ==
    /\ line \in Trace!LogLines /\ line.op = op
    /\ line.code \notin {"finished", "entry"}

AddsTo(s, ends) ==
    /\ s \in Seq(Trace!LogLines) /\ log' = log \o s
    /\ \A i \in DOMAIN s : Quiet(s[i])
    /\ Once("exit", s) /\ (~ends => NoneOf("exit", op, s))

Adds(ends) == \E s : AddsTo(s, ends)

LEMMA AddsNothing ==
    ASSUME log \in Seq(Trace!LogLines), log' = log, NEW ends
    PROVE  Adds(ends)
<1>1. log' = log \o <<>> /\ <<>> \in Seq(Trace!LogLines)
    OBVIOUS
<1>2. AddsTo(<<>>, ends)
    BY <1>1 DEF AddsTo, Once, NoneOf
<1> QED  BY <1>2 DEF Adds

LEMMA AddsOne ==
    ASSUME NEW line, Quiet(line), log' = Append(log, line), log \in Seq(Trace!LogLines),
           NEW ends \in BOOLEAN, ends \/ ~Trace!IsExit(line)
    PROVE  Adds(ends)
<1> DEFINE s == <<line>>
<1>1. s \in Seq(Trace!LogLines) /\ log' = log \o s
    BY DEF Quiet
<1>2. DOMAIN s = {1} /\ s[1] = line
    OBVIOUS
<1>3. AddsTo(s, ends)
    BY <1>1, <1>2 DEF AddsTo, Once, NoneOf, IsOf
<1> QED  BY <1>3 DEF Adds

LEMMA AddsTwo ==
    ASSUME NEW first, NEW second, Quiet(first), Quiet(second), log' = log \o <<first, second>>,
           log \in Seq(Trace!LogLines),
           ~Trace!IsExit(second), NEW ends \in BOOLEAN, ends \/ ~Trace!IsExit(first)
    PROVE  Adds(ends)
<1> DEFINE s == <<first, second>>
<1>1. s \in Seq(Trace!LogLines) /\ log' = log \o s
    BY DEF Quiet
<1>2. DOMAIN s = {1, 2} /\ s[1] = first /\ s[2] = second
    OBVIOUS
<1>3. AddsTo(s, ends)
    BY <1>1, <1>2 DEF AddsTo, Once, NoneOf, IsOf
<1> QED  BY <1>3 DEF Adds

LEMMA LinesGrow ==
    ASSUME TraceInv, NEW ends \in BOOLEAN, Adds(ends), op' = op, journal' = journal, told' = told,
           exitTold' = (exitTold \/ ends), ends => ~exitTold, pc' \notin Recording
    PROVE  /\ LinesFit' /\ EntriesFit' /\ (log \in Seq(Trace!LogLines))'
           /\ \A o, code : Says(o, code, log) => Says(o, code, log')
<1>1. PICK s : AddsTo(s, ends)
    BY DEF Adds
<1>2. log \in Seq(Trace!LogLines) /\ s \in Seq(Trace!LogLines) /\ log' = log \o s
    BY <1>1 DEF TraceInv, Trace!TypeOK, AddsTo
<1>3. (log \in Seq(Trace!LogLines))'
    BY <1>2, Joined
<1>4. \A o, code : Says(o, code, log) => Says(o, code, log')
    BY <1>2, JoinedSays
<1>5. /\ \A i \in DOMAIN s : s[i].op = op
      /\ NoneOf("outcome", op, s) /\ NoneOf("entry", op, s)
      /\ Once("outcome", s) /\ Once("entry", s)
    BY <1>1 DEF AddsTo, Quiet, NoneOf, Once, IsOf, Trace!IsOutcome, Trace!IsEntry
<1>6. Once("exit", s) /\ (~ends => NoneOf("exit", op, s)) /\ (ends => NoneOf("exit", op, log))
    BY <1>1 DEF AddsTo, TraceInv, LinesFit
<1>7. \A kind \in Kinds : Once(kind, log')
    <2>1. Once("outcome", log) /\ Once("entry", log) /\ Once("exit", log)
        BY DEF TraceInv, LinesFit, Kinds
    <2>2. Once("outcome", log')
        BY <1>2, <1>5, <2>1, JoinedOnce
    <2>3. Once("entry", log')
        BY <1>2, <1>5, <2>1, JoinedOnce
    <2>4. NoneOf("exit", op, log) \/ NoneOf("exit", op, s)
        BY <1>6
    <2>5. Once("exit", log')
        BY <1>2, <1>5, <1>6, <2>1, <2>4, JoinedOnce
    <2> QED  BY <2>2, <2>3, <2>5 DEF Kinds
<1>8. \A i \in DOMAIN log' : log'[i].op <= op'
    <2> SUFFICES ASSUME NEW i \in DOMAIN (log \o s)
                 PROVE  (log \o s)[i].op <= op
        BY <1>2
    <2>1. CASE i \in DOMAIN log
        BY <1>2, <2>1, Joined DEF TraceInv, LinesFit
    <2>2. CASE i - Len(log) \in DOMAIN s /\ (log \o s)[i] = s[i - Len(log)]
        <3>1. (log \o s)[i].op = op /\ op \in Int
            BY <1>5, <2>2, TraceConstants DEF TraceInv, Trace!TypeOK
        <3> QED  BY <3>1
    <2> QED  BY <1>2, <2>1, <2>2, Joined
<1>9. /\ NoneOf("outcome", op, log) => NoneOf("outcome", op, log')
      /\ NoneOf("entry", op, log) => NoneOf("entry", op, log')
      /\ NoneOf("exit", op, log) /\ ~ends => NoneOf("exit", op, log')
    BY <1>2, <1>5, <1>6, JoinedNone
<1>10. LinesFit'
    <2>1. /\ ~told' => NoneOf("outcome", op', log')
          /\ ~told' \/ pc' \in Recording => NoneOf("entry", op', log')
          /\ ~exitTold' => NoneOf("exit", op', log')
          /\ told' => Says(op', "finished", log')
        BY <1>4, <1>9 DEF TraceInv, LinesFit
    <2> QED  BY <1>7, <1>8, <2>1 DEF LinesFit
<1>11. EntriesFit'
    <2>1. Trace!HistoryAgrees'
        <3>1. \A i \in DOMAIN journal : \E j \in DOMAIN log' :
                 log'[j].op = journal[i].op /\ log'[j].code = "finished"
                 /\ log'[j].what = journal[i].result
            <4> SUFFICES ASSUME NEW i \in DOMAIN journal
                         PROVE  \E j \in DOMAIN log' :
                                   log'[j].op = journal[i].op /\ log'[j].code = "finished"
                                   /\ log'[j].what = journal[i].result
                OBVIOUS
            <4>1. PICK j \in DOMAIN log :
                     log[j].op = journal[i].op /\ log[j].code = "finished"
                     /\ log[j].what = journal[i].result
                BY DEF TraceInv, EntriesFit, Trace!HistoryAgrees
            <4>2. j \in DOMAIN log' /\ log'[j] = log[j]
                BY <1>2, Joined
            <4> QED  BY <4>1, <4>2
        <3>2. ASSUME NEW j \in DOMAIN (log \o s), (log \o s)[j].code = "entry",
                     (log \o s)[j].what = "written"
              PROVE  \E i \in DOMAIN journal : journal[i].op = (log \o s)[j].op
            <4>1. CASE j \in DOMAIN log
                BY <1>2, <3>2, <4>1, Joined DEF TraceInv, EntriesFit, Trace!HistoryAgrees
            <4>2. CASE j - Len(log) \in DOMAIN s /\ (log \o s)[j] = s[j - Len(log)]
                BY <1>1, <3>2, <4>2 DEF AddsTo, Quiet
            <4> QED  BY <1>2, <4>1, <4>2, Joined
        <3> QED  BY <1>2, <3>1, <3>2 DEF Trace!HistoryAgrees
    <2>2. pc' # "appending" /\ pc' # "appended"
        BY DEF Recording
    <2> QED  BY <2>1, <2>2 DEF TraceInv, EntriesFit
<1> QED  BY <1>3, <1>4, <1>10, <1>11

AddsQuietly == \A ends \in BOOLEAN : Adds(ends)
AddsAnEnd == \E ends \in BOOLEAN : ends /\ Adds(ends)

LinesMoveOn ==
    /\ LinesFit' /\ EntriesFit' /\ (log \in Seq(Trace!LogLines))'
    /\ \A o, code : Says(o, code, log) => Says(o, code, log')

LEMMA QuietGrow ==
    TraceInv /\ AddsQuietly /\ UNCHANGED <<op, journal, told, exitTold>> /\ pc' \notin Recording
        => LinesMoveOn
<1> SUFFICES ASSUME TraceInv, AddsQuietly, UNCHANGED <<op, journal, told, exitTold>>,
                    pc' \notin Recording
             PROVE  LinesMoveOn
    OBVIOUS
<1>1. PICK ends \in BOOLEAN : ~ends
    OBVIOUS
<1>2. Adds(ends)
    BY DEF AddsQuietly
<1>3. exitTold' = (exitTold \/ ends)
    BY <1>1 DEF TraceInv, Trace!TypeOK
<1> QED  BY <1>1, <1>2, <1>3, LinesGrow DEF LinesMoveOn

LEMMA EndGrow ==
    TraceInv /\ AddsAnEnd /\ UNCHANGED <<op, journal, told>> /\ ~exitTold /\ exitTold' = TRUE
    /\ pc' \notin Recording
        => LinesMoveOn
<1> SUFFICES ASSUME TraceInv, AddsAnEnd, UNCHANGED <<op, journal, told>>,
                    ~exitTold, exitTold' = TRUE, pc' \notin Recording
             PROVE  LinesMoveOn
    OBVIOUS
<1>1. PICK ends \in BOOLEAN : ends /\ Adds(ends)
    BY DEF AddsAnEnd
<1>2. exitTold' = (exitTold \/ ends)
    BY <1>1
<1> QED  BY <1>1, <1>2, LinesGrow DEF LinesMoveOn

Whats == {"written", "failed", "switched", "preserved", "conflict", "resolved", "not_resolved",
          "saved", "not_saved", "none", "accepted", "refused", "finished", "installing",
          "completed", "uncertain", "restored"}

LEMMA QuietLine ==
    ASSUME TraceInv, pc \notin {"idle", "off"}, NEW code, NEW what \in Whats,
           code \in Trace!Codes \ {"started", "finished", "entry"}
    PROVE  /\ Quiet(Trace!Line(code, what))
           /\ code # "backend" \/ what = "accepted" => ~Trace!IsExit(Trace!Line(code, what))
<1>1. op \in Trace!Ops
    BY TraceConstants DEF TraceInv, StepsFit, Trace!TypeOK, Trace!Ops
<1>2. Trace!Line(code, what) \in Trace!LogLines
    BY <1>1 DEF Trace!LogLines, Trace!Line, Whats
<1> QED  BY <1>2 DEF Quiet, Trace!Line, Trace!Codes, Trace!IsExit

LEMMA QuietAdds ==
    ASSUME log \in Seq(Trace!LogLines)
    PROVE  /\ log' = log => AddsQuietly
           /\ \A line : /\ Quiet(line) /\ ~Trace!IsExit(line) /\ log' = Append(log, line)
                            => AddsQuietly
                        /\ Quiet(line) /\ log' = Append(log, line) => AddsAnEnd
           /\ \A first, second :
                  Quiet(first) /\ Quiet(second) /\ ~Trace!IsExit(second)
                  /\ log' = log \o <<first, second>>
                      => AddsAnEnd /\ (~Trace!IsExit(first) => AddsQuietly)
<1>2. PICK yes \in BOOLEAN : yes
    OBVIOUS
<1>3. log' = log => AddsQuietly
    BY AddsNothing DEF AddsQuietly
<1>4. ASSUME NEW line, Quiet(line), log' = Append(log, line)
      PROVE  (~Trace!IsExit(line) => AddsQuietly) /\ AddsAnEnd
    <2>1. ~Trace!IsExit(line) => AddsQuietly
        BY <1>4, AddsOne DEF AddsQuietly
    <2>2. Adds(yes)
        BY <1>2, <1>4, AddsOne
    <2> QED  BY <1>2, <2>1, <2>2 DEF AddsAnEnd
<1>5. ASSUME NEW first, NEW second, Quiet(first), Quiet(second), ~Trace!IsExit(second),
             log' = log \o <<first, second>>
      PROVE  (~Trace!IsExit(first) => AddsQuietly) /\ AddsAnEnd
    <2>1. ~Trace!IsExit(first) => AddsQuietly
        BY <1>5, AddsTwo DEF AddsQuietly
    <2>2. Adds(yes)
        BY <1>2, <1>5, AddsTwo
    <2> QED  BY <1>2, <2>1, <2>2 DEF AddsAnEnd
<1> QED  BY <1>3, <1>4, <1>5

\* What a failure leaves in the log and where it takes the thread.
LEMMA FailAdds ==
    ASSUME TraceInv, pc \notin {"idle", "off"}, NEW next
    PROVE  /\ Trace!Fail(<<>>, next) => AddsQuietly
           /\ \A line : Trace!Fail(<<line>>, next) /\ Quiet(line) =>
                  AddsAnEnd /\ (~Trace!IsExit(line) => AddsQuietly)
<1>1. Quiet(Trace!DiagnosticLine) /\ ~Trace!IsExit(Trace!DiagnosticLine)
    BY QuietLine DEF Trace!DiagnosticLine, Whats, Trace!Codes
<1>2. log \in Seq(Trace!LogLines) /\ Trace!DiagnosticLine \in Trace!LogLines
    BY <1>1 DEF TraceInv, Trace!TypeOK, Quiet
<1>3. log \o <<>> \o <<Trace!DiagnosticLine>> = Append(log, Trace!DiagnosticLine)
    BY <1>2
<1>4. ASSUME NEW line, Quiet(line)
      PROVE  log \o <<line>> \o <<Trace!DiagnosticLine>> = log \o <<line, Trace!DiagnosticLine>>
    BY <1>2, <1>4 DEF Quiet
<1> QED  BY <1>1, <1>2, <1>3, <1>4, QuietAdds DEF Trace!Fail






\* The steps, one by one.

LEMMA FailTells ==
    ASSUME TraceInv, pc \notin {"idle", "off", "preparing"}, NEW lines, NEW next
    PROVE  Trace!Fail(lines, next) =>
              /\ pc' = "telling" /\ then' = next /\ result' = "Failed" /\ touched
              /\ UNCHANGED <<op, touched, early, seen>>
BY DEF TraceInv, StepsFit, Trace!Fail

LEMMA PrepareFailsKeeps == TraceInv /\ Trace!PrepareFails => TraceInv'
<1> SUFFICES ASSUME TraceInv, Trace!PrepareFails
             PROVE  TraceInv'
    OBVIOUS
<1>1. AddsQuietly
    BY FailAdds DEF Trace!PrepareFails
<1>2. LinesMoveOn
    BY <1>1, QuietGrow DEF TraceInv, Trace!TypeOK, LinesFit, StepsFit, Requesting, Recording,
       Telling, PuttingBack, Trace!PrepareFails, Trace!Fail
<1>3. Trace!TypeOK'
    BY <1>2, TraceConstants DEF LinesMoveOn, TraceInv, Trace!TypeOK, Trace!PrepareFails, StepsFit,
       PuttingBack, Trace!Results, Trace!Ops, Trace!bounds, Trace!Fail
<1>4. StepsFit'
    BY DEF TraceInv, Trace!TypeOK, StepsFit, Requesting, Recording, Telling, PuttingBack,
       Trace!bounds, Trace!PrepareFails, Trace!Fail
<1>5. RegionFits'
    BY <1>2 DEF LinesMoveOn, TraceInv, Trace!TypeOK, StepsFit, RegionFits, PuttingBack,
       Trace!NoRecord, Trace!PrepareFails, Trace!Fail
<1> QED  BY <1>2, <1>3, <1>4, <1>5 DEF TraceInv, LinesMoveOn

LEMMA PrepareKeeps == TraceInv /\ Trace!Prepare => TraceInv'
<1> SUFFICES ASSUME TraceInv, Trace!Prepare
             PROVE  TraceInv'
    OBVIOUS
<1>1. AddsQuietly
    <2>1. Quiet(Trace!RecordLine) /\ ~Trace!IsExit(Trace!RecordLine)
        BY QuietLine DEF Trace!Prepare, Trace!RecordLine, Whats, Trace!Codes
    <2> QED  BY <2>1, QuietAdds DEF TraceInv, Trace!TypeOK, Trace!Prepare, Trace!Logs
<1>2. LinesMoveOn
    BY <1>1, QuietGrow DEF TraceInv, Trace!TypeOK, LinesFit, StepsFit, Requesting, Recording,
       Telling, PuttingBack, Trace!Prepare, Trace!Logs
<1>3. Trace!TypeOK'
    BY <1>2, TraceConstants DEF LinesMoveOn, TraceInv, Trace!TypeOK, Trace!Prepare, StepsFit,
       PuttingBack, Trace!Results, Trace!Ops, Trace!bounds, Trace!Logs
<1>4. StepsFit'
    BY DEF TraceInv, Trace!TypeOK, StepsFit, Requesting, Recording, Telling, PuttingBack,
       Trace!bounds, Trace!Prepare, Trace!Logs
<1>5. Says(op, "recovery_record", log')
    <2>1. log \in Seq(Trace!LogLines) /\ log' = Append(log, Trace!RecordLine)
        BY DEF TraceInv, Trace!TypeOK, Trace!Prepare, Trace!Logs
    <2>2. Len(log) + 1 \in DOMAIN log' /\ log'[Len(log) + 1] = Trace!RecordLine
        BY <2>1
    <2>3. Trace!RecordLine.op = op /\ Trace!RecordLine.code = "recovery_record"
        BY DEF Trace!RecordLine, Trace!Line
    <2> QED  BY <2>2, <2>3 DEF Says
<1>6. RegionFits'
    BY <1>2, <1>5 DEF LinesMoveOn, TraceInv, Trace!TypeOK, StepsFit, RegionFits, PuttingBack,
       Trace!NoRecord, Trace!Prepare, Trace!Logs
<1> QED  BY <1>2, <1>3, <1>4, <1>6 DEF TraceInv, LinesMoveOn

LEMMA SaveFailsKeeps == TraceInv /\ Trace!SaveFails => TraceInv'
<1> SUFFICES ASSUME TraceInv, Trace!SaveFails
             PROVE  TraceInv'
    OBVIOUS
<1>1. AddsQuietly
    <2>1. Quiet(Trace!SwitchLine("failed")) /\ ~Trace!IsExit(Trace!SwitchLine("failed"))
        BY QuietLine DEF Trace!SaveFails, Trace!SwitchLine, Whats, Trace!Codes
    <2> QED  BY <2>1, FailAdds DEF Trace!SaveFails
<1>2. /\ pc \notin {"idle", "off", "preparing"}
      /\ pc' = "telling" /\ result' = "Failed" /\ touched
      /\ UNCHANGED <<op, touched, early, seen, region, journal, told, ids, traceCrashes, moved>>
      /\ then' = "idle"
      /\ UNCHANGED <<purpose, exitTold, running, polls>>
      /\ \/ UNCHANGED <<record, tracePublished>>
         \/ /\ record' = [op |-> op, state |-> "Unrestored"]
            /\ tracePublished' = tracePublished \cup {op}
    BY FailTells DEF Trace!SaveFails, Trace!Publish, Trace!bounds
<1>3. LinesMoveOn
    BY <1>1, <1>2, QuietGrow DEF TraceInv, StepsFit, Requesting, Recording, Trace!TypeOK
<1>4. Trace!TypeOK'
    <2>1. op \in 1 .. MaxOps /\ op \in 0 .. MaxOps
        BY <1>2, TraceConstants DEF TraceInv, StepsFit, Trace!TypeOK
    <2>2. /\ (record \in [op: 0 .. MaxOps,
                          state: {"none", "Unrestored", "RegionRestoredEarly", "Restored"}])'
          /\ (tracePublished \subseteq Trace!Ops)'
        <3>1. CASE UNCHANGED <<record, tracePublished>>
            BY <3>1 DEF TraceInv, Trace!TypeOK
        <3>2. CASE /\ record' = [op |-> op, state |-> "Unrestored"]
                   /\ tracePublished' = tracePublished \cup {op}
            BY <2>1, <3>2 DEF TraceInv, Trace!TypeOK, Trace!Ops
        <3> QED  BY <1>2, <3>1, <3>2
    <2> QED  BY <1>2, <1>3, <2>2, TraceConstants DEF LinesMoveOn, TraceInv, Trace!TypeOK,
                Trace!Results
<1>5. StepsFit'
    BY <1>2 DEF TraceInv, StepsFit, Requesting, Recording, Telling, PuttingBack
<1>6. RegionFits'
    BY <1>2, <1>3 DEF LinesMoveOn, TraceInv, StepsFit, RegionFits, Trace!SaveFails
<1> QED  BY <1>3, <1>4, <1>5, <1>6 DEF TraceInv, LinesMoveOn

LEMMA SaveKeeps == TraceInv /\ Trace!Save => TraceInv'
<1> SUFFICES ASSUME TraceInv, Trace!Save
             PROVE  TraceInv'
    OBVIOUS
<1>1. AddsQuietly
    BY QuietAdds DEF TraceInv, Trace!TypeOK, Trace!Save, Trace!Publish
<1>2. LinesMoveOn
    BY <1>1, QuietGrow DEF TraceInv, Trace!TypeOK, LinesFit, StepsFit, Requesting, Recording,
       Telling, PuttingBack, Trace!Save, Trace!Publish
<1>3. Trace!TypeOK'
    BY <1>2, TraceConstants DEF LinesMoveOn, TraceInv, Trace!TypeOK, Trace!Save, Trace!Publish, StepsFit,
       PuttingBack, Trace!Results, Trace!Ops, Trace!bounds
<1>4. StepsFit'
    BY DEF TraceInv, Trace!TypeOK, StepsFit, Requesting, Recording, Telling, PuttingBack,
       Trace!bounds, Trace!Save, Trace!Publish
<1>5. RegionFits'
    BY <1>2 DEF LinesMoveOn, TraceInv, Trace!TypeOK, StepsFit, RegionFits, PuttingBack,
       Trace!NoRecord, Trace!Save, Trace!Publish
<1> QED  BY <1>2, <1>3, <1>4, <1>5 DEF TraceInv, LinesMoveOn

LEMMA WriteKeeps == TraceInv /\ Trace!Write => TraceInv'
<1> SUFFICES ASSUME TraceInv, Trace!Write
             PROVE  TraceInv'
    OBVIOUS
<1>1. AddsQuietly
    BY QuietAdds DEF TraceInv, Trace!TypeOK, Trace!Write
<1>2. LinesMoveOn
    BY <1>1, QuietGrow DEF TraceInv, Trace!TypeOK, LinesFit, StepsFit, Requesting, Recording,
       Telling, PuttingBack, Trace!Write
<1>3. Trace!TypeOK'
    BY <1>2, TraceConstants DEF LinesMoveOn, TraceInv, Trace!TypeOK, Trace!Write, StepsFit,
       PuttingBack, Trace!Results, Trace!Ops, Trace!bounds
<1>4. StepsFit'
    BY DEF TraceInv, Trace!TypeOK, StepsFit, Requesting, Recording, Telling, PuttingBack,
       Trace!bounds, Trace!Write
<1>5. RegionFits'
    BY <1>2 DEF LinesMoveOn, TraceInv, Trace!TypeOK, StepsFit, RegionFits, PuttingBack,
       Trace!NoRecord, Trace!Write
<1> QED  BY <1>2, <1>3, <1>4, <1>5 DEF TraceInv, LinesMoveOn

LEMMA ReadBackFailsKeeps == TraceInv /\ Trace!ReadBackFails => TraceInv'
<1> SUFFICES ASSUME TraceInv, Trace!ReadBackFails
             PROVE  TraceInv'
    OBVIOUS
<1>1. AddsQuietly
    <2>1. Quiet(Trace!SwitchLine("failed")) /\ ~Trace!IsExit(Trace!SwitchLine("failed"))
        BY QuietLine DEF Trace!ReadBackFails, Trace!SwitchLine, Whats, Trace!Codes
    <2> QED  BY <2>1, QuietAdds DEF TraceInv, Trace!TypeOK, Trace!ReadBackFails, Trace!Logs
<1>2. LinesMoveOn
    BY <1>1, QuietGrow DEF TraceInv, Trace!TypeOK, LinesFit, StepsFit, Requesting, Recording,
       Telling, PuttingBack, Trace!ReadBackFails, Trace!Logs
<1>3. Trace!TypeOK'
    BY <1>2, TraceConstants DEF LinesMoveOn, TraceInv, Trace!TypeOK, Trace!ReadBackFails,
       StepsFit, PuttingBack, Trace!Results, Trace!Ops, Trace!bounds, Trace!Logs
<1>4. StepsFit'
    BY DEF TraceInv, Trace!TypeOK, StepsFit, Requesting, Recording, Telling, PuttingBack,
       Trace!bounds, Trace!ReadBackFails, Trace!Logs
<1>5. RegionFits'
    BY <1>2 DEF LinesMoveOn, TraceInv, Trace!TypeOK, StepsFit, RegionFits, PuttingBack,
       Trace!NoRecord, Trace!ReadBackFails, Trace!Logs
<1> QED  BY <1>2, <1>3, <1>4, <1>5 DEF TraceInv, LinesMoveOn

LEMMA SwitchedKeeps == TraceInv /\ Trace!Switched => TraceInv'
<1> SUFFICES ASSUME TraceInv, Trace!Switched
             PROVE  TraceInv'
    OBVIOUS
<1>1. AddsQuietly
    <2>1. Quiet(Trace!SwitchLine("switched")) /\ ~Trace!IsExit(Trace!SwitchLine("switched"))
        BY QuietLine DEF Trace!Switched, Trace!SwitchLine, Whats, Trace!Codes
    <2> QED  BY <2>1, QuietAdds DEF TraceInv, Trace!TypeOK, Trace!Switched, Trace!Logs
<1>2. LinesMoveOn
    BY <1>1, QuietGrow DEF TraceInv, Trace!TypeOK, LinesFit, StepsFit, Requesting, Recording,
       Telling, PuttingBack, Trace!Switched, Trace!Logs
<1>3. Trace!TypeOK'
    BY <1>2, TraceConstants DEF LinesMoveOn, TraceInv, Trace!TypeOK, Trace!Switched, StepsFit,
       PuttingBack, Trace!Results, Trace!Ops, Trace!bounds, Trace!Logs
<1>4. StepsFit'
    BY DEF TraceInv, Trace!TypeOK, StepsFit, Requesting, Recording, Telling, PuttingBack,
       Trace!bounds, Trace!Switched, Trace!Logs
<1>5. RegionFits'
    BY <1>2 DEF LinesMoveOn, TraceInv, Trace!TypeOK, StepsFit, RegionFits, PuttingBack,
       Trace!NoRecord, Trace!Switched, Trace!Logs
<1> QED  BY <1>2, <1>3, <1>4, <1>5 DEF TraceInv, LinesMoveOn

LEMMA NotSwitchedKeeps == TraceInv /\ Trace!NotSwitched => TraceInv'
<1> SUFFICES ASSUME TraceInv, Trace!NotSwitched
             PROVE  TraceInv'
    OBVIOUS
<1>1. AddsQuietly
    <2>1. Quiet(Trace!SwitchLine("preserved")) /\ ~Trace!IsExit(Trace!SwitchLine("preserved")) /\ Quiet(Trace!SwitchLine("failed")) /\ ~Trace!IsExit(Trace!SwitchLine("failed")) /\ Quiet(Trace!SwitchLine("conflict")) /\ ~Trace!IsExit(Trace!SwitchLine("conflict"))
        BY QuietLine DEF Trace!NotSwitched, Trace!SwitchLine, Whats, Trace!Codes
    <2> QED  BY <2>1, FailAdds DEF Trace!NotSwitched
<1>2. /\ pc \notin {"idle", "off", "preparing"}
      /\ pc' = "telling" /\ result' = "Failed" /\ touched
      /\ UNCHANGED <<op, touched, early, seen, region, journal, told, tracePublished, ids, traceCrashes, moved>>
      /\ then' = "idle" /\ region # "away"
      /\ record' = record \/ record' = [op |-> 0, state |-> "none"]
      /\ UNCHANGED <<purpose, exitTold, running, polls>>
    BY FailTells DEF Trace!NotSwitched, Trace!bounds, Trace!NoRecord
<1>3. LinesMoveOn
    BY <1>1, <1>2, QuietGrow DEF TraceInv, StepsFit, Requesting, Recording, Trace!TypeOK
<1>4. Trace!TypeOK'
    BY <1>2, <1>3, TraceConstants DEF LinesMoveOn, TraceInv, Trace!TypeOK, Trace!Results, Trace!Poll
<1>5. StepsFit'
    BY <1>2 DEF TraceInv, StepsFit, Requesting, Recording, Telling, PuttingBack
<1>6. RegionFits'
    BY <1>2, <1>3 DEF LinesMoveOn, TraceInv, RegionFits
<1> QED  BY <1>3, <1>4, <1>5, <1>6 DEF TraceInv, LinesMoveOn

LEMMA NotResolvedKeeps == TraceInv /\ Trace!NotResolved => TraceInv'
<1> SUFFICES ASSUME TraceInv, Trace!NotResolved
             PROVE  TraceInv'
    OBVIOUS
<1>1. AddsQuietly
    <2>1. Quiet(Trace!ProductLine("not_resolved")) /\ ~Trace!IsExit(Trace!ProductLine("not_resolved")) /\ Quiet(Trace!ProductLine("resolved")) /\ ~Trace!IsExit(Trace!ProductLine("resolved"))
        BY QuietLine DEF Trace!NotResolved, Trace!ProductLine, Whats, Trace!Codes
    <2> QED  BY <2>1, FailAdds DEF Trace!NotResolved, Trace!FailsAndUnwinds
<1>2. /\ pc \notin {"idle", "off", "preparing"}
      /\ pc' = "telling" /\ result' = "Failed" /\ touched
      /\ UNCHANGED <<op, touched, early, seen, region, journal, told, tracePublished, ids, traceCrashes, moved>>
      /\ then' = "restoring" /\ purpose' = "unwind"
      /\ UNCHANGED <<record, exitTold, running, polls>>
    BY FailTells DEF Trace!NotResolved, Trace!bounds, Trace!FailsAndUnwinds
<1>3. LinesMoveOn
    BY <1>1, <1>2, QuietGrow DEF TraceInv, StepsFit, Requesting, Recording, Trace!TypeOK
<1>4. Trace!TypeOK'
    BY <1>2, <1>3, TraceConstants DEF LinesMoveOn, TraceInv, Trace!TypeOK, Trace!Results, Trace!Poll
<1>5. StepsFit'
    BY <1>2 DEF TraceInv, StepsFit, Requesting, Recording, Telling, PuttingBack
<1>6. RegionFits'
    BY <1>2, <1>3 DEF LinesMoveOn, TraceInv, RegionFits
<1> QED  BY <1>3, <1>4, <1>5, <1>6 DEF TraceInv, LinesMoveOn

LEMMA ResolveKeeps == TraceInv /\ Trace!Resolve => TraceInv'
<1> SUFFICES ASSUME TraceInv, Trace!Resolve
             PROVE  TraceInv'
    OBVIOUS
<1>1. AddsQuietly
    <2>1. /\ Quiet(Trace!ProductLine("resolved")) /\ ~Trace!IsExit(Trace!ProductLine("resolved"))
          /\ \A saved \in {"saved", "not_saved"} :
                Quiet(Trace!IdentityLine(saved)) /\ ~Trace!IsExit(Trace!IdentityLine(saved))
        BY QuietLine DEF Trace!Resolve, Trace!ProductLine, Trace!IdentityLine, Whats, Trace!Codes
    <2> QED  BY <2>1, QuietAdds DEF TraceInv, Trace!TypeOK, Trace!Resolve, Trace!Logs,
                Trace!LogsBoth
<1>2. LinesMoveOn
    BY <1>1, QuietGrow DEF TraceInv, Trace!TypeOK, LinesFit, StepsFit, Requesting, Recording,
       Telling, PuttingBack, Trace!Resolve
<1>3. Trace!TypeOK'
    BY <1>2, TraceConstants DEF LinesMoveOn, TraceInv, Trace!TypeOK, Trace!Resolve, StepsFit,
       PuttingBack, Trace!Results, Trace!Ops, Trace!bounds
<1>4. StepsFit'
    BY DEF TraceInv, Trace!TypeOK, StepsFit, Requesting, Recording, Telling, PuttingBack,
       Trace!bounds, Trace!Resolve
<1>5. RegionFits'
    BY <1>2 DEF LinesMoveOn, TraceInv, Trace!TypeOK, StepsFit, RegionFits, PuttingBack,
       Trace!NoRecord, Trace!Resolve
<1> QED  BY <1>2, <1>3, <1>4, <1>5 DEF TraceInv, LinesMoveOn

LEMMA AlreadyInstalledKeeps == TraceInv /\ Trace!AlreadyInstalled => TraceInv'
<1> SUFFICES ASSUME TraceInv, Trace!AlreadyInstalled
             PROVE  TraceInv'
    OBVIOUS
<1>1. AddsQuietly
    BY FailAdds DEF Trace!AlreadyInstalled, Trace!FailsAndUnwinds
<1>2. /\ pc \notin {"idle", "off", "preparing"}
      /\ pc' = "telling" /\ result' = "Failed" /\ touched
      /\ UNCHANGED <<op, touched, early, seen, region, journal, told, tracePublished, ids, traceCrashes, moved>>
      /\ then' = "restoring" /\ purpose' = "unwind"
      /\ UNCHANGED <<record, exitTold, running, polls>>
    BY FailTells DEF Trace!AlreadyInstalled, Trace!bounds, Trace!FailsAndUnwinds
<1>3. LinesMoveOn
    BY <1>1, <1>2, QuietGrow DEF TraceInv, StepsFit, Requesting, Recording, Trace!TypeOK
<1>4. Trace!TypeOK'
    BY <1>2, <1>3, TraceConstants DEF LinesMoveOn, TraceInv, Trace!TypeOK, Trace!Results, Trace!Poll
<1>5. StepsFit'
    BY <1>2 DEF TraceInv, StepsFit, Requesting, Recording, Telling, PuttingBack
<1>6. RegionFits'
    BY <1>2, <1>3 DEF LinesMoveOn, TraceInv, RegionFits
<1> QED  BY <1>3, <1>4, <1>5, <1>6 DEF TraceInv, LinesMoveOn

LEMMA SelectKeeps == TraceInv /\ Trace!Select => TraceInv'
<1> SUFFICES ASSUME TraceInv, Trace!Select
             PROVE  TraceInv'
    OBVIOUS
<1>1. AddsQuietly
    <2>1. Quiet(Trace!SelectedLine) /\ ~Trace!IsExit(Trace!SelectedLine)
        BY QuietLine DEF Trace!Select, Trace!SelectedLine, Whats, Trace!Codes
    <2> QED  BY <2>1, QuietAdds DEF TraceInv, Trace!TypeOK, Trace!Select, Trace!Logs
<1>2. LinesMoveOn
    BY <1>1, QuietGrow DEF TraceInv, Trace!TypeOK, LinesFit, StepsFit, Requesting, Recording,
       Telling, PuttingBack, Trace!Select, Trace!Logs
<1>3. Trace!TypeOK'
    BY <1>2, TraceConstants DEF LinesMoveOn, TraceInv, Trace!TypeOK, Trace!Select, StepsFit,
       PuttingBack, Trace!Results, Trace!Ops, Trace!bounds, Trace!Logs
<1>4. StepsFit'
    BY DEF TraceInv, Trace!TypeOK, StepsFit, Requesting, Recording, Telling, PuttingBack,
       Trace!bounds, Trace!Select, Trace!Logs
<1>5. RegionFits'
    BY <1>2 DEF LinesMoveOn, TraceInv, Trace!TypeOK, StepsFit, RegionFits, PuttingBack,
       Trace!NoRecord, Trace!Select, Trace!Logs
<1> QED  BY <1>2, <1>3, <1>4, <1>5 DEF TraceInv, LinesMoveOn

LEMMA RefusedKeeps == TraceInv /\ Trace!Refused => TraceInv'
<1> SUFFICES ASSUME TraceInv, Trace!Refused
             PROVE  TraceInv'
    OBVIOUS
<1>1. AddsAnEnd
    <2>1. Quiet(Trace!BackendLine("refused"))
        BY QuietLine DEF Trace!Refused, Trace!BackendLine, Whats, Trace!Codes
    <2> QED  BY <2>1, FailAdds DEF Trace!Refused, Trace!FailsAndUnwinds
<1>2. /\ pc \notin {"idle", "off", "preparing"}
      /\ pc' = "telling" /\ result' = "Failed" /\ touched
      /\ UNCHANGED <<op, touched, early, seen, region, journal, told, tracePublished, ids, traceCrashes, moved>>
      /\ then' = "restoring" /\ purpose' = "unwind"
      /\ UNCHANGED <<record, running, polls>> /\ ~exitTold /\ exitTold' = TRUE
    BY FailTells DEF TraceInv, StepsFit, Requesting, Trace!Refused, Trace!bounds,
       Trace!FailsAndUnwinds
<1>3. LinesMoveOn
    BY <1>1, <1>2, EndGrow DEF TraceInv, StepsFit, Requesting, Recording, Trace!TypeOK
<1>4. Trace!TypeOK'
    BY <1>2, <1>3, TraceConstants DEF LinesMoveOn, TraceInv, Trace!TypeOK, Trace!Results, Trace!Poll
<1>5. StepsFit'
    BY <1>2 DEF TraceInv, StepsFit, Requesting, Recording, Telling, PuttingBack
<1>6. RegionFits'
    BY <1>2, <1>3 DEF LinesMoveOn, TraceInv, RegionFits
<1> QED  BY <1>3, <1>4, <1>5, <1>6 DEF TraceInv, LinesMoveOn

LEMMA RequestedKeeps == TraceInv /\ Trace!Requested => TraceInv'
<1> SUFFICES ASSUME TraceInv, Trace!Requested
             PROVE  TraceInv'
    OBVIOUS
<1>1. AddsQuietly
    BY QuietAdds DEF TraceInv, Trace!TypeOK, Trace!Requested, Trace!thread
<1>2. LinesMoveOn
    BY <1>1, QuietGrow DEF TraceInv, Trace!TypeOK, LinesFit, StepsFit, Requesting, Recording,
       Telling, PuttingBack, Trace!Requested, Trace!thread
<1>3. Trace!TypeOK'
    BY <1>2, TraceConstants DEF LinesMoveOn, TraceInv, Trace!TypeOK, Trace!Requested, StepsFit,
       PuttingBack, Trace!Results, Trace!Ops, Trace!bounds, Trace!thread
<1>4. StepsFit'
    BY DEF TraceInv, Trace!TypeOK, StepsFit, Requesting, Recording, Telling, PuttingBack,
       Trace!bounds, Trace!Requested, Trace!thread
<1>5. RegionFits'
    BY <1>2 DEF LinesMoveOn, TraceInv, Trace!TypeOK, StepsFit, RegionFits, PuttingBack,
       Trace!NoRecord, Trace!Requested, Trace!thread
<1> QED  BY <1>2, <1>3, <1>4, <1>5 DEF TraceInv, LinesMoveOn

LEMMA AcceptedKeeps == TraceInv /\ Trace!Accepted => TraceInv'
<1> SUFFICES ASSUME TraceInv, Trace!Accepted
             PROVE  TraceInv'
    OBVIOUS
<1>1. AddsQuietly
    <2>1. Quiet(Trace!BackendLine("accepted")) /\ ~Trace!IsExit(Trace!BackendLine("accepted"))
        BY QuietLine DEF Trace!Accepted, Trace!BackendLine, Whats, Trace!Codes
    <2> QED  BY <2>1, QuietAdds DEF TraceInv, Trace!TypeOK, Trace!Accepted, Trace!Logs
<1>2. LinesMoveOn
    BY <1>1, QuietGrow DEF TraceInv, Trace!TypeOK, LinesFit, StepsFit, Requesting, Recording,
       Telling, PuttingBack, Trace!Accepted, Trace!Logs
<1>3. Trace!TypeOK'
    BY <1>2, TraceConstants DEF LinesMoveOn, TraceInv, Trace!TypeOK, Trace!Accepted, StepsFit,
       PuttingBack, Trace!Results, Trace!Ops, Trace!bounds, Trace!Logs
<1>4. StepsFit'
    BY DEF TraceInv, Trace!TypeOK, StepsFit, Requesting, Recording, Telling, PuttingBack,
       Trace!bounds, Trace!Accepted, Trace!Logs
<1>5. RegionFits'
    BY <1>2 DEF LinesMoveOn, TraceInv, Trace!TypeOK, StepsFit, RegionFits, PuttingBack,
       Trace!NoRecord, Trace!Accepted, Trace!Logs
<1> QED  BY <1>2, <1>3, <1>4, <1>5 DEF TraceInv, LinesMoveOn

LEMMA NotObservedKeeps == TraceInv /\ Trace!NotObserved => TraceInv'
<1> SUFFICES ASSUME TraceInv, Trace!NotObserved
             PROVE  TraceInv'
    OBVIOUS
<1>1. AddsQuietly
    BY FailAdds DEF Trace!NotObserved, Trace!Poll
<1>2. /\ pc \notin {"idle", "off", "preparing"}
      /\ pc' = "telling" /\ result' = "Failed" /\ touched
      /\ UNCHANGED <<op, touched, early, seen, region, journal, told, tracePublished, ids, traceCrashes, moved>>
      /\ then' = "idle" /\ polls < MaxPolls /\ polls' = polls + 1
      /\ UNCHANGED <<record, purpose, exitTold, running>>
    BY FailTells DEF Trace!NotObserved, Trace!bounds, Trace!Poll
<1>3. LinesMoveOn
    BY <1>1, <1>2, QuietGrow DEF TraceInv, StepsFit, Requesting, Recording, Trace!TypeOK
<1>4. Trace!TypeOK'
    BY <1>2, <1>3, TraceConstants DEF LinesMoveOn, TraceInv, Trace!TypeOK, Trace!Results, Trace!Poll
<1>5. StepsFit'
    BY <1>2 DEF TraceInv, StepsFit, Requesting, Recording, Telling, PuttingBack
<1>6. RegionFits'
    BY <1>2, <1>3 DEF LinesMoveOn, TraceInv, RegionFits
<1> QED  BY <1>3, <1>4, <1>5, <1>6 DEF TraceInv, LinesMoveOn

LEMMA KeepObservingKeeps == TraceInv /\ Trace!KeepObserving => TraceInv'
<1> SUFFICES ASSUME TraceInv, Trace!KeepObserving
             PROVE  TraceInv'
    OBVIOUS
<1>1. AddsQuietly
    BY QuietAdds DEF TraceInv, Trace!TypeOK, Trace!KeepObserving
<1>2. LinesMoveOn
    BY <1>1, QuietGrow DEF TraceInv, Trace!TypeOK, LinesFit, StepsFit, Requesting, Recording,
       Telling, PuttingBack, Trace!KeepObserving
<1>3. Trace!TypeOK'
    BY <1>2, TraceConstants DEF LinesMoveOn, TraceInv, Trace!TypeOK, Trace!KeepObserving,
       StepsFit, PuttingBack, Trace!Results, Trace!Ops, Trace!bounds
<1>4. StepsFit'
    BY DEF TraceInv, Trace!TypeOK, StepsFit, Requesting, Recording, Telling, PuttingBack,
       Trace!bounds, Trace!KeepObserving
<1>5. RegionFits'
    BY <1>2 DEF LinesMoveOn, TraceInv, Trace!TypeOK, StepsFit, RegionFits, PuttingBack,
       Trace!NoRecord, Trace!KeepObserving
<1> QED  BY <1>2, <1>3, <1>4, <1>5 DEF TraceInv, LinesMoveOn

LEMMA RestoreEarlyKeeps == TraceInv /\ Trace!RestoreEarly => TraceInv'
<1> SUFFICES ASSUME TraceInv, Trace!RestoreEarly
             PROVE  TraceInv'
    OBVIOUS
<1>1. AddsQuietly
    BY QuietAdds DEF TraceInv, Trace!TypeOK, Trace!RestoreEarly, Trace!Restores
<1>2. LinesMoveOn
    BY <1>1, QuietGrow DEF TraceInv, Trace!TypeOK, LinesFit, StepsFit, Requesting, Recording,
       Telling, PuttingBack, Trace!RestoreEarly, Trace!Restores
<1>3. Trace!TypeOK'
    BY <1>2, TraceConstants DEF LinesMoveOn, TraceInv, Trace!TypeOK, Trace!RestoreEarly, StepsFit,
       PuttingBack, Trace!Results, Trace!Ops, Trace!bounds, Trace!Restores
<1>4. StepsFit'
    BY DEF TraceInv, Trace!TypeOK, StepsFit, Requesting, Recording, Telling, PuttingBack,
       Trace!bounds, Trace!RestoreEarly, Trace!Restores
<1>5. RegionFits'
    BY <1>2 DEF LinesMoveOn, TraceInv, Trace!TypeOK, StepsFit, RegionFits, PuttingBack,
       Trace!NoRecord, Trace!RestoreEarly, Trace!Restores
<1> QED  BY <1>2, <1>3, <1>4, <1>5 DEF TraceInv, LinesMoveOn

LEMMA RestoreForGoodKeeps == TraceInv /\ Trace!RestoreForGood => TraceInv'
<1> SUFFICES ASSUME TraceInv, Trace!RestoreForGood
             PROVE  TraceInv'
    OBVIOUS
<1>1. AddsQuietly
    BY QuietAdds DEF TraceInv, Trace!TypeOK, Trace!RestoreForGood, Trace!Restores
<1>2. LinesMoveOn
    BY <1>1, QuietGrow DEF TraceInv, Trace!TypeOK, LinesFit, StepsFit, Requesting, Recording,
       Telling, PuttingBack, Trace!RestoreForGood, Trace!Restores
<1>3. Trace!TypeOK'
    BY <1>2, TraceConstants DEF LinesMoveOn, TraceInv, Trace!TypeOK, Trace!RestoreForGood,
       StepsFit, PuttingBack, Trace!Results, Trace!Ops, Trace!bounds, Trace!Restores
<1>4. StepsFit'
    BY DEF TraceInv, Trace!TypeOK, StepsFit, Requesting, Recording, Telling, PuttingBack,
       Trace!bounds, Trace!RestoreForGood, Trace!Restores
<1>5. RegionFits'
    BY <1>2 DEF LinesMoveOn, TraceInv, Trace!TypeOK, StepsFit, RegionFits, PuttingBack,
       Trace!NoRecord, Trace!RestoreForGood, Trace!Restores
<1> QED  BY <1>2, <1>3, <1>4, <1>5 DEF TraceInv, LinesMoveOn

LEMMA FinishKeeps == TraceInv /\ Trace!Finish => TraceInv'
<1> SUFFICES ASSUME TraceInv, Trace!Finish
             PROVE  TraceInv'
    OBVIOUS
<1>1. AddsQuietly
    BY QuietAdds DEF TraceInv, Trace!TypeOK, Trace!Finish
<1>2. LinesMoveOn
    BY <1>1, QuietGrow DEF TraceInv, Trace!TypeOK, LinesFit, StepsFit, Requesting, Recording,
       Telling, PuttingBack, Trace!Finish
<1>3. Trace!TypeOK'
    BY <1>2, TraceConstants DEF LinesMoveOn, TraceInv, Trace!TypeOK, Trace!Finish, StepsFit,
       PuttingBack, Trace!Results, Trace!Ops, Trace!bounds
<1>4. StepsFit'
    BY DEF TraceInv, Trace!TypeOK, StepsFit, Requesting, Recording, Telling, PuttingBack,
       Trace!bounds, Trace!Finish
<1>5. RegionFits'
    BY <1>2 DEF LinesMoveOn, TraceInv, Trace!TypeOK, StepsFit, RegionFits, PuttingBack,
       Trace!NoRecord, Trace!Finish
<1> QED  BY <1>2, <1>3, <1>4, <1>5 DEF TraceInv, LinesMoveOn

LEMMA AskUserKeeps == TraceInv /\ Trace!AskUser => TraceInv'
<1> SUFFICES ASSUME TraceInv, Trace!AskUser
             PROVE  TraceInv'
    OBVIOUS
<1>1. AddsQuietly
    BY QuietAdds DEF TraceInv, Trace!TypeOK, Trace!AskUser, Trace!Tells
<1>2. LinesMoveOn
    BY <1>1, QuietGrow DEF TraceInv, Trace!TypeOK, LinesFit, StepsFit, Requesting, Recording,
       Telling, PuttingBack, Trace!AskUser, Trace!Tells
<1>3. Trace!TypeOK'
    BY <1>2, TraceConstants DEF LinesMoveOn, TraceInv, Trace!TypeOK, Trace!AskUser, StepsFit,
       PuttingBack, Trace!Results, Trace!Ops, Trace!bounds, Trace!Tells
<1>4. StepsFit'
    BY DEF TraceInv, Trace!TypeOK, StepsFit, Requesting, Recording, Telling, PuttingBack,
       Trace!bounds, Trace!AskUser, Trace!Tells
<1>5. RegionFits'
    BY <1>2 DEF LinesMoveOn, TraceInv, Trace!TypeOK, StepsFit, RegionFits, PuttingBack,
       Trace!NoRecord, Trace!AskUser, Trace!Tells
<1> QED  BY <1>2, <1>3, <1>4, <1>5 DEF TraceInv, LinesMoveOn

LEMMA RestoreWritesKeeps == TraceInv /\ Trace!RestoreWrites => TraceInv'
<1> SUFFICES ASSUME TraceInv, Trace!RestoreWrites
             PROVE  TraceInv'
    OBVIOUS
<1>1. AddsQuietly
    BY QuietAdds DEF TraceInv, Trace!TypeOK, Trace!RestoreWrites
<1>2. LinesMoveOn
    BY <1>1, QuietGrow DEF TraceInv, Trace!TypeOK, LinesFit, StepsFit, Requesting, Recording,
       Telling, PuttingBack, Trace!RestoreWrites
<1>3. Trace!TypeOK'
    BY <1>2, TraceConstants DEF LinesMoveOn, TraceInv, Trace!TypeOK, Trace!RestoreWrites,
       StepsFit, PuttingBack, Trace!Results, Trace!Ops, Trace!bounds
<1>4. StepsFit'
    BY DEF TraceInv, Trace!TypeOK, StepsFit, Requesting, Recording, Telling, PuttingBack,
       Trace!bounds, Trace!RestoreWrites
<1>5. RegionFits'
    BY <1>2 DEF LinesMoveOn, TraceInv, Trace!TypeOK, StepsFit, RegionFits, PuttingBack,
       Trace!NoRecord, Trace!RestoreWrites
<1> QED  BY <1>2, <1>3, <1>4, <1>5 DEF TraceInv, LinesMoveOn

LEMMA MilestoneSavedKeeps == TraceInv /\ Trace!MilestoneSaved => TraceInv'
<1> SUFFICES ASSUME TraceInv, Trace!MilestoneSaved
             PROVE  TraceInv'
    OBVIOUS
<1>1. AddsQuietly
    BY QuietAdds DEF TraceInv, Trace!TypeOK, Trace!MilestoneSaved, Trace!WithMilestone, Trace!Milestone
<1>2. LinesMoveOn
    BY <1>1, QuietGrow DEF TraceInv, Trace!TypeOK, LinesFit, StepsFit, Requesting, Recording,
       Telling, PuttingBack, Trace!MilestoneSaved, Trace!WithMilestone, Trace!Milestone
<1>3. Trace!TypeOK'
    BY <1>2, TraceConstants DEF LinesMoveOn, TraceInv, Trace!TypeOK, Trace!MilestoneSaved,
       StepsFit, PuttingBack, Trace!Results, Trace!Ops, Trace!bounds, Trace!WithMilestone, Trace!Milestone
<1>4. StepsFit'
    BY DEF TraceInv, Trace!TypeOK, StepsFit, Requesting, Recording, Telling, PuttingBack,
       Trace!bounds, Trace!MilestoneSaved, Trace!WithMilestone, Trace!Milestone
<1>5. RegionFits'
    BY <1>2 DEF LinesMoveOn, TraceInv, Trace!TypeOK, StepsFit, RegionFits, PuttingBack,
       Trace!NoRecord, Trace!MilestoneSaved, Trace!WithMilestone, Trace!Milestone
<1> QED  BY <1>2, <1>3, <1>4, <1>5 DEF TraceInv, LinesMoveOn

LEMMA RestoredKeeps == TraceInv /\ Trace!Restored => TraceInv'
<1> SUFFICES ASSUME TraceInv, Trace!Restored
             PROVE  TraceInv'
    OBVIOUS
<1>1. AddsQuietly
    <2>1. Quiet(Trace!RestoreLine("restored")) /\ ~Trace!IsExit(Trace!RestoreLine("restored"))
        BY QuietLine DEF Trace!Restored, Trace!RestoreLine, Whats, Trace!Codes
    <2> QED  BY <2>1, QuietAdds DEF TraceInv, Trace!TypeOK, Trace!Restored, Trace!Logs
<1>2. LinesMoveOn
    BY <1>1, QuietGrow DEF TraceInv, Trace!TypeOK, LinesFit, StepsFit, Requesting, Recording,
       Telling, PuttingBack, Trace!Restored, Trace!Logs
<1>3. Trace!TypeOK'
    BY <1>2, TraceConstants DEF LinesMoveOn, TraceInv, Trace!TypeOK, Trace!Restored, StepsFit,
       PuttingBack, Trace!Results, Trace!Ops, Trace!bounds, Trace!Logs
<1>4. StepsFit'
    BY DEF TraceInv, Trace!TypeOK, StepsFit, Requesting, Recording, Telling, PuttingBack,
       Trace!bounds, Trace!Restored, Trace!Logs
<1>5. RegionFits'
    BY <1>2 DEF LinesMoveOn, TraceInv, Trace!TypeOK, StepsFit, RegionFits, PuttingBack,
       Trace!NoRecord, Trace!Restored, Trace!Logs
<1> QED  BY <1>2, <1>3, <1>4, <1>5 DEF TraceInv, LinesMoveOn

LEMMA NotRestoredKeeps == TraceInv /\ Trace!NotRestored => TraceInv'
<1> SUFFICES ASSUME TraceInv, Trace!NotRestored
             PROVE  TraceInv'
    OBVIOUS
<1>1. AddsQuietly
    <2>1. /\ Quiet(Trace!RestoreLine("failed")) /\ ~Trace!IsExit(Trace!RestoreLine("failed"))
          /\ Quiet(Trace!DiagnosticLine) /\ ~Trace!IsExit(Trace!DiagnosticLine)
        BY QuietLine DEF Trace!NotRestored, Trace!RestoreLine, Trace!DiagnosticLine, Whats,
           Trace!Codes
    <2> QED  BY <2>1, QuietAdds DEF TraceInv, Trace!TypeOK, StepsFit, PuttingBack,
                Trace!NotRestored, Trace!Logs, Trace!LogsBoth, Trace!Tells
<1>2. LinesMoveOn
    BY <1>1, QuietGrow DEF TraceInv, Trace!TypeOK, LinesFit, StepsFit, Requesting, Recording,
       Telling, PuttingBack, Trace!NotRestored, Trace!Tells
<1>3. Trace!TypeOK'
    <2>1. /\ pc' \in {"observing", "idle", "telling"} /\ then' \in {then, "idle", "failing"}
          /\ result' \in {result, "Failed", "RecoveryRequired"}
        BY DEF TraceInv, Trace!TypeOK, StepsFit, PuttingBack, Trace!NotRestored, Trace!Tells
    <2>2. UNCHANGED <<region, journal, purpose, op, touched, told, exitTold, early, seen,
                      running, tracePublished, ids, polls, traceCrashes, moved>>
        BY DEF Trace!NotRestored, Trace!bounds
    <2>3. record' \in [op: 0 .. MaxOps,
                       state: {"none", "Unrestored", "RegionRestoredEarly", "Restored"}]
        BY DEF TraceInv, Trace!TypeOK, Trace!NotRestored, Trace!WithMilestone, Trace!Milestone
    <2> QED  BY <1>2, <2>1, <2>2, <2>3, TraceConstants DEF LinesMoveOn, TraceInv, Trace!TypeOK,
                Trace!Results
<1>4. StepsFit'
    BY DEF TraceInv, Trace!TypeOK, StepsFit, Requesting, Recording, Telling, PuttingBack,
       Trace!bounds, Trace!NotRestored, Trace!Tells
<1>5. RegionFits'
    BY <1>2 DEF LinesMoveOn, TraceInv, Trace!TypeOK, StepsFit, RegionFits, PuttingBack,
       Trace!NoRecord, Trace!NotRestored, Trace!WithMilestone, Trace!Tells
<1> QED  BY <1>2, <1>3, <1>4, <1>5 DEF TraceInv, LinesMoveOn

LEMMA ClearKeeps == TraceInv /\ Trace!Clear => TraceInv'
<1> SUFFICES ASSUME TraceInv, Trace!Clear
             PROVE  TraceInv'
    OBVIOUS
<1>1. AddsQuietly
    <2>1. Quiet(Trace!DiagnosticLine) /\ ~Trace!IsExit(Trace!DiagnosticLine)
        BY QuietLine DEF Trace!Clear, Trace!DiagnosticLine, Whats, Trace!Codes
    <2> QED  BY <2>1, QuietAdds DEF TraceInv, Trace!TypeOK, StepsFit, PuttingBack, Trace!Clear,
                Trace!Logs, Trace!Tells
<1>2. LinesMoveOn
    BY <1>1, QuietGrow DEF TraceInv, Trace!TypeOK, LinesFit, StepsFit, Requesting, Recording,
       Telling, PuttingBack, Trace!Clear, Trace!Tells
<1>3. /\ pc' \in {"idle", "telling"} /\ then' \in {then, "idle"}
      /\ result' \in {result, "Failed", "Installed"}
      /\ record' = record \/ record' = [op |-> 0, state |-> "none"]
      /\ UNCHANGED <<region, journal, purpose, op, touched, told, exitTold, early, seen,
                     running, tracePublished, ids, polls, traceCrashes, moved>>
    BY DEF TraceInv, Trace!TypeOK, StepsFit, PuttingBack, Trace!Clear, Trace!Tells,
           Trace!bounds, Trace!NoRecord
<1>3a. Trace!TypeOK'
    BY <1>2, <1>3, TraceConstants DEF LinesMoveOn, TraceInv, Trace!TypeOK, Trace!Results
<1>4. StepsFit'
    BY DEF TraceInv, Trace!TypeOK, StepsFit, Requesting, Recording, Telling, PuttingBack,
       Trace!bounds, Trace!Clear, Trace!Tells
<1>5. RegionFits'
    BY <1>2, <1>3 DEF LinesMoveOn, TraceInv, RegionFits, Trace!Clear
<1> QED  BY <1>2, <1>3a, <1>4, <1>5 DEF TraceInv, LinesMoveOn


LEMMA FailAfterOutcomeKeeps == TraceInv /\ Trace!FailAfterOutcome => TraceInv'
<1> SUFFICES ASSUME TraceInv, Trace!FailAfterOutcome
             PROVE  TraceInv'
    OBVIOUS
<1>1. AddsQuietly
    BY FailAdds DEF Trace!FailAfterOutcome
<1>2. /\ pc \notin {"idle", "off", "preparing"}
      /\ pc' = "telling" /\ result' = "Failed" /\ touched
      /\ UNCHANGED <<op, touched, early, seen, region, journal, told, tracePublished, ids, traceCrashes, moved>>
      /\ then' = "idle"
      /\ UNCHANGED <<record, purpose, exitTold, running, polls>>
    BY FailTells DEF Trace!FailAfterOutcome, Trace!bounds
<1>3. LinesMoveOn
    BY <1>1, <1>2, QuietGrow DEF TraceInv, StepsFit, Requesting, Recording, Trace!TypeOK
<1>4. Trace!TypeOK'
    BY <1>2, <1>3, TraceConstants DEF LinesMoveOn, TraceInv, Trace!TypeOK, Trace!Results, Trace!Poll
<1>5. StepsFit'
    BY <1>2 DEF TraceInv, StepsFit, Requesting, Recording, Telling, PuttingBack
<1>6. RegionFits'
    BY <1>2, <1>3 DEF LinesMoveOn, TraceInv, RegionFits
<1> QED  BY <1>3, <1>4, <1>5, <1>6 DEF TraceInv, LinesMoveOn

LEMMA ObserveKeeps ==
    TraceInv /\ (\E what \in {"installing", "completed", "uncertain"} : Trace!Observe(what)) => TraceInv'
<1> SUFFICES ASSUME TraceInv, NEW what \in {"installing", "completed", "uncertain"},
                    Trace!Observe(what)
             PROVE  TraceInv'
    OBVIOUS
<1>1. /\ pc = "observing" /\ pc' = "deciding" /\ seen' = what
      /\ polls < MaxPolls /\ polls' = polls + 1 /\ running' \in {running, FALSE}
      /\ UNCHANGED <<region, record, journal, then, result, purpose, op, touched, told, early,
                     tracePublished, ids, traceCrashes, moved>>
    BY DEF Trace!Observe, Trace!Poll
<1>2. /\ Quiet(Trace!BackendLine("finished"))
      /\ Quiet(Trace!ObservationLine(what)) /\ ~Trace!IsExit(Trace!ObservationLine(what))
    BY <1>1, QuietLine DEF Trace!BackendLine, Trace!ObservationLine, Whats, Trace!Codes
<1>3. log \in Seq(Trace!LogLines) /\ exitTold \in BOOLEAN
    BY DEF TraceInv, Trace!TypeOK
<1>4. /\ log \o <<>> = log
      /\ log \o <<>> \o <<Trace!ObservationLine(what)>> = Append(log, Trace!ObservationLine(what))
      /\ log \o <<Trace!ObservationLine(what)>> = Append(log, Trace!ObservationLine(what))
      /\ log \o <<Trace!BackendLine("finished")>> \o <<>> = Append(log, Trace!BackendLine("finished"))
      /\ log \o <<Trace!BackendLine("finished")>> \o <<Trace!ObservationLine(what)>>
            = log \o <<Trace!BackendLine("finished"), Trace!ObservationLine(what)>>
    BY <1>2, <1>3 DEF Quiet
<1>5. ASSUME exitTold \/ what = "installing"
      PROVE  LinesMoveOn /\ exitTold' \in BOOLEAN
    <2>1. exitTold' = exitTold
        BY <1>5, <1>3 DEF Trace!Observe
    <2>2. log' = log \/ log' = Append(log, Trace!ObservationLine(what))
        BY <1>4, <1>5 DEF Trace!Observe, Trace!ExitLines, Trace!ObservationLines
    <2>3. AddsQuietly
        BY <1>2, <1>3, <2>2, QuietAdds
    <2> QED  BY <1>1, <1>3, <2>1, <2>3, QuietGrow DEF Recording
<1>6. ASSUME ~exitTold /\ what # "installing"
      PROVE  LinesMoveOn /\ exitTold' \in BOOLEAN
    <2>1. exitTold' = TRUE
        BY <1>6 DEF Trace!Observe
    <2>2. \/ log' = Append(log, Trace!BackendLine("finished"))
          \/ log' = log \o <<Trace!BackendLine("finished"), Trace!ObservationLine(what)>>
        BY <1>4, <1>6 DEF Trace!Observe, Trace!ExitLines, Trace!ObservationLines
    <2>3. AddsAnEnd
        BY <1>2, <1>3, <2>2, QuietAdds
    <2> QED  BY <1>1, <1>6, <2>1, <2>3, EndGrow DEF Recording
<1>7. LinesMoveOn /\ exitTold' \in BOOLEAN
    BY <1>3, <1>5, <1>6
<1>8. Trace!TypeOK'
    <2>1. polls' \in 0 .. MaxPolls
        BY <1>1, TraceConstants DEF TraceInv, Trace!TypeOK
    <2>2. running' \in BOOLEAN /\ exitTold' \in BOOLEAN
        BY <1>1, <1>7 DEF TraceInv, Trace!TypeOK
    <2> QED  BY <1>1, <1>7, <2>1, <2>2 DEF LinesMoveOn, TraceInv, Trace!TypeOK
<1>9. StepsFit'
    BY <1>1 DEF TraceInv, StepsFit, Requesting, Recording, Telling, PuttingBack
<1>10. RegionFits'
    BY <1>1, <1>7 DEF LinesMoveOn, TraceInv, RegionFits
<1> QED  BY <1>7, <1>8, <1>9, <1>10 DEF TraceInv, LinesMoveOn

LEMMA StatedKeeps == TraceInv /\ Trace!Stated => TraceInv'
<1> SUFFICES ASSUME TraceInv, Trace!Stated
             PROVE  TraceInv'
    OBVIOUS
<1>1. AddsAnEnd
    <2>1. Quiet(Trace!BackendLine("finished"))
        BY QuietLine DEF Trace!Stated, Trace!Poll, Trace!BackendLine, Whats, Trace!Codes
    <2> QED  BY <2>1, FailAdds DEF Trace!Stated, Trace!Poll, Trace!ExitLines
<1>2. /\ pc = "observing" /\ pc' = "telling" /\ result' = "Failed" /\ touched
      /\ then' = (IF early THEN "clearing" ELSE "restoring") /\ purpose' = "stated"
      /\ ~exitTold /\ exitTold' = TRUE /\ running' = FALSE
      /\ polls < MaxPolls /\ polls' = polls + 1
      /\ UNCHANGED <<op, touched, early, seen, region, record, journal, told, tracePublished, ids,
                     traceCrashes, moved>>
    BY FailTells DEF Trace!Stated, Trace!Poll
<1>3. LinesMoveOn
    BY <1>1, <1>2, EndGrow DEF Recording
<1>4. Trace!TypeOK'
    <2>1. polls' \in 0 .. MaxPolls
        BY <1>2, TraceConstants DEF TraceInv, Trace!TypeOK
    <2>2. then' \in {"clearing", "restoring"}
        BY <1>2
    <2>3. UNCHANGED <<op, touched, early, seen, region, record, journal, told, tracePublished, ids,
                      traceCrashes, moved>>
        BY <1>2
    <2> QED  BY <1>2, <1>3, <2>1, <2>2, <2>3 DEF LinesMoveOn, TraceInv, Trace!TypeOK, Trace!Results
<1>5. StepsFit'
    BY <1>2 DEF TraceInv, StepsFit, Requesting, Recording, Telling, PuttingBack
<1>6. RegionFits'
    BY <1>2, <1>3 DEF LinesMoveOn, TraceInv, RegionFits
<1> QED  BY <1>3, <1>4, <1>5, <1>6 DEF TraceInv, LinesMoveOn

LEMMA CrashKeeps == TraceInv /\ Trace!Crash => TraceInv'
<1> SUFFICES ASSUME TraceInv, Trace!Crash
             PROVE  TraceInv'
    OBVIOUS
<1>1. /\ pc' \in {"idle", "off"} /\ traceCrashes < TraceCrashes /\ traceCrashes' = traceCrashes + 1
      /\ UNCHANGED <<region, record, journal, log, then, result, purpose, op, touched, told, exitTold,
                     early, seen, running, tracePublished, ids, polls, moved>>
    BY DEF Trace!Crash
<1>2. LinesMoveOn
    BY <1>1, QuietAdds, QuietGrow DEF TraceInv, Trace!TypeOK, Recording
<1>3. Trace!TypeOK'
    BY <1>1, TraceConstants DEF TraceInv, Trace!TypeOK
<1>4. StepsFit'
    BY <1>1, TraceConstants DEF TraceInv, Trace!TypeOK, StepsFit, Requesting, Recording, Telling,
       PuttingBack
<1>5. RegionFits'
    BY <1>1 DEF TraceInv, RegionFits
<1> QED  BY <1>2, <1>3, <1>4, <1>5 DEF TraceInv, LinesMoveOn

LEMMA UserMovesKeeps == TraceInv /\ Trace!UserMoves => TraceInv'
<1> SUFFICES ASSUME TraceInv, Trace!UserMoves
             PROVE  TraceInv'
    OBVIOUS
<1>1. /\ moved' = TRUE /\ region' = "other"
      /\ UNCHANGED <<record, journal, log, pc, then, result, purpose, op, touched, told, exitTold,
                     early, seen, running, tracePublished, ids, polls, traceCrashes>>
    BY DEF Trace!UserMoves, Trace!thread
<1>2. LinesFit' /\ EntriesFit'
    BY <1>1 DEF TraceInv, LinesFit, EntriesFit, Trace!HistoryAgrees
<1>3. Trace!TypeOK'
    BY <1>1 DEF TraceInv, Trace!TypeOK
<1>4. StepsFit'
    BY <1>1 DEF TraceInv, StepsFit
<1>5. RegionFits'
    BY <1>1 DEF TraceInv, RegionFits
<1> QED  BY <1>2, <1>3, <1>4, <1>5 DEF TraceInv

LEMMA LinesAreOfOperations ==
    ASSUME TraceInv
    PROVE  /\ \A i \in DOMAIN log : log[i].op \in Int /\ log[i].op <= op
           /\ \A i \in DOMAIN journal : journal[i].op \in Int /\ journal[i].op <= op
<1>1. ASSUME NEW i \in DOMAIN log
      PROVE  log[i].op \in Int /\ log[i].op <= op
    <2>1. log \in Seq(Trace!LogLines)
        BY DEF TraceInv, Trace!TypeOK
    <2>2. log[i] \in Trace!LogLines
        BY <2>1
    <2>3. log[i].op \in 1 .. MaxOps
        BY <2>2 DEF Trace!LogLines, Trace!Ops
    <2> QED  BY <2>3, TraceConstants DEF TraceInv, LinesFit
<1>2. ASSUME NEW i \in DOMAIN journal
      PROVE  journal[i].op \in Int /\ journal[i].op <= op
    <2> DEFINE Entries == [op : Trace!Ops, result : Trace!Results]
    <2>1. journal \in Seq(Entries)
        BY DEF TraceInv, Trace!TypeOK
    <2> HIDE DEF Entries
    <2>2. journal[i] \in Entries
        BY <2>1
    <2> USE DEF Entries
    <2>3. journal[i].op \in 1 .. MaxOps
        BY <2>2 DEF Trace!Ops
    <2> QED  BY <2>3, TraceConstants DEF TraceInv, EntriesFit
<1> QED  BY <1>1, <1>2

\* A new operation: the lines that were there are of the ones before it.
LEMMA NewOperation ==
    ASSUME TraceInv, NEW what, op' = op + 1, op' \in Trace!Ops, journal' = journal,
           log' = Append(log, Trace!StartedLine(op', what)), Trace!StartedLine(op', what) \in Trace!LogLines,
           ~told', ~exitTold', pc' \notin Recording
    PROVE  LinesMoveOn
<1> DEFINE line == Trace!StartedLine(op', what)
           s == <<line>>
<1>1. /\ log \in Seq(Trace!LogLines) /\ s \in Seq(Trace!LogLines) /\ log' = log \o s
      /\ op \in Int /\ DOMAIN s = {1} /\ s[1] = line
    BY TraceConstants DEF TraceInv, Trace!TypeOK
<1>2. line.op = op' /\ line.code = "started"
    BY DEF Trace!StartedLine
<1>3. \A kind \in Kinds : Once(kind, s) /\ NoneOf(kind, op', s) /\ NoneOf(kind, op', log)
    <2>1. \A kind \in Kinds : ~IsOf(kind, line)
        BY <1>2 DEF Kinds, IsOf, Trace!IsOutcome, Trace!IsEntry, Trace!IsExit
    <2>2. \A i \in DOMAIN log : log[i].op \in Int /\ log[i].op <= op
        BY LinesAreOfOperations
    <2>3. \A i \in DOMAIN log : log[i].op # op'
        BY <1>1, <2>2
    <2> QED  BY <1>1, <2>1, <2>3 DEF Once, NoneOf
<1>4. ASSUME NEW kind \in Kinds
      PROVE  Once(kind, log') /\ NoneOf(kind, op', log')
    <2>1. \A i \in DOMAIN s : s[i].op = op'
        BY <1>1, <1>2
    <2>2. PICK o : o = op'
        OBVIOUS
    <2>3. Once(kind, log) /\ Once(kind, s) /\ NoneOf(kind, o, s) /\ NoneOf(kind, o, log)
        BY <1>3, <2>2 DEF TraceInv, LinesFit
    <2>4. Once(kind, log \o s)
        BY <1>1, <2>1, <2>2, <2>3, JoinedOnce
    <2>5. NoneOf(kind, o, log \o s)
        BY <1>1, <2>3, JoinedNone
    <2> QED  BY <1>1, <2>2, <2>4, <2>5
<1>5. \A i \in DOMAIN log' : log'[i].op <= op'
    <2> SUFFICES ASSUME NEW i \in DOMAIN (log \o s)
                 PROVE  (log \o s)[i].op <= op'
        BY <1>1
    <2>1. CASE i \in DOMAIN log
        <3>1. (log \o s)[i] = log[i]
            BY <1>1, <2>1, Joined
        <3>2. log[i].op \in Int /\ log[i].op <= op
            BY <2>1, LinesAreOfOperations
        <3> QED  BY <1>1, <3>1, <3>2
    <2>2. CASE i - Len(log) \in DOMAIN s /\ (log \o s)[i] = s[i - Len(log)]
        BY <1>1, <1>2, <2>2
    <2> QED  BY <1>1, <2>1, <2>2, Joined
<1>6. LinesFit'
    BY <1>4, <1>5 DEF LinesFit, Kinds
<1>7. (log \in Seq(Trace!LogLines))'
    BY <1>1, Joined
<1>8. \A o, code : Says(o, code, log) => Says(o, code, log')
    BY <1>1, JoinedSays
<1>9. EntriesFit'
    <2>1. \A i \in DOMAIN journal : journal[i].op <= op /\ journal[i].op \in Int
        BY LinesAreOfOperations
    <2>2. \A i \in DOMAIN journal : journal[i].op <= op' /\ journal[i].op # op'
        BY <1>1, <2>1
    <2>3. Trace!HistoryAgrees'
        <3>1. ASSUME NEW i \in DOMAIN journal
              PROVE  \E j \in DOMAIN log' :
                        log'[j].op = journal[i].op /\ log'[j].code = "finished"
                        /\ log'[j].what = journal[i].result
            <4>1. PICK j \in DOMAIN log :
                     log[j].op = journal[i].op /\ log[j].code = "finished"
                     /\ log[j].what = journal[i].result
                BY DEF TraceInv, EntriesFit, Trace!HistoryAgrees
            <4>2. j \in DOMAIN log' /\ log'[j] = log[j]
                BY <1>1, Joined
            <4> QED  BY <4>1, <4>2
        <3>2. ASSUME NEW j \in DOMAIN (log \o s), (log \o s)[j].code = "entry",
                     (log \o s)[j].what = "written"
              PROVE  \E i \in DOMAIN journal : journal[i].op = (log \o s)[j].op
            <4>1. CASE j \in DOMAIN log
                BY <1>1, <3>2, <4>1, Joined DEF TraceInv, EntriesFit, Trace!HistoryAgrees
            <4>2. CASE j - Len(log) \in DOMAIN s /\ (log \o s)[j] = s[j - Len(log)]
                BY <1>1, <1>2, <3>2, <4>2
            <4> QED  BY <1>1, <4>1, <4>2, Joined
        <3> QED  BY <1>1, <3>1, <3>2 DEF Trace!HistoryAgrees
    <2> QED  BY <2>2, <2>3 DEF TraceInv, EntriesFit, Recording
<1> QED  BY <1>6, <1>7, <1>8, <1>9 DEF LinesMoveOn

LEMMA BeginKeeps == TraceInv /\ Trace!Begin => TraceInv'
<1> SUFFICES ASSUME TraceInv, Trace!Begin
             PROVE  TraceInv'
    OBVIOUS
<1>1. /\ pc = "idle" /\ pc' = "preparing" /\ record = [op |-> 0, state |-> "none"] /\ region = "home"
      /\ ids < MaxOps /\ ids' = ids + 1 /\ op' = ids + 1 /\ running' = FALSE
      /\ touched' = FALSE /\ told' = FALSE /\ exitTold' = FALSE /\ early' = FALSE /\ seen' = "none"
      /\ log' = Append(log, Trace!StartedLine(ids + 1, "fresh"))
      /\ UNCHANGED <<region, record, journal, then, result, purpose, tracePublished, polls,
                     traceCrashes, moved>>
    BY DEF Trace!Begin, Trace!Fresh, Trace!Logs, Trace!NoRecord
<1>2. op' = op + 1 /\ op' \in Trace!Ops /\ op' \in 0 .. MaxOps
    BY <1>1, TraceConstants DEF TraceInv, StepsFit, Trace!TypeOK, Trace!Ops
<1>3. Trace!StartedLine(op', "fresh") \in Trace!LogLines
    BY <1>2 DEF Trace!StartedLine, Trace!LogLines, Trace!Codes
<1>4. LinesMoveOn
    <2>1. PICK what : what = "fresh"
        OBVIOUS
    <2> QED  BY <1>1, <1>2, <1>3, <2>1, NewOperation DEF Recording
<1>5. Trace!TypeOK'
    BY <1>1, <1>2, <1>4 DEF LinesMoveOn, TraceInv, Trace!TypeOK
<1>6. StepsFit'
    BY <1>1, <1>2 DEF TraceInv, StepsFit, Requesting, Recording, Telling, PuttingBack, Trace!Ops
<1>7. RegionFits'
    BY <1>1, <1>4 DEF LinesMoveOn, TraceInv, RegionFits
<1> QED  BY <1>4, <1>5, <1>6, <1>7 DEF TraceInv, LinesMoveOn

LEMMA TakeOverKeeps == TraceInv /\ Trace!TakeOver => TraceInv'
<1> SUFFICES ASSUME TraceInv, Trace!TakeOver
             PROVE  TraceInv'
    OBVIOUS
<1>1. /\ pc = "off" /\ pc' = "observing" /\ record.state \in {"Unrestored", "RegionRestoredEarly"}
      /\ ids < MaxOps /\ ids' = ids + 1 /\ op' = ids + 1
      /\ touched' = TRUE /\ told' = FALSE /\ exitTold' = FALSE /\ seen' = "none"
      /\ early' = (record.state = "RegionRestoredEarly")
      /\ log' = Append(log, Trace!StartedLine(ids + 1, "resumed"))
      /\ UNCHANGED <<region, record, journal, then, result, purpose, running, tracePublished, polls,
                     traceCrashes, moved>>
    BY DEF Trace!TakeOver, Trace!Logs
<1>2. op' = op + 1 /\ op' \in Trace!Ops /\ op' \in 0 .. MaxOps
    BY <1>1, TraceConstants DEF TraceInv, StepsFit, Trace!TypeOK, Trace!Ops
<1>3. Trace!StartedLine(op', "resumed") \in Trace!LogLines
    BY <1>2 DEF Trace!StartedLine, Trace!LogLines, Trace!Codes
<1>4. LinesMoveOn
    <2>1. PICK what : what = "resumed"
        OBVIOUS
    <2> QED  BY <1>1, <1>2, <1>3, <2>1, NewOperation DEF Recording
<1>5. Trace!TypeOK'
    BY <1>1, <1>2, <1>4 DEF LinesMoveOn, TraceInv, Trace!TypeOK
<1>6. StepsFit'
    BY <1>1, <1>2 DEF TraceInv, StepsFit, Requesting, Recording, Telling, PuttingBack, Trace!Ops
<1>7. RegionFits'
    BY <1>1, <1>4 DEF LinesMoveOn, TraceInv, RegionFits
<1> QED  BY <1>4, <1>5, <1>6, <1>7 DEF TraceInv, LinesMoveOn

\* The outcome, the entry and what is said of it.
LEMMA TellKeeps == TraceInv /\ Trace!Tell => TraceInv'
<1> SUFFICES ASSUME TraceInv, Trace!Tell
             PROVE  TraceInv'
    OBVIOUS
<1>1. /\ pc = "telling"
      /\ UNCHANGED <<region, record, journal, then, result, purpose, op, touched, exitTold, early, seen,
                     running, tracePublished, ids, polls, traceCrashes, moved>>
    BY DEF Trace!Tell, Trace!bounds
<1>2. CASE told
    <2>1. pc' = then /\ log' = log /\ told' = told
        BY <1>2 DEF Trace!Tell
    <2>2. LinesMoveOn
        BY <1>1, <2>1, QuietAdds, QuietGrow DEF TraceInv, Trace!TypeOK, StepsFit, Telling, Recording
    <2>3. Trace!TypeOK'
        BY <1>1, <2>1 DEF TraceInv, Trace!TypeOK
    <2>4. StepsFit'
        BY <1>1, <1>2, <2>1 DEF TraceInv, StepsFit, Requesting, Recording, Telling, PuttingBack
    <2>5. RegionFits'
        BY <1>1, <2>1 DEF TraceInv, StepsFit, Telling, RegionFits
    <2> QED  BY <2>2, <2>3, <2>4, <2>5 DEF TraceInv, LinesMoveOn
<1>3. CASE ~told
    <2> DEFINE line == Trace!FinishedLine(result)
               s == <<line>>
    <2>1. /\ pc' = "appending" /\ log' = Append(log, line) /\ told' = TRUE
        BY <1>3 DEF Trace!Tell, Trace!Logs
    <2>2. op \in Trace!Ops /\ result \in Trace!Results
        BY <1>1, TraceConstants DEF TraceInv, StepsFit, Telling, Trace!TypeOK, Trace!Ops
    <2>3. line \in Trace!LogLines /\ line.op = op /\ line.code = "finished" /\ line.what = result
        BY <2>2 DEF Trace!FinishedLine, Trace!Line, Trace!LogLines, Trace!Codes
    <2>4. /\ log \in Seq(Trace!LogLines) /\ s \in Seq(Trace!LogLines) /\ log' = log \o s
          /\ DOMAIN s = {1} /\ s[1] = line
        BY <2>1, <2>3 DEF TraceInv, Trace!TypeOK
    <2>5. (log \in Seq(Trace!LogLines))'
        BY <2>4, Joined
    <2>6. \A o, code : Says(o, code, log) => Says(o, code, log')
        BY <2>4, JoinedSays
    <2>7. \A i \in DOMAIN s : s[i].op = op
        BY <2>3, <2>4
    <2>8. \A kind \in Kinds : Once(kind, log')
        <3> SUFFICES ASSUME NEW kind \in Kinds PROVE Once(kind, log \o s)
            BY <2>4
        <3>1. Once(kind, log) /\ Once(kind, s)
            BY <2>4 DEF TraceInv, LinesFit, Once
        <3>2. NoneOf(kind, op, log) \/ NoneOf(kind, op, s)
            BY <1>3, <2>3, <2>4 DEF TraceInv, LinesFit, NoneOf, Kinds, IsOf, Trace!IsOutcome,
                                   Trace!IsEntry, Trace!IsExit
        <3> QED  BY <2>4, <2>7, <3>1, <3>2, JoinedOnce
    <2>9. NoneOf("entry", op, log') /\ (~exitTold => NoneOf("exit", op, log'))
        <3>1. NoneOf("entry", op, s) /\ NoneOf("exit", op, s)
            BY <2>3, <2>4 DEF NoneOf, IsOf, Trace!IsEntry, Trace!IsExit
        <3>2. NoneOf("entry", op, log) /\ (~exitTold => NoneOf("exit", op, log))
            BY <1>3 DEF TraceInv, LinesFit
        <3> QED  BY <2>4, <3>1, <3>2, JoinedNone
    <2>10. \A i \in DOMAIN log' : log'[i].op <= op
        <3> SUFFICES ASSUME NEW i \in DOMAIN (log \o s)
                     PROVE  (log \o s)[i].op <= op
            BY <2>4
        <3>1. CASE i \in DOMAIN log
            BY <2>4, <3>1, Joined, LinesAreOfOperations
        <3>2. CASE i - Len(log) \in DOMAIN s /\ (log \o s)[i] = s[i - Len(log)]
            <4>1. (log \o s)[i].op = op /\ op \in Int
                BY <2>2, <2>7, <3>2, TraceConstants DEF Trace!Ops
            <4> QED  BY <4>1
        <3> QED  BY <2>4, <3>1, <3>2, Joined
    <2>11. /\ Len(log) + 1 \in DOMAIN log' /\ log'[Len(log) + 1] = line
        BY <2>1, <2>4
    <2>12. Says(op, "finished", log')
        BY <2>3, <2>11 DEF Says
    <2>13. LinesFit'
        BY <1>1, <2>1, <2>8, <2>9, <2>10, <2>12 DEF LinesFit
    <2>14. EntriesFit'
        <3>1. ASSUME NEW i \in DOMAIN journal
              PROVE  \E j \in DOMAIN log' :
                        log'[j].op = journal[i].op /\ log'[j].code = "finished"
                        /\ log'[j].what = journal[i].result
            <4>1. PICK j \in DOMAIN log :
                     log[j].op = journal[i].op /\ log[j].code = "finished"
                     /\ log[j].what = journal[i].result
                BY DEF TraceInv, EntriesFit, Trace!HistoryAgrees
            <4>2. j \in DOMAIN log' /\ log'[j] = log[j]
                BY <2>4, Joined
            <4> QED  BY <4>1, <4>2
        <3>2. ASSUME NEW j \in DOMAIN (log \o s), (log \o s)[j].code = "entry",
                     (log \o s)[j].what = "written"
              PROVE  \E i \in DOMAIN journal : journal[i].op = (log \o s)[j].op
            <4>1. CASE j \in DOMAIN log
                BY <2>4, <3>2, <4>1, Joined DEF TraceInv, EntriesFit, Trace!HistoryAgrees
            <4>2. CASE j - Len(log) \in DOMAIN s /\ (log \o s)[j] = s[j - Len(log)]
                BY <2>3, <2>4, <3>2, <4>2
            <4> QED  BY <2>4, <4>1, <4>2, Joined
        <3>3. Trace!HistoryAgrees'
            BY <1>1, <2>4, <3>1, <3>2 DEF Trace!HistoryAgrees
        <3>4. \E j \in DOMAIN log' :
                 log'[j].op = op /\ log'[j].code = "finished" /\ log'[j].what = result
            BY <2>3, <2>11
        <3> QED  BY <1>1, <1>3, <2>1, <3>3, <3>4 DEF TraceInv, EntriesFit
    <2>15. Trace!TypeOK'
        BY <1>1, <2>1, <2>5 DEF TraceInv, Trace!TypeOK
    <2>16. StepsFit'
        BY <1>1, <2>1 DEF TraceInv, StepsFit, Requesting, Recording, Telling, PuttingBack
    <2>17. RegionFits'
        BY <1>1, <2>1, <2>6 DEF TraceInv, RegionFits
    <2> QED  BY <2>13, <2>14, <2>15, <2>16, <2>17 DEF TraceInv
<1>4. told \in BOOLEAN
    BY DEF TraceInv, Trace!TypeOK
<1> QED  BY <1>2, <1>3, <1>4

LEMMA AppendEntryKeeps == TraceInv /\ Trace!AppendEntry => TraceInv'
<1> SUFFICES ASSUME TraceInv, Trace!AppendEntry
             PROVE  TraceInv'
    OBVIOUS
<1>1. /\ pc = "appending" /\ pc' \in {"appended", "notAppended"}
      /\ UNCHANGED <<region, record, log, then, result, purpose, op, touched, told, exitTold, early,
                     seen, running, tracePublished, ids, polls, traceCrashes, moved>>
    BY DEF Trace!AppendEntry, Trace!bounds
<1>2. op \in Trace!Ops /\ result \in Trace!Results
    BY <1>1, TraceConstants DEF TraceInv, StepsFit, Telling, Trace!TypeOK, Trace!Ops
<1>3. LinesFit'
    BY <1>1 DEF TraceInv, LinesFit, Recording
<1>4. StepsFit'
    BY <1>1 DEF TraceInv, StepsFit, Requesting, Recording, Telling, PuttingBack
<1>5. RegionFits'
    BY <1>1 DEF TraceInv, RegionFits
<1>6. CASE journal' = journal /\ pc' = "notAppended"
    <2>1. EntriesFit'
        BY <1>1, <1>6 DEF TraceInv, EntriesFit, StepsFit, Recording, Trace!HistoryAgrees
    <2>2. Trace!TypeOK'
        BY <1>1, <1>6 DEF TraceInv, Trace!TypeOK
    <2> QED  BY <1>3, <1>4, <1>5, <2>1, <2>2 DEF TraceInv
<1>7. CASE journal' = Append(journal, [op |-> op, result |-> result]) /\ pc' = "appended"
    <2> DEFINE entry == [op |-> op, result |-> result]
    <2>1. journal \in Seq([op : Trace!Ops, result : Trace!Results])
        BY DEF TraceInv, Trace!TypeOK
    <2>2. /\ journal' \in Seq([op : Trace!Ops, result : Trace!Results])
          /\ Len(journal') = Len(journal) + 1 /\ journal'[Len(journal) + 1] = entry
          /\ \A i \in DOMAIN journal : journal'[i] = journal[i]
          /\ DOMAIN journal' = DOMAIN journal \cup {Len(journal) + 1}
          /\ entry.op = op /\ entry.result = result
        BY <1>2, <1>7, <2>1
    <2>3. \A i \in DOMAIN journal : journal[i].op <= op /\ journal[i].op # op
        BY <1>1, LinesAreOfOperations DEF TraceInv, EntriesFit
    <2>4. \A i \in DOMAIN journal' : journal'[i].op <= op'
        BY <1>1, <1>2, <2>2, <2>3, TraceConstants DEF Trace!Ops
    <2>5. \A i, j \in DOMAIN journal' : journal'[i].op = journal'[j].op => i = j
        BY <2>2, <2>3 DEF TraceInv, EntriesFit
    <2>6. \E i \in DOMAIN journal' : journal'[i].op = op
        BY <2>2
    <2>7. Trace!HistoryAgrees'
        <3>1. \A i \in DOMAIN journal' : \E j \in DOMAIN log :
                 log[j].op = journal'[i].op /\ log[j].code = "finished"
                 /\ log[j].what = journal'[i].result
            BY <1>1, <2>2 DEF TraceInv, EntriesFit, Trace!HistoryAgrees
        <3>2. \A j \in DOMAIN log : log[j].code = "entry" /\ log[j].what = "written" =>
                 \E i \in DOMAIN journal' : journal'[i].op = log[j].op
            BY <2>2 DEF TraceInv, EntriesFit, Trace!HistoryAgrees
        <3> QED  BY <1>1, <3>1, <3>2 DEF Trace!HistoryAgrees
    <2>8. EntriesFit'
        <3>1. told
            BY <1>1 DEF TraceInv, StepsFit, Recording
        <3> QED  BY <1>1, <1>7, <2>4, <2>5, <2>6, <2>7, <3>1 DEF EntriesFit
    <2>9. Trace!TypeOK'
        BY <1>1, <1>7, <2>2 DEF TraceInv, Trace!TypeOK
    <2> QED  BY <1>3, <1>4, <1>5, <2>8, <2>9 DEF TraceInv
<1> QED  BY <1>6, <1>7 DEF Trace!AppendEntry

LEMMA EntryToldKeeps == TraceInv /\ Trace!EntryTold => TraceInv'
<1> SUFFICES ASSUME TraceInv, Trace!EntryTold
             PROVE  TraceInv'
    OBVIOUS
<1> DEFINE what == IF pc = "appended" THEN "written" ELSE "not_written"
           line == Trace!EntryLine(what)
           s == <<line>>
<1>1. /\ pc \in {"appended", "notAppended"} /\ pc' = then /\ log' = Append(log, line)
      /\ UNCHANGED <<region, record, journal, then, result, purpose, op, touched, told, exitTold, early,
                     seen, running, tracePublished, ids, polls, traceCrashes, moved>>
    BY DEF Trace!EntryTold, Trace!bounds, Trace!Logs
<1>2. /\ op \in Trace!Ops /\ told /\ then \in {"idle", "restoring", "clearing", "failing"}
    BY <1>1, TraceConstants DEF TraceInv, StepsFit, Recording, Telling, Trace!TypeOK, Trace!Ops
<1>3. /\ line \in Trace!LogLines /\ line.op = op /\ line.code = "entry" /\ line.what = what
    BY <1>2 DEF Trace!EntryLine, Trace!Line, Trace!LogLines, Trace!Codes
<1>4. /\ log \in Seq(Trace!LogLines) /\ s \in Seq(Trace!LogLines) /\ log' = log \o s
      /\ DOMAIN s = {1} /\ s[1] = line
    BY <1>1, <1>3 DEF TraceInv, Trace!TypeOK
<1>5. (log \in Seq(Trace!LogLines))'
    BY <1>4, Joined
<1>6. \A o, code : Says(o, code, log) => Says(o, code, log')
    BY <1>4, JoinedSays
<1>7. \A i \in DOMAIN s : s[i].op = op
    BY <1>3, <1>4
<1>8. \A kind \in Kinds : Once(kind, log')
    <2> SUFFICES ASSUME NEW kind \in Kinds PROVE Once(kind, log \o s)
        BY <1>4
    <2>1. Once(kind, log) /\ Once(kind, s)
        BY <1>4 DEF TraceInv, LinesFit, Once
    <2>2. NoneOf(kind, op, log) \/ NoneOf(kind, op, s)
        BY <1>1, <1>3, <1>4 DEF TraceInv, LinesFit, Recording, NoneOf, Kinds, IsOf,
                               Trace!IsOutcome, Trace!IsEntry, Trace!IsExit
    <2> QED  BY <1>4, <1>7, <2>1, <2>2, JoinedOnce
<1>9. ~exitTold => NoneOf("exit", op, log')
    <2>1. NoneOf("exit", op, s)
        BY <1>3, <1>4 DEF NoneOf, IsOf, Trace!IsExit
    <2>2. ~exitTold => NoneOf("exit", op, log)
        BY DEF TraceInv, LinesFit
    <2> QED  BY <1>4, <2>1, <2>2, JoinedNone
<1>10. \A i \in DOMAIN log' : log'[i].op <= op
    <2> SUFFICES ASSUME NEW i \in DOMAIN (log \o s)
                 PROVE  (log \o s)[i].op <= op
        BY <1>4
    <2>1. CASE i \in DOMAIN log
        BY <1>4, <2>1, Joined, LinesAreOfOperations
    <2>2. CASE i - Len(log) \in DOMAIN s /\ (log \o s)[i] = s[i - Len(log)]
        <3>1. (log \o s)[i].op = op /\ op \in Int
            BY <1>2, <1>7, <2>2, TraceConstants DEF Trace!Ops
        <3> QED  BY <3>1
    <2> QED  BY <1>4, <2>1, <2>2, Joined
<1>11. LinesFit'
    BY <1>1, <1>2, <1>6, <1>8, <1>9, <1>10 DEF TraceInv, LinesFit, Recording
<1>12. EntriesFit'
    <2>1. ASSUME NEW i \in DOMAIN journal
          PROVE  \E j \in DOMAIN log' :
                    log'[j].op = journal[i].op /\ log'[j].code = "finished"
                    /\ log'[j].what = journal[i].result
        <3>1. PICK j \in DOMAIN log :
                 log[j].op = journal[i].op /\ log[j].code = "finished"
                 /\ log[j].what = journal[i].result
            BY DEF TraceInv, EntriesFit, Trace!HistoryAgrees
        <3>2. j \in DOMAIN log' /\ log'[j] = log[j]
            BY <1>4, Joined
        <3> QED  BY <3>1, <3>2
    <2>2. ASSUME NEW j \in DOMAIN (log \o s), (log \o s)[j].code = "entry",
                 (log \o s)[j].what = "written"
          PROVE  \E i \in DOMAIN journal : journal[i].op = (log \o s)[j].op
        <3>1. CASE j \in DOMAIN log
            BY <1>4, <2>2, <3>1, Joined DEF TraceInv, EntriesFit, Trace!HistoryAgrees
        <3>2. CASE j - Len(log) \in DOMAIN s /\ (log \o s)[j] = s[j - Len(log)]
            <4>1. pc = "appended" /\ (log \o s)[j].op = op
                BY <1>3, <1>4, <2>2, <3>2
            <4> QED  BY <4>1 DEF TraceInv, EntriesFit
        <3> QED  BY <1>4, <3>1, <3>2, Joined
    <2> HIDE DEF s
    <2>3. \A j \in DOMAIN log' : log'[j].code = "entry" /\ log'[j].what = "written" =>
             \E i \in DOMAIN journal : journal[i].op = log'[j].op
        BY <1>4, <2>2
    <2>4. Trace!HistoryAgrees'
        BY <1>1, <2>1, <2>3 DEF Trace!HistoryAgrees
    <2> QED  BY <1>1, <1>2, <2>4 DEF TraceInv, EntriesFit
<1>13. Trace!TypeOK'
    BY <1>1, <1>5 DEF TraceInv, Trace!TypeOK
<1>14. StepsFit'
    BY <1>1, <1>2 DEF TraceInv, StepsFit, Requesting, Recording, Telling, PuttingBack
<1>15. RegionFits'
    BY <1>1, <1>2, <1>6 DEF TraceInv, StepsFit, Recording, Telling, RegionFits
<1> QED  BY <1>11, <1>12, <1>13, <1>14, <1>15 DEF TraceInv

LEMMA TraceBegins == Trace!Init => TraceInv
<1> SUFFICES ASSUME Trace!Init PROVE TraceInv
    OBVIOUS
<1>1. Trace!TypeOK
    <2>1. /\ log \in Seq(Trace!LogLines) /\ journal \in Seq([op : Trace!Ops, result : Trace!Results])
          /\ record \in [op : 0 .. MaxOps, state : {"none", "Unrestored", "RegionRestoredEarly", "Restored"}]
        BY TraceConstants DEF Trace!Init, Trace!NoRecord
    <2>2. /\ op \in 0 .. MaxOps /\ ids \in 0 .. MaxOps /\ polls \in 0 .. MaxPolls
          /\ traceCrashes \in 0 .. TraceCrashes
        BY TraceConstants DEF Trace!Init
    <2> QED  BY <2>1, <2>2 DEF Trace!Init, Trace!TypeOK
<1>2. LinesFit /\ EntriesFit
    BY DEF Trace!Init, LinesFit, EntriesFit, Once, NoneOf, Recording, Trace!HistoryAgrees
<1>3. StepsFit
    BY DEF Trace!Init, StepsFit, Requesting, Recording, Telling, PuttingBack
<1>4. RegionFits
    BY DEF Trace!Init, RegionFits, Trace!NoRecord
<1> QED  BY <1>1, <1>2, <1>3, <1>4 DEF TraceInv

LEMMA TraceStepKeeps == TraceInv /\ [Trace!Next]_traceVars => TraceInv'
<1> SUFFICES ASSUME TraceInv, [Trace!Next]_traceVars
             PROVE  TraceInv'
    OBVIOUS
<1>1. CASE UNCHANGED traceVars
    <2>1. UNCHANGED <<region, record, journal, log, pc, then, result, purpose, op, touched, told,
                      exitTold, early, seen, running, tracePublished, ids, polls, traceCrashes, moved>>
        BY <1>1 DEF traceVars
    <2>2. Trace!TypeOK'
        BY <2>1 DEF TraceInv, Trace!TypeOK
    <2>3. LinesFit' /\ EntriesFit'
        BY <2>1 DEF TraceInv, LinesFit, EntriesFit, Trace!HistoryAgrees
    <2>4. StepsFit' /\ RegionFits'
        BY <2>1 DEF TraceInv, StepsFit, RegionFits
    <2> QED  BY <2>2, <2>3, <2>4 DEF TraceInv
<1>2. CASE Trace!Next
    <2>1. Trace!Switch => TraceInv'
        BY PrepareKeeps, PrepareFailsKeeps, SaveKeeps, SaveFailsKeeps, WriteKeeps,
           ReadBackFailsKeeps, SwitchedKeeps, NotSwitchedKeeps DEF Trace!Switch
    <2>2. Trace!Start => TraceInv'
        BY ResolveKeeps, NotResolvedKeeps, AlreadyInstalledKeeps, SelectKeeps, RequestedKeeps,
           AcceptedKeeps, RefusedKeeps DEF Trace!Start
    <2>3. Trace!Follow => TraceInv'
        BY ObserveKeeps, NotObservedKeeps, StatedKeeps, KeepObservingKeeps, RestoreEarlyKeeps,
           RestoreForGoodKeeps, FinishKeeps, AskUserKeeps DEF Trace!Follow
    <2>4. Trace!Restore => TraceInv'
        BY RestoreWritesKeeps, MilestoneSavedKeeps, RestoredKeeps, NotRestoredKeeps, ClearKeeps
           DEF Trace!Restore
    <2>5. Trace!Outcome => TraceInv'
        BY TellKeeps, AppendEntryKeeps, EntryToldKeeps, FailAfterOutcomeKeeps DEF Trace!Outcome
    <2> QED  BY <1>2, <2>1, <2>2, <2>3, <2>4, <2>5, BeginKeeps, CrashKeeps, TakeOverKeeps,
                UserMovesKeeps DEF Trace!Next
<1> QED  BY <1>1, <1>2

LEMMA TraceCountsAgree == \A S : Trace!Cardinality(S) = Cardinality(S)
BY DEF Trace!Cardinality, Cardinality

LEMMA AtMostOne ==
    ASSUME NEW T, \A i, j \in T : i = j
    PROVE  Cardinality(T) <= 1
<1>1. CASE T = {}
    BY <1>1, FS_EmptySet
<1>2. CASE T # {}
    <2>1. PICK i : i \in T
        BY <1>2
    <2>2. T = {i}
        BY <2>1
    <2>3. Cardinality({i}) = 1
        BY FS_Singleton
    <2> QED  BY <2>2, <2>3
<1> QED  BY <1>1, <1>2

LEMMA TraceTells ==
    TraceInv => /\ Trace!TypeOK
                /\ Trace!TouchIsTold /\ Trace!OncePerOperation /\ Trace!EndIsTold
                /\ Trace!HistoryAgrees /\ Trace!MilestoneIsTrue
<1> SUFFICES ASSUME TraceInv
             PROVE  /\ Trace!TypeOK
                    /\ Trace!TouchIsTold /\ Trace!OncePerOperation /\ Trace!EndIsTold
                    /\ Trace!HistoryAgrees /\ Trace!MilestoneIsTrue
    OBVIOUS
<1>1. Trace!TouchIsTold
    BY DEF TraceInv, RegionFits, Says, Trace!TouchIsTold, Trace!Logged
<1>2. Trace!OncePerOperation
    <2> SUFFICES ASSUME NEW o \in Trace!Ops
                 PROVE  /\ Trace!Times(o, Trace!IsOutcome) <= 1
                        /\ Trace!Times(o, Trace!IsEntry) <= 1
                        /\ Trace!Times(o, Trace!IsExit) <= 1
                        /\ Trace!Cardinality({i \in DOMAIN journal : journal[i].op = o}) <= 1
        BY DEF Trace!OncePerOperation
    <2>1. Once("outcome", log) /\ Once("entry", log) /\ Once("exit", log)
        BY DEF TraceInv, LinesFit, Kinds
    <2> DEFINE outcomes == {i \in DOMAIN log : log[i].op = o /\ Trace!IsOutcome(log[i])}
               entries == {i \in DOMAIN log : log[i].op = o /\ Trace!IsEntry(log[i])}
               exits == {i \in DOMAIN log : log[i].op = o /\ Trace!IsExit(log[i])}
               written == {i \in DOMAIN journal : journal[i].op = o}
    <2>2. \A i, j \in outcomes : i = j
        BY <2>1 DEF Once, IsOf
    <2>3. \A i, j \in entries : i = j
        BY <2>1 DEF Once, IsOf
    <2>4. \A i, j \in exits : i = j
        BY <2>1 DEF Once, IsOf
    <2>5. \A i, j \in written : i = j
        BY DEF TraceInv, EntriesFit
    <2> HIDE DEF outcomes, entries, exits, written
    <2>6. /\ Cardinality(outcomes) <= 1 /\ Cardinality(entries) <= 1 /\ Cardinality(exits) <= 1
          /\ Cardinality(written) <= 1
        BY <2>2, <2>3, <2>4, <2>5, AtMostOne
    <2>7. /\ Trace!Cardinality(outcomes) <= 1 /\ Trace!Cardinality(entries) <= 1
          /\ Trace!Cardinality(exits) <= 1 /\ Trace!Cardinality(written) <= 1
        BY <2>6, TraceCountsAgree
    <2> QED  BY <2>7 DEF outcomes, entries, exits, written, Trace!Times
<1>3. Trace!EndIsTold
    <2> SUFFICES ASSUME pc = "idle", op # 0, traceCrashes = 0
                 PROVE  Trace!Logged(op, "finished") <=> touched
        BY DEF Trace!EndIsTold
    <2>1. told <=> touched
        BY DEF TraceInv, StepsFit
    <2>2. told => Trace!Logged(op, "finished")
        BY DEF TraceInv, LinesFit, Says, Trace!Logged
    <2>3. ~told => ~Trace!Logged(op, "finished")
        BY DEF TraceInv, LinesFit, NoneOf, IsOf, Trace!IsOutcome, Trace!Logged
    <2>4. touched \in BOOLEAN /\ told \in BOOLEAN
        BY DEF TraceInv, Trace!TypeOK
    <2> QED  BY <2>1, <2>2, <2>3, <2>4
<1>4. Trace!HistoryAgrees /\ Trace!MilestoneIsTrue /\ Trace!TypeOK
    BY DEF TraceInv, EntriesFit, RegionFits, Trace!MilestoneIsTrue
<1> QED  BY <1>1, <1>2, <1>3, <1>4

(***************************************************************************)
(* The log file and its rotations.                                         *)
(*                                                                         *)
(* The order of the rotations needs nothing of the threads. The bound does:*)
(* a thread that read the size has its record still to write, so what      *)
(* stays bounded is the records there together with those to come. What a  *)
(* lone writer keeps needs the names through each step of its rotation.    *)
(***************************************************************************)
Pending == {w \in LogWriters :
    writer[w].at \in {"checking", "dropping", "shifting", "moving", "opening"}}

\* The threads that are to write to a file: those that opened it, and those
\* that are about to open what is under the current name.
Awaiting(f) == {w \in LogWriters :
    \/ writer[w].at = "writing" /\ writer[w].file = f
    \/ writer[w].at = "opening" /\ names[0] = f}

\* What the place of a thread says of what it holds.
WritersFit ==
    \A w \in LogWriters :
        /\ writer[w].at = "shifting" => writer[w].index \in 1 .. KeptRotations - 1
        /\ writer[w].at \in {"writing", "ending"} => writer[w].file \in 1 .. created

\* A file for each record at most, those still to be opened among them; what is
\* not created is empty.
FilesFit ==
    /\ created + Cardinality(Pending) <= begun
    /\ \A f \in Log!Files : f > created => contents[f] = <<>>

\* The records of a file and those that are to come to it, which are of one
\* thread each.
SizesFit ==
    ~stopped => \A f \in Log!Files :
        Cardinality(Log!Written(f)) + Cardinality(Awaiting(f))
            <= MaxFile + Cardinality(LogWriters) - 1

LogInv == Log!TypeOK /\ Log!RotationsAreOlder /\ WritersFit /\ FilesFit /\ SizesFit

\* The nth of the files before the cth.
Before(c, n) == IF c - n >= 1 THEN c - n ELSE Log!NoFile

\* The names between two rotations, of which none stopped halfway.
AtRest ==
    /\ names[0] # Log!NoFile => names[0] = created
    /\ \A n \in 1 .. KeptRotations :
          names[n] = Before(IF names[0] = Log!NoFile THEN created + 1 ELSE created, n)

\* A rotation that has come down to the file i.
Rotated(i) ==
    /\ names[0] = created /\ created # 0 /\ names[i + 1] = Log!NoFile
    /\ \A n \in 1 .. i : names[n] = Before(created, n)
    /\ \A n \in i + 2 .. KeptRotations : names[n] = Before(created + 1, n)

\* The names, by the place of the one thread that writes.
LoneFit == ~stopped =>
    CASE writer[LoneWriter].at = "dropping" -> AtRest /\ names[0] # Log!NoFile
      [] writer[LoneWriter].at = "shifting" -> Rotated(writer[LoneWriter].index)
      [] writer[LoneWriter].at = "moving" -> Rotated(0)
      [] OTHER -> AtRest

LoneFits ==
    /\ \A w \in LogWriters \ {LoneWriter} : writer[w] = Log!Idle
    /\ IF LoneWriter \in LogWriters THEN LoneFit ELSE AtRest

LEMMA LogConstants ==
    /\ IsFiniteSet(LogWriters)
    /\ MaxFile \in Nat \ {0} /\ KeptRotations \in Nat \ {0} /\ MaxRecords \in Nat
<1>1. \A S : Log!IsFiniteSet(S) <=> IsFiniteSet(S)
    BY DEF Log!IsFiniteSet, IsFiniteSet
<1> QED  BY <1>1, PartsFit DEF Log!LogAssumption

LEMMA LogCountsAgree == \A S : Log!Cardinality(S) = Cardinality(S)
BY DEF Log!Cardinality, Cardinality

LEMMA LogSetsAreFinite ==
    /\ IsFiniteSet(Pending) /\ Cardinality(Pending) \in Nat
    /\ \A f : /\ IsFiniteSet(Awaiting(f)) /\ Cardinality(Awaiting(f)) \in Nat
              /\ Cardinality(Awaiting(f)) <= Cardinality(LogWriters)
              /\ IsFiniteSet(Log!Written(f)) /\ Cardinality(Log!Written(f)) \in Nat
    /\ Cardinality(LogWriters) \in Nat
<1>1. Pending \subseteq LogWriters /\ \A f : Awaiting(f) \subseteq LogWriters
    BY DEF Pending, Awaiting
<1>2. IsFiniteSet(1 .. MaxRecords)
    BY LogConstants, FS_Interval
<1>3. \A f : Log!Written(f) \subseteq 1 .. MaxRecords
    BY DEF Log!Written, Log!Records
<1>4. \A f : IsFiniteSet(Awaiting(f)) /\ Cardinality(Awaiting(f)) <= Cardinality(LogWriters)
    BY <1>1, LogConstants, FS_Subset
<1>5. \A f : IsFiniteSet(Log!Written(f))
    BY <1>2, <1>3, FS_Subset
<1>6. IsFiniteSet(Pending)
    BY <1>1, LogConstants, FS_Subset
<1> QED  BY <1>4, <1>5, <1>6, LogConstants, FS_CardinalityType

\* The names, through each of the three changes the code makes to them.
NamesFit ==
    /\ names \in [0 .. KeptRotations -> 0 .. MaxRecords]
    /\ created \in 0 .. MaxRecords /\ removed \subseteq 1 .. created
    /\ Log!Named = (1 .. created) \ removed
    /\ \A m, n \in DOMAIN names : m # n /\ names[m] = names[n] => names[m] = Log!NoFile
    /\ Log!RotationsAreOlder

LEMMA RenameKeepsNames ==
    ASSUME NamesFit, created' = created, NEW n \in 0 .. KeptRotations - 1, names[n] # Log!NoFile,
           names' = [names EXCEPT ![n + 1] = names[n], ![n] = Log!NoFile],
           removed' = removed \cup ({names[n + 1]} \ {Log!NoFile})
    PROVE  NamesFit'
<1>1. /\ n \in 0 .. KeptRotations /\ n + 1 \in 0 .. KeptRotations /\ n # n + 1
      /\ DOMAIN names = 0 .. KeptRotations /\ DOMAIN names' = 0 .. KeptRotations
    BY LogConstants DEF NamesFit
<1>2. /\ names'[n] = Log!NoFile /\ names'[n + 1] = names[n]
      /\ \A m \in 0 .. KeptRotations : m # n /\ m # n + 1 => names'[m] = names[m]
    BY <1>1 DEF NamesFit
<1>3. names' \in [0 .. KeptRotations -> 0 .. MaxRecords]
    BY <1>1, LogConstants DEF NamesFit, Log!NoFile
<1>4. Log!Named' = Log!Named \ {names[n + 1]}
    BY <1>1, <1>2 DEF NamesFit, Log!Named
<1>5. removed' \subseteq 1 .. created'
    <2>1. names[n + 1] # Log!NoFile => names[n + 1] \in Log!Named
        BY <1>1 DEF Log!Named
    <2> QED  BY <2>1 DEF NamesFit
<1>6. Log!Named' = (1 .. created') \ removed'
    <2>1. Log!NoFile \notin 1 .. created
        BY DEF Log!NoFile, NamesFit
    <2> QED  BY <1>4, <2>1 DEF NamesFit
<1>7. \A m, k \in DOMAIN names' : m # k /\ names'[m] = names'[k] => names'[m] = Log!NoFile
    BY <1>1, <1>2 DEF NamesFit
<1>8. Log!RotationsAreOlder'
    <2> SUFFICES ASSUME NEW m \in 0 .. KeptRotations, NEW k \in 0 .. KeptRotations, m < k,
                        names'[m] # Log!NoFile, names'[k] # Log!NoFile
                 PROVE  names'[m] > names'[k]
        BY <1>1 DEF Log!RotationsAreOlder
    <2>1. \A a, b \in 0 .. KeptRotations :
             a < b /\ names[a] # Log!NoFile /\ names[b] # Log!NoFile => names[a] > names[b]
        BY <1>1 DEF NamesFit, Log!RotationsAreOlder
    <2>2. CASE m = n + 1
        BY <1>1, <1>2, <2>1, <2>2
    <2>3. CASE k = n + 1
        <3>1. m < n
            BY <1>1, <1>2, <2>3, LogConstants
        <3> QED  BY <1>1, <1>2, <2>1, <2>3, <3>1
    <2>4. CASE m # n + 1 /\ k # n + 1
        BY <1>1, <1>2, <2>1, <2>4
    <2> QED  BY <2>2, <2>3, <2>4
<1> QED  BY <1>3, <1>5, <1>6, <1>7, <1>8 DEF NamesFit

LEMMA DropKeepsNames ==
    ASSUME NamesFit, created' = created,
           names' = [names EXCEPT ![KeptRotations] = Log!NoFile],
           removed' = removed \cup ({names[KeptRotations]} \ {Log!NoFile})
    PROVE  NamesFit'
<1>1. /\ KeptRotations \in 0 .. KeptRotations
      /\ DOMAIN names = 0 .. KeptRotations /\ DOMAIN names' = 0 .. KeptRotations
    BY LogConstants DEF NamesFit
<1>2. /\ names'[KeptRotations] = Log!NoFile
      /\ \A m \in 0 .. KeptRotations : m # KeptRotations => names'[m] = names[m]
    BY <1>1 DEF NamesFit
<1>3. names' \in [0 .. KeptRotations -> 0 .. MaxRecords]
    BY <1>1, LogConstants DEF NamesFit, Log!NoFile
<1>4. Log!Named' = Log!Named \ {names[KeptRotations]}
    BY <1>1, <1>2 DEF NamesFit, Log!Named
<1>5. removed' \subseteq 1 .. created'
    <2>1. names[KeptRotations] # Log!NoFile => names[KeptRotations] \in Log!Named
        BY <1>1 DEF Log!Named
    <2> QED  BY <2>1 DEF NamesFit
<1>6. Log!Named' = (1 .. created') \ removed'
    <2>1. Log!NoFile \notin 1 .. created
        BY DEF Log!NoFile, NamesFit
    <2> QED  BY <1>4, <2>1 DEF NamesFit
<1>7. \A m, k \in DOMAIN names' : m # k /\ names'[m] = names'[k] => names'[m] = Log!NoFile
    BY <1>1, <1>2 DEF NamesFit
<1>8. Log!RotationsAreOlder'
    BY <1>1, <1>2 DEF NamesFit, Log!RotationsAreOlder
<1> QED  BY <1>3, <1>5, <1>6, <1>7, <1>8 DEF NamesFit

LEMMA NewFileKeepsNames ==
    ASSUME NamesFit, names[0] = Log!NoFile, created' = created + 1, created + 1 <= MaxRecords,
           names' = [names EXCEPT ![0] = created + 1], removed' = removed
    PROVE  NamesFit'
<1>1. /\ 0 \in 0 .. KeptRotations /\ created \in Nat
      /\ DOMAIN names = 0 .. KeptRotations /\ DOMAIN names' = 0 .. KeptRotations
    BY LogConstants DEF NamesFit
<1>2. /\ names'[0] = created + 1
      /\ \A m \in 0 .. KeptRotations : m # 0 => names'[m] = names[m]
    BY <1>1 DEF NamesFit
<1>3. created' \in 0 .. MaxRecords /\ names' \in [0 .. KeptRotations -> 0 .. MaxRecords]
    BY <1>1, LogConstants DEF NamesFit
<1>4. \A m \in 0 .. KeptRotations : names[m] # Log!NoFile => names[m] \in 1 .. created
    BY <1>1 DEF NamesFit, Log!Named
<1>5. Log!Named' = Log!Named \cup {created + 1}
    BY <1>1, <1>2 DEF NamesFit, Log!Named, Log!NoFile
<1>6. removed' \subseteq 1 .. created' /\ Log!Named' = (1 .. created') \ removed'
    BY <1>1, <1>5 DEF NamesFit
<1>7. \A m, k \in DOMAIN names' : m # k /\ names'[m] = names'[k] => names'[m] = Log!NoFile
    BY <1>1, <1>2, <1>4 DEF NamesFit, Log!NoFile
<1>8. Log!RotationsAreOlder'
    BY <1>1, <1>2, <1>4 DEF NamesFit, Log!RotationsAreOlder, Log!NoFile
<1> QED  BY <1>3, <1>6, <1>7, <1>8 DEF NamesFit

\* What is added to a sequence is its last, and what was there stays.
LEMMA EndOfAppended ==
    \A S : \A s \in Seq(S) : \A x \in S :
        /\ DOMAIN Append(s, x) = DOMAIN s \cup {Len(s) + 1}
        /\ Append(s, x)[Len(s) + 1] = x
        /\ \A i \in DOMAIN s : Append(s, x)[i] = s[i]
OBVIOUS

\* The writers and the bounds of what they create and write.
RecordsFit ==
    /\ contents \in [Log!Files -> Seq(0 .. MaxRecords)]
    /\ begun \in 0 .. MaxRecords /\ writer \in [LogWriters -> Log!WriterStates]
    /\ stopped \in BOOLEAN

LEMMA LogInvIs == LogInv <=> NamesFit /\ RecordsFit /\ WritersFit /\ FilesFit /\ SizesFit
BY DEF LogInv, Log!TypeOK, NamesFit, RecordsFit

LEMMA LogInvNext == LogInv' <=> NamesFit' /\ RecordsFit' /\ WritersFit' /\ FilesFit' /\ SizesFit'
BY DEF LogInv, Log!TypeOK, NamesFit, RecordsFit

\* Nothing grows: what is to be written to each file is no more than before.
LEMMA SizesStay ==
    ASSUME SizesFit, ~stopped' => ~stopped,
           \A f \in Log!Files : Log!Written(f)' = Log!Written(f) /\ Awaiting(f)' \subseteq Awaiting(f)
    PROVE  SizesFit'
<1> SUFFICES ASSUME ~stopped', NEW f \in Log!Files
             PROVE  Cardinality(Log!Written(f)') + Cardinality(Awaiting(f)')
                       <= MaxFile + Cardinality(LogWriters) - 1
    BY DEF SizesFit
<1>1. Cardinality(Log!Written(f)) + Cardinality(Awaiting(f))
         <= MaxFile + Cardinality(LogWriters) - 1
    BY DEF SizesFit
<1>2. PICK more : more = Awaiting(f)
    OBVIOUS
<1>3. PICK less : less = Awaiting(f)'
    OBVIOUS
<1>4. Cardinality(less) <= Cardinality(more) /\ Cardinality(less) \in Nat
    BY <1>2, <1>3, LogSetsAreFinite, FS_Subset, FS_CardinalityType
<1> QED  BY <1>1, <1>2, <1>3, <1>4, LogSetsAreFinite, LogConstants

LEMMA WriterMoves ==
    ASSUME RecordsFit, NEW w \in LogWriters, NEW s, s \in Log!WriterStates,
           writer' = [writer EXCEPT ![w] = s]
    PROVE  /\ (writer \in [LogWriters -> Log!WriterStates])'
           /\ writer'[w] = s /\ \A v \in LogWriters : v # w => writer'[v] = writer[v]
BY DEF RecordsFit

LEMMA FreeThread ==
    /\ Log!Idle \in Log!WriterStates /\ Log!Idle.at = "idle"
    /\ Log!Idle.index = 0 /\ Log!Idle.file = 0 /\ Log!Idle.record = 0
BY LogConstants DEF Log!Idle, Log!WriterStates, Log!NoFile

\* A step of one thread that lets no file grow and creates none.
LEMMA WriterStepStays ==
    ASSUME LogInv, NamesFit', created' = created, \A f \in Log!Files : names'[0] = f => names[0] = f,
           contents' \in [Log!Files -> Seq(0 .. MaxRecords)],
           \A f \in Log!Files : Log!Written(f)' = Log!Written(f),
           \A f \in Log!Files : f > created => contents'[f] = <<>>,
           ~stopped' => ~stopped, stopped' \in BOOLEAN,
           NEW w \in LogWriters, NEW s \in Log!WriterStates, writer' = [writer EXCEPT ![w] = s],
           s.at = "shifting" => s.index \in 1 .. KeptRotations - 1,
           s.at \in {"writing", "ending"} =>
              \/ writer[w].at = s.at /\ s.file = writer[w].file
              \/ /\ writer[w].at = "opening" /\ s.at = "writing"
                 /\ s.file = names[0] /\ names[0] # Log!NoFile,
           s.at = "opening" /\ ~stopped' => names'[0] = Log!NoFile,
           \/ begun' = begun /\ (w \in Pending' => w \in Pending)
           \/ begun' = begun + 1 /\ begun < MaxRecords
    PROVE  LogInv'
<1> USE LogInvIs, LogInvNext
<1>1. /\ (writer \in [LogWriters -> Log!WriterStates])'
      /\ writer'[w] = s /\ \A v \in LogWriters : v # w => writer'[v] = writer[v]
    BY WriterMoves
<1>2. names[0] # Log!NoFile => names[0] \in 1 .. created
    <2>1. 0 \in DOMAIN names
        BY LogConstants DEF NamesFit
    <2> QED  BY <2>1 DEF NamesFit, Log!Named
<1>3. RecordsFit'
    BY <1>1, LogConstants DEF RecordsFit
<1>4. WritersFit'
    <2> SUFFICES ASSUME NEW v \in LogWriters
                 PROVE  /\ writer'[v].at = "shifting" => writer'[v].index \in 1 .. KeptRotations - 1
                        /\ writer'[v].at \in {"writing", "ending"} => writer'[v].file \in 1 .. created
        BY DEF WritersFit
    <2>1. CASE v = w
        BY <1>1, <1>2, <2>1 DEF WritersFit
    <2>2. CASE v # w
        BY <1>1, <2>2 DEF WritersFit
    <2> QED  BY <2>1, <2>2
<1>5. FilesFit'
    <2>1. created' + Cardinality(Pending') <= begun'
        <3>1. PICK before : before = Pending
            OBVIOUS
        <3>2. PICK after : after = Pending'
            OBVIOUS
        <3>3. after \subseteq before \cup {w}
            BY <1>1, <3>1, <3>2 DEF Pending
        <3>4. IsFiniteSet(before) /\ Cardinality(before) \in Nat /\ created + Cardinality(before) <= begun
            BY <3>1, LogSetsAreFinite DEF FilesFit
        <3>5. created \in Nat /\ begun \in Nat
            BY LogConstants DEF NamesFit, RecordsFit
        <3>6. CASE begun' = begun /\ (w \in Pending' => w \in Pending)
            <4>1. after \subseteq before
                BY <3>1, <3>2, <3>3, <3>6
            <4>2. Cardinality(after) <= Cardinality(before) /\ Cardinality(after) \in Nat
                BY <3>4, <4>1, FS_Subset, FS_CardinalityType
            <4> QED  BY <3>2, <3>4, <3>5, <3>6, <4>2
        <3>7. CASE begun' = begun + 1
            <4> DEFINE both == before \cup {w}
            <4>a. /\ IsFiniteSet(both)
                  /\ Cardinality(both) = IF w \in before THEN Cardinality(before)
                                         ELSE Cardinality(before) + 1
                BY <3>4, FS_AddElement
            <4>1. /\ IsFiniteSet(both) /\ Cardinality(both) <= Cardinality(before) + 1
                  /\ Cardinality(both) \in Nat
                BY <3>4, <4>a
            <4>2. Cardinality(after) <= Cardinality(both) /\ Cardinality(after) \in Nat
                BY <3>3, <4>1, FS_Subset, FS_CardinalityType
            <4> QED  BY <3>2, <3>4, <3>5, <3>7, <4>1, <4>2
        <3> QED  BY <3>6, <3>7
    <2>2. \A f \in Log!Files' : f > created' => contents'[f] = <<>>
        BY DEF Log!Files
    <2> QED  BY <2>1, <2>2 DEF FilesFit
<1>6. CASE stopped'
    BY <1>3, <1>4, <1>5, <1>6 DEF SizesFit
<1>7. CASE ~stopped'
    <2>2. \A f \in Log!Files : Awaiting(f)' \subseteq Awaiting(f)
        <3> SUFFICES ASSUME NEW f \in Log!Files, NEW v \in LogWriters, v \in Awaiting(f)'
                     PROVE  v \in Awaiting(f)
            BY DEF Awaiting
        <3>1. CASE v # w
            BY <1>1, <3>1 DEF Awaiting
        <3>2. CASE v = w
            <4>1. f # Log!NoFile
                BY DEF Log!Files, Log!NoFile
            <4> QED  BY <1>1, <1>7, <3>2, <4>1 DEF Awaiting
        <3> QED  BY <3>1, <3>2
    <2>3. \A f \in Log!Files : Log!Written(f)' = Log!Written(f)
        OBVIOUS
    <2>4. SizesFit'
        BY <2>2, <2>3, SizesStay
    <2> QED  BY <1>3, <1>4, <1>5, <2>4
<1> QED  BY <1>6, <1>7, <1>3 DEF RecordsFit

LEMMA NamesStay ==
    NamesFit /\ UNCHANGED <<names, created, removed>> => NamesFit'
BY DEF NamesFit, Log!Named, Log!RotationsAreOlder

LEMMA ContentsStay ==
    ASSUME LogInv, contents' = contents
    PROVE  /\ contents' \in [Log!Files -> Seq(0 .. MaxRecords)]
           /\ \A f \in Log!Files : Log!Written(f)' = Log!Written(f)
           /\ \A f \in Log!Files : f > created => contents'[f] = <<>>
BY DEF LogInv, Log!TypeOK, FilesFit, Log!Written

LEMMA CurrentName ==
    LogInv => /\ 0 \in DOMAIN names /\ names[0] \in 0 .. MaxRecords
              /\ names[0] # Log!NoFile => names[0] \in 1 .. created
              /\ created \in 0 .. MaxRecords
BY LogConstants DEF LogInv, Log!TypeOK, Log!Named

LEMMA RecordEventKeeps ==
    ASSUME LogInv, NEW w \in LogWriters, Log!RecordEvent(w)
    PROVE  LogInv'
<1>1. PICK s : s = [Log!Idle EXCEPT !.at = "checking", !.record = begun + 1]
    OBVIOUS
<1>2. /\ UNCHANGED <<names, contents, created, removed, stopped>>
      /\ writer' = [writer EXCEPT ![w] = s] /\ begun' = begun + 1 /\ begun < MaxRecords
    BY <1>1 DEF Log!RecordEvent
<1>3. s \in Log!WriterStates /\ s.at = "checking"
    <2>1. s = [at |-> "checking", record |-> begun + 1, file |-> 0, index |-> 0]
        BY <1>1 DEF Log!Idle, Log!NoFile
    <2>2. begun + 1 \in 0 .. MaxRecords /\ 0 \in 0 .. MaxRecords /\ 0 \in 0 .. KeptRotations
        BY <1>2, LogConstants DEF LogInv, Log!TypeOK
    <2> QED  BY <2>1, <2>2 DEF Log!WriterStates
<1> QED  BY <1>2, <1>3, NamesStay, ContentsStay, WriterStepStays, LogInvIs DEF LogInv, Log!TypeOK

LEMMA RotationFailsKeeps ==
    ASSUME LogInv, NEW w \in LogWriters, Log!RotationFails(w)
    PROVE  LogInv'
<1>1. PICK s : s = [writer[w] EXCEPT !.at = "opening"]
    OBVIOUS
<1>2. writer[w] \in Log!WriterStates
    BY DEF LogInv, Log!TypeOK
<1>3. s \in Log!WriterStates /\ s.at = "opening"
    BY <1>1, <1>2 DEF Log!WriterStates
<1>4. /\ UNCHANGED <<names, contents, created, begun, removed>> /\ stopped' = TRUE
      /\ writer[w].at \in {"dropping", "shifting", "moving"}
      /\ writer' = [writer EXCEPT ![w] = s]
    BY <1>1 DEF Log!RotationFails, Log!Step
<1>5. w \in Pending
    BY <1>4 DEF Pending
<1> QED  BY <1>3, <1>4, <1>5, NamesStay, ContentsStay, WriterStepStays, LogInvIs

LEMMA RecordFailsKeeps ==
    ASSUME LogInv, NEW w \in LogWriters, Log!RecordFails(w)
    PROVE  LogInv'
<1>1. PICK s : s = Log!Idle
    OBVIOUS
<1>2. /\ UNCHANGED <<names, contents, created, begun, removed, stopped>>
      /\ writer' = [writer EXCEPT ![w] = s]
    BY <1>1 DEF Log!RecordFails
<1>3. s \in Log!WriterStates /\ s.at = "idle"
    BY <1>1, FreeThread
<1>4. w \notin Pending'
    <2>1. writer'[w] = s
        BY <1>2, <1>3 DEF LogInv, Log!TypeOK
    <2> QED  BY <1>3, <2>1 DEF Pending
<1> QED  BY <1>2, <1>3, <1>4, NamesStay, ContentsStay, WriterStepStays, LogInvIs DEF LogInv,
            Log!TypeOK

LEMMA EndLineKeeps ==
    ASSUME LogInv, NEW w \in LogWriters, Log!EndLine(w)
    PROVE  LogInv'
<1>1. PICK s : s = Log!Idle
    OBVIOUS
<1>2. /\ UNCHANGED <<names, created, begun, removed, stopped>>
      /\ writer' = [writer EXCEPT ![w] = s] /\ writer[w].at = "ending"
      /\ contents' = [contents EXCEPT ![writer[w].file] = Append(@, Log!LineEnd)]
    BY <1>1 DEF Log!EndLine, Log!Put
<1>3. s \in Log!WriterStates /\ s.at = "idle"
    BY <1>1, FreeThread
<1>4. w \notin Pending'
    <2>1. writer'[w] = s
        BY <1>2, <1>3 DEF LogInv, Log!TypeOK
    <2> QED  BY <1>3, <2>1 DEF Pending
<1>5. PICK target : target = writer[w].file /\ target \in 1 .. created /\ target \in Log!Files
    BY <1>2, CurrentName, LogConstants DEF LogInv, WritersFit, Log!Files
<1>6. /\ contents \in [Log!Files -> Seq(0 .. MaxRecords)]
      /\ contents' = [contents EXCEPT ![target] = Append(@, 0)]
    BY <1>2, <1>5 DEF LogInv, Log!TypeOK, Log!LineEnd
<1>7. /\ contents' \in [Log!Files -> Seq(0 .. MaxRecords)]
      /\ contents'[target] = Append(contents[target], 0)
      /\ \A f \in Log!Files : f # target => contents'[f] = contents[f]
    BY <1>5, <1>6, LogConstants
<1>8. ASSUME NEW f \in Log!Files
      PROVE  /\ Log!Written(f)' = Log!Written(f)
             /\ f > created => contents'[f] = <<>>
    <2>1. CASE f # target
        BY <1>7, <2>1 DEF Log!Written, LogInv, FilesFit
    <2>2. CASE f = target
        <3>1. contents[target] \in Seq(0 .. MaxRecords)
            BY <1>5, <1>6
        <3>2. /\ DOMAIN contents'[target] = DOMAIN contents[target] \cup {Len(contents[target]) + 1}
              /\ contents'[target][Len(contents[target]) + 1] = 0
              /\ \A i \in DOMAIN contents[target] : contents'[target][i] = contents[target][i]
            BY <1>7, <3>1
        <3>3. ASSUME NEW n \in 1 .. MaxRecords
              PROVE  (\E i \in DOMAIN contents'[target] : contents'[target][i] = n)
                        <=> (\E i \in DOMAIN contents[target] : contents[target][i] = n)
            BY <3>2
        <3>4. Log!Written(target)' = Log!Written(target)
            BY <1>5, <3>3 DEF Log!Written, Log!Records
        <3>5. ~(target > created)
            BY <1>5, CurrentName
        <3> QED  BY <1>5, <2>2, <3>4, <3>5
    <2> QED  BY <2>1, <2>2
<1> QED  BY <1>2, <1>3, <1>4, <1>7, <1>8, NamesStay, WriterStepStays, LogInvIs DEF LogInv,
            Log!TypeOK

LEMMA DropOldestKeeps ==
    ASSUME LogInv, NEW w \in LogWriters, Log!DropOldest(w)
    PROVE  LogInv'
<1>1. PICK s : s = [writer[w] EXCEPT !.at = IF KeptRotations > 1 THEN "shifting" ELSE "moving",
                                     !.index = KeptRotations - 1]
    OBVIOUS
<1>2. writer \in [LogWriters -> Log!WriterStates] /\ writer[w] \in Log!WriterStates
    BY DEF LogInv, Log!TypeOK
<1>3. /\ s \in Log!WriterStates /\ s.at \in {"shifting", "moving"}
      /\ s.at = "shifting" => s.index \in 1 .. KeptRotations - 1
    <2>1. KeptRotations - 1 \in 0 .. KeptRotations /\ (KeptRotations > 1 => KeptRotations - 1 \in 1 .. KeptRotations - 1)
        BY LogConstants
    <2>2. PICK at : at = IF KeptRotations > 1 THEN "shifting" ELSE "moving"
        OBVIOUS
    <2>3. s = [at |-> at, record |-> writer[w].record, file |-> writer[w].file, index |-> KeptRotations - 1]
        BY <1>1, <1>2, <2>2 DEF Log!WriterStates
    <2> QED  BY <1>2, <2>1, <2>2, <2>3 DEF Log!WriterStates
<1>4. /\ UNCHANGED <<contents, created, begun, stopped>> /\ writer[w].at = "dropping"
      /\ names' = [names EXCEPT ![KeptRotations] = Log!NoFile]
      /\ removed' = removed \cup ({names[KeptRotations]} \ {Log!NoFile})
    BY DEF Log!DropOldest
<1>5. writer' = [writer EXCEPT ![w] = s]
    BY <1>1, <1>2 DEF Log!DropOldest
<1>6. NamesFit'
    BY <1>4, LogInvIs, DropKeepsNames
<1>7. names'[0] = names[0]
    BY <1>4, CurrentName, LogConstants
<1>8. w \in Pending
    BY <1>4 DEF Pending
<1> QED  BY <1>3, <1>4, <1>5, <1>6, <1>7, <1>8, ContentsStay, WriterStepStays DEF LogInv, Log!TypeOK

LEMMA ShiftKeeps ==
    ASSUME LogInv, NEW w \in LogWriters, Log!Shift(w)
    PROVE  LogInv'
<1>1. PICK n : n = writer[w].index
    OBVIOUS
<1>2. PICK s : s = [writer[w] EXCEPT !.at = IF n > 1 THEN "shifting" ELSE "moving", !.index = @ - 1]
    OBVIOUS
<1>3. writer \in [LogWriters -> Log!WriterStates] /\ writer[w] \in Log!WriterStates
    BY DEF LogInv, Log!TypeOK
<1>4. /\ UNCHANGED <<contents, created, begun, stopped>> /\ writer[w].at = "shifting"
      /\ IF names[n] = Log!NoFile THEN UNCHANGED <<names, removed>> ELSE Log!Rename(n, n + 1)
    BY <1>1 DEF Log!Shift
<1>5. n \in 1 .. KeptRotations - 1 /\ n \in Int
    BY <1>1, <1>4, LogConstants DEF LogInv, WritersFit
<1>6. s.at \in {"shifting", "moving"} /\ s.index = n - 1 /\ (s.at = "shifting" => n > 1)
    BY <1>1, <1>2, <1>3 DEF Log!WriterStates
<1>6a. s \in Log!WriterStates
    <2>1. n - 1 \in 0 .. KeptRotations
        BY <1>5, LogConstants
    <2>2. s = [at |-> s.at, record |-> writer[w].record, file |-> writer[w].file, index |-> n - 1]
        BY <1>1, <1>2, <1>3 DEF Log!WriterStates
    <2> QED  BY <1>3, <1>6, <2>1, <2>2 DEF Log!WriterStates
<1>7. writer' = [writer EXCEPT ![w] = s]
    BY <1>1, <1>2, <1>3 DEF Log!Shift
<1>8. NamesFit' /\ names'[0] = names[0]
    <2>1. CASE names[n] = Log!NoFile
        BY <1>4, <2>1, NamesStay, LogInvIs
    <2>2. CASE names[n] # Log!NoFile
        <3>1. /\ names' = [names EXCEPT ![n + 1] = names[n], ![n] = Log!NoFile]
              /\ removed' = removed \cup ({names[n + 1]} \ {Log!NoFile})
            BY <1>4, <2>2 DEF Log!Rename
        <3>2. n \in 0 .. KeptRotations - 1
            BY <1>5, LogConstants
        <3>3. names'[0] = names[0]
            BY <1>5, <3>1, CurrentName
        <3> QED  BY <1>4, <2>2, <3>1, <3>2, <3>3, LogInvIs, RenameKeepsNames
    <2> QED  BY <2>1, <2>2
<1>9. w \in Pending
    BY <1>4 DEF Pending
<1>10. s.at = "shifting" => s.index \in 1 .. KeptRotations - 1
    BY <1>5, <1>6, LogConstants
<1> QED  BY <1>4, <1>6, <1>6a, <1>7, <1>8, <1>9, <1>10, ContentsStay, WriterStepStays
         DEF LogInv, Log!TypeOK

LEMMA MoveCurrentKeeps ==
    ASSUME LogInv, NEW w \in LogWriters, Log!MoveCurrent(w)
    PROVE  LogInv'
<1>1. PICK s : s = [writer[w] EXCEPT !.at = "opening"]
    OBVIOUS
<1>2. writer[w] \in Log!WriterStates
    BY DEF LogInv, Log!TypeOK
<1>3. s \in Log!WriterStates /\ s.at = "opening"
    BY <1>1, <1>2 DEF Log!WriterStates
<1>4. /\ UNCHANGED <<contents, created, begun, stopped>> /\ writer[w].at = "moving"
      /\ writer' = [writer EXCEPT ![w] = s]
      /\ IF names[0] = Log!NoFile THEN UNCHANGED <<names, removed>> ELSE Log!Rename(0, 1)
    BY <1>1 DEF Log!MoveCurrent, Log!Step
<1>5. NamesFit' /\ names'[0] = Log!NoFile
    <2>1. CASE names[0] = Log!NoFile
        BY <1>4, <2>1, NamesStay, LogInvIs
    <2>2. CASE names[0] # Log!NoFile
        <3>1. PICK n : n = 0
            OBVIOUS
        <3>2. /\ names' = [names EXCEPT ![n + 1] = names[n], ![n] = Log!NoFile]
              /\ removed' = removed \cup ({names[n + 1]} \ {Log!NoFile})
            BY <1>4, <2>2, <3>1 DEF Log!Rename
        <3>3. n \in 0 .. KeptRotations - 1
            BY <3>1, LogConstants
        <3>4. names'[0] = Log!NoFile
            BY <3>1, <3>2, CurrentName
        <3> QED  BY <1>4, <2>2, <3>1, <3>2, <3>3, <3>4, LogInvIs, RenameKeepsNames
    <2> QED  BY <2>1, <2>2
<1>6. w \in Pending
    BY <1>4 DEF Pending
<1>7. \A f \in Log!Files : names'[0] # f
    BY <1>5 DEF Log!Files, Log!NoFile
<1> QED  BY <1>3, <1>4, <1>5, <1>6, <1>7, ContentsStay, WriterStepStays DEF LogInv, Log!TypeOK

LEMMA CheckKeeps ==
    ASSUME LogInv, NEW w \in LogWriters, Log!Check(w)
    PROVE  LogInv'
<1>1. PICK s : s = [writer[w] EXCEPT !.at =
                       IF Log!ShouldRotate(names[0]) THEN "dropping" ELSE "opening"]
    OBVIOUS
<1>2. writer \in [LogWriters -> Log!WriterStates] /\ writer[w] \in Log!WriterStates
    BY DEF LogInv, Log!TypeOK
<1>3. /\ s \in Log!WriterStates
      /\ s.at = IF Log!ShouldRotate(names[0]) THEN "dropping" ELSE "opening"
    BY <1>1, <1>2 DEF Log!WriterStates
<1>4. /\ UNCHANGED <<names, contents, created, begun, removed, stopped>> /\ writer[w].at = "checking"
      /\ writer' = [writer EXCEPT ![w] = s]
    BY <1>1 DEF Log!Check, Log!Step
<1>5. w \in Pending
    BY <1>4 DEF Pending
<1>6. CASE Log!ShouldRotate(names[0]) \/ names[0] = Log!NoFile
    BY <1>3, <1>4, <1>5, <1>6, NamesStay, ContentsStay, WriterStepStays, LogInvIs
       DEF LogInv, Log!TypeOK, Log!ShouldRotate
<1>7. CASE ~Log!ShouldRotate(names[0]) /\ names[0] # Log!NoFile
    <2>1. /\ (writer \in [LogWriters -> Log!WriterStates])'
          /\ writer'[w] = s /\ \A v \in LogWriters : v # w => writer'[v] = writer[v]
        BY <1>2, <1>3, <1>4
    <2>2. s.at = "opening"
        BY <1>3, <1>7
    <2>3. Pending' = Pending
        BY <1>5, <2>1, <2>2 DEF Pending
    <2>4. NamesFit' /\ RecordsFit' /\ FilesFit'
        BY <1>4, <2>1, <2>3, NamesStay, LogInvIs DEF RecordsFit, FilesFit, Log!Files
    <2>5. WritersFit'
        BY <1>4, <2>1, <2>2 DEF LogInv, WritersFit
    <2>6. SizesFit'
        <3> SUFFICES ASSUME ~stopped, NEW f \in Log!Files
                     PROVE  Cardinality(Log!Written(f)) + Cardinality(Awaiting(f)')
                               <= MaxFile + Cardinality(LogWriters) - 1
            BY <1>4 DEF SizesFit, Log!Files, Log!Written
        <3>1. CASE f = names[0]
            <4>1. Cardinality(Log!Written(f)) + 1 <= MaxFile
                <5>1. ~(Log!Size(f) + 1 > MaxFile)
                    BY <1>7, <3>1 DEF Log!ShouldRotate
                <5>2. Log!Size(f) = Cardinality(Log!Written(f))
                    BY LogCountsAgree DEF Log!Size
                <5> QED  BY <5>1, <5>2, LogSetsAreFinite, LogConstants
            <4>2. PICK those : those = Awaiting(f)'
                OBVIOUS
            <4>3. Cardinality(those) <= Cardinality(LogWriters) /\ Cardinality(those) \in Nat
                <5>1. those \subseteq LogWriters
                    BY <4>2 DEF Awaiting
                <5> QED  BY <5>1, LogConstants, FS_Subset, FS_CardinalityType
            <4> QED  BY <4>1, <4>2, <4>3, LogSetsAreFinite, LogConstants
        <3>2. CASE f # names[0]
            <4>1. Awaiting(f)' = Awaiting(f)
                BY <1>4, <2>1, <2>2, <3>2 DEF Awaiting
            <4> QED  BY <4>1 DEF LogInv, SizesFit
        <3> QED  BY <3>1, <3>2
    <2> QED  BY <2>4, <2>5, <2>6, LogInvNext
<1> QED  BY <1>6, <1>7

LEMMA OpenKeeps ==
    ASSUME LogInv, NEW w \in LogWriters, Log!Open(w)
    PROVE  LogInv'
<1>1. /\ writer[w].at = "opening" /\ UNCHANGED <<contents, begun, removed, stopped>>
      /\ writer \in [LogWriters -> Log!WriterStates] /\ writer[w] \in Log!WriterStates
    BY DEF LogInv, Log!TypeOK, Log!Open
<1>2. w \in Pending
    BY <1>1 DEF Pending
<1>3. CASE names[0] # Log!NoFile
    <2>1. PICK s : s = [writer[w] EXCEPT !.at = "writing", !.file = names[0]]
        OBVIOUS
    <2>2. s \in Log!WriterStates /\ s.at = "writing" /\ s.file = names[0]
        BY <1>1, <2>1, CurrentName DEF Log!WriterStates
    <2>3. UNCHANGED <<created, names>> /\ writer' = [writer EXCEPT ![w] = s]
        BY <1>1, <1>3, <2>1 DEF Log!Open
    <2> QED  BY <1>1, <1>2, <1>3, <2>2, <2>3, NamesStay, ContentsStay, WriterStepStays, LogInvIs
                DEF LogInv, Log!TypeOK
<1>4. CASE names[0] = Log!NoFile
    <2>1. PICK s : s = [writer[w] EXCEPT !.at = "writing", !.file = created + 1]
        OBVIOUS
    <2>2. /\ created' = created + 1 /\ names' = [names EXCEPT ![0] = created + 1]
          /\ writer' = [writer EXCEPT ![w] = s]
        BY <1>1, <1>4, <2>1 DEF Log!Open
    <2>3. created \in Nat /\ begun \in 0 .. MaxRecords
        BY CurrentName DEF LogInv, Log!TypeOK
    <2>4. /\ created + 1 <= MaxRecords
          /\ Cardinality(Pending \ {w}) = Cardinality(Pending) - 1
          /\ Cardinality(Pending) \in Nat /\ created + Cardinality(Pending) <= begun
        <3>1. /\ IsFiniteSet(Pending \ {w}) /\ Cardinality(Pending \ {w}) = Cardinality(Pending) - 1
            BY <1>2, LogSetsAreFinite, FS_RemoveElement
        <3>2. Cardinality(Pending \ {w}) \in Nat
            BY <3>1, FS_CardinalityType
        <3> QED  BY <2>3, <3>1, <3>2, LogSetsAreFinite, LogConstants DEF LogInv, FilesFit
    <2>5. s \in Log!WriterStates /\ s.at = "writing" /\ s.file = created + 1
        <3>1. created + 1 \in 0 .. MaxRecords
            BY <2>3, <2>4, LogConstants
        <3> QED  BY <1>1, <2>1, <3>1 DEF Log!WriterStates
    <2>6. /\ (writer \in [LogWriters -> Log!WriterStates])'
          /\ writer'[w] = s /\ \A v \in LogWriters : v # w => writer'[v] = writer[v]
        BY <1>1, <2>2, <2>5
    <2>7. Pending' = Pending \ {w}
        BY <2>5, <2>6 DEF Pending
    <2>8. NamesFit'
        BY <1>1, <1>4, <2>2, <2>4, LogInvIs, NewFileKeepsNames
    <2>9. RecordsFit'
        BY <1>1, <2>6, LogInvIs DEF RecordsFit, Log!Files
    <2>10. FilesFit'
        <3>1. created' + Cardinality(Pending') <= begun'
            BY <1>1, <2>2, <2>3, <2>4, <2>7
        <3>2. \A f \in Log!Files : f > created' => contents'[f] = <<>>
            BY <1>1, <2>2, <2>3, LogConstants DEF LogInv, FilesFit, Log!Files
        <3> QED  BY <3>1, <3>2 DEF FilesFit, Log!Files
    <2>11. WritersFit'
        <3> SUFFICES ASSUME NEW v \in LogWriters
                     PROVE  /\ writer'[v].at = "shifting" => writer'[v].index \in 1 .. KeptRotations - 1
                            /\ writer'[v].at \in {"writing", "ending"} => writer'[v].file \in 1 .. created'
            BY DEF WritersFit
        <3>1. CASE v = w
            BY <2>2, <2>3, <2>5, <2>6, <3>1
        <3>2. CASE v # w
            BY <2>2, <2>3, <2>6, <3>2 DEF LogInv, WritersFit
        <3> QED  BY <3>1, <3>2
    <2>12. SizesFit'
        <3> SUFFICES ASSUME ~stopped, NEW f \in Log!Files
                     PROVE  Cardinality(Log!Written(f)) + Cardinality(Awaiting(f)')
                               <= MaxFile + Cardinality(LogWriters) - 1
            BY <1>1 DEF SizesFit, Log!Files, Log!Written
        <3>1. names'[0] = created + 1
            BY <2>2, CurrentName
        <3>2. CASE f = created + 1
            <4>1. contents[f] = <<>>
                BY <2>3, <3>2 DEF LogInv, FilesFit
            <4>2. Log!Written(f) = {}
                BY <4>1 DEF Log!Written
            <4>3. PICK those : those = Awaiting(f)'
                OBVIOUS
            <4>4. Cardinality(those) <= Cardinality(LogWriters) /\ Cardinality(those) \in Nat
                <5>1. those \subseteq LogWriters
                    BY <4>3 DEF Awaiting
                <5> QED  BY <5>1, LogConstants, FS_Subset, FS_CardinalityType
            <4>5. Cardinality(Log!Written(f)) = 0
                BY <4>2, FS_EmptySet
            <4> QED  BY <4>3, <4>4, <4>5, LogSetsAreFinite, LogConstants
        <3>3. CASE f # created + 1
            <4>1. Awaiting(f)' \subseteq Awaiting(f)
                BY <2>5, <2>6, <3>1, <3>3 DEF Awaiting
            <4>2. PICK those : those = Awaiting(f)'
                OBVIOUS
            <4>3. Cardinality(those) <= Cardinality(Awaiting(f)) /\ Cardinality(those) \in Nat
                BY <4>1, <4>2, LogSetsAreFinite, FS_Subset, FS_CardinalityType
            <4> QED  BY <4>2, <4>3, LogSetsAreFinite, LogConstants DEF LogInv, SizesFit
        <3> QED  BY <3>2, <3>3
    <2> QED  BY <2>8, <2>9, <2>10, <2>11, <2>12, LogInvNext
<1> QED  BY <1>3, <1>4

LEMMA WriteLineKeeps ==
    ASSUME LogInv, NEW w \in LogWriters, Log!WriteLine(w)
    PROVE  LogInv'
<1>1. PICK s : s = [writer[w] EXCEPT !.at = "ending"]
    OBVIOUS
<1>2. /\ writer[w].at = "writing" /\ UNCHANGED <<names, created, begun, removed, stopped>>
      /\ writer' = [writer EXCEPT ![w] = s]
      /\ contents' = [contents EXCEPT ![writer[w].file] = Append(@, writer[w].record)]
    BY <1>1 DEF Log!WriteLine, Log!Put, Log!Step
<1>3. /\ writer \in [LogWriters -> Log!WriterStates] /\ writer[w] \in Log!WriterStates
      /\ contents \in [Log!Files -> Seq(0 .. MaxRecords)]
    BY DEF LogInv, Log!TypeOK
<1>4. s \in Log!WriterStates /\ s.at = "ending" /\ s.file = writer[w].file
    BY <1>1, <1>3 DEF Log!WriterStates
<1>5. /\ (writer \in [LogWriters -> Log!WriterStates])'
      /\ writer'[w] = s /\ \A v \in LogWriters : v # w => writer'[v] = writer[v]
    BY <1>2, <1>3, <1>4
<1>6. PICK target : target = writer[w].file /\ target \in 1 .. created /\ target \in Log!Files
    BY <1>2, CurrentName, LogConstants DEF LogInv, WritersFit, Log!Files
<1>7. PICK number : number = writer[w].record /\ number \in 0 .. MaxRecords
    BY <1>3 DEF Log!WriterStates
<1>8. /\ contents' \in [Log!Files -> Seq(0 .. MaxRecords)]
      /\ contents'[target] = Append(contents[target], number)
      /\ \A f \in Log!Files : f # target => contents'[f] = contents[f]
    BY <1>2, <1>3, <1>6, <1>7
<1>9. Pending' = Pending
    BY <1>2, <1>4, <1>5 DEF Pending
<1>10. NamesFit' /\ RecordsFit'
    BY <1>2, <1>5, <1>8, NamesStay, LogInvIs DEF RecordsFit, Log!Files
<1>11. FilesFit'
    <2>1. \A f \in Log!Files : f > created' => contents'[f] = <<>>
        BY <1>2, <1>6, <1>8, CurrentName DEF LogInv, FilesFit
    <2> QED  BY <1>2, <1>9, <2>1 DEF LogInv, FilesFit, Log!Files
<1>12. WritersFit'
    <2> SUFFICES ASSUME NEW v \in LogWriters
                 PROVE  /\ writer'[v].at = "shifting" => writer'[v].index \in 1 .. KeptRotations - 1
                        /\ writer'[v].at \in {"writing", "ending"} => writer'[v].file \in 1 .. created'
        BY DEF WritersFit
    <2>1. CASE v = w
        BY <1>2, <1>4, <1>5, <1>6, <2>1
    <2>2. CASE v # w
        BY <1>2, <1>5, <2>2 DEF LogInv, WritersFit
    <2> QED  BY <2>1, <2>2
<1>13. SizesFit'
    <2> SUFFICES ASSUME ~stopped, NEW f \in Log!Files
                 PROVE  Cardinality(Log!Written(f)') + Cardinality(Awaiting(f)')
                           <= MaxFile + Cardinality(LogWriters) - 1
        BY <1>2 DEF SizesFit, Log!Files
    <2>1. PICK before : before = Log!Written(f)
        OBVIOUS
    <2>2. PICK after : after = Log!Written(f)'
        OBVIOUS
    <2>3. PICK waited : waited = Awaiting(f)
        OBVIOUS
    <2>4. PICK waiting : waiting = Awaiting(f)'
        OBVIOUS
    <2>5. /\ IsFiniteSet(before) /\ IsFiniteSet(waited)
          /\ Cardinality(before) \in Nat /\ Cardinality(waited) \in Nat
          /\ Cardinality(before) + Cardinality(waited) <= MaxFile + Cardinality(LogWriters) - 1
        BY <2>1, <2>3, LogSetsAreFinite DEF LogInv, SizesFit
    <2>6. CASE f # target
        <3>1. after = before
            BY <1>8, <2>1, <2>2, <2>6 DEF Log!Written
        <3>2. waiting \subseteq waited
            BY <1>2, <1>4, <1>5, <2>3, <2>4 DEF Awaiting
        <3>3. Cardinality(waiting) <= Cardinality(waited) /\ Cardinality(waiting) \in Nat
            BY <2>5, <3>2, FS_Subset, FS_CardinalityType
        <3> QED  BY <2>2, <2>4, <2>5, <3>1, <3>3, LogSetsAreFinite, LogConstants
    <2>7. CASE f = target
        <3> DEFINE more == before \cup {number}
                   less == waited \ {w}
        <3>1. after \subseteq more
            <4>1. contents[f] \in Seq(0 .. MaxRecords)
                BY <1>3
            <4>2. /\ DOMAIN contents'[f] = DOMAIN contents[f] \cup {Len(contents[f]) + 1}
                  /\ contents'[f][Len(contents[f]) + 1] = number
                  /\ \A i \in DOMAIN contents[f] : contents'[f][i] = contents[f][i]
                BY <1>7, <1>8, <2>7, <4>1, EndOfAppended
            <4> QED  BY <2>1, <2>2, <4>2 DEF Log!Written
        <3>2. waiting \subseteq less
            BY <1>2, <1>4, <1>5, <2>3, <2>4 DEF Awaiting
        <3>3. w \in waited
            BY <1>2, <1>6, <2>3, <2>7 DEF Awaiting
        <3>4. /\ IsFiniteSet(more) /\ Cardinality(more) = IF number \in before THEN Cardinality(before)
                                                          ELSE Cardinality(before) + 1
            BY <2>5, FS_AddElement
        <3>5. /\ IsFiniteSet(less) /\ Cardinality(less) = Cardinality(waited) - 1
            BY <2>5, <3>3, FS_RemoveElement
        <3>6. /\ Cardinality(after) <= Cardinality(more) /\ Cardinality(after) \in Nat
              /\ Cardinality(waiting) <= Cardinality(less) /\ Cardinality(waiting) \in Nat
            BY <3>1, <3>2, <3>4, <3>5, FS_Subset, FS_CardinalityType
        <3>7. Cardinality(more) <= Cardinality(before) + 1 /\ Cardinality(more) \in Nat
            BY <2>5, <3>4
        <3> HIDE DEF more, less
        <3> QED  BY <2>2, <2>4, <2>5, <3>5, <3>6, <3>7, LogSetsAreFinite, LogConstants
    <2> QED  BY <2>6, <2>7
<1> QED  BY <1>10, <1>11, <1>12, <1>13, LogInvNext

LEMMA EndsKeeps == LogInv /\ Log!Ends => LogInv'
<1> SUFFICES ASSUME LogInv, Log!Ends
             PROVE  LogInv'
    OBVIOUS
<1>1. /\ UNCHANGED <<names, contents, created, begun, removed>>
      /\ writer' = [w \in LogWriters |-> Log!Idle] /\ stopped' \in BOOLEAN /\ (~stopped' => ~stopped)
    BY DEF Log!Ends, LogInv, Log!TypeOK
<1>2. \A w \in LogWriters : writer'[w].at = "idle"
    BY <1>1, FreeThread
<1>3. Pending' = {} /\ \A f : Awaiting(f)' = {}
    BY <1>2 DEF Pending, Awaiting
<1>4. NamesFit' /\ RecordsFit' /\ WritersFit'
    BY <1>1, <1>2, FreeThread, NamesStay, LogInvIs DEF RecordsFit, WritersFit, Log!Files
<1>5. FilesFit'
    <2>1. Cardinality(Pending') = 0
        BY <1>3, FS_EmptySet
    <2>2. created + 0 <= begun
        <3>1. created \in Nat /\ begun \in Nat /\ created + Cardinality(Pending) <= begun
            BY CurrentName DEF LogInv, Log!TypeOK, FilesFit
        <3> QED  BY <3>1, LogSetsAreFinite
    <2> QED  BY <1>1, <2>1, <2>2 DEF LogInv, FilesFit, Log!Files
<1>6. SizesFit'
    <2>1. \A f \in Log!Files : Log!Written(f)' = Log!Written(f)
        BY <1>1 DEF Log!Written
    <2> QED  BY <1>1, <1>3, <2>1, SizesStay DEF LogInv
<1> QED  BY <1>4, <1>5, <1>6, LogInvNext

LEMMA LogBegins == Log!Init => LogInv
<1> SUFFICES ASSUME Log!Init PROVE LogInv
    OBVIOUS
<1>1. /\ \A n \in 0 .. KeptRotations : names[n] = 0
      /\ names \in [0 .. KeptRotations -> {0}] /\ contents \in [Log!Files -> {<<>>}]
      /\ created = 0 /\ begun = 0 /\ removed = {} /\ stopped = FALSE
      /\ writer = [w \in LogWriters |-> Log!Idle]
    BY DEF Log!Init, Log!NoFile
<1>2. \A w \in LogWriters : writer[w].at = "idle"
    BY <1>1, FreeThread
<1>3. NamesFit
    BY <1>1, LogConstants DEF NamesFit, Log!Named, Log!RotationsAreOlder, Log!NoFile
<1>4. RecordsFit /\ WritersFit
    BY <1>1, <1>2, FreeThread, LogConstants DEF RecordsFit, WritersFit
<1>5. FilesFit
    <2>1. Pending = {}
        BY <1>2 DEF Pending
    <2> QED  BY <1>1, <2>1, FS_EmptySet DEF FilesFit
<1>6. SizesFit
    <2> SUFFICES ASSUME NEW f \in Log!Files
                 PROVE  Cardinality(Log!Written(f)) + Cardinality(Awaiting(f))
                           <= MaxFile + Cardinality(LogWriters) - 1
        BY DEF SizesFit
    <2>1. Awaiting(f) = {} /\ Log!Written(f) = {}
        BY <1>1, <1>2 DEF Awaiting, Log!Written
    <2> QED  BY <2>1, FS_EmptySet, LogSetsAreFinite, LogConstants
<1> QED  BY <1>3, <1>4, <1>5, <1>6, LogInvIs

LEMMA LogStepKeeps == LogInv /\ [Log!Next]_logVars => LogInv'
<1> SUFFICES ASSUME LogInv, [Log!Next]_logVars
             PROVE  LogInv'
    OBVIOUS
<1>1. CASE UNCHANGED logVars
    <2>1. UNCHANGED <<names, contents, created, begun, writer, removed, stopped>>
        BY <1>1 DEF logVars
    <2>2. NamesFit' /\ RecordsFit' /\ WritersFit'
        BY <2>1, NamesStay, LogInvIs DEF RecordsFit, WritersFit, Log!Files
    <2>3. FilesFit'
        <3>1. Pending' = Pending
            BY <2>1 DEF Pending
        <3> QED  BY <2>1, <3>1 DEF LogInv, FilesFit, Log!Files
    <2>4. SizesFit'
        <3>1. \A f : Log!Written(f)' = Log!Written(f) /\ Awaiting(f)' = Awaiting(f)
            BY <2>1 DEF Log!Written, Awaiting
        <3> QED  BY <2>1, <3>1, SizesStay DEF LogInv
    <2> QED  BY <2>2, <2>3, <2>4, LogInvNext
<1>2. CASE Log!Next
    BY <1>2, RecordEventKeeps, CheckKeeps, OpenKeeps, WriteLineKeeps, EndLineKeeps,
       RecordFailsKeeps,
       DropOldestKeeps, ShiftKeeps, MoveCurrentKeeps, RotationFailsKeeps, EndsKeeps
       DEF Log!Next, Log!Writes, Log!Rotates
<1> QED  BY <1>1, <1>2

\* The one thread that writes on its own, and what it keeps.
Alone == \A w \in LogWriters \ {LoneWriter} : writer'[w] = writer[w]

LEMMA LoneStep ==
    ASSUME LogInv, LoneFits, Log!Next, Alone
    PROVE  \/ Log!Ends
           \/ /\ LoneWriter \in LogWriters
              /\ Log!Writes(LoneWriter) \/ Log!Rotates(LoneWriter)
<1>1. CASE Log!Ends
    BY <1>1
<1>2. ASSUME NEW w \in LogWriters, Log!Writes(w) \/ Log!Rotates(w)
      PROVE  w = LoneWriter
    <2> SUFFICES ASSUME w # LoneWriter PROVE FALSE
        OBVIOUS
    <2>1. writer[w] = Log!Idle /\ writer'[w] = writer[w] /\ writer[w].at = "idle"
        BY FreeThread DEF LoneFits, Alone
    <2>2. Log!RecordEvent(w)
        BY <1>2, <2>1 DEF Log!Writes, Log!Rotates, Log!Check, Log!Open, Log!WriteLine, Log!EndLine,
                          Log!RecordFails, Log!DropOldest, Log!Shift, Log!MoveCurrent, Log!RotationFails
    <2>3. PICK s : s = [Log!Idle EXCEPT !.at = "checking", !.record = begun + 1]
        OBVIOUS
    <2>4. s.at = "checking"
        BY <2>3 DEF Log!Idle
    <2>5. writer'[w] = s
        BY <2>2, <2>3 DEF Log!RecordEvent, LogInv, Log!TypeOK
    <2> QED  BY <2>1, <2>4, <2>5
<1> QED  BY <1>1, <1>2 DEF Log!Next

\* The lone writer's own state after a step of it.
LEMMA LoneMoves ==
    ASSUME LogInv, LoneWriter \in LogWriters, NEW s, writer' = [writer EXCEPT ![LoneWriter] = s]
    PROVE  writer'[LoneWriter] = s
BY DEF LogInv, Log!TypeOK

LEMMA RestStays == AtRest /\ UNCHANGED <<names, created>> => AtRest'
BY DEF AtRest, Before

Resting(at) == at \notin {"dropping", "shifting", "moving"}

LEMMA LoneFitKept ==
    ASSUME LogInv, LoneFit, LoneWriter \in LogWriters,
           Log!Writes(LoneWriter) \/ Log!Rotates(LoneWriter)
    PROVE  LoneFit'
<1> DEFINE me == writer[LoneWriter]
           now == writer'[LoneWriter]
<1>1. me \in Log!WriterStates /\ names \in [0 .. KeptRotations -> 0 .. MaxRecords] /\ created \in Nat
    BY CurrentName DEF LogInv, Log!TypeOK
<1>2. ASSUME ~stopped, Resting(me.at), UNCHANGED <<names, created, stopped>>, Resting(now.at)
      PROVE  LoneFit'
    <2>1. AtRest
        BY <1>2 DEF LoneFit, Resting
    <2> QED  BY <1>2, <2>1, RestStays DEF LoneFit, Resting
<1>3. CASE Log!RecordEvent(LoneWriter)
    <2>1. now.at = "checking" /\ me.at = "idle" /\ UNCHANGED <<names, created, stopped>>
        <3>1. PICK s : s = [Log!Idle EXCEPT !.at = "checking", !.record = begun + 1]
            OBVIOUS
        <3>2. s.at = "checking"
            BY <3>1 DEF Log!Idle
        <3> QED  BY <1>3, <3>1, <3>2, LoneMoves DEF Log!RecordEvent
    <2> QED  BY <1>2, <2>1 DEF LoneFit, Resting
<1>4. CASE Log!Check(LoneWriter)
    <2>1. /\ now.at = (IF Log!ShouldRotate(names[0]) THEN "dropping" ELSE "opening")
          /\ me.at = "checking" /\ UNCHANGED <<names, created, stopped>>
        <3>1. PICK s : s = [me EXCEPT !.at = IF Log!ShouldRotate(names[0]) THEN "dropping" ELSE "opening"]
            OBVIOUS
        <3>2. s.at = IF Log!ShouldRotate(names[0]) THEN "dropping" ELSE "opening"
            BY <1>1, <3>1 DEF Log!WriterStates
        <3> QED  BY <1>4, <3>1, <3>2, LoneMoves DEF Log!Check, Log!Step
    <2>2. CASE Log!ShouldRotate(names[0])
        <3>1. now.at = "dropping" /\ names'[0] # Log!NoFile
            BY <2>1, <2>2 DEF Log!ShouldRotate
        <3>2. ~stopped' => AtRest'
            BY <2>1, RestStays DEF LoneFit
        <3> QED  BY <3>1, <3>2 DEF LoneFit
    <2>3. CASE ~Log!ShouldRotate(names[0])
        BY <1>2, <2>1, <2>3 DEF LoneFit, Resting
    <2> QED  BY <2>2, <2>3
<1>5. CASE Log!RotationFails(LoneWriter)
    BY <1>5 DEF LoneFit, Log!RotationFails
<1>6. CASE Log!WriteLine(LoneWriter)
    <2>1. now.at = "ending" /\ me.at = "writing" /\ UNCHANGED <<names, created, stopped>>
        <3>1. PICK s : s = [me EXCEPT !.at = "ending"]
            OBVIOUS
        <3>2. s.at = "ending"
            BY <1>1, <3>1 DEF Log!WriterStates
        <3> QED  BY <1>6, <3>1, <3>2, LoneMoves DEF Log!WriteLine, Log!Step
    <2> QED  BY <1>2, <2>1 DEF LoneFit, Resting
<1>7. CASE Log!EndLine(LoneWriter) \/ Log!RecordFails(LoneWriter)
    <2>1. /\ now.at = "idle" /\ me.at \in {"opening", "writing", "ending"}
          /\ UNCHANGED <<names, created, stopped>>
        <3>1. PICK s : s = Log!Idle
            OBVIOUS
        <3> QED  BY <1>7, <3>1, FreeThread, LoneMoves DEF Log!EndLine, Log!RecordFails
    <2> QED  BY <1>2, <2>1 DEF LoneFit, Resting
<1>8. CASE Log!Open(LoneWriter)
    <2>1. now.at = "writing" /\ me.at = "opening" /\ UNCHANGED stopped
        <3>1. PICK target : target = IF names[0] = Log!NoFile THEN created + 1 ELSE names[0]
            OBVIOUS
        <3>2. PICK s : s = [me EXCEPT !.at = "writing", !.file = target]
            OBVIOUS
        <3>3. s.at = "writing"
            BY <1>1, <3>2 DEF Log!WriterStates
        <3>4. writer' = [writer EXCEPT ![LoneWriter] = s]
            <4>1. CASE names[0] = Log!NoFile
                BY <1>8, <3>1, <3>2, <4>1 DEF Log!Open, LogInv, Log!TypeOK
            <4>2. CASE names[0] # Log!NoFile
                BY <1>8, <3>1, <3>2, <4>2 DEF Log!Open, LogInv, Log!TypeOK
            <4> QED  BY <4>1, <4>2
        <3>5. now = s
            BY <3>4, LoneMoves
        <3> QED  BY <1>8, <3>3, <3>5 DEF Log!Open
    <2>2. CASE names[0] # Log!NoFile
        BY <1>2, <1>8, <2>1, <2>2 DEF LoneFit, Resting, Log!Open
    <2>3. CASE names[0] = Log!NoFile
        <3>1. created' = created + 1 /\ names' = [names EXCEPT ![0] = created + 1]
            BY <1>8, <2>3 DEF Log!Open
        <3>2. /\ names'[0] = created + 1 /\ created + 1 # Log!NoFile
              /\ \A n \in 1 .. KeptRotations : names'[n] = names[n]
            BY <1>1, <3>1, LogConstants DEF Log!NoFile
        <3>3. AtRest => AtRest'
            BY <2>3, <3>1, <3>2 DEF AtRest, Before
        <3> QED  BY <2>1, <3>3 DEF LoneFit
    <2> QED  BY <2>2, <2>3
<1>9. CASE Log!DropOldest(LoneWriter)
    <2>1. /\ now.at = (IF KeptRotations > 1 THEN "shifting" ELSE "moving")
          /\ now.index = KeptRotations - 1 /\ me.at = "dropping" /\ UNCHANGED <<created, stopped>>
          /\ names' = [names EXCEPT ![KeptRotations] = Log!NoFile]
        <3>1. PICK at : at = IF KeptRotations > 1 THEN "shifting" ELSE "moving"
            OBVIOUS
        <3>2. PICK s : s = [me EXCEPT !.at = at, !.index = KeptRotations - 1]
            OBVIOUS
        <3>3. s.at = at /\ s.index = KeptRotations - 1
            BY <1>1, <3>2 DEF Log!WriterStates
        <3>4. writer' = [writer EXCEPT ![LoneWriter] = s]
            BY <1>9, <3>1, <3>2 DEF LogInv, Log!TypeOK, Log!DropOldest
        <3>5. now = s
            BY <3>4, LoneMoves
        <3> QED  BY <1>9, <3>1, <3>3, <3>5 DEF Log!DropOldest
    <2>2. ~stopped => AtRest /\ names[0] # Log!NoFile
        BY <2>1 DEF LoneFit
    <2>3. /\ names'[KeptRotations] = Log!NoFile
          /\ \A n \in 0 .. KeptRotations - 1 : names'[n] = names[n]
        BY <1>1, <2>1, LogConstants
    <2>4. ~stopped => Rotated(KeptRotations - 1)'
        <3> SUFFICES ASSUME ~stopped
                     PROVE  /\ names'[0] = created /\ created # 0
                            /\ names'[KeptRotations - 1 + 1] = Log!NoFile
                            /\ \A n \in 1 .. KeptRotations - 1 : names'[n] = Before(created, n)
                            /\ \A n \in KeptRotations - 1 + 2 .. KeptRotations :
                                  names'[n] = Before(created + 1, n)
            BY <2>1 DEF Rotated, Before
        <3> QED  BY <2>2, <2>3, LogConstants DEF AtRest, Log!NoFile
    <2>5. CASE KeptRotations > 1
        BY <2>1, <2>4, <2>5 DEF LoneFit
    <2>6. CASE ~(KeptRotations > 1)
        <3>1. KeptRotations - 1 = 0
            BY <2>6, LogConstants
        <3> QED  BY <2>1, <2>4, <2>6, <3>1 DEF LoneFit
    <2> QED  BY <2>5, <2>6
<1>10. CASE Log!Shift(LoneWriter)
    <2>1. PICK n : n = me.index /\ n \in 1 .. KeptRotations - 1 /\ n \in Int
        BY <1>10, LogConstants DEF Log!Shift, LogInv, WritersFit
    <2>2. /\ now.at = (IF n > 1 THEN "shifting" ELSE "moving") /\ now.index = n - 1
          /\ me.at = "shifting" /\ UNCHANGED <<created, stopped>>
          /\ IF names[n] = Log!NoFile THEN UNCHANGED <<names, removed>> ELSE Log!Rename(n, n + 1)
        <3>1. PICK s : s = [me EXCEPT !.at = IF n > 1 THEN "shifting" ELSE "moving", !.index = @ - 1]
            OBVIOUS
        <3>2. s.at = (IF n > 1 THEN "shifting" ELSE "moving") /\ s.index = n - 1
            BY <1>1, <2>1, <3>1 DEF Log!WriterStates
        <3>4. writer' = [writer EXCEPT ![LoneWriter] = s]
            BY <1>10, <2>1, <3>1 DEF LogInv, Log!TypeOK, Log!Shift
        <3>5. now = s
            BY <3>4, LoneMoves
        <3> QED  BY <1>10, <2>1, <3>2, <3>5 DEF Log!Shift
    <2>3. ~stopped => Rotated(n)
        BY <2>1, <2>2 DEF LoneFit
    <2>4. ~stopped => Rotated(n - 1)'
        <3> SUFFICES ASSUME ~stopped
                     PROVE  /\ names'[0] = created /\ created # 0
                            /\ names'[n - 1 + 1] = Log!NoFile
                            /\ \A k \in 1 .. n - 1 : names'[k] = Before(created, k)
                            /\ \A k \in n - 1 + 2 .. KeptRotations : names'[k] = Before(created + 1, k)
            BY <2>2 DEF Rotated, Before
        <3>1. /\ names[0] = created /\ created # 0 /\ names[n + 1] = Log!NoFile
              /\ \A k \in 1 .. n : names[k] = Before(created, k)
              /\ \A k \in n + 2 .. KeptRotations : names[k] = Before(created + 1, k)
            BY <2>3 DEF Rotated
        <3>2. names[n] = Before(created, n) /\ Before(created, n) = Before(created + 1, n + 1)
            <4>1. n >= 1 /\ n \in Int /\ created \in Int
                BY <1>1, <2>1, LogConstants
            <4>2. n \in 1 .. n /\ (created + 1) - (n + 1) = created - n
                BY <4>1
            <4> QED  BY <3>1, <4>2 DEF Before
        <3>3. CASE names[n] = Log!NoFile
            <4>1. names' = names
                BY <2>2, <3>3
            <4>2. names[n + 1] = Before(created + 1, n + 1)
                BY <3>1, <3>2, <3>3
            <4>3. \A k \in n + 1 .. KeptRotations : names[k] = Before(created + 1, k)
                BY <2>1, <3>1, <4>2, LogConstants
            <4> QED  BY <2>1, <3>1, <3>3, <4>1, <4>3, LogConstants
        <3>4. CASE names[n] # Log!NoFile
            <4>1. names' = [names EXCEPT ![n + 1] = names[n], ![n] = Log!NoFile]
                BY <2>2, <3>4 DEF Log!Rename
            <4>2. /\ names'[n] = Log!NoFile /\ names'[n + 1] = names[n]
                  /\ \A k \in 0 .. KeptRotations : k # n /\ k # n + 1 => names'[k] = names[k]
                BY <1>1, <2>1, <4>1, LogConstants
            <4>3. names'[n + 1] = Before(created + 1, n + 1)
                BY <3>2, <4>2
            <4>4. \A k \in n + 1 .. KeptRotations : names'[k] = Before(created + 1, k)
                BY <2>1, <3>1, <4>2, <4>3, LogConstants
            <4> QED  BY <2>1, <3>1, <4>2, <4>4, LogConstants
        <3> QED  BY <3>3, <3>4
    <2>5. CASE n > 1
        BY <2>2, <2>4, <2>5 DEF LoneFit
    <2>6. CASE ~(n > 1)
        <3>1. n - 1 = 0
            BY <2>1, <2>6
        <3> QED  BY <2>2, <2>4, <2>6, <3>1 DEF LoneFit
    <2> QED  BY <2>5, <2>6
<1>11. CASE Log!MoveCurrent(LoneWriter)
    <2>1. /\ now.at = "opening" /\ me.at = "moving" /\ UNCHANGED <<created, stopped>>
          /\ IF names[0] = Log!NoFile THEN UNCHANGED <<names, removed>> ELSE Log!Rename(0, 1)
        <3>1. PICK s : s = [me EXCEPT !.at = "opening"]
            OBVIOUS
        <3>2. s.at = "opening"
            BY <1>1, <3>1 DEF Log!WriterStates
        <3> QED  BY <1>11, <3>1, <3>2, LoneMoves DEF Log!MoveCurrent, Log!Step
    <2>2. ~stopped => AtRest'
        <3> SUFFICES ASSUME ~stopped PROVE AtRest'
            OBVIOUS
        <3>1. /\ names[0] = created /\ created # 0 /\ names[1] = Log!NoFile
              /\ \A k \in 2 .. KeptRotations : names[k] = Before(created + 1, k)
            BY <2>1 DEF LoneFit, Rotated
        <3>2. names' = [names EXCEPT ![1] = names[0], ![0] = Log!NoFile]
            BY <2>1, <3>1 DEF Log!Rename, Log!NoFile
        <3>3. /\ names'[0] = Log!NoFile /\ names'[1] = created
              /\ \A k \in 2 .. KeptRotations : names'[k] = names[k]
            BY <1>1, <3>1, <3>2, LogConstants
        <3>4. created = Before(created + 1, 1)
            BY <1>1, <3>1 DEF Before
        <3>5. \A k \in 1 .. KeptRotations : names'[k] = Before(created + 1, k)
            BY <3>1, <3>3, <3>4, LogConstants
        <3> QED  BY <2>1, <3>3, <3>5 DEF AtRest, Before
    <2> QED  BY <2>1, <2>2 DEF LoneFit
<1> QED  BY <1>3, <1>4, <1>5, <1>6, <1>7, <1>8, <1>9, <1>10, <1>11 DEF Log!Writes, Log!Rotates

LEMMA LoneFitsNext ==
    LoneFits' <=> /\ \A w \in LogWriters \ {LoneWriter} : writer'[w] = Log!Idle
                  /\ IF LoneWriter \in LogWriters THEN LoneFit' ELSE AtRest'
<1>1. Log!Idle' = Log!Idle
    BY DEF Log!Idle, Log!NoFile
<1> QED  BY <1>1 DEF LoneFits, LoneFit

LEMMA LoneKeeps ==
    ASSUME LogInv, LoneFits, Log!Next, Alone
    PROVE  LoneFits'
<1>1. CASE Log!Ends
    <2>1. /\ writer' = [w \in LogWriters |-> Log!Idle] /\ UNCHANGED <<names, created>>
          /\ stopped' = (stopped \/ \E w \in LogWriters :
                                       writer[w].at \in {"dropping", "shifting", "moving"})
        BY <1>1 DEF Log!Ends
    <2>2. LoneWriter \in LogWriters => LoneFit'
        <3> SUFFICES ASSUME LoneWriter \in LogWriters, ~stopped' PROVE LoneFit'
            BY DEF LoneFit
        <3>1. ~stopped /\ writer[LoneWriter].at \notin {"dropping", "shifting", "moving"}
            BY <2>1
        <3>2. AtRest'
            BY <2>1, <3>1, RestStays DEF LoneFits, LoneFit
        <3>3. writer'[LoneWriter].at = "idle"
            BY <2>1, FreeThread
        <3> QED  BY <3>2, <3>3 DEF LoneFit
    <2>3. LoneWriter \notin LogWriters => AtRest'
        BY <2>1, RestStays DEF LoneFits
    <2> QED  BY <2>1, <2>2, <2>3, LoneFitsNext
<1>2. CASE LoneWriter \in LogWriters /\ (Log!Writes(LoneWriter) \/ Log!Rotates(LoneWriter))
    <2>1. \A w \in LogWriters \ {LoneWriter} : writer'[w] = Log!Idle
        BY DEF LoneFits, Alone
    <2> QED  BY <1>2, <2>1, LoneFitKept, LoneFitsNext DEF LoneFits
<1> QED  BY <1>1, <1>2, LoneStep

LEMMA LoneBegins == Log!Init => LoneFits
<1> SUFFICES ASSUME Log!Init PROVE LoneFits
    OBVIOUS
<1>1. /\ \A n \in 0 .. KeptRotations : names[n] = Log!NoFile
      /\ created = 0 /\ \A w \in LogWriters : writer[w] = Log!Idle
    BY DEF Log!Init
<1>2. AtRest
    BY <1>1, LogConstants DEF AtRest, Before, Log!NoFile
<1>3. LoneWriter \in LogWriters => writer[LoneWriter].at = "idle"
    BY <1>1, FreeThread
<1> QED  BY <1>1, <1>2, <1>3 DEF LoneFits, LoneFit

LEMMA LogBounds == LogInv => Log!SizeIsBounded
<1> SUFFICES ASSUME LogInv, ~stopped, NEW f \in Log!Files
             PROVE  Log!Size(f) <= MaxFile + Log!Cardinality(LogWriters) - 1
    BY DEF Log!SizeIsBounded
<1>1. Cardinality(Log!Written(f)) + Cardinality(Awaiting(f)) <= MaxFile + Cardinality(LogWriters) - 1
    BY DEF LogInv, SizesFit
<1>2. Cardinality(Log!Written(f)) <= MaxFile + Cardinality(LogWriters) - 1
    BY <1>1, LogSetsAreFinite, LogConstants
<1> QED  BY <1>2, LogCountsAgree DEF Log!Size

LEMMA LoneKeepsTheLatest == LogInv /\ LoneFits => Log!KeepsTheLatest
<1> SUFFICES ASSUME LogInv, LoneFits, \A w \in LogWriters : writer[w] = Log!Idle, ~stopped
             PROVE  Log!Named = {f \in 1 .. created :
                        f > created - KeptRotations - (IF names[0] = Log!NoFile THEN 0 ELSE 1)}
    BY DEF Log!KeepsTheLatest
<1>1. AtRest
    BY FreeThread DEF LoneFits, LoneFit
<1>2. /\ created \in Nat /\ DOMAIN names = 0 .. KeptRotations /\ 0 \in 0 .. KeptRotations
      /\ KeptRotations \in Nat /\ KeptRotations > 0
    BY CurrentName, LogConstants DEF LogInv, Log!TypeOK
<1>3. CASE names[0] = Log!NoFile
    <2>1. \A n \in 1 .. KeptRotations : names[n] = Before(created + 1, n)
        BY <1>1, <1>3 DEF AtRest
    <2>2. ASSUME NEW f \in Log!Named
          PROVE  f \in 1 .. created /\ f > created - KeptRotations
        <3>1. PICK n \in 0 .. KeptRotations : f = names[n] /\ f # 0
            BY <1>2 DEF Log!Named, Log!NoFile
        <3>2. n \in 1 .. KeptRotations /\ f = Before(created + 1, n)
            BY <1>2, <1>3, <2>1, <3>1 DEF Log!NoFile
        <3> QED  BY <1>2, <3>1, <3>2 DEF Before, Log!NoFile
    <2>3. ASSUME NEW f \in 1 .. created, f > created - KeptRotations
          PROVE  f \in Log!Named
        <3>1. created + 1 - f \in 1 .. KeptRotations
            BY <1>2, <2>3
        <3>2. names[created + 1 - f] = f
            BY <1>2, <2>1, <3>1 DEF Before
        <3> QED  BY <1>2, <3>1, <3>2 DEF Log!Named, Log!NoFile
    <2> QED  BY <1>2, <1>3, <2>2, <2>3
<1>4. CASE names[0] # Log!NoFile
    <2>1. names[0] = created /\ \A n \in 1 .. KeptRotations : names[n] = Before(created, n)
        BY <1>1, <1>4 DEF AtRest
    <2>2. ASSUME NEW f \in Log!Named
          PROVE  f \in 1 .. created /\ f > created - KeptRotations - 1
        <3>1. PICK n \in 0 .. KeptRotations : f = names[n] /\ f # 0
            BY <1>2 DEF Log!Named, Log!NoFile
        <3>2. CASE n = 0
            BY <1>2, <2>1, <3>1, <3>2
        <3>3. CASE n # 0
            <4>1. n \in 1 .. KeptRotations /\ f = Before(created, n)
                BY <1>2, <2>1, <3>1, <3>3
            <4> QED  BY <1>2, <3>1, <4>1 DEF Before, Log!NoFile
        <3> QED  BY <3>2, <3>3
    <2>3. ASSUME NEW f \in 1 .. created, f > created - KeptRotations - 1
          PROVE  f \in Log!Named
        <3>1. CASE f = created
            BY <1>2, <1>4, <2>1, <3>1 DEF Log!Named
        <3>2. CASE f # created
            <4>1. created - f \in 1 .. KeptRotations
                BY <1>2, <2>3, <3>2
            <4>2. names[created - f] = f
                BY <1>2, <2>1, <4>1 DEF Before
            <4> QED  BY <1>2, <4>1, <4>2 DEF Log!Named, Log!NoFile
        <3> QED  BY <3>1, <3>2
    <2> QED  BY <1>2, <1>4, <2>2, <2>3
<1> QED  BY <1>3, <1>4

\* Whatever fails, overtakes or ends: the rotations are in the order of their
\* age and within their bound, a lone writer keeps the latest files, and an
\* operation is told once and truly (diagnostic_log.rs:80-130,
\* install.rs:630-760).
THEOREM DiagnosticsHold == PartsSpec => []DiagnosticsAreTrue
<1> DEFINE Inv == /\ part \in {"log", "log of one"} => LogInv
                  /\ part = "log of one" => LoneFits
                  /\ part = "trace" => TraceInv
<1>1. PartsInit => Inv
  BY LogBegins, LoneBegins, TraceBegins DEF PartsInit
<1>2. Inv /\ [PartsNext]_partsVars => Inv'
  <2> SUFFICES ASSUME Inv, [PartsNext]_partsVars
               PROVE  Inv'
    OBVIOUS
  <2>1. part' = part
    BY DEF PartsNext, partsVars, RecoveryStep, HistoryStep, LogStep, OwnLogStep,
           TraceStep, InstallersStep, Rest, Turn
  <2>2. part \in {"log", "log of one"} => [Log!Next]_logVars
    BY DEF PartsNext, partsVars, RecoveryStep, HistoryStep, LogStep, OwnLogStep,
           TraceStep, InstallersStep, Rest, Turn
  <2>3. part = "log of one" => (Log!Next /\ Alone) \/ UNCHANGED logVars
    BY DEF PartsNext, partsVars, RecoveryStep, HistoryStep, LogStep, OwnLogStep,
           TraceStep, InstallersStep, Rest, Turn, Alone
  <2>4. part = "trace" => [Trace!Next]_traceVars
    BY DEF PartsNext, partsVars, RecoveryStep, HistoryStep, LogStep, OwnLogStep,
           TraceStep, InstallersStep, Rest, Turn
  <2>5. LoneFits /\ UNCHANGED logVars => LoneFits'
    <3> SUFFICES ASSUME LoneFits, UNCHANGED <<names, contents, created, begun, writer, removed, stopped>>
                 PROVE  LoneFits'
      BY DEF logVars
    <3>1. AtRest' <=> AtRest
      BY DEF AtRest, Before
    <3>2. LoneFit' <=> LoneFit
      BY <3>1 DEF LoneFit, Rotated, Before
    <3> QED  BY <3>1, <3>2, LoneFitsNext DEF LoneFits
  <2> QED  BY <2>1, <2>2, <2>3, <2>4, <2>5, LogStepKeeps, LoneKeeps, TraceStepKeeps
<1>3. Inv => DiagnosticsAreTrue
  BY LogBounds, LoneKeepsTheLatest, TraceTells DEF LogInv, Logging, DiagnosticsAreTrue
<1> QED  BY <1>1, <1>2, <1>3, PTL DEF PartsSpec
==============================================================================
