------------------------ MODULE OperationParts_proofs ------------------------
(***************************************************************************)
(* What a handoff and an installation promise, proved for any regions,     *)
(* files, packages and uninstall records and any number of handoffs,       *)
(* installations, crashes, restarts and changes from elsewhere: the        *)
(* handoff to a Store installer, the evidence that an installation was     *)
(* completed, the uninstall records around it, and last the parts          *)
(* together.                                                               *)
(***************************************************************************)
EXTENDS OperationParts, TLAPS, SequenceTheorems, FiniteSetTheorems, FunctionTheorems

-------------------------------------------------------------------------------
(* The inductive invariant.                                                *)

RunSteps == {"inspect", "read", "save", "write", "readback", "unwind", "mark",
             "launch", "putback", "putcheck", "putmark", "reject"}
RestoreSteps == {"load", "classify", "verify", "compare", "rewrite", "recheck",
                 "finish", "remove", "tell"}

\* Where a thread works on a record it holds.
RunHolds == RunSteps \ {"inspect", "read"}
RestoreHolds == RestoreSteps \ {"load"}

\* A thread is at a step of its own function, and knows what the function was
\* called with.
ThreadFits ==
    /\ thread.at = "idle" => thread = Idle
    /\ thread.at \in RunSteps =>
         /\ thread.who = "run" /\ thread.temporary \in Regions
         /\ thread.handoff = begun /\ begun # 0
    /\ thread.at \in RestoreSteps => thread.who \in {"restore", "start"}
    /\ thread.at = "load" => thread.who = "restore"

HoldsRecord ==
    /\ thread.at \in RunHolds \cup RestoreHolds => thread.pending \in Records
    /\ thread.at \in RunHolds =>
         /\ thread.pending.handoff = thread.handoff
         /\ thread.pending.temporary = thread.temporary

\* The window shows which function is at work, and what was posted and not yet
\* handled is the first message of that function, its last one, or both.
RunEnds == {"FailedRegionSafe", "FailedWithTemporaryRegion", "HandedOff"}
RestoreEnds == {"FailedRegionSafe", "FailedWithTemporaryRegion", "Restored"}

Posted(who, stage, ends) ==
    IF who # "nobody" THEN posts = <<>> \/ posts = <<stage>>
    ELSE \E e \in ends : posts = <<e>> \/ posts = <<stage, e>>

WindowShowsThread ==
    /\ thread.who = "run" => window = "SwitchingRegion"
    /\ thread.who = "restore" => window = "RestoringRegion"
    /\ thread.who = "start" <=> window = "starting"
PostsFit ==
    /\ window = "SwitchingRegion" => Posted(thread.who, "SwitchingRegion", RunEnds)
    /\ window = "RestoringRegion" => Posted(thread.who, "RestoringRegion", RestoreEnds)
    /\ window \notin {"SwitchingRegion", "RestoringRegion"} => posts = <<>>
    /\ thread.at = "load" => posts = <<>>

\* Only the run at work publishes a record of the newest handoff.
RecordIsBegun ==
    record # NoRecord =>
      /\ record.handoff <= begun
      /\ thread.at \in {"inspect", "read", "save"} => record.handoff < begun

\* Nobody else writes beside a thread: the record on disk is the one it holds,
\* except that a run may have failed to publish a milestone after the move.
Alike(r, s) ==
    /\ r # NoRecord
    /\ r.original = s.original /\ r.temporary = s.temporary /\ r.handoff = s.handoff
HeldIsOnDisk ==
    /\ thread.at \in RestoreHolds \ {"tell"} => record = thread.pending
    /\ thread.at \in RunHolds \ {"save"} => Alike(record, thread.pending)

\* A run claims the return of the region in its last step only.
RunNotRestored ==
    thread.at \in RunHolds \ {"reject"} => thread.pending.state # "Restored"

\* What is owed is in the record, and past a read-back of the original region
\* nothing is owed.
OwedIsRecorded ==
    owed # NoRegion => /\ record # NoRecord
                       /\ record.original = owed
                       /\ record.temporary = region
                       /\ region # owed
NothingOwedPastReadBack ==
    /\ thread.at \in {"unwind", "putmark", "finish", "remove"} => owed = NoRegion
    /\ thread.at = "reject" /\ thread.pending.state = "Restored" => owed = NoRegion

\* The invariant comes in layers, each inductive under those before it.
TypeInv == TypeOK /\ ThreadFits /\ HoldsRecord /\ WindowShowsThread /\ PostsFit
DiskInv == RecordIsBegun /\ HeldIsOnDisk /\ RunNotRestored
DebtInv == OwedIsRecorded /\ NothingOwedPastReadBack

-------------------------------------------------------------------------------
(* What a step of a thread leaves behind.                                  *)

DiskType == /\ region \in Regions /\ owed \in Regions \cup {NoRegion}
            /\ record \in Records \cup {NoRecord}
ThreadType == thread \in Threads /\ ThreadFits /\ HoldsRecord
ToldType == started \subseteq Handoffs /\ entries \in [Handoffs -> SUBSET Results]
WorldType == /\ file \in Files /\ admits \in BOOLEAN /\ undecided \in BOOLEAN
             /\ kept \in BOOLEAN /\ begun \in 0 .. MaxHandoffs
ShownType == /\ window \in Stages \cup Gone \cup {"none", "starting"}
             /\ posts \in Seq(Stages) /\ WindowShowsThread /\ PostsFit

LEMMA TypePieces ==
    TypeInv <=> DiskType /\ ThreadType /\ ToldType /\ WorldType /\ ShownType
  BY DEF TypeInv, TypeOK, DiskType, ThreadType, ToldType, WorldType, ShownType

\* An inspection removes a record or leaves the disk alone.
LEMMA InspectionTyped ==
    ASSUME DiskType, Inspection
    PROVE  DiskType' /\ admits' \in BOOLEAN
  BY DEF DiskType, Inspection, disk, ClearVerified

\* The milestones of a record leave the rest of it alone.
LEMMA MilestoneTyped ==
    ASSUME NEW r \in Records, NEW s \in DurableStates
    PROVE  /\ [r EXCEPT !.state = s] \in Records
           /\ [r EXCEPT !.state = s].state = s
           /\ [r EXCEPT !.state = s].handoff = r.handoff
           /\ [r EXCEPT !.state = s].original = r.original
           /\ [r EXCEPT !.state = s].temporary = r.temporary
  BY DEF Records

\* The disk after a step of a thread.
LEMMA RunDiskTyped ==
    ASSUME TypeInv, RunStep
    PROVE  DiskType'
<1> USE DEF DiskType, Run, disk
<1>0. DiskType /\ thread.temporary \in Regions /\ (thread.at \in RunHolds => thread.pending \in Records)
  BY TypePieces DEF ThreadType, ThreadFits, HoldsRecord, RunStep, RunSteps, RunHolds, Inspect, ReadOriginal, SavePrepared,
     Write, ReadBack, Unwind, MarkSwitched, Launch, PutBack, PutCheck, PutMark, Reject
<1>1. CASE Inspect \/ ReadOriginal \/ ReadBack \/ Launch \/ PutCheck
  BY <1>0, <1>1 DEF Inspect, ReadOriginal, ReadBack, SwitchFails, Launch, PutCheck
<1>2. CASE SavePrepared
  BY <1>0, <1>2 DEF SavePrepared, SwitchFails, Publish, RunHolds, RunSteps
<1>3. CASE Write
  BY <1>0, <1>3 DEF Write, WriteTemporary, RunHolds, RunSteps, Records
<1>4. CASE Unwind
  BY <1>0, <1>4 DEF Unwind, SwitchFails, ClearVerified
<1>5. CASE MarkSwitched
  BY <1>0, <1>5, MilestoneTyped DEF MarkSwitched, NotPublished, Publish, RunHolds, RunSteps, DurableStates
<1>6. CASE PutBack
  BY <1>0, <1>6 DEF PutBack, WriteOriginal, RunHolds, RunSteps, Records
<1>7. CASE PutMark
  BY <1>0, <1>7, MilestoneTyped DEF PutMark, NotPublished, Publish, RunHolds, RunSteps, DurableStates
<1>8. CASE Reject
  BY <1>0, <1>8 DEF Reject, ClearVerified
<1> QED
  BY <1>1, <1>2, <1>3, <1>4, <1>5, <1>6, <1>7, <1>8 DEF RunStep

LEMMA RestoreDiskTyped ==
    ASSUME TypeInv, RestoreStep
    PROVE  DiskType' /\ admits' \in BOOLEAN
<1> USE DEF DiskType, disk, shown, Unshown
<1>0. DiskType /\ admits \in BOOLEAN /\ (thread.at \in RestoreHolds => thread.pending \in Records)
  BY TypePieces DEF ThreadType, HoldsRecord, WorldType
<1> USE DEF RestoreHolds, RestoreSteps
<1>1. ASSUME StaysPending PROVE DiskType' /\ admits' \in BOOLEAN
  BY <1>0, <1>1, InspectionTyped DEF StaysPending
<1>2. CASE Load \/ Recheck \/ Classify
  BY <1>0, <1>1, <1>2 DEF Load, Recheck, Classify
<1>3. CASE VerifyAndClear \/ Remove
  BY <1>0, <1>1, <1>3 DEF VerifyAndClear, Remove, ClearVerified
<1>4. CASE CompareAndPublish
  BY <1>0, <1>1, <1>4, MilestoneTyped
  DEF CompareAndPublish, StaysPublished, Publish, DurableStates
<1>5. CASE Rewrite
  BY <1>0, <1>5 DEF Rewrite, WriteOriginal, Records
<1>6. CASE PublishRestored
  BY <1>0, <1>1, <1>6, MilestoneTyped
  DEF PublishRestored, StaysPublished, Publish, DurableStates
<1>7. CASE TellRestored
  BY <1>0, <1>7, InspectionTyped DEF TellRestored
<1> QED
  BY <1>2, <1>3, <1>4, <1>5, <1>6, <1>7 DEF RestoreStep

\* A thread that takes a step with another record in hand.
LEMMA PendingTyped ==
    ASSUME NEW t \in Threads, NEW w \in RunSteps \cup RestoreSteps, NEW r \in Records
    PROVE  /\ [t EXCEPT !.at = w, !.pending = r] \in Threads
           /\ [t EXCEPT !.at = w, !.pending = r].at = w
           /\ [t EXCEPT !.at = w, !.pending = r].pending = r
           /\ [t EXCEPT !.at = w, !.pending = r].who = t.who
           /\ [t EXCEPT !.at = w, !.pending = r].handoff = t.handoff
           /\ [t EXCEPT !.at = w, !.pending = r].temporary = t.temporary
           /\ [t EXCEPT !.at = w, !.pending = r].confirmed = t.confirmed
<1>1. [t EXCEPT !.at = w, !.pending = r] \in Threads
  <2>1. w \in {"inspect", "read", "save", "write", "readback", "unwind", "mark",
                "launch", "putback", "putcheck", "putmark", "reject", "load",
                "classify", "verify", "compare", "rewrite", "recheck", "finish",
                "remove", "tell"}
    BY DEF RunSteps, RestoreSteps
  <2> QED
    BY <2>1 DEF Threads
<1> QED
  BY <1>1 DEF Threads

\* A thread that goes on is at a step of the same function; one that ends
\* becomes Idle.
LEMMA IdleTyped == Idle \in Threads
  BY HandoffAssumption DEF Idle, Threads

RunGoesOn ==
    /\ thread' \in Threads /\ thread'.at \in RunSteps /\ thread'.who = "run"
    /\ thread'.handoff = thread.handoff /\ thread'.temporary = thread.temporary
    /\ thread'.confirmed = thread.confirmed
    /\ thread'.at \in RunHolds =>
         /\ thread'.pending \in Records
         /\ thread'.pending.handoff = thread.handoff
         /\ thread'.pending.temporary = thread.temporary

LEMMA RunThread ==
    ASSUME TypeInv, RunStep
    PROVE  /\ thread.at \in RunSteps /\ thread.who = "run"
           /\ thread' = Idle \/ RunGoesOn
<1>0. thread \in Threads /\ thread.at \in RunSteps
  BY TypePieces DEF ThreadType, Run, RunSteps, RunStep, Inspect, ReadOriginal, SavePrepared,
     Write, ReadBack, Unwind, MarkSwitched, Launch, PutBack, PutCheck, PutMark, Reject
<1>1. /\ thread.who = "run" /\ thread.temporary \in Regions /\ region \in Regions
      /\ thread.handoff \in Handoffs
      /\ thread.at \in RunHolds =>
           /\ thread.pending \in Records
           /\ thread.pending.handoff = thread.handoff
           /\ thread.pending.temporary = thread.temporary
  BY <1>0, TypePieces, HandoffAssumption
  DEF ThreadType, ThreadFits, HoldsRecord, DiskType, WorldType, Handoffs
<1> USE DEF RunGoesOn, RunSteps, RunHolds, Threads, Goes, Ends, Run
<1>2. CASE Inspect
  BY <1>0, <1>1, <1>2 DEF Inspect
<1>3. CASE ReadOriginal
  <2> DEFINE made == [original |-> region, temporary |-> thread.temporary,
                      state |-> "Prepared", handoff |-> thread.handoff]
  <2>1. made \in Records /\ made.handoff = thread.handoff /\ made.temporary = thread.temporary
    BY <1>1 DEF Records, DurableStates
  <2> HIDE DEF made
  <2>2. CASE thread' = [thread EXCEPT !.at = "save", !.pending = made]
    BY <1>0, <1>1, <2>1, <2>2, PendingTyped DEF RunGoesOn
  <2>3. CASE thread' = Idle
    BY <1>0, <1>1, <2>3
  <2> QED
    BY <1>3, <2>2, <2>3 DEF ReadOriginal, made
<1>4. CASE SavePrepared \/ Write
  BY <1>0, <1>1, <1>4 DEF SavePrepared, Write, SwitchFails
<1>5. CASE ReadBack \/ Unwind
  BY <1>0, <1>1, <1>5 DEF ReadBack, Unwind, SwitchFails
<1>6. CASE MarkSwitched
  <2> DEFINE made == [thread.pending EXCEPT !.state = "RegionSwitched"]
  <2>1. /\ made \in Records /\ made.handoff = thread.pending.handoff
        /\ made.temporary = thread.pending.temporary
    BY <1>0, <1>1, <1>6, MilestoneTyped DEF MarkSwitched, DurableStates
  <2> HIDE DEF made
  <2>2. CASE thread' = [thread EXCEPT !.at = "launch", !.pending = made]
    <3>1. thread.at \in RunHolds /\ made.handoff = thread.handoff
          /\ made.temporary = thread.temporary
      BY <1>1, <1>6, <2>1 DEF MarkSwitched
    <3> QED
      BY <1>0, <1>1, <2>1, <2>2, <3>1, PendingTyped DEF RunGoesOn
  <2>3. CASE thread' # [thread EXCEPT !.at = "launch", !.pending = made]
    BY <1>0, <1>1, <1>6, <2>3 DEF MarkSwitched, made
  <2> QED
    BY <2>2, <2>3
<1>7. CASE Launch \/ PutBack \/ PutCheck
  BY <1>0, <1>1, <1>7 DEF Launch, PutBack, PutCheck
<1>8. CASE PutMark
  <2> DEFINE made == [thread.pending EXCEPT !.state = "Restored"]
  <2>1. /\ made \in Records /\ made.handoff = thread.pending.handoff
        /\ made.temporary = thread.pending.temporary
    BY <1>0, <1>1, <1>8, MilestoneTyped DEF PutMark, DurableStates
  <2> HIDE DEF made
  <2>2. CASE thread' = [thread EXCEPT !.at = "reject", !.pending = made]
    <3>1. thread.at \in RunHolds /\ made.handoff = thread.handoff
          /\ made.temporary = thread.temporary
      BY <1>1, <1>8, <2>1 DEF PutMark
    <3> QED
      BY <1>0, <1>1, <2>1, <2>2, <3>1, PendingTyped DEF RunGoesOn
  <2>3. CASE thread' # [thread EXCEPT !.at = "reject", !.pending = made]
    BY <1>0, <1>1, <1>8, <2>3 DEF PutMark, made
  <2> QED
    BY <2>2, <2>3
<1>9. CASE Reject
  BY <1>0, <1>1, <1>9 DEF Reject
<1> QED
  BY <1>0, <1>1, <1>2, <1>3, <1>4, <1>5, <1>6, <1>7, <1>8, <1>9 DEF RunStep

RestoreGoesOn ==
    /\ thread' \in Threads /\ thread'.at \in RestoreHolds
    /\ thread'.who = thread.who
    /\ thread'.pending \in Records

LEMMA RestoreThread ==
    ASSUME TypeInv, RestoreStep
    PROVE  /\ thread.at \in RestoreSteps
           /\ thread.who \in {"restore", "start"}
           /\ thread' = Idle \/ RestoreGoesOn
<1>0. thread \in Threads /\ thread.at \in RestoreSteps
  BY TypePieces DEF ThreadType, RestoreSteps, RestoreStep, Load, Classify, VerifyAndClear,
     CompareAndPublish, Rewrite, Recheck, PublishRestored, Remove, TellRestored
<1>1. /\ thread.who \in {"restore", "start"} /\ region \in Regions
      /\ record \in Records \cup {NoRecord}
      /\ thread.at \in RestoreHolds => thread.pending \in Records
  BY <1>0, TypePieces DEF ThreadType, ThreadFits, HoldsRecord, DiskType
<1> USE DEF RestoreGoesOn, RestoreSteps, RestoreHolds, Threads, Goes, Ends, StaysPending,
            StaysPublished
<1>2. CASE Load
  BY <1>0, <1>1, <1>2 DEF Load
<1>3. CASE Classify
  <2>1. CASE StaysPending
    BY <1>0, <1>1, <2>1
  <2>2. CASE Goes("verify")
    BY <1>0, <1>1, <1>3, <2>2 DEF Classify
  <2>3. CASE thread' = [thread EXCEPT !.at = "compare", !.expected = region]
    BY <1>0, <1>1, <1>3, <2>3 DEF Classify
  <2> QED
    BY <1>3, <2>1, <2>2, <2>3 DEF Classify
<1>4. CASE VerifyAndClear \/ Remove
  BY <1>0, <1>1, <1>4 DEF VerifyAndClear, Remove
<1>5. CASE CompareAndPublish
  <2> DEFINE made == [thread.pending EXCEPT !.state = "RestoringRegion"]
  <2>1. /\ made \in Records /\ made.handoff = thread.pending.handoff
        /\ made.temporary = thread.pending.temporary
    BY <1>0, <1>1, <1>5, MilestoneTyped DEF CompareAndPublish, DurableStates
  <2> HIDE DEF made
  <2>2. CASE thread' = [thread EXCEPT !.at = "rewrite", !.pending = made]
    BY <1>0, <1>1, <1>5, <2>1, <2>2, PendingTyped DEF CompareAndPublish
  <2>3. CASE thread' # [thread EXCEPT !.at = "rewrite", !.pending = made]
    BY <1>0, <1>1, <1>5, <2>3 DEF CompareAndPublish, made
  <2> QED
    BY <2>2, <2>3
<1>6. CASE Rewrite \/ Recheck
  BY <1>0, <1>1, <1>6 DEF Rewrite, Recheck
<1>7. CASE PublishRestored
  <2> DEFINE made == [thread.pending EXCEPT !.state = "Restored"]
  <2>1. /\ made \in Records /\ made.handoff = thread.pending.handoff
        /\ made.temporary = thread.pending.temporary
    BY <1>0, <1>1, <1>7, MilestoneTyped DEF PublishRestored, DurableStates
  <2> HIDE DEF made
  <2>2. CASE thread' = [thread EXCEPT !.at = "remove", !.pending = made]
    BY <1>0, <1>1, <1>7, <2>1, <2>2, PendingTyped DEF PublishRestored
  <2>3. CASE thread' # [thread EXCEPT !.at = "remove", !.pending = made]
    BY <1>0, <1>1, <1>7, <2>3 DEF PublishRestored, made
  <2> QED
    BY <2>2, <2>3
<1>8. CASE TellRestored
  BY <1>0, <1>1, <1>8 DEF TellRestored
<1> QED
  BY <1>0, <1>1, <1>2, <1>3, <1>4, <1>5, <1>6, <1>7, <1>8 DEF RestoreStep
\* The posts there can be at once: none, one, or two.
LEMMA FewPosts ==
    ASSUME NEW s \in Stages, NEW e \in Stages
    PROVE  /\ Append(<<>>, e) = <<e>> /\ Append(<<s>>, e) = <<s, e>>
           /\ <<>> \o <<s, e>> = <<s, e>>
           /\ <<>> \in Seq(Stages) /\ <<e>> \in Seq(Stages) /\ <<s, e>> \in Seq(Stages)
<1>1. <<>> \in Seq(Stages) /\ <<s>> \in Seq(Stages) /\ <<e>> \in Seq(Stages)
      /\ <<s, e>> \in Seq(Stages)
  OBVIOUS
<1>2. Append(<<>>, e) = <<e>>
  OBVIOUS
<1>3. Append(<<s>>, e) = <<s, e>>
  <2>1. /\ Append(<<s>>, e) \in Seq(Stages) /\ Len(Append(<<s>>, e)) = 2
        /\ Append(<<s>>, e)[1] = s /\ Append(<<s>>, e)[2] = e
    BY <1>1, AppendProperties
  <2> QED
    <3>1. Len(<<s, e>>) = 2 /\ <<s, e>>[1] = s /\ <<s, e>>[2] = e
      OBVIOUS
    <3>2. \A i \in 1 .. Len(<<s, e>>) : Append(<<s>>, e)[i] = <<s, e>>[i]
      BY <2>1, <3>1
    <3> QED
      BY <1>1, <2>1, <3>1, <3>2, SeqEqual
<1>4. <<>> \o <<s, e>> = <<s, e>>
  BY <1>1, ConcatEmptySeq
<1> QED
  BY <1>1, <1>2, <1>3, <1>4

\* What a step of a run posts: nothing while it goes on, its end as it ends.
LEMMA RunPosts ==
    ASSUME TypeInv, RunStep
    PROVE  \/ RunGoesOn /\ posts' = posts
           \/ thread' = Idle /\ \E e \in RunEnds : Post(e)
<1>0. thread' = Idle \/ RunGoesOn
  BY RunThread
<1>1. thread \in Threads
  BY TypePieces DEF ThreadType
<1> USE DEF Ends, RunEnds, SwitchFails
<1>2. Idle.at \notin RunSteps
  BY DEF Idle, RunSteps
<1>3. ASSUME NEW w \in RunSteps
      PROVE  /\ Goes(w) => thread'.at = w
             /\ \A r \in Records :
                   thread' = [thread EXCEPT !.at = w, !.pending = r] => thread'.at = w
  <2>1. Goes(w) => thread'.at = w
    BY <1>1 DEF Goes, Threads
  <2>2. \A r \in Records : [thread EXCEPT !.at = w, !.pending = r].at = w
    BY <1>1 DEF Threads
  <2> QED
    BY <2>1, <2>2
<1>4. CASE RunGoesOn
  <2>1. thread' # Idle
    BY <1>2, <1>4 DEF RunGoesOn
  <2> QED
    BY <1>4, <2>1
    DEF RunStep, Inspect, ReadOriginal, SavePrepared, Write, ReadBack, Unwind,
        MarkSwitched, Launch, PutBack, PutCheck, PutMark, Reject
<1>5. CASE thread' = Idle
  <2>1. \A w \in RunSteps : ~Goes(w)
    BY <1>2, <1>3, <1>5
  <2>2. ASSUME NEW w \in RunSteps, NEW r \in Records
        PROVE  thread' # [thread EXCEPT !.at = w, !.pending = r]
    BY <1>2, <1>3, <1>5
  <2> USE DEF RunSteps
  <2>3. CASE Inspect \/ SavePrepared \/ Write \/ ReadBack \/ Unwind
    BY <1>5, <2>1, <2>3 DEF Inspect, SavePrepared, Write, ReadBack, Unwind
  <2>4. CASE ReadOriginal
    <3>1. [original |-> region, temporary |-> thread.temporary,
           state |-> "Prepared", handoff |-> thread.handoff] \in Records
      BY <2>4, TypePieces, HandoffAssumption
      DEF ReadOriginal, Run, ThreadType, ThreadFits, DiskType, WorldType, Records,
          DurableStates, Handoffs
    <3> QED
      BY <1>5, <2>2, <2>4, <3>1 DEF ReadOriginal
  <2>5. CASE MarkSwitched \/ PutMark
    <3>1. thread.pending \in Records
      BY <2>5, TypePieces
      DEF MarkSwitched, PutMark, Run, ThreadType, HoldsRecord, RunHolds
    <3>2. \A s \in DurableStates : [thread.pending EXCEPT !.state = s] \in Records
      BY <3>1, MilestoneTyped
    <3> QED
      BY <1>5, <2>1, <2>2, <2>5, <3>2 DEF MarkSwitched, PutMark, DurableStates
  <2>6. CASE Launch \/ PutBack \/ PutCheck \/ Reject
    BY <1>5, <2>1, <2>6 DEF Launch, PutBack, PutCheck, Reject
  <2> QED
    BY <2>3, <2>4, <2>5, <2>6 DEF RunStep
<1> QED
  BY <1>0, <1>4, <1>5

\* What a step of a restoration posts and shows: its first message as it has
\* loaded the record, its end as it ends; the restoration of a start posts
\* nothing and gives the window free.
RestoreEndsPosted ==
    /\ thread' = Idle /\ thread.who = "restore" /\ window' = window
    /\ \E e \in RestoreEnds :
         IF thread.at = "load" THEN posts' = posts \o <<"RestoringRegion", e>>
         ELSE Post(e)
StartEnds ==
    /\ thread' = Idle /\ thread.who = "start" /\ window' = "none"
    /\ posts' = posts

LEMMA RestorePosts ==
    ASSUME TypeInv, RestoreStep
    PROVE  \/ /\ RestoreGoesOn /\ window' = window
              /\ IF thread.at = "load" THEN Post("RestoringRegion") ELSE posts' = posts
           \/ RestoreEndsPosted
           \/ StartEnds
<1>0. thread' = Idle \/ RestoreGoesOn
  BY RestoreThread
<1>1. thread \in Threads /\ thread.who \in {"restore", "start"}
      /\ (thread.at = "load" => thread.who = "restore")
  BY RestoreThread, TypePieces DEF ThreadType, ThreadFits
<1>2. Idle.at = "idle" /\ "idle" \notin RestoreSteps
  BY DEF Idle, RestoreSteps
<1>3. ASSUME NEW w \in RestoreSteps, Goes(w) PROVE thread'.at = w /\ thread' # Idle
  <2>1. thread'.at = w
    BY <1>1, <1>3 DEF Goes, Threads
  <2> QED
    BY <1>2, <2>1
<1>4. ASSUME NEW w \in RestoreSteps, NEW r,
             thread' = [thread EXCEPT !.at = w, !.pending = r]
      PROVE  thread'.at = w /\ thread' # Idle
  <2>1. thread'.at = w
    BY <1>1, <1>4 DEF Threads
  <2> QED
    BY <1>2, <2>1
<1>5. ASSUME NEW w \in RestoreSteps, NEW r,
             thread' = [thread EXCEPT !.at = w, !.expected = r]
      PROVE  thread'.at = w /\ thread' # Idle
  <2>1. thread'.at = w
    BY <1>1, <1>5 DEF Threads
  <2> QED
    BY <1>2, <2>1
<1>6. ASSUME StaysPending, thread.at # "load"
      PROVE  RestoreEndsPosted \/ StartEnds
  BY <1>1, <1>6 DEF StaysPending, RestoreEndsPosted, StartEnds, RestoreEnds, Ends
<1>12. ASSUME NEW r, StaysPublished(r), thread.at # "load"
       PROVE  RestoreEndsPosted \/ StartEnds
  BY <1>1, <1>12 DEF StaysPublished, RestoreEndsPosted, StartEnds, RestoreEnds, Ends
<1> USE DEF RestoreSteps
<1>7. CASE Load
  <2>1. CASE thread' = Idle
    BY <1>1, <1>4, <1>7, <2>1 DEF Load, shown, RestoreEndsPosted, RestoreEnds, Post
  <2>2. CASE thread' # Idle
    BY <1>0, <1>7, <2>2 DEF Load, shown
  <2> QED
    BY <2>1, <2>2
<1>8. CASE Classify
  BY <1>0, <1>3, <1>5, <1>6, <1>8 DEF Classify
<1>9. CASE VerifyAndClear \/ Rewrite \/ Recheck \/ Remove
  BY <1>0, <1>3, <1>6, <1>9 DEF VerifyAndClear, Rewrite, Recheck, Remove
<1>10. CASE CompareAndPublish \/ PublishRestored
  BY <1>0, <1>4, <1>6, <1>10, <1>12 DEF CompareAndPublish, PublishRestored
<1>11. CASE TellRestored
  BY <1>1, <1>11 DEF TellRestored, RestoreEndsPosted, StartEnds, RestoreEnds, Ends
<1> QED
  BY <1>7, <1>8, <1>9, <1>10, <1>11 DEF RestoreStep

\* What both leave of the rest.
LEMMA TellsTyped ==
    ASSUME ToldType, NEW h \in Handoffs, NEW r \in Results, Tells(h, r)
    PROVE  entries' \in [Handoffs -> SUBSET Results]
<1>1. entries \in [Handoffs -> SUBSET Results] /\ entries[h] \cup {r} \in SUBSET Results
  BY DEF ToldType
<1>2. [entries EXCEPT ![h] = @ \cup {r}] \in [Handoffs -> SUBSET Results]
  BY <1>1
<1> QED
  BY <1>1, <1>2 DEF Tells

LEMMA RunRest ==
    ASSUME TypeInv, RunStep
    PROVE  ToldType' /\ UNCHANGED <<file, window, admits, undecided, begun, kept>>
<1>0. ToldType /\ thread.handoff \in Handoffs
  BY RunThread, TypePieces, HandoffAssumption
  DEF ThreadType, ThreadFits, WorldType, Handoffs
<1> USE DEF Run, shown
<1>1. CASE started' = started /\ (entries' = entries \/ Tells(thread.handoff, "Failed"))
  BY <1>0, <1>1, TellsTyped DEF ToldType, Results, RunStep, Inspect, ReadOriginal,
     SavePrepared, Write, ReadBack, Unwind, MarkSwitched, Launch, PutBack, PutCheck,
     PutMark, Reject
<1>2. CASE Launch
  BY <1>0, <1>2 DEF Launch, ToldType
<1>3. CASE RunStep /\ ~Launch
  BY <1>1, <1>3 DEF SwitchFails, RunStep, Inspect, ReadOriginal,
     SavePrepared, Write, ReadBack, Unwind, MarkSwitched, PutBack, PutCheck,
     PutMark, Reject
<1> QED
  BY <1>2, <1>3

LEMMA RestoreRest ==
    ASSUME TypeInv, RestoreStep
    PROVE  ToldType' /\ UNCHANGED <<file, undecided, begun, kept>>
<1>0. ToldType /\ (thread.at \in RestoreHolds => thread.pending.handoff \in Handoffs)
  BY TypePieces DEF ThreadType, HoldsRecord, Records
<1> USE DEF Unshown, shown
<1>1. CASE TellRestored
  BY <1>0, <1>1, TellsTyped
  DEF TellRestored, ToldType, Results, RestoreHolds, RestoreSteps
<1>2. CASE RestoreStep /\ ~TellRestored
  BY <1>0, <1>2 DEF RestoreStep, Load, Classify, VerifyAndClear,
     CompareAndPublish, Rewrite, Recheck, PublishRestored, Remove, ToldType
<1> QED
  BY <1>1, <1>2

LEMMA StagesTyped ==
    /\ RunEnds \subseteq Stages /\ RestoreEnds \subseteq Stages
    /\ "SwitchingRegion" \in Stages /\ "RestoringRegion" \in Stages
  BY DEF RunEnds, RestoreEnds, Stages

LEMMA IdleFields ==
    /\ Idle.at = "idle" /\ Idle.who = "nobody"
    /\ "idle" \notin RunSteps /\ "idle" \notin RestoreSteps /\ "load" \notin RunSteps
    /\ RunHolds \subseteq RunSteps /\ RestoreHolds \subseteq RestoreSteps
    /\ RunSteps \cap RestoreSteps = {} /\ "load" \notin RestoreHolds
  BY DEF Idle, RunSteps, RestoreSteps, RunHolds, RestoreHolds

LEMMA RunShown ==
    ASSUME TypeInv, RunStep
    PROVE  ShownType'
<1>1. thread.who = "run" /\ window = "SwitchingRegion" /\ window' = window
      /\ (posts = <<>> \/ posts = <<"SwitchingRegion">>) /\ posts \in Seq(Stages)
  BY RunThread, RunRest, TypePieces DEF ShownType, WindowShowsThread, PostsFit, Posted
<1>2. CASE RunGoesOn /\ posts' = posts
  BY <1>1, <1>2, IdleFields
  DEF RunGoesOn, ShownType, WindowShowsThread, PostsFit, Posted, Stages
<1>3. ASSUME thread' = Idle, NEW e \in RunEnds, Post(e)
      PROVE  ShownType'
  <2>1. (posts' = <<e>> \/ posts' = <<"SwitchingRegion", e>>) /\ posts' \in Seq(Stages)
    BY <1>1, <1>3, FewPosts, StagesTyped DEF Post
  <2> QED
    BY <1>1, <1>3, <2>1, IdleFields
    DEF ShownType, WindowShowsThread, PostsFit, Posted, Stages
<1> QED
  BY <1>2, <1>3, RunPosts

LEMMA RestoreShown ==
    ASSUME TypeInv, RestoreStep
    PROVE  ShownType'
<1>1. /\ thread.who = "restore" => /\ window = "RestoringRegion"
                                   /\ posts = <<>> \/ posts = <<"RestoringRegion">>
      /\ thread.who = "start" => window = "starting" /\ posts = <<>>
      /\ thread.at = "load" => posts = <<>> /\ thread.who = "restore"
      /\ thread.who \in {"restore", "start"} /\ posts \in Seq(Stages)
  BY RestoreThread, TypePieces
  DEF ThreadType, ThreadFits, ShownType, WindowShowsThread, PostsFit, Posted
<1>2. CASE /\ RestoreGoesOn /\ window' = window
           /\ IF thread.at = "load" THEN Post("RestoringRegion") ELSE posts' = posts
  <2>1. /\ thread'.who = thread.who /\ thread'.at # "load"
    BY <1>2, IdleFields DEF RestoreGoesOn
  <2>2. thread.at = "load" => posts' = <<"RestoringRegion">>
    BY <1>1, <1>2, FewPosts, StagesTyped DEF Post
  <2>3. posts' \in Seq(Stages)
    BY <1>1, <1>2, <2>2, FewPosts, StagesTyped
  <2> QED
    BY <1>1, <1>2, <2>1, <2>2, <2>3
    DEF ShownType, WindowShowsThread, PostsFit, Posted, Stages
<1>3. CASE RestoreEndsPosted
  <2>1. PICK e \in RestoreEnds :
            IF thread.at = "load" THEN posts' = posts \o <<"RestoringRegion", e>> ELSE Post(e)
    BY <1>3 DEF RestoreEndsPosted
  <2>2. (posts' = <<e>> \/ posts' = <<"RestoringRegion", e>>) /\ posts' \in Seq(Stages)
    <3>1. e \in Stages /\ "RestoringRegion" \in Stages
      BY StagesTyped
    <3>2. CASE thread.at = "load"
      BY <1>1, <2>1, <3>1, <3>2, FewPosts
    <3>3. CASE thread.at # "load"
      BY <1>1, <1>3, <2>1, <3>1, <3>3, FewPosts DEF Post, RestoreEndsPosted
    <3> QED
      BY <3>2, <3>3
  <2> QED
    BY <1>1, <1>3, <2>2, IdleFields
    DEF RestoreEndsPosted, ShownType, WindowShowsThread, PostsFit, Posted, Stages
<1>4. CASE StartEnds
  BY <1>1, <1>4, IdleFields
  DEF StartEnds, ShownType, WindowShowsThread, PostsFit, Posted
<1> QED
  BY <1>2, <1>3, <1>4, RestorePosts

\* A step of a thread keeps the invariant.
LEMMA ThreadStepTypes ==
    ASSUME TypeInv, RunStep \/ RestoreStep
    PROVE  TypeInv'
<1>0. WorldType /\ ThreadType /\ begun \in Nat
  BY TypePieces, HandoffAssumption DEF WorldType
<1>1. ASSUME thread' = Idle PROVE ThreadType'
  BY <1>1, IdleTyped, IdleFields DEF ThreadType, ThreadFits, HoldsRecord
<1>2. CASE RunStep
  <2>1. DiskType' /\ ToldType' /\ WorldType' /\ ShownType'
    BY <1>0, <1>2, RunDiskTyped, RunRest, RunShown DEF WorldType
  <2>2. ThreadType'
    BY <1>0, <1>1, <1>2, RunThread, RunRest, IdleFields
    DEF RunGoesOn, ThreadType, ThreadFits, HoldsRecord
  <2> QED
    BY <2>1, <2>2 DEF TypeInv, TypeOK, DiskType, ThreadType, ToldType, WorldType, ShownType
<1>3. CASE RestoreStep
  <2>1. DiskType' /\ ToldType' /\ WorldType' /\ ShownType'
    BY <1>0, <1>3, RestoreDiskTyped, RestoreRest, RestoreShown DEF WorldType
  <2>2. ThreadType'
    BY <1>0, <1>1, <1>3, RestoreThread, IdleFields
    DEF RestoreGoesOn, ThreadType, ThreadFits, HoldsRecord
  <2> QED
    BY <2>1, <2>2 DEF TypeInv, TypeOK, DiskType, ThreadType, ToldType, WorldType, ShownType
<1> QED
  BY <1>2, <1>3

\* What the window does keeps the invariant.
LEMMA BeginHandoffTypes ==
    ASSUME TypeInv, BeginHandoff
    PROVE  TypeInv'
<1>0. /\ DiskType /\ ToldType /\ WorldType /\ begun \in Nat /\ MaxHandoffs \in Nat
      /\ begun + 1 \in 0 .. MaxHandoffs
  BY TypePieces, HandoffAssumption DEF WorldType, BeginHandoff
<1>1. DiskType' /\ ToldType' /\ WorldType'
  BY <1>0 DEF BeginHandoff, DiskType, ToldType, WorldType, disk
<1>2. PICK f \in Admissible, r \in Regions :
          thread' = [Idle EXCEPT !.at = "inspect", !.who = "run",
                                 !.handoff = begun + 1, !.confirmed = f,
                                 !.temporary = r]
  BY DEF BeginHandoff
<1>3. thread' = [at |-> "inspect", who |-> "run", handoff |-> begun + 1,
                 confirmed |-> f, temporary |-> r, pending |-> NoRecord,
                 expected |-> NoRegion]
  BY <1>2 DEF Idle
<1>4. ThreadType'
  <2>1. thread' \in Threads
    BY <1>0, <1>3, HandoffAssumption DEF Threads
  <2> QED
    BY <1>0, <1>3, <2>1
    DEF BeginHandoff, ThreadType, ThreadFits, HoldsRecord, RunSteps, RestoreSteps,
        RunHolds, RestoreHolds
<1>5. ShownType'
  <2>1. posts = <<>>
    BY TypePieces DEF BeginHandoff, ShownType, PostsFit, Finished
  <2>2. posts' = <<"SwitchingRegion">> /\ posts' \in Seq(Stages)
    BY <2>1, StagesTyped, FewPosts DEF BeginHandoff, Post
  <2> QED
    BY <1>3, <2>2
    DEF BeginHandoff, ShownType, WindowShowsThread, PostsFit, Posted, Stages
<1> QED
  BY <1>1, <1>4, <1>5
  DEF TypeInv, TypeOK, DiskType, ThreadType, ToldType, WorldType, ShownType

LEMMA BeginRestoreTypes ==
    ASSUME TypeInv, BeginRegionRestore
    PROVE  TypeInv'
<1>1. DiskType' /\ ToldType' /\ WorldType'
  BY TypePieces DEF BeginRegionRestore, DiskType, ToldType, WorldType, disk
<1>2. thread' = [at |-> "load", who |-> "restore", handoff |-> 0,
                 confirmed |-> NoFile, temporary |-> NoRegion, pending |-> NoRecord,
                 expected |-> NoRegion]
  BY DEF BeginRegionRestore, Idle
<1>3. ThreadType'
  <2>1. thread' \in Threads
    BY <1>2, HandoffAssumption DEF Threads
  <2> QED
    BY <1>2, <2>1
    DEF ThreadType, ThreadFits, HoldsRecord, RunSteps, RestoreSteps, RunHolds, RestoreHolds
<1>4. ShownType'
  <2>1. posts = <<>> /\ posts \in Seq(Stages) /\ posts' = posts
    BY TypePieces DEF BeginRegionRestore, ShownType, PostsFit, OffersRegionRestore
  <2> QED
    BY <1>2, <2>1
    DEF BeginRegionRestore, ShownType, WindowShowsThread, PostsFit, Posted, Stages
<1> QED
  BY <1>1, <1>3, <1>4
  DEF TypeInv, TypeOK, DiskType, ThreadType, ToldType, WorldType, ShownType

\* The message handled is the first of the function, which the window shows
\* already, or its last, which leaves the window to the user.
LEMMA ApplyTypes ==
    ASSUME TypeInv, ApplyHandoffUpdate
    PROVE  TypeInv'
<1>1. DiskType' /\ ToldType' /\ WorldType' /\ ThreadType'
  BY TypePieces
  DEF ApplyHandoffUpdate, DiskType, ToldType, WorldType, ThreadType, ThreadFits,
      HoldsRecord, disk
<1>2. ShownType'
  <2>1. /\ window \in {"SwitchingRegion", "RestoringRegion"} /\ posts # <<>>
        /\ thread' = thread /\ window' = Head(posts) /\ posts' = Tail(posts)
        /\ thread.who # "start" /\ ShownType
        /\ posts \in Seq(Stages) /\ window' \in Stages /\ posts' \in Seq(Stages)
        /\ thread.at # "load"
    BY TypePieces, HeadTailProperties
    DEF ApplyHandoffUpdate, ShownType, PostsFit, WindowShowsThread, Gone
  <2>2. ASSUME NEW stage \in {"SwitchingRegion", "RestoringRegion"}, NEW ends,
               ends \subseteq RunEnds \cup RestoreEnds,
               window = stage, Posted(thread.who, stage, ends)
        PROVE  /\ window' = stage /\ posts' = <<>> /\ thread.who # "nobody"
               \/ /\ window' = stage /\ thread.who = "nobody"
                  /\ \E e \in ends : posts' = <<e>>
               \/ /\ window' \in ends /\ thread.who = "nobody" /\ posts' = <<>>
    <3>1. CASE posts = <<stage>>
      BY <2>1, <2>2, <3>1 DEF Posted, RunEnds, RestoreEnds
    <3>2. ASSUME NEW e \in ends, posts = <<e>>, thread.who = "nobody"
          PROVE  window' \in ends /\ posts' = <<>>
      BY <2>1, <3>2
    <3>3. ASSUME NEW e \in ends, posts = <<stage, e>>, thread.who = "nobody"
          PROVE  window' = stage /\ posts' = <<e>>
      BY <2>1, <3>3
    <3> QED
      BY <2>1, <2>2, <3>1, <3>2, <3>3 DEF Posted
  <2>3. CASE window = "SwitchingRegion"
    <3>1. Posted(thread.who, "SwitchingRegion", RunEnds) /\ thread.who \in {"run", "nobody"}
      BY <2>1, <2>3, TypePieces
      DEF ShownType, PostsFit, WindowShowsThread, ThreadType, Threads
    <3>2. CASE window' = window /\ posts' = <<>> /\ thread.who # "nobody"
      BY <2>1, <2>3, <3>1, <3>2 DEF ShownType, WindowShowsThread, PostsFit, Posted
    <3>3. CASE window' = window /\ thread.who = "nobody" /\ \E e \in RunEnds : posts' = <<e>>
      BY <2>1, <2>3, <3>1, <3>3 DEF ShownType, WindowShowsThread, PostsFit, Posted
    <3>4. CASE window' \in RunEnds /\ thread.who = "nobody" /\ posts' = <<>>
      BY <2>1, <2>3, <3>1, <3>4
      DEF ShownType, WindowShowsThread, PostsFit, Posted, RunEnds
    <3> QED
      BY <2>2, <2>3, <3>1, <3>2, <3>3, <3>4
  <2>4. CASE window = "RestoringRegion"
    <3>1. /\ Posted(thread.who, "RestoringRegion", RestoreEnds)
          /\ thread.who \in {"restore", "nobody"}
      BY <2>1, <2>4, TypePieces
      DEF ShownType, PostsFit, WindowShowsThread, ThreadType, Threads
    <3>2. CASE window' = window /\ posts' = <<>> /\ thread.who # "nobody"
      BY <2>1, <2>4, <3>1, <3>2 DEF ShownType, WindowShowsThread, PostsFit, Posted
    <3>3. CASE window' = window /\ thread.who = "nobody" /\ \E e \in RestoreEnds : posts' = <<e>>
      BY <2>1, <2>4, <3>1, <3>3 DEF ShownType, WindowShowsThread, PostsFit, Posted
    <3>4. CASE window' \in RestoreEnds /\ thread.who = "nobody" /\ posts' = <<>>
      BY <2>1, <2>4, <3>1, <3>4
      DEF ShownType, WindowShowsThread, PostsFit, Posted, RestoreEnds
    <3> QED
      BY <2>2, <2>4, <3>1, <3>2, <3>3, <3>4
  <2> QED
    BY <2>1, <2>3, <2>4
<1> QED
  BY <1>1, <1>2
  DEF TypeInv, TypeOK, DiskType, ThreadType, ToldType, WorldType, ShownType

\* A window that is gone, or shows nothing, has no thread and no message.
LEMMA AtRestTyped ==
    ASSUME thread' = Idle, posts' = <<>>, window' \in Gone \cup Finished \cup {"none"}
    PROVE  ThreadType' /\ ShownType'
<1>1. ThreadType'
  BY IdleTyped, IdleFields DEF ThreadType, ThreadFits, HoldsRecord
<1>2. posts' \in Seq(Stages)
  BY EmptySeq
<1> QED
  BY <1>1, <1>2, IdleFields
  DEF ShownType, WindowShowsThread, PostsFit, Stages, Gone, Finished

\* Who offers the user a command, or nothing, is alone: NobodyElseWorks.
LEMMA NobodyWorks ==
    ASSUME TypeInv
    PROVE  /\ NobodyElseWorks
           /\ window \in Gone => thread = Idle /\ posts = <<>>
<1>1. /\ ThreadType /\ ShownType
      /\ thread.at \in {"idle"} \cup RunSteps \cup RestoreSteps
  BY TypePieces DEF ThreadType, Threads, RunSteps, RestoreSteps
<1>2. ASSUME window \in OffersRegionRestore \cup Finished \cup Gone \cup {"none"}
      PROVE  thread = Idle /\ posts = <<>>
  <2>1. window \notin {"SwitchingRegion", "RestoringRegion", "starting"}
    BY <1>2 DEF OffersRegionRestore, Finished, Gone
  <2> QED
    BY <1>1, <2>1 DEF ShownType, WindowShowsThread, PostsFit, ThreadType, ThreadFits
<1> QED
  BY <1>2 DEF NobodyElseWorks

LEMMA SettleTypes ==
    ASSUME TypeInv, SettlePendingRecovery
    PROVE  TypeInv'
<1>0. thread = Idle /\ posts = <<>>
  BY NobodyWorks DEF NobodyElseWorks, SettlePendingRecovery
<1>1. DiskType' /\ ToldType' /\ WorldType'
  BY TypePieces, InspectionTyped
  DEF SettlePendingRecovery, DiskType, ToldType, WorldType, disk
<1>2. ThreadType' /\ ShownType'
  <2>1. CASE thread' = thread /\ window' = window
    BY <1>0, <2>1, AtRestTyped DEF SettlePendingRecovery
  <2>2. CASE /\ record # NoRecord /\ window' = "starting"
             /\ thread' = [Idle EXCEPT !.at = "compare", !.who = "start",
                                       !.pending = record, !.expected = region]
    <3>1. thread' = [at |-> "compare", who |-> "start", handoff |-> 0,
                     confirmed |-> NoFile, temporary |-> NoRegion, pending |-> record,
                     expected |-> region]
      BY <2>2 DEF Idle
    <3>2. record \in Records /\ region \in Regions
      BY <2>2, TypePieces DEF DiskType
    <3>3. thread' \in Threads
      BY <3>1, <3>2, HandoffAssumption DEF Threads
    <3>4. ThreadType'
      BY <3>1, <3>2, <3>3
      DEF ThreadType, ThreadFits, HoldsRecord, RunSteps, RestoreSteps, RunHolds, RestoreHolds
    <3>5. ShownType'
      BY <1>0, <2>2, <3>1, EmptySeq
      DEF SettlePendingRecovery, ShownType, WindowShowsThread, PostsFit
    <3> QED
      BY <3>4, <3>5
  <2> QED
    BY <2>1, <2>2 DEF SettlePendingRecovery
<1> QED
  BY <1>1, <1>2
  DEF TypeInv, TypeOK, DiskType, ThreadType, ToldType, WorldType, ShownType

LEMMA WindowTypes ==
    ASSUME TypeInv, ForgetFinishedHandoff \/ RequestWindowClose \/ Crash \/ Start
    PROVE  TypeInv'
<1>1. DiskType' /\ ToldType' /\ WorldType'
  BY TypePieces, InspectionTyped
  DEF ForgetFinishedHandoff, RequestWindowClose, Crash, Start, DiskType, ToldType,
      WorldType, disk
<1>2. ThreadType' /\ ShownType'
  BY NobodyWorks, AtRestTyped
  DEF NobodyElseWorks, ForgetFinishedHandoff, RequestWindowClose, Crash, Start, Gone,
      Finished
<1> QED
  BY <1>1, <1>2
  DEF TypeInv, TypeOK, DiskType, ThreadType, ToldType, WorldType, ShownType

LEMMA OutsideTypes ==
    ASSUME TypeInv, UserMoves \/ FileChanges \/ UNCHANGED vars
    PROVE  TypeInv'
<1>1. DiskType' /\ ToldType' /\ WorldType'
  BY TypePieces
  DEF UserMoves, FileChanges, vars, DiskType, ToldType, WorldType, disk, shown
<1>2. UNCHANGED <<thread, window, posts, begun>>
  BY DEF UserMoves, FileChanges, vars, shown
<1>3. ThreadType' /\ ShownType'
  BY <1>2, TypePieces
  DEF ThreadType, ThreadFits, HoldsRecord, ShownType, WindowShowsThread, PostsFit, Posted
<1> QED
  BY <1>1, <1>3
  DEF TypeInv, TypeOK, DiskType, ThreadType, ToldType, WorldType, ShownType

LEMMA TypeInit == Init => TypeInv
<1> SUFFICES ASSUME Init PROVE TypeInv
  OBVIOUS
<1>1. DiskType /\ WorldType
  <2>1. DiskType
    BY DEF Init, DiskType
  <2>2. begun \in 0 .. MaxHandoffs
    BY HandoffAssumption DEF Init
  <2> QED
    BY <2>1, <2>2 DEF Init, WorldType
<1>4. ToldType
  <2>1. [h \in Handoffs |-> {}] \in [Handoffs -> SUBSET Results]
    OBVIOUS
  <2> QED
    BY <2>1 DEF Init, ToldType
<1>2. ThreadType
  BY IdleTyped, IdleFields DEF Init, ThreadType, ThreadFits, HoldsRecord
<1>3. ShownType
  BY EmptySeq, IdleFields DEF Init, ShownType, WindowShowsThread, PostsFit
<1> QED
  BY <1>1, <1>2, <1>3, <1>4, TypePieces

LEMMA TypeStep == TypeInv /\ [Next]_vars => TypeInv'
  BY ThreadStepTypes, BeginHandoffTypes, BeginRestoreTypes, ApplyTypes, SettleTypes,
     WindowTypes, OutsideTypes DEF Next

LEMMA TypeHolds == Spec => []TypeInv
  BY TypeInit, TypeStep, PTL DEF Spec

\* Type correctness of the handoff's world, thread, window and history, for
\* any number of handoffs (gui/handoff.rs, gui/state.rs HandoffState).
THEOREM HandoffTypes == Spec => []TypeOK
<1>1. TypeInv => TypeOK
  BY DEF TypeInv
<1> QED
  BY <1>1, TypeHolds, PTL

\* A command that starts a thread is offered only when none is at work and
\* nothing it posted waits (state.rs:504-547).
THEOREM CommandsFindNobody == Spec => []NobodyElseWorks
<1>1. TypeInv => NobodyElseWorks
  BY NobodyWorks
<1> QED
  BY <1>1, TypeHolds, PTL

-------------------------------------------------------------------------------
(* The disk beside a thread.                                               *)

\* What a step of a thread does to its place and to what it holds.
LEMMA GoesFields ==
    ASSUME thread \in Threads, NEW w, Goes(w)
    PROVE  /\ thread'.at = w /\ thread'.pending = thread.pending
           /\ thread'.handoff = thread.handoff
  BY DEF Goes, Threads

LEMMA PendingFields ==
    ASSUME thread \in Threads, NEW w, NEW r,
           thread' = [thread EXCEPT !.at = w, !.pending = r]
    PROVE  thread'.at = w /\ thread'.pending = r /\ thread'.handoff = thread.handoff
  BY DEF Threads

\* A thread that ends leaves a record no younger than the last handoff begun.
LEMMA EndLeavesDisk ==
    ASSUME thread' = Idle, record' # NoRecord => record'.handoff <= begun'
    PROVE  DiskInv'
  BY IdleFields
  DEF DiskInv, RecordIsBegun, HeldIsOnDisk, RunNotRestored, RunHolds, RunSteps,
      RestoreHolds, RestoreSteps

LEMMA EndKeepsDisk ==
    ASSUME TypeInv, DiskInv, thread' = Idle, record' \in {record, NoRecord},
           begun' = begun
    PROVE  DiskInv'
  BY IdleFields
  DEF DiskInv, RecordIsBegun, HeldIsOnDisk, RunNotRestored, RunHolds, RunSteps,
      RestoreHolds, RestoreSteps

LEMMA InspectionRemoves ==
    ASSUME Inspection
    PROVE  /\ record' \in {record, NoRecord} /\ UNCHANGED <<region, owed>>
           /\ record' # record => record # NoRecord /\ region = record.original
  BY DEF Inspection, ClearVerified, disk

\* A step with the record in hand that changes neither record, and one that
\* publishes a milestone of it.
LEMMA GoesOnDisk ==
    ASSUME DiskInv, thread \in Threads, begun' = begun, record' = record,
           NEW w, Goes(w),
           thread.at \in (RunHolds \ {"save"}) \cup (RestoreHolds \ {"tell"}),
           w \in RunHolds => w # "save" /\ thread.at \in RunHolds \ {"reject"},
           w \in RestoreHolds => thread.at \in RestoreHolds,
           w \in RunHolds \cup RestoreHolds
    PROVE  DiskInv'
<1>1. thread'.at = w /\ thread'.pending = thread.pending
  BY GoesFields
<1>2. w \notin {"inspect", "read", "save"}
  BY DEF RunHolds, RestoreHolds, RunSteps, RestoreSteps
<1> QED
  BY <1>1, <1>2, IdleFields DEF DiskInv, RecordIsBegun, HeldIsOnDisk, RunNotRestored

LEMMA PublishDisk ==
    ASSUME TypeInv, DiskInv, thread \in Threads, begun' = begun,
           NEW w, NEW s \in DurableStates,
           LET r == [thread.pending EXCEPT !.state = s]
           IN  record' = r /\ thread' = [thread EXCEPT !.at = w, !.pending = r],
           thread.pending \in Records, Alike(record, thread.pending),
           w \in RunHolds \ {"reject"} => s # "Restored",
           w \in (RunHolds \ {"save"}) \cup RestoreHolds
    PROVE  DiskInv'
<1> DEFINE r == [thread.pending EXCEPT !.state = s]
<1>1. /\ r \in Records /\ r.state = s /\ r.handoff = record.handoff
  BY MilestoneTyped DEF Alike
<1>2. record' = r
  OBVIOUS
<1>3. thread'.at = w /\ thread'.pending = r
  BY PendingFields
<1>4. w \notin {"inspect", "read", "save"}
  BY DEF RunHolds, RestoreHolds, RunSteps, RestoreSteps
<1>5. record # NoRecord /\ r # NoRecord
  BY <1>1, RecordAssumption DEF Alike
<1> HIDE DEF r
<1> QED
  BY <1>1, <1>2, <1>3, <1>4, <1>5
  DEF DiskInv, RecordIsBegun, HeldIsOnDisk, RunNotRestored, Alike

\* A milestone of a run that was not published, whether or not it was moved.
LEMMA NotPublishedDisk ==
    ASSUME DiskInv, thread \in Threads, begun' = begun, NEW s \in DurableStates,
           NEW w \in RunHolds \ {"save"}, Goes(w),
           NotPublished([thread.pending EXCEPT !.state = s]),
           thread.pending \in Records, Alike(record, thread.pending),
           thread.at \in RunHolds \ {"reject"}
    PROVE  DiskInv'
<1> DEFINE r == [thread.pending EXCEPT !.state = s]
<1>1. Alike(record', thread.pending)
  <2>1. r \in Records /\ r.handoff = thread.pending.handoff
        /\ r.original = thread.pending.original /\ r.temporary = thread.pending.temporary
    BY MilestoneTyped
  <2>2. record' = record \/ record' = r
    BY DEF NotPublished, Publish, disk
  <2> HIDE DEF r
  <2> QED
    BY <2>1, <2>2, RecordAssumption DEF Alike
<1>2. thread'.at = w /\ thread'.pending = thread.pending
  BY GoesFields
<1>3. w \notin {"inspect", "read", "save"} \cup RestoreHolds
  BY DEF RunHolds, RestoreHolds, RunSteps, RestoreSteps
<1> QED
  BY <1>1, <1>2, <1>3 DEF DiskInv, RecordIsBegun, HeldIsOnDisk, RunNotRestored, Alike

LEMMA RunDisk ==
    ASSUME TypeInv, DiskInv, RunStep
    PROVE  DiskInv'
<1>1. /\ thread \in Threads /\ thread.handoff = begun /\ begun \in Nat /\ begun' = begun
      /\ thread.at \in RunSteps
      /\ thread.at \in RunHolds => thread.pending \in Records /\ thread.pending.handoff = begun
      /\ record # NoRecord => record \in Records /\ record.handoff \in Nat
  BY RunThread, RunRest, TypePieces, HandoffAssumption
  DEF ThreadType, ThreadFits, HoldsRecord, WorldType, DiskType, Records, Handoffs
<1>2. CASE thread' = Idle
  <2>1. record' \in {record, NoRecord} \/ (record' = thread.pending /\ thread.at = "save")
    <3>1. \A w \in RunSteps : ~Goes(w)
      BY <1>1, <1>2, GoesFields, IdleFields
    <3>2. ~MarkSwitched /\ ~PutMark
      BY <1>1, <1>2, <3>1, PendingFields, IdleFields DEF MarkSwitched, PutMark, RunSteps
    <3> QED
      BY <1>2, <3>1, <3>2
      DEF RunStep, Inspect, ReadOriginal, SavePrepared, Write, ReadBack, Unwind, Launch,
          PutBack, PutCheck, Reject, SwitchFails, Publish, ClearVerified, Run, disk,
          RunSteps
  <2>2. CASE record' \in {record, NoRecord}
    BY <1>1, <1>2, <2>2, EndKeepsDisk
  <2>3. CASE record' = thread.pending /\ thread.at = "save"
    BY <1>1, <1>2, <2>3, EndLeavesDisk DEF RunHolds, RunSteps
  <2> QED
    BY <2>1, <2>2, <2>3
<1>3. CASE thread' # Idle
  <2> USE DEF Ends, SwitchFails, Run, disk
  <2>0. thread.at \in RunHolds \ {"save"} =>
          Alike(record, thread.pending) /\ thread.pending \in Records
    BY <1>1 DEF DiskInv, HeldIsOnDisk
  <2>1. CASE Inspect
    <3>1. Goes("read") /\ record' = record /\ thread.at = "inspect"
      BY <1>3, <2>1 DEF Inspect
    <3>2. thread'.at = "read"
      BY <1>1, <3>1, GoesFields
    <3> QED
      BY <1>1, <3>1, <3>2
      DEF DiskInv, RecordIsBegun, HeldIsOnDisk, RunNotRestored, RunHolds, RestoreHolds,
          RunSteps, RestoreSteps
  <2>2. CASE ReadOriginal
    <3> DEFINE made == [original |-> region, temporary |-> thread.temporary,
                        state |-> "Prepared", handoff |-> thread.handoff]
    <3>1. /\ thread' = [thread EXCEPT !.at = "save", !.pending = made]
          /\ record' = record /\ thread.at = "read" /\ made.state # "Restored"
      BY <1>3, <2>2 DEF ReadOriginal
    <3> HIDE DEF made
    <3>2. thread'.at = "save" /\ thread'.pending = made
      BY <1>1, <3>1, PendingFields
    <3> QED
      BY <1>1, <3>1, <3>2
      DEF DiskInv, RecordIsBegun, HeldIsOnDisk, RunNotRestored, RunHolds, RestoreHolds,
          RunSteps, RestoreSteps
  <2>3. CASE SavePrepared
    <3>1. Goes("write") /\ record' = thread.pending /\ thread.at = "save"
      BY <1>3, <2>3 DEF SavePrepared, Publish
    <3>2. thread'.at = "write" /\ thread'.pending = thread.pending
      BY <1>1, <3>1, GoesFields
    <3>3. thread.pending \in Records /\ thread.pending.handoff = begun
          /\ thread.pending.state # "Restored"
      BY <1>1, <3>1 DEF DiskInv, RunNotRestored, RunHolds, RunSteps
    <3> QED
      BY <1>1, <3>1, <3>2, <3>3, RecordAssumption
      DEF DiskInv, RecordIsBegun, HeldIsOnDisk, Alike, RunNotRestored, RunHolds, RestoreHolds,
          RunSteps, RestoreSteps
  <2>4. ASSUME NEW w \in RunHolds \ {"save"}, Goes(w), record' = record,
               thread.at \in RunHolds \ {"save", "reject"}
        PROVE  DiskInv'
    BY <1>1, <2>4, GoesOnDisk, IdleFields
  <2> USE DEF RunHolds, RunSteps
  <2>5. CASE Write \/ ReadBack \/ Unwind \/ Launch \/ PutBack \/ PutCheck \/ Reject
    BY <1>3, <2>4, <2>5
    DEF Write, WriteTemporary, ReadBack, Unwind, Launch, PutBack, WriteOriginal, PutCheck, Reject
  <2>6. CASE MarkSwitched
    <3>1. CASE /\ Goes("launch")
               /\ NotPublished([thread.pending EXCEPT !.state = "RegionSwitched"])
      BY <1>1, <2>0, <2>6, <3>1, NotPublishedDisk DEF MarkSwitched, DurableStates
    <3>2. CASE ~(/\ Goes("launch")
                 /\ NotPublished([thread.pending EXCEPT !.state = "RegionSwitched"]))
      BY <1>1, <2>0, <2>6, <3>2, PublishDisk DEF MarkSwitched, Publish, DurableStates
    <3> QED
      BY <3>1, <3>2
  <2>7. CASE PutMark
    <3>1. CASE /\ Goes("reject")
               /\ NotPublished([thread.pending EXCEPT !.state = "Restored"])
      BY <1>1, <2>0, <2>7, <3>1, NotPublishedDisk DEF PutMark, DurableStates
    <3>2. CASE ~(/\ Goes("reject")
                 /\ NotPublished([thread.pending EXCEPT !.state = "Restored"]))
      BY <1>1, <2>0, <2>7, <3>2, PublishDisk DEF PutMark, Publish, DurableStates
    <3> QED
      BY <3>1, <3>2
  <2> QED
    BY <2>1, <2>2, <2>3, <2>5, <2>6, <2>7 DEF RunStep
<1> QED
  BY <1>2, <1>3

LEMMA RestoreDisk ==
    ASSUME TypeInv, DiskInv, RestoreStep
    PROVE  DiskInv'
<1>1. /\ thread \in Threads /\ begun' = begun /\ thread.at \in RestoreSteps
      /\ thread.at \in RestoreHolds => thread.pending \in Records
      /\ record # NoRecord => record \in Records
  BY RestoreThread, RestoreRest, TypePieces DEF ThreadType, HoldsRecord, DiskType
<1>2. thread.at \in RestoreHolds \ {"tell"} => record = thread.pending
  BY DEF DiskInv, HeldIsOnDisk
<1>3. CASE thread' = Idle
  <2>1. \A w \in RestoreSteps : ~Goes(w)
    BY <1>1, <1>3, GoesFields, IdleFields
  <2>2. \A w \in RestoreSteps : \A r : thread' # [thread EXCEPT !.at = w, !.pending = r]
    BY <1>1, <1>3, PendingFields, IdleFields
  <2>3. ASSUME NEW s \in DurableStates, StaysPublished([thread.pending EXCEPT !.state = s]),
               thread.at \in RestoreHolds \ {"tell"}
        PROVE  DiskInv'
    <3>1. record' = [record EXCEPT !.state = s] /\ record \in Records
      BY <1>1, <1>2, <2>3 DEF StaysPublished, Publish
    <3>2. record'.handoff = record.handoff
      BY <3>1, MilestoneTyped
    <3> QED
      BY <1>1, <1>3, <3>1, <3>2, RecordAssumption, EndLeavesDisk DEF DiskInv, RecordIsBegun
  <2>4. CASE CompareAndPublish \/ PublishRestored
    <3>1. CASE StaysPending
      BY <1>1, <1>3, <3>1, InspectionRemoves, EndKeepsDisk DEF StaysPending, disk
    <3>2. CASE ~StaysPending
      BY <2>2, <2>3, <2>4, <3>2
      DEF CompareAndPublish, PublishRestored, RestoreHolds, RestoreSteps, DurableStates
    <3> QED
      BY <3>1, <3>2
  <2>5. CASE RestoreStep /\ ~CompareAndPublish /\ ~PublishRestored
    <3>1. record' \in {record, NoRecord}
      BY <1>3, <2>1, <2>2, <2>5, InspectionRemoves
      DEF RestoreStep, Load, Classify, VerifyAndClear, Rewrite, Recheck, Remove,
          TellRestored, StaysPending, WriteOriginal, ClearVerified, disk, RestoreSteps
    <3> QED
      BY <1>1, <1>3, <3>1, EndKeepsDisk
  <2> QED
    BY <2>4, <2>5
<1>4. CASE thread' # Idle
  <2> USE DEF Ends, disk
  <2>1. ~StaysPending /\ \A r : ~StaysPublished(r)
    BY <1>4 DEF StaysPending, StaysPublished
  <2>2. ASSUME NEW w \in RestoreHolds, Goes(w), record' = record,
               thread.at \in RestoreHolds \ {"tell"}
        PROVE  DiskInv'
    <3>1. w \notin RunHolds
      BY IdleFields
    <3> QED
      BY <1>1, <2>2, <3>1, GoesOnDisk
  <2>3. ASSUME NEW s \in DurableStates, NEW w \in RestoreHolds,
               thread.at \in RestoreHolds \ {"tell"},
               record' = [thread.pending EXCEPT !.state = s],
               thread' = [thread EXCEPT !.at = w,
                                        !.pending = [thread.pending EXCEPT !.state = s]]
        PROVE  DiskInv'
    <3>1. w \notin RunHolds /\ Alike(record, thread.pending)
      BY <1>1, <1>2, <2>3, IdleFields, RecordAssumption DEF Alike
    <3> QED
      BY <1>1, <1>2, <2>3, <3>1, PublishDisk
  <2>4. ASSUME Goes("tell"), record' = NoRecord
        PROVE  DiskInv'
    <3>1. thread'.at = "tell"
      BY <1>1, <2>4, GoesFields
    <3> QED
      BY <2>4, <3>1
      DEF DiskInv, RecordIsBegun, HeldIsOnDisk, RunNotRestored, RunHolds, RunSteps
  <2> USE DEF RestoreHolds, RestoreSteps
  <2>5. CASE Load
    <3>1. /\ thread' = [thread EXCEPT !.at = "classify", !.pending = record]
          /\ record' = record
      BY <1>4, <2>5 DEF Load
    <3>2. thread'.at = "classify" /\ thread'.pending = record
      BY <1>1, <3>1, PendingFields
    <3> QED
      BY <1>1, <3>1, <3>2
      DEF DiskInv, RecordIsBegun, HeldIsOnDisk, RunNotRestored, RunHolds, RunSteps
  <2>6. CASE Classify
    <3>1. CASE Goes("verify")
      BY <2>1, <2>2, <2>6, <3>1 DEF Classify
    <3>2. CASE thread' = [thread EXCEPT !.at = "compare", !.expected = region]
      <4>1. thread'.at = "compare" /\ thread'.pending = thread.pending
        BY <1>1, <3>2 DEF Threads
      <4>2. record' = record /\ record = thread.pending
        BY <1>2, <2>1, <2>6 DEF Classify
      <4> QED
        BY <1>1, <4>1, <4>2
        DEF DiskInv, RecordIsBegun, HeldIsOnDisk, RunNotRestored, RunHolds, RunSteps
    <3> QED
      BY <2>1, <2>6, <3>1, <3>2 DEF Classify
  <2>7. CASE VerifyAndClear \/ Remove
    BY <2>1, <2>4, <2>7 DEF VerifyAndClear, Remove, ClearVerified
  <2>8. CASE CompareAndPublish
    BY <2>1, <2>3, <2>8 DEF CompareAndPublish, Publish, DurableStates
  <2>9. CASE Rewrite \/ Recheck
    BY <2>1, <2>2, <2>9 DEF Rewrite, Recheck, WriteOriginal
  <2>10. CASE PublishRestored
    BY <2>1, <2>3, <2>10 DEF PublishRestored, Publish, DurableStates
  <2>11. CASE TellRestored
    BY <1>4, <2>11 DEF TellRestored
  <2> QED
    BY <2>5, <2>6, <2>7, <2>8, <2>9, <2>10, <2>11 DEF RestoreStep
<1> QED
  BY <1>3, <1>4

\* The window, the user and the file system beside them.
LEMMA WindowDisk ==
    ASSUME TypeInv, DiskInv,
           \/ BeginHandoff \/ BeginRegionRestore \/ ApplyHandoffUpdate
           \/ ForgetFinishedHandoff \/ RequestWindowClose \/ Crash \/ Start
           \/ SettlePendingRecovery \/ UserMoves \/ FileChanges \/ UNCHANGED vars
    PROVE  DiskInv'
<1> USE DEF disk, shown
<1>0. /\ begun \in Nat /\ (record # NoRecord => record \in Records /\ record.handoff \in Nat)
      /\ thread \in Threads
  BY TypePieces, HandoffAssumption DEF WorldType, DiskType, Records, Handoffs, ThreadType
<1>1. CASE BeginHandoff
  <2>1. PICK f \in Admissible, r \in Regions :
            thread' = [Idle EXCEPT !.at = "inspect", !.who = "run",
                                   !.handoff = begun + 1, !.confirmed = f,
                                   !.temporary = r]
    BY <1>1 DEF BeginHandoff
  <2>2. thread'.at = "inspect" /\ begun' = begun + 1 /\ record' = record
    BY <1>1, <2>1 DEF BeginHandoff, Idle
  <2> QED
    BY <1>0, <2>2
    DEF DiskInv, RecordIsBegun, HeldIsOnDisk, RunNotRestored, RunHolds, RunSteps,
        RestoreHolds, RestoreSteps
<1>2. CASE BeginRegionRestore
  <2>1. thread'.at = "load" /\ begun' = begun /\ record' = record
    BY <1>2 DEF BeginRegionRestore, Idle
  <2> QED
    BY <2>1
    DEF DiskInv, RecordIsBegun, HeldIsOnDisk, RunNotRestored, RunHolds, RunSteps,
        RestoreHolds, RestoreSteps
<1>3. CASE ApplyHandoffUpdate \/ ForgetFinishedHandoff \/ UserMoves \/ FileChanges
           \/ UNCHANGED vars
  <2>1. thread' = thread /\ begun' = begun /\ record' = record
    BY <1>3 DEF ApplyHandoffUpdate, ForgetFinishedHandoff, UserMoves, FileChanges, vars
  <2> QED
    BY <2>1 DEF DiskInv, RecordIsBegun, HeldIsOnDisk, RunNotRestored
<1>4. CASE RequestWindowClose \/ Crash \/ Start
  <2>1. /\ thread' = Idle /\ begun' = begun /\ record' \in {record, NoRecord}
    BY <1>4, NobodyWorks, InspectionRemoves DEF RequestWindowClose, Crash, Start
  <2> QED
    BY <2>1, EndKeepsDisk
<1>5. CASE SettlePendingRecovery
  <2>1. thread = Idle /\ begun' = begun
    BY <1>5, NobodyWorks DEF SettlePendingRecovery, NobodyElseWorks
  <2>2. CASE Inspection /\ thread' = thread
    BY <2>1, <2>2, InspectionRemoves, EndKeepsDisk
  <2>3. CASE /\ thread' = [Idle EXCEPT !.at = "compare", !.who = "start",
                                       !.pending = record, !.expected = region]
             /\ record' = record
    <3>1. thread'.at = "compare" /\ thread'.pending = record
      BY <2>3 DEF Idle
    <3> QED
      BY <2>1, <2>3, <3>1
      DEF DiskInv, RecordIsBegun, HeldIsOnDisk, RunNotRestored, RunHolds, RunSteps,
          RestoreHolds, RestoreSteps
  <2> QED
    BY <1>5, <2>2, <2>3 DEF SettlePendingRecovery
<1> QED
  BY <1>1, <1>2, <1>3, <1>4, <1>5

LEMMA DiskHolds == Spec => [](TypeInv /\ DiskInv)
<1>1. Init => DiskInv
  BY IdleFields
  DEF Init, DiskInv, RecordIsBegun, HeldIsOnDisk, RunNotRestored, RunHolds, RunSteps,
      RestoreHolds, RestoreSteps
<1>2. TypeInv /\ DiskInv /\ [Next]_vars => DiskInv'
  BY RunDisk, RestoreDisk, WindowDisk DEF Next
<1> QED
  BY <1>1, <1>2, TypeInit, TypeStep, PTL DEF Spec

-------------------------------------------------------------------------------
(* How the record and the region move.  Each move is one of the promise's. *)

RegionTaken ==
    /\ record # NoRecord /\ record' = record /\ region' = record.temporary
    /\ owed' = IF record.temporary = record.original THEN NoRegion ELSE record.original
RegionGiven ==
    /\ record # NoRecord /\ record' = record /\ region' = record.original
    /\ owed' = NoRegion
RegionChosen ==
    record' = record /\ region' \in Regions \ {region} /\ owed' = NoRegion
RecordSaved ==
    record = NoRecord /\ record' \in Records /\ UNCHANGED <<region, owed>>
RecordMarked ==
    /\ record \in Records /\ record' \in Records /\ UNCHANGED <<region, owed>>
    /\ record'.original = record.original /\ record'.temporary = record.temporary
    /\ record'.handoff = record.handoff
RecordForgotten ==
    record \in Records /\ record' = NoRecord /\ owed = NoRegion /\ UNCHANGED <<region, owed>>

DiskMoves ==
    \/ RegionTaken \/ RegionGiven \/ RegionChosen
    \/ RecordSaved \/ RecordMarked \/ RecordForgotten
    \/ UNCHANGED disk

\* In its original region the user is owed nothing.
LEMMA ReadBackOwesNothing ==
    ASSUME DebtInv, record # NoRecord, region = record.original
    PROVE  owed = NoRegion
  BY DEF DebtInv, OwedIsRecorded

LEMMA InspectionMoves ==
    ASSUME TypeInv, DebtInv, Inspection
    PROVE  DiskMoves
<1>1. record # NoRecord => record \in Records
  BY TypePieces DEF DiskType
<1> QED
  BY <1>1, ReadBackOwesNothing
  DEF Inspection, ClearVerified, disk, DiskMoves, RecordForgotten

LEMMA MilestoneMoves ==
    ASSUME record \in Records, NEW r \in Records, NEW s \in DurableStates,
           Alike(record, r), Publish([r EXCEPT !.state = s])
    PROVE  DiskMoves
  BY MilestoneTyped DEF Alike, Publish, RecordMarked, DiskMoves

LEMMA RunMoves ==
    ASSUME TypeInv, DiskInv, DebtInv, RunStep
    PROVE  DiskMoves
<1>1. /\ thread.handoff = begun /\ begun \in Nat
      /\ thread.at \in RunHolds =>
           /\ thread.pending \in Records /\ thread.pending # NoRecord
           /\ thread.pending.handoff = begun
           /\ thread.pending.temporary = thread.temporary
      /\ thread.at \in RunHolds \ {"save"} => Alike(record, thread.pending)
      /\ record # NoRecord => record \in Records /\ record.handoff \in Nat
      /\ record # NoRecord /\ thread.at = "save" => record.handoff < begun
  BY RunThread, RunRest, TypePieces, HandoffAssumption, RecordAssumption
  DEF ThreadType, ThreadFits, HoldsRecord, WorldType, DiskType, Records, Handoffs,
      DiskInv, HeldIsOnDisk, RecordIsBegun
<1> USE DEF Run, RunHolds, RunSteps, SwitchFails, Alike
<1>2. CASE Inspect \/ ReadOriginal \/ ReadBack \/ Launch \/ PutCheck
  BY <1>2 DEF Inspect, ReadOriginal, ReadBack, Launch, PutCheck, DiskMoves, disk
<1>3. CASE SavePrepared
  BY <1>1, <1>3 DEF SavePrepared, Publish, DiskMoves, RecordSaved, disk
<1>4. CASE Write \/ PutBack
  BY <1>1, <1>4
  DEF Write, WriteTemporary, PutBack, WriteOriginal, DiskMoves, RegionTaken, RegionGiven, disk
<1>5. CASE Unwind
  BY <1>1, <1>5
  DEF Unwind, ClearVerified, DebtInv, NothingOwedPastReadBack, DiskMoves, RecordForgotten, disk
<1>6. CASE MarkSwitched \/ PutMark
  <2>1. /\ record \in Records /\ thread.pending \in Records
        /\ Alike(record, thread.pending)
    BY <1>1, <1>6 DEF MarkSwitched, PutMark
  <2>2. CASE UNCHANGED disk
    BY <2>2 DEF DiskMoves
  <2>3. CASE ~UNCHANGED disk
    <3>1. \E s \in DurableStates : Publish([thread.pending EXCEPT !.state = s])
      BY <1>6, <2>3 DEF MarkSwitched, PutMark, NotPublished, DurableStates
    <3> QED
      BY <2>1, <3>1, MilestoneMoves
  <2> QED
    BY <2>2, <2>3
<1>7. CASE Reject
  BY <1>1, <1>7
  DEF Reject, ClearVerified, DebtInv, NothingOwedPastReadBack, DiskMoves, RecordForgotten, disk
<1> QED
  BY <1>2, <1>3, <1>4, <1>5, <1>6, <1>7 DEF RunStep

LEMMA RestoreMoves ==
    ASSUME TypeInv, DiskInv, DebtInv, RestoreStep
    PROVE  DiskMoves
<1>1. /\ thread.at \in RestoreHolds => thread.pending \in Records /\ thread.pending # NoRecord
      /\ thread.at \in RestoreHolds \ {"tell"} => record = thread.pending
  BY TypePieces, RecordAssumption DEF ThreadType, HoldsRecord, DiskInv, HeldIsOnDisk
<1>2. StaysPending => DiskMoves
  BY InspectionMoves DEF StaysPending, DiskMoves, disk
<1> USE DEF RestoreHolds, RestoreSteps
<1>3. CASE Load \/ Classify \/ Recheck
  BY <1>2, <1>3 DEF Load, Classify, Recheck, DiskMoves, disk
<1>4. CASE VerifyAndClear
  BY <1>1, <1>2, <1>4, ReadBackOwesNothing
  DEF VerifyAndClear, ClearVerified, DiskMoves, RecordForgotten
<1>5. CASE CompareAndPublish \/ PublishRestored
  <2>1. /\ record \in Records /\ thread.pending \in Records
        /\ Alike(record, thread.pending)
    BY <1>1, <1>5 DEF CompareAndPublish, PublishRestored, Alike
  <2>2. CASE ~StaysPending
    <3>1. \E s \in DurableStates : Publish([thread.pending EXCEPT !.state = s])
      BY <1>5, <2>2 DEF CompareAndPublish, PublishRestored, StaysPublished, DurableStates
    <3> QED
      BY <2>1, <3>1, MilestoneMoves
  <2> QED
    BY <1>2, <2>2
<1>6. CASE Rewrite
  BY <1>1, <1>6 DEF Rewrite, WriteOriginal, DiskMoves, RegionGiven, disk
<1>7. CASE Remove
  BY <1>1, <1>2, <1>7
  DEF Remove, ClearVerified, DebtInv, NothingOwedPastReadBack, DiskMoves, RecordForgotten
<1>8. CASE TellRestored
  BY <1>8, InspectionMoves DEF TellRestored, DiskMoves, disk
<1> QED
  BY <1>3, <1>4, <1>5, <1>6, <1>7, <1>8 DEF RestoreStep

LEMMA StepMovesDisk ==
    ASSUME TypeInv, DiskInv, DebtInv, [Next]_vars
    PROVE  DiskMoves
<1>1. CASE Start \/ SettlePendingRecovery
  BY <1>1, InspectionMoves DEF Start, SettlePendingRecovery, DiskMoves, disk
<1>2. CASE UserMoves
  BY <1>2 DEF UserMoves, DiskMoves, RegionChosen
<1>3. CASE \/ BeginHandoff \/ BeginRegionRestore \/ ApplyHandoffUpdate
           \/ ForgetFinishedHandoff \/ RequestWindowClose \/ Crash
           \/ FileChanges \/ UNCHANGED vars
  BY <1>3
  DEF BeginHandoff, BeginRegionRestore, ApplyHandoffUpdate, ForgetFinishedHandoff,
      RequestWindowClose, Crash, FileChanges, vars, DiskMoves, disk
<1> QED
  BY <1>1, <1>2, <1>3, RunMoves, RestoreMoves DEF Next

\* What is owed stays in the record through every such move.
LEMMA MovesKeepDebts ==
    ASSUME TypeInv, DebtInv, DiskMoves
    PROVE  OwedIsRecorded' /\ (owed = NoRegion => owed' = NoRegion \/ RegionTaken)
<1>1. record \in Records \cup {NoRecord} /\ (record \in Records => record # NoRecord)
  BY TypePieces, RecordAssumption DEF DiskType
<1>2. \A r \in Records : r # NoRecord
  BY RecordAssumption
<1> QED
  BY <1>1, <1>2
  DEF DebtInv, OwedIsRecorded, DiskMoves, RegionTaken, RegionGiven, RegionChosen,
      RecordSaved, RecordMarked, RecordForgotten, disk

\* What a read-back has settled stays settled until the record is gone.
LEMMA RunOwesNothing ==
    ASSUME TypeInv, DiskInv, DebtInv, RunStep
    PROVE  NothingOwedPastReadBack'
<1>1. /\ thread \in Threads
      /\ thread.at \in RunHolds \ {"save"} =>
           record # NoRecord /\ record.original = thread.pending.original
      /\ thread.at \in RunHolds \ {"reject"} => thread.pending.state # "Restored"
      /\ thread.at = "putmark" => owed = NoRegion
  BY TypePieces, RecordAssumption
  DEF ThreadType, HoldsRecord, DiskInv, HeldIsOnDisk, Alike, RunNotRestored, DebtInv,
      NothingOwedPastReadBack
<1>2. CASE thread' = Idle
  BY <1>2, IdleFields DEF NothingOwedPastReadBack
<1>3. CASE thread' # Idle
  <2>1. ASSUME NEW w, Goes(w), w \notin {"unwind", "putmark", "finish", "remove", "reject"}
        PROVE  NothingOwedPastReadBack'
    BY <1>1, <2>1, GoesFields DEF NothingOwedPastReadBack
  <2>2. ASSUME Goes("reject"), thread.at \in RunHolds \ {"reject"}
        PROVE  NothingOwedPastReadBack'
    BY <1>1, <2>2, GoesFields DEF NothingOwedPastReadBack
  <2>3. ASSUME NEW w, NEW r, thread' = [thread EXCEPT !.at = w, !.pending = r],
               w \notin {"unwind", "putmark", "finish", "remove", "reject"}
        PROVE  NothingOwedPastReadBack'
    BY <1>1, <2>3, PendingFields DEF NothingOwedPastReadBack
  <2> USE DEF RunHolds, RunSteps, Run, SwitchFails, Ends, disk
  <2>4. CASE Inspect \/ SavePrepared \/ Write \/ Unwind \/ Launch \/ Reject
    BY <1>3, <2>1, <2>4 DEF Inspect, SavePrepared, Write, Unwind, Launch, Reject
  <2>5. CASE ReadOriginal
    <3> DEFINE made == [original |-> region, temporary |-> thread.temporary,
                        state |-> "Prepared", handoff |-> thread.handoff]
    <3>1. thread' = [thread EXCEPT !.at = "save", !.pending = made]
      BY <1>3, <2>5 DEF ReadOriginal
    <3> HIDE DEF made
    <3> QED
      BY <2>3, <3>1
  <2>6. CASE ReadBack \/ PutCheck
    <3>1. CASE region = record.original /\ owed' = owed
      BY <1>1, <2>6, <3>1, ReadBackOwesNothing
      DEF ReadBack, PutCheck, NothingOwedPastReadBack
    <3>2. CASE region # record.original
      BY <1>1, <1>3, <2>1, <2>2, <2>6, <3>2 DEF ReadBack, PutCheck
    <3> QED
      BY <2>6, <3>1, <3>2 DEF ReadBack, PutCheck
  <2>7. CASE MarkSwitched
    <3> DEFINE made == [thread.pending EXCEPT !.state = "RegionSwitched"]
    <3>1. Goes("launch") \/ thread' = [thread EXCEPT !.at = "launch", !.pending = made]
      BY <2>7 DEF MarkSwitched
    <3> HIDE DEF made
    <3> QED
      BY <2>1, <2>3, <3>1
  <2>8. CASE PutBack
    BY <2>1, <2>2, <2>8 DEF PutBack
  <2>9. CASE PutMark
    <3>1. owed' = owed /\ owed = NoRegion
      BY <1>1, <2>9 DEF PutMark, NotPublished, Publish
    <3> QED
      BY <3>1 DEF NothingOwedPastReadBack
  <2> QED
    BY <2>4, <2>5, <2>6, <2>7, <2>8, <2>9 DEF RunStep
<1> QED
  BY <1>2, <1>3

LEMMA RestoreOwesNothing ==
    ASSUME TypeInv, DiskInv, DebtInv, RestoreStep
    PROVE  NothingOwedPastReadBack'
<1>1. /\ thread \in Threads
      /\ thread.at \in RestoreHolds \ {"tell"} => record = thread.pending /\ record # NoRecord
      /\ thread.at = "finish" => owed = NoRegion
  BY TypePieces, RecordAssumption
  DEF ThreadType, HoldsRecord, DiskInv, HeldIsOnDisk, DebtInv, NothingOwedPastReadBack,
      RestoreHolds, RestoreSteps
<1>2. CASE thread' = Idle
  BY <1>2, IdleFields DEF NothingOwedPastReadBack
<1>3. CASE thread' # Idle
  <2>1. ASSUME NEW w, Goes(w), w \notin {"unwind", "putmark", "finish", "remove", "reject"}
        PROVE  NothingOwedPastReadBack'
    BY <1>1, <2>1, GoesFields DEF NothingOwedPastReadBack
  <2>2. ASSUME NEW w, NEW r, thread' = [thread EXCEPT !.at = w, !.pending = r],
               w \notin {"unwind", "putmark", "finish", "remove", "reject"}
        PROVE  NothingOwedPastReadBack'
    BY <1>1, <2>2, PendingFields DEF NothingOwedPastReadBack
  <2>3. ASSUME NEW r, thread' = [thread EXCEPT !.at = "compare", !.expected = r]
        PROVE  NothingOwedPastReadBack'
    <3>1. thread'.at = "compare"
      BY <1>1, <2>3 DEF Threads
    <3> QED
      BY <3>1 DEF NothingOwedPastReadBack
  <2>4. ~StaysPending /\ \A r : ~StaysPublished(r)
    BY <1>3 DEF StaysPending, StaysPublished, Ends
  <2> USE DEF RestoreHolds, RestoreSteps, disk
  <2>5. CASE Load \/ CompareAndPublish
    <3> DEFINE made == [thread.pending EXCEPT !.state = "RestoringRegion"]
    <3>1. \/ thread' = [thread EXCEPT !.at = "classify", !.pending = record]
          \/ thread' = [thread EXCEPT !.at = "rewrite", !.pending = made]
      BY <1>3, <2>4, <2>5 DEF Load, CompareAndPublish
    <3> HIDE DEF made
    <3> QED
      BY <2>2, <3>1
  <2>6. CASE Classify
    BY <2>1, <2>3, <2>4, <2>6 DEF Classify
  <2>7. CASE VerifyAndClear \/ Rewrite \/ Remove
    BY <2>1, <2>4, <2>7 DEF VerifyAndClear, Rewrite, Remove
  <2>8. CASE Recheck
    <3>1. Goes("finish") /\ region = record.original /\ owed' = owed /\ record # NoRecord
      BY <1>1, <2>4, <2>8 DEF Recheck
    <3>2. thread'.at = "finish"
      BY <1>1, <3>1, GoesFields
    <3> QED
      BY <3>1, <3>2, ReadBackOwesNothing DEF NothingOwedPastReadBack
  <2>9. CASE PublishRestored
    <3>1. /\ thread' = [thread EXCEPT !.at = "remove",
                                     !.pending = [thread.pending EXCEPT !.state = "Restored"]]
          /\ owed' = owed /\ owed = NoRegion
      BY <1>1, <2>4, <2>9 DEF PublishRestored, Publish
    <3> QED
      BY <3>1 DEF NothingOwedPastReadBack
  <2>10. CASE TellRestored
    BY <1>3, <2>10 DEF TellRestored, Ends
  <2> QED
    BY <2>5, <2>6, <2>7, <2>8, <2>9, <2>10 DEF RestoreStep
<1> QED
  BY <1>2, <1>3

LEMMA WindowOwesNothing ==
    ASSUME TypeInv, DebtInv,
           \/ BeginHandoff \/ BeginRegionRestore \/ ApplyHandoffUpdate
           \/ ForgetFinishedHandoff \/ RequestWindowClose \/ Crash \/ Start
           \/ SettlePendingRecovery \/ UserMoves \/ FileChanges \/ UNCHANGED vars
    PROVE  NothingOwedPastReadBack'
<1>1. CASE BeginHandoff
  <2>1. thread'.at = "inspect"
    BY <1>1 DEF BeginHandoff, Idle
  <2> QED
    BY <2>1 DEF NothingOwedPastReadBack
<1>2. CASE BeginRegionRestore
  <2>1. thread'.at = "load"
    BY <1>2 DEF BeginRegionRestore, Idle
  <2> QED
    BY <2>1 DEF NothingOwedPastReadBack
<1>3. CASE ApplyHandoffUpdate \/ ForgetFinishedHandoff \/ FileChanges \/ UNCHANGED vars
  <2>1. thread' = thread /\ owed' = owed
    BY <1>3 DEF ApplyHandoffUpdate, ForgetFinishedHandoff, FileChanges, vars, disk
  <2> QED
    BY <2>1 DEF DebtInv, NothingOwedPastReadBack
<1>4. CASE RequestWindowClose \/ Crash \/ Start
  <2>1. thread' = Idle
    BY <1>4, NobodyWorks DEF RequestWindowClose, Crash, Start
  <2> QED
    BY <2>1, IdleFields DEF NothingOwedPastReadBack
<1>5. CASE SettlePendingRecovery
  <2>1. thread'.at \in {"idle", "compare"}
    <3>1. thread = Idle
      BY <1>5, NobodyWorks DEF SettlePendingRecovery, NobodyElseWorks
    <3>2. CASE thread' = thread
      BY <3>1, <3>2, IdleFields
    <3>3. CASE thread' = [Idle EXCEPT !.at = "compare", !.who = "start",
                                      !.pending = record, !.expected = region]
      BY <3>3 DEF Idle
    <3> QED
      BY <1>5, <3>2, <3>3 DEF SettlePendingRecovery
  <2> QED
    BY <2>1 DEF NothingOwedPastReadBack
<1>6. CASE UserMoves
  BY <1>6 DEF UserMoves, NothingOwedPastReadBack
<1> QED
  BY <1>1, <1>2, <1>3, <1>4, <1>5, <1>6

LEMMA DebtHolds == Spec => [](TypeInv /\ DiskInv /\ DebtInv)
<1>1. Init => DebtInv
  BY IdleFields DEF Init, DebtInv, OwedIsRecorded, NothingOwedPastReadBack
<1>2. TypeInv /\ DiskInv /\ DebtInv /\ [Next]_vars => DebtInv'
  BY StepMovesDisk, MovesKeepDebts, RunOwesNothing, RestoreOwesNothing, WindowOwesNothing
  DEF Next, DebtInv
<1> QED
  BY <1>1, <1>2, DiskHolds, PTL DEF Spec

-------------------------------------------------------------------------------
(* The results.                                                            *)

\* A handoff, with every crash, restart and change by the user, does to the
\* region and to the record nothing but what the abstract promise allows:
\* each step of either thread, of the window and of a start is one of the
\* promise's moves or none (handoff.rs run and restore, region.rs, startup.rs).
THEOREM HandoffKeepsPromise == Spec => ImplementsPromise
<1>1. Init => Promise!Init
  BY DEF Init, Promise!Init
<1>2. TypeInv /\ DiskInv /\ DebtInv /\ [Next]_vars => [Promise!Next]_(Promise!vars)
  <2> SUFFICES ASSUME TypeInv, DiskInv, DebtInv, [Next]_vars
               PROVE  [Promise!Next]_(Promise!vars)
    OBVIOUS
  <2>1. ASSUME NEW r \in Records
        PROVE  /\ [original |-> r.original, temporary |-> r.temporary] \in Promise!Changes
               /\ [original |-> r.original, temporary |-> r.temporary] # NoRecord
               /\ r # NoRecord
    BY <2>1, RecordAssumption DEF Records, Promise!Changes
  <2>2. record \in Records \cup {NoRecord}
    BY TypePieces DEF DiskType
  <2>3. DiskMoves
    BY StepMovesDisk
  <2>4. CASE RegionTaken \/ RegionGiven \/ RegionChosen
    BY <2>1, <2>2, <2>4
    DEF RegionTaken, RegionGiven, RegionChosen, Promise!Next, Promise!Switch,
        Promise!PutBack, Promise!UserMoves
  <2>5. CASE RecordSaved
    BY <2>1, <2>5 DEF RecordSaved, Promise!Next, Promise!Save
  <2>6. CASE RecordForgotten
    BY <2>1, <2>6 DEF RecordForgotten, Promise!Next, Promise!Forget
  <2>7. CASE RecordMarked
    BY <2>1, <2>7 DEF RecordMarked, Promise!vars
  <2>8. CASE UNCHANGED disk
    BY <2>8 DEF disk, Promise!vars
  <2> QED
    BY <2>3, <2>4, <2>5, <2>6, <2>7, <2>8 DEF DiskMoves
<1> QED
  BY <1>1, <1>2, DebtHolds, PTL DEF Spec, ImplementsPromise, Promise!Spec

\* An installer starts only under the record of its own handoff, and only as
\* the bytes that were confirmed and admitted (handoff.rs:305-330).
THEOREM LaunchesAreCovered == Spec => LaunchIsCovered
<1>1. TypeInv /\ DiskInv /\ [Next]_vars =>
        [\A h \in started' \ started :
            /\ record # NoRecord /\ record.handoff = h
            /\ record.temporary = thread.temporary
            /\ file \in Admissible /\ file = thread.confirmed]_vars
  <2> SUFFICES ASSUME TypeInv, DiskInv, [Next]_vars, NEW h \in started' \ started
               PROVE  /\ record # NoRecord /\ record.handoff = h
                      /\ record.temporary = thread.temporary
                      /\ file \in Admissible /\ file = thread.confirmed
    OBVIOUS
  <2>1. Launch
    BY DEF Next, RunStep, Inspect, ReadOriginal, SavePrepared, SwitchFails, Write,
       ReadBack, Unwind, MarkSwitched, PutBack, PutCheck, PutMark, Reject, RestoreStep,
       Load, Classify, VerifyAndClear, CompareAndPublish, Rewrite, Recheck,
       PublishRestored, Remove, TellRestored, Unshown, BeginHandoff,
       BeginRegionRestore, ApplyHandoffUpdate, ForgetFinishedHandoff,
       RequestWindowClose, Crash, Start, SettlePendingRecovery, UserMoves, FileChanges, vars
  <2>2. h = thread.handoff /\ AdmitConfirmed(file) /\ thread.at = "launch"
    BY <2>1 DEF Launch, Run
  <2>3. Alike(record, thread.pending)
    BY <2>2, TypePieces
    DEF DiskInv, HeldIsOnDisk, ThreadType, HoldsRecord, RunHolds, RunSteps
  <2>4. thread.pending.handoff = thread.handoff /\ thread.pending.temporary = thread.temporary
    BY <2>2, TypePieces DEF ThreadType, HoldsRecord, RunHolds, RunSteps
  <2> QED
    BY <2>2, <2>3, <2>4 DEF AdmitConfirmed, Alike
<1> QED
  BY <1>1, DiskHolds, PTL DEF Spec, LaunchIsCovered

\* A run that ends with the message that the region is safe owes nothing of its
\* own: it never took the region, or read it back (handoff.rs:370).
THEOREM RunsEndSafely == Spec => RunEndsSafely
<1> DEFINE Ending == thread.who = "run" /\ thread'.who = "nobody" /\ posts' # posts
                     /\ posts' # <<>> /\ posts'[Len(posts')] = "FailedRegionSafe"
<1>1. ASSUME TypeInv, DiskInv, DebtInv, [Next]_vars, Ending
      PROVE  owed = NoRegion \/ record.handoff # thread.handoff
  <2>1. thread.at \in RunSteps /\ window = "SwitchingRegion" /\ thread # Idle
        /\ posts \in {<<>>, <<"SwitchingRegion">>}
    BY <1>1, TypePieces, IdleFields
    DEF ThreadType, ThreadFits, ShownType, WindowShowsThread, PostsFit, Posted, Threads,
        RunSteps, RestoreSteps
  <2>2. RunStep
    <3>1. ~RestoreStep
      BY <2>1, RestoreThread, IdleFields, <1>1
    <3>2. thread' # thread /\ posts' # <<>> /\ thread'.who # "run"
      BY <1>1
    <3>3. ~BeginHandoff /\ ~BeginRegionRestore /\ ~Start /\ ~SettlePendingRecovery
      BY <2>1
      DEF BeginHandoff, BeginRegionRestore, Start, SettlePendingRecovery, Finished,
          OffersRegionRestore, Gone
    <3> QED
      BY <1>1, <3>1, <3>2, <3>3
      DEF Next, ApplyHandoffUpdate, ForgetFinishedHandoff, RequestWindowClose, Crash,
          UserMoves, FileChanges, vars
  <2>3. thread' = Idle /\ posts' # posts
    BY <1>1, <2>2, RunPosts DEF RunGoesOn
  <2>4. ASSUME NEW e \in {"FailedWithTemporaryRegion", "HandedOff"}
        PROVE  ~Post(e)
    <3>1. ASSUME Post(e) PROVE posts' = <<e>> \/ posts' = <<"SwitchingRegion", e>>
      BY <2>1, <3>1, FewPosts DEF Post, Stages
    <3> QED
      BY <1>1, <3>1
  <2>5. /\ thread.handoff = begun /\ begun \in Nat
        /\ record # NoRecord => record.handoff \in Nat
        /\ thread.at \in {"inspect", "read"} => owed = NoRegion \/ record.handoff < begun
        /\ thread.at = "unwind" => owed = NoRegion
        /\ thread.at = "reject" /\ thread.pending.state = "Restored" => owed = NoRegion
    BY <1>1, <2>1, TypePieces, HandoffAssumption
    DEF ThreadType, ThreadFits, WorldType, DiskType, Records, Handoffs, DiskInv,
        RecordIsBegun, DebtInv, OwedIsRecorded, NothingOwedPastReadBack
  <2>6. CASE Inspect \/ ReadOriginal
    <3>1. owed = NoRegion \/ (record # NoRecord /\ record.handoff < begun)
      BY <1>1, <2>5, <2>6 DEF Inspect, ReadOriginal, Run, DebtInv, OwedIsRecorded
    <3> QED
      BY <2>5, <3>1
  <2>7. CASE Unwind
    BY <2>5, <2>7 DEF Unwind, Run
  <2>8. CASE Reject
    BY <2>4, <2>5, <2>8 DEF Reject, Run, Ends
  <2>9. CASE SavePrepared \/ Write \/ ReadBack \/ MarkSwitched \/ Launch \/ PutBack
             \/ PutCheck \/ PutMark
    BY <2>3, <2>4, <2>9
    DEF SavePrepared, Write, ReadBack, MarkSwitched, Launch, PutBack, PutCheck, PutMark,
        SwitchFails, Ends
  <2> QED
    BY <2>2, <2>6, <2>7, <2>8, <2>9 DEF RunStep
<1>2. TypeInv /\ DiskInv /\ DebtInv /\ [Next]_vars =>
        [Ending => owed = NoRegion \/ record.handoff # thread.handoff]_vars
  BY <1>1
<1> QED
  BY <1>2, DebtHolds, PTL DEF Spec, RunEndsSafely

\* Both, for any number of handoffs.
THEOREM HandoffsAreCovered == Spec => HandoffIsCovered
  BY LaunchesAreCovered, RunsEndSafely DEF HandoffIsCovered

-------------------------------------------------------------------------------
(***************************************************************************)
(* The evidence of an installation.  Until an operation is over it has     *)
(* said nothing, and it follows an installation in its last step only.     *)
(***************************************************************************)

\* What was measured before the request is what was there.
MeasuredIsTrue ==
    Legible /\ ~taken /\ baseline # NoSnapshot =>
        \A p \in Ours : baseline[p] = before[p]

EvidenceInv ==
    /\ Evidence!TypeOK
    /\ pc # "over" => result = "none" /\ detail = "none"
    /\ pc \notin {"following", "over"} => handle = 0
    /\ pc = "following" => handle # 0
    /\ MeasuredIsTrue
    /\ Evidence!InstalledIsProven
    /\ Evidence!StatedFailureIsFailed

LEMMA EvidenceConstants ==
    /\ Legible \in BOOLEAN /\ Fractions \subseteq Nat
    /\ MaxJobs \in Nat /\ MaxElsewhere \in Nat /\ MaxRuns \in Nat /\ MaxRuns # 0
BY PartsFit DEF Evidence!EvidenceAssumption

\* What follows an installation by its number stays, whatever is added.
LEMMA JobFacts ==
    ASSUME NEW s \in Seq(Evidence!Jobs), NEW j \in Evidence!Jobs
    PROVE  /\ Append(s, j) \in Seq(Evidence!Jobs)
           /\ Len(Append(s, j)) = Len(s) + 1 /\ Len(s) \in Nat
           /\ Append(s, j)[Len(s) + 1] = j
           /\ \A i \in 1 .. Len(s) : Append(s, j)[i] = s[i]
           /\ DOMAIN s = 1 .. Len(s)
           /\ \A i \in 1 .. Len(s) : s[i] \in Evidence!Jobs
OBVIOUS

LEMMA EvidenceInit == Evidence!Init => EvidenceInv
<1> SUFFICES ASSUME Evidence!Init PROVE EvidenceInv
    OBVIOUS
<1>1. Evidence!TypeOK
    <2>1. jobs = <<>> /\ jobs \in Seq(Evidence!Jobs) /\ Len(jobs) = 0
        BY DEF Evidence!Init
    <2>2. Evidence!NonePresent \in [Ours -> Evidence!Health]
        BY DEF Evidence!NonePresent, Evidence!Health
    <2>3. 0 \in 0 .. MaxElsewhere /\ 1 \in 0 .. MaxRuns
        BY EvidenceConstants
    <2>4. /\ before \in [Ours -> Evidence!Health]
          /\ claimed \in [Ours -> Evidence!Health]
          /\ evidenceElsewhere \in 0 .. MaxElsewhere /\ runs \in 0 .. MaxRuns
        BY <2>2, <2>3 DEF Evidence!Init
    <2>5. /\ listed \in [Evidence!Packages -> Evidence!Health]
          /\ pc \in Evidence!Steps /\ percent \in 0 .. 100
          /\ result \in Evidence!Results /\ cause \in Evidence!Causes
          /\ evidenceRecord \in {"none", "bare", "named"}
        BY DEF Evidence!Init, Evidence!Steps, Evidence!Results, Evidence!Causes
    <2>6. /\ taken \in BOOLEAN /\ expected \in BOOLEAN /\ found \in BOOLEAN
          /\ baseline \in Evidence!Snapshots \cup {NoSnapshot}
          /\ sink \in Fractions \cup {0}
          /\ detail \in {"none", "ok", "refused", "notHere"}
        BY DEF Evidence!Init
    <2>8. handle = 0
        BY DEF Evidence!Init
    <2>9. handle \in 0 .. Len(jobs)
        BY <2>1, <2>8
    <2>7. Len(jobs) <= MaxJobs
        BY <2>1, EvidenceConstants
    <2> QED
        BY <2>1, <2>4, <2>5, <2>6, <2>7, <2>9 DEF Evidence!TypeOK
<1> QED
    BY <1>1 DEF Evidence!Init, EvidenceInv, MeasuredIsTrue,
                Evidence!InstalledIsProven, Evidence!StatedFailureIsFailed

\* A percentage, whatever was reported.
LEMMA PercentIsOne ==
    ASSUME NEW f \in Nat
    PROVE  Evidence!PercentFrom(f) \in 0 .. 100
<1> DEFINE r == (f + 5) \div 10
<1>1. r \in Nat
    OBVIOUS
<1> HIDE DEF r
<1>2. (IF r > 100 THEN 100 ELSE r) \in 0 .. 100
    BY <1>1
<1> QED  BY <1>2 DEF r, Evidence!PercentFrom

\* An answer "completed" comes of a package that is there and healthy, and of
\* a snapshot before the request that had none.
LEMMA CompletedIsProven ==
    ASSUME NEW follow \in Evidence!Snapshots \cup {NoSnapshot},
           follow # NoSnapshot => Evidence!IsSnapshot(follow),
           "completed" \in Evidence!ConfirmedCompletion(follow)
    PROVE  /\ baseline # NoSnapshot
           /\ \A p \in Ours : baseline[p] = "absent"
           /\ \E p \in Ours : listed[p] = "healthy"
<1>1. /\ baseline # NoSnapshot /\ follow # NoSnapshot
      /\ "completed" \in Evidence!EvaluatePackagedObservation(follow)
    BY DEF Evidence!ConfirmedCompletion
<1>2. ~Evidence!Contains(baseline)
    BY <1>1 DEF Evidence!EvaluatePackagedObservation
<1>3. \E p \in Evidence!Packages : Evidence!HealthyMatch(follow, p)
    BY <1>1, <1>2 DEF Evidence!EvaluatePackagedObservation
<1>4. PICK p \in Ours : follow[p] = "healthy"
    BY <1>3 DEF Evidence!HealthyMatch, Evidence!Matches
<1>5. listed[p] = "healthy"
    BY <1>1, <1>4 DEF Evidence!IsSnapshot, Evidence!Readings, Evidence!Packages
<1> QED
    BY <1>1, <1>2, <1>5 DEF Evidence!Contains, Evidence!Matches, Evidence!Packages

LEMMA CauseFacts ==
    /\ {"none", "uncertain", "restoreFailed", "observationFailed",
        "kindNotSupported", "alreadyInstalled", "backendUnavailable"}
           \subseteq Evidence!Causes
    /\ Evidence!StartFailures \subseteq Evidence!Causes
    /\ {Evidence!UnavailableToFailure(f) : f \in Evidence!ConnectFailures}
           \cup Evidence!LookupFailures("productNotFound", "answerMismatch")
           \subseteq Evidence!Causes
    /\ \A d : Evidence!StatedFailure(d) \subseteq Evidence!Causes
BY DEF Evidence!Causes, Evidence!StartFailures, Evidence!UnavailableToFailure,
       Evidence!ConnectFailures, Evidence!LookupFailures, Evidence!StatedFailure

\* The operation goes on, or ends without a word about an installation.
LEMMA AsideKeepsEvidence ==
    ASSUME EvidenceInv, UNCHANGED <<listed, jobs, handle, baseline, taken, before>>,
           UNCHANGED <<evidenceElsewhere, runs>>,
           pc' \in Evidence!Steps,
           result' \in Evidence!Results, cause' \in Evidence!Causes,
           percent' \in 0 .. 100, expected' \in BOOLEAN, found' \in BOOLEAN,
           sink' \in Fractions \cup {0},
           detail' \in {"none", "ok", "refused", "notHere"},
           evidenceRecord' \in {"none", "bare", "named"},
           claimed' \in [Ours -> Evidence!Health],
           pc' # "over" => result' = "none" /\ detail' = "none",
           pc' = "following" => handle # 0,
           pc' \notin {"following", "over"} => handle = 0,
           result' = "Installed" /\ handle # 0 =>
               \/ result = "Installed" /\ UNCHANGED claimed
               \/ /\ Evidence!Followed = "ok"
                  /\ \E p \in Ours : claimed'[p] = "healthy"
                  /\ baseline # NoSnapshot
                  /\ \A p \in Ours : baseline[p] = "absent",
           detail' \in {"refused", "notHere"} => result' \in {"none", "Failed"}
    PROVE  EvidenceInv'
<1> USE DEF EvidenceInv
<1>1. Evidence!TypeOK'
    BY DEF Evidence!TypeOK
<1>2. MeasuredIsTrue'
    BY DEF MeasuredIsTrue
<1>3. Evidence!InstalledIsProven'
    <2> SUFFICES ASSUME result' = "Installed", handle # 0
                 PROVE  /\ Evidence!Followed = "ok"
                        /\ \E p \in Ours : claimed'[p] = "healthy"
                        /\ Legible /\ ~taken => \A p \in Ours : before[p] = "absent"
        BY DEF Evidence!InstalledIsProven, Evidence!Followed
    <2>1. CASE result = "Installed" /\ UNCHANGED claimed
        BY <2>1 DEF Evidence!InstalledIsProven
    <2>2. CASE /\ Evidence!Followed = "ok"
               /\ \E p \in Ours : claimed'[p] = "healthy"
               /\ baseline # NoSnapshot
               /\ \A p \in Ours : baseline[p] = "absent"
        BY <2>2 DEF MeasuredIsTrue
    <2> QED  BY <2>1, <2>2
<1>4. Evidence!StatedFailureIsFailed'
    BY DEF Evidence!StatedFailureIsFailed
<1> QED  BY <1>1, <1>2, <1>3, <1>4

LEMMA BeginEvidence ==
    ASSUME EvidenceInv,
           \/ Evidence!BeginInstallation
           \/ Evidence!Connect
           \/ Evidence!ResolveUnderTemporaryRegion
           \/ Evidence!RecordIdentity
    PROVE  EvidenceInv'
<1>1. CASE Evidence!BeginInstallation
    BY <1>1, AsideKeepsEvidence
       DEF Evidence!BeginInstallation, Evidence!ProofKept, Evidence!WorldKept,
           Evidence!proof, Evidence!past, Evidence!bounds, EvidenceInv,
           Evidence!TypeOK, Evidence!Steps, Evidence!StatedFailureIsFailed
<1>2. CASE Evidence!Connect
    BY <1>2, AsideKeepsEvidence, CauseFacts
       DEF Evidence!Connect, Evidence!ProofKept, Evidence!WorldKept,
           Evidence!proof, Evidence!past, Evidence!bounds, EvidenceInv,
           Evidence!TypeOK, Evidence!Steps, Evidence!StatedFailureIsFailed
<1>3. CASE Evidence!ResolveUnderTemporaryRegion
    <2>1. /\ pc = "resolving" /\ result = "none" /\ detail = "none" /\ handle = 0
          /\ UNCHANGED <<taken, baseline, handle, sink, detail, percent, found,
                         before, claimed, listed, jobs, evidenceElsewhere, runs>>
        BY <1>3 DEF Evidence!ResolveUnderTemporaryRegion, EvidenceInv,
                    Evidence!past, Evidence!WorldKept, Evidence!bounds
    <2>2. \/ /\ pc' = "over" /\ cause' \in Evidence!Causes /\ result' = "Failed"
             /\ evidenceRecord' \in {"none", evidenceRecord}
             /\ expected' = expected
          \/ /\ expected' \in BOOLEAN /\ pc' \in {"identifying", "measuring"}
             /\ UNCHANGED <<result, cause, evidenceRecord>>
        BY <1>3, <2>1, CauseFacts
           DEF Evidence!ResolveUnderTemporaryRegion, Evidence!EndsWith,
               Evidence!RecordEnds
    <2> QED
        BY <2>1, <2>2, AsideKeepsEvidence
           DEF EvidenceInv, Evidence!TypeOK, Evidence!Steps, Evidence!Results
<1>4. CASE Evidence!RecordIdentity
    BY <1>4, AsideKeepsEvidence
       DEF Evidence!RecordIdentity, Evidence!ProofKept, Evidence!WorldKept,
           Evidence!proof, Evidence!past, Evidence!bounds, EvidenceInv,
           Evidence!TypeOK, Evidence!Steps, Evidence!StatedFailureIsFailed
<1> QED  BY <1>1, <1>2, <1>3, <1>4

LEMMA MeasureKeepsEvidence ==
    ASSUME EvidenceInv, Evidence!TakeBaseline
    PROVE  EvidenceInv'
<1>1. /\ pc = "measuring" /\ result = "none" /\ detail = "none" /\ handle = 0
      /\ UNCHANGED <<taken, expected, handle, sink, detail, percent, found,
                     claimed, listed, jobs, evidenceElsewhere, runs>>
      /\ before' = [p \in Ours |-> listed[p]]
      /\ \/ baseline' \in Evidence!Snapshots /\ Evidence!IsSnapshot(baseline')
         \/ baseline' = NoSnapshot
    BY DEF Evidence!TakeBaseline, EvidenceInv, Evidence!WorldKept, Evidence!bounds
<1>2. \/ /\ pc' = "over" /\ cause' \in Evidence!Causes /\ result' = "Failed"
         /\ evidenceRecord' \in {"none", evidenceRecord}
      \/ /\ pc' = "requesting" /\ UNCHANGED <<result, cause, evidenceRecord>>
    BY <1>1, CauseFacts
       DEF Evidence!TakeBaseline, Evidence!EndsWith, Evidence!RecordEnds
<1>3. before' \in [Ours -> Evidence!Health]
    BY <1>1 DEF EvidenceInv, Evidence!TypeOK, Evidence!Packages
<1>4. MeasuredIsTrue'
    <2> SUFFICES ASSUME Legible, baseline' # NoSnapshot, NEW p \in Ours
                 PROVE  baseline'[p] = before'[p]
        BY DEF MeasuredIsTrue
    <2> QED
        BY <1>1 DEF Evidence!IsSnapshot, Evidence!Readings, Evidence!Packages
<1>5. Evidence!TypeOK'
    BY <1>1, <1>2, <1>3
       DEF EvidenceInv, Evidence!TypeOK, Evidence!Steps, Evidence!Results
<1> QED
    BY <1>1, <1>2, <1>4, <1>5
       DEF EvidenceInv, Evidence!InstalledIsProven,
           Evidence!StatedFailureIsFailed

LEMMA RequestKeepsEvidence ==
    ASSUME EvidenceInv, Evidence!StartInstall
    PROVE  EvidenceInv'
<1>1. /\ pc = "requesting" /\ result = "none" /\ handle = 0
      /\ detail' = "none"
      /\ UNCHANGED <<listed, evidenceElsewhere, runs, taken, expected,
                     baseline, percent, found, before, claimed>>
    BY DEF Evidence!StartInstall, EvidenceInv, Evidence!past, Evidence!bounds
<1>2. \/ /\ pc' = "over" /\ result' = "Failed" /\ cause' \in Evidence!Causes
         /\ evidenceRecord' \in {"none", evidenceRecord}
         /\ UNCHANGED <<jobs, handle, sink>>
      \/ /\ jobs' = Append(jobs, [owner |-> "us", state |-> "queued"])
         /\ Len(jobs) < MaxJobs /\ sink' = 0
         /\ \/ /\ handle' = Len(jobs') /\ pc' = "following"
               /\ UNCHANGED <<result, cause, evidenceRecord>>
            \/ /\ pc' = "over" /\ result' = "Failed"
               /\ cause' \in Evidence!Causes
               /\ evidenceRecord' \in {"none", evidenceRecord}
               /\ handle' = handle
    BY <1>1, CauseFacts
       DEF Evidence!StartInstall, Evidence!EndsWith, Evidence!RecordEnds
<1>3. CASE UNCHANGED <<jobs, handle, sink>>
    BY <1>1, <1>2, <1>3, AsideKeepsEvidence
       DEF EvidenceInv, Evidence!TypeOK, Evidence!Steps, Evidence!Results
<1>4. CASE /\ jobs' = Append(jobs, [owner |-> "us", state |-> "queued"])
           /\ Len(jobs) < MaxJobs /\ sink' = 0
           /\ \/ /\ handle' = Len(jobs') /\ pc' = "following"
                 /\ UNCHANGED <<result, cause, evidenceRecord>>
              \/ /\ pc' = "over" /\ result' = "Failed"
                 /\ cause' \in Evidence!Causes
                 /\ evidenceRecord' \in {"none", evidenceRecord}
                 /\ handle' = handle
    <2>1. [owner |-> "us", state |-> "queued"] \in Evidence!Jobs
        BY DEF Evidence!Jobs, Evidence!JobStates, Evidence!Phases
    <2>2. /\ jobs' \in Seq(Evidence!Jobs) /\ Len(jobs') = Len(jobs) + 1
          /\ Len(jobs) \in Nat
        BY <1>4, <2>1, JobFacts DEF EvidenceInv, Evidence!TypeOK
    <2>3. /\ Len(jobs') <= MaxJobs /\ handle' \in 0 .. Len(jobs')
          /\ pc' = "following" => handle' # 0
          /\ pc' = "over" => handle' = 0
        BY <1>1, <1>4, <2>2, EvidenceConstants
    <2>4. Evidence!TypeOK'
        BY <1>1, <1>4, <2>2, <2>3
           DEF EvidenceInv, Evidence!TypeOK, Evidence!Steps, Evidence!Results
    <2>5. MeasuredIsTrue'
        BY <1>1 DEF EvidenceInv, MeasuredIsTrue
    <2> QED
        BY <1>1, <1>4, <2>3, <2>4, <2>5
           DEF EvidenceInv, Evidence!InstalledIsProven,
               Evidence!StatedFailureIsFailed
<1> QED  BY <1>2, <1>3, <1>4

LEMMA FollowKeepsEvidence ==
    ASSUME EvidenceInv, Evidence!Follow
    PROVE  EvidenceInv'
<1> USE DEF EvidenceInv, Evidence!ProofKept, Evidence!WorldKept, Evidence!proof,
            Evidence!past, Evidence!bounds
<1>1. CASE Evidence!ObserveInstalling
    <2>1. Evidence!ShownPercent(sink) \in 0 .. 100
        BY PercentIsOne, EvidenceConstants
           DEF Evidence!ShownPercent, Evidence!TypeOK
    <2> QED
        BY <1>1, <2>1, AsideKeepsEvidence
           DEF Evidence!ObserveInstalling, Evidence!TypeOK
<1>2. CASE \/ Evidence!ObserveNothing
           \/ Evidence!AskUserAfterTimeout
           \/ Evidence!ObservationFails
    <2>1. /\ pc = "following" /\ pc' = "over"
          /\ result' \in {"Failed", "CompletionUncertain"}
          /\ cause' \in Evidence!Causes
          /\ UNCHANGED <<evidenceRecord, taken, expected, baseline, handle, sink,
                         detail, percent, found, before, claimed, listed, jobs,
                         evidenceElsewhere, runs>>
        BY <1>2, CauseFacts
           DEF Evidence!ObserveNothing, Evidence!AskUserAfterTimeout,
               Evidence!ObservationFails, Evidence!EndsWith
    <2> QED
        BY <2>1, AsideKeepsEvidence
           DEF Evidence!TypeOK, Evidence!Steps, Evidence!Results
<1>3. CASE Evidence!ObserveFailure
    <2>1. /\ pc = "following" /\ pc' = "over" /\ result' = "Failed"
          /\ detail' \in {"refused", "notHere"}
          /\ cause' \in Evidence!Causes
          /\ evidenceRecord' \in {"none", evidenceRecord}
          /\ UNCHANGED <<taken, expected, baseline, handle, sink, percent, found,
                         before, claimed, listed, jobs, evidenceElsewhere, runs>>
        <3>1. /\ pc = "following" /\ result = "none"
              /\ Evidence!Followed \in {"refused", "notHere"}
            BY <1>3 DEF Evidence!ObserveFailure
        <3>2. Evidence!StatedFailure(Evidence!Followed) # {}
            BY <3>1 DEF Evidence!StatedFailure
        <3> QED
            BY <1>3, <3>1, <3>2, CauseFacts
               DEF Evidence!ObserveFailure, Evidence!EndsWith, Evidence!RecordEnds
    <2> QED
        BY <2>1, AsideKeepsEvidence
           DEF Evidence!TypeOK, Evidence!Steps, Evidence!Results
<1>4. CASE Evidence!ObserveSuccess
    <2>1. /\ pc = "following" /\ result = "none" /\ Evidence!Followed = "ok"
          /\ detail' = "ok"
          /\ UNCHANGED <<taken, expected, baseline, handle, sink, percent, found,
                         before, listed, jobs, evidenceElsewhere, runs>>
        BY <1>4 DEF Evidence!ObserveSuccess
    <2>2. PICK follow \in Evidence!Snapshots \cup {NoSnapshot} :
              /\ follow # NoSnapshot => Evidence!IsSnapshot(follow)
              /\ \E answer \in Evidence!ConfirmedCompletion(follow) :
                    IF answer = "completed"
                    THEN /\ claimed' = [p \in Ours |-> listed[p]]
                         /\ \/ Evidence!EndsWith("Installed", "none")
                               /\ Evidence!RecordEnds
                            \/ Evidence!EndsWith("RecoveryRequired", "restoreFailed")
                               /\ UNCHANGED evidenceRecord
                    ELSE /\ Evidence!EndsWith("CompletionUncertain", "uncertain")
                         /\ UNCHANGED <<claimed, evidenceRecord>>
        BY <1>4 DEF Evidence!ObserveSuccess
    <2>3. CASE /\ "completed" \in Evidence!ConfirmedCompletion(follow)
               /\ claimed' = [p \in Ours |-> listed[p]]
               /\ \/ Evidence!EndsWith("Installed", "none") /\ Evidence!RecordEnds
                  \/ Evidence!EndsWith("RecoveryRequired", "restoreFailed")
                     /\ UNCHANGED evidenceRecord
        <3>1. /\ baseline # NoSnapshot /\ \A p \in Ours : baseline[p] = "absent"
              /\ \E p \in Ours : listed[p] = "healthy"
            BY <2>2, <2>3, CompletedIsProven
        <3>2. /\ claimed' \in [Ours -> Evidence!Health]
              /\ \E p \in Ours : claimed'[p] = "healthy"
            BY <2>3, <3>1 DEF Evidence!TypeOK, Evidence!Packages
        <3>3. /\ pc' = "over" /\ cause' \in Evidence!Causes
              /\ result' \in {"Installed", "RecoveryRequired"}
              /\ evidenceRecord' \in {"none", evidenceRecord}
            BY <2>1, <2>3, CauseFacts DEF Evidence!EndsWith, Evidence!RecordEnds
        <3> QED
            BY <2>1, <3>1, <3>2, <3>3, AsideKeepsEvidence
               DEF Evidence!TypeOK, Evidence!Steps, Evidence!Results
    <2>4. CASE /\ Evidence!EndsWith("CompletionUncertain", "uncertain")
               /\ UNCHANGED <<claimed, evidenceRecord>>
        <3>1. /\ pc' = "over" /\ cause' \in Evidence!Causes
              /\ result' = "CompletionUncertain"
            BY <2>1, <2>4, CauseFacts DEF Evidence!EndsWith
        <3> QED
            BY <2>1, <2>4, <3>1, AsideKeepsEvidence
               DEF Evidence!TypeOK, Evidence!Steps, Evidence!Results
    <2> QED  BY <2>2, <2>3, <2>4
<1> QED  BY <1>1, <1>2, <1>3, <1>4 DEF Evidence!Follow

LEMMA LaterRunKeepsEvidence ==
    ASSUME EvidenceInv,
           \/ Evidence!NextRun
           \/ Evidence!ProbeResumableInstall
           \/ Evidence!Settle
           \/ Evidence!FollowResumedInstall
    PROVE  EvidenceInv'
<1> USE DEF EvidenceInv, Evidence!ProofKept, Evidence!WorldKept, Evidence!proof,
            Evidence!past, Evidence!bounds
<1>1. CASE Evidence!NextRun
    <2>1. Evidence!NonePresent \in [Ours -> Evidence!Health]
        BY DEF Evidence!NonePresent, Evidence!Health
    <2>2. runs' \in 0 .. MaxRuns /\ 0 \in 0 .. Len(jobs)
        BY <1>1, EvidenceConstants DEF Evidence!NextRun, Evidence!TypeOK
    <2>7. /\ taken' = FALSE /\ expected' = FALSE /\ found' = FALSE
          /\ baseline' = NoSnapshot /\ sink' = 0 /\ percent' = 0
          /\ detail' = "none"
        BY <1>1 DEF Evidence!NextRun
    <2>4. /\ taken' \in BOOLEAN /\ expected' \in BOOLEAN /\ found' \in BOOLEAN
        BY <2>7
    <2>8. /\ baseline' \in Evidence!Snapshots \cup {NoSnapshot}
          /\ sink' \in Fractions \cup {0}
          /\ detail' \in {"none", "ok", "refused", "notHere"}
        BY <2>7
    <2>9. percent' \in 0 .. 100
        BY <2>7
    <2>5. /\ pc' \in Evidence!Steps
          /\ result' \in Evidence!Results /\ cause' \in Evidence!Causes
          /\ before' \in [Ours -> Evidence!Health]
          /\ claimed' \in [Ours -> Evidence!Health]
        BY <1>1, <2>1
           DEF Evidence!NextRun, Evidence!Steps, Evidence!Results, Evidence!Causes
    <2>6. /\ handle' = 0
          /\ UNCHANGED <<listed, jobs, evidenceRecord, evidenceElsewhere>>
        BY <1>1 DEF Evidence!NextRun
    <2>3. Evidence!TypeOK'
        BY <2>2, <2>4, <2>5, <2>6, <2>8, <2>9 DEF Evidence!TypeOK
    <2> QED
        BY <1>1, <2>3
           DEF Evidence!NextRun, MeasuredIsTrue, Evidence!InstalledIsProven,
               Evidence!StatedFailureIsFailed
<1>2. CASE Evidence!ProbeResumableInstall
    <2>1. /\ pc = "probing" /\ pc' \in {"joining", "settling"}
          /\ UNCHANGED <<percent, result, cause, evidenceRecord, taken, expected,
                         baseline, handle, sink, detail, before, listed, jobs,
                         evidenceElsewhere, runs>>
        BY <1>2 DEF Evidence!ProbeResumableInstall, Evidence!window
    <2>2. found' \in BOOLEAN /\ claimed' \in [Ours -> Evidence!Health]
        BY <1>2 DEF Evidence!ProbeResumableInstall, Evidence!TypeOK,
                    Evidence!RecordedPackagePresent, Evidence!Packages
    <2> QED
        BY <2>1, <2>2, AsideKeepsEvidence DEF Evidence!TypeOK, Evidence!Steps
<1>3. CASE Evidence!Settle
    BY <1>3, AsideKeepsEvidence
       DEF Evidence!Settle, Evidence!RecordEnds, Evidence!TypeOK,
           Evidence!Steps, Evidence!Results
<1>4. CASE Evidence!FollowResumedInstall
    <2>1. /\ pc = "joining" /\ result = "none" /\ detail = "none"
          /\ UNCHANGED <<result, evidenceRecord, percent, found, before, claimed,
                         listed, jobs, evidenceElsewhere, runs, detail>>
        BY <1>4 DEF Evidence!FollowResumedInstall
    <2>2. CASE /\ pc' = "over" /\ cause' \in {"backendUnavailable", "uncertain"}
               /\ UNCHANGED <<taken, expected, baseline, handle, sink, detail>>
        BY <2>1, <2>2, AsideKeepsEvidence, CauseFacts
           DEF Evidence!TypeOK, Evidence!Steps
    <2>3. CASE /\ handle' \in Evidence!InFlight
               /\ pc' = "following" /\ taken' = TRUE
               /\ expected' = (evidenceRecord = "named")
               /\ baseline' = [p \in Evidence!Packages |-> "absent"]
               /\ sink' = 0 /\ cause' = cause
        <3>1. handle' \in 0 .. Len(jobs) /\ handle' # 0
            BY <2>3 DEF Evidence!InFlight, Evidence!TypeOK
        <3>2. baseline' \in Evidence!Snapshots
            BY <2>3 DEF Evidence!Snapshots, Evidence!Health
        <3>3. Evidence!TypeOK'
            BY <2>1, <2>3, <3>1, <3>2 DEF Evidence!TypeOK, Evidence!Steps
        <3> QED
            BY <2>1, <2>3, <3>1, <3>3
               DEF MeasuredIsTrue, Evidence!InstalledIsProven,
                   Evidence!StatedFailureIsFailed
    <2> QED  BY <1>4, <2>2, <2>3 DEF Evidence!FollowResumedInstall
<1> QED  BY <1>1, <1>2, <1>3, <1>4

\* Windows goes on: an installation that ended has ended.
LEMMA WorldKeepsEvidence ==
    ASSUME EvidenceInv, Evidence!Client,
           listed' \in [Evidence!Packages -> Evidence!Health],
           jobs' \in Seq(Evidence!Jobs), Len(jobs') <= MaxJobs,
           Len(jobs) <= Len(jobs'),
           \A i \in 1 .. Len(jobs) :
               jobs[i].state = "ok" => jobs'[i].state = "ok",
           sink' \in Fractions \cup {0},
           evidenceElsewhere' \in 0 .. MaxElsewhere, runs' = runs
    PROVE  EvidenceInv'
<1> USE DEF EvidenceInv, Evidence!Client, Evidence!window, Evidence!past
<1>1. handle' \in 0 .. Len(jobs')
    <2>1. Len(jobs) \in Nat /\ Len(jobs') \in Nat /\ handle \in 0 .. Len(jobs)
        BY DEF Evidence!TypeOK
    <2> QED  BY <2>1
<1>2. Evidence!TypeOK'
    BY <1>1 DEF Evidence!TypeOK
<1>3. MeasuredIsTrue'
    BY DEF MeasuredIsTrue
<1>4. Evidence!InstalledIsProven'
    <2> SUFFICES ASSUME result = "Installed", handle # 0
                 PROVE  jobs'[handle].state = "ok"
        BY DEF Evidence!InstalledIsProven, Evidence!Followed
    <2>1. handle \in 1 .. Len(jobs)
        BY DEF Evidence!TypeOK
    <2> QED
        BY <2>1 DEF Evidence!InstalledIsProven, Evidence!Followed
<1> QED
    BY <1>2, <1>3, <1>4 DEF Evidence!StatedFailureIsFailed

LEMMA WindowsKeepsEvidence ==
    ASSUME EvidenceInv,
           Evidence!JobMoves \/ Evidence!Report \/ Evidence!Elsewhere
    PROVE  EvidenceInv'
<1>0. /\ listed \in [Evidence!Packages -> Evidence!Health]
      /\ jobs \in Seq(Evidence!Jobs) /\ Len(jobs) \in Nat
      /\ DOMAIN jobs = 1 .. Len(jobs)
      /\ \A i \in 1 .. Len(jobs) : jobs[i] \in Evidence!Jobs
      /\ Len(jobs) <= MaxJobs /\ sink \in Fractions \cup {0}
      /\ evidenceElsewhere \in 0 .. MaxElsewhere
    BY DEF EvidenceInv, Evidence!TypeOK
<1>1. CASE Evidence!JobMoves
    <2>1. PICK j \in Evidence!InFlight, s \in Evidence!JobStates :
              /\ jobs' = [jobs EXCEPT ![j].state = s]
              /\ \/ UNCHANGED listed
                 \/ \E p \in Ours, h \in {"partial", "healthy"} :
                       listed' = [listed EXCEPT ![p] = h]
        BY <1>1 DEF Evidence!JobMoves
    <2>2. /\ j \in 1 .. Len(jobs) /\ jobs[j].state \in Evidence!Phases
        BY <1>0, <2>1 DEF Evidence!InFlight
    <2>3. /\ jobs' \in Seq(Evidence!Jobs) /\ Len(jobs') = Len(jobs)
          /\ \A i \in 1 .. Len(jobs) : i # j => jobs'[i] = jobs[i]
        <3>1. [jobs[j] EXCEPT !.state = s] \in Evidence!Jobs
            BY <1>0, <2>2 DEF Evidence!Jobs
        <3>2. PICK job : job = [jobs[j] EXCEPT !.state = s]
            OBVIOUS
        <3>3. jobs' = [jobs EXCEPT ![j] = job]
            BY <2>1, <3>2
        <3> QED  BY <1>0, <2>2, <3>1, <3>2, <3>3
    <2>4. listed' \in [Evidence!Packages -> Evidence!Health]
        BY <1>0, <2>1 DEF Evidence!Health, Evidence!Packages
    <2>5. \A i \in 1 .. Len(jobs) :
              jobs[i].state = "ok" => jobs'[i].state = "ok"
        BY <2>2, <2>3 DEF Evidence!Phases
    <2> QED
        BY <1>0, <1>1, <2>3, <2>4, <2>5, WorldKeepsEvidence
           DEF Evidence!JobMoves, Evidence!bounds
<1>2. CASE Evidence!Report
    BY <1>0, <1>2, WorldKeepsEvidence DEF Evidence!Report, Evidence!bounds
<1>3. CASE Evidence!Elsewhere
    <2>1. /\ evidenceElsewhere' \in 0 .. MaxElsewhere
          /\ UNCHANGED <<sink, runs>> /\ Evidence!Client
        BY <1>0, <1>3, EvidenceConstants DEF Evidence!Elsewhere
    <2>2. CASE /\ UNCHANGED jobs
               /\ \E p \in Evidence!Packages, h \in Evidence!Health :
                     listed' = [listed EXCEPT ![p] = h]
        BY <1>0, <2>1, <2>2, WorldKeepsEvidence
    <2>3. CASE /\ jobs' = Append(jobs, [owner |-> "other", state |-> "queued"])
               /\ Len(jobs) < MaxJobs /\ UNCHANGED listed
        <3>1. [owner |-> "other", state |-> "queued"] \in Evidence!Jobs
            BY DEF Evidence!Jobs, Evidence!JobStates, Evidence!Phases
        <3>2. /\ jobs' \in Seq(Evidence!Jobs) /\ Len(jobs') = Len(jobs) + 1
              /\ \A i \in 1 .. Len(jobs) : jobs'[i] = jobs[i]
            BY <1>0, <2>3, <3>1, JobFacts
        <3>3. Len(jobs') <= MaxJobs /\ Len(jobs) <= Len(jobs')
            BY <1>0, <2>3, <3>2, EvidenceConstants
        <3> QED
            BY <1>0, <2>1, <2>3, <3>2, <3>3, WorldKeepsEvidence
    <2> QED  BY <1>3, <2>2, <2>3 DEF Evidence!Elsewhere
<1> QED  BY <1>1, <1>2, <1>3

LEMMA EvidenceStepKeepsInv ==
    EvidenceInv /\ [Evidence!Next]_evidenceVars => EvidenceInv'
<1> SUFFICES ASSUME EvidenceInv, [Evidence!Next]_evidenceVars
             PROVE  EvidenceInv'
    OBVIOUS
<1>1. CASE UNCHANGED evidenceVars
    BY <1>1
       DEF evidenceVars, EvidenceInv, Evidence!TypeOK, MeasuredIsTrue,
           Evidence!InstalledIsProven, Evidence!Followed,
           Evidence!StatedFailureIsFailed
<1>2. CASE Evidence!Next
    BY <1>2, BeginEvidence, MeasureKeepsEvidence, RequestKeepsEvidence,
       FollowKeepsEvidence, LaterRunKeepsEvidence, WindowsKeepsEvidence
       DEF Evidence!Next
<1> QED  BY <1>1, <1>2

\* A record goes, while its operation lives, only with an outcome.
LEMMA EndsStep ==
    ASSUME EvidenceInv, [Evidence!Next]_evidenceVars
    PROVE  Evidence!EndsWithOutcome
<1> SUFFICES ASSUME pc \in Evidence!ThreadSteps, evidenceRecord # "none",
                    evidenceRecord' = "none"
             PROVE  result' \in {"Installed", "Failed"}
    BY DEF Evidence!EndsWithOutcome
<1>1. /\ pc \notin {"off", "over", "probing", "settling"}
      /\ result = "none" /\ evidenceRecord' # evidenceRecord
    BY DEF Evidence!ThreadSteps, EvidenceInv
<1>2. Evidence!Next
    BY <1>1 DEF evidenceVars
<1> USE DEF Evidence!EndsWith
<1>3. CASE \/ Evidence!BeginInstallation \/ Evidence!Connect
           \/ Evidence!ResolveUnderTemporaryRegion \/ Evidence!RecordIdentity
    BY <1>1, <1>3
       DEF Evidence!BeginInstallation, Evidence!Connect,
           Evidence!ResolveUnderTemporaryRegion, Evidence!RecordIdentity
<1>4. CASE Evidence!TakeBaseline \/ Evidence!StartInstall
    BY <1>1, <1>4 DEF Evidence!TakeBaseline, Evidence!StartInstall
<1>5. CASE Evidence!Follow
    <2>1. CASE Evidence!ObserveFailure
        BY <1>1, <2>1 DEF Evidence!ObserveFailure
    <2>2. CASE Evidence!ObserveSuccess
        BY <1>1, <2>2 DEF Evidence!ObserveSuccess
    <2> QED
        BY <1>1, <1>5, <2>1, <2>2
           DEF Evidence!Follow, Evidence!ObserveInstalling,
               Evidence!ObserveNothing, Evidence!AskUserAfterTimeout,
               Evidence!ObservationFails
<1>6. CASE \/ Evidence!NextRun \/ Evidence!ProbeResumableInstall
           \/ Evidence!Settle \/ Evidence!FollowResumedInstall
    BY <1>1, <1>6
       DEF Evidence!NextRun, Evidence!ProbeResumableInstall, Evidence!Settle,
           Evidence!FollowResumedInstall
<1>7. CASE Evidence!JobMoves \/ Evidence!Report \/ Evidence!Elsewhere
    BY <1>1, <1>7
       DEF Evidence!JobMoves, Evidence!Report, Evidence!Elsewhere,
           Evidence!Client
<1> QED
    BY <1>2, <1>3, <1>4, <1>5, <1>6, <1>7 DEF Evidence!Next

-------------------------------------------------------------------------------
(***************************************************************************)
(* Ranks.  The registry lists the subkeys of a view in the order of their  *)
(* names: the index of one is the number of smaller ones that are there.   *)
(***************************************************************************)
Smaller(S, k) == {j \in S : j < k}
Rank(S, k) == Cardinality(Smaller(S, k))

LEMMA RankIsNat ==
    ASSUME NEW S, IsFiniteSet(S), NEW k
    PROVE  Rank(S, k) \in Nat /\ IsFiniteSet(Smaller(S, k))
<1>1. IsFiniteSet(Smaller(S, k))
    BY FS_Subset DEF Smaller
<1> QED  BY <1>1, FS_CardinalityType DEF Rank

\* A subkey that is created leaves the others where they are or behind it.
LEMMA RankGrows ==
    ASSUME NEW S, NEW T, IsFiniteSet(T), S \subseteq T, NEW k
    PROVE  Rank(S, k) <= Rank(T, k)
<1>1. IsFiniteSet(Smaller(T, k))
    BY RankIsNat
<1>2. Smaller(S, k) \in SUBSET Smaller(T, k)
    BY DEF Smaller
<1> QED  BY <1>1, <1>2, FS_Subset DEF Rank

\* A subkey that is there comes before the end.
LEMMA RankIsBelow ==
    ASSUME NEW S \in SUBSET Nat, IsFiniteSet(S), NEW k \in S
    PROVE  Rank(S, k) < Cardinality(S)
<1>1. Smaller(S, k) \in SUBSET S /\ k \notin Smaller(S, k)
    BY DEF Smaller
<1>2. Cardinality(Smaller(S, k)) <= Cardinality(S) /\ Cardinality(Smaller(S, k)) # Cardinality(S)
    BY <1>1, FS_Subset
<1> QED  BY <1>2, RankIsNat, FS_CardinalityType DEF Rank

\* No two subkeys have the same index.
LEMMA RankIsOwn ==
    ASSUME NEW S \in SUBSET Nat, IsFiniteSet(S), NEW k \in S, NEW l \in S,
           Rank(S, k) = Rank(S, l)
    PROVE  k = l
<1>1. ASSUME NEW i \in S, NEW j \in S, i < j PROVE Rank(S, i) # Rank(S, j)
    <2>1. /\ Smaller(S, i) \in SUBSET Smaller(S, j)
          /\ i \in Smaller(S, j) /\ i \notin Smaller(S, i)
        <3>1. i \in Nat /\ j \in Nat /\ S \subseteq Nat
            OBVIOUS
        <3>2. ~(i < i) /\ \A m \in S : m < i => m < j
            BY <1>1, <3>1
        <3> QED  BY <1>1, <3>2 DEF Smaller
    <2>2. IsFiniteSet(Smaller(S, j))
        BY RankIsNat
    <2> QED  BY <2>1, <2>2, FS_Subset DEF Rank
<1>2. k \in Nat /\ l \in Nat
    OBVIOUS
<1> QED  BY <1>1, <1>2

\* And every index short of the end is the index of one.
LEMMA RankIsTaken ==
    ASSUME NEW S \in SUBSET Nat, IsFiniteSet(S),
           NEW i \in Nat, i < Cardinality(S)
    PROVE  \E k \in S : Rank(S, k) = i
<1> DEFINE n == Cardinality(S)
           T == 0 .. (n - 1)
           f == [k \in S |-> Rank(S, k)]
<1>1. n \in Nat /\ n > 0
    BY FS_CardinalityType
<1> HIDE DEF n
<1>2. IsFiniteSet(T) /\ Cardinality(T) = n
    <2>1. n - 1 \in Int /\ ~(0 > n - 1) /\ (n - 1) - 0 + 1 = n /\ 0 \in Int
        BY <1>1
    <2> QED  BY <2>1, FS_Interval
<1>3. f \in [S -> T]
    <2> SUFFICES ASSUME NEW k \in S PROVE Rank(S, k) \in T
        OBVIOUS
    <2> QED  BY <1>1, RankIsBelow, RankIsNat DEF n
<1>4. f \in Injection(S, T)
    BY <1>3, RankIsOwn DEF Injection, IsInjective
<1>5. f \in Surjection(S, T)
    BY <1>2, <1>4, FS_Injection DEF n
<1>6. i \in T
    BY <1>1 DEF n
<1> QED  BY <1>5, <1>6 DEF Surjection

(***************************************************************************)
(* The uninstall records.  A snapshot names every record that has been     *)
(* there since it began and that the walk has passed, unless a subkey went *)
(* from the view in hand.                                                  *)
(***************************************************************************)
Keys == UNION {KeysOf[s] : s \in Uninstall!Scopes}
RecordAt(p) == uninstallRecord[p[1]][p[2]]
IndexOf(p) == Rank(Uninstall!Present(p[1]), p[2])
Named(p, snapshot) == \E e \in snapshot : p = <<e.scope, e.key>>
NamedAsMatch(p) == \E e \in followUp : p = <<e.scope, e.key>> /\ Uninstall!Matches(e.holds)

InHand == walk.at \in {"open", "product", "publisher"}

\* The views before the one in hand are passed, and of that one the subkeys up
\* to the one in hand.
PassedView(s) == \E i \in 1 .. 3 : i < walk.source /\ s = Uninstall!Sources[i]
PassedHere(p) ==
    /\ walk.at \notin {"idle", "view"} /\ p[1] = Uninstall!Scope
    /\ \/ IndexOf(p) < walk.index
       \/ InHand /\ IndexOf(p) = walk.index /\ p[2] # walk.key
Passed(p) == PassedView(p[1]) \/ PassedHere(p)

UninstallTyped ==
    /\ path \in [Uninstall!Scopes -> BOOLEAN]
    /\ uninstallRecord \in [Uninstall!Scopes -> [Keys -> SUBSET Uninstall!Facts]]
    /\ changes \in 0 .. MaxChanges
    /\ uninstallExpected \in {"none", "product", "productAndPublisher"}
    /\ backend \in {"running", "finished"}
    /\ phase \in {"none", "baseline", "between", "followUp", "judge"}
    /\ outcome \in {"none", "Installing", "AlreadyPresent",
                    "ProductBoundRegistryEvidence", "CompletionUncertain"}
    /\ uninstallBaseline \subseteq Uninstall!Entries
    /\ followUp \subseteq Uninstall!Entries
    /\ disturbed \subseteq {"baseline", "followUp"}

\* The walk is where a snapshot that is being taken stands.
WalkFits ==
    /\ walk \in [at : {"idle", "view", "enum", "open", "product", "publisher"},
                 source : 0 .. 3, index : Nat, key : Keys \cup {0},
                 holds : SUBSET Uninstall!Facts]
    /\ Uninstall!Taking <=> walk.at # "idle"
    /\ Uninstall!Taking => walk.source # 0
    /\ walk.at = "view" => walk.index = 0
    /\ InHand => walk.key \in KeysOf[Uninstall!Scope]

\* A record is under the uninstall key of its view, and what the ghosts name
\* is there.
RecordsFit ==
    /\ \A s \in Uninstall!Scopes : \A k \in KeysOf[s] :
           uninstallRecord[s][k] # {} => path[s]
    /\ \A p \in uninstallBefore \cup standing :
           p \in Uninstall!Places /\ p[2] \in KeysOf[p[1]] /\ RecordAt(p) # {}
    /\ matched \subseteq uninstallBefore
    /\ \A p \in standing : Uninstall!Matches(RecordAt(p))

\* There are criteria before there is a snapshot, and an evaluation stands
\* until the next follow-up.
PhasesFit ==
    /\ uninstallExpected = "none" => phase = "none" /\ standing = {}
    /\ outcome # "none" => phase = "between"

BaselineNames ==
    "baseline" \notin disturbed =>
        \A p \in uninstallBefore :
            \/ phase = "none"
            \/ phase = "baseline" /\ ~Passed(p)
            \/ Named(p, uninstallBaseline)

FollowUpNames ==
    "followUp" \notin disturbed =>
        \A p \in standing :
            \/ phase \notin {"followUp", "judge"}
            \/ phase = "followUp" /\ ~Passed(p)
            \/ NamedAsMatch(p)

\* What has been read of a record that matches.
ReadingFits ==
    phase = "followUp" /\ walk.at = "publisher"
        /\ <<Uninstall!Scope, walk.key>> \in standing => "product" \in walk.holds

UninstallInv ==
    /\ UninstallTyped /\ WalkFits /\ RecordsFit /\ PhasesFit
    /\ BaselineNames /\ FollowUpNames /\ ReadingFits
    /\ Uninstall!AbsenceIsReal

\* The instance counts as this module does.
LEMMA CountsAgree ==
    \A S : /\ Uninstall!IsFiniteSet(S) <=> IsFiniteSet(S)
          /\ Uninstall!Cardinality(S) = Cardinality(S)
<1>1. \A S : Uninstall!IsFiniteSet(S) <=> IsFiniteSet(S)
    BY DEF Uninstall!IsFiniteSet, IsFiniteSet
<1>2. \A S : Uninstall!Cardinality(S) = Cardinality(S)
    BY DEF Uninstall!Cardinality, Cardinality
<1> QED  BY <1>1, <1>2

LEMMA UninstallConstants ==
    /\ \A s \in Uninstall!Scopes : KeysOf[s] \in SUBSET Nat /\ IsFiniteSet(KeysOf[s])
    /\ \A s \in Uninstall!Scopes : KeysOf[s] \subseteq Keys
    /\ Keys \in SUBSET Nat /\ MaxChanges \in Nat
    /\ Uninstall!Places = Uninstall!Scopes \X Keys
    /\ Uninstall!Entries = [scope : Uninstall!Scopes, key : Keys,
                            holds : SUBSET Uninstall!Facts]
<1>1. /\ KeysOf \in [Uninstall!Scopes -> SUBSET Nat] /\ MaxChanges \in Nat
      /\ \A s \in Uninstall!Scopes : IsFiniteSet(KeysOf[s])
    BY PartsFit, CountsAgree DEF Uninstall!UninstallAssumption
<1>2. Keys \in SUBSET Nat /\ \A s \in Uninstall!Scopes : KeysOf[s] \subseteq Keys
    BY <1>1 DEF Keys
<1>3. Uninstall!Places = Uninstall!Scopes \X Keys
    BY DEF Keys, Uninstall!Places
<1>4. Uninstall!Entries = [scope : Uninstall!Scopes, key : Keys,
                           holds : SUBSET Uninstall!Facts]
    BY DEF Keys, Uninstall!Entries
<1> QED  BY <1>1, <1>2, <1>3, <1>4

LEMMA SourcesAreScopes ==
    /\ Len(Uninstall!Sources) = 3
    /\ \A i \in 1 .. 3 : Uninstall!Sources[i] \in Uninstall!Scopes
    /\ \A s \in Uninstall!Scopes : \E i \in 1 .. 3 : s = Uninstall!Sources[i]
    /\ \A i, j \in 1 .. 3 : Uninstall!Sources[i] = Uninstall!Sources[j] => i = j
BY DEF Uninstall!Sources, Uninstall!Scopes

\* The subkeys of a view are finitely many, before a step and after it.
LEMMA PresentFits ==
    ASSUME NEW s \in Uninstall!Scopes
    PROVE  /\ Uninstall!Present(s) \in SUBSET Nat /\ IsFiniteSet(Uninstall!Present(s))
           /\ Uninstall!Present(s)' \in SUBSET Nat /\ IsFiniteSet(Uninstall!Present(s)')
<1>1. KeysOf[s] \in SUBSET Nat /\ IsFiniteSet(KeysOf[s])
    BY UninstallConstants
<1>2. /\ Uninstall!Present(s) \in SUBSET KeysOf[s]
      /\ Uninstall!Present(s)' \in SUBSET KeysOf[s]
    BY DEF Uninstall!Present
<1> QED  BY <1>1, <1>2, FS_Subset

LEMMA UninstallInit == UninstallBegins => UninstallInv
<1> SUFFICES ASSUME UninstallBegins PROVE UninstallInv
    OBVIOUS
<1> USE DEF UninstallBegins, Uninstall!Init
<1>1. UninstallTyped
    <2>1. uninstallRecord \in [Uninstall!Scopes -> [Keys -> SUBSET Uninstall!Facts]]
        <3>1. {{}, {"key"}, Uninstall!Facts} \subseteq SUBSET Uninstall!Facts
            BY DEF Uninstall!Facts
        <3>2. uninstallRecord \in
                  [Uninstall!Scopes -> [Keys -> {{}, {"key"}, Uninstall!Facts}]]
            BY DEF Keys
        <3>3. \A s \in Uninstall!Scopes :
                  uninstallRecord[s] \in [Keys -> SUBSET Uninstall!Facts]
            BY <3>1, <3>2
        <3> HIDE DEF UninstallBegins, Uninstall!Init
        <3> QED  BY <3>2, <3>3
    <2>2. path \in [Uninstall!Scopes -> BOOLEAN]
        OBVIOUS
    <2>3. changes \in 0 .. MaxChanges
        BY UninstallConstants
    <2> QED  BY <2>1, <2>2, <2>3 DEF UninstallTyped
<1>2. WalkFits
    BY DEF WalkFits, Uninstall!NoWalk, Uninstall!Taking, InHand
<1>3. RecordsFit
    BY DEF RecordsFit
<1> QED
    BY <1>1, <1>2, <1>3
       DEF UninstallInv, PhasesFit, BaselineNames, FollowUpNames, ReadingFits,
           Uninstall!AbsenceIsReal

\* Where a snapshot is being taken.
LEMMA InTheWalk ==
    ASSUME UninstallInv, Uninstall!Taking
    PROVE  /\ walk.source \in 1 .. 3 /\ Uninstall!Scope \in Uninstall!Scopes
           /\ walk.index \in Nat /\ walk.at # "idle"
           /\ phase \in {"baseline", "followUp"} /\ outcome = "none"
           /\ uninstallExpected # "none"
<1>1. walk.source \in 1 .. 3 /\ walk.index \in Nat /\ walk.at # "idle"
    BY DEF UninstallInv, WalkFits
<1>2. phase \in {"baseline", "followUp"}
    BY DEF Uninstall!Taking
<1> QED
    BY <1>1, <1>2, SourcesAreScopes DEF UninstallInv, PhasesFit, Uninstall!Scope

\* Other programs add to the registry: nothing a snapshot has passed is found
\* to be ahead of it, and what matched matches.
LEMMA GrowthKeepsUninstall ==
    ASSUME UninstallInv, UninstallTyped',
           UNCHANGED <<uninstallExpected, phase, walk, uninstallBaseline, followUp,
                       outcome, uninstallBefore, matched, standing, disturbed>>,
           \A s \in Uninstall!Scopes : \A k \in KeysOf[s] :
               /\ uninstallRecord[s][k] \subseteq uninstallRecord'[s][k]
               /\ uninstallRecord'[s][k] # {} => path'[s]
    PROVE  UninstallInv'
<1> USE DEF UninstallInv
<1>1. /\ Uninstall!Scope' = Uninstall!Scope /\ Uninstall!Taking' = Uninstall!Taking
      /\ \A h : Uninstall!Matches(h)' <=> Uninstall!Matches(h)
      /\ InHand' = InHand /\ \A s : PassedView(s)' <=> PassedView(s)
    BY DEF Uninstall!Scope, Uninstall!Taking, Uninstall!Matches, InHand, PassedView
<1>2. \A p \in uninstallBefore \cup standing :
          p[1] \in Uninstall!Scopes /\ p[2] \in KeysOf[p[1]]
    BY UninstallConstants DEF RecordsFit
<1>3. ASSUME NEW p \in uninstallBefore \cup standing, Passed(p)'
      PROVE  Passed(p)
    <2> SUFFICES ASSUME PassedHere(p)' PROVE PassedHere(p)
        BY <1>1, <1>3 DEF Passed
    <2>1. Uninstall!Present(p[1]) \subseteq Uninstall!Present(p[1])'
        BY <1>2 DEF Uninstall!Present
    <2>2. /\ IndexOf(p) <= IndexOf(p)'
          /\ IndexOf(p) \in Nat /\ IndexOf(p)' \in Nat
        BY <1>2, <2>1, PresentFits, RankGrows, RankIsNat DEF IndexOf
    <2>3. /\ walk.at \notin {"idle", "view"} /\ p[1] = Uninstall!Scope
          /\ \/ IndexOf(p)' < walk.index
             \/ InHand /\ IndexOf(p)' = walk.index /\ p[2] # walk.key
        BY <1>1 DEF PassedHere
    <2>4. walk.index \in Nat
        BY DEF WalkFits
    <2>5. CASE IndexOf(p)' < walk.index
        BY <2>2, <2>3, <2>4, <2>5 DEF PassedHere
    <2>6. CASE InHand /\ IndexOf(p)' = walk.index /\ p[2] # walk.key
        <3>1. IndexOf(p) < walk.index \/ IndexOf(p) = walk.index
            BY <2>2, <2>4, <2>6
        <3> QED  BY <2>3, <2>6, <3>1 DEF PassedHere
    <2> QED  BY <2>3, <2>5, <2>6
<1>4. WalkFits'
    BY <1>1 DEF WalkFits
<1>5. RecordsFit'
    <2>1. \A p \in uninstallBefore \cup standing : RecordAt(p) \subseteq RecordAt(p)'
        BY <1>2 DEF RecordAt
    <2>2. \A p \in standing : Uninstall!Matches(RecordAt(p)')
        BY <2>1 DEF RecordsFit, Uninstall!Matches
    <2> QED  BY <1>1, <2>1, <2>2 DEF RecordsFit
<1>6. PhasesFit' /\ ReadingFits'
    BY <1>1 DEF PhasesFit, ReadingFits
<1>7. BaselineNames'
    BY <1>3 DEF BaselineNames, Named
<1>8. FollowUpNames'
    <2>1. \A p : NamedAsMatch(p)' <=> NamedAsMatch(p)
        BY <1>1 DEF NamedAsMatch
    <2> QED  BY <1>3, <2>1 DEF FollowUpNames
<1>9. Uninstall!AbsenceIsReal'
    BY DEF Uninstall!AbsenceIsReal
<1> QED  BY <1>4, <1>5, <1>6, <1>7, <1>8, <1>9

\* What a step of another program makes of one record.
LEMMA RecordWritten ==
    ASSUME UninstallTyped, NEW s \in Uninstall!Scopes, NEW k \in KeysOf[s],
           NEW v \in SUBSET Uninstall!Facts,
           uninstallRecord' = [uninstallRecord EXCEPT ![s][k] = v]
    PROVE  /\ uninstallRecord' \in
                  [Uninstall!Scopes -> [Keys -> SUBSET Uninstall!Facts]]
           /\ uninstallRecord'[s][k] = v
           /\ \A t \in Uninstall!Scopes, j \in Keys :
                  t # s \/ j # k => uninstallRecord'[t][j] = uninstallRecord[t][j]
<1>1. /\ uninstallRecord \in [Uninstall!Scopes -> [Keys -> SUBSET Uninstall!Facts]]
      /\ k \in Keys
    BY UninstallConstants DEF UninstallTyped
<1>2. PICK r \in [Keys -> SUBSET Uninstall!Facts] : r = [uninstallRecord[s] EXCEPT ![k] = v]
    BY <1>1
<1>3. uninstallRecord' = [uninstallRecord EXCEPT ![s] = r]
    BY <1>2
<1> QED  BY <1>1, <1>2, <1>3

LEMMA ChangesCount ==
    ASSUME UninstallTyped, Uninstall!CanChange
    PROVE  changes' \in 0 .. MaxChanges
BY UninstallConstants DEF UninstallTyped, Uninstall!CanChange

LEMMA CreateKeepsUninstall ==
    ASSUME UninstallInv, NEW s \in Uninstall!Scopes, NEW k \in KeysOf[s],
           Uninstall!CreateRecord(s, k)
    PROVE  UninstallInv'
<1>1. UninstallTyped
    BY DEF UninstallInv
<1>2. /\ uninstallRecord[s][k] = {}
      /\ uninstallRecord' = [uninstallRecord EXCEPT ![s][k] = {"key"}]
      /\ path' = [path EXCEPT ![s] = TRUE] /\ changes' \in 0 .. MaxChanges
      /\ UNCHANGED <<uninstallExpected, backend, phase, walk, uninstallBaseline,
                     followUp, outcome, uninstallBefore, matched, standing, disturbed>>
    BY <1>1, ChangesCount
       DEF Uninstall!CreateRecord, Uninstall!observer, Uninstall!ghosts
<1>3. {"key"} \in SUBSET Uninstall!Facts
    BY DEF Uninstall!Facts
<1>4. /\ uninstallRecord' \in [Uninstall!Scopes -> [Keys -> SUBSET Uninstall!Facts]]
      /\ \A t \in Uninstall!Scopes, j \in Keys :
             t # s \/ j # k => uninstallRecord'[t][j] = uninstallRecord[t][j]
    <2>1. PICK v \in SUBSET Uninstall!Facts : v = {"key"}
        BY <1>3
    <2>2. uninstallRecord' = [uninstallRecord EXCEPT ![s][k] = v]
        BY <1>2, <2>1
    <2> QED  BY <1>1, <2>2, RecordWritten
<1>5. path' \in [Uninstall!Scopes -> BOOLEAN]
    BY <1>1, <1>2 DEF UninstallTyped
<1>6. UninstallTyped'
    BY <1>1, <1>2, <1>4, <1>5 DEF UninstallTyped
<1>7. ASSUME NEW t \in Uninstall!Scopes, NEW j \in KeysOf[t]
      PROVE  /\ uninstallRecord[t][j] \subseteq uninstallRecord'[t][j]
             /\ uninstallRecord'[t][j] # {} => path'[t]
    <2>1. j \in Keys
        BY UninstallConstants
    <2>2. uninstallRecord[t][j] # {} => path[t]
        BY DEF UninstallInv, RecordsFit
    <2>3. path[t] => path'[t]
        BY <1>1, <1>2 DEF UninstallTyped
    <2>4. CASE t = s /\ j = k
        BY <1>1, <1>2, <2>4 DEF UninstallTyped
    <2> QED  BY <1>4, <2>1, <2>2, <2>3, <2>4
<1> QED  BY <1>2, <1>6, <1>7, GrowthKeepsUninstall

LEMMA WriteKeepsUninstall ==
    ASSUME UninstallInv, NEW s \in Uninstall!Scopes, NEW k \in KeysOf[s],
           NEW v \in {"product", "publisher"}, Uninstall!WriteValue(s, k, v)
    PROVE  UninstallInv'
<1>1. UninstallTyped
    BY DEF UninstallInv
<1>2. /\ uninstallRecord[s][k] # {}
      /\ uninstallRecord' = [uninstallRecord EXCEPT ![s][k] = @ \cup {v}]
      /\ changes' \in 0 .. MaxChanges
      /\ UNCHANGED <<path, uninstallExpected, backend, phase, walk, uninstallBaseline,
                     followUp, outcome, uninstallBefore, matched, standing, disturbed>>
    BY <1>1, ChangesCount
       DEF Uninstall!WriteValue, Uninstall!observer, Uninstall!ghosts
<1>3. PICK w : w = uninstallRecord[s][k] \cup {v}
    OBVIOUS
<1>4. w \in SUBSET Uninstall!Facts
    <2>1. uninstallRecord[s][k] \in SUBSET Uninstall!Facts
        BY <1>1, UninstallConstants DEF UninstallTyped
    <2> QED  BY <1>3, <2>1 DEF Uninstall!Facts
<1>5. uninstallRecord' = [uninstallRecord EXCEPT ![s][k] = w]
    BY <1>2, <1>3
<1>6. /\ uninstallRecord' \in [Uninstall!Scopes -> [Keys -> SUBSET Uninstall!Facts]]
      /\ uninstallRecord'[s][k] = w
      /\ \A t \in Uninstall!Scopes, j \in Keys :
             t # s \/ j # k => uninstallRecord'[t][j] = uninstallRecord[t][j]
    BY <1>1, <1>4, <1>5, RecordWritten
<1>7. UninstallTyped'
    BY <1>1, <1>2, <1>6 DEF UninstallTyped
<1>8. ASSUME NEW t \in Uninstall!Scopes, NEW j \in KeysOf[t]
      PROVE  /\ uninstallRecord[t][j] \subseteq uninstallRecord'[t][j]
             /\ uninstallRecord'[t][j] # {} => path'[t]
    <2>1. j \in Keys
        BY UninstallConstants
    <2>2. uninstallRecord[t][j] # {} => path'[t]
        BY <1>2 DEF UninstallInv, RecordsFit
    <2>3. CASE t = s /\ j = k
        BY <1>2, <1>3, <1>6, <2>2, <2>3
    <2> QED  BY <1>6, <2>1, <2>2, <2>3
<1> QED  BY <1>2, <1>7, <1>8, GrowthKeepsUninstall

LEMMA AsideKeepsUninstall ==
    ASSUME UninstallInv,
           \/ Uninstall!BackendFinishes
           \/ \E kind, publisher : Uninstall!Construct(kind, publisher)
    PROVE  UninstallInv'
<1>1. CASE Uninstall!BackendFinishes
    <2>1. /\ backend' \in {"running", "finished"}
          /\ UNCHANGED <<path, uninstallRecord, changes, uninstallExpected, phase, walk,
                         uninstallBaseline, followUp, outcome, uninstallBefore, matched,
                         standing, disturbed>>
        BY <1>1 DEF Uninstall!BackendFinishes, Uninstall!registry,
                    Uninstall!observer, Uninstall!ghosts
    <2>2. UninstallTyped'
        BY <2>1 DEF UninstallInv, UninstallTyped
    <2>3. \A s \in Uninstall!Scopes : \A k \in KeysOf[s] :
              /\ uninstallRecord[s][k] \subseteq uninstallRecord'[s][k]
              /\ uninstallRecord'[s][k] # {} => path'[s]
        BY <2>1 DEF UninstallInv, RecordsFit
    <2> QED  BY <2>1, <2>2, <2>3, GrowthKeepsUninstall
<1>2. CASE \E kind, publisher : Uninstall!Construct(kind, publisher)
    <2>1. /\ uninstallExpected = "none"
          /\ uninstallExpected' \in {"product", "productAndPublisher"}
          /\ UNCHANGED <<path, uninstallRecord, changes, backend, phase, walk,
                         uninstallBaseline, followUp, outcome, uninstallBefore, matched,
                         standing, disturbed>>
        BY <1>2 DEF Uninstall!Construct, Uninstall!registry,
                    Uninstall!observer, Uninstall!ghosts
    <2>2. phase = "none" /\ standing = {} /\ outcome = "none"
        BY <2>1 DEF UninstallInv, PhasesFit
    <2>3. UninstallTyped'
        BY <2>1 DEF UninstallInv, UninstallTyped
    <2>4. WalkFits'
        BY <2>1 DEF UninstallInv, WalkFits, InHand, Uninstall!Scope, Uninstall!Taking
    <2>5. RecordsFit'
        BY <2>1, <2>2 DEF UninstallInv, RecordsFit, RecordAt
    <2> QED
        BY <2>1, <2>2, <2>3, <2>4, <2>5
           DEF UninstallInv, PhasesFit, BaselineNames, FollowUpNames, ReadingFits,
               Uninstall!AbsenceIsReal
<1> QED  BY <1>1, <1>2

\* A record goes: it is a ghost no more, and of the view in hand the snapshot
\* no longer says what it passed.
LEMMA RemoveKeepsUninstall ==
    ASSUME UninstallInv, NEW s \in Uninstall!Scopes, NEW k \in KeysOf[s],
           Uninstall!RemoveRecord(s, k)
    PROVE  UninstallInv'
<1> USE DEF UninstallInv
<1>1. /\ uninstallRecord' = [uninstallRecord EXCEPT ![s][k] = {}]
      /\ uninstallBefore' = uninstallBefore \ {<<s, k>>}
      /\ matched' = matched \ {<<s, k>>}
      /\ standing' = standing \ {<<s, k>>}
      /\ disturbed' = IF Uninstall!Taking /\ walk.at # "view" /\ s = Uninstall!Scope
                      THEN disturbed \cup {phase} ELSE disturbed
      /\ changes' \in 0 .. MaxChanges
      /\ UNCHANGED <<path, uninstallExpected, backend, phase, walk,
                     uninstallBaseline, followUp, outcome>>
    BY ChangesCount DEF Uninstall!RemoveRecord, Uninstall!observer
<1>2. /\ uninstallRecord' \in [Uninstall!Scopes -> [Keys -> SUBSET Uninstall!Facts]]
      /\ uninstallRecord'[s][k] = {}
      /\ \A t \in Uninstall!Scopes, j \in Keys :
             t # s \/ j # k => uninstallRecord'[t][j] = uninstallRecord[t][j]
    <2>1. PICK v \in SUBSET Uninstall!Facts : v = {}
        OBVIOUS
    <2>2. uninstallRecord' = [uninstallRecord EXCEPT ![s][k] = v]
        BY <1>1, <2>1
    <2>3. UninstallTyped
        OBVIOUS
    <2> HIDE DEF UninstallInv
    <2>4. /\ uninstallRecord' \in
                 [Uninstall!Scopes -> [Keys -> SUBSET Uninstall!Facts]]
          /\ uninstallRecord'[s][k] = v
          /\ \A t \in Uninstall!Scopes, j \in Keys :
                 t # s \/ j # k => uninstallRecord'[t][j] = uninstallRecord[t][j]
        BY <2>2, <2>3, RecordWritten
    <2> QED  BY <2>1, <2>4
<1>3. /\ Uninstall!Scope' = Uninstall!Scope /\ Uninstall!Taking' = Uninstall!Taking
      /\ \A h : Uninstall!Matches(h)' <=> Uninstall!Matches(h)
      /\ InHand' = InHand /\ \A t : PassedView(t)' <=> PassedView(t)
    BY <1>1 DEF Uninstall!Scope, Uninstall!Taking, Uninstall!Matches, InHand, PassedView
<1>4. \A p \in uninstallBefore' \cup standing' :
          /\ p \in uninstallBefore \cup standing /\ p # <<s, k>>
          /\ p \in Uninstall!Places /\ p[1] \in Uninstall!Scopes
          /\ p[2] \in KeysOf[p[1]] /\ p[2] \in Keys /\ p = <<p[1], p[2]>>
    BY <1>1, UninstallConstants DEF RecordsFit
<1>5. \A p \in uninstallBefore' \cup standing' : RecordAt(p)' = RecordAt(p)
    BY <1>2, <1>4 DEF RecordAt
<1>6. disturbed \subseteq disturbed' /\ disturbed' \subseteq {"baseline", "followUp"}
    BY <1>1 DEF Uninstall!Taking, UninstallTyped
<1>7. BaselineNames' /\ FollowUpNames'
    <2>1. CASE Uninstall!Taking /\ walk.at # "view" /\ s = Uninstall!Scope
        <3>1. phase \in disturbed' /\ phase \in {"baseline", "followUp"}
            BY <1>1, <2>1 DEF Uninstall!Taking
        <3>2. BaselineNames'
            BY <1>1, <1>6, <3>1 DEF BaselineNames, Named
        <3>3. FollowUpNames'
            BY <1>1, <1>6, <3>1 DEF FollowUpNames
        <3> QED  BY <3>2, <3>3
    <2>2. CASE ~(Uninstall!Taking /\ walk.at # "view" /\ s = Uninstall!Scope)
        <3>1. disturbed' = disturbed
            BY <1>1, <2>2
        <3>2. ASSUME NEW p \in uninstallBefore' \cup standing', Uninstall!Taking, Passed(p)'
              PROVE  Passed(p)
            <4> SUFFICES ASSUME PassedHere(p)' PROVE PassedHere(p)
                BY <1>3, <3>2 DEF Passed
            <4>1. p[1] # s
                BY <1>1, <1>3, <2>2, <3>2 DEF PassedHere
            <4>2. Uninstall!Present(p[1])' = Uninstall!Present(p[1])
                BY <1>2, <1>4, <4>1, UninstallConstants DEF Uninstall!Present
            <4>3. IndexOf(p)' = IndexOf(p)
                BY <4>2 DEF IndexOf
            <4> QED  BY <1>1, <1>3, <4>3 DEF PassedHere
        <3>3. BaselineNames'
            BY <1>1, <1>4, <3>1, <3>2 DEF BaselineNames, Named, Uninstall!Taking
        <3>4. FollowUpNames'
            <4> SUFFICES ASSUME "followUp" \notin disturbed, NEW p \in standing',
                                phase \in {"followUp", "judge"},
                                phase = "followUp" => Passed(p)'
                         PROVE  NamedAsMatch(p)'
                BY <1>1, <3>1 DEF FollowUpNames
            <4>1. p \in standing /\ (phase = "followUp" => Passed(p))
                BY <1>1, <3>2 DEF Uninstall!Taking
            <4>2. NamedAsMatch(p)
                BY <4>1 DEF FollowUpNames
            <4> QED  BY <1>1, <1>3, <4>2 DEF NamedAsMatch
        <3> QED  BY <3>3, <3>4
    <2> QED  BY <2>1, <2>2
<1>9. UninstallTyped'
    BY <1>1, <1>2, <1>6 DEF UninstallTyped
<1>10. WalkFits'
    BY <1>1, <1>3 DEF WalkFits
<1>11. RecordsFit'
    <2>1. \A t \in Uninstall!Scopes : \A j \in KeysOf[t] :
              uninstallRecord'[t][j] # {} => path'[t]
        BY <1>1, <1>2, UninstallConstants DEF RecordsFit
    <2>2. \A p \in uninstallBefore' \cup standing' :
              p \in Uninstall!Places /\ p[2] \in KeysOf[p[1]] /\ RecordAt(p)' # {}
        BY <1>4, <1>5 DEF RecordsFit
    <2>3. \A p \in standing' : Uninstall!Matches(RecordAt(p)')
        BY <1>1, <1>5 DEF RecordsFit
    <2>4. matched' \subseteq uninstallBefore'
        BY <1>1 DEF RecordsFit
    <2> QED  BY <1>1, <1>3, <2>1, <2>2, <2>3, <2>4 DEF RecordsFit
<1>12. PhasesFit' /\ ReadingFits'
    BY <1>1, <1>3 DEF PhasesFit, ReadingFits
<1>13. Uninstall!AbsenceIsReal'
    BY <1>1, <1>6 DEF Uninstall!AbsenceIsReal
<1> QED  BY <1>7, <1>9, <1>10, <1>11, <1>12, <1>13

\* A step of the observer leaves the registry alone.
LEMMA ObserverStep ==
    ASSUME UninstallInv,
           UNCHANGED <<path, uninstallRecord, uninstallExpected, uninstallBefore, matched>>,
           standing' \subseteq standing, UninstallTyped', WalkFits', PhasesFit',
           BaselineNames', FollowUpNames', ReadingFits', Uninstall!AbsenceIsReal'
    PROVE  UninstallInv'
<1>1. RecordsFit'
    BY DEF UninstallInv, RecordsFit, RecordAt, Uninstall!Matches
<1> QED  BY <1>1 DEF UninstallInv

\* What a step does that leaves the registry, the outcome and the ghosts alone.
ObserverOnly ==
    UNCHANGED <<path, uninstallRecord, changes, uninstallExpected, backend, outcome,
                uninstallBefore, matched, standing, disturbed>>

LEMMA PlacesFit ==
    ASSUME UninstallInv, NEW p \in uninstallBefore \cup standing
    PROVE  /\ p[1] \in Uninstall!Scopes /\ p[2] \in KeysOf[p[1]]
           /\ p = <<p[1], p[2]>> /\ p[2] \in Uninstall!Present(p[1])
<1>1. /\ p \in Uninstall!Places /\ p[2] \in KeysOf[p[1]] /\ RecordAt(p) # {}
    BY DEF UninstallInv, RecordsFit
<1>2. p[1] \in Uninstall!Scopes /\ p = <<p[1], p[2]>>
    BY <1>1, UninstallConstants
<1> QED  BY <1>1, <1>2 DEF RecordAt, Uninstall!Present

LEMMA RefuseKeepsUninstall ==
    ASSUME UninstallInv, Uninstall!Taking, Uninstall!Refuse, ObserverOnly
    PROVE  UninstallInv'
<1> USE DEF ObserverOnly
<1>1. /\ phase \in {"baseline", "followUp"} /\ outcome = "none"
      /\ uninstallExpected # "none"
    BY InTheWalk
<1>2. /\ phase' = IF phase = "baseline" THEN "none" ELSE "between"
      /\ uninstallBaseline' = IF phase = "baseline" THEN {} ELSE uninstallBaseline
      /\ followUp' = {} /\ walk' = Uninstall!NoWalk
    BY DEF Uninstall!Refuse
<1>3. UninstallTyped'
    BY <1>1, <1>2 DEF UninstallInv, UninstallTyped
<1>4. WalkFits'
    BY <1>1, <1>2 DEF WalkFits, Uninstall!NoWalk, InHand, Uninstall!Taking
<1>5. PhasesFit' /\ ReadingFits' /\ FollowUpNames'
    BY <1>1, <1>2 DEF PhasesFit, ReadingFits, FollowUpNames, UninstallInv
<1>6. BaselineNames'
    BY <1>1, <1>2 DEF UninstallInv, BaselineNames, Named
<1>7. Uninstall!AbsenceIsReal'
    BY <1>1 DEF Uninstall!AbsenceIsReal
<1> QED  BY <1>3, <1>4, <1>5, <1>6, <1>7, ObserverStep

\* The view in hand is passed, and the last one completes the snapshot.
LEMMA NextViewKeepsUninstall ==
    ASSUME UninstallInv, Uninstall!Taking, Uninstall!NextView, ObserverOnly,
           \A p \in uninstallBefore \cup standing :
               p[1] = Uninstall!Scope => PassedHere(p)
    PROVE  UninstallInv'
<1> USE DEF ObserverOnly
<1>1. /\ walk.source \in 1 .. 3 /\ outcome = "none"
      /\ phase \in {"baseline", "followUp"} /\ uninstallExpected # "none"
    BY InTheWalk
<1>2. /\ UNCHANGED <<uninstallBaseline, followUp>>
      /\ IF walk.source < 3
         THEN /\ walk' = [Uninstall!NoWalk EXCEPT !.at = "view", !.source = walk.source + 1]
              /\ UNCHANGED phase
         ELSE /\ walk' = Uninstall!NoWalk
              /\ phase' = IF phase = "baseline" THEN "between" ELSE "judge"
    BY SourcesAreScopes DEF Uninstall!NextView
<1>3. UninstallTyped'
    BY <1>1, <1>2 DEF UninstallInv, UninstallTyped
<1>4. \A h : Uninstall!Matches(h)' <=> Uninstall!Matches(h)
    BY DEF Uninstall!Matches
<1>5. \A p : NamedAsMatch(p) => NamedAsMatch(p)'
    BY <1>2, <1>4 DEF NamedAsMatch
<1>6. CASE walk.source < 3
    <2>1. walk' = [at |-> "view", source |-> walk.source + 1, index |-> 0, key |-> 0,
                   holds |-> {}]
        BY <1>2, <1>6 DEF Uninstall!NoWalk
    <2>2. WalkFits'
        <3>1. walk.source + 1 \in 0 .. 3 /\ walk.source + 1 # 0
            BY <1>1, <1>6
        <3> QED
            BY <1>1, <1>2, <1>6, <2>1, <3>1 DEF WalkFits, InHand, Uninstall!Taking
    <2>3. ASSUME NEW p \in uninstallBefore \cup standing, Passed(p)'
          PROVE  Passed(p)
        <3>1. PICK i \in 1 .. 3 : i < walk.source + 1 /\ p[1] = Uninstall!Sources[i]
            BY <2>1, <2>3 DEF Passed, PassedView, PassedHere
        <3>2. i < walk.source \/ i = walk.source
            BY <1>1, <3>1
        <3> QED  BY <3>1, <3>2 DEF Passed, PassedView, Uninstall!Scope
    <2>4. BaselineNames'
        BY <1>1, <1>2, <1>6, <2>3 DEF UninstallInv, BaselineNames, Named
    <2>5. FollowUpNames'
        BY <1>1, <1>2, <1>5, <1>6, <2>3 DEF UninstallInv, FollowUpNames
    <2>6. PhasesFit' /\ ReadingFits' /\ Uninstall!AbsenceIsReal'
        BY <1>1, <1>2, <1>6, <2>1
           DEF PhasesFit, ReadingFits, Uninstall!AbsenceIsReal, UninstallInv
    <2> QED  BY <1>3, <2>2, <2>4, <2>5, <2>6, ObserverStep
<1>7. CASE ~(walk.source < 3)
    <2>1. \A p \in uninstallBefore \cup standing : Passed(p)
        <3> SUFFICES ASSUME NEW p \in uninstallBefore \cup standing PROVE Passed(p)
            OBVIOUS
        <3>1. PICK i \in 1 .. 3 : p[1] = Uninstall!Sources[i]
            BY PlacesFit, SourcesAreScopes
        <3>2. i < walk.source \/ i = walk.source
            BY <1>1, <1>7
        <3> QED  BY <3>1, <3>2 DEF Passed, PassedView, Uninstall!Scope
    <2>2. WalkFits'
        BY <1>1, <1>2, <1>7 DEF WalkFits, Uninstall!NoWalk, InHand, Uninstall!Taking
    <2>3. BaselineNames'
        BY <1>1, <1>2, <2>1 DEF UninstallInv, BaselineNames, Named
    <2>4. FollowUpNames'
        BY <1>1, <1>2, <1>5, <1>7, <2>1 DEF UninstallInv, FollowUpNames
    <2>5. PhasesFit' /\ ReadingFits' /\ Uninstall!AbsenceIsReal'
        BY <1>1, <1>2, <1>7
           DEF PhasesFit, ReadingFits, Uninstall!AbsenceIsReal, UninstallInv
    <2> QED  BY <1>3, <2>2, <2>3, <2>4, <2>5, ObserverStep
<1> QED  BY <1>6, <1>7

\* The snapshot goes on within the view in hand, and nothing comes to be passed.
LEMMA WithinTheView ==
    ASSUME UninstallInv, Uninstall!Taking, ObserverOnly,
           UNCHANGED <<phase, uninstallBaseline, followUp>>, WalkFits',
           \A p \in uninstallBefore \cup standing : Passed(p)' => Passed(p),
           ReadingFits'
    PROVE  UninstallInv'
<1> USE DEF ObserverOnly
<1>1. outcome = "none" /\ phase \in {"baseline", "followUp"}
    BY InTheWalk
<1>2. UninstallTyped' /\ PhasesFit'
    BY DEF UninstallInv, UninstallTyped, PhasesFit
<1>3. BaselineNames'
    BY DEF UninstallInv, BaselineNames, Named
<1>4. \A h : Uninstall!Matches(h)' <=> Uninstall!Matches(h)
    BY DEF Uninstall!Matches
<1>5. \A p : NamedAsMatch(p) => NamedAsMatch(p)'
    BY <1>4 DEF NamedAsMatch
<1>6. FollowUpNames'
    BY <1>5 DEF UninstallInv, FollowUpNames
<1>7. Uninstall!AbsenceIsReal'
    BY <1>1 DEF Uninstall!AbsenceIsReal
<1> QED  BY <1>2, <1>3, <1>6, <1>7, ObserverStep

LEMMA OpenViewKeepsUninstall ==
    ASSUME UninstallInv, Uninstall!OpenView
    PROVE  UninstallInv'
<1>1. Uninstall!Taking /\ walk.at = "view" /\ ObserverOnly
    BY DEF Uninstall!OpenView, ObserverOnly, Uninstall!registry, Uninstall!ghosts
<1>2. CASE ~path[Uninstall!Scope] /\ Uninstall!NextView
    <2>1. ASSUME NEW p \in uninstallBefore \cup standing PROVE p[1] # Uninstall!Scope
        BY <1>2, PlacesFit DEF UninstallInv, RecordsFit, Uninstall!Present
    <2> QED  BY <1>1, <1>2, <2>1, NextViewKeepsUninstall
<1>3. CASE /\ walk' = [walk EXCEPT !.at = "enum"]
           /\ UNCHANGED <<phase, uninstallBaseline, followUp>>
    <2>1. /\ walk'.at = "enum" /\ walk'.source = walk.source
          /\ walk'.index = walk.index /\ walk'.key = walk.key
          /\ walk'.holds = walk.holds /\ walk.index \in Nat
        BY <1>3 DEF UninstallInv, WalkFits
    <2>2. WalkFits'
        BY <1>1, <1>3, <2>1 DEF UninstallInv, WalkFits, InHand, Uninstall!Taking
    <2>3. ASSUME NEW p \in uninstallBefore \cup standing, Passed(p)' PROVE Passed(p)
        <3>1. IndexOf(p)' \in Nat
            BY PlacesFit, PresentFits, RankIsNat DEF IndexOf
        <3>2. walk'.index = 0 /\ ~InHand'
            BY <1>1, <2>1 DEF UninstallInv, WalkFits, InHand
        <3>3. ~PassedHere(p)'
            BY <3>1, <3>2 DEF PassedHere
        <3> QED  BY <2>1, <2>3, <3>3 DEF Passed, PassedView
    <2>4. ReadingFits'
        BY <2>1 DEF ReadingFits
    <2> QED  BY <1>1, <1>3, <2>2, <2>3, <2>4, WithinTheView
<1>4. CASE Uninstall!ViewDenied
    BY <1>1, <1>4, RefuseKeepsUninstall DEF Uninstall!ViewDenied
<1> QED  BY <1>2, <1>3, <1>4 DEF Uninstall!OpenView

LEMMA KeyAtFits ==
    ASSUME NEW s \in Uninstall!Scopes, NEW i \in Nat,
           i < Uninstall!Cardinality(Uninstall!Present(s))
    PROVE  /\ Uninstall!KeyAt(s, i) \in Uninstall!Present(s)
           /\ Rank(Uninstall!Present(s), Uninstall!KeyAt(s, i)) = i
<1>1. \E k \in Uninstall!Present(s) : Rank(Uninstall!Present(s), k) = i
    BY PresentFits, RankIsTaken, CountsAgree
<1>2. Uninstall!KeyAt(s, i) =
          CHOOSE k \in Uninstall!Present(s) : Rank(Uninstall!Present(s), k) = i
    BY CountsAgree DEF Uninstall!KeyAt, Rank, Smaller
<1> QED  BY <1>1, <1>2

\* Without a change of the registry every subkey keeps its index.
LEMMA IndexKept ==
    ASSUME UNCHANGED uninstallRecord
    PROVE  \A p : IndexOf(p)' = IndexOf(p)
BY DEF IndexOf, Uninstall!Present

LEMMA EnumKeepsUninstall ==
    ASSUME UninstallInv, Uninstall!EnumKey
    PROVE  UninstallInv'
<1>1. Uninstall!Taking /\ walk.at = "enum" /\ ObserverOnly
    BY DEF Uninstall!EnumKey, ObserverOnly, Uninstall!registry, Uninstall!ghosts
<1>2. /\ Uninstall!Scope \in Uninstall!Scopes /\ walk.index \in Nat
      /\ walk.source \in 1 .. 3
    BY <1>1, InTheWalk
<1>3. CASE /\ walk.index >= Uninstall!Cardinality(Uninstall!Present(Uninstall!Scope))
           /\ Uninstall!NextView
    <2>1. ASSUME NEW p \in uninstallBefore \cup standing, p[1] = Uninstall!Scope
          PROVE  PassedHere(p)
        <3>1. p[2] \in Uninstall!Present(p[1]) /\ p[1] \in Uninstall!Scopes
            BY PlacesFit
        <3>2. IndexOf(p) < Cardinality(Uninstall!Present(p[1]))
            BY <3>1, PresentFits, RankIsBelow DEF IndexOf
        <3>3. /\ IndexOf(p) \in Nat
              /\ Cardinality(Uninstall!Present(p[1])) \in Nat
              /\ walk.index >= Cardinality(Uninstall!Present(p[1]))
            BY <1>3, <2>1, <3>1, PresentFits, RankIsNat, CountsAgree,
               FS_CardinalityType DEF IndexOf
        <3> QED  BY <1>1, <1>2, <2>1, <3>2, <3>3 DEF PassedHere
    <2> QED  BY <1>1, <1>3, <2>1, NextViewKeepsUninstall
<1>4. CASE /\ walk.index < Uninstall!Cardinality(Uninstall!Present(Uninstall!Scope))
           /\ walk' = [walk EXCEPT !.at = "open",
                                   !.key = Uninstall!KeyAt(Uninstall!Scope, walk.index)]
           /\ UNCHANGED <<phase, uninstallBaseline, followUp>>
    <2>1. PICK k \in Uninstall!Present(Uninstall!Scope) :
              /\ k = Uninstall!KeyAt(Uninstall!Scope, walk.index)
              /\ Rank(Uninstall!Present(Uninstall!Scope), k) = walk.index
        BY <1>2, <1>4, KeyAtFits
    <2>2. walk' = [at |-> "open", source |-> walk.source, index |-> walk.index,
                   key |-> k, holds |-> walk.holds]
        BY <1>4, <2>1 DEF UninstallInv, WalkFits
    <2>3. k \in KeysOf[Uninstall!Scope] /\ k \in Keys
        BY <1>2, UninstallConstants DEF Uninstall!Present
    <2>4. WalkFits'
        <3>1. walk'.at = "open" /\ walk'.key = k /\ walk'.source = walk.source
            BY <2>2
        <3>3. Uninstall!Scope' = Uninstall!Scope
            BY <3>1 DEF Uninstall!Scope
        <3>4. Uninstall!Taking'
            BY <1>1, <1>4 DEF Uninstall!Taking
        <3>2. walk' \in [at : {"idle", "view", "enum", "open", "product", "publisher"},
                         source : 0 .. 3, index : Nat, key : Keys \cup {0},
                         holds : SUBSET Uninstall!Facts]
            BY <2>2, <2>3 DEF UninstallInv, WalkFits
        <3> QED  BY <1>2, <2>3, <3>1, <3>2, <3>3, <3>4 DEF WalkFits
    <2>5. ASSUME NEW p \in uninstallBefore \cup standing, Passed(p)' PROVE Passed(p)
        <3> SUFFICES ASSUME PassedHere(p)' PROVE PassedHere(p)
            BY <2>2, <2>5 DEF Passed, PassedView
        <3>1. /\ p[1] = Uninstall!Scope
              /\ \/ IndexOf(p) < walk.index
                 \/ IndexOf(p) = walk.index /\ p[2] # k
            BY <1>1, <2>2, IndexKept DEF PassedHere, ObserverOnly, Uninstall!Scope
        <3>2. CASE IndexOf(p) = walk.index /\ p[2] # k
            BY <1>2, <2>1, <3>1, <3>2, PlacesFit, PresentFits, RankIsOwn DEF IndexOf
        <3> QED  BY <1>1, <3>1, <3>2 DEF PassedHere
    <2>6. ReadingFits'
        BY <2>2 DEF ReadingFits
    <2> QED  BY <1>1, <1>4, <2>4, <2>5, <2>6, WithinTheView
<1> QED  BY <1>3, <1>4 DEF Uninstall!EnumKey

LEMMA OpenEntryKeepsUninstall ==
    ASSUME UninstallInv, Uninstall!OpenEntry
    PROVE  UninstallInv'
<1>1. Uninstall!Taking /\ walk.at = "open" /\ ObserverOnly
    BY DEF Uninstall!OpenEntry, ObserverOnly, Uninstall!registry, Uninstall!ghosts
<1>2. CASE /\ walk' = [walk EXCEPT !.at = "product"]
           /\ UNCHANGED <<phase, uninstallBaseline, followUp>>
    <2>1. walk' = [at |-> "product", source |-> walk.source, index |-> walk.index,
                   key |-> walk.key, holds |-> walk.holds]
        BY <1>2 DEF UninstallInv, WalkFits
    <2>2. WalkFits'
        BY <1>1, <1>2, <2>1
           DEF UninstallInv, WalkFits, InHand, Uninstall!Taking, Uninstall!Scope
    <2>3. \A p \in uninstallBefore \cup standing : Passed(p)' => Passed(p)
        BY <1>1, <2>1, IndexKept
           DEF Passed, PassedView, PassedHere, InHand, ObserverOnly, Uninstall!Scope
    <2>4. ReadingFits'
        BY <2>1 DEF ReadingFits
    <2> QED  BY <1>1, <1>2, <2>2, <2>3, <2>4, WithinTheView
<1>3. CASE Uninstall!Refuse
    BY <1>1, <1>3, RefuseKeepsUninstall
<1> QED  BY <1>2, <1>3 DEF Uninstall!OpenEntry

\* What a reading shows of a record that stands: the value, if it is there.
LEMMA ReadShows ==
    ASSUME UninstallInv, NEW v, NEW seen, Uninstall!Read(v, seen)
    PROVE  /\ standing' \subseteq standing /\ changes' \in 0 .. MaxChanges
           /\ <<Uninstall!Scope, walk.key>> \in standing'
                  => seen = uninstallRecord[Uninstall!Scope][walk.key] \cap {v}
<1>1. CASE /\ seen = uninstallRecord[Uninstall!Scope][walk.key] \cap {v}
           /\ UNCHANGED <<changes, standing>>
    BY <1>1 DEF UninstallInv, UninstallTyped
<1>2. CASE /\ Uninstall!CanChange
           /\ standing' = standing \ {<<Uninstall!Scope, walk.key>>}
    BY <1>2, ChangesCount DEF UninstallInv
<1> QED  BY <1>1, <1>2 DEF Uninstall!Read

LEMMA ReadProductKeepsUninstall ==
    ASSUME UninstallInv, Uninstall!ReadProduct
    PROVE  UninstallInv'
<1>1. /\ Uninstall!Taking /\ walk.at = "product"
      /\ UNCHANGED <<path, uninstallRecord, uninstallExpected, backend, phase,
                     uninstallBaseline, followUp, outcome, uninstallBefore, matched,
                     disturbed>>
    BY DEF Uninstall!ReadProduct
<1>2. PICK seen \in SUBSET {"product"} :
          /\ Uninstall!Read("product", seen)
          /\ walk' = [walk EXCEPT !.at = "publisher", !.holds = {"key"} \cup seen]
    BY DEF Uninstall!ReadProduct
<1>3. /\ standing' \subseteq standing /\ changes' \in 0 .. MaxChanges
      /\ <<Uninstall!Scope, walk.key>> \in standing'
             => seen = uninstallRecord[Uninstall!Scope][walk.key] \cap {"product"}
    BY <1>2, ReadShows
<1>4. PICK h : h = {"key"} \cup seen
    OBVIOUS
<1>5. walk' = [at |-> "publisher", source |-> walk.source, index |-> walk.index,
               key |-> walk.key, holds |-> h]
    BY <1>2, <1>4 DEF UninstallInv, WalkFits
<1>6. /\ walk.source \in 1 .. 3 /\ outcome = "none"
      /\ phase \in {"baseline", "followUp"} /\ uninstallExpected # "none"
    BY <1>1, InTheWalk
<1>7. WalkFits'
    <2>1. h \in SUBSET Uninstall!Facts
        BY <1>4 DEF Uninstall!Facts
    <2> QED
        BY <1>1, <1>5, <2>1
           DEF UninstallInv, WalkFits, InHand, Uninstall!Taking, Uninstall!Scope
<1>8. \A p : Passed(p)' => Passed(p)
    BY <1>1, <1>5, IndexKept
       DEF Passed, PassedView, PassedHere, InHand, Uninstall!Scope
<1>9. ReadingFits'
    <2> SUFFICES ASSUME <<Uninstall!Scope, walk.key>> \in standing'
                 PROVE  "product" \in h
        BY <1>5 DEF ReadingFits, Uninstall!Scope
    <2>1. Uninstall!Matches(uninstallRecord[Uninstall!Scope][walk.key])
        BY <1>3 DEF UninstallInv, RecordsFit, RecordAt
    <2> QED  BY <1>3, <1>4, <2>1 DEF Uninstall!Matches
<1>10. UninstallTyped' /\ PhasesFit'
    BY <1>1, <1>3, <1>6 DEF UninstallInv, UninstallTyped, PhasesFit
<1>11. BaselineNames'
    BY <1>1, <1>8 DEF UninstallInv, BaselineNames, Named
<1>12. FollowUpNames'
    <2>1. \A p : NamedAsMatch(p) => NamedAsMatch(p)'
        BY <1>1 DEF NamedAsMatch, Uninstall!Matches
    <2> QED  BY <1>1, <1>3, <1>8, <2>1 DEF UninstallInv, FollowUpNames
<1>13. Uninstall!AbsenceIsReal'
    BY <1>1, <1>6 DEF Uninstall!AbsenceIsReal
<1> QED
    BY <1>1, <1>3, <1>7, <1>9, <1>10, <1>11, <1>12, <1>13, ObserverStep

\* What is read of a record that stands and matches is a matching entry.
LEMMA EntryMatches ==
    ASSUME UninstallInv, walk.at = "publisher", phase = "followUp",
           NEW seen, seen = uninstallRecord[Uninstall!Scope][walk.key] \cap {"publisher"},
           <<Uninstall!Scope, walk.key>> \in standing
    PROVE  Uninstall!Matches(walk.holds \cup seen)
<1>1. Uninstall!Matches(uninstallRecord[Uninstall!Scope][walk.key])
    BY DEF UninstallInv, RecordsFit, RecordAt
<1>2. "product" \in walk.holds
    BY DEF UninstallInv, ReadingFits
<1> QED  BY <1>1, <1>2 DEF Uninstall!Matches

LEMMA ReadPublisherKeepsUninstall ==
    ASSUME UninstallInv, Uninstall!ReadPublisher
    PROVE  UninstallInv'
<1>1. /\ Uninstall!Taking /\ walk.at = "publisher"
      /\ walk' = [walk EXCEPT !.at = "enum", !.index = walk.index + 1, !.key = 0,
                              !.holds = {}]
      /\ UNCHANGED <<path, uninstallRecord, uninstallExpected, backend, phase,
                     outcome, uninstallBefore, matched, disturbed>>
    BY DEF Uninstall!ReadPublisher
<1>2. PICK seen \in SUBSET {"publisher"} :
          /\ Uninstall!Read("publisher", seen)
          /\ \E e : /\ e = Uninstall!EntryRead(walk.holds \cup seen)
                   /\ IF phase = "baseline"
                      THEN /\ uninstallBaseline' = uninstallBaseline \cup {e}
                           /\ UNCHANGED followUp
                      ELSE /\ followUp' = followUp \cup {e}
                           /\ UNCHANGED uninstallBaseline
    BY DEF Uninstall!ReadPublisher
<1>0. PICK entry :
          /\ entry = Uninstall!EntryRead(walk.holds \cup seen)
          /\ IF phase = "baseline"
             THEN uninstallBaseline' = uninstallBaseline \cup {entry} /\ UNCHANGED followUp
             ELSE followUp' = followUp \cup {entry} /\ UNCHANGED uninstallBaseline
    BY <1>2
<1>3. /\ standing' \subseteq standing /\ changes' \in 0 .. MaxChanges
      /\ <<Uninstall!Scope, walk.key>> \in standing'
             => seen = uninstallRecord[Uninstall!Scope][walk.key] \cap {"publisher"}
    BY <1>2, ReadShows
<1>4. walk' = [at |-> "enum", source |-> walk.source, index |-> walk.index + 1,
               key |-> 0, holds |-> {}]
    BY <1>1 DEF UninstallInv, WalkFits
<1>5. /\ walk.source \in 1 .. 3 /\ walk.index \in Nat /\ outcome = "none"
      /\ phase \in {"baseline", "followUp"} /\ uninstallExpected # "none"
      /\ Uninstall!Scope \in Uninstall!Scopes
    BY <1>1, InTheWalk
<1>6. /\ walk.key \in Keys /\ walk.holds \in SUBSET Uninstall!Facts
      /\ Uninstall!Scope' = Uninstall!Scope
    BY <1>1, <1>4, <1>5, UninstallConstants
       DEF UninstallInv, WalkFits, InHand, Uninstall!Scope
<1>7. /\ entry \in Uninstall!Entries /\ entry.scope = Uninstall!Scope
      /\ entry.key = walk.key /\ entry.holds = walk.holds \cup seen
    <2>1. walk.holds \cup seen \in SUBSET Uninstall!Facts
        BY <1>6 DEF Uninstall!Facts
    <2>2. PICK h \in SUBSET Uninstall!Facts : h = walk.holds \cup seen
        BY <2>1
    <2>3. entry = [scope |-> Uninstall!Scope, key |-> walk.key, holds |-> h]
        BY <1>0, <2>2 DEF Uninstall!EntryRead
    <2> QED  BY <1>5, <1>6, <2>2, <2>3, UninstallConstants
<1>8. WalkFits'
    <2>1. walk.index + 1 \in Nat /\ walk.source \in 0 .. 3 /\ walk.source # 0
        BY <1>5
    <2>2. walk'.at = "enum" /\ walk'.source = walk.source /\ Uninstall!Taking'
        BY <1>1, <1>4 DEF Uninstall!Taking
    <2>3. walk' \in [at : {"idle", "view", "enum", "open", "product", "publisher"},
                     source : 0 .. 3, index : Nat, key : Keys \cup {0},
                     holds : SUBSET Uninstall!Facts]
        BY <1>4, <2>1
    <2> QED  BY <2>1, <2>2, <2>3 DEF WalkFits, InHand
<1>9. ASSUME NEW p \in uninstallBefore \cup standing, Passed(p)'
      PROVE  Passed(p) \/ p = <<Uninstall!Scope, walk.key>>
    <2> SUFFICES ASSUME PassedHere(p)', p # <<Uninstall!Scope, walk.key>>
                 PROVE  PassedHere(p)
        BY <1>4, <1>9 DEF Passed, PassedView
    <2>1. p[1] = Uninstall!Scope /\ IndexOf(p) < walk.index + 1
        BY <1>1, <1>4, <1>6, IndexKept DEF PassedHere, InHand
    <2>2. p = <<p[1], p[2]>> /\ IndexOf(p) \in Nat
        BY PlacesFit, PresentFits, RankIsNat DEF IndexOf
    <2>3. p[2] # walk.key
        BY <2>1, <2>2
    <2>4. IndexOf(p) < walk.index \/ IndexOf(p) = walk.index
        BY <1>5, <2>1, <2>2
    <2> QED  BY <1>1, <2>1, <2>3, <2>4 DEF PassedHere, InHand
<1>10. UninstallTyped'
    <2>1. /\ uninstallBaseline' \subseteq Uninstall!Entries
          /\ followUp' \subseteq Uninstall!Entries
        BY <1>0, <1>7 DEF UninstallInv, UninstallTyped
    <2> QED  BY <1>1, <1>3, <2>1 DEF UninstallInv, UninstallTyped
<1>11. BaselineNames'
    <2> SUFFICES ASSUME "baseline" \notin disturbed, NEW p \in uninstallBefore,
                        phase = "baseline" => Passed(p)'
                 PROVE  Named(p, uninstallBaseline)'
        BY <1>1, <1>5 DEF BaselineNames
    <2>1. uninstallBaseline \subseteq uninstallBaseline'
        BY <1>0
    <2>2. CASE phase = "baseline" /\ p = <<Uninstall!Scope, walk.key>>
        BY <1>0, <1>1, <1>7, <2>2 DEF Named
    <2>3. CASE phase = "baseline" /\ Passed(p)
        <3>1. Named(p, uninstallBaseline)
            BY <2>3 DEF UninstallInv, BaselineNames
        <3> QED  BY <2>1, <3>1 DEF Named
    <2>4. CASE phase # "baseline"
        <3>1. Named(p, uninstallBaseline)
            BY <1>5, <2>4 DEF UninstallInv, BaselineNames
        <3> QED  BY <2>1, <3>1 DEF Named
    <2> QED  BY <1>9, <2>2, <2>3, <2>4
<1>12. FollowUpNames'
    <2> SUFFICES ASSUME "followUp" \notin disturbed, NEW p \in standing',
                        phase = "followUp", Passed(p)'
                 PROVE  NamedAsMatch(p)'
        BY <1>1, <1>5 DEF FollowUpNames
    <2>1. p \in standing /\ followUp' = followUp \cup {entry}
        BY <1>0, <1>3
    <2>2. \A h : Uninstall!Matches(h)' <=> Uninstall!Matches(h)
        BY <1>1 DEF Uninstall!Matches
    <2>3. CASE p = <<Uninstall!Scope, walk.key>>
        <3>1. Uninstall!Matches(entry.holds)
            BY <1>1, <1>3, <1>7, <2>1, <2>3, EntryMatches
        <3> QED  BY <1>7, <2>1, <2>2, <2>3, <3>1 DEF NamedAsMatch
    <2>4. CASE Passed(p)
        <3>1. NamedAsMatch(p)
            BY <2>1, <2>4 DEF UninstallInv, FollowUpNames
        <3> QED  BY <2>1, <2>2, <3>1 DEF NamedAsMatch
    <2> QED  BY <1>9, <2>1, <2>3, <2>4
<1>13. PhasesFit' /\ ReadingFits' /\ Uninstall!AbsenceIsReal'
    BY <1>1, <1>4, <1>5 DEF PhasesFit, ReadingFits, Uninstall!AbsenceIsReal
<1> QED
    BY <1>1, <1>3, <1>8, <1>10, <1>11, <1>12, <1>13, ObserverStep

\* What matched or was there when a snapshot began.
LEMMA StandingFits ==
    /\ Uninstall!Standing(Uninstall!Matches) =
           {p \in Uninstall!Places : p[2] \in KeysOf[p[1]] /\ Uninstall!Matches(RecordAt(p))}
    /\ \A p \in Uninstall!Standing(Uninstall!Matches) : RecordAt(p) # {}
BY DEF Uninstall!Standing, Uninstall!Matches, RecordAt

LEMMA BeginKeepsUninstall ==
    ASSUME UninstallInv, Uninstall!BeginBaseline \/ Uninstall!BeginFollowUp
    PROVE  UninstallInv'
<1>1. /\ walk' = [at |-> "view", source |-> 1, index |-> 0, key |-> 0, holds |-> {}]
      /\ UNCHANGED <<path, uninstallRecord, changes, uninstallExpected, backend,
                     uninstallBaseline>>
      /\ disturbed' \subseteq disturbed
    BY DEF Uninstall!BeginBaseline, Uninstall!BeginFollowUp, Uninstall!Begin,
           Uninstall!registry, Uninstall!NoWalk
<1>2. \A s : ~PassedView(s)'
    BY <1>1 DEF PassedView
<1>3. \A p : ~Passed(p)'
    BY <1>1, <1>2 DEF Passed, PassedHere
<1>4. \A h : Uninstall!Matches(h)' <=> Uninstall!Matches(h)
    BY <1>1 DEF Uninstall!Matches
<1>5. CASE Uninstall!BeginBaseline
    <2>1. /\ uninstallExpected # "none" /\ phase = "none" /\ phase' = "baseline"
          /\ UNCHANGED <<followUp, outcome, standing>>
          /\ uninstallBefore' = {p \in Uninstall!Places :
                                     p[2] \in KeysOf[p[1]] /\ RecordAt(p) # {}}
          /\ matched' = Uninstall!Standing(Uninstall!Matches)
        BY <1>5 DEF Uninstall!BeginBaseline, Uninstall!Begin, Uninstall!Standing, RecordAt
    <2>2. outcome = "none"
        BY <2>1 DEF UninstallInv, PhasesFit
    <2>3. UninstallTyped'
        BY <1>1, <2>1 DEF UninstallInv, UninstallTyped
    <2>4. WalkFits'
        BY <1>1, <2>1 DEF WalkFits, InHand, Uninstall!Taking
    <2>5. RecordsFit'
        BY <1>1, <2>1, StandingFits
           DEF UninstallInv, RecordsFit, RecordAt, Uninstall!Matches
    <2>6. PhasesFit' /\ ReadingFits' /\ FollowUpNames' /\ BaselineNames'
          /\ Uninstall!AbsenceIsReal'
        BY <1>1, <1>3, <2>1, <2>2
           DEF PhasesFit, ReadingFits, FollowUpNames, BaselineNames,
               Uninstall!AbsenceIsReal
    <2> QED  BY <2>3, <2>4, <2>5, <2>6 DEF UninstallInv
<1>6. CASE Uninstall!BeginFollowUp
    <2>1. /\ phase = "between" /\ phase' = "followUp"
          /\ followUp' = {} /\ outcome' = "none"
          /\ disturbed' = disturbed \ {"followUp"}
          /\ standing' = Uninstall!Standing(Uninstall!Matches)
          /\ UNCHANGED <<uninstallBefore, matched>>
        BY <1>6 DEF Uninstall!BeginFollowUp, Uninstall!Begin
    <2>2. UninstallTyped'
        BY <1>1, <2>1 DEF UninstallInv, UninstallTyped
    <2>3. WalkFits'
        BY <1>1, <2>1 DEF WalkFits, InHand, Uninstall!Taking
    <2>4. RecordsFit'
        BY <1>1, <1>4, <2>1, StandingFits
           DEF UninstallInv, RecordsFit, RecordAt
    <2>5. PhasesFit'
        BY <1>1, <2>1 DEF UninstallInv, PhasesFit
    <2>6. BaselineNames'
        BY <1>1, <2>1 DEF UninstallInv, BaselineNames, Named
    <2>7. FollowUpNames' /\ ReadingFits' /\ Uninstall!AbsenceIsReal'
        BY <1>1, <1>3, <2>1
           DEF ReadingFits, FollowUpNames, Uninstall!AbsenceIsReal
    <2> QED  BY <2>2, <2>3, <2>4, <2>5, <2>6, <2>7 DEF UninstallInv
<1> QED  BY <1>5, <1>6

LEMMA EvaluateKeepsUninstall ==
    ASSUME UninstallInv, Uninstall!Evaluate
    PROVE  UninstallInv'
<1>1. /\ phase = "judge" /\ phase' = "between" /\ outcome' = Uninstall!Observation
      /\ UNCHANGED <<path, uninstallRecord, changes, uninstallExpected, backend, walk,
                     uninstallBaseline, followUp, uninstallBefore, matched, standing,
                     disturbed>>
    BY DEF Uninstall!Evaluate, Uninstall!registry, Uninstall!ghosts
<1>2. uninstallExpected # "none"
    BY <1>1 DEF UninstallInv, PhasesFit
<1>3. /\ Uninstall!Observation \in {"Installing", "AlreadyPresent",
             "ProductBoundRegistryEvidence", "CompletionUncertain"}
      /\ Uninstall!Observation \in {"Installing", "CompletionUncertain"} =>
             Uninstall!NewMatching = {}
    BY DEF Uninstall!Observation
<1>4. UninstallTyped'
    BY <1>1, <1>3 DEF UninstallInv, UninstallTyped
<1>5. WalkFits'
    BY <1>1 DEF UninstallInv, WalkFits, InHand, Uninstall!Taking, Uninstall!Scope
<1>6. PhasesFit' /\ ReadingFits' /\ FollowUpNames'
    BY <1>1, <1>2 DEF UninstallInv, PhasesFit, ReadingFits, FollowUpNames
<1>7. BaselineNames'
    BY <1>1 DEF UninstallInv, BaselineNames, Named
<1>8. Uninstall!AbsenceIsReal'
    <2> SUFFICES ASSUME Uninstall!NewMatching = {}, "followUp" \notin disturbed,
                        NEW p \in standing
                 PROVE  \E b \in uninstallBaseline : p = <<b.scope, b.key>>
        BY <1>1, <1>3 DEF Uninstall!AbsenceIsReal
    <2>1. PICK e \in followUp : p = <<e.scope, e.key>> /\ Uninstall!Matches(e.holds)
        BY <1>1 DEF UninstallInv, FollowUpNames, NamedAsMatch
    <2>2. PICK b \in uninstallBaseline : e.scope = b.scope /\ e.key = b.key
        BY <2>1 DEF Uninstall!NewMatching, Uninstall!SameIdentity
    <2> QED  BY <2>1, <2>2
<1> QED  BY <1>1, <1>4, <1>5, <1>6, <1>7, <1>8, ObserverStep

LEMMA UninstallStepKeepsInv ==
    UninstallInv /\ [Uninstall!Next]_uninstallVars => UninstallInv'
<1> SUFFICES ASSUME UninstallInv, [Uninstall!Next]_uninstallVars
             PROVE  UninstallInv'
    OBVIOUS
<1>1. CASE UNCHANGED uninstallVars
    <2>1. UninstallTyped'
        BY <1>1 DEF uninstallVars, UninstallInv, UninstallTyped
    <2>2. \A s \in Uninstall!Scopes : \A k \in KeysOf[s] :
              /\ uninstallRecord[s][k] \subseteq uninstallRecord'[s][k]
              /\ uninstallRecord'[s][k] # {} => path'[s]
        BY <1>1 DEF uninstallVars, UninstallInv, RecordsFit
    <2> QED  BY <1>1, <2>1, <2>2, GrowthKeepsUninstall DEF uninstallVars
<1>2. CASE Uninstall!Next
    BY <1>2, CreateKeepsUninstall, WriteKeepsUninstall, RemoveKeepsUninstall,
       AsideKeepsUninstall, BeginKeepsUninstall, OpenViewKeepsUninstall,
       EnumKeepsUninstall, OpenEntryKeepsUninstall, ReadProductKeepsUninstall,
       ReadPublisherKeepsUninstall, EvaluateKeepsUninstall
       DEF Uninstall!Next
<1> QED  BY <1>1, <1>2

\* A record the baseline should have named is no new one.
LEMMA UninstallIsSound ==
    UninstallInv =>
        Uninstall!TypeOK /\ Uninstall!FreshUnlessDisturbed /\ Uninstall!AbsenceIsReal
<1> SUFFICES ASSUME UninstallInv
             PROVE  Uninstall!TypeOK /\ Uninstall!FreshUnlessDisturbed
    BY DEF UninstallInv
<1>1. Uninstall!TypeOK
    <2>1. \A s \in Uninstall!Scopes : \A k \in KeysOf[s] :
              uninstallRecord[s][k] \in SUBSET Uninstall!Facts
        BY UninstallConstants DEF UninstallInv, UninstallTyped
    <2>2. /\ uninstallBefore \subseteq Uninstall!Places
          /\ matched \subseteq uninstallBefore /\ standing \subseteq Uninstall!Places
        BY DEF UninstallInv, RecordsFit
    <2>3. /\ walk.at \in {"idle", "view", "enum", "open", "product", "publisher"}
          /\ Uninstall!Taking <=> walk.at # "idle"
        BY DEF UninstallInv, WalkFits
    <2> QED
        BY <2>1, <2>2, <2>3 DEF UninstallInv, UninstallTyped, Uninstall!TypeOK
<1>2. Uninstall!FreshUnlessDisturbed
    <2> SUFFICES ASSUME outcome # "none", "baseline" \notin disturbed,
                        NEW e \in Uninstall!NewMatching,
                        <<e.scope, e.key>> \in uninstallBefore
                 PROVE  FALSE
        BY DEF Uninstall!FreshUnlessDisturbed, Uninstall!Claimed
    <2>1. phase = "between"
        BY DEF UninstallInv, PhasesFit
    <2>2. PICK b \in uninstallBaseline : <<e.scope, e.key>> = <<b.scope, b.key>>
        BY <2>1 DEF UninstallInv, BaselineNames, Named
    <2> QED  BY <2>2 DEF Uninstall!NewMatching, Uninstall!SameIdentity
<1> QED  BY <1>1, <1>2

-------------------------------------------------------------------------------
(***************************************************************************)
(* The parts.  A behaviour moves one of them, and the others rest.         *)
(***************************************************************************)
ProvingInv ==
    /\ Evidencing => EvidenceInv
    /\ part = "uninstall" => UninstallInv

LEMMA ProvingInit == PartsInit => ProvingInv
<1> SUFFICES ASSUME PartsInit PROVE ProvingInv
    OBVIOUS
<1>1. ASSUME Evidencing PROVE EvidenceInv
    BY <1>1, EvidenceInit DEF PartsInit, Evidencing
<1>2. ASSUME part = "uninstall" PROVE UninstallInv
    BY <1>2, UninstallInit DEF PartsInit
<1> QED  BY <1>1, <1>2 DEF ProvingInv

\* Whose turn it is moves, and nothing else.
LEMMA PartsMove ==
    ASSUME [PartsNext]_partsVars
    PROVE  /\ part' = part
           /\ Evidencing => [Evidence!Next]_evidenceVars
           /\ part = "uninstall" => [Uninstall!Next]_uninstallVars
<1>1. CASE EvidenceStep \/ EvidenceTwiceStep
    BY <1>1 DEF EvidenceStep, EvidenceTwiceStep, Turn, Evidencing
<1>2. CASE UninstallStep
    BY <1>2 DEF UninstallStep, Turn, Evidencing
<1>3. CASE HandingStep \/ HandingTwiceStep \/ SessionStep
    BY <1>3 DEF HandingStep, HandingTwiceStep, SessionStep, Turn, Evidencing
<1>4. CASE Rest \/ UNCHANGED partsVars
    BY <1>4 DEF Rest, partsVars
<1> QED  BY <1>1, <1>2, <1>3, <1>4 DEF PartsNext

LEMMA ProvingStep == ProvingInv /\ [PartsNext]_partsVars => ProvingInv'
<1> SUFFICES ASSUME ProvingInv, [PartsNext]_partsVars PROVE ProvingInv'
    OBVIOUS
<1>1. /\ part' = part /\ Evidencing' = Evidencing
      /\ Evidencing => [Evidence!Next]_evidenceVars
      /\ part = "uninstall" => [Uninstall!Next]_uninstallVars
    BY PartsMove DEF Evidencing
<1>2. ASSUME Evidencing PROVE EvidenceInv'
    BY <1>1, <1>2, EvidenceStepKeepsInv DEF ProvingInv
<1>3. ASSUME part = "uninstall" PROVE UninstallInv'
    BY <1>1, <1>3, UninstallStepKeepsInv DEF ProvingInv
<1> QED  BY <1>1, <1>2, <1>3 DEF ProvingInv

(* The evidence of an installation is sound, whatever packages there are,  *)
(* however many installations and runs, and whatever other programs do to  *)
(* the uninstall records of any number of subkeys.  Installed is written   *)
(* on the package manager's success and a healthy package, a stated        *)
(* failure as one (gui/install.rs confirmed_completion, backend.rs         *)
(* stated_failure); a record from before is no evidence, and one that is   *)
(* there is not passed over (win32.rs:38, uninstall.rs:37).                *)
THEOREM EvidenceHolds == PartsSpec => EvidenceIsSound
<1> DEFINE Proven ==
        Evidence!TypeOK /\ Evidence!InstalledIsProven /\ Evidence!StatedFailureIsFailed
    Told == Uninstall!TypeOK /\ Uninstall!FreshUnlessDisturbed /\ Uninstall!AbsenceIsReal
<1>1. ProvingInv => (Evidencing => Proven)
    BY DEF ProvingInv, EvidenceInv
<1>2. ProvingInv => (part = "uninstall" => Told)
    BY UninstallIsSound DEF ProvingInv
<1>3. ProvingInv /\ [PartsNext]_partsVars
        => [Evidencing => Evidence!EndsWithOutcome]_evidenceVars
    BY PartsMove, EndsStep DEF ProvingInv
<1> QED
    BY <1>1, <1>2, <1>3, ProvingInit, ProvingStep, PTL DEF PartsSpec, EvidenceIsSound

-------------------------------------------------------------------------------
(***************************************************************************)
(* The window's session. What is proved of the module by itself holds of   *)
(* the part, with the window's constants and variables for its own.        *)
(***************************************************************************)
Proved == INSTANCE WindowSession_proofs WITH
    Regions <- SessionRegions, region <- sessionRegion,
    record <- sessionRecord, shown <- sessionShown, admits <- sessionAdmits,
    owed <- sessionOwed

\* The two instances are of one module.
LEMMA OneSession ==
    /\ Proved!SessionAssumption <=> Session!SessionAssumption
    /\ Proved!Init <=> Session!Init
    /\ [Proved!Next]_(Proved!vars) <=> [Session!Next]_sessionVars
    /\ Proved!TypeOK <=> Session!TypeOK
    /\ Proved!OneHolder <=> Session!OneHolder
    /\ Proved!DecisionIsAlone <=> Session!DecisionIsAlone
    /\ Proved!OneOperationIsCovered <=> Session!OneOperationIsCovered
    /\ Proved!RunningIsReal <=> Session!RunningIsReal
BY DEF sessionVars,
       Session!Ops, Session!DurableStates, Session!Records,
       Session!SessionAssumption, Session!Kinds, Session!Updates, Session!Final,
       Session!vars,
       Session!messages, Session!window, Session!Steps, Session!Holding,
       Session!Reasons, Session!Dialogues, Session!Recovery,
       Session!NoRecovery, Session!NotBegun, Session!SameIdentity,
       Session!Published, Session!NotPublished, Session!Cleared,
       Session!OriginalActive, Session!Inspects, Session!Answers,
       Session!Admits, Session!Writes, Session!RegionKept, Session!Update,
       Session!Failure, Session!Deadline, Session!NotFollowed, Session!Post,
       Session!Silent, Session!At, Session!Goto, Session!Knows,
       Session!Restore, Session!ThreadOnly, Session!ReadOriginal,
       Session!SavePrepared, Session!Publish, Session!WriteTemporary,
       Session!ReadBack, Session!Drop, Session!AskAfterTimeout, Session!Work,
       Session!WriteOriginal, Session!GiveUp, Session!ConfirmOriginal,
       Session!MarkRestored, Session!ClearRecord, Session!Resume,
       Session!ThreadStep, Session!WindowOnly, Session!BeginInstallation,
       Session!ApplyInstallationUpdate, Session!HoldUntilModalEnds,
       Session!PostAgain, Session!OpenDialogue, Session!EndDialogue,
       Session!BeginRecovery, Session!AnswerDeadline,
       Session!RequestWindowClose, Session!AnswerClosing, Session!Recovered,
       Session!Goes, Session!Carries, Session!RecoverRegion, Session!Reinspect,
       Session!ProcessEnds, Session!Init, Session!Handles, Session!Returns,
       Session!Next, Session!ThreadStates, Session!TypeOK, Session!Holds,
       Session!Works, Session!OneHolder, Session!DecisionIsAlone,
       Session!Covered, Session!OneOperationIsCovered, Session!RunningIsReal,
       Proved!Ops, Proved!DurableStates, Proved!Records,
       Proved!SessionAssumption, Proved!Kinds, Proved!Updates, Proved!Final,
       Proved!vars,
       Proved!messages, Proved!window, Proved!Steps, Proved!Holding,
       Proved!Reasons, Proved!Dialogues, Proved!Recovery, Proved!NoRecovery,
       Proved!NotBegun, Proved!SameIdentity, Proved!Published,
       Proved!NotPublished, Proved!Cleared, Proved!OriginalActive,
       Proved!Inspects, Proved!Answers, Proved!Admits, Proved!Writes,
       Proved!RegionKept, Proved!Update, Proved!Failure, Proved!Deadline,
       Proved!NotFollowed, Proved!Post, Proved!Silent, Proved!At, Proved!Goto,
       Proved!Knows, Proved!Restore, Proved!ThreadOnly, Proved!ReadOriginal,
       Proved!SavePrepared, Proved!Publish, Proved!WriteTemporary,
       Proved!ReadBack, Proved!Drop, Proved!AskAfterTimeout, Proved!Work,
       Proved!WriteOriginal, Proved!GiveUp, Proved!ConfirmOriginal,
       Proved!MarkRestored, Proved!ClearRecord, Proved!Resume,
       Proved!ThreadStep, Proved!WindowOnly, Proved!BeginInstallation,
       Proved!ApplyInstallationUpdate, Proved!HoldUntilModalEnds,
       Proved!PostAgain, Proved!OpenDialogue, Proved!EndDialogue,
       Proved!BeginRecovery, Proved!AnswerDeadline, Proved!RequestWindowClose,
       Proved!AnswerClosing, Proved!Recovered, Proved!Goes, Proved!Carries,
       Proved!RecoverRegion, Proved!Reinspect, Proved!ProcessEnds, Proved!Init,
       Proved!Handles, Proved!Returns, Proved!Next, Proved!ThreadStates,
       Proved!TypeOK, Proved!Holds, Proved!Works, Proved!OneHolder,
       Proved!DecisionIsAlone, Proved!Covered, Proved!OneOperationIsCovered,
       Proved!RunningIsReal

LEMMA SessionMoves ==
    ASSUME part = "session", [PartsNext]_partsVars
    PROVE  part' = "session" /\ [Session!Next]_sessionVars
<1>1. CASE SessionStep
    BY <1>1 DEF SessionStep, Turn
<1>2. CASE HandingStep \/ HandingTwiceStep \/ EvidenceStep \/ EvidenceTwiceStep
           \/ UninstallStep
    BY <1>2 DEF HandingStep, HandingTwiceStep, EvidenceStep, EvidenceTwiceStep,
           UninstallStep, Turn
<1>3. CASE Rest \/ UNCHANGED partsVars
    BY <1>3 DEF Rest, partsVars
<1> QED  BY <1>1, <1>2, <1>3 DEF PartsNext

(* Beside any number of operations, over any regions and with any room for *)
(* messages, one operation holds the region at a time, the recovery that a *)
(* deadline's answer sets off has it to itself, the region of a lone       *)
(* operation is named by the published record while the window is open,    *)
(* and an operation shown as running has a thread or a message on its way, *)
(* unless a message posted again came after its end (install.rs:734,       *)
(* store.rs:83, window.rs:468, :616, :1457, state.rs:94).                  *)
THEOREM SessionHolds == PartsSpec => []SessionIsCovered
<1> DEFINE Chosen == part = "session"
<1>1. Proved!SessionAssumption
    BY PartsFit, OneSession
<1>2. Proved!Spec => []Proved!TypeOK
    BY <1>1, Proved!SessionTypes
<1>3. Proved!Spec => []Proved!OneHolder
    BY <1>1, Proved!RegionHasOneHolder
<1>4. Proved!Spec => []Proved!DecisionIsAlone
    BY <1>1, Proved!DecisionsAreAlone
<1>5. Proved!Spec => []Proved!OneOperationIsCovered
    BY <1>1, Proved!SingleOperationIsCovered
<1>6. Proved!Spec => []Proved!RunningIsReal
    BY <1>1, Proved!RunningHasAThread
<1>7. PartsInit /\ Chosen => Proved!Init
    BY OneSession DEF PartsInit, SessionBegins
<1>8. Chosen /\ [PartsNext]_partsVars => Chosen' /\ [Proved!Next]_(Proved!vars)
    BY SessionMoves, OneSession
<1>9. ~Chosen /\ [PartsNext]_partsVars => ~Chosen'
    BY PartsMove
<1>10. Proved!TypeOK /\ Proved!OneHolder /\ Proved!DecisionIsAlone
           /\ Proved!OneOperationIsCovered /\ Proved!RunningIsReal => SessionIsCovered
    BY OneSession DEF SessionIsCovered
<1>11. ~Chosen => SessionIsCovered
    BY DEF SessionIsCovered
<1> QED
    BY <1>2, <1>3, <1>4, <1>5, <1>6, <1>7, <1>8, <1>9, <1>10, <1>11, PTL
       DEF PartsSpec, Proved!Spec
===============================================================================
