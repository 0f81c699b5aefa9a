------------------------- MODULE WindowSession_proofs -------------------------
(***************************************************************************)
(* What the window keeps beside the threads of its operations, proved for  *)
(* any regions, any number of operations and any room for messages.        *)
(* A thread's step is first reduced to what it says and what it does to    *)
(* the record; each layer of the invariant is then argued over such moves. *)
(***************************************************************************)
EXTENDS WindowSession, TLAPS, SequenceTheorems

Open == ui \notin {"leaving", "closed"}

\* Whether a queue holds the end of an operation, and whether it calls for the
\* question of a deadline.
NoFinal(q) == \A i \in 1 .. Len(q) : ~Final(q[i])
OneFinal(q) == \A i, j \in 1 .. Len(q) : Final(q[i]) /\ Final(q[j]) => i = j
Asks(q) == \E i \in 1 .. Len(q) : q[i].awaiting

\* What is left to do once the region is back early, and where a reason to put
\* it back is known.
AfterReturn == {"working", "clearing", "over"}
Returning == {"restoring", "readingBack", "marking"}

\* A thread that has told how it ends and goes on to put the region back or to
\* remove its record; any other that works is yet to tell it.
Told(t) ==
    \/ threads[t].pc \in Returning /\ threads[t].why = "unwind"
    \/ threads[t].pc = "clearing" /\ threads[t].why # "rollback"
Live(t) == Works(t) /\ ~Told(t)

\* The window has the record and the region to itself.
Alone == \/ ui \in {"deciding", "reinspecting"}
         \/ ui \in Recovery /\ ~recovering.exits

\* A thread that was begun works for its own operation.
ThreadFits(t) ==
    /\ threads[t].pc = "none" <=> t > ops
    /\ threads[t].pc = "none" => threads[t] = NotBegun
    /\ threads[t].pc # "none" => threads[t].mine \in Records /\ threads[t].mine.op = t
    /\ threads[t].early = "done" =>
           threads[t].why = "early" /\ threads[t].pc \in AfterReturn
    /\ threads[t].pc \in Returning => threads[t].why # "none"

RecoveryFits == ui \in Recovery => recovering.record \in Records

\* Only operations that were begun leave records.
RecordsBegun ==
    /\ record # NoRecord => record.op <= ops
    /\ ui \in Recovery => recovering.record.op <= ops

\* An operation tells its end once: the window waits for one thread, or for one
\* message, and neither while it waits for nothing.
OneVoice ==
    Open => /\ \A s, t \in Ops : Live(s) /\ Live(t) => s = t
            /\ \A t \in Ops : Live(t) => NoFinal(posted) /\ NoFinal(setAside) /\ running
            /\ OneFinal(posted) /\ OneFinal(setAside)
            /\ NoFinal(posted) \/ NoFinal(setAside)
            /\ ~running => NoFinal(posted) /\ NoFinal(setAside)
            /\ setAside # <<>> => ui \in Dialogues

\* A question is asked only of a thread that ended.
AskedAlone ==
    Open /\ (Alone \/ Asks(posted) \/ Asks(setAside)) => \A t \in Ops : ~Works(t)

DecidedLast == Open /\ Alone => NoFinal(posted) /\ NoFinal(setAside)

\* Who holds the region is named by the published record.
HoldersRecorded ==
    Open => \A t \in Ops :
                Holds(t) => record # NoRecord /\ SameIdentity(record, threads[t].mine)

\* Unless it was overtaken, an end is the last message of its queue, and whatever
\* is shown as running has a thread that will tell its end, or told it.
EndIsLast(q) == \A i \in 1 .. Len(q) : Final(q[i]) => i = Len(q)

RealInv ==
    ~overtaken /\ Open =>
        /\ running => \/ \E t \in Ops : Live(t)
                      \/ ~NoFinal(posted) \/ ~NoFinal(setAside)
                      \/ Alone
        /\ ~running \/ Alone => posted = <<>> /\ setAside = <<>>
        /\ EndIsLast(posted) /\ EndIsLast(setAside)
        /\ ~NoFinal(setAside) => posted = <<>>
        /\ ui = "reinspecting" => ~running

First == threads[1].mine
Unpublished == {"reading", "saving", "publishing"}

\* While one operation was begun, its record says what the region was, what is
\* owed is what the record says, and it is back where the code read it back.
CoveredInv ==
    /\ ops = 0 => owed = NoRegion /\ record = NoRecord
    /\ ops = 1 /\ Open =>
           /\ owed = IF region = First.original THEN NoRegion ELSE First.original
           /\ record # NoRecord => SameIdentity(record, First)
           /\ ui \in Recovery => /\ SameIdentity(recovering.record, First)
                                 /\ threads[1].pc \notin Unpublished
           /\ threads[1].pc \in Unpublished => region = First.original /\ record = NoRecord
           /\ \/ threads[1].pc \in {"marking", "clearing", "dropping"}
              \/ threads[1].early = "done"
              \/ ui \in {"mark", "clear"} /\ ~recovering.exits
              => region = First.original
           /\ owed # NoRegion => record # NoRecord

TypeInv == TypeOK /\ (\A t \in Ops : ThreadFits(t)) /\ RecoveryFits /\ RecordsBegun
SessionInv == OneVoice /\ AskedAlone /\ DecidedLast /\ HoldersRecorded

-----------------------------------------------------------------------------
(* Types, in pieces.                                                       *)

WorldType == /\ region \in Regions /\ record \in Records \cup {NoRecord}
             /\ owed \in Regions \cup {NoRegion}
ThreadsType == /\ threads \in [Ops -> ThreadStates] /\ ops \in 0 .. MaxOperations
               /\ \A t \in Ops : ThreadFits(t)
MessagesType == /\ posted \in Seq(Updates) /\ setAside \in Seq(Updates)
                /\ Len(posted) + Len(setAside) <= MaxPosted
WindowType ==
    /\ ui \in Dialogues \cup Recovery \cup {"idle", "reinspecting", "leaving", "closed"}
    /\ recovering \in [record: Records \cup {NoRecord},
                       agreed: Regions \cup {NoRegion}, exits: BOOLEAN]
    /\ shown \in [kind: Kinds, failed: BOOLEAN]
    /\ running \in BOOLEAN /\ admits \in BOOLEAN /\ overtaken \in BOOLEAN
    /\ RecoveryFits

LEMMA TypePieces ==
    TypeInv <=> WorldType /\ ThreadsType /\ MessagesType /\ WindowType /\ RecordsBegun
BY DEF TypeInv, TypeOK, WorldType, ThreadsType, MessagesType, WindowType

LEMMA TypePiecesNext ==
    (TypeInv)' <=>
        WorldType' /\ ThreadsType' /\ MessagesType' /\ WindowType' /\ RecordsBegun'
BY DEF TypeInv, TypeOK, WorldType, ThreadsType, MessagesType, WindowType

\* A later milestone of a record is a record.
LEMMA MilestoneTyped ==
    ASSUME NEW r \in Records, NEW s \in DurableStates
    PROVE  /\ [r EXCEPT !.state = s] \in Records
           /\ SameIdentity([r EXCEPT !.state = s], r)
           /\ [r EXCEPT !.state = s].op = r.op
           /\ [r EXCEPT !.state = s].original = r.original
           /\ [r EXCEPT !.state = s].temporary = r.temporary
BY DEF Records, SameIdentity

\* What becomes of the thread that takes a step; the others keep still.
Becomes(t, pc, mine, why, early) ==
    /\ threads' \in [Ops -> ThreadStates]
    /\ threads'[t].pc = pc /\ threads'[t].mine = mine
    /\ threads'[t].why = why /\ threads'[t].early = early
    /\ \A s \in Ops \ {t} : threads'[s] = threads[s]

LEMMA GotoBecomes ==
    ASSUME ThreadsType, NEW t \in Ops, NEW step \in Steps, Goto(t, step)
    PROVE  Becomes(t, step, threads[t].mine, threads[t].why, threads[t].early)
BY DEF ThreadsType, ThreadStates, Goto, Becomes

LEMMA KnowsBecomes ==
    ASSUME ThreadsType, NEW t \in Ops, NEW step \in Steps, NEW r \in Records,
           Knows(t, step, r)
    PROVE  Becomes(t, step, r, threads[t].why, threads[t].early)
BY DEF ThreadsType, ThreadStates, Knows, Becomes

LEMMA RestoreBecomes ==
    ASSUME ThreadsType, NEW t \in Ops, NEW why \in Reasons, Restore(t, why)
    PROVE  Becomes(t, "restoring", threads[t].mine, why, threads[t].early)
BY DEF ThreadsType, ThreadStates, Restore, Becomes, Steps

LEMMA BecomesFits ==
    ASSUME ThreadsType, UNCHANGED ops,
           NEW t \in Ops, NEW pc \in Steps \ {"none"}, NEW mine \in Records,
           NEW why, NEW early, mine.op = t, threads[t].pc # "none",
           early = "done" => why = "early" /\ pc \in AfterReturn,
           pc \in Returning => why # "none",
           Becomes(t, pc, mine, why, early)
    PROVE  ThreadsType'
BY DEF ThreadsType, ThreadFits, Becomes

-----------------------------------------------------------------------------
(* A thread's step keeps the types.                                        *)

LEMMA UpdatesTyped ==
    /\ \A k \in Kinds \ {"none"} :
           Update(k) \in Updates /\ Failure(k) \in Updates
    /\ Deadline \in Updates /\ NotFollowed \in Updates
    /\ <<Update("before"), Update("covered")>> \in Seq(Updates)
    /\ \A u \in Updates : <<u>> \in Seq(Updates)
<1>1. /\ \A k \in Kinds \ {"none"} :
             Update(k) \in Updates /\ Failure(k) \in Updates
      /\ Deadline \in Updates /\ NotFollowed \in Updates
  BY DEF Updates, Kinds, Update, Failure, Deadline, NotFollowed
<1>2. Update("before") \in Updates /\ Update("covered") \in Updates
  BY <1>1 DEF Kinds
<1> QED
  BY <1>1, <1>2

LEMMA PostTyped ==
    ASSUME MessagesType, NEW q \in Seq(Updates), Post(q)
    PROVE  MessagesType'
<1>1. CASE UNCHANGED messages
  BY <1>1 DEF MessagesType, messages
<1>2. CASE posted' = posted \o q /\ UNCHANGED setAside
           /\ Len(posted) + Len(setAside) + Len(q) <= MaxPosted
  <2>1. posted \o q \in Seq(Updates) /\ Len(posted \o q) = Len(posted) + Len(q)
    BY ConcatProperties DEF MessagesType
  <2>2. Len(posted) \in Nat /\ Len(setAside) \in Nat /\ Len(q) \in Nat
    BY LenProperties DEF MessagesType
  <2> QED
    BY <1>2, <2>1, <2>2 DEF MessagesType
<1> QED
  BY <1>1, <1>2 DEF Post

LEMMA PostsTyped ==
    ASSUME MessagesType
    PROVE  /\ \A u \in Updates : Post(<<u>>) => MessagesType'
           /\ Post(<<Update("before"), Update("covered")>>) => MessagesType'
           /\ Silent => MessagesType'
BY PostTyped, UpdatesTyped DEF Silent, messages, MessagesType

LEMMA WritesTyped ==
    ASSUME WorldType, NEW r \in Regions, Writes(r), UNCHANGED record
    PROVE  WorldType'
BY DEF WorldType, Writes

LEMMA RecordTyped ==
    ASSUME WorldType, RegionKept, NEW r \in Records,
           Published(r) \/ NotPublished(r) \/ Cleared(r) \/ UNCHANGED record
    PROVE  WorldType'
BY DEF WorldType, RegionKept, Published, NotPublished, Cleared

\* What GiveUp makes of its thread.
LEMMA GiveUpBecomes ==
    ASSUME ThreadsType, NEW t \in Ops, GiveUp(t)
    PROVE  \/ /\ threads[t].why = "early" /\ Silent
              /\ Becomes(t, "working", threads[t].mine, "early", "tried")
           \/ /\ threads[t].why = "unwind" /\ Silent
              /\ Becomes(t, "over", threads[t].mine, "unwind", threads[t].early)
           \/ /\ threads[t].why \notin {"early", "unwind"}
              /\ Post(<<Failure("covered")>>)
              /\ Becomes(t, "over", threads[t].mine, threads[t].why, threads[t].early)
<1>1. "over" \in Steps
  BY DEF Steps
<1>2. CASE threads[t].why = "early"
  BY <1>2 DEF GiveUp, Becomes, ThreadsType, ThreadStates, Steps
<1>3. CASE threads[t].why # "early"
  BY <1>1, <1>3, GotoBecomes DEF GiveUp
<1> QED
  BY <1>2, <1>3

\* What MarkRestored makes of its thread and the record.
Marked(t) ==
    [threads[t].mine EXCEPT !.state =
        IF threads[t].why = "early" THEN "RegionRestoredEarly" ELSE "Restored"]

LEMMA MarkBecomes ==
    ASSUME ThreadsType, NEW t \in Ops, threads[t].mine \in Records, MarkRestored(t)
    PROVE  /\ Marked(t) \in Records /\ Marked(t).op = threads[t].mine.op
           /\ SameIdentity(Marked(t), threads[t].mine)
           /\ \/ /\ Published(Marked(t)) /\ threads[t].why = "early"
                 /\ Becomes(t, "working", Marked(t), "early", "done")
                 /\ Post(<<Update("covered")>>)
              \/ /\ Published(Marked(t)) /\ threads[t].why # "early"
                 /\ Becomes(t, "clearing", Marked(t), threads[t].why, threads[t].early)
                 /\ IF threads[t].why = "outcome" THEN Post(<<Update("over")>>) ELSE Silent
              \/ NotPublished(Marked(t)) /\ GiveUp(t)
<1>1. /\ Marked(t) \in Records /\ Marked(t).op = threads[t].mine.op
      /\ SameIdentity(Marked(t), threads[t].mine)
  BY MilestoneTyped DEF Marked, DurableStates
<1>2. CASE /\ threads[t].why = "early" /\ Published(Marked(t)) /\ Post(<<Update("covered")>>)
           /\ threads' = [threads EXCEPT ![t].pc = "working", ![t].mine = Marked(t),
                                         ![t].early = "done"]
  <2> DEFINE now == [threads[t] EXCEPT !.pc = "working", !.mine = Marked(t), !.early = "done"]
  <2>1. threads[t] \in ThreadStates /\ threads \in [Ops -> ThreadStates]
    BY DEF ThreadsType
  <2>2. /\ now \in ThreadStates /\ now.pc = "working" /\ now.mine = Marked(t)
        /\ now.why = "early" /\ now.early = "done"
    BY <1>1, <1>2, <2>1 DEF ThreadStates, Steps
  <2>3. threads' = [threads EXCEPT ![t] = now]
    BY <1>2
  <2> HIDE DEF now
  <2>4. Becomes(t, "working", Marked(t), "early", "done")
    BY <2>1, <2>2, <2>3 DEF Becomes
  <2> QED
    BY <1>1, <1>2, <2>4
<1>3. CASE /\ threads[t].why # "early" /\ Published(Marked(t))
           /\ Knows(t, "clearing", Marked(t))
           /\ IF threads[t].why = "outcome" THEN Post(<<Update("over")>>) ELSE Silent
  <2>1. "clearing" \in Steps
    BY DEF Steps
  <2> QED
    BY <1>1, <1>3, <2>1, KnowsBecomes
<1>4. CASE NotPublished(Marked(t)) /\ GiveUp(t)
  BY <1>1, <1>4
<1> QED
  BY <1>2, <1>3, <1>4 DEF MarkRestored, Marked

\* A thread at work was begun, and for itself.
LEMMA WorksFits ==
    ASSUME ThreadsType, NEW t \in Ops, ThreadStep(t)
    PROVE  /\ threads[t].pc # "none" /\ threads[t].mine \in Records
           /\ threads[t].mine.op = t
           /\ threads[t].early = "done" =>
                  threads[t].why = "early" /\ threads[t].pc \in AfterReturn
           /\ threads[t].pc \in Returning => threads[t].why # "none"
BY DEF ThreadStep, ReadOriginal, SavePrepared, Publish, WriteTemporary, ReadBack, Drop,
       Work, WriteOriginal, ConfirmOriginal, MarkRestored, ClearRecord, Resume, At,
       ThreadsType, ThreadFits

LEMMA MessagesKept ==
    ASSUME MessagesType, UNCHANGED messages
    PROVE  MessagesType'
BY DEF MessagesType, messages

LEMMA ThreadTypes ==
    ASSUME TypeInv, NEW t \in Ops, ThreadStep(t)
    PROVE  (TypeInv)'
<1>0. WorldType /\ ThreadsType /\ MessagesType /\ WindowType /\ RecordsBegun
  BY TypePieces
<1>1. /\ threads[t].pc # "none" /\ threads[t].mine \in Records
      /\ threads[t].mine.op = t
      /\ threads[t].early = "done" =>
             threads[t].why = "early" /\ threads[t].pc \in AfterReturn
      /\ threads[t].pc \in Returning => threads[t].why # "none"
  BY <1>0, WorksFits
<1>2. UNCHANGED ops /\ UNCHANGED window
  BY DEF ThreadStep, ReadOriginal, SavePrepared, Publish, WriteTemporary, ReadBack,
         Drop, Work, WriteOriginal, ConfirmOriginal, MarkRestored, ClearRecord, Resume,
         ThreadOnly
<1>3. WindowType'
  BY <1>0, <1>2 DEF WindowType, window, RecoveryFits
<1>4. ASSUME NEW pc \in Steps \ {"none"}, Goto(t, pc),
             threads[t].early = "done" => pc \in AfterReturn,
             pc \in Returning => threads[t].pc \in Returning
      PROVE  ThreadsType'
  BY <1>0, <1>1, <1>2, <1>4, GotoBecomes, BecomesFits
<1>5. ASSUME NEW why \in Reasons \ {"none"}, Restore(t, why), threads[t].early # "done"
      PROVE  ThreadsType'
  BY <1>0, <1>1, <1>2, <1>5, RestoreBecomes, BecomesFits DEF Steps, Returning
<1>6. ASSUME GiveUp(t)
      PROVE  ThreadsType' /\ MessagesType'
  BY <1>0, <1>1, <1>2, <1>6, GiveUpBecomes, BecomesFits, PostsTyped, UpdatesTyped
  DEF Steps, Kinds, AfterReturn, Returning
<1>7. UNCHANGED <<region, owed>> /\ UNCHANGED record => WorldType'
  BY <1>0 DEF WorldType
<1>8. WorldType'
  <2>1. threads[t].mine.temporary \in Regions /\ threads[t].mine.original \in Regions
    BY <1>1 DEF Records
  <2>2. CASE WriteTemporary(t) \/ WriteOriginal(t)
    BY <1>0, <2>1, <2>2, WritesTyped DEF WriteTemporary, WriteOriginal
  <2>3. CASE Publish(t) \/ Drop(t) \/ ClearRecord(t)
    BY <1>0, <1>1, <2>3, RecordTyped DEF Publish, Drop, ClearRecord
  <2>4. CASE MarkRestored(t)
    <3>1. RegionKept
      BY <2>4 DEF MarkRestored
    <3> QED
      BY <1>0, <1>1, <2>4, <3>1, MarkBecomes, RecordTyped
  <2>5. CASE ReadOriginal(t) \/ SavePrepared(t) \/ ReadBack(t) \/ Work(t)
             \/ ConfirmOriginal(t) \/ Resume(t)
    BY <1>7, <2>5
    DEF ReadOriginal, SavePrepared, ReadBack, Work, ConfirmOriginal, Resume, RegionKept
  <2> QED
    BY <2>2, <2>3, <2>4, <2>5 DEF ThreadStep
<1>9. MessagesType'
  <2>1. /\ Update("covered") \in Updates /\ Update("over") \in Updates
        /\ Failure("before") \in Updates /\ Failure("covered") \in Updates
        /\ Deadline \in Updates /\ NotFollowed \in Updates
    BY UpdatesTyped DEF Kinds
  <2>2. CASE ReadOriginal(t) \/ SavePrepared(t) \/ Publish(t) \/ WriteTemporary(t)
             \/ ReadBack(t)
    BY <1>0, <2>1, <2>2, PostsTyped
    DEF ReadOriginal, SavePrepared, Publish, WriteTemporary, ReadBack
  <2>3. CASE Drop(t) \/ Work(t) \/ WriteOriginal(t) \/ ClearRecord(t) \/ Resume(t)
    BY <1>0, <2>1, <2>3, PostsTyped
    DEF Drop, Work, AskAfterTimeout, WriteOriginal, ClearRecord, Resume
  <2>4. CASE ConfirmOriginal(t)
    BY <1>0, <1>6, <2>4, PostsTyped DEF ConfirmOriginal
  <2>5. CASE MarkRestored(t)
    BY <1>0, <1>1, <1>6, <2>1, <2>5, PostsTyped, MarkBecomes
  <2> QED
    BY <2>2, <2>3, <2>4, <2>5 DEF ThreadStep
<1>10. ThreadsType'
  <2>1. CASE ReadOriginal(t)
    <3>1. CASE Goto(t, "over")
      BY <1>4, <3>1 DEF Steps, AfterReturn, Returning
    <3>2. CASE threads' = [threads EXCEPT ![t].pc = "saving", ![t].mine.original = region]
      <4> DEFINE read == [threads[t].mine EXCEPT !.original = region]
      <4>1. read \in Records /\ read.op = t
        BY <1>0, <1>1 DEF WorldType, Records
      <4>2. threads' = [threads EXCEPT ![t] = [threads[t] EXCEPT !.pc = "saving",
                                                                !.mine = read]]
        BY <3>2
      <4>3. Becomes(t, "saving", read, threads[t].why, threads[t].early)
        BY <1>0, <4>1, <4>2 DEF ThreadsType, ThreadStates, Becomes, Steps
      <4> QED
        BY <1>0, <1>1, <1>2, <2>1, <4>1, <4>3, BecomesFits
        DEF Steps, ReadOriginal, At, AfterReturn, Returning
    <3> QED
      BY <2>1, <3>1, <3>2 DEF ReadOriginal
  <2>2. CASE SavePrepared(t) \/ Publish(t) \/ WriteTemporary(t) \/ Drop(t)
             \/ WriteOriginal(t) \/ ClearRecord(t) \/ Resume(t)
    BY <1>1, <1>4, <2>2
    DEF SavePrepared, Publish, WriteTemporary, Drop, WriteOriginal, ClearRecord, Resume,
        At, Steps, AfterReturn, Returning
  <2>3. CASE ReadBack(t)
    <3>1. CASE Restore(t, "rollback")
      BY <1>1, <1>5, <2>3, <3>1 DEF ReadBack, At, Reasons, AfterReturn, Returning
    <3> QED
      BY <1>1, <1>4, <2>3, <3>1 DEF ReadBack, At, Steps, AfterReturn, Returning
  <2>4. CASE Work(t)
    BY <1>4, <1>5, <2>4 DEF Work, AskAfterTimeout, Steps, Reasons, AfterReturn, Returning
  <2>5. CASE ConfirmOriginal(t)
    BY <1>1, <1>4, <1>6, <2>5 DEF ConfirmOriginal, At, Steps, AfterReturn, Returning
  <2>6. CASE MarkRestored(t)
    <3>1. \/ Becomes(t, "working", Marked(t), "early", "done")
          \/ Becomes(t, "clearing", Marked(t), threads[t].why, threads[t].early)
          \/ GiveUp(t)
      BY <1>0, <1>1, <2>6, MarkBecomes
    <3>2. Marked(t) \in Records /\ Marked(t).op = t
      BY <1>0, <1>1, <2>6, MarkBecomes
    <3> QED
      BY <1>0, <1>1, <1>2, <1>6, <3>1, <3>2, BecomesFits DEF Steps, AfterReturn, Returning
  <2> QED
    BY <2>1, <2>2, <2>3, <2>4, <2>5, <2>6 DEF ThreadStep
<1>11. RecordsBegun'
  <2>1. threads[t].mine.op <= ops
    BY <1>0, <1>1 DEF ThreadsType, ThreadFits, Ops
  <2>2. \/ record' \in {record, NoRecord}
        \/ record'.op = threads[t].mine.op
    BY <1>0, <1>1, MarkBecomes
    DEF ThreadStep, ReadOriginal, SavePrepared, Publish, WriteTemporary, ReadBack, Drop,
        Work, WriteOriginal, ConfirmOriginal, MarkRestored, ClearRecord, Resume,
        Published, NotPublished, Cleared
  <2> QED
    BY <1>0, <1>2, <2>1, <2>2 DEF RecordsBegun, window
<1> QED
  BY <1>3, <1>8, <1>9, <1>10, <1>11, TypePiecesNext

-----------------------------------------------------------------------------
(* The window's steps keep the types.                                      *)

\* An inspection leaves the record or removes it, and what it says of one it
\* leaves is so.
LEMMA Inspected ==
    ASSUME NEW answer \in Answers, Inspects(answer)
    PROVE  /\ record' \in {record, NoRecord}
           /\ answer = "decide" => record # NoRecord /\ UNCHANGED record
           /\ answer \notin {"none", "cleaned"} => UNCHANGED record
           /\ record' # record => answer = "cleaned" /\ OriginalActive
BY DEF Inspects, Answers

LEMMA KeptTyped == ASSUME WorldType, RegionKept, record' \in {record, NoRecord} PROVE WorldType'
BY DEF WorldType, RegionKept

LEMMA ThreadsKept == ASSUME ThreadsType, UNCHANGED <<threads, ops>> PROVE ThreadsType'
BY DEF ThreadsType, ThreadFits

LEMMA PostAgainTyped ==
    ASSUME MessagesType, PostAgain
    PROVE  MessagesType'
<1>1. /\ posted \o setAside \in Seq(Updates)
      /\ Len(posted \o setAside) = Len(posted) + Len(setAside)
  BY ConcatProperties DEF MessagesType
<1>2. <<>> \in Seq(Updates) /\ Len(<<>>) = 0
  BY EmptySeq
<1>3. Len(posted) \in Nat /\ Len(setAside) \in Nat
  BY LenProperties DEF MessagesType
<1> QED
  BY <1>1, <1>2, <1>3 DEF MessagesType, PostAgain

LEMMA TakesTyped ==
    ASSUME MessagesType, posted # <<>>
    PROVE  /\ Head(posted) \in Updates /\ Tail(posted) \in Seq(Updates)
           /\ Len(posted) \in Nat /\ Len(Tail(posted)) = Len(posted) - 1
BY HeadTailProperties, LenProperties DEF MessagesType

LEMMA HoldTyped ==
    ASSUME MessagesType, posted # <<>>, posted' = Tail(posted),
           setAside' = Append(setAside, Head(posted))
    PROVE  MessagesType'
<1>1. /\ Head(posted) \in Updates /\ Tail(posted) \in Seq(Updates)
      /\ Len(posted) \in Nat /\ Len(Tail(posted)) = Len(posted) - 1
  BY TakesTyped
<1>2. /\ Append(setAside, Head(posted)) \in Seq(Updates)
      /\ Len(Append(setAside, Head(posted))) = Len(setAside) + 1
  BY <1>1, AppendProperties DEF MessagesType
<1>3. Len(setAside) \in Nat
  BY LenProperties DEF MessagesType
<1> QED
  BY <1>1, <1>2, <1>3 DEF MessagesType

\* The window goes to another step, with its recovery as it was.
LEMMA WindowGoes ==
    ASSUME WindowType, UNCHANGED <<recovering, shown, running, admits>>,
           overtaken' \in BOOLEAN, ui' \in Dialogues \cup {"idle", "leaving", "closed"}
    PROVE  WindowType'
BY DEF WindowType, RecoveryFits, Dialogues, Recovery

LEMMA RecoveryBegins ==
    ASSUME WindowType, WorldType, NEW exits \in BOOLEAN, BeginRecovery(exits),
           record # NoRecord, UNCHANGED <<shown, running, admits>>, overtaken' \in BOOLEAN
    PROVE  WindowType'
BY DEF WindowType, WorldType, RecoveryFits, BeginRecovery, Recovery

LEMMA TypeInit == ASSUME SessionAssumption, Init PROVE TypeInv
<1>1. TypeOK
  <2>1. posted \in Seq(Updates) /\ setAside \in Seq(Updates)
        /\ Len(posted) + Len(setAside) <= MaxPosted
    BY EmptySeq DEF Init, SessionAssumption
  <2>2. threads \in [Ops -> ThreadStates]
    BY DEF Init, ThreadStates, NotBegun, Steps, Reasons
  <2>3. ui \in Dialogues \cup Recovery \cup {"idle", "reinspecting", "leaving", "closed"}
    BY DEF Init
  <2>4. recovering \in [record: Records \cup {NoRecord},
                       agreed: Regions \cup {NoRegion}, exits: BOOLEAN]
    BY DEF Init, NoRecovery
  <2>5. shown \in [kind: Kinds, failed: BOOLEAN]
    BY DEF Init, Kinds
  <2>6. ops \in 0 .. MaxOperations
    BY DEF Init, SessionAssumption
  <2> QED
    BY <2>1, <2>2, <2>3, <2>4, <2>5, <2>6 DEF Init, TypeOK
<1>2. ASSUME NEW t \in Ops
      PROVE  ThreadFits(t)
  BY DEF Init, ThreadFits, NotBegun, Returning, Ops, SessionAssumption
<1>3. RecoveryFits /\ RecordsBegun
  BY DEF Init, RecoveryFits, RecordsBegun, Recovery
<1> QED
  BY <1>1, <1>2, <1>3 DEF TypeInv

\* The operation the window begins, or takes over.
LEMMA BegunTyped ==
    ASSUME ThreadsType, NEW t \in Ops, NEW now \in ThreadStates,
           threads' = [threads EXCEPT ![t] = now],
           ops' \in 0 .. MaxOperations, \A s \in Ops \ {t} : s > ops' <=> s > ops,
           t <= ops', now.pc \notin {"none"} \cup Returning, now.early = "no",
           now.mine \in Records, now.mine.op = t
    PROVE  ThreadsType'
<1>1. threads' \in [Ops -> ThreadStates] /\ threads'[t] = now
      /\ \A s \in Ops \ {t} : threads'[s] = threads[s]
  BY DEF ThreadsType
<1>2. t \in Nat /\ ops' \in Nat /\ ~(t > ops')
  BY DEF Ops
<1>3. ThreadFits(t)'
  BY <1>1, <1>2 DEF ThreadFits
<1>4. ASSUME NEW s \in Ops \ {t}
      PROVE  ThreadFits(s)'
  BY <1>1, <1>4 DEF ThreadFits, ThreadsType
<1> QED
  BY <1>1, <1>3, <1>4 DEF ThreadsType

Beginning(temporary) ==
    [NotBegun EXCEPT !.pc = "reading",
         !.mine = [op |-> ops + 1, original |-> region,
                   temporary |-> temporary, state |-> "Prepared"]]

TakingOver ==
    [NotBegun EXCEPT !.pc = "resuming", !.mine = record, !.resumed = TRUE]

LEMMA BeginTyped ==
    ASSUME SessionAssumption, WorldType, ThreadsType, BeginInstallation
    PROVE  ThreadsType'
<1>1. ops \in Nat /\ MaxOperations \in Nat /\ ops + 1 \in Ops /\ ops + 1 \in 0 .. MaxOperations
  BY DEF SessionAssumption, ThreadsType, BeginInstallation, Ops
<1>2. PICK temporary \in Regions :
          threads' = [threads EXCEPT ![ops + 1] = Beginning(temporary)]
  BY DEF BeginInstallation, Beginning
<1>3. /\ Beginning(temporary) \in ThreadStates
      /\ Beginning(temporary).pc = "reading" /\ Beginning(temporary).early = "no"
      /\ Beginning(temporary).mine \in Records /\ Beginning(temporary).mine.op = ops + 1
  BY <1>1
  DEF WorldType, Beginning, NotBegun, ThreadStates, Steps, Reasons, Records, DurableStates
<1>4. ops' = ops + 1
  BY DEF BeginInstallation
<1>5. \A s \in Ops \ {ops + 1} : s > ops' <=> s > ops
  BY <1>1, <1>4 DEF Ops
<1>6. /\ Beginning(temporary).pc \notin {"none"} \cup Returning
      /\ ops' \in 0 .. MaxOperations /\ ops + 1 <= ops'
  BY <1>1, <1>3, <1>4 DEF Returning
<1> HIDE DEF Beginning
<1> QED
  BY <1>1, <1>2, <1>3, <1>5, <1>6, BegunTyped

LEMMA TakeOverTyped ==
    ASSUME WorldType, ThreadsType, RecordsBegun, record # NoRecord, UNCHANGED ops,
           threads' = [threads EXCEPT ![record.op] = TakingOver]
    PROVE  ThreadsType'
<1>1. record \in Records /\ record.op \in Ops
  BY DEF WorldType, Records
<1>2. /\ TakingOver \in ThreadStates
      /\ TakingOver.pc = "resuming" /\ TakingOver.early = "no"
      /\ TakingOver.mine = record
  BY <1>1 DEF TakingOver, NotBegun, ThreadStates, Steps, Reasons
<1>3. record.op <= ops /\ ops \in 0 .. MaxOperations
  BY DEF ThreadsType, RecordsBegun
<1> QED
  BY <1>1, <1>2, <1>3, BegunTyped DEF Returning

\* What a step of the recovery the window carries out leaves of it.
LEMMA RecoveryGoes ==
    ASSUME WindowType, RecordsBegun, UNCHANGED <<ops, shown, admits, overtaken>>,
           ui \in Recovery,
           record' \in {record, NoRecord} \/ record'.op = recovering.record.op,
           \/ \E done \in BOOLEAN : Recovered(done)
           \/ \E step \in Recovery : Goes(step)
           \/ \E step \in Recovery, r \in Records :
                  r.op = recovering.record.op /\ Carries(step, r)
    PROVE  WindowType' /\ RecordsBegun'
<1>1. recovering.record \in Records /\ recovering.record.op <= ops
  BY DEF WindowType, RecoveryFits, RecordsBegun
<1>2. record' # NoRecord => record'.op <= ops'
  BY <1>1 DEF RecordsBegun
<1>3. ASSUME NEW done \in BOOLEAN, Recovered(done)
      PROVE  WindowType' /\ RecordsBegun'
  <2>1. recovering' \in [record: Records \cup {NoRecord},
                         agreed: Regions \cup {NoRegion}, exits: BOOLEAN]
    BY <1>3 DEF Recovered, NoRecovery, WindowType
  <2>2. ui' \in {"leaving", "idle", "reinspecting"} /\ running' \in BOOLEAN
    BY <1>3 DEF Recovered, WindowType
  <2> QED
    BY <1>2, <2>1, <2>2 DEF WindowType, RecoveryFits, RecordsBegun, Recovery
<1>4. ASSUME NEW step \in Recovery, Goes(step)
      PROVE  WindowType' /\ RecordsBegun'
  BY <1>1, <1>2, <1>4 DEF Goes, WindowType, RecoveryFits, RecordsBegun
<1>5. ASSUME NEW step \in Recovery, NEW r \in Records, r.op = recovering.record.op,
             Carries(step, r)
      PROVE  WindowType' /\ RecordsBegun'
  <2>1. recovering' = [recovering EXCEPT !.record = r] /\ ui' = step /\ UNCHANGED running
    BY <1>5 DEF Carries
  <2>2. recovering'.record = r
        /\ recovering' \in [record: Records \cup {NoRecord},
                             agreed: Regions \cup {NoRegion}, exits: BOOLEAN]
    BY <2>1 DEF WindowType
  <2> QED
    BY <1>1, <1>2, <1>5, <2>1, <2>2 DEF WindowType, RecoveryFits, RecordsBegun
<1> QED
  BY <1>3, <1>4, <1>5

\* The steps of that recovery, by what they do to the record and the region.
RecoveryRecord ==
    [recovering.record EXCEPT !.state =
        IF ui = "publish" THEN "RestoringRegion" ELSE "Restored"]

LEMMA RecoverySteps ==
    ASSUME TypeInv, RecoverRegion
    PROVE  /\ ui \in Recovery /\ recovering.record \in Records
           /\ RecoveryRecord \in Records
           /\ SameIdentity(RecoveryRecord, recovering.record)
           /\ UNCHANGED <<threads, ops, messages, shown, admits, overtaken>>
           /\ \/ /\ ui \in {"publish", "mark"} /\ RegionKept
                 /\ \/ /\ Published(RecoveryRecord)
                       /\ Carries(IF ui = "publish" THEN "rewrite" ELSE "clear",
                                  RecoveryRecord)
                    \/ NotPublished(RecoveryRecord) /\ Recovered(FALSE)
              \/ /\ ui = "rewrite" /\ Writes(recovering.record.original)
                 /\ Goes("recheck") /\ UNCHANGED record
              \/ /\ ui = "recheck" /\ RegionKept /\ UNCHANGED record
                 /\ \/ region = recovering.record.original /\ Goes("mark")
                    \/ Recovered(FALSE)
              \/ /\ ui = "clear" /\ RegionKept
                 /\ \/ Cleared(recovering.record) /\ Recovered(TRUE)
                    \/ UNCHANGED record /\ Recovered(FALSE)
<1>1. ui \in Recovery /\ UNCHANGED <<threads, ops, messages, shown, admits, overtaken>>
  BY DEF RecoverRegion, Recovery
<1>2. recovering.record \in Records
  BY <1>1 DEF TypeInv, RecoveryFits
<1>3. RecoveryRecord \in Records /\ SameIdentity(RecoveryRecord, recovering.record)
  BY <1>2, MilestoneTyped DEF RecoveryRecord, DurableStates
<1> QED
  BY <1>1, <1>2, <1>3 DEF RecoverRegion, RecoveryRecord

LEMMA RecoverTypes ==
    ASSUME TypeInv, RecoverRegion
    PROVE  (TypeInv)'
<1>0. WorldType /\ ThreadsType /\ MessagesType /\ WindowType /\ RecordsBegun
  BY TypePieces
<1>1. /\ ui \in Recovery /\ recovering.record \in Records
      /\ RecoveryRecord \in Records
      /\ RecoveryRecord.op = recovering.record.op
      /\ UNCHANGED <<threads, ops, messages, shown, admits, overtaken>>
  BY RecoverySteps DEF SameIdentity
<1>2. ThreadsType' /\ MessagesType'
  BY <1>0, <1>1, ThreadsKept, MessagesKept
<1>3. WorldType'
  <2>1. CASE RegionKept
    BY <1>0, <1>1, <2>1, RecoverySteps, RecordTyped
    DEF WorldType, RegionKept, Published, NotPublished, Cleared
  <2>2. CASE Writes(recovering.record.original) /\ UNCHANGED record
    BY <1>0, <1>1, <2>2, WritesTyped DEF Records
  <2> QED
    BY <2>1, <2>2, RecoverySteps
<1>4. WindowType' /\ RecordsBegun'
  <2>1. record' \in {record, NoRecord} \/ record'.op = recovering.record.op
    BY <1>1, RecoverySteps DEF Published, NotPublished, Cleared
  <2>2. \/ \E done \in BOOLEAN : Recovered(done)
        \/ \E step \in Recovery : Goes(step)
        \/ \E step \in Recovery, r \in Records :
               r.op = recovering.record.op /\ Carries(step, r)
    BY <1>1, RecoverySteps DEF Recovery
  <2> QED
    BY <1>0, <1>1, <2>1, <2>2, RecoveryGoes
<1> QED
  BY <1>2, <1>3, <1>4, TypePiecesNext

\* The window's remaining steps.
WindowStep ==
    \/ BeginInstallation \/ ApplyInstallationUpdate \/ HoldUntilModalEnds
    \/ OpenDialogue \/ EndDialogue \/ AnswerDeadline
    \/ RequestWindowClose \/ AnswerClosing \/ Reinspect \/ ProcessEnds

\* What an answer at a deadline or at closing decides about the operation.
LEMMA DeadlineSteps ==
    ASSUME AnswerDeadline
    PROVE  /\ ui = "deciding" /\ PostAgain
           /\ RegionKept /\ UNCHANGED <<ops, shown, admits>> /\ overtaken' \in BOOLEAN
           /\ \/ /\ record' \in {record, NoRecord}
                 /\ record' # record => OriginalActive
                 /\ ui' = "idle" /\ running' = FALSE /\ UNCHANGED <<threads, recovering>>
              \/ /\ record # NoRecord /\ UNCHANGED record /\ BeginRecovery(FALSE)
                 /\ UNCHANGED <<threads, running>>
              \/ /\ record # NoRecord /\ UNCHANGED <<record, recovering>> /\ ui' = "idle"
                 /\ threads' = [threads EXCEPT ![record.op] = TakingOver]
                 /\ running' = TRUE
              \/ /\ record # NoRecord /\ UNCHANGED <<record, recovering>> /\ ui' = "idle"
                 /\ running' = FALSE /\ UNCHANGED threads
BY Inspected DEF AnswerDeadline, TakingOver, PostAgain

LEMMA ClosingSteps ==
    ASSUME AnswerClosing
    PROVE  /\ ui = "closing" /\ PostAgain
           /\ RegionKept /\ UNCHANGED <<threads, ops, shown, running, admits>>
           /\ overtaken' \in BOOLEAN
           /\ \/ ui' = "idle" /\ UNCHANGED <<record, recovering>>
              \/ /\ ui' = "leaving" /\ UNCHANGED recovering
                 /\ record' \in {record, NoRecord}
              \/ record # NoRecord /\ UNCHANGED record /\ BeginRecovery(TRUE)
BY Inspected DEF AnswerClosing, WindowOnly, PostAgain

LEMMA CloseSteps ==
    ASSUME RequestWindowClose
    PROVE  /\ ui = "idle" /\ ui' \in {"leaving", "closing"}
           /\ RegionKept
           /\ UNCHANGED <<threads, ops, messages, recovering, shown, running, admits,
                         overtaken>>
           /\ record' \in {record, NoRecord}
           /\ ui' = "closing" => UNCHANGED record
BY Inspected DEF RequestWindowClose, WindowOnly, Admits, Answers

LEMMA ReinspectSteps ==
    ASSUME Reinspect
    PROVE  /\ ui = "reinspecting" /\ ui' = "idle" /\ RegionKept
           /\ UNCHANGED <<threads, ops, messages, recovering, shown, running, overtaken>>
           /\ admits' \in BOOLEAN
           /\ record' \in {record, NoRecord}
           /\ record' # record => OriginalActive
BY Inspected DEF Reinspect, WindowOnly, Admits

LEMMA WindowTypes ==
    ASSUME SessionAssumption, TypeInv, WindowStep
    PROVE  (TypeInv)'
<1>0. WorldType /\ ThreadsType /\ MessagesType /\ WindowType /\ RecordsBegun
  BY TypePieces
<1> USE TypePiecesNext
<1>1. CASE BeginInstallation
  <2>0. ThreadsType'
    BY <1>0, <1>1, BeginTyped
  <2>1. ops' = ops + 1 /\ ops \in Nat
    BY <1>0, <1>1 DEF BeginInstallation, ThreadsType
  <2>2. MessagesType' /\ WorldType'
    BY <1>0, <1>1, MessagesKept, KeptTyped DEF BeginInstallation
  <2>3. WindowType'
    BY <1>0, <1>1 DEF BeginInstallation, WindowType, RecoveryFits, Kinds
  <2>4. RecordsBegun'
    <3>1. record # NoRecord => record.op \in Nat
      BY <1>0 DEF WorldType, Records, Ops
    <3>2. ui' \notin Recovery /\ UNCHANGED record
      BY <1>1 DEF BeginInstallation, Recovery
    <3> QED
      BY <1>0, <2>1, <3>1, <3>2 DEF RecordsBegun
  <2> QED
    BY <2>0, <2>2, <2>3, <2>4
<1>2. CASE ApplyInstallationUpdate
  <2>1. MessagesType'
    <3>1. /\ Tail(posted) \in Seq(Updates)
          /\ Len(posted) \in Nat /\ Len(Tail(posted)) = Len(posted) - 1
      BY <1>0, <1>2, TakesTyped DEF ApplyInstallationUpdate
    <3>2. Len(setAside) \in Nat /\ MaxPosted \in Nat
      BY <1>0, LenProperties DEF MessagesType, SessionAssumption
    <3>3. Len(posted) - 1 + Len(setAside) <= MaxPosted
      BY <1>0, <3>1, <3>2 DEF MessagesType
    <3>4. posted' = Tail(posted) /\ setAside' = setAside
      BY <1>2 DEF ApplyInstallationUpdate
    <3> QED
      BY <1>0, <3>1, <3>3, <3>4 DEF MessagesType
  <2>2. WorldType' /\ ThreadsType'
    BY <1>0, <1>2, KeptTyped, ThreadsKept DEF ApplyInstallationUpdate, WindowOnly
  <2>3. Head(posted) \in Updates
    BY <1>0, <1>2, TakesTyped DEF ApplyInstallationUpdate
  <2>4. WindowType' /\ RecordsBegun'
    <3>1. Head(posted).kind \in Kinds /\ Head(posted).failed \in BOOLEAN
      BY <2>3 DEF Updates
    <3>2. /\ shown' = [kind |-> Head(posted).kind, failed |-> Head(posted).failed]
          /\ running' \in BOOLEAN /\ ui' \in {"deciding", "idle"}
          /\ UNCHANGED <<record, ops, recovering, admits, overtaken>>
      BY <1>2 DEF ApplyInstallationUpdate, WindowOnly
    <3> QED
      BY <1>0, <3>1, <3>2 DEF WindowType, RecoveryFits, RecordsBegun, Recovery, Dialogues
  <2> QED
    BY <2>1, <2>2, <2>4
<1>3. CASE HoldUntilModalEnds
  <2>1. UNCHANGED <<threads, ops, record, window>> /\ RegionKept
    BY <1>3 DEF HoldUntilModalEnds, WindowOnly
  <2>2. MessagesType'
    BY <1>0, <1>3, HoldTyped DEF HoldUntilModalEnds
  <2>3. WorldType' /\ ThreadsType'
    BY <1>0, <2>1, KeptTyped, ThreadsKept
  <2>4. WindowType' /\ RecordsBegun'
    BY <1>0, <2>1 DEF WindowType, RecoveryFits, RecordsBegun, window
  <2> QED
    BY <2>2, <2>3, <2>4
<1>4. CASE OpenDialogue \/ EndDialogue \/ ProcessEnds
  <2>1. /\ UNCHANGED <<threads, ops, record, recovering, shown, running, admits>>
        /\ RegionKept /\ ui' \in Dialogues \cup {"idle", "leaving", "closed"}
        /\ overtaken' \in BOOLEAN
    BY <1>0, <1>4
    DEF OpenDialogue, EndDialogue, ProcessEnds, WindowOnly, Dialogues, PostAgain, WindowType
  <2>2. MessagesType'
    BY <1>0, <1>4, MessagesKept, PostAgainTyped DEF OpenDialogue, EndDialogue, ProcessEnds
  <2>3. WorldType' /\ ThreadsType' /\ WindowType'
    BY <1>0, <2>1, KeptTyped, ThreadsKept, WindowGoes
  <2>4. RecordsBegun'
    BY <1>0, <2>1 DEF RecordsBegun, Recovery, Dialogues
  <2> QED
    BY <2>2, <2>3, <2>4
<1>5. CASE AnswerDeadline
  <2>1. MessagesType'
    BY <1>0, <1>5, DeadlineSteps, PostAgainTyped
  <2>2. WorldType'
    BY <1>0, <1>5, DeadlineSteps, KeptTyped
  <2>3. ThreadsType'
    BY <1>0, <1>5, DeadlineSteps, ThreadsKept, TakeOverTyped
  <2>4. CASE BeginRecovery(FALSE) /\ record # NoRecord /\ UNCHANGED <<record, running>>
    <3>1. WindowType'
      BY <1>0, <1>5, <2>4, DeadlineSteps, RecoveryBegins
    <3>2. RecordsBegun'
      BY <1>0, <1>5, <2>4, DeadlineSteps DEF RecordsBegun, BeginRecovery
    <3> QED
      BY <2>1, <2>2, <2>3, <3>1, <3>2
  <2>5. CASE ui' = "idle" /\ running' \in BOOLEAN /\ UNCHANGED recovering
             /\ record' \in {record, NoRecord}
    <3>1. WindowType' /\ RecordsBegun'
      BY <1>0, <1>5, <2>5, DeadlineSteps DEF WindowType, RecoveryFits, RecordsBegun, Recovery
    <3> QED
      BY <2>1, <2>2, <2>3, <3>1
  <2> QED
    BY <1>5, <2>4, <2>5, DeadlineSteps
<1>6. CASE RequestWindowClose
  <2>1. WorldType' /\ ThreadsType' /\ MessagesType'
    BY <1>0, <1>6, CloseSteps, KeptTyped, ThreadsKept, MessagesKept
  <2>2. overtaken' \in BOOLEAN
    BY <1>0, <1>6, CloseSteps DEF WindowType
  <2>3. WindowType' /\ RecordsBegun'
    BY <1>0, <1>6, <2>2, CloseSteps, WindowGoes DEF RecordsBegun, Recovery, Dialogues
  <2> QED
    BY <2>1, <2>3
<1>7. CASE AnswerClosing
  <2>1. WorldType' /\ ThreadsType' /\ MessagesType'
    BY <1>0, <1>7, ClosingSteps, KeptTyped, ThreadsKept, PostAgainTyped
  <2>2. CASE BeginRecovery(TRUE) /\ record # NoRecord /\ UNCHANGED record
    <3>1. WindowType' /\ RecordsBegun'
      BY <1>0, <1>7, <2>2, ClosingSteps, RecoveryBegins DEF RecordsBegun, BeginRecovery
    <3> QED
      BY <2>1, <3>1
  <2>3. CASE ui' \in {"idle", "leaving"} /\ UNCHANGED recovering
             /\ record' \in {record, NoRecord}
    <3>1. WindowType' /\ RecordsBegun'
      BY <1>0, <1>7, <2>3, ClosingSteps, WindowGoes DEF RecordsBegun, Recovery
    <3> QED
      BY <2>1, <3>1
  <2> QED
    BY <1>7, <2>2, <2>3, ClosingSteps
<1>8. CASE Reinspect
  <2>1. WorldType' /\ ThreadsType' /\ MessagesType'
    BY <1>0, <1>8, ReinspectSteps, KeptTyped, ThreadsKept, MessagesKept
  <2>2. WindowType' /\ RecordsBegun'
    BY <1>0, <1>8, ReinspectSteps DEF WindowType, RecoveryFits, RecordsBegun, Recovery
  <2> QED
    BY <2>1, <2>2
<1> QED
  BY <1>1, <1>2, <1>3, <1>4, <1>5, <1>6, <1>7, <1>8 DEF WindowStep

LEMMA NextSteps ==
    ASSUME Next
    PROVE  (\E t \in Ops : ThreadStep(t)) \/ RecoverRegion \/ WindowStep
BY DEF Next, Handles, Returns, WindowStep

LEMMA TypeStep ==
    ASSUME SessionAssumption, TypeInv, [Next]_vars
    PROVE  (TypeInv)'
<1>1. CASE UNCHANGED vars
  BY <1>1
  DEF vars, window, messages, TypeInv, TypeOK, ThreadFits, RecoveryFits, RecordsBegun
<1>2. CASE Next
  BY <1>2, NextSteps, ThreadTypes, RecoverTypes, WindowTypes
<1> QED
  BY <1>1, <1>2

-----------------------------------------------------------------------------
(* Queues of messages.                                                     *)

LEMMA EmptyQueue == NoFinal(<<>>) /\ OneFinal(<<>>) /\ ~Asks(<<>>)
BY DEF NoFinal, OneFinal, Asks

LEMMA NoFinalIsQuiet == \A q : NoFinal(q) => ~Asks(q) /\ OneFinal(q)
BY DEF NoFinal, OneFinal, Asks, Final

LEMMA SingleQueue ==
    ASSUME NEW u
    PROVE  /\ NoFinal(<<u>>) <=> ~Final(u)
           /\ OneFinal(<<u>>)
           /\ Asks(<<u>>) <=> u.awaiting
BY DEF NoFinal, OneFinal, Asks

LEMMA JoinedQueues ==
    ASSUME NEW p \in Seq(Updates), NEW q \in Seq(Updates)
    PROVE  /\ NoFinal(p \o q) <=> NoFinal(p) /\ NoFinal(q)
           /\ Asks(p \o q) => Asks(p) \/ Asks(q)
           /\ OneFinal(p) /\ OneFinal(q) /\ (NoFinal(p) \/ NoFinal(q))
                  => OneFinal(p \o q)
<1> DEFINE pq == p \o q
<1>1. /\ Len(p) \in Nat /\ Len(q) \in Nat /\ Len(pq) = Len(p) + Len(q)
      /\ \A i \in 1 .. Len(p) : pq[i] = p[i]
      /\ \A i \in 1 .. Len(q) : pq[Len(p) + i] = q[i]
      /\ \A i \in 1 .. Len(pq) : i \in 1 .. Len(p) \/ i - Len(p) \in 1 .. Len(q)
  BY ConcatProperties, LenProperties
<1>2. \A i \in 1 .. Len(pq) :
          \/ i \in 1 .. Len(p) /\ pq[i] = p[i]
          \/ \E j \in 1 .. Len(q) : i = Len(p) + j /\ pq[i] = q[j]
  BY <1>1
<1>3. /\ \A i \in 1 .. Len(p) : i \in 1 .. Len(pq)
      /\ \A i \in 1 .. Len(q) : Len(p) + i \in 1 .. Len(pq)
  BY <1>1
<1> HIDE DEF pq
<1>4. NoFinal(pq) <=> NoFinal(p) /\ NoFinal(q)
  BY <1>1, <1>2, <1>3 DEF NoFinal
<1>5. Asks(pq) => Asks(p) \/ Asks(q)
  BY <1>2 DEF Asks
<1>6. ASSUME OneFinal(p), OneFinal(q), NoFinal(p) \/ NoFinal(q)
      PROVE  OneFinal(pq)
  BY <1>2, <1>6 DEF NoFinal, OneFinal
<1> QED
  BY <1>4, <1>5, <1>6 DEF pq

LEMMA TakenQueue ==
    ASSUME NEW p \in Seq(Updates), p # <<>>
    PROVE  /\ NoFinal(p) <=> ~Final(Head(p)) /\ NoFinal(Tail(p))
           /\ OneFinal(p) => OneFinal(Tail(p))
           /\ OneFinal(p) /\ Final(Head(p)) => NoFinal(Tail(p))
           /\ Head(p).awaiting => Asks(p)
           /\ Asks(Tail(p)) => Asks(p)
<1> DEFINE q == Tail(p)
<1>1. /\ Len(p) \in Nat \ {0} /\ Len(q) = Len(p) - 1 /\ Head(p) = p[1]
      /\ \A i \in 1 .. Len(q) : q[i] = p[i + 1]
  BY HeadTailProperties, LenProperties, EmptySeq
<1>2. /\ 1 \in 1 .. Len(p)
      /\ \A i \in 1 .. Len(q) : i + 1 \in 1 .. Len(p) /\ i + 1 # 1
      /\ \A i \in 1 .. Len(p) : i = 1 \/ \E j \in 1 .. Len(q) : i = j + 1
  <2>1. ASSUME NEW i \in 1 .. Len(p), i # 1
        PROVE  \E j \in 1 .. Len(q) : i = j + 1
    <3>1. i - 1 \in 1 .. Len(q) /\ i = (i - 1) + 1
      BY <1>1, <2>1
    <3> QED
      BY <3>1
  <2> QED
    BY <1>1, <2>1
<1>3. \A i, j \in 1 .. Len(q) : i + 1 = j + 1 => i = j
  BY <1>1
<1> HIDE DEF q
<1>4. NoFinal(p) <=> ~Final(Head(p)) /\ NoFinal(q)
  BY <1>1, <1>2 DEF NoFinal
<1>5. OneFinal(p) => OneFinal(q)
  BY <1>1, <1>2, <1>3 DEF OneFinal
<1>6. OneFinal(p) /\ Final(Head(p)) => NoFinal(q)
  BY <1>1, <1>2 DEF OneFinal, NoFinal
<1>7. (Head(p).awaiting => Asks(p)) /\ (Asks(q) => Asks(p))
  BY <1>1, <1>2 DEF Asks
<1> QED
  BY <1>4, <1>5, <1>6, <1>7 DEF q

\* Holding a message back, and posting what was held back again.
LEMMA HeldQueue ==
    ASSUME MessagesType, posted # <<>>, posted' = Tail(posted),
           setAside' = Append(setAside, Head(posted)),
           OneFinal(posted), OneFinal(setAside), NoFinal(posted) \/ NoFinal(setAside)
    PROVE  /\ OneFinal(posted') /\ OneFinal(setAside')
           /\ NoFinal(posted') \/ NoFinal(setAside')
           /\ NoFinal(posted) /\ NoFinal(setAside) => NoFinal(posted') /\ NoFinal(setAside')
           /\ Asks(posted') \/ Asks(setAside') => Asks(posted) \/ Asks(setAside)
<1> DEFINE u == Head(posted)
<1>1. posted \in Seq(Updates) /\ setAside \in Seq(Updates) /\ u \in Updates
  BY TakesTyped DEF MessagesType
<1>2. setAside' = setAside \o <<u>> /\ <<u>> \in Seq(Updates)
  BY <1>1, AppendIsConcat
<1> HIDE DEF u
<1>3. /\ NoFinal(setAside') <=> NoFinal(setAside) /\ ~Final(u)
      /\ Asks(setAside') => Asks(setAside) \/ u.awaiting
      /\ NoFinal(setAside) \/ ~Final(u) => OneFinal(setAside')
  BY <1>1, <1>2, JoinedQueues, SingleQueue
<1>4. /\ NoFinal(posted) <=> ~Final(u) /\ NoFinal(posted')
      /\ OneFinal(posted') /\ (Final(u) => NoFinal(posted'))
      /\ u.awaiting => Asks(posted)
      /\ Asks(posted') => Asks(posted)
  BY <1>1, TakenQueue DEF u
<1> QED
  BY <1>3, <1>4

LEMMA PostedAgainQueue ==
    ASSUME MessagesType, PostAgain,
           OneFinal(posted), OneFinal(setAside), NoFinal(posted) \/ NoFinal(setAside)
    PROVE  /\ setAside' = <<>> /\ NoFinal(setAside') /\ OneFinal(setAside') /\ ~Asks(setAside')
           /\ OneFinal(posted')
           /\ NoFinal(posted') <=> NoFinal(posted) /\ NoFinal(setAside)
           /\ Asks(posted') => Asks(posted) \/ Asks(setAside)
BY EmptyQueue, JoinedQueues DEF MessagesType, PostAgain

-----------------------------------------------------------------------------
(* What a step of a thread says, and what it does to the record.           *)

Quiet(t) ==
    /\ Live(t)' <=> Live(t)
    /\ \/ Silent
       \/ /\ Live(t)
          /\ \/ Post(<<Update("covered")>>)
             \/ Post(<<Update("before"), Update("covered")>>)

Says(t, u) ==
    /\ Live(t) /\ ~Live(t)' /\ Final(u) /\ Post(<<u>>)
    /\ u.awaiting => Holds(t) /\ ~Works(t)'

Keeps(t) ==
    /\ UNCHANGED record
    /\ Holds(t)' => Holds(t) /\ SameIdentity(threads[t].mine, threads'[t].mine)

Names(t) ==
    \E r \in Records :
        Published(r) /\ SameIdentity(r, threads[t].mine) /\ SameIdentity(r, threads'[t].mine)

Removes(t) == Cleared(threads[t].mine) /\ ~Holds(t)'

LEMMA UpdatesFinal ==
    /\ ~Final(Update("covered")) /\ ~Final(Update("before")) /\ Final(Update("over"))
    /\ Final(Failure("covered")) /\ Final(Failure("before"))
    /\ ~Update("over").awaiting /\ ~Failure("covered").awaiting
    /\ ~Failure("before").awaiting
    /\ Final(Deadline) /\ Deadline.awaiting
    /\ Final(NotFollowed) /\ NotFollowed.awaiting
BY DEF Final, Update, Failure, Deadline, NotFollowed

LEMMA IdentityIsShared ==
    \A q, r, s : /\ SameIdentity(r, r)
                 /\ SameIdentity(r, s) => SameIdentity(s, r)
                 /\ SameIdentity(q, r) /\ SameIdentity(r, s) => SameIdentity(q, s)
BY DEF SameIdentity

\* What a thread that becomes something does from then on.
LEMMA BecomesWorks ==
    ASSUME NEW t \in Ops, NEW pc, NEW mine, NEW why, NEW early,
           Becomes(t, pc, mine, why, early)
    PROVE  /\ Works(t)' <=> pc \notin {"none", "over"}
           /\ Holds(t)' <=> pc \in Holding
           /\ Live(t)' <=> /\ pc \notin {"none", "over"}
                           /\ ~(pc \in Returning /\ why = "unwind")
                           /\ ~(pc = "clearing" /\ why # "rollback")
           /\ threads'[t].mine = mine
BY DEF Becomes, Works, Holds, Live, Told

\* A step that goes on, one that gives up, and one that begins to put back.
LEMMA GotoWorks ==
    ASSUME ThreadsType, NEW t \in Ops, NEW step \in Steps, Goto(t, step)
    PROVE  /\ Works(t)' <=> step \notin {"none", "over"}
           /\ Holds(t)' <=> step \in Holding
           /\ Live(t)' <=> /\ step \notin {"none", "over"}
                           /\ ~(step \in Returning /\ threads[t].why = "unwind")
                           /\ ~(step = "clearing" /\ threads[t].why # "rollback")
           /\ threads'[t].mine = threads[t].mine
BY GotoBecomes, BecomesWorks

LEMMA RestoreWorks ==
    ASSUME ThreadsType, NEW t \in Ops, NEW why \in Reasons, Restore(t, why)
    PROVE  /\ Works(t)' /\ Holds(t)'
           /\ Live(t)' <=> why # "unwind"
           /\ threads'[t].mine = threads[t].mine
BY RestoreBecomes, BecomesWorks DEF Returning, Holding

LEMMA GiveUpVoice ==
    ASSUME ThreadsType, NEW t \in Ops, threads[t].pc \in {"readingBack", "marking"}, GiveUp(t)
    PROVE  /\ Quiet(t) \/ \E u \in Updates : Says(t, u)
           /\ Holds(t) /\ threads'[t].mine = threads[t].mine
<1>1. Works(t) /\ Holds(t) /\ (Live(t) <=> threads[t].why # "unwind")
  BY DEF Works, Holds, Live, Told, Holding, Returning
<1>2. Failure("covered") \in Updates
  BY UpdatesTyped DEF Kinds
<1>3. CASE /\ threads[t].why = "early" /\ Silent
           /\ Becomes(t, "working", threads[t].mine, "early", "tried")
  <2>1. Live(t)' /\ threads'[t].mine = threads[t].mine
    BY <1>3, BecomesWorks DEF Returning
  <2> QED
    BY <1>1, <1>3, <2>1 DEF Quiet
<1>4. CASE /\ threads[t].why = "unwind" /\ Silent
           /\ Becomes(t, "over", threads[t].mine, "unwind", threads[t].early)
  <2>1. ~Live(t)' /\ threads'[t].mine = threads[t].mine
    BY <1>4, BecomesWorks
  <2> QED
    BY <1>1, <1>4, <2>1 DEF Quiet
<1>5. CASE /\ threads[t].why \notin {"early", "unwind"}
           /\ Post(<<Failure("covered")>>)
           /\ Becomes(t, "over", threads[t].mine, threads[t].why, threads[t].early)
  <2>1. ~Live(t)' /\ threads'[t].mine = threads[t].mine
    BY <1>5, BecomesWorks
  <2> QED
    BY <1>1, <1>2, <1>5, <2>1, UpdatesFinal DEF Says
<1> QED
  BY <1>3, <1>4, <1>5, GiveUpBecomes

LEMMA ThreadVoice ==
    ASSUME TypeInv, NEW t \in Ops, ThreadStep(t)
    PROVE  Quiet(t) \/ \E u \in Updates : Says(t, u)
<1>0. ThreadsType
  BY TypePieces
<1>1. /\ threads[t].mine \in Records
      /\ threads[t].early = "done" => threads[t].why = "early"
      /\ threads[t].pc \in Returning => threads[t].why # "none"
  BY <1>0, WorksFits
<1>2. /\ Update("over") \in Updates /\ Failure("covered") \in Updates
      /\ Failure("before") \in Updates /\ Deadline \in Updates /\ NotFollowed \in Updates
  BY UpdatesTyped DEF Kinds
<1>3. ASSUME NEW step \in Steps \ ({"none", "over", "clearing"} \cup Returning),
             Goto(t, step), Live(t),
             \/ Silent \/ Post(<<Update("covered")>>)
             \/ Post(<<Update("before"), Update("covered")>>)
      PROVE  Quiet(t)
  BY <1>0, <1>3, GotoWorks DEF Quiet
<1>4. ASSUME NEW step \in Returning, Goto(t, step), Silent, threads[t].pc \in Returning
      PROVE  Quiet(t)
  <2>1. Live(t) <=> threads[t].why # "unwind"
    BY <1>4 DEF Live, Works, Told, Returning
  <2>2. step \in Steps /\ step \notin {"none", "over", "clearing"}
    BY <1>4 DEF Returning, Steps
  <2>3. Live(t)' <=> threads[t].why # "unwind"
    BY <1>0, <1>4, <2>2, GotoWorks
  <2> QED
    BY <1>4, <2>1, <2>3 DEF Quiet
<1>5. ASSUME NEW u \in Updates, Final(u), Post(<<u>>), Goto(t, "over"), Live(t),
             u.awaiting => Holds(t)
      PROVE  Says(t, u)
  BY <1>0, <1>5, GotoWorks DEF Says, Steps
<1>6. CASE ReadOriginal(t)
  <2>1. Live(t)
    BY <1>6 DEF ReadOriginal, At, Live, Works, Told, Returning
  <2>2. CASE Post(<<Failure("before")>>) /\ Goto(t, "over")
    BY <1>2, <1>5, <2>1, <2>2, UpdatesFinal
  <2>3. CASE /\ Post(<<Update("before"), Update("covered")>>)
             /\ threads' = [threads EXCEPT ![t].pc = "saving", ![t].mine.original = region]
    <3>1. threads'[t].pc = "saving"
      BY <1>0, <2>3 DEF ThreadsType, ThreadStates
    <3>2. Live(t)'
      BY <3>1 DEF Live, Works, Told, Returning
    <3> QED
      BY <2>1, <2>3, <3>2 DEF Quiet
  <2> QED
    BY <1>6, <2>2, <2>3 DEF ReadOriginal
<1>7. CASE SavePrepared(t) \/ Publish(t) \/ WriteTemporary(t)
  <2>1. Live(t)
    BY <1>7 DEF SavePrepared, Publish, WriteTemporary, At, Live, Works, Told, Returning
  <2>2. \/ \E step \in {"publishing", "writing", "readBack"} : Goto(t, step) /\ Silent
        \/ Post(<<Failure("covered")>>) /\ Goto(t, "over")
    BY <1>7 DEF SavePrepared, Publish, WriteTemporary
  <2> QED
    BY <1>2, <1>3, <1>5, <2>1, <2>2, UpdatesFinal DEF Steps, Returning
<1>8. CASE ReadBack(t)
  <2>1. Live(t)
    BY <1>8 DEF ReadBack, At, Live, Works, Told, Returning
  <2>2. CASE Post(<<Update("covered")>>) /\ Restore(t, "rollback")
    BY <1>0, <2>1, <2>2, RestoreWorks DEF Quiet, Reasons
  <2>3. \/ Post(<<Update("covered")>>) /\ Goto(t, "working")
        \/ Goto(t, "dropping") /\ Silent
        \/ Post(<<Failure("covered")>>) /\ Goto(t, "over")
        \/ Post(<<Update("covered")>>) /\ Restore(t, "rollback")
    BY <1>8 DEF ReadBack
  <2> QED
    BY <1>2, <1>3, <1>5, <2>1, <2>2, <2>3, UpdatesFinal DEF Steps, Returning
<1>9. CASE Drop(t)
  <2>1. Live(t)
    BY <1>9 DEF Drop, At, Live, Works, Told, Returning
  <2> QED
    BY <1>2, <1>5, <1>9, <2>1, UpdatesFinal DEF Drop
<1>10. CASE Work(t)
  <2>1. Live(t) /\ Holds(t)
    BY <1>10 DEF Work, At, Live, Works, Told, Returning, Holds, Holding
  <2>2. ASSUME Post(<<Failure("covered")>>), threads[t].early = "done", Goto(t, "clearing")
        PROVE  Says(t, Failure("covered"))
    BY <1>0, <1>1, <2>1, <2>2, GotoWorks, UpdatesFinal DEF Says, Steps
  <2>3. ASSUME Post(<<Failure("covered")>>), Restore(t, "unwind")
        PROVE  Says(t, Failure("covered"))
    BY <1>0, <2>1, <2>3, RestoreWorks, UpdatesFinal DEF Says, Reasons
  <2>4. ASSUME Silent \/ Post(<<Update("covered")>>), NEW why \in {"early", "outcome"},
               Restore(t, why)
        PROVE  Quiet(t)
    BY <1>0, <2>1, <2>4, RestoreWorks DEF Quiet, Reasons
  <2>5. ASSUME Post(<<Update("over")>>), threads[t].early = "done", Goto(t, "clearing")
        PROVE  Says(t, Update("over"))
    BY <1>0, <1>1, <2>1, <2>5, GotoWorks, UpdatesFinal DEF Says, Steps
  <2>6. ASSUME NEW u \in {Failure("covered"), Deadline}, Post(<<u>>), Goto(t, "over")
        PROVE  u \in Updates /\ Says(t, u)
    BY <1>2, <1>5, <2>1, <2>6, UpdatesFinal
  <2> QED
    BY <1>2, <1>10, <2>2, <2>3, <2>4, <2>5, <2>6 DEF Work, AskAfterTimeout
<1>11. CASE WriteOriginal(t)
  BY <1>4, <1>11 DEF WriteOriginal, At, Returning
<1>12. CASE ConfirmOriginal(t)
  <2>1. CASE Goto(t, "marking") /\ Silent
    BY <1>4, <1>12, <2>1 DEF ConfirmOriginal, At, Returning
  <2> QED
    BY <1>0, <1>12, <2>1, GiveUpVoice DEF ConfirmOriginal, At
<1>13. CASE MarkRestored(t)
  <2>1. threads[t].pc = "marking" /\ (Live(t) <=> threads[t].why # "unwind")
    BY <1>13 DEF MarkRestored, At, Live, Works, Told, Returning
  <2>2. CASE /\ threads[t].why = "early"
             /\ Becomes(t, "working", Marked(t), "early", "done")
             /\ Post(<<Update("covered")>>)
    <3>1. Live(t)'
      BY <2>2, BecomesWorks DEF Returning
    <3> QED
      BY <2>1, <2>2, <3>1 DEF Quiet
  <2>3. CASE /\ threads[t].why # "early"
             /\ Becomes(t, "clearing", Marked(t), threads[t].why, threads[t].early)
             /\ IF threads[t].why = "outcome" THEN Post(<<Update("over")>>) ELSE Silent
    <3>1. Live(t)' <=> threads[t].why = "rollback"
      BY <2>3, BecomesWorks DEF Returning
    <3>2. threads[t].why \in {"rollback", "unwind", "outcome"}
      BY <1>0, <1>1, <2>1, <2>3 DEF ThreadsType, ThreadStates, Reasons, Returning
    <3> QED
      BY <1>2, <2>1, <2>3, <3>1, <3>2, UpdatesFinal DEF Quiet, Says
  <2> QED
    BY <1>0, <1>1, <1>13, <2>1, <2>2, <2>3, MarkBecomes, GiveUpVoice
<1>14. CASE ClearRecord(t)
  <2>1. Live(t) <=> threads[t].why = "rollback"
    BY <1>14 DEF ClearRecord, At, Live, Works, Told, Returning
  <2>2. CASE threads[t].why = "rollback" /\ Post(<<Failure("covered")>>) /\ Goto(t, "over")
    BY <1>2, <1>5, <2>1, <2>2, UpdatesFinal
  <2>3. CASE threads[t].why # "rollback" /\ Silent /\ Goto(t, "over")
    BY <1>0, <2>1, <2>3, GotoWorks DEF Steps, Quiet
  <2> QED
    BY <1>14, <2>2, <2>3 DEF ClearRecord
<1>15. CASE Resume(t)
  <2>1. Live(t) /\ Holds(t)
    BY <1>15 DEF Resume, At, Live, Works, Told, Returning, Holds, Holding
  <2> QED
    BY <1>2, <1>3, <1>5, <1>15, <2>1, UpdatesFinal DEF Resume, Steps, Returning
<1> QED
  BY <1>6, <1>7, <1>8, <1>9, <1>10, <1>11, <1>12, <1>13, <1>14, <1>15 DEF ThreadStep

LEMMA ThreadDisk ==
    ASSUME TypeInv, NEW t \in Ops, ThreadStep(t)
    PROVE  Keeps(t) \/ Names(t) \/ Removes(t)
<1>0. ThreadsType /\ threads[t].mine \in Records
  BY TypePieces, WorksFits
<1>1. ASSUME NEW step \in Steps, Goto(t, step), UNCHANGED record,
             step \in Holding => Holds(t)
      PROVE  Keeps(t)
  BY <1>0, <1>1, GotoWorks, IdentityIsShared DEF Keeps
<1>2. ASSUME NEW why \in Reasons, Restore(t, why), UNCHANGED record, Holds(t)
      PROVE  Keeps(t)
  BY <1>0, <1>2, RestoreWorks, IdentityIsShared DEF Keeps
<1>3. ASSUME NEW r \in Records, Published(r), SameIdentity(r, threads[t].mine),
             threads'[t].mine \in {r, threads[t].mine}
      PROVE  Names(t)
  BY <1>3, IdentityIsShared DEF Names
<1>4. CASE ReadOriginal(t)
  <2>1. UNCHANGED record /\ ~Holds(t)'
    BY <1>0, <1>4 DEF ReadOriginal, Goto, Holds, Holding, ThreadsType, ThreadStates
  <2> QED
    BY <2>1 DEF Keeps
<1>5. CASE SavePrepared(t) \/ WriteTemporary(t) \/ WriteOriginal(t) \/ Resume(t)
  BY <1>1, <1>5
  DEF SavePrepared, WriteTemporary, WriteOriginal, Resume, Steps, Holding, Holds, At
<1>6. CASE Publish(t)
  <2>1. \E step \in {"writing", "over"} : Goto(t, step)
    BY <1>6 DEF Publish
  <2>2. threads'[t].mine = threads[t].mine
    BY <1>0, <2>1, GotoWorks DEF Steps
  <2>3. \/ Published(threads[t].mine)
        \/ UNCHANGED record /\ Goto(t, "over")
    BY <1>6 DEF Publish, NotPublished
  <2> QED
    BY <1>0, <1>1, <1>3, <2>2, <2>3, IdentityIsShared DEF Steps, Holding
<1>7. CASE ReadBack(t)
  BY <1>1, <1>2, <1>7 DEF ReadBack, Steps, Reasons, Holds, Holding, At
<1>8. CASE Drop(t) \/ ClearRecord(t)
  <2>1. Goto(t, "over") /\ (Cleared(threads[t].mine) \/ UNCHANGED record)
    BY <1>8 DEF Drop, ClearRecord
  <2>2. ~Holds(t)'
    BY <1>0, <2>1, GotoWorks DEF Steps, Holding
  <2> QED
    BY <2>1, <2>2 DEF Keeps, Removes
<1>9. CASE Work(t)
  BY <1>1, <1>2, <1>9 DEF Work, AskAfterTimeout, Steps, Reasons, Holds, Holding, At
<1>10. CASE ConfirmOriginal(t)
  <2>1. CASE GiveUp(t)
    BY <1>0, <1>10, <2>1, GiveUpVoice, IdentityIsShared DEF ConfirmOriginal, At, Keeps
  <2> QED
    BY <1>1, <1>10, <2>1 DEF ConfirmOriginal, Steps, Holds, Holding, At
<1>11. CASE MarkRestored(t)
  <2>1. /\ Marked(t) \in Records /\ SameIdentity(Marked(t), threads[t].mine)
        /\ \/ Published(Marked(t)) /\ threads'[t].mine = Marked(t)
           \/ NotPublished(Marked(t)) /\ GiveUp(t)
    BY <1>0, <1>11, MarkBecomes DEF Becomes
  <2>2. ASSUME GiveUp(t)
        PROVE  Holds(t) /\ threads'[t].mine = threads[t].mine
    BY <1>0, <1>11, <2>2, GiveUpVoice DEF MarkRestored, At
  <2> QED
    BY <1>3, <2>1, <2>2, IdentityIsShared DEF NotPublished, Keeps
<1> QED
  BY <1>4, <1>5, <1>6, <1>7, <1>8, <1>9, <1>10, <1>11 DEF ThreadStep

\* A thread that takes a step works, and the others and the window keep still.
LEMMA ThreadKeeps ==
    ASSUME TypeInv, NEW t \in Ops, ThreadStep(t)
    PROVE  /\ Works(t) /\ UNCHANGED <<ops, window>>
           /\ \A s \in Ops \ {t} : threads'[s] = threads[s]
<1>0. ThreadsType /\ threads[t].mine \in Records
  BY TypePieces, WorksFits
<1>1. Works(t)
  BY DEF ThreadStep, ReadOriginal, SavePrepared, Publish, WriteTemporary, ReadBack, Drop,
         Work, WriteOriginal, ConfirmOriginal, MarkRestored, ClearRecord, Resume, At, Works
<1>2. UNCHANGED <<ops, window>>
  BY DEF ThreadStep, ReadOriginal, SavePrepared, Publish, WriteTemporary, ReadBack, Drop,
         Work, WriteOriginal, ConfirmOriginal, MarkRestored, ClearRecord, Resume, ThreadOnly
<1>3. \A s \in Ops \ {t} : threads'[s] = threads[s]
  <2>1. \E now : threads' = [threads EXCEPT ![t] = now]
    BY <1>0, GiveUpBecomes
    DEF ThreadStep, ReadOriginal, SavePrepared, Publish, WriteTemporary, ReadBack, Drop,
        Work, AskAfterTimeout, WriteOriginal, ConfirmOriginal, MarkRestored, ClearRecord,
        Resume, Goto, Knows, Restore, GiveUp
  <2> QED
    BY <1>0, <2>1 DEF ThreadsType
<1> QED
  BY <1>1, <1>2, <1>3

-----------------------------------------------------------------------------
(* One voice, and the record of whoever holds the region: threads.         *)

LEMMA OthersKeep ==
    ASSUME NEW t \in Ops, \A s \in Ops \ {t} : threads'[s] = threads[s]
    PROVE  \A s \in Ops \ {t} :
               /\ Works(s)' <=> Works(s)
               /\ Holds(s)' <=> Holds(s)
               /\ Live(s)' <=> Live(s)
BY DEF Works, Holds, Live, Told

\* A thread that works and has not told its end is live; one that told it holds.
LEMMA WorksIsLiveOrHolds ==
    \A t \in Ops : Works(t) => Live(t) \/ Holds(t)
BY DEF Live, Told, Holds, Holding, Returning

LEMMA HolderIsNamed ==
    ASSUME TypeInv, HoldersRecorded, Open, NEW t \in Ops, Holds(t)
    PROVE  record # NoRecord /\ SameIdentity(record, threads[t].mine) /\ record.op = t
<1>1. threads[t].mine.op = t
  BY DEF TypeInv, ThreadFits, Holds, Holding
<1> QED
  BY <1>1 DEF HoldersRecorded, SameIdentity

\* A quiet step leaves no message of an end behind.
LEMMA QuietQueue ==
    ASSUME MessagesType, NEW t \in Ops, Quiet(t), ui # "leaving"
    PROVE  /\ UNCHANGED setAside
           /\ NoFinal(posted') <=> NoFinal(posted)
           /\ OneFinal(posted) => OneFinal(posted')
           /\ Asks(posted') => Asks(posted)
<1>1. CASE Silent
  BY <1>1 DEF Silent, messages
<1>2. ASSUME NEW q \in Seq(Updates), NoFinal(q), Post(q)
      PROVE  /\ UNCHANGED setAside
             /\ NoFinal(posted') <=> NoFinal(posted)
             /\ OneFinal(posted) => OneFinal(posted')
             /\ Asks(posted') => Asks(posted)
  <2>1. posted' = posted \o q /\ UNCHANGED setAside /\ posted \in Seq(Updates)
    BY <1>2 DEF Post, MessagesType
  <2> QED
    BY <1>2, <2>1, JoinedQueues, NoFinalIsQuiet
<1>3. /\ <<Update("covered")>> \in Seq(Updates) /\ NoFinal(<<Update("covered")>>)
      /\ <<Update("before"), Update("covered")>> \in Seq(Updates)
      /\ NoFinal(<<Update("before"), Update("covered")>>)
  BY UpdatesTyped, UpdatesFinal DEF NoFinal, Kinds
<1> QED
  BY <1>1, <1>2, <1>3 DEF Quiet

LEMMA ThreadKeepsVoice ==
    ASSUME TypeInv, SessionInv, NEW t \in Ops, ThreadStep(t)
    PROVE  (OneVoice)'
<1> SUFFICES ASSUME Open' PROVE (OneVoice)'
  BY DEF OneVoice
<1>0. /\ UNCHANGED <<ui, running>> /\ Open /\ ui # "leaving"
      /\ \A s \in Ops \ {t} : Live(s)' <=> Live(s)
  BY ThreadKeeps, OthersKeep DEF window, Open
<1>1. posted \in Seq(Updates) /\ setAside \in Seq(Updates)
  BY DEF TypeInv, TypeOK
<1>2. CASE Quiet(t)
  <2>1. \A s \in Ops : Live(s)' <=> Live(s)
    BY <1>0, <1>2 DEF Quiet
  <2>2. UNCHANGED setAside /\ (NoFinal(posted') <=> NoFinal(posted)) /\ OneFinal(posted')
    BY <1>0, <1>2, QuietQueue, TypePieces DEF SessionInv, OneVoice
  <2> QED
    BY <1>0, <2>1, <2>2 DEF SessionInv, OneVoice
<1>3. ASSUME NEW u \in Updates, Says(t, u)
      PROVE  (OneVoice)'
  <2>1. \A s \in Ops : ~Live(s)'
    BY <1>0, <1>3 DEF Says, SessionInv, OneVoice
  <2>2. NoFinal(posted) /\ NoFinal(setAside) /\ running
    BY <1>0, <1>3 DEF Says, SessionInv, OneVoice
  <2>3. posted' = posted \o <<u>> /\ UNCHANGED setAside
    BY <1>0, <1>3 DEF Says, Post
  <2>4. OneFinal(posted') /\ NoFinal(setAside') /\ OneFinal(setAside')
    BY <1>1, <2>2, <2>3, JoinedQueues, SingleQueue, NoFinalIsQuiet, UpdatesTyped
  <2> QED
    BY <1>0, <2>1, <2>2, <2>3, <2>4 DEF SessionInv, OneVoice
<1> QED
  BY <1>2, <1>3, ThreadVoice

LEMMA ThreadAsksAlone ==
    ASSUME TypeInv, SessionInv, NEW t \in Ops, ThreadStep(t)
    PROVE  (AskedAlone)' /\ (DecidedLast)'
<1> SUFFICES ASSUME Open' PROVE (AskedAlone)' /\ (DecidedLast)'
  BY DEF AskedAlone, DecidedLast
<1>0. /\ UNCHANGED <<ui, recovering>> /\ Open /\ ui # "leaving" /\ Works(t)
      /\ \A s \in Ops \ {t} : Works(s)' <=> Works(s)
  BY ThreadKeeps, OthersKeep DEF window, Open
<1>1. posted \in Seq(Updates) /\ setAside \in Seq(Updates)
  BY DEF TypeInv, TypeOK
<1>2. ~Alone /\ ~Asks(posted) /\ ~Asks(setAside) /\ ~Alone'
  BY <1>0 DEF SessionInv, AskedAlone, Alone
<1>3. CASE Quiet(t)
  <2>1. UNCHANGED setAside /\ ~Asks(posted')
    BY <1>0, <1>2, <1>3, QuietQueue, TypePieces
  <2> QED
    BY <1>2, <2>1 DEF AskedAlone, DecidedLast
<1>4. ASSUME NEW u \in Updates, Says(t, u)
      PROVE  (AskedAlone)' /\ (DecidedLast)'
  <2>1. posted' = posted \o <<u>> /\ UNCHANGED setAside
    BY <1>0, <1>4 DEF Says, Post
  <2>2. Asks(posted') => u.awaiting
    BY <1>1, <1>2, <2>1, JoinedQueues, SingleQueue, UpdatesTyped
  <2>3. ASSUME u.awaiting, NEW s \in Ops, Works(s)'
        PROVE  FALSE
    <3>1. s # t /\ Works(s) /\ Holds(t) /\ Live(t)
      BY <1>0, <1>4, <2>3 DEF Says
    <3>2. ~Live(s)
      BY <1>0, <3>1 DEF SessionInv, OneVoice
    <3>3. Holds(s)
      BY <3>1, <3>2, WorksIsLiveOrHolds
    <3> QED
      BY <1>0, <3>1, <3>3, HolderIsNamed DEF SessionInv
  <2> QED
    BY <1>2, <2>1, <2>2, <2>3 DEF AskedAlone, DecidedLast
<1> QED
  BY <1>3, <1>4, ThreadVoice

LEMMA ThreadKeepsRecorded ==
    ASSUME SessionAssumption, TypeInv, SessionInv, NEW t \in Ops, ThreadStep(t)
    PROVE  (HoldersRecorded)'
<1> SUFFICES ASSUME Open', NEW s \in Ops, Holds(s)'
             PROVE  record' # NoRecord /\ SameIdentity(record', threads'[s].mine)
  BY DEF HoldersRecorded, Holds
<1>0. Open /\ (s # t => Holds(s) /\ threads'[s] = threads[s])
  BY ThreadKeeps, OthersKeep DEF window, Open
<1>1. Holds(s) => /\ record # NoRecord /\ SameIdentity(record, threads[s].mine)
                  /\ record.op = s
  BY <1>0, HolderIsNamed DEF SessionInv
<1>2. CASE Keeps(t)
  BY <1>0, <1>1, <1>2, IdentityIsShared DEF Keeps
<1>3. ASSUME NEW r \in Records, Published(r), SameIdentity(r, threads'[t].mine)
      PROVE  record' # NoRecord /\ SameIdentity(record', threads'[s].mine)
  <2>1. record' = r /\ r # NoRecord /\ (record # NoRecord => SameIdentity(record, r))
    BY <1>3 DEF Published, SessionAssumption
  <2>2. CASE s = t
    BY <1>3, <2>1, <2>2
  <2>3. CASE s # t
    BY <1>0, <1>1, <2>1, <2>3, IdentityIsShared
  <2> QED
    BY <2>2, <2>3
<1>4. CASE Removes(t)
  <2>1. s # t /\ record = threads[t].mine
    BY <1>4 DEF Removes, Cleared
  <2>2. threads[t].mine.op = t
    BY WorksFits, TypePieces
  <2> QED
    BY <1>0, <1>1, <2>1, <2>2
<1> QED
  BY <1>2, <1>3, <1>4, ThreadDisk DEF Names

-----------------------------------------------------------------------------
(* One voice, and the record of whoever holds the region: the window.      *)

LEMMA ThreadsStill ==
    ASSUME UNCHANGED threads
    PROVE  \A t \in Ops : /\ Works(t)' <=> Works(t)
                          /\ Holds(t)' <=> Holds(t)
                          /\ Live(t)' <=> Live(t)
BY DEF Works, Holds, Live, Told

LEMMA LiveWorks == \A t \in Ops : (Live(t) => Works(t)) /\ (Holds(t) => Works(t))
BY DEF Live, Holds, Works, Holding

\* Nothing is under way when the window has the record to itself.
LEMMA AloneIsQuiet ==
    ASSUME SessionInv, Open, Alone
    PROVE  /\ NoFinal(posted) /\ NoFinal(setAside)
           /\ \A t \in Ops : ~Works(t) /\ ~Live(t) /\ ~Holds(t)
BY LiveWorks DEF SessionInv, AskedAlone, DecidedLast

\* A step after which nobody works and no end is under way keeps everything.
LEMMA QuietEnough ==
    ASSUME \A t \in Ops : ~Works(t)', NoFinal(posted'), NoFinal(setAside'),
           setAside' # <<>> => ui' \in Dialogues
    PROVE  (SessionInv)'
<1>1. \A t \in Ops : ~Live(t)' /\ ~Holds(t)'
  BY LiveWorks DEF Live, Holds, Works, Holding
<1> QED
  BY <1>1, NoFinalIsQuiet DEF SessionInv, OneVoice, AskedAlone, DecidedLast, HoldersRecorded

\* A step that lets the threads, the messages and the record be, and does not
\* leave the window alone with them.
LEMMA GoesKeepsSession ==
    ASSUME SessionInv, Open, UNCHANGED <<threads, messages, running>>, ~Alone',
           setAside # <<>> => ui' \in Dialogues,
           \A t \in Ops : Holds(t) => record' # NoRecord /\ SameIdentity(record', threads[t].mine)
    PROVE  (SessionInv)'
<1>1. UNCHANGED <<posted, setAside>>
  BY DEF messages
<1> QED
  BY <1>1, ThreadsStill
  DEF SessionInv, OneVoice, AskedAlone, DecidedLast, HoldersRecorded

LEMMA RecoverKeepsSession ==
    ASSUME SessionAssumption, TypeInv, SessionInv, RecoverRegion
    PROVE  (SessionInv)'
<1>0. /\ ui \in Recovery /\ Open /\ UNCHANGED <<threads, messages>>
      /\ UNCHANGED <<posted, setAside>>
      /\ setAside = <<>>
  BY RecoverySteps DEF Open, Recovery, Dialogues, SessionInv, OneVoice, messages
<1>1. CASE Alone
  <2>1. \A t \in Ops : ~Works(t)'
    BY <1>0, <1>1, AloneIsQuiet, ThreadsStill
  <2> QED
    BY <1>0, <1>1, <2>1, AloneIsQuiet, QuietEnough
<1>2. CASE ~Alone /\ Open'
  <2>1. recovering.exits /\ ~Alone' /\ UNCHANGED running
    <3>1. recovering.exits
      BY <1>0, <1>2 DEF Alone
    <3>2. /\ UNCHANGED running
          /\ \/ ui' \in {"leaving", "idle"}
             \/ ui' \in Recovery /\ recovering'.exits
      BY <1>0, <3>1, RecoverySteps
      DEF Recovered, Goes, Carries, Recovery, TypeInv, TypeOK
    <3> QED
      BY <3>1, <3>2 DEF Alone, Recovery
  <2>2. UNCHANGED record \/ Published(RecoveryRecord)
    BY <1>2, <2>1, RecoverySteps DEF NotPublished, Recovered, Open
  <2>3. ASSUME NEW t \in Ops, Holds(t)
        PROVE  record' # NoRecord /\ SameIdentity(record', threads[t].mine)
    <3>1. record # NoRecord /\ SameIdentity(record, threads[t].mine)
      BY <1>0, <2>3 DEF SessionInv, HoldersRecorded
    <3>2. RecoveryRecord # NoRecord
      BY RecoverySteps DEF SessionAssumption
    <3> QED
      BY <2>2, <3>1, <3>2, IdentityIsShared DEF Published
  <2> QED
    BY <1>0, <2>1, <2>3, GoesKeepsSession
<1>3. CASE ~Open'
  BY <1>3 DEF SessionInv, OneVoice, AskedAlone, DecidedLast, HoldersRecorded
<1> QED
  BY <1>1, <1>2, <1>3

LEMMA BeginKeepsSession ==
    ASSUME SessionAssumption, TypeInv, SessionInv, BeginInstallation
    PROVE  (SessionInv)'
<1>0. /\ ui = "idle" /\ Open /\ ~running /\ running' = TRUE
      /\ UNCHANGED <<record, posted, setAside, ui, recovering>>
  BY DEF BeginInstallation, Open, messages
<1>1. NoFinal(posted) /\ NoFinal(setAside) /\ \A t \in Ops : ~Live(t)
  BY <1>0 DEF SessionInv, OneVoice
<1>2. PICK temporary \in Regions :
          threads' = [threads EXCEPT ![ops + 1] = Beginning(temporary)]
  BY DEF BeginInstallation, Beginning
<1>3. /\ \A s \in Ops \ {ops + 1} : threads'[s] = threads[s]
      /\ ops + 1 \in Ops => threads'[ops + 1].pc = "reading"
  BY <1>2 DEF TypeInv, TypeOK, Beginning, NotBegun
<1>4. \A s \in Ops : /\ Live(s)' => s = ops + 1
                     /\ Holds(s)' => Holds(s) /\ threads'[s] = threads[s]
  BY <1>1, <1>3 DEF Live, Works, Told, Holds, Holding
<1>5. ~Asks(posted) /\ ~Asks(setAside) /\ OneFinal(posted) /\ OneFinal(setAside) /\ ~Alone'
  BY <1>0, <1>1, NoFinalIsQuiet DEF Alone, Recovery
<1> QED
  BY <1>0, <1>1, <1>4, <1>5
  DEF SessionInv, OneVoice, AskedAlone, DecidedLast, HoldersRecorded

LEMMA ApplyKeepsSession ==
    ASSUME TypeInv, SessionInv, ApplyInstallationUpdate
    PROVE  (SessionInv)'
<1> DEFINE u == Head(posted)
<1>0. /\ ui = "idle" /\ Open /\ posted # <<>> /\ posted \in Seq(Updates)
      /\ posted' = Tail(posted) /\ setAside = <<>> /\ setAside' = <<>>
      /\ UNCHANGED <<threads, record, recovering>>
      /\ running' <=> ~(u.kind = "over" \/ u.failed)
      /\ ui' = IF u.awaiting THEN "deciding" ELSE "idle"
  BY DEF ApplyInstallationUpdate, Open, WindowOnly, TypeInv, TypeOK, SessionInv, OneVoice,
         Dialogues
<1>1. /\ NoFinal(posted) <=> ~Final(u) /\ NoFinal(posted')
      /\ OneFinal(posted') /\ (Final(u) => NoFinal(posted'))
      /\ u.awaiting => Asks(posted)
      /\ Asks(posted') => Asks(posted)
  BY <1>0, TakenQueue DEF SessionInv, OneVoice
<1>2. /\ u.awaiting => Final(u)
      /\ ~running' => Final(u)
      /\ ~Final(u) => running' = TRUE
  BY <1>0 DEF Final, TypeInv, TypeOK
<1> HIDE DEF u
<1>3. OneVoice'
  BY <1>0, <1>1, <1>2, ThreadsStill, EmptyQueue DEF SessionInv, OneVoice
<1>4. Alone' => u.awaiting
  BY <1>0 DEF Alone, Recovery
<1>5. AskedAlone' /\ DecidedLast'
  BY <1>0, <1>1, <1>2, <1>4, ThreadsStill, EmptyQueue DEF SessionInv, AskedAlone, DecidedLast
<1>6. HoldersRecorded'
  BY <1>0, ThreadsStill DEF SessionInv, HoldersRecorded
<1> QED
  BY <1>3, <1>5, <1>6 DEF SessionInv

LEMMA HoldKeepsSession ==
    ASSUME TypeInv, SessionInv, HoldUntilModalEnds
    PROVE  (SessionInv)'
<1>0. /\ ui \in Dialogues /\ Open /\ UNCHANGED <<threads, record, ui, recovering, running>>
      /\ posted # <<>> /\ posted' = Tail(posted)
      /\ setAside' = Append(setAside, Head(posted))
  BY DEF HoldUntilModalEnds, Open, WindowOnly, window, Dialogues
<1>1. /\ OneFinal(posted') /\ OneFinal(setAside')
      /\ NoFinal(posted') \/ NoFinal(setAside')
      /\ NoFinal(posted) /\ NoFinal(setAside) => NoFinal(posted') /\ NoFinal(setAside')
      /\ Asks(posted') \/ Asks(setAside') => Asks(posted) \/ Asks(setAside)
  BY <1>0, HeldQueue, TypePieces DEF SessionInv, OneVoice
<1>2. OneVoice'
  BY <1>0, <1>1, ThreadsStill DEF SessionInv, OneVoice
<1>3. AskedAlone' /\ DecidedLast' /\ HoldersRecorded'
  BY <1>0, <1>1, ThreadsStill
  DEF SessionInv, AskedAlone, DecidedLast, HoldersRecorded, Alone, Open
<1> QED
  BY <1>2, <1>3 DEF SessionInv

\* The end of a dialogue after which the window is not alone.
LEMMA PostAgainKeepsSession ==
    ASSUME TypeInv, SessionInv, Open, PostAgain, UNCHANGED <<threads, record, running>>, ~Alone'
    PROVE  (SessionInv)'
<1>1. /\ setAside' = <<>> /\ NoFinal(setAside') /\ OneFinal(setAside') /\ ~Asks(setAside')
      /\ OneFinal(posted')
      /\ NoFinal(posted') <=> NoFinal(posted) /\ NoFinal(setAside)
      /\ Asks(posted') => Asks(posted) \/ Asks(setAside)
  BY PostedAgainQueue, TypePieces DEF SessionInv, OneVoice
<1>2. OneVoice'
  BY <1>1, ThreadsStill DEF SessionInv, OneVoice
<1>3. AskedAlone' /\ DecidedLast' /\ HoldersRecorded'
  BY <1>1, ThreadsStill DEF SessionInv, AskedAlone, DecidedLast, HoldersRecorded
<1> QED
  BY <1>2, <1>3 DEF SessionInv

LEMMA DeadlineKeepsSession ==
    ASSUME SessionAssumption, TypeInv, SessionInv, AnswerDeadline
    PROVE  (SessionInv)'
<1>0. ui = "deciding" /\ Open /\ Alone /\ PostAgain
  BY DeadlineSteps DEF Open, Alone
<1>1. /\ NoFinal(posted) /\ NoFinal(setAside)
      /\ \A t \in Ops : ~Works(t) /\ ~Live(t) /\ ~Holds(t)
  BY <1>0, AloneIsQuiet
<1>2. setAside' = <<>> /\ NoFinal(setAside') /\ NoFinal(posted')
  BY <1>0, <1>1, PostedAgainQueue, TypePieces, NoFinalIsQuiet
<1>3. CASE UNCHANGED threads
  <2>1. \A t \in Ops : ~Works(t)'
    BY <1>1, <1>3, ThreadsStill
  <2> QED
    BY <1>2, <2>1, QuietEnough
<1>4. CASE /\ record # NoRecord /\ UNCHANGED <<record, recovering>> /\ ui' = "idle"
           /\ threads' = [threads EXCEPT ![record.op] = TakingOver]
           /\ running' = TRUE
  <2>1. /\ record.op \in Ops /\ threads'[record.op] = TakingOver
        /\ \A s \in Ops \ {record.op} : threads'[s] = threads[s]
    BY <1>4 DEF TypeInv, TypeOK, Records
  <2>2. \A s \in Ops \ {record.op} : ~Live(s)' /\ ~Holds(s)' /\ ~Works(s)'
    BY <1>1, <2>1, OthersKeep
  <2>3. /\ threads'[record.op].mine = record
        /\ SameIdentity(record, record)
    BY <2>1, IdentityIsShared DEF TakingOver, NotBegun
  <2>4. ~Alone'
    BY <1>4 DEF Alone, Recovery
  <2>5. ~Asks(posted') /\ ~Asks(setAside') /\ OneFinal(posted') /\ OneFinal(setAside')
    BY <1>2, NoFinalIsQuiet
  <2> QED
    BY <1>2, <1>4, <2>1, <2>2, <2>3, <2>4, <2>5
    DEF SessionInv, OneVoice, AskedAlone, DecidedLast, HoldersRecorded
<1> QED
  BY <1>3, <1>4, DeadlineSteps

LEMMA SessionStep ==
    ASSUME SessionAssumption, TypeInv, SessionInv, [Next]_vars
    PROVE  (SessionInv)'
<1>1. CASE UNCHANGED vars
  <2>1. UNCHANGED <<record, threads, posted, setAside, ui, recovering, running>>
    BY <1>1 DEF vars
  <2>2. (Alone' <=> Alone) /\ (Open' <=> Open)
    BY <2>1 DEF Alone, Open
  <2> QED
    BY <2>1, <2>2, ThreadsStill
    DEF SessionInv, OneVoice, AskedAlone, DecidedLast, HoldersRecorded
<1>2. ASSUME NEW t \in Ops, ThreadStep(t)
      PROVE  (SessionInv)'
  BY <1>2, ThreadKeepsVoice, ThreadAsksAlone, ThreadKeepsRecorded DEF SessionInv
<1>3. CASE ~Open'
  BY <1>3 DEF SessionInv, OneVoice, AskedAlone, DecidedLast, HoldersRecorded
<1>4. CASE OpenDialogue
  <2>1. /\ UNCHANGED <<threads, messages, running, record>> /\ Open /\ ~Alone'
        /\ ui' \in Dialogues
    BY <1>4 DEF OpenDialogue, WindowOnly, Open, Alone, Recovery, Dialogues
  <2> QED
    BY <2>1, GoesKeepsSession DEF SessionInv, HoldersRecorded
<1>5. CASE EndDialogue
  <2>1. PostAgain /\ Open /\ UNCHANGED <<threads, record, running>> /\ ~Alone'
    BY <1>5 DEF EndDialogue, WindowOnly, Open, Alone, Recovery
  <2> QED
    BY <2>1, PostAgainKeepsSession
<1>6. CASE RequestWindowClose /\ Open'
  <2>1. /\ UNCHANGED <<threads, messages, running, record>> /\ Open /\ ~Alone'
        /\ ui' \in Dialogues
    BY <1>6, CloseSteps DEF Open, Alone, Recovery, Dialogues
  <2> QED
    BY <2>1, GoesKeepsSession DEF SessionInv, HoldersRecorded
<1>7. CASE AnswerClosing /\ Open'
  <2>1. PostAgain /\ Open /\ UNCHANGED <<threads, record, running>> /\ ~Alone'
    BY <1>7, ClosingSteps DEF Open, Alone, Recovery, BeginRecovery
  <2> QED
    BY <2>1, PostAgainKeepsSession
<1>8. CASE Reinspect
  <2>1. Open /\ Alone /\ UNCHANGED <<threads, posted, setAside>> /\ setAside = <<>>
    BY <1>8, ReinspectSteps DEF Open, Alone, Dialogues, SessionInv, OneVoice, messages
  <2>2. \A t \in Ops : ~Works(t)'
    BY <2>1, AloneIsQuiet, ThreadsStill
  <2> QED
    BY <2>1, <2>2, AloneIsQuiet, QuietEnough
<1>9. CASE ProcessEnds
  BY <1>3, <1>9 DEF ProcessEnds, Open
<1>10. CASE WindowStep
  BY <1>3, <1>4, <1>5, <1>6, <1>7, <1>8, <1>9, <1>10, BeginKeepsSession, ApplyKeepsSession,
     HoldKeepsSession, DeadlineKeepsSession DEF WindowStep
<1> QED
  BY <1>1, <1>2, <1>10, RecoverKeepsSession, NextSteps

LEMMA SessionInit == ASSUME SessionAssumption, Init PROVE SessionInv
<1>1. \A t \in Ops : ~Live(t) /\ ~Works(t) /\ ~Holds(t)
  BY DEF Init, NotBegun, Live, Works, Holds, Holding
<1> QED
  BY <1>1, EmptyQueue DEF Init, SessionInv, OneVoice, AskedAlone, DecidedLast, HoldersRecorded

-----------------------------------------------------------------------------
(* One operation's region is covered: threads.                             *)

\* Where a thread's step leaves it, and what it found the region to be.
Placed(t) ==
    /\ threads'[t].pc \in Unpublished =>
           threads[t].pc \in Unpublished /\ RegionKept /\ UNCHANGED record
    /\ threads'[t].pc \in {"marking", "dropping"} =>
           RegionKept /\ region = threads[t].mine.original
    /\ threads'[t].pc = "clearing" \/ threads'[t].early = "done" =>
           RegionKept /\ (threads[t].pc = "marking" \/ threads[t].early = "done")
    /\ record' = NoRecord /\ record # NoRecord =>
           RegionKept /\ threads[t].pc \in {"clearing", "dropping"}
    /\ \/ RegionKept
       \/ /\ Holds(t)'
          /\ Writes(threads[t].mine.original) \/ Writes(threads[t].mine.temporary)
    /\ \/ SameIdentity(threads'[t].mine, threads[t].mine)
       \/ /\ threads[t].pc = "reading"
          /\ threads'[t].mine = [threads[t].mine EXCEPT !.original = region]

LEMMA GotoPlaced ==
    ASSUME ThreadsType, NEW t \in Ops, NEW step \in Steps, Goto(t, step)
    PROVE  /\ threads'[t].pc = step /\ threads'[t].early = threads[t].early
           /\ SameIdentity(threads'[t].mine, threads[t].mine)
BY GotoBecomes, IdentityIsShared DEF Becomes

LEMMA RestorePlaced ==
    ASSUME ThreadsType, NEW t \in Ops, NEW why \in Reasons, Restore(t, why)
    PROVE  /\ threads'[t].pc = "restoring" /\ threads'[t].early = threads[t].early
           /\ SameIdentity(threads'[t].mine, threads[t].mine)
BY RestoreBecomes, IdentityIsShared DEF Becomes

LEMMA GiveUpPlaced ==
    ASSUME ThreadsType, NEW t \in Ops, GiveUp(t), threads[t].early # "done"
    PROVE  /\ threads'[t].pc \in {"working", "over"} /\ threads'[t].early # "done"
           /\ SameIdentity(threads'[t].mine, threads[t].mine)
BY GiveUpBecomes, IdentityIsShared DEF Becomes

LEMMA ThreadPlaced ==
    ASSUME SessionAssumption, TypeInv, NEW t \in Ops, ThreadStep(t)
    PROVE  Placed(t)
<1>0. /\ ThreadsType /\ threads[t].mine \in Records
      /\ threads[t].early = "done" => threads[t].pc \in AfterReturn
      /\ NoRecord \notin Records
  BY TypePieces, WorksFits DEF SessionAssumption
<1>1. CASE ReadOriginal(t)
  <2>1. CASE Goto(t, "over")
    BY <1>0, <1>1, <2>1, GotoPlaced DEF ReadOriginal, At, Placed, Steps, AfterReturn, Unpublished
  <2>2. CASE threads' = [threads EXCEPT ![t].pc = "saving", ![t].mine.original = region]
    <3>1. /\ threads'[t].pc = "saving" /\ threads'[t].early = threads[t].early
          /\ threads'[t].mine = [threads[t].mine EXCEPT !.original = region]
      BY <1>0, <2>2 DEF ThreadsType, ThreadStates
    <3> QED
      BY <1>0, <1>1, <3>1 DEF ReadOriginal, At, Placed, AfterReturn, Unpublished
  <2> QED
    BY <1>1, <2>1, <2>2 DEF ReadOriginal
<1>2. CASE SavePrepared(t)
  BY <1>0, <1>2, GotoPlaced DEF SavePrepared, At, Placed, Steps, AfterReturn, Unpublished
<1>3. CASE Publish(t)
  <2>1. record' = NoRecord => record = NoRecord
    BY <1>0, <1>3 DEF Publish, Published, NotPublished
  <2>2. /\ \E step \in {"writing", "over"} : Goto(t, step)
        /\ threads[t].early # "done" /\ RegionKept
    BY <1>0, <1>3 DEF Publish, At, AfterReturn
  <2> QED
    BY <1>0, <2>1, <2>2, GotoPlaced DEF Placed, Steps, Unpublished
<1>4. CASE WriteTemporary(t)
  BY <1>0, <1>4, GotoPlaced, GotoWorks
  DEF WriteTemporary, At, Placed, Steps, AfterReturn, Unpublished, Holding
<1>5. CASE ReadBack(t)
  <2>1. /\ threads[t].early # "done" /\ RegionKept /\ UNCHANGED record
        /\ \/ \E step \in {"working", "over"} : Goto(t, step)
           \/ Goto(t, "dropping") /\ region = threads[t].mine.original
           \/ Restore(t, "rollback")
    BY <1>0, <1>5 DEF ReadBack, At, AfterReturn
  <2> QED
    BY <1>0, <2>1, GotoPlaced, RestorePlaced DEF Placed, Steps, Reasons, Unpublished
<1>6. CASE Drop(t) \/ ClearRecord(t)
  <2>1. /\ threads[t].pc \in {"clearing", "dropping"} /\ RegionKept /\ Goto(t, "over")
    BY <1>6 DEF Drop, ClearRecord, At
  <2> QED
    BY <1>0, <2>1, GotoPlaced DEF Placed, Steps, Unpublished
<1>7. CASE Work(t)
  <2>1. /\ RegionKept /\ UNCHANGED record
        /\ \/ Goto(t, "clearing") /\ threads[t].early = "done"
           \/ Goto(t, "over")
           \/ \E why \in {"unwind", "early", "outcome"} : Restore(t, why)
    BY <1>7 DEF Work, AskAfterTimeout
  <2> QED
    BY <1>0, <2>1, GotoPlaced, RestorePlaced DEF Placed, Steps, Reasons, Unpublished
<1>8. CASE WriteOriginal(t)
  BY <1>0, <1>8, GotoPlaced, GotoWorks
  DEF WriteOriginal, At, Placed, Steps, AfterReturn, Unpublished, Holding
<1>9. CASE ConfirmOriginal(t)
  BY <1>0, <1>9, GotoPlaced, GiveUpPlaced
  DEF ConfirmOriginal, At, Placed, Steps, AfterReturn, Unpublished
<1>10. CASE MarkRestored(t)
  <2>1. threads[t].pc = "marking" /\ threads[t].early # "done" /\ RegionKept
    BY <1>0, <1>10 DEF MarkRestored, At, AfterReturn
  <2>2. /\ Marked(t) \in Records /\ SameIdentity(Marked(t), threads[t].mine)
        /\ \/ /\ Published(Marked(t))
              /\ threads'[t].pc \in {"working", "clearing"} /\ threads'[t].mine = Marked(t)
           \/ NotPublished(Marked(t)) /\ GiveUp(t)
    BY <1>0, <1>10, MarkBecomes DEF Becomes
  <2>3. record' = NoRecord => record = NoRecord
    BY <1>0, <2>2 DEF Published, NotPublished
  <2> QED
    BY <1>0, <2>1, <2>2, <2>3, GiveUpPlaced DEF Placed, Unpublished
<1>11. CASE Resume(t)
  BY <1>0, <1>11, GotoPlaced DEF Resume, At, Placed, Steps, AfterReturn, Unpublished
<1> QED
  BY <1>1, <1>2, <1>3, <1>4, <1>5, <1>6, <1>7, <1>8, <1>9, <1>10, <1>11 DEF ThreadStep

\* What a write of either region leaves owed.
LEMMA WritesOwe ==
    ASSUME NoRegion \notin Regions, region \in Regions,
           NEW original \in Regions, NEW r \in Regions, Writes(r),
           owed = IF region = original THEN NoRegion ELSE original
    PROVE  /\ owed' = IF region' = original THEN NoRegion ELSE original
           /\ r = original => (owed' # NoRegion => owed # NoRegion)
           /\ r = original /\ region = original => region' = original
BY DEF Writes

LEMMA ThreadKeepsCovered ==
    ASSUME SessionAssumption, TypeInv, SessionInv, CoveredInv, (SessionInv)',
           NEW t \in Ops, ThreadStep(t)
    PROVE  (CoveredInv)'
<1>0. UNCHANGED <<ops, ui, recovering>> /\ Works(t)
  BY ThreadKeeps DEF window
<1>1. t \in Nat \ {0} /\ t <= ops /\ ops \in Nat /\ threads[t].mine \in Records
  BY WorksFits, TypePieces DEF ThreadsType, ThreadFits, Ops, SessionAssumption
<1>2. SUFFICES ASSUME ops = 1, Open
               PROVE  (CoveredInv)'
  BY <1>0, <1>1, <1>2 DEF CoveredInv, Open
<1>3. t = 1
  BY <1>1, <1>2
<1>4. Placed(t) /\ (Keeps(t) \/ Names(t) \/ Removes(t))
  BY ThreadPlaced, ThreadDisk
<1>5. /\ owed = IF region = First.original THEN NoRegion ELSE First.original
      /\ record # NoRecord => SameIdentity(record, First)
      /\ ui \in Recovery => SameIdentity(recovering.record, First)
                            /\ threads[1].pc \notin Unpublished
      /\ threads[1].pc \in Unpublished => region = First.original /\ record = NoRecord
      /\ threads[1].pc \in {"marking", "clearing", "dropping"} => region = First.original
      /\ threads[1].early = "done" => region = First.original
      /\ owed # NoRegion => record # NoRecord
  BY <1>2 DEF CoveredInv
<1>6. ~Alone
  BY <1>0, <1>2 DEF SessionInv, AskedAlone
<1>7. SameIdentity(First', First)
  <2>1. CASE threads[1].pc = "reading" /\ First' = [First EXCEPT !.original = region]
    BY <1>1, <1>3, <1>5, <2>1 DEF First, Unpublished, SameIdentity, Records
  <2> QED
    BY <1>3, <1>4, <2>1 DEF Placed, First
<1>8. First'.original = First.original
  BY <1>7 DEF SameIdentity
<1>9. First \in Records /\ First.original \in Regions /\ First.temporary \in Regions
      /\ region \in Regions /\ NoRegion \notin Regions
  BY <1>1, <1>3 DEF First, Records, TypeInv, TypeOK, SessionAssumption
<1>10. owed' = IF region' = First.original THEN NoRegion ELSE First.original
  BY <1>3, <1>4, <1>5, <1>9, WritesOwe DEF Placed, RegionKept, First
<1>11. record' # NoRecord => SameIdentity(record', First')
  <2>1. record' = record \/ record' = NoRecord \/ SameIdentity(record', First)
    BY <1>3, <1>4 DEF Keeps, Names, Removes, Cleared, Published, First
  <2> QED
    BY <1>5, <1>7, <2>1, IdentityIsShared
<1>12. ui' \in Recovery => /\ SameIdentity(recovering'.record, First')
                           /\ threads'[1].pc \notin Unpublished
  BY <1>0, <1>3, <1>4, <1>5, <1>7, IdentityIsShared DEF Placed
<1>13. threads'[1].pc \in Unpublished => region' = First'.original /\ record' = NoRecord
  BY <1>3, <1>4, <1>5, <1>8 DEF Placed, RegionKept
<1>14. \/ threads'[1].pc \in {"marking", "clearing", "dropping"}
       \/ threads'[1].early = "done"
       \/ ui' \in {"mark", "clear"} /\ ~recovering'.exits
       => region' = First'.original
  <2>1. ~(ui' \in {"mark", "clear"} /\ ~recovering'.exits)
    BY <1>0, <1>6 DEF Alone, Recovery
  <2> QED
    BY <1>3, <1>4, <1>5, <1>8, <2>1 DEF Placed, RegionKept, First
<1>15. owed' # NoRegion => record' # NoRecord
  <2> SUFFICES ASSUME record' = NoRecord, owed' # NoRegion
               PROVE  FALSE
    OBVIOUS
  <2>1. ~Holds(t)'
    BY <1>0, <1>2 DEF SessionInv, HoldersRecorded, Open
  <2>2. RegionKept /\ owed # NoRegion /\ record # NoRecord
    BY <1>4, <1>5, <2>1 DEF Placed, RegionKept
  <2>3. region = First.original
    BY <1>3, <1>4, <1>5, <2>2 DEF Placed
  <2> QED
    BY <1>5, <2>2, <2>3
<1> QED
  BY <1>0, <1>2, <1>8, <1>10, <1>11, <1>12, <1>13, <1>14, <1>15 DEF CoveredInv, Open

-----------------------------------------------------------------------------
(* One operation's region is covered: the window.                          *)

LEMMA BeginKeepsCovered ==
    ASSUME SessionAssumption, TypeInv, CoveredInv, BeginInstallation
    PROVE  (CoveredInv)'
<1>0. /\ ops \in Nat /\ ops' = ops + 1 /\ ui' = "idle"
      /\ UNCHANGED <<region, owed, record>>
  BY DEF BeginInstallation, TypeInv, TypeOK, SessionAssumption, RegionKept
<1>1. CASE ops = 0
  <2>1. PICK temporary \in Regions :
            threads' = [threads EXCEPT ![ops + 1] = Beginning(temporary)]
    BY DEF BeginInstallation, Beginning
  <2>2. ops + 1 = 1 /\ 1 \in Ops
    BY <1>1 DEF BeginInstallation, Ops, SessionAssumption
  <2>3. /\ threads'[1].pc = "reading" /\ threads'[1].early = "no"
        /\ threads'[1].mine.original = region
    BY <2>1, <2>2 DEF TypeInv, TypeOK, Beginning, NotBegun
  <2>4. owed = NoRegion /\ record = NoRecord
    BY <1>1 DEF CoveredInv
  <2> QED
    BY <1>0, <2>3, <2>4 DEF CoveredInv, First, Recovery, Unpublished
<1>2. CASE ops # 0
  BY <1>0, <1>2 DEF CoveredInv
<1> QED
  BY <1>1, <1>2

\* A step of the window that lets the region be and removes the record only
\* where the region is back.
LEMMA QuietKeepsCovered ==
    ASSUME TypeInv, CoveredInv, ui' = ui \/ Open, RegionKept, UNCHANGED ops,
           record' \in {record, NoRecord},
           record' # record /\ Open' => OriginalActive,
           \/ UNCHANGED threads
           \/ /\ record # NoRecord
              /\ threads' = [threads EXCEPT ![record.op] = TakingOver],
           \/ UNCHANGED <<ui, recovering>>
           \/ ui' \notin Recovery
           \/ ui' = "publish" /\ record # NoRecord /\ recovering'.record = record
    PROVE  (CoveredInv)'
<1>0. Open' => Open
  BY DEF Open
<1>1. CASE ops # 1 \/ ~Open'
  BY <1>1 DEF CoveredInv, RegionKept
<1>2. CASE ops = 1 /\ Open'
  <2>1. /\ owed = IF region = First.original THEN NoRegion ELSE First.original
        /\ record # NoRecord => SameIdentity(record, First)
        /\ ui \in Recovery => /\ SameIdentity(recovering.record, First)
                              /\ threads[1].pc \notin Unpublished
        /\ threads[1].pc \in Unpublished => region = First.original /\ record = NoRecord
        /\ threads[1].pc \in {"marking", "clearing", "dropping"} => region = First.original
        /\ threads[1].early = "done" => region = First.original
        /\ ui \in {"mark", "clear"} /\ ~recovering.exits => region = First.original
        /\ owed # NoRegion => record # NoRecord
    BY <1>0, <1>2 DEF CoveredInv
  <2>2. UNCHANGED <<region, owed, ops>>
    BY DEF RegionKept
  <2>3. /\ SameIdentity(First', First)
        /\ \/ UNCHANGED threads
           \/ threads'[1].pc = "resuming" /\ threads'[1].early = "no" /\ record # NoRecord
    <3>1. CASE UNCHANGED threads
      BY <3>1, IdentityIsShared DEF First
    <3>2. CASE /\ record # NoRecord
               /\ threads' = [threads EXCEPT ![record.op] = TakingOver]
      <4>1. record.op = 1 /\ 1 \in Ops
        BY <1>2, <3>2 DEF TypeInv, TypeOK, Records, Ops, RecordsBegun
      <4>2. threads'[1] = TakingOver
        BY <3>2, <4>1 DEF TypeInv, TypeOK
      <4>3. TakingOver.mine = record /\ TakingOver.pc = "resuming" /\ TakingOver.early = "no"
        BY DEF TakingOver, NotBegun
      <4> QED
        BY <2>1, <3>2, <4>2, <4>3 DEF First
    <3> QED
      BY <3>1, <3>2
  <2>4. First'.original = First.original
    BY <2>3 DEF SameIdentity
  <2>5. record' # NoRecord => SameIdentity(record', First')
    BY <2>1, <2>3, IdentityIsShared
  <2>6. ui' \in Recovery => /\ SameIdentity(recovering'.record, First')
                            /\ threads'[1].pc \notin Unpublished
    BY <2>1, <2>3, IdentityIsShared DEF Unpublished
  <2>7. threads'[1].pc \in Unpublished => region' = First'.original /\ record' = NoRecord
    BY <2>1, <2>2, <2>3, <2>4 DEF Unpublished
  <2>8. \/ threads'[1].pc \in {"marking", "clearing", "dropping"}
        \/ threads'[1].early = "done"
        \/ ui' \in {"mark", "clear"} /\ ~recovering'.exits
        => region' = First'.original
    BY <2>1, <2>2, <2>3, <2>4 DEF Recovery
  <2>9. owed' # NoRegion => record' # NoRecord
    <3>1. CASE record' = record
      BY <2>1, <2>2, <3>1
    <3>2. CASE record' # record
      <4>1. region = First.original
        BY <1>2, <2>1, <3>2 DEF OriginalActive, SameIdentity
      <4> QED
        BY <2>1, <2>2, <4>1
    <3> QED
      BY <3>1, <3>2
  <2> QED
    BY <1>2, <2>1, <2>2, <2>4, <2>5, <2>6, <2>7, <2>8, <2>9 DEF CoveredInv
<1> QED
  BY <1>1, <1>2

LEMMA RecoverKeepsCovered ==
    ASSUME SessionAssumption, TypeInv, SessionInv, CoveredInv, RecoverRegion
    PROVE  (CoveredInv)'
<1>0. /\ ui \in Recovery /\ Open /\ recovering.record \in Records
      /\ RecoveryRecord \in Records
      /\ SameIdentity(RecoveryRecord, recovering.record)
      /\ UNCHANGED <<threads, ops>>
  BY RecoverySteps DEF Open, Recovery
<1>1. ops \in Nat /\ ops # 0
  BY <1>0 DEF TypeInv, TypeOK, SessionAssumption, RecordsBegun, Records, Ops
<1>2. CASE ops # 1 \/ ~Open'
  BY <1>0, <1>1, <1>2 DEF CoveredInv
<1>3. CASE ops = 1 /\ Open'
  <2>1. /\ owed = IF region = First.original THEN NoRegion ELSE First.original
        /\ record # NoRecord => SameIdentity(record, First)
        /\ SameIdentity(recovering.record, First)
        /\ threads[1].pc \notin Unpublished
        /\ threads[1].pc \in {"marking", "clearing", "dropping"} => region = First.original
        /\ threads[1].early = "done" => region = First.original
        /\ ui \in {"mark", "clear"} /\ ~recovering.exits => region = First.original
        /\ owed # NoRegion => record # NoRecord
    BY <1>0, <1>3 DEF CoveredInv
  <2>2. /\ recovering.record.original = First.original /\ First.original \in Regions
        /\ region \in Regions /\ NoRegion \notin Regions /\ NoRecord \notin Records
        /\ SameIdentity(RecoveryRecord, First) /\ First' = First
    BY <1>0, <2>1, IdentityIsShared
    DEF SameIdentity, Records, TypeInv, TypeOK, SessionAssumption, First
  <2>3. /\ owed' = IF region' = First.original THEN NoRegion ELSE First.original
        /\ owed' # NoRegion => owed # NoRegion
        /\ region = First.original => region' = First.original
    BY <2>1, <2>2, RecoverySteps, WritesOwe DEF RegionKept
  <2>4. \/ record' = record
        \/ record' = RecoveryRecord
        \/ record' = NoRecord /\ ui = "clear" /\ RegionKept /\ Recovered(TRUE)
    BY RecoverySteps DEF Published, NotPublished, Cleared
  <2>5. record' # NoRecord => SameIdentity(record', First')
    BY <2>1, <2>2, <2>4
  <2>6. /\ ui' \in Recovery => /\ SameIdentity(recovering'.record, First')
                               /\ recovering'.exits = recovering.exits
        /\ ui' \in {"mark", "clear"} =>
               \/ region = First.original
               \/ ui = "mark"
    BY <1>0, <2>1, <2>2, RecoverySteps DEF Recovered, Goes, Carries, Recovery, TypeInv, TypeOK
  <2>7. ui' \in {"mark", "clear"} /\ ~recovering'.exits => region' = First'.original
    BY <2>1, <2>2, <2>3, <2>6 DEF Recovery
  <2>8. owed' # NoRegion => record' # NoRecord
    <3>1. CASE record' # NoRecord \/ record' = record
      BY <2>1, <2>3, <3>1
    <3>2. CASE record' = NoRecord /\ ui = "clear" /\ RegionKept /\ Recovered(TRUE)
      <4>1. ~recovering.exits
        BY <1>3, <3>2 DEF Recovered, Open, TypeInv, TypeOK
      <4> QED
        BY <2>1, <2>3, <3>2, <4>1
    <3> QED
      BY <2>2, <2>4, <3>1, <3>2, <1>0
  <2>9. \/ threads'[1].pc \in {"marking", "clearing", "dropping"}
        \/ threads'[1].early = "done"
        => region' = First'.original
    BY <1>0, <2>1, <2>2, <2>3
  <2> QED
    BY <1>0, <1>3, <2>1, <2>2, <2>3, <2>5, <2>6, <2>7, <2>8, <2>9 DEF CoveredInv
<1> QED
  BY <1>2, <1>3

LEMMA CoveredStep ==
    ASSUME SessionAssumption, TypeInv, SessionInv, CoveredInv, (SessionInv)', [Next]_vars
    PROVE  (CoveredInv)'
<1>1. CASE UNCHANGED vars
  BY <1>1 DEF vars, window, messages, CoveredInv, First, Open
<1>2. CASE WindowStep
  <2>1. CASE \/ ApplyInstallationUpdate \/ HoldUntilModalEnds \/ OpenDialogue
             \/ EndDialogue \/ ProcessEnds
    <3>1. /\ RegionKept /\ UNCHANGED <<ops, record, threads, recovering>>
          /\ ui' = ui \/ ui' \notin Recovery
          /\ ui' = ui \/ Open \/ ~Open'
      BY <2>1
      DEF ApplyInstallationUpdate, HoldUntilModalEnds, OpenDialogue, EndDialogue,
          ProcessEnds, WindowOnly, window, Recovery, Dialogues, Open
    <3>2. CASE ~Open'
      BY <3>1, <3>2 DEF CoveredInv, RegionKept
    <3> QED
      BY <3>1, <3>2, QuietKeepsCovered
  <2>2. CASE RequestWindowClose
    <3>1. /\ RegionKept /\ UNCHANGED <<ops, threads>> /\ Open
          /\ record' \in {record, NoRecord} /\ (Open' => UNCHANGED record)
          /\ ui' \notin Recovery
      BY <2>2, CloseSteps DEF Open, Recovery
    <3> QED
      BY <3>1, QuietKeepsCovered
  <2>3. CASE AnswerClosing
    <3>1. /\ RegionKept /\ UNCHANGED <<ops, threads>> /\ Open
          /\ record' \in {record, NoRecord} /\ (Open' => UNCHANGED record)
          /\ \/ ui' \notin Recovery
             \/ ui' = "publish" /\ record # NoRecord /\ recovering'.record = record
      BY <2>3, ClosingSteps DEF Open, Recovery, BeginRecovery
    <3> QED
      BY <3>1, QuietKeepsCovered
  <2>4. CASE Reinspect
    <3>1. /\ RegionKept /\ UNCHANGED <<ops, threads>> /\ Open
          /\ record' \in {record, NoRecord} /\ (record' # record => OriginalActive)
          /\ ui' \notin Recovery
      BY <2>4, ReinspectSteps DEF Open, Recovery
    <3> QED
      BY <3>1, QuietKeepsCovered
  <2>5. CASE AnswerDeadline
    <3>1. /\ RegionKept /\ UNCHANGED ops /\ Open
          /\ record' \in {record, NoRecord} /\ (record' # record => OriginalActive)
          /\ \/ UNCHANGED threads
             \/ /\ record # NoRecord
                /\ threads' = [threads EXCEPT ![record.op] = TakingOver]
      BY <2>5, DeadlineSteps DEF Open
    <3>2. ui' = "idle" \/ (BeginRecovery(FALSE) /\ record # NoRecord)
      BY <2>5, DeadlineSteps
    <3>3. \/ ui' \notin Recovery
          \/ ui' = "publish" /\ record # NoRecord /\ recovering'.record = record
      BY <3>2 DEF Recovery, BeginRecovery
    <3> QED
      BY <3>1, <3>3, QuietKeepsCovered
  <2> QED
    BY <1>2, <2>1, <2>2, <2>3, <2>4, <2>5, BeginKeepsCovered DEF WindowStep
<1> QED
  BY <1>1, <1>2, NextSteps, ThreadKeepsCovered, RecoverKeepsCovered

-----------------------------------------------------------------------------
(* Running is real, unless the end of the operation was overtaken.         *)

LEMMA EndOfQueue ==
    ASSUME NEW p \in Seq(Updates), NEW q \in Seq(Updates)
    PROVE  /\ EndIsLast(<<>>) /\ \A u : EndIsLast(<<u>>)
           /\ NoFinal(p) => EndIsLast(p)
           /\ NoFinal(p) /\ EndIsLast(q) => EndIsLast(p \o q)
           /\ p # <<>> /\ EndIsLast(p) => EndIsLast(Tail(p))
           /\ p # <<>> /\ EndIsLast(p) /\ Final(Head(p)) => Tail(p) = <<>>
<1>1. EndIsLast(<<>>) /\ (\A u : EndIsLast(<<u>>)) /\ (NoFinal(p) => EndIsLast(p))
  BY DEF EndIsLast, NoFinal
<1>2. ASSUME NoFinal(p), EndIsLast(q)
      PROVE  EndIsLast(p \o q)
  <2> DEFINE pq == p \o q
  <2>1. /\ Len(p) \in Nat /\ Len(q) \in Nat /\ Len(pq) = Len(p) + Len(q)
        /\ \A i \in 1 .. Len(p) : pq[i] = p[i]
        /\ \A i \in 1 .. Len(q) : pq[Len(p) + i] = q[i]
        /\ \A i \in 1 .. Len(pq) : i \in 1 .. Len(p) \/ i - Len(p) \in 1 .. Len(q)
    BY ConcatProperties, LenProperties
  <2>2. \A i \in 1 .. Len(pq) :
            \/ i \in 1 .. Len(p) /\ pq[i] = p[i]
            \/ \E j \in 1 .. Len(q) : i = Len(p) + j /\ pq[i] = q[j]
    BY <2>1
  <2> HIDE DEF pq
  <2>3. EndIsLast(pq)
    BY <1>2, <2>1, <2>2 DEF NoFinal, EndIsLast
  <2> QED
    BY <2>3 DEF pq
<1>3. ASSUME p # <<>>, EndIsLast(p)
      PROVE  EndIsLast(Tail(p)) /\ (Final(Head(p)) => Tail(p) = <<>>)
  <2> DEFINE r == Tail(p)
  <2>1. /\ r \in Seq(Updates)
        /\ Len(p) \in Nat \ {0} /\ Len(r) = Len(p) - 1 /\ Head(p) = p[1]
        /\ \A i \in 1 .. Len(r) : r[i] = p[i + 1]
    BY <1>3, HeadTailProperties, LenProperties, EmptySeq
  <2>2. 1 \in 1 .. Len(p) /\ \A i \in 1 .. Len(r) : i + 1 \in 1 .. Len(p)
    BY <2>1
  <2>3. Len(r) = 0 => r = <<>>
    BY <2>1, EmptySeq
  <2> HIDE DEF r
  <2>4. \A i \in 1 .. Len(r) : i + 1 = Len(p) => i = Len(r)
    BY <2>1
  <2>5. EndIsLast(r)
    BY <1>3, <2>1, <2>2, <2>4 DEF EndIsLast
  <2>6. Final(Head(p)) => Len(r) = 0
    BY <1>3, <2>1, <2>2 DEF EndIsLast
  <2> QED
    BY <2>3, <2>5, <2>6 DEF r
<1> QED
  BY <1>1, <1>2, <1>3

LEMMA NothingPosted ==
    ASSUME posted = <<>>, setAside \in Seq(Updates)
    PROVE  posted \o setAside = setAside
BY ConcatEmptySeq

LEMMA ThreadKeepsReal ==
    ASSUME TypeInv, SessionInv, RealInv, NEW t \in Ops, ThreadStep(t)
    PROVE  (RealInv)'
<1> SUFFICES ASSUME ~overtaken, Open' PROVE (RealInv)'
  BY ThreadKeeps DEF RealInv, window
<1>0. /\ UNCHANGED <<ui, running, recovering>> /\ Open /\ ui # "leaving" /\ Works(t)
      /\ \A s \in Ops \ {t} : Live(s)' <=> Live(s)
  BY ThreadKeeps, OthersKeep DEF window, Open
<1>1. posted \in Seq(Updates) /\ setAside \in Seq(Updates)
  BY DEF TypeInv, TypeOK
<1>2. ~Alone /\ ~Alone'
  BY <1>0 DEF SessionInv, AskedAlone, Alone
<1>3. CASE ~Live(t)
  <2>1. UNCHANGED <<posted, setAside>> /\ ~Live(t)'
    BY <1>3, ThreadVoice DEF Quiet, Says, Silent, messages
  <2> QED
    BY <1>0, <1>2, <1>3, <2>1 DEF RealInv
<1>4. CASE Live(t)
  <2>1. NoFinal(posted) /\ NoFinal(setAside) /\ running
    BY <1>0, <1>4 DEF SessionInv, OneVoice
  <2>2. ASSUME NEW q \in Seq(Updates), EndIsLast(q), Post(q)
        PROVE  /\ UNCHANGED setAside /\ EndIsLast(posted') /\ EndIsLast(setAside')
               /\ NoFinal(posted') <=> NoFinal(q)
    <3>1. UNCHANGED setAside /\ posted' = posted \o q
      BY <1>0, <2>2 DEF Post
    <3> QED
      BY <1>1, <2>1, <2>2, <3>1, EndOfQueue, JoinedQueues
  <2>3. CASE Quiet(t)
    <3>1. UNCHANGED setAside /\ EndIsLast(posted') /\ EndIsLast(setAside')
      <4>1. CASE Silent
        BY <1>1, <2>1, <4>1, EndOfQueue DEF Silent, messages
      <4>2. /\ <<Update("covered")>> \in Seq(Updates)
            /\ EndIsLast(<<Update("covered")>>)
            /\ <<Update("before"), Update("covered")>> \in Seq(Updates)
            /\ EndIsLast(<<Update("before"), Update("covered")>>)
        BY UpdatesTyped, UpdatesFinal DEF EndIsLast, Kinds
      <4> QED
        BY <2>2, <2>3, <4>1, <4>2 DEF Quiet
    <3> QED
      BY <1>0, <1>2, <1>4, <2>1, <2>3, <3>1 DEF Quiet, RealInv
  <2>4. ASSUME NEW u \in Updates, Says(t, u)
        PROVE  (RealInv)'
    <3>1. <<u>> \in Seq(Updates) /\ EndIsLast(<<u>>) /\ ~NoFinal(<<u>>) /\ Post(<<u>>)
      BY <2>4, UpdatesTyped, EndOfQueue, SingleQueue DEF Says
    <3> QED
      BY <1>0, <1>2, <2>1, <2>2, <3>1 DEF RealInv
  <2> QED
    BY <2>3, <2>4, ThreadVoice
<1> QED
  BY <1>3, <1>4

\* Threads and messages still, and the window not alone after the step.
LEMMA StillKeepsReal ==
    ASSUME RealInv, Open, ~overtaken, ~Alone, ~Alone',
           UNCHANGED <<threads, posted, setAside, running>>,
           ui' # "reinspecting"
    PROVE  (RealInv)'
BY ThreadsStill DEF RealInv

\* Nothing under way and nothing running, or the window alone.
LEMMA IdleKeepsReal ==
    ASSUME posted' = <<>>, setAside' = <<>>,
           \/ ~running' \/ (\E t \in Ops : Live(t)')
           \/ Alone' /\ ui' # "reinspecting",
           ui' = "reinspecting" => ~running'
    PROVE  (RealInv)'
BY EmptyQueue, EndOfQueue, EmptySeq DEF RealInv

LEMMA WindowKeepsReal ==
    ASSUME SessionAssumption, TypeInv, SessionInv, RealInv, ~overtaken', Open, Open',
           WindowStep
    PROVE  (RealInv)'
<1>0. posted \in Seq(Updates) /\ setAside \in Seq(Updates)
  BY DEF TypeInv, TypeOK
<1>1. CASE BeginInstallation
  <2>1. /\ NoFinal(posted) /\ setAside = <<>> /\ UNCHANGED <<posted, setAside>>
        /\ ui' = "idle" /\ running'
    BY <1>1 DEF BeginInstallation, SessionInv, OneVoice, Dialogues, messages
  <2>2. PICK temporary \in Regions :
            threads' = [threads EXCEPT ![ops + 1] = Beginning(temporary)]
    BY <1>1 DEF BeginInstallation, Beginning
  <2>3. ops + 1 \in Ops
    BY <1>1 DEF BeginInstallation, TypeInv, TypeOK, Ops, SessionAssumption
  <2>4. PICK t \in Ops : threads'[t].pc = "reading"
    BY <2>2, <2>3 DEF TypeInv, TypeOK, Beginning, NotBegun
  <2>5. Live(t)'
    BY <2>4 DEF Live, Works, Told, Returning
  <2>6. NoFinal(setAside) /\ EndIsLast(setAside) /\ EndIsLast(posted)
    BY <1>0, <2>1, EmptyQueue, EndOfQueue
  <2>7. ~Alone' /\ ui' # "reinspecting"
    BY <2>1 DEF Alone, Recovery
  <2> QED
    BY <2>1, <2>5, <2>6, <2>7 DEF RealInv
<1>2. CASE ApplyInstallationUpdate
  <2> DEFINE u == Head(posted)
  <2>1. /\ ui = "idle" /\ ~Alone /\ posted # <<>>
        /\ posted' = Tail(posted) /\ setAside = <<>> /\ setAside' = <<>>
        /\ UNCHANGED threads /\ ~overtaken
        /\ running' <=> ~(u.kind = "over" \/ u.failed)
        /\ ui' = IF u.awaiting THEN "deciding" ELSE "idle"
    BY <1>2 DEF ApplyInstallationUpdate, WindowOnly, SessionInv, OneVoice, Dialogues, Alone,
                Recovery
  <2>2. running /\ EndIsLast(posted)
    BY <2>1 DEF RealInv
  <2>3. CASE Final(u)
    <3>1. posted' = <<>>
      BY <1>0, <2>1, <2>2, <2>3, EndOfQueue
    <3>2. ~running' \/ (Alone' /\ ui' # "reinspecting")
      BY <2>1, <2>3 DEF Final, Alone
    <3> QED
      BY <2>1, <3>1, <3>2, IdleKeepsReal
  <2>4. CASE ~Final(u)
    <3>1. /\ NoFinal(posted') <=> NoFinal(posted)
          /\ EndIsLast(posted')
      BY <1>0, <2>1, <2>2, <2>4, TakenQueue, EndOfQueue
    <3>2. running' /\ ui' = "idle" /\ ~Alone'
      BY <2>1, <2>4 DEF Final, Alone, Recovery
    <3>3. (\E t \in Ops : Live(t)') \/ ~NoFinal(posted')
      BY <2>1, <2>2, <3>1, EmptyQueue, ThreadsStill DEF RealInv
    <3>4. NoFinal(setAside') /\ EndIsLast(setAside')
      BY <1>0, <2>1, EmptyQueue, EndOfQueue
    <3> QED
      BY <3>1, <3>2, <3>3, <3>4 DEF RealInv
  <2> QED
    BY <2>3, <2>4
<1>3. CASE HoldUntilModalEnds
  <2> DEFINE u == Head(posted)
  <2>1. /\ posted # <<>> /\ posted' = Tail(posted) /\ setAside' = Append(setAside, u)
        /\ UNCHANGED <<threads, ui, recovering, running>> /\ ~overtaken
    BY <1>3 DEF HoldUntilModalEnds, WindowOnly, window
  <2>2. running /\ ~Alone /\ ~Alone' /\ NoFinal(setAside) /\ EndIsLast(posted)
        /\ ui' # "reinspecting"
    BY <2>1 DEF RealInv, Alone
  <2>3. setAside' = setAside \o <<u>> /\ <<u>> \in Seq(Updates) /\ u \in Updates
    BY <1>0, <2>1, TakesTyped, TypePieces, AppendIsConcat
  <2> HIDE DEF u
  <2>4. EndIsLast(setAside') /\ (NoFinal(setAside') <=> ~Final(u))
    BY <1>0, <2>2, <2>3, EndOfQueue, JoinedQueues, SingleQueue
  <2>5. /\ EndIsLast(posted') /\ (Final(u) => posted' = <<>>)
        /\ NoFinal(posted) <=> ~Final(u) /\ NoFinal(posted')
    BY <1>0, <2>1, <2>2, EndOfQueue, TakenQueue DEF u
  <2>6. (\E t \in Ops : Live(t)') \/ ~NoFinal(posted') \/ ~NoFinal(setAside')
    BY <2>1, <2>2, <2>4, <2>5, ThreadsStill DEF RealInv
  <2> QED
    BY <2>1, <2>2, <2>4, <2>5, <2>6 DEF RealInv
<1>4. CASE OpenDialogue \/ RequestWindowClose
  <2>1. /\ ui = "idle" /\ ~Alone /\ ~overtaken
        /\ UNCHANGED <<threads, posted, setAside, running>>
        /\ ui' \in Dialogues \ {"deciding"}
    BY <1>4, CloseSteps
    DEF OpenDialogue, WindowOnly, messages, Alone, Recovery, Dialogues, Open
  <2>2. ~Alone' /\ ui' # "reinspecting"
    BY <2>1 DEF Alone, Recovery, Dialogues
  <2> QED
    BY <2>1, <2>2, StillKeepsReal
<1>5. CASE EndDialogue \/ AnswerClosing
  <2>1. /\ ui \in {"otherDialogue", "closing"} /\ ~Alone
        /\ PostAgain /\ UNCHANGED <<threads, running>>
    BY <1>5, ClosingSteps DEF EndDialogue, WindowOnly, Alone, Recovery
  <2>2. ~Alone' /\ ui' # "reinspecting"
    BY <1>5, ClosingSteps DEF EndDialogue, BeginRecovery, Alone, Recovery
  <2>3. ~overtaken /\ (setAside = <<>> \/ NoFinal(posted))
    <3>1. DOMAIN posted = 1 .. Len(posted)
      BY <1>0
    <3> QED
      BY <2>1, <3>1 DEF PostAgain, NoFinal
  <2>4. /\ setAside' = <<>> /\ NoFinal(setAside') /\ EndIsLast(setAside')
        /\ NoFinal(posted') <=> NoFinal(posted) /\ NoFinal(setAside)
    BY <1>0, <2>1, EmptyQueue, EndOfQueue, JoinedQueues DEF PostAgain
  <2>5. EndIsLast(posted')
    <3>1. CASE setAside = <<>>
      BY <1>0, <2>1, <2>3, <3>1, ConcatEmptySeq DEF PostAgain, RealInv
    <3>2. CASE NoFinal(posted)
      BY <1>0, <2>1, <2>3, <3>2, EndOfQueue DEF PostAgain, RealInv
    <3> QED
      BY <2>3, <3>1, <3>2
  <2>6. ~running => posted' = <<>>
    BY <1>0, <2>1, <2>3, NothingPosted DEF PostAgain, RealInv
  <2> QED
    BY <1>0, <2>1, <2>2, <2>4, <2>5, <2>6, <2>3, ThreadsStill DEF RealInv
<1>6. CASE AnswerDeadline
  <2>1. PostAgain /\ posted = <<>> /\ setAside = <<>>
    BY <1>6, DeadlineSteps DEF RealInv, Alone, PostAgain
  <2>2. posted' = <<>> /\ setAside' = <<>>
    BY <1>0, <2>1, NothingPosted DEF PostAgain
  <2>3. CASE running' = FALSE
    BY <2>2, <2>3, IdleKeepsReal
  <2>4. CASE BeginRecovery(FALSE)
    BY <2>2, <2>4, IdleKeepsReal DEF BeginRecovery, Alone, Recovery
  <2>5. CASE /\ record # NoRecord /\ ui' = "idle"
             /\ threads' = [threads EXCEPT ![record.op] = TakingOver]
    <3>1. PICK t \in Ops : threads'[t].pc = "resuming"
      BY <2>5 DEF TypeInv, TypeOK, Records, TakingOver, NotBegun
    <3>2. Live(t)'
      BY <3>1 DEF Live, Works, Told, Returning
    <3> QED
      BY <2>2, <2>5, <3>2, IdleKeepsReal
  <2> QED
    BY <1>6, <2>3, <2>4, <2>5, DeadlineSteps
<1>7. CASE Reinspect
  <2>1. /\ posted = <<>> /\ setAside = <<>> /\ ~running /\ ~overtaken
        /\ UNCHANGED <<posted, setAside, running>> /\ ui' = "idle"
    BY <1>7, ReinspectSteps DEF RealInv, Alone, messages
  <2> QED
    BY <2>1, IdleKeepsReal
<1>8. CASE ProcessEnds
  BY <1>8 DEF ProcessEnds, Open
<1> QED
  BY <1>1, <1>2, <1>3, <1>4, <1>5, <1>6, <1>7, <1>8 DEF WindowStep

LEMMA RecoverKeepsReal ==
    ASSUME TypeInv, SessionInv, RealInv, ~overtaken, Open', RecoverRegion
    PROVE  (RealInv)'
<1>0. /\ ui \in Recovery /\ Open /\ ui # "reinspecting"
      /\ UNCHANGED <<threads, posted, setAside>>
  BY RecoverySteps DEF Open, Recovery, messages
<1>1. CASE Alone
  <2>1. posted = <<>> /\ setAside = <<>> /\ ~recovering.exits
    BY <1>0, <1>1 DEF RealInv, Alone, Recovery
  <2>2. \/ ui' = "reinspecting" /\ ~running'
        \/ ui' \in Recovery /\ ~recovering'.exits
    BY <2>1, RecoverySteps DEF Recovered, Goes, Carries, Recovery, TypeInv, TypeOK
  <2>3. ui' \in Recovery /\ ~recovering'.exits => Alone' /\ ui' # "reinspecting"
    BY DEF Alone, Recovery
  <2> QED
    BY <1>0, <2>1, <2>2, <2>3, IdleKeepsReal
<1>2. CASE ~Alone
  <2>1. recovering.exits
    BY <1>0, <1>2 DEF Alone
  <2>2. /\ UNCHANGED running
        /\ \/ ui' \in {"leaving", "idle"}
           \/ ui' \in Recovery /\ recovering'.exits
    BY <1>0, <2>1, RecoverySteps DEF Recovered, Goes, Carries, Recovery, TypeInv, TypeOK
  <2>3. ~Alone' /\ ui' # "reinspecting"
    BY <2>2 DEF Alone, Recovery
  <2> QED
    BY <1>0, <1>2, <2>2, <2>3, StillKeepsReal
<1> QED
  BY <1>1, <1>2

LEMMA RealStep ==
    ASSUME SessionAssumption, TypeInv, SessionInv, RealInv, [Next]_vars
    PROVE  (RealInv)'
<1>1. CASE UNCHANGED vars
  <2>1. UNCHANGED <<threads, posted, setAside, ui, recovering, running, overtaken>>
    BY <1>1 DEF vars
  <2>2. (Alone' <=> Alone) /\ (Open' <=> Open)
    BY <2>1 DEF Alone, Open
  <2> QED
    BY <2>1, <2>2, ThreadsStill DEF RealInv
<1>2. CASE overtaken' \/ ~Open'
  BY <1>2 DEF RealInv
<1>3. CASE ~overtaken' /\ Open' /\ WindowStep
  <2>1. Open
    BY <1>3, DeadlineSteps, ClosingSteps, CloseSteps, ReinspectSteps
    DEF WindowStep, BeginInstallation, ApplyInstallationUpdate, HoldUntilModalEnds,
        OpenDialogue, EndDialogue, ProcessEnds, Dialogues, Open
  <2> QED
    BY <1>3, <2>1, WindowKeepsReal
<1>4. CASE ~overtaken' /\ Open' /\ RecoverRegion
  BY <1>4, RecoverySteps, RecoverKeepsReal
<1> QED
  BY <1>1, <1>2, <1>3, <1>4, NextSteps, ThreadKeepsReal

-----------------------------------------------------------------------------
(* The theorems.                                                           *)

Inv == TypeInv /\ SessionInv /\ CoveredInv /\ RealInv

LEMMA InvHolds == ASSUME SessionAssumption PROVE Spec => []Inv
<1>1. Init => Inv
  <2> SUFFICES ASSUME Init PROVE Inv
    OBVIOUS
  <2>1. TypeInv /\ SessionInv
    BY TypeInit, SessionInit
  <2>2. CoveredInv
    BY DEF Init, CoveredInv
  <2>3. RealInv
    BY EmptyQueue, EndOfQueue, EmptySeq DEF Init, RealInv, Alone, Recovery
  <2> QED
    BY <2>1, <2>2, <2>3 DEF Inv
<1>2. Inv /\ [Next]_vars => Inv'
  BY TypeStep, SessionStep, CoveredStep, RealStep DEF Inv
<1> QED
  BY <1>1, <1>2, PTL DEF Spec

(* Every variable keeps its type, whatever the regions, however many       *)
(* operations are begun and however many messages are under way.           *)
THEOREM SessionTypes == ASSUME SessionAssumption PROVE Spec => []TypeOK
<1>1. Inv => TypeOK
  BY DEF Inv, TypeInv
<1> QED
  BY <1>1, InvHolds, PTL

(* Two operations never hold the region at once while the window is open:  *)
(* the record names whoever holds it, and a record is replaced only by one *)
(* of the same operation (store.rs:83).                                    *)
THEOREM RegionHasOneHolder == ASSUME SessionAssumption PROVE Spec => []OneHolder
<1>1. Inv => OneHolder
  <2> SUFFICES ASSUME Inv, Open, NEW s \in Ops, NEW t \in Ops, Holds(s), Holds(t)
               PROVE  s = t
    BY DEF OneHolder, Open
  <2> QED
    BY HolderIsNamed DEF Inv, SessionInv
<1> QED
  BY <1>1, InvHolds, PTL

(* The answer to a deadline and the recovery it sets off have the record   *)
(* and the region to themselves (window.rs:468): the question is the last  *)
(* thing an operation posts, and the window admits no other before it.     *)
THEOREM DecisionsAreAlone == ASSUME SessionAssumption PROVE Spec => []DecisionIsAlone
<1>1. Inv => DecisionIsAlone
  BY LiveWorks DEF Inv, SessionInv, AskedAlone, DecisionIsAlone, Alone, Open, Recovery
<1> QED
  BY <1>1, InvHolds, PTL

(* While one operation was begun and the window is open, a region it took  *)
(* away is named by the published record, although the window may recover  *)
(* beside the operation's thread (window.rs:616).                          *)
THEOREM SingleOperationIsCovered ==
    ASSUME SessionAssumption PROVE Spec => []OneOperationIsCovered
<1>1. Inv => OneOperationIsCovered
  BY DEF Inv, CoveredInv, OneOperationIsCovered, Covered, Open, SameIdentity
<1> QED
  BY <1>1, InvHolds, PTL

(* An operation shown as running has a thread, or a message on its way     *)
(* (window.rs:1457), unless an update that a dialogue held back was posted *)
(* again behind its end (state.rs:94); a later operation is shown truly.   *)
THEOREM RunningHasAThread ==
    ASSUME SessionAssumption PROVE Spec => []RunningIsReal
<1>1. Inv => RunningIsReal
  BY LiveWorks, EmptyQueue
  DEF Inv, SessionInv, OneVoice, RealInv, RunningIsReal, Alone, Open, Recovery, Dialogues
<1> QED
  BY <1>1, InvHolds, PTL

===============================================================================
