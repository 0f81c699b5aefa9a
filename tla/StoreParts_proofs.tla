--------------------------- MODULE StoreParts_proofs ---------------------------
(***************************************************************************)
(* The starts of the program, the scan for updates and the search for a    *)
(* region, for any number of processes, applications, products, markets,   *)
(* threads and passes.                                                     *)
(*                                                                         *)
(* One session has one owner at a time: an owner keeps its handle until it *)
(* releases it, so a start that finds the mutex free finds no owner beside *)
(* it.                                                                     *)
(***************************************************************************)
EXTENDS StoreParts, TLAPS, SequenceTheorems, FiniteSetTheorems, FunctionTheorems

Places ==
  {"unstarted", "acquiring", "second", "activating", "creating", "created", "running",
   "releasing", "leaving", "exited"}

Holders == {p \in Starts : at[p] \in {"created", "running"}}

IInv ==
  /\ at \in [Starts -> Places]
  /\ code \in [Starts -> {"none", "ok", "failed", "wrong", "killed"}]
  /\ handles \subseteq Starts
  /\ Owners \subseteq handles
  /\ windows = Holders
  /\ OneOwner

LEMMA InitIInv == Init => IInv
BY DEF Init, IInv, Owners, Holders, OneOwner, Places

\* A step that makes no owner keeps the one there is.
LEMMA FewerOwners ==
    ASSUME IInv, at' \in [Starts -> Places],
           code' \in [Starts -> {"none", "ok", "failed", "wrong", "killed"}],
           handles' \subseteq Starts,
           Owners' \subseteq Owners, Owners' \subseteq handles', windows' = Holders'
    PROVE  IInv'
BY DEF IInv, OneOwner, Owners, Holders, Places

\* The start that finds the mutex free has no owner beside it.
LEMMA FirstIsAlone ==
    ASSUME IInv, NEW p \in Starts, ~Taken(p)
    PROVE  \A q \in Owners : SessionOf[q] # SessionOf[p]
BY DEF IInv, Taken, Neighbours, Owners

LEMMA AcquireKeepsIInv ==
    ASSUME IInv, NEW p \in Starts, Acquire(p)
    PROVE  IInv'
<1>1. CASE Ends(p, "failed") /\ UNCHANGED handles
    <2>1. Owners' \subseteq Owners /\ Owners \subseteq Owners'
        BY <1>1 DEF Acquire, Ends, Move, Owners, IInv
    <2> QED
        BY <1>1, <2>1, FewerOwners DEF Acquire, Ends, Move, IInv, Places, OneOwner, Holders
<1>2. CASE /\ Move(p, IF Taken(p) THEN "second" ELSE "creating")
           /\ handles' = handles \cup {p}
           /\ UNCHANGED code
    <2>1. CASE Taken(p)
        <3>1. Owners' \subseteq Owners /\ Owners \subseteq Owners'
            BY <1>2, <2>1 DEF Acquire, Move, Owners, IInv
        <3> QED
            BY <1>2, <2>1, <3>1, FewerOwners DEF Acquire, Move, IInv, Places, OneOwner, Holders
    <2>2. CASE ~Taken(p)
        <3>1. Owners' = Owners \cup {p}
            BY <1>2, <2>2 DEF Acquire, Move, Owners, IInv
        <3>2. OneOwner'
            BY <3>1, <2>2, FirstIsAlone DEF OneOwner, Acquire, IInv, Owners, Holders
        <3> QED
            BY <1>2, <2>2, <3>1, <3>2 DEF Acquire, Move, IInv, Places, Holders
    <2> QED  BY <2>1, <2>2
<1> QED  BY <1>1, <1>2 DEF Acquire

LEMMA NextKeepsIInv == IInv /\ [Next]_vars => IInv'
<1> SUFFICES ASSUME IInv, [Next]_vars PROVE IInv'
    OBVIOUS
<1>1. ASSUME NEW p \in Starts, NEW line \in Arguments, Start(p, line)
      PROVE  IInv'
    <2>1. Owners' \subseteq Owners /\ Owners \subseteq Owners'
        BY <1>1 DEF Start, Ends, Move, Owners, IInv
    <2> QED
        BY <1>1, <2>1, FewerOwners DEF Start, Ends, Move, IInv, Places, OneOwner, Holders
<1>2. ASSUME NEW p \in Starts, CloseSecond(p) \/ Activate(p) \/ Exit(p)
      PROVE  IInv'
    <2>1. Owners' \subseteq Owners /\ Owners \subseteq Owners' /\ p \notin Owners
        BY <1>2 DEF CloseSecond, Activate, Exit, Ends, Move, Owners, IInv
    <2> QED
        BY <1>2, <2>1, FewerOwners
        DEF CloseSecond, Activate, Exit, Ends, Move, IInv, Places, OneOwner, Holders
<1>3. ASSUME NEW p \in Starts, CreateWindow(p) \/ Show(p) \/ Close(p)
      PROVE  IInv'
    <2>1. Owners' \subseteq Owners /\ Owners \subseteq Owners' /\ p \in Owners
        BY <1>3 DEF CreateWindow, Show, Close, Fails, Move, Owners, IInv
    <2> QED
        BY <1>3, <2>1, FewerOwners
        DEF CreateWindow, Show, Close, Fails, Move, IInv, Places, OneOwner, Holders
<1>4. ASSUME NEW p \in Starts, Release(p) \/ Killed(p)
      PROVE  IInv'
    <2>1. Owners' = Owners \ {p}
        BY <1>4 DEF Release, Killed, Move, Owners, IInv
    <2> QED
        BY <1>4, <2>1, FewerOwners DEF Release, Killed, Move, IInv, Places, OneOwner, Holders
<1>5. CASE UNCHANGED vars
    BY <1>5 DEF vars, IInv, Owners, OneOwner, Holders
<1> QED
    BY <1>1, <1>2, <1>3, <1>4, <1>5, AcquireKeepsIInv DEF Next, Step

THEOREM Invariance == Spec => []IInv
<1> QED  BY InitIInv, NextKeepsIInv, PTL DEF Spec

\* One session has one owner of the program at a time.
THEOREM SessionHasOneOwner == Spec => []OneOwner
<1>1. IInv => OneOwner
    BY DEF IInv
<1> QED  BY <1>1, Invariance, PTL

------------------------------------------------------------------------------
(***************************************************************************)
(* The scan for updates.  A scan that is over has asked about every        *)
(* application, and nothing of it moves again; until then the threads that *)
(* ask and the answers counted are together the applications taken.        *)
(***************************************************************************)
Count == Cardinality(Applications)

Refused(listed, market) ==
    \A a \in listed : a \in Applications /\ Scan!NeedsAnotherRegion(a, market)

Asking(s) == {w \in Scan!Workers : s.worker[w].at = "asking"}

TakenOf(s) == IF s.next <= Count THEN s.next - 1 ELSE Count

Gone(s) == \A w \in Scan!Workers : s.worker[w].at = "gone"

ThreadFits(s, w) ==
    /\ s.at = "joining" /\ w <= Count /\ s.worker[w].at = "gone" => s.next > Count
    /\ s.worker[w].at = "asking" => s.worker[w].application \in Applications
    /\ s.worker[w].at = "adding" /\ s.worker[w].worth =>
           Refused({s.worker[w].application}, s.market)

ScanFits(s) ==
    /\ s \in Scan!Scans /\ s.next > 0
    /\ s.done + Cardinality(Asking(s)) = TakenOf(s)
    /\ \A w \in Scan!Workers : ThreadFits(s, w)
    /\ s.at # "joining" => Gone(s)
    /\ s.at = "listing" => s.next = 1
    /\ s.at \in {"saving", "closing"} => s.done = Count
    /\ Refused(s.found, s.market)

Answered(s, listed) == s.at = "over" /\ s.done = Count /\ listed = s.found

Generations == DOMAIN scan

ReportFits(message) ==
    /\ message.generation \in Generations
    /\ message.view \in Scan!Views
    /\ message.view.kind = "Ready" =>
           Answered(scan[message.generation], message.view.listed)

RememberedFits(message) ==
    /\ message.generation = 0 /\ startup.at = "over"
    /\ message.view # Nothing =>
           /\ message.view \in [market: Asked, listed: SUBSET Applications]
           /\ Refused(message.view.listed, startup.market)

ScanTyped ==
    /\ catalogue \in [Applications -> Scan!Worlds]
    /\ region \in Asked \cup {Nothing} /\ current \in Asked \cup {Nothing}
    /\ view \in Scan!Views
    /\ taken \in BOOLEAN
    /\ scan \in Seq(Scan!Scans)
    /\ saved \in Scan!Remembered
    /\ startup \in [at: {"region", "file", "over"}, market: Asked \cup {Nothing}]
    /\ scanInbox \in Seq([generation: Nat, view: Scan!Views \cup Scan!Remembered])
    /\ from \in 0 .. Len(scan)

ViewFits ==
    view.kind = "Ready" =>
        IF from = 0 THEN startup.at = "over" /\ Refused(view.listed, startup.market)
        ELSE from = Len(scan) /\ Answered(scan[from], view.listed)

InboxFits ==
    \A i \in DOMAIN scanInbox :
        ReportFits(scanInbox[i]) \/ RememberedFits(scanInbox[i])

ScanInv ==
    /\ ScanTyped
    /\ \A g \in Generations : ScanFits(scan[g])
    /\ saved # Nothing => Refused(saved.listed, saved.market)
    /\ InboxFits
    /\ ViewFits

\* The instance counts as this module does, and lists every application once.
LEMMA ScanCountsAgree ==
    \A S : /\ Scan!IsFiniteSet(S) <=> IsFiniteSet(S)
          /\ Scan!Cardinality(S) = Cardinality(S)
<1>1. \A S : Scan!IsFiniteSet(S) <=> IsFiniteSet(S)
    BY DEF Scan!IsFiniteSet, IsFiniteSet
<1>2. \A S : Scan!Cardinality(S) = Cardinality(S)
    BY DEF Scan!Cardinality, Cardinality
<1> QED  BY <1>1, <1>2

LEMMA ScanConstants ==
    /\ IsFiniteSet(Applications) /\ Count \in Nat
    /\ Scan!Cardinality(Applications) = Count
    /\ Nothing \notin Asked /\ Concurrency \in Nat \ {0}
    /\ MaxScans \in Nat /\ MaxMoves \in Nat
<1>1. IsFiniteSet(Applications)
    BY PartsFit, ScanCountsAgree DEF Scan!ScanAssumption
<1>2. Count \in Nat
    BY <1>1, FS_CardinalityType DEF Count
<1> QED
    BY <1>1, <1>2, PartsFit, ScanCountsAgree DEF Scan!ScanAssumption, Count

LEMMA Listing == \A i \in 1 .. Count : Scan!SetToSeq(Applications)[i] \in Applications
<1> DEFINE Lists(f) == f \in [1 .. Count -> Applications] /\ Scan!IsInjective(f)
<1>1. \E f : Lists(f)
    <2>1. ExistsBijection(1 .. Count, Applications)
        BY ScanConstants, FS_CardinalityType DEF Count
    <2>2. PICK f \in Bijection(1 .. Count, Applications) : TRUE
        BY <2>1 DEF ExistsBijection
    <2>3. f \in [1 .. Count -> Applications]
        BY <2>2 DEF Bijection, Injection
    <2>4. \A x, y \in DOMAIN f : f[x] = f[y] => x = y
        BY <2>2, <2>3 DEF Bijection, Injection, IsInjective
    <2> QED
        BY <2>3, <2>4 DEF Scan!IsInjective
<1>2. Scan!SetToSeq(Applications) \in [1 .. Count -> Applications]
    BY <1>1, ScanConstants DEF Scan!SetToSeq
<1> QED  BY <1>2

\* A subset of the threads is finite.
LEMMA AskingIsFinite ==
    ASSUME NEW s
    PROVE  IsFiniteSet(Asking(s)) /\ Cardinality(Asking(s)) \in Nat
<1>1. IsFiniteSet(Scan!Workers)
    BY ScanConstants, FS_Interval DEF Scan!Workers
<1>2. Asking(s) \in SUBSET Scan!Workers
    BY DEF Asking
<1> QED  BY <1>1, <1>2, FS_Subset, FS_CardinalityType

LEMMA ScanInit == ScanBegins => ScanInv
<1> SUFFICES ASSUME ScanBegins PROVE ScanInv
    OBVIOUS
<1> USE DEF ScanBegins, Scan!Init
<1>1. ScanTyped
    <2>1. view \in Scan!Views
        BY DEF Scan!Views, Scan!Shows
    <2>2. startup \in [at: {"region", "file", "over"}, market: Asked \cup {Nothing}]
        OBVIOUS
    <2>3. scan \in Seq(Scan!Scans) /\ from \in 0 .. Len(scan)
        OBVIOUS
    <2>4. scanInbox \in Seq([generation: Nat, view: Scan!Views \cup Scan!Remembered])
        OBVIOUS
    <2> QED
        BY <2>1, <2>2, <2>3, <2>4 DEF ScanTyped
<1>2. saved # Nothing => Refused(saved.listed, saved.market)
    BY DEF Refused, Scan!Remembered
<1>3. ViewFits /\ InboxFits
    BY DEF ViewFits, InboxFits, Scan!Shows
<1> QED
    BY <1>1, <1>2, <1>3 DEF ScanInv, Generations

\* One scan moves, and may post a report or leave its answer in the file.
LEMMA ScanBecomes ==
    ASSUME ScanInv, NEW g \in Generations, scan[g].at # "over",
           NEW s, ScanFits(s), s.market = scan[g].market, Scan!Becomes(g, s),
           UNCHANGED Scan!Elsewhere,
           saved' \in Scan!Remembered,
           saved' # Nothing => Refused(saved'.listed, saved'.market),
           \/ scanInbox' = scanInbox
           \/ \E message \in [generation: {g}, view: Scan!Views] :
                  /\ scanInbox' = Append(scanInbox, message)
                  /\ message.view.kind = "Ready" => Answered(s, message.view.listed)
    PROVE  ScanInv'
<1> USE DEF Generations
<1>1. /\ scan' \in Seq(Scan!Scans) /\ Len(scan') = Len(scan)
      /\ DOMAIN scan' = DOMAIN scan /\ scan'[g] = s
      /\ \A h \in DOMAIN scan : h # g => scan'[h] = scan[h]
    BY DEF ScanInv, ScanTyped, Scan!Becomes, ScanFits
<1>2. /\ UNCHANGED <<catalogue, region, current, view, taken, startup, from>>
      /\ g \in Nat
    BY DEF Scan!Elsewhere, ScanInv, ScanTyped
<1>3. ScanTyped'
    <2>1. CASE scanInbox' = scanInbox
        BY <2>1, <1>1, <1>2 DEF ScanInv, ScanTyped
    <2>2. ASSUME NEW message \in [generation: {g}, view: Scan!Views],
                 scanInbox' = Append(scanInbox, message)
          PROVE  ScanTyped'
        <3>1. message \in [generation: Nat, view: Scan!Views \cup Scan!Remembered]
            BY <1>2
        <3>2. scanInbox' \in Seq([generation: Nat, view: Scan!Views \cup Scan!Remembered])
            BY <2>2, <3>1 DEF ScanInv, ScanTyped
        <3> QED
            BY <3>2, <1>1, <1>2 DEF ScanInv, ScanTyped
    <2> QED  BY <2>1, <2>2
<1>4. \A listed, market : Refused(listed, market)' <=> Refused(listed, market)
    BY <1>2 DEF Refused, Scan!NeedsAnotherRegion
<1>5. \A h \in Generations' : ScanFits(scan[h])'
    <2>1. ASSUME NEW h \in DOMAIN scan, NEW r, r = scan'[h], ScanFits(r)
          PROVE  ScanFits(scan[h])'
        <3>1. ScanFits(scan[h])' <=> ScanFits(r)'
            BY <2>1
               DEF ScanFits, ThreadFits, Gone, Refused, Asking, TakenOf
        <3>2. ScanFits(r)'
            BY <2>1, <1>4 DEF ScanFits, ThreadFits
        <3> QED  BY <3>1, <3>2
    <2> QED
        BY <1>1, <2>1 DEF ScanInv
<1>6. InboxFits'
    <2>1. ASSUME NEW message, ReportFits(message) \/ RememberedFits(message)
          PROVE  (ReportFits(message) \/ RememberedFits(message))'
        BY <2>1, <1>1, <1>2, <1>4
           DEF ReportFits, RememberedFits, Answered
    <2>2. CASE scanInbox' = scanInbox
        BY <2>1, <2>2 DEF ScanInv, InboxFits
    <2>3. ASSUME NEW message \in [generation: {g}, view: Scan!Views],
                 scanInbox' = Append(scanInbox, message),
                 message.view.kind = "Ready" => Answered(s, message.view.listed)
          PROVE  InboxFits'
        <3>1. ReportFits(message)'
            BY <2>3, <1>1 DEF ReportFits, Answered
        <3>2. \A i \in DOMAIN scanInbox' :
                  scanInbox'[i] = message \/
                      (i \in DOMAIN scanInbox /\ scanInbox'[i] = scanInbox[i])
            BY <2>3 DEF ScanInv, ScanTyped
        <3>3. ASSUME NEW i \in DOMAIN scanInbox', NEW m, m = scanInbox'[i]
              PROVE  (ReportFits(scanInbox[i]) \/ RememberedFits(scanInbox[i]))'
            <4>1. (ReportFits(m) \/ RememberedFits(m))'
                BY <3>1, <3>2, <3>3, <2>1 DEF ScanInv, InboxFits
            <4> QED
                BY <4>1, <3>3 DEF ReportFits, RememberedFits
        <3> QED
            BY <3>3 DEF InboxFits
    <2> QED  BY <2>2, <2>3
<1>7. ViewFits'
    <2>1. CASE view.kind = "Ready" /\ from # 0
        <3>1. from # g /\ from \in DOMAIN scan
            BY <2>1 DEF ScanInv, ScanTyped, ViewFits, Answered
        <3> QED
            BY <3>1, <1>1, <1>2, <2>1 DEF ScanInv, ViewFits, Answered
    <2>2. CASE ~(view.kind = "Ready" /\ from # 0)
        BY <2>2, <1>2, <1>4 DEF ScanInv, ViewFits
    <2> QED  BY <2>1, <2>2
<1> QED
    BY <1>3, <1>4, <1>5, <1>6, <1>7 DEF ScanInv

\* A thread at work: its scan is joining its threads.
LEMMA ThreadMoves ==
    ASSUME NEW r, ScanFits(r), NEW w \in Scan!Workers, r.worker[w].at # "gone",
           NEW t \in Scan!Threads, NEW s \in Scan!Scans,
           s.worker = [r.worker EXCEPT ![w] = t],
           s.at = r.at, s.market = r.market,
           s.next \in Nat, s.next >= r.next,
           ThreadFits(s, w), Refused(s.found, s.market),
           s.done + Cardinality(Asking(s)) = TakenOf(s)
    PROVE  ScanFits(s)
<1>1. r.at = "joining" /\ r \in Scan!Scans
    BY DEF ScanFits, Gone
<1>2. s.next > 0
    BY <1>1 DEF ScanFits, Scan!Scans
<1>3. ASSUME NEW v \in Scan!Workers, v # w PROVE ThreadFits(s, v)
    <2>1. s.worker[v] = r.worker[v]
        BY <1>1, <1>3 DEF Scan!Scans
    <2>2. ThreadFits(r, v)
        BY DEF ScanFits
    <2>3. Count \in Nat
        BY ScanConstants
    <2> QED
        BY <2>1, <2>2, <2>3, <1>1 DEF ThreadFits, Scan!Scans
<1> QED
    BY <1>1, <1>2, <1>3 DEF ScanFits

\* What changes of the threads that ask when one thread becomes t.
LEMMA AskingMoves ==
    ASSUME NEW r \in Scan!Scans, NEW w \in Scan!Workers, NEW t, NEW s,
           s.worker = [r.worker EXCEPT ![w] = t]
    PROVE  /\ t.at = "asking" /\ r.worker[w].at # "asking" =>
                  Cardinality(Asking(s)) = Cardinality(Asking(r)) + 1
           /\ t.at # "asking" /\ r.worker[w].at = "asking" =>
                  Cardinality(Asking(s)) = Cardinality(Asking(r)) - 1
           /\ t.at # "asking" /\ r.worker[w].at # "asking" =>
                  Cardinality(Asking(s)) = Cardinality(Asking(r))
<1>1. /\ s.worker[w] = t
      /\ \A v \in Scan!Workers : v # w => s.worker[v] = r.worker[v]
    BY DEF Scan!Scans
<1>2. IsFiniteSet(Asking(r))
    BY AskingIsFinite
<1>3. CASE t.at = "asking" /\ r.worker[w].at # "asking"
    <2>1. Asking(s) = Asking(r) \cup {w} /\ w \notin Asking(r)
        BY <1>1, <1>3 DEF Asking
    <2> QED  BY <1>2, <1>3, <2>1, FS_AddElement
<1>4. CASE t.at # "asking" /\ r.worker[w].at = "asking"
    <2>1. Asking(s) = Asking(r) \ {w} /\ w \in Asking(r)
        BY <1>1, <1>4 DEF Asking
    <2> QED  BY <1>2, <1>4, <2>1, FS_RemoveElement
<1>5. CASE t.at # "asking" /\ r.worker[w].at # "asking"
    <2>1. Asking(s) = Asking(r)
        BY <1>1, <1>5 DEF Asking
    <2> QED  BY <1>5, <2>1
<1> QED  BY <1>3, <1>4, <1>5

LEMMA WithFits ==
    ASSUME NEW q \in Scan!Scans, NEW w \in Scan!Workers, NEW t \in Scan!Threads,
           NEW s, s = Scan!With(q, w, t)
    PROVE  /\ s \in Scan!Scans /\ s.worker = [q.worker EXCEPT ![w] = t]
           /\ s.worker[w] = t
           /\ s.at = q.at /\ s.market = q.market /\ s.next = q.next
           /\ s.done = q.done /\ s.found = q.found
<1>1. s \in Scan!Scans
    BY DEF Scan!Scans, Scan!With
<1>2. s.worker = [q.worker EXCEPT ![w] = t] /\ s.worker[w] = t
    BY DEF Scan!Scans, Scan!With
<1>3. /\ s.at = q.at /\ s.market = q.market /\ s.next = q.next
      /\ s.done = q.done /\ s.found = q.found
    BY DEF Scan!Scans, Scan!With
<1> QED  BY <1>1, <1>2, <1>3

\* What a thread becomes.
Takes(u, a) == [u EXCEPT !.at = "asking", !.application = a]
Weighs(u, worth, done) ==
    [u EXCEPT !.at = "adding", !.worth = worth, !.done = done]
Adds(u, next, found) ==
    [u EXCEPT !.at = next, !.listed = found,
              !.worth = FALSE, !.application = Nothing]
Posts(u) == [u EXCEPT !.at = "taking", !.listed = {}]

LEMMA ThreadTakes ==
    ASSUME NEW u \in Scan!Threads, NEW a \in Applications
    PROVE  /\ Takes(u, a) \in Scan!Threads
           /\ Takes(u, a).at = "asking" /\ Takes(u, a).application = a
BY DEF Scan!Threads, Takes

LEMMA ThreadAsks ==
    ASSUME NEW u \in Scan!Threads, NEW b \in BOOLEAN, NEW d \in Nat
    PROVE  /\ Weighs(u, b, d) \in Scan!Threads
           /\ Weighs(u, b, d).at = "adding"
           /\ Weighs(u, b, d).worth = b
           /\ Weighs(u, b, d).application = u.application
BY DEF Scan!Threads, Weighs

LEMMA ThreadAdds ==
    ASSUME NEW u \in Scan!Threads, NEW next \in {"posting", "taking"},
           NEW found \in SUBSET Applications
    PROVE  Adds(u, next, found) \in Scan!Threads /\ Adds(u, next, found).at = next
BY DEF Scan!Threads, Adds

LEMMA ThreadPosts ==
    ASSUME NEW u \in Scan!Threads
    PROVE  Posts(u) \in Scan!Threads /\ Posts(u).at = "taking"
BY DEF Scan!Threads, Posts

\* Whose turn it is among the threads: the scan, and the thread.
LEMMA AtWork ==
    ASSUME ScanInv, NEW g \in Generations, NEW w \in Scan!Workers,
           NEW r, r = scan[g], NEW u, u = r.worker[w], u.at # "gone"
    PROVE  /\ ScanFits(r) /\ r \in Scan!Scans /\ u \in Scan!Threads
           /\ r.at # "over" /\ r.done \in Nat /\ r.next \in Nat \ {0}
           /\ ThreadFits(r, w)
           /\ r.done + Cardinality(Asking(r)) = TakenOf(r)
           /\ Refused(r.found, r.market)
           /\ saved \in Scan!Remembered
<1>1. ScanFits(r) /\ saved \in Scan!Remembered
    BY DEF ScanInv, ScanTyped
<1>2. r \in Scan!Scans /\ r.next > 0 /\ ThreadFits(r, w) /\ r.at # "over"
    BY <1>1 DEF ScanFits, Gone
<1>3. u \in Scan!Threads /\ r.done \in Nat /\ r.next \in Nat
    BY <1>2 DEF Scan!Scans
<1> QED  BY <1>1, <1>2, <1>3 DEF ScanFits

LEMMA TakeKeeps ==
    ASSUME ScanInv, NEW g \in Generations, NEW w \in Scan!Workers,
           Scan!TakeApplication(g, w)
    PROVE  ScanInv'
<1>1. PICK r, u : r = scan[g] /\ u = r.worker[w]
    OBVIOUS
<1>2. u.at = "taking"
    BY <1>1 DEF Scan!TakeApplication
<1>3. /\ ScanFits(r) /\ r \in Scan!Scans /\ u \in Scan!Threads
      /\ r.at # "over" /\ r.done \in Nat /\ r.next \in Nat \ {0}
      /\ r.done + Cardinality(Asking(r)) = TakenOf(r)
      /\ Refused(r.found, r.market) /\ Count \in Nat
    BY <1>1, <1>2, AtWork, ScanConstants
<1>4. PICK q : q = [r EXCEPT !.next = @ + 1]
    OBVIOUS
<1>5. /\ q \in Scan!Scans
      /\ q.worker = r.worker /\ q.at = r.at /\ q.market = r.market
      /\ q.next = r.next + 1 /\ q.done = r.done /\ q.found = r.found
    BY <1>3, <1>4 DEF Scan!Scans
<1>6. PICK t \in Scan!Threads :
          /\ Scan!Becomes(g, Scan!With(q, w, t))
          /\ r.next <= Count => t.at = "asking" /\ t.application \in Applications
          /\ r.next > Count => t.at = "gone"
    <2>1. CASE r.next <= Count
        <3>1. PICK a : a = Scan!SetToSeq(Applications)[r.next]
            OBVIOUS
        <3>2. PICK t : t = Takes(u, a)
            OBVIOUS
        <3>3. a \in Applications
            BY <2>1, <3>1, <1>3, Listing
        <3>4. t \in Scan!Threads /\ t.at = "asking" /\ t.application = a
            BY <3>2, <3>3, <1>3, ThreadTakes
        <3>5. Scan!Becomes(g, Scan!With(q, w, t))
            BY <2>1, <3>1, <3>2, <1>1, <1>4, ScanConstants
               DEF Scan!TakeApplication, Takes
        <3> QED  BY <2>1, <3>3, <3>4, <3>5, <1>3
    <2>2. CASE r.next > Count
        <3>1. PICK t : t = [u EXCEPT !.at = "gone"]
            OBVIOUS
        <3>2. t \in Scan!Threads /\ t.at = "gone"
            BY <3>1, <1>3 DEF Scan!Threads
        <3>3. Scan!Becomes(g, Scan!With(q, w, t))
            BY <2>2, <3>1, <1>1, <1>3, <1>4, ScanConstants DEF Scan!TakeApplication
        <3> QED  BY <2>2, <3>2, <3>3, <1>3
    <2> QED  BY <2>1, <2>2, <1>3
<1>7. PICK s : s = Scan!With(q, w, t)
    OBVIOUS
<1>8. /\ s \in Scan!Scans /\ s.worker = [q.worker EXCEPT ![w] = t]
      /\ s.worker[w] = t
      /\ s.at = q.at /\ s.market = q.market /\ s.next = q.next
      /\ s.done = q.done /\ s.found = q.found
    BY <1>5, <1>7, WithFits
<1>9. s.done + Cardinality(Asking(s)) = TakenOf(s)
    <2>1. CASE r.next <= Count
        <3>1. Cardinality(Asking(s)) = Cardinality(Asking(r)) + 1
            BY <1>1, <1>2, <1>3, <1>5, <1>6, <1>8, <2>1, AskingMoves
        <3> QED
            BY <3>1, <2>1, <1>3, <1>5, <1>8, AskingIsFinite DEF TakenOf
    <2>2. CASE r.next > Count
        <3>1. Cardinality(Asking(s)) = Cardinality(Asking(r))
            BY <1>1, <1>2, <1>3, <1>5, <1>6, <1>8, <2>2, AskingMoves
        <3> QED
            BY <3>1, <2>2, <1>3, <1>5, <1>8, AskingIsFinite DEF TakenOf
    <2> QED  BY <2>1, <2>2, <1>3
<1>10. ThreadFits(s, w)
    BY <1>3, <1>5, <1>6, <1>8 DEF ThreadFits
<1>11. ScanFits(s)
    BY <1>1, <1>2, <1>3, <1>5, <1>8, <1>9, <1>10, ThreadMoves
<1> QED
    BY <1>1, <1>3, <1>5, <1>6, <1>7, <1>8, <1>11, ScanBecomes
       DEF Scan!TakeApplication, ScanInv, ScanTyped

LEMMA AskKeeps ==
    ASSUME ScanInv, NEW g \in Generations, NEW w \in Scan!Workers,
           Scan!AskAboutApplication(g, w)
    PROVE  ScanInv'
<1>1. PICK r, u : r = scan[g] /\ u = r.worker[w]
    OBVIOUS
<1>2. u.at = "asking"
    BY <1>1 DEF Scan!AskAboutApplication
<1>3. /\ ScanFits(r) /\ r \in Scan!Scans /\ u \in Scan!Threads
      /\ r.at # "over" /\ r.done \in Nat /\ r.next \in Nat \ {0}
      /\ r.done + Cardinality(Asking(r)) = TakenOf(r)
      /\ Refused(r.found, r.market) /\ u.application \in Applications
    BY <1>1, <1>2, AtWork DEF ThreadFits
<1>4. PICK q : q = [r EXCEPT !.done = @ + 1]
    OBVIOUS
<1>5. /\ q \in Scan!Scans
      /\ q.worker = r.worker /\ q.at = r.at /\ q.market = r.market
      /\ q.next = r.next /\ q.done = r.done + 1 /\ q.found = r.found
    BY <1>3, <1>4 DEF Scan!Scans
<1>6. PICK t \in Scan!Threads :
          /\ Scan!Becomes(g, Scan!With(q, w, t)) /\ t.at = "adding"
          /\ t.worth => Refused({t.application}, r.market)
    <2> DEFINE b(c) == Scan!IsWorthListing(c)
    <2>1. PICK c \in Scan!SurveyApplication(u.application, r.market) :
              Scan!Becomes(g, Scan!With(q, w, Weighs(u, b(c), r.done + 1)))
        BY <1>1, <1>4 DEF Scan!AskAboutApplication, Weighs
    <2>2. PICK t : t = Weighs(u, b(c), r.done + 1)
        OBVIOUS
    <2>3. b(c) \in BOOLEAN /\ r.done + 1 \in Nat
        BY <2>1, <1>3 DEF Scan!IsWorthListing
    <2>4. /\ t \in Scan!Threads /\ t.at = "adding" /\ t.worth = b(c)
          /\ t.application = u.application
        BY <2>2, <2>3, <1>3, ThreadAsks
    <2>5. b(c) => Refused({u.application}, r.market)
        BY <2>1, <1>3
           DEF Refused, Scan!NeedsAnotherRegion, Scan!IsWorthListing,
               Scan!SurveyApplication
    <2> QED  BY <2>1, <2>2, <2>4, <2>5
<1>7. PICK s : s = Scan!With(q, w, t)
    OBVIOUS
<1>8. /\ s \in Scan!Scans /\ s.worker = [q.worker EXCEPT ![w] = t]
      /\ s.worker[w] = t
      /\ s.at = q.at /\ s.market = q.market /\ s.next = q.next
      /\ s.done = q.done /\ s.found = q.found
    BY <1>5, <1>7, WithFits
<1>9. s.done + Cardinality(Asking(s)) = TakenOf(s)
    <2>1. Cardinality(Asking(s)) = Cardinality(Asking(r)) - 1
        BY <1>1, <1>2, <1>3, <1>5, <1>6, <1>8, AskingMoves
    <2> QED
        BY <2>1, <1>3, <1>5, <1>8, AskingIsFinite DEF TakenOf
<1>10. ThreadFits(s, w)
    BY <1>5, <1>6, <1>8 DEF ThreadFits
<1>11. ScanFits(s)
    BY <1>1, <1>2, <1>3, <1>5, <1>8, <1>9, <1>10, ThreadMoves
<1> QED
    BY <1>1, <1>3, <1>5, <1>6, <1>7, <1>8, <1>11, ScanBecomes
       DEF Scan!AskAboutApplication, ScanInv, ScanTyped

LEMMA AddKeeps ==
    ASSUME ScanInv, NEW g \in Generations, NEW w \in Scan!Workers,
           Scan!AddFinding(g, w)
    PROVE  ScanInv'
<1>1. PICK r, u : r = scan[g] /\ u = r.worker[w]
    OBVIOUS
<1>2. u.at = "adding"
    BY <1>1 DEF Scan!AddFinding
<1>3. /\ ScanFits(r) /\ r \in Scan!Scans /\ u \in Scan!Threads
      /\ r.at # "over" /\ r.done \in Nat /\ r.next \in Nat \ {0}
      /\ r.done + Cardinality(Asking(r)) = TakenOf(r)
      /\ Refused(r.found, r.market)
      /\ u.worth => Refused({u.application}, r.market)
    BY <1>1, <1>2, AtWork DEF ThreadFits
<1>4. PICK f : f = IF u.worth THEN r.found \cup {u.application} ELSE r.found
    OBVIOUS
<1>5. f \in SUBSET Applications /\ Refused(f, r.market)
    BY <1>3, <1>4 DEF Refused
<1>6. PICK q : q = [r EXCEPT !.found = f]
    OBVIOUS
<1>7. /\ q \in Scan!Scans
      /\ q.worker = r.worker /\ q.at = r.at /\ q.market = r.market
      /\ q.next = r.next /\ q.done = r.done /\ q.found = f
    BY <1>3, <1>5, <1>6 DEF Scan!Scans
<1>8. PICK t \in Scan!Threads :
          Scan!Becomes(g, Scan!With(q, w, t)) /\ t.at \in {"posting", "taking"}
    <2> DEFINE next(due) == IF due THEN "posting" ELSE "taking"
               listed(due) == IF due THEN f ELSE {}
    <2>1. PICK due \in BOOLEAN :
              Scan!Becomes(g, Scan!With(q, w, Adds(u, next(due), listed(due))))
        BY <1>1, <1>4, <1>6 DEF Scan!AddFinding, Adds
    <2>2. next(due) \in {"posting", "taking"} /\ listed(due) \in SUBSET Applications
        BY <1>5
    <2> HIDE DEF next, listed
    <2> QED  BY <2>1, <2>2, <1>3, ThreadAdds
<1>9. PICK s : s = Scan!With(q, w, t)
    OBVIOUS
<1>10. /\ s \in Scan!Scans /\ s.worker = [q.worker EXCEPT ![w] = t]
       /\ s.worker[w] = t
       /\ s.at = q.at /\ s.market = q.market /\ s.next = q.next
       /\ s.done = q.done /\ s.found = q.found
    BY <1>7, <1>9, WithFits
<1>11. Cardinality(Asking(s)) = Cardinality(Asking(r))
    BY <1>1, <1>2, <1>3, <1>7, <1>8, <1>10, AskingMoves
<1>12. s.done + Cardinality(Asking(s)) = TakenOf(s)
    BY <1>3, <1>7, <1>10, <1>11 DEF TakenOf
<1>13. ThreadFits(s, w)
    BY <1>8, <1>10 DEF ThreadFits
<1>14. ScanFits(s)
    BY <1>1, <1>2, <1>3, <1>5, <1>7, <1>10, <1>12, <1>13, ThreadMoves
<1> QED
    BY <1>1, <1>3, <1>7, <1>8, <1>9, <1>10, <1>14, ScanBecomes
       DEF Scan!AddFinding, ScanInv, ScanTyped

\* What a scan posts is a report about it.
Reports(g, kind, list) ==
    \E message \in [generation: {g}, view: Scan!Views] :
        /\ scanInbox' = Append(scanInbox, message)
        /\ message.view.kind = kind /\ message.view.listed = list

LEMMA Posted ==
    ASSUME NEW g, NEW kind \in {"Scanning", "Ready", "Unavailable"}, NEW done \in Nat,
           NEW list \in SUBSET Applications, Scan!Post(g, kind, done, list)
    PROVE  Reports(g, kind, list)
<1>1. PICK v : v = Scan!Shows(kind, done, Count, list)
    OBVIOUS
<1>2. v \in Scan!Views /\ v.kind = kind /\ v.listed = list
    BY <1>1, ScanConstants DEF Scan!Shows, Scan!Views
<1>3. scanInbox' = Append(scanInbox, [generation |-> g, view |-> v])
    BY <1>1, ScanConstants DEF Scan!Post
<1> QED  BY <1>2, <1>3 DEF Reports

LEMMA PostKeeps ==
    ASSUME ScanInv, NEW g \in Generations, NEW w \in Scan!Workers,
           Scan!PostProgress(g, w)
    PROVE  ScanInv'
<1>1. PICK r, u : r = scan[g] /\ u = r.worker[w]
    OBVIOUS
<1>2. u.at = "posting"
    BY <1>1 DEF Scan!PostProgress
<1>3. /\ ScanFits(r) /\ r \in Scan!Scans /\ u \in Scan!Threads
      /\ r.at # "over" /\ r.done \in Nat /\ r.next \in Nat \ {0}
      /\ r.done + Cardinality(Asking(r)) = TakenOf(r)
      /\ Refused(r.found, r.market)
    BY <1>1, <1>2, AtWork
<1>4. PICK t : t = Posts(u)
    OBVIOUS
<1>5. t \in Scan!Threads /\ t.at = "taking"
    BY <1>3, <1>4, ThreadPosts
<1>6. PICK s : s = Scan!With(r, w, t)
    OBVIOUS
<1>7. Scan!Becomes(g, s)
    BY <1>1, <1>4, <1>6 DEF Scan!PostProgress, Posts
<1>8. /\ s \in Scan!Scans /\ s.worker = [r.worker EXCEPT ![w] = t]
      /\ s.worker[w] = t
      /\ s.at = r.at /\ s.market = r.market /\ s.next = r.next
      /\ s.done = r.done /\ s.found = r.found
    BY <1>3, <1>5, <1>6, WithFits
<1>9. Cardinality(Asking(s)) = Cardinality(Asking(r))
    BY <1>1, <1>2, <1>3, <1>5, <1>8, AskingMoves
<1>10. s.done + Cardinality(Asking(s)) = TakenOf(s)
    BY <1>3, <1>8, <1>9 DEF TakenOf
<1>11. ThreadFits(s, w)
    BY <1>5, <1>8 DEF ThreadFits
<1>12. ScanFits(s)
    BY <1>1, <1>2, <1>3, <1>5, <1>8, <1>10, <1>11, ThreadMoves
<1>13. PICK d, l : d = u.done /\ l = u.listed
    OBVIOUS
<1>14. d \in Nat /\ l \in SUBSET Applications
    BY <1>3, <1>13 DEF Scan!Threads
<1>15. Scan!Post(g, "Scanning", d, l)
    BY <1>1, <1>13 DEF Scan!PostProgress
<1>16. \E message \in [generation: {g}, view: Scan!Views] :
           /\ scanInbox' = Append(scanInbox, message)
           /\ message.view.kind = "Ready" => Answered(s, message.view.listed)
    <2>1. Reports(g, "Scanning", l)
        BY <1>14, <1>15, Posted
    <2> QED  BY <2>1 DEF Reports
<1> QED
    BY <1>1, <1>3, <1>7, <1>8, <1>12, <1>16, ScanBecomes
       DEF Scan!PostProgress, ScanInv, ScanTyped

\* A scan whose threads are gone moves on.
LEMMA RestingMoves ==
    ASSUME NEW r, ScanFits(r), Gone(r),
           NEW step \in {"saving", "closing", "over"},
           step # "over" => r.done = Count,
           NEW s, s = [r EXCEPT !.at = step]
    PROVE  /\ ScanFits(s) /\ s.market = r.market /\ s.at = step
           /\ s.done = r.done /\ s.found = r.found
<1>1. r \in Scan!Scans
    BY DEF ScanFits
<1>2. s \in Scan!Scans
    BY <1>1 DEF Scan!Scans
<1>3. /\ s.worker = r.worker /\ s.market = r.market /\ s.at = step
      /\ s.next = r.next /\ s.done = r.done /\ s.found = r.found
    BY <1>1 DEF Scan!Scans
<1>4. Asking(s) = Asking(r) /\ TakenOf(s) = TakenOf(r) /\ Gone(s)
    BY <1>3 DEF Asking, TakenOf, Gone
<1>5. \A w \in Scan!Workers : ThreadFits(s, w)
    BY <1>3 DEF ThreadFits, Gone
<1>6. s.at # "listing" /\ s.next > 0 /\ Refused(s.found, s.market)
    BY <1>3 DEF ScanFits
<1>7. s.done + Cardinality(Asking(s)) = TakenOf(s)
    BY <1>3, <1>4 DEF ScanFits
<1> QED
    BY <1>2, <1>3, <1>4, <1>5, <1>6, <1>7 DEF ScanFits

\* With every thread gone, every application has been asked about.
LEMMA GoneIsDone ==
    ASSUME NEW r, ScanFits(r), r.at = "joining", Gone(r)
    PROVE  r.done = Count
<1>1. /\ r.done \in Nat /\ r.next \in Nat /\ Count \in Nat
      /\ Concurrency \in Nat \ {0}
    BY ScanConstants DEF ScanFits, Scan!Scans
<1>2. Asking(r) = {}
    BY DEF Gone, Asking
<1>3. r.done = TakenOf(r)
    BY <1>1, <1>2, FS_EmptySet DEF ScanFits
<1>4. CASE Count = 0
    BY <1>1, <1>3, <1>4 DEF ScanFits, TakenOf
<1>5. CASE Count # 0
    <2>1. 1 \in Scan!Workers
        BY <1>1 DEF Scan!Workers
    <2>2. ThreadFits(r, 1) /\ r.worker[1].at = "gone"
        BY <2>1 DEF ScanFits, Gone
    <2>3. r.next > Count
        BY <1>1, <1>5, <2>2 DEF ThreadFits
    <2> QED  BY <1>1, <1>3, <2>3 DEF TakenOf
<1> QED  BY <1>4, <1>5

LEMMA JoinKeeps ==
    ASSUME ScanInv, NEW g \in Generations, Scan!JoinWorkers(g)
    PROVE  ScanInv'
<1>1. PICK r, s : r = scan[g] /\ s = [r EXCEPT !.at = "saving"]
    OBVIOUS
<1>2. ScanFits(r) /\ Gone(r) /\ r.at = "joining" /\ Scan!Becomes(g, s)
    BY <1>1 DEF ScanInv, Scan!JoinWorkers, Scan!AllGone, Gone
<1>3. ScanFits(s) /\ s.market = r.market
    BY <1>1, <1>2, GoneIsDone, RestingMoves
<1> QED
    BY <1>1, <1>2, <1>3, ScanBecomes
       DEF Scan!JoinWorkers, ScanInv, ScanTyped

LEMMA SaveKeeps ==
    ASSUME ScanInv, NEW g \in Generations, Scan!SaveScan(g)
    PROVE  ScanInv'
<1>1. PICK r, s : r = scan[g] /\ s = [r EXCEPT !.at = "closing"]
    OBVIOUS
<1>2. /\ ScanFits(r) /\ Gone(r) /\ r.at = "saving" /\ r.done = Count
      /\ Scan!Becomes(g, s)
    BY <1>1 DEF ScanInv, ScanFits, Scan!SaveScan
<1>3. ScanFits(s) /\ s.market = r.market
    BY <1>1, <1>2, RestingMoves
<1>4. r.market \in Asked /\ r.found \in SUBSET Applications
    BY <1>2 DEF ScanFits, Scan!Scans
<1>5. /\ saved' \in Scan!Remembered
      /\ saved' # Nothing => Refused(saved'.listed, saved'.market)
    <2>1. saved' \in {saved, Nothing, [market |-> r.market, listed |-> r.found]}
        BY <1>1 DEF Scan!SaveScan
    <2>2. CASE saved' = [market |-> r.market, listed |-> r.found]
        BY <2>2, <1>2, <1>4 DEF Scan!Remembered, ScanFits
    <2>3. CASE saved' \in {saved, Nothing}
        BY <2>3 DEF ScanInv, ScanTyped, Scan!Remembered
    <2> QED  BY <2>1, <2>2, <2>3
<1> QED
    BY <1>1, <1>2, <1>3, <1>5, ScanBecomes DEF Scan!SaveScan

LEMMA CloseKeeps ==
    ASSUME ScanInv, NEW g \in Generations, Scan!CloseScan(g)
    PROVE  ScanInv'
<1>1. PICK r, s : r = scan[g] /\ s = [r EXCEPT !.at = "over"]
    OBVIOUS
<1>2. /\ ScanFits(r) /\ Gone(r) /\ r.at = "closing" /\ r.done = Count
      /\ Scan!Becomes(g, s)
    BY <1>1 DEF ScanInv, ScanFits, Scan!CloseScan
<1>3. /\ ScanFits(s) /\ s.market = r.market /\ s.at = "over"
      /\ s.done = Count /\ s.found = r.found
    BY <1>1, <1>2, RestingMoves
<1>4. PICK f : f = r.found
    OBVIOUS
<1>5. f \in SUBSET Applications /\ Count \in Nat
    BY <1>2, <1>4, ScanConstants DEF ScanFits, Scan!Scans
<1>6. Scan!Post(g, "Ready", Count, f)
    BY <1>1, <1>4, ScanConstants DEF Scan!CloseScan
<1>7. \E message \in [generation: {g}, view: Scan!Views] :
          /\ scanInbox' = Append(scanInbox, message)
          /\ message.view.kind = "Ready" => Answered(s, message.view.listed)
    <2>1. Reports(g, "Ready", f)
        BY <1>5, <1>6, Posted
    <2> QED
        BY <1>3, <1>4, <2>1 DEF Answered, Reports
<1> QED
    BY <1>1, <1>2, <1>3, <1>7, ScanBecomes
       DEF Scan!CloseScan, ScanInv, ScanTyped

LEMMA ListKeeps ==
    ASSUME ScanInv, NEW g \in Generations, Scan!ListApplications(g)
    PROVE  ScanInv'
<1>1. PICK r : r = scan[g]
    OBVIOUS
<1>2. /\ ScanFits(r) /\ Gone(r) /\ r.at = "listing" /\ r \in Scan!Scans
      /\ Count \in Nat
    BY <1>1, ScanConstants DEF ScanInv, ScanFits, Scan!ListApplications
<1>3. ASSUME NEW kind \in {"Unavailable", "Scanning"}, Scan!Post(g, kind, 0, {})
      PROVE  \E message \in [generation: {g}, view: Scan!Views] :
                 /\ scanInbox' = Append(scanInbox, message)
                 /\ message.view.kind # "Ready"
    <2>1. Reports(g, kind, {})
        BY <1>3, Posted
    <2> QED  BY <2>1 DEF Reports
<1>4. CASE /\ Scan!Becomes(g, [scan[g] EXCEPT !.at = "over"])
           /\ Scan!Post(g, "Unavailable", 0, {})
    <2>1. PICK s : s = [r EXCEPT !.at = "over"]
        OBVIOUS
    <2>2. ScanFits(s) /\ s.market = r.market
        BY <1>2, <2>1, RestingMoves
    <2> QED
        BY <1>1, <1>2, <1>3, <1>4, <2>1, <2>2, ScanBecomes
           DEF Scan!ListApplications, ScanInv, ScanTyped
<1>5. ASSUME NEW s,
             s = [r EXCEPT !.at = "joining",
                      !.worker = [w \in Scan!Workers |->
                          IF w <= Count THEN [@[w] EXCEPT !.at = "taking"]
                          ELSE @[w]]]
      PROVE  ScanFits(s) /\ s.market = r.market
    <2> DEFINE Woken(w) == IF w <= Count THEN [r.worker[w] EXCEPT !.at = "taking"]
                           ELSE r.worker[w]
    <2>1. ASSUME NEW w \in Scan!Workers
          PROVE  /\ Woken(w) \in Scan!Threads
                 /\ Woken(w).at = IF w <= Count THEN "taking" ELSE "gone"
        <3>1. r.worker[w] \in Scan!Threads /\ r.worker[w].at = "gone"
            BY <1>2 DEF Scan!Scans, Gone
        <3> QED  BY <3>1 DEF Scan!Threads
    <2>2. PICK f : f = [w \in Scan!Workers |-> Woken(w)]
        OBVIOUS
    <2>3. s = [r EXCEPT !.at = "joining", !.worker = f]
        BY <1>5, <2>2
    <2>4. /\ f \in [Scan!Workers -> Scan!Threads]
          /\ \A w \in Scan!Workers :
                 f[w].at = IF w <= Count THEN "taking" ELSE "gone"
        BY <2>1, <2>2
    <2> HIDE DEF Woken
    <2>5. s \in Scan!Scans
        BY <1>2, <2>3, <2>4 DEF Scan!Scans
    <2>6. /\ s.at = "joining" /\ s.worker = f /\ s.market = r.market
          /\ s.next = r.next /\ s.done = r.done /\ s.found = r.found
        BY <1>2, <2>3 DEF Scan!Scans
    <2>7. Asking(s) = Asking(r)
        BY <1>2, <2>4, <2>6 DEF Asking, Gone
    <2>8. \A w \in Scan!Workers : ThreadFits(s, w)
        BY <1>2, <2>4, <2>6 DEF ThreadFits
    <2> QED
        BY <1>2, <2>5, <2>6, <2>7, <2>8 DEF ScanFits, TakenOf
<1>6. CASE /\ Scan!Becomes(g, [scan[g] EXCEPT !.at = "joining",
                  !.worker = [w \in Scan!Workers |->
                      IF w <= Count THEN [@[w] EXCEPT !.at = "taking"] ELSE @[w]]])
           /\ Scan!Post(g, "Scanning", 0, {})
    <2>1. PICK s : s = [r EXCEPT !.at = "joining",
                  !.worker = [w \in Scan!Workers |->
                      IF w <= Count THEN [@[w] EXCEPT !.at = "taking"] ELSE @[w]]]
        OBVIOUS
    <2>2. Scan!Becomes(g, s)
        BY <1>1, <1>6, <2>1
    <2>3. ScanFits(s) /\ s.market = r.market
        BY <1>5, <2>1
    <2> QED
        BY <1>1, <1>2, <1>3, <1>6, <2>2, <2>3, ScanBecomes
           DEF Scan!ListApplications, ScanInv, ScanTyped
<1> QED
    BY <1>4, <1>6, ScanConstants DEF Scan!ListApplications

\* Nothing of the scans and of their messages moves.
LEMMA ScanRests ==
    ASSUME ScanInv, ScanTyped',
           UNCHANGED <<catalogue, scan, saved, scanInbox, view, from>>,
           startup.at = "over" => UNCHANGED startup
    PROVE  ScanInv'
<1>1. \A listed, market : Refused(listed, market)' <=> Refused(listed, market)
    BY DEF Refused, Scan!NeedsAnotherRegion
<1>2. \A g \in Generations' : ScanFits(scan[g])'
    <2>1. ASSUME NEW g, NEW r, r = scan[g], ScanFits(r) PROVE ScanFits(scan[g])'
        <3>1. ScanFits(scan[g])' <=> ScanFits(r)'
            BY <2>1
               DEF ScanFits, ThreadFits, Gone, Refused, Asking, TakenOf
        <3>2. ScanFits(r)'
            BY <2>1, <1>1 DEF ScanFits, ThreadFits
        <3> QED  BY <3>1, <3>2
    <2> QED
        BY <2>1 DEF ScanInv, Generations
<1>3. ASSUME NEW m, RememberedFits(m) PROVE RememberedFits(m)'
    BY <1>1, <1>3 DEF RememberedFits
<1>4. ASSUME NEW m, ReportFits(m) PROVE ReportFits(m)'
    BY <1>4 DEF ReportFits, Generations, Answered
<1>5. InboxFits'
    <2>1. ASSUME NEW i \in DOMAIN scanInbox, NEW m, m = scanInbox[i]
          PROVE  (ReportFits(scanInbox[i]) \/ RememberedFits(scanInbox[i]))'
        <3>1. (ReportFits(m) \/ RememberedFits(m))'
            BY <2>1, <1>3, <1>4 DEF ScanInv, InboxFits
        <3> QED
            BY <3>1, <2>1 DEF ReportFits, RememberedFits
    <2> QED  BY <2>1 DEF InboxFits
<1>6. ViewFits'
    BY <1>1 DEF ScanInv, ViewFits, Answered
<1> QED
    BY <1>1, <1>2, <1>5, <1>6 DEF ScanInv

LEMMA RegionKeeps ==
    ASSUME ScanInv, \/ Scan!RegionMoves \/ Scan!RegionRead
                    \/ Scan!StartupReadsRegion \/ UNCHANGED scanVars
    PROVE  ScanInv'
<1>1. CASE Scan!RegionMoves
    <2>1. ScanTyped'
        BY <1>1 DEF Scan!RegionMoves, ScanInv, ScanTyped
    <2> QED  BY <1>1, <2>1, ScanRests DEF Scan!RegionMoves
<1>2. CASE Scan!RegionRead
    <2>1. ScanTyped'
        BY <1>2 DEF Scan!RegionRead, ScanInv, ScanTyped
    <2> QED  BY <1>2, <2>1, ScanRests DEF Scan!RegionRead
<1>3. CASE Scan!StartupReadsRegion
    <2>1. ScanTyped'
        BY <1>3 DEF Scan!StartupReadsRegion, ScanInv, ScanTyped
    <2> QED  BY <1>3, <2>1, ScanRests DEF Scan!StartupReadsRegion
<1>4. CASE UNCHANGED scanVars
    <2>1. ScanTyped'
        BY <1>4 DEF scanVars, ScanInv, ScanTyped
    <2> QED  BY <1>4, <2>1, ScanRests DEF scanVars
<1> QED  BY <1>1, <1>2, <1>3, <1>4

LEMMA NewScanFits ==
    ASSUME NEW market \in Asked, NEW s, s = Scan!NewScan(market)
    PROVE  ScanFits(s)
<1>1. PICK f : f = [w \in Scan!Workers |->
                       [at |-> "gone", application |-> Nothing, worth |-> FALSE,
                        done |-> 0, listed |-> {}]]
    OBVIOUS
<1>2. /\ f \in [Scan!Workers -> Scan!Threads]
      /\ \A w \in Scan!Workers : f[w].at = "gone"
    BY <1>1 DEF Scan!Threads
<1>3. s = [market |-> market, next |-> 1, done |-> 0, found |-> {},
           worker |-> f, at |-> "listing"]
    BY <1>1 DEF Scan!NewScan
<1>4. s \in Scan!Scans
    BY <1>2, <1>3 DEF Scan!Scans
<1>5. Asking(s) = {} /\ Gone(s)
    BY <1>2, <1>3 DEF Asking, Gone
<1>6. s.done + Cardinality(Asking(s)) = TakenOf(s)
    BY <1>3, <1>5, FS_EmptySet, ScanConstants DEF TakenOf
<1>7. \A w \in Scan!Workers : ThreadFits(s, w)
    BY <1>2, <1>3 DEF ThreadFits
<1>8. Refused(s.found, s.market)
    BY <1>3 DEF Refused
<1> QED
    BY <1>3, <1>4, <1>5, <1>6, <1>7, <1>8 DEF ScanFits

LEMMA BeginKeeps == ASSUME ScanInv, Scan!BeginUpdatesScan PROVE ScanInv'
<1>1. PICK s : s = Scan!NewScan(current)
    OBVIOUS
<1>2. current \in Asked /\ ScanFits(s) /\ s \in Scan!Scans
    BY <1>1, NewScanFits DEF Scan!BeginUpdatesScan, ScanInv, ScanTyped, ScanFits
<1>3. /\ scan' = Append(scan, s)
      /\ view' = Scan!Shows("Scanning", 0, 0, {}) /\ taken' = FALSE
      /\ from' = Len(scan) + 1
      /\ UNCHANGED <<catalogue, region, current, saved, startup, scanInbox, moves>>
    BY <1>1 DEF Scan!BeginUpdatesScan
<1>4. /\ scan' \in Seq(Scan!Scans) /\ Len(scan') = Len(scan) + 1
      /\ DOMAIN scan \subseteq DOMAIN scan' /\ scan'[Len(scan) + 1] = s
      /\ \A h \in DOMAIN scan' : h = Len(scan) + 1 \/ h \in DOMAIN scan
      /\ \A h \in DOMAIN scan : scan'[h] = scan[h]
    BY <1>2, <1>3 DEF ScanInv, ScanTyped
<1>5. view' \in Scan!Views /\ view'.kind # "Ready"
    BY <1>3 DEF Scan!Shows, Scan!Views
<1>6. ScanTyped'
    <2>1. Len(scan) \in Nat
        BY DEF ScanInv, ScanTyped
    <2>2. from' \in 0 .. Len(scan')
        BY <1>3, <1>4, <2>1
    <2>3. taken' \in BOOLEAN
        BY <1>3
    <2> QED
        BY <2>2, <2>3, <1>3, <1>4, <1>5 DEF ScanInv, ScanTyped
<1>7. \A listed, market : Refused(listed, market)' <=> Refused(listed, market)
    BY <1>3 DEF Refused, Scan!NeedsAnotherRegion
<1>8. \A h \in Generations' : ScanFits(scan[h])'
    <2>1. ASSUME NEW h, NEW r, r = scan'[h], ScanFits(r)
          PROVE  ScanFits(scan[h])'
        <3>1. ScanFits(scan[h])' <=> ScanFits(r)'
            BY <2>1
               DEF ScanFits, ThreadFits, Gone, Refused, Asking, TakenOf
        <3>2. ScanFits(r)'
            BY <2>1, <1>7 DEF ScanFits, ThreadFits
        <3> QED  BY <3>1, <3>2
    <2>2. \A h \in DOMAIN scan : ScanFits(scan[h])
        BY DEF ScanInv, Generations
    <2>3. \A h \in DOMAIN scan' : ScanFits(scan'[h])
        BY <1>2, <1>4, <2>2
    <2> QED
        BY <2>1, <2>3 DEF Generations
<1>9. InboxFits'
    <2>1. ASSUME NEW m, ReportFits(m) \/ RememberedFits(m)
          PROVE  (ReportFits(m) \/ RememberedFits(m))'
        BY <2>1, <1>3, <1>4, <1>7
           DEF ReportFits, RememberedFits, Answered, Generations
    <2>2. ASSUME NEW i \in DOMAIN scanInbox, NEW m, m = scanInbox[i]
          PROVE  (ReportFits(scanInbox[i]) \/ RememberedFits(scanInbox[i]))'
        <3>1. (ReportFits(m) \/ RememberedFits(m))'
            BY <2>1, <2>2 DEF ScanInv, InboxFits
        <3> QED
            BY <3>1, <2>2, <1>3 DEF ReportFits, RememberedFits
    <2> QED
        BY <2>2, <1>3 DEF InboxFits
<1>10. ViewFits'
    BY <1>5 DEF ViewFits
<1> QED
    BY <1>3, <1>6, <1>7, <1>8, <1>9, <1>10 DEF ScanInv

LEMMA FileKeeps == ASSUME ScanInv, Scan!StartupReadsFile PROVE ScanInv'
<1>1. PICK v : v = IF startup.market = Nothing THEN Nothing
                   ELSE Scan!LoadUpdatesScan(startup.market)
    OBVIOUS
<1>2. PICK message : message = [generation |-> 0, view |-> v]
    OBVIOUS
<1>3. /\ startup.at = "file" /\ startup' = [startup EXCEPT !.at = "over"]
      /\ scanInbox' = Append(scanInbox, message)
      /\ UNCHANGED <<catalogue, region, current, view, taken, scan, saved, from, moves>>
    BY <1>1, <1>2 DEF Scan!StartupReadsFile
<1>4. v # Nothing => /\ v \in [market: Asked, listed: SUBSET Applications]
                     /\ Refused(v.listed, startup.market)
    BY <1>1 DEF Scan!LoadUpdatesScan, ScanInv, ScanTyped, Scan!Remembered
<1>5. /\ startup' \in [at: {"region", "file", "over"}, market: Asked \cup {Nothing}]
      /\ startup'.at = "over" /\ startup'.market = startup.market
    BY <1>3 DEF ScanInv, ScanTyped
<1>6. /\ message \in [generation: Nat, view: Scan!Views \cup Scan!Remembered]
      /\ message.generation = 0 /\ message.view = v
    BY <1>2, <1>4 DEF Scan!Remembered
<1>7. scanInbox' \in Seq([generation: Nat, view: Scan!Views \cup Scan!Remembered])
    BY <1>3, <1>6 DEF ScanInv, ScanTyped
<1>8. ScanTyped'
    BY <1>3, <1>5, <1>7 DEF ScanInv, ScanTyped
<1>9. \A listed, market : Refused(listed, market)' <=> Refused(listed, market)
    BY <1>3 DEF Refused, Scan!NeedsAnotherRegion
<1>10. \A g \in Generations' : ScanFits(scan[g])'
    <2>1. ASSUME NEW g, NEW r, r = scan[g], ScanFits(r) PROVE ScanFits(scan[g])'
        <3>1. ScanFits(scan[g])' <=> ScanFits(r)'
            BY <2>1, <1>3
               DEF ScanFits, ThreadFits, Gone, Refused, Asking, TakenOf
        <3>2. ScanFits(r)'
            BY <2>1, <1>9 DEF ScanFits, ThreadFits
        <3> QED  BY <3>1, <3>2
    <2> QED
        BY <2>1, <1>3 DEF ScanInv, Generations
<1>11. InboxFits'
    <2>1. ASSUME NEW m, ReportFits(m) \/ RememberedFits(m)
          PROVE  (ReportFits(m) \/ RememberedFits(m))'
        BY <2>1, <1>3, <1>5, <1>9
           DEF ReportFits, RememberedFits, Answered, Generations
    <2>2. RememberedFits(message)'
        BY <1>4, <1>5, <1>6, <1>9 DEF RememberedFits
    <2>3. \A i \in DOMAIN scanInbox' :
              scanInbox'[i] = message \/
                  (i \in DOMAIN scanInbox /\ scanInbox'[i] = scanInbox[i])
        BY <1>3, <1>6 DEF ScanInv, ScanTyped
    <2>4. ASSUME NEW i \in DOMAIN scanInbox', NEW m, m = scanInbox'[i]
          PROVE  (ReportFits(scanInbox[i]) \/ RememberedFits(scanInbox[i]))'
        <3>1. (ReportFits(m) \/ RememberedFits(m))'
            BY <2>1, <2>2, <2>3, <2>4 DEF ScanInv, InboxFits
        <3> QED
            BY <3>1, <2>4 DEF ReportFits, RememberedFits
    <2> QED
        BY <2>4 DEF InboxFits
<1>12. ViewFits'
    BY <1>3, <1>5, <1>9 DEF ScanInv, ViewFits, Answered
<1> QED
    BY <1>3, <1>8, <1>9, <1>10, <1>11, <1>12 DEF ScanInv

\* Taking a message off leaves the others as they are.
LEMMA Behind ==
    ASSUME NEW M, NEW s \in Seq(M), s # <<>>
    PROVE  /\ Tail(s) \in Seq(M) /\ Head(s) \in M /\ 1 \in DOMAIN s /\ Head(s) = s[1]
           /\ \A i \in DOMAIN Tail(s) : i + 1 \in DOMAIN s /\ Tail(s)[i] = s[i + 1]
OBVIOUS

LEMMA MessageKeeps == ASSUME ScanInv, Scan!TakeMessage PROVE ScanInv'
<1>1. PICK message : message = Head(scanInbox)
    OBVIOUS
<1>2. /\ scanInbox # <<>> /\ scanInbox' = Tail(scanInbox)
      /\ UNCHANGED <<catalogue, region, current, scan, saved, startup, moves>>
      /\ IF message.generation = 0 THEN Scan!TakeRemembered(message)
         ELSE Scan!TakeScanReport(message)
    BY <1>1 DEF Scan!TakeMessage
<1>3. scanInbox \in Seq([generation: Nat, view: Scan!Views \cup Scan!Remembered])
    BY DEF ScanInv, ScanTyped
<1>4. /\ message \in [generation: Nat, view: Scan!Views \cup Scan!Remembered]
      /\ scanInbox' \in Seq([generation: Nat, view: Scan!Views \cup Scan!Remembered])
      /\ \A i \in DOMAIN scanInbox' :
             i + 1 \in DOMAIN scanInbox /\ scanInbox'[i] = scanInbox[i + 1]
    BY <1>1, <1>2, <1>3, Behind
<1>5. ReportFits(message) \/ RememberedFits(message)
    <2>1. 1 \in DOMAIN scanInbox /\ message = scanInbox[1]
        BY <1>1, <1>2, <1>3, Behind
    <2> QED  BY <2>1 DEF ScanInv, InboxFits
<1>6. /\ \A listed, market : Refused(listed, market)' <=> Refused(listed, market)
      /\ \A m : ReportFits(m)' <=> ReportFits(m)
      /\ \A m : RememberedFits(m)' <=> RememberedFits(m)
    <2>1. \A listed, market : Refused(listed, market)' <=> Refused(listed, market)
        BY <1>2 DEF Refused, Scan!NeedsAnotherRegion
    <2>2. \A m : ReportFits(m)' <=> ReportFits(m)
        BY <1>2 DEF ReportFits, Answered, Generations
    <2>3. \A m : RememberedFits(m)' <=> RememberedFits(m)
        BY <1>2, <2>1 DEF RememberedFits
    <2> QED  BY <2>1, <2>2, <2>3
<1>7. /\ view' \in Scan!Views /\ taken' \in BOOLEAN /\ from' \in 0 .. Len(scan')
      /\ ViewFits'
    <2>1. CASE UNCHANGED <<view, taken, from>>
        BY <2>1, <1>2, <1>6 DEF ScanInv, ScanTyped, ViewFits, Answered
    <2>2. CASE /\ message.generation = 0 /\ message.view # Nothing
               /\ view' = Scan!Shows("Ready", 0, 0, message.view.listed)
               /\ taken' = TRUE /\ from' = 0
        <3>1. /\ startup.at = "over" /\ message.view.listed \in SUBSET Applications
              /\ Refused(message.view.listed, startup.market)
            BY <1>5, <2>2
               DEF RememberedFits, ReportFits, Generations, ScanInv, ScanTyped
        <3>2. view' \in Scan!Views /\ view'.listed = message.view.listed
            BY <2>2, <3>1 DEF Scan!Shows, Scan!Views
        <3>3. Len(scan') \in Nat
            BY <1>2 DEF ScanInv, ScanTyped
        <3>4. from' \in 0 .. Len(scan') /\ taken' \in BOOLEAN
            BY <2>2, <3>3
        <3>5. ViewFits'
            BY <2>2, <3>1, <3>2, <1>2, <1>6 DEF ViewFits
        <3> QED  BY <3>2, <3>4, <3>5
    <2>3. CASE /\ message.generation # 0 /\ message.generation = Len(scan)
               /\ view' = IF message.view.kind = "Ready" THEN message.view
                          ELSE [message.view EXCEPT !.listed = {}]
               /\ from' = message.generation /\ UNCHANGED taken
        <3>1. /\ message.generation \in DOMAIN scan /\ message.view \in Scan!Views
              /\ message.view.kind = "Ready" =>
                     Answered(scan[message.generation], message.view.listed)
            BY <1>5, <2>3 DEF RememberedFits, ReportFits, Generations
        <3>2. from' \in 0 .. Len(scan') /\ taken' \in BOOLEAN
            BY <1>2, <2>3 DEF ScanInv, ScanTyped
        <3>3. CASE message.view.kind = "Ready"
            <4>1. view' = message.view
                BY <2>3, <3>3
            <4>2. ViewFits'
                BY <4>1, <3>1, <3>3, <2>3, <1>2 DEF ViewFits, Answered
            <4> QED  BY <4>1, <4>2, <3>1, <3>2
        <3>4. CASE message.view.kind # "Ready"
            <4>1. view' = [message.view EXCEPT !.listed = {}]
                BY <2>3, <3>4
            <4>2. view' \in Scan!Views /\ view'.kind # "Ready"
                BY <4>1, <3>1, <3>4 DEF Scan!Views
            <4> QED  BY <4>2, <3>2 DEF ViewFits
        <3> QED  BY <3>3, <3>4
    <2> QED
        BY <1>2, <2>1, <2>2, <2>3
           DEF Scan!TakeRemembered, Scan!TakeScanReport, Scan!IsCurrentScan
<1>8. ScanTyped'
    BY <1>2, <1>4, <1>7 DEF ScanInv, ScanTyped
<1>9. \A g \in Generations' : ScanFits(scan[g])'
    <2>1. ASSUME NEW g, NEW r, r = scan[g], ScanFits(r) PROVE ScanFits(scan[g])'
        <3>1. ScanFits(scan[g])' <=> ScanFits(r)'
            BY <2>1, <1>2
               DEF ScanFits, ThreadFits, Gone, Refused, Asking, TakenOf
        <3>2. ScanFits(r)'
            BY <2>1, <1>6 DEF ScanFits, ThreadFits
        <3> QED  BY <3>1, <3>2
    <2> QED
        BY <2>1, <1>2 DEF ScanInv, Generations
<1>10. InboxFits'
    <2>1. ASSUME NEW i \in DOMAIN scanInbox', NEW m, m = scanInbox'[i]
          PROVE  (ReportFits(scanInbox[i]) \/ RememberedFits(scanInbox[i]))'
        <3>1. ReportFits(m) \/ RememberedFits(m)
            BY <2>1, <1>4 DEF ScanInv, InboxFits
        <3>2. (ReportFits(m) \/ RememberedFits(m))'
            BY <3>1, <1>6
        <3> QED
            BY <3>2, <2>1 DEF ReportFits, RememberedFits
    <2> QED
        BY <2>1 DEF InboxFits
<1> QED
    BY <1>2, <1>6, <1>7, <1>8, <1>9, <1>10 DEF ScanInv

LEMMA ScanStepKeepsInv == ASSUME ScanInv, [Scan!Next]_scanVars PROVE ScanInv'
<1>1. ASSUME NEW g \in DOMAIN scan, Scan!ScanStep(g) PROVE ScanInv'
    <2>1. g \in Generations
        BY DEF Generations
    <2>2. ASSUME NEW w \in Scan!Workers, Scan!WorkerStep(g, w) PROVE ScanInv'
        BY <2>1, <2>2, TakeKeeps, AskKeeps, AddKeeps, PostKeeps DEF Scan!WorkerStep
    <2> QED
        BY <1>1, <2>1, <2>2, ListKeeps, JoinKeeps, SaveKeeps, CloseKeeps
           DEF Scan!ScanStep
<1> QED
    BY <1>1, BeginKeeps, RegionKeeps, FileKeeps, MessageKeeps DEF Scan!Next

LEMMA ScanSays ==
    ScanInv => Scan!TypeOK /\ Scan!ReadyListIsWhole /\ Scan!ListedNeedAnotherRegion
<1> SUFFICES ASSUME ScanInv
             PROVE  Scan!TypeOK /\ Scan!ReadyListIsWhole /\ Scan!ListedNeedAnotherRegion
    OBVIOUS
<1>1. ASSUME NEW g \in DOMAIN scan
      PROVE  scan[g] \in Scan!Scans /\ scan[g].done <= Count /\ ScanFits(scan[g])
    <2>1. PICK r : r = scan[g]
        OBVIOUS
    <2>2. ScanFits(r) /\ r \in Scan!Scans
        BY <2>1 DEF ScanInv, Generations, ScanFits
    <2>3. r.done \in Nat /\ r.next \in Nat /\ Count \in Nat
        BY <2>2, ScanConstants DEF Scan!Scans
    <2>4. r.done <= Count
        BY <2>2, <2>3, AskingIsFinite DEF ScanFits, TakenOf
    <2> QED  BY <2>1, <2>2, <2>4
<1>2. Scan!TypeOK
    BY <1>1, ScanConstants DEF ScanInv, ScanTyped, Scan!TypeOK
<1>3. Scan!ReadyListIsWhole
    BY ScanConstants
       DEF ScanInv, ScanTyped, ViewFits, Answered, Scan!ReadyListIsWhole
<1>4. Scan!ListedNeedAnotherRegion
    <2>1. CASE from = 0
        BY <2>1 DEF ScanInv, ViewFits, Refused, Scan!ListedNeedAnotherRegion
    <2>2. ASSUME view.kind = "Ready", from # 0
          PROVE  \A a \in view.listed :
                     Scan!NeedsAnotherRegion(a, scan[from].market)
        <3>1. from \in DOMAIN scan /\ view.listed = scan[from].found
            BY <2>2 DEF ScanInv, ScanTyped, ViewFits, Answered
        <3>2. Refused(scan[from].found, scan[from].market)
            BY <1>1, <3>1 DEF ScanFits
        <3> QED  BY <3>1, <3>2 DEF Refused
    <2> QED
        BY <2>1, <2>2 DEF Scan!ListedNeedAnotherRegion
<1> QED  BY <1>2, <1>3, <1>4

LEMMA ScanMoves ==
    ASSUME [PartsNext]_partsVars
    PROVE  part' = part /\ (part = "scan" => [Scan!Next]_scanVars)
BY DEF PartsNext, LaunchingStep, SurveyStep, BoxStep, ScanStep, PackageStep, Rest, Turn, partsVars

(* The scan for updates keeps what it shows true, whatever applications    *)
(* there are, however many threads, scans and moves of the region.  A list *)
(* shown as an answer is of the scan asked last and of all its threads     *)
(* (work.rs:252, window.rs:1228), and the Store refuses each application   *)
(* listed in the market asked about and serves it in another               *)
(* (availability.rs:481).                                                  *)
THEOREM ScanHolds == PartsSpec => []ScanIsTrue
<1> DEFINE Inv == part = "scan" => ScanInv
<1>1. PartsInit => Inv
    BY ScanInit DEF PartsInit
<1>2. Inv /\ [PartsNext]_partsVars => Inv'
    BY ScanMoves, ScanStepKeepsInv
<1>3. Inv => ScanIsTrue
    BY ScanSays DEF ScanIsTrue
<1> QED
    BY <1>1, <1>2, <1>3, PTL DEF PartsSpec

------------------------------------------------------------------------------
(***************************************************************************)
(* The search for a region.  Of the pass asked last, the answers counted,  *)
(* those posted and the markets being asked are together the markets       *)
(* taken; what an earlier pass posts is about the product it was asked for *)
(* and is dropped. A predicate here is of a survey x, the passes q and the *)
(* messages b, so that a handler which starts one pass after another can   *)
(* be followed from step to step.                                          *)
(***************************************************************************)
Known(x, m) == x.answers[m] # "Unasked"

IsSo(product, market, says) ==
    /\ says = "Offered" => market \in serves[product]
    /\ says = "NotOffered" => market \notin serves[product]

Of(p, m) == \E i \in DOMAIN p.markets : p.markets[i] = m

NoneLeft(p) == \A w \in Survey!Workers : p.worker[w] = "gone"

PassFits(p) ==
    /\ p \in Survey!Passes /\ p.next > 0
    /\ p.closed => NoneLeft(p)

PassesFit(q) == q \in Seq(Survey!Passes) /\ \A g \in DOMAIN q : PassFits(q[g])

MessageFits(m, q) ==
    /\ m.generation \in DOMAIN q
    /\ m.scope = q[m.generation].scope
    /\ Len(m.answers) = IF m.finished THEN 0 ELSE 1
    /\ m.finished => q[m.generation].closed
    /\ \A i \in DOMAIN m.answers :
           /\ m.answers[i].says # "Unasked"
           /\ IsSo(q[m.generation].product, m.answers[i].market, m.answers[i].says)

BoxFits(q, b) ==
    /\ b \in Seq(Survey!Posts)
    /\ \A i \in DOMAIN b : MessageFits(b[i], q)
    /\ \A i, j \in DOMAIN b :
           b[i].finished /\ i < j => b[j].generation # b[i].generation

PostedOf(b, g) == {i \in DOMAIN b : b[i].generation = g /\ ~b[i].finished}

Probing(p) == {w \in Survey!Workers : p.worker[w] \in Markets}

TakenIn(p) == IF p.next <= Len(p.markets) THEN p.next - 1 ELSE Len(p.markets)

Counted(x, p, b) ==
    x.answered + Cardinality(PostedOf(b, x.generation)) + Cardinality(Probing(p))
        = TakenIn(p)

Reached(x, p, b, m) ==
    \/ Known(x, m)
    \/ \E i \in PostedOf(b, x.generation) : b[i].answers[1].market = m
    \/ \E w \in Survey!Workers : p.worker[w] = m

Covered(x, p) ==
    /\ x.searched => \/ \A m \in Curated : Known(x, m)
                     \/ x.running /\ \A m \in Curated : Of(p, m)
    /\ x.running /\ p.scope = "Complete" =>
           \A m \in Markets : Known(x, m) \/ Of(p, m)
    /\ x.scope = "Complete" => \A m \in Markets : Known(x, m)

Truthful(x) ==
    /\ \A m \in Markets : IsSo(x.product, m, x.answers[m])
    /\ x.settled \subseteq serves[x.product]

CurrentFits(x, p, b) ==
    /\ p.product = x.product /\ ~p.cancelled /\ x.total = Len(p.markets)
    /\ Counted(x, p, b)
    /\ \A i \in DOMAIN p.markets : i < p.next => Reached(x, p, b, p.markets[i])
    /\ \A w \in Survey!Workers :
           p.worker[w] = "gone" /\ w <= Len(p.markets) => p.next > Len(p.markets)
    /\ ~x.running => p.closed /\ \A i \in DOMAIN b : b[i].generation # x.generation
    /\ Covered(x, p)
    /\ Truthful(x)

\* A pass the window has moved on from was asked to stop.
StraysStopped(x, q) ==
    \A g \in DOMAIN q : (x # NoSurvey /\ g = x.generation) \/ q[g].cancelled

SearchFits(x, q, b, product) ==
    /\ PassesFit(q) /\ BoxFits(q, b) /\ StraysStopped(x, q)
    /\ x = NoSurvey \/ x \in Survey!Surveys
    /\ x # NoSurvey =>
           /\ x.generation \in DOMAIN q /\ x.product = product
           /\ CurrentFits(x, q[x.generation], b)

SurveyInv ==
    /\ serves \in [Products -> SUBSET Markets]
    /\ text \in Products \cup {NoProduct}
    /\ selected \in Regions \cup {NoRegion}
    /\ showAll \in BOOLEAN
    /\ SearchFits(survey, pass, inbox, text)

\* The instance counts as this module does, and lists each market once.
LEMMA SurveyCountsAgree ==
    \A S : /\ Survey!IsFiniteSet(S) <=> IsFiniteSet(S)
          /\ Survey!Cardinality(S) = Cardinality(S)
<1>1. \A S : Survey!IsFiniteSet(S) <=> IsFiniteSet(S)
    BY DEF Survey!IsFiniteSet, IsFiniteSet
<1>2. \A S : Survey!Cardinality(S) = Cardinality(S)
    BY DEF Survey!Cardinality, Cardinality
<1> QED  BY <1>1, <1>2

LEMMA SurveyConstants ==
    /\ Curated \subseteq Markets /\ Markets \subseteq Regions
    /\ IsFiniteSet(Regions) /\ Regions # {} /\ Cardinality(Curated) > 1
    /\ NoProduct \notin Products /\ NoRegion \notin Regions
    /\ Concurrency \in Nat \ {0}
    /\ "taking" \notin Markets /\ "gone" \notin Markets
BY PartsFit, SurveyCountsAgree DEF Survey!SurveyAssumption

LEMMA NothingIsNoSurvey == NoSurvey \notin Survey!Surveys
BY PartsFit DEF Survey!BoxAssumption

LEMMA MarketsCount ==
    ASSUME NEW S \in SUBSET Markets
    PROVE  /\ IsFiniteSet(S) /\ Cardinality(S) \in Nat
           /\ Survey!Cardinality(S) = Cardinality(S)
           /\ S # {} => Cardinality(S) > 0
<1>1. IsFiniteSet(S)
    BY SurveyConstants, FS_Subset
<1> QED
    BY <1>1, FS_CardinalityType, FS_EmptySet, SurveyCountsAgree

LEMMA MarketsListed ==
    ASSUME NEW S \in SUBSET Markets, NEW s, s = Survey!SetToSeq(S)
    PROVE  /\ s \in Seq(Markets) /\ Len(s) = Cardinality(S)
           /\ DOMAIN s = 1 .. Cardinality(S)
           /\ \A m \in S : \E i \in DOMAIN s : s[i] = m
<1> DEFINE Lists(f) == f \in [1 .. Cardinality(S) -> S] /\ Survey!IsInjective(f)
<1>0. IsFiniteSet(S) /\ Cardinality(S) \in Nat /\ Survey!Cardinality(S) = Cardinality(S)
    BY MarketsCount
<1>1. \E f : Lists(f)
    <2>1. ExistsBijection(1 .. Cardinality(S), S)
        BY <1>0, FS_CardinalityType
    <2>2. PICK f \in Bijection(1 .. Cardinality(S), S) : TRUE
        BY <2>1 DEF ExistsBijection
    <2>3. f \in [1 .. Cardinality(S) -> S]
        BY <2>2 DEF Bijection, Injection
    <2>4. \A x, y \in DOMAIN f : f[x] = f[y] => x = y
        BY <2>2, <2>3 DEF Bijection, Injection, IsInjective
    <2> QED
        BY <2>3, <2>4 DEF Survey!IsInjective
<1>2. s \in [1 .. Cardinality(S) -> S] /\ Survey!IsInjective(s)
    BY <1>0, <1>1 DEF Survey!SetToSeq
<1>3. s \in Seq(Markets) /\ Len(s) = Cardinality(S) /\ DOMAIN s = 1 .. Cardinality(S)
    BY <1>0, <1>2
<1>4. s \in Injection(1 .. Cardinality(S), S)
    <2>1. \A x, y \in 1 .. Cardinality(S) : s[x] = s[y] => x = y
        BY <1>2 DEF Survey!IsInjective
    <2> QED  BY <1>2, <2>1 DEF Injection, IsInjective
<1>5. s \in Surjection(1 .. Cardinality(S), S)
    <2>1. Cardinality(1 .. Cardinality(S)) = Cardinality(S)
        BY <1>0, FS_Interval
    <2> QED  BY <1>0, <1>4, <2>1, FS_Injection
<1>6. \A m \in S : \E i \in 1 .. Cardinality(S) : s[i] = m
    BY <1>5 DEF Surjection
<1> QED  BY <1>3, <1>6

LEMMA ProbingIsFinite ==
    ASSUME NEW p
    PROVE  IsFiniteSet(Probing(p)) /\ Cardinality(Probing(p)) \in Nat
<1>1. IsFiniteSet(Survey!Workers)
    BY SurveyConstants, FS_Interval DEF Survey!Workers
<1>2. Probing(p) \in SUBSET Survey!Workers
    BY DEF Probing
<1> QED  BY <1>1, <1>2, FS_Subset, FS_CardinalityType

LEMMA PostedIsFinite ==
    ASSUME NEW M, NEW b \in Seq(M), NEW g
    PROVE  IsFiniteSet(PostedOf(b, g)) /\ Cardinality(PostedOf(b, g)) \in Nat
<1>1. IsFiniteSet(DOMAIN b)
    BY FS_Interval
<1>2. PostedOf(b, g) \in SUBSET DOMAIN b
    BY DEF PostedOf
<1> QED  BY <1>1, <1>2, FS_Subset, FS_CardinalityType

\* A message put behind the others.
LEMMA PutBehind ==
    ASSUME NEW M, NEW b \in Seq(M), NEW m \in M, NEW c, c = Append(b, m)
    PROVE  /\ c \in Seq(M) /\ DOMAIN c = 1 .. Len(b) + 1 /\ c[Len(b) + 1] = m
           /\ DOMAIN b = 1 .. Len(b) /\ Len(b) \in Nat
           /\ \A i \in DOMAIN b : i \in DOMAIN c /\ c[i] = b[i]
           /\ \A i \in DOMAIN c : i \in DOMAIN b \/ i = Len(b) + 1
<1>1. /\ c \in Seq(M) /\ DOMAIN c = 1 .. Len(b) + 1 /\ c[Len(b) + 1] = m
      /\ DOMAIN b = 1 .. Len(b) /\ Len(b) \in Nat
      /\ \A i \in DOMAIN b : i \in DOMAIN c /\ c[i] = b[i]
    OBVIOUS
<1>2. \A i \in DOMAIN c : i \in DOMAIN b \/ i = Len(b) + 1
    BY <1>1
<1> QED  BY <1>1, <1>2

LEMMA PostedHere ==
    ASSUME NEW M, NEW b \in Seq(M), NEW m \in M, NEW g,
           m.generation = g, ~m.finished
    PROVE  LET c == Append(b, m) IN
           /\ Len(b) + 1 \in PostedOf(c, g)
           /\ PostedOf(b, g) \subseteq PostedOf(c, g)
           /\ Cardinality(PostedOf(c, g)) = Cardinality(PostedOf(b, g)) + 1
<1>1. PICK c : c = Append(b, m)
    OBVIOUS
<1>2. /\ DOMAIN c = 1 .. Len(b) + 1 /\ c[Len(b) + 1] = m
      /\ DOMAIN b = 1 .. Len(b) /\ Len(b) \in Nat
      /\ \A i \in DOMAIN b : i \in DOMAIN c /\ c[i] = b[i]
      /\ \A i \in DOMAIN c : i \in DOMAIN b \/ i = Len(b) + 1
    BY <1>1, PutBehind
<1>3. Len(b) + 1 \notin PostedOf(b, g)
    BY <1>2 DEF PostedOf
<1>4. PostedOf(c, g) = PostedOf(b, g) \cup {Len(b) + 1}
    BY <1>2 DEF PostedOf
<1>5. IsFiniteSet(PostedOf(b, g))
    BY PostedIsFinite
<1>6. Cardinality(PostedOf(c, g)) = Cardinality(PostedOf(b, g)) + 1
    BY <1>3, <1>4, <1>5, FS_AddElement
<1> QED  BY <1>1, <1>4, <1>6

LEMMA PostedElsewhere ==
    ASSUME NEW M, NEW b \in Seq(M), NEW m \in M, NEW g,
           m.generation # g \/ m.finished
    PROVE  PostedOf(Append(b, m), g) = PostedOf(b, g)
<1>1. PICK c : c = Append(b, m)
    OBVIOUS
<1>2. /\ DOMAIN c = 1 .. Len(b) + 1 /\ c[Len(b) + 1] = m
      /\ \A i \in DOMAIN b : i \in DOMAIN c /\ c[i] = b[i]
      /\ \A i \in DOMAIN c : i \in DOMAIN b \/ i = Len(b) + 1
    BY <1>1, PutBehind
<1>3. PostedOf(c, g) = PostedOf(b, g)
    BY <1>2 DEF PostedOf
<1> QED  BY <1>1, <1>3

\* Places that all move up by one are as many.
LEMMA MovedUp ==
    ASSUME NEW S \in SUBSET Nat, IsFiniteSet(S), NEW T \in SUBSET Nat,
           \A j \in Nat : j \in T <=> j + 1 \in S, 0 \notin S
    PROVE  Cardinality(T) = Cardinality(S)
<1>1. PICK f : f = [i \in S |-> i - 1]
    OBVIOUS
<1>2. f \in [S -> T] /\ \A i \in S : f[i] = i - 1
    BY <1>1
<1>3. f \in Bijection(S, T)
    <2>1. \A i, j \in S : f[i] = f[j] => i = j
        BY <1>2
    <2>2. \A t \in T : \E i \in S : f[i] = t
        <3>1. ASSUME NEW t \in T PROVE t + 1 \in S /\ f[t + 1] = t
            BY <1>2
        <3> QED  BY <3>1
    <2>3. f \in Injection(S, T)
        BY <1>2, <2>1 DEF Injection, IsInjective
    <2>4. f \in Surjection(S, T)
        BY <1>2, <2>2 DEF Surjection
    <2> QED  BY <2>3, <2>4 DEF Bijection
<1>4. ExistsBijection(S, T)
    BY <1>3 DEF ExistsBijection
<1> QED  BY <1>4, FS_Bijection

\* The first message taken off.
LEMMA FirstTaken ==
    ASSUME NEW M, NEW b \in Seq(M), b # <<>>, NEW c, c = Tail(b)
    PROVE  /\ c \in Seq(M) /\ b[1] \in M /\ 1 \in DOMAIN b /\ Head(b) = b[1]
           /\ DOMAIN c \subseteq Nat \ {0} /\ DOMAIN b \subseteq Nat \ {0}
           /\ \A i \in DOMAIN c : i + 1 \in DOMAIN b /\ c[i] = b[i + 1]
           /\ \A i \in DOMAIN b : i = 1 \/ (i - 1 \in DOMAIN c /\ c[i - 1] = b[i])
OBVIOUS

LEMMA PostedTaken ==
    ASSUME NEW M, NEW b \in Seq(M), b # <<>>, NEW g
    PROVE  Cardinality(PostedOf(Tail(b), g))
               = IF 1 \in PostedOf(b, g) THEN Cardinality(PostedOf(b, g)) - 1
                 ELSE Cardinality(PostedOf(b, g))
<1>0. PICK c : c = Tail(b)
    OBVIOUS
<1>1. /\ DOMAIN c \subseteq Nat \ {0} /\ DOMAIN b \subseteq Nat \ {0}
      /\ \A i \in DOMAIN c : i + 1 \in DOMAIN b /\ c[i] = b[i + 1]
      /\ \A i \in DOMAIN b : i = 1 \/ (i - 1 \in DOMAIN c /\ c[i - 1] = b[i])
    BY <1>0, FirstTaken
<1>2. PICK S : S = PostedOf(b, g) \ {1}
    OBVIOUS
<1>3. /\ IsFiniteSet(PostedOf(b, g)) /\ PostedOf(b, g) \in SUBSET Nat
      /\ PostedOf(c, g) \in SUBSET Nat
    <2>1. IsFiniteSet(PostedOf(b, g))
        BY PostedIsFinite
    <2>2. PostedOf(b, g) \subseteq DOMAIN b /\ PostedOf(c, g) \subseteq DOMAIN c
        BY DEF PostedOf
    <2> QED  BY <1>1, <2>1, <2>2
<1>4. IsFiniteSet(S) /\ S \in SUBSET Nat /\ 0 \notin S
    BY <1>1, <1>2, <1>3, FS_RemoveElement DEF PostedOf
<1>5. \A j \in Nat : j \in PostedOf(c, g) <=> j + 1 \in S
    <2>1. ASSUME NEW j \in PostedOf(c, g) PROVE j + 1 \in S
        BY <1>1, <1>2 DEF PostedOf
    <2>2. ASSUME NEW j \in Nat, j + 1 \in S PROVE j \in PostedOf(c, g)
        <3>1. j + 1 \in DOMAIN b /\ j + 1 # 1
            BY <1>2, <2>2 DEF PostedOf
        <3>2. j \in DOMAIN c /\ c[j] = b[j + 1]
            BY <1>1, <3>1
        <3> QED  BY <1>2, <2>2, <3>2 DEF PostedOf
    <2> QED  BY <2>1, <2>2
<1>6. Cardinality(PostedOf(c, g)) = Cardinality(S)
    BY <1>3, <1>4, <1>5, MovedUp
<1>7. CASE 1 \in PostedOf(b, g)
    <2>1. Cardinality(S) = Cardinality(PostedOf(b, g)) - 1
        BY <1>2, <1>3, <1>7, FS_RemoveElement
    <2> QED
        BY <1>0, <1>6, <1>7, <2>1
<1>8. CASE 1 \notin PostedOf(b, g)
    <2>1. S = PostedOf(b, g)
        BY <1>2, <1>8
    <2> QED  BY <1>0, <1>6, <1>8, <2>1
<1> QED  BY <1>7, <1>8

\* The messages still fit when passes are added, stopped or closed.
LEMMA BoxKin ==
    ASSUME NEW q, NEW b, BoxFits(q, b), NEW r, DOMAIN q \subseteq DOMAIN r,
           \A g \in DOMAIN q :
               /\ r[g].product = q[g].product /\ r[g].scope = q[g].scope
               /\ q[g].closed => r[g].closed
    PROVE  BoxFits(r, b)
<1>1. ASSUME NEW m, MessageFits(m, q) PROVE MessageFits(m, r)
    BY <1>1 DEF MessageFits
<1> QED  BY <1>1 DEF BoxFits

Stopped(q, x) ==
    IF x = NoSurvey THEN q ELSE [q EXCEPT ![x.generation].cancelled = TRUE]

LEMMA StoppedFits ==
    ASSUME NEW q, PassesFit(q), NEW b, BoxFits(q, b), NEW x,
           x = NoSurvey \/ x.generation \in DOMAIN q,
           NEW r, r = Stopped(q, x)
    PROVE  /\ PassesFit(r) /\ BoxFits(r, b) /\ DOMAIN r = DOMAIN q /\ Len(r) = Len(q)
           /\ StraysStopped(x, q) => \A g \in DOMAIN r : r[g].cancelled
<1>1. CASE x = NoSurvey
    BY <1>1 DEF Stopped, StraysStopped
<1>2. CASE x # NoSurvey
    <2>1. PICK g \in DOMAIN q : g = x.generation
        BY <1>2
    <2>2. PICK p, s : p = q[g] /\ s = [p EXCEPT !.cancelled = TRUE]
        OBVIOUS
    <2>3. PassFits(p) /\ p \in Survey!Passes
        BY <2>2 DEF PassesFit, PassFits
    <2>4. s \in Survey!Passes
        BY <2>2, <2>3 DEF Survey!Passes
    <2>5. /\ s.product = p.product /\ s.scope = p.scope /\ s.closed = p.closed
          /\ s.next = p.next /\ s.worker = p.worker /\ s.cancelled
        BY <2>2, <2>3 DEF Survey!Passes
    <2>6. PassFits(s)
        BY <2>3, <2>4, <2>5 DEF PassFits, NoneLeft
    <2>7. r = [q EXCEPT ![g] = s]
        BY <1>2, <2>1, <2>2 DEF Stopped
    <2>8. q \in Seq(Survey!Passes)
        BY DEF PassesFit
    <2>9. /\ r \in Seq(Survey!Passes) /\ DOMAIN r = DOMAIN q /\ Len(r) = Len(q)
          /\ r[g] = s /\ \A h \in DOMAIN q : h # g => r[h] = q[h]
        BY <2>4, <2>7, <2>8
    <2>10. PassesFit(r)
        BY <2>6, <2>9 DEF PassesFit
    <2>11. BoxFits(r, b)
        <3>1. \A h \in DOMAIN q :
                  /\ r[h].product = q[h].product /\ r[h].scope = q[h].scope
                  /\ q[h].closed => r[h].closed
            <4>1. ASSUME NEW h \in DOMAIN q
                  PROVE  /\ r[h].product = q[h].product /\ r[h].scope = q[h].scope
                         /\ q[h].closed => r[h].closed
                <5>1. CASE h = g
                    BY <5>1, <2>2, <2>5, <2>9
                <5>2. CASE h # g
                    BY <5>2, <2>9
                <5> QED  BY <5>1, <5>2
            <4> QED  BY <4>1
        <3> QED  BY <3>1, <2>9, BoxKin
    <2>12. StraysStopped(x, q) => \A h \in DOMAIN r : r[h].cancelled
        BY <2>1, <2>5, <2>9 DEF StraysStopped
    <2> QED  BY <2>9, <2>10, <2>11, <2>12
<1> QED  BY <1>1, <1>2

LEMMA CancelledPair ==
    ASSUME NEW x, NEW q
    PROVE  Survey!Cancelled([survey |-> x, pass |-> q])
               = [survey |-> x, pass |-> Stopped(q, x)]
BY DEF Survey!Cancelled, Stopped

LEMMA NewPassFits ==
    ASSUME NEW product \in Products, NEW markets \in SUBSET Markets,
           NEW scope \in Survey!Scopes, NEW p, p = Survey!NewPass(product, markets, scope)
    PROVE  /\ PassFits(p) /\ p.product = product /\ p.scope = scope /\ ~p.cancelled
           /\ p.next = 1 /\ Len(p.markets) = Cardinality(markets)
           /\ p.markets \in Seq(Markets)
           /\ Probing(p) = {}
           /\ \A w \in Survey!Workers :
                  p.worker[w] = "gone" => ~(w <= Len(p.markets))
           /\ \A m \in markets : Of(p, m)
<1>1. PICK s : s = Survey!SetToSeq(markets)
    OBVIOUS
<1>2. PICK f : f = [w \in Survey!Workers |->
                       IF w <= Survey!Cardinality(markets) THEN "taking" ELSE "gone"]
    OBVIOUS
<1>3. /\ f \in [Survey!Workers -> Survey!WorkerStates]
      /\ \A w \in Survey!Workers :
             f[w] = IF w <= Cardinality(markets) THEN "taking" ELSE "gone"
    BY <1>2, MarketsCount DEF Survey!WorkerStates
<1>4. /\ s \in Seq(Markets) /\ Len(s) = Cardinality(markets)
      /\ \A m \in markets : \E i \in DOMAIN s : s[i] = m
    BY <1>1, MarketsListed
<1>5. p = [product |-> product, markets |-> s, scope |-> scope,
           cancelled |-> FALSE, next |-> 1, worker |-> f, closed |-> FALSE]
    BY <1>1, <1>2 DEF Survey!NewPass
<1>6. p \in Survey!Passes
    BY <1>3, <1>4, <1>5 DEF Survey!Passes
<1>7. /\ p.product = product /\ p.scope = scope /\ ~p.cancelled /\ p.next = 1
      /\ p.markets = s /\ p.worker = f /\ ~p.closed
    BY <1>5
<1>8. PassFits(p)
    BY <1>6, <1>7 DEF PassFits
<1>9. Probing(p) = {}
    BY <1>3, <1>7, SurveyConstants DEF Probing
<1>10. \A w \in Survey!Workers : p.worker[w] = "gone" => ~(w <= Len(p.markets))
    BY <1>3, <1>4, <1>7
<1>11. \A m \in markets : Of(p, m)
    BY <1>4, <1>7 DEF Of
<1> QED
    BY <1>4, <1>7, <1>8, <1>9, <1>10, <1>11

\* What is known of a product once a pass has begun: nothing yet, or what
\* was known before.
Begun(y, product, g, n) ==
    /\ y \in Survey!Surveys
    /\ y.product = product /\ y.generation = g /\ y.answered = 0
    /\ y.total = n /\ y.running = TRUE

Anew(y, n) ==
    /\ y.scope = "Curated" /\ y.searched = (n > 1) /\ y.settled = {}
    /\ \A m \in Markets : y.answers[m] = "Unasked"

Again(y, x, n) ==
    /\ y.scope = x.scope /\ (y.searched => x.searched \/ n > 1)
    /\ y.settled = x.settled /\ y.answers = x.answers

LEMMA FreshSays ==
    ASSUME NEW product \in Products, NEW g \in Nat, NEW n \in Nat, NEW y,
           y = Survey!FreshSurvey(product, g, n)
    PROVE  Begun(y, product, g, n) /\ Anew(y, n)
<1>1. PICK f : f = [m \in Markets |-> "Unasked"]
    OBVIOUS
<1>2. f \in [Markets -> Survey!Answers] /\ \A m \in Markets : f[m] = "Unasked"
    BY <1>1 DEF Survey!Answers
<1>3. PICK t : t = (n > 1)
    OBVIOUS
<1>4. t \in BOOLEAN
    BY <1>3
<1>5. y = [product |-> product, answers |-> f, scope |-> "Curated",
           answered |-> 0, total |-> n, running |-> TRUE, searched |-> t,
           settled |-> {}, generation |-> g]
    BY <1>1, <1>3 DEF Survey!FreshSurvey
<1>6. y \in Survey!Surveys
    BY <1>2, <1>4, <1>5 DEF Survey!Surveys, Survey!Scopes
<1> QED  BY <1>2, <1>3, <1>5, <1>6 DEF Begun, Anew

LEMMA RestartedSays ==
    ASSUME NEW x \in Survey!Surveys, NEW g \in Nat, NEW n \in Nat, NEW y,
           y = Survey!Restarted(x, g, n)
    PROVE  Begun(y, x.product, g, n) /\ Again(y, x, n)
<1>1. PICK t : t = (x.searched \/ n > 1)
    OBVIOUS
<1>2. t \in BOOLEAN
    BY <1>1
<1>3. y = [x EXCEPT !.answered = 0, !.total = n, !.running = TRUE,
                    !.searched = t, !.generation = g]
    BY <1>1 DEF Survey!Restarted
<1>4. y \in Survey!Surveys
    <2>1. y = [product |-> x.product, answers |-> x.answers, scope |-> x.scope,
               answered |-> 0, total |-> n, running |-> TRUE, searched |-> t,
               settled |-> x.settled, generation |-> g]
        BY <1>3 DEF Survey!Surveys
    <2>2. /\ x.product \in Products /\ x.answers \in [Markets -> Survey!Answers]
          /\ x.scope \in Survey!Scopes /\ x.settled \in SUBSET Markets
        BY DEF Survey!Surveys
    <2> QED  BY <1>2, <2>1, <2>2 DEF Survey!Surveys
<1>5. /\ y.product = x.product /\ y.generation = g /\ y.answered = 0
      /\ y.total = n /\ y.running = TRUE /\ y.scope = x.scope
      /\ y.searched = t
      /\ y.settled = x.settled /\ y.answers = x.answers
    BY <1>3 DEF Survey!Surveys
<1> QED  BY <1>1, <1>4, <1>5 DEF Begun, Again

Asks(x, product, g, n) ==
    IF x # NoSurvey /\ x.product = product THEN Survey!Restarted(x, g, n)
    ELSE Survey!FreshSurvey(product, g, n)

LEMMA StartedPair ==
    ASSUME NEW x, NEW q, NEW product, NEW markets, markets # {}, NEW scope
    PROVE  Survey!StartSurveyPass([survey |-> x, pass |-> q], product, markets, scope)
               = [survey |-> Asks(x, product, Len(q) + 1, Survey!Cardinality(markets)),
                  pass |-> Append(Stopped(q, x),
                                  Survey!NewPass(product, markets, scope))]
<1>1. PICK v : v = [survey |-> x, pass |-> q]
    OBVIOUS
<1>2. v.survey = x /\ v.pass = q
    BY <1>1
<1>3. Survey!Cancelled(v).pass = Stopped(q, x)
    <2>1. Survey!Cancelled(v) = [survey |-> x, pass |-> Stopped(q, x)]
        BY <1>1, CancelledPair
    <2> QED  BY <2>1
<1>4. Survey!StartSurveyPass(v, product, markets, scope)
          = [survey |-> Asks(v.survey, product, Len(v.pass) + 1,
                             Survey!Cardinality(markets)),
             pass |-> Append(Survey!Cancelled(v).pass,
                             Survey!NewPass(product, markets, scope))]
    BY DEF Survey!StartSurveyPass, Asks
<1> QED  BY <1>1, <1>2, <1>3, <1>4

LEMMA PairStarts ==
    ASSUME NEW x, NEW q, NEW b, NEW product \in Products,
           SearchFits(x, q, b, product),
           NEW markets \in SUBSET Markets, markets # {}, NEW scope \in Survey!Scopes,
           scope = "Complete" =>
               x # NoSurvey /\ \A m \in Markets : Known(x, m) \/ m \in markets,
           \/ Curated \subseteq markets
           \/ Cardinality(markets) > 1 \/ (x # NoSurvey /\ x.searched) =>
                  x # NoSurvey /\ \A m \in Curated : Known(x, m),
           NEW y, y = Asks(x, product, Len(q) + 1, Survey!Cardinality(markets)),
           NEW t, t = Append(Stopped(q, x), Survey!NewPass(product, markets, scope))
    PROVE  SearchFits(y, t, b, product)
<1>1. PICK n, g, p, s :
          /\ n = Cardinality(markets) /\ g = Len(q) + 1
          /\ p = Survey!NewPass(product, markets, scope) /\ s = Stopped(q, x)
    OBVIOUS
<1>2. n \in Nat /\ n > 0 /\ Survey!Cardinality(markets) = n
    BY <1>1, MarketsCount
<1>3. y = IF x # NoSurvey THEN Survey!Restarted(x, g, n)
          ELSE Survey!FreshSurvey(product, g, n)
    <2>1. x # NoSurvey => x.product = product
        BY DEF SearchFits
    <2>2. CASE x = NoSurvey
        BY <2>2, <1>1, <1>2 DEF Asks
    <2>3. CASE x # NoSurvey
        BY <2>1, <2>3, <1>1, <1>2 DEF Asks
    <2> QED  BY <2>2, <2>3
<1>5. PassesFit(q) /\ BoxFits(q, b) /\ (x = NoSurvey \/ x.generation \in DOMAIN q)
    BY DEF SearchFits
<1>6. /\ PassesFit(s) /\ BoxFits(s, b) /\ DOMAIN s = DOMAIN q /\ Len(s) = Len(q)
      /\ \A h \in DOMAIN s : s[h].cancelled
    <2>1. StraysStopped(x, q)
        BY DEF SearchFits
    <2> QED  BY <1>1, <1>5, <2>1, StoppedFits
<1>7. /\ PassFits(p) /\ p.product = product /\ p.scope = scope /\ ~p.cancelled
      /\ p.next = 1 /\ Len(p.markets) = n
      /\ p.markets \in Seq(Markets)
      /\ Probing(p) = {}
      /\ \A w \in Survey!Workers :
             p.worker[w] = "gone" => ~(w <= Len(p.markets))
      /\ \A m \in markets : Of(p, m)
    BY <1>1, NewPassFits
<1>8. t = Append(s, p)
    BY <1>1
<1>9. /\ t \in Seq(Survey!Passes) /\ DOMAIN s \subseteq DOMAIN t
      /\ g \in DOMAIN t /\ t[g] = p /\ g \in Nat /\ g \notin DOMAIN s
      /\ \A h \in DOMAIN s : t[h] = s[h]
      /\ \A h \in DOMAIN t : h \in DOMAIN s \/ h = g
    <2>1. s \in Seq(Survey!Passes) /\ p \in Survey!Passes
        BY <1>6, <1>7 DEF PassesFit, PassFits
    <2> QED  BY <2>1, <1>1, <1>6, <1>8
<1>10. PassesFit(t)
    BY <1>6, <1>7, <1>9 DEF PassesFit
<1>11. BoxFits(t, b)
    BY <1>6, <1>9, BoxKin
<1>12. Begun(y, product, g, n)
    <2>1. CASE x # NoSurvey
        <3>1. x \in Survey!Surveys /\ x.product = product
            BY <2>1 DEF SearchFits
        <3>2. y = Survey!Restarted(x, g, n)
            BY <2>1, <1>3
        <3> QED  BY <3>1, <3>2, <1>2, <1>9, RestartedSays
    <2>2. CASE x = NoSurvey
        <3>1. y = Survey!FreshSurvey(product, g, n)
            BY <2>2, <1>3
        <3> QED  BY <3>1, <1>2, <1>9, FreshSays
    <2> QED  BY <2>1, <2>2
<1>13. \A i \in DOMAIN b : b[i].generation # g
    BY <1>6, <1>9 DEF BoxFits, MessageFits
<1>14. Counted(y, p, b)
    <2>1. PostedOf(b, g) = {}
        BY <1>13 DEF PostedOf
    <2> QED
        <3>1. Cardinality(PostedOf(b, y.generation)) = 0 /\ Cardinality(Probing(p)) = 0
            BY <2>1, <1>7, <1>12, FS_EmptySet DEF Begun
        <3>2. y.answered = 0 /\ TakenIn(p) = 0
            BY <1>2, <1>7, <1>12 DEF Begun, TakenIn
        <3> QED
            BY <3>1, <3>2 DEF Counted
<1>15. Covered(y, p) /\ Truthful(y)
    <2>1. CASE x # NoSurvey
        <3>1. x \in Survey!Surveys /\ x.product = product /\ Truthful(x)
              /\ (x.scope = "Complete" => \A m \in Markets : Known(x, m))
            BY <2>1 DEF SearchFits, CurrentFits, Covered
        <3>2. y = Survey!Restarted(x, g, n)
            BY <2>1, <1>3
        <3>3. Again(y, x, n)
            BY <3>1, <3>2, <1>2, <1>9, RestartedSays
        <3>4. \A m : Known(y, m) <=> Known(x, m)
            BY <3>3 DEF Known, Again
        <3>5. Truthful(y)
            BY <3>1, <3>3, <1>12 DEF Truthful, Again, Begun
        <3>6. y.searched => (\A m \in Curated : Known(y, m)) \/ \A m \in Curated : Of(p, m)
            BY <3>3, <3>4, <2>1, <1>1, <1>7 DEF Again
        <3>7. p.scope = "Complete" => \A m \in Markets : Known(y, m) \/ Of(p, m)
            BY <3>4, <1>7
        <3> QED
            BY <3>1, <3>3, <3>4, <3>5, <3>6, <3>7, <1>12 DEF Covered, Again, Begun
    <2>2. CASE x = NoSurvey
        <3>1. y = Survey!FreshSurvey(product, g, n)
            BY <2>2, <1>3
        <3>2. Anew(y, n)
            BY <3>1, <1>2, <1>9, FreshSays
        <3>3. Truthful(y)
            BY <3>2 DEF Truthful, IsSo, Anew
        <3>4. y.searched => \A m \in Curated : Of(p, m)
            BY <3>2, <2>2, <1>1, <1>7 DEF Anew
        <3> QED
            BY <3>2, <3>3, <3>4, <2>2, <1>7, <1>12 DEF Covered, Anew, Begun
    <2> QED  BY <2>1, <2>2
<1>16. CurrentFits(y, p, b)
    <2>1. \A i \in DOMAIN p.markets : ~(i < p.next)
        BY <1>7
    <2> QED
        BY <2>1, <1>7, <1>12, <1>14, <1>15 DEF CurrentFits, Begun
<1>17. StraysStopped(y, t)
    BY <1>6, <1>9, <1>12, NothingIsNoSurvey DEF StraysStopped, Begun
<1> QED
    BY <1>9, <1>10, <1>11, <1>12, <1>16, <1>17 DEF SearchFits, Begun

LEMMA StartFits ==
    ASSUME NEW x, NEW q, NEW b, NEW product \in Products,
           SearchFits(x, q, b, product),
           NEW markets \in SUBSET Markets, markets # {}, NEW scope \in Survey!Scopes,
           scope = "Complete" =>
               x # NoSurvey /\ \A m \in Markets : Known(x, m) \/ m \in markets,
           \/ Curated \subseteq markets
           \/ Cardinality(markets) > 1 \/ (x # NoSurvey /\ x.searched) =>
                  x # NoSurvey /\ \A m \in Curated : Known(x, m)
    PROVE  LET r == Survey!StartSurveyPass([survey |-> x, pass |-> q],
                                           product, markets, scope)
           IN  SearchFits(r.survey, r.pass, b, product)
<1>1. PICK y, t :
          /\ y = Asks(x, product, Len(q) + 1, Survey!Cardinality(markets))
          /\ t = Append(Stopped(q, x), Survey!NewPass(product, markets, scope))
    OBVIOUS
<1>2. SearchFits(y, t, b, product)
    BY <1>1, PairStarts
<1>3. Survey!StartSurveyPass([survey |-> x, pass |-> q], product, markets, scope)
          = [survey |-> Asks(x, product, Len(q) + 1, Survey!Cardinality(markets)),
             pass |-> Append(Stopped(q, x),
                             Survey!NewPass(product, markets, scope))]
    BY StartedPair
<1>4. PICK r : r = Survey!StartSurveyPass([survey |-> x, pass |-> q],
                                          product, markets, scope)
    OBVIOUS
<1>5. r = [survey |-> y, pass |-> t]
    BY <1>1, <1>3, <1>4
<1>6. r.survey = y /\ r.pass = t
    BY <1>5
<1> QED  BY <1>2, <1>4, <1>6

\* A one-market pass for the card.
LEMMA ProbeFits ==
    ASSUME NEW x, NEW q, NEW b, NEW product \in Products \cup {NoProduct},
           SearchFits(x, q, b, product), NEW region0,
           NEW r, r = Survey!ProbeSelectedRegion([survey |-> x, pass |-> q],
                                                 product, region0)
    PROVE  SearchFits(r.survey, r.pass, b, product)
<1>1. CASE r = [survey |-> x, pass |-> q]
    BY <1>1
<1>2. CASE /\ product # NoProduct /\ region0 \in Markets
           /\ ~(x # NoSurvey /\ x.product = product /\ x.running)
           /\ r = Survey!StartSurveyPass([survey |-> x, pass |-> q],
                                         product, {region0}, "Curated")
    <2>1. product \in Products /\ "Curated" \in Survey!Scopes
        BY <1>2 DEF Survey!Scopes
    <2>2. {region0} \in SUBSET Markets /\ {region0} # {}
        BY <1>2
    <2>3. Cardinality({region0}) = 1
        BY FS_Singleton
    <2>4. x # NoSurvey /\ x.searched => \A m \in Curated : Known(x, m)
        BY <1>2 DEF SearchFits, CurrentFits, Covered
    <2> QED
        BY <1>2, <2>1, <2>2, <2>3, <2>4, StartFits
<1> QED
    BY <1>1, <1>2 DEF Survey!ProbeSelectedRegion

\* A new draft drops what was known of the last one.
LEMMA DraftFits ==
    ASSUME SurveyInv, NEW product \in Products \cup {NoProduct}, NEW region0,
           NEW r, r = Survey!DraftChanged(product, region0)
    PROVE  SearchFits(r.survey, r.pass, inbox, product)
<1>1. PICK x, q, b : x = survey /\ q = pass /\ b = inbox
    OBVIOUS
<1>2. /\ PassesFit(q) /\ BoxFits(q, b) /\ (x = NoSurvey \/ x.generation \in DOMAIN q)
      /\ StraysStopped(x, q)
    BY <1>1 DEF SurveyInv, SearchFits
<1>3. PICK s : s = Stopped(q, x)
    OBVIOUS
<1>4. PassesFit(s) /\ BoxFits(s, b) /\ \A h \in DOMAIN s : s[h].cancelled
    BY <1>2, <1>3, StoppedFits
<1>5. SearchFits(NoSurvey, s, b, product)
    BY <1>4 DEF SearchFits, StraysStopped
<1>6. r = Survey!ProbeSelectedRegion([survey |-> NoSurvey, pass |-> s], product, region0)
    <2>1. Survey!Cancelled([survey |-> x, pass |-> q]) = [survey |-> x, pass |-> s]
        BY <1>3, CancelledPair
    <2> QED
        BY <2>1, <1>1 DEF Survey!DraftChanged, Survey!Surveying
<1> QED  BY <1>1, <1>5, <1>6, ProbeFits

LEMMA FitsLater ==
    ASSUME NEW x, NEW q, NEW b, NEW product, SearchFits(x, q, b, product),
           serves' = serves
    PROVE  SearchFits(x, q, b, product)'
BY DEF SearchFits, StraysStopped, PassesFit, PassFits, NoneLeft, BoxFits, MessageFits, IsSo,
       CurrentFits, Counted, PostedOf, Probing, TakenIn, Reached, Known, Of,
       Covered, Truthful

LEMMA SearchLands ==
    ASSUME SurveyInv, NEW x, NEW q, NEW b, NEW product, SearchFits(x, q, b, product),
           survey' = x, pass' = q, inbox' = b, text' = product, serves' = serves,
           product \in Products \cup {NoProduct},
           selected' \in Regions \cup {NoRegion}, showAll' \in BOOLEAN
    PROVE  SurveyInv'
<1>1. SearchFits(x, q, b, product)'
    BY FitsLater
<1>2. SearchFits(survey, pass, inbox, text)'
    BY <1>1
       DEF SearchFits, StraysStopped, PassesFit, PassFits, NoneLeft, BoxFits, MessageFits, IsSo,
           CurrentFits, Counted, PostedOf, Probing, TakenIn, Reached, Known, Of,
           Covered, Truthful
<1> QED  BY <1>2 DEF SurveyInv

LEMMA OfferedListed ==
    ASSUME NEW x, x = NoSurvey \/ x \in Survey!Surveys, NEW all
    PROVE  Survey!OfferedRegions(x, all) \subseteq Regions
           /\ Survey!OfferedRegions(x, all) # {}
<1>1. x # NoSurvey => x.settled \subseteq Markets
    BY DEF Survey!Surveys
<1> QED  BY <1>1, SurveyConstants DEF Survey!OfferedRegions

LEMMA SelectionStays ==
    ASSUME NEW x, x = NoSurvey \/ x \in Survey!Surveys, NEW all, NEW r
    PROVE  Survey!KeepSelectionReachable(x, all, r) \in Regions \cup {NoRegion}
BY OfferedListed DEF Survey!KeepSelectionReachable

\* The handlers give back a survey and the passes.
IsPair(r) == \E y, t : r = [survey |-> y, pass |-> t]

LEMMA ProbePair ==
    ASSUME NEW x, NEW q, NEW product, NEW region0
    PROVE  IsPair(Survey!ProbeSelectedRegion([survey |-> x, pass |-> q],
                                             product, region0))
<1>1. PICK v, markets, scope :
          v = [survey |-> x, pass |-> q] /\ markets = {region0} /\ scope = "Curated"
    OBVIOUS
<1>2. PICK y, t :
          /\ y = Asks(v.survey, product, Len(v.pass) + 1, Survey!Cardinality(markets))
          /\ t = Append(Survey!Cancelled(v).pass,
                        Survey!NewPass(product, markets, scope))
    OBVIOUS
<1>3. markets # {}
    BY <1>1
<1>4. Survey!StartSurveyPass(v, product, markets, scope) = [survey |-> y, pass |-> t]
    BY <1>2, <1>3 DEF Survey!StartSurveyPass, Asks
<1>5. IsPair(v) /\ IsPair(Survey!StartSurveyPass(v, product, markets, scope))
    BY <1>1, <1>4 DEF IsPair
<1>6. IsPair(Survey!ProbeSelectedRegion(v, product, region0))
    BY <1>1, <1>5 DEF Survey!ProbeSelectedRegion
<1> QED  BY <1>1, <1>6

LEMMA DraftPair ==
    ASSUME NEW product, NEW region0
    PROVE  IsPair(Survey!DraftChanged(product, region0))
<1>1. PICK x, q, s : x = survey /\ q = pass /\ s = Stopped(q, x)
    OBVIOUS
<1>2. Survey!Cancelled([survey |-> x, pass |-> q]) = [survey |-> x, pass |-> s]
    BY <1>1, CancelledPair
<1>3. PICK r : r = Survey!DraftChanged(product, region0)
    OBVIOUS
<1>4. r = Survey!ProbeSelectedRegion([survey |-> NoSurvey, pass |-> s],
                                     product, region0)
    BY <1>1, <1>2, <1>3 DEF Survey!DraftChanged, Survey!Surveying
<1>5. IsPair(Survey!ProbeSelectedRegion([survey |-> NoSurvey, pass |-> s],
                                        product, region0))
    BY ProbePair
<1> QED  BY <1>3, <1>4, <1>5

LEMMA SurveyInit == ASSUME NEW searches, SurveyBegins(searches) PROVE SurveyInv
<1>1. PICK r : r = Survey!ProbeSelectedRegion([survey |-> NoSurvey, pass |-> <<>>],
                                              text, selected)
    OBVIOUS
<1>2. /\ serves \in [Products -> SUBSET Markets]
      /\ text \in Products \cup {NoProduct} /\ selected \in Regions \cup {NoRegion}
      /\ showAll = FALSE /\ inbox = <<>> /\ survey = r.survey /\ pass = r.pass
    BY <1>1 DEF SurveyBegins, Survey!Init
<1>3. SearchFits(NoSurvey, <<>>, <<>>, text)
    BY DEF SearchFits, StraysStopped, PassesFit, BoxFits
<1>4. SearchFits(r.survey, r.pass, <<>>, text)
    BY <1>1, <1>2, <1>3, ProbeFits
<1> QED  BY <1>2, <1>4 DEF SurveyInv

LEMMA SetStoreTextKeeps ==
    ASSUME SurveyInv, NEW product \in Products \cup {NoProduct},
           Survey!SetStoreText(product)
    PROVE  SurveyInv'
<1>1. PICK p, r : p = product /\ r = Survey!DraftChanged(p, selected)
    OBVIOUS
<1>2. PICK b : b = inbox
    OBVIOUS
<1>3. SearchFits(r.survey, r.pass, b, p)
    BY <1>1, <1>2, DraftFits
<1>4. /\ survey' = r.survey /\ pass' = r.pass /\ inbox' = b /\ text' = p
      /\ serves' = serves /\ selected' = selected /\ showAll' = FALSE
    BY <1>1, <1>2 DEF Survey!SetStoreText, Survey!Becomes
<1>5. selected' \in Regions \cup {NoRegion}
    BY <1>4 DEF SurveyInv
<1>6. PICK x, q : x = r.survey /\ q = r.pass
    OBVIOUS
<1> QED  BY <1>1, <1>3, <1>4, <1>5, <1>6, SearchLands

LEMMA SelectKeeps ==
    ASSUME SurveyInv, NEW region0 \in Regions \cup {NoRegion},
           Survey!SelectTemporaryRegion(region0)
    PROVE  SurveyInv'
<1>1. PICK x, q, b, p : x = survey /\ q = pass /\ b = inbox /\ p = text
    OBVIOUS
<1>2. SearchFits(x, q, b, p) /\ p \in Products \cup {NoProduct}
    BY <1>1 DEF SurveyInv
<1>3. PICK r : r = Survey!ProbeSelectedRegion([survey |-> x, pass |-> q], p, region0)
    OBVIOUS
<1>4. SearchFits(r.survey, r.pass, b, p)
    BY <1>2, <1>3, ProbeFits
<1>5. /\ survey' = r.survey /\ pass' = r.pass /\ inbox' = b /\ text' = p
      /\ serves' = serves /\ selected' = region0 /\ showAll' = showAll
    BY <1>1, <1>3 DEF Survey!SelectTemporaryRegion, Survey!Becomes, Survey!Surveying
<1>6. showAll \in BOOLEAN
    BY DEF SurveyInv
<1>7. PICK y, t : y = r.survey /\ t = r.pass
    OBVIOUS
<1> QED  BY <1>2, <1>4, <1>5, <1>6, <1>7, SearchLands

LEMMA FindKeeps ==
    ASSUME SurveyInv, Survey!FindRegion
    PROVE  SurveyInv'
<1>1. PICK x, q, b, p : x = survey /\ q = pass /\ b = inbox /\ p = text
    OBVIOUS
<1>2. SearchFits(x, q, b, p) /\ p \in Products
    BY <1>1 DEF SurveyInv, Survey!FindRegion
<1>3. Curated \in SUBSET Markets /\ Curated # {} /\ "Curated" \in Survey!Scopes
    BY SurveyConstants, FS_EmptySet DEF Survey!Scopes
<1>4. LET r == Survey!StartSurveyPass([survey |-> x, pass |-> q], p, Curated, "Curated")
      IN  SearchFits(r.survey, r.pass, b, p)
    BY <1>2, <1>3, StartFits
<1>5. PICK y, t : \E r :
          /\ r = Survey!StartSurveyPass([survey |-> x, pass |-> q], p, Curated, "Curated")
          /\ y = r.survey /\ t = r.pass
    OBVIOUS
<1>6. SearchFits(y, t, b, p)
    BY <1>4, <1>5
<1>7. /\ survey' = y /\ pass' = t /\ inbox' = b /\ text' = p
      /\ serves' = serves /\ selected' = selected /\ showAll' = FALSE
    BY <1>1, <1>5 DEF Survey!FindRegion, Survey!Becomes, Survey!Surveying
<1>8. selected' \in Regions \cup {NoRegion}
    BY <1>7 DEF SurveyInv
<1> QED  BY <1>2, <1>6, <1>7, <1>8, SearchLands

LEMMA CheckKeeps ==
    ASSUME SurveyInv, Survey!CheckRemaining
    PROVE  SurveyInv'
<1>1. PICK x, q, b, p, rest :
          /\ x = survey /\ q = pass /\ b = inbox /\ p = text
          /\ rest = Survey!RemainingMarkets(x)
    OBVIOUS
<1>2. /\ SearchFits(x, q, b, p) /\ p \in Products
      /\ x # NoSurvey /\ x.searched /\ ~x.running /\ rest # {}
    BY <1>1 DEF SurveyInv, Survey!CheckRemaining, Survey!RemainingMarketsExist
<1>3. rest \in SUBSET Markets /\ "Complete" \in Survey!Scopes
    BY <1>1 DEF Survey!RemainingMarkets, Survey!Unasked, Survey!Scopes
<1>4. \A m \in Curated : Known(x, m)
    BY <1>2 DEF SearchFits, CurrentFits, Covered
<1>5. \A m \in Markets : Known(x, m) \/ m \in rest
    BY <1>1, <1>4 DEF Survey!RemainingMarkets, Survey!Unasked, Known
<1>6. LET r == Survey!StartSurveyPass([survey |-> x, pass |-> q], p, rest, "Complete")
      IN  SearchFits(r.survey, r.pass, b, p)
    BY <1>2, <1>3, <1>4, <1>5, StartFits
<1>7. PICK y, t : \E r :
          /\ r = Survey!StartSurveyPass([survey |-> x, pass |-> q], p, rest, "Complete")
          /\ y = r.survey /\ t = r.pass
    OBVIOUS
<1>8. SearchFits(y, t, b, p)
    BY <1>6, <1>7
<1>9. /\ survey' = y /\ pass' = t /\ inbox' = b /\ text' = p
      /\ serves' = serves /\ selected' = selected /\ showAll' = showAll
    BY <1>1, <1>7 DEF Survey!CheckRemaining, Survey!Becomes, Survey!Surveying
<1>10. selected' \in Regions \cup {NoRegion} /\ showAll' \in BOOLEAN
    BY <1>9 DEF SurveyInv
<1> QED  BY <1>2, <1>8, <1>9, <1>10, SearchLands

LEMMA ShowAllKeeps ==
    ASSUME SurveyInv, Survey!ShowAllRegions
    PROVE  SurveyInv'
<1>1. PICK x, q, b, p : x = survey /\ q = pass /\ b = inbox /\ p = text
    OBVIOUS
<1>2. SearchFits(x, q, b, p) /\ p \in Products \cup {NoProduct}
    BY <1>1 DEF SurveyInv
<1>3. /\ survey' = x /\ pass' = q /\ inbox' = b /\ text' = p
      /\ serves' = serves /\ selected' = selected /\ showAll' \in BOOLEAN
    BY <1>1 DEF Survey!ShowAllRegions
<1>4. selected' \in Regions \cup {NoRegion}
    BY <1>3 DEF SurveyInv
<1> QED  BY <1>2, <1>3, <1>4, SearchLands

LEMMA OpenUpdateKeeps ==
    ASSUME SurveyInv, NEW product \in Products,
           Survey!OpenUpdateInInstallation(product)
    PROVE  SurveyInv'
<1>1. PICK p, b : p = product /\ b = inbox
    OBVIOUS
<1>2. PICK x, q : Survey!DraftChanged(p, selected) = [survey |-> x, pass |-> q]
    BY DraftPair DEF IsPair
<1>3. SearchFits(x, q, b, p)
    <2>1. PICK r : r = Survey!DraftChanged(p, selected)
        OBVIOUS
    <2>2. SearchFits(r.survey, r.pass, b, p)
        BY <2>1, <1>1, DraftFits
    <2>3. r.survey = x /\ r.pass = q
        BY <2>1, <1>2
    <2> QED  BY <2>2, <2>3
<1>4. Curated \in SUBSET Markets /\ Curated # {} /\ "Curated" \in Survey!Scopes
    BY SurveyConstants, FS_EmptySet DEF Survey!Scopes
<1>5. LET r == Survey!StartSurveyPass([survey |-> x, pass |-> q], p, Curated, "Curated")
      IN  SearchFits(r.survey, r.pass, b, p)
    BY <1>1, <1>3, <1>4, StartFits
<1>6. PICK y, t : \E r :
          /\ r = Survey!StartSurveyPass([survey |-> x, pass |-> q], p, Curated, "Curated")
          /\ y = r.survey /\ t = r.pass
    OBVIOUS
<1>7. SearchFits(y, t, b, p)
    BY <1>5, <1>6
<1>8. /\ survey' = y /\ pass' = t /\ inbox' = b /\ text' = p
      /\ serves' = serves /\ selected' = selected /\ showAll' = FALSE
    BY <1>1, <1>2, <1>6 DEF Survey!OpenUpdateInInstallation, Survey!Becomes
<1>9. selected' \in Regions \cup {NoRegion}
    BY <1>8 DEF SurveyInv
<1> QED  BY <1>1, <1>7, <1>8, <1>9, SearchLands

\* A pass moves: what belongs to another pass stays as it is.
SamePass(s, p) ==
    /\ PassFits(s) /\ s.product = p.product /\ s.scope = p.scope
    /\ s.markets = p.markets /\ s.cancelled = p.cancelled
    /\ p.closed => s.closed

LEMMA OnePassMoves ==
    ASSUME NEW q, NEW b, PassesFit(q), BoxFits(q, b), NEW g \in DOMAIN q,
           NEW s, SamePass(s, q[g]), NEW r, r = [q EXCEPT ![g] = s]
    PROVE  /\ PassesFit(r) /\ BoxFits(r, b) /\ DOMAIN r = DOMAIN q
           /\ r[g] = s /\ \A h \in DOMAIN q : h # g => r[h] = q[h]
<1>1. s \in Survey!Passes /\ q \in Seq(Survey!Passes)
    BY DEF SamePass, PassFits, PassesFit
<1>2. /\ r \in Seq(Survey!Passes) /\ DOMAIN r = DOMAIN q
      /\ r[g] = s /\ \A h \in DOMAIN q : h # g => r[h] = q[h]
    BY <1>1
<1>3. PassesFit(r)
    BY <1>2 DEF PassesFit, SamePass
<1>4. \A h \in DOMAIN q :
          /\ r[h].product = q[h].product /\ r[h].scope = q[h].scope
          /\ q[h].closed => r[h].closed
    <2>1. ASSUME NEW h \in DOMAIN q
          PROVE  /\ r[h].product = q[h].product /\ r[h].scope = q[h].scope
                 /\ q[h].closed => r[h].closed
        <3>1. CASE h = g
            BY <3>1, <1>2 DEF SamePass
        <3>2. CASE h # g
            BY <3>2, <1>2
        <3> QED  BY <3>1, <3>2
    <2> QED  BY <2>1
<1>5. BoxFits(r, b)
    BY <1>2, <1>4, BoxKin
<1> QED  BY <1>2, <1>3, <1>5

LEMMA PassMoves ==
    ASSUME NEW x, NEW q, NEW b, NEW product, SearchFits(x, q, b, product),
           NEW g \in DOMAIN q, NEW s, SamePass(s, q[g]),
           x # NoSurvey /\ x.generation = g => CurrentFits(x, s, b),
           NEW r, r = [q EXCEPT ![g] = s]
    PROVE  SearchFits(x, r, b, product)
<1>1. PassesFit(q) /\ BoxFits(q, b)
    BY DEF SearchFits
<1>2. /\ PassesFit(r) /\ BoxFits(r, b) /\ DOMAIN r = DOMAIN q
      /\ r[g] = s /\ \A h \in DOMAIN q : h # g => r[h] = q[h]
    BY <1>1, OnePassMoves
<1>3. CASE x = NoSurvey
    BY <1>2, <1>3 DEF SearchFits, StraysStopped, SamePass
<1>4. CASE x # NoSurvey /\ x.generation = g
    BY <1>2, <1>4 DEF SearchFits, StraysStopped, SamePass
<1>5. CASE x # NoSurvey /\ x.generation # g
    BY <1>2, <1>5 DEF SearchFits, StraysStopped, SamePass
<1> QED  BY <1>3, <1>4, <1>5

\* A message is posted behind the others.
LEMMA BoxGrows ==
    ASSUME NEW q, NEW b, BoxFits(q, b), NEW m \in Survey!Posts, MessageFits(m, q),
           \A i \in DOMAIN b :
               b[i].generation = m.generation => ~b[i].finished,
           NEW c, c = Append(b, m)
    PROVE  BoxFits(q, c)
<1>1. b \in Seq(Survey!Posts)
    BY DEF BoxFits
<1>2. /\ c \in Seq(Survey!Posts) /\ DOMAIN c = 1 .. Len(b) + 1 /\ c[Len(b) + 1] = m
      /\ DOMAIN b = 1 .. Len(b) /\ Len(b) \in Nat
      /\ \A i \in DOMAIN b : i \in DOMAIN c /\ c[i] = b[i]
    BY <1>1, PutBehind
<1>3. \A i \in DOMAIN c : i \in DOMAIN b \/ i = Len(b) + 1
    BY <1>2
<1>4. \A i \in DOMAIN c : MessageFits(c[i], q)
    BY <1>2, <1>3 DEF BoxFits
<1>5. ASSUME NEW i \in DOMAIN c, NEW j \in DOMAIN c, c[i].finished, i < j
      PROVE  c[j].generation # c[i].generation
    <2>1. i \in DOMAIN b /\ c[i] = b[i]
        BY <1>2, <1>5
    <2>2. CASE j \in DOMAIN b
        BY <1>2, <1>5, <2>1, <2>2 DEF BoxFits
    <2>3. CASE j = Len(b) + 1
        BY <1>2, <1>5, <2>1, <2>3
    <2> QED  BY <1>3, <2>2, <2>3
<1> QED  BY <1>2, <1>4, <1>5 DEF BoxFits

\* What is posted for another pass changes nothing for this one.
LEMMA OthersPost ==
    ASSUME NEW x, NEW p, NEW q, NEW b, BoxFits(q, b), CurrentFits(x, p, b),
           NEW m \in Survey!Posts, m.generation # x.generation,
           NEW c, c = Append(b, m)
    PROVE  CurrentFits(x, p, c)
<1>1. b \in Seq(Survey!Posts)
    BY DEF BoxFits
<1>2. PICK n, g : n = Len(b) + 1 /\ g = x.generation
    OBVIOUS
<1>8. PostedOf(c, g) = PostedOf(b, g)
    BY <1>1, <1>2, PostedElsewhere
<1>3. /\ c[n] = m /\ DOMAIN c = 1 .. n /\ n \in Nat
      /\ DOMAIN b = 1 .. Len(b) /\ Len(b) \in Nat
      /\ \A i \in DOMAIN b : i \in DOMAIN c /\ c[i] = b[i]
      /\ PostedOf(c, x.generation) = PostedOf(b, x.generation)
    <2>1. /\ DOMAIN c = 1 .. Len(b) + 1 /\ c[Len(b) + 1] = m
          /\ DOMAIN b = 1 .. Len(b) /\ Len(b) \in Nat
          /\ \A i \in DOMAIN b : i \in DOMAIN c /\ c[i] = b[i]
        BY <1>1, PutBehind
    <2> QED  BY <1>2, <1>8, <2>1
<1>4. \A i \in DOMAIN c : i \in DOMAIN b \/ i = n
    BY <1>2, <1>3
<1>5. Counted(x, p, c)
    BY <1>3 DEF CurrentFits, Counted
<1>6. ASSUME NEW a, Reached(x, p, b, a) PROVE Reached(x, p, c, a)
    <2>1. \A i \in PostedOf(b, x.generation) : i \in DOMAIN b
        BY DEF PostedOf
    <2> QED  BY <1>3, <1>6, <2>1 DEF Reached
<1>7. (\A i \in DOMAIN b : b[i].generation # x.generation)
          => \A i \in DOMAIN c : c[i].generation # x.generation
    BY <1>3, <1>4
<1> QED  BY <1>5, <1>6, <1>7 DEF CurrentFits

LEMMA PassPosts ==
    ASSUME NEW x, NEW q, NEW b, NEW product, SearchFits(x, q, b, product),
           NEW g \in DOMAIN q, ~q[g].closed, NEW s, SamePass(s, q[g]),
           NEW r, r = [q EXCEPT ![g] = s],
           NEW m \in Survey!Posts, m.generation = g, MessageFits(m, r),
           NEW c, c = Append(b, m),
           x # NoSurvey /\ x.generation = g => CurrentFits(x, s, c)
    PROVE  SearchFits(x, r, c, product)
<1>1. PassesFit(q) /\ BoxFits(q, b)
    BY DEF SearchFits
<1>2. /\ PassesFit(r) /\ BoxFits(r, b) /\ DOMAIN r = DOMAIN q
      /\ r[g] = s /\ \A h \in DOMAIN q : h # g => r[h] = q[h]
    BY <1>1, OnePassMoves
<1>3. \A i \in DOMAIN b : b[i].generation = m.generation => ~b[i].finished
    BY <1>1 DEF BoxFits, MessageFits
<1>4. BoxFits(r, c)
    BY <1>2, <1>3, BoxGrows
<1>5. CASE x = NoSurvey
    BY <1>2, <1>4, <1>5 DEF SearchFits, StraysStopped, SamePass
<1>6. CASE x # NoSurvey /\ x.generation = g
    BY <1>2, <1>4, <1>6 DEF SearchFits, StraysStopped, SamePass
<1>7. CASE x # NoSurvey /\ x.generation # g
    <2>1. PICK h : h = x.generation
        OBVIOUS
    <2>2. /\ x \in Survey!Surveys /\ h \in DOMAIN q
          /\ x.product = product /\ CurrentFits(x, q[h], b)
        BY <1>7, <2>1 DEF SearchFits
    <2>3. r[h] = q[h]
        BY <1>2, <1>7, <2>1, <2>2
    <2>4. CurrentFits(x, q[h], c)
        BY <1>1, <1>7, <2>2, OthersPost
    <2>5. StraysStopped(x, q)
        BY DEF SearchFits
    <2>6. StraysStopped(x, r)
        BY <1>2, <2>5 DEF StraysStopped, SamePass
    <2> QED  BY <1>2, <1>4, <2>1, <2>2, <2>3, <2>4, <2>6 DEF SearchFits
<1> QED  BY <1>5, <1>6, <1>7

\* A thread moves, with the counter it shares.
Moved(s, p, w, n, a) ==
    /\ SamePass(s, p) /\ s.closed = p.closed /\ s.next = n
    /\ s.worker = [p.worker EXCEPT ![w] = a]

LEMMA ProberMoves ==
    ASSUME NEW p, PassFits(p), NEW w \in Survey!Workers, p.worker[w] # "gone",
           NEW a \in Survey!WorkerStates
    PROVE  /\ ~p.closed
           /\ \A s : s = [p EXCEPT !.worker[w] = a] => Moved(s, p, w, p.next, a)
           /\ \A s : s = [p EXCEPT !.next = @ + 1, !.worker[w] = a]
                         => Moved(s, p, w, p.next + 1, a)
<1>1. p \in Survey!Passes /\ ~p.closed /\ p.next > 0 /\ p.next \in Nat
    BY DEF PassFits, NoneLeft, Survey!Passes
<1>2. PICK f : f = [p.worker EXCEPT ![w] = a]
    OBVIOUS
<1>3. f \in [Survey!Workers -> Survey!WorkerStates]
    BY <1>1, <1>2 DEF Survey!Passes
<1>4. ASSUME NEW s, s = [p EXCEPT !.worker[w] = a]
      PROVE  Moved(s, p, w, p.next, a)
    <2>1. s = [product |-> p.product, markets |-> p.markets, scope |-> p.scope,
               cancelled |-> p.cancelled, next |-> p.next, worker |-> f,
               closed |-> p.closed]
        BY <1>1, <1>2, <1>4 DEF Survey!Passes
    <2>2. s \in Survey!Passes
        BY <1>1, <1>3, <2>1 DEF Survey!Passes
    <2>3. /\ s.product = p.product /\ s.markets = p.markets /\ s.scope = p.scope
          /\ s.cancelled = p.cancelled /\ s.next = p.next /\ s.worker = f
          /\ s.closed = p.closed
        BY <2>1
    <2>4. PassFits(s)
        BY <1>1, <2>2, <2>3 DEF PassFits
    <2> QED  BY <1>2, <2>3, <2>4 DEF Moved, SamePass
<1>5. ASSUME NEW s, s = [p EXCEPT !.next = @ + 1, !.worker[w] = a]
      PROVE  Moved(s, p, w, p.next + 1, a)
    <2>0. PICK n : n = p.next + 1
        OBVIOUS
    <2>1. s = [product |-> p.product, markets |-> p.markets, scope |-> p.scope,
               cancelled |-> p.cancelled, next |-> n, worker |-> f,
               closed |-> p.closed]
        BY <1>1, <1>2, <1>5, <2>0 DEF Survey!Passes
    <2>5. n \in Nat /\ n > 0
        BY <1>1, <2>0
    <2>2. s \in Survey!Passes
        BY <1>1, <1>3, <2>1, <2>5 DEF Survey!Passes
    <2>3. /\ s.product = p.product /\ s.markets = p.markets /\ s.scope = p.scope
          /\ s.cancelled = p.cancelled /\ s.next = n /\ s.worker = f
          /\ s.closed = p.closed
        BY <2>1
    <2>4. PassFits(s)
        BY <1>1, <2>2, <2>3, <2>5 DEF PassFits
    <2> QED  BY <1>2, <2>0, <2>3, <2>4 DEF Moved, SamePass
<1> QED  BY <1>1, <1>4, <1>5

LEMMA ThreadIs ==
    ASSUME NEW p, PassFits(p), NEW w \in Survey!Workers, NEW n, NEW a,
           NEW s, Moved(s, p, w, n, a)
    PROVE  /\ s.worker[w] = a
           /\ \A v \in Survey!Workers : v # w => s.worker[v] = p.worker[v]
           /\ a \in Markets /\ p.worker[w] \notin Markets =>
                  /\ Probing(s) = Probing(p) \cup {w} /\ w \notin Probing(p)
                  /\ Cardinality(Probing(s)) = Cardinality(Probing(p)) + 1
           /\ a \notin Markets /\ p.worker[w] \in Markets =>
                  /\ Probing(s) = Probing(p) \ {w} /\ w \in Probing(p)
                  /\ Cardinality(Probing(s)) = Cardinality(Probing(p)) - 1
           /\ a \notin Markets /\ p.worker[w] \notin Markets =>
                  Probing(s) = Probing(p)
<1>1. s.worker = [p.worker EXCEPT ![w] = a]
      /\ p.worker \in [Survey!Workers -> Survey!WorkerStates]
    BY DEF Moved, PassFits, Survey!Passes
<1>2. /\ s.worker[w] = a
      /\ \A v \in Survey!Workers : v # w => s.worker[v] = p.worker[v]
    BY <1>1
<1>3. IsFiniteSet(Probing(p))
    BY ProbingIsFinite
<1>4. ASSUME a \in Markets, p.worker[w] \notin Markets
      PROVE  /\ Probing(s) = Probing(p) \cup {w} /\ w \notin Probing(p)
             /\ Cardinality(Probing(s)) = Cardinality(Probing(p)) + 1
    <2>1. Probing(s) = Probing(p) \cup {w} /\ w \notin Probing(p)
        BY <1>2, <1>4 DEF Probing
    <2> QED  BY <1>3, <2>1, FS_AddElement
<1>5. ASSUME a \notin Markets, p.worker[w] \in Markets
      PROVE  /\ Probing(s) = Probing(p) \ {w} /\ w \in Probing(p)
             /\ Cardinality(Probing(s)) = Cardinality(Probing(p)) - 1
    <2>1. Probing(s) = Probing(p) \ {w} /\ w \in Probing(p)
        BY <1>2, <1>5 DEF Probing
    <2> QED  BY <1>3, <2>1, FS_RemoveElement
<1>6. ASSUME a \notin Markets, p.worker[w] \notin Markets
      PROVE  Probing(s) = Probing(p)
    BY <1>2, <1>6 DEF Probing
<1> QED  BY <1>2, <1>4, <1>5, <1>6

\* A thread takes the next market, or finds none left.
LEMMA IndexFits ==
    ASSUME NEW x \in Survey!Surveys, NEW b \in Seq(Survey!Posts), NEW p, PassFits(p),
           CurrentFits(x, p, b), NEW w \in Survey!Workers, p.worker[w] = "taking",
           NEW a, a = IF p.next <= Len(p.markets) THEN p.markets[p.next] ELSE "gone",
           NEW s, Moved(s, p, w, p.next + 1, a)
    PROVE  CurrentFits(x, s, b)
<1>1. PICK n, l : n = p.next /\ l = Len(p.markets)
    OBVIOUS
<1>2. /\ n \in Nat /\ n > 0 /\ l \in Nat /\ DOMAIN p.markets = 1 .. l
      /\ \A i \in 1 .. l : p.markets[i] \in Markets
    BY <1>1 DEF PassFits, Survey!Passes
<1>3. /\ s.next = n + 1 /\ s.markets = p.markets /\ s.product = p.product
      /\ s.scope = p.scope /\ s.cancelled = p.cancelled /\ s.closed = p.closed
    BY <1>1 DEF Moved, SamePass
<1>4. p.worker[w] \notin Markets
    BY SurveyConstants
<1>5. /\ n <= l => a \in Markets /\ a = p.markets[n]
      /\ ~(n <= l) => a = "gone" /\ a \notin Markets
    BY <1>1, <1>2, SurveyConstants
<1>6. /\ s.worker[w] = a
      /\ \A v \in Survey!Workers : v # w => s.worker[v] = p.worker[v]
    BY ThreadIs
<1>7. Counted(x, s, b)
    <2>1. /\ Cardinality(Probing(p)) \in Nat
          /\ Cardinality(PostedOf(b, x.generation)) \in Nat /\ x.answered \in Nat
        BY ProbingIsFinite, PostedIsFinite DEF Survey!Surveys
    <2>2. Counted(x, p, b)
        BY DEF CurrentFits
    <2>3. CASE n <= l
        <3>1. Cardinality(Probing(s)) = Cardinality(Probing(p)) + 1
            BY <1>4, <1>5, <2>3, ThreadIs
        <3>2. TakenIn(p) = n - 1 /\ TakenIn(s) = n
            <4>1. TakenIn(s) = IF n + 1 <= l THEN n ELSE l
                <5>1. s.next = n + 1 /\ Len(s.markets) = l /\ (n + 1) - 1 = n
                    BY <1>1, <1>2, <1>3
                <5> QED  BY <5>1 DEF TakenIn
            <4>2. TakenIn(p) = n - 1
                BY <1>1, <2>3 DEF TakenIn
            <4> QED  BY <1>2, <2>3, <4>1, <4>2
        <3>3. PICK i, j, k :
                  /\ i = x.answered /\ j = Cardinality(PostedOf(b, x.generation))
                  /\ k = Cardinality(Probing(p))
            OBVIOUS
        <3>4. i + j + k = n - 1
            BY <2>2, <3>2, <3>3 DEF Counted
        <3>5. i + j + (k + 1) = n
            <4>1. i \in Nat /\ j \in Nat /\ k \in Nat /\ n \in Nat
                BY <1>2, <2>1, <3>3
            <4> QED  BY <3>4, <4>1
        <3> QED  BY <3>1, <3>2, <3>3, <3>5 DEF Counted
    <2>4. CASE ~(n <= l)
        <3>1. Probing(s) = Probing(p)
            BY <1>4, <1>5, <2>4, ThreadIs
        <3>2. TakenIn(p) = l /\ TakenIn(s) = l
            BY <1>1, <1>2, <1>3, <2>4 DEF TakenIn
        <3> QED  BY <2>2, <3>1, <3>2 DEF Counted
    <2> QED  BY <2>3, <2>4
<1>8. ASSUME NEW i \in DOMAIN s.markets, i < s.next
      PROVE  Reached(x, s, b, s.markets[i])
    <2>1. i \in 1 .. l /\ s.markets[i] = p.markets[i]
        BY <1>2, <1>3, <1>8
    <2>2. CASE i = n
        BY <1>5, <1>6, <2>1, <2>2 DEF Reached
    <2>3. CASE i # n
        <3>1. i < n
            BY <1>2, <1>3, <1>8, <2>1, <2>3
        <3>2. Reached(x, p, b, p.markets[i]) /\ p.markets[i] \in Markets
            BY <1>1, <1>2, <2>1, <3>1 DEF CurrentFits
        <3> QED  BY <1>4, <1>6, <2>1, <3>2 DEF Reached
    <2> QED  BY <2>2, <2>3
<1>9. ASSUME NEW v \in Survey!Workers, s.worker[v] = "gone", v <= Len(s.markets)
      PROVE  s.next > Len(s.markets)
    <2>1. CASE v = w
        BY <1>2, <1>1, <1>3, <1>5, <1>6, <1>9, <2>1, SurveyConstants
    <2>2. CASE v # w
        <3>1. p.worker[v] = "gone" /\ v <= Len(p.markets)
            BY <1>3, <1>6, <1>9, <2>2
        <3>2. n > l
            BY <1>1, <3>1 DEF CurrentFits
        <3> QED  BY <1>1, <1>2, <1>3, <3>2
    <2> QED  BY <2>1, <2>2
<1>10. Covered(x, s)
    BY <1>3 DEF CurrentFits, Covered, Of
<1> QED
    BY <1>3, <1>7, <1>8, <1>9, <1>10 DEF CurrentFits

LEMMA TakeIndexKeeps ==
    ASSUME SurveyInv, NEW g \in DOMAIN pass, NEW w \in Survey!Workers,
           Survey!TakeIndex(g, w)
    PROVE  SurveyInv'
<1>1. PICK x, q, b, t, p :
          x = survey /\ q = pass /\ b = inbox /\ t = text /\ p = pass[g]
    OBVIOUS
<1>2. SearchFits(x, q, b, t) /\ g \in DOMAIN q /\ p = q[g]
      /\ b \in Seq(Survey!Posts) /\ t \in Products \cup {NoProduct}
    BY <1>1 DEF SurveyInv, SearchFits, BoxFits
<1>3. PassFits(p) /\ p \in Survey!Passes /\ p.worker[w] = "taking"
    BY <1>1, <1>2 DEF SearchFits, PassesFit, PassFits, Survey!TakeIndex
<1>4. PICK a : a = IF p.next <= Len(p.markets) THEN p.markets[p.next] ELSE "gone"
    OBVIOUS
<1>5. a \in Survey!WorkerStates /\ "gone" \in Survey!WorkerStates
    <2>1. p.markets \in Seq(Markets) /\ p.next \in Nat /\ p.next > 0
        BY <1>3 DEF PassFits, Survey!Passes
    <2> QED  BY <1>4, <2>1 DEF Survey!WorkerStates
<1>6. /\ inbox' = b /\ text' = t /\ serves' = serves /\ survey' = x
      /\ selected' = selected /\ showAll' = showAll
    BY <1>1 DEF Survey!TakeIndex
<1>7. selected' \in Regions \cup {NoRegion} /\ showAll' \in BOOLEAN
    BY <1>6 DEF SurveyInv
<1>8. CASE p.cancelled
    <2>1. PICK s : s = [p EXCEPT !.worker[w] = "gone"]
        OBVIOUS
    <2>2. Moved(s, p, w, p.next, "gone")
        BY <1>3, <1>5, <2>1, ProberMoves
    <2>3. PICK r : r = [q EXCEPT ![g] = s]
        OBVIOUS
    <2>4. pass' = r
        BY <1>1, <1>8, <2>1, <2>3 DEF Survey!TakeIndex, Survey!ToWorker
    <2>5. ~(x # NoSurvey /\ x.generation = g)
        BY <1>2, <1>8 DEF SearchFits, CurrentFits
    <2>6. SamePass(s, q[g])
        BY <1>2, <2>2 DEF Moved
    <2>7. SearchFits(x, r, b, t)
        BY <1>2, <2>3, <2>5, <2>6, PassMoves
    <2> QED  BY <1>2, <1>6, <1>7, <2>4, <2>7, SearchLands
<1>9. CASE ~p.cancelled
    <2>1. PICK s : s = [p EXCEPT !.next = @ + 1, !.worker[w] = a]
        OBVIOUS
    <2>2. Moved(s, p, w, p.next + 1, a)
        BY <1>3, <1>5, <2>1, ProberMoves
    <2>3. PICK r : r = [q EXCEPT ![g] = s]
        OBVIOUS
    <2>4. pass' = r
        BY <1>1, <1>4, <1>9, <2>1, <2>3 DEF Survey!TakeIndex
    <2>5. ASSUME x # NoSurvey, x.generation = g
          PROVE  CurrentFits(x, s, b)
        <3>1. x \in Survey!Surveys /\ CurrentFits(x, p, b)
            BY <1>2, <2>5 DEF SearchFits
        <3> QED  BY <1>2, <1>3, <1>4, <2>2, <3>1, IndexFits
    <2>6. SamePass(s, q[g])
        BY <1>2, <2>2 DEF Moved
    <2>7. SearchFits(x, r, b, t)
        BY <1>2, <2>3, <2>5, <2>6, PassMoves
    <2> QED  BY <1>2, <1>6, <1>7, <2>4, <2>7, SearchLands
<1> QED  BY <1>8, <1>9

\* What a thread was told goes to the messages.
LEMMA AnswerFits ==
    ASSUME NEW x \in Survey!Surveys, NEW b \in Seq(Survey!Posts), NEW p, PassFits(p),
           CurrentFits(x, p, b), ~p.closed,
           NEW w \in Survey!Workers, p.worker[w] \in Markets,
           NEW s, Moved(s, p, w, p.next, "taking"),
           NEW m \in Survey!Posts, m.generation = x.generation, ~m.finished,
           m.answers[1].market = p.worker[w],
           NEW c, c = Append(b, m)
    PROVE  CurrentFits(x, s, c)
<1>1. PICK g, n : g = x.generation /\ n = Len(b) + 1
    OBVIOUS
<1>2. /\ DOMAIN c = 1 .. n /\ c[n] = m
      /\ \A i \in DOMAIN b : i \in DOMAIN c /\ c[i] = b[i]
    <2>1. /\ DOMAIN c = 1 .. Len(b) + 1 /\ c[Len(b) + 1] = m
          /\ \A i \in DOMAIN b : i \in DOMAIN c /\ c[i] = b[i]
        BY PutBehind
    <2> QED  BY <1>1, <2>1
<1>3. /\ n \in PostedOf(c, g) /\ PostedOf(b, g) \subseteq PostedOf(c, g)
      /\ Cardinality(PostedOf(c, g)) = Cardinality(PostedOf(b, g)) + 1
    <2>1. /\ Len(b) + 1 \in PostedOf(c, g)
          /\ PostedOf(b, g) \subseteq PostedOf(c, g)
          /\ Cardinality(PostedOf(c, g)) = Cardinality(PostedOf(b, g)) + 1
        BY <1>1, PostedHere
    <2> QED  BY <1>1, <2>1
<1>4. /\ s.next = p.next /\ s.markets = p.markets /\ s.product = p.product
      /\ s.scope = p.scope /\ s.cancelled = p.cancelled /\ s.closed = p.closed
    BY DEF Moved, SamePass
<1>5. /\ s.worker[w] = "taking"
      /\ \A v \in Survey!Workers : v # w => s.worker[v] = p.worker[v]
    BY ThreadIs
<1>6. Counted(x, s, c)
    <2>1. /\ Cardinality(Probing(p)) \in Nat
          /\ Cardinality(PostedOf(b, g)) \in Nat /\ x.answered \in Nat
        BY ProbingIsFinite, PostedIsFinite DEF Survey!Surveys
    <2>2. Counted(x, p, b)
        BY DEF CurrentFits
    <2>3. Cardinality(Probing(s)) = Cardinality(Probing(p)) - 1
        BY SurveyConstants, ThreadIs
    <2>4. TakenIn(s) = TakenIn(p)
        BY <1>4 DEF TakenIn
    <2>5. x.answered + Cardinality(PostedOf(b, g)) + Cardinality(Probing(p))
              = TakenIn(p)
        BY <1>1, <2>2 DEF Counted
    <2>6. PICK i, j, k :
              /\ i = x.answered /\ j = Cardinality(PostedOf(b, g))
              /\ k = Cardinality(Probing(p))
        OBVIOUS
    <2>7. i + (j + 1) + (k - 1) = i + j + k
        BY <2>1, <2>6
    <2>8. x.answered + Cardinality(PostedOf(c, g)) + Cardinality(Probing(s))
              = TakenIn(p)
        BY <1>3, <2>3, <2>5, <2>6, <2>7
    <2> QED  BY <1>1, <2>4, <2>8 DEF Counted
<1>7. ASSUME NEW a, Reached(x, p, b, a) PROVE Reached(x, s, c, a)
    <2>1. CASE Known(x, a)
        BY <2>1 DEF Reached
    <2>2. CASE \E i \in PostedOf(b, x.generation) : b[i].answers[1].market = a
        <3>1. PICK i \in PostedOf(b, g) : b[i].answers[1].market = a
            BY <1>1, <2>2
        <3>2. i \in PostedOf(c, g) /\ c[i] = b[i]
            BY <1>2, <1>3, <3>1 DEF PostedOf
        <3> QED  BY <1>1, <3>1, <3>2 DEF Reached
    <2>3. CASE \E v \in Survey!Workers : p.worker[v] = a
        <3>1. PICK v \in Survey!Workers : p.worker[v] = a
            BY <2>3
        <3>2. CASE v = w
            <4>1. c[n].answers[1].market = a
                BY <1>2, <3>1, <3>2
            <4> QED  BY <1>1, <1>3, <4>1 DEF Reached
        <3>3. CASE v # w
            BY <1>5, <3>1, <3>3 DEF Reached
        <3> QED  BY <3>2, <3>3
    <2> QED  BY <1>7, <2>1, <2>2, <2>3 DEF Reached
<1>8. \A i \in DOMAIN s.markets : i < s.next => Reached(x, s, c, s.markets[i])
    BY <1>4, <1>7 DEF CurrentFits
<1>9. \A v \in Survey!Workers :
          s.worker[v] = "gone" /\ v <= Len(s.markets) => s.next > Len(s.markets)
    BY <1>4, <1>5 DEF CurrentFits
<1>10. Covered(x, s)
    BY <1>4 DEF CurrentFits, Covered, Of
<1> QED
    BY <1>4, <1>6, <1>8, <1>9, <1>10 DEF CurrentFits

LEMMA AskMarketKeeps ==
    ASSUME SurveyInv, NEW g \in DOMAIN pass, NEW w \in Survey!Workers,
           Survey!AskMarket(g, w)
    PROVE  SurveyInv'
<1>1. PICK x, q, b, t, p :
          x = survey /\ q = pass /\ b = inbox /\ t = text /\ p = pass[g]
    OBVIOUS
<1>2. SearchFits(x, q, b, t) /\ g \in DOMAIN q /\ p = q[g]
      /\ b \in Seq(Survey!Posts) /\ t \in Products \cup {NoProduct}
    BY <1>1 DEF SurveyInv, SearchFits, BoxFits
<1>3. /\ PassFits(p) /\ p \in Survey!Passes /\ p.worker[w] \in Markets
      /\ g \in Nat
    BY <1>1, <1>2 DEF SearchFits, PassesFit, PassFits, Survey!AskMarket
<1>4. PICK says \in Survey!ProbeAnswer(p.product, p.worker[w]) :
          inbox' = Append(b, [generation |-> g,
                              answers |-> <<[market |-> p.worker[w], says |-> says]>>,
                              finished |-> FALSE, scope |-> p.scope])
    BY <1>1 DEF Survey!AskMarket
<1>5. PICK m : m = [generation |-> g,
                    answers |-> <<[market |-> p.worker[w], says |-> says]>>,
                    finished |-> FALSE, scope |-> p.scope]
    OBVIOUS
<1>6. says \in Survey!Answers /\ says # "Unasked" /\ IsSo(p.product, p.worker[w], says)
    BY <1>4 DEF Survey!ProbeAnswer, Survey!Answers, IsSo
<1>7. PICK answers : answers = <<[market |-> p.worker[w], says |-> says]>>
    OBVIOUS
<1>8. /\ answers \in Seq([market: Markets, says: Survey!Answers])
      /\ Len(answers) = 1 /\ DOMAIN answers = {1}
      /\ answers[1].market = p.worker[w] /\ answers[1].says = says
    BY <1>3, <1>6, <1>7
<1>9. /\ m \in Survey!Posts /\ m.generation = g /\ m.answers = answers
      /\ ~m.finished /\ m.scope = p.scope
    <2>1. p.scope \in Survey!Scopes
        BY <1>3 DEF Survey!Passes
    <2>2. m = [generation |-> g, answers |-> answers, finished |-> FALSE,
               scope |-> p.scope]
        BY <1>5, <1>7
    <2> QED  BY <1>3, <1>8, <2>1, <2>2 DEF Survey!Posts
<1>10. PICK s, r, c :
          /\ s = [p EXCEPT !.worker[w] = "taking"]
          /\ r = [q EXCEPT ![g] = s] /\ c = Append(b, m)
    OBVIOUS
<1>11. p.worker[w] # "gone" /\ "taking" \in Survey!WorkerStates
    BY <1>3, SurveyConstants DEF Survey!WorkerStates
<1>12. ~p.closed /\ Moved(s, p, w, p.next, "taking")
    BY <1>3, <1>10, <1>11, ProberMoves
<1>13. SamePass(s, q[g]) /\ ~q[g].closed
    BY <1>2, <1>12 DEF Moved
<1>14. MessageFits(m, r)
    <2>1. PassesFit(q) /\ BoxFits(q, b)
        BY <1>2 DEF SearchFits
    <2>2. DOMAIN r = DOMAIN q /\ r[g] = s
        BY <1>2, <1>10, <1>13, <2>1, OnePassMoves
    <2>3. s.scope = p.scope /\ s.product = p.product
        BY <1>12 DEF Moved, SamePass
    <2> QED  BY <1>2, <1>6, <1>8, <1>9, <2>2, <2>3 DEF MessageFits
<1>15. ASSUME x # NoSurvey, x.generation = g
       PROVE  CurrentFits(x, s, c)
    <2>1. x \in Survey!Surveys /\ CurrentFits(x, p, b)
        BY <1>2, <1>15 DEF SearchFits
    <2>2. m.answers[1].market = p.worker[w] /\ m.generation = x.generation
        BY <1>8, <1>9, <1>15
    <2> QED  BY <1>2, <1>3, <1>9, <1>10, <1>12, <2>1, <2>2, AnswerFits
<1>16. SearchFits(x, r, c, t)
    BY <1>2, <1>9, <1>10, <1>13, <1>14, <1>15, PassPosts
<1>17. /\ inbox' = c /\ text' = t /\ serves' = serves /\ survey' = x /\ pass' = r
       /\ selected' = selected /\ showAll' = showAll
    BY <1>1, <1>4, <1>5, <1>10 DEF Survey!AskMarket, Survey!ToWorker
<1>18. selected' \in Regions \cup {NoRegion} /\ showAll' \in BOOLEAN
    BY <1>17 DEF SurveyInv
<1> QED  BY <1>2, <1>16, <1>17, <1>18, SearchLands

\* The coordinating thread closes the pass.
LEMMA ClosePassKeeps ==
    ASSUME SurveyInv, NEW g \in DOMAIN pass, Survey!ClosePass(g)
    PROVE  SurveyInv'
<1>1. PICK x, q, b, t, p :
          x = survey /\ q = pass /\ b = inbox /\ t = text /\ p = pass[g]
    OBVIOUS
<1>2. SearchFits(x, q, b, t) /\ g \in DOMAIN q /\ p = q[g]
      /\ b \in Seq(Survey!Posts) /\ t \in Products \cup {NoProduct}
      /\ PassesFit(q) /\ BoxFits(q, b)
    BY <1>1 DEF SurveyInv, SearchFits, BoxFits
<1>3. /\ PassFits(p) /\ p \in Survey!Passes /\ ~p.closed /\ NoneLeft(p)
      /\ g \in Nat
    BY <1>1, <1>2 DEF PassesFit, PassFits, NoneLeft, Survey!ClosePass
<1>4. PICK m, s, r, c :
          /\ m = [generation |-> g, answers |-> <<>>, finished |-> TRUE, scope |-> p.scope]
          /\ s = [p EXCEPT !.closed = TRUE]
          /\ r = [q EXCEPT ![g] = s] /\ c = Append(b, m)
    OBVIOUS
<1>5. /\ inbox' = c /\ text' = t /\ serves' = serves /\ survey' = x /\ pass' = r
      /\ selected' = selected /\ showAll' = showAll
    BY <1>1, <1>4 DEF Survey!ClosePass
<1>6. /\ m \in Survey!Posts /\ m.generation = g /\ m.answers = <<>>
      /\ m.finished /\ m.scope = p.scope
    <2>1. p.scope \in Survey!Scopes
        BY <1>3 DEF Survey!Passes
    <2> QED  BY <1>3, <1>4, <2>1 DEF Survey!Posts
<1>7. /\ s.product = p.product /\ s.markets = p.markets /\ s.scope = p.scope
      /\ s.cancelled = p.cancelled /\ s.next = p.next /\ s.worker = p.worker
      /\ s.closed = TRUE /\ s \in Survey!Passes
    BY <1>3, <1>4 DEF Survey!Passes
<1>8. SamePass(s, p) /\ SamePass(s, q[g])
    BY <1>2, <1>3, <1>7 DEF SamePass, PassFits, NoneLeft
<1>9. DOMAIN r = DOMAIN q /\ r[g] = s
    BY <1>2, <1>4, <1>8, OnePassMoves
<1>10. MessageFits(m, r)
    BY <1>2, <1>6, <1>7, <1>9 DEF MessageFits
<1>11. ASSUME x # NoSurvey, x.generation = g
       PROVE  CurrentFits(x, s, c)
    <2>1. x \in Survey!Surveys /\ CurrentFits(x, p, b)
        BY <1>2, <1>11 DEF SearchFits
    <2>2. PostedOf(c, g) = PostedOf(b, g)
        BY <1>2, <1>4, <1>6, PostedElsewhere
    <2>3. \A i \in DOMAIN b : i \in DOMAIN c /\ c[i] = b[i]
        BY <1>2, <1>4, <1>6, PutBehind
    <2>4. Probing(s) = Probing(p) /\ TakenIn(s) = TakenIn(p)
        BY <1>7 DEF Probing, TakenIn
    <2>5. Counted(x, s, c)
        BY <1>11, <2>1, <2>2, <2>4 DEF CurrentFits, Counted
    <2>6. ASSUME NEW a, Reached(x, p, b, a) PROVE Reached(x, s, c, a)
        <3>1. \A i \in PostedOf(b, g) : i \in DOMAIN b
            BY DEF PostedOf
        <3> QED  BY <1>7, <1>11, <2>2, <2>3, <2>6, <3>1 DEF Reached
    <2>7. x.running
        BY <1>3, <2>1 DEF CurrentFits
    <2>8. Covered(x, s)
        BY <1>7, <2>1 DEF CurrentFits, Covered, Of
    <2> QED
        BY <1>7, <2>1, <2>5, <2>6, <2>7, <2>8 DEF CurrentFits
<1>12. SearchFits(x, r, c, t)
    BY <1>2, <1>3, <1>4, <1>6, <1>8, <1>10, <1>11, PassPosts
<1>13. selected' \in Regions \cup {NoRegion} /\ showAll' \in BOOLEAN
    BY <1>5 DEF SurveyInv
<1> QED  BY <1>2, <1>5, <1>12, <1>13, SearchLands

\* What a report of no answer, or of one, makes known.
LEMMA NothingRecorded ==
    ASSUME NEW x \in Survey!Surveys
    PROVE  Survey!Recorded(x, <<>>) = x
<1>1. PICK y : y = Survey!Recorded(x, <<>>)
    OBVIOUS
<1>2. x.answers \in [Markets -> Survey!Answers] /\ x.answered \in Nat
    BY DEF Survey!Surveys
<1>3. \A m : {i \in DOMAIN <<>> : <<>>[i].market = m} = {}
    OBVIOUS
<1>4. y = [x EXCEPT !.answered = @ + Len(<<>>),
                    !.answers = [m \in Markets |-> x.answers[m]]]
    BY <1>1, <1>3 DEF Survey!Recorded
<1>5. [m \in Markets |-> x.answers[m]] = x.answers /\ x.answered + Len(<<>>) = x.answered
    BY <1>2
<1>6. y = x
    BY <1>4, <1>5 DEF Survey!Surveys
<1> QED  BY <1>1, <1>6

OneTold(y, x, a) ==
    /\ y \in Survey!Surveys
    /\ y.answered = x.answered + 1
    /\ y.product = x.product /\ y.scope = x.scope /\ y.total = x.total
    /\ y.running = x.running /\ y.searched = x.searched /\ y.settled = x.settled
    /\ y.generation = x.generation
    /\ \A m \in Markets :
           y.answers[m] = IF a.market = m THEN a.says ELSE x.answers[m]

LEMMA OneRecorded ==
    ASSUME NEW x \in Survey!Surveys,
           NEW s \in Seq([market: Markets, says: Survey!Answers]), Len(s) = 1
    PROVE  OneTold(Survey!Recorded(x, s), x, s[1])
<1> DEFINE About(m) == {i \in DOMAIN s : s[i].market = m}
           Latest(m) == CHOOSE i \in About(m) : \A j \in About(m) : j <= i
<1>1. PICK y : y = Survey!Recorded(x, s)
    OBVIOUS
<1>2. /\ x.answers \in [Markets -> Survey!Answers] /\ x.answered \in Nat
      /\ DOMAIN s = {1} /\ s[1] \in [market: Markets, says: Survey!Answers]
    <2>1. x.answers \in [Markets -> Survey!Answers] /\ x.answered \in Nat
        BY DEF Survey!Surveys
    <2>2. DOMAIN s = 1 .. 1
        OBVIOUS
    <2>3. 1 .. 1 = {1}
        OBVIOUS
    <2>4. PICK S : S = [market: Markets, says: Survey!Answers]
        OBVIOUS
    <2>5. s \in Seq(S)
        BY <2>4
    <2>6. s[1] \in S
        BY <2>5
    <2> QED  BY <2>1, <2>2, <2>3, <2>4, <2>6
<1>3. PICK f : f = [m \in Markets |->
                       IF About(m) = {} THEN x.answers[m] ELSE s[Latest(m)].says]
    OBVIOUS
<1>4. y = [x EXCEPT !.answered = @ + Len(s), !.answers = f]
    BY <1>1, <1>3 DEF Survey!Recorded
<1>5. ASSUME NEW m \in Markets
      PROVE  f[m] = IF s[1].market = m THEN s[1].says ELSE x.answers[m]
    <2>1. f[m] = IF About(m) = {} THEN x.answers[m] ELSE s[Latest(m)].says
        BY <1>3
    <2>2. CASE s[1].market = m
        <3>1. About(m) = {1}
            BY <1>2, <2>2
        <3>2. Latest(m) = 1
            <4>1. \E i \in About(m) : \A j \in About(m) : j <= i
                BY <3>1
            <4>2. Latest(m) \in About(m)
                BY <4>1
            <4> QED  BY <3>1, <4>2
        <3> QED  BY <2>1, <2>2, <3>1, <3>2
    <2>3. CASE s[1].market # m
        <3>1. About(m) = {}
            BY <1>2, <2>3
        <3> QED  BY <2>1, <2>3, <3>1
    <2> QED  BY <2>2, <2>3
<1>6. f \in [Markets -> Survey!Answers]
    BY <1>2, <1>3, <1>5
<1>7. PICK n : n = x.answered + 1
    OBVIOUS
<1>8. n \in Nat /\ x.answered + Len(s) = n
    BY <1>2, <1>7
<1>9. y = [product |-> x.product, answers |-> f, scope |-> x.scope,
           answered |-> n, total |-> x.total, running |-> x.running,
           searched |-> x.searched, settled |-> x.settled,
           generation |-> x.generation]
    BY <1>4, <1>8 DEF Survey!Surveys
<1>10. y \in Survey!Surveys
    BY <1>6, <1>8, <1>9 DEF Survey!Surveys
<1>11. /\ y.answered = n /\ y.product = x.product /\ y.scope = x.scope
       /\ y.total = x.total /\ y.running = x.running /\ y.searched = x.searched
       /\ y.settled = x.settled /\ y.generation = x.generation /\ y.answers = f
    BY <1>9
<1>12. OneTold(y, x, s[1])
    BY <1>5, <1>7, <1>10, <1>11 DEF OneTold
<1> QED  BY <1>1, <1>12

LEMMA BoxShrinks ==
    ASSUME NEW q, NEW b, BoxFits(q, b), b # <<>>
    PROVE  BoxFits(q, Tail(b)) /\ Tail(b) \in Seq(Survey!Posts)
<1>1. PICK c : c = Tail(b)
    OBVIOUS
<1>2. b \in Seq(Survey!Posts)
    BY DEF BoxFits
<1>3. /\ c \in Seq(Survey!Posts) /\ DOMAIN c \subseteq Nat \ {0}
      /\ \A i \in DOMAIN c : i + 1 \in DOMAIN b /\ c[i] = b[i + 1]
    BY <1>1, <1>2, FirstTaken
<1>4. \A i \in DOMAIN c : MessageFits(c[i], q)
    BY <1>3 DEF BoxFits
<1>5. ASSUME NEW i \in DOMAIN c, NEW j \in DOMAIN c, c[i].finished, i < j
      PROVE  c[j].generation # c[i].generation
    <2>1. i + 1 < j + 1
        BY <1>3, <1>5
    <2> QED  BY <1>3, <1>5, <2>1 DEF BoxFits
<1> QED  BY <1>1, <1>3, <1>4, <1>5 DEF BoxFits

\* A message posted before is found one place earlier.
Told(b, g, a) == \E i \in PostedOf(b, g) : b[i].answers[1].market = a

LEMMA StillPosted ==
    ASSUME NEW b \in Seq(Survey!Posts), b # <<>>, NEW g,
           NEW i \in PostedOf(b, g), i # 1
    PROVE  Told(Tail(b), g, b[i].answers[1].market)
<1>1. PICK c : c = Tail(b)
    OBVIOUS
<1>2. \A k \in DOMAIN b : k = 1 \/ (k - 1 \in DOMAIN c /\ c[k - 1] = b[k])
    BY <1>1, FirstTaken
<1>3. i - 1 \in DOMAIN c /\ c[i - 1] = b[i]
    BY <1>2 DEF PostedOf
<1>4. i - 1 \in PostedOf(c, g)
    BY <1>3 DEF PostedOf
<1> QED  BY <1>1, <1>3, <1>4 DEF Told

LEMMA OthersTaken ==
    ASSUME NEW x, NEW p, NEW q, NEW b, BoxFits(q, b), b # <<>>,
           CurrentFits(x, p, b), b[1].generation # x.generation
    PROVE  CurrentFits(x, p, Tail(b))
<1>1. PICK c, g : c = Tail(b) /\ g = x.generation
    OBVIOUS
<1>2. b \in Seq(Survey!Posts)
    BY DEF BoxFits
<1>3. \A i \in DOMAIN c : i + 1 \in DOMAIN b /\ c[i] = b[i + 1]
    BY <1>1, <1>2, FirstTaken
<1>4. 1 \notin PostedOf(b, g)
    BY <1>1 DEF PostedOf
<1>5. Cardinality(PostedOf(c, g)) = Cardinality(PostedOf(b, g))
    BY <1>1, <1>2, <1>4, PostedTaken
<1>6. Counted(x, p, c)
    BY <1>1, <1>5 DEF CurrentFits, Counted
<1>7. ASSUME NEW a, Reached(x, p, b, a) PROVE Reached(x, p, c, a)
    <2>1. CASE \E i \in PostedOf(b, x.generation) : b[i].answers[1].market = a
        <3>1. PICK i \in PostedOf(b, g) : b[i].answers[1].market = a
            BY <1>1, <2>1
        <3>2. i # 1
            BY <1>4
        <3>3. Told(Tail(b), g, b[i].answers[1].market)
            BY <1>2, <3>2, StillPosted
        <3> QED  BY <1>1, <3>1, <3>3 DEF Reached, Told
    <2> QED  BY <1>7, <2>1 DEF Reached
<1>8. (\A i \in DOMAIN b : b[i].generation # x.generation)
          => \A i \in DOMAIN c : c[i].generation # x.generation
    BY <1>3
<1>9. CurrentFits(x, p, c)
    BY <1>6, <1>7, <1>8 DEF CurrentFits
<1> QED  BY <1>1, <1>9

\* The window counts an answer of the pass asked last.
LEMMA AnswerCounts ==
    ASSUME NEW x \in Survey!Surveys, NEW q, NEW b, BoxFits(q, b), b # <<>>,
           NEW p, p = q[x.generation], PassFits(p), CurrentFits(x, p, b),
           b[1].generation = x.generation, ~b[1].finished,
           NEW y, OneTold(y, x, b[1].answers[1])
    PROVE  CurrentFits(y, p, Tail(b))
<1>1. PICK c, g, a : c = Tail(b) /\ g = x.generation /\ a = b[1].answers[1]
    OBVIOUS
<1>2. b \in Seq(Survey!Posts) /\ 1 \in DOMAIN b
    BY FirstTaken DEF BoxFits
<1>3. /\ a.says # "Unasked" /\ IsSo(p.product, a.market, a.says)
    <2>1. MessageFits(b[1], q) /\ b[1] \in Survey!Posts
        BY <1>2 DEF BoxFits
    <2>2. 1 \in DOMAIN b[1].answers
        <3>1. Len(b[1].answers) = 1 /\ b[1].answers \in Seq([market: Markets, says: Survey!Answers])
            BY <2>1 DEF MessageFits, Survey!Posts
        <3> QED  BY <3>1
    <2> QED  BY <1>1, <2>1, <2>2 DEF MessageFits
<1>4. /\ y.product = x.product /\ y.scope = x.scope /\ y.total = x.total
      /\ y.running = x.running /\ y.searched = x.searched /\ y.settled = x.settled
      /\ y.generation = g /\ y.answered = x.answered + 1
      /\ \A m \in Markets :
             y.answers[m] = IF a.market = m THEN a.says ELSE x.answers[m]
    BY <1>1 DEF OneTold
<1>5. \A m \in Markets : Known(x, m) \/ a.market = m => Known(y, m)
    BY <1>3, <1>4 DEF Known
<1>6. x.running
    BY <1>2 DEF CurrentFits
<1>7. Counted(y, p, c)
    <2>1. 1 \in PostedOf(b, g)
        BY <1>1, <1>2 DEF PostedOf
    <2>2. Cardinality(PostedOf(c, g)) = Cardinality(PostedOf(b, g)) - 1
        BY <1>1, <1>2, <2>1, PostedTaken
    <2>3. PICK i, j, k :
              /\ i = x.answered /\ j = Cardinality(PostedOf(b, g))
              /\ k = Cardinality(Probing(p))
        OBVIOUS
    <2>4. i \in Nat /\ j \in Nat /\ k \in Nat
        BY <1>2, <2>3, ProbingIsFinite, PostedIsFinite DEF Survey!Surveys
    <2>5. (i + 1) + (j - 1) + k = i + j + k
        BY <2>4
    <2>6. i + j + k = TakenIn(p)
        BY <1>1, <2>3 DEF CurrentFits, Counted
    <2> QED  BY <1>4, <2>2, <2>3, <2>5, <2>6 DEF Counted
<1>8. ASSUME NEW m \in Markets, Reached(x, p, b, m) PROVE Reached(y, p, c, m)
    <2>1. CASE Known(x, m)
        BY <1>5, <2>1 DEF Reached
    <2>2. CASE \E i \in PostedOf(b, x.generation) : b[i].answers[1].market = m
        <3>1. PICK i \in PostedOf(b, g) : b[i].answers[1].market = m
            BY <1>1, <2>2
        <3>2. CASE i = 1
            BY <1>1, <1>5, <3>1, <3>2 DEF Reached
        <3>3. CASE i # 1
            <4>1. Told(Tail(b), g, b[i].answers[1].market)
                BY <1>2, <3>3, StillPosted
            <4> QED  BY <1>1, <1>4, <3>1, <4>1 DEF Reached, Told
        <3> QED  BY <3>2, <3>3
    <2>3. CASE \E w \in Survey!Workers : p.worker[w] = m
        BY <2>3 DEF Reached
    <2> QED  BY <1>8, <2>1, <2>2, <2>3 DEF Reached
<1>9. \A i \in DOMAIN p.markets : i < p.next => Reached(y, p, c, p.markets[i])
    <2>1. \A i \in DOMAIN p.markets : p.markets[i] \in Markets
        BY DEF PassFits, Survey!Passes
    <2> QED  BY <1>8, <2>1 DEF CurrentFits
<1>10. Covered(y, p)
    <2>1. \A m \in Curated : m \in Markets
        BY SurveyConstants
    <2> QED  BY <1>4, <1>5, <1>6, <2>1 DEF CurrentFits, Covered
<1>11. Truthful(y)
    <2>1. p.product = x.product
        BY DEF CurrentFits
    <2>2. ASSUME NEW m \in Markets PROVE IsSo(y.product, m, y.answers[m])
        BY <1>3, <1>4, <2>1 DEF CurrentFits, Truthful, IsSo
    <2> QED  BY <1>4, <2>2 DEF CurrentFits, Truthful
<1>12. CurrentFits(y, p, c)
    BY <1>4, <1>6, <1>7, <1>9, <1>10, <1>11 DEF CurrentFits
<1> QED  BY <1>1, <1>12

\* The last report of the pass: each market of it has answered.
Over(y, x, scope) ==
    /\ y \in Survey!Surveys
    /\ y.answered = x.answered /\ y.product = x.product /\ y.total = x.total
    /\ y.running = FALSE /\ y.searched = x.searched
    /\ y.settled = Survey!Offering(x)
    /\ y.scope = (IF scope = "Complete" THEN scope ELSE x.scope)
    /\ y.generation = x.generation /\ y.answers = x.answers

LEMMA SettledSays ==
    ASSUME NEW x \in Survey!Surveys, NEW scope \in Survey!Scopes
    PROVE  Over(Survey!Settled(x, scope), x, scope)
<1>1. PICK y, o, k :
          /\ y = Survey!Settled(x, scope) /\ o = Survey!Offering(x)
          /\ k = IF scope = "Complete" THEN scope ELSE x.scope
    OBVIOUS
<1>2. o \in SUBSET Markets /\ k \in Survey!Scopes
    BY <1>1 DEF Survey!Offering, Survey!Surveys
<1>3. y = [product |-> x.product, answers |-> x.answers, scope |-> k,
           answered |-> x.answered, total |-> x.total, running |-> FALSE,
           searched |-> x.searched, settled |-> o, generation |-> x.generation]
    BY <1>1 DEF Survey!Settled, Survey!Surveys
<1>4. y \in Survey!Surveys
    BY <1>2, <1>3 DEF Survey!Surveys
<1>5. /\ y.answered = x.answered /\ y.product = x.product /\ y.total = x.total
      /\ y.running = FALSE /\ y.searched = x.searched /\ y.settled = o
      /\ y.scope = k /\ y.generation = x.generation /\ y.answers = x.answers
    BY <1>3
<1> QED  BY <1>1, <1>4, <1>5 DEF Over

LEMMA AllAnswered ==
    ASSUME NEW x, NEW p, NEW b, PassFits(p), CurrentFits(x, p, b), NoneLeft(p),
           PostedOf(b, x.generation) = {}
    PROVE  /\ p.next > Len(p.markets) \/ Len(p.markets) = 0
           /\ \A m \in Markets : Of(p, m) => Known(x, m)
<1>1. /\ p.markets \in Seq(Markets) /\ p.next \in Nat /\ p.next > 0
      /\ Len(p.markets) \in Nat /\ DOMAIN p.markets = 1 .. Len(p.markets)
    BY DEF PassFits, Survey!Passes
<1>2. 1 \in Survey!Workers
    BY SurveyConstants DEF Survey!Workers
<1>3. p.worker[1] = "gone"
    BY <1>2 DEF NoneLeft
<1>4. 1 <= Len(p.markets) => p.next > Len(p.markets)
    BY <1>2, <1>3 DEF CurrentFits
<1>5. ASSUME NEW m \in Markets, Of(p, m) PROVE Known(x, m)
    <2>1. PICK i \in DOMAIN p.markets : p.markets[i] = m
        BY <1>5 DEF Of
    <2>2. i < p.next
        BY <1>1, <1>4, <2>1
    <2>3. Reached(x, p, b, m)
        BY <2>1, <2>2 DEF CurrentFits
    <2>4. \A w \in Survey!Workers : p.worker[w] # m
        BY <1>5, SurveyConstants DEF NoneLeft
    <2> QED  BY <2>3, <2>4 DEF Reached
<1> QED  BY <1>1, <1>4, <1>5

LEMMA PassIsOver ==
    ASSUME NEW x \in Survey!Surveys, NEW q, NEW b, BoxFits(q, b), b # <<>>,
           NEW p, p = q[x.generation], PassFits(p), CurrentFits(x, p, b),
           b[1].generation = x.generation, b[1].finished,
           NEW y, Over(y, x, b[1].scope)
    PROVE  CurrentFits(y, p, Tail(b))
<1>1. PICK c, g : c = Tail(b) /\ g = x.generation
    OBVIOUS
<1>2. /\ b \in Seq(Survey!Posts) /\ 1 \in DOMAIN b /\ DOMAIN c \subseteq Nat \ {0}
      /\ \A i \in DOMAIN c : i + 1 \in DOMAIN b /\ c[i] = b[i + 1]
      /\ \A i \in DOMAIN b : i = 1 \/ (i - 1 \in DOMAIN c /\ c[i - 1] = b[i])
    <2>1. b \in Seq(Survey!Posts)
        BY DEF BoxFits
    <2> QED  BY <1>1, <2>1, FirstTaken
<1>3. \A i \in DOMAIN c : c[i].generation # g
    <2>1. ASSUME NEW i \in DOMAIN c PROVE c[i].generation # g
        <3>1. i + 1 \in DOMAIN b /\ c[i] = b[i + 1] /\ 1 < i + 1
            BY <1>2
        <3>2. b[i + 1].generation # b[1].generation
            BY <1>2, <3>1 DEF BoxFits
        <3> QED  BY <1>1, <3>1, <3>2
    <2> QED  BY <2>1
<1>4. PostedOf(b, g) = {} /\ PostedOf(c, g) = {}
    <2>1. PostedOf(c, g) = {}
        BY <1>3 DEF PostedOf
    <2>2. ASSUME NEW i \in PostedOf(b, g) PROVE FALSE
        <3>1. i # 1 /\ i \in DOMAIN b /\ b[i].generation = g
            BY <2>2 DEF PostedOf
        <3>2. i - 1 \in DOMAIN c /\ c[i - 1].generation = g
            BY <1>2, <3>1
        <3> QED  BY <1>3, <3>2
    <2> QED  BY <2>1, <2>2
<1>5. p.closed /\ NoneLeft(p) /\ p.scope = b[1].scope
    BY <1>2 DEF BoxFits, MessageFits, PassFits
<1>6. \A m \in Markets : Of(p, m) => Known(x, m)
    BY <1>1, <1>4, <1>5, AllAnswered
<1>7. /\ y.answered = x.answered /\ y.product = x.product /\ y.total = x.total
      /\ y.running = FALSE /\ y.searched = x.searched
      /\ y.settled = Survey!Offering(x)
      /\ y.scope = (IF p.scope = "Complete" THEN "Complete" ELSE x.scope)
      /\ y.generation = g /\ y.answers = x.answers
    BY <1>1, <1>5 DEF Over
<1>8. \A m : Known(y, m) <=> Known(x, m)
    BY <1>7 DEF Known
<1>9. Counted(y, p, c)
    BY <1>1, <1>4, <1>7 DEF CurrentFits, Counted
<1>10. \A m : Reached(x, p, b, m) => Reached(y, p, c, m)
    BY <1>1, <1>4, <1>8 DEF Reached
<1>11. x.running
    BY <1>2 DEF CurrentFits
<1>12. Covered(y, p)
    <2>1. \A m \in Curated : m \in Markets
        BY SurveyConstants
    <2> QED  BY <1>6, <1>7, <1>8, <1>11, <2>1 DEF CurrentFits, Covered
<1>13. Truthful(y)
    BY <1>7 DEF CurrentFits, Truthful, IsSo, Survey!Offering
<1>14. CurrentFits(y, p, c)
    BY <1>1, <1>3, <1>5, <1>7, <1>9, <1>10, <1>12, <1>13 DEF CurrentFits
<1> QED  BY <1>1, <1>14

\* What the window knows once it has taken a report of the pass asked last.
LEMMA ReportKnown ==
    ASSUME NEW x, NEW q, NEW b, NEW product, SearchFits(x, q, b, product),
           x # NoSurvey, b # <<>>, b[1].generation = x.generation,
           NEW y, y = Survey!Recorded(x, b[1].answers),
           NEW z, z = IF b[1].finished THEN Survey!Settled(y, b[1].scope) ELSE y
    PROVE  SearchFits(z, q, Tail(b), product) /\ z \in Survey!Surveys
<1>1. PICK p : p = q[x.generation]
    OBVIOUS
<1>2. /\ x \in Survey!Surveys /\ PassesFit(q) /\ BoxFits(q, b)
      /\ x.generation \in DOMAIN q /\ x.product = product
      /\ PassFits(p) /\ CurrentFits(x, p, b) /\ StraysStopped(x, q)
    BY <1>1 DEF SearchFits, PassesFit
<1>3. b[1] \in Survey!Posts /\ MessageFits(b[1], q)
    <2>1. b \in Seq(Survey!Posts)
        BY <1>2 DEF BoxFits
    <2>2. 1 \in DOMAIN b /\ b[1] \in Survey!Posts
        BY <2>1, FirstTaken
    <2> QED  BY <1>2, <2>2 DEF BoxFits
<1>4. BoxFits(q, Tail(b))
    BY <1>2, BoxShrinks
<1>5. CASE ~b[1].finished
    <2>1. b[1].answers \in Seq([market: Markets, says: Survey!Answers])
          /\ Len(b[1].answers) = 1
        BY <1>3, <1>5 DEF MessageFits, Survey!Posts
    <2>2. OneTold(y, x, b[1].answers[1])
        BY <1>2, <2>1, OneRecorded
    <2>3. CurrentFits(y, p, Tail(b))
        BY <1>1, <1>2, <1>5, <2>2, AnswerCounts
    <2>4. y \in Survey!Surveys /\ y.generation = x.generation /\ y.product = x.product
        BY <2>2 DEF OneTold
    <2>5. StraysStopped(y, q)
        BY <1>2, <2>4, NothingIsNoSurvey DEF StraysStopped
    <2> QED  BY <1>1, <1>2, <1>4, <1>5, <2>3, <2>4, <2>5 DEF SearchFits
<1>6. CASE b[1].finished
    <2>1. b[1].answers = <<>> /\ b[1].scope \in Survey!Scopes
        <3>1. Len(b[1].answers) = 0
              /\ b[1].answers \in Seq([market: Markets, says: Survey!Answers])
            BY <1>3, <1>6 DEF MessageFits, Survey!Posts
        <3>2. b[1].scope \in Survey!Scopes
            BY <1>3 DEF Survey!Posts
        <3> QED  BY <3>1, <3>2
    <2>2. y = x
        BY <1>2, <2>1, NothingRecorded
    <2>3. Over(z, x, b[1].scope)
        BY <1>2, <1>6, <2>1, <2>2, SettledSays
    <2>4. CurrentFits(z, p, Tail(b))
        BY <1>1, <1>2, <1>6, <2>3, PassIsOver
    <2>5. z \in Survey!Surveys /\ z.generation = x.generation /\ z.product = x.product
        BY <2>3 DEF Over
    <2>6. StraysStopped(z, q)
        BY <1>2, <2>5, NothingIsNoSurvey DEF StraysStopped
    <2> QED  BY <1>1, <1>2, <1>4, <2>4, <2>5, <2>6 DEF SearchFits
<1> QED  BY <1>5, <1>6

LEMMA WideningFits ==
    ASSUME NEW x, NEW q, NEW b, NEW product \in Products \cup {NoProduct},
           SearchFits(x, q, b, product), NEW region0,
           NEW r, r = Survey!WidenSearchAfterRefusal([survey |-> x, pass |-> q],
                                                     product, region0)
    PROVE  SearchFits(r.survey, r.pass, b, product)
<1>1. CASE r = [survey |-> x, pass |-> q]
    BY <1>1
<1>2. CASE /\ product # NoProduct
           /\ r = Survey!StartSurveyPass([survey |-> x, pass |-> q],
                                         product, Curated, "Curated")
    <2>1. product \in Products
        BY <1>2
    <2>2. Curated \in SUBSET Markets /\ Curated # {} /\ "Curated" \in Survey!Scopes
        BY SurveyConstants, FS_EmptySet DEF Survey!Scopes
    <2> QED  BY <1>2, <2>1, <2>2, StartFits
<1> QED
    BY <1>1, <1>2 DEF Survey!WidenSearchAfterRefusal, Survey!SelectedRegionRefused

LEMMA TakeReportKeeps ==
    ASSUME SurveyInv, Survey!TakeReport
    PROVE  SurveyInv'
<1>1. PICK x, q, b, t, m :
          x = survey /\ q = pass /\ b = inbox /\ t = text /\ m = b[1]
    OBVIOUS
<1>2. /\ SearchFits(x, q, b, t) /\ b \in Seq(Survey!Posts) /\ BoxFits(q, b)
      /\ t \in Products \cup {NoProduct} /\ b # <<>>
    BY <1>1 DEF SurveyInv, SearchFits, BoxFits, Survey!TakeReport
<1>3. Head(b) = m
    BY <1>1, <1>2
<1>4. /\ inbox' = Tail(b) /\ text' = t /\ serves' = serves /\ showAll' = showAll
      /\ showAll' \in BOOLEAN
    BY <1>1 DEF Survey!TakeReport, SurveyInv
<1>5. PICK c : c = Tail(b)
    OBVIOUS
<1>6. CASE Survey!IsCurrent(m)
    <2>1. x # NoSurvey /\ b[1].generation = x.generation
        BY <1>1, <1>6 DEF Survey!IsCurrent
    <2>2. PICK y : y = Survey!Recorded(x, m.answers)
        OBVIOUS
    <2>3. PICK z : z = IF m.finished THEN Survey!Settled(y, m.scope) ELSE y
        OBVIOUS
    <2>4. SearchFits(z, q, c, t) /\ z \in Survey!Surveys
        BY <1>1, <1>2, <1>5, <2>1, <2>2, <2>3, ReportKnown
    <2>5. PICK r : r = IF m.finished
                       THEN Survey!WidenSearchAfterRefusal([survey |-> z, pass |-> q],
                                                           t, selected)
                       ELSE [survey |-> z, pass |-> q]
        OBVIOUS
    <2>6. SearchFits(r.survey, r.pass, c, t)
        <3>1. CASE m.finished
            <4>1. r = Survey!WidenSearchAfterRefusal([survey |-> z, pass |-> q],
                                                     t, selected)
                BY <2>5, <3>1
            <4> QED  BY <1>2, <2>4, <4>1, WideningFits
        <3>2. CASE ~m.finished
            BY <2>4, <2>5, <3>2
        <3> QED  BY <3>1, <3>2
    <2>7. PICK u, v : u = r.survey /\ v = r.pass
        OBVIOUS
    <2>8. Survey!ApplyMarketAnswers(m)
        BY <1>1, <1>3, <1>6 DEF Survey!TakeReport
    <2>9. /\ survey' = u /\ pass' = v
          /\ selected' = Survey!KeepSelectionReachable(u, showAll, selected)
        <3>1. CASE m.finished
            BY <1>1, <2>2, <2>3, <2>5, <2>7, <2>8, <3>1
               DEF Survey!ApplyMarketAnswers, Survey!Becomes
        <3>2. CASE ~m.finished
            BY <1>1, <2>2, <2>3, <2>5, <2>7, <2>8, <3>2
               DEF Survey!ApplyMarketAnswers, Survey!Becomes
        <3> QED  BY <3>1, <3>2
    <2>10. SearchFits(u, v, c, t)
        BY <2>6, <2>7
    <2>11. selected' \in Regions \cup {NoRegion}
        <3>1. u = NoSurvey \/ u \in Survey!Surveys
            BY <2>10 DEF SearchFits
        <3> QED  BY <2>9, <3>1, SelectionStays
    <2> QED  BY <1>2, <1>4, <1>5, <2>9, <2>10, <2>11, SearchLands
<1>7. CASE ~Survey!IsCurrent(m)
    <2>1. /\ survey' = x /\ pass' = q /\ selected' = selected
          /\ x # NoSurvey => b[1].generation # x.generation
        BY <1>1, <1>3, <1>7 DEF Survey!TakeReport, Survey!IsCurrent
    <2>2. BoxFits(q, c)
        BY <1>2, <1>5, BoxShrinks
    <2>3. SearchFits(x, q, c, t)
        <3>1. CASE x = NoSurvey
            BY <1>2, <2>2, <3>1 DEF SearchFits
        <3>2. CASE x # NoSurvey
            <4>1. PICK p : p = q[x.generation]
                OBVIOUS
            <4>2. CurrentFits(x, p, b)
                BY <1>2, <3>2, <4>1 DEF SearchFits
            <4>3. CurrentFits(x, p, c)
                BY <1>2, <1>5, <2>1, <3>2, <4>2, OthersTaken
            <4> QED  BY <1>2, <2>2, <3>2, <4>1, <4>3 DEF SearchFits
        <3> QED  BY <3>1, <3>2
    <2>4. selected' \in Regions \cup {NoRegion}
        BY <2>1 DEF SurveyInv
    <2> QED  BY <1>2, <1>4, <1>5, <2>1, <2>3, <2>4, SearchLands
<1> QED  BY <1>6, <1>7

LEMMA SurveyRests ==
    ASSUME SurveyInv, UNCHANGED surveyVars
    PROVE  SurveyInv'
<1>1. PICK x, q, b, t : x = survey /\ q = pass /\ b = inbox /\ t = text
    OBVIOUS
<1>2. SearchFits(x, q, b, t) /\ t \in Products \cup {NoProduct}
    BY <1>1 DEF SurveyInv
<1>3. /\ survey' = x /\ pass' = q /\ inbox' = b /\ text' = t /\ serves' = serves
      /\ selected' = selected /\ showAll' = showAll
    BY <1>1 DEF surveyVars
<1>4. selected' \in Regions \cup {NoRegion} /\ showAll' \in BOOLEAN
    BY <1>3 DEF SurveyInv
<1> QED  BY <1>2, <1>3, <1>4, SearchLands

LEMMA SurveyStepKeeps ==
    ASSUME SurveyInv, [Survey!Next]_surveyVars
    PROVE  SurveyInv'
<1>1. CASE UNCHANGED surveyVars
    BY <1>1, SurveyRests
<1>2. ASSUME NEW p \in Products \cup {NoProduct}, Survey!SetStoreText(p)
      PROVE  SurveyInv'
    BY <1>2, SetStoreTextKeeps
<1>3. ASSUME NEW r \in Regions \cup {NoRegion}, Survey!SelectTemporaryRegion(r)
      PROVE  SurveyInv'
    BY <1>3, SelectKeeps
<1>4. CASE Survey!FindRegion \/ Survey!CheckRemaining \/ Survey!ShowAllRegions
    BY <1>4, FindKeeps, CheckKeeps, ShowAllKeeps
<1>5. ASSUME NEW p \in Products, Survey!OpenUpdateInInstallation(p)
      PROVE  SurveyInv'
    BY <1>5, OpenUpdateKeeps
<1>6. ASSUME NEW g \in DOMAIN pass, Survey!ClosePass(g)
      PROVE  SurveyInv'
    BY <1>6, ClosePassKeeps
<1>7. ASSUME NEW g \in DOMAIN pass, NEW w \in Survey!Workers, Survey!WorkerStep(g, w)
      PROVE  SurveyInv'
    BY <1>7, TakeIndexKeeps, AskMarketKeeps DEF Survey!WorkerStep
<1>8. CASE Survey!TakeReport
    BY <1>8, TakeReportKeeps
<1> QED
    BY <1>1, <1>2, <1>3, <1>4, <1>5, <1>6, <1>7, <1>8
       DEF Survey!Next, Survey!UserStep

LEMMA SurveySays ==
    SurveyInv =>
        /\ Survey!TypeOK
        /\ Survey!AnswersAreAboutTheDraft /\ Survey!ProgressIsOfThisPass
        /\ Survey!ConclusiveIsTheWholeAnswer
<1> SUFFICES ASSUME SurveyInv
             PROVE  /\ Survey!TypeOK
                    /\ Survey!AnswersAreAboutTheDraft /\ Survey!ProgressIsOfThisPass
                    /\ Survey!ConclusiveIsTheWholeAnswer
    OBVIOUS
<1>1. /\ PassesFit(pass) /\ BoxFits(pass, inbox)
      /\ survey = NoSurvey \/ survey \in Survey!Surveys
      /\ survey # NoSurvey =>
             /\ survey.generation \in DOMAIN pass /\ survey.product = text
             /\ CurrentFits(survey, pass[survey.generation], inbox)
    BY DEF SurveyInv, SearchFits
<1>2. Survey!TypeOK
    <2>1. \A g \in DOMAIN pass : pass[g] \in Survey!Passes
        BY <1>1 DEF PassesFit, PassFits
    <2>2. \A i \in DOMAIN inbox : inbox[i] \in Survey!Posts
        BY <1>1 DEF BoxFits
    <2> QED  BY <1>1, <2>1, <2>2 DEF SurveyInv, Survey!TypeOK
<1>3. Survey!AnswersAreAboutTheDraft
    BY <1>1 DEF CurrentFits, Truthful, IsSo, Survey!AnswersAreAboutTheDraft
<1>4. Survey!ProgressIsOfThisPass
    <2> SUFFICES ASSUME survey # NoSurvey
                 PROVE  /\ survey.answered <= survey.total
                        /\ ~survey.running =>
                               /\ survey.answered = survey.total
                               /\ \A m \in Survey!ToSet(pass[survey.generation].markets) :
                                      survey.answers[m] # "Unasked"
        BY DEF Survey!ProgressIsOfThisPass
    <2>1. PICK x, p, g, b : x = survey /\ g = survey.generation /\ p = pass[g] /\ b = inbox
        OBVIOUS
    <2>2. /\ x \in Survey!Surveys /\ x.generation = g /\ PassFits(p)
          /\ CurrentFits(x, p, b) /\ b \in Seq(Survey!Posts)
        BY <1>1, <2>1 DEF PassesFit, BoxFits
    <2>3. PICK i, j, k, l :
              /\ i = x.answered /\ j = Cardinality(PostedOf(b, g))
              /\ k = Cardinality(Probing(p)) /\ l = Len(p.markets)
        OBVIOUS
    <2>4. i \in Nat /\ j \in Nat /\ k \in Nat /\ l \in Nat
        <3>1. i \in Nat /\ j \in Nat /\ k \in Nat
            BY <2>2, <2>3, ProbingIsFinite, PostedIsFinite DEF Survey!Surveys
        <3>2. p.markets \in Seq(Markets)
            BY <2>2 DEF PassFits, Survey!Passes
        <3> QED  BY <2>3, <3>1, <3>2
    <2>5. i + j + k = TakenIn(p) /\ x.total = l
        BY <2>2, <2>3 DEF CurrentFits, Counted
    <2>6. TakenIn(p) <= l
        <3>1. p.next \in Nat /\ p.next > 0
            BY <2>2 DEF PassFits, Survey!Passes
        <3> QED  BY <2>3, <2>4, <3>1 DEF TakenIn
    <2>7. i <= l
        <3>1. i <= i + j + k
            BY <2>4
        <3>2. i + j + k \in Nat
            BY <2>4
        <3> QED  BY <2>4, <2>5, <2>6, <3>1, <3>2
    <2>8. ASSUME ~x.running
          PROVE  i = l /\ \A m \in Survey!ToSet(p.markets) : x.answers[m] # "Unasked"
        <3>1. PostedOf(b, g) = {} /\ NoneLeft(p)
            BY <2>2, <2>8 DEF CurrentFits, PostedOf, PassFits
        <3>2. Probing(p) = {}
            BY <3>1, SurveyConstants DEF Probing, NoneLeft
        <3>3. j = 0 /\ k = 0
            BY <2>3, <3>1, <3>2, FS_EmptySet
        <3>4. /\ p.next > Len(p.markets) \/ Len(p.markets) = 0
              /\ \A m \in Markets : Of(p, m) => Known(x, m)
            BY <2>2, <3>1, AllAnswered
        <3>5. TakenIn(p) = l
            <4>1. p.next \in Nat /\ p.next > 0
                BY <2>2 DEF PassFits, Survey!Passes
            <4> QED  BY <2>3, <2>4, <3>4, <4>1 DEF TakenIn
        <3>6. i = l
            BY <2>4, <2>5, <3>3, <3>5
        <3>7. \A m \in Survey!ToSet(p.markets) : m \in Markets /\ Of(p, m)
            <4>1. p.markets \in Seq(Markets)
                BY <2>2 DEF PassFits, Survey!Passes
            <4> QED  BY <4>1 DEF Survey!ToSet, Of
        <3> QED  BY <3>4, <3>6, <3>7 DEF Known
    <2> QED  BY <2>1, <2>3, <2>5, <2>7, <2>8
<1>5. Survey!ConclusiveIsTheWholeAnswer
    <2> SUFFICES ASSUME survey # NoSurvey, Survey!IsConclusive(survey)
                 PROVE  Survey!Offering(survey) = serves[survey.product]
        BY DEF Survey!ConclusiveIsTheWholeAnswer
    <2>1. survey \in Survey!Surveys /\ CurrentFits(survey, pass[survey.generation], inbox)
        BY <1>1
    <2>2. \A m \in Markets : Known(survey, m) /\ survey.answers[m] # "Unknown"
        BY <2>1 DEF CurrentFits, Covered, Survey!IsConclusive
    <2>3. \A m \in Markets : survey.answers[m] \in {"Offered", "NotOffered"}
        BY <2>1, <2>2 DEF Known, Survey!Surveys, Survey!Answers
    <2>4. \A m \in Markets : survey.answers[m] = "Offered" <=> m \in serves[survey.product]
        BY <2>1, <2>3 DEF CurrentFits, Truthful, IsSo
    <2>5. serves[survey.product] \subseteq Markets
        BY <2>1 DEF SurveyInv, Survey!Surveys
    <2> QED  BY <2>4, <2>5 DEF Survey!Offering
<1> QED  BY <1>2, <1>3, <1>4, <1>5

------------------------------------------------------------------------------
(* The screen over the search.  The box keeps its own list and selection   *)
(* between renderings; a rendering leaves it as a rebuilding would, but    *)
(* for a region that is no longer the one selected, which it then does not *)
(* name.                                                                   *)

BoxShows(shown0, items, lang, region0) ==
    /\ shown0 \in Survey!Boxes
    /\ shown0.items = items /\ shown0.language = lang
    /\ shown0.shows \in {Blank, region0} /\ shown0.shows \in items \cup {Blank}

ScreenInv ==
    /\ SurveyInv
    /\ language \in Languages /\ source \in Survey!Sources
    /\ input \in Products \cup {NoProduct}
    /\ BoxShows(box, Survey!OfferedRegions(survey, showAll), language, selected)

LEMMA BlankIsNoRegion == Blank \notin Regions
BY PartsFit DEF Survey!BoxAssumption

LEMMA RefillShows ==
    ASSUME NEW items \in SUBSET Regions, NEW lang \in Languages, NEW region0,
           NEW v, v = Survey!Refilled(items, lang, region0)
    PROVE  BoxShows(v, items, lang, region0)
<1>1. PICK shows : shows = IF region0 \in items THEN region0 ELSE Blank
    OBVIOUS
<1>2. v = [items |-> items, language |-> lang, shows |-> shows]
    BY <1>1 DEF Survey!Refilled
<1>3. shows \in Regions \cup {Blank} /\ shows \in {Blank, region0}
      /\ shows \in items \cup {Blank}
    BY <1>1
<1> QED  BY <1>2, <1>3 DEF BoxShows, Survey!Boxes

\* What a rendering makes of a box whose region is the one selected, or is not
\* in the list offered.
LEMMA RenderShows ==
    ASSUME ScreenInv, SurveyInv', NEW shown0 \in Survey!Boxes,
           shown0.shows \in shown0.items \cup {Blank},
           shown0.items = Survey!OfferedRegions(survey', showAll') =>
               shown0.shows \in {Blank, selected'},
           Survey!Render(shown0),
           language' \in Languages, source' \in Survey!Sources,
           input' \in Products \cup {NoProduct}
    PROVE  ScreenInv'
<1>1. PICK items, lang, region0 :
          /\ items = Survey!OfferedRegions(survey', showAll')
          /\ lang = language' /\ region0 = selected'
    OBVIOUS
<1>2. items \in SUBSET Regions
    <2>1. (survey = NoSurvey \/ survey \in Survey!Surveys)'
        BY DEF SurveyInv, SearchFits
    <2>2. PICK x, all : x = survey' /\ all = showAll'
        OBVIOUS
    <2>3. x = NoSurvey \/ x \in Survey!Surveys
        BY <2>1, <2>2
    <2> QED  BY <1>1, <2>2, <2>3, OfferedListed
<1>3. box' = IF shown0.items = items /\ shown0.language = lang THEN shown0
             ELSE Survey!Refilled(items, lang, region0)
    BY <1>1 DEF Survey!Render, Survey!RefreshRegionChoices
<1>4. BoxShows(box', items, lang, region0)
    <2>1. CASE shown0.items = items /\ shown0.language = lang
        BY <1>1, <1>3, <2>1 DEF BoxShows
    <2>2. CASE ~(shown0.items = items /\ shown0.language = lang)
        BY <1>1, <1>2, <1>3, <2>2, RefillShows
    <2> QED  BY <2>1, <2>2
<1>5. BoxShows(box, Survey!OfferedRegions(survey, showAll), language, selected)'
    BY <1>1, <1>4 DEF BoxShows, Survey!OfferedRegions
<1> QED  BY <1>5 DEF ScreenInv

\* The rendering of a handler that leaves box and selection to the user.
LEMMA RenderKeeps ==
    ASSUME ScreenInv, SurveyInv', Survey!Render(box), selected' = selected,
           language' \in Languages, source' \in Survey!Sources,
           input' \in Products \cup {NoProduct}
    PROVE  ScreenInv'
BY RenderShows DEF ScreenInv, BoxShows

LEMMA FirstProbe ==
    ASSUME NEW v, v.survey = NoSurvey, NEW product, NEW region0,
           NEW r, r = Survey!ProbeSelectedRegion(v, product, region0)
    PROVE  r.survey = NoSurvey \/ r.survey.settled = {}
<1>1. PICK markets, scope : markets = {region0} /\ scope = "Curated"
    OBVIOUS
<1>2. PICK y, t :
          /\ y = Survey!FreshSurvey(product, Len(v.pass) + 1, Survey!Cardinality(markets))
          /\ t = Append(Survey!Cancelled(v).pass,
                        Survey!NewPass(product, markets, scope))
    OBVIOUS
<1>3. Survey!StartSurveyPass(v, product, markets, scope) = [survey |-> y, pass |-> t]
    BY <1>1, <1>2 DEF Survey!StartSurveyPass
<1>4. y.settled = {}
    BY <1>2 DEF Survey!FreshSurvey
<1>5. r = v \/ r = Survey!StartSurveyPass(v, product, markets, scope)
    BY <1>1 DEF Survey!ProbeSelectedRegion
<1> QED  BY <1>3, <1>4, <1>5

\* The box is filled first with the list a search has not narrowed yet.
LEMMA ScreenBegins ==
    ASSUME NEW searches, SurveyBegins(searches), Survey!BoxInit
    PROVE  ScreenInv
<1>1. SurveyInv
    BY SurveyInit
<1>2. PICK items, lang, region0 :
          items = Regions /\ lang = language /\ region0 = selected
    OBVIOUS
<1>3. BoxShows(box, items, lang, region0)
    BY <1>2, RefillShows DEF Survey!BoxInit
<1>4. Survey!OfferedRegions(survey, showAll) = Regions
    <2>1. survey = NoSurvey \/ survey.settled = {}
        <3>1. PICK p, q, r, v :
                  /\ p = text /\ q = selected /\ v = [survey |-> NoSurvey, pass |-> <<>>]
                  /\ r = Survey!ProbeSelectedRegion(v, p, q)
            OBVIOUS
        <3>2. survey = r.survey
            BY <3>1 DEF SurveyBegins, Survey!Init
        <3> QED  BY <3>1, <3>2, FirstProbe
    <2> QED  BY <2>1 DEF Survey!OfferedRegions
<1> QED
    BY <1>1, <1>2, <1>3, <1>4
       DEF ScreenInv, Survey!BoxInit, Survey!Sources, SurveyBegins, Survey!Init

\* The handlers that begin nothing but a rendering, and those of the search.
LEMMA ScreenUserKeeps ==
    ASSUME ScreenInv, SurveyInv',
           \/ \E p \in Products \cup {NoProduct} : Survey!ChangeInput(p)
           \/ \E p \in Products : Survey!RepeatFromJournal(p) \/ Survey!OpenUpdate(p)
           \/ Survey!PressSearch
           \/ Survey!SelectSource
           \/ Survey!SelectLanguage
    PROVE  ScreenInv'
<1>1. /\ language \in Languages /\ source \in Survey!Sources
      /\ input \in Products \cup {NoProduct} /\ "StoreText" \in Survey!Sources
    BY DEF ScreenInv, Survey!Sources
<1>2. Survey!Render(box)
    BY DEF Survey!ChangeInput, Survey!RepeatFromJournal, Survey!OpenUpdate,
       Survey!PressSearch, Survey!SelectSource, Survey!SelectLanguage
<1>3. selected' = selected
    BY DEF Survey!ChangeInput, Survey!RepeatFromJournal, Survey!OpenUpdate,
       Survey!PressSearch, Survey!SelectSource, Survey!SelectLanguage,
       Survey!SetStoreText, Survey!OpenUpdateInInstallation, Survey!FindRegion,
       Survey!CheckRemaining, Survey!ShowAllRegions, Survey!vars
<1>4. language' \in Languages
    BY <1>1 DEF Survey!ChangeInput, Survey!RepeatFromJournal, Survey!OpenUpdate,
       Survey!PressSearch, Survey!SelectSource, Survey!SelectLanguage
<1>5. source' \in Survey!Sources
    BY <1>1 DEF Survey!ChangeInput, Survey!RepeatFromJournal, Survey!OpenUpdate,
       Survey!PressSearch, Survey!SelectSource, Survey!SelectLanguage
<1>6. input' \in Products \cup {NoProduct}
    BY <1>1 DEF Survey!ChangeInput, Survey!RepeatFromJournal, Survey!OpenUpdate,
       Survey!PressSearch, Survey!SelectSource, Survey!SelectLanguage
<1> QED  BY <1>2, <1>3, <1>4, <1>5, <1>6, RenderKeeps

\* A region picked is the one selected and the one shown.
LEMMA PickKeeps ==
    ASSUME ScreenInv, SurveyInv', NEW r \in Regions, Survey!PickRegion(r)
    PROVE  ScreenInv'
<1>1. PICK b, v : b = box /\ v = [b EXCEPT !.shows = r]
    OBVIOUS
<1>2. b \in Survey!Boxes /\ r \in b.items
    BY <1>1 DEF ScreenInv, BoxShows, Survey!PickRegion
<1>3. v \in Survey!Boxes /\ v.shows = r /\ v.items = b.items
    BY <1>1, <1>2 DEF Survey!Boxes
<1>4. selected' = r /\ Survey!Render(v)
      /\ language' = language /\ source' = source /\ input' = input
    BY <1>1 DEF Survey!PickRegion, Survey!SelectTemporaryRegion
<1>5. language' \in Languages /\ source' \in Survey!Sources
      /\ input' \in Products \cup {NoProduct}
    BY <1>4 DEF ScreenInv
<1> QED  BY <1>2, <1>3, <1>4, <1>5, RenderShows

\* A report moves a selection only to a list that does not hold it.
LEMMA ReportShown ==
    ASSUME ScreenInv, SurveyInv', Survey!ShowReport
    PROVE  ScreenInv'
<1>1. Survey!TakeReport /\ Survey!Render(box)
      /\ language' = language /\ source' = source /\ input' = input
    BY DEF Survey!ShowReport
<1>2. language' \in Languages /\ source' \in Survey!Sources
      /\ input' \in Products \cup {NoProduct}
    BY <1>1 DEF ScreenInv
<1>3. PICK m : m = Head(inbox)
    OBVIOUS
<1>4. CASE selected' = selected
    BY <1>1, <1>2, <1>4, RenderKeeps
<1>5. CASE selected' # selected
    <2>1. Survey!ApplyMarketAnswers(m)
        BY <1>1, <1>3, <1>5 DEF Survey!TakeReport
    <2>2. \E after : survey' = after.survey
              /\ selected' = Survey!KeepSelectionReachable(after.survey, showAll, selected)
        BY <2>1 DEF Survey!ApplyMarketAnswers, Survey!Becomes
    <2>3. showAll' = showAll
        BY <1>1 DEF Survey!TakeReport
    <2>4. selected \notin Survey!OfferedRegions(survey', showAll')
        BY <1>5, <2>2, <2>3 DEF Survey!KeepSelectionReachable
    <2>5. /\ box \in Survey!Boxes /\ box.shows \in box.items \cup {Blank}
          /\ box.shows \in {Blank, selected}
        BY DEF ScreenInv, BoxShows
    <2> QED  BY <1>1, <1>2, <2>4, <2>5, RenderShows
<1> QED  BY <1>4, <1>5

LEMMA ThreadsLeaveTheScreen ==
    ASSUME ScreenInv, SurveyInv', Survey!AskedElsewhere
    PROVE  ScreenInv'
<1>1. /\ survey' = survey /\ showAll' = showAll /\ selected' = selected
      /\ language' = language /\ source' = source /\ input' = input /\ box' = box
    BY DEF Survey!AskedElsewhere, Survey!screen, Survey!ClosePass, Survey!WorkerStep,
       Survey!TakeIndex, Survey!AskMarket
<1> QED  BY <1>1 DEF ScreenInv, BoxShows, Survey!OfferedRegions

LEMMA ScreenIsASearch ==
    ASSUME Survey!BoxNext
    PROVE  [Survey!Next]_surveyVars
<1>1. CASE \E p \in Products \cup {NoProduct} : Survey!ChangeInput(p)
    BY <1>1 DEF Survey!ChangeInput, Survey!Next, Survey!UserStep
<1>2. CASE \E p \in Products : Survey!RepeatFromJournal(p) \/ Survey!OpenUpdate(p)
    BY <1>2 DEF Survey!RepeatFromJournal, Survey!OpenUpdate, Survey!Next, Survey!UserStep
<1>3. CASE \E r \in Regions : Survey!PickRegion(r)
    BY <1>3 DEF Survey!PickRegion, Survey!Next, Survey!UserStep
<1>4. CASE Survey!PressSearch
    BY <1>4 DEF Survey!PressSearch, Survey!Next, Survey!UserStep
<1>5. CASE Survey!SelectSource \/ Survey!SelectLanguage
    BY <1>5 DEF Survey!SelectSource, Survey!SelectLanguage, Survey!vars, surveyVars
<1>6. CASE Survey!ShowReport
    BY <1>6 DEF Survey!ShowReport, Survey!Next
<1>7. CASE Survey!AskedElsewhere
    BY <1>7 DEF Survey!AskedElsewhere, Survey!Next
<1> QED
    BY <1>1, <1>2, <1>3, <1>4, <1>5, <1>6, <1>7 DEF Survey!BoxNext

LEMMA ScreenStepKeeps ==
    ASSUME ScreenInv, [Survey!BoxNext]_<<surveyVars, screenVars>>
    PROVE  ScreenInv'
<1>1. SurveyInv
    BY DEF ScreenInv
<1>2. CASE UNCHANGED <<surveyVars, screenVars>>
    <2>1. SurveyInv'
        BY <1>1, <1>2, SurveyRests
    <2> QED
        BY <1>2, <2>1
           DEF ScreenInv, BoxShows, Survey!OfferedRegions, surveyVars, screenVars
<1>3. CASE Survey!BoxNext
    <2>1. SurveyInv'
        BY <1>1, <1>3, ScreenIsASearch, SurveyStepKeeps
    <2> QED
        BY <1>3, <2>1, ScreenUserKeeps, PickKeeps, ReportShown, ThreadsLeaveTheScreen
           DEF Survey!BoxNext
<1> QED  BY <1>2, <1>3

\* A search that is over, or of which a single market is asked again, has had
\* an answer.
LEMMA SearchedIsAnswered ==
    ASSUME SurveyInv, survey # NoSurvey, survey.searched,
           ~(survey.running /\ survey.total > 1)
    PROVE  \E m \in Markets : survey.answers[m] # "Unasked"
<1>1. PICK x, p, b : x = survey /\ p = pass[survey.generation] /\ b = inbox
    OBVIOUS
<1>2. /\ CurrentFits(x, p, b) /\ x \in Survey!Surveys /\ PassFits(p)
      /\ x.searched /\ ~(x.running /\ x.total > 1)
    BY <1>1 DEF SurveyInv, SearchFits, PassesFit
<1>3. PICK c, d \in Curated : c # d
    <2>1. Curated \subseteq Markets /\ Cardinality(Curated) > 1
        BY SurveyConstants
    <2>2. IsFiniteSet(Curated) /\ Cardinality(Curated) \in Nat
        BY <2>1, MarketsCount
    <2>3. PICK c : c \in Curated
        BY <2>1, <2>2, FS_EmptySet
    <2>4. Curated # {c}
        BY <2>1, FS_Singleton
    <2> QED  BY <2>3, <2>4
<1>4. c \in Markets
    BY <1>3, SurveyConstants
<1>5. CASE \A m \in Curated : Known(x, m)
    BY <1>1, <1>3, <1>4, <1>5 DEF Known
<1>6. CASE x.running /\ \A m \in Curated : Of(p, m)
    <2>1. /\ p.markets \in Seq(Markets) /\ x.total = Len(p.markets)
          /\ Len(p.markets) \in Nat /\ DOMAIN p.markets = 1 .. Len(p.markets)
        BY <1>2 DEF CurrentFits, PassFits, Survey!Passes
    <2>2. PICK i, j \in DOMAIN p.markets : p.markets[i] = c /\ p.markets[j] = d
        BY <1>3, <1>6 DEF Of
    <2>3. i # j
        BY <1>3, <2>2
    <2>4. Len(p.markets) > 1
        BY <2>1, <2>2, <2>3
    <2> QED  BY <1>2, <1>6, <2>1, <2>4
<1> QED  BY <1>2, <1>5, <1>6 DEF CurrentFits, Covered

LEMMA ScreenSays ==
    ASSUME ScreenInv
    PROVE  /\ Survey!BoxTypeOK
           /\ Survey!ListIsOffered /\ Survey!ShownIsSelected
           /\ Survey!StatusIsTrue /\ Survey!CardIsOfTheLink
<1>1. /\ SurveyInv /\ Survey!AnswersAreAboutTheDraft
      /\ survey = NoSurvey \/ survey \in Survey!Surveys
      /\ StraysStopped(survey, pass)
    BY SurveySays DEF ScreenInv, SurveyInv, SearchFits
<1>2. Survey!BoxTypeOK /\ Survey!ListIsOffered /\ Survey!ShownIsSelected
    BY DEF ScreenInv, BoxShows, Survey!BoxTypeOK, Survey!ListIsOffered,
       Survey!ShownIsSelected
<1>3. ASSUME survey # NoSurvey, Survey!AnswerFor(selected) = "Offered"
      PROVE  selected \in Markets /\ selected \in serves[text] /\ survey.product = text
    BY <1>1, <1>3 DEF Survey!AnswerFor, Survey!AnswersAreAboutTheDraft
<1>4. ASSUME survey # NoSurvey, Survey!AnswerFor(selected) = "NotOffered"
      PROVE  selected \notin serves[text]
    BY <1>1, <1>4 DEF Survey!AnswerFor, Survey!AnswersAreAboutTheDraft
<1>5. Survey!CardIsOfTheLink
    <2>1. SUFFICES ASSUME Survey!OfferedCard # NoProduct
                   PROVE  /\ source = "StoreText"
                          /\ Survey!OfferedCard.product = text
                          /\ Survey!OfferedCard.market \in serves[text]
        BY DEF Survey!CardIsOfTheLink
    <2>2. /\ source = "StoreText" /\ survey # NoSurvey
          /\ Survey!AnswerFor(selected) = "Offered"
          /\ Survey!OfferedCard = [product |-> survey.product, market |-> selected]
        BY <2>1 DEF Survey!OfferedCard, Survey!OfferFrom
    <2> QED  BY <1>3, <2>2
<1>6. Survey!StatusIsTrue
    <2>1. PICK says : says = Survey!AvailabilityStatus
        OBVIOUS
    <2>2. says = "offered here" => selected \in serves[text]
        BY <1>3, <2>1 DEF Survey!AvailabilityStatus, Survey!SelectedRegionStatus,
           Survey!FoundStatus
    <2>3. says = "not offered here" => selected \notin serves[text]
        BY <1>4, <2>1 DEF Survey!AvailabilityStatus, Survey!SelectedRegionStatus,
           Survey!FoundStatus
    <2>4. ASSUME says \in {"none", "offline"}
          PROVE  /\ survey # NoSurvey /\ survey.searched
                 /\ ~(survey.running /\ survey.total > 1)
                 /\ Survey!Offering(survey) = {}
                 /\ says = "offline" <=> Survey!Answered = Survey!Silent
        BY <2>1, <2>4 DEF Survey!AvailabilityStatus, Survey!SelectedRegionStatus,
           Survey!FoundStatus
    <2>5. says = "offline" => Survey!Silent # {}
        BY <1>1, <2>4, SearchedIsAnswered DEF Survey!Answered
    <2>6. says = "none" => \E m \in Markets : m \notin serves[text]
        <3> SUFFICES ASSUME says = "none"
                     PROVE  \E m \in Markets : m \notin serves[text]
            OBVIOUS
        <3>1. survey # NoSurvey /\ survey \in Survey!Surveys
              /\ Survey!Answered # Survey!Silent /\ Survey!Offering(survey) = {}
            BY <1>1, <2>4
        <3>2. Survey!Silent \subseteq Survey!Answered
            BY DEF Survey!Silent, Survey!Answered
        <3>3. PICK m \in Survey!Answered : m \notin Survey!Silent
            BY <3>1, <3>2
        <3>4. m \in Markets /\ survey.answers[m] \notin {"Unasked", "Unknown", "Offered"}
            BY <3>1, <3>3 DEF Survey!Answered, Survey!Silent, Survey!Offering
        <3>5. survey.answers[m] \in Survey!Answers
            BY <3>1, <3>4 DEF Survey!Surveys
        <3>6. survey.answers[m] = "NotOffered"
            BY <3>4, <3>5 DEF Survey!Answers
        <3> QED  BY <1>1, <3>1, <3>4, <3>6 DEF Survey!AnswersAreAboutTheDraft
    <2>7. survey = NoSurvey => \A i \in DOMAIN pass : pass[i].cancelled
        BY <1>1 DEF StraysStopped
    <2> QED
        BY <2>1, <2>2, <2>3, <2>5, <2>6, <2>7 DEF Survey!StatusIsTrue
<1> QED  BY <1>2, <1>5, <1>6

LEMMA SurveyMoves ==
    ASSUME [PartsNext]_partsVars
    PROVE  /\ part' = part
           /\ part = "survey" => [Survey!Next]_surveyVars
           /\ part = "box" => [Survey!BoxNext]_<<surveyVars, screenVars>>
BY DEF PartsNext, LaunchingStep, SurveyStep, BoxStep, ScanStep, PackageStep, Rest, Turn,
       partsVars

(* The search for a region says the truth of the product now in the draft, *)
(* whatever products, markets and regions there are, however many threads  *)
(* and passes, although threads of earlier drafts go on posting            *)
(* (command.rs:474, work.rs:406).  Progress counts every market of its     *)
(* pass once (work.rs:418), and a market missing from a conclusive answer  *)
(* does not offer the product (availability.rs:216).  The region box, the  *)
(* sentence and the card show no more than that, through narrowed lists,   *)
(* moved selections and changes of language and source (render.rs:600-756).*)
THEOREM SurveyHolds == PartsSpec => []SurveyIsTrue
<1> DEFINE Inv == /\ part = "survey" => SurveyInv
                  /\ part = "box" => ScreenInv
<1>1. PartsInit => Inv
    BY SurveyInit, ScreenBegins DEF PartsInit
<1>2. Inv /\ [PartsNext]_partsVars => Inv'
    BY SurveyMoves, SurveyStepKeeps, ScreenStepKeeps
<1>3. Inv => SurveyIsTrue
    BY SurveySays, ScreenSays DEF SurveyIsTrue, ScreenInv
<1> QED
    BY <1>1, <1>2, <1>3, PTL DEF PartsSpec
================================================================================
