----------------------------- MODULE UpdatesScan -----------------------------
(***************************************************************************)
(* The updates tab: a scan of the installed Store applications by threads  *)
(* that share a counter, a list and a clock; the answer remembered on disk *)
(* for the next run; and the window that shows one of the two              *)
(* (gui/work.rs, gui/command.rs, gui/window.rs, platform/storage.rs,       *)
(* core/availability.rs). The selected row is left out.                    *)
(***************************************************************************)
EXTENDS Naturals, SequencesExt, FiniteSets

CONSTANTS
    Applications,   \* the installed Store applications
    Markets,        \* the markets a region can name
    Reference,      \* the curated markets a refusal is compared with
    Concurrency,    \* SURVEY_CONCURRENCY, the most threads of a scan
    Nothing,        \* no answer, no file
    MaxScans,       \* bound on the scans the user asks for
    MaxMoves        \* bound on the changes of the region

ScanAssumption ==
    /\ IsFiniteSet(Applications) /\ Reference \subseteq Markets
    /\ Nothing \notin Markets
    /\ Concurrency \in Nat \ {0} /\ MaxScans \in Nat /\ MaxMoves \in Nat

VARIABLES
    catalogue,   \* what the Store has of each application
    region,      \* the market of the region in force
    current,     \* AppState::current_region, read when the window began
    view,        \* UpdatesView
    taken,       \* updates_taken: the shown list names when it was taken
    scan,        \* every scan begun; its place is its generation
    saved,       \* updates-scan.json
    startup,     \* the thread of the startup checks
    inbox,       \* posted messages, in order
    from,        \* history: the scan the view is about, 0 when remembered
    moves        \* history: changes of the region

vars == <<catalogue, region, current, view, taken, scan, saved, startup,
          inbox, from, moves>>

Worlds == [known: BOOLEAN, serves: SUBSET Markets, same: BOOLEAN]

Remembered == [market: Markets, listed: SUBSET Applications] \cup {Nothing}

Views ==
    [kind: {"Idle", "Scanning", "Ready", "Unavailable"},
     done: Nat, total: Nat, listed: SUBSET Applications]

Shows(kind, done, total, listed) ==
    [kind |-> kind, done |-> done, total |-> total, listed |-> listed]

Workers == 1 .. Concurrency

\* A thread takes an application, asks about it, adds its finding under the
\* lock, and posts the report it copied there after the lock is released.
Threads ==
    [at: {"taking", "asking", "adding", "posting", "gone"},
     application: Applications \cup {Nothing}, worth: BOOLEAN,
     done: Nat, listed: SUBSET Applications]

Scans ==
    [market: Markets, next: Nat, done: Nat, found: SUBSET Applications,
     worker: [Workers -> Threads],
     at: {"listing", "joining", "saving", "closing", "over"}]

-----------------------------------------------------------------------------
(* One application.                                                        *)

IsWorthListing(candidate) ==
    /\ candidate.product
    /\ candidate.availability = "NotOffered" /\ candidate.elsewhere
    /\ ~candidate.versionsMatch

\* Any question may stay unanswered; the later ones follow a refusal only.
SurveyApplication(a, market) ==
    LET world == catalogue[a]
        Answer(m) == {"Unknown", IF m \in world.serves THEN "Offered"
                                 ELSE "NotOffered"}
        OthersOffer == world.serves \cap (Reference \ {market}) # {}
    IN  {c \in [product: BOOLEAN, elsewhere: BOOLEAN, versionsMatch: BOOLEAN,
                availability: {"Unknown", "NotOffered", "Offered"}] :
            /\ c.product => world.known
            /\ c.availability \in IF c.product THEN Answer(market)
                                  ELSE {"Unknown"}
            /\ c.elsewhere => c.availability # "Offered" /\ OthersOffer
            /\ c.elsewhere => c.product
            /\ c.versionsMatch => c.elsewhere /\ world.same}

-----------------------------------------------------------------------------
(* The window and the user.                                                *)

NewScan(market) ==
    [market |-> market, next |-> 1, done |-> 0, found |-> {},
     worker |-> [w \in Workers |->
                    [at |-> "gone", application |-> Nothing, worth |-> FALSE,
                     done |-> 0, listed |-> {}]],
     at |-> "listing"]

BeginUpdatesScan ==
    /\ Len(scan) < MaxScans
    /\ view.kind # "Scanning" /\ current # Nothing
    /\ view' = Shows("Scanning", 0, 0, {})
    /\ taken' = FALSE
    /\ scan' = Append(scan, NewScan(current))
    /\ from' = Len(scan) + 1
    /\ UNCHANGED <<catalogue, region, current, saved, startup, inbox, moves>>

\* An operation of this program, or the user, changes the region.
RegionMoves ==
    /\ moves < MaxMoves
    /\ moves' = moves + 1
    /\ region' \in (Markets \cup {Nothing}) \ {region}
    /\ UNCHANGED <<catalogue, current, view, taken, scan, saved, startup,
                   inbox, from>>

\* A recovery or a handoff ends and the window reads the region again.
RegionRead ==
    /\ current # region
    /\ current' = region
    /\ UNCHANGED <<catalogue, region, view, taken, scan, saved, startup,
                   inbox, from, moves>>

-----------------------------------------------------------------------------
(* The threads of a scan.                                                  *)

Post(g, kind, done, listed) ==
    inbox' = Append(inbox,
        [generation |-> g,
         view |-> Shows(kind, done, Cardinality(Applications), listed)])

Elsewhere == <<catalogue, region, current, view, taken, startup, from, moves>>

\* Scan g becomes s.
Becomes(g, s) == scan' = [scan EXCEPT ![g] = s]

\* Scan s with thread w become t.
With(s, w, t) == [s EXCEPT !.worker = [@ EXCEPT ![w] = t]]

\* Windows lists the applications, or will not.
ListApplications(g) ==
    /\ scan[g].at = "listing"
    /\ \/ /\ Becomes(g, [scan[g] EXCEPT !.at = "over"])
          /\ Post(g, "Unavailable", 0, {})
       \/ /\ Becomes(g, [scan[g] EXCEPT !.at = "joining",
                 !.worker = [w \in Workers |->
                     IF w <= Cardinality(Applications)
                     THEN [@[w] EXCEPT !.at = "taking"] ELSE @[w]]])
          /\ Post(g, "Scanning", 0, {})
    /\ UNCHANGED <<Elsewhere, saved>>

TakeApplication(g, w) ==
    LET s == scan[g]
        t == s.worker[w]
    IN  /\ t.at = "taking"
        /\ Becomes(g, With([s EXCEPT !.next = @ + 1], w,
               IF s.next <= Cardinality(Applications)
               THEN [t EXCEPT !.at = "asking",
                              !.application = SetToSeq(Applications)[s.next]]
               ELSE [t EXCEPT !.at = "gone"]))
        /\ UNCHANGED <<Elsewhere, saved, inbox>>

\* The answer is known and counted before the lock is taken.
AskAboutApplication(g, w) ==
    LET s == scan[g]
        t == s.worker[w]
    IN  /\ t.at = "asking"
        /\ \E c \in SurveyApplication(t.application, s.market) :
               Becomes(g, With([s EXCEPT !.done = @ + 1], w,
                   [t EXCEPT !.at = "adding", !.worth = IsWorthListing(c),
                             !.done = s.done + 1]))
        /\ UNCHANGED <<Elsewhere, saved, inbox>>

\* Under the lock: add the finding and, when a report is due, copy the list.
AddFinding(g, w) ==
    LET s == scan[g]
        t == s.worker[w]
        found == IF t.worth THEN s.found \cup {t.application} ELSE s.found
    IN  /\ t.at = "adding"
        /\ \E due \in BOOLEAN :
               Becomes(g, With([s EXCEPT !.found = found], w,
                   [t EXCEPT !.at = IF due THEN "posting" ELSE "taking",
                             !.listed = IF due THEN found ELSE {},
                             !.worth = FALSE, !.application = Nothing]))
        /\ UNCHANGED <<Elsewhere, saved, inbox>>

PostProgress(g, w) ==
    LET s == scan[g]
        t == s.worker[w]
    IN  /\ t.at = "posting"
        /\ Post(g, "Scanning", t.done, t.listed)
        /\ Becomes(g, With(s, w, [t EXCEPT !.at = "taking", !.listed = {}]))
        /\ UNCHANGED <<Elsewhere, saved>>

SomeGone(g) == \E w \in Workers : scan[g].worker[w].at = "gone"   \* mutated

AllGone(g) == \A w \in Workers : scan[g].worker[w].at = "gone"

JoinWorkers(g) ==
    /\ scan[g].at = "joining" /\ AllGone(g)
    /\ Becomes(g, [scan[g] EXCEPT !.at = "saving"])
    /\ UNCHANGED <<Elsewhere, saved, inbox>>

\* A scan without a date, or a failed write, leaves the file alone; a write
\* that was cut short leaves nothing readable.
SaveScan(g) ==
    /\ scan[g].at = "saving"
    /\ saved' \in {saved, Nothing,
                   [market |-> scan[g].market, listed |-> scan[g].found]}
    /\ Becomes(g, [scan[g] EXCEPT !.at = "closing"])
    /\ UNCHANGED <<Elsewhere, inbox>>

CloseScan(g) ==
    /\ scan[g].at = "closing"
    /\ Post(g, "Ready", Cardinality(Applications), scan[g].found)
    /\ Becomes(g, [scan[g] EXCEPT !.at = "over"])
    /\ UNCHANGED <<Elsewhere, saved>>

-----------------------------------------------------------------------------
(* The startup checks and the messages.                                    *)

\* Only an answer about the market asked for is taken from the file.
LoadUpdatesScan(market) ==
    IF saved # Nothing /\ saved.market = market THEN saved ELSE Nothing

\* The thread reads the region first and the file afterwards.
StartupReadsRegion ==
    /\ startup.at = "region"
    /\ startup' = [at |-> "file", market |-> region]
    /\ UNCHANGED <<catalogue, region, current, view, taken, scan, saved,
                   inbox, from, moves>>

StartupReadsFile ==
    /\ startup.at = "file"
    /\ inbox' = Append(inbox,
           [generation |-> 0,
            view |-> IF startup.market = Nothing THEN Nothing
                     ELSE LoadUpdatesScan(startup.market)])
    /\ startup' = [startup EXCEPT !.at = "over"]
    /\ UNCHANGED <<catalogue, region, current, view, taken, scan, saved,
                   from, moves>>

\* WM_APP_STARTUP_CHECKED: a remembered scan is shown, whatever is shown now.
TakeRemembered(message) ==
    IF message.view = Nothing THEN UNCHANGED <<view, taken, from>>
    ELSE /\ view' = Shows("Ready", 0, 0, message.view.listed)
         /\ taken' = TRUE
         /\ from' = 0

IsCurrentScan(message) == message.generation = Len(scan)

\* WM_APP_UPDATES_SCANNED: reports of a scan already replaced are dropped.
TakeScanReport(message) ==
    IF IsCurrentScan(message)
    THEN /\ view' = IF message.view.kind = "Ready" THEN message.view
                    ELSE [message.view EXCEPT !.listed = {}]
         /\ from' = message.generation
         /\ UNCHANGED taken
    ELSE UNCHANGED <<view, taken, from>>

TakeMessage ==
    /\ inbox # <<>>
    /\ inbox' = Tail(inbox)
    /\ IF Head(inbox).generation = 0 THEN TakeRemembered(Head(inbox))
       ELSE TakeScanReport(Head(inbox))
    /\ UNCHANGED <<catalogue, region, current, scan, saved, startup, moves>>

-----------------------------------------------------------------------------
NeedsAnotherRegion(a, market) ==
    LET world == catalogue[a] IN
    world.known /\ market \notin world.serves
        /\ world.serves \cap Reference # {}

\* The file of an earlier run holds what a scan of that run found.
Init ==
    /\ catalogue \in [Applications -> Worlds]
    /\ region \in Markets \cup {Nothing}
    /\ current = region
    /\ view = Shows("Idle", 0, 0, {})
    /\ taken = FALSE
    /\ scan = <<>>
    /\ saved \in {r \in Remembered : r # Nothing =>
                      \A a \in r.listed : NeedsAnotherRegion(a, r.market)}
    /\ startup = [at |-> "region", market |-> Nothing]
    /\ inbox = <<>>
    /\ from = 0
    /\ moves = 0

WorkerStep(g, w) ==
    \/ TakeApplication(g, w)
    \/ AskAboutApplication(g, w)
    \/ AddFinding(g, w)
    \/ PostProgress(g, w)

ScanStep(g) ==
    \/ ListApplications(g)
    \/ JoinWorkers(g)
    \/ SaveScan(g)
    \/ CloseScan(g)
    \/ \E w \in Workers : WorkerStep(g, w)

Next ==
    \/ BeginUpdatesScan
    \/ RegionMoves
    \/ RegionRead
    \/ StartupReadsRegion
    \/ StartupReadsFile
    \/ TakeMessage
    \/ \E g \in DOMAIN scan : ScanStep(g)

Spec == Init /\ [][Next]_vars

\* Threads run, requests answer or time out, and messages are taken.
FairSpec ==
    /\ Spec
    /\ WF_vars(TakeMessage)
    /\ WF_vars(\E g \in DOMAIN scan : ScanStep(g))

-----------------------------------------------------------------------------
TypeOK ==
    /\ catalogue \in [Applications -> Worlds]
    /\ region \in Markets \cup {Nothing} /\ current \in Markets \cup {Nothing}
    /\ view \in Views
    /\ taken \in BOOLEAN
    /\ \A g \in DOMAIN scan : scan[g] \in Scans
    /\ saved \in Remembered
    /\ from \in 0 .. Len(scan)
    /\ \A g \in DOMAIN scan : scan[g].done <= Cardinality(Applications)

(* A list shown as the answer of a scan is the answer of the scan asked    *)
(* last, and of all its threads: reports copied earlier and posted later,  *)
(* and those of a scan replaced meanwhile, never stand in for it           *)
(* (work.rs:252, window.rs:1228).                                          *)
ReadyListIsWhole ==
    view.kind = "Ready" /\ from > 0 =>
        /\ from = Len(scan)
        /\ view.listed = scan[from].found
        /\ scan[from].done = Cardinality(Applications)

(* Whatever list is shown, fresh or remembered, the Store refuses each of  *)
(* its applications in the market asked about and serves it in another:    *)
(* silence is never taken for a refusal, and an answer about another       *)
(* market is never shown (availability.rs:481, storage.rs:195).            *)
ListedNeedAnotherRegion ==
    view.kind = "Ready" =>
        \A a \in view.listed :
            NeedsAnotherRegion(a, IF from = 0 THEN startup.market
                                  ELSE scan[from].market)

(* A scan that is shown as running ends in an answer (work.rs:329).        *)
ScanEnds == view.kind = "Scanning" ~> view.kind # "Scanning"

-----------------------------------------------------------------------------
(* Two sentences of the source that the code does not keep.                *)

(* "When the shown scan was taken, for a scan remembered from a past run"  *)
(* (state.rs:246): the age shown is that of the list shown. It is not when *)
(* the startup checks answer after a scan began (window.rs:1183).          *)
AgeIsOfTheShownList == taken => from = 0

(* "The question is about the region the machine is in right now"          *)
(* (command.rs:306): a scan asks the market of the region in force. It     *)
(* asks that of the region last read, which an installation does not renew *)
(* (command.rs:308).                                                       *)
ScanAsksHere ==
    [][ Len(scan') > Len(scan) => scan'[Len(scan')].market = region ]_vars

=============================================================================
