------------------------------ MODULE StoreParts ------------------------------
(***************************************************************************)
(* The starts of the program and what its window asks of the Store, side   *)
(* by side: the processes of one session, of which one has the window, the *)
(* search for a region that offers a product and what the window shows of  *)
(* it, the scan for updates that the user's own region refuses, and the    *)
(* reading of what the catalogue says of a product's packages.             *)
(*                                                                         *)
(* No step of one part reads or writes what belongs to another. A          *)
(* behaviour here moves one part, chosen at the start, while the others    *)
(* rest.                                                                   *)
(***************************************************************************)
EXTENDS Launches, Naturals, TLC

CONSTANTS
    s1, s2, s3, here,                                  \* of the starts
    p1, p2, r1, r2, r3, NoProduct, NoRegion, NoSurvey,  \* of the search
    Products, Regions, Markets, Curated, MaxPasses,
    Searches,               \* what a search may begin with
    Screens,                \* what a search on the screen may begin with
    Languages, Blank,       \* of the screen
    a1, a2, m1, m2, Nothing,                            \* of the scan
    Applications, Asked, Reference, MaxScans, MaxMoves,
    Beginnings,             \* what a scan may find: a region, a catalogue, a file
    Concurrency             \* of the search and of the scan

VARIABLES
    part,   \* the one part that moves in a behaviour
    serves, text, selected, showAll, survey, pass, inbox,
    language, source, input, box,
    catalogue, region, current, view, taken, scan, saved, startup, scanInbox,
    from, moves,
    packageWindows, listing, manifest, device, answered, verdict, offered,
    availability

launchesVars == <<at, argument, code, handles, windows, shown, raised>>
surveyVars == <<serves, text, selected, showAll, survey, pass, inbox>>
screenVars == <<language, source, input, box>>
scanVars == <<catalogue, region, current, view, taken, scan, saved, startup,
    scanInbox, from, moves>>
packageVars == <<packageWindows, listing, manifest, device, answered,
    verdict, offered, availability>>

Parts == {"launches", "survey", "box", "scan", "catalogue"}
StartedIn == [s \in {s1, s2, s3} |-> here]
Still == "still"   \* any value: the variables of a part that rests

\* Of the packages: what each needs of Windows.
Needs(platform, min) == [platform |-> platform, min |-> min]

Dependencies ==
    {<<Needs("Windows.Desktop", m)>> : m \in {0 - 1, 9, 11}}
    \cup {<<Needs("Windows.Universal", 8), Needs("Windows.Desktop", 10)>>,
          <<Needs("unnamed", 8), Needs("Windows.Xbox", 8)>>,
          <<>>}

Names ==   \* a plain package, and two bundles
    {[fullName |-> 1, bundled |-> <<>>],
     [fullName |-> 3, bundled |-> <<[architecture |-> "arm", version |-> 4],
                                    [architecture |-> "x64", version |-> 2]>>],
     [fullName |-> 0, bundled |-> <<[architecture |-> "arm", version |-> 4]>>]}

CataloguePackages ==
    {[dependencies |-> d, rank |-> r, fullName |-> n.fullName,
      bundled |-> n.bundled] : d \in Dependencies, r \in {0 - 1, 1}, n \in Names}

CatalogueListings ==
    {<<>>} \cup {<<p>> : p \in CataloguePackages}
           \cup {<<p, q>> : p \in {p \in CataloguePackages : p.rank = 1},
                            q \in {q \in CataloguePackages : q.fullName # 1}}

\* Of the search, for a run: two products the catalogue tells apart.
SearchBeginnings ==
    [serves: {p1 :> {r2, r3} @@ p2 :> {r1}},
     text: {NoProduct}, selected: {r1}]

\* And of the search on the screen: two regions serve the first product, and none
\* the second; or none serves either.
BoxBeginnings ==
    [serves: {p1 :> {r2, r3} @@ p2 :> {}, p1 :> {} @@ p2 :> {}},
     text: {NoProduct, p1}, selected: {r1}]

\* Of the scan, for a run: an application refused here beside one that is
\* offered here, after a scan here or elsewhere; or beside one that is up to
\* date, and no file.
Offers(served, latest) == [known |-> TRUE, serves |-> served, same |-> latest]

Two(first, second) == a1 :> first @@ a2 :> second

ScanBeginnings ==
    [region: {m1}, catalogue: {Two(Offers({m2}, FALSE), Offers({m1}, FALSE))},
     saved: {[market |-> m1, listed |-> {a1}], [market |-> m2, listed |-> {a2}]}]
    \cup [region: {m1}, catalogue: {Two(Offers({m2}, FALSE), Offers({m2}, TRUE))},
          saved: {Nothing}]

\* The search for a region that offers a product, and the screen over it.
Survey == INSTANCE RegionBox

\* The scan for updates, in a region that may move.
Scan == INSTANCE UpdatesScan WITH Markets <- Asked, inbox <- scanInbox

\* Two fields of a version in use, and lists of up to two packages.
Package == INSTANCE Catalogue WITH
    Field <- 1, Windows <- {<<1, 0, 1, 0>>, <<1, 0, 0, 1>>},
    Listings <- CatalogueListings,
    Manifests <- {"this product", "no installer", "another product", "unlisted"},
    windows <- packageWindows

------------------------------------------------------------------------------
SurveyBegins(searches) ==
    /\ \E s \in searches :
           serves = s.serves /\ text = s.text /\ selected = s.selected
    /\ Survey!Init

ScanBegins ==
    /\ \E b \in Beginnings :
           region = b.region /\ catalogue = b.catalogue /\ saved = b.saved
    /\ Scan!Init

CatalogueBegins ==
    /\ Package!Init
    /\ manifest = "this product" \/ listing = <<>>

surveyStill ==
    /\ serves = Still /\ text = Still /\ selected = Still /\ showAll = Still
    /\ survey = Still /\ pass = Still /\ inbox = Still

screenStill ==
    /\ language = Still /\ source = Still /\ input = Still /\ box = Still

scanStill ==
    /\ catalogue = Still /\ region = Still /\ current = Still /\ view = Still
    /\ taken = Still /\ scan = Still /\ saved = Still /\ startup = Still
    /\ scanInbox = Still /\ from = Still /\ moves = Still

packageStill ==
    /\ packageWindows = Still /\ listing = Still /\ manifest = Still
    /\ device = Still /\ answered = Still /\ verdict = Still
    /\ offered = Still /\ availability = Still

Turn(p) == part = p /\ UNCHANGED part

PartsInit ==
    /\ part \in Parts
    /\ CASE part = "survey" -> SurveyBegins(Searches)
         [] part = "box" -> SurveyBegins(Screens)
         [] OTHER -> surveyStill
    /\ IF part = "box" THEN Survey!BoxInit ELSE screenStill
    /\ IF part = "scan" THEN ScanBegins ELSE scanStill
    /\ IF part = "catalogue" THEN CatalogueBegins ELSE packageStill
    /\ Init

LaunchingStep ==
    /\ Turn("launches") /\ Next
    /\ UNCHANGED <<surveyVars, screenVars, scanVars, packageVars>>

SurveyStep ==
    /\ Turn("survey") /\ Survey!Next
    /\ UNCHANGED <<screenVars, scanVars, packageVars, launchesVars>>

\* The search as the window shows it: of one product, and the first thread of
\* a pass takes all of its markets.
BoxStep ==
    /\ Turn("box") /\ Survey!BoxNext
    /\ text' # p2
    /\ \A g \in DOMAIN pass', w \in Survey!Workers :
           w > 1 => pass'[g].worker[w] \notin Markets
    /\ UNCHANGED <<scanVars, packageVars, launchesVars>>

ScanStep ==
    /\ Turn("scan") /\ Scan!Next
    /\ UNCHANGED <<surveyVars, screenVars, packageVars, launchesVars>>

PackageStep ==
    /\ Turn("catalogue") /\ Package!Next
    /\ UNCHANGED <<surveyVars, screenVars, scanVars, launchesVars>>

partsVars == <<part, surveyVars, screenVars, scanVars, packageVars, launchesVars>>

\* Each part may come to rest for good.
Rest == UNCHANGED partsVars

PartsNext ==
    \/ LaunchingStep
    \/ SurveyStep
    \/ BoxStep
    \/ ScanStep
    \/ PackageStep
    \/ Rest

PartsSpec == PartsInit /\ [][PartsNext]_partsVars

------------------------------------------------------------------------------
(* The search for a region.  What the window says of a market is what the  *)
(* catalogue says of the product now in the draft, although threads of     *)
(* earlier drafts go on posting (command.rs:474, work.rs:406); progress    *)
(* counts every market of its pass once (work.rs:418); "only a complete,   *)
(* fully answered survey may claim" that a market does not offer the       *)
(* product (availability.rs:216), and then it is so.  On the screen the    *)
(* region box names the region an installation would use, and the sentence *)
(* and the card say of it what the catalogue does (render.rs:600-756).     *)
SurveyIsTrue ==
    /\ part \in {"survey", "box"} =>
         /\ Survey!TypeOK
         /\ Survey!AnswersAreAboutTheDraft /\ Survey!ProgressIsOfThisPass
         /\ Survey!ConclusiveIsTheWholeAnswer
    /\ part = "box" =>
         /\ Survey!BoxTypeOK
         /\ Survey!ListIsOffered /\ Survey!ShownIsSelected
         /\ Survey!StatusIsTrue /\ Survey!CardIsOfTheLink

(* The scan.  A list shown as an answer is the one of the scan asked last  *)
(* and of all its threads (work.rs:252, window.rs:1228), and whatever list *)
(* is shown, the Store refuses each of its applications in the market      *)
(* asked about and serves it in another (availability.rs:481).             *)
ScanIsTrue ==
    part = "scan" =>
        /\ Scan!TypeOK
        /\ Scan!ReadyListIsWhole /\ Scan!ListedNeedAnotherRegion

(* The catalogue.  An installation is refused on a whole answer only, and  *)
(* for the version that would be enough (availability.rs:331-396); a       *)
(* version shown is one this machine could be given                        *)
(* (market_probe.rs:258-351); a market refuses only what it said it        *)
(* refuses (market_probe.rs:168-189).                                      *)
CatalogueIsTrue ==
    part = "catalogue" =>
        /\ Package!TypeOK
        /\ Package!VerdictIsOfTheWholeList /\ Package!OfferedCanBeReceived
        /\ Package!RefusalIsStated

ASSUME PartsFit ==
    /\ Survey!SurveyAssumption /\ Survey!BoxAssumption /\ Scan!ScanAssumption
    /\ Package!CatalogueAssumption
==============================================================================
