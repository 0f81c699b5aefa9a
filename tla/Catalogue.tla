----------------------------- MODULE Catalogue -----------------------------
(***************************************************************************)
(* What the Store's catalogue says of one product and this machine: the    *)
(* requests of platform/market_probe.rs and what core/availability.rs      *)
(* makes of their answers - whether a market offers the product, whether   *)
(* the Store can deliver it to this Windows, and in which version.         *)
(***************************************************************************)
EXTENDS Integers, Sequences, FiniteSets, SequencesExt

CONSTANTS
    Field,          \* the values of one field of a version are 0 .. Field
    Windows,        \* versions of Windows, as four fields
    Listings,       \* package lists the catalogue may hold
    Manifests       \* what a market may say of the product

NoRank == 0 - 1     \* a package the catalogue did not rank comes last
Absent == 0 - 1     \* a lowest version the catalogue did not name
NoVersion == 0

Platforms == {"Windows.Desktop", "Windows.Universal", "Windows.Xbox", "unnamed"}
Architectures == {"neutral", "x64", "arm"}

\* One package: the platforms it depends on, its rank, the version of its
\* full name, and the full names of what it bundles.
IsPackage(p) ==
    /\ \A i \in DOMAIN p.dependencies :
           /\ p.dependencies[i].platform \in Platforms
           /\ p.dependencies[i].min \in Int
    /\ p.rank \in Int /\ p.fullName \in Nat
    /\ \A i \in DOMAIN p.bundled :
           p.bundled[i].architecture \in Architectures /\ p.bundled[i].version \in Nat

CatalogueAssumption ==
    /\ Field \in Nat \ {0}
    /\ Windows \subseteq [1 .. 4 -> 0 .. Field]
    /\ \A listing \in Listings : \A i \in DOMAIN listing : IsPackage(listing[i])
    /\ Manifests \subseteq {"this product", "no installer", "another product", "unlisted"}

VARIABLES
    windows,        \* the version that runs
    listing,        \* the packages the catalogue lists for the product
    manifest,       \* what the market asked holds of the product
    device,         \* the version the program read, packed; or nothing yet
    answered,       \* the answer a request was given
    verdict,        \* DeviceCompatibility
    offered,        \* the version the catalogue would deliver
    availability    \* MarketAvailability

vars == <<windows, listing, manifest, device, answered, verdict, offered, availability>>

Unread == 0 - 1

\* A request brings nothing, another status, a body cut short, or all of it.
Answers == {"nothing", "refused", "cut", "whole"}

-----------------------------------------------------------------------------
(* Versions, packed as the catalogue packs them.                           *)

Pack(parts) ==
    ((parts[1] * (Field + 1) + parts[2]) * (Field + 1) + parts[3]) * (Field + 1) + parts[4]

Parts(packed) ==
    << (packed \div ((Field + 1) * (Field + 1) * (Field + 1))) % (Field + 1),
       (packed \div ((Field + 1) * (Field + 1))) % (Field + 1),
       (packed \div (Field + 1)) % (Field + 1),
       packed % (Field + 1) >>

\* A field that cannot be read is zero.
Reads == {[i \in 1 .. 4 |-> IF i \in read THEN windows[i] ELSE 0] :
              read \in SUBSET (1 .. 4)}

-----------------------------------------------------------------------------
(* The package list.                                                       *)

\* Of what a bundle holds, the first that fits this machine; else its name.
FirstBundled(package) ==
    SelectSeq(package.bundled, LAMBDA b : b.architecture \in {"neutral", "x64"})

PackageVersion(package) ==
    LET fitting == FirstBundled(package)
    IN  IF fitting = <<>> THEN package.fullName ELSE fitting[1].version

\* One entry for every platform a package names.
Entries(package) ==
    LET named == SelectSeq(package.dependencies, LAMBDA d : d.platform # "unnamed")
    IN  [i \in DOMAIN named |->
            [platform |-> named[i].platform,
             min |-> IF named[i].min = Absent THEN 0 ELSE named[i].min,
             rank |-> package.rank,
             version |-> PackageVersion(package)]]

\* A body that cannot be read whole is no JSON, and lists nothing.
CatalogPackages(list, answer) ==
    IF answer # "whole" THEN <<>>
    ELSE FlattenSeq([i \in DOMAIN list |-> Entries(list[i])])

IsDesktopFamily(platform) == platform \in {"Windows.Desktop", "Windows.Universal"}

Desktop(packages) == SelectSeq(packages, LAMBDA p : IsDesktopFamily(p.platform))

Unknown == [kind |-> "Unknown", required |-> 0]
NotAsked == [kind |-> "NotAsked", required |-> 0]

FirstDecides(packages, on) ==   \* mutated
    LET desktop == Desktop(packages)
    IN  IF packages = <<>> THEN Unknown
        ELSE IF desktop = <<>> THEN [kind |-> "OtherDeviceOnly", required |-> 0]
        ELSE IF desktop[1].min > on
             THEN [kind |-> "NewerWindowsRequired", required |-> desktop[1].min]
             ELSE [kind |-> "Deliverable", required |-> 0]
EvaluateDeviceCompatibility(packages, on) ==
    LET desktop == Desktop(packages)
        lowest == CHOOSE m \in {desktop[i].min : i \in DOMAIN desktop} :
                      \A i \in DOMAIN desktop : m <= desktop[i].min
    IN  IF packages = <<>> THEN Unknown
        ELSE IF desktop = <<>> THEN [kind |-> "OtherDeviceOnly", required |-> 0]
        ELSE IF lowest > on
             THEN [kind |-> "NewerWindowsRequired", required |-> lowest]
             ELSE [kind |-> "Deliverable", required |-> 0]

BlocksInstallation(v) == v.kind \in {"OtherDeviceOnly", "NewerWindowsRequired"}

Receivable(packages, on) ==
    SelectSeq(Desktop(packages), LAMBDA p : p.min <= on /\ p.version # NoVersion)

\* The best rank; the last of those that share it.
OfferedVersion(packages, on) ==
    LET received == Receivable(packages, on)
        best == {i \in DOMAIN received :
                     \A j \in DOMAIN received : received[j].rank <= received[i].rank}
    IN  IF received = <<>> THEN NoVersion
        ELSE received[CHOOSE i \in best : \A j \in best : j <= i].version

-----------------------------------------------------------------------------
(* The requests, each on a thread of its own.                              *)

ReadWindowsVersion ==
    /\ device = Unread
    /\ \E parts \in Reads : device' = Pack(parts)
    /\ UNCHANGED <<windows, listing, manifest, answered, verdict, offered, availability>>

AskCompatibility ==
    /\ device # Unread /\ verdict = NotAsked
    /\ \E answer \in Answers :
           /\ answered' = answer
           /\ verdict' = EvaluateDeviceCompatibility(CatalogPackages(listing, answer), device)
    /\ UNCHANGED <<windows, listing, manifest, device, offered, availability>>

AskOfferedVersion ==
    /\ device # Unread /\ offered = Unread
    /\ \E answer \in Answers :
           offered' = OfferedVersion(CatalogPackages(listing, answer), device)
    /\ UNCHANGED <<windows, listing, manifest, device, answered, verdict, availability>>

\* A market refuses by status 404, whatever body comes with it, and in no
\* other way.
ProbeAnswer(answer) ==
    IF answer = "whole" /\ manifest \in {"this product", "no installer"} THEN "Offered"
    ELSE IF answer \in {"cut", "whole"} /\ manifest = "unlisted" THEN "NotOffered"
    ELSE "Unknown"

Probe ==
    /\ availability = "NotAsked"
    /\ \E answer \in Answers : availability' = ProbeAnswer(answer)
    /\ UNCHANGED <<windows, listing, manifest, device, answered, verdict, offered>>

Init ==
    /\ windows \in Windows /\ listing \in Listings /\ manifest \in Manifests
    /\ device = Unread /\ answered = "nothing"
    /\ verdict = NotAsked /\ offered = Unread /\ availability = "NotAsked"

Next == ReadWindowsVersion \/ AskCompatibility \/ AskOfferedVersion \/ Probe

Spec == Init /\ [][Next]_vars

-----------------------------------------------------------------------------
TypeOK ==
    /\ device \in Int /\ offered \in Int
    /\ device # Unread => device <= Pack(windows) /\ Parts(Pack(windows)) = windows
    /\ verdict.kind \in {"NotAsked", "Unknown", "Deliverable", "OtherDeviceOnly",
                         "NewerWindowsRequired"}
    /\ availability \in {"NotAsked", "Offered", "NotOffered", "Unknown"}
    /\ answered \in Answers

\* A package of the list a desktop of this version could be given.
Takes(package, on) ==
    \E i \in DOMAIN package.dependencies :
        /\ IsDesktopFamily(package.dependencies[i].platform)
        /\ package.dependencies[i].min <= on

(* The Store is said to deliver exactly if the catalogue lists a package   *)
(* the read version can take; an installation is refused on a whole answer *)
(* only, and the version it names is the lowest that would be enough       *)
(* (availability.rs:331-396).                                              *)
VerdictIsOfTheWholeList ==
    verdict # NotAsked =>
        LET takers == {on \in 0 .. Pack([i \in 1 .. 4 |-> Field]) :
                           \E i \in DOMAIN listing : Takes(listing[i], on)}
        IN  /\ verdict.kind = "Deliverable" <=> answered = "whole" /\ device \in takers
            /\ BlocksInstallation(verdict) => answered = "whole" /\ device \notin takers
            /\ verdict.kind = "OtherDeviceOnly" => takers = {}
            /\ verdict.kind = "NewerWindowsRequired" =>
                   /\ verdict.required \in takers
                   /\ verdict.required - 1 \notin takers

(* A version shown is one this machine could be given: some package of the *)
(* list with that version takes it, and none the catalogue ranks higher    *)
(* does (availability.rs:496-512, market_probe.rs:258-351).                *)
OfferedCanBeReceived ==
    offered \notin {Unread, NoVersion} =>
        \E i \in DOMAIN listing :
            /\ Takes(listing[i], device) /\ PackageVersion(listing[i]) = offered
            /\ \A j \in DOMAIN listing :
                   Takes(listing[j], device) /\ PackageVersion(listing[j]) # NoVersion
                       => listing[j].rank <= listing[i].rank

(* A market is said to refuse the product only if it said so, and to offer *)
(* it only if its manifest names this product (market_probe.rs:168-189).   *)
RefusalIsStated ==
    /\ availability = "NotOffered" => manifest = "unlisted"
    /\ availability = "Offered" => manifest \in {"this product", "no installer"}

-----------------------------------------------------------------------------
(* Sentences of the source that the code does not keep.                    *)

(* "a version that reads lower than reality can only make this product     *)
(* more permissive, never less" (market_probe.rs:367).                     *)
UnreadIsPermissive ==
    BlocksInstallation(verdict) =>
        BlocksInstallation(EvaluateDeviceCompatibility(
            CatalogPackages(listing, answered), Pack(windows)))

(* "Among those the highest version wins, compared field by field as       *)
(* numbers" (availability.rs:499).                                         *)
HighestVersionWins ==
    offered \notin {Unread, NoVersion} =>
        \A i \in DOMAIN listing :
            Takes(listing[i], device) => PackageVersion(listing[i]) <= offered

=============================================================================
