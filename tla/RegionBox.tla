----------------------------- MODULE RegionBox -----------------------------
(***************************************************************************)
(* What the Installation tab shows of a search: the region box, the link   *)
(* field, the sentence about availability and the card of an offer         *)
(* (gui/render.rs, gui/controls.rs, gui/command.rs, gui/state.rs).         *)
(*                                                                         *)
(* Every handler of MarketSurvey ends in a rendering. The box is not       *)
(* rebuilt by each of them: the window remembers what it filled the box    *)
(* with, and refills it only when that would differ.                       *)
(***************************************************************************)
EXTENDS MarketSurvey

CONSTANTS
    Languages,  \* the languages of the interface
    Blank       \* a box that shows none of its regions

BoxAssumption == Languages # {} /\ Blank \notin Regions /\ NoSurvey \notin Surveys

VARIABLES
    language,  \* the language of the interface
    source,    \* which of the two sources is selected
    input,     \* what the link field shows
    box        \* the region box: its list, the language of it, the one shown

screen == <<language, source, input, box>>

Sources == {"StoreText", "InstallerFile"}

Boxes == [items: SUBSET Regions, language: Languages, shows: Regions \cup {Blank}]

-----------------------------------------------------------------------------
(* Rendering.                                                              *)

Refilled(items, lang, region) ==
    [items |-> items, language |-> lang,
     shows |-> IF region \in items THEN region ELSE Blank]

\* "shown" is the box as the user left it.
RefreshRegionChoices(shown, items, lang, region) ==
    IF shown.items = items /\ shown.language = lang THEN shown
    ELSE Refilled(items, lang, region)

Render(shown) ==
    box' = RefreshRegionChoices(shown, OfferedRegions(survey', showAll'),
                                language', selected')

NothingToAskAbout == source = "InstallerFile" /\ text = NoProduct

AnyAnswer(market) == "Offered"   \* mutated

AnswerFor(region) ==
    IF region \in Markets THEN survey.answers[region] ELSE "Unasked"

SelectedRegionStatus ==
    IF selected = NoRegion THEN "idle"
    ELSE IF survey.running THEN "checking selected"
    ELSE CASE AnswerFor(selected) = "Offered" -> "offered here"
           [] AnswerFor(selected) = "NotOffered" -> "not offered here"
           [] OTHER -> "no answer here"

Answered == {m \in Markets : survey.answers[m] # "Unasked"}

Silent == {m \in Markets : survey.answers[m] = "Unknown"}

FoundStatus ==
    IF Offering(survey) = {}
    THEN IF Answered = Silent THEN "offline" ELSE "none"
    ELSE IF survey.scope = "Curated" THEN "found, incomplete" ELSE "found"

AvailabilityStatus ==
    IF NothingToAskAbout THEN "nothing to check"
    ELSE IF survey = NoSurvey THEN "idle"
    ELSE IF survey.running /\ survey.total > 1 THEN "checked so far"
    ELSE IF ~survey.searched THEN SelectedRegionStatus
    ELSE FoundStatus

OfferFrom(market) == [product |-> survey.product, market |-> market]

\* The card of what the selected market offers, for a link only.
OfferedCard ==
    IF /\ source = "StoreText" /\ survey # NoSurvey
       /\ AnswerFor(selected) = "Offered"
    THEN OfferFrom(selected) ELSE NoProduct

-----------------------------------------------------------------------------
(* The user.                                                               *)

\* Typing, pasting and clearing all change the field, and its notification
\* carries the text into the draft.
ChangeInput(product) ==
    /\ SetStoreText(product)
    /\ input' = product /\ source' = "StoreText"
    /\ UNCHANGED language
    /\ Render(box)

\* An entry of the journal is carried into the draft.
RepeatFromJournal(product) ==
    /\ SetStoreText(product)
    /\ source' = "StoreText"
    /\ UNCHANGED <<input, language>>
    /\ Render(box)

OpenUpdate(product) ==
    /\ OpenUpdateInInstallation(product)
    /\ input' = product /\ source' = "StoreText"
    /\ UNCHANGED language
    /\ Render(box)

\* The box reports an index into its list, taken as one into the offered list.
PickRegion(region) ==
    /\ region \in box.items
    /\ SelectTemporaryRegion(region)
    /\ UNCHANGED <<language, source, input>>
    /\ Render([box EXCEPT !.shows = region])

PressSearch ==
    /\ FindRegion \/ CheckRemaining \/ ShowAllRegions
    /\ UNCHANGED <<language, source, input>>
    /\ Render(box)

SelectSource ==
    /\ source' \in Sources \ {source}
    /\ UNCHANGED <<vars, language, input>>
    /\ Render(box)

SelectLanguage ==
    /\ language' \in Languages \ {language}
    /\ UNCHANGED <<vars, source, input>>
    /\ Render(box)

-----------------------------------------------------------------------------
ShowReport ==
    /\ TakeReport
    /\ UNCHANGED <<language, source, input>>
    /\ Render(box)

AskedElsewhere ==
    /\ \E g \in DOMAIN pass : ClosePass(g) \/ \E w \in Workers : WorkerStep(g, w)
    /\ UNCHANGED screen

\* The first rendering fills the box; the field is made with the draft's text.
BoxInit ==
    /\ language \in Languages
    /\ source = "StoreText"
    /\ input = text
    /\ box = Refilled(Regions, language, selected)

BoxNext ==
    \/ \E p \in Products \cup {NoProduct} : ChangeInput(p)
    \/ \E p \in Products : RepeatFromJournal(p) \/ OpenUpdate(p)
    \/ \E r \in Regions : PickRegion(r)
    \/ PressSearch
    \/ SelectSource
    \/ SelectLanguage
    \/ ShowReport
    \/ AskedElsewhere

BoxSpec == Init /\ BoxInit /\ [][BoxNext]_<<vars, screen>>

-----------------------------------------------------------------------------
BoxTypeOK ==
    /\ language \in Languages
    /\ source \in Sources
    /\ input \in Products \cup {NoProduct}
    /\ box \in Boxes

(* An index of the box means the region the user read there: the remembered *)
(* list and language are the ones a rebuilding would give, although a       *)
(* search narrows the list, the user widens it again and the language       *)
(* changes under it (render.rs:604, command.rs:752).                        *)
ListIsOffered ==
    /\ box.items = OfferedRegions(survey, showAll)
    /\ box.language = language

(* The region the box names is the one an installation would use, although  *)
(* the box keeps its own selection between renderings and a report may move *)
(* the selection (render.rs:600, command.rs:504).                           *)
ShownIsSelected == box.shows \in {Blank, selected}

(* What the sentence says of the selected region, of the checked ones and   *)
(* of the search is true of the product in the draft, through superseded    *)
(* passes, silent markets and a change of source (render.rs:650, 713).      *)
StatusIsTrue ==
    LET says == AvailabilityStatus IN
    /\ says = "offered here" => selected \in serves[text]
    /\ says = "not offered here" => selected \notin serves[text]
    /\ says = "none" => \E m \in Markets : m \notin serves[text]
    /\ says = "offline" => Silent # {}
    /\ says = "idle" /\ survey = NoSurvey => \A i \in DOMAIN pass : pass[i].cancelled

(* A card is of the product the field's source names, in a market that      *)
(* serves it; beside a file it "would read as a description of that file"   *)
(* (render.rs:812).                                                         *)
CardIsOfTheLink ==
    OfferedCard # NoProduct =>
        /\ source = "StoreText"
        /\ OfferedCard.product = text
        /\ OfferedCard.market \in serves[text]

-----------------------------------------------------------------------------
(* Three sentences of the source that the code does not keep.              *)

(* "A selection nobody can see is one an installation would still use"     *)
(* (command.rs:502): a selection the list holds is shown by the box. It is *)
(* not when a report moves the selection within an unchanged list.         *)
SelectionIsShown ==
    selected \in box.items => box.shows = selected

(* "its change notification is the one path that also drops the stale      *)
(* resolution and survey" (command.rs:340): the field shows the draft. An  *)
(* entry repeated from the journal takes another path.                     *)
InputShowsDraft == input = text

(* "Only a complete, fully answered survey may claim that a market missing *)
(* from offering_markets does not offer the product" (availability.rs:218):*)
(* the set is called incomplete unless it is. The sentence looks at the    *)
(* scope and not at the silent markets.                                    *)
CompleteIsConclusive ==
    survey # NoSurvey /\ AvailabilityStatus = "found" => IsConclusive(survey)

=============================================================================
