---------------------------- MODULE MarketSurvey ----------------------------
(***************************************************************************)
(* The search for the markets that offer a product: passes of worker       *)
(* threads that ask one market at a time, and the window that folds their  *)
(* posted answers into one survey (gui/command.rs, gui/state.rs,           *)
(* gui/work.rs, gui/render.rs, core/availability.rs).                      *)
(*                                                                         *)
(* A pass is never waited on. Typing another product, or starting another  *)
(* pass, leaves its threads running; a flag asks them to stop and their    *)
(* generation makes their late answers recognisable.                       *)
(***************************************************************************)
EXTENDS Naturals, SequencesExt, FiniteSets

CONSTANTS
    Products,     \* what a draft can name
    Regions,      \* the national regions Windows lists
    Markets,      \* those that are the market of a Store request
    Curated,      \* the markets a search asks first
    Concurrency,  \* SURVEY_CONCURRENCY, the most threads of a pass
    NoProduct,    \* a draft that does not parse
    NoRegion,     \* no temporary region selected
    NoSurvey,     \* nothing has been asked about the draft
    MaxPasses     \* bound: the user starts nothing once this many have begun

SurveyAssumption ==
    /\ Curated \subseteq Markets /\ Markets \subseteq Regions
    /\ IsFiniteSet(Regions) /\ Regions # {} /\ Cardinality(Curated) > 1
    /\ NoProduct \notin Products /\ NoRegion \notin Regions
    /\ MaxPasses \in Nat /\ Concurrency \in Nat \ {0}
    /\ {"taking", "gone"} \cap Markets = {}

VARIABLES
    serves,    \* which markets offer each product: the catalogue itself
    text,      \* the product the draft names
    selected,  \* the temporary region the window offers to use
    showAll,   \* the user asked for the whole list
    survey,    \* what the window knows about the draft, a MarketSurvey
    pass,      \* every pass begun; its place is its generation
    inbox      \* answers posted and not yet taken, in the order of posting

vars == <<serves, text, selected, showAll, survey, pass, inbox>>

Answers == {"Unasked", "Unknown", "NotOffered", "Offered"}
Scopes == {"Curated", "Complete"}

Surveys ==
    [product: Products, answers: [Markets -> Answers], scope: Scopes,
     answered: Nat, total: Nat, running: BOOLEAN, searched: BOOLEAN,
     settled: SUBSET Markets, generation: Nat]

Workers == 1 .. Concurrency

\* A worker looks at the flag and takes an index, then asks that market.
WorkerStates == {"taking", "gone"} \cup Markets

Passes ==
    [product: Products, markets: Seq(Markets), scope: Scopes,
     cancelled: BOOLEAN, next: Nat, worker: [Workers -> WorkerStates],
     closed: BOOLEAN]

Posts ==
    [generation: Nat, answers: Seq([market: Markets, says: Answers]),
     finished: BOOLEAN, scope: Scopes]

-----------------------------------------------------------------------------
(* The survey.                                                             *)

FreshSurvey(product, generation, total) ==
    [product |-> product, answers |-> [m \in Markets |-> "Unasked"],
     scope |-> "Curated", answered |-> 0, total |-> total, running |-> TRUE,
     searched |-> total > 1, settled |-> {}, generation |-> generation]

RestartedOldPass(s, generation, total) ==   \* mutated
    [s EXCEPT !.answered = 0, !.total = total, !.running = TRUE,
              !.searched = @ \/ total > 1]

Restarted(s, generation, total) ==
    [s EXCEPT !.answered = 0, !.total = total, !.running = TRUE,
              !.searched = @ \/ total > 1, !.generation = generation]

Offering(s) == {m \in Markets : s.answers[m] = "Offered"}

Unasked(s, candidates) ==
    {m \in candidates : s.answers[m] \in {"Unasked", "Unknown"}}

IsConclusive(s) ==
    s.scope = "Complete" /\ \A m \in Markets : s.answers[m] # "Unknown"

\* The list of the region box: narrowed by a search that found something.
OfferedRegions(s, all) ==
    IF all \/ s = NoSurvey THEN Regions
    ELSE IF s.searched /\ s.settled # {} THEN s.settled ELSE Regions

RemainingMarkets(s) == Unasked(s, Markets \ Curated)

RemainingMarketsExist(s) ==
    /\ s # NoSurvey
    /\ s.searched /\ ~s.running /\ s.scope = "Curated"
    /\ RemainingMarkets(s) # {}

-----------------------------------------------------------------------------
(* Starting and stopping passes. "sv" is the pair the handlers change.     *)

Cancelled(sv) ==
    IF sv.survey = NoSurvey THEN sv
    ELSE [sv EXCEPT !.pass[sv.survey.generation].cancelled = TRUE]

NewPass(product, markets, scope) ==
    [product |-> product, markets |-> SetToSeq(markets), scope |-> scope,
     cancelled |-> FALSE, next |-> 1,
     worker |-> [w \in Workers |->
                    IF w <= Cardinality(markets) THEN "taking" ELSE "gone"],
     closed |-> FALSE]

StartSurveyPass(sv, product, markets, scope) ==
    LET generation == Len(sv.pass) + 1
        total == Cardinality(markets)
    IN  IF markets = {} THEN sv
        ELSE [survey |-> IF sv.survey # NoSurvey /\ sv.survey.product = product
                         THEN Restarted(sv.survey, generation, total)
                         ELSE FreshSurvey(product, generation, total),
              pass |-> Append(Cancelled(sv).pass,
                              NewPass(product, markets, scope))]

\* A one-market pass for the card, unless something already asks or answered.
ProbeSelectedRegion(sv, product, region) ==
    IF \/ product = NoProduct \/ region \notin Markets
       \/ /\ sv.survey # NoSurvey /\ sv.survey.product = product
          /\ \/ sv.survey.running
             \/ sv.survey.answers[region] \in {"Offered", "NotOffered"}
    THEN sv
    ELSE StartSurveyPass(sv, product, {region}, "Curated")

SelectedRegionRefused(s, product, region) ==
    /\ s # NoSurvey /\ ~s.searched /\ ~s.running
    /\ product # NoProduct /\ region \in Markets
    /\ s.product = product
    /\ s.answers[region] = "NotOffered"

WidenSearchAfterRefusal(sv, product, region) ==
    IF SelectedRegionRefused(sv.survey, product, region)
    THEN StartSurveyPass(sv, product, Curated, "Curated")
    ELSE sv

KeepSelectionReachable(s, all, region) ==
    IF region \in OfferedRegions(s, all) THEN region
    ELSE CHOOSE r \in OfferedRegions(s, all) : TRUE

Surveying == [survey |-> survey, pass |-> pass]

Becomes(sv) == survey' = sv.survey /\ pass' = sv.pass

-----------------------------------------------------------------------------
(* The user.                                                               *)

MayAct == Len(pass) < MaxPasses

Searching == survey # NoSurvey /\ survey.running

\* A new draft drops the survey, whatever the draft says.
DraftChanged(product, region) ==
    ProbeSelectedRegion([Cancelled(Surveying) EXCEPT !.survey = NoSurvey],
                        product, region)

SetStoreText(product) ==
    /\ MayAct
    /\ text' = product /\ showAll' = FALSE
    /\ Becomes(DraftChanged(product, selected))
    /\ UNCHANGED <<serves, selected, inbox>>

SelectTemporaryRegion(region) ==
    /\ MayAct
    /\ region \in OfferedRegions(survey, showAll) \cup {NoRegion}
    /\ selected' = region
    /\ Becomes(ProbeSelectedRegion(Surveying, text, region))
    /\ UNCHANGED <<serves, text, showAll, inbox>>

\* The button is disabled while a pass runs.
FindRegion ==
    /\ MayAct
    /\ text # NoProduct
    /\ ~Searching
    /\ showAll' = FALSE
    /\ Becomes(StartSurveyPass(Surveying, text, Curated, "Curated"))
    /\ UNCHANGED <<serves, text, selected, inbox>>

CheckRemaining ==
    /\ MayAct
    /\ text # NoProduct /\ RemainingMarketsExist(survey)
    /\ Becomes(StartSurveyPass(Surveying, text, RemainingMarkets(survey),
                               "Complete"))
    /\ UNCHANGED <<serves, text, selected, showAll, inbox>>

ShowAllRegions ==
    /\ showAll \/ OfferedRegions(survey, FALSE) # Regions
    /\ showAll' = ~showAll
    /\ UNCHANGED <<serves, text, selected, survey, pass, inbox>>

\* An update carried over writes the text field and then searches.
OpenUpdateInInstallation(product) ==
    /\ Len(pass) + 1 < MaxPasses
    /\ text' = product /\ showAll' = FALSE
    /\ Becomes(StartSurveyPass(DraftChanged(product, selected), product,
                               Curated, "Curated"))
    /\ UNCHANGED <<serves, selected, inbox>>

-----------------------------------------------------------------------------
(* The threads of a pass.                                                  *)

ToWorker(g, w, state) == pass' = [pass EXCEPT ![g].worker[w] = state]

\* Two threads that read the counter before either adds to it.
TakeSharedIndex(g, w) ==   \* mutated
    /\ pass[g].worker[w] = "taking"
    /\ \E taken \in {pass[g].next, pass[g].next + 1} :
           pass' = [pass EXCEPT
               ![g].next = taken,
               ![g].worker[w] = IF pass[g].next <= Len(pass[g].markets)
                                THEN pass[g].markets[pass[g].next] ELSE "gone"]
    /\ UNCHANGED <<serves, text, selected, showAll, survey, inbox>>

\* One step: the flag is never lowered, so a stop that comes between the look
\* and the counter might as well have come after both.
TakeIndex(g, w) ==
    /\ pass[g].worker[w] = "taking"
    /\ IF pass[g].cancelled THEN ToWorker(g, w, "gone")
       ELSE pass' = [pass EXCEPT
                ![g].next = @ + 1,
                ![g].worker[w] = IF pass[g].next <= Len(pass[g].markets)
                                 THEN pass[g].markets[pass[g].next] ELSE "gone"]
    /\ UNCHANGED <<serves, text, selected, showAll, survey, inbox>>

\* The catalogue's word, or nothing: the network may fail for any market.
ProbeAnswer(product, market) ==
    {"Unknown", IF market \in serves[product] THEN "Offered" ELSE "NotOffered"}

AskMarket(g, w) ==
    LET market == pass[g].worker[w] IN
    /\ market \in Markets
    /\ \E says \in ProbeAnswer(pass[g].product, market) :
           inbox' = Append(inbox,
               [generation |-> g,
                answers |-> <<[market |-> market, says |-> says]>>,
                finished |-> FALSE, scope |-> pass[g].scope])
    /\ ToWorker(g, w, "taking")
    /\ UNCHANGED <<serves, text, selected, showAll, survey>>

\* The coordinating thread joins its workers, then closes the pass.
ClosePass(g) ==
    /\ ~pass[g].closed /\ \A w \in Workers : pass[g].worker[w] = "gone"
    /\ pass' = [pass EXCEPT ![g].closed = TRUE]
    /\ inbox' = Append(inbox, [generation |-> g, answers |-> <<>>,
                               finished |-> TRUE, scope |-> pass[g].scope])
    /\ UNCHANGED <<serves, text, selected, showAll, survey>>

-----------------------------------------------------------------------------
(* The window takes a report.                                              *)

\* Each answer counts, and the last about a market is what is known of it.
Recorded(s, answers) ==
    LET About(m) == {i \in DOMAIN answers : answers[i].market = m}
        Latest(m) == CHOOSE i \in About(m) : \A j \in About(m) : j <= i
    IN  [s EXCEPT !.answered = @ + Len(answers),
                  !.answers = [m \in Markets |->
                      IF About(m) = {} THEN @[m] ELSE answers[Latest(m)].says]]

Settled(s, scope) ==
    [s EXCEPT !.running = FALSE, !.settled = Offering(s),
              !.scope = IF scope = "Complete" THEN scope ELSE @]

ApplyMarketAnswers(report) ==
    LET known == Recorded(survey, report.answers)
        after == IF report.finished
                 THEN WidenSearchAfterRefusal(
                          [survey |-> Settled(known, report.scope),
                           pass |-> pass], text, selected)
                 ELSE [survey |-> known, pass |-> pass]
    IN  /\ Becomes(after)
        /\ selected' = KeepSelectionReachable(after.survey, showAll, selected)

\* Answers of a pass the window has moved on from are dropped.
IsCurrent(report) == survey # NoSurvey /\ survey.generation = report.generation

TakeReport ==
    /\ inbox # <<>>
    /\ inbox' = Tail(inbox)
    /\ IF IsCurrent(Head(inbox)) THEN ApplyMarketAnswers(Head(inbox))
       ELSE UNCHANGED <<survey, pass, selected>>
    /\ UNCHANGED <<serves, text, showAll>>

-----------------------------------------------------------------------------
\* A launched window asks about the identifier it was given.
Init ==
    /\ serves \in [Products -> SUBSET Markets]
    /\ text \in Products \cup {NoProduct}
    /\ selected \in Regions \cup {NoRegion}
    /\ showAll = FALSE
    /\ inbox = <<>>
    /\ LET sv == ProbeSelectedRegion([survey |-> NoSurvey, pass |-> <<>>],
                                     text, selected)
       IN  survey = sv.survey /\ pass = sv.pass

UserStep ==
    \/ \E p \in Products \cup {NoProduct} : SetStoreText(p)
    \/ \E r \in Regions \cup {NoRegion} : SelectTemporaryRegion(r)
    \/ FindRegion
    \/ CheckRemaining
    \/ ShowAllRegions
    \/ \E p \in Products : OpenUpdateInInstallation(p)

WorkerStep(g, w) == TakeIndex(g, w) \/ AskMarket(g, w)

Next ==
    \/ UserStep
    \/ \E g \in DOMAIN pass : ClosePass(g) \/ \E w \in Workers : WorkerStep(g, w)
    \/ TakeReport

Spec == Init /\ [][Next]_vars

\* Threads run and the window takes its messages; the user owes nothing.
FairSpec ==
    /\ Spec
    /\ WF_vars(TakeReport)
    /\ WF_vars(\E g \in DOMAIN pass :
                   ClosePass(g) \/ \E w \in Workers : WorkerStep(g, w))

-----------------------------------------------------------------------------
TypeOK ==
    /\ serves \in [Products -> SUBSET Markets]
    /\ text \in Products \cup {NoProduct}
    /\ selected \in Regions \cup {NoRegion}
    /\ showAll \in BOOLEAN
    /\ survey = NoSurvey \/ survey \in Surveys
    /\ \A g \in DOMAIN pass : pass[g] \in Passes
    /\ \A i \in DOMAIN inbox : inbox[i] \in Posts

(* What the window says of a market is what the catalogue says of the      *)
(* product now in the draft, and the narrowed list holds only markets that *)
(* offer it, although threads of earlier drafts go on posting              *)
(* (command.rs:474, work.rs:406).                                          *)
AnswersAreAboutTheDraft ==
    survey # NoSurvey =>
        /\ survey.product = text
        /\ \A m \in Markets :
               /\ survey.answers[m] = "Offered" => m \in serves[text]
               /\ survey.answers[m] = "NotOffered" => m \notin serves[text]
        /\ survey.settled \subseteq serves[text]

(* The progress shown counts every market of the pass once, and a pass is  *)
(* reported over only when each of its markets has answered: the workers   *)
(* share one counter and their answers overtake each other                 *)
(* (work.rs:418, command.rs:480).                                          *)
ProgressIsOfThisPass ==
    survey # NoSurvey =>
        /\ survey.answered <= survey.total
        /\ ~survey.running =>
               /\ survey.answered = survey.total
               /\ \A m \in ToSet(pass[survey.generation].markets) :
                      survey.answers[m] # "Unasked"

(* "Only a complete, fully answered survey may claim that a market missing *)
(* from offering_markets does not offer the product"                       *)
(* (availability.rs:216): the claim is true of every market there is, also *)
(* of the ones an earlier pass was to ask.                                 *)
ConclusiveIsTheWholeAnswer ==
    survey # NoSurvey /\ IsConclusive(survey) =>
        Offering(survey) = serves[survey.product]

(* A pass that is shown as running ends, or the question is dropped, also  *)
(* when markets are silent and passes are superseded (work.rs:403).        *)
SearchEnds ==
    Searching ~> ~Searching

-----------------------------------------------------------------------------
(* Three sentences of the source that the code does not keep.              *)

(* "A search can narrow the list past the region that was selected, and a  *)
(* selection nobody can see is one an installation would still use"        *)
(* (command.rs:500): at rest, the selection is in the list shown. It is    *)
(* not: leaving the full list does not move it (command.rs:584).           *)
SelectionIsListed ==
    ~Searching /\ selected # NoRegion =>
        selected \in OfferedRegions(survey, showAll)

(* "A running pass will reach this market on its own" (command.rs:249): at *)
(* rest, the selected market has been asked. It has not when the pass that *)
(* was running asked one other market only.                                *)
SelectedMarketIsAsked ==
    survey # NoSurvey /\ ~survey.running /\ ~survey.searched
        /\ selected \in Markets =>
            survey.answers[selected] # "Unasked"

(* "Start one pass of market probes, keeping whatever this survey already  *)
(* knows" (command.rs:206): an answer is not lost while the draft stays.   *)
(* It is: the silence of a second pass replaces it (availability.rs:174).  *)
KnowledgeIsKept ==
    [][ survey # NoSurvey /\ survey' # NoSurvey /\ text' = text =>
            \A m \in Markets :
                survey.answers[m] = "Offered" => survey'.answers[m] # "Unknown"
      ]_vars

=============================================================================
