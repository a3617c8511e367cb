------------------------------ MODULE Checkout -------------------------------
(***************************************************************************)
(* The two pages that price a cart before it is ordered, CheckoutPage and    *)
(* ComparePage, with the hook both ask for quotes (useDebouncedQuote.ts),    *)
(* and the handler of POST /api/quote (customerController.js,                *)
(* quoteService.js), which reads the bundles and then the services while     *)
(* staff publish, unpublish and recompose them.                              *)
(*                                                                          *)
(* A change of the form restarts the hook's timer and aborts the request in  *)
(* flight; React renders once after every event, so the two are one step.    *)
(* Nothing here places an order: see OrderCanBePlaced.  The compare page's   *)
(* Checkout button (ComparePage.tsx 418-463), which writes a draft with a    *)
(* slot and a signature, is left out with it.                                *)
(***************************************************************************)
EXTENDS Pricing, TLC

CONSTANTS
    Services,        \* service documents by id: see Pricing
    Bundles,         \* bundle documents by id, as they are first written
    Recompositions,  \* the component lists staff may give a bundle
    Carts,           \* what a customer may put together on a service's page
    Configs,         \* what can be configured for a compared service
    Slots,           \* start times of capacity slots by id
    TypedStarts,     \* start times a customer types
    Tomorrow,        \* the time a day after the page is opened
    BrowserOffset,   \* the browser's offset from UTC, in minutes
    Jurisdictions,   \* by id: [required, rate]
    FirstListed,     \* the jurisdiction listed first
    MilesGiven,      \* distances a customer gives; a form begins with 10
    AskedTimes,      \* when a customer may have opened the checkout
    MaxChanges,      \* bound: changes of a form
    MaxEdits,        \* bound: changes of the catalogue
    MaxFaults        \* bound: calls that fail

VARIABLES
    page,        \* which page is open
    draft,       \* quoteDraft of the booking store: [lines, asked, slot, signature]
    form,        \* the page's fields
    compared,    \* the services the compare list holds
    configs,     \* what is configured for each of them
    listed,      \* the slots that were listed for the service
    loaded,      \* have the jurisdictions arrived?
    timer,       \* the hook's 400 ms timer runs
    flights,     \* quote requests whose answer the hook still wants
    data, error, loading,   \* what the hook returns
    onSale,      \* the published services
    offered,     \* the published bundles
    parts,       \* the components of every bundle
    changes, edits, faults

hook == <<timer, flights, data, error, loading>>
screen == <<page, draft, compared, configs, listed, loaded>>
catalogue == <<onSale, offered, parts>>
bounds == <<changes, edits, faults>>
vars == <<screen, form, hook, catalogue, bounds>>

\* A time put into the start field and read back: it is written in UTC and read as the
\* browser's local time.
Reread(t) == t - BrowserOffset

NoData == [input |-> Null, answer |-> Rejected]
FreshForm == [selected |-> Null, slot |-> Null, start |-> Reread(Tomorrow), miles |-> 10,
              jurisdiction |-> Null, priority |-> FALSE, tax |-> TRUE]
NoDraft == [lines |-> <<>>, asked |-> Null, slot |-> Null, signature |-> Null]

-----------------------------------------------------------------------------
(* What the page would ask. *)

TaxLocked(f) == f.jurisdiction # Null /\ loaded /\ Jurisdictions[f.jurisdiction].required

CompareLine(s, config) ==
    <<[type |-> "service", id |-> s, duration |-> config.duration, quantity |-> 1,
       spec |-> config.spec, specs |-> {}]>>

\* liveQuoteInput and quoteInput: the compare page does not say when it asked.
Input(p, f, d, cs) ==
    LET lines == IF p = "checkout" THEN d.lines
                 ELSE IF f.selected = Null THEN <<>>
                 ELSE CompareLine(f.selected, cs[f.selected])
    IN  IF lines = <<>> THEN Null
        ELSE [lines |-> lines, start |-> f.start, miles |-> f.miles, priority |-> f.priority,
              asked |-> IF p = "checkout" THEN d.asked ELSE Null,
              tax |-> TaxLocked(f) \/ f.tax, jurisdiction |-> f.jurisdiction]

Now == Input(page, form, draft, configs)
Then == Now'

\* Mutant: an aborted request's answer is used like any other.
AbortedInVain(fs) == fs
Aborted(fs) == {}

\* Mutant: something in the effect's dependencies is new in every render.
AsksAnewAlways(old, new) == TRUE
AsksAnew(old, new) == old # new

\* The effect after a render: if a dependency changed, its clean-up stops the timer
\* and aborts the request, and a new timer starts if there is anything to ask.
Render(old, new, fs) ==
    IF AsksAnew(old, new)
    THEN timer' = (new # Null) /\ flights' = Aborted(fs)
    ELSE UNCHANGED timer /\ flights' = fs

-----------------------------------------------------------------------------
(* The customer. *)

\* ServiceDetailPage: the draft has lines and a time, but neither slot nor signature.
OpenCheckout(lines, asked) ==
    /\ page = "catalog"
    /\ page' = "checkout"
    /\ draft' = [lines |-> lines, asked |-> asked, slot |-> Null, signature |-> Null]
    /\ timer' = TRUE
    /\ UNCHANGED <<form, compared, configs, listed, loaded, flights, data, error, loading,
                   catalogue, bounds>>

OpenCompare ==
    /\ page = "catalog"
    /\ page' = "compare"
    /\ UNCHANGED <<draft, form, compared, configs, listed, loaded, hook, catalogue, bounds>>

DefaultConfig(s) == CHOOSE c \in Configs :
    c.duration = 60 /\ c.spec = [headcount |-> 1, tools |-> "provider", addOns |-> {}]

ConfigOf(s) == IF s \in compared THEN configs[s] ELSE DefaultConfig(s)
\* Mutant: what is not compared any more stays configured.
ConfiguredStill(list) == [s \in list \cup compared |-> ConfigOf(s)]
Configured(list) == [s \in list |-> ConfigOf(s)]

\* GET /api/compare and its services are answered, when the page opens or when the
\* query is run again: services that are not published any more are left out.  The
\* effects select a service if the selected one is gone, and configure new ones.
ComparedArrive(list) ==
    /\ page = "compare"
    /\ list \subseteq onSale /\ list # compared
    /\ \/ compared = {} /\ UNCHANGED changes
       \/ compared # {} /\ changes < MaxChanges /\ changes' = changes + 1
    /\ compared' = list
    /\ configs' = Configured(list)
    /\ IF form.selected \in list THEN UNCHANGED <<form, listed>>
       ELSE /\ \E s \in (IF list = {} THEN {Null} ELSE list) : form' = [form EXCEPT !.selected = s]
            /\ listed' = {}
    /\ UNCHANGED <<page, draft, loaded, data, error, loading, catalogue, edits, faults>>
    /\ Render(Now, Then, flights)

\* GET /api/quote/jurisdictions is answered; the effect chooses the first.
JurisdictionsArrive ==
    /\ page # "catalog" /\ ~loaded
    /\ loaded' = TRUE
    /\ form' = [form EXCEPT !.jurisdiction = FirstListed]
    /\ UNCHANGED <<page, draft, compared, configs, listed, data, error, loading,
                   catalogue, bounds>>
    /\ Render(Now, Then, flights)

\* GET /api/quote/slots is answered with the slots that have seats left; the effect
\* takes the first unless a slot is chosen.
SlotsArrive(free) ==
    /\ Now # Null /\ listed = {}
    /\ free \subseteq DOMAIN Slots /\ free # {}
    /\ listed' = free
    /\ \/ form.slot # Null /\ UNCHANGED form
       \/ /\ form.slot = Null
          /\ \E s \in free :
               /\ \A t \in free : Slots[s] <= Slots[t]
               /\ form' = [form EXCEPT !.slot = s, !.start = Reread(Slots[s])]
    /\ UNCHANGED <<page, draft, compared, configs, loaded, data, error, loading,
                   catalogue, bounds>>
    /\ Render(Now, Then, flights)

\* The fields of either page, and "Use for quote" beside a compared service, which
\* asks for that service's slots and keeps the slot that was chosen.
Fill ==
    \/ /\ \/ \E s \in listed : form' = [form EXCEPT !.slot = s, !.start = Reread(Slots[s])]
          \/ \E t \in TypedStarts : form' = [form EXCEPT !.start = t]
          \/ \E n \in MilesGiven : form' = [form EXCEPT !.miles = n]
          \/ loaded /\ \E j \in DOMAIN Jurisdictions : form' = [form EXCEPT !.jurisdiction = j]
          \/ form' = [form EXCEPT !.priority = ~@]
          \/ ~TaxLocked(form) /\ form' = [form EXCEPT !.tax = ~@]
       /\ UNCHANGED listed
    \/ \E s \in compared : form' = [form EXCEPT !.selected = s] /\ listed' = {}

Change ==
    /\ page # "catalog"
    /\ changes < MaxChanges /\ changes' = changes + 1
    /\ Fill
    /\ form' # form
    /\ UNCHANGED <<page, draft, compared, configs, loaded, data, error, loading, catalogue,
                   edits, faults>>
    /\ Render(Now, Then, flights)

\* updateServiceConfig and toggleAddOn.
Configure(c) ==
    /\ page = "compare" /\ form.selected # Null /\ configs[form.selected] # c
    /\ changes < MaxChanges /\ changes' = changes + 1
    /\ configs' = [configs EXCEPT ![form.selected] = c]
    /\ UNCHANGED <<page, draft, form, compared, listed, loaded, data, error, loading,
                   catalogue, edits, faults>>
    /\ Render(Now, Then, flights)

-----------------------------------------------------------------------------
(* The hook. *)

TimerFires ==
    /\ timer
    /\ loading' = TRUE /\ error' = FALSE
    /\ LET sent == [input |-> Now, stage |-> "sent", bundles |-> <<>>, answer |-> Rejected]
           fs == Aborted(flights) \cup {sent}
       IN  IF AsksAnew(Now, Now) THEN timer' = TRUE /\ flights' = Aborted(fs)
           ELSE timer' = FALSE /\ flights' = fs
    /\ UNCHANGED <<screen, form, data, catalogue, bounds>>

\* The finally block.
Finished == loading' = FALSE

\* A quote is shown.  A refusal is shown beside the quote that was there before.
AnswerArrives(f) ==
    /\ f.stage = "answered"
    /\ flights' = flights \ {f}
    /\ Finished
    /\ IF f.answer = Rejected THEN error' = TRUE /\ UNCHANGED data
       ELSE data' = [input |-> f.input, answer |-> f.answer] /\ UNCHANGED error
    /\ UNCHANGED <<screen, form, timer, catalogue, bounds>>

CallFails(f) ==
    /\ faults < MaxFaults /\ faults' = faults + 1
    /\ flights' = flights \ {f}
    /\ error' = TRUE /\ Finished
    /\ UNCHANGED <<screen, form, timer, data, catalogue, changes, edits>>

-----------------------------------------------------------------------------
(* The handler. *)

Advance(f, g) ==
    /\ flights' = (flights \ {f}) \cup {g}
    /\ UNCHANGED <<screen, form, timer, data, error, loading, catalogue, bounds>>

\* The three reads that run together: the published bundles, as they are now, the
\* jurisdiction and the settings.  Without a jurisdiction it answers at once.
ReadBundles(f) ==
    /\ f.stage = "sent"
    /\ Advance(f, IF f.input.jurisdiction = Null THEN [f EXCEPT !.stage = "answered"]
         ELSE [f EXCEPT !.stage = "reading",
                 !.bundles = [b \in offered |-> [Bundles[b] EXCEPT !.components = parts[b]]]])

\* The published services are read and the quote is computed.
ReadServices(f) ==
    /\ f.stage = "reading"
    /\ Advance(f, [f EXCEPT !.stage = "answered", !.bundles = <<>>,
         !.answer = Quote(f.input, [s \in onSale |-> Services[s]], f.bundles,
                          Jurisdictions[f.input.jurisdiction])])

-----------------------------------------------------------------------------
(* Staff: publish and unpublish services and bundles, updateBundleById.      *)

Edit == edits < MaxEdits /\ edits' = edits + 1
        /\ UNCHANGED <<screen, form, hook, changes, faults>>

ToggleService(s) ==
    /\ Edit
    /\ onSale' = IF s \in onSale THEN onSale \ {s} ELSE onSale \cup {s}
    /\ UNCHANGED <<offered, parts>>

ToggleBundle(b) ==
    /\ Edit
    /\ offered' = IF b \in offered THEN offered \ {b} ELSE offered \cup {b}
    /\ UNCHANGED <<onSale, parts>>

Recompose(b, components) ==
    /\ Edit
    /\ parts' = [parts EXCEPT ![b] = components]
    /\ UNCHANGED <<onSale, offered>>

-----------------------------------------------------------------------------

Init ==
    /\ page = "catalog" /\ draft = NoDraft /\ form = FreshForm
    /\ compared = {} /\ configs = <<>> /\ listed = {} /\ loaded = FALSE
    /\ timer = FALSE /\ flights = {} /\ data = NoData /\ error = FALSE /\ loading = FALSE
    /\ onSale = DOMAIN Services /\ offered = DOMAIN Bundles
    /\ parts = [b \in DOMAIN Bundles |-> Bundles[b].components]
    /\ changes = 0 /\ edits = 0 /\ faults = 0

Answering == \E f \in flights : ReadBundles(f) \/ ReadServices(f) \/ AnswerArrives(f)

Next ==
    \/ \E lines \in Carts, asked \in AskedTimes : OpenCheckout(lines, asked)
    \/ OpenCompare
    \/ \E list \in SUBSET DOMAIN Services : ComparedArrive(list)
    \/ JurisdictionsArrive
    \/ \E free \in SUBSET DOMAIN Slots : SlotsArrive(free)
    \/ Change
    \/ \E c \in Configs : Configure(c)
    \/ TimerFires
    \/ Answering
    \/ \E f \in flights : CallFails(f)
    \/ \E s \in DOMAIN Services : ToggleService(s)
    \/ \E b \in DOMAIN Bundles : ToggleBundle(b)
    \/ \E b \in DOMAIN Bundles, components \in Recompositions : Recompose(b, components)

Spec == Init /\ [][Next]_vars

\* The browser's timer fires and the calls are answered.  Nobody has to change anything.
FairSpec == Spec /\ WF_vars(TimerFires) /\ WF_vars(Answering)

-----------------------------------------------------------------------------
(* Properties *)

AtRest == ~timer /\ flights = {}

\* The start times a form may hold, and what forms and their inputs hold.
Starts == TypedStarts \cup {Reread(t) : t \in {Tomorrow} \cup {Slots[s] : s \in DOMAIN Slots}}
Forms == [selected : DOMAIN Services \cup {Null}, slot : DOMAIN Slots \cup {Null}, start : Starts,
          miles : MilesGiven \cup {10}, jurisdiction : DOMAIN Jurisdictions \cup {Null},
          priority : BOOLEAN, tax : BOOLEAN]
Lines == Carts \cup {CompareLine(s, c) : s \in DOMAIN Services, c \in Configs}
Inputs == [lines : Lines, start : Starts, miles : MilesGiven \cup {10}, priority : BOOLEAN,
           asked : AskedTimes \cup {Null}, tax : BOOLEAN,
           jurisdiction : DOMAIN Jurisdictions \cup {Null}]
Codes == {"rejected", "OK", "OUT_OF_SERVICE_AREA"}

TypeOK ==
    /\ page \in {"catalog", "compare", "checkout"}
    /\ draft.lines \in Carts \cup {<<>>} /\ draft.asked \in AskedTimes \cup {Null}
    /\ form \in Forms
    /\ compared \subseteq DOMAIN Services /\ configs \in [compared -> Configs]
    /\ form.selected \in compared \cup {Null}
    /\ listed \subseteq DOMAIN Slots
    /\ \A f \in flights :
         f.stage \in {"sent", "reading", "answered"} /\ f.input \in Inputs /\ f.answer.code \in Codes
    /\ data.input \in Inputs \cup {Null} /\ data.answer.code \in Codes
    /\ {loaded, timer, error, loading} \subseteq BOOLEAN
    /\ onSale \subseteq DOMAIN Services /\ offered \subseteq DOMAIN Bundles
    /\ parts \in [DOMAIN Bundles ->
                    Recompositions \cup {Bundles[b].components : b \in DOMAIN Bundles}]
    /\ changes \in 0..MaxChanges /\ edits \in 0..MaxEdits /\ faults \in 0..MaxFaults

\* However quickly the form changes and in whatever order answers would come, a page
\* that has come to rest without an error shows the quote of the form as it now is,
\* never that of an earlier one.
QuoteMatchesForm ==
    AtRest /\ ~error /\ Now # Null /\ data # NoData => data.input = Now

\* "Revalidating quote" and "Updating quote" are shown only while an answer can still
\* come.  (When the last compared service goes, its request is aborted and the text
\* stays although nothing will be asked.)
SpinnerMeansWork == loading /\ Now # Null => ~AtRest

\* What a page shows at rest is about the form as it is.
PageIsTruthful == QuoteMatchesForm /\ SpinnerMeansWork

\* A bundle costs at most what its services cost when they are put into the cart one
\* by one, whenever the visit starts, however far it is and with tax and priority,
\* for every composition staff may give it.
BundleNeverDearer ==
    page = "catalog" => \A b \in offered, t \in TypedStarts, n \in MilesGiven :
      LET bundle == [Bundles[b] EXCEPT !.components = parts[b]]
          Cart(lines) == [lines |-> lines, start |-> t, asked |-> t - 60, miles |-> n,
                          priority |-> TRUE, tax |-> TRUE]
          Loose(c) == [type |-> "service", id |-> c.service, duration |-> c.duration,
                       quantity |-> 1, spec |-> c.spec]
          Cost(lines) == Quote(Cart(lines), [s \in onSale |-> Services[s]],
                               [id \in {b} |-> bundle], Jurisdictions[FirstListed])
          whole == Cost(<<[type |-> "bundle", id |-> b, quantity |-> 1, specs |-> {}]>>)
          loose == Cost([i \in DOMAIN parts[b] |-> Loose(parts[b][i])])
      IN  loose.code = "OK" => whole.code = "OK" /\ whole.total <= loose.total

\* Once the customer leaves the form alone, the page comes to rest with the quote of
\* the form or with the reason why there is none.
QuoteSettles ==
    <>[](AtRest /\ (Now = Null \/ error \/ data.input = Now))

\* CheckoutPage.tsx:312, where buildQuotePayload wants the draft's slot and signature.
CanPlace ==
    /\ draft.slot # Null /\ draft.signature # Null
    /\ form.slot # Null /\ form.jurisdiction # Null
    /\ ~loading /\ data.answer.code = "OK"

\* "Review your quote, confirm the selected slot, and place the order": a page at rest
\* with a slot and a quote for it lets the customer place the order.
OrderCanBePlaced ==
    page = "checkout" /\ AtRest /\ ~error /\ form.slot # Null /\ form.jurisdiction # Null
    /\ data.answer.code = "OK" => CanPlace
=============================================================================
