-------------------------------- MODULE Pages ---------------------------------
(***************************************************************************)
(* What a customer's pages meet: the session of a page, the two pages that   *)
(* price a cart, and the count of a ticket's deadline.  Their steps          *)
(* interleave; they share no state, so a step of one leaves the others alone. *)
(***************************************************************************)
EXTENDS Browser, Sequences

\* The pages that price a cart: see Checkout.  Unset is its Null, MaxLosses its MaxFaults.
CONSTANTS
    QuoteOffset, Unset, Services, Bundles, Recompositions, Carts, Configs, Slots, TypedStarts,
    Tomorrow, BrowserOffset, Jurisdictions, FirstListed, MilesGiven, AskedTimes, MaxChanges,
    MaxEdits, MaxLosses

\* The calendar: see SlaCalendar.
CONSTANTS
    Created, Promises, Hours, Closed, WeekLength, DayLength, HourLength, UtcOffset, Shift,
    ShiftAt, LateMidnight, SearchLimit

VARIABLES
    \* the pages that price a cart
    page, draft, form, compared, configs, listed, loaded, timer, flights, data, error, loading,
    onSale, offered, parts, changes, edits, failed,
    \* the calendar
    pc, created, promised, cursor, tried, remaining, opened

checkoutVars == <<page, draft, form, compared, configs, listed, loaded, timer, flights, data,
                  error, loading, onSale, offered, parts, changes, edits, failed>>
calendarVars == <<pc, created, promised, cursor, tried, remaining, opened>>
pagesVars == <<vars, checkoutVars, calendarVars>>

C == INSTANCE Checkout WITH
    UtcOffset <- QuoteOffset, Null <- Unset, MaxFaults <- MaxLosses, faults <- failed
D == INSTANCE SlaCalendar

ASSUME CalendarAssumption ==
    /\ Created \subseteq Int /\ Promises \subseteq Nat
    /\ WeekLength \in Nat \ {0} /\ DayLength \in Nat \ {0} /\ HourLength \in Nat
    /\ UtcOffset \in Int /\ Shift \in Int /\ ShiftAt \in Int
    /\ LateMidnight \in BOOLEAN /\ SearchLimit \in Nat

\* A cart is not empty, one of the configurations is the default, and what is unset is
\* neither a document's id nor a form's input.
ASSUME CatalogueAssumption ==
    /\ <<>> \notin Carts
    /\ \E c \in Configs :
         c.duration = 60 /\ c.spec = [headcount |-> 1, tools |-> "provider", addOns |-> {}]
    /\ FirstListed \in DOMAIN Jurisdictions
    /\ Unset \notin DOMAIN Services \cup DOMAIN Slots \cup DOMAIN Jurisdictions \cup C!Inputs
    /\ MaxChanges \in Nat /\ MaxEdits \in Nat /\ MaxLosses \in Nat

\* What the documents hold, as the seed writes them and the API validates them: no staff
\* sets a discount or a tax rate.  The components of a bundle are a list, whatever is in it.
ASSUME DocumentsAssumption ==
    /\ \A s \in DOMAIN Services :
         /\ Services[s].base \in Int /\ \A d \in C!Durations : Services[s].adjust[d] \in Int
         /\ Services[s].headcounts \subseteq Int /\ IsFiniteSet(Services[s].addOns)
    /\ \A b \in DOMAIN Bundles :
         {"components", "discount"} \subseteq DOMAIN Bundles[b] /\ Bundles[b].discount \in Nat
    /\ \A list \in Recompositions \cup {Bundles[b].components : b \in DOMAIN Bundles} :
         Len(list) \in Nat /\ DOMAIN list = 1..Len(list)
    /\ Jurisdictions[FirstListed].rate \in Nat

-----------------------------------------------------------------------------
PagesInit == Init /\ C!Init /\ D!Init

\* One part moves.
SessionMoves == Next /\ UNCHANGED <<checkoutVars, calendarVars>>
PricesMove == C!Next /\ UNCHANGED <<vars, calendarVars>>
DeadlineMoves == D!Next /\ UNCHANGED <<vars, checkoutVars>>

PagesNext == SessionMoves \/ PricesMove \/ DeadlineMoves

PagesSpec == PagesInit /\ [][PagesNext]_pagesVars

-----------------------------------------------------------------------------
(* Properties *)

AllTypesOK == TypeOK /\ C!TypeOK /\ D!TypeOK

\* What the parts promise: see there.
PageIsTruthful == C!PageIsTruthful
BundleNeverDearer == C!BundleNeverDearer
DeadlineCounts == D!DeadlineCounts
=============================================================================
