------------------------------ MODULE Shortlist ------------------------------
(***************************************************************************)
(* The favourites and the compare list of one customer (customerController.js, *)
(* bookingApi.ts, the heart buttons and FavoritesPage): every document is keyed *)
(* by its user, so customers do not meet.  The button only ever adds; when     *)
(* adding fails, for whatever reason, it removes instead.                      *)
(***************************************************************************)
EXTENDS FiniteSets, Naturals, Sequences

CONSTANTS
    Services,
    Handlers,       \* clicks and requests of the customer that may overlap
    Lists,          \* what a request may ask to compare: sequences of services
    CompareLimit,   \* five
    MaxEdits,       \* bound: services published and unpublished
    MaxFaults,      \* bound: calls that fail, get lost or are refused with 429
    NoService

VARIABLES
    onSale,         \* services with published: true
    favorites,      \* favorites: by the unique index, a set of services
    compareList,    \* compare_lists: the serviceIds
    handler,        \* what is under way
    shown,          \* the services on the favourites page
    edits, faults,  \* counts
    told,           \* history: what the customer was told last of each service, if one can tell
    withdrawn       \* history: services unpublished since the compare list was checked

history == <<told, withdrawn>>
vars == <<onSale, favorites, compareList, handler, shown, edits, faults, history>>

-----------------------------------------------------------------------------
HandlerRecord ==
    [pc : {"idle", "finding", "storing", "stored", "removing", "removed", "listing", "joining",
           "counting", "writing"},
     service : Services \cup {NoService}, onPage : BOOLEAN, clashed : BOOLEAN,
     found : SUBSET Services, gone : SUBSET Services]

Idle == [pc |-> "idle", service |-> NoService, onPage |-> FALSE, clashed |-> FALSE,
         found |-> {}, gone |-> {}]

\* The clicks that are at work on service s.
Busy(s) == {h \in Handlers : /\ handler[h].service = s
                             /\ handler[h].pc \in {"finding", "storing", "stored",
                                                   "removing", "removed"}}

Goes(h, pc) == handler' = [handler EXCEPT ![h].pc = pc]
Ends(h) == handler' = [handler EXCEPT ![h] = Idle]

\* A click on s; it and those it meets are marked.
Clicked(h, s, pc, onPage) ==
    handler' = [q \in Handlers |->
        IF q = h THEN [Idle EXCEPT !.pc = pc, !.service = s, !.onPage = onPage,
                                   !.clashed = Busy(s) # {}]
        ELSE [handler[q] EXCEPT !.clashed = @ \/ q \in Busy(s)]]

Tell(h, word) ==
    told' = [told EXCEPT ![handler[h].service] = IF handler[h].clashed THEN "nothing" ELSE word]

-----------------------------------------------------------------------------
(* The heart button *)

\* handleFavorite, on a page that may show a service that is not on sale any more
Press(h, s) ==
    /\ handler[h].pc = "idle"
    /\ Clicked(h, s, "finding", FALSE)
    /\ UNCHANGED <<onSale, favorites, compareList, shown, edits, faults, history>>

\* addFavoriteByServiceId looks for the service.  404 makes the page remove it.
Find(h) ==
    /\ handler[h].pc = "finding"
    /\ Goes(h, IF handler[h].service \in onSale THEN "storing" ELSE "removing")
    /\ UNCHANGED <<onSale, favorites, compareList, shown, edits, faults, history>>

\* The upsert
Store(h) ==
    /\ handler[h].pc = "storing"
    /\ favorites' = favorites \cup {handler[h].service}
    /\ Goes(h, "stored")
    /\ UNCHANGED <<onSale, compareList, shown, edits, faults, history>>

\* "Added to favorites"
Added(h) ==
    /\ handler[h].pc = "stored"
    /\ Tell(h, "added") /\ Ends(h)
    /\ UNCHANGED <<onSale, favorites, compareList, shown, edits, faults, withdrawn>>

\* The catch block: so does every other failure, of a favourite that is stored, too.
\* (A request whose connection breaks is taken to end there; the page has no timeout.)
AddFails(h) ==
    /\ handler[h].pc \in {"finding", "storing", "stored"} /\ faults < MaxFaults
    /\ faults' = faults + 1
    /\ Goes(h, "removing")
    /\ UNCHANGED <<onSale, favorites, compareList, shown, edits, history>>

-----------------------------------------------------------------------------
(* Removal and the favourites page *)

\* handleRemove of the favourites page
Drop(h, s) ==
    /\ handler[h].pc = "idle" /\ s \in shown
    /\ Clicked(h, s, "removing", TRUE)
    /\ UNCHANGED <<onSale, favorites, compareList, shown, edits, faults, history>>

\* Mutant: the service is looked for as in addFavoriteByServiceId.
WithoutIfOnSale(s) == IF s \in onSale THEN favorites \ {s} ELSE favorites
\* removeFavoriteByServiceId: whether the service is on sale or not.
Without(s) == favorites \ {s}

Remove(h) ==
    /\ handler[h].pc = "removing"
    /\ favorites' = Without(handler[h].service)
    /\ Goes(h, "removed")
    /\ UNCHANGED <<onSale, compareList, shown, edits, faults, history>>

\* "Removed from favorites"; the favourites page then loads its list again.
Removed(h) ==
    /\ handler[h].pc = "removed"
    /\ Tell(h, "removed")
    /\ IF handler[h].onPage THEN Goes(h, "listing") ELSE Ends(h)
    /\ UNCHANGED <<onSale, favorites, compareList, shown, edits, faults, withdrawn>>

\* Nobody catches it and nothing is said.
RemoveFails(h) ==
    /\ handler[h].pc \in {"removing", "removed"} /\ faults < MaxFaults
    /\ faults' = faults + 1
    /\ Tell(h, "nothing") /\ Ends(h)
    /\ UNCHANGED <<onSale, favorites, compareList, shown, edits, withdrawn>>

Open(h) ==
    /\ handler[h].pc = "idle"
    /\ Goes(h, "listing")
    /\ UNCHANGED <<onSale, favorites, compareList, shown, edits, faults, history>>

\* listFavorites: first the favourites, then those of their services that are on sale.
List(h) ==
    /\ handler[h].pc = "listing"
    /\ handler' = [handler EXCEPT ![h].pc = "joining", ![h].found = favorites]
    /\ UNCHANGED <<onSale, favorites, compareList, shown, edits, faults, history>>

Join(h) ==
    /\ handler[h].pc = "joining"
    /\ shown' = handler[h].found \cap onSale
    /\ Ends(h)
    /\ UNCHANGED <<onSale, favorites, compareList, edits, faults, history>>

-----------------------------------------------------------------------------
(* The compare list *)

Named(list) == {list[i] : i \in 1..Len(list)}

\* setCompareList: the limit is on what was sent, doubles included.
SetCompare(h, list) ==
    /\ handler[h].pc = "idle" /\ Len(list) <= CompareLimit
    /\ handler' = [handler EXCEPT ![h] = [Idle EXCEPT !.pc = "counting", !.found = Named(list)]]
    /\ UNCHANGED <<onSale, favorites, compareList, shown, edits, faults, history>>

\* countDocuments: as many are on sale as were asked for, or 400.
Count(h) ==
    /\ handler[h].pc = "counting"
    /\ IF handler[h].found \subseteq onSale THEN Goes(h, "writing") ELSE Ends(h)
    /\ UNCHANGED <<onSale, favorites, compareList, shown, edits, faults, history>>

Write(h) ==
    /\ handler[h].pc = "writing"
    /\ compareList' = handler[h].found /\ withdrawn' = handler[h].gone
    /\ Ends(h)
    /\ UNCHANGED <<onSale, favorites, shown, edits, faults, told>>

\* A call for one of the lists fails.
Fails(h) ==
    /\ handler[h].pc \in {"listing", "joining", "counting", "writing"} /\ faults < MaxFaults
    /\ faults' = faults + 1
    /\ Ends(h)
    /\ UNCHANGED <<onSale, favorites, compareList, shown, edits, history>>

\* Staff publish a service, or take it off sale.
Edit(s) ==
    /\ edits < MaxEdits /\ edits' = edits + 1
    /\ IF s \in onSale
       THEN /\ onSale' = onSale \ {s}
            /\ withdrawn' = withdrawn \cup {s}
            /\ handler' = [h \in Handlers |->
                 IF handler[h].pc = "writing" THEN [handler[h] EXCEPT !.gone = @ \cup {s}]
                 ELSE handler[h]]
       ELSE onSale' = onSale \cup {s} /\ UNCHANGED <<withdrawn, handler>>
    /\ UNCHANGED <<favorites, compareList, shown, faults, told>>

-----------------------------------------------------------------------------
Init ==
    /\ onSale = Services
    /\ favorites = {} /\ compareList = {} /\ shown = {}
    /\ handler = [h \in Handlers |-> Idle]
    /\ edits = 0 /\ faults = 0
    /\ told = [s \in Services |-> "nothing"] /\ withdrawn = {}

Next ==
    \/ \E h \in Handlers, s \in Services : Press(h, s) \/ Drop(h, s)
    \/ \E h \in Handlers, list \in Lists : SetCompare(h, list)
    \/ \E h \in Handlers :
        \/ Find(h) \/ Store(h) \/ Added(h) \/ AddFails(h)
        \/ Remove(h) \/ Removed(h) \/ RemoveFails(h)
        \/ Open(h) \/ List(h) \/ Join(h)
        \/ Count(h) \/ Write(h) \/ Fails(h)
    \/ \E s \in Services : Edit(s)

Spec == Init /\ [][Next]_vars

-----------------------------------------------------------------------------
(* Properties *)

TypeOK ==
    /\ onSale \subseteq Services /\ favorites \subseteq Services
    /\ compareList \subseteq Services /\ shown \subseteq Services
    /\ handler \in [Handlers -> HandlerRecord]
    /\ edits \in 0..MaxEdits /\ faults \in 0..MaxFaults
    /\ told \in [Services -> {"nothing", "added", "removed"}] /\ withdrawn \subseteq Services

\* When no click on a service is under way, and the last one met no other and ended with
\* words, what it said is so (ServiceCard.tsx 13): also where an answer was lost, a limit
\* refused the click or the service went off sale meanwhile.
ToldIsSo ==
    \A s \in Services : Busy(s) = {} /\ told[s] # "nothing" =>
        (told[s] = "added" <=> s \in favorites)

\* Of the compared services, at most CompareLimit, only such are off sale as were withdrawn
\* after they had been checked (customerController.js 172), whoever else writes the list.
ComparedWereOnSale ==
    /\ Cardinality(compareList) <= CompareLimit
    /\ compareList \ onSale \subseteq withdrawn

\* The customer's lists hold what the customer was told and the catalogue offered.
ListsAreHonest == ToldIsSo /\ ComparedWereOnSale
=============================================================================
