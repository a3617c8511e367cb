-------------------------------- MODULE Search --------------------------------
(***************************************************************************)
(* What visitors and editors are promised about the search, with no request, *)
(* copy or clean-up in sight: it shows an item as it is published, or as it  *)
(* was before the edit that is on its way, and takes out before the edit     *)
(* arrives only what was withdrawn.  An item that is edited again too early, *)
(* or whose edit got lost, is promised nothing until the search opens again. *)
(* SearchIndex is shown to implement it.                                     *)
(***************************************************************************)
CONSTANTS
    Items, Versions,
    Fixtures    \* the items that a start of the API may write

VARIABLES
    open,       \* whether visitors can search
    published,  \* what the public may see of each item: a version, or nothing
    found,      \* what the search shows of it
    due,        \* the items with an edit that has yet to reach the search
    lost        \* the items of which the search promises nothing

vars == <<open, published, found, due, lost>>

Nothing == {}

TypeOK ==
    /\ open \in BOOLEAN
    /\ published \in [Items -> SUBSET Versions] /\ found \in [Items -> SUBSET Versions]
    /\ due \subseteq Items /\ lost \subseteq Items

Init ==
    /\ TypeOK
    /\ ~open /\ found = [i \in Items |-> Nothing] /\ due = {} /\ lost = {}

\* What is published changes, of these items at most.
Change(items) ==
    /\ published' \in [Items -> SUBSET Versions]
    /\ \A i \in Items \ items : published'[i] = published[i]

Edit(i) ==
    /\ open /\ i \notin due \cup lost
    /\ Change({i})
    /\ due' = due \cup {i}
    /\ UNCHANGED <<open, found, lost>>

\* An edit on its way fails or is overtaken by another, or a lost item is edited.  From
\* here on nothing is said of what the search shows of it.
Lose(i) ==
    /\ open /\ i \in due \cup lost
    /\ Change({i})
    /\ due' = due \ {i} /\ lost' = lost \cup {i}
    /\ found' = [found EXCEPT ![i] = Nothing]
    /\ UNCHANGED open

\* The edit reaches the search.
Arrive(i) ==
    /\ open /\ i \in due
    /\ found' = [found EXCEPT ![i] = published[i]]
    /\ due' = due \ {i}
    /\ UNCHANGED <<open, published, lost>>

\* What was withdrawn is taken out before the edit arrives.
TakeOut(i) ==
    /\ open /\ i \in due /\ published[i] = Nothing
    /\ found' = [found EXCEPT ![i] = Nothing]
    /\ UNCHANGED <<open, published, due, lost>>

\* Nobody searches while the API is down, and a new start makes good what was lost.
Close ==
    /\ open /\ ~open'
    /\ found' = [i \in Items |-> Nothing] /\ due' = {} /\ lost' = {}
    /\ UNCHANGED published

\* A start writes its fixtures before it lets anybody in.
Refit == ~open /\ Change(Fixtures) /\ UNCHANGED <<open, found, due, lost>>

\* Everything is found as it is published.
Open ==
    /\ ~open /\ open'
    /\ found' = published
    /\ UNCHANGED <<published, due, lost>>

Next ==
    \/ \E i \in Items : Edit(i) \/ Lose(i) \/ Arrive(i) \/ TakeOut(i)
    \/ Close \/ Refit \/ Open

Spec == Init /\ [][Next]_vars

\* The search shows what is published, but for edits on their way and lost items.
Truthful == open => \A i \in Items \ (due \cup lost) : found[i] = published[i]
=============================================================================
