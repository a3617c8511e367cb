------------------------------- MODULE MCPages --------------------------------
(* Small pages.  The parts share no state, so a behaviour in which several of them move *)
(* has nothing that one with the steps of a single part, the subject, has not.          *)
EXTENDS Pages, MCCatalogue

VARIABLE subject

subjectVars == <<subject, pagesVars>>

\* For the calendar: 21 minutes in which tickets are created, an office that is west of
\* UTC, is open from the third to the fifth minute of one day, on all of the next day and
\* never on the third, where a day has six minutes and an hour has one.
Creations == 0..20
WestOfUtc == -2
ThreeDays == 0 :> [start |-> 2, end |-> 5] @@ 1 :> [start |-> 0, end |-> 6] @@ 2 :> Closed

\* The browser is east of UTC by an hour.
EastOfUtc == -60

\* Only the session's behaviours begin with cookies.
SubjectInit ==
    /\ subject \in {"session", "prices", "deadline"}
    /\ PagesInit
    /\ subject # "session" => jar = NoCookies /\ live = {}

Session(Action) ==
    subject = "session" /\ Action /\ UNCHANGED <<subject, checkoutVars, calendarVars>>
Prices(Action) == subject = "prices" /\ Action /\ UNCHANGED <<subject, vars, calendarVars>>

SubjectNext ==
    \/ Session(Next)
    \/ Prices(C!Next)
    \/ subject = "deadline" /\ DeadlineMoves /\ UNCHANGED subject

\* The fairness of Browser and of Checkout.
SubjectSpec ==
    /\ SubjectInit /\ [][SubjectNext]_subjectVars
    /\ WF_subjectVars(Session(\E c \in InFlight : Handle(c)))
    /\ WF_subjectVars(Prices(C!TimerFires))
    /\ WF_subjectVars(Prices(C!Answering))

\* What the parts promise: see there.
SessionComesToRest == subject = "session" => PageComesToRest
QuoteSettles == C!QuoteSettles
=============================================================================
