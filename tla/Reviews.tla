------------------------------- MODULE Reviews -------------------------------
(***************************************************************************)
(* What visitors read under a service: reviews of completed orders           *)
(* (reviewsService.js) and answered questions (catalogService.js), with      *)
(* their moderation, the staff's edits of bundles and services, and the      *)
(* seeding at every start.                                                   *)
(*                                                                          *)
(* Node runs one callback at a time: everything between two awaits is one    *)
(* step.  Of a review's text only matters whether it contains one of the     *)
(* settings' sensitive terms, which nobody but the seeding ever writes.      *)
(***************************************************************************)
EXTENDS Integers

CONSTANTS
    Services, Bundle,   \* ids of services; the bundle that an order may be for
    SeedServices,       \* the services in the bundle of the fixtures
    Orders,
    LineOf,             \* what each order is for: a service or the bundle
    SeedOrder,          \* the order of the fixtures, one of Orders, and
    SeedReview,         \* the review of it
    Submissions,        \* requests to store a review; the review has the same name
    Questions, SeedQuestion, SeedService,
    Moderators,         \* those who publish and reject
    ReviewDays,         \* how long an order may be reviewed: 14 days
    DayLength, Offset,  \* ticks in a day, and the organization's offset from UTC
    MaxClock,           \* bound: the clock stops here
    MaxEdits,           \* bound: edits by the staff, restarts and verdicts
    Nobody, NoOrder

VARIABLES
    clock,
    order,      \* orders: state and completedAt
    bundled,    \* the bundle's serviceIds
    published,  \* the services with published: true
    review,     \* reviews, and what a request has put together of one
    question,   \* service_questions
    edits       \* how much of MaxEdits is used

vars == <<clock, order, bundled, published, review, question, edits>>

Reviewing == Submissions \cup {SeedReview}

ReviewRecord ==
    [pc : {"idle", "checked", "gathered", "stored", "refused"},
     order : Orders \cup {NoOrder},
     flagged : BOOLEAN,             \* the text contains a sensitive term
     services : SUBSET Services,
     at : 0..MaxClock,              \* when the window was checked
     status : {"none", "approved", "quarantined", "rejected"},
     decision : {"none", "approved", "rejected"}]

QuestionRecord ==
    [status : {"none", "pending_moderation", "published", "rejected"},
     service : Services,
     answeredBy : Moderators \cup {Nobody}]

-----------------------------------------------------------------------------
(* Reviews *)

\* The day on the organization's calendar.
LocalDay(t) == (t + Offset) \div DayLength

\* Mutant: the deadline counts full days from the moment of completion.
InHours(completedAt, now) == now <= completedAt + (ReviewDays + 1) * DayLength

\* The window closes at the end of the fourteenth local day after completion.
InWindow(completedAt, now) == LocalDay(now) <= LocalDay(completedAt) + ReviewDays

\* The order is read, with the settings before and the pictures after it (Media
\* models those); a refusal stores nothing.
Submit(s, o, flagged) ==
    /\ review[s].pc = "idle"
    /\ order[o].state = "completed"
    /\ InWindow(order[o].completedAt, clock)
    /\ review' = [review EXCEPT ![s].pc = "checked", ![s].order = o,
                                ![s].flagged = flagged, ![s].at = clock]
    /\ UNCHANGED <<clock, order, bundled, published, question, edits>>

\* The bundle is read as it is now, not as it was when it was ordered.
GatherServices(s) ==
    /\ review[s].pc = "checked"
    /\ review' = [review EXCEPT
         ![s].pc = "gathered",
         ![s].services = IF LineOf[review[s].order] = Bundle THEN bundled
                                                             ELSE {LineOf[review[s].order]}]
    /\ UNCHANGED <<clock, order, bundled, published, question, edits>>

StoredFor(o) == {r \in Reviewing : review[r].pc = "stored" /\ review[r].order = o}

\* Mutant: without the unique index the insert always succeeds.
Unindexed(s) == TRUE

\* uniq_review_per_order
IndexAllows(s) == StoredFor(review[s].order) = {}

\* containsSensitiveTerms looks for a term of the settings, between word boundaries.
StatusOf(flagged) == IF flagged THEN "quarantined" ELSE "approved"

\* Any other failure of the insert or of a read before it ends the same way.
InsertReview(s) ==
    /\ review[s].pc = "gathered" /\ IndexAllows(s)
    /\ review' = [review EXCEPT
         ![s].pc = "stored",
         ![s].status = StatusOf(review[s].flagged)]
    /\ UNCHANGED <<clock, order, bundled, published, question, edits>>

Refuse(s) ==
    /\ review[s].pc \in {"checked", "gathered"}
    /\ review' = [review EXCEPT ![s].pc = "refused"]
    /\ UNCHANGED <<clock, order, bundled, published, question, edits>>

\* approveReviewById and rejectReviewById look at nothing but the id: the last of two
\* moderators wins, whatever their queues showed.
Moderate(r, verdict) ==
    /\ review[r].pc = "stored"
    /\ edits < MaxEdits /\ edits' = edits + 1
    /\ review' = [review EXCEPT ![r].status = verdict, ![r].decision = verdict]
    /\ UNCHANGED <<clock, order, bundled, published, question>>

\* findServiceReviews
Shown(v) == {r \in Reviewing : /\ review[r].pc = "stored" /\ review[r].status = "approved"
                               /\ v \in review[r].services}

-----------------------------------------------------------------------------
(* Questions *)

\* createServiceQuestion finds the service published and inserts the question; that the
\* service may be withdrawn in between is one with its being withdrawn right after.
Ask(q, v) ==
    /\ question[q].status = "none"
    /\ v \in published
    /\ question' = [question EXCEPT ![q].status = "pending_moderation", ![q].service = v]
    /\ UNCHANGED <<clock, order, bundled, published, review, edits>>

\* Publishing and rejecting find the question by its id and write, whatever its status;
\* nothing removes a question in between.
PublishQuestion(q, m) ==
    /\ question[q].status # "none"
    /\ edits < MaxEdits /\ edits' = edits + 1
    /\ question' = [question EXCEPT ![q].status = "published", ![q].answeredBy = m]
    /\ UNCHANGED <<clock, order, bundled, published, review>>

RejectQuestion(q) ==
    /\ question[q].status # "none"
    /\ edits < MaxEdits /\ edits' = edits + 1
    /\ question' = [question EXCEPT ![q].status = "rejected"]
    /\ UNCHANGED <<clock, order, bundled, published, review>>

\* listServiceQuestions
Answered(v) == {q \in Questions : /\ v \in published /\ question[q].service = v
                                  /\ question[q].status = "published"}

-----------------------------------------------------------------------------
(* The rest of the system *)

\* completeOrderById: Booking models how an order gets there.
Complete(o) ==
    /\ order[o].state = "open"
    /\ order' = [order EXCEPT ![o].state = "completed", ![o].completedAt = clock]
    /\ UNCHANGED <<clock, bundled, published, review, question, edits>>

\* updateBundleById
EditBundle(ids) ==
    /\ ids # bundled
    /\ edits < MaxEdits /\ edits' = edits + 1
    /\ bundled' = ids
    /\ UNCHANGED <<clock, order, published, review, question>>

\* publishServiceById and unpublishServiceById
Toggle(v) ==
    /\ edits < MaxEdits /\ edits' = edits + 1
    /\ published' = IF v \in published THEN published \ {v} ELSE published \cup {v}
    /\ UNCHANGED <<clock, order, bundled, review, question>>

\* Mutant: the seeding sets every order back, not only its own.
ReopenedAll == [o \in Orders |-> [order[o] EXCEPT !.state = "open"]]

\* The fixtures' order is pending again; its completedAt stays.
Reopened == [order EXCEPT ![SeedOrder].state = "open"]

\* The process dies with its requests, and seedDatabase writes the fixtures over their
\* documents: what a moderator rejected of them is public again.
Restart ==
    /\ edits < MaxEdits /\ edits' = edits + 1
    /\ order' = Reopened
    /\ bundled' = SeedServices
    /\ published' = Services
    /\ review' = [r \in Reviewing |->
         IF r = SeedReview THEN [review[r] EXCEPT !.status = "approved"]
         ELSE IF review[r].pc \in {"checked", "gathered"} THEN [review[r] EXCEPT !.pc = "refused"]
         ELSE review[r]]
    /\ question' = [q \in Questions |->
         IF q = SeedQuestion
         THEN [question[q] EXCEPT !.status = "published", !.service = SeedService]
         ELSE question[q]]
    /\ UNCHANGED clock

Tick ==
    /\ clock < MaxClock
    /\ clock' = clock + 1
    /\ UNCHANGED <<order, bundled, published, review, question, edits>>

-----------------------------------------------------------------------------

NoReview == [pc |-> "idle", order |-> NoOrder, flagged |-> FALSE, services |-> {}, at |-> 0,
             status |-> "none", decision |-> "none"]

Init ==
    /\ clock = 0
    /\ order = [o \in Orders |-> [state |-> "open", completedAt |-> 0]]
    /\ bundled = SeedServices
    /\ published = Services
    /\ review = [r \in Reviewing |->
         IF r = SeedReview
         THEN [NoReview EXCEPT !.pc = "stored", !.order = SeedOrder,
                               !.services = {SeedService}, !.status = "approved"]
         ELSE NoReview]
    /\ \E m \in Moderators : question = [q \in Questions |->
         IF q = SeedQuestion
         THEN [status |-> "published", service |-> SeedService, answeredBy |-> m]
         ELSE [status |-> "none", service |-> SeedService, answeredBy |-> Nobody]]
    /\ edits = 0

Next ==
    \/ \E s \in Submissions :
         \/ \E o \in Orders, flagged \in BOOLEAN : Submit(s, o, flagged)
         \/ GatherServices(s)
         \/ InsertReview(s)
         \/ Refuse(s)
    \/ \E r \in Reviewing, verdict \in {"approved", "rejected"} : Moderate(r, verdict)
    \/ \E q \in Questions :
         \/ \E v \in Services : Ask(q, v)
         \/ \E m \in Moderators : PublishQuestion(q, m)
         \/ RejectQuestion(q)
    \/ \E o \in Orders : Complete(o)
    \/ \E ids \in SUBSET Services : EditBundle(ids)
    \/ \E v \in Services : Toggle(v)
    \/ Restart
    \/ Tick

Spec == Init /\ [][Next]_vars

-----------------------------------------------------------------------------
(* Properties *)

TypeOK ==
    /\ clock \in 0..MaxClock
    /\ order \in [Orders -> [state : {"open", "completed"}, completedAt : 0..MaxClock]]
    /\ bundled \subseteq Services /\ published \subseteq Services
    /\ review \in [Reviewing -> ReviewRecord]
    /\ question \in [Questions -> QuestionRecord]
    /\ edits \in 0..MaxEdits

\* What the page calls a verified review: besides the one of the fixtures it is the
\* only one of an order that is completed, was handed in less than ReviewDays + 1 days
\* after that, and is under the service the customer ordered.
Verified(r) ==
    LET done == order[review[r].order]  line == LineOf[review[r].order]
    IN  /\ StoredFor(review[r].order) = {r}
        /\ done.state = "completed"
        /\ review[r].at - done.completedAt < (ReviewDays + 1) * DayLength
        /\ line # Bundle => review[r].services = {line}

\* Requests for the same order, moderators with old queues, edits of the catalogue and
\* restarts that write the fixtures back never show an unverified review, a text with
\* a sensitive term that no moderator let through, or a question nobody answered.
OnlyVettedShows ==
    \A v \in Services :
        /\ \A r \in Shown(v) \ {SeedReview} :
             Verified(r) /\ (review[r].flagged => review[r].decision = "approved")
        /\ \A q \in Answered(v) : question[q].answeredBy \in Moderators
=============================================================================
