-------------------------------- MODULE Server --------------------------------
(***************************************************************************)
(* Five parts of the API in one process: the rate limit, the accounts, the  *)
(* reviews and questions, the inbox, and a customer's lists.  registerRoutes *)
(* puts a router before each of them, and their requests interleave; they   *)
(* share neither documents nor memory, so a step of one leaves the others   *)
(* alone.                                                                   *)
(***************************************************************************)
EXTENDS RateLimiter, FiniteSets, Sequences

\* Accounts: see there, as for those of the other parts
CONSTANTS
    Usernames, Seeded, Requests, LockoutThreshold, LoginWindow, RefreshTTL,
    MaxTokens, MaxEvents, NoName

\* Reviews and questions
CONSTANTS
    Services, Bundle, SeedServices, Orders, LineOf, SeedOrder, SeedReview, Submissions,
    Questions, SeedQuestion, SeedService, Moderators, ReviewDays, DayLength, Offset, MaxEdits,
    Nobody, NoOrder

\* The inbox
CONSTANTS Messages, SeedMessage, Users, Roles, RolesOf, SeedReaders

\* Favourites and the compare list; Wares are the services they may hold.
CONSTANTS Wares, Handlers, Lists, CompareLimit, NoService

ASSUME AccountsAssumption ==
    /\ LockoutThreshold \in Nat \ {0} /\ LoginWindow \in Nat \ {0} /\ RefreshTTL \in Nat
    /\ MaxTokens \in Nat /\ MaxEvents \in Nat
    /\ Seeded \subseteq Usernames /\ IsFiniteSet(Requests)

ASSUME ReviewsAssumption ==
    /\ Bundle \notin Services /\ LineOf \in [Orders -> Services \cup {Bundle}]
    /\ SeedServices \subseteq Services /\ SeedService \in Services
    /\ SeedOrder \in Orders /\ NoOrder \notin Orders /\ SeedReview \notin Submissions
    /\ SeedQuestion \in Questions /\ Nobody \notin Moderators
    /\ ReviewDays \in Nat /\ DayLength \in Nat \ {0} /\ Offset \in Int /\ MaxEdits \in Nat

ASSUME InboxAssumption == SeedMessage \in Messages /\ SeedReaders \subseteq Users

ASSUME ListsAssumption ==
    /\ Lists \subseteq Seq(Wares) /\ CompareLimit \in Nat /\ NoService \notin Wares

VARIABLES
    \* accounts
    now, users, attempt, token, req, broken, guesses, tried, counted, mixed, forked, ended,
    \* reviews and questions
    day, order, bundled, published, review, question, edits,
    \* the inbox
    hour, message, listed, starts,
    \* favourites and the compare list
    onSale, favorites, compareList, handler, shown, changes, lost, told, withdrawn

accountVars == <<now, users, attempt, token, req, broken, guesses, tried, counted, mixed,
                 forked, ended>>
reviewVars == <<day, order, bundled, published, review, question, edits>>
inboxVars == <<hour, message, listed, starts>>
listVars == <<onSale, favorites, compareList, handler, shown, changes, lost, told, withdrawn>>
serverVars == <<vars, accountVars, reviewVars, inboxVars, listVars>>

A == INSTANCE Accounts WITH clock <- now, faults <- broken
R == INSTANCE Reviews WITH clock <- day
I == INSTANCE Inbox WITH clock <- hour, restarts <- starts
F == INSTANCE Shortlist WITH Services <- Wares, edits <- changes, faults <- lost

-----------------------------------------------------------------------------
ServerInit == Init /\ A!Init /\ R!Init /\ I!Init /\ F!Init

\* One part moves.
LimiterMoves == Next /\ UNCHANGED <<accountVars, reviewVars, inboxVars, listVars>>
AccountsMove == A!Next /\ UNCHANGED <<vars, reviewVars, inboxVars, listVars>>
ReviewsMove == R!Next /\ UNCHANGED <<vars, accountVars, inboxVars, listVars>>
InboxMoves == I!Next /\ UNCHANGED <<vars, accountVars, reviewVars, listVars>>
ListsMove == F!Next /\ UNCHANGED <<vars, accountVars, reviewVars, inboxVars>>

ServerNext == LimiterMoves \/ AccountsMove \/ ReviewsMove \/ InboxMoves \/ ListsMove

ServerSpec == ServerInit /\ [][ServerNext]_serverVars

-----------------------------------------------------------------------------
(* Properties *)

AllTypesOK == TypeOK /\ A!TypeOK /\ R!TypeOK /\ I!TypeOK /\ F!TypeOK

\* What the parts promise: see there.
LockoutIsExact == A!LockoutIsExact
SessionsEnd == A!SessionsEnd
OnlyVettedShows == R!OnlyVettedShows
ReadsAreKept == I!ReadsAreKept
ListsAreHonest == F!ListsAreHonest
=============================================================================
