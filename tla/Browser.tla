------------------------------- MODULE Browser -------------------------------
(***************************************************************************)
(* A page of the HomeCareOps frontend and its session (client.ts,           *)
(* useAuth.tsx), with what the API answers (authController.js, the          *)
(* middleware).  Every answer 401 makes the page refresh its session, and a *)
(* refresh that fails makes it log out; calls overlap, and each carries the *)
(* cookies there were when it was sent.  The page's user is one person.     *)
(***************************************************************************)
EXTENDS Integers, Bags, FiniteSets

CONSTANTS
    Limit,          \* the rate limit of a window, of visitors and of members
    MaxTokens,      \* bound: refresh tokens that are live or held at once
    MaxClicks,      \* bound: what the user does
    MaxCalls,       \* bound: the calls and lost answers at the end of a window in which the
                    \* page waits
    MaxFaults       \* bound: answers that get lost

ASSUME BrowserAssumption ==
    /\ Limit \in Nat /\ MaxTokens \in Nat \ {0}
    /\ MaxClicks \in Nat /\ MaxCalls \in Nat /\ MaxFaults \in Nat

VARIABLES
    user,       \* whether the page shows its user as signed in
    jar,        \* cookies: a valid access token or not, the refresh token or 0
    live,       \* the refresh tokens that can be refreshed
    count,      \* requests counted in this window, with and without a session
    calls,      \* calls of the page that are not over, a bag
    clicks, faults, \* counts
    raced,      \* history: two refreshes with one token, or a refresh and a login, at once
    limited,    \* history: a call was answered with 429
    crossed,    \* history: a logout was in flight together with what signs the user in
    left,       \* history: and it was the user who asked for the logout
    killed      \* history: a logout the user did not ask for ended a session

server == <<live, count>>
counts == <<clicks, faults>>
history == <<raced, limited, crossed, left, killed>>
vars == <<user, jar, server, calls, counts, history>>

-----------------------------------------------------------------------------
\* by is who waits for the answer: bootstrap, the 401 hook, the user's login or click.  access
\* and token are the cookies it was sent with, fresh is the token that the answer brings.
CallRecord ==
    [pc : {"sent", "rotating", "answered"}, kind : {"refresh", "me", "login", "logout", "data"},
     by : {"bootstrap", "hook", "login", "user"},
     access : BOOLEAN, token : 0..MaxTokens, fresh : 0..MaxTokens, status : {0, 200, 401, 429, 500}]

NoCookies == [access |-> FALSE, token |-> 0]

\* A call with the cookies of the jar.
New(kind, by, cookies) ==
    [pc |-> "sent", kind |-> kind, by |-> by, access |-> cookies.access, token |-> cookies.token,
     fresh |-> 0, status |-> 0]

Sent(kind, by, cookies) == SetToBag({New(kind, by, cookies)})

InFlight == BagToSet(calls)

\* What is under way at once when the calls are those in bag.
Races(bag) == \E c, d \in BagToSet(bag) :
    /\ c # d \/ bag[c] > 1
    /\ c.kind = "refresh"
    /\ d.by = "login" \/ (d.kind = "refresh" /\ d.token = c.token)
Crosses(bag, by) == \E c, d \in BagToSet(bag) :
    c.kind = "logout" /\ c.by \in by /\ d.kind \in {"me", "refresh", "login"}

\* The call c is over and those in new are sent.
Sends(c, new) ==
    LET bag == (calls (-) SetToBag({c})) (+) new
    IN  /\ calls' = bag
        /\ raced' = (raced \/ Races(bag))
        /\ crossed' = (crossed \/ Crosses(bag, {"hook", "user"}))
        /\ left' = (left \/ Crosses(bag, {"user"}))

-----------------------------------------------------------------------------
(* The user. *)

\* The user makes the page send a call.  At a page at rest the history begins anew.
Click(kind, by) ==
    LET bag == calls (+) Sent(kind, by, jar)
        rests == calls = EmptyBag
    IN  /\ clicks < MaxClicks /\ clicks' = clicks + 1
        /\ calls' = bag
        /\ raced' = ((raced /\ ~rests) \/ Races(bag))
        /\ crossed' = ((crossed /\ ~(rests /\ ~user)) \/ Crosses(bag, {"hook", "user"}))
        /\ left' = ((left /\ ~rests) \/ Crosses(bag, {"user"}))
        /\ limited' = (limited /\ ~rests) /\ killed' = (killed /\ ~rests)
        /\ UNCHANGED <<user, jar, server, faults>>

\* A part of the page asks for the user's data, maybe several at once.
Ask == user /\ Click("data", "user")
LogIn == ~user /\ Click("login", "login")
LogOut == user /\ Click("logout", "user")

\* The access token's fifteen minutes are over.
AccessExpires ==
    /\ jar.access /\ clicks < MaxClicks
    /\ jar' = [jar EXCEPT !.access = FALSE]
    /\ clicks' = clicks + 1
    /\ UNCHANGED <<user, server, calls, faults, history>>

\* A minute is over: both keys are counted from zero.  It happens again and again.
NextWindow ==
    /\ calls = EmptyBag \/ (clicks > 0 /\ BagCardinality(calls) + faults <= MaxCalls)
    /\ count' = [a \in BOOLEAN |-> 0]
    /\ UNCHANGED <<user, jar, live, calls, counts, history>>

-----------------------------------------------------------------------------
(* The API. *)

Becomes(c, d) == calls' = (calls (-) SetToBag({c})) (+) SetToBag({d})

Answers(c, status) == Becomes(c, [c EXCEPT !.pc = "answered", !.status = status])

\* Tokens that nobody has: the numbers of those that are gone are used again.
Free == {t \in 1..MaxTokens \ live :
           t # jar.token /\ \A c \in InFlight : t \notin {c.token, c.fresh}}
NewToken == CHOOSE t \in Free : TRUE

\* The answer brings the cookies of a new token t.
Issues(c, t) ==
    /\ t \in Free
    /\ Becomes(c, [c EXCEPT !.pc = "answered", !.status = 200, !.fresh = t])

\* me and data need a session: the route authorizer refuses others before they are counted.
Refuse(c) ==
    /\ c.pc = "sent" /\ c.kind \in {"me", "data"} /\ ~c.access
    /\ Answers(c, 401)
    /\ UNCHANGED <<user, jar, server, counts, history>>

\* What the rate limit lets through: count is that of the request's key.
Allowed(c) == count[c.access] < Limit
\* Mutant: who is over the limit is asked to sign in.
OverLimitUnauthorized == 401
OverLimit == 429

Turn(c) ==
    /\ c.pc = "sent" /\ ~Allowed(c)
    /\ c.kind \in {"me", "data"} => c.access
    /\ Answers(c, OverLimit)
    /\ limited' = TRUE
    /\ UNCHANGED <<user, jar, server, counts, raced, crossed, left, killed>>

\* A request that is counted and handled at once.  Cookies come with the answer.
Counted(c) ==
    /\ c.pc = "sent" /\ Allowed(c)
    /\ count' = [count EXCEPT ![c.access] = @ + 1]
    /\ UNCHANGED <<user, jar, counts, raced, limited, crossed, left>>

Serve(c) ==
    /\ Counted(c) /\ c.kind \in {"me", "data"} /\ c.access
    /\ Answers(c, 200)
    /\ UNCHANGED <<live, killed>>

\* login with a right or a wrong password: the token is the answer's cookie.
ServeLogin(c, right) ==
    /\ Counted(c) /\ c.kind = "login"
    /\ IF right THEN LET t == NewToken IN live' = live \cup {t} /\ Issues(c, t)
       ELSE Answers(c, 401) /\ UNCHANGED live
    /\ UNCHANGED killed

\* logout: it revokes the token of the request's cookie.
ServeLogout(c) ==
    /\ Counted(c) /\ c.kind = "logout"
    /\ live' = live \ {c.token}
    /\ killed' = (killed \/ (c.by = "hook" /\ c.token \in live))
    /\ Answers(c, 200)

\* refresh: the token is looked up, then revoked and replaced.
ServeRefresh(c) ==
    /\ Counted(c) /\ c.kind = "refresh"
    /\ IF c.token \in live
       THEN Becomes(c, [c EXCEPT !.pc = "rotating"])
       ELSE Answers(c, 401)
    /\ UNCHANGED <<live, killed>>

Rotate(c) ==
    /\ c.pc = "rotating"
    /\ LET t == NewToken IN live' = (live \ {c.token}) \cup {t} /\ Issues(c, t)
    /\ UNCHANGED <<user, jar, count, counts, history>>

\* The answer does not reach the page, or the API fails after the call: no cookie comes.
Lose(c) ==
    /\ c.pc = "answered" /\ c.status = 200 /\ faults < MaxFaults
    /\ faults' = faults + 1
    /\ Answers(c, 500)
    /\ UNCHANGED <<user, jar, server, clicks, history>>

-----------------------------------------------------------------------------
(* The page gets an answer. *)

\* Mutant: a 401 ends the session without an attempt to refresh it.
HooksAtOnce(status) == IF status = 401 THEN Sent("logout", "hook", jar) ELSE EmptyBag
\* request: the hook of client.ts refreshes the session after any 401.
Hooks(status) == IF status = 401 THEN Sent("refresh", "hook", jar) ELSE EmptyBag

\* refresh returns false: the 401 hook logs out.
Gives(by) == IF by = "hook" THEN Sent("logout", "hook", jar) ELSE EmptyBag

\* refresh and loadMe in it.
AfterRefresh(c) ==
    LET cookies == [access |-> TRUE, token |-> c.fresh]
    IN  /\ c.pc = "answered" /\ c.kind = "refresh"
        /\ IF c.status = 200
           THEN jar' = cookies /\ Sends(c, Sent("me", c.by, cookies)) /\ UNCHANGED user
           ELSE user' = FALSE /\ Sends(c, Hooks(c.status) (+) Gives(c.by)) /\ UNCHANGED jar
        /\ UNCHANGED <<server, counts, limited, killed>>

\* loadMe: a failure is caught in refresh, and shown by the login form.
AfterMe(c) ==
    /\ c.pc = "answered" /\ c.kind = "me"
    /\ IF c.status = 200 THEN user' = TRUE /\ Sends(c, EmptyBag)
       ELSE /\ user' = (user /\ c.by = "login")
            /\ Sends(c, Hooks(c.status) (+) Gives(c.by))
    /\ UNCHANGED <<jar, server, counts, limited, killed>>

AfterLogin(c) ==
    LET cookies == [access |-> TRUE, token |-> c.fresh]
    IN  /\ c.pc = "answered" /\ c.kind = "login"
        /\ IF c.status = 200
           THEN jar' = cookies /\ Sends(c, Sent("me", "login", cookies))
           ELSE Sends(c, Hooks(c.status)) /\ UNCHANGED jar
        /\ UNCHANGED <<user, server, counts, limited, killed>>

\* logout: the user is signed out whatever the answer; cookies are cleared by it.
AfterLogout(c) ==
    /\ c.pc = "answered" /\ c.kind = "logout"
    /\ user' = FALSE
    /\ jar' = IF c.status = 200 THEN NoCookies ELSE jar
    /\ Sends(c, EmptyBag)
    /\ UNCHANGED <<server, counts, limited, killed>>

AfterData(c) ==
    /\ c.pc = "answered" /\ c.kind = "data"
    /\ Sends(c, Hooks(c.status))
    /\ UNCHANGED <<user, jar, server, counts, limited, killed>>

\* The page is loaded, with the cookies of an earlier visit or none: bootstrap refreshes.
Init ==
    /\ user = FALSE
    /\ jar \in [access : BOOLEAN, token : {0, 1}] /\ (jar.access => jar.token = 1)
    /\ live \in SUBSET {1}
    /\ count = [a \in BOOLEAN |-> 0]
    /\ calls = Sent("refresh", "bootstrap", jar)
    /\ clicks = 0 /\ faults = 0
    /\ raced = FALSE /\ limited = FALSE /\ crossed = FALSE /\ left = FALSE /\ killed = FALSE

\* What the API and the page do about a call.
Handle(c) ==
    \/ Refuse(c) \/ Turn(c) \/ Serve(c) \/ \E right \in BOOLEAN : ServeLogin(c, right)
    \/ ServeLogout(c) \/ ServeRefresh(c) \/ Rotate(c)
    \/ AfterRefresh(c) \/ AfterMe(c) \/ AfterLogin(c) \/ AfterLogout(c) \/ AfterData(c)

Next ==
    \/ \E c \in InFlight : Lose(c) \/ Handle(c)
    \/ Ask \/ LogIn \/ LogOut
    \/ AccessExpires
    \/ NextWindow

Spec == Init /\ [][Next]_vars

\* The API answers and the page goes on; the user owes nothing.
FairSpec == Spec /\ WF_vars(\E c \in InFlight : Handle(c))

-----------------------------------------------------------------------------
Quiet == InFlight = {}

TypeOK ==
    /\ user \in BOOLEAN /\ jar \in [access : BOOLEAN, token : 0..MaxTokens]
    /\ live \in SUBSET (1..MaxTokens) /\ count \in [BOOLEAN -> 0..Limit]
    /\ IsABag(calls) /\ InFlight \subseteq CallRecord
    /\ clicks \in Nat /\ faults \in Nat
    /\ {raced, limited, crossed, left, killed} \subseteq BOOLEAN

\* Without a session every refresh is answered 401 and makes another refresh and a logout
\* (useAuth.tsx 76), until the rate limit answers 429, which the hook of client.ts 125 leaves
\* alone.  So a page comes to rest in a window that lasts for as many calls as the limit
\* allows; where every window ends before that, only a page that shows no user and has no
\* session to refresh goes on.
PageComesToRest ==
    /\ <>[][~NextWindow]_vars => <>[]Quiet
    /\ <>[]Quiet \/ <>[](~user /\ jar.token \notin live)

\* The page ends a session that its user did not leave (useAuth.tsx 80) only if two
\* refreshes carried the same token or one met a login, if the rate limit or a lost
\* answer made one fail, or if the user's own logout met a refresh.
SessionNotThrownAway == killed => raced \/ limited \/ left \/ faults > 0

\* A page at rest shows its user as signed in only with a session (useAuth.tsx 42),
\* unless a logout and what signs the user in were under way at once.
SignedInHasSession == Quiet /\ user /\ ~crossed => jar.token \in live

\* The page's word is good: it neither drops a session that could go on nor shows one
\* that is gone.
SessionIsHonest == SessionNotThrownAway /\ SignedInHasSession
=============================================================================
