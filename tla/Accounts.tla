------------------------------ MODULE Accounts -------------------------------
(***************************************************************************)
(* Accounts of the HomeCareOps API: registration, login with its lock after *)
(* wrong passwords, refresh tokens and logout (authController.js,           *)
(* authService.js, usersRepository.js).  Requests overlap; each step ends   *)
(* at an await.                                                             *)
(***************************************************************************)
EXTENDS Integers, FiniteSets

CONSTANTS
    Usernames,      \* names that requests log in with
    Seeded,         \* those of them that the database has from the start
    Requests,       \* requests that may be in flight at once
    LockoutThreshold, LoginWindow,  \* LOCKOUT_THRESHOLD, LOGIN_WINDOW_MS in ticks
    RefreshTTL,     \* REFRESH_TOKEN_TTL, in ticks
    MaxClock,       \* bound: time
    MaxTokens,      \* bound: refresh tokens issued
    MaxEvents,      \* bound: refresh tokens issued and wrong passwords tried, together
    MaxFaults,      \* bound: requests that a failing call or a crash ends
    NoName

VARIABLES
    clock,
    users,      \* users: the names that are taken
    attempt,    \* login_attempts: by name
    token,      \* refresh_tokens: by number, in the order they were issued
    req,        \* requests
    faults,     \* count
    guesses,    \* history: wrong passwords compared; a guess has a number and a time
    tried,      \* history: of each name, the guesses compared since the last right password
    counted,    \* history: of each name, the guesses registered since the last right password
    mixed,      \* history: names whose attempts were written between a read and its write,
                \* or out of order
    forked,     \* history: first tokens of sessions that two refreshes renewed at once
    ended       \* history: first tokens of sessions that a logout ended

history == <<guesses, tried, counted, mixed, forked, ended>>
vars == <<clock, users, attempt, token, req, faults, history>>

-----------------------------------------------------------------------------
Guesses == [n : 1..MaxEvents, at : 0..MaxClock]
AttemptRecord == [failedAt : SUBSET Guesses, lockedUntil : Nat]
Tokens == 1..MaxTokens
\* first is the token that the login or registration issued, of which this one descends.
TokenRecord == [user : Usernames \cup {NoName}, expiresAt : Nat, revoked : BOOLEAN,
                first : 0..MaxTokens]
RequestRecord ==
    [pc : {"idle", "comparing", "failing", "writing", "clearing", "issuing", "rotating"},
     user : Usernames \cup {NoName}, right : BOOLEAN, guess : Guesses \cup {[n |-> 0, at |-> 0]},
     seen : SUBSET Guesses, token : 0..MaxTokens]

NoAttempt == [failedAt |-> {}, lockedUntil |-> 0]
NoToken == [user |-> NoName, expiresAt |-> 0, revoked |-> FALSE, first |-> 0]
Idle == [pc |-> "idle", user |-> NoName, right |-> FALSE, guess |-> [n |-> 0, at |-> 0],
         seen |-> {}, token |-> 0]

Issued == {t \in Tokens : token[t] # NoToken}
Live(t) == t \in Issued /\ ~token[t].revoked /\ token[t].expiresAt > clock

Ends(r) == req' = [req EXCEPT ![r] = Idle]
Goes(r, pc) == req' = [req EXCEPT ![r].pc = pc]

-----------------------------------------------------------------------------
(* Registration and login. *)

\* insertUser: the index on names refuses one that is taken, with 409.
Register(r, u) ==
    /\ req[r].pc = "idle" /\ u \notin users
    /\ users' = users \cup {u}
    /\ req' = [req EXCEPT ![r] = [Idle EXCEPT !.pc = "issuing", !.user = u]]
    /\ UNCHANGED <<clock, attempt, token, faults, history>>

\* verifyLoginAttemptWindow
Locked(u) == attempt[u].lockedUntil > clock

\* A login that the lock does not refuse, with a right or a wrong password.
LoginCheck(r, u, right) ==
    /\ req[r].pc = "idle" /\ ~Locked(u)
    /\ req' = [req EXCEPT ![r] = [Idle EXCEPT !.pc = "comparing", !.user = u, !.right = right]]
    /\ UNCHANGED <<clock, users, attempt, token, faults, history>>

\* authenticateCredentials; after a wrong password registerFailedAttempt takes the time.
Compare(r) ==
    LET u == req[r].user
        guess == [n |-> Cardinality(guesses) + 1, at |-> clock]
    IN  /\ req[r].pc = "comparing"
        /\ IF req[r].right /\ u \in users
           THEN Goes(r, "clearing") /\ UNCHANGED <<guesses, tried>>
           ELSE /\ Cardinality(guesses) + Cardinality(Issued) < MaxEvents
                /\ guesses' = guesses \cup {guess}
                /\ tried' = [tried EXCEPT ![u] = @ \cup {guess}]
                /\ req' = [req EXCEPT ![r] = [@ EXCEPT !.pc = "failing", !.guess = guess]]
        /\ UNCHANGED <<clock, users, attempt, token, faults, counted, mixed, forked, ended>>

\* Mutant: failures never grow old.
RecentAll(entries, now) == entries
\* The failures of the window that ends now.
Recent(entries, now) == {g \in entries : g.at >= now - LoginWindow}

\* registerFailedAttempt: getLoginAttempt and the filter.
FailRead(r) ==
    /\ req[r].pc = "failing"
    /\ req' = [req EXCEPT ![r] = [@ EXCEPT !.pc = "writing",
                    !.seen = Recent(attempt[req[r].user].failedAt, req[r].guess.at)]]
    /\ UNCHANGED <<clock, users, attempt, token, faults, history>>

\* What registerFailedAttempt writes.
Extended(seen, guess) ==
    [failedAt |-> seen \cup {guess},
     lockedUntil |-> IF Cardinality(seen \cup {guess}) >= LockoutThreshold
                     THEN guess.at + LoginWindow ELSE 0]

\* Another request read the attempts of u and has not written them, or has an older
\* failure to register.
MixedNow(r, u) ==
    IF \E q \in Requests \ {r} : /\ req[q].user = u
                                /\ \/ req[q].pc = "writing"
                                   \/ req[q].pc = "failing" /\ req[q].guess.at < req[r].guess.at
    THEN mixed \cup {u} ELSE mixed

\* upsertLoginAttempt, over what is there now.  The answer is 423 or 401.
FailWrite(r) ==
    LET u == req[r].user
    IN  /\ req[r].pc = "writing"
        /\ attempt' = [attempt EXCEPT ![u] = Extended(req[r].seen, req[r].guess)]
        /\ counted' = [counted EXCEPT ![u] = @ \cup {req[r].guess}]
        /\ mixed' = MixedNow(r, u)
        /\ Ends(r)
        /\ UNCHANGED <<clock, users, token, faults, guesses, tried, forked, ended>>

\* clearFailedAttempts
Clear(r) ==
    LET u == req[r].user
    IN  /\ req[r].pc = "clearing"
        /\ attempt' = [attempt EXCEPT ![u] = NoAttempt]
        /\ counted' = [counted EXCEPT ![u] = {}]
        /\ tried' = [tried EXCEPT ![u] = {}]
        /\ mixed' = MixedNow(r, u)
        /\ Goes(r, "issuing")
        /\ UNCHANGED <<clock, users, token, faults, guesses, forked, ended>>

\* issueAuthTokens: the new token is stored.  A refresh continues the session of req[r].token.
Issue(r) ==
    LET t == Cardinality(Issued) + 1
    IN  /\ req[r].pc = "issuing" /\ t \in Tokens
        /\ Cardinality(guesses) + Cardinality(Issued) < MaxEvents
        /\ token' = [token EXCEPT ![t] =
              [user |-> req[r].user, expiresAt |-> clock + RefreshTTL, revoked |-> FALSE,
               first |-> IF req[r].token = 0 THEN t ELSE token[req[r].token].first]]
        /\ Ends(r)
        /\ UNCHANGED <<clock, users, attempt, faults, history>>

-----------------------------------------------------------------------------
(* Refresh and logout. *)

Rotating(t) == {q \in Requests : req[q].pc = "rotating" /\ req[q].token = t}

\* rotateRefreshToken: the token is found, not revoked and not expired, and its user.
RefreshFind(r, t) ==
    /\ req[r].pc = "idle" /\ Live(t) /\ token[t].user \in users
    /\ req' = [req EXCEPT ![r] =
         [Idle EXCEPT !.pc = "rotating", !.user = token[t].user, !.token = t]]
    /\ forked' = IF Rotating(t) # {} THEN forked \cup {token[t].first} ELSE forked
    /\ UNCHANGED <<clock, users, attempt, token, faults, guesses, tried, counted, mixed, ended>>

\* Mutant: a refresh leaves its token good.
RevokedNot(t) == token
\* revokeRefreshTokenByHash: whether it is revoked already or not.
Revoked(t) == [token EXCEPT ![t].revoked = TRUE]

RotateRevoke(r) ==
    /\ req[r].pc = "rotating"
    /\ token' = Revoked(req[r].token)
    /\ Goes(r, "issuing")
    /\ UNCHANGED <<clock, users, attempt, faults, history>>

\* A logout with the newest token of its session, no refresh being under way, ends it.
Logout(r, t) ==
    LET first == token[t].first
    IN  /\ req[r].pc = "idle" /\ t \in Issued
        /\ token' = Revoked(t)
        /\ ended' = IF /\ \A s \in Issued : token[s].first = first => s <= t
                       /\ \A q \in Requests : req[q].token # 0 => token[req[q].token].first # first
                       /\ first \notin forked
                    THEN ended \cup {first} ELSE ended
        /\ UNCHANGED <<clock, users, attempt, req, faults, guesses, tried, counted, mixed, forked>>

-----------------------------------------------------------------------------
\* A call fails or the process dies: the request goes no further.
Dies(r) ==
    /\ req[r].pc # "idle" /\ faults < MaxFaults
    /\ faults' = faults + 1
    /\ Ends(r)
    /\ UNCHANGED <<clock, users, attempt, token, history>>

Tick ==
    /\ clock < MaxClock
    /\ clock' = clock + 1
    /\ UNCHANGED <<users, attempt, token, req, faults, history>>

Init ==
    /\ clock = 0 /\ faults = 0
    /\ users = Seeded
    /\ attempt = [u \in Usernames |-> NoAttempt]
    /\ token = [t \in Tokens |-> NoToken]
    /\ req = [r \in Requests |-> Idle]
    /\ guesses = {} /\ tried = [u \in Usernames |-> {}] /\ counted = [u \in Usernames |-> {}]
    /\ mixed = {} /\ forked = {} /\ ended = {}

Next ==
    \/ \E r \in Requests, u \in Usernames : Register(r, u)
    \/ \E r \in Requests, u \in Usernames, right \in BOOLEAN : LoginCheck(r, u, right)
    \/ \E r \in Requests :
        \/ Compare(r) \/ FailRead(r) \/ FailWrite(r) \/ Clear(r)
        \/ Issue(r) \/ RotateRevoke(r) \/ Dies(r)
    \/ \E r \in Requests, t \in Tokens : RefreshFind(r, t) \/ Logout(r, t)
    \/ Tick

Spec == Init /\ [][Next]_vars

-----------------------------------------------------------------------------
TypeOK ==
    /\ clock \in 0..MaxClock /\ faults \in Nat
    /\ users \in SUBSET Usernames /\ attempt \in [Usernames -> AttemptRecord]
    /\ token \in [Tokens -> TokenRecord] /\ req \in [Requests -> RequestRecord]
    /\ guesses \in SUBSET Guesses
    /\ tried \in [Usernames -> SUBSET Guesses] /\ counted \in [Usernames -> SUBSET Guesses]
    /\ mixed \in SUBSET Usernames /\ forked \in SUBSET Tokens /\ ended \in SUBSET Tokens

\* Nobody is locked out who has not failed LockoutThreshold times within one window
\* (authService.js 192): what is older does not count, however requests overlap.
LockIsEarned ==
    \A u \in Usernames : attempt[u].lockedUntil # 0 =>
        LET at == attempt[u].lockedUntil - LoginWindow
        IN  Cardinality({g \in guesses : g.at >= at - LoginWindow}) >= LockoutThreshold

\* Failures that do not overlap in the database all count towards the lock
\* (authService.js 183), and a right password forgives those before it.
FailuresAllCount ==
    \A u \in Usernames \ mixed :
        /\ {g \in counted[u] : g.at >= clock - LoginWindow} \subseteq attempt[u].failedAt
        /\ attempt[u].failedAt \subseteq counted[u]

\* Between right passwords, no more wrong ones are compared in a window than the threshold, one
\* for each other request in flight and one for each that died (authController.js 58):
\* the lock is looked at once per login, before the comparison.
GuessesAreFew ==
    mixed = {} => \A u \in Usernames :
        Cardinality({g \in tried[u] : g.at > clock - LoginWindow})
            <= LockoutThreshold + Cardinality(Requests) - 1 + faults

\* A session has one token at a time that can be refreshed (authService.js 269), unless
\* two refreshes found the same token before either revoked it.
OneLiveToken ==
    \A f \in Issued \ forked : Cardinality({t \in Issued : token[t].first = f /\ Live(t)}) <= 1

\* A session that was ended stays so (authController.js 160): neither its last token nor
\* one it had before is good for another.
LogoutEnds == \A t \in Issued : token[t].first \in ended => ~Live(t)

\* Nobody is locked out for less, and nobody gets to guess for longer, than the threshold
\* says, up to what requests that overlap or die are good for.
LockoutIsExact == LockIsEarned /\ FailuresAllCount /\ GuessesAreFew

\* A session has one token to go on with, and none once it was ended.
SessionsEnd == OneLiveToken /\ LogoutEnds
=============================================================================
