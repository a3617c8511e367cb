----------------------------- MODULE PagesProofs ------------------------------
(***************************************************************************)
(* What a customer's pages promise, proved for every rate limit, every       *)
(* catalogue and every calendar.  The three parts share no state: each has   *)
(* an invariant of its own, which the steps of the others leave alone.       *)
(***************************************************************************)
EXTENDS Pages, FiniteSetTheorems, WellFoundedInduction, TLAPS

-----------------------------------------------------------------------------
(* The calls of a page *)

\* One call is over and others are sent: what is in flight afterwards (request).
LEMMA AfterSending ==
    ASSUME IsABag(calls), NEW c \in InFlight, NEW new, IsABag(new),
           calls' = (calls (-) SetToBag({c})) (+) new
    PROVE  /\ IsABag(calls')
           /\ InFlight' \subseteq InFlight \cup DOMAIN new
           /\ DOMAIN new \subseteq InFlight' /\ InFlight \ {c} \subseteq InFlight'
           /\ calls[c] = 1 /\ c \notin DOMAIN new => c \notin InFlight'
           /\ \A e \in InFlight : e # c /\ e \notin DOMAIN new => calls'[e] = calls[e]
           /\ \A e \in DOMAIN new : e \notin InFlight => calls'[e] = new[e]
<1> DEFINE rest == calls (-) SetToBag({c})
<1>1. /\ DOMAIN rest = {e \in InFlight : e # c \/ calls[c] > 1}
      /\ \A e \in DOMAIN rest : rest[e] = IF e = c THEN calls[c] - 1 ELSE calls[e]
  BY DEF \ominus, SetToBag, InFlight, BagToSet, IsABag
<1>2. /\ DOMAIN calls' = DOMAIN rest \cup DOMAIN new
      /\ \A e \in DOMAIN calls' :
           calls'[e] = (IF e \in DOMAIN rest THEN rest[e] ELSE 0)
                         + (IF e \in DOMAIN new THEN new[e] ELSE 0)
      /\ calls' = [e \in DOMAIN calls' |-> calls'[e]]
  BY DEF \oplus
<1>3. /\ \A e \in InFlight : calls[e] \in Nat /\ calls[e] > 0
      /\ \A e \in DOMAIN new : new[e] \in Nat /\ new[e] > 0
  BY DEF IsABag, InFlight, BagToSet
<1> HIDE DEF rest
<1>4. \A e \in DOMAIN rest : rest[e] \in Nat /\ rest[e] > 0
  BY <1>1, <1>3
<1>5. \A e \in DOMAIN calls' : calls'[e] \in Nat /\ calls'[e] > 0
  BY <1>2, <1>3, <1>4
<1>6. IsABag(calls')
  BY <1>2, <1>5 DEF IsABag
<1>7. InFlight' = DOMAIN calls'
  BY DEF InFlight, BagToSet
<1>8. /\ InFlight' \subseteq InFlight \cup DOMAIN new
      /\ DOMAIN new \subseteq InFlight' /\ InFlight \ {c} \subseteq InFlight'
      /\ calls[c] = 1 /\ c \notin DOMAIN new => c \notin InFlight'
  BY <1>1, <1>2, <1>7
<1>9. \A e \in InFlight : e # c /\ e \notin DOMAIN new => calls'[e] = calls[e]
  <2> SUFFICES ASSUME NEW e \in InFlight, e # c, e \notin DOMAIN new PROVE calls'[e] = calls[e]
    OBVIOUS
  <2>1. e \in DOMAIN rest /\ rest[e] = calls[e] /\ calls[e] \in Nat
    BY <1>1, <1>3
  <2>2. calls'[e] = rest[e] + 0
    BY <1>2, <2>1
  <2> QED BY <2>1, <2>2
<1>10. \A e \in DOMAIN new : e \notin InFlight => calls'[e] = new[e]
  BY <1>1, <1>2, <1>3
<1> QED BY <1>6, <1>8, <1>9, <1>10

\* One more call (request).
LEMMA AfterClick ==
    ASSUME IsABag(calls), NEW d, calls' = calls (+) SetToBag({d})
    PROVE  /\ IsABag(calls')
           /\ InFlight' = InFlight \cup {d}
           /\ \A e \in InFlight : e # d => calls'[e] = calls[e]
           /\ d \notin InFlight => calls'[d] = 1
<1>1. /\ DOMAIN calls' = DOMAIN calls \cup {d}
      /\ \A e \in DOMAIN calls' :
           calls'[e] = (IF e \in DOMAIN calls THEN calls[e] ELSE 0) + (IF e = d THEN 1 ELSE 0)
      /\ calls' = [e \in DOMAIN calls' |-> calls'[e]]
  BY DEF \oplus, SetToBag
<1>2. \A e \in DOMAIN calls : calls[e] \in Nat /\ calls[e] > 0
  BY DEF IsABag
<1>3. \A e \in DOMAIN calls' : calls'[e] \in Nat /\ calls'[e] > 0
  BY <1>1, <1>2
<1>4. IsABag(calls')
  BY <1>1, <1>3 DEF IsABag
<1> QED BY <1>1, <1>2, <1>4 DEF InFlight, BagToSet

\* What can be sent: nothing, one call or two.
LEMMA SendingIsABag ==
    /\ IsABag(EmptyBag) /\ DOMAIN EmptyBag = {}
    /\ \A d : IsABag(SetToBag({d})) /\ DOMAIN SetToBag({d}) = {d} /\ SetToBag({d})[d] = 1
    /\ \A a, b : IsABag(a) /\ IsABag(b) =>
         IsABag(a (+) b) /\ DOMAIN (a (+) b) = DOMAIN a \cup DOMAIN b
<1>1. IsABag(EmptyBag) /\ DOMAIN EmptyBag = {}
  BY DEF IsABag, EmptyBag, SetToBag
<1>2. ASSUME NEW d PROVE IsABag(SetToBag({d})) /\ DOMAIN SetToBag({d}) = {d} /\ SetToBag({d})[d] = 1
  BY DEF IsABag, SetToBag
<1>3. ASSUME NEW a, NEW b, IsABag(a), IsABag(b)
      PROVE  IsABag(a (+) b) /\ DOMAIN (a (+) b) = DOMAIN a \cup DOMAIN b
  BY <1>3 DEF IsABag, \oplus
<1> QED BY <1>1, <1>2, <1>3

\* The call c goes on as d.
LEMMA AfterBecoming ==
    ASSUME IsABag(calls), NEW c \in InFlight, NEW d, Becomes(c, d)
    PROVE  /\ IsABag(calls')
           /\ InFlight' \subseteq InFlight \cup {d}
           /\ d \in InFlight' /\ InFlight \ {c} \subseteq InFlight'
           /\ calls[c] = 1 /\ c # d => c \notin InFlight'
           /\ \A e \in InFlight : e # c /\ e # d => calls'[e] = calls[e]
           /\ d \notin InFlight => calls'[d] = 1
<1>1. IsABag(SetToBag({d})) /\ DOMAIN SetToBag({d}) = {d} /\ SetToBag({d})[d] = 1
  BY SendingIsABag
<1>2. calls' = (calls (-) SetToBag({c})) (+) SetToBag({d})
  BY DEF Becomes
<1> DEFINE new == SetToBag({d})
<1> HIDE DEF new
<1>4. IsABag(new) /\ DOMAIN new = {d} /\ new[d] = 1
  BY <1>1 DEF new
<1>5. calls' = (calls (-) SetToBag({c})) (+) new
  BY <1>2 DEF new
<1> QED BY <1>4, <1>5, AfterSending

\* A new call: its fields, and its type.
LEMMA NewCall ==
    ASSUME NEW kind \in {"refresh", "me", "login", "logout", "data"},
           NEW by \in {"bootstrap", "hook", "login", "user"},
           NEW cookies \in [access : BOOLEAN, token : 0..MaxTokens]
    PROVE  LET d == New(kind, by, cookies) IN
           /\ d \in CallRecord
           /\ d.pc = "sent" /\ d.kind = kind /\ d.by = by /\ d.access = cookies.access
           /\ d.token = cookies.token /\ d.fresh = 0 /\ d.status = 0
<1>1. 0 \in 0..MaxTokens
  BY BrowserAssumption
<1> QED BY <1>1 DEF New, CallRecord

\* A call that goes on, with or without a status and a token, keeps what it was sent with.
Moved(c, p) == [c EXCEPT !.pc = p]
Marked(c, p, s) == [c EXCEPT !.pc = p, !.status = s]
Paid(c, p, s, t) == [c EXCEPT !.pc = p, !.status = s, !.fresh = t]

Keeps(c, d) == d.kind = c.kind /\ d.by = c.by /\ d.access = c.access /\ d.token = c.token

LEMMA MovedKeeps ==
    \A c \in CallRecord : \A p \in {"sent", "rotating", "answered"} :
      /\ Moved(c, p) \in CallRecord /\ Keeps(c, Moved(c, p)) /\ Moved(c, p).pc = p
      /\ Moved(c, p).status = c.status /\ Moved(c, p).fresh = c.fresh
BY DEF CallRecord, Moved, Keeps

LEMMA MarkedKeeps ==
    \A c \in CallRecord : \A p \in {"sent", "rotating", "answered"} :
    \A s \in {0, 200, 401, 429, 500} :
      /\ Marked(c, p, s) \in CallRecord /\ Keeps(c, Marked(c, p, s)) /\ Marked(c, p, s).pc = p
      /\ Marked(c, p, s).status = s /\ Marked(c, p, s).fresh = c.fresh
<1> SUFFICES ASSUME NEW c \in CallRecord, NEW p \in {"sent", "rotating", "answered"},
                    NEW s \in {0, 200, 401, 429, 500}
             PROVE  /\ Marked(c, p, s) \in CallRecord /\ Keeps(c, Marked(c, p, s))
                    /\ Marked(c, p, s).pc = p
                    /\ Marked(c, p, s).status = s /\ Marked(c, p, s).fresh = c.fresh
  OBVIOUS
<1>1. Marked(c, p, s) = [Moved(c, p) EXCEPT !.status = s]
  BY DEF CallRecord, Marked, Moved
<1>2. \A d \in CallRecord : [d EXCEPT !.status = s] \in CallRecord
  BY DEF CallRecord
<1>3. Moved(c, p) \in CallRecord
  BY MovedKeeps
<1>4. Keeps(c, Marked(c, p, s)) /\ Marked(c, p, s).pc = p
      /\ Marked(c, p, s).status = s /\ Marked(c, p, s).fresh = c.fresh
  BY DEF CallRecord, Marked, Keeps
<1> QED BY <1>1, <1>2, <1>3, <1>4

LEMMA PaidKeeps ==
    \A c \in CallRecord : \A p \in {"sent", "rotating", "answered"} :
    \A s \in {0, 200, 401, 429, 500} : \A t \in 0..MaxTokens :
      /\ Paid(c, p, s, t) \in CallRecord /\ Keeps(c, Paid(c, p, s, t)) /\ Paid(c, p, s, t).pc = p
      /\ Paid(c, p, s, t).status = s /\ Paid(c, p, s, t).fresh = t
<1> TAKE c \in CallRecord
<1> TAKE p \in {"sent", "rotating", "answered"}
<1> TAKE s \in {0, 200, 401, 429, 500}
<1> TAKE t \in 0..MaxTokens
<1>1. Paid(c, p, s, t) = [Marked(c, p, s) EXCEPT !.fresh = t]
  BY DEF CallRecord, Paid, Marked
<1>2. \A d \in CallRecord : [d EXCEPT !.fresh = t] \in CallRecord
  BY DEF CallRecord
<1>3. Marked(c, p, s) \in CallRecord
  BY MarkedKeeps
<1>4. Keeps(c, Paid(c, p, s, t)) /\ Paid(c, p, s, t).pc = p
      /\ Paid(c, p, s, t).status = s /\ Paid(c, p, s, t).fresh = t
  BY DEF CallRecord, Paid, Keeps
<1> QED BY <1>1, <1>2, <1>3, <1>4

-----------------------------------------------------------------------------
(* What a step does about a call *)

\* The API goes on with the call c, which is d afterwards.
Api(c, d) ==
    /\ d \in CallRecord /\ c # d /\ Becomes(c, d) /\ Keeps(c, d)
    /\ UNCHANGED <<user, jar, raced, crossed, left>>

\* It answers c with the status s.
Answered(c, d, s) ==
    /\ Api(c, d)
    /\ c.pc = "sent" /\ d.pc = "answered" /\ d.status = s /\ d.fresh = c.fresh

\* It answers c with the new token t.
Renewed(c, d, t) ==
    /\ Api(c, d)
    /\ d.pc = "answered" /\ d.status = 200 /\ d.fresh = t /\ t \in Free

\* The page takes the answer of c and sends the calls in new.
Taken(c, new) ==
    /\ c.pc = "answered"
    /\ \A d \in new : d \in CallRecord /\ d.pc = "sent" /\ d.status = 0 /\ d.fresh = 0
    /\ IsABag(calls')
    /\ InFlight' \subseteq InFlight \cup new /\ new \subseteq InFlight'
    /\ InFlight \ {c} \subseteq InFlight'
    /\ calls[c] = 1 => c \notin InFlight'
    /\ \A e \in InFlight : e # c /\ e \notin new => calls'[e] = calls[e]
    /\ raced' = (raced \/ Races(calls'))
    /\ crossed' = (crossed \/ Crosses(calls', {"hook", "user"}))
    /\ left' = (left \/ Crosses(calls', {"user"}))
    /\ UNCHANGED <<live, count, clicks, faults, limited, killed>>

LEMMA CallIsTyped ==
    ASSUME TypeOK, NEW c \in InFlight
    PROVE  /\ c \in CallRecord /\ IsABag(calls)
           /\ c.pc \in {"sent", "rotating", "answered"}
           /\ c.kind \in {"refresh", "me", "login", "logout", "data"}
           /\ c.by \in {"bootstrap", "hook", "login", "user"} /\ c.access \in BOOLEAN
           /\ c.token \in 0..MaxTokens /\ c.fresh \in 0..MaxTokens
           /\ c.status \in {0, 200, 401, 429, 500}
BY DEF TypeOK, CallRecord

\* An answer without a token.
LEMMA AnswersDo ==
    ASSUME TypeOK, NEW c \in InFlight, NEW s \in {200, 401, 429, 500}, Answers(c, s),
           c.pc = "sent" \/ c.status # s
    PROVE  \E d : /\ d \in CallRecord /\ c # d /\ Becomes(c, d) /\ Keeps(c, d)
                  /\ d.pc = "answered" /\ d.status = s /\ d.fresh = c.fresh
<1>1. /\ Marked(c, "answered", s) \in CallRecord /\ Keeps(c, Marked(c, "answered", s))
      /\ Marked(c, "answered", s).pc = "answered"
      /\ Marked(c, "answered", s).status = s /\ Marked(c, "answered", s).fresh = c.fresh
  BY CallIsTyped, MarkedKeeps
<1>2. Becomes(c, Marked(c, "answered", s))
  BY DEF Answers, Marked
<1> QED BY <1>1, <1>2

\* An answer with a new token.
LEMMA IssuesDo ==
    ASSUME TypeOK, NEW c \in InFlight, NEW t, Issues(c, t), c.pc # "answered"
    PROVE  \E d : /\ d \in CallRecord /\ c # d /\ Becomes(c, d) /\ Keeps(c, d)
                  /\ d.pc = "answered" /\ d.status = 200 /\ d.fresh = t /\ t \in Free
<1>0. t \in Free /\ t \in 0..MaxTokens
  BY BrowserAssumption DEF Issues, Free
<1>1. /\ Paid(c, "answered", 200, t) \in CallRecord /\ Keeps(c, Paid(c, "answered", 200, t))
      /\ Paid(c, "answered", 200, t).pc = "answered"
      /\ Paid(c, "answered", 200, t).status = 200 /\ Paid(c, "answered", 200, t).fresh = t
  BY <1>0, CallIsTyped, PaidKeeps
<1>2. Becomes(c, Paid(c, "answered", 200, t))
  BY DEF Issues, Paid
<1> QED BY <1>0, <1>1, <1>2

\* The route authorizer, the rate limit and the handlers, one by one.
LEMMA RefuseDoes ==
    ASSUME TypeOK, NEW c \in InFlight, Refuse(c)
    PROVE  /\ \E d : Answered(c, d, 401)
           /\ c.kind \in {"me", "data"} /\ ~c.access
           /\ UNCHANGED <<live, count, clicks, faults, limited, killed>>
<1>1. c.pc = "sent" /\ Answers(c, 401)
  BY DEF Refuse
<1> QED
  BY <1>1, AnswersDo DEF Refuse, Answered, Api, server, counts, history

LEMMA TurnDoes ==
    ASSUME TypeOK, NEW c \in InFlight, Turn(c)
    PROVE  /\ \E d : Answered(c, d, 429)
           /\ limited' = TRUE /\ UNCHANGED <<live, count, clicks, faults, killed>>
<1>1. c.pc = "sent" /\ Answers(c, 429)
  BY DEF Turn, OverLimit
<1> QED
  BY <1>1, AnswersDo DEF Turn, Answered, Api, server, counts

LEMMA ServeDoes ==
    ASSUME TypeOK, NEW c \in InFlight, Serve(c)
    PROVE  /\ \E d : Answered(c, d, 200)
           /\ c.kind \in {"me", "data"} /\ c.access /\ Counted(c)
           /\ UNCHANGED <<live, clicks, faults, limited, killed>>
<1>1. c.pc = "sent" /\ Answers(c, 200)
  BY DEF Serve, Counted
<1> QED
  BY <1>1, AnswersDo DEF Serve, Counted, Answered, Api, counts

LEMMA LoginFailsDoes ==
    ASSUME TypeOK, NEW c \in InFlight, ServeLogin(c, FALSE)
    PROVE  /\ \E d : Answered(c, d, 401)
           /\ c.kind = "login" /\ Counted(c)
           /\ UNCHANGED <<live, clicks, faults, limited, killed>>
<1>1. c.pc = "sent" /\ Answers(c, 401)
  BY DEF ServeLogin, Counted
<1> QED
  BY <1>1, AnswersDo DEF ServeLogin, Counted, Answered, Api, counts

LEMMA LoginDoes ==
    ASSUME TypeOK, NEW c \in InFlight, ServeLogin(c, TRUE)
    PROVE  /\ \E d, t : Renewed(c, d, t) /\ live' = live \cup {t}
           /\ c.kind = "login" /\ c.pc = "sent" /\ Counted(c)
           /\ UNCHANGED <<clicks, faults, limited, killed>>
<1>1. c.pc = "sent" /\ Issues(c, NewToken) /\ live' = live \cup {NewToken}
  BY DEF ServeLogin, Counted
<1>2. \E d : Renewed(c, d, NewToken)
  BY <1>1, IssuesDo DEF ServeLogin, Counted, Renewed, Api
<1> QED
  BY <1>1, <1>2 DEF ServeLogin, Counted, counts

LEMMA LogoutDoes ==
    ASSUME TypeOK, NEW c \in InFlight, ServeLogout(c)
    PROVE  /\ \E d : Answered(c, d, 200)
           /\ c.kind = "logout" /\ Counted(c)
           /\ live' = live \ {c.token}
           /\ killed' = (killed \/ (c.by = "hook" /\ c.token \in live))
           /\ UNCHANGED <<clicks, faults, limited>>
<1>1. c.pc = "sent" /\ Answers(c, 200)
  BY DEF ServeLogout, Counted
<1> QED
  BY <1>1, AnswersDo DEF ServeLogout, Counted, Answered, Api, counts

LEMMA RefreshDoes ==
    ASSUME TypeOK, NEW c \in InFlight, ServeRefresh(c)
    PROVE  /\ \/ c.token \notin live /\ \E d : Answered(c, d, 401)
              \/ c.token \in live /\ \E d : Api(c, d) /\ d.pc = "rotating" /\ d.status = c.status
                                            /\ d.fresh = c.fresh
           /\ c.kind = "refresh" /\ c.pc = "sent" /\ Counted(c)
           /\ UNCHANGED <<live, clicks, faults, limited, killed>>
<1>0. c.pc = "sent" /\ 0 \in 0..MaxTokens
  BY BrowserAssumption DEF ServeRefresh, Counted
<1>1. CASE c.token \notin live
  <2>1. Answers(c, 401)
    BY <1>1 DEF ServeRefresh
  <2> QED
    BY <1>0, <1>1, <2>1, AnswersDo DEF ServeRefresh, Counted, Answered, Api, counts
<1>2. CASE c.token \in live
  <2> DEFINE d == Moved(c, "rotating")
  <2>1. Becomes(c, d)
    BY <1>2 DEF ServeRefresh, Moved
  <2>2. d \in CallRecord /\ Keeps(c, d) /\ d.pc = "rotating" /\ d.status = c.status /\ d.fresh = c.fresh
    BY CallIsTyped, MovedKeeps
  <2>3. Api(c, d)
    BY <1>0, <2>1, <2>2 DEF ServeRefresh, Counted, Api
  <2> HIDE DEF d
  <2> QED
    BY <1>0, <1>2, <2>2, <2>3 DEF ServeRefresh, Counted, counts
<1> QED BY <1>1, <1>2

LEMMA RotateDoes ==
    ASSUME TypeOK, NEW c \in InFlight, Rotate(c)
    PROVE  /\ \E d, t : Renewed(c, d, t) /\ live' = (live \ {c.token}) \cup {t}
           /\ c.pc = "rotating"
           /\ UNCHANGED <<count, clicks, faults, limited, killed>>
<1>1. c.pc = "rotating" /\ Issues(c, NewToken) /\ live' = (live \ {c.token}) \cup {NewToken}
  BY DEF Rotate
<1>2. \E d : Renewed(c, d, NewToken)
  BY <1>1, IssuesDo DEF Rotate, Renewed, Api, history
<1> QED
  BY <1>1, <1>2 DEF Rotate, counts, history

LEMMA LoseDoes ==
    ASSUME TypeOK, NEW c \in InFlight, Lose(c)
    PROVE  /\ \E d : Api(c, d) /\ d.pc = "answered" /\ d.status = 500 /\ d.fresh = c.fresh
           /\ c.pc = "answered" /\ c.status = 200
           /\ faults' = faults + 1
           /\ UNCHANGED <<live, count, clicks, limited, killed>>
<1>1. c.status = 200 /\ Answers(c, 500)
  BY DEF Lose
<1> QED
  BY <1>1, AnswersDo DEF Lose, Answered, Api, server, history

-----------------------------------------------------------------------------
(* What the page sends *)

\* The calls in new are what the 401 hook makes of the answer of c; gives says whether
\* it gives up.
Hooked(c, new, gives) ==
    /\ \A d \in new : d.kind \in {"refresh", "logout"} /\ d.by = "hook" /\ d.token = jar.token
    /\ (\E d \in new : d.kind = "refresh") <=> c.status = 401
    /\ (\E d \in new : d.kind = "logout") <=> gives

RefreshCall == New("refresh", "hook", jar)
LogoutCall == New("logout", "hook", jar)

LEMMA HookCalls ==
    ASSUME TypeOK
    PROVE  /\ RefreshCall \in CallRecord /\ RefreshCall.kind = "refresh"
           /\ LogoutCall \in CallRecord /\ LogoutCall.kind = "logout"
           /\ \A d \in {RefreshCall, LogoutCall} :
                /\ d.pc = "sent" /\ d.by = "hook" /\ d.token = jar.token
                /\ d.fresh = 0 /\ d.status = 0
<1>1. jar \in [access : BOOLEAN, token : 0..MaxTokens]
  BY DEF TypeOK
<1> QED BY <1>1, NewCall DEF RefreshCall, LogoutCall

LEMMA HooksAreCalls ==
    /\ \A s : IsABag(Hooks(s)) /\ DOMAIN Hooks(s) = IF s = 401 THEN {RefreshCall} ELSE {}
    /\ \A by : IsABag(Gives(by)) /\ DOMAIN Gives(by) = IF by = "hook" THEN {LogoutCall} ELSE {}
    /\ \A s, by : /\ IsABag(Hooks(s) (+) Gives(by))
                  /\ DOMAIN (Hooks(s) (+) Gives(by)) = DOMAIN Hooks(s) \cup DOMAIN Gives(by)
<1>1. \A s : IsABag(Hooks(s)) /\ DOMAIN Hooks(s) = IF s = 401 THEN {RefreshCall} ELSE {}
  BY SendingIsABag DEF Hooks, Sent, RefreshCall
<1>2. \A by : IsABag(Gives(by)) /\ DOMAIN Gives(by) = IF by = "hook" THEN {LogoutCall} ELSE {}
  BY SendingIsABag DEF Gives, Sent, LogoutCall
<1>3. ASSUME NEW s, NEW by
      PROVE  /\ IsABag(Hooks(s) (+) Gives(by))
             /\ DOMAIN (Hooks(s) (+) Gives(by)) = DOMAIN Hooks(s) \cup DOMAIN Gives(by)
  BY <1>1, <1>2, SendingIsABag
<1> QED BY <1>1, <1>2, <1>3

LEMMA SendsDoes ==
    ASSUME TypeOK, NEW c \in InFlight, c.pc = "answered", NEW new, IsABag(new), Sends(c, new),
           \A d \in DOMAIN new : d \in CallRecord /\ d.pc = "sent" /\ d.status = 0 /\ d.fresh = 0,
           UNCHANGED <<live, count, clicks, faults, limited, killed>>
    PROVE  Taken(c, DOMAIN new)
<1>1. calls' = (calls (-) SetToBag({c})) (+) new /\ IsABag(calls)
  BY DEF Sends, TypeOK
<1>2. /\ raced' = (raced \/ Races(calls'))
      /\ crossed' = (crossed \/ Crosses(calls', {"hook", "user"}))
      /\ left' = (left \/ Crosses(calls', {"user"}))
  BY DEF Sends
<1>3. c \notin DOMAIN new
  OBVIOUS
<1> QED BY <1>1, <1>2, <1>3, AfterSending DEF Taken

LEMMA HooksDo ==
    ASSUME TypeOK, NEW c \in InFlight, c.pc = "answered", Sends(c, Hooks(c.status)),
           UNCHANGED <<live, count, clicks, faults, limited, killed>>
    PROVE  \E new : Taken(c, new) /\ Hooked(c, new, FALSE)
<1> DEFINE new == DOMAIN Hooks(c.status)
<1>1. new = IF c.status = 401 THEN {RefreshCall} ELSE {}
  BY HooksAreCalls
<1>2. \A d \in new : d \in CallRecord /\ d.pc = "sent" /\ d.status = 0 /\ d.fresh = 0
  BY <1>1, HookCalls
<1>3. Taken(c, new)
  BY <1>2, HooksAreCalls, SendsDoes
<1> HIDE DEF new
<1>4. Hooked(c, new, FALSE)
  BY <1>1, HookCalls DEF Hooked
<1> QED BY <1>3, <1>4

LEMMA GivesDo ==
    ASSUME TypeOK, NEW c \in InFlight, c.pc = "answered",
           Sends(c, Hooks(c.status) (+) Gives(c.by)),
           UNCHANGED <<live, count, clicks, faults, limited, killed>>
    PROVE  \E new : Taken(c, new) /\ Hooked(c, new, c.by = "hook")
<1> DEFINE new == DOMAIN (Hooks(c.status) (+) Gives(c.by))
<1>1. new = (IF c.status = 401 THEN {RefreshCall} ELSE {})
              \cup (IF c.by = "hook" THEN {LogoutCall} ELSE {})
  <2>1. new = DOMAIN Hooks(c.status) \cup DOMAIN Gives(c.by)
    BY HooksAreCalls
  <2>2. DOMAIN Hooks(c.status) = IF c.status = 401 THEN {RefreshCall} ELSE {}
    BY HooksAreCalls
  <2>3. DOMAIN Gives(c.by) = IF c.by = "hook" THEN {LogoutCall} ELSE {}
    BY HooksAreCalls
  <2> HIDE DEF new
  <2> QED BY <2>1, <2>2, <2>3
<1>2. \A d \in new : d \in CallRecord /\ d.pc = "sent" /\ d.status = 0 /\ d.fresh = 0
  BY <1>1, HookCalls
<1>3. Taken(c, new)
  BY <1>2, HooksAreCalls, SendsDoes
<1> HIDE DEF new
<1>4. Hooked(c, new, c.by = "hook")
  BY <1>1, HookCalls DEF Hooked
<1> QED BY <1>3, <1>4

\* The page has a session again: the cookies are new and the user is asked for.
Resumed(c, d) ==
    /\ Taken(c, {d})
    /\ d.kind = "me" /\ d.by \in {c.by, "login"} /\ d.access /\ d.token = c.fresh
    /\ jar' = [access |-> TRUE, token |-> c.fresh] /\ user' = user

LEMMA ResumesDo ==
    ASSUME TypeOK, NEW c \in InFlight, c.pc = "answered", NEW by \in {c.by, "login"},
           jar' = [access |-> TRUE, token |-> c.fresh],
           Sends(c, Sent("me", by, [access |-> TRUE, token |-> c.fresh])), user' = user,
           UNCHANGED <<live, count, clicks, faults, limited, killed>>
    PROVE  \E d : Resumed(c, d)
<1> DEFINE cookies == [access |-> TRUE, token |-> c.fresh]
           d == New("me", by, cookies)
<1>1. /\ cookies \in [access : BOOLEAN, token : 0..MaxTokens]
      /\ cookies.access = TRUE /\ cookies.token = c.fresh
      /\ by \in {"bootstrap", "hook", "login", "user"}
  BY CallIsTyped
<1>2. Sent("me", by, cookies) = SetToBag({d})
  BY DEF Sent
<1> HIDE DEF cookies
<1>3. /\ d \in CallRecord /\ d.pc = "sent" /\ d.kind = "me" /\ d.by = by /\ d.access = cookies.access
      /\ d.token = cookies.token /\ d.fresh = 0 /\ d.status = 0
  BY <1>1, NewCall
<1> HIDE DEF d
<1>4. IsABag(SetToBag({d})) /\ DOMAIN SetToBag({d}) = {d}
  BY SendingIsABag
<1>5. Sends(c, SetToBag({d}))
  BY <1>2 DEF cookies
<1>6. Taken(c, {d})
  BY <1>3, <1>4, <1>5, SendsDoes
<1> QED BY <1>1, <1>3, <1>6 DEF Resumed

LEMMA AfterRefreshDoes ==
    ASSUME TypeOK, NEW c \in InFlight, AfterRefresh(c)
    PROVE  /\ c.kind = "refresh"
           /\ \/ c.status = 200 /\ \E d : Resumed(c, d)
              \/ /\ c.status # 200 /\ user' = FALSE /\ jar' = jar
                 /\ \E new : Taken(c, new) /\ Hooked(c, new, c.by = "hook")
<1>1. c.pc = "answered" /\ c.kind = "refresh"
      /\ UNCHANGED <<live, count, clicks, faults, limited, killed>>
  BY DEF AfterRefresh, server, counts
<1>2. CASE c.status = 200
  BY <1>1, <1>2, ResumesDo DEF AfterRefresh
<1>3. CASE c.status # 200
  BY <1>1, <1>3, GivesDo DEF AfterRefresh
<1> QED BY <1>1, <1>2, <1>3

LEMMA AfterMeDoes ==
    ASSUME TypeOK, NEW c \in InFlight, AfterMe(c)
    PROVE  /\ c.kind = "me" /\ jar' = jar
           /\ \/ c.status = 200 /\ user' = TRUE /\ Taken(c, {})
              \/ /\ c.status # 200 /\ user' = (user /\ c.by = "login")
                 /\ \E new : Taken(c, new) /\ Hooked(c, new, c.by = "hook")
<1>1. c.pc = "answered" /\ c.kind = "me" /\ jar' = jar
      /\ UNCHANGED <<live, count, clicks, faults, limited, killed>>
  BY DEF AfterMe, server, counts
<1>2. CASE c.status = 200
  <2>1. Sends(c, EmptyBag) /\ user' = TRUE
    BY <1>2 DEF AfterMe
  <2>2. Taken(c, DOMAIN EmptyBag)
    BY <1>1, <2>1, SendingIsABag, SendsDoes
  <2> QED BY <1>1, <1>2, <2>1, <2>2, SendingIsABag
<1>3. CASE c.status # 200
  BY <1>1, <1>3, GivesDo DEF AfterMe
<1> QED BY <1>1, <1>2, <1>3

LEMMA AfterLoginDoes ==
    ASSUME TypeOK, NEW c \in InFlight, AfterLogin(c)
    PROVE  /\ c.kind = "login" /\ user' = user
           /\ \/ c.status = 200 /\ \E d : Resumed(c, d)
              \/ /\ c.status # 200 /\ jar' = jar
                 /\ \E new : Taken(c, new) /\ Hooked(c, new, FALSE)
<1>1. c.pc = "answered" /\ c.kind = "login" /\ user' = user
      /\ UNCHANGED <<live, count, clicks, faults, limited, killed>>
  BY DEF AfterLogin, server, counts
<1>2. CASE c.status = 200
  BY <1>1, <1>2, ResumesDo DEF AfterLogin
<1>3. CASE c.status # 200
  BY <1>1, <1>3, HooksDo DEF AfterLogin
<1> QED BY <1>1, <1>2, <1>3

LEMMA AfterLogoutDoes ==
    ASSUME TypeOK, NEW c \in InFlight, AfterLogout(c)
    PROVE  /\ c.kind = "logout" /\ user' = FALSE /\ Taken(c, {})
           /\ jar' = IF c.status = 200 THEN NoCookies ELSE jar
<1>1. c.pc = "answered" /\ c.kind = "logout" /\ user' = FALSE /\ Sends(c, EmptyBag)
      /\ UNCHANGED <<live, count, clicks, faults, limited, killed>>
      /\ jar' = IF c.status = 200 THEN NoCookies ELSE jar
  BY DEF AfterLogout, server, counts
<1>2. Taken(c, DOMAIN EmptyBag)
  BY <1>1, SendingIsABag, SendsDoes
<1> QED BY <1>1, <1>2, SendingIsABag

LEMMA AfterDataDoes ==
    ASSUME TypeOK, NEW c \in InFlight, AfterData(c)
    PROVE  /\ c.kind = "data" /\ user' = user /\ jar' = jar
           /\ \E new : Taken(c, new) /\ Hooked(c, new, FALSE)
<1>1. c.pc = "answered" /\ c.kind = "data" /\ user' = user /\ jar' = jar
      /\ Sends(c, Hooks(c.status))
      /\ UNCHANGED <<live, count, clicks, faults, limited, killed>>
  BY DEF AfterData, server, counts
<1> QED BY <1>1, HooksDo

\* The user makes the page send a call (the clicks).
LEMMA ClickDoes ==
    ASSUME TypeOK, NEW kind \in {"data", "login", "logout"}, NEW by \in {"login", "user"},
           Click(kind, by)
    PROVE  /\ \E d : /\ d \in CallRecord /\ d.pc = "sent" /\ d.kind = kind /\ d.by = by
                     /\ d.token = jar.token /\ d.fresh = 0 /\ d.status = 0
                     /\ InFlight' = InFlight \cup {d}
                     /\ \A e \in InFlight : e # d => calls'[e] = calls[e]
                     /\ d \notin InFlight => calls'[d] = 1
           /\ IsABag(calls') /\ clicks' = clicks + 1
           /\ raced' = ((raced /\ calls # EmptyBag) \/ Races(calls'))
           /\ crossed' = ((crossed /\ (calls # EmptyBag \/ user)) \/ Crosses(calls', {"hook", "user"}))
           /\ left' = ((left /\ calls # EmptyBag) \/ Crosses(calls', {"user"}))
           /\ limited' = (limited /\ calls # EmptyBag) /\ killed' = (killed /\ calls # EmptyBag)
           /\ UNCHANGED <<user, jar, live, count, faults>>
<1> DEFINE d == New(kind, by, jar)
<1>1. /\ d \in CallRecord /\ d.pc = "sent" /\ d.kind = kind /\ d.by = by
      /\ d.token = jar.token /\ d.fresh = 0 /\ d.status = 0
  BY NewCall DEF TypeOK
<1>2. calls' = calls (+) SetToBag({d}) /\ IsABag(calls)
  BY DEF Click, Sent, TypeOK
<1>3. /\ clicks' = clicks + 1
      /\ raced' = ((raced /\ calls # EmptyBag) \/ Races(calls'))
      /\ crossed' = ((crossed /\ (calls # EmptyBag \/ user)) \/ Crosses(calls', {"hook", "user"}))
      /\ left' = ((left /\ calls # EmptyBag) \/ Crosses(calls', {"user"}))
      /\ limited' = (limited /\ calls # EmptyBag) /\ killed' = (killed /\ calls # EmptyBag)
      /\ UNCHANGED <<user, jar, live, count, faults>>
  BY Zenon DEF Click, server
<1> HIDE DEF d
<1>4. /\ InFlight' = InFlight \cup {d} /\ IsABag(calls')
      /\ \A e \in InFlight : e # d => calls'[e] = calls[e]
      /\ d \notin InFlight => calls'[d] = 1
  BY <1>2, AfterClick
<1> QED BY <1>1, <1>3, <1>4

-----------------------------------------------------------------------------
(* Types *)

LEMMA FreeIsTyped == \A t \in Free : t \in 1..MaxTokens /\ t \in 0..MaxTokens
BY BrowserAssumption DEF Free

\* The calls keep their type.
LEMMA ApiTypes ==
    ASSUME TypeOK, NEW c \in InFlight, NEW d, Api(c, d)
    PROVE  /\ IsABag(calls') /\ (InFlight \subseteq CallRecord)'
           /\ user' = user /\ jar' = jar /\ raced' = raced /\ crossed' = crossed /\ left' = left
<1>1. IsABag(calls') /\ InFlight' \subseteq InFlight \cup {d}
  BY AfterBecoming DEF Api, TypeOK
<1> QED BY <1>1 DEF Api, TypeOK

LEMMA TakenTypes ==
    ASSUME TypeOK, NEW c \in InFlight, NEW new, Taken(c, new)
    PROVE  /\ IsABag(calls') /\ (InFlight \subseteq CallRecord)'
           /\ {raced', crossed', left'} \subseteq BOOLEAN
           /\ UNCHANGED <<live, count, clicks, faults, limited, killed>>
<1>1. IsABag(calls') /\ InFlight' \subseteq InFlight \cup new
      /\ \A d \in new : d \in CallRecord
      /\ UNCHANGED <<live, count, clicks, faults, limited, killed>>
  BY DEF Taken
<1>2. (InFlight \subseteq CallRecord)'
  BY <1>1 DEF TypeOK
<1>3. /\ raced' = (raced \/ Races(calls'))
      /\ crossed' = (crossed \/ Crosses(calls', {"hook", "user"}))
      /\ left' = (left \/ Crosses(calls', {"user"}))
  BY DEF Taken
<1>4. raced' \in BOOLEAN /\ crossed' \in BOOLEAN /\ left' \in BOOLEAN
  <2>1. \A a, b : (a \/ b) \in BOOLEAN
    OBVIOUS
  <2> QED BY <1>3, <2>1, Zenon
<1>5. {raced', crossed', left'} \subseteq BOOLEAN
  BY <1>4, Zenon
<1>6. IsABag(calls') /\ UNCHANGED <<live, count, clicks, faults, limited, killed>>
  BY DEF Taken
<1> QED BY <1>2, <1>5, <1>6, Zenon

LEMMA CountTypes ==
    ASSUME TypeOK, NEW c \in InFlight, Counted(c)
    PROVE  count' \in [BOOLEAN -> 0..Limit]
<1>1. c.access \in BOOLEAN /\ count[c.access] < Limit
      /\ count' = [count EXCEPT ![c.access] = @ + 1]
  BY CallIsTyped DEF Counted, Allowed
<1>2. count[c.access] \in 0..Limit /\ count \in [BOOLEAN -> 0..Limit] /\ Limit \in Nat
  BY <1>1, BrowserAssumption DEF TypeOK
<1>3. count[c.access] + 1 \in 0..Limit
  BY <1>1, <1>2
<1> QED BY <1>1, <1>2, <1>3

LEMMA BrowserTypesBegin == Init => TypeOK
<1> SUFFICES ASSUME Init PROVE TypeOK
  OBVIOUS
<1>1. {0, 1} \subseteq 0..MaxTokens /\ 1 \in 1..MaxTokens /\ 0 \in 0..Limit
  BY BrowserAssumption
<1>2. jar \in [access : BOOLEAN, token : 0..MaxTokens]
  BY <1>1 DEF Init
<1>3. New("refresh", "bootstrap", jar) \in CallRecord
  BY <1>2, NewCall
<1>4. calls = SetToBag({New("refresh", "bootstrap", jar)})
  BY DEF Init, Sent
<1>5. IsABag(calls) /\ InFlight \subseteq CallRecord
  BY <1>3, <1>4, SendingIsABag DEF InFlight, BagToSet
<1>6. count \in [BOOLEAN -> 0..Limit]
  BY <1>1 DEF Init
<1>7. live \in SUBSET (1..MaxTokens)
  BY <1>1 DEF Init
<1>8. /\ user \in BOOLEAN /\ clicks \in Nat /\ faults \in Nat
      /\ {raced, limited, crossed, left, killed} \subseteq BOOLEAN
  BY DEF Init
<1> QED BY <1>2, <1>5, <1>6, <1>7, <1>8 DEF TypeOK

\* Whatever the API does about a call, it only goes on with that call.
LEMMA ApiStep ==
    ASSUME TypeOK, NEW c \in InFlight,
           \/ Refuse(c) \/ Turn(c) \/ Serve(c) \/ \E right \in BOOLEAN : ServeLogin(c, right)
           \/ ServeLogout(c) \/ ServeRefresh(c) \/ Rotate(c) \/ Lose(c)
    PROVE  \E d : Api(c, d)
<1>1. CASE Refuse(c)
  BY <1>1, RefuseDoes DEF Answered
<1>2. CASE Turn(c)
  <2>1. PICK d : Answered(c, d, 429)
    BY <1>2, TurnDoes
  <2> QED BY <2>1 DEF Answered
<1>3. CASE Serve(c)
  BY <1>3, ServeDoes DEF Answered
<1>4. CASE ServeLogin(c, TRUE)
  BY <1>4, LoginDoes DEF Renewed
<1>5. CASE ServeLogin(c, FALSE)
  BY <1>5, LoginFailsDoes DEF Answered
<1>6. CASE ServeLogout(c)
  BY <1>6, LogoutDoes DEF Answered
<1>7. CASE ServeRefresh(c)
  BY <1>7, RefreshDoes DEF Answered
<1>8. CASE Rotate(c)
  BY <1>8, RotateDoes DEF Renewed
<1>9. CASE Lose(c)
  BY <1>9, LoseDoes
<1> QED BY <1>1, <1>2, <1>3, <1>4, <1>5, <1>6, <1>7, <1>8, <1>9

\* The API's steps and those of the page keep the types.
LEMMA ApiKeepsTypes ==
    ASSUME TypeOK, NEW c \in InFlight,
           \/ Refuse(c) \/ Turn(c) \/ Serve(c) \/ \E right \in BOOLEAN : ServeLogin(c, right)
           \/ ServeLogout(c) \/ ServeRefresh(c) \/ Rotate(c) \/ Lose(c)
    PROVE  TypeOK'
<1>0. /\ user \in BOOLEAN /\ jar \in [access : BOOLEAN, token : 0..MaxTokens]
      /\ live \in SUBSET (1..MaxTokens) /\ count \in [BOOLEAN -> 0..Limit]
      /\ clicks \in Nat /\ faults \in Nat /\ raced \in BOOLEAN
      /\ limited \in BOOLEAN /\ crossed \in BOOLEAN /\ left \in BOOLEAN /\ killed \in BOOLEAN
  BY DEF TypeOK
<1>1. \E d : Api(c, d)
  BY ApiStep
<1>2. /\ IsABag(calls') /\ (InFlight \subseteq CallRecord)'
      /\ user' = user /\ jar' = jar /\ raced' = raced /\ crossed' = crossed /\ left' = left
  BY <1>1, ApiTypes
<1>3. /\ live' \in SUBSET (1..MaxTokens) /\ count' \in [BOOLEAN -> 0..Limit]
      /\ clicks' \in Nat /\ faults' \in Nat /\ limited' \in BOOLEAN
      /\ killed' \in BOOLEAN
  <2>1. CASE Refuse(c)
    BY <1>0, <2>1, RefuseDoes
  <2>2. CASE Turn(c)
    BY <1>0, <2>2, TurnDoes
  <2>3. CASE Serve(c)
    BY <1>0, <2>3, ServeDoes, CountTypes
  <2>4. CASE ServeLogin(c, TRUE)
    <3>1. PICK d, t : Renewed(c, d, t) /\ live' = live \cup {t}
      BY <2>4, LoginDoes
    <3>2. t \in 1..MaxTokens
      BY <3>1, FreeIsTyped DEF Renewed
    <3> QED BY <1>0, <2>4, <3>1, <3>2, LoginDoes, CountTypes
  <2>5. CASE ServeLogin(c, FALSE)
    BY <1>0, <2>5, LoginFailsDoes, CountTypes
  <2>6. CASE ServeLogout(c)
    <3>1. killed' \in BOOLEAN
      BY <2>6, LogoutDoes
    <3> QED BY <1>0, <2>6, <3>1, LogoutDoes, CountTypes
  <2>7. CASE ServeRefresh(c)
    BY <1>0, <2>7, RefreshDoes, CountTypes
  <2>8. CASE Rotate(c)
    <3>1. PICK d, t : Renewed(c, d, t) /\ live' = (live \ {c.token}) \cup {t}
      BY <2>8, RotateDoes
    <3>2. t \in 1..MaxTokens
      BY <3>1, FreeIsTyped DEF Renewed
    <3> QED BY <1>0, <2>8, <3>1, <3>2, RotateDoes
  <2>9. CASE Lose(c)
    <3>1. /\ faults' = faults + 1
          /\ UNCHANGED <<live, count, clicks, limited, killed>>
      BY <2>9, LoseDoes
    <3> QED BY <1>0, <3>1
  <2> QED BY <2>1, <2>2, <2>3, <2>4, <2>5, <2>6, <2>7, <2>8, <2>9
<1> QED BY <1>0, <1>2, <1>3 DEF TypeOK

LEMMA PageStep ==
    ASSUME TypeOK, NEW c \in InFlight,
           AfterRefresh(c) \/ AfterMe(c) \/ AfterLogin(c) \/ AfterLogout(c) \/ AfterData(c)
    PROVE  \E new : Taken(c, new)
<1>1. CASE AfterRefresh(c)
  BY <1>1, AfterRefreshDoes DEF Resumed
<1>2. CASE AfterMe(c)
  BY <1>2, AfterMeDoes
<1>3. CASE AfterLogin(c)
  BY <1>3, AfterLoginDoes DEF Resumed
<1>4. CASE AfterLogout(c)
  BY <1>4, AfterLogoutDoes
<1>5. CASE AfterData(c)
  BY <1>5, AfterDataDoes
<1> QED BY <1>1, <1>2, <1>3, <1>4, <1>5

LEMMA PageKeepsTypes ==
    ASSUME TypeOK, NEW c \in InFlight,
           AfterRefresh(c) \/ AfterMe(c) \/ AfterLogin(c) \/ AfterLogout(c) \/ AfterData(c)
    PROVE  TypeOK'
<1>0. /\ user \in BOOLEAN /\ jar \in [access : BOOLEAN, token : 0..MaxTokens]
      /\ live \in SUBSET (1..MaxTokens) /\ count \in [BOOLEAN -> 0..Limit]
      /\ clicks \in Nat /\ faults \in Nat
      /\ limited \in BOOLEAN /\ killed \in BOOLEAN
  BY DEF TypeOK
<1>1. \E new : Taken(c, new)
  BY PageStep
<1>2. /\ IsABag(calls') /\ (InFlight \subseteq CallRecord)'
      /\ {raced', crossed', left'} \subseteq BOOLEAN
      /\ UNCHANGED <<live, count, clicks, faults, limited, killed>>
  BY <1>1, TakenTypes
<1>3. c.fresh \in 0..MaxTokens /\ 0 \in 0..MaxTokens
  BY CallIsTyped, BrowserAssumption
<1>4. /\ [access |-> TRUE, token |-> c.fresh] \in [access : BOOLEAN, token : 0..MaxTokens]
      /\ NoCookies \in [access : BOOLEAN, token : 0..MaxTokens]
  BY <1>3 DEF NoCookies
<1>5. user' \in BOOLEAN /\ jar' \in [access : BOOLEAN, token : 0..MaxTokens]
  <2>1. CASE AfterRefresh(c)
    BY <1>0, <1>4, <2>1, AfterRefreshDoes DEF Resumed
  <2>2. CASE AfterMe(c)
    BY <1>0, <1>4, <2>2, AfterMeDoes
  <2>3. CASE AfterLogin(c)
    BY <1>0, <1>4, <2>3, AfterLoginDoes DEF Resumed
  <2>4. CASE AfterLogout(c)
    BY <1>0, <1>4, <2>4, AfterLogoutDoes
  <2>5. CASE AfterData(c)
    BY <1>0, <1>4, <2>5, AfterDataDoes
  <2> QED BY <2>1, <2>2, <2>3, <2>4, <2>5
<1> QED BY <1>0, <1>2, <1>5 DEF TypeOK

LEMMA ClickKeepsTypes ==
    ASSUME TypeOK, NEW kind \in {"data", "login", "logout"}, NEW by \in {"login", "user"},
           Click(kind, by)
    PROVE  TypeOK'
<1>1. IsABag(calls') /\ (InFlight \subseteq CallRecord)'
  BY ClickDoes DEF TypeOK
<1>2. /\ raced' \in BOOLEAN /\ crossed' \in BOOLEAN /\ left' \in BOOLEAN
      /\ limited' \in BOOLEAN /\ killed' \in BOOLEAN
  BY ClickDoes, Zenon
<1>3. clicks' = clicks + 1 /\ UNCHANGED <<user, jar, live, count, faults>>
  BY ClickDoes
<1> QED BY <1>1, <1>2, <1>3 DEF TypeOK

\* The user's other steps.
LEMMA ExpiresDoes ==
    ASSUME TypeOK, AccessExpires
    PROVE  /\ jar' = [access |-> FALSE, token |-> jar.token] /\ clicks' = clicks + 1
           /\ InFlight' = InFlight /\ calls' = calls
           /\ UNCHANGED <<user, live, count, faults, raced, limited, crossed, left, killed>>
BY DEF AccessExpires, TypeOK, server, history, InFlight

LEMMA WindowDoes ==
    ASSUME TypeOK, NextWindow
    PROVE  /\ count' = [a \in BOOLEAN |-> 0]
           /\ InFlight' = InFlight /\ calls' = calls
           /\ UNCHANGED <<user, jar, live, clicks, faults, raced, limited, crossed, left, killed>>
BY DEF NextWindow, counts, history, InFlight

\* What can happen to a page and its session, by what it does.
LEMMA BrowserSteps ==
    ASSUME [Next]_vars
    PROVE  \/ \E c \in InFlight :
                \/ Refuse(c) \/ Turn(c) \/ Serve(c) \/ \E right \in BOOLEAN : ServeLogin(c, right)
                \/ ServeLogout(c) \/ ServeRefresh(c) \/ Rotate(c) \/ Lose(c)
           \/ \E c \in InFlight :
                AfterRefresh(c) \/ AfterMe(c) \/ AfterLogin(c) \/ AfterLogout(c) \/ AfterData(c)
           \/ user /\ Click("data", "user")
           \/ ~user /\ Click("login", "login")
           \/ user /\ Click("logout", "user")
           \/ AccessExpires \/ NextWindow \/ UNCHANGED vars
BY DEF Next, Handle, Ask, LogIn, LogOut

LEMMA BrowserTypesStay == TypeOK /\ [Next]_vars => TypeOK'
<1> SUFFICES ASSUME TypeOK, [Next]_vars PROVE TypeOK'
  OBVIOUS
<1>1. CASE AccessExpires
  <2>1. [access |-> FALSE, token |-> jar.token] \in [access : BOOLEAN, token : 0..MaxTokens]
    BY DEF TypeOK
  <2>2. /\ jar' = [access |-> FALSE, token |-> jar.token] /\ clicks' = clicks + 1
        /\ InFlight' = InFlight /\ calls' = calls
        /\ UNCHANGED <<user, live, count, faults, raced, limited, crossed, left, killed>>
    BY <1>1, ExpiresDoes
  <2> QED BY <2>1, <2>2 DEF TypeOK
<1>2. CASE NextWindow
  <2>1. [a \in BOOLEAN |-> 0] \in [BOOLEAN -> 0..Limit]
    BY BrowserAssumption
  <2>2. /\ count' = [a \in BOOLEAN |-> 0]
        /\ InFlight' = InFlight /\ calls' = calls
        /\ UNCHANGED <<user, jar, live, clicks, faults, raced, limited, crossed, left, killed>>
    BY <1>2, WindowDoes
  <2> QED BY <2>1, <2>2 DEF TypeOK
<1>3. CASE UNCHANGED vars
  BY <1>3 DEF vars, server, counts, history, TypeOK, InFlight
<1> QED BY <1>1, <1>2, <1>3, BrowserSteps, ApiKeepsTypes, PageKeepsTypes, ClickKeepsTypes

-----------------------------------------------------------------------------
(* What an answer says of its call *)

\* A call is answered once, with a status that it can have: who asks for the user carries
\* an access token and is not refused, and a logout never is.
CallIsSound(c) ==
    /\ c.pc = "sent" => c.status = 0
    /\ c.pc = "rotating" => c.kind = "refresh" /\ c.status = 0
    /\ c.pc = "answered" => c.status # 0
    /\ c.kind = "me" => c.access /\ c.status # 401
    /\ c.kind = "logout" => c.by \in {"hook", "user"} /\ c.status # 401
    /\ c.kind = "login" => c.by = "login"
    /\ c.kind = "refresh" => c.by \in {"bootstrap", "hook"}
    /\ c.status = 429 => limited
    /\ c.status = 500 => faults > 0

AnswerInv == \A c \in InFlight : CallIsSound(c)

\* What goes on with a call c that is d then.
LEMMA ApiMoves ==
    ASSUME TypeOK, NEW c \in InFlight, NEW d, Api(c, d)
    PROVE  /\ IsABag(calls') /\ InFlight' \subseteq InFlight \cup {d}
           /\ d \in InFlight' /\ InFlight \ {c} \subseteq InFlight'
           /\ calls[c] = 1 => c \notin InFlight'
           /\ \A e \in InFlight : e # c /\ e # d => calls'[e] = calls[e]
           /\ d \notin InFlight => calls'[d] = 1
           /\ c # d /\ Keeps(c, d) /\ c \in CallRecord /\ d \in CallRecord
           /\ user' = user /\ jar' = jar /\ raced' = raced /\ crossed' = crossed /\ left' = left
<1>1. IsABag(calls) /\ Becomes(c, d) /\ c # d /\ Keeps(c, d) /\ c \in CallRecord /\ d \in CallRecord
      /\ user' = user /\ jar' = jar /\ raced' = raced /\ crossed' = crossed /\ left' = left
  BY DEF Api, TypeOK
<1> QED BY <1>1, AfterBecoming

\* The other calls stay sound while nothing that was true of the answers is forgotten.
LEMMA SoundStays ==
    ASSUME NEW c, CallIsSound(c), limited => limited', faults > 0 => faults' > 0
    PROVE  CallIsSound(c)'
BY DEF CallIsSound

LEMMA ApiKeepsAnswers ==
    ASSUME TypeOK, AnswerInv, NEW c \in InFlight, NEW d, Api(c, d), CallIsSound(d)',
           limited => limited', faults > 0 => faults' > 0
    PROVE  AnswerInv'
<1>1. InFlight' \subseteq InFlight \cup {d}
  BY ApiMoves
<1>2. \A e \in InFlight : CallIsSound(e)'
  BY SoundStays DEF AnswerInv
<1> QED BY <1>1, <1>2 DEF AnswerInv

\* A call that is answered with s is sound if s is an answer to it.
LEMMA AnsweredIsSound ==
    ASSUME TypeOK, AnswerInv, NEW c \in InFlight, NEW d, NEW s \in {200, 401, 429, 500},
           Answered(c, d, s), s = 401 => c.kind \notin {"me", "logout"},
           s = 429 => limited', s = 500 => faults' > 0
    PROVE  CallIsSound(d)'
<1>1. CallIsSound(c)
  BY DEF AnswerInv
<1>2. d.pc = "answered" /\ d.status = s /\ d.kind = c.kind /\ d.by = c.by /\ d.access = c.access
  BY DEF Answered, Api, Keeps
<1> QED BY <1>1, <1>2 DEF CallIsSound

LEMMA RenewedIsSound ==
    ASSUME TypeOK, AnswerInv, NEW c \in InFlight, NEW d, NEW t, Renewed(c, d, t),
           c.kind \in {"login", "refresh"}
    PROVE  CallIsSound(d)'
<1>1. CallIsSound(c)
  BY DEF AnswerInv
<1>2. d.pc = "answered" /\ d.status = 200 /\ d.kind = c.kind /\ d.by = c.by
  BY DEF Renewed, Api, Keeps
<1> QED BY <1>1, <1>2 DEF CallIsSound

LEMMA ApiAnswersWell ==
    ASSUME TypeOK, AnswerInv, NEW c \in InFlight,
           \/ Refuse(c) \/ Turn(c) \/ Serve(c) \/ \E right \in BOOLEAN : ServeLogin(c, right)
           \/ ServeLogout(c) \/ ServeRefresh(c) \/ Rotate(c) \/ Lose(c)
    PROVE  AnswerInv'
<1>0. CallIsSound(c) /\ faults \in Nat
  BY DEF AnswerInv, TypeOK
<1>1. CASE Refuse(c)
  <2>1. PICK d : Answered(c, d, 401)
    BY <1>1, RefuseDoes
  <2>2. c.kind \in {"me", "data"} /\ ~c.access /\ limited' = limited /\ faults' = faults
    BY <1>1, RefuseDoes
  <2>3. c.kind = "data"
    BY <1>0, <2>2 DEF CallIsSound
  <2> QED BY <2>1, <2>2, <2>3, AnsweredIsSound, ApiKeepsAnswers DEF Answered
<1>2. CASE Turn(c)
  <2>1. PICK d : Answered(c, d, 429)
    BY <1>2, TurnDoes
  <2>2. limited' /\ faults' = faults
    BY <1>2, TurnDoes
  <2> QED BY <2>1, <2>2, AnsweredIsSound, ApiKeepsAnswers DEF Answered
<1>3. CASE Serve(c)
  <2>1. PICK d : Answered(c, d, 200)
    BY <1>3, ServeDoes
  <2>2. limited' = limited /\ faults' = faults
    BY <1>3, ServeDoes
  <2> QED BY <2>1, <2>2, AnsweredIsSound, ApiKeepsAnswers DEF Answered
<1>4. CASE ServeLogin(c, TRUE)
  <2>1. PICK d, t : Renewed(c, d, t)
    BY <1>4, LoginDoes
  <2>2. limited' = limited /\ faults' = faults /\ c.kind = "login"
    BY <1>4, LoginDoes
  <2> QED BY <2>1, <2>2, RenewedIsSound, ApiKeepsAnswers DEF Renewed
<1>5. CASE ServeLogin(c, FALSE)
  <2>1. PICK d : Answered(c, d, 401)
    BY <1>5, LoginFailsDoes
  <2>2. limited' = limited /\ faults' = faults /\ c.kind = "login"
    BY <1>5, LoginFailsDoes
  <2> QED BY <2>1, <2>2, AnsweredIsSound, ApiKeepsAnswers DEF Answered
<1>6. CASE ServeLogout(c)
  <2>1. PICK d : Answered(c, d, 200)
    BY <1>6, LogoutDoes
  <2>2. limited' = limited /\ faults' = faults
    BY <1>6, LogoutDoes
  <2> QED BY <2>1, <2>2, AnsweredIsSound, ApiKeepsAnswers DEF Answered
<1>7. CASE ServeRefresh(c)
  <2>1. limited' = limited /\ faults' = faults /\ c.kind = "refresh" /\ c.pc = "sent"
    BY <1>7, RefreshDoes
  <2>2. CASE \E d : Answered(c, d, 401)
    BY <2>1, <2>2, AnsweredIsSound, ApiKeepsAnswers DEF Answered
  <2>3. CASE \E d : Api(c, d) /\ d.pc = "rotating" /\ d.status = c.status
    <3>1. PICK d : Api(c, d) /\ d.pc = "rotating" /\ d.status = c.status
      BY <2>3
    <3>2. c.status = 0 /\ c.by \in {"bootstrap", "hook"}
      BY <1>0, <2>1 DEF CallIsSound
    <3>3. CallIsSound(d)'
      BY <2>1, <3>1, <3>2 DEF CallIsSound, Api, Keeps
    <3> QED BY <2>1, <3>1, <3>3, ApiKeepsAnswers
  <2> QED BY <1>7, <2>2, <2>3, RefreshDoes
<1>8. CASE Rotate(c)
  <2>1. PICK d, t : Renewed(c, d, t)
    BY <1>8, RotateDoes
  <2>2. limited' = limited /\ faults' = faults /\ c.pc = "rotating"
    BY <1>8, RotateDoes
  <2>3. c.kind = "refresh"
    BY <1>0, <2>2 DEF CallIsSound
  <2> QED BY <2>1, <2>2, <2>3, RenewedIsSound, ApiKeepsAnswers DEF Renewed
<1>9. CASE Lose(c)
  <2>1. PICK d : Api(c, d) /\ d.pc = "answered" /\ d.status = 500
    BY <1>9, LoseDoes
  <2>2. limited' = limited /\ faults' = faults + 1
    BY <1>9, LoseDoes
  <2>3. faults' > 0
    BY <1>0, <2>2
  <2>4. CallIsSound(d)'
    BY <1>0, <2>1, <2>3 DEF CallIsSound, Api, Keeps
  <2> QED BY <2>1, <2>2, <2>3, <2>4, ApiKeepsAnswers
<1> QED BY <1>1, <1>2, <1>3, <1>4, <1>5, <1>6, <1>7, <1>8, <1>9

\* The calls that the page sends are sound.
LEMMA TakenIsSound ==
    ASSUME TypeOK, AnswerInv, NEW c \in InFlight, NEW new, Taken(c, new),
           \A d \in new : /\ d.kind \in {"refresh", "logout"} => d.by = "hook"
                          /\ d.kind = "me" => d.access
                          /\ d.kind # "login"
    PROVE  AnswerInv'
<1>1. /\ InFlight' \subseteq InFlight \cup new /\ limited' = limited /\ faults' = faults
      /\ \A d \in new : d.pc = "sent" /\ d.status = 0
  BY DEF Taken
<1>2. \A e \in InFlight : CallIsSound(e)'
  BY <1>1, SoundStays DEF AnswerInv
<1>3. \A e \in new : CallIsSound(e)'
  BY <1>1 DEF CallIsSound
<1> QED BY <1>1, <1>2, <1>3 DEF AnswerInv

LEMMA HookedIsSound ==
    ASSUME TypeOK, AnswerInv, NEW c \in InFlight, NEW new, NEW gives,
           Taken(c, new), Hooked(c, new, gives)
    PROVE  AnswerInv'
BY TakenIsSound DEF Hooked

LEMMA ResumedIsSound ==
    ASSUME TypeOK, AnswerInv, NEW c \in InFlight, NEW d, Resumed(c, d)
    PROVE  AnswerInv'
BY TakenIsSound DEF Resumed

LEMMA PageAnswersWell ==
    ASSUME TypeOK, AnswerInv, NEW c \in InFlight,
           AfterRefresh(c) \/ AfterMe(c) \/ AfterLogin(c) \/ AfterLogout(c) \/ AfterData(c)
    PROVE  AnswerInv'
<1>1. CASE AfterRefresh(c)
  BY <1>1, AfterRefreshDoes, HookedIsSound, ResumedIsSound
<1>2. CASE AfterMe(c)
  <2>1. CASE Taken(c, {})
    BY <2>1, TakenIsSound
  <2> QED BY <1>2, <2>1, AfterMeDoes, HookedIsSound
<1>3. CASE AfterLogin(c)
  BY <1>3, AfterLoginDoes, HookedIsSound, ResumedIsSound
<1>4. CASE AfterLogout(c)
  <2>1. Taken(c, {})
    BY <1>4, AfterLogoutDoes
  <2> QED BY <2>1, TakenIsSound
<1>5. CASE AfterData(c)
  BY <1>5, AfterDataDoes, HookedIsSound
<1> QED BY <1>1, <1>2, <1>3, <1>4, <1>5

\* A page at rest has no calls.
LEMMA RestIsEmpty == calls = EmptyBag => InFlight = {}
BY SendingIsABag DEF InFlight, BagToSet

LEMMA ClickAnswersWell ==
    ASSUME TypeOK, AnswerInv, NEW kind \in {"data", "login", "logout"}, NEW by \in {"login", "user"},
           (kind = "login") <=> (by = "login"), Click(kind, by)
    PROVE  AnswerInv'
<1>1. PICK d : /\ d.pc = "sent" /\ d.kind = kind /\ d.by = by /\ d.status = 0
               /\ InFlight' = InFlight \cup {d}
  BY ClickDoes
<1>2. limited' = (limited /\ calls # EmptyBag) /\ faults' = faults
  BY ClickDoes, Zenon
<1>3. CallIsSound(d)'
  BY <1>1 DEF CallIsSound
<1>4. CASE calls = EmptyBag
  BY <1>1, <1>3, <1>4, RestIsEmpty DEF AnswerInv
<1>5. CASE calls # EmptyBag
  <2>1. limited => limited'
    BY <1>2, <1>5, Zenon
  <2>2. \A e \in InFlight : CallIsSound(e)'
    BY <1>2, <2>1, SoundStays DEF AnswerInv
  <2> QED BY <1>1, <1>3, <2>2 DEF AnswerInv
<1> QED BY <1>4, <1>5

LEMMA AnswersStay == TypeOK /\ AnswerInv /\ [Next]_vars => AnswerInv'
<1> SUFFICES ASSUME TypeOK, AnswerInv, [Next]_vars PROVE AnswerInv'
  OBVIOUS
<1>1. ASSUME InFlight' = InFlight, limited' = limited, faults' = faults PROVE AnswerInv'
  BY <1>1, SoundStays DEF AnswerInv
<1>2. CASE AccessExpires
  BY <1>1, <1>2, ExpiresDoes
<1>3. CASE NextWindow
  BY <1>1, <1>3, WindowDoes
<1>4. CASE UNCHANGED vars
  BY <1>1, <1>4 DEF vars, server, counts, history, InFlight
<1>5. \A kind \in {"data", "login", "logout"} : \A by \in {"login", "user"} :
        ((kind = "login") <=> (by = "login")) /\ Click(kind, by) => AnswerInv'
  BY ClickAnswersWell
<1>6. /\ Click("data", "user") => AnswerInv'
      /\ Click("login", "login") => AnswerInv'
      /\ Click("logout", "user") => AnswerInv'
  BY <1>5
<1> QED BY <1>2, <1>3, <1>4, <1>6, BrowserSteps, ApiAnswersWell, PageAnswersWell

-----------------------------------------------------------------------------
(* What is under way at once *)

\* An answer brings no race and no crossing that was not there: the call keeps its kind,
\* its token and who waits for it.
LEMMA ApiRaces ==
    ASSUME TypeOK, NEW c \in InFlight, NEW d, Api(c, d), Races(calls')
    PROVE  Races(calls)
<1> DEFINE Meet(a, b) == a.kind = "refresh" /\ (b.by = "login" \/ (b.kind = "refresh" /\ b.token = a.token))
           Back(e) == IF e = d THEN c ELSE e
<1>1. PICK a \in InFlight', b \in InFlight' : (a # b \/ calls'[a] > 1) /\ Meet(a, b)
  BY DEF Races, InFlight
<1>2. /\ InFlight' \subseteq InFlight \cup {d}
      /\ calls[c] = 1 => c \notin InFlight'
      /\ \A e \in InFlight : e # c /\ e # d => calls'[e] = calls[e]
      /\ d \notin InFlight => calls'[d] = 1
      /\ c # d /\ Keeps(c, d)
  BY ApiMoves
<1>3. calls[c] \in Nat /\ calls[c] > 0
  BY DEF TypeOK, IsABag, InFlight, BagToSet
<1>4. Meet(Back(a), Back(b))
  BY <1>1, <1>2 DEF Keeps
<1> HIDE DEF Meet
<1>5. ASSUME NEW x \in InFlight, NEW y \in InFlight, x # y \/ calls[x] > 1, Meet(x, y) PROVE Races(calls)
  BY <1>5 DEF Races, InFlight, Meet
<1>6. c \in InFlight' => calls[c] > 1
  BY <1>2, <1>3
<1>7. CASE a # d /\ b # d
  <2>1. a \in InFlight /\ b \in InFlight /\ Meet(a, b)
    BY <1>1, <1>2, <1>7
  <2>2. a # b \/ calls[a] > 1
    BY <1>1, <1>2, <1>6, <1>7, <2>1
  <2> QED BY <1>5, <2>1, <2>2
<1>8. CASE a = d /\ b # d
  <2>1. b \in InFlight /\ Meet(c, b)
    BY <1>1, <1>2, <1>4, <1>8
  <2>2. c # b \/ calls[c] > 1
    BY <1>6
  <2> QED BY <1>5, <2>1, <2>2
<1>9. CASE a # d /\ b = d
  <2>1. a \in InFlight /\ Meet(a, c)
    BY <1>1, <1>2, <1>4, <1>9
  <2>2. a # c \/ calls[a] > 1
    BY <1>6
  <2> QED BY <1>5, <2>1, <2>2
<1>10. CASE a = d /\ b = d
  <2>1. d \in InFlight
    BY <1>1, <1>2, <1>10
  <2>2. Meet(d, d) /\ Meet(c, c)
    BY <1>1, <1>4, <1>10
  <2>3. Meet(c, d)
    BY <1>2, <2>2 DEF Meet, Keeps
  <2> QED BY <1>2, <1>5, <2>1, <2>3
<1> QED BY <1>7, <1>8, <1>9, <1>10

LEMMA ApiCrosses ==
    ASSUME TypeOK, NEW c \in InFlight, NEW d, Api(c, d), NEW by, Crosses(calls', by)
    PROVE  Crosses(calls, by)
<1>1. PICK a \in InFlight', b \in InFlight' :
        a.kind = "logout" /\ a.by \in by /\ b.kind \in {"me", "refresh", "login"}
  BY DEF Crosses, InFlight
<1>2. InFlight' \subseteq InFlight \cup {d} /\ Keeps(c, d)
  BY ApiMoves
<1>3. \A e \in InFlight' : \E x \in InFlight : x.kind = e.kind /\ x.by = e.by
  BY <1>2 DEF Keeps
<1> QED BY <1>1, <1>3 DEF Crosses, InFlight

\* What there is to know about the calls when nothing races and nothing crosses.
LEMMA NoRace ==
    ASSUME ~Races(calls), NEW a \in InFlight, NEW b \in InFlight, a.kind = "refresh",
           b.by = "login" \/ (b.kind = "refresh" /\ b.token = a.token)
    PROVE  a = b /\ ~(calls[a] > 1)
BY DEF Races, InFlight

LEMMA NoCrossing ==
    ASSUME NEW by, ~Crosses(calls, by), NEW a \in InFlight, a.kind = "logout", a.by \in by
    PROVE  \A b \in InFlight : b.kind \notin {"me", "refresh", "login"}
BY DEF Crosses, InFlight

\* The history says when there was a race, and when a logout crossed what signs the user in.
RaceInv ==
    /\ ~raced => ~Races(calls)
    /\ ~left => ~Crosses(calls, {"user"})
    /\ ~crossed => ~Crosses(calls, {"hook", "user"})

LEMMA ApiKeepsHistory ==
    ASSUME TypeOK, RaceInv, NEW c \in InFlight, NEW d, Api(c, d)
    PROVE  RaceInv'
<1>1. raced' = raced /\ crossed' = crossed /\ left' = left
  BY ApiMoves
<1> QED BY <1>1, ApiRaces, ApiCrosses DEF RaceInv

LEMMA PageKeepsHistory ==
    ASSUME NEW c, NEW new, Taken(c, new)
    PROVE  RaceInv'
<1>1. /\ raced' = (raced \/ Races(calls'))
      /\ crossed' = (crossed \/ Crosses(calls', {"hook", "user"}))
      /\ left' = (left \/ Crosses(calls', {"user"}))
  BY DEF Taken
<1>2. Races(calls)' <=> Races(calls')
  BY DEF Races
<1>3. \A by : Crosses(calls, by)' <=> Crosses(calls', by)
  BY DEF Crosses
<1> QED BY <1>1, <1>2, <1>3, Zenon DEF RaceInv

LEMMA ClickKeepsHistory ==
    ASSUME TypeOK, NEW kind \in {"data", "login", "logout"}, NEW by \in {"login", "user"},
           Click(kind, by)
    PROVE  RaceInv'
<1>1. /\ raced' = ((raced /\ calls # EmptyBag) \/ Races(calls'))
      /\ crossed' = ((crossed /\ (calls # EmptyBag \/ user)) \/ Crosses(calls', {"hook", "user"}))
      /\ left' = ((left /\ calls # EmptyBag) \/ Crosses(calls', {"user"}))
  BY ClickDoes, Zenon
<1> QED BY <1>1, Zenon DEF RaceInv

LEMMA HistoryStays == TypeOK /\ RaceInv /\ [Next]_vars => RaceInv'
<1> SUFFICES ASSUME TypeOK, RaceInv, [Next]_vars PROVE RaceInv'
  OBVIOUS
<1>1. ASSUME calls' = calls, raced' = raced, left' = left, crossed' = crossed PROVE RaceInv'
  BY <1>1 DEF RaceInv
<1>2. CASE AccessExpires
  BY <1>1, <1>2, ExpiresDoes
<1>3. CASE NextWindow
  BY <1>1, <1>3, WindowDoes
<1>4. CASE UNCHANGED vars
  BY <1>1, <1>4 DEF vars, history
<1>5. /\ Click("data", "user") => RaceInv'
      /\ Click("login", "login") => RaceInv'
      /\ Click("logout", "user") => RaceInv'
  BY ClickKeepsHistory
<1> QED
  BY <1>2, <1>3, <1>4, <1>5, BrowserSteps, ApiStep, PageStep, ApiKeepsHistory, PageKeepsHistory

-----------------------------------------------------------------------------
(* The session is not thrown away *)

\* Nothing has happened that excuses the end of a session.
Calm == ~raced /\ ~limited /\ ~left /\ faults = 0

Refreshes == {c \in InFlight : c.kind = "refresh"}
HookLogouts == {c \in InFlight : c.kind = "logout" /\ c.by = "hook"}
Refused(c) == c.pc = "answered" /\ c.status = 401

\* The session can go on: whoever refreshes it has its token, and a refusal says that the
\* token was dead.
Usable ==
    /\ HookLogouts = {}
    /\ \A c \in Refreshes : c.token = jar.token /\ (Refused(c) => jar.token \notin live)

\* The session is over: the page refreshes and logs out in turn, with tokens that are dead.
Over ==
    /\ jar.token \notin live /\ Refreshes # {}
    /\ \A c \in Refreshes : c.token \notin live /\ (c.pc = "sent" \/ Refused(c))
    /\ \A c \in HookLogouts : c.token \notin live

SessionInv == Calm => ~killed /\ (Usable \/ Over)

\* The refreshes and the hook's logouts after a step of the API.
LEMMA ApiKeepsKinds ==
    ASSUME TypeOK, NEW c \in InFlight, NEW d, Api(c, d)
    PROVE  /\ Refreshes' \subseteq Refreshes \cup {d} /\ HookLogouts' \subseteq HookLogouts \cup {d}
           /\ Refreshes \ {c} \subseteq Refreshes'
           /\ c \in Refreshes <=> d \in Refreshes'
           /\ c \in HookLogouts <=> d \in HookLogouts'
           /\ d.token = c.token /\ jar' = jar
BY ApiMoves DEF Refreshes, HookLogouts, Keeps

\* A call that is neither a refresh nor a hook's logout leaves the session as it is.
LEMMA OthersLeaveSession ==
    ASSUME TypeOK, Usable \/ Over, NEW c \in InFlight, NEW d, Api(c, d),
           c \notin Refreshes, c \notin HookLogouts,
           \A e \in Refreshes \cup HookLogouts : e.token \in live' => e.token \in live,
           jar.token \in live' => jar.token \in live
    PROVE  (Usable \/ Over)'
<1>1. /\ Refreshes' \subseteq Refreshes /\ HookLogouts' \subseteq HookLogouts
      /\ Refreshes \subseteq Refreshes' /\ jar' = jar
  BY ApiKeepsKinds
<1>2. CASE Usable
  BY <1>1, <1>2 DEF Usable, Refused
<1>3. CASE Over
  BY <1>1, <1>3 DEF Over, Refused
<1> QED BY <1>2, <1>3

LEMMA RefuseKeepsSession ==
    ASSUME TypeOK, AnswerInv, Calm, Usable \/ Over, NEW c \in InFlight,
           Refuse(c) \/ Serve(c) \/ ServeLogin(c, FALSE)
    PROVE  (Usable \/ Over)' /\ killed' = killed
<1>1. \E d : Api(c, d)
  BY ApiStep
<1>2. c.kind \in {"me", "data", "login"} /\ live' = live /\ killed' = killed
  BY RefuseDoes, ServeDoes, LoginFailsDoes
<1>3. c \notin Refreshes /\ c \notin HookLogouts
  BY <1>2 DEF Refreshes, HookLogouts
<1> QED BY <1>1, <1>2, <1>3, OthersLeaveSession

LEMMA LoginKeepsSession ==
    ASSUME TypeOK, Usable \/ Over, NEW c \in InFlight, ServeLogin(c, TRUE)
    PROVE  (Usable \/ Over)' /\ killed' = killed
<1>1. PICK d, t : Renewed(c, d, t) /\ live' = live \cup {t}
  BY LoginDoes
<1>2. c.kind = "login" /\ killed' = killed
  BY LoginDoes
<1>3. c \notin Refreshes /\ c \notin HookLogouts
  BY <1>2 DEF Refreshes, HookLogouts
<1>4. Api(c, d) /\ t # jar.token /\ \A e \in InFlight : e.token # t
  BY <1>1 DEF Renewed, Free
<1>5. Refreshes \cup HookLogouts \subseteq InFlight
  BY DEF Refreshes, HookLogouts
<1> QED BY <1>1, <1>2, <1>3, <1>4, <1>5, OthersLeaveSession

\* The user's own logout meets no refresh; the hook's has a dead token.
LEMMA LogoutKeepsSession ==
    ASSUME TypeOK, AnswerInv, RaceInv, Calm, ~killed, Usable \/ Over, NEW c \in InFlight, ServeLogout(c)
    PROVE  (Usable \/ Over)' /\ ~killed'
<1>1. PICK d : Api(c, d)
  BY ApiStep
<1>2. /\ c.kind = "logout" /\ live' = live \ {c.token}
      /\ killed' = (killed \/ (c.by = "hook" /\ c.token \in live))
  BY LogoutDoes, Zenon
<1>3. c.by \in {"hook", "user"}
  BY <1>2 DEF AnswerInv, CallIsSound
<1>4. CASE c.by = "hook"
  <2>1. c \in HookLogouts /\ c \notin Refreshes
    BY <1>2, <1>4 DEF HookLogouts, Refreshes
  <2>2. Over /\ c.token \notin live
    BY <2>1 DEF Usable, Over
  <2>3. live' = live /\ ~killed'
    BY <1>2, <2>2
  <2>4. /\ Refreshes' \subseteq Refreshes /\ HookLogouts' \subseteq HookLogouts \cup {d}
        /\ Refreshes \subseteq Refreshes' /\ jar' = jar /\ d.token = c.token
    BY <1>1, <2>1, ApiKeepsKinds
  <2>5. Over'
    BY <2>1, <2>2, <2>3, <2>4 DEF Over, Refused
  <2> QED BY <2>3, <2>5
<1>5. CASE c.by = "user"
  <2>1. ~killed'
    BY <1>2, <1>5
  <2>2. c \notin Refreshes /\ c \notin HookLogouts
    BY <1>2, <1>5 DEF HookLogouts, Refreshes
  <2> QED BY <1>1, <1>2, <2>1, <2>2, OthersLeaveSession
<1> QED BY <1>3, <1>4, <1>5

LEMMA RefreshKeepsSession ==
    ASSUME TypeOK, Usable \/ Over, NEW c \in InFlight, ServeRefresh(c)
    PROVE  (Usable \/ Over)' /\ killed' = killed
<1>1. live' = live /\ killed' = killed /\ c.kind = "refresh"
  BY RefreshDoes
<1>2. c \in Refreshes
  BY <1>1 DEF Refreshes
<1>3. PICK d : /\ Api(c, d)
               /\ \/ c.token \notin live /\ d.pc = "answered" /\ d.status = 401
                  \/ c.token \in live /\ d.pc = "rotating"
  BY RefreshDoes DEF Answered
<1>4. /\ Refreshes' \subseteq Refreshes \cup {d} /\ HookLogouts' \subseteq HookLogouts \cup {d}
      /\ d \in Refreshes' /\ jar' = jar /\ d.token = c.token
      /\ Refreshes \ {c} \subseteq Refreshes'
  BY <1>2, <1>3, ApiKeepsKinds
<1>5. d \notin HookLogouts'
  BY <1>4 DEF Refreshes, HookLogouts
<1>6. CASE Usable
  BY <1>1, <1>2, <1>3, <1>4, <1>5, <1>6 DEF Usable, Refused
<1>7. CASE Over
  BY <1>1, <1>2, <1>3, <1>4, <1>5, <1>7 DEF Over, Refused
<1> QED BY <1>1, <1>6, <1>7

LEMMA RotateKeepsSession ==
    ASSUME TypeOK, AnswerInv, Usable \/ Over, NEW c \in InFlight, Rotate(c)
    PROVE  (Usable \/ Over)' /\ killed' = killed
<1>1. c.pc = "rotating" /\ killed' = killed
  BY RotateDoes
<1>2. PICK d, t : Renewed(c, d, t) /\ live' = (live \ {c.token}) \cup {t}
  BY RotateDoes
<1>3. c \in Refreshes
  BY <1>1 DEF AnswerInv, CallIsSound, Refreshes
<1>4. Usable /\ c.token = jar.token
  BY <1>1, <1>3 DEF Usable, Over, Refused
<1>5. Api(c, d) /\ d.status = 200 /\ t # jar.token
  BY <1>2 DEF Renewed, Free
<1>6. /\ Refreshes' \subseteq Refreshes \cup {d} /\ HookLogouts' \subseteq HookLogouts \cup {d}
      /\ d \in Refreshes' /\ jar' = jar /\ d.token = c.token
  BY <1>3, <1>5, ApiKeepsKinds
<1>7. d \notin HookLogouts'
  BY <1>6 DEF Refreshes, HookLogouts
<1>8. Usable'
  BY <1>2, <1>4, <1>5, <1>6, <1>7 DEF Usable, Refused
<1> QED BY <1>1, <1>8

LEMMA ApiKeepsSession ==
    ASSUME TypeOK, AnswerInv, RaceInv, SessionInv, NEW c \in InFlight,
           \/ Refuse(c) \/ Turn(c) \/ Serve(c) \/ \E right \in BOOLEAN : ServeLogin(c, right)
           \/ ServeLogout(c) \/ ServeRefresh(c) \/ Rotate(c) \/ Lose(c)
    PROVE  SessionInv'
<1>1. CASE Turn(c)
  <2>1. limited'
    BY <1>1, TurnDoes
  <2> QED BY <2>1 DEF SessionInv, Calm
<1>2. CASE Lose(c)
  <2>1. faults' = faults + 1 /\ faults \in Nat
    BY <1>2, LoseDoes DEF TypeOK
  <2>2. faults' # 0
    BY <2>1
  <2> QED BY <2>2 DEF SessionInv, Calm
<1>3. CASE ~Turn(c) /\ ~Lose(c)
  <2>1. raced' = raced /\ left' = left
    BY ApiStep, ApiMoves
  <2>2. limited' = limited /\ faults' = faults
    BY <1>3, RefuseDoes, ServeDoes, LoginDoes, LoginFailsDoes, LogoutDoes, RefreshDoes, RotateDoes
  <2>3. SUFFICES ASSUME Calm PROVE (Usable \/ Over)' /\ ~killed'
    BY <2>1, <2>2 DEF SessionInv, Calm
  <2>4. ~killed /\ (Usable \/ Over)
    BY <2>3 DEF SessionInv
  <2>5. CASE Refuse(c) \/ Serve(c) \/ ServeLogin(c, FALSE)
    BY <2>3, <2>4, <2>5, RefuseKeepsSession
  <2>6. CASE ServeLogin(c, TRUE)
    BY <2>4, <2>6, LoginKeepsSession
  <2>7. CASE ServeLogout(c)
    BY <2>3, <2>4, <2>7, LogoutKeepsSession
  <2>8. CASE ServeRefresh(c)
    BY <2>4, <2>8, RefreshKeepsSession
  <2>9. CASE Rotate(c)
    BY <2>4, <2>9, RotateKeepsSession
  <2> QED BY <1>3, <2>5, <2>6, <2>7, <2>8, <2>9
<1> QED BY <1>1, <1>2, <1>3

\* In calm, an answer that is not 200 is 401.
LEMMA CalmAnswers ==
    ASSUME TypeOK, AnswerInv, Calm, NEW c \in InFlight, c.pc = "answered", c.status # 200
    PROVE  c.status = 401 /\ c.kind \notin {"me", "logout"}
<1>1. c.status \in {0, 200, 401, 429, 500} /\ CallIsSound(c)
  BY CallIsTyped DEF AnswerInv
<1> QED BY <1>1 DEF Calm, CallIsSound

\* The calls after the page has taken an answer.
LEMMA TakenKinds ==
    ASSUME NEW c \in InFlight, NEW new, Taken(c, new)
    PROVE  /\ Refreshes' = (Refreshes \cap InFlight') \cup {d \in new : d.kind = "refresh"}
           /\ HookLogouts' = (HookLogouts \cap InFlight') \cup {d \in new : d.kind = "logout" /\ d.by = "hook"}
           /\ \A e \in InFlight : e # c => e \in InFlight'
           /\ c.kind # "refresh" => Refreshes \subseteq Refreshes'
           /\ live' = live /\ killed' = killed
BY DEF Taken, Refreshes, HookLogouts

\* What is sent after a 401 carries the token of the jar.
LEMMA HookedKeepsSession ==
    ASSUME TypeOK, Usable \/ Over, NEW c \in InFlight, c.kind # "refresh",
           NEW new, Taken(c, new), Hooked(c, new, FALSE), jar' = jar
    PROVE  (Usable \/ Over)'
<1>1. /\ Refreshes' \subseteq Refreshes \cup new /\ HookLogouts' \subseteq HookLogouts
      /\ Refreshes \subseteq Refreshes' /\ live' = live
      /\ \A d \in new : d.token = jar.token /\ d.pc = "sent"
  BY TakenKinds DEF Hooked, Taken
<1>2. CASE Usable
  BY <1>1, <1>2 DEF Usable, Refused
<1>3. CASE Over
  BY <1>1, <1>3 DEF Over, Refused
<1> QED BY <1>2, <1>3

LEMMA AfterRefreshKeepsSession ==
    ASSUME TypeOK, AnswerInv, ~Races(calls), Calm, Usable \/ Over, NEW c \in InFlight, AfterRefresh(c)
    PROVE  (Usable \/ Over)'
<1>0. c.kind = "refresh" /\ c \in Refreshes /\ c.pc = "answered" /\ Refreshes \subseteq InFlight
  BY AfterRefreshDoes DEF Refreshes, AfterRefresh
<1>1. CASE c.status = 200
  <2>1. PICK d : Resumed(c, d)
    BY <1>1, AfterRefreshDoes
  <2>2. Usable
    BY <1>0, <1>1 DEF Over, Refused
  <2>3. Taken(c, {d}) /\ d.kind = "me"
    BY <2>1 DEF Resumed
  <2>4. \A e \in Refreshes : e = c /\ ~(calls[c] > 1)
    <3> SUFFICES ASSUME NEW e \in Refreshes PROVE e = c /\ ~(calls[c] > 1)
      OBVIOUS
    <3>1. e \in InFlight /\ e.kind = "refresh" /\ e.token = c.token
      BY <1>0, <2>2 DEF Refreshes, Usable
    <3> QED BY <1>0, <3>1, NoRace
  <2>5. calls[c] \in Nat /\ calls[c] > 0
    BY DEF TypeOK, IsABag, InFlight, BagToSet
  <2>6. calls[c] = 1
    BY <1>0, <2>4, <2>5
  <2>7. c \notin InFlight'
    BY <2>3, <2>6 DEF Taken
  <2>8. Refreshes' = {} /\ HookLogouts' = {}
    BY <2>2, <2>3, <2>4, <2>7, TakenKinds DEF Usable
  <2> QED BY <2>8 DEF Usable
<1>2. CASE c.status # 200
  <2>1. c.status = 401 /\ jar' = jar
    BY <1>0, <1>2, CalmAnswers, AfterRefreshDoes
  <2>2. PICK new : Taken(c, new) /\ Hooked(c, new, c.by = "hook")
    BY <1>2, AfterRefreshDoes
  <2>3. /\ Refreshes' \subseteq Refreshes \cup new /\ HookLogouts' \subseteq HookLogouts \cup new
        /\ live' = live
        /\ \A d \in new : d.token = jar.token /\ d.pc = "sent"
        /\ \E d \in new : d.kind = "refresh"
    <3>1. /\ \A d \in new : d.token = jar.token /\ d.pc = "sent"
          /\ \E d \in new : d.kind = "refresh"
      BY <2>1, <2>2 DEF Hooked, Taken
    <3>2. /\ Refreshes' \subseteq Refreshes \cup new /\ HookLogouts' \subseteq HookLogouts \cup new
          /\ live' = live
      BY <2>2, TakenKinds
    <3> QED BY <3>1, <3>2
  <2>4. Refreshes' # {}
    BY <2>2, <2>3, TakenKinds
  <2>5. CASE Over
    BY <2>1, <2>3, <2>4, <2>5 DEF Over, Refused
  <2>6. CASE Usable
    <3>1. HookLogouts = {} /\ c.token = jar.token /\ jar.token \notin live
      BY <1>0, <2>1, <2>6 DEF Usable, Refused
    <3>2. \A e \in Refreshes : e = c
      <4> SUFFICES ASSUME NEW e \in Refreshes PROVE e = c
        OBVIOUS
      <4>1. e \in InFlight /\ e.kind = "refresh" /\ e.token = c.token
        BY <1>0, <2>6 DEF Refreshes, Usable
      <4> QED BY <1>0, <4>1, NoRace
    <3> QED BY <1>0, <2>1, <2>3, <2>4, <3>1, <3>2 DEF Over, Refused
  <2> QED BY <2>5, <2>6
<1> QED BY <1>1, <1>2

LEMMA AfterMeKeepsSession ==
    ASSUME TypeOK, AnswerInv, Calm, Usable \/ Over, NEW c \in InFlight, AfterMe(c)
    PROVE  (Usable \/ Over)'
<1>1. c.kind = "me" /\ jar' = jar /\ c.pc = "answered"
  BY AfterMeDoes DEF AfterMe
<1>2. c.status = 200
  BY <1>1, CalmAnswers
<1>3. Taken(c, {})
  BY <1>2, AfterMeDoes
<1>4. Hooked(c, {}, FALSE)
  BY <1>2 DEF Hooked
<1> QED BY <1>1, <1>3, <1>4, HookedKeepsSession

LEMMA AfterLoginKeepsSession ==
    ASSUME TypeOK, AnswerInv, ~Races(calls), Calm, Usable \/ Over, NEW c \in InFlight, AfterLogin(c)
    PROVE  (Usable \/ Over)'
<1>1. c.kind = "login" /\ c.by = "login"
  BY AfterLoginDoes DEF AnswerInv, CallIsSound
<1>2. Refreshes = {}
  <2> SUFFICES ASSUME NEW e \in Refreshes PROVE FALSE
    OBVIOUS
  <2>1. e \in InFlight /\ e.kind = "refresh"
    BY DEF Refreshes
  <2> QED BY <1>1, <2>1, NoRace
<1>3. HookLogouts = {}
  BY <1>2 DEF Usable, Over
<1>4. CASE c.status = 200
  <2>1. PICK d : Resumed(c, d)
    BY <1>4, AfterLoginDoes
  <2>2. Taken(c, {d}) /\ d.kind = "me"
    BY <2>1 DEF Resumed
  <2>3. Refreshes' = {} /\ HookLogouts' = {}
    BY <1>2, <1>3, <2>2, TakenKinds
  <2> QED BY <2>3 DEF Usable
<1>5. CASE c.status # 200
  <2>1. jar' = jar /\ \E new : Taken(c, new) /\ Hooked(c, new, FALSE)
    BY <1>5, AfterLoginDoes
  <2> QED BY <1>1, <2>1, HookedKeepsSession
<1> QED BY <1>4, <1>5

LEMMA AfterLogoutKeepsSession ==
    ASSUME TypeOK, AnswerInv, ~Crosses(calls, {"user"}), Calm, Usable \/ Over,
           NEW c \in InFlight, AfterLogout(c)
    PROVE  (Usable \/ Over)'
<1>1. c.kind = "logout" /\ Taken(c, {}) /\ c.pc = "answered"
  BY AfterLogoutDoes DEF AfterLogout
<1>2. c.status = 200 /\ jar' = NoCookies
  BY <1>1, CalmAnswers, AfterLogoutDoes
<1>3. /\ Refreshes' \subseteq Refreshes /\ HookLogouts' \subseteq HookLogouts
      /\ Refreshes \subseteq Refreshes' /\ live' = live
  BY <1>1, TakenKinds
<1>4. jar'.token = 0 /\ 0 \notin live
  BY <1>2 DEF NoCookies, TypeOK
<1>5. CASE c.by = "hook"
  <2>1. Over
    BY <1>1, <1>5 DEF Usable, HookLogouts
  <2> QED BY <1>3, <1>4, <2>1 DEF Over, Refused
<1>6. CASE c.by = "user"
  <2>1. Refreshes = {}
    BY <1>1, <1>6, NoCrossing DEF Refreshes
  <2>2. HookLogouts = {}
    BY <2>1 DEF Usable, Over
  <2> QED BY <1>3, <2>1, <2>2 DEF Usable
<1>7. c.by \in {"hook", "user"}
  BY <1>1 DEF AnswerInv, CallIsSound
<1> QED BY <1>5, <1>6, <1>7

LEMMA AfterDataKeepsSession ==
    ASSUME TypeOK, Usable \/ Over, NEW c \in InFlight, AfterData(c)
    PROVE  (Usable \/ Over)'
<1>1. c.kind = "data" /\ jar' = jar /\ \E new : Taken(c, new) /\ Hooked(c, new, FALSE)
  BY AfterDataDoes
<1> QED BY <1>1, HookedKeepsSession

LEMMA PageKeepsSession ==
    ASSUME TypeOK, AnswerInv, RaceInv, SessionInv, NEW c \in InFlight,
           AfterRefresh(c) \/ AfterMe(c) \/ AfterLogin(c) \/ AfterLogout(c) \/ AfterData(c)
    PROVE  SessionInv'
<1>1. PICK new : Taken(c, new)
  BY PageStep
<1>2. /\ raced => raced'
      /\ left => left'
      /\ limited' = limited /\ faults' = faults /\ killed' = killed
  BY <1>1 DEF Taken
<1>3. SUFFICES ASSUME Calm PROVE (Usable \/ Over)' /\ ~killed'
  BY <1>2 DEF SessionInv, Calm
<1>4. ~killed /\ (Usable \/ Over)
  BY <1>3 DEF SessionInv
<1>5. ~Races(calls) /\ ~Crosses(calls, {"user"})
  BY <1>3 DEF RaceInv, Calm
<1>6. (Usable \/ Over)'
  <2>1. CASE AfterRefresh(c)
    BY <1>3, <1>4, <1>5, <2>1, AfterRefreshKeepsSession
  <2>2. CASE AfterMe(c)
    BY <1>3, <1>4, <2>2, AfterMeKeepsSession
  <2>3. CASE AfterLogin(c)
    BY <1>3, <1>4, <1>5, <2>3, AfterLoginKeepsSession
  <2>4. CASE AfterLogout(c)
    BY <1>3, <1>4, <1>5, <2>4, AfterLogoutKeepsSession
  <2>5. CASE AfterData(c)
    BY <1>4, <2>5, AfterDataKeepsSession
  <2> QED BY <2>1, <2>2, <2>3, <2>4, <2>5
<1> QED BY <1>2, <1>4, <1>6

\* A click is neither a refresh nor a logout of the hook.
LEMMA ClickKeepsSession ==
    ASSUME TypeOK, SessionInv, NEW kind \in {"data", "login", "logout"}, NEW by \in {"login", "user"},
           Click(kind, by)
    PROVE  SessionInv'
<1>1. PICK d : d.kind = kind /\ d.by = by /\ InFlight' = InFlight \cup {d}
  BY ClickDoes
<1>2. Refreshes' = Refreshes /\ HookLogouts' = HookLogouts
  BY <1>1 DEF Refreshes, HookLogouts
<1>3. UNCHANGED <<jar, live, faults>>
  BY ClickDoes
<1>4. /\ raced' = ((raced /\ calls # EmptyBag) \/ Races(calls'))
      /\ left' = ((left /\ calls # EmptyBag) \/ Crosses(calls', {"user"}))
      /\ limited' = (limited /\ calls # EmptyBag) /\ killed' = (killed /\ calls # EmptyBag)
  BY ClickDoes, Zenon
<1>5. CASE calls = EmptyBag
  <2>1. Refreshes' = {} /\ HookLogouts' = {}
    BY <1>2, <1>5, RestIsEmpty DEF Refreshes, HookLogouts
  <2>2. ~killed'
    BY <1>4, <1>5, Zenon
  <2> QED BY <2>1, <2>2 DEF SessionInv, Usable
<1>6. CASE calls # EmptyBag
  <2>1. /\ raced => raced'
        /\ left => left'
        /\ limited => limited'
        /\ killed' => killed
    BY <1>4, <1>6, Zenon
  <2>2. Usable => Usable'
    BY <1>2, <1>3 DEF Usable, Refused
  <2>3. Over => Over'
    BY <1>2, <1>3 DEF Over, Refused
  <2> QED BY <1>3, <2>1, <2>2, <2>3 DEF SessionInv, Calm
<1> QED BY <1>5, <1>6

LEMMA SessionStays == TypeOK /\ AnswerInv /\ RaceInv /\ SessionInv /\ [Next]_vars => SessionInv'
<1> SUFFICES ASSUME TypeOK, AnswerInv, RaceInv, SessionInv, [Next]_vars PROVE SessionInv'
  OBVIOUS
<1>1. ASSUME InFlight' = InFlight, UNCHANGED <<live, faults, raced, limited, left, killed>>,
             jar'.token = jar.token
      PROVE  SessionInv'
  BY <1>1 DEF SessionInv, Calm, Usable, Over, Refused, Refreshes, HookLogouts
<1>2. CASE AccessExpires
  BY <1>1, <1>2, ExpiresDoes
<1>3. CASE NextWindow
  BY <1>1, <1>3, WindowDoes
<1>4. CASE UNCHANGED vars
  BY <1>1, <1>4 DEF vars, server, counts, history, InFlight
<1>5. /\ Click("data", "user") => SessionInv'
      /\ Click("login", "login") => SessionInv'
      /\ Click("logout", "user") => SessionInv'
  BY ClickKeepsSession
<1> QED
  BY <1>2, <1>3, <1>4, <1>5, BrowserSteps, ApiKeepsSession, PageKeepsSession

-----------------------------------------------------------------------------
(* A page at rest has the session that it shows *)

\* The call c brings the cookies of a token that is live and that nobody else has.
Brings(c) == c.kind \in {"refresh", "login"} /\ c.status = 200

BringsInv == \A c \in InFlight : Brings(c) =>
    /\ c.fresh \in live /\ calls[c] = 1 /\ c.fresh # jar.token
    /\ \A d \in InFlight : d.token # c.fresh /\ (d # c => d.fresh # c.fresh)

Mes == {c \in InFlight : c.kind = "me"}

\* Nobody asks for the user while the page's first refresh still has the jar's token.
FirstInv == \A c \in InFlight :
    c.kind = "refresh" /\ c.by = "bootstrap" => Mes = {} \/ c.token # jar.token \/ crossed

\* Unless a logout has crossed what signs the user in, the jar's token is live, or a logout
\* is on its way, or the answer of a refresh that replaced the token, or nobody is shown.
Replaced(c) == c.kind = "refresh" /\ c.pc = "answered" /\ c.token = jar.token /\ c.status \in {200, 500}

LiveInv == ~crossed =>
    \/ jar.token \in live
    \/ \E c \in InFlight : c.kind = "logout" \/ Replaced(c)
    \/ ~user /\ Mes = {}

\* A call that is renewed has a token of its own.
LEMMA RenewedKeepsBrings ==
    ASSUME TypeOK, AnswerInv, BringsInv, NEW c \in InFlight, NEW d, NEW t, Renewed(c, d, t),
           c.pc # "answered", t \in live', live \ {c.token} \subseteq live'
    PROVE  BringsInv'
<1>1. /\ InFlight' \subseteq InFlight \cup {d} /\ jar' = jar /\ d.token = c.token
      /\ \A e \in InFlight : e # c /\ e # d => calls'[e] = calls[e]
      /\ d \notin InFlight => calls'[d] = 1
  BY ApiMoves DEF Renewed, Keeps
<1>2. /\ d.fresh = t /\ t # jar.token
      /\ \A e \in InFlight : e.token # t /\ e.fresh # t
  BY DEF Renewed, Free
<1>3. d \notin InFlight
  BY <1>2
<1>4. c.status # 200
  BY CallIsTyped DEF AnswerInv, CallIsSound
<1>5. SUFFICES ASSUME NEW e \in InFlight', Brings(e)
              PROVE  /\ e.fresh \in live' /\ calls'[e] = 1 /\ e.fresh # jar.token
                     /\ \A x \in InFlight' : x.token # e.fresh /\ (x # e => x.fresh # e.fresh)
  BY <1>1 DEF BringsInv, Brings
<1>6. CASE e = d
  BY <1>1, <1>2, <1>3, <1>6
<1>7. CASE e # d
  <2>1. e \in InFlight /\ e # c
    BY <1>1, <1>4, <1>5, <1>7 DEF Brings
  <2>2. /\ e.fresh \in live /\ calls[e] = 1 /\ e.fresh # jar.token
        /\ \A x \in InFlight : x.token # e.fresh /\ (x # e => x.fresh # e.fresh)
    BY <1>5, <2>1 DEF BringsInv
  <2>3. calls'[e] = 1
    BY <1>1, <1>7, <2>1, <2>2
  <2>4. e.fresh \in live'
    BY <2>2
  <2> QED BY <1>1, <1>2, <2>1, <2>2, <2>3, <2>4
<1> QED BY <1>6, <1>7

\* Another call that goes on brings nothing new and takes nothing away.
LEMMA OthersKeepBrings ==
    ASSUME TypeOK, BringsInv, NEW c \in InFlight, NEW d, Api(c, d), d.fresh = c.fresh, ~Brings(d),
           live \ {c.token} \subseteq live'
    PROVE  BringsInv'
<1>1. /\ InFlight' \subseteq InFlight \cup {d} /\ jar' = jar /\ d.token = c.token
      /\ \A e \in InFlight : e # c /\ e # d => calls'[e] = calls[e]
      /\ calls[c] = 1 => c \notin InFlight'
  BY ApiMoves DEF Keeps
<1>2. SUFFICES ASSUME NEW e \in InFlight', Brings(e)
              PROVE  /\ e.fresh \in live' /\ calls'[e] = 1 /\ e.fresh # jar.token
                     /\ \A x \in InFlight' : x.token # e.fresh /\ (x # e => x.fresh # e.fresh)
  BY <1>1 DEF BringsInv, Brings
<1>3. e \in InFlight /\ e # d
  BY <1>1, <1>2
<1>4. /\ e.fresh \in live /\ calls[e] = 1 /\ e.fresh # jar.token
      /\ \A x \in InFlight : x.token # e.fresh /\ (x # e => x.fresh # e.fresh)
  BY <1>2, <1>3 DEF BringsInv
<1>5. e # c
  BY <1>1, <1>4
<1> QED BY <1>1, <1>3, <1>4, <1>5

LEMMA ApiKeepsBrings ==
    ASSUME TypeOK, AnswerInv, BringsInv, NEW c \in InFlight,
           \/ Refuse(c) \/ Turn(c) \/ Serve(c) \/ \E right \in BOOLEAN : ServeLogin(c, right)
           \/ ServeLogout(c) \/ ServeRefresh(c) \/ Rotate(c) \/ Lose(c)
    PROVE  BringsInv'
<1>1. ASSUME NEW s \in {401, 429}, \E d : Answered(c, d, s), live' = live
      PROVE  BringsInv'
  BY <1>1, OthersKeepBrings DEF Answered, Brings
<1>2. ASSUME \E d : Answered(c, d, 200), c.kind \in {"me", "data", "logout"}, live \ {c.token} \subseteq live'
      PROVE  BringsInv'
  <2>1. PICK d : Answered(c, d, 200)
    BY <1>2
  <2>2. ~Brings(d) /\ Api(c, d) /\ d.fresh = c.fresh
    BY <1>2, <2>1 DEF Answered, Api, Keeps, Brings
  <2> QED BY <1>2, <2>2, OthersKeepBrings
<1>3. CASE Refuse(c)
  <2>1. live' = live /\ \E d : Answered(c, d, 401)
    BY <1>3, RefuseDoes
  <2> QED BY <1>1, <2>1
<1>4. CASE Turn(c)
  <2>1. live' = live /\ \E d : Answered(c, d, 429)
    BY <1>4, TurnDoes
  <2> QED BY <1>1, <2>1
<1>5. CASE Serve(c)
  BY <1>2, <1>5, ServeDoes
<1>6. CASE ServeLogin(c, TRUE)
  <2>1. PICK d, t : Renewed(c, d, t) /\ live' = live \cup {t}
    BY <1>6, LoginDoes
  <2>2. c.pc = "sent"
    BY <1>6, LoginDoes
  <2> QED BY <2>1, <2>2, RenewedKeepsBrings
<1>7. CASE ServeLogin(c, FALSE)
  <2>1. live' = live /\ \E d : Answered(c, d, 401)
    BY <1>7, LoginFailsDoes
  <2> QED BY <1>1, <2>1
<1>8. CASE ServeLogout(c)
  <2>1. c.kind = "logout" /\ live' = live \ {c.token} /\ \E d : Answered(c, d, 200)
    BY <1>8, LogoutDoes
  <2> QED BY <1>2, <2>1
<1>9. CASE ServeRefresh(c)
  <2>1. live' = live /\ c.pc = "sent"
    BY <1>9, RefreshDoes
  <2>2. CASE \E d : Answered(c, d, 401)
    BY <1>1, <2>1, <2>2
  <2>3. CASE \E d : Api(c, d) /\ d.status = c.status /\ d.fresh = c.fresh
    <3>1. PICK d : Api(c, d) /\ d.status = c.status /\ d.fresh = c.fresh
      BY <2>3
    <3>2. c.status = 0
      BY <2>1 DEF AnswerInv, CallIsSound
    <3> QED BY <2>1, <3>1, <3>2, OthersKeepBrings DEF Brings
  <2> QED BY <1>9, <2>2, <2>3, RefreshDoes
<1>10. CASE Rotate(c)
  <2>1. PICK d, t : Renewed(c, d, t) /\ live' = (live \ {c.token}) \cup {t}
    BY <1>10, RotateDoes
  <2>2. c.pc = "rotating"
    BY <1>10, RotateDoes
  <2> QED BY <2>1, <2>2, RenewedKeepsBrings
<1>11. CASE Lose(c)
  <2>1. PICK d : Api(c, d) /\ d.status = 500 /\ d.fresh = c.fresh
    BY <1>11, LoseDoes
  <2>2. live' = live
    BY <1>11, LoseDoes
  <2> QED BY <2>1, <2>2, OthersKeepBrings DEF Brings
<1> QED BY <1>3, <1>4, <1>5, <1>6, <1>7, <1>8, <1>9, <1>10, <1>11

\* When the page takes an answer the others keep what they bring: what is sent has the
\* token of the jar or the token that the answer brought.
LEMMA TakenKeepsBrings ==
    ASSUME TypeOK, BringsInv, NEW c \in InFlight, NEW new, Taken(c, new),
           jar'.token \in {jar.token, 0} \/ (Brings(c) /\ jar'.token = c.fresh),
           \A d \in new : d.token = jar.token \/ (Brings(c) /\ d.token = c.fresh)
    PROVE  BringsInv'
<1>1. /\ InFlight' \subseteq InFlight \cup new /\ live' = live
      /\ \A e \in InFlight : e # c /\ e \notin new => calls'[e] = calls[e]
      /\ calls[c] = 1 => c \notin InFlight'
      /\ \A d \in new : d.status = 0 /\ d.fresh = 0
  BY DEF Taken
<1>2. 0 \notin live
  BY DEF TypeOK
<1>3. SUFFICES ASSUME NEW e \in InFlight', Brings(e)
              PROVE  /\ e.fresh \in live' /\ calls'[e] = 1 /\ e.fresh # jar'.token
                     /\ \A x \in InFlight' : x.token # e.fresh /\ (x # e => x.fresh # e.fresh)
  BY DEF BringsInv, Brings
<1>4. e \in InFlight /\ e \notin new
  BY <1>1, <1>3 DEF Brings
<1>5. /\ e.fresh \in live /\ calls[e] = 1 /\ e.fresh # jar.token
      /\ \A x \in InFlight : x.token # e.fresh /\ (x # e => x.fresh # e.fresh)
  BY <1>3, <1>4 DEF BringsInv
<1>6. e # c
  BY <1>1, <1>5
<1>7. e.fresh # 0 /\ c.fresh # e.fresh
  BY <1>2, <1>5, <1>6
<1> QED BY <1>1, <1>4, <1>5, <1>6, <1>7

LEMMA PageKeepsBrings ==
    ASSUME TypeOK, BringsInv, NEW c \in InFlight,
           AfterRefresh(c) \/ AfterMe(c) \/ AfterLogin(c) \/ AfterLogout(c) \/ AfterData(c)
    PROVE  BringsInv'
<1>1. ASSUME NEW new, NEW gives, Taken(c, new), Hooked(c, new, gives), jar' = jar
      PROVE  BringsInv'
  BY <1>1, TakenKeepsBrings DEF Hooked
<1>2. ASSUME NEW d, Resumed(c, d), Brings(c)
      PROVE  BringsInv'
  <2>1. Taken(c, {d}) /\ d.token = c.fresh /\ jar'.token = c.fresh
    BY <1>2 DEF Resumed
  <2> QED BY <1>2, <2>1, TakenKeepsBrings
<1>3. ASSUME Taken(c, {}), jar'.token \in {jar.token, 0} PROVE BringsInv'
  BY <1>3, TakenKeepsBrings
<1>4. CASE AfterRefresh(c)
  <2>1. c.kind = "refresh"
    BY <1>4, AfterRefreshDoes
  <2> QED BY <1>1, <1>2, <1>4, <2>1, AfterRefreshDoes DEF Brings
<1>5. CASE AfterMe(c)
  <2>1. jar' = jar
    BY <1>5, AfterMeDoes
  <2> QED BY <1>1, <1>3, <1>5, <2>1, AfterMeDoes
<1>6. CASE AfterLogin(c)
  <2>1. c.kind = "login"
    BY <1>6, AfterLoginDoes
  <2> QED BY <1>1, <1>2, <1>6, <2>1, AfterLoginDoes DEF Brings
<1>7. CASE AfterLogout(c)
  <2>1. Taken(c, {}) /\ jar' = IF c.status = 200 THEN NoCookies ELSE jar
    BY <1>7, AfterLogoutDoes
  <2> QED BY <1>3, <2>1 DEF NoCookies
<1>8. CASE AfterData(c)
  <2>1. jar' = jar
    BY <1>8, AfterDataDoes
  <2> QED BY <1>1, <1>8, <2>1, AfterDataDoes
<1> QED BY <1>4, <1>5, <1>6, <1>7, <1>8

LEMMA ClickKeepsBrings ==
    ASSUME TypeOK, BringsInv, NEW kind \in {"data", "login", "logout"}, NEW by \in {"login", "user"},
           Click(kind, by)
    PROVE  BringsInv'
<1>1. PICK d : /\ d.status = 0 /\ d.token = jar.token /\ d.fresh = 0
               /\ InFlight' = InFlight \cup {d}
               /\ \A e \in InFlight : e # d => calls'[e] = calls[e]
  BY ClickDoes
<1>2. UNCHANGED <<jar, live>> /\ 0 \notin live
  BY ClickDoes DEF TypeOK
<1> QED BY <1>1, <1>2 DEF BringsInv, Brings

LEMMA BringsStay == TypeOK /\ AnswerInv /\ BringsInv /\ [Next]_vars => BringsInv'
<1> SUFFICES ASSUME TypeOK, AnswerInv, BringsInv, [Next]_vars PROVE BringsInv'
  OBVIOUS
<1>1. ASSUME InFlight' = InFlight, calls' = calls, live' = live, jar'.token = jar.token PROVE BringsInv'
  BY <1>1 DEF BringsInv, Brings
<1>2. CASE AccessExpires
  BY <1>1, <1>2, ExpiresDoes
<1>3. CASE NextWindow
  BY <1>1, <1>3, WindowDoes
<1>4. CASE UNCHANGED vars
  BY <1>1, <1>4 DEF vars, server, InFlight
<1>5. /\ Click("data", "user") => BringsInv'
      /\ Click("login", "login") => BringsInv'
      /\ Click("logout", "user") => BringsInv'
  BY ClickKeepsBrings
<1> QED
  BY <1>2, <1>3, <1>4, <1>5, BrowserSteps, ApiKeepsBrings, PageKeepsBrings

\* The calls of a kind after a step of the API, and after one of the page.
LEMMA ApiKeepsCalls ==
    ASSUME TypeOK, NEW c \in InFlight, NEW d, Api(c, d)
    PROVE  /\ Mes = {} => Mes' = {}
           /\ \A e \in InFlight' : \E x \in InFlight :
                x.kind = e.kind /\ x.by = e.by /\ x.token = e.token
           /\ \A e \in InFlight : \E x \in InFlight' : x.kind = e.kind /\ x.by = e.by
BY ApiMoves DEF Mes, Keeps

LEMMA ApiKeepsFirst ==
    ASSUME TypeOK, FirstInv, NEW c \in InFlight, NEW d, Api(c, d)
    PROVE  FirstInv'
<1>1. jar' = jar /\ crossed' = crossed
  BY ApiMoves
<1>2. SUFFICES ASSUME NEW e \in InFlight', e.kind = "refresh", e.by = "bootstrap"
              PROVE  Mes' = {} \/ e.token # jar'.token \/ crossed'
  BY DEF FirstInv
<1>3. PICK x \in InFlight : x.kind = e.kind /\ x.by = e.by /\ x.token = e.token
  BY ApiKeepsCalls
<1>4. Mes = {} \/ e.token # jar.token \/ crossed
  BY <1>2, <1>3 DEF FirstInv
<1> QED BY <1>1, <1>4, ApiKeepsCalls

\* No call is the page's first refresh unless it was in flight.
LEMMA TakenKeepsFirst ==
    ASSUME TypeOK, FirstInv, NEW c \in InFlight, NEW new, Taken(c, new), jar' = jar,
           \A d \in new : d.kind # "me" /\ d.by # "bootstrap"
    PROVE  FirstInv'
<1>1. InFlight' \subseteq InFlight \cup new /\ (crossed => crossed')
  BY DEF Taken
<1>2. Mes' \subseteq Mes
  BY <1>1 DEF Mes
<1> QED BY <1>1, <1>2 DEF FirstInv

LEMMA ResumedKeepsFirst ==
    ASSUME TypeOK, BringsInv, NEW c \in InFlight, NEW d, Resumed(c, d), Brings(c)
    PROVE  FirstInv'
<1>1. InFlight' \subseteq InFlight \cup {d} /\ d.kind = "me" /\ jar'.token = c.fresh
  BY DEF Resumed, Taken
<1>2. \A e \in InFlight : e.token # jar'.token
  BY <1>1 DEF BringsInv
<1> QED BY <1>1, <1>2 DEF FirstInv

LEMMA LogoutKeepsFirst ==
    ASSUME TypeOK, AnswerInv, RaceInv, NEW c \in InFlight, AfterLogout(c)
    PROVE  crossed' \/ Mes' = {}
<1>1. c.kind = "logout" /\ Taken(c, {})
  BY AfterLogoutDoes
<1>2. c.by \in {"hook", "user"}
  BY <1>1 DEF AnswerInv, CallIsSound
<1>3. crossed \/ Mes = {}
  BY <1>1, <1>2, NoCrossing DEF RaceInv, Mes
<1> QED BY <1>1, <1>3 DEF Taken, Mes

LEMMA PageKeepsFirst ==
    ASSUME TypeOK, AnswerInv, RaceInv, BringsInv, FirstInv, NEW c \in InFlight,
           AfterRefresh(c) \/ AfterMe(c) \/ AfterLogin(c) \/ AfterLogout(c) \/ AfterData(c)
    PROVE  FirstInv'
<1>1. ASSUME NEW new, NEW gives, Taken(c, new), Hooked(c, new, gives), jar' = jar
      PROVE  FirstInv'
  BY <1>1, TakenKeepsFirst DEF Hooked
<1>2. ASSUME NEW d, Resumed(c, d), Brings(c) PROVE FirstInv'
  BY <1>2, ResumedKeepsFirst
<1>3. ASSUME Taken(c, {}), jar' = jar PROVE FirstInv'
  BY <1>3, TakenKeepsFirst
<1>4. CASE AfterRefresh(c)
  <2>1. c.kind = "refresh"
    BY <1>4, AfterRefreshDoes
  <2> QED BY <1>1, <1>2, <1>4, <2>1, AfterRefreshDoes DEF Brings
<1>5. CASE AfterMe(c)
  <2>1. jar' = jar
    BY <1>5, AfterMeDoes
  <2> QED BY <1>1, <1>3, <1>5, <2>1, AfterMeDoes
<1>6. CASE AfterLogin(c)
  <2>1. c.kind = "login"
    BY <1>6, AfterLoginDoes
  <2> QED BY <1>1, <1>2, <1>6, <2>1, AfterLoginDoes DEF Brings
<1>7. CASE AfterLogout(c)
  BY <1>7, LogoutKeepsFirst DEF FirstInv
<1>8. CASE AfterData(c)
  <2>1. jar' = jar
    BY <1>8, AfterDataDoes
  <2> QED BY <1>1, <1>8, <2>1, AfterDataDoes
<1> QED BY <1>4, <1>5, <1>6, <1>7, <1>8

LEMMA ClickKeepsFirst ==
    ASSUME TypeOK, FirstInv, NEW kind \in {"data", "login", "logout"}, NEW by \in {"login", "user"},
           Click(kind, by)
    PROVE  FirstInv'
<1>1. PICK d : d.kind = kind /\ d.by = by /\ InFlight' = InFlight \cup {d}
  BY ClickDoes
<1>2. jar' = jar
  BY ClickDoes
<1>3. crossed' = ((crossed /\ (calls # EmptyBag \/ user)) \/ Crosses(calls', {"hook", "user"}))
  BY ClickDoes, Zenon
<1>4. Mes' = Mes
  BY <1>1 DEF Mes
<1>5. CASE calls = EmptyBag
  BY <1>1, <1>5, RestIsEmpty DEF FirstInv
<1>6. CASE calls # EmptyBag
  <2>1. crossed => crossed'
    BY <1>3, <1>6, Zenon
  <2> QED BY <1>1, <1>2, <1>4, <2>1 DEF FirstInv
<1> QED BY <1>5, <1>6

LEMMA FirstStays ==
    TypeOK /\ AnswerInv /\ RaceInv /\ BringsInv /\ FirstInv /\ [Next]_vars => FirstInv'
<1> SUFFICES ASSUME TypeOK, AnswerInv, RaceInv, BringsInv, FirstInv, [Next]_vars PROVE FirstInv'
  OBVIOUS
<1>1. ASSUME InFlight' = InFlight, crossed' = crossed, jar'.token = jar.token PROVE FirstInv'
  BY <1>1 DEF FirstInv, Mes
<1>2. CASE AccessExpires
  BY <1>1, <1>2, ExpiresDoes
<1>3. CASE NextWindow
  BY <1>1, <1>3, WindowDoes
<1>4. CASE UNCHANGED vars
  BY <1>1, <1>4 DEF vars, history, InFlight
<1>5. /\ Click("data", "user") => FirstInv'
      /\ Click("login", "login") => FirstInv'
      /\ Click("logout", "user") => FirstInv'
  BY ClickKeepsFirst
<1> QED
  BY <1>2, <1>3, <1>4, <1>5, BrowserSteps, ApiStep, ApiKeepsFirst, PageKeepsFirst

-----------------------------------------------------------------------------
(* The token of the jar *)

\* A token that dies by a step of the API does so by a logout or by a refresh: whoever
\* is about to tell the page of it is in flight.
LEMMA ApiKeepsLive ==
    ASSUME TypeOK, AnswerInv, LiveInv, NEW c \in InFlight,
           \/ Refuse(c) \/ Turn(c) \/ Serve(c) \/ \E right \in BOOLEAN : ServeLogin(c, right)
           \/ ServeLogout(c) \/ ServeRefresh(c) \/ Rotate(c) \/ Lose(c)
    PROVE  LiveInv'
<1>1. PICK d : /\ Api(c, d)
               /\ c.pc = "rotating" => d.pc = "answered" /\ d.status = 200
               /\ c.pc = "answered" => d.pc = "answered" /\ d.status = 500
  <2>1. CASE c.pc = "sent"
    BY <2>1, ApiStep
  <2>2. CASE c.pc = "rotating"
    <3>1. Rotate(c)
      BY <2>2 DEF Refuse, Turn, Serve, ServeLogin, ServeLogout, ServeRefresh, Counted, Lose
    <3>2. PICK d, t : Renewed(c, d, t)
      BY <3>1, RotateDoes
    <3> QED BY <2>2, <3>2 DEF Renewed
  <2>3. CASE c.pc = "answered"
    <3>1. Lose(c)
      BY <2>3 DEF Refuse, Turn, Serve, ServeLogin, ServeLogout, ServeRefresh, Counted, Rotate
    <3> QED BY <2>3, <3>1, LoseDoes
  <2> QED BY <2>1, <2>2, <2>3, CallIsTyped
<1>2. /\ user' = user /\ jar' = jar /\ crossed' = crossed
      /\ d \in InFlight' /\ InFlight \ {c} \subseteq InFlight' /\ Keeps(c, d)
  BY <1>1, ApiMoves
<1>3. live \subseteq live' \/ (live \ {c.token} \subseteq live' /\ (c.kind = "logout" \/ c.pc = "rotating"))
  BY RefuseDoes, TurnDoes, ServeDoes, LoginDoes, LoginFailsDoes, LogoutDoes, RefreshDoes, RotateDoes, LoseDoes
<1>4. SUFFICES ASSUME ~crossed
               PROVE  \/ jar.token \in live'
                      \/ \E x \in InFlight' : x.kind = "logout" \/ Replaced(x)
                      \/ ~user /\ Mes' = {}
  BY <1>2 DEF LiveInv, Replaced
<1>5. CASE jar.token \in live
  <2>1. CASE jar.token # c.token
    BY <1>3, <1>5, <2>1
  <2>2. CASE jar.token = c.token /\ c.kind = "logout"
    BY <1>2, <2>2 DEF Keeps
  <2>3. CASE jar.token = c.token /\ c.pc = "rotating"
    <3>1. c.kind = "refresh"
      BY <2>3 DEF AnswerInv, CallIsSound
    <3>2. Replaced(d)
      BY <1>1, <1>2, <2>3, <3>1 DEF Replaced, Keeps
    <3> QED BY <1>2, <3>2
  <2> QED BY <1>3, <1>5, <2>1, <2>2, <2>3
<1>6. CASE \E x \in InFlight : x.kind = "logout" \/ Replaced(x)
  <2>1. PICK x \in InFlight : x.kind = "logout" \/ Replaced(x)
    BY <1>6
  <2>2. CASE x # c
    BY <1>2, <2>1, <2>2
  <2>3. CASE x = c
    <3>1. d.kind = "logout" \/ Replaced(d)
      BY <1>1, <1>2, <2>1, <2>3 DEF Replaced, Keeps
    <3> QED BY <1>2, <3>1
  <2> QED BY <2>2, <2>3
<1>7. CASE ~user /\ Mes = {}
  BY <1>1, <1>7, ApiKeepsCalls
<1> QED BY <1>4, <1>5, <1>6, <1>7 DEF LiveInv

\* An answer that is neither of a logout nor of a refresh, and after which nobody is newly
\* shown as signed in, leaves the invariant alone.
LEMMA TakenKeepsLive ==
    ASSUME TypeOK, LiveInv, NEW c \in InFlight, NEW new, Taken(c, new), jar' = jar,
           c.kind \notin {"logout", "refresh"}, \A d \in new : d.kind # "me",
           user' => user \/ c.kind = "me"
    PROVE  LiveInv'
<1>1. /\ live' = live /\ (crossed => crossed') /\ InFlight \ {c} \subseteq InFlight'
      /\ InFlight' \subseteq InFlight \cup new
  BY DEF Taken
<1>2. SUFFICES ASSUME ~crossed
               PROVE  \/ jar.token \in live
                      \/ \E x \in InFlight' : x.kind = "logout" \/ Replaced(x)
                      \/ ~user' /\ Mes' = {}
  BY <1>1 DEF LiveInv, Replaced
<1>3. CASE \E x \in InFlight : x.kind = "logout" \/ Replaced(x)
  BY <1>1, <1>3 DEF Replaced
<1>4. CASE ~user /\ Mes = {}
  <2>1. ~user' /\ Mes' = {}
    BY <1>1, <1>4 DEF Mes
  <2> QED BY <2>1
<1> QED BY <1>2, <1>3, <1>4 DEF LiveInv

LEMMA ResumedKeepsLive ==
    ASSUME BringsInv, NEW c \in InFlight, NEW d, Resumed(c, d), Brings(c)
    PROVE  LiveInv'
<1>1. jar'.token = c.fresh /\ live' = live
  BY DEF Resumed, Taken
<1>2. c.fresh \in live
  BY DEF BringsInv
<1> QED BY <1>1, <1>2 DEF LiveInv

\* The refresh of the hook gives up with a logout, and the first one signs nobody in.
LEMMA RefreshFailedKeepsLive ==
    ASSUME TypeOK, AnswerInv, FirstInv, LiveInv, NEW c \in InFlight, c.kind = "refresh",
           NEW new, Taken(c, new), Hooked(c, new, c.by = "hook"), jar' = jar, user' = FALSE
    PROVE  LiveInv'
<1>1. /\ live' = live /\ (crossed => crossed') /\ InFlight \ {c} \subseteq InFlight'
      /\ InFlight' \subseteq InFlight \cup new /\ new \subseteq InFlight'
      /\ \A d \in new : d.kind # "me"
  BY DEF Taken, Hooked
<1>2. c.by \in {"bootstrap", "hook"}
  BY DEF AnswerInv, CallIsSound
<1>3. SUFFICES ASSUME ~crossed
               PROVE  \/ jar.token \in live
                      \/ \E x \in InFlight' : x.kind = "logout" \/ Replaced(x)
                      \/ ~user' /\ Mes' = {}
  BY <1>1 DEF LiveInv, Replaced
<1>4. CASE c.by = "hook"
  <2>1. \E x \in new : x.kind = "logout"
    BY <1>4 DEF Hooked
  <2> QED BY <1>1, <2>1
<1>5. CASE c.by = "bootstrap"
  <2>1. CASE \E x \in InFlight : x # c /\ (x.kind = "logout" \/ Replaced(x))
    BY <1>1, <2>1
  <2>2. CASE Replaced(c) \/ (~user /\ Mes = {})
    <3>1. Mes = {}
      BY <1>3, <1>5, <2>2 DEF FirstInv, Replaced
    <3>2. Mes' = {}
      BY <1>1, <3>1 DEF Mes
    <3> QED BY <3>2
  <2> QED BY <1>3, <2>1, <2>2 DEF LiveInv
<1> QED BY <1>2, <1>4, <1>5

LEMMA PageKeepsLive ==
    ASSUME TypeOK, AnswerInv, RaceInv, BringsInv, FirstInv, LiveInv, NEW c \in InFlight,
           AfterRefresh(c) \/ AfterMe(c) \/ AfterLogin(c) \/ AfterLogout(c) \/ AfterData(c)
    PROVE  LiveInv'
<1>1. ASSUME NEW new, NEW gives, Taken(c, new), Hooked(c, new, gives), jar' = jar,
             c.kind \notin {"logout", "refresh"}, user' => user
      PROVE  LiveInv'
  BY <1>1, TakenKeepsLive DEF Hooked
<1>2. ASSUME NEW d, Resumed(c, d), Brings(c) PROVE LiveInv'
  BY <1>2, ResumedKeepsLive
<1>4. CASE AfterRefresh(c)
  <2>1. c.kind = "refresh"
    BY <1>4, AfterRefreshDoes
  <2>2. CASE c.status = 200
    BY <1>2, <1>4, <2>1, <2>2, AfterRefreshDoes DEF Brings
  <2>3. CASE c.status # 200
    BY <1>4, <2>1, <2>3, AfterRefreshDoes, RefreshFailedKeepsLive
  <2> QED BY <2>2, <2>3
<1>5. CASE AfterMe(c)
  <2>1. c.kind = "me" /\ jar' = jar
    BY <1>5, AfterMeDoes
  <2>2. CASE c.status = 200
    <3>1. Taken(c, {})
      BY <1>5, <2>2, AfterMeDoes
    <3> QED BY <2>1, <3>1, TakenKeepsLive
  <2>3. CASE c.status # 200
    <3>1. user' => user
      BY <1>5, <2>3, AfterMeDoes
    <3>2. PICK new : Taken(c, new) /\ Hooked(c, new, c.by = "hook")
      BY <1>5, <2>3, AfterMeDoes
    <3> QED BY <1>1, <2>1, <3>1, <3>2
  <2> QED BY <2>2, <2>3
<1>6. CASE AfterLogin(c)
  <2>1. c.kind = "login" /\ user' = user
    BY <1>6, AfterLoginDoes
  <2> QED BY <1>1, <1>2, <1>6, <2>1, AfterLoginDoes DEF Brings
<1>7. CASE AfterLogout(c)
  <2>1. user' = FALSE
    BY <1>7, AfterLogoutDoes
  <2> QED BY <1>7, <2>1, LogoutKeepsFirst DEF LiveInv
<1>8. CASE AfterData(c)
  <2>1. c.kind = "data" /\ jar' = jar /\ user' = user
    BY <1>8, AfterDataDoes
  <2> QED BY <1>1, <1>8, <2>1, AfterDataDoes
<1> QED BY <1>4, <1>5, <1>6, <1>7, <1>8

LEMMA ClickKeepsLive ==
    ASSUME TypeOK, LiveInv, NEW kind \in {"data", "login", "logout"}, NEW by \in {"login", "user"},
           Click(kind, by)
    PROVE  LiveInv'
<1>1. PICK d : d.kind = kind /\ d.by = by /\ InFlight' = InFlight \cup {d}
  BY ClickDoes
<1>2. UNCHANGED <<user, jar, live>>
  BY ClickDoes
<1>3. crossed' = ((crossed /\ (calls # EmptyBag \/ user)) \/ Crosses(calls', {"hook", "user"}))
  BY ClickDoes, Zenon
<1>4. Mes' = Mes
  BY <1>1 DEF Mes
<1>5. CASE calls = EmptyBag /\ ~user
  BY <1>2, <1>4, <1>5, RestIsEmpty DEF LiveInv, Mes
<1>6. CASE calls # EmptyBag \/ user
  <2>1. crossed => crossed'
    BY <1>3, <1>6, Zenon
  <2> QED BY <1>1, <1>2, <1>4, <2>1 DEF LiveInv, Replaced
<1> QED BY <1>5, <1>6

LEMMA LiveStays ==
    TypeOK /\ AnswerInv /\ RaceInv /\ BringsInv /\ FirstInv /\ LiveInv /\ [Next]_vars => LiveInv'
<1> SUFFICES ASSUME TypeOK, AnswerInv, RaceInv, BringsInv, FirstInv, LiveInv, [Next]_vars
             PROVE  LiveInv'
  OBVIOUS
<1>1. ASSUME InFlight' = InFlight, UNCHANGED <<user, live, crossed>>, jar'.token = jar.token
      PROVE  LiveInv'
  BY <1>1 DEF LiveInv, Replaced, Mes
<1>2. CASE AccessExpires
  BY <1>1, <1>2, ExpiresDoes
<1>3. CASE NextWindow
  BY <1>1, <1>3, WindowDoes
<1>4. CASE UNCHANGED vars
  BY <1>1, <1>4 DEF vars, server, history, InFlight
<1>5. /\ Click("data", "user") => LiveInv'
      /\ Click("login", "login") => LiveInv'
      /\ Click("logout", "user") => LiveInv'
  BY ClickKeepsLive
<1> QED
  BY <1>2, <1>3, <1>4, <1>5, BrowserSteps, ApiKeepsLive, PageKeepsLive

-----------------------------------------------------------------------------
(* The session of a page *)

BrowserInv ==
    TypeOK /\ AnswerInv /\ RaceInv /\ SessionInv /\ BringsInv /\ FirstInv /\ LiveInv

LEMMA BrowserBegins == Init => BrowserInv
<1> SUFFICES ASSUME Init PROVE BrowserInv
  OBVIOUS
<1> DEFINE first == New("refresh", "bootstrap", jar)
<1>1. TypeOK
  BY BrowserTypesBegin
<1>2. /\ first.pc = "sent" /\ first.kind = "refresh" /\ first.by = "bootstrap"
      /\ first.token = jar.token /\ first.fresh = 0 /\ first.status = 0
  BY <1>1, NewCall DEF TypeOK
<1>3. calls = SetToBag({first})
  BY DEF Init, Sent
<1> HIDE DEF first
<1>4. InFlight = {first} /\ calls[first] = 1
  BY <1>3, SendingIsABag DEF InFlight, BagToSet
<1>5. AnswerInv
  BY <1>2, <1>4 DEF AnswerInv, CallIsSound
<1>6. RaceInv
  <2>1. ~Races(calls)
    BY <1>2, <1>4 DEF Races, InFlight
  <2>2. \A by : ~Crosses(calls, by)
    BY <1>2, <1>4 DEF Crosses, InFlight
  <2> QED BY <2>1, <2>2 DEF RaceInv
<1>7. SessionInv
  <2>1. Usable
    BY <1>2, <1>4 DEF Usable, Refreshes, HookLogouts, Refused
  <2>2. ~killed
    BY DEF Init
  <2> QED BY <2>1, <2>2 DEF SessionInv
<1>8. BringsInv
  BY <1>2, <1>4 DEF BringsInv, Brings
<1>9. Mes = {}
  BY <1>2, <1>4 DEF Mes
<1>10. FirstInv /\ LiveInv
  BY <1>9 DEF FirstInv, LiveInv, Init
<1> QED BY <1>1, <1>5, <1>6, <1>7, <1>8, <1>10 DEF BrowserInv

LEMMA BrowserStays == BrowserInv /\ [Next]_vars => BrowserInv'
BY BrowserTypesStay, AnswersStay, HistoryStays, SessionStays, BringsStay, FirstStays, LiveStays
   DEF BrowserInv

\* The invariant says what the page may say of its session.
LEMMA SessionFollows == BrowserInv => SessionIsHonest
<1> SUFFICES ASSUME BrowserInv PROVE SessionIsHonest
  OBVIOUS
<1>1. faults \in Nat /\ (Calm => ~killed)
  BY DEF BrowserInv, TypeOK, SessionInv
<1>2. SessionNotThrownAway
  BY <1>1 DEF SessionNotThrownAway, Calm
<1>3. SignedInHasSession
  BY DEF BrowserInv, LiveInv, SignedInHasSession, Quiet
<1> QED BY <1>2, <1>3 DEF SessionIsHonest

-----------------------------------------------------------------------------
(* The pages that price a cart *)

\* What is typed, part by part.
FormTyped ==
    /\ page \in {"catalog", "compare", "checkout"}
    /\ draft.lines \in Carts \cup {<<>>} /\ draft.asked \in AskedTimes \cup {Unset}
    /\ form \in C!Forms
    /\ compared \subseteq DOMAIN Services /\ configs \in [compared -> Configs]
    /\ form.selected \in compared \cup {Unset}
    /\ listed \subseteq DOMAIN Slots

FlightsTyped == \A f \in flights :
    f.stage \in {"sent", "reading", "answered"} /\ f.input \in C!Inputs /\ f.answer.code \in C!Codes

DataTyped == data.input \in C!Inputs \cup {Unset} /\ data.answer.code \in C!Codes

FlagsTyped == loaded \in BOOLEAN /\ timer \in BOOLEAN /\ error \in BOOLEAN /\ loading \in BOOLEAN

CatalogueTyped ==
    /\ onSale \subseteq DOMAIN Services /\ offered \subseteq DOMAIN Bundles
    /\ parts \in [DOMAIN Bundles -> Recompositions \cup {Bundles[b].components : b \in DOMAIN Bundles}]
    /\ changes \in 0..MaxChanges /\ edits \in 0..MaxEdits /\ failed \in 0..MaxLosses

LEMMA TypesAreParts ==
    C!TypeOK <=> FormTyped /\ FlightsTyped /\ DataTyped /\ FlagsTyped /\ CatalogueTyped
BY DEF C!TypeOK, FormTyped, FlightsTyped, DataTyped, FlagsTyped, CatalogueTyped

\* What a page would ask is typed, or there is nothing to ask (quoteInput).
LEMMA InputIsTyped ==
    ASSUME NEW p, NEW f \in C!Forms, NEW d, NEW some \in SUBSET DOMAIN Services,
           NEW cs \in [some -> Configs], f.selected \in some \cup {Unset},
           d.lines \in Carts \cup {<<>>}, d.asked \in AskedTimes \cup {Unset}
    PROVE  C!Input(p, f, d, cs) \in C!Inputs \cup {Unset}
<1> DEFINE lines == IF p = "checkout" THEN d.lines
                    ELSE IF f.selected = Unset THEN <<>>
                    ELSE C!CompareLine(f.selected, cs[f.selected])
           tax == C!TaxLocked(f) \/ f.tax
           asked == IF p = "checkout" THEN d.asked ELSE Unset
<1>1. lines # <<>> => lines \in C!Lines
  <2>1. CASE p = "checkout"
    BY <2>1 DEF C!Lines
  <2>2. CASE p # "checkout" /\ f.selected # Unset
    <3>1. f.selected \in some /\ f.selected \in DOMAIN Services /\ cs[f.selected] \in Configs
      BY <2>2
    <3> QED BY <2>2, <3>1 DEF C!Lines
  <2> QED BY <2>1, <2>2
<1>2. tax \in BOOLEAN
  OBVIOUS
<1>3. asked \in AskedTimes \cup {Unset}
  OBVIOUS
<1>4. C!Input(p, f, d, cs) =
        IF lines = <<>> THEN Unset
        ELSE [lines |-> lines, start |-> f.start, miles |-> f.miles, priority |-> f.priority,
              asked |-> asked, tax |-> tax, jurisdiction |-> f.jurisdiction]
  BY DEF C!Input
<1> HIDE DEF lines, tax, asked
<1> QED BY <1>1, <1>2, <1>3, <1>4 DEF C!Inputs, C!Forms

LEMMA NowIsTyped == FormTyped => C!Now \in C!Inputs \cup {Unset}
BY InputIsTyped DEF FormTyped, C!Now

\* The hook asks about the form as it is: while its timer runs nothing is in flight, and
\* what is in flight asks what the page would ask now (useDebouncedQuote).
HookInv ==
    /\ timer => flights = {} /\ C!Now # Unset
    /\ \A f \in flights :
         /\ DOMAIN f = {"input", "stage", "bundles", "answer"}
         /\ f.input = C!Now

\* Nothing has been asked before a page is opened.
CatalogInv == page = "catalog" => flights = {} /\ ~timer /\ form.selected = Unset

PriceInv ==
    FormTyped /\ FlightsTyped /\ DataTyped /\ FlagsTyped /\ CatalogueTyped
      /\ HookInv /\ CatalogInv /\ C!PageIsTruthful

LEMMA CatalogAsksNothing ==
    ASSUME FormTyped, CatalogInv, C!Now # Unset PROVE page # "catalog"
BY DEF CatalogInv, C!Now, C!Input

\* A render: the timer begins anew and what was in flight is aborted if what the page would
\* ask has changed; else nothing happens.
LEMMA RenderKeeps ==
    ASSUME FlagsTyped, FlightsTyped, HookInv, C!PageIsTruthful,
           NEW new, C!Render(C!Now, new, flights), new = C!Now',
           UNCHANGED <<data, error, loading>>
    PROVE  FlightsTyped' /\ timer' \in BOOLEAN /\ HookInv' /\ C!PageIsTruthful'
<1>1. CASE new = C!Now
  <2>1. timer' = timer /\ flights' = flights /\ C!Now' = C!Now
    BY <1>1 DEF C!Render, C!AsksAnew
  <2> QED
    BY <2>1 DEF FlagsTyped, FlightsTyped, HookInv, C!PageIsTruthful, C!QuoteMatchesForm,
       C!SpinnerMeansWork, C!AtRest
<1>2. CASE new # C!Now
  <2>1. timer' = (new # Unset) /\ flights' = {}
    BY <1>2 DEF C!Render, C!AsksAnew, C!Aborted
  <2> QED
    BY <2>1 DEF FlightsTyped, HookInv, C!PageIsTruthful, C!QuoteMatchesForm,
       C!SpinnerMeansWork, C!AtRest
<1> QED BY <1>1, <1>2

\* Where neither the form nor the hook changes, the page stays as it is.
LEMMA StillPage ==
    ASSUME UNCHANGED <<page, draft, form, compared, configs, listed, loaded, timer, flights, data,
                       error, loading>>
    PROVE  /\ FormTyped => FormTyped'
           /\ FlightsTyped => FlightsTyped'
           /\ DataTyped => DataTyped'
           /\ FlagsTyped => FlagsTyped'
           /\ HookInv => HookInv'
           /\ CatalogInv => CatalogInv'
           /\ C!PageIsTruthful => C!PageIsTruthful'
<1>1. C!Now' = C!Now
  BY DEF C!Now, C!Input, C!TaxLocked
<1> QED
  BY <1>1 DEF FormTyped, FlightsTyped, DataTyped, FlagsTyped, HookInv, CatalogInv, C!PageIsTruthful,
     C!QuoteMatchesForm, C!SpinnerMeansWork, C!AtRest

-----------------------------------------------------------------------------
(* The fields of a form *)

\* A field that is filled leaves a form, and what is selected unless that is filled.
LEMMA FieldsStayTyped ==
    ASSUME NEW f \in C!Forms
    PROVE  /\ \A s \in DOMAIN Services \cup {Unset} :
                [f EXCEPT !.selected = s] \in C!Forms /\ [f EXCEPT !.selected = s].selected = s
           /\ \A t \in C!Starts :
                [f EXCEPT !.start = t] \in C!Forms /\ [f EXCEPT !.start = t].selected = f.selected
           /\ \A n \in MilesGiven :
                [f EXCEPT !.miles = n] \in C!Forms /\ [f EXCEPT !.miles = n].selected = f.selected
           /\ \A j \in DOMAIN Jurisdictions :
                [f EXCEPT !.jurisdiction = j] \in C!Forms
                  /\ [f EXCEPT !.jurisdiction = j].selected = f.selected
           /\ [f EXCEPT !.priority = ~@] \in C!Forms /\ [f EXCEPT !.priority = ~@].selected = f.selected
           /\ [f EXCEPT !.tax = ~@] \in C!Forms /\ [f EXCEPT !.tax = ~@].selected = f.selected
<1>1. \A s \in DOMAIN Services \cup {Unset} :
        [f EXCEPT !.selected = s] \in C!Forms /\ [f EXCEPT !.selected = s].selected = s
  BY DEF C!Forms
<1>2. \A t \in C!Starts :
        [f EXCEPT !.start = t] \in C!Forms /\ [f EXCEPT !.start = t].selected = f.selected
  BY DEF C!Forms
<1>3. \A n \in MilesGiven :
        [f EXCEPT !.miles = n] \in C!Forms /\ [f EXCEPT !.miles = n].selected = f.selected
  BY DEF C!Forms
<1>4. \A j \in DOMAIN Jurisdictions :
        [f EXCEPT !.jurisdiction = j] \in C!Forms /\ [f EXCEPT !.jurisdiction = j].selected = f.selected
  BY DEF C!Forms
<1>5. [f EXCEPT !.priority = ~@] \in C!Forms /\ [f EXCEPT !.priority = ~@].selected = f.selected
  BY DEF C!Forms
<1>6. [f EXCEPT !.tax = ~@] \in C!Forms /\ [f EXCEPT !.tax = ~@].selected = f.selected
  BY DEF C!Forms
<1> QED BY <1>1, <1>2, <1>3, <1>4, <1>5, <1>6

\* A slot brings its start time.
LEMMA SlotStaysTyped ==
    ASSUME NEW f \in C!Forms, NEW s \in DOMAIN Slots
    PROVE  LET g == [f EXCEPT !.slot = s, !.start = C!Reread(Slots[s])]
           IN  g \in C!Forms /\ g.selected = f.selected
<1>1. C!Reread(Slots[s]) \in C!Starts
  BY DEF C!Starts
<1>2. [f EXCEPT !.slot = s] \in C!Forms /\ [f EXCEPT !.slot = s].selected = f.selected
  BY DEF C!Forms
<1>3. [f EXCEPT !.slot = s, !.start = C!Reread(Slots[s])]
        = [[f EXCEPT !.slot = s] EXCEPT !.start = C!Reread(Slots[s])]
  BY DEF C!Forms
<1> QED BY <1>1, <1>2, <1>3, FieldsStayTyped

-----------------------------------------------------------------------------
(* The customer *)

LEMMA OpenCheckoutKeeps ==
    ASSUME PriceInv, NEW lines \in Carts, NEW asked \in AskedTimes, C!OpenCheckout(lines, asked)
    PROVE  PriceInv'
<1>1. /\ page = "catalog" /\ page' = "checkout" /\ timer' = TRUE
      /\ draft' = [lines |-> lines, asked |-> asked, slot |-> Unset, signature |-> Unset]
      /\ UNCHANGED <<form, compared, configs, listed, loaded, flights, data, error, loading,
                     onSale, offered, parts, changes, edits, failed>>
  BY DEF C!OpenCheckout, C!catalogue, C!bounds
<1>2. flights = {}
  BY <1>1 DEF PriceInv, CatalogInv
<1>3. FormTyped'
  BY <1>1 DEF PriceInv, FormTyped
<1>4. C!Now' # Unset
  <2>1. draft'.lines # <<>>
    BY <1>1, CatalogueAssumption
  <2>2. C!Now' = [lines |-> draft'.lines, start |-> form'.start, miles |-> form'.miles,
                  priority |-> form'.priority, asked |-> draft'.asked,
                  tax |-> C!TaxLocked(form)' \/ form'.tax, jurisdiction |-> form'.jurisdiction]
    BY <1>1, <2>1 DEF C!Now, C!Input, C!TaxLocked
  <2>3. draft'.lines \in C!Lines /\ draft'.asked \in AskedTimes \cup {Unset} /\ form' \in C!Forms
    BY <1>1, <1>3 DEF FormTyped, C!Lines
  <2>4. (C!TaxLocked(form)' \/ form'.tax) \in BOOLEAN
    OBVIOUS
  <2>5. C!Now' \in C!Inputs
    BY <2>2, <2>3, <2>4 DEF C!Inputs, C!Forms
  <2> QED BY <2>5, CatalogueAssumption
<1>5. HookInv' /\ CatalogInv' /\ C!PageIsTruthful' /\ FlightsTyped'
  BY <1>1, <1>2, <1>4 DEF HookInv, CatalogInv, C!PageIsTruthful, C!QuoteMatchesForm,
     C!SpinnerMeansWork, C!AtRest, FlightsTyped
<1>6. DataTyped' /\ FlagsTyped' /\ CatalogueTyped'
  BY <1>1 DEF PriceInv, DataTyped, FlagsTyped, CatalogueTyped
<1> QED BY <1>3, <1>5, <1>6 DEF PriceInv

LEMMA OpenCompareKeeps ==
    ASSUME PriceInv, C!OpenCompare
    PROVE  PriceInv'
<1>1. /\ page = "catalog" /\ page' = "compare"
      /\ UNCHANGED <<draft, form, compared, configs, listed, loaded, timer, flights, data, error,
                     loading, onSale, offered, parts, changes, edits, failed>>
  BY DEF C!OpenCompare, C!catalogue, C!bounds, C!hook
<1>2. flights = {} /\ ~timer /\ form.selected = Unset
  BY <1>1 DEF PriceInv, CatalogInv
<1>3. FormTyped'
  BY <1>1 DEF PriceInv, FormTyped
<1>4. C!Now' = Unset
  BY <1>1, <1>2 DEF C!Now, C!Input
<1>5. HookInv' /\ CatalogInv' /\ C!PageIsTruthful' /\ FlightsTyped'
  BY <1>1, <1>2, <1>4 DEF HookInv, CatalogInv, C!PageIsTruthful, C!QuoteMatchesForm,
     C!SpinnerMeansWork, C!AtRest, FlightsTyped
<1>6. DataTyped' /\ FlagsTyped' /\ CatalogueTyped'
  BY <1>1 DEF PriceInv, DataTyped, FlagsTyped, CatalogueTyped
<1> QED BY <1>3, <1>5, <1>6 DEF PriceInv

\* A step that fills the form, and the render after it.
LEMMA FilledKeeps ==
    ASSUME PriceInv, FormTyped', C!Render(C!Now, C!Now', flights), page # "catalog", page' = page,
           loaded' \in BOOLEAN, changes' \in 0..MaxChanges,
           UNCHANGED <<data, error, loading, onSale, offered, parts, edits, failed>>
    PROVE  PriceInv'
<1>1. FlightsTyped' /\ timer' \in BOOLEAN /\ HookInv' /\ C!PageIsTruthful'
  BY RenderKeeps DEF PriceInv
<1>2. CatalogInv'
  BY DEF CatalogInv
<1>3. DataTyped' /\ FlagsTyped' /\ CatalogueTyped'
  BY <1>1 DEF PriceInv, DataTyped, FlagsTyped, CatalogueTyped
<1> QED BY <1>1, <1>2, <1>3 DEF PriceInv

LEMMA ConfigIsTyped == FormTyped => \A s : C!ConfigOf(s) \in Configs
<1>1. C!DefaultConfig(0) \in Configs /\ \A s : C!DefaultConfig(s) = C!DefaultConfig(0)
  BY CatalogueAssumption DEF C!DefaultConfig
<1> QED BY <1>1 DEF C!ConfigOf, FormTyped

LEMMA ComparedArriveKeeps ==
    ASSUME PriceInv, NEW list \in SUBSET DOMAIN Services, C!ComparedArrive(list)
    PROVE  PriceInv'
<1>0. /\ page = "compare" /\ compared' = list
      /\ UNCHANGED <<page, draft, loaded, data, error, loading, onSale, offered, parts, edits, failed>>
      /\ changes' = changes \/ (changes < MaxChanges /\ changes' = changes + 1)
      /\ C!Render(C!Now, C!Then, flights)
  BY DEF C!ComparedArrive, C!catalogue
<1>1. configs' = [s \in list |-> C!ConfigOf(s)]
  BY DEF C!ComparedArrive, C!Configured
<1>2. configs' \in [list -> Configs]
  BY <1>1, ConfigIsTyped DEF PriceInv
<1>3. form' \in C!Forms /\ form'.selected \in list \cup {Unset} /\ listed' \subseteq DOMAIN Slots
  <2>1. CASE form.selected \in list
    BY <2>1 DEF C!ComparedArrive, PriceInv, FormTyped
  <2>2. CASE form.selected \notin list
    <3>1. PICK s \in (IF list = {} THEN {Unset} ELSE list) : form' = [form EXCEPT !.selected = s]
      BY <2>2 DEF C!ComparedArrive
    <3>2. listed' = {}
      BY <2>2 DEF C!ComparedArrive
    <3>3. s \in list \cup {Unset} /\ form \in C!Forms
      BY <3>1 DEF PriceInv, FormTyped
    <3>4. s \in DOMAIN Services \cup {Unset}
      BY <3>3
    <3>5. form' \in C!Forms /\ form'.selected = s
      BY <3>1, <3>3, <3>4, FieldsStayTyped
    <3> QED BY <3>2, <3>3, <3>5
  <2> QED BY <2>1, <2>2
<1>4. FormTyped'
  BY <1>0, <1>2, <1>3 DEF PriceInv, FormTyped
<1>5. C!Render(C!Now, C!Now', flights)
  BY <1>0 DEF C!Then
<1>6. loaded' \in BOOLEAN /\ changes' \in 0..MaxChanges
  BY <1>0, CatalogueAssumption DEF PriceInv, FlagsTyped, CatalogueTyped
<1> QED BY <1>0, <1>4, <1>5, <1>6, FilledKeeps

LEMMA JurisdictionsArriveKeeps ==
    ASSUME PriceInv, C!JurisdictionsArrive
    PROVE  PriceInv'
<1>0. /\ page # "catalog" /\ loaded' = TRUE /\ form' = [form EXCEPT !.jurisdiction = FirstListed]
      /\ UNCHANGED <<page, draft, compared, configs, listed, data, error, loading, onSale, offered,
                     parts, changes, edits, failed>>
      /\ C!Render(C!Now, C!Then, flights)
  BY DEF C!JurisdictionsArrive, C!catalogue, C!bounds
<1>1. form' \in C!Forms /\ form'.selected = form.selected
  BY <1>0, FieldsStayTyped, CatalogueAssumption DEF PriceInv, FormTyped
<1>2. FormTyped'
  BY <1>0, <1>1 DEF PriceInv, FormTyped
<1>3. C!Then = C!Now'
  BY DEF C!Then
<1>4. changes' \in 0..MaxChanges
  BY <1>0 DEF PriceInv, CatalogueTyped
<1> QED BY <1>0, <1>2, <1>3, <1>4, FilledKeeps

LEMMA SlotsArriveKeeps ==
    ASSUME PriceInv, NEW free \in SUBSET DOMAIN Slots, C!SlotsArrive(free)
    PROVE  PriceInv'
<1>0. /\ C!Now # Unset /\ listed' = free
      /\ UNCHANGED <<page, draft, compared, configs, loaded, data, error, loading, onSale, offered,
                     parts, changes, edits, failed>>
      /\ C!Render(C!Now, C!Then, flights)
      /\ form' = form \/ \E s \in free : form' = [form EXCEPT !.slot = s, !.start = C!Reread(Slots[s])]
  BY DEF C!SlotsArrive, C!catalogue, C!bounds
<1>1. form' \in C!Forms /\ form'.selected = form.selected
  BY <1>0, SlotStaysTyped DEF PriceInv, FormTyped
<1>2. FormTyped'
  BY <1>0, <1>1 DEF PriceInv, FormTyped
<1>3. C!Then = C!Now'
  BY DEF C!Then
<1>4. changes' \in 0..MaxChanges /\ loaded' \in BOOLEAN
  BY <1>0 DEF PriceInv, CatalogueTyped, FlagsTyped
<1>5. page # "catalog"
  BY <1>0, CatalogAsksNothing DEF PriceInv
<1> QED BY <1>0, <1>2, <1>3, <1>4, <1>5, FilledKeeps

\* The fields of either page.
LEMMA FillKeepsForm ==
    ASSUME FormTyped, C!Fill
    PROVE  /\ form' \in C!Forms /\ form'.selected \in compared \cup {Unset}
           /\ listed' \subseteq DOMAIN Slots
<1>0. form \in C!Forms /\ form.selected \in compared \cup {Unset} /\ listed \subseteq DOMAIN Slots
      /\ compared \subseteq DOMAIN Services
  BY DEF FormTyped
<1>1. ASSUME NEW s \in compared, form' = [form EXCEPT !.selected = s] /\ listed' = {}
      PROVE  form' \in C!Forms /\ form'.selected = s
  <2>1. s \in DOMAIN Services \cup {Unset}
    BY <1>0
  <2> QED BY <1>0, <1>1, <2>1, FieldsStayTyped
<1>2. ASSUME NEW s \in listed, form' = [form EXCEPT !.slot = s, !.start = C!Reread(Slots[s])]
      PROVE  form' \in C!Forms /\ form'.selected = form.selected
  BY <1>0, <1>2, SlotStaysTyped
<1>3. ASSUME NEW t \in TypedStarts, form' = [form EXCEPT !.start = t]
      PROVE  form' \in C!Forms /\ form'.selected = form.selected
  <2>1. t \in C!Starts
    BY DEF C!Starts
  <2> QED BY <1>0, <1>3, <2>1, FieldsStayTyped
<1>4. ASSUME NEW n \in MilesGiven, form' = [form EXCEPT !.miles = n]
      PROVE  form' \in C!Forms /\ form'.selected = form.selected
  BY <1>0, <1>4, FieldsStayTyped
<1>5. ASSUME NEW j \in DOMAIN Jurisdictions, form' = [form EXCEPT !.jurisdiction = j]
      PROVE  form' \in C!Forms /\ form'.selected = form.selected
  BY <1>0, <1>5, FieldsStayTyped
<1>6. ASSUME form' = [form EXCEPT !.priority = ~@] \/ form' = [form EXCEPT !.tax = ~@]
      PROVE  form' \in C!Forms /\ form'.selected = form.selected
  BY <1>0, <1>6, FieldsStayTyped
<1> QED BY <1>0, <1>1, <1>2, <1>3, <1>4, <1>5, <1>6 DEF C!Fill

LEMMA ChangeKeeps ==
    ASSUME PriceInv, C!Change
    PROVE  PriceInv'
<1>0. /\ page # "catalog" /\ changes < MaxChanges /\ changes' = changes + 1 /\ C!Fill
      /\ UNCHANGED <<page, draft, compared, configs, loaded, data, error, loading, onSale, offered,
                     parts, edits, failed>>
      /\ C!Render(C!Now, C!Then, flights)
  BY DEF C!Change, C!catalogue
<1>1. FormTyped'
  BY <1>0, FillKeepsForm DEF PriceInv, FormTyped
<1>2. C!Then = C!Now'
  BY DEF C!Then
<1>3. changes' \in 0..MaxChanges /\ loaded' \in BOOLEAN
  BY <1>0, CatalogueAssumption DEF PriceInv, CatalogueTyped, FlagsTyped
<1> QED BY <1>0, <1>1, <1>2, <1>3, FilledKeeps

LEMMA ConfigureKeeps ==
    ASSUME PriceInv, NEW c \in Configs, C!Configure(c)
    PROVE  PriceInv'
<1>0. /\ page = "compare" /\ form.selected # Unset /\ changes < MaxChanges /\ changes' = changes + 1
      /\ configs' = [configs EXCEPT ![form.selected] = c]
      /\ UNCHANGED <<page, draft, form, compared, listed, loaded, data, error, loading, onSale,
                     offered, parts, edits, failed>>
      /\ C!Render(C!Now, C!Then, flights)
  BY DEF C!Configure, C!catalogue
<1>1. FormTyped'
  BY <1>0 DEF PriceInv, FormTyped
<1>2. C!Then = C!Now'
  BY DEF C!Then
<1>3. changes' \in 0..MaxChanges /\ loaded' \in BOOLEAN
  BY <1>0, CatalogueAssumption DEF PriceInv, CatalogueTyped, FlagsTyped
<1> QED BY <1>0, <1>1, <1>2, <1>3, FilledKeeps

-----------------------------------------------------------------------------
(* The hook and the handler *)

\* A step of the hook or of the handler leaves the form alone.
LEMMA SameForm ==
    ASSUME UNCHANGED <<page, draft, form, compared, configs, listed, loaded>>
    PROVE  /\ FormTyped => FormTyped'
           /\ C!Now' = C!Now
<1>1. C!Now' = C!Now
  BY DEF C!Now, C!Input, C!TaxLocked
<1> QED BY <1>1 DEF FormTyped

LEMMA TimerFiresKeeps ==
    ASSUME PriceInv, C!TimerFires
    PROVE  PriceInv'
<1> DEFINE sent == [input |-> C!Now, stage |-> "sent", bundles |-> <<>>, answer |-> C!Rejected]
<1>0. /\ timer /\ loading' = TRUE /\ error' = FALSE
      /\ UNCHANGED <<page, draft, form, compared, configs, listed, loaded, data, onSale, offered, parts,
                     changes, edits, failed>>
      /\ timer' = FALSE /\ flights' = {sent}
  BY DEF C!TimerFires, C!screen, C!catalogue, C!bounds, C!AsksAnew, C!Aborted
<1>1. FormTyped' /\ C!Now' = C!Now
  BY <1>0, SameForm DEF PriceInv
<1>2. C!Now \in C!Inputs
  BY <1>0, NowIsTyped DEF PriceInv, HookInv
<1>3. /\ sent.input = C!Now /\ sent.stage = "sent" /\ sent.answer.code = "rejected"
      /\ DOMAIN sent = {"input", "stage", "bundles", "answer"}
  BY DEF C!Rejected
<1> HIDE DEF sent
<1>4. FlightsTyped' /\ HookInv'
  BY <1>0, <1>1, <1>2, <1>3 DEF FlightsTyped, HookInv, C!Codes
<1>5. C!PageIsTruthful'
  BY <1>0 DEF C!PageIsTruthful, C!QuoteMatchesForm, C!SpinnerMeansWork, C!AtRest
<1>6. CatalogInv'
  BY <1>0 DEF PriceInv, CatalogInv
<1>7. DataTyped' /\ FlagsTyped' /\ CatalogueTyped'
  BY <1>0 DEF PriceInv, DataTyped, FlagsTyped, CatalogueTyped
<1> QED BY <1>1, <1>4, <1>5, <1>6, <1>7 DEF PriceInv

\* The handler goes on with a request, which is g then.
LEMMA AdvanceKeeps ==
    ASSUME PriceInv, NEW f \in flights, NEW g, C!Advance(f, g), g.input = f.input,
           DOMAIN g = DOMAIN f,
           g.stage \in {"sent", "reading", "answered"}, g.answer.code \in C!Codes
    PROVE  PriceInv'
<1>0. /\ flights' = (flights \ {f}) \cup {g}
      /\ UNCHANGED <<page, draft, form, compared, configs, listed, loaded, timer, data, error, loading,
                     onSale, offered, parts, changes, edits, failed>>
  BY DEF C!Advance, C!screen, C!catalogue, C!bounds
<1>1. FormTyped' /\ C!Now' = C!Now
  BY <1>0, SameForm DEF PriceInv
<1>2. FlightsTyped'
  BY <1>0 DEF PriceInv, FlightsTyped
<1>3. HookInv'
  BY <1>0, <1>1 DEF PriceInv, HookInv
<1>4. C!PageIsTruthful'
  BY <1>0 DEF C!PageIsTruthful, C!QuoteMatchesForm, C!SpinnerMeansWork, C!AtRest
<1>5. CatalogInv'
  BY <1>0 DEF PriceInv, CatalogInv
<1>6. DataTyped' /\ FlagsTyped' /\ CatalogueTyped'
  BY <1>0 DEF PriceInv, DataTyped, FlagsTyped, CatalogueTyped
<1> QED BY <1>1, <1>2, <1>3, <1>4, <1>5, <1>6 DEF PriceInv

LEMMA ReadBundlesKeeps ==
    ASSUME PriceInv, NEW f \in flights, C!ReadBundles(f)
    PROVE  PriceInv'
<1>1. /\ DOMAIN f = {"input", "stage", "bundles", "answer"}
      /\ f.answer.code \in C!Codes
  BY DEF PriceInv, HookInv, FlightsTyped
<1>2. CASE f.input.jurisdiction = Unset
  <2> DEFINE g == [f EXCEPT !.stage = "answered"]
  <2>1. C!Advance(f, g)
    BY <1>2 DEF C!ReadBundles
  <2>2. /\ g.input = f.input /\ g.stage = "answered" /\ g.answer = f.answer
        /\ DOMAIN g = DOMAIN f
    BY <1>1
  <2> HIDE DEF g
  <2> QED BY <1>1, <2>1, <2>2, AdvanceKeeps
<1>3. CASE f.input.jurisdiction # Unset
  <2> DEFINE read == [b \in offered |-> [Bundles[b] EXCEPT !.components = parts[b]]]
             g == [f EXCEPT !.stage = "reading", !.bundles = read]
  <2>1. C!Advance(f, g)
    BY <1>3 DEF C!ReadBundles
  <2> HIDE DEF read
  <2>2. /\ g.input = f.input /\ g.stage = "reading" /\ g.answer = f.answer
        /\ DOMAIN g = DOMAIN f
    BY <1>1
  <2> HIDE DEF g
  <2> QED BY <1>1, <2>1, <2>2, AdvanceKeeps
<1> QED BY <1>2, <1>3

\* Whatever the cart and the catalogue, a quote is an answer or a refusal (calculateQuote).
LEMMA QuoteHasCode ==
    ASSUME NEW q, NEW services, NEW bundles, NEW jurisdiction
    PROVE  C!Quote(q, services, bundles, jurisdiction).code \in C!Codes
<1>1. C!Rejected.code = "rejected" /\ [C!Rejected EXCEPT !.code = "OUT_OF_SERVICE_AREA"].code
                                         = "OUT_OF_SERVICE_AREA"
  BY DEF C!Rejected
<1>2. \A minutes, labor, extra, rate : C!Priced(minutes, labor, extra, rate).code = "OK"
  BY DEF C!Priced
<1>3. CASE q.lines = <<>> \/ q.asked = Unset
  BY <1>1, <1>3 DEF C!Quote, C!Codes
<1>4. CASE q.lines # <<>> /\ q.asked # Unset /\ C!OutOfArea(q.miles)
  BY <1>1, <1>4 DEF C!Quote, C!Codes
<1>5. CASE q.lines # <<>> /\ q.asked # Unset /\ ~C!OutOfArea(q.miles)
  BY <1>1, <1>2, <1>5 DEF C!Quote, C!Codes
<1> QED BY <1>3, <1>4, <1>5

LEMMA ReadServicesKeeps ==
    ASSUME PriceInv, NEW f \in flights, C!ReadServices(f)
    PROVE  PriceInv'
<1> DEFINE quote == C!Quote(f.input, [s \in onSale |-> Services[s]], f.bundles,
                            Jurisdictions[f.input.jurisdiction])
           g == [f EXCEPT !.stage = "answered", !.bundles = <<>>, !.answer = quote]
<1>1. DOMAIN f = {"input", "stage", "bundles", "answer"}
  BY DEF PriceInv, HookInv
<1>2. C!Advance(f, g)
  BY DEF C!ReadServices
<1>3. quote.code \in C!Codes
  BY QuoteHasCode
<1> HIDE DEF quote
<1>4. g.input = f.input /\ g.stage = "answered" /\ g.answer = quote /\ DOMAIN g = DOMAIN f
  BY <1>1
<1> HIDE DEF g
<1> QED BY <1>2, <1>3, <1>4, AdvanceKeeps

\* The answer that arrives is about the form as it is.
LEMMA AnswerArrivesKeeps ==
    ASSUME PriceInv, NEW f \in flights, C!AnswerArrives(f)
    PROVE  PriceInv'
<1>0. /\ flights' = flights \ {f} /\ loading' = FALSE
      /\ \/ error' = TRUE /\ data' = data
         \/ data' = [input |-> f.input, answer |-> f.answer] /\ error' = error
      /\ UNCHANGED <<page, draft, form, compared, configs, listed, loaded, timer, onSale, offered, parts,
                     changes, edits, failed>>
  BY DEF C!AnswerArrives, C!Finished, C!screen, C!catalogue, C!bounds
<1>1. FormTyped' /\ C!Now' = C!Now
  BY <1>0, SameForm DEF PriceInv
<1>2. FlightsTyped' /\ HookInv'
  BY <1>0, <1>1 DEF PriceInv, FlightsTyped, HookInv
<1>3. f.input = C!Now /\ f.input \in C!Inputs /\ f.answer.code \in C!Codes /\ ~timer
  BY DEF PriceInv, HookInv, FlightsTyped
<1>4. C!PageIsTruthful'
  BY <1>0, <1>1, <1>3 DEF C!PageIsTruthful, C!QuoteMatchesForm, C!SpinnerMeansWork, C!AtRest
<1>5. CatalogInv'
  BY <1>0 DEF PriceInv, CatalogInv
<1>6. DataTyped' /\ FlagsTyped' /\ CatalogueTyped'
  <2>1. DataTyped'
    BY <1>0, <1>3 DEF PriceInv, DataTyped
  <2>2. FlagsTyped' /\ CatalogueTyped'
    BY <1>0 DEF PriceInv, FlagsTyped, CatalogueTyped
  <2> QED BY <2>1, <2>2
<1> QED BY <1>1, <1>2, <1>4, <1>5, <1>6 DEF PriceInv

LEMMA CallFailsKeeps ==
    ASSUME PriceInv, NEW f \in flights, C!CallFails(f)
    PROVE  PriceInv'
<1>0. /\ failed < MaxLosses /\ failed' = failed + 1
      /\ flights' = flights \ {f} /\ loading' = FALSE /\ error' = TRUE
      /\ UNCHANGED <<page, draft, form, compared, configs, listed, loaded, timer, data, onSale, offered,
                     parts, changes, edits>>
  BY DEF C!CallFails, C!Finished, C!screen, C!catalogue
<1>1. FormTyped' /\ C!Now' = C!Now
  BY <1>0, SameForm DEF PriceInv
<1>2. FlightsTyped' /\ HookInv'
  BY <1>0, <1>1 DEF PriceInv, FlightsTyped, HookInv
<1>3. C!PageIsTruthful'
  BY <1>0 DEF C!PageIsTruthful, C!QuoteMatchesForm, C!SpinnerMeansWork
<1>4. CatalogInv'
  BY <1>0 DEF PriceInv, CatalogInv
<1>5. failed' \in 0..MaxLosses
  BY <1>0, CatalogueAssumption DEF PriceInv, CatalogueTyped
<1>6. DataTyped' /\ FlagsTyped' /\ CatalogueTyped'
  BY <1>0, <1>5 DEF PriceInv, DataTyped, FlagsTyped, CatalogueTyped
<1> QED BY <1>1, <1>2, <1>3, <1>4, <1>6 DEF PriceInv

\* What staff do meets no page: a page asks again only when its form changes.
LEMMA StaffKeep ==
    ASSUME PriceInv,
           \/ \E s \in DOMAIN Services : C!ToggleService(s)
           \/ \E b \in DOMAIN Bundles : C!ToggleBundle(b)
           \/ \E b \in DOMAIN Bundles : \E components \in Recompositions : C!Recompose(b, components)
    PROVE  PriceInv'
<1>0. /\ UNCHANGED <<page, draft, form, compared, configs, listed, loaded, timer, flights, data, error,
                     loading, changes, failed>>
      /\ edits < MaxEdits /\ edits' = edits + 1
  BY DEF C!ToggleService, C!ToggleBundle, C!Recompose, C!Edit, C!screen, C!hook
<1>1. onSale' \subseteq DOMAIN Services /\ offered' \subseteq DOMAIN Bundles
  BY DEF C!ToggleService, C!ToggleBundle, C!Recompose, PriceInv, CatalogueTyped
<1>2. parts' \in [DOMAIN Bundles -> Recompositions \cup {Bundles[b].components : b \in DOMAIN Bundles}]
  <2>1. parts \in [DOMAIN Bundles -> Recompositions \cup {Bundles[b].components : b \in DOMAIN Bundles}]
    BY DEF PriceInv, CatalogueTyped
  <2>2. \/ parts' = parts
        \/ \E b \in DOMAIN Bundles : \E components \in Recompositions :
             parts' = [parts EXCEPT ![b] = components]
    BY DEF C!ToggleService, C!ToggleBundle, C!Recompose
  <2> QED BY <2>1, <2>2
<1>3. edits' \in 0..MaxEdits
  BY <1>0, CatalogueAssumption DEF PriceInv, CatalogueTyped
<1>4. CatalogueTyped'
  BY <1>0, <1>1, <1>2, <1>3 DEF PriceInv, CatalogueTyped
<1> QED BY <1>0, <1>4, StillPage DEF PriceInv

-----------------------------------------------------------------------------
(* A page that prices a cart *)

LEMMA PriceBegins == C!Init => PriceInv
<1> SUFFICES ASSUME C!Init PROVE PriceInv
  OBVIOUS
<1>1. /\ page = "catalog" /\ draft = C!NoDraft /\ form = C!FreshForm
      /\ compared = {} /\ configs = <<>> /\ listed = {} /\ loaded = FALSE
      /\ timer = FALSE /\ flights = {} /\ data = C!NoData /\ error = FALSE /\ loading = FALSE
      /\ onSale = DOMAIN Services /\ offered = DOMAIN Bundles
      /\ parts = [b \in DOMAIN Bundles |-> Bundles[b].components]
      /\ changes = 0 /\ edits = 0 /\ failed = 0
  BY DEF C!Init
<1>2. form \in C!Forms /\ form.selected = Unset
  <2>1. C!Reread(Tomorrow) \in C!Starts
    BY DEF C!Starts
  <2> QED BY <1>1, <2>1 DEF C!FreshForm, C!Forms
<1>3. configs \in [compared -> Configs]
  <2>1. configs = [s \in {} |-> 0]
    BY <1>1
  <2> QED BY <1>1, <2>1
<1>4. FormTyped
  BY <1>1, <1>2, <1>3 DEF FormTyped, C!NoDraft
<1>5. FlightsTyped /\ HookInv /\ CatalogInv
  BY <1>1, <1>2 DEF FlightsTyped, HookInv, CatalogInv
<1>6. DataTyped
  BY <1>1 DEF DataTyped, C!NoData, C!Rejected, C!Codes
<1>7. FlagsTyped /\ CatalogueTyped
  <2>1. 0 \in 0..MaxChanges /\ 0 \in 0..MaxEdits /\ 0 \in 0..MaxLosses
    BY CatalogueAssumption
  <2> QED BY <1>1, <2>1 DEF FlagsTyped, CatalogueTyped
<1>8. C!PageIsTruthful
  BY <1>1 DEF C!PageIsTruthful, C!QuoteMatchesForm, C!SpinnerMeansWork
<1> QED BY <1>4, <1>5, <1>6, <1>7, <1>8 DEF PriceInv

LEMMA PriceStays == PriceInv /\ [C!Next]_checkoutVars => PriceInv'
<1> SUFFICES ASSUME PriceInv, [C!Next]_checkoutVars PROVE PriceInv'
  OBVIOUS
<1>1. CASE UNCHANGED checkoutVars
  <2>1. /\ UNCHANGED <<page, draft, form, compared, configs, listed, loaded, timer, flights, data, error,
                       loading>>
        /\ UNCHANGED <<onSale, offered, parts, changes, edits, failed>>
    BY <1>1 DEF checkoutVars
  <2>2. CatalogueTyped'
    BY <2>1 DEF PriceInv, CatalogueTyped
  <2> QED BY <2>1, <2>2, StillPage DEF PriceInv
<1>2. CASE C!Next
  <2>1. CASE \E lines \in Carts : \E asked \in AskedTimes : C!OpenCheckout(lines, asked)
    BY <2>1, OpenCheckoutKeeps
  <2>2. CASE \E list \in SUBSET DOMAIN Services : C!ComparedArrive(list)
    BY <2>2, ComparedArriveKeeps
  <2>3. CASE \E free \in SUBSET DOMAIN Slots : C!SlotsArrive(free)
    BY <2>3, SlotsArriveKeeps
  <2>4. CASE \E c \in Configs : C!Configure(c)
    BY <2>4, ConfigureKeeps
  <2>5. CASE C!OpenCompare \/ C!JurisdictionsArrive \/ C!Change \/ C!TimerFires
    BY <2>5, OpenCompareKeeps, JurisdictionsArriveKeeps, ChangeKeeps, TimerFiresKeeps
  <2>6. CASE \E f \in flights : C!ReadBundles(f) \/ C!ReadServices(f) \/ C!AnswerArrives(f) \/ C!CallFails(f)
    BY <2>6, ReadBundlesKeeps, ReadServicesKeeps, AnswerArrivesKeeps, CallFailsKeeps
  <2>7. CASE \/ \E s \in DOMAIN Services : C!ToggleService(s)
             \/ \E b \in DOMAIN Bundles : C!ToggleBundle(b)
             \/ \E b \in DOMAIN Bundles : \E components \in Recompositions : C!Recompose(b, components)
    BY <2>7, StaffKeep
  <2> QED BY <1>2, <2>1, <2>2, <2>3, <2>4, <2>5, <2>6, <2>7 DEF C!Next, C!Answering
<1> QED BY <1>1, <1>2

-----------------------------------------------------------------------------
(* The count of business minutes, for every calendar: whatever the hours, the length of a *)
(* week and of a day, the change of the clocks and the promise.  The proofs never look at  *)
(* what Open is.                                                                           *)

\* The calendar counts with the sets' own cardinality.
LEMMA SameCardinality == \A S : D!Cardinality(S) = Cardinality(S)
BY DEF D!Cardinality, Cardinality

\* The minutes counted so far are finitely many.
LEMMA CountedIsFinite ==
    ASSUME NEW a \in Int, NEW t \in Int
    PROVE  /\ IsFiniteSet({m \in a..t : D!Open(m)})
           /\ Cardinality({m \in a..t : D!Open(m)}) \in Nat
<1>1. IsFiniteSet(a..t)
  BY FS_Interval
<1>2. {m \in a..t : D!Open(m)} \subseteq a..t
  OBVIOUS
<1>3. IsFiniteSet({m \in a..t : D!Open(m)})
  BY <1>1, <1>2, FS_Subset
<1> QED
  BY <1>3, FS_CardinalityType

\* Before the first minute nothing is counted (addBusinessMinutes, before its loop).
LEMMA NothingCounted ==
    ASSUME NEW t \in Int
    PROVE  Cardinality({m \in (t + 1)..t : D!Open(m)}) = 0
<1>1. {m \in (t + 1)..t : D!Open(m)} = {}
  OBVIOUS
<1> QED
  BY <1>1, FS_EmptySet

\* One more minute is one more to count if it is open (the loop of addBusinessMinutes).
LEMMA OneMoreMinute ==
    ASSUME NEW a \in Int, NEW t \in Int, a <= t + 1
    PROVE  Cardinality({m \in a..(t + 1) : D!Open(m)})
             = Cardinality({m \in a..t : D!Open(m)}) + IF D!Open(t + 1) THEN 1 ELSE 0
<1> DEFINE before == {m \in a..t : D!Open(m)}
<1>1. IsFiniteSet(before) /\ Cardinality(before) \in Nat
  BY CountedIsFinite
<1>2. CASE D!Open(t + 1)
  <2>1. {m \in a..(t + 1) : D!Open(m)} = before \cup {t + 1}
    BY <1>2
  <2>2. t + 1 \notin before
    OBVIOUS
  <2>3. Cardinality(before \cup {t + 1}) = Cardinality(before) + 1
    BY <1>1, <2>2, FS_AddElement
  <2> QED
    BY <1>2, <2>1, <2>3
<1>3. CASE ~D!Open(t + 1)
  <2>1. {m \in a..(t + 1) : D!Open(m)} = before
    BY <1>3
  <2> QED
    BY <1>1, <1>3, <2>1
<1> QED
  BY <1>2, <1>3

\* The minutes that are counted when the loop stands at the minute t.
Minutes(a, t) == {m \in (a + 1)..t : D!Open(m)}

LEMMA CountedIs ==
    /\ \A t : D!Cardinality(D!Counted(t)) = Cardinality(Minutes(opened, t))
    /\ \A t : D!Cardinality(D!Counted(t))' = Cardinality(Minutes(opened', t'))
BY SameCardinality DEF D!Counted, Minutes

\* While nextBusinessMinute looks, every minute it has passed was closed.
SeekInv ==
    pc = "seeking" =>
        /\ cursor = created + tried /\ remaining = promised
        /\ \A m \in created..(cursor - 1) : ~D!Open(m)

\* What is counted and what remains make up the promise, and the loop stops on an open minute.
AddInv ==
    pc \in {"adding", "done"} =>
        /\ D!FirstOpen(opened)
        /\ opened <= cursor
        /\ Cardinality(Minutes(opened, cursor)) + remaining = promised
        /\ remaining = 0 => D!Open(cursor)

EndInv ==
    /\ pc = "done" => remaining = 0
    /\ pc = "failed" => \A m \in created..(created + SearchLimit - 1) : ~D!Open(m)

DeadlineInv == D!TypeOK /\ SeekInv /\ AddInv /\ EndInv

LEMMA DeadlineBegins == D!Init => DeadlineInv
BY DEF D!Init, DeadlineInv, D!TypeOK, SeekInv, AddInv, EndInv

LEMMA DeadlineTypesStay == D!TypeOK /\ [D!Next]_calendarVars => D!TypeOK'
<1> SUFFICES ASSUME D!TypeOK, [D!Next]_calendarVars PROVE D!TypeOK'
  OBVIOUS
<1> USE CalendarAssumption DEF D!TypeOK
<1>1. ASSUME NEW t \in Created, NEW n \in Promises, D!Call(t, n) PROVE D!TypeOK'
  BY <1>1 DEF D!Call
<1>2. CASE D!Seek
  BY <1>2 DEF D!Seek
<1>3. CASE D!Found
  BY <1>3 DEF D!Found
<1>4. CASE D!GiveUp
  BY <1>4 DEF D!GiveUp
<1>5. CASE D!Add
  BY <1>5 DEF D!Add
<1>6. CASE D!Return
  BY <1>6 DEF D!Return
<1>7. CASE UNCHANGED calendarVars
  BY <1>7 DEF calendarVars
<1> QED
  BY <1>1, <1>2, <1>3, <1>4, <1>5, <1>6, <1>7 DEF D!Next

LEMMA DeadlineStays == DeadlineInv /\ [D!Next]_calendarVars => DeadlineInv'
<1> SUFFICES ASSUME DeadlineInv, [D!Next]_calendarVars PROVE (SeekInv /\ AddInv /\ EndInv)'
  BY DeadlineTypesStay DEF DeadlineInv
<1> USE CalendarAssumption DEF DeadlineInv, D!TypeOK
<1>1. ASSUME NEW t \in Created, NEW n \in Promises, D!Call(t, n)
      PROVE  (SeekInv /\ AddInv /\ EndInv)'
  BY <1>1 DEF D!Call, SeekInv, AddInv, EndInv
<1>2. CASE D!Seek
  BY <1>2 DEF D!Seek, SeekInv, AddInv, EndInv
<1>3. CASE D!Found
  <2>1. pc = "seeking" /\ D!Open(cursor) /\ pc' = "adding" /\ opened' = cursor
        /\ UNCHANGED <<created, promised, cursor, tried, remaining>>
    BY <1>3 DEF D!Found
  <2>2. D!FirstOpen(opened)'
    BY <2>1 DEF SeekInv, D!FirstOpen
  <2>3. Cardinality(Minutes(opened, cursor))' = 0
    BY <2>1, NothingCounted DEF Minutes
  <2> QED
    BY <2>1, <2>2, <2>3 DEF SeekInv, AddInv, EndInv
<1>4. CASE D!GiveUp
  BY <1>4 DEF D!GiveUp, SeekInv, AddInv, EndInv
<1>5. CASE D!Add
  <2>1. /\ pc = "adding" /\ remaining > 0 /\ cursor' = cursor + 1
        /\ remaining' = IF D!Open(cursor + 1) THEN remaining - 1 ELSE remaining
        /\ UNCHANGED <<pc, created, promised, tried, opened>>
    BY <1>5 DEF D!Add
  <2>2. D!FirstOpen(opened)'
    BY <2>1 DEF AddInv, D!FirstOpen
  <2>3. opened + 1 <= cursor + 1
    BY <2>1 DEF AddInv
  <2>4. Cardinality(Minutes(opened, cursor))'
          = Cardinality(Minutes(opened, cursor)) + IF D!Open(cursor + 1) THEN 1 ELSE 0
    BY <2>1, <2>3, OneMoreMinute DEF Minutes
  <2>5. Cardinality(Minutes(opened, cursor)) \in Nat
    <3>1. opened + 1 \in Int /\ cursor \in Int
      OBVIOUS
    <3> QED BY <3>1, CountedIsFinite DEF Minutes
  <2> QED
    BY <2>1, <2>2, <2>4, <2>5 DEF SeekInv, AddInv, EndInv
<1>6. CASE D!Return
  <2>1. pc = "adding" /\ remaining = 0 /\ pc' = "done"
        /\ UNCHANGED <<created, promised, cursor, tried, remaining, opened>>
    BY <1>6 DEF D!Return
  <2> QED
    BY <2>1 DEF SeekInv, AddInv, EndInv, D!FirstOpen, Minutes
<1>7. CASE UNCHANGED calendarVars
  BY <1>7 DEF calendarVars, SeekInv, AddInv, EndInv, D!FirstOpen, Minutes
<1> QED
  BY <1>1, <1>2, <1>3, <1>4, <1>5, <1>6, <1>7 DEF D!Next

\* The invariant says when a deadline falls.
LEMMA DeadlineFollows == DeadlineInv => DeadlineCounts
<1> SUFFICES ASSUME DeadlineInv PROVE D!DeadlineCounts
  BY DEF DeadlineCounts
<1>1. opened + 1 \in Int /\ cursor \in Int
  BY DEF DeadlineInv, D!TypeOK
<1>2. Cardinality(Minutes(opened, cursor)) \in Nat
  BY <1>1, CountedIsFinite DEF Minutes
<1>3. CASE pc = "done"
  BY <1>2, <1>3, CountedIs DEF DeadlineInv, D!TypeOK, AddInv, EndInv, D!DeadlineCounts
<1>4. CASE pc # "done"
  BY <1>4 DEF DeadlineInv, EndInv, D!DeadlineCounts
<1> QED
  BY <1>3, <1>4

-----------------------------------------------------------------------------
(* Sums *)

\* What holds of 0 and of the successor of every number it holds of holds of them all: the
\* induction theorems of the library take an operator, this one takes a set.
LEMMA Inductive ==
    ASSUME NEW S, S \subseteq Nat, 0 \in S, \A n \in S : n + 1 \in S
    PROVE  S = Nat
<1> DEFINE rest == Nat \ S
           less == OpToRel(<, Nat)
<1> SUFFICES ASSUME rest # {} PROVE FALSE
  OBVIOUS
<1>1. IsWellFoundedOn(less, Nat)
  BY NatLessThanWellFounded
<1>2. rest \subseteq Nat
  OBVIOUS
<1> HIDE DEF less
<1>3. PICK x \in rest : \A y \in rest : ~(<<y, x>> \in less)
  BY <1>1, <1>2, WFMin
<1>4. x \in Nat /\ x # 0 /\ x - 1 \in Nat
  BY <1>3
<1>5. <<x - 1, x>> \in less
  BY <1>4 DEF OpToRel, less
<1>6. x - 1 \in S
  BY <1>3, <1>4, <1>5
<1> QED BY <1>3, <1>4, <1>6

\* The order in which a set is added up, and the function that adds up the values of f over
\* the subsets of its domain in that order: there is one, and the sum is its last value.
First(s) == CHOOSE x \in s : TRUE

IsSum(t, f) ==
    t = [s \in SUBSET DOMAIN f |-> IF s = {} THEN 0 ELSE f[First(s)] + t[s \ {First(s)}]]

Total(f) == (CHOOSE t : IsSum(t, f))[DOMAIN f]

\* The subsets with at most n elements.
UpTo(n, Dom) == {s \in SUBSET Dom : Cardinality(s) <= n}

LEMMA FirstIn == ASSUME NEW s, s # {} PROVE First(s) \in s
BY DEF First

LEMMA Smaller ==
    ASSUME NEW Dom, IsFiniteSet(Dom), NEW n \in Nat, NEW s \in UpTo(n + 1, Dom), s # {}
    PROVE  First(s) \in Dom /\ s \ {First(s)} \in UpTo(n, Dom)
<1>1. IsFiniteSet(s) /\ s \subseteq Dom /\ First(s) \in s
  BY FirstIn, FS_Subset DEF UpTo
<1>2. Cardinality(s \ {First(s)}) = Cardinality(s) - 1 /\ Cardinality(s) \in Nat
  BY <1>1, FS_RemoveElement, FS_CardinalityType
<1> QED BY <1>1, <1>2 DEF UpTo

LEMMA Levels ==
    ASSUME NEW Dom, IsFiniteSet(Dom)
    PROVE  /\ UpTo(0, Dom) = {{}}
           /\ \A n \in Nat : UpTo(n, Dom) \subseteq UpTo(n + 1, Dom)
           /\ Cardinality(Dom) \in Nat /\ UpTo(Cardinality(Dom), Dom) = SUBSET Dom
<1>1. \A s \in SUBSET Dom :
        IsFiniteSet(s) /\ Cardinality(s) \in Nat /\ Cardinality(s) <= Cardinality(Dom)
  BY FS_Subset, FS_CardinalityType
<1>2. UpTo(0, Dom) = {{}}
  BY <1>1, FS_EmptySet DEF UpTo
<1>3. \A n \in Nat : UpTo(n, Dom) \subseteq UpTo(n + 1, Dom)
  BY <1>1 DEF UpTo
<1>4. Cardinality(Dom) \in Nat /\ UpTo(Cardinality(Dom), Dom) = SUBSET Dom
  BY <1>1 DEF UpTo
<1> QED BY <1>2, <1>3, <1>4

\* A finite family of numbers has a sum, a natural number if its members are: one function for
\* every size of the subsets, each made from the one before.
LEMMA SumExists ==
    ASSUME NEW Dom, IsFiniteSet(Dom), NEW V \in {Int, Nat}, NEW f \in [Dom -> V]
    PROVE  \E t \in [SUBSET Dom -> V] : IsSum(t, f)
<1> DEFINE Good(g, n) == \A s \in UpTo(n, Dom) :
                           g[s] = IF s = {} THEN 0 ELSE f[First(s)] + g[s \ {First(s)}]
           S == {n \in Nat : \E g \in [UpTo(n, Dom) -> V] : Good(g, n)}
<1>1. 0 \in S
  <2> DEFINE g == [s \in UpTo(0, Dom) |-> 0]
  <2>1. g \in [UpTo(0, Dom) -> V] /\ Good(g, 0)
    BY Levels
  <2> QED BY <2>1
<1>2. ASSUME NEW n \in S PROVE n + 1 \in S
  <2>1. PICK g \in [UpTo(n, Dom) -> V] : Good(g, n)
    BY <1>2
  <2> DEFINE h == [s \in UpTo(n + 1, Dom) |->
                     IF s = {} THEN 0 ELSE f[First(s)] + g[s \ {First(s)}]]
  <2>2. \A s \in UpTo(n + 1, Dom) : s # {} =>
          f[First(s)] \in V /\ s \ {First(s)} \in UpTo(n, Dom) /\ g[s \ {First(s)}] \in V
    BY Smaller
  <2>3. h \in [UpTo(n + 1, Dom) -> V]
    <3> SUFFICES ASSUME NEW s \in UpTo(n + 1, Dom)
                 PROVE  (IF s = {} THEN 0 ELSE f[First(s)] + g[s \ {First(s)}]) \in V
      OBVIOUS
    <3>1. CASE s = {}
      BY <3>1
    <3>2. CASE s # {}
      BY <2>2, <3>2
    <3> QED BY <3>1, <3>2
  <2>4. \A r \in UpTo(n, Dom) : h[r] = g[r]
    BY <2>1, Levels
  <2>5. Good(h, n + 1)
    <3> SUFFICES ASSUME NEW s \in UpTo(n + 1, Dom)
                 PROVE  h[s] = IF s = {} THEN 0 ELSE f[First(s)] + h[s \ {First(s)}]
      OBVIOUS
    <3>1. s # {} => h[s \ {First(s)}] = g[s \ {First(s)}]
      BY <2>2, <2>4
    <3>2. h[s] = IF s = {} THEN 0 ELSE f[First(s)] + g[s \ {First(s)}]
      OBVIOUS
    <3> HIDE DEF h
    <3> QED BY <3>1, <3>2
  <2> HIDE DEF h, Good
  <2> QED BY <2>3, <2>5
<1>3. S = Nat
  <2> HIDE DEF S
  <2>1. S \subseteq Nat
    BY DEF S
  <2> QED BY <1>1, <1>2, <2>1, Inductive
<1>4. PICK g \in [SUBSET Dom -> V] : Good(g, Cardinality(Dom))
  <2>1. Cardinality(Dom) \in S /\ UpTo(Cardinality(Dom), Dom) = SUBSET Dom
    BY <1>3, Levels
  <2> QED BY <2>1
<1>5. IsSum(g, f)
  <2>1. DOMAIN f = Dom
    OBVIOUS
  <2>2. UpTo(Cardinality(Dom), Dom) = SUBSET Dom
    BY Levels
  <2>3. \A s \in SUBSET Dom : g[s] = IF s = {} THEN 0 ELSE f[First(s)] + g[s \ {First(s)}]
    BY <1>4, <2>2
  <2> QED BY <2>1, <2>3 DEF IsSum
<1> QED BY <1>5

\* There is only one such function on the subsets of a finite domain.
LEMMA SumUnique ==
    ASSUME NEW f, IsFiniteSet(DOMAIN f), NEW t, IsSum(t, f), NEW u, IsSum(u, f)
    PROVE  t[DOMAIN f] = u[DOMAIN f]
<1> DEFINE Dom == DOMAIN f
           S == {n \in Nat : \A s \in UpTo(n, Dom) : t[s] = u[s]}
<1>1. \A s \in SUBSET Dom :
        /\ t[s] = IF s = {} THEN 0 ELSE f[First(s)] + t[s \ {First(s)}]
        /\ u[s] = IF s = {} THEN 0 ELSE f[First(s)] + u[s \ {First(s)}]
  <2> SUFFICES ASSUME NEW s \in SUBSET Dom
               PROVE  /\ t[s] = IF s = {} THEN 0 ELSE f[First(s)] + t[s \ {First(s)}]
                      /\ u[s] = IF s = {} THEN 0 ELSE f[First(s)] + u[s \ {First(s)}]
    OBVIOUS
  <2>1. t[s] = [r \in SUBSET Dom |-> IF r = {} THEN 0 ELSE f[First(r)] + t[r \ {First(r)}]][s]
    BY DEF IsSum
  <2>2. u[s] = [r \in SUBSET Dom |-> IF r = {} THEN 0 ELSE f[First(r)] + u[r \ {First(r)}]][s]
    BY DEF IsSum
  <2> QED BY <2>1, <2>2
<1>2. 0 \in S
  BY <1>1, Levels
<1>3. ASSUME NEW n \in S PROVE n + 1 \in S
  <2> SUFFICES ASSUME NEW s \in UpTo(n + 1, Dom) PROVE t[s] = u[s]
    OBVIOUS
  <2>1. s \in SUBSET Dom
    BY DEF UpTo
  <2>2. CASE s = {}
    BY <1>1, <2>1, <2>2
  <2>3. CASE s # {}
    <3>1. t[s \ {First(s)}] = u[s \ {First(s)}]
      BY <2>3, Smaller
    <3> QED BY <1>1, <2>1, <2>3, <3>1
  <2> QED BY <2>2, <2>3
<1>4. S = Nat
  <2> HIDE DEF S
  <2>1. S \subseteq Nat
    BY DEF S
  <2> QED BY <1>2, <1>3, <2>1, Inductive
<1>5. Cardinality(Dom) \in S /\ Dom \in UpTo(Cardinality(Dom), Dom)
  BY <1>4, Levels
<1> QED BY <1>5

\* Every function that adds up as IsSum says ends in the sum.
LEMMA TotalSatisfies ==
    ASSUME NEW f, IsFiniteSet(DOMAIN f), NEW V \in {Int, Nat}, f \in [DOMAIN f -> V],
           NEW t, IsSum(t, f)
    PROVE  t[DOMAIN f] = Total(f) /\ Total(f) \in V
<1>1. PICK u \in [SUBSET DOMAIN f -> V] : IsSum(u, f)
  BY SumExists
<1> DEFINE c == CHOOSE x : IsSum(x, f)
<1>2. IsSum(c, f)
  BY <1>1
<1> HIDE DEF c
<1>3. Total(f) = c[DOMAIN f]
  BY DEF Total, c
<1> QED BY <1>1, <1>2, <1>3, SumUnique

\* The sum of one value.
LEMMA TotalOne ==
    ASSUME NEW x, NEW f \in [{x} -> Int]
    PROVE  Total(f) = f[x]
<1>1. IsFiniteSet(DOMAIN f) /\ DOMAIN f = {x} /\ f[x] \in Int
  BY FS_Singleton
<1>2. PICK t \in [SUBSET DOMAIN f -> Int] : IsSum(t, f)
  BY <1>1, SumExists
<1>3. t[{}] = 0 /\ t[{x}] = f[First({x})] + t[{x} \ {First({x})}]
  <2> DEFINE Rest(s) == IF s = {} THEN 0 ELSE f[First(s)] + t[s \ {First(s)}]
  <2>1. t = [s \in SUBSET {x} |-> Rest(s)]
    BY <1>1, <1>2 DEF IsSum
  <2> QED BY <2>1
<1>4. First({x}) = x
  BY FirstIn
<1>5. {x} \ {x} = {}
  OBVIOUS
<1>6. t[{x}] = f[x] + 0
  BY <1>3, <1>4, <1>5
<1> QED BY <1>1, <1>2, <1>6, TotalSatisfies

LEMMA TotalIsNat ==
    ASSUME NEW Dom, IsFiniteSet(Dom), NEW f \in [Dom -> Nat]
    PROVE  Total(f) \in Nat
<1>1. PICK t : IsSum(t, f)
  BY SumExists
<1>2. DOMAIN f = Dom
  OBVIOUS
<1> QED BY <1>1, <1>2, TotalSatisfies

\* Rounding down keeps the order.
LEMMA DivMonotone ==
    ASSUME NEW a \in Int, NEW b \in Int, a <= b, NEW d \in Nat, d > 0
    PROVE  a \div d <= b \div d /\ a \div d \in Int
<1> DEFINE p == a \div d
           q == b \div d
<1>1. p \in Int /\ q \in Int /\ d * p <= a /\ b < d * q + d
  OBVIOUS
<1> HIDE DEF p, q
<1>2. ASSUME p > q PROVE FALSE
  <2>1. p >= q + 1
    BY <1>1, <1>2
  <2>2. d * p >= d * (q + 1)
    BY <2>1, <1>1
  <2>3. d * (q + 1) = d * q + d
    BY <1>1
  <2> QED BY <1>1, <2>2, <2>3
<1>3. p <= q
  BY <1>1, <1>2
<1> QED BY <1>1, <1>3 DEF p, q
LEMMA TimesMonotone ==
    ASSUME NEW a \in Int, NEW b \in Int, a <= b, NEW d \in Nat
    PROVE  a * d <= b * d
OBVIOUS


\* What calculateQuote adds up in its loop over the lines and over the components of a
\* bundle: the sum of a function.
LEMMA LaborIsTotal ==
    ASSUME NEW lines, IsFiniteSet(DOMAIN lines), NEW services, NEW bundles,
           \A i \in DOMAIN lines : C!LinePrice(lines[i], services, bundles) \in Int
    PROVE  C!Labor(lines, services, bundles)
             = Total([i \in DOMAIN lines |-> C!LinePrice(lines[i], services, bundles)])
<1> DEFINE f == [i \in DOMAIN lines |-> C!LinePrice(lines[i], services, bundles)]
           P(t) == t = [s \in SUBSET DOMAIN lines |-> IF s = {} THEN 0
                         ELSE LET x == CHOOSE x \in s : TRUE
                              IN  C!LinePrice(lines[x], services, bundles) + t[s \ {x}]]
           c == CHOOSE t : P(t)
<1>1. \A t : P(t) <=> IsSum(t, f)
  <2> SUFFICES ASSUME NEW t PROVE P(t) <=> IsSum(t, f)
    OBVIOUS
  <2>1. \A s \in SUBSET DOMAIN lines : s # {} =>
          f[First(s)] = C!LinePrice(lines[CHOOSE x \in s : TRUE], services, bundles)
    BY FirstIn DEF First
  <2> QED BY <2>1 DEF IsSum, First
<1>2. DOMAIN f = DOMAIN lines /\ f \in [DOMAIN lines -> Int]
  OBVIOUS
<1>3. c[DOMAIN lines] = Total(f)
  <2> HIDE DEF P, f
  <2>1. P(c)
    BY <1>1, <1>2, SumExists
  <2> QED BY <1>1, <1>2, <2>1, TotalSatisfies
<1>4. C!Labor(lines, services, bundles) = c[DOMAIN lines]
  BY DEF C!Labor, C!MapThenSumSet, C!MapThenFoldSet
<1> QED BY <1>3, <1>4

LEMMA MinutesIsTotal ==
    ASSUME NEW lines, IsFiniteSet(DOMAIN lines), NEW bundles,
           \A i \in DOMAIN lines : C!LineMinutes(lines[i], bundles) \in Int
    PROVE  C!Minutes(lines, bundles)
             = Total([i \in DOMAIN lines |-> C!LineMinutes(lines[i], bundles)])
<1> DEFINE f == [i \in DOMAIN lines |-> C!LineMinutes(lines[i], bundles)]
           P(t) == t = [s \in SUBSET DOMAIN lines |-> IF s = {} THEN 0
                         ELSE LET x == CHOOSE x \in s : TRUE
                              IN  C!LineMinutes(lines[x], bundles) + t[s \ {x}]]
           c == CHOOSE t : P(t)
<1>1. \A t : P(t) <=> IsSum(t, f)
  <2> SUFFICES ASSUME NEW t PROVE P(t) <=> IsSum(t, f)
    OBVIOUS
  <2>1. \A s \in SUBSET DOMAIN lines : s # {} =>
          f[First(s)] = C!LineMinutes(lines[CHOOSE x \in s : TRUE], bundles)
    BY FirstIn DEF First
  <2> QED BY <2>1 DEF IsSum, First
<1>2. DOMAIN f = DOMAIN lines /\ f \in [DOMAIN lines -> Int]
  OBVIOUS
<1>3. c[DOMAIN lines] = Total(f)
  <2> HIDE DEF P, f
  <2>1. P(c)
    BY <1>1, <1>2, SumExists
  <2> QED BY <1>1, <1>2, <2>1, TotalSatisfies
<1>4. C!Minutes(lines, bundles) = c[DOMAIN lines]
  BY DEF C!Minutes, C!MapThenSumSet, C!MapThenFoldSet
<1> QED BY <1>3, <1>4

\* What one component comes to.
PartPrice(part, services) == C!UnitPrice(services[part.service], part.duration, part.spec)

LEMMA PartsPriceIsTotal ==
    ASSUME NEW list, IsFiniteSet(DOMAIN list), NEW services,
           \A i \in DOMAIN list : PartPrice(list[i], services) \in Int
    PROVE  C!PartsPrice(list, services)
             = Total([i \in DOMAIN list |-> PartPrice(list[i], services)])
<1> DEFINE f == [i \in DOMAIN list |-> PartPrice(list[i], services)]
           P(t) == t = [s \in SUBSET DOMAIN list |-> IF s = {} THEN 0
                         ELSE LET x == CHOOSE x \in s : TRUE
                              IN  PartPrice(list[x], services) + t[s \ {x}]]
           c == CHOOSE t : P(t)
<1>1. \A t : P(t) <=> IsSum(t, f)
  <2> SUFFICES ASSUME NEW t PROVE P(t) <=> IsSum(t, f)
    OBVIOUS
  <2>1. \A s \in SUBSET DOMAIN list : s # {} =>
          f[First(s)] = PartPrice(list[CHOOSE x \in s : TRUE], services)
    BY FirstIn DEF First
  <2> QED BY <2>1 DEF IsSum, First
<1>2. DOMAIN f = DOMAIN list /\ f \in [DOMAIN list -> Int]
  OBVIOUS
<1>3. c[DOMAIN list] = Total(f)
  <2> HIDE DEF P, f
  <2>1. P(c)
    BY <1>1, <1>2, SumExists
  <2> QED BY <1>1, <1>2, <2>1, TotalSatisfies
<1>4. C!PartsPrice(list, services) = c[DOMAIN list]
  BY DEF C!PartsPrice, PartPrice, C!MapThenSumSet, C!MapThenFoldSet
<1> QED BY <1>3, <1>4

LEMMA PartsMinutesIsTotal ==
    ASSUME NEW list, IsFiniteSet(DOMAIN list),
           \A i \in DOMAIN list : list[i].duration \in Int
    PROVE  C!PartsMinutes(list)
             = Total([i \in DOMAIN list |-> list[i].duration])
<1> DEFINE f == [i \in DOMAIN list |-> list[i].duration]
           P(t) == t = [s \in SUBSET DOMAIN list |-> IF s = {} THEN 0
                         ELSE LET x == CHOOSE x \in s : TRUE
                              IN  list[x].duration + t[s \ {x}]]
           c == CHOOSE t : P(t)
<1>1. \A t : P(t) <=> IsSum(t, f)
  <2> SUFFICES ASSUME NEW t PROVE P(t) <=> IsSum(t, f)
    OBVIOUS
  <2>1. \A s \in SUBSET DOMAIN list : s # {} =>
          f[First(s)] = list[CHOOSE x \in s : TRUE].duration
    BY FirstIn DEF First
  <2> QED BY <2>1 DEF IsSum, First
<1>2. DOMAIN f = DOMAIN list /\ f \in [DOMAIN list -> Int]
  OBVIOUS
<1>3. c[DOMAIN list] = Total(f)
  <2> HIDE DEF P, f
  <2>1. P(c)
    BY <1>1, <1>2, SumExists
  <2> QED BY <1>1, <1>2, <2>1, TotalSatisfies
<1>4. C!PartsMinutes(list) = c[DOMAIN list]
  BY DEF C!PartsMinutes, C!MapThenSumSet, C!MapThenFoldSet
<1> QED BY <1>3, <1>4


\* Where nothing is said, a component is sold as the bundle defines it.
LEMMA PartIsDefault ==
    ASSUME NEW component
    PROVE  LET part == C!Selected(component, {})
           IN  /\ part.service = component.service /\ part.duration = component.duration
               /\ part.spec.headcount = component.spec.headcount
               /\ part.spec.tools = component.spec.tools
               /\ part.spec.addOns = component.spec.addOns
BY DEF C!Selected, C!Or

LEMMA SamePriceCount == \A S : C!Cardinality(S) = Cardinality(S)
BY DEF C!Cardinality, Cardinality

\* What can be sold has a price, and a price is not negative.
LEMMA PricesAreNat ==
    ASSUME NEW s \in DOMAIN Services, NEW d, NEW spec, C!Sellable(Services[s], d, 1, spec)
    PROVE  C!UnitPrice(Services[s], d, spec) \in Nat
<1> DEFINE more == C!Or(spec.headcount, 1) - 1
           core == Services[s].base + Services[s].adjust[d]
           extras == C!Cardinality(C!Or(spec.addOns, {}))
<1>1. core \in Int
  BY DocumentsAssumption DEF C!Sellable
<1>2. more \in Int
  BY DocumentsAssumption DEF C!Sellable
<1>3. extras \in Nat
  <2>1. IsFiniteSet(C!Or(spec.addOns, {}))
    BY DocumentsAssumption, FS_Subset DEF C!Sellable
  <2> QED BY <2>1, FS_CardinalityType, SamePriceCount
<1> DEFINE tools == IF C!Or(spec.tools, "provider") = "customer" THEN 800 ELSE 0
           price == core + (core * 6 * more) \div 10 - tools + 1200 * extras
<1>4. C!UnitPrice(Services[s], d, spec) = IF price > 0 THEN price ELSE 0
  BY DEF C!UnitPrice
<1>7. tools \in Nat
  OBVIOUS
<1> HIDE DEF core, more, extras, tools
<1>5. core * 6 * more \in Int
  BY <1>1, <1>2
<1>6. (core * 6 * more) \div 10 \in Int
  BY <1>5
<1>8. price \in Int
  BY <1>1, <1>3, <1>6, <1>7
<1> HIDE DEF price
<1> QED BY <1>4, <1>8

\* When a cart has a quote, and which.
LEMMA QuoteIsPriced ==
    ASSUME NEW q, NEW services, NEW bundles, NEW jurisdiction
    PROVE  LET quote == C!Quote(q, services, bundles, jurisdiction)
               minutes == C!Minutes(q.lines, bundles)
               labor == C!Labor(q.lines, services, bundles)
           IN  /\ quote.code = "OK" <=>
                    /\ q.lines # <<>> /\ q.asked # Unset /\ ~C!OutOfArea(q.miles)
                    /\ ~C!TaxRefused(q, jurisdiction)
                    /\ \A i \in DOMAIN q.lines : C!LineOK(q.lines[i], services, bundles)
               /\ quote.code = "OK" =>
                    quote = C!Priced(minutes, labor, C!Surcharges(q, minutes, labor),
                                     C!TaxRate(q, jurisdiction))
<1> DEFINE minutes == C!Minutes(q.lines, bundles)
           labor == C!Labor(q.lines, services, bundles)
           extra == C!Surcharges(q, minutes, labor)
           rate == C!TaxRate(q, jurisdiction)
           Sold == \A i \in DOMAIN q.lines : C!LineOK(q.lines[i], services, bundles)
           out == C!OutOfArea(q.miles)
           refused == C!TaxRefused(q, jurisdiction)
           quote == C!Quote(q, services, bundles, jurisdiction)
<1>1. quote = CASE q.lines = <<>> \/ q.asked = Unset -> C!Rejected
                [] q.lines # <<>> /\ q.asked # Unset /\ out ->
                     [C!Rejected EXCEPT !.code = "OUT_OF_SERVICE_AREA"]
                [] OTHER -> IF refused \/ ~Sold THEN C!Rejected
                            ELSE C!Priced(minutes, labor, extra, rate)
  BY DEF C!Quote
<1>2. C!Priced(minutes, labor, extra, rate).code = "OK"
  BY DEF C!Priced
<1>3. C!Rejected.code # "OK" /\ [C!Rejected EXCEPT !.code = "OUT_OF_SERVICE_AREA"].code # "OK"
  BY DEF C!Rejected
<1> HIDE DEF minutes, labor, extra, rate, Sold, out, refused, quote
<1>4. CASE q.lines = <<>> \/ q.asked = Unset
  BY <1>1, <1>3, <1>4 DEF quote, Sold, out, refused
<1>5. CASE q.lines # <<>> /\ q.asked # Unset /\ out
  BY <1>1, <1>3, <1>5 DEF quote, Sold, out, refused
<1>6. CASE q.lines # <<>> /\ q.asked # Unset /\ ~out
  BY <1>1, <1>2, <1>3, <1>6 DEF quote, Sold, out, refused, minutes, labor, extra, rate
<1> QED BY <1>4, <1>5, <1>6

\* Less labor in the same minutes is surcharged and taxed less, rounding included.
LEMMA LessLaborCostsLess ==
    ASSUME NEW q, NEW minutes \in Nat, NEW less \in Int, NEW labor \in Int, less <= labor,
           NEW rate \in Nat
    PROVE  C!Priced(minutes, less, C!Surcharges(q, minutes, less), rate).total
             <= C!Priced(minutes, labor, C!Surcharges(q, minutes, labor), rate).total
<1> DEFINE late == C!AfterHoursMinutes(q.start, minutes)
           flat == C!TravelFee(q.miles) + (IF C!SameDay(q) THEN 2500 ELSE 0)
           Late(l) == IF minutes = 0 THEN 0 ELSE (l * late) \div (2 * minutes)
           Extra(l) == flat + Late(l)
           Tax(l) == ((l + Extra(l)) * rate) \div 100
<1>1. late \in Nat
  <2> DEFINE dark == {i \in 0..(minutes - 1) : C!AfterHours(q.start + i)}
  <2>1. IsFiniteSet(0..(minutes - 1))
    BY FS_Interval
  <2>2. late = Cardinality(dark) /\ dark \in SUBSET (0..(minutes - 1))
    BY SamePriceCount DEF C!AfterHoursMinutes
  <2> HIDE DEF dark
  <2> QED BY <2>1, <2>2, FS_CardinalityType, FS_Subset
<1>2. flat \in Nat
  BY DEF C!TravelFee
<1>3. \A l \in Int : C!Surcharges(q, minutes, l) = Extra(l)
  BY <1>2 DEF C!Surcharges
<1>4. Late(less) \in Int /\ Late(labor) \in Int /\ Late(less) <= Late(labor)
  <2>1. CASE minutes = 0
    BY <2>1
  <2>2. CASE minutes # 0
    <3> HIDE DEF late
    <3>1. less * late \in Int /\ labor * late \in Int /\ less * late <= labor * late
      BY <1>1, TimesMonotone
    <3>2. (less * late) \div (2 * minutes) <= (labor * late) \div (2 * minutes)
      BY <2>2, <3>1, DivMonotone
    <3>3. (less * late) \div (2 * minutes) \in Int /\ (labor * late) \div (2 * minutes) \in Int
      BY <2>2, <3>1
    <3> QED BY <2>2, <3>2, <3>3
  <2> QED BY <2>1, <2>2
<1> HIDE DEF late, flat, Late
<1>5. Extra(less) \in Int /\ Extra(labor) \in Int /\ less + Extra(less) <= labor + Extra(labor)
  BY <1>2, <1>4
<1> HIDE DEF Extra
<1>6. Tax(less) \in Int /\ Tax(labor) \in Int /\ Tax(less) <= Tax(labor)
  <2>1. (less + Extra(less)) * rate <= (labor + Extra(labor)) * rate
    BY <1>5, TimesMonotone
  <2>2. (less + Extra(less)) * rate \in Int /\ (labor + Extra(labor)) * rate \in Int
    BY <1>5
  <2> QED BY <2>1, <2>2, DivMonotone
<1>7. \A l \in {less, labor} : C!Priced(minutes, l, C!Surcharges(q, minutes, l), rate).total
                                 = l + Extra(l) + Tax(l)
  BY <1>3 DEF C!Priced
<1> HIDE DEF Tax
<1>8. less + Extra(less) + Tax(less) <= labor + Extra(labor) + Tax(labor)
  BY <1>5, <1>6
<1> QED BY <1>7, <1>8

\* The components of a bundle, bought one by one.
Loose(c) == [type |-> "service", id |-> c.service, duration |-> c.duration, quantity |-> 1,
             spec |-> c.spec]

\* The bundle as a line, and the catalogue that holds it.
Whole(b) == [type |-> "bundle", id |-> b, quantity |-> 1, specs |-> {}]
Offer(b, bundle) == [id \in {b} |-> bundle]

\* What the components come to, one by one.
ListPrice(list, services) == Total([i \in DOMAIN list |-> PartPrice(list[i], services)])
ListMinutes(list) == Total([i \in DOMAIN list |-> list[i].duration])

\* A cart with the components of a bundle as services, if it has a quote.
LEMMA LooseCart ==
    ASSUME NEW list, Len(list) \in Nat, DOMAIN list = 1..Len(list),
           NEW services,
           \A s \in DOMAIN services : s \in DOMAIN Services /\ services[s] = Services[s],
           NEW bundles,
           \A i \in DOMAIN list :
             C!LineOK([j \in DOMAIN list |-> Loose(list[j])][i], services, bundles)
    PROVE  /\ \A i \in DOMAIN list :
                /\ list[i].service \in DOMAIN services
                /\ C!Sellable(services[list[i].service], list[i].duration, 1, list[i].spec)
                /\ PartPrice(list[i], services) \in Nat /\ list[i].duration \in Nat
           /\ C!Labor([j \in DOMAIN list |-> Loose(list[j])], services, bundles)
                = ListPrice(list, services)
           /\ C!Minutes([j \in DOMAIN list |-> Loose(list[j])], bundles) = ListMinutes(list)
<1> DEFINE lines == [j \in DOMAIN list |-> Loose(list[j])]
<1>1. IsFiniteSet(DOMAIN list) /\ DOMAIN lines = DOMAIN list
  BY FS_Interval
<1>2. \A i \in DOMAIN list : lines[i] = Loose(list[i])
  OBVIOUS
<1>3. ASSUME NEW i \in DOMAIN list
      PROVE  /\ list[i].service \in DOMAIN services
             /\ C!Sellable(services[list[i].service], list[i].duration, 1, list[i].spec)
             /\ PartPrice(list[i], services) \in Nat /\ list[i].duration \in Nat
             /\ C!LinePrice(lines[i], services, bundles) = PartPrice(list[i], services)
             /\ C!LineMinutes(lines[i], bundles) = list[i].duration
  <2> DEFINE c == list[i]
  <2>1. C!LineOK(Loose(c), services, bundles)
    BY <1>2, <1>3
  <2> HIDE DEF c
  <2>2. c.service \in DOMAIN services /\ C!Sellable(services[c.service], c.duration, 1, c.spec)
    BY <2>1 DEF C!LineOK, Loose
  <2>3. c.duration \in Nat
    BY <2>2 DEF C!Sellable, C!Durations
  <2>4. PartPrice(c, services) \in Nat
    BY <2>2, PricesAreNat DEF PartPrice
  <2>5. C!LinePrice(Loose(c), services, bundles) = 1 * PartPrice(c, services)
    BY DEF C!LinePrice, Loose, PartPrice
  <2>6. C!LineMinutes(Loose(c), bundles) = 1 * c.duration
    BY DEF C!LineMinutes, Loose
  <2>7. /\ C!LinePrice(Loose(c), services, bundles) = PartPrice(c, services)
        /\ C!LineMinutes(Loose(c), bundles) = c.duration
    BY <2>3, <2>4, <2>5, <2>6
  <2> QED BY <1>2, <2>2, <2>3, <2>4, <2>7 DEF c
<1> HIDE DEF lines
<1>4. C!Labor(lines, services, bundles)
        = Total([i \in DOMAIN list |-> PartPrice(list[i], services)])
  <2>1. C!Labor(lines, services, bundles)
          = Total([i \in DOMAIN lines |-> C!LinePrice(lines[i], services, bundles)])
    BY <1>1, <1>3, LaborIsTotal
  <2>2. [i \in DOMAIN lines |-> C!LinePrice(lines[i], services, bundles)]
          = [i \in DOMAIN list |-> PartPrice(list[i], services)]
    BY <1>1, <1>3
  <2> QED BY <2>1, <2>2
<1>5. C!Minutes(lines, bundles) = Total([i \in DOMAIN list |-> list[i].duration])
  <2>1. C!Minutes(lines, bundles)
          = Total([i \in DOMAIN lines |-> C!LineMinutes(lines[i], bundles)])
    BY <1>1, <1>3, MinutesIsTotal
  <2>2. [i \in DOMAIN lines |-> C!LineMinutes(lines[i], bundles)]
          = [i \in DOMAIN list |-> list[i].duration]
    BY <1>1, <1>3
  <2> QED BY <2>1, <2>2
<1> QED BY <1>3, <1>4, <1>5 DEF lines, ListPrice, ListMinutes

\* A cart with the bundle as its only line.
LEMMA WholeCart ==
    ASSUME NEW b, NEW bundle, bundle.discount \in Nat, NEW services,
           Len(bundle.components) \in Nat,
           DOMAIN bundle.components = 1..Len(bundle.components),
           \A i \in DOMAIN bundle.components :
             /\ bundle.components[i].service \in DOMAIN services
             /\ C!Sellable(services[bundle.components[i].service], bundle.components[i].duration,
                           1, bundle.components[i].spec)
             /\ PartPrice(bundle.components[i], services) \in Nat
             /\ bundle.components[i].duration \in Nat
    PROVE  /\ C!LineOK(Whole(b), services, Offer(b, bundle))
           /\ ListPrice(bundle.components, services) \in Nat
           /\ ListMinutes(bundle.components) \in Nat
           /\ C!Labor(<<Whole(b)>>, services, Offer(b, bundle))
                = C!Discounted(bundle, ListPrice(bundle.components, services))
           /\ C!Minutes(<<Whole(b)>>, Offer(b, bundle)) = ListMinutes(bundle.components)
<1> DEFINE list == bundle.components
           bundles == [id \in {b} |-> bundle]
           line == [type |-> "bundle", id |-> b, quantity |-> 1, specs |-> {}]
           price == Total([i \in DOMAIN list |-> PartPrice(list[i], services)])
           minutes == Total([i \in DOMAIN list |-> list[i].duration])
           kit == C!Selection(bundle, {})
<1>1. /\ DOMAIN kit = DOMAIN list /\ IsFiniteSet(DOMAIN list)
      /\ \A i \in DOMAIN list : kit[i] = C!Selected(list[i], {})
  BY FS_Interval DEF C!Selection
<1>2. ASSUME NEW i \in DOMAIN list
      PROVE  /\ kit[i].service \in DOMAIN services
             /\ C!Sellable(services[kit[i].service], kit[i].duration, 1, kit[i].spec)
             /\ PartPrice(kit[i], services) = PartPrice(list[i], services)
             /\ PartPrice(list[i], services) \in Nat
             /\ kit[i].duration = list[i].duration /\ list[i].duration \in Nat
  <2> DEFINE c == list[i]
             p == kit[i]
  <2>1. /\ c.service \in DOMAIN services
        /\ C!Sellable(services[c.service], c.duration, 1, c.spec)
        /\ PartPrice(c, services) \in Nat /\ c.duration \in Nat
    BY <1>2
  <2>2. /\ p.service = c.service /\ p.duration = c.duration
        /\ p.spec.headcount = c.spec.headcount /\ p.spec.tools = c.spec.tools
        /\ p.spec.addOns = c.spec.addOns
    BY <1>1, <1>2, PartIsDefault
  <2> HIDE DEF c, p
  <2>3. C!Sellable(services[p.service], p.duration, 1, p.spec)
    BY <2>1, <2>2 DEF C!Sellable
  <2>4. PartPrice(p, services) = PartPrice(c, services)
    BY <2>2 DEF PartPrice, C!UnitPrice
  <2> QED BY <2>1, <2>2, <2>3, <2>4 DEF c, p
<1> HIDE DEF kit
<1>3. bundles[b] = bundle /\ DOMAIN bundles = {b}
  OBVIOUS
<1>4. C!LineOK(line, services, bundles)
  <2> DEFINE chosen == C!Selection(bundles[line.id], line.specs)
  <2>1. chosen = kit
    BY <1>3 DEF kit
  <2> HIDE DEF chosen
  <2>2. \A i \in DOMAIN bundles[line.id].components :
          /\ chosen[i].service \in DOMAIN services
          /\ C!Sellable(services[chosen[i].service], chosen[i].duration, 1, chosen[i].spec)
    BY <1>2, <1>3, <2>1
  <2>3. line.id \in DOMAIN bundles /\ line.quantity >= 1 /\ line.type # "service"
    BY <1>3
  <2> HIDE DEF line, bundles
  <2> QED BY <2>2, <2>3 DEF C!LineOK, chosen
<1>5. C!PartsPrice(kit, services) = price /\ price \in Nat
  <2>1. C!PartsPrice(kit, services)
          = Total([i \in DOMAIN kit |-> PartPrice(kit[i], services)])
    BY <1>1, <1>2, PartsPriceIsTotal
  <2>2. [i \in DOMAIN kit |-> PartPrice(kit[i], services)]
          = [i \in DOMAIN list |-> PartPrice(list[i], services)]
    BY <1>1, <1>2
  <2>3. price \in Nat
    BY <1>1, <1>2, TotalIsNat
  <2> QED BY <2>1, <2>2, <2>3
<1>6. C!PartsMinutes(kit) = minutes /\ minutes \in Nat
  <2>1. C!PartsMinutes(kit) = Total([i \in DOMAIN kit |-> kit[i].duration])
    BY <1>1, <1>2, PartsMinutesIsTotal
  <2>2. [i \in DOMAIN kit |-> kit[i].duration] = [i \in DOMAIN list |-> list[i].duration]
    BY <1>1, <1>2
  <2>3. minutes \in Nat
    BY <1>1, <1>2, TotalIsNat
  <2> QED BY <2>1, <2>2, <2>3
<1> HIDE DEF price, minutes
<1>7. C!Discounted(bundle, price) \in Int
  BY <1>5 DEF C!Discounted
<1>8. C!LinePrice(line, services, bundles) = C!Discounted(bundle, price)
  <2>1. C!LinePrice(line, services, bundles)
          = 1 * C!Discounted(bundle, C!PartsPrice(kit, services))
    BY <1>3 DEF C!LinePrice, kit
  <2> QED BY <1>5, <1>7, <2>1
<1>9. C!LineMinutes(line, bundles) = minutes
  <2>1. C!LineMinutes(line, bundles) = 1 * C!PartsMinutes(kit)
    BY <1>3 DEF C!LineMinutes, kit
  <2> QED BY <1>6, <2>1
<1> DEFINE lines == <<line>>
<1>10. DOMAIN lines = {1} /\ lines[1] = line
  OBVIOUS
<1> HIDE DEF line, lines, bundles
<1>13. IsFiniteSet(DOMAIN lines)
  BY <1>10, FS_Singleton
<1>11. C!Labor(lines, services, bundles) = C!Discounted(bundle, price)
  <2> DEFINE f == [i \in DOMAIN lines |-> C!LinePrice(lines[i], services, bundles)]
  <2>1. f \in [{1} -> Int] /\ f[1] = C!Discounted(bundle, price)
    BY <1>7, <1>8, <1>10
  <2>2. \A i \in DOMAIN lines : C!LinePrice(lines[i], services, bundles) \in Int
    BY <1>7, <1>8, <1>10
  <2>3. C!Labor(lines, services, bundles) = Total(f)
    BY <1>13, <2>2, LaborIsTotal
  <2> HIDE DEF f
  <2> QED BY <2>1, <2>3, TotalOne
<1>12. C!Minutes(lines, bundles) = minutes
  <2> DEFINE f == [i \in DOMAIN lines |-> C!LineMinutes(lines[i], bundles)]
  <2>1. f \in [{1} -> Int] /\ f[1] = minutes
    BY <1>6, <1>9, <1>10
  <2>2. \A i \in DOMAIN lines : C!LineMinutes(lines[i], bundles) \in Int
    BY <1>6, <1>9, <1>10
  <2>3. C!Minutes(lines, bundles) = Total(f)
    BY <1>13, <2>2, MinutesIsTotal
  <2> HIDE DEF f
  <2> QED BY <2>1, <2>3, TotalOne
<1> QED BY <1>4, <1>5, <1>6, <1>11, <1>12
        DEF lines, line, bundles, price, minutes, Whole, Offer, ListPrice, ListMinutes

\* While a customer browses the catalogue, whatever is on offer and however it is composed:
\* both carts add up the same terms, the bundle takes its discount from the sum, and every
\* later step of the computation keeps the order.
LEMMA BundlesAreCheaper ==
    ASSUME PriceInv PROVE C!BundleNeverDearer
<1> SUFFICES ASSUME page = "catalog", NEW b \in offered, NEW t \in TypedStarts,
                    NEW n \in MilesGiven
             PROVE  LET bundle == [Bundles[b] EXCEPT !.components = parts[b]]
                        Cart(lines) == [lines |-> lines, start |-> t, asked |-> t - 60,
                                        miles |-> n, priority |-> TRUE, tax |-> TRUE]
                        One(c) == [type |-> "service", id |-> c.service,
                                   duration |-> c.duration, quantity |-> 1, spec |-> c.spec]
                        Cost(lines) == C!Quote(Cart(lines), [s \in onSale |-> Services[s]],
                                               [id \in {b} |-> bundle],
                                               Jurisdictions[FirstListed])
                        whole == Cost(<<[type |-> "bundle", id |-> b, quantity |-> 1,
                                         specs |-> {}]>>)
                        loose == Cost([i \in DOMAIN parts[b] |-> One(parts[b][i])])
                    IN  loose.code = "OK" => whole.code = "OK" /\ whole.total <= loose.total
  BY DEF C!BundleNeverDearer
<1> DEFINE list == parts[b]
           bundle == [Bundles[b] EXCEPT !.components = list]
           services == [s \in onSale |-> Services[s]]
           bundles == Offer(b, bundle)
           jurisdiction == Jurisdictions[FirstListed]
           Cart(lines) == [lines |-> lines, start |-> t, asked |-> t - 60, miles |-> n,
                           priority |-> TRUE, tax |-> TRUE]
           ones == [i \in DOMAIN list |-> Loose(list[i])]
           line == Whole(b)
           loose == C!Quote(Cart(ones), services, bundles, jurisdiction)
           whole == C!Quote(Cart(<<line>>), services, bundles, jurisdiction)
<1>1. onSale \subseteq DOMAIN Services /\ b \in DOMAIN Bundles
      /\ list \in Recompositions \cup {Bundles[a].components : a \in DOMAIN Bundles}
  BY DEF PriceInv, CatalogueTyped
<1>2. Len(list) \in Nat /\ DOMAIN list = 1..Len(list)
  BY <1>1, DocumentsAssumption
<1>3. bundle.components = list /\ bundle.discount = Bundles[b].discount
      /\ bundle.discount \in Nat
  BY <1>1, DocumentsAssumption
<1>4. \A s \in DOMAIN services : s \in DOMAIN Services /\ services[s] = Services[s]
  BY <1>1
<1>5. jurisdiction.rate \in Nat
  BY DocumentsAssumption
<1>6. SUFFICES ASSUME loose.code = "OK" PROVE whole.code = "OK" /\ whole.total <= loose.total
  BY DEF Loose, Whole, Offer
<1> HIDE DEF bundle, services, bundles, jurisdiction, list
<1> DEFINE price == ListPrice(list, services)
           minutes == ListMinutes(list)
           rate == C!TaxRate(Cart(ones), jurisdiction)
<1>7. /\ Cart(ones).lines = ones /\ Cart(<<line>>).lines = <<line>>
      /\ \A lines : /\ Cart(lines).miles = n /\ Cart(lines).asked = t - 60
                    /\ Cart(lines).tax = TRUE /\ Cart(lines).start = t
                    /\ Cart(lines).priority = TRUE
  OBVIOUS
<1> HIDE DEF Cart
<1>8. /\ ones # <<>> /\ t - 60 # Unset /\ ~C!OutOfArea(n)
      /\ ~C!TaxRefused(Cart(ones), jurisdiction)
      /\ \A i \in DOMAIN ones : C!LineOK(ones[i], services, bundles)
      /\ loose = C!Priced(C!Minutes(ones, bundles), C!Labor(ones, services, bundles),
                          C!Surcharges(Cart(ones), C!Minutes(ones, bundles),
                                       C!Labor(ones, services, bundles)), rate)
  <2> HIDE DEF ones
  <2> QED BY <1>6, <1>7, QuoteIsPriced
<1>9. /\ \A i \in DOMAIN list :
           /\ list[i].service \in DOMAIN services
           /\ C!Sellable(services[list[i].service], list[i].duration, 1, list[i].spec)
           /\ PartPrice(list[i], services) \in Nat /\ list[i].duration \in Nat
      /\ C!Labor(ones, services, bundles) = price /\ C!Minutes(ones, bundles) = minutes
  <2>1. \A i \in DOMAIN list : C!LineOK(ones[i], services, bundles)
    BY <1>8
  <2> QED BY <1>2, <1>4, <2>1, LooseCart
<1> HIDE DEF ones
<1>10. /\ C!LineOK(line, services, bundles) /\ price \in Nat /\ minutes \in Nat
       /\ C!Labor(<<line>>, services, bundles) = C!Discounted(bundle, price)
       /\ C!Minutes(<<line>>, bundles) = minutes
  <2>1. \A i \in DOMAIN list :
           /\ list[i].service \in DOMAIN services
           /\ C!Sellable(services[list[i].service], list[i].duration, 1, list[i].spec)
           /\ PartPrice(list[i], services) \in Nat /\ list[i].duration \in Nat
    BY <1>9
  <2>2. /\ C!LineOK(Whole(b), services, Offer(b, bundle))
        /\ ListPrice(bundle.components, services) \in Nat
        /\ ListMinutes(bundle.components) \in Nat
        /\ C!Labor(<<Whole(b)>>, services, Offer(b, bundle))
             = C!Discounted(bundle, ListPrice(bundle.components, services))
        /\ C!Minutes(<<Whole(b)>>, Offer(b, bundle)) = ListMinutes(bundle.components)
    BY <1>2, <1>3, <2>1, WholeCart
  <2> QED BY <1>3, <2>2 DEF bundles
<1> HIDE DEF price, minutes, line
<1>11. /\ C!TaxRefused(Cart(<<line>>), jurisdiction) = C!TaxRefused(Cart(ones), jurisdiction)
       /\ C!TaxRate(Cart(<<line>>), jurisdiction) = rate /\ rate \in Nat
  BY <1>5, <1>7 DEF C!TaxRefused, C!TaxRate
<1>12. \A m, l : C!Surcharges(Cart(<<line>>), m, l) = C!Surcharges(Cart(ones), m, l)
  BY <1>7 DEF C!Surcharges, C!SameDay
<1>13. /\ whole.code = "OK"
       /\ whole = C!Priced(minutes, C!Discounted(bundle, price),
                           C!Surcharges(Cart(ones), minutes, C!Discounted(bundle, price)), rate)
  <2> DEFINE cart == <<line>>
  <2>1. cart # <<>> /\ \A i \in DOMAIN cart : cart[i] = line
    OBVIOUS
  <2>2. C!Labor(cart, services, bundles) = C!Discounted(bundle, price)
        /\ C!Minutes(cart, bundles) = minutes /\ Cart(cart).lines = cart
    BY <1>7, <1>10
  <2> DEFINE quote == C!Quote(Cart(cart), services, bundles, jurisdiction)
  <2>3. whole = quote
    OBVIOUS
  <2> HIDE DEF cart
  <2>4. ~C!TaxRefused(Cart(cart), jurisdiction) /\ C!TaxRate(Cart(cart), jurisdiction) = rate
    BY <1>8, <1>11 DEF cart
  <2>5. quote.code = "OK"
    BY <1>7, <1>8, <1>10, <2>1, <2>2, <2>4, QuoteIsPriced
  <2>6. quote = C!Priced(C!Minutes(Cart(cart).lines, bundles),
                         C!Labor(Cart(cart).lines, services, bundles),
                         C!Surcharges(Cart(cart), C!Minutes(Cart(cart).lines, bundles),
                                      C!Labor(Cart(cart).lines, services, bundles)),
                         C!TaxRate(Cart(cart), jurisdiction))
    BY <2>5, QuoteIsPriced
  <2>7. \A m, l : C!Surcharges(Cart(cart), m, l) = C!Surcharges(Cart(ones), m, l)
    BY <1>12 DEF cart
  <2> QED BY <2>2, <2>3, <2>4, <2>5, <2>6, <2>7
<1>14. C!Discounted(bundle, price) \in Int /\ C!Discounted(bundle, price) <= price
  <2>1. price * bundle.discount \in Nat
    BY <1>3, <1>10
  <2> QED BY <1>3, <1>10, <2>1 DEF C!Discounted
<1>15. C!Priced(minutes, C!Discounted(bundle, price),
                C!Surcharges(Cart(ones), minutes, C!Discounted(bundle, price)), rate).total
         <= C!Priced(minutes, price, C!Surcharges(Cart(ones), minutes, price), rate).total
  BY <1>10, <1>11, <1>14, LessLaborCostsLess
<1> QED BY <1>8, <1>9, <1>13, <1>15

-----------------------------------------------------------------------------
(* The pages *)

PagesInv == BrowserInv /\ PriceInv /\ DeadlineInv

LEMMA PagesBegin == PagesInit => PagesInv
BY BrowserBegins, PriceBegins, DeadlineBegins DEF PagesInit, PagesInv

LEMMA PagesStay == PagesInv /\ [PagesNext]_pagesVars => PagesInv'
<1> SUFFICES ASSUME PagesInv, [PagesNext]_pagesVars PROVE PagesInv'
  OBVIOUS
<1>1. [Next]_vars /\ [C!Next]_checkoutVars /\ [D!Next]_calendarVars
  <2>1. CASE SessionMoves
    BY <2>1 DEF SessionMoves
  <2>2. CASE PricesMove
    BY <2>2 DEF PricesMove
  <2>3. CASE DeadlineMoves
    BY <2>3 DEF DeadlineMoves
  <2>4. CASE UNCHANGED pagesVars
    BY <2>4 DEF pagesVars
  <2> QED BY <2>1, <2>2, <2>3, <2>4 DEF PagesNext
<1> QED BY <1>1, BrowserStays, PriceStays, DeadlineStays DEF PagesInv

\* The pages keep their types: a request asks for what a form can hold, a quote has one of
\* three codes, a refresh token is one of those there are, and every number that sla.js
\* computes with is an integer that does not fall below zero where it counts what is left.
THEOREM PagesTypes == PagesSpec => []AllTypesOK
<1>1. PagesInv => AllTypesOK
  BY TypesAreParts DEF PagesInv, AllTypesOK, BrowserInv, PriceInv, DeadlineInv
<1> QED BY <1>1, PagesBegin, PagesStay, PTL DEF PagesSpec

\* However the calls of a page overlap and its answers get lost, the page ends a session that
\* its user did not leave only if one of the excuses of SessionNotThrownAway is there, and at
\* rest it shows its user as signed in only with a live session (client.ts, useAuth.tsx).
THEOREM SessionStaysHonest == PagesSpec => []SessionIsHonest
<1>1. PagesInv => SessionIsHonest
  BY SessionFollows DEF PagesInv
<1> QED BY <1>1, PagesBegin, PagesStay, PTL DEF PagesSpec

\* For every catalogue and every form, a page at rest without an error shows the quote of the
\* form as it is, and it shows that it works only while an answer can come (useDebouncedQuote).
THEOREM PagesStayTruthful == PagesSpec => []PageIsTruthful
<1>1. PagesInv => PageIsTruthful
  BY DEF PagesInv, PriceInv, PageIsTruthful
<1> QED BY <1>1, PagesBegin, PagesStay, PTL DEF PagesSpec

\* For every catalogue whose discounts and tax rate are not negative, whatever a bundle is made of,
\* whenever the visit starts and however far it is: a bundle that can be bought as its services can
\* be bought as a bundle, and costs at most as much (calculateQuote).
THEOREM BundlesNeverDearer == PagesSpec => []BundleNeverDearer
<1>1. PagesInv => BundleNeverDearer
  BY BundlesAreCheaper DEF PagesInv, BundleNeverDearer
<1> QED BY <1>1, PagesBegin, PagesStay, PTL DEF PagesSpec

\* For every calendar, a deadline is an open minute, exactly the promised number of open
\* minutes after the first one, and a ticket is refused only when no minute is open within
\* SearchLimit (addBusinessMinutes, nextBusinessMinute).
THEOREM DeadlinesCount == PagesSpec => []DeadlineCounts
<1>1. PagesInv => DeadlineCounts
  BY DeadlineFollows DEF PagesInv
<1> QED BY <1>1, PagesBegin, PagesStay, PTL DEF PagesSpec
=============================================================================
