---------------------------- MODULE AccountProofs ----------------------------
(***************************************************************************)
(* What holds of Accounts for every number of names, requests, tokens and  *)
(* faults: its types; a session has one token to go on with and none once  *)
(* it was ended; locks are earned, and guesses are as few as the threshold *)
(* says.                                                                   *)
(***************************************************************************)
EXTENDS Accounts, FiniteSetTheorems, TLAPS

\* What the theorems assume of the constants: bounds and times are numbers.
NumbersAreNumbers ==
    /\ LockoutThreshold \in Nat /\ LoginWindow \in Nat /\ RefreshTTL \in Nat
    /\ MaxClock \in Nat /\ MaxTokens \in Nat /\ MaxEvents \in Nat /\ MaxFaults \in Nat
    /\ Seeded \subseteq Usernames

-----------------------------------------------------------------------------
(* Types *)

\* A request that registers a failure has its guess; the guesses are finitely many.
KnownGuess ==
    /\ IsFiniteSet(guesses)
    /\ \A r \in Requests :
         /\ req[r].pc # "idle" => req[r].user \in Usernames
         /\ req[r].pc \in {"failing", "writing"} => req[r].guess \in guesses

\* Tokens have numbers from one on, and belong to the session of a token that was issued;
\* a request that renews a session has one of its tokens.
FirstsKnown ==
    /\ Issued = 1..Cardinality(Issued)
    /\ \A t \in Issued : token[t].first \in Issued /\ token[t].first <= t
    /\ \A r \in Requests :
         /\ req[r].token # 0 => req[r].token \in Issued /\ req[r].pc \in {"rotating", "issuing"}
         /\ req[r].pc = "rotating" => req[r].token # 0
    /\ ended \subseteq Issued

LEMMA IdleType ==
    ASSUME NumbersAreNumbers PROVE Idle \in RequestRecord
BY DEF Idle, RequestRecord, Guesses, NumbersAreNumbers

LEMMA IssuedFinite ==
    ASSUME NumbersAreNumbers
    PROVE  IsFiniteSet(Issued) /\ Cardinality(Issued) \in Nat
<1>1. IsFiniteSet(Tokens)
  BY FS_Interval DEF Tokens, NumbersAreNumbers
<1>2. IsFiniteSet(Issued)
  BY <1>1, FS_Subset DEF Issued
<1> QED BY <1>2, FS_CardinalityType

\* Of two tokens, one is the newer one.
LEMMA TokensInOrder ==
    ASSUME NumbersAreNumbers, NEW s \in Issued, NEW t \in Issued
    PROVE  /\ (s <= t) <=> (s < t \/ s = t)
           /\ s < t \/ s = t \/ t < s
           /\ (s < t) => ~(t <= s)
BY DEF Issued, Tokens, NumbersAreNumbers

LEMMA MovedType ==
    ASSUME TypeOK, NEW r \in Requests,
           NEW pc \in {"idle", "comparing", "failing", "writing", "clearing", "issuing", "rotating"},
           Goes(r, pc)
    PROVE  /\ req' \in [Requests -> RequestRecord]
           /\ req'[r] = [req[r] EXCEPT !.pc = pc]
           /\ \A q \in Requests \ {r} : req'[q] = req[q]
<1>1. req[r] \in RequestRecord
  BY DEF TypeOK
<1>2. [req[r] EXCEPT !.pc = pc] \in RequestRecord
  BY <1>1 DEF RequestRecord
<1>3. req' = [req EXCEPT ![r] = [req[r] EXCEPT !.pc = pc]]
  BY <1>1 DEF Goes, TypeOK, RequestRecord
<1> QED BY <1>2, <1>3 DEF TypeOK

LEMMA EndedType ==
    ASSUME NumbersAreNumbers, TypeOK, NEW r \in Requests, Ends(r)
    PROVE  /\ req' \in [Requests -> RequestRecord] /\ req'[r] = Idle
           /\ \A q \in Requests \ {r} : req'[q] = req[q]
BY IdleType DEF Ends, TypeOK

LEMMA NewType ==
    ASSUME TypeOK, NEW r \in Requests, NEW new \in RequestRecord,
           req' = [req EXCEPT ![r] = new]
    PROVE  /\ req' \in [Requests -> RequestRecord] /\ req'[r] = new
           /\ \A q \in Requests \ {r} : req'[q] = req[q]
BY DEF TypeOK

LEMMA RegisterTypes ==
    ASSUME NumbersAreNumbers, TypeOK, KnownGuess, NEW r \in Requests, NEW u \in Usernames,
           Register(r, u) \/ \E right \in BOOLEAN : LoginCheck(r, u, right)
    PROVE  TypeOK' /\ KnownGuess'
<1>1. CASE Register(r, u)
  <2> DEFINE new == [Idle EXCEPT !.pc = "issuing", !.user = u]
  <2>1. new \in RequestRecord /\ new.user = u /\ new.pc = "issuing"
    BY IdleType DEF RequestRecord, Idle
  <2>2. req' = [req EXCEPT ![r] = new]
    BY <1>1 DEF Register
  <2> HIDE DEF new
  <2>3. /\ req' \in [Requests -> RequestRecord] /\ req'[r] = new
        /\ \A q \in Requests \ {r} : req'[q] = req[q]
    BY <2>1, <2>2, NewType
  <2> QED BY <1>1, <2>1, <2>3 DEF Register, TypeOK, KnownGuess, history
<1>2. CASE \E right \in BOOLEAN : LoginCheck(r, u, right)
  <2> PICK right \in BOOLEAN : LoginCheck(r, u, right)
    BY <1>2
  <2> DEFINE new == [Idle EXCEPT !.pc = "comparing", !.user = u, !.right = right]
  <2>1. new \in RequestRecord /\ new.user = u /\ new.pc = "comparing"
    BY IdleType DEF RequestRecord, Idle
  <2>2. req' = [req EXCEPT ![r] = new]
    BY DEF LoginCheck
  <2> HIDE DEF new
  <2>3. /\ req' \in [Requests -> RequestRecord] /\ req'[r] = new
        /\ \A q \in Requests \ {r} : req'[q] = req[q]
    BY <2>1, <2>2, NewType
  <2> QED BY <2>1, <2>3 DEF LoginCheck, TypeOK, KnownGuess, history
<1> QED BY <1>1, <1>2

LEMMA CompareTypes ==
    ASSUME NumbersAreNumbers, TypeOK, KnownGuess, NEW r \in Requests, Compare(r)
    PROVE  TypeOK' /\ KnownGuess'
<1> DEFINE u == req[r].user
           guess == [n |-> Cardinality(guesses) + 1, at |-> clock]
<1>0. req[r].pc = "comparing" /\ u \in Usernames
  BY DEF Compare, KnownGuess
<1>1. CASE req[r].right /\ u \in users
  <2>1. Goes(r, "clearing") /\ UNCHANGED <<guesses, tried>>
    BY <1>1 DEF Compare
  <2>2. /\ req' \in [Requests -> RequestRecord] /\ req'[r] = [req[r] EXCEPT !.pc = "clearing"]
        /\ \A q \in Requests \ {r} : req'[q] = req[q]
    BY <2>1, MovedType
  <2>3. req'[r].pc = "clearing" /\ req'[r].user = u
    BY <2>2 DEF TypeOK, RequestRecord
  <2> QED BY <1>0, <2>1, <2>2, <2>3 DEF Compare, TypeOK, KnownGuess
<1>2. CASE ~(req[r].right /\ u \in users)
  <2>1. Cardinality(guesses) \in Nat /\ Cardinality(guesses) + 1 \in 1..MaxEvents
    <3>1. Cardinality(guesses) \in Nat
      BY FS_CardinalityType DEF KnownGuess
    <3>2. Cardinality(guesses) + Cardinality(Issued) < MaxEvents
      BY <1>2 DEF Compare
    <3> QED BY <3>1, <3>2, IssuedFinite DEF NumbersAreNumbers
  <2>2. guess \in Guesses
    BY <2>1 DEF Guesses, TypeOK
  <2>3. /\ guesses' = guesses \cup {guess} /\ tried' = [tried EXCEPT ![u] = @ \cup {guess}]
        /\ req' = [req EXCEPT ![r] = [req[r] EXCEPT !.pc = "failing", !.guess = guess]]
    BY <1>2 DEF Compare, TypeOK
  <2> DEFINE new == [req[r] EXCEPT !.pc = "failing", !.guess = guess]
  <2> HIDE DEF guess
  <2>4. new \in RequestRecord /\ new.pc = "failing" /\ new.user = u /\ new.guess = guess
    BY <2>2 DEF TypeOK, RequestRecord
  <2>5. req' = [req EXCEPT ![r] = new]
    BY <2>3
  <2> HIDE DEF new
  <2>6. /\ req' \in [Requests -> RequestRecord] /\ req'[r] = new
        /\ \A q \in Requests \ {r} : req'[q] = req[q]
    BY <2>4, <2>5, NewType
  <2>7. IsFiniteSet(guesses')
    BY <2>3, FS_AddElement DEF KnownGuess
  <2>8. tried' \in [Usernames -> SUBSET Guesses] /\ guesses' \subseteq Guesses
    BY <2>2, <2>3 DEF TypeOK
  <2> QED BY <1>0, <2>3, <2>4, <2>6, <2>7, <2>8 DEF Compare, TypeOK, KnownGuess
<1> QED BY <1>1, <1>2

LEMMA FailTypes ==
    ASSUME NumbersAreNumbers, TypeOK, KnownGuess, NEW r \in Requests,
           FailRead(r) \/ FailWrite(r) \/ Clear(r)
    PROVE  TypeOK' /\ KnownGuess'
<1>0. req[r].user \in Usernames /\ mixed' \subseteq Usernames
  BY DEF FailRead, FailWrite, Clear, KnownGuess, history, TypeOK, MixedNow
<1>1. CASE FailRead(r)
  <2> DEFINE seen == Recent(attempt[req[r].user].failedAt, req[r].guess.at)
             new == [req[r] EXCEPT !.pc = "writing", !.seen = seen]
  <2>1. seen \subseteq Guesses
    BY <1>0 DEF Recent, TypeOK, AttemptRecord
  <2> HIDE DEF seen
  <2>2. /\ new \in RequestRecord /\ new.pc = "writing" /\ new.user = req[r].user
        /\ new.guess = req[r].guess
    BY <2>1 DEF TypeOK, RequestRecord
  <2>3. req' = [req EXCEPT ![r] = new]
    BY <1>1 DEF FailRead, TypeOK, seen
  <2> HIDE DEF new
  <2>4. /\ req' \in [Requests -> RequestRecord] /\ req'[r] = new
        /\ \A q \in Requests \ {r} : req'[q] = req[q]
    BY <2>2, <2>3, NewType
  <2>5. req[r].guess \in guesses
    BY <1>1 DEF FailRead, KnownGuess
  <2> QED BY <1>0, <1>1, <2>2, <2>4, <2>5 DEF FailRead, TypeOK, KnownGuess, history
<1>2. CASE FailWrite(r)
  <2> DEFINE u == req[r].user
             guess == req[r].guess
             seen == req[r].seen
  <2>1. guess \in Guesses /\ seen \subseteq Guesses
    BY <1>2 DEF FailWrite, KnownGuess, TypeOK, RequestRecord
  <2>2. guess.at + LoginWindow \in Nat /\ 0 \in Nat
    BY <2>1 DEF Guesses, NumbersAreNumbers, TypeOK
  <2>3. Extended(seen, guess) \in AttemptRecord
    BY <2>1, <2>2 DEF Extended, AttemptRecord
  <2>4. attempt' \in [Usernames -> AttemptRecord] /\ counted' \in [Usernames -> SUBSET Guesses]
    BY <1>2, <2>1, <2>3 DEF FailWrite, TypeOK
  <2>5. /\ req' \in [Requests -> RequestRecord] /\ req'[r] = Idle
        /\ \A q \in Requests \ {r} : req'[q] = req[q]
    BY <1>2, EndedType DEF FailWrite
  <2> QED BY <1>0, <1>2, <2>4, <2>5 DEF FailWrite, TypeOK, KnownGuess, Idle
<1>3. CASE Clear(r)
  <2>1. NoAttempt \in AttemptRecord
    BY DEF NoAttempt, AttemptRecord
  <2>2. /\ req' \in [Requests -> RequestRecord] /\ req'[r] = [req[r] EXCEPT !.pc = "issuing"]
        /\ \A q \in Requests \ {r} : req'[q] = req[q]
    BY <1>3, MovedType DEF Clear
  <2>3. req'[r].pc = "issuing" /\ req'[r].user = req[r].user
    BY <2>2 DEF TypeOK, RequestRecord
  <2> QED BY <1>0, <1>3, <2>1, <2>2, <2>3 DEF Clear, TypeOK, KnownGuess
<1> QED BY <1>1, <1>2, <1>3

LEMMA RevokedType ==
    ASSUME TypeOK, NEW t \in Tokens, token' = Revoked(t)
    PROVE  token' \in [Tokens -> TokenRecord]
BY DEF Revoked, TypeOK, TokenRecord

LEMMA TokenTypes ==
    ASSUME NumbersAreNumbers, TypeOK, KnownGuess, FirstsKnown, NEW r \in Requests,
           \/ Issue(r) \/ RotateRevoke(r)
           \/ \E t \in Tokens : RefreshFind(r, t) \/ Logout(r, t)
    PROVE  TypeOK' /\ KnownGuess'
<1>1. CASE Issue(r)
  <2> DEFINE n == Cardinality(Issued) + 1
             first == IF req[r].token = 0 THEN n ELSE token[req[r].token].first
             new == [user |-> req[r].user, expiresAt |-> clock + RefreshTTL, revoked |-> FALSE,
                     first |-> first]
  <2>1. n \in Tokens /\ req[r].user \in Usernames
    BY <1>1 DEF Issue, KnownGuess
  <2>2. first \in 0..MaxTokens
    <3>1. req[r].token \in 0..MaxTokens
      BY DEF TypeOK, RequestRecord
    <3>2. CASE req[r].token = 0
      BY <2>1, <3>2 DEF Tokens, NumbersAreNumbers
    <3>3. CASE req[r].token # 0
      <4>1. req[r].token \in Tokens
        BY <3>1, <3>3 DEF Tokens, NumbersAreNumbers
      <4> QED BY <3>3, <4>1 DEF TypeOK, TokenRecord
    <3> QED BY <3>2, <3>3
  <2>3. clock + RefreshTTL \in Nat
    BY DEF TypeOK, NumbersAreNumbers
  <2> HIDE DEF first
  <2>4. new \in TokenRecord
    BY <2>1, <2>2, <2>3 DEF TokenRecord
  <2>5. token' = [token EXCEPT ![n] = new]
    BY <1>1 DEF Issue, first
  <2> HIDE DEF n, new
  <2>6. token' \in [Tokens -> TokenRecord]
    BY <2>1, <2>4, <2>5 DEF TypeOK
  <2>7. /\ req' \in [Requests -> RequestRecord] /\ req'[r] = Idle
        /\ \A q \in Requests \ {r} : req'[q] = req[q]
    BY <1>1, EndedType DEF Issue
  <2> QED BY <1>1, <2>6, <2>7 DEF Issue, TypeOK, KnownGuess, Idle, history
<1>2. CASE RotateRevoke(r)
  <2>1. token' \in [Tokens -> TokenRecord]
    BY <1>2 DEF RotateRevoke, Revoked, TypeOK, TokenRecord
  <2>2. /\ req' \in [Requests -> RequestRecord] /\ req'[r] = [req[r] EXCEPT !.pc = "issuing"]
        /\ \A q \in Requests \ {r} : req'[q] = req[q]
    BY <1>2, MovedType DEF RotateRevoke
  <2>3. req'[r].pc = "issuing" /\ req'[r].user = req[r].user /\ req[r].pc = "rotating"
    BY <1>2, <2>2 DEF TypeOK, RequestRecord, RotateRevoke
  <2> QED BY <1>2, <2>1, <2>2, <2>3 DEF RotateRevoke, TypeOK, KnownGuess, history
<1>3. CASE \E t \in Tokens : RefreshFind(r, t)
  <2> PICK t \in Tokens : RefreshFind(r, t)
    BY <1>3
  <2> DEFINE new == [Idle EXCEPT !.pc = "rotating", !.user = token[t].user, !.token = t]
  <2>1. t \in 0..MaxTokens /\ token[t].user \in Usernames
    <3>1. t \in 0..MaxTokens
      BY DEF Tokens, NumbersAreNumbers
    <3>2. token[t].user \in users /\ users \subseteq Usernames
      BY DEF RefreshFind, TypeOK
    <3> QED BY <3>1, <3>2
  <2>2. /\ new \in RequestRecord /\ new.pc = "rotating" /\ new.user = token[t].user
    BY <2>1, IdleType DEF RequestRecord, Idle
  <2>3. req' = [req EXCEPT ![r] = new]
    BY DEF RefreshFind
  <2> HIDE DEF new
  <2>4. /\ req' \in [Requests -> RequestRecord] /\ req'[r] = new
        /\ \A q \in Requests \ {r} : req'[q] = req[q]
    BY <2>2, <2>3, NewType
  <2>5. /\ forked' \subseteq Tokens
        /\ UNCHANGED <<clock, users, attempt, token, faults, guesses, tried, counted, mixed, ended>>
    <3>1. token[t].first \in Tokens /\ forked' \subseteq forked \cup {token[t].first}
      BY DEF RefreshFind, Live, FirstsKnown, Issued
    <3> QED BY <3>1 DEF RefreshFind, TypeOK
  <2> QED BY <2>1, <2>2, <2>4, <2>5 DEF TypeOK, KnownGuess
<1>4. CASE \E t \in Tokens : Logout(r, t)
  <2> PICK t \in Tokens : Logout(r, t)
    BY <1>4
  <2>1. token' \in [Tokens -> TokenRecord]
    <3>1. token' = Revoked(t)
      BY DEF Logout
    <3> QED BY <3>1, RevokedType
  <2>2. ended' \subseteq Tokens
    <3>1. token[t].first \in Tokens /\ ended' \subseteq ended \cup {token[t].first}
      BY DEF Logout, FirstsKnown, Issued
    <3> QED BY <3>1 DEF TypeOK
  <2> QED BY <2>1, <2>2 DEF Logout, TypeOK, KnownGuess
<1> QED BY <1>1, <1>2, <1>3, <1>4

LEMMA DiesTypes ==
    ASSUME NumbersAreNumbers, TypeOK, KnownGuess, \/ Tick \/ \E r \in Requests : Dies(r)
    PROVE  TypeOK' /\ KnownGuess'
<1>1. CASE Tick
  <2>1. clock' \in 0..MaxClock
    BY <1>1 DEF Tick, TypeOK, NumbersAreNumbers
  <2> QED BY <1>1, <2>1 DEF Tick, TypeOK, KnownGuess, history
<1>2. CASE \E r \in Requests : Dies(r)
  <2> PICK r \in Requests : Dies(r)
    BY <1>2
  <2>1. /\ req' \in [Requests -> RequestRecord] /\ req'[r] = Idle
        /\ \A q \in Requests \ {r} : req'[q] = req[q]
    BY EndedType DEF Dies
  <2> QED BY <2>1 DEF Dies, TypeOK, KnownGuess, Idle, history
<1> QED BY <1>1, <1>2

-----------------------------------------------------------------------------
(* Sessions *)

Renewing(r, f) == req[r].token # 0 /\ token[req[r].token].first = f

\* In a session that no two refreshes renewed at once, only the newest token is not revoked,
\* one request at most renews it, and it is revoked before the next one is issued.
InLine(f) ==
    /\ \A s, t \in Issued : token[s].first = f /\ token[t].first = f /\ s < t => token[s].revoked
    /\ \A r \in Requests : Renewing(r, f) =>
         /\ \A s \in Issued : token[s].first = f => s <= req[r].token
         /\ req[r].pc = "issuing" => token[req[r].token].revoked
         /\ \A q \in Requests : Renewing(q, f) => q = r

\* A session that was ended has no token and no request to go on with.
IsOver(f) ==
    /\ \A t \in Issued : token[t].first = f => ~Live(t)
    /\ \A r \in Requests : ~Renewing(r, f)

SessionInv ==
    /\ \A f \in Tokens \ forked : InLine(f)
    /\ \A f \in ended : IsOver(f)

AccountInv == TypeOK /\ KnownGuess /\ FirstsKnown /\ SessionInv

\* What a step that neither issues nor revokes makes of the sessions: requests may end, and
\* those that begin do not renew one.
LEMMA TokensStay ==
    ASSUME NumbersAreNumbers, AccountInv, token' = token, forked' = forked, ended' = ended,
           clock' \in Nat, clock' >= clock,
           \A r \in Requests : \/ req'[r] = req[r]
                               \/ req'[r].token = 0 /\ req'[r].pc # "rotating"
    PROVE  FirstsKnown' /\ SessionInv'
<1>1. Issued' = Issued
  BY DEF Issued
<1>2. FirstsKnown'
  BY <1>1 DEF AccountInv, FirstsKnown
<1>3. \A r \in Requests : \A f : Renewing(r, f)' => Renewing(r, f) /\ req'[r] = req[r]
  BY DEF Renewing
<1>4. \A f \in Tokens \ forked : InLine(f)'
  BY <1>1, <1>3 DEF AccountInv, SessionInv, InLine
<1>5. \A t \in Issued : token[t].expiresAt \in Nat /\ clock \in Nat
  BY DEF AccountInv, TypeOK, TokenRecord, Issued
<1>6. \A t \in Issued : Live(t)' => Live(t)
  BY <1>1, <1>5 DEF Live
<1>7. \A f \in ended : IsOver(f)'
  BY <1>1, <1>3, <1>6 DEF AccountInv, SessionInv, IsOver
<1> QED BY <1>2, <1>4, <1>7 DEF SessionInv

LEMMA LoginSessions ==
    ASSUME NumbersAreNumbers, AccountInv, NEW r \in Requests,
           \/ \E u \in Usernames : Register(r, u) \/ \E right \in BOOLEAN : LoginCheck(r, u, right)
           \/ Compare(r) \/ FailRead(r) \/ FailWrite(r) \/ Clear(r) \/ Dies(r)
    PROVE  FirstsKnown' /\ SessionInv'
<1>0. /\ req \in [Requests -> RequestRecord] /\ clock \in Nat
      /\ req[r].token # 0 => req[r].pc \in {"rotating", "issuing"}
  BY DEF AccountInv, TypeOK, FirstsKnown
<1> SUFFICES /\ UNCHANGED <<token, forked, ended, clock>>
             /\ \A q \in Requests \ {r} : req'[q] = req[q]
             /\ req'[r].token = 0 /\ req'[r].pc # "rotating"
  BY <1>0, TokensStay
<1>1. CASE \E u \in Usernames : Register(r, u)
  <2> PICK u \in Usernames : Register(r, u)
    BY <1>1
  <2> QED BY <1>0 DEF Register, Idle, history
<1>2. CASE \E u \in Usernames, right \in BOOLEAN : LoginCheck(r, u, right)
  <2> PICK u \in Usernames, right \in BOOLEAN : LoginCheck(r, u, right)
    BY <1>2
  <2> QED BY <1>0 DEF LoginCheck, Idle, history
<1>3. CASE Compare(r)
  <2>1. UNCHANGED <<token, forked, ended, clock>> /\ req[r].token = 0
    BY <1>0, <1>3 DEF Compare
  <2>2. CASE Goes(r, "clearing")
    BY <1>0, <2>1, <2>2 DEF Goes, RequestRecord
  <2>3. ASSUME NEW guess, req' = [req EXCEPT ![r] = [@ EXCEPT !.pc = "failing", !.guess = guess]]
        PROVE  /\ \A q \in Requests \ {r} : req'[q] = req[q]
               /\ req'[r].token = req[r].token /\ req'[r].pc = "failing"
    BY <1>0, <2>3 DEF RequestRecord
  <2> QED BY <1>3, <2>1, <2>2, <2>3 DEF Compare
<1>4. CASE FailRead(r)
  <2>1. UNCHANGED <<token, forked, ended, clock>> /\ req[r].token = 0
    BY <1>0, <1>4 DEF FailRead, history
  <2>2. ASSUME NEW seen, req' = [req EXCEPT ![r] = [@ EXCEPT !.pc = "writing", !.seen = seen]]
        PROVE  /\ \A q \in Requests \ {r} : req'[q] = req[q]
               /\ req'[r].token = req[r].token /\ req'[r].pc = "writing"
    BY <1>0, <2>2 DEF RequestRecord
  <2> QED BY <1>4, <2>1, <2>2 DEF FailRead
<1>5. CASE FailWrite(r)
  BY <1>0, <1>5 DEF FailWrite, Ends, Idle
<1>6. CASE Clear(r)
  <2>1. UNCHANGED <<token, forked, ended, clock>> /\ req[r].token = 0 /\ Goes(r, "issuing")
    BY <1>0, <1>6 DEF Clear
  <2> QED BY <1>0, <2>1 DEF Goes, RequestRecord
<1>7. CASE Dies(r)
  BY <1>0, <1>7 DEF Dies, Ends, Idle, history
<1> QED BY <1>1, <1>2, <1>3, <1>4, <1>5, <1>6, <1>7

LEMMA TickSessions ==
    ASSUME NumbersAreNumbers, AccountInv, Tick
    PROVE  FirstsKnown' /\ SessionInv'
<1>1. UNCHANGED <<token, forked, ended, req>> /\ clock' = clock + 1 /\ clock \in Nat
  BY DEF Tick, history, AccountInv, TypeOK
<1> QED BY <1>1, TokensStay

\* A new token is the newest.
LEMMA IssueSessions ==
    ASSUME NumbersAreNumbers, AccountInv, NEW r \in Requests, Issue(r)
    PROVE  FirstsKnown' /\ SessionInv'
<1> PICK n : n = Cardinality(Issued) + 1
  OBVIOUS
<1>0. /\ n \in Nat \ {0} /\ n \in Tokens /\ Issued = 1..(n - 1) /\ n \notin Issued
      /\ Issued \subseteq Tokens
  <2>1. Cardinality(Issued) \in Nat /\ Issued = 1..Cardinality(Issued)
    BY IssuedFinite DEF AccountInv, FirstsKnown
  <2>2. n \in Nat \ {0} /\ Cardinality(Issued) = n - 1
    BY <2>1
  <2>3. Issued = 1..(n - 1) /\ n \notin Issued
    BY <2>1, <2>2
  <2>4. n \in Tokens /\ Issued \subseteq Tokens
    BY DEF Issue, Issued
  <2> QED BY <2>2, <2>3, <2>4
<1> PICK f : f = IF req[r].token = 0 THEN n ELSE token[req[r].token].first
  OBVIOUS
<1>1. /\ token'[n].first = f /\ token'[n].revoked = FALSE
      /\ \A t \in Tokens \ {n} : token'[t] = token[t]
      /\ UNCHANGED <<clock, forked, ended>>
  BY <1>0 DEF Issue, history, AccountInv, TypeOK
<1>t. /\ \A t \in Issued : token[t].first \in Issued /\ token[t].first <= t /\ t < n
      /\ \A q \in Requests :
           /\ req[q].token # 0 => req[q].token \in Issued /\ req[q].pc \in {"rotating", "issuing"}
           /\ req[q].pc = "rotating" => req[q].token # 0
      /\ ended \subseteq Issued
  <2>1. ASSUME NEW t \in Issued PROVE t < n
    <3>1. t \in 1..(n - 1) /\ n \in Nat
      BY <1>0
    <3> QED BY <3>1
  <2> QED BY <2>1 DEF AccountInv, FirstsKnown
<1>2. /\ f \in Nat \ {0} /\ f <= n /\ f \in Issued \cup {n}
      /\ (req[r].token = 0 => f = n) /\ (req[r].token # 0 => f \in Issued)
  BY <1>0, <1>t
<1>3. Issued' = Issued \cup {n}
  <2>1. token'[n] # NoToken
    BY <1>1, <1>2 DEF NoToken
  <2> QED BY <1>0, <1>1, <2>1 DEF Issued
<1>4. Issued' = 1..n /\ Cardinality(Issued') = n
  <2>1. \A m : m \in 1..n <=> m \in 1..(n - 1) \/ m = n
    BY <1>0
  <2>2. Issued' = 1..n
    BY <1>0, <1>3, <2>1
  <2>3. Cardinality(1..n) = n
    BY <1>0, FS_Interval
  <2> QED BY <2>2, <2>3
<1>5. /\ req'[r].token = 0 /\ req'[r].pc = "idle" /\ \A q \in Requests \ {r} : req'[q] = req[q]
  BY EndedType DEF Issue, AccountInv, Idle
<1>k. \A t \in Issued : token'[t] = token[t]
  BY <1>0, <1>1
<1>6. FirstsKnown'
  <2>1. Issued' = 1..Cardinality(Issued)'
    BY <1>4
  <2>2. ASSUME NEW t \in Issued' PROVE token'[t].first \in Issued' /\ token'[t].first <= t
    <3>1. CASE t \in Issued
      BY <1>3, <1>k, <1>t, <3>1
    <3>2. CASE t = n
      BY <1>1, <1>2, <1>3, <3>2
    <3> QED BY <1>3, <3>1, <3>2
  <2>3. ASSUME NEW q \in Requests
        PROVE  /\ req'[q].token # 0 =>
                    req'[q].token \in Issued' /\ req'[q].pc \in {"rotating", "issuing"}
               /\ req'[q].pc = "rotating" => req'[q].token # 0
    BY <1>3, <1>5, <1>t
  <2>4. ended' \subseteq Issued'
    BY <1>1, <1>3, <1>t
  <2> QED BY <2>1, <2>2, <2>3, <2>4 DEF FirstsKnown
<1>7. \A q \in Requests : \A g : Renewing(q, g)' <=> q # r /\ Renewing(q, g)
  <2> TAKE q \in Requests
  <2> TAKE g
  <2>1. CASE q = r
    BY <1>5, <2>1 DEF Renewing
  <2>2. CASE q # r
    <3>1. req'[q].token = req[q].token
      BY <1>5, <2>2
    <3> QED BY <1>k, <1>t, <2>2, <3>1 DEF Renewing
  <2> QED BY <2>1, <2>2
<1>8. req[r].pc = "issuing"
  BY DEF Issue
<1>9. ASSUME NEW g \in Tokens \ forked PROVE InLine(g)'
  <2>0. InLine(g)
    BY DEF AccountInv, SessionInv
  \* Of the tokens before the new one, those of its session are revoked.
  <2>1. g = f => \A s \in Issued : token[s].first = g => token[s].revoked
    <3>1. CASE req[r].token = 0
      BY <1>0, <1>2, <1>t, <3>1
    <3>2. CASE g = f /\ req[r].token # 0
      <4>1. Renewing(r, g) /\ req[r].token \in Issued /\ token[req[r].token].first = g
        BY <1>t, <3>2 DEF Renewing
      <4>2. token[req[r].token].revoked
        BY <1>8, <2>0, <4>1 DEF InLine
      <4>3. ASSUME NEW s \in Issued, token[s].first = g PROVE token[s].revoked
        <5>1. s <= req[r].token
          BY <2>0, <4>1, <4>3 DEF InLine
        <5>2. s = req[r].token \/ s < req[r].token
          BY <1>0, <4>1, <5>1
        <5> QED BY <2>0, <4>1, <4>2, <4>3, <5>2 DEF InLine
      <4> QED BY <4>3
    <3> QED BY <3>1, <3>2
  \* Nobody else renews it.
  <2>2. g = f => \A q \in Requests : ~Renewing(q, g)'
    <3>1. CASE req[r].token = 0
      <4>1. \A q \in Requests : ~Renewing(q, n)
        BY <1>0, <1>t DEF Renewing
      <4> QED BY <1>2, <1>7, <3>1, <4>1
    <3>2. CASE g = f /\ req[r].token # 0
      <4>1. Renewing(r, g)
        BY <3>2 DEF Renewing
      <4> QED BY <1>7, <2>0, <4>1 DEF InLine
    <3> QED BY <3>1, <3>2
  <2>3. ASSUME NEW s \in Issued', NEW t \in Issued', token'[s].first = g, token'[t].first = g, s < t
        PROVE  token'[s].revoked
    <3>1. s \in Issued /\ (t \in Issued \/ t = n)
      BY <1>0, <1>3, <2>3
    <3>2. CASE t \in Issued
      BY <1>k, <2>0, <2>3, <3>1, <3>2 DEF InLine
    <3>3. CASE t = n
      BY <1>1, <1>k, <2>1, <2>3, <3>1, <3>3
    <3> QED BY <3>1, <3>2, <3>3
  <2>4. ASSUME NEW q \in Requests, Renewing(q, g)'
        PROVE  /\ \A s \in Issued' : token'[s].first = g => s <= req'[q].token
               /\ req'[q].pc = "issuing" => token'[req'[q].token].revoked
               /\ \A p \in Requests : Renewing(p, g)' => p = q
    <3>1. g # f /\ q # r /\ Renewing(q, g) /\ req'[q] = req[q] /\ req[q].token \in Issued
      BY <1>5, <1>7, <1>t, <2>2, <2>4 DEF Renewing
    <3>2. \A s \in Issued' : token'[s].first = g => s \in Issued /\ token[s].first = g
      BY <1>1, <1>3, <1>k, <3>1
    <3>3. /\ \A s \in Issued : token[s].first = g => s <= req[q].token
          /\ req[q].pc = "issuing" => token[req[q].token].revoked
          /\ \A p \in Requests : Renewing(p, g) => p = q
      BY <2>0, <3>1 DEF InLine
    <3> QED BY <1>7, <1>k, <3>1, <3>2, <3>3
  <2> QED BY <2>3, <2>4 DEF InLine
<1>10. ASSUME NEW g \in ended PROVE IsOver(g)'
  <2>1. IsOver(g) /\ g \in Issued
    BY <1>t DEF AccountInv, SessionInv
  <2>2. g # f
    BY <1>0, <1>2, <2>1 DEF IsOver, Renewing
  <2>3. \A t \in Issued : Live(t)' => Live(t)
    BY <1>1, <1>k DEF Live
  <2>4. \A t \in Issued' : token'[t].first = g => t \in Issued /\ token[t].first = g
    BY <1>1, <1>3, <1>k, <2>2
  <2> QED BY <1>7, <2>1, <2>3, <2>4 DEF IsOver
<1> QED BY <1>1, <1>6, <1>9, <1>10 DEF SessionInv

\* What a revocation changes.
LEMMA RevokedFields ==
    ASSUME TypeOK, NEW t \in Issued, token' = Revoked(t)
    PROVE  /\ Issued' = Issued /\ token'[t].revoked
           /\ \A s \in Tokens : /\ token'[s].first = token[s].first
                                /\ token'[s].expiresAt = token[s].expiresAt
                                /\ s # t => token'[s] = token[s]
                                /\ token[s].revoked => token'[s].revoked
<1>1. t \in Tokens /\ token'[t].revoked = TRUE /\ token' \in [Tokens -> TokenRecord]
  BY DEF Revoked, TypeOK, TokenRecord, Issued
<1>2. \A s \in Tokens : /\ token'[s].first = token[s].first
                        /\ token'[s].expiresAt = token[s].expiresAt
                        /\ s # t => token'[s] = token[s]
                        /\ token[s].revoked => token'[s].revoked
  BY <1>1 DEF Revoked, TypeOK, TokenRecord
<1>3. token'[t] # NoToken
  BY <1>1 DEF NoToken
<1> QED BY <1>1, <1>2, <1>3 DEF Issued

LEMMA RotateSessions ==
    ASSUME NumbersAreNumbers, AccountInv, NEW r \in Requests, RotateRevoke(r)
    PROVE  FirstsKnown' /\ SessionInv'
<1> PICK t : t = req[r].token
  OBVIOUS
<1>1. t \in Issued /\ t # 0 /\ token' = Revoked(t) /\ UNCHANGED <<clock, forked, ended>>
  BY DEF AccountInv, FirstsKnown, RotateRevoke, history
<1>2. /\ Issued' = Issued /\ token'[t].revoked /\ Issued \subseteq Tokens
      /\ \A s \in Tokens : /\ token'[s].first = token[s].first
                           /\ token'[s].expiresAt = token[s].expiresAt
                           /\ s # t => token'[s] = token[s]
                           /\ token[s].revoked => token'[s].revoked
  BY <1>1, RevokedFields DEF AccountInv, Issued
<1>3. /\ req'[r].token = t /\ req'[r].pc = "issuing"
      /\ \A q \in Requests \ {r} : req'[q] = req[q]
  BY MovedType DEF RotateRevoke, AccountInv, TypeOK, RequestRecord
<1>4. \A q \in Requests : req'[q].token = req[q].token
  BY <1>3
<1>5. FirstsKnown'
  BY <1>1, <1>2, <1>3, <1>4 DEF AccountInv, FirstsKnown
<1>6. \A q \in Requests : \A f : Renewing(q, f)' <=> Renewing(q, f)
  BY <1>2, <1>4 DEF Renewing, AccountInv, FirstsKnown
<1>7. \A f \in Tokens \ forked : InLine(f)'
  <2> SUFFICES ASSUME NEW f \in Tokens \ forked PROVE InLine(f)'
    OBVIOUS
  <2>1. InLine(f)
    BY DEF AccountInv, SessionInv
  <2>2. \A s, u \in Issued : token'[s].first = f /\ token'[u].first = f /\ s < u => token'[s].revoked
    BY <1>2, <2>1 DEF InLine
  <2>3. ASSUME NEW q \in Requests, Renewing(q, f)
        PROVE  /\ \A s \in Issued : token'[s].first = f => s <= req'[q].token
               /\ req'[q].pc = "issuing" => token'[req'[q].token].revoked
               /\ \A p \in Requests : Renewing(p, f) => p = q
    <3>1. /\ \A s \in Issued : token[s].first = f => s <= req[q].token
          /\ req[q].pc = "issuing" => token[req[q].token].revoked
          /\ \A p \in Requests : Renewing(p, f) => p = q
      BY <2>1, <2>3 DEF InLine
    <3>2. req[q].token \in Tokens
      BY <1>2, <2>3 DEF Renewing, AccountInv, FirstsKnown
    <3>3. req'[q].pc = "issuing" => token'[req[q].token].revoked
      BY <1>2, <1>3, <3>1, <3>2
    <3> QED BY <1>2, <1>4, <3>1, <3>3
  <2> QED BY <1>2, <1>6, <2>2, <2>3 DEF InLine
<1>8. \A s \in Issued : Live(s)' => Live(s)
  BY <1>1, <1>2 DEF Live
<1>9. \A f \in ended : IsOver(f)'
  BY <1>2, <1>6, <1>8 DEF AccountInv, SessionInv, IsOver
<1> QED BY <1>1, <1>5, <1>7, <1>9 DEF SessionInv

LEMMA LogoutSessions ==
    ASSUME NumbersAreNumbers, AccountInv, NEW r \in Requests, NEW t \in Tokens, Logout(r, t)
    PROVE  FirstsKnown' /\ SessionInv'
<1>1. t \in Issued /\ token' = Revoked(t) /\ UNCHANGED <<clock, forked, req>>
  BY DEF Logout
<1>2. /\ Issued' = Issued /\ token'[t].revoked /\ Issued \subseteq Tokens
      /\ \A s \in Tokens : /\ token'[s].first = token[s].first
                           /\ token'[s].expiresAt = token[s].expiresAt
                           /\ s # t => token'[s] = token[s]
                           /\ token[s].revoked => token'[s].revoked
  BY <1>1, RevokedFields DEF AccountInv, Issued
<1>3. ended' \subseteq ended \cup {token[t].first} /\ token[t].first \in Issued
  BY <1>1 DEF Logout, AccountInv, FirstsKnown
<1>4. FirstsKnown'
  BY <1>1, <1>2, <1>3 DEF AccountInv, FirstsKnown
<1>5. \A q \in Requests : \A f : Renewing(q, f)' <=> Renewing(q, f)
  BY <1>1, <1>2 DEF Renewing, AccountInv, FirstsKnown
<1>6. \A f \in Tokens \ forked : InLine(f)'
  <2> SUFFICES ASSUME NEW f \in Tokens \ forked PROVE InLine(f)'
    OBVIOUS
  <2>1. InLine(f)
    BY DEF AccountInv, SessionInv
  <2>2. \A s, u \in Issued : token'[s].first = f /\ token'[u].first = f /\ s < u => token'[s].revoked
    BY <1>2, <2>1 DEF InLine
  <2>3. ASSUME NEW q \in Requests, Renewing(q, f)
        PROVE  /\ \A s \in Issued : token'[s].first = f => s <= req'[q].token
               /\ req'[q].pc = "issuing" => token'[req'[q].token].revoked
               /\ \A p \in Requests : Renewing(p, f) => p = q
    <3>1. /\ \A s \in Issued : token[s].first = f => s <= req[q].token
          /\ req[q].pc = "issuing" => token[req[q].token].revoked
          /\ \A p \in Requests : Renewing(p, f) => p = q
      BY <2>1, <2>3 DEF InLine
    <3>2. req[q].token \in Tokens
      BY <1>2, <2>3 DEF Renewing, AccountInv, FirstsKnown
    <3> QED BY <1>1, <1>2, <3>1, <3>2
  <2> QED BY <1>2, <1>5, <2>2, <2>3 DEF InLine
<1>7. \A s \in Issued : Live(s)' => Live(s)
  BY <1>1, <1>2 DEF Live
<1>8. \A f \in ended : IsOver(f)'
  BY <1>2, <1>5, <1>7 DEF AccountInv, SessionInv, IsOver
\* All tokens of the session before the one that is revoked now had been revoked.
<1>9. ASSUME NEW f, f = token[t].first, f \notin forked,
             \A s \in Issued : token[s].first = f => s <= t,
             \A q \in Requests : req[q].token # 0 => token[req[q].token].first # f
      PROVE  IsOver(f)'
  <2>1. InLine(f)
    BY <1>2, <1>3, <1>9 DEF AccountInv, SessionInv
  <2>2. ASSUME NEW s \in Issued, token[s].first = f PROVE token'[s].revoked
    <3>1. s = t \/ s < t
      BY <1>1, <1>9, <2>2, TokensInOrder
    <3>2. s < t => token[s].revoked
      BY <1>1, <1>9, <2>1, <2>2 DEF InLine
    <3> QED BY <1>2, <3>1, <3>2
  <2>3. \A q \in Requests : ~Renewing(q, f)
    BY <1>9 DEF Renewing
  <2> QED BY <1>2, <1>5, <2>2, <2>3 DEF IsOver, Live
<1>10. \A f \in ended' : IsOver(f)'
  BY <1>8, <1>9 DEF Logout
<1> QED BY <1>1, <1>4, <1>6, <1>10 DEF SessionInv

\* A token that is found good is the newest of its session.
LEMMA RefreshSessions ==
    ASSUME NumbersAreNumbers, AccountInv, NEW r \in Requests, NEW t \in Tokens, RefreshFind(r, t)
    PROVE  FirstsKnown' /\ SessionInv'
<1> PICK f : f = token[t].first
  OBVIOUS
<1>1. /\ UNCHANGED <<clock, token, ended>> /\ t \in Issued /\ Live(t)
      /\ forked' = IF Rotating(t) # {} THEN forked \cup {f} ELSE forked
  BY DEF RefreshFind, Live
<1>2. Issued' = Issued /\ t # 0
  BY <1>1 DEF Issued, Tokens
<1>3. /\ req'[r].pc = "rotating" /\ req'[r].token = t
      /\ \A q \in Requests \ {r} : req'[q] = req[q]
  BY DEF RefreshFind, Idle, AccountInv, TypeOK
<1>4. FirstsKnown'
  BY <1>1, <1>2, <1>3 DEF AccountInv, FirstsKnown
<1>5. req[r].token = 0
  BY DEF RefreshFind, AccountInv, FirstsKnown
<1>6. \A q \in Requests : \A g : Renewing(q, g)' <=> IF q = r THEN g = f ELSE Renewing(q, g)
  BY <1>1, <1>2, <1>3 DEF Renewing
<1>7. \A g \in Tokens \ forked' : InLine(g)'
  <2> SUFFICES ASSUME NEW g \in Tokens \ forked' PROVE InLine(g)'
    OBVIOUS
  <2>1. InLine(g)
    BY <1>1 DEF AccountInv, SessionInv
  <2>2. CASE g # f
    BY <1>1, <1>2, <1>3, <1>6, <2>1, <2>2 DEF InLine
  <2>3. CASE g = f
    <3>1. ~token[t].revoked /\ Rotating(t) = {}
      BY <1>1, <2>3 DEF Live
    <3>2. \A s \in Issued : token[s].first = f => s <= t
      <4> TAKE s \in Issued
      <4>1. token[s].first = f => ~(t < s)
        BY <1>1, <2>1, <2>3, <3>1 DEF InLine
      <4> QED BY <1>1, <4>1, TokensInOrder
    <3>3. ASSUME NEW q \in Requests, Renewing(q, f) PROVE FALSE
      <4>1. req[q].token \in Issued /\ req[q].pc \in {"rotating", "issuing"}
            /\ token[req[q].token].first = f
        BY <3>3 DEF Renewing, AccountInv, FirstsKnown
      <4>2. t <= req[q].token /\ req[q].token <= t
        BY <1>1, <2>1, <2>3, <3>2, <3>3, <4>1 DEF InLine
      <4>3. req[q].token = t
        BY <1>1, <4>1, <4>2, TokensInOrder
      <4> QED BY <2>1, <2>3, <3>1, <3>3, <4>1, <4>3 DEF InLine, Rotating
    <3> QED BY <1>1, <1>2, <1>3, <1>6, <2>1, <2>3, <3>2, <3>3 DEF InLine
  <2> QED BY <2>2, <2>3
<1>8. ASSUME NEW g \in ended PROVE IsOver(g)'
  <2>1. IsOver(g)
    BY DEF AccountInv, SessionInv
  <2>2. g # f
    BY <1>1, <2>1 DEF IsOver
  <2> QED BY <1>1, <1>2, <1>6, <2>1, <2>2 DEF IsOver, Live
<1> QED BY <1>1, <1>4, <1>7, <1>8 DEF SessionInv

LEMMA AccountAlways == ASSUME NumbersAreNumbers PROVE Spec => []AccountInv
<1>1. Init => AccountInv
  <2> SUFFICES ASSUME Init PROVE AccountInv
    OBVIOUS
  <2>1. 0 \in 0..MaxClock /\ 0 \in 0..MaxTokens /\ 0 \in Nat
    BY DEF NumbersAreNumbers
  <2>2. NoToken \in TokenRecord /\ NoAttempt \in AttemptRecord
    BY <2>1 DEF NoToken, TokenRecord, NoAttempt, AttemptRecord
  <2>3. TypeOK
    BY <2>1, <2>2, IdleType DEF Init, TypeOK, NumbersAreNumbers
  <2>4. Issued = {}
    BY DEF Init, Issued
  <2>5. Issued = 1..Cardinality(Issued)
    BY <2>4, FS_EmptySet
  <2>6. \A r \in Requests : req[r] = Idle
    BY DEF Init
  <2>7. KnownGuess
    BY <2>6, FS_EmptySet DEF Init, KnownGuess, Idle
  <2>8. FirstsKnown
    BY <2>4, <2>5, <2>6 DEF Init, FirstsKnown, Idle
  <2>9. SessionInv
    BY <2>4, <2>6 DEF Init, SessionInv, InLine, Renewing, Idle
  <2> QED BY <2>3, <2>7, <2>8, <2>9 DEF AccountInv
<1>2. AccountInv /\ [Next]_vars => AccountInv'
  <2> SUFFICES ASSUME AccountInv, [Next]_vars PROVE AccountInv'
    OBVIOUS
  <2>1. CASE UNCHANGED vars
    BY <2>1 DEF vars, history, AccountInv, TypeOK, KnownGuess, FirstsKnown, SessionInv, InLine,
                IsOver, Renewing, Live, Issued
  <2>2. CASE \E r \in Requests :
               \/ \E u \in Usernames : Register(r, u) \/ \E right \in BOOLEAN : LoginCheck(r, u, right)
               \/ Compare(r) \/ FailRead(r) \/ FailWrite(r) \/ Clear(r) \/ Dies(r)
    BY <2>2, RegisterTypes, CompareTypes, FailTypes, DiesTypes, LoginSessions DEF AccountInv
  <2>3. CASE \E r \in Requests : Issue(r) \/ RotateRevoke(r)
    BY <2>3, TokenTypes, IssueSessions, RotateSessions DEF AccountInv
  <2>4. CASE \E r \in Requests, t \in Tokens : RefreshFind(r, t) \/ Logout(r, t)
    BY <2>4, TokenTypes, RefreshSessions, LogoutSessions DEF AccountInv
  <2>5. CASE Tick
    BY <2>5, DiesTypes, TickSessions DEF AccountInv
  <2> QED BY <2>1, <2>2, <2>3, <2>4, <2>5 DEF Next
<1> QED BY <1>1, <1>2, PTL DEF Spec

\* Accounts, requests, tokens and attempts have the types that the actions presume.
THEOREM AccountTypes == ASSUME NumbersAreNumbers PROVE Spec => []TypeOK
<1>1. AccountInv => TypeOK
  BY DEF AccountInv
<1> QED BY <1>1, AccountAlways, PTL

\* A session that no two refreshes renewed at once has one token that can be refreshed, and
\* a session that a logout ended has none, ever: not one that was issued before.
THEOREM SessionsAreBounded == ASSUME NumbersAreNumbers PROVE Spec => []SessionsEnd
<1>1. AccountInv => LogoutEnds
  BY DEF AccountInv, SessionInv, IsOver, LogoutEnds
<1>2. AccountInv => OneLiveToken
  <2> SUFFICES ASSUME AccountInv, NEW f \in Issued \ forked
               PROVE  Cardinality({t \in Issued : token[t].first = f /\ Live(t)}) <= 1
    BY DEF OneLiveToken
  <2> DEFINE L == {t \in Issued : token[t].first = f /\ Live(t)}
  <2>1. \A s, t \in L : s = t
    <3>1. InLine(f)
      BY DEF AccountInv, SessionInv, Issued
    <3> TAKE s, t \in L
    <3>2. ~(s < t) /\ ~(t < s)
      BY <3>1 DEF InLine, Live
    <3> QED BY <3>2, TokensInOrder
  <2>2. CASE L = {}
    BY <2>2, FS_EmptySet
  <2>3. CASE L # {}
    <3> PICK t : t \in L
      BY <2>3
    <3>1. L = {t}
      BY <2>1
    <3> HIDE DEF L
    <3>2. Cardinality(L) = 1
      BY <3>1, FS_Singleton
    <3> QED BY <3>2 DEF L
  <2> QED BY <2>2, <2>3
<1> QED BY <1>1, <1>2, AccountAlways, PTL DEF SessionsEnd

-----------------------------------------------------------------------------
(* Locks *)

AtWork == {"failing", "writing"}

\* Attempts are guesses; a request that is about to write has those of the window of its own
\* guess, and, unless another write came in between, all of them.
AttemptInv ==
    /\ \A g \in guesses : g.at <= clock
    /\ \A u \in Usernames : /\ attempt[u].failedAt \subseteq guesses
                            /\ counted[u] \subseteq guesses /\ tried[u] \subseteq guesses
    /\ \A r \in Requests : req[r].pc = "writing" =>
         /\ req[r].seen \subseteq Recent(guesses, req[r].guess.at)
         /\ req[r].user \notin mixed =>
              req[r].seen = Recent(attempt[req[r].user].failedAt, req[r].guess.at)

\* Failures are counted in the order of their times.
OrderInv ==
    \A u \in Usernames \ mixed, r \in Requests :
        req[r].pc \in AtWork /\ req[r].user = u => \A g \in counted[u] : g.at <= req[r].guess.at

LockInv == AttemptInv /\ LockIsEarned /\ FailuresAllCount /\ OrderInv

LEMMA GuessTypes ==
    ASSUME NumbersAreNumbers, TypeOK
    PROVE  /\ \A g \in Guesses : g.at \in Nat
           /\ clock \in Nat /\ LoginWindow \in Nat /\ LockoutThreshold \in Nat
           /\ guesses \subseteq Guesses
           /\ \A u \in Usernames : attempt[u].lockedUntil \in Nat
BY DEF Guesses, NumbersAreNumbers, TypeOK, AttemptRecord

\* More guesses do not take a lock's grounds away.
LEMMA GroundsStay ==
    ASSUME NumbersAreNumbers, TypeOK, KnownGuess, KnownGuess', LockIsEarned,
           guesses \subseteq guesses', NEW u \in Usernames, attempt'[u] = attempt[u],
           attempt[u].lockedUntil # 0
    PROVE  LET at == attempt'[u].lockedUntil - LoginWindow
           IN  Cardinality({g \in guesses' : g.at >= at - LoginWindow}) >= LockoutThreshold
<1> DEFINE at == attempt[u].lockedUntil - LoginWindow
           S == {g \in guesses : g.at >= at - LoginWindow}
           T == {g \in guesses' : g.at >= at - LoginWindow}
<1>1. Cardinality(S) >= LockoutThreshold
  BY DEF LockIsEarned
<1>2. S \subseteq T /\ T \subseteq guesses'
  OBVIOUS
<1>3. IsFiniteSet(T)
  BY <1>2, FS_Subset DEF KnownGuess
<1>4. Cardinality(S) <= Cardinality(T) /\ Cardinality(S) \in Nat /\ Cardinality(T) \in Nat
  BY <1>2, <1>3, FS_Subset, FS_CardinalityType
<1>5. Cardinality(T) >= LockoutThreshold
  <2> HIDE DEF S, T
  <2> QED BY <1>1, <1>4 DEF NumbersAreNumbers
<1> QED BY <1>5

\* Steps that compare no password and register no failure.
LEMMA QuietLocks ==
    ASSUME NumbersAreNumbers, TypeOK, KnownGuess, KnownGuess', LockInv,
           UNCHANGED <<attempt, guesses, counted, mixed, tried>>,
           clock' \in Nat, clock' >= clock,
           \A q \in Requests : req'[q] = req[q] \/ req'[q].pc \notin AtWork
    PROVE  LockInv'
<1>0. /\ \A g \in Guesses : g.at \in Nat
      /\ clock \in Nat /\ LoginWindow \in Nat /\ LockoutThreshold \in Nat
      /\ guesses \subseteq Guesses
      /\ \A v \in Usernames : attempt[v].lockedUntil \in Nat
  BY GuessTypes
<1>1. AttemptInv'
  BY <1>0 DEF LockInv, AttemptInv, Recent, AtWork
<1>2. LockIsEarned'
  BY GroundsStay DEF LockIsEarned, LockInv
<1>3. FailuresAllCount'
  <2> SUFFICES ASSUME NEW u \in Usernames \ mixed, NEW g \in counted[u], g.at >= clock' - LoginWindow
               PROVE  g \in attempt[u].failedAt
    BY DEF FailuresAllCount, LockInv
  <2>1. g \in Guesses
    BY <1>0 DEF LockInv, AttemptInv
  <2>2. g.at >= clock - LoginWindow
    BY <1>0, <2>1
  <2> QED BY <2>2 DEF FailuresAllCount, LockInv
<1>4. OrderInv'
  BY DEF OrderInv, LockInv, AtWork
<1> QED BY <1>1, <1>2, <1>3, <1>4 DEF LockInv

LEMMA CompareLocks ==
    ASSUME NumbersAreNumbers, TypeOK, KnownGuess, KnownGuess', LockInv, NEW r \in Requests, Compare(r)
    PROVE  LockInv'
<1> DEFINE u == req[r].user
           guess == [n |-> Cardinality(guesses) + 1, at |-> clock]
<1>0. /\ \A g \in Guesses : g.at \in Nat
      /\ clock \in Nat /\ LoginWindow \in Nat /\ LockoutThreshold \in Nat
      /\ guesses \subseteq Guesses
      /\ \A v \in Usernames : attempt[v].lockedUntil \in Nat
  BY GuessTypes
<1>1. CASE req[r].right /\ u \in users
  <2>1. UNCHANGED <<attempt, guesses, counted, mixed, tried, clock>> /\ Goes(r, "clearing")
    BY <1>1 DEF Compare
  <2>2. req'[r].pc \notin AtWork /\ \A q \in Requests \ {r} : req'[q] = req[q]
    BY <2>1 DEF Goes, TypeOK, RequestRecord, AtWork
  <2> QED BY <1>0, <2>1, <2>2, QuietLocks
<1>2. CASE ~(req[r].right /\ u \in users)
  <2>1. /\ guesses' = guesses \cup {guess} /\ tried' = [tried EXCEPT ![u] = @ \cup {guess}]
        /\ UNCHANGED <<attempt, counted, mixed, clock>>
        /\ \A q \in Requests \ {r} : req'[q] = req[q]
        /\ req'[r].pc = "failing" /\ req'[r].user = u /\ req'[r].guess = guess
    <3>1. /\ guesses' = guesses \cup {guess} /\ tried' = [tried EXCEPT ![u] = @ \cup {guess}]
          /\ req' = [req EXCEPT ![r] = [req[r] EXCEPT !.pc = "failing", !.guess = guess]]
          /\ UNCHANGED <<attempt, counted, mixed, clock>>
      BY <1>2 DEF Compare, TypeOK
    <3> HIDE DEF guess
    <3>2. req \in [Requests -> RequestRecord]
      BY DEF TypeOK
    <3>3. req'[r] = [req[r] EXCEPT !.pc = "failing", !.guess = guess]
      BY <3>1, <3>2
    <3>4. req'[r].pc = "failing" /\ req'[r].user = u /\ req'[r].guess = guess
      BY <3>2, <3>3 DEF RequestRecord
    <3> QED BY <3>1, <3>2, <3>4
  <2>2. guess.at = clock
    OBVIOUS
  <2> HIDE DEF guess
  <2>3. AttemptInv'
    <3>1. \A g \in guesses' : g.at <= clock'
      BY <1>0, <2>1, <2>2 DEF LockInv, AttemptInv
    <3>2. \A v \in Usernames : tried'[v] \subseteq guesses'
      BY <2>1 DEF LockInv, AttemptInv, TypeOK
    <3>3. \A q \in Requests : req'[q].pc = "writing" => q # r /\ req'[q] = req[q]
      BY <2>1
    <3> QED BY <2>1, <3>1, <3>2, <3>3 DEF LockInv, AttemptInv, Recent
  <2>4. LockIsEarned'
    BY <2>1, GroundsStay DEF LockIsEarned, LockInv
  <2>5. OrderInv'
    <3> SUFFICES ASSUME NEW v \in Usernames \ mixed, NEW q \in Requests,
                        req'[q].pc \in AtWork, req'[q].user = v, NEW g \in counted[v]
                 PROVE  g.at <= req'[q].guess.at
      BY <2>1 DEF OrderInv
    <3>1. CASE q = r
      BY <2>1, <2>2, <3>1 DEF LockInv, AttemptInv
    <3>2. CASE q # r
      BY <2>1, <3>2 DEF LockInv, OrderInv
    <3> QED BY <3>1, <3>2
  <2> QED BY <2>1, <2>3, <2>4, <2>5 DEF LockInv, FailuresAllCount
<1> QED BY <1>1, <1>2

LEMMA FailReadLocks ==
    ASSUME NumbersAreNumbers, TypeOK, KnownGuess, KnownGuess', LockInv, NEW r \in Requests, FailRead(r)
    PROVE  LockInv'
<1> DEFINE u == req[r].user
           seen == Recent(attempt[u].failedAt, req[r].guess.at)
<1>1. /\ UNCHANGED <<attempt, guesses, counted, mixed, tried, clock>>
      /\ \A q \in Requests \ {r} : req'[q] = req[q]
      /\ req'[r].pc = "writing" /\ req'[r].user = u /\ req'[r].guess = req[r].guess
      /\ req'[r].seen = seen /\ req[r].pc = "failing" /\ u \in Usernames
  BY DEF FailRead, TypeOK, RequestRecord, KnownGuess, history
<1>2. AttemptInv'
  <2>1. seen \subseteq Recent(guesses, req[r].guess.at)
    BY <1>1 DEF LockInv, AttemptInv, Recent
  <2> QED BY <1>1, <2>1 DEF LockInv, AttemptInv, Recent
<1>3. LockIsEarned'
  BY <1>1, GroundsStay DEF LockIsEarned, LockInv
<1>4. OrderInv'
  BY <1>1 DEF LockInv, OrderInv, AtWork
<1> QED BY <1>1, <1>2, <1>3, <1>4 DEF LockInv, FailuresAllCount

\* What the write of another request leaves as it was.
LEMMA MixedGrows ==
    ASSUME NEW r \in Requests, NEW u \in Usernames, mixed' = MixedNow(r, u)
    PROVE  /\ mixed \subseteq mixed'
           /\ u \notin mixed' => \A q \in Requests \ {r} : req[q].user = u =>
                /\ req[q].pc # "writing"
                /\ req[q].pc = "failing" => ~(req[q].guess.at < req[r].guess.at)
BY DEF MixedNow

LEMMA FailWriteLocks ==
    ASSUME NumbersAreNumbers, TypeOK, KnownGuess, KnownGuess', LockInv,
           NEW r \in Requests, FailWrite(r)
    PROVE  LockInv'
<1> DEFINE u == req[r].user
           guess == req[r].guess
           seen == req[r].seen
<1>0. /\ \A g \in Guesses : g.at \in Nat
      /\ clock \in Nat /\ LoginWindow \in Nat /\ LockoutThreshold \in Nat
      /\ guesses \subseteq Guesses
      /\ \A v \in Usernames : attempt[v].lockedUntil \in Nat
  BY GuessTypes
<1>1. /\ UNCHANGED <<guesses, tried, clock>> /\ req[r].pc = "writing" /\ u \in Usernames
      /\ guess \in guesses /\ seen \subseteq Recent(guesses, guess.at)
      /\ u \notin mixed => seen = Recent(attempt[u].failedAt, guess.at)
  BY DEF FailWrite, KnownGuess, LockInv, AttemptInv
<1>2. /\ attempt'[u] = Extended(seen, guess) /\ counted'[u] = counted[u] \cup {guess}
      /\ \A v \in Usernames \ {u} : attempt'[v] = attempt[v] /\ counted'[v] = counted[v]
      /\ mixed' = MixedNow(r, u)
  BY <1>1 DEF FailWrite, TypeOK
<1>3. /\ req'[r].pc = "idle" /\ \A q \in Requests \ {r} : req'[q] = req[q]
  BY EndedType DEF FailWrite, Idle
<1>4. /\ mixed \subseteq mixed'
      /\ u \notin mixed' => \A q \in Requests \ {r} : req[q].user = u =>
           req[q].pc # "writing" /\ (req[q].pc = "failing" => ~(req[q].guess.at < guess.at))
  BY <1>1, <1>2, MixedGrows
<1>5. /\ attempt'[u].failedAt = seen \cup {guess}
      /\ attempt'[u].lockedUntil = IF Cardinality(seen \cup {guess}) >= LockoutThreshold
                                   THEN guess.at + LoginWindow ELSE 0
  BY <1>2 DEF Extended
<1>6. guess.at \in Nat /\ guess.at <= clock
  BY <1>0, <1>1 DEF LockInv, AttemptInv
<1>7. AttemptInv'
  <2>1. \A v \in Usernames : attempt'[v].failedAt \subseteq guesses /\ counted'[v] \subseteq guesses
    BY <1>1, <1>2, <1>5 DEF LockInv, AttemptInv, Recent
  <2>2. ASSUME NEW q \in Requests, req'[q].pc = "writing"
        PROVE  /\ req'[q].seen \subseteq Recent(guesses, req'[q].guess.at)
               /\ req'[q].user \notin mixed' =>
                    req'[q].seen = Recent(attempt'[req'[q].user].failedAt, req'[q].guess.at)
    <3>1. q # r /\ req'[q] = req[q] /\ req[q].user \in Usernames
      BY <1>3, <2>2 DEF KnownGuess
    <3>2. req[q].user \notin mixed' => req[q].user # u /\ req[q].user \notin mixed
      BY <1>4, <2>2, <3>1
    <3>3. /\ req[q].seen \subseteq Recent(guesses, req[q].guess.at)
          /\ req[q].user \notin mixed =>
               req[q].seen = Recent(attempt[req[q].user].failedAt, req[q].guess.at)
      BY <2>2, <3>1 DEF LockInv, AttemptInv
    <3> QED BY <1>2, <3>1, <3>2, <3>3
  <2> QED BY <1>1, <2>1, <2>2 DEF LockInv, AttemptInv, Recent
<1>8. LockIsEarned'
  <2> SUFFICES ASSUME NEW v \in Usernames, attempt'[v].lockedUntil # 0
               PROVE  LET at == attempt'[v].lockedUntil - LoginWindow
                      IN  Cardinality({g \in guesses' : g.at >= at - LoginWindow}) >= LockoutThreshold
    BY DEF LockIsEarned
  <2>1. CASE v # u
    BY <1>1, <1>2, <2>1, GroundsStay DEF LockInv
  <2>2. CASE v = u
    <3> DEFINE S == seen \cup {guess}
               T == {g \in guesses' : g.at >= attempt'[v].lockedUntil - LoginWindow - LoginWindow}
    <3>1. Cardinality(S) >= LockoutThreshold /\ attempt'[v].lockedUntil = guess.at + LoginWindow
      BY <1>5, <2>2
    <3>2. attempt'[v].lockedUntil - LoginWindow - LoginWindow = guess.at - LoginWindow
      BY <1>0, <1>6, <3>1
    <3>3. S \subseteq T /\ T \subseteq guesses
      <4>1. guess.at >= guess.at - LoginWindow
        BY <1>0, <1>6
      <4> QED BY <1>1, <3>2, <4>1 DEF Recent
    <3>4. IsFiniteSet(T)
      BY <3>3, FS_Subset DEF KnownGuess
    <3>5. Cardinality(S) <= Cardinality(T) /\ Cardinality(S) \in Nat /\ Cardinality(T) \in Nat
      BY <3>3, <3>4, FS_Subset, FS_CardinalityType
    <3>6. Cardinality(T) >= LockoutThreshold
      <4> HIDE DEF S, T
      <4> QED BY <1>0, <3>1, <3>5
    <3> QED BY <3>6
  <2> QED BY <2>1, <2>2
<1>9. FailuresAllCount'
  <2> SUFFICES ASSUME NEW v \in Usernames \ mixed'
               PROVE  /\ \A g \in counted'[v] :
                           g.at >= clock - LoginWindow => g \in attempt'[v].failedAt
                      /\ attempt'[v].failedAt \subseteq counted'[v]
    BY <1>1 DEF FailuresAllCount
  <2>1. /\ v \notin mixed /\ attempt[v].failedAt \subseteq counted[v]
        /\ \A g \in counted[v] : g.at >= clock - LoginWindow => g \in attempt[v].failedAt
    BY <1>4 DEF LockInv, FailuresAllCount
  <2>2. CASE v # u
    BY <1>2, <2>1, <2>2
  <2>3. CASE v = u
    <3>1. seen = Recent(attempt[u].failedAt, guess.at)
      BY <1>1, <2>1, <2>3
    <3>2. seen \subseteq counted[u]
      BY <2>1, <2>3, <3>1 DEF Recent
    <3>3. ASSUME NEW g \in counted[u], g.at >= clock - LoginWindow PROVE g \in seen
      <4>1. g \in attempt[u].failedAt
        BY <2>1, <2>3, <3>3
      <4>2. g.at \in Nat
        BY <1>0, <1>1 DEF LockInv, AttemptInv
      <4>3. g.at >= guess.at - LoginWindow
        BY <1>0, <1>6, <3>3, <4>2
      <4> QED BY <3>1, <4>1, <4>3 DEF Recent
    <3> QED BY <1>2, <1>5, <2>3, <3>2, <3>3
  <2> QED BY <2>2, <2>3
<1>10. OrderInv'
  <2> SUFFICES ASSUME NEW v \in Usernames \ mixed', NEW q \in Requests,
                      req'[q].pc \in AtWork, req'[q].user = v, NEW g \in counted'[v]
               PROVE  g.at <= req'[q].guess.at
    BY DEF OrderInv
  <2>1. q # r /\ req'[q] = req[q]
    BY <1>3 DEF AtWork
  <2>2. g \in counted[v] => g.at <= req[q].guess.at
    BY <1>4, <2>1 DEF LockInv, OrderInv
  <2>3. CASE v = u /\ g = guess
    <3>1. ~(req[q].guess.at < guess.at)
      BY <1>4, <2>1, <2>3 DEF AtWork
    <3>2. req[q].guess.at \in Nat
      BY <1>0, <2>1 DEF KnownGuess, AtWork
    <3> QED BY <1>6, <2>1, <2>3, <3>1, <3>2
  <2> QED BY <1>2, <2>1, <2>2, <2>3
<1> QED BY <1>7, <1>8, <1>9, <1>10 DEF LockInv

LEMMA ClearLocks ==
    ASSUME NumbersAreNumbers, TypeOK, KnownGuess, KnownGuess', LockInv, NEW r \in Requests, Clear(r)
    PROVE  LockInv'
<1> DEFINE u == req[r].user
<1>1. UNCHANGED <<guesses, clock>> /\ u \in Usernames
  BY DEF Clear, KnownGuess
<1>2. /\ attempt'[u] = NoAttempt /\ counted'[u] = {} /\ tried'[u] = {}
      /\ \A v \in Usernames \ {u} :
           attempt'[v] = attempt[v] /\ counted'[v] = counted[v] /\ tried'[v] = tried[v]
      /\ mixed' = MixedNow(r, u)
  BY <1>1 DEF Clear, TypeOK
<1>3. req'[r].pc = "issuing" /\ \A q \in Requests \ {r} : req'[q] = req[q]
  BY DEF Clear, Goes, TypeOK, RequestRecord
<1>4. /\ mixed \subseteq mixed'
      /\ u \notin mixed' => \A q \in Requests \ {r} : req[q].user = u => req[q].pc # "writing"
  BY <1>1, <1>2, MixedGrows
<1>5. AttemptInv'
  <2>1. \A v \in Usernames : /\ attempt'[v].failedAt \subseteq guesses
                             /\ counted'[v] \subseteq guesses /\ tried'[v] \subseteq guesses
    BY <1>1, <1>2 DEF LockInv, AttemptInv, NoAttempt
  <2>2. ASSUME NEW q \in Requests, req'[q].pc = "writing"
        PROVE  /\ req'[q].seen \subseteq Recent(guesses, req'[q].guess.at)
               /\ req'[q].user \notin mixed' =>
                    req'[q].seen = Recent(attempt'[req'[q].user].failedAt, req'[q].guess.at)
    <3>1. q # r /\ req'[q] = req[q] /\ req[q].user \in Usernames
      BY <1>3, <2>2 DEF KnownGuess
    <3>2. req[q].user \notin mixed' => req[q].user # u /\ req[q].user \notin mixed
      BY <1>4, <2>2, <3>1
    <3>3. /\ req[q].seen \subseteq Recent(guesses, req[q].guess.at)
          /\ req[q].user \notin mixed =>
               req[q].seen = Recent(attempt[req[q].user].failedAt, req[q].guess.at)
      BY <2>2, <3>1 DEF LockInv, AttemptInv
    <3> QED BY <1>2, <3>1, <3>2, <3>3
  <2> QED BY <1>1, <2>1, <2>2 DEF LockInv, AttemptInv, Recent
<1>6. LockIsEarned'
  BY <1>1, <1>2, GroundsStay DEF LockIsEarned, LockInv, NoAttempt
<1>7. FailuresAllCount'
  BY <1>1, <1>2, <1>4 DEF FailuresAllCount, LockInv, NoAttempt
<1>8. OrderInv'
  BY <1>2, <1>3, <1>4 DEF OrderInv, LockInv, AtWork
<1> QED BY <1>5, <1>6, <1>7, <1>8 DEF LockInv

\* Registration, refreshing and logout neither compare a password nor register a failure.
LEMMA QuietSteps ==
    ASSUME NumbersAreNumbers, TypeOK, NEW r \in Requests,
           \/ \E u \in Usernames : Register(r, u)
           \/ Issue(r) \/ RotateRevoke(r)
           \/ \E t \in Tokens : RefreshFind(r, t) \/ Logout(r, t)
    PROVE  /\ UNCHANGED <<attempt, guesses, counted, mixed, tried, clock, faults>>
           /\ \A q \in Requests \ {r} : req'[q] = req[q]
           /\ \/ req'[r] = req[r]
              \/ /\ req[r].pc \notin AtWork
                 /\ req'[r].pc \notin AtWork \cup {"comparing"}
<1>0. req \in [Requests -> RequestRecord]
  BY DEF TypeOK
<1>1. CASE \E u \in Usernames : Register(r, u)
  <2> PICK u \in Usernames : Register(r, u)
    BY <1>1
  <2> QED BY <1>0 DEF Register, Idle, AtWork, history
<1>2. CASE Issue(r)
  <2>1. req'[r] = Idle /\ \A q \in Requests \ {r} : req'[q] = req[q]
    BY <1>2, EndedType DEF Issue
  <2> QED BY <1>2, <2>1 DEF Issue, Idle, AtWork, history
<1>3. CASE RotateRevoke(r)
  <2>1. req'[r].pc = "issuing" /\ \A q \in Requests \ {r} : req'[q] = req[q]
    BY <1>0, <1>3 DEF RotateRevoke, Goes, RequestRecord
  <2> QED BY <1>3, <2>1 DEF RotateRevoke, AtWork, history
<1>4. CASE \E t \in Tokens : RefreshFind(r, t)
  <2> PICK t \in Tokens : RefreshFind(r, t)
    BY <1>4
  <2> QED BY <1>0 DEF RefreshFind, Idle, AtWork
<1>5. CASE \E t \in Tokens : Logout(r, t)
  <2> PICK t \in Tokens : Logout(r, t)
    BY <1>5
  <2> QED BY DEF Logout
<1> QED BY <1>1, <1>2, <1>3, <1>4, <1>5

LEMMA LoginSteps ==
    ASSUME TypeOK, NEW r \in Requests, NEW u \in Usernames, NEW right \in BOOLEAN,
           LoginCheck(r, u, right)
    PROVE  /\ UNCHANGED <<attempt, guesses, counted, mixed, tried, clock, faults>>
           /\ \A q \in Requests \ {r} : req'[q] = req[q]
           /\ req[r].pc = "idle" /\ req'[r].pc = "comparing" /\ req'[r].user = u
           /\ ~Locked(u)
BY DEF LoginCheck, Idle, TypeOK, history

LEMMA DiesSteps ==
    ASSUME NumbersAreNumbers, TypeOK, NEW r \in Requests, Dies(r)
    PROVE  /\ UNCHANGED <<attempt, guesses, counted, mixed, tried, clock>> /\ faults' = faults + 1
           /\ \A q \in Requests \ {r} : req'[q] = req[q]
           /\ req'[r].pc = "idle"
BY EndedType DEF Dies, Idle, history

LEMMA LockNext ==
    ASSUME NumbersAreNumbers, AccountInv, AccountInv', LockInv, [Next]_vars
    PROVE  LockInv'
<1>0. TypeOK /\ KnownGuess /\ KnownGuess' /\ clock \in Nat
  BY GuessTypes DEF AccountInv
<1>1. CASE UNCHANGED vars
  BY <1>1 DEF vars, history, LockInv, AttemptInv, LockIsEarned, FailuresAllCount, OrderInv
<1>2. ASSUME NEW r \in Requests,
             \/ \E u \in Usernames : Register(r, u)
             \/ Issue(r) \/ RotateRevoke(r)
             \/ \E t \in Tokens : RefreshFind(r, t) \/ Logout(r, t)
      PROVE  LockInv'
  BY <1>0, <1>2, QuietSteps, QuietLocks
<1>3. ASSUME NEW r \in Requests, NEW u \in Usernames, NEW right \in BOOLEAN, LoginCheck(r, u, right)
      PROVE  LockInv'
  <2>1. req'[r].pc \notin AtWork
    BY <1>0, <1>3, LoginSteps DEF AtWork
  <2> QED BY <1>0, <1>3, <2>1, LoginSteps, QuietLocks
<1>4. ASSUME NEW r \in Requests, Dies(r) PROVE LockInv'
  <2>1. req'[r].pc \notin AtWork
    BY <1>0, <1>4, DiesSteps DEF AtWork
  <2> QED BY <1>0, <1>4, <2>1, DiesSteps, QuietLocks
<1>5. CASE Tick
  <2>1. UNCHANGED <<attempt, guesses, counted, mixed, tried, req>> /\ clock' = clock + 1
    BY <1>5 DEF Tick, history
  <2>2. clock' \in Nat /\ clock' >= clock
    BY <1>0, <2>1
  <2> QED BY <1>0, <2>1, <2>2, QuietLocks
<1>6. ASSUME NEW r \in Requests, Compare(r) \/ FailRead(r) \/ FailWrite(r) \/ Clear(r)
      PROVE  LockInv'
  BY <1>0, <1>6, CompareLocks, FailReadLocks, FailWriteLocks, ClearLocks
<1> QED BY <1>1, <1>2, <1>3, <1>4, <1>5, <1>6 DEF Next

LEMMA LockAlways == ASSUME NumbersAreNumbers PROVE Spec => []LockInv
<1>1. Init => LockInv
  <2> SUFFICES ASSUME Init PROVE LockInv
    OBVIOUS
  <2>1. AttemptInv
    BY DEF Init, AttemptInv, NoAttempt, Idle
  <2>2. LockIsEarned /\ FailuresAllCount /\ OrderInv
    BY DEF Init, LockIsEarned, FailuresAllCount, OrderInv, NoAttempt
  <2> QED BY <2>1, <2>2 DEF LockInv
<1>2. AccountInv /\ AccountInv' /\ LockInv /\ [Next]_vars => LockInv'
  BY LockNext
<1> QED BY <1>1, <1>2, AccountAlways, PTL DEF Spec

\* Nobody is locked out who has not failed as often as the threshold within one window, however
\* requests overlap; and failures that do not overlap in the database all count.
THEOREM LocksAreEarned ==
    ASSUME NumbersAreNumbers
    PROVE  Spec => [](LockIsEarned /\ FailuresAllCount)
<1>1. LockInv => LockIsEarned /\ FailuresAllCount
  BY DEF LockInv
<1> QED BY <1>1, LockAlways, PTL

-----------------------------------------------------------------------------
(* Guesses *)

\* What GuessesAreFew assumes beyond numbers: a threshold and a window that are not zero, and
\* finitely many requests.
LimitsArePositive == LockoutThreshold # 0 /\ LoginWindow # 0 /\ IsFiniteSet(Requests)

Flying(u) == {q \in Requests : req[q].pc \in AtWork /\ req[q].user = u}
InHand(u) == {req[q].guess : q \in Flying(u)}
Comparing(u) == {q \in Requests : req[q].pc = "comparing" /\ req[q].user = u}
\* Guesses that were compared and neither registered nor are about to be: the request died.
Lost(u) == tried[u] \ (counted[u] \cup InHand(u))
Fresh(u) == {g \in tried[u] : g.at > clock - LoginWindow}

\* A lock is as long as its last failure says; without a lock there are too few failures.
LastInv ==
    \A u \in Usernames \ mixed :
        /\ attempt[u].lockedUntil # 0 =>
             \A g \in counted[u] : g.at + LoginWindow <= attempt[u].lockedUntil
        /\ attempt[u].lockedUntil = 0 => Cardinality(attempt[u].failedAt) < LockoutThreshold

LostInv == \A u \in Usernames : Cardinality(Lost(u)) <= faults

\* Guesses that were made, and those that are yet to be made by requests past the lock.
FewInv ==
    mixed = {} => \A u \in Usernames :
        Cardinality(Fresh(u)) + Cardinality(Comparing(u))
            <= LockoutThreshold - 1 + Cardinality(Requests) + faults

GuessInv == LastInv /\ LostInv /\ FewInv

LEMMA GuessesFinite ==
    ASSUME LimitsArePositive, KnownGuess, AttemptInv, NEW u \in Usernames
    PROVE  /\ IsFiniteSet(counted[u]) /\ IsFiniteSet(tried[u]) /\ IsFiniteSet(attempt[u].failedAt)
           /\ IsFiniteSet(Lost(u)) /\ Cardinality(Lost(u)) \in Nat
           /\ IsFiniteSet(Fresh(u)) /\ Cardinality(Fresh(u)) \in Nat
           /\ IsFiniteSet(Comparing(u)) /\ Cardinality(Comparing(u)) \in Nat
           /\ IsFiniteSet(Flying(u)) /\ Cardinality(Flying(u)) \in Nat
<1>1. IsFiniteSet(counted[u]) /\ IsFiniteSet(tried[u]) /\ IsFiniteSet(attempt[u].failedAt)
  BY FS_Subset DEF KnownGuess, AttemptInv
<1>2. Lost(u) \subseteq tried[u] /\ Fresh(u) \subseteq tried[u]
  BY DEF Lost, Fresh
<1>3. IsFiniteSet(Lost(u)) /\ IsFiniteSet(Fresh(u))
  BY <1>1, <1>2, FS_Subset
<1>4. Comparing(u) \subseteq Requests /\ Flying(u) \subseteq Requests
  BY DEF Comparing, Flying
<1>5. IsFiniteSet(Comparing(u)) /\ IsFiniteSet(Flying(u))
  BY <1>4, FS_Subset DEF LimitsArePositive
<1> QED BY <1>1, <1>3, <1>5, FS_CardinalityType

\* A set that shrinks does not count more.
LEMMA Shrinks ==
    ASSUME NEW S, NEW T, IsFiniteSet(S), T \subseteq S
    PROVE  IsFiniteSet(T) /\ Cardinality(T) <= Cardinality(S) /\ Cardinality(T) \in Nat
BY FS_Subset, FS_CardinalityType

LEMMA AddsOne ==
    ASSUME NEW S, NEW x, IsFiniteSet(S)
    PROVE  IsFiniteSet(S \cup {x}) /\ Cardinality(S \cup {x}) <= Cardinality(S) + 1
<1>1. Cardinality(S \cup {x}) = IF x \in S THEN Cardinality(S) ELSE Cardinality(S) + 1
  BY FS_AddElement
<1>2. Cardinality(S) \in Nat /\ IsFiniteSet(S \cup {x})
  BY FS_CardinalityType, FS_AddElement
<1> QED BY <1>1, <1>2

LEMMA FewStay ==
    ASSUME NumbersAreNumbers, LimitsArePositive, TypeOK, TypeOK', KnownGuess, AttemptInv, FewInv,
           faults <= faults', mixed \subseteq mixed',
           \A u \in Usernames : Fresh(u)' \subseteq Fresh(u) /\ Comparing(u)' \subseteq Comparing(u)
    PROVE  FewInv'
<1> SUFFICES ASSUME mixed' = {}, NEW u \in Usernames
             PROVE  Cardinality(Fresh(u)') + Cardinality(Comparing(u)')
                      <= LockoutThreshold - 1 + Cardinality(Requests) + faults'
  BY DEF FewInv
<1>1. Cardinality(Fresh(u)) + Cardinality(Comparing(u))
        <= LockoutThreshold - 1 + Cardinality(Requests) + faults
  BY DEF FewInv
<1>2. Cardinality(Requests) \in Nat /\ LockoutThreshold \in Nat /\ faults \in Nat /\ faults' \in Nat
  BY FS_CardinalityType DEF LimitsArePositive, NumbersAreNumbers, TypeOK
<1>3. Cardinality(Fresh(u)) \in Nat /\ Cardinality(Comparing(u)) \in Nat
  BY GuessesFinite
<1>4. Cardinality(Fresh(u)') <= Cardinality(Fresh(u)) /\ Cardinality(Fresh(u)') \in Nat
  BY GuessesFinite, Shrinks
<1>5. Cardinality(Comparing(u)') <= Cardinality(Comparing(u)) /\ Cardinality(Comparing(u)') \in Nat
  BY GuessesFinite, Shrinks
<1> QED BY <1>1, <1>2, <1>3, <1>4, <1>5

\* Those who get past the lock are few enough: what was registered in the window is less than
\* the threshold, what was lost is a fault each, and the rest are in flight.
LEMMA BoundAtLogin ==
    ASSUME NumbersAreNumbers, LimitsArePositive, TypeOK, KnownGuess, LockInv, LastInv, LostInv,
           mixed = {}, NEW u \in Usernames, ~Locked(u), NEW r \in Requests, req[r].pc = "idle"
    PROVE  Cardinality(Fresh(u)) + Cardinality(Comparing(u) \cup {r})
             <= LockoutThreshold - 1 + Cardinality(Requests) + faults
<1> DEFINE C == {g \in counted[u] : g.at > clock - LoginWindow}
           B == Comparing(u) \cup {r}
<1>0. /\ \A g \in Guesses : g.at \in Nat
      /\ clock \in Nat /\ LoginWindow \in Nat /\ LockoutThreshold \in Nat
      /\ guesses \subseteq Guesses
      /\ \A v \in Usernames : attempt[v].lockedUntil \in Nat
  BY GuessTypes
<1>a. AttemptInv /\ counted[u] \subseteq Guesses
  BY <1>0 DEF LockInv, AttemptInv
<1>1. IsFiniteSet(C) /\ Cardinality(C) \in Nat /\ Cardinality(C) <= LockoutThreshold - 1
  <2>1. CASE attempt[u].lockedUntil = 0
    <3>1. C \subseteq attempt[u].failedAt
      <4> SUFFICES ASSUME NEW g \in C PROVE g \in attempt[u].failedAt
        OBVIOUS
      <4>1. g.at >= clock - LoginWindow
        BY <1>0, <1>a
      <4> QED BY <4>1 DEF LockInv, FailuresAllCount
    <3>2. IsFiniteSet(attempt[u].failedAt) /\ Cardinality(attempt[u].failedAt) < LockoutThreshold
      BY <1>a, <2>1, GuessesFinite DEF LastInv
    <3> HIDE DEF C
    <3>3. /\ IsFiniteSet(C) /\ Cardinality(C) \in Nat
          /\ Cardinality(C) <= Cardinality(attempt[u].failedAt)
      BY <3>1, <3>2, Shrinks
    <3>4. Cardinality(attempt[u].failedAt) \in Nat
      BY <3>2, FS_CardinalityType
    <3> QED BY <1>0, <3>2, <3>3, <3>4
  <2>2. CASE attempt[u].lockedUntil # 0
    <3>1. ASSUME NEW g \in C PROVE FALSE
      <4>1. g.at + LoginWindow <= attempt[u].lockedUntil /\ attempt[u].lockedUntil <= clock
        BY <1>0, <2>2 DEF LastInv, Locked
      <4>2. g.at > clock - LoginWindow /\ g.at \in Nat /\ attempt[u].lockedUntil \in Nat
        BY <1>0, <1>a
      <4> QED BY <1>0, <4>1, <4>2
    <3>2. C = {}
      BY <3>1
    <3> HIDE DEF C
    <3> QED BY <1>0, <3>2, FS_EmptySet DEF LimitsArePositive
  <2> QED BY <2>1, <2>2
<1>2. Fresh(u) \subseteq C \cup InHand(u) \cup Lost(u)
  BY DEF Fresh, Lost
<1>3. /\ IsFiniteSet(InHand(u)) /\ Cardinality(InHand(u)) \in Nat
      /\ Cardinality(InHand(u)) <= Cardinality(Flying(u))
  <2> DEFINE f == [q \in Flying(u) |-> req[q].guess]
  <2>1. f \in Surjection(Flying(u), InHand(u))
    BY DEF Surjection, InHand
  <2>2. IsFiniteSet(Flying(u))
    BY <1>a, GuessesFinite
  <2> HIDE DEF f
  <2>3. IsFiniteSet(InHand(u)) /\ Cardinality(InHand(u)) <= Cardinality(Flying(u))
    BY <2>1, <2>2, FS_Surjection
  <2> QED BY <2>3, FS_CardinalityType
<1>4. /\ Cardinality(Flying(u)) \in Nat /\ Cardinality(B) \in Nat /\ Cardinality(Requests) \in Nat
      /\ Cardinality(Flying(u)) + Cardinality(B) <= Cardinality(Requests)
  <2>1. B \subseteq Requests /\ Flying(u) \subseteq Requests /\ Flying(u) \cap B = {}
    BY DEF Comparing, Flying, AtWork
  <2> HIDE DEF B
  <2>2. IsFiniteSet(B) /\ IsFiniteSet(Flying(u)) /\ IsFiniteSet(Requests)
    BY <2>1, FS_Subset DEF LimitsArePositive
  <2>3. Cardinality(Flying(u) \cup B) = Cardinality(Flying(u)) + Cardinality(B) - 0
    BY <2>1, <2>2, FS_Union, FS_EmptySet
  <2>4. Cardinality(Flying(u) \cup B) <= Cardinality(Requests)
    BY <2>1, <2>2, FS_Subset
  <2>5. Cardinality(Flying(u)) \in Nat /\ Cardinality(B) \in Nat /\ Cardinality(Requests) \in Nat
    BY <2>2, FS_CardinalityType
  <2> QED BY <2>3, <2>4, <2>5
<1>5. Cardinality(Fresh(u)) <= Cardinality(C) + Cardinality(InHand(u)) + Cardinality(Lost(u))
  <2> HIDE DEF C
  <2>1. IsFiniteSet(Lost(u)) /\ Cardinality(Lost(u)) \in Nat
    BY <1>a, GuessesFinite
  <2>2. /\ IsFiniteSet(C \cup InHand(u))
        /\ Cardinality(C \cup InHand(u)) <= Cardinality(C) + Cardinality(InHand(u))
    <3>1. Cardinality(C \cup InHand(u))
            = Cardinality(C) + Cardinality(InHand(u)) - Cardinality(C \cap InHand(u))
      BY <1>1, <1>3, FS_Union
    <3>2. Cardinality(C \cap InHand(u)) \in Nat
      BY <1>1, Shrinks
    <3>3. IsFiniteSet(C \cup InHand(u))
      BY <1>1, <1>3, FS_Union
    <3> QED BY <1>1, <1>3, <3>1, <3>2, <3>3
  <2> DEFINE CI == C \cup InHand(u)
  <2>3. IsFiniteSet(CI) /\ Cardinality(CI) \in Nat
    BY <2>2, FS_CardinalityType
  <2>4. Cardinality(CI) <= Cardinality(C) + Cardinality(InHand(u))
    BY <2>2
  <2>5. Fresh(u) \subseteq CI \cup Lost(u)
    BY <1>2
  <2> HIDE DEF CI
  <2>6. /\ IsFiniteSet(CI \cup Lost(u))
        /\ Cardinality(CI \cup Lost(u)) <= Cardinality(CI) + Cardinality(Lost(u))
    <3>1. Cardinality(CI \cup Lost(u))
            = Cardinality(CI) + Cardinality(Lost(u)) - Cardinality(CI \cap Lost(u))
      BY <2>1, <2>3, FS_Union
    <3>2. Cardinality(CI \cap Lost(u)) \in Nat
      BY <2>3, Shrinks
    <3>3. IsFiniteSet(CI \cup Lost(u))
      BY <2>1, <2>3, FS_Union
    <3> QED BY <2>1, <2>3, <3>1, <3>2, <3>3
  <2>7. Cardinality(Fresh(u)) <= Cardinality(CI \cup Lost(u)) /\ Cardinality(Fresh(u)) \in Nat
    BY <2>5, <2>6, Shrinks
  <2>8. Cardinality(CI \cup Lost(u)) \in Nat
    BY <2>6, FS_CardinalityType
  <2> QED BY <1>1, <1>3, <2>1, <2>3, <2>4, <2>6, <2>7, <2>8
<1>6. Cardinality(Lost(u)) <= faults /\ faults \in Nat
  BY DEF LostInv, TypeOK
<1>7. Cardinality(Lost(u)) \in Nat /\ Cardinality(Fresh(u)) \in Nat
  BY <1>a, GuessesFinite
<1> QED
  <2> HIDE DEF B, C
  <2>1. Cardinality(Fresh(u)) + Cardinality(B) <= LockoutThreshold - 1 + Cardinality(Requests) + faults
    BY <1>0, <1>1, <1>3, <1>4, <1>5, <1>6, <1>7
  <2> QED BY <2>1 DEF B

\* Steps that neither compare a password nor write attempts.
LEMMA QuietGuesses ==
    ASSUME NumbersAreNumbers, LimitsArePositive, TypeOK, KnownGuess, LockInv, GuessInv,
           UNCHANGED <<attempt, counted, mixed, tried>>,
           \A q \in Requests : \/ req'[q] = req[q]
                               \/ req[q].pc \notin AtWork /\ req'[q].pc \notin AtWork,
           clock' \in Nat, clock' >= clock, faults' = faults
    PROVE  LastInv' /\ LostInv' /\ \A u \in Usernames : Fresh(u)' \subseteq Fresh(u)
<1>1. LastInv'
  BY DEF LastInv, GuessInv
<1>2. LostInv'
  <2> SUFFICES ASSUME NEW u \in Usernames PROVE Lost(u)' = Lost(u)
    BY DEF LostInv, GuessInv
  <2>1. Flying(u)' = Flying(u) /\ \A q \in Flying(u) : req'[q].guess = req[q].guess
    BY DEF Flying
  <2>2. InHand(u)' = InHand(u)
    BY <2>1 DEF InHand
  <2> QED BY <2>2 DEF Lost
<1>3. ASSUME NEW u \in Usernames, NEW g \in Fresh(u)' PROVE g \in Fresh(u)
  <2>1. g \in tried[u] /\ g \in guesses /\ g.at > clock' - LoginWindow
    BY <1>3 DEF Fresh, LockInv, AttemptInv
  <2>2. g.at \in Nat /\ clock \in Nat /\ LoginWindow \in Nat
    BY <2>1, GuessTypes
  <2>3. g.at > clock - LoginWindow
    BY <2>1, <2>2
  <2> QED BY <2>1, <2>3 DEF Fresh
<1> QED BY <1>1, <1>2, <1>3

LEMMA CompareGuesses ==
    ASSUME NumbersAreNumbers, LimitsArePositive, TypeOK, TypeOK', KnownGuess, LockInv, GuessInv,
           NEW r \in Requests, Compare(r)
    PROVE  GuessInv'
<1> DEFINE u == req[r].user
           guess == [n |-> Cardinality(guesses) + 1, at |-> clock]
<1>0. /\ req \in [Requests -> RequestRecord] /\ clock \in Nat /\ AttemptInv /\ u \in Usernames
      /\ req[r].pc = "comparing"
  BY GuessTypes DEF TypeOK, LockInv, Compare, KnownGuess
<1>1. CASE req[r].right /\ u \in users
  <2>1. UNCHANGED <<attempt, counted, mixed, tried, clock, faults>> /\ Goes(r, "clearing")
    BY <1>1 DEF Compare
  <2>2. req'[r].pc = "clearing" /\ \A q \in Requests \ {r} : req'[q] = req[q]
    BY <1>0, <2>1 DEF Goes, RequestRecord
  <2>3. LastInv' /\ LostInv' /\ \A v \in Usernames : Fresh(v)' \subseteq Fresh(v)
    <3>1. \A q \in Requests : req'[q] = req[q] \/ (req[q].pc \notin AtWork /\ req'[q].pc \notin AtWork)
      BY <1>0, <2>2 DEF AtWork
    <3> QED BY <1>0, <2>1, <3>1, QuietGuesses
  <2>4. \A v \in Usernames : Comparing(v)' \subseteq Comparing(v)
    BY <2>2 DEF Comparing
  <2>5. FewInv'
    BY <1>0, <2>1, <2>3, <2>4, FewStay DEF GuessInv, TypeOK
  <2> QED BY <2>3, <2>5 DEF GuessInv
<1>2. CASE ~(req[r].right /\ u \in users)
  <2>1. /\ UNCHANGED <<attempt, counted, mixed, clock, faults>>
        /\ tried' = [tried EXCEPT ![u] = @ \cup {guess}]
        /\ req' = [req EXCEPT ![r] = [req[r] EXCEPT !.pc = "failing", !.guess = guess]]
    BY <1>0, <1>2 DEF Compare
  <2> HIDE DEF guess
  <2>2. /\ req'[r].pc = "failing" /\ req'[r].user = u /\ req'[r].guess = guess
        /\ \A q \in Requests \ {r} : req'[q] = req[q]
    <3>1. req'[r] = [req[r] EXCEPT !.pc = "failing", !.guess = guess]
      BY <1>0, <2>1
    <3> QED BY <1>0, <2>1, <3>1 DEF RequestRecord
  <2>3. tried'[u] = tried[u] \cup {guess} /\ \A v \in Usernames \ {u} : tried'[v] = tried[v]
    BY <1>0, <2>1 DEF TypeOK
  <2>4. LastInv'
    BY <2>1 DEF LastInv, GuessInv
  <2>5. ASSUME NEW v \in Usernames PROVE Cardinality(Lost(v)') <= faults'
    <3>1. InHand(v) \subseteq InHand(v)' /\ (v = u => guess \in InHand(v)')
      <4>1. \A q \in Flying(v) : q # r
        BY <1>0 DEF Flying, AtWork
      <4>2. \A q \in Flying(v) : q \in Flying(v)' /\ req'[q].guess = req[q].guess
        BY <2>2, <4>1 DEF Flying
      <4>3. v = u => r \in Flying(v)'
        BY <2>2 DEF Flying, AtWork
      <4> QED BY <2>2, <4>2, <4>3 DEF InHand
    <3>2. Lost(v)' \subseteq Lost(v)
      BY <2>1, <2>3, <3>1 DEF Lost
    <3>3. Cardinality(Lost(v)) <= faults /\ IsFiniteSet(Lost(v)) /\ Cardinality(Lost(v)) \in Nat
      BY <1>0, GuessesFinite DEF GuessInv, LostInv
    <3>4. Cardinality(Lost(v)') <= Cardinality(Lost(v)) /\ Cardinality(Lost(v)') \in Nat
      BY <3>2, <3>3, Shrinks
    <3> QED BY <2>1, <3>3, <3>4 DEF TypeOK
  <2>6. ASSUME mixed' = {}, NEW v \in Usernames
        PROVE  Cardinality(Fresh(v)') + Cardinality(Comparing(v)')
                 <= LockoutThreshold - 1 + Cardinality(Requests) + faults'
    <3>1. /\ Cardinality(Fresh(v)) + Cardinality(Comparing(v))
               <= LockoutThreshold - 1 + Cardinality(Requests) + faults
          /\ faults' = faults
      BY <2>1, <2>6 DEF GuessInv, FewInv
    <3>2. /\ IsFiniteSet(Fresh(v)) /\ Cardinality(Fresh(v)) \in Nat
          /\ IsFiniteSet(Comparing(v)) /\ Cardinality(Comparing(v)) \in Nat
      BY <1>0, GuessesFinite
    <3>3. CASE v # u
      <4>1. Fresh(v)' = Fresh(v)
        BY <2>1, <2>3, <3>3 DEF Fresh
      <4>2. Comparing(v)' = Comparing(v)
        BY <2>2, <3>3 DEF Comparing
      <4> QED BY <3>1, <4>1, <4>2
    <3>4. CASE v = u
      <4>1. Fresh(v)' \subseteq Fresh(v) \cup {guess}
        BY <2>1, <2>3, <3>4 DEF Fresh
      <4>2. Comparing(v)' = Comparing(v) \ {r} /\ r \in Comparing(v)
        BY <1>0, <2>2, <3>4 DEF Comparing
      <4>3. /\ IsFiniteSet(Fresh(v) \cup {guess})
            /\ Cardinality(Fresh(v) \cup {guess}) <= Cardinality(Fresh(v)) + 1
        BY <3>2, AddsOne
      <4>4. /\ Cardinality(Fresh(v)') <= Cardinality(Fresh(v) \cup {guess})
            /\ Cardinality(Fresh(v)') \in Nat
        BY <4>1, <4>3, Shrinks
      <4>5. Cardinality(Comparing(v)') = Cardinality(Comparing(v)) - 1
        BY <3>2, <4>2, FS_RemoveElement
      <4>6. Cardinality(Fresh(v) \cup {guess}) \in Nat
        BY <4>3, FS_CardinalityType
      <4>7. Cardinality(Fresh(v)') <= Cardinality(Fresh(v)) + 1
        BY <3>2, <4>3, <4>4, <4>6
      <4>8. Cardinality(Requests) \in Nat /\ LockoutThreshold \in Nat /\ faults \in Nat
        BY FS_CardinalityType DEF LimitsArePositive, NumbersAreNumbers, TypeOK
      <4> QED BY <3>1, <3>2, <4>4, <4>5, <4>7, <4>8
    <3> QED BY <3>3, <3>4
  <2> QED BY <2>4, <2>5, <2>6 DEF GuessInv, LostInv, FewInv
<1> QED BY <1>1, <1>2

LEMMA FailReadGuesses ==
    ASSUME NumbersAreNumbers, LimitsArePositive, TypeOK, TypeOK', KnownGuess, LockInv, GuessInv,
           NEW r \in Requests, FailRead(r)
    PROVE  GuessInv'
<1>1. UNCHANGED <<attempt, counted, mixed, tried, clock, faults>> /\ req[r].pc = "failing"
  BY DEF FailRead, history
<1>2. /\ req'[r].pc = "writing" /\ req'[r].user = req[r].user /\ req'[r].guess = req[r].guess
      /\ \A q \in Requests \ {r} : req'[q] = req[q]
  BY DEF FailRead, TypeOK, RequestRecord
<1>3. LastInv'
  BY <1>1 DEF LastInv, GuessInv
<1>4. LostInv'
  <2> SUFFICES ASSUME NEW u \in Usernames PROVE Lost(u)' = Lost(u)
    BY <1>1 DEF LostInv, GuessInv
  <2>1. Flying(u)' = Flying(u)
    BY <1>1, <1>2 DEF Flying, AtWork
  <2>2. \A q \in Requests : req'[q].guess = req[q].guess
    BY <1>2
  <2>3. InHand(u)' = InHand(u)
    BY <2>1, <2>2 DEF InHand, Flying
  <2> QED BY <1>1, <2>3 DEF Lost
<1>5. FewInv'
  <2>1. \A u \in Usernames : Fresh(u)' = Fresh(u) /\ Comparing(u)' = Comparing(u)
    BY <1>1, <1>2 DEF Fresh, Comparing
  <2> QED BY <1>1, <2>1 DEF FewInv, GuessInv
<1> QED BY <1>3, <1>4, <1>5 DEF GuessInv

LEMMA FailWriteGuesses ==
    ASSUME NumbersAreNumbers, LimitsArePositive, TypeOK, TypeOK', KnownGuess, LockInv, GuessInv,
           NEW r \in Requests, FailWrite(r)
    PROVE  GuessInv'
<1> DEFINE u == req[r].user
           guess == req[r].guess
           seen == req[r].seen
<1>0. /\ \A g \in Guesses : g.at \in Nat
      /\ LoginWindow \in Nat \ {0} /\ LockoutThreshold \in Nat \ {0}
      /\ guesses \subseteq Guesses /\ AttemptInv
  BY GuessTypes DEF LimitsArePositive, LockInv
<1>1. /\ UNCHANGED <<tried, clock, faults>> /\ req[r].pc = "writing" /\ u \in Usernames
      /\ guess \in guesses
  BY DEF FailWrite, KnownGuess
<1>2. /\ attempt'[u] = Extended(seen, guess) /\ counted'[u] = counted[u] \cup {guess}
      /\ \A v \in Usernames \ {u} : attempt'[v] = attempt[v] /\ counted'[v] = counted[v]
      /\ mixed' = MixedNow(r, u)
  BY <1>1 DEF FailWrite, TypeOK
<1>3. req'[r].pc = "idle" /\ \A q \in Requests \ {r} : req'[q] = req[q]
  BY EndedType DEF FailWrite, Idle
<1>4. mixed \subseteq mixed'
  BY <1>1, <1>2, MixedGrows
<1>5. /\ attempt'[u].failedAt = seen \cup {guess}
      /\ attempt'[u].lockedUntil = IF Cardinality(seen \cup {guess}) >= LockoutThreshold
                                   THEN guess.at + LoginWindow ELSE 0
  BY <1>2 DEF Extended
<1>6. guess.at \in Nat
  BY <1>0, <1>1
<1>7. LastInv'
  <2> SUFFICES ASSUME NEW v \in Usernames \ mixed'
               PROVE  /\ attempt'[v].lockedUntil # 0 =>
                           \A g \in counted'[v] : g.at + LoginWindow <= attempt'[v].lockedUntil
                      /\ attempt'[v].lockedUntil = 0 =>
                           Cardinality(attempt'[v].failedAt) < LockoutThreshold
    BY DEF LastInv
  <2>1. v \notin mixed
    BY <1>4
  <2>2. CASE v # u
    BY <1>2, <2>1, <2>2 DEF LastInv, GuessInv
  <2>3. CASE v = u
    <3>1. \A g \in counted'[u] : g.at \in Nat /\ g.at <= guess.at
      <4>1. \A g \in counted[u] : g.at <= guess.at
        BY <1>1, <2>1, <2>3 DEF LockInv, OrderInv, AtWork
      <4>2. \A g \in counted[u] : g.at \in Nat
        BY <1>0, <1>1 DEF AttemptInv
      <4> QED BY <1>2, <1>6, <4>1, <4>2
    <3>2. CASE Cardinality(seen \cup {guess}) >= LockoutThreshold
      <4>1. attempt'[u].lockedUntil = guess.at + LoginWindow /\ guess.at + LoginWindow # 0
        BY <1>0, <1>5, <1>6, <3>2
      <4>2. \A g \in counted'[u] : g.at + LoginWindow <= guess.at + LoginWindow
        BY <1>0, <1>6, <3>1
      <4> QED BY <2>3, <4>1, <4>2
    <3>3. CASE ~(Cardinality(seen \cup {guess}) >= LockoutThreshold)
      <4>1. attempt'[u].lockedUntil = 0
        BY <1>5, <3>3
      <4>2. IsFiniteSet(seen \cup {guess})
        <5>1. seen \subseteq guesses
          BY <1>0, <1>1 DEF AttemptInv, Recent
        <5> QED BY <1>1, <5>1, FS_Subset DEF KnownGuess
      <4>3. Cardinality(seen \cup {guess}) \in Nat
        BY <4>2, FS_CardinalityType
      <4>4. Cardinality(seen \cup {guess}) < LockoutThreshold
        BY <1>0, <3>3, <4>3
      <4> QED BY <1>5, <2>3, <4>1, <4>4
    <3> QED BY <3>2, <3>3
  <2> QED BY <2>2, <2>3
<1>8. ASSUME NEW v \in Usernames PROVE Cardinality(Lost(v)') <= faults'
  \* What is no longer in hand is registered.
  <2>1. Lost(v)' \subseteq Lost(v)
    <3> SUFFICES ASSUME NEW g \in InHand(v) PROVE g \in counted'[v] \cup InHand(v)'
      BY <1>1, <1>2 DEF Lost
    <3> PICK q \in Flying(v) : g = req[q].guess
      BY DEF InHand
    <3>1. CASE q = r
      BY <1>2, <3>1 DEF Flying
    <3>2. CASE q # r
      <4>1. q \in Flying(v)' /\ req'[q].guess = g
        BY <1>3, <3>2 DEF Flying
      <4> QED BY <4>1 DEF InHand
    <3> QED BY <3>1, <3>2
  <2>2. Cardinality(Lost(v)) <= faults /\ IsFiniteSet(Lost(v)) /\ Cardinality(Lost(v)) \in Nat
    BY <1>0, GuessesFinite DEF GuessInv, LostInv
  <2>3. Cardinality(Lost(v)') <= Cardinality(Lost(v)) /\ Cardinality(Lost(v)') \in Nat
    BY <2>1, <2>2, Shrinks
  <2> QED BY <1>1, <2>2, <2>3 DEF TypeOK
<1>9. FewInv'
  <2>1. \A v \in Usernames : Fresh(v)' = Fresh(v) /\ Comparing(v)' = Comparing(v)
    BY <1>1, <1>3 DEF Fresh, Comparing
  <2> QED BY <1>1, <1>4, <2>1 DEF FewInv, GuessInv
<1> QED BY <1>7, <1>8, <1>9 DEF GuessInv, LostInv

LEMMA ClearGuesses ==
    ASSUME NumbersAreNumbers, LimitsArePositive, TypeOK, TypeOK', KnownGuess, LockInv, GuessInv,
           NEW r \in Requests, Clear(r)
    PROVE  GuessInv'
<1> DEFINE u == req[r].user
<1>1. UNCHANGED <<clock, faults>> /\ u \in Usernames /\ req[r].pc = "clearing" /\ AttemptInv
  BY DEF Clear, KnownGuess, LockInv
<1>2. /\ attempt'[u] = NoAttempt /\ counted'[u] = {} /\ tried'[u] = {}
      /\ \A v \in Usernames \ {u} :
           attempt'[v] = attempt[v] /\ counted'[v] = counted[v] /\ tried'[v] = tried[v]
      /\ mixed' = MixedNow(r, u)
  BY <1>1 DEF Clear, TypeOK
<1>3. req'[r].pc = "issuing" /\ \A q \in Requests \ {r} : req'[q] = req[q]
  BY DEF Clear, Goes, TypeOK, RequestRecord
<1>4. mixed \subseteq mixed'
  BY <1>1, <1>2, MixedGrows
<1>5. LockoutThreshold \in Nat \ {0} /\ faults \in Nat /\ Cardinality(Requests) \in Nat
  BY FS_CardinalityType DEF LimitsArePositive, NumbersAreNumbers, TypeOK
<1>6. LastInv'
  <2> SUFFICES ASSUME NEW v \in Usernames \ mixed'
               PROVE  /\ attempt'[v].lockedUntil # 0 =>
                           \A g \in counted'[v] : g.at + LoginWindow <= attempt'[v].lockedUntil
                      /\ attempt'[v].lockedUntil = 0 =>
                           Cardinality(attempt'[v].failedAt) < LockoutThreshold
    BY DEF LastInv
  <2>1. CASE v # u
    BY <1>2, <1>4, <2>1 DEF LastInv, GuessInv
  <2>2. CASE v = u
    <3>1. attempt'[v].lockedUntil = 0 /\ attempt'[v].failedAt = {}
      BY <1>2, <2>2 DEF NoAttempt
    <3>2. Cardinality(attempt'[v].failedAt) = 0
      BY <3>1, FS_EmptySet
    <3> QED BY <1>5, <3>1, <3>2
  <2> QED BY <2>1, <2>2
<1>7. ASSUME NEW v \in Usernames PROVE Cardinality(Lost(v)') <= faults'
  <2>1. CASE v = u
    <3>1. Lost(v)' = {}
      BY <1>2, <2>1 DEF Lost
    <3> QED BY <1>1, <1>5, <3>1, FS_EmptySet
  <2>2. CASE v # u
    <3>1. Flying(v)' = Flying(v) /\ \A q \in Flying(v) : req'[q].guess = req[q].guess
      BY <1>1, <1>3 DEF Flying, AtWork
    <3>2. InHand(v)' = InHand(v)
      BY <3>1 DEF InHand
    <3>3. Lost(v)' = Lost(v)
      BY <1>2, <2>2, <3>2 DEF Lost
    <3> QED BY <1>1, <3>3 DEF GuessInv, LostInv
  <2> QED BY <2>1, <2>2
<1>8. ASSUME mixed' = {}, NEW v \in Usernames
      PROVE  Cardinality(Fresh(v)') + Cardinality(Comparing(v)')
               <= LockoutThreshold - 1 + Cardinality(Requests) + faults'
  <2>1. Comparing(v)' = Comparing(v)
    BY <1>1, <1>3 DEF Comparing
  <2>2. CASE v = u
    <3>1. Fresh(v)' = {}
      BY <1>2, <2>2 DEF Fresh
    <3>2. Cardinality(Fresh(v)') = 0
      BY <3>1, FS_EmptySet
    <3>3. Comparing(v) \subseteq Requests
      BY DEF Comparing
    <3>4. Cardinality(Comparing(v)) <= Cardinality(Requests) /\ Cardinality(Comparing(v)) \in Nat
      BY <3>3, Shrinks DEF LimitsArePositive
    <3> QED BY <1>1, <1>5, <2>1, <3>2, <3>4
  <2>3. CASE v # u
    <3>1. Fresh(v)' = Fresh(v)
      BY <1>1, <1>2, <2>3 DEF Fresh
    <3>2. mixed = {}
      BY <1>4, <1>8
    <3> QED BY <1>1, <2>1, <3>1, <3>2 DEF GuessInv, FewInv
  <2> QED BY <2>2, <2>3
<1> QED BY <1>6, <1>7, <1>8 DEF GuessInv, LostInv, FewInv

LEMMA LoginGuesses ==
    ASSUME NumbersAreNumbers, LimitsArePositive, TypeOK, TypeOK', KnownGuess, LockInv, GuessInv,
           NEW r \in Requests, NEW u \in Usernames, NEW right \in BOOLEAN, LoginCheck(r, u, right)
    PROVE  GuessInv'
<1>1. /\ UNCHANGED <<attempt, counted, mixed, tried, clock, faults>> /\ clock \in Nat
      /\ \A q \in Requests \ {r} : req'[q] = req[q]
      /\ req[r].pc = "idle" /\ req'[r].pc = "comparing" /\ req'[r].user = u /\ ~Locked(u)
  BY LoginSteps, GuessTypes
<1>2. LastInv' /\ LostInv' /\ \A v \in Usernames : Fresh(v)' \subseteq Fresh(v)
  <2>1. \A q \in Requests : req'[q] = req[q] \/ (req[q].pc \notin AtWork /\ req'[q].pc \notin AtWork)
    BY <1>1 DEF AtWork
  <2> QED BY <1>1, <2>1, QuietGuesses
<1>3. ASSUME mixed' = {}, NEW v \in Usernames
      PROVE  Cardinality(Fresh(v)') + Cardinality(Comparing(v)')
               <= LockoutThreshold - 1 + Cardinality(Requests) + faults'
  <2>1. Fresh(v)' = Fresh(v)
    BY <1>1 DEF Fresh
  <2>2. CASE v = u
    <3>1. Comparing(v)' = Comparing(v) \cup {r}
      BY <1>1, <2>2 DEF Comparing
    <3> QED BY <1>1, <1>3, <2>1, <2>2, <3>1, BoundAtLogin DEF GuessInv
  <2>3. CASE v # u
    <3>1. Comparing(v)' = Comparing(v)
      BY <1>1, <2>3 DEF Comparing
    <3> QED BY <1>1, <1>3, <2>1, <3>1 DEF GuessInv, FewInv
  <2> QED BY <2>2, <2>3
<1> QED BY <1>2, <1>3 DEF GuessInv, FewInv

\* A request that dies takes one guess with it.
LEMMA DiesGuesses ==
    ASSUME NumbersAreNumbers, LimitsArePositive, TypeOK, TypeOK', KnownGuess, LockInv, GuessInv,
           NEW r \in Requests, Dies(r)
    PROVE  GuessInv'
<1>1. /\ UNCHANGED <<attempt, counted, mixed, tried, clock>> /\ faults' = faults + 1 /\ faults \in Nat
      /\ \A q \in Requests \ {r} : req'[q] = req[q]
      /\ req'[r].pc = "idle" /\ AttemptInv
  BY DiesSteps DEF TypeOK, LockInv
<1>2. LastInv'
  BY <1>1 DEF LastInv, GuessInv
<1>3. ASSUME NEW u \in Usernames PROVE Cardinality(Lost(u)') <= faults'
  <2>1. InHand(u) \subseteq InHand(u)' \cup {req[r].guess}
    <3> SUFFICES ASSUME NEW q \in Flying(u), q # r PROVE req[q].guess \in InHand(u)'
      BY DEF InHand
    <3>1. q \in Flying(u)' /\ req'[q].guess = req[q].guess
      BY <1>1 DEF Flying
    <3> QED BY <3>1 DEF InHand
  <2>2. Lost(u)' \subseteq Lost(u) \cup {req[r].guess}
    BY <1>1, <2>1 DEF Lost
  <2>3. Cardinality(Lost(u)) <= faults /\ IsFiniteSet(Lost(u)) /\ Cardinality(Lost(u)) \in Nat
    BY <1>1, GuessesFinite DEF GuessInv, LostInv
  <2> DEFINE S == Lost(u) \cup {req[r].guess}
  <2>4. IsFiniteSet(S) /\ Cardinality(S) <= Cardinality(Lost(u)) + 1
    BY <2>3, AddsOne
  <2>5. Lost(u)' \subseteq S
    BY <2>2
  <2> HIDE DEF S
  <2>6. Cardinality(S) \in Nat
    BY <2>4, FS_CardinalityType
  <2>7. Cardinality(Lost(u)') <= Cardinality(S) /\ Cardinality(Lost(u)') \in Nat
    BY <2>4, <2>5, Shrinks
  <2> QED BY <1>1, <2>3, <2>4, <2>6, <2>7
<1>4. FewInv'
  <2>1. \A u \in Usernames : Fresh(u)' \subseteq Fresh(u) /\ Comparing(u)' \subseteq Comparing(u)
    BY <1>1 DEF Fresh, Comparing
  <2>2. faults <= faults' /\ mixed \subseteq mixed'
    BY <1>1
  <2> QED BY <1>1, <2>1, <2>2, FewStay DEF GuessInv
<1> QED BY <1>2, <1>3, <1>4 DEF GuessInv, LostInv

LEMMA GuessNext ==
    ASSUME NumbersAreNumbers, LimitsArePositive, AccountInv, AccountInv', LockInv, GuessInv,
           [Next]_vars
    PROVE  GuessInv'
<1>0. TypeOK /\ TypeOK' /\ KnownGuess /\ AttemptInv /\ clock \in Nat /\ faults \in Nat
  BY GuessTypes DEF AccountInv, LockInv, TypeOK
<1>1. CASE UNCHANGED vars
  BY <1>1 DEF vars, history, GuessInv, LastInv, LostInv, FewInv, Lost, InHand, Flying, Fresh,
              Comparing
<1>2. ASSUME NEW r \in Requests,
             \/ \E u \in Usernames : Register(r, u)
             \/ Issue(r) \/ RotateRevoke(r)
             \/ \E t \in Tokens : RefreshFind(r, t) \/ Logout(r, t)
      PROVE  GuessInv'
  <2>1. /\ UNCHANGED <<attempt, guesses, counted, mixed, tried, clock, faults>>
        /\ \A q \in Requests \ {r} : req'[q] = req[q]
        /\ \/ req'[r] = req[r]
           \/ req[r].pc \notin AtWork /\ req'[r].pc \notin AtWork \cup {"comparing"}
    BY <1>0, <1>2, QuietSteps
  <2>2. LastInv' /\ LostInv' /\ \A v \in Usernames : Fresh(v)' \subseteq Fresh(v)
    BY <1>0, <2>1, QuietGuesses
  <2>3. \A v \in Usernames : Comparing(v)' \subseteq Comparing(v)
    BY <2>1 DEF Comparing
  <2>4. FewInv'
    BY <1>0, <2>1, <2>2, <2>3, FewStay DEF GuessInv
  <2> QED BY <2>2, <2>4 DEF GuessInv
<1>3. ASSUME NEW r \in Requests, NEW u \in Usernames, NEW right \in BOOLEAN, LoginCheck(r, u, right)
      PROVE  GuessInv'
  BY <1>0, <1>3, LoginGuesses
<1>4. CASE Tick
  <2>1. UNCHANGED <<attempt, counted, mixed, tried, req, faults>> /\ clock' = clock + 1
    BY <1>4 DEF Tick, history
  <2>2. clock' \in Nat /\ clock' >= clock
    BY <1>0, <2>1
  <2>3. LastInv' /\ LostInv' /\ \A v \in Usernames : Fresh(v)' \subseteq Fresh(v)
    BY <1>0, <2>1, <2>2, QuietGuesses
  <2>4. \A v \in Usernames : Comparing(v)' = Comparing(v)
    BY <2>1 DEF Comparing
  <2>5. FewInv'
    BY <1>0, <2>1, <2>3, <2>4, FewStay DEF GuessInv
  <2> QED BY <2>3, <2>5 DEF GuessInv
<1>5. ASSUME NEW r \in Requests,
             Compare(r) \/ FailRead(r) \/ FailWrite(r) \/ Clear(r) \/ Dies(r)
      PROVE  GuessInv'
  BY <1>0, <1>5, CompareGuesses, FailReadGuesses, FailWriteGuesses, ClearGuesses, DiesGuesses
<1> QED BY <1>1, <1>2, <1>3, <1>4, <1>5 DEF Next

\* Nobody is locked out for less, and nobody gets to guess for longer, than the threshold says,
\* up to what requests that overlap or die are good for: for any threshold and any number of
\* requests at once.
THEOREM LocksAreExact ==
    ASSUME NumbersAreNumbers, LimitsArePositive
    PROVE  Spec => []LockoutIsExact
<1>1. Init => GuessInv
  <2> SUFFICES ASSUME Init PROVE GuessInv
    OBVIOUS
  <2>1. /\ LockoutThreshold \in Nat \ {0} /\ faults = 0 /\ Cardinality({}) = 0
        /\ Cardinality(Requests) \in Nat
    BY FS_CardinalityType, FS_EmptySet DEF LimitsArePositive, NumbersAreNumbers, Init
  <2>2. ASSUME NEW u \in Usernames
        PROVE  /\ Lost(u) = {} /\ Fresh(u) = {} /\ Comparing(u) = {}
               /\ attempt[u].lockedUntil = 0 /\ attempt[u].failedAt = {}
    BY DEF Init, Lost, Fresh, Comparing, Idle, NoAttempt
  <2>3. ASSUME NEW u \in Usernames
        PROVE  /\ Cardinality(Lost(u)) = 0 /\ Cardinality(Fresh(u)) = 0
               /\ Cardinality(Comparing(u)) = 0 /\ Cardinality(attempt[u].failedAt) = 0
    BY <2>1, <2>2
  <2>4. LastInv /\ LostInv
    BY <2>1, <2>2, <2>3 DEF LastInv, LostInv
  <2>5. FewInv
    BY <2>1, <2>3 DEF FewInv
  <2> QED BY <2>4, <2>5 DEF GuessInv
<1>2. AccountInv /\ AccountInv' /\ LockInv /\ GuessInv /\ [Next]_vars => GuessInv'
  BY GuessNext
<1>3. AccountInv /\ LockInv /\ GuessInv => GuessesAreFew
  <2> SUFFICES ASSUME AccountInv, LockInv, GuessInv, mixed = {}, NEW u \in Usernames
               PROVE  Cardinality(Fresh(u)) <= LockoutThreshold + Cardinality(Requests) - 1 + faults
    BY DEF GuessesAreFew, Fresh
  <2>1. Cardinality(Fresh(u)) + Cardinality(Comparing(u))
          <= LockoutThreshold - 1 + Cardinality(Requests) + faults
    BY DEF GuessInv, FewInv
  <2>2. Cardinality(Fresh(u)) \in Nat /\ Cardinality(Comparing(u)) \in Nat
    BY GuessesFinite DEF AccountInv, LockInv
  <2>3. LockoutThreshold \in Nat /\ Cardinality(Requests) \in Nat /\ faults \in Nat
    BY FS_CardinalityType DEF LimitsArePositive, NumbersAreNumbers, AccountInv, TypeOK
  <2> QED BY <2>1, <2>2, <2>3
<1>4. AccountInv /\ LockInv /\ GuessInv => LockoutIsExact
  BY <1>3 DEF LockInv, LockoutIsExact
<1> QED BY <1>1, <1>2, <1>4, AccountAlways, LockAlways, PTL DEF Spec
=============================================================================
