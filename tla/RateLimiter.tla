----------------------------- MODULE RateLimiter -----------------------------
(***************************************************************************)
(* The rate limit of the HomeCareOps API (authService.js and the middleware *)
(* in authenticate.js).  Requests are counted per client and per fixed      *)
(* window of time, in the database; the first call to the database that     *)
(* fails makes the process count in its own memory from then on, from zero. *)
(* Several requests wait for the database at once.                          *)
(***************************************************************************)
EXTENDS Integers

CONSTANTS
    Members,        \* signed-in users, each with a key of its own
    Visitors,       \* addresses that requests without a session come from
    Calls,          \* requests that may be in flight at once
    MemberLimit, VisitorLimit,      \* AUTHENTICATED_LIMIT, UNAUTHENTICATED_LIMIT
    Window,         \* RATE_LIMIT_WINDOW_MS, in ticks
    Preferred,      \* AUTH_RATE_LIMIT_STORE
    MaxClock,       \* bound: time
    MaxRequests,    \* bound: requests of a behaviour
    MaxFaults,      \* bound: calls to the database that fail
    MaxRestarts,    \* bound: times the process dies
    NoKey

Keys == Members \cup Visitors

ASSUME KeysAssumption == Members \cap Visitors = {} /\ NoKey \notin Keys

ASSUME LimitsAssumption ==
    /\ MemberLimit \in Nat /\ VisitorLimit \in Nat /\ Window \in Nat \ {0}
    /\ Preferred \in {"mongo", "memory"}

ASSUME BoundsAssumption ==
    MaxClock \in Nat /\ MaxRequests \in Nat /\ MaxFaults \in Nat /\ MaxRestarts \in Nat

VARIABLES
    clock,
    store,      \* activeRateLimitStore: where the process counts
    row,        \* auth_rate_limits: the count of each key and window
    bucket,     \* the memory store: one window and count per key
    call,       \* requests at the limiter
    requests, faults, restarts,     \* counts
    made, passed, turned,   \* history: requests seen, let through and refused by key and window
    memories    \* history: memory stores the process began to count in

history == <<made, passed, turned, memories>>
vars == <<clock, store, row, bucket, call, requests, faults, restarts, history>>

-----------------------------------------------------------------------------
Windows == 0..MaxClock      \* by their starts

\* Mutant: a window is known by its end.
WindowEnd == clock - (clock % Window) + Window
\* getWindowStart
WindowStart == clock - (clock % Window)

LimitOf(k) == IF k \in Members THEN MemberLimit ELSE VisitorLimit

Empty == [window |-> 0, count |-> 0]
Idle == [pc |-> "idle", key |-> NoKey, window |-> 0]
NoneYet == [k \in Keys |-> [w \in Windows |-> 0]]

Plus(f, k, w) == [f EXCEPT ![k][w] = @ + 1]

\* buildRateLimitResult and the middleware: the request goes on, or is refused.
Answer(r, k, w, count) ==
    /\ call' = [call EXCEPT ![r] =
         [Idle EXCEPT !.pc = IF count <= LimitOf(k) THEN "passed" ELSE "refused"]]
    /\ passed' = IF count <= LimitOf(k) THEN Plus(passed, k, w) ELSE passed
    /\ turned' = IF count <= LimitOf(k) THEN turned ELSE Plus(turned, k, w)

\* Mutant: a bucket counts on in the next window.
BucketCountOn(buckets, k) == buckets[k].count + 1
\* The count in memory after one more request: of its window only.
BucketCount(buckets, k) ==
    IF buckets[k].count > 0 /\ buckets[k].window = WindowStart THEN buckets[k].count + 1 ELSE 1

\* consume of the memory store: nothing is awaited.
ConsumeInMemory(r, k, buckets) ==
    LET count == BucketCount(buckets, k)
    IN  /\ bucket' = [buckets EXCEPT ![k] = [window |-> WindowStart, count |-> count]]
        /\ Answer(r, k, WindowStart, count)

Waiting(r) == call[r].pc = "counting"

-----------------------------------------------------------------------------
\* A request comes to the limiter.  The database is asked to count it.
Arrive(r, k) ==
    /\ ~Waiting(r) /\ requests < MaxRequests
    /\ requests' = requests + 1
    /\ made' = Plus(made, k, WindowStart)
    /\ IF store = "memory" THEN ConsumeInMemory(r, k, bucket)
       ELSE /\ call' = [call EXCEPT ![r] = [pc |-> "counting", key |-> k, window |-> WindowStart]]
            /\ UNCHANGED <<bucket, passed, turned>>
    /\ UNCHANGED <<clock, store, row, faults, restarts, memories>>

\* consume of the database store: one findOneAndUpdate counts and returns the count.
Count(r) ==
    LET k == call[r].key
        w == call[r].window
    IN  /\ Waiting(r)
        /\ row' = Plus(row, k, w)
        /\ Answer(r, k, w, row[k][w] + 1)
        /\ UNCHANGED <<clock, store, bucket, requests, faults, restarts, made, memories>>

\* The call rejects, and may have counted before: applyRateLimit's catch.  It looks at the
\* store there is now: a new memory store counts the request, but in one that another
\* call has put there meanwhile the request is not counted and fails.
Fallback(r, counted) ==
    LET k == call[r].key
    IN  /\ Waiting(r) /\ faults < MaxFaults
        /\ faults' = faults + 1
        /\ row' = IF counted THEN Plus(row, k, call[r].window) ELSE row
        /\ IF store = "memory"
           THEN /\ call' = [call EXCEPT ![r] = [Idle EXCEPT !.pc = "failed"]]
                /\ UNCHANGED <<store, bucket, made, passed, turned, memories>>
           ELSE /\ store' = "memory"
                /\ memories' = memories + 1
                /\ made' = IF call[r].window = WindowStart THEN made ELSE Plus(made, k, WindowStart)
                /\ ConsumeInMemory(r, k, [j \in Keys |-> Empty])
        /\ UNCHANGED <<clock, requests, restarts>>

\* The process dies and starts again: configureRateLimitStore.
Restart ==
    /\ restarts < MaxRestarts
    /\ restarts' = restarts + 1
    /\ store' = Preferred
    /\ bucket' = [k \in Keys |-> Empty]
    /\ call' = [r \in Calls |-> Idle]
    /\ memories' = IF Preferred = "memory" THEN memories + 1 ELSE memories
    /\ UNCHANGED <<clock, row, requests, faults, made, passed, turned>>

Tick ==
    /\ clock < MaxClock
    /\ clock' = clock + 1
    /\ UNCHANGED <<store, row, bucket, call, requests, faults, restarts, history>>

Init ==
    /\ clock = 0 /\ requests = 0 /\ faults = 0 /\ restarts = 0
    /\ store = Preferred
    /\ row = NoneYet
    /\ bucket = [k \in Keys |-> Empty]
    /\ call = [r \in Calls |-> Idle]
    /\ made = NoneYet /\ passed = NoneYet /\ turned = NoneYet
    /\ memories = IF Preferred = "memory" THEN 1 ELSE 0

Next ==
    \/ \E r \in Calls, k \in Keys : Arrive(r, k)
    \/ \E r \in Calls : Count(r)
    \/ \E r \in Calls, counted \in BOOLEAN : Fallback(r, counted)
    \/ Restart
    \/ Tick

Spec == Init /\ [][Next]_vars

-----------------------------------------------------------------------------
TypeOK ==
    /\ clock \in 0..MaxClock /\ store \in {"mongo", "memory"}
    /\ requests \in Nat /\ faults \in Nat /\ restarts \in Nat /\ memories \in Nat
    /\ row \in [Keys -> [Windows -> Nat]] /\ bucket \in [Keys -> [window : Windows, count : Nat]]
    /\ call \in [Calls -> [pc : {"idle", "counting", "passed", "refused", "failed"},
                           key : Keys \cup {NoKey}, window : Windows]]
    /\ \A r \in Calls : Waiting(r) => call[r].key \in Keys
    /\ made \in [Keys -> [Windows -> Nat]] /\ passed \in [Keys -> [Windows -> Nat]]
    /\ turned \in [Keys -> [Windows -> Nat]]

\* A client gets no more than its limit through in a window, and as much again for every
\* time the process began to count anew in memory (authService.js 291): neither requests
\* that wait for the database at once nor an answer that gets lost give it more.
LimitHolds ==
    \A k \in Keys, w \in Windows : passed[k][w] <= LimitOf(k) * (1 + memories)

\* Who is refused has used the limit up in that window (authService.js 43): counts are
\* kept per client, and those of past windows do not count on.
RefusedForCause ==
    \A k \in Keys, w \in Windows : turned[k][w] > 0 => made[k][w] > LimitOf(k)

\* The limit neither leaks nor refuses too early.
LimitIsExact == LimitHolds /\ RefusedForCause
=============================================================================
