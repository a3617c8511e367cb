----------------------------- MODULE ServerProofs -----------------------------
(***************************************************************************)
(* What holds of the server for any number of clients, requests, names,    *)
(* messages, users, services and faults, any limits and any length of the  *)
(* windows: what each part promises, whatever the others do.  The rate     *)
(* limit, the inbox and the lists are proved here, the accounts and the    *)
(* reviews in modules of their own.                                        *)
(***************************************************************************)
EXTENDS Server, FiniteSetTheorems, TLAPS

-----------------------------------------------------------------------------
(* The rate limit: arithmetic *)

LEMMA Division ==
    ASSUME NEW c \in Nat, NEW n \in Nat \ {0}
    PROVE  /\ c = n * (c \div n) + (c % n)
           /\ c % n \in 0..(n - 1)
           /\ c \div n \in Nat
OBVIOUS

LEMMA WindowOrder ==
    ASSUME NEW c \in Nat, NEW n \in Nat \ {0}
    PROVE  /\ c - (c % n) \in 0..c
           /\ c - (c % n) <= (c + 1) - ((c + 1) % n)
<1> DEFINE q == c \div n   p == (c + 1) \div n
<1>1. /\ c = n * q + (c % n) /\ c % n \in 0..(n - 1) /\ q \in Nat
  BY Division
<1>2. /\ c + 1 = n * p + ((c + 1) % n) /\ (c + 1) % n \in 0..(n - 1) /\ p \in Nat
  <2>1. c + 1 \in Nat
    OBVIOUS
  <2> HIDE DEF p
  <2>2. \A d \in Nat : /\ d = n * (d \div n) + (d % n) /\ d % n \in 0..(n - 1)
                      /\ d \div n \in Nat
    BY Division
  <2> QED BY <2>1, <2>2 DEF p
<1> HIDE DEF q, p
<1>3. n * q \in Nat /\ n * p \in Nat
  BY <1>1, <1>2
<1>4. ASSUME p < q PROVE FALSE
  <2>1. n * p <= n * (q - 1)
    BY <1>1, <1>2, <1>4
  <2>2. n * (q - 1) = n * q - n
    BY <1>1
  <2> QED BY <1>1, <1>2, <1>3, <2>1, <2>2
<1>5. n * q <= n * p
  BY <1>1, <1>2, <1>4
<1> QED BY <1>1, <1>2, <1>3, <1>5

LEMMA OneMore ==
    ASSUME NEW a \in Nat, NEW b \in Nat
    PROVE  a * (b + 1) = a * b + a /\ a * b \in Nat
OBVIOUS

-----------------------------------------------------------------------------
(* The rate limit: the invariant *)

Awaiting(k, w) == {r \in Calls : Waiting(r) /\ call[r].key = k /\ call[r].window = w}

AtMost(n, limit) == IF n <= limit THEN n ELSE limit

\* What buckets would still let through of k in w.
Left(buckets, k, w) ==
    IF w < buckets[k].window THEN 0
    ELSE IF w = buckets[k].window THEN LimitOf(k) - AtMost(buckets[k].count, LimitOf(k))
    ELSE LimitOf(k)

\* And the memory store, if it counts at all.
Spare(k, w) == IF store = "mongo" THEN 0 ELSE Left(bucket, k, w)

\* The database lets a limit through, and so does every memory there ever was.
QuotaInv ==
    \A k \in Keys, w \in Windows :
        passed[k][w] + Spare(k, w) <= AtMost(row[k][w], LimitOf(k)) + LimitOf(k) * memories

\* The database counts a request no more than once.
RowInv ==
    \A k \in Keys, w \in Windows :
        /\ IsFiniteSet(Awaiting(k, w))
        /\ row[k][w] + Cardinality(Awaiting(k, w)) <= made[k][w]

\* So does a bucket, and it is of no window to come.
BucketInv ==
    \A k \in Keys : /\ bucket[k].window <= WindowStart
                     /\ bucket[k].count <= made[k][bucket[k].window]

IInv == TypeOK /\ QuotaInv /\ RowInv /\ BucketInv /\ RefusedForCause

-----------------------------------------------------------------------------
(* Types *)

LEMMA WindowType == ASSUME TypeOK PROVE WindowStart \in Windows /\ WindowStart <= clock
<1>1. clock \in Nat /\ Window \in Nat \ {0} /\ clock \in 0..MaxClock /\ MaxClock \in Nat
  BY LimitsAssumption, BoundsAssumption DEF TypeOK
<1>2. clock - (clock % Window) \in 0..clock
  BY <1>1, WindowOrder
<1> QED BY <1>1, <1>2 DEF WindowStart, Windows

LEMMA LimitType == ASSUME NEW k \in Keys PROVE LimitOf(k) \in Nat
BY LimitsAssumption DEF LimitOf

LEMMA PlusIsOneMore ==
    ASSUME NEW f \in [Keys -> [Windows -> Nat]], NEW k \in Keys, NEW w \in Windows
    PROVE  /\ Plus(f, k, w) \in [Keys -> [Windows -> Nat]]
           /\ \A j \in Keys, v \in Windows :
                 Plus(f, k, w)[j][v] = f[j][v] + IF j = k /\ v = w THEN 1 ELSE 0
BY DEF Plus

LEMMA BucketCountType ==
    ASSUME TypeOK, NEW buckets \in [Keys -> [window : Windows, count : Nat]], NEW k \in Keys
    PROVE  BucketCount(buckets, k) \in Nat \ {0}
BY DEF BucketCount

LEMMA IdleIs ==
    ASSUME NEW p
    PROVE  [Idle EXCEPT !.pc = p] = [pc |-> p, key |-> NoKey, window |-> 0]
BY DEF Idle

\* What an answer changes.
LEMMA AnswerStep ==
    ASSUME TypeOK, NEW r \in Calls, NEW k \in Keys, NEW w \in Windows, NEW n \in Nat,
           Answer(r, k, w, n)
    PROVE  LET one(j, v) == IF j = k /\ v = w THEN 1 ELSE 0
           IN  /\ call' \in [Calls -> [pc : {"idle", "counting", "passed", "refused", "failed"},
                                       key : Keys \cup {NoKey}, window : Windows]]
               /\ call'[r].pc # "counting"
               /\ \A q \in Calls : q # r => call'[q] = call[q]
               /\ passed' \in [Keys -> [Windows -> Nat]]
               /\ turned' \in [Keys -> [Windows -> Nat]]
               /\ \A j \in Keys, v \in Windows :
                    /\ passed'[j][v] = passed[j][v] + IF n <= LimitOf(k) THEN one(j, v) ELSE 0
                    /\ turned'[j][v] = turned[j][v] + IF n <= LimitOf(k) THEN 0 ELSE one(j, v)
<1> DEFINE answer == [pc |-> IF n <= LimitOf(k) THEN "passed" ELSE "refused",
                      key |-> NoKey, window |-> 0]
<1>1. call' = [call EXCEPT ![r] = answer]
  BY IdleIs DEF Answer
<1>2. answer \in [pc : {"idle", "counting", "passed", "refused", "failed"},
                  key : Keys \cup {NoKey}, window : Windows]
  BY WindowType, BoundsAssumption DEF Windows
<1>3. answer.pc # "counting"
  OBVIOUS
<1> HIDE DEF answer
<1>4. /\ passed' = IF n <= LimitOf(k) THEN Plus(passed, k, w) ELSE passed
      /\ turned' = IF n <= LimitOf(k) THEN turned ELSE Plus(turned, k, w)
  BY DEF Answer
<1>5. /\ passed \in [Keys -> [Windows -> Nat]] /\ turned \in [Keys -> [Windows -> Nat]]
      /\ call \in [Calls -> [pc : {"idle", "counting", "passed", "refused", "failed"},
                             key : Keys \cup {NoKey}, window : Windows]]
  BY DEF TypeOK
<1>6. /\ call' \in [Calls -> [pc : {"idle", "counting", "passed", "refused", "failed"},
                              key : Keys \cup {NoKey}, window : Windows]]
      /\ call'[r].pc # "counting" /\ \A q \in Calls : q # r => call'[q] = call[q]
  BY <1>1, <1>2, <1>3, <1>5
<1>7. /\ passed' \in [Keys -> [Windows -> Nat]]
      /\ \A j \in Keys, v \in Windows :
           passed'[j][v] = passed[j][v]
                           + IF n <= LimitOf(k) THEN IF j = k /\ v = w THEN 1 ELSE 0 ELSE 0
  <2>0. passed \in [Keys -> [Windows -> Nat]]
    BY <1>5
  <2>1. /\ Plus(passed, k, w) \in [Keys -> [Windows -> Nat]]
        /\ \A j \in Keys, v \in Windows :
              Plus(passed, k, w)[j][v] = passed[j][v] + IF j = k /\ v = w THEN 1 ELSE 0
    BY <2>0, PlusIsOneMore
  <2>2. \A j \in Keys, v \in Windows : passed[j][v] \in Nat
    BY <2>0
  <2>3. CASE n <= LimitOf(k)
    BY <1>4, <2>1, <2>3
  <2>4. CASE ~(n <= LimitOf(k))
    BY <1>4, <1>5, <2>2, <2>4
  <2> QED BY <2>3, <2>4
<1>8. /\ turned' \in [Keys -> [Windows -> Nat]]
      /\ \A j \in Keys, v \in Windows :
           turned'[j][v] = turned[j][v]
                           + IF n <= LimitOf(k) THEN 0 ELSE IF j = k /\ v = w THEN 1 ELSE 0
  <2>0. turned \in [Keys -> [Windows -> Nat]]
    BY <1>5
  <2>1. /\ Plus(turned, k, w) \in [Keys -> [Windows -> Nat]]
        /\ \A j \in Keys, v \in Windows :
              Plus(turned, k, w)[j][v] = turned[j][v] + IF j = k /\ v = w THEN 1 ELSE 0
    BY <2>0, PlusIsOneMore
  <2>2. \A j \in Keys, v \in Windows : turned[j][v] \in Nat
    BY <2>0
  <2>3. CASE n <= LimitOf(k)
    BY <1>4, <1>5, <2>2, <2>3
  <2>4. CASE ~(n <= LimitOf(k))
    BY <1>4, <2>1, <2>4
  <2> QED BY <2>3, <2>4
<1> QED BY <1>6, <1>7, <1>8

\* What counting in memory changes.
LEMMA MemoryStep ==
    ASSUME TypeOK, NEW r \in Calls, NEW k \in Keys,
           NEW buckets \in [Keys -> [window : Windows, count : Nat]],
           ConsumeInMemory(r, k, buckets)
    PROVE  LET n == BucketCount(buckets, k)
           IN  /\ n \in Nat \ {0}
               /\ bucket' \in [Keys -> [window : Windows, count : Nat]]
               /\ bucket'[k].window = WindowStart /\ bucket'[k].count = n
               /\ \A j \in Keys : j # k => bucket'[j] = buckets[j]
               /\ Answer(r, k, WindowStart, n)
<1> DEFINE n == BucketCount(buckets, k)
           b == [window |-> WindowStart, count |-> n]
<1>1. n \in Nat \ {0} /\ WindowStart \in Windows
  BY BucketCountType, WindowType
<1>2. bucket' = [buckets EXCEPT ![k] = b] /\ Answer(r, k, WindowStart, n)
  BY DEF ConsumeInMemory
<1> HIDE DEF n
<1>3. b \in [window : Windows, count : Nat] /\ b.window = WindowStart /\ b.count = n
  BY <1>1
<1> HIDE DEF b
<1>4. /\ bucket' \in [Keys -> [window : Windows, count : Nat]]
      /\ bucket'[k] = b /\ \A j \in Keys : j # k => bucket'[j] = buckets[j]
  BY <1>2, <1>3
<1> QED BY <1>1, <1>2, <1>3, <1>4 DEF n

CallRecord == [pc : {"idle", "counting", "passed", "refused", "failed"},
               key : Keys \cup {NoKey}, window : Windows]

LEMMA ArriveTypes == ASSUME TypeOK, NEW r \in Calls, NEW k \in Keys, Arrive(r, k) PROVE TypeOK'
<1>1. /\ requests' = requests + 1 /\ made' = Plus(made, k, WindowStart)
      /\ UNCHANGED <<clock, store, row, faults, restarts, memories>>
  BY DEF Arrive
<1>2. made' \in [Keys -> [Windows -> Nat]]
  BY <1>1, WindowType, PlusIsOneMore DEF TypeOK
<1>3. CASE store = "memory"
  <2>1. ConsumeInMemory(r, k, bucket)
    BY <1>3 DEF Arrive
  <2>2. bucket \in [Keys -> [window : Windows, count : Nat]]
    BY DEF TypeOK
  <2>3. /\ bucket' \in [Keys -> [window : Windows, count : Nat]]
        /\ BucketCount(bucket, k) \in Nat
        /\ Answer(r, k, WindowStart, BucketCount(bucket, k))
    BY <2>1, <2>2, MemoryStep
  <2>4. /\ call' \in [Calls -> CallRecord] /\ call'[r].pc # "counting"
        /\ \A q \in Calls : q # r => call'[q] = call[q]
        /\ passed' \in [Keys -> [Windows -> Nat]] /\ turned' \in [Keys -> [Windows -> Nat]]
    BY <2>3, WindowType, AnswerStep DEF CallRecord
  <2>5. \A q \in Calls : Waiting(q)' => call'[q].key \in Keys
    BY <2>4 DEF TypeOK, Waiting
  <2> QED BY <1>1, <1>2, <2>3, <2>4, <2>5 DEF TypeOK, CallRecord
<1>4. CASE store # "memory"
  <2> DEFINE c == [pc |-> "counting", key |-> k, window |-> WindowStart]
  <2>1. call' = [call EXCEPT ![r] = c] /\ UNCHANGED <<bucket, passed, turned>>
    BY <1>4 DEF Arrive
  <2>2. c \in CallRecord /\ c.key \in Keys
    BY WindowType DEF CallRecord
  <2> HIDE DEF c
  <2>3. call \in [Calls -> CallRecord]
    BY DEF TypeOK, CallRecord
  <2>4. call' \in [Calls -> CallRecord] /\ \A q \in Calls : call'[q] = IF q = r THEN c ELSE call[q]
    BY <2>1, <2>2, <2>3
  <2> QED BY <1>1, <1>2, <2>1, <2>2, <2>4 DEF TypeOK, Waiting, CallRecord
<1> QED BY <1>3, <1>4

LEMMA CountTypes == ASSUME TypeOK, NEW r \in Calls, Count(r) PROVE TypeOK'
<1> DEFINE k == call[r].key   w == call[r].window
<1>1. k \in Keys /\ w \in Windows
  BY DEF TypeOK, Count
<1>2. /\ row' = Plus(row, k, w) /\ Answer(r, k, w, row[k][w] + 1)
      /\ UNCHANGED <<clock, store, bucket, requests, faults, restarts, made, memories>>
  BY DEF Count
<1> HIDE DEF k, w
<1>3. row' \in [Keys -> [Windows -> Nat]] /\ row[k][w] + 1 \in Nat
  <2>1. row \in [Keys -> [Windows -> Nat]]
    BY DEF TypeOK
  <2> QED BY <1>1, <1>2, <2>1, PlusIsOneMore
<1>4. /\ call' \in [Calls -> CallRecord] /\ call'[r].pc # "counting"
      /\ \A q \in Calls : q # r => call'[q] = call[q]
      /\ passed' \in [Keys -> [Windows -> Nat]] /\ turned' \in [Keys -> [Windows -> Nat]]
  BY <1>1, <1>2, <1>3, AnswerStep DEF CallRecord
<1>5. \A q \in Calls : Waiting(q)' => call'[q].key \in Keys
  BY <1>4 DEF TypeOK, Waiting
<1> QED BY <1>2, <1>3, <1>4, <1>5 DEF TypeOK, CallRecord

\* Buckets of a memory store that begins.
LEMMA EmptyBuckets ==
    /\ [j \in Keys |-> Empty] \in [Keys -> [window : Windows, count : Nat]]
    /\ Empty.window = 0 /\ Empty.count = 0
<1>1. 0 \in Windows
  BY BoundsAssumption DEF Windows
<1> QED BY <1>1 DEF Empty

LEMMA FallbackTypes ==
    ASSUME TypeOK, NEW r \in Calls, NEW before \in BOOLEAN, Fallback(r, before)
    PROVE  TypeOK'
<1> DEFINE k == call[r].key   w == call[r].window
<1>1. k \in Keys /\ w \in Windows
  BY DEF TypeOK, Fallback
<1>2. /\ row' = IF before THEN Plus(row, k, w) ELSE row
      /\ faults' = faults + 1
      /\ UNCHANGED <<clock, requests, restarts>>
  BY DEF Fallback
<1>3. row' \in [Keys -> [Windows -> Nat]]
  <2>1. row \in [Keys -> [Windows -> Nat]]
    BY DEF TypeOK
  <2> HIDE DEF k, w
  <2> QED BY <1>1, <1>2, <2>1, PlusIsOneMore
<1>4. CASE store = "memory"
  <2> DEFINE c == [pc |-> "failed", key |-> NoKey, window |-> 0]
  <2>1. /\ call' = [call EXCEPT ![r] = c]
        /\ UNCHANGED <<store, bucket, made, passed, turned, memories>>
    BY <1>4, IdleIs DEF Fallback
  <2>2. c \in CallRecord /\ c.pc = "failed"
    BY BoundsAssumption DEF CallRecord, Windows
  <2> HIDE DEF c
  <2>3. call \in [Calls -> CallRecord]
    BY DEF TypeOK, CallRecord
  <2>4. call' \in [Calls -> CallRecord] /\ \A q \in Calls : call'[q] = IF q = r THEN c ELSE call[q]
    BY <2>1, <2>2, <2>3
  <2> QED BY <1>2, <1>3, <2>1, <2>2, <2>4 DEF TypeOK, Waiting, CallRecord
<1>5. CASE store # "memory"
  <2>1. /\ store' = "memory" /\ memories' = memories + 1
        /\ made' = IF w = WindowStart THEN made ELSE Plus(made, k, WindowStart)
        /\ ConsumeInMemory(r, k, [j \in Keys |-> Empty])
    BY <1>5 DEF Fallback
  <2> HIDE DEF k, w
  <2>2. made' \in [Keys -> [Windows -> Nat]]
    <3>1. made \in [Keys -> [Windows -> Nat]]
      BY DEF TypeOK
    <3> QED BY <1>1, <2>1, <3>1, WindowType, PlusIsOneMore
  <2> DEFINE n == BucketCount([j \in Keys |-> Empty], k)
  <2>3. /\ bucket' \in [Keys -> [window : Windows, count : Nat]]
        /\ n \in Nat /\ Answer(r, k, WindowStart, n)
    BY <1>1, <2>1, EmptyBuckets, MemoryStep
  <2> HIDE DEF n
  <2>4. /\ call' \in [Calls -> CallRecord] /\ call'[r].pc # "counting"
        /\ \A q \in Calls : q # r => call'[q] = call[q]
        /\ passed' \in [Keys -> [Windows -> Nat]] /\ turned' \in [Keys -> [Windows -> Nat]]
    BY <1>1, <2>3, WindowType, AnswerStep DEF CallRecord
  <2>5. \A q \in Calls : Waiting(q)' => call'[q].key \in Keys
    BY <2>4 DEF TypeOK, Waiting
  <2> QED BY <1>2, <1>3, <2>1, <2>2, <2>3, <2>4, <2>5 DEF TypeOK, CallRecord
<1> QED BY <1>4, <1>5

LEMMA RestartTypes == ASSUME TypeOK, Restart PROVE TypeOK'
<1>1. /\ [r \in Calls |-> Idle] \in [Calls -> CallRecord] /\ Idle.pc = "idle"
  BY BoundsAssumption DEF Idle, CallRecord, Windows
<1> QED BY <1>1, EmptyBuckets, LimitsAssumption DEF TypeOK, Restart, Waiting, CallRecord

LEMMA TypeStep == TypeOK /\ [Next]_vars => TypeOK'
<1> SUFFICES ASSUME TypeOK, [Next]_vars PROVE TypeOK'
  OBVIOUS
<1>1. ASSUME Tick PROVE TypeOK'
  BY <1>1, BoundsAssumption DEF TypeOK, Tick, Waiting, history
<1>2. ASSUME UNCHANGED vars PROVE TypeOK'
  BY <1>2 DEF TypeOK, Waiting, vars, history
<1> QED BY <1>1, <1>2, ArriveTypes, CountTypes, FallbackTypes, RestartTypes DEF Next

LEMMA InitTypes == Init => TypeOK
<1> SUFFICES ASSUME Init PROVE TypeOK
  OBVIOUS
<1>1. /\ [r \in Calls |-> Idle] \in [Calls -> CallRecord] /\ Idle.pc = "idle"
  BY BoundsAssumption DEF Idle, CallRecord, Windows
<1>2. NoneYet \in [Keys -> [Windows -> Nat]]
  BY DEF NoneYet
<1> QED BY <1>1, <1>2, EmptyBuckets, LimitsAssumption, BoundsAssumption
       DEF Init, TypeOK, Waiting, CallRecord

-----------------------------------------------------------------------------
(* The invariant holds *)

LEMMA SpareType ==
    ASSUME TypeOK, NEW k \in Keys, NEW w \in Windows
    PROVE  Spare(k, w) \in 0..LimitOf(k)
<1>1. LimitOf(k) \in Nat /\ bucket[k].count \in Nat /\ bucket[k].window \in Nat /\ w \in Nat
  BY LimitType, BoundsAssumption DEF TypeOK, Windows
<1> QED BY <1>1 DEF Spare, Left, AtMost

\* A request that is answered is no longer awaited.
LEMMA NoLongerAwaited ==
    ASSUME TypeOK, RowInv, NEW r \in Calls, Waiting(r), call'[r].pc # "counting",
           \A q \in Calls : q # r => call'[q] = call[q],
           NEW k \in Keys, NEW w \in Windows
    PROVE  /\ IsFiniteSet(Awaiting(k, w)')
           /\ Cardinality(Awaiting(k, w)') \in Nat
           /\ Cardinality(Awaiting(k, w)) = Cardinality(Awaiting(k, w)')
                + IF k = call[r].key /\ w = call[r].window THEN 1 ELSE 0
<1>1. IsFiniteSet(Awaiting(k, w)) /\ Cardinality(Awaiting(k, w)) \in Nat
  BY FS_CardinalityType DEF RowInv
<1>2. CASE k = call[r].key /\ w = call[r].window
  <2>1. r \in Awaiting(k, w) /\ Awaiting(k, w)' = Awaiting(k, w) \ {r}
    BY <1>2 DEF Awaiting, Waiting
  <2>2. /\ IsFiniteSet(Awaiting(k, w) \ {r})
        /\ Cardinality(Awaiting(k, w) \ {r}) = Cardinality(Awaiting(k, w)) - 1
    BY <1>1, <2>1, FS_RemoveElement
  <2>3. Cardinality(Awaiting(k, w) \ {r}) \in Nat
    BY <2>2, FS_CardinalityType
  <2> QED BY <1>1, <1>2, <2>1, <2>2, <2>3
<1>3. CASE ~(k = call[r].key /\ w = call[r].window)
  <2>1. Awaiting(k, w)' = Awaiting(k, w)
    BY <1>3 DEF Awaiting, Waiting
  <2> QED BY <1>1, <1>3, <2>1
<1> QED BY <1>2, <1>3

LEMMA CountPreserves ==
    ASSUME IInv, NEW r \in Calls, Count(r)
    PROVE  (QuotaInv /\ RowInv /\ BucketInv /\ RefusedForCause)'
<1> DEFINE k == call[r].key   w == call[r].window   n == row[k][w] + 1
<1>1. k \in Keys /\ w \in Windows /\ Waiting(r) /\ TypeOK
  BY DEF IInv, TypeOK, Count
<1>2. /\ row' = Plus(row, k, w) /\ Answer(r, k, w, n)
      /\ UNCHANGED <<clock, store, bucket, made, memories>>
  BY DEF Count
<1>3. n \in Nat
  BY <1>1 DEF TypeOK
<1>4. \A j \in Keys, v \in Windows :
        row'[j][v] = row[j][v] + IF j = k /\ v = w THEN 1 ELSE 0
  <2>1. row \in [Keys -> [Windows -> Nat]]
    BY <1>1 DEF TypeOK
  <2> HIDE DEF k, w
  <2> QED BY <1>1, <1>2, <2>1, PlusIsOneMore
<1>5. /\ call'[r].pc # "counting" /\ \A q \in Calls : q # r => call'[q] = call[q]
      /\ \A j \in Keys, v \in Windows :
           /\ passed'[j][v] = passed[j][v]
                + IF n <= LimitOf(k) THEN IF j = k /\ v = w THEN 1 ELSE 0 ELSE 0
           /\ turned'[j][v] = turned[j][v]
                + IF n <= LimitOf(k) THEN 0 ELSE IF j = k /\ v = w THEN 1 ELSE 0
  <2> HIDE DEF k, w, n
  <2> QED BY <1>1, <1>2, <1>3, AnswerStep
<1>6. QuotaInv'
  <2> SUFFICES ASSUME NEW j \in Keys, NEW v \in Windows
      PROVE  passed'[j][v] + Spare(j, v)'
               <= AtMost(row'[j][v], LimitOf(j)) + LimitOf(j) * memories'
    BY DEF QuotaInv, AtMost
  <2>1. Spare(j, v)' = Spare(j, v) /\ Spare(j, v) \in Nat
    BY <1>1, <1>2, SpareType, LimitType DEF Spare, Left
  <2>2. /\ passed[j][v] + Spare(j, v) <= AtMost(row[j][v], LimitOf(j)) + LimitOf(j) * memories
        /\ passed[j][v] \in Nat /\ row[j][v] \in Nat /\ LimitOf(j) \in Nat /\ memories \in Nat
    BY LimitType DEF IInv, QuotaInv, TypeOK
  <2>3. LimitOf(j) * memories \in Nat /\ memories' = memories
    BY <1>2, <2>2, OneMore
  <2>4. CASE j = k /\ v = w
    BY <1>3, <1>4, <1>5, <2>1, <2>2, <2>3, <2>4 DEF AtMost
  <2>5. CASE ~(j = k /\ v = w)
    <3>1. passed'[j][v] = passed[j][v] /\ row'[j][v] = row[j][v]
      BY <1>4, <1>5, <2>2, <2>5
    <3> QED BY <2>1, <2>2, <2>3, <3>1
  <2> QED BY <2>4, <2>5
<1>7. \A j \in Keys, v \in Windows :
        /\ IsFiniteSet(Awaiting(j, v)') /\ Cardinality(Awaiting(j, v)') \in Nat
        /\ Cardinality(Awaiting(j, v)) = Cardinality(Awaiting(j, v)')
             + IF j = k /\ v = w THEN 1 ELSE 0
  BY <1>1, <1>5, NoLongerAwaited DEF IInv
<1>8. RowInv'
  <2> SUFFICES ASSUME NEW j \in Keys, NEW v \in Windows
      PROVE  /\ IsFiniteSet(Awaiting(j, v)')
             /\ row'[j][v] + Cardinality(Awaiting(j, v)') <= made'[j][v]
    BY DEF RowInv
  <2>1. /\ IsFiniteSet(Awaiting(j, v)') /\ Cardinality(Awaiting(j, v)') \in Nat
        /\ Cardinality(Awaiting(j, v)) = Cardinality(Awaiting(j, v)')
             + IF j = k /\ v = w THEN 1 ELSE 0
    BY <1>7
  <2>2. /\ row[j][v] + Cardinality(Awaiting(j, v)) <= made[j][v]
        /\ row[j][v] \in Nat /\ made[j][v] \in Nat /\ made' = made
    BY <1>2 DEF IInv, RowInv, TypeOK
  <2> QED BY <1>4, <2>1, <2>2
<1>9. BucketInv'
  BY <1>2 DEF IInv, BucketInv, WindowStart
<1>10. RefusedForCause'
  <2> SUFFICES ASSUME NEW j \in Keys, NEW v \in Windows, turned'[j][v] > 0
      PROVE  made'[j][v] > LimitOf(j)
    BY DEF RefusedForCause
  <2>1. /\ turned[j][v] \in Nat /\ made[j][v] \in Nat /\ row[j][v] \in Nat /\ made' = made
        /\ turned[j][v] > 0 => made[j][v] > LimitOf(j)
    BY <1>2 DEF IInv, RefusedForCause, TypeOK
  <2>2. CASE turned[j][v] > 0
    BY <2>1, <2>2
  <2>3. CASE ~(turned[j][v] > 0)
    <3>1. j = k /\ v = w /\ n > LimitOf(k)
      BY <1>3, <1>5, <2>1, <2>3, LimitType, <1>1
    <3>2. /\ Cardinality(Awaiting(j, v)') \in Nat
          /\ Cardinality(Awaiting(j, v)) = Cardinality(Awaiting(j, v)') + 1
      BY <1>7, <3>1
    <3>3. row[j][v] + Cardinality(Awaiting(j, v)) <= made[j][v]
      BY DEF IInv, RowInv
    <3>4. LimitOf(j) \in Nat
      BY LimitType
    <3> QED BY <2>1, <3>1, <3>2, <3>3, <3>4
  <2> QED BY <2>2, <2>3
<1> QED BY <1>6, <1>8, <1>9, <1>10

\* Counting in memory lets through no more than the buckets had left.
LEMMA MemoryLeaves ==
    ASSUME TypeOK, NEW r \in Calls, NEW k \in Keys,
           NEW buckets \in [Keys -> [window : Windows, count : Nat]],
           buckets[k].window <= WindowStart, ConsumeInMemory(r, k, buckets),
           NEW j \in Keys, NEW v \in Windows
    PROVE  passed'[j][v] + Left(bucket', j, v) <= passed[j][v] + Left(buckets, j, v)
<1> DEFINE n == BucketCount(buckets, k)   w == WindowStart
<1>1. /\ n \in Nat \ {0} /\ bucket' \in [Keys -> [window : Windows, count : Nat]]
      /\ bucket'[k].window = w /\ bucket'[k].count = n
      /\ \A i \in Keys : i # k => bucket'[i] = buckets[i]
      /\ Answer(r, k, w, n)
  BY MemoryStep
<1>2. n = IF buckets[k].count > 0 /\ buckets[k].window = w THEN buckets[k].count + 1 ELSE 1
  BY DEF BucketCount
<1>3. w \in Windows /\ buckets[k].window <= w
  BY WindowType
<1> HIDE DEF n, w
<1>4. passed'[j][v] = passed[j][v]
        + IF n <= LimitOf(k) THEN IF j = k /\ v = w THEN 1 ELSE 0 ELSE 0
  BY <1>1, <1>3, AnswerStep
<1>5. passed[j][v] \in Nat /\ LimitOf(j) \in Nat /\ v \in Nat /\ w \in Nat
  BY <1>3, LimitType, BoundsAssumption DEF TypeOK, Windows
<1>6. CASE j # k
  <2>1. bucket'[j] = buckets[j] /\ passed'[j][v] = passed[j][v]
    BY <1>1, <1>4, <1>5, <1>6
  <2>2. Left(bucket', j, v) = Left(buckets, j, v)
    BY <2>1 DEF Left
  <2>3. Left(buckets, j, v) \in Int
    <3>1. buckets[j].count \in Nat
      OBVIOUS
    <3> QED BY <1>5, <3>1 DEF Left, AtMost
  <2> QED BY <1>5, <2>1, <2>2, <2>3
<1>7. CASE j = k
  <2>1. buckets[j].window \in Nat /\ buckets[j].count \in Nat
    BY BoundsAssumption DEF Windows
  <2>2. bucket'[j].window = w /\ bucket'[j].count = n
    BY <1>1, <1>7
  <2>3. CASE v < w
    BY <1>4, <1>5, <1>7, <2>1, <2>2, <2>3 DEF Left, AtMost
  <2>4. CASE v = w
    BY <1>1, <1>2, <1>3, <1>4, <1>5, <1>7, <2>1, <2>2, <2>4 DEF Left, AtMost
  <2>5. CASE v > w
    BY <1>3, <1>4, <1>5, <1>7, <2>1, <2>2, <2>5 DEF Left, AtMost
  <2> QED BY <1>5, <2>3, <2>4, <2>5
<1> QED BY <1>6, <1>7

\* A count in memory is of requests that were made.
LEMMA MemoryCounts ==
    ASSUME TypeOK, BucketInv', RefusedForCause, NEW r \in Calls, NEW k \in Keys,
           NEW buckets \in [Keys -> [window : Windows, count : Nat]],
           ConsumeInMemory(r, k, buckets),
           made' \in [Keys -> [Windows -> Nat]],
           \A j \in Keys, v \in Windows : made[j][v] <= made'[j][v]
    PROVE  RefusedForCause'
<1> DEFINE n == BucketCount(buckets, k)   w == WindowStart
<1>1. /\ n \in Nat \ {0} /\ bucket'[k].window = w /\ bucket'[k].count = n
      /\ Answer(r, k, w, n)
  BY MemoryStep
<1>2. w \in Windows
  BY WindowType
<1> HIDE DEF n, w
<1>3. n <= made'[k][w]
  BY <1>1 DEF BucketInv
<1> SUFFICES ASSUME NEW j \in Keys, NEW v \in Windows, turned'[j][v] > 0
    PROVE  made'[j][v] > LimitOf(j)
  BY DEF RefusedForCause
<1>4. turned'[j][v] = turned[j][v]
        + IF n <= LimitOf(k) THEN 0 ELSE IF j = k /\ v = w THEN 1 ELSE 0
  BY <1>1, <1>2, AnswerStep
<1>5. /\ turned[j][v] \in Nat /\ made[j][v] \in Nat /\ made'[j][v] \in Nat
      /\ LimitOf(j) \in Nat /\ made[j][v] <= made'[j][v]
  BY LimitType DEF TypeOK
<1>6. CASE turned[j][v] > 0
  BY <1>5, <1>6 DEF RefusedForCause
<1>7. CASE ~(turned[j][v] > 0)
  <2>1. j = k /\ v = w /\ ~(n <= LimitOf(k))
    BY <1>4, <1>5, <1>7
  <2> QED BY <1>1, <1>3, <1>5, <2>1
<1> QED BY <1>6, <1>7

LEMMA ArrivePreserves ==
    ASSUME IInv, NEW r \in Calls, NEW k \in Keys, Arrive(r, k)
    PROVE  (QuotaInv /\ RowInv /\ BucketInv /\ RefusedForCause)'
<1> DEFINE w == WindowStart
<1>1. /\ TypeOK /\ ~Waiting(r) /\ made' = Plus(made, k, w)
      /\ UNCHANGED <<clock, store, row, memories>>
  BY DEF IInv, Arrive
<1>2. w \in Windows /\ w' = w
  BY <1>1, WindowType DEF WindowStart
<1>3. /\ made' \in [Keys -> [Windows -> Nat]]
      /\ \A j \in Keys, v \in Windows :
           made'[j][v] = made[j][v] + IF j = k /\ v = w THEN 1 ELSE 0
  <2>1. made \in [Keys -> [Windows -> Nat]]
    BY <1>1 DEF TypeOK
  <2> HIDE DEF w
  <2> QED BY <1>1, <1>2, <2>1, PlusIsOneMore
<1> HIDE DEF w
<1>4. \A j \in Keys, v \in Windows : made[j][v] \in Nat /\ made[j][v] <= made'[j][v]
  <2>1. \A j \in Keys, v \in Windows : made[j][v] \in Nat
    BY <1>1 DEF TypeOK
  <2> QED BY <1>3, <2>1
<1>5. CASE store = "memory"
  <2>1. ConsumeInMemory(r, k, bucket) /\ bucket \in [Keys -> [window : Windows, count : Nat]]
    BY <1>1, <1>5 DEF Arrive, TypeOK
  <2> DEFINE n == BucketCount(bucket, k)
  <2>2. /\ n \in Nat \ {0} /\ bucket'[k].window = w /\ bucket'[k].count = n
        /\ \A j \in Keys : j # k => bucket'[j] = bucket[j]
        /\ Answer(r, k, w, n)
    BY <1>1, <2>1, MemoryStep DEF w
  <2>3. n = IF bucket[k].count > 0 /\ bucket[k].window = w THEN bucket[k].count + 1 ELSE 1
    BY DEF BucketCount, w
  <2> HIDE DEF n
  <2>4. call'[r].pc # "counting" /\ \A q \in Calls : q # r => call'[q] = call[q]
    BY <1>1, <1>2, <2>2, AnswerStep
  <2>5. QuotaInv'
    <3> SUFFICES ASSUME NEW j \in Keys, NEW v \in Windows
        PROVE  passed'[j][v] + Spare(j, v)'
                 <= AtMost(row'[j][v], LimitOf(j)) + LimitOf(j) * memories'
      BY DEF QuotaInv, AtMost
    <3>1. passed'[j][v] + Left(bucket', j, v) <= passed[j][v] + Left(bucket, j, v)
      BY <1>1, <2>1, MemoryLeaves DEF IInv, BucketInv
    <3>2. Spare(j, v) = Left(bucket, j, v) /\ Spare(j, v)' = Left(bucket', j, v)
      BY <1>1, <1>5 DEF Spare, Left
    <3>3. passed[j][v] + Spare(j, v) <= AtMost(row[j][v], LimitOf(j)) + LimitOf(j) * memories
      BY DEF IInv, QuotaInv
    <3>4. /\ AtMost(row[j][v], LimitOf(j)) \in Nat /\ LimitOf(j) * memories \in Nat
          /\ passed[j][v] \in Nat /\ Spare(j, v) \in Nat
      BY <1>1, LimitType, SpareType, OneMore DEF TypeOK, AtMost
    <3>5. TypeOK'
      BY <1>1, ArriveTypes
    <3>6. passed'[j][v] \in Nat /\ Spare(j, v)' \in Int
      <4>1. passed'[j][v] \in Nat /\ bucket'[j].count \in Nat /\ LimitOf(j) \in Nat
        BY <3>5, LimitType DEF TypeOK
      <4> QED BY <3>2, <4>1 DEF Left, AtMost
    <3> QED BY <1>1, <3>1, <3>2, <3>3, <3>4, <3>6
  <2>6. RowInv'
    <3> SUFFICES ASSUME NEW j \in Keys, NEW v \in Windows
        PROVE  /\ IsFiniteSet(Awaiting(j, v)')
               /\ row'[j][v] + Cardinality(Awaiting(j, v)') <= made'[j][v]
      BY DEF RowInv
    <3>1. Awaiting(j, v)' = Awaiting(j, v)
      BY <1>1, <2>4 DEF Awaiting, Waiting
    <3>2. /\ IsFiniteSet(Awaiting(j, v)) /\ Cardinality(Awaiting(j, v)) \in Nat
          /\ row[j][v] + Cardinality(Awaiting(j, v)) <= made[j][v] /\ row[j][v] \in Nat
      BY <1>1, FS_CardinalityType DEF IInv, RowInv, TypeOK
    <3>3. made'[j][v] \in Nat
      BY <1>3
    <3> QED BY <1>1, <1>4, <3>1, <3>2, <3>3
  <2>7. BucketInv'
    <3> SUFFICES ASSUME NEW j \in Keys
        PROVE  bucket'[j].window <= w' /\ bucket'[j].count <= made'[j][bucket'[j].window]
      BY DEF BucketInv, w
    <3>1. /\ bucket[j].window <= w /\ bucket[j].count <= made[j][bucket[j].window]
          /\ bucket[j].window \in Windows /\ bucket[j].count \in Nat
      BY <2>1 DEF IInv, BucketInv, w
    <3>2. w \in Nat
      BY <1>2, BoundsAssumption DEF Windows
    <3>3. CASE j # k
      <4>1. bucket'[j] = bucket[j]
        BY <2>2, <3>3
      <4>2. made'[j][bucket[j].window] \in Nat
        BY <1>3, <3>1
      <4> QED BY <1>2, <1>4, <3>1, <4>1, <4>2
    <3>4. CASE j = k
      <4>1. made'[k][w] = made[k][w] + 1 /\ made[k][w] \in Nat
        BY <1>2, <1>3, <1>4
      <4>2. n <= made'[k][w]
        BY <2>3, <3>1, <3>4, <4>1
      <4> QED BY <1>2, <2>2, <3>2, <3>4, <4>2
    <3> QED BY <3>3, <3>4
  <2>8. RefusedForCause'
    BY <1>1, <1>3, <1>4, <2>1, <2>7, MemoryCounts DEF IInv
  <2> QED BY <2>5, <2>6, <2>7, <2>8
<1>6. CASE store # "memory"
  <2> DEFINE c == [pc |-> "counting", key |-> k, window |-> w]
  <2>1. call' = [call EXCEPT ![r] = c] /\ UNCHANGED <<bucket, passed, turned>>
    BY <1>6 DEF Arrive, w
  <2>2. c.pc = "counting" /\ c.key = k /\ c.window = w
    OBVIOUS
  <2> HIDE DEF c
  <2>3. \A q \in Calls : call'[q] = IF q = r THEN c ELSE call[q]
    BY <1>1, <2>1 DEF TypeOK
  <2>4. QuotaInv'
    BY <1>1, <2>1 DEF IInv, QuotaInv, Spare, Left
  <2>5. RowInv'
    <3> SUFFICES ASSUME NEW j \in Keys, NEW v \in Windows
        PROVE  /\ IsFiniteSet(Awaiting(j, v)')
               /\ row'[j][v] + Cardinality(Awaiting(j, v)') <= made'[j][v]
      BY DEF RowInv
    <3>1. /\ IsFiniteSet(Awaiting(j, v)) /\ Cardinality(Awaiting(j, v)) \in Nat
          /\ row[j][v] + Cardinality(Awaiting(j, v)) <= made[j][v] /\ row[j][v] \in Nat
      BY <1>1, FS_CardinalityType DEF IInv, RowInv, TypeOK
    <3>2. CASE j = k /\ v = w
      <4>1. Awaiting(j, v)' = Awaiting(j, v) \cup {r} /\ r \notin Awaiting(j, v)
        BY <1>1, <2>2, <2>3, <3>2 DEF Awaiting, Waiting
      <4>2. /\ IsFiniteSet(Awaiting(j, v) \cup {r})
            /\ Cardinality(Awaiting(j, v) \cup {r}) = Cardinality(Awaiting(j, v)) + 1
        BY <3>1, <4>1, FS_AddElement
      <4> QED BY <1>1, <1>3, <1>4, <3>1, <3>2, <4>1, <4>2
    <3>3. CASE ~(j = k /\ v = w)
      <4>1. Awaiting(j, v)' = Awaiting(j, v)
        BY <1>1, <2>2, <2>3, <3>3 DEF Awaiting, Waiting
      <4> QED BY <1>1, <1>3, <1>4, <3>1, <3>3, <4>1
    <3> QED BY <3>2, <3>3
  <2>6. BucketInv'
    <3> SUFFICES ASSUME NEW j \in Keys
        PROVE  bucket'[j].window <= w' /\ bucket'[j].count <= made'[j][bucket'[j].window]
      BY DEF BucketInv, w
    <3>1. /\ bucket[j].window <= w /\ bucket[j].count <= made[j][bucket[j].window]
          /\ bucket[j].window \in Windows /\ bucket[j].count \in Nat
      BY <1>1 DEF IInv, BucketInv, TypeOK, w
    <3>2. made'[j][bucket[j].window] \in Nat
      BY <1>3, <3>1
    <3> QED BY <1>2, <1>4, <2>1, <3>1, <3>2
  <2>7. RefusedForCause'
    <3> SUFFICES ASSUME NEW j \in Keys, NEW v \in Windows, turned[j][v] > 0
        PROVE  made'[j][v] > LimitOf(j)
      BY <2>1 DEF RefusedForCause
    <3>1. made[j][v] > LimitOf(j) /\ made'[j][v] \in Nat /\ LimitOf(j) \in Nat
      BY <1>3, LimitType DEF IInv, RefusedForCause
    <3> QED BY <1>4, <3>1
  <2> QED BY <2>4, <2>5, <2>6, <2>7
<1> QED BY <1>5, <1>6

\* The quota of a memory store that begins: the whole limit.
LEMMA EmptyLeaves ==
    ASSUME NEW k \in Keys, NEW w \in Windows
    PROVE  Left([j \in Keys |-> Empty], k, w) = LimitOf(k)
<1>1. w \in Nat /\ LimitOf(k) \in Nat
  BY LimitType, BoundsAssumption DEF Windows
<1>2. [j \in Keys |-> Empty][k].window = 0 /\ [j \in Keys |-> Empty][k].count = 0
  BY EmptyBuckets
<1> QED BY <1>1, <1>2 DEF Left, AtMost

LEMMA FallbackPreserves ==
    ASSUME IInv, NEW r \in Calls, NEW before \in BOOLEAN, Fallback(r, before)
    PROVE  (QuotaInv /\ RowInv /\ BucketInv /\ RefusedForCause)'
<1>1. PICK k \in Keys, v0 \in Windows : k = call[r].key /\ v0 = call[r].window
  BY DEF IInv, TypeOK, Fallback
<1>2. /\ TypeOK /\ TypeOK' /\ Waiting(r) /\ UNCHANGED clock
      /\ row' = IF before THEN Plus(row, k, v0) ELSE row
  BY <1>1, FallbackTypes DEF IInv, Fallback
<1>3. WindowStart \in Windows /\ WindowStart' = WindowStart
  BY <1>2, WindowType DEF WindowStart
<1>4. \A j \in Keys, v \in Windows :
        /\ row[j][v] \in Nat /\ row'[j][v] \in Nat /\ row[j][v] <= row'[j][v]
        /\ row'[j][v] <= row[j][v] + IF j = k /\ v = v0 THEN 1 ELSE 0
  <2>1. row \in [Keys -> [Windows -> Nat]]
    BY <1>2 DEF TypeOK
  <2>2. CASE before
    BY <1>2, <2>1, <2>2, PlusIsOneMore
  <2>3. CASE ~before
    BY <1>2, <2>1, <2>3
  <2> QED BY <2>2, <2>3
<1>5. /\ call'[r].pc # "counting" /\ \A q \in Calls : q # r => call'[q] = call[q]
      /\ \A j \in Keys, v \in Windows : made[j][v] \in Nat /\ made[j][v] <= made'[j][v]
      /\ made' \in [Keys -> [Windows -> Nat]]
  <2>1. made \in [Keys -> [Windows -> Nat]] /\ made' \in [Keys -> [Windows -> Nat]]
    BY <1>2 DEF TypeOK
  <2>2. CASE store = "memory"
    <3>1. call' = [call EXCEPT ![r] = [pc |-> "failed", key |-> NoKey, window |-> 0]] /\ made' = made
      BY <2>2, IdleIs DEF Fallback
    <3>2. call'[r] = [pc |-> "failed", key |-> NoKey, window |-> 0]
          /\ \A q \in Calls : q # r => call'[q] = call[q]
      BY <1>2, <3>1 DEF TypeOK
    <3> QED BY <2>1, <3>1, <3>2
  <2>3. CASE store # "memory"
    <3>1. /\ ConsumeInMemory(r, k, [j \in Keys |-> Empty])
          /\ made' = IF v0 = WindowStart THEN made ELSE Plus(made, k, WindowStart)
      BY <1>1, <2>3 DEF Fallback
    <3>2. /\ Answer(r, k, WindowStart, BucketCount([j \in Keys |-> Empty], k))
          /\ BucketCount([j \in Keys |-> Empty], k) \in Nat
      BY <1>2, <3>1, EmptyBuckets, MemoryStep
    <3>3. call'[r].pc # "counting" /\ \A q \in Calls : q # r => call'[q] = call[q]
      BY <1>2, <1>3, <3>2, AnswerStep
    <3>4. \A j \in Keys, v \in Windows : made[j][v] \in Nat /\ made[j][v] <= made'[j][v]
      <4>1. \A j \in Keys, v \in Windows :
              Plus(made, k, WindowStart)[j][v]
                = made[j][v] + IF j = k /\ v = WindowStart THEN 1 ELSE 0
        BY <1>3, <2>1, PlusIsOneMore
      <4>2. \A j \in Keys, v \in Windows : made[j][v] \in Nat
        BY <2>1
      <4> QED BY <3>1, <4>1, <4>2
    <3> QED BY <2>1, <3>3, <3>4
  <2> QED BY <2>2, <2>3
<1>6. \A j \in Keys, v \in Windows :
        /\ IsFiniteSet(Awaiting(j, v)') /\ Cardinality(Awaiting(j, v)') \in Nat
        /\ Cardinality(Awaiting(j, v)) = Cardinality(Awaiting(j, v)')
             + IF j = k /\ v = v0 THEN 1 ELSE 0
  BY <1>1, <1>2, <1>5, NoLongerAwaited DEF IInv
<1>7. RowInv'
  <2> SUFFICES ASSUME NEW j \in Keys, NEW v \in Windows
      PROVE  /\ IsFiniteSet(Awaiting(j, v)')
             /\ row'[j][v] + Cardinality(Awaiting(j, v)') <= made'[j][v]
    BY DEF RowInv
  <2>1. /\ row[j][v] + Cardinality(Awaiting(j, v)) <= made[j][v]
        /\ made[j][v] \in Nat /\ made'[j][v] \in Nat /\ made[j][v] <= made'[j][v]
    BY <1>5 DEF IInv, RowInv
  <2> QED BY <1>4, <1>6, <2>1
<1>8. CASE store = "memory"
  <2>1. UNCHANGED <<store, bucket, made, passed, turned, memories>>
    BY <1>8 DEF Fallback
  <2>2. QuotaInv'
    <3> SUFFICES ASSUME NEW j \in Keys, NEW v \in Windows
        PROVE  passed'[j][v] + Spare(j, v)'
                 <= AtMost(row'[j][v], LimitOf(j)) + LimitOf(j) * memories'
      BY DEF QuotaInv, AtMost
    <3>1. Spare(j, v)' = Spare(j, v) /\ Spare(j, v) \in Nat /\ passed' = passed
          /\ memories' = memories
      BY <1>2, <2>1, SpareType, LimitType DEF Spare, Left
    <3>2. passed[j][v] + Spare(j, v) <= AtMost(row[j][v], LimitOf(j)) + LimitOf(j) * memories
      BY DEF IInv, QuotaInv
    <3>3. /\ LimitOf(j) \in Nat /\ LimitOf(j) * memories \in Nat /\ passed[j][v] \in Nat
      BY <1>2, LimitType, OneMore DEF TypeOK
    <3>4. /\ AtMost(row[j][v], LimitOf(j)) \in Nat /\ AtMost(row'[j][v], LimitOf(j)) \in Nat
          /\ AtMost(row[j][v], LimitOf(j)) <= AtMost(row'[j][v], LimitOf(j))
      BY <1>4, <3>3 DEF AtMost
    <3> QED BY <3>1, <3>2, <3>3, <3>4
  <2>3. BucketInv' /\ RefusedForCause'
    BY <1>3, <2>1 DEF IInv, BucketInv, RefusedForCause
  <2> QED BY <1>7, <2>2, <2>3
<1>9. CASE store # "memory"
  <2> DEFINE none == [j \in Keys |-> Empty]
  <2>1. /\ store' = "memory" /\ store = "mongo" /\ memories' = memories + 1
        /\ made' = IF v0 = WindowStart THEN made ELSE Plus(made, k, WindowStart)
        /\ ConsumeInMemory(r, k, none)
    BY <1>1, <1>2, <1>9 DEF Fallback, TypeOK
  <2>2. /\ none \in [Keys -> [window : Windows, count : Nat]]
        /\ \A j \in Keys : none[j].window = 0 /\ none[j].count = 0
    BY EmptyBuckets
  <2>3. \A j \in Keys, v \in Windows : Left(none, j, v) = LimitOf(j)
    BY EmptyLeaves
  <2>4. BucketCount(none, k) = 1
    BY <2>2 DEF BucketCount
  <2> HIDE DEF none
  <2>5. /\ bucket' \in [Keys -> [window : Windows, count : Nat]]
        /\ bucket'[k].window = WindowStart /\ bucket'[k].count = 1
        /\ \A j \in Keys : j # k => bucket'[j] = none[j]
    BY <1>2, <2>1, <2>2, <2>4, MemoryStep
  <2>6. 0 <= WindowStart
    BY <1>3, BoundsAssumption DEF Windows
  <2>7. QuotaInv'
    <3> SUFFICES ASSUME NEW j \in Keys, NEW v \in Windows
        PROVE  passed'[j][v] + Spare(j, v)'
                 <= AtMost(row'[j][v], LimitOf(j)) + LimitOf(j) * memories'
      BY DEF QuotaInv, AtMost
    <3>1. passed'[j][v] + Left(bucket', j, v) <= passed[j][v] + LimitOf(j)
      <4>1. none[k].window <= WindowStart
        BY <2>2, <2>6
      <4>2. passed'[j][v] + Left(bucket', j, v) <= passed[j][v] + Left(none, j, v)
        BY <1>2, <2>1, <2>2, <4>1, MemoryLeaves
      <4> QED BY <2>3, <4>2
    <3>2. Spare(j, v) = 0 /\ Spare(j, v)' = Left(bucket', j, v)
      BY <2>1 DEF Spare, Left
    <3>3. passed[j][v] + Spare(j, v) <= AtMost(row[j][v], LimitOf(j)) + LimitOf(j) * memories
      BY DEF IInv, QuotaInv
    <3>4. /\ LimitOf(j) \in Nat /\ passed[j][v] \in Nat /\ passed'[j][v] \in Nat
          /\ LimitOf(j) * (memories + 1) = LimitOf(j) * memories + LimitOf(j)
          /\ LimitOf(j) * memories \in Nat
      BY <1>2, LimitType, OneMore DEF TypeOK
    <3>5. /\ AtMost(row[j][v], LimitOf(j)) \in Nat /\ AtMost(row'[j][v], LimitOf(j)) \in Nat
          /\ AtMost(row[j][v], LimitOf(j)) <= AtMost(row'[j][v], LimitOf(j))
      BY <1>4, <3>4 DEF AtMost
    <3>6. Left(bucket', j, v) \in Int
      <4>1. bucket'[j].count \in Nat
        BY <2>5
      <4> QED BY <3>4, <4>1 DEF Left, AtMost
    <3> QED BY <2>1, <3>1, <3>2, <3>3, <3>4, <3>5, <3>6
  <2>8. 1 <= made'[k][WindowStart]
    <3>1. CASE v0 = WindowStart
      <4>1. /\ row[k][v0] + Cardinality(Awaiting(k, v0)) <= made[k][v0]
            /\ Cardinality(Awaiting(k, v0)) = Cardinality(Awaiting(k, v0)') + 1
            /\ Cardinality(Awaiting(k, v0)') \in Nat /\ row[k][v0] \in Nat
        BY <1>1, <1>4, <1>6 DEF IInv, RowInv
      <4>2. made[k][v0] \in Nat /\ made' = made
        BY <1>5, <2>1, <3>1
      <4> QED BY <3>1, <4>1, <4>2
    <3>2. CASE v0 # WindowStart
      <4>1. made \in [Keys -> [Windows -> Nat]] /\ made' = Plus(made, k, WindowStart)
        BY <1>2, <2>1, <3>2 DEF TypeOK
      <4>2. made'[k][WindowStart] = made[k][WindowStart] + 1
        BY <1>3, <4>1, PlusIsOneMore
      <4> QED BY <1>3, <1>5, <4>2
    <3> QED BY <3>1, <3>2
  <2>9. BucketInv'
    <3> SUFFICES ASSUME NEW j \in Keys
        PROVE  bucket'[j].window <= WindowStart' /\ bucket'[j].count <= made'[j][bucket'[j].window]
      BY DEF BucketInv
    <3>1. CASE j = k
      <4>1. WindowStart \in Int
        BY <1>3, BoundsAssumption DEF Windows
      <4> QED BY <1>3, <2>5, <2>8, <3>1, <4>1
    <3>2. CASE j # k
      <4>1. bucket'[j].window = 0 /\ bucket'[j].count = 0 /\ 0 \in Windows
        BY <2>2, <2>5, <3>2
      <4>2. made'[j][0] \in Nat
        BY <1>5, <4>1
      <4> QED BY <1>3, <2>6, <4>1, <4>2
    <3> QED BY <3>1, <3>2
  <2>10. RefusedForCause'
    BY <1>2, <1>5, <2>1, <2>2, <2>9, MemoryCounts DEF IInv
  <2> QED BY <1>7, <2>7, <2>9, <2>10
<1> QED BY <1>8, <1>9

LEMMA RestartPreserves ==
    ASSUME IInv, Restart
    PROVE  (QuotaInv /\ RowInv /\ BucketInv /\ RefusedForCause)'
<1>1. /\ TypeOK /\ store' = Preferred /\ bucket' = [k \in Keys |-> Empty]
      /\ call' = [r \in Calls |-> Idle]
      /\ memories' = IF Preferred = "memory" THEN memories + 1 ELSE memories
      /\ UNCHANGED <<clock, row, made, passed, turned>>
  BY DEF IInv, Restart
<1>2. QuotaInv'
  <2> SUFFICES ASSUME NEW j \in Keys, NEW v \in Windows
      PROVE  passed'[j][v] + Spare(j, v)'
               <= AtMost(row'[j][v], LimitOf(j)) + LimitOf(j) * memories'
    BY DEF QuotaInv, AtMost
  <2>1. passed[j][v] + Spare(j, v) <= AtMost(row[j][v], LimitOf(j)) + LimitOf(j) * memories
    BY DEF IInv, QuotaInv
  <2>2. /\ LimitOf(j) \in Nat /\ passed[j][v] \in Nat /\ row[j][v] \in Nat
        /\ Spare(j, v) \in Nat /\ LimitOf(j) * memories \in Nat
        /\ LimitOf(j) * (memories + 1) = LimitOf(j) * memories + LimitOf(j)
    BY <1>1, LimitType, SpareType, OneMore DEF TypeOK
  <2>3. AtMost(row[j][v], LimitOf(j)) \in Nat
    BY <2>2 DEF AtMost
  <2>4. Spare(j, v)' = IF Preferred = "mongo" THEN 0 ELSE Left(bucket', j, v)
    BY <1>1 DEF Spare, Left
  <2>5. Left(bucket', j, v) = LimitOf(j)
    BY <1>1, EmptyLeaves
  <2>6. CASE Preferred = "mongo"
    BY <1>1, <2>1, <2>2, <2>3, <2>4, <2>6
  <2>7. CASE Preferred = "memory"
    BY <1>1, <2>1, <2>2, <2>3, <2>4, <2>5, <2>7
  <2> QED BY <2>6, <2>7, LimitsAssumption
<1>3. RowInv'
  <2> SUFFICES ASSUME NEW j \in Keys, NEW v \in Windows
      PROVE  /\ IsFiniteSet(Awaiting(j, v)')
             /\ row'[j][v] + Cardinality(Awaiting(j, v)') <= made'[j][v]
    BY DEF RowInv
  <2>1. Awaiting(j, v)' = {}
    BY <1>1 DEF Awaiting, Waiting, Idle
  <2>2. IsFiniteSet({}) /\ Cardinality({}) = 0
    BY FS_EmptySet
  <2>3. /\ row[j][v] + Cardinality(Awaiting(j, v)) <= made[j][v]
        /\ Cardinality(Awaiting(j, v)) \in Nat /\ row[j][v] \in Nat /\ made[j][v] \in Nat
    BY <1>1, FS_CardinalityType DEF IInv, RowInv, TypeOK
  <2> QED BY <1>1, <2>1, <2>2, <2>3
<1>4. BucketInv'
  <2> SUFFICES ASSUME NEW j \in Keys
      PROVE  bucket'[j].window <= WindowStart' /\ bucket'[j].count <= made'[j][bucket'[j].window]
    BY DEF BucketInv
  <2>1. bucket'[j].window = 0 /\ bucket'[j].count = 0
    BY <1>1, EmptyBuckets
  <2>2. /\ WindowStart' = WindowStart /\ WindowStart \in Nat /\ 0 \in Windows
    BY <1>1, WindowType, BoundsAssumption DEF WindowStart, Windows
  <2>3. made'[j][0] \in Nat
    BY <1>1, <2>2 DEF TypeOK
  <2> QED BY <2>1, <2>2, <2>3
<1>5. RefusedForCause'
  BY <1>1 DEF IInv, RefusedForCause
<1> QED BY <1>2, <1>3, <1>4, <1>5

LEMMA TickPreserves ==
    ASSUME IInv, Tick
    PROVE  (QuotaInv /\ RowInv /\ BucketInv /\ RefusedForCause)'
<1>1. /\ TypeOK /\ clock' = clock + 1
      /\ UNCHANGED <<store, row, bucket, call, made, passed, turned, memories>>
  BY DEF IInv, Tick, history
<1>2. QuotaInv' /\ RowInv' /\ RefusedForCause'
  BY <1>1 DEF IInv, QuotaInv, RowInv, RefusedForCause, Spare, Left, Awaiting, Waiting
<1>3. BucketInv'
  <2> SUFFICES ASSUME NEW j \in Keys
      PROVE  bucket[j].window <= WindowStart' /\ bucket[j].count <= made[j][bucket[j].window]
    BY <1>1 DEF BucketInv
  <2>1. clock \in Nat /\ Window \in Nat \ {0}
    BY <1>1, LimitsAssumption, BoundsAssumption DEF TypeOK
  <2>2. WindowStart <= WindowStart'
    BY <1>1, <2>1, WindowOrder DEF WindowStart
  <2>3. WindowStart \in Nat /\ WindowStart' \in Int
    <3>1. clock + 1 \in Nat
      BY <2>1
    <3>2. (clock + 1) - ((clock + 1) % Window) \in 0..(clock + 1)
      BY <2>1, <3>1, WindowOrder
    <3>3. clock - (clock % Window) \in 0..clock
      BY <2>1, WindowOrder
    <3> QED BY <1>1, <2>1, <3>2, <3>3 DEF WindowStart
  <2>4. bucket[j].window <= WindowStart /\ bucket[j].count <= made[j][bucket[j].window]
    BY DEF IInv, BucketInv
  <2>5. bucket[j].window \in Nat
    BY <1>1, BoundsAssumption DEF TypeOK, Windows
  <2> QED BY <2>2, <2>3, <2>4, <2>5
<1> QED BY <1>2, <1>3

LEMMA StepPreserves == IInv /\ [Next]_vars => IInv'
<1> SUFFICES ASSUME IInv, [Next]_vars
    PROVE  (QuotaInv /\ RowInv /\ BucketInv /\ RefusedForCause)'
  BY TypeStep DEF IInv
<1>1. ASSUME UNCHANGED vars PROVE (QuotaInv /\ RowInv /\ BucketInv /\ RefusedForCause)'
  BY <1>1 DEF IInv, QuotaInv, RowInv, BucketInv, RefusedForCause, Spare, Left, Awaiting,
              Waiting, WindowStart, vars, history
<1> QED BY <1>1, ArrivePreserves, CountPreserves, FallbackPreserves, RestartPreserves,
           TickPreserves DEF Next

LEMMA InitEstablishes == Init => IInv
<1> SUFFICES ASSUME Init PROVE QuotaInv /\ RowInv /\ BucketInv /\ RefusedForCause
  BY InitTypes DEF IInv
<1>1. /\ TypeOK /\ \A k \in Keys, w \in Windows :
           row[k][w] = 0 /\ made[k][w] = 0 /\ passed[k][w] = 0 /\ turned[k][w] = 0
  BY InitTypes DEF Init, NoneYet
<1>2. QuotaInv
  <2> SUFFICES ASSUME NEW k \in Keys, NEW w \in Windows
      PROVE  passed[k][w] + Spare(k, w) <= AtMost(row[k][w], LimitOf(k)) + LimitOf(k) * memories
    BY DEF QuotaInv
  <2>1. Left(bucket, k, w) = LimitOf(k) /\ LimitOf(k) \in Nat
    BY EmptyLeaves, LimitType DEF Init
  <2>2. CASE Preferred = "memory"
    BY <1>1, <2>1, <2>2 DEF Init, Spare, AtMost
  <2>3. CASE Preferred = "mongo"
    BY <1>1, <2>1, <2>3 DEF Init, Spare, AtMost
  <2> QED BY <2>2, <2>3, LimitsAssumption
<1>3. RowInv
  <2> SUFFICES ASSUME NEW k \in Keys, NEW w \in Windows
      PROVE  IsFiniteSet(Awaiting(k, w)) /\ row[k][w] + Cardinality(Awaiting(k, w)) <= made[k][w]
    BY DEF RowInv
  <2>1. Awaiting(k, w) = {}
    BY DEF Init, Awaiting, Waiting, Idle
  <2> QED BY <1>1, <2>1, FS_EmptySet
<1>4. BucketInv
  <2>1. WindowStart \in Nat /\ 0 \in Windows
    BY <1>1, WindowType, BoundsAssumption DEF Windows
  <2> QED BY <1>1, <2>1, EmptyBuckets DEF Init, BucketInv
<1>5. RefusedForCause
  BY <1>1 DEF RefusedForCause
<1> QED BY <1>2, <1>3, <1>4, <1>5

-----------------------------------------------------------------------------

\* Counts, windows and calls have the types that the actions presume.
THEOREM LimiterTypes == Spec => []TypeOK
BY InitTypes, TypeStep, PTL DEF Spec

\* For any limits and window, however many requests wait at once, calls fail and processes
\* die: a client gets its limit through in a window, once more for every memory store, and
\* is refused only when it has used its limit up (authService.js 36 to 110, authenticate.js).
THEOREM LimitIsKept == Spec => []LimitIsExact
<1>1. ASSUME IInv PROVE LimitHolds
  <2> SUFFICES ASSUME NEW k \in Keys, NEW w \in Windows
      PROVE  passed[k][w] <= LimitOf(k) * (1 + memories)
    BY DEF LimitHolds
  <2>1. /\ passed[k][w] + Spare(k, w) <= AtMost(row[k][w], LimitOf(k)) + LimitOf(k) * memories
        /\ passed[k][w] \in Nat /\ row[k][w] \in Nat /\ memories \in Nat /\ TypeOK
    BY <1>1 DEF IInv, QuotaInv, TypeOK
  <2>2. Spare(k, w) \in Nat /\ LimitOf(k) \in Nat
    BY <2>1, SpareType, LimitType
  <2>3. AtMost(row[k][w], LimitOf(k)) \in Nat /\ AtMost(row[k][w], LimitOf(k)) <= LimitOf(k)
    BY <2>1, <2>2 DEF AtMost
  <2>4. /\ LimitOf(k) * (memories + 1) = LimitOf(k) * memories + LimitOf(k)
        /\ LimitOf(k) * memories \in Nat /\ 1 + memories = memories + 1
    BY <2>1, <2>2, OneMore
  <2> QED BY <2>1, <2>2, <2>3, <2>4
<1>2. IInv => LimitIsExact
  BY <1>1 DEF IInv, LimitIsExact
<1> QED BY InitEstablishes, StepPreserves, <1>2, PTL DEF Spec

-----------------------------------------------------------------------------
(* The inbox *)

\* The message of the fixtures is written, and nobody has read what is not.
InboxInv ==
    /\ I!TypeOK
    /\ message[SeedMessage].stored
    /\ \A m \in Messages : ~message[m].stored => message[m].readBy = {}

MessageTypes ==
    [stored : BOOLEAN, publishAt : 0..MaxClock, roles : SUBSET Roles,
     recipient : Users \cup {Nobody}, readBy : SUBSET Users]

\* A step that writes one message.
LEMMA WritesMessage ==
    ASSUME InboxInv, NEW m \in Messages, NEW new \in MessageTypes,
           new.stored,
           message' = [message EXCEPT ![m] = new], UNCHANGED hour,
           listed' \in [Users -> SUBSET Messages], starts' \in 0..MaxRestarts
    PROVE  /\ InboxInv'
           /\ message'[m] = new /\ \A n \in Messages \ {m} : message'[n] = message[n]
<1>1. message \in [Messages -> MessageTypes] /\ hour \in 0..MaxClock
  BY DEF InboxInv, I!TypeOK, I!MessageRecord, MessageTypes
<1>2. /\ message' \in [Messages -> MessageTypes]
      /\ message'[m] = new /\ \A n \in Messages \ {m} : message'[n] = message[n]
  BY <1>1
<1>3. I!TypeOK'
  <2>1. message' \in [Messages -> I!MessageRecord']
    BY <1>2 DEF I!MessageRecord, MessageTypes
  <2> QED BY <1>1, <2>1 DEF I!TypeOK
<1> QED BY <1>2, <1>3 DEF InboxInv

\* What a step leaves of what has been read.
Kept == \A m \in Messages : \/ message[m].readBy \subseteq message'[m].readBy
                            \/ m = SeedMessage /\ starts' # starts

LEMMA InboxStep == InboxInv /\ [I!Next]_inboxVars => InboxInv' /\ Kept
<1> SUFFICES ASSUME InboxInv, [I!Next]_inboxVars PROVE InboxInv' /\ Kept
  OBVIOUS
<1>1. /\ message \in [Messages -> MessageTypes] /\ hour \in 0..MaxClock
      /\ listed \in [Users -> SUBSET Messages] /\ starts \in 0..MaxRestarts
      /\ \A m \in Messages : message[m] \in MessageTypes
      /\ MaxClock \in Nat /\ MaxRestarts \in Nat
  BY BoundsAssumption DEF InboxInv, I!TypeOK, I!MessageRecord, MessageTypes
<1>2. ASSUME NEW m \in Messages, NEW at \in 0..MaxClock, NEW roles \in SUBSET Roles,
             NEW to \in Users \cup {Nobody}, I!Create(m, at, roles, to)
      PROVE  InboxInv' /\ Kept
  <2> DEFINE new == [stored |-> TRUE, publishAt |-> at, roles |-> roles, recipient |-> to,
                     readBy |-> {}]
  <2>1. new \in MessageTypes /\ new.stored
    BY DEF MessageTypes
  <2>2. /\ message' = [message EXCEPT ![m] = new] /\ UNCHANGED <<hour, listed, starts>>
        /\ message[m].readBy = {}
    BY <1>2 DEF I!Create, InboxInv
  <2> HIDE DEF new
  <2>3. /\ InboxInv'
        /\ message'[m] = new /\ \A n \in Messages \ {m} : message'[n] = message[n]
    BY <1>1, <2>1, <2>2, WritesMessage
  <2> QED BY <2>2, <2>3 DEF Kept
<1>3. ASSUME NEW u \in Users, I!List(u) PROVE InboxInv' /\ Kept
  <2>1. /\ UNCHANGED <<hour, message, starts>>
        /\ listed' \in [Users -> SUBSET Messages]
    BY <1>1, <1>3 DEF I!List
  <2>2. I!TypeOK'
    BY <2>1 DEF InboxInv, I!TypeOK, I!MessageRecord
  <2> QED BY <2>1, <2>2 DEF InboxInv, Kept
<1>4. ASSUME NEW m \in Messages, NEW u \in Users, I!MarkRead(m, u) PROVE InboxInv' /\ Kept
  <2> DEFINE new == [message[m] EXCEPT !.readBy = @ \cup {u}]
  <2>1. message[m] \in MessageTypes /\ message[m].stored
    BY <1>1, <1>4 DEF I!MarkRead, I!Visible
  <2>2. /\ new \in MessageTypes /\ new.stored /\ message[m].readBy \subseteq new.readBy
    BY <2>1 DEF MessageTypes
  <2>3. message' = [message EXCEPT ![m] = new] /\ UNCHANGED <<hour, listed, starts>>
    BY <1>4, <2>1 DEF I!MarkRead, I!Marked, MessageTypes
  <2> HIDE DEF new
  <2>4. /\ InboxInv'
        /\ message'[m] = new /\ \A n \in Messages \ {m} : message'[n] = message[n]
    BY <1>1, <2>2, <2>3, WritesMessage
  <2> QED BY <2>2, <2>4 DEF Kept
<1>5. ASSUME I!Restart PROVE InboxInv' /\ Kept
  <2> DEFINE m == SeedMessage
             new == [message[m] EXCEPT !.publishAt = hour, !.readBy = SeedReaders]
  <2>1. m \in Messages /\ message[m] \in MessageTypes /\ message[m].stored
        /\ SeedReaders \in SUBSET Users
    BY <1>1, InboxAssumption DEF InboxInv
  <2>2. starts' = starts + 1 /\ starts' \in 0..MaxRestarts /\ starts' # starts
    BY <1>1, <1>5 DEF I!Restart
  <2>3. message' = [message EXCEPT ![m] = new] /\ UNCHANGED <<hour, listed>>
    BY <1>5, <2>1 DEF I!Restart, MessageTypes
  <2>4. new \in MessageTypes /\ new.stored
    BY <1>1, <2>1 DEF MessageTypes
  <2> HIDE DEF new
  <2>5. /\ InboxInv'
        /\ message'[m] = new /\ \A n \in Messages \ {m} : message'[n] = message[n]
    BY <1>1, <2>1, <2>2, <2>3, <2>4, WritesMessage
  <2> QED BY <2>2, <2>5 DEF Kept
<1>6. ASSUME I!Tick PROVE InboxInv' /\ Kept
  <2>1. UNCHANGED <<message, listed, starts>> /\ hour' \in 0..MaxClock
    BY <1>1, <1>6 DEF I!Tick
  <2>2. I!TypeOK'
    BY <2>1 DEF InboxInv, I!TypeOK, I!MessageRecord
  <2> QED BY <2>1, <2>2 DEF InboxInv, Kept
<1>7. ASSUME UNCHANGED inboxVars PROVE InboxInv' /\ Kept
  <2>1. UNCHANGED <<hour, message, listed, starts>>
    BY <1>7 DEF inboxVars
  <2>2. I!TypeOK'
    BY <2>1 DEF InboxInv, I!TypeOK, I!MessageRecord
  <2> QED BY <2>1, <2>2 DEF InboxInv, Kept
<1> QED BY <1>2, <1>3, <1>4, <1>5, <1>6, <1>7 DEF I!Next

LEMMA InboxInit == I!Init => InboxInv
<1> SUFFICES ASSUME I!Init PROVE InboxInv
  OBVIOUS
<1> DEFINE seeded == [I!Unwritten EXCEPT !.stored = TRUE, !.readBy = SeedReaders]
<1>1. /\ I!Unwritten \in MessageTypes /\ I!Unwritten.readBy = {}
      /\ seeded \in MessageTypes /\ seeded.stored
  <2>1. 0 \in 0..MaxClock /\ SeedReaders \in SUBSET Users /\ SeedMessage \in Messages
    BY BoundsAssumption, InboxAssumption
  <2>2. I!Unwritten \in MessageTypes /\ I!Unwritten.readBy = {}
    BY <2>1 DEF I!Unwritten, MessageTypes
  <2> QED BY <2>1, <2>2 DEF MessageTypes
<1>2. /\ hour = 0 /\ starts = 0 /\ listed = [u \in Users |-> {}]
      /\ message = [m \in Messages |-> IF m = SeedMessage THEN seeded ELSE I!Unwritten]
  BY DEF I!Init
<1> HIDE DEF seeded
<1>3. message \in [Messages -> MessageTypes]
  BY <1>1, <1>2
<1>4. I!TypeOK
  BY <1>2, <1>3, BoundsAssumption DEF I!TypeOK, I!MessageRecord, MessageTypes
<1> QED BY <1>1, <1>2, <1>4, InboxAssumption DEF InboxInv

-----------------------------------------------------------------------------
(* Favourites and the compare list *)

HandlerTypes ==
    [pc : {"idle", "finding", "storing", "stored", "removing", "removed", "listing", "joining",
           "counting", "writing"},
     service : Wares \cup {NoService}, onPage : BOOLEAN, clashed : BOOLEAN,
     found : SUBSET Wares, gone : SUBSET Wares]

\* A click is at work.
Clicks(h) == handler[h].pc \in {"finding", "storing", "stored", "removing", "removed"}

\* Of two clicks that are at work on one service each knows that it met another.  One that
\* met no other has done what it is about to tell.
HeartInv ==
    /\ \A h \in Handlers : Clicks(h) => handler[h].service \in Wares
    /\ \A h \in Handlers : \A q \in Handlers :
         h # q /\ Clicks(h) /\ Clicks(q) /\ handler[h].service = handler[q].service
           => handler[h].clashed
    /\ \A h \in Handlers : ~handler[h].clashed =>
         /\ handler[h].pc = "stored" => handler[h].service \in favorites
         /\ handler[h].pc = "removed" => handler[h].service \notin favorites
    /\ F!ToldIsSo

\* What is about to be compared is few, and was on sale but for what was withdrawn since.
CompareInv ==
    /\ \A h \in Handlers :
         /\ handler[h].pc \in {"counting", "writing"} => Cardinality(handler[h].found) <= CompareLimit
         /\ handler[h].pc = "writing" => handler[h].found \ handler[h].gone \subseteq onSale
    /\ F!ComparedWereOnSale

\* The part counts sets as everybody does.
LEMMA SameCount == ASSUME NEW S PROVE F!Cardinality(S) = Cardinality(S)
BY DEF F!Cardinality, Cardinality

LEMMA RecordIs == F!HandlerRecord = HandlerTypes
BY DEF F!HandlerRecord, HandlerTypes

LEMMA IdleHandler ==
    /\ F!Idle \in HandlerTypes
    /\ F!Idle.pc = "idle" /\ F!Idle.service = NoService /\ F!Idle.found = {}
BY DEF F!Idle, HandlerTypes

\* What a request asks to compare is no more services than it names.
LEMMA NamesAtLeast ==
    ASSUME NEW list \in Lists, Len(list) <= CompareLimit
    PROVE  /\ F!Named(list) \in SUBSET Wares
           /\ Cardinality(F!Named(list)) <= CompareLimit
<1>1. list \in Seq(Wares) /\ CompareLimit \in Nat
  BY ListsAssumption
<1>2. Len(list) \in Nat /\ DOMAIN list = 1..Len(list) /\ \A i \in 1..Len(list) : list[i] \in Wares
  BY <1>1
<1> DEFINE n == Len(list)
           names == {list[i] : i \in 1..n}
<1>3. IsFiniteSet(1..n) /\ Cardinality(1..n) = n
  BY <1>2, FS_Interval
<1>4. [i \in 1..n |-> list[i]] \in Surjection(1..n, names)
  BY DEF Surjection
<1>5. Cardinality(names) <= n /\ Cardinality(names) \in Nat
  <2>1. IsFiniteSet(names) /\ Cardinality(names) <= Cardinality(1..n)
    BY <1>3, <1>4, FS_Surjection
  <2> QED BY <1>3, <2>1, FS_CardinalityType
<1>6. Cardinality(names) <= CompareLimit
  <2> HIDE DEF names
  <2> QED BY <1>1, <1>2, <1>5
<1>7. F!Named(list) = names /\ names \in SUBSET Wares
  BY <1>2 DEF F!Named
<1> HIDE DEF names
<1> QED BY <1>6, <1>7

\* A request goes on to its next call.
LEMMA MovesOn ==
    ASSUME F!TypeOK, NEW h \in Handlers,
           NEW pc \in {"idle", "finding", "storing", "stored", "removing", "removed", "listing",
                       "joining", "counting", "writing"},
           F!Goes(h, pc)
    PROVE  /\ handler' \in [Handlers -> HandlerTypes]
           /\ handler'[h] = [handler[h] EXCEPT !.pc = pc]
           /\ handler'[h].pc = pc /\ handler'[h].service = handler[h].service
           /\ handler'[h].clashed = handler[h].clashed
           /\ handler'[h].found = handler[h].found /\ handler'[h].gone = handler[h].gone
           /\ \A q \in Handlers \ {h} : handler'[q] = handler[q]
<1>1. handler[h] \in HandlerTypes /\ handler \in [Handlers -> HandlerTypes]
  BY RecordIs DEF F!TypeOK
<1> DEFINE new == [handler[h] EXCEPT !.pc = pc]
<1>2. new \in HandlerTypes
  BY <1>1 DEF HandlerTypes
<1>3. /\ new.pc = pc /\ new.service = handler[h].service /\ new.clashed = handler[h].clashed
      /\ new.found = handler[h].found /\ new.gone = handler[h].gone
  BY <1>1 DEF HandlerTypes
<1>4. handler' = [handler EXCEPT ![h] = new]
  BY <1>1 DEF F!Goes, HandlerTypes
<1> HIDE DEF new
<1>5. /\ handler' \in [Handlers -> HandlerTypes] /\ handler'[h] = new
      /\ \A q \in Handlers \ {h} : handler'[q] = handler[q]
  BY <1>1, <1>2, <1>4
<1> QED BY <1>3, <1>5 DEF new

LEMMA Finishes ==
    ASSUME F!TypeOK, NEW h \in Handlers, F!Ends(h)
    PROVE  /\ handler' \in [Handlers -> HandlerTypes]
           /\ handler'[h] = F!Idle /\ handler'[h].pc = "idle"
           /\ \A q \in Handlers \ {h} : handler'[q] = handler[q]
<1>1. handler \in [Handlers -> HandlerTypes]
  BY RecordIs DEF F!TypeOK
<1> QED BY <1>1, IdleHandler DEF F!Ends

\* A request for a list begins, or the favourites are in its hands.
LEMMA Holds ==
    ASSUME F!TypeOK, NEW h \in Handlers, NEW new \in HandlerTypes,
           handler' = [handler EXCEPT ![h] = new]
    PROVE  /\ handler' \in [Handlers -> HandlerTypes] /\ handler'[h] = new
           /\ \A q \in Handlers \ {h} : handler'[q] = handler[q]
BY RecordIs DEF F!TypeOK

\* A click, and those it meets.
LEMMA ClickMeets ==
    ASSUME F!TypeOK, NEW h \in Handlers, NEW s \in Wares, NEW pc \in {"finding", "removing"},
           NEW onPage \in BOOLEAN, F!Clicked(h, s, pc, onPage)
    PROVE  /\ handler' \in [Handlers -> HandlerTypes]
           /\ handler'[h].pc = pc /\ handler'[h].service = s
           /\ handler'[h].clashed <=> F!Busy(s) # {}
           /\ \A q \in Handlers \ {h} :
                /\ handler'[q].pc = handler[q].pc /\ handler'[q].service = handler[q].service
                /\ handler'[q].found = handler[q].found /\ handler'[q].gone = handler[q].gone
                /\ handler'[q].clashed <=> handler[q].clashed \/ q \in F!Busy(s)
<1> DEFINE meets == F!Busy(s) # {}
           mine == [F!Idle EXCEPT !.pc = pc, !.service = s, !.onPage = onPage, !.clashed = meets]
           theirs(q) == [handler[q] EXCEPT !.clashed = @ \/ q \in F!Busy(s)]
<1>1. \A q \in Handlers : handler[q] \in HandlerTypes
  BY RecordIs DEF F!TypeOK
<1>2. handler' = [q \in Handlers |-> IF q = h THEN mine ELSE theirs(q)]
  BY DEF F!Clicked
<1>3. /\ mine \in HandlerTypes /\ mine.pc = pc /\ mine.service = s /\ mine.clashed = meets
  <2> HIDE DEF meets
  <2>1. meets \in BOOLEAN
    BY DEF meets
  <2> QED BY <2>1, IdleHandler DEF HandlerTypes
<1>4. ASSUME NEW q \in Handlers
      PROVE  /\ theirs(q) \in HandlerTypes
             /\ theirs(q).pc = handler[q].pc /\ theirs(q).service = handler[q].service
             /\ theirs(q).found = handler[q].found /\ theirs(q).gone = handler[q].gone
             /\ theirs(q).clashed <=> handler[q].clashed \/ q \in F!Busy(s)
  <2> DEFINE c == handler[q].clashed \/ q \in F!Busy(s)
  <2>1. c \in BOOLEAN /\ handler[q] \in HandlerTypes
    BY <1>1
  <2>2. theirs(q) = [handler[q] EXCEPT !.clashed = c]
    BY <2>1 DEF HandlerTypes
  <2>3. c <=> handler[q].clashed \/ q \in F!Busy(s)
    OBVIOUS
  <2> HIDE DEF c, theirs
  <2>4. /\ theirs(q) \in HandlerTypes
        /\ theirs(q).pc = handler[q].pc /\ theirs(q).service = handler[q].service
        /\ theirs(q).found = handler[q].found /\ theirs(q).gone = handler[q].gone
        /\ theirs(q).clashed = c
    BY <2>1, <2>2 DEF HandlerTypes
  <2> QED BY <2>3, <2>4
<1> HIDE DEF mine, theirs
<1>5. handler' \in [Handlers -> HandlerTypes] /\ handler'[h] = mine
      /\ \A q \in Handlers \ {h} : handler'[q] = theirs(q)
  BY <1>2, <1>3, <1>4
<1> QED BY <1>3, <1>4, <1>5 DEF meets

LEMMA TellsOne ==
    ASSUME F!TypeOK, NEW h \in Handlers, handler[h].service \in Wares,
           NEW word \in {"nothing", "added", "removed"}, F!Tell(h, word)
    PROVE  /\ told' \in [Wares -> {"nothing", "added", "removed"}]
           /\ told'[handler[h].service] = IF handler[h].clashed THEN "nothing" ELSE word
           /\ \A s \in Wares \ {handler[h].service} : told'[s] = told[s]
BY DEF F!Tell, F!TypeOK

-----------------------------------------------------------------------------
(* The heart *)

\* A click goes on: it is still at work on its service, and touches no other favourite.
LEMMA ClickGoesOn ==
    ASSUME F!TypeOK, HeartInv, NEW h \in Handlers, Clicks(h), Clicks(h)', UNCHANGED told,
           handler'[h].service = handler[h].service, handler'[h].clashed = handler[h].clashed,
           \A q \in Handlers \ {h} : handler'[q] = handler[q],
           \A s \in Wares \ {handler[h].service} : s \in favorites' <=> s \in favorites,
           handler'[h].pc = "stored" => handler[h].service \in favorites',
           handler'[h].pc = "removed" => handler[h].service \notin favorites'
    PROVE  HeartInv'
<1> DEFINE mine == handler[h].service
<1>1. mine \in Wares
  BY DEF HeartInv
<1>2. \A q \in Handlers : /\ Clicks(q)' <=> Clicks(q)
                          /\ handler'[q].service = handler[q].service
                          /\ handler'[q].clashed = handler[q].clashed
                          /\ q # h => handler'[q].pc = handler[q].pc
  BY DEF Clicks
<1>3. ASSUME NEW q \in Handlers, ~handler'[q].clashed
      PROVE  /\ handler'[q].pc = "stored" => handler'[q].service \in favorites'
             /\ handler'[q].pc = "removed" => handler'[q].service \notin favorites'
  <2>1. CASE q = h
    BY <2>1
  <2>2. CASE q # h /\ handler'[q].pc \in {"stored", "removed"}
    <3>1. Clicks(q) /\ ~handler[q].clashed /\ handler'[q].pc = handler[q].pc
      BY <1>2, <1>3, <2>2 DEF Clicks
    <3>2. handler[q].service # mine /\ handler[q].service \in Wares
      BY <2>2, <3>1 DEF HeartInv
    <3> QED BY <1>2, <1>3, <3>1, <3>2 DEF HeartInv
  <2> QED BY <2>1, <2>2
<1>4. F!ToldIsSo'
  <2> SUFFICES ASSUME NEW s \in Wares, F!Busy(s)' = {}, told'[s] # "nothing"
               PROVE  told'[s] = "added" <=> s \in favorites'
    BY DEF F!ToldIsSo
  <2>1. s # mine
    BY <1>2 DEF F!Busy, Clicks
  <2>2. F!Busy(s) = {}
    BY <1>2 DEF F!Busy, Clicks
  <2> QED BY <2>1, <2>2 DEF HeartInv, F!ToldIsSo
<1>5. \A q \in Handlers : Clicks(q)' => handler'[q].service \in Wares
  BY <1>2 DEF HeartInv
<1>6. \A p \in Handlers : \A q \in Handlers :
        p # q /\ Clicks(p)' /\ Clicks(q)' /\ handler'[p].service = handler'[q].service
          => handler'[p].clashed
  BY <1>2 DEF HeartInv
<1> QED BY <1>3, <1>4, <1>5, <1>6 DEF HeartInv

\* A click ends: what it tells is so, if it tells anything.
LEMMA ClickEnds ==
    ASSUME F!TypeOK, HeartInv, NEW h \in Handlers, Clicks(h), ~Clicks(h)', UNCHANGED favorites,
           \A q \in Handlers \ {h} : handler'[q] = handler[q],
           \A s \in Wares \ {handler[h].service} : told'[s] = told[s],
           told'[handler[h].service] # "nothing" =>
             (told'[handler[h].service] = "added" <=> handler[h].service \in favorites)
    PROVE  HeartInv'
<1>1. \A q \in Handlers : Clicks(q)' => /\ Clicks(q) /\ q # h /\ handler'[q] = handler[q]
  BY DEF Clicks
<1>2. F!ToldIsSo'
  <2> SUFFICES ASSUME NEW s \in Wares, F!Busy(s)' = {}, told'[s] # "nothing"
               PROVE  told'[s] = "added" <=> s \in favorites
    BY DEF F!ToldIsSo
  <2>1. CASE s = handler[h].service
    BY <2>1
  <2>2. CASE s # handler[h].service
    <3>1. F!Busy(s) = {}
      BY <2>2 DEF F!Busy
    <3> QED BY <2>2, <3>1 DEF HeartInv, F!ToldIsSo
  <2> QED BY <2>1, <2>2
<1>3. ASSUME NEW q \in Handlers, ~handler'[q].clashed
      PROVE  /\ handler'[q].pc = "stored" => handler'[q].service \in favorites
             /\ handler'[q].pc = "removed" => handler'[q].service \notin favorites
  BY <1>1, <1>3 DEF HeartInv, Clicks
<1> QED BY <1>1, <1>2, <1>3 DEF HeartInv

\* A click begins.
LEMMA ClickBegins ==
    ASSUME F!TypeOK, HeartInv, NEW h \in Handlers, NEW s \in Wares,
           NEW pc \in {"finding", "removing"}, NEW onPage \in BOOLEAN,
           handler[h].pc = "idle", F!Clicked(h, s, pc, onPage),
           UNCHANGED <<favorites, told>>
    PROVE  HeartInv'
<1>1. /\ handler'[h].pc = pc /\ handler'[h].service = s
      /\ handler'[h].clashed <=> F!Busy(s) # {}
      /\ \A q \in Handlers \ {h} :
           /\ handler'[q].pc = handler[q].pc /\ handler'[q].service = handler[q].service
           /\ handler'[q].clashed <=> handler[q].clashed \/ q \in F!Busy(s)
  BY ClickMeets
<1>2. Clicks(h)' /\ ~Clicks(h) /\ \A q \in Handlers \ {h} : Clicks(q)' <=> Clicks(q)
  BY <1>1 DEF Clicks
<1>3. \A q \in Handlers : Clicks(q)' => handler'[q].service \in Wares
  BY <1>1, <1>2 DEF HeartInv
<1>4. \A q \in Handlers : q \in F!Busy(s) <=> Clicks(q) /\ handler[q].service = s
  BY DEF F!Busy, Clicks
<1>5. ASSUME NEW p \in Handlers, NEW q \in Handlers,
             p # q, Clicks(p)', Clicks(q)', handler'[p].service = handler'[q].service
      PROVE  handler'[p].clashed
  <2>1. CASE p = h
    BY <1>1, <1>2, <1>4, <1>5, <2>1
  <2>2. CASE q = h
    BY <1>1, <1>2, <1>4, <1>5, <2>2
  <2>3. CASE p # h /\ q # h
    BY <1>1, <1>2, <1>5, <2>3 DEF HeartInv
  <2> QED BY <2>1, <2>2, <2>3
<1>6. ASSUME NEW q \in Handlers, ~handler'[q].clashed
      PROVE  /\ handler'[q].pc = "stored" => handler'[q].service \in favorites
             /\ handler'[q].pc = "removed" => handler'[q].service \notin favorites
  BY <1>1, <1>6 DEF HeartInv
<1>7. F!ToldIsSo'
  <2> SUFFICES ASSUME NEW t \in Wares, F!Busy(t)' = {}, told[t] # "nothing"
               PROVE  told[t] = "added" <=> t \in favorites
    BY DEF F!ToldIsSo
  <2>1. F!Busy(t) = {}
    BY <1>1, <1>2 DEF F!Busy, Clicks
  <2> QED BY <2>1 DEF HeartInv, F!ToldIsSo
<1> QED BY <1>3, <1>5, <1>6, <1>7 DEF HeartInv

\* Everything else leaves the clicks alone.
LEMMA HeartRests ==
    ASSUME HeartInv, UNCHANGED <<favorites, told>>,
           \A q \in Handlers :
             \/ handler'[q].pc = handler[q].pc /\ handler'[q].service = handler[q].service
                /\ handler'[q].clashed = handler[q].clashed
             \/ ~Clicks(q) /\ ~Clicks(q)'
    PROVE  HeartInv'
<1>1. \A q \in Handlers : /\ Clicks(q)' <=> Clicks(q)
                          /\ Clicks(q)' => /\ handler'[q].pc = handler[q].pc
                                           /\ handler'[q].service = handler[q].service
                                           /\ handler'[q].clashed = handler[q].clashed
  BY DEF Clicks
<1>2. ASSUME NEW q \in Handlers, ~handler'[q].clashed
      PROVE  /\ handler'[q].pc = "stored" => handler'[q].service \in favorites
             /\ handler'[q].pc = "removed" => handler'[q].service \notin favorites
  <2>1. handler'[q].pc \in {"stored", "removed"} => Clicks(q)'
    BY DEF Clicks
  <2> QED BY <1>1, <1>2, <2>1 DEF HeartInv
<1>3. F!ToldIsSo'
  <2> SUFFICES ASSUME NEW s \in Wares, F!Busy(s)' = {}, told[s] # "nothing"
               PROVE  told[s] = "added" <=> s \in favorites
    BY DEF F!ToldIsSo
  <2>1. F!Busy(s) = {}
    BY <1>1 DEF F!Busy, Clicks
  <2> QED BY <2>1 DEF HeartInv, F!ToldIsSo
<1>4. \A p \in Handlers : \A q \in Handlers :
        p # q /\ Clicks(p)' /\ Clicks(q)' /\ handler'[p].service = handler'[q].service
          => handler'[p].clashed
  BY <1>1 DEF HeartInv
<1>5. \A q \in Handlers : Clicks(q)' => handler'[q].service \in Wares
  BY <1>1 DEF HeartInv
<1> QED BY <1>2, <1>3, <1>4, <1>5 DEF HeartInv

-----------------------------------------------------------------------------
(* The compare list *)

\* Steps of other requests than the one for the compare list.
LEMMA CompareRests ==
    ASSUME CompareInv, UNCHANGED <<onSale, compareList, withdrawn>>,
           \A q \in Handlers :
             \/ handler'[q].pc = handler[q].pc /\ handler'[q].found = handler[q].found
                /\ handler'[q].gone = handler[q].gone
             \/ handler'[q].pc \notin {"counting", "writing"}
    PROVE  CompareInv'
<1>1. F!ComparedWereOnSale'
  BY DEF CompareInv, F!ComparedWereOnSale
<1> QED BY <1>1 DEF CompareInv

ListsInv == F!TypeOK /\ HeartInv /\ CompareInv

\* A fault is counted up to the bound, and so is an edit.
LEMMA ListCounts ==
    ASSUME F!TypeOK
    PROVE  /\ lost < MaxFaults /\ lost' = lost + 1 => lost' \in 0..MaxFaults
           /\ changes < MaxEdits /\ changes' = changes + 1 => changes' \in 0..MaxEdits
BY BoundsAssumption, ReviewsAssumption DEF F!TypeOK

\* The types after a step: what a step of a request must leave right.
LEMMA ListTypes ==
    ASSUME F!TypeOK, UNCHANGED <<onSale, changes>>,
           handler' \in [Handlers -> HandlerTypes],
           UNCHANGED lost \/ (lost < MaxFaults /\ lost' = lost + 1),
           favorites' \subseteq Wares, compareList' \subseteq Wares, shown' \subseteq Wares,
           withdrawn' \subseteq Wares, told' \in [Wares -> {"nothing", "added", "removed"}]
    PROVE  F!TypeOK'
<1>1. lost' \in 0..MaxFaults
  BY ListCounts DEF F!TypeOK
<1>2. handler' \in [Handlers -> F!HandlerRecord']
  BY DEF F!HandlerRecord, HandlerTypes
<1> QED BY <1>1, <1>2 DEF F!TypeOK

LEMMA PressLists ==
    ASSUME ListsInv, NEW h \in Handlers, NEW s \in Wares, F!Press(h, s) \/ F!Drop(h, s)
    PROVE  ListsInv'
<1>1. PICK pc \in {"finding", "removing"} : \E onPage \in BOOLEAN : F!Clicked(h, s, pc, onPage)
  BY DEF F!Press, F!Drop
<1>2. PICK onPage \in BOOLEAN : F!Clicked(h, s, pc, onPage)
  BY <1>1
<1>3. /\ handler[h].pc = "idle"
      /\ UNCHANGED <<onSale, favorites, compareList, shown, changes, lost, told, withdrawn>>
  BY DEF F!Press, F!Drop, F!history
<1>4. F!TypeOK /\ HeartInv /\ CompareInv
  BY DEF ListsInv
<1>5. HeartInv'
  BY <1>2, <1>3, <1>4, ClickBegins
<1>6. /\ handler' \in [Handlers -> HandlerTypes] /\ handler'[h].pc = pc
      /\ \A q \in Handlers \ {h} :
           /\ handler'[q].pc = handler[q].pc
           /\ handler'[q].found = handler[q].found /\ handler'[q].gone = handler[q].gone
  BY <1>2, <1>4, ClickMeets
<1>7. CompareInv'
  BY <1>3, <1>4, <1>6, CompareRests
<1>8. F!TypeOK'
  BY <1>3, <1>4, <1>6, ListTypes DEF F!TypeOK
<1> QED BY <1>5, <1>7, <1>8 DEF ListsInv

\* A click that looks for its service, stores, fails or removes.
LEMMA ClickLists ==
    ASSUME ListsInv, NEW h \in Handlers, F!Find(h) \/ F!Store(h) \/ F!AddFails(h) \/ F!Remove(h)
    PROVE  ListsInv'
<1> DEFINE s == handler[h].service
<1>1. F!TypeOK /\ HeartInv /\ CompareInv /\ Clicks(h) /\ s \in Wares
  BY DEF ListsInv, HeartInv, Clicks, F!Find, F!Store, F!AddFails, F!Remove
<1>2. PICK pc \in {"storing", "stored", "removing", "removed"} :
        /\ F!Goes(h, pc)
        /\ pc = "stored" => s \in favorites'
        /\ pc = "removed" => s \notin favorites'
        /\ \A t \in Wares \ {s} : t \in favorites' <=> t \in favorites
        /\ favorites' \subseteq Wares
  <2>1. CASE F!Find(h)
    BY <1>1, <2>1 DEF F!Find, F!TypeOK
  <2>2. CASE F!Store(h)
    BY <1>1, <2>2 DEF F!Store, F!TypeOK
  <2>3. CASE F!AddFails(h)
    BY <1>1, <2>3 DEF F!AddFails, F!TypeOK
  <2>4. CASE F!Remove(h)
    BY <1>1, <2>4 DEF F!Remove, F!Without, F!TypeOK
  <2> QED BY <2>1, <2>2, <2>3, <2>4
<1>3. /\ UNCHANGED <<onSale, compareList, shown, changes, told, withdrawn>>
      /\ UNCHANGED lost \/ (lost < MaxFaults /\ lost' = lost + 1)
  BY DEF F!Find, F!Store, F!AddFails, F!Remove, F!history
<1>4. /\ handler' \in [Handlers -> HandlerTypes]
      /\ handler'[h].pc = pc /\ handler'[h].service = s
      /\ handler'[h].clashed = handler[h].clashed
      /\ \A q \in Handlers \ {h} : handler'[q] = handler[q]
  BY <1>1, <1>2, MovesOn
<1>5. Clicks(h)'
  BY <1>4 DEF Clicks
<1>6. HeartInv'
  BY <1>1, <1>2, <1>3, <1>4, <1>5, ClickGoesOn
<1>7. CompareInv'
  BY <1>1, <1>3, <1>4, CompareRests
<1>8. F!TypeOK'
  BY <1>1, <1>2, <1>3, <1>4, ListTypes DEF F!TypeOK
<1> QED BY <1>6, <1>7, <1>8 DEF ListsInv

\* A click ends with words or without.
LEMMA TellLists ==
    ASSUME ListsInv, NEW h \in Handlers, F!Added(h) \/ F!Removed(h) \/ F!RemoveFails(h)
    PROVE  ListsInv'
<1> DEFINE s == handler[h].service
<1>1. F!TypeOK /\ HeartInv /\ CompareInv /\ Clicks(h) /\ s \in Wares
  BY DEF ListsInv, HeartInv, Clicks, F!Added, F!Removed, F!RemoveFails
<1>2. PICK word \in {"nothing", "added", "removed"} :
        /\ F!Tell(h, word)
        /\ word = "added" /\ ~handler[h].clashed => s \in favorites
        /\ word = "removed" /\ ~handler[h].clashed => s \notin favorites
  BY <1>1 DEF HeartInv, F!Added, F!Removed, F!RemoveFails
<1>3. /\ UNCHANGED <<onSale, favorites, compareList, shown, changes, withdrawn>>
      /\ UNCHANGED lost \/ (lost < MaxFaults /\ lost' = lost + 1)
  BY DEF F!Added, F!Removed, F!RemoveFails
<1>4. /\ handler' \in [Handlers -> HandlerTypes] /\ handler'[h].pc \in {"idle", "listing"}
      /\ \A q \in Handlers \ {h} : handler'[q] = handler[q]
  <2>1. CASE F!Ends(h)
    BY <1>1, <2>1, Finishes
  <2>2. CASE F!Goes(h, "listing")
    BY <1>1, <2>2, MovesOn
  <2> QED BY <2>1, <2>2 DEF F!Added, F!Removed, F!RemoveFails
<1>5. /\ told' \in [Wares -> {"nothing", "added", "removed"}]
      /\ told'[s] = IF handler[h].clashed THEN "nothing" ELSE word
      /\ \A t \in Wares \ {s} : told'[t] = told[t]
  BY <1>1, <1>2, TellsOne
<1>6. told'[s] # "nothing" => (told'[s] = "added" <=> s \in favorites)
  BY <1>2, <1>5
<1>7. ~Clicks(h)'
  BY <1>4 DEF Clicks
<1>8. HeartInv'
  BY <1>1, <1>3, <1>4, <1>5, <1>6, <1>7, ClickEnds
<1>9. CompareInv'
  BY <1>1, <1>3, <1>4, CompareRests
<1>10. F!TypeOK'
  BY <1>1, <1>3, <1>4, <1>5, ListTypes DEF F!TypeOK
<1> QED BY <1>8, <1>9, <1>10 DEF ListsInv

\* The favourites page asks for its list.
LEMMA PageLists ==
    ASSUME ListsInv, NEW h \in Handlers, F!Open(h) \/ F!List(h) \/ F!Join(h)
    PROVE  ListsInv'
<1>1. F!TypeOK /\ HeartInv /\ CompareInv /\ ~Clicks(h)
  BY DEF ListsInv, Clicks, F!Open, F!List, F!Join
<1>2. /\ UNCHANGED <<onSale, favorites, compareList, changes, lost, told, withdrawn>>
      /\ shown' \subseteq Wares
  BY <1>1 DEF F!Open, F!List, F!Join, F!history, F!TypeOK
<1>3. /\ handler' \in [Handlers -> HandlerTypes]
      /\ handler'[h].pc \in {"idle", "listing", "joining"}
      /\ \A q \in Handlers \ {h} : handler'[q] = handler[q]
  <2>1. CASE F!Open(h)
    BY <1>1, <2>1, MovesOn DEF F!Open
  <2>2. CASE F!List(h)
    <3> DEFINE new == [handler[h] EXCEPT !.pc = "joining", !.found = favorites]
    <3>1. handler[h] \in HandlerTypes /\ favorites \in SUBSET Wares
      BY <1>1, RecordIs DEF F!TypeOK
    <3>2. new \in HandlerTypes /\ new.pc = "joining"
      BY <3>1 DEF HandlerTypes
    <3>3. handler' = [handler EXCEPT ![h] = new]
      BY <2>2, <3>1 DEF F!List, HandlerTypes
    <3> HIDE DEF new
    <3> QED BY <1>1, <3>2, <3>3, Holds
  <2>3. CASE F!Join(h)
    BY <1>1, <2>3, Finishes DEF F!Join
  <2> QED BY <2>1, <2>2, <2>3
<1>4. ~Clicks(h)'
  BY <1>3 DEF Clicks
<1>5. HeartInv'
  BY <1>1, <1>2, <1>3, <1>4, HeartRests
<1>6. CompareInv'
  BY <1>1, <1>2, <1>3, CompareRests
<1>7. F!TypeOK'
  BY <1>1, <1>2, <1>3, ListTypes DEF F!TypeOK
<1> QED BY <1>5, <1>6, <1>7 DEF ListsInv

\* A compare list is asked for, counted, written, or refused.
LEMMA CompareLists ==
    ASSUME ListsInv, NEW h \in Handlers,
           \/ \E list \in Lists : F!SetCompare(h, list)
           \/ F!Count(h) \/ F!Write(h) \/ F!Fails(h)
    PROVE  ListsInv'
<1>1. F!TypeOK /\ HeartInv /\ CompareInv /\ ~Clicks(h)
  BY DEF ListsInv, Clicks, F!SetCompare, F!Count, F!Write, F!Fails
<1>2. /\ UNCHANGED <<onSale, favorites, shown, changes, told>>
      /\ UNCHANGED lost \/ (lost < MaxFaults /\ lost' = lost + 1)
  BY DEF F!SetCompare, F!Count, F!Write, F!Fails, F!history
<1>3. handler[h] \in HandlerTypes
  BY <1>1, RecordIs DEF F!TypeOK
<1>4. /\ handler' \in [Handlers -> HandlerTypes]
      /\ handler'[h].pc \in {"idle", "counting", "writing"}
      /\ \A q \in Handlers \ {h} : handler'[q] = handler[q]
      /\ handler'[h].pc \in {"counting", "writing"} =>
           Cardinality(handler'[h].found) <= CompareLimit
      /\ handler'[h].pc = "writing" => handler'[h].found \ handler'[h].gone \subseteq onSale
  <2>1. ASSUME F!Ends(h)
        PROVE  /\ handler' \in [Handlers -> HandlerTypes] /\ handler'[h].pc = "idle"
               /\ \A q \in Handlers \ {h} : handler'[q] = handler[q]
    BY <1>1, <2>1, Finishes
  <2>2. ASSUME NEW list \in Lists, F!SetCompare(h, list)
        PROVE  /\ handler' \in [Handlers -> HandlerTypes] /\ handler'[h].pc = "counting"
               /\ \A q \in Handlers \ {h} : handler'[q] = handler[q]
               /\ Cardinality(handler'[h].found) <= CompareLimit
    <3> DEFINE ids == F!Named(list)
               new == [F!Idle EXCEPT !.pc = "counting", !.found = ids]
    <3>1. ids \in SUBSET Wares /\ Cardinality(ids) <= CompareLimit
      BY <2>2, NamesAtLeast DEF F!SetCompare
    <3>2. handler' = [handler EXCEPT ![h] = new]
      BY <2>2 DEF F!SetCompare
    <3> HIDE DEF ids
    <3>3. new \in HandlerTypes /\ new.pc = "counting" /\ new.found = ids
      BY <3>1, IdleHandler DEF HandlerTypes
    <3> HIDE DEF new
    <3> QED BY <1>1, <3>1, <3>2, <3>3, Holds
  <2>3. ASSUME F!Count(h), F!Goes(h, "writing")
        PROVE  /\ handler' \in [Handlers -> HandlerTypes] /\ handler'[h].pc = "writing"
               /\ \A q \in Handlers \ {h} : handler'[q] = handler[q]
               /\ handler'[h].found = handler[h].found
    BY <1>1, <2>3, MovesOn
  <2>4. CASE \E list \in Lists : F!SetCompare(h, list)
    BY <2>2, <2>4
  <2>5. CASE F!Count(h) /\ handler[h].found \subseteq onSale
    <3>1. Cardinality(handler[h].found) <= CompareLimit /\ F!Goes(h, "writing")
      BY <1>1, <2>5 DEF CompareInv, F!Count
    <3> QED BY <2>3, <2>5, <3>1
  <2>6. CASE F!Count(h) /\ ~(handler[h].found \subseteq onSale)
    BY <2>1, <2>6 DEF F!Count
  <2>7. CASE F!Write(h) \/ F!Fails(h)
    BY <2>1, <2>7 DEF F!Write, F!Fails
  <2> QED BY <2>4, <2>5, <2>6, <2>7
<1>5. /\ UNCHANGED <<compareList, withdrawn>>
      \/ /\ compareList' = handler[h].found /\ withdrawn' = handler[h].gone
         /\ handler[h].pc = "writing"
  BY DEF F!SetCompare, F!Count, F!Write, F!Fails, F!history
<1>6. CompareInv'
  <2>1. F!ComparedWereOnSale'
    <3>1. CASE UNCHANGED <<compareList, withdrawn>>
      BY <1>1, <1>2, <3>1 DEF CompareInv, F!ComparedWereOnSale
    <3>2. CASE /\ compareList' = handler[h].found /\ withdrawn' = handler[h].gone
               /\ handler[h].pc = "writing"
      <4>1. /\ Cardinality(handler[h].found) <= CompareLimit
            /\ handler[h].found \ handler[h].gone \subseteq onSale
        BY <1>1, <3>2 DEF CompareInv
      <4> QED BY <1>2, <3>2, <4>1, SameCount DEF F!ComparedWereOnSale
    <3> QED BY <1>5, <3>1, <3>2
  <2>2. ASSUME NEW q \in Handlers
        PROVE  /\ handler'[q].pc \in {"counting", "writing"} =>
                    Cardinality(handler'[q].found) <= CompareLimit
               /\ handler'[q].pc = "writing" => handler'[q].found \ handler'[q].gone \subseteq onSale
    BY <1>1, <1>4 DEF CompareInv
  <2> QED BY <1>2, <2>1, <2>2 DEF CompareInv
<1>7. ~Clicks(h)'
  BY <1>4 DEF Clicks
<1>8. HeartInv'
  BY <1>1, <1>2, <1>4, <1>7, HeartRests
<1>9. compareList' \subseteq Wares /\ withdrawn' \subseteq Wares
  BY <1>1, <1>3, <1>5 DEF F!TypeOK, HandlerTypes
<1>10. F!TypeOK'
  BY <1>1, <1>2, <1>4, <1>9, ListTypes DEF F!TypeOK
<1> QED BY <1>6, <1>8, <1>10 DEF ListsInv

\* A service goes on sale or off.
LEMMA EditLists ==
    ASSUME ListsInv, NEW s \in Wares, F!Edit(s)
    PROVE  ListsInv'
<1>1. F!TypeOK /\ HeartInv /\ CompareInv /\ handler \in [Handlers -> HandlerTypes]
  BY RecordIs DEF ListsInv, F!TypeOK
<1>2. UNCHANGED <<favorites, compareList, shown, lost, told>> /\ changes' \in 0..MaxEdits
  BY <1>1, ListCounts DEF F!Edit
<1>3. CASE s \in onSale
  <2> DEFINE late(q) == [handler[q] EXCEPT !.gone = @ \cup {s}]
  <2>1. /\ onSale' = onSale \ {s} /\ withdrawn' = withdrawn \cup {s}
        /\ handler' = [q \in Handlers |-> IF handler[q].pc = "writing" THEN late(q) ELSE handler[q]]
    BY <1>3 DEF F!Edit
  <2>2. ASSUME NEW q \in Handlers
        PROVE  /\ late(q) \in HandlerTypes /\ late(q).pc = handler[q].pc
               /\ late(q).service = handler[q].service /\ late(q).clashed = handler[q].clashed
               /\ late(q).found = handler[q].found /\ late(q).gone = handler[q].gone \cup {s}
    <3>1. handler[q] \in HandlerTypes
      BY <1>1
    <3> QED BY <3>1 DEF HandlerTypes
  <2> HIDE DEF late
  <2>3. /\ handler' \in [Handlers -> HandlerTypes]
        /\ \A q \in Handlers :
             /\ handler'[q].pc = handler[q].pc /\ handler'[q].service = handler[q].service
             /\ handler'[q].clashed = handler[q].clashed
             /\ handler'[q].found = handler[q].found
             /\ handler[q].pc = "writing" => handler'[q].gone = handler[q].gone \cup {s}
    BY <1>1, <2>1, <2>2
  <2>4. HeartInv'
    BY <1>1, <1>2, <2>3, HeartRests
  <2>5. CompareInv'
    <3>1. F!ComparedWereOnSale'
      BY <1>1, <1>2, <2>1 DEF CompareInv, F!ComparedWereOnSale
    <3>2. ASSUME NEW q \in Handlers, handler'[q].pc = "writing"
          PROVE  handler'[q].found \ handler'[q].gone \subseteq onSale'
      <4>1. handler[q].found \ handler[q].gone \subseteq onSale
        BY <1>1, <2>3, <3>2 DEF CompareInv
      <4>2. handler'[q].found = handler[q].found /\ handler'[q].gone = handler[q].gone \cup {s}
        BY <2>3, <3>2
      <4> QED BY <2>1, <4>1, <4>2
    <3> QED BY <1>1, <2>3, <3>1, <3>2 DEF CompareInv
  <2>6. F!TypeOK'
    <3>1. handler' \in [Handlers -> F!HandlerRecord']
      BY <2>3 DEF F!HandlerRecord, HandlerTypes
    <3> QED BY <1>1, <1>2, <2>1, <3>1 DEF F!TypeOK
  <2> QED BY <2>4, <2>5, <2>6 DEF ListsInv
<1>4. CASE s \notin onSale
  <2>1. onSale' = onSale \cup {s} /\ UNCHANGED <<withdrawn, handler>>
    BY <1>4 DEF F!Edit
  <2>2. HeartInv'
    BY <1>1, <1>2, <2>1, HeartRests
  <2>3. CompareInv'
    BY <1>1, <1>2, <2>1 DEF CompareInv, F!ComparedWereOnSale
  <2>4. F!TypeOK'
    <3>1. handler' \in [Handlers -> F!HandlerRecord']
      BY <1>1, <2>1 DEF F!HandlerRecord, HandlerTypes
    <3> QED BY <1>1, <1>2, <2>1, <3>1 DEF F!TypeOK
  <2> QED BY <2>2, <2>3, <2>4 DEF ListsInv
<1> QED BY <1>3, <1>4

LEMMA ListsNext == ListsInv /\ [F!Next]_listVars => ListsInv'
<1> SUFFICES ASSUME ListsInv, [F!Next]_listVars PROVE ListsInv'
  OBVIOUS
<1>1. ASSUME UNCHANGED listVars PROVE ListsInv'
  <2>1. UNCHANGED <<onSale, favorites, compareList, handler, shown, changes, lost, told, withdrawn>>
    BY <1>1 DEF listVars
  <2>2. HeartInv'
    BY <2>1, HeartRests DEF ListsInv
  <2>3. CompareInv'
    BY <2>1, CompareRests DEF ListsInv
  <2>4. F!TypeOK'
    BY <2>1, ListTypes, RecordIs DEF ListsInv, F!TypeOK
  <2> QED BY <2>2, <2>3, <2>4 DEF ListsInv
<1> QED BY <1>1, PressLists, ClickLists, TellLists, PageLists, CompareLists, EditLists DEF F!Next

LEMMA ListsInit == F!Init => ListsInv
<1> SUFFICES ASSUME F!Init PROVE ListsInv
  OBVIOUS
<1>1. /\ onSale = Wares /\ favorites = {} /\ compareList = {} /\ shown = {}
      /\ handler = [h \in Handlers |-> F!Idle]
      /\ changes = 0 /\ lost = 0
      /\ told = [s \in Wares |-> "nothing"] /\ withdrawn = {}
  BY DEF F!Init
<1>2. 0 \in 0..MaxEdits /\ 0 \in 0..MaxFaults /\ CompareLimit \in Nat
  BY BoundsAssumption, ReviewsAssumption, ListsAssumption
<1>3. \A h \in Handlers : handler[h] = F!Idle /\ handler[h].pc = "idle"
  BY <1>1, IdleHandler
<1>4. F!TypeOK
  BY <1>1, <1>2, IdleHandler, RecordIs DEF F!TypeOK
<1>5. HeartInv
  BY <1>1, <1>3 DEF HeartInv, Clicks, F!ToldIsSo
<1>6. CompareInv
  <2>1. Cardinality({}) = 0
    BY FS_EmptySet
  <2>2. Cardinality(compareList) <= CompareLimit /\ compareList \ onSale \subseteq withdrawn
    BY <1>1, <1>2, <2>1
  <2> QED BY <1>3, <2>2, SameCount DEF CompareInv, F!ComparedWereOnSale
<1> QED BY <1>4, <1>5, <1>6 DEF ListsInv

-----------------------------------------------------------------------------
(* Accounts and reviews: what their own modules prove of them.  Their definitions are   *)
(* the same here and there, up to the instance they are read through.                   *)

AP == INSTANCE AccountProofs WITH clock <- now, faults <- broken
RP == INSTANCE ReviewProofs WITH clock <- day

LEMMA AccountsInitIsTheirs == A!Init <=> AP!Init
BY DEF A!Init, AP!Init, A!NoAttempt, AP!NoAttempt, A!NoToken, AP!NoToken, A!Idle, AP!Idle,
       A!Tokens, AP!Tokens

LEMMA AccountsNextIsTheirs == A!Next <=> AP!Next
BY DEF A!Next, A!Register, A!LoginCheck, A!Compare, A!FailRead, A!FailWrite, A!Clear, A!Issue,
       A!RefreshFind, A!RotateRevoke, A!Logout, A!Dies, A!Tick,
       A!Idle, A!history, A!Goes, A!Ends, A!Issued, A!Tokens, A!NoToken, A!NoAttempt, A!Locked,
       A!Recent, A!Extended, A!MixedNow, A!Rotating, A!Live, A!Revoked, A!Cardinality,
       AP!Next, AP!Register, AP!LoginCheck, AP!Compare, AP!FailRead, AP!FailWrite, AP!Clear,
       AP!Issue, AP!RefreshFind, AP!RotateRevoke, AP!Logout, AP!Dies, AP!Tick,
       AP!Idle, AP!history, AP!Goes, AP!Ends, AP!Issued, AP!Tokens, AP!NoToken, AP!NoAttempt,
       AP!Locked, AP!Recent, AP!Extended, AP!MixedNow, AP!Rotating, AP!Live, AP!Revoked,
       AP!Cardinality

LEMMA AccountsPromiseTheSame ==
    /\ A!LockoutIsExact <=> AP!LockoutIsExact
    /\ A!SessionsEnd <=> AP!SessionsEnd
    /\ A!TypeOK <=> AP!TypeOK
<1>1. A!LockoutIsExact <=> AP!LockoutIsExact
  BY DEF A!LockoutIsExact, A!LockIsEarned, A!FailuresAllCount, A!GuessesAreFew, A!Cardinality,
         AP!LockoutIsExact, AP!LockIsEarned, AP!FailuresAllCount, AP!GuessesAreFew, AP!Cardinality
<1>2. A!SessionsEnd <=> AP!SessionsEnd
  BY DEF A!SessionsEnd, A!OneLiveToken, A!LogoutEnds, A!Issued, A!Tokens, A!NoToken, A!Live,
         A!Cardinality, AP!SessionsEnd, AP!OneLiveToken, AP!LogoutEnds, AP!Issued, AP!Tokens,
         AP!NoToken, AP!Live, AP!Cardinality
<1>3. A!TypeOK <=> AP!TypeOK
  BY DEF A!TypeOK, A!AttemptRecord, A!TokenRecord, A!RequestRecord, A!Guesses, A!Tokens,
         AP!TypeOK, AP!AttemptRecord, AP!TokenRecord, AP!RequestRecord, AP!Guesses, AP!Tokens
<1> QED BY <1>1, <1>2, <1>3

LEMMA ReviewsInitIsTheirs == R!Init <=> RP!Init
BY DEF R!Init, R!Reviewing, R!NoReview, RP!Init, RP!Reviewing, RP!NoReview

LEMMA ReviewsNextIsTheirs == R!Next <=> RP!Next
BY DEF R!Next, R!Submit, R!GatherServices, R!InsertReview, R!Refuse, R!Moderate, R!Ask,
       R!PublishQuestion, R!RejectQuestion, R!Complete, R!EditBundle, R!Toggle, R!Restart, R!Tick,
       R!Reviewing, R!LocalDay, R!InWindow, R!StoredFor, R!IndexAllows, R!StatusOf, R!Reopened,
       RP!Next, RP!Submit, RP!GatherServices, RP!InsertReview, RP!Refuse, RP!Moderate, RP!Ask,
       RP!PublishQuestion, RP!RejectQuestion, RP!Complete, RP!EditBundle, RP!Toggle, RP!Restart,
       RP!Tick, RP!Reviewing, RP!LocalDay, RP!InWindow, RP!StoredFor, RP!IndexAllows, RP!StatusOf,
       RP!Reopened

LEMMA ReviewsPromiseTheSame ==
    /\ R!OnlyVettedShows <=> RP!OnlyVettedShows
    /\ R!TypeOK <=> RP!TypeOK
<1>1. R!OnlyVettedShows <=> RP!OnlyVettedShows
  BY DEF R!OnlyVettedShows, R!Shown, R!Reviewing, R!Verified, R!StoredFor, R!Answered,
         RP!OnlyVettedShows, RP!Shown, RP!Reviewing, RP!Verified, RP!StoredFor, RP!Answered
<1>2. R!TypeOK <=> RP!TypeOK
  BY DEF R!TypeOK, R!Reviewing, R!ReviewRecord, R!QuestionRecord,
         RP!TypeOK, RP!Reviewing, RP!ReviewRecord, RP!QuestionRecord
<1> QED BY <1>1, <1>2

-----------------------------------------------------------------------------
(* The server *)

\* A step of the server is one of a part, or leaves the part alone.
LEMMA PartSteps ==
    ASSUME [ServerNext]_serverVars
    PROVE  /\ [Next]_vars
           /\ [AP!Next]_AP!vars /\ [RP!Next]_RP!vars
           /\ [I!Next]_inboxVars /\ [F!Next]_listVars
<1>1. \/ LimiterMoves \/ AccountsMove \/ ReviewsMove \/ InboxMoves \/ ListsMove
      \/ UNCHANGED serverVars
  BY DEF ServerNext
<1>2. /\ UNCHANGED accountVars => UNCHANGED AP!vars
      /\ UNCHANGED reviewVars => UNCHANGED RP!vars
  BY DEF AP!vars, AP!history, RP!vars, accountVars, reviewVars
<1> QED BY <1>1, <1>2, AccountsNextIsTheirs, ReviewsNextIsTheirs
        DEF LimiterMoves, AccountsMove, ReviewsMove, InboxMoves, ListsMove, serverVars

LEMMA PartSpecs ==
    ServerSpec => /\ Spec /\ AP!Spec /\ RP!Spec
                  /\ I!Init /\ [][I!Next]_inboxVars
                  /\ F!Init /\ [][F!Next]_listVars
<1>1. ServerInit => Init /\ AP!Init /\ RP!Init /\ I!Init /\ F!Init
  BY AccountsInitIsTheirs, ReviewsInitIsTheirs DEF ServerInit
<1> QED BY <1>1, PartSteps, PTL DEF ServerSpec, Spec, AP!Spec, RP!Spec

LEMMA ConstantsFit == AP!NumbersAreNumbers /\ AP!LimitsArePositive /\ RP!FixturesFit
<1>1. AP!NumbersAreNumbers
  BY BoundsAssumption, AccountsAssumption DEF AP!NumbersAreNumbers
<1>2. AP!LimitsArePositive
  BY AccountsAssumption DEF AP!LimitsArePositive, AP!IsFiniteSet, IsFiniteSet
<1>3. RP!FixturesFit
  BY BoundsAssumption, ReviewsAssumption DEF RP!FixturesFit
<1> QED BY <1>1, <1>2, <1>3

LEMMA ListsAlways == F!Init /\ [][F!Next]_listVars => []ListsInv
BY ListsInit, ListsNext, PTL

LEMMA InboxAlways == I!Init /\ [][I!Next]_inboxVars => []InboxInv /\ [][Kept]_inboxVars
BY InboxInit, InboxStep, PTL

\* Every part keeps its types, whatever the others do.
THEOREM ServerTypes == ServerSpec => []AllTypesOK
<1>1. AP!Spec => []AP!TypeOK
  BY ConstantsFit, AP!AccountTypes
<1>2. RP!Spec => []RP!TypeOK
  BY ConstantsFit, RP!ReviewTypes
<1>3. ASSUME TypeOK, AP!TypeOK, RP!TypeOK, InboxInv, ListsInv PROVE AllTypesOK
  BY <1>3, AccountsPromiseTheSame, ReviewsPromiseTheSame DEF AllTypesOK, InboxInv, ListsInv
<1> QED BY <1>1, <1>2, <1>3, PartSpecs, LimiterTypes, InboxAlways, ListsAlways, PTL

\* In the server, too, a client gets its limit through in a window, once more for every memory
\* store, and is refused only when it has used it up (authService.js 36 to 110).
THEOREM LimitStaysExact == ServerSpec => []LimitIsExact
BY PartSpecs, LimitIsKept, PTL

\* In the server, too, nobody is locked out for less than the threshold says, and nobody gets
\* to guess for longer (authService.js 183 to 234).
THEOREM LockoutStaysExact == ServerSpec => []LockoutIsExact
<1>1. AP!Spec => []AP!LockoutIsExact
  BY ConstantsFit, AP!LocksAreExact
<1>2. AP!LockoutIsExact => LockoutIsExact
  BY AccountsPromiseTheSame DEF LockoutIsExact
<1> QED BY <1>1, <1>2, PartSpecs, PTL

\* In the server, too, a session has one token to go on with, and none once it was ended
\* (authService.js 269 to 289, authController.js 160).
THEOREM SessionsStayBounded == ServerSpec => []SessionsEnd
<1>1. AP!Spec => []AP!SessionsEnd
  BY ConstantsFit, AP!SessionsAreBounded
<1>2. AP!SessionsEnd => SessionsEnd
  BY AccountsPromiseTheSame DEF SessionsEnd
<1> QED BY <1>1, <1>2, PartSpecs, PTL

\* Visitors of the server read no review and no answer that was not vetted
\* (reviewsService.js 18 to 171, catalogService.js 117 to 227).
THEOREM VettedStayAlone == ServerSpec => []OnlyVettedShows
<1>1. RP!Spec => []RP!OnlyVettedShows
  BY ConstantsFit, RP!OnlyTheVettedShow
<1>2. RP!OnlyVettedShows => OnlyVettedShows
  BY ReviewsPromiseTheSame DEF OnlyVettedShows
<1> QED BY <1>1, <1>2, PartSpecs, PTL

\* No step of the server forgets that a user has read a message, but a restart of the message
\* of the fixtures (messagesRepository.js 17, dbSeedFixtures.js 377).
THEOREM ReadsStay == ServerSpec => ReadsAreKept
<1>1. [Kept]_inboxVars =>
        [\A m \in Messages : \/ message[m].readBy \subseteq message'[m].readBy
                             \/ m = SeedMessage /\ starts' # starts]_(I!vars)
  BY DEF Kept, I!vars, inboxVars
<1> QED BY <1>1, PartSpecs, InboxAlways, PTL DEF ReadsAreKept, I!ReadsAreKept

\* However clicks, edits and failures overlap: what a customer was told last of a service, and
\* can tell, is so; at most CompareLimit services are compared, and only such of them are off
\* sale as were withdrawn after the check (customerController.js 71 to 200, ServiceCard.tsx 13,
\* FavoritesPage.tsx 18).
THEOREM ListsStayHonest == ServerSpec => []ListsAreHonest
<1>1. ListsInv => ListsAreHonest
  BY DEF ListsInv, HeartInv, CompareInv, ListsAreHonest, F!ListsAreHonest
<1> QED BY <1>1, PartSpecs, ListsAlways, PTL
=============================================================================
