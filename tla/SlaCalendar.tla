----------------------------- MODULE SlaCalendar -----------------------------
(***************************************************************************)
(* The deadlines of a ticket (sla.js): minutes are counted one by one        *)
(* through the organization's business hours.  Times are UTC minutes, and     *)
(* what the clocks of the organization show is computed from them, with one   *)
(* change of the offset (summer time).  computeSlaDeadlines makes two such    *)
(* calls.                                                                     *)
(***************************************************************************)
EXTENDS Integers, FiniteSets

CONSTANTS
    Created,        \* when tickets are created
    Promises,       \* the numbers of minutes that are promised
    Hours,          \* businessHours: for each weekday Closed or its start and end
    Closed,
    WeekLength,     \* days in a week
    DayLength,      \* minutes in a day
    HourLength,     \* minutes in an hour
    UtcOffset, Shift, ShiftAt,  \* the offset from UTC, and by how much and when it changes
    LateMidnight,   \* does the formatter print the hour after midnight as 24?
    SearchLimit     \* minutes that nextBusinessMinute looks at: fourteen days

VARIABLES
    pc,         \* where addBusinessMinutes is
    created, promised,  \* its arguments
    cursor, tried, remaining,   \* its local variables
    opened      \* the business minute the count starts from

vars == <<pc, created, promised, cursor, tried, remaining, opened>>

-----------------------------------------------------------------------------

Local(t) == t + UtcOffset + IF t < ShiftAt THEN 0 ELSE Shift

Weekday(t) == (Local(t) \div DayLength) % WeekLength

\* With hour12: false midnight may be printed as 24, so the first hour is after the rest.
MinuteOfDay(t) ==
    LET m == Local(t) % DayLength
    IN  IF LateMidnight /\ m < HourLength THEN m + DayLength ELSE m

\* isWithinBusinessWindow: the closing minute itself is outside.
Open(t) ==
    LET window == Hours[Weekday(t)]
    IN  /\ window # Closed
        /\ window.start <= MinuteOfDay(t) /\ MinuteOfDay(t) < window.end

\* addBusinessMinutes(t, n)
Call(t, n) ==
    /\ pc = "idle"
    /\ pc' = "seeking"
    /\ created' = t /\ promised' = n
    /\ cursor' = t /\ tried' = 0 /\ remaining' = n
    /\ UNCHANGED opened

\* The loop of nextBusinessMinute
Seek ==
    /\ pc = "seeking"
    /\ tried < SearchLimit /\ ~Open(cursor)
    /\ cursor' = cursor + 1 /\ tried' = tried + 1
    /\ UNCHANGED <<pc, created, promised, remaining, opened>>

Found ==
    /\ pc = "seeking"
    /\ tried < SearchLimit /\ Open(cursor)
    /\ pc' = "adding" /\ opened' = cursor
    /\ UNCHANGED <<created, promised, cursor, tried, remaining>>

\* It throws, and the ticket is not created.
GiveUp ==
    /\ pc = "seeking" /\ tried >= SearchLimit
    /\ pc' = "failed"
    /\ UNCHANGED <<created, promised, cursor, tried, remaining, opened>>

\* Mutant: a minute is counted if the one before it is open.
AddBefore ==
    /\ pc = "adding" /\ remaining > 0
    /\ cursor' = cursor + 1
    /\ remaining' = IF Open(cursor) THEN remaining - 1 ELSE remaining
    /\ UNCHANGED <<pc, created, promised, tried, opened>>

\* The loop of addBusinessMinutes
Add ==
    /\ pc = "adding" /\ remaining > 0
    /\ cursor' = cursor + 1
    /\ remaining' = IF Open(cursor + 1) THEN remaining - 1 ELSE remaining
    /\ UNCHANGED <<pc, created, promised, tried, opened>>

Return ==
    /\ pc = "adding" /\ remaining <= 0
    /\ pc' = "done"
    /\ UNCHANGED <<created, promised, cursor, tried, remaining, opened>>

-----------------------------------------------------------------------------

Init ==
    /\ pc = "idle"
    /\ created = 0 /\ promised = 0
    /\ cursor = 0 /\ tried = 0 /\ remaining = 0 /\ opened = 0

Next ==
    \/ \E t \in Created, n \in Promises : Call(t, n)
    \/ Seek \/ Found \/ GiveUp
    \/ Add \/ Return

Spec == Init /\ [][Next]_vars

-----------------------------------------------------------------------------
(* Properties *)

TypeOK ==
    /\ pc \in {"idle", "seeking", "adding", "done", "failed"}
    /\ created \in Int /\ promised \in Nat
    /\ cursor \in Int /\ tried \in Nat /\ remaining \in Nat /\ opened \in Int

\* The open minutes after the one the count starts from, up to t.
Counted(t) == {m \in (opened + 1)..t : Open(m)}

\* The first minute the office is open at or after the ticket's creation.
FirstOpen(t) == Open(t) /\ created <= t /\ \A m \in created..(t - 1) : ~Open(m)

\* Across closing times, week-ends, midnight and a change to summer time, a deadline is
\* a minute the office is open, exactly the promised number of open minutes after the
\* first one; and a ticket is refused only if the office stays closed for SearchLimit
\* minutes.
DeadlineCounts ==
    /\ pc = "done" => /\ FirstOpen(opened)
                      /\ Open(cursor)
                      /\ Cardinality(Counted(cursor)) = promised
    /\ pc = "failed" => \A m \in created..(created + SearchLimit - 1) : ~Open(m)
=============================================================================
