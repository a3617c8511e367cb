------------------------------- MODULE Tickets -------------------------------
(***************************************************************************)
(* Support tickets of the HomeCareOps API (ticketsService.js) and the       *)
(* clean-up of their evidence after the retention period                    *)
(* (retentionCleanup.js, a process of its own that an operator starts).     *)
(*                                                                          *)
(* A status request reads the ticket, computes the whole update from what   *)
(* it read and writes it unconditionally; a resolution is filtered on the   *)
(* outcome still being null; the clean-up works through the tickets it      *)
(* found when it started.  Requests interleave at every await.              *)
(***************************************************************************)
EXTENDS Integers

CONSTANTS
    TicketIds,      \* ids of tickets
    SeedTickets,    \* the tickets that seedDatabase writes at every start
    Clerks,         \* status requests that may overlap
    Agents,         \* staff members who resolve tickets
    Runs,           \* processes of the retention script
    Statuses,       \* the statuses that status requests ask for: any string will do
    ResolutionDue,  \* the deadline computeSlaDeadlines gives a ticket created at t
    SeedAllowance,  \* the time the fixtures give their ticket
    Retention,      \* RETENTION_DAYS, in ticks
    MaxClock,       \* bound: the clock stops here
    MaxRestarts,    \* bound: restarts of the API in a behaviour
    NoTicket, NoOutcome

Waiting == "waiting_on_customer"
Never == -1     \* a date that is null

ASSUME SetsAssumption ==
    /\ SeedTickets \subseteq TicketIds
    /\ NoTicket \notin TicketIds /\ NoOutcome \notin Agents
    /\ "none" \notin Statuses

ASSUME NumbersAssumption ==
    /\ MaxClock \in Nat /\ MaxRestarts \in Nat
    /\ Retention \in Nat \ {0} /\ SeedAllowance \in Nat
    /\ ResolutionDue \in [0..MaxClock -> Nat]
    /\ \A t \in 0..MaxClock : ResolutionDue[t] >= t

VARIABLES
    tickets,    \* the documents
    clerk,      \* updateTicketStatus requests
    agent,      \* resolveTicket requests
    run,        \* retention runs: when each started, what it still has to clean
    clock,      \* the wall clock
    restarts,   \* history: how often the API was restarted
    promised,   \* history: the deadline a ticket was created with
    wait,       \* history: since when a ticket waits for its customer, and how long it did
    heldSince,  \* history: when a ticket was last put under legal hold
    marked,     \* history: the earliest date a status request said "resolved" with
    crossed     \* history: tickets that a status request wrote while another was at them

api == <<clerk, agent>>
history == <<promised, wait, heldSince, marked, crossed>>
vars == <<tickets, api, run, clock, restarts, history>>

-----------------------------------------------------------------------------
Time == 0..MaxClock
Dates == Time \cup {Never}
TicketRecord == [status: Statuses \cup {"none", "open", Waiting, "resolved"},
                 isPaused: BOOLEAN, pausedAt: Dates, due: Int, updatedAt: Dates,
                 outcome: Agents \cup {NoOutcome}, resolvedAt: Dates,
                 hold: BOOLEAN, cleaned: BOOLEAN, evidence: BOOLEAN]
ClerkRecord == [pc: {"idle", "writing"}, ticket: TicketIds \cup {NoTicket},
                status: Statuses \cup {"none"}, at: Time, read: TicketRecord]
AgentRecord == [pc: {"idle", "checking", "writing"}, ticket: TicketIds \cup {NoTicket}, at: Time]
RunRecord == [pc: {"idle", "cleaning", "died"}, start: Time, left: SUBSET TicketIds]
WaitRecord == [since: Dates, total: Int]

NoTicketYet == [status |-> "none", isPaused |-> FALSE, pausedAt |-> Never, due |-> 0,
                updatedAt |-> Never, outcome |-> NoOutcome, resolvedAt |-> Never,
                hold |-> FALSE, cleaned |-> FALSE, evidence |-> FALSE]
NewTicket(now) == [NoTicketYet EXCEPT !.status = "open", !.due = ResolutionDue[now],
                                      !.updatedAt = now, !.evidence = TRUE]
\* The fixtures store their ticket while it waits for the customer.
SeededTicket(now) == [NewTicket(now) EXCEPT !.status = Waiting, !.isPaused = TRUE,
                                            !.pausedAt = now, !.due = now + SeedAllowance]

IdleClerk == [pc |-> "idle", ticket |-> NoTicket, status |-> "none", at |-> 0,
              read |-> NoTicketYet]
IdleAgent == [pc |-> "idle", ticket |-> NoTicket, at |-> 0]
IdleRun == [pc |-> "idle", start |-> 0, left |-> {}]
NoWait == [since |-> Never, total |-> 0]

Exists(t) == tickets[t].status # "none"
Resolved(t) == tickets[t].outcome # NoOutcome

-----------------------------------------------------------------------------
(* createTicket: the deadline is computed and stored at one time; nobody can    *)
(* reach the ticket before it is stored.                                        *)
CreateTicket(t) ==
    /\ ~Exists(t)
    /\ tickets' = [tickets EXCEPT ![t] = NewTicket(clock)]
    /\ promised' = [promised EXCEPT ![t] = ResolutionDue[clock]]
    /\ UNCHANGED <<api, run, clock, restarts, wait, heldSince, marked, crossed>>

-----------------------------------------------------------------------------
(* updateTicketStatus *)

\* findTicketById and the check of the outcome; the date is taken right after.
StatusRead(c, t, status) ==
    /\ clerk[c].pc = "idle"
    /\ Exists(t) /\ ~Resolved(t)
    /\ clerk' = [clerk EXCEPT ![c] = [pc |-> "writing", ticket |-> t, status |-> status,
                                      at |-> clock, read |-> tickets[t]]]
    /\ UNCHANGED <<tickets, agent, run, clock, restarts, history>>

\* Mutant: a ticket is paused when it already is.
PausesInverted(r) == r.status = Waiting /\ r.read.isPaused
\* Whether the request, as a record of what it asked for and read, stops the SLA.
Pauses(r) == r.status = Waiting /\ ~r.read.isPaused
Resumes(r) == r.status # Waiting /\ r.read.isPaused /\ r.read.pausedAt # Never

\* Mutant: the pause is not ended.
ResumedStillPaused(tk, r) == [tk EXCEPT !.due = r.read.due + (r.at - r.read.pausedAt)]
\* The deadline moves by how long the ticket was paused, and the pause ends.
AfterPause(tk, r) ==
    [tk EXCEPT !.due = r.read.due + (r.at - r.read.pausedAt),
               !.isPaused = FALSE, !.pausedAt = Never]

\* What the request writes over the ticket tk that is stored by then.
Updated(tk, r) ==
    LET set == [tk EXCEPT !.status = r.status, !.updatedAt = r.at] IN
    IF Pauses(r) THEN [set EXCEPT !.isPaused = TRUE, !.pausedAt = r.at]
    ELSE IF Resumes(r) THEN AfterPause(set, r) ELSE set

\* How long the ticket has waited for its customer, by the dates of the requests.
Waited(w, r) ==
    IF r.status = Waiting THEN [w EXCEPT !.since = IF @ = Never THEN r.at ELSE @]
    ELSE IF w.since = Never THEN w
    ELSE [since |-> Never, total |-> w.total + (r.at - w.since)]

\* The dates with which the ticket was said to be resolved, by the earliest one.
Marked(date, r) ==
    IF r.status = "resolved" /\ (date = Never \/ r.at < date) THEN r.at ELSE date

\* Another request has read the ticket and is to write it.
AtIt(c, t) == \E d \in Clerks \ {c} : clerk[d].pc = "writing" /\ clerk[d].ticket = t

\* updateTicketById: the filter names the ticket only.
StatusWrite(c) ==
    LET t == clerk[c].ticket IN
    /\ clerk[c].pc = "writing"
    /\ tickets' = [tickets EXCEPT ![t] = Updated(@, clerk[c])]
    /\ wait' = [wait EXCEPT ![t] = Waited(@, clerk[c])]
    /\ marked' = [marked EXCEPT ![t] = Marked(@, clerk[c])]
    /\ clerk' = [clerk EXCEPT ![c] = IdleClerk]
    /\ crossed' = IF AtIt(c, t) THEN crossed \cup {t} ELSE crossed
    /\ UNCHANGED <<agent, run, clock, restarts, promised, heldSince>>

\* The write fails: nothing is stored.  (A write whose answer is lost is StatusWrite.)
StatusFails(c) ==
    /\ clerk[c].pc = "writing"
    /\ clerk' = [clerk EXCEPT ![c] = IdleClerk]
    /\ UNCHANGED <<tickets, agent, run, clock, restarts, history>>

-----------------------------------------------------------------------------
(* setTicketLegalHold and resolveTicket *)

SetHold(t, legalHold) ==
    /\ Exists(t)
    /\ tickets' = [tickets EXCEPT ![t].hold = legalHold, ![t].updatedAt = clock]
    /\ heldSince' = [heldSince EXCEPT ![t] =
         IF ~legalHold THEN Never ELSE IF tickets[t].hold THEN @ ELSE clock]
    /\ UNCHANGED <<api, run, clock, restarts, promised, wait, marked, crossed>>

\* findTicketById and the check of the outcome.
ResolveRead(a, t) ==
    /\ agent[a].pc = "idle"
    /\ Exists(t) /\ ~Resolved(t)
    /\ agent' = [agent EXCEPT ![a] = [pc |-> "checking", ticket |-> t, at |-> 0]]
    /\ UNCHANGED <<tickets, clerk, run, clock, restarts, history>>

\* findMediaByIds: all attachments exist, and the outcome is dated.
ResolveCheck(a) ==
    /\ agent[a].pc = "checking"
    /\ agent' = [agent EXCEPT ![a].pc = "writing", ![a].at = clock]
    /\ UNCHANGED <<tickets, clerk, run, clock, restarts, history>>

\* Mutant: the check made when the ticket was read is trusted.
ResolveFilterTrusting(t) == TRUE
ResolveFilter(t) == ~Resolved(t)

\* Mutant: the outcome is stored under a status of its own.
OutcomeMisfiled(tk, a, at) ==
    [tk EXCEPT !.status = "closed", !.outcome = a, !.resolvedAt = at, !.updatedAt = clock]
WithOutcome(tk, a, at) ==
    [tk EXCEPT !.status = "resolved", !.outcome = a, !.resolvedAt = at, !.updatedAt = clock]

\* resolveTicket of the repository; nothing matched is a 409.
ResolveWrite(a) ==
    LET t == agent[a].ticket IN
    /\ agent[a].pc = "writing"
    /\ tickets' = IF ResolveFilter(t)
                  THEN [tickets EXCEPT ![t] = WithOutcome(@, a, agent[a].at)] ELSE tickets
    /\ agent' = [agent EXCEPT ![a] = IdleAgent]
    /\ UNCHANGED <<clerk, run, clock, restarts, history>>

\* An attachment is missing, or a call fails.
ResolveFails(a) ==
    /\ agent[a].pc # "idle"
    /\ agent' = [agent EXCEPT ![a] = IdleAgent]
    /\ UNCHANGED <<tickets, clerk, run, clock, restarts, history>>

-----------------------------------------------------------------------------
(* The retention script *)

\* Mutant: a ticket is old enough as soon as it is resolved.
OldEnoughNow(t) == TRUE
OldEnough(t) ==
    \/ tickets[t].resolvedAt # Never /\ tickets[t].resolvedAt <= clock - Retention
    \/ tickets[t].updatedAt <= clock - Retention

\* Mutant: the legal hold is left out of the filter.
CandidateHeldOrNot(t) == tickets[t].status = "resolved" /\ ~tickets[t].cleaned /\ OldEnough(t)
\* The filter of the script's find.
Candidate(t) ==
    /\ tickets[t].status = "resolved"
    /\ ~tickets[t].hold /\ ~tickets[t].cleaned
    /\ OldEnough(t)

RunStart(x) ==
    /\ run[x].pc = "idle"
    /\ run' = [run EXCEPT ![x] = [pc |-> "cleaning", start |-> clock,
                                  left |-> {t \in TicketIds : Candidate(t)}]]
    /\ UNCHANGED <<tickets, api, clock, restarts, history>>

\* The next candidate's media are dealt with, then the ticket is emptied and marked,
\* whatever it has become.  MongoDB refuses to write into an outcome that is null,
\* and an error ends the script.
RunClean(x, t) ==
    /\ run[x].pc = "cleaning" /\ t \in run[x].left
    /\ \/ /\ Resolved(t)
          /\ tickets' = [tickets EXCEPT ![t].evidence = FALSE, ![t].cleaned = TRUE,
                                        ![t].updatedAt = clock]
          /\ run' = [run EXCEPT ![x].left = @ \ {t}]
       \/ /\ ~Resolved(t)
          /\ run' = [run EXCEPT ![x].pc = "died", ![x].left = {}]
          /\ UNCHANGED tickets
    /\ UNCHANGED <<api, clock, restarts, history>>

\* The script ends, or is killed.
RunEnd(x) ==
    /\ run[x].pc = "cleaning"
    /\ run' = [run EXCEPT ![x] = IdleRun]
    /\ UNCHANGED <<tickets, api, clock, restarts, history>>

-----------------------------------------------------------------------------
(* The API dies and starts again: requests in flight are gone and the fixtures   *)
(* are written over their ticket.  The retention script is another process.      *)
Restart ==
    /\ restarts < MaxRestarts
    /\ restarts' = restarts + 1
    /\ clerk' = [c \in Clerks |-> IdleClerk]
    /\ agent' = [a \in Agents |-> IdleAgent]
    /\ tickets' = [t \in TicketIds |->
         IF t \in SeedTickets THEN SeededTicket(clock) ELSE tickets[t]]
    /\ promised' = [t \in TicketIds |->
         IF t \in SeedTickets THEN clock + SeedAllowance ELSE promised[t]]
    /\ wait' = [t \in TicketIds |->
         IF t \in SeedTickets THEN [NoWait EXCEPT !.since = clock] ELSE wait[t]]
    /\ heldSince' = [t \in TicketIds |-> IF t \in SeedTickets THEN Never ELSE heldSince[t]]
    /\ crossed' = crossed \ SeedTickets
    /\ UNCHANGED <<run, clock, marked>>

Tick == clock < MaxClock /\ clock' = clock + 1 /\ UNCHANGED <<tickets, api, run, restarts, history>>

Init ==
    /\ tickets = [t \in TicketIds |-> IF t \in SeedTickets THEN SeededTicket(0) ELSE NoTicketYet]
    /\ clerk = [c \in Clerks |-> IdleClerk]
    /\ agent = [a \in Agents |-> IdleAgent]
    /\ run = [x \in Runs |-> IdleRun]
    /\ clock = 0
    /\ restarts = 0
    /\ promised = [t \in TicketIds |-> IF t \in SeedTickets THEN SeedAllowance ELSE 0]
    /\ wait = [t \in TicketIds |->
         IF t \in SeedTickets THEN [NoWait EXCEPT !.since = 0] ELSE NoWait]
    /\ heldSince = [t \in TicketIds |-> Never]
    /\ marked = [t \in TicketIds |-> Never]
    /\ crossed = {}

Next ==
    \/ \E t \in TicketIds : CreateTicket(t)
    \/ \E c \in Clerks, t \in TicketIds, status \in Statuses : StatusRead(c, t, status)
    \/ \E c \in Clerks : StatusWrite(c)
    \/ \E c \in Clerks : StatusFails(c)
    \/ \E t \in TicketIds, legalHold \in BOOLEAN : SetHold(t, legalHold)
    \/ \E a \in Agents, t \in TicketIds : ResolveRead(a, t)
    \/ \E a \in Agents : ResolveCheck(a)
    \/ \E a \in Agents : ResolveWrite(a)
    \/ \E a \in Agents : ResolveFails(a)
    \/ \E x \in Runs : RunStart(x)
    \/ \E x \in Runs, t \in TicketIds : RunClean(x, t)
    \/ \E x \in Runs : RunEnd(x)
    \/ Restart
    \/ Tick

Spec == Init /\ [][Next]_vars

-----------------------------------------------------------------------------
(* Properties *)

TypeOK ==
    /\ tickets \in [TicketIds -> TicketRecord]
    /\ clerk \in [Clerks -> ClerkRecord]
    /\ agent \in [Agents -> AgentRecord]
    /\ run \in [Runs -> RunRecord]
    /\ clock \in Time
    /\ restarts \in 0..MaxRestarts
    /\ promised \in [TicketIds -> Int]
    /\ wait \in [TicketIds -> WaitRecord]
    /\ heldSince \in [TicketIds -> Dates]
    /\ marked \in [TicketIds -> Dates]
    /\ crossed \subseteq TicketIds

\* Two agents who resolve a ticket at once, and status requests and clean-ups around
\* them, never change an outcome that was stored.  Only the seeding of its own ticket does.
OutcomeNeverChanges ==
    [][\A t \in TicketIds : Resolved(t) =>
         \/ tickets'[t].outcome = tickets[t].outcome /\ tickets'[t].resolvedAt = tickets[t].resolvedAt
         \/ t \in SeedTickets]_vars

\* Evidence goes only from tickets with an outcome, the retention period after they were
\* said to be resolved: by the outcome or, as ticketsController.js 56 takes any status, by a
\* status request.  That holds even when runs overlap, a clean-up works from a list made
\* before the outcome, is killed half-way, or a slow request writes an old date.  The
\* seeded ticket is renewed by a restart under a clean-up that had found it.
Stripped(t) == tickets[t].evidence /\ ~tickets'[t].evidence
LongAgo(date) == date # Never /\ date <= clock - Retention
Aged(t) == (Resolved(t) /\ LongAgo(tickets[t].resolvedAt)) \/ LongAgo(marked[t])
EvidenceKeptForRetention ==
    [][\A t \in TicketIds \ SeedTickets : Stripped(t) => Resolved(t) /\ Aged(t)]_vars

\* A ticket put under legal hold before a clean-up started keeps its evidence.
HoldBeforeRunProtects ==
    [][\A t \in TicketIds : Stripped(t) /\ tickets[t].hold =>
         \E x \in Runs : t \in run[x].left /\ heldSince[t] >= run[x].start]_vars

\* The deadline is the promised one plus the time the ticket waited for its customer
\* (ticketsService.js 194), whatever the order of the requests, unless two status requests
\* were at the ticket at once.
DueCountsPauses ==
    \A t \in TicketIds \ crossed : Exists(t) => tickets[t].due = promised[t] + wait[t].total

\* The SLA clock of an unresolved ticket stands still exactly while it waits for its
\* customer (ticketsService.js 190), with the same exception.
WaitingIsPaused ==
    \A t \in TicketIds \ crossed : Exists(t) /\ ~Resolved(t) =>
        (tickets[t].status = Waiting <=> tickets[t].isPaused)

-----------------------------------------------------------------------------
(* The inductive invariants behind EvidenceKeptForRetention and HoldBeforeRunProtects. *)

\* The dates that a ticket and its requests carry lie in the past.
DatesPast ==
    /\ \A a \in Agents : agent[a].at <= clock
    /\ \A x \in Runs : run[x].start <= clock
    /\ \A t \in TicketIds : tickets[t].resolvedAt <= clock

\* So do the dates of the status requests and of the marks they left.
MarksPast ==
    /\ \A c \in Clerks : clerk[c].at <= clock
    /\ \A t \in TicketIds : marked[t] <= clock

\* Whoever is under legal hold and on the list of a clean-up was put under it later.
HeldLater ==
    \A x \in Runs, t \in TicketIds :
        t \in run[x].left /\ tickets[t].hold => heldSince[t] >= run[x].start

\* A resolved status is as old as the outcome or the request that it comes from, outcome
\* and date agree, and what a clean-up has on its list was said to be resolved the
\* retention period ago.
CleanupInv ==
    /\ \A t \in TicketIds : tickets[t].status = "resolved" =>
         \/ Resolved(t) /\ tickets[t].resolvedAt <= tickets[t].updatedAt
         \/ marked[t] # Never /\ marked[t] <= tickets[t].updatedAt
    /\ \A t \in TicketIds : Resolved(t) <=> tickets[t].resolvedAt # Never
    /\ \A x \in Runs : \A t \in run[x].left \ SeedTickets : Aged(t)

-----------------------------------------------------------------------------
(* What a test of the repository expects and a sequence of requests breaks. *)

\* The clean-up gets through all its candidates and exits with success.
RetentionNeverDies == \A x \in Runs : run[x].pc # "died"
=============================================================================
