---------------------------- MODULE TicketProofs ----------------------------
(***************************************************************************)
(* What holds of Tickets for every number of tickets, overlapping requests, *)
(* agents and clean-ups: types, the outcome that never changes, the legal   *)
(* hold and the retention period that protect the evidence; and the         *)
(* deadlines of the tickets that no two status requests were at at once.    *)
(***************************************************************************)
EXTENDS Tickets, TLAPS

\* What the fixtures and createTicket store is a ticket.
LEMMA NewTickets ==
    ASSUME NEW now \in Time
    PROVE  /\ NoTicketYet \in TicketRecord
           /\ NewTicket(now) \in TicketRecord
           /\ SeededTicket(now) \in TicketRecord
<1>1. /\ ResolutionDue[now] \in Int /\ now + SeedAllowance \in Int
      /\ now \in Dates /\ Never \in Dates
  BY NumbersAssumption DEF Time, Dates
<1>2. NoTicketYet \in TicketRecord
  BY <1>1 DEF TicketRecord, NoTicketYet
<1>3. NewTicket(now) \in TicketRecord
  BY <1>1, <1>2 DEF TicketRecord, NewTicket
<1>4. SeededTicket(now) \in TicketRecord
  BY <1>1, <1>3 DEF TicketRecord, SeededTicket
<1> QED BY <1>2, <1>3, <1>4

LEMMA IdleTypes ==
    /\ IdleClerk \in ClerkRecord /\ IdleAgent \in AgentRecord /\ IdleRun \in RunRecord
    /\ NoWait \in WaitRecord
<1>1. 0 \in Time
  BY NumbersAssumption DEF Time
<1>2. NoTicketYet \in TicketRecord
  BY <1>1, NewTickets
<1> QED BY <1>1, <1>2 DEF IdleClerk, IdleAgent, IdleRun, NoWait, ClerkRecord, AgentRecord,
           RunRecord, WaitRecord, Dates, Never

\* A status request writes a ticket over a ticket.
LEMMA UpdatedType ==
    ASSUME NEW tk \in TicketRecord, NEW r \in ClerkRecord, r.status \in Statuses
    PROVE  Updated(tk, r) \in TicketRecord
<1> DEFINE set == [tk EXCEPT !.status = r.status, !.updatedAt = r.at]
<1>1. /\ r.at \in Time /\ r.at \in Int /\ r.read \in TicketRecord
      /\ r.read.due \in Int /\ r.read.pausedAt \in Int
  BY NumbersAssumption DEF ClerkRecord, TicketRecord, Time, Dates, Never
<1>2. set \in TicketRecord
  BY <1>1 DEF TicketRecord, Dates
<1>3. [set EXCEPT !.isPaused = TRUE, !.pausedAt = r.at] \in TicketRecord
  BY <1>1, <1>2 DEF TicketRecord, Dates
<1>4. AfterPause(set, r) \in TicketRecord
  <2>1. r.read.due + (r.at - r.read.pausedAt) \in Int /\ Never \in Dates
    BY <1>1 DEF Dates
  <2> HIDE DEF set
  <2> QED BY <1>2, <2>1 DEF AfterPause, TicketRecord
<1> QED BY <1>2, <1>3, <1>4 DEF Updated

\* The clerks carry statuses that were asked for.
Asked == \A c \in Clerks : clerk[c].pc = "writing" =>
            clerk[c].ticket \in TicketIds /\ clerk[c].status \in Statuses
Addressed == \A a \in Agents : agent[a].pc # "idle" => agent[a].ticket \in TicketIds

LEMMA TypesInit == Init => TypeOK /\ Asked /\ Addressed
<1> SUFFICES ASSUME Init PROVE TypeOK /\ Asked /\ Addressed
  OBVIOUS
<1>1. 0 \in Time
  BY NumbersAssumption DEF Time
<1>2. /\ NoTicketYet \in TicketRecord /\ SeededTicket(0) \in TicketRecord
      /\ [NoWait EXCEPT !.since = 0] \in WaitRecord
  BY <1>1, NewTickets, IdleTypes DEF WaitRecord, Dates
<1> QED BY <1>1, <1>2, IdleTypes, NumbersAssumption
        DEF Init, TypeOK, Asked, Addressed, IdleClerk, IdleAgent, Dates, Never

LEMMA TypesNext == TypeOK /\ Asked /\ Addressed /\ [Next]_vars => TypeOK' /\ Asked' /\ Addressed'
<1> SUFFICES ASSUME TypeOK, Asked, Addressed, [Next]_vars
             PROVE  TypeOK' /\ Asked' /\ Addressed'
  OBVIOUS
<1> USE DEF api, history
<1>0. 0 \in Time /\ clock \in Time /\ Never \in Dates /\ Time \subseteq Dates
  BY NumbersAssumption DEF TypeOK, Time, Dates
<1>1. CASE \E t \in TicketIds : CreateTicket(t)
  <2>1. NewTicket(clock) \in TicketRecord /\ ResolutionDue[clock] \in Int
    BY <1>0, NewTickets, NumbersAssumption DEF Time
  <2> QED BY <1>1, <2>1 DEF CreateTicket, TypeOK, Asked, Addressed
<1>2. CASE \E c \in Clerks, t \in TicketIds, status \in Statuses : StatusRead(c, t, status)
  BY <1>0, <1>2 DEF StatusRead, TypeOK, Asked, Addressed, ClerkRecord
<1>3. CASE \E c \in Clerks : StatusWrite(c)
  <2> PICK c \in Clerks : StatusWrite(c)
    BY <1>3
  <2> DEFINE t == clerk[c].ticket
  <2>1. /\ t \in TicketIds /\ clerk[c].status \in Statuses /\ clerk[c] \in ClerkRecord
        /\ clerk[c].at \in Time
    BY DEF StatusWrite, TypeOK, Asked, ClerkRecord
  <2>2. Updated(tickets[t], clerk[c]) \in TicketRecord
    BY <2>1, UpdatedType DEF TypeOK
  <2>3. Waited(wait[t], clerk[c]) \in WaitRecord
    <3>1. /\ wait[t] \in WaitRecord /\ wait[t].since \in Dates /\ wait[t].total \in Int
          /\ wait[t].since \in Int /\ clerk[c].at \in Int
      BY <2>1, NumbersAssumption DEF TypeOK, WaitRecord, Dates, Never, Time
    <3> QED BY <1>0, <2>1, <3>1 DEF Waited, WaitRecord
  <2>4. IdleClerk.pc = "idle"
    BY DEF IdleClerk
  <2>5. Marked(marked[t], clerk[c]) \in Dates
    BY <1>0, <2>1 DEF Marked, TypeOK
  <2> QED BY <2>1, <2>2, <2>3, <2>4, <2>5, IdleTypes DEF StatusWrite, TypeOK, Asked, Addressed
<1>4. CASE \E c \in Clerks : StatusFails(c)
  BY <1>4, IdleTypes DEF StatusFails, TypeOK, Asked, Addressed, IdleClerk
<1>5. CASE \E t \in TicketIds, legalHold \in BOOLEAN : SetHold(t, legalHold)
  <2> PICK t \in TicketIds, legalHold \in BOOLEAN : SetHold(t, legalHold)
    BY <1>5
  <2>2. tickets[t] \in TicketRecord /\ clock \in Dates
    BY <1>0 DEF TypeOK
  <2>1. [tickets[t] EXCEPT !.hold = legalHold, !.updatedAt = clock] \in TicketRecord
    BY <2>2 DEF TicketRecord
  <2> QED BY <1>0, <2>1 DEF SetHold, TypeOK, Asked, Addressed
<1>6. CASE \E a \in Agents, t \in TicketIds : ResolveRead(a, t)
  BY <1>0, <1>6 DEF ResolveRead, TypeOK, Asked, Addressed, AgentRecord
<1>7. CASE \E a \in Agents : ResolveCheck(a)
  <2> PICK a \in Agents : ResolveCheck(a)
    BY <1>7
  <2>1. agent[a] \in AgentRecord /\ agent[a].ticket \in TicketIds
    BY DEF ResolveCheck, TypeOK, Addressed
  <2>2. [agent[a] EXCEPT !.pc = "writing", !.at = clock] \in AgentRecord
    BY <1>0, <2>1 DEF AgentRecord
  <2>3. agent' = [agent EXCEPT ![a] = [agent[a] EXCEPT !.pc = "writing", !.at = clock]]
    BY <2>1 DEF ResolveCheck, TypeOK, AgentRecord
  <2> QED BY <2>1, <2>2, <2>3 DEF ResolveCheck, TypeOK, Asked, Addressed, AgentRecord
<1>8. CASE \E a \in Agents : ResolveWrite(a)
  <2> PICK a \in Agents : ResolveWrite(a)
    BY <1>8
  <2> DEFINE t == agent[a].ticket
  <2>1. t \in TicketIds /\ agent[a].at \in Time
    BY DEF ResolveWrite, TypeOK, Addressed, AgentRecord
  <2>2. WithOutcome(tickets[t], a, agent[a].at) \in TicketRecord
    <3>1. tickets[t] \in TicketRecord /\ clock \in Dates /\ agent[a].at \in Dates
      BY <1>0, <2>1 DEF TypeOK
    <3> QED BY <3>1 DEF WithOutcome, TicketRecord
  <2>3. IdleAgent.pc = "idle"
    BY DEF IdleAgent
  <2> QED BY <2>1, <2>2, <2>3, IdleTypes DEF ResolveWrite, TypeOK, Asked, Addressed
<1>9. CASE \E a \in Agents : ResolveFails(a)
  BY <1>9, IdleTypes DEF ResolveFails, TypeOK, Asked, Addressed, IdleAgent
<1>10. CASE \E x \in Runs : RunStart(x)
  BY <1>0, <1>10 DEF RunStart, TypeOK, Asked, Addressed, RunRecord
<1>11. CASE \E x \in Runs, t \in TicketIds : RunClean(x, t)
  <2> PICK x \in Runs, t \in TicketIds : RunClean(x, t)
    BY <1>11
  <2> DEFINE r == [tickets[t] EXCEPT !.evidence = FALSE, !.cleaned = TRUE, !.updatedAt = clock]
  <2>7. tickets[t] \in TicketRecord /\ clock \in Dates
    BY <1>0 DEF TypeOK
  <2>1. r \in TicketRecord
    BY <2>7 DEF TicketRecord
  <2>2. tickets' \in [TicketIds -> TicketRecord]
    BY <2>1 DEF RunClean, TypeOK
  <2> DEFINE on == [run[x] EXCEPT !.left = @ \ {t}]
             died == [run[x] EXCEPT !.pc = "died", !.left = {}]
  <2>3. run[x] \in RunRecord
    BY DEF TypeOK
  <2>4. on \in RunRecord /\ died \in RunRecord
    BY <2>3 DEF RunRecord
  <2>5. run' = [run EXCEPT ![x] = on] \/ run' = [run EXCEPT ![x] = died]
    BY <2>3 DEF RunClean, TypeOK, RunRecord
  <2> HIDE DEF on, died
  <2>6. run' \in [Runs -> RunRecord]
    BY <2>4, <2>5 DEF TypeOK
  <2> QED BY <2>2, <2>6 DEF RunClean, TypeOK, Asked, Addressed
<1>12. CASE \E x \in Runs : RunEnd(x)
  BY <1>12, IdleTypes DEF RunEnd, TypeOK, Asked, Addressed
<1>13. CASE Restart
  <2>1. /\ SeededTicket(clock) \in TicketRecord /\ [NoWait EXCEPT !.since = clock] \in WaitRecord
        /\ clock + SeedAllowance \in Int
    BY <1>0, NewTickets, IdleTypes, NumbersAssumption DEF WaitRecord, Time
  <2> QED BY <1>0, <1>13, <2>1, IdleTypes, NumbersAssumption
          DEF Restart, TypeOK, Asked, Addressed, IdleClerk, IdleAgent
<1>14. CASE Tick
  BY <1>14, NumbersAssumption DEF Tick, TypeOK, Time, Asked, Addressed
<1>15. CASE UNCHANGED vars
  BY <1>15 DEF vars, TypeOK, Asked, Addressed
<1> QED BY <1>1, <1>2, <1>3, <1>4, <1>5, <1>6, <1>7, <1>8, <1>9, <1>10, <1>11, <1>12, <1>13,
           <1>14, <1>15 DEF Next

\* Every reachable state of the tickets is well typed.
THEOREM TicketTypes == Spec => []TypeOK
<1>1. Spec => [](TypeOK /\ Asked /\ Addressed)
  BY TypesInit, TypesNext, PTL DEF Spec
<1> QED BY <1>1, PTL

-----------------------------------------------------------------------------
(* The outcome, the legal hold and the retention period *)

\* What a status request leaves alone.
LEMMA UpdatedKeeps ==
    ASSUME NEW tk \in TicketRecord, NEW r
    PROVE  /\ Updated(tk, r).outcome = tk.outcome
           /\ Updated(tk, r).resolvedAt = tk.resolvedAt
           /\ Updated(tk, r).hold = tk.hold
           /\ Updated(tk, r).evidence = tk.evidence
           /\ Updated(tk, r).status = r.status
           /\ Updated(tk, r).updatedAt = r.at
  BY DEF Updated, AfterPause, TicketRecord

\* A ticket that was not created has no outcome and is on nobody's list.
Unborn == \A t \in TicketIds : ~Exists(t) => ~Resolved(t) /\ \A x \in Runs : t \notin run[x].left

SafetyInv == TypeOK /\ Asked /\ Addressed /\ Unborn /\ DatesPast /\ HeldLater

\* A step leaves a ticket alone.
Same(t) == tickets'[t] = tickets[t]

LEMMA SafetyInit == Init => SafetyInv
<1> SUFFICES ASSUME Init PROVE SafetyInv
  OBVIOUS
<1>1. TypeOK /\ Asked /\ Addressed
  BY TypesInit
<1>2. Unborn
  BY DEF Init, Unborn, Exists, Resolved, NoTicketYet, SeededTicket, NewTicket, Waiting, IdleRun
<1>3. DatesPast
  BY NumbersAssumption DEF Init, DatesPast, IdleAgent, IdleRun, NoTicketYet, SeededTicket,
     NewTicket, Never
<1>4. HeldLater
  BY DEF Init, HeldLater, IdleRun
<1> QED BY <1>1, <1>2, <1>3, <1>4 DEF SafetyInv

\* A request that only reads or gives up keeps the invariant.
LEMMA ReadSafe ==
    ASSUME SafetyInv, UNCHANGED <<tickets, run, clock, heldSince>>,
           \A a \in Agents : agent'[a].at <= clock
    PROVE  Unborn' /\ DatesPast' /\ HeldLater'
  BY DEF SafetyInv, Unborn, Exists, Resolved, DatesPast, HeldLater

\* Creating a ticket, asking for a status, holding, resolving: each writes one ticket.
LEMMA WriteSafe ==
    ASSUME SafetyInv, NEW t \in TicketIds, tickets'[t] \in TicketRecord,
           \A u \in TicketIds \ {t} : Same(u) /\ heldSince'[u] = heldSince[u],
           tickets'[t].status # "none", tickets'[t].resolvedAt <= clock,
           tickets'[t].hold => heldSince'[t] = clock \/ ~Exists(t)
                               \/ (tickets[t].hold /\ heldSince'[t] = heldSince[t]),
           UNCHANGED <<run, clock>>, \A a \in Agents : agent'[a].at <= clock
    PROVE  Unborn' /\ DatesPast' /\ HeldLater'
<1>1. Unborn'
  BY DEF SafetyInv, Unborn, Exists, Resolved, Same
<1>2. DatesPast'
  BY DEF SafetyInv, DatesPast, Same
<1>3. HeldLater'
  <2> SUFFICES ASSUME NEW x \in Runs, NEW u \in TicketIds, u \in run[x].left, tickets'[u].hold
               PROVE  heldSince'[u] >= run[x].start
    BY DEF HeldLater
  <2>1. CASE u # t
    BY <2>1 DEF SafetyInv, HeldLater, Same
  <2>2. CASE u = t
    <3>1. Exists(t) /\ clock \in Int /\ run[x].start \in Int /\ run[x].start <= clock
      BY <2>2, NumbersAssumption DEF SafetyInv, Unborn, DatesPast, TypeOK, RunRecord, Time
    <3> QED BY <2>2, <3>1 DEF SafetyInv, HeldLater
  <2> QED BY <2>1, <2>2
<1> QED BY <1>1, <1>2, <1>3

LEMMA SafetyNext == SafetyInv /\ [Next]_vars => SafetyInv'
<1> SUFFICES ASSUME SafetyInv, [Next]_vars PROVE SafetyInv'
  OBVIOUS
<1> USE DEF api, history
<1>0. /\ TypeOK' /\ Asked' /\ Addressed'
      /\ clock \in Int /\ \A a \in Agents : agent[a].at \in Int /\ agent[a].at <= clock
      /\ IdleAgent.at <= clock /\ IdleRun.left = {} /\ IdleRun.start <= clock
  BY TypesNext, NumbersAssumption
  DEF SafetyInv, DatesPast, TypeOK, Time, AgentRecord, IdleAgent, IdleRun
<1> SUFFICES Unborn' /\ DatesPast' /\ HeldLater'
  BY <1>0 DEF SafetyInv
<1>1. ASSUME NEW t \in TicketIds, CreateTicket(t) PROVE Unborn' /\ DatesPast' /\ HeldLater'
  <2>1. /\ tickets'[t] = NewTicket(clock)
        /\ \A u \in TicketIds \ {t} : Same(u)
    BY <1>1 DEF CreateTicket, SafetyInv, TypeOK, Same
  <2>2. tickets'[t].status # "none" /\ tickets'[t].resolvedAt <= clock /\ ~tickets'[t].hold
    BY <1>0, <2>1, NumbersAssumption
    DEF NewTicket, NoTicketYet, Never, SafetyInv, TypeOK, Time
  <2> QED BY <1>0, <1>1, <2>1, <2>2, WriteSafe DEF CreateTicket, TypeOK
<1>2. ASSUME NEW c \in Clerks, NEW t \in TicketIds, NEW status \in Statuses,
             StatusRead(c, t, status)
      PROVE  Unborn' /\ DatesPast' /\ HeldLater'
  BY <1>0, <1>2, ReadSafe DEF StatusRead
<1>3. ASSUME NEW c \in Clerks, StatusWrite(c) PROVE Unborn' /\ DatesPast' /\ HeldLater'
  <2> DEFINE t == clerk[c].ticket
  <2>1. t \in TicketIds /\ clerk[c].status # "none" /\ tickets[t] \in TicketRecord
    BY <1>3, SetsAssumption DEF StatusWrite, SafetyInv, TypeOK, Asked
  <2>2. tickets'[t] = Updated(tickets[t], clerk[c]) /\ \A u \in TicketIds \ {t} : Same(u)
    BY <1>3, <2>1 DEF StatusWrite, SafetyInv, TypeOK, Same
  <2>3. /\ tickets'[t].status # "none" /\ tickets'[t].resolvedAt <= clock
        /\ tickets'[t].hold => tickets[t].hold
    BY <2>1, <2>2, UpdatedKeeps DEF SafetyInv, DatesPast
  <2> QED BY <1>0, <1>3, <2>1, <2>2, <2>3, WriteSafe DEF StatusWrite, TypeOK
<1>4. ASSUME NEW c \in Clerks, StatusFails(c) PROVE Unborn' /\ DatesPast' /\ HeldLater'
  BY <1>0, <1>4, ReadSafe DEF StatusFails
<1>5. ASSUME NEW t \in TicketIds, NEW legalHold \in BOOLEAN, SetHold(t, legalHold)
      PROVE  Unborn' /\ DatesPast' /\ HeldLater'
  <2>1. /\ tickets[t] \in TicketRecord
        /\ tickets' = [tickets EXCEPT ![t].hold = legalHold, ![t].updatedAt = clock]
        /\ \A u \in TicketIds \ {t} : Same(u) /\ heldSince'[u] = heldSince[u]
    BY <1>5 DEF SetHold, SafetyInv, TypeOK, Same
  <2>2. /\ tickets'[t].status = tickets[t].status /\ tickets'[t].resolvedAt = tickets[t].resolvedAt
        /\ tickets'[t].hold = legalHold
    BY <2>1 DEF SafetyInv, TypeOK, TicketRecord
  <2>3. tickets'[t].hold => heldSince'[t] = clock
                            \/ (tickets[t].hold /\ heldSince'[t] = heldSince[t])
    BY <1>5, <2>2 DEF SetHold, SafetyInv, TypeOK
  <2>4. tickets'[t].status # "none" /\ tickets'[t].resolvedAt <= clock
    BY <1>5, <2>2 DEF SetHold, Exists, SafetyInv, DatesPast
  <2> QED BY <1>0, <1>5, <2>1, <2>3, <2>4, WriteSafe DEF SetHold, TypeOK
<1>6. ASSUME NEW a \in Agents, NEW t \in TicketIds, ResolveRead(a, t)
      PROVE  Unborn' /\ DatesPast' /\ HeldLater'
  <2>1. \A b \in Agents : agent'[b].at <= clock
    BY <1>0, <1>6, NumbersAssumption DEF ResolveRead, SafetyInv, TypeOK, Time
  <2> QED BY <1>6, <2>1, ReadSafe DEF ResolveRead
<1>7. ASSUME NEW a \in Agents, ResolveCheck(a) PROVE Unborn' /\ DatesPast' /\ HeldLater'
  <2>1. \A b \in Agents : agent'[b].at <= clock
    BY <1>0, <1>7 DEF ResolveCheck, SafetyInv, TypeOK, AgentRecord
  <2> QED BY <1>7, <2>1, ReadSafe DEF ResolveCheck
<1>8. ASSUME NEW a \in Agents, ResolveWrite(a) PROVE Unborn' /\ DatesPast' /\ HeldLater'
  <2> DEFINE t == agent[a].ticket
  <2>1. /\ t \in TicketIds /\ tickets[t] \in TicketRecord
        /\ \A b \in Agents : agent'[b].at <= clock
    BY <1>0, <1>8 DEF ResolveWrite, SafetyInv, TypeOK, Addressed
  <2>2. CASE ~ResolveFilter(t)
    BY <1>8, <2>1, <2>2, ReadSafe DEF ResolveWrite
  <2>3. CASE ResolveFilter(t)
    <3>1. /\ tickets'[t] = WithOutcome(tickets[t], a, agent[a].at)
          /\ \A u \in TicketIds \ {t} : Same(u)
      BY <1>8, <2>1, <2>3 DEF ResolveWrite, SafetyInv, TypeOK, Same
    <3>2. /\ tickets'[t].status # "none" /\ tickets'[t].resolvedAt <= clock
          /\ tickets'[t].hold = tickets[t].hold
      BY <1>0, <2>1, <3>1 DEF WithOutcome, TicketRecord
    <3> QED BY <1>0, <1>8, <2>1, <3>1, <3>2, WriteSafe DEF ResolveWrite, TypeOK
  <2> QED BY <2>2, <2>3
<1>9. ASSUME NEW a \in Agents, ResolveFails(a) PROVE Unborn' /\ DatesPast' /\ HeldLater'
  <2>1. \A b \in Agents : agent'[b].at <= clock
    BY <1>0, <1>9 DEF ResolveFails, SafetyInv, TypeOK
  <2> QED BY <1>9, <2>1, ReadSafe DEF ResolveFails
<1>10. ASSUME NEW x \in Runs, RunStart(x) PROVE Unborn' /\ DatesPast' /\ HeldLater'
  <2>1. /\ run'[x].start = clock /\ run'[x].left = {t \in TicketIds : Candidate(t)}
        /\ \A y \in Runs \ {x} : run'[y] = run[y]
    BY <1>10 DEF RunStart, SafetyInv, TypeOK
  <2>2. \A t \in run'[x].left : ~tickets[t].hold /\ Exists(t)
    BY <2>1 DEF Candidate, Exists
  <2> QED BY <1>0, <1>10, <2>1, <2>2
          DEF RunStart, SafetyInv, Unborn, Exists, Resolved, DatesPast, HeldLater
<1>11. ASSUME NEW x \in Runs, NEW t \in TicketIds, RunClean(x, t)
       PROVE  Unborn' /\ DatesPast' /\ HeldLater'
  <2>1. /\ run'[x].start = run[x].start /\ run'[x].left \subseteq run[x].left
        /\ \A y \in Runs \ {x} : run'[y] = run[y]
    BY <1>11 DEF RunClean, SafetyInv, TypeOK, RunRecord
  <2>2. \A u \in TicketIds : /\ tickets'[u].status = tickets[u].status
                             /\ tickets'[u].outcome = tickets[u].outcome
                             /\ tickets'[u].resolvedAt = tickets[u].resolvedAt
                             /\ tickets'[u].hold = tickets[u].hold
    BY <1>11 DEF RunClean, SafetyInv, TypeOK, TicketRecord
  <2> QED BY <1>11, <2>1, <2>2
          DEF RunClean, SafetyInv, Unborn, Exists, Resolved, DatesPast, HeldLater
<1>12. ASSUME NEW x \in Runs, RunEnd(x) PROVE Unborn' /\ DatesPast' /\ HeldLater'
  <2>1. run'[x] = IdleRun /\ \A y \in Runs \ {x} : run'[y] = run[y]
    BY <1>12 DEF RunEnd, SafetyInv, TypeOK
  <2> QED BY <1>0, <1>12, <2>1
          DEF RunEnd, SafetyInv, Unborn, Exists, Resolved, DatesPast, HeldLater
<1>13. ASSUME Restart PROVE Unborn' /\ DatesPast' /\ HeldLater'
  <2>1. /\ \A t \in SeedTickets : tickets'[t] = SeededTicket(clock)
        /\ \A t \in TicketIds \ SeedTickets : Same(t) /\ heldSince'[t] = heldSince[t]
        /\ \A a \in Agents : agent'[a] = IdleAgent
    BY <1>13, SetsAssumption DEF Restart, Same
  <2>2. \A t \in SeedTickets : /\ tickets'[t].status # "none" /\ ~tickets'[t].hold
                               /\ tickets'[t].resolvedAt <= clock
    <3>1. -1 <= clock
      BY <1>0, NumbersAssumption DEF SafetyInv, TypeOK, Time
    <3> QED BY <2>1, <3>1 DEF SeededTicket, NewTicket, NoTicketYet, Waiting, Never
  <2> QED BY <1>0, <1>13, <2>1, <2>2
          DEF Restart, SafetyInv, Unborn, Exists, Resolved, DatesPast, HeldLater, Same
<1>14. ASSUME Tick PROVE Unborn' /\ DatesPast' /\ HeldLater'
  <2>1. /\ \A t \in TicketIds : tickets[t].resolvedAt \in Int
        /\ \A x \in Runs : run[x].start \in Int
    BY NumbersAssumption DEF SafetyInv, TypeOK, TicketRecord, RunRecord, Dates, Time, Never
  <2>2. DatesPast'
    BY <1>0, <1>14, <2>1 DEF Tick, SafetyInv, DatesPast
  <2> QED BY <1>14, <2>2 DEF Tick, SafetyInv, Unborn, Exists, Resolved, HeldLater
<1>15. CASE UNCHANGED vars
  BY <1>0, <1>15, ReadSafe DEF vars
<1> QED BY <1>1, <1>2, <1>3, <1>4, <1>5, <1>6, <1>7, <1>8, <1>9, <1>10, <1>11, <1>12, <1>13,
           <1>14, <1>15 DEF Next

LEMMA Safety == Spec => []SafetyInv
  BY SafetyInit, SafetyNext, PTL DEF Spec

\* A step changes the outcome of an unresolved ticket or of a seeded one only.
LEMMA OutcomeStep ==
    ASSUME SafetyInv, [Next]_vars, NEW t \in TicketIds, Resolved(t), t \notin SeedTickets
    PROVE  tickets'[t].outcome = tickets[t].outcome
           /\ tickets'[t].resolvedAt = tickets[t].resolvedAt
<1> USE DEF SafetyInv, TypeOK
<1>0. tickets[t] \in TicketRecord /\ Exists(t)
  BY DEF Unborn
<1>1. ASSUME NEW u \in TicketIds, CreateTicket(u) PROVE Same(t)
  BY <1>0, <1>1 DEF CreateTicket, Same
<1>2. ASSUME NEW c \in Clerks, StatusWrite(c)
      PROVE  tickets'[t].outcome = tickets[t].outcome
             /\ tickets'[t].resolvedAt = tickets[t].resolvedAt
  <2>1. Same(t) \/ tickets'[t] = Updated(tickets[t], clerk[c])
    BY <1>0, <1>2 DEF StatusWrite, Same
  <2> QED BY <1>0, <2>1, UpdatedKeeps DEF Same
<1>3. ASSUME NEW u \in TicketIds, NEW legalHold \in BOOLEAN, SetHold(u, legalHold)
      PROVE  tickets'[t].outcome = tickets[t].outcome
             /\ tickets'[t].resolvedAt = tickets[t].resolvedAt
  BY <1>0, <1>3 DEF SetHold, TicketRecord
<1>4. ASSUME NEW a \in Agents, ResolveWrite(a) PROVE Same(t)
  BY <1>0, <1>4 DEF ResolveWrite, ResolveFilter, Same
<1>5. ASSUME NEW x \in Runs, NEW u \in TicketIds, RunClean(x, u)
      PROVE  tickets'[t].outcome = tickets[t].outcome
             /\ tickets'[t].resolvedAt = tickets[t].resolvedAt
  BY <1>0, <1>5 DEF RunClean, TicketRecord
<1>6. CASE Restart
  BY <1>6, SetsAssumption DEF Restart
<1>7. CASE UNCHANGED tickets
  BY <1>7
<1> QED BY <1>1, <1>2, <1>3, <1>4, <1>5, <1>6, <1>7
        DEF Next, vars, Same, StatusRead, StatusFails, ResolveRead, ResolveCheck, ResolveFails,
            RunStart, RunEnd, Tick

\* The stored outcome of a ticket never changes, for any number of overlapping
\* resolutions, status requests and clean-ups.
THEOREM OutcomeIsImmutable == Spec => OutcomeNeverChanges
<1>1. SafetyInv /\ [Next]_vars =>
        [\A t \in TicketIds : Resolved(t) =>
           \/ tickets'[t].outcome = tickets[t].outcome /\ tickets'[t].resolvedAt = tickets[t].resolvedAt
           \/ t \in SeedTickets]_vars
  BY OutcomeStep
<1> QED BY <1>1, Safety, PTL DEF Spec, OutcomeNeverChanges

\* Only a clean-up takes evidence away, from a ticket on its list.
LEMMA StripStep ==
    ASSUME SafetyInv, [Next]_vars, NEW t \in TicketIds, Stripped(t)
    PROVE  Resolved(t) /\ \E x \in Runs : t \in run[x].left
<1> USE DEF SafetyInv, TypeOK
<1>0. tickets[t] \in TicketRecord /\ tickets[t].evidence /\ ~tickets'[t].evidence
  BY DEF Stripped
<1>1. ASSUME NEW u \in TicketIds, CreateTicket(u) PROVE FALSE
  BY <1>0, <1>1 DEF CreateTicket, NewTicket, NoTicketYet
<1>2. ASSUME NEW c \in Clerks, StatusWrite(c) PROVE FALSE
  <2>1. Same(t) \/ tickets'[t] = Updated(tickets[t], clerk[c])
    BY <1>0, <1>2 DEF StatusWrite, Same
  <2> QED BY <1>0, <2>1, UpdatedKeeps DEF Same
<1>3. ASSUME NEW u \in TicketIds, NEW legalHold \in BOOLEAN, SetHold(u, legalHold) PROVE FALSE
  BY <1>0, <1>3 DEF SetHold, TicketRecord
<1>4. ASSUME NEW a \in Agents, ResolveWrite(a) PROVE FALSE
  BY <1>0, <1>4 DEF ResolveWrite, WithOutcome, TicketRecord
<1>5. ASSUME NEW x \in Runs, NEW u \in TicketIds, RunClean(x, u)
      PROVE  Resolved(t) /\ \E y \in Runs : t \in run[y].left
  BY <1>0, <1>5 DEF RunClean, TicketRecord
<1>6. CASE Restart
  BY <1>0, <1>6 DEF Restart, SeededTicket, NewTicket, NoTicketYet
<1>7. CASE UNCHANGED tickets
  BY <1>0, <1>7
<1> QED BY <1>1, <1>2, <1>3, <1>4, <1>5, <1>6, <1>7
        DEF Next, vars, StatusRead, StatusFails, ResolveRead, ResolveCheck, ResolveFails,
            RunStart, RunEnd, Tick

\* A legal hold set before a clean-up starts protects the evidence from it, however
\* many clean-ups and requests overlap.
THEOREM HoldProtects == Spec => HoldBeforeRunProtects
<1>1. SafetyInv /\ [Next]_vars =>
        [\A t \in TicketIds : Stripped(t) /\ tickets[t].hold =>
           \E x \in Runs : t \in run[x].left /\ heldSince[t] >= run[x].start]_vars
  BY StripStep DEF SafetyInv, HeldLater
<1> QED BY <1>1, Safety, PTL DEF Spec, HoldBeforeRunProtects

-----------------------------------------------------------------------------
(* The retention period *)

\* Arithmetic on the dates needs them to be integers.
LEMMA DatesAreIntegers ==
    ASSUME SafetyInv
    PROVE  /\ clock \in Nat /\ Retention \in Nat
           /\ \A t \in TicketIds : /\ tickets[t].resolvedAt \in Int /\ tickets[t].updatedAt \in Int
                                   /\ tickets[t] \in TicketRecord
           /\ \A t \in TicketIds : marked[t] \in Int /\ (marked[t] # Never => marked[t] >= 0)
           /\ \A a \in Agents : agent[a].at \in Nat
           /\ \A c \in Clerks : clerk[c].at \in Nat
  BY NumbersAssumption
  DEF SafetyInv, TypeOK, TicketRecord, AgentRecord, ClerkRecord, Dates, Time, Never

\* What a status request asked for is dated when it read the ticket.
LEMMA MarksPastInit == Init => MarksPast
  BY NumbersAssumption DEF Init, MarksPast, IdleClerk, Never

LEMMA MarksPastNext ==
    ASSUME SafetyInv, MarksPast, [Next]_vars
    PROVE  MarksPast'
<1>0. /\ clock \in Nat /\ IdleClerk.at = 0
      /\ \A c \in Clerks : clerk[c].at \in Nat /\ clerk[c].at <= clock
      /\ \A t \in TicketIds : marked[t] \in Int /\ marked[t] <= clock
  BY DatesAreIntegers DEF MarksPast, IdleClerk
<1>1. ASSUME NEW c \in Clerks, NEW t \in TicketIds, NEW status \in Statuses,
             StatusRead(c, t, status)
      PROVE  MarksPast'
  BY <1>0, <1>1 DEF StatusRead, history, MarksPast, SafetyInv, TypeOK
<1>2. ASSUME NEW c \in Clerks, StatusWrite(c) PROVE MarksPast'
  <2>1. \A t \in TicketIds : marked'[t] = marked[t] \/ marked'[t] = clerk[c].at
    BY <1>2 DEF StatusWrite, Marked, SafetyInv, TypeOK
  <2> QED BY <1>0, <1>2, <2>1 DEF StatusWrite, MarksPast, SafetyInv, TypeOK
<1>3. ASSUME NEW c \in Clerks, StatusFails(c) PROVE MarksPast'
  BY <1>0, <1>3 DEF StatusFails, history, MarksPast, SafetyInv, TypeOK
<1>4. CASE Restart
  BY <1>0, <1>4 DEF Restart, MarksPast
<1>5. CASE Tick
  BY <1>0, <1>5 DEF Tick, api, history, MarksPast
<1>6. CASE UNCHANGED <<clerk, clock, marked>>
  BY <1>6 DEF MarksPast
<1> QED BY <1>1, <1>2, <1>3, <1>4, <1>5, <1>6
        DEF Next, vars, api, history, CreateTicket, SetHold, ResolveRead, ResolveCheck,
            ResolveWrite, ResolveFails, RunStart, RunClean, RunEnd

\* What the invariant says of one ticket, and of one ticket on the list of a run.
Closed(t) ==
    /\ tickets[t].status = "resolved" =>
         \/ Resolved(t) /\ tickets[t].resolvedAt <= tickets[t].updatedAt
         \/ marked[t] # Never /\ marked[t] <= tickets[t].updatedAt
    /\ Resolved(t) <=> tickets[t].resolvedAt # Never

LEMMA CleanupParts ==
    CleanupInv <=> /\ \A t \in TicketIds : Closed(t)
                   /\ \A x \in Runs : \A t \in run[x].left \ SeedTickets : Aged(t)
  BY DEF CleanupInv, Closed

LEMMA CleanupInit == Init => CleanupInv
<1> SUFFICES ASSUME Init PROVE CleanupInv
  OBVIOUS
<1>1. \A t \in TicketIds : tickets[t] \in {NoTicketYet, SeededTicket(0)}
  BY DEF Init
<1>2. \A t \in TicketIds : tickets[t].status # "resolved" /\ tickets[t].outcome = NoOutcome
  <2>1. NoTicketYet.status = "none" /\ NoTicketYet.outcome = NoOutcome
    BY DEF NoTicketYet
  <2>2. NewTicket(0).outcome = NoOutcome
    BY DEF NewTicket, NoTicketYet
  <2>3. SeededTicket(0).status = Waiting /\ SeededTicket(0).outcome = NoOutcome
    BY <2>2 DEF SeededTicket, NewTicket, NoTicketYet
  <2> QED BY <1>1, <2>1, <2>3 DEF Waiting
<1>3. \A x \in Runs : run[x].left = {}
  BY DEF Init, IdleRun
<1>4. \A t \in TicketIds : tickets[t].resolvedAt = Never
  <2>1. NoTicketYet.resolvedAt = Never
    BY DEF NoTicketYet
  <2>2. SeededTicket(0).resolvedAt = Never
    BY DEF SeededTicket, NewTicket, NoTicketYet
  <2> QED BY <1>1, <2>1, <2>2
<1> QED BY <1>2, <1>3, <1>4 DEF CleanupInv, Resolved

\* A mark is never taken back, nor moved to a later date.
LEMMA MarksStay ==
    ASSUME SafetyInv, [Next]_vars, NEW t \in TicketIds, marked[t] # Never
    PROVE  marked'[t] # Never /\ marked'[t] <= marked[t]
<1>1. CASE UNCHANGED marked
  BY <1>1, DatesAreIntegers
<1>2. ASSUME NEW c \in Clerks, StatusWrite(c)
      PROVE  marked'[t] # Never /\ marked'[t] <= marked[t]
  <2>1. marked'[t] = marked[t] \/ (marked'[t] = clerk[c].at /\ clerk[c].at < marked[t])
    BY <1>2 DEF SafetyInv, TypeOK, StatusWrite, Marked
  <2> QED BY <1>2, <2>1, DatesAreIntegers DEF Never
<1> QED BY <1>1, <1>2
        DEF Next, vars, history, CreateTicket, StatusRead, StatusFails, SetHold, ResolveRead,
            ResolveCheck, ResolveWrite, ResolveFails, RunStart, RunClean, RunEnd, Restart, Tick

\* Once said to be resolved long enough ago, a ticket stays so.
LEMMA AgedStays ==
    ASSUME SafetyInv, [Next]_vars, NEW t \in TicketIds \ SeedTickets, Aged(t)
    PROVE  Aged(t)'
<1>1. Resolved(t) => /\ tickets'[t].outcome = tickets[t].outcome
                     /\ tickets'[t].resolvedAt = tickets[t].resolvedAt
  BY OutcomeStep
<1>2. clock' \in Int /\ clock' >= clock
  <2>1. CASE Tick
    BY <2>1, DatesAreIntegers DEF Tick
  <2>2. CASE UNCHANGED clock
    BY <2>2, DatesAreIntegers
  <2> QED BY <2>1, <2>2
          DEF Next, vars, CreateTicket, StatusRead, StatusWrite, StatusFails, SetHold, ResolveRead,
              ResolveCheck, ResolveWrite, ResolveFails, RunStart, RunClean, RunEnd, Restart
<1>3. CASE Resolved(t) /\ LongAgo(tickets[t].resolvedAt)
  BY <1>1, <1>2, <1>3, DatesAreIntegers DEF Aged, Resolved, LongAgo
<1>4. CASE LongAgo(marked[t])
  <2>1. marked'[t] # Never /\ marked'[t] <= marked[t] /\ marked[t] <= clock - Retention
    BY <1>4, MarksStay DEF LongAgo
  <2>2. marked'[t] \in Int
    BY TypesNext, NumbersAssumption DEF SafetyInv, TypeOK, Dates, Time, Never
  <2> QED BY <1>2, <2>1, <2>2, DatesAreIntegers DEF Aged, LongAgo
<1> QED BY <1>3, <1>4 DEF Aged

\* What a step puts on the list of a run is resolved long enough ago.
LEMMA ListedAged ==
    ASSUME SafetyInv, CleanupInv, [Next]_vars,
           NEW x \in Runs, NEW t \in run'[x].left, t \notin SeedTickets
    PROVE  t \in TicketIds /\ Aged(t)
<1> USE DEF SafetyInv, TypeOK
<1>0. run[x].left \subseteq TicketIds
  BY DEF RunRecord
<1>1. CASE t \in run[x].left
  BY <1>0, <1>1, CleanupParts
<1>2. CASE t \notin run[x].left
  <2>1. t \in TicketIds /\ Candidate(t)
    <3>1. ASSUME NEW y \in Runs, RunStart(y) PROVE t \in TicketIds /\ Candidate(t)
      BY <1>2, <3>1 DEF RunStart
    <3>2. ASSUME NEW y \in Runs, NEW u \in TicketIds, RunClean(y, u) PROVE FALSE
      BY <1>2, <3>2 DEF RunClean, RunRecord
    <3>3. ASSUME NEW y \in Runs, RunEnd(y) PROVE FALSE
      BY <1>2, <3>3 DEF RunEnd, IdleRun
    <3>4. CASE UNCHANGED run
      BY <1>2, <3>4
    <3> QED BY <3>1, <3>2, <3>3, <3>4
            DEF Next, vars, api, CreateTicket, StatusRead, StatusWrite, StatusFails, SetHold,
                ResolveRead, ResolveCheck, ResolveWrite, ResolveFails, Restart, Tick
  <2>2. Closed(t)
    BY <2>1, CleanupParts
  <2> QED BY <2>1, <2>2, DatesAreIntegers DEF Candidate, OldEnough, Closed, Aged, LongAgo
<1> QED BY <1>1, <1>2

\* No step brings a ticket's status, outcome and dates out of step.
LEMMA ClosedStep ==
    ASSUME SafetyInv, MarksPast, [Next]_vars,
           NEW t \in TicketIds, Closed(t)
    PROVE  Closed(t)'
<1> USE DEF SafetyInv, TypeOK
<1>0. /\ tickets[t] \in TicketRecord
      /\ tickets[t].resolvedAt \in Int /\ tickets[t].resolvedAt <= clock
      /\ marked[t] \in Int /\ marked[t] <= clock /\ clock \in Int
  BY DatesAreIntegers DEF DatesPast, MarksPast
<1>1. ASSUME NEW u \in TicketIds, CreateTicket(u) PROVE Closed(t)'
  <2>1. CASE u = t
    <3>1. tickets'[t] = NewTicket(clock)
      BY <1>1, <2>1 DEF CreateTicket
    <3> QED BY <3>1 DEF NewTicket, NoTicketYet, Closed, Resolved
  <2>2. CASE u # t
    <3>1. Same(t) /\ marked' = marked
      BY <1>1, <2>2 DEF CreateTicket, Same
    <3> QED BY <3>1 DEF Same, Closed, Resolved
  <2> QED BY <2>1, <2>2
<1>2. ASSUME NEW c \in Clerks, StatusWrite(c) PROVE Closed(t)'
  <2>1. CASE t = clerk[c].ticket
    <3>1. /\ tickets'[t] = Updated(tickets[t], clerk[c])
          /\ marked'[t] = Marked(marked[t], clerk[c])
      BY <1>2, <2>1 DEF StatusWrite
    <3>2. /\ tickets'[t].status = clerk[c].status /\ tickets'[t].outcome = tickets[t].outcome
          /\ tickets'[t].resolvedAt = tickets[t].resolvedAt
          /\ tickets'[t].updatedAt = clerk[c].at
      BY <1>0, <3>1, UpdatedKeeps
    <3>3. clerk[c].status = "resolved" => marked'[t] # Never /\ marked'[t] <= clerk[c].at
      BY <1>0, <3>1, DatesAreIntegers DEF Marked, Never
    <3> QED BY <3>2, <3>3 DEF Closed, Resolved
  <2>2. CASE t # clerk[c].ticket
    <3>1. Same(t) /\ marked'[t] = marked[t]
      BY <1>2, <2>2 DEF StatusWrite, Asked, Same
    <3> QED BY <3>1 DEF Same, Closed, Resolved
  <2> QED BY <2>1, <2>2
<1>3. ASSUME NEW u \in TicketIds, NEW legalHold \in BOOLEAN, SetHold(u, legalHold)
      PROVE  Closed(t)'
  <2>1. /\ tickets'[t].status = tickets[t].status /\ tickets'[t].outcome = tickets[t].outcome
        /\ tickets'[t].resolvedAt = tickets[t].resolvedAt
        /\ tickets'[t].updatedAt \in {tickets[t].updatedAt, clock}
        /\ marked' = marked
    BY <1>0, <1>3 DEF SetHold, TicketRecord
  <2> QED BY <1>0, <2>1 DEF Closed, Resolved
<1>4. ASSUME NEW a \in Agents, ResolveWrite(a) PROVE Closed(t)'
  <2>0. marked' = marked
    BY <1>4 DEF ResolveWrite, history
  <2>1. CASE Same(t)
    BY <2>0, <2>1 DEF Same, Closed, Resolved
  <2>2. CASE ~Same(t)
    <3>1. tickets'[t] = WithOutcome(tickets[t], a, agent[a].at)
      BY <1>4, <2>2 DEF ResolveWrite, Addressed, Same
    <3>2. /\ tickets'[t].outcome = a /\ tickets'[t].resolvedAt = agent[a].at
          /\ tickets'[t].updatedAt = clock
      BY <1>0, <3>1 DEF WithOutcome, TicketRecord
    <3>3. agent[a].at \in Nat /\ agent[a].at <= clock
      BY DatesAreIntegers DEF DatesPast
    <3> QED BY <3>2, <3>3, SetsAssumption DEF Closed, Resolved, Never
  <2> QED BY <2>1, <2>2
<1>5. ASSUME NEW x \in Runs, NEW u \in TicketIds, RunClean(x, u) PROVE Closed(t)'
  <2>1. /\ tickets'[t].status = tickets[t].status /\ tickets'[t].outcome = tickets[t].outcome
        /\ tickets'[t].resolvedAt = tickets[t].resolvedAt
        /\ tickets'[t].updatedAt \in {tickets[t].updatedAt, clock}
        /\ marked' = marked
    BY <1>0, <1>5 DEF RunClean, TicketRecord, history
  <2> QED BY <1>0, <2>1 DEF Closed, Resolved
<1>6. CASE Restart
  <2>0. marked' = marked
    BY <1>6 DEF Restart
  <2>1. CASE Same(t)
    BY <2>0, <2>1 DEF Same, Closed, Resolved
  <2>2. CASE tickets'[t] = SeededTicket(clock)
    BY <2>2 DEF SeededTicket, NewTicket, NoTicketYet, Waiting, Closed, Resolved
  <2> QED BY <1>6, <2>1, <2>2 DEF Restart, Same
<1>7. CASE UNCHANGED <<tickets, marked>>
  BY <1>7 DEF Closed, Resolved
<1> QED BY <1>1, <1>2, <1>3, <1>4, <1>5, <1>6, <1>7
        DEF Next, vars, history, StatusRead, StatusFails, ResolveRead, ResolveCheck, ResolveFails,
            RunStart, RunEnd, Tick

LEMMA CleanupNext == SafetyInv /\ MarksPast /\ CleanupInv /\ [Next]_vars => CleanupInv'
<1> SUFFICES ASSUME SafetyInv, MarksPast, CleanupInv, [Next]_vars PROVE CleanupInv'
  OBVIOUS
<1>1. \A t \in TicketIds : Closed(t)'
  BY CleanupParts, ClosedStep
<1>2. \A x \in Runs : \A t \in run'[x].left \ SeedTickets : Aged(t)'
  BY ListedAged, AgedStays
<1> QED BY <1>1, <1>2 DEF CleanupInv, Closed

\* No clean-up takes the evidence of a ticket before the retention period is over, from
\* the day on which its outcome or a status request said it was resolved.
THEOREM EvidenceIsRetained == Spec => EvidenceKeptForRetention
<1>0. SafetyInv /\ MarksPast /\ [Next]_vars => MarksPast'
  BY MarksPastNext
<1>1. Spec => [](SafetyInv /\ CleanupInv)
  BY <1>0, SafetyInit, SafetyNext, MarksPastInit, CleanupInit, CleanupNext, PTL DEF Spec
<1>2. SafetyInv /\ CleanupInv /\ [Next]_vars =>
        [\A t \in TicketIds \ SeedTickets : Stripped(t) =>
           Resolved(t) /\ Aged(t)]_vars
  BY StripStep DEF CleanupInv
<1> QED BY <1>1, <1>2, PTL DEF Spec, EvidenceKeptForRetention

-----------------------------------------------------------------------------
(* The deadline and its pauses, of a ticket that status requests are at one by one *)

\* What the deadline of a ticket depends on.
SlaOf(tk) == <<tk.due, tk.isPaused, tk.pausedAt>>

\* A ticket's pause is the wait that goes on, and its deadline has all that are over.
Counted(t) ==
    /\ ~Exists(t) => wait[t] = NoWait
    /\ Exists(t) /\ t \notin crossed =>
         /\ tickets[t].due = promised[t] + wait[t].total
         /\ tickets[t].isPaused <=> wait[t].since # Never
         /\ tickets[t].isPaused => tickets[t].pausedAt = wait[t].since
         /\ ~Resolved(t) => (tickets[t].status = Waiting <=> tickets[t].isPaused)

\* A request that is about to write knows the deadline as it is, unless it was overtaken.
UpToDate ==
    \A c \in Clerks : clerk[c].pc = "writing" =>
        /\ Exists(clerk[c].ticket)
        /\ clerk[c].ticket \notin crossed =>
             SlaOf(clerk[c].read) = SlaOf(tickets[clerk[c].ticket])

SlaInv == UpToDate /\ \A t \in TicketIds : Counted(t)

\* A ticket that somebody resolves is one that was created.
Reached == \A a \in Agents : agent[a].pc # "idle" => Exists(agent[a].ticket)

\* No step takes a ticket away.
LEMMA TicketsStay ==
    ASSUME TypeOK, Asked, Addressed, Next
    PROVE  \A t \in TicketIds : Exists(t) => Exists(t)'
<1> USE DEF api, history
<1>1. CASE \E t \in TicketIds : CreateTicket(t)
  <2> PICK t \in TicketIds : CreateTicket(t)
    BY <1>1
  <2> QED BY DEF CreateTicket, TypeOK, Exists
<1>2. CASE \E c \in Clerks : StatusWrite(c)
  <2> PICK c \in Clerks : StatusWrite(c)
    BY <1>2
  <2>1. PICK t \in TicketIds : t = clerk[c].ticket
    BY DEF StatusWrite, Asked
  <2>2. tickets[t] \in TicketRecord /\ clerk[c].status \in Statuses
    BY <2>1 DEF TypeOK, StatusWrite, Asked
  <2>3. Updated(tickets[t], clerk[c]).status # "none"
    BY <2>2, UpdatedKeeps, SetsAssumption
  <2>4. tickets' = [tickets EXCEPT ![t] = Updated(tickets[t], clerk[c])]
    BY <2>1 DEF StatusWrite, TypeOK
  <2> QED BY <2>3, <2>4 DEF TypeOK, Exists
<1>3. CASE \E t \in TicketIds, legalHold \in BOOLEAN : SetHold(t, legalHold)
  BY <1>3 DEF SetHold, TypeOK, Exists, TicketRecord
<1>4. CASE \E a \in Agents : ResolveWrite(a)
  <2> PICK a \in Agents : ResolveWrite(a)
    BY <1>4
  <2>1. PICK t \in TicketIds : t = agent[a].ticket
    BY DEF ResolveWrite, Addressed
  <2> DEFINE n == WithOutcome(tickets[t], a, agent[a].at)
  <2>2. n.status = "resolved"
    BY DEF WithOutcome, TypeOK, TicketRecord
  <2>3. tickets' = [tickets EXCEPT ![t] = n] \/ tickets' = tickets
    BY <2>1 DEF ResolveWrite
  <2> HIDE DEF n
  <2> QED BY <2>2, <2>3 DEF TypeOK, Exists
<1>5. CASE \E x \in Runs, t \in TicketIds : RunClean(x, t)
  <2> PICK x \in Runs, t \in TicketIds : RunClean(x, t)
    BY <1>5
  <2> DEFINE n == [tickets[t] EXCEPT !.evidence = FALSE, !.cleaned = TRUE, !.updatedAt = clock]
  <2>1. n.status = tickets[t].status
    BY DEF TypeOK, TicketRecord
  <2>2. tickets' = [tickets EXCEPT ![t] = n] \/ tickets' = tickets
    BY DEF RunClean, TypeOK, TicketRecord
  <2> HIDE DEF n
  <2> QED BY <2>1, <2>2 DEF TypeOK, Exists
<1>6. CASE Restart
  BY <1>6 DEF Restart, Exists, SeededTicket, NewTicket, NoTicketYet, Waiting
<1>7. CASE \/ \E c \in Clerks, t \in TicketIds, status \in Statuses : StatusRead(c, t, status)
           \/ \E c \in Clerks : StatusFails(c)
           \/ \E a \in Agents, t \in TicketIds : ResolveRead(a, t)
           \/ \E a \in Agents : ResolveCheck(a) \/ ResolveFails(a)
           \/ \E x \in Runs : RunStart(x) \/ RunEnd(x)
           \/ Tick
  BY <1>7 DEF StatusRead, StatusFails, ResolveRead, ResolveCheck, ResolveFails, RunStart,
              RunEnd, Tick, Exists
<1> QED BY <1>1, <1>2, <1>3, <1>4, <1>5, <1>6, <1>7 DEF Next

LEMMA ReachedNext ==
    ASSUME TypeOK, Asked, Addressed, Reached, [Next]_vars
    PROVE  Reached'
<1> USE DEF api, history
<1>1. CASE UNCHANGED vars
  BY <1>1 DEF vars, Reached, Exists
<1>2. CASE Next
  <2>1. \A t \in TicketIds : Exists(t) => Exists(t)'
    BY <1>2, TicketsStay
  <2>2. \/ agent' = agent
        \/ agent' = [a \in Agents |-> IdleAgent]
        \/ \E a \in Agents :
             \/ agent' = [agent EXCEPT ![a] = IdleAgent]
             \/ /\ agent[a].pc # "idle"
                /\ agent' = [agent EXCEPT ![a].pc = "writing", ![a].at = clock]
             \/ \E t \in TicketIds :
                  /\ Exists(t)
                  /\ agent' = [agent EXCEPT ![a] = [pc |-> "checking", ticket |-> t, at |-> 0]]
    <3>1. CASE \/ \E a \in Agents, t \in TicketIds : ResolveRead(a, t)
               \/ \E a \in Agents : ResolveCheck(a) \/ ResolveWrite(a) \/ ResolveFails(a)
      BY <3>1 DEF ResolveRead, ResolveCheck, ResolveWrite, ResolveFails
    <3>2. CASE \/ \E t \in TicketIds : CreateTicket(t)
               \/ \E c \in Clerks, t \in TicketIds, status \in Statuses : StatusRead(c, t, status)
               \/ \E c \in Clerks : StatusWrite(c) \/ StatusFails(c)
               \/ \E t \in TicketIds, legalHold \in BOOLEAN : SetHold(t, legalHold)
               \/ \E x \in Runs : RunStart(x) \/ RunEnd(x)
               \/ \E x \in Runs, t \in TicketIds : RunClean(x, t)
               \/ Restart \/ Tick
      BY <3>2 DEF CreateTicket, StatusRead, StatusWrite, StatusFails, SetHold, RunStart, RunEnd,
                  RunClean, Restart, Tick
    <3> QED BY <1>2, <3>1, <3>2 DEF Next
  <2>3. ASSUME NEW a \in Agents, agent'[a].pc # "idle"
        PROVE  \E t \in TicketIds : agent'[a].ticket = t /\ Exists(t)
    <3>1. \/ agent[a].pc # "idle" /\ agent'[a].ticket = agent[a].ticket
          \/ \E t \in TicketIds : agent'[a].ticket = t /\ Exists(t)
      <4> IdleAgent.pc = "idle"
        BY DEF IdleAgent
      <4>1. CASE agent' = agent \/ agent' = [b \in Agents |-> IdleAgent]
        BY <2>3, <4>1
      <4>2. ASSUME NEW b \in Agents, agent' = [agent EXCEPT ![b] = IdleAgent]
            PROVE  agent[a].pc # "idle" /\ agent'[a].ticket = agent[a].ticket
        BY <2>3, <4>2 DEF TypeOK
      <4>3. ASSUME NEW b \in Agents, agent[b].pc # "idle",
                   agent' = [agent EXCEPT ![b].pc = "writing", ![b].at = clock]
            PROVE  agent[a].pc # "idle" /\ agent'[a].ticket = agent[a].ticket
        BY <2>3, <4>3 DEF TypeOK, AgentRecord
      <4>4. ASSUME NEW b \in Agents, NEW t \in TicketIds, Exists(t),
                   agent' = [agent EXCEPT ![b] = [pc |-> "checking", ticket |-> t, at |-> 0]]
            PROVE  \/ agent[a].pc # "idle" /\ agent'[a].ticket = agent[a].ticket
                   \/ \E z \in TicketIds : agent'[a].ticket = z /\ Exists(z)
        BY <2>3, <4>4 DEF TypeOK
      <4> QED BY <2>2, <4>1, <4>2, <4>3, <4>4
    <3> QED BY <3>1 DEF Addressed, Reached
  <2> QED BY <2>1, <2>3 DEF Reached
<1> QED BY <1>1, <1>2

LEMMA SlaInit == Init => SlaInv
<1> SUFFICES ASSUME Init PROVE SlaInv
  OBVIOUS
<1>1. UpToDate
  BY DEF Init, UpToDate, IdleClerk
<1>2. ASSUME NEW t \in TicketIds, t \in SeedTickets
      PROVE  Counted(t)
  <2>1. tickets[t] = SeededTicket(0) /\ promised[t] = SeedAllowance
        /\ wait[t] = [NoWait EXCEPT !.since = 0]
    BY <1>2 DEF Init
  <2> QED BY <2>1, NumbersAssumption
          DEF Counted, SeededTicket, NewTicket, NoTicketYet, NoWait, Exists, Waiting, Never
<1>3. ASSUME NEW t \in TicketIds, t \notin SeedTickets
      PROVE  Counted(t)
  BY <1>3 DEF Init, Counted, Exists, NoTicketYet
<1> QED BY <1>1, <1>2, <1>3 DEF SlaInv

\* A step that touches neither deadlines nor waits, and resolves a ticket or leaves its
\* status alone.
LEMMA SlaFrame ==
    ASSUME TypeOK, SlaInv, UNCHANGED <<promised, wait, crossed>>,
           \A t \in TicketIds :
             /\ SlaOf(tickets'[t]) = SlaOf(tickets[t])
             /\ Exists(t)' <=> Exists(t)
             /\ \/ Resolved(t)'
                \/ ~Resolved(t) /\ tickets'[t].status = tickets[t].status,
           \A c \in Clerks : clerk'[c].pc = "writing" =>
             clerk'[c] = clerk[c] /\ clerk[c].ticket \in TicketIds
    PROVE  SlaInv'
<1>1. UpToDate'
  BY DEF SlaInv, UpToDate
<1>2. ASSUME NEW t \in TicketIds
      PROVE  Counted(t)'
  <2>1. /\ tickets'[t].due = tickets[t].due /\ tickets'[t].isPaused = tickets[t].isPaused
        /\ tickets'[t].pausedAt = tickets[t].pausedAt
    BY DEF SlaOf
  <2> QED BY <2>1 DEF SlaInv, Counted
<1> QED BY <1>1, <1>2 DEF SlaInv

\* updateTicketStatus: the ticket is still paused or not as it was read, unless it is
\* crossed by now.
LEMMA WriteCounted ==
    ASSUME TypeOK, Asked, SlaInv, NEW c \in Clerks, StatusWrite(c)
    PROVE  \A t \in TicketIds : Counted(t)'
<1>0. PICK t \in TicketIds, r \in ClerkRecord : r = clerk[c] /\ t = r.ticket
  BY DEF StatusWrite, TypeOK, Asked
<1>1. /\ r.status \in Statuses /\ r.at \in Int /\ r.at # Never
      /\ tickets[t] \in TicketRecord /\ wait[t] \in WaitRecord
  BY <1>0, NumbersAssumption DEF StatusWrite, TypeOK, Asked, ClerkRecord, Time, Never
<1>2. /\ tickets'[t] = Updated(tickets[t], r) /\ wait'[t] = Waited(wait[t], r)
      /\ \A z \in TicketIds : z # t => tickets'[z] = tickets[z] /\ wait'[z] = wait[z]
      /\ promised' = promised
  BY <1>0 DEF StatusWrite, TypeOK
<1>3. Exists(t) /\ Counted(t)
  BY <1>0 DEF SlaInv, UpToDate, StatusWrite
<1>8. crossed \subseteq crossed'
  BY DEF StatusWrite
<1>4. ASSUME t \notin crossed
      PROVE  /\ r.read.due = tickets[t].due /\ r.read.isPaused = tickets[t].isPaused
             /\ r.read.pausedAt = tickets[t].pausedAt
  BY <1>0, <1>4 DEF SlaOf, SlaInv, UpToDate, StatusWrite
<1>5. /\ tickets'[t].status = r.status /\ r.status # "none"
      /\ tickets'[t].outcome = tickets[t].outcome
  BY <1>1, <1>2, UpdatedKeeps, SetsAssumption
<1>6. Counted(t)'
  <2>4. CASE t \in crossed'
    BY <1>5, <2>4 DEF Counted, Exists
  <2> SUFFICES ASSUME t \notin crossed' PROVE Counted(t)'
    BY <2>4
  <2>5. t \notin crossed
    BY <1>8
  <2>1. CASE Pauses(r)
    <3>1. /\ tickets'[t].isPaused = TRUE /\ tickets'[t].pausedAt = r.at
          /\ tickets'[t].due = tickets[t].due
      BY <1>1, <1>2, <2>1 DEF Updated, TicketRecord
    <3>2. wait[t].since = Never /\ r.status = Waiting
      BY <1>3, <1>4, <2>5, <2>1 DEF Counted, Pauses
    <3>3. wait'[t] = [wait[t] EXCEPT !.since = r.at]
      BY <1>2, <3>2 DEF Waited
    <3>4. wait'[t].since = r.at /\ wait'[t].total = wait[t].total
      BY <1>1, <3>3 DEF WaitRecord
    <3>5. tickets[t].due = promised[t] + wait[t].total
      BY <1>3, <2>5 DEF Counted
    <3> QED BY <1>1, <1>2, <1>5, <3>1, <3>2, <3>4, <3>5 DEF Counted, Exists
  <2>2. CASE Resumes(r)
    <3>1. /\ tickets'[t].isPaused = FALSE
          /\ tickets'[t].due = r.read.due + (r.at - r.read.pausedAt)
      BY <1>1, <1>2, <2>2 DEF Updated, AfterPause, TicketRecord, Pauses, Resumes
    <3>2. /\ wait[t].since # Never /\ tickets[t].pausedAt = wait[t].since
          /\ r.status # Waiting
      BY <1>3, <1>4, <2>5, <2>2 DEF Counted, Resumes
    <3>3. wait'[t] = [since |-> Never, total |-> wait[t].total + (r.at - wait[t].since)]
      BY <1>2, <3>2 DEF Waited
    <3>4. wait'[t].since = Never /\ wait'[t].total = wait[t].total + (r.at - wait[t].since)
      BY <3>3
    <3>5. /\ promised[t] \in Int /\ wait[t].total \in Int /\ wait[t].since \in Int
      BY <1>1, NumbersAssumption DEF TypeOK, WaitRecord, Dates, Time, Never
    <3>6. tickets[t].due = promised[t] + wait[t].total
      BY <1>3, <2>5 DEF Counted
    <3>7. tickets'[t].due = (promised[t] + wait[t].total) + (r.at - wait[t].since)
      BY <1>4, <2>5, <3>1, <3>2, <3>6
    <3>8. tickets'[t].due = promised'[t] + wait'[t].total
      BY <1>1, <1>2, <3>4, <3>5, <3>7
    <3> QED BY <1>5, <3>1, <3>2, <3>4, <3>8 DEF Counted, Exists
  <2>3. CASE ~Pauses(r) /\ ~Resumes(r)
    <3>1. tickets'[t] = [tickets[t] EXCEPT !.status = r.status, !.updatedAt = r.at]
      BY <1>2, <2>3 DEF Updated
    <3>2. /\ tickets'[t].due = tickets[t].due /\ tickets'[t].isPaused = tickets[t].isPaused
          /\ tickets'[t].pausedAt = tickets[t].pausedAt
      BY <1>1, <3>1 DEF TicketRecord
    <3>3. /\ tickets[t].due = promised[t] + wait[t].total
          /\ tickets[t].isPaused <=> wait[t].since # Never
          /\ tickets[t].isPaused => tickets[t].pausedAt = wait[t].since
      BY <1>3, <2>5 DEF Counted
    <3>4. r.status = Waiting <=> tickets[t].isPaused
      BY <1>4, <2>5, <2>3, <3>3 DEF Pauses, Resumes
    <3>5. \/ r.status = Waiting /\ wait[t].since # Never
          \/ r.status # Waiting /\ wait[t].since = Never
      BY <3>3, <3>4
    <3>6. wait'[t].since = wait[t].since /\ wait'[t].total = wait[t].total
      BY <1>1, <1>2, <3>5 DEF Waited, WaitRecord
    <3> QED BY <1>2, <1>5, <3>2, <3>3, <3>4, <3>6 DEF Counted, Exists
  <2> QED BY <2>1, <2>2, <2>3
<1>7. ASSUME NEW z \in TicketIds, z # t
      PROVE  Counted(z)'
  <2>1. tickets'[z] = tickets[z] /\ wait'[z] = wait[z] /\ promised'[z] = promised[z]
    BY <1>2, <1>7
  <2> QED BY <1>8, <2>1 DEF SlaInv, Counted, Exists, Resolved
<1> QED BY <1>6, <1>7

LEMMA SlaNext ==
    ASSUME TypeOK, Asked, Addressed, Reached, SlaInv, [Next]_vars
    PROVE  SlaInv'
<1> USE DEF api, history
<1>1. CASE \E t \in TicketIds : CreateTicket(t)
  <2> PICK t \in TicketIds : CreateTicket(t)
    BY <1>1
  <2>1. /\ tickets'[t] = NewTicket(clock) /\ promised'[t] = ResolutionDue[clock]
        /\ wait' = wait /\ wait[t] = NoWait /\ clerk' = clerk /\ crossed' = crossed
    BY DEF CreateTicket, TypeOK, SlaInv, Counted
  <2>2. ResolutionDue[clock] \in Int
    BY NumbersAssumption DEF TypeOK, Time
  <2>3. Counted(t)'
    BY <2>1, <2>2 DEF Counted, NewTicket, NoTicketYet, NoWait, Exists, Waiting, Never
  <2>4. \A z \in TicketIds : z # t => tickets'[z] = tickets[z] /\ promised'[z] = promised[z]
    BY DEF CreateTicket, TypeOK
  <2>5. \A z \in TicketIds : z # t => Counted(z)'
    BY <2>1, <2>4 DEF SlaInv, Counted, Exists, Resolved
  <2>6. UpToDate'
    BY <2>1, <2>4 DEF SlaInv, UpToDate, Asked, CreateTicket, Exists
  <2> QED BY <2>3, <2>5, <2>6 DEF SlaInv
<1>2. CASE \E c \in Clerks, t \in TicketIds, status \in Statuses : StatusRead(c, t, status)
  <2> PICK c \in Clerks, t \in TicketIds, status \in Statuses : StatusRead(c, t, status)
    BY <1>2
  <2>1. /\ UNCHANGED <<tickets, promised, wait, crossed>> /\ Exists(t)
        /\ clerk'[c].ticket = t /\ clerk'[c].read = tickets[t]
        /\ \A d \in Clerks : d # c => clerk'[d] = clerk[d]
    BY DEF StatusRead, TypeOK
  <2>2. UpToDate'
    BY <2>1 DEF SlaInv, UpToDate, Exists
  <2>3. \A z \in TicketIds : Counted(z)'
    BY <2>1 DEF SlaInv, Counted, Exists, Resolved
  <2> QED BY <2>2, <2>3 DEF SlaInv
<1>3. CASE \E c \in Clerks : StatusWrite(c)
  <2> PICK c \in Clerks : StatusWrite(c)
    BY <1>3
  <2> DEFINE t == clerk[c].ticket
  <2>1. /\ clerk'[c].pc = "idle" /\ \A d \in Clerks : d # c => clerk'[d] = clerk[d]
        /\ \A z \in TicketIds : z # t => tickets'[z] = tickets[z]
        /\ crossed \subseteq crossed'
    BY DEF StatusWrite, TypeOK, IdleClerk
  <2>4. \A z \in TicketIds : Exists(z) => Exists(z)'
    BY TicketsStay DEF Next
  <2>2. UpToDate'
    <3> SUFFICES ASSUME NEW d \in Clerks, clerk'[d].pc = "writing"
                 PROVE  /\ Exists(clerk[d].ticket)'
                        /\ clerk'[d].ticket \notin crossed' =>
                             SlaOf(clerk'[d].read) = SlaOf(tickets'[clerk'[d].ticket])
      BY DEF UpToDate
    <3>1. d # c /\ clerk'[d] = clerk[d] /\ clerk[d].ticket \in TicketIds
      BY <2>1 DEF Asked
    <3>2. /\ Exists(clerk[d].ticket)
          /\ clerk[d].ticket \notin crossed =>
               SlaOf(clerk[d].read) = SlaOf(tickets[clerk[d].ticket])
      BY <3>1 DEF SlaInv, UpToDate
    <3>3. CASE clerk[d].ticket = t
      <4>1. t \in crossed'
        BY <3>1, <3>3 DEF StatusWrite, AtIt
      <4> QED BY <2>4, <3>1, <3>2, <3>3, <4>1
    <3>4. CASE clerk[d].ticket # t
      BY <2>1, <2>4, <3>1, <3>2, <3>4
    <3> QED BY <3>3, <3>4
  <2> QED BY <2>2, WriteCounted DEF SlaInv
<1>4. CASE \/ \E c \in Clerks : StatusFails(c)
           \/ \E a \in Agents, t \in TicketIds : ResolveRead(a, t)
           \/ \E a \in Agents : ResolveCheck(a) \/ ResolveFails(a)
           \/ \E x \in Runs : RunStart(x) \/ RunEnd(x)
           \/ Tick \/ UNCHANGED vars
  <2>1. UNCHANGED <<tickets, promised, wait, crossed>>
    BY <1>4 DEF StatusFails, ResolveRead, ResolveCheck, ResolveFails, RunStart, RunEnd, Tick, vars
  <2>2. clerk' = clerk \/ \E c \in Clerks : clerk' = [clerk EXCEPT ![c] = IdleClerk]
    BY <1>4 DEF StatusFails, ResolveRead, ResolveCheck, ResolveFails, RunStart, RunEnd, Tick, vars
  <2>5. \A c \in Clerks : clerk'[c].pc = "writing" =>
          clerk'[c] = clerk[c] /\ clerk[c].ticket \in TicketIds
    BY <2>2 DEF TypeOK, Asked, IdleClerk
  <2>3. \A z \in TicketIds : Counted(z)'
    BY <2>1 DEF SlaInv, Counted, Exists, Resolved
  <2>4. UpToDate'
    BY <2>1, <2>5 DEF SlaInv, UpToDate, Exists
  <2> QED BY <2>3, <2>4 DEF SlaInv
<1>5. CASE \E t \in TicketIds, legalHold \in BOOLEAN : SetHold(t, legalHold)
  <2> PICK t \in TicketIds, legalHold \in BOOLEAN : SetHold(t, legalHold)
    BY <1>5
  <2> DEFINE n == [tickets[t] EXCEPT !.hold = legalHold, !.updatedAt = clock]
  <2>1. n.status = tickets[t].status /\ n.outcome = tickets[t].outcome /\ SlaOf(n) = SlaOf(tickets[t])
    BY DEF TypeOK, TicketRecord, SlaOf
  <2>2. tickets' = [tickets EXCEPT ![t] = n] /\ UNCHANGED <<promised, wait, crossed, clerk>>
    BY DEF SetHold, TypeOK, TicketRecord
  <2> HIDE DEF n
  <2>3. \A z \in TicketIds : /\ SlaOf(tickets'[z]) = SlaOf(tickets[z])
                             /\ tickets'[z].status = tickets[z].status
                             /\ tickets'[z].outcome = tickets[z].outcome
    BY <2>1, <2>2 DEF TypeOK
  <2> QED BY <2>2, <2>3, SlaFrame DEF Exists, Resolved, Asked
<1>6. CASE \E a \in Agents : ResolveWrite(a)
  <2> PICK a \in Agents : ResolveWrite(a)
    BY <1>6
  <2>1. PICK t \in TicketIds : t = agent[a].ticket
    BY DEF ResolveWrite, Addressed
  <2> DEFINE n == WithOutcome(tickets[t], a, agent[a].at)
  <2>2. /\ n.status = "resolved" /\ n.outcome = a /\ a # NoOutcome
        /\ SlaOf(n) = SlaOf(tickets[t])
    BY SetsAssumption DEF TypeOK, TicketRecord, SlaOf, WithOutcome
  <2>3. UNCHANGED <<promised, wait, crossed, clerk>>
    BY DEF ResolveWrite
  <2>4. CASE ResolveFilter(t)
    <3>1. tickets' = [tickets EXCEPT ![t] = n]
      BY <2>1, <2>4 DEF ResolveWrite
    <3>2. Exists(t)
      BY <2>1 DEF Reached, ResolveWrite
    <3> HIDE DEF n
    <3> QED BY <2>2, <2>3, <3>1, <3>2, SlaFrame DEF TypeOK, Exists, Resolved, Asked
  <2>5. CASE ~ResolveFilter(t)
    <3>1. tickets' = tickets
      BY <2>1, <2>5 DEF ResolveWrite
    <3> QED BY <2>3, <3>1, SlaFrame DEF Exists, Resolved, Asked
  <2> QED BY <2>4, <2>5
<1>7. CASE \E x \in Runs, t \in TicketIds : RunClean(x, t)
  <2> PICK x \in Runs, t \in TicketIds : RunClean(x, t)
    BY <1>7
  <2> DEFINE n == [tickets[t] EXCEPT !.evidence = FALSE, !.cleaned = TRUE, !.updatedAt = clock]
  <2>1. n.status = tickets[t].status /\ n.outcome = tickets[t].outcome /\ SlaOf(n) = SlaOf(tickets[t])
    BY DEF TypeOK, TicketRecord, SlaOf
  <2>2. tickets' = [tickets EXCEPT ![t] = n] \/ tickets' = tickets
    BY DEF RunClean, TypeOK, TicketRecord
  <2> HIDE DEF n
  <2>3. \A z \in TicketIds : /\ SlaOf(tickets'[z]) = SlaOf(tickets[z])
                             /\ tickets'[z].status = tickets[z].status
                             /\ tickets'[z].outcome = tickets[z].outcome
    BY <2>1, <2>2 DEF TypeOK
  <2>4. UNCHANGED <<promised, wait, crossed, clerk>>
    BY DEF RunClean
  <2> QED BY <2>3, <2>4, SlaFrame DEF Exists, Resolved, Asked
<1>8. CASE Restart
  <2>1. \A c \in Clerks : clerk'[c].pc = "idle"
    BY <1>8 DEF Restart, IdleClerk
  <2>2. ASSUME NEW t \in TicketIds, t \in SeedTickets
        PROVE  Counted(t)'
    <3>1. tickets'[t] = SeededTicket(clock) /\ promised'[t] = clock + SeedAllowance
          /\ wait'[t] = [NoWait EXCEPT !.since = clock]
      BY <1>8, <2>2 DEF Restart
    <3>2. clock \in Int /\ clock # Never /\ SeedAllowance \in Int
      BY NumbersAssumption DEF TypeOK, Time, Never
    <3> QED BY <3>1, <3>2
            DEF Counted, SeededTicket, NewTicket, NoTicketYet, NoWait, Exists, Waiting
  <2>3. ASSUME NEW t \in TicketIds, t \notin SeedTickets
        PROVE  Counted(t)'
    <3>1. /\ tickets'[t] = tickets[t] /\ promised'[t] = promised[t] /\ wait'[t] = wait[t]
          /\ t \in crossed <=> t \in crossed'
      BY <1>8, <2>3 DEF Restart
    <3> QED BY <3>1 DEF SlaInv, Counted, Exists, Resolved
  <2> QED BY <2>1, <2>2, <2>3 DEF SlaInv, UpToDate
<1> QED BY <1>1, <1>2, <1>3, <1>4, <1>5, <1>6, <1>7, <1>8 DEF Next

LEMMA SlaAlways == Spec => []SlaInv
<1>1. Spec => []SafetyInv
  BY Safety
<1>2. Init => Reached
  BY DEF Init, Reached, IdleAgent
<1>3. SafetyInv /\ Reached /\ [Next]_vars => Reached'
  BY ReachedNext DEF SafetyInv
<1>4. SafetyInv /\ Reached /\ SlaInv /\ [Next]_vars => SlaInv'
  BY SlaNext DEF SafetyInv
<1> QED BY <1>1, <1>2, <1>3, <1>4, SlaInit, PTL DEF Spec

\* The deadline of a ticket has every pause in it once: updateTicketStatus works on dates
\* that no other request has moved (unless two of them were at the ticket at once), and no
\* hold, resolution, clean-up or restart in between touches the dates it computes with.
THEOREM PausesAreCounted == Spec => []DueCountsPauses
<1>1. SlaInv => DueCountsPauses
  BY DEF SlaInv, Counted, DueCountsPauses
<1> QED BY <1>1, SlaAlways, PTL

\* With the same exception the SLA clock of an open ticket stands still exactly while the
\* ticket waits for its customer.
THEOREM WaitingStopsTheClock == Spec => []WaitingIsPaused
<1>1. SlaInv => WaitingIsPaused
  BY DEF SlaInv, Counted, WaitingIsPaused
<1> QED BY <1>1, SlaAlways, PTL

=============================================================================
