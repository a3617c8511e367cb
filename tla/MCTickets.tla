------------------------------ MODULE MCTickets ------------------------------
(* Tickets on small instances: t1 is a ticket a customer opens, z1 the one the  *)
(* fixtures store.                                                              *)
EXTENDS Tickets, FiniteSets, TLC

CONSTANTS t1, z1, c1, c2, a1, a2, x1, x2

\* A ticket is due two ticks after it was opened.
DueInTwo == [t \in 0..MaxClock |-> t + 2]

\* Requests, agents and runs are interchangeable.
Interchangeable == Permutations({c1, c2}) \cup Permutations({a1, a2}) \cup Permutations({x1, x2})

\* Bounds: everything that happens is about one ticket, the restart about the one that
\* the fixtures store; for more than two ticks only its status and its outcome change.
Untouched(t) ==
    /\ tickets[t] \in {NoTicketYet} \cup {SeededTicket(now) : now \in Time}
    /\ \A c \in Clerks : clerk[c].ticket # t
    /\ \A a \in Agents : agent[a].ticket # t
OneInPlay ==
    /\ \A t \in TicketIds \ {z1} : Untouched(z1) \/ ~Exists(t)
    /\ \A t \in TicketIds \ {z1} : restarts > 0 => ~Exists(t)
    /\ clock > 2 =>
         /\ \A t \in TicketIds \ {z1} : ~Exists(t)
         /\ \A t \in TicketIds : tickets[t].evidence \/ ~Exists(t)
         /\ \A x \in Runs : run[x] = IdleRun
         /\ Cardinality({a \in Agents : agent[a] # IdleAgent}) <= 1

\* Bound: two status requests overlap once, at the fixtures' ticket and before the restart,
\* while nobody else is at work.
FewAtOnce ==
    /\ crossed # {} \/ (\A c \in Clerks : clerk[c] # IdleClerk) =>
         /\ clock <= 2 /\ \A t \in TicketIds \ {z1} : ~Exists(t)
         /\ \A x \in Runs : run[x] = IdleRun
         /\ \A a \in Agents : agent[a] = IdleAgent
    /\ crossed # {} => restarts = 0 /\ \E c \in Clerks : clerk[c] = IdleClerk

\* Bound: a status request asks for "resolved" at the ticket of a customer only, while one
\* agent and one clean-up at most are at work and no other request.
FewClaims ==
    (\E c \in Clerks : clerk[c].status = "resolved") \/ (\E t \in TicketIds : marked[t] # Never) =>
        /\ Untouched(z1) /\ restarts = 0
        /\ \E c \in Clerks : clerk[c] = IdleClerk
        /\ \E a \in Agents : agent[a] = IdleAgent
        /\ \E x \in Runs : run[x] = IdleRun
=============================================================================
