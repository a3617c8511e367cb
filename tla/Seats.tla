-------------------------------- MODULE Seats --------------------------------
(***************************************************************************)
(* What a customer and the staff are promised about the seats of the        *)
(* capacity slots, with no request, worker or failing call in sight: a seat *)
(* is taken by one order while one is free, goes back once, and nobody but  *)
(* staff changes how many there are.  Booking is shown to implement it.      *)
(***************************************************************************)
EXTENDS Integers

CONSTANTS
    Slots, Orders,
    Sizes       \* what staff may set a slot's counter to

VARIABLES
    status,     \* "blurred": the counter was overwritten and promises nothing any more
    free,       \* the seats on sale
    holders,    \* the orders that hold a seat
    spent       \* the orders that gave theirs back

vars == <<status, free, holders, spent>>

TypeOK ==
    /\ status \in [Slots -> {"unborn", "open", "deleted", "blurred"}]
    /\ free \in [Slots -> Int]
    /\ holders \in [Slots -> SUBSET Orders]
    /\ spent \in [Slots -> SUBSET Orders]

Init ==
    /\ TypeOK
    /\ \A s \in Slots :
         /\ status[s] \in {"unborn", "open"} /\ spent[s] = {}
         /\ status[s] = "unborn" => free[s] = 0 /\ holders[s] = {}

Offer(s, n) ==
    /\ status[s] = "unborn"
    /\ status' = [status EXCEPT ![s] = "open"]
    /\ free' = [free EXCEPT ![s] = n]
    /\ UNCHANGED <<holders, spent>>

Withdraw(s) ==
    /\ status[s] = "open"
    /\ status' = [status EXCEPT ![s] = "deleted"]
    /\ UNCHANGED <<free, holders, spent>>

\* An order has one seat in its life.
Take(s, o) ==
    /\ status[s] = "open" /\ free[s] > 0
    /\ \A z \in Slots : o \notin holders[z] \cup spent[z]
    /\ free' = [free EXCEPT ![s] = @ - 1]
    /\ holders' = [holders EXCEPT ![s] = @ \cup {o}]
    /\ UNCHANGED <<status, spent>>

GiveBack(s, o) ==
    /\ o \in holders[s]
    /\ free' = IF status[s] = "open" THEN [free EXCEPT ![s] = @ + 1] ELSE free
    /\ holders' = [holders EXCEPT ![s] = @ \ {o}]
    /\ spent' = [spent EXCEPT ![s] = @ \cup {o}]
    /\ UNCHANGED status

\* Staff set the counter they were looking at to n.
Resize(s, n) ==
    /\ status[s] = "open"
    /\ free' = [free EXCEPT ![s] = n]
    /\ UNCHANGED <<status, holders, spent>>

\* The books of the slots in S are lost.
Blur(S) ==
    /\ status' = [s \in Slots |-> IF s \in S THEN "blurred" ELSE status[s]]
    /\ free' = [s \in Slots |-> IF s \in S THEN 0 ELSE free[s]]
    /\ holders' = [s \in Slots |-> IF s \in S THEN {} ELSE holders[s]]
    /\ spent' = [s \in Slots |-> IF s \in S THEN {} ELSE spent[s]]

Next ==
    \/ \E s \in Slots, n \in Sizes : Offer(s, n) \/ Resize(s, n)
    \/ \E s \in Slots : Withdraw(s)
    \/ \E s \in Slots, o \in Orders : Take(s, o) \/ GiveBack(s, o)
    \/ \E S \in SUBSET Slots : Blur(S)

Spec == Init /\ [][Next]_vars
=============================================================================
