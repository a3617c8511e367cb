------------------------------- MODULE Booking -------------------------------
(***************************************************************************)
(* Orders and capacity slots of the HomeCareOps API: createOrder,          *)
(* cancelOrderById and completeOrderById (ordersService.js), the staff      *)
(* operations on slots, the worker that cancels pending orders that nobody  *)
(* confirmed in time (slotService.js), and a restart with its seeding       *)
(* (db.js, dbSeedFixtures.js).                                              *)
(*                                                                          *)
(* Node runs one callback at a time, so everything between two awaits is    *)
(* one step, and requests interleave at every await.  A request or a worker *)
(* run is a process with a program counter named for the call it waits on.  *)
(* Each call reaches one MongoDB document and is atomic there.              *)
(***************************************************************************)
EXTENDS Integers, FiniteSets

CONSTANTS
    Slots,          \* ids of capacity slots
    Orders,         \* ids of orders; the request that creates order o is also called o
    Cancels,        \* cancellation requests
    Sweeps,         \* runs of the expiry worker that may overlap
    Editors,        \* staff members with the slot form open
    SeededSlots,    \* the slots that seedDatabase writes at every start
    SeedRemaining,  \* their remainingCapacity in the fixtures
    SeedOrders,     \* the orders that seedDatabase writes at every start
    SeedSlot,       \* the slot each of them occupies
    Timeout,        \* pendingConfirmationTimeoutMinutes, in ticks
    MaxCapacity,    \* bound: the largest capacity staff enter
    MaxClock,       \* bound: the clock stops here
    MaxFaults,      \* bound: failed calls and restarts in a behaviour
    Faults,         \* which faults happen: a subset of FaultKinds
    Confirmations,  \* does something outside src/ confirm and start orders?
    NoSlot, NoOrder

FaultKinds == {"error", "lostAck", "crash"}

ASSUME SetsAssumption ==
    /\ IsFiniteSet(Orders)
    /\ SeededSlots \subseteq Slots
    /\ SeedRemaining \in [SeededSlots -> Nat]
    /\ SeedOrders \subseteq Orders
    /\ SeedSlot \in [SeedOrders -> SeededSlots]
    /\ NoSlot \notin Slots /\ NoOrder \notin Orders

ASSUME NumbersAssumption ==
    /\ Timeout \in Nat /\ MaxCapacity \in Nat \ {0}
    /\ MaxClock \in Nat /\ MaxFaults \in Nat
    /\ Faults \subseteq FaultKinds
    /\ Confirmations \in BOOLEAN

VARIABLES
    slots,      \* capacity_slots: status and remainingCapacity
    orders,     \* orders; until it is inserted, what its request has put together
    booking,    \* the createOrder requests
    cancel,     \* the cancelOrderById requests
    sweep,      \* the runs of releaseExpiredPendingOrders
    edit,       \* what each editor's form was filled with
    clock,      \* the wall clock
    faults,     \* history: how many faults have happened
    granted,    \* history: the seats staff meant each slot to have in all
    drift,      \* history: why a slot's counter may no longer mean what it says
    seat        \* history: what became of the seat each order paid for

procs == <<booking, cancel, sweep, edit>>
history == <<granted, drift, seat>>
vars == <<slots, orders, procs, clock, faults, history>>

-----------------------------------------------------------------------------
(* The documents and the processes. *)

Never == -1   \* a document without expiresAt, as the seeded order is

OrderStates == {"none", "pending_confirmation", "confirmed", "in_progress",
                "cancelled", "completed"}
SlotRecord == [status: {"unborn", "open", "deleted"}, remaining: Nat]
OrderRecord == [state: OrderStates, slot: Slots \cup {NoSlot}, expiresAt: Int,
                released: BOOLEAN, reason: {"none", "customer_cancelled", "pending_timeout"}]
BookingSteps == {"idle", "quoting", "seated", "dated", "refunding", "done"}
CancelRecord == [pc: {"idle", "claiming", "releasing", "done"}, order: Orders \cup {NoOrder}]
SweepRecord == [pc: {"idle", "finding", "claiming", "releasing"},
                order: Orders \cup {NoOrder}, now: Int]
EditRecord == [slot: Slots \cup {NoSlot}, seen: Int]
Causes == {"staleEdit", "reseed", "lostInsertAck"}

NoOrderYet == [state |-> "none", slot |-> NoSlot, expiresAt |-> Never, released |-> FALSE,
               reason |-> "none"]
SeededOrder(o) == [NoOrderYet EXCEPT !.state = "pending_confirmation", !.slot = SeedSlot[o]]
SeededSlot(s) == [status |-> "open", remaining |-> SeedRemaining[s]]
IdleSweep == [pc |-> "idle", order |-> NoOrder, now |-> 0]
ClosedForm == [slot |-> NoSlot, seen |-> 0]

-----------------------------------------------------------------------------
(* Steps that several handlers share. *)

\* A call fails: the handler sees an error, whatever the server did with it.
Fault(kind) ==
    /\ kind \in Faults
    /\ faults < MaxFaults
    /\ faults' = faults + 1

Open(s) == s \in Slots /\ slots[s].status = "open"

\* Mutant: the seat is not given back.
ReturnSeatForgotten(o) == UNCHANGED <<slots, seat>>

\* Mutant: the seat goes back only where another one is free.
ReturnSeatIfOnSale(o) ==
    LET s == orders[o].slot IN
    /\ slots' = IF Open(s) /\ slots[s].remaining > 0
                THEN [slots EXCEPT ![s].remaining = @ + 1] ELSE slots
    /\ seat' = [seat EXCEPT ![o] = IF @ = "taken" THEN "returned" ELSE "twice"]

\* $inc remainingCapacity by one where the slot still exists: incrementCapacitySlot
\* and releaseSlotCapacity.  A second return of one seat is recorded as "twice".
ReturnSeat(o) ==
    LET s == orders[o].slot IN
    /\ slots' = IF Open(s) THEN [slots EXCEPT ![s].remaining = @ + 1] ELSE slots
    /\ seat' = [seat EXCEPT ![o] = IF @ = "taken" THEN "returned" ELSE "twice"]

\* The states cancelOrder's filter names.
Cancellable(o) == orders[o].state \in {"pending_confirmation", "confirmed"}

\* What cancelOrder and the worker's claim both write.
Cancelled(o, why) ==
    [orders EXCEPT ![o] = [@ EXCEPT !.state = "cancelled", !.reason = why, !.released = TRUE]]

-----------------------------------------------------------------------------
(* createOrder *)

Book(o, pc) == booking' = [booking EXCEPT ![o] = pc]
At(o, pc) == booking[o] = pc

\* findCapacitySlotById.  The quote is computed for the start time that is read here.
BookRead(o, s) ==
    /\ At(o, "idle") /\ orders[o].state = "none"
    /\ \/ /\ Open(s)
          /\ Book(o, "quoting")
          /\ orders' = [orders EXCEPT ![o].slot = s]
       \/ /\ ~Open(s)
          /\ Book(o, "done")
          /\ UNCHANGED orders
    /\ UNCHANGED <<slots, cancel, sweep, edit, clock, faults, history>>

\* The quote is invalid, out of the service area, or has not the signature or the total
\* that the client sent.
BookReject(o) ==
    /\ At(o, "quoting")
    /\ Book(o, "done")
    /\ UNCHANGED <<slots, orders, cancel, sweep, edit, clock, faults, history>>

\* The filter of decrementCapacitySlot.
SeatFree(s) == Open(s) /\ slots[s].remaining > 0

\* decrementCapacitySlot
TakeSeat(o) ==
    LET s == orders[o].slot IN
    /\ At(o, "quoting")
    /\ SeatFree(s)
    /\ slots' = [slots EXCEPT ![s].remaining = @ - 1]
    /\ seat' = [seat EXCEPT ![o] = "taken"]
    /\ UNCHANGED <<orders, cancel, sweep, edit, clock, granted, drift>>

BookDecrement(o) == TakeSeat(o) /\ Book(o, "seated") /\ UNCHANGED faults
\* The decrement happened, the request sees an error: the seat is never given back.
BookDecrementLost(o) == TakeSeat(o) /\ Book(o, "done") /\ Fault("lostAck")

\* No seat left, or no slot any more: SLOT_UNAVAILABLE with alternatives.
BookUnavailable(o) ==
    /\ At(o, "quoting")
    /\ ~SeatFree(orders[o].slot)
    /\ Book(o, "done")
    /\ UNCHANGED <<slots, orders, cancel, sweep, edit, clock, faults, history>>

\* findSettings, then the clock is read: the order's deadline.
BookSettings(o) ==
    /\ At(o, "seated")
    /\ orders' = [orders EXCEPT ![o].expiresAt = clock + Timeout]
    /\ Book(o, "dated")
    /\ UNCHANGED <<slots, cancel, sweep, edit, clock, faults, history>>

\* findSettings is outside the try block: when it fails the seat is never given back.
BookSettingsFails(o) ==
    /\ At(o, "seated")
    /\ Fault("error")
    /\ Book(o, "done")
    /\ UNCHANGED <<slots, orders, cancel, sweep, edit, clock, history>>

\* Mutant: the stored state is misspelt.
StoredMisspelt(o) == [orders EXCEPT ![o].state = "pending"]

Stored(o) == [orders EXCEPT ![o].state = "pending_confirmation"]

\* insertOrder
BookInsert(o) ==
    /\ At(o, "dated")
    /\ orders' = Stored(o)
    /\ Book(o, "done")
    /\ UNCHANGED <<slots, cancel, sweep, edit, clock, faults, history>>

\* insertOrder fails, with or without having stored the order; the catch block runs.
BookInsertFails(o) ==
    /\ At(o, "dated")
    /\ \/ Fault("error") /\ UNCHANGED <<orders, drift>>
       \/ /\ Fault("lostAck")
          /\ orders' = Stored(o)
          /\ drift' = [drift EXCEPT ![orders[o].slot] = @ \cup {"lostInsertAck"}]
    /\ Book(o, "refunding")
    /\ UNCHANGED <<slots, cancel, sweep, edit, clock, granted, seat>>

\* incrementCapacitySlot in the catch block, which then throws to the client.
BookRefund(o) ==
    /\ At(o, "refunding")
    /\ ReturnSeat(o)
    /\ Book(o, "done")
    /\ UNCHANGED <<orders, cancel, sweep, edit, clock, faults, granted, drift>>

BookRefundFails(o) ==
    /\ At(o, "refunding")
    /\ Fault("error")
    /\ Book(o, "done")
    /\ UNCHANGED <<slots, orders, cancel, sweep, edit, clock, history>>

-----------------------------------------------------------------------------
(* cancelOrderById and completeOrderById *)

\* findOrderById, the ownership check and the state check.
CancelRead(c, o) ==
    /\ cancel[c].pc = "idle"
    /\ orders[o].state # "none"
    /\ cancel' = [cancel EXCEPT ![c] =
         [pc |-> IF Cancellable(o) THEN "claiming" ELSE "done", order |-> o]]
    /\ UNCHANGED <<slots, orders, booking, sweep, edit, clock, faults, history>>

CancelMoves(c, pc) == cancel' = [cancel EXCEPT ![c].pc = pc]

\* Mutant: the update is not filtered, the state read before is trusted.
CancelFilterTrusting(o) == TRUE
CancelFilter(o) == Cancellable(o)

\* cancelOrder, filtered on the state; nothing matched is a 409.
CancelClaim(c) ==
    LET o == cancel[c].order IN
    /\ cancel[c].pc = "claiming"
    /\ \/ /\ CancelFilter(o)
          /\ orders' = Cancelled(o, "customer_cancelled")
          /\ \/ CancelMoves(c, "releasing") /\ UNCHANGED faults
             \/ CancelMoves(c, "done") /\ Fault("lostAck")
       \/ ~CancelFilter(o) /\ CancelMoves(c, "done") /\ UNCHANGED <<orders, faults>>
    /\ UNCHANGED <<slots, booking, sweep, edit, clock, history>>

\* releaseSlotCapacity
CancelRelease(c) ==
    /\ cancel[c].pc = "releasing"
    /\ ReturnSeat(cancel[c].order)
    /\ CancelMoves(c, "done")
    /\ UNCHANGED <<orders, booking, sweep, edit, clock, faults, granted, drift>>

CancelReleaseFails(c) ==
    /\ cancel[c].pc = "releasing"
    /\ Fault("error")
    /\ CancelMoves(c, "done")
    /\ UNCHANGED <<slots, orders, booking, sweep, edit, clock, history>>

\* Mutant: any order not yet completed may be.
CompleteFilterLoose(o) == orders[o].state \notin {"none", "completed"}
CompleteFilter(o) == orders[o].state \in {"confirmed", "in_progress"}

\* completeOrder: the staff's one call, filtered on the state.
Complete(o) ==
    /\ CompleteFilter(o)
    /\ orders' = [orders EXCEPT ![o].state = "completed"]
    /\ UNCHANGED <<slots, procs, clock, faults, history>>

\* Nothing under src/ writes "confirmed" or "in_progress", which cancelOrder and
\* completeOrder expect: whatever writes them does so directly in the database.
Confirm(o) ==
    /\ Confirmations
    /\ \/ /\ orders[o].state = "pending_confirmation"
          /\ orders' = [orders EXCEPT ![o].state = "confirmed"]
       \/ /\ orders[o].state = "confirmed"
          /\ orders' = [orders EXCEPT ![o].state = "in_progress"]
    /\ UNCHANGED <<slots, procs, clock, faults, history>>

-----------------------------------------------------------------------------
(* releaseExpiredPendingOrders.  The timer starts a run every minute whether  *)
(* or not the previous one has ended; a run's "now" is the time it started.   *)

SweepStart(w) ==
    /\ sweep[w].pc = "idle"
    /\ sweep' = [sweep EXCEPT ![w] = [pc |-> "finding", order |-> NoOrder, now |-> clock]]
    /\ UNCHANGED <<slots, orders, booking, cancel, edit, clock, faults, history>>

\* Mutant: the worker looks at capacityReleasedAt only.
UnclaimedInAnyState(o) == orders[o].state # "none" /\ ~orders[o].released

Unclaimed(o) == orders[o].state = "pending_confirmation" /\ ~orders[o].released
\* Mutant: an order is due only at its deadline.
ExpiredExactly(o, now) == Unclaimed(o) /\ orders[o].expiresAt = now

Expired(o, now) ==
    /\ Unclaimed(o)
    /\ orders[o].expiresAt # Never /\ orders[o].expiresAt <= now

\* findOne: an expired order with the earliest deadline, or none and the run ends.
SweepFind(w) ==
    LET now == sweep[w].now
        due == {o \in Orders : Expired(o, now)} IN
    /\ sweep[w].pc = "finding"
    /\ \/ \E o \in due :
            /\ \A p \in due : orders[o].expiresAt <= orders[p].expiresAt
            /\ sweep' = [sweep EXCEPT ![w] = [pc |-> "claiming", order |-> o, now |-> now]]
       \/ due = {} /\ sweep' = [sweep EXCEPT ![w] = IdleSweep]
    /\ UNCHANGED <<slots, orders, booking, cancel, edit, clock, faults, history>>

SweepMoves(w, pc) == sweep' = [sweep EXCEPT ![w].pc = pc]

\* Mutant: the claim names only the order.
ClaimFilterBlind(o) == TRUE
ClaimFilter(o) == Unclaimed(o)

\* The claim, filtered on state and capacityReleasedAt but not on the deadline again.
SweepClaim(w) ==
    LET o == sweep[w].order IN
    /\ sweep[w].pc = "claiming"
    /\ \/ /\ ClaimFilter(o)
          /\ orders' = Cancelled(o, "pending_timeout")
          /\ SweepMoves(w, "releasing")
       \/ ~ClaimFilter(o) /\ SweepMoves(w, "finding") /\ UNCHANGED orders
    /\ UNCHANGED <<slots, booking, cancel, edit, clock, faults, history>>

\* releaseSlotCapacity, and on to the next order.
SweepRelease(w) ==
    /\ sweep[w].pc = "releasing"
    /\ ReturnSeat(sweep[w].order)
    /\ SweepMoves(w, "finding")
    /\ UNCHANGED <<orders, booking, cancel, edit, clock, faults, granted, drift>>

\* Any call of a run fails: the run is over, the next one starts afresh.  The claim
\* may have been stored.
SweepFails(w) ==
    LET o == sweep[w].order IN
    /\ sweep[w].pc # "idle"
    /\ sweep' = [sweep EXCEPT ![w] = IdleSweep]
    /\ \/ Fault("error") /\ UNCHANGED orders
       \/ /\ sweep[w].pc = "claiming" /\ ClaimFilter(o)
          /\ Fault("lostAck")
          /\ orders' = Cancelled(o, "pending_timeout")
    /\ UNCHANGED <<slots, booking, cancel, edit, clock, history>>

-----------------------------------------------------------------------------
(* Staff: createCapacitySlot, updateCapacitySlot, deleteCapacitySlot.        *)

CreateSlot(s, n) ==
    /\ slots[s].status = "unborn"
    /\ slots' = [slots EXCEPT ![s] = [status |-> "open", remaining |-> n]]
    /\ granted' = [granted EXCEPT ![s] = n]
    /\ UNCHANGED <<orders, procs, clock, faults, drift, seat>>

DeleteSlot(s) ==
    /\ Open(s)
    /\ slots' = [slots EXCEPT ![s].status = "deleted"]
    /\ UNCHANGED <<orders, procs, clock, faults, history>>

\* The form opens with the listed counter (OpsSlotsPage.tsx fills it in).
OpenForm(e, s) ==
    /\ edit[e].slot = NoSlot
    /\ Open(s)
    /\ edit' = [edit EXCEPT ![e] = [slot |-> s, seen |-> slots[s].remaining]]
    /\ UNCHANGED <<slots, orders, booking, cancel, sweep, clock, faults, history>>

\* Mutant: the counter is incremented by what the form says.
WrittenOnTop(s, n) == slots[s].remaining + n
Written(s, n) == n

\* The form is sent.  The counter is set, not changed by a difference: what was
\* meant is n - seen seats more, what is written is n, at least 1.
SubmitForm(e, n) ==
    LET s == edit[e].slot IN
    /\ s # NoSlot
    /\ edit' = [edit EXCEPT ![e] = ClosedForm]
    /\ \/ /\ Open(s)
          /\ slots' = [slots EXCEPT ![s].remaining = Written(s, n)]
          /\ drift' = [drift EXCEPT ![s] =
                IF slots[s].remaining = edit[e].seen THEN @ ELSE @ \cup {"staleEdit"}]
          /\ granted' = [granted EXCEPT ![s] =
                IF drift'[s] = {} THEN @ + (n - edit[e].seen) ELSE @]
       \/ ~Open(s) /\ UNCHANGED <<slots, granted, drift>>
    /\ UNCHANGED <<orders, booking, cancel, sweep, clock, faults, seat>>

-----------------------------------------------------------------------------
(* The process dies and starts again: every handler in flight is gone, and   *)
(* seedDatabase writes the fixtures over what is in the database.  The seeded *)
(* orders keep the fields the fixtures do not mention.                       *)
Restart ==
    /\ Fault("crash")
    /\ booking' = [o \in Orders |->
         IF At(o, "idle") THEN booking[o] ELSE "done"]
    /\ cancel' = [c \in Cancels |->
         IF cancel[c].pc = "idle" THEN cancel[c] ELSE [cancel[c] EXCEPT !.pc = "done"]]
    /\ sweep' = [w \in Sweeps |-> IdleSweep]
    /\ slots' = [s \in Slots |-> IF s \in SeededSlots THEN SeededSlot(s) ELSE slots[s]]
    /\ orders' = [o \in Orders |->
         IF o \in SeedOrders
         THEN [orders[o] EXCEPT !.state = "pending_confirmation", !.slot = SeedSlot[o]]
         ELSE orders[o]]
    /\ drift' = [s \in Slots |->
         IF s \in SeededSlots THEN drift[s] \cup {"reseed"} ELSE drift[s]]
    /\ UNCHANGED <<edit, clock, granted, seat>>

Tick == clock < MaxClock /\ clock' = clock + 1 /\ UNCHANGED <<slots, orders, procs, faults, history>>

-----------------------------------------------------------------------------

Init ==
    /\ slots = [s \in Slots |-> IF s \in SeededSlots THEN SeededSlot(s) ELSE
         [status |-> "unborn", remaining |-> 0]]
    /\ orders = [o \in Orders |-> IF o \in SeedOrders THEN SeededOrder(o) ELSE NoOrderYet]
    /\ booking = [o \in Orders |-> "idle"]
    /\ cancel = [c \in Cancels |-> [pc |-> "idle", order |-> NoOrder]]
    /\ sweep = [w \in Sweeps |-> IdleSweep]
    /\ edit = [e \in Editors |-> ClosedForm]
    /\ clock = 0
    /\ faults = 0
    /\ granted = [s \in Slots |-> IF s \in SeededSlots
         THEN SeedRemaining[s] + Cardinality({o \in SeedOrders : SeedSlot[o] = s}) ELSE 0]
    /\ drift = [s \in Slots |-> {}]
    /\ seat = [o \in Orders |-> IF o \in SeedOrders THEN "taken" ELSE "none"]

BookStep(o) == BookReject(o) \/ BookDecrement(o) \/ BookUnavailable(o)
               \/ BookSettings(o) \/ BookInsert(o) \/ BookRefund(o)
BookFault(o) == BookDecrementLost(o) \/ BookSettingsFails(o)
                \/ BookInsertFails(o) \/ BookRefundFails(o)
CancelStep(c) == CancelClaim(c) \/ CancelRelease(c)
SweepStep(w) == SweepFind(w) \/ SweepClaim(w) \/ SweepRelease(w)

Next ==
    \/ \E o \in Orders, s \in Slots : BookRead(o, s)
    \/ \E o \in Orders : BookStep(o)
    \/ \E o \in Orders : BookFault(o)
    \/ \E c \in Cancels, o \in Orders : CancelRead(c, o)
    \/ \E c \in Cancels : CancelStep(c)
    \/ \E c \in Cancels : CancelReleaseFails(c)
    \/ \E o \in Orders : Complete(o)
    \/ \E o \in Orders : Confirm(o)
    \/ \E w \in Sweeps : SweepStart(w)
    \/ \E w \in Sweeps : SweepStep(w)
    \/ \E w \in Sweeps : SweepFails(w)
    \/ \E s \in Slots, n \in 1..MaxCapacity : CreateSlot(s, n)
    \/ \E s \in Slots : DeleteSlot(s)
    \/ \E e \in Editors, s \in Slots : OpenForm(e, s)
    \/ \E e \in Editors, n \in 1..MaxCapacity : SubmitForm(e, n)
    \/ Restart
    \/ Tick

Spec == Init /\ [][Next]_vars

\* The event loop resumes every handler whose call was answered, the timer fires and
\* time passes.  Clients and staff owe nothing, faults never have to happen.
Fairness ==
    /\ \A o \in Orders : WF_vars(BookStep(o))
    /\ \A c \in Cancels : WF_vars(CancelStep(c))
    /\ \A w \in Sweeps : WF_vars(SweepStart(w)) /\ WF_vars(SweepStep(w))
    /\ WF_vars(Tick)

FairSpec == Spec /\ Fairness

-----------------------------------------------------------------------------
(* Properties *)

TypeOK ==
    /\ slots \in [Slots -> SlotRecord]
    /\ orders \in [Orders -> OrderRecord]
    /\ booking \in [Orders -> BookingSteps]
    /\ cancel \in [Cancels -> CancelRecord]
    /\ sweep \in [Sweeps -> SweepRecord]
    /\ edit \in [Editors -> EditRecord]
    /\ clock \in 0..MaxClock
    /\ faults \in 0..MaxFaults
    /\ granted \in [Slots -> Int]
    /\ drift \in [Slots -> SUBSET Causes]
    /\ seat \in [Orders -> {"none", "taken", "returned", "twice"}]

Alive(o) == orders[o].state \in {"pending_confirmation", "confirmed", "in_progress", "completed"}
\* The orders that occupy a seat of s, and the requests that hold one in their hands.
Occupants(s) == {o \in Orders : orders[o].slot = s /\ Alive(o)}
InHand(s) == {o \in Orders : orders[o].slot = s /\ ~Alive(o) /\
    \/ booking[o] \in {"seated", "dated", "refunding"}
    \/ \E c \in Cancels : cancel[c].order = o /\ cancel[c].pc = "releasing"
    \/ \E w \in Sweeps : sweep[w].order = o /\ sweep[w].pc = "releasing"}

\* Whatever bookings, cancellations, expiries, failed calls and restarts do to each
\* other, no slot's counter goes below zero, and a slot never has more seats free and
\* occupied than staff gave it, unless its counter was overwritten (a form filled in
\* before the counter changed, the seeding at a restart) or the database stored an
\* order it reported as failed.
NoOversell ==
    \A s \in Slots :
        /\ slots[s].remaining >= 0
        /\ Open(s) /\ drift[s] = {} =>
             slots[s].remaining + Cardinality(Occupants(s)) + Cardinality(InHand(s)) <= granted[s]

\* As long as no call fails and the process does not die, not one seat is lost either.
NoSeatLost ==
    faults = 0 => \A s \in Slots : Open(s) /\ drift[s] = {} =>
        slots[s].remaining + Cardinality(Occupants(s)) + Cardinality(InHand(s)) = granted[s]

\* The seats of s that are neither free nor occupied nor in anybody's hands.
Missing(s) ==
    granted[s] - (slots[s].remaining + Cardinality(Occupants(s)) + Cardinality(InHand(s)))

\* A call that fails, or whose answer is lost, costs a slot one seat at most, whichever
\* handler it hits and whatever failed before (ordersService.js 150, 186, 254, slotService.js
\* 58, 78); the death of the process costs the seats of the requests and runs that it ends;
\* and no other step ever costs one, after a fault as little as before the first.
FaultsCostTheirSeatsOnly ==
    [][\A s \in Slots : Open(s) /\ Open(s)' /\ drift'[s] = {} =>
         Missing(s)' - Missing(s) <=
            IF Restart THEN Cardinality(InHand(s)) ELSE faults' - faults]_vars

\* A customer's cancellation, overlapping worker runs and the catch block of
\* createOrder never give the same seat back twice, and no seat goes back under an
\* order that still occupies it.
SeatReturnedOnce ==
    \A o \in Orders \ SeedOrders :
        (orders[o].slot # NoSlot /\ "lostInsertAck" \notin drift[orders[o].slot]) =>
            /\ seat[o] # "twice"
            /\ Alive(o) => seat[o] = "taken"

\* An order that is cancelled or completed stays so: the claims of a stale
\* cancellation or worker run match nothing.  Only the seeding revives its own order.
ClosedStaysClosed ==
    [][\A o \in Orders : orders[o].state \in {"cancelled", "completed"} =>
         orders'[o].state = orders[o].state \/ o \in SeedOrders]_vars

\* The worker cancels for its own reason only what is pending and due: an order that
\* was confirmed between its findOne and its claim survives.
OnlyDuePendingTimesOut ==
    [][\A o \in Orders :
         orders'[o].reason = "pending_timeout" /\ orders[o].reason # "pending_timeout" =>
            /\ orders[o].state = "pending_confirmation"
            /\ orders[o].expiresAt <= clock]_vars

\* An order nobody confirmed does not stay pending past its deadline, even if worker
\* runs fail or the process restarts.
ExpiredIsCancelled ==
    \A o \in Orders :
        (Unclaimed(o) /\ orders[o].expiresAt \in 0..MaxClock) ~> ~Unclaimed(o)

\* Without faults a seat that an order gave up is on sale again in the end.
SeatComesBack ==
    \A o \in Orders :
        orders[o].state = "cancelled" ~>
            (seat[o] = "returned" \/ o \in SeedOrders \/ faults > 0)
-----------------------------------------------------------------------------
(* The inductive invariant behind NoOversell and SeatReturnedOnce. *)

\* Nothing has blurred whether o holds its seat.
Clean(o) ==
    /\ orders[o].slot # NoSlot
    /\ "lostInsertAck" \notin drift[orders[o].slot]
    /\ o \in SeedOrders => "reseed" \notin drift[orders[o].slot]

\* How far the request has come, what is stored and what became of the seat agree.
Phases(o) ==
    /\ o \in SeedOrders => booking[o] = "idle" /\ orders[o].state # "none"
                             /\ orders[o].slot = SeedSlot[o] /\ orders[o].expiresAt = Never
    /\ o \notin SeedOrders /\ orders[o].state # "none" => booking[o] \in {"refunding", "done"}
    /\ booking[o] \in {"idle", "quoting"} /\ o \notin SeedOrders => seat[o] = "none"
    /\ booking[o] \in {"quoting", "seated", "dated", "refunding"} => orders[o].slot # NoSlot
    /\ orders[o].slot \in Slots => slots[orders[o].slot].status # "unborn"
    /\ Clean(o) =>
         /\ booking[o] \in {"seated", "dated", "refunding"} =>
               seat[o] = "taken" /\ orders[o].state = "none"
         /\ Alive(o) => seat[o] = "taken"
         /\ seat[o] # "twice"

\* Who gives o's seat back: a cancellation or a worker run that claimed it.
Releasing(o) == {c \in Cancels : cancel[c].order = o /\ cancel[c].pc = "releasing"}
Sweeping(o) == {w \in Sweeps : sweep[w].order = o /\ sweep[w].pc = "releasing"}

\* A claim is held by one process only, over an order that is cancelled and whose
\* seat has not been given back.
OneClaimant(o) ==
    /\ \A c, d \in Releasing(o) : c = d
    /\ \A w, v \in Sweeping(o) : w = v
    /\ Releasing(o) = {} \/ Sweeping(o) = {}
    /\ Releasing(o) \cup Sweeping(o) # {} =>
         orders[o].state = "cancelled" /\ (Clean(o) => seat[o] = "taken")

\* A process that is about to act on an order acts on one that is stored, and a
\* worker run on one that was due when the run started.
Targets ==
    /\ \A c \in Cancels : cancel[c].pc \in {"claiming", "releasing"} =>
         cancel[c].order \in Orders /\ orders[cancel[c].order].state # "none"
    /\ \A w \in Sweeps : sweep[w].now <= clock
    /\ \A w \in Sweeps : sweep[w].pc \in {"claiming", "releasing"} =>
         /\ sweep[w].order \in Orders /\ orders[sweep[w].order].state # "none"
         /\ orders[sweep[w].order].expiresAt <= sweep[w].now

\* The seats of s that were paid for and not given back.
Taken(s) == {o \in Orders : orders[o].slot = s /\ seat[o] = "taken"}
Ledger ==
    \A s \in Slots : Open(s) /\ drift[s] = {} =>
        slots[s].remaining + Cardinality(Taken(s)) = granted[s]

\* Together they are preserved by every step: each order's request, document and
\* claimants agree on what became of its seat, and each slot's counter with them.
SeatInv ==
    /\ \A o \in Orders : Phases(o) /\ OneClaimant(o)
    /\ Targets
    /\ Ledger

-----------------------------------------------------------------------------
(* Seats is what all of this promises.  A slot whose counter was overwritten *)
(* is blurred there; the requests, claims and faults have no counterpart.    *)

Blurred(s) == drift[s] # {}
SeatStatus == [s \in Slots |-> IF Blurred(s) THEN "blurred" ELSE slots[s].status]
SeatsFree == [s \in Slots |-> IF Blurred(s) THEN 0 ELSE slots[s].remaining]
SeatsHeld == [s \in Slots |-> IF Blurred(s) THEN {} ELSE Taken(s)]
SeatsSpent == [s \in Slots |-> IF Blurred(s) THEN {} ELSE
                 {o \in Orders : orders[o].slot = s /\ seat[o] = "returned"}]

Promise == INSTANCE Seats WITH
    Sizes <- 1..MaxCapacity, status <- SeatStatus, free <- SeatsFree,
    holders <- SeatsHeld, spent <- SeatsSpent

\* Every step of a request, a cancellation, a worker run, a restart or a failing call
\* is one step of the promise (one order takes a free seat, one holder gives its seat
\* back, staff resize a slot, a slot's books are lost) or changes nothing in it.
SeatsKept == Promise!Spec
=============================================================================
