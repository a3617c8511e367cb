---------------------------- MODULE BookingProofs ----------------------------
(***************************************************************************)
(* What holds of Booking for every number of slots, orders, requests,        *)
(* overlapping worker runs and faults: its types; that no slot is oversold,  *)
(* as SeatInv is inductive and NoOversell and SeatReturnedOnce follow from   *)
(* it, NoSeatLost with one more invariant; and a failing call loses one seat *)
(* at most; what a step does to an order; and that Booking implements Seats. *)
(***************************************************************************)
EXTENDS Booking, FiniteSetTheorems, TLAPS

-----------------------------------------------------------------------------
(* Types *)

\* The shared steps keep the types of what they write.
LEMMA ReturnSeatType ==
    ASSUME TypeOK, NEW o, ReturnSeat(o)
    PROVE  /\ slots' \in [Slots -> SlotRecord]
           /\ seat' \in [Orders -> {"none", "taken", "returned", "twice"}]
<1>1. slots' \in [Slots -> SlotRecord]
  <2>1. CASE ~Open(orders[o].slot)
    BY <2>1 DEF TypeOK, ReturnSeat
  <2>2. CASE Open(orders[o].slot)
    <3> DEFINE s == orders[o].slot
    <3>1. s \in Slots /\ slots[s] \in SlotRecord
      BY <2>2 DEF TypeOK, Open
    <3>2. [slots[s] EXCEPT !.remaining = @ + 1] \in SlotRecord
      BY <3>1 DEF SlotRecord
    <3>3. slots' = [slots EXCEPT ![s] = [slots[s] EXCEPT !.remaining = @ + 1]]
      BY <2>2 DEF ReturnSeat
    <3> QED BY <3>1, <3>2, <3>3 DEF TypeOK
  <2> QED BY <2>1, <2>2
<1>2. seat' \in [Orders -> {"none", "taken", "returned", "twice"}]
  BY DEF TypeOK, ReturnSeat
<1> QED BY <1>1, <1>2

LEMMA CancelledType ==
    ASSUME TypeOK, NEW o \in Orders, NEW why \in {"customer_cancelled", "pending_timeout"}
    PROVE  Cancelled(o, why) \in [Orders -> OrderRecord]
<1> DEFINE r == [orders[o] EXCEPT !.state = "cancelled", !.reason = why, !.released = TRUE]
<1>1. orders[o] \in OrderRecord
  BY DEF TypeOK
<1>2. r \in OrderRecord
  BY <1>1 DEF OrderRecord, OrderStates
<1>3. Cancelled(o, why) = [orders EXCEPT ![o] = r]
  BY DEF TypeOK, Cancelled
<1> HIDE DEF r
<1> QED BY <1>2, <1>3 DEF TypeOK

LEMMA FaultType ==
    ASSUME TypeOK, NEW kind, Fault(kind)
    PROVE  faults' \in 0..MaxFaults
  BY NumbersAssumption DEF TypeOK, Fault

LEMMA BookType ==
    ASSUME TypeOK, NEW o \in Orders, NEW pc \in {"seated", "dated", "refunding", "done"},
           Book(o, pc)
    PROVE  booking' \in [Orders -> BookingSteps]
  BY DEF TypeOK, Book, BookingSteps

LEMMA InitType == Init => TypeOK
<1> SUFFICES ASSUME Init PROVE TypeOK
  OBVIOUS
<1>1. \A s \in SeededSlots : SeededSlot(s) \in SlotRecord
  BY SetsAssumption DEF SeededSlot, SlotRecord
<1>2. slots \in [Slots -> SlotRecord]
  BY <1>1 DEF Init, SlotRecord
<1>3. NoOrderYet \in OrderRecord
  BY DEF NoOrderYet, OrderRecord, OrderStates, Never
<1>4. \A o \in SeedOrders : SeededOrder(o) \in OrderRecord
  <2> SUFFICES ASSUME NEW o \in SeedOrders PROVE SeededOrder(o) \in OrderRecord
    OBVIOUS
  <2>1. SeedSlot[o] \in Slots
    BY SetsAssumption
  <2> QED BY <1>3, <2>1 DEF SeededOrder, OrderRecord, OrderStates
<1>5. orders \in [Orders -> OrderRecord]
  BY <1>3, <1>4 DEF Init
<1>6. \A s \in Slots : Cardinality({o \in SeedOrders : SeedSlot[o] = s}) \in Nat
  BY SetsAssumption, FS_Subset, FS_CardinalityType
<1>7. granted \in [Slots -> Int]
  BY <1>6, SetsAssumption DEF Init
<1>8. /\ booking \in [Orders -> BookingSteps]
      /\ cancel \in [Cancels -> CancelRecord]
      /\ sweep \in [Sweeps -> SweepRecord]
      /\ edit \in [Editors -> EditRecord]
  BY DEF Init, BookingSteps, CancelRecord, SweepRecord, EditRecord, IdleSweep,
         ClosedForm
<1>9. /\ clock \in 0..MaxClock
      /\ faults \in 0..MaxFaults
      /\ drift \in [Slots -> SUBSET Causes]
      /\ seat \in [Orders -> {"none", "taken", "returned", "twice"}]
  BY NumbersAssumption DEF Init
<1> QED BY <1>2, <1>5, <1>7, <1>8, <1>9 DEF TypeOK

\* Every step of createOrder keeps the types.
LEMMA BookingStepType ==
    ASSUME TypeOK, NEW o \in Orders, BookStep(o) \/ BookFault(o)
    PROVE  TypeOK'
<1>1. CASE BookReject(o)
  BY <1>1, BookType DEF TypeOK, BookReject, history
<1>2. CASE BookUnavailable(o)
  BY <1>2, BookType DEF TypeOK, BookUnavailable, history
<1>3. CASE TakeSeat(o) /\ (BookDecrement(o) \/ BookDecrementLost(o))
  <2> DEFINE s == orders[o].slot
  <2>1. s \in Slots /\ slots[s] \in SlotRecord /\ slots[s].remaining > 0
    BY <1>3 DEF TypeOK, TakeSeat, SeatFree, Open
  <2>2. [slots[s] EXCEPT !.remaining = @ - 1] \in SlotRecord
    <3>1. slots[s].remaining \in Nat
      BY <2>1 DEF SlotRecord
    <3>2. slots[s].remaining - 1 \in Nat
      BY <2>1, <3>1
    <3> QED BY <2>1, <3>2 DEF SlotRecord
  <2>3. slots' = [slots EXCEPT ![s] = [slots[s] EXCEPT !.remaining = @ - 1]]
    BY <1>3 DEF TakeSeat
  <2>4. slots' \in [Slots -> SlotRecord]
    BY <2>1, <2>2, <2>3 DEF TypeOK
  <2>5. seat' \in [Orders -> {"none", "taken", "returned", "twice"}]
    BY <1>3 DEF TypeOK, TakeSeat
  <2>6. booking' \in [Orders -> BookingSteps]
    BY <1>3, BookType DEF BookDecrement, BookDecrementLost
  <2>7. faults' \in 0..MaxFaults
    BY <1>3, FaultType DEF TypeOK, BookDecrement, BookDecrementLost
  <2> QED BY <1>3, <2>4, <2>5, <2>6, <2>7 DEF TypeOK, TakeSeat
<1>4. CASE BookSettings(o)
  <2>1. clock + Timeout \in Int
    BY NumbersAssumption DEF TypeOK
  <2>2. [orders[o] EXCEPT !.expiresAt = clock + Timeout] \in OrderRecord
    BY <2>1 DEF TypeOK, OrderRecord
  <2>3. orders' = [orders EXCEPT ![o] = [orders[o] EXCEPT !.expiresAt = clock + Timeout]]
    BY <1>4 DEF BookSettings
  <2>4. orders' \in [Orders -> OrderRecord]
    BY <2>2, <2>3 DEF TypeOK
  <2> QED BY <1>4, <2>4, BookType DEF TypeOK, BookSettings, history
<1>5. CASE BookSettingsFails(o)
  BY <1>5, BookType, FaultType DEF TypeOK, BookSettingsFails, history
<1>6. Stored(o) \in [Orders -> OrderRecord]
  BY DEF TypeOK, Stored, OrderRecord, OrderStates
<1>7. CASE BookInsert(o)
  BY <1>6, <1>7, BookType DEF TypeOK, BookInsert, history
<1>8. CASE BookInsertFails(o)
  <2>1. drift' \in [Slots -> SUBSET Causes]
    BY <1>8 DEF TypeOK, BookInsertFails, Causes
  <2> QED BY <1>6, <1>8, <2>1, BookType, FaultType DEF TypeOK, BookInsertFails
<1>9. CASE BookRefund(o)
  BY <1>9, BookType, ReturnSeatType DEF TypeOK, BookRefund
<1>10. CASE BookRefundFails(o)
  BY <1>10, BookType, FaultType DEF TypeOK, BookRefundFails, history
<1> QED
  BY <1>1, <1>2, <1>3, <1>4, <1>5, <1>7, <1>8, <1>9, <1>10
  DEF BookStep, BookFault, BookDecrement, BookDecrementLost

\* So does every step of a cancellation.
LEMMA CancelStepType ==
    ASSUME TypeOK, NEW c \in Cancels,
           CancelStep(c) \/ CancelReleaseFails(c) \/ \E o \in Orders : CancelRead(c, o)
    PROVE  TypeOK'
<1>1. CASE \E o \in Orders : CancelRead(c, o)
  BY <1>1 DEF TypeOK, CancelRead, CancelRecord, history
<1>2. ASSUME NEW pc \in {"releasing", "done"}, CancelMoves(c, pc)
      PROVE  cancel' \in [Cancels -> CancelRecord]
  BY <1>2 DEF TypeOK, CancelMoves, CancelRecord
<1>3. CASE CancelClaim(c)
  <2> DEFINE o == cancel[c].order
  <2>1. cancel' \in [Cancels -> CancelRecord]
    BY <1>2, <1>3 DEF CancelClaim
  <2>2. faults' \in 0..MaxFaults
    BY <1>3, FaultType DEF TypeOK, CancelClaim
  <2>3. orders' \in [Orders -> OrderRecord]
    <3>1. CASE orders' = Cancelled(o, "customer_cancelled")
      <4>1. CASE o \in Orders
        BY <3>1, <4>1, CancelledType
      <4>2. CASE o \notin Orders
        BY <3>1, <4>2 DEF TypeOK, Cancelled
      <4> QED BY <4>1, <4>2
    <3>2. CASE orders' = orders
      BY <3>2 DEF TypeOK
    <3> QED BY <1>3, <3>1, <3>2 DEF CancelClaim
  <2> QED BY <1>3, <2>1, <2>2, <2>3 DEF TypeOK, CancelClaim, history
<1>4. CASE CancelRelease(c)
  BY <1>2, <1>4, ReturnSeatType DEF TypeOK, CancelRelease
<1>5. CASE CancelReleaseFails(c)
  BY <1>2, <1>5, FaultType DEF TypeOK, CancelReleaseFails, history
<1> QED BY <1>1, <1>3, <1>4, <1>5 DEF CancelStep

\* And every step of the worker.
LEMMA SweepStepType ==
    ASSUME TypeOK, NEW w \in Sweeps, SweepStart(w) \/ SweepStep(w) \/ SweepFails(w)
    PROVE  TypeOK'
<1> DEFINE o == sweep[w].order
<1>1. ASSUME NEW pc \in {"finding", "releasing"}, SweepMoves(w, pc)
      PROVE  sweep' \in [Sweeps -> SweepRecord]
  BY <1>1 DEF TypeOK, SweepMoves, SweepRecord
<1>2. CASE SweepStart(w)
  <2>1. sweep' \in [Sweeps -> SweepRecord]
    BY <1>2 DEF TypeOK, SweepStart, SweepRecord
  <2> QED BY <1>2, <2>1 DEF TypeOK, SweepStart, history
<1>3. IdleSweep \in SweepRecord
  BY DEF IdleSweep, SweepRecord
<1>4. CASE SweepFind(w)
  <2>1. sweep' \in [Sweeps -> SweepRecord]
    BY <1>3, <1>4 DEF TypeOK, SweepFind, SweepRecord
  <2> QED BY <1>4, <2>1 DEF TypeOK, SweepFind, history
<1>5. Cancelled(o, "pending_timeout") \in [Orders -> OrderRecord]
  <2>1. CASE o \in Orders
    BY <2>1, CancelledType
  <2>2. CASE o \notin Orders
    BY <2>2 DEF TypeOK, Cancelled
  <2> QED BY <2>1, <2>2
<1>6. CASE SweepClaim(w)
  <2>1. sweep' \in [Sweeps -> SweepRecord]
    BY <1>1, <1>6 DEF SweepClaim
  <2>2. orders' \in [Orders -> OrderRecord]
    BY <1>5, <1>6 DEF TypeOK, SweepClaim
  <2> QED BY <1>6, <2>1, <2>2 DEF TypeOK, SweepClaim, history
<1>7. CASE SweepRelease(w)
  BY <1>1, <1>7, ReturnSeatType DEF TypeOK, SweepRelease
<1>8. CASE SweepFails(w)
  <2>1. sweep' \in [Sweeps -> SweepRecord]
    BY <1>3, <1>8 DEF TypeOK, SweepFails
  <2>2. orders' \in [Orders -> OrderRecord]
    BY <1>5, <1>8 DEF TypeOK, SweepFails
  <2> QED BY <1>8, <2>1, <2>2, FaultType DEF TypeOK, SweepFails, history
<1> QED BY <1>2, <1>4, <1>6, <1>7, <1>8 DEF SweepStep

\* And the staff's.
LEMMA StaffStepType ==
    ASSUME TypeOK,
           \/ \E s \in Slots, n \in 1..MaxCapacity : CreateSlot(s, n)
           \/ \E s \in Slots : DeleteSlot(s)
           \/ \E e \in Editors, s \in Slots : OpenForm(e, s)
           \/ \E e \in Editors, n \in 1..MaxCapacity : SubmitForm(e, n)
    PROVE  TypeOK'
<1>1. ASSUME NEW s \in Slots, NEW n \in 1..MaxCapacity,
             CreateSlot(s, n)
      PROVE  TypeOK'
  <2>1. slots' \in [Slots -> SlotRecord] /\ granted' \in [Slots -> Int]
    BY <1>1, NumbersAssumption DEF TypeOK, CreateSlot, SlotRecord
  <2> QED BY <1>1, <2>1 DEF TypeOK, CreateSlot, procs
<1>2. ASSUME NEW s \in Slots, DeleteSlot(s)
      PROVE  TypeOK'
  <2>1. slots' \in [Slots -> SlotRecord]
    BY <1>2 DEF TypeOK, DeleteSlot, SlotRecord
  <2> QED BY <1>2, <2>1 DEF TypeOK, DeleteSlot, procs, history
<1>3. ASSUME NEW e \in Editors, NEW s \in Slots, OpenForm(e, s)
      PROVE  TypeOK'
  <2>1. edit' \in [Editors -> EditRecord]
    BY <1>3 DEF TypeOK, OpenForm, EditRecord, SlotRecord
  <2> QED BY <1>3, <2>1 DEF TypeOK, OpenForm, history
<1>4. ASSUME NEW e \in Editors, NEW n \in 1..MaxCapacity,
             SubmitForm(e, n)
      PROVE  TypeOK'
  <2> DEFINE s == edit[e].slot
  <2>1. edit' \in [Editors -> EditRecord]
    BY <1>4 DEF TypeOK, SubmitForm, EditRecord, ClosedForm
  <2>2. CASE Open(s)
    <3>1. s \in Slots /\ slots[s] \in SlotRecord
      BY <2>2 DEF TypeOK, Open
    <3> n \in Nat
      BY NumbersAssumption
    <3>2. [slots[s] EXCEPT !.remaining = n] \in SlotRecord
      BY <3>1 DEF SlotRecord
    <3>3. slots' = [slots EXCEPT ![s] = [slots[s] EXCEPT !.remaining = n]]
      BY <1>4, <2>2 DEF SubmitForm, Written
    <3>4. slots' \in [Slots -> SlotRecord]
      BY <3>1, <3>2, <3>3 DEF TypeOK
    <3>5. drift' \in [Slots -> SUBSET Causes]
      BY <1>4, <2>2, <3>1 DEF TypeOK, SubmitForm, Causes
    <3>6. granted[s] + (n - edit[e].seen) \in Int
      BY <3>1, NumbersAssumption DEF TypeOK, EditRecord
    <3>7. granted' \in [Slots -> Int]
      BY <1>4, <2>2, <3>1, <3>6 DEF TypeOK, SubmitForm
    <3> QED BY <1>4, <2>1, <2>2, <3>4, <3>5, <3>7 DEF TypeOK, SubmitForm
  <2>3. CASE ~Open(s)
    BY <1>4, <2>1, <2>3 DEF TypeOK, SubmitForm
  <2> QED BY <2>2, <2>3
<1> QED BY <1>1, <1>2, <1>3, <1>4

\* And a restart.
LEMMA RestartType ==
    ASSUME TypeOK, Restart
    PROVE  TypeOK'
<1>1. \A s \in SeededSlots : SeededSlot(s) \in SlotRecord
  BY SetsAssumption DEF SeededSlot, SlotRecord
<1>2. slots' \in [Slots -> SlotRecord]
  BY <1>1 DEF TypeOK, Restart
<1>3. \A o \in SeedOrders :
        [orders[o] EXCEPT !.state = "pending_confirmation", !.slot = SeedSlot[o]] \in OrderRecord
  <2> SUFFICES ASSUME NEW o \in SeedOrders
               PROVE [orders[o] EXCEPT !.state = "pending_confirmation", !.slot = SeedSlot[o]]
                       \in OrderRecord
    OBVIOUS
  <2>1. o \in Orders /\ SeedSlot[o] \in Slots
    BY SetsAssumption
  <2> QED BY <2>1 DEF TypeOK, OrderRecord, OrderStates
<1>4. orders' \in [Orders -> OrderRecord]
  BY <1>3 DEF TypeOK, Restart
<1>5. booking' \in [Orders -> BookingSteps]
  BY DEF TypeOK, BookingSteps, Restart
<1>6. cancel' \in [Cancels -> CancelRecord]
  <2>1. \A c \in Cancels : [cancel[c] EXCEPT !.pc = "done"] \in CancelRecord
    BY DEF TypeOK, CancelRecord
  <2> QED BY <2>1 DEF TypeOK, Restart
<1>7. sweep' \in [Sweeps -> SweepRecord]
  <2>1. IdleSweep \in SweepRecord
    BY DEF IdleSweep, SweepRecord
  <2> QED BY <2>1 DEF Restart
<1>8. drift' \in [Slots -> SUBSET Causes]
  BY DEF TypeOK, Restart, Causes
<1>9. faults' \in 0..MaxFaults
  BY FaultType DEF Restart
<1> QED BY <1>2, <1>4, <1>5, <1>6, <1>7, <1>8, <1>9 DEF TypeOK, Restart

\* Every step keeps the types.
LEMMA NextType == TypeOK /\ [Next]_vars => TypeOK'
<1> SUFFICES ASSUME TypeOK, [Next]_vars PROVE TypeOK'
  OBVIOUS
<1>1. ASSUME NEW o \in Orders, NEW s \in Slots,
             BookRead(o, s)
      PROVE  TypeOK'
  <2>1. booking' \in [Orders -> BookingSteps]
    BY <1>1 DEF TypeOK, BookRead, Book, BookingSteps
  <2>2. orders' \in [Orders -> OrderRecord]
    <3>1. CASE Open(s) /\ orders' = [orders EXCEPT ![o].slot = s]
      <4>1. [orders[o] EXCEPT !.slot = s] \in OrderRecord
        BY DEF TypeOK, OrderRecord, SlotRecord
      <4>2. orders' = [orders EXCEPT ![o] = [orders[o] EXCEPT !.slot = s]]
        BY <3>1 DEF TypeOK
      <4> QED BY <4>1, <4>2 DEF TypeOK
    <3>2. CASE orders' = orders
      BY <3>2 DEF TypeOK
    <3> QED BY <1>1, <3>1, <3>2 DEF BookRead
  <2> QED BY <1>1, <2>1, <2>2 DEF TypeOK, BookRead, history
<1>2. ASSUME NEW o \in Orders, Complete(o) \/ Confirm(o)
      PROVE  TypeOK'
  <2>1. orders' \in [Orders -> OrderRecord]
    <3>1. \A st \in OrderStates : [orders[o] EXCEPT !.state = st] \in OrderRecord
      BY DEF TypeOK, OrderRecord
    <3>2. PICK st \in OrderStates : orders' = [orders EXCEPT ![o] = [orders[o] EXCEPT !.state = st]]
      BY <1>2 DEF Complete, Confirm, OrderStates
    <3> QED BY <3>1, <3>2 DEF TypeOK
  <2> QED BY <1>2, <2>1 DEF TypeOK, Complete, Confirm, procs, history
<1>3. CASE Tick
  BY <1>3, NumbersAssumption DEF TypeOK, Tick, procs, history
<1>4. CASE UNCHANGED vars
  BY <1>4 DEF TypeOK, vars, procs, history
<1> QED
  BY <1>1, <1>2, <1>3, <1>4, BookingStepType, CancelStepType, SweepStepType,
     StaffStepType, RestartType DEF Next

\* The types hold in every reachable state, for any number of slots, orders,
\* requests, worker runs and faults.
THEOREM BookingTypes == Spec => []TypeOK
<1>1. Init => TypeOK
  BY InitType
<1>2. TypeOK /\ [Next]_vars => TypeOK'
  BY NextType
<1> QED BY <1>1, <1>2, PTL DEF Spec
-----------------------------------------------------------------------------
(* Seats *)

\* A step that leaves slots, drift and granted alone and takes no seat away or back
\* keeps every slot's books balanced.
LEMMA LedgerFrame ==
    ASSUME TypeOK, Ledger, UNCHANGED <<slots, drift, granted>>,
           \A s \in Slots : Taken(s)' = Taken(s)
    PROVE  Ledger'
  BY DEF Ledger, Open

\* What a seat's place in Taken depends on.
LEMMA TakenFrame ==
    ASSUME TypeOK, UNCHANGED seat, \A o \in Orders : orders'[o].slot = orders[o].slot
    PROVE  \A s \in Slots : Taken(s)' = Taken(s)
  BY DEF Taken

\* A process that is done, or has only just begun, keeps the invariant.
LEMMA RejectInv ==
    ASSUME TypeOK, SeatInv, NEW o \in Orders, BookReject(o) \/ BookUnavailable(o)
    PROVE  SeatInv'
<1>1. \A p \in Orders : Phases(p)'
  BY DEF TypeOK, SeatInv, Phases, Clean, Alive, BookReject, BookUnavailable, Book, At, history,
         BookingSteps
<1>2. \A p \in Orders : OneClaimant(p)'
  BY DEF SeatInv, OneClaimant, Releasing, Sweeping, Clean, BookReject, BookUnavailable, history
<1>3. Targets'
  BY DEF SeatInv, Targets, BookReject, BookUnavailable, history
<1>4. Ledger'
  BY LedgerFrame, TakenFrame DEF SeatInv, BookReject, BookUnavailable, history
<1> QED BY <1>1, <1>2, <1>3, <1>4 DEF SeatInv

\* findCapacitySlotById: the request has no seat yet, so naming a slot moves none.
LEMMA ReadInv ==
    ASSUME TypeOK, SeatInv, NEW o \in Orders, NEW s \in Slots, BookRead(o, s)
    PROVE  SeatInv'
<1>1. o \notin SeedOrders /\ seat[o] = "none" /\ orders[o].state = "none"
  BY DEF SeatInv, Phases, BookRead, At
<1>2. \A p \in Orders : orders'[p].state = orders[p].state
                        /\ orders'[p].expiresAt = orders[p].expiresAt
  <2> DEFINE r == [orders[o] EXCEPT !.slot = s]
  <2>1. r.state = orders[o].state /\ r.expiresAt = orders[o].expiresAt
    BY DEF TypeOK, OrderRecord
  <2>2. orders' = orders \/ orders' = [orders EXCEPT ![o] = r]
    BY DEF TypeOK, OrderRecord, BookRead
  <2> HIDE DEF r
  <2> QED BY <2>1, <2>2 DEF TypeOK
<1>3. \A p \in Orders : p # o => orders'[p] = orders[p] /\ booking'[p] = booking[p]
  BY DEF TypeOK, BookRead, Book
<1>4. \A p \in Orders : Phases(p)'
  <2> SUFFICES ASSUME NEW p \in Orders PROVE Phases(p)'
    OBVIOUS
  <2>1. CASE p # o
    BY <1>3, <2>1, SetsAssumption DEF SeatInv, Phases, Clean, Alive, BookRead, history
  <2>2. CASE p = o /\ Open(s)
    <3>1. orders'[o].slot = s /\ booking'[o] = "quoting"
      BY <2>2 DEF TypeOK, BookRead, Book, OrderRecord
    <3> QED BY <1>1, <1>2, <2>2, <3>1, SetsAssumption
            DEF Phases, Clean, Alive, BookRead, history, Open
  <2>3. CASE p = o /\ ~Open(s)
    <3>1. orders' = orders /\ booking'[o] = "done"
      BY <2>3 DEF TypeOK, BookRead, Book, BookingSteps
    <3> QED BY <1>1, <1>2, <2>3, <3>1 DEF SeatInv, Phases, Clean, Alive, BookRead, history
  <2> QED BY <2>1, <2>2, <2>3
<1>5. \A p \in Orders : OneClaimant(p)'
  BY <1>1, <1>2, <1>3 DEF SeatInv, OneClaimant, Releasing, Sweeping, Clean, BookRead, history
<1>6. Targets'
  BY <1>2 DEF SeatInv, Targets, BookRead, history
<1>7. Ledger'
  <2>1. \A r \in Slots : Taken(r)' = Taken(r)
    BY <1>1, <1>3 DEF Taken, BookRead, history
  <2> QED BY <2>1, LedgerFrame DEF SeatInv, BookRead, history
<1> QED BY <1>4, <1>5, <1>6, <1>7 DEF SeatInv

\* decrementCapacitySlot: the counter goes down as the order's seat becomes taken.
LEMMA TakeInv ==
    ASSUME TypeOK, SeatInv, NEW o \in Orders, BookDecrement(o) \/ BookDecrementLost(o)
    PROVE  SeatInv'
<1> DEFINE s == orders[o].slot
<1>1. /\ o \notin SeedOrders /\ seat[o] = "none" /\ orders[o].state = "none"
      /\ s \in Slots /\ Open(s)
  BY DEF SeatInv, Phases, BookDecrement, BookDecrementLost, TakeSeat, SeatFree, Open, At
<1>2. TakeSeat(o) /\ orders' = orders /\ UNCHANGED <<cancel, sweep, clock, drift, granted>>
  BY DEF BookDecrement, BookDecrementLost, TakeSeat
<1>3. \A p \in Orders : p # o => seat'[p] = seat[p] /\ booking'[p] = booking[p]
  BY DEF TypeOK, BookDecrement, BookDecrementLost, TakeSeat, Book
<1>4. seat'[o] = "taken" /\ booking'[o] \in {"seated", "done"}
  BY DEF TypeOK, BookDecrement, BookDecrementLost, TakeSeat, Book, BookingSteps
<1>5. \A r \in Slots : slots'[r].status = slots[r].status
                       /\ slots'[r].remaining = slots[r].remaining - (IF r = s THEN 1 ELSE 0)
  BY <1>1, <1>2 DEF TypeOK, TakeSeat, SlotRecord
<1>6. \A p \in Orders : Phases(p)'
  <2> SUFFICES ASSUME NEW p \in Orders PROVE Phases(p)'
    OBVIOUS
  <2>1. Phases(p) /\ (Clean(p)' <=> Clean(p)) /\ (Alive(p)' <=> Alive(p))
    BY <1>2 DEF SeatInv, Clean, Alive
  <2>2. CASE p = o
    <3>1. slots'[s].status # "unborn" /\ orders'[o].slot # NoSlot
      BY <1>1, <1>2, <1>5, SetsAssumption DEF Open
    <3> QED BY <1>1, <1>2, <1>4, <2>1, <2>2, <3>1 DEF Phases
  <2>3. CASE p # o
    BY <1>2, <1>3, <1>5, <2>1, <2>3 DEF Phases
  <2> QED BY <2>2, <2>3
<1>7. \A p \in Orders : OneClaimant(p)'
  BY <1>1, <1>2, <1>3, <1>4 DEF SeatInv, OneClaimant, Releasing, Sweeping, Clean
<1>8. Targets'
  BY <1>2 DEF SeatInv, Targets
<1>9. Ledger'
  <2> SUFFICES ASSUME NEW r \in Slots, Open(r)', drift[r] = {}
               PROVE  slots'[r].remaining + Cardinality(Taken(r)') = granted[r]
    BY <1>2 DEF Ledger
  <2>1. slots[r].remaining + Cardinality(Taken(r)) = granted[r]
    BY <1>5 DEF SeatInv, Ledger, Open
  <2>2. CASE r # s
    <3>1. Taken(r)' = Taken(r)
      BY <1>2, <1>3, <2>2 DEF Taken
    <3> QED BY <1>5, <2>1, <2>2, <3>1 DEF TypeOK, SlotRecord
  <2>3. CASE r = s
    <3>1. Taken(r)' = Taken(r) \cup {o} /\ o \notin Taken(r)
      BY <1>1, <1>2, <1>3, <1>4, <2>3 DEF Taken
    <3>2. IsFiniteSet(Taken(r))
      BY SetsAssumption, FS_Subset DEF Taken
    <3>3. Cardinality(Taken(r)') = Cardinality(Taken(r)) + 1 /\ Cardinality(Taken(r)) \in Nat
      BY <3>1, <3>2, FS_AddElement, FS_CardinalityType
    <3>4. slots[s].remaining \in Int
      BY <1>1 DEF TypeOK, SlotRecord
    <3>5. slots'[r].remaining = slots[s].remaining - 1
      BY <1>5, <2>3
    <3> QED BY <2>1, <2>3, <3>3, <3>4, <3>5
  <2> QED BY <2>2, <2>3
<1> QED BY <1>6, <1>7, <1>8, <1>9 DEF SeatInv

\* Between the decrement and the catch block the request keeps its seat.
LEMMA HoldInv ==
    ASSUME TypeOK, SeatInv, NEW o \in Orders,
           BookSettings(o) \/ BookSettingsFails(o) \/ BookRefundFails(o)
    PROVE  SeatInv'
<1>1. o \notin SeedOrders
  BY DEF SeatInv, Phases, BookSettings, BookSettingsFails, BookRefundFails, At
<1>2. UNCHANGED <<slots, cancel, sweep, clock, granted, drift, seat>>
  BY DEF BookSettings, BookSettingsFails, BookRefundFails, history
<1>3. \A p \in Orders : orders'[p].state = orders[p].state /\ orders'[p].slot = orders[p].slot
                        /\ (orders[p].state # "none" => orders'[p].expiresAt = orders[p].expiresAt)
  BY <1>1 DEF TypeOK, OrderRecord, SeatInv, Phases, BookSettings, BookSettingsFails,
              BookRefundFails, At
<1>4. \A p \in Orders : p # o => booking'[p] = booking[p]
  BY DEF TypeOK, BookSettings, BookSettingsFails, BookRefundFails, Book
<1>5. \/ booking[o] = "seated" /\ booking'[o] \in {"dated", "done"}
      \/ booking[o] = "refunding" /\ booking'[o] = "done"
  BY DEF TypeOK, BookingSteps, BookSettings, BookSettingsFails, BookRefundFails, Book, At
<1>6. \A p \in Orders : Phases(p)'
  BY <1>1, <1>2, <1>3, <1>4, <1>5 DEF SeatInv, Phases, Clean, Alive
<1>7. \A p \in Orders : OneClaimant(p)'
  BY <1>2, <1>3 DEF SeatInv, OneClaimant, Releasing, Sweeping, Clean
<1>8. Targets'
  BY <1>2, <1>3 DEF SeatInv, Targets
<1>9. Ledger'
  BY <1>2, <1>3, LedgerFrame, TakenFrame DEF SeatInv
<1> QED BY <1>6, <1>7, <1>8, <1>9 DEF SeatInv

\* insertOrder: the seat passes from the request to the order; if the caller is told
\* that it failed although it did not, the slot is no longer clean.
LEMMA InsertInv ==
    ASSUME TypeOK, SeatInv, NEW o \in Orders, BookInsert(o) \/ BookInsertFails(o)
    PROVE  SeatInv'
<1>1. /\ o \notin SeedOrders /\ orders[o].state = "none" /\ orders[o].slot \in Slots
      /\ Clean(o) => seat[o] = "taken"
  BY DEF TypeOK, OrderRecord, SeatInv, Phases, BookInsert, BookInsertFails, At
<1>2. UNCHANGED <<slots, cancel, sweep, clock, granted, seat>>
  BY DEF BookInsert, BookInsertFails, history
<1>3. \A p \in Orders : p # o => orders'[p] = orders[p] /\ booking'[p] = booking[p]
  BY DEF TypeOK, BookInsert, BookInsertFails, Stored, Book
<1>4. orders'[o].slot = orders[o].slot
  BY DEF TypeOK, OrderRecord, BookInsert, BookInsertFails, Stored
<1>5. \/ /\ booking'[o] = "done" /\ drift' = drift
         /\ orders'[o].state = "pending_confirmation"
      \/ /\ booking'[o] = "refunding" /\ drift' = drift
         /\ orders'[o].state = "none"
      \/ /\ booking'[o] = "refunding" /\ orders'[o].state = "pending_confirmation"
         /\ drift' = [drift EXCEPT ![orders[o].slot] = @ \cup {"lostInsertAck"}]
  BY <1>1 DEF TypeOK, OrderRecord, BookingSteps, BookInsert, BookInsertFails, Stored, Book, history
<1>6. \A s \in Slots : drift[s] \subseteq drift'[s]
  BY <1>1, <1>5 DEF TypeOK
<1>7. \A p \in Orders : Clean(p)' => Clean(p)
  BY <1>1, <1>3, <1>4, <1>6, SetsAssumption DEF TypeOK, OrderRecord, Clean
<1>8. \A p \in Orders : Phases(p)'
  <2> SUFFICES ASSUME NEW p \in Orders PROVE Phases(p)'
    OBVIOUS
  <2>1. CASE p # o
    BY <1>2, <1>3, <1>7, <2>1 DEF SeatInv, Phases, Alive
  <2>2. CASE p = o
    <3>1. orders'[o].state # "none" /\ booking'[o] = "refunding" => ~Clean(o)'
      BY <1>1, <1>4, <1>5 DEF TypeOK, Clean
    <3>2. slots'[orders'[o].slot].status # "unborn"
      BY <1>1, <1>2, <1>4 DEF SeatInv, Phases
    <3>3. Clean(o)' => seat[o] = "taken"
      BY <1>1, <1>7
    <3>4. orders'[o].slot # NoSlot
      BY <1>1, <1>4, SetsAssumption
    <3>5. booking'[o] \in {"refunding", "done"}
      BY <1>5
    <3> QED BY <1>1, <1>2, <2>2, <3>1, <3>2, <3>3, <3>4, <3>5 DEF Phases, Alive
  <2> QED BY <2>1, <2>2
<1>9. \A p \in Orders : OneClaimant(p)'
  BY <1>1, <1>2, <1>3, <1>4, <1>7 DEF SeatInv, OneClaimant, Releasing, Sweeping
<1>10. Targets'
  BY <1>1, <1>2, <1>3 DEF SeatInv, Targets
<1>11. Ledger'
  <2>1. \A s \in Slots : Taken(s)' = Taken(s)
    BY <1>2, <1>3, <1>4, TakenFrame
  <2> QED BY <1>2, <1>6, <2>1 DEF SeatInv, Ledger, Open
<1> QED BY <1>8, <1>9, <1>10, <1>11 DEF SeatInv

\* Giving back a seat that is still taken balances the books of its slot.
LEMMA ReturnLedger ==
    ASSUME TypeOK, SeatInv, NEW o \in Orders, ReturnSeat(o),
           UNCHANGED <<orders, drift, granted>>, Clean(o) => seat[o] = "taken"
    PROVE  Ledger'
<1> DEFINE s == orders[o].slot
<1> SUFFICES ASSUME NEW r \in Slots, Open(r)', drift[r] = {}
             PROVE  slots'[r].remaining + Cardinality(Taken(r)') = granted[r]
  BY DEF Ledger
<1>1. Open(r)
  BY DEF TypeOK, SlotRecord, ReturnSeat, Open
<1>2. slots[r].remaining + Cardinality(Taken(r)) = granted[r]
  BY <1>1 DEF SeatInv, Ledger
<1>3. CASE r # s
  <2>1. Taken(r)' = Taken(r)
    BY <1>3 DEF TypeOK, Taken, ReturnSeat
  <2>2. slots'[r] = slots[r]
    BY <1>3 DEF TypeOK, ReturnSeat
  <2> QED BY <1>2, <2>1, <2>2
<1>4. CASE r = s
  <2>1. Clean(o)
    BY <1>4, SetsAssumption DEF Clean
  <2>2. seat[o] = "taken" /\ seat'[o] = "returned"
    BY <2>1 DEF TypeOK, ReturnSeat
  <2>3. o \in Taken(r) /\ Taken(r)' = Taken(r) \ {o}
    BY <1>4, <2>2 DEF TypeOK, Taken, ReturnSeat
  <2>4. IsFiniteSet(Taken(r))
    BY SetsAssumption, FS_Subset DEF Taken
  <2>5. Cardinality(Taken(r)') = Cardinality(Taken(r)) - 1 /\ Cardinality(Taken(r)) \in Nat
    BY <2>3, <2>4, FS_RemoveElement, FS_CardinalityType
  <2>6. slots[r].remaining \in Int
    BY DEF TypeOK, SlotRecord
  <2>7. slots'[r].remaining = slots[r].remaining + 1
    BY <1>1, <1>4 DEF TypeOK, SlotRecord, ReturnSeat
  <2> QED BY <1>2, <2>5, <2>6, <2>7
<1> QED BY <1>3, <1>4

\* What giving a seat back leaves alone.
LEMMA ReturnFrame ==
    ASSUME TypeOK, NEW o \in Orders, ReturnSeat(o)
    PROVE  /\ \A s \in Slots : slots'[s].status = slots[s].status
           /\ \A p \in Orders : p # o => seat'[p] = seat[p]
           /\ seat[o] = "taken" => seat'[o] = "returned"
           /\ seat'[o] # "none"
  BY DEF TypeOK, SlotRecord, ReturnSeat

\* The catch block of createOrder: in a clean slot the order was not stored.
LEMMA RefundInv ==
    ASSUME TypeOK, SeatInv, NEW o \in Orders, BookRefund(o)
    PROVE  SeatInv'
<1>1. /\ o \notin SeedOrders
      /\ Clean(o) => seat[o] = "taken" /\ orders[o].state = "none"
  BY DEF SeatInv, Phases, BookRefund, At
<1>2. UNCHANGED <<orders, cancel, sweep, clock, granted, drift>> /\ ReturnSeat(o)
  BY DEF BookRefund
<1>3. /\ booking'[o] = "done"
      /\ \A p \in Orders : p # o => booking'[p] = booking[p]
  BY DEF TypeOK, BookRefund, Book, BookingSteps
<1>4. \A p \in Orders : Phases(p)'
  BY <1>1, <1>2, <1>3, ReturnFrame DEF SeatInv, Phases, Clean, Alive
<1>5. \A p \in Orders : OneClaimant(p)'
  BY <1>1, <1>2, ReturnFrame DEF SeatInv, OneClaimant, Releasing, Sweeping, Clean
<1>6. Targets'
  BY <1>2 DEF SeatInv, Targets
<1>7. Ledger'
  BY <1>1, <1>2, ReturnLedger
<1> QED BY <1>4, <1>5, <1>6, <1>7 DEF SeatInv

\* findOrderById: the cancellation aims at a stored order.
LEMMA CancelReadInv ==
    ASSUME TypeOK, SeatInv, NEW c \in Cancels, NEW o \in Orders, CancelRead(c, o)
    PROVE  SeatInv'
<1>1. UNCHANGED <<slots, orders, booking, sweep, clock, granted, drift, seat>>
  BY DEF CancelRead, history
<1>2. /\ cancel[c].pc = "idle" /\ cancel'[c].pc # "releasing" /\ cancel'[c].order = o
      /\ \A d \in Cancels : d # c => cancel'[d] = cancel[d]
      /\ orders[o].state # "none"
  BY DEF TypeOK, CancelRead, CancelRecord
<1>3. \A p \in Orders : Phases(p)'
  BY <1>1 DEF SeatInv, Phases, Clean, Alive
<1>4. \A p \in Orders : Releasing(p)' = Releasing(p)
  BY <1>2 DEF Releasing
<1>5. \A p \in Orders : OneClaimant(p)'
  BY <1>1, <1>4 DEF SeatInv, OneClaimant, Sweeping, Clean
<1>6. Targets'
  BY <1>1, <1>2 DEF SeatInv, Targets
<1>7. Ledger'
  BY <1>1, LedgerFrame, TakenFrame DEF SeatInv
<1> QED BY <1>3, <1>5, <1>6, <1>7 DEF SeatInv

\* A claim: the order was alive, so nobody else holds a claim on it and its seat is taken.
LEMMA ClaimFrame ==
    ASSUME TypeOK, SeatInv, NEW o \in Orders,
           orders[o].state \in {"pending_confirmation", "confirmed"},
           NEW why \in {"customer_cancelled", "pending_timeout"},
           orders' = Cancelled(o, why),
           UNCHANGED <<slots, booking, clock, granted, drift, seat>>
    PROVE  /\ orders'[o].state = "cancelled"
           /\ \A p \in Orders : p # o => orders'[p] = orders[p]
           /\ \A p \in Orders : orders'[p].slot = orders[p].slot
                               /\ orders'[p].expiresAt = orders[p].expiresAt
           /\ Releasing(o) = {} /\ Sweeping(o) = {}
           /\ Clean(o) => seat[o] = "taken"
           /\ \A p \in Orders : Phases(p)' /\ (Clean(p)' <=> Clean(p))
           /\ Ledger'
<1>1. /\ orders'[o].state = "cancelled"
      /\ \A p \in Orders : p # o => orders'[p] = orders[p]
      /\ \A p \in Orders : orders'[p].slot = orders[p].slot
                          /\ orders'[p].expiresAt = orders[p].expiresAt
  BY DEF TypeOK, OrderRecord, Cancelled
<1>2. Releasing(o) = {} /\ Sweeping(o) = {} /\ (Clean(o) => seat[o] = "taken")
  BY DEF SeatInv, OneClaimant, Phases, Alive
<1>3. \A p \in Orders : Clean(p)' <=> Clean(p)
  BY <1>1 DEF Clean
<1>4. \A p \in Orders : Phases(p)'
  <2> SUFFICES ASSUME NEW p \in Orders PROVE Phases(p)'
    OBVIOUS
  <2>1. Phases(p)
    BY DEF SeatInv
  <2>2. CASE p # o
    BY <1>1, <1>3, <2>1, <2>2 DEF Phases, Alive
  <2>3. CASE p = o
    BY <1>1, <1>3, <2>1, <2>3 DEF Phases, Alive
  <2> QED BY <2>2, <2>3
<1>5. Ledger'
  BY <1>1, LedgerFrame, TakenFrame DEF SeatInv
<1> QED BY <1>1, <1>2, <1>3, <1>4, <1>5

LEMMA CancelClaimInv ==
    ASSUME TypeOK, SeatInv, NEW c \in Cancels, CancelClaim(c)
    PROVE  SeatInv'
<1>1. PICK o \in Orders : o = cancel[c].order /\ orders[o].state # "none"
  BY DEF SeatInv, Targets, CancelClaim
<1>2. UNCHANGED <<slots, booking, sweep, clock, granted, drift, seat>>
  BY DEF CancelClaim, history
<1>3. /\ cancel'[c].order = o
      /\ \A d \in Cancels : d # c => cancel'[d] = cancel[d]
  BY <1>1 DEF TypeOK, CancelRecord, CancelClaim, CancelMoves
<1>4. CASE ~CancelFilter(o)
  <2>1. orders' = orders /\ cancel'[c].pc = "done" /\ cancel[c].pc = "claiming"
    BY <1>1, <1>4 DEF TypeOK, CancelRecord, CancelClaim, CancelMoves
  <2>2. \A p \in Orders : Phases(p)'
    BY <1>2, <2>1 DEF SeatInv, Phases, Clean, Alive
  <2>3. \A p \in Orders : OneClaimant(p)'
    BY <1>2, <1>3, <2>1 DEF SeatInv, OneClaimant, Releasing, Sweeping, Clean
  <2>4. Targets'
    BY <1>2, <1>3, <2>1 DEF SeatInv, Targets
  <2>5. Ledger'
    BY <1>2, <2>1, LedgerFrame, TakenFrame DEF SeatInv
  <2> QED BY <2>2, <2>3, <2>4, <2>5 DEF SeatInv
<1>5. CASE CancelFilter(o)
  <2>1. orders' = Cancelled(o, "customer_cancelled")
        /\ orders[o].state \in {"pending_confirmation", "confirmed"}
    BY <1>1, <1>5 DEF CancelClaim, CancelFilter, Cancellable
  <2>2. /\ orders'[o].state = "cancelled"
        /\ \A p \in Orders : p # o => orders'[p] = orders[p]
        /\ \A p \in Orders : orders'[p].expiresAt = orders[p].expiresAt
        /\ Releasing(o) = {} /\ Sweeping(o) = {}
        /\ Clean(o) => seat[o] = "taken"
        /\ \A p \in Orders : Phases(p)' /\ (Clean(p)' <=> Clean(p))
        /\ Ledger'
    BY <1>1, <1>2, <2>1, ClaimFrame
  <2>3. \A p \in Orders : OneClaimant(p)'
    <3>1. \A p \in Orders : Sweeping(p)' = Sweeping(p)
      BY <1>2 DEF Sweeping
    <3>2. \A p \in Orders : p # o => Releasing(p)' = Releasing(p)
      BY <1>1, <1>3 DEF Releasing
    <3>3. Releasing(o)' \subseteq {c}
      BY <1>3, <2>2 DEF Releasing
    <3>4. OneClaimant(o)'
      BY <1>2, <2>2, <3>1, <3>3 DEF OneClaimant
    <3>5. \A p \in Orders : p # o => OneClaimant(p)'
      BY <1>2, <2>2, <3>1, <3>2 DEF SeatInv, OneClaimant
    <3> QED BY <3>4, <3>5
  <2>4. Targets'
    BY <1>1, <1>2, <1>3, <2>2 DEF SeatInv, Targets
  <2> QED BY <2>2, <2>3, <2>4 DEF SeatInv
<1> QED BY <1>4, <1>5

LEMMA CancelReleaseInv ==
    ASSUME TypeOK, SeatInv, NEW c \in Cancels, CancelRelease(c) \/ CancelReleaseFails(c)
    PROVE  SeatInv'
<1>1. PICK o \in Orders : o = cancel[c].order /\ c \in Releasing(o)
  BY DEF SeatInv, Targets, Releasing, CancelRelease, CancelReleaseFails
<1>2. UNCHANGED <<orders, booking, sweep, clock, granted, drift>>
  BY DEF CancelRelease, CancelReleaseFails, history
<1>3. /\ cancel'[c].pc = "done"
      /\ \A d \in Cancels : d # c => cancel'[d] = cancel[d]
  BY DEF TypeOK, CancelRecord, CancelRelease, CancelReleaseFails, CancelMoves
<1>4. /\ Releasing(o) = {c} /\ Sweeping(o) = {}
      /\ orders[o].state = "cancelled" /\ (Clean(o) => seat[o] = "taken")
  BY <1>1 DEF SeatInv, OneClaimant
<1>5. /\ \A s \in Slots : slots'[s].status = slots[s].status
      /\ \A p \in Orders : p # o => seat'[p] = seat[p]
      /\ seat[o] = "taken" => seat'[o] \in {"taken", "returned"}
      /\ seat'[o] = "none" => seat[o] = "none"
  BY <1>1, ReturnFrame DEF CancelRelease, CancelReleaseFails, history
<1>6. \A p \in Orders : Phases(p)'
  <2> SUFFICES ASSUME NEW p \in Orders PROVE Phases(p)'
    OBVIOUS
  <2>1. Phases(p) /\ (Clean(p)' <=> Clean(p)) /\ (Alive(p)' <=> Alive(p))
    BY <1>2 DEF SeatInv, Clean, Alive
  <2>2. CASE p # o
    BY <1>2, <1>5, <2>1, <2>2 DEF Phases
  <2>3. CASE p = o
    BY <1>2, <1>4, <1>5, <2>1, <2>3 DEF Phases, Alive
  <2> QED BY <2>2, <2>3
<1>7. \A p \in Orders : OneClaimant(p)'
  <2>1. \A p \in Orders : p # o => Releasing(p)' = Releasing(p)
    BY <1>1, <1>3 DEF Releasing
  <2>2. Releasing(o)' = {}
    <3> SUFFICES ASSUME NEW d \in Releasing(o)' PROVE FALSE
      OBVIOUS
    <3>1. d \in Cancels /\ d # c
      BY <1>1, <1>3 DEF Releasing
    <3>2. d \in Releasing(o)
      BY <1>3, <3>1 DEF Releasing
    <3> QED BY <1>4, <3>1, <3>2
  <2>3. \A p \in Orders : Sweeping(p)' = Sweeping(p)
    BY <1>2 DEF Sweeping
  <2>4. \A p \in Orders : Clean(p)' <=> Clean(p)
    BY <1>2 DEF Clean
  <2>5. OneClaimant(o)'
    BY <1>4, <2>2, <2>3 DEF OneClaimant
  <2>6. \A p \in Orders : p # o => OneClaimant(p)'
    BY <1>2, <1>5, <2>1, <2>3, <2>4 DEF SeatInv, OneClaimant
  <2> QED BY <2>5, <2>6
<1>8. Targets'
  BY <1>2, <1>3 DEF SeatInv, Targets
<1>9. Ledger'
  <2>1. CASE ReturnSeat(o)
    BY <1>1, <1>2, <1>4, <2>1, ReturnLedger
  <2>2. CASE UNCHANGED <<slots, seat>>
    BY <1>2, <2>2, LedgerFrame, TakenFrame DEF SeatInv
  <2> QED BY <1>1, <2>1, <2>2 DEF CancelRelease, CancelReleaseFails, history
<1> QED BY <1>6, <1>7, <1>8, <1>9 DEF SeatInv

\* The worker's timer and its findOne: a run aims at an order that was due.
LEMMA SweepFindInv ==
    ASSUME TypeOK, SeatInv, NEW w \in Sweeps, SweepStart(w) \/ SweepFind(w)
    PROVE  SeatInv'
<1>1. UNCHANGED <<slots, orders, booking, cancel, clock, granted, drift, seat>>
  BY DEF SweepStart, SweepFind, history
<1>2. \A v \in Sweeps : v # w => sweep'[v] = sweep[v]
  BY DEF TypeOK, SweepStart, SweepFind
<1>3. sweep[w].pc \in {"idle", "finding"} /\ sweep'[w].pc # "releasing"
  BY DEF TypeOK, SweepStart, SweepFind, IdleSweep
<1>4. \/ sweep'[w].pc \in {"idle", "finding"} /\ sweep'[w].now \in {0, clock}
      \/ /\ sweep'[w].now = sweep[w].now
         /\ sweep'[w].order \in Orders /\ Expired(sweep'[w].order, sweep[w].now)
  BY DEF TypeOK, SweepStart, SweepFind, IdleSweep
<1>5. \A p \in Orders : Phases(p)'
  BY <1>1 DEF SeatInv, Phases, Clean, Alive
<1>6. \A p \in Orders : Sweeping(p)' = Sweeping(p)
  BY <1>2, <1>3 DEF Sweeping
<1>7. \A p \in Orders : OneClaimant(p)'
  BY <1>1, <1>6 DEF SeatInv, OneClaimant, Releasing, Clean
<1>8. Targets'
  <2>1. 0 <= clock /\ clock <= clock /\ 0 \in Int /\ clock \in Int
    BY NumbersAssumption DEF TypeOK
  <2> QED BY <1>1, <1>2, <1>4, <2>1 DEF SeatInv, Targets, Expired, Unclaimed
<1>9. Ledger'
  BY <1>1, LedgerFrame, TakenFrame DEF SeatInv
<1> QED BY <1>5, <1>7, <1>8, <1>9 DEF SeatInv

\* The worker's claim, and the end of a run whose call failed.
LEMMA SweepClaimInv ==
    ASSUME TypeOK, SeatInv, NEW w \in Sweeps, SweepClaim(w) \/ SweepFails(w)
    PROVE  SeatInv'
<1>1. UNCHANGED <<slots, booking, cancel, clock, granted, drift, seat>>
  BY DEF SweepClaim, SweepFails, history
<1>2. \A v \in Sweeps : v # w => sweep'[v] = sweep[v]
  BY DEF TypeOK, SweepClaim, SweepFails, SweepMoves
<1>3. /\ sweep'[w].pc = "releasing" => sweep'[w].order = sweep[w].order /\ sweep[w].pc = "claiming"
      /\ sweep'[w].pc # "claiming"
      /\ sweep'[w].now \in {0, sweep[w].now}
      /\ sweep'[w].pc = "releasing" => sweep'[w].now = sweep[w].now
  BY DEF TypeOK, SweepRecord, SweepClaim, SweepFails, SweepMoves, IdleSweep
<1>4. CASE orders' = orders /\ sweep'[w].pc # "releasing"
  <2>1. \A p \in Orders : Phases(p)'
    BY <1>1, <1>4 DEF SeatInv, Phases, Clean, Alive
  <2>2. \A p \in Orders : Sweeping(p)' \subseteq Sweeping(p)
    BY <1>2, <1>4 DEF Sweeping
  <2>3. \A p \in Orders : OneClaimant(p)'
    BY <1>1, <1>4, <2>2 DEF SeatInv, OneClaimant, Releasing, Clean
  <2>4. Targets'
    <3>1. 0 <= clock
      BY NumbersAssumption DEF TypeOK
    <3> QED BY <1>1, <1>2, <1>3, <1>4, <3>1 DEF SeatInv, Targets
  <2>5. Ledger'
    BY <1>1, <1>4, LedgerFrame, TakenFrame DEF SeatInv
  <2> QED BY <2>1, <2>3, <2>4, <2>5 DEF SeatInv
<1>5. CASE /\ sweep[w].pc = "claiming" /\ Unclaimed(sweep[w].order)
           /\ orders' = Cancelled(sweep[w].order, "pending_timeout")
  <2>1. PICK o \in Orders :
          o = sweep[w].order /\ orders[o].state # "none" /\ orders[o].expiresAt <= sweep[w].now
    BY <1>5 DEF SeatInv, Targets
  <2>2. /\ orders'[o].state = "cancelled"
        /\ \A p \in Orders : p # o => orders'[p] = orders[p]
        /\ \A p \in Orders : orders'[p].expiresAt = orders[p].expiresAt
        /\ Releasing(o) = {} /\ Sweeping(o) = {}
        /\ Clean(o) => seat[o] = "taken"
        /\ \A p \in Orders : Phases(p)' /\ (Clean(p)' <=> Clean(p))
        /\ Ledger'
    BY <1>1, <1>5, <2>1, ClaimFrame DEF Unclaimed
  <2>3. \A p \in Orders : OneClaimant(p)'
    <3>1. \A p \in Orders : Releasing(p)' = Releasing(p)
      BY <1>1 DEF Releasing
    <3>2. \A p \in Orders : p # o => Sweeping(p)' = Sweeping(p)
      BY <1>2, <1>3, <1>5, <2>1 DEF Sweeping
    <3>3. Sweeping(o)' \subseteq {w}
      BY <1>2, <2>1, <2>2 DEF Sweeping
    <3>4. OneClaimant(o)'
      BY <1>1, <2>2, <3>1, <3>3 DEF OneClaimant
    <3>5. \A p \in Orders : p # o => OneClaimant(p)'
      BY <1>1, <2>2, <3>1, <3>2 DEF SeatInv, OneClaimant
    <3> QED BY <3>4, <3>5
  <2>4. Targets'
    <3>1. 0 <= clock
      BY NumbersAssumption DEF TypeOK
    <3> QED BY <1>1, <1>2, <1>3, <2>1, <2>2, <3>1 DEF SeatInv, Targets
  <2> QED BY <2>2, <2>3, <2>4 DEF SeatInv
<1>6. \/ orders' = orders /\ sweep'[w].pc # "releasing"
      \/ /\ sweep[w].pc = "claiming" /\ Unclaimed(sweep[w].order)
         /\ orders' = Cancelled(sweep[w].order, "pending_timeout")
  BY DEF TypeOK, SweepRecord, SweepClaim, SweepFails, SweepMoves, ClaimFilter, IdleSweep
<1> QED BY <1>4, <1>5, <1>6

LEMMA SweepReleaseInv ==
    ASSUME TypeOK, SeatInv, NEW w \in Sweeps, SweepRelease(w)
    PROVE  SeatInv'
<1>1. PICK o \in Orders : o = sweep[w].order /\ w \in Sweeping(o)
  BY DEF SeatInv, Targets, Sweeping, SweepRelease
<1>2. UNCHANGED <<orders, booking, cancel, clock, granted, drift>> /\ ReturnSeat(o)
  BY <1>1 DEF SweepRelease
<1>3. /\ sweep'[w].pc = "finding" /\ sweep'[w].now = sweep[w].now
      /\ \A v \in Sweeps : v # w => sweep'[v] = sweep[v]
  BY DEF TypeOK, SweepRecord, SweepRelease, SweepMoves
<1>4. /\ \A v \in Sweeping(o) : v = w
      /\ Releasing(o) = {}
      /\ orders[o].state = "cancelled" /\ (Clean(o) => seat[o] = "taken")
  BY <1>1 DEF SeatInv, OneClaimant
<1>5. /\ \A s \in Slots : slots'[s].status = slots[s].status
      /\ \A p \in Orders : p # o => seat'[p] = seat[p]
      /\ seat[o] = "taken" => seat'[o] = "returned"
      /\ seat'[o] # "none"
  BY <1>1, <1>2, ReturnFrame
<1>6. \A p \in Orders : Phases(p)'
  <2> SUFFICES ASSUME NEW p \in Orders PROVE Phases(p)'
    OBVIOUS
  <2>1. Phases(p) /\ (Clean(p)' <=> Clean(p)) /\ (Alive(p)' <=> Alive(p))
    BY <1>2 DEF SeatInv, Clean, Alive
  <2>2. CASE p # o
    BY <1>2, <1>5, <2>1, <2>2 DEF Phases
  <2>3. CASE p = o
    BY <1>2, <1>4, <1>5, <2>1, <2>3 DEF Phases, Alive
  <2> QED BY <2>2, <2>3
<1>7. \A p \in Orders : OneClaimant(p)'
  <2>1. \A p \in Orders : p # o => Sweeping(p)' = Sweeping(p)
    BY <1>1, <1>3 DEF Sweeping
  <2>2. Sweeping(o)' = {}
    <3> SUFFICES ASSUME NEW v \in Sweeping(o)' PROVE FALSE
      OBVIOUS
    <3>1. v \in Sweeps /\ v # w
      BY <1>1, <1>3 DEF Sweeping
    <3>2. v \in Sweeping(o)
      BY <1>3, <3>1 DEF Sweeping
    <3> QED BY <1>4, <3>1, <3>2
  <2>3. \A p \in Orders : Releasing(p)' = Releasing(p)
    BY <1>2 DEF Releasing
  <2>4. \A p \in Orders : Clean(p)' <=> Clean(p)
    BY <1>2 DEF Clean
  <2>5. OneClaimant(o)'
    BY <1>4, <2>2, <2>3 DEF OneClaimant
  <2>6. \A p \in Orders : p # o => OneClaimant(p)'
    BY <1>2, <1>5, <2>1, <2>3, <2>4 DEF SeatInv, OneClaimant
  <2> QED BY <2>5, <2>6
<1>8. Targets'
  BY <1>2, <1>3 DEF SeatInv, Targets
<1>9. Ledger'
  BY <1>1, <1>2, <1>4, ReturnLedger
<1> QED BY <1>6, <1>7, <1>8, <1>9 DEF SeatInv

\* Completing and confirming keep a live order alive.
LEMMA MoveInv ==
    ASSUME TypeOK, SeatInv, NEW o \in Orders, Complete(o) \/ Confirm(o)
    PROVE  SeatInv'
<1>1. UNCHANGED <<slots, booking, cancel, sweep, clock, granted, drift, seat>>
  BY DEF Complete, Confirm, procs, history
<1>2. /\ orders[o].state \in {"pending_confirmation", "confirmed", "in_progress"}
      /\ orders'[o].state \in {"confirmed", "in_progress", "completed"}
      /\ \A p \in Orders : p # o => orders'[p] = orders[p]
      /\ \A p \in Orders : orders'[p].slot = orders[p].slot
                          /\ orders'[p].expiresAt = orders[p].expiresAt
  BY DEF TypeOK, OrderRecord, Complete, CompleteFilter, Confirm
<1>3. Alive(o) /\ Alive(o)' /\ \A p \in Orders : p # o => (Alive(p)' <=> Alive(p))
  BY <1>2 DEF Alive
<1>4. \A p \in Orders : Clean(p)' <=> Clean(p)
  BY <1>1, <1>2 DEF Clean
<1>5. \A p \in Orders : Phases(p)'
  BY <1>1, <1>2, <1>3, <1>4 DEF SeatInv, Phases
<1>6. \A p \in Orders : OneClaimant(p)'
  BY <1>1, <1>2, <1>4 DEF SeatInv, OneClaimant, Releasing, Sweeping
<1>7. Targets'
  BY <1>1, <1>2 DEF SeatInv, Targets
<1>8. Ledger'
  BY <1>1, <1>2, LedgerFrame, TakenFrame DEF SeatInv
<1> QED BY <1>5, <1>6, <1>7, <1>8 DEF SeatInv

\* Staff steps change counters, never who holds a seat.
LEMMA StaffFrame ==
    ASSUME TypeOK, SeatInv, UNCHANGED <<orders, booking, cancel, sweep, clock, seat>>,
           \A s \in Slots : drift'[s] \in {drift[s], drift[s] \cup {"staleEdit"}},
           \A s \in Slots : slots[s].status # "unborn" => slots'[s].status # "unborn"
    PROVE  (\A p \in Orders : Phases(p)' /\ OneClaimant(p)') /\ Targets'
<1>1. \A p \in Orders : Clean(p)' <=> Clean(p)
  <2> SUFFICES ASSUME NEW p \in Orders PROVE Clean(p)' <=> Clean(p)
    OBVIOUS
  <2>1. orders[p].slot \in Slots \cup {NoSlot}
    BY DEF TypeOK, OrderRecord
  <2>2. ASSUME NEW s \in Slots, NEW cause \in {"lostInsertAck", "reseed"}
        PROVE  cause \in drift'[s] <=> cause \in drift[s]
    OBVIOUS
  <2>3. orders' = orders
    OBVIOUS
  <2> QED BY <2>1, <2>2, <2>3 DEF Clean
<1>2. \A p \in Orders : Phases(p)'
  BY <1>1 DEF SeatInv, Phases, Alive
<1>3. \A p \in Orders : OneClaimant(p)'
  BY <1>1 DEF SeatInv, OneClaimant, Releasing, Sweeping
<1>4. Targets'
  BY DEF SeatInv, Targets
<1> QED BY <1>2, <1>3, <1>4

LEMMA StaffInv ==
    ASSUME TypeOK, SeatInv,
           \/ \E s \in Slots, n \in 1..MaxCapacity : CreateSlot(s, n)
           \/ \E s \in Slots : DeleteSlot(s)
           \/ \E e \in Editors, s \in Slots : OpenForm(e, s)
           \/ \E e \in Editors, n \in 1..MaxCapacity : SubmitForm(e, n)
    PROVE  SeatInv'
<1>1. ASSUME NEW s \in Slots, NEW n \in 1..MaxCapacity,
             CreateSlot(s, n)
      PROVE  SeatInv'
  <2>1. UNCHANGED <<orders, booking, cancel, sweep, clock, drift, seat>>
    BY <1>1 DEF CreateSlot, procs
  <2>2. \A r \in Slots : Taken(r)' = Taken(r)
    BY <2>1 DEF Taken
  <2>3. Taken(s) = {}
    BY <1>1 DEF SeatInv, Phases, Taken, CreateSlot
  <2>4. Ledger'
    <3> SUFFICES ASSUME NEW r \in Slots, Open(r)', drift[r] = {}
                 PROVE  slots'[r].remaining + Cardinality(Taken(r)') = granted'[r]
      BY <2>1 DEF Ledger
    <3>1. CASE r = s
      <4>1. slots'[r].remaining = n /\ granted'[r] = n /\ n \in Int
        BY <1>1, <3>1, NumbersAssumption DEF TypeOK, CreateSlot
      <4>2. Cardinality(Taken(r)') = 0
        BY <2>2, <2>3, <3>1, FS_EmptySet
      <4> QED BY <4>1, <4>2
    <3>2. CASE r # s
      <4>1. slots'[r] = slots[r] /\ granted'[r] = granted[r]
        BY <1>1, <3>2 DEF TypeOK, CreateSlot
      <4> QED BY <2>2, <4>1 DEF SeatInv, Ledger, Open
    <3> QED BY <3>1, <3>2
  <2>5. \A r \in Slots : slots[r].status # "unborn" => slots'[r].status # "unborn"
    BY <1>1 DEF TypeOK, CreateSlot
  <2> QED BY <2>1, <2>4, <2>5, StaffFrame DEF SeatInv
<1>2. ASSUME NEW s \in Slots, DeleteSlot(s)
      PROVE  SeatInv'
  <2>1. UNCHANGED <<orders, booking, cancel, sweep, clock, granted, drift, seat>>
    BY <1>2 DEF DeleteSlot, procs, history
  <2>2. slots'[s].status = "deleted" /\ \A r \in Slots : r # s => slots'[r] = slots[r]
    BY <1>2 DEF TypeOK, SlotRecord, DeleteSlot
  <2>3. Ledger'
    BY <2>1, <2>2 DEF SeatInv, Ledger, Open, Taken
  <2> QED BY <2>1, <2>2, <2>3, StaffFrame DEF SeatInv
<1>3. ASSUME NEW e \in Editors, NEW s \in Slots, OpenForm(e, s)
      PROVE  SeatInv'
  <2>1. UNCHANGED <<slots, orders, booking, cancel, sweep, clock, granted, drift, seat>>
    BY <1>3 DEF OpenForm, history
  <2> QED BY <2>1, StaffFrame, LedgerFrame, TakenFrame DEF SeatInv
<1>4. ASSUME NEW e \in Editors, NEW n \in 1..MaxCapacity,
             SubmitForm(e, n)
      PROVE  SeatInv'
  <2>1. PICK s : s = edit[e].slot
    OBVIOUS
  <2>2. UNCHANGED <<orders, booking, cancel, sweep, clock, seat>>
    BY <1>4 DEF SubmitForm
  <2>3. \A r \in Slots : Taken(r)' = Taken(r)
    BY <2>2 DEF Taken
  <2>4. CASE ~Open(s)
    <3>1. UNCHANGED <<slots, granted, drift>>
      BY <1>4, <2>1, <2>4 DEF SubmitForm
    <3> QED BY <2>2, <2>3, <3>1, StaffFrame, LedgerFrame DEF SeatInv
  <2>5. CASE Open(s)
    <3>1. /\ s \in Slots /\ n \in Int /\ slots'[s].remaining = n /\ slots'[s].status = "open"
          /\ \A r \in Slots : r # s => slots'[r] = slots[r]
      BY <1>4, <2>1, <2>5, NumbersAssumption DEF TypeOK, SlotRecord, SubmitForm, Open, Written
    <3>2. \A r \in Slots : drift'[r] \in {drift[r], drift[r] \cup {"staleEdit"}}
      BY <1>4, <2>1, <2>5 DEF TypeOK, SubmitForm
    <3>3. Ledger'
      <4> SUFFICES ASSUME NEW r \in Slots, Open(r)', drift'[r] = {}
                   PROVE  slots'[r].remaining + Cardinality(Taken(r)') = granted'[r]
        BY DEF Ledger
      <4>1. CASE r # s
        <5>1. granted'[r] = granted[r] /\ drift'[r] = drift[r]
          BY <1>4, <2>1, <2>5, <4>1 DEF TypeOK, SubmitForm
        <5> QED BY <2>3, <3>1, <4>1, <5>1 DEF SeatInv, Ledger, Open
      <4>2. CASE r = s
        <5>0. drift'[s] = IF slots[s].remaining = edit[e].seen THEN drift[s]
                          ELSE drift[s] \cup {"staleEdit"}
          BY <1>4, <2>1, <2>5, <3>1 DEF TypeOK, SubmitForm
        <5>1. slots[s].remaining = edit[e].seen /\ drift[s] = {}
          BY <4>2, <5>0
        <5>2. granted'[s] = granted[s] + (n - edit[e].seen)
          BY <1>4, <2>1, <2>5, <4>2 DEF TypeOK, SubmitForm
        <5>3. slots[s].remaining + Cardinality(Taken(s)) = granted[s]
          BY <2>5, <3>1, <5>1 DEF SeatInv, Ledger
        <5>4. slots[s].remaining \in Int /\ granted[s] \in Int
          BY <3>1 DEF TypeOK, SlotRecord
        <5>5. Cardinality(Taken(s)) \in Nat
          BY SetsAssumption, FS_Subset, FS_CardinalityType DEF Taken
        <5> QED BY <2>3, <3>1, <4>2, <5>1, <5>2, <5>3, <5>4, <5>5
      <4> QED BY <4>1, <4>2
    <3> QED BY <2>2, <3>1, <3>2, <3>3, StaffFrame DEF SeatInv
  <2> QED BY <2>4, <2>5
<1> QED BY <1>1, <1>2, <1>3, <1>4

\* A restart: no claim survives, what was in hand stays taken for ever, and the slots
\* that are seeded are no longer clean.
LEMMA RestartInv ==
    ASSUME TypeOK, SeatInv, Restart
    PROVE  SeatInv'
<1>1. /\ UNCHANGED <<clock, granted, seat>>
      /\ \A o \in Orders : booking'[o] = IF booking[o] = "idle" THEN "idle" ELSE "done"
      /\ \A c \in Cancels : cancel'[c].pc \in {"idle", "done"}
      /\ \A w \in Sweeps : sweep'[w].pc = "idle" /\ sweep'[w].now = 0
  BY DEF TypeOK, BookingSteps, CancelRecord, Restart, At, IdleSweep
<1>2. /\ \A s \in Slots \ SeededSlots : slots'[s] = slots[s] /\ drift'[s] = drift[s]
      /\ \A s \in SeededSlots : slots'[s].status = "open" /\ "reseed" \in drift'[s]
      /\ \A s \in Slots : drift[s] \subseteq drift'[s]
  BY SetsAssumption DEF TypeOK, Restart, SeededSlot
<1>3. /\ \A o \in Orders \ SeedOrders : orders'[o] = orders[o]
      /\ \A o \in SeedOrders : /\ orders'[o].state = "pending_confirmation"
                               /\ orders'[o].slot = SeedSlot[o]
                               /\ orders'[o].expiresAt = orders[o].expiresAt
  <2>1. \A o \in Orders \ SeedOrders : orders'[o] = orders[o]
    BY DEF Restart
  <2>2. ASSUME NEW o \in SeedOrders
        PROVE  /\ orders'[o].state = "pending_confirmation"
               /\ orders'[o].slot = SeedSlot[o]
               /\ orders'[o].expiresAt = orders[o].expiresAt
    <3>1. o \in Orders /\ orders[o] \in OrderRecord
      BY SetsAssumption DEF TypeOK
    <3>2. orders'[o] = [orders[o] EXCEPT !.state = "pending_confirmation", !.slot = SeedSlot[o]]
      BY <3>1 DEF Restart
    <3> QED BY <3>1, <3>2 DEF OrderRecord
  <2> QED BY <2>1, <2>2
<1>4. \A o \in SeedOrders : ~Clean(o)' /\ SeedSlot[o] \in SeededSlots /\ SeedSlot[o] \in Slots
  BY <1>2, <1>3, SetsAssumption DEF Clean
<1>5. \A o \in Orders : Clean(o)' => Clean(o)
  BY <1>2, <1>3, <1>4 DEF TypeOK, OrderRecord, Clean
<1>6. \A p \in Orders : Phases(p)'
  <2> SUFFICES ASSUME NEW p \in Orders PROVE Phases(p)'
    OBVIOUS
  <2>1. Phases(p)
    BY DEF SeatInv
  <2>2. CASE p \in SeedOrders
    <3>1. orders'[p].slot # NoSlot /\ slots'[orders'[p].slot].status # "unborn"
      BY <1>2, <1>3, <1>4, <2>2, SetsAssumption
    <3> QED BY <1>1, <1>3, <1>4, <2>1, <2>2, <3>1 DEF Phases
  <2>3. CASE p \notin SeedOrders
    <3>1. orders'[p].slot \in Slots => slots'[orders'[p].slot].status # "unborn"
      BY <1>2, <1>3, <2>1, <2>3 DEF Phases
    <3>2. booking[p] \in {"idle", "quoting", "seated", "dated", "refunding", "done"}
      BY DEF TypeOK, BookingSteps
    <3> QED BY <1>1, <1>3, <1>5, <2>1, <2>3, <3>1, <3>2 DEF Phases, Alive
  <2> QED BY <2>2, <2>3
<1>7. \A p \in Orders : OneClaimant(p)'
  <2>1. \A p \in Orders : Releasing(p)' = {} /\ Sweeping(p)' = {}
    BY <1>1 DEF Releasing, Sweeping
  <2> QED BY <2>1 DEF OneClaimant
<1>8. Targets'
  <2>1. 0 <= clock
    BY NumbersAssumption DEF TypeOK
  <2> QED BY <1>1, <2>1 DEF Targets
<1>9. Ledger'
  <2> SUFFICES ASSUME NEW s \in Slots, Open(s)', drift'[s] = {}
               PROVE  slots'[s].remaining + Cardinality(Taken(s)') = granted[s]
    BY <1>1 DEF Ledger
  <2>1. s \notin SeededSlots /\ slots'[s] = slots[s] /\ drift[s] = {}
    BY <1>2
  <2>2. Taken(s)' = Taken(s)
    <3>1. \A o \in SeedOrders : orders[o].slot = SeedSlot[o]
      BY SetsAssumption DEF SeatInv, Phases
    <3> QED BY <1>1, <1>3, <1>4, <2>1, <3>1 DEF Taken
  <2> QED BY <2>1, <2>2 DEF SeatInv, Ledger, Open
<1> QED BY <1>6, <1>7, <1>8, <1>9 DEF SeatInv
\* Initially nobody holds a seat but the seeded orders, which the fixtures count.
LEMMA InitInv == Init => SeatInv
<1> SUFFICES ASSUME Init PROVE SeatInv
  OBVIOUS
<1>1. \A o \in Orders : booking[o] = "idle"
  BY DEF Init
<1>2. \A c \in Cancels : cancel[c].pc = "idle"
  BY DEF Init
<1>3. \A w \in Sweeps : sweep[w].pc = "idle" /\ sweep[w].now = 0
  BY DEF Init, IdleSweep
<1>4. /\ \A o \in SeedOrders : /\ orders[o].state = "pending_confirmation"
                               /\ orders[o].slot = SeedSlot[o]
                               /\ orders[o].expiresAt = Never
      /\ \A o \in Orders \ SeedOrders : orders[o].state = "none" /\ orders[o].slot = NoSlot
  BY SetsAssumption DEF Init, SeededOrder, NoOrderYet
<1>5. /\ \A o \in SeedOrders : seat[o] = "taken"
      /\ \A o \in Orders \ SeedOrders : seat[o] = "none"
  BY SetsAssumption DEF Init
<1>6. \A s \in SeededSlots : slots[s].status = "open" /\ slots[s].remaining = SeedRemaining[s]
  BY SetsAssumption DEF Init, SeededSlot
<1>7. \A o \in Orders : Phases(o)
  <2> SUFFICES ASSUME NEW o \in Orders PROVE Phases(o)
    OBVIOUS
  <2>1. CASE o \in SeedOrders
    <3>1. SeedSlot[o] \in SeededSlots /\ SeedSlot[o] # NoSlot
      BY <2>1, SetsAssumption
    <3> QED BY <1>1, <1>4, <1>5, <1>6, <2>1, <3>1 DEF Phases
  <2>2. CASE o \notin SeedOrders
    BY <1>1, <1>4, <1>5, <2>2, SetsAssumption DEF Phases, Alive
  <2> QED BY <2>1, <2>2
<1>8. \A o \in Orders : OneClaimant(o)
  BY <1>2, <1>3 DEF OneClaimant, Releasing, Sweeping
<1>9. Targets
  BY <1>2, <1>3 DEF Init, Targets
<1>10. Ledger
  <2> SUFFICES ASSUME NEW s \in Slots, Open(s)
               PROVE  slots[s].remaining + Cardinality(Taken(s)) = granted[s]
    BY DEF Ledger
  <2>1. s \in SeededSlots
    BY DEF Init, Open
  <2>2. Taken(s) = {o \in SeedOrders : SeedSlot[o] = s}
    BY <1>4, <1>5, SetsAssumption DEF Taken
  <2>3. granted[s] = SeedRemaining[s] + Cardinality({o \in SeedOrders : SeedSlot[o] = s})
    BY <2>1 DEF Init
  <2> QED BY <1>6, <2>1, <2>2, <2>3
<1> QED BY <1>7, <1>8, <1>9, <1>10 DEF SeatInv

\* The start and the end of a run or of a minute move no seat.
LEMMA QuietInv ==
    ASSUME TypeOK, SeatInv,
           \/ \E c \in Cancels : CancelReleaseFails(c)
           \/ \E w \in Sweeps : SweepStart(w)
           \/ Tick
           \/ UNCHANGED vars
    PROVE  SeatInv'
<1>1. /\ UNCHANGED <<slots, orders, booking, granted, drift, seat>>
      /\ clock \in Int /\ clock' \in Int /\ clock <= clock'
  BY NumbersAssumption DEF TypeOK, CancelReleaseFails, SweepStart, Tick, vars, procs, history
<1>2. \A c \in Cancels : \/ cancel'[c] = cancel[c]
                         \/ cancel'[c].pc = "done"
  BY DEF TypeOK, CancelRecord, CancelReleaseFails, CancelMoves, SweepStart, Tick, vars, procs
<1>3. \A w \in Sweeps : \/ sweep'[w] = sweep[w]
                        \/ sweep'[w].pc = "finding" /\ sweep'[w].now = clock
  BY DEF TypeOK, SweepRecord, CancelReleaseFails, SweepStart, Tick, vars, procs
<1>4. \A p \in Orders : /\ Clean(p)' <=> Clean(p)
                        /\ Releasing(p)' \subseteq Releasing(p)
                        /\ Sweeping(p)' \subseteq Sweeping(p)
  BY <1>1, <1>2, <1>3 DEF Clean, Releasing, Sweeping
<1>5. \A p \in Orders : Phases(p)'
  BY <1>1, <1>4 DEF SeatInv, Phases, Alive
<1>6. \A p \in Orders : OneClaimant(p)'
  BY <1>1, <1>4 DEF SeatInv, OneClaimant
<1>7. Targets'
  <2>1. \A w \in Sweeps : sweep[w].now \in Int
    BY DEF TypeOK, SweepRecord
  <2> QED BY <1>1, <1>2, <1>3, <2>1 DEF SeatInv, Targets
<1>8. Ledger'
  BY <1>1, LedgerFrame, TakenFrame DEF SeatInv
<1> QED BY <1>5, <1>6, <1>7, <1>8 DEF SeatInv

\* SeatInv is inductive: one case for each action of Next.
LEMMA NextInv == TypeOK /\ SeatInv /\ [Next]_vars => SeatInv'
<1> SUFFICES ASSUME TypeOK, SeatInv, [Next]_vars PROVE SeatInv'
  OBVIOUS
<1>1. ASSUME NEW o \in Orders, BookStep(o) \/ BookFault(o)
      PROVE  SeatInv'
  BY <1>1, RejectInv, TakeInv, HoldInv, InsertInv, RefundInv DEF BookStep, BookFault
<1>2. ASSUME NEW c \in Cancels, CancelStep(c)
      PROVE  SeatInv'
  BY <1>2, CancelClaimInv, CancelReleaseInv DEF CancelStep
<1>3. ASSUME NEW w \in Sweeps, SweepStep(w) \/ SweepFails(w)
      PROVE  SeatInv'
  BY <1>3, SweepFindInv, SweepClaimInv, SweepReleaseInv DEF SweepStep
<1> QED
  BY <1>1, <1>2, <1>3, ReadInv, CancelReadInv, MoveInv, StaffInv, RestartInv, QuietInv DEF Next

\* The invariant holds in every reachable state of every instance.
THEOREM SeatSafety == Spec => [](TypeOK /\ SeatInv)
<1>1. Init => TypeOK /\ SeatInv
  BY InitType, InitInv
<1>2. TypeOK /\ SeatInv /\ [Next]_vars => (TypeOK /\ SeatInv)'
  BY NextType, NextInv
<1> QED BY <1>1, <1>2, PTL DEF Spec

-----------------------------------------------------------------------------
(* What the invariant is for. *)

\* Whoever occupies a seat of a slot whose counter was never overwritten, or holds one
\* in hand, holds one that was taken from that slot and not given back.
LEMMA HoldersTook ==
    ASSUME TypeOK, SeatInv, NEW s \in Slots, drift[s] = {}
    PROVE  Occupants(s) \cup InHand(s) \subseteq Taken(s)
<1>1. \A o \in Orders : orders[o].slot = s => Clean(o)
  BY SetsAssumption DEF Clean
<1>2. Occupants(s) \subseteq Taken(s)
  BY <1>1 DEF SeatInv, Phases, Occupants, Taken
<1>3. ASSUME NEW o \in InHand(s)
      PROVE  o \in Taken(s)
  <2>1. o \in Orders /\ orders[o].slot = s /\ Clean(o)
    BY <1>1 DEF InHand
  <2>2. CASE booking[o] \in {"seated", "dated", "refunding"}
    BY <2>1, <2>2 DEF SeatInv, Phases, Taken
  <2>3. CASE Releasing(o) \cup Sweeping(o) # {}
    BY <2>1, <2>3 DEF SeatInv, OneClaimant, Taken
  <2> QED BY <2>2, <2>3 DEF InHand, Releasing, Sweeping
<1> QED BY <1>2, <1>3

LEMMA BooksBalance == TypeOK /\ SeatInv => NoOversell
<1>0. TypeOK => \A s \in Slots : slots[s].remaining >= 0
  BY DEF TypeOK, SlotRecord
<1> SUFFICES ASSUME TypeOK, SeatInv, NEW s \in Slots, Open(s), drift[s] = {}
             PROVE  slots[s].remaining + Cardinality(Occupants(s)) + Cardinality(InHand(s))
                      <= granted[s]
  BY <1>0 DEF NoOversell
<1>1. IsFiniteSet(Occupants(s)) /\ IsFiniteSet(InHand(s)) /\ IsFiniteSet(Taken(s))
  BY SetsAssumption, FS_Subset DEF Occupants, InHand, Taken
<1>2. Occupants(s) \cap InHand(s) = {}
  BY DEF Occupants, InHand
<1>3. Cardinality(Occupants(s) \cup InHand(s)) = Cardinality(Occupants(s)) + Cardinality(InHand(s))
  <2>1. Cardinality(Occupants(s) \cup InHand(s))
          = Cardinality(Occupants(s)) + Cardinality(InHand(s))
              - Cardinality(Occupants(s) \cap InHand(s))
    BY <1>1, FS_Union
  <2>2. Cardinality(Occupants(s) \cap InHand(s)) = 0
    BY <1>2, FS_EmptySet
  <2>3. Cardinality(Occupants(s)) \in Nat /\ Cardinality(InHand(s)) \in Nat
    BY <1>1, FS_CardinalityType
  <2> QED BY <2>1, <2>2, <2>3
<1>4. Cardinality(Occupants(s) \cup InHand(s)) <= Cardinality(Taken(s))
  BY <1>1, HoldersTook, FS_Subset
<1>5. slots[s].remaining + Cardinality(Taken(s)) = granted[s]
  BY DEF SeatInv, Ledger
<1>6. /\ slots[s].remaining \in Int
      /\ Cardinality(Taken(s)) \in Nat
      /\ Cardinality(Occupants(s)) \in Nat /\ Cardinality(InHand(s)) \in Nat
  BY <1>1, FS_CardinalityType DEF TypeOK, SlotRecord
<1> QED BY <1>3, <1>4, <1>5, <1>6

\* No interleaving of bookings, cancellations, overlapping worker runs, staff edits,
\* failed calls and restarts sells more seats of a slot than staff gave it.
THEOREM SlotsNeverOversold == Spec => []NoOversell
  BY SeatSafety, BooksBalance, PTL

\* Nor is the seat of one order ever given back twice.
THEOREM SeatsReturnedOnce == Spec => []SeatReturnedOnce
<1>1. TypeOK /\ SeatInv => SeatReturnedOnce
  BY DEF SeatInv, Phases, Clean, SeatReturnedOnce
<1> QED BY <1>1, SeatSafety, PTL

-----------------------------------------------------------------------------
(* Nor is a seat lost while nothing fails, and a fault costs no more than its own seat. *)

\* Somebody is there to use o's seat or to give it back.
Held(o) ==
    \/ Alive(o)
    \/ booking[o] \in {"seated", "dated", "refunding"}
    \/ Releasing(o) \cup Sweeping(o) # {}
\* Nobody is.
Stranded(o) == seat[o] = "taken" /\ ~Held(o)

\* The step strands no seat that was not stranded; it fails, and strands one at most;
\* the process died, and what it strands was in the hands of a process.
StrandsNone == \A p \in Orders : Stranded(p)' => Stranded(p)
StrandsOneAtMost ==
    /\ faults' = faults + 1
    /\ \E o : \A p \in Orders : Stranded(p)' => Stranded(p) \/ p = o
StrandsInHand == \A p \in Orders : Stranded(p)' => Stranded(p) \/ p \in InHand(orders[p].slot)

LEMMA HeldFrame ==
    ASSUME NEW o \in Orders, orders'[o].state = orders[o].state,
           booking'[o] = booking[o], seat'[o] = seat[o],
           Releasing(o)' = Releasing(o), Sweeping(o)' = Sweeping(o)
    PROVE  Stranded(o)' <=> Stranded(o)
  BY DEF Stranded, Held, Alive

\* createOrder: the request holds the seat until the order or the catch block has it.
LEMMA BookingStrandsNone ==
    ASSUME TypeOK, SeatInv, NEW o \in Orders, BookStep(o)
    PROVE  StrandsNone
<1>1. UNCHANGED <<cancel, sweep>>
  BY DEF BookStep, BookReject, BookDecrement, BookUnavailable, BookSettings, BookInsert,
         BookRefund, TakeSeat
<1>2. \A p \in Orders : Releasing(p)' = Releasing(p) /\ Sweeping(p)' = Sweeping(p)
  BY <1>1 DEF Releasing, Sweeping
<1>3. \A p \in Orders : p # o => /\ orders'[p] = orders[p] /\ booking'[p] = booking[p]
                                 /\ seat'[p] = seat[p]
  BY DEF TypeOK, BookStep, BookReject, BookDecrement, BookUnavailable, BookSettings, BookInsert,
         BookRefund, TakeSeat, Book, Stored, ReturnSeat, history
<1>4. ASSUME seat'[o] = "taken"
      PROVE  Held(o)'
  <2>1. CASE BookReject(o) \/ BookUnavailable(o)
    <3>1. booking[o] = "quoting" /\ seat' = seat
      BY <2>1 DEF BookReject, BookUnavailable, At, history
    <3> QED BY <1>4, <3>1 DEF SeatInv, Phases
  <2>2. CASE BookDecrement(o) \/ BookSettings(o)
    <3>1. booking'[o] \in {"seated", "dated"}
      BY <2>2 DEF TypeOK, BookDecrement, BookSettings, Book
    <3> QED BY <3>1 DEF Held
  <2>3. CASE BookInsert(o)
    <3>1. orders'[o].state = "pending_confirmation"
      BY <2>3 DEF TypeOK, OrderRecord, BookInsert, Stored
    <3> QED BY <3>1 DEF Held, Alive
  <2>4. CASE BookRefund(o)
    BY <1>4, <2>4 DEF TypeOK, BookRefund, ReturnSeat
  <2> QED BY <2>1, <2>2, <2>3, <2>4 DEF BookStep
<1>5. ASSUME NEW p \in Orders, p # o
      PROVE  Stranded(p)' => Stranded(p)
  BY <1>2, <1>3, <1>5, HeldFrame
<1> QED BY <1>4, <1>5 DEF StrandsNone, Stranded

\* A failing call of createOrder: the seat of that order may have nobody any more.
LEMMA BookingFaultStrandsOne ==
    ASSUME TypeOK, NEW o \in Orders, BookFault(o)
    PROVE  StrandsOneAtMost
<1>1. UNCHANGED <<cancel, sweep>> /\ faults' = faults + 1
  BY DEF BookFault, BookDecrementLost, BookSettingsFails, BookInsertFails, BookRefundFails,
         TakeSeat, Fault
<1>2. \A p \in Orders : Releasing(p)' = Releasing(p) /\ Sweeping(p)' = Sweeping(p)
  BY <1>1 DEF Releasing, Sweeping
<1>3. \A p \in Orders : p # o => /\ orders'[p] = orders[p] /\ booking'[p] = booking[p]
                                 /\ seat'[p] = seat[p]
  BY DEF TypeOK, BookFault, BookDecrementLost, BookSettingsFails, BookInsertFails,
         BookRefundFails, TakeSeat, Book, Stored, history
<1>4. ASSUME NEW p \in Orders, p # o
      PROVE  Stranded(p)' => Stranded(p)
  BY <1>2, <1>3, <1>4, HeldFrame
<1> QED BY <1>1, <1>4 DEF StrandsOneAtMost

\* cancelOrderById: who claims an order holds its seat until it gives it back; if the
\* answer to the claim is lost, or the return fails, that seat has nobody any more.
LEMMA CancelStrands ==
    ASSUME TypeOK, SeatInv, NEW c \in Cancels, CancelStep(c) \/ CancelReleaseFails(c)
    PROVE  StrandsNone \/ StrandsOneAtMost
<1>1. PICK o \in Orders : o = cancel[c].order
  BY DEF SeatInv, Targets, CancelStep, CancelClaim, CancelRelease, CancelReleaseFails
<1>2. UNCHANGED <<booking, sweep>>
  BY DEF CancelStep, CancelClaim, CancelRelease, CancelReleaseFails
<1>3. /\ cancel'[c].order = o
      /\ \A d \in Cancels : d # c => cancel'[d] = cancel[d]
  BY <1>1 DEF TypeOK, CancelRecord, CancelStep, CancelClaim, CancelRelease, CancelReleaseFails,
     CancelMoves
<1>4. \A p \in Orders : Sweeping(p)' = Sweeping(p) /\ (p # o => Releasing(p)' = Releasing(p))
  BY <1>1, <1>2, <1>3 DEF Releasing, Sweeping
<1>5. \A p \in Orders : p # o => orders'[p] = orders[p] /\ seat'[p] = seat[p]
  BY <1>1 DEF TypeOK, CancelStep, CancelClaim, CancelRelease, CancelReleaseFails, Cancelled,
     ReturnSeat, history
<1>6. ASSUME NEW p \in Orders, p # o
      PROVE  Stranded(p)' => Stranded(p)
  BY <1>2, <1>4, <1>5, <1>6, HeldFrame
<1>7. CASE faults' = faults + 1
  BY <1>6, <1>7 DEF StrandsOneAtMost
<1>8. CASE CancelRelease(c)
  <2>1. seat'[o] # "taken"
    BY <1>1, <1>8 DEF TypeOK, CancelRelease, ReturnSeat
  <2> QED BY <1>6, <2>1 DEF StrandsNone, Stranded
<1>9. CASE CancelClaim(c) /\ ~CancelFilter(o)
  <2>1. orders' = orders /\ seat' = seat /\ cancel[c].pc = "claiming" /\ cancel'[c].pc = "done"
    BY <1>1, <1>9 DEF TypeOK, CancelRecord, CancelClaim, CancelMoves, history
  <2>2. Releasing(o)' = Releasing(o)
    BY <1>3, <2>1 DEF Releasing
  <2>3. Stranded(o)' => Stranded(o)
    BY <1>2, <1>4, <2>1, <2>2, HeldFrame
  <2> QED BY <1>6, <2>3 DEF StrandsNone
<1>10. CASE CancelClaim(c) /\ CancelMoves(c, "releasing")
  <2>1. cancel'[c].pc = "releasing"
    BY <1>10 DEF TypeOK, CancelRecord, CancelMoves
  <2>2. Held(o)'
    BY <1>3, <2>1 DEF Held, Releasing
  <2> QED BY <1>6, <2>2 DEF StrandsNone, Stranded
<1> QED
  BY <1>1, <1>7, <1>8, <1>9, <1>10 DEF CancelStep, CancelClaim, CancelReleaseFails, Fault

\* releaseExpiredPendingOrders: likewise, and a run that fails drops the one seat it holds.
LEMMA SweepStrands ==
    ASSUME TypeOK, SeatInv, NEW w \in Sweeps, SweepClaim(w) \/ SweepRelease(w)
    PROVE  StrandsNone
<1>1. PICK o \in Orders : o = sweep[w].order
  BY DEF SeatInv, Targets, SweepClaim, SweepRelease
<1>2. UNCHANGED <<booking, cancel>>
  BY DEF SweepClaim, SweepRelease
<1>3. /\ sweep'[w].order = o
      /\ \A v \in Sweeps : v # w => sweep'[v] = sweep[v]
  BY <1>1 DEF TypeOK, SweepRecord, SweepClaim, SweepRelease, SweepMoves
<1>4. \A p \in Orders : Releasing(p)' = Releasing(p) /\ (p # o => Sweeping(p)' = Sweeping(p))
  BY <1>1, <1>2, <1>3 DEF Releasing, Sweeping
<1>5. \A p \in Orders : p # o => orders'[p] = orders[p] /\ seat'[p] = seat[p]
  BY <1>1 DEF TypeOK, SweepClaim, SweepRelease, Cancelled, ReturnSeat, history
<1>6. ASSUME NEW p \in Orders, p # o
      PROVE  Stranded(p)' => Stranded(p)
  BY <1>2, <1>4, <1>5, <1>6, HeldFrame
<1>7. CASE SweepRelease(w)
  <2>1. seat'[o] # "taken"
    BY <1>1, <1>7 DEF TypeOK, SweepRelease, ReturnSeat
  <2> QED BY <1>6, <2>1 DEF StrandsNone, Stranded
<1>8. CASE SweepClaim(w) /\ ~ClaimFilter(o)
  <2>1. orders' = orders /\ seat' = seat /\ sweep[w].pc = "claiming" /\ sweep'[w].pc = "finding"
    BY <1>1, <1>8 DEF TypeOK, SweepRecord, SweepClaim, SweepMoves, history
  <2>2. Sweeping(o)' = Sweeping(o)
    BY <1>3, <2>1 DEF Sweeping
  <2>3. Stranded(o)' => Stranded(o)
    BY <1>2, <1>4, <2>1, <2>2, HeldFrame
  <2> QED BY <1>6, <2>3 DEF StrandsNone
<1>9. CASE SweepClaim(w) /\ ClaimFilter(o)
  <2>1. sweep'[w].pc = "releasing"
    BY <1>1, <1>9 DEF TypeOK, SweepRecord, SweepClaim, SweepMoves
  <2>2. Held(o)'
    BY <1>3, <2>1 DEF Held, Sweeping
  <2> QED BY <1>6, <2>2 DEF StrandsNone, Stranded
<1> QED BY <1>7, <1>8, <1>9

LEMMA SweepFailStrandsOne ==
    ASSUME TypeOK, NEW w \in Sweeps, SweepFails(w)
    PROVE  StrandsOneAtMost
<1> DEFINE o == sweep[w].order
<1>1. UNCHANGED <<booking, cancel, seat>> /\ faults' = faults + 1
  BY DEF SweepFails, Fault, history
<1>2. \A p \in Orders : p # o => orders'[p] = orders[p]
  BY DEF TypeOK, SweepFails, Cancelled
<1>3. \A v \in Sweeps : v # w => sweep'[v] = sweep[v]
  BY DEF TypeOK, SweepFails
<1>4. sweep'[w].pc = "idle"
  BY DEF TypeOK, SweepFails, IdleSweep
<1>5. \A p \in Orders : p # o => Releasing(p)' = Releasing(p) /\ Sweeping(p)' = Sweeping(p)
  BY <1>1, <1>3, <1>4 DEF Releasing, Sweeping
<1> HIDE DEF o
<1>6. ASSUME NEW p \in Orders, p # o
      PROVE  Stranded(p)' => Stranded(p)
  BY <1>1, <1>2, <1>5, <1>6, HeldFrame
<1> QED BY <1>1, <1>6 DEF StrandsOneAtMost

\* A restart: the seeded orders are alive again, of the others only what a process held.
LEMMA RestartStrandsInHand ==
    ASSUME TypeOK, Restart
    PROVE  StrandsInHand
<1> SUFFICES ASSUME NEW p \in Orders, Stranded(p)', Held(p)
             PROVE  p \in InHand(orders[p].slot)
  BY DEF StrandsInHand, Stranded, Restart
<1>1. ~Alive(p)'
  BY DEF Stranded, Held
<1>2. p \notin SeedOrders
  <2>1. ASSUME p \in SeedOrders PROVE Alive(p)'
    BY <2>1 DEF TypeOK, OrderRecord, Restart, Alive
  <2> QED BY <1>1, <2>1
<1>3. ~Alive(p)
  BY <1>1, <1>2 DEF Restart, Alive
<1> QED BY <1>3 DEF Held, Releasing, Sweeping, InHand

\* The steps that begin something, and those of the staff.
LEMMA OthersStrandNone ==
    ASSUME TypeOK, SeatInv, UNCHANGED seat,
           \A p \in Orders : orders'[p].state = orders[p].state \/ Alive(p)',
           \A p \in Orders : \/ booking'[p] = booking[p]
                             \/ booking[p] = "idle" /\ p \notin SeedOrders,
           UNCHANGED sweep \/ \A p \in Orders : Sweeping(p)' = Sweeping(p),
           UNCHANGED cancel \/ \A p \in Orders : Releasing(p)' = Releasing(p)
    PROVE  StrandsNone
<1> SUFFICES ASSUME NEW p \in Orders, seat[p] = "taken", Held(p) PROVE Held(p)'
  BY DEF StrandsNone, Stranded
<1>1. Releasing(p)' = Releasing(p) /\ Sweeping(p)' = Sweeping(p)
  BY DEF Releasing, Sweeping
<1>2. booking'[p] = booking[p]
  BY DEF SeatInv, Phases
<1> QED BY <1>1, <1>2 DEF Held, Alive

\* Every step strands no seat but by a fault, and then only its own.
LEMMA StepStrands ==
    ASSUME TypeOK, SeatInv, [Next]_vars
    PROVE  IF Restart THEN StrandsInHand ELSE StrandsNone \/ StrandsOneAtMost
<1>1. ASSUME NEW o \in Orders, NEW s \in Slots,
             BookRead(o, s)
      PROVE  StrandsNone
  <2>1. o \notin SeedOrders /\ booking[o] = "idle"
    BY <1>1 DEF SeatInv, Phases, BookRead, At
  <2>2. UNCHANGED <<cancel, sweep, seat>>
    BY <1>1 DEF BookRead, history
  <2>3. \A p \in Orders : orders'[p].state = orders[p].state
    <3> DEFINE r == [orders[o] EXCEPT !.slot = s]
    <3>1. r.state = orders[o].state
      BY DEF TypeOK, OrderRecord
    <3>2. orders' = orders \/ orders' = [orders EXCEPT ![o] = r]
      BY <1>1 DEF TypeOK, OrderRecord, BookRead
    <3> HIDE DEF r
    <3> QED BY <3>1, <3>2 DEF TypeOK
  <2>4. \A p \in Orders : p # o => booking'[p] = booking[p]
    BY <1>1 DEF TypeOK, BookRead, Book
  <2> QED BY <2>1, <2>2, <2>3, <2>4, OthersStrandNone
<1>2. ASSUME NEW c \in Cancels, NEW o \in Orders, CancelRead(c, o)
      PROVE  StrandsNone
  <2>1. UNCHANGED <<orders, booking, sweep, seat>>
    BY <1>2 DEF CancelRead, history
  <2>2. /\ cancel[c].pc = "idle" /\ cancel'[c].pc # "releasing"
        /\ \A d \in Cancels : d # c => cancel'[d] = cancel[d]
    BY <1>2 DEF TypeOK, CancelRecord, CancelRead
  <2>3. \A p \in Orders : Releasing(p)' = Releasing(p)
    BY <2>2 DEF Releasing
  <2>4. \A p \in Orders : orders'[p].state = orders[p].state /\ booking'[p] = booking[p]
    BY <2>1
  <2> QED BY <2>1, <2>3, <2>4, OthersStrandNone
<1>3. ASSUME NEW o \in Orders, Complete(o) \/ Confirm(o)
      PROVE  StrandsNone
  <2>1. UNCHANGED <<booking, cancel, sweep, seat>>
    BY <1>3 DEF Complete, Confirm, procs, history
  <2>2. \A p \in Orders : orders'[p].state = orders[p].state \/ Alive(p)'
    BY <1>3 DEF TypeOK, OrderRecord, Complete, Confirm, Alive
  <2>3. \A p \in Orders : booking'[p] = booking[p]
    BY <2>1
  <2> QED BY <2>1, <2>2, <2>3, OthersStrandNone
<1>4. ASSUME NEW w \in Sweeps, SweepStart(w) \/ SweepFind(w)
      PROVE  StrandsNone
  <2>1. UNCHANGED <<orders, booking, cancel, seat>>
    BY <1>4 DEF SweepStart, SweepFind, history
  <2>2. /\ sweep[w].pc \in {"idle", "finding"} /\ sweep'[w].pc # "releasing"
        /\ \A v \in Sweeps : v # w => sweep'[v] = sweep[v]
    BY <1>4 DEF TypeOK, SweepStart, SweepFind, IdleSweep
  <2>3. \A p \in Orders : Sweeping(p)' = Sweeping(p)
    BY <2>2 DEF Sweeping
  <2>4. \A p \in Orders : orders'[p].state = orders[p].state /\ booking'[p] = booking[p]
    BY <2>1
  <2> QED BY <2>1, <2>3, <2>4, OthersStrandNone
<1>5. ASSUME UNCHANGED <<orders, booking, cancel, sweep, seat>>
      PROVE  StrandsNone
  <2>1. \A p \in Orders : orders'[p].state = orders[p].state /\ booking'[p] = booking[p]
    BY <1>5
  <2> QED BY <1>5, <2>1, OthersStrandNone
<1>6. ASSUME \/ \E s \in Slots, n \in 1..MaxCapacity : CreateSlot(s, n)
             \/ \E s \in Slots : DeleteSlot(s)
             \/ \E e \in Editors, s \in Slots : OpenForm(e, s)
             \/ \E e \in Editors, n \in 1..MaxCapacity : SubmitForm(e, n)
             \/ Tick \/ UNCHANGED vars
      PROVE  StrandsNone
  <2>1. UNCHANGED <<orders, booking, cancel, sweep, seat>>
    BY <1>6 DEF CreateSlot, DeleteSlot, OpenForm, SubmitForm, Tick, vars, procs, history
  <2> QED BY <1>5, <2>1
<1> QED
  BY <1>1, <1>2, <1>3, <1>4, <1>6, BookingStrandsNone, BookingFaultStrandsOne, CancelStrands,
     SweepStrands, SweepFailStrandsOne, RestartStrandsInHand
  DEF Next, SweepStep

\* Faults are counted one by one, what blurs a slot's books stays recorded, and a
\* seated order stays in its slot.
LEMMA FaultsCounted ==
    ASSUME [Next]_vars
    PROVE  faults' = faults \/ faults' = faults + 1
<1>1. ASSUME NEW o \in Orders, BookStep(o) \/ BookFault(o)
      PROVE  faults' = faults \/ faults' = faults + 1
  BY <1>1 DEF BookStep, BookReject, BookDecrement, BookUnavailable, BookSettings, BookInsert,
     BookRefund, BookFault, BookDecrementLost, BookSettingsFails, BookInsertFails,
     BookRefundFails, Fault
<1>2. ASSUME NEW c \in Cancels, CancelStep(c) \/ CancelReleaseFails(c)
      PROVE  faults' = faults \/ faults' = faults + 1
  BY <1>2 DEF CancelStep, CancelClaim, CancelRelease, CancelReleaseFails, Fault
<1>3. ASSUME NEW w \in Sweeps, SweepStep(w) \/ SweepFails(w) \/ SweepStart(w)
      PROVE  faults' = faults \/ faults' = faults + 1
  BY <1>3 DEF SweepStep, SweepFind, SweepClaim, SweepRelease, SweepFails, SweepStart, Fault
<1>4. CASE Restart
  BY <1>4 DEF Restart, Fault
<1>5. ASSUME NEW o \in Orders, \/ \E s \in Slots : BookRead(o, s)
                               \/ \E c \in Cancels : CancelRead(c, o)
                               \/ Complete(o) \/ Confirm(o)
      PROVE  faults' = faults
  BY <1>5 DEF BookRead, CancelRead, Complete, Confirm
<1>6. ASSUME NEW s \in Slots, \/ \E n \in 1..MaxCapacity : CreateSlot(s, n)
                              \/ DeleteSlot(s)
                              \/ \E e \in Editors : OpenForm(e, s)
      PROVE  faults' = faults
  BY <1>6 DEF CreateSlot, DeleteSlot, OpenForm
<1>7. ASSUME \/ \E e \in Editors, n \in 1..MaxCapacity : SubmitForm(e, n)
             \/ Tick \/ UNCHANGED vars
      PROVE  faults' = faults
  BY <1>7 DEF SubmitForm, Tick, vars
<1> QED BY <1>1, <1>2, <1>3, <1>4, <1>5, <1>6, <1>7 DEF Next

LEMMA DriftGrows ==
    ASSUME TypeOK, [Next]_vars
    PROVE  \A s \in Slots : drift[s] \subseteq drift'[s]
<1>1. ASSUME NEW o \in Orders, BookStep(o) \/ BookFault(o)
      PROVE  \A s \in Slots : drift[s] \subseteq drift'[s]
  <2>1. CASE UNCHANGED drift
    BY <2>1
  <2>2. CASE drift' = [drift EXCEPT ![orders[o].slot] = @ \cup {"lostInsertAck"}]
    BY <2>2 DEF TypeOK
  <2> QED
    BY <1>1, <2>1, <2>2 DEF BookStep, BookReject, BookDecrement, BookUnavailable, BookSettings,
       BookInsert, BookRefund, BookFault, BookDecrementLost, BookSettingsFails,
       BookInsertFails, BookRefundFails, TakeSeat, history
<1>2. CASE Restart
  BY <1>2 DEF TypeOK, Restart
<1>3. ASSUME NEW e \in Editors, NEW n \in 1..MaxCapacity, SubmitForm(e, n)
      PROVE  \A s \in Slots : drift[s] \subseteq drift'[s]
  <2>1. CASE UNCHANGED drift
    BY <2>1
  <2>2. CASE drift' = [drift EXCEPT ![edit[e].slot] = @ \cup {"staleEdit"}]
    BY <2>2 DEF TypeOK
  <2>3. CASE drift' = [drift EXCEPT ![edit[e].slot] = @]
    BY <2>3 DEF TypeOK
  <2> QED BY <1>3, <2>1, <2>2, <2>3 DEF SubmitForm
<1>4. ASSUME NEW c \in Cancels, CancelStep(c) \/ CancelReleaseFails(c)
      PROVE  UNCHANGED drift
  BY <1>4 DEF CancelStep, CancelClaim, CancelRelease, CancelReleaseFails, history
<1>5. ASSUME NEW w \in Sweeps, SweepStep(w) \/ SweepFails(w) \/ SweepStart(w)
      PROVE  UNCHANGED drift
  BY <1>5 DEF SweepStep, SweepFind, SweepClaim, SweepRelease, SweepFails, SweepStart, history
<1>6. ASSUME NEW o \in Orders, \/ \E s \in Slots : BookRead(o, s)
                               \/ \E c \in Cancels : CancelRead(c, o)
                               \/ Complete(o) \/ Confirm(o)
      PROVE  UNCHANGED drift
  BY <1>6 DEF BookRead, CancelRead, Complete, Confirm, history
<1>7. ASSUME NEW s \in Slots, \/ \E n \in 1..MaxCapacity : CreateSlot(s, n)
                              \/ DeleteSlot(s)
                              \/ \E e \in Editors : OpenForm(e, s)
      PROVE  UNCHANGED drift
  BY <1>7 DEF CreateSlot, DeleteSlot, OpenForm, history
<1>8. ASSUME Tick \/ UNCHANGED vars
      PROVE  UNCHANGED drift
  BY <1>8 DEF Tick, vars, history
<1> QED BY <1>1, <1>2, <1>3, <1>4, <1>5, <1>6, <1>7, <1>8 DEF Next

Stays == \A p \in Orders : seat[p] # "none" \/ Restart => orders'[p].slot = orders[p].slot
LEMMA SeatedStay ==
    ASSUME TypeOK, SeatInv, [Next]_vars
    PROVE  Stays
<1>0. ASSUME UNCHANGED orders PROVE Stays
  BY <1>0 DEF Stays
<1>1. ASSUME NEW o \in Orders, BookStep(o) \/ BookFault(o)
      PROVE  Stays
  <2>1. CASE UNCHANGED orders
    BY <1>0, <2>1
  <2>2. CASE orders' = Stored(o) \/ orders' = [orders EXCEPT ![o].expiresAt = clock + Timeout]
    BY <2>2 DEF TypeOK, OrderRecord, Stored, Stays
  <2> QED
    BY <1>1, <2>1, <2>2 DEF BookStep, BookReject, BookDecrement, BookUnavailable, BookSettings,
       BookInsert, BookRefund, BookFault, BookDecrementLost, BookSettingsFails,
       BookInsertFails, BookRefundFails, TakeSeat
<1>2. CASE Restart
  <2>1. \A o \in Orders \ SeedOrders : orders'[o].slot = orders[o].slot
    BY <1>2 DEF Restart
  <2>2. \A o \in SeedOrders : orders'[o].slot = SeedSlot[o]
    BY <1>2, SetsAssumption DEF TypeOK, OrderRecord, Restart
  <2> QED BY <2>1, <2>2, SetsAssumption DEF SeatInv, Phases, Stays
<1>3. ASSUME NEW o \in Orders, NEW s \in Slots, BookRead(o, s)
      PROVE  Stays
  <2>1. seat[o] = "none" /\ UNCHANGED seat
    BY <1>3 DEF SeatInv, Phases, BookRead, At, history
  <2>2. ~Restart
    <3>1. faults \in Int /\ faults' = faults
      BY <1>3 DEF TypeOK, BookRead
    <3>2. Restart => faults' = faults + 1
      BY DEF Restart, Fault
    <3> QED BY <3>1, <3>2
  <2>3. \A p \in Orders : p # o => orders'[p] = orders[p]
    BY <1>3 DEF TypeOK, BookRead
  <2> QED BY <2>1, <2>2, <2>3 DEF Stays
<1>4. ASSUME NEW c \in Cancels, CancelStep(c) \/ CancelReleaseFails(c)
      PROVE  Stays
  <2>1. CASE UNCHANGED orders
    BY <1>0, <2>1
  <2>2. CASE orders' = Cancelled(cancel[c].order, "customer_cancelled")
    BY <2>2 DEF TypeOK, OrderRecord, Cancelled, Stays
  <2> QED BY <1>4, <2>1, <2>2 DEF CancelStep, CancelClaim, CancelRelease, CancelReleaseFails
<1>5. ASSUME NEW w \in Sweeps, SweepStep(w) \/ SweepFails(w) \/ SweepStart(w)
      PROVE  Stays
  <2>1. CASE UNCHANGED orders
    BY <1>0, <2>1
  <2>2. CASE orders' = Cancelled(sweep[w].order, "pending_timeout")
    BY <2>2 DEF TypeOK, OrderRecord, Cancelled, Stays
  <2> QED
    BY <1>5, <2>1, <2>2 DEF SweepStep, SweepFind, SweepClaim, SweepRelease, SweepFails, SweepStart
<1>6. ASSUME NEW o \in Orders, Complete(o) \/ Confirm(o)
      PROVE  Stays
  BY <1>6 DEF TypeOK, OrderRecord, Complete, Confirm, Stays
<1>7. ASSUME \/ \E c \in Cancels, o \in Orders : CancelRead(c, o)
             \/ \E s \in Slots, n \in 1..MaxCapacity : CreateSlot(s, n)
             \/ \E s \in Slots : DeleteSlot(s)
             \/ \E e \in Editors, s \in Slots : OpenForm(e, s)
             \/ \E e \in Editors, n \in 1..MaxCapacity : SubmitForm(e, n)
             \/ Tick \/ UNCHANGED vars
      PROVE  Stays
  <2>1. UNCHANGED orders
    BY <1>7 DEF CancelRead, CreateSlot, DeleteSlot, OpenForm, SubmitForm, Tick, vars
  <2> QED BY <1>0, <2>1
<1>8. CASE Next
  BY <1>1, <1>2, <1>3, <1>4, <1>5, <1>6, <1>7, <1>8 DEF Next
<1> QED BY <1>7, <1>8

NoneStranded == faults = 0 => \A o \in Orders : ~Stranded(o)

LEMMA NoneStrandedNext == TypeOK /\ SeatInv /\ NoneStranded /\ [Next]_vars => NoneStranded'
<1> SUFFICES ASSUME TypeOK, SeatInv, NoneStranded, [Next]_vars, faults' = 0
             PROVE  \A o \in Orders : ~Stranded(o)'
  BY DEF NoneStranded
<1>1. faults \in Nat
  BY NumbersAssumption DEF TypeOK
<1>2. ~Restart /\ ~StrandsOneAtMost
  <2>1. Restart => faults' = faults + 1
    BY DEF Restart, Fault
  <2>2. StrandsOneAtMost => faults' = faults + 1
    BY DEF StrandsOneAtMost
  <2> QED BY <1>1, <2>1, <2>2
<1>3. StrandsNone
  BY <1>2, StepStrands
<1>4. faults = 0
  BY <1>1, FaultsCounted
<1> QED BY <1>3, <1>4 DEF NoneStranded, StrandsNone

LEMMA NoneStrandedInit == Init => NoneStranded
<1> SUFFICES ASSUME Init, NEW o \in Orders, seat[o] = "taken" PROVE Alive(o)
  BY DEF NoneStranded, Stranded, Held
<1>1. orders[o] = SeededOrder(o)
  BY DEF Init
<1>2. SeededOrder(o).state = "pending_confirmation"
  BY DEF SeededOrder, NoOrderYet
<1> QED BY <1>1, <1>2 DEF Alive

\* Then whoever took a seat of s still occupies it or has it in hand.
LEMMA NothingLost == TypeOK /\ SeatInv /\ NoneStranded => NoSeatLost
<1> SUFFICES ASSUME TypeOK, SeatInv, NoneStranded, faults = 0,
                    NEW s \in Slots, Open(s), drift[s] = {}
             PROVE  slots[s].remaining + Cardinality(Occupants(s)) + Cardinality(InHand(s))
                      = granted[s]
  BY DEF NoSeatLost
<1>1. Taken(s) = Occupants(s) \cup InHand(s)
  <2>1. Taken(s) \subseteq Occupants(s) \cup InHand(s)
    BY DEF NoneStranded, Stranded, Held, Taken, Occupants, InHand, Releasing, Sweeping
  <2> QED BY <2>1, HoldersTook
<1>2. IsFiniteSet(Occupants(s)) /\ IsFiniteSet(InHand(s))
  BY SetsAssumption, FS_Subset DEF Occupants, InHand
<1>3. Cardinality(Occupants(s) \cap InHand(s)) = 0
  <2>1. Occupants(s) \cap InHand(s) = {}
    BY DEF Occupants, InHand
  <2> QED BY <2>1, FS_EmptySet
<1>4. /\ Cardinality(Occupants(s) \cup InHand(s)) = Cardinality(Occupants(s))
            + Cardinality(InHand(s)) - Cardinality(Occupants(s) \cap InHand(s))
      /\ Cardinality(Occupants(s)) \in Nat /\ Cardinality(InHand(s)) \in Nat
  BY <1>2, FS_Union, FS_CardinalityType
<1>5. slots[s].remaining + Cardinality(Taken(s)) = granted[s]
  BY DEF SeatInv, Ledger
<1>6. slots[s].remaining \in Int
  BY DEF TypeOK, SlotRecord
<1> QED BY <1>1, <1>3, <1>4, <1>5, <1>6

\* Without a failed call or a crash not one seat is lost, however requests interleave.
THEOREM SeatsNeverLost == Spec => []NoSeatLost
<1>1. TypeOK /\ SeatInv /\ NoneStranded /\ [Next]_vars => NoneStranded'
  BY NoneStrandedNext
<1>2. Spec => []NoneStranded
  BY <1>1, NoneStrandedInit, SeatSafety, PTL DEF Spec
<1> QED BY <1>2, NothingLost, SeatSafety, PTL

\* The seats of s that are stranded are the missing ones.
StrandedOf(s) == {o \in Taken(s) : Stranded(o)}
MissingAreStranded ==
    \A s \in Slots : Open(s) /\ drift[s] = {} => Missing(s) = Cardinality(StrandedOf(s))

LEMMA BooksShowStranded == TypeOK /\ SeatInv => MissingAreStranded
<1> SUFFICES ASSUME TypeOK, SeatInv, NEW s \in Slots, Open(s), drift[s] = {}
             PROVE  Missing(s) = Cardinality(StrandedOf(s))
  BY DEF MissingAreStranded
<1> DEFINE O == Occupants(s)
           H == InHand(s)
           S == StrandedOf(s)
<1>1. IsFiniteSet(O) /\ IsFiniteSet(H) /\ IsFiniteSet(S)
  BY SetsAssumption, FS_Subset DEF Occupants, InHand, StrandedOf, Taken
<1>2. Taken(s) = (O \cup H) \cup S
  <2>1. O \cup H \subseteq Taken(s)
    BY HoldersTook
  <2>2. \A o \in Taken(s) : o \in O \/ o \in H \/ o \in S
    BY DEF Taken, Occupants, InHand, StrandedOf, Stranded, Held, Releasing, Sweeping
  <2> QED BY <2>1, <2>2 DEF StrandedOf
<1>3. O \cap H = {} /\ (O \cup H) \cap S = {}
  BY DEF Occupants, InHand, StrandedOf, Stranded, Held, Releasing, Sweeping
<1> HIDE DEF O, H, S
<1>4. IsFiniteSet(O \cup H)
  BY <1>1, FS_Union
<1>5. /\ Cardinality(O \cup H) = Cardinality(O) + Cardinality(H) - Cardinality(O \cap H)
      /\ Cardinality((O \cup H) \cup S)
           = Cardinality(O \cup H) + Cardinality(S) - Cardinality((O \cup H) \cap S)
  BY <1>1, <1>4, FS_Union
<1>6. Cardinality(O \cap H) = 0 /\ Cardinality((O \cup H) \cap S) = 0
  BY <1>3, FS_EmptySet
<1>7. Cardinality(O) \in Nat /\ Cardinality(H) \in Nat /\ Cardinality(S) \in Nat
  BY <1>1, FS_CardinalityType
<1>8. slots[s].remaining + Cardinality(Taken(s)) = granted[s]
  BY DEF SeatInv, Ledger
<1>9. slots[s].remaining \in Int /\ granted[s] \in Int
  BY DEF TypeOK, SlotRecord
<1>10. Missing(s) = granted[s] - (slots[s].remaining + Cardinality(O) + Cardinality(H))
  BY DEF Missing, O, H
<1>11. Missing(s) = Cardinality(S)
  BY <1>2, <1>5, <1>6, <1>7, <1>8, <1>9, <1>10
<1> QED BY <1>11 DEF S

\* A fault costs its own seats only, for any number of slots, orders, processes and
\* faults before it.
LEMMA FaultsCost ==
    ASSUME TypeOK, SeatInv, TypeOK', MissingAreStranded, MissingAreStranded', [Next]_vars,
           NEW s \in Slots, Open(s), Open(s)', drift'[s] = {}
    PROVE  Missing(s)' - Missing(s) <=
             IF Restart THEN Cardinality(InHand(s)) ELSE faults' - faults
<1> DEFINE S == StrandedOf(s)
           T == StrandedOf(s)'
<1>1. drift[s] = {}
  BY DriftGrows
<1>2. Missing(s) = Cardinality(S) /\ Missing(s)' = Cardinality(T)
  BY <1>1 DEF MissingAreStranded
<1>3. IsFiniteSet(S) /\ IsFiniteSet(T) /\ S \subseteq Orders /\ T \subseteq Orders
  BY SetsAssumption, FS_Subset DEF StrandedOf, Taken
<1>4. \A p \in T : Stranded(p)' /\ orders'[p].slot = s
  BY DEF StrandedOf, Taken
<1>5. \A p \in T : Stranded(p) => p \in S
  BY <1>3, <1>4, SeatedStay DEF Stays, StrandedOf, Taken, Stranded
<1>6. faults \in Int /\ (faults' = faults \/ faults' = faults + 1)
  BY FaultsCounted DEF TypeOK
<1>7. Cardinality(S) \in Nat /\ Cardinality(T) \in Nat
  BY <1>3, FS_CardinalityType
<1>8. CASE Restart
  <2>1. StrandsInHand
    BY <1>8, StepStrands
  <2>2. T \subseteq S \cup InHand(s)
    BY <1>3, <1>4, <1>5, <1>8, <2>1, SeatedStay DEF Stays, StrandsInHand
  <2>3. IsFiniteSet(InHand(s))
    BY SetsAssumption, FS_Subset DEF InHand
  <2> HIDE DEF S, T
  <2>4. /\ IsFiniteSet(S \cup InHand(s))
        /\ Cardinality(S \cup InHand(s)) = Cardinality(S) + Cardinality(InHand(s))
              - Cardinality(S \cap InHand(s))
    BY <1>3, <2>3, FS_Union
  <2>5. Cardinality(T) <= Cardinality(S \cup InHand(s))
    BY <2>2, <2>4, FS_Subset
  <2>6. IsFiniteSet(S \cap InHand(s))
    BY <1>3, FS_Intersection
  <2>7. Cardinality(InHand(s)) \in Nat /\ Cardinality(S \cap InHand(s)) \in Nat
    BY <2>3, <2>6, FS_CardinalityType
  <2> QED BY <1>2, <1>7, <1>8, <2>4, <2>5, <2>7
<1>9. CASE ~Restart /\ StrandsNone
  <2>1. T \subseteq S
    BY <1>3, <1>4, <1>5, <1>9 DEF StrandsNone
  <2> HIDE DEF S, T
  <2>2. Cardinality(T) <= Cardinality(S)
    BY <1>3, <2>1, FS_Subset
  <2> QED BY <1>2, <1>6, <1>7, <1>9, <2>2
<1>10. CASE ~Restart /\ StrandsOneAtMost
  <2>1. PICK o : \A p \in Orders : Stranded(p)' => Stranded(p) \/ p = o
    BY <1>10 DEF StrandsOneAtMost
  <2>2. T \subseteq S \cup {o}
    BY <1>3, <1>4, <1>5, <2>1
  <2> HIDE DEF S, T
  <2>3. IsFiniteSet(S \cup {o}) /\ Cardinality(S \cup {o}) <= Cardinality(S) + 1
    BY <1>3, <1>7, FS_AddElement
  <2>4. Cardinality(T) <= Cardinality(S \cup {o}) /\ Cardinality(S \cup {o}) \in Nat
    BY <2>2, <2>3, FS_Subset, FS_CardinalityType
  <2>5. faults' - faults = 1
    BY <1>6, <1>10 DEF StrandsOneAtMost
  <2> QED BY <1>2, <1>7, <1>10, <2>3, <2>4, <2>5
<1> QED BY <1>8, <1>9, <1>10, StepStrands

\* A failing call or a lost answer costs the slot its own seat at most, a restart those
\* in the hands of the processes it ends, and nothing else ever costs one.
THEOREM FaultsCostLittle == Spec => FaultsCostTheirSeatsOnly
<1>1. Spec => []MissingAreStranded
  BY BooksShowStranded, SeatSafety, PTL
<1>2. TypeOK /\ SeatInv /\ TypeOK' /\ MissingAreStranded /\ MissingAreStranded' /\ [Next]_vars
        => [\A s \in Slots : Open(s) /\ Open(s)' /\ drift'[s] = {} =>
              Missing(s)' - Missing(s) <=
                IF Restart THEN Cardinality(InHand(s)) ELSE faults' - faults]_vars
  BY FaultsCost
<1> QED BY <1>1, <1>2, SeatSafety, PTL DEF Spec, FaultsCostTheirSeatsOnly

-----------------------------------------------------------------------------
(* What a step does to an order. *)

\* What may become of the stored order p: nothing, a step of staff or of the request
\* that stores it, a customer's or the worker's cancellation, the seeding.
Moves(p) ==
    \/ orders'[p].state = orders[p].state /\ orders'[p].reason = orders[p].reason
    \/ /\ orders[p].state \notin {"cancelled", "completed"}
       /\ orders'[p].reason \in {orders[p].reason, "customer_cancelled"}
    \/ orders[p].state = "pending_confirmation" /\ orders[p].expiresAt <= clock
    \/ p \in SeedOrders /\ orders'[p].reason = orders[p].reason

LEMMA UnchangedMoves ==
    ASSUME UNCHANGED orders
    PROVE  \A p \in Orders : Moves(p)
  BY DEF Moves

\* createOrder stores only what was not stored before.
LEMMA BookingMoves ==
    ASSUME TypeOK, SeatInv, NEW o \in Orders,
           BookStep(o) \/ BookFault(o)
           \/ \E s \in Slots : BookRead(o, s)
    PROVE  \A p \in Orders : Moves(p)
<1>1. CASE orders' = orders
  BY <1>1, UnchangedMoves
<1>2. CASE orders' = [orders EXCEPT ![o].expiresAt = clock + Timeout]
  BY <1>2 DEF TypeOK, OrderRecord, Moves
<1>3. CASE orders' = Stored(o) /\ At(o, "dated")
  <2>1. orders[o].state = "none"
    BY <1>3 DEF SeatInv, Phases, At
  <2>2. orders'[o].reason = orders[o].reason
    BY <1>3 DEF TypeOK, OrderRecord, Stored
  <2>3. \A p \in Orders : p # o => orders'[p] = orders[p]
    BY <1>3 DEF TypeOK, Stored
  <2> QED BY <2>1, <2>2, <2>3 DEF Moves
<1>4. ASSUME NEW s \in Slots,
             orders' = [orders EXCEPT ![o].slot = s]
      PROVE  \A p \in Orders : Moves(p)
  <2> DEFINE r == [orders[o] EXCEPT !.slot = s]
  <2>1. r.state = orders[o].state /\ r.reason = orders[o].reason
    BY DEF TypeOK, OrderRecord
  <2>2. orders' = [orders EXCEPT ![o] = r]
    BY <1>4 DEF TypeOK, OrderRecord
  <2> HIDE DEF r
  <2> QED BY <2>1, <2>2 DEF TypeOK, Moves
<1> QED BY <1>1, <1>2, <1>3, <1>4
        DEF BookRead, BookStep, BookFault, BookReject, BookDecrement, BookUnavailable, BookSettings,
            BookInsert, BookRefund, BookDecrementLost, BookSettingsFails, BookInsertFails,
            BookRefundFails, TakeSeat

\* Both claims are filtered; the worker's order was due when it was found, and still is.
LEMMA ClaimMoves ==
    ASSUME TypeOK, SeatInv,
           (\E c \in Cancels : CancelStep(c)) \/ (\E w \in Sweeps : SweepStep(w) \/ SweepFails(w))
    PROVE  \A p \in Orders : Moves(p)
<1>1. CASE orders' = orders
  BY <1>1, UnchangedMoves
<1>2. ASSUME NEW o \in Orders, CancelFilter(o), orders' = Cancelled(o, "customer_cancelled")
      PROVE  \A p \in Orders : Moves(p)
  <2>1. /\ orders'[o].reason = "customer_cancelled"
        /\ \A p \in Orders : p # o => orders'[p] = orders[p]
    BY <1>2 DEF TypeOK, OrderRecord, Cancelled
  <2> QED BY <1>2, <2>1 DEF CancelFilter, Cancellable, Moves
<1>3. ASSUME NEW o \in Orders, ClaimFilter(o), orders[o].expiresAt <= clock,
             orders' = Cancelled(o, "pending_timeout")
      PROVE  \A p \in Orders : Moves(p)
  BY <1>3 DEF TypeOK, Cancelled, ClaimFilter, Unclaimed, Moves
<1>4. ASSUME NEW c \in Cancels, CancelStep(c)
      PROVE  \A p \in Orders : Moves(p)
  <2>1. cancel[c].pc = "claiming" => cancel[c].order \in Orders
    BY DEF SeatInv, Targets
  <2> QED BY <1>1, <1>2, <1>4, <2>1 DEF CancelStep, CancelClaim, CancelRelease
<1>5. ASSUME NEW w \in Sweeps, SweepStep(w) \/ SweepFails(w)
      PROVE  \A p \in Orders : Moves(p)
  <2>1. CASE sweep[w].pc = "claiming"
    <3>1. /\ sweep[w].order \in Orders
          /\ orders[sweep[w].order].expiresAt <= sweep[w].now /\ sweep[w].now <= clock
      BY <2>1 DEF SeatInv, Targets
    <3>2. /\ orders[sweep[w].order].expiresAt \in Int
          /\ sweep[w].now \in Int /\ clock \in Int
      BY <3>1, NumbersAssumption DEF TypeOK, OrderRecord, SweepRecord
    <3>3. orders[sweep[w].order].expiresAt <= clock
      BY <3>1, <3>2
    <3> QED BY <1>1, <1>3, <1>5, <2>1, <3>1, <3>3
            DEF SweepStep, SweepFind, SweepClaim, SweepRelease, SweepFails
  <2>2. CASE sweep[w].pc # "claiming"
    BY <1>1, <1>5, <2>2 DEF SweepStep, SweepFind, SweepClaim, SweepRelease, SweepFails
  <2> QED BY <2>1, <2>2
<1> QED BY <1>4, <1>5

LEMMA AllMoves ==
    ASSUME TypeOK, SeatInv, [Next]_vars
    PROVE  \A p \in Orders : Moves(p)
<1>1. ASSUME NEW o \in Orders, Complete(o) \/ Confirm(o)
      PROVE  \A p \in Orders : Moves(p)
  <2>1. PICK state \in OrderStates : /\ orders' = [orders EXCEPT ![o].state = state]
                                    /\ orders[o].state \notin {"cancelled", "completed"}
    BY <1>1 DEF OrderStates, Complete, CompleteFilter, Confirm
  <2>2. \A p \in Orders : orders'[p].reason = orders[p].reason /\ (p # o => orders'[p] = orders[p])
    BY <2>1 DEF TypeOK, OrderRecord
  <2> QED BY <2>1, <2>2 DEF Moves
<1>2. CASE Restart
  <2>1. \A p \in Orders \ SeedOrders : orders'[p] = orders[p]
    BY <1>2 DEF Restart
  <2>2. ASSUME NEW p \in SeedOrders
        PROVE  orders'[p].reason = orders[p].reason
    <3> DEFINE r == [orders[p] EXCEPT !.state = "pending_confirmation", !.slot = SeedSlot[p]]
    <3>1. r.reason = orders[p].reason
      BY SetsAssumption DEF TypeOK, OrderRecord
    <3>2. orders'[p] = r
      BY <1>2, SetsAssumption DEF Restart
    <3> HIDE DEF r
    <3> QED BY <3>1, <3>2
  <2> QED BY <2>1, <2>2 DEF Moves
<1>3. ASSUME \/ \E c \in Cancels, o \in Orders : CancelRead(c, o)
             \/ \E c \in Cancels : CancelReleaseFails(c)
             \/ \E w \in Sweeps : SweepStart(w)
             \/ \E s \in Slots, n \in 1..MaxCapacity : CreateSlot(s, n)
             \/ \E s \in Slots : DeleteSlot(s)
             \/ \E e \in Editors, s \in Slots : OpenForm(e, s)
             \/ \E e \in Editors, n \in 1..MaxCapacity : SubmitForm(e, n)
             \/ Tick \/ UNCHANGED vars
      PROVE  \A p \in Orders : Moves(p)
  <2>1. UNCHANGED orders
    BY <1>3 DEF CancelRead, CancelReleaseFails, SweepStart, CreateSlot, DeleteSlot, OpenForm,
                SubmitForm, Tick, vars
  <2> QED BY <2>1, UnchangedMoves
<1>4. ASSUME NEW o \in Orders,
             BookStep(o) \/ BookFault(o)
             \/ \E s \in Slots : BookRead(o, s)
      PROVE  \A p \in Orders : Moves(p)
  BY <1>4, BookingMoves
<1> QED BY <1>1, <1>2, <1>3, <1>4, ClaimMoves DEF Next

\* No request, worker run or step of staff revives a closed order.
THEOREM ClosedForGood == Spec => ClosedStaysClosed
<1>1. TypeOK /\ SeatInv /\ [Next]_vars =>
        \A o \in Orders : orders[o].state \in {"cancelled", "completed"} =>
          orders'[o].state = orders[o].state \/ o \in SeedOrders
  BY AllMoves DEF Moves
<1> QED BY <1>1, SeatSafety, PTL DEF Spec, ClosedStaysClosed

\* The worker takes nothing from a customer whose order is confirmed or not yet due.
THEOREM TimeoutsAreDue == Spec => OnlyDuePendingTimesOut
<1>1. TypeOK /\ SeatInv /\ [Next]_vars =>
        \A o \in Orders :
          orders'[o].reason = "pending_timeout" /\ orders[o].reason # "pending_timeout" =>
            /\ orders[o].state = "pending_confirmation"
            /\ orders[o].expiresAt <= clock
  BY AllMoves DEF Moves
<1> QED BY <1>1, SeatSafety, PTL DEF Spec, OnlyDuePendingTimesOut

-----------------------------------------------------------------------------
(* Booking implements Seats: the initial states map to initial states, and under the *)
(* invariants above every step maps to one step of the promise or to none.           *)

\* A step that leaves counters, seats and books alone, and every seated order in its
\* slot, is invisible in the promise.
LEMMA Invisible ==
    ASSUME UNCHANGED <<slots, seat, drift>>,
           \A o \in Orders : seat[o] # "none" => orders'[o].slot = orders[o].slot
    PROVE  UNCHANGED Promise!vars
<1>1. \A s \in Slots : Taken(s)' = Taken(s)
  BY DEF Taken
<1>2. UNCHANGED <<SeatStatus, SeatsFree>>
  BY DEF SeatStatus, SeatsFree, Blurred
<1>3. UNCHANGED SeatsHeld
  BY <1>1 DEF SeatsHeld, Blurred
<1>4. UNCHANGED SeatsSpent
  BY DEF SeatsSpent, Blurred
<1> QED BY <1>2, <1>3, <1>4 DEF Promise!vars

\* decrementCapacitySlot is Take, in a slot whose books are kept.
LEMMA TakeKept ==
    ASSUME TypeOK, SeatInv, NEW o \in Orders, TakeSeat(o)
    PROVE  [Promise!Next]_(Promise!vars)
<1> DEFINE s == orders[o].slot
<1>1. /\ s \in Slots /\ Open(s) /\ slots[s].remaining > 0
      /\ seat[o] = "none" /\ UNCHANGED <<orders, drift>>
  BY DEF SeatInv, Phases, TakeSeat, SeatFree, Open, At
<1>2. \A z \in Slots : slots'[z].status = slots[z].status
                       /\ slots'[z].remaining = slots[z].remaining - (IF z = s THEN 1 ELSE 0)
  BY <1>1 DEF TypeOK, TakeSeat, SlotRecord
<1>3. seat' = [seat EXCEPT ![o] = "taken"]
  BY DEF TakeSeat
<1>4. \A z \in Slots : z # s => Taken(z)' = Taken(z)
  BY <1>1, <1>3 DEF TypeOK, Taken
<1>5. Taken(s)' = Taken(s) \cup {o}
  BY <1>1, <1>3 DEF TypeOK, Taken
<1>6. UNCHANGED SeatStatus
  BY <1>1, <1>2 DEF SeatStatus, Blurred
<1>7. UNCHANGED SeatsSpent
  BY <1>1, <1>3 DEF TypeOK, SeatsSpent, Blurred
<1>8. CASE Blurred(s)
  <2>1. UNCHANGED SeatsFree
    BY <1>1, <1>2, <1>8 DEF TypeOK, SlotRecord, SeatsFree, Blurred
  <2>2. UNCHANGED SeatsHeld
    BY <1>1, <1>4, <1>8 DEF SeatsHeld, Blurred
  <2> QED BY <1>6, <1>7, <2>1, <2>2 DEF Promise!vars
<1>9. CASE ~Blurred(s)
  <2>1. SeatStatus[s] = "open" /\ SeatsFree[s] > 0
    BY <1>1, <1>9 DEF SeatStatus, SeatsFree, Open
  <2>2. \A z \in Slots : o \notin SeatsHeld[z] \cup SeatsSpent[z]
    BY <1>1 DEF SeatsHeld, SeatsSpent, Taken
  <2>3. SeatsFree' = [SeatsFree EXCEPT ![s] = @ - 1]
    <3>1. \A z \in Slots : slots[z].remaining \in Int
      BY DEF TypeOK, SlotRecord
    <3>2. SeatsFree[s] = slots[s].remaining /\ SeatsFree'[s] = slots[s].remaining - 1
      BY <1>1, <1>2, <1>9 DEF SeatsFree, Blurred
    <3>3. \A z \in Slots : z # s => SeatsFree'[z] = SeatsFree[z]
      BY <1>1, <1>2, <3>1 DEF SeatsFree, Blurred
    <3> QED BY <3>2, <3>3 DEF SeatsFree
  <2>4. SeatsHeld' = [SeatsHeld EXCEPT ![s] = @ \cup {o}]
    BY <1>1, <1>4, <1>5, <1>9 DEF SeatsHeld, Blurred
  <2>5. Promise!Take(s, o)
    BY <1>6, <1>7, <2>1, <2>2, <2>3, <2>4 DEF Promise!Take
  <2> QED BY <1>1, <2>5 DEF Promise!Next
<1> QED BY <1>8, <1>9

\* incrementCapacitySlot and releaseSlotCapacity are GiveBack.
LEMMA ReturnKept ==
    ASSUME TypeOK, SeatInv, NEW o \in Orders, ReturnSeat(o),
           Clean(o) => seat[o] = "taken", UNCHANGED <<orders, drift>>
    PROVE  [Promise!Next]_(Promise!vars)
<1> DEFINE s == orders[o].slot
<1>0. CASE s \notin Slots
  <2>1. slots' = slots /\ \A z \in Slots : Taken(z)' = Taken(z)
    BY <1>0 DEF TypeOK, ReturnSeat, Open, Taken
  <2>2. UNCHANGED <<SeatStatus, SeatsFree>>
    BY <2>1 DEF SeatStatus, SeatsFree, Blurred
  <2>3. UNCHANGED SeatsHeld
    BY <2>1 DEF SeatsHeld, Blurred
  <2>4. \A p \in Orders : orders[p].slot \in Slots => seat'[p] = seat[p]
    BY <1>0 DEF TypeOK, ReturnSeat
  <2>5. UNCHANGED SeatsSpent
    BY <2>4 DEF SeatsSpent, Blurred
  <2> QED BY <2>2, <2>3, <2>5 DEF Promise!vars
<1> SUFFICES ASSUME s \in Slots PROVE [Promise!Next]_(Promise!vars)
  BY <1>0
<1>1. \A z \in Slots : /\ slots'[z].status = slots[z].status
                       /\ slots'[z].remaining = slots[z].remaining
                            + (IF z = s /\ Open(s) THEN 1 ELSE 0)
  BY DEF TypeOK, SlotRecord, ReturnSeat
<1>2. \A p \in Orders : p # o => seat'[p] = seat[p]
  BY DEF TypeOK, ReturnSeat
<1>3. \A z \in Slots : z # s => Taken(z)' = Taken(z)
  BY <1>2 DEF Taken
<1>4. UNCHANGED SeatStatus
  BY <1>1 DEF SeatStatus, Blurred
<1>5. CASE Blurred(s)
  <2>1. UNCHANGED SeatsFree
    BY <1>1, <1>5 DEF TypeOK, SlotRecord, SeatsFree, Blurred
  <2>2. UNCHANGED SeatsHeld
    BY <1>3, <1>5 DEF SeatsHeld, Blurred
  <2>3. UNCHANGED SeatsSpent
    BY <1>2, <1>5 DEF SeatsSpent, Blurred
  <2> QED BY <1>4, <2>1, <2>2, <2>3 DEF Promise!vars
<1>6. CASE ~Blurred(s)
  <2>1. Clean(o)
    BY <1>6, SetsAssumption DEF Clean, Blurred
  <2>2. seat[o] = "taken" /\ seat' = [seat EXCEPT ![o] = "returned"]
    BY <2>1 DEF ReturnSeat
  <2>3. Taken(s)' = Taken(s) \ {o} /\ o \in Taken(s)
    BY <2>2 DEF TypeOK, Taken
  <2>4. SeatsHeld' = [SeatsHeld EXCEPT ![s] = @ \ {o}] /\ o \in SeatsHeld[s]
    BY <1>3, <1>6, <2>3 DEF SeatsHeld, Blurred
  <2>5. SeatsSpent' = [SeatsSpent EXCEPT ![s] = @ \cup {o}]
    <3>1. SeatsSpent'[s] = SeatsSpent[s] \cup {o}
      BY <1>6, <2>2 DEF TypeOK, SeatsSpent, Blurred
    <3>2. \A z \in Slots : z # s => SeatsSpent'[z] = SeatsSpent[z]
      BY <2>2 DEF TypeOK, SeatsSpent, Blurred
    <3>3. /\ SeatsSpent = [z \in Slots |-> SeatsSpent[z]]
          /\ SeatsSpent' = [z \in Slots |-> SeatsSpent'[z]]
      BY DEF SeatsSpent
    <3> QED BY <3>1, <3>2, <3>3
  <2>6. SeatsFree' = IF SeatStatus[s] = "open" THEN [SeatsFree EXCEPT ![s] = @ + 1]
                     ELSE SeatsFree
    <3>1. SeatStatus[s] = "open" <=> Open(s)
      BY <1>6 DEF SeatStatus, Open
    <3>2. \A z \in Slots : slots[z].remaining \in Int
      BY DEF TypeOK, SlotRecord
    <3>3. \A z \in Slots : z # s => SeatsFree'[z] = SeatsFree[z]
      BY <1>1, <3>2 DEF SeatsFree, Blurred
    <3>4. SeatsFree[s] = slots[s].remaining /\ SeatsFree'[s] = slots'[s].remaining
      BY <1>6 DEF SeatsFree, Blurred
    <3>5. CASE Open(s)
      BY <1>1, <3>1, <3>3, <3>4, <3>5 DEF SeatsFree
    <3>6. CASE ~Open(s)
      BY <1>1, <3>1, <3>2, <3>3, <3>4, <3>6 DEF SeatsFree
    <3> QED BY <3>5, <3>6
  <2>7. Promise!GiveBack(s, o)
    BY <1>4, <2>4, <2>5, <2>6 DEF Promise!GiveBack
  <2> QED BY <2>7 DEF Promise!Next
<1> QED BY <1>5, <1>6

\* A step that only marks more slots' books as lost is Blur.
LEMMA BlurKept ==
    ASSUME TypeOK, SeatInv, TypeOK', NEW S \in SUBSET Slots,
           \A s \in Slots : /\ s \in S => Blurred(s)'
                            /\ s \notin S => slots'[s] = slots[s] /\ drift'[s] = drift[s],
           UNCHANGED seat, \A o \in Orders : orders'[o].slot = orders[o].slot
    PROVE  [Promise!Next]_(Promise!vars)
<1>1. \A s \in Slots : Taken(s)' = Taken(s)
  BY DEF Taken
<1>2. SeatStatus' = [s \in Slots |-> IF s \in S THEN "blurred" ELSE SeatStatus[s]]
  BY DEF SeatStatus, Blurred
<1>3. SeatsFree' = [s \in Slots |-> IF s \in S THEN 0 ELSE SeatsFree[s]]
  BY DEF SeatsFree, Blurred
<1>4. SeatsHeld' = [s \in Slots |-> IF s \in S THEN {} ELSE SeatsHeld[s]]
  BY <1>1 DEF SeatsHeld, Blurred
<1>5. SeatsSpent' = [s \in Slots |-> IF s \in S THEN {} ELSE SeatsSpent[s]]
  BY DEF SeatsSpent, Blurred
<1>6. Promise!Blur(S)
  BY <1>2, <1>3, <1>4, <1>5 DEF Promise!Blur
<1> QED BY <1>6 DEF Promise!Next

\* Staff offer a slot, take it off, or set its counter; a counter that changed under
\* their hands is lost.
LEMMA StaffKept ==
    ASSUME TypeOK, SeatInv, TypeOK',
           \/ \E s \in Slots, n \in 1..MaxCapacity : CreateSlot(s, n)
           \/ \E s \in Slots : DeleteSlot(s)
           \/ \E e \in Editors, n \in 1..MaxCapacity : SubmitForm(e, n)
    PROVE  [Promise!Next]_(Promise!vars)
<1>1. UNCHANGED <<seat, orders>> /\ \A s \in Slots : Taken(s)' = Taken(s)
  BY DEF CreateSlot, DeleteSlot, SubmitForm, history, Taken
<1>2. ASSUME NEW s \in Slots, NEW n \in 1..MaxCapacity,
             CreateSlot(s, n)
      PROVE  [Promise!Next]_(Promise!vars)
  <2>1. UNCHANGED <<SeatsHeld, SeatsSpent>> /\ drift' = drift
    BY <1>1, <1>2 DEF SeatsHeld, SeatsSpent, Blurred, CreateSlot
  <2>2. /\ slots[s].status = "unborn" /\ slots'[s].status = "open"
        /\ slots'[s].remaining = n
        /\ \A z \in Slots : z # s => slots'[z] = slots[z]
    BY <1>2 DEF TypeOK, CreateSlot
  <2>3. CASE Blurred(s)
    BY <2>1, <2>2, <2>3 DEF Promise!vars, SeatStatus, SeatsFree, Blurred
  <2>4. CASE ~Blurred(s)
    <3>1. /\ SeatStatus[s] = "unborn" /\ SeatStatus' = [SeatStatus EXCEPT ![s] = "open"]
      BY <2>1, <2>2, <2>4 DEF SeatStatus, Blurred
    <3>2. SeatsFree' = [SeatsFree EXCEPT ![s] = n]
      BY <2>1, <2>2, <2>4 DEF SeatsFree, Blurred
    <3>3. Promise!Offer(s, n)
      BY <2>1, <3>1, <3>2 DEF Promise!Offer
    <3> QED BY <3>3 DEF Promise!Next
  <2> QED BY <2>3, <2>4
<1>3. ASSUME NEW s \in Slots, DeleteSlot(s)
      PROVE  [Promise!Next]_(Promise!vars)
  <2>1. UNCHANGED <<SeatsHeld, SeatsSpent>> /\ drift' = drift
    BY <1>1, <1>3 DEF SeatsHeld, SeatsSpent, Blurred, DeleteSlot, history
  <2>2. /\ slots[s].status = "open" /\ slots'[s].status = "deleted"
        /\ slots'[s].remaining = slots[s].remaining
        /\ \A z \in Slots : z # s => slots'[z] = slots[z]
    BY <1>3 DEF TypeOK, SlotRecord, DeleteSlot, Open
  <2>3. UNCHANGED SeatsFree
    BY <2>1, <2>2 DEF SeatsFree, Blurred
  <2>4. CASE Blurred(s)
    BY <2>1, <2>2, <2>3, <2>4 DEF Promise!vars, SeatStatus, Blurred
  <2>5. CASE ~Blurred(s)
    <3>1. SeatStatus[s] = "open" /\ SeatStatus' = [SeatStatus EXCEPT ![s] = "deleted"]
      BY <2>1, <2>2, <2>5 DEF SeatStatus, Blurred
    <3>2. Promise!Withdraw(s)
      BY <2>1, <2>3, <3>1 DEF Promise!Withdraw
    <3> QED BY <3>2 DEF Promise!Next
  <2> QED BY <2>4, <2>5
<1>4. ASSUME NEW e \in Editors, NEW n \in 1..MaxCapacity,
             SubmitForm(e, n)
      PROVE  [Promise!Next]_(Promise!vars)
  <2>1. PICK s \in Slots : s = edit[e].slot
    BY <1>4 DEF TypeOK, EditRecord, SubmitForm
  <2>2. CASE ~Open(s)
    BY <1>1, <1>4, <2>1, <2>2, Invisible DEF SubmitForm
  <2>3. CASE Open(s) /\ (Blurred(s) \/ slots[s].remaining # edit[e].seen)
    <3>1. \A z \in Slots : z # s => slots'[z] = slots[z] /\ drift'[z] = drift[z]
      BY <1>4, <2>1, <2>3 DEF TypeOK, SubmitForm
    <3>2. drift'[s] = IF slots[s].remaining = edit[e].seen THEN drift[s]
                      ELSE drift[s] \cup {"staleEdit"}
      BY <1>4, <2>1, <2>3 DEF TypeOK, SubmitForm
    <3>3. Blurred(s)'
      BY <2>3, <3>2 DEF Blurred
    <3>4. \A z \in Slots : /\ z \in {s} => Blurred(z)'
                           /\ z \notin {s} => slots'[z] = slots[z] /\ drift'[z] = drift[z]
      BY <3>1, <3>3
    <3>5. {s} \in SUBSET Slots
      BY <2>1
    <3> QED BY <1>1, <3>4, <3>5, BlurKept
  <2>4. CASE Open(s) /\ ~Blurred(s) /\ slots[s].remaining = edit[e].seen
    <3>1. drift' = drift
      BY <1>4, <2>1, <2>4 DEF TypeOK, SubmitForm
    <3>2. /\ slots'[s].status = slots[s].status /\ slots'[s].remaining = n
          /\ \A z \in Slots : z # s => slots'[z] = slots[z]
      BY <1>4, <2>1, <2>4 DEF TypeOK, SlotRecord, SubmitForm, Written
    <3>3. UNCHANGED <<SeatsHeld, SeatsSpent>>
      BY <1>1, <3>1 DEF SeatsHeld, SeatsSpent, Blurred
    <3>4. UNCHANGED SeatStatus /\ SeatStatus[s] = "open" /\ SeatsFree[s] = slots[s].remaining
      BY <2>1, <2>4, <3>1, <3>2 DEF SeatStatus, SeatsFree, Blurred, Open
    <3>5. SeatsFree' = [SeatsFree EXCEPT ![s] = n]
      BY <2>1, <2>4, <3>1, <3>2 DEF SeatsFree, Blurred
    <3>6. Promise!Resize(s, n)
      BY <3>3, <3>4, <3>5 DEF Promise!Resize
    <3> QED BY <2>1, <3>6 DEF Promise!Next
  <2> QED BY <2>2, <2>3, <2>4
<1> QED BY <1>2, <1>3, <1>4

\* A restart loses the books of the slots it seeds, and of no other.
LEMMA RestartKept ==
    ASSUME TypeOK, SeatInv, TypeOK', Restart
    PROVE  [Promise!Next]_(Promise!vars)
<1>1. UNCHANGED seat
  BY DEF Restart
<1>2. \A s \in Slots : /\ s \in SeededSlots => Blurred(s)'
                       /\ s \notin SeededSlots => slots'[s] = slots[s] /\ drift'[s] = drift[s]
  BY SetsAssumption DEF TypeOK, Restart, Blurred
<1>3. \A o \in Orders : orders'[o].slot = orders[o].slot
  <2>1. \A o \in SeedOrders : orders[o].slot = SeedSlot[o]
    BY SetsAssumption DEF SeatInv, Phases
  <2>2. \A o \in Orders : o \notin SeedOrders => orders'[o] = orders[o]
    BY DEF Restart
  <2>3. ASSUME NEW o \in SeedOrders PROVE orders'[o].slot = SeedSlot[o]
    <3> DEFINE r == [orders[o] EXCEPT !.state = "pending_confirmation", !.slot = SeedSlot[o]]
    <3>1. orders'[o] = r
      BY SetsAssumption DEF Restart
    <3>2. r.slot = SeedSlot[o]
      BY SetsAssumption DEF TypeOK, OrderRecord
    <3> QED BY <3>1, <3>2
  <2> QED BY <2>1, <2>2, <2>3
<1>4. SeededSlots \in SUBSET Slots
  BY SetsAssumption
<1> QED BY <1>1, <1>2, <1>3, <1>4, BlurKept

\* The order's insert is stored, reported as failed: its slot's books are lost.
LEMMA InsertFailsKept ==
    ASSUME TypeOK, SeatInv, TypeOK', NEW o \in Orders, BookInsertFails(o)
    PROVE  [Promise!Next]_(Promise!vars)
<1> DEFINE s == orders[o].slot
<1>1. UNCHANGED <<slots, seat>>
  BY DEF BookInsertFails
<1>2. \A p \in Orders : orders'[p].slot = orders[p].slot
  BY DEF TypeOK, OrderRecord, BookInsertFails, Stored
<1>3. CASE drift' = drift
  BY <1>1, <1>2, <1>3, Invisible
<1>4. CASE drift' # drift
  <2>1. drift' = [drift EXCEPT ![s] = @ \cup {"lostInsertAck"}] /\ s \in Slots
    <3>1. drift' = [drift EXCEPT ![s] = @ \cup {"lostInsertAck"}]
      BY <1>4 DEF BookInsertFails
    <3>2. s \in Slots \cup {NoSlot}
      BY DEF TypeOK, OrderRecord
    <3>3. s # NoSlot
      BY DEF SeatInv, Phases, BookInsertFails, At
    <3> QED BY <3>1, <3>2, <3>3
  <2>2. \A z \in Slots : /\ z \in {s} => Blurred(z)'
                         /\ z \notin {s} => slots'[z] = slots[z] /\ drift'[z] = drift[z]
    BY <1>1, <2>1 DEF TypeOK, Blurred
  <2>3. {s} \in SUBSET Slots
    BY <2>1
  <2> HIDE DEF s
  <2> QED BY <1>1, <1>2, <2>2, <2>3, BlurKept
<1> QED BY <1>3, <1>4

\* What a cancellation or a worker run claims stays in its slot.
LEMMA CancelledSlot ==
    ASSUME TypeOK, NEW o \in Orders, NEW why, orders' = Cancelled(o, why)
    PROVE  \A p \in Orders : orders'[p].slot = orders[p].slot
  BY DEF TypeOK, OrderRecord, Cancelled

\* The steps of a booking.
LEMMA BookKept ==
    ASSUME TypeOK, SeatInv, TypeOK', NEW o \in Orders, BookStep(o) \/ BookFault(o)
    PROVE  [Promise!Next]_(Promise!vars)
<1>1. CASE BookDecrement(o) \/ BookDecrementLost(o)
  BY <1>1, TakeKept DEF BookDecrement, BookDecrementLost
<1>2. CASE BookRefund(o)
  <2>1. Clean(o) => seat[o] = "taken"
    BY <1>2 DEF SeatInv, Phases, BookRefund, At
  <2> QED BY <1>2, <2>1, ReturnKept DEF BookRefund
<1>3. CASE BookInsertFails(o)
  BY <1>3, InsertFailsKept
<1>4. CASE BookReject(o) \/ BookUnavailable(o) \/ BookSettingsFails(o) \/ BookRefundFails(o)
  BY <1>4, Invisible
     DEF BookReject, BookUnavailable, BookSettingsFails, BookRefundFails, history
<1>5. CASE BookSettings(o) \/ BookInsert(o)
  <2>1. \A p \in Orders : orders'[p].slot = orders[p].slot
    BY <1>5 DEF TypeOK, OrderRecord, BookSettings, BookInsert, Stored
  <2> QED BY <1>5, <2>1, Invisible DEF BookSettings, BookInsert, history
<1> QED BY <1>1, <1>2, <1>3, <1>4, <1>5 DEF BookStep, BookFault

\* The steps of a cancellation and of a worker run.
LEMMA ClaimKept ==
    ASSUME TypeOK, SeatInv,
           \/ \E c \in Cancels : CancelStep(c) \/ CancelReleaseFails(c)
           \/ \E w \in Sweeps : SweepStart(w) \/ SweepStep(w) \/ SweepFails(w)
    PROVE  [Promise!Next]_(Promise!vars)
<1>1. ASSUME NEW c \in Cancels, CancelClaim(c)
      PROVE  [Promise!Next]_(Promise!vars)
  <2>1. \A p \in Orders : orders'[p].slot = orders[p].slot
    BY <1>1, CancelledSlot DEF SeatInv, Targets, CancelClaim
  <2> QED BY <1>1, <2>1, Invisible DEF CancelClaim, history
<1>2. ASSUME NEW c \in Cancels, CancelRelease(c)
      PROVE  [Promise!Next]_(Promise!vars)
  <2> DEFINE o == cancel[c].order
  <2>1. o \in Orders /\ (Clean(o) => seat[o] = "taken")
    BY <1>2 DEF SeatInv, Targets, OneClaimant, Releasing, CancelRelease
  <2> QED BY <1>2, <2>1, ReturnKept DEF CancelRelease
<1>3. ASSUME NEW w \in Sweeps, SweepClaim(w) \/ SweepFails(w)
      PROVE  [Promise!Next]_(Promise!vars)
  <2>1. \A p \in Orders : orders'[p].slot = orders[p].slot
    BY <1>3, CancelledSlot DEF SeatInv, Targets, SweepClaim, SweepFails
  <2> QED BY <1>3, <2>1, Invisible DEF SweepClaim, SweepFails, history
<1>4. ASSUME NEW w \in Sweeps, SweepRelease(w)
      PROVE  [Promise!Next]_(Promise!vars)
  <2> DEFINE o == sweep[w].order
  <2>1. o \in Orders /\ (Clean(o) => seat[o] = "taken")
    BY <1>4 DEF SeatInv, Targets, OneClaimant, Sweeping, SweepRelease
  <2> QED BY <1>4, <2>1, ReturnKept DEF SweepRelease
<1>5. ASSUME NEW w \in Sweeps, SweepStart(w) \/ SweepFind(w)
      PROVE  [Promise!Next]_(Promise!vars)
  BY <1>5, Invisible DEF SweepStart, SweepFind, history
<1>6. ASSUME NEW c \in Cancels, CancelReleaseFails(c)
      PROVE  [Promise!Next]_(Promise!vars)
  BY <1>6, Invisible DEF CancelReleaseFails, history
<1> QED BY <1>1, <1>2, <1>3, <1>4, <1>5, <1>6 DEF CancelStep, SweepStep

\* Every step of Booking is a step of the promise, or none of its business.
LEMMA StepKept ==
    ASSUME TypeOK, SeatInv, TypeOK', [Next]_vars
    PROVE  [Promise!Next]_(Promise!vars)
<1>1. ASSUME NEW o \in Orders, NEW s \in Slots,
             BookRead(o, s)
      PROVE  [Promise!Next]_(Promise!vars)
  <2>1. seat[o] = "none"
    BY <1>1 DEF SeatInv, Phases, BookRead, At
  <2>2. \A p \in Orders : p # o => orders'[p] = orders[p]
    BY <1>1 DEF TypeOK, BookRead
  <2> QED BY <1>1, <2>1, <2>2, Invisible DEF BookRead, history
<1>2. ASSUME NEW o \in Orders, Complete(o) \/ Confirm(o)
      PROVE  [Promise!Next]_(Promise!vars)
  <2>1. \A p \in Orders : orders'[p].slot = orders[p].slot
    BY <1>2 DEF TypeOK, OrderRecord, Complete, Confirm
  <2> QED BY <1>2, <2>1, Invisible DEF Complete, Confirm, history
<1>3. ASSUME NEW c \in Cancels, NEW o \in Orders, CancelRead(c, o)
      PROVE  [Promise!Next]_(Promise!vars)
  BY <1>3, Invisible DEF CancelRead, history
<1>4. ASSUME NEW e \in Editors, NEW s \in Slots, OpenForm(e, s)
      PROVE  [Promise!Next]_(Promise!vars)
  BY <1>4, Invisible DEF OpenForm, history
<1>5. CASE Tick \/ UNCHANGED vars
  BY <1>5, Invisible DEF Tick, vars, history
<1> QED
  BY <1>1, <1>2, <1>3, <1>4, <1>5, BookKept, ClaimKept, StaffKept, RestartKept DEF Next

\* What is on sale at the start is what the promise starts with.
LEMMA InitKept == Init => Promise!Init
<1> SUFFICES ASSUME Init PROVE Promise!Init
  OBVIOUS
<1>1. TypeOK /\ SeatInv
  BY InitType, InitInv
<1>2. \A s \in Slots : ~Blurred(s) /\ seat \in [Orders -> {"none", "taken"}]
  BY SetsAssumption DEF Init, Blurred
<1>3. Promise!TypeOK
  <2>1. SeatStatus \in [Slots -> {"unborn", "open", "deleted", "blurred"}]
    BY <1>1 DEF TypeOK, SlotRecord, SeatStatus
  <2>2. SeatsFree \in [Slots -> Int]
    BY <1>1 DEF TypeOK, SlotRecord, SeatsFree
  <2>3. SeatsHeld \in [Slots -> SUBSET Orders] /\ SeatsSpent \in [Slots -> SUBSET Orders]
    BY DEF SeatsHeld, SeatsSpent, Taken
  <2> QED BY <2>1, <2>2, <2>3 DEF Promise!TypeOK
<1>4. ASSUME NEW s \in Slots
      PROVE  /\ SeatStatus[s] \in {"unborn", "open"} /\ SeatsSpent[s] = {}
             /\ SeatStatus[s] = "unborn" => SeatsFree[s] = 0 /\ SeatsHeld[s] = {}
  <2>1. SeatsSpent[s] = {} /\ SeatsHeld[s] = Taken(s)
    BY <1>2 DEF SeatsSpent, SeatsHeld
  <2>2. CASE s \in SeededSlots
    <3>1. slots[s].status = "open" /\ Open(s)
      BY <2>2 DEF Init, SeededSlot, Open
    <3> QED BY <1>2, <2>1, <3>1 DEF SeatStatus, SeatsFree
  <2>3. CASE s \notin SeededSlots
    <3>1. slots[s].status = "unborn" /\ slots[s].remaining = 0
      BY <2>3 DEF Init
    <3>2. Taken(s) = {}
      BY <1>1, <3>1 DEF SeatInv, Phases, Taken
    <3> QED BY <1>2, <2>1, <3>1, <3>2 DEF SeatStatus, SeatsFree
  <2> QED BY <2>2, <2>3
<1> QED BY <1>3, <1>4 DEF Promise!Init

\* Booking implements Seats: whatever the interleaving of requests, worker runs, staff,
\* failing calls and restarts, what customers and staff see of the seats is what the
\* promise allows.
THEOREM BookingKeepsThePromise == Spec => SeatsKept
<1>1. Init => Promise!Init
  BY InitKept
<1>2. TypeOK /\ SeatInv /\ TypeOK' /\ [Next]_vars => [Promise!Next]_(Promise!vars)
  BY StepKept
<1> QED BY <1>1, <1>2, SeatSafety, PTL DEF Spec, SeatsKept, Promise!Spec
=============================================================================
