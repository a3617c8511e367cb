------------------------------ MODULE MCBooking ------------------------------
(* Booking on small instances.  s1 is a slot staff create, d1 one the fixtures *)
(* seed; z1 is the seeded order.                                               *)
EXTENDS Booking, TLC

CONSTANTS s1, d1, o1, o2, z1, c1, c2, w1, w2, e1, e2

NothingSeeded == [s \in {} |-> 0]
SeedOfD1 == [s \in {d1} |-> 1]
SlotOfZ1 == [o \in {z1} |-> d1]
NoSeedSlot == [o \in {} |-> d1]

\* Overlapping runs of the worker are interchangeable, and so are requests.
Workers == Permutations({w1, w2})
WorkersAndOrders == Workers \cup Permutations({o1, o2})
=============================================================================
