SPECIFICATION FairSpec
CONSTANTS
  s1 = s1
  d1 = d1
  o1 = o1
  o2 = o2
  z1 = z1
  c1 = c1
  c2 = c2
  w1 = w1
  w2 = w2
  e1 = e1
  e2 = e2
  NoSlot = NoSlot
  NoOrder = NoOrder
  Timeout = 1
  SeededSlots = {}
  SeedRemaining <- NothingSeeded
  SeedOrders = {}
  SeedSlot <- NoSeedSlot
  Slots = {s1}
  Orders = {o1, o2}
  Cancels = {c1}
  Sweeps = {w1, w2}
  Editors = {}
  MaxCapacity = 1
  MaxClock = 2
  MaxFaults = 1
  Faults = {"error", "crash"}
  Confirmations = FALSE
PROPERTIES SeatComesBack ExpiredIsCancelled
CHECK_DEADLOCK FALSE
