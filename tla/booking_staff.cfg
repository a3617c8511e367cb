SPECIFICATION Spec
CONSTANTS
  s1 = s1
  d1 = d1
  o1 = o1
  o2 = o2
  z1 = z1
  c1 = c1
  c2 = c2
  w1 = w1
  w2 = w2
  e1 = e1
  e2 = e2
  NoSlot = NoSlot
  NoOrder = NoOrder
  Timeout = 1
  Slots = {d1}
  Orders = {o1, z1}
  Cancels = {c1}
  Sweeps = {w1}
  Editors = {e1, e2}
  SeededSlots = {d1}
  SeedRemaining <- SeedOfD1
  SeedOrders = {z1}
  SeedSlot <- SlotOfZ1
  MaxCapacity = 2
  MaxClock = 1
  MaxFaults = 2
  Faults = {"error", "lostAck", "crash"}
  Confirmations = FALSE
SYMMETRY WorkersAndOrders
PROPERTIES SeatsKept
CHECK_DEADLOCK FALSE
