SPECIFICATION Spec
CONSTANTS
  t1 = t1
  z1 = z1
  c1 = c1
  c2 = c2
  a1 = a1
  a2 = a2
  x1 = x1
  x2 = x2
  NoTicket = NoTicket
  NoOutcome = NoOutcome
  ResolutionDue <- DueInTwo
  SeedAllowance = 1
  TicketIds = {t1, z1}
  SeedTickets = {z1}
  Clerks = {c1, c2}
  Agents = {a1, a2}
  Runs = {x1, x2}
  Statuses = {"open", "waiting_on_customer", "resolved"}
  Retention = 1
  MaxClock = 4
  MaxRestarts = 1
SYMMETRY Interchangeable
CONSTRAINTS OneInPlay FewAtOnce FewClaims
INVARIANTS TypeOK DueCountsPauses WaitingIsPaused
PROPERTIES OutcomeNeverChanges EvidenceKeptForRetention HoldBeforeRunProtects
CHECK_DEADLOCK FALSE
