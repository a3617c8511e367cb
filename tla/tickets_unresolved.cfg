SPECIFICATION Spec
CONSTANTS
  t1 = t1
  z1 = z1
  c1 = c1
  c2 = c2
  a1 = a1
  a2 = a2
  x1 = x1
  x2 = x2
  NoTicket = NoTicket
  NoOutcome = NoOutcome
  ResolutionDue <- DueInTwo
  SeedAllowance = 1
  TicketIds = {t1}
  SeedTickets = {}
  Clerks = {c1}
  Agents = {}
  Runs = {x1}
  Statuses = {"open", "waiting_on_customer", "resolved"}
  Retention = 1
  MaxClock = 2
  MaxRestarts = 0
INVARIANTS RetentionNeverDies
CHECK_DEADLOCK FALSE
