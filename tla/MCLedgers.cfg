CONSTANTS
  a1 = a1
  a2 = a2
  i1 = i1
  i2 = i2
  p1 = p1
  o1 = o1
  o2 = o2
  o3 = o3
  NoIdentity = NoIdentity
  Actors <- MCActors
  Identities <- MCIdentities
  Payloads <- MCPayloads
  OperationIds <- MCOperationIds
  Deadlines <- MCDeadlines
  PageSizes <- MCPageSizes
  MaxOperations = 2
  MonthlyOperations = 1
  MaxRetirements = 2
  TicketLifetime = 2
  MonthLength = 2
  MaxClock = 3
  NoBudget = NoBudget
  BudgetIds <- MCBudgetIds
  Contents <- MCContents
  ReservationIds <- MCReservationIds
  InputSizes <- MCInputSizes
  Policies <- MCPolicies
  KiB = 2
  MaxReservations = 3
  ReservationLifetime = 2
  c1 = c1
  c2 = c2
  c3 = c3
  k1 = k1
  k2 = k2
  d1 = d1
  None = None
  Callers <- MCCallers
  Key <- MCKey
  Drains <- MCDrains
  Limit = 1
  MaxAttempts = 2
  MaxVersion = 2
  Starts <- MCStarts
SPECIFICATION LedgersSpec
SYMMETRY MCSymmetry
INVARIANTS GenerationsAccounted AcknowledgedQuiescent BudgetSound OneSubscription
