CONSTANTS
  a1 = a1
  a2 = a2
  o1 = o1
  o2 = o2
  o3 = o3
  p1 = p1
  c1 = c1
  c2 = c2
  c3 = c3
  c4 = c4
  c5 = c5
  r1 = r1
  TheSpace = TheSpace
  NoIdentity = NoIdentity
  TheBudget = TheBudget
  NoBudget = NoBudget
  KiB = 2
  MaxReservations = 4
  MonthlyOperations = 3
  MaxOperations = 4
  Calls <- FiveCalls
  CallOf <- MixedCallOf
  Passes = {}
  Until <- TwoUntil
  Policy <- MCPolicy
  Faults <- AllFaults
  Broken = {}
  MaxRetirements = 1
  PageSize = 1
  TicketLifetime = 1
  ReservationLifetime = 1
  MonthLength = 1
  MaxStarted = 2
  MaxClock = 1
SPECIFICATION Spec
CHECK_DEADLOCK FALSE
INVARIANTS SingleEgress JournalsTruthful ClearTruthful
SYMMETRY Retries
