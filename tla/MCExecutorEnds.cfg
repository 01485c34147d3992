CONSTANTS
  a1 = a1
  a2 = a2
  o1 = o1
  o2 = o2
  o3 = o3
  p1 = p1
  c1 = c1
  c2 = c2
  c3 = c3
  c4 = c4
  c5 = c5
  r1 = r1
  TheSpace = TheSpace
  NoIdentity = NoIdentity
  TheBudget = TheBudget
  NoBudget = NoBudget
  KiB = 2
  MaxReservations = 4
  MonthlyOperations = 3
  MaxOperations = 4
  Calls <- ThreeCalls
  CallOf <- ClearsCallOf
  Passes <- OnePass
  Until <- OneUntil
  Policy <- MCPolicy
  Faults <- ClientFaults
  Broken = {1}
  MaxRetirements = 2
  PageSize = 1
  TicketLifetime = 2
  ReservationLifetime = 2
  MonthLength = 2
  MaxStarted = 2
  MaxClock = 0
SPECIFICATION FairSpec
CHECK_DEADLOCK FALSE
PROPERTIES EventuallyAcknowledged StaleNeverTold
