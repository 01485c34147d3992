SPECIFICATION SessionSpec
CONSTANTS
  p1 = p1 p2 = p2 u1 = u1 u2 = u2 f1 = f1 f2 = f2
  None = None
  Pages <- MCPages
  Users <- MCUsers
  Families <- MCFamilies
  Contracts <- MCContracts
  Beside = {}
  MaxRotations = 2
  MaxFaults = 1
SYMMETRY Names
CHECK_DEADLOCK FALSE
INVARIANTS QuietBrowserStaysIn
PROPERTIES ClearedWasDead NeverOlder OutStaysOut
