SPECIFICATION Spec
CONSTANTS
  u1 = u1 u2 = u2 s1 = s1 k1 = k1 k2 = k2 q1 = q1 q2 = q2
  tA = tA tB = tB sA = sA sB = sB
  None = None
  Users <- MCUsers
  Scopes <- MCScopes
  Keys <- MCKeys
  PageUser = u1
  Provisioned <- MCProvisioned
  MaxMemory = 2
  TypeOf <- MCTypeOf
  SessionOf <- MCSessionOf
  PageSize = 1
  Queries <- MCQueries
  LegacyWindow = FALSE
  MaxCalls = 1
  MaxPending = 2
  AgentWeight = 2
SYMMETRY Names
CHECK_DEADLOCK FALSE
INVARIANTS ServedByOneCredential ViewIsOfItsRequest
