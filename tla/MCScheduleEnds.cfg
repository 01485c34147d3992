CONSTANTS
  k0 = k0
  k1 = k1
  k2 = k2
  k3 = k3
  m0 = m0
  m1 = m1
  c1 = c1
  c2 = c2
  c3 = c3
  c4 = c4
  c5 = c5
  c6 = c6
  c7 = c7
  w1 = w1
  NoRequest = NoRequest
  NoPayload = NoPayload
  Keys <- EndKeys
  Memories <- OneMemory
  Requests <- EndRequests
  Calls <- EndCalls
  CallOf <- EndCallOf
  Seeds <- Live
  Trash = {}
  Workers <- OneWorker
  Starts <- EndStarts
  StageLimit = 2
  MaxFaults = 1
  d1 = d1
  d2 = d2
  None = None
  Limit = 1
  MaxVersion = 2
  MaxAttempts = 2
SPECIFICATION ScheduleSpec
PROPERTIES CleanupCompletes EndedIsReleased AppliedInOrder
CHECK_DEADLOCK FALSE
