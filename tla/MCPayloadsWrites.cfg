CONSTANTS
  k0 = k0
  k1 = k1
  k2 = k2
  k3 = k3
  m0 = m0
  m1 = m1
  c1 = c1
  c2 = c2
  c3 = c3
  c4 = c4
  c5 = c5
  c6 = c6
  c7 = c7
  w1 = w1
  NoRequest = NoRequest
  NoPayload = NoPayload
  Keys <- MixedKeys
  Memories <- MixedMemories
  Requests <- MixedRequests
  Calls <- MixedCalls
  CallOf <- MixedCallOf
  Seeds <- Live
  Trash = {}
  Workers <- OneWorker
  Starts <- MixedStarts
  StageLimit = 2
  MaxFaults = 1
  MaxAttempts = 2
SPECIFICATION Spec
INVARIANTS ReferencedReadable RevisionsHaveReceipts CleanedForGood
PROPERTIES CatalogSpec
CHECK_DEADLOCK FALSE
SYMMETRY SameRequest
