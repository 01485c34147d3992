CONSTANTS
  w1 = w1
  w2 = w2
  c1 = c1
  c2 = c2
  c3 = c3
  k1 = k1
  k2 = k2
  s1 = s1
  s2 = s2
  NoWorker = NoWorker
  NoSelection = NoSelection
  Workers <- TwoWorkers
  Approvers <- MCApprovers
  Key <- MCKey
  Selection <- MCSelection
  Chunks = 1
  PageSize = 1
  SliceCalls = 2
  MaxAttempts = 2
  MaxRevision = 2
  MaxFaults = 1
SPECIFICATION FairSpec
INVARIANTS VectorsRecorded DoneIsIndexed ApprovedOnce GivenUpAfterFailures
PROPERTIES ObsoleteVectorsGo
CHECK_DEADLOCK FALSE
