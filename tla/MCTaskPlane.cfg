SPECIFICATION Spec
CONSTANTS
  m1 = m1  m2 = m2  p1 = p1  p2 = p2  p3 = p3
  Machine = {m1, m2}
  Proc = {p1, p2, p3}
  On <- Home
  HasServer = TRUE
  HasBucket = TRUE
  FetchLimit = 1
  MaxStamp = 2
  MaxEvents = 2
  MaxSyncs = 1
  MaxFaults = 2
SYMMETRY Symmetry
CHECK_DEADLOCK FALSE
INVARIANTS NothingLost SyncReconciles FoldShowsLatest
