CONSTANTS
  a = a
  b = b
  Value = {a, b}
  MaxRecord = 3
  MaxBatch = 2
  SegmentTarget = 2
  Deployments <- EveryDeployment
  Failures = {"Append", "Snapshot", "Open"}

SPECIFICATION FSpec
INVARIANT FTypeOK
INVARIANT AlwaysOpens
INVARIANT ServesTheLog
INVARIANT SnapshotsCompact
PROPERTY ImplementsDurableLog
PROPERTY EveryCallReturns
