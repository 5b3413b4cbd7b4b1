SPECIFICATION CSpec
CONSTANTS
  c1 = c1
  c2 = c2
  c3 = c3
  c4 = c4
  NumPools = 1
  NumPromises = 1
  Horizon = 1
  Curve <- LedgerCurve
  NoCurve = NoCurve
  Bundle <- LedgerBundle
  Demand <- MCDemand
  Boundary <- MCBoundary
  Choice <- LedgerChoice
  SlotQuery <- LedgerQuery
  Unplaceable = Unplaceable
  Instant = {1, 2}
  Version = {1, 2}
  MaxQuantity = 1
  MaxSequence = 4
  Request <- AllRequests
  MaxBatch = 2
  MaxRecord = 3
  Deployments <- EveryDeployment
  NoRecord = NoRecord
INVARIANTS
  CTypeOK
  RecoveryNeverFails
  StateIsWhatTheLogSays
  SnapshotRestores
  ServesOnlyPersisted
PROPERTIES
  ImplementsExactlyOnce
