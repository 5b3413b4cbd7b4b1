SPECIFICATION Spec
CONSTANTS
  NumPools = 1
  NumPromises = 2
  Horizon = 2
  Curve <- DeficitCurve
  NoCurve = NoCurve
  Bundle <- DeficitBundle
  Demand <- MCDemand
  Boundary <- MCBoundary
  Choice <- NoChoice
  SlotQuery <- NoSlotQuery
  Unplaceable = Unplaceable
  Instant = {1, 2}
  Version = {1, 2}
  MaxQuantity = 3
  MaxSequence = 5
PROPERTIES
  ReplacementsNeverWorsenDeficits
