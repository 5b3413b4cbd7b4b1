SPECIFICATION Spec
CONSTANTS
  NumPools = 2
  NumPromises = 2
  Horizon = 3
  Curve <- SearchCurve
  NoCurve = NoCurve
  Bundle <- SearchBundle
  Demand <- MCDemand
  Boundary <- MCBoundary
  Choice <- SearchChoice
  SlotQuery <- SearchSlots
  Unplaceable = Unplaceable
  Instant = {1, 2, 3}
  Version = {1}
  MaxQuantity = 2
  MaxSequence = 4
INVARIANTS
  IndexMatchesPromises
  UsageIsWhatClaimsCover
PROPERTIES
  SlotHoldsTakeEarliestFit
  ChoicesTakeFirstFit
VIEW WithoutReply
