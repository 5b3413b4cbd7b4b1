CONSTANTS
  a = a
  b = b
  Value = {a}
  MaxRecord = 3
  MaxBatch = 2
  SegmentTarget = 2
  Deployments <- ClosedDeployment
  Failures = {"Rotation"}

SPECIFICATION FSpec
INVARIANT AlwaysOpens
