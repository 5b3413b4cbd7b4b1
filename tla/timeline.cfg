CONSTANTS
  Horizon = 5
  MaxQuantity = 1
  MaxPoints = 2
  MaxClaims = 3
  Claim <- MCClaim
  Declaration <- MCDeclaration
  Rejected = Rejected

SPECIFICATION TSpec
INVARIANT TTypeOK
INVARIANT CurveIsAsDeclared
INVARIANT IndexIsExact
INVARIANT BoundsAreExact
INVARIANT DeficitsAreExact
INVARIANT UpdatesMatchRebuild
INVARIANT RestoreNeverFails
