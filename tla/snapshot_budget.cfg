CONSTANTS
  MaxQuantity = 3
  Rejected = Rejected
  MaxLength = 100000
  Limits <- LongTexts
  Commands <- AllCommands
  Transitions <- AllTransitions
  Snapshots <- AllSnapshots
  Retried <- AllOperations

SPECIFICATION PSpec
INVARIANT SnapshotsReopen
