CONSTANTS
  MaxQuantity = 3
  Rejected = Rejected
  MaxLength = 100000
  Limits <- RoomyLimits
  Commands <- AllCommands
  Transitions <- AllTransitions
  Snapshots <- AllSnapshots
  Retried <- AllOperations

SPECIFICATION PSpec
INVARIANT DecodesWhatWasEncoded
INVARIANT RefusesWhatWasNotWritten
INVARIANT RetriesMatchTheirCommand
