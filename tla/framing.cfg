CONSTANTS
  Payload <- FewPayloads
  Timestamp = {5}
  MaxRecordLen = 12
  MaxSequence = 3
  MaxGroup = 2
  Faults = {"Append", "Power", "Extend", "Damage", "Read"}

SPECIFICATION RSpec
INVARIANT RTypeOK
INVARIANT ReturnsWhatWasWritten
INVARIANT KeepsWhatWasAcknowledged
INVARIANT RefusesOnlyDamage
