CONSTANTS
    MaxEpoch = 2
    MaxLen = 5
    MaxTag = 2
    MaxLost = 1
    Chunk = 2
    HeaderOf <- MCSharedHeader
    Alike <- MCAlike
SPECIFICATION Spec
INVARIANTS
    RecordsDescribePrefixes
PROPERTIES
    StoreMakesWhole
CHECK_DEADLOCK FALSE
