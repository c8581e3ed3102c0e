CONSTANTS
    MaxEpoch = 2
    MaxLen = 4
    MaxTag = 3
    MaxLost = 0
    Chunk = 2
    HeaderOf <- MCHeaderOf
    Alike <- MCAlike
SPECIFICATION Spec
INVARIANTS
    TypeOK
    RecordsAreTrue
    DeploymentsNotMerged
    RecordsInOrder
    NeverStuckOnPart
PROPERTIES
    EraseOnlySaved
    PartialBytesKept
CHECK_DEADLOCK FALSE
