CONSTANTS
    MaxEpoch = 2
    MaxLen = 4
    MaxTag = 2
    MaxLost = 0
    Chunk = 2
    HeaderOf <- MCHeaderOf
    Alike <- MCAlike
SPECIFICATION FairSpec
PROPERTIES
    ImplementsArchive
    OffloadSaves
CHECK_DEADLOCK FALSE
