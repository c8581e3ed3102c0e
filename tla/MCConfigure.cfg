CONSTANTS
    MaxOffloads = 2
    MaxLosses = 3
    Refusals <- MCAnyRefusal
    MayUnplug = TRUE
SPECIFICATION FairSpec
INVARIANTS
    TypeOK
    ReportHidesNothing
    ReadyMeansLogging
    UnfinishedIsNoted
    RelockedAfterSession
PROPERTIES
    ConfiguredIsLeftAlone
    NeverLeftIdle
CHECK_DEADLOCK FALSE
