CONSTANTS
    MaxEpoch = 2
    MaxLabels = 2
    MetaLen <- MCMetaLen
    MaxLen <- MCMaxLen
    Omissions <- MCOmissions
    MaxTag = 2
    MaxLost = 1
    MaxShort = 1
SPECIFICATION Spec
INVARIANTS
    RecordsAreTrue
    RecordsRebuild
CHECK_DEADLOCK FALSE
