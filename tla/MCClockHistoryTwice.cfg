SPECIFICATION Spec
CHECK_DEADLOCK FALSE
CONSTANTS
    Shapes <- MCSolo
    Measures = {"none", "utc"}
    Y2001 = 12
    StartTime = 12
    Slack = 0
    Jitter = 0
    MaxSets = 2
    MaxEvents = 2
    MaxGap = 1
    MaxWait = 5
    MaxOffloads = 2
    MaxCorrupt = 0
INVARIANTS SkewOfItsOwnClock
