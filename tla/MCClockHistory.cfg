SPECIFICATION Spec
CHECK_DEADLOCK FALSE
CONSTANTS
    Shapes <- MCShapes
    Measures = {"none", "utc", "host"}
    Y2001 = 12
    StartTime = 12
    Slack = 0
    Jitter = 0
    MaxSets = 3
    MaxEvents = 2
    MaxGap = 1
    MaxWait = 4
    MaxOffloads = 2
    MaxCorrupt = 1
INVARIANTS TypeOK DecodesTheClock TimesAreTrue MeasuredRunsAreKept
PROPERTIES AppendKeepsSamples
