CONSTANTS
    Threads = {t1, t2, t3}
    NoThread = NoThread
    MaxSteps = 2
SPECIFICATION FairSpec
INVARIANTS
    TimingAlone
    IntervalRestored
PROPERTIES
    EveryoneProceeds
