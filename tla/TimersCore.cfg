SPECIFICATION FairSpec
CONSTANTS
    Sentinel = Sentinel
    Null = Null
    None = None
    e1 = e1
    e2 = e2
    e3 = e3
    Ev <- ThreeEvents
    HalfRange = 6
    TIMER_LAZY_DELAY = 2
    Delays = {1, 2, 3}
    MaxLeft = 4
    MaxLate = 1
    Steps <- ForthAndBack
    Drops = {"del", "free"}
INVARIANTS TypeOK
PROPERTIES KeepsPromise EveryTimerRuns
