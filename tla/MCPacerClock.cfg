SPECIFICATION FairSpec
CONSTANTS
    Presenters = {p1, p2}
    Limits = {0, 4, 6}
    Second = 12
    MaxFps = 6
    ClockMax = 7
    MaxNow = 6
    MaxChanges = 2
    MaxEintr = 1
    Nobody = Nobody
CHECK_DEADLOCK FALSE
INVARIANTS TypeOK RateBound NoBurst BoundedHold RestartsBounded
PROPERTIES RefinesRateLimiter SleepEnds
