SPECIFICATION HudFairSpec
CONSTANTS
    Drawers = {d1, d2}
    SampleNs = 2
    ResetNs = 3
    MaxNow = 5
    Users = {u1, u2}
    Gpus = {g1}
    MaxAttempts = 2
    MaxReads = 1
    Nothing = Nothing
    MaxAcquires = 2
    MaxSent = 1
CHECK_DEADLOCK FALSE
INVARIANTS NoUseAcrossPause RequestsSpaced NothingLeftBehind
PROPERTIES RequestServed DestroyEnds ReleaseEnds
