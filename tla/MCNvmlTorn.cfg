SPECIFICATION NvmlSpec
CONSTANTS
    Users = {u1, u2}
    Gpus = {g1}
    MaxAttempts = 2
    MaxReads = 1
    Nothing = Nothing
    MaxAcquires = 2
    MaxSent = 3
CHECK_DEADLOCK FALSE
INVARIANT CoherentSnapshot
