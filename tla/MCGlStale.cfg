SPECIFICATION BothSpec
CONSTANTS
    Keys <- Contexts
    Libraries <- System
    Threads = {t1, t2}
    Atlases = {"small", "large"}
    NoKey = NoKey
    MaxBirths = 2
    Copies = {1, 2, 3}
    Pid <- PidOf
    Old <- OldLogs
    Retention = 2
    Limit = 8
    CapLen = 2
    Lengths = {3}
    MaxRecords = 2
    MaxShort = 1
SYMMETRY Symmetry
CHECK_DEADLOCK FALSE
INVARIANT NoStaleNames
