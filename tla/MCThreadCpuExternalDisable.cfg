SPECIFICATION FairSpec
CONSTANTS
    Percents = {50}
    MaxPercent = 100
    None = None
    MaxChanges = 2
    MaxFaults = 0
CHECK_DEADLOCK FALSE
PROPERTY DisableReleases
