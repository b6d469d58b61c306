SPECIFICATION Spec
CONSTANTS
    Percents = {50, 60, 101}
    MaxPercent = 100
    None = None
    MaxChanges = 3
    MaxFaults = 0
CHECK_DEADLOCK FALSE
INVARIANT ConfirmedIsApplied
