SPECIFICATION BothSpec
CONSTANTS
    Percents = {50, 60, 101}
    MaxPercent = 100
    None = None
    MaxChanges = 4
    MaxFaults = 2
    main = main
    t1 = t1
    t2 = t2
    Tids = {main, t1, t2}
    Main = main
    Scope = Scope
    MaxChurn = 2
    DirectChanges = 3
    DirectFaults = 1
CHECK_DEADLOCK FALSE
INVARIANTS TypeOK ConfirmedForRequest NoOrphanRequest ConfirmedCovers QuietCleanup
PROPERTIES StopReleases RequestConfirmed
