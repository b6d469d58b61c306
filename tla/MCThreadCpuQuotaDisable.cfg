SPECIFICATION Spec
CONSTANTS
    main = main
    t1 = t1
    t2 = t2
    t3 = t3
    Tids = {main, t1}
    Main = main
    Percents = {50}
    MaxPercent = 100
    Scope = Scope
    MaxChanges = 2
    MaxChurn = 1
    MaxFaults = 0
SYMMETRY Symmetry
CHECK_DEADLOCK FALSE
INVARIANT DisableRemoves
