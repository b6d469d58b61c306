SPECIFICATION BothSpec
CONSTANTS
    t1 = t1
    t2 = t2
    glx = glx
    egl = egl
    Nobody = Nobody
    Threads = {t1, t2}
    Backends = {glx, egl}
    Values = {0, 1}
    Forms = {"regular", "insecure", "badsize"}
    Faults = {"stat", "open", "read_a", "read_b", "verify"}
    Poll = 2
    LogEnabled = FALSE
    MaxNow = 3
    MaxEdits = 1
SYMMETRY Symmetry
INVARIANTS Fresh NoTornConfig ReportedIsEnforced ReportsFollowRevisions
