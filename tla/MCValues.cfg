SPECIFICATION AllSpec
CONSTANTS
    Candidates <- Exes
    Reporting = TRUE
    MaxFps = 3
    MaxQuota = 2
    MaxParts = 4
    Observations <- MetricsObs
    Engines = {"render", "gfx"}
    Slots = 2
    MaxClients = 2
    CounterMax = 610
    Micro = 2
    Interval = 4
    Steps = {3, 200}
    MaxSamples = 3
    Threads = {1, 2}
    Second = 8
    SampleNs = 4
    StaleNs = 3
    MaxTime = 9
    MaxPresents = 4
    Users = {u1, u2}
    Gpus = {g1}
    MaxAttempts = 2
    MaxReads = 1
    Nothing = Nothing
    MaxAcquires = 2
    MaxSent = 2
CHECK_DEADLOCK FALSE
INVARIANTS ParseIsReference UseIsReference FpsIsCadence CoherentAlone NoDeadSample
