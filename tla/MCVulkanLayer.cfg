SPECIFICATION BothSpec
CONSTANTS
    Threads = {t1, t2}
    Instances = {i1}
    Devices = {d1, d2}
    Swapchains = {s1, s2}
    Queues = {q1, q2}
    Images = {m1, m2}
    Null = Null
    MaxObjects = 5
    Handles = {q1, q2}
    QuietNs = 1
    SubmitsMax = 2
    MaxInstant = 5
SYMMETRY Symmetry
INVARIANTS NoDangling RegistryMatchesDriver FenceWillSignal AtlasUploaded WaitsOnce FallbackSound
