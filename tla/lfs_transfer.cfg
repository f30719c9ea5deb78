SPECIFICATION Spec
CONSTANTS
    a = a
    b = b
    w1 = w1
    w2 = w2
    Oids <- MCOids
    Chunks <- MCChunks
    ChunksOf <- MCChunksOf
    Workers <- MCWorkers
    MinLimit = 1
    InitialLimit = 1
    Window = 1
    MaxBytes = 2
    MaxRun = 3
    MaxTime = 1
    MaxFaults = 1
    MaxPushes = 2
    MaxPulls = 2
INVARIANTS
    SlotsExact
    JoinComplete
    ManifestReady
    PushedIsServed
    FailsForACause
PROPERTIES
    QuietBeforeRaise
    Joins
CHECK_DEADLOCK FALSE
