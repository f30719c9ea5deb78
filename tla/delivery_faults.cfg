SPECIFICATION Spec
CONSTANTS
    a = a
    b = b
    c = c
    w1 = w1
    w2 = w2
    Versions <- MCVersions
    Segments <- MCSegments
    Kinds <- AllKinds
    Workers <- MCWorkers
    MaxCold = 1
    MaxAttempts = 2
    MaxFaults = 2
INVARIANTS
    EveryChunkArrives
    FailsForAReason
PROPERTIES
    InstalledIsManifest
    CommitAfterStaging
    Converges
