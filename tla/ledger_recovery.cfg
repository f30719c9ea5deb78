SPECIFICATION Spec
CONSTANTS
    a1 = a1
    a2 = a2
    v1 = v1
    v2 = v2
    None = None
    Keys <- MCKeys
    Versions <- MCOneVersion
    MaxGen = 3
    MaxLog = 1
    MaxFaults = 1
    Events <- SnapshotFaults
SYMMETRY KeySymmetry
INVARIANTS
    NeverBroken
    Durable
    KnownTable
    ReopenAgrees
    RecoveredRecordsRead
CHECK_DEADLOCK FALSE
