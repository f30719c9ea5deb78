SPECIFICATION Spec
CONSTANTS
    a1 = a1
    a2 = a2
    v1 = v1
    v2 = v2
    None = None
    Keys <- MCOneKey
    Versions <- MCVersions
    MaxGen = 3
    MaxLog = 2
    MaxFaults = 1
    Events <- CleanFaults
SYMMETRY VersionSymmetry
INVARIANTS
    RecordsRead
    BatchIsInvisible
PROPERTIES
    ImplementsAtomicLedger
