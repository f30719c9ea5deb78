SPECIFICATION Spec
CONSTANTS
    a1 = a1
    a2 = a2
    r1 = r1
    Chunks <- MCChunks
    Assets <- OneAsset
    Contents <- MCContents
    SegTarget = 1
    MaxDeltas = 1
    Readers <- MCReaders
    MaxGen = 4
    MaxErrors = 0
INVARIANT
    StoreAlwaysOpens
CHECK_DEADLOCK FALSE
