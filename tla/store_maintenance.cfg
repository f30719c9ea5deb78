SPECIFICATION Spec
CONSTANTS
    c1 = c1
    c2 = c2
    a1 = a1
    a2 = a2
    Chunks <- MCChunks
    Assets <- MCAssets
    Layouts <- Either
    PackSize = 2
    Graces <- MCGraces
    Maintenance <- MCMaintenance
    WhileIngesting <- Loose
SYMMETRY Symmetry
CONSTRAINT AssetsBound
INVARIANTS
    TypeOK
    LedgerBacked
    EntriesRead
    PublishedReadThroughout
    RefcountsExact
PROPERTY
    GcReclaims
