SPECIFICATION Spec
CONSTANTS
    c1 = c1
    c2 = c2
    a1 = a1
    a2 = a2
    Chunks <- MCChunks
    Assets <- OneAsset
    Layouts <- Packed
    PackSize = 2
    Graces <- PackedGraces
    Maintenance <- MCMaintenance
    WhileIngesting = {}
SYMMETRY Symmetry
INVARIANTS
    ReadsKeepWorking
