SPECIFICATION Spec
CONSTANTS
    a = a
    b = b
    x = x
    c1 = c1
    c2 = c2
    Top <- MCTop
    Leaf <- MCLeaf
    Contents <- MCContents
    Plans <- MCPlans
    Checks <- Unchecked
    MaxCrashes = 2
INVARIANTS
    TypeOK
    Recoverable
    CompletedIsNew
PROPERTIES
    UnmanagedSurvives
    Finishes
