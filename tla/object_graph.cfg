SPECIFICATION Spec
CONSTANTS
    p = p
    q = q
    x = x
    y = y
    Objects <- MCObjects
    Deps <- MCDeps
    Payload <- MCPayload
    Roots <- MCRoots
    Sources <- MCSources
    Grace = 1
    MaxTime = 1
    MaxCrashes = 1
    MaxMoves = 2
INVARIANTS
    PublishedComplete
    PlanIsReference
    ImportCloses
PROPERTIES
    TransactionIntact
CHECK_DEADLOCK FALSE
