SPECIFICATION Spec
CONSTANTS
    r1 = r1
    r2 = r2
    t1 = t1
    p = p
    d = d
    b1 = b1
    b2 = b2
    Requests <- TwoRequests
    Tools <- OneTool
    Results <- OneResult
    Deltas <- OneDelta
    Bodies <- TwoBodies
    MayStop = TRUE
    RegistryEdits = TRUE
    NoFile = NoFile
    Empty = Empty
    Cut = Cut
    Mixed = Mixed
    Out = Out
INVARIANTS
    RightsHeld
    DerivedConverge
PROPERTIES
    ImplementsStore
CHECK_DEADLOCK FALSE

