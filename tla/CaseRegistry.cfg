SPECIFICATION Spec
CONSTANTS
    p1 = p1
    p2 = p2
    r1 = r1
    r2 = r2
    Procs <- TwoProcs
    Roots <- TwoRoots
    MayStop = TRUE
    MaxOps = 4
    MaxClashes = 1
    NoFile = NoFile
    Torn = Torn
    Broken = Broken
    NoRoot = NoRoot
SYMMETRY Alike
INVARIANTS
    CountDrift
    EventsJustified
    EventIdsUnique
PROPERTIES
    
    AttachHeals
CHECK_DEADLOCK FALSE
