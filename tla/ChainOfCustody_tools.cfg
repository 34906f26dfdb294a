SPECIFICATION Spec
CONSTANTS
    w1 = w1
    w2 = w2
    s1 = s1
    Writers <- TwoWriters
    Services <- None
    Exclusive = FALSE
    MayStop = TRUE
    MayMisread = FALSE
    MaxEvents = 5
    NoFile = NoFile
    NL = NL
    Part = Part
INVARIANTS
    AckedKept
    IdsNeverAhead
CHECK_DEADLOCK FALSE
