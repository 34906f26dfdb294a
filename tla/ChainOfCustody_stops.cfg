SPECIFICATION Spec
CONSTANTS
    w1 = w1
    w2 = w2
    s1 = s1
    Writers <- TwoWriters
    Services <- OneService
    Exclusive = TRUE
    MayStop = TRUE
    MayMisread = TRUE
    MaxEvents = 6
    NoFile = NoFile
    NL = NL
    Part = Part
INVARIANTS
    DamageShows
CHECK_DEADLOCK FALSE
