SPECIFICATION Spec
CONSTANTS
    Objects <- FourObjects
    Indexes <- TwoIndexes
    Wanted <- FirstThree
    MaxShards = 2
    Rows = {r1}
    Layouts <- SomeLayouts
    HashByte <- SomeHashes
    MayStop = TRUE
    MaxPlans = 2
    MaxOpens = 3
    MaxStarts = 4
    NoFile = NoFile
    Torn = Torn
    NoRows = NoRows
    r1 = r1
    Idle = Idle
INVARIANTS
    EachInputOnce
    AcceptedIsComplete
    CoverageTells
    ResultSurvives
CHECK_DEADLOCK FALSE
