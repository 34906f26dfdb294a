SPECIFICATION Spec
CONSTANTS
    x = x
    y = y
    NJobs = 2
    NFilesystems = 1
    NKinds = 2
    Ids <- TwoIds
    Finds <- BothFind
    Holds <- OneHolds
    Logs <- SomeLogs
    MaxRuns = 3
    NoFile = NoFile
    Torn = Torn
    Partial = Partial
    Whole = Whole
    Absent = Absent
    NoLog = NoLog
    NoBasis = NoBasis
    Deferred = Deferred
    Eager = Eager
    FromFiles = FromFiles
    FromEvents = FromEvents
INVARIANTS
    FirstJobWins
    MergeKeeps
    MergeHeals
    RefusedForReason
    ReplayIsLastEvent
CHECK_DEADLOCK FALSE
