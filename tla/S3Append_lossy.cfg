SPECIFICATION FairSpec
CONSTANTS
    a = a
    b = b
    Calls <- TwoCalls
    MAX_ATTEMPTS = 3
    SdkAttempts = 2
    RepliesLost = TRUE
    NoObject = NoObject
INVARIANTS
    RepeatsPaidByRounds
    RoundsPaidByProgress
PROPERTIES
    ImplementsLog
    CallEnds
CHECK_DEADLOCK FALSE
