SPECIFICATION FairSpec
CONSTANTS
    w1 = w1
    w2 = w2
    m1 = m1
    m2 = m2
    NoFile = NoFile
    Empty = Empty
    Torn = Torn
    Garbled = Garbled
    Workers <- TwoWorkers
    Manifests <- TwoManifests
    RetryLimits <- WrappingLimits
    MaxRetries = 3
    U32Max = 3
    AllowForce = TRUE
    Exclusive = FALSE
    Edits <- OneEdit
    EditsDuringRun = TRUE
    RuntimeDirUsed = TRUE
    MaxInvocations = 2
INVARIANT SucceededIsJustified
INVARIANT AuditCoversRuns
CHECK_DEADLOCK FALSE
PROPERTY InvocationEnds
