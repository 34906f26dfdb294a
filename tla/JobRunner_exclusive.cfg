SPECIFICATION Spec
CONSTANTS
    w1 = w1
    w2 = w2
    m1 = m1
    m2 = m2
    NoFile = NoFile
    Empty = Empty
    Torn = Torn
    Garbled = Garbled
    Workers <- TwoWorkers
    Manifests <- TwoManifests
    RetryLimits <- TwoLimits
    MaxRetries = 2
    U32Max = 7
    AllowForce = FALSE
    Exclusive = TRUE
    Edits <- AnyEdit
    EditsDuringRun = FALSE
    RuntimeDirUsed = FALSE
    MaxInvocations = 3
INVARIANT RetryBudget
INVARIANT AuditIdsUnique
PROPERTY ImplementsLifecycle
CHECK_DEADLOCK FALSE
SYMMETRY WorkerSymmetry
