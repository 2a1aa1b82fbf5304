SPECIFICATION Spec
CONSTANTS
    s1 = s1
    s2 = s2
    g1 = g1
    N = 2
    Transactions <- MCTransactions
    Signatures = {s1, s2}
    Signature <- MCSignature
    Concurrency = 2
    BulkMayDrop = TRUE
    StreamMayThrow = FALSE
    MayLackEvent = {1, 2}
    Strays = {g1}
    PageSize = 1
    MaxPulling = 2
    ResyncModes = {TRUE, FALSE}
    MaxCrashes = 1
INVARIANTS
    TypeOK
    CursorBehindChecks
    OnlyACrashLosesVerdicts
    RecordImpliesSignature
    RejectedForAnother
    RetriableIsRetried
PROPERTIES
    ImplementsVerdictLog
