SPECIFICATION Spec
CONSTANTS
    s1 = s1
    s2 = s2
    g1 = g1
    N = 2
    Transactions <- MCTransactions
    Signatures = {s1, s2}
    Signature <- MCSignature
    Concurrency = 2
    BulkMayDrop = FALSE
    StreamMayThrow = FALSE
    MayLackEvent = {}
    Strays = {}
    PageSize = 2
    MaxPulling = 1
    ResyncModes = {TRUE}
    MaxCrashes = 0
INVARIANT
    SignatureAcceptedOnce
