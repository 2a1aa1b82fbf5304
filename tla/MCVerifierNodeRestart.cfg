SPECIFICATION FairSpec
CONSTANTS
    s1 = s1
    s2 = s2
    g1 = g1
    N = 2
    Transactions <- MCTransactions
    Signatures = {s1, s2}
    Signature <- MCSignature
    Concurrency = 2
    BulkMayDrop = TRUE
    StreamMayThrow = TRUE
    MayLackEvent = {2}
    Strays = {g1}
    PageSize = 2
    MaxPulling = 1
    ResyncModes = {TRUE, FALSE}
    MaxCrashes = 2
CONSTRAINT
    OneOrEventless
PROPERTIES
    EveryTransactionHandled
    RetryHappens
