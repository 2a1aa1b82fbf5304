SPECIFICATION FairSpec
CONSTANTS
    s1 = s1
    N = 3
    Signatures = {s1}
    Signature <- MCSignature
    Pointer <- MCPointer
    PageSize = 2
    BulkOver = 1
    MaxStarts = 1
INVARIANTS
    TypeOK
    CursorBehindChecks
    AcceptedIsSound
    RejectionIsFounded
PROPERTIES
    SignatureAcceptedOncePerPage
    EveryTransactionChecked
\* A process that was stopped is not started again for ever.
CHECK_DEADLOCK FALSE
