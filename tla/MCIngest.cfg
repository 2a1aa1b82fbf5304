SPECIFICATION FairSpec
CONSTANTS
    N = 2
    ChunkSize = 1
    PageSize = 2
    DefectCases <- MCOneDefect
    StreamMayThrow = TRUE
    MaxNullCursors = 1
    Concurrency = 2
    MaxSpoiled = 2
    MaxDisturbances = 1
    Reported = {"TIMESTAMP_PROOF_NOT_SUBMITTER", "TIMESTAMP_PROOF_INVALID_DA_ID"}
INVARIANTS
    TypeOK
    AcceptedWithOwnProofs
    ChecksByIdUseOwnProofs
    PassedIsDealtWith
    FailureKept
    PassedIsStreamed
PROPERTIES
    EveryFailureWritten
    EveryPublicationChecked
    EveryPublicationStreamed
