SPECIFICATION FairSpec
CONSTANTS
    Scenarios <- MCScenarios
    MaxRetries = 1
INVARIANTS
    TypeOK
    AcceptedWasPermitted
    RightIsNotBlamed
    ShortOutageIsRiddenOut
    FailedSimulationIsAReorg
PROPERTIES
    EveryCheckEnds
CHECK_DEADLOCK FALSE
