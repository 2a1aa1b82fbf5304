SPECIFICATION FairSpec
CONSTANTS
    NoRequest = NoRequest
    Workers = {w1, w2, w3}
    Requests = {r1, r2, r3, r4, r5}
INVARIANTS
    TypeOK
    NoIdleWorkerWhileQueued
    OnePlaceEach
PROPERTIES
    ImplementsRequestPool
    EveryRequestAnswered
\* The process may stop, and the requests come to an end.
CHECK_DEADLOCK FALSE
