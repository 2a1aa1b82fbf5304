SPECIFICATION Spec
CONSTANTS
    Scenarios <- MCLate
    MaxRetries = 1
INVARIANT
    PassedBlockIsClosest
CHECK_DEADLOCK FALSE
