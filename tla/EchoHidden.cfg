SPECIFICATION Spec
CONSTANTS
    Scenarios <- Failing
INVARIANTS
    CaughtUp
CHECK_DEADLOCK FALSE
