SPECIFICATION Spec
CONSTANTS
    Room = {r1}
    None = None
    Scenarios <- Unordered
INVARIANTS
    NothingLost
CHECK_DEADLOCK FALSE
