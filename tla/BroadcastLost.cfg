SPECIFICATION Spec
CONSTANTS
    Task = {t1, t2, t3}
    None = None
    Scenarios <- Lossy
INVARIANTS
    ChunkKept
CHECK_DEADLOCK FALSE
