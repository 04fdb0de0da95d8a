SPECIFICATION FairSpec
CONSTANTS
    Task = {t1, t2, t3}
    None = None
    Scenarios <- Checked
INVARIANTS
    UniqueSequence
    SteadyChunkKept
    SteadySentOnce
    StatesAgree
    StoppedIsLast
PROPERTIES
    EverythingSent
CHECK_DEADLOCK FALSE
