SPECIFICATION FairSpec
CONSTANTS
    Tab = {t1, t2, t3}
    None = None
    Expiry = 3
    Interval = 1
    MaxGap = 2
    BFCache = FALSE
    MayReject = TRUE
INVARIANTS
    MutualExclusion
    NewestSurvives
    IInv
PROPERTIES
    NoForeignRemoval
    ImplementsTabLock
    ClaimantProceeds
    DisplacedStops
