SPECIFICATION LogoutSpec
CONSTANTS
    Tab = {t1, t2, t3}
    None = None
    Expiry = 2
    Interval = 1
    MaxGap = 1
    BFCache = FALSE
    MayReject = FALSE
SYMMETRY Symmetry
INVARIANTS
    MutualExclusion
