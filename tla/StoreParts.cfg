SPECIFICATION PartsSpec
CONSTANTS
    Rooms = {r1,r2}
    MaxEvents = 4
    MaxCreates = 2
    MaxStops = 1
    MaxForeign = 1
    MaxFaults = 2
    MaxDenials = 1
    MaxReloads = 1
    MaxOvertakes = 1
    MaxIncidents = 3
    Session = {e1, e2}
    MaxRechecks = 2
    Unknown = Unknown
    Scenarios <- ListenerScenarios
    e1 = e1
    e2 = e2
SYMMETRY PartsSymmetry
INVARIANTS
    OnlyOwnPositioned
    WatchesWhileLive
    CreatedIsShared
    ToastsAreTrue
CHECK_DEADLOCK FALSE
