SPECIFICATION PartsSpec
CONSTANTS
    a = a
    b = b
    c = c
    d1 = d1
    d2 = d2
    r1 = r1
    r2 = r2
    r3 = r3
    alias = alias
    None = None
    Address = {a, b, c}
    Invalid = {c}
    Lists <- InviteLists
    MaxLimits = 2
    Room = {r1, r2, r3}
    Alias = {alias}
    RoomOf <- AliasOfRoom
    Device = {d1, d2}
    Scenarios <- CallScenarios
    ViewScenarios <- CheckedViews
INVARIANTS
    PartsTypeOK
    ResolvedIsTrue
    ConnectedShown
    UncleanRemembered
    LastViewWins
    OneSubscription
    AboutThisRoom
PROPERTIES
    InvitedOnce
    InviteSettles
    StuckDevicesGo
    NavigationSettles
CHECK_DEADLOCK FALSE
