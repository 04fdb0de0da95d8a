SPECIFICATION LiveSpec
CONSTANTS
    Rooms = {r1,r2}
    MaxEvents = 5
    MaxCreates = 2
    MaxStops = 0
    MaxForeign = 0
    MaxFaults = 0
    MaxDenials = 0
    MaxReloads = 0
    MaxOvertakes = 0
    MaxIncidents = 2
PROPERTIES
    ExpiredIsStopped
    EachGetsLocation
CHECK_DEADLOCK FALSE
