SPECIFICATION Spec
CONSTANTS
    r1 = r1
    r2 = r2
    f = f
    e = e
    Everyone = Everyone
    Routers = {r1, r2}
    Foreign = {f}
    EndDevices = {e}
    MaxRadius = 3
    Traffic <- MCTraffic
    Targets = {e, Everyone}
    Capacity = 1
    RequestIds = {1}
    MaxFrames = 1
    MaxAsked = 1
    MaxCuts = 2
    MaxMoves = 1
    MaxAir = 1
    Known <- MCKnown
PROPERTY BroadcastSurvived
CHECK_DEADLOCK FALSE
