CONSTANTS
    VRPs = {v1, v2}
    K = 3
    SerialSpace = 8
    MaxInstalls = 5
    Routers = {r1, r2}
    SendNotifs = TRUE
    None = None
    Reset = Reset
SPECIFICATION Spec
INVARIANT TypeOK
PROPERTY ImplementsAbstract
