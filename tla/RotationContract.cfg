SPECIFICATION Spec
CONSTANTS
    x = x
    y = y
    z = z
    i = i
    j = j
    NoMap = NoMap
    NoCycle = NoCycle
    Ids = {i}
    Ahead <- InOrder
    Maps = {x, y, z}
    Cycles <- SomeCycles
    Faults = {"outage", "lost", "io", "unlink", "quick"}
    MaxQueue = 2
    MaxPast = 2
    MaxMatches = 2
INVARIANTS
    TypeOK
    OncePerMatch
PROPERTIES
    RotationContract
    
