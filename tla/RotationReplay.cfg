SPECIFICATION Spec
CONSTANTS
    x = x
    y = y
    z = z
    i = i
    j = j
    NoMap = NoMap
    NoCycle = NoCycle
    Ids = {i}
    Ahead <- InOrder
    Maps = {y, z}
    Cycles <- OneCycle
    Faults = {"crash"}
    MaxQueue = 0
    MaxPast = 0
    MaxMatches = 1
INVARIANT
    OncePerMatch
