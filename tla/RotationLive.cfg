SPECIFICATION FairSpec
CONSTANTS
    x = x
    y = y
    z = z
    i = i
    j = j
    NoMap = NoMap
    NoCycle = NoCycle
    Ids = {i, j}
    Ahead <- InOrder
    Maps = {y}
    Cycles <- OneMap
    Faults = {"outage", "io", "unlink", "crash"}
    MaxQueue = 0
    MaxPast = 0
    MaxMatches = 2
INVARIANT
    OncePerLife
PROPERTY
    MatchHandled
