SPECIFICATION FairSpec
CONSTANTS
    i = i
    j = j
    NoId = NoId
    p1 = p1
    Loop = Loop
    Ids = {i, j}
    Policies <- SomePolicies
    Default <- Unset
    Procs = {}
    Broken = {}
    Raising = {j}
    Hasty = {}
    Faults = {}
    Cap = 2
PROPERTY
    NotStarved
