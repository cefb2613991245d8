SPECIFICATION FairSpec
CONSTANTS
    i = i
    j = j
    NoId = NoId
    p1 = p1
    Loop = Loop
    Ids = {i, j}
    Policies <- AllPolicies
    Default <- Unset
    Procs = {p1}
    Broken = {j}
    Raising = {}
    Hasty = {j}
    Faults = {"unsaved", "remove"}
    Cap = 2
INVARIANTS
    TypeOK
    IntervalKept
    WindowFresh
    OnlyAsked
PROPERTIES
    NotStarved
    RotationGoesOn
    DelayNotRenewed
