SPECIFICATION FairSpec
CONSTANTS
    ann = ann
    bob = bob
    eve = eve
    k1 = k1
    k2 = k2
    k3 = k3
    Names = {ann, bob, eve}
    Keys = {k1, k2, k3}
    Key <- SomeKey
    Limit = 2
    Window = 2
    MaxKeys = 2
    Tokens = {t1}
    Domains = {d1, d2}
    None = None
    Faults = {"restart", "half"}
INVARIANTS
    TypeOK
    TrackedBounded
    SetupDone
    PlanAsAnswered
PROPERTIES
    LimiterContract
    ForgottenInOrder
    LockEnds
