SPECIFICATION Spec
CONSTANTS
    mm = mm
    v1 = v1
    v2 = v2
    lib = lib
    bin = bin
    dll = dll
    r1 = r1
    r2 = r2
    Ids = {r1, r2}
    Packages = {mm, v1, v2}
    Paths = {lib, bin, dll}
    Files <- SomeFiles
    Kind <- SomeKinds
    Wanted = {}
    Kept = {lib, bin}
    Nothing = Nothing
    Torn = Torn
    NoRow = NoRow
    Procs = {w1, w2}
    Faults = {"clash", "again"}
    MaxBackups = 1
INVARIANT Settled
