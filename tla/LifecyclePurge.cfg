SPECIFICATION Spec
CONSTANTS
    a = a
    b = b
    NoId = NoId
    p1 = p1
    Loop = Loop
    Ids = {a, b}
    Imported = {a}
    Scheduled = {a, b}
    q1 = q1
    q2 = q2
    Ports = {q1, q2}
    Slugs = {1, 2}
    Procs = {p1}
    Faults = {}
    MaxLate = 0
INVARIANT
    PurgeWhileStopped
