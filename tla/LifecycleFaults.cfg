SPECIFICATION Spec
CONSTANTS
    a = a
    b = b
    NoId = NoId
    p1 = p1
    Loop = Loop
    q1 = q1
    Ids = {a, b}
    Imported = {a}
    Scheduled = {a}
    Ports = {q1}
    Slugs = {1}
    Procs = {p1}
    Faults = {"overlap", "lost", "late", "crash", "exit"}
    MaxLate = 1
INVARIANTS
    TypeOK
    UpdateWhileStopped
PROPERTY
    TruthAfterSolo
