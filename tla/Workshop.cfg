SPECIFICATION Spec
CONSTANTS
    w1 = w1
    w2 = w2
    w3 = w3
    m1 = m1
    m2 = m2
    png = png
    jpg = jpg
    Maps = {m1, m2}
    Suffixes = {png, jpg}
    Procs = {w1, w2, w3}
    None = None
    Faults = {"broken", "oversize", "cut", "restart"}
SYMMETRY Symmetry
INVARIANTS
    TypeOK
    Served
    UploadKept
