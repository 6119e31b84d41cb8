CONSTANTS
    Processes = {p1, p2}
    Dirs = {d1, d2}
    None = None
    Gone = Gone
    Stalls = FALSE
    MaxCrashes = 1
SPECIFICATION MCSpec
SYMMETRY Symmetry
INVARIANTS
    TypeOK
    OneSession
    ServedUnderLease
    AloneHandsOver
PROPERTIES
    AloneKeepsLogin
