CONSTANTS
    Workers = {w1, w2}
    Clients = {d1}
    MaxAttempts = 2
    Messages = {m1}
    Readers = {r1, r2}
    None = None
    MaxEdits = 2
    MaxTime = 3
SPECIFICATION MCSpec
SYMMETRY Symmetry
CHECK_DEADLOCK FALSE
INVARIANTS
    
    BytesRecheck
    DeletedIsHidden
    
PROPERTIES
    ReadyHolds
    FreshRead
