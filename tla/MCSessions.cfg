CONSTANTS
    Calls = {initialize, close}
    InitCall = initialize
    CloseCall = close
    MaxUpdates = 1
    MaxQueue = 2
    None = None
    Keys = {k1, k2}
    Addresses = {i1}
    Attempts = {a1, a2}
    Requests = {r1, r2}
    Sweeper = Sweeper
    MaxAll = 2
    MaxSame = 1
    OpenFails = TRUE
    Straddles = FALSE
SPECIFICATION MCSpec
CHECK_DEADLOCK FALSE
INVARIANTS
    NoUseAfterDestroy
    AnswersSound
    
    
PROPERTIES
    ServiceSpec
    
