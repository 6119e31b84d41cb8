CONSTANTS
    Limit = 2
    Cap = 2
    MaxMsg = 6
    MaxDeletes = 2
    MaxFaults = 1
    Chats = {c1, c2, c3, c4}
    Secret = {c4}
    MaxMoves = 1
    Slots = {w1, w2}
    None = None
    MaxQueued = 2
    MaxPage = 1
    MaxBoots = 1
SPECIFICATION MCSpec
CHECK_DEADLOCK FALSE
INVARIANTS
    WalkExact
    
PROPERTIES
    WalksEnd
    QueueDrains
