CONSTANTS
    Slots = {w1, w2}
    None = None
    MaxMsg = 2
    MaxPage = 2
    MaxBoots = 2
    MaxFaults = 1
    People = {p1, p2, p3}
    MaxChanges = 1
    MaxJobs = 2
    PageSize = 1
    MaxMembers = 3
    MaxSnapFaults = 2
SPECIFICATION MCSpec
SYMMETRY Symmetry
CHECK_DEADLOCK FALSE
INVARIANTS
    
    
    MembersSound
