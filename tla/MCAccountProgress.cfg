CONSTANTS
    Processes = {p1}
    Dirs = {d1, d2}
    None = None
    Gone = Gone
    Stalls = TRUE
    MaxCrashes = 1
SPECIFICATION FairSpec
PROPERTIES
    RunnersStop
