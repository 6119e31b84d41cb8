CONSTANTS
    Processes = {p1}
    Dirs = {d1, d2}
    None = None
    Gone = Gone
    Stalls = FALSE
    MaxCrashes = 0
SPECIFICATION FairSpec
PROPERTY StaysOnline
