CONSTANTS
    Requests = {r1}
    Grants = {g1, g2}
    Tokens = {t1, t2}
    Scopes = {s1, s2}
    Workers = {w1, w2}
    None = None
    Registrations = {c1, c2}
    MaxUnused = 1
SPECIFICATION MCSpec
SYMMETRY Symmetry
INVARIANTS
    ClosedStaysClosed
    OneWayForward
    DetectedReplayCloses
    OneGrantPerRequest
    ScopesNeverWiden
    RegistrationsSound
