CONSTANTS
    Requests = {r1}
    Grants = {g1}
    Tokens = {t1, t2}
    Scopes = {s1}
    Workers = {w1}
    None = None
SPECIFICATION FairSpec
INVARIANT ReplayClosesGrant
