CONSTANTS
    Writers = {w1, w2}
    Chains = {account, global}
    Events = {read}
    Times = {1, 2}
    Grain = 2
    None = None
    MaxId = 4
    Requests = {q1}
    Grants = {g1}
    Tokens = {t1}
    Scopes = {s1}
    Workers = {h1, h2}
SPECIFICATION MCSpec
CHECK_DEADLOCK FALSE
INVARIANTS
    ChainsVerify
PROPERTIES
    HistorySpec
    WriteEnds
    WaiterServed
