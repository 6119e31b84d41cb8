CONSTANTS
    b1 = b1
    b2 = b2
    c1 = c1
    c2 = c2
    Handlers = {h1, h2}
    Keys = {k1, k2}
    Bodies = {b1, b2}
    Chats = {c1, c2}
    ChatOf <- MCChatOf
    None = None
    Capacity = 1
SPECIFICATION Spec
SYMMETRY Symmetry
INVARIANTS
    TypeOK
    AtMostOnceDispatch
    AcceptedIsReal
    RevocationHolds
PROPERTY ReservationIsDurable
