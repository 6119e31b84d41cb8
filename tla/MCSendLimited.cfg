CONSTANTS
    b1 = b1
    b2 = b2
    c1 = c1
    c2 = c2
    Handlers = {h1}
    Keys = {k1}
    Bodies = {b1, b2}
    Chats = {c1, c2}
    ChatOf <- MCChatOf
    None = None
    Capacity = 1
SPECIFICATION FairSpec
PROPERTY LimitedIsRetryable
