\* Three founders and one to be added, two requests at a time.
SPECIFICATION Spec
CONSTANTS
    w1 = w1
    w2 = w2
    ann = ann
    bob = bob
    cleo = cleo
    dora = dora
    Workers = {w1, w2}
    Users = {ann, bob, cleo, dora}
    Creator = ann
    Founders = {bob, cleo}
    MaxMessages = 2
    MaxRequests = 4
SYMMETRY Symmetry
INVARIANTS
    TypeOK
    LastMessageIsThere
    MarkersBehindLog
PROPERTIES
    SentUnread
    ReadTicksStand
\* Every run ends when its requests are used up.
CHECK_DEADLOCK FALSE
