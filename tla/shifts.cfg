SPECIFICATION Spec
CONSTANTS
    w1 = w1
    w2 = w2
    u1 = u1
    u2 = u2
    day = day
    night = night
    Off = Off
    Workers = {w1, w2}
    Users = {u1, u2}
    Shifts = {day, night}
    Horizon = 3
    Today = 2
    EntryPoints = {"assign", "bulk", "update", "delete", "swap", "profile"}
    MaxRequests = 2
SYMMETRY Symmetry
CONSTRAINT WithinReach
INVARIANTS
    TypeOK
    CleanTimeline
PROPERTIES
    ImplementsRoster
CHECK_DEADLOCK FALSE
