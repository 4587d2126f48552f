\* Two half days to a day, two days, two requests at a time.
SPECIFICATION Spec
CONSTANTS
    w1 = w1
    w2 = w2
    Workers = {w1, w2}
    LastDay = 2
    LastInstant = 4
    Date <- HalfDays
    DayLength = 2
    Window = 2
    NightLength = 1
    MaxRequests = 3
SYMMETRY Symmetry
CONSTRAINT OneAsked
INVARIANTS
    TypeOK
    PunchesOnTheirDay
    InOrder
PROPERTIES
    LonePunchSettles
    ApprovalShows
\* Every run ends when its requests are used up.
CHECK_DEADLOCK FALSE
