CONSTANTS
    Workers = {w1, w2}
    Nothing = Nothing
    EntryPoints = {"apply"}
    LastDate = 3
    PeriodLength = 2
    Cells = {2}
    Quota = 4
    CarryForward = FALSE
    Approvals = {TRUE}
    Requests <- LongLeaves
    MaxApps = 2
SPECIFICATION Spec
INVARIANT NoOverlap
