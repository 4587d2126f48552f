CONSTANTS
    Workers = {w1}
    Nothing = Nothing
    EntryPoints = {"apply", "approve"}
    LastDate = 3
    PeriodLength = 1
    Cells = {2}
    Quota = 4
    CarryForward = FALSE
    Approvals = {TRUE}
    Requests <- ShortLeaves
    MaxApps = 2
SPECIFICATION Spec
INVARIANT PeriodUsageKept
