CONSTANTS
    Workers = {w1}
    Nothing = Nothing
    EntryPoints = {"apply", "approve", "cancel", "punch"}
    LastDate = 3
    PeriodLength = 2
    Cells = {2}
    Quota = 4
    CarryForward = FALSE
    Approvals = {TRUE}
    Requests <- LongLeaves
    MaxApps = 1
SPECIFICATION Spec
PROPERTY PunchesSurvive
