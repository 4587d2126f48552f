CONSTANTS
    Workers = {w1, w2}
    Nothing = Nothing
    EntryPoints = {"apply", "update", "cancel", "approve", "reject", "override", "punch"}
    LastDate = 3
    PeriodLength = 2
    Cells = {2}
    Quota = 4
    CarryForward = TRUE
    Approvals = {TRUE, FALSE}
    Requests <- LongLeaves
    MaxApps = 3
SPECIFICATION Spec
SYMMETRY Symmetry
CONSTRAINT RacesWithinReach
INVARIANTS TypeOK RowAgrees SerialExact SerialNoOverlap
