CONSTANTS
    Workers = {w1, w2}
    Users = {u1, u2}
    NoWorker = NoWorker
    Nothing = Nothing
    EntryPoints = {"assign", "remove"}
    Budgets = {2}
    MaxAssignments = 2
SPECIFICATION Spec
INVARIANT HeadcountExact
