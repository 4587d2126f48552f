CONSTANTS
    Workers = {w1, w2}
    Users = {u1, u2}
    NoWorker = NoWorker
    Nothing = Nothing
    EntryPoints = {"deleteUser", "assign", "remove", "update", "delete"}
    Budgets = {1, 2}
    MaxAssignments = 3
SYMMETRY Symmetry
SPECIFICATION Spec
INVARIANTS TypeOK OneAssignmentPerUser VacanciesShow
PROPERTIES AssignKeepsBudget StatusFollowsHeadcount
