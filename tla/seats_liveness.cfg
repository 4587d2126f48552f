CONSTANTS
    Workers = {w1, w2}
    Users = {u1}
    NoUser = NoUser
    EntryPoints = {"deleteUser", "payroll", "disable", "sync", "create"}
    Totals = {1}
    MaxSeatRows = 2
SPECIFICATION FairSpec
PROPERTY DriftHeals
