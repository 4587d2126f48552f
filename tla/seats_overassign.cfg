CONSTANTS
    Workers = {w1, w2}
    Users = {u1, u2}
    NoUser = NoUser
    EntryPoints = {"create", "assign"}
    Totals = {1}
    MaxSeatRows = 3
SPECIFICATION Spec
INVARIANT NoOverAssignment
