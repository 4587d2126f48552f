CONSTANTS
    Workers = {w1, w2}
    Users = {u1, u2}
    NoUser = NoUser
    EntryPoints = {"deleteUser", "assign", "moduleAdded", "revoke", "cancel", "create"}
    Totals = {1, 2}
    MaxSeatRows = 3
SPECIFICATION Spec
SYMMETRY Symmetry
INVARIANTS TypeOK BoundedOvershoot SweepBound
PROPERTY RevokesWhatItSaw
