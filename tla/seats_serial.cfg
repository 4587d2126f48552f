CONSTANTS
    Workers = {w1}
    Users = {u1, u2}
    NoUser = NoUser
    EntryPoints = {"deleteUser", "assign", "enable", "moduleAdded", "biometric", "revoke", "disable",
                   "moduleRemoved", "biometricRelease", "sync", "update", "cancel", "create"}
    Totals = {1, 2}
    MaxSeatRows = 4
SPECIFICATION Spec
SYMMETRY Symmetry
INVARIANT SerialExact
