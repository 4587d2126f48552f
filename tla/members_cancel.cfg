\* A free plan: two accounts, three with the invitations that are out.
SPECIFICATION Spec
CONSTANTS
    w1 = w1
    w2 = w2
    e1 = e1
    e2 = e2
    Workers = {w1, w2}
    Emails = {e1, e2}
    Plan = "free"
    Allowed = 3
    FreeMax = 2
    MaxAccounts = 2
    MaxInvitations = 2
    MaxRequests = 3
SYMMETRY Symmetry
INVARIANTS
    CancelSparesWorking


\* Every run ends when its requests are used up.
CHECK_DEADLOCK FALSE
