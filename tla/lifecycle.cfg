SPECIFICATION FairSpec
CONSTANTS
    s1 = s1
    s2 = s2
    w1 = w1
    Subs = {s1, s2}
    Edited = {s1}
    Priceable = {s2}
    Workers = {w1}
    TrialDays = 1
    Period = 1
    Grace = 1
    Warn = 2
    Suspend = 3
    Deactivate = 4
    LastDay = 6
    MaxEdits = 2
INVARIANTS
    TypeOK
    CancellationHolds
PROPERTIES
    EnforcementVerdict
    TrialsEnd
