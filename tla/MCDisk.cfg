\* Two launches with two secrets and one kill; three archives of two session
\* files; two senders with stale clocks.
SPECIFICATION DiskSpec
CONSTANTS
    l1 = l1
    l2 = l2
    n1 = n1
    n2 = n2
    Launches = {l1, l2}
    SecretNames = {n1, n2}
    MaxIntrusions = 2
    MaxFaults = 1
    MaxKills = 1
    f1 = f1
    f2 = f2
    user = user
    SessionFiles = {f1, f2}
    Askers = {user}
    Ids = {1, 2, 3}
    MaxSchema = 2
    MaxWrites = 1
    MaxNow = 1
    MaxTroubles = 1
    DailyRetention = 1
    MonthlyRetention = 1
    c1 = c1
    c2 = c2
    Callers = {c1, c2}
    Settings <- OneLimit
    MaxPerMinute = 2
    MinInterval = 2
    Window = 5
    MaxClock = 6
    ClockSetBack = TRUE
SYMMETRY SessionSymmetry
INVARIANTS
    SeedInv
    BackupInv
    RateInv
PROPERTIES
    UndoRestoresSecrets
    RotationKeepsNewest
CHECK_DEADLOCK FALSE
