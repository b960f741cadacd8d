\* A user, Start, cancellations and Stop on the native driver; an account that
\* two routes can serve; three collection loops and two users.
SPECIFICATION BackgroundSpec
CONSTANTS
    c1 = c1
    s1 = s1
    v1 = v1
    Callers = {c1}
    Stoppers = {s1}
    Versions = {v1}
    Reports <- SomeReports
    MaxOps = 3
    MaxTimers = 0
    NoVersion = NoVersion
    StopOnMain = TRUE
    u1 = u1
    r1 = r1
    r2 = r2
    Accounts = {u1}
    Routes = {r1, r2}
    MaxRevision = 2
    MaxConnects = 2
    MaxRechecks = 1
    MaxRuns = 2
    d1 = d1
    d2 = d2
    Users = {d1, d2}
    MaxLoops = 3
INVARIANTS
    BridgeInv
    RuntimeInv
    CollectionInv
PROPERTIES
    StopHeldOnlyByBegin
    Settles
    KeepsCollecting
CHECK_DEADLOCK FALSE
