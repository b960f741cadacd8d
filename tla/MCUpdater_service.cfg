\* A user, the chain of automatic checks, Start and two calls of Stop.
SPECIFICATION Spec
CONSTANTS
    c1 = c1
    s1 = s1
    s2 = s2
    v1 = v1
    Callers = {c1}
    Stoppers = {s1, s2}
    Versions = {v1}
    Reports <- SomeReports
    MaxOps = 4
    MaxTimers = 2
    NoVersion = NoVersion
SYMMETRY Symmetry
INVARIANTS
    UpdaterInv
    ChainInv
PROPERTIES
    UpdateNeverLost
CHECK_DEADLOCK FALSE
