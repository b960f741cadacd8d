\* Two keywords with one canonical form, one of them a trigger already; two
\* accounts, a profile with one place; Tor with no or two bridges; the workers
\* of the program in three selections.
SPECIFICATION DesktopSpec
CONSTANTS
    k1 = k1
    k2 = k2
    Values = {k1, k2}
    Lemma <- KeywordLemma
    Corpora <- KeywordCorpora
    Kept = {k1}
    Clerks = {c1}
    MaxAsked = 2
    a1 = a1
    a2 = a2
    p1 = p1
    c1 = c1
    c2 = c2
    RouteAccounts = {a1, a2}
    Profiles = {p1}
    RouteCapacity = 1
    RouteCalls = {c1, c2}
    MaxCalls = 3
    MaxRouteFaults = 1
    BridgeCounts = {0, 2}
    MaxTorFaults = 1
    MaxStarts = 1
    o1 = o1
    Operations = {o1}
    MaxLaunches = 2
    InUse = {{"message", "backup"}, {"analysis"}, {"dm", "maintenance"}}
INVARIANTS
    KeywordsInv
    RoutesInv
    ConnInv
    LifecycleInv
PROPERTIES
    KeywordsSettle
    RouteRecovers
    ConnSettles
    ShutdownEnds
CHECK_DEADLOCK FALSE
