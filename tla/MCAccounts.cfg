\* A channel of either catalog and an account, with faults; one task of up to
\* two runs, saved up to twice, also while a run is open.
SPECIFICATION AccountsSpec
CONSTANTS
    u1 = u1
    Members = {u1}
    Faults = TRUE
    t1 = t1
    r1 = r1
    r2 = r2
    a1 = a1
    a2 = a2
    c1 = c1
    Tasks = {t1}
    Recipients = {r1, r2}
    Accounts = {a1, a2}
    Callers = {c1}
    Drafts <- EditDrafts
    MaxRuns = 2
    MaxContacts = 2
    MaxSaves = 2
    MaxCrashes = 1
    NoTask = NoTask
INVARIANTS
    MembershipInv
    ScheduledDMInv
PROPERTIES
    RemovalKept
    RemovalCompletes
    OpenDeliveryEnds
CHECK_DEADLOCK FALSE
