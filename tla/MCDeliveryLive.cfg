\* Two jobs, one account: every job ends although every send may fail.  Two
\* licences, revoked or not, with room for one receipt, and a clock that is set
\* at will.
SPECIFICATION LiveSpec
CONSTANTS
    j1 = j1
    j2 = j2
    a1 = a1
    a2 = a2
    c1 = c1
    Jobs = {j1, j2}
    Accounts = {a1}
    Channels = {c1}
    ChannelOf <- OneChannel
    Shapes <- LiveShapes
    MaxAttempts = 2
    MaxDisturbances = 1
    NoAccount = NoAccount
    NoJob = NoJob
    l1 = l1
    l2 = l2
    Handles = {l1, l2}
    MaxClock = 1
    OfflineGrace = 1
    ClockRollback = 0
    MaxReceipts = 1
    MaxKeyFaults = 1
INVARIANTS
    ModeRespected
PROPERTIES
    EveryJobEnds
    LockHolds
    NeverOlder
CHECK_DEADLOCK FALSE
