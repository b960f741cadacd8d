\* An account left in flood wait without a deadline.
SPECIFICATION Spec
CONSTANTS
    j1 = j1
    j2 = j2
    a1 = a1
    a2 = a2
    c1 = c1
    Jobs = {j1}
    Accounts = {a1}
    Channels = {c1}
    ChannelOf <- OneChannel
    Shapes <- LiveShapes
    MaxAttempts = 2
    MaxDisturbances = 1
    NoAccount = NoAccount
    NoJob = NoJob
INVARIANTS
    FloodWaitHasDeadline
CHECK_DEADLOCK FALSE
