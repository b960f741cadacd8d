\* One job of every shape, two accounts, three interruptions.
SPECIFICATION Spec
CONSTANTS
    j1 = j1
    j2 = j2
    a1 = a1
    a2 = a2
    c1 = c1
    Jobs = {j1}
    Accounts = {a1, a2}
    Channels = {c1}
    ChannelOf <- OneChannel
    Shapes <- AllShapes
    MaxAttempts = 3
    MaxDisturbances = 3
    NoAccount = NoAccount
    NoJob = NoJob
SYMMETRY AccountSymmetry
INVARIANTS
    DeliveryInv
    DeliverySafety
PROPERTIES
    DeliverySteps
CHECK_DEADLOCK FALSE
