SPECIFICATION PubSpec
CONSTANTS
    Generators = {g1, g2}
    Machines = {m1, m2}
    RevHandles = {h1, h2}
    PublishAttempts = 2
    MaxRemoteFaults = 1
    g1 = g1 g2 = g2 m1 = m1 m2 = m2 h1 = h1 h2 = h2
SYMMETRY PubSymmetry
INVARIANT PendingCanRetry
CHECK_DEADLOCK FALSE
