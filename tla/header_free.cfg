CONSTANTS
    Workers = {w1, w2}
    DataClients = {}
    KeyClients = {k1}
    KeyItems = {1, 2, 3}
    None = None
    QueueSize = 4
    MaxUnits = 1
    PrfCount = 3
SPECIFICATION HeaderFairSpec
INVARIANT FreedWhenUnused
CHECK_DEADLOCK FALSE
