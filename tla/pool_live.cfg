CONSTANTS
    Workers = {w1, w2}
    DataClients = {c1, c2}
    KeyClients = {}
    KeyItems = {i1}
    None = None
    QueueSize = 4
    MaxUnits = 2
SPECIFICATION FairSpec
PROPERTIES DoWorkReturns StopReturns
