CONSTANTS
    Irps = {a, b}
    None = None
    DiskSize = 4
    ItemCount = 1
    RequestCount = 1
    TimeLimit = FALSE
    Queues <- LiveQueues
SPECIFICATION FairSpec
PROPERTIES IrpsComplete HoldWakes StopReturns
