CONSTANTS
    Irps = {a}
    None = None
    DiskSize = 5
    ItemCount = 1
    RequestCount = 1
    TimeLimit = TRUE
    Queues <- FailingRemapQueue
SPECIFICATION Spec
INVARIANT SuccessIsComplete
