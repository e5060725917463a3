CONSTANTS
    Irps = {a, b}
    None = None
    DiskSize = 3
    ItemCount = 2
    RequestCount = 3
    TimeLimit = TRUE
    Queues <- FilterQueue
SPECIFICATION Spec
SYMMETRY Symmetry
VIEW View
INVARIANTS HoldExclusive LayersMatchArea ReadsDecrypted
PROPERTY ImplementsDisk
