CONSTANTS
    Irps = {a, b}
    None = None
    DiskSize = 5
    ItemCount = 1
    RequestCount = 1
    TimeLimit = TRUE
    Queues <- DeviceQueues
SPECIFICATION Spec
SYMMETRY Symmetry
VIEW View
INVARIANTS TypeOK ProtectedUntouched StoppedClean
PROPERTY ImplementsDisk
