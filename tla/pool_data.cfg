CONSTANTS
    Workers = {w1,w2}
    DataClients = {c1}
    KeyClients = {k1}
    KeyItems = {i1}
    None = None
    QueueSize = 4
    MaxUnits = 5
SPECIFICATION Spec
SYMMETRY Symmetry
VIEW View
INVARIANTS TypeOK PoolAccounting ItemExclusive
PROPERTY ImplementsTransform
