SPECIFICATION Spec
CONSTANTS
    Sectors <- FiveSectors
    SectorBytes = 2
    BlockSize = 4
    HeaderThreshold = 6
    WipePasses = 0
    Systems = {"normal"}
    FaultyOperations <- HeaderFaults
    MaxFaults = 1
INVARIANT HeaderCurrent
