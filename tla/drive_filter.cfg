SPECIFICATION Spec
CONSTANTS
    Sectors <- FiveSectors
    SectorBytes = 2
    BlockSize = 4
    HeaderThreshold = 6
    WipePasses = 2
    Systems = {"normal", "hidden"}
    FaultyOperations <- NoHeaderFaults
    MaxFaults = 2
INVARIANT TypeOK LossBounded HeaderCurrent KeysOpenWhenUsed WipeReported
PROPERTY RequestsReturn
