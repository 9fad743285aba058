SPECIFICATION FairSpec
CONSTANT
    Bands <- MCBands
INVARIANTS
    ReturnNeverBlocks
    CauseReported
PROPERTIES
    DeliversStream
    TileReturns
