SPECIFICATION MCSpec
CONSTANTS
    CopyFactor = 2
    PayloadFloor = 5
    MaxAssociations = 10
    MaxExtents = 10
    MaxItems = 7
    MaxProperties = 20
    MaxReferences = 10
    MaxTiles = 4
    MaxPixels = 16
    MaxInputBytes = 12
    MaxItemBytes = 2
    MaxExifBytes = 4
INVARIANTS
    CacheIsTransparent
    BoundedAgreesWithEager
    PlanCovers
CHECK_DEADLOCK FALSE
