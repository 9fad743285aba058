SPECIFICATION MCSpec
CONSTANTS
    Count = 4
    Columns = 2
    Limits = {0, 5, 13, 16, 17, 26, 30, 40}
    MinLimit = 1
    StageBytes <- MCStageBytes
    ExifBytes = 2
    Payloads = {1, 2}
    Reconstructions = {1, 3}
    Contribution <- MCContribution
    Hidden = {3}
    Parallelism = {1, 2, 3}
    Slack = 1
    PoolBase = 1
    Stack = 1
    Pictures <- MCPictures
    PayloadLengths = {40, 6000000}
    ParameterNals <- MCParameterNals
    SliceNals <- MCSliceNals
    EntryPoints = {0, 31, 1023}
    Regions <- MCRegions
    ParameterLimit = 65536
    CodecSlack = 1048576
    SaoInfoBytes = 21
INVARIANTS
    BudgetExact
    NoLateRefusal
    FirstErrorWins
    ImageComplete
    AllocatedWithinReservation
    EstimateCoversPicture
PROPERTIES
    CallReturns
