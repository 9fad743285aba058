SPECIFICATION MCSpec
CONSTANTS
    Sps <- MCSps
    MaxExtent = 64
    MaxNals = 5
    MaxParameterBytes = 16
    TileBudget = 2500
    SpanLimit = 24
    NalBytes = 72
    UnitBytes = 24
INVARIANTS
    DecodeForeseen
    ReadersAgree
CHECK_DEADLOCK FALSE
