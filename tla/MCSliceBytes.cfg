SPECIFICATION Spec
CONSTANTS
    Payloads <- MCPayloads
    Before <- MCBefore
    After <- MCAfter
    Cuts <- MCCuts
    PrefixBytes = 6
    SkipBytes = 2
    ReadAhead = 2
    Capacity = 3
    MaxNals = 2
    MaxAsked = 3
    MaxCtus = 2
INVARIANTS
    SameBytes
    EntryPointsRight
PROPERTY
    NoneAfterFailure
