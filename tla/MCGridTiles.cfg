SPECIFICATION FairSpec
CONSTRAINT MCChosen
CONSTANTS
    first = first
    second = second
    Calls <- MCCalls
    Inside <- MCOneInside
    Workers = 3
    MaxThreads = 3
    MaxTiles = 4
    Budget = 5
    Estimates <- MCEstimates
INVARIANTS
    WithinBounds
    AccountsExact
PROPERTIES
    DecodesInOrder
    CallsReturn
