SPECIFICATION Spec
CONSTANTS
    x = x
    y = y
    z = z
    here = here
    there = there
    Calls <- MCCalls
    Processes <- MCProcesses
    ProcessOf <- MCProcessOf
    Pid <- MCPid
    Times = {0}
    MaxAttempts = 2
    Scenarios <- MCScenarios
INVARIANTS
    TypeOK
    OwnSpool
    NothingLeft
    AgreesWithBytes
