CONSTANTS
    Agents = {a1}
    Goroutines = {caller, i1, i2}
    Caller = caller
    RangeStart = 8100
    RangeEnd = 8101
    maxPortBindRetries = 3
    NoAgent = NoAgent
    NoPort = NoPort
    NoServer = NoServer
    Free = Free
SPECIFICATION Spec
INVARIANT RetriesUseDifferentPorts
