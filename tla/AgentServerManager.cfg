CONSTANTS
    Agents = {a1, a2, a3}
    Goroutines = {caller, i1, i2}
    Caller = caller
    RangeStart = 8100
    RangeEnd = 8101
    maxPortBindRetries = 2
    NoAgent = NoAgent
    NoPort = NoPort
    NoServer = NoServer
    Free = Free
SPECIFICATION FairSpec
INVARIANT TypeOK
INVARIANT PortsConserved
INVARIANT ReturnNeverBlocks
INVARIANT NoPortLeak
INVARIANT OnePortPerAgent
INVARIANT ListenersOwnTheirPort
INVARIANT RetryReusesOnlyWhenExhausted
PROPERTY ShutdownLeavesNoServer
PROPERTY ImplementsAgentServers
PROPERTY CallReturns
PROPERTY FailedServerIsRemoved
