CONSTANTS
    Agents = {a1}
    Streams = {s1, s2}
    Requesters = {}
    Ports = {p1}
    NoPort = noPort
    NoAgent = noAgent
    NoConn = noConn
    sendChannelBuffer = 1
    Pings = FALSE
SPECIFICATION FairSpec
INVARIANTS
    NoGhostConnections
PROPERTIES
    ImplementsConnectionManager
    CancelledReturns
    StopLeavesNothing
