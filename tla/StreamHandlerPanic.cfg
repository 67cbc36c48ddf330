CONSTANTS
    Agents = {a1}
    Streams = {s1}
    Requesters = {}
    Ports = {p1}
    NoPort = noPort
    NoAgent = noAgent
    NoConn = noConn
    sendChannelBuffer = 1
    Pings = TRUE
SPECIFICATION Spec
INVARIANTS
    OperationsFailGracefully
