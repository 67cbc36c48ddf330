CONSTANTS
    Agents = {a1}
    Streams = {s1}
    Requesters = {r1}
    Ports = {p1}
    NoPort = noPort
    NoAgent = noAgent
    NoConn = noConn
    sendChannelBuffer = 1
    Pings = TRUE
SPECIFICATION FairSpec
PROPERTIES
    DeadStreamReturns
    LoopsEnd
    StaleIsRemoved
