CONSTANTS
    Agents = {a1, a2}
    Streams = {s1, s2, s3}
    Ports = {p1, p2}
    NoPort = noPort
    NoAgent = noAgent
    NoConn = noConn
SPECIFICATION CMSpec
SYMMETRY Symmetry
INVARIANTS
    CMTypeOK
    RegisteredAreLive
    LiveAreRegistered
    ClosedOnce
    ServersHaveConnections
