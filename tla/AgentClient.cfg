CONSTANTS
    Sessions = {s1, s2}
    NoSession = noSession
    sendChannelBuffer = 1
    initialDelay = 1
    maxDelay = 2
SPECIFICATION FairSpec
INVARIANTS
    StopLeavesNoStream
PROPERTIES
    StopEnds
    SessionEnds
    Reconnects
