CONSTANTS
    Requests = {r1, r2}
    Receivers = {v1}
    NoRequest = noRequest
SPECIFICATION FairSpec
INVARIANTS
    NoPendingLeak
PROPERTIES
    EveryRequestReturns
    TeardownEnds
    ReceiverGoesOn
