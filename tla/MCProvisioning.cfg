SPECIFICATION Spec
CONSTANTS
    Agents = {a1}
    Keys = {k1}
    Requests = {r1, r2}
    NoRequest = NoRequest
    maxPair = 4
SYMMETRY RequestSymmetry
INVARIANTS
    CertificatesVerify
    UpHasServerPair
    AgentPairMatches
PROPERTY
    CompletePairIsKept
