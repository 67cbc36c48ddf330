CONSTANTS
    Names = {root}
    Root = root
    Requests = {r1, r2}
    maxId = 2
    maxTokens = 1
    MaxConns = 1
SPECIFICATION Spec
INVARIANT PoolClosesUnused
PROPERTY DeletesOwnAccount
PROPERTY RequestEnds
PROPERTY ProcessEnds
