CONSTANTS
    g1 = g1
    g2 = g2
    g3 = g3
    g4 = g4
    n1 = n1
    NoNode = NoNode
    NoContract = NoContract
    Nodes = {n1, NoNode}
    Calls = {g1, g2}
    NameCalls = {g1, g2}
    CreateCalls = {}
    MayHang = {}
    MaxAttempts = 1
    Contracts <- MCContracts
    NodeOf <- MCNodeOf
    Hashes <- SameHashes
    HashOf <- SameHashOf
SPECIFICATION Spec
INVARIANT NameIsFresh
