CONSTANTS
    c1 = c1
    c2 = c2
    n1 = n1
    n2 = n2
    NoContract = NoContract
    Nodes = {n1, n2}
    Calls = {c1}
    Candidates <- FailoverCandidates
    CreatesNetwork = {}
    MultiWorkload = {}
    MayHang = {c1}
    MaxAttempts = 2
    Contracts <- MCContracts
    NodeOf <- MCNodeOf
    Hashes <- SameOnAllNodes
    HashOf <- SameOnAllNodesOf
SPECIFICATION FairSpec
INVARIANTS TypeOK OutcomeIsLive
PROPERTIES EveryCallReturns KeepsLease
