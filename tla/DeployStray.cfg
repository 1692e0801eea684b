CONSTANTS
    c1 = c1
    c2 = c2
    n1 = n1
    n2 = n2
    NoContract = NoContract
    Nodes = {n1, n2}
    Calls = {c1}
    Candidates <- FailoverCandidates
    CreatesNetwork = {c1}
    MultiWorkload = {}
    MayHang = {}
    MaxAttempts = 1
    Contracts <- MCContracts
    NodeOf <- MCNodeOf
    Hashes <- OwnHashes
    HashOf <- OwnHashOf
SPECIFICATION Spec
INVARIANT FailureLeavesNothing
