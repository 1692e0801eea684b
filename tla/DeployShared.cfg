CONSTANTS
    c1 = c1
    c2 = c2
    n1 = n1
    n2 = n2
    NoContract = NoContract
    Nodes = {n1, n2}
    Calls = {c1, c2}
    Candidates <- SharedCandidates
    CreatesNetwork = {c1}
    MultiWorkload = {c1, c2}
    MayHang = {}
    MaxAttempts = 1
    Contracts <- MCContracts
    NodeOf <- MCNodeOf
    Hashes <- SameOnAllNodes
    HashOf <- EqualVmsOf
CONSTRAINT NeverHalted
SPECIFICATION Spec
INVARIANTS RollbackComplete OutcomeIsLive NetworkOutlivesVm CancelledIsGone
