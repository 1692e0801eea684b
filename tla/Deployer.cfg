CONSTANTS
    d1 = d1
    d2 = d2
    k1 = k1
    k2 = k2
    n1 = n1
    n2 = n2
    n3 = n3
    NoId = NoId
    NoNode = NoNode
    Deploys = {d1, d2}
    Cancels = {k1, k2}
    Nodes = {n1, n2, n3}
    Registered = {n1, n2}
    Hashes = {h}
    Fixture = {1}
    MaxId = 3
SPECIFICATION Spec
SYMMETRY Symmetric
INVARIANTS TypeOK IndexesAgree DeployedIsLive CancelledIsUndeployed
