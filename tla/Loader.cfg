CONSTANTS
    n1 = n1
    n2 = n2
    NoNode = NoNode
    NoSubnet = NoSubnet
    NoId = NoId
    Nodes = {n1, n2}
    NetNames = {"net"}
    DeplNames = {"net", "vm"}
    Subnets = {"s1", "s2"}
    Ids <- MCIds
    IdSets = {{1}}
    Catalog <- MCCatalog
    Grids <- MCGrids
    MaxHeld = 2
    MaxChanges = 1
SPECIFICATION LoaderSpec
INVARIANTS
    LoadedAsHeld
    IdMatchesSubnet
    FailedLoadKeepsNetworks
    AccessIsOneNode
    ClusterIsAddressed
