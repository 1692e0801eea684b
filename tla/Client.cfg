CONSTANTS
    k1 = k1
    k2 = k2
    rent = rent
    name = name
    p1 = p1
    p2 = p2
    h1 = h1
    h2 = h2
    s1 = s1
    s2 = s2
    NoPreset = NoPreset
    Bytes = {0, 3, 4}
    BytesPerGib = 2
    Cores = {1, 3}
    Balances = {0, 9000, 60000}
    CuPrice = 1
    SuPrice = 1
    IpPrice = 1
    DedicatedFee = 1
    DedicatedDiscount = 50
    Owners = {k1, k2, rent, name}
    KindOf <- MCKindOf
    Listed = {{k1, k2}, {k1, rent}}
    Overdrafts = {0, 3}
    Unbilled = {0, 2}
    PeriodCosts = {1}
    MaxBills = 1
    MaxDepth = 3
    Endpoints = {"substrate", "relay"}
    Urls <- MCUrls
    UrlLists <- MCUrlLists
    Presets <- MCPresets
    Spellings <- MCSpellings
    Timeouts = {5, 30}
    MaxSetters = 3
    Placed = {p1, p2}
    Wants <- MCWants
    Listings <- MCListings
    MaxCandidates = 2
    FirstPort = 1
    EndPort = 3
    Hosts = {h1, h2}
    MaxAmount = 2
    Declared <- MCDeclared
    MaxEdits = 1
    Senders = {s1, s2}
    Requested <- MCRequested
    Seconds = {7, 190}
    Secrets <- MCSecrets
SPECIFICATION ClientSpec
CHECK_DEADLOCK FALSE
INVARIANTS
    PricesOrdered
    OverdueCovers
    BuiltAsDocumented
    ClashNeedsOverlap
    MatchRestores
    HashSurvives
    HashTellsApart
    OutcomeIsOwn
