CONSTANTS
    get1 = get1
    get2 = get2
    deploy = deploy
    NoCall = NoCall
    Calls = {get1, get2, deploy}
    UnitCalls = {deploy}
SPECIFICATION FairSpec
INVARIANTS MutexIsSound NoCrossTalk OkWasHandled SocketPresent
PROPERTY EveryCallReturns
