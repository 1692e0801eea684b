CONSTANTS
    get1 = get1
    get2 = get2
    deploy = deploy
    NoCall = NoCall
    Calls = {get1, deploy}
    UnitCalls = {deploy}
SPECIFICATION Spec
INVARIANT OkMeansReply
