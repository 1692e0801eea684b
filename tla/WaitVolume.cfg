CONSTANTS
    vm = vm
    volume = volume
    ip = ip
    NoView = NoView
    Names = {vm, volume}
SPECIFICATION Spec
INVARIANT TimeoutMeansNotUp
