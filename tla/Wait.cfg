CONSTANTS
    vm = vm
    volume = volume
    ip = ip
    NoView = NoView
    Names = {vm, volume, ip}
SPECIFICATION Spec
INVARIANTS SettledIsConclusive OneTimeoutMeansNotUp
PROPERTY WaitEnds
