SPECIFICATION WearSpec
CONSTANTS
    Values = {a}
    Erased = Erased
    Junk = Junk
    N = 3
    MaxCount = 3
    MaxRun = 1
    MaxOpCuts = 0
    MaxBootCuts = 0
    MaxFaults = 0
    Restarts = {"unmount"}
INVARIANT WearSpread
