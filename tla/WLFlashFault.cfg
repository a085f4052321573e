SPECIFICATION Spec
CONSTANTS
    Values = {a, b}
    Erased = Erased
    Junk = Junk
    N = 3
    MaxCount = 2
    MaxRun = 2
    MaxOpCuts = 0
    MaxBootCuts = 1
    MaxFaults = 1
    Restarts = {}
SYMMETRY Symmetry
PROPERTY ImplementsVirtualDisk
