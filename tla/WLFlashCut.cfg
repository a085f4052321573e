SPECIFICATION Spec
CONSTANTS
    Values = {a, b}
    Erased = Erased
    Junk = Junk
    N = 3
    MaxCount = 2
    MaxRun = 1
    MaxOpCuts = 1
    MaxBootCuts = 0
    MaxFaults = 0
    Restarts = {"unmount", "idle"}
SYMMETRY Symmetry
INVARIANTS TypeOK Durable
PROPERTIES ImplementsVirtualDisk
