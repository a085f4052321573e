SPECIFICATION Spec
CONSTANTS
    NOta = 3
    HasTest = FALSE
    NHandles = 1
    Careful = TRUE
    Interrupts = {"select"}
    MaxInterrupts = 2
    MaxSeq = 8
INVARIANTS TypeOK BootPartitionAgrees NeverHalted
PROPERTY ImplementsBootChoice
