\* Three interrupts in use, RAM for four bytes, from address 2 to 5.
CONSTANTS
    Radix = 3
    Sources = {"SPI_STC", "TIMER1_COMPA", "TIMER1_OVF"}
    Vector <- MCVector
    RamBase = 2
    RamSize = 4
    Targets = {0, 8}
    Pushed = {1}
    Masks <- MCMasks
SPECIFICATION FairSpec
INVARIANTS
    TypeOK
    StackInRam
    StackHolds
    NoPreemption
PROPERTIES
    ImplementsCallStack
    MostUrgentServed
