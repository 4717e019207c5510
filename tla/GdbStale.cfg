\* The same instance.
SPECIFICATION Spec
CONSTANTS
    Words = 2
    Wait = 2
    MaxBreakpoints = 2
    MaxNaks = 1
    MaxInterrupts = 2
    MaxQueue = 2
CHECK_DEADLOCK FALSE
PROPERTY ExecutesAtPc
