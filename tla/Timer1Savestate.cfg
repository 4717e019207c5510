CONSTANTS
    Radix = 3
    Written = {0, 2}
    NoWrite = NoWrite
SPECIFICATION SpecSavestate
INVARIANT NoEventSkipped
