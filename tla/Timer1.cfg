\* Three values per byte, so a counter of nine; the program writes bytes 0 and 2.
CONSTANTS
    Radix = 3
    Written = {0, 2}
    NoWrite = NoWrite
SPECIFICATION FairSpec
INVARIANTS
    TypeOK
    NoEventSkipped
PROPERTIES
    ImplementsRef
    CompareRecurs
